------------------------------- MODULE MCLive -------------------------------
(* Every callback returns, and the device gets out of D0: the write queue,
   which may orphan the lock, with the interrupt and the default queue that
   then wait for it, and the power change that waits for them. *)
EXTENDS PowerCycle

MCActive == {"isr", "ioctl", "writer"}
MCStates == {0, 1}
MCLevels == {0}
MCRegisters7 == {[level |-> 2, flipped |-> TRUE]}
MCPdTypes == {}
MCRequests == {[op |-> "pdEnable", value |-> 1, short |-> FALSE]}
=============================================================================
