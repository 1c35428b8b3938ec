------------------------------- MODULE MCLife -------------------------------
(* The device leaves D0 and comes back while its interrupts are at work; the
   tail of PMIC 2 overlaps the others, and the interrupt disable, as it will.
   State 2 attaches and powers, 6 attaches and powers nothing, 1 detaches. *)
EXTENDS PowerCycle

MCActive == {"isr", "pmic1", "pmic2", "ioctl"}
MCStates == {1, 2, 6}
MCLevels == {0}
MCRegisters7 == {[level |-> 2, flipped |-> TRUE]}
MCPdTypes == {}
MCRequests == {[op |-> op, value |-> 1, short |-> FALSE] :
                 op \in {"pdEnable", "dataRole"}}

\* Once that tail has overlapped the interrupt disable, nothing is claimed.
Sequential == ~late /\ ~overlap
=============================================================================
