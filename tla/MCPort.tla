------------------------------- MODULE MCPort -------------------------------
(* The port as the clients see it: the UC120 interrupt, both PMIC interrupts
   and clients that ask and that wait for notifications. *)
EXTENDS Ice5Lp2k

MCActive == {"isr", "pmic1", "pmic2", "ioctl"}
MCStates == {0, 1, 2}
MCLevels == {0, 2}
MCRegisters7 == {[level |-> 1, flipped |-> TRUE]}
MCPdTypes == {}
MCRequests == {[op |-> op, value |-> 0, short |-> FALSE] :
                 op \in {"notify", "getState"}}

\* Once the unlocked tail of PMIC 2 has overlapped, nothing is claimed.
Sequential == ~overlap
=============================================================================
