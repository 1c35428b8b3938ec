------------------------------- MODULE MCHost -------------------------------
(* Every cable state and both polarities, one interrupt at a time. *)
EXTENDS Ice5Lp2k

MCActive == {"isr"}
MCStates == 0 .. 15
MCLevels == {0}
MCRegisters7 == Register7
MCPdTypes == {}
MCRequests == {}
=============================================================================
