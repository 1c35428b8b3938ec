-------------------------------- MODULE MCPd --------------------------------
(* Power-delivery messages: a writer and readers against the interrupt, while
   the device leaves D0 and comes back, with every SPI transfer free to fail. *)
EXTENDS PowerCycle

MCActive == {"isr", "writer"}
MCStates == {0}
MCLevels == {0}
MCRegisters7 == {[level |-> 2, flipped |-> TRUE]}
MCPdTypes == {0, 7}
MCRequests == {}
=============================================================================
