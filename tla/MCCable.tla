------------------------------- MODULE MCCable -------------------------------
(* The cable is plugged, exchanged and pulled while the interrupt handler is
   at work, the device leaves D0 and comes back, and a write that fails orphans
   the lock. Any SPI transfer may fail. *)
EXTENDS CableSide

MCActive == {"isr"}
MCStates == {1, 2, 5}
MCLevels == {0}
MCRegisters7 == {[level |-> 2, flipped |-> TRUE]}
MCPdTypes == {}
MCRequests == {}
=============================================================================
