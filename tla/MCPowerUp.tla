------------------------------ MODULE MCPowerUp ------------------------------
(* A device made, given resources, and taken through D0 twice, with other
   resources the second time if it is rebalanced; with no calibration file,
   files too short, of version 1, of version 2 cut short, and of version 2. *)
EXTENDS Setup

CONSTANTS spi1, spi2
MCSizes == {7, 8, 9, 11}
MCConnections == {spi1, spi2}
MCResourceLists == {<<"other">>, <<spi1, "other">>, <<spi1, spi2>>}
=============================================================================
