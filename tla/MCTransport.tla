------------------------------- MODULE MCTransport -------------------------------
(* Two callers in a transfer at once, as the holder of the lock and the
   unlocked tail of PMIC 2 are, over the status register, which the chip
   changes, and a control register, which only the driver does. *)
EXTENDS SpiTransport

CONSTANTS c1, c2
MCCallers == {c1, c2}
MCRegisters == {2, 4}
MCVolatile == {2}
MCValues == {0, 1}
=============================================================================
