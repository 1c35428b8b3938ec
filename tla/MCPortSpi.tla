------------------------------ MODULE MCPortSpi ------------------------------
(* The port as the clients see it, and Register 4, when any SPI transfer may
   fail. A failed read alone makes PMIC 2 detach, so PMIC 1 is not needed. *)
EXTENDS Ice5Lp2k

MCActive == {"isr", "pmic2", "ioctl"}
MCStates == {1, 2}
MCLevels == {0}
MCRegisters7 == {[level |-> 2, flipped |-> TRUE]}
MCPdTypes == {}
Ask(op, value) == [op |-> op, value |-> value, short |-> FALSE]
MCRequests == {Ask("notify", 0), Ask("pdEnable", 1)}

\* Once the unlocked tail of PMIC 2 has overlapped, nothing is claimed.
Sequential == ~overlap
=============================================================================
