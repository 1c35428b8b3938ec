---------------------------- MODULE MCRegisters -----------------------------
(* The two control registers: every request that writes one, well-formed or
   not, against the UC120 interrupt, the PMIC 1 work item and a message that
   is being sent. *)
EXTENDS Ice5Lp2k, RegisterBytes

MCActive == {"isr", "pmic1", "ioctl", "writer"}
MCStates == {0, 1, 2, 6, 8, 9}
MCLevels == {0}
MCRegisters7 == {[level |-> 2, flipped |-> TRUE]}
MCPdTypes == {}
Ask(op, value) == [op |-> op, value |-> value, short |-> FALSE]
MCRequests ==
  {Ask("dataRole", 0), Ask("dataRole", 1), Ask("dataRole", 2),
   Ask("powerRole", 0), Ask("powerRole", 1), Ask("powerRole", 2), Ask("powerRole", 257),
   Ask("vconn", 0), Ask("vconn", 1), Ask("vconn", 2), Ask("vconn", -1),
   Ask("pdEnable", 0), Ask("pdEnable", 1), Ask("hardReset", 0),
   [Ask("vconn", 1) EXCEPT !.short = TRUE]}

\* One message, never concluded, on its way only while no request is served:
\* the write queue writes no control register, but it takes the lock.
OneMessage == /\ result.status = "none"
              /\ pc["writer"] = "idle" \/ pc["ioctl"] = "idle"
=============================================================================
