------------------------------ MODULE PortIoctl ------------------------------
(***************************************************************************)
(* Ice5Lp2kEvtIoDeviceControl and the handlers it dispatches to. The       *)
(* default queue is sequential: one request at a time, each completed      *)
(* inside its handler, except that a notification request is parked in     *)
(* DelayedIoCtlQueue without taking the lock.                              *)
(***************************************************************************)
EXTENDS DeviceContext

idleVars == <<r2, workItem, pdVars>>

\* IOCTL_UC120_NOTIFICATION. MaxPending bounds the model, not the driver.
IoctlNotify ==
  /\ pc["ioctl"] = "idle"
  /\ \E r \in Requests : r.op = "notify"
  /\ pending < MaxPending
  /\ pending' = pending + 1
  /\ UNCHANGED <<syncVars, portVars, told, missed, reg4Vars, reg5Vars, req,
                 idleVars>>

IoctlArrive ==
  /\ Step("ioctl", "idle", "wait")
  /\ req' \in {r \in Requests : r.op # "notify"}
  /\ UNCHANGED <<portVars, clientVars, reg4Vars, reg5Vars, idleVars>>

SlipServeUnlocked ==
  /\ Step("ioctl", "wait", "serve")
  /\ UNCHANGED <<portVars, clientVars, reg4Vars, reg5Vars, req, idleVars>>

IoctlAcquire ==
  /\ Acquire("ioctl", "serve")
  /\ UNCHANGED <<portVars, clientVars, reg4Vars, reg5Vars, req, idleVars>>

\* The request has been completed, one way or the other.
Completed ==
  /\ Release("ioctl", "serve", "idle")
  /\ req' = NoRequest

Attached == port.event = "Attach"
-----------------------------------------------------------------------------
\* UC120GetCableDetectionState copies four fields to the client, one by one.
AnswerFields == PortFields \ {"event"}

GetStateStart ==
  /\ req.op = "getState"
  /\ ~req.short
  /\ Step("ioctl", "serve", "read")
  /\ todo' = [todo EXCEPT !["ioctl"] = AnswerFields]
  /\ UNCHANGED <<port, rpt, detacher, clientVars, reg4Vars, reg5Vars, req,
                 idleVars>>

GetStateRead ==
  /\ \E f \in todo["ioctl"] :
       /\ rpt' = [rpt EXCEPT !["ioctl"] = [@ EXCEPT ![f] = port[f]]]
       /\ todo' = [todo EXCEPT !["ioctl"] = @ \ {f}]
       /\ Step("ioctl", "read",
               IF todo["ioctl"] = {f} THEN "reply" ELSE "read")
  /\ UNCHANGED <<port, detacher, clientVars, reg4Vars, reg5Vars, req, idleVars>>

\* A client that is told no port type takes it that nothing is attached.
Inferred(answer) ==
  [answer EXCEPT !.event =
     IF answer.portType = "Unknown" THEN "Detach" ELSE "Attach"]

GetStateReply ==
  /\ Release("ioctl", "reply", "idle")
  /\ req' = NoRequest
  /\ told' = Inferred(rpt["ioctl"])
  /\ missed' = FALSE
  /\ rpt' = [rpt EXCEPT !["ioctl"] = DetachedPort]
  /\ UNCHANGED <<port, todo, detacher, pending, reg4Vars, reg5Vars, idleVars>>
-----------------------------------------------------------------------------
SlipDetachedToo ==
  \/ req.op = "other"
  \/ req.op \in {"getState", "dataRole", "powerRole", "vconn", "pdEnable"}
     /\ req.short
  \/ req.op \in {"dataRole", "pdEnable"} /\ req.value \notin {0, 1}
  \/ req.op = "vconn" /\ req.value > 1

\* Requests that are refused before anything is touched. The power role and
\* VConn are looked at only while a cable is attached.
Refused ==
  \/ req.op = "other"
  \/ req.op \in {"getState", "dataRole", "powerRole", "vconn", "pdEnable"}
     /\ req.short
  \/ req.op \in {"dataRole", "pdEnable"} /\ req.value \notin {0, 1}
  \/ req.op \in {"powerRole", "vconn"} /\ ~Attached
  \/ req.op = "vconn" /\ req.value > 1

IoctlRefuse ==
  /\ Refused
  /\ Completed
  /\ UNCHANGED <<portVars, clientVars, reg4Vars, reg5Vars, idleVars>>

\* UC120IoctlExecuteHardReset writes Register 0, which is not modelled.
IoctlExecuteHardReset ==
  /\ req.op = "hardReset"
  /\ Completed
  /\ UNCHANGED <<portVars, clientVars, reg4Vars, reg5Vars, idleVars>>

SlipDataRoleAlone ==
  /\ req.op = "dataRole"
  /\ ~Refused
  /\ Completed
  /\ WriteReg5(With({}, "data", req.value = 0))
  /\ UNCHANGED <<portVars, clientVars, reg4Vars, idleVars>>

\* UC120SetPortDataRole: Dfp (0) sets bit 2 of the shadow, Ufp (1) clears it.
SetPortDataRole ==
  /\ req.op = "dataRole"
  /\ ~Refused
  /\ Completed
  /\ WriteReg5(With(shadow5, "data", req.value = 0))
  /\ UNCHANGED <<portVars, clientVars, reg4Vars, idleVars>>

SlipTruncated(value) == value % 2

\* The power role is an enumeration read into an unsigned char.
Truncated(value) == value % 256

\* UC120IoctlReportNewPowerRole. Nothing is written when the chip already
\* has the role; otherwise the role and then bit 6, if the first write works.
PowerRoleChange ==
  LET v  == Truncated(req.value)
      b1 == With(chip5, "power", v = 1)
      b2 == With(b1, "pmic", v = 0)
  IN IF \/ req.value = 0 /\ "power" \notin chip5
        \/ v = 1 /\ "power" \in chip5
        \/ v \notin {0, 1}
     THEN shadow5' = chip5 /\ UNCHANGED chip5
     ELSE \/ shadow5' = b2 /\ chip5' \in Sent(b2, b1)
          \/ SpiMayFail /\ shadow5' = b1 /\ chip5' \in {b1, chip5}

IoctlReportNewPowerRole ==
  /\ req.op = "powerRole"
  /\ ~Refused
  /\ Completed
  /\ \/ PowerRoleChange
     \/ SpiMayFail /\ UNCHANGED reg5Vars
  /\ UNCHANGED <<portVars, clientVars, reg4Vars, idleVars>>

\* UC120IoctlSetVConnRoleSwitch: read, and unless the chip already is as
\* asked, SetVConn, which reads again.
VConnSettled == \/ req.value = 0 /\ "vconn" \notin chip5
                \/ req.value = 1 /\ "vconn" \in chip5

IoctlSetVConnRoleSwitch ==
  /\ req.op = "vconn"
  /\ ~Refused
  /\ Completed
  /\ \/ VConnSettled /\ shadow5' = chip5 /\ UNCHANGED chip5
     \/ ~VConnSettled /\ WriteReg5(With(chip5, "vconn", req.value # 0))
     \/ SpiMayFail /\ shadow5' \in {shadow5, chip5} /\ UNCHANGED chip5
  /\ UNCHANGED <<portVars, clientVars, reg4Vars, idleVars>>
-----------------------------------------------------------------------------
\* UC120PDMessagingEnable sets or clears bit 7 of Register4.
PdEnableStart ==
  /\ req.op = "pdEnable"
  /\ ~Refused
  /\ Step("ioctl", "serve", "load4")
  /\ UNCHANGED <<portVars, clientVars, reg4Vars, reg5Vars, req, idleVars>>

PdEnable ==
  /\ Load4("ioctl", "crc", req.value = 1) \/ Store4("ioctl") \/ Copy4("ioctl")
  /\ UNCHANGED <<portVars, clientVars, reg5Vars, req, idleVars>>

SlipKeepLock ==
  /\ Step("ioctl", "send4", "idle")
  /\ Send4("ioctl")
  /\ req' = NoRequest
  /\ UNCHANGED <<portVars, clientVars, reg5Vars, idleVars>>

PdEnableSend ==
  /\ Release("ioctl", "send4", "idle")
  /\ Send4("ioctl")
  /\ req' = NoRequest
  /\ UNCHANGED <<portVars, clientVars, reg5Vars, idleVars>>

IoctlNext ==
  \/ IoctlAcquire \/ IoctlRefuse
  \/ GetStateStart \/ GetStateRead \/ GetStateReply
  \/ SetPortDataRole \/ IoctlReportNewPowerRole \/ IoctlSetVConnRoleSwitch
  \/ PdEnableStart \/ PdEnable \/ PdEnableSend \/ IoctlExecuteHardReset
=============================================================================
