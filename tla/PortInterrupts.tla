--------------------------- MODULE PortInterrupts ---------------------------
(***************************************************************************)
(* Interrupt.c, as far as it is about the port: UC120InterruptIsr with the *)
(* cable and current half of UC120InterruptIsrInternal, the two PMIC       *)
(* interrupts, and the work item. (PlugdetInterruptIsr does nothing.)      *)
(***************************************************************************)
EXTENDS DeviceContext

otherVars == <<req, workItem, pdVars>>

IsrArrive ==
  /\ Step("isr", "idle", "wait")
  /\ UNCHANGED <<portVars, clientVars, reg4Vars, reg5Vars, r2, otherVars>>

IsrAcquire ==
  /\ Acquire("isr", "status")
  /\ UNCHANGED <<portVars, clientVars, reg4Vars, reg5Vars, r2, otherVars>>

\* What the chip may have in Register 2. It says that the size register has
\* changed only to answer a message it was given to transmit.
Statuses == {r \in Register2 : /\ r.state \in StatesIn2
                               /\ r.level \in LevelsIn2
                               /\ r.incoming \/ r.sized => PdTypes # {}
                               /\ r.sized => air # {}}

\* Register 2 is read; if that fails nothing is handled, only acknowledged.
IsrStatus ==
  /\ \/ /\ SpiMayFail
        /\ Step("isr", "status", "ack")
        /\ UNCHANGED r2
     \/ \E r \in Statuses :
          /\ r2' = r
          /\ Step("isr", "status",
                  IF r.state = 0 /\ r.level = 0 THEN "pd" ELSE "port")
  /\ UNCHANGED <<portVars, clientVars, reg4Vars, reg5Vars, otherVars>>

\* Register 7 is read, and the cable state decides what comes next.
AfterPort(role) == IF role \in SourceRoles THEN "vconn"
                   ELSE IF role \in DetachRoles \cup AttachRoles THEN "check"
                   ELSE "level"

IsrPort ==
  /\ \/ /\ SpiMayFail
        /\ Step("isr", "port", "ack")
        /\ UNCHANGED rpt
     \/ \E r7 \in Registers7 :
          /\ rpt' = [rpt EXCEPT !["isr"] = PortFor(r2.state, r7)]
          /\ Step("isr", "port", AfterPort(r2.state))
  /\ UNCHANGED <<port, todo, detacher, clientVars, reg4Vars, reg5Vars, r2,
                 otherVars>>

\* SetVConn and SetPowerRole: on before a source role is looked at, off after
\* a detach has been stored.
Attaching == rpt["isr"].event = "Attach"

IsrVConn ==
  /\ Step("isr", "vconn", "role")
  /\ SetVConn(Attaching)
  /\ UNCHANGED <<portVars, clientVars, reg4Vars, r2, otherVars>>

IsrRole ==
  /\ Step("isr", "role", IF Attaching THEN "check" ELSE "level")
  /\ SetPowerRole(Attaching)
  /\ UNCHANGED <<portVars, clientVars, reg4Vars, r2, otherVars>>

\* Only a change of Uc120Event is reported and stored.
IsNews == port.event # rpt["isr"].event

IsrCheck ==
  /\ Step("isr", "check", IF IsNews THEN "report" ELSE "level")
  /\ UNCHANGED <<portVars, clientVars, reg4Vars, reg5Vars, r2, otherVars>>

Report(t) ==
  /\ Step(t, "report", "store")
  /\ ReportPort(t)
  /\ StartStore(t)
  /\ UNCHANGED <<port, rpt, detacher, reg4Vars, reg5Vars, r2, otherVars>>

Store(t) ==
  /\ \E f \in PortFields :
       /\ StoreField(t, f)
       /\ Step(t, "store", IF todo[t] = {f} THEN "load4" ELSE "store")
  /\ UNCHANGED <<rpt, clientVars, reg4Vars, reg5Vars, r2, otherVars>>

SlipToggle(t) ==
  /\ ToggleReg4(t, rpt[t].event = "Attach")
  /\ UNCHANGED <<portVars, clientVars, reg5Vars, r2, otherVars>>

Toggle(t) ==
  /\ ToggleReg4(t, rpt[t].event = "Detach")
  /\ UNCHANGED <<portVars, clientVars, reg5Vars, r2, otherVars>>

IsrSend ==
  /\ Step("isr", "send4", IF Attaching THEN "level" ELSE "vconn")
  /\ Send4("isr")
  /\ UNCHANGED <<portVars, clientVars, reg5Vars, r2, otherVars>>

SlipLevelIgnored == IF r2.level = 0 \/ ~Attaching THEN "pd"
                    ELSE IF ChangedCurrent(r2.level) = port.current THEN "ack"
                    ELSE "levelReport"

\* The current level of Register 2. A level that is the stored one ends the
\* whole handler, so the power-delivery bits of this status are not looked at.
AfterLevel == IF r2.level = 0 THEN "pd"
              ELSE IF ChangedCurrent(r2.level) = port.current THEN "ack"
              ELSE "levelReport"

IsrLevel ==
  /\ Step("isr", "level", AfterLevel)
  /\ rpt' = [rpt EXCEPT !["isr"].current = ChangedCurrent(r2.level)]
  /\ UNCHANGED <<port, todo, detacher, clientVars, reg4Vars, reg5Vars, r2,
                 otherVars>>

IsrLevelReport ==
  /\ Step("isr", "levelReport", "levelStore")
  /\ ReportCurrent("isr")
  /\ UNCHANGED <<portVars, reg4Vars, reg5Vars, r2, otherVars>>

IsrLevelStore ==
  /\ Step("isr", "levelStore", "pd")
  /\ port' = [port EXCEPT !.current = rpt["isr"].current]
  /\ UNCHANGED <<rpt, todo, detacher, clientVars, reg4Vars, reg5Vars, r2,
                 otherVars>>

SlipAckKeepsLock ==
  /\ \/ Release("isr", "ack", "idle")
     \/ SpiMayFail /\ Step("isr", "ack", "idle")
  /\ r2' = NoStatus
  /\ rpt' = [rpt EXCEPT !["isr"] = DetachedPort]
  /\ UNCHANGED <<port, todo, detacher, clientVars, reg4Vars, reg5Vars,
                 otherVars>>

\* 0xFF is written to Register 2, which acknowledges whatever was in it; the
\* lock is released. The locals of the handler are forgotten.
IsrAck ==
  /\ Release("isr", "ack", "idle")
  /\ r2' = NoStatus
  /\ rpt' = [rpt EXCEPT !["isr"] = DetachedPort]
  /\ UNCHANGED <<port, todo, detacher, clientVars, reg4Vars, reg5Vars,
                 otherVars>>

IsrPortNext ==
  \/ IsrAcquire \/ IsrStatus \/ IsrPort \/ IsrVConn \/ IsrRole \/ IsrCheck
  \/ Report("isr") \/ Store("isr") \/ Toggle("isr") \/ IsrSend
  \/ IsrLevel \/ IsrLevelReport \/ IsrLevelStore \/ IsrAck
-----------------------------------------------------------------------------
(***************************************************************************)
(* PmicInterrupt1Isr queues the work item; queued twice, it runs once.     *)
(* The framework dequeues the item before it calls it.                     *)
(***************************************************************************)
PmicInterrupt1Isr ==
  /\ ~workItem
  /\ workItem' = TRUE
  /\ UNCHANGED <<syncVars, portVars, clientVars, reg4Vars, reg5Vars, r2, req,
                 pdVars>>

Pmic1Start ==
  /\ workItem
  /\ workItem' = FALSE
  /\ Step("pmic1", "idle", "wait")
  /\ UNCHANGED <<portVars, clientVars, reg4Vars, reg5Vars, r2, req, pdVars>>

Pmic1Acquire ==
  /\ Acquire("pmic1", "run")
  /\ UNCHANGED <<portVars, clientVars, reg4Vars, reg5Vars, r2, otherVars>>

\* Bit 6 is set in the shadow, without reading the chip, and written.
Pmic1Run ==
  /\ Release("pmic1", "run", "idle")
  /\ WriteReg5(With(shadow5, "pmic", TRUE))
  /\ UNCHANGED <<portVars, clientVars, reg4Vars, r2, otherVars>>

Pmic1Next == Pmic1Start \/ Pmic1Acquire \/ Pmic1Run
-----------------------------------------------------------------------------
(***************************************************************************)
(* PmicInterrupt2Isr: if bit 6 of Register 5 is set, or cannot be read, it *)
(* is cleared, and the cable is taken to be detached. The lock is released *)
(* before that is reported, stored, and written to Register 4.             *)
(***************************************************************************)
Pmic2Arrive ==
  /\ Step("pmic2", "idle", "wait")
  /\ UNCHANGED <<portVars, clientVars, reg4Vars, reg5Vars, r2, otherVars>>

Pmic2Acquire ==
  /\ Acquire("pmic2", "probe")
  /\ UNCHANGED <<portVars, clientVars, reg4Vars, reg5Vars, r2, otherVars>>

Pmic2Detach ==
  /\ SpiMayFail \/ "pmic" \in chip5
  /\ WriteReg5(With(shadow5, "pmic", FALSE))
  /\ Release("pmic2", "probe", "report")
  /\ UNCHANGED <<portVars, clientVars, reg4Vars, r2, otherVars>>

Pmic2Nothing ==
  /\ "pmic" \notin chip5
  /\ Release("pmic2", "probe", "idle")
  /\ UNCHANGED <<portVars, clientVars, reg4Vars, reg5Vars, r2, otherVars>>

Pmic2Send ==
  /\ Step("pmic2", "send4", "idle")
  /\ Send4("pmic2")
  /\ UNCHANGED <<portVars, clientVars, reg5Vars, r2, otherVars>>

Pmic2Next ==
  \/ Pmic2Acquire \/ Pmic2Detach \/ Pmic2Nothing
  \/ Report("pmic2") \/ Store("pmic2") \/ Toggle("pmic2") \/ Pmic2Send
=============================================================================
