--------------------------- MODULE RegisterProofs ---------------------------
(***************************************************************************)
(* The two control registers that the interrupts and the clients share,    *)
(* and what the interrupt handler acknowledges, for every value of the     *)
(* constants.                                                              *)
(***************************************************************************)
EXTENDS PortProofs

(***************************************************************************)
(* Register 4. What a read-modify-write is about to store differs from the *)
(* shadow in its own bit only, and what it is about to send is the shadow. *)
(***************************************************************************)
Own(t) == IF t = "ioctl" THEN With(shadow4, "crc", req.value = 1)
          ELSE With(shadow4, "toggle", rpt[t].event = "Detach")

Hand4 ==
  /\ \A t \in Reporters : /\ pc[t] = "store4" => acc[t] = Own(t)
                          /\ pc[t] = "send4" => acc[t] = shadow4
  /\ \A t \in {"isr", "pmic2"} :
       pc[t] \in {"load4", "store4"} => rpt[t].event = port.event

\* Bit 1 agrees with the stored event, and the chip with the shadow.
Bit1 ==
  (\A t \in {"isr", "pmic2"} : pc[t] \notin {"store", "load4", "store4"})
    => ("toggle" \in shadow4) = (port.event = "Detach")
Chip4 ==
  ~SpiMayFail /\ (\A t \in Reporters : pc[t] \notin {"copy4", "send4"})
    => chip4 = shadow4

Reg4Inv == ~overlap => Hand4 /\ Bit1 /\ Chip4

\* What a step of the driver does to them, one by one: a change of power may
\* break the agreement, but not what the threads have in hand.
Keeps4 == Hand4' /\ (Bit1 => Bit1') /\ (Chip4 => Chip4')

\* The labels between which a thread may have Register 4, or the port of which
\* it holds a bit, in hand.
Busy4 == {"store"} \cup Toggle4

LEMMA LaterOverlap ==
  ASSUME Observe, ~overlap'
  PROVE  ~overlap /\ ~Clash'
  BY DEF Observe

\* A thread that is alone: the lock keeps the default queue and the interrupt
\* handler apart, and overlap the tail of PMIC interrupt 2 from both.
LEMMA AloneAt4 ==
  ASSUME Known, ~overlap, NEW s \in Reporters, NEW t \in Reporters \ {s},
         pc[s] \in Busy4
  PROVE  pc[t] \notin Busy4
<1>1. ~Clash
  BY DEF Known, KnowledgeInv
<1>2. pc["isr"] \in {"idle", "wait"} \/ pc["ioctl"] \in {"idle", "wait"}
  BY Apart
<1> QED BY <1>1, <1>2 DEF Clash, Unlocked, Touching, Busy4, Toggle4, Reporters

\* A step that leaves the register and the port's event alone, by a thread
\* that is not busy with them.
LEMMA FrameKeeps4 ==
  ASSUME Known, Hand4, Observe, ~overlap', UNCHANGED reg4Vars,
         port'.event = port.event,
         NEW t \in Threads, NEW to, pc' = [pc EXCEPT ![t] = to],
         pc[t] \notin Busy4, to \notin Toggle4 \/ (t = "ioctl" /\ to = "load4"),
         \A s \in {"isr", "pmic2"} : pc[s] \in Toggle4 => rpt'[s] = rpt[s],
         pc["ioctl"] \in Toggle4 => req' = req
  PROVE  Keeps4
<1>1. /\ pc'[t] = to
      /\ \A s \in Threads \ {t} : pc'[s] = pc[s]
  BY DEF Known, TypeOK, ControlOK
<1>2. ASSUME NEW s \in Reporters
      PROVE  /\ pc'[s] = "store4" => acc'[s] = Own(s)'
             /\ pc'[s] = "send4" => acc'[s] = shadow4'
  BY <1>1, <1>2 DEF Hand4, Own, reg4Vars, Busy4, Toggle4, Reporters, Threads
<1>3. ASSUME NEW s \in {"isr", "pmic2"}, pc'[s] \in {"load4", "store4"}
      PROVE  rpt'[s].event = port'.event
  BY <1>1, <1>3 DEF Hand4, Busy4, Toggle4, Threads
<1>4. Bit1 => Bit1'
  BY <1>1 DEF Bit1, Busy4, Toggle4, Threads, reg4Vars
<1>5. Chip4 => Chip4'
  BY <1>1 DEF Chip4, Busy4, Toggle4, Threads, Reporters, reg4Vars
<1> QED BY <1>2, <1>3, <1>4, <1>5 DEF Keeps4, Hand4

LEMMA StillKeeps4 ==
  ASSUME Hand4, UNCHANGED <<reg4Vars, port, pc, rpt, req>>
  PROVE  Keeps4
  BY DEF Keeps4, Hand4, Bit1, Chip4, Own, reg4Vars

LEMMA StoreKeeps4 ==
  ASSUME Known, Hand4, Observe, ~overlap', NEW t \in {"isr", "pmic2"}, Store(t)
  PROVE  Keeps4
<1>1. PICK f \in PortFields :
        /\ pc[t] = "store"
        /\ pc' = [pc EXCEPT ![t] = IF todo[t] = {f} THEN "load4" ELSE "store"]
        /\ port' = [port EXCEPT ![f] = rpt[t][f]]
        /\ UNCHANGED <<rpt, reg4Vars>>
  BY DEF Store, StoreField, Step
<1>2. /\ ~overlap
      /\ \A s \in Reporters \ {t} : pc'[s] = pc[s] /\ pc[s] \notin Busy4
  BY <1>1, LaterOverlap, AloneAt4
     DEF Known, TypeOK, ControlOK, Threads, Reporters, Busy4
<1>3. /\ pc'[t] \in {"store", "load4"}
      /\ pc'[t] = "load4" => todo[t] = {f}
  BY <1>1 DEF Known, TypeOK, ControlOK, Threads
<1>4. pc'[t] = "load4" => rpt[t].event = port'.event
  <2>1. port \in PortStates /\ rpt[t] \in PortStates
    BY DEF Known, TypeOK, PortOK, Reporters
  <2>2. \A g \in PortFields \ todo[t] : port[g] = rpt[t][g]
    BY <1>1, <1>2 DEF Known, KnowledgeInv, StoringInv, Storing
  <2> QED BY <1>1, <1>3, <2>1, <2>2 DEF PortStates, PortFields
<1> QED BY <1>1, <1>2, <1>3, <1>4
        DEF Keeps4, Hand4, Bit1, Chip4, Busy4, Toggle4, Reporters, reg4Vars

\* The read-modify-write itself, whoever makes it.
LEMMA Load4Keeps ==
  ASSUME Known, Hand4, Observe, ~overlap', NEW t \in Reporters, NEW bit, NEW on,
         Load4(t, bit, on), UNCHANGED <<port, rpt, req>>,
         With(shadow4, bit, on) = Own(t)
  PROVE  Keeps4
<1>1. /\ pc[t] = "load4" /\ pc'[t] = "store4"
      /\ acc'[t] = Own(t)
      /\ UNCHANGED <<shadow4, chip4>>
  BY DEF Load4, Step, Known, TypeOK, ControlOK, Reg4OK, Threads, Reporters
<1>2. /\ ~overlap
      /\ \A s \in Reporters \ {t} : pc'[s] = pc[s] /\ pc[s] \notin Busy4
  BY <1>1, LaterOverlap, AloneAt4
     DEF Load4, Step, Known, TypeOK, ControlOK, Threads, Reporters, Busy4, Toggle4
<1>3. Own(t)' = Own(t)
  BY <1>1 DEF Own
<1> QED BY <1>1, <1>2, <1>3 DEF Keeps4, Hand4, Bit1, Chip4,
        Busy4, Toggle4, Reporters

LEMMA Store4Keeps ==
  ASSUME Known, Hand4, Observe, ~overlap', NEW t \in Reporters, Store4(t),
         UNCHANGED <<port, rpt, req>>
  PROVE  Keeps4
<1>1. /\ pc[t] = "store4" /\ pc'[t] = "copy4"
      /\ shadow4' = acc[t]
      /\ UNCHANGED <<acc, chip4>>
  BY DEF Store4, Step, Known, TypeOK, ControlOK, Threads, Reporters
<1>2. /\ ~overlap
      /\ \A s \in Reporters \ {t} : pc'[s] = pc[s] /\ pc[s] \notin Busy4
  BY <1>1, LaterOverlap, AloneAt4
     DEF Store4, Step, Known, TypeOK, ControlOK, Threads, Reporters, Busy4,
         Toggle4
<1>3. shadow4' = Own(t)
  BY <1>1 DEF Hand4
<1>4. Bit1 => Bit1'
  <2>1. CASE t = "ioctl"
    <3>1. ("toggle" \in shadow4') = ("toggle" \in shadow4)
      BY <1>3, <2>1 DEF Own, With
    <3>2. \A s \in {"isr", "pmic2"} : pc'[s] = pc[s]
      BY <1>2, <2>1 DEF Reporters
    <3> QED BY <3>1, <3>2 DEF Bit1
  <2>2. CASE t # "ioctl"
    BY <1>1, <1>3, <2>2 DEF Hand4, Bit1, Own, With, Reporters
  <2> QED BY <2>1, <2>2
<1>5. Chip4'
  BY <1>1 DEF Chip4
<1>6. Hand4'
  BY <1>1, <1>2 DEF Hand4, Busy4, Toggle4, Reporters
<1> QED BY <1>4, <1>5, <1>6 DEF Keeps4

LEMMA Copy4Keeps ==
  ASSUME Known, Hand4, Observe, ~overlap', NEW t \in Reporters, Copy4(t),
         UNCHANGED <<port, rpt, req>>
  PROVE  Keeps4
<1>1. /\ pc[t] = "copy4" /\ pc'[t] = "send4"
      /\ acc'[t] = shadow4
      /\ UNCHANGED <<shadow4, chip4>>
  BY DEF Copy4, Step, Known, TypeOK, ControlOK, Reg4OK, Threads, Reporters
<1>2. /\ ~overlap
      /\ \A s \in Reporters \ {t} : pc'[s] = pc[s] /\ pc[s] \notin Busy4
  BY <1>1, LaterOverlap, AloneAt4
     DEF Copy4, Step, Known, TypeOK, ControlOK, Threads, Reporters, Busy4,
         Toggle4
<1> QED BY <1>1, <1>2 DEF Keeps4, Hand4, Bit1, Chip4,
        Busy4, Toggle4, Reporters

LEMMA Send4Keeps ==
  ASSUME Known, Hand4, Observe, ~overlap', NEW t \in Reporters, Send4(t),
         pc[t] = "send4", NEW to, to \notin Busy4, pc' = [pc EXCEPT ![t] = to],
         UNCHANGED <<port, rpt>>
  PROVE  Keeps4
<1>1. /\ pc'[t] = to
      /\ chip4' \in Sent(acc[t], chip4)
      /\ UNCHANGED shadow4
  BY DEF Send4, Known, TypeOK, ControlOK, Threads, Reporters
<1>2. /\ ~overlap
      /\ \A s \in Reporters \ {t} : pc'[s] = pc[s] /\ pc[s] \notin Busy4
  BY <1>1, LaterOverlap, AloneAt4
     DEF Known, TypeOK, ControlOK, Threads, Reporters, Busy4, Toggle4
<1>3. ~SpiMayFail => chip4' = shadow4'
  BY <1>1 DEF Hand4, Sent
<1> QED BY <1>1, <1>2, <1>3 DEF Keeps4, Hand4, Bit1, Chip4,
        Busy4, Toggle4, Reporters

\* UC120ToggleReg4YetUnknown and UC120PDMessagingEnable.
LEMMA ToggleKeeps4 ==
  ASSUME Known, Hand4, Observe, ~overlap', NEW t \in {"isr", "pmic2"}, Toggle(t)
  PROVE  Keeps4
<1>1. UNCHANGED <<port, rpt, req>> /\ t \in Reporters
  BY DEF Toggle, portVars, otherVars, Reporters
<1>2. With(shadow4, "toggle", rpt[t].event = "Detach") = Own(t)
  BY DEF Own
<1>3. \/ Load4(t, "toggle", rpt[t].event = "Detach") \/ Store4(t) \/ Copy4(t)
  BY DEF Toggle, ToggleReg4
<1> QED BY <1>1, <1>2, <1>3, Load4Keeps, Store4Keeps, Copy4Keeps

LEMMA PdEnableKeeps4 ==
  ASSUME Known, Hand4, Observe, ~overlap', PdEnable
  PROVE  Keeps4
<1>1. UNCHANGED <<port, rpt, req>> /\ "ioctl" \in Reporters
  BY DEF PdEnable, portVars, Reporters
<1>2. With(shadow4, "crc", req.value = 1) = Own("ioctl")
  BY DEF Own
<1>3. \/ Load4("ioctl", "crc", req.value = 1)
      \/ Store4("ioctl") \/ Copy4("ioctl")
  BY DEF PdEnable
<1> QED BY <1>1, <1>2, <1>3, Load4Keeps, Store4Keeps, Copy4Keeps

LEMMA IsrKeeps4 ==
  ASSUME Known, Hand4, IsrRun, ~overlap'
  PROVE  Keeps4
<1>0. Observe
  BY DEF IsrRun
<1>1. CASE IsrAcquire
  BY <1>0, <1>1, FrameKeeps4 DEF IsrAcquire, Acquire, portVars, Busy4, Toggle4,
     Threads, otherVars
<1>2. CASE IsrStatus
  BY <1>0, <1>2, FrameKeeps4 DEF IsrStatus, Step, portVars, Busy4, Toggle4,
     Threads, otherVars
<1>3. CASE IsrPort
  <2>1. \A s \in {"isr", "pmic2"} : pc[s] \in Toggle4 => rpt'[s] = rpt[s]
    BY <1>3 DEF IsrPort, Step, Toggle4, Known, TypeOK, PortOK, Reporters
  <2>2. PICK to : /\ pc' = [pc EXCEPT !["isr"] = to]
                  /\ to \notin Toggle4
    BY <1>3 DEF IsrPort, Step, AfterPort, Toggle4
  <2> QED BY <1>0, <1>3, <2>1, <2>2, FrameKeeps4
          DEF IsrPort, Step, otherVars, Busy4, Toggle4, Threads
<1>4. CASE IsrVConn
  BY <1>0, <1>4, FrameKeeps4 DEF IsrVConn, Step, portVars, Busy4, Toggle4,
     Threads, otherVars
<1>5. CASE IsrRole
  BY <1>0, <1>5, FrameKeeps4 DEF IsrRole, Step, portVars, Busy4, Toggle4,
     Threads, otherVars
<1>6. CASE IsrCheck
  BY <1>0, <1>6, FrameKeeps4 DEF IsrCheck, Step, portVars, Busy4, Toggle4,
     Threads, otherVars
<1>7. CASE Report("isr")
  BY <1>0, <1>7, FrameKeeps4 DEF Report, Step, portVars, Busy4, Toggle4,
     Threads, otherVars
<1>8. CASE Store("isr")
  BY <1>0, <1>8, StoreKeeps4
<1>9. CASE Toggle("isr")
  BY <1>0, <1>9, ToggleKeeps4
<1>10. CASE IsrSend
  <2>1. PICK to \in {"level", "vconn"} : pc' = [pc EXCEPT !["isr"] = to]
    BY <1>10 DEF IsrSend, Step
  <2>2. to \notin Busy4
    BY DEF Busy4, Toggle4
  <2> QED BY <1>0, <1>10, <2>1, <2>2, Send4Keeps
          DEF IsrSend, Step, portVars, Reporters
<1>11. CASE IsrLevel
  <2>1. \A s \in {"isr", "pmic2"} : pc[s] \in Toggle4 => rpt'[s] = rpt[s]
    BY <1>11 DEF IsrLevel, Step, Toggle4, Known, TypeOK, PortOK, Reporters
  <2>2. AfterLevel \notin Toggle4
    BY DEF AfterLevel, Toggle4
  <2> QED BY <1>0, <1>11, <2>1, <2>2, FrameKeeps4
          DEF IsrLevel, Step, otherVars, Busy4, Toggle4, Threads
<1>12. CASE IsrLevelReport
  BY <1>0, <1>12, FrameKeeps4 DEF IsrLevelReport, Step, portVars, Busy4,
     Toggle4, Threads, otherVars
<1>13. CASE IsrLevelStore
  BY <1>0, <1>13, FrameKeeps4 DEF IsrLevelStore, Step, otherVars, Busy4,
     Toggle4, Threads, Known, TypeOK, PortOK, PortStates
<1>14. CASE IsrAck
  BY <1>0, <1>14, FrameKeeps4 DEF IsrAck, Release, otherVars, Busy4, Toggle4,
     Threads, Known, TypeOK, PortOK, Reporters
<1>15. CASE ProcessIncomingPdMessage
  BY <1>0, <1>15, FrameKeeps4 DEF ProcessIncomingPdMessage, IncomingMessage,
     Step, portVars, Busy4, Toggle4, Threads, portSide
<1>16. CASE SetEvent("pdSignal", "size")
  BY <1>0, <1>16, FrameKeeps4 DEF SetEvent, Step, portVars, Busy4, Toggle4,
     Threads, portSide
<1>17. CASE SynchronizeIncomingMessageSize
  BY <1>0, <1>17, FrameKeeps4 DEF SynchronizeIncomingMessageSize, Step,
     portVars, Busy4, Toggle4, Threads, portSide
<1>18. CASE NoAnswerYet
  BY <1>0, <1>18, FrameKeeps4 DEF NoAnswerYet, Step, portVars, Busy4, Toggle4,
     Threads, portSide
<1>19. CASE SetEvent("sizeSignal", "ack")
  BY <1>0, <1>19, FrameKeeps4 DEF SetEvent, Step, portVars, Busy4, Toggle4,
     Threads, portSide
<1> QED BY <1>1, <1>2, <1>3, <1>4, <1>5, <1>6, <1>7, <1>8, <1>9, <1>10, <1>11,
   <1>12, <1>13, <1>14, <1>15, <1>16, <1>17, <1>18, <1>19 DEF IsrRun,
   IsrPortNext, IsrPdNext

LEMMA Pmic1Keeps4 ==
  ASSUME Known, Hand4, Pmic1Go, ~overlap'
  PROVE  Keeps4
<1>0. Observe
  BY DEF Pmic1Go
<1>1. CASE Pmic1Start
  BY <1>0, <1>1, FrameKeeps4 DEF Pmic1Start, Step, portVars, Busy4, Toggle4,
     Threads, otherVars
<1>2. CASE Pmic1Acquire
  BY <1>0, <1>2, FrameKeeps4 DEF Pmic1Acquire, Acquire, portVars, Busy4,
     Toggle4, Threads, otherVars
<1>3. CASE Pmic1Run
  BY <1>0, <1>3, FrameKeeps4 DEF Pmic1Run, Release, portVars, Busy4, Toggle4,
     Threads, otherVars
<1> QED BY <1>1, <1>2, <1>3 DEF Pmic1Go, Pmic1Next

LEMMA Pmic2Keeps4 ==
  ASSUME Known, Hand4, Pmic2Run, ~overlap'
  PROVE  Keeps4
<1>0. Observe
  BY DEF Pmic2Run
<1>1. CASE Pmic2Acquire
  BY <1>0, <1>1, FrameKeeps4 DEF Pmic2Acquire, Acquire, portVars, Busy4,
     Toggle4, Threads, otherVars
<1>2. CASE Pmic2Detach
  BY <1>0, <1>2, FrameKeeps4 DEF Pmic2Detach, Release, portVars, Busy4,
     Toggle4, Threads, otherVars
<1>3. CASE Pmic2Nothing
  BY <1>0, <1>3, FrameKeeps4 DEF Pmic2Nothing, Release, portVars, Busy4,
     Toggle4, Threads, otherVars
<1>4. CASE Report("pmic2")
  BY <1>0, <1>4, FrameKeeps4 DEF Report, Step, portVars, Busy4, Toggle4,
     Threads, otherVars
<1>5. CASE Store("pmic2")
  BY <1>0, <1>5, StoreKeeps4
<1>6. CASE Toggle("pmic2")
  BY <1>0, <1>6, ToggleKeeps4
<1>7. CASE Pmic2Send
  BY <1>0, <1>7, Send4Keeps DEF Pmic2Send, Step, portVars, Busy4, Toggle4,
     Reporters
<1> QED BY <1>1, <1>2, <1>3, <1>4, <1>5, <1>6, <1>7 DEF Pmic2Run, Pmic2Next

LEMMA IoctlKeeps4 ==
  ASSUME Known, Hand4, IoctlRun, ~overlap'
  PROVE  Keeps4
<1>0. Observe
  BY DEF IoctlRun
<1>1. CASE IoctlAcquire
  BY <1>0, <1>1, FrameKeeps4 DEF IoctlAcquire, Acquire, portVars, Busy4,
     Toggle4, Threads, idleVars
<1>2. CASE IoctlRefuse
  BY <1>0, <1>2, FrameKeeps4 DEF IoctlRefuse, Completed, Release, portVars,
     Busy4, Toggle4, Threads, idleVars
<1>3. CASE GetStateStart
  BY <1>0, <1>3, FrameKeeps4 DEF GetStateStart, Step, portVars, Busy4, Toggle4,
     Threads, idleVars
<1>4. CASE GetStateRead
  BY <1>0, <1>4, FrameKeeps4 DEF GetStateRead, Step, portVars, Busy4, Toggle4,
     Threads, idleVars
<1>5. CASE GetStateReply
  BY <1>0, <1>5, FrameKeeps4 DEF GetStateReply, Release, idleVars, Busy4,
     Toggle4, Threads, Known, TypeOK, PortOK, Reporters
<1>6. CASE SetPortDataRole
  BY <1>0, <1>6, FrameKeeps4 DEF SetPortDataRole, Completed, Release, portVars,
     Busy4, Toggle4, Threads, idleVars
<1>7. CASE IoctlReportNewPowerRole
  BY <1>0, <1>7, FrameKeeps4 DEF IoctlReportNewPowerRole, Completed, Release,
     portVars, Busy4, Toggle4, Threads, idleVars
<1>8. CASE IoctlSetVConnRoleSwitch
  BY <1>0, <1>8, FrameKeeps4 DEF IoctlSetVConnRoleSwitch, Completed, Release,
     portVars, Busy4, Toggle4, Threads, idleVars
<1>9. CASE PdEnableStart
  BY <1>0, <1>9, FrameKeeps4 DEF PdEnableStart, Step, portVars, Busy4, Toggle4,
     Threads, idleVars
<1>10. CASE PdEnable
  BY <1>0, <1>10, PdEnableKeeps4
<1>11. CASE PdEnableSend
  BY <1>0, <1>11, Send4Keeps DEF PdEnableSend, Release, portVars, Busy4,
     Toggle4, Reporters
<1>12. CASE IoctlExecuteHardReset
  BY <1>0, <1>12, FrameKeeps4 DEF IoctlExecuteHardReset, Completed, Release,
     portVars, Busy4, Toggle4, Threads, idleVars
<1> QED BY <1>1, <1>2, <1>3, <1>4, <1>5, <1>6, <1>7, <1>8, <1>9, <1>10, <1>11,
   <1>12 DEF IoctlRun, IoctlNext

LEMMA WriterKeeps4 ==
  ASSUME Known, Hand4, WriterRun, ~overlap'
  PROVE  Keeps4
<1>0. Observe
  BY DEF WriterRun
<1>1. CASE WriteReset
  BY <1>0, <1>1, FrameKeeps4 DEF WriteReset, Step, portVars, Busy4, Toggle4,
     Threads, portSide
<1>2. CASE WriteClear
  BY <1>0, <1>2, FrameKeeps4 DEF WriteClear, Step, portVars, Busy4, Toggle4,
     Threads, portSide
<1>3. CASE WriteAcquire
  BY <1>0, <1>3, FrameKeeps4 DEF WriteAcquire, Acquire, portVars, Busy4,
     Toggle4, Threads, portSide
<1>4. CASE WriteSend
  BY <1>0, <1>4, FrameKeeps4 DEF WriteSend, Release, portVars, Busy4, Toggle4,
     Threads, portSide
<1>5. CASE WriteFail
  BY <1>0, <1>5, FrameKeeps4 DEF WriteFail, Step, portVars, Busy4, Toggle4,
     Threads, portSide
<1>6. CASE WriteTimeout
  BY <1>0, <1>6, FrameKeeps4 DEF WriteTimeout, Step, portVars, Busy4, Toggle4,
     Threads, portSide
<1>7. CASE WriteAwake
  BY <1>0, <1>7, FrameKeeps4 DEF WriteAwake, Step, portVars, Busy4, Toggle4,
     Threads, portSide
<1>8. CASE WriteDecide
  BY <1>0, <1>8, FrameKeeps4 DEF WriteDecide, Step, portVars, Busy4, Toggle4,
     Threads, portSide
<1> QED BY <1>1, <1>2, <1>3, <1>4, <1>5, <1>6, <1>7, <1>8 DEF WriterRun,
   WriterNext

LEMMA ArriveKeeps4 ==
  ASSUME Known, Hand4, Arrive, Observe, ~overlap'
  PROVE  Keeps4
<1>1. CASE IsrArrive
  BY <1>1, FrameKeeps4 DEF IsrArrive, Step, portVars, Busy4, Toggle4, Threads,
     otherVars
<1>2. CASE PmicInterrupt1Isr
  BY <1>2, StillKeeps4 DEF PmicInterrupt1Isr, syncVars, portVars, Busy4,
     Toggle4, Threads
<1>3. CASE Pmic2Arrive
  BY <1>3, FrameKeeps4 DEF Pmic2Arrive, Step, portVars, Busy4, Toggle4,
     Threads, otherVars
<1>4. CASE IoctlArrive
  BY <1>4, FrameKeeps4 DEF IoctlArrive, Step, portVars, Busy4, Toggle4,
     Threads, idleVars
<1>5. CASE IoctlNotify
  BY <1>5, StillKeeps4 DEF IoctlNotify, syncVars, portVars, Busy4, Toggle4,
     Threads, idleVars
<1>6. CASE WriteArrive
  BY <1>6, FrameKeeps4 DEF WriteArrive, Step, portVars, Busy4, Toggle4,
     Threads, portSide
<1>7. CASE WriteNothing
  BY <1>7, StillKeeps4 DEF WriteNothing, syncVars, portVars, Busy4, Toggle4,
     Threads, portSide
<1>8. CASE ReadArrive
  BY <1>8, StillKeeps4 DEF ReadArrive, syncVars, portVars, Busy4, Toggle4,
     Threads, portSide
<1> QED BY <1>1, <1>2, <1>3, <1>4, <1>5, <1>6, <1>7, <1>8 DEF Arrive

LEMMA NextKeeps4 ==
  ASSUME Known, Hand4, Next, ~overlap'
  PROVE  Keeps4
  BY IsrKeeps4, Pmic1Keeps4, Pmic2Keeps4, IoctlKeeps4, WriterKeeps4,
     ArriveKeeps4
  DEF Next

LEMMA Reg4Initially == Init => Hand4 /\ Bit1 /\ Chip4
  BY DEF Init, Hand4, Bit1, Chip4, Reporters, Threads, DetachedPort

LEMMA Reg4Invariance == Spec => []Reg4Inv
<1>1. Init => Reg4Inv
  BY Reg4Initially DEF Reg4Inv
<1>2. Known /\ Reg4Inv /\ [Next]_vars => Reg4Inv'
  <2> SUFFICES ASSUME Known, Reg4Inv, [Next]_vars
               PROVE  Reg4Inv'
    OBVIOUS
  <2>1. CASE UNCHANGED vars
    BY <2>1 DEF vars, Reg4Inv, Hand4, Bit1, Chip4, Own
  <2>2. CASE Next
    <3>1. Observe
      BY <2>2 DEF Next, IsrRun, Pmic1Go, Pmic2Run, IoctlRun, WriterRun
    <3> QED BY <2>2, <3>1, LaterOverlap, NextKeeps4 DEF Reg4Inv, Keeps4
  <2> QED BY <2>1, <2>2
<1> QED BY <1>1, <1>2, KnowledgeInvariance, PTL DEF Spec
\* The toggle bit and the stored event agree outside the store of a new port
\* and the load and store of the register that follow it.
THEOREM ToggleAgrees == Spec => []ToggleFollowsPort
<1>1. Reg4Inv => ToggleFollowsPort
  BY DEF Reg4Inv, Bit1, ToggleFollowsPort
<1> QED BY <1>1, Reg4Invariance, PTL
-----------------------------------------------------------------------------
(***************************************************************************)
(* Who writes what. A step of the system leaves the part of the state      *)
(* alone, or is one of the actions named.                                  *)
(***************************************************************************)
LEMMA Reg5Writers ==
  ASSUME Next
  PROVE  \/ UNCHANGED reg5Vars
         \/ IsrVConn \/ IsrRole \/ Pmic1Run \/ Pmic2Detach \/ SetPortDataRole
         \/ IoctlReportNewPowerRole \/ IoctlSetVConnRoleSwitch
<1>1. ASSUME IsrRun PROVE UNCHANGED reg5Vars \/ IsrVConn \/ IsrRole
  BY <1>1 DEF IsrRun, IsrPortNext, IsrPdNext, IsrAcquire, IsrStatus, IsrPort,
     IsrCheck, Report, Store, Toggle, IsrSend, IsrLevel, IsrLevelReport,
     IsrLevelStore, IsrAck, ProcessIncomingPdMessage, SetEvent,
     SynchronizeIncomingMessageSize, NoAnswerYet, portSide
<1>2. ASSUME Pmic1Go PROVE UNCHANGED reg5Vars \/ Pmic1Run
  BY <1>2 DEF Pmic1Go, Pmic1Next, Pmic1Start, Pmic1Acquire
<1>3. ASSUME Pmic2Run PROVE UNCHANGED reg5Vars \/ Pmic2Detach
  BY <1>3 DEF Pmic2Run, Pmic2Next, Pmic2Acquire, Pmic2Nothing, Report, Store,
     Toggle, Pmic2Send
<1>4. ASSUME IoctlRun
      PROVE  \/ UNCHANGED reg5Vars \/ SetPortDataRole
             \/ IoctlReportNewPowerRole \/ IoctlSetVConnRoleSwitch
  BY <1>4 DEF IoctlRun, IoctlNext, IoctlAcquire, IoctlRefuse, GetStateStart,
     GetStateRead, GetStateReply, PdEnableStart, PdEnable, PdEnableSend,
     IoctlExecuteHardReset
<1>5. ASSUME WriterRun PROVE UNCHANGED reg5Vars
  BY <1>5 DEF WriterRun, WriterNext, WriteReset, WriteClear, WriteAcquire,
     WriteSend, WriteFail, WriteTimeout, WriteAwake, WriteDecide, portSide
<1>6. ASSUME Arrive PROVE UNCHANGED reg5Vars
  BY <1>6 DEF Arrive, IsrArrive, PmicInterrupt1Isr, Pmic2Arrive, IoctlArrive,
     IoctlNotify, WriteArrive, WriteNothing, ReadArrive, portSide
<1> QED BY <1>1, <1>2, <1>3, <1>4, <1>5, <1>6 DEF Next

LEMMA Shadow4Writers ==
  ASSUME Next
  PROVE  \/ UNCHANGED shadow4
         \/ PdEnable /\ Store4("ioctl")
         \/ \E t \in {"isr", "pmic2"} : Store4(t)
<1>1. ASSUME IsrRun PROVE UNCHANGED shadow4 \/ Store4("isr")
  BY <1>1 DEF IsrRun, IsrPortNext, IsrPdNext, IsrAcquire, IsrStatus, IsrPort,
     IsrVConn, IsrRole, IsrCheck, Report, Store, Toggle, ToggleReg4, Load4,
     Copy4, IsrSend, Send4, IsrLevel, IsrLevelReport, IsrLevelStore, IsrAck,
     ProcessIncomingPdMessage, SetEvent, SynchronizeIncomingMessageSize,
     NoAnswerYet, portSide, reg4Vars
<1>2. ASSUME Pmic1Go PROVE UNCHANGED shadow4
  BY <1>2 DEF Pmic1Go, Pmic1Next, Pmic1Start, Pmic1Acquire, Pmic1Run, reg4Vars
<1>3. ASSUME Pmic2Run PROVE UNCHANGED shadow4 \/ Store4("pmic2")
  BY <1>3 DEF Pmic2Run, Pmic2Next, Pmic2Acquire, Pmic2Detach, Pmic2Nothing,
     Report, Store, Toggle, ToggleReg4, Load4, Copy4, Pmic2Send, Send4,
     reg4Vars
<1>4. ASSUME IoctlRun
      PROVE  UNCHANGED shadow4 \/ (PdEnable /\ Store4("ioctl"))
  BY <1>4 DEF IoctlRun, IoctlNext, IoctlAcquire, IoctlRefuse, GetStateStart,
     GetStateRead, GetStateReply, SetPortDataRole, IoctlReportNewPowerRole,
     IoctlSetVConnRoleSwitch, PdEnableStart, PdEnable, Load4, Copy4,
     PdEnableSend, Send4, IoctlExecuteHardReset, reg4Vars
<1>5. ASSUME WriterRun PROVE UNCHANGED shadow4
  BY <1>5 DEF WriterRun, WriterNext, WriteReset, WriteClear, WriteAcquire,
     WriteSend, WriteFail, WriteTimeout, WriteAwake, WriteDecide, portSide,
     reg4Vars
<1>6. ASSUME Arrive PROVE UNCHANGED shadow4
  BY <1>6 DEF Arrive, IsrArrive, PmicInterrupt1Isr, Pmic2Arrive, IoctlArrive,
     IoctlNotify, WriteArrive, WriteNothing, ReadArrive, portSide, reg4Vars
<1> QED BY <1>1, <1>2, <1>3, <1>4, <1>5, <1>6 DEF Next

\* Only the default queue moves itself and takes up or ends its request.
LEMMA RequestWriters ==
  ASSUME ControlOK, Next
  PROVE  IoctlRun \/ IoctlArrive \/ UNCHANGED <<pc["ioctl"], req>>
<1> USE DEF ControlOK, Threads
<1>1. ASSUME IsrRun PROVE UNCHANGED <<pc["ioctl"], req>>
  BY <1>1 DEF IsrRun, IsrPortNext, IsrPdNext, IsrAcquire, IsrStatus, IsrPort,
     IsrVConn, IsrRole, IsrCheck, Report, Store, Toggle, ToggleReg4, Load4,
     Store4, Copy4, IsrSend, IsrLevel, IsrLevelReport, IsrLevelStore, IsrAck,
     ProcessIncomingPdMessage, IncomingMessage, SetEvent,
     SynchronizeIncomingMessageSize, NoAnswerYet, portSide, otherVars, Step,
     Acquire, Release
<1>2. ASSUME Pmic1Go PROVE UNCHANGED <<pc["ioctl"], req>>
  BY <1>2 DEF Pmic1Go, Pmic1Next, Pmic1Start, Pmic1Acquire, Pmic1Run, Step,
     Acquire, Release, otherVars
<1>3. ASSUME Pmic2Run PROVE UNCHANGED <<pc["ioctl"], req>>
  BY <1>3 DEF Pmic2Run, Pmic2Next, Pmic2Acquire, Pmic2Detach, Pmic2Nothing,
     Report, Store, Toggle, ToggleReg4, Load4, Store4, Copy4, Pmic2Send, Step,
     Acquire, Release, otherVars
<1>4. ASSUME WriterRun PROVE UNCHANGED <<pc["ioctl"], req>>
  BY <1>4 DEF WriterRun, WriterNext, WriteReset, WriteClear, WriteAcquire,
     WriteSend, WriteFail, WriteTimeout, WriteAwake, WriteDecide, portSide,
     Step, Acquire, Release
<1>5. ASSUME Arrive PROVE IoctlArrive \/ UNCHANGED <<pc["ioctl"], req>>
  BY <1>5 DEF Arrive, IsrArrive, PmicInterrupt1Isr, Pmic2Arrive,
     IoctlNotify, WriteArrive, WriteNothing, ReadArrive, portSide, otherVars,
     syncVars, Step
<1> QED BY <1>1, <1>2, <1>3, <1>4, <1>5 DEF Next
-----------------------------------------------------------------------------
\* A read-modify-write by the default queue serves the request that asks for it.
RequestInv == pc["ioctl"] \in Toggle4 => req.op = "pdEnable"

LEMMA RequestInvariance == Spec => []RequestInv
<1>1. Init => RequestInv
  BY DEF Init, RequestInv, Toggle4, Threads
<1>2. ControlOK /\ RequestInv /\ [Next]_vars => RequestInv'
  <2> SUFFICES ASSUME ControlOK, RequestInv, [Next]_vars
               PROVE  RequestInv'
    OBVIOUS
  <2>1. CASE UNCHANGED <<pc["ioctl"], req>>
    BY <2>1 DEF RequestInv
  <2>2. CASE IoctlRun
    BY <2>2 DEF IoctlRun, IoctlNext, IoctlAcquire, IoctlRefuse, GetStateStart,
       GetStateRead, GetStateReply, SetPortDataRole, IoctlReportNewPowerRole,
       IoctlSetVConnRoleSwitch, PdEnableStart, PdEnable, Load4, Store4, Copy4,
       PdEnableSend, IoctlExecuteHardReset, Completed, Step, Acquire, Release,
       ControlOK, Threads, RequestInv, Toggle4
  <2>3. CASE IoctlArrive
    BY <2>3 DEF IoctlArrive, Step, ControlOK, Threads, RequestInv, Toggle4
  <2>4. CASE UNCHANGED vars
    BY <2>4 DEF vars, RequestInv
  <2> QED BY <2>1, <2>2, <2>3, <2>4, RequestWriters
<1> QED BY <1>1, <1>2, LockInvariance, PTL DEF Spec, LockInv

\* Attaching and detaching leave a client's GoodCRC setting as it is.
THEOREM GoodCrcKept == Spec => GoodCrcIsTheClients
<1>1. Reg4Inv /\ RequestInv /\ [Next]_vars =>
        [("crc" \in shadow4) # ("crc" \in shadow4') /\ ~overlap =>
           pc["ioctl"] = "store4" /\ req.op = "pdEnable"]_vars
  <2> SUFFICES ASSUME Reg4Inv, RequestInv, Next, ~overlap,
                      ("crc" \in shadow4) # ("crc" \in shadow4')
               PROVE  pc["ioctl"] = "store4" /\ req.op = "pdEnable"
    OBVIOUS
  <2>1. CASE Store4("ioctl")
    BY <2>1 DEF Store4, Step, RequestInv, Toggle4
  <2>2. ASSUME NEW t \in {"isr", "pmic2"}, Store4(t)
        PROVE  FALSE
    BY <2>2 DEF Store4, Step, Reg4Inv, Hand4, Own, With, Reporters
  <2> QED BY <2>1, <2>2, Shadow4Writers
<1> QED BY <1>1, Reg4Invariance, RequestInvariance, PTL
        DEF Spec, GoodCrcIsTheClients
-----------------------------------------------------------------------------
(***************************************************************************)
(* Register 5. With a working bus its shadow is never behind.              *)
(***************************************************************************)
Reg5Inv == ~SpiMayFail => chip5 = shadow5

LEMMA Reg5Step ==
  ASSUME Reg5Inv, Next, ~SpiMayFail
  PROVE  /\ chip5' = shadow5'
         /\ ("power" \in chip5) # ("power" \in chip5') =>
              \/ pc["isr"] = "role" /\ IsrRole
              \/ /\ pc["ioctl"] = "serve" /\ req.op = "powerRole"
                 /\ req.value % 256 = (IF "power" \in chip5' THEN 1 ELSE 0)
<1>1. CASE UNCHANGED reg5Vars
  BY <1>1 DEF reg5Vars, Reg5Inv
<1>2. CASE IsrVConn
  BY <1>2 DEF IsrVConn, SetVConn, SetBit5, WriteReg5, Sent, With
<1>3. CASE IsrRole
  BY <1>3 DEF IsrRole, Step, SetPowerRole, SetBit5, WriteReg5, Sent
<1>4. CASE Pmic1Run
  BY <1>4 DEF Pmic1Run, WriteReg5, Sent, With, Reg5Inv
<1>5. CASE Pmic2Detach
  BY <1>5 DEF Pmic2Detach, WriteReg5, Sent, With, Reg5Inv
<1>6. CASE SetPortDataRole
  BY <1>6 DEF SetPortDataRole, WriteReg5, Sent, With, Reg5Inv
<1>7. CASE IoctlReportNewPowerRole
  <2>1. /\ pc["ioctl"] = "serve" /\ req.op = "powerRole"
        /\ PowerRoleChange
    BY <1>7 DEF IoctlReportNewPowerRole, Completed, Release
  <2>2. CASE UNCHANGED chip5
    BY <2>1, <2>2 DEF PowerRoleChange, Sent
  <2>3. CASE chip5' # chip5
    <3> DEFINE v  == Truncated(req.value)
               b1 == With(chip5, "power", v = 1)
               b2 == With(b1, "pmic", v = 0)
    <3>1. /\ shadow5' = b2 /\ chip5' = b2
          /\ v \in {0, 1}
      BY <2>1, <2>3 DEF PowerRoleChange, Sent
    <3>2. "power" \in chip5' <=> v = 1
      BY <3>1 DEF With
    <3>3. req.value % 256 = v
      BY DEF Truncated
    <3> QED BY <2>1, <3>1, <3>2, <3>3
  <2> QED BY <2>2, <2>3
<1>8. CASE IoctlSetVConnRoleSwitch
  BY <1>8 DEF IoctlSetVConnRoleSwitch, WriteReg5, Sent, With
<1> QED BY <1>1, <1>2, <1>3, <1>4, <1>5, <1>6, <1>7, <1>8, Reg5Writers

LEMMA Reg5Invariance == Spec => []Reg5Inv
<1>1. Init => Reg5Inv
  BY DEF Init, Reg5Inv
<1>2. Reg5Inv /\ [Next]_vars => Reg5Inv'
  BY Reg5Step DEF Reg5Inv, vars
<1> QED BY <1>1, <1>2, PTL DEF Spec

\* With a working bus the two shadows are what the chip has, except while
\* Register 4 is being sent.
THEOREM ShadowsAreTrue == Spec => []ShadowsMatchChip
<1>1. Reg4Inv /\ Reg5Inv => ShadowsMatchChip
  BY DEF Reg4Inv, Chip4, Reg5Inv, ShadowsMatchChip
<1> QED BY <1>1, Reg4Invariance, Reg5Invariance, PTL

\* The power role changes only where a cable state is applied, or to the role
\* a client asked for.
THEOREM PowerRoleIsChosen == Spec => PowerRoleHasAuthor
<1>1. ControlOK /\ Reg5Inv /\ [Next]_vars =>
        [~SpiMayFail /\ ("power" \in chip5) # ("power" \in chip5') =>
           \/ pc["isr"] = "role" /\ pc'["isr"] # "role"
           \/ /\ pc["ioctl"] = "serve" /\ req.op = "powerRole"
              /\ req.value % 256 = (IF "power" \in chip5' THEN 1 ELSE 0)]_vars
  <2>1. ControlOK /\ IsrRole => pc'["isr"] # "role"
    BY DEF ControlOK, IsrRole, Step, Threads
  <2> QED BY <2>1, Reg5Step
<1> QED BY <1>1, LockInvariance, Reg5Invariance, PTL
        DEF Spec, LockInv, PowerRoleHasAuthor
-----------------------------------------------------------------------------
(***************************************************************************)
(* The port as the interrupt handler leaves it.                            *)
(***************************************************************************)
LEMMA PortWriters ==
  ASSUME Next
  PROVE  \/ UNCHANGED <<port, detacher>>
         \/ Store("isr") \/ Store("pmic2") \/ IsrLevelStore
<1> USE DEF portVars
<1>1. ASSUME IsrRun
      PROVE  UNCHANGED <<port, detacher>> \/ Store("isr") \/ IsrLevelStore
  BY <1>1 DEF IsrRun, IsrPortNext, IsrPdNext, IsrAcquire, IsrStatus, IsrPort,
     IsrVConn, IsrRole, IsrCheck, Report, Toggle, IsrSend, IsrLevel,
     IsrLevelReport, IsrAck, ProcessIncomingPdMessage, SetEvent,
     SynchronizeIncomingMessageSize, NoAnswerYet, portSide
<1>2. ASSUME Pmic1Go PROVE UNCHANGED <<port, detacher>>
  BY <1>2 DEF Pmic1Go, Pmic1Next, Pmic1Start, Pmic1Acquire, Pmic1Run
<1>3. ASSUME Pmic2Run PROVE UNCHANGED <<port, detacher>> \/ Store("pmic2")
  BY <1>3 DEF Pmic2Run, Pmic2Next, Pmic2Acquire, Pmic2Detach, Pmic2Nothing,
     Report, Toggle, Pmic2Send
<1>4. ASSUME IoctlRun PROVE UNCHANGED <<port, detacher>>
  BY <1>4 DEF IoctlRun, IoctlNext, IoctlAcquire, IoctlRefuse, GetStateStart,
     GetStateRead, GetStateReply, SetPortDataRole, IoctlReportNewPowerRole,
     IoctlSetVConnRoleSwitch, PdEnableStart, PdEnable, PdEnableSend,
     IoctlExecuteHardReset
<1>5. ASSUME WriterRun PROVE UNCHANGED <<port, detacher>>
  BY <1>5 DEF WriterRun, WriterNext, WriteReset, WriteClear, WriteAcquire,
     WriteSend, WriteFail, WriteTimeout, WriteAwake, WriteDecide, portSide
<1>6. ASSUME Arrive PROVE UNCHANGED <<port, detacher>>
  BY <1>6 DEF Arrive, IsrArrive, PmicInterrupt1Isr, Pmic2Arrive, IoctlArrive,
     IoctlNotify, WriteArrive, WriteNothing, ReadArrive, portSide
<1> QED BY <1>1, <1>2, <1>3, <1>4, <1>5, <1>6 DEF Next

\* What belongs to the interrupt handler alone.
IsrOwn == <<pc["isr"], rpt["isr"], todo["isr"], r2>>

LEMMA OthersLeaveIsr ==
  ASSUME ControlOK, PortOK, Pmic1Go \/ Pmic2Run \/ IoctlRun \/ WriterRun
  PROVE  UNCHANGED IsrOwn
<1> USE DEF ControlOK, PortOK, Threads, Reporters, IsrOwn, portVars
<1>1. ASSUME Pmic1Go PROVE UNCHANGED IsrOwn
  BY <1>1 DEF Pmic1Go, Pmic1Next, Pmic1Start, Pmic1Acquire, Pmic1Run, Step,
     Acquire, Release
<1>2. ASSUME Pmic2Run PROVE UNCHANGED IsrOwn
  BY <1>2 DEF Pmic2Run, Pmic2Next, Pmic2Acquire, Pmic2Detach, Pmic2Nothing,
     Report, StartStore, Store, StoreField, Toggle, ToggleReg4, Load4, Store4,
     Copy4, Pmic2Send, Step, Acquire, Release
<1>3. ASSUME IoctlRun PROVE UNCHANGED IsrOwn
  BY <1>3 DEF IoctlRun, IoctlNext, IoctlAcquire, IoctlRefuse, GetStateStart,
     GetStateRead, GetStateReply, SetPortDataRole, IoctlReportNewPowerRole,
     IoctlSetVConnRoleSwitch, PdEnableStart, PdEnable, Load4, Store4, Copy4,
     PdEnableSend, IoctlExecuteHardReset, Completed, Step, Acquire, Release,
     idleVars
<1>4. ASSUME WriterRun PROVE UNCHANGED IsrOwn
  BY <1>4 DEF WriterRun, WriterNext, WriteReset, WriteClear, WriteAcquire,
     WriteSend, WriteFail, WriteTimeout, WriteAwake, WriteDecide, portSide,
     Step, Acquire, Release
<1> QED BY <1>1, <1>2, <1>3, <1>4

LEMMA IsrWriters ==
  ASSUME ControlOK, PortOK, Next
  PROVE  IsrRun \/ IsrArrive \/ UNCHANGED IsrOwn
<1>1. ASSUME Arrive PROVE IsrArrive \/ UNCHANGED IsrOwn
  BY <1>1 DEF Arrive, PmicInterrupt1Isr, Pmic2Arrive, IoctlArrive,
     IoctlNotify, WriteArrive, WriteNothing, ReadArrive, portSide, idleVars,
     syncVars, Step, ControlOK, PortOK, Threads, Reporters, IsrOwn, portVars
<1> QED BY <1>1, OthersLeaveIsr DEF Next

(***************************************************************************)
(* After a detach that the handler has stored, the chip gives no power, or *)
(* the handler is on its way to apply the next attach, or to take the      *)
(* power away.                                                             *)
(***************************************************************************)
PowersUp == /\ rpt["isr"].event = "Attach"
            /\ \/ pc["isr"] \in {"role", "check", "report"}
               \/ pc["isr"] = "store" /\ "event" \in todo["isr"]
PowersDown == /\ rpt["isr"].event = "Detach"
              /\ \/ pc["isr"] \in {"store", "vconn"} \cup Toggle4
                 \/ pc["isr"] = "role" /\ "vconn" \notin chip5
NoPower == chip5 \cap {"vconn", "power"} = {}
IsrDetached == port.event = "Detach" /\ detacher = "isr"

DownInv ==
  ~SpiMayFail /\ IsrDetached => NoPower \/ PowersUp \/ PowersDown

\* Where the handler has no power to turn on or off, whatever it does next.
LEMMA FrameKeepsDown ==
  ASSUME DownInv, UNCHANGED <<port.event, detacher, chip5>>,
         pc["isr"] \notin {"role", "check", "report", "store", "vconn"} \cup Toggle4
  PROVE  DownInv'
  BY DEF DownInv, NoPower, PowersUp, PowersDown, IsrDetached

LEMMA IsrKeepsDown ==
  ASSUME TypeOK, DownInv, IsrRun
  PROVE  DownInv'
<1> SUFFICES ASSUME ~SpiMayFail
             PROVE  DownInv'
  BY DEF DownInv
<1> USE DEF DownInv, NoPower, PowersUp, PowersDown, IsrDetached
<1>0. /\ pc \in [Threads -> UNION {Labels(t) : t \in Threads}]
      /\ "isr" \in Threads
      /\ port \in PortStates /\ rpt["isr"] \in PortStates
      /\ todo \in [Reporters -> SUBSET PortFields] /\ "isr" \in Reporters
  BY DEF TypeOK, ControlOK, PortOK, Threads, Reporters
<1>1. CASE IsrVConn
  BY <1>0, <1>1 DEF IsrVConn, Step, SetVConn, SetBit5, WriteReg5, Sent, With,
     Attaching, portVars, PortStates
<1>2. CASE IsrRole
  BY <1>0, <1>2 DEF IsrRole, Step, SetPowerRole, SetBit5, WriteReg5, Sent,
     With, Attaching, portVars, PortStates, Toggle4
<1>3. CASE IsrCheck
  BY <1>0, <1>3 DEF IsrCheck, Step, IsNews, portVars, reg5Vars, Toggle4
<1>4. CASE Report("isr")
  BY <1>0, <1>4 DEF Report, Step, StartStore, reg5Vars, PortFields, Toggle4
<1>5. CASE Store("isr")
  <2>1. PICK f \in todo["isr"] :
          /\ pc["isr"] = "store"
          /\ pc'["isr"] = (IF todo["isr"] = {f} THEN "load4" ELSE "store")
          /\ port' = [port EXCEPT ![f] = rpt["isr"][f]]
          /\ todo'["isr"] = todo["isr"] \ {f}
          /\ detacher' = (IF f = "event" /\ rpt["isr"].event = "Detach"
                          THEN "isr" ELSE detacher)
          /\ UNCHANGED <<rpt, chip5>>
    BY <1>0, <1>5 DEF Store, StoreField, Step, reg5Vars
  <2>2. CASE f = "event"
    BY <1>0, <2>1, <2>2 DEF PortStates, Toggle4
  <2>3. CASE f # "event"
    <3>1. port'.event = port.event /\ detacher' = detacher
      BY <1>0, <2>1, <2>3 DEF PortStates, PortFields
    <3>2. CASE rpt["isr"].event = "Detach"
      BY <2>1, <3>2 DEF Toggle4
    <3>3. CASE rpt["isr"].event # "Detach" /\ "event" \in todo["isr"]
      BY <2>1, <2>3, <3>1, <3>3 DEF Toggle4
    <3>4. CASE rpt["isr"].event # "Detach" /\ "event" \notin todo["isr"]
      BY <2>1, <3>1, <3>4 DEF Toggle4
    <3> QED BY <3>2, <3>3, <3>4
  <2> QED BY <2>2, <2>3
<1>6. CASE Toggle("isr")
  BY <1>0, <1>6 DEF Toggle, ToggleReg4, Load4, Store4, Copy4, Step, portVars,
     reg5Vars, Toggle4
<1>7. CASE IsrSend
  BY <1>0, <1>7 DEF IsrSend, Step, Attaching, portVars, reg5Vars, Toggle4
<1>8. CASE IsrLevelStore
  <2>1. port'.event = port.event
    BY <1>0, <1>8 DEF IsrLevelStore, PortStates
  <2> QED BY <1>8, <2>1, FrameKeepsDown
          DEF IsrLevelStore, Step, reg5Vars, Toggle4
<1>9. CASE \/ IsrAcquire \/ IsrStatus \/ IsrPort \/ IsrLevel \/ IsrLevelReport
           \/ IsrAck \/ IsrPdNext
  <2>1. UNCHANGED <<port, detacher, chip5>>
    BY <1>9 DEF IsrAcquire, IsrStatus, IsrPort, IsrLevel, IsrLevelReport,
       IsrAck, IsrPdNext, ProcessIncomingPdMessage, SetEvent, NoAnswerYet,
       SynchronizeIncomingMessageSize, portSide, portVars, reg5Vars
  <2>2. pc["isr"] \notin {"role", "check", "report", "store", "vconn"} \cup Toggle4
    BY <1>9 DEF IsrAcquire, IsrStatus, IsrPort, IsrLevel, IsrLevelReport,
       IsrAck, IsrPdNext, ProcessIncomingPdMessage, IncomingMessage, SetEvent,
       SynchronizeIncomingMessageSize, NoAnswerYet, Step, Acquire, Release,
       Toggle4
  <2> QED BY <2>1, <2>2, FrameKeepsDown
<1> QED BY <1>1, <1>2, <1>3, <1>4, <1>5, <1>6, <1>7, <1>8, <1>9
        DEF IsrRun, IsrPortNext

LEMMA OthersKeepDown ==
  ASSUME TypeOK, Reg5Inv, DownInv, Next, UNCHANGED IsrOwn
  PROVE  DownInv'
<1> SUFFICES ASSUME ~SpiMayFail, IsrDetached'
             PROVE  DownInv'
  BY DEF DownInv
<1>0. /\ pc \in [Threads -> UNION {Labels(t) : t \in Threads}]
      /\ "isr" \in Threads
      /\ port \in PortStates /\ rpt["pmic2"] = DetachedPort
      /\ todo \in [Reporters -> SUBSET PortFields] /\ "isr" \in Reporters
  BY DEF TypeOK, ControlOK, PortOK, Threads, Reporters
<1>1. IsrDetached /\ (UNCHANGED port \/ Store("pmic2"))
  <2>1. ~IsrLevelStore
    BY <1>0 DEF IsrLevelStore, Step, IsrOwn
  <2>2. ~Store("isr")
    BY <1>0 DEF Store, StoreField, IsrOwn
  <2>3. CASE Store("pmic2")
    BY <1>0, <2>3 DEF Store, StoreField, IsrDetached, PortStates, PortFields
  <2> QED BY <2>1, <2>2, <2>3, PortWriters DEF IsrDetached
<1>2. /\ "vconn" \in chip5' => "vconn" \in chip5
      /\ "power" \in chip5' => "power" \in chip5
  <2>1. CASE UNCHANGED reg5Vars
    BY <2>1 DEF reg5Vars
  <2>2. ~IsrVConn /\ ~IsrRole
    BY <1>0 DEF IsrVConn, IsrRole, Step, IsrOwn
  <2>3. CASE Pmic1Run
    BY <2>3 DEF Pmic1Run, WriteReg5, Sent, With, Reg5Inv
  <2>4. CASE Pmic2Detach
    BY <2>4 DEF Pmic2Detach, WriteReg5, Sent, With, Reg5Inv
  <2>5. CASE SetPortDataRole
    BY <2>5 DEF SetPortDataRole, WriteReg5, Sent, With, Reg5Inv
  <2>6. ~IoctlReportNewPowerRole /\ ~IoctlSetVConnRoleSwitch
    BY <1>1 DEF IoctlReportNewPowerRole, IoctlSetVConnRoleSwitch, Refused,
       Attached, IsrDetached
  <2> QED BY <2>1, <2>2, <2>3, <2>4, <2>5, <2>6, Reg5Writers
<1> QED BY <1>1, <1>2 DEF DownInv, NoPower, PowersUp, PowersDown, IsrOwn

LEMMA DownInvariance == Spec => []DownInv
<1>1. Init => DownInv
  BY DEF Init, DownInv, NoPower
<1>2. TypeOK /\ Reg5Inv /\ DownInv /\ [Next]_vars => DownInv'
  <2> SUFFICES ASSUME TypeOK, Reg5Inv, DownInv, [Next]_vars
               PROVE  DownInv'
    OBVIOUS
  <2>1. CASE UNCHANGED vars
    BY <2>1 DEF vars, DownInv, NoPower, PowersUp, PowersDown, IsrDetached
  <2>2. CASE IsrArrive
    BY <2>2, FrameKeepsDown DEF IsrArrive, Step, portVars, reg5Vars, Toggle4
  <2> QED BY <2>1, <2>2, IsrKeepsDown, OthersKeepDown, IsrWriters DEF TypeOK
<1> QED BY <1>1, <1>2, TypeCorrect, Reg5Invariance, PTL DEF Spec

\* Once the handler has seen a cable go, and has returned, neither VConn nor
\* the source role is on, whatever the clients ask for.
THEOREM DetachedTakesPower == Spec => []DetachedIsPoweredDown
<1>1. DownInv => DetachedIsPoweredDown
  BY DEF DownInv, DetachedIsPoweredDown, NoPower, PowersUp, PowersDown,
         IsrDetached, Toggle4
<1> QED BY <1>1, DownInvariance, PTL
-----------------------------------------------------------------------------
(***************************************************************************)
(* What the handler has stored of the status it read, at each label up to  *)
(* the acknowledgement; and that the unlocked tail of PMIC interrupt 2,    *)
(* which would store a detach, does not run once the handler compares.     *)
(***************************************************************************)
Looking == {"check", "report", "store"}
Applying == {"vconn", "role"} \cup Looking \cup Toggle4
Levelling == {"level", "levelReport", "levelStore"}
Answering == {"pd", "pdSignal", "size", "sizeSignal", "ack"}
Kept == Toggle4 \cup Levelling \cup Answering

\* The status says a cable came, or went.
Came == r2.state \in AttachRoles
Went == r2.state \in DetachRoles

Reported ==
  /\ pc["isr"] \in Applying => Came \/ Went
  /\ pc["isr"] \in Applying \cup Levelling => (rpt["isr"].event = "Attach") = Came
  /\ pc["isr"] \in {"levelReport", "levelStore"} =>
       rpt["isr"].current = ChangedCurrent(r2.level)
Stored ==
  /\ Came /\ pc["isr"] \in Kept => port.event = "Attach"
  /\ Went /\ pc["isr"] \in Kept \cup {"vconn", "role"} => port.event = "Detach"
  /\ r2.level # 0 /\ pc["isr"] \in Answering =>
       port.current = ChangedCurrent(r2.level)
Undisturbed ==
  \/ pc["isr"] \in Looking \cup Toggle4 \cup Levelling
  \/ pc["isr"] \in {"vconn", "role"} /\ Went
  \/ pc["isr"] \in Answering /\ (r2.state # 0 \/ r2.level # 0)
  => pc["pmic2"] \notin Unlocked

AckInv == ~SpiMayFail /\ ~overlap => Reported /\ Stored /\ Undisturbed

LEMMA IsrKeepsAck ==
  ASSUME Known, AckInv, IsrRun
  PROVE  AckInv'
<1> SUFFICES ASSUME ~SpiMayFail, ~overlap'
             PROVE  (Reported /\ Stored /\ Undisturbed)'
  BY DEF AckInv
<1>0. /\ pc \in [Threads -> UNION {Labels(t) : t \in Threads}]
      /\ "isr" \in Threads /\ "pmic2" \in Threads
      /\ port \in PortStates /\ rpt \in [Reporters -> PortStates]
      /\ "isr" \in Reporters
  BY DEF Known, TypeOK, ControlOK, PortOK, Threads, Reporters
<1>00. /\ ~overlap /\ ~Clash'
       /\ Reported /\ Stored /\ Undisturbed
  BY LaterOverlap DEF IsrRun, AckInv
<1> USE DEF Reported, Stored, Undisturbed, Came, Went, Clash, Touching, Applying,
            Looking, Levelling, Answering, Kept, Toggle4, Unlocked
<1>1. CASE IsrAcquire
  BY <1>0, <1>00, <1>1 DEF IsrAcquire, Acquire
<1>2. CASE IsrStatus
  BY <1>0, <1>00, <1>2 DEF IsrStatus, Step, portVars, AttachRoles, DetachRoles
<1>3. CASE IsrPort
  BY <1>0, <1>00, <1>3 DEF IsrPort, Step, AfterPort, PortFor, DetachedPort,
     SourceRoles, AttachRoles, DetachRoles
<1>4. CASE IsrVConn
  BY <1>0, <1>00, <1>4 DEF IsrVConn, Step, portVars
<1>5. CASE IsrRole
  BY <1>0, <1>00, <1>5 DEF IsrRole, Step, Attaching, portVars
<1>6. CASE IsrCheck
  BY <1>0, <1>00, <1>6 DEF IsrCheck, Step, IsNews, portVars, PortStates,
     AttachRoles, DetachRoles
<1>7. CASE Report("isr")
  BY <1>0, <1>00, <1>7 DEF Report, Step
<1>8. CASE Store("isr")
  <2>1. PICK f \in PortFields :
          /\ pc["isr"] = "store"
          /\ pc'["isr"] = (IF todo["isr"] = {f} THEN "load4" ELSE "store")
          /\ port' = [port EXCEPT ![f] = rpt["isr"][f]]
          /\ UNCHANGED <<rpt, r2>> /\ pc'["pmic2"] = pc["pmic2"]
    BY <1>0, <1>8 DEF Store, StoreField, Step
  <2>2. \A g \in PortFields \ todo["isr"] : port[g] = rpt["isr"][g]
    BY <1>00, <2>1 DEF Known, KnowledgeInv, StoringInv, Storing
  <2>3. pc'["isr"] = "load4" => port'.event = rpt["isr"].event
    BY <1>0, <2>1, <2>2 DEF PortStates, PortFields
  <2> QED BY <1>0, <1>00, <2>1, <2>3 DEF AttachRoles, DetachRoles, PortStates
<1>9. CASE Toggle("isr")
  BY <1>0, <1>00, <1>9 DEF Toggle, ToggleReg4, Load4, Store4, Copy4, Step, portVars
<1>10. CASE IsrSend
  BY <1>0, <1>00, <1>10 DEF IsrSend, Step, Attaching, portVars
<1>11. CASE IsrLevel
  BY <1>0, <1>00, <1>11 DEF IsrLevel, Step, AfterLevel, PortStates
<1>12. CASE IsrLevelReport
  BY <1>0, <1>00, <1>12 DEF IsrLevelReport, Step, portVars
<1>13. CASE IsrLevelStore
  BY <1>0, <1>00, <1>13 DEF IsrLevelStore, Step, PortStates
<1>14. CASE IsrAck
  BY <1>0, <1>00, <1>14 DEF IsrAck, Release
<1>15. CASE ProcessIncomingPdMessage
  BY <1>0, <1>00, <1>15 DEF ProcessIncomingPdMessage, IncomingMessage, Step,
     portSide, portVars
<1>16. CASE SetEvent("pdSignal", "size")
  BY <1>0, <1>00, <1>16 DEF SetEvent, Step, portSide, portVars
<1>17. CASE SynchronizeIncomingMessageSize
  BY <1>0, <1>00, <1>17 DEF SynchronizeIncomingMessageSize, Step, portSide,
     portVars
<1>18. CASE NoAnswerYet
  BY <1>0, <1>00, <1>18 DEF NoAnswerYet, Step, portSide, portVars
<1>19. CASE SetEvent("sizeSignal", "ack")
  BY <1>0, <1>00, <1>19 DEF SetEvent, Step, portSide, portVars
<1> QED BY <1>1, <1>2, <1>3, <1>4, <1>5, <1>6, <1>7, <1>8, <1>9, <1>10, <1>11,
        <1>12, <1>13, <1>14, <1>15, <1>16, <1>17, <1>18, <1>19
        DEF IsrRun, IsrPortNext, IsrPdNext
\* While the handler is inside the lock nobody else changes what it compares,
\* unless PMIC interrupt 2 is past its release; and it cannot get there.
LEMMA Pmic2Writers ==
  ASSUME LockInv, Next, pc["isr"] \in Critical["isr"], UNCHANGED IsrOwn
  PROVE  pc'["pmic2"] \in Unlocked => pc["pmic2"] \in Unlocked
<1> USE DEF LockInv, ControlOK, Threads, Unlocked, Toggle4
<1>1. CASE IsrRun \/ IsrArrive
  <2>1. UNCHANGED pc["pmic2"]
    BY <1>1 DEF IsrRun, IsrPortNext, IsrPdNext, IsrAcquire, IsrStatus, IsrPort,
       IsrVConn, IsrRole, IsrCheck, Report, Store, Toggle, ToggleReg4, Load4,
       Store4, Copy4, IsrSend, IsrLevel, IsrLevelReport, IsrLevelStore, IsrAck,
       ProcessIncomingPdMessage, IncomingMessage, SetEvent,
       SynchronizeIncomingMessageSize, NoAnswerYet, Step, Acquire, Release,
       IsrArrive
  <2> QED BY <2>1
<1>2. CASE Pmic1Go \/ IoctlRun \/ WriterRun
  <2>1. UNCHANGED pc["pmic2"]
    BY <1>2 DEF Pmic1Go, Pmic1Next, Pmic1Start, Pmic1Acquire, Pmic1Run,
       IoctlRun, IoctlNext, IoctlAcquire, IoctlRefuse, GetStateStart,
       GetStateRead, GetStateReply, SetPortDataRole, IoctlReportNewPowerRole,
       IoctlSetVConnRoleSwitch, PdEnableStart, PdEnable, Load4, Store4, Copy4,
       PdEnableSend, IoctlExecuteHardReset, Completed, WriterRun, WriterNext,
       WriteReset, WriteClear, WriteAcquire, WriteSend, WriteFail,
       WriteTimeout, WriteAwake, WriteDecide, Step, Acquire, Release
  <2> QED BY <2>1
<1>3. CASE Arrive
  BY <1>3 DEF Arrive, IsrArrive, PmicInterrupt1Isr, Pmic2Arrive, IoctlArrive,
     IoctlNotify, WriteArrive, WriteNothing, ReadArrive, syncVars, Step
<1>4. CASE Pmic2Run
  <2>1. lock = "isr" /\ pc["pmic2"] \notin Critical["pmic2"]
    BY DEF LockDiscipline, Holds
  <2>2. ~Pmic2Detach
    BY <2>1, LabelsOfThreads DEF Pmic2Detach, Release
  <2> QED BY <1>4, <2>2 DEF Pmic2Run, Pmic2Next, Pmic2Acquire, Pmic2Nothing,
     Report, Store, Toggle, ToggleReg4, Load4, Store4, Copy4, Pmic2Send, Step,
     Acquire, Release
<1> QED BY <1>1, <1>2, <1>3, <1>4 DEF Next

LEMMA OthersKeepAck ==
  ASSUME Known, AckInv, Next, Observe, UNCHANGED IsrOwn
  PROVE  AckInv'
<1> SUFFICES ASSUME ~SpiMayFail, ~overlap'
             PROVE  (Reported /\ Stored /\ Undisturbed)'
  BY DEF AckInv
<1>0. /\ pc \in [Threads -> UNION {Labels(t) : t \in Threads}]
      /\ "isr" \in Threads
      /\ todo \in [Reporters -> SUBSET PortFields] /\ "isr" \in Reporters
  BY DEF Known, TypeOK, ControlOK, PortOK, Threads, Reporters
<1>1. Reported /\ Stored /\ Undisturbed
  BY LaterOverlap DEF AckInv
<1>2. Undisturbed'
  BY <1>1, Pmic2Writers, LabelsOfThreads
     DEF Known, TypeOK, LockInv, Undisturbed, Looking, Toggle4, Levelling,
         Answering, Went, IsrOwn
<1>3. UNCHANGED port \/ Store("pmic2")
  <2>1. ~IsrLevelStore /\ ~Store("isr")
    BY <1>0 DEF IsrLevelStore, Step, Store, StoreField, IsrOwn
  <2> QED BY <2>1, PortWriters
<1>4. CASE UNCHANGED port
  BY <1>1, <1>2, <1>4 DEF Reported, Stored, Came, Went, IsrOwn
<1>5. CASE Store("pmic2")
  BY <1>1, <1>2, <1>5
     DEF Store, Step, Unlocked, Reported, Stored, Undisturbed, Came, Went,
         Kept, IsrOwn, AttachRoles, DetachRoles
<1> QED BY <1>3, <1>4, <1>5

LEMMA AckInvariance == Spec => []AckInv
<1>1. Init => AckInv
  BY DEF Init, AckInv, Reported, Stored, Undisturbed, Threads, Applying, Looking,
     Levelling, Answering, Kept, Toggle4
<1>2. Known /\ AckInv /\ [Next]_vars => AckInv'
  <2> SUFFICES ASSUME Known, AckInv, [Next]_vars
               PROVE  AckInv'
    OBVIOUS
  <2>1. CASE UNCHANGED vars
    BY <2>1 DEF vars, AckInv, Reported, Stored, Undisturbed, Came, Went
  <2>2. CASE Next
    <3>1. Observe
      BY <2>2 DEF Next, IsrRun, Pmic1Go, Pmic2Run, IoctlRun, WriterRun
    <3>2. CASE IsrArrive
      BY <3>1, <3>2, LaterOverlap
         DEF IsrArrive, Step, Known, TypeOK, ControlOK, Threads, AckInv,
             Reported, Stored, Undisturbed, Applying, Looking, Levelling,
             Answering, Kept, Toggle4
    <3> QED BY <2>2, <3>1, <3>2, IsrKeepsAck, OthersKeepAck, IsrWriters
            DEF Known, TypeOK
  <2> QED BY <2>1, <2>2
<1> QED BY <1>1, <1>2, KnowledgeInvariance, PTL DEF Spec

\* What the handler acknowledges to the chip it has stored, cable state and
\* current level, whatever else goes on inside the lock.
THEOREM AckIsHonest == Spec => []AcknowledgedIsStored
<1>1. AckInv => AcknowledgedIsStored
  BY DEF AckInv, Stored, Came, Went, AcknowledgedIsStored, Kept, Answering
<1> QED BY <1>1, AckInvariance, PTL
=============================================================================
