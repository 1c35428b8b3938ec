----------------------------- MODULE WriteProofs -----------------------------
(***************************************************************************)
(* Power-delivery writes, for every value of the constants: a failed one   *)
(* stops the rest of the driver, for good; and whose answer it is that a   *)
(* successful one reports.                                                 *)
(***************************************************************************)
EXTENDS ContextProofs

\* The interrupt handler and the default queue work only inside the lock.
LEMMA IsrWorksInside ==
  ASSUME IsrRun
  PROVE  pc["isr"] \in Critical["isr"] \/ lock = "none"
<1>1. CASE IsrAcquire
  BY <1>1, LabelsOfThreads DEF IsrAcquire, Acquire
<1>2. CASE IsrStatus
  BY <1>2, LabelsOfThreads DEF IsrStatus, Step
<1>3. CASE IsrPort
  BY <1>3, LabelsOfThreads DEF IsrPort, Step
<1>4. CASE IsrVConn
  BY <1>4, LabelsOfThreads DEF IsrVConn, Step
<1>5. CASE IsrRole
  BY <1>5, LabelsOfThreads DEF IsrRole, Step
<1>6. CASE IsrCheck
  BY <1>6, LabelsOfThreads DEF IsrCheck, Step
<1>7. CASE Report("isr")
  BY <1>7, LabelsOfThreads DEF Report, Step
<1>8. CASE Store("isr")
  BY <1>8, LabelsOfThreads DEF Store, Step
<1>9. CASE Toggle("isr")
  BY <1>9, LabelsOfThreads DEF Toggle, ToggleReg4, Load4, Store4, Copy4, Step
<1>10. CASE IsrSend
  BY <1>10, LabelsOfThreads DEF IsrSend, Step
<1>11. CASE IsrLevel
  BY <1>11, LabelsOfThreads DEF IsrLevel, Step
<1>12. CASE IsrLevelReport
  BY <1>12, LabelsOfThreads DEF IsrLevelReport, Step
<1>13. CASE IsrLevelStore
  BY <1>13, LabelsOfThreads DEF IsrLevelStore, Step
<1>14. CASE IsrAck
  BY <1>14, LabelsOfThreads DEF IsrAck, Release
<1>15. CASE ProcessIncomingPdMessage
  BY <1>15, LabelsOfThreads DEF ProcessIncomingPdMessage, IncomingMessage, Step
<1>16. CASE SetEvent("pdSignal", "size")
  BY <1>16, LabelsOfThreads DEF SetEvent, Step
<1>17. CASE SynchronizeIncomingMessageSize
  BY <1>17, LabelsOfThreads DEF SynchronizeIncomingMessageSize, Step
<1>18. CASE NoAnswerYet
  BY <1>18, LabelsOfThreads DEF NoAnswerYet, Step
<1>19. CASE SetEvent("sizeSignal", "ack")
  BY <1>19, LabelsOfThreads DEF SetEvent, Step
<1> QED BY <1>1, <1>2, <1>3, <1>4, <1>5, <1>6, <1>7, <1>8, <1>9, <1>10, <1>11,
        <1>12, <1>13, <1>14, <1>15, <1>16, <1>17, <1>18, <1>19 DEF IsrRun,
        IsrPortNext, IsrPdNext

LEMMA IoctlWorksInside ==
  ASSUME IoctlRun
  PROVE  pc["ioctl"] \in Critical["ioctl"] \/ lock = "none"
<1>1. CASE IoctlAcquire
  BY <1>1, LabelsOfThreads DEF IoctlAcquire, Acquire
<1>2. CASE IoctlRefuse
  BY <1>2, LabelsOfThreads DEF IoctlRefuse, Completed, Release
<1>3. CASE GetStateStart
  BY <1>3, LabelsOfThreads DEF GetStateStart, Step
<1>4. CASE GetStateRead
  BY <1>4, LabelsOfThreads DEF GetStateRead, Step
<1>5. CASE GetStateReply
  BY <1>5, LabelsOfThreads DEF GetStateReply, Release
<1>6. CASE SetPortDataRole
  BY <1>6, LabelsOfThreads DEF SetPortDataRole, Completed, Release
<1>7. CASE IoctlReportNewPowerRole
  BY <1>7, LabelsOfThreads DEF IoctlReportNewPowerRole, Completed, Release
<1>8. CASE IoctlSetVConnRoleSwitch
  BY <1>8, LabelsOfThreads DEF IoctlSetVConnRoleSwitch, Completed, Release
<1>9. CASE PdEnableStart
  BY <1>9, LabelsOfThreads DEF PdEnableStart, Step
<1>10. CASE PdEnable
  BY <1>10, LabelsOfThreads DEF PdEnable, Load4, Store4, Copy4, Step
<1>11. CASE PdEnableSend
  BY <1>11, LabelsOfThreads DEF PdEnableSend, Release
<1>12. CASE IoctlExecuteHardReset
  BY <1>12, LabelsOfThreads DEF IoctlExecuteHardReset, Completed, Release
<1> QED BY <1>1, <1>2, <1>3, <1>4, <1>5, <1>6, <1>7, <1>8, <1>9, <1>10, <1>11,
        <1>12 DEF IoctlRun, IoctlNext

\* What an orphaned lock freezes.
Frozen == <<shadow5, chip5, r2, reg1.type>>
PortSide == <<port, shadow4, chip4, told>>

LEMMA OnlyTheUnlockedMove ==
  ASSUME LockInv, Orphaned
  PROVE  /\ ~IsrRun /\ ~IoctlRun
         /\ Pmic1Go => Pmic1Start
         /\ Pmic2Run => \/ Report("pmic2") \/ Store("pmic2")
                        \/ Toggle("pmic2") \/ Pmic2Send
<1>1. lock = "writer" /\ \A t \in Threads \ {"writer"} : pc[t] \notin Critical[t]
  BY DEF LockInv, LockDiscipline, Orphaned, Holds, Threads
<1>2. ~IsrRun
  BY <1>1, IsrWorksInside DEF Threads
<1>3. ~IoctlRun
  BY <1>1, IoctlWorksInside DEF Threads
<1>4. Pmic1Go => Pmic1Start
  BY <1>1, LabelsOfThreads
     DEF Pmic1Go, Pmic1Next, Pmic1Acquire, Pmic1Run, Acquire, Release, Threads
<1>5. ~Pmic2Acquire /\ ~Pmic2Detach /\ ~Pmic2Nothing
  BY <1>1, LabelsOfThreads
     DEF Pmic2Acquire, Pmic2Detach, Pmic2Nothing, Acquire, Release, Threads
<1> QED BY <1>2, <1>3, <1>4, <1>5 DEF Pmic2Run, Pmic2Next

LEMMA Pmic2Freezes ==
  ASSUME \/ Report("pmic2") \/ Store("pmic2") \/ Toggle("pmic2") \/ Pmic2Send
  PROVE  UNCHANGED Frozen /\ pc["pmic2"] \notin {"idle", "wait"}
<1>1. CASE Report("pmic2")
  BY <1>1 DEF Report, Step, Frozen, reg5Vars, otherVars, pdVars
<1>2. CASE Store("pmic2")
  BY <1>2 DEF Store, Step, Frozen, reg5Vars, otherVars, pdVars
<1>3. CASE Toggle("pmic2")
  BY <1>3 DEF Toggle, ToggleReg4, Load4, Store4, Copy4, Step, Frozen, reg5Vars,
              otherVars, pdVars
<1>4. CASE Pmic2Send
  BY <1>4 DEF Pmic2Send, Step, Frozen, reg5Vars, otherVars, pdVars
<1> QED BY <1>1, <1>2, <1>3, <1>4

LEMMA WriterFreezes ==
  ASSUME WriterRun
  PROVE  UNCHANGED Frozen /\ UNCHANGED PortSide
<1>1. UNCHANGED portSide /\ UNCHANGED reg1
  BY DEF WriterRun, WriterNext, WriteReset, WriteClear, WriteAcquire, WriteSend,
         WriteFail, WriteTimeout, WriteAwake, WriteDecide, pdVars
<1> QED BY <1>1 DEF portSide, portVars, clientVars, reg4Vars, reg5Vars, Frozen,
                    PortSide

LEMMA ArriveFreezes ==
  ASSUME DataOK, Arrive
  PROVE  UNCHANGED Frozen /\ UNCHANGED PortSide
<1> USE DEF Frozen, PortSide, portVars, clientVars, reg4Vars, reg5Vars
<1>1. CASE IsrArrive
  BY <1>1 DEF IsrArrive, otherVars, pdVars
<1>2. CASE PmicInterrupt1Isr
  BY <1>2 DEF PmicInterrupt1Isr, pdVars
<1>3. CASE Pmic2Arrive
  BY <1>3 DEF Pmic2Arrive, otherVars, pdVars
<1>4. CASE IoctlArrive
  BY <1>4 DEF IoctlArrive, idleVars, pdVars
<1>5. CASE IoctlNotify
  BY <1>5 DEF IoctlNotify, idleVars, pdVars
<1>6. CASE WriteArrive
  <2>1. reg1'.type = reg1.type
    BY <1>6 DEF WriteArrive, DataOK, PdOK
  <2> QED BY <1>6, <2>1 DEF WriteArrive, portSide
<1>7. CASE WriteNothing
  BY <1>7 DEF WriteNothing, portSide
<1>8. CASE ReadArrive
  BY <1>8 DEF ReadArrive, portSide
<1> QED BY <1>1, <1>2, <1>3, <1>4, <1>5, <1>6, <1>7, <1>8 DEF Arrive

LEMMA OrphanFreezes ==
  ASSUME LockInv, DataOK, Next, Orphaned
  PROVE  /\ Orphaned'
         /\ UNCHANGED Frozen
         /\ pc["pmic2"] \in {"idle", "wait"} => UNCHANGED PortSide
<1>1. Orphaned'
  BY StepsAndOrphan
<1>2. CASE Arrive
  BY <1>1, <1>2, ArriveFreezes
<1>3. CASE Pmic1Start
  BY <1>1, <1>3 DEF Pmic1Start, Frozen, PortSide, portVars, clientVars,
                    reg4Vars, reg5Vars, pdVars
<1>4. CASE Pmic2Run
  BY <1>1, <1>4, OnlyTheUnlockedMove, Pmic2Freezes
<1>5. CASE WriterRun
  BY <1>1, <1>5, WriterFreezes
<1> QED BY <1>2, <1>3, <1>4, <1>5, OnlyTheUnlockedMove DEF Next

\* Once the lock has been orphaned it stays so, and neither a register, nor the
\* port, nor what a client was told changes again, but for the unlocked tail of
\* a PmicInterrupt2Isr that was already under way.
THEOREM OrphanIsForever == Spec => OrphanedForGood
<1>1. LockInv /\ DataOK /\ [Next]_vars =>
        [Orphaned =>
           /\ Orphaned'
           /\ UNCHANGED <<r2, reg1.type>>
           /\ pc' # pc => UNCHANGED <<shadow5, chip5>>
           /\ pc["pmic2"] \in {"idle", "wait"} =>
                /\ UNCHANGED <<port, told>>
                /\ pc' # pc => UNCHANGED <<shadow4, chip4>>]_vars
  BY OrphanFreezes DEF Frozen, PortSide
<1>2. TypeOK => DataOK
  BY DEF TypeOK, DataOK
<1> QED BY <1>1, <1>2, LockInvariance, TypeCorrect, PTL DEF Spec, OrphanedForGood
-----------------------------------------------------------------------------
(***************************************************************************)
(* Whose answer. Until its message has left, a write that began in quiet   *)
(* has nothing on the air, and after that only its own; so what has been   *)
(* signalled, or is about to be, answers it, or is the "full" of a message *)
(* that nobody read, which is not a success.                               *)
(***************************************************************************)
AnswerInv ==
  /\ pc["writer"] # "idle" => result.status = "none"
  /\ pc["writer"] = "decide" => pdEvent
  /\ ~taint /\ pc["writer"] \in {"wait", "send"} => air = {}
  /\ ~taint /\ pc["writer"] \in {"await", "decide"} => air \subseteq {"own"}
  /\ ~taint /\ pc["writer"] \in {"wait", "send", "await", "decide"} =>
       (pdEvent \/ AboutToSignal => pd.of = "own" \/ pd.type = Full)
  /\ SuccessIsOwnAnswer

\* What those steps leave alone that are not about a write.
WriteSide == <<pc["writer"], result, air, taint, pd, pdEvent, AboutToSignal>>

LEMMA WriteSideWriters ==
  ASSUME ControlOK, Next
  PROVE  \/ WriterRun \/ WriteArrive \/ WriteNothing \/ IsrPdNext
         \/ UNCHANGED WriteSide
<1> USE DEF ControlOK, Threads, WriteSide, AboutToSignal, pdVars, writeVars
<1>1. ASSUME IsrRun PROVE IsrPdNext \/ UNCHANGED WriteSide
  <2>1. ASSUME IsrPortNext PROVE UNCHANGED WriteSide
    BY <2>1 DEF IsrPortNext, IsrAcquire, IsrStatus, IsrPort, AfterPort,
       IsrVConn, IsrRole, IsrCheck, Report, Store, Toggle, ToggleReg4, Load4,
       Store4, Copy4, IsrSend, IsrLevel, AfterLevel, IsrLevelReport,
       IsrLevelStore, IsrAck, otherVars, Step, Acquire, Release
  <2> QED BY <1>1, <2>1 DEF IsrRun
<1>2. ASSUME Pmic1Go \/ Pmic2Run PROVE UNCHANGED WriteSide
  BY <1>2 DEF Pmic1Go, Pmic1Next, Pmic1Start, Pmic1Acquire, Pmic1Run, Pmic2Run,
     Pmic2Next, Pmic2Acquire, Pmic2Detach, Pmic2Nothing, Report, Store, Toggle,
     ToggleReg4, Load4, Store4, Copy4, Pmic2Send, Step, Acquire, Release,
     otherVars
<1>3. ASSUME IoctlRun PROVE UNCHANGED WriteSide
  BY <1>3 DEF IoctlRun, IoctlNext, IoctlAcquire, IoctlRefuse, GetStateStart,
     GetStateRead, GetStateReply, SetPortDataRole, IoctlReportNewPowerRole,
     IoctlSetVConnRoleSwitch, PdEnableStart, PdEnable, Load4, Store4, Copy4,
     PdEnableSend, IoctlExecuteHardReset, Completed, Step, Acquire, Release,
     idleVars
<1>4. ASSUME Arrive PROVE WriteArrive \/ WriteNothing \/ UNCHANGED WriteSide
  BY <1>4 DEF Arrive, IsrArrive, PmicInterrupt1Isr, Pmic2Arrive, IoctlArrive,
     IoctlNotify, ReadArrive, otherVars, idleVars, syncVars, Step
<1> QED BY <1>1, <1>2, <1>3, <1>4 DEF Next

LEMMA ClearBeginsInQuiet ==
  ASSUME WriteClear
  PROVE  ~pdEvent' /\ (~taint' => air = {} /\ ~AboutToSignal)
<1>1. ~pdEvent'
  BY DEF WriteClear
<1>2. taint' = (air # {} \/ AboutToSignal)
  BY DEF WriteClear
<1>3. air # {} \/ AboutToSignal => taint'
  BY <1>2, Zenon
<1> QED BY <1>1, <1>3

LEMMA WriterKeepsAnswer ==
  ASSUME ControlOK, PdOK, AnswerInv, WriterRun \/ WriteArrive \/ WriteNothing
  PROVE  AnswerInv'
<1>0. /\ pc \in [Threads -> UNION {Labels(t) : t \in Threads}]
      /\ "writer" \in Threads /\ "isr" \in Threads
  BY DEF ControlOK, Threads
<1> USE <1>0 DEF AnswerInv, SuccessIsOwnAnswer, AboutToSignal, writeVars, pdVars
<1>1. CASE WriteReset
  BY <1>1 DEF WriteReset, Step
<1>2. CASE WriteClear
  <2>1. /\ pc["writer"] = "clear" /\ UNCHANGED <<air, pd>>
        /\ pc'["isr"] = pc["isr"]
        /\ \/ pc'["writer"] = "wait" /\ UNCHANGED result
           \/ pc'["writer"] = "idle" /\ result'.status = "buffer"
    BY <1>2 DEF WriteClear, Step
  <2> QED BY <1>2, <2>1, ClearBeginsInQuiet
<1>3. CASE WriteAcquire
  BY <1>3 DEF WriteAcquire, Acquire
<1>4. CASE WriteSend
  BY <1>4 DEF WriteSend, Release
<1>5. CASE WriteFail
  BY <1>5 DEF WriteFail, Step
<1>6. CASE WriteTimeout
  BY <1>6 DEF WriteTimeout, Step
<1>7. CASE WriteAwake
  BY <1>7 DEF WriteAwake, Step
<1>8. CASE WriteDecide
  <2>1. Outcome(pd.type) = "success" => pd.type # Full
    BY DEF Outcome, Full
  <2> QED BY <1>8, <2>1 DEF WriteDecide, Step
<1>9. CASE WriteArrive
  BY <1>9 DEF WriteArrive, Step
<1>10. CASE WriteNothing
  BY <1>10 DEF WriteNothing, syncVars
<1> QED BY <1>1, <1>2, <1>3, <1>4, <1>5, <1>6, <1>7, <1>8, <1>9, <1>10
        DEF WriterRun, WriterNext

LEMMA IsrKeepsAnswer ==
  ASSUME ControlOK, PdOK, AnswerInv, IsrPdNext
  PROVE  AnswerInv'
<1>0. /\ pc \in [Threads -> UNION {Labels(t) : t \in Threads}]
      /\ "writer" \in Threads /\ "isr" \in Threads
  BY DEF ControlOK, Threads
<1> USE <1>0 DEF AnswerInv, SuccessIsOwnAnswer, AboutToSignal, writeVars, pdVars
<1>1. CASE ProcessIncomingPdMessage
  BY <1>1 DEF ProcessIncomingPdMessage, IncomingMessage, Step
<1>2. CASE SetEvent("pdSignal", "size")
  BY <1>2 DEF SetEvent, Step
<1>3. CASE SynchronizeIncomingMessageSize
  <2>1. CASE ReadAnswer
    <3>1. PICK of \in air : reg1'.of = of /\ air' = air \ {of} /\ taint' = taint
      BY <2>1 DEF ReadAnswer
    <3>2. /\ pc'["writer"] = pc["writer"] /\ pd'.of = of
          /\ UNCHANGED <<pdEvent, result>>
      BY <1>3, <3>1 DEF SynchronizeIncomingMessageSize, Step
    <3> QED BY <3>1, <3>2
  <2>2. CASE KeepStale
    BY <1>3, <2>2 DEF SynchronizeIncomingMessageSize, KeepStale, Step
  <2> QED BY <1>3, <2>1, <2>2 DEF SynchronizeIncomingMessageSize
<1>4. CASE NoAnswerYet
  BY <1>4 DEF NoAnswerYet, Step
<1>5. CASE SetEvent("sizeSignal", "ack")
  BY <1>5 DEF SetEvent, Step
<1> QED BY <1>1, <1>2, <1>3, <1>4, <1>5 DEF IsrPdNext

LEMMA NextKeepsAnswer ==
  ASSUME ControlOK, PdOK, AnswerInv, [Next]_vars
  PROVE  AnswerInv'
<1>1. CASE UNCHANGED vars
  BY <1>1 DEF vars, AnswerInv, SuccessIsOwnAnswer, AboutToSignal
<1>2. CASE UNCHANGED WriteSide
  BY <1>2 DEF WriteSide, AnswerInv, SuccessIsOwnAnswer
<1> QED BY <1>1, <1>2, WriterKeepsAnswer, IsrKeepsAnswer, WriteSideWriters

LEMMA AnswerInitially == Init => AnswerInv
  BY DEF Init, AnswerInv, SuccessIsOwnAnswer, Threads

\* A write that is reported sent was answered by the chip for that message, if
\* it began with nothing unanswered and nothing about to be signalled.
THEOREM SuccessIsItsOwn == Spec => []SuccessIsOwnAnswer
<1>1. ControlOK /\ PdOK /\ AnswerInv /\ [Next]_vars => AnswerInv'
  BY NextKeepsAnswer
<1>2. TypeOK => ControlOK /\ PdOK
  BY DEF TypeOK
<1>3. AnswerInv => SuccessIsOwnAnswer
  BY DEF AnswerInv
<1> QED BY <1>1, <1>2, <1>3, AnswerInitially, TypeCorrect, PTL DEF Spec
=============================================================================
