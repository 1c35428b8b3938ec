---------------------------- MODULE ContextProofs ----------------------------
(***************************************************************************)
(* The device context, for every value of the constants: its wait lock     *)
(* excludes, only a failed power-delivery write leaves it behind, and      *)
(* every variable is of its type.                                          *)
(***************************************************************************)
EXTENDS Ice5Lp2k, TLAPS

\* The labels of each thread, spelled out for the provers.
LEMMA LabelsOfThreads ==
  /\ Critical["isr"] = {"status", "port", "vconn", "role", "check", "report",
                        "store", "level", "levelReport", "levelStore", "pd",
                        "pdSignal", "size", "sizeSignal", "ack",
                        "load4", "store4", "copy4", "send4"}
  /\ Critical["pmic1"] = {"run"}
  /\ Critical["pmic2"] = {"probe"}
  /\ Critical["ioctl"] = {"serve", "read", "reply",
                          "load4", "store4", "copy4", "send4"}
  /\ Critical["writer"] = {"send"}
  /\ Outside["isr"] = {"idle", "wait"}
  /\ Outside["pmic1"] = {"idle", "wait"}
  /\ Outside["pmic2"] = {"idle", "wait", "report", "store",
                         "load4", "store4", "copy4", "send4"}
  /\ Outside["ioctl"] = {"idle", "wait"}
  /\ Outside["writer"] = {"idle", "reset", "clear", "wait", "await", "decide"}
  BY DEF Critical, Outside, Threads, Toggle4
-----------------------------------------------------------------------------
\* The three ways a callback moves, and what each does to the lock.
LockInv == ControlOK /\ LockDiscipline

LEMMA StepKeepsLock ==
  ASSUME LockInv, NEW t \in Threads, NEW from, NEW to \in Labels(t),
         Step(t, from, to), from \in Critical[t] <=> to \in Critical[t]
  PROVE  LockInv'
  BY DEF LockInv, ControlOK, LockDiscipline, Step, Holds, Labels

LEMMA AcquireKeepsLock ==
  ASSUME LockInv, NEW t \in Threads, NEW to \in Critical[t], Acquire(t, to)
  PROVE  LockInv'
  BY DEF LockInv, ControlOK, LockDiscipline, Acquire, Holds, Labels, Threads

LEMMA ReleaseKeepsLock ==
  ASSUME LockInv, NEW t \in Threads, NEW from \in Critical[t],
         NEW to \in Labels(t), to \notin Critical[t], Release(t, from, to)
  PROVE  LockInv'
  BY DEF LockInv, ControlOK, LockDiscipline, Release, Holds, Labels, Threads

LEMMA IsrKeepsLock ==
  ASSUME LockInv, IsrRun
  PROVE  LockInv'
<1>1. CASE IsrAcquire
  BY <1>1, AcquireKeepsLock, LabelsOfThreads DEF IsrAcquire, Labels, Threads
<1>2. CASE IsrStatus
  BY <1>2, StepKeepsLock, LabelsOfThreads DEF IsrStatus, Labels, Threads
<1>3. CASE IsrPort
  BY <1>3, StepKeepsLock, LabelsOfThreads DEF IsrPort, AfterPort, Labels,
     Threads
<1>4. CASE IsrVConn
  BY <1>4, StepKeepsLock, LabelsOfThreads DEF IsrVConn, Labels, Threads
<1>5. CASE IsrRole
  BY <1>5, StepKeepsLock, LabelsOfThreads DEF IsrRole, Labels, Threads
<1>6. CASE IsrCheck
  BY <1>6, StepKeepsLock, LabelsOfThreads DEF IsrCheck, Labels, Threads
<1>7. CASE Report("isr")
  BY <1>7, StepKeepsLock, LabelsOfThreads DEF Report, Labels, Threads
<1>8. CASE Store("isr")
  BY <1>8, StepKeepsLock, LabelsOfThreads DEF Store, Labels, Threads
<1>9. CASE Toggle("isr")
  BY <1>9, StepKeepsLock, LabelsOfThreads DEF Toggle, ToggleReg4, Load4,
     Store4, Copy4, Toggle4, Labels, Threads
<1>10. CASE IsrSend
  BY <1>10, StepKeepsLock, LabelsOfThreads DEF IsrSend, Labels, Threads
<1>11. CASE IsrLevel
  BY <1>11, StepKeepsLock, LabelsOfThreads DEF IsrLevel, AfterLevel, Labels,
     Threads
<1>12. CASE IsrLevelReport
  BY <1>12, StepKeepsLock, LabelsOfThreads DEF IsrLevelReport, Labels, Threads
<1>13. CASE IsrLevelStore
  BY <1>13, StepKeepsLock, LabelsOfThreads DEF IsrLevelStore, Labels, Threads
<1>14. CASE IsrAck
  BY <1>14, ReleaseKeepsLock, LabelsOfThreads DEF IsrAck, Labels, Threads
<1>15. CASE ProcessIncomingPdMessage
  BY <1>15, StepKeepsLock, LabelsOfThreads DEF ProcessIncomingPdMessage,
     IncomingMessage, Labels, Threads
<1>16. CASE SetEvent("pdSignal", "size")
  BY <1>16, StepKeepsLock, LabelsOfThreads DEF SetEvent, Labels, Threads
<1>17. CASE SynchronizeIncomingMessageSize
  BY <1>17, StepKeepsLock, LabelsOfThreads DEF SynchronizeIncomingMessageSize,
     Labels, Threads
<1>18. CASE NoAnswerYet
  BY <1>18, StepKeepsLock, LabelsOfThreads DEF NoAnswerYet, Labels, Threads
<1>19. CASE SetEvent("sizeSignal", "ack")
  BY <1>19, StepKeepsLock, LabelsOfThreads DEF SetEvent, Labels, Threads
<1> QED BY <1>1, <1>2, <1>3, <1>4, <1>5, <1>6, <1>7, <1>8, <1>9, <1>10, <1>11,
   <1>12, <1>13, <1>14, <1>15, <1>16, <1>17, <1>18, <1>19 DEF IsrRun,
   IsrPortNext, IsrPdNext

LEMMA Pmic1KeepsLock ==
  ASSUME LockInv, Pmic1Go
  PROVE  LockInv'
<1>1. CASE Pmic1Start
  BY <1>1, StepKeepsLock, LabelsOfThreads DEF Pmic1Start, Labels, Threads
<1>2. CASE Pmic1Acquire
  BY <1>2, AcquireKeepsLock, LabelsOfThreads DEF Pmic1Acquire, Labels, Threads
<1>3. CASE Pmic1Run
  BY <1>3, ReleaseKeepsLock, LabelsOfThreads DEF Pmic1Run, Labels, Threads
<1> QED BY <1>1, <1>2, <1>3 DEF Pmic1Go, Pmic1Next

LEMMA Pmic2KeepsLock ==
  ASSUME LockInv, Pmic2Run
  PROVE  LockInv'
<1>1. CASE Pmic2Acquire
  BY <1>1, AcquireKeepsLock, LabelsOfThreads DEF Pmic2Acquire, Labels, Threads
<1>2. CASE Pmic2Detach
  BY <1>2, ReleaseKeepsLock, LabelsOfThreads DEF Pmic2Detach, Labels, Threads
<1>3. CASE Pmic2Nothing
  BY <1>3, ReleaseKeepsLock, LabelsOfThreads DEF Pmic2Nothing, Labels, Threads
<1>4. CASE Report("pmic2")
  BY <1>4, StepKeepsLock, LabelsOfThreads DEF Report, Labels, Threads
<1>5. CASE Store("pmic2")
  BY <1>5, StepKeepsLock, LabelsOfThreads DEF Store, Labels, Threads
<1>6. CASE Toggle("pmic2")
  BY <1>6, StepKeepsLock, LabelsOfThreads DEF Toggle, ToggleReg4, Load4,
     Store4, Copy4, Toggle4, Labels, Threads
<1>7. CASE Pmic2Send
  BY <1>7, StepKeepsLock, LabelsOfThreads DEF Pmic2Send, Labels, Threads
<1> QED BY <1>1, <1>2, <1>3, <1>4, <1>5, <1>6, <1>7 DEF Pmic2Run, Pmic2Next

LEMMA IoctlKeepsLock ==
  ASSUME LockInv, IoctlRun
  PROVE  LockInv'
<1>1. CASE IoctlAcquire
  BY <1>1, AcquireKeepsLock, LabelsOfThreads DEF IoctlAcquire, Labels, Threads
<1>2. CASE IoctlRefuse
  BY <1>2, ReleaseKeepsLock, LabelsOfThreads DEF IoctlRefuse, Completed,
     Labels, Threads
<1>3. CASE GetStateStart
  BY <1>3, StepKeepsLock, LabelsOfThreads DEF GetStateStart, Labels, Threads
<1>4. CASE GetStateRead
  BY <1>4, StepKeepsLock, LabelsOfThreads DEF GetStateRead, Labels, Threads
<1>5. CASE GetStateReply
  BY <1>5, ReleaseKeepsLock, LabelsOfThreads DEF GetStateReply, Labels,
     Threads
<1>6. CASE SetPortDataRole
  BY <1>6, ReleaseKeepsLock, LabelsOfThreads DEF SetPortDataRole, Completed,
     Labels, Threads
<1>7. CASE IoctlReportNewPowerRole
  BY <1>7, ReleaseKeepsLock, LabelsOfThreads DEF IoctlReportNewPowerRole,
     Completed, Labels, Threads
<1>8. CASE IoctlSetVConnRoleSwitch
  BY <1>8, ReleaseKeepsLock, LabelsOfThreads DEF IoctlSetVConnRoleSwitch,
     Completed, Labels, Threads
<1>9. CASE PdEnableStart
  BY <1>9, StepKeepsLock, LabelsOfThreads DEF PdEnableStart, Labels, Threads
<1>10. CASE PdEnable
  BY <1>10, StepKeepsLock, LabelsOfThreads DEF PdEnable, ToggleReg4, Load4,
     Store4, Copy4, Toggle4, Labels, Threads
<1>11. CASE PdEnableSend
  BY <1>11, ReleaseKeepsLock, LabelsOfThreads DEF PdEnableSend, Labels,
     Threads
<1>12. CASE IoctlExecuteHardReset
  BY <1>12, ReleaseKeepsLock, LabelsOfThreads DEF IoctlExecuteHardReset,
     Completed, Labels, Threads
<1> QED BY <1>1, <1>2, <1>3, <1>4, <1>5, <1>6, <1>7, <1>8, <1>9, <1>10, <1>11,
   <1>12 DEF IoctlRun, IoctlNext

LEMMA WriterKeepsLock ==
  ASSUME LockInv, WriterRun
  PROVE  LockInv'
<1>1. CASE WriteReset
  BY <1>1, StepKeepsLock, LabelsOfThreads DEF WriteReset, Labels, Threads
<1>2. CASE WriteClear
  BY <1>2, StepKeepsLock, LabelsOfThreads DEF WriteClear, Labels, Threads
<1>3. CASE WriteAcquire
  BY <1>3, AcquireKeepsLock, LabelsOfThreads DEF WriteAcquire, Labels, Threads
<1>4. CASE WriteSend
  BY <1>4, ReleaseKeepsLock, LabelsOfThreads DEF WriteSend, Labels, Threads
<1>5. CASE WriteFail
  BY <1>5, LabelsOfThreads DEF WriteFail, Step, LockInv, ControlOK,
     LockDiscipline, Holds, Labels, Threads
<1>6. CASE WriteTimeout
  BY <1>6, StepKeepsLock, LabelsOfThreads DEF WriteTimeout, Labels, Threads
<1>7. CASE WriteAwake
  BY <1>7, StepKeepsLock, LabelsOfThreads DEF WriteAwake, Labels, Threads
<1>8. CASE WriteDecide
  BY <1>8, StepKeepsLock, LabelsOfThreads DEF WriteDecide, Labels, Threads
<1> QED BY <1>1, <1>2, <1>3, <1>4, <1>5, <1>6, <1>7, <1>8 DEF WriterRun,
   WriterNext

LEMMA ArriveKeepsLock ==
  ASSUME LockInv, Arrive
  PROVE  LockInv'
<1>1. CASE IsrArrive
  BY <1>1, StepKeepsLock, LabelsOfThreads DEF IsrArrive, Labels, Threads
<1>2. CASE PmicInterrupt1Isr
  BY <1>2 DEF PmicInterrupt1Isr, syncVars, LockInv, ControlOK, LockDiscipline,
     Holds
<1>3. CASE Pmic2Arrive
  BY <1>3, StepKeepsLock, LabelsOfThreads DEF Pmic2Arrive, Labels, Threads
<1>4. CASE IoctlArrive
  BY <1>4, StepKeepsLock, LabelsOfThreads DEF IoctlArrive, Labels, Threads
<1>5. CASE IoctlNotify
  BY <1>5 DEF IoctlNotify, syncVars, LockInv, ControlOK, LockDiscipline, Holds
<1>6. CASE WriteArrive
  BY <1>6, StepKeepsLock, LabelsOfThreads DEF WriteArrive, Labels, Threads
<1>7. CASE WriteNothing
  BY <1>7 DEF WriteNothing, syncVars, LockInv, ControlOK, LockDiscipline,
     Holds
<1>8. CASE ReadArrive
  BY <1>8 DEF ReadArrive, syncVars, LockInv, ControlOK, LockDiscipline, Holds
<1> QED BY <1>1, <1>2, <1>3, <1>4, <1>5, <1>6, <1>7, <1>8 DEF Arrive

LEMMA LockInitially == Init => LockInv
  BY LabelsOfThreads DEF Init, LockInv, ControlOK, LockDiscipline, Holds,
     Labels, Threads

LEMMA NextKeepsLock ==
  ASSUME LockInv, Next
  PROVE  LockInv'
  BY IsrKeepsLock, Pmic1KeepsLock, Pmic2KeepsLock, IoctlKeepsLock,
     WriterKeepsLock, ArriveKeepsLock DEF Next

\* Every thread is at one of its labels, and owns the lock where it should: that
\* is inductive as it stands.
THEOREM LockInvariance == Spec => []LockInv
<1>1. LockInv /\ [Next]_vars => LockInv'
  <2>1. CASE UNCHANGED vars
    BY <2>1 DEF vars, LockInv, ControlOK, LockDiscipline, Holds
  <2> QED BY <2>1, NextKeepsLock
<1> QED BY <1>1, LockInitially, PTL DEF Spec

\* Between acquire and release a thread owns DeviceWaitLock, and nobody else
\* gives it back: mutual exclusion of every locked section, for all inputs,
\* SPI failures included.
THEOREM LockIsExclusive == Spec => []LockDiscipline
  BY LockInvariance, PTL DEF LockInv
-----------------------------------------------------------------------------
(***************************************************************************)
(* The lock that a failed write leaves behind.                             *)
(***************************************************************************)
\* Whoever it is but the writer, whatever it does: the lock is no more and no
\* less an orphan afterwards.
LEMMA OthersLeaveOrphan ==
  ASSUME LockInv, NEW t \in Threads \ {"writer"}, NEW from, NEW to,
         \/ Step(t, from, to)
         \/ Acquire(t, to)
         \/ from \in Critical[t] /\ Release(t, from, to)
  PROVE  Orphaned' <=> Orphaned
  BY DEF LockInv, ControlOK, LockDiscipline, Orphaned, Step, Acquire, Release,
         Holds, Threads

LEMMA IsrLeavesOrphan ==
  ASSUME LockInv, IsrRun
  PROVE  Orphaned' <=> Orphaned
<1>1. CASE IsrAcquire
  BY <1>1, OthersLeaveOrphan DEF IsrAcquire, Threads
<1>2. CASE IsrStatus
  BY <1>2, OthersLeaveOrphan DEF IsrStatus, Threads
<1>3. CASE IsrPort
  BY <1>3, OthersLeaveOrphan DEF IsrPort, Threads
<1>4. CASE IsrVConn
  BY <1>4, OthersLeaveOrphan DEF IsrVConn, Threads
<1>5. CASE IsrRole
  BY <1>5, OthersLeaveOrphan DEF IsrRole, Threads
<1>6. CASE IsrCheck
  BY <1>6, OthersLeaveOrphan DEF IsrCheck, Threads
<1>7. CASE Report("isr")
  BY <1>7, OthersLeaveOrphan DEF Report, Threads
<1>8. CASE Store("isr")
  BY <1>8, OthersLeaveOrphan DEF Store, Threads
<1>9. CASE Toggle("isr")
  BY <1>9, OthersLeaveOrphan DEF Toggle, ToggleReg4, Load4, Store4, Copy4,
     Threads
<1>10. CASE IsrSend
  BY <1>10, OthersLeaveOrphan DEF IsrSend, Threads
<1>11. CASE IsrLevel
  BY <1>11, OthersLeaveOrphan DEF IsrLevel, Threads
<1>12. CASE IsrLevelReport
  BY <1>12, OthersLeaveOrphan DEF IsrLevelReport, Threads
<1>13. CASE IsrLevelStore
  BY <1>13, OthersLeaveOrphan DEF IsrLevelStore, Threads
<1>14. CASE IsrAck
  BY <1>14, OthersLeaveOrphan, LabelsOfThreads DEF IsrAck, Threads
<1>15. CASE ProcessIncomingPdMessage
  BY <1>15, OthersLeaveOrphan DEF ProcessIncomingPdMessage, IncomingMessage,
     Threads
<1>16. CASE SetEvent("pdSignal", "size")
  BY <1>16, OthersLeaveOrphan DEF SetEvent, Threads
<1>17. CASE SynchronizeIncomingMessageSize
  BY <1>17, OthersLeaveOrphan DEF SynchronizeIncomingMessageSize, Threads
<1>18. CASE NoAnswerYet
  BY <1>18, OthersLeaveOrphan DEF NoAnswerYet, Threads
<1>19. CASE SetEvent("sizeSignal", "ack")
  BY <1>19, OthersLeaveOrphan DEF SetEvent, Threads
<1> QED BY <1>1, <1>2, <1>3, <1>4, <1>5, <1>6, <1>7, <1>8, <1>9, <1>10, <1>11,
   <1>12, <1>13, <1>14, <1>15, <1>16, <1>17, <1>18, <1>19 DEF IsrRun,
   IsrPortNext, IsrPdNext

LEMMA Pmic1LeavesOrphan ==
  ASSUME LockInv, Pmic1Go
  PROVE  Orphaned' <=> Orphaned
<1>1. CASE Pmic1Start
  BY <1>1, OthersLeaveOrphan DEF Pmic1Start, Threads
<1>2. CASE Pmic1Acquire
  BY <1>2, OthersLeaveOrphan DEF Pmic1Acquire, Threads
<1>3. CASE Pmic1Run
  BY <1>3, OthersLeaveOrphan, LabelsOfThreads DEF Pmic1Run, Threads
<1> QED BY <1>1, <1>2, <1>3 DEF Pmic1Go, Pmic1Next

LEMMA Pmic2LeavesOrphan ==
  ASSUME LockInv, Pmic2Run
  PROVE  Orphaned' <=> Orphaned
<1>1. CASE Pmic2Acquire
  BY <1>1, OthersLeaveOrphan DEF Pmic2Acquire, Threads
<1>2. CASE Pmic2Detach
  BY <1>2, OthersLeaveOrphan, LabelsOfThreads DEF Pmic2Detach, Threads
<1>3. CASE Pmic2Nothing
  BY <1>3, OthersLeaveOrphan, LabelsOfThreads DEF Pmic2Nothing, Threads
<1>4. CASE Report("pmic2")
  BY <1>4, OthersLeaveOrphan DEF Report, Threads
<1>5. CASE Store("pmic2")
  BY <1>5, OthersLeaveOrphan DEF Store, Threads
<1>6. CASE Toggle("pmic2")
  BY <1>6, OthersLeaveOrphan DEF Toggle, ToggleReg4, Load4, Store4, Copy4,
     Threads
<1>7. CASE Pmic2Send
  BY <1>7, OthersLeaveOrphan DEF Pmic2Send, Threads
<1> QED BY <1>1, <1>2, <1>3, <1>4, <1>5, <1>6, <1>7 DEF Pmic2Run, Pmic2Next

LEMMA IoctlLeavesOrphan ==
  ASSUME LockInv, IoctlRun
  PROVE  Orphaned' <=> Orphaned
<1>1. CASE IoctlAcquire
  BY <1>1, OthersLeaveOrphan DEF IoctlAcquire, Threads
<1>2. CASE IoctlRefuse
  BY <1>2, OthersLeaveOrphan, LabelsOfThreads DEF IoctlRefuse, Completed,
     Threads
<1>3. CASE GetStateStart
  BY <1>3, OthersLeaveOrphan DEF GetStateStart, Threads
<1>4. CASE GetStateRead
  BY <1>4, OthersLeaveOrphan DEF GetStateRead, Threads
<1>5. CASE GetStateReply
  BY <1>5, OthersLeaveOrphan, LabelsOfThreads DEF GetStateReply, Threads
<1>6. CASE SetPortDataRole
  BY <1>6, OthersLeaveOrphan, LabelsOfThreads DEF SetPortDataRole, Completed,
     Threads
<1>7. CASE IoctlReportNewPowerRole
  BY <1>7, OthersLeaveOrphan, LabelsOfThreads DEF IoctlReportNewPowerRole,
     Completed, Threads
<1>8. CASE IoctlSetVConnRoleSwitch
  BY <1>8, OthersLeaveOrphan, LabelsOfThreads DEF IoctlSetVConnRoleSwitch,
     Completed, Threads
<1>9. CASE PdEnableStart
  BY <1>9, OthersLeaveOrphan DEF PdEnableStart, Threads
<1>10. CASE PdEnable
  BY <1>10, OthersLeaveOrphan DEF PdEnable, Load4, Store4, Copy4, Threads
<1>11. CASE PdEnableSend
  BY <1>11, OthersLeaveOrphan, LabelsOfThreads DEF PdEnableSend, Threads
<1>12. CASE IoctlExecuteHardReset
  BY <1>12, OthersLeaveOrphan, LabelsOfThreads DEF IoctlExecuteHardReset,
     Completed, Threads
<1> QED BY <1>1, <1>2, <1>3, <1>4, <1>5, <1>6, <1>7, <1>8, <1>9, <1>10, <1>11,
   <1>12 DEF IoctlRun, IoctlNext

\* Of the writer's own steps only the failed write orphans the lock, and none
\* frees it again.
LEMMA WriterAndOrphan ==
  ASSUME LockInv, WriterRun
  PROVE  /\ Orphaned => Orphaned'
         /\ Orphaned' /\ ~Orphaned => WriteFail
<1>1. CASE WriteReset
  BY <1>1, LabelsOfThreads DEF WriteReset, Step, Acquire, Release, LockInv,
     ControlOK, LockDiscipline, Orphaned, Holds, Threads
<1>2. CASE WriteClear
  BY <1>2, LabelsOfThreads DEF WriteClear, Step, Acquire, Release, LockInv,
     ControlOK, LockDiscipline, Orphaned, Holds, Threads
<1>3. CASE WriteAcquire
  BY <1>3, LabelsOfThreads DEF WriteAcquire, Step, Acquire, Release, LockInv,
     ControlOK, LockDiscipline, Orphaned, Holds, Threads
<1>4. CASE WriteSend
  BY <1>4, LabelsOfThreads DEF WriteSend, Step, Acquire, Release, LockInv,
     ControlOK, LockDiscipline, Orphaned, Holds, Threads
<1>5. CASE WriteFail
  BY <1>5, LabelsOfThreads DEF WriteFail, Step, Acquire, Release, LockInv,
     ControlOK, LockDiscipline, Orphaned, Holds, Threads
<1>6. CASE WriteTimeout
  BY <1>6, LabelsOfThreads DEF WriteTimeout, Step, Acquire, Release, LockInv,
     ControlOK, LockDiscipline, Orphaned, Holds, Threads
<1>7. CASE WriteAwake
  BY <1>7, LabelsOfThreads DEF WriteAwake, Step, Acquire, Release, LockInv,
     ControlOK, LockDiscipline, Orphaned, Holds, Threads
<1>8. CASE WriteDecide
  BY <1>8, LabelsOfThreads DEF WriteDecide, Step, Acquire, Release, LockInv,
     ControlOK, LockDiscipline, Orphaned, Holds, Threads
<1> QED BY <1>1, <1>2, <1>3, <1>4, <1>5, <1>6, <1>7, <1>8 DEF WriterRun,
   WriterNext

LEMMA ArriveLeavesOrphan ==
  ASSUME LockInv, Arrive
  PROVE  Orphaned' <=> Orphaned
<1>1. CASE IsrArrive
  BY <1>1, OthersLeaveOrphan DEF IsrArrive, Threads
<1>2. CASE PmicInterrupt1Isr
  BY <1>2 DEF PmicInterrupt1Isr, syncVars, Orphaned, Holds
<1>3. CASE Pmic2Arrive
  BY <1>3, OthersLeaveOrphan DEF Pmic2Arrive, Threads
<1>4. CASE IoctlArrive
  BY <1>4, OthersLeaveOrphan DEF IoctlArrive, Threads
<1>5. CASE IoctlNotify
  BY <1>5 DEF IoctlNotify, syncVars, Orphaned, Holds
<1>6. CASE WriteArrive
  BY <1>6, LabelsOfThreads DEF WriteArrive, Step, LockInv, ControlOK,
     Orphaned, Holds, Threads
<1>7. CASE WriteNothing
  BY <1>7 DEF WriteNothing, syncVars, Orphaned, Holds
<1>8. CASE ReadArrive
  BY <1>8 DEF ReadArrive, syncVars, Orphaned, Holds
<1> QED BY <1>1, <1>2, <1>3, <1>4, <1>5, <1>6, <1>7, <1>8 DEF Arrive

LEMMA StepsAndOrphan ==
  ASSUME LockInv, [Next]_vars
  PROVE  /\ Orphaned => Orphaned'
         /\ Orphaned' /\ ~Orphaned => WriteFail
<1>1. CASE UNCHANGED vars
  BY <1>1 DEF vars, Orphaned, Holds
<1> QED BY <1>1, IsrLeavesOrphan, Pmic1LeavesOrphan, Pmic2LeavesOrphan,
           IoctlLeavesOrphan, WriterAndOrphan, ArriveLeavesOrphan DEF Next

\* Only a write whose SPI transfer failed ever leaves the lock behind: every
\* other path of every callback gives it back.
THEOREM OnlyFailedWritesOrphan == Spec => OrphanedByFailedWrite
<1>1. LockInv /\ [Next]_vars =>
        [Orphaned' /\ ~Orphaned =>
           /\ pc["writer"] = "send" /\ pc'["writer"] = "idle"
           /\ result'.status = "spi"]_vars
  BY StepsAndOrphan
  DEF WriteFail, Step, LockInv, ControlOK, Threads
<1> QED BY <1>1, LockInvariance, PTL DEF Spec, OrphanedByFailedWrite
-----------------------------------------------------------------------------
(***************************************************************************)
(* The types.                                                              *)
(***************************************************************************)
\* TypeOK without the threads, which LockInv has, and without overlap.
DataOK == PortOK /\ ClientOK /\ Reg4OK /\ Reg5OK /\ InputOK /\ PdOK

LEMMA PortForType ==
  ASSUME NEW role, NEW r7 \in Registers7
  PROVE  PortFor(role, r7) \in PortStates
  BY ConstantsAssumption
  DEF PortFor, PortStates, PortTypes, PartnerTypes, CurrentLevels,
      CableCurrent, RolePartner, RolePortType, DetachedPort, Register7,
      Orientation

LEMMA InferredType ==
  ASSUME NEW answer \in PortStates
  PROVE  Inferred(answer) \in PortStates
  BY DEF Inferred, PortStates

LEMMA WithType ==
  ASSUME NEW B, NEW bits \in SUBSET B, NEW b \in B, NEW on
  PROVE  With(bits, b, on) \in SUBSET B
  BY DEF With

LEMMA SetBit5Type ==
  ASSUME Reg5OK, NEW b \in Bits5, NEW on, SetBit5(b, on)
  PROVE  Reg5OK'
  BY WithType DEF SetBit5, WriteReg5, Sent, Reg5OK, reg5Vars

LEMMA ToggleReg4Type ==
  ASSUME Reg4OK, NEW t \in Reporters, NEW b \in Bits4, NEW on,
         Load4(t, b, on) \/ Store4(t) \/ Copy4(t)
  PROVE  Reg4OK'
<1>1. CASE Load4(t, b, on)
  BY <1>1, WithType DEF Load4, Reg4OK
<1>2. CASE Store4(t)
  BY <1>2 DEF Store4, Reg4OK
<1>3. CASE Copy4(t)
  BY <1>3 DEF Copy4, Reg4OK
<1> QED BY <1>1, <1>2, <1>3

LEMMA PowerRoleType ==
  ASSUME Reg5OK, PowerRoleChange
  PROVE  Reg5OK'
<1> DEFINE v  == Truncated(req.value)
           b1 == With(chip5, "power", v = 1)
           b2 == With(b1, "pmic", v = 0)
<1>1. b1 \in SUBSET Bits5
  BY WithType DEF Reg5OK, Bits5
<1>2. b2 \in SUBSET Bits5
  <2> HIDE DEF b1
  <2>1. "pmic" \in Bits5
    BY DEF Bits5
  <2> QED BY <1>1, <2>1, WithType
<1>3. \/ shadow5' = chip5 /\ UNCHANGED chip5
      \/ shadow5' = b2 /\ chip5' \in {b1, b2}
      \/ shadow5' = b1 /\ chip5' \in {b1, chip5}
  BY DEF PowerRoleChange, Sent
<1> QED BY <1>1, <1>2, <1>3 DEF Reg5OK

LEMMA DetachedType == DetachedPort \in PortStates
  BY DEF DetachedPort, PortStates, PortTypes, PartnerTypes, CurrentLevels

LEMMA NoRequestType == NoRequest \in RequestType
  BY DEF NoRequest, RequestType

\* What Register 1 and PDMessageType can be made of.
LEMMA PdBitsType ==
  ASSUME NEW r \in PdBits
  PROVE  /\ r \in [type : 0 .. 7, body : BOOLEAN, of : Origins]
         /\ [type |-> Full, of |-> "none"]
              \in [type : 0 .. 7 \cup {NoAnswer}, of : Origins]
  BY ConstantsAssumption DEF PdBits, Full, Origins

\* A step keeps the type of whatever part of the state it leaves alone.
LEMMA PartsUntouched ==
  ASSUME DataOK
  PROVE  /\ UNCHANGED portVars => PortOK'
         /\ UNCHANGED clientVars => ClientOK'
         /\ UNCHANGED reg4Vars => Reg4OK'
         /\ UNCHANGED reg5Vars => Reg5OK'
         /\ UNCHANGED <<r2, req, workItem>> => InputOK'
         /\ UNCHANGED pdVars => PdOK'
<1>1. UNCHANGED portVars => PortOK'
  BY DEF DataOK, PortOK, portVars
<1>2. UNCHANGED clientVars => ClientOK'
  BY DEF DataOK, ClientOK, clientVars
<1>3. UNCHANGED reg4Vars => Reg4OK'
  BY DEF DataOK, Reg4OK, reg4Vars
<1>4. UNCHANGED reg5Vars => Reg5OK'
  BY DEF DataOK, Reg5OK, reg5Vars
<1>5. UNCHANGED <<r2, req, workItem>> => InputOK'
  BY DEF DataOK, InputOK
<1>6. UNCHANGED pdVars => PdOK'
  BY DEF DataOK, PdOK, pdVars
<1> QED BY <1>1, <1>2, <1>3, <1>4, <1>5, <1>6

-----------------------------------------------------------------------------
\* One lemma per thread, and one for what arrives from outside.
LEMMA IsrKeepsData ==
  ASSUME DataOK, IsrRun
  PROVE  DataOK'
<1>1. CASE IsrAcquire
  BY <1>1, PartsUntouched DEF IsrAcquire, otherVars, DataOK
<1>2. CASE IsrStatus
  <2>1. InputOK'
    BY <1>2 DEF IsrStatus, Statuses, otherVars, DataOK, InputOK
  <2> QED BY <1>2, <2>1, PartsUntouched DEF IsrStatus, otherVars, DataOK
<1>3. CASE IsrPort
  <2>1. PortOK'
    BY <1>3, PortForType DEF IsrPort, DataOK, PortOK, Reporters
  <2> QED BY <1>3, <2>1, PartsUntouched DEF IsrPort, otherVars, DataOK
<1>4. CASE IsrVConn
  <2>1. Reg5OK'
    BY <1>4, SetBit5Type DEF IsrVConn, SetVConn, DataOK, Bits5
  <2> QED BY <1>4, <2>1, PartsUntouched DEF IsrVConn, otherVars, DataOK
<1>5. CASE IsrRole
  <2>1. Reg5OK'
    BY <1>5, SetBit5Type DEF IsrRole, SetPowerRole, DataOK, Bits5
  <2> QED BY <1>5, <2>1, PartsUntouched DEF IsrRole, otherVars, DataOK
<1>6. CASE IsrCheck
  BY <1>6, PartsUntouched DEF IsrCheck, otherVars, DataOK
<1>7. CASE Report("isr")
  <2>1. PortOK'
    BY <1>7 DEF Report, StartStore, DataOK, PortOK, Reporters
  <2>2. ClientOK'
    BY <1>7 DEF Report, ReportPort, Heard, Unheard, DataOK, PortOK, ClientOK, Reporters
  <2> QED BY <1>7, <2>1, <2>2, PartsUntouched DEF Report, otherVars, DataOK
<1>8. CASE Store("isr")
  <2>1. PortOK'
    BY <1>8
       DEF Store, StoreField, DataOK, PortOK, PortStates, PortFields,
           Reporters
  <2> QED BY <1>8, <2>1, PartsUntouched DEF Store, otherVars, DataOK
<1>9. CASE Toggle("isr")
  <2>1. Reg4OK'
    BY <1>9, ToggleReg4Type DEF Toggle, ToggleReg4, DataOK, Bits4, Reporters
  <2> QED BY <1>9, <2>1, PartsUntouched DEF Toggle, otherVars, DataOK
<1>10. CASE IsrSend
  <2>1. Reg4OK'
    BY <1>10 DEF IsrSend, Send4, Sent, DataOK, Reg4OK, Reporters
  <2> QED BY <1>10, <2>1, PartsUntouched DEF IsrSend, otherVars, DataOK
<1>11. CASE IsrLevel
  <2>1. PortOK'
    BY <1>11
       DEF IsrLevel, ChangedCurrent, DataOK, PortOK, PortStates,
           CurrentLevels, Reporters
  <2> QED BY <1>11, <2>1, PartsUntouched DEF IsrLevel, otherVars, DataOK
<1>12. CASE IsrLevelReport
  <2>1. ClientOK'
    BY <1>12
       DEF IsrLevelReport, ReportCurrent, Heard, Unheard, DataOK, PortOK, ClientOK,
           PortStates, Reporters
  <2> QED BY <1>12, <2>1, PartsUntouched DEF IsrLevelReport, otherVars, DataOK
<1>13. CASE IsrLevelStore
  <2>1. PortOK'
    BY <1>13 DEF IsrLevelStore, DataOK, PortOK, PortStates, Reporters
  <2> QED BY <1>13, <2>1, PartsUntouched DEF IsrLevelStore, otherVars, DataOK
<1>14. CASE IsrAck
  <2>1. PortOK'
    BY <1>14, DetachedType DEF IsrAck, DataOK, PortOK, Reporters
  <2>2. InputOK'
    BY <1>14 DEF IsrAck, otherVars, NoStatus, Register2, DataOK, InputOK
  <2> QED BY <1>14, <2>1, <2>2, PartsUntouched DEF IsrAck, otherVars, DataOK
<1>15. CASE ProcessIncomingPdMessage
  <2>1. PdOK'
    BY <1>15, PdBitsType
       DEF ProcessIncomingPdMessage, IncomingMessage, writeVars, TakesReader,
           Full, DataOK, PdOK
  <2> QED BY <1>15, <2>1, PartsUntouched
          DEF ProcessIncomingPdMessage, portSide, DataOK
<1>16. CASE SetEvent("pdSignal", "size")
  <2>1. PdOK'
    BY <1>16 DEF SetEvent, writeVars, DataOK, PdOK
  <2> QED BY <1>16, <2>1, PartsUntouched DEF SetEvent, portSide, DataOK
<1>17. CASE SynchronizeIncomingMessageSize
  <2>1. reg1' \in [type : 0 .. 7, body : BOOLEAN, of : Origins]
    <3>1. CASE ReadAnswer
      BY <3>1, ConstantsAssumption DEF ReadAnswer, DataOK, PdOK, Origins
    <3>2. CASE KeepStale
      BY <3>2 DEF KeepStale, DataOK, PdOK
    <3> QED BY <1>17, <3>1, <3>2 DEF SynchronizeIncomingMessageSize
  <2>2. air' \in SUBSET {"own", "old"} /\ taint' \in BOOLEAN
    BY <1>17 DEF SynchronizeIncomingMessageSize, ReadAnswer, KeepStale, DataOK,
             PdOK
  <2>3. pd' \in [type : 0 .. 7 \cup {NoAnswer}, of : Origins]
    BY <1>17, <2>1 DEF SynchronizeIncomingMessageSize
  <2>4. PdOK'
    BY <1>17, <2>1, <2>2, <2>3 DEF SynchronizeIncomingMessageSize, DataOK, PdOK
  <2> QED BY <1>17, <2>4, PartsUntouched
          DEF SynchronizeIncomingMessageSize, portSide, DataOK
<1>18. CASE NoAnswerYet
  BY <1>18, PartsUntouched DEF NoAnswerYet, portSide, DataOK
<1>19. CASE SetEvent("sizeSignal", "ack")
  <2>1. PdOK'
    BY <1>19 DEF SetEvent, writeVars, DataOK, PdOK
  <2> QED BY <1>19, <2>1, PartsUntouched DEF SetEvent, portSide, DataOK
<1> QED BY <1>1, <1>2, <1>3, <1>4, <1>5, <1>6, <1>7, <1>8, <1>9, <1>10, <1>11,
        <1>12, <1>13, <1>14, <1>15, <1>16, <1>17, <1>18, <1>19 DEF IsrRun,
        IsrPortNext, IsrPdNext

LEMMA Pmic1KeepsData ==
  ASSUME DataOK, Pmic1Go
  PROVE  DataOK'
<1>1. CASE Pmic1Start
  <2>1. InputOK'
    BY <1>1, Zenon DEF Pmic1Start, DataOK, InputOK
  <2> QED BY <1>1, <2>1, PartsUntouched DEF Pmic1Start, DataOK
<1>2. CASE Pmic1Acquire
  BY <1>2, PartsUntouched DEF Pmic1Acquire, otherVars, DataOK
<1>3. CASE Pmic1Run
  <2>1. Reg5OK'
    BY <1>3, WithType DEF Pmic1Run, WriteReg5, Sent, DataOK, Reg5OK, Bits5
  <2> QED BY <1>3, <2>1, PartsUntouched DEF Pmic1Run, otherVars, DataOK
<1> QED BY <1>1, <1>2, <1>3 DEF Pmic1Go, Pmic1Next

LEMMA Pmic2KeepsData ==
  ASSUME DataOK, Pmic2Run
  PROVE  DataOK'
<1>1. CASE Pmic2Acquire
  BY <1>1, PartsUntouched DEF Pmic2Acquire, otherVars, DataOK
<1>2. CASE Pmic2Detach
  <2>1. Reg5OK'
    BY <1>2, WithType DEF Pmic2Detach, WriteReg5, Sent, DataOK, Reg5OK, Bits5
  <2> QED BY <1>2, <2>1, PartsUntouched DEF Pmic2Detach, otherVars, DataOK
<1>3. CASE Pmic2Nothing
  BY <1>3, PartsUntouched DEF Pmic2Nothing, otherVars, DataOK
<1>4. CASE Report("pmic2")
  <2>1. PortOK'
    BY <1>4 DEF Report, StartStore, DataOK, PortOK, Reporters
  <2>2. ClientOK'
    BY <1>4 DEF Report, ReportPort, Heard, Unheard, DataOK, PortOK, ClientOK, Reporters
  <2> QED BY <1>4, <2>1, <2>2, PartsUntouched DEF Report, otherVars, DataOK
<1>5. CASE Store("pmic2")
  <2>1. PortOK'
    BY <1>5
       DEF Store, StoreField, DataOK, PortOK, PortStates, PortFields,
           Reporters
  <2> QED BY <1>5, <2>1, PartsUntouched DEF Store, otherVars, DataOK
<1>6. CASE Toggle("pmic2")
  <2>1. Reg4OK'
    BY <1>6, ToggleReg4Type DEF Toggle, ToggleReg4, DataOK, Bits4, Reporters
  <2> QED BY <1>6, <2>1, PartsUntouched DEF Toggle, otherVars, DataOK
<1>7. CASE Pmic2Send
  <2>1. Reg4OK'
    BY <1>7 DEF Pmic2Send, Send4, Sent, DataOK, Reg4OK, Reporters
  <2> QED BY <1>7, <2>1, PartsUntouched DEF Pmic2Send, otherVars, DataOK
<1> QED BY <1>1, <1>2, <1>3, <1>4, <1>5, <1>6, <1>7 DEF Pmic2Run, Pmic2Next

LEMMA IoctlKeepsData ==
  ASSUME DataOK, IoctlRun
  PROVE  DataOK'
<1>1. CASE IoctlAcquire
  BY <1>1, PartsUntouched DEF IoctlAcquire, idleVars, DataOK
<1>2. CASE IoctlRefuse
  <2>1. InputOK'
    BY <1>2, NoRequestType
       DEF IoctlRefuse, Completed, idleVars, DataOK, InputOK
  <2> QED BY <1>2, <2>1, PartsUntouched DEF IoctlRefuse, idleVars, DataOK
<1>3. CASE GetStateStart
  <2>1. PortOK'
    BY <1>3 DEF GetStateStart, AnswerFields, DataOK, PortOK, Reporters
  <2> QED BY <1>3, <2>1, PartsUntouched DEF GetStateStart, idleVars, DataOK
<1>4. CASE GetStateRead
  <2>1. PortOK'
    BY <1>4
       DEF GetStateRead, DataOK, PortOK, PortStates, PortFields, Reporters
  <2> QED BY <1>4, <2>1, PartsUntouched DEF GetStateRead, idleVars, DataOK
<1>5. CASE GetStateReply
  <2>1. PortOK'
    BY <1>5, DetachedType DEF GetStateReply, DataOK, PortOK, Reporters
  <2>2. ClientOK'
    BY <1>5, InferredType
       DEF GetStateReply, DataOK, PortOK, ClientOK, Reporters
  <2>3. InputOK'
    BY <1>5, NoRequestType DEF GetStateReply, idleVars, DataOK, InputOK
  <2> QED BY <1>5, <2>1, <2>2, <2>3, PartsUntouched
          DEF GetStateReply, idleVars, DataOK
<1>6. CASE SetPortDataRole
  <2>1. Reg5OK'
    BY <1>6, WithType
       DEF SetPortDataRole, WriteReg5, Sent, DataOK, Reg5OK, Bits5
  <2>2. InputOK'
    BY <1>6, NoRequestType
       DEF SetPortDataRole, Completed, idleVars, DataOK, InputOK
  <2> QED BY <1>6, <2>1, <2>2, PartsUntouched
          DEF SetPortDataRole, idleVars, DataOK
<1>7. CASE IoctlReportNewPowerRole
  <2>1. Reg5OK'
    BY <1>7, PowerRoleType
       DEF IoctlReportNewPowerRole, DataOK, Reg5OK, reg5Vars
  <2>2. InputOK'
    BY <1>7, NoRequestType
       DEF IoctlReportNewPowerRole, Completed, idleVars, DataOK, InputOK
  <2> QED BY <1>7, <2>1, <2>2, PartsUntouched
          DEF IoctlReportNewPowerRole, idleVars, DataOK
<1>8. CASE IoctlSetVConnRoleSwitch
  <2>1. With(chip5, "vconn", req.value # 0) \in SUBSET Bits5
    BY WithType DEF DataOK, Reg5OK, Bits5
  <2>2. Reg5OK'
    BY <1>8, <2>1 DEF IoctlSetVConnRoleSwitch, WriteReg5, Sent, DataOK, Reg5OK
  <2>3. InputOK'
    BY <1>8, NoRequestType
       DEF IoctlSetVConnRoleSwitch, Completed, idleVars, DataOK, InputOK
  <2> QED BY <1>8, <2>2, <2>3, PartsUntouched
          DEF IoctlSetVConnRoleSwitch, idleVars, DataOK
<1>9. CASE PdEnableStart
  BY <1>9, PartsUntouched DEF PdEnableStart, idleVars, DataOK
<1>10. CASE PdEnable
  <2>1. Reg4OK'
    BY <1>10, ToggleReg4Type DEF PdEnable, DataOK, Bits4, Reporters
  <2> QED BY <1>10, <2>1, PartsUntouched DEF PdEnable, idleVars, DataOK
<1>11. CASE PdEnableSend
  <2>1. Reg4OK'
    BY <1>11 DEF PdEnableSend, Send4, Sent, DataOK, Reg4OK, Reporters
  <2>2. InputOK'
    BY <1>11, NoRequestType DEF PdEnableSend, idleVars, DataOK, InputOK
  <2> QED BY <1>11, <2>1, <2>2, PartsUntouched
          DEF PdEnableSend, idleVars, DataOK
<1>12. CASE IoctlExecuteHardReset
  <2>1. InputOK'
    BY <1>12, NoRequestType
       DEF IoctlExecuteHardReset, Completed, idleVars, DataOK, InputOK
  <2> QED BY <1>12, <2>1, PartsUntouched
          DEF IoctlExecuteHardReset, idleVars, DataOK
<1> QED BY <1>1, <1>2, <1>3, <1>4, <1>5, <1>6, <1>7, <1>8, <1>9, <1>10, <1>11,
        <1>12 DEF IoctlRun, IoctlNext

LEMMA WriterKeepsData ==
  ASSUME DataOK, WriterRun
  PROVE  DataOK'
<1>1. CASE WriteReset
  <2>1. PdOK'
    BY <1>1 DEF WriteReset, writeVars, NoAnswer, Origins, DataOK, PdOK
  <2> QED BY <1>1, <2>1, PartsUntouched DEF WriteReset, portSide, DataOK
<1>2. CASE WriteClear
  <2>1. taint' \in BOOLEAN /\ pdEvent' \in BOOLEAN
    BY <1>2, Zenon DEF WriteClear, AboutToSignal
  <2>2. PdOK'
    BY <1>2, <2>1 DEF WriteClear, Origins, DataOK, PdOK
  <2> QED BY <1>2, <2>2, PartsUntouched DEF WriteClear, portSide, DataOK
<1>3. CASE WriteAcquire
  BY <1>3, PartsUntouched DEF WriteAcquire, portSide, DataOK
<1>4. CASE WriteSend
  <2>1. PdOK'
    BY <1>4 DEF WriteSend, DataOK, PdOK
  <2> QED BY <1>4, <2>1, PartsUntouched DEF WriteSend, portSide, DataOK
<1>5. CASE WriteFail
  <2>1. PdOK'
    BY <1>5 DEF WriteFail, Origins, DataOK, PdOK
  <2> QED BY <1>5, <2>1, PartsUntouched DEF WriteFail, portSide, DataOK
<1>6. CASE WriteTimeout
  <2>1. PdOK'
    BY <1>6 DEF WriteTimeout, Origins, DataOK, PdOK
  <2> QED BY <1>6, <2>1, PartsUntouched DEF WriteTimeout, portSide, DataOK
<1>7. CASE WriteAwake
  BY <1>7, PartsUntouched DEF WriteAwake, portSide, DataOK
<1>8. CASE WriteDecide
  <2>1. PdOK'
    BY <1>8 DEF WriteDecide, Outcome, DataOK, PdOK
  <2> QED BY <1>8, <2>1, PartsUntouched DEF WriteDecide, portSide, DataOK
<1> QED BY <1>1, <1>2, <1>3, <1>4, <1>5, <1>6, <1>7, <1>8 DEF WriterRun,
        WriterNext

LEMMA ArriveKeepsData ==
  ASSUME DataOK, Arrive
  PROVE  DataOK'
<1>1. CASE IsrArrive
  BY <1>1, PartsUntouched DEF IsrArrive, otherVars, DataOK
<1>2. CASE PmicInterrupt1Isr
  <2>1. InputOK'
    BY <1>2, Zenon DEF PmicInterrupt1Isr, DataOK, InputOK
  <2> QED BY <1>2, <2>1, PartsUntouched DEF PmicInterrupt1Isr, DataOK
<1>3. CASE Pmic2Arrive
  BY <1>3, PartsUntouched DEF Pmic2Arrive, otherVars, DataOK
<1>4. CASE IoctlArrive
  <2>1. InputOK'
    BY <1>4, ConstantsAssumption DEF IoctlArrive, idleVars, DataOK, InputOK
  <2> QED BY <1>4, <2>1, PartsUntouched DEF IoctlArrive, idleVars, DataOK
<1>5. CASE IoctlNotify
  <2>1. ClientOK'
    BY <1>5 DEF IoctlNotify, DataOK, ClientOK
  <2> QED BY <1>5, <2>1, PartsUntouched DEF IoctlNotify, idleVars, DataOK
<1>6. CASE WriteArrive
  <2>1. PdOK'
    BY <1>6 DEF WriteArrive, Aged, Origins, DataOK, PdOK
  <2> QED BY <1>6, <2>1, PartsUntouched DEF WriteArrive, portSide, DataOK
<1>7. CASE WriteNothing
  <2>1. PdOK'
    BY <1>7 DEF WriteNothing, Origins, DataOK, PdOK
  <2> QED BY <1>7, <2>1, PartsUntouched DEF WriteNothing, portSide, DataOK
<1>8. CASE ReadArrive
  <2>1. PdOK'
    BY <1>8 DEF ReadArrive, writeVars, DataOK, PdOK
  <2> QED BY <1>8, <2>1, PartsUntouched DEF ReadArrive, portSide, DataOK
<1> QED BY <1>1, <1>2, <1>3, <1>4, <1>5, <1>6, <1>7, <1>8 DEF Arrive

LEMMA DataInitially == Init => DataOK
<1> SUFFICES ASSUME Init
             PROVE  DataOK
  OBVIOUS
<1>1. DetachedPort \in PortStates
  BY DetachedType
<1>2. PortOK
  BY <1>1 DEF Init, PortOK, Reporters
<1>3. ClientOK
  BY <1>1 DEF Init, ClientOK
<1>4. Reg4OK /\ Reg5OK
  BY DEF Init, Reg4OK, Reg5OK, Bits4, Bits5, Reporters
<1>5. InputOK
  <2>1. r2 \in Register2
    BY DEF Init, Register2, NoStatus
  <2>2. req \in RequestType
    BY NoRequestType DEF Init
  <2>3. workItem \in BOOLEAN
    BY Zenon DEF Init
  <2> QED BY <2>1, <2>2, <2>3 DEF InputOK
<1>6. PdOK
  <2>1. /\ pdEvent \in BOOLEAN /\ taint \in BOOLEAN
        /\ air \in SUBSET {"own", "old"}
    BY Zenon DEF Init
  <2>2. /\ readers \in Nat
        /\ reg1 \in [type : 0 .. 7, body : BOOLEAN, of : Origins]
        /\ pd \in [type : 0 .. 7 \cup {NoAnswer}, of : Origins]
    BY DEF Init, Origins
  <2>3. result.status = "none" /\ result.of = "none"
    BY DEF Init
  <2> QED BY <2>1, <2>2, <2>3 DEF Init, PdOK, Origins
<1> QED BY <1>2, <1>3, <1>4, <1>5, <1>6 DEF DataOK

LEMMA NextKeepsTypes ==
  ASSUME TypeOK, LockInv, Next
  PROVE  TypeOK'
<1>1. DataOK'
  <2>1. DataOK
    BY DEF TypeOK, DataOK
  <2> QED BY <2>1, IsrKeepsData, Pmic1KeepsData, Pmic2KeepsData, IoctlKeepsData,
             WriterKeepsData, ArriveKeepsData DEF Next
<1>2. (overlap \in BOOLEAN)'
  BY Zenon DEF Next, IsrRun, Pmic1Go, Pmic2Run, IoctlRun, WriterRun, Observe
<1> QED BY <1>1, <1>2, NextKeepsLock DEF LockInv, DataOK, TypeOK

\* Every variable keeps to its type, and every thread to its labels, in every
\* reachable state: no count below zero, no register bit, port state, message
\* type or answer that the driver's types do not have.
THEOREM TypeCorrect == Spec => []TypeOK
<1>1. Init => TypeOK
  <2>1. Init => overlap \in BOOLEAN
    BY DEF Init
  <2> QED BY <2>1, LockInitially, DataInitially DEF LockInv, DataOK, TypeOK
<1>2. LockInv /\ TypeOK /\ [Next]_vars => TypeOK'
  <2>1. CASE UNCHANGED vars
    BY <2>1 DEF vars, TypeOK, ControlOK, PortOK, ClientOK, Reg4OK, Reg5OK,
                InputOK, PdOK
  <2> QED BY <2>1, NextKeepsTypes
<1> QED BY <1>1, <1>2, LockInvariance, PTL DEF Spec
=============================================================================
