----------------------------- MODULE PortProofs -----------------------------
(***************************************************************************)
(* What the clients know of the port, for every value of the constants.    *)
(***************************************************************************)
EXTENDS ContextProofs

\* The labels at which a thread has part of the port in hand.
InHand == {"store", "levelStore", "read", "reply"}

Known == TypeOK /\ LockDiscipline /\ KnowledgeInv

LEMMA SeenOverlap ==
  ASSUME Clash => overlap, Observe
  PROVE  (Clash => overlap)'
  BY DEF Observe

\* A step that leaves the port, its copies and the clients alone, and neither
\* begins nor ends a store or a read.
LEMMA FrameKeepsKnowledge ==
  ASSUME Known, Observe, UNCHANGED <<port, rpt, todo, told, missed>>,
         NEW t \in Threads, NEW to, pc' = [pc EXCEPT ![t] = to],
         pc[t] \notin InHand, to \notin InHand
  PROVE  KnowledgeInv'
<1>1. \A s \in Threads : pc'[s] \in InHand \/ pc[s] \in InHand => pc'[s] = pc[s]
  BY DEF Known, TypeOK, ControlOK
<1>2. ~overlap' => ~overlap
  BY DEF Observe
<1> QED BY <1>1, <1>2, SeenOverlap
       DEF Known, KnowledgeInv, StoringInv, LevelInv, ReadingInv, Storing,
           Settled, Tells, InHand, Threads

\* The interrupt handler and the default queue are never both at work.
LEMMA Apart ==
  ASSUME Known
  PROVE  pc["isr"] \in {"idle", "wait"} \/ pc["ioctl"] \in {"idle", "wait"}
  BY LabelsOfThreads
     DEF Known, TypeOK, ControlOK, LockDiscipline, Holds, Labels, Threads

LEMMA IsrReportKeepsKnowledge ==
  ASSUME Known, Observe, Report("isr")
  PROVE  KnowledgeInv'
<1>1. /\ pc["isr"] = "report" /\ pc' = [pc EXCEPT !["isr"] = "store"]
      /\ UNCHANGED <<port, rpt>>
      /\ todo' = [todo EXCEPT !["isr"] = PortFields]
      /\ ~missed' => told' = rpt["isr"]
  BY DEF Report, Step, ReportPort, Heard, Unheard, StartStore
<1>2. ~overlap' => ~overlap /\ pc["pmic2"] # "store"
  BY <1>1 DEF Observe, Clash, Unlocked, Touching, Known, TypeOK, ControlOK,
              Threads
<1>3. pc["ioctl"] \in {"idle", "wait"}
  BY <1>1, Apart
<1> QED BY <1>1, <1>2, <1>3, SeenOverlap
       DEF Known, TypeOK, ControlOK, PortOK, Reporters, Threads, KnowledgeInv,
           StoringInv, LevelInv, ReadingInv, Storing, Settled, Tells

LEMMA Pmic2ReportKeepsKnowledge ==
  ASSUME Known, Observe, Report("pmic2")
  PROVE  KnowledgeInv'
<1>1. /\ pc["pmic2"] = "report" /\ pc' = [pc EXCEPT !["pmic2"] = "store"]
      /\ UNCHANGED <<port, rpt>>
      /\ todo' = [todo EXCEPT !["pmic2"] = PortFields]
      /\ ~missed' => told' = rpt["pmic2"]
  BY DEF Report, Step, ReportPort, Heard, Unheard, StartStore
<1>2. ~overlap' => /\ ~overlap
                   /\ pc["isr"] \notin {"store", "levelStore"}
                   /\ pc["ioctl"] \notin {"read", "reply"}
  BY <1>1 DEF Observe, Clash, Unlocked, Touching, Known, TypeOK, ControlOK,
              Threads
<1> QED BY <1>1, <1>2, SeenOverlap
       DEF Known, TypeOK, ControlOK, PortOK, Reporters, Threads, KnowledgeInv,
           StoringInv, LevelInv, ReadingInv, Storing, Settled, Tells

LEMMA StoreKeepsKnowledge ==
  ASSUME Known, Observe, NEW t \in {"isr", "pmic2"}, Store(t)
  PROVE  KnowledgeInv'
<1>1. PICK f \in PortFields :
        /\ f \in todo[t]
        /\ pc[t] = "store"
        /\ pc' = [pc EXCEPT ![t] = IF todo[t] = {f} THEN "load4" ELSE "store"]
        /\ port' = [port EXCEPT ![f] = rpt[t][f]]
        /\ todo' = [todo EXCEPT ![t] = @ \ {f}]
        /\ UNCHANGED <<rpt, told, missed>>
  BY DEF Store, StoreField, Step, clientVars
<1>2. SUFFICES ASSUME ~overlap'
               PROVE  KnowledgeInv'
  BY <1>1, SeenOverlap DEF KnowledgeInv, Known
<1>3. /\ ~overlap
      /\ pc["isr"] # "levelStore"
      /\ \A s \in {"isr", "pmic2"} \ {t} : pc[s] # "store"
      /\ pc["ioctl"] \notin {"read", "reply"}
  <2>1. ~Clash
    BY <1>2 DEF Observe, Known, KnowledgeInv
  <2>2. CASE t = "isr"
    BY <1>1, <1>2, <2>1, <2>2, Apart DEF Observe, Clash, Unlocked, Touching
  <2>3. CASE t = "pmic2"
    BY <1>1, <1>2, <2>1, <2>3 DEF Observe, Clash, Unlocked, Touching
  <2> QED BY <2>2, <2>3
<1>4. \A g \in PortFields \ todo'[t] : port'[g] = rpt[t][g]
  BY <1>1, <1>3 DEF Known, TypeOK, PortOK, PortStates, PortFields, Reporters,
                    KnowledgeInv, StoringInv, Storing
<1>5. CASE todo[t] = {f}
  <2>1. port' = rpt[t]
    <3>1. \A g \in PortFields : port'[g] = rpt[t][g]
      BY <1>1, <1>4, <1>5 DEF Known, TypeOK, PortOK, Reporters
    <3>2. port \in PortStates /\ rpt[t] \in PortStates
      BY DEF Known, TypeOK, PortOK, Reporters
    <3>3. port' \in PortStates
      BY <1>1, <3>2 DEF PortStates, PortFields
    <3> QED BY <3>1, <3>2, <3>3 DEF PortStates, PortFields
  <2>2. ~missed => told = rpt[t]
    BY <1>1, <1>3 DEF Known, KnowledgeInv, StoringInv, Storing
  <2>3. Tells(rpt[t])
    BY DEF Known, TypeOK, PortOK, KnowledgeInv, Tells, DetachedPort
  <2> QED BY <1>1, <1>2, <1>3, <1>5, <2>1, <2>2, <2>3, SeenOverlap
         DEF Known, TypeOK, ControlOK, Threads, KnowledgeInv, StoringInv,
             LevelInv, ReadingInv, Storing, Settled, Tells
<1>6. CASE todo[t] # {f}
  <2>1. UNCHANGED pc
    BY <1>1, <1>6 DEF Known, TypeOK, ControlOK
  <2>2. Clash' => overlap'
    BY SeenOverlap DEF Known, KnowledgeInv
  <2>3. StoringInv(t)'
    BY <1>1, <1>3, <1>4 DEF Known, KnowledgeInv, StoringInv, Storing
  <2>4. \A s \in {"isr", "pmic2"} \ {t} : StoringInv(s)'
    BY <1>3, <2>1 DEF StoringInv, Storing
  <2>5. (LevelInv /\ ReadingInv)'
    BY <1>3, <2>1 DEF LevelInv, ReadingInv
  <2> QED BY <1>1, <2>1, <2>2, <2>3, <2>4, <2>5
          DEF Known, KnowledgeInv, Tells, Settled, Storing
<1> QED BY <1>5, <1>6

\* The steps that only prepare, or throw away, what the interrupt reports.
LEMMA IsrPrepares ==
  ASSUME Known, Observe, UNCHANGED <<port, todo, told, missed>>,
         NEW to, pc' = [pc EXCEPT !["isr"] = to],
         pc["isr"] \in {"port", "level", "ack"}, to \notin InHand,
         rpt' = [rpt EXCEPT !["isr"] = rpt'["isr"]], Tells(rpt'["isr"])
  PROVE  KnowledgeInv'
<1>1. /\ pc'["isr"] = to
      /\ \A s \in Threads \ {"isr"} : pc'[s] = pc[s]
  BY DEF Known, TypeOK, ControlOK, Threads
<1>2. \A s \in Reporters \ {"isr"} : rpt'[s] = rpt[s]
  BY DEF Known, TypeOK, PortOK, Reporters
<1>3. ~overlap' => ~overlap
  BY DEF Observe
<1> QED BY <1>1, <1>2, <1>3, SeenOverlap
       DEF Known, KnowledgeInv, StoringInv, LevelInv, ReadingInv, Storing,
           Settled, Tells, InHand, Threads, Reporters

LEMMA IsrPortKeepsKnowledge ==
  ASSUME Known, Observe, IsrPort
  PROVE  KnowledgeInv'
<1>1. CASE UNCHANGED rpt
  BY <1>1, FrameKeepsKnowledge
  DEF IsrPort, Step, AfterPort, InHand, Threads, clientVars
<1>2. CASE \E r7 \in Registers7 :
             rpt' = [rpt EXCEPT !["isr"] = PortFor(r2.state, r7)]
  <2>1. PICK r7 \in Registers7 :
          rpt' = [rpt EXCEPT !["isr"] = PortFor(r2.state, r7)]
    BY <1>2
  <2>2. Tells(PortFor(r2.state, r7))
    BY DEF Tells, PortFor, RolePortType, DetachedPort
  <2>3. rpt'["isr"] = PortFor(r2.state, r7)
    BY <2>1 DEF Known, TypeOK, PortOK, Reporters
  <2>4. /\ pc["isr"] = "port"
        /\ \E to : to \notin InHand /\ pc' = [pc EXCEPT !["isr"] = to]
        /\ UNCHANGED <<port, todo, told, missed>>
    BY DEF IsrPort, Step, AfterPort, InHand, clientVars
  <2> QED BY <2>1, <2>2, <2>3, <2>4, IsrPrepares
<1> QED BY <1>1, <1>2 DEF IsrPort

LEMMA IsrLevelKeepsKnowledge ==
  ASSUME Known, Observe, IsrLevel
  PROVE  KnowledgeInv'
<1>1. Tells(rpt'["isr"])
  BY DEF IsrLevel, Known, TypeOK, PortOK, PortStates, Reporters, KnowledgeInv,
         Tells
<1>2. rpt' = [rpt EXCEPT !["isr"] = rpt'["isr"]]
  BY DEF IsrLevel, Known, TypeOK, PortOK, Reporters
<1> QED BY <1>1, <1>2, IsrPrepares
       DEF IsrLevel, Step, AfterLevel, InHand, clientVars

LEMMA IsrAckKeepsKnowledge ==
  ASSUME Known, Observe, IsrAck
  PROVE  KnowledgeInv'
<1>1. Tells(rpt'["isr"]) /\ rpt' = [rpt EXCEPT !["isr"] = rpt'["isr"]]
  BY DEF IsrAck, Known, TypeOK, PortOK, Reporters, Tells, DetachedPort
<1> QED BY <1>1, IsrPrepares DEF IsrAck, Release, InHand, clientVars

LEMMA IsrLevelReportKeepsKnowledge ==
  ASSUME Known, Observe, IsrLevelReport
  PROVE  KnowledgeInv'
<1>1. /\ pc["isr"] = "levelReport"
      /\ pc' = [pc EXCEPT !["isr"] = "levelStore"]
      /\ UNCHANGED <<port, rpt, todo>>
      /\ ~missed' => /\ ~missed
                     /\ told' = [told EXCEPT !.current = rpt["isr"].current]
  BY DEF IsrLevelReport, Step, ReportCurrent, Heard, Unheard, portVars
<1>2. ~overlap' => ~overlap /\ pc["pmic2"] # "store"
  BY <1>1 DEF Observe, Clash, Unlocked, Touching, Known, TypeOK, ControlOK,
              Threads
<1>3. pc["ioctl"] \in {"idle", "wait"}
  BY <1>1, Apart
<1> QED BY <1>1, <1>2, <1>3, SeenOverlap
       DEF Known, TypeOK, ControlOK, Threads, KnowledgeInv,
           StoringInv, LevelInv, ReadingInv, Storing, Settled, Tells

LEMMA IsrLevelStoreKeepsKnowledge ==
  ASSUME Known, Observe, IsrLevelStore
  PROVE  KnowledgeInv'
<1>1. /\ pc["isr"] = "levelStore"
      /\ pc' = [pc EXCEPT !["isr"] = "pd"]
      /\ UNCHANGED <<rpt, todo, told, missed>>
      /\ port' = [port EXCEPT !.current = rpt["isr"].current]
  BY DEF IsrLevelStore, Step, clientVars
<1>2. ~overlap' => ~overlap /\ pc["pmic2"] # "store"
  BY <1>1 DEF Observe, Known, KnowledgeInv, Clash, Unlocked, Touching
<1>3. pc["ioctl"] \in {"idle", "wait"}
  BY <1>1, Apart
<1> QED BY <1>1, <1>2, <1>3, SeenOverlap
       DEF Known, TypeOK, ControlOK, PortOK, PortStates, Threads, KnowledgeInv,
           StoringInv, LevelInv, ReadingInv, Storing, Settled, Tells

LEMMA GetStateStartKeepsKnowledge ==
  ASSUME Known, Observe, GetStateStart
  PROVE  KnowledgeInv'
<1>1. /\ pc["ioctl"] = "serve"
      /\ pc' = [pc EXCEPT !["ioctl"] = "read"]
      /\ UNCHANGED <<port, rpt, told, missed>>
      /\ todo' = [todo EXCEPT !["ioctl"] = AnswerFields]
  BY DEF GetStateStart, Step, clientVars
<1>2. ~overlap' => ~overlap
  BY DEF Observe
<1> QED BY <1>1, <1>2, SeenOverlap
       DEF Known, TypeOK, ControlOK, PortOK, Threads, Reporters, KnowledgeInv,
           StoringInv, LevelInv, ReadingInv, Storing, Settled, Tells

LEMMA GetStateReadKeepsKnowledge ==
  ASSUME Known, Observe, GetStateRead
  PROVE  KnowledgeInv'
<1>1. PICK f \in todo["ioctl"] :
        /\ pc["ioctl"] = "read"
        /\ pc' = [pc EXCEPT !["ioctl"] =
                    IF todo["ioctl"] = {f} THEN "reply" ELSE "read"]
        /\ rpt' = [rpt EXCEPT !["ioctl"] = [@ EXCEPT ![f] = port[f]]]
        /\ todo' = [todo EXCEPT !["ioctl"] = @ \ {f}]
        /\ UNCHANGED <<port, told, missed>>
  BY DEF GetStateRead, Step, clientVars
<1>2. ~overlap' => ~overlap
  BY DEF Observe
<1>3. f \in PortFields
  BY DEF Known, TypeOK, PortOK, Reporters
<1>4. ~overlap => \A g \in AnswerFields \ todo'["ioctl"] :
                    rpt'["ioctl"][g] = port[g]
  BY <1>1, <1>3 DEF Known, TypeOK, PortOK, PortStates, PortFields, Reporters,
                    AnswerFields, KnowledgeInv, ReadingInv
<1>5. \A s \in {"isr", "pmic2"} : rpt'[s] = rpt[s] /\ todo'[s] = todo[s]
  BY <1>1 DEF Known, TypeOK, PortOK, Reporters
<1>6. pc'["ioctl"] = "reply" => todo'["ioctl"] = {}
  BY <1>1 DEF Known, TypeOK, PortOK, ControlOK, Reporters, Threads
<1> QED BY <1>1, <1>2, <1>4, <1>5, <1>6, SeenOverlap
       DEF Known, TypeOK, ControlOK, Threads, KnowledgeInv,
           StoringInv, LevelInv, ReadingInv, Storing, Settled, Tells

\* What is answered is the port, so a client that asks knows it again.
LEMMA AnswerIsPort ==
  ASSUME Known, ~overlap, pc["ioctl"] = "reply"
  PROVE  Inferred(rpt["ioctl"]) = port
<1>1. ~Clash
  BY DEF Known, KnowledgeInv
<1>2. ~Storing("isr") /\ ~Storing("pmic2")
  BY <1>1, Apart DEF Clash, Unlocked, Touching, Storing
<1>3. Tells(port)
  BY <1>2 DEF Known, KnowledgeInv
<1>4. \A f \in AnswerFields : rpt["ioctl"][f] = port[f]
  BY DEF Known, KnowledgeInv, ReadingInv
<1>5. rpt["ioctl"] \in PortStates /\ port \in PortStates
  BY DEF Known, TypeOK, PortOK, Reporters
<1> QED BY <1>3, <1>4, <1>5
       DEF Inferred, Tells, PortStates, AnswerFields, PortFields

LEMMA GetStateReplyKeepsKnowledge ==
  ASSUME Known, Observe, GetStateReply
  PROVE  KnowledgeInv'
<1>1. /\ pc["ioctl"] = "reply"
      /\ pc' = [pc EXCEPT !["ioctl"] = "idle"]
      /\ UNCHANGED <<port, todo>>
      /\ told' = Inferred(rpt["ioctl"])
      /\ rpt' = [rpt EXCEPT !["ioctl"] = DetachedPort]
  BY DEF GetStateReply, Release
<1>2. ~overlap' => /\ ~overlap
                   /\ told' = port
                   /\ pc["isr"] \in {"idle", "wait"} /\ pc["pmic2"] # "store"
  BY <1>1, Apart, AnswerIsPort
  DEF Observe, Known, KnowledgeInv, Clash, Unlocked, Touching
<1> QED BY <1>1, <1>2, SeenOverlap
       DEF Known, TypeOK, ControlOK, PortOK, Reporters, Threads, KnowledgeInv,
           StoringInv, LevelInv, ReadingInv, Storing, Settled, Tells

\* A step that moves nobody.
LEMMA StillKeepsKnowledge ==
  ASSUME Known, Observe, UNCHANGED <<pc, port, rpt, todo, told, missed>>
  PROVE  KnowledgeInv'
  BY SeenOverlap
  DEF Observe, Known, KnowledgeInv, StoringInv, LevelInv, ReadingInv, Storing,
      Settled, Tells, Clash

LEMMA IsrKeepsKnowledge ==
  ASSUME Known, IsrRun
  PROVE  KnowledgeInv'
<1>0. Observe
  BY DEF IsrRun
<1>1. CASE IsrAcquire
  BY <1>0, <1>1, FrameKeepsKnowledge DEF IsrAcquire, Acquire, InHand, Threads,
     portVars, clientVars
<1>2. CASE IsrStatus
  BY <1>0, <1>2, FrameKeepsKnowledge DEF IsrStatus, Step, InHand, Threads,
     portVars, clientVars
<1>3. CASE IsrPort
  BY <1>0, <1>3, IsrPortKeepsKnowledge
<1>4. CASE IsrVConn
  BY <1>0, <1>4, FrameKeepsKnowledge DEF IsrVConn, Step, InHand, Threads,
     portVars, clientVars
<1>5. CASE IsrRole
  BY <1>0, <1>5, FrameKeepsKnowledge DEF IsrRole, Step, InHand, Threads,
     portVars, clientVars
<1>6. CASE IsrCheck
  BY <1>0, <1>6, FrameKeepsKnowledge DEF IsrCheck, Step, InHand, Threads,
     portVars, clientVars
<1>7. CASE Report("isr")
  BY <1>0, <1>7, IsrReportKeepsKnowledge
<1>8. CASE Store("isr")
  BY <1>0, <1>8, StoreKeepsKnowledge
<1>9. CASE Toggle("isr")
  BY <1>0, <1>9, FrameKeepsKnowledge DEF Toggle, ToggleReg4, Load4, Store4,
     Copy4, Step, InHand, Threads, portVars, clientVars
<1>10. CASE IsrSend
  BY <1>0, <1>10, FrameKeepsKnowledge DEF IsrSend, Step, InHand, Threads,
     portVars, clientVars
<1>11. CASE IsrLevel
  BY <1>0, <1>11, IsrLevelKeepsKnowledge
<1>12. CASE IsrLevelReport
  BY <1>0, <1>12, IsrLevelReportKeepsKnowledge
<1>13. CASE IsrLevelStore
  BY <1>0, <1>13, IsrLevelStoreKeepsKnowledge
<1>14. CASE IsrAck
  BY <1>0, <1>14, IsrAckKeepsKnowledge
<1>15. CASE ProcessIncomingPdMessage
  BY <1>0, <1>15, FrameKeepsKnowledge DEF ProcessIncomingPdMessage,
     IncomingMessage, Step, InHand, Threads, portSide, portVars, clientVars
<1>16. CASE SetEvent("pdSignal", "size")
  BY <1>0, <1>16, FrameKeepsKnowledge DEF SetEvent, Step, InHand, Threads,
     portSide, portVars, clientVars
<1>17. CASE SynchronizeIncomingMessageSize
  BY <1>0, <1>17, FrameKeepsKnowledge DEF SynchronizeIncomingMessageSize,
     Step, InHand, Threads, portSide, portVars, clientVars
<1>18. CASE NoAnswerYet
  BY <1>0, <1>18, FrameKeepsKnowledge DEF NoAnswerYet, Step, InHand, Threads,
     portSide, portVars, clientVars
<1>19. CASE SetEvent("sizeSignal", "ack")
  BY <1>0, <1>19, FrameKeepsKnowledge DEF SetEvent, Step, InHand, Threads,
     portSide, portVars, clientVars
<1> QED BY <1>1, <1>2, <1>3, <1>4, <1>5, <1>6, <1>7, <1>8, <1>9, <1>10, <1>11,
   <1>12, <1>13, <1>14, <1>15, <1>16, <1>17, <1>18, <1>19 DEF IsrRun,
   IsrPortNext, IsrPdNext

LEMMA Pmic1KeepsKnowledge ==
  ASSUME Known, Pmic1Go
  PROVE  KnowledgeInv'
<1>0. Observe
  BY DEF Pmic1Go
<1>1. CASE Pmic1Start
  BY <1>0, <1>1, FrameKeepsKnowledge DEF Pmic1Start, Step, InHand, Threads,
     portVars, clientVars
<1>2. CASE Pmic1Acquire
  BY <1>0, <1>2, FrameKeepsKnowledge DEF Pmic1Acquire, Acquire, InHand,
     Threads, portVars, clientVars
<1>3. CASE Pmic1Run
  BY <1>0, <1>3, FrameKeepsKnowledge DEF Pmic1Run, Release, InHand, Threads,
     portVars, clientVars
<1> QED BY <1>1, <1>2, <1>3 DEF Pmic1Go, Pmic1Next

LEMMA Pmic2KeepsKnowledge ==
  ASSUME Known, Pmic2Run
  PROVE  KnowledgeInv'
<1>0. Observe
  BY DEF Pmic2Run
<1>1. CASE Pmic2Acquire
  BY <1>0, <1>1, FrameKeepsKnowledge DEF Pmic2Acquire, Acquire, InHand,
     Threads, portVars, clientVars
<1>2. CASE Pmic2Detach
  BY <1>0, <1>2, FrameKeepsKnowledge DEF Pmic2Detach, Release, InHand,
     Threads, portVars, clientVars
<1>3. CASE Pmic2Nothing
  BY <1>0, <1>3, FrameKeepsKnowledge DEF Pmic2Nothing, Release, InHand,
     Threads, portVars, clientVars
<1>4. CASE Report("pmic2")
  BY <1>0, <1>4, Pmic2ReportKeepsKnowledge
<1>5. CASE Store("pmic2")
  BY <1>0, <1>5, StoreKeepsKnowledge
<1>6. CASE Toggle("pmic2")
  BY <1>0, <1>6, FrameKeepsKnowledge DEF Toggle, ToggleReg4, Load4, Store4,
     Copy4, Step, InHand, Threads, portVars, clientVars
<1>7. CASE Pmic2Send
  BY <1>0, <1>7, FrameKeepsKnowledge DEF Pmic2Send, Step, InHand, Threads,
     portVars, clientVars
<1> QED BY <1>1, <1>2, <1>3, <1>4, <1>5, <1>6, <1>7 DEF Pmic2Run, Pmic2Next

LEMMA IoctlKeepsKnowledge ==
  ASSUME Known, IoctlRun
  PROVE  KnowledgeInv'
<1>0. Observe
  BY DEF IoctlRun
<1>1. CASE IoctlAcquire
  BY <1>0, <1>1, FrameKeepsKnowledge DEF IoctlAcquire, Acquire, InHand,
     Threads, portVars, clientVars
<1>2. CASE IoctlRefuse
  BY <1>0, <1>2, FrameKeepsKnowledge DEF IoctlRefuse, Completed, Release,
     InHand, Threads, portVars, clientVars
<1>3. CASE GetStateStart
  BY <1>0, <1>3, GetStateStartKeepsKnowledge
<1>4. CASE GetStateRead
  BY <1>0, <1>4, GetStateReadKeepsKnowledge
<1>5. CASE GetStateReply
  BY <1>0, <1>5, GetStateReplyKeepsKnowledge
<1>6. CASE SetPortDataRole
  BY <1>0, <1>6, FrameKeepsKnowledge DEF SetPortDataRole, Completed, Release,
     InHand, Threads, portVars, clientVars
<1>7. CASE IoctlReportNewPowerRole
  BY <1>0, <1>7, FrameKeepsKnowledge DEF IoctlReportNewPowerRole, Completed,
     Release, InHand, Threads, portVars, clientVars
<1>8. CASE IoctlSetVConnRoleSwitch
  BY <1>0, <1>8, FrameKeepsKnowledge DEF IoctlSetVConnRoleSwitch, Completed,
     Release, InHand, Threads, portVars, clientVars
<1>9. CASE PdEnableStart
  BY <1>0, <1>9, FrameKeepsKnowledge DEF PdEnableStart, Step, InHand, Threads,
     portVars, clientVars
<1>10. CASE PdEnable
  BY <1>0, <1>10, FrameKeepsKnowledge DEF PdEnable, Load4, Store4, Copy4,
     Step, InHand, Threads, portVars, clientVars
<1>11. CASE PdEnableSend
  BY <1>0, <1>11, FrameKeepsKnowledge DEF PdEnableSend, Release, InHand,
     Threads, portVars, clientVars
<1>12. CASE IoctlExecuteHardReset
  BY <1>0, <1>12, FrameKeepsKnowledge DEF IoctlExecuteHardReset, Completed,
     Release, InHand, Threads, portVars, clientVars
<1> QED BY <1>1, <1>2, <1>3, <1>4, <1>5, <1>6, <1>7, <1>8, <1>9, <1>10, <1>11,
   <1>12 DEF IoctlRun, IoctlNext

LEMMA WriterKeepsKnowledge ==
  ASSUME Known, WriterRun
  PROVE  KnowledgeInv'
<1>0. Observe
  BY DEF WriterRun
<1>1. CASE WriteReset
  BY <1>0, <1>1, FrameKeepsKnowledge DEF WriteReset, Step, InHand, Threads,
     portSide, portVars, clientVars
<1>2. CASE WriteClear
  BY <1>0, <1>2, FrameKeepsKnowledge DEF WriteClear, Step, InHand, Threads,
     portSide, portVars, clientVars
<1>3. CASE WriteAcquire
  BY <1>0, <1>3, FrameKeepsKnowledge DEF WriteAcquire, Acquire, InHand,
     Threads, portSide, portVars, clientVars
<1>4. CASE WriteSend
  BY <1>0, <1>4, FrameKeepsKnowledge DEF WriteSend, Release, InHand, Threads,
     portSide, portVars, clientVars
<1>5. CASE WriteFail
  BY <1>0, <1>5, FrameKeepsKnowledge DEF WriteFail, Step, InHand, Threads,
     portSide, portVars, clientVars
<1>6. CASE WriteTimeout
  BY <1>0, <1>6, FrameKeepsKnowledge DEF WriteTimeout, Step, InHand, Threads,
     portSide, portVars, clientVars
<1>7. CASE WriteAwake
  BY <1>0, <1>7, FrameKeepsKnowledge DEF WriteAwake, Step, InHand, Threads,
     portSide, portVars, clientVars
<1>8. CASE WriteDecide
  BY <1>0, <1>8, FrameKeepsKnowledge DEF WriteDecide, Step, InHand, Threads,
     portSide, portVars, clientVars
<1> QED BY <1>1, <1>2, <1>3, <1>4, <1>5, <1>6, <1>7, <1>8 DEF WriterRun,
   WriterNext

LEMMA ArriveKeepsKnowledge ==
  ASSUME Known, Arrive, Observe
  PROVE  KnowledgeInv'
<1>1. CASE IsrArrive
  BY <1>1, FrameKeepsKnowledge DEF IsrArrive, Step, InHand, Threads, portVars,
     clientVars
<1>2. CASE PmicInterrupt1Isr
  BY <1>2, StillKeepsKnowledge DEF PmicInterrupt1Isr, syncVars, portVars,
     portSide, clientVars
<1>3. CASE Pmic2Arrive
  BY <1>3, FrameKeepsKnowledge DEF Pmic2Arrive, Step, InHand, Threads,
     portVars, clientVars
<1>4. CASE IoctlArrive
  BY <1>4, FrameKeepsKnowledge DEF IoctlArrive, Step, InHand, Threads,
     portVars, clientVars
<1>5. CASE IoctlNotify
  BY <1>5, StillKeepsKnowledge DEF IoctlNotify, syncVars, portVars, portSide,
     clientVars
<1>6. CASE WriteArrive
  BY <1>6, FrameKeepsKnowledge DEF WriteArrive, Step, InHand, Threads,
     portSide, portVars, clientVars
<1>7. CASE WriteNothing
  BY <1>7, StillKeepsKnowledge DEF WriteNothing, syncVars, portVars, portSide,
     clientVars
<1>8. CASE ReadArrive
  BY <1>8, StillKeepsKnowledge DEF ReadArrive, syncVars, portVars, portSide,
     clientVars
<1> QED BY <1>1, <1>2, <1>3, <1>4, <1>5, <1>6, <1>7, <1>8 DEF Arrive

LEMMA KnownInitially == Init => KnowledgeInv
  BY DEF Init, KnowledgeInv, StoringInv, LevelInv, ReadingInv, Storing, Settled,
         Clash, Tells, DetachedPort, Unlocked, Touching, Toggle4, Reporters,
         Threads

LEMMA NextKeepsKnowledge ==
  ASSUME Known, Next
  PROVE  KnowledgeInv'
  BY IsrKeepsKnowledge, Pmic1KeepsKnowledge, Pmic2KeepsKnowledge,
     IoctlKeepsKnowledge, WriterKeepsKnowledge, ArriveKeepsKnowledge DEF Next

LEMMA NextKeepsKnown ==
  ASSUME Known, Next
  PROVE  Known'
<1>1. LockInv
  BY DEF Known, TypeOK, LockInv
<1> QED BY <1>1, NextKeepsLock, NextKeepsTypes, NextKeepsKnowledge
        DEF Known, LockInv

\* The strengthened invariant, with the types and the lock it rests on.
LEMMA KnowledgeInvariance == Spec => []Known
<1>1. Known /\ [Next]_vars => KnowledgeInv'
  <2>1. CASE UNCHANGED vars
    BY <2>1 DEF vars, Known, KnowledgeInv, StoringInv, LevelInv, ReadingInv,
                Storing, Settled, Tells, Clash
  <2> QED BY <2>1, NextKeepsKnowledge
<1>2. Known <=> TypeOK /\ LockDiscipline /\ KnowledgeInv
  BY DEF Known
<1> QED BY <1>1, <1>2, KnownInitially, TypeCorrect, LockIsExclusive, PTL DEF Spec

\* What every thread in the middle of a store or a read has done so far: the
\* inductive form of what the clients know, as the run "port" checks it.
THEOREM KnowledgeIsInvariant == Spec => []KnowledgeInv
  BY KnowledgeInvariance, PTL DEF Known

\* A client that heard every event since it last knew the port knows it as the
\* driver stores it, whenever nothing is being stored, up to the first overlap
\* of the unlocked tail of PMIC interrupt 2: whichever reports reach it, for
\* any number of requests and every input. The exceptions, a report that finds
\* no request, one refused for want of memory or one with a short buffer
\* (UC120ReportState), are what sets missed.
THEOREM PortIsKnown == Spec => []ClientsKnowPort
<1>1. Known => ClientsKnowPort
  BY DEF Known, KnowledgeInv, ClientsKnowPort
<1> QED BY <1>1, KnowledgeInvariance, PTL

\* A client that asks for the state is given the port as it is, whole.
THEOREM AnswersTakenWhole == Spec => []AnswersAreWhole
<1>1. Known => AnswersAreWhole
  BY AnswerIsPort DEF AnswersAreWhole
<1> QED BY <1>1, KnowledgeInvariance, PTL
=============================================================================
