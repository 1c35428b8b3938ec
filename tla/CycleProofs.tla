----------------------------- MODULE CycleProofs -----------------------------
(***************************************************************************)
(* The driver while its device leaves D0 and comes back, and the port next *)
(* to the cable, for every value of the constants. A step of the driver is *)
(* a step of Ice5Lp2k, so what was shown of those steps is used again; a   *)
(* change of power leaves the context alone, but for the two registers.    *)
(***************************************************************************)
EXTENDS RegisterProofs, WriteProofs, CableSide

\* On the way back to D0, and there and away again.
Waking == {"entry5", "entry13", "file", "calibrate", "enable2", "enable4",
           "enable5", "enable7"}
Gone == Waking \cup {"off", "failed"}

(***************************************************************************)
(* The two kinds of step.                                                  *)
(***************************************************************************)
DriverStep ==
  /\ \/ Arrive /\ Admitted
     \/ IsrPortNext \/ IsrPdNext
     \/ Pmic1Next \/ Pmic2Next \/ IoctlNext \/ WriterNext
  /\ UNCHANGED powerVars /\ Observe /\ Note

PowerStep == (PowerDown \/ Enter \/ Return \/ StopQueue) /\ Observe /\ Note

LEMMA KindsOfStep ==
  ASSUME CycleNext
  PROVE  DriverStep \/ PowerStep
  BY DEF CycleNext, ArriveWork, IsrWork, Pmic1Work, Pmic2Work, IoctlWork,
         WriterWork, PowerWork, Work, Power, DriverStep, PowerStep

LEMMA DriverIsNext ==
  ASSUME DriverStep
  PROVE  Next
  BY DEF DriverStep, Next, IsrRun, Pmic1Go, Pmic2Run, IoctlRun, WriterRun

\* What a change of power does, step by step. With a working bus it does not
\* fail.
Onward(from, to) == /\ power = from
                    /\ power' = to \/ (SpiMayFail /\ power' = "failed")
Written4 == /\ chip4' \in {shadow4', chip4}
            /\ ~SpiMayFail => chip4' = shadow4'
            /\ UNCHANGED reg5Vars
Written5 == /\ chip5' \in {shadow5', chip5}
            /\ ~SpiMayFail => chip5' = shadow5'
            /\ UNCHANGED <<shadow4, chip4>>
Unwritten == UNCHANGED <<shadow4, chip4, shadow5, chip5>>

LEMMA EnterMoves ==
  ASSUME Enter
  PROVE  /\ Onward("off", "entry5")
         /\ shadow4' = shadow4 \cup {"toggle", "bit2"} /\ Written4
         /\ UNCHANGED <<contextVars, accP>> /\ air' \in {air, {}}
  BY DEF Enter, P!Entry4, P!Write4, P!Go, P!IfOk, P!registers5, SpiWorks,
         Onward, Written4, reg5Vars

LEMMA ReturnMoves ==
  ASSUME Return
  PROVE  /\ UNCHANGED <<contextVars, air, accP>>
         /\ \/ /\ Onward("entry5", "entry13")
               /\ shadow5' = {"bit3", "bit7"} /\ Written5
            \/ /\ Onward("enable4", "enable5")
               /\ shadow4' = shadow4 \cup {"irq"} /\ Written4
            \/ /\ Onward("enable5", "enable7")
               /\ shadow5' = shadow5 \ {"bit7"} /\ Written5
            \/ /\ \/ Onward("entry13", "file") \/ Onward("file", "calibrate")
                  \/ Onward("calibrate", "enable2")
                  \/ Onward("enable2", "enable4") \/ Onward("enable7", "on")
               /\ Unwritten
<1> USE DEF Return, SpiWorks, Onward, Written4, Written5, Unwritten, reg5Vars,
            P!Go, P!IfOk, P!Write4, P!Write5, P!registers4, P!registers5
<1>1. CASE P!Entry5
  BY <1>1 DEF P!Entry5
<1>2. CASE P!Entry13
  BY <1>2 DEF P!Entry13
<1>3. CASE P!ReadFile
  BY <1>3 DEF P!ReadFile
<1>4. CASE P!EntryDone
  BY <1>4 DEF P!EntryDone
<1>5. CASE P!Enable23
  BY <1>5 DEF P!Enable23
<1>6. CASE P!Enable4
  BY <1>6 DEF P!Enable4
<1>7. CASE P!Enable5
  BY <1>7 DEF P!Enable5
<1>8. CASE P!Enable7
  BY <1>8 DEF P!Enable7
<1> QED BY <1>1, <1>2, <1>3, <1>4, <1>5, <1>6, <1>7, <1>8

LEMMA LeaveMoves ==
  ASSUME Leave
  PROVE  /\ power = "leave" /\ power' = "off"
         /\ \A t \in {"isr", "pmic1", "pmic2"} : pc[t] = "idle"
         /\ ~workItem
         /\ chip4' \in {chip4, {}} /\ chip5' \in {chip5, {}}
         /\ UNCHANGED <<contextVars, air, accP, shadow4, shadow5>>
  BY DEF Leave, WaitFor, Quiet, P!LeaveD0, P!Go

LEMMA ContextUntouched ==
  ASSUME PowerStep
  PROVE  UNCHANGED contextVars
  BY EnterMoves, ReturnMoves, LeaveMoves
  DEF PowerStep, PowerDown, DisableLoad, DisableStore, DisableCopy, DisableSend,
      StopQueue

(***************************************************************************)
(* Who is at work when.                                                    *)
(***************************************************************************)
QuietInv ==
  /\ power \in Connected \cup Gone
  /\ pc["isr"] # "idle" => power \in Listening
  /\ pc["ioctl"] # "idle" => power \in {"on", "stopping"}
  /\ power \in Gone => Quiet("pmic1") /\ Quiet("pmic2") /\ ~workItem
  /\ ~late /\ power \in Disabling => pc["pmic2"] \notin Toggle4

\* A signal that a write waits for was given in D0.
LitInv ==
  /\ pc["writer"] \in {"wait", "send", "await"} /\ pdEvent => lit
  /\ pc["writer"] = "decide" => lit

\* Bit 0 of Register 4, where it is off and where it is to be off.
OffInv ==
  ~late =>
    /\ power \in {"store4", "send4"} => "irq" \notin accP
    /\ power \in {"copy4", "send4"} \cup OutOfD0 => "irq" \notin shadow4
    /\ power \in OutOfD0 =>
         /\ ~SpiMayFail => "irq" \notin chip4
         /\ \A t \in Reporters : pc[t] \in {"store4", "send4"} =>
                                   "irq" \notin acc[t]

\* Register 5: its shadow is behind only until D0 entry has written it.
Reg5Cycle == ~SpiMayFail /\ power \notin {"off", "entry5"} => chip5 = shadow5

\* Register 4, kept by the threads and by the change of power together.
Reg4Cycle ==
  ~overlap /\ ~late =>
    /\ Hand4
    /\ power = "store4" => accP = shadow4 \ {"irq"}
    /\ power = "send4" => accP = shadow4
    /\ power \in {"on", "stopping", "enable5", "enable7"} => "irq" \in shadow4
    /\ power \notin {"copy4", "send4", "off"} => Chip4
    /\ ~carried => Bit1
    /\ carried => /\ "toggle" \in shadow4 /\ port.event = "Attach"
                  /\ \A t \in {"isr", "pmic2"} : pc[t] \notin Busy4

Sourced(p) == p.event = "Attach" /\ p.partner = "Ufp"
RoleIsOurs == \A r \in Requests : r.op \notin {"powerRole", "vconn"}
Storers == ~Storing("isr") /\ ~Storing("pmic2")

On5 == {"vconn", "power"} \subseteq chip5
SourcePort == power \in Connected /\ ~carried /\ Storers /\ Sourced(port) => On5
SourceLooked == pc["isr"] \in Looking /\ Sourced(rpt["isr"]) => On5
SourceVConn ==
  pc["isr"] = "role" /\ rpt["isr"].event = "Attach" => "vconn" \in chip5
SourceGone ==
  pc["isr"] \in Toggle4 \cup {"vconn", "role"} /\ rpt["isr"].event = "Detach"
    => port.event = "Detach"
SourceAsleep == power \in Waking /\ ~carried => port.event = "Detach"

\* Register 5 with a source attached, from the handler's first look at it on;
\* a port that is not attached when the device wakes up is no source.
SourceInv ==
  ~SpiMayFail /\ ~overlap /\ RoleIsOurs =>
    /\ req.op \notin {"powerRole", "vconn"}
    /\ SourcePort /\ SourceLooked /\ SourceVConn /\ SourceGone
    /\ SourceAsleep
-----------------------------------------------------------------------------
\* The types, the lock and what is known of the port survive a change of power.
CycleKnown == Known /\ accP \in SUBSET Bits4

LEMMA PowerKeepsRegisters ==
  ASSUME CycleKnown, PowerStep
  PROVE  /\ Reg4OK' /\ Reg5OK' /\ accP' \in SUBSET Bits4
         /\ air' \in {air, {}}
<1>0. /\ shadow4 \in SUBSET Bits4 /\ chip4 \in SUBSET Bits4
      /\ shadow5 \in SUBSET Bits5 /\ chip5 \in SUBSET Bits5
      /\ accP \in SUBSET Bits4 /\ acc \in [Reporters -> SUBSET Bits4]
  BY DEF CycleKnown, Known, TypeOK, Reg4OK, Reg5OK
<1> USE DEF Reg4OK, Reg5OK, Bits4, Bits5, contextVars, reg4Vars, reg5Vars
<1>1. CASE Enter
  BY <1>0, <1>1, EnterMoves DEF Written4
<1>2. CASE Return
  BY <1>0, <1>2, ReturnMoves DEF Written4, Written5, Unwritten
<1>3. CASE Leave
  BY <1>0, <1>3, LeaveMoves
<1>4. CASE DisableLoad \/ DisableStore \/ DisableCopy \/ StopQueue
  BY <1>0, <1>4 DEF DisableLoad, DisableStore, DisableCopy, StopQueue
<1>5. CASE DisableSend
  BY <1>0, <1>5 DEF DisableSend
<1> QED BY <1>1, <1>2, <1>3, <1>4, <1>5 DEF PowerStep, PowerDown

LEMMA PowerKeepsKnown ==
  ASSUME CycleKnown, PowerStep
  PROVE  CycleKnown'
<1>1. UNCHANGED contextVars
  BY ContextUntouched
<1>2. KnowledgeInv'
  BY <1>1, StillKeepsKnowledge DEF CycleKnown, PowerStep, contextVars
<1>3. LockDiscipline' /\ ControlOK'
  BY <1>1 DEF CycleKnown, Known, TypeOK, LockDiscipline, ControlOK, Holds,
              contextVars
<1>4. PortOK' /\ ClientOK' /\ InputOK'
  BY <1>1 DEF CycleKnown, Known, TypeOK, PortOK, ClientOK, InputOK, contextVars
<1>5. PdOK'
  BY <1>1, PowerKeepsRegisters
     DEF CycleKnown, Known, TypeOK, PdOK, contextVars
<1>6. overlap' \in BOOLEAN
  BY DEF PowerStep, Observe, CycleKnown, Known, TypeOK
<1> QED BY <1>2, <1>3, <1>4, <1>5, <1>6, PowerKeepsRegisters
        DEF CycleKnown, Known, TypeOK

LEMMA CycleKeepsKnown ==
  ASSUME CycleKnown, [CycleNext]_cycleVars
  PROVE  CycleKnown'
<1>1. CASE DriverStep
  BY <1>1, DriverIsNext, NextKeepsKnown DEF CycleKnown, DriverStep, powerVars
<1>2. CASE PowerStep
  BY <1>2, PowerKeepsKnown
<1>3. CASE UNCHANGED cycleVars
  <2>1. KnowledgeInv'
    BY <1>3 DEF cycleVars, vars, CycleKnown, Known, KnowledgeInv, StoringInv,
                LevelInv, ReadingInv, Storing, Settled, Tells, Clash
  <2>2. LockDiscipline' /\ ControlOK'
    BY <1>3 DEF cycleVars, vars, CycleKnown, Known, TypeOK, LockDiscipline,
                ControlOK, Holds
  <2>3. TypeOK' /\ accP' \in SUBSET Bits4
    BY <1>3, <2>2 DEF cycleVars, vars, powerVars, CycleKnown, Known, TypeOK,
                PortOK, ClientOK, Reg4OK, Reg5OK, InputOK, PdOK
  <2> QED BY <2>1, <2>2, <2>3 DEF CycleKnown, Known
<1> QED BY <1>1, <1>2, <1>3, KindsOfStep

LEMMA CycleKnowledge == CycleSpec => []CycleKnown
<1>1. CycleInit => CycleKnown
  <2>1. Init => TypeOK /\ LockDiscipline
    BY LockInitially, DataInitially DEF LockInv, TypeOK, DataOK, Init
  <2> QED BY <2>1, KnownInitially DEF CycleInit, CycleKnown, Known
<1> QED BY <1>1, CycleKeepsKnown, PTL DEF CycleSpec

\* The types of Ice5Lp2k, and the mutual exclusion of its lock, hold through
\* every change of power.
THEOREM TypesAcrossPower == CycleSpec => []TypeOK
<1>1. CycleKnown => TypeOK
  BY DEF CycleKnown, Known
<1> QED BY <1>1, CycleKnowledge, PTL

THEOREM LockAcrossPower == CycleSpec => []LockDiscipline
<1>1. CycleKnown => LockDiscipline
  BY DEF CycleKnown, Known
<1> QED BY <1>1, CycleKnowledge, PTL
\* What clients know of the port stays right, and what they are answered whole,
\* while the device comes and goes.
THEOREM KnownAcrossPower == CycleSpec => [](ClientsKnowPort /\ AnswersAreWhole)
<1>1. CycleKnown => ClientsKnowPort /\ AnswersAreWhole
  BY AnswerIsPort
     DEF CycleKnown, Known, KnowledgeInv, ClientsKnowPort, AnswersAreWhole
<1> QED BY <1>1, CycleKnowledge, PTL

(***************************************************************************)
(* A change of power neither takes nor gives the lock, and no answer comes *)
(* with it: what is true of an orphaned lock and of a write stays true.    *)
(***************************************************************************)
LEMMA PowerLeavesOrphan ==
  ASSUME PowerStep
  PROVE  /\ UNCHANGED <<pc, r2, reg1, port, told>>
         /\ Orphaned' <=> Orphaned
  BY ContextUntouched DEF contextVars, Orphaned, Holds

\* Only a write whose SPI transfer failed leaves the lock behind, whatever the
\* power of the device does.
THEOREM OnlyWritesOrphan == CycleSpec => OrphanedByFailedWrite
<1>1. CycleKnown /\ [CycleNext]_cycleVars =>
        [Orphaned' /\ ~Orphaned =>
           /\ pc["writer"] = "send" /\ pc'["writer"] = "idle"
           /\ result'.status = "spi"]_vars
  <2> SUFFICES ASSUME CycleKnown, [CycleNext]_cycleVars,
                      Orphaned', ~Orphaned
               PROVE  /\ pc["writer"] = "send" /\ pc'["writer"] = "idle"
                      /\ result'.status = "spi"
    OBVIOUS
  <2>1. CASE DriverStep
    <3>1. WriteFail
      BY <2>1, DriverIsNext, StepsAndOrphan DEF CycleKnown, Known, TypeOK, LockInv
    <3> QED BY <3>1 DEF WriteFail, Step, CycleKnown, Known, TypeOK, ControlOK,
            Threads
  <2>2. CASE PowerStep
    BY <2>2, PowerLeavesOrphan
  <2>3. CASE UNCHANGED cycleVars
    BY <2>3 DEF cycleVars, vars, Orphaned, Holds
  <2> QED BY <2>1, <2>2, <2>3, KindsOfStep
<1> QED BY <1>1, CycleKnowledge, PTL DEF CycleSpec, OrphanedByFailedWrite

\* An orphaned lock stays orphaned through every change of power too: coming
\* back to D0 mends nothing.
THEOREM OrphanOutlivesPower == CycleSpec => OrphanedForGood
<1>1. CycleKnown /\ [CycleNext]_cycleVars =>
        [Orphaned =>
           /\ Orphaned'
           /\ UNCHANGED <<r2, reg1.type>>
           /\ pc' # pc => UNCHANGED <<shadow5, chip5>>
           /\ pc["pmic2"] \in {"idle", "wait"} =>
                /\ UNCHANGED <<port, told>>
                /\ pc' # pc => UNCHANGED <<shadow4, chip4>>]_vars
  <2> SUFFICES ASSUME CycleKnown, [CycleNext]_cycleVars, Orphaned,
                      ~UNCHANGED vars
               PROVE  /\ Orphaned'
                      /\ UNCHANGED <<r2, reg1.type>>
                      /\ pc' # pc => UNCHANGED <<shadow5, chip5>>
                      /\ pc["pmic2"] \in {"idle", "wait"} =>
                           /\ UNCHANGED <<port, told>>
                           /\ pc' # pc => UNCHANGED <<shadow4, chip4>>
    OBVIOUS
  <2>1. CASE DriverStep
    <3>1. LockInv /\ DataOK
      BY DEF CycleKnown, Known, TypeOK, LockInv, DataOK
    <3> QED BY <2>1, <3>1, DriverIsNext, OrphanFreezes DEF Frozen, PortSide
  <2>2. CASE PowerStep
    BY <2>2, PowerLeavesOrphan
  <2>3. ~UNCHANGED cycleVars
    BY DEF cycleVars
  <2> QED BY <2>1, <2>2, <2>3, KindsOfStep
<1> QED BY <1>1, CycleKnowledge, PTL DEF CycleSpec, OrphanedForGood

\* A write that begins, waits or ends out of D0 is no exception: a success is
\* the answer to its own message. A chip that loses power may forget a message,
\* and then there is no answer.
THEOREM SuccessAcrossPower == CycleSpec => []SuccessIsOwnAnswer
<1>1. CycleInit => AnswerInv
  BY AnswerInitially DEF CycleInit
<1>2. CycleKnown /\ AnswerInv /\ [CycleNext]_cycleVars => AnswerInv'
  <2> SUFFICES ASSUME CycleKnown, AnswerInv, [CycleNext]_cycleVars
               PROVE  AnswerInv'
    OBVIOUS
  <2>1. CASE DriverStep \/ UNCHANGED cycleVars
    BY <2>1, DriverIsNext, NextKeepsAnswer
       DEF CycleKnown, Known, TypeOK, cycleVars
  <2>2. CASE PowerStep
    <3>1. UNCHANGED <<pc, result, taint, pd, pdEvent>>
      BY <2>2, ContextUntouched DEF contextVars
    <3>2. air' \in {air, {}}
      BY <2>2, PowerKeepsRegisters
    <3> QED BY <3>1, <3>2 DEF AnswerInv, SuccessIsOwnAnswer, AboutToSignal
  <2> QED BY <2>1, <2>2, KindsOfStep
<1>3. AnswerInv => SuccessIsOwnAnswer
  BY DEF AnswerInv
<1> QED BY <1>1, <1>2, <1>3, CycleKnowledge, PTL DEF CycleSpec
-----------------------------------------------------------------------------
(***************************************************************************)
(* Who is at work when the device is not in D0.                            *)
(***************************************************************************)
\* A thread that has been called moves, and nobody else.
Moves(t) ==
  /\ pc[t] # "idle" \/ (t = "pmic1" /\ workItem)
  /\ \A s \in Threads \ {t} : pc'[s] = pc[s]
  /\ workItem' => workItem

LEMMA MoversOfSteps ==
  ASSUME ControlOK, DriverStep
  PROVE  \/ Arrive /\ Admitted
         \/ (IsrPortNext \/ IsrPdNext) /\ Moves("isr")
         \/ Pmic1Next /\ Moves("pmic1")
         \/ Pmic2Next /\ Moves("pmic2")
         \/ IoctlNext /\ Moves("ioctl")
         \/ WriterNext /\ Moves("writer")
<1> USE DEF ControlOK, Moves
<1>1. ASSUME IsrPortNext \/ IsrPdNext PROVE Moves("isr")
  BY <1>1 DEF IsrPortNext, IsrPdNext, IsrAcquire, IsrStatus, IsrPort, IsrVConn,
     IsrRole, IsrCheck, Report, Store, Toggle, ToggleReg4, Load4, Store4, Copy4,
     IsrSend, IsrLevel, IsrLevelReport, IsrLevelStore, IsrAck,
     ProcessIncomingPdMessage, IncomingMessage, SetEvent,
     SynchronizeIncomingMessageSize, NoAnswerYet, Step, Acquire, Release,
     portSide, otherVars
<1>2. ASSUME Pmic1Next PROVE Moves("pmic1")
  <2>1. CASE Pmic1Start
    BY <2>1 DEF Pmic1Start, Step
  <2>2. CASE Pmic1Acquire \/ Pmic1Run
    <3>1. workItem' = workItem
      BY <2>2 DEF Pmic1Acquire, Pmic1Run, otherVars
    <3> QED BY <2>2, <3>1 DEF Pmic1Acquire, Pmic1Run, Acquire, Release
  <2> QED BY <1>2, <2>1, <2>2 DEF Pmic1Next
<1>3. ASSUME Pmic2Next PROVE Moves("pmic2")
  <2>1. workItem' = workItem
    BY <1>3 DEF Pmic2Next, Pmic2Acquire, Pmic2Detach, Pmic2Nothing, Report,
       Store, Toggle, Pmic2Send, otherVars
  <2>2. pc["pmic2"] # "idle" /\ \A s \in Threads \ {"pmic2"} : pc'[s] = pc[s]
    BY <1>3 DEF Pmic2Next, Pmic2Acquire, Pmic2Detach, Pmic2Nothing, Report,
       Store, Toggle, ToggleReg4, Load4, Store4, Copy4, Pmic2Send, Step,
       Acquire, Release
  <2> QED BY <2>1, <2>2
<1>4. ASSUME IoctlNext PROVE Moves("ioctl")
  BY <1>4 DEF IoctlNext, IoctlAcquire, IoctlRefuse, GetStateStart,
     GetStateRead, GetStateReply, SetPortDataRole, IoctlReportNewPowerRole,
     IoctlSetVConnRoleSwitch, PdEnableStart, PdEnable, Load4, Store4, Copy4,
     PdEnableSend, IoctlExecuteHardReset, Completed, Step, Acquire, Release,
     idleVars
<1>5. ASSUME WriterNext PROVE Moves("writer")
  BY <1>5 DEF WriterNext, WriteReset, WriteClear, WriteAcquire, WriteSend,
     WriteFail, WriteTimeout, WriteAwake, WriteDecide, Step, Acquire, Release,
     portSide
<1> QED BY <1>1, <1>2, <1>3, <1>4, <1>5 DEF DriverStep

LEMMA DriverKeepsQuiet ==
  ASSUME CycleKnown, QuietInv, DriverStep
  PROVE  QuietInv'
<1>0. ControlOK
  BY DEF CycleKnown, Known, TypeOK
<1>1. power' = power
  BY DEF DriverStep, powerVars
<1>2. ~late' /\ power' \in Disabling => pc'["pmic2"] \notin Toggle4
  BY DEF DriverStep, Note
<1>3. CASE Arrive /\ Admitted
  <2>1. pc'["pmic1"] = pc["pmic1"]
    BY <1>0, <1>3 DEF ControlOK, Threads, Arrive, IsrArrive, PmicInterrupt1Isr,
       Pmic2Arrive, IoctlArrive, IoctlNotify, WriteArrive, WriteNothing,
       ReadArrive, syncVars, Step
  <2>2. power \notin Connected =>
          pc'["pmic2"] = pc["pmic2"] /\ workItem' = workItem
    BY <1>3 DEF Admitted
  <2> QED BY <1>1, <1>2, <1>3, <2>1, <2>2
          DEF QuietInv, Admitted, Quiet, Gone, Waking, Connected, Listening,
              Disabling
<1>4. ASSUME NEW t \in Threads, Moves(t)
      PROVE  QuietInv'
  BY <1>1, <1>2, <1>4
     DEF QuietInv, Moves, Quiet, Threads, Gone, Waking, Connected, Listening,
         Disabling
<1> QED BY <1>0, <1>3, <1>4, MoversOfSteps DEF Threads

LEMMA PowerKeepsQuiet ==
  ASSUME QuietInv, PowerStep
  PROVE  QuietInv'
<1>1. UNCHANGED <<pc, workItem>>
  BY ContextUntouched DEF contextVars
<1>2. ~late' /\ power' \in Disabling => pc'["pmic2"] \notin Toggle4
  BY DEF PowerStep, Note
<1> USE DEF QuietInv, Quiet, Gone, Waking, Connected, Listening, Disabling
<1>3. CASE Enter
  BY <1>1, <1>2, <1>3, EnterMoves DEF Onward
<1>4. CASE Return
  BY <1>1, <1>2, <1>4, ReturnMoves DEF Onward
<1>5. CASE Leave
  BY <1>1, <1>2, <1>5, LeaveMoves
<1>6. CASE \/ DisableLoad \/ DisableStore \/ DisableCopy \/ DisableSend
           \/ StopQueue
  BY <1>1, <1>2, <1>6 DEF DisableLoad, DisableStore, DisableCopy, DisableSend,
     StopQueue, WaitFor, Move
<1> QED BY <1>3, <1>4, <1>5, <1>6 DEF PowerStep, PowerDown

LEMMA Quietness == CycleSpec => []QuietInv
<1>1. CycleInit => QuietInv
  BY DEF CycleInit, Init, QuietInv, Connected, Listening, Threads, Gone, Waking,
         Disabling
<1>2. CycleKnown /\ QuietInv /\ [CycleNext]_cycleVars => QuietInv'
  <2>1. UNCHANGED cycleVars /\ QuietInv => QuietInv'
    BY DEF cycleVars, vars, powerVars, ghostVars, QuietInv, Quiet
  <2> QED BY <2>1, KindsOfStep, DriverKeepsQuiet, PowerKeepsQuiet
<1> QED BY <1>1, <1>2, CycleKnowledge, PTL DEF CycleSpec
-----------------------------------------------------------------------------
LEMMA DriverKeepsLit ==
  ASSUME CycleKnown, QuietInv, LitInv, DriverStep
  PROVE  LitInv'
<1>0. /\ pc \in [Threads -> UNION {Labels(t) : t \in Threads}]
      /\ "writer" \in Threads /\ "isr" \in Threads
  BY DEF CycleKnown, Known, TypeOK, ControlOK, Threads
<1>1. lit' = /\ pc'["writer"] \notin {"idle", "reset", "clear"}
             /\ lit \/ power' \in Listening
  BY DEF DriverStep, Note
<1>2. power' = power
  BY DEF DriverStep, powerVars
<1> USE <1>0, <1>1 DEF LitInv
<1>3. CASE UNCHANGED WriteSide
  BY <1>3 DEF WriteSide
<1>4. CASE IsrPdNext
  <2>1. pc["isr"] # "idle" /\ pc'["writer"] = pc["writer"]
    BY <1>4 DEF IsrPdNext, ProcessIncomingPdMessage, IncomingMessage, SetEvent,
       SynchronizeIncomingMessageSize, NoAnswerYet, Step
  <2>2. power' \in Listening
    BY <1>2, <2>1 DEF QuietInv
  <2>3. lit' = (pc'["writer"] \notin {"idle", "reset", "clear"})
    BY <2>2
  <2> QED BY <2>3
<1>5. CASE WriteArrive \/ WriteNothing
  BY <1>5 DEF WriteArrive, WriteNothing, Step, syncVars
<1>6. CASE WriterRun
  BY <1>6 DEF WriterRun, WriterNext, WriteReset, WriteClear, WriteAcquire,
     WriteSend, WriteFail, WriteTimeout, WriteAwake, WriteDecide, Step, Acquire,
     Release, pdVars
<1> QED BY <1>3, <1>4, <1>5, <1>6, DriverIsNext, WriteSideWriters
        DEF CycleKnown, Known, TypeOK

LEMMA Litness == CycleSpec => []LitInv
<1>1. CycleInit => LitInv
  BY DEF CycleInit, Init, LitInv, Threads
<1>2. CycleKnown /\ QuietInv /\ LitInv /\ [CycleNext]_cycleVars => LitInv'
  <2> SUFFICES ASSUME CycleKnown, QuietInv, LitInv, [CycleNext]_cycleVars
               PROVE  LitInv'
    OBVIOUS
  <2>1. CASE UNCHANGED cycleVars
    BY <2>1 DEF cycleVars, vars, ghostVars, LitInv
  <2>2. CASE PowerStep
    <3>1. UNCHANGED <<pc, pdEvent>>
      BY <2>2, ContextUntouched DEF contextVars
    <3>2. lit' = /\ pc'["writer"] \notin {"idle", "reset", "clear"}
                 /\ lit \/ power' \in Listening
      BY <2>2 DEF PowerStep, Note
    <3> QED BY <3>1, <3>2 DEF LitInv
  <2> QED BY <2>1, <2>2, KindsOfStep, DriverKeepsLit
<1> QED BY <1>1, <1>2, CycleKnowledge, Quietness, PTL DEF CycleSpec

\* A write ends with an answer only if the interrupt could run since it cleared
\* the event: an answer left over from before is never taken for its own.
THEOREM AnswersComeInD0 == CycleSpec => []AnswerNeedsD0
<1>1. LitInv => AnswerNeedsD0
  BY DEF LitInv, AnswerNeedsD0
<1> QED BY <1>1, Litness, PTL
-----------------------------------------------------------------------------
(***************************************************************************)
(* Register 4.                                                             *)
(***************************************************************************)
\* A thread goes on with its read-modify-write, ...
Modifies(t) ==
  /\ \A s \in Threads \ {t} : pc'[s] = pc[s]
  /\ \/ /\ pc[t] = "load4" /\ pc'[t] = "store4"
        /\ "irq" \in acc'[t] => "irq" \in shadow4
        /\ \A s \in Reporters \ {t} : acc'[s] = acc[s]
        /\ UNCHANGED <<shadow4, chip4>>
     \/ /\ pc[t] = "store4" /\ pc'[t] = "copy4"
        /\ shadow4' = acc[t] /\ UNCHANGED <<acc, chip4>>
     \/ /\ pc[t] = "copy4" /\ pc'[t] = "send4"
        /\ acc' = [acc EXCEPT ![t] = shadow4]
        /\ UNCHANGED <<shadow4, chip4>>
     \/ /\ pc[t] = "send4" /\ pc'[t] \notin Busy4
        /\ chip4' \in Sent(acc[t], chip4)
        /\ \A s \in Reporters \ {t} : acc'[s] = acc[s]
        /\ UNCHANGED shadow4

\* ... or the register is left alone, and nobody gets on with it.
Handed == {"store4", "copy4", "send4"}
Rests4 == /\ UNCHANGED reg4Vars
          /\ \A t \in Reporters : pc'[t] \in Handed => pc[t] = pc'[t]

LEMMA TogglingModifies ==
  ASSUME ControlOK, Reg4OK, NEW t \in Reporters, NEW bit \in Bits4 \ {"irq"},
         NEW on \in BOOLEAN, Load4(t, bit, on) \/ Store4(t) \/ Copy4(t)
  PROVE  Modifies(t)
<1>0. /\ pc \in [Threads -> UNION {Labels(s) : s \in Threads}]
      /\ acc \in [Reporters -> SUBSET Bits4] /\ t \in Threads
  BY DEF ControlOK, Reg4OK, Threads, Reporters
<1> USE <1>0 DEF Modifies
<1>1. CASE Load4(t, bit, on)
  <2>1. acc'[t] = With(shadow4, bit, on)
    BY <1>1 DEF Load4
  <2>2. "irq" \in acc'[t] => "irq" \in shadow4
    BY <2>1 DEF With
  <2> QED BY <1>1, <2>2 DEF Load4, Step
<1>2. CASE Store4(t)
  BY <1>2 DEF Store4, Step
<1>3. CASE Copy4(t)
  BY <1>3 DEF Copy4, Step
<1> QED BY <1>1, <1>2, <1>3

LEMMA SendingModifies ==
  ASSUME ControlOK, Reg4OK, NEW t \in Reporters, Send4(t), pc[t] = "send4",
         NEW to, to \notin Busy4, pc' = [pc EXCEPT ![t] = to]
  PROVE  Modifies(t)
  BY DEF Modifies, Send4, ControlOK, Reg4OK, Threads, Reporters

LEMMA IsrAtReg4 ==
  ASSUME ControlOK, Reg4OK, IsrPortNext \/ IsrPdNext
  PROVE  Modifies("isr") \/ Rests4
<1> USE DEF ControlOK, Threads, Reporters, Rests4, Handed
<1>1. CASE Toggle("isr")
  <2>1. "toggle" \in Bits4 \ {"irq"} /\ "isr" \in Reporters
    BY DEF Bits4
  <2> QED BY <1>1, <2>1, TogglingModifies DEF Toggle, ToggleReg4
<1>2. CASE IsrSend
  <2>1. PICK to \in {"level", "vconn"} : pc' = [pc EXCEPT !["isr"] = to]
    BY <1>2 DEF IsrSend, Step
  <2>2. to \notin Busy4
    BY DEF Busy4, Toggle4
  <2> QED BY <1>2, <2>1, <2>2, SendingModifies DEF IsrSend, Step
<1>3. CASE ~Toggle("isr") /\ ~IsrSend
  BY <1>3 DEF IsrPortNext, IsrPdNext, IsrAcquire, IsrStatus, IsrPort, AfterPort,
     IsrVConn, IsrRole, IsrCheck, Report, Store, IsrLevel, AfterLevel,
     IsrLevelReport, IsrLevelStore, IsrAck, ProcessIncomingPdMessage,
     IncomingMessage, SetEvent, SynchronizeIncomingMessageSize, NoAnswerYet,
     Step, Acquire, Release, portSide
<1> QED BY <1>1, <1>2, <1>3

LEMMA Pmic2AtReg4 ==
  ASSUME ControlOK, Reg4OK, Pmic2Next
  PROVE  Modifies("pmic2") \/ Rests4
<1> USE DEF ControlOK, Threads, Reporters, Rests4, Handed
<1>1. CASE Toggle("pmic2")
  <2>1. "toggle" \in Bits4 \ {"irq"} /\ "pmic2" \in Reporters
    BY DEF Bits4
  <2> QED BY <1>1, <2>1, TogglingModifies DEF Toggle, ToggleReg4
<1>2. CASE Pmic2Send
  <2>1. "idle" \notin Busy4
    BY DEF Busy4, Toggle4
  <2> QED BY <1>2, <2>1, SendingModifies DEF Pmic2Send, Step
<1>3. CASE ~Toggle("pmic2") /\ ~Pmic2Send
  BY <1>3 DEF Pmic2Next, Pmic2Acquire, Pmic2Detach, Pmic2Nothing, Report, Store,
     Step, Acquire, Release
<1> QED BY <1>1, <1>2, <1>3

LEMMA IoctlAtReg4 ==
  ASSUME ControlOK, Reg4OK, IoctlNext
  PROVE  Modifies("ioctl") \/ Rests4
<1> USE DEF ControlOK, Threads, Reporters, Rests4, Handed
<1>1. CASE PdEnable
  <2>1. "crc" \in Bits4 \ {"irq"} /\ "ioctl" \in Reporters
    BY DEF Bits4
  <2> QED BY <1>1, <2>1, TogglingModifies DEF PdEnable
<1>2. CASE PdEnableSend
  <2>1. "idle" \notin Busy4
    BY DEF Busy4, Toggle4
  <2> QED BY <1>2, <2>1, SendingModifies DEF PdEnableSend, Release
<1>3. CASE ~PdEnable /\ ~PdEnableSend
  BY <1>3 DEF IoctlNext, IoctlAcquire, IoctlRefuse, GetStateStart, GetStateRead,
     GetStateReply, SetPortDataRole, IoctlReportNewPowerRole,
     IoctlSetVConnRoleSwitch, PdEnableStart, IoctlExecuteHardReset, Completed,
     Step, Acquire, Release
<1> QED BY <1>1, <1>2, <1>3

LEMMA DriverAtReg4 ==
  ASSUME ControlOK, Reg4OK, DriverStep
  PROVE  Rests4 \/ \E t \in Reporters : Modifies(t)
<1> USE DEF ControlOK, Threads, Reporters, Rests4, Handed
<1>1. CASE Arrive
  BY <1>1 DEF Arrive, IsrArrive, PmicInterrupt1Isr, Pmic2Arrive, IoctlArrive,
     IoctlNotify, WriteArrive, WriteNothing, ReadArrive, syncVars, Step,
     portSide
<1>2. CASE Pmic1Next
  BY <1>2 DEF Pmic1Next, Pmic1Start, Pmic1Acquire, Pmic1Run, Step, Acquire,
     Release
<1>3. CASE WriterNext
  BY <1>3 DEF WriterNext, WriteReset, WriteClear, WriteAcquire, WriteSend,
     WriteFail, WriteTimeout, WriteAwake, WriteDecide, Step, Acquire, Release,
     portSide
<1> QED BY <1>1, <1>2, <1>3, IsrAtReg4, Pmic2AtReg4, IoctlAtReg4 DEF DriverStep

LEMMA DriverKeepsOff ==
  ASSUME CycleKnown, QuietInv, OffInv, DriverStep
  PROVE  OffInv'
<1> SUFFICES ASSUME ~late'
             PROVE  OffInv'
  BY DEF OffInv
<1>0. /\ ~late /\ power' = power /\ accP' = accP
      /\ ControlOK /\ Reg4OK
      /\ acc \in [Reporters -> SUBSET Bits4]
  BY DEF DriverStep, Note, powerVars, CycleKnown, Known, TypeOK, Reg4OK
<1>1. CASE Rests4
  BY <1>0, <1>1 DEF OffInv, Rests4, reg4Vars, Handed
<1>2. ASSUME NEW t \in Reporters, Modifies(t)
      PROVE  OffInv'
  <2>1. pc[t] \in Toggle4
    BY <1>2 DEF Modifies, Toggle4
  <2>2. power \notin Disabling
    BY <1>0, <2>1 DEF QuietInv, Reporters, Disabling, Listening, Toggle4
  <2>3. power \in OutOfD0 => /\ "irq" \notin shadow4'
                             /\ ~SpiMayFail => "irq" \notin chip4'
    BY <1>0, <1>2 DEF OffInv, Modifies, Sent
  <2>4. ASSUME power \in OutOfD0, NEW s \in Reporters, pc'[s] \in {"store4", "send4"}
        PROVE  "irq" \notin acc'[s]
    <3>1. s \in Threads
      BY DEF Reporters, Threads
    <3>2. CASE s # t
      BY <1>0, <1>2, <2>4, <3>1, <3>2 DEF OffInv, Modifies
    <3>3. CASE s = t
      BY <1>0, <1>2, <2>4, <3>3 DEF OffInv, Modifies, Busy4, Toggle4
    <3> QED BY <3>2, <3>3
  <2> QED BY <1>0, <2>2, <2>3, <2>4 DEF OffInv, Disabling, OutOfD0
<1> QED BY <1>0, <1>1, <1>2, DriverAtReg4

LEMMA PowerKeepsOff ==
  ASSUME QuietInv, OffInv, PowerStep
  PROVE  OffInv'
<1> SUFFICES ASSUME ~late'
             PROVE  OffInv'
  BY DEF OffInv
<1>0. ~late /\ UNCHANGED <<pc, acc>>
  BY ContextUntouched DEF PowerStep, Note, contextVars
<1>1. power \in Disabling \cup Gone => \A t \in Reporters : pc[t] \notin Toggle4
  BY <1>0 DEF QuietInv, Quiet, Reporters, Disabling, Listening, Gone, Waking,
              Toggle4
<1> USE DEF OffInv, OutOfD0, Disabling
<1>2. CASE Enter
  BY <1>0, <1>1, <1>2, EnterMoves DEF Onward, Written4
<1>3. CASE Return
  BY <1>0, <1>3, ReturnMoves DEF Onward, Written4, Written5, Unwritten
<1>4. CASE Leave
  BY <1>0, <1>4, LeaveMoves
<1>5. CASE DisableLoad \/ DisableStore \/ DisableCopy \/ StopQueue
  BY <1>0, <1>5 DEF DisableLoad, DisableStore, DisableCopy, StopQueue, Move,
     reg4Vars
<1>6. CASE DisableSend
  BY <1>0, <1>1, <1>6 DEF DisableSend, Move, Toggle4
<1> QED BY <1>2, <1>3, <1>4, <1>5, <1>6 DEF PowerStep, PowerDown

LEMMA OffInvariance == CycleSpec => []OffInv
<1>1. CycleInit => OffInv
  BY DEF CycleInit, OffInv, OutOfD0
<1>2. CycleKnown /\ QuietInv /\ OffInv /\ [CycleNext]_cycleVars => OffInv'
  <2>1. UNCHANGED cycleVars /\ OffInv => OffInv'
    BY DEF cycleVars, vars, powerVars, ghostVars, OffInv
  <2> QED BY <2>1, KindsOfStep, DriverKeepsOff, PowerKeepsOff
<1> QED BY <1>1, <1>2, CycleKnowledge, Quietness, PTL DEF CycleSpec

\* From the moment the interrupt is disabled until it is enabled again its bit
\* is off, in the shadow and, if the bus works, in the chip.
THEOREM DisabledStaysDisabled == CycleSpec => []InterruptStaysOff
<1>1. OffInv => InterruptStaysOff
  BY DEF OffInv, InterruptStaysOff
<1> QED BY <1>1, OffInvariance, PTL

LEMMA Reg5CycleInvariance == CycleSpec => []Reg5Cycle
<1>1. CycleInit => Reg5Cycle
  BY DEF CycleInit, Init, Reg5Cycle
<1>2. Reg5Cycle /\ [CycleNext]_cycleVars => Reg5Cycle'
  <2> SUFFICES ASSUME ~SpiMayFail, Reg5Cycle, [CycleNext]_cycleVars
               PROVE  Reg5Cycle'
    BY DEF Reg5Cycle
  <2> USE DEF Reg5Cycle
  <2>1. CASE DriverStep
    BY <2>1, DriverIsNext, Reg5Step DEF Reg5Inv, DriverStep, powerVars
  <2>2. CASE Enter
    BY <2>2, EnterMoves DEF Onward
  <2>3. CASE Return
    BY <2>3, ReturnMoves DEF Onward, Written4, Written5, Unwritten, reg5Vars
  <2>4. CASE Leave
    BY <2>4, LeaveMoves
  <2>5. CASE \/ DisableLoad \/ DisableStore \/ DisableCopy \/ DisableSend
             \/ StopQueue
    BY <2>5 DEF DisableLoad, DisableStore, DisableCopy, DisableSend, StopQueue,
       Move, reg5Vars
  <2>6. CASE UNCHANGED cycleVars
    BY <2>6 DEF cycleVars, vars, powerVars
  <2> QED BY <2>1, <2>2, <2>3, <2>4, <2>5, <2>6, KindsOfStep
          DEF PowerStep, PowerDown
<1> QED BY <1>1, <1>2, PTL DEF CycleSpec

\* The bit of the port is taken up only by a thread that has stored a port.
LEMMA LoadFollowsStore ==
  ASSUME CycleKnown, DriverStep, NEW t \in {"isr", "pmic2"},
         pc'[t] \in Toggle4
  PROVE  pc[t] \in Busy4
<1>0. /\ pc \in [Threads -> UNION {Labels(s) : s \in Threads}]
      /\ t \in Threads /\ t # "ioctl" /\ t # "writer" /\ t # "pmic1"
  BY DEF CycleKnown, Known, TypeOK, ControlOK, Threads
<1> USE <1>0 DEF Busy4, Toggle4, Threads
<1>1. CASE Arrive /\ Admitted
  BY <1>1 DEF Arrive, IsrArrive, PmicInterrupt1Isr, Pmic2Arrive, IoctlArrive,
     IoctlNotify, WriteArrive, WriteNothing, ReadArrive, syncVars, Step
<1>2. CASE (IsrPortNext \/ IsrPdNext) /\ t = "isr"
  BY <1>2 DEF IsrPortNext, IsrPdNext, IsrAcquire, IsrStatus, IsrPort,
     AfterPort, IsrVConn, IsrRole, IsrCheck, Report, Store, Toggle, ToggleReg4,
     Load4, Store4, Copy4, IsrSend, IsrLevel, AfterLevel, IsrLevelReport,
     IsrLevelStore, IsrAck, ProcessIncomingPdMessage, IncomingMessage, SetEvent,
     SynchronizeIncomingMessageSize, NoAnswerYet, Step, Acquire, Release
<1>3. CASE Pmic2Next /\ t = "pmic2"
  BY <1>3 DEF Pmic2Next, Pmic2Acquire, Pmic2Detach, Pmic2Nothing, Report,
     Store, Toggle, ToggleReg4, Load4, Store4, Copy4, Pmic2Send, Step, Acquire,
     Release
<1>4. ASSUME NEW s \in Threads \ {t}, Moves(s)
      PROVE  pc[t] \in Busy4
  BY <1>4 DEF Moves
<1> QED BY <1>1, <1>2, <1>3, <1>4, MoversOfSteps
        DEF CycleKnown, Known, TypeOK

LEMMA DriverKeepsShadow4 ==
  ASSUME Hand4, DriverStep
  PROVE  /\ "irq" \in shadow4 => "irq" \in shadow4'
         /\ (\A t \in Reporters : pc[t] \notin Toggle4) => UNCHANGED shadow4
         /\ /\ \A t \in {"isr", "pmic2"} : pc[t] \notin Busy4
            /\ "toggle" \in shadow4
            => "toggle" \in shadow4'
<1>1. CASE UNCHANGED shadow4
  BY <1>1
<1>2. ASSUME NEW t \in Reporters, Store4(t)
      PROVE  /\ pc[t] \in Toggle4 /\ pc[t] \in Busy4
             /\ shadow4' = Own(t)
  BY <1>2 DEF Store4, Step, Hand4, Toggle4, Busy4
<1>3. CASE Store4("ioctl")
  BY <1>2, <1>3 DEF Own, With, Reporters
<1>4. ASSUME NEW t \in {"isr", "pmic2"}, Store4(t)
      PROVE  /\ "irq" \in shadow4 => "irq" \in shadow4'
             /\ pc[t] \in Toggle4 /\ pc[t] \in Busy4
  BY <1>2, <1>4 DEF Own, With, Reporters
<1> QED BY <1>1, <1>2, <1>3, <1>4, DriverIsNext, Shadow4Writers DEF Reporters

LEMMA DriverKeepsEvent ==
  ASSUME CycleKnown, DriverStep, \A t \in {"isr", "pmic2"} : pc[t] # "store"
  PROVE  port'.event = port.event
<1>1. CASE IsrLevelStore
  BY <1>1 DEF IsrLevelStore, CycleKnown, Known, TypeOK, PortOK, PortStates
<1>2. ~Store("isr") /\ ~Store("pmic2")
  BY DEF Store, Step
<1> QED BY <1>1, <1>2, DriverIsNext, PortWriters

LEMMA DriverKeepsReg4 ==
  ASSUME CycleKnown, QuietInv, Reg4Cycle, DriverStep
  PROVE  Reg4Cycle'
<1> SUFFICES ASSUME ~overlap', ~late'
             PROVE  Reg4Cycle'
  BY DEF Reg4Cycle
<1>0. /\ ~overlap /\ ~late /\ power' = power /\ accP' = accP
      /\ carried' = (carried /\ pc'["isr"] # "store" /\ pc'["pmic2"] # "store")
  BY DEF DriverStep, Observe, Note, powerVars
<1>1. Hand4
  BY <1>0 DEF Reg4Cycle
<1>2. Keeps4
  BY <1>1, DriverIsNext, NextKeeps4 DEF CycleKnown
<1>3. power \in Disabling => UNCHANGED shadow4
  <2>1. power \in Disabling => \A t \in Reporters : pc[t] \notin Toggle4
    BY <1>0 DEF QuietInv, Reporters, Disabling, Listening, Toggle4
  <2> QED BY <1>1, <2>1, DriverKeepsShadow4
<1>4. /\ power = "store4" => accP' = shadow4' \ {"irq"}
      /\ power = "send4" => accP' = shadow4'
  BY <1>0, <1>3 DEF Reg4Cycle, Disabling
<1>5. power \in {"on", "stopping", "enable5", "enable7"} => "irq" \in shadow4'
  BY <1>0, <1>1, DriverKeepsShadow4 DEF Reg4Cycle
<1>6. power \notin {"copy4", "send4", "off"} => Chip4'
  BY <1>0, <1>2 DEF Reg4Cycle, Keeps4
<1>7. ~carried' => Bit1'
  <2>1. CASE carried
    BY <1>0, <2>1 DEF Bit1
  <2>2. CASE ~carried
    BY <1>0, <1>2, <2>2 DEF Reg4Cycle, Keeps4
  <2> QED BY <2>1, <2>2
<1>8. ASSUME carried'
      PROVE  /\ "toggle" \in shadow4' /\ port'.event = "Attach"
             /\ \A t \in {"isr", "pmic2"} : pc'[t] \notin Busy4
  <2>1. /\ carried /\ "toggle" \in shadow4 /\ port.event = "Attach"
        /\ \A t \in {"isr", "pmic2"} : pc[t] \notin Busy4
    BY <1>0, <1>8 DEF Reg4Cycle
  <2>2. "toggle" \in shadow4'
    BY <1>1, <2>1, DriverKeepsShadow4
  <2>3. port'.event = "Attach"
    BY <2>1, DriverKeepsEvent DEF Busy4
  <2>4. \A t \in {"isr", "pmic2"} : pc'[t] \notin Busy4
    BY <1>0, <1>8, <2>1, LoadFollowsStore DEF Busy4
  <2> QED BY <2>2, <2>3, <2>4
<1> QED BY <1>0, <1>2, <1>4, <1>5, <1>6, <1>7, <1>8 DEF Reg4Cycle, Keeps4

LEMMA PowerKeepsReg4 ==
  ASSUME CycleKnown, QuietInv, Reg4Cycle, PowerStep
  PROVE  Reg4Cycle'
<1> SUFFICES ASSUME ~overlap', ~late'
             PROVE  Reg4Cycle'
  BY DEF Reg4Cycle
<1>0. /\ ~overlap /\ ~late
      /\ UNCHANGED <<pc, acc, rpt, req, port>>
  BY ContextUntouched DEF PowerStep, Observe, Note, contextVars
<1>1. power \in Disabling \cup Gone =>
        \A t \in Reporters : pc[t] \notin Toggle4
  BY <1>0 DEF QuietInv, Quiet, Reporters, Disabling, Listening, Gone, Waking,
              Toggle4
<1>2. Hand4'
  <2>1. CASE UNCHANGED shadow4
    BY <1>0, <2>1 DEF Reg4Cycle, Hand4, Own
  <2>2. CASE power \in Disabling \cup Gone
    BY <1>0, <1>1, <2>2 DEF Hand4, Toggle4, Reporters
  <2>3. power \notin Disabling \cup Gone => UNCHANGED shadow4
    BY EnterMoves, ReturnMoves, LeaveMoves
       DEF PowerStep, PowerDown, DisableLoad, DisableStore, DisableCopy,
           DisableSend, StopQueue, Move, Onward, Gone, Waking, Disabling,
           reg4Vars
  <2> QED BY <2>1, <2>2, <2>3
<1>3. CASE Enter
  <2>1. /\ power = "off" /\ power' \in {"entry5", "failed"}
        /\ "toggle" \in shadow4' /\ (~SpiMayFail => chip4' = shadow4')
    BY <1>3, EnterMoves DEF Onward, Written4
  <2>2. carried' = (port.event = "Attach")
    BY <2>1 DEF PowerStep, Note
  <2>3. port.event \in {"Attach", "Detach"}
    BY DEF CycleKnown, Known, TypeOK, PortOK, PortStates
  <2>4. pc["isr"] = "idle" /\ pc["pmic2"] = "idle"
    BY <2>1 DEF QuietInv, Quiet, Gone, Listening
  <2>5. ~carried' => Bit1'
    BY <1>0, <2>1, <2>2, <2>3 DEF Bit1
  <2>6. carried' => /\ "toggle" \in shadow4' /\ port'.event = "Attach"
                    /\ \A t \in {"isr", "pmic2"} : pc'[t] \notin Busy4
    BY <1>0, <2>1, <2>2, <2>4 DEF Busy4, Toggle4
  <2>7. Chip4'
    BY <2>1 DEF Chip4
  <2> QED BY <1>2, <2>1, <2>5, <2>6, <2>7 DEF Reg4Cycle
<1>4. CASE ~Enter
  <2>1. power # "off"
    BY <1>4, ReturnMoves, LeaveMoves
       DEF PowerStep, PowerDown, DisableLoad, DisableStore, DisableCopy,
           DisableSend, StopQueue, Move, Onward
  <2>2. carried' <=> carried
    <3>1. carried' = (carried /\ pc'["isr"] # "store" /\ pc'["pmic2"] # "store")
      BY <2>1 DEF PowerStep, Note
    <3> QED BY <1>0, <3>1 DEF Reg4Cycle, Busy4
  <2>3. \/ UNCHANGED shadow4
        \/ power = "store4" /\ power' = "copy4" /\ shadow4' = accP
        \/ /\ power = "enable4" /\ power' \in {"enable5", "failed"}
           /\ shadow4' = shadow4 \cup {"irq"}
    BY <1>4, ReturnMoves, LeaveMoves
       DEF PowerStep, PowerDown, DisableLoad, DisableStore, DisableCopy,
           DisableSend, StopQueue, Move, Onward, Written5, Unwritten, reg4Vars
  <2>4. ("toggle" \in shadow4') = ("toggle" \in shadow4)
    <3>1. CASE UNCHANGED shadow4
      BY <3>1
    <3>2. CASE power = "store4" /\ shadow4' = accP
      BY <1>0, <3>2 DEF Reg4Cycle
    <3>3. CASE shadow4' = shadow4 \cup {"irq"}
      BY <3>3
    <3> QED BY <2>3, <3>1, <3>2, <3>3
  <2>5. /\ ~carried' => Bit1'
        /\ carried' => /\ "toggle" \in shadow4' /\ port'.event = "Attach"
                       /\ \A t \in {"isr", "pmic2"} : pc'[t] \notin Busy4
    BY <1>0, <2>2, <2>4 DEF Reg4Cycle, Bit1
  <2>6. /\ power' = "store4" => accP' = shadow4' \ {"irq"}
        /\ power' = "send4" => accP' = shadow4'
        /\ power' \in {"on", "stopping", "enable5", "enable7"}
             => "irq" \in shadow4'
        /\ power' \notin {"copy4", "send4", "off"} => Chip4'
    <3> USE DEF Chip4
    <3>1. CASE Return
      BY <1>0, <3>1, ReturnMoves
         DEF Reg4Cycle, Onward, Written4, Written5, Unwritten
    <3>2. CASE Leave
      BY <3>2, LeaveMoves
    <3>3. CASE DisableLoad \/ DisableStore \/ DisableCopy \/ StopQueue
      BY <1>0, <3>3 DEF Reg4Cycle, DisableLoad, DisableStore, DisableCopy,
         StopQueue, Move, reg4Vars
    <3>4. CASE DisableSend
      BY <1>0, <3>4 DEF Reg4Cycle, DisableSend, Move
    <3> QED BY <1>4, <3>1, <3>2, <3>3, <3>4 DEF PowerStep, PowerDown
  <2> QED BY <1>2, <2>5, <2>6 DEF Reg4Cycle
<1> QED BY <1>3, <1>4

LEMMA Reg4CycleInvariance == CycleSpec => []Reg4Cycle
<1>1. CycleInit => Reg4Cycle
  BY Reg4Initially DEF CycleInit, Init, Reg4Cycle
<1>2. CycleKnown /\ QuietInv /\ Reg4Cycle /\ [CycleNext]_cycleVars
        => Reg4Cycle'
  <2>1. UNCHANGED cycleVars /\ Reg4Cycle => Reg4Cycle'
    BY DEF cycleVars, vars, powerVars, ghostVars, Reg4Cycle, Hand4, Own, Bit1,
           Chip4
  <2> QED BY <2>1, KindsOfStep, DriverKeepsReg4, PowerKeepsReg4
<1> QED BY <1>1, <1>2, CycleKnowledge, Quietness, PTL DEF CycleSpec

\* Whoever comes back to D0 hears the interrupt, and with a working bus both
\* shadows are again what the chip has.
THEOREM EveryCycleInStep == CycleSpec => []BackInStep
<1>1. Reg4Cycle /\ Reg5Cycle => BackInStep
  BY DEF Reg4Cycle, Chip4, Reg5Cycle, BackInStep
<1> QED BY <1>1, Reg4CycleInvariance, Reg5CycleInvariance, PTL

\* The toggle bit follows the port through every change of power, but for the
\* one that D0 entry sets with a cable attached.
THEOREM ToggleSurvives == CycleSpec => []ToggleAcrossPower
<1>1. Reg4Cycle => ToggleAcrossPower
  BY DEF Reg4Cycle, Bit1, ToggleAcrossPower
<1> QED BY <1>1, Reg4CycleInvariance, PTL
-----------------------------------------------------------------------------
(***************************************************************************)
(* A source is powered.                                                    *)
(***************************************************************************)
LEMMA FinishedStore ==
  ASSUME Known, ~overlap, NEW t \in {"isr", "pmic2"}, Store(t), pc'[t] # "store"
  PROVE  port'.event = rpt[t].event /\ port'.partner = rpt[t].partner
<1>1. PICK f \in PortFields :
        /\ pc[t] = "store"
        /\ pc' = [pc EXCEPT ![t] = IF todo[t] = {f} THEN "load4" ELSE "store"]
        /\ port' = [port EXCEPT ![f] = rpt[t][f]]
  BY DEF Store, StoreField, Step
<1>2. todo[t] = {f}
  BY <1>1 DEF Known, TypeOK, ControlOK, Threads
<1>3. port \in PortStates /\ rpt[t] \in PortStates
  BY DEF Known, TypeOK, PortOK, Reporters
<1>4. \A g \in PortFields \ todo[t] : port[g] = rpt[t][g]
  BY <1>1 DEF Known, KnowledgeInv, StoringInv, Storing
<1> QED BY <1>1, <1>2, <1>3, <1>4 DEF PortStates, PortFields

LEMMA StoreIsFinished ==
  ASSUME CycleKnown, DriverStep, NEW t \in {"isr", "pmic2"},
         pc[t] = "store", pc'[t] # "store"
  PROVE  Store(t)
<1>0. /\ pc \in [Threads -> UNION {Labels(s) : s \in Threads}]
      /\ t \in Threads /\ t # "ioctl" /\ t # "writer" /\ t # "pmic1"
  BY DEF CycleKnown, Known, TypeOK, ControlOK, Threads
<1> USE <1>0 DEF Threads
<1>1. CASE Arrive /\ Admitted
  BY <1>1 DEF Arrive, IsrArrive, PmicInterrupt1Isr, Pmic2Arrive, IoctlArrive,
     IoctlNotify, WriteArrive, WriteNothing, ReadArrive, syncVars, Step
<1>2. CASE (IsrPortNext \/ IsrPdNext) /\ t = "isr"
  BY <1>2 DEF IsrPortNext, IsrPdNext, IsrAcquire, IsrStatus, IsrPort, IsrVConn,
     IsrRole, IsrCheck, Report, Toggle, ToggleReg4, Load4, Store4, Copy4,
     IsrSend, IsrLevel, IsrLevelReport, IsrLevelStore, IsrAck,
     ProcessIncomingPdMessage, IncomingMessage, SetEvent,
     SynchronizeIncomingMessageSize, NoAnswerYet, Step, Acquire, Release
<1>3. CASE Pmic2Next /\ t = "pmic2"
  BY <1>3 DEF Pmic2Next, Pmic2Acquire, Pmic2Detach, Pmic2Nothing, Report,
     Toggle, ToggleReg4, Load4, Store4, Copy4, Pmic2Send, Step, Acquire, Release
<1>4. ASSUME NEW s \in Threads \ {t}, Moves(s)
      PROVE  FALSE
  BY <1>4 DEF Moves
<1> QED BY <1>1, <1>2, <1>3, <1>4, MoversOfSteps DEF CycleKnown, Known, TypeOK

LEMMA RequestsAreOurs ==
  ASSUME CycleKnown, DriverStep, RoleIsOurs, req.op \notin {"powerRole", "vconn"}
  PROVE  req'.op \notin {"powerRole", "vconn"}
<1>1. CASE UNCHANGED req
  BY <1>1
<1>2. CASE IoctlArrive
  <2>1. req' \in Requests
    BY <1>2 DEF IoctlArrive
  <2> QED BY <2>1 DEF RoleIsOurs
<1>3. CASE IoctlRun
  <2>1. req' = req \/ req' = NoRequest
    BY <1>3 DEF IoctlRun, IoctlNext, IoctlAcquire, IoctlRefuse, GetStateStart,
       GetStateRead, GetStateReply, SetPortDataRole, IoctlReportNewPowerRole,
       IoctlSetVConnRoleSwitch, PdEnableStart, PdEnable, PdEnableSend,
       IoctlExecuteHardReset, Completed
  <2> QED BY <2>1 DEF NoRequest
<1> QED BY <1>1, <1>2, <1>3, DriverIsNext, RequestWriters
        DEF CycleKnown, Known, TypeOK

\* Bits 0 and 5 of Register 5 are the interrupt handler's, if no client asks
\* for a role.
LEMMA OthersKeepRoles ==
  ASSUME CycleKnown, QuietInv, Reg5Cycle, DriverStep, ~SpiMayFail,
         req.op \notin {"powerRole", "vconn"}, ~IsrVConn, ~IsrRole
  PROVE  /\ "vconn" \in chip5' <=> "vconn" \in chip5
         /\ "power" \in chip5' <=> "power" \in chip5
<1>1. CASE UNCHANGED reg5Vars
  BY <1>1 DEF reg5Vars
<1>2. ASSUME Pmic1Run \/ Pmic2Detach \/ SetPortDataRole
      PROVE  chip5 = shadow5
  <2>1. pc["pmic1"] # "idle" \/ pc["pmic2"] # "idle" \/ pc["ioctl"] # "idle"
    BY <1>2 DEF Pmic1Run, Pmic2Detach, SetPortDataRole, Completed, Release
  <2> QED BY <2>1 DEF QuietInv, Quiet, Gone, Waking, Reg5Cycle
<1>3. CASE Pmic1Run
  BY <1>2, <1>3 DEF Pmic1Run, WriteReg5, Sent, With
<1>4. CASE Pmic2Detach
  BY <1>2, <1>4 DEF Pmic2Detach, WriteReg5, Sent, With
<1>5. CASE SetPortDataRole
  BY <1>2, <1>5 DEF SetPortDataRole, WriteReg5, Sent, With
<1>6. ~IoctlReportNewPowerRole /\ ~IoctlSetVConnRoleSwitch
  BY DEF IoctlReportNewPowerRole, IoctlSetVConnRoleSwitch
<1> QED BY <1>1, <1>3, <1>4, <1>5, <1>6, DriverIsNext, Reg5Writers

\* While the handler is elsewhere.
LEMMA OthersKeepSource ==
  ASSUME CycleKnown, QuietInv, Reg5Cycle, SourceInv, DriverStep, QuietInv',
         UNCHANGED IsrOwn \/ IsrArrive
  PROVE  SourceInv'
<1> SUFFICES ASSUME ~SpiMayFail, ~overlap', RoleIsOurs
             PROVE  SourceInv'
  BY DEF SourceInv
<1>0. /\ ~overlap /\ power' = power
      /\ carried' <=> carried /\ pc'["isr"] # "store" /\ pc'["pmic2"] # "store"
      /\ pc \in [Threads -> UNION {Labels(s) : s \in Threads}]
      /\ "isr" \in Threads
      /\ port \in PortStates /\ rpt["pmic2"] = DetachedPort
  BY DEF DriverStep, Observe, Note, powerVars, CycleKnown, Known, TypeOK,
         ControlOK, PortOK, Threads
<1>1. /\ req.op \notin {"powerRole", "vconn"}
      /\ SourcePort /\ SourceLooked /\ SourceVConn /\ SourceGone /\ SourceAsleep
  BY <1>0 DEF SourceInv
<1>2. req'.op \notin {"powerRole", "vconn"}
  BY <1>1, RequestsAreOurs
<1>3. /\ ~IsrVConn /\ ~IsrRole /\ ~IsrLevelStore
      /\ pc["isr"] = "store" => pc'["isr"] = "store"
      /\ ~Store("isr")
  <2>1. pc'["isr"] = pc["isr"] \/ pc["isr"] = "idle"
    BY DEF IsrOwn, IsrArrive, Step
  <2>2. todo' = todo \/ todo'["isr"] = todo["isr"]
    BY DEF IsrOwn, IsrArrive, portVars
  <2>3. ~Store("isr")
    BY <2>2 DEF Store, StoreField, Step, CycleKnown, Known, TypeOK, PortOK,
                Reporters
  <2> QED BY <1>0, <2>1, <2>3 DEF IsrVConn, IsrRole, IsrLevelStore, Step
<1>4. /\ "vconn" \in chip5' <=> "vconn" \in chip5
      /\ "power" \in chip5' <=> "power" \in chip5
  BY <1>1, <1>3, OthersKeepRoles
<1>5. UNCHANGED port \/ (Store("pmic2") /\ port'.event \in {port.event, "Detach"})
  <2>1. CASE Store("pmic2")
    <3>1. PICK f \in PortFields : port' = [port EXCEPT ![f] = rpt["pmic2"][f]]
      BY <2>1 DEF Store, StoreField
    <3>2. CASE f = "event"
      BY <1>0, <2>1, <3>1, <3>2 DEF PortStates, DetachedPort
    <3>3. CASE f # "event"
      BY <1>0, <2>1, <3>1, <3>3 DEF PortStates, PortFields
    <3> QED BY <3>2, <3>3
  <2> QED BY <1>3, <2>1, DriverIsNext, PortWriters
<1>6. port.event = "Detach" => port'.event = "Detach"
  BY <1>5
<1>7. pc'["isr"] \notin {"idle", "wait"} => UNCHANGED IsrOwn
  BY <1>0 DEF IsrArrive, Step
<1>8. SourceLooked' /\ SourceVConn' /\ SourceGone'
  BY <1>1, <1>4, <1>6, <1>7
     DEF SourceLooked, SourceVConn, SourceGone, IsrOwn, Looking, On5, Toggle4
<1>9. SourcePort'
  <2> SUFFICES ASSUME power \in Connected, ~carried', Storers', Sourced(port')
               PROVE  On5'
    BY <1>0 DEF SourcePort
  <2>1. ~carried
    BY <1>0 DEF Storers, Storing
  <2>2. CASE pc["pmic2"] = "store"
    <3>1. Store("pmic2") /\ pc'["pmic2"] # "store"
      BY <2>2, StoreIsFinished DEF Storers, Storing
    <3>2. port'.event = "Detach"
      BY <1>0, <3>1, FinishedStore DEF CycleKnown, DetachedPort
    <3> QED BY <3>2 DEF Sourced
  <2>3. CASE pc["pmic2"] # "store"
    <3>1. UNCHANGED port
      BY <1>5, <2>3 DEF Store, Step
    <3>2. Storers
      BY <1>3, <2>3 DEF Storers, Storing
    <3> QED BY <1>1, <1>4, <2>1, <3>1, <3>2 DEF SourcePort, On5, Sourced
  <2> QED BY <2>2, <2>3
<1>10. SourceAsleep'
  <2> SUFFICES ASSUME power \in Waking, ~carried'
               PROVE  port'.event = "Detach"
    BY <1>0 DEF SourceAsleep
  <2>1. pc'["isr"] = "idle" /\ pc'["pmic2"] = "idle"
    BY <1>0 DEF QuietInv, Quiet, Gone, Waking, Listening
  <2> QED BY <1>0, <1>1, <1>6, <2>1 DEF SourceAsleep
<1> QED BY <1>2, <1>8, <1>9, <1>10 DEF SourceInv

LEMMA PortForSource ==
  ASSUME NEW role, NEW r7
  PROVE  /\ Sourced(PortFor(role, r7)) => role \in SourceRoles
         /\ role \in SourceRoles => PortFor(role, r7).event = "Attach"
  BY DEF PortFor, Sourced, SourceRoles, AttachRoles, RolePartner, DetachedPort

LEMMA IsrKeepsSource ==
  ASSUME CycleKnown, QuietInv, Reg5Cycle, SourceInv, DriverStep, IsrRun
  PROVE  SourceInv'
<1> SUFFICES ASSUME ~SpiMayFail, ~overlap', RoleIsOurs
             PROVE  SourceInv'
  BY DEF SourceInv
<1>0. /\ ~overlap /\ power' = power
      /\ carried' <=> carried /\ pc'["isr"] # "store" /\ pc'["pmic2"] # "store"
      /\ pc \in [Threads -> UNION {Labels(s) : s \in Threads}]
      /\ "isr" \in Threads /\ "pmic2" \in Threads /\ "isr" \in Reporters
      /\ port \in PortStates /\ rpt \in [Reporters -> PortStates]
  BY DEF DriverStep, Observe, Note, powerVars, CycleKnown, Known, TypeOK,
         ControlOK, PortOK, Threads, Reporters
<1>1. /\ req.op \notin {"powerRole", "vconn"}
      /\ SourcePort /\ SourceLooked /\ SourceVConn /\ SourceGone
  BY <1>0 DEF SourceInv
<1>2. req'.op \notin {"powerRole", "vconn"}
  BY <1>1, RequestsAreOurs
<1>3. pc["isr"] # "idle" /\ pc'["pmic2"] = pc["pmic2"]
  BY <1>0 DEF IsrRun, IsrPortNext, IsrPdNext, IsrAcquire, IsrStatus, IsrPort,
     IsrVConn, IsrRole, IsrCheck, Report, Store, Toggle, ToggleReg4, Load4,
     Store4, Copy4, IsrSend, IsrLevel, IsrLevelReport, IsrLevelStore, IsrAck,
     ProcessIncomingPdMessage, IncomingMessage, SetEvent,
     SynchronizeIncomingMessageSize, NoAnswerYet, Step, Acquire, Release
<1>4. SourceAsleep'
  BY <1>0, <1>3 DEF SourceAsleep, QuietInv, Waking, Listening
<1>5. SUFFICES SourcePort' /\ SourceLooked' /\ SourceVConn' /\ SourceGone'
  BY <1>2, <1>4 DEF SourceInv
\* What a step leaves as it is if it is not a store.
<1>6. ASSUME UNCHANGED <<port.event, port.partner>>, On5 => On5',
             pc["isr"] # "store"
      PROVE  SourcePort'
  BY <1>0, <1>1, <1>3, <1>6 DEF SourcePort, Sourced, Storers, Storing
<1> USE <1>0, <1>1 DEF SourceLooked, SourceVConn, SourceGone, Looking, Toggle4,
                       On5, portVars, reg5Vars
<1>7. CASE IsrVConn
  <2>1. SourcePort'
    <3>1. CASE Attaching
      BY <1>6, <1>7, <3>1 DEF IsrVConn, SetVConn, SetBit5, WriteReg5, Sent,
         With, Step
    <3>2. CASE ~Attaching
      <4>1. port'.event = "Detach"
        BY <1>7, <3>2 DEF IsrVConn, Attaching, Step, PortStates
      <4> QED BY <4>1 DEF SourcePort, Sourced
    <3> QED BY <3>1, <3>2
  <2>2. SourceVConn'
    BY <1>7 DEF IsrVConn, SetVConn, SetBit5, WriteReg5, Sent, With, Attaching
  <2> QED BY <1>7, <2>1, <2>2 DEF IsrVConn, Step
<1>8. CASE IsrRole
  <2>1. SourcePort'
    <3>1. CASE Attaching
      BY <1>6, <1>8, <3>1 DEF IsrRole, SetPowerRole, SetBit5, WriteReg5, Sent,
         With, Step
    <3>2. CASE ~Attaching
      <4>1. port'.event = "Detach"
        BY <1>8, <3>2 DEF IsrRole, Attaching, Step, PortStates
      <4> QED BY <4>1 DEF SourcePort, Sourced
    <3> QED BY <3>1, <3>2
  <2>2. SourceLooked'
    BY <1>8 DEF IsrRole, SetPowerRole, SetBit5, WriteReg5, Sent, With,
       Attaching, Step, Sourced
  <2> QED BY <1>8, <2>1, <2>2 DEF IsrRole, Step
<1>9. CASE IsrPort
  <2>1. SourcePort'
    BY <1>6, <1>9 DEF IsrPort, Step
  <2>2. PICK r7 \in Registers7 :
          /\ rpt'["isr"] = PortFor(r2.state, r7)
          /\ pc'["isr"] = AfterPort(r2.state)
    BY <1>9 DEF IsrPort, Step
  <2> QED BY <2>1, <2>2, PortForSource DEF AfterPort
<1>10. CASE Store("isr")
  <2>1. /\ pc["isr"] = "store" /\ pc'["isr"] \in {"store", "load4"}
        /\ UNCHANGED <<rpt, chip5>>
    BY <1>10 DEF Store, Step
  <2>2. pc'["isr"] = "load4" => /\ port'.event = rpt["isr"].event
                                /\ port'.partner = rpt["isr"].partner
    BY <1>10, FinishedStore DEF CycleKnown
  <2> QED BY <2>1, <2>2 DEF SourcePort, Sourced, Storers, Storing
<1>11. CASE IsrLevelStore
  BY <1>6, <1>11 DEF IsrLevelStore, Step, PortStates
<1>12. CASE IsrLevel
  <2>1. SourcePort'
    BY <1>6, <1>12 DEF IsrLevel, Step
  <2> QED BY <1>12, <2>1 DEF IsrLevel, AfterLevel, Step
<1>13. CASE IsrCheck \/ Report("isr") \/ Toggle("isr") \/ IsrSend
  <2>1. SourcePort'
    BY <1>6, <1>13 DEF IsrCheck, Report, Toggle, ToggleReg4, Load4, Store4,
       Copy4, IsrSend, Step
  <2> QED BY <1>13, <2>1 DEF IsrCheck, Report, Toggle, ToggleReg4, Load4,
          Store4, Copy4, IsrSend, Attaching, Step
<1>14. CASE \/ IsrAcquire \/ IsrStatus \/ IsrLevelReport \/ IsrAck
            \/ IsrPdNext
  <2>1. /\ UNCHANGED <<port, chip5>> /\ pc["isr"] # "store"
        /\ pc'["isr"] \notin Looking \cup Toggle4 \cup {"role", "vconn"}
    BY <1>14 DEF IsrAcquire, IsrStatus, IsrLevelReport, IsrAck, IsrPdNext,
       ProcessIncomingPdMessage, IncomingMessage, SetEvent,
       SynchronizeIncomingMessageSize, NoAnswerYet, Step, Acquire, Release,
       portSide
  <2> QED BY <1>6, <2>1
<1> QED BY <1>7, <1>8, <1>9, <1>10, <1>11, <1>12, <1>13, <1>14
        DEF IsrRun, IsrPortNext

LEMMA PowerKeepsSource ==
  ASSUME CycleKnown, QuietInv, SourceInv, PowerStep
  PROVE  SourceInv'
<1> SUFFICES ASSUME ~SpiMayFail, ~overlap', RoleIsOurs
             PROVE  SourceInv'
  BY DEF SourceInv
<1>0. /\ ~overlap /\ UNCHANGED <<pc, port, rpt, req>> /\ QuietInv'
      /\ port.event \in {"Attach", "Detach"}
  BY ContextUntouched, PowerKeepsQuiet
     DEF PowerStep, Observe, contextVars, CycleKnown, Known, TypeOK, PortOK,
         PortStates
<1>1. /\ req.op \notin {"powerRole", "vconn"}
      /\ SourcePort /\ SourceLooked /\ SourceVConn /\ SourceGone /\ SourceAsleep
  BY <1>0 DEF SourceInv
<1>2. \/ Enter \/ Return \/ Leave
      \/ power \in Connected /\ power' \in Connected /\ UNCHANGED chip5
  BY DEF PowerStep, PowerDown, DisableLoad, DisableStore, DisableCopy,
         DisableSend, StopQueue, Move, Connected, Listening, Disabling, reg5Vars
<1>3. CASE Enter
  <2>1. power = "off" /\ power' = "entry5"
    BY <1>3, EnterMoves DEF Onward
  <2>2. ~carried' => port.event = "Detach"
    BY <1>0, <2>1 DEF PowerStep, Note
  <2>3. pc["isr"] = "idle"
    BY <2>1 DEF QuietInv, Listening
  <2> QED BY <1>0, <1>1, <2>1, <2>2, <2>3
          DEF SourceInv, SourcePort, SourceLooked, SourceVConn, SourceGone,
              SourceAsleep, Connected, Listening, Disabling, Looking, Toggle4
<1>4. CASE Return
  <2>1. power \in Waking /\ power' \in Waking \cup {"on"}
    BY <1>4, ReturnMoves DEF Onward, Waking
  <2>2. pc["isr"] = "idle" /\ pc["pmic2"] = "idle"
    BY <2>1 DEF QuietInv, Listening, Gone, Waking, Quiet
  <2>3. ~carried' => port.event = "Detach"
    BY <1>0, <1>1, <2>1, <2>2 DEF PowerStep, Note, SourceAsleep, Waking
  <2> QED BY <1>0, <1>1, <2>2, <2>3
          DEF SourceInv, SourcePort, SourceLooked, SourceVConn, SourceGone,
              SourceAsleep, Sourced, Looking, Toggle4
<1>5. CASE Leave
  <2>1. pc["isr"] = "idle" /\ power' = "off"
    BY <1>5, LeaveMoves
  <2> QED BY <1>0, <1>1, <2>1
          DEF SourceInv, SourcePort, SourceLooked, SourceVConn, SourceGone,
              SourceAsleep, Connected, Listening, Disabling, Waking, Looking,
              Toggle4
<1>6. CASE power \in Connected /\ power' \in Connected /\ UNCHANGED chip5
  <2>1. Storers /\ ~carried' => ~carried
    BY <1>0, <1>6
       DEF PowerStep, Note, Connected, Listening, Disabling, Storers, Storing
  <2> QED BY <1>0, <1>1, <1>6, <2>1
          DEF SourceInv, SourcePort, SourceLooked, SourceVConn, SourceGone,
              SourceAsleep, Storers, Storing, On5, Connected, Listening,
              Disabling, Waking
<1> QED BY <1>2, <1>3, <1>4, <1>5, <1>6

LEMMA SourceInvariance == CycleSpec => []SourceInv
<1>1. CycleInit => SourceInv
  BY DEF CycleInit, Init, SourceInv, SourcePort, SourceLooked, SourceVConn,
         SourceGone, SourceAsleep, Sourced, Looking, Toggle4, Waking, NoRequest,
         DetachedPort, Threads
<1>2. CycleKnown /\ QuietInv /\ QuietInv' /\ Reg5Cycle /\ SourceInv
        /\ [CycleNext]_cycleVars => SourceInv'
  <2> SUFFICES ASSUME CycleKnown, QuietInv, QuietInv', Reg5Cycle, SourceInv,
                      [CycleNext]_cycleVars
               PROVE  SourceInv'
    OBVIOUS
  <2>1. CASE DriverStep
    <3>1. \/ UNCHANGED IsrOwn \/ IsrArrive \/ IsrRun
      BY <2>1, DriverIsNext, IsrWriters DEF CycleKnown, Known, TypeOK
    <3> QED BY <2>1, <3>1, OthersKeepSource, IsrKeepsSource
  <2>2. CASE PowerStep
    BY <2>2, PowerKeepsSource
  <2>3. CASE UNCHANGED cycleVars
    BY <2>3 DEF cycleVars, vars, powerVars, ghostVars, SourceInv, SourcePort,
       SourceLooked, SourceVConn, SourceGone, SourceAsleep, Storers, Storing,
       On5, RoleIsOurs
  <2> QED BY <2>1, <2>2, <2>3, KindsOfStep
<1> QED BY <1>1, <1>2, CycleKnowledge, Quietness, Reg5CycleInvariance, PTL
        DEF CycleSpec

\* With a working bus and no client that decides the roles, a port attached to
\* a Ufp is powered and gets VConn, whatever the device's power did before the
\* cable came and whatever other cable states are reported while it is there.
THEOREM SourcesArePowered == CycleSpec => []SourceIsPowered
<1>1. SourceInv => SourceIsPowered
  BY DEF SourceInv, SourceIsPowered, SourcePort, Settled, Storers, Storing,
         Sourced, On5, Connected, Listening, RoleIsOurs
<1> QED BY <1>1, SourceInvariance, PTL
-----------------------------------------------------------------------------
(***************************************************************************)
(* The port and the cable. Whatever Register 2 said when it was read stays *)
(* in it until the handler clears it, or the cable has changed meanwhile;  *)
(* and before it is cleared it has been stored.                            *)
(***************************************************************************)
Pending2 == {"port", "pd", "pdSignal", "size", "sizeSignal"} \cup Applying
              \cup Levelling
Afterwards == Toggle4 \cup Levelling \cup (Answering \ {"ack"})
Detaching == pc["isr"] \in {"vconn", "role"} /\ rpt["isr"].event = "Detach"

\* The port is the one that a cable state stands for.
Matches(role) ==
  /\ port.event = EventOf(role)
  /\ role \in AttachRoles /\ ~oldKind => port.partner = RolePartner(role)

ChipAsks == /\ cable \in Roles /\ chip2 \in Roles \cup {0}
            /\ lost \in BOOLEAN /\ oldKind \in BOOLEAN
            /\ pc["isr"] # "idle" => chip2 # 0
            /\ ~lost => chip2 \in {0, cable}
StatusRead == /\ r2.state \in Roles \cup {0}
              /\ pc["isr"] \in {"idle", "wait", "status"} => r2.state = 0
              /\ pc["isr"] \in Pending2 => /\ r2.state \in Roles
                                           /\ lost => chip2 = r2.state
CableReported ==
  pc["isr"] \in Applying \cup Levelling =>
    /\ rpt["isr"].event = EventOf(r2.state)
    /\ r2.state \in AttachRoles => rpt["isr"].partner = RolePartner(r2.state)
CableStored ==
  ~overlap =>
    /\ pc["isr"] \in Looking => pc["pmic2"] \notin Unlocked
    /\ \/ pc["isr"] \in Afterwards
       \/ Detaching
       \/ pc["isr"] = "ack" /\ ~lost /\ r2.state # 0
       => Matches(r2.state) /\ pc["pmic2"] \notin Unlocked
DetachIsPmics ==
  /\ ~overlap
  /\ \/ pc["pmic2"] \in Toggle4
     \/ pc["pmic2"] = "store" /\ "event" \notin todo["pmic2"]
  => detacher = "pmic2"
CableMatched ==
  /\ ~overlap /\ chip2 = 0 /\ ~lost
  /\ detacher = "isr" /\ pc["pmic2"] \notin Unlocked
  => Matches(cable)

CableInv == /\ ChipAsks /\ StatusRead /\ CableReported /\ CableStored
            /\ DetachIsPmics /\ CableMatched
-----------------------------------------------------------------------------
LEMMA SideIsCycle ==
  ASSUME [SideNext]_cableVars
  PROVE  [CycleNext]_cycleVars
  BY DEF SideNext, cableVars, CableChanges, ChipRepeats, Arrives, IsrSide,
         ReadsStatus, ReadsInVain, Checks, Acknowledges, Handles, RestOfDriver,
         ChangesPower, CycleNext

LEMMA SideRefinesCycle == SideSpec => CycleSpec
<1>1. SideInit => CycleInit
  BY DEF SideInit
<1> QED BY <1>1, SideIsCycle, PTL DEF SideSpec, CycleSpec

\* Whose step it is, and what becomes of Register 2 in it.
LEMMA KindsOfSide ==
  ASSUME ControlOK, PortOK, SideNext
  PROVE  \/ (CableChanges \/ ChipRepeats)
         \/ /\ DriverStep /\ UNCHANGED sideVars
            /\ UNCHANGED IsrOwn \/ (IsrArrive /\ chip2 # 0)
         \/ DriverStep /\ IsrRun /\ IsrSide
         \/ /\ PowerStep /\ UNCHANGED <<cable, oldKind>>
            /\ \/ UNCHANGED <<chip2, lost>>
               \/ power \in {"enable2", "leave"} /\ (Leave \/ Return) /\ Clear(0)
<1>1. CASE Arrives
  <2>1. DriverStep
    BY <1>1 DEF Arrives, ArriveWork, Work, DriverStep
  <2>2. Arrive
    BY <1>1 DEF Arrives, ArriveWork, Work
  <2>3. IsrArrive => chip2 # 0
    BY <1>1 DEF Arrives, Line, IsrArrive, Step, ControlOK, Threads
  <2>4. IsrArrive \/ UNCHANGED IsrOwn
    BY <2>2 DEF Arrive, PmicInterrupt1Isr, Pmic2Arrive, IoctlArrive,
       IoctlNotify, WriteArrive, WriteNothing, ReadArrive, portSide, idleVars,
       syncVars, Step, ControlOK, PortOK, Threads, Reporters, IsrOwn, portVars
  <2> QED BY <1>1, <2>1, <2>3, <2>4 DEF Arrives
<1>2. CASE IsrSide
  <2>1. IsrWork
    BY <1>2 DEF IsrSide, ReadsStatus, ReadsInVain, Checks, Acknowledges, Handles
  <2> QED BY <1>2, <2>1 DEF IsrWork, Work, DriverStep, IsrRun
<1>3. CASE /\ Pmic1Work \/ Pmic2Work \/ IoctlWork \/ WriterWork
           /\ UNCHANGED sideVars
  <2>1. DriverStep /\ (Pmic1Go \/ Pmic2Run \/ IoctlRun \/ WriterRun)
    BY <1>3 DEF Pmic1Work, Pmic2Work, IoctlWork, WriterWork, Work, DriverStep,
                Pmic1Go, Pmic2Run, IoctlRun, WriterRun
  <2> QED BY <1>3, <2>1, OthersLeaveIsr
<1>4. CASE Power(StopQueue) /\ UNCHANGED sideVars
  BY <1>4 DEF Power, PowerStep, sideVars
<1>5. CASE ChangesPower
  <2>1. PowerStep /\ UNCHANGED <<cable, oldKind>>
    BY <1>5 DEF ChangesPower, PowerWork, Power, PowerStep
  <2>2. power \in {"enable2", "leave"} => Leave \/ Return
    BY <1>5, EnterMoves
       DEF ChangesPower, PowerWork, Power, PowerDown, DisableLoad, DisableStore,
           DisableCopy, DisableSend, Move, Onward
  <2> QED BY <1>5, <2>1, <2>2 DEF ChangesPower
<1> QED BY <1>1, <1>2, <1>3, <1>4, <1>5 DEF SideNext, RestOfDriver

LEMMA CableMoves ==
  ASSUME CableInv, QuietInv, CableChanges \/ ChipRepeats
  PROVE  CableInv'
<1>1. UNCHANGED vars
  BY DEF CableChanges, ChipRepeats, cycleVars
<1>2. ~Powered => pc["isr"] = "idle"
  BY DEF Powered, QuietInv, Listening
<1>3. /\ ChipAsks' /\ cable' \in Roles
      /\ chip2' = 0 => lost'
      /\ pc["isr"] \in Pending2 => ~lost'
      /\ pc["isr"] = "ack" => (lost' <=> lost)
      /\ oldKind' = oldKind
  BY <1>1, <1>2 DEF CableInv, ChipAsks, CableChanges, ChipRepeats, vars, Roles,
     Pending2, Applying, Looking, Levelling, Toggle4
<1> QED BY <1>1, <1>3
        DEF vars, CableInv, StatusRead, CableReported, CableStored,
            DetachIsPmics, CableMatched, Detaching, Matches

LEMMA PowerKeepsCable ==
  ASSUME CycleKnown, CableInv, QuietInv, PowerStep, UNCHANGED <<cable, oldKind>>,
         \/ UNCHANGED <<chip2, lost>>
         \/ power \in {"enable2", "leave"} /\ (Leave \/ Return) /\ Clear(0)
  PROVE  CableInv'
<1>1. UNCHANGED <<pc, r2, rpt, port, todo, detacher>>
  BY ContextUntouched DEF contextVars
<1>2. overlap => overlap'
  BY DEF PowerStep, Observe
<1>3. \/ UNCHANGED <<chip2, lost>>
      \/ /\ pc["isr"] = "idle"
         /\ chip2' = 0 /\ lost' \in BOOLEAN
         /\ ~lost' => chip2 = 0 /\ ~lost
  <2>1. CASE power \in {"enable2", "leave"} /\ (Leave \/ Return) /\ Clear(0)
    <3>1. pc["isr"] = "idle"
      BY <2>1, LeaveMoves, ReturnMoves DEF Onward, QuietInv, Listening
    <3> QED BY <2>1, <3>1 DEF Clear, CableInv, ChipAsks
  <2> QED BY <2>1
<1>4. ChipAsks'
  BY <1>1, <1>3 DEF CableInv, ChipAsks
<1>5. StatusRead' /\ CableReported'
  BY <1>1, <1>3 DEF CableInv, StatusRead, CableReported, Pending2, Applying,
     Looking, Levelling, Toggle4
<1>6. Matches(r2.state)' = Matches(r2.state) /\ Matches(cable)' = Matches(cable)
  BY <1>1 DEF Matches
<1>7. CableStored'
  BY <1>1, <1>2, <1>3, <1>6 DEF CableInv, CableStored, Detaching
<1>8. DetachIsPmics'
  BY <1>1, <1>2 DEF CableInv, DetachIsPmics
<1>9. CableMatched'
  BY <1>1, <1>2, <1>3, <1>6 DEF CableInv, CableMatched
<1> QED BY <1>4, <1>5, <1>7, <1>8, <1>9 DEF CableInv

LEMMA Pmic2Own ==
  ASSUME CycleKnown, DriverStep
  PROVE  \/ UNCHANGED <<pc["pmic2"], todo["pmic2"]>>
         \/ Pmic2Run
         \/ pc["pmic2"] = "idle" /\ pc'["pmic2"] = "wait"
<1>0. /\ ControlOK /\ todo \in [Reporters -> SUBSET PortFields]
  BY DEF CycleKnown, Known, TypeOK, PortOK
<1> USE <1>0 DEF Reporters, portVars
<1>1. ASSUME NEW t \in Threads \ {"pmic2"}, Moves(t)
      PROVE  pc'["pmic2"] = pc["pmic2"]
  BY <1>1 DEF Moves, Threads
<1>2. CASE Arrive /\ Admitted
  BY <1>2 DEF Arrive, IsrArrive, PmicInterrupt1Isr, Pmic2Arrive, IoctlArrive,
     IoctlNotify, WriteArrive, WriteNothing, ReadArrive, portSide, idleVars,
     syncVars, Step, ControlOK, Threads
<1>3. CASE (IsrPortNext \/ IsrPdNext) /\ Moves("isr")
  <2>1. todo'["pmic2"] = todo["pmic2"]
    BY <1>3 DEF IsrPortNext, IsrPdNext, IsrAcquire, IsrStatus, IsrPort, IsrVConn,
       IsrRole, IsrCheck, Report, StartStore, Store, StoreField, Toggle,
       IsrSend, IsrLevel, IsrLevelReport, IsrLevelStore, IsrAck,
       ProcessIncomingPdMessage, SetEvent, SynchronizeIncomingMessageSize,
       NoAnswerYet, portSide
  <2> QED BY <1>1, <1>3, <2>1 DEF Threads
<1>4. CASE Pmic1Next /\ Moves("pmic1")
  BY <1>1, <1>4 DEF Pmic1Next, Pmic1Start, Pmic1Acquire, Pmic1Run, Threads
<1>5. CASE Pmic2Next
  BY <1>5 DEF Pmic2Run, DriverStep
<1>6. CASE IoctlNext /\ Moves("ioctl")
  <2>1. todo'["pmic2"] = todo["pmic2"]
    BY <1>6 DEF IoctlNext, IoctlAcquire, IoctlRefuse, GetStateStart,
       GetStateRead, GetStateReply, SetPortDataRole, IoctlReportNewPowerRole,
       IoctlSetVConnRoleSwitch, PdEnableStart, PdEnable, PdEnableSend,
       IoctlExecuteHardReset
  <2> QED BY <1>1, <1>6, <2>1 DEF Threads
<1>7. CASE WriterNext /\ Moves("writer")
  BY <1>1, <1>7 DEF WriterNext, WriteReset, WriteClear, WriteAcquire, WriteSend,
     WriteFail, WriteTimeout, WriteAwake, WriteDecide, portSide, Threads
<1> QED BY <1>2, <1>3, <1>4, <1>5, <1>6, <1>7, MoversOfSteps

\* PMIC interrupt 2 does not come to its end without having stored a detach.
LEMMA DetachStaysPmics ==
  ASSUME CycleKnown, CableStored, DetachIsPmics, DriverStep
  PROVE  /\ DetachIsPmics'
         /\ pc["pmic2"] \in Unlocked /\ pc'["pmic2"] \notin Unlocked /\ ~overlap
              => detacher' = "pmic2"
<1> SUFFICES ASSUME ~overlap
             PROVE  /\ DetachIsPmics'
                    /\ pc["pmic2"] \in Unlocked /\ pc'["pmic2"] \notin Unlocked
                         => detacher' = "pmic2"
  BY DEF DetachIsPmics, DriverStep, Observe
<1>0. /\ pc \in [Threads -> UNION {Labels(s) : s \in Threads}]
      /\ "pmic2" \in Threads /\ "pmic2" \in Reporters
      /\ todo \in [Reporters -> SUBSET PortFields]
      /\ rpt["pmic2"].event = "Detach"
  BY DEF CycleKnown, Known, TypeOK, ControlOK, PortOK, Threads, Reporters,
         DetachedPort
<1> USE <1>0 DEF DetachIsPmics, Unlocked, Toggle4
<1>1. CASE UNCHANGED <<pc["pmic2"], todo["pmic2"]>>
  <2>1. UNCHANGED detacher \/ Store("isr") \/ Store("pmic2")
    BY DriverIsNext, PortWriters DEF IsrLevelStore
  <2>2. ~Store("pmic2")
    BY <1>1 DEF Store, StoreField
  <2>3. Store("isr") => pc["pmic2"] \notin Unlocked
    BY DEF CableStored, Looking, Store, Step
  <2> QED BY <1>1, <2>1, <2>2, <2>3
<1>2. CASE Pmic2Run
  <2>1. CASE Store("pmic2")
    <3>1. PICK f \in PortFields :
            /\ pc["pmic2"] = "store"
            /\ pc' = [pc EXCEPT !["pmic2"] = IF todo["pmic2"] = {f} THEN "load4"
                                             ELSE "store"]
            /\ todo' = [todo EXCEPT !["pmic2"] = @ \ {f}]
            /\ detacher' = IF f = "event" THEN "pmic2" ELSE detacher
      BY <2>1 DEF Store, StoreField, Step
    <3> QED BY <3>1
  <2>2. CASE Toggle("pmic2") \/ Pmic2Send
    BY <2>2 DEF Toggle, ToggleReg4, Load4, Store4, Copy4, Pmic2Send, Step,
       portVars
  <2>3. CASE Report("pmic2")
    BY <2>3 DEF Report, StartStore, Step, PortFields
  <2>4. CASE Pmic2Acquire \/ Pmic2Detach \/ Pmic2Nothing
    BY <2>4 DEF Pmic2Acquire, Pmic2Detach, Pmic2Nothing, Acquire, Release
  <2> QED BY <1>2, <2>1, <2>2, <2>3, <2>4 DEF Pmic2Run, Pmic2Next
<1>3. CASE pc["pmic2"] = "idle" /\ pc'["pmic2"] = "wait"
  BY <1>3
<1> QED BY <1>1, <1>2, <1>3, Pmic2Own

\* While the handler is elsewhere.
LEMMA OthersKeepCable ==
  ASSUME CycleKnown, CableInv, DriverStep, UNCHANGED sideVars,
         UNCHANGED IsrOwn \/ (IsrArrive /\ chip2 # 0)
  PROVE  CableInv'
<1>0. /\ pc \in [Threads -> UNION {Labels(s) : s \in Threads}]
      /\ "isr" \in Threads /\ "isr" \in Reporters
      /\ todo \in [Reporters -> SUBSET PortFields]
      /\ overlap => overlap'
  BY DEF CycleKnown, Known, TypeOK, ControlOK, PortOK, Threads, Reporters,
         DriverStep, Observe
<1>1. /\ pc'["isr"] = pc["isr"] \/ (pc["isr"] = "idle" /\ pc'["isr"] = "wait")
      /\ UNCHANGED <<rpt["isr"], r2>>
      /\ pc'["isr"] # "idle" => chip2 # 0
  BY <1>0 DEF IsrOwn, IsrArrive, Step, portVars, CableInv, ChipAsks
<1>2. ChipAsks' /\ StatusRead' /\ CableReported'
  BY <1>1 DEF CableInv, ChipAsks, StatusRead, CableReported, sideVars, Pending2,
     Applying, Looking, Levelling, Toggle4
<1>3. DetachIsPmics'
  BY DetachStaysPmics DEF CableInv
<1>4. UNCHANGED <<port, detacher>> \/ Store("pmic2")
  <2>1. ~IsrLevelStore
    BY <1>0, <1>1 DEF IsrLevelStore, Step
  <2>2. ~Store("isr")
    BY <1>0 DEF Store, StoreField, Step, IsrOwn, IsrArrive, portVars
  <2> QED BY <2>1, <2>2, DriverIsNext, PortWriters
<1>5. pc["isr"] \in Critical["isr"] /\ pc'["pmic2"] \in Unlocked
        => pc["pmic2"] \in Unlocked
  <2>1. pc["isr"] \in Critical["isr"] => UNCHANGED IsrOwn
    BY <1>0 DEF IsrArrive, Step, Critical, Toggle4
  <2> QED BY <2>1, DriverIsNext, Pmic2Writers DEF CycleKnown, Known, TypeOK,
          LockInv
<1>6. ASSUME ~overlap, pc["pmic2"] \notin Unlocked
      PROVE  Matches(r2.state)' = Matches(r2.state)
  BY <1>1, <1>4, <1>6 DEF Store, Step, Unlocked, Matches, sideVars
<1>7. CableStored'
  BY <1>0, <1>1, <1>5, <1>6
     DEF CableInv, CableStored, Detaching, sideVars, Looking, Afterwards,
         Levelling, Answering, Toggle4, Critical
<1>8. CableMatched'
  <2> SUFFICES ASSUME ~overlap, chip2 = 0, ~lost, detacher' = "isr",
                      pc'["pmic2"] \notin Unlocked
               PROVE  Matches(cable)'
    BY <1>0 DEF CableMatched, sideVars
  <2>1. pc["pmic2"] \notin Unlocked
    BY DetachStaysPmics DEF CableInv
  <2>2. UNCHANGED <<port, detacher>>
    BY <1>4, <2>1 DEF Store, Step, Unlocked
  <2> QED BY <2>1, <2>2 DEF CableInv, CableMatched, Matches, sideVars
<1> QED BY <1>2, <1>3, <1>7, <1>8 DEF CableInv

LEMMA PortForCable ==
  ASSUME NEW role \in Roles, NEW r7
  PROVE  /\ AfterPort(role) \in {"vconn", "check"}
         /\ PortFor(role, r7).event = EventOf(role)
         /\ role \in AttachRoles => PortFor(role, r7).partner = RolePartner(role)
         /\ AfterPort(role) = "vconn" => PortFor(role, r7).event = "Attach"
  BY CableAssumption
     DEF Roles, AfterPort, PortFor, EventOf, DetachedPort, SourceRoles,
         AttachRoles, DetachRoles

\* A step of the handler: what it does to Register 2 as the handler and as the
\* cable know it.
LEMMA IsrKeepsStatus ==
  ASSUME CycleKnown, CableInv, DriverStep, IsrRun, IsrSide
  PROVE  ChipAsks' /\ StatusRead'
<1>0. /\ pc \in [Threads -> UNION {Labels(s) : s \in Threads}]
      /\ "isr" \in Threads
      /\ ChipAsks /\ StatusRead
      /\ lost \in BOOLEAN /\ oldKind \in BOOLEAN
  BY DEF CycleKnown, Known, TypeOK, ControlOK, Threads, CableInv, ChipAsks
<1>1. pc["isr"] # "idle"
  BY <1>0 DEF IsrRun, IsrPortNext, IsrPdNext, IsrAcquire, IsrStatus, IsrPort,
     IsrVConn, IsrRole, IsrCheck, Report, Store, Toggle, ToggleReg4, Load4,
     Store4, Copy4, IsrSend, IsrLevel, IsrLevelReport, IsrLevelStore, IsrAck,
     ProcessIncomingPdMessage, IncomingMessage, SetEvent,
     SynchronizeIncomingMessageSize, NoAnswerYet, Step, Acquire, Release
<1> USE <1>0, <1>1 DEF ChipAsks, StatusRead
<1>2. CASE ReadsStatus
  <2>1. IsrStatus
    BY <1>2, LabelsOfThreads DEF ReadsStatus, IsrWork, Work, IsrPortNext,
       IsrPdNext, IsrAcquire, IsrPort, IsrVConn, IsrRole, IsrCheck, Report,
       Store, Toggle, ToggleReg4, Load4, Store4, Copy4, IsrSend, IsrLevel,
       IsrLevelReport, IsrLevelStore, IsrAck, ProcessIncomingPdMessage,
       IncomingMessage, SetEvent, SynchronizeIncomingMessageSize, NoAnswerYet,
       Step, Acquire, Release
  <2> QED BY <1>2, <2>1
          DEF ReadsStatus, IsrStatus, Step, sideVars, Pending2, Applying,
              Looking, Levelling, Toggle4
<1>3. CASE ReadsInVain
  <2>1. UNCHANGED r2
    BY <1>3 DEF ReadsInVain, IsrWork, Work, IsrPortNext, IsrPdNext, IsrAcquire,
       IsrStatus, IsrPort, IsrVConn, IsrRole, IsrCheck, Report, Store, Toggle,
       IsrSend, IsrLevel, IsrLevelReport, IsrLevelStore, IsrAck, Step, Release,
       ProcessIncomingPdMessage, SetEvent, SynchronizeIncomingMessageSize,
       NoAnswerYet, portSide
  <2> QED BY <1>3, <2>1 DEF ReadsInVain, Pending2, Applying, Looking, Levelling,
          Toggle4
<1>4. CASE Checks
  <2>1. UNCHANGED r2 /\ pc'["isr"] \in {"report", "level"}
    BY <1>4 DEF Checks, IsrWork, Work, IsrPortNext, IsrPdNext, IsrAcquire,
       IsrStatus, IsrPort, IsrVConn, IsrRole, IsrCheck, Report, Store, Toggle,
       ToggleReg4, Load4, Store4, Copy4, IsrSend, IsrLevel, IsrLevelReport,
       IsrLevelStore, IsrAck, Step, Acquire, Release, ProcessIncomingPdMessage,
       IncomingMessage, SetEvent, SynchronizeIncomingMessageSize, NoAnswerYet,
       portSide
  <2> QED BY <1>4, <2>1 DEF Checks, Pending2, Applying, Looking, Levelling,
          Toggle4
<1>5. CASE Acknowledges
  <2>1. IsrAck
    BY <1>5, LabelsOfThreads DEF Acknowledges, IsrWork, Work, IsrPortNext,
       IsrPdNext, IsrAcquire, IsrStatus, IsrPort, IsrVConn, IsrRole, IsrCheck,
       Report, Store, Toggle, ToggleReg4, Load4, Store4, Copy4, IsrSend,
       IsrLevel, IsrLevelReport, IsrLevelStore, ProcessIncomingPdMessage,
       IncomingMessage, SetEvent, SynchronizeIncomingMessageSize, NoAnswerYet,
       Step, Acquire, Release
  <2>2. r2' = NoStatus /\ pc'["isr"] = "idle"
    BY <2>1 DEF IsrAck, Release
  <2>3. /\ UNCHANGED <<cable, oldKind>>
        /\ \/ chip2' = 0 /\ lost' \in BOOLEAN
           \/ UNCHANGED <<chip2, lost>>
    BY <1>5 DEF Acknowledges, Clear
  <2>4. StatusRead'
    BY <2>2 DEF NoStatus, Pending2, Applying, Looking, Levelling, Toggle4
  <2> QED BY <2>2, <2>3, <2>4
<1>6. CASE Handles
  <2>1. /\ UNCHANGED <<r2, sideVars>>
        /\ \/ pc["isr"] = "wait" /\ pc'["isr"] = "status"
           \/ pc["isr"] \in Pending2 /\ pc'["isr"] \in Pending2 \cup {"ack"}
    BY <1>6 DEF Handles, IsrWork, Work, IsrPortNext, IsrPdNext, IsrAcquire,
       IsrStatus, IsrPort, AfterPort, IsrVConn, IsrRole, IsrCheck, Report,
       Store, Toggle, ToggleReg4, Load4, Store4, Copy4, IsrSend, IsrLevel,
       AfterLevel, IsrLevelReport, IsrLevelStore, IsrAck, Step, Acquire,
       Release, ProcessIncomingPdMessage, IncomingMessage, SetEvent,
       SynchronizeIncomingMessageSize, NoAnswerYet, portSide, Pending2,
       Applying, Looking, Levelling, Toggle4
  <2> QED BY <2>1 DEF sideVars, Pending2, Applying, Looking, Levelling, Toggle4
<1> QED BY <1>2, <1>3, <1>4, <1>5, <1>6 DEF IsrSide

\* What Register 2 and the two histories do in a step of the handler.
LEMMA SideOfIsr ==
  ASSUME CableInv, IsrSide
  PROVE  /\ cable' = cable
         /\ pc["isr"] # "check" => oldKind' = oldKind
         /\ pc["isr"] = "check" => (oldKind' <=> /\ ~IsNews
                                                 /\ port.partner # rpt["isr"].partner)
         /\ pc["isr"] # "ack" => chip2' = chip2
         /\ pc["isr"] \notin {"port", "check", "ack"} => lost' = lost
         /\ pc["isr"] = "port" /\ pc'["isr"] = "ack" => lost'
         /\ pc["isr"] = "status" /\ pc'["isr"] # "ack" => r2'.state = chip2
         /\ pc["isr"] = "ack" /\ chip2' = 0 /\ ~lost'
              => chip2 = 0 \/ (~lost /\ chip2 = r2.state)
  BY DEF IsrSide, ReadsStatus, ReadsInVain, Checks, Acknowledges, Clear, Handles,
         sideVars, CableInv, ChipAsks

LEMMA IsrKeepsReported ==
  ASSUME CycleKnown, CableInv, DriverStep, IsrRun, IsrSide
  PROVE  CableReported'
<1>0. /\ pc \in [Threads -> UNION {Labels(s) : s \in Threads}]
      /\ "isr" \in Threads /\ "isr" \in Reporters
      /\ rpt \in [Reporters -> PortStates]
      /\ StatusRead /\ CableReported
  BY DEF CycleKnown, Known, TypeOK, ControlOK, PortOK, Threads, Reporters,
         CableInv
<1> USE <1>0 DEF StatusRead, CableReported, Pending2, Applying, Looking,
                 Levelling, Toggle4
<1>1. CASE IsrPort
  <2>1. r2.state \in Roles /\ UNCHANGED r2
    BY <1>1 DEF IsrPort, Step
  <2>2. \/ pc'["isr"] = "ack"
        \/ \E r7 \in Registers7 : rpt'["isr"] = PortFor(r2.state, r7)
    BY <1>1 DEF IsrPort, Step
  <2> QED BY <2>1, <2>2, PortForCable
<1>2. CASE IsrLevel
  BY <1>2 DEF IsrLevel, Step, PortStates
<1>3. CASE \/ IsrVConn \/ IsrRole \/ IsrCheck \/ Report("isr")
           \/ Store("isr") \/ Toggle("isr") \/ IsrSend \/ IsrLevelReport
           \/ IsrLevelStore
  <2>1. UNCHANGED <<rpt, r2>> /\ pc["isr"] \in Applying \cup Levelling
    BY <1>3 DEF IsrVConn, IsrRole, IsrCheck, Report, Store, Toggle, ToggleReg4,
       Load4, Store4, Copy4, IsrSend, IsrLevelReport, IsrLevelStore, Step,
       portVars
  <2> QED BY <2>1
<1>4. CASE IsrAcquire \/ IsrStatus \/ IsrAck \/ IsrPdNext
  <2>1. pc'["isr"] \notin Applying \cup Levelling
    BY <1>4 DEF IsrAcquire, IsrStatus, IsrAck, IsrPdNext,
       ProcessIncomingPdMessage, IncomingMessage, SetEvent,
       SynchronizeIncomingMessageSize, NoAnswerYet, Step, Acquire, Release
  <2> QED BY <2>1
<1> QED BY <1>1, <1>2, <1>3, <1>4 DEF IsrRun, IsrPortNext

LEMMA IsrKeepsStored ==
  ASSUME CycleKnown, CableInv, DriverStep, IsrRun, IsrSide
  PROVE  CableStored' /\ CableMatched'
<1> SUFFICES ASSUME ~overlap'
             PROVE  CableStored' /\ CableMatched'
  BY DEF CableStored, CableMatched
<1>0. /\ pc \in [Threads -> UNION {Labels(s) : s \in Threads}]
      /\ "isr" \in Threads /\ "pmic2" \in Threads /\ "isr" \in Reporters
      /\ port \in PortStates /\ rpt \in [Reporters -> PortStates]
      /\ ~overlap /\ ~Clash'
      /\ ChipAsks /\ StatusRead /\ CableReported /\ CableStored
  BY DEF CycleKnown, Known, TypeOK, ControlOK, PortOK, Threads, Reporters,
         CableInv, IsrRun, Observe
<1>1. pc["isr"] # "idle" /\ pc'["pmic2"] = pc["pmic2"]
  BY <1>0 DEF IsrRun, IsrPortNext, IsrPdNext, IsrAcquire, IsrStatus, IsrPort,
     IsrVConn, IsrRole, IsrCheck, Report, Store, Toggle, ToggleReg4, Load4,
     Store4, Copy4, IsrSend, IsrLevel, IsrLevelReport, IsrLevelStore, IsrAck,
     ProcessIncomingPdMessage, IncomingMessage, SetEvent,
     SynchronizeIncomingMessageSize, NoAnswerYet, Step, Acquire, Release
<1>2. pc'["isr"] \in Looking \cup Toggle4 \cup Levelling
        => pc'["pmic2"] \notin Unlocked
  BY <1>0 DEF Clash, Touching, Looking, Toggle4, Levelling
<1>3. CableMatched'
  <2>1. CASE pc["isr"] # "ack"
    BY <1>0, <1>1, <2>1, SideOfIsr DEF ChipAsks, CableMatched
  <2>2. CASE pc["isr"] = "ack"
    <3> SUFFICES ASSUME chip2' = 0, ~lost'
                 PROVE  Matches(cable)'
      BY DEF CableMatched
    <3>1. ~lost /\ chip2 = r2.state /\ chip2 # 0 /\ chip2 = cable
      BY <1>0, <1>1, <2>2, SideOfIsr DEF ChipAsks
    <3>2. Matches(r2.state)
      BY <1>0, <2>2, <3>1 DEF CableStored
    <3>3. UNCHANGED <<port, cable, oldKind>>
      BY <2>2, SideOfIsr DEF IsrRun, IsrPortNext, IsrPdNext, IsrAcquire,
         IsrStatus, IsrPort, IsrVConn, IsrRole, IsrCheck, Report, Store, Toggle,
         ToggleReg4, Load4, Store4, Copy4, IsrSend, IsrLevel, IsrLevelReport,
         IsrLevelStore, IsrAck, ProcessIncomingPdMessage, IncomingMessage,
         SetEvent, SynchronizeIncomingMessageSize, NoAnswerYet, Step, Acquire,
         Release, portVars
    <3> QED BY <3>1, <3>2, <3>3 DEF Matches
  <2> QED BY <2>1, <2>2
<1>4. SUFFICES CableStored'
  BY <1>3
\* The handler's other steps leave what is stored as it is.
<1>5. ASSUME UNCHANGED <<port.event, port.partner, r2, oldKind>>,
             Matches(r2.state)
      PROVE  Matches(r2.state)'
  BY <1>5 DEF Matches
<1> USE <1>0, <1>1, <1>2 DEF CableStored, Detaching, Looking, Afterwards,
                             Levelling, Answering, Toggle4
<1>6. CASE IsrAcquire
  BY <1>6 DEF IsrAcquire, Acquire
<1>7. CASE IsrStatus
  BY <1>7, SideOfIsr DEF IsrStatus, Step, ChipAsks, StatusRead
<1>8. CASE IsrPort
  <2>1. r2.state \in Roles /\ UNCHANGED r2 /\ pc["isr"] = "port"
    BY <1>8 DEF IsrPort, Step, StatusRead, Pending2
  <2>2. \/ pc'["isr"] = "ack"
        \/ /\ pc'["isr"] = AfterPort(r2.state)
           /\ \E r7 \in Registers7 : rpt'["isr"] = PortFor(r2.state, r7)
    BY <1>8 DEF IsrPort, Step
  <2> QED BY <2>1, <2>2, PortForCable, SideOfIsr
<1>9. CASE IsrVConn
  BY <1>5, <1>9, SideOfIsr DEF IsrVConn, Step, portVars
<1>10. CASE IsrRole
  BY <1>5, <1>10, SideOfIsr DEF IsrRole, Attaching, Step, portVars, PortStates
<1>11. CASE IsrCheck
  <2>1. /\ UNCHANGED <<port, r2>> /\ pc["isr"] = "check"
        /\ pc'["isr"] = IF IsNews THEN "report" ELSE "level"
    BY <1>11 DEF IsrCheck, Step, portVars
  <2>2. ~IsNews => Matches(r2.state)'
    BY <2>1, SideOfIsr DEF IsNews, Matches, CableReported, Applying
  <2> QED BY <2>1, <2>2
<1>12. CASE Report("isr")
  BY <1>12 DEF Report, Step
<1>13. CASE Store("isr")
  <2>1. /\ pc["isr"] = "store" /\ pc'["isr"] \in {"store", "load4"}
        /\ UNCHANGED r2
    BY <1>13 DEF Store, Step
  <2>2. pc'["isr"] = "load4" => /\ port'.event = rpt["isr"].event
                                /\ port'.partner = rpt["isr"].partner
    BY <1>13, FinishedStore DEF CycleKnown
  <2>3. pc'["isr"] = "load4" => Matches(r2.state)'
    BY <2>1, <2>2 DEF Matches, CableReported, Applying
  <2> QED BY <2>1, <2>3
<1>14. CASE Toggle("isr") \/ IsrSend
  <2>1. /\ pc["isr"] \in Toggle4 /\ UNCHANGED <<port, rpt, r2>>
        /\ \/ pc'["isr"] \in Toggle4 \cup {"level"}
           \/ pc'["isr"] = "vconn" /\ ~Attaching
    BY <1>14 DEF Toggle, ToggleReg4, Load4, Store4, Copy4, IsrSend, Step,
       portVars
  <2> QED BY <1>5, <2>1, SideOfIsr
<1>15. CASE IsrLevel \/ IsrLevelReport \/ IsrLevelStore
  <2>1. /\ pc["isr"] \in Levelling
        /\ UNCHANGED <<port.event, port.partner, r2>>
        /\ pc'["isr"] \in {"levelReport", "levelStore", "pd", "ack"}
    BY <1>15 DEF IsrLevel, AfterLevel, IsrLevelReport, IsrLevelStore, Step,
       portVars, PortStates
  <2> QED BY <1>5, <2>1, SideOfIsr
<1>16. CASE IsrAck
  BY <1>16 DEF IsrAck, Release
<1>17. CASE IsrPdNext
  <2>1. /\ pc["isr"] \in Answering \ {"ack"} /\ UNCHANGED <<port, r2>>
        /\ pc'["isr"] \in Answering
    BY <1>17 DEF IsrPdNext, ProcessIncomingPdMessage, IncomingMessage, SetEvent,
       SynchronizeIncomingMessageSize, NoAnswerYet, Step, portSide, portVars
  <2> QED BY <1>5, <2>1, SideOfIsr
<1> QED BY <1>6, <1>7, <1>8, <1>9, <1>10, <1>11, <1>12, <1>13, <1>14, <1>15,
        <1>16, <1>17 DEF IsrRun, IsrPortNext

LEMMA CableInvariance == SideSpec => []CableInv
<1>1. SideInit => CableInv
  <2> SUFFICES ASSUME SideInit
               PROVE  CableInv
    OBVIOUS
  <2>1. /\ \A t \in Threads : pc[t] = "idle"
        /\ port = DetachedPort /\ r2.state = 0
    BY DEF SideInit, CycleInit, Init, NoStatus
  <2>2. /\ cable \in Roles /\ EventOf(cable) = "Detach"
        /\ cable \notin AttachRoles
        /\ chip2 = 0 /\ lost = FALSE /\ oldKind = FALSE
    BY DEF SideInit, EventOf, AttachRoles, DetachRoles
  <2>3. pc["isr"] = "idle" /\ pc["pmic2"] = "idle"
    BY <2>1 DEF Threads
  <2>4. CableMatched
    BY <2>1, <2>2 DEF CableMatched, Matches, DetachedPort
  <2> QED BY <2>1, <2>2, <2>3, <2>4
          DEF CableInv, ChipAsks, StatusRead, CableReported, CableStored,
              DetachIsPmics, Detaching, Pending2, Afterwards, Applying, Looking,
              Levelling, Answering, Toggle4
<1>2. CycleKnown /\ QuietInv /\ CableInv /\ [SideNext]_cableVars => CableInv'
  <2> SUFFICES ASSUME CycleKnown, QuietInv, CableInv, [SideNext]_cableVars
               PROVE  CableInv'
    OBVIOUS
  <2>1. CASE UNCHANGED cableVars
    BY <2>1 DEF cableVars, cycleVars, vars, sideVars, CableInv, ChipAsks,
       StatusRead, CableReported, CableStored, DetachIsPmics, CableMatched,
       Matches, Detaching
  <2>2. ASSUME DriverStep, IsrRun, IsrSide
        PROVE  CableInv'
    BY <2>2, IsrKeepsStatus, IsrKeepsReported, IsrKeepsStored, DetachStaysPmics
       DEF CableInv
  <2>3. ControlOK /\ PortOK
    BY DEF CycleKnown, Known, TypeOK
  <2> QED BY <2>1, <2>2, <2>3, KindsOfSide, CableMoves, OthersKeepCable,
             PowerKeepsCable
<1> QED BY <1>1, <1>2, SideRefinesCycle, CycleKnowledge, Quietness, PTL
        DEF SideSpec

\* When the chip has nothing more to say, the stored port is the one that the
\* cable stands for: no change of the cable is acknowledged that was not
\* stored, but for those that the property itself names.
THEOREM FollowsTheCable == SideSpec => []PortFollowsCable
<1>1. CableInv => PortFollowsCable
  BY DEF CableInv, CableMatched, Matches, PortFollowsCable, Unlocked, Toggle4
<1> QED BY <1>1, CableInvariance, PTL
=============================================================================
