---------------------------- MODULE PowerProofs -----------------------------
(***************************************************************************)
(* A device from its creation to its running in D0, again and again, for   *)
(* any calibration file, any lists of resources and any number of cycles:  *)
(* nothing is missing, the SPI target is the newest, the interrupt waits   *)
(* for Calibrated, and the chip's registers are what the driver believes.  *)
(***************************************************************************)
EXTENDS Setup, SequenceTheorems, TLAPS

Order == CreateOrder \o QueueOrder
Objects == {"device", "uc120Interrupt", "plugDetInterrupt", "pmic1Interrupt",
            "pmic2Interrupt", "delayedCollection", "deviceWaitLock",
            "defaultQueue", "delayedQueue", "readQueue", "reads", "writeQueue",
            "writes"}
Entering == {"entry5", "entry13", "file", "calibrate"}
Enabling == {"enable2", "enable4", "enable5", "enable7"}
Places == {"create", "open", "interface", "off", "failed", "on", "leave"}
            \cup Entering \cup Enabling

PlaceInv == pc \in Places /\ ok \in BOOLEAN
-----------------------------------------------------------------------------
(***************************************************************************)
(* The control registers. Each place on the way into D0 adds what the      *)
(* write before it, which worked, has established.                         *)
(***************************************************************************)
CalibratedInv ==
  "irq" \in reg4 \cup chip4 \/ pc \in Enabling \cup {"on", "leave"} => calibrated

QuietInv ==
  /\ pc \in {"create", "open", "interface", "leave", "off"} \cup Entering
              \cup {"enable2", "enable4"} => "irq" \notin reg4
  /\ pc \in Entering \cup {"enable2", "enable4"} => "irq" \notin chip4

StepInv ==
  /\ pc \in Entering \cup Enabling \cup {"on"} => chip4 = reg4
  /\ pc \in (Entering \ {"entry5"}) \cup Enabling \cup {"on"} => chip5 = reg5

RegisterInv == PlaceInv /\ CalibratedInv /\ QuietInv /\ StepInv

LEMMA RegistersInitially == SetupInit => RegisterInv
  BY DEF SetupInit, Fresh, RegisterInv, PlaceInv, CalibratedInv, QuietInv, StepInv,
     Places, Entering, Enabling

LEMMA RegistersStep ==
  ASSUME RegisterInv, [SetupNext]_allVars
  PROVE  RegisterInv'
<1> USE DEF RegisterInv, PlaceInv, CalibratedInv, QuietInv, StepInv, Places,
        Entering, Enabling
<1>1. CASE Create \/ Acquire \/ Open \/ Interface
  BY <1>1 DEF Create, Acquire, Open, Interface, Try, Rest, registers4, registers5,
     calVars
<1>2. CASE Entry4
  BY <1>2 DEF Entry4, Write4, Go, IfOk, registers5, calVars
<1>3. CASE Entry5
  BY <1>3 DEF Entry5, Write5, Go, IfOk, registers4, calVars
<1>4. CASE Entry13 \/ Enable23 \/ Enable7
  BY <1>4 DEF Entry13, Enable23, Enable7, Go, IfOk, registers4, registers5, calVars
<1>5. CASE ReadFile \/ CalibrateStep \/ EntryDone
  BY <1>5 DEF ReadFile, CalibrateStep, EntryDone, Go, registers4, registers5
<1>6. CASE Enable4
  BY <1>6 DEF Enable4, Write4, Go, IfOk, registers5, calVars
<1>7. CASE Enable5
  BY <1>7 DEF Enable5, Write5, Go, IfOk, registers4, calVars
<1>8. CASE Disable
  BY <1>8 DEF Disable, Write4, Go, registers5, calVars
<1>9. CASE LeaveD0
  BY <1>9 DEF LeaveD0, Go
<1>10. CASE UNCHANGED allVars
  BY <1>10 DEF allVars, vars
<1> QED BY <1>1, <1>2, <1>3, <1>4, <1>5, <1>6, <1>7, <1>8, <1>9, <1>10
        DEF SetupNext, Next

LEMMA RegisterInvariance == SetupSpec => []RegisterInv
  BY RegistersInitially, RegistersStep, PTL DEF SetupSpec

\* The chip interrupts only a driver whose reports are on (Calibrated = 1).
THEOREM NothingSuppressed == SetupSpec => []ReportsBeforeInterrupts
<1>1. RegisterInv => ReportsBeforeInterrupts
  BY DEF RegisterInv, CalibratedInv, ReportsBeforeInterrupts
<1> QED BY <1>1, RegisterInvariance, PTL

\* From the first write of D0Entry to UC120InterruptEnable the chip is quiet.
THEOREM EntryIsQuiet == SetupSpec => []QuietDuringEntry
<1>1. RegisterInv => QuietDuringEntry
  BY DEF RegisterInv, QuietInv, QuietDuringEntry, Entering
<1> QED BY <1>1, RegisterInvariance, PTL

\* A device that runs has Registers 4 and 5 as the driver has written them.
THEOREM RunsInStep == SetupSpec => []RunningInStep
<1>1. RegisterInv => RunningInStep
  BY DEF RegisterInv, StepInv, RunningInStep
<1> QED BY <1>1, RegisterInvariance, PTL
-----------------------------------------------------------------------------
(***************************************************************************)
(* What is made. Until every creation has been tried, and none failed, what*)
(* there is and what is left to do make up the whole; then nothing is lost.*)
(***************************************************************************)
MadeInv ==
  /\ left \in Seq(Objects)
  /\ pc = "create" => made \cup Range(left) = Range(Order)
  /\ pc \notin {"create", "failed"} => made = Range(Order)

ConnectionInv ==
  /\ target = NoSpi \/ target \in Connections
  /\ connection = NoSpi \/ connection \in Connections
  /\ pc \notin {"create", "failed"} /\ SpiIn(resources) # {} =>
       connection \in LastSpi(resources)
  /\ pc \notin {"create", "failed", "open"} =>
       target = connection /\ target \in Connections
  /\ pc \notin {"create", "failed", "open", "interface"} => event

SetupInv == MadeInv /\ ConnectionInv

LEMMA OrderIsSeq == Order \in Seq(Objects)
<1>1. CreateOrder \in Seq(Objects) /\ QueueOrder \in Seq(Objects)
  BY DEF CreateOrder, QueueOrder, Objects
<1> QED BY <1>1, ConcatProperties DEF Order

LEMMA RangeOfTail ==
  ASSUME NEW S, NEW s \in Seq(S), s # <<>>
  PROVE  Tail(s) \in Seq(S) /\ Range(s) = Range(Tail(s)) \cup {Head(s)}
<1>1. /\ Tail(s) \in Seq(S)
      /\ Len(Tail(s)) = Len(s) - 1
      /\ \A i \in 1 .. Len(Tail(s)) : Tail(s)[i] = s[i + 1]
      /\ Head(s) = s[1]
  BY HeadTailProperties
<1>2. /\ Len(s) \in Nat \ {0}
      /\ DOMAIN s = 1 .. Len(s) /\ DOMAIN Tail(s) = 1 .. Len(s) - 1
  BY <1>1, LenProperties, EmptySeq
<1>3. ASSUME NEW x \in Range(s) PROVE x = Head(s) \/ x \in Range(Tail(s))
  <2>1. PICK i \in 1 .. Len(s) : x = s[i]
    BY <1>2 DEF Range
  <2>2. CASE i # 1
    <3>1. i - 1 \in 1 .. Len(s) - 1 /\ Tail(s)[i - 1] = x
      BY <1>1, <1>2, <2>1, <2>2
    <3> QED BY <1>2, <3>1 DEF Range
  <2> QED BY <1>1, <2>1, <2>2
<1>4. Range(Tail(s)) \subseteq Range(s)
  BY <1>1, <1>2 DEF Range
<1>5. Head(s) \in Range(s)
  BY <1>1, <1>2 DEF Range
<1> QED BY <1>1, <1>3, <1>4, <1>5

LEMMA RangeOfEmpty == Range(<<>>) = {}
  BY DEF Range

\* Whatever a list names, the connection found is one there is, or the old one.
LEMMA FoundIsThere ==
  ASSUME NEW list, NEW id \in Found(list)
  PROVE  id = connection \/ id \in Connections
  BY DEF Found, LastSpi, SpiIn

LEMMA SetupInitially == SetupInit => SetupInv
  BY OrderIsSeq DEF SetupInit, SetupInv, MadeInv, ConnectionInv, Order

LEMMA SetupStep ==
  ASSUME RegisterInv, SetupInv, [SetupNext]_allVars
  PROVE  SetupInv'
<1>1. CASE Create
  <2>1. /\ left # <<>> /\ left' = Tail(left)
        /\ made' = IF ok' THEN made \cup {Head(left)} ELSE made
        /\ pc = "create" /\ pc' = IF ok' THEN "create" ELSE "failed"
        /\ UNCHANGED <<resources, connection, target, event>>
    BY <1>1 DEF Create, Try
  <2>2. left' \in Seq(Objects) /\ Range(left) = Range(left') \cup {Head(left)}
    BY <2>1, RangeOfTail DEF SetupInv, MadeInv
  <2>3. MadeInv'
    BY <2>1, <2>2 DEF SetupInv, MadeInv
  <2>4. ConnectionInv'
    BY <2>1 DEF SetupInv, ConnectionInv, SpiIn, LastSpi
  <2> QED BY <2>3, <2>4 DEF SetupInv
<1>2. CASE Acquire
  <2>1. /\ (pc = "create" /\ left = <<>>) \/ pc = "off"
        /\ pc' = "open" /\ UNCHANGED <<left, made, target, event>>
        /\ connection' \in Found(resources')
    BY <1>2 DEF Acquire
  <2>2. MadeInv'
    BY <2>1, RangeOfEmpty DEF SetupInv, MadeInv
  <2>3. connection' = NoSpi \/ connection' \in Connections
    BY <2>1, FoundIsThere DEF SetupInv, ConnectionInv
  <2>4. (SpiIn(resources) # {})' => connection' \in LastSpi(resources)'
    BY <2>1 DEF Found, SpiIn, LastSpi
  <2> QED BY <2>1, <2>2, <2>3, <2>4 DEF SetupInv, ConnectionInv
<1>3. CASE Open
  <2>1. /\ pc = "open" /\ pc' = IF ok' THEN "interface" ELSE "failed"
        /\ ok' => connection # NoSpi
        /\ target' = IF ok' THEN connection ELSE NoSpi
        /\ UNCHANGED <<left, made, resources, connection, event>>
    BY <1>3 DEF Open, Try
  <2> QED BY <2>1 DEF SetupInv, MadeInv, ConnectionInv, SpiIn, LastSpi
<1>4. CASE Interface
  <2>1. /\ pc = "interface" /\ pc' = IF ok' THEN "off" ELSE "failed"
        /\ event' = TRUE
        /\ UNCHANGED <<left, made, resources, connection, target>>
    BY <1>4 DEF Interface, Try
  <2> QED BY <2>1 DEF SetupInv, MadeInv, ConnectionInv, SpiIn, LastSpi
<1>5. CASE Next /\ UNCHANGED setupVars
  <2>1. /\ pc \notin {"create", "failed", "open", "interface"}
        /\ pc' \notin {"create", "open", "interface"}
    BY <1>5 DEF Next, Entry4, Entry5, Entry13, ReadFile, CalibrateStep, EntryDone,
       Enable23, Enable4, Enable5, Enable7, Disable, LeaveD0, Go, IfOk
  <2> QED BY <1>5, <2>1
          DEF SetupInv, MadeInv, ConnectionInv, SpiIn, LastSpi, setupVars
<1>6. CASE UNCHANGED allVars
  BY <1>6 DEF allVars, vars, setupVars, SetupInv, MadeInv, ConnectionInv, SpiIn,
     LastSpi
<1> QED BY <1>1, <1>2, <1>3, <1>4, <1>5, <1>6 DEF SetupNext

LEMMA SetupInvariance == SetupSpec => []SetupInv
  BY SetupInitially, SetupStep, RegisterInvariance, PTL DEF SetupSpec

\* A device that enters D0 has every object its callbacks use: a creation that
\* failed, or a list without an SPI connection, has stopped it before.
THEOREM NothingIsMissing == SetupSpec => []UsedIsMade
<1>1. SetupInv => UsedIsMade
  BY DEF SetupInv, MadeInv, ConnectionInv, UsedIsMade, InD0, Order
<1> QED BY <1>1, SetupInvariance, PTL

\* In D0 the target is the last connection the newest list names.
THEOREM TargetIsTheNewest == SetupSpec => []TargetIsCurrent
<1>1. SetupInv => TargetIsCurrent
  BY DEF SetupInv, ConnectionInv, TargetIsCurrent, InD0
<1> QED BY <1>1, SetupInvariance, PTL
-----------------------------------------------------------------------------
(***************************************************************************)
(* Calibration. What is still to be written was planned from this file, and*)
(* a plan gives no register a filler byte, unless the file is too short.   *)
(***************************************************************************)
Writes == [reg : CalRegisters, byte : Nat]
Files == [present : BOOLEAN, size : Nat, second : BOOLEAN]

LEMMA LengthIsDomain ==
  ASSUME NEW S, NEW s \in Seq(S), NEW n \in Nat, DOMAIN s = 1 .. n
  PROVE  Len(s) = n
<1>1. Len(s) \in Nat /\ 1 .. Len(s) = 1 .. n
  BY LenProperties
<1>2. \A i \in Nat \ {0} : i <= Len(s) <=> i <= n
  BY <1>1
<1>3. ~(Len(s) < n) /\ ~(n < Len(s))
  BY <1>1, <1>2
<1> QED BY <1>1, <1>3

LEMMA FirstVersionFits ==
  /\ FirstVersion \in Seq(Writes) /\ Len(FirstVersion) = 8
  /\ \A i \in 1 .. 8 : FirstVersion[i].byte \in 0 .. 7
<1>1. FirstVersion \in [1 .. 8 -> Writes]
  BY DEF FirstVersion, Writes, CalRegisters
<1>2. FirstVersion \in Seq(Writes)
  BY <1>1, SeqDef
<1>3. DOMAIN FirstVersion = 1 .. 8
  BY DEF FirstVersion
<1>4. Len(FirstVersion) = 8
  BY <1>2, <1>3, LengthIsDomain
<1> QED BY <1>2, <1>4 DEF FirstVersion

LEMMA SecondVersionFits ==
  /\ SecondVersion \in Seq(Writes) /\ Len(SecondVersion) = 10
  /\ \A i \in 1 .. 10 : SecondVersion[i].byte \in 1 .. 10
<1> DEFINE regs == <<18, 19, 20, 21, 26, 22, 23, 24, 25, 27>>
<1>1. \A i \in 1 .. 10 : regs[i] \in CalRegisters
  BY DEF CalRegisters
<1>2. SecondVersion = [i \in 1 .. 10 |-> [reg |-> regs[i], byte |-> i]]
  BY DEF SecondVersion
<1> HIDE DEF regs
<1>3. SecondVersion \in [1 .. 10 -> Writes]
  BY <1>1, <1>2 DEF Writes
<1>4. SecondVersion \in Seq(Writes)
  BY <1>3, SeqDef
<1>5. DOMAIN SecondVersion = 1 .. 10
  BY <1>2
<1>6. Len(SecondVersion) = 10
  BY <1>4, <1>5, LengthIsDomain
<1> QED BY <1>2, <1>4, <1>6

LEMMA PlanFits ==
  ASSUME file \in Files
  PROVE  /\ Plan \in Seq(Writes)
         /\ file.size \notin {9, 10} =>
              \A i \in 1 .. Len(Plan) : Byte(Plan[i].byte) # Zero
<1>1. CASE Plan = FirstVersion /\ file.size = 8
  BY <1>1, FirstVersionFits DEF Byte, Zero
<1>2. CASE Plan = SecondVersion /\ file.size > 8
  <2>1. file.size \notin {9, 10} => file.size > 10
    BY <1>2 DEF Files
  <2>2. ASSUME file.size > 10, NEW i \in 1 .. 10
        PROVE  Byte(SecondVersion[i].byte) # Zero
    <3>1. file.size \in Nat /\ SecondVersion[i].byte \in 1 .. 10
      BY SecondVersionFits DEF Files
    <3>2. SecondVersion[i].byte < file.size
      BY <2>2, <3>1
    <3> QED BY <3>1, <3>2 DEF Byte, Zero
  <2> QED BY <1>2, <2>1, <2>2, SecondVersionFits
<1>3. CASE Plan = <<>>
  BY <1>3, EmptySeq
<1> QED BY <1>1, <1>2, <1>3 DEF Plan

CalInv ==
  /\ file \in Files
  /\ plan \in Seq(Writes)
  /\ \A i \in 1 .. Len(plan) : file.present /\ plan[i] \in Range(Plan)
  /\ cal \in [CalRegisters -> Int]
  /\ CalibrationIsTheFiles

LEMMA CalibrationInitially == SetupInit => CalInv
<1> SUFFICES ASSUME SetupInit PROVE CalInv
  OBVIOUS
<1>1. file \in Files
  BY PowerAssumption DEF SetupInit, Fresh, Files
<1>2. plan \in Seq(Writes) /\ Len(plan) = 0
  BY EmptySeq DEF SetupInit, Fresh
<1>3. cal = [r \in CalRegisters |-> Unset]
  BY DEF SetupInit, Fresh
<1> QED BY <1>1, <1>2, <1>3 DEF CalInv, CalibrationIsTheFiles, Unset

LEMMA PlanIsKept ==
  ASSUME UNCHANGED file
  PROVE  UNCHANGED Plan
  BY DEF Plan, FirstVersion, SecondVersion

LEMMA CalibrateKeeps ==
  ASSUME CalInv, CalibrateStep
  PROVE  CalInv'
<1>1. PICK w : w = Head(plan)
  OBVIOUS
<1>2. /\ plan # <<>> /\ plan' = Tail(plan) /\ UNCHANGED file
      /\ \/ cal' = cal
         \/ cal' = [cal EXCEPT ![w.reg] = Byte(w.byte)]
  BY <1>1 DEF CalibrateStep
<1>3. /\ w = plan[1] /\ w \in Writes /\ Len(plan) \in Nat \ {0}
      /\ plan' \in Seq(Writes) /\ Len(plan') = Len(plan) - 1
      /\ \A i \in 1 .. Len(plan) - 1 : plan'[i] = plan[i + 1]
  <2>1. plan \in Seq(Writes)
    BY DEF CalInv
  <2>2. /\ Head(plan) \in Writes /\ plan' \in Seq(Writes)
        /\ Len(plan') = Len(plan) - 1
        /\ \A i \in 1 .. Len(plan') : plan'[i] = plan[i + 1]
    BY <1>2, <2>1, HeadTailProperties
  <2>3. Len(plan) \in Nat \ {0} /\ Head(plan) = plan[1]
    BY <1>2, <2>1, EmptySeq
  <2> QED BY <1>1, <2>2, <2>3
<1>4. UNCHANGED Plan
  BY <1>2, PlanIsKept
<1>5. \A i \in 1 .. Len(plan') : file'.present /\ plan'[i] \in Range(Plan)'
  <2> SUFFICES ASSUME NEW i \in 1 .. Len(plan')
               PROVE  file.present /\ plan'[i] \in Range(Plan)
    BY <1>2, <1>4
  <2>1. i + 1 \in 1 .. Len(plan) /\ plan'[i] = plan[i + 1]
    BY <1>3
  <2> QED BY <2>1 DEF CalInv
<1>6. file.present /\ w \in Range(Plan)
  BY <1>3 DEF CalInv
<1>7. PICK k \in 1 .. Len(Plan) : Plan[k] = w
  BY <1>6, PlanFits, LenProperties DEF CalInv, Range
<1>8. file.size \notin {9, 10} => Byte(w.byte) # Zero
  BY <1>7, PlanFits DEF CalInv
<1>9. Byte(w.byte) \in Int /\ \A x : Byte(x)' = Byte(x)
  BY <1>2, <1>3 DEF Byte, Zero, Writes
<1>10. cal' \in [CalRegisters -> Int]
  BY <1>2, <1>9 DEF CalInv
<1>11. CalibrationIsTheFiles'
  <2> SUFFICES ASSUME NEW r \in CalRegisters
               PROVE  \/ cal'[r] = Unset
                      \/ file.present /\ \E i \in 1 .. Len(Plan) :
                           /\ Plan[i].reg = r
                           /\ cal'[r] = Byte(Plan[i].byte)
                           /\ file.size \notin {9, 10} => cal'[r] # Zero
    BY <1>2, <1>4, <1>9 DEF CalibrationIsTheFiles, Unset, Zero
  <2>1. CASE cal'[r] = cal[r]
    BY <2>1 DEF CalInv, CalibrationIsTheFiles
  <2>2. CASE w.reg = r /\ cal'[r] = Byte(w.byte)
    BY <1>6, <1>7, <1>8, <2>2
  <2> QED BY <1>2, <2>1, <2>2 DEF CalInv
<1>12. file' \in Files
  BY <1>2 DEF CalInv
<1> QED BY <1>3, <1>5, <1>10, <1>11, <1>12 DEF CalInv

LEMMA CalibrationStep ==
  ASSUME CalInv, [SetupNext]_allVars
  PROVE  CalInv'
<1>1. CASE UNCHANGED <<file, plan, cal>>
  BY <1>1, PlanIsKept DEF CalInv, CalibrationIsTheFiles, Byte
<1>2. CASE CalibrateStep
  BY <1>2, CalibrateKeeps
<1>3. CASE ReadFile
  <2>1. UNCHANGED <<file, cal>>
    BY <1>3 DEF ReadFile
  <2>2. UNCHANGED Plan
    BY <2>1, PlanIsKept
  <2>3. CASE plan' = <<>>
    BY <2>1, <2>2, <2>3, EmptySeq DEF CalInv, CalibrationIsTheFiles, Byte
  <2>4. CASE file.present /\ plan' = Plan
    <3>1. /\ plan' \in Seq(Writes)
          /\ \A i \in 1 .. Len(plan') : plan'[i] \in Range(Plan)
      BY <2>4, PlanFits, LenProperties DEF CalInv, Range
    <3> QED BY <2>1, <2>2, <2>4, <3>1 DEF CalInv, CalibrationIsTheFiles, Byte
  <2> QED BY <1>3, <2>3, <2>4 DEF ReadFile
<1>4. CASE LeaveD0
  <2>1. /\ UNCHANGED <<file, plan>>
        /\ cal' = cal \/ cal' = [r \in CalRegisters |-> Unset]
    BY <1>4 DEF LeaveD0
  <2>2. UNCHANGED Plan
    BY <2>1, PlanIsKept
  <2>3. CASE cal' = cal
    BY <1>1, <2>1, <2>3
  <2>4. CASE cal' = [r \in CalRegisters |-> Unset]
    BY <2>1, <2>2, <2>4 DEF CalInv, CalibrationIsTheFiles, Unset
  <2> QED BY <2>1, <2>3, <2>4
<1>5. CASE Create \/ Acquire \/ Open \/ Interface \/ Entry4 \/ Entry5 \/ Entry13
           \/ EntryDone \/ Enable23 \/ Enable4 \/ Enable5 \/ Enable7 \/ Disable
  <2>1. UNCHANGED <<file, plan, cal>>
    BY <1>5 DEF Create, Acquire, Open, Interface, Entry4, Entry5, Entry13, EntryDone,
       Enable23, Enable4, Enable5, Enable7, Disable, Rest, calVars
  <2> QED BY <1>1, <2>1
<1>6. CASE UNCHANGED allVars
  BY <1>1, <1>6 DEF allVars, vars
<1> QED BY <1>2, <1>3, <1>4, <1>5, <1>6 DEF SetupNext, Next

\* Whatever writes failed, and in whichever cycle, a calibration register has
\* the byte that UC120Calibrate takes from the file for it, or is untouched.
THEOREM CalibratesFromTheFile == SetupSpec => []CalibrationIsTheFiles
<1>1. CalInv => CalibrationIsTheFiles
  BY DEF CalInv
<1> QED BY <1>1, CalibrationInitially, CalibrationStep, PTL DEF SetupSpec
=============================================================================
