----------------------------- MODULE PowerCycle -----------------------------
(***************************************************************************)
(* The driver at work while its device leaves D0 and comes back: Ice5Lp2k  *)
(* composed with PowerUp, over the same context and the same chip. What    *)
(* the framework holds back out of D0:                                     *)
(*   the default queue is power-managed: nothing is dispatched from it, and*)
(*   leaving D0 waits for the request that is being served;                *)
(*   the interrupts are connected only in D0, and leaving it waits for     *)
(*   their handlers; UC120InterruptDisable runs under the interrupt's own  *)
(*   lock, so not together with UC120InterruptIsr, but nothing keeps it    *)
(*   apart from the PMIC interrupts, which may still be connected.         *)
(* What it does not hold back: the other three queues are created with     *)
(* PowerManaged = WdfFalse. A write may begin, send and wait out of D0.    *)
(***************************************************************************)
EXTENDS Ice5Lp2k

CONSTANT MaxCycles     \* bound: times the device enters D0

ASSUME CycleAssumption == MaxCycles \in Nat \ {0}

VARIABLES
  power,       \* where the device is on its way out of D0 and back
  cycles,      \* times D0 has been entered
  ok,          \* the status of the last call of that thread
  calibrated,  \* Calibrated
  accP,        \* its copy of Register4 in UC120InterruptDisable
  carried,     \* ghost: attached at D0 entry, and nothing stored since?
  late,        \* ghost: did the tail of PMIC 2 overlap an interrupt disable?
  lit          \* ghost: could the interrupt run since the write cleared PdEvent?

powerVars == <<power, cycles, ok, calibrated, accP>>
ghostVars == <<carried, late, lit>>
cycleVars == <<vars, powerVars, ghostVars>>

\* Calibration does not concern the port: here there is no file, and nobody
\* has written (-2 is Unset) the calibration registers.
P == INSTANCE PowerUp WITH
       pc <- power, reg4 <- shadow4, reg5 <- shadow5, Sizes <- {},
       file <- [present |-> FALSE, size |-> 0, second |-> FALSE],
       plan <- <<>>, cal <- [r \in 18 .. 27 |-> -2]

CycleInit ==
  /\ Init
  /\ power = "on" /\ cycles = 1 /\ ok = TRUE /\ calibrated = TRUE
  /\ accP = {}
  /\ carried = FALSE /\ late = FALSE /\ lit = FALSE

Disabling == {"store4", "copy4", "send4"}
\* The UC120's handler may be called; those of the PMIC may.
Listening == {"on", "stopping", "leave"}
Connected == Listening \cup Disabling
-----------------------------------------------------------------------------
\* What arrives, arrives where the framework lets it.
Admitted ==
  /\ pc'["isr"] # pc["isr"] => power \in Listening
  /\ pc'["pmic2"] # pc["pmic2"] \/ workItem' # workItem => power \in Connected
  /\ pc'["ioctl"] # pc["ioctl"] \/ pending' # pending => power = "on"

\* The registers' shadows and the chip's registers aside, a change of power
\* leaves the context as it is: the port, what is parked, and Register 4.
contextVars == <<lock, pc, port, rpt, todo, acc, pending, r2, req, workItem,
                 readers, reg1, pd, pdEvent, result, taint, told, missed,
                 detacher>>
SpiWorks == SpiMayFail \/ ok'

\* The chip may have forgotten a message it was given before.
Enter == /\ P!Entry4 /\ SpiWorks
         /\ air' \in {air, {}}
         /\ UNCHANGED <<contextVars, accP>>

Return == /\ \/ P!Entry5 \/ P!Entry13 \/ P!ReadFile \/ P!EntryDone
             \/ P!Enable23 \/ P!Enable4 \/ P!Enable5 \/ P!Enable7
          /\ SpiWorks
          /\ UNCHANGED <<contextVars, air, accP>>
-----------------------------------------------------------------------------
Move(from, to) == power = from /\ power' = to
Quiet(t) == pc[t] = "idle"
WaitFor(t) == Quiet(t)

StopQueue ==
  /\ Move("on", "stopping")
  /\ UNCHANGED <<contextVars, reg4Vars, reg5Vars, air, cycles, ok, calibrated,
                 accP>>

\* UC120InterruptDisable: bit 0 of Register4 is cleared and the register
\* written, without the lock.
DisableLoad ==
  /\ WaitFor("ioctl") /\ WaitFor("isr")
  /\ Move("stopping", "store4")
  /\ accP' = shadow4 \ {"irq"}
  /\ UNCHANGED <<contextVars, reg4Vars, reg5Vars, air, cycles, ok, calibrated>>

SlipDisableChip ==
  /\ Move("store4", "send4")
  /\ UNCHANGED <<contextVars, reg4Vars, reg5Vars, air, cycles, ok, calibrated,
                 accP>>

DisableStore ==
  /\ Move("store4", "copy4")
  /\ shadow4' = accP
  /\ UNCHANGED <<contextVars, chip4, reg5Vars, air, cycles, ok, calibrated,
                 accP>>

DisableCopy ==
  /\ Move("copy4", "send4")
  /\ accP' = shadow4
  /\ UNCHANGED <<contextVars, reg4Vars, reg5Vars, air, cycles, ok, calibrated>>

DisableSend ==
  /\ Move("send4", "leave")
  /\ \/ ok' = TRUE /\ chip4' = accP
     \/ SpiMayFail /\ ok' = FALSE /\ chip4' \in {accP, chip4}
  /\ accP' = {}
  /\ UNCHANGED <<contextVars, shadow4, reg5Vars, air, cycles, calibrated>>

\* The interrupts are disconnected, when their handlers have returned.
Leave ==
  /\ WaitFor("isr") /\ WaitFor("pmic2") /\ WaitFor("pmic1") /\ ~workItem
  /\ P!LeaveD0
  /\ UNCHANGED <<contextVars, air, accP>>

PowerDown == \/ DisableLoad \/ DisableStore \/ DisableCopy \/ DisableSend
             \/ Leave
-----------------------------------------------------------------------------
\* The history variables.
Note ==
  /\ carried' = IF power = "off" /\ power' # "off" THEN port.event = "Attach"
                ELSE carried /\ pc'["isr"] # "store" /\ pc'["pmic2"] # "store"
  /\ late' = (late \/ (power' \in Disabling /\ pc'["pmic2"] \in Toggle4))
  /\ lit' = /\ pc'["writer"] \notin {"idle", "reset", "clear"}
            /\ lit \/ power' \in Listening

\* What a thread of the driver, and what the thread of the power change, does.
Work(step) == step /\ UNCHANGED powerVars /\ Observe /\ Note
Power(step) == step /\ Observe /\ Note

ArriveWork == Work(Arrive /\ Admitted)
IsrWork    == Work(IsrPortNext \/ IsrPdNext)
Pmic1Work  == Work(Pmic1Next)
Pmic2Work  == Work(Pmic2Next)
IoctlWork  == Work(IoctlNext)
WriterWork == Work(WriterNext)
PowerWork  == Power(PowerDown \/ Enter \/ Return)

CycleNext == \/ ArriveWork \/ IsrWork \/ Pmic1Work \/ Pmic2Work \/ IoctlWork
             \/ WriterWork \/ PowerWork \/ Power(StopQueue)

CycleSpec == CycleInit /\ [][CycleNext]_cycleVars
-----------------------------------------------------------------------------
\* Out of D0, and on the way back until the interrupt is enabled, it is off:
\* in the shadow always, and in the chip if its registers could be written.
\* Unless, that is, the tail of PMIC 2 was at work on the same register while
\* it was being disabled: Register4 is changed there without the lock.
OutOfD0 == {"leave", "off", "entry5", "entry13", "file", "calibrate", "enable2",
            "enable4"}
InterruptStaysOff ==
  power \in OutOfD0 /\ ~late =>
    "irq" \notin shadow4 /\ (~SpiMayFail => "irq" \notin chip4)

\* In D0 the interrupt is on: no cycle loses bit 0 of Register 4, with which
\* the driver would hear nothing more. And if the bus works the shadows are
\* again what the chip has, which may have forgotten everything meanwhile.
BackInStep ==
  power = "on" /\ ~late /\ ~overlap =>
    /\ "irq" \in shadow4
    /\ ~SpiMayFail =>
         /\ chip5 = shadow5
         /\ (\A t \in Reporters : pc[t] \notin {"copy4", "send4"})
              => chip4 = shadow4

\* The toggle bit follows the port through a change of power, except that D0
\* entry sets it even though a cable is attached. It then stays set, wrongly,
\* until something is next stored; nothing else makes the two differ.
ToggleAcrossPower ==
  /\ ~overlap /\ ~late
  /\ power \notin Disabling
  /\ \A t \in {"isr", "pmic2"} : pc[t] \notin {"store", "load4", "store4"}
  => IF carried THEN "toggle" \in shadow4 /\ port.event = "Attach"
     ELSE ("toggle" \in shadow4) = (port.event = "Detach")

\* A port that has been attached to a Ufp, which cable state 2 alone stands for
\* ("USB Host, VBUS ON", Interrupt.c:110), is powered and gets VConn until it
\* is detached, if no client asks otherwise, whatever states come meanwhile;
\* but not once D0 has been left and entered with it attached: Register 5 is
\* reset, and the role not restored. Nothing is claimed for the other hosts,
\* of which comments and code disagree: 3 and 8 are "VBUS OFF" and powered, 6
\* and 7 "VBUS ON" and not.
SourceIsPowered ==
  /\ ~SpiMayFail /\ ~overlap /\ Settled /\ ~carried /\ power = "on"
  /\ \A r \in Requests : r.op \notin {"powerRole", "vconn"}
  /\ port.event = "Attach" /\ port.partner = "Ufp"
  => {"vconn", "power"} \subseteq chip5

\* A write gets an answer only if the interrupt handler could run after it
\* cleared PdEvent: one that begins and ends out of D0, as the write queue
\* allows, times out or fails, and is never taken for sent on an old answer.
AnswerNeedsD0 == pc["writer"] = "decide" => lit

\* The device gets out of D0 once the queue has been stopped, unless a failed
\* write has orphaned the lock: then a handler or a request that leaving D0
\* waits for never returns.
PowerDownCompletes == (power = "stopping") ~> (power = "off" \/ Orphaned)

(***************************************************************************)
(* A stop of the queue is never obliged to happen, the rest of a change of *)
(* power is: the framework waits for each handler in turn, and a handler   *)
(* that is called again and again lets it in between two calls.            *)
(***************************************************************************)
CycleFairness ==
  /\ SF_cycleVars(IsrWork) /\ SF_cycleVars(Pmic1Work)
  /\ SF_cycleVars(Pmic2Work) /\ SF_cycleVars(IoctlWork)
  /\ SF_cycleVars(WriterWork) /\ SF_cycleVars(PowerWork)

FairCycleSpec == CycleSpec /\ CycleFairness
=============================================================================
