--------------------------- MODULE DeviceContext ---------------------------
(***************************************************************************)
(* The device context that the driver's callbacks share, the wait lock     *)
(* that is meant to protect it, and the helpers of UC120.c that every      *)
(* callback uses: UC120ReportState, UC120ToggleReg4YetUnknown, SetVConn    *)
(* and SetPowerRole.                                                       *)
(*                                                                         *)
(* Five threads of control meet here:                                      *)
(*   isr     UC120InterruptIsr, the interrupt of the UC120                 *)
(*   pmic1   PmicInterrupt1WorkItem                                        *)
(*   pmic2   PmicInterrupt2Isr                                             *)
(*   ioctl   the sequential default queue, Ice5Lp2kEvtIoDeviceControl      *)
(*   writer  the sequential write queue, Ice5Lp2kQueueEvtWrite             *)
(* The framework never runs one of them twice at once, and runs any of     *)
(* them alongside the others.                                              *)
(***************************************************************************)
EXTENDS Uc120Types

CONSTANTS
  Active,        \* the threads that are ever given something to do
  SpiMayFail,    \* may an SPI transfer fail?
  StatesIn2,     \* cable states the chip may put in Register 2
  LevelsIn2,     \* current levels the chip may put in Register 2
  Registers7,    \* values the chip may put in Register 7
  Requests,      \* device-control requests a client may send
  MaxPending,    \* bound: notification requests waiting at once
  MaxReaders,    \* bound: read requests waiting at once
  PdTypes        \* message types the chip may put in Register 1

\* A request with a buffer that is too small has short = TRUE.
RequestType == [op : {"notify", "getState", "dataRole", "powerRole", "vconn",
                      "pdEnable", "hardReset", "other"},
                value : Int, short : BOOLEAN]
NoRequest == [op |-> "other", value |-> 0, short |-> FALSE]

ASSUME ConstantsAssumption ==
  /\ Active \subseteq {"isr", "pmic1", "pmic2", "ioctl", "writer"}
  /\ SpiMayFail \in BOOLEAN
  /\ StatesIn2 \subseteq 0 .. 15
  /\ LevelsIn2 \subseteq 0 .. 3
  /\ Registers7 \subseteq Register7
  /\ Requests \subseteq RequestType
  /\ MaxPending \in Nat
  /\ MaxReaders \in Nat
  /\ PdTypes \subseteq 0 .. 7

VARIABLES
  lock,      \* DeviceWaitLock: the thread that holds it, or "none"
  pc,        \* where each thread is
  port,      \* Uc120Event, Uc120PortType, PortPartnerType, ... of the context
  rpt,       \* what a thread is reporting, storing or reading
  todo,      \* the port fields it has still to store or to read
  shadow4,   \* Register4: bits 0 "irq", 1 "toggle", 2 "bit2", 7 "crc"
  chip4,     \* the same bits of the chip's register 4
  acc,       \* a thread's copy of Register4 during a read-modify-write
  shadow5,   \* Register5: bits 0 "power", 2 "data", 5 "vconn", 6 "pmic",
             \*   and 3 "bit3", 7 "bit7", which only a change to D0 writes
  chip5,     \* the same bits of the chip's register 5
  pending,   \* requests in DelayedIoCtlQueue
  r2,        \* Register2, as the interrupt handler read it
  req,       \* the request the default queue is serving
  workItem,  \* is the work item of PMIC interrupt 1 queued?
  readers,   \* requests in PdReadQueue
  reg1,      \* Register1: type, "has a body", and (ghost) which write it answers
  pd,        \* PDMessageType and (ghost) which write it answers
  pdEvent,   \* PdEvent
  result,    \* how the last write was completed
  air,       \* ghost: the writes the chip has not answered yet
  taint,     \* ghost: the write may be given an answer that is not its own
  told,      \* ghost: the port as the client knows it
  missed,    \* ghost: has something been reported that the client did not hear?
  detacher,  \* ghost: the thread that last stored a detach
  overlap    \* ghost: have unlocked and locked accesses ever overlapped?

syncVars == <<lock, pc>>
portVars == <<port, rpt, todo, detacher>>
clientVars == <<pending, told, missed>>
reg4Vars == <<shadow4, chip4, acc>>
reg5Vars == <<shadow5, chip5>>
pdVars == <<readers, reg1, pd, pdEvent, result, air, taint>>
vars == <<lock, pc, port, rpt, todo, shadow4, chip4, acc, shadow5, chip5,
          pending, r2, req, workItem, readers, reg1, pd, pdEvent, result,
          air, taint, told, missed, detacher, overlap>>
-----------------------------------------------------------------------------
Threads == {"isr", "pmic1", "pmic2", "ioctl", "writer"}
Reporters == {"isr", "pmic2", "ioctl"}

Toggle4 == {"load4", "store4", "copy4", "send4"}

\* The labels at which a thread holds, or believes it holds, the lock.
Critical ==
  [isr    |-> {"status", "port", "vconn", "role", "check", "report", "store",
               "level", "levelReport", "levelStore", "pd", "pdSignal", "size",
               "sizeSignal", "ack"} \cup Toggle4,
   pmic1  |-> {"run"},
   pmic2  |-> {"probe"},
   ioctl  |-> {"serve", "read", "reply"} \cup Toggle4,
   writer |-> {"send"}]

\* The labels outside the lock: PmicInterrupt2Isr reports and stores there.
Outside ==
  [isr    |-> {"idle", "wait"},
   pmic1  |-> {"idle", "wait"},
   pmic2  |-> {"idle", "wait", "report", "store"} \cup Toggle4,
   ioctl  |-> {"idle", "wait"},
   writer |-> {"idle", "reset", "clear", "wait", "await", "decide"}]

Labels(t) == Critical[t] \cup Outside[t]
Holds(t) == pc[t] \in Critical[t]

\* A failed write completes its request but leaves the lock taken.
Orphaned == lock = "writer" /\ ~Holds("writer")
-----------------------------------------------------------------------------
\* Lock and control.
Step(t, from, to) ==
  /\ pc[t] = from
  /\ pc' = [pc EXCEPT ![t] = to]
  /\ UNCHANGED lock

\* Definitions called Slip... are plausible mistakes in the definition they
\* precede. The specification uses none of them: with one in its place, a
\* property named in the README is violated.
SlipAcquireAgain(t, to) ==
  /\ pc[t] = "wait"
  /\ lock \in {"none", t}
  /\ lock' = t
  /\ pc' = [pc EXCEPT ![t] = to]

Acquire(t, to) ==
  /\ pc[t] = "wait"
  /\ lock = "none"
  /\ lock' = t
  /\ pc' = [pc EXCEPT ![t] = to]

Release(t, from, to) ==
  /\ pc[t] = from
  /\ lock' = "none"
  /\ pc' = [pc EXCEPT ![t] = to]
-----------------------------------------------------------------------------
(***************************************************************************)
(* SPI, seen from the callers. A read fails or returns what the register   *)
(* holds. A write whose status is only traced leaves the register with the *)
(* new value or, if it failed on the way, with the old one.                *)
(***************************************************************************)
Sent(new, old) == {new} \cup (IF SpiMayFail THEN {old} ELSE {})

SlipWriteBefore(b) == shadow5' = b /\ chip5' \in Sent(shadow5, chip5)

\* Write Register5 from the shadow, as it is after the change to b.
WriteReg5(b) == shadow5' = b /\ chip5' \in Sent(b, chip5)

\* SetVConn and SetPowerRole: read the register, change one bit, write it.
SetBit5(bit, on) == \/ WriteReg5(With(chip5, bit, on))
                    \/ SpiMayFail /\ UNCHANGED reg5Vars
SetVConn(on) == SetBit5("vconn", on)
SetPowerRole(on) == SetBit5("power", on)
-----------------------------------------------------------------------------
(***************************************************************************)
(* A read-modify-write of Register4 by thread t, of one bit, in four       *)
(* steps: load it, store it, copy it into the SPI buffer, and send that.   *)
(***************************************************************************)
SlipLoadFresh(t, bit, on) ==
  /\ Step(t, "load4", "store4")
  /\ acc' = [acc EXCEPT ![t] = With({}, bit, on)]
  /\ UNCHANGED <<shadow4, chip4>>

SlipLoadChip(t, bit, on) ==
  /\ Step(t, "load4", "store4")
  /\ acc' = [acc EXCEPT ![t] = With(chip4, bit, on)]
  /\ UNCHANGED <<shadow4, chip4>>

Load4(t, bit, on) ==
  /\ Step(t, "load4", "store4")
  /\ acc' = [acc EXCEPT ![t] = With(shadow4, bit, on)]
  /\ UNCHANGED <<shadow4, chip4>>

Store4(t) ==
  /\ Step(t, "store4", "copy4")
  /\ shadow4' = acc[t]
  /\ UNCHANGED <<acc, chip4>>

Copy4(t) ==
  /\ Step(t, "copy4", "send4")
  /\ acc' = [acc EXCEPT ![t] = shadow4]
  /\ UNCHANGED <<shadow4, chip4>>

\* The send itself; what follows it is the caller's.
Send4(t) ==
  /\ chip4' \in Sent(acc[t], chip4)
  /\ acc' = [acc EXCEPT ![t] = {}]
  /\ UNCHANGED shadow4

\* UC120ToggleReg4YetUnknown, up to the send.
ToggleReg4(t, on) == Load4(t, "toggle", on) \/ Store4(t) \/ Copy4(t)
-----------------------------------------------------------------------------
(***************************************************************************)
(* UC120ReportState takes every waiting notification request out of the    *)
(* queue. Here it is one step. A client hears of the event only if it has  *)
(* a request waiting that WdfCollectionAdd has memory for (one that is     *)
(* refused is never completed) and whose buffer is large enough (a shorter *)
(* one is completed with an error); otherwise it is lost to it for good.   *)
(***************************************************************************)
Heard(news) == pending > 0 /\ told' = news
Unheard == missed' = TRUE /\ UNCHANGED told

\* An attach or detach says all there is to know of the port ...
ReportPort(t) ==
  /\ pending' = 0
  /\ \/ Heard(rpt[t]) /\ missed' = FALSE
     \/ Unheard

SlipReportAll(t) ==
  /\ pending' = 0
  /\ \/ Heard(rpt[t]) /\ UNCHANGED missed
     \/ Unheard

\* ... a change of the current level says no more than that.
ReportCurrent(t) ==
  /\ pending' = 0
  /\ \/ Heard([told EXCEPT !.current = rpt[t].current]) /\ UNCHANGED missed
     \/ Unheard

SlipStoreSome(t) == todo' = [todo EXCEPT ![t] = PortFields \ {"partner"}]

\* Begin to store the port that has been reported ...
StartStore(t) == todo' = [todo EXCEPT ![t] = PortFields]

\* ... and store one field of it, in whatever order the compiler chose.
StoreField(t, f) ==
  /\ f \in todo[t]
  /\ port' = [port EXCEPT ![f] = rpt[t][f]]
  /\ todo' = [todo EXCEPT ![t] = @ \ {f}]
  /\ detacher' = IF f = "event" /\ rpt[t].event = "Detach" THEN t ELSE detacher
-----------------------------------------------------------------------------
(***************************************************************************)
(* The context after Ice5Lp2kCreateDevice, a PrepareHardware that found    *)
(* its SPI controller, and a D0Entry and an interrupt enable whose writes  *)
(* all succeeded (module PowerUp): detached, Calibrated = 1.               *)
(***************************************************************************)
Init ==
  /\ lock = "none"
  /\ pc = [t \in Threads |-> "idle"]
  /\ port = DetachedPort
  /\ rpt = [t \in Reporters |-> DetachedPort]
  /\ todo = [t \in Reporters |-> {}]
  /\ shadow4 = {"irq", "toggle", "bit2"} /\ chip4 = {"irq", "toggle", "bit2"}
  /\ acc = [t \in Reporters |-> {}]
  /\ shadow5 = {"bit3"} /\ chip5 = {"bit3"}
  /\ pending = 0
  /\ r2 = NoStatus
  /\ req = NoRequest
  /\ workItem = FALSE
  /\ readers = 0
  /\ reg1 = [type |-> 0, body |-> FALSE, of |-> "none"]
  /\ pd = [type |-> 0, of |-> "none"]
  /\ pdEvent = FALSE
  /\ result = [status |-> "none", of |-> "none"]
  /\ air = {}
  /\ taint = FALSE
  /\ told = DetachedPort
  /\ missed = FALSE
  /\ detacher = "isr"
  /\ overlap = FALSE

\* Where PmicInterrupt2Isr runs without the lock it has given back, and where
\* the holders of the lock touch what it touches.
Unlocked == {"report", "store"} \cup Toggle4
Touching == {"check", "report", "store", "level", "levelReport", "levelStore",
             "read", "reply"} \cup Toggle4
Clash == /\ pc["pmic2"] \in Unlocked
         /\ pc["isr"] \in Touching \/ pc["ioctl"] \in Touching

\* Part of every step: note for ever that the two have overlapped.
Observe == overlap' = (overlap \/ Clash')
=============================================================================
