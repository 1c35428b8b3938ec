# Ice5Lp2k: a TLA+ model of the UC120 driver

`src/Ice5Lp2k` is a Windows kernel (KMDF) driver for the Lattice UC120, the USB-C
power-delivery PHY of two phones. The chip is a register file behind an SPI bus with one
interrupt line; two more interrupts come from the power-management chip (PMIC). The driver
turns interrupts into notifications for the USB-C controller driver above it ("the client"),
and the client's requests into register writes.

What is hard in it is concurrency. Five callbacks share one device context; the framework runs
them side by side, and one wait lock is meant to keep them apart. The rest is error paths: every
SPI transfer may fail, each handler deals with that in its own way, and the power-up sequence
consists of little else.

## The system

| part | state | operations | works with |
|---|---|---|---|
| device context (`Device.h`) | port fields (`Uc120Event`, `Uc120PortType`, `PortPartnerType`, `AdvertisedCurrentLevel`, `Orientation`), shadows `Register1/2/4/5/7`, `PDMessageType`, `PdEvent`, `Calibrated`, `DeviceWaitLock` | - | shared by all callbacks |
| `UC120InterruptIsr` (`Interrupt.c`) | locals | reads Register 2, handles cable, current and PD messages, acknowledges | lock, SPI, notifications, PD |
| `PmicInterrupt1Isr`, work item | a queued work item | sets bit 6 of Register 5 | lock, SPI |
| `PmicInterrupt2Isr` | locals | probes bit 6; if set, "cable detach": reports and stores it **without the lock** | lock, SPI, notifications |
| default queue (`Queue.c`, `UC120.c`) | request in service | get state, data role, power role, VConn, PD enable, hard reset; parks notification requests | lock, SPI |
| `PdWriteQueue` | request in service | sends a PD message, waits at most 20 ms for the interrupt's answer | lock, SPI, `PdEvent` |
| `PdReadQueue` | waiting reads | - | completed by the interrupt |
| `DelayedIoCtlQueue` and the collection | waiting notification requests | `UC120ReportState` | filled by the default queue, emptied by the two reporting interrupts |
| power-up (`Device.c`, `UC120.c`, `Interrupt.c`) | registers, calibration file | `D0Entry`, `UC120Calibrate`, interrupt enable and disable | SPI, file system |
| device and queue creation (`Device.c`, `Queue.c`) | the objects made, the SPI connection and its target | `Ice5Lp2kCreateDevice`, `Ice5Lp2kQueueInitialize`, `PrepareHardware`, again at a rebalance | framework |
| SPI transport (`SpiTransport.c`) | memory objects | read (sent up to four times), write (once) | all |

Not modelled: driver entry and device add (which register callbacks and call `Ice5Lp2kCreateDevice`),
tracing, `PlugdetInterruptIsr`, which does nothing, and installation and build files.
The hazards of each part, with their lines and the properties aimed at them, are listed under
`hazards` in `PROJECT.json`.

What makes each part correct:

- *lock*: a holder holds it alone, and gives it back;
- *port*: what is stored, what was reported, and what a client can ask for are one and the same;
- *registers*: shadow and chip agree, two users of a register leave each other's bits alone, and
  nothing is powered without a cable;
- *PD write*: a success means that this message was acknowledged;
- *notifications*: every waiting request is completed, once, and a report ends;
- *power cycles*: the interrupt is off out of D0 and on in it, registers come back in step, the driver
  gets out of D0;
- *cable*: what is stored is what is plugged, and a change is noticed in the end;
- *transport*: a transfer is one step that takes a value and one that delivers it, or a failure;
- *creation*: nothing runs in a half-made device;
- *power-up*: nothing interrupts before the driver is ready, and a running device is configured as
  the driver believes.

## Modules

    Uc120Types                 enumerations, register layouts, the tables of the interrupt handler
      DeviceContext            the shared context, the lock, SPI, the helpers of UC120.c
        PortInterrupts         UC120InterruptIsr (port half), PMIC 1 and 2
        PortIoctl              the default queue and its handlers
        PdMessaging            UC120InterruptIsr (PD half), the write and the read queue
          Ice5Lp2k             all of them interleaved, fairness, the properties
            ContextProofs, PortProofs,                            theorems
            RegisterProofs, WriteProofs
            MCPort, MCPortSpi, MCRegisters, MCHost                instances for TLC
            PowerCycle         Ice5Lp2k with PowerUp: out of D0 and back while all are at work
              MCLife, MCPd, MCLive
              CableSide        PowerCycle with the chip's Register 2 and the cable (MCCable)
                CycleProofs    theorems of PowerCycle and CableSide
    PowerUp                    D0Entry, Calibrate, InterruptEnable/Disable
      Setup                    before it: device, queues, resources, SPI target (MCPowerUp)
        PowerProofs            theorems, from the creation to running in D0
    ReportState                UC120ReportState one framework call at a time (MCReport)
      Notifications            what it promises: KeepsPromise is the refinement
      ReportProofs             theorems: the report keeps the promise
    SpiTransport               UC120SpiRead, UC120SpiWrite call by call (MCTransport)
      RegisterFile             what they promise: ImplementsRegisterFile is the refinement
      SpiProofs                theorems: the transport implements it
    RegisterBytes              the byte formulas for Registers 1, 4 and 5, against sets of bits

`PowerCycle` takes the steps of D0 entry and interrupt enable from `PowerUp` by `INSTANCE ... WITH`, with
the driver's own shadows and chip registers in place of its variables, and adds the interrupt disable at the
grain at which it can collide. `RegisterBytes` has no state: its assumptions, which TLC evaluates in
run `registers`, compare every formula with `With` for all 256 bytes.

### How state corresponds

`lock` is the owner of `DeviceWaitLock`; `pc[t]` is where a thread stands, and `Critical[t]` are
the labels between acquire and release. `port` is the five port fields; `rpt[t]` and `todo[t]` are
a thread's locals: what it reports and stores, and which fields are still to be stored (or, in
`GET_CABLE_DETECTION_STATE`, read). `shadow4/chip4` and `shadow5/chip5` are `Register4` and
`Register5` and the chip's registers behind them, as sets of named bits: Register 4 bit 1
`toggle`, bit 7 `crc`, bit 0 `irq` and bit 2; Register 5 bit 0 `power`, 2 `data`, 5 `vconn`, 6 `pmic`,
bits 3 and 7. In `Ice5Lp2k` by itself the device is in D0, and `irq` and the unnamed bits stay as
the power-up left them. `pd`, `pdEvent`, `reg1` are
`PDMessageType`, `PdEvent`, `Register1`. `pending` and `readers` are the lengths of
`DelayedIoCtlQueue` and `PdReadQueue`.

`power` in `PowerCycle` is where the device is on its way out of D0 and back (`pc` of `PowerUp`), `accP` the
copy of Register 4 that `UC120InterruptDisable` works on. In `CableSide`, `cable` is what is plugged, `chip2`
the cable state in the chip's Register 2.

The rest is history, which no action reads to decide anything else: `told` and `missed` (the port as a
client knows it from notifications and answers; whether it missed an event that it still does not know of), `detacher`
(which interrupt stored the last detach), `overlap` (see below), `air`, `taint` with the fields `of` (which
write an answer of the chip belongs to); in `PowerCycle` `carried` (the port was attached when D0 was entered,
and nothing has been stored since), `late` (the tail of PMIC 2 overlapped the interrupt disable) and `lit` (the
interrupt could run since a write cleared `PdEvent`); in `CableSide` `lost` (the last change of the cable
was cleared unhandled) and `oldKind` (an attach was ignored because the port was attached); in `SpiTransport`
`failed` and `written`, counts of transfers; in `ReportState` `due` (the requests a report found waiting and has not
completed yet) and `met` (two reports have been under way at once).

### How big a step is

- What a callback does under the lock to state that only lock holders touch is one action
  (`Pmic1Run`, `SetPortDataRole`, `IoctlReportNewPowerRole` ...).
- What `PmicInterrupt2Isr` also touches without the lock is taken apart: port fields are stored and
  read one at a time, in any order, as the compiler may; a read-modify-write of `Register4` is load,
  store, copy into the SPI buffer, send. Both sides of each race are at this grain.
- `UC120ReportState` is one step in `Ice5Lp2k`, and call by call in `ReportState`. The one step has every
  outcome the calls have for the client: it has heard the event (`Heard`), or it has not (`Unheard`), because no
  request was waiting, `WdfCollectionAdd` refused the one that was (it is then never completed), or its output
  buffer was too small (it is completed with an error alone). Whichever it was, nothing is left waiting. In
  `ReportState` the clients in `Short` have such a buffer, and `lost` are the refused requests.
- A failed SPI read leaves the shadow as it was. A failed write may or may not have reached the
  chip (`Sent`).
- Clients may send a request with too small a buffer (`short`), or with values outside the
  enumerations. The power role is truncated to eight bits, as the code does it; the VConn role is
  compared with `>` only.
- The chip may put any status in Register 2 that a run allows, except that it says "message size
  changed" only when a message that it was sent is unanswered.

### overlap

`PmicInterrupt2Isr` releases the lock, then reports the detach, stores the five port fields and
rewrites Register 4. If the UC120 interrupt or a request is at work on the same state meanwhile
(`Clash`), fields, notifications and the two bits of Register 4 may end in any mixture, and no
property about them survives. `overlap` records for ever that it happened; the properties that
need it say `~overlap => ...`. So they say two things: the code is right as long as the two do not
meet, and their meeting is the *only* way it goes wrong. `LockDiscipline` and `TypeOK` are proved without it.

`met` is the same for the two reports in `ReportState`. Nothing in the code keeps them apart, and nothing in the
model does: `Begin` is enabled whenever its reporter is idle, and records whether the other one is not. From then on
the promise is off. Without the condition `~met`, TLC finds in a few steps a report that ends while what it owes is in the
other's hand, an item completed twice, and the NULL item after it. How the system goes on from there is not a
question the model answers: the framework stops the machine.

### What the framework does to the power

Leaving D0, as `PowerCycle` has it: the default queue is power-managed, so nothing more is dispatched from it
and the request in service is waited for. `UC120InterruptDisable` is called under the UC120 interrupt's own
lock, so never together with `UC120InterruptIsr`; the PMIC interrupts may still be connected then. The
interrupts are disconnected when their handlers and the work item have returned. The other three
queues are created with `PowerManaged = WdfFalse`: a write may begin, be sent and wait at any time. On the way
back `D0Entry` and `UC120InterruptEnable` run before anything is dispatched, except that write. A chip out of
D0 keeps its registers and messages, or loses them. `carried`, `late` and `lost` name the cases in which the code
does not do what one would wish; as with `overlap`, the properties say that they are the only ones.

## Runs

Each takes at most about two minutes with two workers. The bounds: one client with at most
`MaxPending` notification requests and `MaxReaders` reads waiting. One is enough, since the
interrupt looks only at whether there is one; several requests and clients are the business of
`report`. Interrupts and requests arrive without limit. Cable states are chosen one per branch:
1 (detach), 2 (a source role), 5 (an attach with another partner), 6 (an attach that powers nothing), 8,
9 (ignored), and 0. `MaxCycles` is 2 where the device must come back: a second cycle meets what the first
one left, and a third would meet nothing else. `MaxChanges` is 2: plugged, and then pulled or exchanged.

| run | threads, SPI | asks | states |
|---|---|---|---|
| `port` | isr, pmic1, pmic2, ioctl; reliable | `ClientsKnowPort`: a client that has missed no event since the last attach or detach it heard of knows exactly what is stored. `AnswersAreWhole`: no torn answer. `AcknowledgedIsStored`: no cable status is acknowledged unhandled. `KnowledgeInv`: the inductive form | 849 k |
| `port_spi` | isr, pmic2, notifications and PD enable; failing | `ClientsKnowPort` on every error path, those of the report included; `ToggleFollowsPort` and `GoodCrcIsTheClients`: the interrupts and the client share Register 4 without undoing each other, also when shadow and chip differ | 1.35 M |
| `registers` | isr, pmic1, ioctl with every request, writer; reliable | `ShadowsMatchChip`; `DetachedIsPoweredDown`: after a detach neither VConn nor source, whatever clients request; `PowerRoleHasAuthor`: the role changes only for a cable state or a request for that role; and the assumptions of `RegisterBytes` | 497 k |
| `pd` | isr, writer, a read; failing; two cycles | `SuccessIsOwnAnswer`; `AnswerNeedsD0`: no success on an old answer out of D0; `LockDiscipline`; `OrphanedByFailedWrite`, `OrphanedForGood`; `TypeOK` | 669 k |
| `live` | isr, ioctl, writer; failing; out of D0 | `HandlersReturn`, `PowerDownCompletes` | 7.6 k |
| `life` | isr, pmic1, pmic2, ioctl; reliable; two cycles | `InterruptStaysOff`, `BackInStep`, `ToggleAcrossPower`, `SourceIsPowered` (states 1, 2 and 6: a detach, a powered partner and one that is not) | 1.10 M |
| `cable` | isr against the cable; failing; two cycles, two changes | `PortFollowsCable`, `PlugIsNoticed` | 49 k |
| `report` | two reporters, three clients, one with a short buffer, collection may be out of memory | `CompletesOnlyItsOwn`, `NothingKeptBack`, `EveryoneDueIsAnswered`, `ReportEnds`, `KeepsPromise`, `TypeOK`: all up to the first overlap | 136 k |
| `transport` | two callers, two registers, one of which the chip changes; allocations and transfers fail | `ImplementsRegisterFile`, `ReadPersists`, `OnlyWritesLeaveMemory`, `TypeOK` | 77 k |
| `power_up` | made, then twice through D0, rebalanced or not; files of 7, 8, 9, 11 bytes of either version, or none; every call may fail | `UsedIsMade`, `TargetIsCurrent`, `ReportsBeforeInterrupts`, `QuietDuringEntry`, `RunningInStep`, `CalibrationIsTheFiles` | 409 k |
| `power_up_flag` | as above, once | violated: `CalibratedMeansCalibrated` | - |
| `host` | isr, all cable states | violated: `HostStatesAreDfp` | - |

`port`, `port_spi` and `life` cut behaviours at the first overlap (`CONSTRAINT Sequential`): their
properties claim nothing beyond it; `report` does so at the first step with `met` (`CONSTRAINT Apart`), after which a
request may be in the collection many times over and the states run into tens of millions; its liveness property
claims nothing of behaviours that reach that step. `registers` has the write queue for the lock alone, so it follows one
message, never concluded and on its way only between two requests (`CONSTRAINT OneMessage`). `live` and `cable` are small because TLC has to find strongly connected
components for each obligation of fairness; without the liveness property, `cable` was also explored with the
write queue at work (1.9 M states).

Deadlock is checked, except where the system really stops. In `pd`, `live` and `cable` a failed write orphans the lock
or a failed D0 entry ends the device, and in the end nobody can move. In `life`, `pd`, `cable`, `live` and
`power_up` a device that has gone through `MaxCycles` cycles stays off, and one that failed is not started again.

**Fairness.** `Fairness`, `CycleFairness` and `FairSideSpec` ask strong fairness of each callback and of the
thread of the power change, never of an arrival or of the decision to leave D0. A callback that
runs keeps being scheduled, and a wait lock is a dispatcher object with a first-come queue, so
a thread that waits while it is released again and again gets it; weak fairness would let one
starve. The framework that waits for a handler gets its turn between two calls of it. `ReportEnds` needs only weak
fairness of the reporter, since it waits for nothing. `FairSideSpec` adds two assumptions about the
environment: the UC120 holds its interrupt line until Register 2 is cleared, so the handler is called while it is
held (weak fairness of `Called`); and of infinitely many reads of Register 2 one works (`Told`). With a
bus that never works a plug is never noticed.

**Slips.** Definitions named `Slip...` are plausible mistakes, kept beside the definition they
distort; nothing in the specifications uses them. Put in its place, each makes a property fail,
which shows that the property is about the code. `mutants` in `PROJECT.json` pairs them: for
instance, a missing lock acquire (`SlipServeUnlocked`) breaks `AnswersAreWhole`, storing four of
five fields (`SlipStoreSome`) breaks `ClientsKnowPort`, releasing the lock after the wait instead
of before it (`SlipSendAndKeep`) breaks `OrphanedByFailedWrite`, a Register 4 rewritten without its other
bits (`SlipLoadFresh`) loses the interrupt enable and with it `PlugIsNoticed`, and a rebalance that keeps the
target it has (`SlipOpenOnce`) breaks `TargetIsCurrent`.

## What the runs show

1. *A failed power-delivery write stops the driver.* `Ice5Lp2kQueueEvtWrite` completes the request
   at `LABEL_17` without releasing the lock (`Queue.c:216-232`). `OrphanedByFailedWrite` says that this is
   the only way to lose the lock, `OrphanedForGood` that there is no way back, and `HandlersReturn`
   needs the exception `Orphaned` because of it.
2. *The unlocked tail of `PmicInterrupt2Isr`* (`Interrupt.c:298-308`) is the only way for a client that has heard every
   event to disagree with the driver about the port (for the others see 6), for an answer to be torn, for a bit of
   Register 4 to be lost, or for a notification to be completed twice. For all of these it suffices: nothing in the
   code keeps the tail and the others apart.
3. *After a detach by PMIC 2*, VConn and the source role stay on: it does not turn them off, and the
   UC120 interrupt's own detach is then no news (`Interrupt.c:91`). `DetachedIsPoweredDown` is therefore about
   detaches stored by the UC120 interrupt (`detacher`).
4. *A success of a write is its own*, unless it began with an earlier message still unanswered (after a
   timeout), or between the interrupt's store and its signal, or the interrupt could not read the answer
   (`taint`). Without that exception it is not.
5. *A power-delivery bit* that arrives with an unchanged current level is acknowledged and dropped
   (`Interrupt.c:229`). The port half of a status never is (`AcknowledgedIsStored`).
6. *Clients miss events* when no request of theirs is waiting, when `WdfCollectionAdd` refuses it (`UC120.c:28`; it is
   then never completed, and stays lost), or when its buffer is too small (`UC120.c:43`, `69`). Only a
   `GET_CABLE_DETECTION_STATE` or the next attach or detach that they hear of brings them up to date (`missed`).
7. *`Calibrated` does not mean calibrated* (run `power_up_flag`; `Device.h:76` against `Device.c:318-322`): it is
   set whatever the calibration came to.
8. *Cable state 8* is a "USB Host" in the comment at `Interrupt.c:191` and an upstream facing port in
   the code below it (run `host`). The comments and the code also disagree about power: states 3 and 8 are "VBUS
   OFF" (`Interrupt.c:128`, `191`) and turn the source role on, 6 and 7 are "VBUS ON" (`Interrupt.c:158`, `173`) and turn
   nothing on. `SourceIsPowered` takes neither side: it is about state 2 alone, "VBUS ON" in both.
9. *An attach carried through a power cycle* is not restored: Register 5 is reset and the source role and VConn stay
   off, Register 4 says "no cable", and the port still says "attached", so that the cable's own next
   attach is no news (`Device.c:306-312`, `Interrupt.c:91`). `ToggleAcrossPower` and `SourceIsPowered` hold except
   then (`carried`).
10. *The interrupt can come back on out of D0* if the tail of PMIC 2 meets the interrupt disable, which changes
   Register 4 without the lock (`Interrupt.c:412`, `late`); otherwise it never does (`InterruptStaysOff`).
11. *A change of the cable is lost* if it comes between the read of Register 2 and its acknowledgement, or before the
   interrupt is enabled, or if Register 7 cannot be read (`lost`); otherwise the port follows the cable and
   every plug is noticed.
12. *An orphaned lock keeps the device in D0*: the framework waits for a handler that never returns.
13. *A write may be sent while the chip is without power*; it then fails or times out and is never taken for
   sent (`AnswerNeedsD0`).

## Theorems

Proved with TLAPS for every value of the constants that the assumptions of the modules allow. For the driver
(`ConstantsAssumption`): any cable states, levels, requests and message types, any number of waiting requests, reliable
or failing SPI, any set of active threads. For the transport (`TransportAssumption`): any callers, registers and
values. For reports (`ReportAssumption`): any clients, buffers and events. For the power-up: any file sizes, resource
lists and number of cycles. There is no other assumption. What a property claims only up to an overlap (`~overlap`, `~late`, `~met`) is part of the
property, not an assumption of the theorem.

| theorem | says |
|---|---|
| `ContextProofs!LockInvariance`, `LockIsExclusive` | `Spec => []LockDiscipline` |
| `ContextProofs!OnlyFailedWritesOrphan` | `Spec => OrphanedByFailedWrite` |
| `ContextProofs!TypeCorrect` | `Spec => []TypeOK` |
| `PortProofs!KnowledgeIsInvariant`, `PortIsKnown`, `AnswersTakenWhole` | `Spec => []KnowledgeInv`, `[]ClientsKnowPort`, `[]AnswersAreWhole` |
| `RegisterProofs!ToggleAgrees`, `GoodCrcKept` | `Spec => []ToggleFollowsPort`, `GoodCrcIsTheClients` |
| `RegisterProofs!ShadowsAreTrue`, `PowerRoleIsChosen` | `Spec => []ShadowsMatchChip`, `PowerRoleHasAuthor` |
| `RegisterProofs!DetachedTakesPower`, `AckIsHonest` | `Spec => []DetachedIsPoweredDown`, `[]AcknowledgedIsStored` |
| `WriteProofs!OrphanIsForever`, `SuccessIsItsOwn` | `Spec => OrphanedForGood`, `[]SuccessIsOwnAnswer` |
| `CycleProofs!TypesAcrossPower`, `LockAcrossPower`, `KnownAcrossPower` | `CycleSpec => []TypeOK`, `[]LockDiscipline`, `[](ClientsKnowPort /\ AnswersAreWhole)` |
| `CycleProofs!OnlyWritesOrphan`, `OrphanOutlivesPower` | `CycleSpec => OrphanedByFailedWrite`, `OrphanedForGood` |
| `CycleProofs!SuccessAcrossPower`, `AnswersComeInD0` | `CycleSpec => []SuccessIsOwnAnswer`, `[]AnswerNeedsD0` |
| `CycleProofs!DisabledStaysDisabled`, `EveryCycleInStep` | `CycleSpec => []InterruptStaysOff`, `[]BackInStep` |
| `CycleProofs!ToggleSurvives`, `SourcesArePowered` | `CycleSpec => []ToggleAcrossPower`, `[]SourceIsPowered` |
| `CycleProofs!FollowsTheCable` | `SideSpec => []PortFollowsCable` |
| `SpiProofs!SpiTypeCorrect`, `ReadsPersist`, `NothingElseIsLeft` | `Spec => []TypeOK`, `ReadPersists`, `[]OnlyWritesLeaveMemory`, of `SpiTransport` |
| `SpiProofs!Implements` | `Spec => ImplementsRegisterFile`: the transport refines the register file |
| `ReportProofs!ReportTypes` | `Spec => []TypeOK`, of `ReportState` |
| `ReportProofs!CompletesOnce`, `KeepsNothing`, `AnswersEveryone` | `Spec => []CompletesOnlyItsOwn`, `[]NothingKeptBack`, `[]EveryoneDueIsAnswered` |
| `ReportProofs!ReportKeepsPromise` | `Spec => KeepsPromise`: the report refines the promise |
| `PowerProofs!NothingSuppressed`, `EntryIsQuiet`, `RunsInStep` | `SetupSpec => []ReportsBeforeInterrupts`, `[]QuietDuringEntry`, `[]RunningInStep` |
| `PowerProofs!NothingIsMissing`, `TargetIsTheNewest` | `SetupSpec => []UsedIsMade`, `[]TargetIsCurrent` |
| `PowerProofs!CalibratesFromTheFile` | `SetupSpec => []CalibrationIsTheFiles` |

The argument, from the bottom:

- *Lock.* `LockInv == ControlOK /\ LockDiscipline` is inductive as it stands. Every step is one of
  `Step`, `Acquire` or `Release` by one thread, and three lemmas say what each does to it
  (`StepKeepsLock`, `AcquireKeepsLock`, `ReleaseKeepsLock`); what is left for each action is that its two
  labels are on the right sides of the lock. `WriteFail` is the one step from a critical label to
  one outside that keeps the lock, which is why `LockDiscipline` lets the writer alone own it there.
- *Types.* `DataOK`, the rest of `TypeOK`, is split by groups of variables. `PartsUntouched` says that a step
  that leaves a group alone keeps its part, so each action is left with the part that it changes.
- *Port.* `ClientsKnowPort` and `AnswersAreWhole` are not inductive: they say nothing of a thread that is
  half-way through storing or reading. `KnowledgeInv` does (`StoringInv`, `LevelInv`, `ReadingInv`): the fields
  already stored are those that were reported, the answer so far is a part of the port, and a port
  tells from its type whether it is attached. It is kept because nobody else moves the port
  meanwhile: the UC120 interrupt and the default queue exclude each other by the lock (lemma
  `Apart`, from `LockDiscipline`), and PMIC 2 is excluded by `~overlap` (`Clash => overlap`). `Known == TypeOK /\
  LockDiscipline /\ KnowledgeInv` is inductive.
- *Register 4.* `ToggleFollowsPort` and the half of `ShadowsMatchChip` about this register say nothing while a
  read-modify-write is under way. `Reg4Inv` adds what a thread has in hand: before the store a copy that differs from the
  shadow in the thread's own bit (`Own`), before the send the shadow, and from the store of the port on an event that is the
  port's. `AloneAt4` says that a thread between those labels is alone there, by the lock or by `~overlap`.
  `GoodCrcIsTheClients` follows from `Own` and `RequestInv` (the default queue is there only for that request).
- *Register 5.* `Reg5Inv` is inductive: every writer changes shadow and chip together if the bus works. `DownInv` says that
  after a detach stored by the handler nothing is powered, or the handler is still on its way to turn it off (`PowersDown`), or it is at work on
  an attach that it has not stored yet (`PowersUp`); `OthersKeepDown` that no other thread and no request turns anything on
  meanwhile.
- *Acknowledgement.* `AckInv` follows the status through the handler: what it reports (`Reported`), what it has
  stored by then (`Stored`), and that the unlocked tail of PMIC 2, which would store a detach over it, is not
  running and cannot start while the lock is held (`Undisturbed`, `Pmic2Writers`).
- The lemmas named `...Writers` say which actions write a part of the state at all. With them an invariant about that
  part needs one step for each of those and one for the rest.
- *Orphan.* From `LockInv`, an orphaned lock means that no thread is at a critical label, nor can any come
  to one; what the remaining steps may change is read off them.
- *Writes.* `SuccessIsOwnAnswer` looks at a result that is there; `AnswerInv` says at each label of the writer what
  may still come: nothing on the air until the message is sent, then only its own, and an answer stored or about to be
  signalled that is its own, or a "full".
- *Power cycles.* A step of `PowerCycle` is a step of `Ice5Lp2k` that the framework admits (`DriverStep`, `DriverIsNext`) or
  one of the power change (`PowerStep`), which leaves all of the context but the registers as it is
  (`ContextUntouched`). So the invariants above carry over (`CycleKnown`), and the new ones need one look at each
  change of power. `QuietInv` says who may be at work where: the handler only where it is connected, nobody but the
  writer once D0 has been left. It is what lets `UC120InterruptDisable` and `D0Entry` write registers without the lock.
  `OffInv` and `Reg4Cycle` follow bit 0 and the whole of Register 4 through the copies of both sides, up to
  `late`; `Reg5Cycle` says that the shadow of Register 5 is behind only until D0 entry has written it; `LitInv`
  that a signal a write waits for was given in D0.
- *Sources.* `SourceIsPowered` is about a port at rest. `SourceInv` says what it takes to get there: the handler turns
  VConn and then power on before it looks at an attach (`SourceVConn`, `SourceLooked`), turns them off only when a
  detach has been stored (`SourceGone`), and a device that wakes up with power off has a detached port or one that is
  `carried` (`SourceAsleep`).
- *The cable.* `CableInv` follows a cable state from Register 2 to the port. Once it has been read, the register holds it until it is
  cleared, or says something newer (`ChipAsks`, `StatusRead`); what the handler reports is the port of that state
  (`CableReported`), and after the comparison so is what is stored (`CableStored`). The clear is therefore honest
  unless the register has changed since the read, and that is what `lost` records. `DetachIsPmics` is there because PMIC 2
  stores detaches that no cable state asked for: it does not finish without leaving its mark in `detacher`.
- *Transport.* `PersistInv` ties `Retries` to the number of transfers that failed at every label, not only
  where a transfer is sent: without the value before the loop its first iteration would be unknown. `ReadPersists` is
  about the step that ends a call, told apart by the label it ends at (`EndingStep`).
  `SpiInv == TypeOK /\ PersistInv` is inductive. `OnlyWritesLeaveMemory` counts: `MemoryInv` says that the objects alive are one for each
  write that worked, and one or two for each caller by its label; that those callers are finitely many is part of
  it, so `Callers` itself may be infinite. For the refinement, `AbstractOp` reads off each caller's label what
  `RegisterFile` has it do (`OpOf`); a step of one caller moves its own entry alone (`OnlyOneMoves`), and each
  action is then shown to be one of the abstract ones or a stutter: the call is `Begin`, a transfer that works and the
  copy of a write are `Take`, the copy of a read `GiveShadow`, the sent write `GiveChip`, giving up at any point
  `Fail`, and a memory object made or a transfer sent again nothing at all.
- *Reports.* `ReportInv` holds until `met`, which stays (`MetStays`): `met \/ ReportInv` is inductive, and only `Begin` leaves
  the second case for the first. The one fact behind all of it is where a request is: `Placed` says that what the driver owns and has
  not answered is in exactly one of the collection, the reporter's hand and the lost, `Once` that it is nowhere twice, `Progress` that `Count`
  items are left to be answered, and `DueInv` that the requests due are still in the queue or among those. The
  collection is emptied from its head, so the item answered is the one removed (`WithoutHead`; in general
  `WdfCollectionRemove` takes away some occurrence of the object, which `Without` leaves open). For the refinement,
  `Post` and `Complete` are `Post` and `Answer` of the promise, a report that meets another calls it off, and all else
  leaves the answers alone.
- *Power-up.* `RegisterInv` says at each place on the way into D0 what the writes before it have established
  (`CalibratedInv`, `QuietInv`, `StepInv`). `SetupInv` adds that nothing that is still to be made is needed yet (`MadeInv`), and
  that a target exists as soon as one is used (`ConnectionInv`). For the calibration `CalInv` says that the writes left are
  of the file's plan.

Only model-checked: the liveness properties `HandlersReturn`, `PowerDownCompletes`, `PlugIsNoticed` and `ReportEnds`, which are
out of the prover's reach. The formulas of `RegisterBytes` are compared by TLC for all 256 bytes, which is all of their values.
Every invariant, action property and refinement that a passing run checks is also proved, of the specification that the run
checks it of; so the inductive invariants, which were model-checked while they were being written, need no runs of
their own.

## Limits of the model

- Five named threads. KMDF serialises each of these callbacks with itself: the passive-level
  interrupts have their own locks, and the default and the write queue dispatch sequentially.
- Payloads and lengths of PD messages are not modelled; of a length only "zero or not" is. Allocation
  failures in `UC120FulfillIncomingMessage` end in a completed read, as its success does.
- The chip is free to do anything, except as said above. That it detaches between two attaches,
  for instance, is not assumed.
- `DeviceContext` starts after a power-up in which all writes succeeded; what failed writes leave behind on the
  way into D0 is in `PowerUp`, and in `PowerCycle` from the second cycle on.
- The calibration file is not part of `PowerCycle`; the objects and the SPI target are only in `Setup`. A
  rebalance happens there out of D0 with no write in progress: `PrepareHardware` initializes `PdEvent` again, and what that does
  to a write that is waiting on it is the kernel's.
- `Register 0` (lengths, hard reset), 3, 6, 8 and 13 are written and never read.
- The chip's side in `CableSide` is an assumption drawn from the handler: one status at a time, cleared by writing
  0xFF, the line held until then.
- Request cancellation is the framework's, and the driver registers no callback for it.

## Not modelled

`DriverEntry`, `Ice5Lp2kEvtDeviceAdd` and the cleanup callback register callbacks, call one function and trace. They have
no state of their own and no order but the one in which the framework calls them, and what they can get
wrong (a missing registration) is not expressible in a model that starts where they end. `PlugdetInterruptIsr` only
traces. Payloads of PD messages are copied, never looked at. The `.inf` and the build files do not run.

## Plan

Done: all callbacks over their shared context, power cycles, the cable's side, creation, the transport; two
refinements, both proved; a proof of every safety property. What is left:

1. what `Ice5Lp2k` alone is proved to do and `PowerCycle` may or may not: that the client's good-CRC bit survives a power cycle
   (`GoodCrcIsTheClients` up to `late`), and that a detach takes power and VConn away in each cycle (`DetachedIsPoweredDown`);
2. that `SourceIsPowered` holds over `CableSide` of what is plugged, not only of what is stored;
3. which overlaps of two reports are harmless: `met` calls the promise off for all of them.
