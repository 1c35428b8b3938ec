------------------------------- MODULE PowerUp -------------------------------
(***************************************************************************)
(* The device's way into and out of D0: UC120EvtDeviceD0Entry with         *)
(* UC120Calibrate, then UC120InterruptEnable; UC120InterruptDisable on the *)
(* way out. Every SPI write may fail, and one that fails may have reached  *)
(* the chip. The framework does not go on with a device whose D0Entry or   *)
(* interrupt enable returned an error.                                     *)
(***************************************************************************)
EXTENDS Integers, Sequences

CONSTANTS Sizes,        \* sizes the calibration file may have
          MaxCycles     \* bound: times the device goes through D0

ASSUME PowerAssumption == Sizes \subseteq Nat /\ MaxCycles \in Nat

VARIABLES
  pc,          \* the next thing to do
  cycles,      \* times D0 has been entered
  file,        \* the calibration file: present, its size, is it version 2
  reg4, chip4, \* Register4: "irq" (bit 0), "toggle" (1), "bit2" (2)
  reg5, chip5, \* Register5: "bit3" (3), "bit7" (7)
  plan,        \* calibration writes still to do
  cal,         \* the calibration registers, 18 .. 27
  ok,          \* did the last call succeed? (status)
  calibrated   \* Calibrated

vars == <<pc, cycles, file, reg4, chip4, reg5, chip5, plan, cal, ok,
          calibrated>>
registers4 == <<reg4, chip4>>
registers5 == <<reg5, chip5>>
calVars == <<plan, cal, calibrated>>

CalRegisters == 18 .. 27
Unset == -2             \* a calibration register nobody has written
Zero == -1              \* a byte of the blob that the file did not fill

\* Byte i of CalibrationBlob, which is zeroed before the file is read into it.
Byte(i) == IF i < file.size THEN i ELSE Zero

\* Which byte of the blob goes to which register, in the order of the writes.
FirstVersion == [i \in 1 .. 8 |-> [reg |-> 17 + i, byte |-> i - 1]]
SecondVersion ==
  LET regs == <<18, 19, 20, 21, 26, 22, 23, 24, 25, 27>>
  IN [i \in 1 .. 10 |-> [reg |-> regs[i], byte |-> i]]

SlipShortToo == IF file.size <= 8 THEN FirstVersion
                ELSE IF file.second THEN SecondVersion
                ELSE <<>>

\* A file of any other size, or a long one of another version, is skipped
\* without an error.
Plan == IF file.size = 8 THEN FirstVersion
        ELSE IF file.size > 8 /\ file.second THEN SecondVersion
        ELSE <<>>
-----------------------------------------------------------------------------
\* The context and the chip as they are at first.
Fresh ==
  /\ cycles = 0
  /\ file \in [present : BOOLEAN, size : Sizes, second : BOOLEAN]
  /\ reg4 = {} /\ chip4 = {}
  /\ reg5 = {} /\ chip5 = {}
  /\ plan = <<>>
  /\ cal = [r \in CalRegisters |-> Unset]
  /\ ok = TRUE
  /\ calibrated = FALSE

Init == pc = "off" /\ Fresh

Go(from, to) == pc = from /\ pc' = to

\* One SPI write: it works, or it fails with or without having an effect.
Write4(bits) == /\ reg4' = bits
                /\ \/ ok' = TRUE /\ chip4' = bits
                   \/ ok' = FALSE /\ chip4' \in {bits, chip4}
Write5(bits) == /\ reg5' = bits
                /\ \/ ok' = TRUE /\ chip5' = bits
                   \/ ok' = FALSE /\ chip5' \in {bits, chip5}

SlipGoOn(next) == next

\* What follows a call whose error is returned to the framework.
IfOk(next) == IF ok' THEN next ELSE "failed"
-----------------------------------------------------------------------------
\* UC120EvtDeviceD0Entry. The shadow of Register4 is kept from the last time.
Entry4 ==
  /\ cycles < MaxCycles
  /\ cycles' = cycles + 1
  /\ Write4(reg4 \cup {"toggle", "bit2"})
  /\ Go("off", IfOk("entry5"))
  /\ UNCHANGED <<file, registers5, calVars>>

Entry5 ==
  /\ Write5({"bit3", "bit7"})
  /\ Go("entry5", IfOk("entry13"))
  /\ UNCHANGED <<cycles, file, registers4, calVars>>

\* Register 13 is written, and nothing else reads it.
Entry13 ==
  /\ ok' \in BOOLEAN
  /\ Go("entry13", IfOk("file"))
  /\ UNCHANGED <<cycles, file, registers4, registers5, calVars>>

\* UC120Calibrate: without a file there is nothing to do; a file that cannot
\* be examined or read is an error.
ReadFile ==
  /\ Go("file", "calibrate")
  /\ \/ ok' = TRUE /\ plan' = IF file.present THEN Plan ELSE <<>>
     \/ file.present /\ ok' = FALSE /\ plan' = <<>>
  /\ UNCHANGED <<cycles, file, registers4, registers5, cal, calibrated>>

\* The status of each write overwrites that of the write before.
CalibrateStep ==
  LET w == Head(plan)
  IN /\ plan # <<>>
     /\ Go("calibrate", "calibrate")
     /\ plan' = Tail(plan)
     /\ \/ ok' = TRUE /\ cal' = [cal EXCEPT ![w.reg] = Byte(w.byte)]
        \/ ok' = FALSE /\ cal' \in {cal, [cal EXCEPT ![w.reg] = Byte(w.byte)]}
     /\ UNCHANGED <<cycles, file, registers4, registers5, calibrated>>

SlipOnlyWithFile ==
  /\ plan = <<>>
  /\ calibrated' = file.present
  /\ Go("calibrate", IF ok THEN "enable2" ELSE "failed")
  /\ UNCHANGED <<cycles, file, registers4, registers5, plan, cal, ok>>

\* Calibrated is set whatever UC120Calibrate returned; D0Entry returns that.
EntryDone ==
  /\ plan = <<>>
  /\ calibrated' = TRUE
  /\ Go("calibrate", IF ok THEN "enable2" ELSE "failed")
  /\ UNCHANGED <<cycles, file, registers4, registers5, plan, cal, ok>>

\* UC120InterruptEnable: Registers 2 and 3 are acknowledged, the interrupt is
\* turned on in Register 4, bit 7 of Register 5 cleared, Register 7 read.
Enable23 ==
  /\ ok' \in BOOLEAN
  /\ Go("enable2", IfOk("enable4"))
  /\ UNCHANGED <<cycles, file, registers4, registers5, calVars>>

Enable4 ==
  /\ Write4(reg4 \cup {"irq"})
  /\ Go("enable4", IfOk("enable5"))
  /\ UNCHANGED <<cycles, file, registers5, calVars>>

Enable5 ==
  /\ Write5(reg5 \ {"bit7"})
  /\ Go("enable5", IfOk("enable7"))
  /\ UNCHANGED <<cycles, file, registers4, calVars>>

Enable7 ==
  /\ ok' \in BOOLEAN
  /\ Go("enable7", IfOk("on"))
  /\ UNCHANGED <<cycles, file, registers4, registers5, calVars>>

SlipLeaveEnabled ==
  /\ Write4(reg4)
  /\ Go("on", "leave")
  /\ UNCHANGED <<cycles, file, registers5, calVars>>

\* UC120InterruptDisable, and the end of D0, for which there is no callback:
\* the chip keeps its registers, or loses them with its power.
Disable ==
  /\ Write4(reg4 \ {"irq"})
  /\ Go("on", "leave")
  /\ UNCHANGED <<cycles, file, registers5, calVars>>

LeaveD0 ==
  /\ Go("leave", "off")
  /\ \/ UNCHANGED <<chip4, chip5, cal>>
     \/ chip4' = {} /\ chip5' = {} /\ cal' = [r \in CalRegisters |-> Unset]
  /\ UNCHANGED <<cycles, file, reg4, reg5, plan, ok, calibrated>>

Next == \/ Entry4 \/ Entry5 \/ Entry13 \/ ReadFile \/ CalibrateStep \/ EntryDone
        \/ Enable23 \/ Enable4 \/ Enable5 \/ Enable7 \/ Disable \/ LeaveD0

Spec == Init /\ [][Next]_vars
-----------------------------------------------------------------------------
\* Before the interrupt is enabled, reports are (Calibrated = 1): no report of
\* the interrupt handler is ever suppressed, in the first cycle or a later one.
ReportsBeforeInterrupts == "irq" \in chip4 => calibrated

\* While D0Entry is at work after its first write the chip does not interrupt,
\* although it may have kept Register 4 from before, and the write that was to
\* clear the interrupt when D0 was left may have failed.
QuietDuringEntry ==
  pc \in {"entry5", "entry13", "file", "calibrate", "enable2"}
    => "irq" \notin chip4

\* A device that runs has both control registers as the driver believes, in
\* the first cycle and in every later one.
RunningInStep == pc = "on" => chip4 = reg4 /\ chip5 = reg5

\* A calibration register holds the byte the file has for it or what it held
\* before; a whole file never leaves it a filler byte.
CalibrationIsTheFiles ==
  \A r \in CalRegisters :
    \/ cal[r] = Unset
    \/ file.present /\ \E i \in 1 .. Len(Plan) :
         /\ Plan[i].reg = r
         /\ cal[r] = Byte(Plan[i].byte)
         /\ file.size \notin {9, 10} => cal[r] # Zero

\* Device.h says of Calibrated: "When UC120 is calibrated, set to 1". Read as:
\* with the flag set and D0 entered, every register the file has a byte for
\* holds it.
CalibratedMeansCalibrated ==
  calibrated /\ pc = "on" /\ file.present =>
    \A i \in 1 .. Len(Plan) : cal[Plan[i].reg] = Byte(Plan[i].byte)
=============================================================================
