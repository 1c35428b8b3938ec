---------------------------- MODULE SpiTransport ----------------------------
(***************************************************************************)
(* SpiTransport.c: UC120SpiRead and UC120SpiWrite, with the WDF memory     *)
(* objects they create and delete, the buffers they copy through and the   *)
(* loop that sends a read again. Any number of callers may be inside them: *)
(* PmicInterrupt2Isr calls UC120SpiWrite without the lock that the others  *)
(* hold. A caller passes the address of its variable for the register.     *)
(***************************************************************************)
EXTENDS Integers

CONSTANTS Callers,     \* threads that may be inside a transfer at once
          Registers,   \* registers of the chip they use
          Volatile,    \* those the chip changes by itself
          Values,      \* what a register may hold
          MaxWritten   \* bound: writes that succeed

ASSUME TransportAssumption ==
  /\ Registers # {} /\ Volatile \subseteq Registers
  /\ 0 \in Values
  /\ MaxWritten \in Nat

VARIABLES
  chip,      \* the chip's registers
  shadow,    \* the caller's variable for each register
  pc,        \* where each caller is
  reg,       \* RegisterAddr
  buffer,    \* what the caller's SPI buffer holds
  retries,   \* Retries
  outcome,   \* the status last returned to the caller
  failed,    \* ghost: transfers of this call that failed
  live,      \* memory objects that exist
  written    \* ghost: writes that succeeded

vars == <<chip, shadow, pc, reg, buffer, retries, outcome, failed, live,
          written>>
sides == <<chip, shadow>>
locals == <<reg, buffer, retries>>
ghosts == <<failed, written>>

Reading == {"createInput", "createOutput", "sendRead", "copyOut"}
Writing == {"createBuffer", "copyIn", "sendWrite"}
Attempts == 4
-----------------------------------------------------------------------------
Zeroed == 0     \* what a fresh buffer holds
AnyRegister == CHOOSE r \in Registers : TRUE

Init == /\ chip \in [Registers -> Values]
        /\ shadow \in [Registers -> Values]
        /\ pc = [c \in Callers |-> "idle"]
        /\ reg = [c \in Callers |-> AnyRegister]
        /\ buffer = [c \in Callers |-> Zeroed]
        /\ retries = [c \in Callers |-> 3]
        /\ outcome = [c \in Callers |-> "none"]
        /\ failed = [c \in Callers |-> 0]
        /\ live = 0
        /\ written = 0

Go(c, from, to) == pc[c] = from /\ pc' = [pc EXCEPT ![c] = to]
Set(f, c, v) == [f EXCEPT ![c] = v]

\* goto exit, with the status of the last call and what is deleted before it.
\* The locals are gone.
Return(c, from, status, deleted) ==
  /\ Go(c, from, "idle")
  /\ outcome' = Set(outcome, c, status)
  /\ live' = live - deleted
  /\ reg' = Set(reg, c, AnyRegister)
  /\ buffer' = Set(buffer, c, Zeroed)
  /\ retries' = Set(retries, c, 3)

\* WdfMemoryCreate, which may fail; deleted is what the caller then deletes.
WdfMemoryCreate(c, from, to, deleted) ==
  /\ \/ Go(c, from, to) /\ live' = live + 1 /\ UNCHANGED <<locals, outcome>>
     \/ Return(c, from, "failed", deleted)
  /\ UNCHANGED <<sides, ghosts>>
-----------------------------------------------------------------------------
CallRead(c) ==
  /\ Go(c, "idle", "createInput")
  /\ \E r \in Registers : reg' = Set(reg, c, r)
  /\ outcome' = Set(outcome, c, "none")
  /\ failed' = Set(failed, c, 0)
  /\ UNCHANGED <<sides, buffer, retries, live, written>>

CreateInput(c) == WdfMemoryCreate(c, "createInput", "createOutput", 0)
CreateOutput(c) == WdfMemoryCreate(c, "createOutput", "sendRead", 1)

SlipAgain(left) == left > 0
SlipOnceMore(left) == left >= -1
Again(left) == left >= 0

\* One full-duplex transfer. If it works the buffer holds the register.
TransferWorks(c) ==
  /\ Go(c, "sendRead", "copyOut")
  /\ buffer' = Set(buffer, c, chip[reg[c]])
  /\ retries' = Set(retries, c, retries[c] - 1)
  /\ UNCHANGED <<sides, reg, outcome, live, ghosts>>

SlipCopyAnyway(c) ==
  /\ failed' = Set(failed, c, failed[c] + 1)
  /\ IF Again(retries[c] - 1)
     THEN /\ Go(c, "sendRead", "sendRead")
          /\ retries' = Set(retries, c, retries[c] - 1)
          /\ UNCHANGED <<shadow, reg, buffer, outcome, live>>
     ELSE /\ Return(c, "sendRead", "failed", 2)
          /\ shadow' = Set(shadow, reg[c], buffer[c])
  /\ UNCHANGED <<chip, written>>

\* If it fails it is sent again until Retries is negative; then both memory
\* objects are deleted and the caller's variable is left alone.
TransferFails(c) ==
  /\ failed' = Set(failed, c, failed[c] + 1)
  /\ IF Again(retries[c] - 1)
     THEN /\ Go(c, "sendRead", "sendRead")
          /\ retries' = Set(retries, c, retries[c] - 1)
          /\ UNCHANGED <<reg, buffer, outcome, live>>
     ELSE Return(c, "sendRead", "failed", 2)
  /\ UNCHANGED <<sides, written>>

CopyOut(c) ==
  /\ shadow' = Set(shadow, reg[c], buffer[c])
  /\ Return(c, "copyOut", "ok", 2)
  /\ UNCHANGED <<chip, ghosts>>

UC120SpiRead(c) == \/ CallRead(c) \/ CreateInput(c) \/ CreateOutput(c)
                   \/ TransferWorks(c) \/ TransferFails(c) \/ CopyOut(c)
-----------------------------------------------------------------------------
CallWrite(c) ==
  /\ written < MaxWritten
  /\ Go(c, "idle", "createBuffer")
  /\ \E r \in Registers : reg' = Set(reg, c, r)
  /\ outcome' = Set(outcome, c, "none")
  /\ failed' = Set(failed, c, 0)
  /\ UNCHANGED <<sides, buffer, retries, live, written>>

CreateBuffer(c) == WdfMemoryCreate(c, "createBuffer", "copyIn", 0)

CopyIn(c) ==
  /\ Go(c, "copyIn", "sendWrite")
  /\ buffer' = Set(buffer, c, shadow[reg[c]])
  /\ UNCHANGED <<sides, reg, retries, outcome, live, ghosts>>

SlipDeleteOnSuccess(c) ==
  /\ chip' = Set(chip, reg[c], buffer[c])
  /\ Return(c, "sendWrite", "ok", 1)
  /\ written' = written + 1
  /\ UNCHANGED <<shadow, failed>>

\* One transfer, never repeated. The memory object of a write that works is
\* not deleted.
SendWorks(c) ==
  /\ chip' = Set(chip, reg[c], buffer[c])
  /\ Return(c, "sendWrite", "ok", 0)
  /\ written' = written + 1
  /\ UNCHANGED <<shadow, failed>>

\* A write that fails, or times out, may have reached the chip.
SendFails(c) ==
  /\ \/ UNCHANGED chip
     \/ chip' = Set(chip, reg[c], buffer[c])
  /\ failed' = Set(failed, c, failed[c] + 1)
  /\ Return(c, "sendWrite", "failed", 1)
  /\ UNCHANGED <<shadow, written>>

UC120SpiWrite(c) == \/ CallWrite(c) \/ CreateBuffer(c) \/ CopyIn(c)
                    \/ SendWorks(c) \/ SendFails(c)
-----------------------------------------------------------------------------
\* Meanwhile another caller changes a variable, or the chip a register.
ShadowChanges == /\ \E r \in Registers, v \in Values :
                      shadow' = Set(shadow, r, v)
                 /\ UNCHANGED <<chip, pc, locals, outcome, live, ghosts>>
ChipChanges == /\ \E r \in Volatile, v \in Values : chip' = Set(chip, r, v)
               /\ UNCHANGED <<shadow, pc, locals, outcome, live, ghosts>>

Next == \/ \E c \in Callers : UC120SpiRead(c) \/ UC120SpiWrite(c)
        \/ ShadowChanges \/ ChipChanges

Spec == Init /\ [][Next]_vars
-----------------------------------------------------------------------------
TypeOK == /\ chip \in [Registers -> Values] /\ shadow \in [Registers -> Values]
          /\ pc \in [Callers -> {"idle"} \cup Reading \cup Writing]
          /\ reg \in [Callers -> Registers]
          /\ buffer \in [Callers -> Values]
          /\ retries \in [Callers -> -1 .. 3]
          /\ outcome \in [Callers -> {"none", "ok", "failed"}]
          /\ failed \in [Callers -> 0 .. Attempts]
          /\ live \in Int /\ written \in Nat

\* How a call ends. One that could not create a memory object has sent nothing.
\* A read fails only when all four of its transfers have failed, and works
\* when one of them has, after three failures at most. A write fails with its
\* first transfer: it is never sent again.
ReadPersists ==
  [][\A c \in Callers : outcome[c] = "none" /\ outcome'[c] # "none" =>
       /\ pc[c] \notin {"sendRead", "copyOut", "sendWrite"} =>
            outcome'[c] = "failed" /\ failed'[c] = 0
       /\ pc[c] = "sendRead" => outcome'[c] = "failed" /\ failed'[c] = Attempts
       /\ pc[c] = "copyOut" => outcome'[c] = "ok" /\ failed'[c] < Attempts
       /\ pc[c] = "sendWrite" =>
            failed'[c] = IF outcome'[c] = "failed" THEN 1 ELSE 0]_vars

\* While no transfer is under way the memory objects that exist are those of
\* the writes that succeeded, one for each: reads and failed writes, at
\* whichever of their steps they failed, leave nothing behind.
OnlyWritesLeaveMemory ==
  (\A c \in Callers : pc[c] = "idle") => live = written

(***************************************************************************)
(* The transfers implement RegisterFile, the register file that the other  *)
(* modules take the chip to be.                                            *)
(***************************************************************************)
OpOf(at, r, value) ==
  CASE at \in {"createInput", "createOutput", "sendRead"} ->
         [kind |-> "reading", reg |-> r]
    [] at = "copyOut" -> [kind |-> "got", reg |-> r, value |-> value]
    [] at \in {"createBuffer", "copyIn"} -> [kind |-> "writing", reg |-> r]
    [] at = "sendWrite" -> [kind |-> "taken", reg |-> r, value |-> value]
    [] OTHER -> [kind |-> "idle"]

AbstractOp == [c \in Callers |-> OpOf(pc[c], reg[c], buffer[c])]

Abstract == INSTANCE RegisterFile WITH op <- AbstractOp

\* Whatever retries, failed allocations and other callers come between, a
\* transfer is a step that takes the value and a step that gives it, or a
\* failure that at most wrote what was to be written.
ImplementsRegisterFile == Abstract!Spec
=============================================================================
