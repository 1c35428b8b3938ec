---------------------------- MODULE RegisterFile ----------------------------
(***************************************************************************)
(* What UC120SpiRead and UC120SpiWrite promise their callers, and what the *)
(* other modules take a transfer to be: a read fails and changes nothing,  *)
(* or gives the caller's shadow a value the register really had during the *)
(* call; a write sends the shadow as it was at one moment of the call, and *)
(* if it fails the register has that value or keeps its own.               *)
(***************************************************************************)
CONSTANTS Callers,     \* threads that may be inside a transfer at once
          Registers,   \* registers of the chip they use
          Volatile,    \* those the chip changes by itself
          Values       \* what a register may hold

VARIABLES chip,        \* the chip's registers
          shadow,      \* the caller's variable for each register
          op,          \* what each caller is doing
          outcome      \* how its last transfer ended

vars == <<chip, shadow, op, outcome>>

\* "reading" and "writing" have taken no value yet, "got" and "taken" have.
Idle == [kind |-> "idle"]
Op == {Idle} \cup [kind : {"reading", "writing"}, reg : Registers]
             \cup [kind : {"got", "taken"}, reg : Registers, value : Values]

Init == /\ chip \in [Registers -> Values]
        /\ shadow \in [Registers -> Values]
        /\ op = [c \in Callers |-> Idle]
        /\ outcome = [c \in Callers |-> "none"]

Become(c, next) == op' = [op EXCEPT ![c] = next]
Return(c, status) == /\ Become(c, Idle)
                     /\ outcome' = [outcome EXCEPT ![c] = status]

Begin(c) == /\ op[c] = Idle
            /\ \E k \in {"reading", "writing"}, r \in Registers :
                 Become(c, [kind |-> k, reg |-> r])
            /\ outcome' = [outcome EXCEPT ![c] = "none"]
            /\ UNCHANGED <<chip, shadow>>

\* A value is taken from where it is, ...
Take(c) == /\ op[c].kind \in {"reading", "writing"}
           /\ Become(c, IF op[c].kind = "reading"
                        THEN [kind |-> "got", reg |-> op[c].reg,
                              value |-> chip[op[c].reg]]
                        ELSE [kind |-> "taken", reg |-> op[c].reg,
                              value |-> shadow[op[c].reg]])
           /\ UNCHANGED <<chip, shadow, outcome>>

\* ... and later put where it is wanted.
GiveShadow(c) == /\ op[c].kind = "got"
                 /\ shadow' = [shadow EXCEPT ![op[c].reg] = op[c].value]
                 /\ Return(c, "ok")
                 /\ UNCHANGED chip

GiveChip(c) == /\ op[c].kind = "taken"
               /\ chip' = [chip EXCEPT ![op[c].reg] = op[c].value]
               /\ Return(c, "ok")
               /\ UNCHANGED shadow

\* A call fails before it has a value, or, a write, in sending it.
Fail(c) == /\ op[c].kind \in {"reading", "writing", "taken"}
           /\ Return(c, "failed")
           /\ \/ UNCHANGED chip
              \/ /\ op[c].kind = "taken"
                 /\ chip' = [chip EXCEPT ![op[c].reg] = op[c].value]
           /\ UNCHANGED shadow

\* Meanwhile any caller's shadow, or the chip, may change.
Modify == /\ \E r \in Registers, v \in Values :
               \/ shadow' = [shadow EXCEPT ![r] = v] /\ UNCHANGED chip
               \/ r \in Volatile /\ chip' = [chip EXCEPT ![r] = v]
                  /\ UNCHANGED shadow
          /\ UNCHANGED <<op, outcome>>

Next == \/ \E c \in Callers : Begin(c) \/ Take(c) \/ GiveShadow(c)
                              \/ GiveChip(c) \/ Fail(c)
        \/ Modify

Spec == Init /\ [][Next]_vars
=============================================================================
