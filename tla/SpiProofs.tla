------------------------------ MODULE SpiProofs ------------------------------
(***************************************************************************)
(* Theorems about SpiTransport: its type, the persistence of a read, and   *)
(* that it implements RegisterFile, for any callers, registers and values. *)
(***************************************************************************)
EXTENDS SpiTransport, FiniteSetTheorems, TLAPS

\* Why a read persists: how many transfers have failed is known from Retries
\* while one is being sent, and before that none has.
PersistInv ==
  \A c \in Callers :
    /\ pc[c] # "idle" => outcome[c] = "none"
    /\ pc[c] \in {"idle", "createInput", "createOutput"} => retries[c] = 3
    /\ pc[c] \in {"createInput", "createOutput"} \cup Writing => failed[c] = 0
    /\ pc[c] \in {"sendRead", "copyOut"} => failed[c] \in 0 .. 3
    /\ pc[c] = "sendRead" => retries[c] = 3 - failed[c]

SpiInv == TypeOK /\ PersistInv
-----------------------------------------------------------------------------
LEMMA SpiInitially == Init => SpiInv
  <1> USE TransportAssumption
  <1>1. AnyRegister \in Registers
    BY DEF AnyRegister
  <1>2. QED
    BY <1>1 DEF Init, SpiInv, TypeOK, PersistInv, Zeroed, Attempts

LEMMA SpiStep == SpiInv /\ [Next]_vars => SpiInv'
  <1> SUFFICES ASSUME SpiInv, [Next]_vars
               PROVE  SpiInv'
    OBVIOUS
  <1> USE TransportAssumption DEF Reading, Writing, Attempts
  <1>0. AnyRegister \in Registers
    BY DEF AnyRegister
  <1>1. ASSUME NEW d \in Callers, CallRead(d)
        PROVE  SpiInv'
    <2>1. TypeOK'
      BY <1>0, <1>1 DEF SpiInv, TypeOK, PersistInv, CallRead, Go, Set, locals, sides, ghosts
    <2>2. PersistInv'
      BY <1>0, <1>1 DEF SpiInv, TypeOK, PersistInv, CallRead, Go, Set, locals, sides, ghosts
    <2>3. QED
      BY <2>1, <2>2 DEF SpiInv
  <1>2. ASSUME NEW d \in Callers, CreateInput(d)
        PROVE  SpiInv'
    <2>1. TypeOK'
      BY <1>0, <1>2 DEF SpiInv, TypeOK, PersistInv, CreateInput, WdfMemoryCreate, Go, Set, Return, Zeroed, locals, sides, ghosts
    <2>2. PersistInv'
      BY <1>0, <1>2 DEF SpiInv, TypeOK, PersistInv, CreateInput, WdfMemoryCreate, Go, Set, Return, Zeroed, locals, sides, ghosts
    <2>3. QED
      BY <2>1, <2>2 DEF SpiInv
  <1>3. ASSUME NEW d \in Callers, CreateOutput(d)
        PROVE  SpiInv'
    <2>1. TypeOK'
      BY <1>0, <1>3 DEF SpiInv, TypeOK, PersistInv, CreateOutput, WdfMemoryCreate, Go, Set, Return, Zeroed, locals, sides, ghosts
    <2>2. PersistInv'
      BY <1>0, <1>3 DEF SpiInv, TypeOK, PersistInv, CreateOutput, WdfMemoryCreate, Go, Set, Return, Zeroed, locals, sides, ghosts
    <2>3. QED
      BY <2>1, <2>2 DEF SpiInv
  <1>4. ASSUME NEW d \in Callers, TransferWorks(d)
        PROVE  SpiInv'
    <2>1. TypeOK'
      BY <1>0, <1>4 DEF SpiInv, TypeOK, PersistInv, TransferWorks, Go, Set, locals, sides, ghosts
    <2>2. PersistInv'
      BY <1>0, <1>4 DEF SpiInv, TypeOK, PersistInv, TransferWorks, Go, Set, locals, sides, ghosts
    <2>3. QED
      BY <2>1, <2>2 DEF SpiInv
  <1>5. ASSUME NEW d \in Callers, TransferFails(d)
        PROVE  SpiInv'
    <2>1. TypeOK'
      BY <1>0, <1>5 DEF SpiInv, TypeOK, PersistInv, TransferFails, Again, Go, Set, Return, Zeroed, locals, sides, ghosts
    <2>2. PersistInv'
      BY <1>0, <1>5 DEF SpiInv, TypeOK, PersistInv, TransferFails, Again, Go, Set, Return, Zeroed, locals, sides, ghosts
    <2>3. QED
      BY <2>1, <2>2 DEF SpiInv
  <1>6. ASSUME NEW d \in Callers, CopyOut(d)
        PROVE  SpiInv'
    <2>1. TypeOK'
      BY <1>0, <1>6 DEF SpiInv, TypeOK, PersistInv, CopyOut, Go, Set, Return, Zeroed, locals, sides, ghosts
    <2>2. PersistInv'
      BY <1>0, <1>6 DEF SpiInv, TypeOK, PersistInv, CopyOut, Go, Set, Return, Zeroed, locals, sides, ghosts
    <2>3. QED
      BY <2>1, <2>2 DEF SpiInv
  <1>7. ASSUME NEW d \in Callers, CallWrite(d)
        PROVE  SpiInv'
    <2>1. TypeOK'
      BY <1>0, <1>7 DEF SpiInv, TypeOK, PersistInv, CallWrite, Go, Set, locals, sides, ghosts
    <2>2. PersistInv'
      BY <1>0, <1>7 DEF SpiInv, TypeOK, PersistInv, CallWrite, Go, Set, locals, sides, ghosts
    <2>3. QED
      BY <2>1, <2>2 DEF SpiInv
  <1>8. ASSUME NEW d \in Callers, CreateBuffer(d)
        PROVE  SpiInv'
    <2>1. TypeOK'
      BY <1>0, <1>8 DEF SpiInv, TypeOK, PersistInv, CreateBuffer, WdfMemoryCreate, Go, Set, Return, Zeroed, locals, sides, ghosts
    <2>2. PersistInv'
      BY <1>0, <1>8 DEF SpiInv, TypeOK, PersistInv, CreateBuffer, WdfMemoryCreate, Go, Set, Return, Zeroed, locals, sides, ghosts
    <2>3. QED
      BY <2>1, <2>2 DEF SpiInv
  <1>9. ASSUME NEW d \in Callers, CopyIn(d)
        PROVE  SpiInv'
    <2>1. TypeOK'
      BY <1>0, <1>9 DEF SpiInv, TypeOK, PersistInv, CopyIn, Go, Set, locals, sides, ghosts
    <2>2. PersistInv'
      BY <1>0, <1>9 DEF SpiInv, TypeOK, PersistInv, CopyIn, Go, Set, locals, sides, ghosts
    <2>3. QED
      BY <2>1, <2>2 DEF SpiInv
  <1>10. ASSUME NEW d \in Callers, SendWorks(d)
        PROVE  SpiInv'
    <2>1. TypeOK'
      BY <1>0, <1>10 DEF SpiInv, TypeOK, PersistInv, SendWorks, Go, Set, Return, Zeroed, locals, sides, ghosts
    <2>2. PersistInv'
      BY <1>0, <1>10 DEF SpiInv, TypeOK, PersistInv, SendWorks, Go, Set, Return, Zeroed, locals, sides, ghosts
    <2>3. QED
      BY <2>1, <2>2 DEF SpiInv
  <1>11. ASSUME NEW d \in Callers, SendFails(d)
        PROVE  SpiInv'
    <2>1. TypeOK'
      BY <1>0, <1>11 DEF SpiInv, TypeOK, PersistInv, SendFails, Go, Set, Return, Zeroed, locals, sides, ghosts
    <2>2. PersistInv'
      BY <1>0, <1>11 DEF SpiInv, TypeOK, PersistInv, SendFails, Go, Set, Return, Zeroed, locals, sides, ghosts
    <2>3. QED
      BY <2>1, <2>2 DEF SpiInv
  <1>12. CASE ShadowChanges \/ ChipChanges
    BY <1>12 DEF SpiInv, TypeOK, PersistInv, ShadowChanges, ChipChanges, Set, locals, ghosts
  <1>13. CASE UNCHANGED vars
    BY <1>13 DEF SpiInv, TypeOK, PersistInv, vars
  <1>14. QED
    BY <1>1, <1>2, <1>3, <1>4, <1>5, <1>6, <1>7, <1>8, <1>9, <1>10, <1>11, <1>12, <1>13 DEF Next, UC120SpiRead, UC120SpiWrite

\* Every variable of the transport keeps its type, for any callers.
THEOREM SpiTypeCorrect == Spec => []TypeOK
  <1>1. SpiInv => TypeOK
    BY DEF SpiInv
  <1>2. QED
    BY SpiInitially, SpiStep, <1>1, PTL DEF Spec

\* A step that ends a call has the failures of that call behind it.
LEMMA EndingStep ==
  ASSUME SpiInv, Next, NEW c \in Callers,
         outcome[c] = "none", outcome'[c] # "none"
  PROVE  /\ pc[c] \notin {"sendRead", "copyOut", "sendWrite"} =>
              outcome'[c] = "failed" /\ failed'[c] = 0
         /\ pc[c] = "sendRead" => outcome'[c] = "failed" /\ failed'[c] = Attempts
         /\ pc[c] = "copyOut" => outcome'[c] = "ok" /\ failed'[c] < Attempts
         /\ pc[c] = "sendWrite" =>
              failed'[c] = IF outcome'[c] = "failed" THEN 1 ELSE 0
  <1> USE DEF SpiInv, TypeOK, PersistInv, Go, Set, Return, Reading, Writing, Attempts
  <1>1. ASSUME NEW d \in Callers,
               \/ CallRead(d) \/ TransferWorks(d) \/ CallWrite(d) \/ CopyIn(d)
        PROVE  FALSE
    BY <1>1 DEF CallRead, TransferWorks, CallWrite, CopyIn
  <1>2. ASSUME NEW d \in Callers, CreateInput(d) \/ CreateOutput(d) \/ CreateBuffer(d)
        PROVE  /\ pc[c] \in {"createInput", "createOutput", "createBuffer"}
               /\ outcome'[c] = "failed" /\ failed'[c] = 0
    BY <1>2 DEF CreateInput, CreateOutput, CreateBuffer, WdfMemoryCreate, ghosts
  <1>3. ASSUME NEW d \in Callers, TransferFails(d)
        PROVE  pc[c] = "sendRead" /\ outcome'[c] = "failed" /\ failed'[c] = Attempts
    BY <1>3 DEF TransferFails, Again
  <1>4. ASSUME NEW d \in Callers, CopyOut(d)
        PROVE  pc[c] = "copyOut" /\ outcome'[c] = "ok" /\ failed'[c] < Attempts
    BY <1>4 DEF CopyOut, ghosts
  <1>5. ASSUME NEW d \in Callers, SendWorks(d)
        PROVE  pc[c] = "sendWrite" /\ outcome'[c] = "ok" /\ failed'[c] = 0
    BY <1>5 DEF SendWorks
  <1>6. ASSUME NEW d \in Callers, SendFails(d)
        PROVE  pc[c] = "sendWrite" /\ outcome'[c] = "failed" /\ failed'[c] = 1
    BY <1>6 DEF SendFails
  <1>7. ~ShadowChanges /\ ~ChipChanges
    BY DEF ShadowChanges, ChipChanges
  <1>8. QED
    BY <1>1, <1>2, <1>3, <1>4, <1>5, <1>6, <1>7
    DEF Next, UC120SpiRead, UC120SpiWrite

\* A read is given up only when four transfers have failed (the loop of
\* UC120SpiRead), a write when one has, and what fails for want of a memory
\* object has sent nothing; whatever other callers do.
THEOREM ReadsPersist == Spec => ReadPersists
  <1>1. SpiInv /\ [Next]_vars =>
          [\A c \in Callers : outcome[c] = "none" /\ outcome'[c] # "none" =>
             /\ pc[c] \notin {"sendRead", "copyOut", "sendWrite"} =>
                  outcome'[c] = "failed" /\ failed'[c] = 0
             /\ pc[c] = "sendRead" => outcome'[c] = "failed" /\ failed'[c] = Attempts
             /\ pc[c] = "copyOut" => outcome'[c] = "ok" /\ failed'[c] < Attempts
             /\ pc[c] = "sendWrite" =>
                  failed'[c] = IF outcome'[c] = "failed" THEN 1 ELSE 0]_vars
    <2> SUFFICES ASSUME SpiInv, Next, NEW c \in Callers,
                        outcome[c] = "none", outcome'[c] # "none"
                 PROVE  /\ pc[c] \notin {"sendRead", "copyOut", "sendWrite"} =>
                             outcome'[c] = "failed" /\ failed'[c] = 0
                        /\ pc[c] = "sendRead" =>
                             outcome'[c] = "failed" /\ failed'[c] = Attempts
                        /\ pc[c] = "copyOut" =>
                             outcome'[c] = "ok" /\ failed'[c] < Attempts
                        /\ pc[c] = "sendWrite" =>
                             failed'[c] = IF outcome'[c] = "failed" THEN 1 ELSE 0
      OBVIOUS
    <2>1. QED
      BY EndingStep
  <1>2. QED
    BY SpiInitially, SpiStep, <1>1, PTL DEF Spec, ReadPersists
-----------------------------------------------------------------------------
(***************************************************************************)
(* Memory. What exists is what the writes that worked have left, and one   *)
(* object or two for each caller, by where it is. Callers enter a transfer *)
(* one at a time, so that only finitely many ever hold one.                *)
(***************************************************************************)
HoldsOne == {"createOutput", "sendRead", "copyOut", "copyIn", "sendWrite"}
HoldsTwo == {"sendRead", "copyOut"}
One == {c \in Callers : pc[c] \in HoldsOne}
Two == {c \in Callers : pc[c] \in HoldsTwo}
Held == Cardinality(One) + Cardinality(Two)
Holds(at) == IF at \in HoldsTwo THEN 2 ELSE IF at \in HoldsOne THEN 1 ELSE 0

MemoryInv == /\ IsFiniteSet(One) /\ IsFiniteSet(Two)
             /\ live = written + Held

\* What a caller's step changes in one of the two sets.
LEMMA JoinsOrLeaves ==
  ASSUME NEW S, NEW T, NEW d, NEW in \in BOOLEAN, IsFiniteSet(S),
         T = IF in THEN S \cup {d} ELSE S \ {d}
  PROVE  /\ IsFiniteSet(T) /\ Cardinality(S) \in Nat /\ Cardinality(T) \in Nat
         /\ Cardinality(T) = Cardinality(S) + (IF in THEN 1 ELSE 0)
                                - (IF d \in S THEN 1 ELSE 0)
  <1>1. IsFiniteSet(T) /\ Cardinality(S) \in Nat
    BY FS_AddElement, FS_RemoveElement, FS_CardinalityType
  <1>2. Cardinality(T) \in Nat
    BY <1>1, FS_CardinalityType
  <1>3. CASE in
    BY <1>1, <1>3, FS_AddElement
  <1>4. CASE ~in
    <2>1. T = S \ {d}
      BY <1>4
    <2>2. Cardinality(T) = IF d \in S THEN Cardinality(S) - 1 ELSE Cardinality(S)
      BY <2>1, FS_RemoveElement
    <2>3. Cardinality(T) = Cardinality(S) - (IF d \in S THEN 1 ELSE 0)
      BY <1>1, <2>2
    <2>4. QED
      BY <1>1, <1>2, <1>4, <2>3
  <1>5. QED
    BY <1>1, <1>2, <1>3, <1>4

LEMMA HeldMoves ==
  ASSUME TypeOK, MemoryInv, NEW d \in Callers, NEW to, pc' = [pc EXCEPT ![d] = to]
  PROVE  /\ IsFiniteSet(One)' /\ IsFiniteSet(Two)'
         /\ Held \in Nat /\ Held' = Held + Holds(to) - Holds(pc[d])
  <1>1. /\ One' = IF to \in HoldsOne THEN One \cup {d} ELSE One \ {d}
        /\ Two' = IF to \in HoldsTwo THEN Two \cup {d} ELSE Two \ {d}
    BY DEF TypeOK, One, Two
  <1>2. /\ d \in One <=> pc[d] \in HoldsOne
        /\ d \in Two <=> pc[d] \in HoldsTwo
    BY DEF One, Two
  <1>3. /\ IsFiniteSet(One') /\ Cardinality(One) \in Nat /\ Cardinality(One') \in Nat
        /\ Cardinality(One') = Cardinality(One) + (IF to \in HoldsOne THEN 1 ELSE 0)
                                 - (IF d \in One THEN 1 ELSE 0)
    BY <1>1, JoinsOrLeaves DEF MemoryInv
  <1>4. /\ IsFiniteSet(Two') /\ Cardinality(Two) \in Nat /\ Cardinality(Two') \in Nat
        /\ Cardinality(Two') = Cardinality(Two) + (IF to \in HoldsTwo THEN 1 ELSE 0)
                                 - (IF d \in Two THEN 1 ELSE 0)
    BY <1>1, JoinsOrLeaves DEF MemoryInv
  <1>5. \A at : Holds(at) = (IF at \in HoldsOne THEN 1 ELSE 0)
                             + (IF at \in HoldsTwo THEN 1 ELSE 0)
    BY DEF Holds, HoldsOne, HoldsTwo
  <1>6. Held' = Held + Holds(to) - Holds(pc[d])
    BY <1>2, <1>3, <1>4, <1>5 DEF Held
  <1>7. QED
    BY <1>3, <1>4, <1>6 DEF Held

\* A step that creates as many objects more than it deletes as its caller
\* holds more, or leaves as many as writes have worked.
LEMMA MemoryBalances ==
  ASSUME TypeOK, MemoryInv, NEW d \in Callers, NEW from, NEW to, Go(d, from, to),
         \/ live' = live + Holds(to) - Holds(from) /\ written' = written
         \/ live' = live + 1 + Holds(to) - Holds(from) /\ written' = written + 1
  PROVE  MemoryInv'
  <1>1. Holds(to) \in Nat /\ Holds(from) \in Nat
    BY DEF Holds
  <1>2. /\ IsFiniteSet(One)' /\ IsFiniteSet(Two)'
        /\ Held \in Nat /\ Held' = Held + Holds(to) - Holds(from)
    BY HeldMoves DEF Go
  <1>3. live \in Int /\ written \in Nat /\ live = written + Held
    BY DEF TypeOK, MemoryInv
  <1>4. live' = written' + Held'
    BY <1>1, <1>2, <1>3
  <1>5. QED
    BY <1>2, <1>4 DEF MemoryInv

LEMMA MemoryStep ==
  ASSUME TypeOK, MemoryInv, [Next]_vars
  PROVE  MemoryInv'
  <1>0. /\ live \in Int
        /\ \A at \in HoldsTwo : Holds(at) = 2
        /\ \A at \in HoldsOne \ HoldsTwo : Holds(at) = 1
        /\ Holds("idle") = 0 /\ Holds("createInput") = 0 /\ Holds("createBuffer") = 0
    BY DEF TypeOK, Holds, HoldsOne, HoldsTwo
  <1> USE <1>0 DEF HoldsOne, HoldsTwo
  <1>1. ASSUME NEW d \in Callers, CallRead(d) \/ CallWrite(d) \/ TransferWorks(d) \/ CopyIn(d)
        PROVE  MemoryInv'
    <2>1. PICK from, to : /\ Go(d, from, to) /\ written' = written
                          /\ live' = live + Holds(to) - Holds(from)
      BY <1>1 DEF CallRead, CallWrite, TransferWorks, CopyIn, ghosts
    <2>2. QED
      BY <2>1, MemoryBalances
  <1>2. ASSUME NEW d \in Callers, CreateInput(d) \/ CreateOutput(d) \/ CreateBuffer(d)
        PROVE  MemoryInv'
    <2>1. PICK from, to : /\ Go(d, from, to) /\ written' = written
                          /\ live' = live + Holds(to) - Holds(from)
      BY <1>2 DEF CreateInput, CreateOutput, CreateBuffer, WdfMemoryCreate, Return,
         ghosts
    <2>2. QED
      BY <2>1, MemoryBalances
  <1>3. ASSUME NEW d \in Callers, TransferFails(d) \/ CopyOut(d) \/ SendFails(d)
        PROVE  MemoryInv'
    <2>1. PICK from, to : /\ Go(d, from, to) /\ written' = written
                          /\ live' = live + Holds(to) - Holds(from)
      BY <1>3 DEF TransferFails, CopyOut, SendFails, Return, ghosts
    <2>2. QED
      BY <2>1, MemoryBalances
  <1>4. ASSUME NEW d \in Callers, SendWorks(d)
        PROVE  MemoryInv'
    <2>1. /\ Go(d, "sendWrite", "idle") /\ written' = written + 1
          /\ live' = live + 1 + Holds("idle") - Holds("sendWrite")
      BY <1>4 DEF SendWorks, Return
    <2>2. QED
      BY <2>1, MemoryBalances
  <1>5. CASE ShadowChanges \/ ChipChanges \/ UNCHANGED vars
    <2>1. UNCHANGED <<pc, live, written>>
      BY <1>5 DEF ShadowChanges, ChipChanges, vars, locals, ghosts
    <2>2. QED
      BY <2>1 DEF MemoryInv, Held, One, Two
  <1>6. QED
    BY <1>1, <1>2, <1>3, <1>4, <1>5 DEF Next, UC120SpiRead, UC120SpiWrite

\* Reads and failed writes delete what they have created, at whichever step
\* they fail; a write that works leaves its object. However many callers are
\* inside the transport, nothing else is ever left.
THEOREM NothingElseIsLeft == Spec => []OnlyWritesLeaveMemory
  <1>1. Init => MemoryInv
    <2> SUFFICES ASSUME Init
                 PROVE  MemoryInv
      OBVIOUS
    <2>1. One = {} /\ Two = {}
      BY DEF Init, One, Two, HoldsOne, HoldsTwo
    <2>2. QED
      BY <2>1, FS_EmptySet DEF Init, MemoryInv, Held
  <1>2. TypeOK /\ MemoryInv => OnlyWritesLeaveMemory
    <2> SUFFICES ASSUME TypeOK, MemoryInv, \A c \in Callers : pc[c] = "idle"
                 PROVE  live = written
      BY DEF OnlyWritesLeaveMemory
    <2>1. One = {} /\ Two = {}
      BY DEF One, Two, HoldsOne, HoldsTwo
    <2>2. QED
      BY <2>1, FS_EmptySet DEF TypeOK, MemoryInv, Held
  <1>3. QED
    BY <1>1, <1>2, SpiTypeCorrect, MemoryStep, PTL DEF Spec
-----------------------------------------------------------------------------
(***************************************************************************)
(* The refinement: what each step is in RegisterFile.                      *)
(***************************************************************************)
LEMMA WhatOpIs ==
  ASSUME NEW r, NEW b
  PROVE  /\ \A at \in {"createInput", "createOutput", "sendRead"} :
              OpOf(at, r, b) = [kind |-> "reading", reg |-> r]
         /\ OpOf("copyOut", r, b) = [kind |-> "got", reg |-> r, value |-> b]
         /\ \A at \in {"createBuffer", "copyIn"} :
              OpOf(at, r, b) = [kind |-> "writing", reg |-> r]
         /\ OpOf("sendWrite", r, b) = [kind |-> "taken", reg |-> r, value |-> b]
         /\ OpOf("idle", r, b) = [kind |-> "idle"]
  BY DEF OpOf

\* A caller that keeps to its own entries moves its own operation only.
LEMMA OnlyOneMoves ==
  ASSUME NEW d \in Callers,
         \A c \in Callers \ {d} :
           pc'[c] = pc[c] /\ reg'[c] = reg[c] /\ buffer'[c] = buffer[c]
  PROVE  AbstractOp' = [AbstractOp EXCEPT ![d] = OpOf(pc'[d], reg'[d], buffer'[d])]
  BY DEF AbstractOp

LEMMA NobodyMoves ==
  ASSUME UNCHANGED <<pc, reg, buffer>>
  PROVE  AbstractOp' = AbstractOp
  BY DEF AbstractOp

\* What an operation is before and after a step of its caller.
LEMMA OpBefore ==
  ASSUME NEW d \in Callers
  PROVE  AbstractOp[d] = OpOf(pc[d], reg[d], buffer[d])
  BY DEF AbstractOp

LEMMA CallsBegin ==
  ASSUME SpiInv, NEW d \in Callers, CallRead(d) \/ CallWrite(d)
  PROVE  Abstract!Begin(d)
  <1>1. PICK r \in Registers, k \in {"reading", "writing"} :
          /\ pc[d] = "idle" /\ reg' = [reg EXCEPT ![d] = r]
          /\ pc' = [pc EXCEPT ![d] = IF k = "reading" THEN "createInput"
                                                      ELSE "createBuffer"]
          /\ outcome' = [outcome EXCEPT ![d] = "none"]
          /\ UNCHANGED <<chip, shadow, buffer>>
    <2>1. CASE CallRead(d)
      BY <2>1 DEF CallRead, Go, Set, sides
    <2>2. CASE CallWrite(d)
      BY <2>2 DEF CallWrite, Go, Set, sides
    <2>3. QED
      BY <2>1, <2>2
  <1>2. AbstractOp[d] = Abstract!Idle
    BY <1>1, OpBefore, WhatOpIs DEF Abstract!Idle
  <1>3. AbstractOp' = [AbstractOp EXCEPT ![d] = OpOf(pc'[d], reg'[d], buffer'[d])]
    BY <1>1, OnlyOneMoves DEF SpiInv, TypeOK
  <1>4. OpOf(pc'[d], reg'[d], buffer'[d]) = [kind |-> k, reg |-> r]
    BY <1>1, WhatOpIs DEF SpiInv, TypeOK
  <1>5. QED
    BY <1>1, <1>2, <1>3, <1>4 DEF Abstract!Begin, Abstract!Become

\* A memory object that is created is nothing to the register file; one that
\* is not fails the call before it has a value.
LEMMA CreationIsHidden ==
  ASSUME SpiInv, NEW d \in Callers,
         CreateInput(d) \/ CreateOutput(d) \/ CreateBuffer(d)
  PROVE  Abstract!Fail(d) \/ UNCHANGED Abstract!vars
  <1>1. PICK from, to, deleted :
          /\ WdfMemoryCreate(d, from, to, deleted)
          /\ \/ from \in {"createInput", "createOutput"}
                /\ to \in {"createOutput", "sendRead"}
             \/ from = "createBuffer" /\ to = "copyIn"
    BY DEF CreateInput, CreateOutput, CreateBuffer
  <1>2. UNCHANGED <<chip, shadow>>
    BY <1>1 DEF WdfMemoryCreate, sides
  <1>3. AbstractOp[d] = [kind |-> IF from = "createBuffer" THEN "writing" ELSE "reading",
                         reg |-> reg[d]]
    BY <1>1, OpBefore, WhatOpIs DEF WdfMemoryCreate, Go, Return
  <1>4. CASE Go(d, from, to) /\ UNCHANGED <<reg, buffer, outcome>>
    <2>1. AbstractOp' = [AbstractOp EXCEPT ![d] = OpOf(pc'[d], reg'[d], buffer'[d])]
      BY <1>4, OnlyOneMoves DEF SpiInv, TypeOK, Go
    <2>2. OpOf(pc'[d], reg'[d], buffer'[d]) = AbstractOp[d]
      BY <1>1, <1>3, <1>4, WhatOpIs DEF SpiInv, TypeOK, Go
    <2>3. AbstractOp' = AbstractOp
      BY <2>1, <2>2 DEF AbstractOp
    <2>4. QED
      BY <1>2, <1>4, <2>3 DEF Abstract!vars
  <1>5. CASE Return(d, from, "failed", deleted)
    <2>1. AbstractOp' = [AbstractOp EXCEPT ![d] = Abstract!Idle]
      BY <1>5, OnlyOneMoves, WhatOpIs
      DEF SpiInv, TypeOK, Return, Go, Set, Abstract!Idle
    <2>2. QED
      BY <1>2, <1>3, <1>5, <2>1
      DEF Abstract!Fail, Abstract!Return, Abstract!Become, Return, Set
  <1>6. QED
    BY <1>1, <1>4, <1>5 DEF WdfMemoryCreate, locals

\* A transfer that works, or the copy that a write sends, takes the value.
LEMMA ValueIsTaken ==
  ASSUME SpiInv, NEW d \in Callers, TransferWorks(d) \/ CopyIn(d)
  PROVE  Abstract!Take(d)
  <1>1. CASE TransferWorks(d)
    <2>1. AbstractOp[d] = [kind |-> "reading", reg |-> reg[d]]
      BY <1>1, OpBefore, WhatOpIs DEF TransferWorks, Go
    <2>2. AbstractOp' = [AbstractOp EXCEPT ![d] = OpOf(pc'[d], reg'[d], buffer'[d])]
      BY <1>1, OnlyOneMoves DEF SpiInv, TypeOK, TransferWorks, Go, Set
    <2>3. OpOf(pc'[d], reg'[d], buffer'[d])
            = [kind |-> "got", reg |-> reg[d], value |-> chip[reg[d]]]
      BY <1>1, WhatOpIs DEF SpiInv, TypeOK, TransferWorks, Go, Set
    <2>4. QED
      BY <1>1, <2>1, <2>2, <2>3
      DEF Abstract!Take, Abstract!Become, TransferWorks, sides
  <1>2. CASE CopyIn(d)
    <2>1. AbstractOp[d] = [kind |-> "writing", reg |-> reg[d]]
      BY <1>2, OpBefore, WhatOpIs DEF CopyIn, Go
    <2>2. AbstractOp' = [AbstractOp EXCEPT ![d] = OpOf(pc'[d], reg'[d], buffer'[d])]
      BY <1>2, OnlyOneMoves DEF SpiInv, TypeOK, CopyIn, Go, Set
    <2>3. OpOf(pc'[d], reg'[d], buffer'[d])
            = [kind |-> "taken", reg |-> reg[d], value |-> shadow[reg[d]]]
      BY <1>2, WhatOpIs DEF SpiInv, TypeOK, CopyIn, Go, Set
    <2>4. QED
      BY <1>2, <2>1, <2>2, <2>3
      DEF Abstract!Take, Abstract!Become, CopyIn, sides
  <1>3. QED
    BY <1>1, <1>2

\* A return makes the caller idle.
LEMMA ReturnsToIdle ==
  ASSUME SpiInv, NEW d \in Callers, NEW from, NEW status, NEW deleted,
         Return(d, from, status, deleted)
  PROVE  /\ AbstractOp[d] = OpOf(from, reg[d], buffer[d])
         /\ Abstract!Return(d, status)
  <1>1. AbstractOp[d] = OpOf(from, reg[d], buffer[d])
    BY OpBefore DEF Return, Go
  <1>2. AbstractOp' = [AbstractOp EXCEPT ![d] = Abstract!Idle]
    BY OnlyOneMoves, WhatOpIs DEF SpiInv, TypeOK, Return, Go, Set, Abstract!Idle
  <1>3. QED
    BY <1>1, <1>2 DEF Abstract!Return, Abstract!Become, Return, Set

\* A transfer that fails and is sent again is nothing to the register file.
LEMMA AgainIsHidden ==
  ASSUME SpiInv, NEW d \in Callers, TransferFails(d)
  PROVE  Abstract!Fail(d) \/ UNCHANGED Abstract!vars
  <1>1. UNCHANGED <<chip, shadow>>
    BY DEF TransferFails, sides
  <1>2. CASE Return(d, "sendRead", "failed", 2)
    <2>1. AbstractOp[d] = [kind |-> "reading", reg |-> reg[d]]
      BY <1>2, ReturnsToIdle, WhatOpIs
    <2>2. QED
      BY <1>1, <1>2, <2>1, ReturnsToIdle DEF Abstract!Fail
  <1>3. CASE Go(d, "sendRead", "sendRead") /\ UNCHANGED <<reg, buffer, outcome>>
    <2>1. UNCHANGED pc
      BY <1>3 DEF SpiInv, TypeOK, Go
    <2>2. QED
      BY <1>1, <1>3, <2>1, NobodyMoves DEF Abstract!vars
  <1>4. QED
    BY <1>2, <1>3 DEF TransferFails

LEMMA ValueIsGiven ==
  ASSUME SpiInv, NEW d \in Callers
  PROVE  /\ CopyOut(d) => Abstract!GiveShadow(d)
         /\ SendWorks(d) => Abstract!GiveChip(d)
  <1>1. ASSUME CopyOut(d)
        PROVE  Abstract!GiveShadow(d)
    <2>1. Return(d, "copyOut", "ok", 2) /\ UNCHANGED chip
      BY <1>1 DEF CopyOut
    <2>2. AbstractOp[d] = [kind |-> "got", reg |-> reg[d], value |-> buffer[d]]
      BY <2>1, ReturnsToIdle, WhatOpIs
    <2>3. QED
      BY <1>1, <2>1, <2>2, ReturnsToIdle DEF Abstract!GiveShadow, CopyOut, Set
  <1>2. ASSUME SendWorks(d)
        PROVE  Abstract!GiveChip(d)
    <2>1. Return(d, "sendWrite", "ok", 0) /\ UNCHANGED shadow
      BY <1>2 DEF SendWorks
    <2>2. AbstractOp[d] = [kind |-> "taken", reg |-> reg[d], value |-> buffer[d]]
      BY <2>1, ReturnsToIdle, WhatOpIs
    <2>3. QED
      BY <1>2, <2>1, <2>2, ReturnsToIdle DEF Abstract!GiveChip, SendWorks, Set
  <1>3. QED
    BY <1>1, <1>2

LEMMA SendingFails ==
  ASSUME SpiInv, NEW d \in Callers, SendFails(d)
  PROVE  Abstract!Fail(d)
  <1>1. Return(d, "sendWrite", "failed", 1) /\ UNCHANGED shadow
    BY DEF SendFails
  <1>2. AbstractOp[d] = [kind |-> "taken", reg |-> reg[d], value |-> buffer[d]]
    BY <1>1, ReturnsToIdle, WhatOpIs
  <1>3. QED
    BY <1>1, <1>2, ReturnsToIdle DEF Abstract!Fail, SendFails, Set

LEMMA OthersModify ==
  ASSUME ShadowChanges \/ ChipChanges
  PROVE  Abstract!Modify
  <1>1. UNCHANGED AbstractOp
    BY NobodyMoves DEF ShadowChanges, ChipChanges, locals
  <1>2. CASE ShadowChanges
    BY <1>1, <1>2 DEF Abstract!Modify, ShadowChanges, Set
  <1>3. CASE ChipChanges
    BY <1>1, <1>3, TransportAssumption DEF Abstract!Modify, ChipChanges, Set
  <1>4. QED
    BY <1>2, <1>3

LEMMA AbstractInit == Init => Abstract!Init
  <1> SUFFICES ASSUME Init
               PROVE  Abstract!Init
    OBVIOUS
  <1>1. AbstractOp = [c \in Callers |-> Abstract!Idle]
    BY WhatOpIs DEF AbstractOp, Init, Abstract!Idle
  <1>2. QED
    BY <1>1 DEF Init, Abstract!Init

LEMMA AbstractStep == SpiInv /\ [Next]_vars => [Abstract!Next]_(Abstract!vars)
  <1> SUFFICES ASSUME SpiInv, [Next]_vars
               PROVE  Abstract!Next \/ UNCHANGED Abstract!vars
    OBVIOUS
  <1>1. ASSUME NEW d \in Callers, UC120SpiRead(d) \/ UC120SpiWrite(d)
        PROVE  \/ Abstract!Begin(d) \/ Abstract!Take(d) \/ Abstract!GiveShadow(d)
               \/ Abstract!GiveChip(d) \/ Abstract!Fail(d)
               \/ UNCHANGED Abstract!vars
    BY <1>1, CallsBegin, CreationIsHidden, ValueIsTaken, AgainIsHidden,
       ValueIsGiven, SendingFails
    DEF UC120SpiRead, UC120SpiWrite
  <1>2. CASE ShadowChanges \/ ChipChanges
    BY <1>2, OthersModify DEF Abstract!Next
  <1>3. CASE UNCHANGED vars
    BY <1>3, NobodyMoves DEF vars, Abstract!vars
  <1>4. QED
    BY <1>1, <1>2, <1>3 DEF Next, Abstract!Next

\* UC120SpiRead and UC120SpiWrite, retries, allocations and failures included,
\* are the transfers of the register file, whoever else is inside them and
\* whatever the chip does meanwhile.
THEOREM Implements == Spec => ImplementsRegisterFile
  BY SpiInitially, SpiStep, AbstractInit, AbstractStep, PTL
  DEF Spec, ImplementsRegisterFile, Abstract!Spec
=============================================================================
