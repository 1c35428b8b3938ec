---------------------------- MODULE ReportProofs ----------------------------
(***************************************************************************)
(* Reports, for any number of clients and any events: the types, and, up   *)
(* to the step with which two reports first overlap, that every request is *)
(* completed once, by the report it waited for, and none is kept back.     *)
(***************************************************************************)
EXTENDS ReportState, SequenceTheorems, TLAPS

(***************************************************************************)
(* What the operations on the queue and the collection do to their sets of *)
(* items. No request is twice in either.                                   *)
(***************************************************************************)
LEMMA EmptyHasNone == ToSet(<<>>) = {}
  BY DEF ToSet

LEMMA AppendAdds ==
  ASSUME NEW S, NEW s \in Seq(S), NEW c \in S
  PROVE  /\ Append(s, c) \in Seq(S)
         /\ ToSet(Append(s, c)) = ToSet(s) \cup {c}
         /\ IsInjective(s) /\ c \notin ToSet(s) => IsInjective(Append(s, c))
         /\ Append(s, c) # <<>>
         /\ Len(Append(s, c)) = Len(s) + 1
  BY DEF ToSet, IsInjective

LEMMA HeadIsIn ==
  ASSUME NEW S, NEW s \in Seq(S), s # <<>>
  PROVE  Head(s) \in S /\ Head(s) \in ToSet(s) /\ Len(s) # 0
  BY DEF ToSet

LEMMA TailTakesHead ==
  ASSUME NEW S, NEW s \in Seq(S), s # <<>>
  PROVE  /\ Tail(s) \in Seq(S)
         /\ Len(Tail(s)) = Len(s) - 1
         /\ ToSet(s) = ToSet(Tail(s)) \cup {Head(s)}
         /\ IsInjective(s) => IsInjective(Tail(s)) /\ Head(s) \notin ToSet(Tail(s))
<1>1. /\ Tail(s) \in Seq(S)
      /\ Len(Tail(s)) = Len(s) - 1
      /\ \A i \in 1 .. Len(Tail(s)) : Tail(s)[i] = s[i + 1]
      /\ Head(s) = s[1]
  BY HeadTailProperties
<1>2. /\ Len(s) \in Nat \ {0}
      /\ DOMAIN s = 1 .. Len(s) /\ DOMAIN Tail(s) = 1 .. Len(s) - 1
  BY <1>1, LenProperties, EmptySeq
<1>3. ToSet(s) = ToSet(Tail(s)) \cup {Head(s)}
  <2>1. ASSUME NEW x \in ToSet(s) PROVE x = Head(s) \/ x \in ToSet(Tail(s))
    <3>1. PICK i \in 1 .. Len(s) : x = s[i]
      BY <1>2 DEF ToSet
    <3>2. CASE i = 1
      BY <1>1, <3>1, <3>2
    <3>3. CASE i # 1
      <4>1. i - 1 \in 1 .. Len(s) - 1 /\ Tail(s)[i - 1] = x
        BY <1>1, <1>2, <3>1, <3>3
      <4> QED BY <1>2, <4>1 DEF ToSet
    <3> QED BY <3>2, <3>3
  <2>2. ToSet(Tail(s)) \subseteq ToSet(s)
    BY <1>1, <1>2 DEF ToSet
  <2>3. Head(s) \in ToSet(s)
    BY HeadIsIn
  <2> QED BY <2>1, <2>2, <2>3
<1>4. ASSUME IsInjective(s)
      PROVE  IsInjective(Tail(s)) /\ Head(s) \notin ToSet(Tail(s))
  BY <1>1, <1>2, <1>4 DEF IsInjective, ToSet
<1> QED BY <1>1, <1>3, <1>4

LEMMA WithoutType ==
  ASSUME NEW S, NEW s \in Seq(S), NEW c, NEW rest \in Without(s, c)
  PROVE  rest \in Seq(S)
<1>1. CASE rest = s
  BY <1>1
<1>2. CASE \E i \in DOMAIN s : rest = RemoveAt(s, i)
  <2>1. PICK i \in 1 .. Len(s) : rest = SubSeq(s, 1, i - 1) \o SubSeq(s, i + 1, Len(s))
    BY <1>2, LenProperties DEF RemoveAt
  <2>2. /\ SubSeq(s, 1, i - 1) \in Seq(S)
        /\ SubSeq(s, i + 1, Len(s)) \in Seq(S)
    BY SubSeqProperties, LenProperties, ElementOfSeq
  <2> QED BY <2>1, <2>2, ConcatProperties
<1> QED BY <1>1, <1>2 DEF Without

LEMMA WithoutHead ==
  ASSUME NEW S, NEW s \in Seq(S), s # <<>>, IsInjective(s),
         NEW rest \in Without(s, Head(s))
  PROVE  rest = Tail(s)
<1>1. /\ DOMAIN s = 1 .. Len(s) /\ Len(s) \in Nat /\ 1 \in DOMAIN s
      /\ Head(s) = s[1]
  BY LenProperties, EmptySeq
<1>2. rest = RemoveAt(s, 1)
  BY <1>1, HeadIsIn DEF Without, IsInjective
<1>3. RemoveAt(s, 1) = <<>> \o SubSeq(s, 2, Len(s))
  BY SubSeqEmpty DEF RemoveAt
<1>4. Tail(s) \in Seq(S) /\ Tail(s) = SubSeq(s, 2, Len(s))
  BY HeadTailProperties, TailIsSubSeq
<1> QED BY <1>2, <1>3, <1>4, ConcatEmptySeq
-----------------------------------------------------------------------------
\* A reporter has an item in hand where it uses one, and items left to count
\* where it counts them.
InHand ==
  \A r \in Reporter :
    /\ pc[r] = "add" => current[r] # None
    /\ pc[r] \in {"first", "complete", "remove"} => count[r] # 0

LEMMA TypeStep ==
  ASSUME TypeOK, InHand, [Next]_vars
  PROVE  TypeOK' /\ InHand'
<1> USE ReportAssumption DEF TypeOK, InHand
<1>1. ASSUME NEW c \in Client, Post(c)
      PROVE  TypeOK' /\ InHand'
  BY <1>1, AppendAdds DEF Post
<1>2. ASSUME NEW r \in Reporter, NEW e \in Event, Begin(r, e)
      PROVE  TypeOK' /\ InHand'
  <2>1. ToSet(queue) \cup ToSet(col) \in SUBSET Client
    BY LenProperties, ElementOfSeq DEF ToSet
  <2> QED BY <1>2, <2>1 DEF Begin, Go, clientSide
<1>3. ASSUME NEW r \in Reporter, Retrieve(r)
      PROVE  TypeOK' /\ InHand'
  <2>1. Head(queue) \in Client /\ Tail(queue) \in Seq(Client)
    BY <1>3, HeadIsIn, TailTakesHead DEF Retrieve
  <2> QED BY <1>3, <2>1 DEF Retrieve, Go
<1>4. ASSUME NEW r \in Reporter, Add(r)
      PROVE  TypeOK' /\ InHand'
  <2>1. current[r] \in Client
    BY <1>4 DEF Add, Go
  <2>2. Append(col, current[r]) \in Seq(Client)
    BY <2>1, AppendAdds
  <2>3. col' \in Seq(Client) /\ lost' \subseteq Client
    BY <1>4, <2>1, <2>2 DEF Add
  <2> QED BY <1>4, <2>3 DEF Add, Go, clientSide
<1>5. ASSUME NEW r \in Reporter, Count(r)
      PROVE  TypeOK' /\ InHand'
  <2>1. Counted \in Nat
    BY LenProperties DEF Counted
  <2> QED BY <1>5, <2>1 DEF Count, Go, clientSide
<1>6. ASSUME NEW r \in Reporter, First(r)
      PROVE  TypeOK' /\ InHand'
  BY <1>6, HeadIsIn DEF First, Go, clientSide
<1>7. ASSUME NEW r \in Reporter, Complete(r)
      PROVE  TypeOK' /\ InHand'
  BY <1>7 DEF Complete, Go
<1>8. ASSUME NEW r \in Reporter, RemoveItem(r)
      PROVE  TypeOK' /\ InHand'
  <2>1. col' \in Seq(Client)
    BY <1>8, WithoutType DEF RemoveItem
  <2>2. count[r] - 1 \in Nat
    BY <1>8 DEF RemoveItem, Go
  <2> QED BY <1>8, <2>1, <2>2 DEF RemoveItem, Go, clientSide
<1>9. CASE UNCHANGED vars
  BY <1>9 DEF vars
<1> QED BY <1>1, <1>2, <1>3, <1>4, <1>5, <1>6, <1>7, <1>8, <1>9 DEF Next, Run

LEMMA TypeBegins ==
  ASSUME Init
  PROVE  TypeOK /\ InHand
<1>1. met \in BOOLEAN
  BY Zenon DEF Init
<1>2. InHand
  BY DEF Init, InHand, Reporter
<1> QED BY <1>1, <1>2 DEF Init, TypeOK, Reporter

LEMMA TypeInvariance == Spec => [](TypeOK /\ InHand)
<1>1. Init => TypeOK /\ InHand
  BY TypeBegins
<1> QED BY <1>1, TypeStep, PTL DEF Spec

\* Every variable is of its type, whether or not reports overlap.
THEOREM ReportTypes == Spec => []TypeOK
  BY TypeInvariance, PTL
-----------------------------------------------------------------------------
(***************************************************************************)
(* Where every request is, and what a report still owes, until two reports *)
(* overlap. A request that has been completed may be posted again while it *)
(* is still in the collection: then it is in both places.                  *)
(***************************************************************************)
Busy(r) == pc[r] # "idle"
Adding(c) == \E r \in Reporter : pc[r] = "add" /\ current[r] = c
Answered(c) == \E r \in Reporter : pc[r] = "remove" /\ current[r] = c

Alone == \A r, s \in Reporter : Busy(r) /\ Busy(s) => r = s

Once == IsInjective(queue) /\ IsInjective(col)

Placed ==
  \A c \in Client :
    /\ owner[c] = "queue" <=> c \in ToSet(queue)
    /\ owner[c] = "driver" <=>
         c \in lost \/ Adding(c) \/ (c \in ToSet(col) /\ ~Answered(c))
    /\ Adding(c) => c \notin ToSet(col) /\ c \notin lost
    /\ c \in ToSet(col) => c \notin lost

Waits == \A c \in Client : answer[c] = None <=> owner[c] # "client"

Progress ==
  /\ \A r \in Reporter :
       /\ Busy(r) => msg[r] \in Event
       /\ pc[r] \in {"first", "complete", "remove"} =>
            col # <<>> /\ count[r] = Len(col)
       /\ pc[r] \in {"complete", "remove"} => current[r] = Head(col)
  /\ (\A r \in Reporter : ~Busy(r)) => col = <<>>

\* Those that a report that has come this far may still have to answer.
Owed(r) == CASE pc[r] = "idle" -> {}
             [] pc[r] = "retrieve" -> ToSet(queue) \cup ToSet(col)
             [] pc[r] = "add" -> ToSet(queue) \cup ToSet(col) \cup {current[r]}
             [] pc[r] = "remove" -> ToSet(Tail(col))
             [] OTHER -> ToSet(col)

DueInv == \A r \in Reporter : due[r] \subseteq Owed(r) \cup lost

ReportInv == /\ TypeOK /\ InHand /\ ~met
             /\ Alone /\ Once /\ Placed /\ Waits /\ Progress /\ DueInv

\* The reporter at work is the only one.
LEMMA OthersIdle ==
  ASSUME Alone, NEW r \in Reporter, Busy(r)
  PROVE  \A s \in Reporter \ {r} : pc[s] = "idle"
  BY DEF Alone, Busy

LEMMA PostKeeps ==
  ASSUME ReportInv, NEW c \in Client, Post(c)
  PROVE  ReportInv'
<1>0. ~met'
  BY DEF ReportInv, Post
<1>1. TypeOK' /\ InHand'
  BY TypeStep DEF ReportInv, Next
<1>2. /\ queue \in Seq(Client)
      /\ owner[c] = "client" /\ c \notin ToSet(queue)
      /\ ToSet(queue') = ToSet(queue) \cup {c}
      /\ IsInjective(queue')
      /\ owner' = [owner EXCEPT ![c] = "queue"]
      /\ answer' = [answer EXCEPT ![c] = None]
      /\ UNCHANGED <<col, lost, pc, msg, current, count, due>>
  BY AppendAdds DEF Post, ReportInv, TypeOK, Placed, Once
<1>3. Alone' /\ Once' /\ Waits' /\ Progress'
  BY <1>2 DEF ReportInv, TypeOK, Alone, Once, Waits, Progress, Busy
<1>4. Placed'
  BY <1>2 DEF ReportInv, TypeOK, Placed, Adding, Answered
<1>5. DueInv'
  BY <1>2 DEF ReportInv, DueInv, Owed
<1> QED BY <1>0, <1>1, <1>3, <1>4, <1>5 DEF ReportInv

LEMMA BeginKeeps ==
  ASSUME ReportInv, NEW r \in Reporter, NEW e \in Event, Begin(r, e), ~met'
  PROVE  ReportInv'
<1>0. ~met'
  OBVIOUS
<1>1. TypeOK' /\ InHand'
  BY TypeStep DEF ReportInv, Next
<1>2. /\ \A s \in Reporter : pc[s] = "idle"
      /\ pc' = [pc EXCEPT ![r] = "retrieve"]
      /\ msg' = [msg EXCEPT ![r] = e]
      /\ due' = [due EXCEPT ![r] = ToSet(queue) \cup ToSet(col)]
      /\ UNCHANGED <<queue, owner, answer, col, lost, current, count>>
  BY DEF Begin, Go, clientSide
<1>3. /\ \A s \in Reporter \ {r} : pc'[s] = "idle" /\ due'[s] = due[s]
      /\ pc'[r] = "retrieve" /\ due'[r] = ToSet(queue) \cup ToSet(col)
      /\ msg'[r] = e
  BY <1>2 DEF ReportInv, TypeOK
<1>4. Alone' /\ Once' /\ Waits' /\ Progress'
  BY <1>2, <1>3 DEF ReportInv, Alone, Once, Waits, Progress, Busy
<1>5. Placed'
  BY <1>2, <1>3 DEF ReportInv, Placed, Adding, Answered
<1>6. DueInv'
  BY <1>2, <1>3 DEF ReportInv, DueInv, Owed
<1> QED BY <1>0, <1>1, <1>4, <1>5, <1>6 DEF ReportInv

LEMMA RetrieveKeeps ==
  ASSUME ReportInv, NEW r \in Reporter, Retrieve(r)
  PROVE  ReportInv'
<1> DEFINE c == Head(queue)
<1>0. ~met'
  BY DEF ReportInv, Retrieve
<1>1. TypeOK' /\ InHand'
  BY TypeStep DEF ReportInv, Next, Run
<1>2. /\ pc[r] = "retrieve" /\ pc'[r] = "add" /\ current'[r] = c
      /\ \A s \in Reporter \ {r} : pc[s] = "idle" /\ pc'[s] = "idle"
      /\ UNCHANGED <<answer, col, lost, msg, count, due>>
  BY OthersIdle DEF Retrieve, Go, ReportInv, TypeOK, Busy
<1>3. /\ c \in Client /\ c \in ToSet(queue)
      /\ ToSet(queue) = ToSet(queue') \cup {c}
      /\ IsInjective(queue') /\ c \notin ToSet(queue')
      /\ owner' = [owner EXCEPT ![c] = "driver"]
  BY HeadIsIn, TailTakesHead DEF Retrieve, ReportInv, TypeOK, Once
<1> HIDE DEF c
<1>4. Alone' /\ Once' /\ Waits' /\ Progress'
  BY <1>2, <1>3
     DEF ReportInv, TypeOK, Alone, Once, Placed, Waits, Progress, Busy
<1>5. Placed'
  <2>1. c \notin ToSet(col) /\ c \notin lost
    BY <1>2, <1>3 DEF ReportInv, Placed, Answered
  <2>2. ASSUME NEW d \in Client
        PROVE  /\ ~Adding(d) /\ ~Answered(d) /\ ~Answered(d)'
               /\ Adding(d)' <=> d = c
    BY <1>2 DEF Adding, Answered
  <2>3. \A d \in Client : owner'[d] = IF d = c THEN "driver" ELSE owner[d]
    BY <1>3 DEF ReportInv, TypeOK
  <2> QED BY <1>2, <1>3, <2>1, <2>2, <2>3 DEF ReportInv, Placed
<1>6. DueInv'
  BY <1>2, <1>3 DEF ReportInv, DueInv, Owed
<1> QED BY <1>0, <1>1, <1>4, <1>5, <1>6 DEF ReportInv

LEMMA AddKeeps ==
  ASSUME ReportInv, NEW r \in Reporter, Add(r)
  PROVE  ReportInv'
<1> DEFINE c == current[r]
<1>0. ~met'
  BY DEF ReportInv, Add
<1>1. TypeOK' /\ InHand'
  BY TypeStep DEF ReportInv, Next, Run
<1>2. /\ pc[r] = "add" /\ pc'[r] = "retrieve" /\ c \in Client
      /\ \A s \in Reporter \ {r} : pc[s] = "idle" /\ pc'[s] = "idle"
      /\ UNCHANGED <<queue, owner, answer, msg, current, count, due>>
  BY OthersIdle DEF Add, Go, clientSide, ReportInv, TypeOK, InHand, Busy
<1>3. c \notin ToSet(col) /\ c \notin lost
  BY <1>2 DEF ReportInv, Placed, Adding
<1>4. /\ IsInjective(col')
      /\ \/ ToSet(col') = ToSet(col) \cup {c} /\ lost' = lost
         \/ col' = col /\ lost' = lost \cup {c}
  <2>1. /\ ToSet(Append(col, c)) = ToSet(col) \cup {c}
        /\ IsInjective(Append(col, c))
    BY <1>2, <1>3, AppendAdds DEF ReportInv, TypeOK, Once
  <2> QED BY <2>1 DEF Add, ReportInv, Once
<1> HIDE DEF c
<1>5. Alone' /\ Once' /\ Waits' /\ Progress'
  BY <1>2, <1>4 DEF ReportInv, Alone, Once, Waits, Progress, Busy
<1>6. Placed'
  <2>1. ASSUME NEW d \in Client
        PROVE  /\ Adding(d) <=> d = c
               /\ ~Answered(d) /\ ~Answered(d)' /\ ~Adding(d)'
    BY <1>2 DEF Adding, Answered, c
  <2> QED BY <1>2, <1>3, <1>4, <2>1 DEF ReportInv, Placed
<1>7. DueInv'
  BY <1>2, <1>4 DEF ReportInv, DueInv, Owed, c
<1> QED BY <1>0, <1>1, <1>5, <1>6, <1>7 DEF ReportInv

LEMMA CountKeeps ==
  ASSUME ReportInv, NEW r \in Reporter, Count(r)
  PROVE  ReportInv'
<1>0. ~met'
  BY DEF ReportInv, Count
<1>1. TypeOK' /\ InHand'
  BY TypeStep DEF ReportInv, Next, Run
<1>2. /\ pc[r] = "retrieve" /\ queue = <<>>
      /\ pc'[r] = IF Len(col) = 0 THEN "idle" ELSE "first"
      /\ count'[r] = Len(col)
      /\ \A s \in Reporter \ {r} : pc[s] = "idle" /\ pc'[s] = "idle"
      /\ UNCHANGED <<queue, owner, answer, col, lost, msg, current, due>>
  BY OthersIdle DEF Count, Counted, Go, clientSide, ReportInv, TypeOK, Busy
<1>3. Len(col) = 0 <=> col = <<>>
  BY EmptySeq DEF ReportInv, TypeOK
<1>4. Alone' /\ Once' /\ Waits' /\ Progress'
  BY <1>2, <1>3 DEF ReportInv, Alone, Once, Waits, Progress, Busy
<1>5. Placed'
  BY <1>2 DEF ReportInv, Placed, Adding, Answered
<1>6. DueInv'
  BY <1>2, <1>3, EmptyHasNone DEF ReportInv, DueInv, Owed
<1> QED BY <1>0, <1>1, <1>4, <1>5, <1>6 DEF ReportInv

LEMMA FirstKeeps ==
  ASSUME ReportInv, NEW r \in Reporter, First(r)
  PROVE  ReportInv'
<1>0. ~met'
  BY DEF ReportInv, First
<1>1. TypeOK' /\ InHand'
  BY TypeStep DEF ReportInv, Next, Run
<1>2. /\ pc[r] = "first" /\ pc'[r] = "complete"
      /\ current'[r] = Head(col)
      /\ \A s \in Reporter \ {r} : pc[s] = "idle" /\ pc'[s] = "idle"
      /\ UNCHANGED <<queue, owner, answer, col, lost, msg, count, due>>
  BY OthersIdle DEF First, Go, clientSide, ReportInv, TypeOK, Busy, Progress
<1>3. Alone' /\ Once' /\ Waits' /\ Progress'
  BY <1>2 DEF ReportInv, Alone, Once, Waits, Progress, Busy
<1>4. Placed'
  BY <1>2 DEF ReportInv, Placed, Adding, Answered
<1>5. DueInv'
  BY <1>2 DEF ReportInv, DueInv, Owed
<1> QED BY <1>0, <1>1, <1>3, <1>4, <1>5 DEF ReportInv

\* What is completed is the head of the collection, and nobody else's.
LEMMA AboutToComplete ==
  ASSUME ReportInv, NEW r \in Reporter, pc[r] = "complete"
  PROVE  /\ current[r] = Head(col) /\ col # <<>>
         /\ Head(col) \in Client /\ Head(col) \in ToSet(col)
         /\ owner[Head(col)] = "driver"
         /\ msg[r] \in Event
<1>1. /\ current[r] = Head(col) /\ col # <<>> /\ msg[r] \in Event
  BY DEF ReportInv, Progress, Busy
<1>2. Head(col) \in Client /\ Head(col) \in ToSet(col)
  BY <1>1, HeadIsIn DEF ReportInv, TypeOK
<1>3. ~Answered(Head(col))
  BY OthersIdle DEF ReportInv, Busy, Answered
<1> QED BY <1>1, <1>2, <1>3 DEF ReportInv, Placed

LEMMA CompleteKeeps ==
  ASSUME ReportInv, NEW r \in Reporter, Complete(r)
  PROVE  ReportInv'
<1> DEFINE c == Head(col)
<1>0. ~met'
  BY DEF ReportInv, Complete
<1>1. TypeOK' /\ InHand'
  BY TypeStep DEF ReportInv, Next, Run
<1>2. /\ current[r] = c /\ c \in Client /\ c \in ToSet(col) /\ col # <<>>
      /\ owner[c] = "driver" /\ msg[r] \in Event /\ msg[r] # None
  BY AboutToComplete, ReportAssumption DEF Complete, Go
<1>3. /\ pc[r] = "complete" /\ pc'[r] = "remove"
      /\ \A s \in Reporter \ {r} :
           pc[s] = "idle" /\ pc'[s] = "idle" /\ due'[s] = due[s]
      /\ due'[r] = due[r] \ {c}
      /\ UNCHANGED <<queue, col, lost, msg, current, count>>
  BY <1>2, OthersIdle DEF Complete, Go, ReportInv, TypeOK, Busy
<1>4. \A d \in Client :
        /\ owner'[d] = IF d = c THEN "client" ELSE owner[d]
        /\ d = c => answer'[d] \in {msg[r], Failed}
        /\ d # c => answer'[d] = answer[d]
  BY <1>2 DEF Complete, ReportInv, TypeOK
<1>5. ToSet(col) = ToSet(Tail(col)) \cup {c} /\ c \notin ToSet(Tail(col))
  BY <1>2, TailTakesHead DEF ReportInv, TypeOK, Once
<1> HIDE DEF c
<1>6. Alone' /\ Once' /\ Progress'
  BY <1>2, <1>3 DEF ReportInv, Alone, Once, Progress, Busy, c
<1>7. Waits'
  BY <1>2, <1>4, ReportAssumption DEF ReportInv, Waits
<1>8. Placed'
  <2>1. ASSUME NEW d \in Client
        PROVE  /\ Answered(d)' <=> d = c
               /\ ~Answered(d) /\ ~Adding(d)' /\ ~Adding(d)
    BY <1>2, <1>3 DEF Adding, Answered
  <2> QED BY <1>2, <1>3, <1>4, <2>1 DEF ReportInv, Placed
<1>9. DueInv'
  BY <1>3, <1>5 DEF ReportInv, DueInv, Owed
<1> QED BY <1>0, <1>1, <1>6, <1>7, <1>8, <1>9 DEF ReportInv

LEMMA RemoveItemKeeps ==
  ASSUME ReportInv, NEW r \in Reporter, RemoveItem(r)
  PROVE  ReportInv'
<1> DEFINE c == Head(col)
<1>0. ~met'
  BY DEF ReportInv, RemoveItem
<1>1. TypeOK' /\ InHand'
  BY TypeStep DEF ReportInv, Next, Run
<1>2. /\ pc[r] = "remove" /\ current[r] = c /\ col # <<>> /\ count[r] = Len(col)
      /\ pc'[r] = IF count[r] = 1 THEN "idle" ELSE "first"
      /\ count'[r] = count[r] - 1
      /\ \A s \in Reporter \ {r} : pc[s] = "idle" /\ pc'[s] = "idle"
      /\ UNCHANGED <<queue, owner, answer, lost, msg, current, due>>
  BY OthersIdle
     DEF RemoveItem, Go, clientSide, ReportInv, TypeOK, Busy, Progress
<1>3. col' = Tail(col)
  BY <1>2, WithoutHead DEF RemoveItem, ReportInv, TypeOK, Once
<1>4. /\ ToSet(col) = ToSet(col') \cup {c} /\ c \notin ToSet(col')
      /\ IsInjective(col') /\ Len(col') = Len(col) - 1
  BY <1>2, <1>3, TailTakesHead DEF ReportInv, TypeOK, Once
<1>5. Len(col') = 0 <=> col' = <<>>
  BY <1>1, EmptySeq DEF TypeOK
<1>6. pc'[r] = "idle" <=> col' = <<>>
  BY <1>2, <1>4, <1>5, LenProperties DEF ReportInv, TypeOK
<1> HIDE DEF c
<1>7. Alone' /\ Once' /\ Waits' /\ Progress'
  BY <1>2, <1>4, <1>6 DEF ReportInv, Alone, Once, Waits, Progress, Busy
<1>8. Placed'
  <2>1. ASSUME NEW d \in Client
        PROVE  /\ Answered(d) <=> d = c
               /\ ~Answered(d)' /\ ~Adding(d)' /\ ~Adding(d)
    BY <1>2 DEF Adding, Answered
  <2> QED BY <1>2, <1>4, <2>1 DEF ReportInv, Placed
<1>9. DueInv'
  BY <1>2, <1>3, <1>6, EmptyHasNone DEF ReportInv, DueInv, Owed
<1> QED BY <1>0, <1>1, <1>7, <1>8, <1>9 DEF ReportInv

LEMMA ReportStep ==
  ASSUME ReportInv, [Next]_vars
  PROVE  met' \/ ReportInv'
<1>1. CASE UNCHANGED vars
  BY <1>1 DEF vars, ReportInv, TypeOK, InHand, Alone, Once, Placed, Waits,
       Progress, DueInv, Owed, Busy, Adding, Answered
<1>2. CASE Next
  BY <1>2, PostKeeps, BeginKeeps, RetrieveKeeps, AddKeeps, CountKeeps, FirstKeeps,
     CompleteKeeps, RemoveItemKeeps DEF Next, Run
<1> QED BY <1>1, <1>2

\* Two reports that have met have done so for ever.
LEMMA MetStays ==
  ASSUME met, [Next]_vars
  PROVE  met'
  BY DEF Next, Post, Begin, Run, Retrieve, Add, Count, First, Complete,
         RemoveItem, vars

LEMMA ReportInvariance == Spec => [](met \/ ReportInv)
<1>1. Init => ReportInv
  <2> SUFFICES ASSUME Init PROVE ReportInv
    OBVIOUS
  <2>1. TypeOK /\ InHand /\ ~met
    BY TypeBegins DEF Init
  <2>2. Alone /\ Once /\ Waits /\ Progress /\ DueInv
    BY ReportAssumption
       DEF Init, Alone, Once, Waits, Progress, DueInv, Busy, IsInjective
  <2>3. Placed
    BY EmptyHasNone DEF Init, Placed, Adding, Answered
  <2> QED BY <2>1, <2>2, <2>3 DEF ReportInv
<1>2. (met \/ ReportInv) /\ [Next]_vars => (met \/ ReportInv)'
  BY ReportStep, MetStays
<1> QED BY <1>1, <1>2, PTL DEF Spec

\* Until two reports overlap, every client's request is completed only while
\* the driver has it: UC120ReportState completes none twice.
THEOREM CompletesOnce == Spec => []CompletesOnlyItsOwn
<1>1. ASSUME met \/ ReportInv PROVE CompletesOnlyItsOwn
  BY <1>1, AboutToComplete, ReportAssumption DEF CompletesOnlyItsOwn
<1> QED BY <1>1, ReportInvariance, PTL

\* Until two overlap, the driver has between reports only what there was no
\* memory for.
THEOREM KeepsNothing == Spec => []NothingKeptBack
<1>1. ASSUME met \/ ReportInv PROVE NothingKeptBack
  <2> SUFFICES ASSUME ~met, \A r \in Reporter : pc[r] = "idle"
               PROVE  col = <<>> /\ {c \in Client : owner[c] = "driver"} = lost
    BY DEF NothingKeptBack
  <2>1. col = <<>>
    BY <1>1 DEF ReportInv, Progress, Busy
  <2>2. \A c \in Client : ~Adding(c) /\ ~Answered(c) /\ c \notin ToSet(col)
    BY <2>1, EmptyHasNone DEF Adding, Answered
  <2> QED BY <1>1, <2>1, <2>2 DEF ReportInv, TypeOK, Placed
<1> QED BY <1>1, ReportInvariance, PTL

\* Whatever clients post while a report runs, it completes all that waited when
\* it began, but for those that could not be added: the items counted once are
\* all of them, unless it meets another report.
THEOREM AnswersEveryone == Spec => []EveryoneDueIsAnswered
<1>1. ASSUME met \/ ReportInv PROVE EveryoneDueIsAnswered
  BY <1>1 DEF ReportInv, DueInv, Owed, EveryoneDueIsAnswered
<1> QED BY <1>1, ReportInvariance, PTL

(***************************************************************************)
(* The refinement. Only Post and Complete change an answer, and they are   *)
(* Post and Answer of the promise; the report that meets another ends it.  *)
(***************************************************************************)
LEMMA PromisePosted ==
  ASSUME ReportInv, NEW c \in Client, Post(c)
  PROVE  Promise!Post(c)
<1>1. answer[c] # None
  BY DEF Post, ReportInv, Waits
<1> QED BY <1>1 DEF Post, Promise!Post, Promise!Waiting

LEMMA PromiseAnswered ==
  ASSUME ReportInv, NEW r \in Reporter, Complete(r)
  PROVE  \E c \in Client, e \in Event : Promise!Answer(c, e)
<1>1. /\ current[r] \in Client /\ owner[current[r]] = "driver"
      /\ msg[r] \in Event
  BY AboutToComplete DEF Complete, Go
<1>2. answer[current[r]] = None
  BY <1>1 DEF ReportInv, Waits
<1>3. Promise!Answer(current[r], msg[r])
  BY <1>2 DEF Complete, Promise!Answer, Promise!Waiting
<1> QED BY <1>1, <1>3

LEMMA PromiseStep ==
  ASSUME met \/ ReportInv, [Next]_vars
  PROVE  [Promise!Next]_<<answer, met>>
<1>1. CASE met
  BY <1>1, MetStays DEF Promise!Next
<1>2. CASE ReportInv
  <2>1. ~met
    BY <1>2 DEF ReportInv, Alone
  <2>2. ASSUME NEW c \in Client, Post(c) PROVE Promise!Next
    <3>1. UNCHANGED met
      BY <2>2 DEF Post
    <3> QED BY <1>2, <2>1, <2>2, <3>1, PromisePosted
            DEF Promise!Next, Promise!Exchange
  <2>3. ASSUME NEW r \in Reporter, Complete(r) PROVE Promise!Next
    <3>1. UNCHANGED met
      BY <2>3 DEF Complete
    <3> QED BY <1>2, <2>1, <2>3, <3>1, PromiseAnswered
            DEF Promise!Next, Promise!Exchange
  <2>4. ASSUME NEW r \in Reporter, NEW e \in Event, Begin(r, e)
        PROVE  [Promise!Next]_<<answer, met>>
    <3>1. UNCHANGED answer
      BY <2>4 DEF Begin, clientSide
    <3>2. CASE met'
      BY <3>1, <3>2 DEF Promise!Next
    <3>3. CASE ~met'
      <4>1. met = FALSE /\ met' = FALSE
        BY <2>1, <2>4, <3>3 DEF Begin
      <4> QED BY <3>1, <4>1
    <3> QED BY <3>2, <3>3
  <2>5. ASSUME NEW r \in Reporter,
               \/ Retrieve(r) \/ Add(r) \/ Count(r) \/ First(r) \/ RemoveItem(r)
        PROVE  UNCHANGED <<answer, met>>
    BY <2>5 DEF Retrieve, Add, Count, First, RemoveItem, clientSide
  <2>6. CASE UNCHANGED vars
    BY <2>6 DEF vars
  <2> QED BY <2>2, <2>3, <2>4, <2>5, <2>6 DEF Next, Run
<1> QED BY <1>1, <1>2

\* Until two reports overlap they implement the promise: a client that posts a
\* request has it completed at most once, with something that happened or with
\* the error of a buffer that is too small, and only then may post another.
THEOREM ReportKeepsPromise == Spec => KeepsPromise
<1>1. Init => Promise!Init
  BY DEF Init, Promise!Init
<1> QED BY <1>1, ReportInvariance, PromiseStep, PTL
        DEF Spec, KeepsPromise, Promise!Spec
=============================================================================
