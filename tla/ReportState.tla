---------------------------- MODULE ReportState -----------------------------
(***************************************************************************)
(* UC120ReportState one framework call at a time. A reporter moves every   *)
(* request of DelayedIoCtlQueue into DelayedQueryIoctlRequestCol, counts   *)
(* the collection once, and then completes and removes its first item that *)
(* many times, while clients go on posting requests without any lock.      *)
(*                                                                         *)
(* The interrupt handler reports with DeviceWaitLock held; PMIC interrupt  *)
(* 2 has let go of it by then. Nothing keeps their reports apart, and two  *)
(* that overlap may complete one request twice: what follows holds until   *)
(* the first time they do, which the ghost met remembers.                  *)
(***************************************************************************)
EXTENDS Sequences, Naturals, SequencesExt

CONSTANTS Client,       \* each has one notification request
          Event,        \* what is reported
          None,         \* neither an event nor a request
          Short,        \* the clients whose output buffer is too small
          Failed,       \* the status that completes their requests
          AddMayFail    \* may WdfCollectionAdd run out of memory?

ASSUME ReportAssumption == /\ None \notin Event \cup Client
                           /\ Short \subseteq Client
                           /\ Failed \notin Event \cup {None}
                           /\ AddMayFail \in BOOLEAN

Reporter == {"isr", "pmic2"}

VARIABLES
  queue,     \* DelayedIoCtlQueue, oldest first
  col,       \* DelayedQueryIoctlRequestCol
  owner,     \* who has each request: "client", "queue" or "driver"
  answer,    \* what it was last completed with; None while it is not
  lost,      \* requests that WdfCollectionAdd refused
  pc,        \* where each reporter is
  msg,       \* the event it reports
  current,   \* PendingRequest, or None
  count,     \* the items it has still to complete
  due,       \* ghost: the requests queued when it began and not completed yet
  met        \* ghost: have two reports ever been under way at once?

vars == <<queue, col, owner, answer, lost, pc, msg, current, count, due, met>>
clientSide == <<queue, owner, answer>>

Init ==
  /\ queue = <<>> /\ col = <<>> /\ lost = {}
  /\ owner = [c \in Client |-> "client"]
  /\ answer \in {[c \in Client |-> e] : e \in Event}
  /\ pc = [r \in Reporter |-> "idle"]
  /\ msg = [r \in Reporter |-> None]
  /\ current = [r \in Reporter |-> None]
  /\ count = [r \in Reporter |-> 0]
  /\ due = [r \in Reporter |-> {}]
  /\ met = FALSE

Go(r, from, to) == pc[r] = from /\ pc' = [pc EXCEPT ![r] = to]
-----------------------------------------------------------------------------
\* The default queue forwards a notification request. No lock is taken.
Post(c) ==
  /\ owner[c] = "client"
  /\ queue' = Append(queue, c)
  /\ owner' = [owner EXCEPT ![c] = "queue"]
  /\ answer' = [answer EXCEPT ![c] = None]
  /\ UNCHANGED <<col, lost, pc, msg, current, count, due, met>>

Begin(r, e) ==
  /\ Go(r, "idle", "retrieve")
  /\ met' = (met \/ \E s \in Reporter \ {r} : pc[s] # "idle")
  /\ msg' = [msg EXCEPT ![r] = e]
  /\ due' = [due EXCEPT ![r] = ToSet(queue) \cup ToSet(col)]
  /\ UNCHANGED <<clientSide, col, lost, current, count>>

\* WdfIoQueueRetrieveNextRequest, until the queue is empty.
Retrieve(r) ==
  /\ queue # <<>>
  /\ Go(r, "retrieve", "add")
  /\ current' = [current EXCEPT ![r] = Head(queue)]
  /\ queue' = Tail(queue)
  /\ owner' = [owner EXCEPT ![Head(queue)] = "driver"]
  /\ UNCHANGED <<col, answer, lost, msg, count, due, met>>

\* A request that cannot be added is neither completed nor kept.
Add(r) ==
  /\ Go(r, "add", "retrieve")
  /\ \/ col' = Append(col, current[r]) /\ UNCHANGED lost
     \/ AddMayFail /\ lost' = lost \cup {current[r]} /\ UNCHANGED col
  /\ UNCHANGED <<clientSide, msg, current, count, due, met>>

SlipOneLess == Len(col) - 1
SlipOneMore == Len(col) + 1
SlipOnlyOne == IF col = <<>> THEN 0 ELSE 1
Counted == Len(col)

Count(r) ==
  /\ queue = <<>>
  /\ Go(r, "retrieve", IF Counted = 0 THEN "idle" ELSE "first")
  /\ count' = [count EXCEPT ![r] = Counted]
  /\ UNCHANGED <<clientSide, col, lost, msg, current, due, met>>

\* WdfCollectionGetFirstItem returns NULL when there is none.
First(r) ==
  /\ Go(r, "first", "complete")
  /\ current' = [current EXCEPT ![r] = IF col = <<>> THEN None ELSE Head(col)]
  /\ UNCHANGED <<clientSide, col, lost, msg, count, due, met>>

\* The output buffer is filled and the request completed, or completed with
\* the error when the buffer is too small: either way it is the client's again,
\* who may post the next one at once. A NULL item stops the machine.
Complete(r) ==
  /\ current[r] # None
  /\ Go(r, "complete", "remove")
  /\ answer' = [answer EXCEPT ![current[r]] =
                                    IF current[r] \in Short THEN Failed ELSE msg[r]]
  /\ owner' = [owner EXCEPT ![current[r]] = "client"]
  /\ due' = [due EXCEPT ![r] = @ \ {current[r]}]
  /\ UNCHANGED <<queue, col, lost, msg, current, count, met>>

SlipStillThere(s, c) == {s}

\* WdfCollectionRemove takes the item out, wherever it is.
Without(s, c) ==
  IF c \in ToSet(s) THEN {RemoveAt(s, i) : i \in {j \in DOMAIN s : s[j] = c}}
  ELSE {s}

SlipRetrieveAgain(r) ==
  /\ Go(r, "remove", "retrieve")
  /\ col' \in Without(col, current[r])
  /\ count' = [count EXCEPT ![r] = @ - 1]
  /\ UNCHANGED <<clientSide, lost, msg, current, due, met>>

RemoveItem(r) ==
  /\ Go(r, "remove", IF count[r] = 1 THEN "idle" ELSE "first")
  /\ col' \in Without(col, current[r])
  /\ count' = [count EXCEPT ![r] = @ - 1]
  /\ UNCHANGED <<clientSide, lost, msg, current, due, met>>

Run(r) == \/ Retrieve(r) \/ Add(r) \/ Count(r)
          \/ First(r) \/ Complete(r) \/ RemoveItem(r)

Next == \/ \E c \in Client : Post(c)
        \/ \E r \in Reporter : Run(r) \/ \E e \in Event : Begin(r, e)

Spec == Init /\ [][Next]_vars
FairSpec == Spec /\ \A r \in Reporter : WF_vars(Run(r))
-----------------------------------------------------------------------------
\* Every variable is of its type.
TypeOK ==
  /\ queue \in Seq(Client) /\ col \in Seq(Client)
  /\ owner \in [Client -> {"client", "queue", "driver"}]
  /\ answer \in [Client -> Event \cup {None, Failed}]
  /\ lost \subseteq Client
  /\ pc \in [Reporter -> {"idle", "retrieve", "add", "first", "complete",
                          "remove"}]
  /\ msg \in [Reporter -> Event \cup {None}]
  /\ current \in [Reporter -> Client \cup {None}]
  /\ count \in [Reporter -> Nat]
  /\ due \in [Reporter -> SUBSET Client]
  /\ met \in BOOLEAN

\* Until two reports overlap, a request is completed only while the driver owns
\* it: never twice, never after it has gone back to its client, and never a
\* NULL item.
CompletesOnlyItsOwn ==
  ~met => \A r \in Reporter : pc[r] = "complete" =>
            current[r] # None /\ owner[current[r]] = "driver"

\* Until two reports overlap, the driver keeps no request back when none is
\* under way, other than those for which there was no memory: those are never
\* completed.
NothingKeptBack ==
  ~met /\ (\A r \in Reporter : pc[r] = "idle") =>
    /\ col = <<>>
    /\ {c \in Client : owner[c] = "driver"} = lost

\* Until two reports overlap, one that ends has completed every request that
\* was waiting when it began, however many were posted meanwhile, except those
\* for which there was no memory.
EveryoneDueIsAnswered ==
  ~met => \A r \in Reporter : pc[r] = "idle" => due[r] \subseteq lost

\* A report ends, although clients may post again as fast as they are answered,
\* unless it meets another.
ReportEnds ==
  \A r \in Reporter : (pc[r] # "idle") ~> (pc[r] = "idle" \/ met)

\* Until two reports overlap, they keep the promise made to the clients.
Promise == INSTANCE Notifications
KeepsPromise == Promise!Spec
=============================================================================
