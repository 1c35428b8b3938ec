---------------------------- MODULE Notifications ----------------------------
(***************************************************************************)
(* What IOCTL_UC120_NOTIFICATION promises a client: a request it posts     *)
(* waits until something happens to the port, is completed at most once,   *)
(* with what happened, and is then the client's again. A buffer that is    *)
(* too small gets the error instead, and a request may wait for ever.      *)
(* The promise is good until two reports meet; then anything may happen.   *)
(***************************************************************************)
CONSTANTS Client, Event, None,
          Short,     \* the clients whose output buffer is too small
          Failed     \* what they get

VARIABLES
  answer,    \* of each client's request: None while it waits for one
  met        \* is the promise off?

Waiting(c) == answer[c] = None

Init == answer \in [Client -> Event] /\ met = FALSE

Post(c) == ~Waiting(c) /\ answer' = [answer EXCEPT ![c] = None]

Answer(c, e) ==
  /\ Waiting(c)
  /\ answer' = [answer EXCEPT ![c] = IF c \in Short THEN Failed ELSE e]

Exchange == \E c \in Client : Post(c) \/ \E e \in Event : Answer(c, e)

Next == \/ ~met /\ Exchange /\ UNCHANGED met
        \/ met' /\ UNCHANGED answer
        \/ met /\ met'

Spec == Init /\ [][Next]_<<answer, met>>
=============================================================================
