----------------------------- MODULE PdMessaging -----------------------------
(***************************************************************************)
(* Power-delivery messages: the PD half of the interrupt handler           *)
(* (UC120ProcessIncomingPdMessage, UC120FulfillIncomingMessage,            *)
(* UC120SynchronizeIncomingMessageSize) and Ice5Lp2kQueueEvtWrite, which   *)
(* sends a message and waits for the interrupt to say what became of it.   *)
(*                                                                         *)
(* To tell whose answer is whose, each value of Register1 and of           *)
(* PDMessageType carries a ghost: it answers the write in progress         *)
(* ("own"), an earlier one ("old"), or none ("none").                      *)
(***************************************************************************)
EXTENDS DeviceContext

portSide == <<portVars, clientVars, reg4Vars, reg5Vars, r2, req, workItem>>
writeVars == <<result, air, taint>>

NoAnswer == 255       \* PDMessageType before the interrupt has stored one
Full == 6             \* STATUS_TRANSPORT_FULL

PdBits == {[type |-> n, body |-> b, of |-> "none"] :
             n \in PdTypes, b \in BOOLEAN}
-----------------------------------------------------------------------------
(***************************************************************************)
(* UC120ProcessIncomingPdMessage. A type 0 or 7 with a body, or a type 5,  *)
(* takes a waiting read and completes it, with the message or with an      *)
(* error; types 6 and 7 also store PDMessageType and then signal PdEvent,  *)
(* 7 only if a read was waiting. The rest is traced and forgotten.         *)
(***************************************************************************)
Deliverable(r) == (r.type \in {0, 7} /\ r.body) \/ r.type = 5
SlipNobodyReads(r) == Deliverable(r)
TakesReader(r) == Deliverable(r) /\ readers > 0
Signals(r) == r.type = Full \/ (r.type = 7 /\ TakesReader(r))

IncomingMessage ==
  \E r \in PdBits :
    /\ reg1' = r
    /\ readers' = IF TakesReader(r) THEN readers - 1 ELSE readers
    /\ pd' = IF Signals(r) THEN [type |-> Full, of |-> "none"] ELSE pd
    /\ Step("isr", "pd", IF Signals(r) THEN "pdSignal" ELSE "size")

ProcessIncomingPdMessage ==
  /\ \/ r2.incoming /\ IncomingMessage
     \/ /\ IF r2.incoming THEN SpiMayFail ELSE TRUE
        /\ Step("isr", "pd", "size")
        /\ UNCHANGED <<reg1, readers, pd>>
  /\ UNCHANGED <<portSide, pdEvent, writeVars>>

\* KeSetEvent, after PDMessageType has been stored.
SetEvent(from, to) ==
  /\ Step("isr", from, to)
  /\ pdEvent' = TRUE
  /\ UNCHANGED <<portSide, readers, reg1, pd, writeVars>>

\* UC120SynchronizeIncomingMessageSize takes the type out of Register1 even
\* when reading it failed. A read that works takes an answer from the chip.
ReadAnswer ==
  \E n \in PdTypes, of \in air :
    /\ reg1' = [type |-> n, body |-> FALSE, of |-> of]
    /\ air' = air \ {of}
    /\ UNCHANGED taint

KeepStale ==
  /\ SpiMayFail
  /\ taint' = TRUE
  /\ UNCHANGED <<reg1, air>>

SynchronizeIncomingMessageSize ==
  /\ r2.sized
  /\ ReadAnswer \/ KeepStale
  /\ pd' = [type |-> reg1'.type, of |-> reg1'.of]
  /\ Step("isr", "size", "sizeSignal")
  /\ UNCHANGED <<portSide, readers, pdEvent, result>>

NoAnswerYet ==
  /\ ~r2.sized
  /\ Step("isr", "size", "ack")
  /\ UNCHANGED <<portSide, pdVars>>

IsrPdNext ==
  \/ ProcessIncomingPdMessage
  \/ SetEvent("pdSignal", "size")
  \/ SynchronizeIncomingMessageSize
  \/ NoAnswerYet
  \/ SetEvent("sizeSignal", "ack")
-----------------------------------------------------------------------------
\* A read is parked in PdReadQueue. MaxReaders bounds the model only.
ReadArrive ==
  /\ readers < MaxReaders
  /\ readers' = readers + 1
  /\ UNCHANGED <<syncVars, portSide, reg1, pd, pdEvent, writeVars>>

\* A new write begins: what was its own is now an older one's.
Aged(of) == IF of = "own" THEN "old" ELSE of

WriteArrive ==
  /\ Step("writer", "idle", "reset")
  /\ air' = {Aged(of) : of \in air}
  /\ reg1' = [reg1 EXCEPT !.of = Aged(@)]
  /\ pd' = [pd EXCEPT !.of = Aged(@)]
  /\ result' = [status |-> "none", of |-> "none"]
  /\ UNCHANGED <<portSide, readers, pdEvent, taint>>

\* A write of no bytes is refused at once.
WriteNothing ==
  /\ pc["writer"] = "idle"
  /\ result' = [status |-> "invalid", of |-> "none"]
  /\ UNCHANGED <<syncVars, portSide, readers, reg1, pd, pdEvent, air, taint>>

\* Both of these happen before the lock is asked for.
WriteReset ==
  /\ Step("writer", "reset", "clear")
  /\ pd' = [type |-> NoAnswer, of |-> "none"]
  /\ UNCHANGED <<portSide, readers, reg1, pdEvent, writeVars>>

\* The interrupt handler is between storing an answer and signalling it.
AboutToSignal == pc["isr"] \in {"pdSignal", "sizeSignal"}

SlipStaleEvent ==
  /\ taint' = (air # {} \/ AboutToSignal)
  /\ Step("writer", "clear", "wait")
  /\ UNCHANGED <<portSide, readers, reg1, pd, air, pdEvent, result>>

WriteClear ==
  /\ pdEvent' = FALSE
  /\ taint' = (air # {} \/ AboutToSignal)
  /\ \/ Step("writer", "clear", "wait") /\ UNCHANGED result
     \/ /\ Step("writer", "clear", "idle")      \* no input buffer
        /\ result' = [status |-> "buffer", of |-> "none"]
  /\ UNCHANGED <<portSide, readers, reg1, pd, air>>

WriteAcquire ==
  /\ Acquire("writer", "send")
  /\ UNCHANGED <<portSide, pdVars>>

SlipSendAndKeep ==
  /\ Step("writer", "send", "await")
  /\ air' = air \cup {"own"}
  /\ UNCHANGED <<portSide, readers, reg1, pd, pdEvent, result, taint>>

\* The message goes to Register 16 and its length to Register 0.
WriteSend ==
  /\ Release("writer", "send", "await")
  /\ air' = air \cup {"own"}
  /\ UNCHANGED <<portSide, readers, reg1, pd, pdEvent, result, taint>>

\* If either write fails the request is completed, and the lock kept.
WriteFail ==
  /\ SpiMayFail
  /\ Step("writer", "send", "idle")
  /\ air' \in {air, air \cup {"own"}}
  /\ result' = [status |-> "spi", of |-> "none"]
  /\ UNCHANGED <<portSide, readers, reg1, pd, pdEvent, taint>>

SlipReleaseTwice ==
  /\ ~pdEvent
  /\ Release("writer", "await", "idle")
  /\ result' = [status |-> "timeout", of |-> "none"]
  /\ UNCHANGED <<portSide, readers, reg1, pd, pdEvent, air, taint>>

SlipTimeoutIgnored ==
  /\ ~pdEvent
  /\ Step("writer", "await", "decide")
  /\ UNCHANGED <<portSide, pdVars>>

WriteTimeout ==
  /\ ~pdEvent
  /\ Step("writer", "await", "idle")
  /\ result' = [status |-> "timeout", of |-> "none"]
  /\ UNCHANGED <<portSide, readers, reg1, pd, pdEvent, air, taint>>

WriteAwake ==
  /\ pdEvent
  /\ Step("writer", "await", "decide")
  /\ UNCHANGED <<portSide, pdVars>>

\* The switch on PDMessageType; what it does not name is a success.
Outcome(n) == CASE n = 1 -> "busy"
                [] n = 2 -> "timeout"
                [] n = Full -> "full"
                [] OTHER -> "success"

WriteDecide ==
  /\ Step("writer", "decide", "idle")
  /\ result' = [status |-> Outcome(pd.type), of |-> pd.of]
  /\ UNCHANGED <<portSide, readers, reg1, pd, pdEvent, air, taint>>

WriterNext ==
  \/ WriteReset \/ WriteClear \/ WriteAcquire \/ WriteSend \/ WriteFail
  \/ WriteTimeout \/ WriteAwake \/ WriteDecide
=============================================================================
