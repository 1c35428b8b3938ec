------------------------------ MODULE Ice5Lp2k ------------------------------
(***************************************************************************)
(* The driver at work: every callback of PortInterrupts, PortIoctl and     *)
(* PdMessaging, interleaved, and what the driver should guarantee however  *)
(* they interleave.                                                        *)
(***************************************************************************)
EXTENDS PortInterrupts, PortIoctl, PdMessaging

\* What happens to the driver: an interrupt, or a request from a client.
Arrive ==
  \/ "isr" \in Active /\ IsrArrive
  \/ "pmic1" \in Active /\ PmicInterrupt1Isr
  \/ "pmic2" \in Active /\ Pmic2Arrive
  \/ "ioctl" \in Active /\ (IoctlArrive \/ IoctlNotify)
  \/ "writer" \in Active /\ (WriteArrive \/ WriteNothing \/ ReadArrive)

\* What a callback does once it has been called.
IsrRun    == (IsrPortNext \/ IsrPdNext) /\ Observe
Pmic1Go   == Pmic1Next /\ Observe
Pmic2Run  == Pmic2Next /\ Observe
IoctlRun  == IoctlNext /\ Observe
WriterRun == WriterNext /\ Observe

Next == \/ Arrive /\ Observe
        \/ IsrRun \/ Pmic1Go \/ Pmic2Run \/ IoctlRun \/ WriterRun

(***************************************************************************)
(* A callback that is running keeps being scheduled, and a thread that     *)
(* waits for a lock that is released again and again gets it in the end    *)
(* (the wait is first come, first served): strong fairness for each. No    *)
(* interrupt and no request has to arrive.                                 *)
(***************************************************************************)
Fairness == /\ SF_vars(IsrRun) /\ SF_vars(Pmic1Go) /\ SF_vars(Pmic2Run)
            /\ SF_vars(IoctlRun) /\ SF_vars(WriterRun)

Spec == Init /\ [][Next]_vars
FairSpec == Spec /\ Fairness
-----------------------------------------------------------------------------
Origins == {"own", "old", "none"}
Bits4 == {"irq", "toggle", "bit2", "crc"}
Bits5 == {"power", "data", "bit3", "vconn", "pmic", "bit7"}

\* Every variable is of its type, and every thread at one of its own labels.
ControlOK == /\ lock \in Threads \cup {"none"}
             /\ pc \in [Threads -> UNION {Labels(t) : t \in Threads}]
             /\ \A t \in Threads : pc[t] \in Labels(t)

PortOK == /\ port \in PortStates
          /\ rpt \in [Reporters -> PortStates]
          /\ rpt["pmic2"] = DetachedPort
          /\ todo \in [Reporters -> SUBSET PortFields]
          /\ detacher \in Reporters

ClientOK == pending \in Nat /\ told \in PortStates /\ missed \in BOOLEAN

Reg4OK == /\ shadow4 \in SUBSET Bits4 /\ chip4 \in SUBSET Bits4
          /\ acc \in [Reporters -> SUBSET Bits4]

Reg5OK == shadow5 \in SUBSET Bits5 /\ chip5 \in SUBSET Bits5

InputOK == r2 \in Register2 /\ req \in RequestType /\ workItem \in BOOLEAN

PdOK == /\ readers \in Nat
        /\ reg1 \in [type : 0 .. 7, body : BOOLEAN, of : Origins]
        /\ pd \in [type : 0 .. 7 \cup {NoAnswer}, of : Origins]
        /\ pdEvent \in BOOLEAN
        /\ result \in [status : {"none", "invalid", "buffer", "spi", "timeout",
                                 "busy", "full", "success"}, of : Origins]
        /\ air \in SUBSET {"own", "old"}
        /\ taint \in BOOLEAN

TypeOK == /\ ControlOK /\ PortOK /\ ClientOK /\ Reg4OK /\ Reg5OK
          /\ InputOK /\ PdOK /\ overlap \in BOOLEAN
-----------------------------------------------------------------------------
(***************************************************************************)
(* The wait lock.                                                          *)
(***************************************************************************)
\* Between acquire and release a thread owns DeviceWaitLock, whatever the
\* others do; and only a failed write leaves it owned by nobody who would
\* give it back.
LockDiscipline ==
  /\ \A t \in Threads : Holds(t) => lock = t
  /\ \A t \in Threads \ {"writer"} : lock = t => Holds(t)

\* The lock is orphaned by exactly one thing: a write request completed with
\* the error of its SPI transfer (Queue.c, LABEL_17).
OrphanedByFailedWrite ==
  [][Orphaned' /\ ~Orphaned =>
       /\ pc["writer"] = "send" /\ pc'["writer"] = "idle"
       /\ result'.status = "spi"]_vars

\* An orphaned lock stays orphaned: no callback that needs it runs again. The
\* port is frozen, and no callback writes a control register, except for a
\* PmicInterrupt2Isr that was already past its release. (A change of power,
\* which moves no callback, takes no lock and still writes them.)
OrphanedForGood ==
  [][Orphaned =>
       /\ Orphaned'
       /\ UNCHANGED <<r2, reg1.type>>
       /\ pc' # pc => UNCHANGED <<shadow5, chip5>>
       /\ pc["pmic2"] \in {"idle", "wait"} =>
            /\ UNCHANGED <<port, told>>
            /\ pc' # pc => UNCHANGED <<shadow4, chip4>>]_vars

\* Every callback that is called returns, unless the lock has been orphaned.
HandlersReturn ==
  \A t \in Threads : (pc[t] # "idle") ~> (pc[t] = "idle" \/ Orphaned)
-----------------------------------------------------------------------------
(***************************************************************************)
(* What the clients know of the port.                                      *)
(***************************************************************************)
Storing(t) == pc[t] = "store"
Settled == /\ ~Storing("isr") /\ ~Storing("pmic2")
           /\ pc["isr"] # "levelStore"

\* A client that heard every event since it last knew the port (each found a
\* request of it waiting, with memory for it and a buffer large enough) knows
\* the port as the driver stores it: nothing is stored that was not reported,
\* and nothing reported that is not then stored. It holds until
\* PmicInterrupt2Isr, outside the lock, overlaps. A client that did not hear
\* one knows the port again after the next attach or detach that it hears, or
\* when it has asked for the state; not after a change of the current level.
ClientsKnowPort == ~overlap /\ ~missed /\ Settled => told = port

\* A client that asks is given a state the port was in, never half of one and
\* half of another, and can tell from it whether something is attached.
AnswersAreWhole ==
  ~overlap /\ pc["ioctl"] = "reply" => Inferred(rpt["ioctl"]) = port

\* Why those two hold, in a form that every step preserves: what each thread
\* that is in the middle of storing or reading has done so far. The unlocked
\* tail of PMIC 2 is kept apart from the others by overlap, the others from
\* each other by the lock.
Tells(p) == (p.portType = "Unknown") = (p.event = "Detach")

StoringInv(t) ==
  Storing(t) => /\ ~missed => told = rpt[t]
                /\ \A f \in PortFields \ todo[t] : port[f] = rpt[t][f]

LevelInv ==
  pc["isr"] = "levelStore" /\ ~missed =>
    told = [port EXCEPT !.current = rpt["isr"].current]

ReadingInv ==
  /\ pc["ioctl"] \in {"read", "reply"} =>
       \A f \in AnswerFields \ todo["ioctl"] : rpt["ioctl"][f] = port[f]
  /\ pc["ioctl"] = "reply" => todo["ioctl"] = {}

KnowledgeInv ==
  /\ Clash => overlap
  /\ Tells(rpt["isr"])
  /\ ~overlap =>
       /\ StoringInv("isr") /\ StoringInv("pmic2")
       /\ LevelInv
       /\ ReadingInv
       /\ Settled /\ ~missed => told = port
       /\ ~Storing("isr") /\ ~Storing("pmic2") => Tells(port)

\* What the interrupt acknowledges it has stored: when Register 2 is about to
\* be cleared, the port is attached or detached as its status said, and has the
\* current level it gave. (Of the power-delivery bits that is not true.)
AcknowledgedIsStored ==
  ~SpiMayFail /\ ~overlap /\ pc["isr"] = "ack" =>
    /\ r2.state \in AttachRoles => port.event = "Attach"
    /\ r2.state \in DetachRoles => port.event = "Detach"
    /\ r2.level # 0 => port.current = ChangedCurrent(r2.level)

\* Interrupt.c calls the cable states 2, 3, 6, 7 and 8 "USB Host" (lines 110,
\* 128, 158, 173 and 191). A host is the downstream facing port.
HostStatesAreDfp ==
  ~overlap /\ pc["isr"] = "load4" /\ r2.state \in {2, 3, 6, 7, 8}
    => port.portType = "Dfp"

-----------------------------------------------------------------------------
(***************************************************************************)
(* The registers.                                                          *)
(***************************************************************************)
\* With a working SPI bus the shadows of the two control registers are what
\* the chip has, whenever no read-modify-write is under way.
ShadowsMatchChip ==
  ~SpiMayFail =>
    /\ chip5 = shadow5
    /\ ~overlap /\ (\A t \in Reporters : pc[t] # "send4" /\ pc[t] # "copy4")
         => chip4 = shadow4

\* The toggle bit of Register 4 says whether a cable is attached: outside the
\* store of a new port and the read-modify-write that follows it, the bit and
\* the stored event agree, whatever a client does to the register's other bit.
ToggleFollowsPort ==
  /\ ~overlap
  /\ \A t \in {"isr", "pmic2"} : pc[t] \notin {"store", "load4", "store4"}
  => ("toggle" \in shadow4) = (port.event = "Detach")

\* The GoodCRC bit of Register 4 belongs to the clients: an attach or detach
\* rewrites that register and must not undo a client's setting.
GoodCrcIsTheClients ==
  [][("crc" \in shadow4) # ("crc" \in shadow4') /\ ~overlap =>
       pc["ioctl"] = "store4" /\ req.op = "pdEnable"]_vars

\* The power role the chip has was chosen by somebody: the bit changes only
\* where the interrupt handler applies a cable state, or where a client asked
\* for that role; never as a by-product of another bit of the register, and
\* never by a request for anything else. The low byte of what a client asks
\* for is what counts.
PowerRoleHasAuthor ==
  [][~SpiMayFail /\ ("power" \in chip5) # ("power" \in chip5') =>
       \/ pc["isr"] = "role" /\ pc'["isr"] # "role"
       \/ /\ pc["ioctl"] = "serve" /\ req.op = "powerRole"
          /\ req.value % 256 = (IF "power" \in chip5' THEN 1 ELSE 0)]_vars

\* A cable that the UC120 interrupt has seen go is not powered: once the
\* handler returns neither VConn nor the source role is on, and no request
\* turns them on again before the next attach. (A detach that came from
\* PmicInterrupt2Isr leaves them as they were.)
DetachedIsPoweredDown ==
  /\ ~SpiMayFail /\ port.event = "Detach" /\ detacher = "isr"
  /\ pc["isr"] \in {"idle", "wait"}
  => chip5 \cap {"vconn", "power"} = {}
-----------------------------------------------------------------------------
(***************************************************************************)
(* Power-delivery writes.                                                  *)
(***************************************************************************)
\* A write that is reported sent was acknowledged by the chip for that very
\* message, unless it began while an earlier message was unanswered or the
\* interrupt was between storing an answer and signalling it, or the answer
\* could not be read.
SuccessIsOwnAnswer == result.status = "success" /\ ~taint => result.of = "own"
=============================================================================
