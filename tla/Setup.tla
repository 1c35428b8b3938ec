-------------------------------- MODULE Setup --------------------------------
(***************************************************************************)
(* How a device comes into being, before PowerUp takes it into D0:         *)
(* Ice5Lp2kCreateDevice with Ice5Lp2kQueueInitialize, and then             *)
(* UC120EvtDevicePrepareHardware, which the framework calls again, with    *)
(* another list of resources, when it rebalances them. There is no         *)
(* ReleaseHardware callback: what an earlier call left is still there.     *)
(* Any call of the framework may fail.                                     *)
(***************************************************************************)
EXTENDS PowerUp, Functions

CONSTANTS Connections,  \* SPI connections a list may name
          NoSpi,        \* the zero ID and target a new context has
          ResourceLists \* lists of resources the device may be given

ASSUME SetupAssumption ==
  NoSpi \notin Connections /\ ResourceLists \subseteq Seq(Connections \cup {"other"})

VARIABLES
  left,        \* creations still to do
  made,        \* objects that have been created
  resources,   \* the list given last
  connection,  \* SpiDeviceIdLow and -High
  target,      \* what SpiDeviceIoTarget has been opened for
  event        \* has PdEvent been initialized?

setupVars == <<left, made, resources, connection, target, event>>
powerUpVars == <<cycles, file, registers4, registers5, calVars, ok>>
allVars == <<vars, setupVars>>

\* The queues for reads and writes are useless until requests go there.
CreateOrder ==
  <<"device", "uc120Interrupt", "plugDetInterrupt", "pmic1Interrupt",
    "pmic2Interrupt", "delayedCollection", "deviceWaitLock">>
QueueOrder ==
  <<"defaultQueue", "delayedQueue", "readQueue", "reads", "writeQueue", "writes">>

SetupInit ==
  /\ Fresh /\ pc = "create"
  /\ left = CreateOrder \o QueueOrder /\ made = {}
  /\ resources = <<>> /\ connection = NoSpi /\ target = NoSpi
  /\ event = FALSE
-----------------------------------------------------------------------------
\* A call of the framework: if it fails, its error is returned.
SlipIgnore(next) == ok' \in BOOLEAN /\ pc' = next
Try(next) == ok' \in BOOLEAN /\ pc' = IF ok' THEN next ELSE "failed"
Rest == UNCHANGED <<cycles, file, registers4, registers5, calVars>>

Create ==
  /\ pc = "create" /\ left # <<>>
  /\ Try("create")
  /\ left' = Tail(left)
  /\ made' = IF ok' THEN made \cup {Head(left)} ELSE made
  /\ Rest /\ UNCHANGED <<resources, connection, target, event>>

\* Where a list names SPI connections, and the last that it names.
SpiIn(list) == {i \in DOMAIN list : list[i] \in Connections}
LastSpi(list) == {list[i] : i \in {j \in SpiIn(list) : \A k \in SpiIn(list) : k <= j}}

\* The last SPI connection counts. If there is none the ID stays as it was,
\* and nobody asks whether one was found.
Found(list) == IF SpiIn(list) = {} THEN {connection} ELSE LastSpi(list)

\* UC120AcquireInitializeResourcesFromAcpi, when the device is started and
\* when, out of D0, its resources are changed.
Acquire ==
  /\ \/ pc = "create" /\ left = <<>>
     \/ pc = "off" /\ cycles > 0
  /\ pc' = "open"
  /\ \E list \in ResourceLists :
       /\ resources' = list
       /\ connection' \in Found(list)
  /\ Rest /\ UNCHANGED <<ok, left, made, target, event>>

SlipOpenOnce ==
  /\ pc = "open"
  /\ Try("interface")
  /\ ok' => connection # NoSpi
  /\ target' = IF ok' /\ target = NoSpi THEN connection ELSE target
  /\ Rest /\ UNCHANGED <<left, made, resources, connection, event>>

\* UC120OpenResources. There is no path for the zero ID. The target of the
\* time before is overwritten, not closed.
Open ==
  /\ pc = "open"
  /\ Try("interface")
  /\ ok' => connection # NoSpi
  /\ target' = IF ok' THEN connection ELSE NoSpi
  /\ Rest /\ UNCHANGED <<left, made, resources, connection, event>>

\* The rest of PrepareHardware. The event is initialized either way.
Interface ==
  /\ pc = "interface"
  /\ Try("off")
  /\ event' = TRUE
  /\ Rest /\ UNCHANGED <<left, made, resources, connection, target>>

SetupNext == \/ Create \/ Acquire \/ Open \/ Interface
             \/ Next /\ UNCHANGED setupVars

SetupSpec == SetupInit /\ [][SetupNext]_allVars
-----------------------------------------------------------------------------
InD0 == pc \notin {"create", "open", "interface", "off", "failed"}

\* Nothing that the callbacks use is missing when the device enters D0, from
\* where on they may run: a creation that failed left no half device behind.
UsedIsMade ==
  InD0 => /\ made = Range(CreateOrder \o QueueOrder)
          /\ target \in Connections
          /\ event

\* In D0 the driver talks to the connection of the newest list, the last one
\* that the list names, even when the resources have been changed since the
\* first time; to an older one only if the new list names none.
TargetIsCurrent ==
  InD0 /\ SpiIn(resources) # {} => target \in LastSpi(resources)
=============================================================================
