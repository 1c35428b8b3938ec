------------------------------ MODULE CableSide ------------------------------
(***************************************************************************)
(* The driver against the cable: PowerCycle composed with the UC120's side *)
(* of Register 2. The chip puts the state of the cable there and holds its *)
(* interrupt line while the register is not zero; the handler reads it and *)
(* later writes 0xFF to it, which clears whatever is there by then. The    *)
(* chip is not part of the repository: it is modelled from how Interrupt.c *)
(* uses the register.                                                      *)
(***************************************************************************)
EXTENDS PowerCycle

CONSTANT MaxChanges    \* bound: times the cable changes

ASSUME CableAssumption == MaxChanges \in Nat /\ StatesIn2 \subseteq
                            DetachRoles \cup AttachRoles \cup {0}

VARIABLES
  cable,     \* the state of the cable
  chip2,     \* the state in Register 2 of the chip, 0 if it has nothing to say
  changes,   \* times the cable has changed
  lost,      \* ghost: is the last change neither in Register 2 nor handled?
  oldKind    \* ghost: was the last attach ignored, the port being attached?

sideVars == <<cable, chip2, changes, lost, oldKind>>
cableVars == <<cycleVars, sideVars>>

EventOf(role) == IF role \in AttachRoles THEN "Attach" ELSE "Detach"
Roles == StatesIn2 \ {0}

SideInit == /\ CycleInit
            /\ cable \in Roles \cap DetachRoles
            /\ chip2 = 0 /\ changes = 0
            /\ lost = FALSE /\ oldKind = FALSE
-----------------------------------------------------------------------------
Powered == power \notin {"off", "failed"}

\* The cable changes. Out of D0 the chip may be without power and not notice.
CableChanges ==
  /\ changes < MaxChanges /\ changes' = changes + 1
  /\ cable' \in Roles \ {cable}
  /\ \/ chip2' = cable' /\ lost' = (lost /\ pc["isr"] = "ack")
     \/ ~Powered /\ UNCHANGED chip2 /\ lost' = TRUE
  /\ UNCHANGED <<cycleVars, oldKind>>

\* The chip says again what the cable is, as it may when it has been reset.
ChipRepeats ==
  /\ Powered /\ chip2 = 0 /\ lost
  /\ chip2' = cable /\ lost' = FALSE
  /\ UNCHANGED <<cycleVars, cable, changes, oldKind>>

\* Register 2 is cleared. What it said is lost unless it was just handled.
Clear(handled) == chip2' = 0 /\ lost' = (lost \/ chip2 # handled)

\* The handler is called because the chip asks for it.
Line == chip2 # 0 /\ "irq" \in chip4

Arrives == /\ ArriveWork
           /\ pc'["isr"] # pc["isr"] => Line
           /\ UNCHANGED sideVars

\* It reads what the chip says, ...
ReadsStatus == /\ IsrWork
               /\ pc["isr"] = "status"
               /\ pc'["isr"] # "ack" => r2'.state = chip2
               /\ UNCHANGED sideVars

\* ... reads, in vain, the register that says more of the cable, ...
ReadsInVain == /\ IsrWork
               /\ pc["isr"] = "port" /\ pc'["isr"] = "ack"
               /\ lost' = TRUE
               /\ UNCHANGED <<cable, chip2, changes, oldKind>>

\* ... or compares the event with the stored one, ...
Checks == /\ IsrWork
          /\ pc["isr"] = "check"
          /\ lost' = (lost /\ r2.state # cable)
          /\ oldKind' = (~IsNews /\ port.partner # rpt["isr"].partner)
          /\ UNCHANGED <<cable, chip2, changes>>

\* ... and clears the register.
Acknowledges == /\ IsrWork
                /\ pc["isr"] = "ack"
                /\ \/ Clear(r2.state)
                   \/ SpiMayFail /\ UNCHANGED <<chip2, lost>>
                /\ UNCHANGED <<cable, changes, oldKind>>

Handles == /\ IsrWork
           /\ pc["isr"] \notin {"status", "check", "ack"}
           /\ ~(pc["isr"] = "port" /\ pc'["isr"] = "ack")
           /\ UNCHANGED sideVars

\* UC120InterruptEnable clears Register 2 as well, before it enables.
ChangesPower ==
  /\ PowerWork
  /\ \/ power = "enable2" /\ Clear(0)
     \/ power = "enable2" /\ SpiMayFail /\ UNCHANGED <<chip2, lost>>
     \/ power = "leave" /\ (Clear(0) \/ UNCHANGED <<chip2, lost>>)
     \/ power \notin {"enable2", "leave"} /\ UNCHANGED <<chip2, lost>>
  /\ UNCHANGED <<cable, changes, oldKind>>

IsrSide == ReadsStatus \/ ReadsInVain \/ Checks \/ Acknowledges \/ Handles
RestOfDriver == /\ \/ Pmic1Work \/ Pmic2Work \/ IoctlWork \/ WriterWork
                   \/ Power(StopQueue)
                /\ UNCHANGED sideVars

SideNext == \/ CableChanges \/ ChipRepeats \/ Arrives \/ IsrSide
            \/ RestOfDriver \/ ChangesPower

SideSpec == SideInit /\ [][SideNext]_cableVars
-----------------------------------------------------------------------------
\* When the chip has nothing more to say the stored port agrees with the
\* cable: attached or detached as it is, and, unless it was exchanged without
\* a detach that the driver saw, with the partner it has. Except after a
\* change that was cleared unhandled: one that came between the read of
\* Register 2 and its acknowledgement, or before the interrupt was enabled, or
\* was read in vain.
PortFollowsCable ==
  /\ chip2 = 0 /\ pc["isr"] \in {"idle", "wait"} /\ power = "on"
  /\ ~overlap /\ ~lost
  /\ detacher = "isr" /\ pc["pmic2"] \in {"idle", "wait"}
  => /\ port.event = EventOf(cable)
     /\ cable \in AttachRoles /\ ~oldKind => port.partner = RolePartner(cable)

\* A cable that is plugged in or out is noticed in the end, while the device
\* stays in D0, unless the change was lost as above or the lock orphaned.
PlugIsNoticed ==
  (port.event # EventOf(cable)) ~>
    (port.event = EventOf(cable) \/ lost \/ Orphaned \/ power # "on")

(***************************************************************************)
(* The line is held until Register 2 is cleared, so the framework calls    *)
(* the handler; otherwise as in PowerCycle. The SPI bus may fail again and *)
(* again, but not every time that Register 2 is read.                      *)
(***************************************************************************)
Called == Arrives /\ pc'["isr"] # pc["isr"]
Told   == ReadsStatus /\ pc'["isr"] # "ack"

FairSideSpec ==
  /\ SideSpec
  /\ WF_cableVars(Called) /\ SF_cableVars(Told) /\ SF_cableVars(IsrSide)
  /\ SF_cableVars(WriterWork /\ UNCHANGED sideVars)
  /\ SF_cableVars(ChangesPower)
=============================================================================
