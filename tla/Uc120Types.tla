----------------------------- MODULE Uc120Types -----------------------------
(***************************************************************************)
(* The enumerations of Public.h, the register layouts of Device.h and the  *)
(* tables by which UC120InterruptIsrInternal turns a register value into   *)
(* what the driver records and reports.                                    *)
(***************************************************************************)
EXTENDS Integers

\* UC120_PORT_TYPE, UC120_PORT_PARTNER_TYPE, UC120_ADVERTISED_CURRENT_LEVEL
PortTypes == {"Dfp", "Ufp", "Unknown"}
PartnerTypes == {"Dfp", "Ufp", "PoweredCableUfp", "DebugAccessory",
                 "AudioAccessory", "PoweredAccessory", "Unknown"}
CurrentLevels == {"DefaultUsb", "Power15", "Power30", "NotAvailable", "Unknown"}

\* The five fields of the device context that describe the port.
PortFields == {"event", "portType", "partner", "current", "orientation"}
PortStates == [event : {"Attach", "Detach"}, portType : PortTypes,
               partner : PartnerTypes, current : CurrentLevels,
               orientation : 0 .. 2]

DetachedPort == [event |-> "Detach", portType |-> "Unknown",
                 partner |-> "Unknown", current |-> "Unknown",
                 orientation |-> 0]

(***************************************************************************)
(* Register 2, the interrupt status: what happened to the cable (state),   *)
(* to the advertised current (level), and to power-delivery messages.      *)
(* Register 7: the advertised current and the plug's polarity.             *)
(* Register 1: the top three bits are a message type, the low five the     *)
(* length of a received message, of which only "zero or not" matters.      *)
(***************************************************************************)
Register2 == [state : 0 .. 15, level : 0 .. 3,
              incoming : BOOLEAN, sized : BOOLEAN]
NoStatus == [state |-> 0, level |-> 0, incoming |-> FALSE, sized |-> FALSE]
Register7 == [level : 0 .. 3, flipped : BOOLEAN]

\* CableType: the current level of Register 7, as reported at an attach.
CableCurrent(n) == CASE n = 1 -> "DefaultUsb"
                     [] n = 2 -> "Power15"
                     [] n = 3 -> "Power30"
                     [] OTHER -> "NotAvailable"

\* CurrentChanged: the current level of Register 2, as reported on its own.
ChangedCurrent(n) == CASE n = 1 -> "DefaultUsb"
                       [] n = 2 -> "Power15"
                       [] n = 3 -> "Power30"
                       [] OTHER -> "Unknown"

DetachRoles == {1, 4}
AttachRoles == {2, 3, 5, 6, 7, 8}
SourceRoles == {2, 3, 8}        \* SetVConn(1) and SetPowerRole(1) come first
FlatRoles == {6, 7}             \* reported with orientation 0

RolePortType(role) == IF role \in {5, 8} THEN "Ufp" ELSE "Dfp"

RolePartner(role) == CASE role = 2 -> "Ufp"
                       [] role = 3 -> "PoweredCableUfp"
                       [] role = 5 -> "Dfp"
                       [] role = 6 -> "AudioAccessory"
                       [] role = 7 -> "DebugAccessory"
                       [] OTHER    -> "PoweredAccessory"

\* Polarity: 1 is straight, 2 twisted.
Orientation(reg7) == IF reg7.flipped THEN 2 ELSE 1

\* What the interrupt handler reports, and then stores, for a cable state.
PortFor(role, reg7) ==
  IF role \in AttachRoles
  THEN [event       |-> "Attach",
        portType    |-> RolePortType(role),
        partner     |-> RolePartner(role),
        current     |-> CableCurrent(reg7.level),
        orientation |-> IF role \in FlatRoles THEN 0
                        ELSE Orientation(reg7)]
  ELSE DetachedPort

\* A register as the set of the bits that are set in it.
With(bits, b, on) == IF on THEN bits \cup {b} ELSE bits \ {b}
=============================================================================
