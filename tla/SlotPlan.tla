------------------------------ MODULE SlotPlan ------------------------------
(***************************************************************************)
(* What the console reads from a status of the device and decides from it:  *)
(* planConsoleSlot and selectionReached of console_slots.go, the conditions *)
(* of installPackage, cancelTrial and removeApplication, and                *)
(* validateConsoleExtra of console_capabilities.go.                         *)
(*                                                                         *)
(* A status is seen from the application that the request names.  Slots are *)
(* 0 and 1 (A and B), -1 is no slot; version 0 is no version.               *)
(***************************************************************************)
EXTENDS Integers

CONSTANT Versions  \* versions of an application

ASSUME VersionsAssumption == Versions \subseteq Nat \ {0}

Slots == {0, 1}
NoSlot == -1

Statuses ==
    [listed : BOOLEAN,                     \* the application is in the catalog
     active : Slots \cup {NoSlot}, previous : Slots \cup {NoSlot},
     pending : Slots \cup {NoSlot},
     versions : [Slots -> Versions \cup {0}],
     loaded : Slots \cup {NoSlot},         \* the slot it is loaded from, if it is
     running : Versions \cup {0},
     up : {"down", "legacy", "started", "confirmed"},  \* legacy: ready, of ABI 1
     trial : {"none", "app", "other", "unlisted"}]     \* whose trial is not over

-----------------------------------------------------------------------------
SlotActions == {"switch", "activate", "rollback", "use-slot"}

\* Those that open a serial port or write to the device over USB.
USBWrites == {"usb-backup", "usb-flash", "usb-restore", "usb-provision",
              "serial-diagnose"}

\* The other actions that change the device, this host or its files in one call.
PlainWrites ==
    {"bind", "pair", "unbind", "forget-pairing", "app-write", "wifi-set",
     "wifi-add", "wifi-remove", "wifi-move", "wifi-backup", "wifi-update",
     "package", "wifi-file-upsert", "wifi-file-remove", "wifi-file-move",
     "provision-generate"}

ReadActions ==
    {"status", "refresh", "scan", "info", "diagnose", "doctor", "pair-status",
     "app-read", "wifi-list", "wifi-file-status", "usb-ports", "usb-inspect"}

Actions == SlotActions \cup USBWrites \cup PlainWrites \cup ReadActions
             \cup {"install", "cancel-trial", "remove", "push"}

Requests ==
    [action : Actions, slot : Slots \cup {NoSlot}, version : Versions \cup {0},
     confirmed : BOOLEAN,
     package : Versions \cup {0},          \* the version in the reviewed package
     same : BOOLEAN]                       \* AllowSameVersion

Confirmable == USBWrites \cup PlainWrites \cup {"remove", "push"}

ValidExtra(r, uncertain) ==
    /\ r.action \in Confirmable => r.confirmed /\ ~uncertain
    /\ r.same => r.confirmed

\* The further conditions of handle.
Acceptable(r, uncertain) ==
    /\ ValidExtra(r, uncertain)
    /\ r.action \in SlotActions \cup {"install", "cancel-trial"} => ~uncertain
    /\ r.action = "use-slot" => r.slot # NoSlot /\ r.version # 0

-----------------------------------------------------------------------------
SlotVersion(d, slot) ==
    IF d.listed /\ slot \in Slots THEN d.versions[slot] ELSE 0

SlotOf(r, d) ==
    CASE r.action = "activate" -> d.pending
      [] r.action = "rollback" -> d.previous
      [] r.action = "use-slot" -> r.slot
      [] OTHER -> d.active

\* The first match of planConsoleSlot's switch; "restage" is its default case.
CommandFor(slot, d) ==
    CASE slot = d.active -> "switch"
      [] slot # d.active /\ slot = d.pending -> "activate"
      [] slot \notin {d.active, d.pending} /\ slot = d.previous -> "rollback"
      [] OTHER -> "restage"

Plannable(r, d) ==
    LET slot == SlotOf(r, d)
        command == CommandFor(slot, d)
    IN  /\ SlotVersion(d, slot) # 0
        /\ r.version \in {0, SlotVersion(d, slot)}
        /\ d.trial = "none"
        /\ command = "rollback" => d.pending = NoSlot
        /\ command = "restage" =>
              /\ d.pending = NoSlot /\ d.active # NoSlot /\ slot = 1 - d.active
              /\ r.package = SlotVersion(d, slot)

PlanFor(r, d) ==
    [slot |-> SlotOf(r, d), version |-> SlotVersion(d, SlotOf(r, d)),
     command |-> CommandFor(SlotOf(r, d), d)]

SelectionReached(d, plan) ==
    /\ d.loaded = plan.slot /\ d.running = plan.version
    /\ \/ d.up = "legacy"
       \/ d.up = "confirmed" /\ d.listed /\ d.active = plan.slot

-----------------------------------------------------------------------------
InstallTarget(d) == IF d.listed /\ d.active # NoSlot THEN 1 - d.active ELSE 0

Installable(r, d) ==
    LET rebuilt == r.same /\ r.confirmed /\ d.active # NoSlot
                      /\ r.package = SlotVersion(d, d.active)
    IN  /\ d.trial = "none"
        /\ d.listed => /\ d.pending = NoSlot
                       /\ r.same => rebuilt
                       /\ rebuilt \/ \A s \in Slots : d.versions[s] < r.package

\* The new package is found staged; the other one is where it was.
Staged(d, slot, version) == SlotVersion(d, slot) = version /\ d.pending = slot

Removable(d) == d.listed /\ d.trial = "none" /\ d.loaded = NoSlot
=============================================================================
