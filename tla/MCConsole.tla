------------------------------ MODULE MCConsole ------------------------------
(* ConsoleBridge with two versions of an application, a request of every     *)
(* kind, and the statuses that matter to one of them.                        *)
EXTENDS ConsoleBridge, TLC

\* Slot 0 is active; slot 1 is empty, spare, kept for a rollback, or staged.
Catalogs ==
    {d \in [listed : {TRUE}, active : {0}, previous : {NoSlot, 1},
            pending : {NoSlot, 1}, versions : {0 :> 1 @@ 1 :> 0, 0 :> 1 @@ 1 :> 2}] :
        /\ d.previous = NoSlot \/ d.pending = NoSlot
        /\ d.versions[1] = 0 => d.previous = NoSlot /\ d.pending = NoSlot}

\* The same with the slots the other way round, as after an activation.
Swapped(d) ==
    LET other(s) == IF s = NoSlot THEN NoSlot ELSE 1 - s
    IN  [d EXCEPT !.active = 1, !.previous = other(@), !.pending = other(@)]

Running(d, slot, up, trial) ==
    [x \in DOMAIN d \cup {"loaded", "running", "up", "trial"} |->
        CASE x = "loaded" -> slot
          [] x = "running" -> SlotVersion(d, slot)
          [] x = "up" -> up
          [] x = "trial" -> trial
          [] OTHER -> d[x]]

MCReadings ==
    LET catalogs == Catalogs \cup {Swapped(d) : d \in {x \in Catalogs : x.versions[1] # 0}}
        unlisted == [(CHOOSE d \in Catalogs : TRUE) EXCEPT !.listed = FALSE,
                       !.active = NoSlot, !.previous = NoSlot, !.pending = NoSlot,
                       !.versions = 0 :> 0 @@ 1 :> 0]
    IN  {Running(d, NoSlot, "started", "none") : d \in catalogs \cup {unlisted}}
        \cup {Running(d, d.active, up, "none") :
                d \in catalogs, up \in {"legacy", "started", "confirmed"}}
        \cup {Running(d, d.pending, "started", "app") :
                d \in {x \in catalogs : x.pending # NoSlot}}
        \cup {Running(d, d.pending, "legacy", "none") :
                d \in {x \in catalogs : x.pending # NoSlot}}
        \cup {Running(unlisted, NoSlot, "started", trial) :
                trial \in {"other", "unlisted"}}

Ask(action) ==
    [action |-> action, slot |-> NoSlot, version |-> 0, confirmed |-> TRUE,
     package |-> 0, same |-> FALSE]

MCAsked ==
    {Ask(action) : action \in {"status", "scan", "push", "remove", "usb-flash",
                               "bind", "activate", "rollback", "cancel-trial"}}
    \cup {[Ask("switch") EXCEPT !.version = v] : v \in {0, 1}}
    \cup {[Ask("use-slot") EXCEPT !.slot = 1, !.version = 2, !.package = p] : p \in {0, 2}}
    \cup {[Ask("install") EXCEPT !.package = 2],
          [Ask("install") EXCEPT !.package = 1, !.same = TRUE]}
=============================================================================
