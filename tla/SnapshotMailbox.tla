--------------------------- MODULE SnapshotMailbox ---------------------------
(***************************************************************************)
(* What internal/push promises its callers, without threads, locks or      *)
(* timers: a mailbox with one slot.  A newer snapshot replaces the one in  *)
(* the slot, a failed refresh withdraws it, and otherwise a snapshot stays *)
(* until the worker has ruled on that very snapshot: displayed, already on *)
(* the panel, or refused.                                                  *)
(***************************************************************************)
EXTENDS Naturals

CONSTANTS Frames, NoFrame, MaxId

VARIABLES
    newest,   \* id of the newest snapshot or withdrawal
    slot,     \* the queued snapshot
    ruling    \* id of the snapshot the worker has ruled on, 0 when none

mailboxVars == <<newest, slot, ruling>>

Empty == [id |-> 0, frame |-> NoFrame]

Init == newest = 0 /\ slot = Empty /\ ruling = 0

Put(f) ==
    /\ newest < MaxId
    /\ newest' = newest + 1
    /\ slot' = [id |-> newest + 1, frame |-> f]
    /\ UNCHANGED ruling

Withdraw ==
    /\ newest < MaxId
    /\ newest' = newest + 1
    /\ slot' = Empty
    /\ UNCHANGED ruling

\* The worker rules on a snapshot that was put, perhaps no longer the newest.
Rule(i) ==
    /\ ruling = 0
    /\ i \in 1..newest
    /\ ruling' = i
    /\ UNCHANGED <<newest, slot>>

\* The ruling takes the snapshot it is about, and no other, out of the slot.
Settle ==
    /\ ruling # 0
    /\ slot' = IF slot.id = ruling THEN Empty ELSE slot
    /\ ruling' = 0
    /\ UNCHANGED newest

\* The process stops before it acts on its ruling.
Abandon ==
    /\ ruling # 0
    /\ ruling' = 0
    /\ UNCHANGED <<newest, slot>>

Next ==
    \/ \E f \in Frames : Put(f)
    \/ Withdraw
    \/ \E i \in 1..newest : Rule(i)
    \/ Settle
    \/ Abandon

Spec == Init /\ [][Next]_mailboxVars
=============================================================================
