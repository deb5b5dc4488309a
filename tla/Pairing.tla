------------------------------- MODULE Pairing -------------------------------
(***************************************************************************)
(* internal/ble/bond.go, binding.go and pairing.go, with WithClient and     *)
(* PairDevice of native.go: one frame's pairing records under several       *)
(* processes (daemon, command line).                                        *)
(*                                                                         *)
(* A relationship (client, binding id, secret) is a number; each pairing    *)
(* ceremony makes a new one.  Two files hold at most one each, a third one  *)
(* names the selected device.  A process keeps what it has loaded while     *)
(* others change the files; changes are made under a lock that fails when   *)
(* it is taken.  The frame serves one connection at a time, and a process   *)
(* learns of a lost link at its next exchange.                              *)
(***************************************************************************)
EXTENDS Naturals

CONSTANTS
    Procs,      \* processes, or calls of one process on the same records
    Daemon,     \* the one that connects again and again
    NoProc,
    MaxBonds,   \* bound: pairing ceremonies
    MaxFaults   \* bound: lost links, crashes and failed calls

ASSUME ProcsAssumption ==
    /\ Daemon \in Procs /\ NoProc \notin Procs
    /\ MaxBonds \in Nat /\ MaxFaults \in Nat

Bonds == 1..MaxBonds
NoBond == 0

VARIABLES
    candidate,  \* the file <id>.pending.json
    active,     \* the file <id>.json
    selected,   \* the selection names this device
    lock,       \* the holder of <id>.json.lock
    phase,      \* the frame's pairing state
    owner,      \* the relationship that phase is about
    conn,       \* the process that the frame is connected to
    pc, task,   \* per process: control point, and what it was called for
    rec,        \* per process: the record it works with
    fresh,      \* per process: rec.Pending
    seen,       \* per process: what ReadPairingInfo returned
    made,       \* ceremonies so far
    faults,
    approved,   \* history: relationships that the button has confirmed
    asked,      \* history: relationships that a forget has begun to remove
    forgotten,  \* history: and those of a forget that succeeded
    blank       \* history, per process: at some time of LoadBond every record was gone,
                \* or being forgotten

fileVars == <<candidate, active, selected, lock>>
frameVars == <<phase, owner, made>>
procVars == <<pc, task, rec, fresh, seen>>
historyVars == <<approved, asked, forgotten, blank>>
vars == <<fileVars, frameVars, conn, procVars, faults, historyVars>>

\* Waiting for the first proof, displaying or awaiting the button, and cancelled
\* or expired.
Phases == {"unbound", "ready", "armed", "bound", "over"}

Exchanges == {"info", "ceremony", "poll", "auth"}
Locking == {"save", "confirm", "discard", "forget"}
Locked == {"write", "remove", "select", "forget2", "forget3"}
Points == {"idle", "load", "load2", "loaded", "connect"}
            \cup Exchanges \cup Locking \cup Locked

\* Also: the lock is held exactly while a call changes more than one file.
TypeOK ==
    /\ \A p \in Procs : pc[p] \in Locked <=> lock = p
    /\ candidate \in 0..MaxBonds /\ active \in 0..MaxBonds
    /\ selected \in BOOLEAN
    /\ lock \in Procs \cup {NoProc} /\ conn \in Procs \cup {NoProc}
    /\ phase \in Phases /\ owner \in 0..MaxBonds
    /\ pc \in [Procs -> Points]
    /\ task \in [Procs -> {"client", "pair", "forget"}]
    /\ rec \in [Procs -> 0..MaxBonds]
    /\ fresh \in [Procs -> BOOLEAN]
    /\ seen \in [Procs -> Phases \X (0..MaxBonds)]
    /\ made \in 0..MaxBonds /\ faults \in 0..MaxFaults
    /\ approved \subseteq Bonds /\ asked \subseteq Bonds /\ forgotten \subseteq Bonds
    /\ blank \in [Procs -> BOOLEAN]

Init ==
    /\ candidate = NoBond /\ active = NoBond /\ selected = FALSE /\ lock = NoProc
    /\ phase = "unbound" /\ owner = NoBond /\ conn = NoProc
    /\ pc = [p \in Procs |-> "idle"] /\ task = [p \in Procs |-> "client"]
    /\ rec = [p \in Procs |-> NoBond] /\ fresh = [p \in Procs |-> FALSE]
    /\ seen = [p \in Procs |-> <<"unbound", NoBond>>]
    /\ made = 0 /\ faults = 0
    /\ approved = {} /\ asked = {} /\ forgotten = {}
    /\ blank = [p \in Procs |-> FALSE]

Goto(p, point) == pc' = [pc EXCEPT ![p] = point]

\* The call returns: its locals are gone, its link is closed, its lock released.
Return(p) ==
    /\ Goto(p, "idle")
    /\ rec' = [rec EXCEPT ![p] = NoBond] /\ fresh' = [fresh EXCEPT ![p] = FALSE]
    /\ seen' = [seen EXCEPT ![p] = <<"unbound", NoBond>>]
    /\ conn' = IF conn = p THEN NoProc ELSE conn
    /\ lock' = IF lock = p THEN NoProc ELSE lock
    /\ task' = [task EXCEPT ![p] = "client"]

\* The call goes on with what it has.
Continue(p, point) ==
    /\ Goto(p, point)
    /\ UNCHANGED <<task, rec, fresh, seen, conn>>

\* Files that hold c and a hold no relationship, or one that is being forgotten.
Blank(c, a) == {c, a} \subseteq asked \cup {NoBond}

-----------------------------------------------------------------------------
(* The frame and the radio. *)

\* The short press that approves the code on the display.
Button ==
    /\ phase = "armed"
    /\ phase' = "bound"
    /\ approved' = approved \cup {owner}
    /\ UNCHANGED <<fileVars, owner, made, conn, procVars, faults, asked, forgotten,
                   blank>>

Expire ==
    /\ phase \in {"ready", "armed"}
    /\ phase' = "over"
    /\ UNCHANGED <<fileVars, owner, made, conn, procVars, faults, historyVars>>

\* The long press that resets a pairing, or a restart that loses an attempt.
Unbind ==
    /\ phase # "unbound"
    /\ phase' = "unbound" /\ owner' = NoBond
    /\ UNCHANGED <<fileVars, made, conn, procVars, faults, historyVars>>

LoseLink ==
    /\ conn # NoProc
    /\ faults < MaxFaults /\ faults' = faults + 1
    /\ conn' = NoProc
    /\ UNCHANGED <<fileVars, frameVars, procVars, historyVars>>

-----------------------------------------------------------------------------
(* Calls *)

\* WithClient, PairDevice or ForgetBond.
Start(p, t) ==
    /\ pc[p] = "idle"
    /\ task' = [task EXCEPT ![p] = t]
    /\ Goto(p, CASE t = "client" -> "load" [] t = "pair" -> "connect"
                 [] t = "forget" -> "forget")
    /\ UNCHANGED <<fileVars, frameVars, conn, rec, fresh, seen, faults, historyVars>>

\* A crash, a failed system call or the end of the caller's context.
BreakOff(p) ==
    /\ pc[p] # "idle"
    /\ faults < MaxFaults /\ faults' = faults + 1
    /\ Return(p)
    /\ UNCHANGED <<candidate, active, selected, frameVars, historyVars>>

Connect(p) ==
    /\ pc[p] = "connect" /\ conn = NoProc
    /\ conn' = p
    /\ Goto(p, IF task[p] = "pair" THEN "info" ELSE "auth")
    /\ UNCHANGED <<fileVars, frameVars, task, rec, fresh, seen, faults, historyVars>>

\* An exchange finds that the link is gone.
Disconnected(p) ==
    /\ pc[p] \in Exchanges /\ conn # p
    /\ Return(p)
    /\ UNCHANGED <<candidate, active, selected, frameVars, faults, historyVars>>

\* Mutant: a candidate that still waits for its confirmation is overlooked.
BugLoadCandidate(p) ==
    /\ pc[p] = "load"
    /\ rec' = [rec EXCEPT ![p] = active]
    /\ Goto(p, IF active = NoBond THEN "load2" ELSE "loaded")
    /\ blank' = [blank EXCEPT ![p] = Blank(candidate, active)]
    /\ UNCHANGED <<fileVars, frameVars, conn, task, fresh, seen, faults, approved,
                   asked, forgotten>>

\* LoadBond, which takes no lock: the candidate first.
LoadCandidate(p) ==
    /\ pc[p] = "load"
    /\ rec' = [rec EXCEPT ![p] = candidate]
    /\ fresh' = [fresh EXCEPT ![p] = (candidate # NoBond)]
    /\ Goto(p, IF candidate = NoBond THEN "load2" ELSE "loaded")
    /\ blank' = [blank EXCEPT ![p] = Blank(candidate, active)]
    /\ UNCHANGED <<fileVars, frameVars, conn, task, seen, faults, approved, asked,
                   forgotten>>

LoadActive(p) ==
    /\ pc[p] = "load2"
    /\ rec' = [rec EXCEPT ![p] = active]
    /\ Goto(p, "loaded")
    /\ UNCHANGED <<fileVars, frameVars, conn, task, fresh, seen, faults, historyVars>>

\* WithClient does not open the radio without a record.
UseRecord(p) ==
    /\ pc[p] = "loaded" /\ task[p] = "client"
    /\ IF rec[p] = NoBond THEN Return(p) ELSE Continue(p, "connect") /\ UNCHANGED lock
    /\ UNCHANGED <<candidate, active, selected, frameVars, faults, historyVars>>

-----------------------------------------------------------------------------
(* PairOnLink *)

ReadPairingInfo(p) ==
    /\ pc[p] = "info" /\ conn = p
    /\ seen' = [seen EXCEPT ![p] = <<phase, owner>>]
    /\ Goto(p, "load")
    /\ UNCHANGED <<fileVars, frameVars, conn, task, rec, fresh, faults, historyVars>>

\* The frame speaks of the saved relationship.
Known(p) == rec[p] # NoBond /\ seen[p][2] = rec[p]

Resume(p) ==
    Known(p) /\ (seen[p][1] = "bound" \/ (fresh[p] /\ seen[p][1] # "unbound"))

\* A saved relationship is authenticated or its attempt resumed; a new attempt
\* needs a frame without owner and no other candidate.
Decide(p) ==
    /\ pc[p] = "loaded" /\ task[p] = "pair"
    /\ \/ /\ Resume(p)
          /\ Continue(p, IF seen[p][1] = "bound" THEN "auth" ELSE "poll")
          /\ UNCHANGED lock
       \/ /\ ~Resume(p) /\ seen[p][1] \in {"unbound", "over"} /\ ~fresh[p]
          /\ Continue(p, "ceremony")
          /\ UNCHANGED lock
       \/ /\ ~Resume(p) /\ ~(seen[p][1] \in {"unbound", "over"} /\ ~fresh[p])
          /\ Return(p)
    /\ UNCHANGED <<candidate, active, selected, frameVars, faults, historyVars>>

\* Commit and reveal: both sides hold a new secret, the display is dark.
Ceremony(p) ==
    /\ pc[p] = "ceremony" /\ conn = p /\ phase \in {"unbound", "over"}
    /\ made < MaxBonds /\ made' = made + 1
    /\ phase' = "ready" /\ owner' = made'
    /\ rec' = [rec EXCEPT ![p] = made'] /\ fresh' = [fresh EXCEPT ![p] = TRUE]
    /\ Goto(p, "save")
    /\ UNCHANGED <<fileVars, conn, task, seen, faults, historyVars>>

\* The frame or the client rejects an answer of the ceremony.
CeremonyFails(p) ==
    /\ pc[p] = "ceremony" /\ conn = p
    /\ Return(p)
    /\ UNCHANGED <<candidate, active, selected, frameVars, faults, historyVars>>

\* savePendingBond: the link that publishes the candidate replaces nothing.
SavePending(p) ==
    /\ pc[p] = "save" /\ lock = NoProc
    /\ IF candidate = NoBond
       THEN candidate' = rec[p] /\ Continue(p, "poll") /\ UNCHANGED lock
       ELSE Return(p) /\ UNCHANGED candidate
    /\ UNCHANGED <<active, selected, frameVars, faults, historyVars>>

\* One round of waitForPairing.  The first proof arms the display; a frame that
\* does not hold the secret cannot answer.
Poll(p) ==
    /\ pc[p] = "poll" /\ conn = p
    /\ IF owner # rec[p] THEN Return(p) /\ UNCHANGED phase
       ELSE /\ phase' = IF phase = "ready" THEN "armed" ELSE phase
            /\ Continue(p, CASE phase = "bound" -> "auth" [] phase = "over" -> "discard"
                             [] OTHER -> "poll")
            /\ UNCHANGED lock
    /\ UNCHANGED <<candidate, active, selected, owner, made, faults, historyVars>>

-----------------------------------------------------------------------------
(* Authentication, confirmation, clean-up and forgetting. *)

\* Mutant: only pairing confirms a candidate.
BugAuthenticate(p) ==
    /\ pc[p] = "auth" /\ conn = p
    /\ IF phase = "bound" /\ owner = rec[p] /\ fresh[p] /\ task[p] = "pair"
       THEN Continue(p, "confirm") /\ UNCHANGED lock
       ELSE Return(p)
    /\ UNCHANGED <<candidate, active, selected, frameVars, faults, historyVars>>

\* Mutant: an answer of the frame counts, whatever it says.
BugAccept(p) ==
    /\ pc[p] = "auth" /\ conn = p
    /\ IF fresh[p] THEN Continue(p, "confirm") /\ UNCHANGED lock ELSE Return(p)
    /\ UNCHANGED <<candidate, active, selected, frameVars, faults, historyVars>>

\* AuthenticateBond; the session of a confirmed record then runs and ends.
Authenticate(p) ==
    /\ pc[p] = "auth" /\ conn = p
    /\ IF phase = "bound" /\ owner = rec[p] /\ fresh[p]
       THEN Continue(p, "confirm") /\ UNCHANGED lock
       ELSE Return(p)
    /\ UNCHANGED <<candidate, active, selected, frameVars, faults, historyVars>>

\* Mutant: the candidate need not be there any more.
BugConfirm(p) ==
    /\ pc[p] = "confirm" /\ lock = NoProc
    /\ lock' = p
    /\ Continue(p, "write")
    /\ UNCHANGED <<candidate, active, selected, frameVars, faults, historyVars>>

\* confirmLockedBond: only the same candidate is promoted, and without one only
\* the same relationship that is active already is finished.
Confirm(p) ==
    /\ pc[p] = "confirm" /\ lock = NoProc
    /\ \/ /\ candidate = rec[p]
          /\ lock' = p /\ Continue(p, "write")
       \/ /\ candidate = NoBond /\ active = rec[p]
          /\ lock' = p /\ Continue(p, "select")
       \/ /\ candidate # rec[p] /\ ~(candidate = NoBond /\ active = rec[p])
          /\ Return(p)
    /\ UNCHANGED <<candidate, active, selected, frameVars, faults, historyVars>>

WriteActive(p) ==
    /\ pc[p] = "write"
    /\ active' = rec[p]
    /\ Continue(p, "remove")
    /\ UNCHANGED <<candidate, selected, lock, frameVars, faults, historyVars>>

RemoveCandidate(p) ==
    /\ pc[p] = "remove"
    /\ candidate' = NoBond
    /\ Continue(p, "select")
    /\ UNCHANGED <<active, selected, lock, frameVars, faults, historyVars>>

\* SaveBinding
SelectDevice(p) ==
    /\ pc[p] = "select"
    /\ selected' = TRUE
    /\ Return(p)
    /\ UNCHANGED <<candidate, active, frameVars, faults, historyVars>>

\* Mutant: the clean-up does not compare.
BugDiscardPending(p) ==
    /\ pc[p] = "discard" /\ lock = NoProc
    /\ candidate' = NoBond
    /\ blank' = [q \in Procs |-> blank[q] \/ Blank(NoBond, active)]
    /\ Return(p)
    /\ UNCHANGED <<active, selected, frameVars, faults, approved, asked, forgotten>>

\* discardPendingBond: only its own candidate.
DiscardPending(p) ==
    /\ pc[p] = "discard" /\ lock = NoProc
    /\ candidate' = IF candidate = rec[p] THEN NoBond ELSE candidate
    /\ blank' = [q \in Procs |-> blank[q] \/ Blank(candidate', active)]
    /\ Return(p)
    /\ UNCHANGED <<active, selected, frameVars, faults, approved, asked, forgotten>>

\* forgetLockedBond: the active record, the candidate, the selection.
ForgetActive(p) ==
    /\ pc[p] = "forget" /\ lock = NoProc
    /\ lock' = p
    /\ asked' = asked \cup ({candidate, active} \ {NoBond})
    /\ active' = NoBond
    /\ blank' = [q \in Procs |-> TRUE]
    /\ Continue(p, "forget2")
    /\ UNCHANGED <<candidate, selected, frameVars, faults, approved, forgotten>>

ForgetCandidate(p) ==
    /\ pc[p] = "forget2"
    /\ candidate' = NoBond
    /\ blank' = [q \in Procs |-> blank[q] \/ Blank(NoBond, active)]
    /\ Continue(p, "forget3")
    /\ UNCHANGED <<active, selected, lock, frameVars, faults, approved, asked, forgotten>>

\* Mutant: without a selection the call returns early, and keeps the lock.
BugForgetSelection(p) ==
    /\ pc[p] = "forget3"
    /\ selected' = FALSE
    /\ forgotten' = asked
    /\ IF selected THEN Return(p) ELSE Continue(p, "idle") /\ UNCHANGED lock
    /\ UNCHANGED <<candidate, active, frameVars, faults, approved, asked, blank>>

ForgetSelection(p) ==
    /\ pc[p] = "forget3"
    /\ selected' = FALSE
    /\ forgotten' = asked
    /\ Return(p)
    /\ UNCHANGED <<candidate, active, frameVars, faults, approved, asked, blank>>

\* withBondLock does not wait.
Busy(p) ==
    /\ pc[p] \in Locking /\ lock # NoProc
    /\ Return(p)
    /\ UNCHANGED <<candidate, active, selected, frameVars, faults, historyVars>>

Step(p) ==
    \/ Disconnected(p) \/ Busy(p)
    \/ LoadCandidate(p) \/ LoadActive(p) \/ UseRecord(p)
    \/ ReadPairingInfo(p) \/ Decide(p) \/ Ceremony(p) \/ CeremonyFails(p)
    \/ SavePending(p) \/ Poll(p) \/ Authenticate(p)
    \/ Confirm(p) \/ WriteActive(p) \/ RemoveCandidate(p) \/ SelectDevice(p)
    \/ DiscardPending(p)
    \/ ForgetActive(p) \/ ForgetCandidate(p) \/ ForgetSelection(p)

Next ==
    \/ Button \/ Expire \/ Unbind \/ LoseLink
    \/ \E p \in Procs :
          \/ \E t \in {"client", "pair", "forget"} : Start(p, t)
          \/ BreakOff(p) \/ Connect(p) \/ Step(p)

Spec == Init /\ [][Next]_vars

\* Every call gets on, a caller that keeps trying gets the radio at some time, and
\* the daemon connects again with every refresh of its data.
Fairness ==
    /\ \A p \in Procs : WF_vars(Step(p)) /\ SF_vars(Connect(p))
    /\ WF_vars(Start(Daemon, "client"))

FairSpec == Spec /\ Fairness

-----------------------------------------------------------------------------
(* Properties *)

\* A frame that was approved belongs to somebody who still holds the secret,
\* whatever crashed, was lost or was cleaned up, unless the user forgot it (the
\* comment of PairOnLink: no orphaned approval).
ApprovalRemembered ==
    phase = "bound" => owner \in {candidate, active} \cup asked

\* A late confirmation does not bring back what was forgotten (the comment in
\* confirmLockedBond).
StaysForgotten == candidate \notin forgotten /\ active \notin forgotten

\* Only what the button has approved and both sides have authenticated is active.
ActiveWasApproved == active # NoBond => active \in approved

\* LoadBond, which takes no lock, reports "not paired" only if there was a time
\* without any record but those being forgotten, never because a confirmation
\* moved it meanwhile.
NotPairedIsTrue ==
    \A p \in Procs : (pc[p] = "loaded" /\ rec[p] = NoBond) => blank[p]

\* When the last answer of an approval is lost, a later connection confirms the
\* candidate without a second ceremony (the comment of LoadBond).
LostApprovalRecovers ==
    \A b \in Bonds :
        (phase = "bound" /\ owner = b /\ candidate = b)
            ~> ~(phase = "bound" /\ owner = b /\ candidate = b)

\* What docs/ble.md says of the selection: it names the device that was
\* confirmed last.  With no call under way it does, unless a candidate waits.
ConfirmedIsSelected ==
    ((\A p \in Procs : pc[p] = "idle") /\ active # NoBond /\ candidate = NoBond)
        => selected
=============================================================================
