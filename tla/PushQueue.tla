------------------------------ MODULE PushQueue ------------------------------
(***************************************************************************)
(* internal/push/pusher.go: the worker that turns quota snapshots into     *)
(* physical refreshes of the panel.  It keeps at most one pending snapshot *)
(* (a newer one replaces it), runs one transfer at a time, remembers the   *)
(* last frame the panel completed so that an identical frame is not drawn  *)
(* again, retries transient failures on a timer, and can be paused.        *)
(*                                                                         *)
(* Three threads: the worker (Run), the refresher (the observer of the     *)
(* quota service, serialised by the service) and the console (SetPaused).  *)
(* Each step of the model is one critical section of pusher.mu, one        *)
(* operation on the channel wake, or one call that leaves the process.     *)
(*                                                                         *)
(* A snapshot is identified with the frame it renders to: frame.Producer   *)
(* is a function of the snapshot's contents, and digests are compared as   *)
(* frames.  The panel is external: it draws a frame some time during a     *)
(* transfer, and the answer may be lost afterwards.                        *)
(***************************************************************************)
EXTENDS Naturals

CONSTANTS
    Frames,         \* the frames that snapshots render to
    Oversized,      \* those whose PNG is larger than MaxPayloadBytes
    NoFrame,        \* no frame: hasLast or hasRejected is false
    ZeroDigest,     \* the digest of the empty image a failed render returns
    MaxId,          \* bound on snapshot ids (the code's nextID is a uint64)
    ConsoleActive   \* whether a console is attached and may pause the worker

ASSUME FramesAssumption ==
    /\ Oversized \subseteq Frames
    /\ NoFrame \notin Frames
    /\ ZeroDigest \notin Frames
    /\ ZeroDigest # NoFrame
    /\ MaxId \in Nat
    /\ ConsoleActive \in BOOLEAN

VARIABLES
    nextID,      \* id of the newest snapshot or discard
    pending,     \* the one queued snapshot, or None
    last,        \* digest of the last frame recorded as completed
    rejected,    \* digest the panel refused for good
    activeID,    \* id of the admitted request whose cancel function is set
    paused,      \* SetPaused
    wake,        \* the token of the channel wake (capacity 1)
    timer,       \* the retry timer exists
    pc,          \* the worker's control point
    job,         \* the snapshot the worker took (queued)
    rendered,    \* whether Produce succeeded for job
    verdict,     \* what the attempt came to
    saved,       \* the copy written by saveLastFrame
    running,     \* Run's context is not cancelled
    refresher,   \* the refresher's control point
    toCancel,    \* the request whose cancel function the refresher holds
    console,     \* the console's control point
    canceled,    \* requests whose context the refresher cancelled
    panel,       \* external: the frame on the panel
    late,        \* external: frames of failed requests that may yet be drawn
    drawn,       \* history: the current attempt's frame has reached the panel
    unsure,      \* history: a request that reported an error drew its frame
    phantom,     \* history: a frame was recorded as completed, not drawn
    discarded    \* history: the newest id a failed refresh invalidated

queueVars  == <<nextID, pending, last, rejected, activeID, paused>>
workerVars == <<timer, pc, job, rendered, verdict, saved>>
callerVars == <<refresher, toCancel, console, canceled>>
panelVars  == <<panel, late, drawn, unsure, phantom, discarded>>
vars == <<queueVars, workerVars, callerVars, panelVars, wake, running>>

Snapshot == [id : 1..MaxId, frame : Frames]
None == [id |-> 0, frame |-> NoFrame]

WorkerPoints == {"select", "current", "drain", "render", "check", "admit",
                 "sending", "settle", "finish", "done"}
Failures == {"retry", "permanent", "deferred"}
Verdicts == Failures \cup {"none", "pushed", "unchanged", "rejected", "superseded"}

TypeOK ==
    /\ nextID \in 0..MaxId
    /\ pending \in Snapshot \cup {None}
    /\ last \in Frames \cup {NoFrame}
    /\ rejected \in Frames \cup {NoFrame, ZeroDigest}
    /\ activeID \in 0..MaxId
    /\ paused \in BOOLEAN
    /\ wake \in BOOLEAN
    /\ timer \in BOOLEAN
    /\ pc \in WorkerPoints
    /\ job \in Snapshot \cup {None}
    /\ rendered \in BOOLEAN
    /\ verdict \in Verdicts
    /\ saved \in Frames \cup {NoFrame}
    /\ running \in BOOLEAN
    /\ refresher \in {"idle", "cancel", "signal"}
    /\ toCancel \in 0..MaxId
    /\ console \in {"idle", "signal"}
    /\ canceled \subseteq 0..MaxId
    /\ panel \in Frames \cup {NoFrame}
    /\ late \subseteq Frames \cup {NoFrame}
    /\ drawn \in BOOLEAN
    /\ unsure \in BOOLEAN
    /\ phantom \in BOOLEAN
    /\ discarded \in 0..MaxId

Init ==
    /\ nextID = 0 /\ pending = None
    /\ last = NoFrame /\ rejected = NoFrame
    /\ activeID = 0 /\ paused = FALSE
    /\ wake = FALSE /\ timer = FALSE
    /\ pc = "select" /\ job = None /\ rendered = FALSE /\ verdict = "none"
    /\ saved = NoFrame /\ running = TRUE
    /\ refresher = "idle" /\ toCancel = 0 /\ console = "idle" /\ canceled = {}
    /\ panel = NoFrame /\ late = {} /\ drawn = FALSE
    /\ unsure = FALSE /\ phantom = FALSE /\ discarded = 0

-----------------------------------------------------------------------------
(* The refresher: ObserveRefresh, called by the quota service. *)

\* ObserveRefresh(snapshot, true) = Enqueue, up to its unlock.
Enqueue(f) ==
    /\ refresher = "idle"
    /\ nextID < MaxId
    /\ nextID' = nextID + 1
    /\ pending' = [id |-> nextID + 1, frame |-> f]
    /\ refresher' = "signal"
    /\ UNCHANGED <<last, rejected, activeID, paused, workerVars, toCancel,
                   console, canceled, panelVars, wake, running>>

\* Mutant: discardAll forgets the request in progress.
BugDiscardAll ==
    /\ refresher = "idle"
    /\ nextID < MaxId
    /\ nextID' = nextID + 1
    /\ pending' = None
    /\ discarded' = nextID + 1
    /\ refresher' = "signal"
    /\ UNCHANGED <<last, rejected, activeID, paused, workerVars, toCancel,
                   console, canceled, panel, late, drawn, unsure, phantom,
                   wake, running>>

\* ObserveRefresh(snapshot, false) = discardAll, up to its unlock: the cancel
\* function is read under the lock and called after it.
DiscardAll ==
    /\ refresher = "idle"
    /\ nextID < MaxId
    /\ nextID' = nextID + 1
    /\ pending' = None
    /\ discarded' = nextID + 1
    /\ toCancel' = activeID
    /\ refresher' = IF activeID # 0 THEN "cancel" ELSE "signal"
    /\ UNCHANGED <<last, rejected, activeID, paused, workerVars, console,
                   canceled, panel, late, drawn, unsure, phantom, wake,
                   running>>

\* cancel(), outside the lock.
CancelActive ==
    /\ refresher = "cancel"
    /\ canceled' = canceled \cup {toCancel}
    /\ refresher' = "signal"
    /\ UNCHANGED <<queueVars, workerVars, toCancel, console, panelVars, wake,
                   running>>

\* signal(): a send that never blocks.
RefresherSignal ==
    /\ refresher = "signal"
    /\ wake' = TRUE
    /\ refresher' = "idle"
    /\ UNCHANGED <<queueVars, workerVars, toCancel, console, canceled,
                   panelVars, running>>

(* The console: SetPaused, then its signal. *)
SetPaused(b) ==
    /\ ConsoleActive
    /\ console = "idle"
    /\ paused' = b
    /\ console' = "signal"
    /\ UNCHANGED <<nextID, pending, last, rejected, activeID, workerVars,
                   refresher, toCancel, canceled, panelVars, wake, running>>

\* Mutant: SetPaused changes the flag and wakes nobody.
BugConsoleSignal ==
    /\ console = "signal"
    /\ console' = "idle"
    /\ UNCHANGED <<queueVars, workerVars, refresher, toCancel, canceled,
                   panelVars, wake, running>>

ConsoleSignal ==
    /\ console = "signal"
    /\ wake' = TRUE
    /\ console' = "idle"
    /\ UNCHANGED <<queueVars, workerVars, refresher, toCancel, canceled,
                   panelVars, running>>

\* The daemon shuts down: Run's context is cancelled.
Shutdown ==
    /\ running
    /\ running' = FALSE
    /\ UNCHANGED <<queueVars, workerVars, callerVars, panelVars, wake>>

-----------------------------------------------------------------------------
(* The worker: run. *)

\* Mutant: the context is looked at only after a wake-up.
BugSelectDone ==
    /\ pc = "select"
    /\ ~running /\ wake
    /\ pc' = "done"
    /\ UNCHANGED <<queueVars, timer, job, rendered, verdict, saved,
                   callerVars, panelVars, wake, running>>

SelectDone ==
    /\ pc = "select"
    /\ ~running
    /\ pc' = "done"
    /\ UNCHANGED <<queueVars, timer, job, rendered, verdict, saved,
                   callerVars, panelVars, wake, running>>

\* Mutant: a wake-up for the snapshot that is being retried is ignored.
BugSelectWake ==
    /\ pc = "select"
    /\ wake
    /\ wake' = FALSE
    /\ timer' = FALSE
    /\ pc' = IF pending.id = job.id THEN "select" ELSE "current"
    /\ UNCHANGED <<queueVars, job, rendered, verdict, saved, callerVars,
                   panelVars, running>>

\* A wake-up stops the retry timer.
SelectWake ==
    /\ pc = "select"
    /\ wake
    /\ wake' = FALSE
    /\ timer' = FALSE
    /\ pc' = "current"
    /\ UNCHANGED <<queueVars, job, rendered, verdict, saved, callerVars,
                   panelVars, running>>

SelectRetry ==
    /\ pc = "select"
    /\ timer
    /\ timer' = FALSE
    /\ pc' = "current"
    /\ UNCHANGED <<queueVars, job, rendered, verdict, saved, callerVars,
                   panelVars, wake, running>>

\* current(): nothing to do when no snapshot is queued or the worker is paused.
Current ==
    /\ pc = "current"
    /\ \/ /\ pending = None \/ paused
          /\ pc' = "select"
          /\ UNCHANGED job
       \/ /\ pending # None /\ ~paused
          /\ job' = pending
          /\ pc' = "drain"
    /\ UNCHANGED <<queueVars, timer, rendered, verdict, saved, callerVars,
                   panelVars, wake, running>>

DrainWake ==
    /\ pc = "drain"
    /\ wake' = FALSE
    /\ pc' = "render"
    /\ UNCHANGED <<queueVars, timer, job, rendered, verdict, saved,
                   callerVars, panelVars, running>>

\* producer.Produce, which may fail for any snapshot.
Render ==
    /\ pc = "render"
    /\ rendered' \in BOOLEAN
    /\ pc' = "check"
    /\ UNCHANGED <<queueVars, timer, job, verdict, saved, callerVars,
                   panelVars, wake, running>>

IsCurrent == pending # None /\ pending.id = job.id

Conclude(v) == verdict' = v /\ pc' = "finish"

\* What attempt decides before it contacts the panel.  last and rejected are
\* written by the worker alone, so their reads form one step with isCurrent.
Check ==
    /\ pc = "check"
    /\ \/ ~IsCurrent /\ Conclude("superseded")
       \/ IsCurrent /\ ~rendered /\ Conclude("permanent")
       \/ IsCurrent /\ rendered /\ job.frame = last /\ Conclude("unchanged")
       \/ /\ IsCurrent /\ rendered
          /\ job.frame # last /\ job.frame = rejected
          /\ Conclude("rejected")
       \/ /\ IsCurrent /\ rendered
          /\ job.frame \notin {last, rejected}
          /\ IF job.frame \in Oversized THEN Conclude("permanent")
             ELSE pc' = "admit" /\ verdict' = "none"
    /\ UNCHANGED <<queueVars, timer, job, rendered, saved, callerVars,
                   panelVars, wake, running>>

\* postCurrent's first critical section.  When it refuses the request it
\* returns (true, nil), and attempt turns a nil error into "pushed".
Admit ==
    /\ pc = "admit"
    /\ \/ /\ ~IsCurrent \/ paused
          /\ Conclude("pushed")
          /\ UNCHANGED activeID
       \/ /\ IsCurrent /\ ~paused
          /\ activeID' = job.id
          /\ pc' = "sending"
          /\ UNCHANGED verdict
    /\ UNCHANGED <<nextID, pending, last, rejected, paused, timer, job,
                   rendered, saved, callerVars, panelVars, wake, running>>

\* External: the panel refreshes while the request is open.  It handles one
\* image at a time, so what earlier requests left behind is over.
Draw ==
    /\ pc = "sending"
    /\ ~drawn
    /\ drawn' = TRUE
    /\ panel' = job.frame
    /\ late' = {}
    /\ UNCHANGED <<queueVars, workerVars, callerVars, unsure, phantom,
                   discarded, wake, running>>

\* External: the panel draws the frame of a request that has failed already.
DrawLate(f) ==
    /\ f \in late
    /\ panel' = f
    /\ late' = late \ {f}
    /\ unsure' = TRUE
    /\ UNCHANGED <<queueVars, workerVars, callerVars, drawn, phantom,
                   discarded, wake, running>>

\* post returns.  Success means that the panel shows the frame, which an
\* earlier request may have drawn; a failure, or a cancelled request, says
\* nothing about what the panel did or is going to do.
Reply(v) ==
    /\ pc = "sending"
    /\ v = "pushed" => panel = job.frame
    /\ verdict' = v
    /\ pc' = "settle"
    /\ IF v = "pushed" THEN drawn' = TRUE /\ UNCHANGED <<late, unsure>>
       ELSE /\ late' = IF drawn THEN late ELSE late \cup {job.frame}
            /\ unsure' = (unsure \/ drawn)
            /\ UNCHANGED drawn
    /\ UNCHANGED <<queueVars, timer, job, rendered, saved, callerVars, panel,
                   phantom, discarded, wake, running>>

\* postCurrent's second critical section, and what attempt makes of the error.
Settle ==
    /\ pc = "settle"
    /\ activeID' = IF activeID = job.id THEN 0 ELSE activeID
    /\ Conclude(IF verdict \in Failures /\ ~IsCurrent THEN "superseded"
                ELSE verdict)
    /\ UNCHANGED <<nextID, pending, last, rejected, paused, timer, job,
                   rendered, saved, callerVars, panelVars, wake, running>>

\* Mutant: whatever is queued is dropped, the job or a newer snapshot.
BugDropJob == pending' = None

\* discard, and the pending half of complete and reject.
DropJob == pending' = IF IsCurrent THEN None ELSE pending

\* Mutant: the completion of a superseded frame is not recorded.
BugComplete ==
    /\ last' = IF IsCurrent THEN job.frame ELSE last
    /\ rejected' = NoFrame
    /\ DropJob

\* complete
Complete ==
    /\ last' = job.frame
    /\ rejected' = NoFrame
    /\ DropJob

\* Mutant: the refused digest is recorded as the last completed one.
BugReject ==
    /\ last' = IF ~IsCurrent THEN last
               ELSE IF rendered THEN job.frame ELSE ZeroDigest
    /\ DropJob
    /\ UNCHANGED rejected

\* reject: a failed render has the digest of the empty image.
Reject ==
    /\ rejected' = IF ~IsCurrent THEN rejected
                   ELSE IF rendered THEN job.frame ELSE ZeroDigest
    /\ DropJob
    /\ UNCHANGED last

\* run, after attempt has returned.
Finish ==
    /\ pc = "finish"
    /\ verdict' = "none"
    /\ drawn' = FALSE
    /\ IF ~running
       THEN /\ pc' = "done"
            /\ UNCHANGED <<pending, last, rejected, saved, timer, unsure,
                           phantom>>
       ELSE \/ /\ verdict = "pushed"
               /\ Complete
               /\ saved' = job.frame
               /\ unsure' = (panel # job.frame) /\ phantom' = ~drawn
               /\ pc' = "current" /\ UNCHANGED timer
            \/ /\ verdict = "unchanged"
               /\ Complete
               /\ pc' = "current"
               /\ UNCHANGED <<saved, timer, unsure, phantom>>
            \/ /\ verdict = "superseded"
               /\ pc' = "current"
               /\ UNCHANGED <<pending, last, rejected, saved, timer, unsure,
                              phantom>>
            \/ /\ verdict \in {"rejected", "deferred"}
               /\ DropJob
               /\ pc' = "current"
               /\ UNCHANGED <<last, rejected, saved, timer, unsure, phantom>>
            \/ /\ verdict = "permanent"
               /\ Reject
               /\ pc' = "current"
               /\ UNCHANGED <<saved, timer, unsure, phantom>>
            \/ /\ verdict = "retry"
               /\ timer' = IsCurrent
               /\ pc' = IF IsCurrent THEN "select" ELSE "current"
               /\ UNCHANGED <<pending, last, rejected, saved, unsure, phantom>>
    /\ UNCHANGED <<nextID, activeID, paused, job, rendered, callerVars, panel,
                   late, discarded, wake, running>>

-----------------------------------------------------------------------------
Refresher ==
    \/ \E f \in Frames : Enqueue(f)
    \/ DiscardAll \/ CancelActive \/ RefresherSignal

Console == (\E b \in BOOLEAN : SetPaused(b)) \/ ConsoleSignal

Worker ==
    \/ SelectDone \/ SelectWake \/ SelectRetry
    \/ Current \/ DrainWake \/ Render \/ Check \/ Admit
    \/ (\E v \in Failures \cup {"pushed"} : Reply(v))
    \/ Settle \/ Finish

Panel == Draw \/ (\E f \in Frames : DrawLate(f))

Next == Refresher \/ Console \/ Shutdown \/ Worker \/ Panel

Spec == Init /\ [][Next]_vars

\* The Go scheduler runs the worker, a caller that holds a cancel function or
\* owes a signal gets to it, and every transfer has a deadline of its own
\* (RequestTimeout, or those of the radio calls).  select chooses at random
\* among its ready cases, so a cancelled context is not overlooked forever.
\* Nothing obliges the sources to refresh, the console to speak or the panel
\* to draw.
Fairness ==
    /\ WF_vars(Worker) /\ SF_vars(SelectDone)
    /\ WF_vars(CancelActive) /\ WF_vars(RefresherSignal)
    /\ WF_vars(ConsoleSignal)

FairSpec == Spec /\ Fairness

-----------------------------------------------------------------------------
(* Properties *)

\* No lost wake-up: whenever the worker sleeps without a retry timer on a
\* snapshot it should handle, the token is in the channel or a caller is about
\* to put it there (signal, drainWake and the break out of run's inner loop).
NoLostWakeup ==
    (pc = "select" /\ pending # None /\ ~paused /\ ~timer)
        => (wake \/ refresher # "idle" \/ console = "signal")

\* Once a failed refresh has finished discardAll's cancellation, an open
\* request is cancelled exactly when its snapshot is one the failed refresh
\* invalidated: neither a stale LIVE frame goes on nor is a fresh one stopped
\* (discardAll against the two critical sections of postCurrent).
CancelExactlyStale ==
    (pc = "sending" /\ refresher # "cancel")
        => (job.id \in canceled <=> job.id <= discarded)

\* Between transfers the digest in last is the frame on the panel, unless the
\* frame of a failed request was drawn, before or after its answer, or a frame
\* was recorded as completed without being sent (complete against the panel).
PanelTracked ==
    (last # NoFrame /\ ~unsure /\ ~phantom /\ ~drawn /\ pc # "done")
        => panel = last

\* The panel is never refreshed with the frame it shows already, unless the
\* pusher could not know: the first frame after a start, a drawn frame whose
\* request failed, or a frame wrongly recorded as completed.
NoNeedlessRedraw ==
    [][(~drawn /\ drawn' /\ panel = job.frame /\ UNCHANGED pc)
          => (last = NoFrame \/ unsure \/ phantom)]_vars

\* A snapshot leaves the queue only because a refresh failed, or because the
\* worker ruled on it; a pause is neither (comment of SetPaused).
PausePreservesSnapshot ==
    [][(pending # None /\ pending' = None)
          => (discarded' # discarded \/ drawn \/ verdict # "pushed")]_vars

\* A queued snapshot is rendered again and again until it is replaced or ruled
\* on, unless the worker is paused or stopped: no wake-up and no retry is lost.
SnapshotAttempted ==
    \A i \in 1..MaxId :
        (pending.id = i)
            ~> (pending.id # i \/ paused \/ ~running
                \/ (pc = "render" /\ job.id = i))

\* A cancelled context ends Run, whatever the callers do meanwhile.
StopsOnShutdown == ~running ~> pc = "done"

\* A verdict that may take a snapshot out of the queue.
FinalVerdict ==
    \/ verdict = "pushed" /\ drawn
    \/ verdict \in {"unchanged", "rejected", "permanent", "deferred"}

Mailbox == INSTANCE SnapshotMailbox WITH
    newest <- nextID,
    slot   <- pending,
    ruling <- IF pc = "finish" /\ FinalVerdict THEN job.id ELSE 0

\* Without a console to pause it the worker implements the mailbox.
ImplementsMailbox == Mailbox!Spec
=============================================================================
