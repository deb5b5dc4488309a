--------------------------- MODULE PushQueueProofs ---------------------------
(***************************************************************************)
(* Proofs about PushQueue, for every set of frames and every bound MaxId:  *)
(* type correctness, no lost wake-up, exact cancellation, agreement of the *)
(* recorded digest with the panel, and the implementation of               *)
(* SnapshotMailbox when no console can pause the worker.                   *)
(***************************************************************************)
EXTENDS PushQueue, TLAPS

\* The queued snapshot is the newest, and newer than every discard.
PendingNewest ==
    /\ discarded <= nextID
    /\ job.id <= nextID
    /\ pending # None => (pending.id = nextID /\ discarded < nextID)

\* A cancel function is set exactly while its request is open.
ActiveIsJob ==
    /\ pc \in {"sending", "settle"} => activeID = job.id
    /\ pc \notin {"sending", "settle"} => activeID = 0
    /\ pc \in {"drain", "render", "check", "admit", "sending", "settle", "finish"}
         => job # None

\* Cancelled requests are stale, and an open stale request is cancelled or
\* about to be.
CancelInv ==
    /\ \A i \in canceled : i <= discarded
    /\ refresher = "cancel" => toCancel <= discarded /\ toCancel # 0
    /\ (pc = "sending" /\ job.id <= discarded)
         => (job.id \in canceled \/ (refresher = "cancel" /\ toCancel = job.id))

\* What the panel shows at each point of an attempt.
PanelInv ==
    /\ PanelTracked
    /\ drawn => (/\ pc \in {"sending", "settle", "finish"}
                 /\ panel = job.frame \/ unsure)
    /\ pc \in {"admit", "sending"} => job.frame # last
    /\ pc = "settle" => verdict \in Failures \cup {"pushed"}
    /\ (pc = "settle" /\ verdict = "pushed") => drawn
    /\ (pc \in {"settle", "finish"} /\ drawn) => (verdict = "pushed" \/ unsure)
    /\ (pc = "finish" /\ verdict = "unchanged") => (job.frame = last /\ ~drawn)

-----------------------------------------------------------------------------
\* Every reachable state has the types of the Go struct's fields.
THEOREM TypeCorrect == Spec => []TypeOK
<1> USE FramesAssumption
    DEF FramesAssumption, TypeOK, Snapshot, None, WorkerPoints, Verdicts, Failures,
        queueVars, workerVars, callerVars, panelVars
<1>1. Init => TypeOK
  <2> SUFFICES ASSUME Init PROVE TypeOK
    OBVIOUS
  <2>1. /\ paused \in BOOLEAN /\ wake \in BOOLEAN /\ timer \in BOOLEAN
        /\ rendered \in BOOLEAN /\ running \in BOOLEAN /\ drawn \in BOOLEAN
        /\ unsure \in BOOLEAN /\ phantom \in BOOLEAN
    BY Zenon DEF Init
  <2>. QED
    BY <2>1 DEF Init
<1>2. TypeOK /\ [Next]_vars => TypeOK'
  <2> SUFFICES ASSUME TypeOK, [Next]_vars PROVE TypeOK'
    OBVIOUS
  <2>1. CASE \E f \in Frames : Enqueue(f)
    BY <2>1 DEF Enqueue
  <2>2. CASE DiscardAll
    BY <2>2 DEF DiscardAll
  <2>3. CASE CancelActive
    BY <2>3 DEF CancelActive
  <2>4. CASE RefresherSignal
    BY <2>4 DEF RefresherSignal
  <2>5. CASE \E b \in BOOLEAN : SetPaused(b)
    BY <2>5 DEF SetPaused
  <2>6. CASE ConsoleSignal
    BY <2>6 DEF ConsoleSignal
  <2>7. CASE Shutdown
    <3>1. running' \in BOOLEAN
      BY <2>7, Zenon DEF Shutdown
    <3>. QED
      BY <2>7, <3>1 DEF Shutdown
  <2>8. CASE SelectDone
    BY <2>8 DEF SelectDone
  <2>9. CASE SelectWake
    <3>1. wake' \in BOOLEAN /\ timer' \in BOOLEAN
      BY <2>9, Zenon DEF SelectWake
    <3>. QED
      BY <2>9, <3>1 DEF SelectWake
  <2>10. CASE SelectRetry
    <3>1. timer' \in BOOLEAN
      BY <2>10, Zenon DEF SelectRetry
    <3>. QED
      BY <2>10, <3>1 DEF SelectRetry
  <2>11. CASE Current
    BY <2>11 DEF Current
  <2>12. CASE DrainWake
    <3>1. wake' \in BOOLEAN
      BY <2>12, Zenon DEF DrainWake
    <3>. QED
      BY <2>12, <3>1 DEF DrainWake
  <2>13. CASE Render
    BY <2>13 DEF Render
  <2>14. CASE Check
    BY <2>14 DEF Check, Conclude, IsCurrent
  <2>15. CASE Admit
    BY <2>15 DEF Admit, Conclude, IsCurrent
  <2>16. CASE \E v \in Failures \cup {"pushed"} : Reply(v)
    <3>1. PICK v \in Failures \cup {"pushed"} : Reply(v)
      BY <2>16
    <3>2. drawn' \in BOOLEAN /\ unsure' \in BOOLEAN
      BY <3>1, Zenon DEF Reply
    <3>3. late' \subseteq Frames \cup {NoFrame}
      BY <3>1 DEF Reply
    <3>. QED
      BY <3>1, <3>2, <3>3 DEF Reply
  <2>17. CASE Settle
    BY <2>17 DEF Settle, Conclude, IsCurrent
  <2>18. CASE Finish
    <3>1. drawn' \in BOOLEAN /\ unsure' \in BOOLEAN /\ phantom' \in BOOLEAN
      BY <2>18, Zenon DEF Finish
    <3>. QED
      BY <2>18, <3>1 DEF Finish, Complete, Reject, DropJob, IsCurrent
  <2>19. CASE Draw
    BY <2>19 DEF Draw
  <2>20. CASE \E f \in Frames : DrawLate(f)
    <3>1. unsure' \in BOOLEAN
      BY <2>20, Zenon DEF DrawLate
    <3>. QED
      BY <2>20, <3>1 DEF DrawLate
  <2>21. CASE UNCHANGED vars
    BY <2>21 DEF vars
  <2>. QED
    BY <2>1, <2>2, <2>3, <2>4, <2>5, <2>6, <2>7, <2>8, <2>9, <2>10, <2>11, <2>12,
       <2>13, <2>14, <2>15, <2>16, <2>17, <2>18, <2>19, <2>20, <2>21
       DEF Next, Refresher, Console, Worker, Panel
<1>. QED
  BY <1>1, <1>2, PTL DEF Spec

-----------------------------------------------------------------------------
\* No wake-up is lost: NoLostWakeup is inductive as it stands.  Only the break
\* out of the inner loop makes the worker sleep, and every change that could
\* give a sleeping worker something to do owes a signal.
THEOREM WakeupKept == Spec => []NoLostWakeup
<1>1. Init => NoLostWakeup
  BY DEF Init, NoLostWakeup
<1>2. NoLostWakeup /\ [Next]_vars => NoLostWakeup'
  <2> SUFFICES ASSUME NoLostWakeup, [Next]_vars PROVE NoLostWakeup'
    OBVIOUS
  <2> USE DEF NoLostWakeup, queueVars, workerVars, callerVars, panelVars
  <2>1. CASE Refresher
    BY <2>1 DEF Refresher, Enqueue, DiscardAll, CancelActive, RefresherSignal
  <2>2. CASE Console
    BY <2>2 DEF Console, SetPaused, ConsoleSignal
  <2>3. CASE Shutdown \/ Panel
    BY <2>3 DEF Shutdown, Panel, Draw, DrawLate
  <2>4. CASE Current
    BY <2>4 DEF Current
  <2>5. CASE Finish
    <3>1. CASE pc' = "select"
      BY <2>5, <3>1, Zenon DEF Finish, IsCurrent
    <3>2. CASE pc' # "select"
      BY <3>2
    <3>. QED
      BY <3>1, <3>2
  <2>6. CASE /\ Worker /\ ~Current /\ ~Finish
    <3>1. pc' # "select"
      BY <2>6 DEF Worker, SelectDone, SelectWake, SelectRetry, DrainWake,
                  Render, Check, Conclude, Admit, Reply, Settle
    <3>. QED
      BY <3>1
  <2>7. CASE UNCHANGED vars
    BY <2>7 DEF vars
  <2>. QED
    BY <2>1, <2>2, <2>3, <2>4, <2>5, <2>6, <2>7 DEF Next
<1>. QED
  BY <1>1, <1>2, PTL DEF Spec

-----------------------------------------------------------------------------
LEMMA PendingNewestKept == Spec => []PendingNewest
<1> USE DEF TypeOK, Snapshot, None, queueVars, workerVars, callerVars, panelVars
<1>1. Init => PendingNewest
  BY DEF Init, PendingNewest
<1>2. TypeOK /\ PendingNewest /\ [Next]_vars => PendingNewest'
  <2> SUFFICES ASSUME TypeOK, PendingNewest, [Next]_vars PROVE PendingNewest'
    OBVIOUS
  <2>1. CASE \E f \in Frames : Enqueue(f)
    BY <2>1, FramesAssumption DEF Enqueue, PendingNewest
  <2>2. CASE DiscardAll
    BY <2>2, FramesAssumption DEF DiscardAll, PendingNewest
  <2>3. CASE Current
    BY <2>3, FramesAssumption DEF Current, PendingNewest
  <2>4. CASE Finish
    BY <2>4, FramesAssumption
       DEF Finish, Complete, Reject, DropJob, PendingNewest
  <2>5. CASE UNCHANGED <<nextID, pending, job, discarded>>
    BY <2>5 DEF PendingNewest
  <2>6. CASE Next /\ ~(\/ \E f \in Frames : Enqueue(f)
                       \/ DiscardAll \/ Current \/ Finish)
    <3>1. UNCHANGED <<nextID, pending, job, discarded>>
      BY <2>6 DEF Next, Refresher, Console, Worker, CancelActive,
           RefresherSignal, SetPaused, ConsoleSignal, Shutdown, SelectDone,
           SelectWake, SelectRetry, DrainWake, Render, Check, Admit, Reply,
           Settle, Panel, Draw, DrawLate
    <3>. QED
      BY <2>5, <3>1
  <2>. QED
    BY <2>1, <2>2, <2>3, <2>4, <2>5, <2>6 DEF vars
<1>. QED
  BY <1>1, <1>2, TypeCorrect, PTL DEF Spec

-----------------------------------------------------------------------------
LEMMA ActiveIsJobKept == Spec => []ActiveIsJob
<1> USE DEF ActiveIsJob, None, queueVars, workerVars, callerVars, panelVars
<1>1. Init => ActiveIsJob
  BY DEF Init
<1>2. ActiveIsJob /\ [Next]_vars => ActiveIsJob'
  <2> SUFFICES ASSUME ActiveIsJob, [Next]_vars PROVE ActiveIsJob'
    OBVIOUS
  <2>1. CASE Worker
    <3>1. CASE SelectDone \/ SelectWake \/ SelectRetry
      BY <3>1 DEF SelectDone, SelectWake, SelectRetry
    <3>2. CASE Current
      BY <3>2 DEF Current
    <3>3. CASE DrainWake \/ Render \/ Check
      BY <3>3 DEF DrainWake, Render, Check, Conclude
    <3>4. CASE Admit
      BY <3>4 DEF Admit, Conclude
    <3>5. CASE \E v \in Failures \cup {"pushed"} : Reply(v)
      BY <3>5 DEF Reply
    <3>6. CASE Settle
      BY <3>6 DEF Settle, Conclude
    <3>7. CASE Finish
      BY <3>7 DEF Finish
    <3>. QED
      BY <2>1, <3>1, <3>2, <3>3, <3>4, <3>5, <3>6, <3>7 DEF Worker
  <2>2. CASE Refresher \/ Console \/ Shutdown \/ Panel \/ UNCHANGED vars
    <3>1. UNCHANGED <<pc, job, activeID>>
      BY <2>2 DEF Refresher, Enqueue, DiscardAll, CancelActive, vars,
                  RefresherSignal, Console, SetPaused, ConsoleSignal, Shutdown,
                  Panel, Draw, DrawLate
    <3>. QED
      BY <3>1
  <2>. QED
    BY <2>1, <2>2 DEF Next
<1>. QED
  BY <1>1, <1>2, PTL DEF Spec

LEMMA CancelInvKept == Spec => []CancelInv
<1> USE FramesAssumption
    DEF CancelInv, None, queueVars, workerVars, callerVars, panelVars
<1>1. Init => CancelInv
  BY DEF Init
<1>2. /\ TypeOK /\ PendingNewest /\ ActiveIsJob /\ CancelInv
      /\ [Next]_vars
      => CancelInv'
  <2> SUFFICES ASSUME TypeOK, PendingNewest, ActiveIsJob, CancelInv, [Next]_vars
               PROVE  CancelInv'
    OBVIOUS
  <2> USE DEF TypeOK, Snapshot
  <2>1. CASE \E f \in Frames : Enqueue(f)
    BY <2>1 DEF Enqueue
  <2>2. CASE DiscardAll
    \* An open request has its cancel function set, so discardAll reads it.
    BY <2>2 DEF DiscardAll, ActiveIsJob, PendingNewest
  <2>3. CASE CancelActive
    BY <2>3 DEF CancelActive
  <2>4. CASE RefresherSignal
    BY <2>4 DEF RefresherSignal
  <2>5. CASE Current
    BY <2>5 DEF Current
  <2>6. CASE Admit
    \* Only the newest snapshot is admitted, and it is newer than any discard.
    BY <2>6 DEF Admit, Conclude, IsCurrent, PendingNewest
  <2>7. CASE /\ Console \/ Shutdown \/ Panel \/ Worker \/ UNCHANGED vars
             /\ ~Current /\ ~Admit
    <3>1. /\ UNCHANGED <<job, discarded, canceled, refresher, toCancel>>
          /\ pc' = "sending" => pc = "sending"
      BY <2>7 DEF Console, SetPaused, ConsoleSignal, Shutdown, Panel, Draw,
           DrawLate, Worker, SelectDone, SelectWake, SelectRetry, DrainWake, Render, Check,
           Conclude, Reply, Settle, Finish, vars
    <3>. QED
      BY <3>1
  <2>. QED
    BY <2>1, <2>2, <2>3, <2>4, <2>5, <2>6, <2>7 DEF Next, Refresher
<1>. QED
  BY <1>1, <1>2, TypeCorrect, PendingNewestKept, ActiveIsJobKept, PTL DEF Spec

\* A failed refresh stops the stale transfer and no other, however discardAll,
\* its deferred call of the cancel function and postCurrent interleave.
THEOREM CancellationExact == Spec => []CancelExactlyStale
<1>1. CancelInv => CancelExactlyStale
  BY DEF CancelInv, CancelExactlyStale
<1>. QED
  BY <1>1, CancelInvKept, PTL

-----------------------------------------------------------------------------
LEMMA PanelInvKept == Spec => []PanelInv
<1> USE FramesAssumption
    DEF None, Failures, queueVars, workerVars, callerVars, panelVars
<1>1. Init => PanelInv
  BY DEF Init, PanelInv, PanelTracked
<1>2. TypeOK /\ PanelInv /\ [Next]_vars => PanelInv'
  <2> SUFFICES ASSUME TypeOK, PanelInv, [Next]_vars PROVE PanelInv'
    OBVIOUS
  <2> USE DEF TypeOK, Snapshot, PanelInv, PanelTracked
  <2>1. CASE Panel
    <3>1. CASE Draw
      BY <3>1 DEF Draw
    <3>2. CASE \E f \in Frames : DrawLate(f)
      BY <3>2 DEF DrawLate
    <3>. QED
      BY <2>1, <3>1, <3>2 DEF Panel
  <2>2. CASE Check
    BY <2>2 DEF Check, Conclude
  <2>3. CASE Admit
    BY <2>3 DEF Admit, Conclude
  <2>4. CASE \E v \in Failures \cup {"pushed"} : Reply(v)
    <3>1. PICK v \in Failures \cup {"pushed"} : Reply(v)
      BY <2>4
    <3>2. CASE v = "pushed"
      BY <3>1, <3>2 DEF Reply
    <3>3. CASE v # "pushed"
      <4>1. drawn => unsure'
        BY <3>1, <3>3, Zenon DEF Reply
      <4>2. ~drawn => UNCHANGED unsure
        BY <3>1, <3>3 DEF Reply
      <4>. QED
        BY <3>1, <3>3, <4>1, <4>2 DEF Reply
    <3>. QED
      BY <3>2, <3>3
  <2>5. CASE Settle
    <3>1. CASE verdict \in Failures
      BY <2>5, <3>1 DEF Settle, Conclude
    <3>2. CASE verdict \notin Failures
      BY <2>5, <3>2 DEF Settle, Conclude
    <3>. QED
      BY <3>1, <3>2
  <2>6. CASE Finish
    \* A completed frame is the panel's unless a late one replaced it; any
    \* other drawn frame left unsure set.
    BY <2>6 DEF Finish, Complete, Reject
  <2>7. CASE SelectDone \/ SelectWake \/ SelectRetry \/ Current \/ DrainWake \/ Render
    BY <2>7 DEF SelectDone, SelectWake, SelectRetry, Current, DrainWake, Render
  <2>8. CASE Refresher \/ Console \/ Shutdown \/ UNCHANGED vars
    <3>1. UNCHANGED <<last, unsure, phantom, drawn, panel, pc, job, verdict>>
      BY <2>8 DEF Refresher, Enqueue, DiscardAll, CancelActive, vars,
           RefresherSignal, Console, SetPaused, ConsoleSignal, Shutdown
    <3>. QED
      BY <3>1
  <2>. QED
    BY <2>1, <2>2, <2>3, <2>4, <2>5, <2>6, <2>7, <2>8 DEF Next, Worker
<1>. QED
  BY <1>1, <1>2, TypeCorrect, PTL DEF Spec

\* The digest the pusher compares new frames with is what the panel shows,
\* outside the two situations the history variables name.
THEOREM PanelIsTracked == Spec => []PanelTracked
<1>1. PanelInv => PanelTracked
  BY DEF PanelInv
<1>. QED
  BY <1>1, PanelInvKept, PTL

\* The slow physical refresh is not repeated for a frame known to be shown.
THEOREM RefreshNotRepeated == Spec => NoNeedlessRedraw
<1>1. PanelInv /\ PanelInv' /\ [Next]_vars
        => [(~drawn /\ drawn' /\ panel = job.frame /\ UNCHANGED pc)
              => (last = NoFrame \/ unsure \/ phantom)]_vars
  <2> SUFFICES ASSUME PanelInv, [Next]_vars, ~drawn, drawn',
                      panel = job.frame, UNCHANGED pc
               PROVE  last = NoFrame \/ unsure \/ phantom
    OBVIOUS
  <2>1. Draw
    BY DEF Next, Refresher, Enqueue, DiscardAll, CancelActive, vars,
         RefresherSignal, Console, SetPaused, ConsoleSignal, Shutdown, Worker,
         SelectDone, SelectWake, SelectRetry, Current, DrainWake, Render, Check,
         Admit, Reply, Settle, Finish, Panel, DrawLate, panelVars
  <2>. QED
    BY <2>1 DEF Draw, PanelInv, PanelTracked
<1>. QED
  BY <1>1, PanelInvKept, PTL DEF Spec, NoNeedlessRedraw

-----------------------------------------------------------------------------
\* Without a console, admission is refused only to superseded snapshots, and
\* those are no longer in the queue.
RefusedOnlyStale ==
    /\ ~paused
    /\ (pc = "finish" /\ verdict = "pushed" /\ ~drawn) => ~IsCurrent

LEMMA RefusedOnlyStaleKept ==
    ASSUME ~ConsoleActive PROVE Spec => []RefusedOnlyStale
<1> USE FramesAssumption
    DEF RefusedOnlyStale, IsCurrent, None, Failures, queueVars, workerVars,
        callerVars, panelVars
<1>1. Init => RefusedOnlyStale
  BY DEF Init
<1>2. /\ TypeOK /\ PendingNewest /\ PanelInv /\ RefusedOnlyStale
      /\ [Next]_vars
      => RefusedOnlyStale'
  <2> SUFFICES ASSUME TypeOK, PendingNewest, PanelInv, RefusedOnlyStale, [Next]_vars
               PROVE  RefusedOnlyStale'
    OBVIOUS
  <2> USE DEF TypeOK, Snapshot
  <2>1. CASE \E f \in Frames : Enqueue(f)
    BY <2>1 DEF Enqueue, PendingNewest
  <2>2. CASE DiscardAll
    BY <2>2 DEF DiscardAll
  <2>3. CASE CancelActive \/ RefresherSignal \/ Console \/ Shutdown \/ Panel
    BY <2>3 DEF CancelActive, RefresherSignal, Console, SetPaused,
                ConsoleSignal, Shutdown, Panel, Draw, DrawLate
  <2>4. CASE Check
    BY <2>4 DEF Check, Conclude
  <2>5. CASE Admit
    BY <2>5 DEF Admit, Conclude
  <2>6. CASE Settle
    BY <2>6 DEF Settle, Conclude, PanelInv
  <2>7. CASE Finish
    BY <2>7 DEF Finish
  <2>8. CASE Worker /\ ~Check /\ ~Admit /\ ~Settle /\ ~Finish
    BY <2>8 DEF Worker, SelectDone, SelectWake, SelectRetry, Current,
                DrainWake, Render, Reply
  <2>9. CASE UNCHANGED vars
    BY <2>9 DEF vars
  <2>. QED
    BY <2>1, <2>2, <2>3, <2>4, <2>5, <2>6, <2>7, <2>8, <2>9 DEF Next, Refresher
<1>. QED
  BY <1>1, <1>2, TypeCorrect, PendingNewestKept, PanelInvKept, PTL DEF Spec

\* With no console to pause it, the worker with its threads, timer and channel
\* keeps the mailbox's promise: no snapshot leaves the queue unruled.
THEOREM MailboxImplemented ==
    ASSUME ~ConsoleActive PROVE Spec => ImplementsMailbox
<1> USE FramesAssumption
    DEF IsCurrent, None, Failures, queueVars, workerVars, callerVars, panelVars,
        Mailbox!Empty, FinalVerdict
<1>1. Init => Mailbox!Init
  BY DEF Init, Mailbox!Init
<1>2. /\ TypeOK /\ PendingNewest /\ ActiveIsJob /\ RefusedOnlyStale
      /\ [Next]_vars
      => [Mailbox!Next]_(Mailbox!mailboxVars)
  <2> SUFFICES ASSUME TypeOK, PendingNewest, ActiveIsJob, RefusedOnlyStale,
                      [Next]_vars
               PROVE  Mailbox!Next \/ UNCHANGED Mailbox!mailboxVars
    OBVIOUS
  <2> USE DEF TypeOK, Snapshot, Mailbox!mailboxVars
  <2>1. ASSUME NEW f \in Frames, Enqueue(f)
        PROVE  Mailbox!Put(f)
    BY <2>1 DEF Enqueue, Mailbox!Put
  <2>2. CASE DiscardAll
    BY <2>2 DEF DiscardAll, Mailbox!Next, Mailbox!Withdraw
  <2>3. CASE CancelActive \/ RefresherSignal \/ Console \/ Shutdown
    BY <2>3 DEF CancelActive, RefresherSignal, Console, SetPaused,
                ConsoleSignal, Shutdown
  <2>4. CASE Panel
    BY <2>4 DEF Panel, Draw, DrawLate
  <2>5. CASE Worker /\ pc # "finish"
    \* A step that reaches a final verdict rules on the job; others stutter.
    <3>1. UNCHANGED <<nextID, pending>>
      BY <2>5 DEF Worker, SelectDone, SelectWake, SelectRetry, Current,
                  DrainWake, Render, Check, Admit, Reply, Settle, Finish
    <3>2. pc' = "finish" => (UNCHANGED job /\ job.id \in 1..nextID)
      BY <2>5 DEF Worker, SelectDone, SelectWake, SelectRetry, Current,
           DrainWake, Render, Check, Admit, Reply, Settle, Conclude, Finish,
           ActiveIsJob, PendingNewest
    <3>3. CASE pc' = "finish" /\ FinalVerdict'
      <4>1. Mailbox!Rule(job.id)
        BY <2>5, <3>1, <3>2, <3>3 DEF Mailbox!Rule
      <4>. QED
        BY <3>2, <3>3, <4>1 DEF Mailbox!Next
    <3>4. CASE ~(pc' = "finish" /\ FinalVerdict')
      BY <2>5, <3>1, <3>4
    <3>. QED
      BY <3>3, <3>4
  <2>6. CASE Finish
    <3>1. job.id \in 1..nextID
      BY <2>6 DEF Finish, ActiveIsJob, PendingNewest
    <3>2. UNCHANGED nextID /\ pc' # "finish"
      BY <2>6 DEF Finish
    <3>3. CASE ~running
      BY <2>6, <3>1, <3>2, <3>3 DEF Finish, Mailbox!Next, Mailbox!Abandon
    <3>4. CASE running /\ FinalVerdict
      <4>1. pending' = IF IsCurrent THEN None ELSE pending
        BY <2>6, <3>4 DEF Finish, Complete, Reject, DropJob
      <4>. QED
        BY <2>6, <3>1, <3>2, <3>4, <4>1 DEF Finish, Mailbox!Next, Mailbox!Settle
    <3>5. CASE running /\ ~FinalVerdict
      <4>1. UNCHANGED pending
        BY <2>6, <3>5 DEF Finish, Complete, DropJob, RefusedOnlyStale
      <4>. QED
        BY <3>2, <3>5, <4>1
    <3>. QED
      BY <3>3, <3>4, <3>5
  <2>7. CASE UNCHANGED vars
    BY <2>7 DEF vars
  <2>8. Worker /\ ~(pc # "finish") => Finish
    BY DEF Worker, SelectDone, SelectWake, SelectRetry, Current, DrainWake,
           Render, Check, Admit, Reply, Settle
  <2>. QED
    BY <2>1, <2>2, <2>3, <2>4, <2>5, <2>6, <2>7, <2>8
       DEF Next, Refresher, Mailbox!Next
<1>. QED
  BY <1>1, <1>2, TypeCorrect, PendingNewestKept, ActiveIsJobKept,
     RefusedOnlyStaleKept, PTL DEF Spec, ImplementsMailbox, Mailbox!Spec
=============================================================================
