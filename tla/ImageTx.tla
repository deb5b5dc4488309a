------------------------------- MODULE ImageTx -------------------------------
(***************************************************************************)
(* internal/ble/app_image.go and coc.go: AppImageSender, which shows a PNG  *)
(* on the panel over Bluetooth.  An image is uploaded, then a COMMIT asks   *)
(* the photoframe application for a slow physical refresh.  Once a COMMIT   *)
(* may have left, the sender never sends another for that image: it asks    *)
(* for the receipt of the old request until it knows the outcome, and       *)
(* blocks the image when the outcome can no longer be known.                *)
(*                                                                         *)
(* Callers of Send take turns (the gate shared by the pusher and the        *)
(* console), but a Send whose context ends returns while the closure it     *)
(* handed to the Bluetooth session still runs; closures run one at a time.  *)
(* The closure's steps are those between which a cancellation or a lost     *)
(* link makes a difference.  Both data paths (GATT and L2CAP) take the same *)
(* ones.  Images are identified with their SHA-256.                         *)
(*                                                                         *)
(* The photoframe application is external, modelled from the replies the    *)
(* sender handles: it handles one image at a time, keeps the receipts of    *)
(* the last requests in memory, and its target (boot generation, service    *)
(* revision, paired identity) is a number, the epoch.                       *)
(***************************************************************************)
EXTENDS Naturals, FiniteSets

CONSTANTS
    Frames,      \* images
    NoFrame,     \* nothing on the panel yet
    MaxTx,       \* bound on transactions (the code draws 128-bit ids)
    MaxEpoch,    \* bound on changes of target
    MaxLost,     \* bound on lost links, failed authentications and timeouts
    MaxRestart,  \* bound on restarts of the application
    Kept         \* external: receipts the application remembers

ASSUME BoundsAssumption ==
    /\ NoFrame \notin Frames
    /\ MaxTx \in Nat /\ MaxEpoch \in Nat \ {0}
    /\ MaxLost \in Nat /\ MaxRestart \in Nat /\ Kept \in Nat

VARIABLES
    tx,          \* appImageTransaction by id
    made,        \* transactions created so far
    current,     \* AppImageSender.current, 0 for nil
    uncertain,   \* AppImageSender.uncertain: frame -> transaction, 0 for none
    blocked,     \* AppImageSender.blocked: frames
    pc,          \* control point of the caller in Push
    asked,       \* the frame the caller pushes
    mine,        \* the transaction of its Send
    err,         \* the error withClient returned
    answer,      \* what the last Send returned
    job,         \* the closure in the Bluetooth session
    epoch,       \* external: the application's target
    receiving,   \* external: transaction being uploaded
    processing,  \* external: transaction being displayed
    receipts,    \* external: the receipts kept
    panel,       \* external: the frame on the panel
    lost, restarts, \* counters of the bounded environment
    sent,        \* history: transactions whose COMMIT reached the application
    drawn        \* history: transactions whose frame was displayed

senderVars == <<tx, made, current, uncertain, blocked>>
callerVars == <<pc, asked, mine, err, answer>>
deviceVars == <<epoch, receiving, processing, receipts, panel, drawn>>
envVars == <<lost, restarts>>
vars == <<senderVars, callerVars, job, deviceVars, envVars, sent>>

Ids == 1..MaxTx
Transaction == [frame : Frames, committed : BOOLEAN,
                status : {"open", "ok", "failed"}, target : 0..MaxEpoch]
Opened(f) == [frame |-> f, committed |-> FALSE, status |-> "open", target |-> 0]
NoTransaction == Opened(NoFrame)

Steps == {"target", "upload", "mark", "commit", "await", "query", "lost"}
NoJob == [tx |-> 0, step |-> "none", canceled |-> FALSE, target |-> 0]
Jobs == [tx : Ids, step : Steps, canceled : BOOLEAN, target : 0..MaxEpoch]

Errors == {"none", "plain", "canceled", "auth", "permanent"}
Answers == {"none", "ok", "failed", "pending", "refresh", "error"}

TypeOK ==
    /\ tx \in [Ids -> Transaction \cup {NoTransaction}]
    /\ made \in 0..MaxTx
    /\ current \in 0..made
    /\ uncertain \in [Frames -> 0..made]
    /\ blocked \subseteq Frames
    /\ pc \in {"idle", "queued", "running", "settle", "retry"}
    /\ asked \in Frames \cup {NoFrame}
    /\ mine \in 0..made
    /\ err \in Errors
    /\ answer \in Answers
    /\ job \in Jobs \cup {NoJob}
    /\ epoch \in 1..MaxEpoch
    /\ receiving \in 0..made
    /\ processing \in 0..made
    /\ receipts \subseteq [id : Ids, ok : BOOLEAN]
    /\ panel \in Frames \cup {NoFrame}
    /\ lost \in 0..MaxLost
    /\ restarts \in 0..MaxRestart
    /\ sent \subseteq Ids
    /\ drawn \subseteq Ids

Init ==
    /\ tx = [i \in Ids |-> NoTransaction]
    /\ made = 0 /\ current = 0
    /\ uncertain = [f \in Frames |-> 0] /\ blocked = {}
    /\ pc = "idle" /\ asked = NoFrame /\ mine = 0
    /\ err = "none" /\ answer = "none"
    /\ job = NoJob
    /\ epoch = 1 /\ receiving = 0 /\ processing = 0 /\ receipts = {}
    /\ panel = NoFrame /\ lost = 0 /\ restarts = 0
    /\ sent = {} /\ drawn = {}

-----------------------------------------------------------------------------
(* The caller: Push, which calls Send until the outcome is not pending. *)

Return(v) ==
    /\ answer' = v
    /\ pc' = IF v = "pending" THEN "retry" ELSE "idle"

\* The transaction that Send finds for a frame, 0 for none.
Known(f) ==
    IF uncertain[f] # 0 THEN uncertain[f]
    ELSE IF current # 0 /\ tx[current].frame = f THEN current ELSE 0

\* Mutant: a request whose outcome is unknown gets a new identity.
BugReusable(i) == i # 0 /\ tx[i].status # "open"

\* Only a request that may have been committed keeps its identity.
Reusable(i) == i # 0 /\ (tx[i].committed \/ tx[i].status # "open")

\* Send, up to the call of withClient.
Send(f) ==
    /\ pc = "idle" \/ (pc = "retry" /\ f = asked)
    /\ asked' = f
    /\ err' = "none"
    /\ \/ /\ f \in blocked
          /\ Return("failed")
          /\ UNCHANGED <<tx, made, current, mine>>
       \/ /\ f \notin blocked /\ ~Reusable(Known(f))
          /\ made < MaxTx
          /\ made' = made + 1
          /\ tx' = [tx EXCEPT ![made + 1] = Opened(f)]
          /\ current' = made + 1 /\ mine' = made + 1
          /\ pc' = "queued" /\ answer' = "none"
       \/ /\ f \notin blocked /\ Reusable(Known(f))
          /\ current' = Known(f) /\ mine' = Known(f)
          /\ IF tx[Known(f)].status = "open"
             THEN pc' = "queued" /\ answer' = "none"
             ELSE Return(tx[Known(f)].status)
          /\ UNCHANGED <<tx, made>>
    /\ UNCHANGED <<uncertain, blocked, job, deviceVars, envVars, sent>>

\* The console asks for a display of its own: PrepareExplicitPush.
PrepareExplicitPush(f) ==
    /\ pc = "idle"
    /\ \A g \in Frames : uncertain[g] # 0 => tx[uncertain[g]].status # "open"
    /\ f \notin blocked
    /\ current # 0
    /\ tx[current].frame = f /\ tx[current].status = "ok"
    /\ current' = 0
    /\ UNCHANGED <<tx, made, uncertain, blocked, callerVars, job, deviceVars,
                   envVars, sent>>

\* Mutant: a closure that has not started is canceled as well.
BugLeave(e) ==
    /\ pc \in {"queued", "running"}
    /\ pc' = "settle" /\ err' = e
    /\ job' = [job EXCEPT !.canceled = TRUE]
    /\ UNCHANGED <<senderVars, asked, mine, answer, deviceVars, sent>>

\* withClient returns when the context of Send ends, and a closure that has
\* started goes on.
Leave(e) ==
    /\ pc \in {"queued", "running"}
    /\ pc' = "settle" /\ err' = e
    /\ job' = IF pc = "running" THEN [job EXCEPT !.canceled = TRUE] ELSE job
    /\ UNCHANGED <<senderVars, asked, mine, answer, deviceVars, sent>>

\* The caller's own context ends, in a Send or in the wait between two.
Cancel ==
    /\ UNCHANGED envVars
    /\ \/ Leave("canceled")
       \/ /\ pc = "retry"
          /\ Return("error")
          /\ UNCHANGED <<senderVars, asked, mine, err, job, deviceVars, sent>>

\* ImageTimeout, the deadline of one Send.
Timeout ==
    /\ lost < MaxLost
    /\ lost' = lost + 1
    /\ Leave("plain")
    /\ UNCHANGED restarts

\* Mutant: a failed image is not blocked.
BugRule(i, status) ==
    /\ tx' = [tx EXCEPT ![i].status = status]
    /\ uncertain' = [uncertain EXCEPT ![tx[i].frame] = 0]
    /\ UNCHANGED <<made, current, blocked>>

\* finish
Rule(i, status) ==
    /\ tx' = [tx EXCEPT ![i].status = status]
    /\ uncertain' = [uncertain EXCEPT ![tx[i].frame] = 0]
    /\ blocked' = IF status = "failed" THEN blocked \cup {tx[i].frame} ELSE blocked
    /\ UNCHANGED <<made, current>>

\* Send, after withClient has returned.
Settle ==
    /\ pc = "settle"
    /\ \/ /\ tx[mine].status # "open"
          /\ Return(tx[mine].status)
          /\ UNCHANGED senderVars
       \/ /\ tx[mine].status = "open" /\ ~tx[mine].committed /\ err = "auth"
          /\ Return("refresh")
          /\ UNCHANGED senderVars
       \/ /\ tx[mine].status = "open"
          /\ err = "permanent" \/ (err = "auth" /\ tx[mine].committed)
          /\ Rule(mine, "failed")
          /\ Return("failed")
       \/ /\ tx[mine].status = "open" /\ err \in {"plain", "canceled", "none"}
          /\ Return(IF tx[mine].committed /\ err # "canceled" THEN "pending"
                    ELSE "error")
          /\ UNCHANGED senderVars
    /\ err' = "none"
    /\ UNCHANGED <<asked, mine, job, deviceVars, envVars, sent>>

-----------------------------------------------------------------------------
(* The closure, run in the Bluetooth session. *)

StartJob ==
    /\ pc = "queued" /\ job = NoJob
    /\ pc' = "running"
    /\ job' = [tx |-> mine, step |-> "target", canceled |-> FALSE, target |-> 0]
    /\ UNCHANGED <<senderVars, asked, mine, err, answer, deviceVars, envVars, sent>>

\* The closure returns.  Its error reaches a caller that still waits, and ends
\* the session, so that the application drops an unfinished upload.
EndJob(e) ==
    /\ job' = NoJob
    /\ receiving' = 0
    /\ IF job.canceled THEN UNCHANGED <<pc, err>> ELSE pc' = "settle" /\ err' = e
    /\ UNCHANGED <<asked, mine, answer>>

\* The closure ends when its link is lost or its next command finds the
\* context canceled; nothing looks at the context between Upload and Mark.
Abort ==
    /\ job # NoJob
    /\ \/ job.step = "lost" /\ EndJob("plain")
       \/ job.step = "commit" /\ receiving # job.tx /\ EndJob("plain")
       \/ job.canceled /\ job.step \notin {"mark", "lost"} /\ EndJob("plain")
    /\ UNCHANGED <<senderVars, epoch, processing, receipts, panel, drawn,
                   envVars, sent>>

\* A response that does not authenticate, or a pairing that is gone.
Unauthentic ==
    /\ job.step \in {"target", "upload", "await", "query"} /\ ~job.canceled
    /\ lost < MaxLost
    /\ lost' = lost + 1
    /\ EndJob("auth")
    /\ UNCHANGED <<senderVars, epoch, processing, receipts, panel, drawn,
                   restarts, sent>>

\* imageTarget, where the application may be unavailable, and the checks that
\* follow it.  A committed request whose target is gone ends as unknown.
Target ==
    /\ job.step = "target" /\ ~job.canceled
    /\ \/ /\ ~tx[job.tx].committed
          /\ EndJob("plain")
          /\ UNCHANGED senderVars
       \/ /\ tx[job.tx].committed
          /\ Rule(job.tx, "failed")
          /\ EndJob("permanent")
       \/ /\ tx[job.tx].committed /\ tx[job.tx].target = epoch
          /\ job' = [job EXCEPT !.step = "query", !.target = epoch]
          /\ UNCHANGED <<senderVars, callerVars, receiving>>
       \/ /\ ~tx[job.tx].committed
          /\ job' = [job EXCEPT !.step = "upload", !.target = epoch]
          /\ UNCHANGED <<senderVars, callerVars, receiving>>
    /\ UNCHANGED <<epoch, processing, receipts, panel, drawn, envVars, sent>>

\* BEGIN and the CHUNKs, up to the look at the context before COMMIT.  A busy
\* application refuses BEGIN for now, other refusals are for good.
Upload ==
    /\ job.step = "upload" /\ ~job.canceled
    /\ \/ processing # 0 /\ EndJob("plain")
       \/ EndJob("permanent")
       \/ /\ processing = 0
          /\ receiving' = job.tx
          /\ job' = [job EXCEPT !.step = "mark"]
          /\ UNCHANGED callerVars
    /\ UNCHANGED <<senderVars, epoch, processing, receipts, panel, drawn, envVars,
                   sent>>

\* Mutant: a committed transaction is remembered as the current one only.
BugMark ==
    /\ job.step = "mark"
    /\ tx' = [tx EXCEPT ![job.tx].committed = TRUE, ![job.tx].target = job.target]
    /\ job' = [job EXCEPT !.step = "commit"]
    /\ UNCHANGED <<made, current, uncertain, blocked, callerVars, deviceVars,
                   envVars, sent>>

\* Recorded before COMMIT enters native I/O, which may outlive the caller.
Mark ==
    /\ job.step = "mark"
    /\ tx' = [tx EXCEPT ![job.tx].committed = TRUE, ![job.tx].target = job.target]
    /\ uncertain' = [uncertain EXCEPT ![tx[job.tx].frame] = job.tx]
    /\ job' = [job EXCEPT !.step = "commit"]
    /\ UNCHANGED <<made, current, blocked, callerVars, deviceVars, envVars, sent>>

\* The application accepts the COMMIT; its answer is on the way.
Commit ==
    /\ job.step = "commit" /\ ~job.canceled
    /\ receiving = job.tx
    /\ sent' = sent \cup {job.tx}
    /\ processing' = job.tx /\ receiving' = 0
    /\ job' = [job EXCEPT !.step = "await"]
    /\ UNCHANGED <<senderVars, callerVars, epoch, receipts, panel, drawn, envVars>>

\* Mutant: the application's acceptance is taken for completion.
BugReceiptEarly ==
    \/ /\ processing = job.tx \/ \E r \in receipts : r.id = job.tx /\ r.ok
       /\ Rule(job.tx, "ok")
       /\ EndJob("none")
    \/ /\ processing # job.tx /\ \A r \in receipts : r.id # job.tx \/ ~r.ok
       /\ Rule(job.tx, "failed")
       /\ EndJob("permanent")

\* Mutant: a missing receipt is asked for again.
BugReceiptMissing ==
    \/ /\ \A r \in receipts : r.id # job.tx
       /\ EndJob("plain")
       /\ UNCHANGED senderVars
    \/ \E r \in receipts :
          /\ r.id = job.tx
          /\ Rule(job.tx, IF r.ok THEN "ok" ELSE "failed")
          /\ EndJob("none")

\* receipt: what the sender makes of the application's answer about job.tx.
Receipt ==
    \/ /\ processing = job.tx
       /\ EndJob("plain")
       /\ UNCHANGED senderVars
    \/ \E r \in receipts :
          /\ r.id = job.tx
          /\ Rule(job.tx, IF r.ok THEN "ok" ELSE "failed")
          /\ EndJob("none")
    \/ /\ processing # job.tx /\ \A r \in receipts : r.id # job.tx
       /\ Rule(job.tx, "failed")
       /\ EndJob("permanent")

\* The signed answer to COMMIT or QUERY.  A canceled caller does not stop an
\* exchange that has begun.
Answer ==
    /\ job.step \in {"await", "query"}
    /\ job.step = "query" => ~job.canceled
    /\ Receipt
    /\ UNCHANGED <<epoch, processing, receipts, panel, drawn, envVars, sent>>

Closure == StartJob \/ Abort \/ Unauthentic \/ Target \/ Upload \/ Mark \/ Commit \/ Answer

-----------------------------------------------------------------------------
(* External: the link and the photoframe application. *)

\* The link drops, before or after a COMMIT was delivered.
LoseLink ==
    /\ job # NoJob /\ job.step \notin {"mark", "lost"}
    /\ lost < MaxLost
    /\ lost' = lost + 1
    /\ job' = [job EXCEPT !.step = "lost"]
    /\ receiving' = 0
    /\ UNCHANGED <<senderVars, callerVars, epoch, processing, receipts, panel,
                   drawn, restarts, sent>>

\* The newest Kept receipts of R; transactions are displayed in id order.
Newest(R) == {r \in R : Cardinality({q \in R : q.id > r.id}) < Kept}

\* The refresh of the panel completes, or fails.
Display(ok) ==
    /\ processing # 0
    /\ processing' = 0
    /\ receipts' = Newest(receipts \cup {[id |-> processing, ok |-> ok]})
    /\ IF ok THEN panel' = tx[processing].frame /\ drawn' = drawn \cup {processing}
             ELSE UNCHANGED <<panel, drawn>>
    /\ UNCHANGED <<senderVars, callerVars, job, epoch, receiving, envVars, sent>>

\* The application restarts, with or without a new target, perhaps just after
\* the panel has been refreshed.
Restart ==
    /\ restarts < MaxRestart
    /\ restarts' = restarts + 1
    /\ \E e \in {epoch, epoch + 1} : e <= MaxEpoch /\ epoch' = e
    /\ \/ UNCHANGED <<panel, drawn>>
       \/ /\ processing # 0
          /\ panel' = tx[processing].frame /\ drawn' = drawn \cup {processing}
    /\ processing' = 0 /\ receiving' = 0 /\ receipts' = {}
    /\ job' = IF job = NoJob \/ job.step = "mark" THEN job
              ELSE [job EXCEPT !.step = "lost"]
    /\ UNCHANGED <<senderVars, callerVars, lost, sent>>

-----------------------------------------------------------------------------
Next ==
    \/ \E f \in Frames : Send(f) \/ PrepareExplicitPush(f)
    \/ Cancel \/ Timeout \/ Settle
    \/ Closure
    \/ LoseLink \/ (\E ok \in BOOLEAN : Display(ok)) \/ Restart

Spec == Init /\ [][Next]_vars

\* Push sends again two seconds after a pending answer, every command of a
\* closure has a deadline, and the application ends its refresh some time.
\* The link may fail and Send may run into its deadline MaxLost times, and the
\* application may restart MaxRestart times: nobody promises that for good.
Fairness ==
    /\ WF_vars(pc = "retry" /\ Send(asked)) /\ WF_vars(Settle)
    /\ WF_vars(Closure)
    /\ WF_vars(\E ok \in BOOLEAN : Display(ok))

FairSpec == Spec /\ Fairness

-----------------------------------------------------------------------------
(* Properties *)

\* A request whose COMMIT may have left and whose outcome is open is the one
\* that the next Send for its image finds, whatever was sent in between
\* (current is overwritten by every Send; uncertain is what keeps it).
OpenRequestFound ==
    \A i \in sent : tx[i].status = "open" => Known(tx[i].frame) = i

\* A COMMIT never repeats one whose outcome is not known to be success: not of
\* the same request, nor of an earlier request for the same image that is open,
\* failed or lost (the comment of AppImageSender; canceled closures that still
\* run, new snapshots in between, explicit pushes and restarts included).
CommitsOnlyAfterSuccess ==
    [][\A i \in sent' \ sent : \A j \in Ids \ {i} :
          (j \in sent /\ tx[j].frame = tx[i].frame) => tx[j].status = "ok"]_vars

\* An image that was refused or whose outcome is unknown is never uploaded
\* again by this process.
BlockedStaysOff ==
    [][\A i \in 1..made :
          (tx[i].status = "failed" /\ receiving' # receiving /\ receiving' # 0)
              => tx[receiving'].frame # tx[i].frame]_vars

\* Send reports success only when its own request was displayed.
SuccessMeansDrawn == answer = "ok" => mine \in drawn

\* When Send reports success the panel shows the image.
SuccessMeansShown ==
    [][(answer' = "ok" /\ answer # "ok") => panel = asked']_vars

Once == INSTANCE OneDisplay WITH
    Requests <- Ids, Images <- Frames, NoImage <- NoFrame,
    image    <- [i \in Ids |-> tx[i].frame],
    verdict  <- [i \in Ids |-> tx[i].status],
    off      <- blocked

\* Whatever is canceled, lost, restarted or late, the sender and the
\* application together keep the promise of OneDisplay: no COMMIT is repeated,
\* nothing is drawn twice, no old image covers a newer one.
ImplementsOneDisplay == Once!Spec

\* A pending image is not asked about for ever: Push returns.
PendingResolves == (pc = "retry") ~> (pc = "idle")
=============================================================================
