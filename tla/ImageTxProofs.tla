---------------------------- MODULE ImageTxProofs ----------------------------
(***************************************************************************)
(* Proofs about ImageTx, for every set of images and all bounds: type       *)
(* correctness, and that a COMMIT is never repeated while the outcome of an *)
(* earlier one for the same image is unknown.                               *)
(***************************************************************************)
EXTENDS ImageTx, TLAPS

\* The ids in use name transactions that exist, and a closure is canceled
\* exactly when its caller no longer waits for it.
IdsExist ==
    /\ \A i \in 1..made : tx[i] \in Transaction
    /\ pc # "idle" => mine \in 1..made
    /\ job # NoJob => job.tx \in 1..made
    /\ pc = "running" => (job # NoJob /\ job.tx = mine)
    /\ job # NoJob => (job.canceled <=> pc # "running")

-----------------------------------------------------------------------------
LEMMA ReturnTyped ==
    ASSUME NEW v \in Answers \ {"none"}, Return(v)
    PROVE  answer' \in Answers /\ pc' \in {"idle", "retry"}
BY DEF Return, Answers

LEMMA EndJobTyped ==
    ASSUME TypeOK, NEW e \in Errors, EndJob(e)
    PROVE  /\ job' = NoJob /\ receiving' = 0
           /\ pc' \in {pc, "settle"} /\ err' \in Errors
           /\ UNCHANGED <<asked, mine, answer>>
BY DEF EndJob, TypeOK

LEMMA RuleTyped ==
    ASSUME TypeOK, IdsExist, NEW i \in 1..made,
           NEW status \in {"ok", "failed"}, Rule(i, status)
    PROVE  /\ tx' \in [Ids -> Transaction \cup {NoTransaction}]
           /\ uncertain' \in [Frames -> 0..made]
           /\ blocked' \subseteq Frames
           /\ \A j \in 1..made : tx'[j] \in Transaction
           /\ UNCHANGED <<made, current>>
<1> USE BoundsAssumption DEF TypeOK, Ids
<1>1. tx[i] \in Transaction
  BY DEF IdsExist
<1>2. tx[i].frame \in Frames /\ [tx[i] EXCEPT !.status = status] \in Transaction
  BY <1>1 DEF Transaction
<1>3. PICK t \in Transaction : tx' = [tx EXCEPT ![i] = t]
  BY <1>2 DEF Rule
<1>4. tx' \in [Ids -> Transaction \cup {NoTransaction}]
  BY <1>3
<1>5. \A j \in 1..made : tx'[j] \in Transaction
  BY <1>3 DEF IdsExist
<1>6. uncertain' \in [Frames -> 0..made]
  <2>1. 0 \in 0..made /\ uncertain' = [uncertain EXCEPT ![tx[i].frame] = 0]
    BY DEF Rule
  <2>. QED
    BY <2>1
<1>7. blocked' \subseteq Frames
  BY <1>2 DEF Rule
<1>. QED
  BY <1>4, <1>5, <1>6, <1>7 DEF Rule

\* A closure that goes on to another step is the same closure.
LEMMA StepTyped ==
    ASSUME job \in Jobs, NEW s \in Steps, NEW t \in 0..MaxEpoch,
           \/ job' = [job EXCEPT !.step = s]
           \/ job' = [job EXCEPT !.step = s, !.target = t]
    PROVE  /\ job' \in Jobs /\ job' # NoJob
           /\ job'.tx = job.tx /\ (job'.canceled <=> job.canceled) /\ job'.step = s
<1> USE BoundsAssumption DEF Jobs, NoJob, Ids
<1>1. job' \in Jobs /\ job'.tx = job.tx /\ job'.step = s
  OBVIOUS
<1>2. job'.canceled = job.canceled
  OBVIOUS
<1>. QED
  BY <1>1, <1>2

LEMMA TypeInvKept == Spec => [](TypeOK /\ IdsExist)
<1> USE BoundsAssumption
    DEF senderVars, callerVars, deviceVars, envVars, Ids, Errors, Answers
<1>1. Init => TypeOK /\ IdsExist
  BY DEF Init, TypeOK, IdsExist, Jobs, NoJob
<1>2. TypeOK /\ IdsExist /\ [Next]_vars => TypeOK' /\ IdsExist'
  <2> SUFFICES ASSUME TypeOK, IdsExist, [Next]_vars
               PROVE  TypeOK' /\ IdsExist'
    OBVIOUS
  <2>1. ASSUME NEW f \in Frames, Send(f) PROVE TypeOK' /\ IdsExist'
    <3>1. CASE f \in blocked
      BY <2>1, <3>1 DEF Send, Return, TypeOK, IdsExist
    <3>2. CASE f \notin blocked /\ ~Reusable(Known(f))
      <4>1. made + 1 \in Ids /\ 1..made' = 1..made \cup {made + 1}
        BY <2>1, <3>2 DEF Send, TypeOK
      <4>2. Opened(f) \in Transaction
        BY DEF Opened, Transaction
      <4>3. /\ tx' = [tx EXCEPT ![made + 1] = Opened(f)]
            /\ made' = made + 1 /\ current' = made + 1 /\ mine' = made + 1
            /\ pc' = "queued" /\ answer' = "none" /\ asked' = f /\ err' = "none"
        BY <2>1, <3>2 DEF Send
      <4>4. tx' \in [Ids -> Transaction \cup {NoTransaction}]
        BY <4>1, <4>2, <4>3 DEF TypeOK
      <4>5. \A i \in 1..made' : tx'[i] \in Transaction
        BY <4>1, <4>2, <4>3 DEF TypeOK, IdsExist
      <4>6. UNCHANGED <<uncertain, blocked, job, deviceVars, envVars, sent>>
        BY <2>1 DEF Send
      <4>7. job # NoJob => job'.canceled /\ job'.tx \in 1..made'
        BY <2>1, <4>1, <4>6, Zenon DEF Send, IdsExist
      <4>8. TypeOK'
        BY <4>1, <4>3, <4>4, <4>6 DEF TypeOK
      <4>9. IdsExist'
        BY <4>1, <4>3, <4>5, <4>6, <4>7 DEF IdsExist
      <4>. QED
        BY <4>8, <4>9
    <3>3. CASE f \notin blocked /\ Reusable(Known(f))
      <4>1. Known(f) \in 1..made
        BY <3>3 DEF Reusable, Known, TypeOK
      <4>2. tx[Known(f)].status \in {"open", "ok", "failed"}
        BY <4>1 DEF IdsExist, Transaction
      <4>. QED
        BY <2>1, <3>3, <4>1, <4>2 DEF Send, Return, TypeOK, IdsExist
    <3>. QED
      BY <3>1, <3>2, <3>3
  <2>2. ASSUME NEW f \in Frames, PrepareExplicitPush(f)
        PROVE  TypeOK' /\ IdsExist'
    BY <2>2 DEF PrepareExplicitPush, TypeOK, IdsExist
  <2>3. ASSUME NEW e \in {"plain", "canceled"}, Leave(e), UNCHANGED restarts,
               lost' \in 0..MaxLost
        PROVE  TypeOK' /\ IdsExist'
    <3>1. CASE pc = "queued"
      <4>1. UNCHANGED job
        BY <2>3, <3>1 DEF Leave
      <4>. QED
        BY <2>3, <3>1, <4>1 DEF Leave, TypeOK, IdsExist
    <3>2. CASE pc = "running"
      <4>1. job \in Jobs /\ job' = [job EXCEPT !.canceled = TRUE]
        BY <2>3, <3>2 DEF Leave, TypeOK, IdsExist
      <4>2. job' \in Jobs /\ job'.tx = job.tx /\ job'.canceled /\ job' # NoJob
        BY <4>1 DEF Jobs, NoJob
      <4>. QED
        BY <2>3, <3>2, <4>1, <4>2 DEF Leave, TypeOK, IdsExist
    <3>. QED
      BY <2>3, <3>1, <3>2 DEF Leave
  <2>4. CASE Cancel
    <3>1. CASE Leave("canceled")
      BY <2>3, <2>4, <3>1 DEF Cancel, TypeOK
    <3>2. CASE pc = "retry" /\ Return("error")
      BY <2>4, <3>2 DEF Cancel, Return, Leave, TypeOK, IdsExist
    <3>. QED
      BY <2>4, <3>1, <3>2 DEF Cancel
  <2>5. CASE Timeout
    BY <2>3, <2>5 DEF Timeout, TypeOK
  <2>6. CASE Settle
    <3>1. /\ mine \in 1..made /\ pc = "settle" /\ err' = "none"
          /\ UNCHANGED <<asked, mine, job, deviceVars, envVars, sent>>
          /\ pc' \in {"idle", "retry"} /\ answer' \in Answers
      <4>1. tx[mine].status \in {"open", "ok", "failed"}
        BY <2>6 DEF Settle, IdsExist, Transaction
      <4>. QED
        BY <2>6, <4>1 DEF Settle, Return, IdsExist
    <3>2. CASE UNCHANGED senderVars
      BY <3>1, <3>2 DEF TypeOK, IdsExist
    <3>3. CASE Rule(mine, "failed")
      BY <3>1, <3>3, RuleTyped DEF TypeOK, IdsExist
    <3>. QED
      BY <2>6, <3>2, <3>3 DEF Settle
  <2>7. CASE StartJob
    <3>1. job' \in Jobs /\ job'.tx = mine /\ ~job'.canceled /\ job' # NoJob
      BY <2>7 DEF StartJob, IdsExist, TypeOK, Jobs, Steps, NoJob
    <3>. QED
      BY <2>7, <3>1 DEF StartJob, TypeOK, IdsExist
  <2>8. ASSUME NEW e \in Errors, EndJob(e), job # NoJob, lost' \in 0..MaxLost,
               UNCHANGED <<epoch, processing, receipts, panel, drawn, restarts>>,
               sent' = sent,
               \/ UNCHANGED senderVars
               \/ \E v \in {"ok", "failed"} : Rule(job.tx, v)
        PROVE  TypeOK' /\ IdsExist'
    <3>1. /\ job' = NoJob /\ receiving' = 0 /\ UNCHANGED <<asked, mine, answer>>
          /\ err' \in Errors /\ pc' \in {pc, "settle"} /\ pc' # "running"
          /\ pc' # "idle" => mine \in 1..made
      BY <2>8 DEF EndJob, TypeOK, IdsExist
    <3>2. CASE UNCHANGED senderVars
      BY <2>8, <3>1, <3>2 DEF TypeOK, IdsExist
    <3>3. ASSUME NEW v \in {"ok", "failed"}, Rule(job.tx, v)
          PROVE  TypeOK' /\ IdsExist'
      <4>1. job.tx \in 1..made
        BY <2>8 DEF IdsExist
      <4>. QED
        BY <2>8, <3>1, <3>3, <4>1, RuleTyped DEF TypeOK, IdsExist
    <3>. QED
      BY <2>8, <3>2, <3>3
  <2>9. CASE Abort
    <3>1. PICK e \in Errors : EndJob(e)
      BY <2>9 DEF Abort
    <3>. QED
      BY <2>8, <2>9, <3>1 DEF Abort, TypeOK
  <2>10. CASE Unauthentic
    <3>1. lost' \in 0..MaxLost /\ job # NoJob
      BY <2>10 DEF Unauthentic, TypeOK, NoJob
    <3>. QED
      BY <2>8, <2>10, <3>1 DEF Unauthentic
  <2>11. CASE Target
    <3>1. job # NoJob /\ job \in Jobs
      BY <2>11 DEF Target, TypeOK, NoJob
    <3>2. /\ UNCHANGED <<epoch, processing, receipts, panel, drawn, envVars, sent>>
          /\ \/ \E e \in Errors : EndJob(e) /\ UNCHANGED senderVars
             \/ EndJob("permanent") /\ Rule(job.tx, "failed")
             \/ /\ \E s \in Steps : job' = [job EXCEPT !.step = s, !.target = epoch]
                /\ UNCHANGED <<senderVars, callerVars, receiving>>
      BY <2>11 DEF Target, Steps
    <3>3. CASE \E e \in Errors : EndJob(e) /\ UNCHANGED senderVars
      BY <2>8, <3>1, <3>2, <3>3 DEF TypeOK
    <3>4. CASE EndJob("permanent") /\ Rule(job.tx, "failed")
      BY <2>8, <3>1, <3>2, <3>4 DEF TypeOK
    <3>5. ASSUME NEW s \in Steps, job' = [job EXCEPT !.step = s, !.target = epoch],
                 UNCHANGED <<senderVars, callerVars, receiving>>
          PROVE  TypeOK' /\ IdsExist'
      <4>1. epoch \in 0..MaxEpoch
        BY DEF TypeOK
      <4>2. /\ job' \in Jobs /\ job' # NoJob /\ job'.tx = job.tx
            /\ job'.canceled <=> job.canceled
        BY <3>1, <3>5, <4>1, StepTyped
      <4>. QED
        BY <3>1, <3>2, <3>5, <4>2 DEF TypeOK, IdsExist
    <3>. QED
      BY <3>2, <3>3, <3>4, <3>5
  <2>12. CASE Answer
    <3>1. job # NoJob
      BY <2>12 DEF Answer, NoJob
    <3>2. \E e \in Errors :
            /\ EndJob(e)
            /\ UNCHANGED senderVars \/ \E v \in {"ok", "failed"} : Rule(job.tx, v)
      BY <2>12 DEF Answer, Receipt
    <3>. QED
      BY <2>8, <2>12, <3>1, <3>2 DEF Answer, TypeOK
  \* The other steps move the closure on, or are not the sender's.
  <2>13. ASSUME NEW s \in Steps, job # NoJob, job' = [job EXCEPT !.step = s],
                receiving' \in 0..made, processing' \in 0..made,
                sent' \subseteq Ids, lost' \in 0..MaxLost,
                UNCHANGED <<callerVars, epoch, receipts, panel, drawn, restarts>>,
                UNCHANGED <<made, current, blocked>>,
                tx' \in [Ids -> Transaction \cup {NoTransaction}],
                \A i \in 1..made : tx'[i] \in Transaction,
                uncertain' \in [Frames -> 0..made]
         PROVE  TypeOK' /\ IdsExist'
    <3>1. job \in Jobs
      BY <2>13 DEF TypeOK
    <3>2. 0 \in 0..MaxEpoch
      OBVIOUS
    <3>3. /\ job' \in Jobs /\ job' # NoJob /\ job'.tx = job.tx
          /\ job'.canceled <=> job.canceled
      BY <2>13, <3>1, <3>2, StepTyped
    <3>. QED
      BY <2>13, <3>3 DEF TypeOK, IdsExist
  <2>14. CASE Upload
    <3>1. job # NoJob
      BY <2>14 DEF Upload, NoJob
    <3>2. CASE \E e \in Errors : EndJob(e)
      BY <2>8, <2>14, <3>1, <3>2 DEF Upload, TypeOK
    <3>3. CASE /\ receiving' = job.tx /\ job' = [job EXCEPT !.step = "mark"]
               /\ UNCHANGED callerVars
      BY <2>13, <2>14, <3>1, <3>3 DEF Upload, TypeOK, IdsExist, Steps
    <3>. QED
      BY <2>14, <3>2, <3>3 DEF Upload
  <2>15. CASE Mark
    <3>1. job # NoJob /\ job.tx \in 1..made
      BY <2>15 DEF Mark, NoJob, IdsExist
    <3>2. tx[job.tx] \in Transaction
      BY <3>1 DEF IdsExist
    <3>3. PICK t \in Transaction : tx' = [tx EXCEPT ![job.tx] = t]
      <4>1. job.target \in 0..MaxEpoch
        BY <3>1 DEF TypeOK, Jobs
      <4>2. [tx[job.tx] EXCEPT !.committed = TRUE, !.target = job.target] \in Transaction
        BY <3>2, <4>1 DEF Transaction
      <4>. QED
        BY <2>15, <4>2 DEF Mark
    <3>4. tx' \in [Ids -> Transaction \cup {NoTransaction}]
      BY <3>3 DEF TypeOK
    <3>5. \A i \in 1..made : tx'[i] \in Transaction
      BY <3>1, <3>3 DEF TypeOK, IdsExist
    <3>6. uncertain' \in [Frames -> 0..made]
      <4>1. /\ job.tx \in 0..made
            /\ uncertain' = [uncertain EXCEPT ![tx[job.tx].frame] = job.tx]
        BY <2>15, <3>1 DEF Mark, TypeOK
      <4>. QED
        BY <4>1 DEF TypeOK
    <3>. QED
      BY <2>13, <2>15, <3>1, <3>4, <3>5, <3>6 DEF Mark, TypeOK, Steps
  <2>16. CASE Commit
    <3>1. job # NoJob /\ job.tx \in 1..made
      BY <2>16 DEF Commit, NoJob, IdsExist
    <3>. QED
      BY <2>13, <2>16, <3>1 DEF Commit, TypeOK, IdsExist, Steps
  <2>17. CASE LoseLink
    <3>1. /\ job # NoJob /\ job' = [job EXCEPT !.step = "lost"]
          /\ receiving' = 0 /\ lost' \in 0..MaxLost
          /\ UNCHANGED <<senderVars, callerVars, epoch, processing, receipts,
                         panel, drawn, restarts, sent>>
      <4>1. lost \in 0..MaxLost /\ lost < MaxLost => lost + 1 \in 0..MaxLost
        OBVIOUS
      <4>2. lost \in 0..MaxLost
        BY DEF TypeOK
      <4>. QED
        BY <2>17, <4>1, <4>2 DEF LoseLink
    <3>2. "lost" \in Steps
      BY DEF Steps
    <3>3. /\ tx' \in [Ids -> Transaction \cup {NoTransaction}]
          /\ uncertain' \in [Frames -> 0..made] /\ sent' \subseteq Ids
          /\ receiving' \in 0..made /\ processing' \in 0..made
      <4>1. /\ UNCHANGED <<tx, uncertain, sent, processing>>
            /\ receiving' = 0
        BY <3>1
      <4>2. 0 \in 0..made
        BY DEF TypeOK
      <4>. QED
        BY <4>1, <4>2 DEF TypeOK
    <3>4. \A i \in 1..made : tx'[i] \in Transaction
      BY <3>1 DEF IdsExist
    <3>. QED
      BY <2>13, <3>1, <3>2, <3>3, <3>4
  <2>18. ASSUME NEW ok \in BOOLEAN, Display(ok) PROVE TypeOK' /\ IdsExist'
    <3>1. processing \in 1..made /\ tx[processing] \in Transaction
      BY <2>18 DEF Display, TypeOK, IdsExist
    <3>2. tx[processing].frame \in Frames
      BY <3>1 DEF Transaction
    <3>3. receipts' \subseteq [id : Ids, ok : BOOLEAN]
      BY <2>18, <3>1 DEF Display, Newest, TypeOK
    <3>4. panel' \in Frames \cup {NoFrame} /\ drawn' \subseteq Ids
      <4>1. CASE panel' = tx[processing].frame /\ drawn' = drawn \cup {processing}
        BY <3>1, <3>2, <4>1 DEF TypeOK
      <4>2. CASE UNCHANGED <<panel, drawn>>
        BY <4>2 DEF TypeOK
      <4>. QED
        BY <2>18, <4>1, <4>2, Zenon DEF Display
    <3>5. processing' \in 0..made /\ UNCHANGED <<senderVars, callerVars, job,
                                               epoch, receiving, envVars, sent>>
      BY <2>18 DEF Display, TypeOK
    <3>6. TypeOK'
      BY <3>3, <3>4, <3>5 DEF TypeOK
    <3>7. IdsExist'
      BY <3>5 DEF IdsExist
    <3>. QED
      BY <3>6, <3>7
  <2>19. CASE Restart
    <3>1. panel' \in Frames \cup {NoFrame} /\ drawn' \subseteq Ids
      <4>1. CASE UNCHANGED <<panel, drawn>>
        BY <4>1 DEF TypeOK
      <4>2. CASE /\ processing # 0 /\ panel' = tx[processing].frame
                 /\ drawn' = drawn \cup {processing}
        <5>1. processing \in 1..made /\ tx[processing] \in Transaction
          BY <4>2 DEF TypeOK, IdsExist
        <5>. QED
          BY <4>2, <5>1 DEF TypeOK, Transaction
      <4>. QED
        BY <2>19, <4>1, <4>2 DEF Restart
    <3>2. /\ job' \in Jobs \cup {NoJob} /\ (job' = NoJob <=> job = NoJob)
          /\ job # NoJob => (job'.tx = job.tx /\ (job'.canceled <=> job.canceled))
      <4>1. CASE UNCHANGED job
        BY <4>1 DEF TypeOK
      <4>2. CASE job # NoJob /\ job' = [job EXCEPT !.step = "lost"]
        BY <4>2, 0 \in 0..MaxEpoch, StepTyped DEF TypeOK, Steps
      <4>. QED
        BY <2>19, <4>1, <4>2 DEF Restart
    <3>3. epoch' \in 1..MaxEpoch /\ restarts' \in 0..MaxRestart
      <4>1. epoch \in 1..MaxEpoch /\ restarts \in 0..MaxRestart
        BY DEF TypeOK
      <4>2. epoch' \in 1..MaxEpoch
        BY <2>19, <4>1 DEF Restart
      <4>3. restarts' \in 0..MaxRestart
        <5>1. restarts < MaxRestart /\ restarts' = restarts + 1
          BY <2>19 DEF Restart
        <5>. QED
          BY <4>1, <5>1
      <4>. QED
        BY <4>2, <4>3
    <3>4. /\ receipts' = {} /\ processing' = 0 /\ receiving' = 0
          /\ UNCHANGED <<senderVars, callerVars, lost, sent>>
      BY <2>19 DEF Restart
    <3>5. TypeOK'
      BY <3>1, <3>2, <3>3, <3>4 DEF TypeOK
    <3>6. IdsExist'
      BY <3>2, <3>4 DEF IdsExist
    <3>. QED
      BY <3>5, <3>6
  <2>20. CASE UNCHANGED vars
    BY <2>20 DEF vars, TypeOK, IdsExist
  <2>. QED
    BY <2>1, <2>2, <2>4, <2>5, <2>6, <2>7, <2>9, <2>10, <2>11, <2>12, <2>14,
       <2>15, <2>16, <2>17, <2>18, <2>19, <2>20 DEF Next, Closure
<1>. QED
  BY <1>1, <1>2, PTL DEF Spec

\* Every reachable state has the types of the sender's fields.
THEOREM TypeCorrect == Spec => []TypeOK
BY TypeInvKept, PTL

-----------------------------------------------------------------------------
(* The inductive invariant behind the safety properties. *)

\* No request for the image of i is open or failed: a new COMMIT is safe.
Alone(i) == \A j \in sent : tx[j].frame = tx[i].frame => tx[j].status = "ok"

SentCommitted == \A i \in sent : i \in 1..made /\ tx[i].committed

UncertainCommitted ==
    \A f \in Frames : uncertain[f] # 0 =>
        /\ uncertain[f] \in 1..made
        /\ tx[uncertain[f]].frame = f /\ tx[uncertain[f]].committed

OpenKept ==
    \A i \in sent : tx[i].status = "open" => uncertain[tx[i].frame] = i

FailedBlocked ==
    \A i \in 1..made : tx[i].status = "failed" => tx[i].frame \in blocked

\* A closure on its way to COMMIT may send it, whoever still waits for it.
ClosureInv ==
    job # NoJob =>
        /\ job.step \in {"upload", "mark"} => ~tx[job.tx].committed
        /\ job.step = "query" => tx[job.tx].committed
        /\ job.step = "commit" => /\ tx[job.tx].committed /\ job.tx \notin sent
                                  /\ tx[job.tx].status = "open"
                                  /\ uncertain[tx[job.tx].frame] = job.tx
        /\ job.step = "await" => job.tx \in sent /\ tx[job.tx].status = "open"
        /\ ~tx[job.tx].committed => tx[job.tx].status = "open"
        /\ (~tx[job.tx].committed \/ job.step = "commit") => Alone(job.tx)

\* The caller's transaction is the only one for its image that may be open.
CallerInv ==
    /\ (pc \in {"queued", "running"} /\ ~tx[mine].committed) =>
          /\ tx[mine].status = "open" /\ tx[mine].frame \notin blocked
          /\ Alone(mine)
    /\ (pc = "settle" /\ err \in {"auth", "permanent"}) => job = NoJob
    /\ pc \in {"queued", "running", "settle"} =>
          \A j \in sent : (tx[j].frame = tx[mine].frame /\ tx[j].status = "open")
                              => j = mine

CommitInv ==
    /\ SentCommitted /\ UncertainCommitted /\ OpenKept /\ FailedBlocked
    /\ ClosureInv /\ CallerInv

\* What finish changes, transaction by transaction.
LEMMA RuleEffect ==
    ASSUME TypeOK, IdsExist, NEW i \in 1..made,
           NEW status \in {"ok", "failed"}, Rule(i, status)
    PROVE  /\ \A j \in 1..made :
                 /\ tx'[j].frame = tx[j].frame
                 /\ tx'[j].committed = tx[j].committed
                 /\ tx'[j].status = IF j = i THEN status ELSE tx[j].status
           /\ \A f \in Frames :
                 uncertain'[f] = IF f = tx[i].frame THEN 0 ELSE uncertain[f]
           /\ blocked \subseteq blocked'
           /\ blocked' \subseteq blocked \cup {tx[i].frame}
           /\ status = "failed" => tx[i].frame \in blocked'
           /\ UNCHANGED <<made, current>>
<1> USE BoundsAssumption DEF TypeOK, Ids
<1>1. tx' = [tx EXCEPT ![i] = [tx[i] EXCEPT !.status = status]]
  BY DEF Rule
<1>2. \A j \in 1..made : tx[j] \in Transaction
  BY DEF IdsExist
<1>3. ASSUME NEW j \in 1..made
      PROVE  /\ tx'[j].frame = tx[j].frame
             /\ tx'[j].committed = tx[j].committed
             /\ tx'[j].status = IF j = i THEN status ELSE tx[j].status
  <2>1. CASE j = i
    BY <1>1, <1>2, <2>1 DEF Transaction
  <2>2. CASE j # i
    BY <1>1, <2>2
  <2>. QED
    BY <2>1, <2>2
<1>4. ASSUME NEW f \in Frames
      PROVE  uncertain'[f] = IF f = tx[i].frame THEN 0 ELSE uncertain[f]
  <2>1. uncertain' = [uncertain EXCEPT ![tx[i].frame] = 0]
    BY DEF Rule
  <2>. QED
    BY <2>1
<1>. QED
  BY <1>3, <1>4 DEF Rule

\* Once an image may be committed no step but finish changes what the
\* invariant says of the transactions.
LEMMA MarkEffect ==
    ASSUME TypeOK, IdsExist, Mark
    PROVE  /\ \A j \in 1..made :
                 /\ tx'[j].frame = tx[j].frame
                 /\ tx'[j].status = tx[j].status
                 /\ j # job.tx => tx'[j].committed = tx[j].committed
           /\ tx'[job.tx].committed
           /\ \A f \in Frames : uncertain'[f] =
                 IF f = tx[job.tx].frame THEN job.tx ELSE uncertain[f]
<1> USE BoundsAssumption DEF TypeOK, Ids
<1>1. job # NoJob /\ job.tx \in 1..made
  BY DEF Mark, NoJob, IdsExist
<1>2. tx' = [tx EXCEPT ![job.tx] = [tx[job.tx] EXCEPT !.committed = TRUE,
                                                      !.target = job.target]]
  BY DEF Mark
<1>3. \A j \in 1..made : tx[j] \in Transaction
  BY DEF IdsExist
<1>4. /\ tx'[job.tx].frame = tx[job.tx].frame
      /\ tx'[job.tx].status = tx[job.tx].status /\ tx'[job.tx].committed
  BY <1>1, <1>2, <1>3 DEF Transaction
<1>5. \A j \in 1..made : j # job.tx => tx'[j] = tx[j]
  BY <1>2
<1>6. uncertain' = [uncertain EXCEPT ![tx[job.tx].frame] = job.tx]
  BY DEF Mark
<1>. QED
  BY <1>4, <1>5, <1>6

LEMMA CommitInvKept == Spec => []CommitInv
<1> USE BoundsAssumption
    DEF senderVars, callerVars, deviceVars, envVars, Ids,
        SentCommitted, UncertainCommitted, OpenKept, FailedBlocked, Alone
<1>1. Init => CommitInv
  BY DEF Init, CommitInv, ClosureInv, CallerInv
<1>2. TypeOK /\ IdsExist /\ CommitInv /\ [Next]_vars => CommitInv'
  <2> SUFFICES ASSUME TypeOK, IdsExist, CommitInv, [Next]_vars PROVE CommitInv'
    OBVIOUS
  <2> USE DEF CommitInv
  <2>0. \A i \in 1..made : /\ tx[i].frame \in Frames
                           /\ tx[i].status \in {"open", "ok", "failed"}
    BY DEF IdsExist, Transaction
  <2>1. ASSUME NEW f \in Frames, Send(f) PROVE CommitInv'
    <3>0. /\ pc \in {"idle", "retry"}
          /\ UNCHANGED <<uncertain, blocked, job, sent>>
      BY <2>1 DEF Send
    <3>1. CASE f \in blocked
      <4>1. pc' \in {"idle", "retry"} /\ UNCHANGED <<tx, made>>
        BY <2>1, <3>1 DEF Send, Return
      <4>. QED
        BY <3>0, <4>1 DEF ClosureInv, CallerInv
    <3>2. CASE f \notin blocked /\ ~Reusable(Known(f))
      <4>1. /\ made' = made + 1 /\ made + 1 \in 1..MaxTx /\ mine' = made + 1
            /\ pc' = "queued" /\ tx' = [tx EXCEPT ![made + 1] = Opened(f)]
        BY <2>1, <3>2 DEF Send, TypeOK
      <4>2. /\ tx'[made + 1].frame = f /\ tx'[made + 1].status = "open"
            /\ ~tx'[made + 1].committed
            /\ \A i \in 1..made : tx'[i] = tx[i]
        BY <4>1 DEF TypeOK, Opened
      <4>3. uncertain[f] = 0
        BY <3>2 DEF Reusable, Known
      <4>4. \A j \in sent : tx[j].frame = f => tx[j].status = "ok"
        BY <2>0, <3>2, <4>3 DEF TypeOK
      <4>5. (SentCommitted /\ UncertainCommitted /\ OpenKept /\ FailedBlocked)'
        <5>1. \A i \in 1..made' : i \in 1..made \/ i = made + 1
          BY <4>1 DEF TypeOK
        <5>2. 1..made \subseteq 1..made'
          BY <4>1 DEF TypeOK
        <5>3. SentCommitted'
          BY <3>0, <4>2, <5>2
        <5>4. UncertainCommitted'
          BY <3>0, <4>2, <5>2
        <5>5. OpenKept'
          BY <3>0, <4>2
        <5>6. FailedBlocked'
          BY <3>0, <4>2, <5>1
        <5>. QED
          BY <5>3, <5>4, <5>5, <5>6
      <4>6. ClosureInv'
        BY <3>0, <4>1, <4>2 DEF ClosureInv, IdsExist
      <4>7. CallerInv'
        BY <3>0, <3>2, <4>1, <4>2, <4>4 DEF CallerInv
      <4>. QED
        BY <4>5, <4>6, <4>7
    <3>3. CASE f \notin blocked /\ Reusable(Known(f))
      <4>1. Known(f) \in 1..made /\ tx[Known(f)].frame = f
        BY <3>3 DEF Reusable, Known, TypeOK
      <4>2. /\ mine' = Known(f) /\ UNCHANGED <<tx, made>>
            /\ pc' \in {"idle", "retry", "queued"}
            /\ pc' = "queued" => tx[Known(f)].committed
        BY <2>1, <3>3 DEF Send, Return, Reusable
      <4>3. \A j \in sent : (tx[j].frame = f /\ tx[j].status = "open")
                               => j = Known(f)
        BY DEF Known, TypeOK
      <4>4. ClosureInv'
        BY <3>0, <4>2 DEF ClosureInv
      <4>5. CallerInv'
        BY <3>0, <4>1, <4>2, <4>3 DEF CallerInv
      <4>. QED
        BY <3>0, <4>2, <4>4, <4>5
    <3>. QED
      BY <3>1, <3>2, <3>3
  <2>2. ASSUME NEW f \in Frames, PrepareExplicitPush(f) PROVE CommitInv'
    BY <2>2 DEF PrepareExplicitPush, ClosureInv, CallerInv
  <2>3. CASE Cancel \/ Timeout
    <3>1. UNCHANGED <<tx, made, uncertain, blocked, mine, sent>>
      BY <2>3 DEF Cancel, Timeout, Leave
    <3>2. \/ /\ pc \in {"queued", "running"} /\ pc' = "settle"
             /\ err' \in {"plain", "canceled"}
          \/ pc' = "idle"
      BY <2>3 DEF Cancel, Timeout, Leave, Return
    <3>3. job # NoJob => job \in Jobs
      BY DEF TypeOK
    <3>4. UNCHANGED job \/ (job # NoJob /\ job' = [job EXCEPT !.canceled = TRUE])
      BY <2>3 DEF Cancel, Timeout, Leave, IdsExist
    <3>5. ClosureInv'
      <4>1. CASE UNCHANGED job
        BY <3>1, <4>1 DEF ClosureInv
      <4>2. CASE job # NoJob /\ job' = [job EXCEPT !.canceled = TRUE]
        <5>1. job'.tx = job.tx /\ job'.step = job.step
          BY <3>3, <4>2 DEF Jobs
        <5>. QED
          BY <3>1, <4>2, <5>1 DEF ClosureInv
      <4>. QED
        BY <3>4, <4>1, <4>2
    <3>6. CallerInv'
      BY <3>1, <3>2 DEF CallerInv
    <3>. QED
      BY <3>1, <3>5, <3>6
  <2>4. CASE Settle
    <3>1. /\ pc = "settle" /\ pc' \in {"idle", "retry"} /\ mine \in 1..made
          /\ UNCHANGED <<mine, job, sent>>
      BY <2>4 DEF Settle, Return, IdsExist
    <3>2. CASE UNCHANGED senderVars
      BY <3>1, <3>2 DEF ClosureInv, CallerInv
    <3>3. CASE ~UNCHANGED senderVars
      \* Only an error of a closure that has ended makes Settle call finish.
      <4>1. /\ Rule(mine, "failed") /\ tx[mine].status = "open"
            /\ err \in {"permanent", "auth"}
        BY <2>4, <3>3 DEF Settle
      <4>2. job = NoJob
        BY <3>1, <4>1 DEF CallerInv
      <4>3. \A j \in sent : (tx[j].frame = tx[mine].frame /\ tx[j].status = "open")
                               => j = mine
        BY <3>1 DEF CallerInv
      <4>4. (SentCommitted /\ UncertainCommitted /\ OpenKept /\ FailedBlocked)'
        BY <2>0, <3>1, <4>1, <4>3, RuleEffect
      <4>5. ClosureInv' /\ CallerInv'
        BY <3>1, <4>2 DEF ClosureInv, CallerInv
      <4>. QED
        BY <4>4, <4>5
    <3>. QED
      BY <3>2, <3>3
  <2>5. CASE StartJob
    <3>1. /\ pc = "queued" /\ pc' = "running" /\ job'.tx = mine
          /\ job'.step = "target"
          /\ UNCHANGED <<tx, made, uncertain, blocked, mine, sent>>
      BY <2>5 DEF StartJob
    <3>2. ClosureInv' /\ CallerInv'
      BY <3>1 DEF ClosureInv, CallerInv
    <3>. QED
      BY <3>1, <3>2
  \* A closure that returns without a ruling.
  <2>6. ASSUME NEW e \in Errors, EndJob(e), UNCHANGED senderVars, sent' = sent,
               job # NoJob
        PROVE  CommitInv'
    <3>1. /\ job' = NoJob /\ UNCHANGED mine
          /\ pc' \in {pc, "settle"}
          /\ pc' = "settle" => (pc = "running" \/ pc = "settle")
      BY <2>6 DEF EndJob, IdsExist, NoJob
    <3>2. ClosureInv' /\ CallerInv'
      BY <2>6, <3>1 DEF ClosureInv, CallerInv
    <3>. QED
      BY <2>6, <3>2
  \* A closure that rules on its transaction: it is the caller's, or it is
  \* waiting for the answer to a COMMIT.
  <2>7. ASSUME NEW e \in Errors, EndJob(e), NEW v \in {"ok", "failed"},
               Rule(job.tx, v), sent' = sent, job # NoJob,
               tx[job.tx].committed,
               ~job.canceled \/ job.step = "await"
        PROVE  CommitInv'
    <3>1. /\ job.tx \in 1..made /\ job' = NoJob /\ UNCHANGED mine
          /\ pc' \in {pc, "settle"}
          /\ pc' = "settle" => (pc = "running" \/ pc = "settle")
          /\ pc' # "running"
          /\ pc = "running" => job.tx = mine
          /\ ~job.canceled => (pc = "running" /\ pc' = "settle")
      BY <2>7 DEF EndJob, IdsExist, NoJob
    <3>2. \A j \in sent : (tx[j].frame = tx[job.tx].frame /\ tx[j].status = "open")
                             => j = job.tx
      <4>1. CASE ~job.canceled
        BY <3>1, <4>1 DEF CallerInv
      <4>2. CASE job.step = "await"
        BY <2>7, <4>2 DEF ClosureInv
      <4>. QED
        BY <2>7, <4>1, <4>2
    <3>3. (SentCommitted /\ UncertainCommitted /\ OpenKept /\ FailedBlocked)'
      BY <2>0, <2>7, <3>1, <3>2, RuleEffect
    <3>4. ClosureInv'
      BY <3>1 DEF ClosureInv
    <3>5. CallerInv'
      <4>1. pc' = "queued" => (pc = "queued" /\ mine \in 1..made /\ job.step = "await")
        BY <2>7, <3>1 DEF IdsExist
      <4>2. ASSUME pc' = "queued", ~tx'[mine].committed
            PROVE  /\ tx'[mine].status = "open" /\ tx'[mine].frame \notin blocked'
                   /\ \A j \in sent : tx'[j].frame = tx'[mine].frame
                                        => tx'[j].status = "ok"
        <5>1. /\ tx[mine].status = "open" /\ tx[mine].frame \notin blocked
              /\ \A j \in sent : tx[j].frame = tx[mine].frame => tx[j].status = "ok"
          BY <2>7, <3>1, <4>1, <4>2, RuleEffect DEF CallerInv
        <5>2. job.tx \in sent /\ tx[job.tx].status = "open"
          BY <2>7, <4>1, <4>2 DEF ClosureInv
        <5>3. tx[job.tx].frame # tx[mine].frame /\ job.tx # mine
          BY <5>1, <5>2
        <5>. QED
          BY <2>7, <3>1, <4>1, <4>2, <5>1, <5>3, RuleEffect
      <4>3. pc' \in {"queued", "settle"} =>
              \A j \in sent : (tx'[j].frame = tx'[mine].frame /\ tx'[j].status = "open")
                                  => j = mine
        BY <2>7, <3>1, RuleEffect DEF CallerInv, IdsExist
      <4>. QED
        BY <2>7, <3>1, <4>2, <4>3 DEF CallerInv
    <3>. QED
      BY <3>3, <3>4, <3>5
  \* A closure that goes on to a step that asks nothing new of its transaction.
  <2>8. ASSUME job # NoJob, job' # NoJob, job'.tx = job.tx,
               job'.canceled <=> job.canceled,
               UNCHANGED <<tx, made, uncertain, blocked, pc, mine, err, sent>>,
               \/ job'.step \in {"lost", "target"}
               \/ job'.step = "query" /\ tx[job.tx].committed
               \/ job'.step \in {"upload", "mark"} /\ ~tx[job.tx].committed
        PROVE  CommitInv'
    BY <2>8 DEF ClosureInv, CallerInv
  <2>9. CASE Abort \/ Unauthentic
    <3>1. job # NoJob /\ \E e \in Errors : EndJob(e)
      BY <2>9 DEF Abort, Unauthentic, Errors, NoJob
    <3>. QED
      BY <2>6, <2>9, <3>1 DEF Abort, Unauthentic
  <2>10. CASE Target
    <3>1. job # NoJob /\ job \in Jobs
      BY <2>10 DEF Target, NoJob, TypeOK
    <3>2. CASE \E e \in Errors : EndJob(e) /\ UNCHANGED senderVars
      BY <2>6, <2>10, <3>1, <3>2 DEF Target
    <3>3. CASE EndJob("permanent") /\ Rule(job.tx, "failed") /\ tx[job.tx].committed
      BY <2>7, <2>10, <3>1, <3>3 DEF Target, Errors
    <3>4. ASSUME NEW s \in {"query", "upload"},
                 job' = [job EXCEPT !.step = s, !.target = epoch],
                 s = "query" => tx[job.tx].committed,
                 s = "upload" => ~tx[job.tx].committed,
                 UNCHANGED <<senderVars, callerVars, receiving>>
          PROVE  CommitInv'
      <4>1. /\ job' # NoJob /\ job'.tx = job.tx /\ job'.step = s
            /\ job'.canceled <=> job.canceled
        <5>1. epoch \in 0..MaxEpoch /\ s \in Steps
          BY DEF TypeOK, Steps
        <5>. QED
          BY <3>1, <3>4, <5>1, StepTyped
      <4>. QED
        BY <2>8, <2>10, <3>1, <3>4, <4>1 DEF Target
    <3>. QED
      BY <2>10, <3>2, <3>3, <3>4 DEF Target, Errors
  <2>11. CASE Answer
    <3>1. job # NoJob /\ sent' = sent
      BY <2>11 DEF Answer, NoJob
    <3>2. tx[job.tx].committed /\ (~job.canceled \/ job.step = "await")
      BY <2>11, <3>1 DEF Answer, ClosureInv
    <3>3. CASE \E e \in Errors : EndJob(e) /\ UNCHANGED senderVars
      BY <2>6, <3>1, <3>3
    <3>4. CASE \E e \in Errors, v \in {"ok", "failed"} : EndJob(e) /\ Rule(job.tx, v)
      BY <2>7, <3>1, <3>2, <3>4
    <3>. QED
      BY <2>11, <3>3, <3>4 DEF Answer, Receipt, Errors
  <2>12. CASE Upload
    <3>1. job # NoJob /\ job \in Jobs /\ ~tx[job.tx].committed
      BY <2>12 DEF Upload, NoJob, TypeOK, ClosureInv
    <3>2. CASE \E e \in Errors : EndJob(e)
      BY <2>6, <2>12, <3>1, <3>2 DEF Upload
    <3>3. CASE job' = [job EXCEPT !.step = "mark"] /\ UNCHANGED callerVars
      <4>1. /\ job' # NoJob /\ job'.tx = job.tx /\ job'.step = "mark"
            /\ job'.canceled <=> job.canceled
        <5>1. 0 \in 0..MaxEpoch /\ "mark" \in Steps
          BY DEF Steps
        <5>. QED
          BY <3>1, <3>3, <5>1, StepTyped
      <4>. QED
        BY <2>8, <2>12, <3>1, <3>3, <4>1 DEF Upload
    <3>. QED
      BY <2>12, <3>2, <3>3 DEF Upload, Errors
  <2>13. CASE Mark
    <3>1. /\ job # NoJob /\ job \in Jobs /\ job.tx \in 1..made
          /\ ~tx[job.tx].committed /\ tx[job.tx].status = "open" /\ Alone(job.tx)
      <4>1. job # NoJob /\ job.step = "mark"
        BY <2>13 DEF Mark, NoJob
      <4>2. job \in Jobs /\ job.tx \in 1..made
        BY <4>1 DEF TypeOK, IdsExist
      <4>. QED
        BY <4>1, <4>2 DEF ClosureInv
    <3>2. /\ job' # NoJob /\ job'.tx = job.tx /\ job'.step = "commit"
      <4>1. 0 \in 0..MaxEpoch /\ "commit" \in Steps
        BY DEF Steps
      <4>2. job' = [job EXCEPT !.step = "commit"]
        BY <2>13 DEF Mark
      <4>. QED
        BY <3>1, <4>1, <4>2, StepTyped
    <3>3. UNCHANGED <<made, blocked, pc, mine, err, sent>>
      BY <2>13 DEF Mark
    <3>4. SentCommitted'
      BY <2>13, <3>3, MarkEffect
    <3>5. UncertainCommitted'
      BY <2>0, <2>13, <3>1, <3>3, MarkEffect
    <3>6. OpenKept'
      BY <2>0, <2>13, <3>1, <3>3, MarkEffect
    <3>7. FailedBlocked'
      BY <2>13, <3>3, MarkEffect
    <3>8. ClosureInv'
      BY <2>0, <2>13, <3>1, <3>2, <3>3, MarkEffect DEF ClosureInv
    <3>9. CallerInv'
      <4>1. pc # "idle" => mine \in 1..made
        BY DEF IdsExist
      <4>2. (pc = "settle" /\ err \in {"auth", "permanent"}) => job' = NoJob
        BY <3>1 DEF CallerInv
      <4>. QED
        BY <2>13, <3>3, <4>1, <4>2, MarkEffect DEF CallerInv
    <3>. QED
      BY <3>4, <3>5, <3>6, <3>7, <3>8, <3>9
  <2>14. CASE Commit
    <3>1. /\ job # NoJob /\ job \in Jobs /\ job.tx \in 1..made
          /\ pc = "running" /\ mine = job.tx
      BY <2>14 DEF Commit, NoJob, TypeOK, IdsExist
    <3>2. /\ tx[job.tx].committed /\ tx[job.tx].status = "open" /\ Alone(job.tx)
          /\ uncertain[tx[job.tx].frame] = job.tx
      BY <2>14, <3>1 DEF Commit, ClosureInv
    <3>3. job'.tx = job.tx /\ job'.step = "await"
      <4>1. 0 \in 0..MaxEpoch /\ "await" \in Steps
        BY DEF Steps
      <4>2. job' = [job EXCEPT !.step = "await"]
        BY <2>14 DEF Commit
      <4>. QED
        BY <3>1, <4>1, <4>2, StepTyped
    <3>4. /\ UNCHANGED <<tx, made, uncertain, blocked, pc, mine, err>>
          /\ sent' = sent \cup {job.tx}
      BY <2>14 DEF Commit
    <3>5. (SentCommitted /\ UncertainCommitted /\ OpenKept /\ FailedBlocked)'
      BY <3>1, <3>2, <3>4
    <3>6. ClosureInv'
      BY <3>2, <3>3, <3>4 DEF ClosureInv
    <3>7. CallerInv'
      BY <3>1, <3>2, <3>4 DEF CallerInv
    <3>. QED
      BY <3>5, <3>6, <3>7
  <2>15. CASE LoseLink \/ Restart
    <3>1. UNCHANGED <<tx, made, uncertain, blocked, pc, mine, err, sent>>
      BY <2>15 DEF LoseLink, Restart
    <3>2. CASE UNCHANGED job
      BY <3>1, <3>2 DEF ClosureInv, CallerInv
    <3>3. CASE job # NoJob /\ job' = [job EXCEPT !.step = "lost"]
      <4>1. job \in Jobs /\ 0 \in 0..MaxEpoch /\ "lost" \in Steps
        BY <3>3 DEF TypeOK, Steps
      <4>. QED
        BY <2>8, <3>1, <3>3, <4>1, StepTyped
    <3>. QED
      BY <2>15, <3>2, <3>3 DEF LoseLink, Restart
  <2>16. ASSUME NEW ok \in BOOLEAN, Display(ok) PROVE CommitInv'
    BY <2>16 DEF Display, ClosureInv, CallerInv
  <2>17. CASE UNCHANGED vars
    BY <2>17 DEF vars, ClosureInv, CallerInv
  <2>. QED
    BY <2>1, <2>2, <2>3, <2>4, <2>5, <2>9, <2>10, <2>11, <2>12, <2>13, <2>14,
       <2>15, <2>16, <2>17 DEF Next, Closure
<1>. QED
  BY <1>1, <1>2, TypeInvKept, PTL DEF Spec

-----------------------------------------------------------------------------
\* An open request whose COMMIT may have left is the one the next Send for its
\* image finds, so its receipt is asked for and no COMMIT is repeated.
THEOREM OpenRequestIsFound == Spec => []OpenRequestFound
<1>1. TypeOK /\ CommitInv => OpenRequestFound
  BY BoundsAssumption
     DEF TypeOK, CommitInv, SentCommitted, OpenKept, OpenRequestFound, Known, Ids
<1>. QED
  BY <1>1, TypeInvKept, CommitInvKept, PTL

\* Every step that lets a COMMIT leave does so when no earlier request for the
\* image is open or failed.
THEOREM CommitIsSafe == Spec => CommitsOnlyAfterSuccess
<1>1. TypeOK /\ IdsExist /\ CommitInv /\ [Next]_vars =>
        [\A i \in sent' \ sent : \A j \in Ids \ {i} :
            (j \in sent /\ tx[j].frame = tx[i].frame) => tx[j].status = "ok"]_vars
  <2> SUFFICES ASSUME TypeOK, IdsExist, CommitInv, [Next]_vars,
                      NEW i \in sent' \ sent, NEW j \in sent,
                      tx[j].frame = tx[i].frame
               PROVE  tx[j].status = "ok"
    OBVIOUS
  <2>1. sent' = sent \/ Commit
    BY DEF Next, Closure, Send, PrepareExplicitPush, Cancel, Timeout, Leave, Settle,
           StartJob, Abort, Unauthentic, Target, Upload, Mark, Answer, LoseLink,
           Display, Restart, vars
  <2>2. job # NoJob /\ i = job.tx /\ job.step = "commit"
    BY <2>1 DEF Commit, NoJob
  <2>. QED
    BY <2>2 DEF CommitInv, ClosureInv, Alone
<1>. QED
  BY <1>1, TypeInvKept, CommitInvKept, PTL DEF Spec, CommitsOnlyAfterSuccess

\* A frame whose request failed is blocked, and no upload of it begins again.
THEOREM BlockedIsNotSent == Spec => BlockedStaysOff
<1>1. TypeOK /\ IdsExist /\ CommitInv /\ [Next]_vars =>
        [\A i \in 1..made :
          (tx[i].status = "failed" /\ receiving' # receiving /\ receiving' # 0)
              => tx[receiving'].frame # tx[i].frame]_vars
  <2> SUFFICES ASSUME TypeOK, IdsExist, CommitInv, [Next]_vars, NEW i \in 1..made,
                      tx[i].status = "failed", receiving' # receiving, receiving' # 0
               PROVE  tx[receiving'].frame # tx[i].frame
    OBVIOUS
  <2>1. Upload /\ receiving' = job.tx
    <3>1. ~Abort /\ ~Unauthentic /\ ~Target /\ ~Answer
      BY DEF Abort, Unauthentic, Target, Answer, Receipt, EndJob
    <3>2. Upload
      BY <3>1 DEF Next, Closure, Send, PrepareExplicitPush, Cancel, Timeout, Leave,
             Settle, StartJob, Mark, Commit, LoseLink, Display, Restart, vars,
             deviceVars
    <3>. QED
      BY <3>2 DEF Upload, EndJob
  <2>2. /\ job # NoJob /\ job.tx = mine /\ pc = "running"
        /\ ~tx[job.tx].committed
    BY <2>1 DEF Upload, NoJob, IdsExist, CommitInv, ClosureInv
  <2>3. tx[mine].frame \notin blocked
    BY <2>2 DEF CommitInv, CallerInv
  <2>. QED
    BY <2>1, <2>2, <2>3 DEF CommitInv, FailedBlocked
<1>. QED
  BY <1>1, TypeInvKept, CommitInvKept, PTL DEF Spec, BlockedStaysOff
-----------------------------------------------------------------------------
\* A success is on the panel's record before anybody hears of it: the
\* application's receipt, then the transaction, then the answer of Send.
DrawnInv ==
    /\ \A r \in receipts : r.ok => r.id \in drawn
    /\ \A i \in 1..made : tx[i].status = "ok" => i \in drawn
    /\ SuccessMeansDrawn

LEMMA DrawnInvKept == Spec => []DrawnInv
<1> USE DEF senderVars, callerVars, deviceVars, envVars, SuccessMeansDrawn
<1>1. Init => DrawnInv
  BY DEF Init, DrawnInv
<1>2. TypeOK /\ IdsExist /\ DrawnInv /\ [Next]_vars => DrawnInv'
  <2> SUFFICES ASSUME TypeOK, IdsExist, DrawnInv, [Next]_vars PROVE DrawnInv'
    OBVIOUS
  <2> USE DEF DrawnInv
  <2>1. ASSUME NEW f \in Frames, Send(f) PROVE DrawnInv'
    <3>0. UNCHANGED <<receipts, drawn>>
      BY <2>1 DEF Send
    <3>1. CASE f \in blocked
      BY <2>1, <3>0, <3>1 DEF Send, Return
    <3>2. CASE f \notin blocked /\ ~Reusable(Known(f))
      <4>1. /\ made' = made + 1 /\ answer' = "none" /\ made + 1 \in Ids
            /\ tx' = [tx EXCEPT ![made + 1] = Opened(f)]
        BY <2>1, <3>2, BoundsAssumption DEF Send, TypeOK, Ids
      <4>2. /\ tx'[made + 1].status = "open"
            /\ \A i \in 1..made : tx'[i] = tx[i]
        BY <4>1, BoundsAssumption DEF TypeOK, Ids, Opened
      <4>. QED
        BY <3>0, <4>1, <4>2, BoundsAssumption DEF TypeOK
    <3>3. CASE f \notin blocked /\ Reusable(Known(f))
      <4>1. Known(f) \in 1..made
        BY <3>3 DEF Reusable, Known, TypeOK
      <4>2. /\ UNCHANGED <<tx, made>> /\ mine' = Known(f)
            /\ answer' \in {"none", tx[Known(f)].status}
        BY <2>1, <3>3 DEF Send, Return
      <4>. QED
        BY <3>0, <4>1, <4>2
    <3>. QED
      BY <3>1, <3>2, <3>3
  <2>2. ASSUME NEW f \in Frames, PrepareExplicitPush(f) PROVE DrawnInv'
    BY <2>2 DEF PrepareExplicitPush
  <2>3. CASE Cancel \/ Timeout
    BY <2>3 DEF Cancel, Timeout, Leave, Return
  <2>4. CASE Settle
    <3>1. /\ pc = "settle" /\ mine \in 1..made
          /\ UNCHANGED <<mine, receipts, drawn>>
      BY <2>4 DEF Settle, IdsExist
    <3>2. \/ UNCHANGED senderVars /\ answer' = tx[mine].status
          \/ answer' # "ok" /\ (UNCHANGED senderVars \/ Rule(mine, "failed"))
      BY <2>4 DEF Settle, Return
    <3>3. CASE UNCHANGED senderVars
      BY <3>1, <3>2, <3>3
    <3>4. CASE answer' # "ok" /\ Rule(mine, "failed")
      BY <3>1, <3>4, RuleEffect
    <3>. QED
      BY <3>2, <3>3, <3>4
  <2>5. ASSUME NEW e \in Errors, EndJob(e), UNCHANGED <<receipts, drawn>>,
               \/ UNCHANGED senderVars
               \/ \E v \in {"ok", "failed"} :
                     /\ Rule(job.tx, v) /\ job # NoJob
                     /\ v = "ok" => job.tx \in drawn
        PROVE  DrawnInv'
    <3>1. UNCHANGED <<mine, answer>>
      BY <2>5 DEF EndJob
    <3>2. CASE UNCHANGED senderVars
      BY <2>5, <3>1, <3>2
    <3>3. ASSUME NEW v \in {"ok", "failed"}, Rule(job.tx, v), job # NoJob,
                 v = "ok" => job.tx \in drawn
          PROVE  DrawnInv'
      <4>1. job.tx \in 1..made
        BY <3>3 DEF IdsExist
      <4>. QED
        BY <2>5, <3>1, <3>3, <4>1, RuleEffect
    <3>. QED
      BY <2>5, <3>2, <3>3
  <2>6. CASE Abort \/ Unauthentic
    <3>1. \E e \in Errors : EndJob(e)
      BY <2>6 DEF Abort, Unauthentic, Errors
    <3>. QED
      BY <2>5, <2>6, <3>1 DEF Abort, Unauthentic
  <2>7. CASE Target \/ Upload
    <3>1. UNCHANGED <<receipts, drawn>> /\ job # NoJob
      BY <2>7 DEF Target, Upload, NoJob
    <3>2. CASE \E e \in Errors : EndJob(e)
      <4>1. UNCHANGED senderVars \/ Rule(job.tx, "failed")
        BY <2>7 DEF Target, Upload
      <4>. QED
        BY <2>5, <3>1, <3>2, <4>1
    <3>3. CASE UNCHANGED <<senderVars, callerVars>>
      BY <3>1, <3>3
    <3>. QED
      BY <2>7, <3>2, <3>3 DEF Target, Upload, Errors
  <2>8. CASE Answer
    <3>1. UNCHANGED <<receipts, drawn>> /\ job # NoJob
      BY <2>8 DEF Answer, NoJob
    <3>2. \E e \in Errors :
            /\ EndJob(e)
            /\ \/ UNCHANGED senderVars
               \/ \E v \in {"ok", "failed"} :
                     /\ Rule(job.tx, v)
                     /\ v = "ok" => job.tx \in drawn
      BY <2>8 DEF Answer, Receipt, Errors
    <3>. QED
      BY <2>5, <3>1, <3>2
  <2>9. CASE Mark
    <3>1. UNCHANGED <<made, receipts, drawn, mine, answer>>
      BY <2>9 DEF Mark
    <3>. QED
      BY <2>9, <3>1, MarkEffect
  <2>10. ASSUME NEW ok \in BOOLEAN, Display(ok) PROVE DrawnInv'
    <3>1. UNCHANGED <<tx, made, mine, answer>> /\ drawn \subseteq drawn'
      BY <2>10 DEF Display
    <3>2. ASSUME NEW r \in receipts', r.ok PROVE r.id \in drawn'
      <4>1. r \in receipts \/ r = [id |-> processing, ok |-> ok]
        BY <2>10 DEF Display, Newest
      <4>. QED
        BY <2>10, <3>1, <3>2, <4>1 DEF Display
    <3>. QED
      BY <3>1, <3>2
  <2>11. CASE StartJob \/ Commit \/ LoseLink \/ Restart \/ UNCHANGED vars
    BY <2>11 DEF StartJob, Commit, LoseLink, Restart, vars
  <2>. QED
    BY <2>1, <2>2, <2>3, <2>4, <2>6, <2>7, <2>8, <2>9, <2>10, <2>11 DEF Next, Closure
<1>. QED
  BY <1>1, <1>2, TypeInvKept, PTL DEF Spec

\* Send answers with success only after the panel displayed its request.
THEOREM SuccessIsDrawn == Spec => []SuccessMeansDrawn
<1>1. DrawnInv => SuccessMeansDrawn
  BY DEF DrawnInv
<1>. QED
  BY <1>1, DrawnInvKept, PTL

-----------------------------------------------------------------------------
(* The refinement of OneDisplay.  What the sender may still commit is the    *)
(* newest transaction, and what the application displays is the newest       *)
(* request it was sent, not displayed before.                                *)
OnceInv ==
    /\ drawn \subseteq sent
    /\ processing # 0 => /\ processing \in sent \ drawn
                         /\ \A j \in sent : j <= processing
    /\ (pc \in {"queued", "running"} /\ ~tx[mine].committed) => mine = made
    /\ (pc = "running" /\ job.step = "commit") =>
          mine = made /\ tx[mine].frame \notin blocked

\* The closure whose COMMIT may leave is the one its caller waits for.
LEMMA CommitOfCaller ==
    ASSUME TypeOK, IdsExist, CommitInv, OnceInv, Commit
    PROVE  /\ job.tx = mine /\ mine = made /\ mine \in 1..made \ sent
           /\ tx[mine].frame \notin blocked /\ tx[mine].status = "open"
           /\ \A j \in sent : j \in 1..made /\ j < mine
           /\ Alone(mine)
<1>1. job # NoJob /\ pc = "running" /\ job.step = "commit" /\ job.tx = mine
  BY DEF Commit, NoJob, IdsExist
<1>2. mine = made /\ tx[mine].frame \notin blocked /\ mine \in 1..made
  BY <1>1 DEF OnceInv, IdsExist
<1>3. mine \notin sent /\ tx[mine].status = "open" /\ Alone(mine)
  BY <1>1 DEF CommitInv, ClosureInv
<1>4. \A j \in sent : j \in 1..made /\ j < mine
  BY <1>2, <1>3 DEF CommitInv, SentCommitted, TypeOK
<1>. QED
  BY <1>1, <1>2, <1>3, <1>4

LEMMA OnceInvKept == Spec => []OnceInv
<1> USE BoundsAssumption
    DEF senderVars, callerVars, deviceVars, envVars, Ids, OnceInv
<1>1. Init => OnceInv
  BY DEF Init
<1>2. TypeOK /\ IdsExist /\ CommitInv /\ OnceInv /\ [Next]_vars => OnceInv'
  <2> SUFFICES ASSUME TypeOK, IdsExist, CommitInv, OnceInv, [Next]_vars PROVE OnceInv'
    OBVIOUS
  <2>0. \A i \in sent : i \in 1..made /\ tx[i].committed
    BY DEF CommitInv, SentCommitted
  <2>1. ASSUME NEW f \in Frames, Send(f) PROVE OnceInv'
    <3>0. UNCHANGED <<sent, drawn, processing, job, blocked>> /\ pc' # "running"
      BY <2>1 DEF Send, Return
    <3>1. CASE f \in blocked
      BY <2>1, <3>0, <3>1 DEF Send, Return
    <3>2. CASE f \notin blocked /\ ~Reusable(Known(f))
      BY <2>1, <3>0, <3>2 DEF Send
    <3>3. CASE f \notin blocked /\ Reusable(Known(f))
      <4>1. pc' = "queued" => tx[mine'].committed /\ UNCHANGED tx
        BY <2>1, <3>3 DEF Send, Return, Reusable
      <4>. QED
        BY <3>0, <4>1
    <3>. QED
      BY <3>1, <3>2, <3>3
  <2>2. ASSUME NEW f \in Frames, PrepareExplicitPush(f) PROVE OnceInv'
    BY <2>2 DEF PrepareExplicitPush
  <2>3. CASE Cancel \/ Timeout
    BY <2>3 DEF Cancel, Timeout, Leave, Return
  <2>4. CASE Settle
    BY <2>4 DEF Settle, Return
  <2>5. CASE StartJob
    BY <2>5 DEF StartJob
  \* A closure that ends leaves nobody running, and touches no committed flag.
  <2>6. ASSUME NEW e \in Errors, EndJob(e), job # NoJob,
               UNCHANGED <<sent, drawn, processing>>,
               UNCHANGED senderVars \/ \E v \in {"ok", "failed"} : Rule(job.tx, v)
        PROVE  OnceInv'
    <3>1. UNCHANGED mine /\ pc' # "running" /\ (pc' = "queued" => pc = "queued")
      BY <2>6 DEF EndJob, IdsExist
    <3>2. CASE UNCHANGED senderVars
      BY <2>6, <3>1, <3>2
    <3>3. ASSUME NEW v \in {"ok", "failed"}, Rule(job.tx, v) PROVE OnceInv'
      <4>1. job.tx \in 1..made
        BY <2>6 DEF IdsExist
      <4>2. /\ UNCHANGED made
            /\ \A j \in 1..made : tx'[j].committed = tx[j].committed
        BY <3>3, <4>1, RuleEffect
      <4>3. pc' = "queued" => mine \in 1..made
        BY <3>1 DEF IdsExist
      <4>. QED
        BY <2>6, <3>1, <4>2, <4>3
    <3>. QED
      BY <2>6, <3>2, <3>3
  <2>7. CASE Abort \/ Unauthentic
    <3>1. \E e \in Errors : EndJob(e)
      BY <2>7 DEF Abort, Unauthentic, Errors
    <3>2. job # NoJob /\ UNCHANGED <<senderVars, sent, drawn, processing>>
      BY <2>7 DEF Abort, Unauthentic, NoJob
    <3>. QED
      BY <2>6, <3>1, <3>2
  <2>8. CASE Target \/ Upload
    <3>1. UNCHANGED <<sent, drawn, processing>> /\ job # NoJob
      BY <2>8 DEF Target, Upload, NoJob
    <3>2. CASE \E e \in Errors : EndJob(e)
      <4>1. UNCHANGED senderVars \/ Rule(job.tx, "failed")
        BY <2>8 DEF Target, Upload
      <4>. QED
        BY <2>6, <3>1, <3>2, <4>1
    <3>3. CASE /\ UNCHANGED <<senderVars, callerVars>> /\ job \in Jobs
               /\ \/ \E s \in {"query", "upload"}, t \in 0..MaxEpoch :
                        job' = [job EXCEPT !.step = s, !.target = t]
                  \/ job' = [job EXCEPT !.step = "mark"]
      <4>1. job'.step # "commit"
        BY <3>3 DEF Jobs
      <4>. QED
        BY <3>1, <3>3, <4>1
    <3>4. job \in Jobs /\ epoch \in 0..MaxEpoch
      BY <3>1 DEF TypeOK
    <3>. QED
      BY <2>8, <3>2, <3>3, <3>4 DEF Target, Upload, Errors
  <2>9. CASE Mark
    <3>1. /\ job # NoJob /\ job.tx \in 1..made
          /\ UNCHANGED <<made, sent, drawn, processing, pc, mine, blocked>>
      BY <2>9 DEF Mark, NoJob, IdsExist
    <3>2. CASE pc = "queued"
      <4>1. ~tx'[mine].committed => ~tx[mine].committed
        BY <2>9, <3>2, MarkEffect, Zenon DEF IdsExist
      <4>. QED
        BY <3>1, <3>2, <4>1
    <3>3. CASE pc = "running"
      <4>1. job.tx = mine /\ ~tx[mine].committed
        BY <2>9, <3>1, <3>3 DEF Mark, IdsExist, CommitInv, ClosureInv
      <4>2. tx[mine].frame \notin blocked /\ mine = made
        BY <3>3, <4>1 DEF CommitInv, CallerInv
      <4>3. tx'[mine].committed /\ tx'[mine].frame = tx[mine].frame
        BY <2>9, <3>1, <4>1, MarkEffect, Zenon
      <4>. QED
        BY <3>1, <3>3, <4>2, <4>3
    <3>. QED
      BY <3>1, <3>2, <3>3
  <2>10. CASE Commit
    <3>1. job'.step = "await"
      BY <2>10 DEF Commit, TypeOK, Jobs, NoJob
    <3>2. /\ sent' = sent \cup {job.tx} /\ processing' = job.tx
          /\ UNCHANGED <<senderVars, callerVars, drawn>>
      BY <2>10 DEF Commit
    <3>. QED
      BY <2>10, <3>1, <3>2, CommitOfCaller
  <2>11. CASE Answer
    <3>1. UNCHANGED <<sent, drawn, processing>> /\ job # NoJob
      BY <2>11 DEF Answer, NoJob
    <3>2. \E e \in Errors :
            /\ EndJob(e)
            /\ UNCHANGED senderVars \/ \E v \in {"ok", "failed"} : Rule(job.tx, v)
      BY <2>11 DEF Answer, Receipt, Errors
    <3>. QED
      BY <2>6, <3>1, <3>2
  <2>12. CASE LoseLink
    <3>1. job'.step = "lost" /\ UNCHANGED <<senderVars, callerVars, processing, drawn, sent>>
      BY <2>12 DEF LoseLink, TypeOK, Jobs
    <3>. QED
      BY <3>1
  <2>13. ASSUME NEW ok \in BOOLEAN, Display(ok) PROVE OnceInv'
    BY <2>13 DEF Display
  <2>14. CASE Restart
    <3>1. job' = job \/ (job \in Jobs /\ job' = [job EXCEPT !.step = "lost"])
      BY <2>14 DEF Restart, TypeOK
    <3>2. job' = job \/ job'.step = "lost"
      BY <3>1 DEF Jobs
    <3>3. /\ processing' = 0 /\ UNCHANGED <<senderVars, callerVars, sent>>
          /\ drawn' = drawn \/ (processing # 0 /\ drawn' = drawn \cup {processing})
      BY <2>14 DEF Restart
    <3>. QED
      BY <3>2, <3>3
  <2>15. CASE UNCHANGED vars
    BY <2>15 DEF vars
  <2>. QED
    BY <2>1, <2>2, <2>3, <2>4, <2>5, <2>7, <2>8, <2>9, <2>10, <2>11, <2>12, <2>13,
       <2>14, <2>15 DEF Next, Closure
<1>. QED
  BY <1>1, <1>2, TypeInvKept, CommitInvKept, PTL DEF Spec

\* Ids that no Send has used yet name nothing.
Unused == \A i \in Ids : i > made => tx[i] = NoTransaction

LEMMA UnusedKept == Spec => []Unused
<1> USE BoundsAssumption DEF senderVars, Ids
<1>1. Init => Unused
  BY DEF Init, Unused
<1>2. TypeOK /\ IdsExist /\ Unused /\ [Next]_vars => Unused'
  <2> SUFFICES ASSUME TypeOK, IdsExist, Unused, [Next]_vars PROVE Unused'
    OBVIOUS
  <2>1. CASE UNCHANGED <<tx, made>>
    BY <2>1 DEF Unused
  <2>2. ASSUME NEW i \in 1..made, NEW r, tx' = [tx EXCEPT ![i] = r], UNCHANGED made
        PROVE  Unused'
    BY <2>2 DEF Unused, TypeOK
  <2>3. CASE made' = made + 1 /\ \E f \in Frames : tx' = [tx EXCEPT ![made + 1] = Opened(f)]
    <3>1. \A i \in Ids : i > made' => i > made /\ i # made + 1
      BY <2>3 DEF TypeOK
    <3>2. \A i \in Ids \ {made + 1} : tx'[i] = tx[i]
      BY <2>3 DEF TypeOK
    <3>. QED
      BY <3>1, <3>2 DEF Unused
  <2>4. CASE Settle \/ Target \/ Answer
    <3>1. UNCHANGED <<tx, made>> \/ \E i \in 1..made, v \in {"ok", "failed"} : Rule(i, v)
      BY <2>4 DEF Settle, Target, Answer, Receipt, IdsExist, NoJob
    <3>. QED
      BY <2>1, <2>2, <3>1 DEF Rule
  <2>5. CASE Mark
    <3>1. job.tx \in 1..made
      BY <2>5 DEF Mark, IdsExist, NoJob
    <3>2. /\ tx' = [tx EXCEPT ![job.tx] = [tx[job.tx] EXCEPT !.committed = TRUE,
                                                             !.target = job.target]]
          /\ UNCHANGED made
      BY <2>5 DEF Mark
    <3>. QED
      BY <2>2, <3>1, <3>2
  <2>6. ASSUME NEW f \in Frames, Send(f) PROVE Unused'
    <3>1. \/ UNCHANGED <<tx, made>>
          \/ made' = made + 1 /\ tx' = [tx EXCEPT ![made + 1] = Opened(f)]
      BY <2>6, Zenon DEF Send
    <3>2. CASE made' = made + 1 /\ tx' = [tx EXCEPT ![made + 1] = Opened(f)]
      BY <2>3, <3>2
    <3>. QED
      BY <2>1, <3>1, <3>2
  <2>7. ~(Settle \/ Target \/ Answer \/ Mark \/ \E f \in Frames : Send(f))
           => UNCHANGED <<tx, made>>
    BY DEF Next, Closure, PrepareExplicitPush, Cancel, Timeout, Leave, StartJob,
           Abort, Unauthentic, Upload, Commit, LoseLink, Display, Restart, vars
  <2>. QED
    BY <2>1, <2>4, <2>5, <2>6, <2>7
<1>. QED
  BY <1>1, <1>2, TypeInvKept, PTL DEF Spec

\* A step that leaves the requests and the panel alone is a stutter.
LEMMA OnceStutters ==
    ASSUME UNCHANGED <<tx, blocked, sent, drawn, panel>>
    PROVE  UNCHANGED Once!displayVars
BY DEF Once!displayVars

\* finish is a verdict.
LEMMA RuleRules ==
    ASSUME TypeOK, IdsExist, NEW i \in 1..made, NEW v \in {"ok", "failed"},
           Rule(i, v), v = "ok" => i \in drawn,
           UNCHANGED <<sent, drawn, panel>>
    PROVE  Once!Next
<1> USE BoundsAssumption
<1>1. i \in Ids /\ tx[i] \in Transaction /\ tx[i].frame \in Frames
  BY DEF TypeOK, Ids, IdsExist, Transaction
<1>2. \A j \in Ids : tx'[j].frame = tx[j].frame
  <2>1. tx' = [tx EXCEPT ![i] = [tx[i] EXCEPT !.status = v]]
    BY DEF Rule
  <2>2. [tx[i] EXCEPT !.status = v].frame = tx[i].frame
    BY <1>1 DEF Transaction
  <2>. QED
    BY <2>1, <2>2 DEF TypeOK
<1>3. \A j \in Ids : tx'[j].status = IF j = i THEN v ELSE tx[j].status
  <2>1. tx' = [tx EXCEPT ![i] = [tx[i] EXCEPT !.status = v]]
    BY DEF Rule
  <2>2. [tx[i] EXCEPT !.status = v].status = v
    BY <1>1 DEF Transaction
  <2>. QED
    BY <2>1, <2>2, <1>1 DEF TypeOK
<1>4. [j \in Ids |-> tx'[j].frame] = [j \in Ids |-> tx[j].frame]
  BY <1>2
<1>5. [j \in Ids |-> tx'[j].status] =
         [[j \in Ids |-> tx[j].status] EXCEPT ![i] = v]
  BY <1>1, <1>3
<1>6. CASE v = "ok"
  <2>1. UNCHANGED blocked
    BY <1>6 DEF Rule
  <2>2. Once!Succeed(i)
    BY <1>4, <1>5, <1>6, <2>1 DEF Once!Succeed
  <2>. QED
    BY <1>1, <2>2 DEF Once!Next
<1>7. CASE v = "failed"
  <2>1. blocked' = blocked \cup {tx[i].frame}
    BY <1>7 DEF Rule
  <2>2. Once!Fail(i)
    BY <1>1, <1>4, <1>5, <1>7, <2>1 DEF Once!Fail
  <2>. QED
    BY <1>1, <2>2 DEF Once!Next
<1>. QED
  BY <1>6, <1>7

\* The application draws the request it was sent last.
LEMMA DrawDraws ==
    ASSUME TypeOK, IdsExist, OnceInv, processing # 0,
           panel' = tx[processing].frame, drawn' = drawn \cup {processing},
           UNCHANGED <<tx, blocked, sent>>
    PROVE  Once!Next
<1>1. processing \in Ids /\ processing \in sent \ drawn /\ \A j \in sent : j <= processing
  BY BoundsAssumption DEF TypeOK, OnceInv, Ids
<1>2. Once!Draw(processing)
  BY <1>1 DEF Once!Draw
<1>. QED
  BY <1>1, <1>2 DEF Once!Next

LEMMA StepDisplays ==
    ASSUME TypeOK, IdsExist, CommitInv, DrawnInv, OnceInv, Unused, [Next]_vars
    PROVE  Once!Next \/ UNCHANGED Once!displayVars
<1> USE BoundsAssumption DEF senderVars, callerVars, deviceVars, envVars
<1>1. ASSUME NEW f \in Frames, Send(f)
      PROVE  Once!Next \/ UNCHANGED Once!displayVars
  <2>1. UNCHANGED <<blocked, sent, drawn, panel>>
    BY <1>1 DEF Send
  <2>2. CASE UNCHANGED tx
    BY <2>1, <2>2, OnceStutters
  <2>3. CASE f \notin blocked /\ made < MaxTx /\ tx' = [tx EXCEPT ![made + 1] = Opened(f)]
    <3>1. made + 1 \in Ids
      BY <2>3 DEF TypeOK, Ids
    <3>2. tx[made + 1] = NoTransaction
      BY <3>1 DEF Unused, TypeOK, Ids
    <3>3. /\ [j \in Ids |-> tx'[j].frame] = [[j \in Ids |-> tx[j].frame] EXCEPT ![made + 1] = f]
          /\ [j \in Ids |-> tx'[j].status] = [j \in Ids |-> tx[j].status]
      <4>1. tx'[made + 1].frame = f /\ tx'[made + 1].status = tx[made + 1].status
        BY <2>3, <3>1, <3>2 DEF TypeOK, Opened, NoTransaction
      <4>2. \A j \in Ids \ {made + 1} : tx'[j] = tx[j]
        BY <2>3 DEF TypeOK
      <4>. QED
        BY <3>1, <4>1, <4>2
    <3>4. Once!Ask(made + 1, f)
      BY <2>1, <2>3, <3>1, <3>2, <3>3 DEF Once!Ask, NoTransaction, Opened
    <3>. QED
      BY <3>1, <3>4 DEF Once!Next
  <2>. QED
    BY <1>1, <2>2, <2>3 DEF Send
<1>2. ASSUME NEW f \in Frames, PrepareExplicitPush(f) PROVE UNCHANGED Once!displayVars
  BY <1>2, OnceStutters DEF PrepareExplicitPush
<1>3. CASE Cancel \/ Timeout \/ StartJob \/ Abort \/ Unauthentic \/ Upload \/ LoseLink
  BY <1>3, OnceStutters
     DEF Cancel, Timeout, Leave, StartJob, Abort, Unauthentic, Upload, LoseLink
<1>4. CASE Settle \/ Target
  <2>1. UNCHANGED <<sent, drawn, panel>>
    BY <1>4 DEF Settle, Target
  <2>2. UNCHANGED senderVars \/ \E i \in 1..made : Rule(i, "failed")
    BY <1>4 DEF Settle, Target, IdsExist, NoJob
  <2>. QED
    BY <2>1, <2>2, OnceStutters, RuleRules
<1>5. CASE Answer
  <2>1. UNCHANGED <<sent, drawn, panel>> /\ job.tx \in 1..made
    BY <1>5 DEF Answer, IdsExist, NoJob
  <2>2. UNCHANGED senderVars
          \/ \E v \in {"ok", "failed"} : Rule(job.tx, v) /\ (v = "ok" => job.tx \in drawn)
    BY <1>5 DEF Answer, Receipt, DrawnInv
  <2>. QED
    BY <2>1, <2>2, OnceStutters, RuleRules
<1>6. CASE Mark
  <2>1. UNCHANGED <<made, blocked, sent, drawn, panel>> /\ job.tx \in 1..made
    BY <1>6 DEF Mark, IdsExist, NoJob
  <2>2. tx' = [tx EXCEPT ![job.tx] = [tx[job.tx] EXCEPT !.committed = TRUE,
                                                        !.target = job.target]]
    BY <1>6 DEF Mark
  <2>3. tx[job.tx] \in Transaction
    BY <2>1 DEF IdsExist
  <2>4. \A j \in Ids : tx'[j].frame = tx[j].frame /\ tx'[j].status = tx[j].status
    BY <2>2, <2>3 DEF TypeOK, Transaction
  <2>. QED
    BY <2>1, <2>4 DEF Once!displayVars
<1>7. CASE Commit
  <2>1. /\ sent' = sent \cup {job.tx}
        /\ UNCHANGED <<tx, blocked, drawn, panel>>
    BY <1>7 DEF Commit
  <2>2. job.tx \in Ids /\ tx[job.tx].frame # NoFrame
    BY <1>7, CommitOfCaller DEF IdsExist, Transaction, TypeOK, Ids
  <2>3. \A j \in sent : j \in Ids /\ j < job.tx
    BY <1>7, CommitOfCaller DEF TypeOK, Ids
  <2>4. tx[job.tx].status = "open" /\ tx[job.tx].frame \notin blocked /\ Alone(job.tx)
    BY <1>7, CommitOfCaller
  <2>5. Once!Commit(job.tx)
    BY <2>1, <2>2, <2>3, <2>4 DEF Once!Commit, Alone
  <2>. QED
    BY <2>2, <2>5 DEF Once!Next
<1>8. ASSUME NEW ok \in BOOLEAN, Display(ok)
      PROVE  Once!Next \/ UNCHANGED Once!displayVars
  <2>1. CASE ok
    BY <1>8, <2>1, DrawDraws DEF Display
  <2>2. CASE ~ok
    BY <1>8, <2>2, OnceStutters DEF Display
  <2>. QED
    BY <2>1, <2>2
<1>9. CASE Restart
  BY <1>9, DrawDraws, OnceStutters DEF Restart
<1>10. CASE UNCHANGED vars
  BY <1>10, OnceStutters DEF vars
<1>. QED
  BY <1>1, <1>2, <1>3, <1>4, <1>5, <1>6, <1>7, <1>8, <1>9, <1>10 DEF Next, Closure

\* Whatever is canceled, lost or restarted, every step of the sender and of the
\* application is a step that OneDisplay allows.
THEOREM OneDisplayImplemented == Spec => ImplementsOneDisplay
<1>1. Init => Once!Init
  BY DEF Init, Once!Init, NoTransaction, Opened
<1>2. TypeOK /\ IdsExist /\ CommitInv /\ DrawnInv /\ OnceInv /\ Unused /\ [Next]_vars
        => [Once!Next]_(Once!displayVars)
  BY StepDisplays
<1>. QED
  BY <1>1, <1>2, TypeInvKept, CommitInvKept, DrawnInvKept, OnceInvKept, UnusedKept, PTL
     DEF Spec, ImplementsOneDisplay, Once!Spec

\* The newest request that was drawn is the one on the panel.
PanelIsNewest ==
    drawn # {} => \E i \in drawn : panel = tx[i].frame /\ \A j \in drawn : j <= i

\* The panel never goes back to an image whose request is older than another one
\* that was drawn, however late the application finishes a display.
THEOREM PanelNeverGoesBack == Spec => []PanelIsNewest
<1>1. Init => PanelIsNewest
  BY DEF Init, PanelIsNewest
<1>2. TypeOK /\ IdsExist /\ CommitInv /\ DrawnInv /\ OnceInv /\ Unused /\ PanelIsNewest
        /\ [Next]_vars => PanelIsNewest'
  <2> SUFFICES ASSUME TypeOK, IdsExist, CommitInv, DrawnInv, OnceInv, Unused,
                      PanelIsNewest, [Next]_vars
               PROVE  PanelIsNewest'
    OBVIOUS
  <2> DEFINE image == [i \in Ids |-> tx[i].frame]
  <2>0. drawn \subseteq sent /\ sent \subseteq Ids /\ \A i \in drawn : image[i] # NoFrame
    <3>1. drawn \subseteq sent /\ sent \subseteq Ids
      BY DEF OnceInv, TypeOK
    <3>2. \A i \in sent : tx[i].frame \in Frames
      BY DEF CommitInv, SentCommitted, IdsExist, Transaction
    <3>. QED
      BY <3>1, <3>2, BoundsAssumption
  <2>1. ASSUME UNCHANGED <<drawn, panel>>, \A i \in drawn : image'[i] = image[i]
        PROVE  PanelIsNewest'
    <3>1. \A i \in drawn : tx'[i].frame = tx[i].frame
      BY <2>0, <2>1
    <3>. QED
      BY <2>1, <3>1 DEF PanelIsNewest
  <2>2. ASSUME NEW i \in Ids, Once!Draw(i) PROVE PanelIsNewest'
    <3>1. /\ drawn' = drawn \cup {i} /\ panel' = image[i] /\ image' = image
          /\ \A j \in drawn : j <= i
      BY <2>0, <2>2 DEF Once!Draw
    <3>2. panel' = tx'[i].frame /\ i <= i
      BY <3>1 DEF Ids
    <3>. QED
      BY <3>1, <3>2 DEF PanelIsNewest
  <2>3. ASSUME NEW i \in Ids,
               \/ \E f \in Frames : Once!Ask(i, f)
               \/ Once!Commit(i) \/ Once!Succeed(i) \/ Once!Fail(i)
        PROVE  PanelIsNewest'
    <3>1. /\ UNCHANGED <<drawn, panel>>
          /\ image' = image \/ (image[i] = NoFrame /\ \E f \in Frames : image' = [image EXCEPT ![i] = f])
      BY <2>3 DEF Once!Ask, Once!Commit, Once!Succeed, Once!Fail
    <3>2. \A j \in drawn : image'[j] = image[j]
      BY <2>0, <3>1
    <3>. QED
      BY <2>1, <3>1, <3>2
  <2>4. CASE UNCHANGED Once!displayVars
    BY <2>1, <2>4 DEF Once!displayVars
  <2>. QED
    BY <2>2, <2>3, <2>4, StepDisplays DEF Once!Next
<1>. QED
  BY <1>1, <1>2, TypeInvKept, CommitInvKept, DrawnInvKept, OnceInvKept, UnusedKept, PTL
     DEF Spec
=============================================================================
