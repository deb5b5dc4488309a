---------------------------- MODULE ConsoleBridge ----------------------------
(***************************************************************************)
(* The console of the daemon: consoleBridge of cmd/ai-quota-frame, the      *)
(* State of internal/console, and the image sender of main.go that shares   *)
(* their gate.                                                              *)
(*                                                                         *)
(* handle accepts one operation at a time, run executes it.  The device is  *)
(* not part of the model: it also changes by its buttons, its restarts and  *)
(* other clients of the session, so every reading may find any status, and  *)
(* a command may have been carried out or not whatever was answered.        *)
(***************************************************************************)
EXTENDS SlotPlan, Sequences

CONSTANTS
    Asked,     \* the requests that clients make
    Readings   \* the statuses that readings may find

ASSUME ConsoleAssumption == Asked \subseteq Requests /\ Readings \subseteq Statuses

VARIABLES
    jobs,       \* the channel of accepted requests
    operation,  \* Snapshot.Operation
    uncertain,  \* Snapshot.Transfer.Uncertain
    automatic,  \* Snapshot.Automatic, which is also whether pushes go on
    gate,       \* who holds the gate
    at,         \* control point of run and of what it executes
    job,        \* the request that run has taken
    device,     \* Snapshot.Device, for as long as the job works from it
    plan,       \* selectSlot, installPackage: slot, version and command
    sent,       \* what the job has sent or written so far
    known,      \* whether a reading has succeeded since
    result,     \* how the last operation ended
    pusher      \* control point of the sender of main.go

jobVars == <<job, device, plan, sent, known>>
vars == <<jobs, operation, uncertain, automatic, gate, at, jobVars, result,
          pusher>>

NoPlan == [slot |-> NoSlot, version |-> 0, command |-> "none"]

NoRequest ==
    [action |-> "none", slot |-> NoSlot, version |-> 0, confirmed |-> FALSE,
     package |-> 0, same |-> FALSE]

NoReading ==
    [listed |-> FALSE, active |-> NoSlot, previous |-> NoSlot,
     pending |-> NoSlot, versions |-> [s \in Slots |-> 0], loaded |-> NoSlot,
     running |-> 0, up |-> "down", trial |-> "none"]

Points ==
    {"idle", "gate", "begin", "check", "write", "push", "restage", "staged", "rollback",
     "rolled", "select", "selected", "install", "installed", "cancel",
     "cancelled", "remove", "removed", "read",
     "end"}

Commands == {"install", "activate", "switch", "rollback", "remove", "write"}

(* The channel never holds more than the one request that Operation stands
   for: the queue is never found full (console.go:160). *)
TypeOK ==
    /\ jobs \in {<<>>} \cup {<<r>> : r \in Asked}
    /\ operation \in {"none", "queued", "running"}
    /\ operation = "none" => jobs = <<>> /\ at = "idle"
    /\ uncertain \in BOOLEAN /\ automatic \in BOOLEAN
    /\ gate \in {"free", "run", "push"}
    /\ at \in Points
    /\ job \in IF at = "idle" THEN Asked \cup {NoRequest} ELSE Asked
    /\ device \in Readings \cup {NoReading}
    /\ plan \in [slot : Slots \cup {NoSlot}, version : Versions \cup {0},
                 command : {"none", "switch", "activate", "rollback", "restage",
                            "install"}]
    /\ sent \in Seq(Commands)
    /\ known \in BOOLEAN
    /\ result \in {"none", "ok", "failed"}
    /\ pusher \in {"idle", "gate", "sending"}

Init ==
    /\ jobs = <<>> /\ operation = "none"
    /\ uncertain = FALSE /\ automatic \in BOOLEAN
    /\ gate = "free" /\ at = "idle"
    /\ job = NoRequest /\ device = NoReading
    /\ plan = NoPlan /\ sent = <<>> /\ known = FALSE
    /\ result = "none" /\ pusher = "idle"

-----------------------------------------------------------------------------
(* handle: what it refuses changes nothing. *)

SetAutomatic(on) ==
    /\ automatic' = on
    /\ UNCHANGED <<jobs, operation, uncertain, gate, at, jobVars, result,
                   pusher>>

Enqueue(r) ==
    /\ IF jobs = <<>>
       THEN jobs' = <<r>> /\ operation' = "queued"
       ELSE operation' = "none" /\ UNCHANGED jobs
    /\ UNCHANGED <<uncertain, automatic, gate, at, jobVars, result,
                   pusher>>

\* Mutant: a request is not refused while an operation runs.
BugHandle(r) == Acceptable(r, uncertain) /\ Enqueue(r)

Handle(r) == operation = "none" /\ Acceptable(r, uncertain) /\ Enqueue(r)

-----------------------------------------------------------------------------
(* run. *)

handleVars == <<jobs, operation, automatic>>

\* execute returns; its error or success is kept.
Finish(how) ==
    /\ at' = "end" /\ result' = how
    /\ UNCHANGED <<jobs, operation, gate, job>>

GoTo(point) == at' = point /\ UNCHANGED <<jobs, operation, gate, job, result>>

Take ==
    /\ at = "idle" /\ jobs # <<>>
    /\ job' = Head(jobs) /\ jobs' = Tail(jobs)
    /\ at' = "gate"
    /\ UNCHANGED <<operation, uncertain, automatic, gate, device, plan, sent,
                   known, result, pusher>>

Acquire ==
    /\ at = "gate" /\ gate = "free"
    /\ gate' = "run" /\ operation' = "running" /\ at' = "begin"
    /\ UNCHANGED <<jobs, uncertain, automatic, jobVars, result,
                   pusher>>

FirstPoint(r) ==
    CASE r.action \in ReadActions -> "read"
      [] r.action \in USBWrites \cup PlainWrites -> "write"
      [] r.action = "push" -> "push"
      [] OTHER -> "check"

\* Nothing of a job remains when the next one begins.
Forget ==
    /\ job' = NoRequest /\ device' = NoReading
    /\ plan' = NoPlan /\ sent' = <<>> /\ known' = FALSE

\* Mutant: an operation ends without releasing the gate.
BugEnd ==
    /\ at = "end"
    /\ at' = "idle" /\ operation' = "none"
    /\ Forget
    /\ UNCHANGED <<jobs, uncertain, automatic, gate, result, pusher>>

End ==
    /\ at = "end"
    /\ at' = "idle" /\ operation' = "none" /\ gate' = "free"
    /\ Forget
    /\ UNCHANGED <<jobs, uncertain, automatic, result, pusher>>

\* The image before may have become uncertain while the request waited.
Refused == ~ValidExtra(job, uncertain) \/ ~Acceptable(job, uncertain)

\* Mutant: what handle has checked is not checked again.
BugBegin ==
    /\ at = "begin"
    /\ \/ GoTo(FirstPoint(job))
       \/ job.action \in {"install", "push"} /\ Finish("failed")
    /\ UNCHANGED <<uncertain, automatic, device, plan, sent, known, pusher>>

\* The package or picture may no longer be the one that was confirmed.
Begin ==
    /\ at = "begin"
    /\ \/ Refused /\ Finish("failed")
       \/ ~Refused /\ GoTo(FirstPoint(job))
       \/ job.action \in {"install", "push"} /\ Finish("failed")
    /\ UNCHANGED <<uncertain, automatic, device, plan, sent, known, pusher>>

\* Everything that leaves the device alone.
ReadOnly(d) ==
    /\ at = "read"
    /\ IF job.action \in {"status", "diagnose"}
       THEN device' = d /\ known' = TRUE
       ELSE UNCHANGED <<device, known>>
    /\ \E how \in {"ok", "failed"} : Finish(how)
    /\ UNCHANGED <<uncertain, automatic, plan, sent, pusher>>

\* readDevice has failed twice, or nobody is paired.
ReadFails ==
    /\ at \in {"check", "staged", "rolled", "selected", "installed",
               "cancelled", "removed", "read"}
    /\ Finish("failed")
    /\ UNCHANGED <<uncertain, automatic, device, plan, sent, known, pusher>>

Reads(d) == device' = d /\ known' = TRUE /\ UNCHANGED <<uncertain, automatic, sent, pusher>>

\* The first reading of a job, from which it is planned.
CheckSlot(d) ==
    /\ at = "check" /\ job.action \in SlotActions
    /\ Reads(d)
    /\ IF ~Plannable(job, d) THEN Finish("failed") /\ UNCHANGED plan
       ELSE /\ plan' = PlanFor(job, d)
            /\ CASE plan'.command \in {"restage", "rollback"} -> GoTo(plan'.command)
                 [] OTHER -> IF SelectionReached(d, plan') THEN Finish("ok")
                             ELSE GoTo("select")

CheckInstall(d) ==
    /\ at = "check" /\ job.action = "install"
    /\ Reads(d)
    /\ IF Installable(job, d)
       THEN /\ plan' = [slot |-> InstallTarget(d), version |-> job.package,
                        command |-> "install"]
            /\ GoTo("install")
       ELSE Finish("failed") /\ UNCHANGED plan

CheckTrial(d) ==
    /\ at = "check" /\ job.action = "cancel-trial"
    /\ Reads(d) /\ UNCHANGED plan
    /\ CASE d.trial = "none" -> Finish("ok")
         [] d.trial = "unlisted" -> Finish("failed")
         [] OTHER -> GoTo("cancel")

CheckRemove(d) ==
    /\ at = "check" /\ job.action = "remove"
    /\ Reads(d) /\ UNCHANGED plan
    /\ IF Removable(d) THEN GoTo("remove") ELSE Finish("failed")

-----------------------------------------------------------------------------
(* The commands: each is sent once, whatever comes back, and a new session   *)
(* reads what has become of it.                                              *)

Send(command, point) ==
    /\ sent' = Append(sent, command)
    /\ known' = FALSE
    /\ GoTo(point)
    /\ UNCHANGED <<uncertain, automatic, device, plan, pusher>>

Command ==
    \/ at = "restage" /\ Send("install", "staged")
    \/ at = "rollback" /\ Send("rollback", "rolled")
    \/ at = "select" /\ Send(plan.command, "selected")
    \/ at = "install" /\ Send("install", "installed")
    \/ at = "cancel" /\ Send("rollback", "cancelled")
    \/ at = "remove" /\ Send("remove", "removed")

\* The reviewed package has changed or is another one.
RestageRefused ==
    /\ at = "restage" /\ Finish("failed")
    /\ UNCHANGED <<uncertain, automatic, device, plan, sent, known, pusher>>

\* A call that changes something outside, or fails before it does.  Work over
\* USB pauses the pushes once its tools are found and the port is the device's.
Write ==
    /\ at = "write"
    /\ \/ UNCHANGED <<automatic, sent>> /\ Finish("failed")
       \/ /\ automatic' = IF job.action \in USBWrites THEN FALSE ELSE automatic
          /\ sent' = Append(sent, "write")
          /\ \E how \in {"ok", "failed"} : Finish(how)
       \/ /\ job.action \in USBWrites
          /\ automatic' = FALSE /\ UNCHANGED sent /\ Finish("failed")
    /\ UNCHANGED <<uncertain, device, plan, known, pusher>>

\* The readings after a command.
ReadStaged(d) ==
    /\ at = "staged" /\ Reads(d)
    /\ IF Staged(d, plan.slot, plan.version) /\ d.active = 1 - plan.slot /\ d.trial = "none"
       THEN /\ plan' = [plan EXCEPT !.command = "activate"]
            /\ IF SelectionReached(d, plan) THEN Finish("ok") ELSE GoTo("select")
       ELSE Finish("failed") /\ UNCHANGED plan

ReadRolled(d) ==
    /\ at = "rolled" /\ Reads(d)
    /\ CASE SlotVersion(d, plan.slot) # plan.version \/ d.active # plan.slot ->
              Finish("failed") /\ UNCHANGED plan
         [] SelectionReached(d, plan) -> Finish("ok") /\ UNCHANGED plan
         [] d.loaded # NoSlot -> Finish("failed") /\ UNCHANGED plan
         [] OTHER -> GoTo("select") /\ plan' = [plan EXCEPT !.command = "switch"]

Succeeded(d) ==
    \/ at = "selected" /\ SelectionReached(d, plan)
    \/ at = "installed" /\ Staged(d, plan.slot, plan.version)
    \/ at = "cancelled" /\ d.trial = "none"
    \/ at = "removed" /\ ~d.listed

ReadOutcome(d) ==
    /\ at \in {"selected", "installed", "cancelled", "removed"}
    /\ Reads(d) /\ UNCHANGED plan
    /\ Finish(IF Succeeded(d) THEN "ok" ELSE "failed")

-----------------------------------------------------------------------------
(* The image sender behind the same gate; what it does is ImageTx. *)

Outcomes == {"complete", "pending", "unknown", "failed"}

Uncertain(outcome) ==
    CASE outcome = "complete" -> FALSE
      [] outcome = "failed" -> uncertain
      [] OTHER -> TRUE

\* pushImage: PrepareExplicitPush refuses, or the picture is sent.
PushImage(outcome) ==
    /\ at = "push"
    /\ uncertain' = Uncertain(outcome)
    /\ Finish(IF outcome = "complete" THEN "ok" ELSE "failed")
    /\ UNCHANGED <<automatic, device, plan, sent, known, pusher>>

\* A pause does not reach a sender that waits for the gate.
PushBegins ==
    /\ pusher = "idle" /\ automatic
    /\ pusher' = "gate"
    /\ UNCHANGED <<handleVars, uncertain, gate, at, jobVars, result>>

PushAcquires ==
    /\ pusher = "gate" /\ gate = "free"
    /\ gate' = "push" /\ pusher' = "sending"
    /\ UNCHANGED <<handleVars, uncertain, at, jobVars, result>>

PushEnds(outcome) ==
    /\ pusher = "sending"
    /\ uncertain' = Uncertain(outcome)
    /\ gate' = "free" /\ pusher' = "idle"
    /\ UNCHANGED <<handleVars, at, jobVars, result>>

-----------------------------------------------------------------------------
ReadDevice(d) ==
    \/ ReadOnly(d) \/ CheckSlot(d) \/ CheckInstall(d) \/ CheckTrial(d)
    \/ CheckRemove(d) \/ ReadStaged(d) \/ ReadRolled(d) \/ ReadOutcome(d)

RunStep ==
    \/ Take \/ End \/ Begin \/ ReadFails \/ Command \/ RestageRefused \/ Write
    \/ \E d \in Readings : ReadDevice(d)
    \/ \E outcome \in Outcomes : PushImage(outcome)

PushStep == PushAcquires \/ \E outcome \in Outcomes : PushEnds(outcome)

Next ==
    \/ \E on \in BOOLEAN : SetAutomatic(on)
    \/ \E r \in Asked : Handle(r)
    \/ Acquire \/ RunStep \/ PushBegins \/ PushStep

Spec == Init /\ [][Next]_vars

(***************************************************************************)
(* Every device call has a timeout, and the goroutines that wait for a Go   *)
(* channel get it in the order in which they came.                          *)
(***************************************************************************)
Fairness ==
    /\ WF_vars(RunStep) /\ SF_vars(Acquire)
    /\ WF_vars(\E outcome \in Outcomes : PushEnds(outcome))

FairSpec == Spec /\ Fairness

-----------------------------------------------------------------------------
(* What the reading before a command must have said. *)
Backed(command, d) ==
    LET chosen == /\ SlotVersion(d, plan.slot) = plan.version
                  /\ job.version \in {0, plan.version}
    IN  CASE command = "activate" -> d.trial = "none" /\ d.pending = plan.slot /\ chosen
          [] command = "switch" -> d.active = plan.slot /\ chosen
          [] command = "rollback" ->
               IF job.action = "cancel-trial" THEN d.trial # "none"
               ELSE /\ d.trial = "none" /\ d.pending = NoSlot
                    /\ d.previous = plan.slot /\ chosen
          [] command = "install" ->
               /\ d.trial = "none" /\ ~(d.listed /\ d.pending # NoSlot)
               /\ job.package = plan.version
               /\ ~(d.listed /\ d.active = plan.slot)
          [] command = "remove" -> Removable(d)

(* Whatever happens between, nothing is changed while an image may still be
   shown; a command follows a reading made after the one before, which found
   the version that was chosen where the command will act on it; no command is
   repeated; and a version is reported as selected only if the device was read
   running it (console_slots.go:142, console.go:184). *)
ActsOnReadings ==
    [][/\ Len(sent') > Len(sent) =>
            LET command == sent'[Len(sent')]
            IN  /\ gate = "run" /\ ~uncertain
                /\ \A i \in 1..Len(sent) : sent[i] # command
                /\ command = "write" \/ (known /\ Backed(command, device))
       /\ (at # "end" /\ at' = "end" /\ result' = "ok" /\ job.action \in SlotActions) =>
            known' /\ SelectionReached(device', plan')]_vars

(* An accepted operation ends, and the console accepts the next one. *)
OperationEnds == operation # "none" ~> operation = "none"
=============================================================================
