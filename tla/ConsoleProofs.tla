---------------------------- MODULE ConsoleProofs ----------------------------
(***************************************************************************)
(* Proofs about ConsoleBridge for any requests and any statuses.            *)
(***************************************************************************)
EXTENDS ConsoleBridge, TLAPS

Outside == {"idle", "gate"}

\* The points at which the device, the host or the screen may be changed.
Acting == Points \ {"idle", "gate", "begin", "read", "end"}

GateInv ==
    /\ gate = "run" <=> at \notin Outside
    /\ gate = "push" <=> pusher = "sending"
    /\ jobs # <<>> => at = "idle"

\* Who holds the gate finds the image settled, and nobody unsettles it.
SettledInv == at \in Acting => ~uncertain

\* The version in a plan is the one that was chosen, or none was.
PlanInv ==
    at \in {"restage", "staged", "rollback", "rolled", "select"} =>
        /\ job.action \in SlotActions
        /\ job.version \in {0, plan.version}
        /\ at \in {"restage", "staged"} => job.package = plan.version

\* Where a command is about to be sent, the last reading allows it.
ReadInv ==
    /\ at \in {"restage", "install"} => known /\ Backed("install", device)
    /\ at \in {"rollback", "cancel"} => known /\ Backed("rollback", device)
    /\ at = "remove" => known /\ Backed("remove", device)
    /\ at = "select" => /\ known /\ plan.command \in {"switch", "activate"}
                        /\ Backed(plan.command, device)

SentInv ==
    /\ at \in {"idle", "gate", "begin", "check", "write", "push", "restage",
               "rollback", "install", "cancel", "remove", "read"} => sent = <<>>
    /\ at = "staged" => sent = <<"install">>
    /\ at = "rolled" => sent = <<"rollback">>
    /\ at = "select" => sent \in {<<>>, <<"install">>, <<"rollback">>}

\* A selection never reaches the points of the other operations.
RouteInv ==
    at \in {"write", "push", "read", "install", "installed", "cancel",
            "cancelled", "remove", "removed"} => job.action \notin SlotActions

ConsoleInv ==
    TypeOK /\ GateInv /\ SettledInv /\ PlanInv /\ ReadInv /\ SentInv /\ RouteInv

LEMMA PlanIsTyped ==
    ASSUME NEW d \in Statuses, NEW r \in Requests
    PROVE  PlanFor(r, d) \in [slot : Slots \cup {NoSlot}, version : Versions \cup {0},
                              command : {"switch", "activate", "rollback", "restage"}]
<1>1. SlotOf(r, d) \in Slots \cup {NoSlot} BY DEF SlotOf, Statuses, Requests
<1>2. SlotVersion(d, SlotOf(r, d)) \in Versions \cup {0}
  BY <1>1 DEF SlotVersion, Statuses
<1>3. CommandFor(SlotOf(r, d), d) \in {"switch", "activate", "rollback", "restage"}
  BY DEF CommandFor
<1> QED BY <1>1, <1>2, <1>3 DEF PlanFor

\* A plan acts on the slot and version that the reading showed.
LEMMA PlanIsBacked ==
    ASSUME NEW d \in Statuses, NEW r \in Requests, Plannable(r, d)
    PROVE  LET p == PlanFor(r, d)
           IN  /\ SlotVersion(d, p.slot) = p.version
               /\ r.version \in {0, p.version}
               /\ d.trial = "none"
               /\ p.command = "activate" => d.pending = p.slot
               /\ p.command = "switch" => d.active = p.slot
               /\ p.command = "rollback" => d.pending = NoSlot /\ d.previous = p.slot
               /\ p.command = "restage" => /\ r.package = p.version /\ d.pending = NoSlot
                                           /\ d.active # p.slot
BY DEF PlanFor, Plannable, CommandFor, Statuses, Slots, NoSlot

-----------------------------------------------------------------------------

\* A client pauses or resumes the pushes.
LEMMA SetAutomaticKeeps ==
    ASSUME ConsoleInv, NEW on \in BOOLEAN, SetAutomatic(on)
    PROVE  ConsoleInv'
<1> USE ConsoleAssumption, VersionsAssumption
<1>1. TypeOK'
  BY DEF ConsoleInv, TypeOK, Points, Commands, SetAutomatic, handleVars, jobVars
<1>2. GateInv'
  BY DEF ConsoleInv, TypeOK, GateInv, Outside, Points, SetAutomatic,
     handleVars, jobVars
<1>3. SettledInv'
  BY DEF ConsoleInv, TypeOK, GateInv, SettledInv, Acting, Outside, Points,
     SetAutomatic, handleVars, jobVars
<1>4. PlanInv'
  BY DEF ConsoleInv, PlanInv, SetAutomatic, handleVars, jobVars
<1>5. ReadInv'
  BY DEF ConsoleInv, ReadInv, Backed, SetAutomatic, handleVars, jobVars
<1>6. SentInv'
  BY DEF ConsoleInv, SentInv, SetAutomatic, handleVars, jobVars
<1>7. RouteInv'
  BY DEF ConsoleInv, RouteInv, SlotActions, SetAutomatic, handleVars, jobVars
<1> QED BY <1>1, <1>2, <1>3, <1>4, <1>5, <1>6, <1>7 DEF ConsoleInv

\* A request is accepted.
LEMMA HandleKeeps ==
    ASSUME ConsoleInv, NEW r \in Asked, Handle(r)
    PROVE  ConsoleInv'
<1> USE ConsoleAssumption, VersionsAssumption
<1>1. TypeOK'
  BY DEF ConsoleInv, TypeOK, Points, Commands, Handle, Enqueue, handleVars, jobVars
<1>2. GateInv'
  BY DEF ConsoleInv, TypeOK, GateInv, Outside, Points, Handle, Enqueue,
     handleVars, jobVars
<1>3. SettledInv'
  BY DEF ConsoleInv, TypeOK, GateInv, SettledInv, Acting, Outside, Points,
     Handle, Enqueue, handleVars, jobVars
<1>4. PlanInv'
  BY DEF ConsoleInv, PlanInv, Handle, Enqueue, handleVars, jobVars
<1>5. ReadInv'
  BY DEF ConsoleInv, ReadInv, Backed, Handle, Enqueue, handleVars, jobVars
<1>6. SentInv'
  BY DEF ConsoleInv, SentInv, Handle, Enqueue, handleVars, jobVars
<1>7. RouteInv'
  BY DEF ConsoleInv, RouteInv, SlotActions, Handle, Enqueue, handleVars, jobVars
<1> QED BY <1>1, <1>2, <1>3, <1>4, <1>5, <1>6, <1>7 DEF ConsoleInv

\* run takes the request.
LEMMA TakeKeeps ==
    ASSUME ConsoleInv, Take
    PROVE  ConsoleInv'
<1> USE ConsoleAssumption, VersionsAssumption
<1>a. jobs' = <<>>
  <2>1. PICK r \in Asked : jobs = <<r>> BY DEF Take, ConsoleInv, TypeOK
  <2> QED BY <2>1 DEF Take
<1>1. TypeOK'
  BY DEF ConsoleInv, TypeOK, Points, Commands, Take, handleVars, jobVars
<1>2. GateInv'
  BY <1>a DEF ConsoleInv, TypeOK, GateInv, Outside, Points, Take
<1>3. SettledInv'
  BY DEF ConsoleInv, TypeOK, GateInv, SettledInv, Acting, Outside, Points,
     Take, handleVars, jobVars
<1>4. PlanInv'
  BY DEF ConsoleInv, PlanInv, Take, handleVars, jobVars
<1>5. ReadInv'
  BY DEF ConsoleInv, ReadInv, Backed, Take, handleVars, jobVars
<1>6. SentInv'
  BY DEF ConsoleInv, SentInv, Take, handleVars, jobVars
<1>7. RouteInv'
  BY DEF ConsoleInv, RouteInv, SlotActions, Take, handleVars, jobVars
<1> QED BY <1>1, <1>2, <1>3, <1>4, <1>5, <1>6, <1>7 DEF ConsoleInv

\* The gate opens for run.
LEMMA AcquireKeeps ==
    ASSUME ConsoleInv, Acquire
    PROVE  ConsoleInv'
<1> USE ConsoleAssumption, VersionsAssumption
<1>1. TypeOK'
  BY DEF ConsoleInv, TypeOK, Points, Commands, Acquire, handleVars, jobVars
<1>2. GateInv'
  BY DEF ConsoleInv, TypeOK, GateInv, Outside, Points, Acquire, handleVars, jobVars
<1>3. SettledInv'
  BY DEF ConsoleInv, TypeOK, GateInv, SettledInv, Acting, Outside, Points,
     Acquire, handleVars, jobVars
<1>4. PlanInv'
  BY DEF ConsoleInv, PlanInv, Acquire, handleVars, jobVars
<1>5. ReadInv'
  BY DEF ConsoleInv, ReadInv, Backed, Acquire, handleVars, jobVars
<1>6. SentInv'
  BY DEF ConsoleInv, SentInv, Acquire, handleVars, jobVars
<1>7. RouteInv'
  BY DEF ConsoleInv, RouteInv, SlotActions, Acquire, handleVars, jobVars
<1> QED BY <1>1, <1>2, <1>3, <1>4, <1>5, <1>6, <1>7 DEF ConsoleInv

\* The gate opens again and the job is forgotten.
LEMMA EndKeeps ==
    ASSUME ConsoleInv, End
    PROVE  ConsoleInv'
<1> USE ConsoleAssumption, VersionsAssumption
<1>0. /\ plan' \in [slot : Slots \cup {NoSlot}, version : Versions \cup {0},
               command : {"none", "switch", "activate", "rollback", "restage", "install"}]
      /\ jobs \in {<<>>} \cup {<<r>> : r \in Asked} /\ sent' \in Seq(Commands)
      /\ device' = NoReading /\ job' = NoRequest /\ UNCHANGED <<jobs, uncertain, automatic, result, pusher>>
      /\ at' = "idle" /\ operation' = "none" /\ gate' = "free" /\ jobs = <<>>
  BY DEF End, Forget, NoPlan, ConsoleInv, TypeOK, GateInv
<1>a. known' \in BOOLEAN
  BY Zenon DEF End, Forget
<1>1. TypeOK'
  BY <1>0, <1>a DEF ConsoleInv, TypeOK, Points
<1>2. GateInv'
  BY DEF ConsoleInv, TypeOK, GateInv, Outside, Points, End, Forget, NoRequest,
     NoReading, NoPlan, handleVars, jobVars
<1>3. SettledInv'
  BY DEF ConsoleInv, TypeOK, GateInv, SettledInv, Acting, Outside, Points, End,
     Forget, NoRequest, NoReading, NoPlan, handleVars, jobVars
<1>4. PlanInv'
  BY DEF ConsoleInv, PlanInv, End, Forget, NoRequest, NoReading, NoPlan,
     handleVars, jobVars
<1>5. ReadInv'
  BY DEF ConsoleInv, ReadInv, Backed, End, Forget, NoRequest, NoReading,
     NoPlan, handleVars, jobVars
<1>6. SentInv'
  BY DEF ConsoleInv, SentInv, End, Forget, NoRequest, NoReading, NoPlan,
     handleVars, jobVars
<1>7. RouteInv'
  BY DEF ConsoleInv, RouteInv, SlotActions, End, Forget, NoRequest, NoReading,
     NoPlan, handleVars, jobVars
<1> QED BY <1>1, <1>2, <1>3, <1>4, <1>5, <1>6, <1>7 DEF ConsoleInv

\* A job begins if nothing is uncertain, or only reads.
LEMMA BeginKeeps ==
    ASSUME ConsoleInv, Begin
    PROVE  ConsoleInv'
<1> USE ConsoleAssumption, VersionsAssumption
<1>1. TypeOK'
  BY DEF ConsoleInv, TypeOK, Points, Commands, Begin, GoTo, Finish, FirstPoint,
     Refused, Acceptable, ValidExtra, Confirmable, Requests, Actions,
     ReadActions, USBWrites, PlainWrites, handleVars, jobVars
<1>2. GateInv'
  BY DEF ConsoleInv, TypeOK, GateInv, Outside, Points, Begin, GoTo, Finish,
     FirstPoint, Refused, Acceptable, ValidExtra, Confirmable, Requests,
     Actions, ReadActions, USBWrites, PlainWrites, handleVars, jobVars
<1>3. SettledInv'
  BY DEF ConsoleInv, TypeOK, GateInv, SettledInv, Acting, Outside, Points,
     Begin, GoTo, Finish, FirstPoint, Refused, Acceptable, ValidExtra,
     Confirmable, Requests, Actions, ReadActions, USBWrites, PlainWrites,
     handleVars, jobVars
<1>4. PlanInv'
  BY DEF ConsoleInv, PlanInv, Begin, GoTo, Finish, FirstPoint, Refused,
     Acceptable, ValidExtra, Confirmable, Requests, Actions, ReadActions,
     USBWrites, PlainWrites, handleVars, jobVars
<1>5. ReadInv'
  BY DEF ConsoleInv, ReadInv, Backed, Begin, GoTo, Finish, FirstPoint, Refused,
     Acceptable, ValidExtra, Confirmable, Requests, Actions, ReadActions,
     USBWrites, PlainWrites, handleVars, jobVars
<1>6. SentInv'
  BY DEF ConsoleInv, SentInv, Begin, GoTo, Finish, FirstPoint, Refused,
     Acceptable, ValidExtra, Confirmable, Requests, Actions, ReadActions,
     USBWrites, PlainWrites, handleVars, jobVars
<1>7. RouteInv'
  BY DEF ConsoleInv, RouteInv, SlotActions, Begin, GoTo, Finish, FirstPoint,
     Refused, Acceptable, ValidExtra, Confirmable, Requests, Actions,
     ReadActions, USBWrites, PlainWrites, handleVars, jobVars
<1> QED BY <1>1, <1>2, <1>3, <1>4, <1>5, <1>6, <1>7 DEF ConsoleInv

\* Nothing is changed.
LEMMA ReadOnlyKeeps ==
    ASSUME ConsoleInv, NEW d \in Readings, ReadOnly(d)
    PROVE  ConsoleInv'
<1> USE ConsoleAssumption, VersionsAssumption
<1>a. known' \in BOOLEAN /\ device' \in Readings \cup {NoReading}
  <2>1. known \in BOOLEAN /\ device \in Readings \cup {NoReading}
    BY DEF ConsoleInv, TypeOK
  <2>2. CASE job.action \in {"status", "diagnose"}
    <3>1. known' = TRUE /\ device' = d BY <2>2 DEF ReadOnly
    <3> QED BY <3>1, Zenon
  <2>3. CASE job.action \notin {"status", "diagnose"}
    <3>1. known' = known /\ device' = device BY <2>3 DEF ReadOnly
    <3> QED BY <2>1, <3>1
  <2> QED BY <2>2, <2>3
<1>1. TypeOK'
  BY <1>a DEF ConsoleInv, TypeOK, Points, ReadOnly, Finish
<1>2. GateInv'
  BY DEF ConsoleInv, TypeOK, GateInv, Outside, Points, ReadOnly, Finish,
     handleVars, jobVars
<1>3. SettledInv'
  BY DEF ConsoleInv, TypeOK, GateInv, SettledInv, Acting, Outside, Points,
     ReadOnly, Finish, handleVars, jobVars
<1>4. PlanInv'
  BY DEF ConsoleInv, PlanInv, ReadOnly, Finish, handleVars, jobVars
<1>5. ReadInv'
  BY DEF ConsoleInv, ReadInv, Backed, ReadOnly, Finish, handleVars, jobVars
<1>6. SentInv'
  BY DEF ConsoleInv, SentInv, ReadOnly, Finish, handleVars, jobVars
<1>7. RouteInv'
  BY DEF ConsoleInv, RouteInv, SlotActions, ReadOnly, Finish, handleVars, jobVars
<1> QED BY <1>1, <1>2, <1>3, <1>4, <1>5, <1>6, <1>7 DEF ConsoleInv

\* A reading fails and the job with it.
LEMMA ReadFailsKeeps ==
    ASSUME ConsoleInv, ReadFails
    PROVE  ConsoleInv'
<1> USE ConsoleAssumption, VersionsAssumption
<1>1. TypeOK'
  BY DEF ConsoleInv, TypeOK, Points, Commands, ReadFails, Finish, handleVars,
     jobVars
<1>2. GateInv'
  BY DEF ConsoleInv, TypeOK, GateInv, Outside, Points, ReadFails, Finish,
     handleVars, jobVars
<1>3. SettledInv'
  BY DEF ConsoleInv, TypeOK, GateInv, SettledInv, Acting, Outside, Points,
     ReadFails, Finish, handleVars, jobVars
<1>4. PlanInv'
  BY DEF ConsoleInv, PlanInv, ReadFails, Finish, handleVars, jobVars
<1>5. ReadInv'
  BY DEF ConsoleInv, ReadInv, Backed, ReadFails, Finish, handleVars, jobVars
<1>6. SentInv'
  BY DEF ConsoleInv, SentInv, ReadFails, Finish, handleVars, jobVars
<1>7. RouteInv'
  BY DEF ConsoleInv, RouteInv, SlotActions, ReadFails, Finish, handleVars, jobVars
<1> QED BY <1>1, <1>2, <1>3, <1>4, <1>5, <1>6, <1>7 DEF ConsoleInv

\* An installation is planned from a reading.
LEMMA CheckInstallKeeps ==
    ASSUME ConsoleInv, NEW d \in Readings, CheckInstall(d)
    PROVE  ConsoleInv'
<1> USE ConsoleAssumption, VersionsAssumption
<1>0. d \in Statuses /\ job \in Asked /\ job \in Requests
  BY DEF ConsoleInv, TypeOK, CheckInstall
<1>a. /\ plan' \in [slot : Slots \cup {NoSlot}, version : Versions \cup {0},
               command : {"none", "switch", "activate", "rollback", "restage", "install"}]
      /\ at' = "install" => /\ Installable(job, d) /\ plan'.slot = InstallTarget(d)
                            /\ plan'.version = job.package
      /\ at' \in {"install", "end"} /\ device' = d /\ job' = job
      /\ sent' = sent /\ at = "check"
  <2>1. InstallTarget(d) \in Slots /\ job.package \in Versions \cup {0}
    BY <1>0 DEF InstallTarget, Statuses, Slots, NoSlot, Requests
  <2>2. CASE Installable(job, d)
    <3>1. plan' = [slot |-> InstallTarget(d), version |-> job.package, command |-> "install"]
      BY <2>2 DEF CheckInstall
    <3> QED BY <2>1, <2>2, <3>1 DEF CheckInstall, Reads, GoTo
  <2>3. CASE ~Installable(job, d)
    BY <2>3 DEF CheckInstall, Reads, Finish, ConsoleInv, TypeOK
  <2> QED BY <2>2, <2>3
<1>b. known' \in BOOLEAN /\ known' = TRUE
  BY Zenon DEF CheckInstall, Reads
<1>c. Installable(job, d) =>
        /\ d.trial = "none" /\ ~(d.listed /\ d.pending # NoSlot)
        /\ ~(d.listed /\ d.active = InstallTarget(d))
  <2>1. d.listed /\ d.active = InstallTarget(d) => FALSE
    BY <1>0 DEF InstallTarget, Statuses, Slots, NoSlot
  <2>2. Installable(job, d) => d.trial = "none" /\ ~(d.listed /\ d.pending # NoSlot)
    BY DEF Installable
  <2> QED BY <2>1, <2>2
<1>1. TypeOK'
  BY <1>a, <1>b DEF ConsoleInv, TypeOK, Points, CheckInstall, Reads, GoTo, Finish
<1>2. GateInv'
  BY DEF ConsoleInv, TypeOK, GateInv, Outside, Points, CheckInstall, Reads,
     GoTo, Finish, handleVars, jobVars
<1>3. SettledInv'
  BY DEF ConsoleInv, TypeOK, GateInv, SettledInv, Acting, Outside, Points,
     CheckInstall, Reads, GoTo, Finish, handleVars, jobVars
<1>4. PlanInv'
  BY DEF ConsoleInv, PlanInv, CheckInstall, Reads, GoTo, Finish, handleVars, jobVars
<1>5. ReadInv'
  BY <1>a, <1>b, <1>c DEF ReadInv, Backed
<1>6. SentInv'
  BY DEF ConsoleInv, SentInv, CheckInstall, Reads, GoTo, Finish, handleVars, jobVars
<1>7. RouteInv'
  BY DEF ConsoleInv, RouteInv, SlotActions, CheckInstall, Reads, GoTo, Finish,
     handleVars, jobVars
<1> QED BY <1>1, <1>2, <1>3, <1>4, <1>5, <1>6, <1>7 DEF ConsoleInv

\* A trial is looked for.
LEMMA CheckTrialKeeps ==
    ASSUME ConsoleInv, NEW d \in Readings, CheckTrial(d)
    PROVE  ConsoleInv'
<1> USE ConsoleAssumption, VersionsAssumption
<1>1. TypeOK'
  BY DEF ConsoleInv, TypeOK, Points, Commands, CheckTrial, Reads, GoTo, Finish,
     handleVars, jobVars
<1>2. GateInv'
  BY DEF ConsoleInv, TypeOK, GateInv, Outside, Points, CheckTrial, Reads, GoTo,
     Finish, handleVars, jobVars
<1>3. SettledInv'
  BY DEF ConsoleInv, TypeOK, GateInv, SettledInv, Acting, Outside, Points,
     CheckTrial, Reads, GoTo, Finish, handleVars, jobVars
<1>4. PlanInv'
  BY DEF ConsoleInv, PlanInv, CheckTrial, Reads, GoTo, Finish, handleVars, jobVars
<1>5. ReadInv'
  BY DEF ConsoleInv, ReadInv, Backed, CheckTrial, Reads, GoTo, Finish,
     handleVars, jobVars
<1>6. SentInv'
  BY DEF ConsoleInv, SentInv, CheckTrial, Reads, GoTo, Finish, handleVars, jobVars
<1>7. RouteInv'
  BY DEF ConsoleInv, RouteInv, SlotActions, CheckTrial, Reads, GoTo, Finish,
     handleVars, jobVars
<1> QED BY <1>1, <1>2, <1>3, <1>4, <1>5, <1>6, <1>7 DEF ConsoleInv

\* An application is looked for.
LEMMA CheckRemoveKeeps ==
    ASSUME ConsoleInv, NEW d \in Readings, CheckRemove(d)
    PROVE  ConsoleInv'
<1> USE ConsoleAssumption, VersionsAssumption
<1>1. TypeOK'
  BY DEF ConsoleInv, TypeOK, Points, Commands, CheckRemove, Reads, GoTo,
     Finish, handleVars, jobVars
<1>2. GateInv'
  BY DEF ConsoleInv, TypeOK, GateInv, Outside, Points, CheckRemove, Reads,
     GoTo, Finish, handleVars, jobVars
<1>3. SettledInv'
  BY DEF ConsoleInv, TypeOK, GateInv, SettledInv, Acting, Outside, Points,
     CheckRemove, Reads, GoTo, Finish, handleVars, jobVars
<1>4. PlanInv'
  BY DEF ConsoleInv, PlanInv, CheckRemove, Reads, GoTo, Finish, handleVars, jobVars
<1>5. ReadInv'
  BY DEF ConsoleInv, ReadInv, Backed, CheckRemove, Reads, GoTo, Finish,
     handleVars, jobVars
<1>6. SentInv'
  BY DEF ConsoleInv, SentInv, CheckRemove, Reads, GoTo, Finish, handleVars, jobVars
<1>7. RouteInv'
  BY DEF ConsoleInv, RouteInv, SlotActions, CheckRemove, Reads, GoTo, Finish,
     handleVars, jobVars
<1> QED BY <1>1, <1>2, <1>3, <1>4, <1>5, <1>6, <1>7 DEF ConsoleInv

\* The package is not the one that was reviewed.
LEMMA RestageRefusedKeeps ==
    ASSUME ConsoleInv, RestageRefused
    PROVE  ConsoleInv'
<1> USE ConsoleAssumption, VersionsAssumption
<1>1. TypeOK'
  BY DEF ConsoleInv, TypeOK, Points, Commands, RestageRefused, Finish,
     handleVars, jobVars
<1>2. GateInv'
  BY DEF ConsoleInv, TypeOK, GateInv, Outside, Points, RestageRefused, Finish,
     handleVars, jobVars
<1>3. SettledInv'
  BY DEF ConsoleInv, TypeOK, GateInv, SettledInv, Acting, Outside, Points,
     RestageRefused, Finish, handleVars, jobVars
<1>4. PlanInv'
  BY DEF ConsoleInv, PlanInv, RestageRefused, Finish, handleVars, jobVars
<1>5. ReadInv'
  BY DEF ConsoleInv, ReadInv, Backed, RestageRefused, Finish, handleVars, jobVars
<1>6. SentInv'
  BY DEF ConsoleInv, SentInv, RestageRefused, Finish, handleVars, jobVars
<1>7. RouteInv'
  BY DEF ConsoleInv, RouteInv, SlotActions, RestageRefused, Finish, handleVars,
     jobVars
<1> QED BY <1>1, <1>2, <1>3, <1>4, <1>5, <1>6, <1>7 DEF ConsoleInv

\* A single write.
LEMMA WriteKeeps ==
    ASSUME ConsoleInv, Write
    PROVE  ConsoleInv'
<1> USE ConsoleAssumption, VersionsAssumption
<1>a. automatic' \in BOOLEAN /\ sent' \in Seq(Commands)
  <2>1. automatic \in BOOLEAN /\ sent \in Seq(Commands) BY DEF ConsoleInv, TypeOK
  <2>2. (IF job.action \in USBWrites THEN FALSE ELSE automatic) \in BOOLEAN BY <2>1
  <2>3. CASE UNCHANGED <<automatic, sent>> BY <2>1, <2>3
  <2>4. CASE /\ automatic' = IF job.action \in USBWrites THEN FALSE ELSE automatic
             /\ sent' = Append(sent, "write")
    <3>1. automatic' \in BOOLEAN BY <2>2, <2>4
    <3>2. sent' \in Seq(Commands) BY <2>1, <2>4 DEF Commands
    <3> QED BY <3>1, <3>2
  <2>5. CASE automatic' = FALSE /\ UNCHANGED sent
    <3>1. automatic' \in BOOLEAN BY <2>5, Zenon
    <3> QED BY <2>1, <2>5, <3>1
  <2> QED BY <2>3, <2>4, <2>5 DEF Write
<1>b. /\ result' \in {"ok", "failed"} /\ at' = "end" /\ at = "write"
      /\ UNCHANGED <<jobs, operation, gate, job, uncertain, device, plan, known, pusher>>
  BY DEF Write, Finish
<1>1. TypeOK'
  BY <1>a, <1>b DEF ConsoleInv, TypeOK, Points
<1>2. GateInv'
  BY DEF ConsoleInv, TypeOK, GateInv, Outside, Points, Write, Finish,
     handleVars, jobVars
<1>3. SettledInv'
  BY DEF ConsoleInv, TypeOK, GateInv, SettledInv, Acting, Outside, Points,
     Write, Finish, handleVars, jobVars
<1>4. PlanInv'
  BY DEF ConsoleInv, PlanInv, Write, Finish, handleVars, jobVars
<1>5. ReadInv'
  BY DEF ConsoleInv, ReadInv, Backed, Write, Finish, handleVars, jobVars
<1>6. SentInv'
  BY DEF ConsoleInv, SentInv, Write, Finish, handleVars, jobVars
<1>7. RouteInv'
  BY DEF ConsoleInv, RouteInv, SlotActions, Write, Finish, handleVars, jobVars
<1> QED BY <1>1, <1>2, <1>3, <1>4, <1>5, <1>6, <1>7 DEF ConsoleInv

\* What was staged is read back.
LEMMA ReadStagedKeeps ==
    ASSUME ConsoleInv, NEW d \in Readings, ReadStaged(d)
    PROVE  ConsoleInv'
<1> USE ConsoleAssumption, VersionsAssumption
<1>a. /\ plan' \in [slot : Slots \cup {NoSlot}, version : Versions \cup {0},
               command : {"none", "switch", "activate", "rollback", "restage", "install"}]
      /\ plan'.slot = plan.slot /\ plan'.version = plan.version
      /\ at' = "select" => /\ plan'.command = "activate" /\ d.trial = "none"
                           /\ Staged(d, plan.slot, plan.version)
      /\ at' \in {"select", "end"} /\ device' = d /\ job' = job /\ sent' = sent
      /\ at = "staged"
  BY DEF ReadStaged, Reads, GoTo, Finish, ConsoleInv, TypeOK
<1>b. known' \in BOOLEAN /\ known' = TRUE
  BY Zenon DEF ReadStaged, Reads
<1>1. TypeOK'
  BY <1>a, <1>b DEF ConsoleInv, TypeOK, Points, ReadStaged, Reads, GoTo, Finish
<1>2. GateInv'
  BY DEF ConsoleInv, TypeOK, GateInv, Outside, Points, ReadStaged, Reads, GoTo,
     Finish, Staged, handleVars, jobVars
<1>3. SettledInv'
  BY DEF ConsoleInv, TypeOK, GateInv, SettledInv, Acting, Outside, Points,
     ReadStaged, Reads, GoTo, Finish, Staged, handleVars, jobVars
<1>4. PlanInv'
  BY <1>a DEF ConsoleInv, PlanInv
<1>5. ReadInv'
  BY <1>a, <1>b DEF ConsoleInv, PlanInv, ReadInv, Backed, Staged, SlotActions
<1>6. SentInv'
  BY DEF ConsoleInv, SentInv, ReadStaged, Reads, GoTo, Finish, Staged,
     handleVars, jobVars
<1>7. RouteInv'
  BY DEF ConsoleInv, RouteInv, SlotActions, ReadStaged, Reads, GoTo, Finish,
     Staged, handleVars, jobVars
<1> QED BY <1>1, <1>2, <1>3, <1>4, <1>5, <1>6, <1>7 DEF ConsoleInv

\* What was rolled back is read back.
LEMMA ReadRolledKeeps ==
    ASSUME ConsoleInv, NEW d \in Readings, ReadRolled(d)
    PROVE  ConsoleInv'
<1> USE ConsoleAssumption, VersionsAssumption
<1>a. /\ plan' \in [slot : Slots \cup {NoSlot}, version : Versions \cup {0},
               command : {"none", "switch", "activate", "rollback", "restage", "install"}]
      /\ plan'.slot = plan.slot /\ plan'.version = plan.version
      /\ at' = "select" => /\ plan'.command = "switch" /\ d.active = plan.slot
                           /\ SlotVersion(d, plan.slot) = plan.version
      /\ at' \in {"select", "end"} /\ device' = d /\ job' = job /\ sent' = sent
      /\ at = "rolled"
  BY DEF ReadRolled, Reads, GoTo, Finish, ConsoleInv, TypeOK
<1>b. known' \in BOOLEAN /\ known' = TRUE
  BY Zenon DEF ReadRolled, Reads
<1>1. TypeOK'
  BY <1>a, <1>b DEF ConsoleInv, TypeOK, Points, ReadRolled, Reads, GoTo, Finish
<1>2. GateInv'
  BY DEF ConsoleInv, TypeOK, GateInv, Outside, Points, ReadRolled, Reads, GoTo,
     Finish, handleVars, jobVars
<1>3. SettledInv'
  BY DEF ConsoleInv, TypeOK, GateInv, SettledInv, Acting, Outside, Points,
     ReadRolled, Reads, GoTo, Finish, handleVars, jobVars
<1>4. PlanInv'
  BY <1>a DEF ConsoleInv, PlanInv
<1>5. ReadInv'
  BY <1>a, <1>b DEF ConsoleInv, PlanInv, ReadInv, Backed, SlotActions
<1>6. SentInv'
  BY DEF ConsoleInv, SentInv, ReadRolled, Reads, GoTo, Finish, handleVars, jobVars
<1>7. RouteInv'
  BY DEF ConsoleInv, RouteInv, SlotActions, ReadRolled, Reads, GoTo, Finish,
     handleVars, jobVars
<1> QED BY <1>1, <1>2, <1>3, <1>4, <1>5, <1>6, <1>7 DEF ConsoleInv

\* The outcome of the last command is read.
LEMMA ReadOutcomeKeeps ==
    ASSUME ConsoleInv, NEW d \in Readings, ReadOutcome(d)
    PROVE  ConsoleInv'
<1> USE ConsoleAssumption, VersionsAssumption
<1>1. TypeOK'
  BY DEF ConsoleInv, TypeOK, Points, Commands, ReadOutcome, Reads, Finish,
     handleVars, jobVars
<1>2. GateInv'
  BY DEF ConsoleInv, TypeOK, GateInv, Outside, Points, ReadOutcome, Reads,
     Finish, handleVars, jobVars
<1>3. SettledInv'
  BY DEF ConsoleInv, TypeOK, GateInv, SettledInv, Acting, Outside, Points,
     ReadOutcome, Reads, Finish, handleVars, jobVars
<1>4. PlanInv'
  BY DEF ConsoleInv, PlanInv, ReadOutcome, Reads, Finish, handleVars, jobVars
<1>5. ReadInv'
  BY DEF ConsoleInv, ReadInv, Backed, ReadOutcome, Reads, Finish, handleVars,
     jobVars
<1>6. SentInv'
  BY DEF ConsoleInv, SentInv, ReadOutcome, Reads, Finish, handleVars, jobVars
<1>7. RouteInv'
  BY DEF ConsoleInv, RouteInv, SlotActions, ReadOutcome, Reads, Finish,
     handleVars, jobVars
<1> QED BY <1>1, <1>2, <1>3, <1>4, <1>5, <1>6, <1>7 DEF ConsoleInv

\* The console sends a picture.
LEMMA PushImageKeeps ==
    ASSUME ConsoleInv, NEW outcome \in Outcomes, PushImage(outcome)
    PROVE  ConsoleInv'
<1> USE ConsoleAssumption, VersionsAssumption
<1>a. uncertain' \in BOOLEAN
  <2>1. Uncertain(outcome) \in BOOLEAN BY DEF Uncertain, ConsoleInv, TypeOK
  <2> QED BY <2>1 DEF PushImage
<1>1. TypeOK'
  BY <1>a DEF ConsoleInv, TypeOK, Points, PushImage, Finish
<1>2. GateInv'
  BY DEF ConsoleInv, TypeOK, GateInv, Outside, Points, PushImage, Finish,
     Uncertain, handleVars, jobVars
<1>3. SettledInv'
  BY DEF ConsoleInv, TypeOK, GateInv, SettledInv, Acting, Outside, Points,
     PushImage, Finish, Uncertain, handleVars, jobVars
<1>4. PlanInv'
  BY DEF ConsoleInv, PlanInv, PushImage, Finish, Uncertain, handleVars, jobVars
<1>5. ReadInv'
  BY DEF ConsoleInv, ReadInv, Backed, PushImage, Finish, Uncertain, handleVars,
     jobVars
<1>6. SentInv'
  BY DEF ConsoleInv, SentInv, PushImage, Finish, Uncertain, handleVars, jobVars
<1>7. RouteInv'
  BY DEF ConsoleInv, RouteInv, SlotActions, PushImage, Finish, Uncertain,
     handleVars, jobVars
<1> QED BY <1>1, <1>2, <1>3, <1>4, <1>5, <1>6, <1>7 DEF ConsoleInv

\* A frame is to be sent.
LEMMA PushBeginsKeeps ==
    ASSUME ConsoleInv, PushBegins
    PROVE  ConsoleInv'
<1> USE ConsoleAssumption, VersionsAssumption
<1>1. TypeOK'
  BY DEF ConsoleInv, TypeOK, Points, Commands, PushBegins, handleVars, jobVars
<1>2. GateInv'
  BY DEF ConsoleInv, TypeOK, GateInv, Outside, Points, PushBegins, handleVars,
     jobVars
<1>3. SettledInv'
  BY DEF ConsoleInv, TypeOK, GateInv, SettledInv, Acting, Outside, Points,
     PushBegins, handleVars, jobVars
<1>4. PlanInv'
  BY DEF ConsoleInv, PlanInv, PushBegins, handleVars, jobVars
<1>5. ReadInv'
  BY DEF ConsoleInv, ReadInv, Backed, PushBegins, handleVars, jobVars
<1>6. SentInv'
  BY DEF ConsoleInv, SentInv, PushBegins, handleVars, jobVars
<1>7. RouteInv'
  BY DEF ConsoleInv, RouteInv, SlotActions, PushBegins, handleVars, jobVars
<1> QED BY <1>1, <1>2, <1>3, <1>4, <1>5, <1>6, <1>7 DEF ConsoleInv

\* The gate opens for the frame.
LEMMA PushAcquiresKeeps ==
    ASSUME ConsoleInv, PushAcquires
    PROVE  ConsoleInv'
<1> USE ConsoleAssumption, VersionsAssumption
<1>1. TypeOK'
  BY DEF ConsoleInv, TypeOK, Points, Commands, PushAcquires, handleVars, jobVars
<1>2. GateInv'
  BY DEF ConsoleInv, TypeOK, GateInv, Outside, Points, PushAcquires,
     handleVars, jobVars
<1>3. SettledInv'
  BY DEF ConsoleInv, TypeOK, GateInv, SettledInv, Acting, Outside, Points,
     PushAcquires, handleVars, jobVars
<1>4. PlanInv'
  BY DEF ConsoleInv, PlanInv, PushAcquires, handleVars, jobVars
<1>5. ReadInv'
  BY DEF ConsoleInv, ReadInv, Backed, PushAcquires, handleVars, jobVars
<1>6. SentInv'
  BY DEF ConsoleInv, SentInv, PushAcquires, handleVars, jobVars
<1>7. RouteInv'
  BY DEF ConsoleInv, RouteInv, SlotActions, PushAcquires, handleVars, jobVars
<1> QED BY <1>1, <1>2, <1>3, <1>4, <1>5, <1>6, <1>7 DEF ConsoleInv

\* Only a frame that holds the gate changes what is certain.
LEMMA PushEndsKeeps ==
    ASSUME ConsoleInv, NEW outcome \in Outcomes, PushEnds(outcome)
    PROVE  ConsoleInv'
<1> USE ConsoleAssumption, VersionsAssumption
<1>a. uncertain' \in BOOLEAN
  <2>1. Uncertain(outcome) \in BOOLEAN BY DEF Uncertain, ConsoleInv, TypeOK
  <2> QED BY <2>1 DEF PushEnds
<1>1. TypeOK'
  BY <1>a DEF ConsoleInv, TypeOK, Points, PushEnds, handleVars, jobVars
<1>2. GateInv'
  BY DEF ConsoleInv, TypeOK, GateInv, Outside, Points, PushEnds, Uncertain,
     handleVars, jobVars
<1>3. SettledInv'
  BY DEF ConsoleInv, TypeOK, GateInv, SettledInv, Acting, Outside, Points,
     PushEnds, Uncertain, handleVars, jobVars
<1>4. PlanInv'
  BY DEF ConsoleInv, PlanInv, PushEnds, Uncertain, handleVars, jobVars
<1>5. ReadInv'
  BY DEF ConsoleInv, ReadInv, Backed, PushEnds, Uncertain, handleVars, jobVars
<1>6. SentInv'
  BY DEF ConsoleInv, SentInv, PushEnds, Uncertain, handleVars, jobVars
<1>7. RouteInv'
  BY DEF ConsoleInv, RouteInv, SlotActions, PushEnds, Uncertain, handleVars, jobVars
<1> QED BY <1>1, <1>2, <1>3, <1>4, <1>5, <1>6, <1>7 DEF ConsoleInv

\* A selection is planned from a reading.
LEMMA CheckSlotKeeps ==
    ASSUME ConsoleInv, NEW d \in Readings, CheckSlot(d)
    PROVE  ConsoleInv'
<1> USE ConsoleAssumption, VersionsAssumption
<1>0. d \in Statuses /\ job \in Asked /\ job \in Requests /\ at = "check"
      /\ job.action \in SlotActions /\ device' = d /\ job' = job /\ sent' = sent /\ sent = <<>>
  BY DEF ConsoleInv, TypeOK, CheckSlot, Reads, GoTo, Finish, SentInv
<1>a. /\ plan' \in [slot : Slots \cup {NoSlot}, version : Versions \cup {0},
               command : {"none", "switch", "activate", "rollback", "restage", "install"}]
      /\ at' \in {"restage", "rollback", "select"} =>
            Plannable(job, d) /\ plan' = PlanFor(job, d)
      /\ at' \in {"restage", "rollback", "select", "end"}
      /\ at' \in {"restage", "rollback"} => plan'.command = at'
      /\ at' = "select" => plan'.command \in {"switch", "activate"}
  <2>1. CASE Plannable(job, d)
    <3>1. plan' = PlanFor(job, d) BY <2>1 DEF CheckSlot
    <3>2. plan' \in [slot : Slots \cup {NoSlot}, version : Versions \cup {0},
                     command : {"switch", "activate", "rollback", "restage"}]
      BY <1>0, <3>1, PlanIsTyped
    <3>3. CASE plan'.command \in {"restage", "rollback"}
      BY <2>1, <3>1, <3>2, <3>3 DEF CheckSlot, GoTo
    <3>4. CASE plan'.command \in {"switch", "activate"}
      BY <2>1, <3>1, <3>2, <3>4 DEF CheckSlot, GoTo, Finish
    <3> QED BY <3>2, <3>3, <3>4
  <2>2. CASE ~Plannable(job, d)
    BY <2>2 DEF CheckSlot, Finish, ConsoleInv, TypeOK
  <2> QED BY <2>1, <2>2
<1>b. known' \in BOOLEAN /\ known' = TRUE
  BY Zenon DEF CheckSlot, Reads
<1>c. Plannable(job, d) =>
        LET p == PlanFor(job, d)
        IN  /\ SlotVersion(d, p.slot) = p.version
            /\ job.version \in {0, p.version}
            /\ d.trial = "none"
            /\ p.command = "activate" => d.pending = p.slot
            /\ p.command = "switch" => d.active = p.slot
            /\ p.command = "rollback" => d.pending = NoSlot /\ d.previous = p.slot
            /\ p.command = "restage" => /\ job.package = p.version /\ d.pending = NoSlot
                                        /\ d.active # p.slot
  BY <1>0, PlanIsBacked
<1>1. TypeOK'
  BY <1>a, <1>b DEF ConsoleInv, TypeOK, Points, CheckSlot, Reads, GoTo, Finish
<1>2. GateInv'
  BY DEF ConsoleInv, TypeOK, GateInv, Outside, Points, CheckSlot, Reads, GoTo,
     Finish, handleVars, jobVars
<1>3. SettledInv'
  BY DEF ConsoleInv, TypeOK, GateInv, SettledInv, Acting, Outside, Points,
     CheckSlot, Reads, GoTo, Finish, handleVars, jobVars
<1>4. PlanInv'
  BY <1>0, <1>a, <1>c DEF PlanInv
<1>5. ReadInv'
  BY <1>0, <1>a, <1>b, <1>c DEF ReadInv, Backed, SlotActions
<1>6. SentInv'
  BY <1>0, <1>a DEF SentInv
<1>7. RouteInv'
  BY <1>a DEF RouteInv
<1> QED BY <1>1, <1>2, <1>3, <1>4, <1>5, <1>6, <1>7 DEF ConsoleInv

\* A command is sent.
LEMMA CommandKeeps ==
    ASSUME ConsoleInv, Command
    PROVE  ConsoleInv'
<1> USE ConsoleAssumption, VersionsAssumption
<1>a. \E c \in Commands :
        /\ sent' = Append(sent, c)
        /\ \/ at = "restage" /\ c = "install" /\ at' = "staged"
           \/ at = "rollback" /\ c = "rollback" /\ at' = "rolled"
           \/ at' \in {"selected", "installed", "cancelled", "removed"}
  BY DEF Command, Send, GoTo, Commands, ConsoleInv, ReadInv
<1>b. PICK c \in Commands :
        /\ sent' = Append(sent, c)
        /\ \/ at = "restage" /\ c = "install" /\ at' = "staged"
           \/ at = "rollback" /\ c = "rollback" /\ at' = "rolled"
           \/ at' \in {"selected", "installed", "cancelled", "removed"}
  BY <1>a
<1>c. sent' \in Seq(Commands)
  BY <1>b DEF ConsoleInv, TypeOK
<1>e. sent = <<>> => sent' = <<c>>
  BY <1>b
<1>d. known' \in BOOLEAN
  BY Zenon DEF Command, Send
<1>1. TypeOK'
  BY <1>c, <1>d DEF ConsoleInv, TypeOK, Points, Command, Send, GoTo
<1>2. GateInv'
  BY DEF ConsoleInv, TypeOK, GateInv, Outside, Points, Command, Send, GoTo,
     handleVars, jobVars
<1>3. SettledInv'
  BY DEF ConsoleInv, TypeOK, GateInv, SettledInv, Acting, Outside, Points,
     Command, Send, GoTo, handleVars, jobVars
<1>4. PlanInv'
  BY DEF ConsoleInv, PlanInv, Command, Send, GoTo, handleVars, jobVars
<1>5. ReadInv'
  BY DEF ConsoleInv, ReadInv, Backed, Command, Send, GoTo, handleVars, jobVars
<1>6. SentInv'
  BY <1>b, <1>e DEF ConsoleInv, SentInv
<1>7. RouteInv'
  BY DEF ConsoleInv, RouteInv, PlanInv, Command, Send, GoTo
<1> QED BY <1>1, <1>2, <1>3, <1>4, <1>5, <1>6, <1>7 DEF ConsoleInv

LEMMA InitHolds == Init => ConsoleInv
<1> SUFFICES ASSUME Init PROVE ConsoleInv OBVIOUS
<1>1. TypeOK
  <2>1. known \in BOOLEAN /\ uncertain \in BOOLEAN BY Zenon DEF Init
  <2> QED BY <2>1 DEF Init, TypeOK, Points, NoPlan
<1> QED
  BY <1>1 DEF Init, ConsoleInv, GateInv, Outside, SettledInv, Acting, PlanInv,
     ReadInv, SentInv, RouteInv

LEMMA StepKeeps ==
    ASSUME ConsoleInv, [Next]_vars
    PROVE  ConsoleInv'
<1>1. CASE UNCHANGED vars
  <2>1. TypeOK' BY <1>1 DEF vars, jobVars, ConsoleInv, TypeOK
  <2>2. GateInv' /\ SettledInv' /\ RouteInv'
    BY <1>1 DEF vars, jobVars, ConsoleInv, GateInv, SettledInv, RouteInv
  <2>3. PlanInv' BY <1>1 DEF vars, jobVars, ConsoleInv, PlanInv
  <2>4. ReadInv' BY <1>1 DEF vars, jobVars, ConsoleInv, ReadInv, Backed
  <2>5. SentInv' BY <1>1 DEF vars, jobVars, ConsoleInv, SentInv
  <2> QED BY <2>1, <2>2, <2>3, <2>4, <2>5 DEF ConsoleInv
<1>2. CASE \E on \in BOOLEAN : SetAutomatic(on) BY <1>2, SetAutomaticKeeps
<1>3. CASE \E r \in Asked : Handle(r) BY <1>3, HandleKeeps
<1>4. CASE Acquire BY <1>4, AcquireKeeps
<1>5. CASE RunStep
  <2>1. CASE \E d \in Readings : ReadDevice(d)
    BY <2>1, ReadOnlyKeeps, CheckSlotKeeps, CheckInstallKeeps, CheckTrialKeeps,
       CheckRemoveKeeps, ReadStagedKeeps, ReadRolledKeeps, ReadOutcomeKeeps
       DEF ReadDevice
  <2>2. CASE \E outcome \in Outcomes : PushImage(outcome) BY <2>2, PushImageKeeps
  <2> QED
    BY <1>5, <2>1, <2>2, TakeKeeps, EndKeeps, BeginKeeps, ReadFailsKeeps,
       CommandKeeps, RestageRefusedKeeps, WriteKeeps DEF RunStep
<1>6. CASE PushBegins BY <1>6, PushBeginsKeeps
<1>7. CASE PushStep BY <1>7, PushAcquiresKeeps, PushEndsKeeps DEF PushStep
<1> QED BY <1>1, <1>2, <1>3, <1>4, <1>5, <1>6, <1>7 DEF Next

-----------------------------------------------------------------------------
(* What a step of a job may do to the device and may report. *)

Acts ==
    /\ Len(sent') > Len(sent) =>
         LET command == sent'[Len(sent')]
         IN  /\ gate = "run" /\ ~uncertain
             /\ \A i \in 1..Len(sent) : sent[i] # command
             /\ command = "write" \/ (known /\ Backed(command, device))
    /\ (at # "end" /\ at' = "end" /\ result' = "ok" /\ job.action \in SlotActions) =>
         known' /\ SelectionReached(device', plan')

\* A step that sends nothing and ends nothing.
LEMMA QuietActs ==
    ASSUME ConsoleInv, sent' \in {sent, <<>>},
           at' # "end" \/ at = "end" \/ result' # "ok" \/ job.action \notin SlotActions
    PROVE  Acts
<1>1. Len(sent) \in Nat BY DEF ConsoleInv, TypeOK
<1>2. ~(Len(sent') > Len(sent)) BY <1>1
<1> QED BY <1>2 DEF Acts

\* A command is sent because of the last reading.
LEMMA CommandActs == ASSUME ConsoleInv, Command PROVE Acts
<1>1. \E c \in Commands :
        /\ sent' = Append(sent, c)
        /\ \/ at \in {"restage", "install"} /\ c = "install"
           \/ at \in {"rollback", "cancel"} /\ c = "rollback"
           \/ at = "remove" /\ c = "remove"
           \/ at = "select" /\ c = plan.command
  BY DEF Command, Send, GoTo, Commands, ConsoleInv, ReadInv
<1>2. PICK c \in Commands :
        /\ sent' = Append(sent, c)
        /\ \/ at \in {"restage", "install"} /\ c = "install"
           \/ at \in {"rollback", "cancel"} /\ c = "rollback"
           \/ at = "remove" /\ c = "remove"
           \/ at = "select" /\ c = plan.command
  BY <1>1
<1>3. Len(sent') = Len(sent) + 1 /\ sent'[Len(sent')] = c
  BY <1>2 DEF ConsoleInv, TypeOK
<1>4. gate = "run" /\ ~uncertain
  BY <1>2 DEF ConsoleInv, GateInv, Outside, SettledInv, Acting, Points
<1>5. \A i \in 1..Len(sent) : sent[i] # c
  <2>1. CASE at = "select"
    <3>1. c \in {"switch", "activate"} BY <1>2, <2>1 DEF ConsoleInv, ReadInv
    <3>2. sent \in {<<>>, <<"install">>, <<"rollback">>}
      BY <2>1 DEF ConsoleInv, SentInv
    <3> QED BY <3>1, <3>2
  <2>2. CASE at # "select"
    <3>1. sent = <<>> BY <1>2, <2>2 DEF ConsoleInv, SentInv
    <3> QED BY <3>1
  <2> QED BY <2>1, <2>2
<1>6. known /\ Backed(c, device)
  BY <1>2 DEF ConsoleInv, ReadInv
<1>7. at' # "end" BY DEF Command, Send, GoTo
<1> QED BY <1>3, <1>4, <1>5, <1>6, <1>7 DEF Acts

\* The one write of an operation that has not sent anything.
LEMMA WriteActs == ASSUME ConsoleInv, Write PROVE Acts
<1>1. sent = <<>> /\ job.action \notin SlotActions /\ gate = "run" /\ ~uncertain
  BY DEF Write, ConsoleInv, SentInv, RouteInv, GateInv, Outside, SettledInv,
     Acting, Points
<1>2. CASE sent' = sent BY <1>1, <1>2, QuietActs
<1>3. CASE sent' = Append(sent, "write")
  <2>1. sent' = <<"write">> BY <1>1, <1>3
  <2>2. Len(sent') = 1 /\ sent'[1] = "write" /\ Len(sent) = 0 BY <1>1, <2>1
  <2> QED BY <1>1, <2>2 DEF Acts
<1> QED BY <1>2, <1>3 DEF Write

\* Where a selection is reported, the device was just read running it.
LEMMA ReadingActs ==
    ASSUME ConsoleInv, NEW d \in Readings, ReadDevice(d)
    PROVE  Acts
<1>1. CASE CheckSlot(d) \/ ReadStaged(d) \/ ReadRolled(d)
  <2>1. sent' = sent /\ known' = TRUE /\ device' = d
    BY <1>1 DEF CheckSlot, ReadStaged, ReadRolled, Reads
  <2>2. at' = "end" /\ result' = "ok" => SelectionReached(d, plan')
    <3>1. CASE CheckSlot(d) BY <3>1 DEF CheckSlot, Finish, GoTo
    <3>2. CASE ReadStaged(d)
      <4>1. at' = "end" /\ result' = "ok" =>
              /\ plan' = [plan EXCEPT !.command = "activate"]
              /\ SelectionReached(d, plan)
        BY <3>2 DEF ReadStaged, Finish, GoTo
      <4>2. plan \in [slot : Slots \cup {NoSlot}, version : Versions \cup {0},
                 command : {"none", "switch", "activate", "rollback", "restage",
                            "install"}]
        BY DEF ConsoleInv, TypeOK
      <4> QED BY <4>1, <4>2 DEF SelectionReached
    <3>3. CASE ReadRolled(d) BY <3>3 DEF ReadRolled, Finish, GoTo, SelectionReached
    <3> QED BY <1>1, <3>1, <3>2, <3>3
  <2>3. Len(sent) \in Nat BY DEF ConsoleInv, TypeOK
  <2>4. ~(Len(sent') > Len(sent)) BY <2>1, <2>3
  <2> QED BY <2>1, <2>2, <2>4 DEF Acts
<1>2. CASE ReadOutcome(d)
  <2>1. sent' = sent /\ known' = TRUE /\ device' = d /\ plan' = plan
    BY <1>2 DEF ReadOutcome, Reads
  <2>2. result' = "ok" /\ job.action \in SlotActions => SelectionReached(d, plan)
    BY <1>2 DEF ReadOutcome, Finish, Succeeded, ConsoleInv, RouteInv
  <2>3. Len(sent) \in Nat BY DEF ConsoleInv, TypeOK
  <2>4. ~(Len(sent') > Len(sent)) BY <2>1, <2>3
  <2> QED BY <2>1, <2>2, <2>4 DEF Acts, SelectionReached
<1>3. CASE ReadOnly(d) \/ CheckInstall(d) \/ CheckTrial(d) \/ CheckRemove(d)
  <2>1. sent' = sent
    BY <1>3 DEF ReadOnly, CheckInstall, CheckTrial, CheckRemove, Reads
  <2>2. job.action \notin SlotActions
    BY <1>3 DEF ReadOnly, CheckInstall, CheckTrial, CheckRemove, ConsoleInv,
       RouteInv, SlotActions
  <2> QED BY <2>1, <2>2, QuietActs
<1> QED BY <1>1, <1>2, <1>3 DEF ReadDevice

LEMMA StepActs == ASSUME ConsoleInv, [Next]_vars PROVE Acts
<1>1. CASE \/ UNCHANGED vars \/ Acquire \/ PushBegins \/ PushStep
           \/ \E on \in BOOLEAN : SetAutomatic(on)
           \/ \E r \in Asked : Handle(r)
  <2>1. sent' = sent
    BY <1>1 DEF vars, jobVars, Acquire, PushBegins, PushStep, PushAcquires,
       PushEnds, SetAutomatic, Handle, Enqueue
  <2>2. at' = at \/ at' = "begin"
    BY <1>1 DEF vars, jobVars, Acquire, PushBegins, PushStep, PushAcquires,
       PushEnds, SetAutomatic, Handle, Enqueue
  <2> QED BY <2>1, <2>2, QuietActs
<1>2. CASE RunStep
  <2>1. CASE \E d \in Readings : ReadDevice(d) BY <2>1, ReadingActs
  <2>2. CASE Command BY <2>2, CommandActs
  <2>3. CASE Write BY <2>3, WriteActs
  <2>4. CASE \E outcome \in Outcomes : PushImage(outcome)
    <3>1. sent' = sent /\ job.action \notin SlotActions
      BY <2>4 DEF PushImage, ConsoleInv, RouteInv
    <3> QED BY <3>1, QuietActs
  <2>5. CASE Take \/ End \/ Begin \/ ReadFails \/ RestageRefused
    <3>1. sent' \in {sent, <<>>}
      BY <2>5 DEF Take, End, Forget, Begin, ReadFails, RestageRefused
    <3>2. at' # "end" \/ result' # "ok"
      <4>1. CASE Begin
        <5>1. FirstPoint(job) # "end" BY DEF FirstPoint
        <5> QED BY <4>1, <5>1 DEF Begin, GoTo, Finish
      <4> QED BY <2>5, <4>1 DEF Take, End, ReadFails, RestageRefused, Finish
    <3> QED BY <3>1, <3>2, QuietActs
  <2> QED BY <1>2, <2>1, <2>2, <2>3, <2>4, <2>5 DEF RunStep
<1> QED BY <1>1, <1>2 DEF Next

-----------------------------------------------------------------------------
THEOREM ConsoleInvKept == Spec => []ConsoleInv
<1>1. Init => ConsoleInv BY InitHolds
<1>2. ConsoleInv /\ [Next]_vars => ConsoleInv' BY StepKeeps
<1> QED BY <1>1, <1>2, PTL DEF Spec

(* Whatever clients ask and the device answers, the state of the console keeps
   its shape: one accepted operation at a time, and the channel never holds
   more than that one (console.go:97-171). *)
THEOREM TypeCorrect == Spec => []TypeOK
<1>1. ConsoleInv => TypeOK BY DEF ConsoleInv
<1> QED BY <1>1, ConsoleInvKept, PTL

(* Nothing is changed while an image may still be shown, no command repeats
   another or acts on anything but what the last reading found, and a selection
   is only reported of a device that was read running it (console_slots.go:133,
   console_capabilities.go:96). *)
THEOREM ActsOnReadingsHolds == Spec => ActsOnReadings
<1>1. ConsoleInv /\ [Next]_vars => [Acts]_vars BY StepActs
<1> QED BY <1>1, ConsoleInvKept, PTL DEF Spec, ActsOnReadings, Acts
=============================================================================
