------------------------------- MODULE Refresh -------------------------------
(***************************************************************************)
(* internal/service/service.go and Client.Fetch of internal/cliproxy: the   *)
(* refresh loop of the daemon and single refreshes made by others (the      *)
(* console, or the browser's Collect) over one Service, whose completed     *)
(* refreshes are handed to an observer.                                     *)
(*                                                                         *)
(* refreshMu admits one refresh; within it a goroutine per account asks its *)
(* provider, MaxConcurrent at a time.  Only the contexts of the others are  *)
(* cancelled; cancelling the loop is the end of the program.                *)
(***************************************************************************)
EXTENDS Retention, FiniteSets

CONSTANTS
    Accounts,
    Loop,           \* the caller that runs Service.Run
    Others,         \* callers of one refresh each
    NoCaller,
    MaxConcurrent,  \* Client.maxConcurrent
    MaxRefresh,     \* bound on the refreshes made
    Entries,        \* what the listing may hold for each account
    Replies         \* what the provider of each may answer

ASSUME RefreshAssumption ==
    /\ Adapters \subseteq Accounts
    /\ NoCaller \notin Others \cup {Loop} /\ Loop \notin Others
    /\ MaxConcurrent \in Nat \ {0} /\ MaxRefresh \in Nat
    /\ \A a \in Accounts : Entries[a] \subseteq
          [kind : {"live", "disabled", "noindex"}, base : Signals, model : Signals]
    /\ \A a \in Accounts : Replies[a] \subseteq [windows : Windows, cards : CardLists]

VARIABLES
    pc,         \* control point of each caller
    live,       \* the callers whose context has not ended
    holder,     \* the holder of refreshMu
    entries,    \* Fetch: the visible entries of the listing
    worker,     \* Fetch: the goroutine of each account
    fetched,    \* Fetch: the accounts it fills in
    failure,    \* Refresh: whether err is set
    snapshot,   \* Service.snapshot
    hasData,    \* Service.hasData
    ready,      \* Service.ready
    print,      \* Service.fingerprint
    carry,      \* Refresh: the clone it hands to the observer
    mail,       \* the last call of the observer
    clock       \* the number of refreshes begun, which is also the time

fetchVars == <<entries, worker, fetched, failure>>
serviceVars == <<snapshot, hasData, ready, print>>
vars == <<pc, live, holder, fetchVars, serviceVars, carry, mail, clock>>

Callers == Others \cup {Loop}

CallerPoints == {"idle", "lock", "list", "fetch", "usage", "observe", "done"}

Usages == {"nil", "read"}

NoAccounts == [a \in {} |-> Blank]

NoSnapshot ==
    [n |-> 0, updated |-> 0, fresh |-> 0, stale |-> FALSE, usage |-> "nil",
     accounts |-> NoAccounts, errors |-> {}, failed |-> FALSE]

NoMail == [n |-> 0, good |-> FALSE, key |-> ContentKey(NoSnapshot)]

TypeOK ==
    /\ pc \in [Callers -> CallerPoints]
    /\ live \subseteq Callers
    /\ holder \in Callers \cup {NoCaller}
    /\ DOMAIN entries \subseteq Accounts
    /\ \A a \in DOMAIN entries : entries[a] \in Entries[a]
    /\ worker \in [Accounts -> {"none", "waiting", "working", "done"}]
    /\ fetched \in [DOMAIN entries -> Records]
    /\ failure \in BOOLEAN
    /\ DOMAIN snapshot.accounts \subseteq Accounts
    /\ \A a \in DOMAIN snapshot.accounts : snapshot.accounts[a] \in Records
    /\ snapshot.n \in Nat /\ snapshot.updated \in Nat /\ snapshot.fresh \in Nat
    /\ snapshot.stale \in BOOLEAN /\ snapshot.failed \in BOOLEAN
    /\ snapshot.usage \in Usages /\ snapshot.errors \subseteq Accounts
    /\ hasData \in BOOLEAN /\ ready \in BOOLEAN
    /\ carry.n \in Nat /\ carry.good \in BOOLEAN
    /\ mail.n \in Nat /\ mail.good \in BOOLEAN
    /\ clock \in Nat

Init ==
    /\ pc = [c \in Callers |-> "idle"]
    /\ live = Callers
    /\ holder = NoCaller
    /\ entries = NoAccounts
    /\ worker = [a \in Accounts |-> "none"]
    /\ fetched = NoAccounts
    /\ failure = FALSE
    /\ snapshot = NoSnapshot
    /\ hasData = FALSE
    /\ ready = FALSE
    /\ print = Visible(NoSnapshot)
    /\ carry = NoMail
    /\ mail = NoMail
    /\ clock = 0

GoTo(c, point) == pc' = [pc EXCEPT ![c] = point]

Left(c) == IF c = Loop THEN "idle" ELSE "done"

\* Refresh returns; the deferred unlock comes last.
Return(c) == GoTo(c, Left(c)) /\ holder' = NoCaller

\* The locals of Fetch and Refresh are gone.
ForgetFetch ==
    /\ entries' = NoAccounts /\ fetched' = NoAccounts /\ failure' = FALSE
    /\ worker' = [a \in Accounts |-> "none"]

-----------------------------------------------------------------------------
Call(c) ==
    /\ pc[c] = "idle"
    /\ GoTo(c, "lock")
    /\ UNCHANGED <<live, holder, fetchVars, serviceVars, carry, mail, clock>>

\* The context of a console operation or of a collection ends.  Later on it
\* can only make fetchUsage fail, which it may do anyway.
Cancel(c) ==
    /\ c \in Others \cap live /\ pc[c] \in {"lock", "list", "fetch"}
    /\ live' = live \ {c}
    /\ UNCHANGED <<pc, holder, fetchVars, serviceVars, carry, mail, clock>>

Lock(c) ==
    /\ pc[c] = "lock" /\ holder = NoCaller /\ clock < MaxRefresh
    /\ holder' = c
    /\ clock' = clock + 1
    /\ GoTo(c, "list")
    /\ UNCHANGED <<live, fetchVars, serviceVars, carry, mail>>

\* listAuthFiles answers: one goroutine for each visible entry.
List(c) ==
    /\ pc[c] = "list"
    /\ \E visible \in SUBSET Accounts :
          entries' \in {f \in [visible -> UNION {Entries[a] : a \in visible}] :
                          \A a \in visible : f[a] \in Entries[a]}
    /\ worker' = [a \in Accounts |->
                     IF a \in DOMAIN entries' THEN "waiting" ELSE "none"]
    /\ fetched' = [a \in DOMAIN entries' |-> Blank]
    /\ GoTo(c, "fetch")
    /\ UNCHANGED <<live, holder, failure, serviceVars, carry, mail, clock>>

\* Mutant: the early return keeps the mutex.
BugListFails(c, contextError) ==
    /\ pc[c] = "list"
    /\ IF contextError /\ c \notin live
       THEN GoTo(c, Left(c)) /\ UNCHANGED <<failure, holder>>
       ELSE GoTo(c, "usage") /\ failure' = TRUE /\ UNCHANGED holder
    /\ UNCHANGED <<live, entries, worker, fetched, serviceVars, carry, mail,
                   clock>>

\* The listing fails.  Refresh ends without a trace only if the error is one of
\* a context and the caller's own has ended: a timeout of the HTTP client, or
\* an answer broken off while it was read, counts as a failed refresh.
ListFails(c, contextError) ==
    /\ pc[c] = "list"
    /\ IF contextError /\ c \notin live
       THEN Return(c) /\ UNCHANGED failure
       ELSE GoTo(c, "usage") /\ failure' = TRUE /\ UNCHANGED holder
    /\ UNCHANGED <<live, entries, worker, fetched, serviceVars, carry, mail,
                   clock>>

Working == {a \in Accounts : worker[a] = "working"}

\* A goroutine gets a place of the semaphore, or sees the context end.
Admit(c, a) ==
    /\ pc[c] = "fetch" /\ worker[a] = "waiting"
    /\ Cardinality(Working) < MaxConcurrent
    /\ worker' = [worker EXCEPT ![a] = "working"]
    /\ UNCHANGED <<pc, live, holder, entries, fetched, failure, serviceVars,
                   carry, mail, clock>>

GiveUp(c, a) ==
    /\ pc[c] = "fetch" /\ worker[a] = "waiting" /\ c \notin live
    /\ fetched' = [fetched EXCEPT ![a] = Cancelled]
    /\ worker' = [worker EXCEPT ![a] = "done"]
    /\ UNCHANGED <<pc, live, holder, entries, failure, serviceVars, carry,
                   mail, clock>>

\* A request made after the context ended fails; one before may still answer.
Ask(c, a) ==
    /\ pc[c] = "fetch" /\ worker[a] = "working"
    /\ \E reply \in Replies[a] :
          fetched' = [fetched EXCEPT ![a] = FetchAccount(a, entries[a], reply, clock)]
    /\ worker' = [worker EXCEPT ![a] = "done"]
    /\ UNCHANGED <<pc, live, holder, entries, failure, serviceVars, carry,
                   mail, clock>>

\* wg.Wait is over; if the context has ended by now, Fetch fails with it.
Fetched(c) ==
    /\ pc[c] = "fetch" /\ \A a \in Accounts : worker[a] \in {"none", "done"}
    /\ IF c \in live
       THEN GoTo(c, "usage") /\ UNCHANGED <<holder, fetchVars>>
       ELSE Return(c) /\ ForgetFetch
    /\ UNCHANGED <<live, serviceVars, carry, mail, clock>>

-----------------------------------------------------------------------------
(* The part of Refresh under Service.mu; usage is what fetchUsage returned. *)

Letter(next, good) == [n |-> next.n, good |-> good, key |-> ContentKey(next)]

FetchErrors == {a \in DOMAIN fetched :
                   \/ fetched[a].error # "none"
                   \/ fetched[a].warning # "none" /\ a \in Adapters}

FirstFailure == [NoSnapshot EXCEPT !.n = clock, !.updated = clock,
                                   !.stale = TRUE, !.failed = TRUE]

\* Mutant: a failed listing leaves the snapshot unmarked.
BugAfterFailure(usage) ==
    LET failed == [snapshot EXCEPT !.n = clock, !.errors = {}, !.failed = TRUE]
    IN  [failed EXCEPT !.updated = IF Visible(failed) = print THEN @ ELSE clock]

AfterFailure(usage) ==
    LET failed == [snapshot EXCEPT !.n = clock, !.stale = TRUE, !.errors = {},
                                   !.failed = TRUE,
                                   !.usage = IF usage = "nil" THEN @ ELSE usage]
    IN  [failed EXCEPT !.updated = IF Visible(failed) = print THEN @ ELSE clock]

AfterFetch(usage) ==
    LET unavailable == AllQuotaUnavailable(fetched)
        next ==
            [n |-> clock, updated |-> clock, stale |-> unavailable,
             fresh |-> IF unavailable THEN snapshot.fresh ELSE clock,
             usage |-> IF usage = "nil" THEN snapshot.usage ELSE usage,
             accounts |-> IF hasData THEN RetainBestKnown(fetched, snapshot.accounts)
                                     ELSE fetched,
             errors |-> FetchErrors, failed |-> FALSE]
        same == hasData /\ Visible(next) = print /\ snapshot.updated # 0
    IN  [next EXCEPT !.updated = IF same THEN snapshot.updated ELSE clock]

\* Mutant: refreshMu is released before the observer is called.
BugApply(c, usage) ==
    /\ pc[c] = "usage"
    /\ snapshot' = IF ~failure THEN AfterFetch(usage)
                   ELSE IF hasData THEN AfterFailure(usage)
                   ELSE FirstFailure
    /\ print' = Visible(snapshot')
    /\ hasData' = TRUE
    /\ ready' = (ready \/ ~failure)
    /\ carry' = Letter(snapshot', ~failure)
    /\ GoTo(c, "observe")
    /\ ForgetFetch
    /\ holder' = NoCaller
    /\ UNCHANGED <<live, mail, clock>>

\* Mutant: a failed refresh does not record the content it shows.
BugPrint(c, usage) ==
    /\ pc[c] = "usage"
    /\ snapshot' = IF ~failure THEN AfterFetch(usage)
                   ELSE IF hasData THEN AfterFailure(usage)
                   ELSE FirstFailure
    /\ print' = IF failure THEN print ELSE Visible(snapshot')
    /\ hasData' = TRUE
    /\ ready' = (ready \/ ~failure)
    /\ carry' = Letter(snapshot', ~failure)
    /\ GoTo(c, "observe")
    /\ ForgetFetch
    /\ UNCHANGED <<live, holder, mail, clock>>

Apply(c, usage) ==
    /\ pc[c] = "usage"
    /\ snapshot' = IF ~failure THEN AfterFetch(usage)
                   ELSE IF hasData THEN AfterFailure(usage)
                   ELSE FirstFailure
    /\ print' = Visible(snapshot')
    /\ hasData' = TRUE
    /\ ready' = (ready \/ ~failure)
    /\ carry' = Letter(snapshot', ~failure)
    /\ GoTo(c, "observe")
    /\ ForgetFetch
    /\ UNCHANGED <<live, holder, mail, clock>>

\* The observer is called after mu is released, still under refreshMu.
Observe(c) ==
    /\ pc[c] = "observe"
    /\ mail' = carry
    /\ carry' = NoMail
    /\ Return(c)
    /\ UNCHANGED <<live, fetchVars, serviceVars, clock>>

-----------------------------------------------------------------------------
FetchStep(c) ==
    \/ List(c) \/ Fetched(c)
    \/ \E contextError \in BOOLEAN : ListFails(c, contextError)
    \/ \E a \in Accounts : Admit(c, a) \/ GiveUp(c, a) \/ Ask(c, a)

ApplyStep(c) == \E usage \in Usages : Apply(c, usage)

CallerStep(c) == Call(c) \/ Lock(c) \/ FetchStep(c) \/ ApplyStep(c) \/ Observe(c)

Next == \E c \in Callers : CallerStep(c) \/ Cancel(c)

Spec == Init /\ [][Next]_vars

(***************************************************************************)
(* Every request has a timeout and the observer does not block, so what is  *)
(* begun goes on; Go hands a contended mutex to every waiter in the end.    *)
(***************************************************************************)
Fairness ==
    /\ \A c \in Callers : WF_vars(FetchStep(c) \/ ApplyStep(c) \/ Observe(c))
    /\ WF_vars(Lock(Loop))
    /\ \A c \in Others : SF_vars(Lock(c))

FairSpec == Spec /\ Fairness

-----------------------------------------------------------------------------
Shown == {a \in DOMAIN snapshot.accounts : snapshot.accounts[a].windows # "none"}

(* In a snapshot that is not marked stale, windows of an account that is not
   marked stale were read in that very refresh: what was kept, came from
   headers, or survived a failed listing, never looks fresh (service.go:253).
   No placeholder of a cancelled goroutine is in it (client.go:165). *)
OldNeverLooksFresh ==
    \A a \in DOMAIN snapshot.accounts :
        LET x == snapshot.accounts[a]
        IN  /\ x.error # "cancelled"
            /\ ~snapshot.stale /\ ~x.stale /\ a \in Shown => x.at = snapshot.n

(* Windows shown for an account are replaced by windows at least as new, or
   read in this refresh: a provider's error, or headers seen earlier, never
   take a newer observation away.  Only an account that is disabled, unlisted
   or without its auth index loses them (service.go:253). *)
NewerThan(y, x, n) == y.windows # "none" /\ (y.fresh = n \/ Newest(y) >= Newest(x))

ShownNeverOlder ==
    [][\A a \in Shown \cap DOMAIN snapshot'.accounts :
          LET x == snapshot.accounts[a]  y == snapshot'.accounts[a]
          IN  \/ y.status = "disabled" \/ y.error = "noindex"
              \/ NewerThan(y, x, snapshot'.n)]_snapshot

(* The observer gets the refreshes in their order, each with the clone made of
   it, though it is called after mu was released (service.go:169): what it
   last heard of is the snapshot unless a refresh has still to tell. *)
DeliveredInOrder ==
    hasData /\ (\A c \in Callers : pc[c] # "observe")
        => mail.n = snapshot.n /\ mail.key = ContentKey(snapshot)

(* The time shown with the data, which is part of the key under which a frame
   is rendered, moves exactly when something else on the frame changed: no
   refresh draws an unchanged frame again, and no change goes undrawn
   (service.go:160 and 177, producer.go:50). *)
DrawnOnChange ==
    [][hasData => (snapshot'.updated = snapshot.updated
                     <=> Visible(snapshot') = Visible(snapshot))]_snapshot

(* A caller that asks for a refresh gets to the end of one, whatever the
   providers, the contexts and the other callers do, unless MaxRefresh keeps it
   from beginning. *)
RefreshEnds ==
    \A c \in Callers :
        pc[c] = "lock"
            ~> pc[c] = Left(c) \/ (pc[c] = "lock" /\ clock = MaxRefresh)
=============================================================================
