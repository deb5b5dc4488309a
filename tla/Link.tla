--------------------------------- MODULE Link ---------------------------------
(***************************************************************************)
(* internal/aqf/link.go over internal/ble/native.go (withRadio): the one    *)
(* authenticated Bluetooth session of the daemon, shared by image pushes,   *)
(* the console and the aqf command line.                                    *)
(*                                                                         *)
(* Callers hand a call to the goroutine of Run over an unbuffered channel.  *)
(* Run dials; the dial runs its job on the radio goroutine, which serves    *)
(* further calls itself until the session ends.  An exclusive call ends the *)
(* session and is run by Run; it may take the radio itself, with a deadline *)
(* of its own.  withRadio returns when its context ends, that of Run or such *)
(* a deadline, while its goroutine goes on and keeps the radio slot.         *)
(*                                                                         *)
(* Each call is made once; what its work does is left open: it succeeds, is *)
(* refused by the device, loses the link, or breaks off in a native panic.  *)
(***************************************************************************)
EXTENDS Naturals, FiniteSets

CONSTANTS
    Calls,       \* the calls of Do and Exclusive
    Exclusives,  \* those of Exclusive
    NoCall

ASSUME CallsAssumption == Exclusives \subseteq Calls /\ NoCall \notin Calls

VARIABLES
    caller,     \* control point of each caller, in Do or Exclusive
    reply,      \* what was put into each call's channel done
    run,        \* control point of Run
    first,      \* Run: the call it has accepted
    next,       \* Link.next
    radio,      \* control point of the radio goroutine
    work,       \* the call whose work the radio goroutine runs, or will
    claimed,    \* claimed, of the dial that owns the radio goroutine
    operating,  \* an operation of exclusive work has the radio slot
    drop,       \* the token of the channel drop (capacity 1)
    connected,  \* LinkState.Connected
    busy,       \* LinkState.Busy
    running,    \* Run's context is not cancelled
    starts,     \* history: how often each call's work was begun
    lost        \* history: calls whose work broke off in a native panic

callerVars == <<caller, reply>>
runVars == <<run, first, next>>
radioVars == <<radio, work, claimed, operating>>
stateVars == <<connected, busy>>
vars == <<callerVars, runVars, radioVars, stateVars, drop, running, starts,
          lost>>

CallerPoints == {"idle", "offering", "waiting", "returned", "left"}
RunPoints == {"next", "select", "exclusive", "dial", "dialing", "claim", "done"}
RadioPoints == {"idle", "connecting", "connected", "working", "serving", "closing"}

\* The channel done has room for one answer; a second one would block.
Replies == {"none", "ran", "refused", "twice"}

TypeOK ==
    /\ caller \in [Calls -> CallerPoints]
    /\ reply \in [Calls -> Replies]
    /\ run \in RunPoints
    /\ first \in Calls \cup {NoCall}
    /\ next \in Exclusives \cup {NoCall}
    /\ radio \in RadioPoints
    /\ work \in Calls \cup {NoCall}
    /\ claimed \in BOOLEAN
    /\ operating \in BOOLEAN
    /\ drop \in BOOLEAN
    /\ connected \in BOOLEAN
    /\ busy \in BOOLEAN
    /\ running \in BOOLEAN
    /\ starts \in [Calls -> 0..2]
    /\ lost \subseteq Calls

Init ==
    /\ caller = [c \in Calls |-> "idle"]
    /\ reply = [c \in Calls |-> "none"]
    /\ run = "next" /\ first = NoCall /\ next = NoCall
    /\ radio = "idle" /\ work = NoCall /\ claimed = FALSE
    /\ operating = FALSE
    /\ drop = FALSE /\ connected = FALSE /\ busy = FALSE /\ running = TRUE
    /\ starts = [c \in Calls |-> 0]
    /\ lost = {}

-----------------------------------------------------------------------------
(* Callers: Do and Exclusive. *)

Offer(c) ==
    /\ caller[c] = "idle"
    /\ caller' = [caller EXCEPT ![c] = "offering"]
    /\ UNCHANGED <<reply, runVars, radioVars, stateVars, drop, running, starts, lost>>

\* The caller's context ends; an accepted call goes on without it.
Leave(c) ==
    /\ caller[c] \in {"offering", "waiting"}
    /\ caller' = [caller EXCEPT ![c] = "left"]
    /\ UNCHANGED <<reply, runVars, radioVars, stateVars, drop, running, starts, lost>>

TakeReply(c) ==
    /\ caller[c] = "waiting" /\ reply[c] # "none"
    /\ caller' = [caller EXCEPT ![c] = "returned"]
    /\ UNCHANGED <<reply, runVars, radioVars, stateVars, drop, running, starts, lost>>

\* Disconnect: a send that never blocks.
Disconnect ==
    /\ drop' = TRUE
    /\ UNCHANGED <<callerVars, runVars, radioVars, stateVars, running, starts, lost>>

Shutdown ==
    /\ running
    /\ running' = FALSE
    /\ UNCHANGED <<callerVars, runVars, radioVars, stateVars, drop, starts, lost>>

\* The goroutine at the other end of the channel calls takes an offered call.
Accept(c) ==
    /\ caller[c] = "offering"
    /\ caller' = [caller EXCEPT ![c] = "waiting"]

Answer(c, r) ==
    reply' = [reply EXCEPT ![c] = IF @ = "none" THEN r ELSE "twice"]

Begin(c) == starts' = [starts EXCEPT ![c] = IF @ = 0 THEN 1 ELSE 2]

-----------------------------------------------------------------------------
(* Run *)

\* Mutant: the exclusive call that ended the last session is kept.
BugRunNext ==
    /\ run = "next"
    /\ IF next # NoCall
       THEN /\ run' = "exclusive" /\ first' = next /\ busy' = TRUE
            /\ Begin(next)
       ELSE /\ run' = "select"
            /\ UNCHANGED <<first, busy, starts>>
    /\ UNCHANGED <<callerVars, next, radioVars, connected, drop, running, lost>>

\* An exclusive call that ended the last session comes first.
RunNext ==
    /\ run = "next"
    /\ next' = NoCall
    /\ IF next # NoCall
       THEN /\ run' = "exclusive" /\ first' = next /\ busy' = TRUE
            /\ Begin(next)
       ELSE /\ run' = "select"
            /\ UNCHANGED <<first, busy, starts>>
    /\ UNCHANGED <<callerVars, radioVars, connected, drop, running, lost>>

\* Mutant: the context is looked at only after a disconnect.
BugRunStop ==
    /\ run = "select" /\ ~running /\ drop
    /\ run' = "done"
    /\ UNCHANGED <<callerVars, first, next, radioVars, stateVars, drop, running,
                   starts, lost>>

RunStop ==
    /\ run = "select" /\ ~running
    /\ run' = "done"
    /\ UNCHANGED <<callerVars, first, next, radioVars, stateVars, drop, running,
                   starts, lost>>

\* Nothing to disconnect from.
RunDrop ==
    /\ run = "select" /\ drop
    /\ drop' = FALSE
    /\ run' = "next"
    /\ UNCHANGED <<callerVars, first, next, radioVars, stateVars, running, starts, lost>>

RunAccept(c) ==
    /\ run = "select"
    /\ Accept(c)
    /\ first' = c
    /\ busy' = TRUE
    /\ IF c \in Exclusives THEN run' = "exclusive" /\ Begin(c)
       ELSE run' = "dial" /\ UNCHANGED starts
    /\ UNCHANGED <<reply, next, radioVars, connected, drop, running, lost>>

\* runExclusive.  The work has returned; an operation that it left at a deadline
\* goes on.
ExclusiveEnds ==
    /\ run = "exclusive"
    /\ Answer(first, "ran")
    /\ busy' = FALSE
    /\ first' = NoCall
    /\ run' = "next"
    /\ UNCHANGED <<caller, next, radioVars, connected, drop, running, starts, lost>>

\* The one radio slot, for which dials and exclusive work wait.
RadioFree == radio = "idle" /\ ~operating

\* Mutant: the dial does not wait for the slot.
BugDial ==
    /\ run = "dial" /\ radio = "idle" /\ running
    /\ run' = "dialing"
    /\ radio' = "connecting" /\ work' = first /\ claimed' = FALSE
    /\ UNCHANGED <<callerVars, first, next, operating, stateVars, drop, running,
                   starts, lost>>

\* The dial takes the radio slot and starts its goroutine, which goes nowhere
\* once the context has ended.
Dial ==
    /\ run = "dial" /\ RadioFree /\ running
    /\ run' = "dialing"
    /\ radio' = "connecting" /\ work' = first /\ claimed' = FALSE
    /\ UNCHANGED <<callerVars, first, next, operating, stateVars, drop, running,
                   starts, lost>>

\* Mutant: the state keeps its session.
BugDisconnected ==
    /\ busy' = FALSE
    /\ first' = NoCall
    /\ run' = "next"
    /\ UNCHANGED connected

\* disconnected, and what precedes it at the end of a dial.
Disconnected ==
    /\ connected' = FALSE /\ busy' = FALSE
    /\ first' = NoCall
    /\ run' = "next"

\* There is no pairing, or the context ends while the radio slot is taken.
DialRefused ==
    /\ run = "dial"
    /\ Answer(first, "refused")
    /\ Disconnected
    /\ UNCHANGED <<caller, next, radioVars, drop, running, starts, lost>>

\* Mutant: the dial has a deadline of its own.
BugAbandonDial ==
    /\ run = "dialing"
    /\ run' = "claim"
    /\ UNCHANGED <<callerVars, first, next, radioVars, stateVars, drop, running,
                   starts, lost>>

\* withRadio returns when the context ends, the radio goroutine does not.
AbandonDial ==
    /\ run = "dialing" /\ ~running
    /\ run' = "claim"
    /\ UNCHANGED <<callerVars, first, next, radioVars, stateVars, drop, running,
                   starts, lost>>

\* Mutant: Run answers its first call whatever happened to the session.
BugClaim ==
    /\ run = "claim"
    /\ claimed' = TRUE
    /\ Answer(first, "refused")
    /\ Disconnected
    /\ UNCHANGED <<caller, next, radio, work, operating, drop, running, starts, lost>>

\* After the dial: a first call that nobody has claimed is answered.
Claim ==
    /\ run = "claim"
    /\ claimed' = TRUE
    /\ IF claimed THEN UNCHANGED reply ELSE Answer(first, "refused")
    /\ Disconnected
    /\ UNCHANGED <<caller, next, radio, work, operating, drop, running, starts, lost>>

Run ==
    \/ RunNext \/ RunStop \/ RunDrop \/ (\E c \in Calls : RunAccept(c))
    \/ ExclusiveEnds \/ Dial \/ DialRefused \/ AbandonDial \/ Claim

-----------------------------------------------------------------------------
(* The radio goroutine: withRadio, and the job that Run hands to the dial. *)

\* The goroutine ends and frees the radio; a dial that still waits returns.
RadioEnds ==
    /\ radio' = "idle" /\ work' = NoCall
    /\ run' = IF run = "dialing" THEN "claim" ELSE run

\* The device is not found, does not connect or does not authenticate.
ConnectFails ==
    /\ radio = "connecting"
    /\ RadioEnds
    /\ UNCHANGED <<callerVars, first, next, claimed, operating, stateVars, drop, running,
                   starts, lost>>

\* The job begins, perhaps after the dial has returned.
Connect ==
    /\ radio = "connecting"
    /\ claimed' = TRUE
    /\ radio' = IF claimed THEN "closing" ELSE "connected"
    /\ UNCHANGED <<callerVars, runVars, work, operating, stateVars, drop, running,
                   starts, lost>>

\* connected, and the first call.
Connected ==
    /\ radio = "connected"
    /\ radio' = "working"
    /\ connected' = TRUE /\ busy' = TRUE
    /\ Begin(work)
    /\ UNCHANGED <<callerVars, runVars, work, claimed, operating, drop, running, lost>>

\* The work returns; a transport failure ends the session.
WorkEnds ==
    /\ radio = "working"
    /\ Answer(work, "ran")
    /\ busy' = FALSE
    /\ work' = NoCall
    /\ radio' \in {"serving", "closing"}
    /\ UNCHANGED <<caller, runVars, claimed, operating, connected, drop, running,
                   starts, lost>>

\* The platform panics in the work and containNativeFailure recovers: the
\* session ends, and the call is never answered.
WorkPanics ==
    /\ radio = "working"
    /\ lost' = lost \cup {work}
    /\ work' = NoCall
    /\ radio' = "closing"
    /\ UNCHANGED <<callerVars, runVars, claimed, operating, stateVars, drop, running,
                   starts>>

\* serve ends: the context, idle time or a failed ping.
ServeEnds ==
    /\ radio = "serving"
    /\ radio' = "closing"
    /\ UNCHANGED <<callerVars, runVars, work, claimed, operating, stateVars, drop,
                   running,
                   starts, lost>>

ServeDrop ==
    /\ radio = "serving" /\ drop
    /\ drop' = FALSE
    /\ radio' = "closing"
    /\ UNCHANGED <<callerVars, runVars, work, claimed, operating, stateVars, running,
                   starts, lost>>

\* Mutant: every call ends the session and is left to Run.
BugHandOver(c) ==
    /\ radio = "serving"
    /\ Accept(c)
    /\ next' = c /\ radio' = "closing"
    /\ UNCHANGED <<reply, run, first, work, claimed, operating, stateVars, drop, running,
                   starts, lost>>

\* serve takes a call; an exclusive one is left to Run.
ServeAccept(c) ==
    /\ radio = "serving"
    /\ Accept(c)
    /\ IF c \in Exclusives
       THEN next' = c /\ radio' = "closing" /\ UNCHANGED <<work, busy, starts>>
       ELSE /\ radio' = "working" /\ work' = c /\ busy' = TRUE /\ Begin(c)
            /\ UNCHANGED next
    /\ UNCHANGED <<reply, run, first, claimed, operating, connected, drop, running, lost>>

\* The deferred closeLink and cleanup.
Close ==
    /\ radio = "closing"
    /\ RadioEnds
    /\ UNCHANGED <<callerVars, first, next, claimed, operating, stateVars, drop, running,
                   starts, lost>>

\* Exclusive work has withRadio run an operation of its own: a scan, a pairing,
\* a session with the frame.  Other such work, a USB flash, takes no radio.
Operate ==
    /\ run = "exclusive" /\ RadioFree
    /\ operating' = TRUE
    /\ UNCHANGED <<callerVars, runVars, radio, work, claimed, stateVars, drop,
                   running, starts, lost>>

\* The operation ends and frees the slot, whether or not the work that began it
\* has waited so long.
OperationEnds ==
    /\ operating
    /\ operating' = FALSE
    /\ UNCHANGED <<callerVars, runVars, radio, work, claimed, stateVars, drop,
                   running, starts, lost>>

Radio ==
    \/ ConnectFails \/ Connect \/ Connected \/ WorkEnds \/ WorkPanics
    \/ ServeDrop \/ (\E c \in Calls : ServeAccept(c)) \/ Close
    \/ OperationEnds

Next ==
    \/ \E c \in Calls : Offer(c) \/ Leave(c) \/ TakeReply(c)
    \/ Disconnect \/ Shutdown
    \/ Run \/ Radio \/ ServeEnds \/ Operate

Spec == Init /\ [][Next]_vars

\* The Go scheduler runs both goroutines, the platform's Bluetooth calls return
\* sooner or later, and select chooses at random among its ready cases, so neither
\* a cancelled context nor an offered call is overlooked for ever.  A session
\* without calls may last; it ends when the context does.
Fairness ==
    /\ WF_vars(Run) /\ SF_vars(RunStop)
    /\ WF_vars(Radio) /\ WF_vars(~running /\ ServeEnds)
    /\ \A c \in Calls : SF_vars(RunAccept(c) \/ ServeAccept(c))

FairSpec == Spec /\ Fairness

-----------------------------------------------------------------------------
(* Properties *)

\* Work is never repeated and a call is answered once, whether Run or the
\* radio goroutine gets to it (the comments of Do and claimed).  A call that was
\* told that its dial failed has not run and never will: a late connection does
\* not run what its caller may be repeating by now.
RunsOnce ==
    \A c \in Calls :
        /\ starts[c] <= 1 /\ reply[c] # "twice"
        /\ reply[c] = "refused" => starts[c] = 0

\* Until the daemon stops, no session is open, opening or closing while exclusive
\* work runs (the comment of Exclusive); nor ever while an operation of such work
\* has the radio, which may outlast the work by far (withRadio's slot).  That
\* exclusive work is never beside an operation that earlier exclusive work has
\* left is not claimed: work that takes no radio is not kept from it.
ExclusiveAlone ==
    /\ (running /\ run = "exclusive") => radio = "idle"
    /\ operating => radio = "idle"

\* What State reports until the daemon stops: connected is never true without
\* a session, and busy is true whenever work runs.
StateHonest ==
    running =>
        /\ connected => (radio \in {"working", "serving", "closing"} \/ run = "claim")
        /\ (radio = "working" \/ run = "exclusive") => busy

\* Answered, or broken off by a panic: then only the caller's own deadline helps.
Settled(c) == reply[c] # "none" \/ c \in lost

\* Every call that was offered is settled, unless its caller leaves before
\* anybody takes it or the daemon stops: exclusive hand-over, dials that fail and
\* sessions that end in between lose none.  An accepted call is settled even
\* when its caller has left.
CallsAnswered ==
    \A c \in Calls :
        /\ (caller[c] = "offering") ~> (Settled(c) \/ caller[c] = "left" \/ ~running)
        /\ (caller[c] = "waiting") ~> (Settled(c) \/ ~running)

\* Run returns after its context has ended, whatever is offered to it.
StopsOnShutdown == ~running ~> run = "done"

\* Refinement: one executor that runs every call at most once, one at a time.
\* Work that broke off has run as far as the device is concerned.
Stage(c) ==
    IF reply[c] \in {"ran", "refused"} THEN reply[c]
    ELSE IF c \in lost THEN "ran"
    ELSE IF starts[c] # 0 THEN "running" ELSE "waiting"

Serial == INSTANCE SerialCalls WITH
    state <- [c \in Calls |-> Stage(c)],
    session <- (radio # "idle"),
    operating <- operating,
    stopping <- ~running

ImplementsSerial == Serial!Spec
=============================================================================
