------------------------------ MODULE WebPairing ------------------------------
(***************************************************************************)
(* Connecting in the web companion: connectDevice and forget of main.ts,    *)
(* pairDevice, waitForApproval and connectPaired of pairing.ts, and the     *)
(* pairing records of bonds.ts, under the tabs and the lock of WebSender.   *)
(*                                                                         *)
(* A relationship is the number of the ceremony that made it.  Each step is *)
(* one exchange with the frame or one IndexedDB transaction.  The lock lets *)
(* one tab at a time connect, so that the locals of pairDevice exist once.  *)
(***************************************************************************)
EXTENDS WebSender

CONSTANT MaxBonds  \* bound: pairing ceremonies

ASSUME BondsAssumption == MaxBonds \in Nat

VARIABLES
    candidate,  \* the object store "candidates": a relationship, or 0
    active,     \* the object store "bonds"
    point,      \* control point of the tab that connects
    rec,        \* the relationship it works with
    fresh,      \* whether its phase is "pending"
    phase,      \* the frame's pairing state
    owner,      \* the relationship that phase is about, 0 if not this browser's
    bonds,      \* ceremonies so far
    approved,   \* history: relationships that the frame's button has approved
    forgotten   \* history: relationships that a person has forgotten here

recordVars == <<candidate, active>>
localVars == <<point, rec, fresh>>
frameVars == <<phase, owner, bonds>>
historyVars == <<approved, forgotten>>
pairVars == <<recordVars, localVars, frameVars, historyVars>>
allVars == <<vars, pairVars>>

\* As in the pairing of the host; "over" is cancelled or expired.
Phases == {"unbound", "ready", "armed", "bound", "over"}

PairPoints == {"none", "look", "ceremony", "save", "poll", "auth", "confirm", "discard"}

PairTypeOK ==
    /\ candidate \in 0..bonds /\ active \in 0..bonds
    /\ point \in PairPoints /\ rec \in 0..bonds /\ fresh \in BOOLEAN
    /\ phase \in Phases /\ owner \in 0..bonds /\ bonds \in 0..MaxBonds
    /\ approved \subseteq 1..bonds /\ forgotten \subseteq 1..bonds

PairInit ==
    /\ Init
    /\ candidate = 0 /\ active = 0 /\ point = "none" /\ rec = 0 /\ fresh = FALSE
    /\ phase = "unbound" /\ owner = 0 /\ bonds = 0 /\ approved = {} /\ forgotten = {}

-----------------------------------------------------------------------------
(* The frame, and what other clients and its owner do with it.               *)

\* The short press that approves the code on the display.
Button ==
    /\ phase = "armed"
    /\ phase' = "bound" /\ approved' = approved \cup ({owner} \ {0})
    /\ UNCHANGED <<vars, recordVars, localVars, owner, bonds, forgotten>>

\* An attempt expires; the long press and a restart end one, too, or a pairing;
\* another client pairs.
FrameChanges ==
    /\ \/ phase \in {"ready", "armed"} /\ phase' = "over" /\ UNCHANGED owner
       \/ phase # "unbound" /\ phase' = "unbound" /\ owner' = 0
       \/ phase \in {"unbound", "over"} /\ phase' \in {"armed", "bound"} /\ owner' = 0
    /\ UNCHANGED <<vars, recordVars, localVars, bonds, historyVars>>

-----------------------------------------------------------------------------
(* Connecting. *)

\* IndexedBondStore.get, which reads both object stores in one transaction.
Saved == IF candidate # 0 THEN candidate ELSE active

Begin(t) ==
    /\ Connect(t) /\ point' = "look"
    /\ UNCHANGED <<recordVars, rec, fresh, frameVars, historyVars>>

\* pairControl: only a frame that holds the secret signs, for this connection.
Signed == owner = rec

\* authenticateBond: a proof, which only the owner of a bound frame is given.
Proved == phase = "bound" /\ Signed

At(t, from) == at[t] = "connecting" /\ point = from

Go(to) == point' = to /\ UNCHANGED <<vars, rec, fresh>>

\* What pairDevice does about the pairing state that the frame reports; what is
\* not named here is refused.  A quiet connection takes a paired record as it is.
Look(t) ==
    /\ At(t, "look")
    /\ rec' = Saved /\ fresh' = (candidate # 0)
    /\ \/ Saved # 0 /\ ~fresh' /\ point' = "auth"
       \/ Saved # 0 /\ owner = Saved /\ phase = "bound" /\ point' = "auth"
       \/ fresh' /\ owner = Saved /\ phase \in {"ready", "armed", "over"} /\ point' = "poll"
       \/ ~fresh' /\ phase \in {"unbound", "over"} /\ point' = "ceremony"
    /\ UNCHANGED <<vars, recordVars, frameVars, historyVars>>

\* Commit and reveal: both sides hold a new secret, the display is dark.
Ceremony(t) ==
    /\ At(t, "ceremony") /\ phase \in {"unbound", "over"} /\ bonds < MaxBonds
    /\ bonds' = bonds + 1 /\ phase' = "ready" /\ owner' = bonds'
    /\ rec' = bonds' /\ fresh' = TRUE /\ point' = "save"
    /\ UNCHANGED <<vars, recordVars, historyVars>>

\* A candidate that is there already is not overwritten.
PutCandidate(t) ==
    /\ At(t, "save") /\ candidate = 0
    /\ candidate' = rec /\ Go("poll")
    /\ UNCHANGED <<active, frameVars, historyVars>>

\* One round of waitForApproval; its first proof arms the display.
Poll(t) ==
    /\ At(t, "poll") /\ Signed
    /\ phase' = IF phase = "ready" THEN "armed" ELSE phase
    /\ CASE phase = "bound" -> Go("auth") [] phase = "over" -> Go("discard")
         [] OTHER -> Go("poll")
    /\ UNCHANGED <<recordVars, owner, bonds, historyVars>>

\* Mutant: a cancellation is taken for granted.
BugCancelPairing(t) ==
    /\ At(t, "poll")
    /\ \/ /\ Signed /\ phase \in {"ready", "armed", "over"}
          /\ phase' = "over" /\ Go("discard")
       \/ Go("discard") /\ UNCHANGED phase
    /\ UNCHANGED <<recordVars, owner, bonds, historyVars>>

\* The person cancels, which is noticed between two rounds.  An answer that is not
\* signed, or none, proves nothing: the frame may have been approved before.
CancelPairing(t) ==
    /\ At(t, "poll")
    /\ \/ /\ Signed /\ phase \in {"ready", "armed", "over"}
          /\ phase' = "over" /\ Go("discard")
       \/ Go("auth") /\ UNCHANGED phase
    /\ UNCHANGED <<recordVars, owner, bonds, historyVars>>

\* discardCandidate, and the error that tells of the cancellation or expiry.
DiscardCandidate(t) ==
    /\ At(t, "discard") /\ candidate = rec
    /\ candidate' = 0 /\ point' = "none" /\ rec' = 0 /\ fresh' = FALSE
    /\ Disconnect(t)
    /\ UNCHANGED <<active, frameVars, historyVars>>

\* The session is open.
Open(t) == Connected(t) /\ point' = "none" /\ rec' = 0 /\ fresh' = FALSE

\* connectPaired: a pending record is to be confirmed.
Authenticate(t) ==
    /\ At(t, "auth") /\ Proved
    /\ IF fresh THEN Go("confirm") ELSE Open(t)
    /\ UNCHANGED <<recordVars, frameVars, historyVars>>

\* confirm: both object stores in one transaction.
Confirm(t) ==
    /\ At(t, "confirm") /\ candidate = rec
    /\ active' = rec /\ candidate' = 0 /\ Open(t)
    /\ UNCHANGED <<frameVars, historyVars>>

\* An exchange or a transaction fails, pairDevice refuses, time is up, or the page
\* goes: what was stored stays.
Abandon(t) ==
    /\ Leave(t)
    /\ IF at[t] = "connecting" THEN point' = "none" /\ rec' = 0 /\ fresh' = FALSE
                               ELSE UNCHANGED localVars
    /\ UNCHANGED <<recordVars, frameVars, historyVars>>

\* Under the lock, by a page that is not connected.
Forget(t) ==
    /\ at[t] = "idle" /\ lock = 0 /\ Saved # 0
    /\ candidate' = 0 /\ active' = 0
    /\ forgotten' = forgotten \cup ({candidate, active} \ {0})
    /\ UNCHANGED <<vars, localVars, frameVars, approved>>

PairingStep(t) ==
    \/ Begin(t) \/ Look(t) \/ Ceremony(t) \/ PutCandidate(t) \/ Poll(t)
    \/ CancelPairing(t) \/ DiscardCandidate(t) \/ Authenticate(t) \/ Confirm(t)
    \/ Abandon(t) \/ Forget(t)

PairNext ==
    \/ Button \/ FrameChanges
    \/ \E t \in Tabs : PairingStep(t) \/ (SendingStep(t) /\ UNCHANGED pairVars)

PairSpec == PairInit /\ [][PairNext]_allVars

-----------------------------------------------------------------------------
(* Wherever a page is closed, a link is lost or a person cancels: what the frame
   shows for approval, or was approved for, is the relationship that this browser
   loads, until a person forgets it; and a record says "paired" only of one that
   was approved (pairing.ts:89-105 and 114). *)
PairingKept ==
    /\ phase \in {"armed", "bound"} /\ owner # 0 => owner \in forgotten \cup {Saved}
    /\ active # 0 => active \in approved
=============================================================================
