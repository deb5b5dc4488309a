------------------------------ MODULE Retention ------------------------------
(***************************************************************************)
(* What one refresh makes of one account: Client.fetchAccount and           *)
(* passiveWindows of internal/cliproxy, the retention of the last good      *)
(* windows in internal/service, and the identity of visible content that    *)
(* service.go and frame/producer.go compute.                                *)
(*                                                                         *)
(* The windows of an account stand as one level with one time; a reset card *)
(* list as unread, empty or not.  Times count refreshes, 0 is a nil time.   *)
(***************************************************************************)
EXTENDS Naturals

CONSTANTS
    Adapters,  \* the accounts whose provider has a quota adapter
    Passive,   \* those of codex and claude, whose headers tell the quota
    MaxAge,    \* Client.passiveMaxAge; 0 turns the fallback off
    Ahead      \* how far in the future a passive observation may lie

ASSUME AccountsAssumption ==
    Passive \subseteq Adapters /\ MaxAge \in Nat /\ Ahead \in Nat

\* What the windows tell: none at all; windows without a percentage; used
\* percentages only; and the three classes of the least remaining percentage.
Windows == {"none", "blank", "used", "exhausted", "low", "ok"}

\* Response headers kept by CLIProxyAPI, with the time they were seen.
Signals == [windows : Windows, at : Nat]

CardLists == {"unread", "empty", "cards"}

Warnings == {"none", "unsupported", "passive", "kept", "keptNewer"}

AccountErrors == {"none", "noindex", "failed", "cancelled"}

Records ==
    [status : {"ok", "low", "exhausted", "unknown", "error", "disabled"},
     stale : BOOLEAN, fresh : Nat, windows : Windows, at : Nat,
     cards : CardLists, warning : Warnings, error : AccountErrors]

\* An account of an entry of the listing, before anything was read for it.
Blank ==
    [status |-> "unknown", stale |-> FALSE, fresh |-> 0, windows |-> "none",
     at |-> 0, cards |-> "unread", warning |-> "none", error |-> "none"]

\* Mutant: an account without a percentage gets a status of its own.
BugStatusForWindows(windows) == windows

StatusForWindows(windows) ==
    IF windows \in {"exhausted", "low", "ok"} THEN windows ELSE "unknown"

HasQuotaValue(windows) == windows \notin {"none", "blank"}

-----------------------------------------------------------------------------
(* fetchAccount. *)

\* passiveWindows: whether signals seen at "at" may stand in at time now.
Usable(a, signals, now) ==
    /\ a \in Passive /\ HasQuotaValue(signals.windows)
    /\ signals.at # 0 /\ MaxAge > 0
    /\ now <= signals.at + MaxAge
    /\ signals.at <= now + Ahead

\* newestSignalSnapshot: the signals of a model replace the entry's own only if
\* they are newer; "none" has no signals at all, "blank" none that are usable.
NewestSignals(base, model) ==
    IF model.at > base.at /\ model.windows # "none" THEN model ELSE base

FetchFailed(a, signals, now) ==
    IF Usable(a, signals, now)
    THEN [Blank EXCEPT !.windows = signals.windows, !.at = signals.at,
                       !.status = StatusForWindows(signals.windows),
                       !.stale = TRUE, !.warning = "passive"]
    ELSE [Blank EXCEPT !.status = "error", !.stale = TRUE, !.error = "failed"]

\* The reply of the provider is an error or windows, with a card list.
FetchAccount(a, entry, reply, now) ==
    CASE entry.kind = "disabled" -> [Blank EXCEPT !.status = "disabled"]
      [] entry.kind # "disabled" /\ a \notin Adapters ->
           [Blank EXCEPT !.stale = TRUE, !.warning = "unsupported"]
      [] entry.kind = "noindex" /\ a \in Adapters ->
           [Blank EXCEPT !.status = "error", !.error = "noindex"]
      [] entry.kind = "live" /\ a \in Adapters /\ reply.windows = "none" ->
           FetchFailed(a, NewestSignals(entry.base, entry.model), now)
      [] OTHER ->
           [Blank EXCEPT !.windows = reply.windows, !.at = now, !.fresh = now,
                         !.status = StatusForWindows(reply.windows),
                         !.cards = reply.cards]

\* The placeholder of a goroutine that saw the context end before its turn.
Cancelled == [Blank EXCEPT !.status = "error", !.stale = TRUE,
                           !.error = "cancelled"]

-----------------------------------------------------------------------------
(* retainBestKnownAccountWindows. *)

\* retentionKey: the auth index, or the name where the entry has none.
SameIdentity(new, old) == (new.error = "noindex") <=> (old.error = "noindex")

Newest(x) == IF x.at > x.fresh THEN x.at ELSE x.fresh

\* Mutant: only successful reads count as observations.
BugObservedAfter(x, y) == x.fresh > y.fresh

ObservedAfter(x, y) == Newest(x) # 0 /\ Newest(x) > Newest(y)

KeepsOld(new, old) ==
    \/ new.error # "none" /\ new.windows = "none"
    \/ new.stale /\ new.windows # "none" /\ ObservedAfter(old, new)

RetainWindows(new, old) ==
    IF KeepsOld(new, old)
    THEN [new EXCEPT !.windows = old.windows, !.at = old.at,
                     !.fresh = old.fresh, !.stale = TRUE,
                     !.status = StatusForWindows(old.windows),
                     !.warning = IF new.error # "none" THEN "kept" ELSE "keptNewer",
                     !.error = "none"]
    ELSE [new EXCEPT !.fresh = IF new.fresh = 0 THEN old.fresh ELSE new.fresh]

RetainBest(new, old) ==
    LET carded == [new EXCEPT !.cards =
                       IF new.cards = "unread" THEN old.cards ELSE new.cards]
    IN  IF old.windows = "none" THEN carded ELSE RetainWindows(carded, old)

RetainBestKnown(new, old) ==
    [a \in DOMAIN new |->
        IF a \in DOMAIN old /\ SameIdentity(new[a], old[a])
        THEN RetainBest(new[a], old[a])
        ELSE new[a]]

AllQuotaUnavailable(accounts) ==
    \A a \in DOMAIN accounts :
        LET x == accounts[a]
        IN  \/ x.status = "disabled"
            \/ x.error # "none" \/ x.warning # "none" \/ x.stale
            \/ ~HasQuotaValue(x.windows)

-----------------------------------------------------------------------------
(* semanticFingerprint and contentKey: used percentages, the times and the  *)
(* names do not count, and a list of cards without any is as one not read.   *)

VisibleAccount(x) ==
    [status |-> x.status, stale |-> x.stale,
     cards |-> IF x.cards = "unread" THEN "empty" ELSE x.cards,
     windows |-> IF x.windows = "used" THEN "blank" ELSE x.windows,
     warning |-> x.warning, error |-> x.error]

Visible(snapshot) ==
    [stale |-> snapshot.stale, usage |-> snapshot.usage,
     failed |-> snapshot.failed, errors |-> snapshot.errors,
     accounts |-> [a \in DOMAIN snapshot.accounts |->
                      VisibleAccount(snapshot.accounts[a])]]

ContentKey(snapshot) == <<snapshot.updated, Visible(snapshot)>>
=============================================================================
