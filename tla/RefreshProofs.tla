---------------------------- MODULE RefreshProofs ----------------------------
(***************************************************************************)
(* Proofs about Refresh, and the row Frame makes of its snapshot, for any   *)
(* accounts, callers, listings and answers.                                 *)
(***************************************************************************)
EXTENDS Frame, TLAPS

EntrySpace == [kind : {"live", "disabled", "noindex"}, base : Signals, model : Signals]
ReplySpace == [windows : Windows, cards : CardLists]

-----------------------------------------------------------------------------
(* What fetchAccount and the retention return. *)

LEMMA StatusIsKnown ==
    ASSUME NEW w \in Windows
    PROVE  /\ StatusForWindows(w) \in {"ok", "low", "exhausted", "unknown"}
           /\ StatusForWindows(w) = "ok" => w = "ok"
BY DEF StatusForWindows, Windows

LEMMA BlankIsRecord == Blank \in Records
BY DEF Blank, Records, Windows, CardLists, Warnings, AccountErrors

\* Read now, from headers, or not at all.
FetchFacts(a, x, now) ==
    /\ x.error # "cancelled"
    /\ x.windows # "none" => x.error = "none"
    /\ x.windows # "none" /\ ~x.stale => x.at = now /\ x.fresh = now
    /\ x.windows # "none" /\ x.stale => x.fresh = 0
    /\ a \notin Adapters => x.windows = "none"
    /\ x.windows = "none" /\ a \in Adapters => x.error # "none" \/ x.status = "disabled"
    /\ x.status = "ok" => x.windows = "ok"

LEMMA FetchFailedFacts ==
    ASSUME NEW a \in Adapters, NEW signals \in Signals, NEW now \in Nat
    PROVE  /\ FetchFailed(a, signals, now) \in Records
           /\ FetchFacts(a, FetchFailed(a, signals, now), now)
<1> DEFINE x == FetchFailed(a, signals, now)
<1> SUFFICES x \in Records /\ FetchFacts(a, x, now) OBVIOUS
<1> HIDE DEF x
<1>0. /\ StatusForWindows(signals.windows) \in {"ok", "low", "exhausted", "unknown"}
      /\ StatusForWindows(signals.windows) = "ok" => signals.windows = "ok"
      /\ signals.windows \in Windows /\ signals.at \in Nat
  BY StatusIsKnown DEF Signals
<1>1. CASE Usable(a, signals, now)
  <2>1. /\ x = [status |-> StatusForWindows(signals.windows), stale |-> TRUE,
                fresh |-> 0, windows |-> signals.windows, at |-> signals.at,
                cards |-> "unread", warning |-> "passive", error |-> "none"]
    BY <1>1 DEF x, FetchFailed, Blank
  <2> QED BY <2>1, <1>0, <1>1
      DEF Usable, HasQuotaValue, Records, FetchFacts, CardLists, Warnings, AccountErrors
<1>2. CASE ~Usable(a, signals, now)
  <2>1. x = [status |-> "error", stale |-> TRUE, fresh |-> 0, windows |-> "none",
             at |-> 0, cards |-> "unread", warning |-> "none", error |-> "failed"]
    BY <1>2 DEF x, FetchFailed, Blank
  <2> QED BY <2>1 DEF Records, FetchFacts, Windows, CardLists, Warnings, AccountErrors
<1> QED BY <1>1, <1>2

LEMMA FetchAccountFacts ==
    ASSUME NEW a, NEW entry \in EntrySpace, NEW reply \in ReplySpace, NEW now \in Nat
    PROVE  /\ FetchAccount(a, entry, reply, now) \in Records
           /\ FetchFacts(a, FetchAccount(a, entry, reply, now), now)
<1> DEFINE x == FetchAccount(a, entry, reply, now)
<1> SUFFICES x \in Records /\ FetchFacts(a, x, now) OBVIOUS
<1> HIDE DEF x
<1> USE DEF Records, FetchFacts, Windows, CardLists, Warnings, AccountErrors
<1>0. entry.kind \in {"live", "disabled", "noindex"} BY DEF EntrySpace
<1>1. CASE entry.kind = "disabled"
  <2>1. x = [status |-> "disabled", stale |-> FALSE, fresh |-> 0, windows |-> "none",
             at |-> 0, cards |-> "unread", warning |-> "none", error |-> "none"]
    BY <1>1 DEF x, FetchAccount, Blank
  <2> QED BY <2>1, <1>1
<1>2. CASE entry.kind # "disabled" /\ a \notin Adapters
  <2>1. x = [status |-> "unknown", stale |-> TRUE, fresh |-> 0, windows |-> "none",
             at |-> 0, cards |-> "unread", warning |-> "unsupported", error |-> "none"]
    BY <1>2 DEF x, FetchAccount, Blank
  <2> QED BY <2>1, <1>2
<1>3. CASE entry.kind = "noindex" /\ a \in Adapters
  <2>1. x = [status |-> "error", stale |-> FALSE, fresh |-> 0, windows |-> "none",
             at |-> 0, cards |-> "unread", warning |-> "none", error |-> "noindex"]
    BY <1>3 DEF x, FetchAccount, Blank
  <2> QED BY <2>1, <1>3
<1>4. CASE entry.kind = "live" /\ a \in Adapters /\ reply.windows = "none"
  <2> DEFINE signals == NewestSignals(entry.base, entry.model)
  <2>1. x = FetchFailed(a, signals, now) BY <1>4 DEF x, FetchAccount
  <2>2. signals \in Signals BY DEF NewestSignals, EntrySpace
  <2> HIDE DEF signals
  <2> QED BY <2>1, <2>2, <1>4, FetchFailedFacts
<1>5. CASE entry.kind = "live" /\ a \in Adapters /\ reply.windows # "none"
  <2>1. x = [status |-> StatusForWindows(reply.windows), stale |-> FALSE,
             fresh |-> now, windows |-> reply.windows, at |-> now,
             cards |-> reply.cards, warning |-> "none", error |-> "none"]
    BY <1>5 DEF x, FetchAccount, Blank
  <2>2. /\ StatusForWindows(reply.windows) \in {"ok", "low", "exhausted", "unknown"}
        /\ StatusForWindows(reply.windows) = "ok" => reply.windows = "ok"
    BY StatusIsKnown DEF ReplySpace
  <2> QED BY <2>1, <2>2, <1>5 DEF ReplySpace
<1> QED BY <1>0, <1>1, <1>2, <1>3, <1>4, <1>5

LEMMA RetainBestFacts ==
    ASSUME NEW x \in Records, NEW old \in Records, NEW now \in Nat,
           x.windows # "none" /\ ~x.stale => x.at = now /\ x.fresh = now,
           x.windows # "none" => x.error = "none",
           x.status = "ok" => x.windows = "ok"
    PROVE  LET y == RetainBest(x, old)
           IN  /\ y \in Records
               /\ y.error \in {"none", x.error}
               /\ y.windows # "none" /\ ~y.stale => y.at = now
               /\ y.windows # "none" => y.error = "none"
               /\ y.windows \in {x.windows, old.windows}
               /\ y.status = "ok" => y.windows = "ok"
<1> DEFINE carded == [x EXCEPT !.cards = IF x.cards = "unread" THEN old.cards ELSE x.cards]
           y == RetainBest(x, old)
<1> SUFFICES /\ y \in Records
             /\ y.error \in {"none", x.error}
             /\ y.windows # "none" /\ ~y.stale => y.at = now
             /\ y.windows # "none" => y.error = "none"
             /\ y.windows \in {x.windows, old.windows}
             /\ y.status = "ok" => y.windows = "ok"
  OBVIOUS
<1>1. y = IF old.windows = "none" THEN carded ELSE RetainWindows(carded, old)
  BY DEF RetainBest
<1>2. /\ carded \in Records
      /\ carded.error = x.error /\ carded.windows = x.windows
      /\ carded.stale = x.stale /\ carded.at = x.at /\ carded.fresh = x.fresh
      /\ carded.status = x.status
  BY DEF Records
<1> HIDE DEF y, carded
<1>3. CASE old.windows = "none"
  BY <1>1, <1>2, <1>3
<1>4. CASE old.windows # "none" /\ KeepsOld(carded, old)
  <2> DEFINE kept == [carded EXCEPT !.windows = old.windows, !.at = old.at,
                        !.fresh = old.fresh, !.stale = TRUE,
                        !.status = StatusForWindows(old.windows),
                        !.warning = IF carded.error # "none" THEN "kept" ELSE "keptNewer",
                        !.error = "none"]
  <2>1. y = kept BY <1>1, <1>4 DEF RetainWindows
  <2>2. /\ StatusForWindows(old.windows) \in {"ok", "low", "exhausted", "unknown"}
        /\ StatusForWindows(old.windows) = "ok" => old.windows = "ok"
    BY StatusIsKnown DEF Records
  <2>3. /\ kept.error = "none" /\ kept.stale = TRUE
        /\ kept.windows = old.windows /\ kept.status = StatusForWindows(old.windows)
    BY <1>2 DEF Records
  <2>4. kept \in Records
    BY <1>2, <2>2, ZenonT(60) DEF Records, Warnings, AccountErrors
  <2> QED BY <2>1, <2>2, <2>3, <2>4
<1>5. CASE old.windows # "none" /\ ~KeepsOld(carded, old)
  <2> DEFINE plain == [carded EXCEPT !.fresh = IF carded.fresh = 0 THEN old.fresh ELSE carded.fresh]
  <2>1. y = plain BY <1>1, <1>5 DEF RetainWindows
  <2>2. /\ plain \in Records /\ plain.error = carded.error
        /\ plain.windows = carded.windows /\ plain.stale = carded.stale
        /\ plain.at = carded.at /\ plain.status = carded.status
    BY <1>2 DEF Records
  <2> QED BY <2>1, <2>2, <1>2
<1> QED BY <1>3, <1>4, <1>5

\* What is shown of an account after the retention is as new as before.
LEMMA RetainBestKeepsNewest ==
    ASSUME NEW a, NEW x \in Records, NEW old \in Records, NEW now \in Nat \ {0},
           FetchFacts(a, x, now),
           old.windows # "none", a \in Adapters
    PROVE  \/ RetainBest(x, old).status = "disabled"
           \/ NewerThan(RetainBest(x, old), old, now)
<1> DEFINE carded == [x EXCEPT !.cards = IF x.cards = "unread" THEN old.cards ELSE x.cards]
           y == RetainBest(x, old)
<1> SUFFICES y.status = "disabled" \/ NewerThan(y, old, now)
  OBVIOUS
<1>1. y = RetainWindows(carded, old)
  BY DEF RetainBest
<1>2. /\ carded \in Records
      /\ carded.error = x.error /\ carded.windows = x.windows
      /\ carded.stale = x.stale /\ carded.at = x.at /\ carded.fresh = x.fresh
      /\ carded.status = x.status
  BY DEF Records
<1> HIDE DEF y, carded
<1>4. CASE KeepsOld(carded, old)
  <2> DEFINE kept == [carded EXCEPT !.windows = old.windows, !.at = old.at,
                        !.fresh = old.fresh, !.stale = TRUE,
                        !.status = StatusForWindows(old.windows),
                        !.warning = IF carded.error # "none" THEN "kept" ELSE "keptNewer",
                        !.error = "none"]
  <2>1. y = kept BY <1>1, <1>4 DEF RetainWindows
  <2>2. kept.at = old.at /\ kept.fresh = old.fresh /\ kept.windows = old.windows
    BY <1>2 DEF Records
  <2>3. Newest(y) = Newest(old) /\ Newest(old) \in Nat
    BY <2>1, <2>2 DEF Newest, Records
  <2> QED BY <2>1, <2>2, <2>3 DEF NewerThan
<1>5. CASE ~KeepsOld(carded, old)
  <2> DEFINE plain == [carded EXCEPT !.fresh = IF carded.fresh = 0 THEN old.fresh ELSE carded.fresh]
  <2>1. y = plain BY <1>1, <1>5 DEF RetainWindows
  <2>2. /\ plain.windows = x.windows /\ plain.at = x.at /\ plain.status = x.status
        /\ plain.fresh = IF x.fresh = 0 THEN old.fresh ELSE x.fresh
    BY <1>2 DEF Records
  <2>3. CASE x.windows = "none"
    BY <2>1, <2>2, <2>3, <1>2, <1>5 DEF KeepsOld, FetchFacts
  <2>4. CASE x.windows # "none" /\ ~x.stale
    BY <2>1, <2>2, <2>4 DEF FetchFacts, NewerThan, Records
  <2>5. CASE x.windows # "none" /\ x.stale
    <3>1. ~ObservedAfter(old, carded) /\ x.fresh = 0
      BY <2>5, <1>2, <1>5 DEF KeepsOld, FetchFacts
    <3>2. /\ x.at \in Nat /\ old.at \in Nat /\ old.fresh \in Nat
          /\ x.stale \in BOOLEAN
      BY DEF Records
    <3>3. Newest(old) = 0 \/ ~(Newest(old) > x.at)
      BY <3>1, <3>2, <1>2 DEF ObservedAfter, Newest
    <3>4. Newest(y) = IF x.at > old.fresh THEN x.at ELSE old.fresh
      BY <2>1, <2>2, <3>1 DEF Newest
    <3>5. Newest(y) >= Newest(old)
      BY <3>2, <3>3, <3>4 DEF Newest
    <3> QED BY <3>5, <2>1, <2>2, <2>5 DEF NewerThan
  <2> QED BY <2>3, <2>4, <2>5
<1> QED BY <1>4, <1>5

-----------------------------------------------------------------------------
(* The inductive invariant. *)

Busy == {"list", "fetch", "usage"}

SnapshotSpace ==
    [n : Nat, updated : Nat, fresh : Nat, stale : BOOLEAN, usage : Usages,
     errors : SUBSET Accounts, failed : BOOLEAN,
     accounts : UNION {[listed -> Records] : listed \in SUBSET Accounts}]

SnapshotType == snapshot \in SnapshotSpace

\* One refresh at a time, newer than everything in the snapshot.
Alone ==
    /\ \A c \in Callers : pc[c] \in Busy \cup {"observe"} => holder = c
    /\ \A c \in Callers : pc[c] \in Busy => snapshot.updated < clock
    /\ snapshot.updated <= clock
    /\ (\A c \in Callers : pc[c] \notin {"fetch", "usage"}) => DOMAIN entries = {}

\* What the goroutines have filled in.
FetchedInv ==
    /\ \A a \in Accounts : worker[a] = "none" <=> a \notin DOMAIN entries
    /\ \A a \in DOMAIN fetched :
          worker[a] = "done" =>
              fetched[a] = Cancelled \/ FetchFacts(a, fetched[a], clock)
    /\ \A c \in Callers, a \in DOMAIN fetched :
          pc[c] = "fetch" /\ c \in live => fetched[a] # Cancelled
    /\ \A c \in Callers, a \in DOMAIN fetched :
          pc[c] = "usage" => FetchFacts(a, fetched[a], clock)

SnapshotInv ==
    /\ OldNeverLooksFresh
    /\ hasData => print = Visible(snapshot) /\ snapshot.updated # 0
    /\ ~hasData => DOMAIN snapshot.accounts = {}
    /\ \A a \in DOMAIN snapshot.accounts :
          LET x == snapshot.accounts[a]
          IN  /\ x.windows # "none" => x.error = "none" /\ a \in Adapters
              /\ x.status = "ok" => x.windows = "ok"

\* The clone that travels to the observer is the snapshot.
LetterInv ==
    \A c \in Callers : pc[c] = "observe" =>
        carry.n = snapshot.n /\ carry.key = ContentKey(snapshot)

RefreshInv ==
    /\ TypeOK /\ SnapshotType /\ Alone /\ FetchedInv /\ SnapshotInv
    /\ LetterInv /\ DeliveredInOrder

-----------------------------------------------------------------------------

\* A caller asks for a refresh.
LEMMA CallKeeps ==
    ASSUME RefreshInv, NEW c \in Callers, Call(c)
    PROVE  RefreshInv'
<1> USE RefreshAssumption
<1>1. TypeOK'
  BY DEF RefreshInv, TypeOK, CallerPoints, Callers, Call, GoTo, fetchVars,
     serviceVars
<1>2. SnapshotType'
  BY DEF RefreshInv, SnapshotType, Call, GoTo, fetchVars, serviceVars
<1>3. Alone'
  BY DEF RefreshInv, TypeOK, Alone, Busy, Callers, CallerPoints, Call, GoTo,
     fetchVars, serviceVars
<1>4. FetchedInv'
  BY DEF RefreshInv, TypeOK, Alone, FetchedInv, Busy, Callers, CallerPoints,
     Call, GoTo, fetchVars, serviceVars
<1>5. SnapshotInv'
  BY DEF RefreshInv, SnapshotInv, OldNeverLooksFresh, Shown, Call, GoTo,
     fetchVars, serviceVars
<1>6. LetterInv'
  BY DEF RefreshInv, TypeOK, Alone, LetterInv, Busy, Callers, CallerPoints,
     Call, GoTo, fetchVars, serviceVars
<1>7. DeliveredInOrder'
  BY DEF RefreshInv, TypeOK, Alone, LetterInv, DeliveredInOrder, Busy, Callers,
     CallerPoints, Call, GoTo, fetchVars, serviceVars
<1> QED BY <1>1, <1>2, <1>3, <1>4, <1>5, <1>6, <1>7 DEF RefreshInv

\* A context ends.
LEMMA CancelKeeps ==
    ASSUME RefreshInv, NEW c \in Callers, Cancel(c)
    PROVE  RefreshInv'
<1> USE RefreshAssumption
<1>1. TypeOK'
  BY DEF RefreshInv, TypeOK, CallerPoints, Callers, Cancel, fetchVars, serviceVars
<1>2. SnapshotType'
  BY DEF RefreshInv, SnapshotType, Cancel, fetchVars, serviceVars
<1>3. Alone'
  BY DEF RefreshInv, TypeOK, Alone, Busy, Callers, CallerPoints, Cancel,
     fetchVars, serviceVars
<1>4. FetchedInv'
  BY DEF RefreshInv, TypeOK, Alone, FetchedInv, Busy, Callers, CallerPoints,
     Cancel, fetchVars, serviceVars
<1>5. SnapshotInv'
  BY DEF RefreshInv, SnapshotInv, OldNeverLooksFresh, Shown, Cancel, fetchVars,
     serviceVars
<1>6. LetterInv'
  BY DEF RefreshInv, TypeOK, Alone, LetterInv, Busy, Callers, CallerPoints,
     Cancel, fetchVars, serviceVars
<1>7. DeliveredInOrder'
  BY DEF RefreshInv, TypeOK, Alone, LetterInv, DeliveredInOrder, Busy, Callers,
     CallerPoints, Cancel, fetchVars, serviceVars
<1> QED BY <1>1, <1>2, <1>3, <1>4, <1>5, <1>6, <1>7 DEF RefreshInv

\* refreshMu is free, so nobody refreshes.
LEMMA LockKeeps ==
    ASSUME RefreshInv, NEW c \in Callers, Lock(c)
    PROVE  RefreshInv'
<1> USE RefreshAssumption
<1>1. TypeOK'
  BY DEF RefreshInv, TypeOK, CallerPoints, Callers, Lock, GoTo, fetchVars,
     serviceVars
<1>2. SnapshotType'
  BY DEF RefreshInv, SnapshotType, Lock, GoTo, fetchVars, serviceVars
<1>3. Alone'
  BY DEF RefreshInv, TypeOK, Alone, Busy, Callers, CallerPoints, Lock, GoTo,
     fetchVars, serviceVars
<1>4. FetchedInv'
  BY DEF RefreshInv, TypeOK, Alone, FetchedInv, Busy, Callers, CallerPoints,
     Lock, GoTo, fetchVars, serviceVars
<1>5. SnapshotInv'
  BY DEF RefreshInv, SnapshotInv, OldNeverLooksFresh, Shown, Lock, GoTo,
     fetchVars, serviceVars
<1>6. LetterInv'
  BY DEF RefreshInv, TypeOK, Alone, LetterInv, Busy, Callers, CallerPoints,
     Lock, GoTo, fetchVars, serviceVars
<1>7. DeliveredInOrder'
  BY DEF RefreshInv, TypeOK, Alone, LetterInv, DeliveredInOrder, Busy, Callers,
     CallerPoints, Lock, GoTo, fetchVars, serviceVars
<1> QED BY <1>1, <1>2, <1>3, <1>4, <1>5, <1>6, <1>7 DEF RefreshInv

\* The goroutines begin with empty records.
LEMMA ListKeeps ==
    ASSUME RefreshInv, NEW c \in Callers, List(c)
    PROVE  RefreshInv'
<1> USE RefreshAssumption
<1>0. /\ fetched' \in [DOMAIN entries' -> Records]
      /\ DOMAIN entries' \subseteq Accounts
      /\ \A a \in DOMAIN entries' : entries'[a] \in Entries[a] /\ fetched'[a] = Blank
      /\ \A a \in Accounts : worker'[a] = IF a \in DOMAIN entries' THEN "waiting" ELSE "none"
      /\ worker' \in [Accounts -> {"none", "waiting", "working", "done"}]
      /\ Blank # Cancelled
  BY BlankIsRecord DEF List, Blank, Cancelled
<1>a. /\ pc[c] = "list" /\ pc' = [pc EXCEPT ![c] = "fetch"]
      /\ UNCHANGED <<live, holder, failure, snapshot, hasData, ready, print,
                     carry, mail, clock>>
  BY DEF List, GoTo, serviceVars
<1>1. TypeOK'
  BY <1>0, <1>a DEF RefreshInv, TypeOK, CallerPoints, Callers
<1>2. SnapshotType'
  BY <1>0, <1>a DEF RefreshInv, SnapshotType
<1>3. Alone'
  BY <1>0, <1>a DEF RefreshInv, TypeOK, Alone, Busy, Callers, CallerPoints
<1>4. FetchedInv'
  BY <1>0, <1>a DEF RefreshInv, TypeOK, Alone, FetchedInv, Busy, Callers,
     CallerPoints
<1>5. SnapshotInv'
  BY <1>0, <1>a DEF RefreshInv, SnapshotInv, OldNeverLooksFresh, Shown
<1>6. LetterInv'
  BY <1>0, <1>a DEF RefreshInv, TypeOK, Alone, LetterInv, Busy, Callers,
     CallerPoints
<1>7. DeliveredInOrder'
  BY <1>0, <1>a DEF RefreshInv, TypeOK, Alone, LetterInv, DeliveredInOrder,
     Busy, Callers, CallerPoints
<1> QED BY <1>1, <1>2, <1>3, <1>4, <1>5, <1>6, <1>7 DEF RefreshInv

\* The listing fails before anything is filled in.
LEMMA ListFailsKeeps ==
    ASSUME RefreshInv, NEW c \in Callers, NEW contextError \in BOOLEAN, ListFails(c, contextError)
    PROVE  RefreshInv'
<1> USE RefreshAssumption
<1>0. /\ pc' \in [Callers -> CallerPoints] /\ failure' \in BOOLEAN
      /\ holder' \in Callers \cup {NoCaller}
  BY DEF ListFails, GoTo, Return, Left, RefreshInv, TypeOK, CallerPoints
<1>1. TypeOK'
  BY <1>0 DEF RefreshInv, TypeOK, CallerPoints, Callers, ListFails, GoTo,
     Return, Left, fetchVars, serviceVars
<1>2. SnapshotType'
  BY <1>0 DEF RefreshInv, SnapshotType, ListFails, GoTo, Return, Left,
     fetchVars, serviceVars
<1>3. Alone'
  BY <1>0 DEF RefreshInv, TypeOK, Alone, Busy, Callers, CallerPoints,
     ListFails, GoTo, Return, Left, fetchVars, serviceVars
<1>4. FetchedInv'
  BY <1>0 DEF RefreshInv, TypeOK, Alone, FetchedInv, Busy, Callers,
     CallerPoints, ListFails, GoTo, Return, Left, fetchVars, serviceVars
<1>5. SnapshotInv'
  BY <1>0 DEF RefreshInv, SnapshotInv, OldNeverLooksFresh, Shown, ListFails,
     GoTo, Return, Left, fetchVars, serviceVars
<1>6. LetterInv'
  BY <1>0 DEF RefreshInv, TypeOK, Alone, LetterInv, Busy, Callers,
     CallerPoints, ListFails, GoTo, Return, Left, fetchVars, serviceVars
<1>7. DeliveredInOrder'
  BY <1>0 DEF RefreshInv, TypeOK, Alone, LetterInv, DeliveredInOrder, Busy,
     Callers, CallerPoints, ListFails, GoTo, Return, Left, fetchVars,
     serviceVars
<1> QED BY <1>1, <1>2, <1>3, <1>4, <1>5, <1>6, <1>7 DEF RefreshInv

\* A goroutine gets its turn.
LEMMA AdmitKeeps ==
    ASSUME RefreshInv, NEW c \in Callers, NEW a \in Accounts, Admit(c, a)
    PROVE  RefreshInv'
<1> USE RefreshAssumption
<1>1. TypeOK'
  BY DEF RefreshInv, TypeOK, CallerPoints, Callers, Admit, fetchVars, serviceVars
<1>2. SnapshotType'
  BY DEF RefreshInv, SnapshotType, Admit, fetchVars, serviceVars
<1>3. Alone'
  BY DEF RefreshInv, TypeOK, Alone, Busy, Callers, CallerPoints, Admit,
     fetchVars, serviceVars
<1>4. FetchedInv'
  BY DEF RefreshInv, TypeOK, Alone, FetchedInv, Busy, Callers, CallerPoints,
     Admit, fetchVars, serviceVars
<1>5. SnapshotInv'
  BY DEF RefreshInv, SnapshotInv, OldNeverLooksFresh, Shown, Admit, fetchVars,
     serviceVars
<1>6. LetterInv'
  BY DEF RefreshInv, TypeOK, Alone, LetterInv, Busy, Callers, CallerPoints,
     Admit, fetchVars, serviceVars
<1>7. DeliveredInOrder'
  BY DEF RefreshInv, TypeOK, Alone, LetterInv, DeliveredInOrder, Busy, Callers,
     CallerPoints, Admit, fetchVars, serviceVars
<1> QED BY <1>1, <1>2, <1>3, <1>4, <1>5, <1>6, <1>7 DEF RefreshInv

\* Only the holder of refreshMu fetches.
LEMMA GiveUpKeeps ==
    ASSUME RefreshInv, NEW c \in Callers, NEW a \in Accounts, GiveUp(c, a)
    PROVE  RefreshInv'
<1> USE RefreshAssumption
<1>0. Cancelled \in Records
  BY DEF Cancelled, Blank, Records, Windows, CardLists, Warnings, AccountErrors
<1>1. TypeOK'
  BY <1>0 DEF RefreshInv, TypeOK, CallerPoints, Callers, GiveUp, fetchVars,
     serviceVars
<1>2. SnapshotType'
  BY <1>0 DEF RefreshInv, SnapshotType, GiveUp, fetchVars, serviceVars
<1>3. Alone'
  BY <1>0 DEF RefreshInv, TypeOK, Alone, Busy, Callers, CallerPoints, GiveUp,
     fetchVars, serviceVars
<1>4. FetchedInv'
  BY <1>0 DEF RefreshInv, TypeOK, Alone, FetchedInv, Busy, Callers,
     CallerPoints, GiveUp, fetchVars, serviceVars
<1>5. SnapshotInv'
  BY <1>0 DEF RefreshInv, SnapshotInv, OldNeverLooksFresh, Shown, GiveUp,
     fetchVars, serviceVars
<1>6. LetterInv'
  BY <1>0 DEF RefreshInv, TypeOK, Alone, LetterInv, Busy, Callers,
     CallerPoints, GiveUp, fetchVars, serviceVars
<1>7. DeliveredInOrder'
  BY <1>0 DEF RefreshInv, TypeOK, Alone, LetterInv, DeliveredInOrder, Busy,
     Callers, CallerPoints, GiveUp, fetchVars, serviceVars
<1> QED BY <1>1, <1>2, <1>3, <1>4, <1>5, <1>6, <1>7 DEF RefreshInv

\* A provider answers.
LEMMA AskKeeps ==
    ASSUME RefreshInv, NEW c \in Callers, NEW a \in Accounts, Ask(c, a)
    PROVE  RefreshInv'
<1> USE RefreshAssumption
<1>0. \E x \in Records : FetchFacts(a, x, clock) /\ fetched' = [fetched EXCEPT ![a] = x]
  <2>1. PICK reply \in Replies[a] :
          fetched' = [fetched EXCEPT ![a] = FetchAccount(a, entries[a], reply, clock)]
    BY DEF Ask
  <2>2. a \in DOMAIN entries /\ entries[a] \in EntrySpace /\ reply \in ReplySpace
        /\ clock \in Nat
    BY DEF Ask, RefreshInv, TypeOK, FetchedInv, EntrySpace, ReplySpace
  <2> QED BY <2>1, <2>2, FetchAccountFacts
<1>a. PICK x \in Records : FetchFacts(a, x, clock) /\ fetched' = [fetched EXCEPT ![a] = x]
  BY <1>0
<1>b. /\ DOMAIN fetched' = DOMAIN fetched /\ a \in DOMAIN fetched => fetched'[a] = x
      /\ \A b \in DOMAIN fetched : b # a => fetched'[b] = fetched[b]
      /\ fetched' \in [DOMAIN entries -> Records]
      /\ DOMAIN fetched = DOMAIN entries
  BY <1>a DEF RefreshInv, TypeOK
<1>c. /\ worker'[a] = "done" /\ \A b \in Accounts : b # a => worker'[b] = worker[b]
      /\ FetchFacts(a, x, clock) /\ x # Cancelled
  BY <1>a DEF Ask, RefreshInv, TypeOK, FetchFacts, Cancelled, Blank
<1>1. TypeOK'
  BY <1>a, <1>b, <1>c DEF RefreshInv, TypeOK, CallerPoints, Callers, Ask,
     fetchVars, serviceVars
<1>2. SnapshotType'
  BY <1>a, <1>b, <1>c DEF RefreshInv, SnapshotType, Ask, fetchVars, serviceVars
<1>3. Alone'
  BY <1>a, <1>b, <1>c DEF RefreshInv, TypeOK, Alone, Busy, Callers,
     CallerPoints, Ask, fetchVars, serviceVars
<1>4. FetchedInv'
  BY <1>a, <1>b, <1>c DEF RefreshInv, TypeOK, Alone, FetchedInv, Busy, Callers,
     CallerPoints, Ask, fetchVars, serviceVars
<1>5. SnapshotInv'
  BY <1>a, <1>b, <1>c DEF RefreshInv, SnapshotInv, OldNeverLooksFresh, Shown,
     Ask, fetchVars, serviceVars
<1>6. LetterInv'
  BY <1>a, <1>b, <1>c DEF RefreshInv, TypeOK, Alone, LetterInv, Busy, Callers,
     CallerPoints, Ask, fetchVars, serviceVars
<1>7. DeliveredInOrder'
  BY <1>a, <1>b, <1>c DEF RefreshInv, TypeOK, Alone, LetterInv,
     DeliveredInOrder, Busy, Callers, CallerPoints, Ask, fetchVars, serviceVars
<1> QED BY <1>1, <1>2, <1>3, <1>4, <1>5, <1>6, <1>7 DEF RefreshInv

\* No goroutine is left.
LEMMA FetchedKeeps ==
    ASSUME RefreshInv, NEW c \in Callers, Fetched(c)
    PROVE  RefreshInv'
<1> USE RefreshAssumption
<1>0. NoAccounts \in [{} -> Records] /\ DOMAIN NoAccounts = {}
  BY DEF NoAccounts
<1>1. TypeOK'
  <2>1. CASE c \in live
    BY <2>1 DEF RefreshInv, TypeOK, CallerPoints, Callers, Fetched, GoTo,
       Return, Left, ForgetFetch, fetchVars, serviceVars
  <2>2. CASE c \notin live
    <3>1. entries' = NoAccounts /\ fetched' = NoAccounts
      BY <2>2 DEF Fetched, ForgetFetch
    <3>2. DOMAIN entries' \subseteq Accounts /\ fetched' \in [DOMAIN entries' -> Records]
      BY <3>1, <1>0
    <3>3. \A a \in DOMAIN entries' : entries'[a] \in Entries[a]
      BY <3>1, <1>0
    <3>4. /\ pc' \in [Callers -> CallerPoints] /\ holder' \in Callers \cup {NoCaller}
          /\ worker' \in [Accounts -> {"none", "waiting", "working", "done"}]
          /\ failure' = FALSE
      BY <2>2 DEF RefreshInv, TypeOK, CallerPoints, Callers, Fetched, GoTo,
         Return, Left, ForgetFetch
    <3> QED BY <3>2, <3>3, <3>4 DEF RefreshInv, TypeOK, Fetched, fetchVars, serviceVars
  <2> QED BY <2>1, <2>2
<1>2. SnapshotType'
  BY <1>0 DEF RefreshInv, SnapshotType, Fetched, GoTo, Return, Left,
     ForgetFetch, fetchVars, serviceVars
<1>3. Alone'
  BY <1>0 DEF RefreshInv, TypeOK, Alone, Busy, Callers, CallerPoints, Fetched,
     GoTo, Return, Left, ForgetFetch, fetchVars, serviceVars
<1>4. FetchedInv'
  BY <1>0 DEF RefreshInv, TypeOK, Alone, FetchedInv, Busy, Callers,
     CallerPoints, Fetched, GoTo, Return, Left, ForgetFetch, fetchVars,
     serviceVars
<1>5. SnapshotInv'
  BY <1>0 DEF RefreshInv, SnapshotInv, OldNeverLooksFresh, Shown, Fetched,
     GoTo, Return, Left, ForgetFetch, fetchVars, serviceVars
<1>6. LetterInv'
  BY <1>0 DEF RefreshInv, TypeOK, Alone, LetterInv, Busy, Callers,
     CallerPoints, Fetched, GoTo, Return, Left, ForgetFetch, fetchVars,
     serviceVars
<1>7. DeliveredInOrder'
  BY <1>0 DEF RefreshInv, TypeOK, Alone, LetterInv, DeliveredInOrder, Busy,
     Callers, CallerPoints, Fetched, GoTo, Return, Left, ForgetFetch,
     fetchVars, serviceVars
<1> QED BY <1>1, <1>2, <1>3, <1>4, <1>5, <1>6, <1>7 DEF RefreshInv

\* The observer hears of the snapshot.
LEMMA ObserveKeeps ==
    ASSUME RefreshInv, NEW c \in Callers, Observe(c)
    PROVE  RefreshInv'
<1> USE RefreshAssumption
<1>1. TypeOK'
  BY DEF RefreshInv, TypeOK, CallerPoints, Callers, Observe, GoTo, Return,
     Left, NoMail, fetchVars, serviceVars
<1>2. SnapshotType'
  BY DEF RefreshInv, SnapshotType, Observe, GoTo, Return, Left, NoMail,
     fetchVars, serviceVars
<1>3. Alone'
  BY DEF RefreshInv, TypeOK, Alone, Busy, Callers, CallerPoints, Observe, GoTo,
     Return, Left, NoMail, fetchVars, serviceVars
<1>4. FetchedInv'
  BY DEF RefreshInv, TypeOK, Alone, FetchedInv, Busy, Callers, CallerPoints,
     Observe, GoTo, Return, Left, NoMail, fetchVars, serviceVars
<1>5. SnapshotInv'
  BY DEF RefreshInv, SnapshotInv, OldNeverLooksFresh, Shown, Observe, GoTo,
     Return, Left, NoMail, fetchVars, serviceVars
<1>6. LetterInv'
  BY DEF RefreshInv, TypeOK, Alone, LetterInv, Busy, Callers, CallerPoints,
     Observe, GoTo, Return, Left, NoMail, fetchVars, serviceVars
<1>7. DeliveredInOrder'
  BY DEF RefreshInv, TypeOK, Alone, LetterInv, DeliveredInOrder, Busy, Callers,
     CallerPoints, Observe, GoTo, Return, Left, NoMail, fetchVars, serviceVars
<1> QED BY <1>1, <1>2, <1>3, <1>4, <1>5, <1>6, <1>7 DEF RefreshInv

-----------------------------------------------------------------------------
(* The part of Refresh under Service.mu. *)

LEMMA VisibleIgnoresUpdated ==
    ASSUME NEW s \in SnapshotSpace, NEW t
    PROVE  Visible([s EXCEPT !.updated = t]) = Visible(s)
BY DEF Visible, SnapshotSpace

\* What a refresh makes of the snapshot.
NextFacts(next) ==
    /\ next \in SnapshotSpace
    /\ next.n = clock /\ next.updated # 0 /\ next.updated <= clock
    /\ hasData => (next.updated = snapshot.updated
                     <=> Visible(next) = Visible(snapshot))
    /\ \A a \in DOMAIN next.accounts :
          LET y == next.accounts[a]
          IN  /\ y.error # "cancelled"
              /\ y.windows # "none" => y.error = "none" /\ a \in Adapters
              /\ ~next.stale /\ ~y.stale /\ y.windows # "none" => y.at = clock
              /\ y.status = "ok" => y.windows = "ok"
    /\ \A a \in Shown \cap DOMAIN next.accounts :
          LET y == next.accounts[a]
          IN  \/ y.status = "disabled" \/ y.error = "noindex"
              \/ NewerThan(y, snapshot.accounts[a], clock)

LEMMA FirstFailureFacts ==
    ASSUME RefreshInv, NEW c \in Callers, pc[c] = "usage", ~hasData
    PROVE  NextFacts(FirstFailure)
<1>1. /\ FirstFailure.n = clock /\ FirstFailure.updated = clock
      /\ FirstFailure.stale = TRUE /\ FirstFailure.accounts = NoAccounts
  BY DEF FirstFailure, NoSnapshot
<1>2. clock \in Nat /\ 0 < clock
  BY DEF RefreshInv, TypeOK, Alone, Busy
<1>3. NoAccounts \in [{} -> Records] /\ DOMAIN NoAccounts = {}
  BY DEF NoAccounts
<1>4. NoAccounts \in UNION {[listed -> Records] : listed \in SUBSET Accounts}
  BY <1>3
<1>5. FirstFailure \in SnapshotSpace
  BY <1>2, <1>4 DEF FirstFailure, NoSnapshot, SnapshotSpace, Usages
<1> QED
  BY <1>1, <1>2, <1>3, <1>5 DEF NextFacts

LEMMA AfterFailureFacts ==
    ASSUME RefreshInv, NEW c \in Callers, pc[c] = "usage", hasData,
           NEW usage \in Usages
    PROVE  NextFacts(AfterFailure(usage))
<1> DEFINE failed == [snapshot EXCEPT !.n = clock, !.stale = TRUE, !.errors = {},
                                      !.failed = TRUE,
                                      !.usage = IF usage = "nil" THEN @ ELSE usage]
           time == IF Visible(failed) = print THEN snapshot.updated ELSE clock
           next == [failed EXCEPT !.updated = time]
<1>1. failed \in SnapshotSpace /\ failed.accounts = snapshot.accounts
      /\ failed.n = clock /\ failed.stale = TRUE /\ failed.updated = snapshot.updated
  BY DEF RefreshInv, TypeOK, SnapshotType, SnapshotSpace
<1>2. /\ clock \in Nat /\ snapshot.updated \in Nat
      /\ snapshot.updated < clock /\ snapshot.updated # 0 /\ print = Visible(snapshot)
  BY DEF RefreshInv, TypeOK, Alone, Busy, SnapshotInv
<1> HIDE DEF failed
<1>3. time \in Nat /\ time # 0 /\ time <= clock
  BY <1>2
<1>4. time = snapshot.updated <=> Visible(failed) = Visible(snapshot)
  BY <1>2
<1> HIDE DEF time
<1>5. Visible(next) = Visible(failed)
  BY <1>1, VisibleIgnoresUpdated
<1>6. /\ next \in SnapshotSpace /\ next.accounts = snapshot.accounts
      /\ next.n = clock /\ next.stale = TRUE /\ next.updated = time
  BY <1>1, <1>3 DEF SnapshotSpace
<1>7. \A a \in DOMAIN snapshot.accounts :
        LET y == snapshot.accounts[a]
        IN  /\ y.error # "cancelled"
            /\ y.windows # "none" => y.error = "none" /\ a \in Adapters
            /\ y.status = "ok" => y.windows = "ok"
  BY DEF RefreshInv, SnapshotInv, OldNeverLooksFresh
<1>8. \A a \in Shown : NewerThan(snapshot.accounts[a], snapshot.accounts[a], clock)
  BY DEF RefreshInv, TypeOK, Shown, NewerThan, Newest, Records
<1> HIDE DEF next
<1>9. AfterFailure(usage) = next
  BY <1>1 DEF AfterFailure, next, failed, time
<1> QED
  BY <1>3, <1>4, <1>5, <1>6, <1>7, <1>8, <1>9 DEF NextFacts

LEMMA MergedFacts ==
    ASSUME RefreshInv, NEW c \in Callers, pc[c] = "usage",
           NEW merged, merged = IF hasData
                                THEN RetainBestKnown(fetched, snapshot.accounts)
                                ELSE fetched
    PROVE  /\ merged \in UNION {[listed -> Records] : listed \in SUBSET Accounts}
           /\ DOMAIN merged = DOMAIN fetched
           /\ \A a \in DOMAIN merged :
                 /\ merged[a].error # "cancelled"
                 /\ merged[a].windows # "none" =>
                       merged[a].error = "none" /\ a \in Adapters
                 /\ ~merged[a].stale /\ merged[a].windows # "none" =>
                       merged[a].at = clock
                 /\ merged[a].status = "ok" => merged[a].windows = "ok"
           /\ \A a \in Shown \cap DOMAIN merged :
                 \/ merged[a].status = "disabled" \/ merged[a].error = "noindex"
                 \/ NewerThan(merged[a], snapshot.accounts[a], clock)
<1> DEFINE old == snapshot.accounts
           kept(a) == a \in DOMAIN old /\ SameIdentity(fetched[a], old[a])
<1>1. /\ clock \in Nat \ {0} /\ DOMAIN fetched \subseteq Accounts
      /\ \A a \in DOMAIN fetched :
            fetched[a] \in Records /\ FetchFacts(a, fetched[a], clock)
      /\ \A a \in DOMAIN old : old[a] \in Records
      /\ \A a \in DOMAIN old : old[a].windows # "none" =>
            old[a].error = "none" /\ a \in Adapters
      /\ ~hasData => DOMAIN old = {}
  BY DEF RefreshInv, TypeOK, Alone, Busy, FetchedInv, SnapshotInv
<1>2. /\ DOMAIN merged = DOMAIN fetched
      /\ \A a \in DOMAIN fetched :
            merged[a] = IF kept(a) THEN RetainBest(fetched[a], old[a]) ELSE fetched[a]
  BY <1>1 DEF RetainBestKnown
<1>3. merged = [a \in DOMAIN fetched |-> merged[a]]
  <2>1. CASE hasData BY <2>1 DEF RetainBestKnown
  <2>2. CASE ~hasData BY <2>2 DEF RefreshInv, TypeOK
  <2> QED BY <2>1, <2>2
<1>4. ASSUME NEW a \in DOMAIN fetched
      PROVE  /\ merged[a] \in Records
             /\ merged[a].error # "cancelled"
             /\ merged[a].windows # "none" => merged[a].error = "none" /\ a \in Adapters
             /\ ~merged[a].stale /\ merged[a].windows # "none" => merged[a].at = clock
             /\ merged[a].status = "ok" => merged[a].windows = "ok"
  <2>1. CASE kept(a)
    <3> DEFINE x == fetched[a]
               y == RetainBest(x, old[a])
    <3>1. /\ y \in Records /\ y.error \in {"none", x.error}
          /\ y.windows # "none" /\ ~y.stale => y.at = clock
          /\ y.windows # "none" => y.error = "none"
          /\ y.windows \in {x.windows, old[a].windows}
          /\ y.status = "ok" => y.windows = "ok"
      BY <1>1, <2>1, RetainBestFacts DEF FetchFacts
    <3>2. merged[a] = y BY <1>2, <2>1
    <3>3. x.error # "cancelled" /\ (x.windows # "none" => a \in Adapters)
      BY <1>1 DEF FetchFacts
    <3>4. old[a].windows # "none" => a \in Adapters
      BY <1>1, <2>1
    <3> HIDE DEF x, y
    <3> QED BY <3>1, <3>2, <3>3, <3>4
  <2>2. CASE ~kept(a)
    BY <1>1, <1>2, <2>2 DEF FetchFacts
  <2> QED BY <2>1, <2>2
<1>5. ASSUME NEW a \in DOMAIN fetched, a \in DOMAIN old, old[a].windows # "none"
      PROVE  \/ merged[a].status = "disabled" \/ merged[a].error = "noindex"
             \/ NewerThan(merged[a], old[a], clock)
  <2>1. CASE kept(a)
    BY <1>1, <1>2, <1>5, <2>1, RetainBestKeepsNewest
  <2>2. CASE ~kept(a)
    BY <1>1, <1>2, <1>5, <2>2 DEF SameIdentity
  <2> QED BY <2>1, <2>2
<1>6. merged \in [DOMAIN fetched -> Records]
  BY <1>3, <1>4
<1>7. merged \in UNION {[listed -> Records] : listed \in SUBSET Accounts}
  BY <1>1, <1>6
<1> QED BY <1>2, <1>4, <1>5, <1>7 DEF Shown

LEMMA AfterFetchFacts ==
    ASSUME RefreshInv, NEW c \in Callers, pc[c] = "usage", NEW usage \in Usages
    PROVE  NextFacts(AfterFetch(usage))
<1> DEFINE unavailable == AllQuotaUnavailable(fetched)
           merged == IF hasData THEN RetainBestKnown(fetched, snapshot.accounts)
                     ELSE fetched
           next == [n |-> clock, updated |-> clock, stale |-> unavailable,
                    fresh |-> IF unavailable THEN snapshot.fresh ELSE clock,
                    usage |-> IF usage = "nil" THEN snapshot.usage ELSE usage,
                    accounts |-> merged, errors |-> FetchErrors, failed |-> FALSE]
           same == hasData /\ Visible(next) = print /\ snapshot.updated # 0
           time == IF same THEN snapshot.updated ELSE clock
           final == [next EXCEPT !.updated = time]
<1>1. /\ merged \in UNION {[listed -> Records] : listed \in SUBSET Accounts}
      /\ \A a \in DOMAIN merged :
            /\ merged[a].error # "cancelled"
            /\ merged[a].windows # "none" => merged[a].error = "none" /\ a \in Adapters
            /\ ~merged[a].stale /\ merged[a].windows # "none" => merged[a].at = clock
            /\ merged[a].status = "ok" => merged[a].windows = "ok"
      /\ \A a \in Shown \cap DOMAIN merged :
            \/ merged[a].status = "disabled" \/ merged[a].error = "noindex"
            \/ NewerThan(merged[a], snapshot.accounts[a], clock)
  BY MergedFacts
<1>2. /\ clock \in Nat /\ snapshot.updated \in Nat /\ snapshot.updated < clock
      /\ hasData => print = Visible(snapshot) /\ snapshot.updated # 0
      /\ snapshot.fresh \in Nat /\ snapshot.usage \in Usages
  BY DEF RefreshInv, TypeOK, Alone, Busy, SnapshotInv
<1>3. unavailable \in BOOLEAN
  BY DEF AllQuotaUnavailable
<1>4. FetchErrors \in SUBSET Accounts
  BY DEF FetchErrors, RefreshInv, TypeOK
<1> HIDE DEF merged, unavailable
<1>5. next \in SnapshotSpace
  BY <1>1, <1>2, <1>3, <1>4 DEF SnapshotSpace
<1>6. next.n = clock /\ next.accounts = merged /\ next.stale = unavailable
  OBVIOUS
<1> HIDE DEF next
<1>7. time \in Nat /\ time # 0 /\ time <= clock
  BY <1>2
<1>8. hasData => (time = snapshot.updated <=> Visible(next) = Visible(snapshot))
  BY <1>2
<1> HIDE DEF time
<1>9. Visible(final) = Visible(next)
  BY <1>5, VisibleIgnoresUpdated
<1>10. /\ final \in SnapshotSpace /\ final.n = clock /\ final.accounts = merged
       /\ final.updated = time
  BY <1>5, <1>6, <1>7 DEF SnapshotSpace
<1> HIDE DEF final
<1>11. AfterFetch(usage) = final
  BY DEF AfterFetch, final, next, merged, unavailable, time
<1> QED
  BY <1>1, <1>7, <1>8, <1>9, <1>10, <1>11 DEF NextFacts

LEMMA ApplyFacts ==
    ASSUME RefreshInv, NEW c \in Callers, NEW usage \in Usages, Apply(c, usage)
    PROVE  NextFacts(snapshot')
<1>1. pc[c] = "usage" BY DEF Apply
<1>2. CASE ~failure BY <1>1, <1>2, AfterFetchFacts DEF Apply
<1>3. CASE failure /\ hasData BY <1>1, <1>3, AfterFailureFacts DEF Apply
<1>4. CASE failure /\ ~hasData BY <1>1, <1>4, FirstFailureFacts DEF Apply
<1> QED BY <1>2, <1>3, <1>4

LEMMA ApplyKeeps ==
    ASSUME RefreshInv, NEW c \in Callers, NEW usage \in Usages, Apply(c, usage)
    PROVE  RefreshInv'
<1> USE RefreshAssumption
<1>1. NextFacts(snapshot') BY ApplyFacts
<1>2. /\ pc[c] = "usage" /\ pc' = [pc EXCEPT ![c] = "observe"]
      /\ entries' = NoAccounts /\ fetched' = NoAccounts /\ failure' = FALSE
      /\ worker' = [a \in Accounts |-> "none"]
      /\ print' = Visible(snapshot') /\ hasData' = TRUE
      /\ ready' = (ready \/ ~failure) /\ UNCHANGED <<live, holder, mail, clock>>
  BY DEF Apply, GoTo, ForgetFetch
<1>3. carry' = Letter(snapshot', ~failure)
  BY DEF Apply
<1>4. carry'.n = snapshot'.n /\ carry'.key = ContentKey(snapshot') /\ carry'.good = ~failure
  BY <1>3 DEF Letter
<1>5. NoAccounts \in [{} -> Records] /\ DOMAIN NoAccounts = {}
  BY DEF NoAccounts
<1>6. snapshot' \in SnapshotSpace BY <1>1 DEF NextFacts
<1>7. TypeOK'
  <2>1. /\ DOMAIN snapshot'.accounts \subseteq Accounts
        /\ \A a \in DOMAIN snapshot'.accounts : snapshot'.accounts[a] \in Records
    BY <1>6 DEF SnapshotSpace
  <2>2. /\ snapshot'.n \in Nat /\ snapshot'.updated \in Nat /\ snapshot'.fresh \in Nat
        /\ snapshot'.stale \in BOOLEAN /\ snapshot'.failed \in BOOLEAN
        /\ snapshot'.usage \in Usages /\ snapshot'.errors \subseteq Accounts
    BY <1>6 DEF SnapshotSpace
  <2>3. /\ pc' \in [Callers -> CallerPoints] /\ live' \subseteq Callers
        /\ holder' \in Callers \cup {NoCaller}
        /\ worker' \in [Accounts -> {"none", "waiting", "working", "done"}]
        /\ failure' \in BOOLEAN /\ hasData' \in BOOLEAN /\ clock' \in Nat
        /\ mail'.n \in Nat /\ mail'.good \in BOOLEAN
    BY <1>2 DEF RefreshInv, TypeOK, CallerPoints
  <2>4. ready' \in BOOLEAN /\ carry'.good \in BOOLEAN
    <3>1. ready \in BOOLEAN /\ failure \in BOOLEAN BY DEF RefreshInv, TypeOK
    <3> QED BY <1>2, <1>4, <3>1
  <2>5. /\ DOMAIN entries' \subseteq Accounts
        /\ \A a \in DOMAIN entries' : entries'[a] \in Entries[a]
        /\ fetched' \in [DOMAIN entries' -> Records]
    BY <1>2, <1>5
  <2>6. carry'.n \in Nat BY <1>4, <2>2
  <2> QED BY <2>1, <2>2, <2>3, <2>4, <2>5, <2>6 DEF TypeOK
<1>8. SnapshotType' BY <1>6 DEF SnapshotType
<1>9. Alone'
  BY <1>1, <1>2, <1>5 DEF NextFacts, RefreshInv, TypeOK, Alone, Busy, CallerPoints
<1>10. FetchedInv'
  BY <1>2, <1>5 DEF RefreshInv, TypeOK, Alone, FetchedInv, Busy, CallerPoints
<1>11. SnapshotInv'
  BY <1>1, <1>2 DEF NextFacts, SnapshotInv, OldNeverLooksFresh, Shown
<1>12. LetterInv'
  BY <1>2, <1>4 DEF LetterInv
<1>13. DeliveredInOrder'
  BY <1>2 DEF DeliveredInOrder, RefreshInv, TypeOK
<1> QED BY <1>7, <1>8, <1>9, <1>10, <1>11, <1>12, <1>13 DEF RefreshInv

-----------------------------------------------------------------------------
LEMMA InitHolds == Init => RefreshInv
<1> SUFFICES ASSUME Init PROVE RefreshInv OBVIOUS
<1> USE RefreshAssumption
<1>1. NoAccounts \in [{} -> Records] /\ DOMAIN NoAccounts = {}
  BY DEF NoAccounts
<1>2. /\ NoSnapshot.n = 0 /\ NoSnapshot.updated = 0 /\ NoSnapshot.fresh = 0
      /\ NoSnapshot.stale \in BOOLEAN /\ NoSnapshot.usage = "nil"
      /\ NoSnapshot.accounts = NoAccounts /\ NoSnapshot.errors = {}
      /\ NoSnapshot.failed \in BOOLEAN
  BY DEF NoSnapshot
<1>3. NoSnapshot \in SnapshotSpace
  <2>1. NoAccounts \in UNION {[listed -> Records] : listed \in SUBSET Accounts}
    BY <1>1
  <2> QED BY <2>1 DEF NoSnapshot, SnapshotSpace, Usages
<1>4. TypeOK
  <2>1. /\ DOMAIN entries \subseteq Accounts
        /\ \A a \in DOMAIN entries : entries[a] \in Entries[a]
        /\ fetched \in [DOMAIN entries -> Records]
    BY <1>1 DEF Init
  <2>2. /\ DOMAIN snapshot.accounts \subseteq Accounts
        /\ \A a \in DOMAIN snapshot.accounts : snapshot.accounts[a] \in Records
        /\ snapshot.n \in Nat /\ snapshot.updated \in Nat /\ snapshot.fresh \in Nat
        /\ snapshot.stale \in BOOLEAN /\ snapshot.failed \in BOOLEAN
        /\ snapshot.usage \in Usages /\ snapshot.errors \subseteq Accounts
    BY <1>1, <1>2 DEF Init, Usages
  <2>3. /\ pc \in [Callers -> CallerPoints] /\ live \subseteq Callers
        /\ holder \in Callers \cup {NoCaller}
        /\ worker \in [Accounts -> {"none", "waiting", "working", "done"}]
    BY DEF Init, CallerPoints
  <2>4. /\ failure \in BOOLEAN /\ hasData \in BOOLEAN /\ ready \in BOOLEAN
        /\ clock \in Nat
    BY DEF Init
  <2>5. NoMail.n = 0 /\ NoMail.good \in BOOLEAN BY DEF NoMail
  <2>6. /\ carry.n \in Nat /\ carry.good \in BOOLEAN
        /\ mail.n \in Nat /\ mail.good \in BOOLEAN
    BY <2>5 DEF Init
  <2> QED BY <2>1, <2>2, <2>3, <2>4, <2>6 DEF TypeOK
<1>5. SnapshotType BY <1>3 DEF Init, SnapshotType
<1>6. Alone BY <1>1, <1>2 DEF Init, Alone, Busy
<1>7. FetchedInv BY <1>1 DEF Init, FetchedInv
<1>8. SnapshotInv BY <1>1, <1>2 DEF Init, SnapshotInv, OldNeverLooksFresh
<1>9. LetterInv /\ DeliveredInOrder BY DEF Init, LetterInv, DeliveredInOrder
<1> QED BY <1>4, <1>5, <1>6, <1>7, <1>8, <1>9 DEF RefreshInv

\* Only Apply writes the snapshot.
LEMMA OtherStepsKeep ==
    ASSUME RefreshInv, [Next]_vars
    PROVE  \/ RefreshInv' /\ UNCHANGED <<snapshot, hasData>>
           \/ \E c \in Callers, usage \in Usages : Apply(c, usage)
<1>1. CASE UNCHANGED vars
  <2> USE <1>1 DEF vars, fetchVars, serviceVars
  <2>1. TypeOK' BY DEF RefreshInv, TypeOK
  <2>2. SnapshotType' /\ Alone' BY DEF RefreshInv, SnapshotType, Alone
  <2>3. FetchedInv' BY DEF RefreshInv, FetchedInv
  <2>4. SnapshotInv' BY DEF RefreshInv, SnapshotInv, OldNeverLooksFresh, Shown
  <2>5. LetterInv' /\ DeliveredInOrder' BY DEF RefreshInv, LetterInv, DeliveredInOrder
  <2> QED BY <2>1, <2>2, <2>3, <2>4, <2>5 DEF RefreshInv
<1>2. ASSUME NEW c \in Callers, CallerStep(c) \/ Cancel(c),
             ~ApplyStep(c)
      PROVE  RefreshInv' /\ UNCHANGED <<snapshot, hasData>>
  <2>1. CASE Call(c) BY <2>1, CallKeeps DEF Call, serviceVars
  <2>2. CASE Cancel(c) BY <2>2, CancelKeeps DEF Cancel, serviceVars
  <2>3. CASE Lock(c) BY <2>3, LockKeeps DEF Lock, serviceVars
  <2>4. CASE List(c) BY <2>4, ListKeeps DEF List, serviceVars
  <2>5. CASE Fetched(c) BY <2>5, FetchedKeeps DEF Fetched, serviceVars
  <2>6. CASE Observe(c) BY <2>6, ObserveKeeps DEF Observe, serviceVars
  <2>7. ASSUME NEW contextError \in BOOLEAN, ListFails(c, contextError)
        PROVE  RefreshInv' /\ UNCHANGED <<snapshot, hasData>>
    BY <2>7, ListFailsKeeps DEF ListFails, serviceVars
  <2>8. ASSUME NEW a \in Accounts, Admit(c, a)
        PROVE  RefreshInv' /\ UNCHANGED <<snapshot, hasData>>
    BY <2>8, AdmitKeeps DEF Admit, serviceVars
  <2>9. ASSUME NEW a \in Accounts, GiveUp(c, a)
        PROVE  RefreshInv' /\ UNCHANGED <<snapshot, hasData>>
    BY <2>9, GiveUpKeeps DEF GiveUp, serviceVars
  <2>10. ASSUME NEW a \in Accounts, Ask(c, a)
         PROVE  RefreshInv' /\ UNCHANGED <<snapshot, hasData>>
    BY <2>10, AskKeeps DEF Ask, serviceVars
  <2> QED
    BY <1>2, <2>1, <2>2, <2>3, <2>4, <2>5, <2>6, <2>7, <2>8, <2>9, <2>10
       DEF CallerStep, FetchStep
<1> QED BY <1>1, <1>2 DEF Next, CallerStep, ApplyStep

LEMMA StepKeeps == RefreshInv /\ [Next]_vars => RefreshInv'
BY OtherStepsKeep, ApplyKeeps

THEOREM RefreshInvKept == Spec => []RefreshInv
<1> QED BY InitHolds, StepKeeps, PTL DEF Spec

\* Every variable of the refresh keeps its type.
THEOREM TypeCorrect == Spec => []TypeOK
<1>1. RefreshInv => TypeOK BY DEF RefreshInv
<1> QED BY <1>1, RefreshInvKept, PTL

\* What was kept, came from headers or survived a failure never looks fresh
\* (service.go:253).
THEOREM OldNeverLooksFreshHolds == Spec => []OldNeverLooksFresh
<1>1. RefreshInv => OldNeverLooksFresh BY DEF RefreshInv, SnapshotInv
<1> QED BY <1>1, RefreshInvKept, PTL

\* The observer hears of the refreshes in their order (service.go:169).
THEOREM DeliveredInOrderHolds == Spec => []DeliveredInOrder
<1>1. RefreshInv => DeliveredInOrder BY DEF RefreshInv
<1> QED BY <1>1, RefreshInvKept, PTL

\* No answer takes a newer observation away (service.go:253).
THEOREM ShownNeverOlderHolds == Spec => ShownNeverOlder
<1> DEFINE Newer ==
      \A a \in Shown \cap DOMAIN snapshot'.accounts :
          LET x == snapshot.accounts[a]  y == snapshot'.accounts[a]
          IN  \/ y.status = "disabled" \/ y.error = "noindex"
              \/ NewerThan(y, x, snapshot'.n)
<1>1. RefreshInv /\ [Next]_vars => [Newer]_snapshot
  <2> SUFFICES ASSUME RefreshInv, [Next]_vars, snapshot' # snapshot PROVE Newer
    OBVIOUS
  <2>1. PICK c \in Callers, usage \in Usages : Apply(c, usage)
    BY OtherStepsKeep
  <2>2. NextFacts(snapshot') BY <2>1, ApplyFacts
  <2> QED BY <2>2 DEF NextFacts
<1> QED BY <1>1, RefreshInvKept, PTL DEF Spec, ShownNeverOlder

\* The time in the key of a frame moves exactly with its content
\* (service.go:160 and 177).
THEOREM DrawnOnChangeHolds == Spec => DrawnOnChange
<1> DEFINE Moves == hasData => (snapshot'.updated = snapshot.updated
                                  <=> Visible(snapshot') = Visible(snapshot))
<1>1. RefreshInv /\ [Next]_vars => [Moves]_snapshot
  <2> SUFFICES ASSUME RefreshInv, [Next]_vars, snapshot' # snapshot PROVE Moves
    OBVIOUS
  <2>1. PICK c \in Callers, usage \in Usages : Apply(c, usage)
    BY OtherStepsKeep
  <2>2. NextFacts(snapshot') BY <2>1, ApplyFacts
  <2> QED BY <2>2 DEF NextFacts
<1> QED BY <1>1, RefreshInvKept, PTL DEF Spec, DrawnOnChange

-----------------------------------------------------------------------------
(* The row over the snapshot. *)

Statuses == {"ok", "low", "exhausted", "unknown", "error", "disabled"}

\* No status is hidden behind a better one.
LEMMA RowStatusIsWorst ==
    ASSUME NEW accounts, \A x \in accounts : x.status \in Statuses
    PROVE  /\ RowStatus(accounts) \in {"ok"} \cup {x.status : x \in accounts}
           /\ \A x \in accounts : StatusRank(RowStatus(accounts)) >= StatusRank(x.status)
<1> DEFINE statuses == {"ok"} \cup {x.status : x \in accounts}
           Worst(s) == \A t \in statuses : StatusRank(s) >= StatusRank(t)
<1>1. statuses \in SUBSET Statuses /\ "ok" \in statuses
  BY DEF Statuses
<1> HIDE DEF statuses
<1>2. \E s \in statuses : Worst(s)
  <2>1. CASE "error" \in statuses BY <1>1, <2>1 DEF Statuses, StatusRank
  <2>2. CASE "error" \notin statuses /\ "exhausted" \in statuses
    BY <1>1, <2>2 DEF Statuses, StatusRank
  <2>3. CASE statuses \cap {"error", "exhausted"} = {} /\ "low" \in statuses
    BY <1>1, <2>3 DEF Statuses, StatusRank
  <2>4. CASE statuses \subseteq {"disabled", "unknown", "ok"} /\ "disabled" \in statuses
    BY <1>1, <2>4 DEF Statuses, StatusRank
  <2>5. CASE statuses \subseteq {"unknown", "ok"} /\ "unknown" \in statuses
    BY <1>1, <2>5 DEF Statuses, StatusRank
  <2>6. CASE statuses \subseteq {"ok"}
    BY <1>1, <2>6 DEF StatusRank
  <2> QED BY <1>1, <2>1, <2>2, <2>3, <2>4, <2>5, <2>6 DEF Statuses
<1>3. RowStatus(accounts) = CHOOSE s \in statuses : Worst(s)
  BY DEF RowStatus, statuses
<1>4. RowStatus(accounts) \in statuses /\ Worst(RowStatus(accounts))
  BY <1>2, <1>3
<1> QED BY <1>4 DEF statuses

\* What a row drawn as "ok" says of the accounts that match it.
LEMMA OkRowFacts ==
    ASSUME NEW group, NEW matching, Row(group, matching).class = "ok",
           \A i \in DOMAIN matching : matching[i].status \in Statuses
    PROVE  \A i \in DOMAIN matching :
              matching[i].status # "disabled" =>
                  /\ matching[i].status = "ok" /\ ~matching[i].stale
                  /\ matching[i].warning = "none"
<1> DEFINE accounts == {matching[i] : i \in Effective(matching)}
           status == RowStatus(accounts)
<1> SUFFICES ASSUME NEW i \in DOMAIN matching, matching[i].status # "disabled"
             PROVE  /\ matching[i].status = "ok" /\ ~matching[i].stale
                    /\ matching[i].warning = "none"
  OBVIOUS
<1>1. i \in Effective(matching) /\ Effective(matching) \subseteq DOMAIN matching
  BY DEF Effective
<1>2. RowStatusClass(status, TRUE /\ RowStale(accounts)) = "ok"
  BY <1>1, (DOMAIN matching = {}) = FALSE DEF Row
<1>3. \A x \in accounts : x.status \in Statuses
  BY <1>1
<1>4. matching[i] \in accounts
  BY <1>1
<1> HIDE DEF accounts
<1>5. /\ status \in {"ok"} \cup {x.status : x \in accounts}
      /\ StatusRank(status) >= StatusRank(matching[i].status)
  BY <1>3, <1>4, RowStatusIsWorst
<1>6. status \in Statuses
  BY <1>3, <1>5 DEF Statuses
<1>7. status = "ok" /\ ~RowStale(accounts)
  BY <1>2, <1>6 DEF RowStatusClass, Statuses
<1>8. matching[i].status = "ok"
  BY <1>3, <1>4, <1>5, <1>7 DEF StatusRank, Statuses
<1> QED BY <1>4, <1>7, <1>8 DEF RowStale

\* An "ok" row is true of every enabled account (layout.go:67,
\* viewmodel.go:228, service.go:253).
THEOREM OkRowIsCurrentHolds == Spec => []OkRowIsCurrent
<1>1. RefreshInv => OkRowIsCurrent
  <2> SUFFICES ASSUME RefreshInv, SnapshotRow.class = "ok", ~snapshot.stale,
                      NEW a \in DOMAIN snapshot.accounts,
                      snapshot.accounts[a].status # "disabled"
               PROVE  /\ snapshot.accounts[a].windows = "ok"
                      /\ snapshot.accounts[a].at = snapshot.n
    BY DEF OkRowIsCurrent
  <2>1. \A b \in DOMAIN snapshot.accounts : snapshot.accounts[b].status \in Statuses
    BY DEF RefreshInv, TypeOK, Records, Statuses
  <2>2. snapshot.accounts[a].status = "ok" /\ ~snapshot.accounts[a].stale
    BY <2>1, OkRowFacts DEF SnapshotRow
  <2>3. snapshot.accounts[a].windows = "ok"
    BY <2>2 DEF RefreshInv, SnapshotInv
  <2> QED BY <2>2, <2>3 DEF RefreshInv, SnapshotInv, OldNeverLooksFresh, Shown
<1> QED BY <1>1, RefreshInvKept, PTL
=============================================================================
