---------------------------- MODULE PairingProofs ----------------------------
(***************************************************************************)
(* Proofs about Pairing for any number of processes, ceremonies and faults: *)
(* type correctness, that an approved relationship is remembered, that a    *)
(* forgotten one stays away, that active ones were approved, and that       *)
(* "not paired" is never an artefact of reading without the lock.           *)
(***************************************************************************)
EXTENDS Pairing, TLAPS

\* Relationships are numbered by their ceremonies; the frame speaks of the newest.
NumberInv ==
    /\ candidate <= made /\ active <= made
    /\ \A p \in Procs : rec[p] <= made
    /\ IF phase = "unbound" THEN owner = NoBond ELSE owner = made /\ made # 0
    /\ \A b \in approved \cup asked : b <= made

\* What a call may rely on at the point it has reached.
CallInv ==
    \A p \in Procs :
        /\ pc[p] = "save" =>
              /\ rec[p] # NoBond /\ rec[p] \notin {candidate, active}
              /\ rec[p] \notin asked /\ rec[p] \notin approved
              /\ owner = rec[p] => phase \in {"ready", "over"}
              /\ \A q \in Procs \ {p} : rec[q] # rec[p]
        /\ (pc[p] = "discard" /\ rec[p] = owner) => phase \in {"over", "unbound"}
        /\ pc[p] \in {"confirm", "write", "remove", "select"} => rec[p] \in approved
        /\ pc[p] = "write" => candidate = rec[p]
        /\ pc[p] = "remove" => candidate = rec[p] /\ active = rec[p]
        /\ pc[p] = "forget2" => active = NoBond /\ candidate \in asked \cup {NoBond}
        /\ pc[p] = "forget3" => active = NoBond /\ candidate = NoBond

Kept == owner \in {candidate, active} \cup asked

\* The frame's attempt or approval is on file as soon as a second party may act on it.
KeptInv ==
    /\ phase \in {"armed", "bound"} => Kept
    /\ \A p \in Procs :
          (pc[p] # "save" /\ rec[p] = owner /\ phase \in {"ready", "armed", "bound"})
              => Kept

\* An approved candidate occupies the file, so nothing newer was ever recorded:
\* its confirmation overwrites no newer relationship.
OrderInv ==
    candidate \in approved => \A b \in asked \cup {active} : b <= candidate

ApprovedInv ==
    /\ ActiveWasApproved
    /\ phase = "bound" => owner \in approved

ForgottenInv == forgotten \subseteq asked /\ StaysForgotten

BlankInv ==
    /\ NotPairedIsTrue
    /\ \A p \in Procs : pc[p] = "load2" => blank[p] \/ active # NoBond

PairInv ==
    /\ TypeOK /\ NumberInv /\ CallInv /\ KeptInv /\ OrderInv
    /\ ApprovedInv /\ ForgottenInv /\ BlankInv

-----------------------------------------------------------------------------

\* A call that ends, for whatever reason, leaves the files and the frame alone.
LEMMA ReturnKeeps ==
  ASSUME PairInv,
         NEW p \in Procs, Return(p),
         UNCHANGED <<candidate, active, selected, frameVars, historyVars>>,
         faults' \in 0..MaxFaults
  PROVE  PairInv'
<1> USE ProcsAssumption
<1>1. TypeOK'
  BY DEF PairInv, TypeOK, NumberInv, Points, Exchanges, Locking, Locked, Phases,
     Bonds, Return, NoBond, Goto, fileVars, frameVars, procVars, historyVars
<1>2. NumberInv'
  BY DEF PairInv, TypeOK, NumberInv, Bonds, Return, NoBond, Goto, fileVars,
     frameVars, procVars, historyVars
<1>3. CallInv'
  BY DEF PairInv, TypeOK, NumberInv, CallInv, Locked, Bonds, Return, NoBond, Goto,
     fileVars, frameVars, procVars, historyVars
<1>4. KeptInv'
  BY DEF PairInv, TypeOK, NumberInv, CallInv, KeptInv, Kept, OrderInv, ApprovedInv,
     Bonds, Phases, Return, NoBond, Goto, fileVars, frameVars, procVars, historyVars
<1>5. OrderInv'
  BY DEF PairInv, TypeOK, NumberInv, CallInv, OrderInv, Bonds, Return, NoBond, Goto,
     fileVars, frameVars, procVars, historyVars
<1>6. ApprovedInv'
  BY DEF PairInv, TypeOK, NumberInv, CallInv, ApprovedInv, ActiveWasApproved,
     Return, NoBond, Goto, fileVars, frameVars, procVars, historyVars
<1>7. ForgottenInv'
  BY DEF PairInv, TypeOK, CallInv, ForgottenInv, StaysForgotten, Bonds, Return,
     NoBond, Goto, fileVars, frameVars, procVars, historyVars
<1>8. BlankInv'
  BY DEF PairInv, TypeOK, CallInv, BlankInv, NotPairedIsTrue, Blank, Bonds, Return,
     NoBond, Goto, fileVars, frameVars, procVars, historyVars
<1> QED
  BY <1>1, <1>2, <1>3, <1>4, <1>5, <1>6, <1>7, <1>8 DEF PairInv

\* So does one that goes on to its next point without the lock.
LEMMA ContinueKeeps ==
  ASSUME PairInv,
         NEW p \in Procs,
         NEW point \in {"connect", "auth", "poll", "ceremony", "discard", "confirm"},
         pc[p] \notin {"save"} \cup Locked,
         Continue(p, point),
         UNCHANGED <<fileVars, frameVars, faults, historyVars>>,
         (point = "discard" /\ rec[p] = owner) => phase \in {"over", "unbound"},
         point = "confirm" => rec[p] \in approved
  PROVE  PairInv'
<1> USE ProcsAssumption
<1>1. TypeOK'
  BY DEF PairInv, TypeOK, NumberInv, Points, Exchanges, Locking, Locked, Phases,
     Bonds, Continue, NoBond, Goto, fileVars, frameVars, procVars, historyVars
<1>2. NumberInv'
  BY DEF PairInv, TypeOK, NumberInv, Bonds, Continue, NoBond, Goto, fileVars,
     frameVars, procVars, historyVars
<1>3. CallInv'
  BY DEF PairInv, TypeOK, NumberInv, CallInv, Locked, Bonds, Continue, NoBond, Goto,
     fileVars, frameVars, procVars, historyVars
<1>4. KeptInv'
  BY DEF PairInv, TypeOK, NumberInv, CallInv, KeptInv, Kept, OrderInv, ApprovedInv,
     Bonds, Phases, Continue, NoBond, Goto, fileVars, frameVars, procVars,
     historyVars
<1>5. OrderInv'
  BY DEF PairInv, TypeOK, NumberInv, CallInv, OrderInv, Bonds, Continue, NoBond,
     Goto, fileVars, frameVars, procVars, historyVars
<1>6. ApprovedInv'
  BY DEF PairInv, TypeOK, NumberInv, CallInv, ApprovedInv, ActiveWasApproved,
     Continue, NoBond, Goto, fileVars, frameVars, procVars, historyVars
<1>7. ForgottenInv'
  BY DEF PairInv, TypeOK, CallInv, ForgottenInv, StaysForgotten, Bonds, Continue,
     NoBond, Goto, fileVars, frameVars, procVars, historyVars
<1>8. BlankInv'
  BY DEF PairInv, TypeOK, CallInv, BlankInv, NotPairedIsTrue, Blank, Bonds,
     Continue, NoBond, Goto, fileVars, frameVars, procVars, historyVars
<1> QED
  BY <1>1, <1>2, <1>3, <1>4, <1>5, <1>6, <1>7, <1>8 DEF PairInv

\* The button approves the newest ceremony, whose record is on file.
LEMMA ButtonKeeps ==
  ASSUME PairInv, Button
  PROVE  PairInv'
<1> USE ProcsAssumption
<1>1. TypeOK'
  BY DEF PairInv, TypeOK, NumberInv, Points, Exchanges, Locking, Locked, Phases,
     Bonds, Button, NoBond, Goto, fileVars, frameVars, procVars, historyVars
<1>2. NumberInv'
  BY DEF PairInv, TypeOK, NumberInv, Bonds, Button, NoBond, Goto, fileVars,
     frameVars, procVars, historyVars
<1>3. CallInv'
  BY DEF PairInv, TypeOK, NumberInv, CallInv, Locked, Bonds, Button, NoBond, Goto,
     fileVars, frameVars, procVars, historyVars
<1>4. KeptInv'
  BY DEF PairInv, TypeOK, NumberInv, CallInv, KeptInv, Kept, OrderInv, ApprovedInv,
     Bonds, Phases, Button, NoBond, Goto, fileVars, frameVars, procVars, historyVars
<1>5. OrderInv'
  BY DEF PairInv, TypeOK, NumberInv, CallInv, OrderInv, Bonds, Button, NoBond, Goto,
     fileVars, frameVars, procVars, historyVars
<1>6. ApprovedInv'
  BY DEF PairInv, TypeOK, NumberInv, CallInv, ApprovedInv, ActiveWasApproved,
     Button, NoBond, Goto, fileVars, frameVars, procVars, historyVars
<1>7. ForgottenInv'
  BY DEF PairInv, TypeOK, CallInv, ForgottenInv, StaysForgotten, Bonds, Button,
     NoBond, Goto, fileVars, frameVars, procVars, historyVars
<1>8. BlankInv'
  BY DEF PairInv, TypeOK, CallInv, BlankInv, NotPairedIsTrue, Blank, Bonds, Button,
     NoBond, Goto, fileVars, frameVars, procVars, historyVars
<1> QED
  BY <1>1, <1>2, <1>3, <1>4, <1>5, <1>6, <1>7, <1>8 DEF PairInv

\* An expired attempt promises nothing any more.
LEMMA ExpireKeeps ==
  ASSUME PairInv, Expire
  PROVE  PairInv'
<1> USE ProcsAssumption
<1>1. TypeOK'
  BY DEF PairInv, TypeOK, NumberInv, Points, Exchanges, Locking, Locked, Phases,
     Bonds, Expire, NoBond, Goto, fileVars, frameVars, procVars, historyVars
<1>2. NumberInv'
  BY DEF PairInv, TypeOK, NumberInv, Bonds, Expire, NoBond, Goto, fileVars,
     frameVars, procVars, historyVars
<1>3. CallInv'
  BY DEF PairInv, TypeOK, NumberInv, CallInv, Locked, Bonds, Expire, NoBond, Goto,
     fileVars, frameVars, procVars, historyVars
<1>4. KeptInv'
  BY DEF PairInv, TypeOK, NumberInv, CallInv, KeptInv, Kept, OrderInv, ApprovedInv,
     Bonds, Phases, Expire, NoBond, Goto, fileVars, frameVars, procVars, historyVars
<1>5. OrderInv'
  BY DEF PairInv, TypeOK, NumberInv, CallInv, OrderInv, Bonds, Expire, NoBond, Goto,
     fileVars, frameVars, procVars, historyVars
<1>6. ApprovedInv'
  BY DEF PairInv, TypeOK, NumberInv, CallInv, ApprovedInv, ActiveWasApproved,
     Expire, NoBond, Goto, fileVars, frameVars, procVars, historyVars
<1>7. ForgottenInv'
  BY DEF PairInv, TypeOK, CallInv, ForgottenInv, StaysForgotten, Bonds, Expire,
     NoBond, Goto, fileVars, frameVars, procVars, historyVars
<1>8. BlankInv'
  BY DEF PairInv, TypeOK, CallInv, BlankInv, NotPairedIsTrue, Blank, Bonds, Expire,
     NoBond, Goto, fileVars, frameVars, procVars, historyVars
<1> QED
  BY <1>1, <1>2, <1>3, <1>4, <1>5, <1>6, <1>7, <1>8 DEF PairInv

\* Nor does a frame without an owner.
LEMMA UnbindKeeps ==
  ASSUME PairInv, Unbind
  PROVE  PairInv'
<1> USE ProcsAssumption
<1>1. TypeOK'
  BY DEF PairInv, TypeOK, NumberInv, Points, Exchanges, Locking, Locked, Phases,
     Bonds, Unbind, NoBond, Goto, fileVars, frameVars, procVars, historyVars
<1>2. NumberInv'
  BY DEF PairInv, TypeOK, NumberInv, Bonds, Unbind, NoBond, Goto, fileVars,
     frameVars, procVars, historyVars
<1>3. CallInv'
  BY DEF PairInv, TypeOK, NumberInv, CallInv, Locked, Bonds, Unbind, NoBond, Goto,
     fileVars, frameVars, procVars, historyVars
<1>4. KeptInv'
  BY DEF PairInv, TypeOK, NumberInv, CallInv, KeptInv, Kept, OrderInv, ApprovedInv,
     Bonds, Phases, Unbind, NoBond, Goto, fileVars, frameVars, procVars, historyVars
<1>5. OrderInv'
  BY DEF PairInv, TypeOK, NumberInv, CallInv, OrderInv, Bonds, Unbind, NoBond, Goto,
     fileVars, frameVars, procVars, historyVars
<1>6. ApprovedInv'
  BY DEF PairInv, TypeOK, NumberInv, CallInv, ApprovedInv, ActiveWasApproved,
     Unbind, NoBond, Goto, fileVars, frameVars, procVars, historyVars
<1>7. ForgottenInv'
  BY DEF PairInv, TypeOK, CallInv, ForgottenInv, StaysForgotten, Bonds, Unbind,
     NoBond, Goto, fileVars, frameVars, procVars, historyVars
<1>8. BlankInv'
  BY DEF PairInv, TypeOK, CallInv, BlankInv, NotPairedIsTrue, Blank, Bonds, Unbind,
     NoBond, Goto, fileVars, frameVars, procVars, historyVars
<1> QED
  BY <1>1, <1>2, <1>3, <1>4, <1>5, <1>6, <1>7, <1>8 DEF PairInv

\* A lost link is not noticed by anything yet.
LEMMA LoseLinkKeeps ==
  ASSUME PairInv, LoseLink
  PROVE  PairInv'
<1> USE ProcsAssumption
<1>1. TypeOK'
  BY DEF PairInv, TypeOK, NumberInv, Points, Exchanges, Locking, Locked, Phases,
     Bonds, LoseLink, NoBond, Goto, fileVars, frameVars, procVars, historyVars
<1>2. NumberInv'
  BY DEF PairInv, TypeOK, NumberInv, Bonds, LoseLink, NoBond, Goto, fileVars,
     frameVars, procVars, historyVars
<1>3. CallInv'
  BY DEF PairInv, TypeOK, NumberInv, CallInv, Locked, Bonds, LoseLink, NoBond, Goto,
     fileVars, frameVars, procVars, historyVars
<1>4. KeptInv'
  BY DEF PairInv, TypeOK, NumberInv, CallInv, KeptInv, Kept, OrderInv, ApprovedInv,
     Bonds, Phases, LoseLink, NoBond, Goto, fileVars, frameVars, procVars,
     historyVars
<1>5. OrderInv'
  BY DEF PairInv, TypeOK, NumberInv, CallInv, OrderInv, Bonds, LoseLink, NoBond,
     Goto, fileVars, frameVars, procVars, historyVars
<1>6. ApprovedInv'
  BY DEF PairInv, TypeOK, NumberInv, CallInv, ApprovedInv, ActiveWasApproved,
     LoseLink, NoBond, Goto, fileVars, frameVars, procVars, historyVars
<1>7. ForgottenInv'
  BY DEF PairInv, TypeOK, CallInv, ForgottenInv, StaysForgotten, Bonds, LoseLink,
     NoBond, Goto, fileVars, frameVars, procVars, historyVars
<1>8. BlankInv'
  BY DEF PairInv, TypeOK, CallInv, BlankInv, NotPairedIsTrue, Blank, Bonds,
     LoseLink, NoBond, Goto, fileVars, frameVars, procVars, historyVars
<1> QED
  BY <1>1, <1>2, <1>3, <1>4, <1>5, <1>6, <1>7, <1>8 DEF PairInv

\* A new call has no record.
LEMMA StartKeeps ==
  ASSUME PairInv, NEW p \in Procs, NEW t \in {"client", "pair", "forget"}, Start(p, t)
  PROVE  PairInv'
<1> USE ProcsAssumption
<1>1. TypeOK'
  BY DEF PairInv, TypeOK, NumberInv, Points, Exchanges, Locking, Locked, Phases,
     Bonds, Start, NoBond, Goto, fileVars, frameVars, procVars, historyVars
<1>2. NumberInv'
  BY DEF PairInv, TypeOK, NumberInv, Bonds, Start, NoBond, Goto, fileVars,
     frameVars, procVars, historyVars
<1>3. CallInv'
  BY DEF PairInv, TypeOK, NumberInv, CallInv, Locked, Bonds, Start, NoBond, Goto,
     fileVars, frameVars, procVars, historyVars
<1>4. KeptInv'
  BY DEF PairInv, TypeOK, NumberInv, CallInv, KeptInv, Kept, OrderInv, ApprovedInv,
     Bonds, Phases, Start, NoBond, Goto, fileVars, frameVars, procVars, historyVars
<1>5. OrderInv'
  BY DEF PairInv, TypeOK, NumberInv, CallInv, OrderInv, Bonds, Start, NoBond, Goto,
     fileVars, frameVars, procVars, historyVars
<1>6. ApprovedInv'
  BY DEF PairInv, TypeOK, NumberInv, CallInv, ApprovedInv, ActiveWasApproved, Start,
     NoBond, Goto, fileVars, frameVars, procVars, historyVars
<1>7. ForgottenInv'
  BY DEF PairInv, TypeOK, CallInv, ForgottenInv, StaysForgotten, Bonds, Start,
     NoBond, Goto, fileVars, frameVars, procVars, historyVars
<1>8. BlankInv'
  BY DEF PairInv, TypeOK, CallInv, BlankInv, NotPairedIsTrue, Blank, Bonds, Start,
     NoBond, Goto, fileVars, frameVars, procVars, historyVars
<1> QED
  BY <1>1, <1>2, <1>3, <1>4, <1>5, <1>6, <1>7, <1>8 DEF PairInv

\* The candidate is read; without one, an active record exists or there was a time
\* without any.
LEMMA LoadCandidateKeeps ==
  ASSUME PairInv, NEW p \in Procs, LoadCandidate(p)
  PROVE  PairInv'
<1> USE ProcsAssumption
<1>1. TypeOK'
  <2>1. PICK f \in BOOLEAN : f = (candidate # NoBond)
    OBVIOUS
  <2>2. fresh' = [fresh EXCEPT ![p] = f]
    BY <2>1 DEF LoadCandidate
  <2>3. /\ pc[p] = "load"
        /\ rec' = [rec EXCEPT ![p] = candidate]
        /\ pc' \in {[pc EXCEPT ![p] = "load2"], [pc EXCEPT ![p] = "loaded"]}
        /\ blank' = [blank EXCEPT ![p] = Blank(candidate, active)]
        /\ UNCHANGED <<fileVars, frameVars, conn, task, seen, faults, approved, asked,
                       forgotten>>
    BY DEF LoadCandidate, Goto
  <2>4. Blank(candidate, active) \in BOOLEAN
    BY DEF Blank
  <2>5. blank' \in [Procs -> BOOLEAN]
    BY <2>3, <2>4 DEF PairInv, TypeOK
  <2>6. QED
    BY <2>1, <2>2, <2>3, <2>5 DEF PairInv, TypeOK, Points, Exchanges, Locking,
       Locked, fileVars, frameVars
<1>2. NumberInv'
  BY DEF PairInv, TypeOK, NumberInv, Bonds, LoadCandidate, NoBond, Goto, fileVars,
     frameVars, procVars, historyVars
<1>3. CallInv'
  BY DEF PairInv, TypeOK, NumberInv, CallInv, Locked, Bonds, LoadCandidate, NoBond,
     Goto, fileVars, frameVars, procVars, historyVars
<1>4. KeptInv'
  BY DEF PairInv, TypeOK, NumberInv, CallInv, KeptInv, Kept, OrderInv, ApprovedInv,
     Bonds, Phases, LoadCandidate, NoBond, Goto, fileVars, frameVars, procVars,
     historyVars
<1>5. OrderInv'
  BY DEF PairInv, TypeOK, NumberInv, CallInv, OrderInv, Bonds, LoadCandidate,
     NoBond, Goto, fileVars, frameVars, procVars, historyVars
<1>6. ApprovedInv'
  BY DEF PairInv, TypeOK, NumberInv, CallInv, ApprovedInv, ActiveWasApproved,
     LoadCandidate, NoBond, Goto, fileVars, frameVars, procVars, historyVars
<1>7. ForgottenInv'
  BY DEF PairInv, TypeOK, CallInv, ForgottenInv, StaysForgotten, Bonds,
     LoadCandidate, NoBond, Goto, fileVars, frameVars, procVars, historyVars
<1>8. BlankInv'
  BY DEF PairInv, TypeOK, CallInv, BlankInv, NotPairedIsTrue, Blank, Bonds,
     LoadCandidate, NoBond, Goto, fileVars, frameVars, procVars, historyVars
<1> QED
  BY <1>1, <1>2, <1>3, <1>4, <1>5, <1>6, <1>7, <1>8 DEF PairInv

\* The active record is read later, and may have gone meanwhile.
LEMMA LoadActiveKeeps ==
  ASSUME PairInv, NEW p \in Procs, LoadActive(p)
  PROVE  PairInv'
<1> USE ProcsAssumption
<1>1. TypeOK'
  BY DEF PairInv, TypeOK, NumberInv, Points, Exchanges, Locking, Locked, Phases,
     Bonds, LoadActive, NoBond, Goto, fileVars, frameVars, procVars, historyVars
<1>2. NumberInv'
  BY DEF PairInv, TypeOK, NumberInv, Bonds, LoadActive, NoBond, Goto, fileVars,
     frameVars, procVars, historyVars
<1>3. CallInv'
  BY DEF PairInv, TypeOK, NumberInv, CallInv, Locked, Bonds, LoadActive, NoBond,
     Goto, fileVars, frameVars, procVars, historyVars
<1>4. KeptInv'
  BY DEF PairInv, TypeOK, NumberInv, CallInv, KeptInv, Kept, OrderInv, ApprovedInv,
     Bonds, Phases, LoadActive, NoBond, Goto, fileVars, frameVars, procVars,
     historyVars
<1>5. OrderInv'
  BY DEF PairInv, TypeOK, NumberInv, CallInv, OrderInv, Bonds, LoadActive, NoBond,
     Goto, fileVars, frameVars, procVars, historyVars
<1>6. ApprovedInv'
  BY DEF PairInv, TypeOK, NumberInv, CallInv, ApprovedInv, ActiveWasApproved,
     LoadActive, NoBond, Goto, fileVars, frameVars, procVars, historyVars
<1>7. ForgottenInv'
  BY DEF PairInv, TypeOK, CallInv, ForgottenInv, StaysForgotten, Bonds, LoadActive,
     NoBond, Goto, fileVars, frameVars, procVars, historyVars
<1>8. BlankInv'
  BY DEF PairInv, TypeOK, CallInv, BlankInv, NotPairedIsTrue, Blank, Bonds,
     LoadActive, NoBond, Goto, fileVars, frameVars, procVars, historyVars
<1> QED
  BY <1>1, <1>2, <1>3, <1>4, <1>5, <1>6, <1>7, <1>8 DEF PairInv

\* What the frame reports is only remembered.
LEMMA ReadPairingInfoKeeps ==
  ASSUME PairInv, NEW p \in Procs, ReadPairingInfo(p)
  PROVE  PairInv'
<1> USE ProcsAssumption
<1>1. TypeOK'
  BY DEF PairInv, TypeOK, NumberInv, Points, Exchanges, Locking, Locked, Phases,
     Bonds, ReadPairingInfo, NoBond, Goto, fileVars, frameVars, procVars,
     historyVars
<1>2. NumberInv'
  BY DEF PairInv, TypeOK, NumberInv, Bonds, ReadPairingInfo, NoBond, Goto, fileVars,
     frameVars, procVars, historyVars
<1>3. CallInv'
  BY DEF PairInv, TypeOK, NumberInv, CallInv, Locked, Bonds, ReadPairingInfo,
     NoBond, Goto, fileVars, frameVars, procVars, historyVars
<1>4. KeptInv'
  BY DEF PairInv, TypeOK, NumberInv, CallInv, KeptInv, Kept, OrderInv, ApprovedInv,
     Bonds, Phases, ReadPairingInfo, NoBond, Goto, fileVars, frameVars, procVars,
     historyVars
<1>5. OrderInv'
  BY DEF PairInv, TypeOK, NumberInv, CallInv, OrderInv, Bonds, ReadPairingInfo,
     NoBond, Goto, fileVars, frameVars, procVars, historyVars
<1>6. ApprovedInv'
  BY DEF PairInv, TypeOK, NumberInv, CallInv, ApprovedInv, ActiveWasApproved,
     ReadPairingInfo, NoBond, Goto, fileVars, frameVars, procVars, historyVars
<1>7. ForgottenInv'
  BY DEF PairInv, TypeOK, CallInv, ForgottenInv, StaysForgotten, Bonds,
     ReadPairingInfo, NoBond, Goto, fileVars, frameVars, procVars, historyVars
<1>8. BlankInv'
  BY DEF PairInv, TypeOK, CallInv, BlankInv, NotPairedIsTrue, Blank, Bonds,
     ReadPairingInfo, NoBond, Goto, fileVars, frameVars, procVars, historyVars
<1> QED
  BY <1>1, <1>2, <1>3, <1>4, <1>5, <1>6, <1>7, <1>8 DEF PairInv

\* A link is got without any other call noticing.
LEMMA ConnectKeeps ==
  ASSUME PairInv, NEW p \in Procs, Connect(p)
  PROVE  PairInv'
<1> USE ProcsAssumption
<1>1. TypeOK'
  BY DEF PairInv, TypeOK, NumberInv, Points, Exchanges, Locking, Locked, Phases,
     Bonds, Connect, NoBond, Goto, fileVars, frameVars, procVars, historyVars
<1>2. NumberInv'
  BY DEF PairInv, TypeOK, NumberInv, Bonds, Connect, NoBond, Goto, fileVars,
     frameVars, procVars, historyVars
<1>3. CallInv'
  BY DEF PairInv, TypeOK, NumberInv, CallInv, Locked, Bonds, Connect, NoBond, Goto,
     fileVars, frameVars, procVars, historyVars
<1>4. KeptInv'
  BY DEF PairInv, TypeOK, NumberInv, CallInv, KeptInv, Kept, OrderInv, ApprovedInv,
     Bonds, Phases, Connect, NoBond, Goto, fileVars, frameVars, procVars,
     historyVars
<1>5. OrderInv'
  BY DEF PairInv, TypeOK, NumberInv, CallInv, OrderInv, Bonds, Connect, NoBond,
     Goto, fileVars, frameVars, procVars, historyVars
<1>6. ApprovedInv'
  BY DEF PairInv, TypeOK, NumberInv, CallInv, ApprovedInv, ActiveWasApproved,
     Connect, NoBond, Goto, fileVars, frameVars, procVars, historyVars
<1>7. ForgottenInv'
  BY DEF PairInv, TypeOK, CallInv, ForgottenInv, StaysForgotten, Bonds, Connect,
     NoBond, Goto, fileVars, frameVars, procVars, historyVars
<1>8. BlankInv'
  BY DEF PairInv, TypeOK, CallInv, BlankInv, NotPairedIsTrue, Blank, Bonds, Connect,
     NoBond, Goto, fileVars, frameVars, procVars, historyVars
<1> QED
  BY <1>1, <1>2, <1>3, <1>4, <1>5, <1>6, <1>7, <1>8 DEF PairInv

\* A ceremony makes the newest relationship, which no file and no other call knows.
LEMMA CeremonyKeeps ==
  ASSUME PairInv, NEW p \in Procs, Ceremony(p)
  PROVE  PairInv'
<1> USE ProcsAssumption
<1>1. TypeOK'
  BY DEF PairInv, TypeOK, NumberInv, Points, Exchanges, Locking, Locked, Phases,
     Bonds, Ceremony, NoBond, Goto, fileVars, frameVars, procVars, historyVars
<1>2. NumberInv'
  BY DEF PairInv, TypeOK, NumberInv, Bonds, Ceremony, NoBond, Goto, fileVars,
     frameVars, procVars, historyVars
<1>3. CallInv'
  BY DEF PairInv, TypeOK, NumberInv, CallInv, Locked, Bonds, Ceremony, NoBond, Goto,
     fileVars, frameVars, procVars, historyVars
<1>4. KeptInv'
  BY DEF PairInv, TypeOK, NumberInv, CallInv, KeptInv, Kept, OrderInv, ApprovedInv,
     Bonds, Phases, Ceremony, NoBond, Goto, fileVars, frameVars, procVars,
     historyVars
<1>5. OrderInv'
  BY DEF PairInv, TypeOK, NumberInv, CallInv, OrderInv, Bonds, Ceremony, NoBond,
     Goto, fileVars, frameVars, procVars, historyVars
<1>6. ApprovedInv'
  BY DEF PairInv, TypeOK, NumberInv, CallInv, ApprovedInv, ActiveWasApproved,
     Ceremony, NoBond, Goto, fileVars, frameVars, procVars, historyVars
<1>7. ForgottenInv'
  BY DEF PairInv, TypeOK, CallInv, ForgottenInv, StaysForgotten, Bonds, Ceremony,
     NoBond, Goto, fileVars, frameVars, procVars, historyVars
<1>8. BlankInv'
  BY DEF PairInv, TypeOK, CallInv, BlankInv, NotPairedIsTrue, Blank, Bonds,
     Ceremony, NoBond, Goto, fileVars, frameVars, procVars, historyVars
<1> QED
  BY <1>1, <1>2, <1>3, <1>4, <1>5, <1>6, <1>7, <1>8 DEF PairInv

\* The candidate is new, neither approved nor forgotten, and replaces nothing.
LEMMA SavePendingKeeps ==
  ASSUME PairInv, NEW p \in Procs, SavePending(p)
  PROVE  PairInv'
<1> USE ProcsAssumption
<1>1. TypeOK'
  <2>1. CASE candidate = NoBond
    BY <2>1 DEF PairInv, TypeOK, Points, Exchanges, Locking, Locked, SavePending,
       Continue, Goto, frameVars, historyVars
  <2>2. CASE candidate # NoBond
    <3>1. /\ Return(p)
          /\ UNCHANGED <<candidate, active, selected, frameVars, faults, historyVars>>
      BY <2>2 DEF SavePending
    <3>2. QED
      BY <3>1, ReturnKeeps DEF PairInv, TypeOK
  <2>3. QED
    BY <2>1, <2>2
<1>2. NumberInv'
  BY DEF PairInv, TypeOK, NumberInv, Bonds, SavePending, NoBond, Goto, fileVars,
     frameVars, procVars, historyVars, Return, Continue
<1>3. CallInv'
  BY DEF PairInv, TypeOK, NumberInv, CallInv, Locked, Bonds, SavePending, NoBond,
     Goto, fileVars, frameVars, procVars, historyVars, Return, Continue
<1>4. KeptInv'
  BY DEF PairInv, TypeOK, NumberInv, CallInv, KeptInv, Kept, OrderInv, ApprovedInv,
     Bonds, Phases, SavePending, NoBond, Goto, fileVars, frameVars, procVars,
     historyVars, Return, Continue
<1>5. OrderInv'
  BY DEF PairInv, TypeOK, NumberInv, CallInv, OrderInv, Bonds, SavePending, NoBond,
     Goto, fileVars, frameVars, procVars, historyVars, Return, Continue
<1>6. ApprovedInv'
  BY DEF PairInv, TypeOK, NumberInv, CallInv, ApprovedInv, ActiveWasApproved,
     SavePending, NoBond, Goto, fileVars, frameVars, procVars, historyVars, Return,
     Continue
<1>7. ForgottenInv'
  BY DEF PairInv, TypeOK, CallInv, ForgottenInv, StaysForgotten, Bonds, SavePending,
     NoBond, Goto, fileVars, frameVars, procVars, historyVars, Return, Continue
<1>8. BlankInv'
  BY DEF PairInv, TypeOK, CallInv, BlankInv, NotPairedIsTrue, Blank, Bonds,
     SavePending, NoBond, Goto, fileVars, frameVars, procVars, historyVars, Return,
     Continue
<1> QED
  BY <1>1, <1>2, <1>3, <1>4, <1>5, <1>6, <1>7, <1>8 DEF PairInv

\* The one replaced in the active file is no newer than the candidate, so it is not the
\* owner unless it is the same one.
LEMMA WriteActiveKeeps ==
  ASSUME PairInv, NEW p \in Procs, WriteActive(p)
  PROVE  PairInv'
<1> USE ProcsAssumption
<1>1. TypeOK'
  BY DEF PairInv, TypeOK, NumberInv, Points, Exchanges, Locking, Locked, Phases,
     Bonds, WriteActive, NoBond, Goto, fileVars, frameVars, procVars, historyVars,
     Continue
<1>2. NumberInv'
  BY DEF PairInv, TypeOK, NumberInv, Bonds, WriteActive, NoBond, Goto, fileVars,
     frameVars, procVars, historyVars, Continue
<1>3. CallInv'
  BY DEF PairInv, TypeOK, NumberInv, CallInv, Locked, Bonds, WriteActive, NoBond,
     Goto, fileVars, frameVars, procVars, historyVars, Continue
<1>4. KeptInv'
  BY DEF PairInv, TypeOK, NumberInv, CallInv, KeptInv, Kept, OrderInv, ApprovedInv,
     Bonds, Phases, WriteActive, NoBond, Goto, fileVars, frameVars, procVars,
     historyVars, Continue
<1>5. OrderInv'
  BY DEF PairInv, TypeOK, NumberInv, CallInv, OrderInv, Bonds, WriteActive, NoBond,
     Goto, fileVars, frameVars, procVars, historyVars, Continue
<1>6. ApprovedInv'
  BY DEF PairInv, TypeOK, NumberInv, CallInv, ApprovedInv, ActiveWasApproved,
     WriteActive, NoBond, Goto, fileVars, frameVars, procVars, historyVars, Continue
<1>7. ForgottenInv'
  BY DEF PairInv, TypeOK, CallInv, ForgottenInv, StaysForgotten, Bonds, WriteActive,
     NoBond, Goto, fileVars, frameVars, procVars, historyVars, Continue
<1>8. BlankInv'
  BY DEF PairInv, TypeOK, CallInv, BlankInv, NotPairedIsTrue, Blank, Bonds,
     WriteActive, NoBond, Goto, fileVars, frameVars, procVars, historyVars, Continue
<1> QED
  BY <1>1, <1>2, <1>3, <1>4, <1>5, <1>6, <1>7, <1>8 DEF PairInv

\* The candidate is removed while the same relationship is active.
LEMMA RemoveCandidateKeeps ==
  ASSUME PairInv, NEW p \in Procs, RemoveCandidate(p)
  PROVE  PairInv'
<1> USE ProcsAssumption
<1>1. TypeOK'
  BY DEF PairInv, TypeOK, NumberInv, Points, Exchanges, Locking, Locked, Phases,
     Bonds, RemoveCandidate, NoBond, Goto, fileVars, frameVars, procVars,
     historyVars, Continue
<1>2. NumberInv'
  BY DEF PairInv, TypeOK, NumberInv, Bonds, RemoveCandidate, NoBond, Goto, fileVars,
     frameVars, procVars, historyVars, Continue
<1>3. CallInv'
  BY DEF PairInv, TypeOK, NumberInv, CallInv, Locked, Bonds, RemoveCandidate,
     NoBond, Goto, fileVars, frameVars, procVars, historyVars, Continue
<1>4. KeptInv'
  BY DEF PairInv, TypeOK, NumberInv, CallInv, KeptInv, Kept, OrderInv, ApprovedInv,
     Bonds, Phases, RemoveCandidate, NoBond, Goto, fileVars, frameVars, procVars,
     historyVars, Continue
<1>5. OrderInv'
  BY DEF PairInv, TypeOK, NumberInv, CallInv, OrderInv, Bonds, RemoveCandidate,
     NoBond, Goto, fileVars, frameVars, procVars, historyVars, Continue
<1>6. ApprovedInv'
  BY DEF PairInv, TypeOK, NumberInv, CallInv, ApprovedInv, ActiveWasApproved,
     RemoveCandidate, NoBond, Goto, fileVars, frameVars, procVars, historyVars,
     Continue
<1>7. ForgottenInv'
  BY DEF PairInv, TypeOK, CallInv, ForgottenInv, StaysForgotten, Bonds,
     RemoveCandidate, NoBond, Goto, fileVars, frameVars, procVars, historyVars,
     Continue
<1>8. BlankInv'
  BY DEF PairInv, TypeOK, CallInv, BlankInv, NotPairedIsTrue, Blank, Bonds,
     RemoveCandidate, NoBond, Goto, fileVars, frameVars, procVars, historyVars,
     Continue
<1> QED
  BY <1>1, <1>2, <1>3, <1>4, <1>5, <1>6, <1>7, <1>8 DEF PairInv

\* The selection is of no concern to the records.
LEMMA SelectDeviceKeeps ==
  ASSUME PairInv, NEW p \in Procs, SelectDevice(p)
  PROVE  PairInv'
<1> USE ProcsAssumption
<1>1. TypeOK'
  BY DEF PairInv, TypeOK, NumberInv, Points, Exchanges, Locking, Locked, Phases,
     Bonds, SelectDevice, NoBond, Goto, fileVars, frameVars, procVars, historyVars,
     Return
<1>2. NumberInv'
  BY DEF PairInv, TypeOK, NumberInv, Bonds, SelectDevice, NoBond, Goto, fileVars,
     frameVars, procVars, historyVars, Return
<1>3. CallInv'
  BY DEF PairInv, TypeOK, NumberInv, CallInv, Locked, Bonds, SelectDevice, NoBond,
     Goto, fileVars, frameVars, procVars, historyVars, Return
<1>4. KeptInv'
  BY DEF PairInv, TypeOK, NumberInv, CallInv, KeptInv, Kept, OrderInv, ApprovedInv,
     Bonds, Phases, SelectDevice, NoBond, Goto, fileVars, frameVars, procVars,
     historyVars, Return
<1>5. OrderInv'
  BY DEF PairInv, TypeOK, NumberInv, CallInv, OrderInv, Bonds, SelectDevice, NoBond,
     Goto, fileVars, frameVars, procVars, historyVars, Return
<1>6. ApprovedInv'
  BY DEF PairInv, TypeOK, NumberInv, CallInv, ApprovedInv, ActiveWasApproved,
     SelectDevice, NoBond, Goto, fileVars, frameVars, procVars, historyVars, Return
<1>7. ForgottenInv'
  BY DEF PairInv, TypeOK, CallInv, ForgottenInv, StaysForgotten, Bonds,
     SelectDevice, NoBond, Goto, fileVars, frameVars, procVars, historyVars, Return
<1>8. BlankInv'
  BY DEF PairInv, TypeOK, CallInv, BlankInv, NotPairedIsTrue, Blank, Bonds,
     SelectDevice, NoBond, Goto, fileVars, frameVars, procVars, historyVars, Return
<1> QED
  BY <1>1, <1>2, <1>3, <1>4, <1>5, <1>6, <1>7, <1>8 DEF PairInv

\* Only an attempt that is over is cleaned up.
LEMMA DiscardPendingKeeps ==
  ASSUME PairInv, NEW p \in Procs, DiscardPending(p)
  PROVE  PairInv'
<1> USE ProcsAssumption
<1>1. TypeOK'
  BY DEF PairInv, TypeOK, NumberInv, Points, Exchanges, Locking, Locked, Phases,
     Bonds, DiscardPending, NoBond, Goto, fileVars, frameVars, procVars,
     historyVars, Return
<1>2. NumberInv'
  BY DEF PairInv, TypeOK, NumberInv, Bonds, DiscardPending, NoBond, Goto, fileVars,
     frameVars, procVars, historyVars, Return
<1>3. CallInv'
  BY DEF PairInv, TypeOK, NumberInv, CallInv, Locked, Bonds, DiscardPending, NoBond,
     Goto, fileVars, frameVars, procVars, historyVars, Return
<1>4. KeptInv'
  BY DEF PairInv, TypeOK, NumberInv, CallInv, KeptInv, Kept, OrderInv, ApprovedInv,
     Bonds, Phases, DiscardPending, NoBond, Goto, fileVars, frameVars, procVars,
     historyVars, Return
<1>5. OrderInv'
  BY DEF PairInv, TypeOK, NumberInv, CallInv, OrderInv, Bonds, DiscardPending,
     NoBond, Goto, fileVars, frameVars, procVars, historyVars, Return
<1>6. ApprovedInv'
  BY DEF PairInv, TypeOK, NumberInv, CallInv, ApprovedInv, ActiveWasApproved,
     DiscardPending, NoBond, Goto, fileVars, frameVars, procVars, historyVars,
     Return
<1>7. ForgottenInv'
  BY DEF PairInv, TypeOK, CallInv, ForgottenInv, StaysForgotten, Bonds,
     DiscardPending, NoBond, Goto, fileVars, frameVars, procVars, historyVars,
     Return
<1>8. BlankInv'
  BY DEF PairInv, TypeOK, CallInv, BlankInv, NotPairedIsTrue, Blank, Bonds,
     DiscardPending, NoBond, Goto, fileVars, frameVars, procVars, historyVars,
     Return
<1> QED
  BY <1>1, <1>2, <1>3, <1>4, <1>5, <1>6, <1>7, <1>8 DEF PairInv

\* Both records are asked to be forgotten at once.
LEMMA ForgetActiveKeeps ==
  ASSUME PairInv, NEW p \in Procs, ForgetActive(p)
  PROVE  PairInv'
<1> USE ProcsAssumption
<1>1. TypeOK'
  BY DEF PairInv, TypeOK, NumberInv, Points, Exchanges, Locking, Locked, Phases,
     Bonds, ForgetActive, NoBond, Goto, fileVars, frameVars, procVars, historyVars,
     Continue
<1>2. NumberInv'
  BY DEF PairInv, TypeOK, NumberInv, Bonds, ForgetActive, NoBond, Goto, fileVars,
     frameVars, procVars, historyVars, Continue
<1>3. CallInv'
  BY DEF PairInv, TypeOK, NumberInv, CallInv, Locked, Bonds, ForgetActive, NoBond,
     Goto, fileVars, frameVars, procVars, historyVars, Continue
<1>4. KeptInv'
  BY DEF PairInv, TypeOK, NumberInv, CallInv, KeptInv, Kept, OrderInv, ApprovedInv,
     Bonds, Phases, ForgetActive, NoBond, Goto, fileVars, frameVars, procVars,
     historyVars, Continue
<1>5. OrderInv'
  BY DEF PairInv, TypeOK, NumberInv, CallInv, OrderInv, Bonds, ForgetActive, NoBond,
     Goto, fileVars, frameVars, procVars, historyVars, Continue
<1>6. ApprovedInv'
  BY DEF PairInv, TypeOK, NumberInv, CallInv, ApprovedInv, ActiveWasApproved,
     ForgetActive, NoBond, Goto, fileVars, frameVars, procVars, historyVars,
     Continue
<1>7. ForgottenInv'
  BY DEF PairInv, TypeOK, CallInv, ForgottenInv, StaysForgotten, Bonds,
     ForgetActive, NoBond, Goto, fileVars, frameVars, procVars, historyVars,
     Continue
<1>8. BlankInv'
  BY DEF PairInv, TypeOK, CallInv, BlankInv, NotPairedIsTrue, Blank, Bonds,
     ForgetActive, NoBond, Goto, fileVars, frameVars, procVars, historyVars,
     Continue
<1> QED
  BY <1>1, <1>2, <1>3, <1>4, <1>5, <1>6, <1>7, <1>8 DEF PairInv

\* The candidate that goes is one of them.
LEMMA ForgetCandidateKeeps ==
  ASSUME PairInv, NEW p \in Procs, ForgetCandidate(p)
  PROVE  PairInv'
<1> USE ProcsAssumption
<1>1. TypeOK'
  BY DEF PairInv, TypeOK, NumberInv, Points, Exchanges, Locking, Locked, Phases,
     Bonds, ForgetCandidate, NoBond, Goto, fileVars, frameVars, procVars,
     historyVars, Continue
<1>2. NumberInv'
  BY DEF PairInv, TypeOK, NumberInv, Bonds, ForgetCandidate, NoBond, Goto, fileVars,
     frameVars, procVars, historyVars, Continue
<1>3. CallInv'
  BY DEF PairInv, TypeOK, NumberInv, CallInv, Locked, Bonds, ForgetCandidate,
     NoBond, Goto, fileVars, frameVars, procVars, historyVars, Continue
<1>4. KeptInv'
  BY DEF PairInv, TypeOK, NumberInv, CallInv, KeptInv, Kept, OrderInv, ApprovedInv,
     Bonds, Phases, ForgetCandidate, NoBond, Goto, fileVars, frameVars, procVars,
     historyVars, Continue
<1>5. OrderInv'
  BY DEF PairInv, TypeOK, NumberInv, CallInv, OrderInv, Bonds, ForgetCandidate,
     NoBond, Goto, fileVars, frameVars, procVars, historyVars, Continue
<1>6. ApprovedInv'
  BY DEF PairInv, TypeOK, NumberInv, CallInv, ApprovedInv, ActiveWasApproved,
     ForgetCandidate, NoBond, Goto, fileVars, frameVars, procVars, historyVars,
     Continue
<1>7. ForgottenInv'
  BY DEF PairInv, TypeOK, CallInv, ForgottenInv, StaysForgotten, Bonds,
     ForgetCandidate, NoBond, Goto, fileVars, frameVars, procVars, historyVars,
     Continue
<1>8. BlankInv'
  BY DEF PairInv, TypeOK, CallInv, BlankInv, NotPairedIsTrue, Blank, Bonds,
     ForgetCandidate, NoBond, Goto, fileVars, frameVars, procVars, historyVars,
     Continue
<1> QED
  BY <1>1, <1>2, <1>3, <1>4, <1>5, <1>6, <1>7, <1>8 DEF PairInv

\* The call has succeeded: both files are empty.
LEMMA ForgetSelectionKeeps ==
  ASSUME PairInv, NEW p \in Procs, ForgetSelection(p)
  PROVE  PairInv'
<1> USE ProcsAssumption
<1>1. TypeOK'
  <2>1. PICK s \in BOOLEAN : selected' = s
    BY DEF ForgetSelection
  <2>2. /\ pc[p] = "forget3" /\ forgotten' = asked /\ Return(p)
        /\ UNCHANGED <<candidate, active, frameVars, faults, approved, asked, blank>>
    BY DEF ForgetSelection
  <2>3. QED
    BY <2>1, <2>2 DEF PairInv, TypeOK, Points, Exchanges, Locking, Locked, Return,
       Goto, NoBond, Phases, frameVars
<1>2. NumberInv'
  BY DEF PairInv, TypeOK, NumberInv, Bonds, ForgetSelection, NoBond, Goto, fileVars,
     frameVars, procVars, historyVars, Return
<1>3. CallInv'
  BY DEF PairInv, TypeOK, NumberInv, CallInv, Locked, Bonds, ForgetSelection,
     NoBond, Goto, fileVars, frameVars, procVars, historyVars, Return
<1>4. KeptInv'
  BY DEF PairInv, TypeOK, NumberInv, CallInv, KeptInv, Kept, OrderInv, ApprovedInv,
     Bonds, Phases, ForgetSelection, NoBond, Goto, fileVars, frameVars, procVars,
     historyVars, Return
<1>5. OrderInv'
  BY DEF PairInv, TypeOK, NumberInv, CallInv, OrderInv, Bonds, ForgetSelection,
     NoBond, Goto, fileVars, frameVars, procVars, historyVars, Return
<1>6. ApprovedInv'
  BY DEF PairInv, TypeOK, NumberInv, CallInv, ApprovedInv, ActiveWasApproved,
     ForgetSelection, NoBond, Goto, fileVars, frameVars, procVars, historyVars,
     Return
<1>7. ForgottenInv'
  BY DEF PairInv, TypeOK, CallInv, ForgottenInv, StaysForgotten, Bonds,
     ForgetSelection, NoBond, Goto, fileVars, frameVars, procVars, historyVars,
     Return
<1>8. BlankInv'
  BY DEF PairInv, TypeOK, CallInv, BlankInv, NotPairedIsTrue, Blank, Bonds,
     ForgetSelection, NoBond, Goto, fileVars, frameVars, procVars, historyVars,
     Return
<1> QED
  BY <1>1, <1>2, <1>3, <1>4, <1>5, <1>6, <1>7, <1>8 DEF PairInv


-----------------------------------------------------------------------------
(* The steps that end a call or let it go on *)

\* Those of a link and of a lock that fail.
LEMMA FailureKeeps ==
  ASSUME PairInv, NEW p \in Procs,
         BreakOff(p) \/ Disconnected(p) \/ Busy(p) \/ CeremonyFails(p)
  PROVE  PairInv'
<1>1. Return(p) /\ UNCHANGED <<candidate, active, selected, frameVars, historyVars>>
  BY DEF BreakOff, Disconnected, Busy, CeremonyFails
<1>2. faults' \in 0..MaxFaults
  BY ProcsAssumption DEF PairInv, TypeOK, BreakOff, Disconnected, Busy, CeremonyFails
<1>3. QED
  BY <1>1, <1>2, ReturnKeeps

\* What LoadBond has returned is used or not.
LEMMA LoadedKeeps ==
  ASSUME PairInv, NEW p \in Procs, UseRecord(p) \/ Decide(p)
  PROVE  PairInv'
<1>1. /\ pc[p] = "loaded"
      /\ UNCHANGED <<candidate, active, selected, frameVars, faults, historyVars>>
  BY DEF UseRecord, Decide
<1>2. CASE Return(p)
  BY <1>1, <1>2, ReturnKeeps DEF PairInv, TypeOK
<1>3. CASE \E point \in {"connect", "auth", "poll", "ceremony"} :
             Continue(p, point) /\ UNCHANGED lock
  BY <1>1, <1>3, ContinueKeeps DEF Locked, fileVars
<1>4. QED
  BY <1>2, <1>3 DEF UseRecord, Decide

\* An attempt is cleaned up only when the frame itself says that it is over.
LEMMA PollKeeps ==
  ASSUME PairInv, NEW p \in Procs, Poll(p)
  PROVE  PairInv'
<1> USE ProcsAssumption
<1>1. CASE owner # rec[p]
  BY <1>1, ReturnKeeps DEF Poll, PairInv, TypeOK, frameVars
<1>2. CASE owner = rec[p] /\ phase # "ready"
  <2>1. PICK point \in {"auth", "discard", "poll"} :
           Continue(p, point) /\ (point = "discard" => phase = "over")
    BY <1>2 DEF Poll
  <2>2. /\ pc[p] = "poll"
        /\ UNCHANGED <<fileVars, frameVars, faults, historyVars>>
    BY <1>2 DEF Poll, fileVars, frameVars
  <2>3. QED
    BY <2>1, <2>2, ContinueKeeps DEF Locked
<1>3. CASE owner = rec[p] /\ phase = "ready"
  <2>1. /\ pc[p] = "poll" /\ phase' = "armed" /\ Continue(p, "poll")
        /\ UNCHANGED <<candidate, active, selected, lock, owner, made, faults,
                       historyVars>>
    BY <1>3 DEF Poll
  <2>2. TypeOK'
    BY <1>3, <2>1 DEF PairInv, TypeOK, NumberInv, Points, Exchanges, Locking,
       Locked, Phases, Bonds, Continue, NoBond, Goto, fileVars, frameVars,
       historyVars
  <2>3. NumberInv'
    BY <1>3, <2>1 DEF PairInv, TypeOK, NumberInv, Bonds, Continue, NoBond, Goto,
       fileVars, frameVars, historyVars
  <2>4. CallInv'
    BY <1>3, <2>1 DEF PairInv, TypeOK, NumberInv, CallInv, Locked, Bonds,
       Continue, NoBond, Goto, fileVars, frameVars, historyVars
  <2>5. KeptInv'
    BY <1>3, <2>1 DEF PairInv, TypeOK, NumberInv, CallInv, KeptInv, Kept,
       OrderInv, ApprovedInv, Bonds, Phases, Continue, NoBond, Goto, fileVars,
       frameVars, historyVars
  <2>6. OrderInv'
    BY <1>3, <2>1 DEF PairInv, TypeOK, NumberInv, CallInv, OrderInv, Bonds,
       Continue, NoBond, Goto, fileVars, frameVars, historyVars
  <2>7. ApprovedInv'
    BY <1>3, <2>1 DEF PairInv, TypeOK, NumberInv, CallInv, ApprovedInv,
       ActiveWasApproved, Continue, NoBond, Goto, fileVars, frameVars, historyVars
  <2>8. ForgottenInv'
    BY <1>3, <2>1 DEF PairInv, TypeOK, CallInv, ForgottenInv, StaysForgotten,
       Bonds, Continue, NoBond, Goto, fileVars, frameVars, historyVars
  <2>9. BlankInv'
    BY <1>3, <2>1 DEF PairInv, TypeOK, CallInv, BlankInv, NotPairedIsTrue, Blank,
       Bonds, Continue, NoBond, Goto, fileVars, frameVars, historyVars
  <2> QED
    BY <2>2, <2>3, <2>4, <2>5, <2>6, <2>7, <2>8, <2>9 DEF PairInv
<1>4. QED
  BY <1>1, <1>2, <1>3

\* The frame confirms only what the button has approved.
LEMMA AuthenticateKeeps ==
  ASSUME PairInv, NEW p \in Procs, Authenticate(p)
  PROVE  PairInv'
<1>1. /\ pc[p] = "auth"
      /\ UNCHANGED <<candidate, active, selected, frameVars, faults, historyVars>>
  BY DEF Authenticate
<1>2. CASE Return(p)
  BY <1>1, <1>2, ReturnKeeps DEF PairInv, TypeOK
<1>3. CASE ~Return(p)
  <2>1. Continue(p, "confirm") /\ UNCHANGED lock /\ rec[p] \in approved
    BY <1>3 DEF Authenticate, PairInv, ApprovedInv
  <2>2. QED
    BY <1>1, <2>1, ContinueKeeps DEF Locked, fileVars
<1>4. QED
  BY <1>2, <1>3

\* The lock is taken only for the candidate or for what is active already.
LEMMA ConfirmKeeps ==
  ASSUME PairInv, NEW p \in Procs, Confirm(p)
  PROVE  PairInv'
<1> USE ProcsAssumption
<1>1. /\ pc[p] = "confirm"
      /\ UNCHANGED <<candidate, active, selected, frameVars, faults, historyVars>>
  BY DEF Confirm
<1>2. CASE Return(p)
  BY <1>1, <1>2, ReturnKeeps DEF PairInv, TypeOK
<1>3. CASE ~Return(p)
  <2>1. PICK point \in {"write", "select"} :
           /\ lock = NoProc /\ lock' = p /\ Continue(p, point)
           /\ point = "write" => candidate = rec[p]
    BY <1>3 DEF Confirm
  <2>2. TypeOK'
    BY <1>1, <2>1 DEF PairInv, TypeOK, NumberInv, Points, Exchanges, Locking,
       Locked, Phases, Bonds, Continue, NoBond, Goto, fileVars, frameVars,
       historyVars
  <2>3. NumberInv'
    BY <1>1, <2>1 DEF PairInv, TypeOK, NumberInv, Bonds, Continue, NoBond, Goto,
       fileVars, frameVars, historyVars
  <2>4. CallInv'
    BY <1>1, <2>1 DEF PairInv, TypeOK, NumberInv, CallInv, Locked, Bonds,
       Continue, NoBond, Goto, fileVars, frameVars, historyVars
  <2>5. KeptInv'
    BY <1>1, <2>1 DEF PairInv, TypeOK, NumberInv, CallInv, KeptInv, Kept,
       OrderInv, ApprovedInv, Bonds, Phases, Continue, NoBond, Goto, fileVars,
       frameVars, historyVars
  <2>6. OrderInv'
    BY <1>1, <2>1 DEF PairInv, TypeOK, NumberInv, CallInv, OrderInv, Bonds,
       Continue, NoBond, Goto, fileVars, frameVars, historyVars
  <2>7. ApprovedInv'
    BY <1>1, <2>1 DEF PairInv, TypeOK, NumberInv, CallInv, ApprovedInv,
       ActiveWasApproved, Continue, NoBond, Goto, fileVars, frameVars, historyVars
  <2>8. ForgottenInv'
    BY <1>1, <2>1 DEF PairInv, TypeOK, CallInv, ForgottenInv, StaysForgotten,
       Bonds, Continue, NoBond, Goto, fileVars, frameVars, historyVars
  <2>9. BlankInv'
    BY <1>1, <2>1 DEF PairInv, TypeOK, CallInv, BlankInv, NotPairedIsTrue, Blank,
       Bonds, Continue, NoBond, Goto, fileVars, frameVars, historyVars
  <2> QED
    BY <2>2, <2>3, <2>4, <2>5, <2>6, <2>7, <2>8, <2>9 DEF PairInv
<1>4. QED
  BY <1>2, <1>3

-----------------------------------------------------------------------------
(* The invariant *)

\* At the start nothing is on file and nothing is known.
LEMMA InitHolds ==
  ASSUME Init
  PROVE  PairInv
<1> USE ProcsAssumption DEF NoBond
<1>1. TypeOK
  <2>1. PICK s \in BOOLEAN : selected = s
    BY DEF Init
  <2>2. /\ candidate = NoBond /\ active = NoBond /\ lock = NoProc
        /\ phase = "unbound" /\ owner = NoBond /\ conn = NoProc
        /\ made = 0 /\ faults = 0 /\ approved = {} /\ asked = {} /\ forgotten = {}
    BY DEF Init
  <2>3. /\ pc = [p \in Procs |-> "idle"] /\ task = [p \in Procs |-> "client"]
        /\ rec = [p \in Procs |-> NoBond] /\ fresh = [p \in Procs |-> FALSE]
        /\ seen = [p \in Procs |-> <<"unbound", NoBond>>]
        /\ blank = [p \in Procs |-> FALSE]
    BY DEF Init
  <2>4. QED
    BY <2>1, <2>2, <2>3 DEF TypeOK, Points, Exchanges, Locking, Locked, Phases
<1>2. NumberInv /\ CallInv /\ KeptInv /\ OrderInv
  BY DEF Init, NumberInv, CallInv, KeptInv, OrderInv, Kept
<1>3. ApprovedInv /\ ForgottenInv /\ BlankInv
  BY DEF Init, ApprovedInv, ActiveWasApproved, ForgottenInv, StaysForgotten, BlankInv,
         NotPairedIsTrue, Bonds
<1>4. QED
  BY <1>1, <1>2, <1>3 DEF PairInv

\* Nothing changes in a stuttering step.
LEMMA StutterKeeps ==
  ASSUME PairInv, UNCHANGED vars
  PROVE  PairInv'
<1>1. TypeOK' /\ NumberInv'
  BY DEF PairInv, TypeOK, NumberInv, vars, fileVars, frameVars, procVars, historyVars
<1>2. CallInv'
  BY DEF PairInv, CallInv, vars, fileVars, frameVars, procVars, historyVars
<1>3. KeptInv' /\ OrderInv'
  BY DEF PairInv, KeptInv, Kept, OrderInv, vars, fileVars, frameVars, procVars,
     historyVars
<1>4. ApprovedInv' /\ ForgottenInv' /\ BlankInv'
  BY DEF PairInv, ApprovedInv, ActiveWasApproved, ForgottenInv, StaysForgotten,
     BlankInv,
         NotPairedIsTrue, vars, fileVars, frameVars, procVars, historyVars
<1>5. QED
  BY <1>1, <1>2, <1>3, <1>4 DEF PairInv

\* Every step keeps the invariant.
LEMMA NextKeeps ==
  ASSUME PairInv, [Next]_vars
  PROVE  PairInv'
<1>1. CASE Button
  BY <1>1, ButtonKeeps
<1>2. CASE Expire
  BY <1>2, ExpireKeeps
<1>3. CASE Unbind
  BY <1>3, UnbindKeeps
<1>4. CASE LoseLink
  BY <1>4, LoseLinkKeeps
<1>5. ASSUME NEW p \in Procs, NEW t \in {"client", "pair", "forget"}, Start(p, t)
      PROVE  PairInv'
  BY <1>5, StartKeeps
<1>6. ASSUME NEW p \in Procs, BreakOff(p) \/ Connect(p)
      PROVE  PairInv'
  BY <1>6, FailureKeeps, ConnectKeeps
<1>7. ASSUME NEW p \in Procs, Step(p)
      PROVE  PairInv'
  <2>1. CASE Disconnected(p) \/ Busy(p) \/ CeremonyFails(p)
    BY <2>1, FailureKeeps
  <2>2. CASE UseRecord(p) \/ Decide(p)
    BY <2>2, LoadedKeeps
  <2>3. CASE LoadCandidate(p)
    BY <2>3, LoadCandidateKeeps
  <2>4. CASE LoadActive(p)
    BY <2>4, LoadActiveKeeps
  <2>5. CASE ReadPairingInfo(p)
    BY <2>5, ReadPairingInfoKeeps
  <2>6. CASE Ceremony(p)
    BY <2>6, CeremonyKeeps
  <2>7. CASE SavePending(p)
    BY <2>7, SavePendingKeeps
  <2>8. CASE Poll(p)
    BY <2>8, PollKeeps
  <2>9. CASE Authenticate(p)
    BY <2>9, AuthenticateKeeps
  <2>10. CASE Confirm(p)
    BY <2>10, ConfirmKeeps
  <2>11. CASE WriteActive(p)
    BY <2>11, WriteActiveKeeps
  <2>12. CASE RemoveCandidate(p)
    BY <2>12, RemoveCandidateKeeps
  <2>13. CASE SelectDevice(p)
    BY <2>13, SelectDeviceKeeps
  <2>14. CASE DiscardPending(p)
    BY <2>14, DiscardPendingKeeps
  <2>15. CASE ForgetActive(p)
    BY <2>15, ForgetActiveKeeps
  <2>16. CASE ForgetCandidate(p)
    BY <2>16, ForgetCandidateKeeps
  <2>17. CASE ForgetSelection(p)
    BY <2>17, ForgetSelectionKeeps
  <2> QED
    BY <1>7, <2>1, <2>2, <2>3, <2>4, <2>5, <2>6, <2>7, <2>8, <2>9, <2>10, <2>11,
       <2>12, <2>13, <2>14, <2>15, <2>16, <2>17 DEF Step
<1>8. CASE UNCHANGED vars
  BY <1>8, StutterKeeps
<1>9. QED
  BY <1>1, <1>2, <1>3, <1>4, <1>5, <1>6, <1>7, <1>8 DEF Next

\* The invariant holds in every reachable state.
THEOREM PairInvHolds == Spec => []PairInv
<1>1. Init => PairInv
  BY InitHolds
<1>2. PairInv /\ [Next]_vars => PairInv'
  BY NextKeeps
<1>3. QED
  BY <1>1, <1>2, PTL DEF Spec

-----------------------------------------------------------------------------
(* What follows *)

\* Every variable has its type, and the lock is held exactly while a call of bond.go
\* changes more than one file.
THEOREM TypeCorrect == Spec => []TypeOK
<1>1. PairInv => TypeOK
  BY DEF PairInv
<1>2. QED
  BY <1>1, PairInvHolds, PTL

\* PairOnLink and confirmLockedBond: however many processes pair, confirm, clean up and
\* crash, the frame is never approved for a secret that nobody holds.
THEOREM ApprovalIsRemembered == Spec => []ApprovalRemembered
<1>1. PairInv => ApprovalRemembered
  BY DEF PairInv, KeptInv, Kept, ApprovalRemembered
<1>2. QED
  BY <1>1, PairInvHolds, PTL

\* ForgetBond: what it has removed is not brought back by a confirmation that a session
\* of the old relationship started before.
THEOREM ForgottenStaysForgotten == Spec => []StaysForgotten
<1>1. PairInv => StaysForgotten
  BY DEF PairInv, ForgottenInv
<1>2. QED
  BY <1>1, PairInvHolds, PTL

\* confirmLockedBond: an active record has been approved with the button.
THEOREM ActiveIsApproved == Spec => []ActiveWasApproved
<1>1. PairInv => ActiveWasApproved
  BY DEF PairInv, ApprovedInv
<1>2. QED
  BY <1>1, PairInvHolds, PTL

\* LoadBond reads two files without the lock and still never reports a frame as not
\* paired because of a confirmation that moves the record between the two.
THEOREM NotPairedWasTrue == Spec => []NotPairedIsTrue
<1>1. PairInv => NotPairedIsTrue
  BY DEF PairInv, BlankInv
<1>2. QED
  BY <1>1, PairInvHolds, PTL
=============================================================================
