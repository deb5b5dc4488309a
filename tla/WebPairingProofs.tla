---------------------------- MODULE WebPairingProofs ----------------------------
(***************************************************************************)
(* Proofs about WebSender, for any tabs and any number of requests, and     *)
(* about WebPairing, that its steps are steps of WebSender and what they     *)
(* keep.                                                                   *)
(***************************************************************************)
EXTENDS WebPairing, TLAPS

\* A tab that works on a request it has made and not committed.
Unstored == {"upload", "cancel", "put"}
Own == Unstored \cup {"stored", "cancelStored", "unstore"}

\* Whoever does not hold the lock will find itself aborted.
LockInv ==
    \A t \in Tabs :
        /\ at[t] \in {"connecting", "ready", "clearing"} => lock = t
        /\ at[t] \in Transferring => lock = t \/ aborted[t]

OwnInv ==
    \A t \in Tabs : at[t] \in Own =>
        /\ req[t] \notin committed /\ verdict[req[t]] # "cancelled"
        /\ \A u \in Tabs \ {t} : at[u] \in Own => req[u] # req[t]

\* What has not been stored is known to no other tab.
UnstoredInv ==
    \A t \in Tabs : at[t] \in Unstored =>
        req[t] # store /\ \A u \in Tabs \ {t} : req[u] # req[t]

\* What is about to be committed is the record, and nobody else works on it.
StoredInv ==
    \A t \in Tabs : at[t] = "stored" /\ ~aborted[t] =>
        store = req[t] /\ \A u \in Tabs \ {t} : req[u] # req[t]

\* A committed request that nobody has settled is the record.
OpenInv ==
    \A r \in committed :
        verdict[r] # "cancelled" /\ (verdict[r] = "open" => store = r)

NewInv == \A r \in Requests : r > made => verdict[r] = "open"

WebInv ==
    TypeOK /\ LockInv /\ OwnInv /\ UnstoredInv /\ StoredInv /\ OpenInv /\ NewInv


Verdicts == {"open", "complete", "cancelled", "cleared"}

\* A closed transfer leaves the types as they are, and no lock behind.
LEMMA CloseIsTyped ==
    ASSUME TypeOK, NEW t \in Tabs, Close(t), made' = made
    PROVE  /\ lock' \in Tabs \cup {0}
           /\ at' \in [Tabs -> Points]
           /\ \A u \in Tabs : lock' = u => at'[u] # "idle"
           /\ req' \in [Tabs -> 0..made']
           /\ \A u \in Tabs : req'[u] # 0 <=> at'[u] \in Transferring \ {"get", "recover"}
           /\ stop' \in [Tabs -> BOOLEAN]
           /\ aborted' \in [Tabs -> BOOLEAN]
<1> USE WebAssumption
<1>1. stop' \in [Tabs -> BOOLEAN] /\ aborted' \in [Tabs -> BOOLEAN]
  BY DEF TypeOK, Close
<1>2. lock' \in Tabs \cup {0} /\ lock' # t
  BY DEF TypeOK, Close, Released
<1>3. \A u \in Tabs : lock' = u => at'[u] # "idle"
  BY DEF TypeOK, Close, GoTo, Released
<1>4. at' \in [Tabs -> Points] /\ req' \in [Tabs -> 0..made']
  BY DEF TypeOK, Close, GoTo, Points
<1>5. \A u \in Tabs : req'[u] # 0 <=> at'[u] \in Transferring \ {"get", "recover"}
  BY DEF TypeOK, Close, GoTo, Transferring, Uploading, Displaying
<1> QED BY <1>1, <1>2, <1>3, <1>4, <1>5

\* A removal changes the verdict on the record alone.
LEMMA RemoveIsTyped ==
    ASSUME TypeOK, NEW r \in 0..made, NEW how \in Verdicts, Remove(r, how)
    PROVE  /\ store' \in 0..made
           /\ verdict' \in [Requests -> Verdicts]
           /\ \A q \in Requests : verdict'[q] = verdict[q] \/ (q = r /\ verdict'[q] = how)
<1> USE WebAssumption
<1>1. CASE store = r /\ r # 0
  <2>1. r \in Requests BY <1>1 DEF TypeOK, Requests
  <2>2. verdict' = [verdict EXCEPT ![r] = how] /\ store' = 0 BY <1>1 DEF Remove
  <2> QED BY <2>1, <2>2 DEF TypeOK, Verdicts
<1>2. CASE ~(store = r /\ r # 0)
  BY <1>2 DEF Remove, TypeOK, Verdicts
<1> QED BY <1>1, <1>2

\* The lock is taken.
LEMMA ConnectKeeps ==
    ASSUME WebInv, NEW t \in Tabs, Connect(t)
    PROVE  WebInv'
<1> USE WebAssumption
<1>1. TypeOK'
  BY DEF WebInv, TypeOK, Points, Transferring, Uploading, Displaying, Requests, Connect, GoTo
<1>2. LockInv'
  BY DEF WebInv, LockInv, TypeOK, Transferring, Uploading, Displaying, Connect, GoTo
<1>3. OwnInv'
  BY DEF WebInv, OwnInv, UnstoredInv, LockInv, TypeOK, Own, Unstored, Transferring, Uploading, Displaying, NewInv, Requests, Connect, GoTo
<1>4. UnstoredInv'
  BY DEF WebInv, UnstoredInv, OwnInv, TypeOK, Own, Unstored, Transferring, Uploading, Displaying, Connect, GoTo
<1>5. StoredInv'
  BY DEF WebInv, StoredInv, UnstoredInv, LockInv, OwnInv, TypeOK, Own, Unstored, Transferring, Uploading, Displaying, Connect, GoTo
<1>6. OpenInv'
  BY DEF WebInv, OpenInv, OwnInv, StoredInv, TypeOK, Own, Unstored, Transferring, Uploading, Displaying, Requests, Connect, GoTo
<1>7. NewInv'
  BY DEF WebInv, NewInv, TypeOK, Requests, Transferring, Uploading, Displaying, Connect, GoTo
<1> QED BY <1>1, <1>2, <1>3, <1>4, <1>5, <1>6, <1>7 DEF WebInv

\* The record is read.
LEMMA ConnectedKeeps ==
    ASSUME WebInv, NEW t \in Tabs, Connected(t)
    PROVE  WebInv'
<1> USE WebAssumption
<1>1. TypeOK'
  BY DEF WebInv, TypeOK, Points, Transferring, Uploading, Displaying, Requests, Connected, Move, GoTo
<1>2. LockInv'
  BY DEF WebInv, LockInv, TypeOK, Transferring, Uploading, Displaying, Connected, Move, GoTo
<1>3. OwnInv'
  BY DEF WebInv, OwnInv, UnstoredInv, LockInv, TypeOK, Own, Unstored, Transferring, Uploading, Displaying, NewInv, Requests, Connected, Move, GoTo
<1>4. UnstoredInv'
  BY DEF WebInv, UnstoredInv, OwnInv, TypeOK, Own, Unstored, Transferring, Uploading, Displaying, Connected, Move, GoTo
<1>5. StoredInv'
  BY DEF WebInv, StoredInv, UnstoredInv, LockInv, OwnInv, TypeOK, Own, Unstored, Transferring, Uploading, Displaying, Connected, Move, GoTo
<1>6. OpenInv'
  BY DEF WebInv, OpenInv, OwnInv, StoredInv, TypeOK, Own, Unstored, Transferring, Uploading, Displaying, Requests, Connected, Move, GoTo
<1>7. NewInv'
  BY DEF WebInv, NewInv, TypeOK, Requests, Transferring, Uploading, Displaying, Connected, Move, GoTo
<1> QED BY <1>1, <1>2, <1>3, <1>4, <1>5, <1>6, <1>7 DEF WebInv

\* The lock is given up.
LEMMA DisconnectKeeps ==
    ASSUME WebInv, NEW t \in Tabs, Disconnect(t)
    PROVE  WebInv'
<1> USE WebAssumption
<1>1. TypeOK'
  BY DEF WebInv, TypeOK, Points, Transferring, Uploading, Displaying, Requests, Disconnect, Close, GoTo, Released
<1>2. LockInv'
  BY DEF WebInv, LockInv, TypeOK, Transferring, Uploading, Displaying, Disconnect, Close, GoTo, Released
<1>3. OwnInv'
  BY DEF WebInv, OwnInv, UnstoredInv, LockInv, TypeOK, Own, Unstored, Transferring, Uploading, Displaying, NewInv, Requests, Disconnect, Close, GoTo, Released
<1>4. UnstoredInv'
  BY DEF WebInv, UnstoredInv, OwnInv, TypeOK, Own, Unstored, Transferring, Uploading, Displaying, Disconnect, Close, GoTo, Released
<1>5. StoredInv'
  BY DEF WebInv, StoredInv, UnstoredInv, LockInv, OwnInv, TypeOK, Own, Unstored, Transferring, Uploading, Displaying, Disconnect, Close, GoTo, Released
<1>6. OpenInv'
  BY DEF WebInv, OpenInv, OwnInv, StoredInv, TypeOK, Own, Unstored, Transferring, Uploading, Displaying, Requests, Disconnect, Close, GoTo, Released
<1>7. NewInv'
  BY DEF WebInv, NewInv, TypeOK, Requests, Transferring, Uploading, Displaying, Disconnect, Close, GoTo, Released
<1> QED BY <1>1, <1>2, <1>3, <1>4, <1>5, <1>6, <1>7 DEF WebInv

\* The record is read again.
LEMMA RefreshRecordsKeeps ==
    ASSUME WebInv, NEW t \in Tabs, RefreshRecords(t)
    PROVE  WebInv'
<1> USE WebAssumption
<1>1. TypeOK'
  BY DEF WebInv, TypeOK, Points, Transferring, Uploading, Displaying, Requests, RefreshRecords
<1>2. LockInv'
  BY DEF WebInv, LockInv, TypeOK, Transferring, Uploading, Displaying, RefreshRecords
<1>3. OwnInv'
  BY DEF WebInv, OwnInv, UnstoredInv, LockInv, TypeOK, Own, Unstored, Transferring, Uploading, Displaying, NewInv, Requests, RefreshRecords
<1>4. UnstoredInv'
  BY DEF WebInv, UnstoredInv, OwnInv, TypeOK, Own, Unstored, Transferring, Uploading, Displaying, RefreshRecords
<1>5. StoredInv'
  BY DEF WebInv, StoredInv, UnstoredInv, LockInv, OwnInv, TypeOK, Own, Unstored, Transferring, Uploading, Displaying, RefreshRecords
<1>6. OpenInv'
  BY DEF WebInv, OpenInv, OwnInv, StoredInv, TypeOK, Own, Unstored, Transferring, Uploading, Displaying, Requests, RefreshRecords
<1>7. NewInv'
  BY DEF WebInv, NewInv, TypeOK, Requests, Transferring, Uploading, Displaying, RefreshRecords
<1> QED BY <1>1, <1>2, <1>3, <1>4, <1>5, <1>6, <1>7 DEF WebInv

\* A transfer begins.
LEMMA SendKeeps ==
    ASSUME WebInv, NEW t \in Tabs, Send(t)
    PROVE  WebInv'
<1> USE WebAssumption
<1>1. TypeOK'
  BY DEF WebInv, TypeOK, Points, Transferring, Uploading, Displaying, Requests, Send, GoTo
<1>2. LockInv'
  BY DEF WebInv, LockInv, TypeOK, Transferring, Uploading, Displaying, Send, GoTo
<1>3. OwnInv'
  BY DEF WebInv, OwnInv, UnstoredInv, LockInv, TypeOK, Own, Unstored, Transferring, Uploading, Displaying, NewInv, Requests, Send, GoTo
<1>4. UnstoredInv'
  BY DEF WebInv, UnstoredInv, OwnInv, TypeOK, Own, Unstored, Transferring, Uploading, Displaying, Send, GoTo
<1>5. StoredInv'
  BY DEF WebInv, StoredInv, UnstoredInv, LockInv, OwnInv, TypeOK, Own, Unstored, Transferring, Uploading, Displaying, Send, GoTo
<1>6. OpenInv'
  BY DEF WebInv, OpenInv, OwnInv, StoredInv, TypeOK, Own, Unstored, Transferring, Uploading, Displaying, Requests, Send, GoTo
<1>7. NewInv'
  BY DEF WebInv, NewInv, TypeOK, Requests, Transferring, Uploading, Displaying, Send, GoTo
<1> QED BY <1>1, <1>2, <1>3, <1>4, <1>5, <1>6, <1>7 DEF WebInv

\* A request is made.
LEMMA NewRequestKeeps ==
    ASSUME WebInv, NEW t \in Tabs, NewRequest(t)
    PROVE  WebInv'
<1> USE WebAssumption
<1>1. TypeOK'
  BY DEF WebInv, TypeOK, Points, Transferring, Uploading, Displaying, Requests, NewRequest, GoTo
<1>2. LockInv'
  BY DEF WebInv, LockInv, TypeOK, Transferring, Uploading, Displaying, NewRequest, GoTo
<1>3. OwnInv'
  BY DEF WebInv, OwnInv, UnstoredInv, LockInv, TypeOK, Own, Unstored, Transferring, Uploading, Displaying, NewInv, Requests, NewRequest, GoTo
<1>4. UnstoredInv'
  BY DEF WebInv, UnstoredInv, OwnInv, TypeOK, Own, Unstored, Transferring, Uploading, Displaying, NewRequest, GoTo
<1>5. StoredInv'
  BY DEF WebInv, StoredInv, UnstoredInv, LockInv, OwnInv, TypeOK, Own, Unstored, Transferring, Uploading, Displaying, NewRequest, GoTo
<1>6. OpenInv'
  BY DEF WebInv, OpenInv, OwnInv, StoredInv, TypeOK, Own, Unstored, Transferring, Uploading, Displaying, Requests, NewRequest, GoTo
<1>7. NewInv'
  BY DEF WebInv, NewInv, TypeOK, Requests, Transferring, Uploading, Displaying, NewRequest, GoTo
<1> QED BY <1>1, <1>2, <1>3, <1>4, <1>5, <1>6, <1>7 DEF WebInv

\* The image is on the device.
LEMMA UploadKeeps ==
    ASSUME WebInv, NEW t \in Tabs, Upload(t)
    PROVE  WebInv'
<1> USE WebAssumption
<1>1. TypeOK'
  BY DEF WebInv, TypeOK, Points, Transferring, Uploading, Displaying, Requests, Upload, Move, GoTo
<1>2. LockInv'
  BY DEF WebInv, LockInv, TypeOK, Transferring, Uploading, Displaying, Upload, Move, GoTo
<1>3. OwnInv'
  BY DEF WebInv, OwnInv, UnstoredInv, LockInv, TypeOK, Own, Unstored, Transferring, Uploading, Displaying, NewInv, Requests, Upload, Move, GoTo
<1>4. UnstoredInv'
  BY DEF WebInv, UnstoredInv, OwnInv, TypeOK, Own, Unstored, Transferring, Uploading, Displaying, Upload, Move, GoTo
<1>5. StoredInv'
  BY DEF WebInv, StoredInv, UnstoredInv, LockInv, OwnInv, TypeOK, Own, Unstored, Transferring, Uploading, Displaying, Upload, Move, GoTo
<1>6. OpenInv'
  BY DEF WebInv, OpenInv, OwnInv, StoredInv, TypeOK, Own, Unstored, Transferring, Uploading, Displaying, Requests, Upload, Move, GoTo
<1>7. NewInv'
  BY DEF WebInv, NewInv, TypeOK, Requests, Transferring, Uploading, Displaying, Upload, Move, GoTo
<1> QED BY <1>1, <1>2, <1>3, <1>4, <1>5, <1>6, <1>7 DEF WebInv

\* A request that was not stored is cancelled.
LEMMA CancelledKeeps ==
    ASSUME WebInv, NEW t \in Tabs, Cancelled(t)
    PROVE  WebInv'
<1> USE WebAssumption
<1>a. /\ Close(t) /\ req[t] \in Requests /\ verdict' = [verdict EXCEPT ![req[t]] = "cancelled"]
      /\ UNCHANGED <<store, made, committed, pending>>
  <2>1. req[t] \in 0..made /\ req[t] # 0 /\ made \in 0..MaxRequests
    BY DEF WebInv, TypeOK, Cancelled, Transferring, Uploading
  <2> QED BY <2>1 DEF Cancelled, Requests
<1>b. verdict' \in [Requests -> {"open", "complete", "cancelled", "cleared"}]
  BY <1>a DEF WebInv, TypeOK
<1>1. TypeOK'
  BY <1>a, <1>b, CloseIsTyped DEF WebInv, TypeOK
<1>2. LockInv'
  BY DEF WebInv, LockInv, TypeOK, Transferring, Uploading, Displaying, Cancelled, Close, GoTo, Released
<1>3. OwnInv'
  BY DEF WebInv, OwnInv, UnstoredInv, LockInv, TypeOK, Own, Unstored, Transferring, Uploading, Displaying, NewInv, Requests, Cancelled, Close, GoTo, Released
<1>4. UnstoredInv'
  BY DEF WebInv, UnstoredInv, OwnInv, TypeOK, Own, Unstored, Transferring, Uploading, Displaying, Cancelled, Close, GoTo, Released
<1>5. StoredInv'
  BY DEF WebInv, StoredInv, UnstoredInv, LockInv, OwnInv, TypeOK, Own, Unstored, Transferring, Uploading, Displaying, Cancelled, Close, GoTo, Released
<1>6. OpenInv'
  BY DEF WebInv, OpenInv, OwnInv, StoredInv, TypeOK, Own, Unstored, Transferring, Uploading, Displaying, Requests, Cancelled, Close, GoTo, Released
<1>7. NewInv'
  BY DEF WebInv, NewInv, TypeOK, Requests, Transferring, Uploading, Displaying, Cancelled, Close, GoTo, Released
<1> QED BY <1>1, <1>2, <1>3, <1>4, <1>5, <1>6, <1>7 DEF WebInv

\* The request is stored if nothing is.
LEMMA PutKeeps ==
    ASSUME WebInv, NEW t \in Tabs, Put(t)
    PROVE  WebInv'
<1> USE WebAssumption
<1>b. ASSUME store # 0 PROVE TypeOK'
  <2>1. Close(t) /\ UNCHANGED <<store, made, committed, verdict, pending>>
    BY <1>b DEF Put
  <2> QED BY <2>1, CloseIsTyped DEF WebInv, TypeOK
<1>c. ASSUME store = 0 PROVE TypeOK'
  <2>1. /\ at[t] = "put" /\ at' = [at EXCEPT ![t] = "stored"] /\ store' = req[t]
        /\ UNCHANGED <<lock, req, stop, aborted, made, committed, verdict, pending>>
    BY <1>c DEF Put, GoTo
  <2>2. at' \in [Tabs -> Points] /\ store' \in 0..made'
    BY <2>1 DEF WebInv, TypeOK, Points, Transferring, Uploading
  <2>3. \A u \in Tabs : req'[u] # 0 <=> at'[u] \in Transferring \ {"get", "recover"}
    BY <2>1 DEF WebInv, TypeOK, Transferring, Uploading, Displaying
  <2>4. \A u \in Tabs : lock' = u => at'[u] # "idle"
    BY <2>1 DEF WebInv, TypeOK
  <2> QED BY <2>1, <2>2, <2>3, <2>4 DEF WebInv, TypeOK
<1>1. TypeOK'
  BY <1>b, <1>c
<1>2. LockInv'
  BY DEF WebInv, LockInv, TypeOK, Transferring, Uploading, Displaying, Put, Close, GoTo, Released
<1>3. OwnInv'
  BY DEF WebInv, OwnInv, UnstoredInv, LockInv, TypeOK, Own, Unstored, Transferring, Uploading, Displaying, NewInv, Requests, Put, Close, GoTo, Released
<1>4. UnstoredInv'
  BY DEF WebInv, UnstoredInv, OwnInv, TypeOK, Own, Unstored, Transferring, Uploading, Displaying, Put, Close, GoTo, Released
<1>5. StoredInv'
  BY DEF WebInv, StoredInv, UnstoredInv, LockInv, OwnInv, TypeOK, Own, Unstored, Transferring, Uploading, Displaying, Put, Close, GoTo, Released
<1>6. OpenInv'
  BY DEF WebInv, OpenInv, OwnInv, StoredInv, TypeOK, Own, Unstored, Transferring, Uploading, Displaying, Requests, Put, Close, GoTo, Released
<1>7. NewInv'
  BY DEF WebInv, NewInv, TypeOK, Requests, Transferring, Uploading, Displaying, Put, Close, GoTo, Released
<1> QED BY <1>1, <1>2, <1>3, <1>4, <1>5, <1>6, <1>7 DEF WebInv

\* COMMIT is sent.
LEMMA CommitKeeps ==
    ASSUME WebInv, NEW t \in Tabs, Commit(t)
    PROVE  WebInv'
<1> USE WebAssumption
<1>a. /\ at[t] = "stored" /\ at' = [at EXCEPT ![t] = "answer"] /\ req[t] \in 1..made
      /\ committed' = committed \cup {req[t]}
      /\ UNCHANGED <<lock, req, stop, aborted, store, made, verdict, pending>>
  BY DEF Commit, Move, GoTo, WebInv, TypeOK, Transferring, Uploading
<1>1. TypeOK'
  BY <1>a DEF WebInv, TypeOK, Points, Transferring, Uploading, Displaying
<1>2. LockInv'
  BY DEF WebInv, LockInv, TypeOK, Transferring, Uploading, Displaying, Commit, Move, GoTo
<1>3. OwnInv'
  BY DEF WebInv, OwnInv, UnstoredInv, LockInv, TypeOK, Own, Unstored, Transferring, Uploading, Displaying, NewInv, Requests, Commit, Move, GoTo
<1>4. UnstoredInv'
  BY DEF WebInv, UnstoredInv, OwnInv, TypeOK, Own, Unstored, Transferring, Uploading, Displaying, Commit, Move, GoTo
<1>5. StoredInv'
  BY DEF WebInv, StoredInv, UnstoredInv, LockInv, OwnInv, TypeOK, Own, Unstored, Transferring, Uploading, Displaying, Commit, Move, GoTo
<1>6. OpenInv'
  BY DEF WebInv, OpenInv, OwnInv, StoredInv, TypeOK, Own, Unstored, Transferring, Uploading, Displaying, Requests, Commit, Move, GoTo
<1>7. NewInv'
  BY DEF WebInv, NewInv, TypeOK, Requests, Transferring, Uploading, Displaying, Commit, Move, GoTo
<1> QED BY <1>1, <1>2, <1>3, <1>4, <1>5, <1>6, <1>7 DEF WebInv

\* A stored request is cancelled.
LEMMA CancelStoredKeeps ==
    ASSUME WebInv, NEW t \in Tabs, CancelStored(t)
    PROVE  WebInv'
<1> USE WebAssumption
<1>a. \E from \in {"stored", "cancelStored"}, to \in {"cancelStored", "unstore"} :
        at[t] = from /\ at' = [at EXCEPT ![t] = to]
  BY DEF CancelStored, Move, GoTo
<1>b. UNCHANGED <<lock, req, stop, aborted, store, made, committed, verdict, pending>>
  BY DEF CancelStored, Move
<1>1. TypeOK'
  BY <1>a, <1>b DEF WebInv, TypeOK, Points, Transferring, Uploading, Displaying
<1>2. LockInv'
  BY DEF WebInv, LockInv, TypeOK, Transferring, Uploading, Displaying, CancelStored, Move, GoTo
<1>3. OwnInv'
  BY DEF WebInv, OwnInv, UnstoredInv, LockInv, TypeOK, Own, Unstored, Transferring, Uploading, Displaying, NewInv, Requests, CancelStored, Move, GoTo
<1>4. UnstoredInv'
  BY DEF WebInv, UnstoredInv, OwnInv, TypeOK, Own, Unstored, Transferring, Uploading, Displaying, CancelStored, Move, GoTo
<1>5. StoredInv'
  BY DEF WebInv, StoredInv, UnstoredInv, LockInv, OwnInv, TypeOK, Own, Unstored, Transferring, Uploading, Displaying, CancelStored, Move, GoTo
<1>6. OpenInv'
  BY DEF WebInv, OpenInv, OwnInv, StoredInv, TypeOK, Own, Unstored, Transferring, Uploading, Displaying, Requests, CancelStored, Move, GoTo
<1>7. NewInv'
  BY DEF WebInv, NewInv, TypeOK, Requests, Transferring, Uploading, Displaying, CancelStored, Move, GoTo
<1> QED BY <1>1, <1>2, <1>3, <1>4, <1>5, <1>6, <1>7 DEF WebInv

\* Its record is removed.
LEMMA UnstoreKeeps ==
    ASSUME WebInv, NEW t \in Tabs, Unstore(t)
    PROVE  WebInv'
<1> USE WebAssumption
<1>a. req[t] \in 0..made /\ Remove(req[t], "cancelled") /\ Close(t) /\ UNCHANGED <<made, committed, pending>>
  BY DEF WebInv, TypeOK, Unstore
<1>b. /\ store' \in 0..made /\ verdict' \in [Requests -> Verdicts]
      /\ \A q \in Requests : verdict'[q] = verdict[q] \/ (q = req[t] /\ verdict'[q] = "cancelled")
  BY <1>a, RemoveIsTyped DEF WebInv, Verdicts
<1>1. TypeOK'
  BY <1>a, <1>b, CloseIsTyped DEF WebInv, TypeOK, Verdicts
<1>2. LockInv'
  BY DEF WebInv, LockInv, TypeOK, Transferring, Uploading, Displaying, Unstore, Close, GoTo, Released, Remove
<1>3. OwnInv'
  BY <1>a, <1>b DEF WebInv, OwnInv, TypeOK, Own, Unstored, Unstore, Close, GoTo, Requests, Transferring, Uploading, Displaying
<1>4. UnstoredInv'
  BY DEF WebInv, UnstoredInv, OwnInv, TypeOK, Own, Unstored, Transferring, Uploading, Displaying, Unstore, Close, GoTo, Released, Remove
<1>5. StoredInv'
  BY DEF WebInv, StoredInv, UnstoredInv, LockInv, OwnInv, TypeOK, Own, Unstored, Transferring, Uploading, Displaying, Unstore, Close, GoTo, Released, Remove
<1>6. OpenInv'
  BY DEF WebInv, OpenInv, OwnInv, StoredInv, TypeOK, Own, Unstored, Transferring, Uploading, Displaying, Requests, Unstore, Close, GoTo, Released, Remove
<1>7. NewInv'
  BY DEF WebInv, NewInv, TypeOK, Requests, Transferring, Uploading, Displaying, Unstore, Close, GoTo, Released, Remove
<1> QED BY <1>1, <1>2, <1>3, <1>4, <1>5, <1>6, <1>7 DEF WebInv

\* A recovery begins.
LEMMA RecoverKeeps ==
    ASSUME WebInv, NEW t \in Tabs, Recover(t)
    PROVE  WebInv'
<1> USE WebAssumption
<1>1. TypeOK'
  BY DEF WebInv, TypeOK, Points, Transferring, Uploading, Displaying, Requests, Recover, Move, GoTo
<1>2. LockInv'
  BY DEF WebInv, LockInv, TypeOK, Transferring, Uploading, Displaying, Recover, Move, GoTo
<1>3. OwnInv'
  BY DEF WebInv, OwnInv, UnstoredInv, LockInv, TypeOK, Own, Unstored, Transferring, Uploading, Displaying, NewInv, Requests, Recover, Move, GoTo
<1>4. UnstoredInv'
  BY DEF WebInv, UnstoredInv, OwnInv, TypeOK, Own, Unstored, Transferring, Uploading, Displaying, Recover, Move, GoTo
<1>5. StoredInv'
  BY DEF WebInv, StoredInv, UnstoredInv, LockInv, OwnInv, TypeOK, Own, Unstored, Transferring, Uploading, Displaying, Recover, Move, GoTo
<1>6. OpenInv'
  BY DEF WebInv, OpenInv, OwnInv, StoredInv, TypeOK, Own, Unstored, Transferring, Uploading, Displaying, Requests, Recover, Move, GoTo
<1>7. NewInv'
  BY DEF WebInv, NewInv, TypeOK, Requests, Transferring, Uploading, Displaying, Recover, Move, GoTo
<1> QED BY <1>1, <1>2, <1>3, <1>4, <1>5, <1>6, <1>7 DEF WebInv

\* The record is asked about.
LEMMA QueryKeeps ==
    ASSUME WebInv, NEW t \in Tabs, Query(t)
    PROVE  WebInv'
<1> USE WebAssumption
<1>1. TypeOK'
  BY DEF WebInv, TypeOK, Points, Transferring, Uploading, Displaying, Requests, Query, GoTo
<1>2. LockInv'
  BY DEF WebInv, LockInv, TypeOK, Transferring, Uploading, Displaying, Query, GoTo
<1>3. OwnInv'
  BY DEF WebInv, OwnInv, UnstoredInv, LockInv, TypeOK, Own, Unstored, Transferring, Uploading, Displaying, NewInv, Requests, Query, GoTo
<1>4. UnstoredInv'
  BY DEF WebInv, UnstoredInv, OwnInv, TypeOK, Own, Unstored, Transferring, Uploading, Displaying, Query, GoTo
<1>5. StoredInv'
  BY DEF WebInv, StoredInv, UnstoredInv, LockInv, OwnInv, TypeOK, Own, Unstored, Transferring, Uploading, Displaying, Query, GoTo
<1>6. OpenInv'
  BY DEF WebInv, OpenInv, OwnInv, StoredInv, TypeOK, Own, Unstored, Transferring, Uploading, Displaying, Requests, Query, GoTo
<1>7. NewInv'
  BY DEF WebInv, NewInv, TypeOK, Requests, Transferring, Uploading, Displaying, Query, GoTo
<1> QED BY <1>1, <1>2, <1>3, <1>4, <1>5, <1>6, <1>7 DEF WebInv

\* The image is displayed.
LEMMA DisplayedKeeps ==
    ASSUME WebInv, NEW t \in Tabs, Displayed(t)
    PROVE  WebInv'
<1> USE WebAssumption
<1>1. TypeOK'
  BY DEF WebInv, TypeOK, Points, Transferring, Uploading, Displaying, Requests, Displayed, Move, GoTo
<1>2. LockInv'
  BY DEF WebInv, LockInv, TypeOK, Transferring, Uploading, Displaying, Displayed, Move, GoTo
<1>3. OwnInv'
  BY DEF WebInv, OwnInv, UnstoredInv, LockInv, TypeOK, Own, Unstored, Transferring, Uploading, Displaying, NewInv, Requests, Displayed, Move, GoTo
<1>4. UnstoredInv'
  BY DEF WebInv, UnstoredInv, OwnInv, TypeOK, Own, Unstored, Transferring, Uploading, Displaying, Displayed, Move, GoTo
<1>5. StoredInv'
  BY DEF WebInv, StoredInv, UnstoredInv, LockInv, OwnInv, TypeOK, Own, Unstored, Transferring, Uploading, Displaying, Displayed, Move, GoTo
<1>6. OpenInv'
  BY DEF WebInv, OpenInv, OwnInv, StoredInv, TypeOK, Own, Unstored, Transferring, Uploading, Displaying, Requests, Displayed, Move, GoTo
<1>7. NewInv'
  BY DEF WebInv, NewInv, TypeOK, Requests, Transferring, Uploading, Displaying, Displayed, Move, GoTo
<1> QED BY <1>1, <1>2, <1>3, <1>4, <1>5, <1>6, <1>7 DEF WebInv

\* The record of a displayed image is removed.
LEMMA RemoveDisplayedKeeps ==
    ASSUME WebInv, NEW t \in Tabs, RemoveDisplayed(t)
    PROVE  WebInv'
<1> USE WebAssumption
<1>a. req[t] \in 0..made /\ Remove(req[t], "complete") /\ Close(t) /\ UNCHANGED <<made, committed, pending>>
  BY DEF WebInv, TypeOK, RemoveDisplayed
<1>b. /\ store' \in 0..made /\ verdict' \in [Requests -> Verdicts]
      /\ \A q \in Requests : verdict'[q] = verdict[q] \/ (q = req[t] /\ verdict'[q] = "complete")
  BY <1>a, RemoveIsTyped DEF WebInv, Verdicts
<1>1. TypeOK'
  BY <1>a, <1>b, CloseIsTyped DEF WebInv, TypeOK, Verdicts
<1>2. LockInv'
  BY DEF WebInv, LockInv, TypeOK, Transferring, Uploading, Displaying, RemoveDisplayed, Close, GoTo, Released, Remove
<1>3. OwnInv'
  BY <1>a, <1>b DEF WebInv, OwnInv, TypeOK, Own, Unstored, RemoveDisplayed, Close, GoTo, Requests, Transferring, Uploading, Displaying
<1>4. UnstoredInv'
  BY DEF WebInv, UnstoredInv, OwnInv, TypeOK, Own, Unstored, Transferring, Uploading, Displaying, RemoveDisplayed, Close, GoTo, Released, Remove
<1>5. StoredInv'
  BY DEF WebInv, StoredInv, UnstoredInv, LockInv, OwnInv, TypeOK, Own, Unstored, Transferring, Uploading, Displaying, RemoveDisplayed, Close, GoTo, Released, Remove
<1>6. OpenInv'
  BY DEF WebInv, OpenInv, OwnInv, StoredInv, TypeOK, Own, Unstored, Transferring, Uploading, Displaying, Requests, RemoveDisplayed, Close, GoTo, Released, Remove
<1>7. NewInv'
  BY DEF WebInv, NewInv, TypeOK, Requests, Transferring, Uploading, Displaying, RemoveDisplayed, Close, GoTo, Released, Remove
<1> QED BY <1>1, <1>2, <1>3, <1>4, <1>5, <1>6, <1>7 DEF WebInv

\* A transfer ends without a result.
LEMMA FailKeeps ==
    ASSUME WebInv, NEW t \in Tabs, Fail(t)
    PROVE  WebInv'
<1> USE WebAssumption
<1>1. TypeOK'
  BY DEF WebInv, TypeOK, Points, Transferring, Uploading, Displaying, Requests, Fail, Close, GoTo, Released
<1>2. LockInv'
  BY DEF WebInv, LockInv, TypeOK, Transferring, Uploading, Displaying, Fail, Close, GoTo, Released
<1>3. OwnInv'
  BY DEF WebInv, OwnInv, UnstoredInv, LockInv, TypeOK, Own, Unstored, Transferring, Uploading, Displaying, NewInv, Requests, Fail, Close, GoTo, Released
<1>4. UnstoredInv'
  BY DEF WebInv, UnstoredInv, OwnInv, TypeOK, Own, Unstored, Transferring, Uploading, Displaying, Fail, Close, GoTo, Released
<1>5. StoredInv'
  BY DEF WebInv, StoredInv, UnstoredInv, LockInv, OwnInv, TypeOK, Own, Unstored, Transferring, Uploading, Displaying, Fail, Close, GoTo, Released
<1>6. OpenInv'
  BY DEF WebInv, OpenInv, OwnInv, StoredInv, TypeOK, Own, Unstored, Transferring, Uploading, Displaying, Requests, Fail, Close, GoTo, Released
<1>7. NewInv'
  BY DEF WebInv, NewInv, TypeOK, Requests, Transferring, Uploading, Displaying, Fail, Close, GoTo, Released
<1> QED BY <1>1, <1>2, <1>3, <1>4, <1>5, <1>6, <1>7 DEF WebInv

\* The transfer is to stop.
LEMMA CancelKeeps ==
    ASSUME WebInv, NEW t \in Tabs, Cancel(t)
    PROVE  WebInv'
<1> USE WebAssumption
<1>1. TypeOK'
  BY DEF WebInv, TypeOK, Points, Transferring, Uploading, Displaying, Requests, Cancel
<1>2. LockInv'
  BY DEF WebInv, LockInv, TypeOK, Transferring, Uploading, Displaying, Cancel
<1>3. OwnInv'
  BY DEF WebInv, OwnInv, UnstoredInv, LockInv, TypeOK, Own, Unstored, Transferring, Uploading, Displaying, NewInv, Requests, Cancel
<1>4. UnstoredInv'
  BY DEF WebInv, UnstoredInv, OwnInv, TypeOK, Own, Unstored, Transferring, Uploading, Displaying, Cancel
<1>5. StoredInv'
  BY DEF WebInv, StoredInv, UnstoredInv, LockInv, OwnInv, TypeOK, Own, Unstored, Transferring, Uploading, Displaying, Cancel
<1>6. OpenInv'
  BY DEF WebInv, OpenInv, OwnInv, StoredInv, TypeOK, Own, Unstored, Transferring, Uploading, Displaying, Requests, Cancel
<1>7. NewInv'
  BY DEF WebInv, NewInv, TypeOK, Requests, Transferring, Uploading, Displaying, Cancel
<1> QED BY <1>1, <1>2, <1>3, <1>4, <1>5, <1>6, <1>7 DEF WebInv

\* The lock is taken to clear the record.
LEMMA AcknowledgeKeeps ==
    ASSUME WebInv, NEW t \in Tabs, Acknowledge(t)
    PROVE  WebInv'
<1> USE WebAssumption
<1>1. TypeOK'
  BY DEF WebInv, TypeOK, Points, Transferring, Uploading, Displaying, Requests, Acknowledge, GoTo
<1>2. LockInv'
  BY DEF WebInv, LockInv, TypeOK, Transferring, Uploading, Displaying, Acknowledge, GoTo
<1>3. OwnInv'
  BY DEF WebInv, OwnInv, UnstoredInv, LockInv, TypeOK, Own, Unstored, Transferring, Uploading, Displaying, NewInv, Requests, Acknowledge, GoTo
<1>4. UnstoredInv'
  BY DEF WebInv, UnstoredInv, OwnInv, TypeOK, Own, Unstored, Transferring, Uploading, Displaying, Acknowledge, GoTo
<1>5. StoredInv'
  BY DEF WebInv, StoredInv, UnstoredInv, LockInv, OwnInv, TypeOK, Own, Unstored, Transferring, Uploading, Displaying, Acknowledge, GoTo
<1>6. OpenInv'
  BY DEF WebInv, OpenInv, OwnInv, StoredInv, TypeOK, Own, Unstored, Transferring, Uploading, Displaying, Requests, Acknowledge, GoTo
<1>7. NewInv'
  BY DEF WebInv, NewInv, TypeOK, Requests, Transferring, Uploading, Displaying, Acknowledge, GoTo
<1> QED BY <1>1, <1>2, <1>3, <1>4, <1>5, <1>6, <1>7 DEF WebInv

\* The record is cleared.
LEMMA ClearKeeps ==
    ASSUME WebInv, NEW t \in Tabs, Clear(t)
    PROVE  WebInv'
<1> USE WebAssumption
<1>a. /\ Close(t) /\ UNCHANGED <<made, committed, pending>> /\ at[t] = "clearing"
      /\ Remove(pending[t], "cleared") \/ UNCHANGED <<store, verdict>>
  BY DEF Clear
<1>b. /\ store' \in 0..made /\ verdict' \in [Requests -> Verdicts]
      /\ \A q \in Requests : verdict'[q] = verdict[q] \/ (q = pending[t] /\ verdict'[q] = "cleared")
  <2>1. CASE UNCHANGED <<store, verdict>> BY <2>1 DEF WebInv, TypeOK, Verdicts
  <2>2. CASE Remove(pending[t], "cleared")
    <3>1. pending[t] \in 0..made BY DEF WebInv, TypeOK
    <3> QED BY <2>2, <3>1, RemoveIsTyped DEF WebInv, Verdicts
  <2> QED BY <1>a, <2>1, <2>2
<1>1. TypeOK'
  BY <1>a, <1>b, CloseIsTyped DEF WebInv, TypeOK, Verdicts
<1>2. LockInv'
  BY DEF WebInv, LockInv, TypeOK, Transferring, Uploading, Displaying, Clear, Close, GoTo, Released, Remove
<1>3. OwnInv'
  BY <1>a, <1>b DEF WebInv, OwnInv, TypeOK, Own, Unstored, Close, GoTo, Requests, Transferring, Uploading, Displaying
<1>4. UnstoredInv'
  BY DEF WebInv, UnstoredInv, OwnInv, TypeOK, Own, Unstored, Transferring, Uploading, Displaying, Clear, Close, GoTo, Released, Remove
<1>5. StoredInv'
  BY DEF WebInv, StoredInv, UnstoredInv, LockInv, OwnInv, TypeOK, Own, Unstored, Transferring, Uploading, Displaying, Clear, Close, GoTo, Released, Remove
<1>6. OpenInv'
  BY DEF WebInv, OpenInv, OwnInv, StoredInv, TypeOK, Own, Unstored, Transferring, Uploading, Displaying, Requests, Clear, Close, GoTo, Released, Remove
<1>7. NewInv'
  BY DEF WebInv, NewInv, TypeOK, Requests, Transferring, Uploading, Displaying, Clear, Close, GoTo, Released, Remove
<1> QED BY <1>1, <1>2, <1>3, <1>4, <1>5, <1>6, <1>7 DEF WebInv

\* The lock is given up by a transfer that goes on.
LEMMA PageHideKeeps ==
    ASSUME WebInv, NEW t \in Tabs, PageHide(t)
    PROVE  WebInv'
<1> USE WebAssumption
<1>a. ASSUME at[t] \in Transferring PROVE TypeOK'
  <2>1. /\ aborted' = [aborted EXCEPT ![t] = TRUE] /\ lock' \in {lock, 0}
        /\ UNCHANGED <<at, req, stop, store, made, committed, verdict, pending>>
    BY <1>a DEF PageHide, Released
  <2>2. aborted' \in [Tabs -> BOOLEAN] BY <2>1 DEF WebInv, TypeOK
  <2> QED BY <2>1, <2>2 DEF WebInv, TypeOK
<1>b. ASSUME at[t] \notin Transferring PROVE TypeOK'
  <2>1. Close(t) /\ UNCHANGED <<store, made, committed, verdict, pending>>
    BY <1>b DEF PageHide
  <2> QED BY <2>1, CloseIsTyped DEF WebInv, TypeOK
<1>1. TypeOK'
  BY <1>a, <1>b
<1>2. LockInv'
  BY DEF WebInv, LockInv, TypeOK, Transferring, Uploading, Displaying, PageHide, Close, GoTo, Released
<1>3. OwnInv'
  BY DEF WebInv, OwnInv, UnstoredInv, LockInv, TypeOK, Own, Unstored, Transferring, Uploading, Displaying, NewInv, Requests, PageHide, Close, GoTo, Released
<1>4. UnstoredInv'
  BY DEF WebInv, UnstoredInv, OwnInv, TypeOK, Own, Unstored, Transferring, Uploading, Displaying, PageHide, Close, GoTo, Released
<1>5. StoredInv'
  BY DEF WebInv, StoredInv, UnstoredInv, LockInv, OwnInv, TypeOK, Own, Unstored, Transferring, Uploading, Displaying, PageHide, Close, GoTo, Released
<1>6. OpenInv'
  BY DEF WebInv, OpenInv, OwnInv, StoredInv, TypeOK, Own, Unstored, Transferring, Uploading, Displaying, Requests, PageHide, Close, GoTo, Released
<1>7. NewInv'
  BY DEF WebInv, NewInv, TypeOK, Requests, Transferring, Uploading, Displaying, PageHide, Close, GoTo, Released
<1> QED BY <1>1, <1>2, <1>3, <1>4, <1>5, <1>6, <1>7 DEF WebInv

\* The tab forgets.
LEMMA ReloadKeeps ==
    ASSUME WebInv, NEW t \in Tabs, Reload(t)
    PROVE  WebInv'
<1> USE WebAssumption
<1>1. TypeOK'
  BY DEF WebInv, TypeOK, Points, Transferring, Uploading, Displaying, Requests, Reload, Close, GoTo, Released
<1>2. LockInv'
  BY DEF WebInv, LockInv, TypeOK, Transferring, Uploading, Displaying, Reload, Close, GoTo, Released
<1>3. OwnInv'
  BY DEF WebInv, OwnInv, UnstoredInv, LockInv, TypeOK, Own, Unstored, Transferring, Uploading, Displaying, NewInv, Requests, Reload, Close, GoTo, Released
<1>4. UnstoredInv'
  BY DEF WebInv, UnstoredInv, OwnInv, TypeOK, Own, Unstored, Transferring, Uploading, Displaying, Reload, Close, GoTo, Released
<1>5. StoredInv'
  BY DEF WebInv, StoredInv, UnstoredInv, LockInv, OwnInv, TypeOK, Own, Unstored, Transferring, Uploading, Displaying, Reload, Close, GoTo, Released
<1>6. OpenInv'
  BY DEF WebInv, OpenInv, OwnInv, StoredInv, TypeOK, Own, Unstored, Transferring, Uploading, Displaying, Requests, Reload, Close, GoTo, Released
<1>7. NewInv'
  BY DEF WebInv, NewInv, TypeOK, Requests, Transferring, Uploading, Displaying, Reload, Close, GoTo, Released
<1> QED BY <1>1, <1>2, <1>3, <1>4, <1>5, <1>6, <1>7 DEF WebInv

LEMMA InitHolds == Init => WebInv
BY WebAssumption
   DEF Init, WebInv, TypeOK, LockInv, OwnInv, UnstoredInv, StoredInv, OpenInv,
       NewInv, Own, Unstored, Points, Transferring, Uploading, Displaying, Requests

LEMMA StepKeeps ==
    ASSUME WebInv, [Next]_vars
    PROVE  WebInv'
<1>1. CASE UNCHANGED vars
  <2>1. TypeOK' BY <1>1 DEF vars, WebInv, TypeOK
  <2>2. LockInv' /\ OwnInv' /\ UnstoredInv'
    BY <1>1 DEF vars, WebInv, LockInv, OwnInv, UnstoredInv
  <2>3. StoredInv' /\ OpenInv' /\ NewInv'
    BY <1>1 DEF vars, WebInv, StoredInv, OpenInv, NewInv
  <2> QED BY <2>1, <2>2, <2>3 DEF WebInv
<1>2. CASE Next
  <2>1. PICK t \in Tabs : TabStep(t) BY <1>2 DEF Next
  <2> QED
    BY <2>1, ConnectKeeps, ConnectedKeeps, DisconnectKeeps, RefreshRecordsKeeps,
       SendKeeps, NewRequestKeeps, UploadKeeps, CancelledKeeps, PutKeeps,
       CommitKeeps, CancelStoredKeeps, UnstoreKeeps, RecoverKeeps, QueryKeeps,
       DisplayedKeeps, RemoveDisplayedKeeps, FailKeeps, CancelKeeps,
       AcknowledgeKeeps, ClearKeeps, PageHideKeeps, ReloadKeeps
       DEF TabStep, SendingStep, Leave
<1> QED BY <1>1, <1>2

-----------------------------------------------------------------------------
(* The inductive invariant: whoever acts holds the lock or is aborted, what a  *)
(* tab is about to commit is the record and nobody else's, and a committed     *)
(* request that nobody has settled stays the record.                           *)
THEOREM WebInvKept == Spec => []WebInv
BY InitHolds, StepKeeps, PTL DEF Spec

(* The types, the lock that no idle tab keeps and the request of every tab.    *)
THEOREM TypeCorrect == Spec => []TypeOK
<1>1. WebInv => TypeOK BY DEF WebInv
<1> QED BY <1>1, WebInvKept, PTL

\* What CommitsInOrder says of a step.
InOrder ==
    \A t \in Tabs : at[t] = "stored" /\ at'[t] = "answer" =>
        /\ store = req[t] /\ req[t] \notin committed
        /\ lock = t /\ ~stop[t]
        /\ \A r \in committed : verdict[r] \in {"complete", "cleared"}

\* Only Commit leads from a stored record to the wait for an answer.
LEMMA OnlyCommit ==
    ASSUME WebInv, [Next]_vars, NEW t \in Tabs, at[t] = "stored", at'[t] = "answer"
    PROVE  Commit(t)
<1>0. at \in [Tabs -> Points] BY DEF WebInv, TypeOK
<1>1. ~UNCHANGED vars BY DEF vars
<1>2. PICK u \in Tabs : TabStep(u) BY <1>1 DEF Next
<1>3. u = t
  <2>1. \E place \in Points : at' = [at EXCEPT ![u] = place]
    <3>1. at' = at \/ \E place \in Points : at' = [at EXCEPT ![u] = place]
      BY <1>0, <1>2
         DEF TabStep, SendingStep, Leave, Connect, Connected, Disconnect, RefreshRecords, Send,
             NewRequest, Upload, Cancelled, Put, Commit, CancelStored, Unstore,
             Recover, Query, Displayed, RemoveDisplayed, Fail, Cancel,
             Acknowledge, Clear, PageHide, Reload, Close, Move, GoTo, Points,
             Transferring, Uploading, Displaying
    <3> QED BY <3>1
  <2> QED BY <1>0, <2>1
<1> QED
  BY <1>0, <1>2, <1>3
     DEF TabStep, SendingStep, Leave, Connect, Connected, Disconnect, RefreshRecords, Send, NewRequest,
         Upload, Cancelled, Put, CancelStored, Unstore, Recover, Query, Displayed,
         RemoveDisplayed, Fail, Cancel, Acknowledge, Clear, PageHide, Reload, Close,
         Move, GoTo

LEMMA StepInOrder ==
    ASSUME WebInv, [Next]_vars
    PROVE  InOrder
<1> SUFFICES ASSUME NEW t \in Tabs, at[t] = "stored", at'[t] = "answer"
             PROVE  /\ store = req[t] /\ req[t] \notin committed
                    /\ lock = t /\ ~stop[t]
                    /\ \A r \in committed : verdict[r] \in {"complete", "cleared"}
  BY DEF InOrder
<1>1. ~stop[t] /\ ~aborted[t]
  BY OnlyCommit DEF Commit
<1>2. store = req[t] /\ req[t] \notin committed
  BY <1>1 DEF WebInv, StoredInv, OwnInv, Own
<1>3. lock = t
  BY <1>1 DEF WebInv, LockInv, Transferring, Uploading
<1>4. \A r \in committed : verdict[r] \in {"complete", "cleared"}
  <2>1. \A r \in committed : verdict[r] \in Verdicts
    BY WebAssumption DEF WebInv, TypeOK, Requests, Verdicts
  <2>2. \A r \in committed : verdict[r] # "open" /\ verdict[r] # "cancelled"
    BY <1>2 DEF WebInv, OpenInv
  <2> QED BY <2>1, <2>2 DEF Verdicts
<1> QED BY <1>1, <1>2, <1>3, <1>4

(* For any number of tabs and requests: a COMMIT is only sent for the stored    *)
(* record, by the tab that holds the lock and was not asked to stop, when every *)
(* earlier COMMIT is settled.                                                   *)
THEOREM CommitsInOrderHolds == Spec => CommitsInOrder
<1>1. WebInv /\ [Next]_vars => [InOrder]_vars BY StepInOrder
<1> QED BY <1>1, WebInvKept, PTL DEF Spec, CommitsInOrder, InOrder

-----------------------------------------------------------------------------
(* Every step is a step of WebSender, or leaves its variables alone.         *)

LEMMA PairStepSends == [PairNext]_allVars => [Next]_vars
<1> SUFFICES ASSUME PairNext PROVE Next \/ UNCHANGED vars
  BY DEF allVars
<1>1. CASE Button \/ FrameChanges
  BY <1>1 DEF Button, FrameChanges
<1>2. ASSUME NEW t \in Tabs, PairingStep(t)
      PROVE  Next \/ UNCHANGED vars
  <2>1. CASE Begin(t) BY <2>1 DEF Begin, Next, TabStep
  <2>2. CASE Look(t) \/ Ceremony(t) BY <2>2 DEF Look, Ceremony
  <2>3. CASE PutCandidate(t) \/ Poll(t) \/ CancelPairing(t)
    BY <2>3 DEF PutCandidate, Poll, CancelPairing, Go
  <2>4. CASE DiscardCandidate(t) BY <2>4 DEF DiscardCandidate, Next, TabStep, Leave
  <2>5. CASE Authenticate(t) \/ Confirm(t)
    BY <2>5 DEF Authenticate, Confirm, Open, Go, Next, TabStep
  <2>6. CASE Abandon(t) BY <2>6 DEF Abandon, Next, TabStep
  <2>7. CASE Forget(t) BY <2>7 DEF Forget
  <2> QED BY <1>2, <2>1, <2>2, <2>3, <2>4, <2>5, <2>6, <2>7 DEF PairingStep
<1>3. ASSUME NEW t \in Tabs, SendingStep(t) PROVE Next
  BY <1>3 DEF Next, TabStep
<1> QED BY <1>1, <1>2, <1>3 DEF PairNext

\* Connecting with all its exchanges and records is what WebSender leaves open.
THEOREM PairingImplementsSender == PairSpec => Spec
<1>1. PairInit => Init BY DEF PairInit
<1> QED BY <1>1, PairStepSends, PTL DEF PairSpec, Spec

\* The order of the COMMITs does not depend on how tabs connect (sender.ts:78-91).
THEOREM PairedCommitsInOrder == PairSpec => CommitsInOrder
BY PairingImplementsSender, CommitsInOrderHolds

THEOREM WebInvKeptPaired == PairSpec => []WebInv
BY PairingImplementsSender, WebInvKept, PTL

-----------------------------------------------------------------------------
(* The inductive invariant. *)

\* A tab that connects holds the lock.
HoldInv == point # "none" => lock \in Tabs /\ at[lock] = "connecting"

\* What the tab that connects knows of its record; the frame does not show a
\* relationship that is not stored, nor one whose end it has told.
PointInv ==
    /\ point \in {"ceremony", "save"} => candidate = 0
    /\ point = "save" => owner \in {0, rec} /\ rec # 0
    /\ point \in {"save", "discard"} /\ owner = rec => phase \notin {"armed", "bound"}
    /\ point \in {"save", "poll", "discard", "confirm"} => fresh
    /\ point \in {"poll", "discard", "auth", "confirm"} /\ fresh => candidate = rec /\ rec # 0
    /\ point = "confirm" => rec \in approved

BoundInv == phase = "bound" /\ owner # 0 => owner \in approved

PairInv == PairTypeOK /\ HoldInv /\ PointInv /\ BoundInv /\ PairingKept

\* A tab that no longer connects has no locals.
LEMMA NoLocals ==
    ASSUME point' = "none", rec' = 0, fresh' = FALSE, bonds' \in Nat
    PROVE  point' \in PairPoints /\ rec' \in 0..bonds' /\ fresh' \in BOOLEAN
<1>1. fresh' \in BOOLEAN BY Zenon
<1> QED BY <1>1 DEF PairPoints

LEMMA PairInitHolds == PairInit => PairInv
<1> SUFFICES ASSUME PairInit PROVE PairInv
  OBVIOUS
<1>1. fresh \in BOOLEAN BY Zenon DEF PairInit
<1>2. PairTypeOK
  BY <1>1, BondsAssumption DEF PairInit, PairTypeOK, Phases, PairPoints
<1>3. HoldInv /\ PointInv /\ BoundInv /\ PairingKept
  BY DEF PairInit, HoldInv, PointInv, BoundInv, PairingKept
<1> QED BY <1>2, <1>3 DEF PairInv

\* The tab that holds the lock to connect keeps it while others go on.
LEMMA SendingKeepsHold ==
    ASSUME WebInv, HoldInv, NEW t \in Tabs, SendingStep(t), UNCHANGED pairVars
    PROVE  HoldInv'
<1> SUFFICES ASSUME point # "none" PROVE lock' = lock /\ at'[lock] = "connecting"
  BY DEF HoldInv, pairVars, localVars
<1>0. at \in [Tabs -> Points] /\ lock \in Tabs /\ lock # 0 /\ at[lock] = "connecting"
  BY WebAssumption DEF WebInv, TypeOK, HoldInv
<1>1. CASE RefreshRecords(t) BY <1>0, <1>1 DEF RefreshRecords
<1>2. CASE Send(t) \/ NewRequest(t) \/ Acknowledge(t) \/ Query(t)
  BY <1>0, <1>2 DEF Send, NewRequest, Acknowledge, Query, GoTo
<1>3. CASE Upload(t) \/ Commit(t) \/ CancelStored(t) \/ Recover(t) \/ Displayed(t)
  BY <1>0, <1>3 DEF Upload, Commit, CancelStored, Recover, Displayed, Move, GoTo
<1>4. CASE Cancel(t) BY <1>0, <1>4 DEF Cancel
<1>5. CASE Put(t)
  BY <1>0, <1>5 DEF Put, Close, GoTo, Released
<1>6. CASE Cancelled(t) \/ Unstore(t) \/ RemoveDisplayed(t) \/ Fail(t) \/ Clear(t)
  BY <1>0, <1>6
     DEF Cancelled, Unstore, RemoveDisplayed, Fail, Clear, Close, GoTo, Released,
         Transferring, Uploading, Displaying
<1> QED BY <1>1, <1>2, <1>3, <1>4, <1>5, <1>6 DEF SendingStep

LEMMA SendingKeeps ==
    ASSUME WebInv, PairInv, NEW t \in Tabs, SendingStep(t), UNCHANGED pairVars
    PROVE  PairInv'
<1>1. HoldInv' BY SendingKeepsHold DEF PairInv
<1>2. PairTypeOK' /\ PointInv' /\ BoundInv' /\ PairingKept'
  BY DEF PairInv, PairTypeOK, PointInv, BoundInv, PairingKept, Saved, pairVars,
         recordVars, localVars, frameVars, historyVars
<1> QED BY <1>1, <1>2 DEF PairInv

\* What the frame does by itself approves nothing but what it shows.
LEMMA FrameKeeps ==
    ASSUME PairInv, Button \/ FrameChanges
    PROVE  PairInv'
<1> USE BondsAssumption
<1>1. PairTypeOK'
  <2>1. CASE Button
    <3>1. approved' \subseteq 1..bonds
      BY <2>1 DEF PairInv, PairTypeOK, Button
    <3> QED BY <2>1, <3>1 DEF PairInv, PairTypeOK, Phases, Button, recordVars, localVars
  <2>2. CASE FrameChanges
    BY <2>2 DEF PairInv, PairTypeOK, Phases, FrameChanges, recordVars, localVars, historyVars
  <2> QED BY <2>1, <2>2
<1>2. HoldInv' BY DEF PairInv, HoldInv, Button, FrameChanges, vars, localVars
<1>3. PointInv'
  BY DEF PairInv, PairTypeOK, PointInv, Phases, Button, FrameChanges, recordVars, localVars,
         historyVars
<1>4. BoundInv' /\ PairingKept'
  BY DEF PairInv, PairTypeOK, BoundInv, PairingKept, Saved, Button, FrameChanges, recordVars,
         historyVars
<1> QED BY <1>1, <1>2, <1>3, <1>4 DEF PairInv

-----------------------------------------------------------------------------
(* The steps of a connection. *)

LEMMA BeginKeeps ==
    ASSUME WebInv, PairInv, NEW t \in Tabs, Begin(t)
    PROVE  PairInv'
<1>1. HoldInv'
  BY DEF WebInv, TypeOK, HoldInv, Begin, Connect, GoTo
<1>2. PairTypeOK' /\ PointInv' /\ BoundInv' /\ PairingKept'
  BY DEF PairInv, PairTypeOK, PairPoints, PointInv, BoundInv, PairingKept, Saved, Begin,
         recordVars, frameVars, historyVars
<1> QED BY <1>1, <1>2 DEF PairInv

\* A step that leaves the tab connecting.
LEMMA HoldKept ==
    ASSUME WebInv, PairInv, NEW t \in Tabs, at[t] = "connecting", UNCHANGED vars
    PROVE  HoldInv'
BY DEF WebInv, LockInv, HoldInv, vars

LEMMA LookKeeps ==
    ASSUME WebInv, PairInv, NEW t \in Tabs, Look(t)
    PROVE  PairInv'
<1>1. HoldInv' BY HoldKept DEF Look, At
<1>2. PairTypeOK'
  BY DEF PairInv, PairTypeOK, PairPoints, Saved, Look, recordVars, frameVars, historyVars
<1>3. PointInv'
  BY DEF PairInv, PairTypeOK, PointInv, Saved, Look, At, recordVars, frameVars, historyVars
<1>4. BoundInv' /\ PairingKept'
  BY DEF PairInv, BoundInv, PairingKept, Saved, Look, recordVars, frameVars, historyVars
<1> QED BY <1>1, <1>2, <1>3, <1>4 DEF PairInv

LEMMA CeremonyKeeps ==
    ASSUME WebInv, PairInv, NEW t \in Tabs, Ceremony(t)
    PROVE  PairInv'
<1> USE BondsAssumption
<1>1. HoldInv' BY HoldKept DEF Ceremony, At
<1>2. PairTypeOK'
  BY DEF PairInv, PairTypeOK, PairPoints, Phases, Ceremony, recordVars, historyVars
<1>3. PointInv'
  BY DEF PairInv, PairTypeOK, PointInv, Ceremony, At, recordVars, historyVars
<1>4. BoundInv' /\ PairingKept'
  BY DEF PairInv, BoundInv, PairingKept, Ceremony, recordVars, historyVars
<1> QED BY <1>1, <1>2, <1>3, <1>4 DEF PairInv

LEMMA PutCandidateKeeps ==
    ASSUME WebInv, PairInv, NEW t \in Tabs, PutCandidate(t)
    PROVE  PairInv'
<1>1. HoldInv' BY HoldKept DEF PutCandidate, At, Go
<1>2. PairTypeOK'
  BY DEF PairInv, PairTypeOK, PairPoints, PutCandidate, Go, frameVars, historyVars
<1>3. PointInv' /\ BoundInv'
  BY DEF PairInv, PointInv, BoundInv, PutCandidate, At, Go, frameVars, historyVars
<1>4. PairingKept'
  BY DEF PairInv, PairTypeOK, PointInv, PairingKept, Saved, PutCandidate, At, Go, frameVars,
         historyVars
<1> QED BY <1>1, <1>2, <1>3, <1>4 DEF PairInv

\* Only a stored candidate is shown on the display.
LEMMA PollKeeps ==
    ASSUME WebInv, PairInv, NEW t \in Tabs, Poll(t)
    PROVE  PairInv'
<1>1. HoldInv' BY HoldKept DEF Poll, At, Go
<1>2. PairTypeOK'
  BY DEF PairInv, PairTypeOK, PairPoints, Phases, Poll, Go, recordVars, historyVars
<1>3. PointInv' /\ BoundInv'
  BY DEF PairInv, PairTypeOK, Phases, PointInv, BoundInv, Poll, At, Go, recordVars, historyVars
<1>4. PairingKept'
  BY DEF PairInv, PointInv, PairingKept, Saved, Poll, At, Signed, recordVars, historyVars
<1> QED BY <1>1, <1>2, <1>3, <1>4 DEF PairInv

LEMMA CancelPairingKeeps ==
    ASSUME WebInv, PairInv, NEW t \in Tabs, CancelPairing(t)
    PROVE  PairInv'
<1>1. HoldInv' BY HoldKept DEF CancelPairing, At, Go
<1>2. PairTypeOK'
  BY DEF PairInv, PairTypeOK, PairPoints, Phases, CancelPairing, Go, recordVars, historyVars
<1>3. PointInv' /\ BoundInv'
  BY DEF PairInv, PointInv, BoundInv, CancelPairing, At, Go, recordVars, historyVars
<1>4. PairingKept'
  BY DEF PairInv, PairingKept, Saved, CancelPairing, recordVars, historyVars
<1> QED BY <1>1, <1>2, <1>3, <1>4 DEF PairInv

\* What is discarded is neither shown nor bound.
LEMMA DiscardKeeps ==
    ASSUME WebInv, PairInv, NEW t \in Tabs, DiscardCandidate(t)
    PROVE  PairInv'
<1>1. HoldInv' BY DEF HoldInv, DiscardCandidate
<1>2. PairTypeOK'
  <2>1. bonds' \in Nat BY BondsAssumption DEF PairInv, PairTypeOK, DiscardCandidate, frameVars
  <2>2. point' = "none" /\ rec' = 0 /\ fresh' = FALSE BY Zenon DEF DiscardCandidate
  <2>3. point' \in PairPoints /\ rec' \in 0..bonds' /\ fresh' \in BOOLEAN
    BY <2>1, <2>2, NoLocals, Zenon
  <2> QED BY <2>3 DEF PairInv, PairTypeOK, DiscardCandidate, frameVars, historyVars
<1>3. PointInv' /\ BoundInv'
  BY DEF PairInv, PointInv, BoundInv, DiscardCandidate, frameVars, historyVars
<1>4. PairingKept'
  BY DEF PairInv, PointInv, PairingKept, Saved, DiscardCandidate, At, frameVars, historyVars
<1> QED BY <1>1, <1>2, <1>3, <1>4 DEF PairInv

LEMMA AuthenticateKeeps ==
    ASSUME WebInv, PairInv, NEW t \in Tabs, Authenticate(t)
    PROVE  PairInv'
<1>1. CASE fresh
  <2>1. HoldInv' BY <1>1, HoldKept DEF Authenticate, At, Go
  <2>2. PairTypeOK' /\ PointInv' /\ BoundInv' /\ PairingKept'
    BY <1>1 DEF PairInv, PairTypeOK, PairPoints, PointInv, BoundInv, PairingKept, Saved,
       Authenticate, Proved, Signed, At, Go, recordVars, frameVars, historyVars
  <2> QED BY <2>1, <2>2 DEF PairInv
<1>2. CASE ~fresh
  <2>1. HoldInv' BY <1>2 DEF HoldInv, Authenticate, Open
  <2>2. PairTypeOK'
    <3>1. bonds' \in Nat BY <1>2, BondsAssumption DEF PairInv, PairTypeOK, Authenticate, Open, frameVars
    <3>2. point' = "none" /\ rec' = 0 /\ fresh' = FALSE BY <1>2, Zenon DEF Authenticate, Open
    <3>3. point' \in PairPoints /\ rec' \in 0..bonds' /\ fresh' \in BOOLEAN
      BY <3>1, <3>2, NoLocals, Zenon
    <3> QED BY <1>2, <3>3 DEF PairInv, PairTypeOK, Authenticate, Open, recordVars, frameVars, historyVars
  <2>3. PointInv' /\ BoundInv' /\ PairingKept'
    BY <1>2 DEF PairInv, PointInv, BoundInv, PairingKept, Saved,
       Authenticate, Open, recordVars, frameVars, historyVars
  <2> QED BY <2>1, <2>2, <2>3 DEF PairInv
<1> QED BY <1>1, <1>2

\* The record that says "paired" is the one that was proved.
LEMMA ConfirmKeeps ==
    ASSUME WebInv, PairInv, NEW t \in Tabs, Confirm(t)
    PROVE  PairInv'
<1>1. HoldInv' BY DEF HoldInv, Confirm, Open
<1>2. PairTypeOK'
  <2>1. bonds' \in Nat BY BondsAssumption DEF PairInv, PairTypeOK, Confirm, Open, frameVars
  <2>2. point' = "none" /\ rec' = 0 /\ fresh' = FALSE BY Zenon DEF Confirm, Open
  <2>3. point' \in PairPoints /\ rec' \in 0..bonds' /\ fresh' \in BOOLEAN
    BY <2>1, <2>2, NoLocals, Zenon
  <2> QED BY <2>3 DEF PairInv, PairTypeOK, Confirm, Open, frameVars, historyVars
<1>3. PointInv' /\ BoundInv'
  BY DEF PairInv, PointInv, BoundInv, Confirm, Open, frameVars, historyVars
<1>4. PairingKept'
  BY DEF PairInv, PointInv, PairingKept, Saved, Confirm, Open, At, frameVars, historyVars
<1> QED BY <1>1, <1>2, <1>3, <1>4 DEF PairInv

LEMMA AbandonKeeps ==
    ASSUME WebInv, PairInv, NEW t \in Tabs, Abandon(t)
    PROVE  PairInv'
<1>1. CASE at[t] = "connecting"
  <2>1. point' = "none" /\ rec' = 0 /\ fresh' = FALSE /\ UNCHANGED <<recordVars, frameVars, historyVars>>
    BY <1>1 DEF Abandon
  <2>2. PairTypeOK'
    <3>1. bonds' \in Nat BY <2>1, BondsAssumption DEF PairInv, PairTypeOK, frameVars
    <3>2. point' \in PairPoints /\ rec' \in 0..bonds' /\ fresh' \in BOOLEAN
      BY <2>1, <3>1, NoLocals, Zenon
    <3> QED BY <2>1, <3>2 DEF PairInv, PairTypeOK, recordVars, frameVars, historyVars
  <2>3. PointInv' /\ BoundInv' /\ PairingKept'
    BY <2>1 DEF PairInv, PointInv, BoundInv, PairingKept, Saved,
       recordVars, frameVars, historyVars
  <2> QED BY <2>1, <2>2, <2>3 DEF PairInv, HoldInv
<1>2. CASE at[t] # "connecting"
  <2>1. UNCHANGED pairVars BY <1>2 DEF Abandon, pairVars
  <2>2. HoldInv'
    <3> SUFFICES ASSUME point # "none" PROVE lock' = lock /\ at'[lock] = "connecting"
      BY <2>1 DEF PairInv, HoldInv, pairVars, localVars
    <3>1. at \in [Tabs -> Points] /\ lock \in Tabs /\ at[lock] = "connecting" /\ lock # t
      BY <1>2 DEF WebInv, TypeOK, PairInv, HoldInv
    <3> QED BY <3>1 DEF Abandon, Leave, Disconnect, PageHide, Reload, Close, GoTo, Released
  <2>3. PairTypeOK' /\ PointInv' /\ BoundInv' /\ PairingKept'
    BY <2>1 DEF PairInv, PairTypeOK, PointInv, BoundInv, PairingKept, Saved, pairVars,
       recordVars, localVars, frameVars, historyVars
  <2> QED BY <2>2, <2>3 DEF PairInv
<1> QED BY <1>1, <1>2

\* While a record is forgotten nobody connects.
LEMMA ForgetKeeps ==
    ASSUME WebInv, PairInv, NEW t \in Tabs, Forget(t)
    PROVE  PairInv'
<1>1. point = "none"
  BY WebAssumption DEF PairInv, HoldInv, Forget
<1>2. HoldInv' BY <1>1 DEF HoldInv, Forget, localVars
<1>3. PairTypeOK' BY DEF PairInv, PairTypeOK, Forget, localVars, frameVars
<1>4. PointInv' /\ BoundInv' BY <1>1 DEF PairInv, PointInv, BoundInv, Forget, localVars, frameVars
<1>5. PairingKept' BY DEF PairInv, PairingKept, Saved, Forget, frameVars
<1> QED BY <1>2, <1>3, <1>4, <1>5 DEF PairInv

LEMMA PairStepKeeps ==
    ASSUME WebInv, PairInv, [PairNext]_allVars
    PROVE  PairInv'
<1>1. CASE UNCHANGED allVars
  BY <1>1 DEF PairInv, PairTypeOK, HoldInv, PointInv, BoundInv, PairingKept, Saved, allVars,
     vars, pairVars, recordVars, localVars, frameVars, historyVars
<1>2. CASE Button \/ FrameChanges BY <1>2, FrameKeeps
<1>3. ASSUME NEW t \in Tabs, PairingStep(t) PROVE PairInv'
  BY <1>3, BeginKeeps, LookKeeps, CeremonyKeeps, PutCandidateKeeps, PollKeeps,
     CancelPairingKeeps, DiscardKeeps, AuthenticateKeeps, ConfirmKeeps, AbandonKeeps,
     ForgetKeeps DEF PairingStep
<1>4. ASSUME NEW t \in Tabs, SendingStep(t), UNCHANGED pairVars PROVE PairInv'
  BY <1>4, SendingKeeps
<1> QED BY <1>1, <1>2, <1>3, <1>4 DEF PairNext

-----------------------------------------------------------------------------
(* The frame shows and belongs to what is on record, because the record is     *)
(* written before the first proof and removed only after a signed end.         *)
THEOREM PairInvKept == PairSpec => []PairInv
<1>1. WebInv /\ PairInv /\ [PairNext]_allVars => PairInv' BY PairStepKeeps
<1> QED BY <1>1, PairInitHolds, WebInvKeptPaired, PTL DEF PairSpec

\* Wherever a page is closed, a link is lost or a person cancels, an approval is
\* on record until it is forgotten, and no other record says "paired"
\* (pairing.ts:89-105).
THEOREM PairingIsKept == PairSpec => []PairingKept
<1>1. PairInv => PairingKept BY DEF PairInv
<1> QED BY <1>1, PairInvKept, PTL
=============================================================================
