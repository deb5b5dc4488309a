------------------------------ MODULE WebSender ------------------------------
(***************************************************************************)
(* The pages of the web companion that send an image: transfer, connect and *)
(* acknowledge of main.ts, Sender of sender.ts, the record in IndexedDB of  *)
(* store.ts and the lock of lock.ts.                                        *)
(*                                                                         *)
(* Several tabs share one record and one lock.  The device is not part of   *)
(* the model: any receipt may come back, or none.  A request is its number, *)
(* in the order in which requests are made.                                 *)
(***************************************************************************)
EXTENDS Integers

CONSTANTS
    Tabs,        \* the open tabs
    MaxRequests  \* bound: the requests that are made

ASSUME WebAssumption == MaxRequests \in Nat /\ 0 \notin Tabs

VARIABLES
    store,      \* the record of IndexedDB: a request, or 0
    lock,       \* the tab that holds the session lock, or 0
    made,       \* how many requests have been made
    committed,  \* the requests whose COMMIT has been sent
    verdict,    \* what became of each request, as far as a person is told
    at,         \* control point of each tab
    req,        \* the request it works on
    pending,    \* its copy of the record
    stop,       \* Sender.cancelRequested
    aborted     \* transferWork is aborted

vars == <<store, lock, made, committed, verdict, at, req, pending, stop, aborted>>

Requests == 1..MaxRequests

Uploading == {"get", "upload", "cancel", "put", "stored", "cancelStored", "unstore"}
Displaying == {"recover", "answer", "remove"}
Transferring == Uploading \cup Displaying
Points == Transferring \cup {"idle", "connecting", "ready", "clearing"}

TypeOK ==
    /\ store \in 0..made
    /\ lock \in Tabs \cup {0}
    /\ made \in 0..MaxRequests
    /\ committed \subseteq 1..made
    /\ verdict \in [Requests -> {"open", "complete", "cancelled", "cleared"}]
    /\ at \in [Tabs -> Points]
    /\ \A t \in Tabs : lock = t => at[t] # "idle"
    /\ req \in [Tabs -> 0..made]
    /\ \A t \in Tabs : req[t] # 0 <=> at[t] \in Transferring \ {"get", "recover"}
    /\ pending \in [Tabs -> 0..made]
    /\ stop \in [Tabs -> BOOLEAN]
    /\ aborted \in [Tabs -> BOOLEAN]

Init ==
    /\ store = 0 /\ lock = 0 /\ made = 0 /\ committed = {}
    /\ verdict = [r \in Requests |-> "open"]
    /\ at = [t \in Tabs |-> "idle"]
    /\ req = [t \in Tabs |-> 0]
    /\ pending = [t \in Tabs |-> 0]
    /\ stop = [t \in Tabs |-> FALSE]
    /\ aborted = [t \in Tabs |-> FALSE]

-----------------------------------------------------------------------------
GoTo(t, point) == at' = [at EXCEPT ![t] = point]

Released(t) == IF lock = t THEN 0 ELSE lock

\* transfer ends with its connection, and connection with the lock.
Close(t) ==
    /\ GoTo(t, "idle")
    /\ lock' = Released(t)
    /\ req' = [req EXCEPT ![t] = 0]
    /\ stop' = [stop EXCEPT ![t] = FALSE]
    /\ aborted' = [aborted EXCEPT ![t] = FALSE]

Move(t, from, to) ==
    /\ at[t] = from /\ GoTo(t, to)
    /\ UNCHANGED <<lock, req, stop, aborted>>

\* Mutant: whatever record is stored is removed.
BugRemove(r, how) ==
    /\ verdict' = IF r \in Requests THEN [verdict EXCEPT ![r] = how] ELSE verdict
    /\ store' = 0

\* PendingStore.remove: only what is expected is removed.
Remove(r, how) ==
    IF store = r /\ r # 0
    THEN store' = 0 /\ verdict' = [verdict EXCEPT ![r] = how]
    ELSE UNCHANGED <<store, verdict>>

-----------------------------------------------------------------------------
(* Connecting.  The lock is asked for if it is free and never waited for.    *)

Connect(t) ==
    /\ at[t] = "idle" /\ lock = 0
    /\ lock' = t /\ GoTo(t, "connecting")
    /\ UNCHANGED <<store, made, committed, verdict, req, pending, stop, aborted>>

Connected(t) ==
    /\ Move(t, "connecting", "ready")
    /\ pending' = [pending EXCEPT ![t] = store]
    /\ UNCHANGED <<store, made, committed, verdict>>

\* Connecting fails, the device goes away, or a person disconnects.
Disconnect(t) ==
    /\ at[t] \in {"connecting", "ready"}
    /\ Close(t)
    /\ UNCHANGED <<store, made, committed, verdict, pending>>

\* The read that follows loading, showing, a transfer and clearing: any step
\* may come before it.
RefreshRecords(t) ==
    /\ pending' = [pending EXCEPT ![t] = store]
    /\ UNCHANGED <<store, lock, made, committed, verdict, at, req, stop, aborted>>

-----------------------------------------------------------------------------
(* send. *)

Send(t) ==
    /\ at[t] = "ready" /\ pending[t] = 0 /\ GoTo(t, "get")
    /\ UNCHANGED <<store, lock, made, committed, verdict, req, pending, stop, aborted>>

NewRequest(t) ==
    /\ at[t] = "get" /\ ~aborted[t] /\ store = 0 /\ made < MaxRequests
    /\ made' = made + 1
    /\ req' = [req EXCEPT ![t] = made + 1]
    /\ GoTo(t, "upload")
    /\ UNCHANGED <<store, lock, committed, verdict, pending, stop, aborted>>

\* BEGIN and every CHUNK, each confirmed, with a cancelPoint before each.
Upload(t) ==
    /\ ~aborted[t]
    /\ Move(t, "upload", IF stop[t] THEN "cancel" ELSE "put")
    /\ UNCHANGED <<store, made, committed, verdict, pending>>

\* CANCEL is confirmed before anything has been stored.
Cancelled(t) ==
    /\ at[t] = "cancel" /\ ~aborted[t]
    /\ verdict' = [verdict EXCEPT ![req[t]] = "cancelled"]
    /\ Close(t)
    /\ UNCHANGED <<store, made, committed, pending>>

\* A record that is there already is not overwritten.
Put(t) ==
    /\ at[t] = "put"
    /\ IF store = 0
       THEN /\ store' = req[t] /\ GoTo(t, "stored")
            /\ UNCHANGED <<lock, req, stop, aborted>>
       ELSE Close(t) /\ UNCHANGED store
    /\ UNCHANGED <<made, committed, verdict, pending>>

Commit(t) ==
    /\ ~aborted[t] /\ ~stop[t]
    /\ Move(t, "stored", "answer")
    /\ committed' = committed \cup {req[t]}
    /\ UNCHANGED <<store, made, verdict, pending>>

\* A stop that came while the record was written, and its confirmed CANCEL.
CancelStored(t) ==
    /\ ~aborted[t]
    /\ \/ stop[t] /\ Move(t, "stored", "cancelStored")
       \/ Move(t, "cancelStored", "unstore")
    /\ UNCHANGED <<store, made, committed, verdict, pending>>

Unstore(t) ==
    /\ at[t] = "unstore"
    /\ Remove(req[t], "cancelled")
    /\ Close(t)
    /\ UNCHANGED <<made, committed, pending>>

-----------------------------------------------------------------------------
(* recover, and the answers to COMMIT and QUERY.  A receipt that says that   *)
(* the image is being drawn leads to the next QUERY.                         *)

Recover(t) ==
    /\ Move(t, "ready", "recover")
    /\ UNCHANGED <<store, made, committed, verdict, pending>>

Query(t) ==
    /\ at[t] = "recover" /\ ~aborted[t] /\ store # 0
    /\ GoTo(t, "answer") /\ req' = [req EXCEPT ![t] = store]
    /\ UNCHANGED <<store, lock, made, committed, verdict, pending, stop, aborted>>

Displayed(t) ==
    /\ ~aborted[t] /\ Move(t, "answer", "remove")
    /\ UNCHANGED <<store, made, committed, verdict, pending>>

RemoveDisplayed(t) ==
    /\ at[t] = "remove"
    /\ Remove(req[t], "complete")
    /\ Close(t)
    /\ UNCHANGED <<made, committed, pending>>

\* An exchange or a write fails, a receipt says anything else, the record is
\* another device's or binding's, the service has changed, or time is up.
Fail(t) ==
    /\ at[t] \in Transferring
    /\ Close(t)
    /\ UNCHANGED <<store, made, committed, verdict, pending>>

-----------------------------------------------------------------------------
(* The person and the browser. *)

\* The cancel button: a flag while uploading, an abort afterwards.
Cancel(t) ==
    /\ \/ at[t] \in Uploading /\ stop' = [stop EXCEPT ![t] = TRUE] /\ UNCHANGED aborted
       \/ at[t] \in Displaying /\ aborted' = [aborted EXCEPT ![t] = TRUE] /\ UNCHANGED stop
    /\ UNCHANGED <<store, lock, made, committed, verdict, at, req, pending>>

\* The frame has been looked at; the button removes the record it stands for.
Acknowledge(t) ==
    /\ at[t] = "idle" /\ pending[t] # 0 /\ lock = 0
    /\ lock' = t /\ GoTo(t, "clearing")
    /\ UNCHANGED <<store, made, committed, verdict, req, pending, stop, aborted>>

Clear(t) ==
    /\ at[t] = "clearing"
    /\ \/ Remove(pending[t], "cleared")
       \/ UNCHANGED <<store, verdict>>
    /\ Close(t)
    /\ UNCHANGED <<made, committed, pending>>

\* A hidden page gives the lock up at once; its transfer only finds out at the
\* next exchange, and the page may be shown again.
PageHide(t) ==
    /\ IF at[t] \in Transferring
       THEN /\ aborted' = [aborted EXCEPT ![t] = TRUE]
            /\ lock' = Released(t)
            /\ UNCHANGED <<at, req, stop>>
       ELSE at[t] \in {"connecting", "ready"} /\ Close(t)
    /\ UNCHANGED <<store, made, committed, verdict, pending>>

\* The tab crashes or is loaded anew.
Reload(t) ==
    /\ Close(t)
    /\ pending' = [pending EXCEPT ![t] = 0]
    /\ UNCHANGED <<store, made, committed, verdict>>

\* A connection, or all of the page, is given up.
Leave(t) == Disconnect(t) \/ PageHide(t) \/ Reload(t)

SendingStep(t) ==
    \/ RefreshRecords(t) \/ Send(t) \/ NewRequest(t) \/ Upload(t) \/ Cancelled(t)
    \/ Put(t) \/ Commit(t) \/ CancelStored(t) \/ Unstore(t)
    \/ Recover(t) \/ Query(t) \/ Displayed(t) \/ RemoveDisplayed(t) \/ Fail(t)
    \/ Cancel(t) \/ Acknowledge(t) \/ Clear(t)

TabStep(t) == Connect(t) \/ Connected(t) \/ SendingStep(t) \/ Leave(t)

Next == \E t \in Tabs : TabStep(t)

Spec == Init /\ [][Next]_vars

-----------------------------------------------------------------------------
(* Whatever tabs, hidden pages and reloads do between, a COMMIT is sent only
   for a new request that is the stored record, by the tab that holds the lock
   and was not asked to stop; and every request committed before has been
   reported displayed or been cleared by a person who looked (sender.ts:78-91,
   store.ts:53-66). *)
CommitsInOrder ==
    [][\A t \in Tabs : at[t] = "stored" /\ at'[t] = "answer" =>
          /\ store = req[t] /\ req[t] \notin committed
          /\ lock = t /\ ~stop[t]
          /\ \A r \in committed : verdict[r] \in {"complete", "cleared"}]_vars
=============================================================================
