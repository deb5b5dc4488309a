# AI Quota Frame: TLA+ models and proofs

The daemon of this repository (`src/cmd/ai-quota-frame`, Go) collects AI quota
data, renders it to a PNG and shows it on an e-paper photo frame
(PhotoPainter), over HTTP or Bluetooth Low Energy.  A console, the `aqf` command
line and a web companion operate the same frame.  A refresh of the panel takes
some thirty seconds, wears the panel, and is not undone; the frame, the link and the
sources fail often.  The hard part of the program is to show the newest data
once, to know what the panel shows, and never to repeat a refresh whose outcome
is unknown.  That is what is modelled here, with the two things around it: the
data that the frame shows, from the answer of a provider to the row, and the
operations of a person, on the console or in the browser, that use the same frame.

## Inventory

| Component | Source | State | Operations | What makes it correct |
|---|---|---|---|---|
| Push worker | `internal/push/pusher.go` | one pending snapshot, last and rejected digest, active request, pause flag, wake channel, retry timer | Enqueue, discardAll, SetPaused, Run | no lost wake-up; stale requests are cancelled, fresh ones are not; `last` is the frame on the panel; a frame is not drawn twice |
| Image sender | `internal/ble/app_image.go`, `coc.go` | current, uncertain and blocked transactions | Send, Push, PrepareExplicitPush | one COMMIT per request of unknown outcome; success means a display; failed images stay off |
| Shared session | `internal/aqf/link.go` | calls, exclusive hand-over, session state | Do, Exclusive, Disconnect, Run | work runs at most once, a call is answered once, no session during exclusive work or beside an operation it leaves behind |
| Radio | `internal/ble/native.go`, `scan_lifetime.go` | the radio slot, a scan's life | withRadio, discover, runScan | one native operation at a time, a scan stopped once |
| Signed protocol | `internal/ble/protocol.go` | session key, sequence number, dead flag | Authenticate, command, Install | a broken exchange ends the session |
| Pairing records | `internal/ble/bond.go`, `binding.go` | candidate and active file, selection, lock file | savePendingBond, confirmBond, ForgetBond | a crash loses no confirmed pairing; a forgotten one does not return |
| Pairing | `internal/ble/pairing.go` | challenge, candidate | PairOnLink, waitForPairing | a lost last answer is recovered |
| Quota service | `internal/service/service.go` | last snapshot, fingerprint, observer | Refresh, Run, Snapshot | kept windows are the newest known and never look fresh |
| Frame producer | `internal/frame/producer.go` | one cached image with its key | Produce | equal contents give an equal image |
| CLIProxy client | `internal/cliproxy/client.go`, `passive.go` | the goroutines of a fetch | Fetch, fetchAccount | every account gets its result, an error or what its headers told; nothing of a cancelled fetch is used |
| Parsers, usage | `internal/cliproxy/providers.go`, `opencode.go`, `internal/usage` | none | fetchCodex, fetchClaude, FetchUsage, ... | a percentage is the one reported, never made up |
| Renderer | `internal/dashboard` | none | aggregateRows, buildUsageData, ... | a row says no better than its worst account |
| Console bridge | `cmd/ai-quota-frame/console*.go`, `internal/console` | operation, transfer, queue of one, gate shared with the pusher | handle, run, execute | no slot is changed while an image's outcome is unknown, and none on an old reading |
| aqf server and CLI | `internal/aqf/rpc.go`, `cmd/aqf` | none of its own | Handle | calls Link.Do |
| Web sender | `web/src/photoframe`, `lock.ts` | IndexedDB record of the last request, one lock | send, recover, clear | the image sender's promise, across page reloads and tabs |
| Web pairing | `web/src/ble/pairing.ts`, `bonds.ts` | IndexedDB candidate and record of each frame | pairDevice, waitForApproval, forget | what the frame's owner approved is on record |

How they interact.  The service calls the pusher's observer (ObserveRefresh)
after every refresh, in order.  The pusher renders through the producer and
hands the PNG to the image sender (or to HTTP), holding the gate it shares with
the console bridge.  The image sender runs a closure in the Bluetooth session
that `aqf.Link` keeps open; console operations and the `aqf` commands run their
work there too, or take the radio from it (Exclusive).  Every authentication
goes through the pairing records, which other processes change as well.  The web
companion is a second client of the frame, with its own records in the browser;
its tabs exclude each other by a lock.

The hard behaviours: callers leave at a deadline while their work goes on; a
link is lost before or after a COMMIT; the frame restarts and forgets its
receipts; a newer snapshot, a failed refresh or a pause arrives at any point of
a transfer; two processes share files, two tabs a database; the device changes
between a reading and a command; a fetch fails for one account, for all, or only
afterwards.  `PROJECT.json` lists each hazard at its
line.

## Modules

| Module | Models | How |
|---|---|---|
| `PushQueue` | `pusher.go` | One step is one critical section of `mu`, one operation on the channel `wake` or one call that leaves the process. Threads: worker, refresher, console. The panel draws during a transfer, and after a transfer that failed. |
| `SnapshotMailbox` | what the pusher promises | An abstract mailbox with one slot: Put, Withdraw, Rule, Settle. |
| `PushQueueProofs` | | Theorems about `PushQueue`. |
| `ImageTx` | `app_image.go`, `coc.go` | Send, its closure in the session (which a cancelled caller does not stop) and the photoframe application: epoch, upload, processing, receipts, panel. |
| `OneDisplay` | what `AppImageSender` promises | An abstract panel: Ask, Commit, Draw, Succeed, Fail; no COMMIT while an earlier one for the image is open, failed or lost, and nothing drawn twice or after something newer was sent. |
| `ImageTxProofs` | | Theorems about `ImageTx`. |
| `Link` | `link.go`, `withRadio` and `WithClient` of `native.go` | The callers of Do and Exclusive, the goroutine of Run, the radio goroutine of a dial, and the operation for which exclusive work takes the radio slot, which may outlast it. One step is one channel operation, one answer, or the start or end of work; what each call's work does is open. |
| `SerialCalls` | what the session promises | An abstract executor: Open, Close, Begin, End, Refuse, Stop; one call at a time, exclusive ones without a session, and no session beside an operation that such work left running. |
| `LinkProofs` | | Theorems about `Link`. |
| `Pairing` | `bond.go`, `binding.go`, `pairing.go`, `WithClient` and `PairDevice` of `native.go` | Several processes with the records of one frame: two files, the selection, a lock that does not wait, and a frame that expires, is reset, loses links and serves one connection. One step is one file operation, one exchange with the frame, or one local decision. |
| `PairingProofs` | | Theorems about `Pairing`. |
| `Retention` | `retainBestKnownAccountWindows` and its helpers, `fetchAccount`, `passiveWindows`, `StatusForWindows`, the fingerprint and `ContentKey` | Operators on one account: what a listing entry and an answer make of it, and what is kept of the account before. |
| `Refresh` | `service.go`, `Client.Fetch` | The loop and other callers, `refreshMu`, a goroutine per account behind a semaphore, contexts that end, and the observer. |
| `Readings` | the adapters of `providers.go`, `opencode.go` and `passive.go`, `usage.go` | What each adapter makes of the fields of an answer, and the response headers of Codex and Claude; fractions are read in hundredths. |
| `Dashboard` | `layout.go`, `viewmodel.go`, `providers.go` of `dashboard` | Rows, their status and colour, merged windows, cards, bars, configured providers. |
| `Inputs` | | Any set of answers for the accounts of a row, and what each answer reports, defined from the answer alone. |
| `Frame` | | Composes `Refresh`, `Readings` and `Dashboard`: the row over the snapshot, and rows over what the adapters made. |
| `RefreshProofs` | | Theorems about `Refresh`, and about the row over its snapshot. |
| `DashboardProofs` | | Theorems about `Readings` and `Dashboard`. |
| `SlotPlan` | `planConsoleSlot`, `selectionReached`, the conditions of the other operations | Operators on a request and a status of the device. |
| `ConsoleBridge` | `console*.go`, `internal/console/state.go`, the sender in `main.go` | The client that asks, the goroutine of run, and the sender of images, over one gate; one step is one reading, one command or one local decision. |
| `ConsoleProofs` | | Theorems about `ConsoleBridge`. |
| `WebSender` | `sender.ts`, `store.ts`, `lock.ts`, transfer and acknowledge of `main.ts` | Tabs over one record and one lock; one step is one IndexedDB transaction, one confirmed exchange or one act of the person. How a tab connects is open. |
| `WebPairing` | `pairing.ts`, `bonds.ts`, `authenticateBond` of `session.ts`, connectDevice and forget of `main.ts` | Fills in how a tab connects, over a frame that expires, is reset, is approved or is taken by others. It implements `WebSender`. |
| `WebPairingProofs` | | Theorems about `WebSender`, the refinement, and theorems about `WebPairing`. |
| `MCPushQueue`, `MCImageTx`, `MCLink`, `MCPairing`, `MCRefresh`, `MCConsole`, `MCWebPairing` | | Model values for TLC. |

Abstractions.  A snapshot is identified with the frame it renders to (the
producer is a function of the snapshot's contents) and a digest with the image;
HTTP status and error wording collapse to the classes the callers distinguish.
In `ImageTx` BEGIN and all CHUNKs are one step, because nothing that matters
later is recorded before COMMIT and an unfinished upload is dropped with its
session; the GATT and L2CAP paths take the same control steps.  `Leave` stands
for `withClient` returning at the deadline of its caller; the closure goes on
with `job.canceled` set, and each of its commands looks at the context first
except between the end of the upload and COMMIT.

In `Link` a call is accepted and marked busy in one step: between the receive
from the unbuffered channel and `setBusy` the goroutine does nothing others see
but the state report.  Keepalive, idle timer and a failed ping all end a session
and are one action (`ServeEnds`).  A native panic inside a call's work
(`WorkPanics`) skips the answer: `containNativeFailure` keeps the daemon alive,
but the caller waits until its own deadline, because Run does not answer a call
that was claimed.  The variable `lost` records such calls, and the liveness
properties except them.  At shutdown Run does not wait for a radio goroutine
that still works, so exclusive work that was accepted at that moment may run
beside a session that is closing; the properties about exclusiveness say "until
the daemon stops" for that reason.

Exclusive work is not confined to Run's goroutine either: a scan, a pairing or a
session of its own goes through `withRadio` with a deadline of its own
(`console_capabilities.go:155`, `171`, `183`, `199`), and at that deadline the work
returns while the operation goes on and keeps the radio slot (`native.go:166-171`).
`Operate` and `OperationEnds` are that operation, `operating` says that it has the
slot, and `ExclusiveEnds` leaves it as it is.  The slot keeps the next dial, and exclusive work that takes
the radio, waiting.

In `Pairing` a relationship (client, binding, secret) is the number of the
ceremony that made it, and authentication with it succeeds exactly when the
frame is bound to that number.  The two messages of a ceremony are one step: a client
that fails between them leaves a frame that only expires.  A crash and an
error of the operating system are one action (`BreakOff`), since both leave the
files as they are and release the lock.  The history variables `asked` and
`forgotten` distinguish the relationships a forget has begun to remove from
those of a forget that reported success.

In `Retention` the windows of an account are one level (none, without a
percentage, used percentages only, exhausted, low, ok) with one time: retention
replaces the windows of an account as a whole, and what single windows hold is
the matter of `Readings`.  Time counts refreshes.  A listing is one of `Entries`
for each account, an answer one of `Replies`, and both may fail; a context that
ends while goroutines still wait leaves the placeholder of the code.  `Readings`
and `Dashboard` are functions; percentages are whole numbers, with two values
that no provider reports for an absent field and for one that is no number; the
height of a bar is the exact quotient.  A stable sort is the one order of the
places that keeps equal items as they come.

In `ConsoleBridge` a status is what the console reads of the application that
the request names: active, previous and pending slot, the versions in both slots,
what is loaded and whether it is on trial.  The device is not a variable: it changes
by its own buttons and restarts and by other clients, so each reading may find any
status, and a command may have been carried out whatever was answered.  The writes
to Wi-Fi lists, files and over USB are one action each.

In `WebSender` a request is its number, and any receipt may come back for it.  The
lock of `lock.ts` is one for all devices.  A hidden page gives the lock up at once,
while its transfer notices the abort at its next exchange, as in the code.  A COMMIT
that the device refuses as busy and the code sends again counts as one exchange.
`WebPairing` takes one frame; a relationship is the number of its ceremony, as in
`Pairing`, and a signed answer is one of the frame that holds its secret.

Assumptions about what is outside.  `PushQueue` takes its transport at its word: a successful
answer means that the panel shows the frame.  `ImageTx` shows that the Bluetooth
sender keeps this except in one case (run `image_shown`): an older receipt of
the same image.  The application handles one image at a time, answers about its
newest `Kept` requests and forgets them at a restart.  In `Pairing` the frame keeps
its owner over a restart, loses an unfinished attempt, and lets a new ceremony
begin only when it is unbound or the last attempt is over.

## Runs

| Run | Question | Bounds | Result |
|---|---|---|---|
| `push_safety` | Every order of worker, refresher, console and panel | 3 frames, one of them too large; 3 snapshots or failed refreshes | `TypeOK`, `NoLostWakeup`, `CancelExactlyStale`, `PanelTracked`, `NoNeedlessRedraw` hold |
| `push_live` | Does every snapshot get its attempt, does the worker stop, is the queue a mailbox | the same without a console | `SnapshotAttempted`, `StopsOnShutdown`, `ImplementsMailbox` hold |
| `push_pause` | Does a pause preserve the queued snapshot | as `push_safety` | violated: a snapshot refused at admission is completed |
| `image_safety` | Requests for two images under every failure; does Push end | 3 transactions, 2 targets, 2 lost links or timeouts, 1 restart, 1 receipt kept | `TypeOK`, `OpenRequestFound`, `SuccessMeansDrawn`, `ImplementsOneDisplay`, `BlockedStaysOff`, `PendingResolves` hold |
| `image_shown` | Does success mean the panel shows the image | as `image_safety` | violated: A uncertain, B displayed, A answered from its old receipt |
| `link` | Every order of callers, Run, radio goroutine and operations of exclusive work, with disconnects, failures and shutdown; is every call settled, does Run end, is it a serial executor | 2 ordinary calls and 1 exclusive call, each made once; the exclusive one begins operations without bound | `TypeOK`, `RunsOnce`, `ExclusiveAlone`, `StateHonest`, `CallsAnswered`, `StopsOnShutdown`, `ImplementsSerial` hold |
| `pairing` | A daemon and a command over every crash, lost link and reset of the frame | 2 processes, 2 ceremonies, 2 crashes or lost links | `TypeOK`, `ApprovalRemembered`, `StaysForgotten`, `ActiveWasApproved`, `NotPairedIsTrue`, `LostApprovalRecovers` hold |
| `pairing_selected` | Does the selection name the device confirmed last | the same | violated by a crash after the candidate was removed |
| `refresh` | Refreshes over failing listings, providers, usage and contexts; every adapter, response headers and row over the answers of `Inputs` | 2 accounts, one whose headers tell its quota; the loop and 1 other caller; 3 refreshes; 1 request at a time; headers up to 2 refreshes old | `TypeOK`, `OldNeverLooksFresh`, `DeliveredInOrder`, `OkRowIsCurrent`, `ShownAsReported`, `ShownNeverOlder`, `DrawnOnChange`, `RefreshEnds` hold |
| `xai_drift` | Is a Grok percentage beyond its range rejected | as `refresh` | violated at the start: a percentage out of range with a dated period shows as 100 % left |
| `console` | Every operation over a device that changes between readings and commands, beside the sender of images | 2 versions, 15 requests, at least one of every kind; 35 statuses | `TypeOK`, `ActsOnReadings`, `OperationEnds` hold |
| `web` | Two tabs that pair, connect, send, forget, are hidden, reloaded and stopped at any point | 2 interchangeable tabs, 2 requests, 2 ceremonies | `PairingKept`, `CommitsInOrder` hold |

Why the bounds are enough.  The pusher has one slot, one job and one active
request: three ids make a job, a pending snapshot that replaced it and a
withdrawal between them, and three frames make repeats, changes and a refusal.
The image sender distinguishes the current transaction, an uncertain one of the
same image and one of another image; three transactions over two images make
each combination, and `Kept = 1` makes a receipt disappear while it is needed.
The session holds at most one call in Run, one on the radio goroutine and one
exclusive call handed over; two ordinary calls and an exclusive one fill these
places in turn and wait to be accepted, and an operation of the exclusive one may still have
the slot when the next call dials; that more calls change nothing is proved for the
safety properties.  Two ceremonies make an old and a new
relationship, one of them as the candidate and one active; a fault may hit the pairing
process and another the process that recovers; calls repeat without bound.
In `refresh` three refreshes make one whose data is kept, one that keeps it and one
that replaces or drops it; with one request at a time a second account waits at
the semaphore when a context ends; the future and the age limit of headers are both
reached.  `ShownAsReported` does not depend on the state and is evaluated once, over
all rows of `MCRefresh`: up to three accounts each, with failed requests, fields that
are absent or out of range, headers with one window or two, Grok accounts of different periods, pools of
several models, more cards than are shown and configurations of more rows than are drawn;
that it holds for every row is proved.  In `console` each operation meets statuses in which it is allowed,
refused, and overtaken between two readings.  In `web` two requests make one that
is committed and one that must wait for it, and two ceremonies a stored relationship
and a new one.

Symmetry is used in `web`, which asks nothing of liveness: its tabs are
interchangeable and no formula names one.  The frames of `PushQueue` are not interchangeable with the
oversized one, and those runs are small enough.

Deadlock checking is off where the ids are bounded: when the bound is
reached and the worker sleeps (or has stopped), when no transaction is left,
when every call of `Link` has been made and Run has returned, or when the
refreshes of `Refresh` are used up, the system rightly has nothing to do.

## Fairness

`PushQueue!Fairness`: the Go scheduler runs the worker; a caller that holds a
cancel function or owes a signal gets to it; each transfer ends at its deadline
(`RequestTimeout`, the deadlines of the radio); Go's `select` picks at random
among ready cases, which is strong fairness of `SelectDone`.  Nothing obliges
sources to refresh, the console to speak or the panel to draw.

`ImageTx!Fairness`: Push sends again two seconds after a pending answer, every
command of a closure ends at its deadline, and the application ends a refresh.
`Link!Fairness`: the scheduler runs Run and the radio goroutine, and the
platform's Bluetooth calls return sooner or later (a connect has a timeout of
its own on Linux and macOS; the dial has none, so a call of the platform that
hangs for ever would hold every call up).  Both `select` statements pick at
random, which is strong fairness for a cancelled context (`RunStop`) and for
accepting each offered call (`RunAccept`, `ServeAccept`).  Idle sessions need not
end before the context does, and nobody is obliged to offer calls or, in exclusive work, to
take the radio; an operation that has it ends (`OperationEnds` is a step of `Radio`).

`Pairing!Fairness`: each call gets on; a caller that keeps trying gets the radio
at some time (strong fairness of `Connect`, because others connect in between);
and the daemon connects again with every refresh of its data, which is the only
call that anybody is obliged to make.  Nobody presses a button, resets or
forgets anything out of duty.

`Refresh!Fairness`: each request has a timeout and the observer does not block, so
a refresh that holds `refreshMu` gets on; the loop gets the mutex, and Go hands a
contended mutex to every waiter in the end (strong fairness for the others).
`ConsoleBridge!Fairness`: each device call has a timeout, so run gets on and a
transfer of the pusher ends; those who wait for the gate, a Go channel, get it
in their order, which is strong fairness of `Acquire`.  `WebSender` and `WebPairing`
have none: a person may walk away at any point, and nothing is promised then.

In `ImageTx` and `Pairing` lost links, timeouts and restarts are bounded by constants, since no program
can promise progress when they go on for ever.

## Proofs

TLAPS checks the eight modules of proofs for every value of the constants that
satisfies the assumptions of the modules they extend (`FramesAssumption`,
`BoundsAssumption`, `CallsAssumption`, `ProcsAssumption`, `AccountsAssumption`,
`RefreshAssumption`, `InputsAssumption`, `VersionsAssumption`, `ConsoleAssumption`,
`WebAssumption`, `BondsAssumption`), which say no more than the types and that
markers are no members.

`PushQueueProofs`.  Type correctness; `NoLostWakeup`, by an invariant over the
worker's points (a token that `drainWake` takes is followed by another look at
the queue before `select`); `CancelExactlyStale`, which needs that the pending
id, the active id and the discarded id are ordered and that the refresher's
captured cancel function belongs to a request that is stale by now;
`PanelTracked` and `NoNeedlessRedraw`, from an invariant that relates `last`,
the panel and what failed requests may still draw; and `MailboxImplemented`,
the refinement of `SnapshotMailbox`, under the assumption that no console is
attached (with one it is false: that is run `push_pause`).

`ImageTxProofs`.  `TypeOK` is inductive together with `IdsExist`: a started
closure is cancelled exactly when its caller no longer waits.  `CommitInv` is
the inductive invariant behind the rest: what was sent is committed, what is
uncertain is committed and the entry of its image, an open request is the
uncertain one of its image, a failed image is blocked, and a closure or caller that
may still commit is alone with its image.  It is needed because the property alone
says nothing about a closure that outlives its caller: after a cancellation the
next Send may already hold another transaction for the image.  From it follow
`OpenRequestFound`, `CommitsOnlyAfterSuccess` and `BlockedStaysOff`;
`SuccessMeansDrawn` follows from an invariant of its own (receipt, transaction,
answer).  `ImplementsOneDisplay` maps each step to a step of `OneDisplay` or a stutter.  It
needs `OnceInv`: a transaction that may still be committed is the newest one (a
cancelled closure may mark an older one, but finds its context ended before COMMIT
leaves), and what the application displays is the newest request it was sent, not
displayed before.  `PanelNeverGoesBack` is a consequence of the abstract steps.
`OneDisplay` does not say that a verdict is final, because it is not (below).

`LinkProofs`.  `LinkInv` is inductive: calls that nobody has accepted are fresh
and held by no goroutine; a call that was begun and not answered is the one that Run
or the radio goroutine works on; the first call of a dial stays fresh until one
side has claimed it; while the daemon runs, Run waits as long as the radio goroutine is in use; and that
goroutine is idle while an operation of exclusive work has the slot, because both take it only when
it is free.
The claim is what makes it inductive, since between the end of a dial and a late
connection both goroutines hold the same call.  From it follow `TypeOK`, `RunsOnce`
(which includes that a refused call has not run) and `ExclusiveAlone`; `StateHonest` is inductive relative to it;
and `SerialImplemented` maps each step to a step of `SerialCalls` or a stutter.

`PairingProofs`.  `PairInv` is inductive.  Its argument is the order of the
ceremonies: the frame speaks of the newest one; its relationship is on file
before the first proof arms the display (`KeptInv`); and an approved candidate
occupies its file, so that nothing newer can have been recorded (`OrderInv`).
Without the last part the step that overwrites the active record could destroy the one
the frame is bound to, and the property alone does not exclude it.  `CallInv`
says what a process may rely on at each point although others change the files,
and `BlankInv` what it knows between the two reads of `LoadBond`.  From it
follow all five invariants of the run `pairing`.

`RefreshProofs`.  `RefreshInv` is inductive: one caller at a time is past
`refreshMu`; a goroutine that is done has the account that `fetchAccount` makes, or
the placeholder of a cancelled context, and the latter never while its caller's
context lives; the fingerprint is that of the snapshot; windows of an account
without error come from an adapter; and the clone on its way to the observer is
the snapshot.  The facts about one account are lemmas on the operators of
`Retention`.  From it follow `TypeOK`, `OldNeverLooksFresh`, `DeliveredInOrder`,
`ShownNeverOlder` and `DrawnOnChange`, for any accounts, listings and answers.
`OkRowIsCurrent` needs one thing more: a row is only as good as its worst account, so an
account behind an "ok" row is neither stale nor warned of, and by `RefreshInv` its
windows are those of the last refresh that succeeded, which is the snapshot's own
unless that is marked stale.

`DashboardProofs`.  `ShownAsReported`, for rows of any number of accounts with any number of
windows, groups, limits and cards.  An adapter is true to a report when it tells nothing
that was not reported and something at most as great as each report (`TrueTo`); each
adapter is shown to be that (`FetchCodexTrue` and the others), and `RowShowsLeast`
carries it from the accounts to the row: the row finds a place for each window it
should show and shows the minimum there.  The places of a Grok row are the windows its accounts
have, so each shown id must be there once (`ArrangedDistinct`) and show the least of its id
(`GrokShowsAll`).  Two kinds of rows are left out of the property, and so of the proof: Codex
accounts with an additional limit whose name leaves nothing in the id (below), whose
reports no id tells from the account's own, and Grok percentages that are out of range without amounts, which are
the matter of `xai_drift`.  For the cards, the place of every card is
followed through the filter, the sort of the account, the concatenation of the accounts and
the sort of the row, each a bijection (lemmas `OnlyPlaces` and `FlattenPlaces`, theorem `InOrderSorts`); the
cards shown are the first of that order, so none of the others expires before them.
The lemmas about sequences are inductions; as no prover here takes an induction rule with a
predicate as parameter, each assumes a least counterexample (`LeastNumber`) and
refutes it.

`ConsoleProofs`.  `ConsoleInv` is inductive: the gate is held exactly while run is
past its entry or the pusher sends; while run holds it the image is settled; the
plan is of the version that was chosen; and at each point from which a command
is sent, the last reading allows that command and no like command was sent.  From
it follow `TypeOK` (so that the queue of one never overflows) and `ActsOnReadings`.

`WebPairingProofs`.  `WebInv` is inductive: whoever acts on the device holds the lock or
finds itself aborted at the next exchange; what has not been stored is known to one
tab; what a tab that is not aborted is about to commit is the record and nobody
else's; and a committed request that nobody has settled stays the record.  The
second half of the first part is what a hidden page makes necessary.  From it
follows `CommitsInOrder`.  `PairingImplementsSender` shows that each step of `WebPairing` is
a step of `WebSender` or leaves its variables alone, which carries `CommitsInOrder`
and `WebInv` over.  `PairInv` adds: a tab that connects holds the lock, so that the
locals of `pairDevice` exist once; from the first proof until a signed end the
candidate is stored and is the one that the tab works with; a discarded one is not
shown; and what is bound and ours was approved.  From it follows `PairingKept`.

Only model-checked: the liveness properties (TLAPS has no fairness reasoning here) and
the four violations.  Every invariant and action property that a run checks is a
theorem.

## What the models found

1. `pusher.go:418-421`: a job that was paused or superseded between rendering
   and admission is treated as pushed.  With a pause its snapshot is lost and
   its digest recorded as displayed (`push_pause`), against the comment of
   SetPaused; in both cases a copy of a frame that was never sent is saved.
2. `app_image.go:254` with `pusher.go:269-276`: success from an old receipt is
   recorded as the panel's state though a later image replaced it
   (`image_shown`).
3. `bond.go:250`: a crash or a failure between the removal of the candidate and
   the publication of the selection is never repaired, because the record that
   later calls load is not pending any more (`pairing_selected`).
4. `providers.go:70-95`: a `creditUsagePercent` of Grok that is out of range or no
   number is dropped as if it were absent, and with a dated period shows as 100 % left
   (`xai_drift`).  The comment there takes only an absent field for a fresh
   pool, and `TestProviderUnitValidatorsRejectSchemaDrift` wants such values rejected.

Other weaknesses contradict no promise of the code; the models show how they come about.

- Pairing: a candidate stored late (`pairing.go:338`) hides a working pairing, and one
  whose attempt the frame has lost (`pairing.go:265`, in the browser
  `pairing.ts:146`) blocks the device; both end only with a forget.
- Console: the refusal while an image is uncertain (`console_capabilities.go:104`)
  advises reading the status, which never settles it; only another completed image
  does, and the console's own push is refused too.
- Console: a sender that waits at the gate when a USB operation pauses pushing sends
  after it (`main.go:172`); after a rollback the switch does not look again
  whether another application is on trial.
- Image sender: the closure reads `committed` and not `terminal` (`app_image.go:303`).  A
  Send that was queued while the cancelled closure of the same request still ran asks
  again after that one has recorded success; if the application has restarted
  meanwhile, the success becomes an unknown outcome and the image is blocked.
- Session: exclusive work that takes no radio (USB flashing, forgetting a pairing) can run beside an
  operation that earlier exclusive work left at its deadline (`native.go:166-171`).  The
  comment of Exclusive speaks only of sessions, and no property forbids it.
- Data: cards kept after a failed read are not filtered again by their
  expiry (`service.go:262`); an additional limit of Codex whose name has no Latin
  letter or digit counts as the account's own, because nothing of the name is left in the
  id (`providers.go:802`; `ShownAsReported` leaves such rows out); a failed read of the usage of a past day shows as 0; a
  listing whose answer breaks off while the caller leaves marks the snapshot stale
  (`client.go:409`); the windows of Kimi with used percentages only have an unknown
  status; newer headers without quota hide older ones of a model that have it.
- Web: a hidden page gives the lock up while its transfer still unwinds; the record
  and the abort, not the lock, keep the COMMITs in order.

## Plan

A module is done when its runs, mutants, map and proofs are there.

1. `PushQueue`, `SnapshotMailbox` (done).
2. `ImageTx`, `OneDisplay` (done).
3. `Link`, `SerialCalls` (done).
4. `Pairing` (done).
5. `Retention`, `Refresh`, `Readings`, `Dashboard`, `Frame` (done).
6. `SlotPlan`, `ConsoleBridge` (done).
7. `WebSender`, `WebPairing` (done).
8. Left: the composition of the console's gate with `ImageTx`, so that "uncertain"
   is the sender's and not open; the sequence numbers of signed commands
   (`protocol.go`) under lost answers; the edits of Wi-Fi lists that read, merge and
   write; automatic sending in the browser (`main.ts`), which decides by itself when
   to send again.

## Not modelled

- The drawing and wording of the frame and of the pages, and the development page:
  conversions without control.
- The HTTP requests of the client, `googleauth` and `sources`: an answer or a failure
  is the input of `Refresh` and `Readings`.
- The signed command protocol and fragments of a message: `ImageTx`, `ConsoleBridge`
  and `WebPairing` use its outcomes (an answer, a lost link, a failed authentication).
- The aqf server: it keeps no state, and its calls reach `Link` as any others.
- Discovery, scans and the platform links: what they do is decided in libraries outside
  the repository; `Link` has their outcomes.
- The refresh of the pusher's HTTP endpoint; saving the console's automatic setting
  when that fails; `cancelPairing` of `pairing.ts`, which no page calls.
- The legacy image sender, kept by the code for its tests only; the CLIProxy plugin, a
  stateless endpoint of another process; installers and one-shot tools.
