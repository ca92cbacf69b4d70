# mobile_server: specifications, model checking and proofs

`mobile_server` is the Go backend of the Accord mobile app. It stands between
three kinds of users (supplier, Werka = warehouse, customer, plus an admin) and
ERPNext, which keeps all documents. The server itself keeps little state: four
JSON files (sessions, profiles, admin state of suppliers and customers, push
tokens), a `.env` file, and a few cached values. What makes it hard is that each
request is a *sequence* of independent HTTP calls to ERPNext. Requests
interleave at every call, every call can fail with or without its effect, and
the server can die between two of them. Nothing is transactional and nothing
resumes.

This directory holds TLA+ models of that behaviour, the TLC configurations that
check them, and theorems checked by TLAPS.

## 1. Inventory

| Component | State | Operations | Hard behaviour | Modules |
|---|---|---|---|---|
| Customer delivery (`core/service.go`, `erpnext/delivery_note.go`) | Delivery Notes and return notes in ERPNext, with state fields and remarks | issue, batch issue, respond (accept, reject, partial, claim) | overlap of requests, lost replies, cleanup, crash | `CustomerDelivery`, `DeliveryLedger`, `DeliveryRefinement`, `DeliveryLists` (section 3) |
| Sessions and profile (`core/service.go`, `core/profile_store.go`) | token map and preferences, cached in memory, one JSON file each | login, logout, me, profile, nickname, avatar | failed load and save, restart, stale principal | `Sessions`, `SessionBook` (section 4), `Settings` (section 8) |
| Administration (`core/admin_suppliers.go`, `core/admin_supplier_store.go`) | per supplier: blocked, removed, code, cooldown, items | block, remove, restore, phone, code, items | read-modify-write around calls, background persist | `SupplierAdmin`, `AdminLedger` (section 5) |
| Purchase receipts (`core/service.go`, `erpnext/purchase_receipt.go`) | receipts in ERPNext, decision notes in remarks | dispatch, confirm, unannounced draft and answer, acknowledgement | rollback after a failed submit, whole-document writes, partial failure | `ReceiptDocs`, `PurchaseReceipts`, `ReceiptLedger`, `ReceiptRefinement` (section 6) |
| Push (`core/push_token_store.go`, `mobileapi/fcm.go`) | tokens per user, JSON file | register, unregister, send, drop; the batch's workers | a token moves while a send is in progress | `Pushes` (section 7) |
| Settings (`core/service.go`, `config/`) | settings fields, `.env`, cached warehouse | update settings, regenerate the Werka code | half-applied update, file rewritten in place | `Settings` (section 8) |
| Summaries and lists (`core/service.go`, `erpdb/reader.go`) | none | status mapping, counters, archive | two computations of the same list, scans of moving pages | `ReceiptLists`, `DeliveryLists`, `ListScans` (section 9) |
| ERPNext client (`erpnext/`) | "fields ensured" flag | HTTP calls | errors, pagination | steps of the modules above; `ListScans` |
| Direct DB reader (`erpdb/`) | none | SQL reads | answers in place of the HTTP client | `ReceiptDocs`, `ReceiptLists`, `DeliveryLists` |
| Supplier book (`internal/suplier/`) | two files with a lock | register, verify code | - | not modelled: no program reaches it |
| Importers (`importitems`, `importacp`) | none | import rows | rerun after a failure | not modelled: sequential, idempotent calls |
| AI search, PDF, deploy scripts | none | - | - | not modelled: stateless or layout |

Interaction: `mobileapi/server.go` authenticates a token with `SessionManager`,
calls one `ERPAuthenticator` method (`core`), which calls the `erpnext` client or
the `erpdb` reader, and then sends a push. Components share the ERPNext
documents, the JSON stores and the session map, never a lock across a call.

What would make each correct: a note, its return note and its recorded status
and quantities agree; a source is issued once; a user's session is exactly as
long-lived as promised; an admin's block is not undone by a late writer; a
receipt is confirmed once with the quantities that were accepted; a push token
belongs to the user who registered it last.

`PROJECT.json` lists the hazards at their lines with the properties that watch
them.

## 2. Plan

Done, in this order: `CustomerDelivery`, `Sessions`, `SupplierAdmin`, `PurchaseReceipts`,
`Pushes`, `Settings`, and the lists over them (`ReceiptLists` and `DeliveryLists` extend
the module whose documents they show; `ListScans` stands alone). Each component has an
`MC` module that gives its constants values and a `Proofs` module; what holds of receipts
only when requests take turns has its own, `ReceiptSerialProofs`. `ReceiptDocs` has the operators on one receipt that
`PurchaseReceipts`, the lists and the refinement share.

An abstract specification (`DeliveryLedger`, `SessionBook`, `AdminLedger`,
`ReceiptLedger`) says what a component promises without requests, calls and files;
the detailed one is shown to implement it.

Every invariant, action property and refinement that a run checks is also proved, for every
value of the constants. What remains with TLC are the liveness properties (section 11).

In a component's module, a definition `Name_Variant` before `Name` is no part of the
specification. It is a plausible mistake in the code of `Name` that one of the
properties is known to notice: with it in the place of `Name`, TLC finds the property
violated. `PROJECT.json` pairs them.

## 3. Customer delivery

`CustomerDelivery.tla` has one action per ERPNext call of two handlers.

* `CreateWerkaCustomerIssueWithSource` (service.go:1568): `IssueCheck` (look-ups
  and duplicate check), `IssueAbort` (a look-up fails), `IssueCreate` (insert the
  draft), `IssueMark` (write the mobile state), `IssueSubmit`, `IssueCleanup`
  (best-effort delete of the draft).
* `CustomerRespondDeliveryRequest` (service.go:1943): `RespondRead` (read the
  note, ownership, decision), `RespondRefuse`, `RespondInsertReturn`,
  `RespondSubmitReturn`, `RespondRemarks` or `RespondSkipRemarks`,
  `RespondState`.
* `Crash` ends every request in flight; documents stay as they are.

State: `issue[i]` and `resp[q]` are the local variables of a request, `note[i]` and
`ret[q]` the documents in ERPNext. A request makes at most one document, so the
document carries the request's name. A note's `remarks` are the decision recorded
in them, and `returnedQty[i]` is what ERPNext has booked as returned of it. A failed call may or may not have had its effect (`note' \in {note, ...}`).
`spoiled` is a history variable: issues whose outcome the handler could not know
(lost reply to the insert), could not undo, or that a crash cut short.

Quantities are integers in units of the rounding; `Tol` is `customerQtyTolerance`.
What ERPNext itself refuses (a delete of a submitted note, negative stock, an empty
return or one of more than is left) is either a guard or one of the failures; the model
does *not* assume that ERPNext refuses a second return.

A return of the whole delivery carries no quantity (service.go:1958, delivery_note.go:157):
the handler inserts what `make_sales_return` maps. Two things are assumed of ERPNext here: what
it maps is what the *submitted* returns of the note have left (`Left`), and the submit of a return
adds its quantity to the note's returned quantity (`ReturnBooked`). So a whole return that is
repeated, or follows a partial one whose remarks failed, takes back the rest only, while
its remarks say the whole. A partial return sets its own quantity, whatever is left. That is why
`RecordedReturnIsReal` compares the remarks with what is booked of the note in all, and not
with one return note.

`DeliveryLedger.tla` is what the component promises without requests and calls: an
entry per delivery with its status, delivered and returned quantity.
`DeliveryRefinement.tla` maps a note and its returned quantity to an entry.

### Runs

| Run | Asks | Answer |
|---|---|---|
| `delivery_races` | everything may overlap, one failed call per side, one crash | a submitted note has its state; what is shown, what is recorded and what was returned agree (`ReturnsAgree`); a failed issue leaves nothing; an answer is never withdrawn |
| `delivery_serial` | no overlap on a source or a note, issue calls may fail | one note per source, no return for a confirmed note, the ledger is implemented, the two read paths agree (section 9), responses and issues take effect |

Bounds: two issue requests and two responses are enough for every race between two
requests of a kind (and a third request is a further pair); one source key and
"no key"; tolerance 1 and, in the serial run, quantity 3, so that whole, nearly whole, part and too
much all occur; in `delivery_races` quantity 4, so that a whole return after a partial
one of 2 takes back 2, which is not near 4. The request quantities range over `0 .. qty + Tol + 1`. One
customer: ownership is checked by equality only. `IssueOverlap` and `ReplyOverlap` say
whether requests overlap; the serial run is about what holds when clients wait for
their answers; what overlap breaks is in section 10.

Fairness (`delivery_serial`): weak fairness of the steps of a request that has
started. Each ERPNext call has the HTTP client's timeout, so it returns or fails.
Users need not send anything.

### What is proved

`CustomerDeliveryProofs.tla` proves for *all* values of the constants (any number of
requests, any quantities and tolerance, any number of failures and crashes):
`TypeOK`, `SubmittedNoteIsMarked`, `ReturnsAgree` (three facts, each
a theorem of its own), `FailedIssueLeavesNothing`, `AnswerNeverWithdrawn`, and, for
requests that do not overlap and a check that sees every note, `OneNotePerSource`.

None is inductive. `IInv` adds what the program counter of a request says of its
documents: `IssuePhase` (a note is submitted only after its state was written; a
failed request that is not spoiled has no note) and `ResponsePhase` (from the moment
of its decision a response's note is submitted and its decision is sound; from
`settled` on a returned quantity has its submitted return, and the note at least the `Goal` of
that response booked: the whole for a whole return, its own quantity for a part. Before its submit,
the draft and what is booked reach it together, because what is booked only grows). The frame lemmas say
what a step leaves alone (an issuing request never touches a submitted note, a
response never touches which documents exist); with them each handler's part of
`IInv` is disturbed by its own steps only. `DecisionsAreSound` is the arithmetic of
`normalizeCustomerDeliveryDecision`.

The assumption is `ConstantsAssumption`. TLC checked `IInv` on the `delivery_races`
instance before it was proved.

Three more theorems are about responses that do not overlap and are neither cut off by a
crash nor meet a failed call (`~ ReplyOverlap`, `ReplyFaults = 0`, `MaxCrashes = 0`). Issue requests
may overlap and fail. Section 10 says what happens otherwise.

* `ConfirmedKeepsEverything`: a note that is wholly confirmed has no return note.
* `DeliveriesImplementLedger`: the component implements `DeliveryLedger`.
* `ListsAlwaysAgree`: the lists of section 9 agree (`DeliveryListsAgree`). It needs a tolerance above zero,
  which the code's is: with none, a quantity that misses the remarks by less than the rounding
  would be taken for another.

They rest on a second invariant, `Replying`. `ReplyPhase`: until it answers, a response finds
its note as it read it. `InTurn`: of two responses to one note one is over, and
one took nothing back. So nothing is booked as returned, or what one response meant to take back
(`Booked`). `Remarked` and
`Quoted` tie the remarks to the response that wrote them; `Delivers` says that what a submitted
note delivers was asked for. TLC checked these parts first, with issue requests overlapping and
not. The liveness properties are only model-checked.

## 4. Sessions

`Sessions.tla` models `SessionManager` (service.go:2600) with the handlers around
it. Each of its methods runs under one mutex and is one action; a request is not, so
the actions of several requests interleave.

| Action | Code |
|---|---|
| `Login` | `handleLogin` after the code was checked: `Create` |
| `Authorize`, `Refuse` | `authorizeWithToken`: `Get`, which also removes an expired session |
| `Update`, `End` | what follows in `handleMe`, `handleProfile`, `handleProfileAvatar` after their calls elsewhere: `Update`, or nothing |
| `Logout` | `handleLogout`: `Delete`; it needs no valid session and always answers ok |
| `Restart` | the process ends and `main` (cmd/core/main.go:32) reads the lifetime again |
| `Tick` | time passes |

State: `sessions` and `loaded` are the fields of the manager, `file` is the JSON file,
`ttl` the configured lifetime (0: no expiry), `req[r]` the token and principal a
handler holds. `All` is the map the next operation will see: `sessions`, or what is
not expired in `file` if nothing was loaded yet. `Load`, `LoadFails`, `Saved` and
`NotSaved` are the outcomes of `loadAllLocked` and `writeAllLocked`; a write replaces
the memory first, then the file as a whole (a temporary file that is renamed) or not
at all. A principal is its user; drawn tokens are distinct, and only users
to whom a token was handed present it. `owner`, `drawn`, `logouts` and `unsaved` are
history variables: `unsaved` are the tokens removed from memory since the last write
that succeeded, and a restart takes them out of `logouts`, because it undoes them.
A logout whose read of the file fails is answered ok too and has no effect; it is not
in `logouts`.

`SessionBook.tla` is the promise: a token is entered once, for one user, and stays
until a logout or its time. There is no memory, no file and no restart in it.

### Runs

| Run | Asks | Answer |
|---|---|---|
| `session_faults` | everything may interleave, one failed read, two failed writes | every session is its user's; a logout is final, also against a request that was authorized before it; nothing but a logout or its expiry ends a session; until a write fails, the sessions implement the book: failed reads and restarts leave no trace |

Bounds: two users, two tokens and two requests, so that a request of one user is in
flight while the other's, or the same user's other request, changes the map; lifetimes
0 and 1 with a clock up to 3, so that sessions of either kind meet a restart with the
other lifetime and still expire; two failed writes, because the second one can
follow a restart or fail a removal that the first one's record outlived. The action property
and the invariants use no order of the model values, so symmetry is sound. There is
no fairness and no liveness: nothing has to happen in this component.

### What is proved

`SessionsProofs.tla`, for any tokens, users, requests, lifetimes and numbers of failures:
`TypeOK`, `RightUser`, `LogoutIsFinal`, `NothingLost`, and `ImplementsBook`:
up to the first failed write every step is a step of the book. The only assumption is `SessionsAssumption`.

`IInv` adds to the properties: a token not drawn has left no trace (`Undrawn`); requests
and logouts are about tokens that were handed out (`Handed`); a session handed out is
also in the file, so a restart finds it (`Stored`, why nothing is lost); what the file
has beyond the memory is in `unsaved` or has expired (`Kept`, why a logout survives a
restart). Most steps have one of two shapes, `UnchangedSessions` (a read, a failed read,
a refusal) and `ChangedSession` (one session renewed or removed); logins, time and
restarts have proofs of their own. For the refinement `Clean` adds that without failed
writes what is seen is what is in the file, so that a restart is a `Lapse` of the book.

Not modelled: the content of a principal in a session (the stored nickname and avatar
are in `Settings`); a loss of the file's data by the operating
system after the rename (there is no fsync).

## 5. Administration of suppliers and customers

`SupplierAdmin.tla` models the admin's operations on a supplier or customer and the
goroutine that writes a new supplier code to ERPNext. Each is a read, some calls, and
a write of the whole record; the store's mutex covers the read and the write only.

| Action | Code |
|---|---|
| `Find` | `adminSupplierByRef`, `adminCustomerByRef`: the party and, from ERPNext only, its details |
| `Look` | `findSupplierForAdmin` reads the record and refuses a removed supplier; the item orders of a customer refuse a removed one |
| `Save` | the end of block, unblock, remove, restore and of the supplier's item orders: the record read, changed, is written |
| `Contact` | `AdminUpdateSupplierPhone`, `AdminUpdateCustomerPhone`: the details read are written back |
| `List`, `ItemCall` | `AdminUpdateSupplierItems`, assign and unassign: one call per item, then `Save` |
| `List`, `PutRow` | `RemoveCustomerFromItem`: reads the item's customers and writes them all back |
| `Draw`, `Push` | `AdminRegenerateSupplierCode`, `AdminRegenerateCustomerCode`: limit, new code, save; a goroutine or, for a customer, the call |
| `Wake`, `Persist`, `Clear` | `scheduleSupplierCodePersist`: sleep and check, the calls, the save of the record it read |
| `Tick`, `Restart` | time; the process ends, its requests and goroutines with it |

State: `state` and `file` are the store's cache and its JSON file (`Put` changes the
cache even if the write fails, and writes all of it); `line[s]` is the code in the
party's details in ERPNext, `rows[i]` the parties an item is assigned to; `req[r]` and
`routines` are the local variables of the requests and goroutines. Codes are long and
random, so they are distinct, and are numbered in the order they are drawn; running
out of them stands for `randomSupplierCode` giving up. Nothing else in the details
is modelled: the phone and other lines are not compared. `issued`, `persisted`
and `barred` are history variables. What ERPNext does with a row in the list that no
longer exists is not known from this repository; `PutRow` takes the list as it is sent.

`AdminLedger.tla` is the promise: the code is the last one issued, and a party is
blocked or removed if the last such order said so.

### Runs

| Run | Asks | Answer |
|---|---|---|
| `admin_races` | two overlapping requests, the goroutines, failed calls and writes, a restart | a removed supplier is blocked, the counter keeps its limit, no code is in ERPNext before it stood for a window |
| `admin_quiet` | one admin who waits for answers and for the goroutine, nothing fails | the ledger is implemented; fewer than twice the limit of codes in any window; a pending code has its goroutine and a persisted one its line (`CodesKept`); it reaches ERPNext; records and items agree |
| `block_undone` | one request at a time, goroutine not waited for | violated: a block saved while the goroutine calls ERPNext is overwritten |

Bounds: one supplier (records of different parties never meet, except in the file,
which is written as a whole from memory) and in `admin_quiet` a customer, whose code
and items take other paths; one item; two overlapping requests are every pair of
read and write. `admin_quiet` has four codes, a limit of two and a window of two ticks, so
that the two codes at the end of one window meet the two of the next: the limit
counts fixed windows, and a window that begins elsewhere sees up to `2 * MaxRegens - 1`.
`admin_races` draws two codes with a window and limit of one, so that they meet each
other's goroutines, and leaves a new phone to `admin_quiet`: its overlaps with the
other orders are covered by the theorems below. The clock stops at `MaxClock`; `CodeReachesErp` is about codes whose
window ends before that. Requests are interchangeable (symmetry in `admin_races`, which
has no liveness).

`PersistOverlaps = FALSE` (`admin_quiet`) lets a request start only when no goroutine is
due, and a goroutine begin only when no request is at work. It is an assumption about
the admin, not something the code enforces; `block_undone` is what happens without it.

Fairness (`admin_quiet`): weak fairness of time, of each request's steps and of each
goroutine. The goroutine's calls have a timeout of 15 seconds and the client's
calls have one as well; the Go scheduler runs what is ready.

### What is proved

`SupplierAdminProofs.tla`, for any parties, items, requests, codes and bounds, with every
overlap, failure and restart allowed: `TypeOK`, `RemovedIsBlocked`, `ErpCodeHasStood`. The
only assumption is `AdminAssumption`.

The records travel: a request or goroutine holds a copy that it will write back at any
later time. So the invariant `IInv` has to say of every copy what it says of the store.
`Sound` is the set of records that may be written at all (removed implies blocked; a
counter at its limit has its lock until the end of its window, which is why the next
code can only be drawn in a new window). `ReqOK` and `RoutineOK` say what may be in
flight: a code line that is read was already allowed to stand, an order to block or
unblock was accepted for a record that was not removed, and a goroutine past its sleep
is past the window of its code. Codes are only added and time only grows (`Later`), so
that these facts survive every other step; each action then disturbs one conjunct.

The second part of the module is about one admin who waits for answers, and goroutines
that take turns with the requests (`Serial`: `~ PersistOverlaps`, one request, and no restart if writes to
the file may fail, since a restart would bring back what memory had already left behind).

| Theorem | Needs moreover | Invariant |
|---|---|---|
| `RecordsImplementLedger` | nothing: calls and writes may fail | `Fresh` |
| `RegensAreLimited` | nothing | `Counters` |
| `CodeLinesAreKept` | parties come from ERPNext with their details (`~ DirectReader`) | `Written`, `Phones` |
| `CodesStayKept` | nothing fails and no restart (`Quiet`), `~ DirectReader` | `Persisting` |
| `ItemsAlwaysAgree` | `Quiet` | `Itemized` |

`Fresh` carries all of it: what a request or goroutine will write back is still the record in
the store. So every step changes at most one record, in one of four ways (`RecordSteps`), and each
promise is compared with these four instead of with all actions. `Counters` is the
sliding-window argument: the window a counter is in was started by a code, and less than a
window before that fewer codes than the limit were drawn (`Counts`). Two adjoining windows
of the counter therefore cover any window of time with fewer than twice the limit. `Itemized`
says what an item order under way still owes. `IdleAssumption` (`SupplierAdmin.tla`) only says that
the model value for "no request" is not a request.

Only model-checked: the liveness property.

The calls for one item are one step (`ItemCall`). Removing a supplier from an item deletes its
rows and then clears the item's default supplier; only the rows are in `rows`, and a removal
that stops half way is answered with an error, which is the outcome "done, but not ok".

Not modelled: creating suppliers, customers and items, except that the creation of a supplier
that was removed (`AdminCreateSupplier`, admin_suppliers.go:583) reads its record and saves it
unremoved and unblocked, as `restore` does; the default supplier of an item; moving items between
groups; the lists and details, which read; a code derived from the supplier's name while it has
no custom code.

## 6. Purchase receipts

`PurchaseReceipts.tla` follows a receipt from its announcement until somebody has decided
on it, one action per ERPNext call.

| Action | Code |
|---|---|
| `CreateRefuse`, `CreateInsert`, `CreateReadBack`, `CreateTag` | `CreateDispatch`, and with the tag `CreateWerkaUnannouncedDraft` (service.go:1742) |
| `ConfirmRead`, `ConfirmRefuse`, `ConfirmReturn`, `ConfirmWrite`, `ConfirmLatest`, `ConfirmSubmit`, `ConfirmRetry`, `ConfirmUndo` | `ConfirmReceipt`: `ConfirmAndSubmitPurchaseReceipt` (purchase_receipt.go:459) with `submitDoc` (829) and its one retry |
| `RespondRead`, `RespondReject`, `RespondApprove`, `RespondConfirm` | `RespondWerkaUnannouncedDraft`; an approval goes on as a confirm |
| `AckSay`, `AckRead`, `AckWrite` | `AddNotificationComment` with an acknowledgement |
| `OfficeCancel` | somebody cancels a submitted receipt in ERPNext |
| `Crash` | the server ends, with every request in flight |

State: `doc[r]` is the document in ERPNext; `make[r]` and `req[q]` are the local variables
of the requests, `seen` and `latest` the copies of the document a confirm holds, `heard`
the receipts with an acknowledgement among their comments. `ReceiptDocs.tla` has the
operators on one document: what its remarks say (`DecisionNote`, `Decided`, `Tagged`,
`Acknowledged`), and what either read path makes of it (`HttpStatus`, `DbStatus`, ...).
Of the remarks the model keeps what the code parses out of them: the decision note, the tag
and whether they have an acknowledgement line.

Of ERPNext it is assumed: a failed call may have had its effect or not; a document that is no
draft keeps its quantities; a write or submit of a whole document with an old time stamp
is refused if `Stamped` (the retry in `submitDoc` exists because of it); the write of one
field looks at no stamp; a cancelled document is not changed.

`ReceiptLedger.tla` is the promise: a receipt is announced with a quantity, possibly offered
to the supplier, and settled or declined once. `ReceiptRefinement.tla` maps a document
to its entry.

### Runs

| Run | Asks | Answer |
|---|---|---|
| `receipt_races` | two requests of any kind overlap on one receipt, a call fails, the server crashes, the office cancels | no more is accepted than was sent, and of a receipt accepted in part no more is rejected than the rest (`WithinSent`); what is booked is the decision of one request (`QuantityWasDecided`); an acknowledgement line stands for a comment |
| `receipt_serial` | two receipts, requests about one receipt one at a time and only on what the lists offer, a call fails | the ledger is implemented; a rejected receipt stays out; the note tells what was booked; no receipt is forgotten; both read paths agree (section 9); a decision takes hold or its request fails |

Bounds: two units are sent, and a confirm may carry `-1 .. 3`, so that the sets of accepted
and returned quantities have none, a part, the whole, too much and a negative one. Two
overlapping replies give every pair of a read and a write, and a lost reply to a submit
together with a second confirm; a third reply meets nothing that the second has not
changed. One failure and one crash: each ends what its request was doing or starts its
rollback, and the rollback's own failure leaves what the failed submit left.

Fairness (`receipt_serial`): weak fairness of each request's steps, because each call
has the HTTP client's timeout. Nobody has to decide anything. The run has no crash: a crash
ends a request without an answer, and nothing resumes.

### What is proved

`PurchaseReceiptsProofs.tla`, for any receipts, replies, quantities, failures and crashes and with
overlap: `TypeOK`, `WithinSent`, `AckWasSaid`, and, if `Stamped`, `QuantityWasDecided`. The
assumption is `ReceiptConstants`.

The code writes whole documents back, so an invariant of the documents has to hold of
every copy that may still be written. `SInv` says of each document *and of each copy a
request holds* that it is `SafeDoc` (its accepted quantity is within what was sent, its rejected
one within the rest unless all is accepted, and an acknowledgement in its remarks was heard). For `QuantityWasDecided` a second invariant
`DInv` is about drafts on their way: from the moment a confirm has written its quantities
until it submits, the document *and* the copy it is about to submit have the quantities
that *one* request decided (`Ready`, `ByRequest`), though not necessarily this request's: a
second confirm may have written over them meanwhile. Nobody can put undecided quantities
back, because the only write that would, the rollback, carries a stamp that is old by
then. Without `Stamped` the theorem fails, and so it should.

The last section of the module proves `ReceiptListsAgree` (`ListsAgree`, section 9), for every
reachable state. A receipt is of exactly one kind to either reader (`RecordsHaveOneKind`), and
at any time only finitely many are known (`KnownIsFinite`, an invariant of its own, because each step writes
one document at most). So the three counts of a summary add up to their number.

`ReceiptSerialProofs.tla` is about requests on a receipt that take turns and come from users who
act on what the lists offer (`Serial`: `~ Overlap`, `FromList`); calls may fail.

| Theorem | Needs moreover | Why |
|---|---|---|
| `RejectedNeverBooked` | nothing, crashes included | a rejected draft is on no list |
| `NotesTellBooked` | nothing, crashes included | an undo that is refused leaves quantities and note together |
| `ReceiptsImplementLedger` | ERPNext checks time stamps (`Stamped`) | without, an undo may write over a booked receipt |
| `NobodyForgotten` | no crash | a crash can leave a draft whose goods were changed |

The invariant `Orderly` says that a document is `Tidy` (its note is that of its quantities; a tag that awaits or denies an answer
stands on an untouched draft), that a request at work is alone (`Alone`), and that what it has
read is the document, or tells how it was changed (`Steady`). Each step then moves one
document at most, in one of the few ways `Turn` lists, and the ledger is compared with
those. `Submitting`, for `NobodyForgotten`: until a call has failed, changed goods are about to be submitted.
Only model-checked: `DecisionTakesHold` (liveness).

## 7. Pushes

`Pushes.tla` has the token store (`core/push_token_store.go`), the handlers that
register and unregister a token, and every handler that tells somebody, with
`SendToKey` (`mobileapi/fcm.go`) token by token. `BatchCreate`, `BatchTake`, `BatchLine` and
`BatchTell` are the batch with its pool of workers (server.go:1138), whose lines succeed
or fail. `Uninstall` is FCM forgetting a token; `Restart` drops memory and requests.

State: `mem`, `loaded` and `file` are the store; `live` the tokens FCM knows; `req[h]` what a
request does: the keys it still has to tell (`queue`), the tokens copied from the
store that are still to be called (`left`). Unlike the sessions, the map in memory is changed *in
place*, so a change whose write failed stays in memory (`NotSaved`). `last[t]` (where the last
request about a token has left it) and `due` (who must still be told) are history
variables.

| Run | Asks | Answer |
|---|---|---|
| `user_stores` | phones register, move and are uninstalled while a request sends; a read, write or call fails; the server restarts | a token is under the key that was acknowledged last, in memory and file (`RegistrationsHold`); one failing phone costs nobody else the message (`NobodyLeftOut`); every request, a batch too, is answered |
| `supplier_untold` | one confirm, nothing fails | violated: the supplier is not told (section 10) |

Bounds: two tokens, so that one can fail, be dropped or move while the other is
called; one supplier, one customer, Werka and the admin are every kind of key; three
lines and two workers, so that a worker must take a second line. One request at a time: two
sending requests only meet in the store, where each drop is one operation under the
lock, and registrations interleave with every step already. Two failures: a failed write
and a failed read after it.

Fairness: weak fairness of the steps of each request; the FCM client has a timeout of
15 seconds, and goroutines that are ready run.

`PushesProofs.tla` proves `TypeOK`, `RegistrationsHold` and `NobodyLeftOut` for any tokens, users, requests and
failures. `IInv` adds `StaleIsDead` (a token about to be dropped is one FCM has refused, and
what FCM has forgotten it never knows again) and `Telling` (a request that sends has a key to
send to). That is why a drop undoes no registration of a live token, even though the
tokens were copied from the store long before. `NobodyLeftOut` speaks of answered requests only;
`AllOwed` says what holds on the way: whom a request still owes a message is among the tokens it has
copied or under a key it has yet to read (`OwedLess`: what the store changes for one token meanwhile
excuses that token alone). The liveness property is only model-checked.

## 8. Settings and profiles

`Settings.tla` models what is edited without a lock across the request: the settings form
(`UpdateAdminSettings`: `PutForm` assigns the fields, `PutKey` writes the API key to ERPNext's
database where a direct reader is configured, or keeps the current one if it was left blank
(`CurrentKeys`), `PutEnv` rewrites `.env`), the Werka code
(`RegenDraw`, `RegenSave`, `RegenEnv`), the cached warehouse (`LookupAsk`, `LookupKeep`), and the profiles
(`NickRead`, `AvatarUpload`, `AvatarRead`, `ProfilePut`). `Restart` reads `.env` as `main` does. The
settings are grouped into four fields by how they are written: `site` and `code` come back
from `.env`, `name` is written there under another key than it is read from, `key`
is not written there at all. `Upsert` rewrites the file in place, so a failed write or a crash
in it may leave it as it was or without its lines (`Torn`).

| Run | Asks | Answer |
|---|---|---|
| `settings` | three requests about settings overlap, or two about the profiles of two users; one failed call, read or write; restarts | a setting whose last change was acknowledged, and was not overlapped by another one, is in memory and in `.env`; a looked-up warehouse is of the configured site unless the site changed during the lookup (`SettingsHold`); an acknowledged nickname or avatar holds until the next request about it, or until one about the other part ends that overlapped another on the same profile (`ProfileHolds`) |

`last` and `kept` are history: what was acknowledged last, or `Unknown` after a failure or an overlap. Of
two overlapping requests on one profile the last to end has its own part, and only the other part
is unknown.

Bounds: two values tell a change from what was there before. Three requests about settings, so that a
lookup can overlap a form that overlaps a regeneration; a direct reader, which has the more ways to
fail. Two users tell one profile from the other's in the shared file, and two requests about profiles
overlap in every order. Each behaviour of the run is about one half, the settings or the profiles, and leaves
the other as it started (`HalvesSpec` in `MCSettings.tla`): the halves share only the request slots, the bound on failures and restarts, and the theorems
below are about both together. Values, users and requests are interchangeable.

What the properties excuse is what the code does not protect: a change of the site during a lookup, what a torn
`.env` has lost, the part of a profile an overlapping request wrote. Not modelled: the cached company
(`resolveCompany`, service.go:2363), which is like the warehouse's cache but is never reset.

`SettingsProofs.tla` proves `TypeOK`, `SettingsHold` and `ProfileHolds` for any values, users,
requests and failures, from the assumption on the constants alone. What was acknowledged cannot be
compared with memory while a request is between its steps, so the invariant has, for the settings,
`FieldsHold` (a field is as acknowledged unless a request about it is under way) and `AloneHasSet` (a
request that met no other has set its fields to what it will acknowledge), and for the profiles
`AloneHasRead` (a request that met no other still holds the profile as it is, so that writing it
back undoes nothing). The two halves share only the requests, the failures and the restarts.

## 9. Lists and scans

Lists are computed from the documents each time, over HTTP or by the database reader, by
code written twice. `ReceiptLists` and `DeliveryLists` extend the modules whose documents
they show and are checked in the serial runs of those, so that the lists are computed of
every state these reach.

* `ListsAgree` (`receipt_serial`): a supplier's counts cover every receipt once; Werka's
  counts are those of the lists and breakdowns behind them; the reader's home page agrees with its
  own summary and list; nothing that Werka could decide on over HTTP is missing from the
  reader's list.
* `DeliveryListsAgree` (`delivery_serial`): the same for notes and return notes, the archive, and
  the answers the page of a note offers, which are those the server would take.

`ListScans` is the page-by-page scan behind the HTTP lists (`collectCustomerDeliveryNotes`, `ListCustomerDeliveryNotesPage`,
`ListTelegramPurchaseReceiptsPage`), while documents are created, modified (which moves them to the
front) and deleted. A row of a page is used as it was listed (`listed`) or read once more, which fails the scan if the
document is gone: receipts do the one unless a row cannot be mapped (purchase_receipt.go:340), deliveries always the other. `ScanIsComplete` (`list_scans`): a finished scan has no document twice and has every
document that was there from the start and that nobody touched, unless one was deleted meanwhile.
Bounds: five documents and pages of two are three pages, the last one short; a limit beyond the
largest is replaced by the default; each document changes once and one is deleted. Documents are interchangeable.

What is proved: `ReceiptListsAgree` (section 6) and `ListsAlwaysAgree` (section 3), and in
`ListScansProofs.tla`, for any documents, page sizes, scans, changes and deletions, `ScansAreComplete` and
`ScanTypes`. The property is about finished scans, so the invariant says where what is missing is meanwhile
(`Ahead`): in the rows of the page still to be read, or further down than the page. Nobody but who is modified
moves up (`NewInFront`, `ModifiedInFront`), so it stays there, unless a document above is deleted. Of a
document nobody touched, what was listed is what there is (`Recent`). The assumption is
`ScansAssumption`: a page is no longer than the largest limit, which is why nothing is cut off.

## 10. Where code and documents, or two parts of the code, disagree

Two of these are checked as violations, because they need nothing but the program itself:

* `block_undone`: an admin's block is overwritten by the goroutine that persists a code
  (admin_suppliers.go:1008).
* `supplier_untold`: `PORTING.md:1918` says that a supplier is told of a confirmed receipt. `ConfirmReceipt`
  answers without the supplier's reference (service.go:2396), so the push goes to the key
  of an empty reference (server.go:1584).

The rest was met while reading the code for the models. The models contain this behaviour, and the properties
are stated so that they hold with it.

Deliveries:

* A confirm and a reject of one note that overlap are both accepted (service.go:2006), though
  `README.md:75` and `:252` describe a note as answered once.
* Two issues of one source that overlap both find no note (service.go:1591; compare
  `server_test.go:1796`).
* A note whose remarks were written and whose state was not is pending and shows an accepted
  quantity. Accepted and returned may together exceed what was sent within the tolerance.
* A response that is repeated after its return note was submitted, or overlaps another, returns again. A
  whole return then takes back only what is left, and its return note has less than its remarks
  say; after partial ones more may be booked as returned than the remarks say, unless ERPNext refuses.

Sessions and administration:

* A lifetime of 0 turns expiry off for new sessions only (service.go:2717; `README.md:204`).
* A new phone number erases a code line if the details come from the direct reader
  (admin_suppliers.go:500; `admin_suppliers_test.go:1219`).

Receipts:

* Over HTTP a partly accepted receipt is shown as accepted: reading raises its quantity to the
  sent marker (purchase_receipt.go:882, service.go:2859; `PORTING.md:1540`, `:1867`).
* The rollback of a failed confirm writes the document with its first time stamp, which ERPNext
  refuses after the first write (`PORTING.md:1872` and `client_test.go:701` expect the rollback).
* An acknowledgement line counts as a note, so an acknowledged pending draft disappears from
  Werka's HTTP lists.
* An unannounced draft that was approved and could not be submitted can not be answered again; one
  whose tag could not be written stays an ordinary pending receipt.
* Accepting all of a draft after a noted full return keeps the old note (`PORTING.md:1870`); a full
  return of a submitted receipt rewrites its remarks; accepting less with nothing returned
  writes a note that the rest was returned.
* When all is accepted the rejected quantity is not checked: accepting 2 of 2 and rejecting 3 is booked
  (purchase_receipt.go:920).
* A tag or acknowledgement writes remarks read before, and can erase a note written between.
* `UpsertSupplierAcknowledgmentInRemarks` looks for another prefix than it writes, so lines accumulate.

Pushes and settings:

* Customers and the admin are addressees of pushes, but `handlePushToken` lets only suppliers and Werka
  register. A token stays registered after a logout. A retried batch creates its notes again.
* After a failed write a token is where memory has it until a restart brings the old owner back.
* The names of Werka and the admin are written to `.env` under keys `main` does not read; the API key is lost
  with a restart unless a direct reader is configured.
* A failed settings form leaves its fields changed in memory; a failed regeneration leaves a code
  nobody was told; a form that was opened before a regeneration puts the old code back; the fields are written
  without a lock.
* A warehouse that was being looked up while the site changed stays in the cache, and the cached company survives
  every change of the site (service.go:2363, 2443).

Lists:

* The reader lists a fully returned draft and a rejected one as pending, HTTP as cancelled or not at all; HTTP's
  pending list for the home page has drafts the supplier is asked about, the reader's has not; the reader's
  details and breakdowns skip the filters its summary has.
* `WerkaPending` applies its limit before it filters, and lists drafts this program has not made.
* A scan misses documents modified during it; a deletion shifts the pages, and a deleted row fails the
  whole list; customers beyond the first 500 are left out.

## 11. What is not modelled, and what cannot be proved here

Not modelled: creating suppliers, customers and items, moving items between groups, comments other than
acknowledgements, the creation of custom fields (single idempotent calls that keep nothing here, except that creating a
removed supplier restores it, section 5); the cached company (section 8); the content of pushes;
SQL, search, sorting and pickers; AI search, PDF and deploy scripts (stateless or layout); the importers
(sequential programs that may be run again); the supplier book, which no program uses.

Liveness and ENABLED are out of TLAPS's reach: `RequestsTakeEffect`, `CodeReachesErp`, `DecisionTakesHold`
and `RequestsEnd` are model-checked under the stated fairness. Everything else the passing runs check is a theorem. What
would need induction over data was avoided rather than assumed: what is returned of a note is the quantity ERPNext
keeps with it and not a sum over return notes, the counts of a summary are sums over three kinds, and a scan's rows are
described by their positions.

Several hazards are only partly within reach of the properties that name them, because the code itself goes
wrong beyond: overlapping responses (`ConfirmedHasNoReturn`, `DeliveriesImplementLedger`), overlapping issues of one source
(`OneNotePerSource`), overlapping admin orders (`LedgerSpec`, `CodesKept`), receipts after a failed call (`NoneForgotten`),
items after a failed call (`ItemsAgree`), and the cases of section 8. The notes of the hazards in
`PROJECT.json` say where each property ends.

`block_undone` shows that the hypothesis of section 5's second part is needed: a goroutine that does not wait
for the admin undoes a block.
