-------------------------- MODULE CustomerDelivery --------------------------
(***************************************************************************)
(* A delivery note from the moment a Werka (warehouse) user issues goods   *)
(* to a customer until the customer has answered.  Two HTTP handlers work  *)
(* on it, and every step of theirs is a separate call to ERPNext, so steps *)
(* of different requests interleave and any call may fail:                 *)
(*                                                                         *)
(*   CreateWerkaCustomerIssueWithSource   check the source marker, insert  *)
(*       a draft note, write its mobile state, submit it; after an error   *)
(*       try to delete the draft;                                          *)
(*   CustomerRespondDeliveryRequest       read the note, decide, insert    *)
(*       and submit a return note, write the remarks, write the state.     *)
(*                                                                         *)
(* An issue request creates at most one note and a response at most one    *)
(* return note, so a note is named by its issue request and a return note  *)
(* by its response.  Quantities are counted in multiples of a small unit.  *)
(* A definition Name_Variant before Name is not part of the specification: *)
(* it is a plausible mistake in that code, which a property must notice.   *)
(***************************************************************************)
EXTENDS Integers, FiniteSets

CONSTANTS
    Issues,       \* issue requests, and the delivery notes they create
    Responses,    \* customer responses, and the return notes they create
    Customers,    \* customer references
    Keys,         \* source markers (barcode / stock entry / line)
    NoKey,        \* the empty marker of a request that names no source
    NoCustomer,   \* the customer of a note that does not exist yet
    NoNote,       \* the note of a response that has not read one
    Sent,         \* the quantities a Werka user may send
    Tol,          \* customerQtyTolerance, in units
    DirectRead,   \* is the duplicate check done by the direct DB reader?
    IssueOverlap, \* may issue requests overlap?
    ReplyOverlap, \* may responses to the same note overlap?
    IssueFaults,  \* bound on failed ERP calls of issue requests
    ReplyFaults,  \* bound on failed ERP calls of responses
    MaxCrashes    \* bound on crashes of the server

ASSUME ConstantsAssumption ==
    /\ NoKey \notin Keys
    /\ NoCustomer \notin Customers
    /\ NoNote \notin Issues
    /\ Sent \subseteq Nat \ {0}
    /\ Tol \in Nat
    /\ {DirectRead, IssueOverlap, ReplyOverlap} \subseteq BOOLEAN
    /\ {IssueFaults, ReplyFaults, MaxCrashes} \subseteq Nat

VARIABLES
    issue,    \* issue[i]: where request i stands, and what it asks for
    note,     \* note[i]: the delivery note of i in ERPNext
    resp,     \* resp[q]: where response q stands, its note and its decision
    ret,      \* ret[q]: the return note of q in ERPNext
    returnedQty, \* returnedQty[i]: what ERPNext has booked as returned of i
    faults,   \* how many calls have failed, and how often the server crashed
    spoiled   \* history: issues whose outcome the handler could not learn
              \* or could not undo

vars == <<issue, note, resp, ret, returnedQty, faults, spoiled>>

-----------------------------------------------------------------------------
(* Documents and decisions *)

Docs == {"none", "draft", "submitted", "deleted"}

CustomerStates == {"none", "pending", "rejected", "confirmed", "partial"}

\* What a response decides and what it records in the note's remarks.
Decision == [cstate : CustomerStates, accepted : Nat, returned : Nat]

NoDecision == [cstate |-> "none", accepted |-> 0, returned |-> 0]

Modes == {"accept_all", "reject_all", "accept_partial", "claim_after_accept",
          "unknown"}

\* The body of a respond request.  reasoned: reason or comment is long enough.
Request(n) == [cust : Customers, mode : Modes, reasoned : BOOLEAN,
               accepted : 0 .. issue[n].qty + Tol + 1,
               returned : 0 .. issue[n].qty + Tol + 1]

Near(a, b) == a - b \in -Tol .. Tol

InErp(n) == note[n].doc \in {"draft", "submitted"}

\* What the customer's answer is called on the note's label.
AnswerLabel(n) ==
    CASE note[n].cstate = "rejected"  -> "rejected"
      [] note[n].cstate = "confirmed" -> "accepted"
      [] note[n].cstate = "partial"   -> "partial"
      [] OTHER                        -> "pending"

\* The status a customer is shown for note n.
Status(n) ==
    IF note[n].doc # "submitted" THEN "draft"
    ELSE IF note[n].flow # "submitted" THEN "pending"
    ELSE AnswerLabel(n)

\* The accepted and returned parts a partial answer stands for.
AcceptedPart(sent, r) == IF r.accepted > 0 THEN r.accepted ELSE sent - r.returned
ReturnedPart(sent, r) == IF r.returned > 0 THEN r.returned ELSE sent - r.accepted

SplitsDelivery(sent, r) ==
    /\ r.accepted > 0 \/ r.returned > 0
    /\ AcceptedPart(sent, r) > 0
    /\ ReturnedPart(sent, r) > 0
    /\ Near(AcceptedPart(sent, r) + ReturnedPart(sent, r), sent)

\* Each way of answering, as the set of decisions it leads to on a note with
\* this status and quantity: one element, or none when the request is refused.
AcceptAll_AnyStatus(status, sent, r) ==
    IF r.mode = "accept_all"
      THEN {[cstate |-> "confirmed", accepted |-> sent, returned |-> 0]}
      ELSE {}

AcceptAll(status, sent, r) ==
    IF r.mode = "accept_all" /\ status = "pending"
      THEN {[cstate |-> "confirmed", accepted |-> sent, returned |-> 0]}
      ELSE {}

RejectAll(status, sent, r) ==
    IF r.mode = "reject_all" /\ status = "pending" /\ r.reasoned
      THEN {[cstate |-> "rejected", accepted |-> 0, returned |-> sent]}
      ELSE {}

AcceptPartial(status, sent, r) ==
    IF /\ r.mode = "accept_partial" /\ status = "pending" /\ r.reasoned
       /\ SplitsDelivery(sent, r)
      THEN {[cstate |-> "partial", accepted |-> AcceptedPart(sent, r),
             returned |-> ReturnedPart(sent, r)]}
      ELSE {}

\* A claim for the whole delivery, to the tolerance, makes it rejected.
Claimed(sent, r) ==
    IF Near(r.returned, sent)
      THEN [cstate |-> "rejected", accepted |-> 0, returned |-> sent]
      ELSE [cstate |-> "partial", accepted |-> sent - r.returned,
            returned |-> r.returned]

Claim_Repeated(status, sent, r) ==
    IF /\ r.mode = "claim_after_accept" /\ r.reasoned
       /\ status \in {"accepted", "partial"}
       /\ r.returned > 0 /\ r.returned <= sent + Tol
      THEN {Claimed(sent, r)}
      ELSE {}

Claim(status, sent, r) ==
    IF /\ r.mode = "claim_after_accept" /\ r.reasoned
       /\ status = "accepted"
       /\ r.returned > 0 /\ r.returned <= sent + Tol
      THEN {Claimed(sent, r)}
      ELSE {}

Decide(status, sent, r) ==
    AcceptAll(status, sent, r) \cup RejectAll(status, sent, r)
        \cup AcceptPartial(status, sent, r) \cup Claim(status, sent, r)

Decisions(n, r) ==
    IF InErp(n) /\ r.cust = issue[n].cust
      THEN Decide(Status(n), issue[n].qty, r)
      ELSE {}

\* All the decisions that some request could lead to.
Answers(n) == UNION {Decisions(n, r) : r \in Request(n)}

\* What make_sales_return maps for note n: the part that its submitted return
\* notes have left.
Left(n) ==
    IF returnedQty[n] < issue[n].qty THEN issue[n].qty - returnedQty[n] ELSE 0

\* A return close to the whole delivery is inserted as it was mapped; any other
\* gets the decided quantity, whatever is left.
ReturnQty(q) ==
    IF Near(resp[q].plan.returned, issue[resp[q].note].qty)
      THEN Left(resp[q].note)
      ELSE resp[q].plan.returned

-----------------------------------------------------------------------------
(* Requests *)

IssuePCs == {"idle", "checked", "drafted", "marked", "undoing",
             "done", "duplicate", "failed"}
IssueEnded == {"idle", "done", "duplicate", "failed"}

RespPCs == {"idle", "decided", "inserted", "settled", "noted",
            "answered", "refused", "failed"}
RespEnded == {"idle", "answered", "refused", "failed"}

IssueRequest == [pc : IssuePCs, cust : Customers \cup {NoCustomer},
                 key : Keys \cup {NoKey}, qty : Nat]

DeliveryNote == [doc : Docs, flow : {"none", "submitted"},
                 cstate : CustomerStates, remarks : Decision]

Response == [pc : RespPCs, note : Issues \cup {NoNote}, plan : Decision,
             same : BOOLEAN]

ReturnNote == [doc : {"none", "draft", "submitted"}, qty : Nat]

Issuing(i) == issue[i].pc \notin IssueEnded
Responding(q) == resp[q].pc \notin RespEnded

GoIssue(i, pc) == issue' = [issue EXCEPT ![i].pc = pc]
GoResp(q, pc) == resp' = [resp EXCEPT ![q].pc = pc]

\* An ERP call of a kind fails: timeout, lost reply, cancelled request,
\* refusal by ERPNext.  At most as many as the bounds allow.
Fault(kind) ==
    /\ faults[kind] < (IF kind = "issue" THEN IssueFaults ELSE ReplyFaults)
    /\ faults' = [faults EXCEPT ![kind] = @ + 1]

Init ==
    /\ issue = [i \in Issues |-> [pc |-> "idle", cust |-> NoCustomer,
                                  key |-> NoKey, qty |-> 0]]
    /\ note = [i \in Issues |-> [doc |-> "none", flow |-> "none",
                                 cstate |-> "none", remarks |-> NoDecision]]
    /\ resp = [q \in Responses |-> [pc |-> "idle", note |-> NoNote,
                                    plan |-> NoDecision, same |-> FALSE]]
    /\ ret = [q \in Responses |-> [doc |-> "none", qty |-> 0]]
    /\ returnedQty = [i \in Issues |-> 0]
    /\ faults = [issue |-> 0, reply |-> 0, crash |-> 0]
    /\ spoiled = {}

-----------------------------------------------------------------------------
(* CreateWerkaCustomerIssueWithSource *)

SourceTaken_SubmittedOnly(c, k) ==
    /\ k # NoKey
    /\ \E j \in Issues : /\ note[j].doc = "submitted"
                         /\ issue[j].key = k
                         /\ DirectRead \/ issue[j].cust = c

\* The direct reader finds the marker on any note that is not cancelled; the
\* HTTP fallback scans the notes of the one customer.
SourceTaken(c, k) ==
    /\ k # NoKey
    /\ \E j \in Issues : /\ InErp(j)
                         /\ issue[j].key = k
                         /\ DirectRead \/ issue[j].cust = c

\* Resolve the item, the warehouse and the company, then look for the marker.
IssueCheck(i) ==
    /\ issue[i].pc = "idle"
    /\ IssueOverlap \/ \A j \in Issues : ~ Issuing(j)
    /\ \E c \in Customers, k \in Keys \cup {NoKey}, x \in Sent :
          issue' = [issue EXCEPT ![i] =
                      [pc |-> IF SourceTaken(c, k) THEN "duplicate" ELSE "checked",
                       cust |-> c, key |-> k, qty |-> x]]
    /\ UNCHANGED <<note, resp, ret, returnedQty, faults, spoiled>>

\* A look-up fails before anything has been written.
IssueAbort(i) ==
    /\ issue[i].pc = "idle"
    /\ GoIssue(i, "failed")
    /\ UNCHANGED <<note, resp, ret, returnedQty, faults, spoiled>>

\* CreateDraftDeliveryNote.  Without a reply the name of the draft is unknown
\* and the handler returns without a cleanup.
IssueCreate(i) ==
    /\ issue[i].pc = "checked"
    /\ \/ /\ note' = [note EXCEPT ![i].doc = "draft"]
          /\ GoIssue(i, "drafted")
          /\ UNCHANGED <<faults, spoiled>>
       \/ /\ note' \in {note, [note EXCEPT ![i].doc = "draft"]}
          /\ GoIssue(i, "failed")
          /\ spoiled' = spoiled \cup {i}
          /\ Fault("issue")
    /\ UNCHANGED <<resp, ret, returnedQty>>

\* UpdateDeliveryNoteState to flow submitted, customer pending.
Marked(n) == [note EXCEPT ![n].flow = "submitted", ![n].cstate = "pending"]

IssueMark_IgnoresError(i) ==
    /\ issue[i].pc = "drafted"
    /\ GoIssue(i, "marked")
    /\ \/ /\ note' = Marked(i)
          /\ UNCHANGED faults
       \/ /\ note' \in {note, Marked(i)}
          /\ Fault("issue")
    /\ UNCHANGED <<resp, ret, returnedQty, spoiled>>

IssueMark_NoCleanup(i) ==
    /\ issue[i].pc = "drafted"
    /\ \/ /\ note' = Marked(i)
          /\ GoIssue(i, "marked")
          /\ UNCHANGED faults
       \/ /\ note' \in {note, Marked(i)}
          /\ GoIssue(i, "failed")
          /\ Fault("issue")
    /\ UNCHANGED <<resp, ret, returnedQty, spoiled>>

IssueMark(i) ==
    /\ issue[i].pc = "drafted"
    /\ \/ /\ note' = Marked(i)
          /\ GoIssue(i, "marked")
          /\ UNCHANGED faults
       \/ /\ note' \in {note, Marked(i)}
          /\ GoIssue(i, "undoing")
          /\ Fault("issue")
    /\ UNCHANGED <<resp, ret, returnedQty, spoiled>>

\* The state written after the submit instead of before it.
IssueSubmit_StateLater(i) ==
    /\ issue[i].pc = "marked"
    /\ note' = [note EXCEPT ![i].doc = "submitted"]
    /\ GoIssue(i, IF note[i].doc = "draft" THEN "drafted" ELSE "done")
    /\ UNCHANGED <<resp, ret, returnedQty, faults, spoiled>>

\* SubmitDeliveryNote.  ERPNext also refuses here when stock would go negative.
IssueSubmit(i) ==
    /\ issue[i].pc = "marked"
    /\ \/ /\ note' = [note EXCEPT ![i].doc = "submitted"]
          /\ GoIssue(i, "done")
          /\ UNCHANGED faults
       \/ /\ note' \in {note, [note EXCEPT ![i].doc = "submitted"]}
          /\ GoIssue(i, "undoing")
          /\ Fault("issue")
    /\ UNCHANGED <<resp, ret, returnedQty, spoiled>>

\* The best-effort cleanupDraft.  ERPNext does not delete a submitted note, and
\* the result of the call is ignored.
IssueCleanup(i) ==
    /\ issue[i].pc = "undoing"
    /\ GoIssue(i, "failed")
    /\ \/ /\ note[i].doc = "draft"
          /\ note' = [note EXCEPT ![i].doc = "deleted"]
          /\ UNCHANGED <<faults, spoiled>>
       \/ /\ note[i].doc = "submitted"
          /\ spoiled' = spoiled \cup {i}
          /\ UNCHANGED <<note, faults>>
       \/ /\ spoiled' = spoiled \cup {i}
          /\ Fault("issue")
          /\ UNCHANGED note
    /\ UNCHANGED <<resp, ret, returnedQty>>

-----------------------------------------------------------------------------
(* CustomerRespondDeliveryRequest *)

\* GetDeliveryNote, the ownership check and normalizeCustomerDeliveryDecision.
\* Whether the remarks to write are the ones just read is settled here too.
RespondRead(q, n) ==
    /\ resp[q].pc = "idle"
    /\ ReplyOverlap \/ \A p \in Responses : resp[p].note = n => ~ Responding(p)
    /\ \E d \in Answers(n) :
          resp' = [resp EXCEPT ![q] =
                     [pc |-> IF d.returned > 0 THEN "decided" ELSE "settled",
                      note |-> n, plan |-> d, same |-> d = note[n].remarks]]
    /\ UNCHANGED <<issue, note, ret, returnedQty, faults, spoiled>>

\* No such note, not the customer's note, wrong status or invalid input.
RespondRefuse(q, n) ==
    /\ resp[q].pc = "idle"
    /\ {} \in {Decisions(n, r) : r \in Request(n)}
    /\ GoResp(q, "refused")
    /\ UNCHANGED <<issue, note, ret, returnedQty, faults, spoiled>>

\* make_sales_return and the insert of the mapped document.  ERPNext may refuse
\* an empty document, or one of more than is left: that is a failure like others.
RespondInsertReturn(q) ==
    /\ resp[q].pc = "decided"
    /\ \/ /\ ret' = [ret EXCEPT ![q] = [doc |-> "draft", qty |-> ReturnQty(q)]]
          /\ GoResp(q, "inserted")
          /\ UNCHANGED faults
       \/ /\ ret' \in {ret, [ret EXCEPT ![q] = [doc |-> "draft", qty |-> ReturnQty(q)]]}
          /\ GoResp(q, "failed")
          /\ Fault("reply")
    /\ UNCHANGED <<issue, note, returnedQty, spoiled>>

\* ERPNext adds a submitted return to the note's returned quantity.
ReturnBooked(q) ==
    /\ ret' = [ret EXCEPT ![q].doc = "submitted"]
    /\ returnedQty' = [returnedQty EXCEPT ![resp[q].note] = @ + ret[q].qty]

RespondSubmitReturn_IgnoresError(q) ==
    /\ resp[q].pc = "inserted"
    /\ GoResp(q, "settled")
    /\ \/ /\ ReturnBooked(q)
          /\ UNCHANGED faults
       \/ /\ UNCHANGED <<ret, returnedQty>>
          /\ Fault("reply")
    /\ UNCHANGED <<issue, note, spoiled>>

\* The submit of the return note.  A draft left behind by a failure stays.
RespondSubmitReturn(q) ==
    /\ resp[q].pc = "inserted"
    /\ \/ /\ ReturnBooked(q)
          /\ GoResp(q, "settled")
          /\ UNCHANGED faults
       \/ /\ ReturnBooked(q) \/ UNCHANGED <<ret, returnedQty>>
          /\ GoResp(q, "failed")
          /\ Fault("reply")
    /\ UNCHANGED <<issue, note, spoiled>>

\* UpdateDeliveryNoteRemarks.  It can be skipped only when the remarks are the
\* ones read before; a different reason text makes them differ all the same.
Noted(q) == [note EXCEPT ![resp[q].note].remarks = resp[q].plan]

RespondRemarks(q) ==
    /\ resp[q].pc = "settled"
    /\ \/ /\ note' = Noted(q)
          /\ GoResp(q, "noted")
          /\ UNCHANGED faults
       \/ /\ note' \in {note, Noted(q)}
          /\ GoResp(q, "failed")
          /\ Fault("reply")
    /\ UNCHANGED <<issue, ret, returnedQty, spoiled>>

RespondSkipRemarks_IfAny(q) ==
    /\ resp[q].pc = "settled"
    /\ note[resp[q].note].remarks # NoDecision
    /\ GoResp(q, "noted")
    /\ UNCHANGED <<issue, note, ret, returnedQty, faults, spoiled>>

RespondSkipRemarks(q) ==
    /\ resp[q].pc = "settled"
    /\ resp[q].same
    /\ GoResp(q, "noted")
    /\ UNCHANGED <<issue, note, ret, returnedQty, faults, spoiled>>

\* UpdateDeliveryNoteState, without another look at the note.
Answered_WithLabel(q) ==
    [note EXCEPT ![resp[q].note].cstate =
        IF resp[q].plan.cstate = "confirmed" THEN "accepted" ELSE resp[q].plan.cstate]

Answered(q) == [note EXCEPT ![resp[q].note].flow = "submitted",
                            ![resp[q].note].cstate = resp[q].plan.cstate]

RespondState(q) ==
    /\ resp[q].pc = "noted"
    /\ \/ /\ note' = Answered(q)
          /\ GoResp(q, "answered")
          /\ UNCHANGED faults
       \/ /\ note' \in {note, Answered(q)}
          /\ GoResp(q, "failed")
          /\ Fault("reply")
    /\ UNCHANGED <<issue, ret, returnedQty, spoiled>>

-----------------------------------------------------------------------------
\* The server dies with everything in flight; nothing resumes after a restart.
Crash ==
    /\ faults.crash < MaxCrashes
    /\ faults' = [faults EXCEPT !.crash = @ + 1]
    /\ spoiled' = spoiled \cup {i \in Issues : Issuing(i)}
    /\ issue' = [i \in Issues |->
                   IF Issuing(i) THEN [issue[i] EXCEPT !.pc = "failed"] ELSE issue[i]]
    /\ resp' = [q \in Responses |->
                   IF Responding(q) THEN [resp[q] EXCEPT !.pc = "failed"] ELSE resp[q]]
    /\ UNCHANGED <<note, ret, returnedQty>>

IssueStep(i) ==
    IssueCreate(i) \/ IssueMark(i) \/ IssueSubmit(i) \/ IssueCleanup(i)

RespondStep(q) ==
    \/ RespondInsertReturn(q) \/ RespondSubmitReturn(q)
    \/ RespondRemarks(q) \/ RespondSkipRemarks(q) \/ RespondState(q)

Next ==
    \/ \E i \in Issues : IssueCheck(i) \/ IssueAbort(i) \/ IssueStep(i)
    \/ \E q \in Responses : RespondStep(q)
    \/ \E q \in Responses, n \in Issues : RespondRead(q, n) \/ RespondRefuse(q, n)
    \/ Crash

Spec == Init /\ [][Next]_vars

\* A handler that has started keeps running: each of its calls has a timeout.
\* Nothing obliges a user to send a request.
Fairness ==
    /\ \A i \in Issues : WF_vars(IssueStep(i))
    /\ \A q \in Responses : WF_vars(RespondStep(q))

FairSpec == Spec /\ Fairness
-----------------------------------------------------------------------------
(* Properties *)

\* Every variable holds a value of its kind.
TypeOK ==
    /\ issue \in [Issues -> IssueRequest]
    /\ note \in [Issues -> DeliveryNote]
    /\ resp \in [Responses -> Response]
    /\ ret \in [Responses -> ReturnNote]
    /\ returnedQty \in [Issues -> Nat]
    /\ faults \in [{"issue", "reply", "crash"} -> Nat]
    /\ spoiled \subseteq Issues

\* A note that reaches the customer carries its mobile state: the state is
\* written on the draft, and a note whose state write failed is not submitted.
SubmittedNoteIsMarked ==
    \A n \in Issues : note[n].doc = "submitted" =>
        note[n].flow = "submitted" /\ note[n].cstate # "none"

\* Rejecting is never a flip of the status alone: a note is shown rejected or
\* partial only when a response that decided so has submitted its return note,
\* whatever else raced it or failed.
ReturnedStateHasReturn ==
    \A n \in Issues : note[n].cstate \in {"rejected", "partial"} =>
        \E q \in Responses : /\ resp[q].note = n
                             /\ resp[q].plan.cstate = note[n].cstate
                             /\ ret[q].doc = "submitted"

\* Remarks that record a return are those of a response whose return note is
\* submitted, ERPNext has at least that much booked as returned, to the tolerance,
\* and with the accepted quantity they account for the whole delivery.  A whole
\* return that follows a partial one, whose remarks failed or were overtaken,
\* takes back only what that one left, so the booked total is what counts.
RecordedReturnIsReal ==
    \A n \in Issues : LET said == note[n].remarks IN said.returned > 0 =>
        /\ \E q \in Responses : /\ resp[q].note = n
                                /\ resp[q].plan = said
                                /\ ret[q].doc = "submitted"
        /\ returnedQty[n] >= said.returned - Tol
        /\ Near(said.accepted + said.returned, issue[n].qty)

\* Nothing is ever returned against a draft, so the cleanup of a failed issue
\* never deletes a note that a return note refers to.
ReturnsHaveTheirNote ==
    \A q \in Responses : ret[q].doc # "none" => note[resp[q].note].doc = "submitted"

\* What the customer is shown, what the remarks say and what ERPNext holds agree on
\* every return, at every moment of every race, failure and restart.
ReturnsAgree ==
    /\ ReturnedStateHasReturn
    /\ RecordedReturnIsReal
    /\ ReturnsHaveTheirNote

\* An issue request that reports failure leaves no note behind, draft or
\* submitted, unless a reply was lost, the cleanup failed or the server died.
FailedIssueLeavesNothing ==
    \A i \in Issues : issue[i].pc = "failed" /\ i \notin spoiled => ~ InErp(i)

\* No step of any request takes an answered note back to pending or to a draft:
\* the issuing request is done with the note before the customer can answer.
AnswerNeverWithdrawn ==
    [][\A n \in Issues : Status(n) \in {"accepted", "partial", "rejected"} =>
                            Status(n)' \in {"accepted", "partial", "rejected"}]_vars

\* One barcode or stock entry line is issued once: no two notes in ERPNext carry
\* the same source marker.
OneNotePerSource ==
    \A i, j \in Issues : /\ InErp(i) /\ InErp(j)
                         /\ issue[i].key = issue[j].key
                         /\ issue[i].key # NoKey
                         => i = j

\* Once no response is at work on it, a confirmed note has no return note.
ConfirmedHasNoReturn ==
    \A n \in Issues :
        /\ Status(n) = "accepted"
        /\ \A q \in Responses : resp[q].note = n => ~ Responding(q)
        => \A q \in Responses : resp[q].note = n => ret[q].doc = "none"

\* Without a fault of ERPNext, what a response decided is what the note shows in
\* the end.
DecisionIsShown ==
    \A q \in Responses : Responding(q) ~>
        \E n \in Issues : /\ n = resp[q].note
                          /\ note[n].cstate = resp[q].plan.cstate
                          /\ note[n].remarks = resp[q].plan

\* An issue request that has started settles: the customer sees the note, or the
\* note is gone, or the outcome was out of the handler's hands.
IssueSettles ==
    \A i \in Issues : Issuing(i) ~>
        \/ Status(i) # "draft"
        \/ issue[i].pc = "failed" /\ (~ InErp(i) \/ i \in spoiled)

\* Every request that was taken up has its effect in the end.
RequestsTakeEffect == DecisionIsShown /\ IssueSettles
=============================================================================
