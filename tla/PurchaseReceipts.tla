--------------------------- MODULE PurchaseReceipts ---------------------------
(***************************************************************************)
(* A purchase receipt from the moment it is announced until somebody has   *)
(* decided on it.  As in CustomerDelivery each step of a handler is one    *)
(* call to ERPNext, and steps of different requests interleave:            *)
(*                                                                         *)
(*   CreateDispatch               a supplier announces goods: insert a     *)
(*                                draft, read it back;                     *)
(*   CreateWerkaUnannouncedDraft  a Werka user received goods nobody       *)
(*                                announced: the same, then tag the draft  *)
(*                                "pending" in its remarks;                *)
(*   ConfirmReceipt               a Werka user accepts and returns         *)
(*                                quantities: read the document, write it  *)
(*                                back changed, submit it, and after a     *)
(*                                failed submit write back what was read;  *)
(*   RespondWerkaUnannouncedDraft the supplier approves (tag, then confirm *)
(*                                the whole) or rejects (tag) such a draft;*)
(*   AddNotificationComment       the supplier acknowledges a decision: a  *)
(*                                comment, then a line in the remarks.     *)
(*                                                                         *)
(* A receipt is named by the request that creates it.  Of ERPNext it is    *)
(* assumed: a call that fails may have had its effect or not; a document   *)
(* that is not a draft keeps its quantities; the write of one field does   *)
(* not look at the document's time stamp, and the write or submit of a     *)
(* whole document does when Stamped; a cancelled document is not changed.  *)
(***************************************************************************)
EXTENDS ReceiptDocs, FiniteSets

CONSTANTS
    Receipts,   \* creating requests, and the receipts they create
    Replies,    \* confirm, respond and acknowledge requests
    None,       \* the receipt of a reply that has not read one
    Sent,       \* the quantities that are announced
    Amounts,    \* the quantities a confirm request may carry
    Overlap,    \* may requests about one receipt overlap?
    FromList,   \* do users act only on receipts the HTTP lists offer them?
    Stamped,    \* does ERPNext refuse a whole document with an old stamp?
    MaxFaults,  \* bound on failed calls
    MaxCrashes  \* bound on crashes of the server

ASSUME ReceiptConstants ==
    /\ None \notin Receipts
    /\ Sent \subseteq Nat \ {0}
    /\ Amounts \subseteq Int
    /\ {Overlap, FromList, Stamped} \subseteq BOOLEAN
    /\ {MaxFaults, MaxCrashes} \subseteq Nat

VARIABLES
    doc,     \* doc[r]: the receipt in ERPNext
    make,    \* make[r]: the request that creates r
    req,     \* req[q]: a reply, with the copies of the document it holds
    heard,   \* receipts with an acknowledgement among their comments
    faults   \* how many calls have failed, how often the server crashed

vars == <<doc, make, req, heard, faults>>

MakePCs == {"idle", "inserted", "read", "done", "refused", "failed"}

\* offered: an unannounced receipt.  read: the remarks as read back.
Making == [pc : MakePCs, offered : BOOLEAN, read : Remarks]

ReplyPCs == {"idle", "returning", "deciding", "written", "latest", "undoing",
             "approving", "approved", "rejecting", "said", "acking",
             "done", "refused", "failed"}

\* acc and ret are the quantities of a confirm.  seen: the document as it was
\* read first; latest: as it was read before the submit.  fresh: the document
\* has not been changed since it was last read.  tries: submits attempted.
Reply == [pc : ReplyPCs, on : Receipts \cup {None}, confirms : BOOLEAN,
          acc : Int, ret : Int, seen : Receipt, latest : Receipt,
          fresh : BOOLEAN, tries : 0 .. 1]

NoReply == [pc |-> "idle", on |-> None, confirms |-> FALSE, acc |-> 0, ret |-> 0,
            seen |-> NoReceipt, latest |-> NoReceipt, fresh |-> FALSE, tries |-> 0]

Ended == {"idle", "done", "refused", "failed"}

Creating(r) == make[r].pc \notin Ended
Working(q) == req[q].pc \notin Ended

\* Nobody is at work on r, where requests do not overlap.
Free(r) ==
    \/ Overlap
    \/ ~ Creating(r) /\ \A q \in Replies : Working(q) => req[q].on # r

\* A write to r makes the copies of it that requests hold outdated.
Outdated(r) ==
    [q \in Replies |-> IF req[q].on = r THEN [req[q] EXCEPT !.fresh = FALSE] ELSE req[q]]

\* The request is over; its copies of the document are gone.
Over(q, pc) ==
    [req[q] EXCEPT !.pc = pc, !.seen = NoReceipt, !.latest = NoReceipt,
                   !.fresh = FALSE, !.tries = 0]

Fault == /\ faults.calls < MaxFaults
         /\ faults' = [faults EXCEPT !.calls = @ + 1]

\* A write by q that turns its document into new: it is answered and q goes on
\* as next; or it is refused, or fails with or without its effect, and q goes on
\* as otherwise.
Written(q, new, then) ==
    /\ doc' = [doc EXCEPT ![req[q].on] = new]
    /\ req' = [Outdated(req[q].on) EXCEPT ![q] = then]

WriteBy(q, allowed, new, next, otherwise) ==
    \/ allowed /\ Written(q, new, next) /\ UNCHANGED faults
    \/ /\ ~ allowed
       /\ req' = [req EXCEPT ![q] = otherwise]
       /\ UNCHANGED <<doc, faults>>
    \/ /\ Fault
       /\ \/ allowed /\ Written(q, new, otherwise)
          \/ req' = [req EXCEPT ![q] = otherwise] /\ UNCHANGED doc

\* ERPNext lets the remarks of a document be written unless it is cancelled.
Writable(d) == d.state \in {"draft", "submitted"}

Init ==
    /\ doc = [r \in Receipts |-> NoReceipt]
    /\ make = [r \in Receipts |-> [pc |-> "idle", offered |-> FALSE, read |-> NoRemarks]]
    /\ req = [q \in Replies |-> NoReply]
    /\ heard = {}
    /\ faults = [calls |-> 0, crashes |-> 0]

-----------------------------------------------------------------------------
(* CreateDispatch and CreateWerkaUnannouncedDraft *)

\* The look-ups fail, the item is not the supplier's, or nothing is sent.
CreateRefuse(r) ==
    /\ make[r].pc = "idle"
    /\ make' = [make EXCEPT ![r].pc = "refused"]
    /\ UNCHANGED <<doc, req, heard, faults>>

\* CreateDraftPurchaseReceipt posts the draft.
CreateInsert(r) ==
    /\ make[r].pc = "idle"
    /\ \E x \in Sent, offered \in BOOLEAN :
          \/ /\ doc' = [doc EXCEPT ![r] = NewReceipt(x)]
             /\ make' = [make EXCEPT ![r].pc = "inserted", ![r].offered = offered]
             /\ UNCHANGED faults
          \/ /\ doc' \in {doc, [doc EXCEPT ![r] = NewReceipt(x)]}
             /\ make' = [make EXCEPT ![r].pc = "failed", ![r].offered = offered]
             /\ Fault
    /\ UNCHANGED <<req, heard>>

\* The read of the new draft, whose failure fails the request.
CreateReadBack(r) ==
    /\ make[r].pc = "inserted"
    /\ \/ /\ make' = [make EXCEPT ![r].pc = IF make[r].offered THEN "read" ELSE "done",
                                  ![r].read = doc[r].remarks]
          /\ UNCHANGED faults
       \/ /\ make' = [make EXCEPT ![r].pc = "failed"]
          /\ Fault
    /\ UNCHANGED <<doc, req, heard>>

\* The remarks are written as they were read back, with the tag added.  A
\* comment follows whose failure is ignored.
CreateTag(r) ==
    /\ make[r].pc = "read"
    /\ LET tagged == [doc EXCEPT ![r].remarks = Tagged(make[r].read, "pending")]
       IN  \/ /\ Writable(doc[r])
              /\ doc' = tagged
              /\ req' = Outdated(r)
              /\ make' = [make EXCEPT ![r].pc = "done"]
              /\ UNCHANGED faults
           \/ /\ make' = [make EXCEPT ![r].pc = "failed"]
              /\ ~ Writable(doc[r]) /\ UNCHANGED <<doc, req, faults>>
           \/ /\ make' = [make EXCEPT ![r].pc = "failed"]
              /\ Fault
              /\ \/ Writable(doc[r]) /\ doc' = tagged /\ req' = Outdated(r)
                 \/ UNCHANGED <<doc, req>>
    /\ UNCHANGED heard

-----------------------------------------------------------------------------
(* ConfirmReceipt: ConfirmAndSubmitPurchaseReceipt *)

\* What Werka's list of pending receipts shows (WerkaStatusDetails).
Listed(d) ==
    /\ d.state # "none"
    /\ ~ Stale(d)
    /\ HttpEvent(d) = "none"
    /\ Matches(HttpRecord(d), "pending")

FullReturn_NothingAccepted(sent, acc, ret) == acc = 0 /\ sent > 0

\* The whole is returned: nothing is booked, the draft is only annotated.
FullReturn(sent, acc, ret) == acc = 0 /\ ret >= sent /\ sent > 0

\* Request q goes on to confirm r, which it has just read.
Deciding(r, acc, ret) ==
    [NoReply EXCEPT !.pc = IF FullReturn(ReadQty(doc[r]), acc, ret)
                             THEN "returning" ELSE "deciding",
                    !.on = r, !.confirms = TRUE, !.acc = acc, !.ret = ret,
                    !.seen = doc[r], !.fresh = TRUE]

ConfirmRead(q, r) ==
    /\ req[q].pc = "idle"
    /\ doc[r].state # "none"
    /\ Free(r)
    /\ FromList => Listed(doc[r])
    /\ \E acc, ret \in Amounts :
          /\ Acceptable(ReadQty(doc[r]), acc, ret)
          /\ req' = [req EXCEPT ![q] = Deciding(r, acc, ret)]
    /\ UNCHANGED <<doc, make, heard, faults>>

\* Invalid quantities, no such receipt, or a document that cannot be read.
ConfirmRefuse(q) ==
    /\ req[q].pc = "idle"
    /\ req' = [req EXCEPT ![q].pc = "refused"]
    /\ UNCHANGED <<doc, make, heard, faults>>

\* The remarks after the decision: without a note they are left as they were.
RemarksAfter(q) ==
    LET n == DecisionNote(ReadQty(req[q].seen), req[q].acc, req[q].ret)
    IN  IF n = NoNote THEN req[q].seen.remarks ELSE Decided(req[q].seen.remarks, n)

\* A full return: only the remarks are written, and the request is done.
ConfirmReturn(q) ==
    /\ req[q].pc = "returning"
    /\ LET d == doc[req[q].on]
       IN  WriteBy(q, Writable(d), [d EXCEPT !.remarks = RemarksAfter(q)],
                   Over(q, "done"), Over(q, "failed"))
    /\ UNCHANGED <<make, heard>>

\* May the whole document new be written where d is?
Accepts(d, new, fresh) ==
    /\ Writable(d)
    /\ Stamped => fresh
    /\ new.state = d.state
    /\ d.state = "submitted" => new.qty = d.qty /\ new.rejected = d.rejected

ConfirmWrite_IgnoresError(q) ==
    /\ req[q].pc = "deciding"
    /\ LET new == [req[q].seen EXCEPT !.qty = req[q].acc, !.rejected = req[q].ret,
                                      !.remarks = RemarksAfter(q)]
           next == [req[q] EXCEPT !.pc = "written", !.fresh = FALSE]
       IN  WriteBy(q, Accepts(doc[req[q].on], new, req[q].fresh), new, next, next)
    /\ UNCHANGED <<make, heard>>

\* The write of the changed document.  Before it, when something is returned, a
\* second warehouse is looked up; there may be none.  An error ends the request.
ConfirmWrite(q) ==
    /\ req[q].pc = "deciding"
    /\ LET new == [req[q].seen EXCEPT !.qty = req[q].acc, !.rejected = req[q].ret,
                                      !.remarks = RemarksAfter(q)]
       IN  WriteBy(q, Accepts(doc[req[q].on], new, req[q].fresh), new,
                   [req[q] EXCEPT !.pc = "written", !.fresh = FALSE],
                   Over(q, "failed"))
    /\ UNCHANGED <<make, heard>>

\* submitDoc reads the latest document ...
ConfirmLatest(q) ==
    /\ req[q].pc = "written"
    /\ \/ /\ req' = [req EXCEPT ![q].pc = "latest", ![q].latest = doc[req[q].on],
                                ![q].fresh = TRUE]
          /\ UNCHANGED faults
       \/ /\ req' = [req EXCEPT ![q].pc = "undoing"]
          /\ Fault
    /\ UNCHANGED <<doc, make, heard>>

\* A first submit that would be refused for its time stamp.
Mismatch(q) == Stamped /\ ~ req[q].fresh /\ req[q].tries = 0

ConfirmSubmit_IgnoresError(q) ==
    /\ req[q].pc = "latest"
    /\ ~ Mismatch(q)
    /\ LET new == [req[q].latest EXCEPT !.state = "submitted"]
       IN  WriteBy(q, Accepts(doc[req[q].on], req[q].latest, req[q].fresh), new,
                   Over(q, "done"), Over(q, "done"))
    /\ UNCHANGED <<make, heard>>

\* ... and submits it.  The submit of a submitted document changes nothing.
ConfirmSubmit(q) ==
    /\ req[q].pc = "latest"
    /\ ~ Mismatch(q)
    /\ LET new == [req[q].latest EXCEPT !.state = "submitted"]
       IN  WriteBy(q, Accepts(doc[req[q].on], req[q].latest, req[q].fresh), new,
                   Over(q, "done"), [req[q] EXCEPT !.pc = "undoing"])
    /\ UNCHANGED <<make, heard>>

\* A time stamp mismatch is worth one more attempt.
ConfirmRetry(q) ==
    /\ req[q].pc = "latest"
    /\ Mismatch(q)
    /\ req' = [req EXCEPT ![q].pc = "written", ![q].tries = 1]
    /\ UNCHANGED <<doc, make, heard, faults>>

\* The document as it was read first is written back, with its first stamp.
ConfirmUndo(q) ==
    /\ req[q].pc = "undoing"
    /\ WriteBy(q, Accepts(doc[req[q].on], req[q].seen, FALSE), req[q].seen,
               Over(q, "failed"), Over(q, "failed"))
    /\ UNCHANGED <<make, heard>>

-----------------------------------------------------------------------------
(* RespondWerkaUnannouncedDraft and AddNotificationComment *)

Reading(q, r, pc) ==
    req' = [req EXCEPT ![q] = [NoReply EXCEPT !.pc = pc, !.on = r, !.seen = doc[r],
                                             !.fresh = TRUE]]

RespondRead_AnyTag(q, r) ==
    /\ req[q].pc = "idle"
    /\ doc[r].state # "none"
    /\ Free(r)
    /\ doc[r].remarks.tag # "none"
    /\ Reading(q, r, "approving") \/ Reading(q, r, "rejecting")
    /\ UNCHANGED <<doc, make, heard, faults>>

\* The supplier's draft must be tagged pending; whether it still is a draft is
\* not looked at.
RespondRead(q, r) ==
    /\ req[q].pc = "idle"
    /\ doc[r].state # "none"
    /\ Free(r)
    /\ doc[r].remarks.tag = "pending"
    /\ Reading(q, r, "approving") \/ Reading(q, r, "rejecting")
    /\ UNCHANGED <<doc, make, heard, faults>>

\* The remarks read are written with the answer as their tag.
TagWrite(q, t, next) ==
    LET d == doc[req[q].on]
    IN  WriteBy(q, Writable(d), [d EXCEPT !.remarks = Tagged(req[q].seen.remarks, t)],
                next, Over(q, "failed"))

RespondReject(q) ==
    /\ req[q].pc = "rejecting"
    /\ TagWrite(q, "rejected", Over(q, "done"))
    /\ UNCHANGED <<make, heard>>

RespondApprove(q) ==
    /\ req[q].pc = "approving"
    /\ TagWrite(q, "approved", [req[q] EXCEPT !.pc = "approved"])
    /\ UNCHANGED <<make, heard>>

\* After the tag the whole is confirmed, from a new read of the document.
RespondConfirm(q) ==
    /\ req[q].pc = "approved"
    /\ LET sent == ReadQty(req[q].seen)
       IN  \/ /\ Acceptable(ReadQty(doc[req[q].on]), sent, 0)
              /\ req' = [req EXCEPT ![q] = Deciding(req[q].on, sent, 0)]
              /\ UNCHANGED faults
           \/ /\ ~ Acceptable(ReadQty(doc[req[q].on]), sent, 0)
              /\ req' = [req EXCEPT ![q] = Over(q, "failed")]
              /\ UNCHANGED faults
           \/ /\ req' = [req EXCEPT ![q] = Over(q, "failed")]
              /\ Fault
    /\ UNCHANGED <<doc, make, heard>>

AckSay_IgnoresError(q, r) ==
    /\ req[q].pc = "idle"
    /\ doc[r].state # "none"
    /\ Free(r)
    /\ FromList => doc[r].remarks.note # NoNote
    /\ req' = [req EXCEPT ![q] = [NoReply EXCEPT !.pc = "said", !.on = r]]
    /\ \/ heard' = heard \cup {r} /\ UNCHANGED faults
       \/ UNCHANGED heard /\ Fault
    /\ UNCHANGED <<doc, make>>

\* The supplier is told of a decision and answers it with a comment.
AckSay(q, r) ==
    /\ req[q].pc = "idle"
    /\ doc[r].state # "none"
    /\ Free(r)
    /\ FromList => doc[r].remarks.note # NoNote
    /\ \/ /\ heard' = heard \cup {r}
          /\ req' = [req EXCEPT ![q] = [NoReply EXCEPT !.pc = "said", !.on = r]]
          /\ UNCHANGED faults
       \/ /\ heard' \in {heard, heard \cup {r}}
          /\ req' = [req EXCEPT ![q] = [NoReply EXCEPT !.pc = "failed", !.on = r]]
          /\ Fault
    /\ UNCHANGED <<doc, make>>

AckRead(q) ==
    /\ req[q].pc = "said"
    /\ \/ Reading(q, req[q].on, "acking") /\ UNCHANGED faults
       \/ req' = [req EXCEPT ![q] = Over(q, "failed")] /\ Fault
    /\ UNCHANGED <<doc, make, heard>>

\* The line in the remarks is best effort: its failure is ignored.
AckWrite(q) ==
    /\ req[q].pc = "acking"
    /\ LET d == doc[req[q].on]
       IN  WriteBy(q, Writable(d), [d EXCEPT !.remarks = Acknowledged(req[q].seen.remarks)],
                   Over(q, "done"), Over(q, "done"))
    /\ UNCHANGED <<make, heard>>

-----------------------------------------------------------------------------
\* Somebody cancels a submitted receipt in ERPNext itself.
OfficeCancel(r) ==
    /\ doc[r].state = "submitted"
    /\ Free(r)
    /\ doc' = [doc EXCEPT ![r].state = "cancelled"]
    /\ req' = Outdated(r)
    /\ UNCHANGED <<make, heard, faults>>

\* The server dies with everything in flight; nothing resumes after a restart.
Crash ==
    /\ faults.crashes < MaxCrashes
    /\ faults' = [faults EXCEPT !.crashes = @ + 1]
    /\ make' = [r \in Receipts |->
                  IF Creating(r) THEN [make[r] EXCEPT !.pc = "failed"] ELSE make[r]]
    /\ req' = [q \in Replies |-> IF Working(q) THEN Over(q, "failed") ELSE req[q]]
    /\ UNCHANGED <<doc, heard>>

CreateStep(r) == CreateReadBack(r) \/ CreateTag(r)

ConfirmStep(q) ==
    \/ ConfirmReturn(q) \/ ConfirmWrite(q) \/ ConfirmLatest(q)
    \/ ConfirmSubmit(q) \/ ConfirmRetry(q) \/ ConfirmUndo(q)

RespondStep(q) ==
    \/ RespondReject(q) \/ RespondApprove(q) \/ RespondConfirm(q)
    \/ AckRead(q) \/ AckWrite(q)

ReplyStep(q) == ConfirmStep(q) \/ RespondStep(q)

Next ==
    \/ \E r \in Receipts :
          CreateRefuse(r) \/ CreateInsert(r) \/ CreateStep(r) \/ OfficeCancel(r)
    \/ \E q \in Replies, r \in Receipts :
          ConfirmRead(q, r) \/ RespondRead(q, r) \/ AckSay(q, r)
    \/ \E q \in Replies : ConfirmRefuse(q) \/ ReplyStep(q)
    \/ Crash

Spec == Init /\ [][Next]_vars

\* A handler that has started keeps running: each of its calls has a timeout.
Fairness ==
    /\ \A r \in Receipts : WF_vars(CreateStep(r))
    /\ \A q \in Replies : WF_vars(ReplyStep(q))

FairSpec == Spec /\ Fairness
-----------------------------------------------------------------------------
(* Properties *)

\* Every variable holds a value of its kind.
TypeOK ==
    /\ doc \in [Receipts -> Receipt]
    /\ make \in [Receipts -> Making]
    /\ req \in [Replies -> Reply]
    /\ heard \subseteq Receipts
    /\ faults \in [calls : Nat, crashes : Nat]

\* Whatever races or fails, no more is accepted than was sent, and of a receipt
\* accepted in part no more is rejected than the rest.  When all is accepted the
\* handler looks at no rejected quantity, and books whatever it was sent.
WithinSent ==
    \A r \in Receipts :
        /\ doc[r].qty \in 0 .. doc[r].sent
        /\ doc[r].qty < doc[r].sent =>
              doc[r].rejected \in 0 .. (doc[r].sent - doc[r].qty)

\* What is booked is what one request decided: its accepted and its rejected
\* quantity together, never half of it and never what the draft said before.
QuantityWasDecided ==
    \A r \in Receipts : doc[r].state \in {"submitted", "cancelled"} =>
        \E q \in Replies : /\ req[q].confirms /\ req[q].on = r
                           /\ req[q].acc = doc[r].qty
                           /\ req[q].ret = doc[r].rejected

\* An acknowledgement line in the remarks stands for a comment that exists: the
\* comment is posted first, whatever fails after it.
AckWasSaid == \A r \in Receipts : doc[r].remarks.acked => r \in heard

\* An unannounced receipt the supplier has rejected is not booked.
RejectedStaysOut ==
    \A r \in Receipts : doc[r].remarks.tag = "rejected" => doc[r].state = "draft"

\* The decision note shown beside a booked receipt is about what was booked, and
\* there is one whenever less was booked than was sent.
NoteTellsBooked ==
    \A r \in Receipts : doc[r].state \in {"submitted", "cancelled"} =>
        IF doc[r].qty < doc[r].sent
          THEN doc[r].remarks.note = DecisionNote(doc[r].sent, doc[r].qty, doc[r].rejected)
          ELSE doc[r].remarks.note = NoNote

\* As long as no call has failed, a receipt nobody has decided on is offered to
\* somebody: Werka's list shows it, or the supplier is asked about it.
NoneForgotten ==
    \A r \in Receipts :
        /\ doc[r].state = "draft"
        /\ faults.calls = 0
        /\ ~ Creating(r)
        /\ \A q \in Replies : req[q].on = r => ~ Working(q)
        => \/ Listed(doc[r]) \/ HttpEvent(doc[r]) = "unannounced_pending"
           \/ HttpStatus(doc[r]) = "cancelled"

\* What a confirm decided is in the receipt in the end, or the request failed:
\* booked with its quantities, or the whole noted as returned.
Held(q) ==
    \E r \in Receipts :
        /\ r = req[q].on
        /\ \/ /\ doc[r].state \in {"submitted", "cancelled"}
              /\ doc[r].qty = req[q].acc /\ doc[r].rejected = req[q].ret
           \/ /\ FullReturn(doc[r].sent, req[q].acc, req[q].ret)
              /\ HttpStatus(doc[r]) = "cancelled"

DecisionTakesHold ==
    \A q \in Replies : Working(q) /\ req[q].confirms ~> Held(q) \/ req[q].pc = "failed"
=============================================================================
