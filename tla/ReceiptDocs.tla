----------------------------- MODULE ReceiptDocs -----------------------------
(***************************************************************************)
(* A purchase receipt as this server reads and writes it.  The quantity    *)
(* the supplier sent is kept in the marker supplier_delivery_note          *)
(* ("TG:phone:time:qty"); the decisions taken about the receipt are lines  *)
(* of the free text "remarks", which every writer reads, edits and writes  *)
(* back as a whole.  Of those lines the model keeps what the code reads    *)
(* out of them: the two quantities of the decision note, whether there is  *)
(* an acknowledgement line, and the state of an unannounced receipt.       *)
(*                                                                         *)
(* The second half says what the two read paths make of a receipt: the     *)
(* HTTP path (core) and the direct database reader (erpdb).  As in the     *)
(* other modules a definition Name_Variant is a mistake the properties     *)
(* must notice, and no part of the model.                                  *)
(***************************************************************************)
EXTENDS Integers

Split == [acc : Nat, ret : Nat]

NoNote == [acc |-> 0, ret |-> 0]

Tags == {"none", "pending", "approved", "rejected"}

Remarks == [note : Split, acked : BOOLEAN, tag : Tags]

NoRemarks == [note |-> NoNote, acked |-> FALSE, tag |-> "none"]

DocStates == {"none", "draft", "submitted", "cancelled"}

\* sent: the quantity in the marker.  qty and rejected: the first item's row.
Receipt == [state : DocStates, sent : Nat, qty : Int, rejected : Int,
            remarks : Remarks]

NoReceipt == [state |-> "none", sent |-> 0, qty |-> 0, rejected |-> 0,
              remarks |-> NoRemarks]

\* The document the create call posts: the whole quantity, a fresh marker.
NewReceipt(x) == [NoReceipt EXCEPT !.state = "draft", !.sent = x, !.qty = x]

MaxOf(a, b) == IF a > b THEN a ELSE b

\* A receipt read over HTTP: a quantity below the marker's is raised to it.
ReadQty(d) == MaxOf(d.qty, d.sent)

-----------------------------------------------------------------------------
(* Remarks *)

Acceptable_AnyReturn(sent, acc, ret) == acc \in 0 .. sent /\ ret >= 0

Acceptable_AnyAmount(sent, acc, ret) ==
    /\ acc >= 0
    /\ acc < sent => ret \in 0 .. (sent - acc)

Acceptable_Negative(sent, acc, ret) ==
    /\ acc \in 0 .. sent
    /\ acc < sent => ret <= sent - acc

\* Are these quantities a decision about what was sent?  What is returned is
\* not looked at when everything is accepted.
Acceptable(sent, acc, ret) ==
    /\ acc \in 0 .. sent
    /\ acc < sent => ret \in 0 .. (sent - acc)

\* The note about it; there is none when everything is accepted.  A returned
\* quantity that is not given counts as the rest in the note, and nowhere else.
DecisionNote(sent, acc, ret) ==
    IF acc = sent THEN NoNote
    ELSE [acc |-> acc, ret |-> IF ret = 0 THEN sent - acc ELSE ret]

\* A new decision replaces the old one and the acknowledgement of it.
Decided(rm, n) == [rm EXCEPT !.note = n, !.acked = FALSE]

Acknowledged(rm) == [rm EXCEPT !.acked = TRUE]

Tagged(rm, t) == [rm EXCEPT !.tag = t]

\* Is there anything a decision note is shown for?
HasNote(d) == d.remarks.note # NoNote \/ d.remarks.acked

ReturnedWhole(d) ==
    /\ d.remarks.note.acc = 0
    /\ d.remarks.note.ret >= ReadQty(d)
    /\ d.remarks.note.ret > 0

-----------------------------------------------------------------------------
(* What the HTTP path shows *)

StatusOf(sent, acc) ==
    IF acc <= 0 THEN "rejected"
    ELSE IF sent > 0 /\ acc < sent THEN "partial"
    ELSE "accepted"

\* The quantity is read by ReadQty here too, so that a submitted receipt is
\* compared with itself.
HttpStatus(d) ==
    CASE d.state = "draft" /\ (d.remarks.tag = "rejected" \/ ReturnedWhole(d)) -> "cancelled"
      [] d.state = "cancelled" -> "cancelled"
      [] d.state = "submitted" -> StatusOf(ReadQty(d), ReadQty(d))
      [] OTHER                 -> "draft"

HttpEvent(d) ==
    CASE d.state = "draft" /\ d.remarks.tag = "pending" -> "unannounced_pending"
      [] HttpStatus(d) = "accepted" /\ d.remarks.tag = "approved" -> "unannounced_approved"
      [] OTHER -> "none"

HttpRecord(d) ==
    [status   |-> HttpStatus(d),
     sent     |-> ReadQty(d),
     accepted |-> IF d.state = "submitted" THEN ReadQty(d) ELSE 0,
     event    |-> HttpEvent(d)]

Stale_TagOnly(d) == d.state = "draft" /\ d.remarks.tag = "rejected"

\* shouldHideStaleWerkaDraft
Stale(d) == d.state = "draft" /\ (d.remarks.tag = "rejected" \/ HasNote(d))

-----------------------------------------------------------------------------
(* What the database reader shows *)

DbStatus(d) ==
    CASE d.state = "cancelled" -> "cancelled"
      [] d.state = "submitted" -> StatusOf(MaxOf(d.qty, d.sent), d.qty)
      [] OTHER                 -> "draft"

\* classifyWerkaReceipt's second result: is it for the Werka lists at all?
DbIncluded(d) ==
    /\ ~ (d.state = "draft" /\ d.remarks.tag = "pending")
    /\ ~ (DbStatus(d) = "accepted" /\ d.remarks.tag = "approved")

DbRecord(d) ==
    [status   |-> DbStatus(d),
     sent     |-> MaxOf(d.qty, d.sent),
     accepted |-> IF DbStatus(d) \in {"accepted", "partial"} THEN d.qty ELSE 0,
     event    |-> "none"]

-----------------------------------------------------------------------------
(* The kinds a list may be asked for, the same on both paths *)

Kinds == {"pending", "confirmed", "returned"}

\* Werka's "confirmed" is the supplier's "submitted".
Matches(record, kind) ==
    record.status \in (CASE kind = "pending"   -> {"pending", "draft"}
                         [] kind = "confirmed" -> {"accepted"}
                         [] kind = "returned"  -> {"partial", "rejected", "cancelled"})
=============================================================================
