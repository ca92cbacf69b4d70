---------------------------- MODULE DeliveryLists ----------------------------
(***************************************************************************)
(* Delivery notes in what customers and Werka are shown, computed from the *)
(* documents over HTTP (Http...) or by the direct database reader (Db...). *)
(* To ERPNext a return note is a delivery note too: of the same customer,  *)
(* with a negative quantity.  A list is the set of its documents; order,   *)
(* paging and limits are left out.                                         *)
(***************************************************************************)
EXTENDS CustomerDelivery

Note(n) == [of |-> n, returns |-> FALSE]
Return(q) == [of |-> q, returns |-> TRUE]

\* Every delivery note in ERPNext.
Documents ==
    {Note(n) : n \in {i \in Issues : InErp(i)}}
        \cup {Return(q) : q \in {p \in Responses : ret[p].doc # "none"}}

Submitted(x) ==
    IF x.returns THEN ret[x.of].doc = "submitted" ELSE note[x.of].doc = "submitted"

\* The custom fields are created with no_copy, so ERPNext does not copy them
\* from a note to its return note.
Flow(x) == IF x.returns THEN "none" ELSE note[x.of].flow

CustomerOf(x) == issue[IF x.returns THEN resp[x.of].note ELSE x.of].cust

\* The quantity of the document, and the part of it ERPNext knows as returned.
Qty(x) == IF x.returns THEN - ret[x.of].qty ELSE issue[x.of].qty

ReturnedQty(x) == IF x.returns THEN 0 ELSE returnedQty[x.of]

AtLeast0(a) == IF a > 0 THEN a ELSE 0

-----------------------------------------------------------------------------
(* One document, on both paths *)

Visible_AnyFlow(x) == Submitted(x)

\* customerDeliveryVisible; the reader's deliveryVisible is the same.
Visible(x) == Submitted(x) /\ Flow(x) = "submitted"

\* customerDeliveryStatus; the reader's deliveryStatus is the same.
StatusShown(x) ==
    IF ~ Submitted(x) THEN "draft" ELSE IF x.returns THEN "pending" ELSE Status(x.of)

\* Over HTTP the quantities are the ones in the remarks and, failing those, what
\* ERPNext knows as returned.
HttpAccepted(x) ==
    LET said == IF x.returns THEN NoDecision ELSE note[x.of].remarks
        back == IF said.returned > 0 THEN said.returned ELSE ReturnedQty(x)
    IN  CASE StatusShown(x) = "accepted" -> IF said.accepted > 0 THEN said.accepted ELSE Qty(x)
          [] StatusShown(x) = "rejected" -> 0
          [] StatusShown(x) = "partial" /\ said.accepted <= 0 /\ back > 0 ->
                AtLeast0(Qty(x) - back)
          [] OTHER -> said.accepted

\* The reader does not look at the remarks.
DbAccepted(x) ==
    CASE StatusShown(x) = "accepted" -> Qty(x)
      [] StatusShown(x) = "partial"  ->
            AtLeast0(Qty(x) - (IF ReturnedQty(x) > 0 THEN ReturnedQty(x) ELSE AtLeast0(Qty(x))))
      [] OTHER -> 0

-----------------------------------------------------------------------------
(* The customer's lists *)

Answer == {"pending", "accepted", "returned"}

\* The status a record is counted under: a partial one is a rejected one.
AnswerOf(x) ==
    CASE StatusShown(x) = "accepted"              -> "accepted"
      [] StatusShown(x) \in {"partial", "rejected"} -> "returned"
      [] OTHER                                    -> "pending"

\* collectCustomerDeliveryNotes: all the customer's documents.
Collected(c) == {x \in Documents : CustomerOf(x) = c}

CustomerHistory(c) == {x \in Collected(c) : Visible(x)}

CustomerStatusDetails(c, kind) ==
    {x \in Collected(c) : /\ Visible(x)
                          /\ StatusShown(x) \in (IF kind = "returned"
                                                   THEN {"partial", "rejected"} ELSE {kind})}

CustomerSummary(c) ==
    [a \in Answer |-> Cardinality({x \in Collected(c) : Visible(x) /\ AnswerOf(x) = a})]

DbCustomerSummary(c) ==
    LET rows == {x \in Documents : CustomerOf(x) = c}
    IN  [a \in Answer |-> Cardinality({x \in rows : Visible(x) /\ AnswerOf(x) = a})]

\* The ways to answer that the page of one note offers.
CustomerDeliveryDetail(n) ==
    CASE Status(n) = "pending"  -> {"accept_all", "reject_all", "accept_partial"}
      [] Status(n) = "accepted" -> {"claim_after_accept"}
      [] OTHER                  -> {}

-----------------------------------------------------------------------------
(* Werka's lists *)

\* collectWerkaCustomerDeliveryRecords goes through the customers.
WerkaRecords == UNION {CustomerHistory(c) : c \in Customers}

WerkaCounts == [a \in Answer |-> Cardinality({x \in WerkaRecords : AnswerOf(x) = a})]

DbWerkaCounts ==
    [a \in Answer |-> Cardinality({x \in Documents : Visible(x) /\ AnswerOf(x) = a})]

\* customerResultEvents: an event per answered note, in Werka's history.  They
\* are built from the status alone.
ResultEvents(set) == {x \in set : StatusShown(x) \in {"accepted", "partial", "rejected"}}

WerkaEvents == ResultEvents(UNION {Collected(c) : c \in Customers})

DbWerkaEvents == ResultEvents(Documents)

DbWerkaPending == {x \in Documents : Visible(x) /\ StatusShown(x) = "pending"}

\* The reader's breakdown and details do not ask whether a document is visible:
\* a draft and every return note is among the pending ones.
DbWerkaDetails(a) == {x \in Documents : AnswerOf(x) = a}

\* The archive of goods sent and of goods returned.
DbArchive(kind) ==
    {x \in Documents : Visible(x) /\ (kind = "sent" \/ AnswerOf(x) = "returned")}

\* What a document adds to the archive's totals.
ArchiveQty(kind, x) == IF kind = "returned" THEN AtLeast0(Qty(x) - DbAccepted(x)) ELSE Qty(x)

-----------------------------------------------------------------------------
(* Properties *)

\* The page of a note offers the answers the server would take, no fewer.
OffersTaken(n) ==
    {r.mode : r \in {x \in Request(n) : Decisions(n, x) # {}}} = CustomerDeliveryDetail(n)

\* The lists are computed apart and agree.  A customer's counts, lists and
\* history are about the same notes, on both paths, and never about a return
\* note; Werka's counts are those of all customers; exactly the answered notes
\* have an event.  Once nobody is at work on a note both paths show the same
\* accepted quantity, one from the remarks and one from the return notes (to twice
\* the tolerance: within it a decision may add up to more than was sent, and then
\* its return is made for the whole quantity), and the archive has as much coming
\* back as the return notes do.  And the page of a note offers the answers the server takes.
DeliveryListsAgree ==
    /\ \A c \in Customers :
          /\ \A a \in Answer :
                CustomerSummary(c)[a] = Cardinality(CustomerStatusDetails(c, a))
          /\ CustomerSummary(c) = DbCustomerSummary(c)
          /\ \A x \in CustomerHistory(c) : Qty(x) > 0
    /\ WerkaCounts = DbWerkaCounts
    /\ DbWerkaPending = {x \in WerkaRecords : AnswerOf(x) = "pending"}
    /\ WerkaEvents = DbWerkaEvents
    /\ WerkaEvents = {x \in WerkaRecords : AnswerOf(x) # "pending"}
    /\ DbArchive("returned") \subseteq DbWerkaDetails("returned")
    /\ \A x \in WerkaRecords :
          /\ OffersTaken(x.of)
          /\ (\A q \in Responses : resp[q].note = x.of => ~ Responding(q)) =>
                /\ HttpAccepted(x) - DbAccepted(x) \in -2 * Tol .. 2 * Tol
                /\ x \in DbArchive("returned") => Near(ArchiveQty("returned", x), ReturnedQty(x))
=============================================================================
