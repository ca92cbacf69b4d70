-------------------------- MODULE ReceiptRefinement --------------------------
(* PurchaseReceipts implements ReceiptLedger when requests about one receipt *)
(* do not overlap and users act on what the lists offer them.                *)
EXTENDS PurchaseReceipts

\* Where the ledger would place draft d.
DraftStatus(d) ==
    IF d.remarks.tag = "rejected" THEN "declined"
    ELSE IF ReturnedWhole(d) THEN "settled"
    ELSE IF d.remarks.tag \in {"pending", "approved"} THEN "offered"
    ELSE "sent"

\* Where it would place document d.
EntryStatus(d) ==
    CASE d.state = "none"                       -> "absent"
      [] d.state = "draft"                      -> DraftStatus(d)
      [] d.state \in {"submitted", "cancelled"} -> "settled"

Ledger == INSTANCE ReceiptLedger WITH
    entry <- [r \in Receipts |->
        [status |-> EntryStatus(doc[r]),
         sent   |-> doc[r].sent,
         got    |-> IF doc[r].state \in {"submitted", "cancelled"}
                      THEN doc[r].qty ELSE 0]]

\* A receipt is settled or declined once and for good, with a part of what was
\* sent, whatever fails on the way.
LedgerSpec == Ledger!Spec
=============================================================================
