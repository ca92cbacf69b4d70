------------------------- MODULE DeliveryRefinement -------------------------
(***************************************************************************)
(* CustomerDelivery implements DeliveryLedger while the responses to one   *)
(* note do not overlap and no ERP call of a response fails.                *)
(***************************************************************************)
EXTENDS CustomerDelivery

\* A draft delivers nothing yet.
LedgerEntry(n) ==
    IF Status(n) = "draft"
      THEN [status |-> "draft", delivered |-> 0, returned |-> 0]
      ELSE [status |-> Status(n), delivered |-> issue[n].qty,
            returned |-> returnedQty[n]]

Ledger == INSTANCE DeliveryLedger
    WITH Deliveries <- Issues, Quantities <- Sent,
         entry <- [n \in Issues |-> LedgerEntry(n)]

\* Every step of the handlers is a step of the ledger or changes nothing in it:
\* goods go back at most once per delivery, before the status says so, and the
\* final status agrees with the quantity that went back.
LedgerSpec == Ledger!Spec
=============================================================================
