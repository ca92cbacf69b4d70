---------------------------- MODULE ReceiptLedger ----------------------------
(***************************************************************************)
(* What a supplier and the warehouse expect of a receipt, whatever calls   *)
(* and documents it takes: it is announced with a quantity; what nobody    *)
(* had announced is offered to the supplier, who may decline it; and it is *)
(* settled once, with a part of what was sent.  Settled and declined are   *)
(* final.                                                                  *)
(***************************************************************************)
EXTENDS Integers

CONSTANTS
    Receipts,  \* the receipts
    Sent       \* the quantities that can be announced

VARIABLE entry   \* entry[r]: status, the quantity sent and the quantity kept

Absent == [status |-> "absent", sent |-> 0, got |-> 0]

Init == entry = [r \in Receipts |-> Absent]

Announce(r, x) ==
    /\ entry[r] = Absent
    /\ entry' = [entry EXCEPT ![r] = [status |-> "sent", sent |-> x, got |-> 0]]

Offer(r) ==
    /\ entry[r].status = "sent"
    /\ entry' = [entry EXCEPT ![r].status = "offered"]

Decline(r) ==
    /\ entry[r].status = "offered"
    /\ entry' = [entry EXCEPT ![r].status = "declined"]

Settle(r, x) ==
    /\ entry[r].status \in {"sent", "offered"}
    /\ x \in 0 .. entry[r].sent
    /\ entry' = [entry EXCEPT ![r] = [status |-> "settled", sent |-> @.sent, got |-> x]]

Next ==
    \E r \in Receipts :
        \/ \E x \in Sent : Announce(r, x)
        \/ Offer(r) \/ Decline(r)
        \/ \E x \in 0 .. entry[r].sent : Settle(r, x)

Spec == Init /\ [][Next]_entry
=============================================================================
