--------------------------- MODULE DeliveryLedger ---------------------------
(***************************************************************************)
(* What the delivery of goods to customers promises, without requests,     *)
(* calls or documents in progress: an entry per delivery with its status   *)
(* and the quantity taken back.  Goods are taken back at most once, before *)
(* the status says so, and the final status tells what became of them.     *)
(***************************************************************************)
EXTENDS Integers

CONSTANTS
    Deliveries,  \* the deliveries
    Quantities   \* the quantities that can be delivered, all positive

VARIABLE entry   \* entry[d]: status, delivered and returned quantity

Init == entry = [d \in Deliveries |->
                   [status |-> "draft", delivered |-> 0, returned |-> 0]]

Deliver(d) ==
    /\ entry[d].status = "draft"
    /\ \E x \in Quantities :
          entry' = [entry EXCEPT ![d] = [status |-> "pending", delivered |-> x,
                                         returned |-> 0]]

\* Goods come back while the delivery waits for its answer, or under a claim.
TakeBack(d) ==
    /\ entry[d].status \in {"pending", "accepted"}
    /\ entry[d].returned = 0
    /\ \E x \in 1 .. entry[d].delivered :
          entry' = [entry EXCEPT ![d].returned = x]

Accept(d) ==
    /\ entry[d].status = "pending"
    /\ entry[d].returned = 0
    /\ entry' = [entry EXCEPT ![d].status = "accepted"]

Reject(d) ==
    /\ entry[d].status \in {"pending", "accepted"}
    /\ entry[d].returned = entry[d].delivered
    /\ entry' = [entry EXCEPT ![d].status = "rejected"]

KeepPart(d) ==
    /\ entry[d].status \in {"pending", "accepted"}
    /\ entry[d].returned > 0
    /\ entry' = [entry EXCEPT ![d].status = "partial"]

Next == \E d \in Deliveries :
            Deliver(d) \/ TakeBack(d) \/ Accept(d) \/ Reject(d) \/ KeepPart(d)

Spec == Init /\ [][Next]_entry
=============================================================================
