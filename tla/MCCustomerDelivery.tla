------------------------ MODULE MCCustomerDelivery ------------------------
(* CustomerDelivery with model values for TLC. *)
EXTENDS DeliveryRefinement, DeliveryLists, TLC

CONSTANTS i1, i2, q1, q2, c1, c2, k1

MCIssues == {i1, i2}
MCOneIssue == {i1}
MCResponses == {q1, q2}
MCCustomers == {c1, c2}
MCOneCustomer == {c1}
MCKeys == {k1}
MCSent == {4}
MCSmallSent == {3}

\* Requests, responses and customers are interchangeable.
MCSymmetry ==
    Permutations(MCIssues) \cup Permutations(MCResponses) \cup Permutations(MCCustomers)
=============================================================================
