-------------------------- MODULE MCSupplierAdmin --------------------------
(***************************************************************************)
(* Small instances of SupplierAdmin for TLC.                               *)
(***************************************************************************)
EXTENDS SupplierAdmin, TLC

CONSTANTS s1, k1, k2, i1, r1, r2

OneSupplier == {s1}
OneCustomer == {k1}
TwoCustomers == {k1, k2}
NoCustomers == {}
OneItem == {i1}
OneRequest == {r1}
TwoRequests == {r1, r2}

AllOps == {"block", "unblock", "remove", "restore", "regenerate", "phone", "assign",
           "unassign", "items"}
RaceOps == {"remove", "restore", "regenerate"}
CodeOps == {"block", "regenerate", "phone"}
\* The request slots are interchangeable; used where no liveness is checked.
Slots == Permutations(Requests)
=============================================================================
