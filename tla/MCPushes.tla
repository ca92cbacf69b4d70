------------------------------ MODULE MCPushes ------------------------------
(* Pushes with model values for TLC. *)
EXTENDS Pushes

CONSTANTS t1, t2, s1, c1, h1

MCTokens == {t1, t2}
MCSuppliers == {s1}
MCCustomers == {c1}
MCRequests == {h1}
MCLines == 1 .. 3
=============================================================================
