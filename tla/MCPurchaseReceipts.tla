------------------------- MODULE MCPurchaseReceipts -------------------------
(* PurchaseReceipts, its lists and its refinement with model values for TLC. *)
EXTENDS ReceiptLists, ReceiptRefinement, TLC

CONSTANTS r1, r2, q1, q2

MCOneReceipt == {r1}
MCReceipts == {r1, r2}
MCReplies == {q1, q2}
MCSent == {2}
MCAmounts == -1 .. 3

\* Replies are interchangeable.
MCSymmetry == Permutations(MCReplies)
=============================================================================
