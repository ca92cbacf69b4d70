----------------------------- MODULE MCSessions -----------------------------
(* Sessions with model values for TLC. *)
EXTENDS Sessions, TLC

CONSTANTS t1, t2, u1, u2, r1, r2

MCTokens == {t1, t2}
MCUsers == {u1, u2}
MCRequests == {r1, r2}
MCTTLs == {0, 1}

MCSymmetry == Permutations(MCTokens) \cup Permutations(MCUsers)
                \cup Permutations(MCRequests)
=============================================================================
