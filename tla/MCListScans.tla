---------------------------- MODULE MCListScans ----------------------------
(* ListScans with model values for TLC. *)
EXTENDS ListScans

CONSTANTS d1, d2, d3, d4, d5, s1

MCDocs == {d1, d2, d3, d4, d5}
MCScans == {s1}
MCSymmetry == Permutations(MCDocs)
=============================================================================
