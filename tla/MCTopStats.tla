----------------------------- MODULE MCTopStats -----------------------------
(* Small instances of TopStats for TLC. *)
EXTENDS TopStats, TLC

CONSTANTS p1, p2, a, b

TwoPollers == {p1, p2}
Symmetry == Permutations(TwoPollers)
=============================================================================
