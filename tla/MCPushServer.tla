---------------------------- MODULE MCPushServer ----------------------------
(* Small instances of PushServer for TLC. *)
EXTENDS PushServer, TLC

CONSTANTS c1, c2, c3

TwoConns == {c1, c2}
ThreeConns == {c1, c2, c3}
Symmetry == Permutations(Conns)
=============================================================================
