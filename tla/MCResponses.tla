---------------------------- MODULE MCResponses ----------------------------
(* Small instances of Responses for TLC. *)
EXTENDS Responses, SequencesExt

\* Two records of up to two cells of every kind, and three of plain cells.
Slices(cells) == BoundedSeq(cells, 2)
MCAnswers ==
  BoundedSeq(Slices([column : {"a", "b"}, kind : Kind]), 2)
    \cup BoundedSeq(Slices([column : {"a", "b", "c"}, kind : {"plain"}]), 3)

\* Up to four addresses of two nodes in two data centres.
MCGossips == BoundedSeq(GossipElement, 4) \cup {Unreachable}
=============================================================================
