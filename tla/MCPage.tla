------------------------------- MODULE MCPage -------------------------------
(* Small instances of Page for TLC. *)
EXTENDS Page, TLC

CONSTANTS h1, h2, p1, p2, n1, n2, r1, r2

MCTerminals == <<"t1", "t2", "t3">>
Here == [host |-> h1, port |-> p1, ns |-> n1]

Filling(h, p, n) == [kind |-> "connect", host |-> h, port |-> p, ns |-> n]
MCForms == {Filling(h1, p1, n1), Filling(h2, p2, None), Filling(h2, BadPort, n2),
            Filling(None, p2, n1)}

(* Queries, closed tabs and connects share no variable but keylock: a       *)
(* behaviour has one of the three.                                         *)
OneAtATime ==
  LET connected == config = "done" \/ blame # {} \/ \E r \in Connects : connects[r] # "unused"
  IN  /\ queries # <<>> => ~connected
      /\ connected => opened = {Terminals[1]} /\ tabs = Terminals

Symmetry == Permutations({r1, r2})
=============================================================================
