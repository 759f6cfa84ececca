----------------------------- MODULE MCSession -----------------------------
(* Small instances of Session for TLC. *)
EXTENDS Session, TLC

CONSTANTS r1, r2, r3, i1, i2, h0, h1, h2, p0, p1, p2, ns0, ns1, NS1

Blank(k) == [kind |-> k, host |-> None, port |-> None, ns |-> None]
Connect(h, p, n) == [kind |-> "connect", host |-> h, port |-> p, ns |-> n]

\* Two servers to connect to, one of them also with a mistyped port.
MCForms ==
  { Connect(h1, p1, ns1), Connect(h2, p2, None), Connect(h2, BadPort, None),
    [Blank("change_namespace") EXCEPT !.ns = ns1],
    Blank("query"), [Blank("query") EXCEPT !.ns = NS1],
    Blank("command"), Blank("table") }

\* For three requests: what it takes to race at start-up, to overlap two
\* connects and to see the result.
FewForms ==
  { Connect(h1, p1, ns1), Connect(h2, p2, None), Blank("query") }

\* Two requests of any forms, or three of these.
TwoOrFew ==
  \/ \E r \in Requests : ~Arrived(r)
  \/ \A r \in Requests : form[r] \in FewForms

MCUpper == [n \in {ns0, ns1, NS1} |-> IF n = ns1 THEN NS1 ELSE n]
TwoRequests == {r1, r2}
MCRequests == {r1, r2, r3}
Ids == {i1, i2}
Symmetry == Permutations(MCRequests) \cup Permutations(Ids)
=============================================================================
