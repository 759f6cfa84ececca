----------------------------- MODULE MCTerminal -----------------------------
(* Lines of two characters; one that starts with q is sent.  Of the lines  *)
(* typed, one of one character and one of two are entered.                *)
EXTENDS Terminal, FiniteSets

CONSTANTS q, x, r1, r2

MCRequests == {r1, r2}
MCChars == {q, x}
MCRequestLines ==
  {l \in UNION {[1 .. n -> MCChars] : n \in 1 .. MaxLine} : l[1] = q}
MCCommands == {<<>>, <<q>>, <<x, q>>}
=============================================================================
