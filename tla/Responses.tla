------------------------------ MODULE Responses ------------------------------
(***************************************************************************)
(* The two responses of do_POST that are built in a loop over what the     *)
(* server has answered: the result of a query and the graph.               *)
(***************************************************************************)
EXTENDS QueryResult, Topology

VARIABLE path

do_POST == <<path, vars, graphVars>>

Ask ==
  \/ path = "/execute_query/" /\ response = Unreachable /\ Init /\ InitGraph
  \/ path = "/update_graph/" /\ fmt = "json" /\ ret = <<>> /\ Init /\ InitGraph

Build ==
  /\ \/ path = "/execute_query/" /\ Next /\ UNCHANGED graphVars
     \/ path = "/update_graph/" /\ NextGraph /\ UNCHANGED vars
  /\ UNCHANGED path

SpecPOST == Ask /\ [][Build]_do_POST
-----------------------------------------------------------------------------
\* A whole response is sent if and only if every value and every state in the
\* answer can be written, as AnsweredIfAnswerable and GraphAnswered say; a query in
\* text whose result is no UTF-8 alone gets the head of a response.
AnsweredIfWritable == AnsweredIfAnswerable /\ GraphAnswered

\* What is sent shows of the answer: in text every cell, under the heading of its
\* place in the record; in JSON the last cell of each name of a record, under that
\* name; in the tree every address, under the first data centre of its node's id.
\* It never shows a cell of another record or one it was not given.
ResponseShowsAnswer == TextTable /\ JsonTable /\ GraphShowsAnswer
=============================================================================
