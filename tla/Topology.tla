------------------------------ MODULE Topology ------------------------------
(***************************************************************************)
(* What /update_graph/ makes of the gossiper's answer: a tree of data      *)
(* centres, nodes and addresses for the two graphs of the page.  The loop  *)
(* keeps two dictionaries beside the tree, one of data centres and one of  *)
(* nodes, and both are keyed by the id alone.                              *)
(***************************************************************************)
EXTENDS Integers, Sequences

CONSTANTS
  Datacenters, NodeIds,
  Gossips,      \* the gossiper's answers that occur
  Unreachable   \* the gossiper could not be asked: response is None

\* A state that Orion has and the generated code has no name for is "unknown".
GossipElement == [dc : Datacenters, node : NodeIds, state : {"named", "unknown"}]

ASSUME GossipAssumption ==
  Gossips \subseteq Seq(GossipElement) \cup {Unreachable} /\ Unreachable \notin Seq(GossipElement)

VARIABLES
  response,    \* what the gossiper has answered
  at,          \* the element at hand
  datacenter,  \* the data centres in the tree
  parent,      \* node -> the data centre under which it hangs
  node,        \* node -> the elements whose addresses it lists
  outcome      \* "run", "sent", or "silent": the browser gets no response

graph     == <<datacenter, parent, node>>
graphVars == <<response, at, graph, outcome>>

\* dict[k] = v
With(f, k, v) == [x \in DOMAIN f \cup {k} |-> IF x = k THEN v ELSE f[x]]

\* Mutant: a node with an id that is there is added anew, in its own data centre.
NewNode(e) == TRUE
\* sVnodeid not in node
NotInTree(e) == e.node \notin DOMAIN node

\* The next element: its data centre and its node if they are new, then the
\* address, whose text names the state.
AddElement ==
  LET e == response[at] IN
  /\ outcome = "run" /\ response # Unreachable /\ at <= Len(response)
  /\ datacenter' = datacenter \cup {e.dc}
  /\ parent' = IF NotInTree(e) THEN With(parent, e.node, e.dc) ELSE parent
  /\ LET listed == IF NotInTree(e) THEN {} ELSE node[e.node]
         named  == e.state = "named"
     IN /\ node' = With(node, e.node, IF named THEN listed \cup {at} ELSE listed)
        /\ outcome' = IF named THEN "run" ELSE "silent"
        /\ at' = IF named THEN at + 1 ELSE at
  /\ UNCHANGED response

SendGraph ==
  /\ outcome = "run" /\ response # Unreachable /\ at > Len(response)
  /\ outcome' = "sent"
  /\ UNCHANGED <<response, at, graph>>

\* if response is not None has no else.
NoGraph ==
  /\ outcome = "run" /\ response = Unreachable
  /\ outcome' = "silent"
  /\ UNCHANGED <<response, at, graph>>

InitGraph ==
  /\ response \in Gossips /\ at = 1
  /\ datacenter = {} /\ parent = <<>> /\ node = <<>>
  /\ outcome = "run"

NextGraph == AddElement \/ SendGraph \/ NoGraph
-----------------------------------------------------------------------------
\* The tree that is sent has every data centre of the answer, also one without
\* nodes, and every element once; an element is in its own data centre unless
\* its node's id is first named in another: then it is in that one.
GraphShowsAnswer ==
  outcome = "sent" =>
    /\ datacenter = {response[k].dc : k \in DOMAIN response}
    /\ DOMAIN node = {response[k].node : k \in DOMAIN response}
    /\ \A n \in DOMAIN node : node[n] = {k \in DOMAIN response : response[k].node = n}
    /\ DOMAIN parent = DOMAIN node
    /\ \A k \in DOMAIN response :
         (\A l \in 1 .. k - 1 : response[l].node # response[k].node)
           => parent[response[k].node] = response[k].dc

\* The browser gets no response if and only if the gossiper could not be asked
\* or knows a state that the generated code does not.
GraphAnswered ==
  LET drawable == /\ response # Unreachable
                  /\ \A k \in DOMAIN response : response[k].state = "named"
  IN  /\ outcome = "sent" => drawable
      /\ outcome = "silent" => ~drawable
=============================================================================
