----------------------------- MODULE OneSession -----------------------------
(***************************************************************************)
(* What the HTTP side of Orion Mission Control comes to once its first     *)
(* requests are through: one session, which the handlers of all requests   *)
(* read and write field by field, without a lock.  Session(), the cookie   *)
(* and the dictionary are gone.  Session implements this module            *)
(* (OneRecord); Page uses its steps for the server that the page talks to. *)
(***************************************************************************)
CONSTANTS
  Requests, Forms,
  Upper,     \* str.upper() on namespaces
  None,      \* an absent value
  BadPort    \* a port field that int() rejects

VARIABLES
  session,   \* its host, port and namespace
  pc,        \* what each request's thread does next
  form,      \* the request's form
  target     \* host, port, namespaces the request sends to Orion with

vars == <<session, pc, form, target>>

Goto(r, l) == pc' = [pc EXCEPT ![r] = l]

Arrive(r, f) ==
  /\ pc[r] = "idle"
  /\ Goto(r, "copyHost")
  /\ form' = [form EXCEPT ![r] = f]
  /\ UNCHANGED <<session, target>>

(* do_POST copies the session's server before it looks at the path. *)
CopyHost(r) ==
  /\ pc[r] = "copyHost"
  /\ target' = [target EXCEPT ![r].host = session.host]
  /\ Goto(r, "copyPort")
  /\ UNCHANGED <<session, form>>

\* Where the path's handler begins.
Handler(f) ==
  CASE f.kind = "connect"          -> "writeHost"
    [] f.kind = "change_namespace" -> "writeNs"
    [] f.kind = "table"            -> "readNs"
    [] f.kind = "command"          -> "respond"
    [] f.kind = "query"            -> IF f.ns = None THEN "readNs" ELSE "respond"

CopyPort(r) ==
  /\ pc[r] = "copyPort"
  /\ target' = [target EXCEPT
       ![r].port = session.port,
       ![r].ns   = IF form[r].kind = "query" THEN form[r].ns ELSE @]
  /\ Goto(r, Handler(form[r]))
  /\ UNCHANGED <<session, form>>

ReadNs(r) ==
  /\ pc[r] = "readNs"
  /\ target' = [target EXCEPT ![r].ns = session.ns]
  /\ Goto(r, IF form[r].kind = "table" THEN "readDest" ELSE "respond")
  /\ UNCHANGED <<session, form>>

ReadDest(r) ==
  /\ pc[r] = "readDest"
  /\ target' = [target EXCEPT ![r].dest = session.ns]
  /\ Goto(r, "respond")
  /\ UNCHANGED <<session, form>>

WriteHost(r) ==
  /\ pc[r] = "writeHost"
  /\ session' = [session EXCEPT !.host = form[r].host]
  /\ Goto(r, "writePort")
  /\ UNCHANGED <<form, target>>

\* int(port) raises after the host is stored: the thread ends, unanswered.
WritePort(r) ==
  /\ pc[r] = "writePort"
  /\ IF form[r].port = BadPort
     THEN Goto(r, "dropped") /\ UNCHANGED session
     ELSE /\ session' = [session EXCEPT !.port = form[r].port]
          /\ Goto(r, IF form[r].ns # None THEN "writeNs" ELSE "respond")
  /\ UNCHANGED <<form, target>>

WriteNs(r) ==
  /\ pc[r] = "writeNs"
  /\ session' = [session EXCEPT !.ns =
       IF form[r].kind = "connect" THEN form[r].ns ELSE Upper[form[r].ns]]
  /\ Goto(r, "respond")
  /\ UNCHANGED <<form, target>>

Respond(r) ==
  /\ pc[r] = "respond"
  /\ Goto(r, "answered")
  /\ UNCHANGED <<session, form, target>>

Step(r) ==
  \/ CopyHost(r) \/ CopyPort(r) \/ ReadNs(r) \/ ReadDest(r)
  \/ WriteHost(r) \/ WritePort(r) \/ WriteNs(r) \/ Respond(r)

Next == \E r \in Requests : Step(r) \/ \E f \in Forms : Arrive(r, f)
=============================================================================
