------------------------------ MODULE Session ------------------------------
(***************************************************************************)
(* The HTTP side of Orion Mission Control (server.py).  ThreadedHTTPServer *)
(* runs every POST in a thread of its own.  The threads share, without a   *)
(* lock, the class attribute RequestHandler.cookie, the global sessionDict *)
(* and the SessionElement objects it leads to.  One action is one access   *)
(* to that shared state, in the order do_POST makes them.                  *)
(***************************************************************************)
EXTENDS Naturals, FiniteSets

CONSTANTS
  Requests,    \* POST requests; each has its thread and runs once
  Clients,     \* browsers, each with its cookie jar
  SessionIds,  \* what generateRandom(8) can return
  Hosts, Ports, Namespaces,
  Upper,       \* str.upper() on Namespaces
  Forms,       \* the submitted forms; see Form
  DefaultHost, DefaultPort, DefaultNs,
  None,        \* an absent value: no cookie, no object, no form field
  BadPort      \* a port field that int() rejects

Kinds == {"query", "command", "connect", "change_namespace", "table"}
Form  == [kind : Kinds, host : Hosts \cup {None},
          port : Ports \cup {None, BadPort}, ns : Namespaces \cup {None}]

\* A Session() call that creates a SessionElement gives it its identity.
Objects == Requests \X {1, 2}

ASSUME SessionAssumption ==
  /\ DefaultHost \in Hosts /\ DefaultPort \in Ports
  /\ DefaultNs \in Namespaces
  /\ Upper \in [Namespaces -> Namespaces]
  /\ None \notin SessionIds \cup Objects \cup Hosts \cup Ports \cup Namespaces
  /\ BadPort \notin Ports \cup {None}
  /\ Forms \subseteq Form /\ None \notin Forms \cup Clients \cup Requests
  /\ \A f \in Forms : f.kind = "connect" =>
       f.host \in Hosts /\ f.port \in Ports \cup {BadPort}
  /\ \A f \in Forms : f.kind = "change_namespace" => f.ns \in Namespaces

VARIABLES
  cookie,       \* RequestHandler.cookie["sessionId"], None before it is set
  sessionDict,  \* id -> object, None where the key is missing
  heap,         \* object -> orion_host, orion_port, orion_ns
  jar,          \* the sessionId cookie each browser holds
  pc,           \* where each request's thread is
  client, form, \* who sent the request and its form
  presented,    \* the sessionId the request's Cookie header carried
  call,         \* which Session() call of the request this is: 1 or 2
  sid, so,      \* sessionId and the object of the latest Session() call
  target,       \* host, port, namespaces the request sends to Orion with
  settledAt,    \* history: the session was settled when the request arrived
  met,          \* history: requests whose handling overlapped
  lastOk, base  \* history: latest finished connect, now and on arrival

shared  == <<cookie, sessionDict, heap, jar>>
local   == <<pc, client, form, presented, call, sid, so, target>>
history == <<settledAt, met, lastOk, base>>
vars    == <<shared, local, history>>

NoTarget == [host |-> None, port |-> None, ns |-> None, dest |-> None]
NewElement == [host |-> DefaultHost, port |-> DefaultPort, ns |-> DefaultNs]

Active(r) == pc[r] \notin {"idle", "answered", "dropped"}
Goto(r, l) == pc' = [pc EXCEPT ![r] = l]

\* No thread is about to set the cookie or to add an object, and the cookie
\* leads to one: what Session() reaches once the first requests are through.
Settled ==
  /\ cookie # None
  /\ sessionDict[cookie] # None
  /\ \A t \in Requests :
       /\ pc[t] \notin {"setCookie", "insert"}
       /\ pc[t] = "lookup" => sessionDict[sid[t]] # None

-----------------------------------------------------------------------------
\* A browser posts a form with the cookie it holds.
Arrive(r, c, f) ==
  /\ pc[r] = "idle"
  /\ Goto(r, "hasKey")
  /\ client' = [client EXCEPT ![r] = c]
  /\ form' = [form EXCEPT ![r] = f]
  /\ presented' = [presented EXCEPT ![r] = jar[c]]
  /\ settledAt' = [settledAt EXCEPT ![r] = Settled]
  /\ LET others == {q \in Requests : Active(q)} IN
       met' = [q \in Requests |-> IF q = r THEN others
                                  ELSE IF q \in others THEN met[q] \cup {r}
                                  ELSE met[q]]
  /\ base' = [base EXCEPT ![r] = lastOk]
  /\ UNCHANGED <<shared, call, sid, so, target, lastOk>>

-----------------------------------------------------------------------------
\* Session().

\* Mutant: every call generates an id.
NoCookie == FALSE
HasCookie == cookie # None

HasKey(r) ==
  /\ pc[r] = "hasKey"
  /\ Goto(r, IF HasCookie THEN "readCookie" ELSE "setCookie")
  /\ UNCHANGED <<shared, client, form, presented, call, sid, so, target, history>>

ReadCookie(r) ==
  /\ pc[r] = "readCookie"
  /\ sid' = [sid EXCEPT ![r] = cookie]
  /\ Goto(r, "lookup")
  /\ UNCHANGED <<shared, client, form, presented, call, so, target, history>>

\* Mutant: the id is generated twice, once for the cookie.
SetCookieTwice(r) ==
  /\ pc[r] = "setCookie"
  /\ \E id, other \in SessionIds :
       /\ sid' = [sid EXCEPT ![r] = id]
       /\ cookie' = other
  /\ Goto(r, "lookup")
  /\ UNCHANGED <<sessionDict, heap, jar, client, form, presented, call, so,
                 target, history>>

SetCookie(r) ==
  /\ pc[r] = "setCookie"
  /\ \E id \in SessionIds :
       /\ sid' = [sid EXCEPT ![r] = id]
       /\ cookie' = id
  /\ Goto(r, "lookup")
  /\ UNCHANGED <<sessionDict, heap, jar, client, form, presented, call, so,
                 target, history>>

\* Mutant: no lookup at all.
NeverKnown(id) == FALSE
Known(id) == sessionDict[id] # None

\* Where the handler goes on once Session() has returned.
AfterSession(r) ==
  IF call[r] = 1 THEN "copyHost"
  ELSE CASE form[r].kind = "connect"          -> "writeHost"
         [] form[r].kind = "change_namespace" -> "writeNs"
         [] OTHER                             -> "readNs"

LookUp(r) ==
  /\ pc[r] = "lookup"
  /\ IF Known(sid[r])
     THEN /\ so' = [so EXCEPT ![r] = sessionDict[sid[r]]]
          /\ Goto(r, AfterSession(r))
     ELSE Goto(r, "insert") /\ UNCHANGED so
  /\ UNCHANGED <<shared, client, form, presented, call, sid, target, history>>

\* The object is filled before it is stored, so no thread sees it half made.
Insert(r) ==
  /\ pc[r] = "insert"
  /\ LET o == <<r, call[r]>> IN
       /\ heap' = [heap EXCEPT ![o] = NewElement]
       /\ sessionDict' = [sessionDict EXCEPT ![sid[r]] = o]
       /\ so' = [so EXCEPT ![r] = o]
  /\ Goto(r, AfterSession(r))
  /\ UNCHANGED <<cookie, jar, client, form, presented, call, sid, target, history>>

-----------------------------------------------------------------------------
\* do_POST: the request takes its own copy of the session's host and port.

CopyHost(r) ==
  /\ pc[r] = "copyHost"
  /\ target' = [target EXCEPT ![r].host = heap[so[r]].host]
  /\ Goto(r, "copyPort")
  /\ UNCHANGED <<shared, client, form, presented, call, sid, so, history>>

\* Mutant: the port stays the class attribute.
DefaultPortOf(o) == DefaultPort
PortOf(o) == heap[o].port

\* The handler of the path: connect, change_namespace and _make_table_command
\* call Session() again; a query reads so.orion_ns unless its form names one.
CopyPort(r) ==
  LET f == form[r] IN
  /\ pc[r] = "copyPort"
  /\ target' = [target EXCEPT
       ![r].port = PortOf(so[r]),
       ![r].ns   = IF f.kind = "query" THEN f.ns ELSE @]
  /\ call' = [call EXCEPT
       ![r] = IF f.kind \in {"query", "command"} THEN 1 ELSE 2]
  /\ Goto(r, CASE f.kind = "query" -> IF f.ns = None THEN "readNs" ELSE "respond"
               [] f.kind = "command" -> "respond"
               [] OTHER -> "hasKey")
  /\ UNCHANGED <<shared, client, form, presented, sid, so, history>>

ReadNs(r) ==
  /\ pc[r] = "readNs"
  /\ target' = [target EXCEPT ![r].ns = heap[so[r]].ns]
  /\ Goto(r, IF form[r].kind = "table" THEN "readDest" ELSE "respond")
  /\ UNCHANGED <<shared, client, form, presented, call, sid, so, history>>

\* Mutant: the destination keeps the namespace the command was built with.
ReadDestForgotten(r) ==
  /\ pc[r] = "readDest"
  /\ target' = [target EXCEPT ![r].dest = DefaultNs]
  /\ Goto(r, "respond")
  /\ UNCHANGED <<shared, client, form, presented, call, sid, so, history>>

ReadDest(r) ==
  /\ pc[r] = "readDest"
  /\ target' = [target EXCEPT ![r].dest = heap[so[r]].ns]
  /\ Goto(r, "respond")
  /\ UNCHANGED <<shared, client, form, presented, call, sid, so, history>>

-----------------------------------------------------------------------------
\* /connect/ and /change_namespace/

WriteHost(r) ==
  /\ pc[r] = "writeHost"
  /\ heap' = [heap EXCEPT ![so[r]].host = form[r].host]
  /\ Goto(r, "writePort")
  /\ UNCHANGED <<cookie, sessionDict, jar, client, form, presented, call, sid,
                 so, target, history>>

\* Mutant: the port parsed is not the one stored.
LosePort(f) == DefaultPort
ParsedPort(f) == f.port

\* int(port) raises after the host is stored: the thread ends, unanswered.
WritePort(r) ==
  /\ pc[r] = "writePort"
  /\ IF form[r].port = BadPort
     THEN Goto(r, "dropped") /\ UNCHANGED heap
     ELSE /\ heap' = [heap EXCEPT ![so[r]].port = ParsedPort(form[r])]
          /\ Goto(r, IF form[r].ns # None THEN "writeNs" ELSE "respond")
  /\ UNCHANGED <<cookie, sessionDict, jar, client, form, presented, call, sid,
                 so, target, history>>

\* change_namespace stores the name in capitals, connect as it came.
WriteNs(r) ==
  LET f == form[r] IN
  /\ pc[r] = "writeNs"
  /\ heap' = [heap EXCEPT ![so[r]].ns =
                IF f.kind = "connect" THEN f.ns ELSE Upper[f.ns]]
  /\ Goto(r, "respond")
  /\ UNCHANGED <<cookie, sessionDict, jar, client, form, presented, call, sid,
                 so, target, history>>

\* The thrift call of a query or a command, answered, failed or timed out,
\* then _send_response: every response carries the shared cookie.
Respond(r) ==
  /\ pc[r] = "respond"
  /\ jar' = [jar EXCEPT ![client[r]] = cookie]
  /\ lastOk' = IF form[r].kind = "connect" THEN r ELSE lastOk
  /\ Goto(r, "answered")
  /\ UNCHANGED <<cookie, sessionDict, heap, client, form, presented, call, sid,
                 so, target, settledAt, met, base>>

-----------------------------------------------------------------------------
Init ==
  /\ cookie = None
  /\ sessionDict = [id \in SessionIds |-> None]
  /\ heap = [o \in Objects |-> NewElement]
  /\ jar = [c \in Clients |-> None]
  /\ pc = [r \in Requests |-> "idle"]
  /\ client = [r \in Requests |-> None]
  /\ form = [r \in Requests |-> None]
  /\ presented = [r \in Requests |-> None]
  /\ call = [r \in Requests |-> 1]
  /\ sid = [r \in Requests |-> None]
  /\ so = [r \in Requests |-> None]
  /\ target = [r \in Requests |-> NoTarget]
  /\ settledAt = [r \in Requests |-> FALSE]
  /\ met = [r \in Requests |-> {}]
  /\ lastOk = None
  /\ base = [r \in Requests |-> None]

Step(r) ==
  \/ HasKey(r) \/ ReadCookie(r) \/ SetCookie(r) \/ LookUp(r) \/ Insert(r)
  \/ CopyHost(r) \/ CopyPort(r) \/ ReadNs(r) \/ ReadDest(r)
  \/ WriteHost(r) \/ WritePort(r) \/ WriteNs(r) \/ Respond(r)

Next ==
  \E r \in Requests :
    \/ \E c \in Clients, f \in Forms : Arrive(r, c, f)
    \/ Step(r)

Spec == Init /\ [][Next]_vars
-----------------------------------------------------------------------------
\* Properties.

Labels == {"idle", "hasKey", "readCookie", "setCookie", "lookup", "insert",
           "copyHost", "copyPort", "readNs", "readDest", "writeHost", "writePort",
           "writeNs", "respond", "answered", "dropped"}
PastSession == {"copyHost", "copyPort", "readNs", "readDest", "writeHost",
                "writePort", "writeNs", "respond"}

\* What a thread has by the time it gets where it is.
ThreadOK(r) ==
  /\ pc[r] = "idle" => so[r] = None
  /\ pc[r] # "idle" => client[r] \in Clients /\ form[r] \in Forms
  /\ pc[r] = "readCookie" => cookie # None
  /\ pc[r] \in {"lookup", "insert"} => sid[r] \in SessionIds
  /\ pc[r] \in PastSession => so[r] \in Objects
  /\ pc[r] \in {"writeHost", "writePort"} => form[r].kind = "connect"
  /\ pc[r] = "writeNs" => form[r].ns \in Namespaces

Target == [host : Hosts \cup {None}, port : Ports \cup {None},
           ns : Namespaces \cup {None}, dest : Namespaces \cup {None}]
Element == [host : Hosts, port : Ports, ns : Namespaces]

\* Every variable holds a value of its type.
Types ==
  /\ cookie \in SessionIds \cup {None}
  /\ sessionDict \in [SessionIds -> Objects \cup {None}]
  /\ heap \in [Objects -> Element]
  /\ jar \in [Clients -> SessionIds \cup {None}]
  /\ pc \in [Requests -> Labels]
  /\ client \in [Requests -> Clients \cup {None}]
  /\ form \in [Requests -> Forms \cup {None}]
  /\ presented \in [Requests -> SessionIds \cup {None}]
  /\ call \in [Requests -> {1, 2}]
  /\ sid \in [Requests -> SessionIds \cup {None}]
  /\ so \in [Requests -> Objects \cup {None}]
  /\ target \in [Requests -> Target]
  /\ settledAt \in [Requests -> BOOLEAN]
  /\ met \in [Requests -> SUBSET Requests]
  /\ lastOk \in Requests \cup {None}
  /\ base \in [Requests -> Requests \cup {None}]

\* The types, and a thread that is past Session() holds an object.
TypeOK == Types /\ \A r \in Requests : ThreadOK(r)

Arrived(r) == pc[r] # "idle"
IsConnect(r) == Arrived(r) /\ form[r].kind = "connect"

\* The id in the cookie leads to a session, or the thread that chose the id
\* is still on its way to store one: no browser is left with an id that no
\* object will ever be stored under.
CookieBacked ==
  cookie # None =>
    \/ sessionDict[cookie] # None
    \/ \E t \in Requests : sid[t] = cookie /\ pc[t] \in {"lookup", "insert"}

\* Once the requests that found no cookie are through, the cookie and the
\* dictionary of sessions never change again, whatever arrives.
SettledForGood ==
  [][Settled => Settled' /\ UNCHANGED <<cookie, sessionDict>>]_vars

\* A request that arrives after the start-up race works on the one object the
\* cookie leads to, in both of its Session() calls; none works on an orphan.
OneSessionOnceSettled ==
  \A r \in Requests : settledAt[r] /\ so[r] # None => so[r] = sessionDict[cookie]

\* Requests that found no cookie never overlapped.
StartUpNotRaced ==
  \A r \in Requests : Arrived(r) /\ ~settledAt[r] => \A q \in met[r] : settledAt[q]

NoConnectsOverlap ==
  \A q \in Requests : IsConnect(q) => \A p \in met[q] : ~IsConnect(p)

NoBadPort ==
  \A q \in Requests : IsConnect(q) => form[q].port # BadPort

\* A request goes to the server of the latest connect answered before it
\* arrived, or to the default one, unless a connect overlapped with it or
\* connects spoiled each other's work or their own.
LastConnectWins ==
  \A r \in Requests :
    /\ pc[r] = "respond"
    /\ \A q \in met[r] : ~IsConnect(q)
    /\ StartUpNotRaced /\ NoConnectsOverlap /\ NoBadPort
    => /\ target[r].host = IF base[r] = None THEN DefaultHost ELSE form[base[r]].host
       /\ target[r].port = IF base[r] = None THEN DefaultPort ELSE form[base[r]].port

\* A session holds a host and a port that belong together, except while a
\* connect stands between its two writes, and for good only after connects
\* overlapped or one was dropped at int(port).
MixedPairHasCause ==
  NoConnectsOverlap /\ NoBadPort =>
    \A o \in Objects :
      \/ heap[o].host = DefaultHost /\ heap[o].port = DefaultPort
      \/ \E q \in Requests :
           /\ IsConnect(q) /\ heap[o].host = form[q].host
           /\ heap[o].port = form[q].port \/ pc[q] = "writePort"

\* A table command names one namespace twice: the two differ only when a
\* request that changes the namespace ran beside it.
OneNamespacePerCommand ==
  \A r \in Requests :
    pc[r] = "respond" /\ form[r].kind = "table" /\ target[r].ns # target[r].dest =>
      \E q \in met[r] : form[q].kind \in {"connect", "change_namespace"}

\* All requests under way arrived when the session was settled.
Steady == Settled /\ \A r \in Requests : Active(r) => settledAt[r]

\* The record the cookie leads to, and what a thread inside Session() does
\* when that returns.
Record == heap[sessionDict[cookie]]
Beyond(r) ==
  IF pc[r] \in {"hasKey", "readCookie", "setCookie", "lookup", "insert"}
  THEN AfterSession(r) ELSE pc[r]

One == INSTANCE OneSession WITH session <- Record, pc <- [r \in Requests |-> Beyond(r)]

\* From then on the cookie, the dictionary and the objects might as well be
\* one record: every step of a thread is a step of its handler on that record,
\* or none, and so it stays.
OneRecord ==
  [][Steady => Steady' /\ (One!Next \/ UNCHANGED One!vars)]_vars

\* The docstring of Session(): a client that sent no sessionId gets a new
\* session, so two such clients never work on the same one.
SessionAsDocumented ==
  \A r, q \in Requests :
    /\ pc[r] = "respond" /\ presented[r] = None
    /\ pc[q] = "respond" /\ presented[q] = None
    /\ client[r] # client[q]
    => so[r] # so[q]
=============================================================================
