---------------------------- MODULE SessionProof ----------------------------
(***************************************************************************)
(* What holds of Session for any number of requests, clients and ids.      *)
(* The argument: the thread that sets the cookie carries the id until it   *)
(* has stored an object under it (CookieBacked), so once no thread carries *)
(* an unstored id the cookie leads to an object (Settled); from then on    *)
(* every Session() call finds the cookie, finds the object, and changes    *)
(* nothing, so requests that arrive later all work on that object.         *)
(* For what requests do to each other: two that are under way at once have *)
(* met (MetEachOther), so while connects keep apart one of them at most    *)
(* writes, and the object is either the last one's or that one's (Content) *)
(***************************************************************************)
EXTENDS Session, TLAPS

\* A request that arrived when the session was settled still finds it so,
\* and looks up the id in the cookie.
ArrivedSettled ==
  \A r \in Requests :
    settledAt[r] => Settled /\ (pc[r] = "lookup" => sid[r] = cookie)

IInv == TypeOK /\ CookieBacked /\ ArrivedSettled /\ OneSessionOnceSettled

-----------------------------------------------------------------------------
(* The types. *)

\* The types, to begin with.
LEMMA InitTypeOK == Init => TypeOK
  BY SessionAssumption DEF Init, TypeOK, Types, ThreadOK, Labels, PastSession, NewElement,
         NoTarget, Target, Element

\* An arrival keeps them,
LEMMA ArriveTypeOK ==
  ASSUME TypeOK, NEW r \in Requests, NEW c \in Clients, NEW f \in Forms,
         Arrive(r, c, f)
  PROVE  TypeOK'
<1>1. Types'
  BY DEF Arrive, Goto, TypeOK, Types, Labels, shared, Settled
<1>2. ASSUME NEW t \in Requests PROVE ThreadOK(t)'
  BY DEF Arrive, Goto, TypeOK, Types, ThreadOK, PastSession, shared
<1> QED
  BY <1>1, <1>2 DEF TypeOK

\* and so does every step of do_POST.
LEMMA StepTypeOK ==
  ASSUME TypeOK, NEW r \in Requests, Step(r)
  PROVE  TypeOK'
<1> USE SessionAssumption DEF TypeOK, Goto, shared, history
<1>1. CASE HasKey(r)
  <2>1. Types'
    BY <1>1 DEF HasKey, HasCookie, Types, ThreadOK, Labels, PastSession
  <2>2. ASSUME NEW t \in Requests PROVE ThreadOK(t)'
    BY <1>1 DEF HasKey, HasCookie, Types, ThreadOK, PastSession
  <2> QED
    BY <2>1, <2>2
<1>2. CASE ReadCookie(r)
  <2>1. Types'
    BY <1>2 DEF ReadCookie, Types, ThreadOK, Labels, PastSession
  <2>2. ASSUME NEW t \in Requests PROVE ThreadOK(t)'
    BY <1>2 DEF ReadCookie, Types, ThreadOK, PastSession
  <2> QED
    BY <2>1, <2>2
<1>3. CASE SetCookie(r)
  <2>1. Types'
    BY <1>3 DEF SetCookie, Types, ThreadOK, Labels, PastSession
  <2>2. ASSUME NEW t \in Requests PROVE ThreadOK(t)'
    BY <1>3 DEF SetCookie, Types, ThreadOK, PastSession
  <2> QED
    BY <2>1, <2>2
<1>4. CASE LookUp(r)
  <2>1. Types'
    BY <1>4 DEF LookUp, Known, AfterSession, Types, ThreadOK, Labels, PastSession
  <2>2. ASSUME NEW t \in Requests PROVE ThreadOK(t)'
    BY <1>4 DEF LookUp, Known, AfterSession, Types, ThreadOK, PastSession
  <2> QED
    BY <2>1, <2>2
<1>5. CASE Insert(r)
  <2>1. Types'
    BY <1>5 DEF Insert, AfterSession, Types, ThreadOK, Labels, PastSession, Objects, NewElement, Element
  <2>2. ASSUME NEW t \in Requests PROVE ThreadOK(t)'
    BY <1>5 DEF Insert, AfterSession, Types, ThreadOK, PastSession, Objects
  <2> QED
    BY <2>1, <2>2
<1>6. CASE CopyHost(r)
  <2>1. heap[so[r]] \in Element /\ target[r] \in Target
    BY <1>6 DEF CopyHost, Types, ThreadOK, PastSession
  <2>2. [target[r] EXCEPT !.host = heap[so[r]].host] \in Target
    BY <2>1 DEF Target, Element
  <2>3. Types'
    BY <1>6, <2>2 DEF CopyHost, Types, Labels
  <2>4. ASSUME NEW t \in Requests PROVE ThreadOK(t)'
    BY <1>6 DEF CopyHost, Types, ThreadOK, PastSession
  <2> QED
    BY <2>3, <2>4
<1>7. CASE CopyPort(r)
  <2>1. heap[so[r]] \in Element /\ target[r] \in Target /\ form[r] \in Form
    BY <1>7 DEF CopyPort, Types, ThreadOK, PastSession
  <2>2. [target[r] EXCEPT
           !.port = heap[so[r]].port,
           !.ns   = IF form[r].kind = "query" THEN form[r].ns ELSE @] \in Target
    BY <2>1 DEF Target, Element, Form
  <2>3. Types'
    BY <1>7, <2>2 DEF CopyPort, PortOf, Types, Labels
  <2>4. ASSUME NEW t \in Requests PROVE ThreadOK(t)'
    BY <1>7 DEF CopyPort, PortOf, Types, ThreadOK, PastSession, Form
  <2> QED
    BY <2>3, <2>4
<1>8. CASE ReadNs(r)
  <2>1. heap[so[r]] \in Element /\ target[r] \in Target
    BY <1>8 DEF ReadNs, Types, ThreadOK, PastSession
  <2>2. [target[r] EXCEPT !.ns = heap[so[r]].ns] \in Target
    BY <2>1 DEF Target, Element
  <2>3. Types'
    BY <1>8, <2>2 DEF ReadNs, Types, Labels
  <2>4. ASSUME NEW t \in Requests PROVE ThreadOK(t)'
    BY <1>8 DEF ReadNs, Types, ThreadOK, PastSession
  <2> QED
    BY <2>3, <2>4
<1>9. CASE ReadDest(r)
  <2>1. heap[so[r]] \in Element /\ target[r] \in Target
    BY <1>9 DEF ReadDest, Types, ThreadOK, PastSession
  <2>2. [target[r] EXCEPT !.dest = heap[so[r]].ns] \in Target
    BY <2>1 DEF Target, Element
  <2>3. Types'
    BY <1>9, <2>2 DEF ReadDest, Types, Labels
  <2>4. ASSUME NEW t \in Requests PROVE ThreadOK(t)'
    BY <1>9 DEF ReadDest, Types, ThreadOK, PastSession
  <2> QED
    BY <2>3, <2>4
<1>10. CASE WriteHost(r)
  <2>1. Types'
    BY <1>10 DEF WriteHost, Types, ThreadOK, Labels, PastSession, Element
  <2>2. ASSUME NEW t \in Requests PROVE ThreadOK(t)'
    BY <1>10 DEF WriteHost, Types, ThreadOK, PastSession
  <2> QED
    BY <2>1, <2>2
<1>11. CASE WritePort(r)
  <2>1. form[r] \in Forms /\ form[r].kind = "connect"
    BY <1>11 DEF WritePort, ThreadOK
  <2>2. form[r].port \in Ports \cup {BadPort} /\ form[r].ns \in Namespaces \cup {None}
    BY <2>1 DEF Form
  <2>3. so[r] \in Objects /\ heap[so[r]] \in Element
    BY <1>11 DEF WritePort, Types, ThreadOK, PastSession
  <2>4. form[r].port # BadPort => [heap[so[r]] EXCEPT !.port = form[r].port] \in Element
    BY <2>2, <2>3 DEF Element
  <2>5. Types'
    BY <1>11, <2>3, <2>4 DEF WritePort, ParsedPort, Types, Labels
  <2>6. ASSUME NEW t \in Requests PROVE ThreadOK(t)'
    BY <1>11, <2>2 DEF WritePort, ParsedPort, Types, ThreadOK, PastSession
  <2> QED
    BY <2>5, <2>6
<1>12. CASE WriteNs(r)
  <2>1. form[r].ns \in Namespaces /\ Upper[form[r].ns] \in Namespaces
    BY <1>12 DEF WriteNs, ThreadOK
  <2>2. so[r] \in Objects /\ heap[so[r]] \in Element
    BY <1>12 DEF WriteNs, Types, ThreadOK, PastSession
  <2>3. \A n \in Namespaces : [heap[so[r]] EXCEPT !.ns = n] \in Element
    BY <2>2 DEF Element
  <2>4. Types'
    BY <1>12, <2>1, <2>2, <2>3 DEF WriteNs, Types, Labels
  <2>5. ASSUME NEW t \in Requests PROVE ThreadOK(t)'
    BY <1>12 DEF WriteNs, Types, ThreadOK, PastSession
  <2> QED
    BY <2>4, <2>5
<1>13. CASE Respond(r)
  <2>1. Types'
    BY <1>13 DEF Respond, Types, ThreadOK, Labels, PastSession
  <2>2. ASSUME NEW t \in Requests PROVE ThreadOK(t)'
    BY <1>13 DEF Respond, Types, ThreadOK, PastSession
  <2> QED
    BY <2>1, <2>2
<1> QED
  BY <1>1, <1>2, <1>3, <1>4, <1>5, <1>6, <1>7, <1>8, <1>9, <1>10, <1>11, <1>12, <1>13 DEF Step

\* Every variable of Session keeps its type, and every thread past Session()
\* holds an object (do_POST dereferences it without a test).
THEOREM TypeCorrect == Spec => []TypeOK
<1>1. Init => TypeOK
  BY InitTypeOK
<1>2. TypeOK /\ [Next]_vars => TypeOK'
  <2> SUFFICES ASSUME TypeOK, [Next]_vars PROVE TypeOK'
    OBVIOUS
  <2>1. CASE UNCHANGED vars
    BY <2>1 DEF vars, shared, local, history, TypeOK, Types, ThreadOK
  <2>2. CASE Next
    BY <2>2, ArriveTypeOK, StepTypeOK DEF Next
  <2> QED
    BY <2>1, <2>2
<1> QED
  BY <1>1, <1>2, PTL DEF Spec

-----------------------------------------------------------------------------
(* The cookie and the dictionary. *)

Carrying == {"setCookie", "lookup", "insert"}

\* Outside Session() a thread touches neither the cookie nor the dictionary,
\* and does not enter the part of Session() that does.
LEMMA HandlerEffect ==
  ASSUME TypeOK, NEW r \in Requests,
         \/ HasKey(r) /\ HasCookie
         \/ CopyHost(r) \/ CopyPort(r) \/ ReadNs(r) \/ ReadDest(r)
         \/ WriteHost(r) \/ WritePort(r) \/ WriteNs(r) \/ Respond(r)
  PROVE  /\ UNCHANGED <<cookie, sessionDict, sid, so, settledAt>>
         /\ pc[r] \notin Carrying /\ pc'[r] \notin Carrying
         /\ \A t \in Requests \ {r} : pc'[t] = pc[t]
  BY DEF HasKey, HasCookie, CopyHost, CopyPort, ReadNs, ReadDest, WriteHost,
         WritePort, WriteNs, Respond, Carrying, Goto, shared, history, TypeOK, Types

\* The id in the cookie stays with the thread that will store its object.
LEMMA CookieBackedStep ==
  ASSUME TypeOK, CookieBacked, NEW r \in Requests, Step(r)
  PROVE  CookieBacked'
<1> USE DEF CookieBacked, TypeOK, Types, ThreadOK, Goto, shared, history
<1>1. CASE HasKey(r)
  BY <1>1 DEF HasKey, HasCookie
<1>2. CASE ReadCookie(r)
  BY <1>2 DEF ReadCookie
<1>3. CASE SetCookie(r)
  BY <1>3 DEF SetCookie
<1>4. CASE LookUp(r)
  BY <1>4 DEF LookUp, Known
<1>5. CASE Insert(r)
  BY <1>5, SessionAssumption DEF Insert, Objects
<1>6. CASE \/ CopyHost(r) \/ CopyPort(r) \/ ReadNs(r) \/ ReadDest(r)
           \/ WriteHost(r) \/ WritePort(r) \/ WriteNs(r) \/ Respond(r)
  BY <1>6, HandlerEffect DEF Carrying
<1> QED
  BY <1>1, <1>2, <1>3, <1>4, <1>5, <1>6 DEF Step

\* In a settled state Session() finds the cookie and the object.
LEMMA SettledStep ==
  ASSUME TypeOK, Settled, NEW r \in Requests, Step(r)
  PROVE  Settled' /\ UNCHANGED <<cookie, sessionDict>>
<1> USE DEF Settled, TypeOK, Types, ThreadOK, Goto, shared, history
<1>1. CASE HasKey(r)
  BY <1>1, HandlerEffect DEF HasCookie, Carrying
<1>2. CASE ReadCookie(r)
  BY <1>2 DEF ReadCookie
<1>3. CASE SetCookie(r)
  BY <1>3 DEF SetCookie
<1>4. CASE LookUp(r)
  BY <1>4 DEF LookUp, Known, AfterSession
<1>5. CASE Insert(r)
  BY <1>5 DEF Insert
<1>6. CASE \/ CopyHost(r) \/ CopyPort(r) \/ ReadNs(r) \/ ReadDest(r)
           \/ WriteHost(r) \/ WritePort(r) \/ WriteNs(r) \/ Respond(r)
  BY <1>6, HandlerEffect DEF Carrying
<1> QED
  BY <1>1, <1>2, <1>3, <1>4, <1>5, <1>6 DEF Step

\* A browser that posts a form changes nothing of this.
LEMMA ArriveEffect ==
  ASSUME TypeOK, NEW r \in Requests, NEW c \in Clients, NEW f \in Forms,
         Arrive(r, c, f)
  PROVE  /\ UNCHANGED <<cookie, sessionDict, sid, so>>
         /\ pc' = [pc EXCEPT ![r] = "hasKey"] /\ pc[r] = "idle"
         /\ settledAt' = [settledAt EXCEPT ![r] = Settled]
         /\ CookieBacked => CookieBacked'
         /\ Settled => Settled'
<1>1. /\ UNCHANGED <<cookie, sessionDict, sid, so>>
      /\ pc' = [pc EXCEPT ![r] = "hasKey"] /\ pc[r] = "idle"
      /\ settledAt' = [settledAt EXCEPT ![r] = Settled]
  BY DEF Arrive, Goto, shared
<1>2. CookieBacked => CookieBacked'
  BY <1>1 DEF CookieBacked, TypeOK, Types
<1>3. Settled => Settled'
  BY <1>1 DEF Settled, TypeOK, Types
<1> QED
  BY <1>1, <1>2, <1>3

-----------------------------------------------------------------------------
(* The requests that arrive once the session is settled. *)

\* In a settled state a thread that arrived settled finds the shared object.
LEMMA SharedStep ==
  ASSUME TypeOK, ArrivedSettled, OneSessionOnceSettled, NEW r \in Requests, Step(r)
  PROVE  ArrivedSettled' /\ OneSessionOnceSettled'
<1>1. settledAt' = settledAt
  BY DEF Step, HasKey, ReadCookie, SetCookie, LookUp, Insert, CopyHost, CopyPort,
         ReadNs, ReadDest, WriteHost, WritePort, WriteNs, Respond, history
<1> SUFFICES ASSUME NEW t \in Requests, settledAt[t]
             PROVE  /\ Settled' /\ (pc'[t] = "lookup" => sid'[t] = cookie')
                    /\ so'[t] # None => so'[t] = sessionDict'[cookie']
  BY <1>1 DEF ArrivedSettled, OneSessionOnceSettled
<1>2. Settled /\ Settled' /\ UNCHANGED <<cookie, sessionDict>>
  BY SettledStep DEF ArrivedSettled
<1> USE DEF TypeOK, Types, Goto, shared, history, ArrivedSettled, OneSessionOnceSettled
<1>3. CASE HasKey(r)
  BY <1>2, <1>3, HandlerEffect DEF HasCookie, Settled, Carrying
<1>4. CASE ReadCookie(r)
  BY <1>2, <1>4 DEF ReadCookie
<1>5. CASE SetCookie(r) \/ Insert(r)
  BY <1>2, <1>5 DEF Settled, SetCookie, Insert
<1>6. CASE LookUp(r)
  BY <1>2, <1>6 DEF LookUp, Known, AfterSession, Settled
<1>7. CASE \/ CopyHost(r) \/ CopyPort(r) \/ ReadNs(r) \/ ReadDest(r)
           \/ WriteHost(r) \/ WritePort(r) \/ WriteNs(r) \/ Respond(r)
  BY <1>2, <1>7, HandlerEffect DEF Carrying
<1> QED
  BY <1>3, <1>4, <1>5, <1>6, <1>7 DEF Step

\* An arrival notes whether the state is settled and uses nothing yet.
LEMMA SharedArrive ==
  ASSUME TypeOK, ArrivedSettled, OneSessionOnceSettled,
         NEW r \in Requests, NEW c \in Clients, NEW f \in Forms, Arrive(r, c, f)
  PROVE  ArrivedSettled' /\ OneSessionOnceSettled'
<1>1. /\ UNCHANGED <<cookie, sessionDict, sid, so>>
      /\ pc' = [pc EXCEPT ![r] = "hasKey"] /\ pc[r] = "idle"
      /\ settledAt' = [settledAt EXCEPT ![r] = Settled]
      /\ Settled => Settled'
  BY ArriveEffect
<1>2. so[r] = None
  BY <1>1 DEF TypeOK, ThreadOK
<1>3. ArrivedSettled'
  BY <1>1 DEF ArrivedSettled, TypeOK, Types
<1>4. OneSessionOnceSettled'
  BY <1>1, <1>2 DEF OneSessionOnceSettled, TypeOK, Types
<1> QED
  BY <1>3, <1>4

-----------------------------------------------------------------------------
\* The invariant about the cookie and its one object.
LEMMA IInvHolds == Spec => []IInv
<1>1. Init => IInv
  BY InitTypeOK DEF Init, IInv, CookieBacked, ArrivedSettled, OneSessionOnceSettled
<1>2. IInv /\ [Next]_vars => IInv'
  <2> SUFFICES ASSUME IInv, [Next]_vars PROVE IInv'
    OBVIOUS
  <2> USE DEF IInv
  <2>1. CASE UNCHANGED vars
    <3>1. UNCHANGED <<cookie, sessionDict, pc, sid, so, settledAt>>
      BY <2>1 DEF vars, shared, local, history
    <3>2. TypeOK'
      BY <2>1 DEF vars, shared, local, history, TypeOK, Types, ThreadOK
    <3>3. CookieBacked' /\ ArrivedSettled' /\ OneSessionOnceSettled'
      BY <3>1 DEF CookieBacked, ArrivedSettled, OneSessionOnceSettled, Settled
    <3> QED
      BY <3>2, <3>3
  <2>2. ASSUME NEW r \in Requests, NEW c \in Clients, NEW f \in Forms, Arrive(r, c, f)
        PROVE  IInv'
    BY <2>2, ArriveTypeOK, ArriveEffect, SharedArrive
  <2>3. ASSUME NEW r \in Requests, Step(r) PROVE IInv'
    BY <2>3, StepTypeOK, CookieBackedStep, SharedStep
  <2> QED
    BY <2>1, <2>2, <2>3 DEF Next
<1> QED
  BY <1>1, <1>2, PTL DEF Spec

\* However many first requests race through Session(), the id in the cookie
\* leads to a session or to a thread about to store one under it.
THEOREM CookieAlwaysBacked == Spec => []CookieBacked
<1>1. IInv => CookieBacked
  BY DEF IInv
<1> QED
  BY <1>1, IInvHolds, PTL

\* For any number of later requests, none creates a session or changes the
\* cookie once the first ones are through.
THEOREM SettledStaysSettled == Spec => SettledForGood
<1>1. IInv /\ [Next]_vars => [Settled => Settled' /\ UNCHANGED <<cookie, sessionDict>>]_vars
  <2> SUFFICES ASSUME IInv, Next, Settled
               PROVE  Settled' /\ UNCHANGED <<cookie, sessionDict>>
    OBVIOUS
  <2>1. ASSUME NEW r \in Requests, NEW c \in Clients, NEW f \in Forms, Arrive(r, c, f)
        PROVE  Settled' /\ UNCHANGED <<cookie, sessionDict>>
    BY <2>1, ArriveEffect DEF IInv
  <2>2. ASSUME NEW r \in Requests, Step(r)
        PROVE  Settled' /\ UNCHANGED <<cookie, sessionDict>>
    BY <2>2, SettledStep DEF IInv
  <2> QED
    BY <2>1, <2>2 DEF Next
<1> QED
  BY <1>1, IInvHolds, PTL DEF Spec, SettledForGood

\* Every request that arrives after the start-up race works on the session the
\* cookie leads to, in both of its Session() calls.
THEOREM SettledRequestsShare == Spec => []OneSessionOnceSettled
<1>1. IInv => OneSessionOnceSettled
  BY DEF IInv
<1> QED
  BY <1>1, IInvHolds, PTL
-----------------------------------------------------------------------------
(* Requests that overlap. *)

Changes(q) == form[q].kind \in {"connect", "change_namespace"}

\* Where a thread can be by its form and its Session() call.
PathOK ==
  \A r \in Requests :
    /\ pc[r] \in {"idle", "copyHost", "copyPort"} => call[r] = 1
    /\ pc[r] = "writeNs" => Changes(r)
    /\ pc[r] \in {"readNs", "readDest"} => ~Changes(r)

\* Two requests that are under way at once have met, and none has met one
\* that is still to come.
MetEachOther ==
  /\ \A q, r \in Requests : Active(q) /\ Active(r) /\ q # r => q \in met[r]
  /\ \A r \in Requests : \A q \in met[r] : Arrived(q)

\* An object that anyone holds or finds has been made: it is not one that its
\* maker is about to store.
Early == {"idle", "hasKey", "readCookie", "setCookie", "lookup", "insert"}
Made(q, k) == k < call[q] \/ (k = call[q] /\ pc[q] \notin Early)
Fresh ==
  \A q \in Requests : \A k \in {1, 2} :
    /\ \A t \in Requests : so[t] = <<q, k>> => Made(q, k)
    /\ \A id \in SessionIds : sessionDict[id] = <<q, k>> => Made(q, k)

\* The namespace a table command has read is still its object's.
SourceRead ==
  \A r \in Requests :
    pc[r] = "readDest" =>
      target[r].ns = heap[so[r]].ns \/ \E q \in met[r] : Changes(q)

Unmixed == NoConnectsOverlap /\ NoBadPort

\* A connect between its two writes finds its host still there; a pair that is
\* neither the default's nor a connect's is the work of such a connect.
HostWritten ==
  \A r \in Requests : pc[r] = "writePort" => heap[so[r]].host = form[r].host
OwnPair(o) ==
  \/ heap[o].host = DefaultHost /\ heap[o].port = DefaultPort
  \/ \E q \in Requests :
       /\ IsConnect(q) /\ heap[o].host = form[q].host
       /\ heap[o].port = form[q].port \/ (pc[q] = "writePort" /\ so[q] = o)
PairsOK == Unmixed => HostWritten /\ \A o \in Objects : OwnPair(o)

OverlapInv ==
  PathOK /\ MetEachOther /\ Fresh /\ SourceRead /\ OneNamespacePerCommand /\ PairsOK

Calm == StartUpNotRaced /\ NoConnectsOverlap /\ NoBadPort

\* Without a race at the start there is one object; until it is there, one
\* request, on its way through its first Session() call.
OneObject ==
  /\ \A r \in Requests : pc[r] \in {"lookup", "insert"} => sid[r] = cookie
  /\ \A r \in Requests : so[r] # None => Settled /\ so[r] = sessionDict[cookie]
  /\ ~Settled =>
       /\ \A id \in SessionIds : sessionDict[id] = None
       /\ \A r \in Requests : Arrived(r) => pc[r] \in {"hasKey", "setCookie", "lookup", "insert"}
       /\ \A r, q \in Requests : Arrived(r) /\ Arrived(q) => r = q
       /\ \A r \in Requests : pc[r] \in {"hasKey", "setCookie"} => cookie = None
       /\ cookie # None => \E r \in Requests : Arrived(r)

LastAnswered == lastOk # None => IsConnect(lastOk) /\ pc[lastOk] = "answered"

HostOf(q) == IF q = None THEN DefaultHost ELSE form[q].host
PortIn(q) == IF q = None THEN DefaultPort ELSE form[q].port

\* The object holds the last connect's server, or that of the one writing.
Writing(r) == IsConnect(r) /\ pc[r] \in {"writePort", "writeNs", "respond"}
Content ==
  LET o == sessionDict[cookie] IN
  /\ \A r \in Requests : Writing(r) => heap[o].host = form[r].host
  /\ \A r \in Requests : Writing(r) /\ pc[r] # "writePort" => heap[o].port = form[r].port
  /\ (\A r \in Requests : ~Writing(r)) =>
       heap[o].host = HostOf(lastOk) /\ heap[o].port = PortIn(lastOk)

\* What a request has copied that no connect has overlapped with.
HasPort(r) ==
  call[r] = 2 \/ pc[r] \in {"readNs", "readDest", "writeHost", "writePort", "writeNs", "respond"}
Copied(r) ==
  Active(r) /\ (\A q \in met[r] : ~IsConnect(q)) =>
    /\ base[r] = lastOk
    /\ pc[r] = "copyPort" \/ HasPort(r) => target[r].host = HostOf(base[r])
    /\ HasPort(r) => target[r].port = PortIn(base[r])

CalmInv ==
  /\ LastAnswered
  /\ Calm => OneObject /\ (Settled => Content) /\ \A r \in Requests : Copied(r)

\* What an arrival and a step of another thread leave alone.
LEMMA ArriveFrame ==
  ASSUME TypeOK, NEW r \in Requests, NEW c \in Clients, NEW f \in Forms, Arrive(r, c, f)
  PROVE  /\ UNCHANGED <<cookie, sessionDict, heap, call, sid, so, target, lastOk>>
         /\ pc[r] = "idle" /\ pc'[r] = "hasKey" /\ form'[r] = f
         /\ settledAt'[r] = Settled /\ base'[r] = lastOk
         /\ met'[r] = {q \in Requests : Active(q)}
         /\ \A t \in Requests \ {r} :
              /\ pc'[t] = pc[t] /\ form'[t] = form[t]
              /\ settledAt'[t] = settledAt[t] /\ base'[t] = base[t]
              /\ met[t] \subseteq met'[t] /\ (Active(t) => r \in met'[t])
  BY DEF Arrive, Goto, shared, TypeOK, Types

\* A thread's step moves that thread and nothing of the others.
LEMMA StepFrame ==
  ASSUME TypeOK, NEW r \in Requests, Step(r)
  PROVE  /\ UNCHANGED <<form, settledAt, met, base>>
         /\ Active(r) /\ pc'[r] # "idle"
         /\ \A t \in Requests \ {r} :
              /\ pc'[t] = pc[t] /\ call'[t] = call[t] /\ sid'[t] = sid[t]
              /\ so'[t] = so[t] /\ target'[t] = target[t]
<1> USE DEF Goto, TypeOK, Types, shared, history, Active
<1>1. CASE HasKey(r)
  BY <1>1 DEF HasKey
<1>2. CASE ReadCookie(r)
  BY <1>2 DEF ReadCookie
<1>3. CASE SetCookie(r)
  BY <1>3 DEF SetCookie
<1>4. CASE LookUp(r)
  BY <1>4 DEF LookUp, AfterSession
<1>5. CASE Insert(r)
  BY <1>5 DEF Insert, AfterSession
<1>6. CASE CopyHost(r)
  BY <1>6 DEF CopyHost
<1>7. CASE CopyPort(r)
  BY <1>7 DEF CopyPort
<1>8. CASE ReadNs(r)
  BY <1>8 DEF ReadNs
<1>9. CASE ReadDest(r)
  BY <1>9 DEF ReadDest
<1>10. CASE WriteHost(r)
  BY <1>10 DEF WriteHost
<1>11. CASE WritePort(r)
  BY <1>11 DEF WritePort
<1>12. CASE WriteNs(r)
  BY <1>12 DEF WriteNs
<1>13. CASE Respond(r)
  BY <1>13 DEF Respond
<1> QED BY <1>1, <1>2, <1>3, <1>4, <1>5, <1>6, <1>7, <1>8, <1>9, <1>10, <1>11, <1>12, <1>13 DEF Step

\* What may part requests from each other never goes away.
LEMMA Backwards ==
  ASSUME TypeOK, MetEachOther, Next
  PROVE  /\ NoConnectsOverlap' => NoConnectsOverlap
         /\ NoBadPort' => NoBadPort
         /\ StartUpNotRaced' => StartUpNotRaced
<1>1. ASSUME NEW r \in Requests, NEW c \in Clients, NEW f \in Forms, Arrive(r, c, f)
      PROVE  /\ NoConnectsOverlap' => NoConnectsOverlap
             /\ NoBadPort' => NoBadPort
             /\ StartUpNotRaced' => StartUpNotRaced
  <2>1. \A q \in Requests : Arrived(q) => Arrived(q)' /\ q # r
    BY <1>1, ArriveFrame DEF Arrived
  <2>2. \A q \in Requests : q # r => /\ form'[q] = form[q] /\ met[q] \subseteq met'[q]
                                     /\ settledAt'[q] = settledAt[q]
    BY <1>1, ArriveFrame
  <2>3. \A q \in Requests : IsConnect(q) => IsConnect(q)' /\ q # r
    BY <2>1, <2>2 DEF IsConnect
  <2>4. NoConnectsOverlap' => NoConnectsOverlap
    BY <2>2, <2>3 DEF NoConnectsOverlap, TypeOK, Types
  <2>5. NoBadPort' => NoBadPort
    BY <2>2, <2>3 DEF NoBadPort
  <2>6. StartUpNotRaced' => StartUpNotRaced
    <3> SUFFICES ASSUME StartUpNotRaced', NEW p \in Requests, Arrived(p), ~settledAt[p],
                        NEW q \in met[p]
                 PROVE  settledAt[q]
      BY DEF StartUpNotRaced
    <3>1. Arrived(p)' /\ ~settledAt'[p] /\ q \in met'[p] /\ q \in Requests \ {r}
      BY <2>1, <2>2 DEF TypeOK, Types, MetEachOther
    <3>2. settledAt'[q]
      BY <3>1 DEF StartUpNotRaced
    <3> QED BY <2>2, <3>1, <3>2
  <2> QED BY <2>4, <2>5, <2>6
<1>2. ASSUME NEW r \in Requests, Step(r)
      PROVE  /\ NoConnectsOverlap' => NoConnectsOverlap
             /\ NoBadPort' => NoBadPort
             /\ StartUpNotRaced' => StartUpNotRaced
  <2>1. /\ UNCHANGED <<form, settledAt, met>>
        /\ \A q \in Requests : Arrived(q)' <=> Arrived(q)
    BY <1>2, StepFrame DEF Arrived, Active
  <2>2. \A q \in Requests : IsConnect(q)' <=> IsConnect(q)
    BY <2>1 DEF IsConnect
  <2> QED BY <2>1, <2>2 DEF NoConnectsOverlap, NoBadPort, StartUpNotRaced, TypeOK, Types
<1> QED BY <1>1, <1>2 DEF Next

\* The paths, and who has met whom.
LEMMA MetStep ==
  ASSUME TypeOK, PathOK, MetEachOther, Next
  PROVE  PathOK' /\ MetEachOther'
<1>1. ASSUME NEW r \in Requests, NEW c \in Clients, NEW f \in Forms, Arrive(r, c, f)
      PROVE  PathOK' /\ MetEachOther'
  <2>1. PathOK'
    BY <1>1, ArriveFrame DEF PathOK, Changes
  <2>2. ASSUME NEW t \in Requests, NEW q \in Requests, Active(q)', Active(t)', q # t
        PROVE  q \in met'[t]
    BY <1>1, <2>2, ArriveFrame DEF MetEachOther, Active
  <2>3. ASSUME NEW t \in Requests, NEW q \in met'[t]
        PROVE  Arrived(q)'
    <3>1. CASE t = r
      BY <1>1, <2>3, <3>1, ArriveFrame DEF Arrived, Active
    <3>2. CASE t # r
      <4>1. q \in met[t] \cup {r}
        BY <1>1, <2>3, <3>2 DEF Arrive, TypeOK, Types
      <4> QED BY <1>1, <4>1, ArriveFrame DEF MetEachOther, Arrived, TypeOK, Types
    <3> QED BY <3>1, <3>2
  <2> QED BY <2>1, <2>2, <2>3 DEF MetEachOther
<1>2. ASSUME NEW r \in Requests, Step(r)
      PROVE  PathOK' /\ MetEachOther'
  <2>1. MetEachOther'
    BY <1>2, StepFrame DEF MetEachOther, Active, Arrived, TypeOK, Types
  <2>2. /\ pc'[r] \in {"idle", "copyHost", "copyPort"} => call'[r] = 1
        /\ pc'[r] = "writeNs" => Changes(r)
        /\ pc'[r] \in {"readNs", "readDest"} => ~Changes(r)
    <3> USE DEF PathOK, Changes, Goto, TypeOK, Types, shared, history
    <3>1. CASE HasKey(r) \/ ReadCookie(r) \/ SetCookie(r)
      BY <1>2, <3>1 DEF HasKey, ReadCookie, SetCookie
    <3>2. CASE LookUp(r)
      BY <3>2 DEF LookUp, AfterSession
    <3>3. CASE Insert(r)
      BY <3>3 DEF Insert, AfterSession
    <3>4. CASE CopyHost(r)
      BY <3>4 DEF CopyHost
    <3>5. CASE CopyPort(r)
      BY <3>5 DEF CopyPort
    <3>6. CASE ReadNs(r) \/ ReadDest(r)
      BY <3>6 DEF ReadNs, ReadDest
    <3>7. CASE WriteHost(r)
      BY <3>7 DEF WriteHost
    <3>8. CASE WritePort(r)
      BY <3>8 DEF WritePort, ThreadOK
    <3>9. CASE WriteNs(r) \/ Respond(r)
      BY <3>9 DEF WriteNs, Respond
    <3> QED BY <1>2, <3>1, <3>2, <3>3, <3>4, <3>5, <3>6, <3>7, <3>8, <3>9 DEF Step
  <2>3. PathOK'
    BY <1>2, <2>2, StepFrame DEF PathOK, Changes
  <2> QED BY <2>1, <2>3
<1> QED BY <1>1, <1>2 DEF Next

-----------------------------------------------------------------------------
(* The objects. *)

\* What has been made stays made.
LEMMA MadeStays ==
  ASSUME TypeOK, PathOK, NEW r \in Requests, Step(r),
         NEW q \in Requests, NEW k \in {1, 2}, Made(q, k)
  PROVE  Made(q, k)'
<1>1. CASE q # r
  BY <1>1, StepFrame DEF Made
<1>2. CASE q = r
  <2> USE <1>2 DEF Made, Early, PathOK, Goto, TypeOK, Types, shared, history
  <2>1. CASE HasKey(r) \/ ReadCookie(r) \/ SetCookie(r)
    BY <2>1 DEF HasKey, ReadCookie, SetCookie
  <2>2. CASE LookUp(r)
    BY <2>2 DEF LookUp
  <2>3. CASE Insert(r)
    BY <2>3 DEF Insert
  <2>4. CASE CopyHost(r)
    BY <2>4 DEF CopyHost
  <2>5. CASE CopyPort(r)
    BY <2>5 DEF CopyPort
  <2>6. CASE ReadNs(r) \/ ReadDest(r)
    BY <2>6 DEF ReadNs, ReadDest
  <2>7. CASE WriteHost(r)
    BY <2>7 DEF WriteHost
  <2>8. CASE WritePort(r)
    BY <2>8 DEF WritePort
  <2>9. CASE WriteNs(r) \/ Respond(r)
    BY <2>9 DEF WriteNs, Respond
  <2> QED BY <2>1, <2>2, <2>3, <2>4, <2>5, <2>6, <2>7, <2>8, <2>9 DEF Step
<1> QED BY <1>1, <1>2

\* Only Session() gives a thread an object, one that it finds or has made.
LEMMA NewUses ==
  ASSUME TypeOK, NEW r \in Requests, Step(r)
  PROVE  \/ UNCHANGED <<so, sessionDict>>
         \/ LookUp(r) /\ sid[r] \in SessionIds /\ so'[r] = sessionDict[sid[r]]
            /\ UNCHANGED sessionDict
         \/ Insert(r) /\ sid[r] \in SessionIds /\ so'[r] = <<r, call[r]>>
            /\ sessionDict' = [sessionDict EXCEPT ![sid[r]] = <<r, call[r]>>]
<1> USE DEF TypeOK, Types, shared
<1>1. CASE LookUp(r)
  BY <1>1 DEF LookUp, ThreadOK
<1>2. CASE Insert(r)
  BY <1>2 DEF Insert, ThreadOK
<1>3. CASE ~LookUp(r) /\ ~Insert(r)
  BY <1>3 DEF Step, HasKey, ReadCookie, SetCookie, CopyHost, CopyPort, ReadNs, ReadDest,
              WriteHost, WritePort, WriteNs, Respond
<1> QED BY <1>1, <1>2, <1>3

\* Whoever comes to hold an object holds one that has been made.
LEMMA FreshStep ==
  ASSUME TypeOK, PathOK, Fresh, Next
  PROVE  Fresh'
<1>1. ASSUME NEW r \in Requests, NEW c \in Clients, NEW f \in Forms, Arrive(r, c, f)
      PROVE  Fresh'
  <2>1. \A q \in Requests : \A k \in {1, 2} : Made(q, k) => Made(q, k)'
    BY <1>1, ArriveFrame DEF Made, Early
  <2> QED BY <1>1, <2>1, ArriveFrame DEF Fresh
<1>2. ASSUME NEW r \in Requests, Step(r)
      PROVE  Fresh'
  <2>1. \A q \in Requests : \A k \in {1, 2} : Made(q, k) => Made(q, k)'
    BY <1>2, MadeStays
  <2>2. CASE UNCHANGED <<so, sessionDict>>
    BY <2>1, <2>2 DEF Fresh
  <2>3. CASE /\ LookUp(r) /\ sid[r] \in SessionIds /\ so'[r] = sessionDict[sid[r]]
             /\ UNCHANGED sessionDict
    <3>1. \A t \in Requests \ {r} : so'[t] = so[t]
      BY <1>2, StepFrame
    <3> QED BY <2>1, <2>3, <3>1 DEF Fresh
  <2>4. CASE /\ Insert(r) /\ sid[r] \in SessionIds /\ so'[r] = <<r, call[r]>>
             /\ sessionDict' = [sessionDict EXCEPT ![sid[r]] = <<r, call[r]>>]
    <3>1. \A t \in Requests \ {r} : so'[t] = so[t]
      BY <1>2, StepFrame
    <3>2. \A k \in {1, 2} : k = call[r] => Made(r, k)'
      BY <2>4 DEF Insert, AfterSession, Made, Early, Goto, TypeOK, Types
    <3>3. ASSUME NEW q \in Requests, NEW k \in {1, 2}
          PROVE  /\ \A t \in Requests : so'[t] = <<q, k>> => Made(q, k)'
                 /\ \A id \in SessionIds : sessionDict'[id] = <<q, k>> => Made(q, k)'
      <4>1. <<r, call[r]>> = <<q, k>> => Made(q, k)'
        BY <3>2
      <4>2. \A t \in Requests : so'[t] = <<q, k>> => Made(q, k)'
        BY <2>1, <2>4, <3>1, <4>1 DEF Fresh
      <4>3. \A id \in SessionIds : sessionDict'[id] = <<q, k>> => Made(q, k)'
        BY <2>1, <2>4, <4>1 DEF Fresh, TypeOK, Types
      <4> QED BY <4>2, <4>3
    <3> QED BY <3>3 DEF Fresh
  <2> QED BY <1>2, <2>2, <2>3, <2>4, NewUses
<1> QED BY <1>1, <1>2 DEF Next

\* A new object is nobody's: storing one does not change what others hold.
LEMMA InsertFresh ==
  ASSUME TypeOK, Fresh, NEW r \in Requests, Insert(r)
  PROVE  \A t \in Requests : so[t] # <<r, call[r]>>
<1>1. call[r] \in {1, 2} /\ ~Made(r, call[r])
  BY DEF Insert, Made, Early, TypeOK, Types
<1> QED BY <1>1 DEF Fresh

\* What a step does to the objects.
LEMMA HeapFrame ==
  ASSUME TypeOK, Fresh, NEW r \in Requests, Step(r)
  PROVE  \/ UNCHANGED heap
         \/ /\ Insert(r) /\ <<r, call[r]>> \in Objects
            /\ \A t \in Requests : so[t] # <<r, call[r]>>
            /\ heap' = [heap EXCEPT ![<<r, call[r]>>] = NewElement]
         \/ /\ WriteHost(r) /\ so[r] \in Objects
            /\ heap' = [heap EXCEPT ![so[r]].host = form[r].host]
         \/ /\ WritePort(r) /\ so[r] \in Objects /\ form[r].port # BadPort
            /\ heap' = [heap EXCEPT ![so[r]].port = form[r].port]
         \/ /\ WriteNs(r) /\ so[r] \in Objects
            /\ \E n \in Namespaces : heap' = [heap EXCEPT ![so[r]].ns = n]
<1> USE DEF TypeOK, Types, shared
<1>1. CASE Insert(r)
  BY <1>1, InsertFresh DEF Insert, Objects
<1>2. CASE WriteHost(r)
  BY <1>2 DEF WriteHost, ThreadOK, PastSession
<1>3. CASE WritePort(r)
  BY <1>3 DEF WritePort, ParsedPort, ThreadOK, PastSession
<1>4. CASE WriteNs(r)
  <2>1. form[r].ns \in Namespaces /\ Upper[form[r].ns] \in Namespaces /\ so[r] \in Objects
    BY <1>4, SessionAssumption DEF WriteNs, ThreadOK, PastSession
  <2> QED BY <1>4, <2>1 DEF WriteNs
<1>5. CASE ~Insert(r) /\ ~WriteHost(r) /\ ~WritePort(r) /\ ~WriteNs(r)
  BY <1>5 DEF Step, HasKey, ReadCookie, SetCookie, LookUp, CopyHost, CopyPort, ReadNs, ReadDest,
              Respond
<1> QED BY <1>1, <1>2, <1>3, <1>4, <1>5

\* The namespace of an object that somebody holds is changed by requests that
\* change it, and by nothing else.
LEMMA NsKept ==
  ASSUME TypeOK, PathOK, Fresh, NEW r \in Requests, Step(r),
         NEW t \in Requests, so[t] \in Objects, ~WriteNs(r)
  PROVE  heap'[so[t]].ns = heap[so[t]].ns
<1>1. heap[so[t]] \in Element
  BY DEF TypeOK, Types
<1>2. heap \in [Objects -> Element]
  BY DEF TypeOK, Types
<1>3. CASE UNCHANGED heap
  BY <1>3
<1>4. CASE /\ <<r, call[r]>> \in Objects /\ so[t] # <<r, call[r]>>
           /\ heap' = [heap EXCEPT ![<<r, call[r]>>] = NewElement]
  BY <1>2, <1>4
<1>5. CASE /\ so[r] \in Objects
           /\ heap' = [heap EXCEPT ![so[r]].host = form[r].host]
  BY <1>1, <1>2, <1>5 DEF Element
<1>6. CASE /\ so[r] \in Objects
           /\ heap' = [heap EXCEPT ![so[r]].port = form[r].port]
  BY <1>1, <1>2, <1>6 DEF Element
<1> QED BY <1>3, <1>4, <1>5, <1>6, HeapFrame

\* A table command's two reads, and what may come between them.
LEMMA NamespaceStep ==
  ASSUME TypeOK, PathOK, MetEachOther, Fresh, SourceRead, OneNamespacePerCommand, Next
  PROVE  SourceRead' /\ OneNamespacePerCommand'
<1>1. ASSUME NEW r \in Requests, NEW c \in Clients, NEW f \in Forms, Arrive(r, c, f)
      PROVE  SourceRead' /\ OneNamespacePerCommand'
  <2>1. /\ UNCHANGED <<heap, so, target>> /\ pc'[r] = "hasKey"
        /\ \A t \in Requests \ {r} : pc'[t] = pc[t] /\ form'[t] = form[t] /\ met[t] \subseteq met'[t]
    BY <1>1, ArriveFrame
  <2>2. \A t \in Requests : \A q \in met[t] : q # r
    BY <1>1, ArriveFrame DEF MetEachOther, Arrived
  <2>3. \A t \in Requests : met[t] \subseteq Requests
    BY DEF TypeOK, Types
  <2>4. SourceRead'
    BY <2>1, <2>2, <2>3 DEF SourceRead, Changes
  <2>5. OneNamespacePerCommand'
    BY <2>1, <2>2, <2>3 DEF OneNamespacePerCommand
  <2> QED BY <2>4, <2>5
<1>2. ASSUME NEW r \in Requests, Step(r)
      PROVE  SourceRead' /\ OneNamespacePerCommand'
  <2>1. /\ UNCHANGED <<form, met>>
        /\ \A t \in Requests \ {r} : pc'[t] = pc[t] /\ so'[t] = so[t] /\ target'[t] = target[t]
        /\ Active(r)
    BY <1>2, StepFrame
  <2>2. ASSUME NEW t \in Requests, pc'[t] = "readDest"
        PROVE  target'[t].ns = heap'[so'[t]].ns \/ \E q \in met'[t] : Changes(q)'
    <3>1. CASE t # r
      <4>1. so[t] \in Objects /\ pc[t] = "readDest" /\ Active(t)
        BY <2>1, <2>2, <3>1 DEF TypeOK, ThreadOK, PastSession, Active
      <4>2. CASE WriteNs(r)
        <5>1. r \in met[t]
          BY <2>1, <3>1, <4>1 DEF MetEachOther
        <5>2. Changes(r)
          BY <4>2 DEF WriteNs, PathOK
        <5> QED BY <2>1, <5>1, <5>2 DEF Changes
      <4>3. CASE ~WriteNs(r)
        BY <1>2, <2>1, <3>1, <4>1, <4>3, NsKept DEF SourceRead, Changes
      <4> QED BY <4>2, <4>3
    <3>2. CASE t = r
      <4>1. ReadNs(r)
        BY <1>2, <2>2, <3>2 DEF Step, HasKey, ReadCookie, SetCookie, LookUp, Insert, AfterSession,
             CopyHost, CopyPort, ReadDest, WriteHost, WritePort, WriteNs, Respond, Goto, TypeOK, Types
      <4> QED BY <3>2, <4>1 DEF ReadNs, TypeOK, Types, shared, Target
    <3> QED BY <3>1, <3>2
  <2>3. ASSUME NEW t \in Requests, pc'[t] = "respond", form[t].kind = "table",
               target'[t].ns # target'[t].dest
        PROVE  \E q \in met[t] : form[q].kind \in {"connect", "change_namespace"}
    <3>1. CASE t # r
      BY <2>1, <2>3, <3>1 DEF OneNamespacePerCommand
    <3>2. CASE t = r
      <4>1. ReadDest(r)
        BY <1>2, <2>3, <3>2 DEF Step, HasKey, ReadCookie, SetCookie, LookUp, Insert, AfterSession,
             CopyHost, CopyPort, ReadNs, WriteHost, WritePort, WriteNs, Respond, Goto, TypeOK, Types,
             ThreadOK, PathOK, Changes
      <4>2. target'[r].ns = target[r].ns /\ target'[r].dest = heap[so[r]].ns /\ pc[r] = "readDest"
        BY <4>1 DEF ReadDest, TypeOK, Types, Target
      <4> QED BY <2>3, <3>2, <4>2 DEF SourceRead, Changes
    <3> QED BY <3>1, <3>2
  <2>4. SourceRead'
    BY <2>2 DEF SourceRead
  <2>5. OneNamespacePerCommand'
    BY <2>1, <2>3 DEF OneNamespacePerCommand
  <2> QED BY <2>4, <2>5
<1> QED BY <1>1, <1>2 DEF Next

\* The pairs of a host and a port while no connects have overlapped and none
\* was dropped at int(port).
LEMMA PairsStep ==
  ASSUME TypeOK, PathOK, MetEachOther, Fresh, PairsOK, Next
  PROVE  PairsOK'
<1> SUFFICES ASSUME Unmixed' PROVE HostWritten' /\ \A o \in Objects : OwnPair(o)'
  BY DEF PairsOK
<1>1. Unmixed /\ HostWritten /\ \A o \in Objects : OwnPair(o)
  BY Backwards DEF Unmixed, PairsOK
<1>2. heap \in [Objects -> Element]
  BY DEF TypeOK, Types
<1>3. ASSUME NEW r \in Requests, NEW c \in Clients, NEW f \in Forms, Arrive(r, c, f)
      PROVE  HostWritten' /\ \A o \in Objects : OwnPair(o)'
  <2>1. /\ UNCHANGED <<heap, so>> /\ pc[r] = "idle" /\ pc'[r] = "hasKey"
        /\ \A t \in Requests \ {r} : pc'[t] = pc[t] /\ form'[t] = form[t]
    BY <1>3, ArriveFrame
  <2>2. HostWritten'
    BY <1>1, <2>1 DEF HostWritten
  <2>3. ASSUME NEW o \in Objects PROVE OwnPair(o)'
    BY <1>1, <2>1 DEF OwnPair, IsConnect, Arrived
  <2> QED BY <2>2, <2>3
<1>4. ASSUME NEW r \in Requests, Step(r)
      PROVE  HostWritten' /\ \A o \in Objects : OwnPair(o)'
  <2>1. /\ form' = form /\ Active(r) /\ pc'[r] # "idle" /\ pc[r] # "idle"
        /\ \A t \in Requests \ {r} : pc'[t] = pc[t] /\ so'[t] = so[t]
    BY <1>4, StepFrame DEF Active
  <2>2. \A t \in Requests : IsConnect(t)' <=> IsConnect(t)
    BY <2>1 DEF IsConnect, Arrived
  <2>3. CASE ~WriteHost(r) /\ ~WritePort(r)
    <3>1. pc[r] # "writePort" /\ pc'[r] # "writePort"
      BY <1>4, <2>3 DEF Step, HasKey, ReadCookie, SetCookie, LookUp, Insert, AfterSession, CopyHost,
           CopyPort, ReadNs, ReadDest, WriteNs, Respond, Goto, TypeOK, Types
    <3>2. \/ UNCHANGED heap
          \/ /\ <<r, call[r]>> \in Objects /\ \A t \in Requests : so[t] # <<r, call[r]>>
             /\ heap' = [heap EXCEPT ![<<r, call[r]>>] = NewElement]
          \/ so[r] \in Objects /\ \E n \in Namespaces : heap' = [heap EXCEPT ![so[r]].ns = n]
      BY <1>4, <2>3, HeapFrame
    <3>3. ASSUME NEW o \in Objects
          PROVE  \/ heap'[o].host = heap[o].host /\ heap'[o].port = heap[o].port
                 \/ heap'[o] = NewElement /\ \A t \in Requests : so[t] # o
      <4>1. heap[o] \in Element
        BY <1>2
      <4>2. CASE UNCHANGED heap
        BY <4>2
      <4>3. CASE /\ <<r, call[r]>> \in Objects /\ \A t \in Requests : so[t] # <<r, call[r]>>
                 /\ heap' = [heap EXCEPT ![<<r, call[r]>>] = NewElement]
        BY <1>2, <4>3
      <4>4. ASSUME NEW n \in Namespaces, so[r] \in Objects, heap' = [heap EXCEPT ![so[r]].ns = n]
            PROVE  heap'[o].host = heap[o].host /\ heap'[o].port = heap[o].port
        BY <1>2, <4>1, <4>4 DEF Element
      <4> QED BY <3>2, <4>2, <4>3, <4>4
    <3>4. ASSUME NEW t \in Requests, pc'[t] = "writePort"
          PROVE  heap'[so'[t]].host = form'[t].host
      <4>1. t # r /\ pc[t] = "writePort" /\ so'[t] = so[t] /\ so[t] \in Objects
        BY <2>1, <3>1, <3>4 DEF TypeOK, ThreadOK, PastSession
      <4>2. heap'[so[t]].host = heap[so[t]].host
        BY <3>3, <4>1
      <4> QED BY <1>1, <2>1, <4>1, <4>2 DEF HostWritten
    <3>5. ASSUME NEW o \in Objects PROVE OwnPair(o)'
      <4>1. CASE heap'[o].host = heap[o].host /\ heap'[o].port = heap[o].port
        BY <1>1, <2>1, <2>2, <3>1, <4>1 DEF OwnPair
      <4>2. CASE heap'[o] = NewElement
        BY <4>2 DEF OwnPair, NewElement
      <4> QED BY <3>3, <4>1, <4>2
    <3> QED BY <3>4, <3>5 DEF HostWritten
  <2>4. CASE WriteHost(r)
    <3>1. /\ pc[r] = "writeHost" /\ pc'[r] = "writePort" /\ so' = so /\ so[r] \in Objects
          /\ heap' = [heap EXCEPT ![so[r]].host = form[r].host]
          /\ IsConnect(r)
      BY <2>4 DEF WriteHost, Goto, IsConnect, Arrived, TypeOK, Types, ThreadOK, PastSession
    <3>2. heap'[so[r]].host = form[r].host
      BY <1>2, <3>1 DEF Element
    <3>3. \A o \in Objects : o # so[r] => heap'[o] = heap[o]
      BY <1>2, <3>1
    <3>4. ASSUME NEW t \in Requests, t # r PROVE pc[t] # "writePort"
      <4> SUFFICES ASSUME pc[t] = "writePort" PROVE FALSE
        OBVIOUS
      <4>1. IsConnect(t) /\ Active(t)
        BY DEF IsConnect, Arrived, Active, TypeOK, ThreadOK
      <4>2. r \in met[t]
        BY <2>1, <3>4, <4>1 DEF MetEachOther
      <4> QED BY <1>1, <3>1, <4>1, <4>2 DEF Unmixed, NoConnectsOverlap
    <3>5. HostWritten'
      BY <2>1, <3>1, <3>2, <3>4 DEF HostWritten
    <3>6. ASSUME NEW o \in Objects PROVE OwnPair(o)'
      <4>1. CASE o = so[r]
        BY <2>1, <2>2, <3>1, <3>2, <4>1 DEF OwnPair
      <4>2. CASE o # so[r]
        BY <1>1, <2>1, <2>2, <3>1, <3>3, <4>2 DEF OwnPair
      <4> QED BY <4>1, <4>2
    <3> QED BY <3>5, <3>6
  <2>5. CASE WritePort(r)
    <3>1. IsConnect(r) /\ pc[r] = "writePort" /\ so[r] \in Objects
      BY <2>5 DEF WritePort, IsConnect, Arrived, TypeOK, ThreadOK, PastSession
    <3>2. form[r].port # BadPort
      BY <1>1, <3>1 DEF Unmixed, NoBadPort
    <3>3. /\ heap' = [heap EXCEPT ![so[r]].port = form[r].port] /\ so' = so
          /\ pc'[r] # "writePort"
      BY <2>5, <3>2 DEF WritePort, ParsedPort, Goto, TypeOK, Types
    <3>4. heap'[so[r]].host = form[r].host /\ heap'[so[r]].port = form[r].port
      BY <1>1, <1>2, <3>1, <3>3 DEF HostWritten, Element
    <3>5. \A o \in Objects : heap'[o].host = heap[o].host
                              /\ (o # so[r] => heap'[o] = heap[o])
      BY <1>2, <3>1, <3>3 DEF Element
    <3>6. ASSUME NEW t \in Requests, pc'[t] = "writePort"
          PROVE  heap'[so'[t]].host = form'[t].host
      <4>1. pc[t] = "writePort" /\ so[t] \in Objects
        BY <2>1, <3>3, <3>6 DEF TypeOK, ThreadOK, PastSession
      <4> QED BY <1>1, <2>1, <3>3, <3>5, <4>1 DEF HostWritten
    <3>7. ASSUME NEW o \in Objects PROVE OwnPair(o)'
      <4>1. CASE o = so[r]
        BY <2>1, <2>2, <3>1, <3>4, <4>1 DEF OwnPair
      <4>2. CASE o # so[r]
        BY <1>1, <2>1, <2>2, <3>3, <3>5, <4>2 DEF OwnPair
      <4> QED BY <4>1, <4>2
    <3> QED BY <3>6, <3>7 DEF HostWritten
  <2> QED BY <2>3, <2>4, <2>5
<1> QED BY <1>3, <1>4 DEF Next

\* The invariant about requests that overlap.
LEMMA OverlapInvHolds == Spec => [](TypeOK /\ OverlapInv)
<1>1. Init => TypeOK /\ OverlapInv
  <2> SUFFICES ASSUME Init PROVE TypeOK /\ OverlapInv
    OBVIOUS
  <2>1. TypeOK
    BY InitTypeOK
  <2>2. /\ \A r \in Requests : pc[r] = "idle" /\ call[r] = 1 /\ so[r] = None /\ met[r] = {}
        /\ \A id \in SessionIds : sessionDict[id] = None
        /\ \A o \in Objects : heap[o] = NewElement
    BY DEF Init
  <2>3. PathOK /\ MetEachOther /\ SourceRead /\ OneNamespacePerCommand
    BY <2>2 DEF PathOK, MetEachOther, Active, SourceRead, OneNamespacePerCommand
  <2>4. ASSUME NEW q \in Requests, NEW k \in {1, 2} PROVE <<q, k>> # None
    BY SessionAssumption DEF Objects
  <2>5. Fresh
    BY <2>2, <2>4 DEF Fresh
  <2>6. PairsOK
    BY <2>2 DEF PairsOK, HostWritten, OwnPair, NewElement
  <2> QED BY <2>1, <2>3, <2>5, <2>6 DEF OverlapInv
<1>2. TypeOK /\ OverlapInv /\ [Next]_vars => (TypeOK /\ OverlapInv)'
  <2> SUFFICES ASSUME TypeOK, OverlapInv, [Next]_vars PROVE TypeOK' /\ OverlapInv'
    OBVIOUS
  <2>1. CASE UNCHANGED vars
    <3>1. TypeOK'
      BY <2>1 DEF vars, shared, local, history, TypeOK, Types, ThreadOK
    <3>2. PathOK' /\ MetEachOther' /\ Fresh' /\ SourceRead' /\ OneNamespacePerCommand'
      BY <2>1 DEF vars, shared, local, history, OverlapInv, PathOK, MetEachOther, Fresh, SourceRead,
           OneNamespacePerCommand, Changes, Active, Arrived, Made, Early
    <3>3. PairsOK'
      BY <2>1 DEF vars, shared, local, history, OverlapInv, PairsOK, Unmixed, NoConnectsOverlap,
           NoBadPort, IsConnect, Arrived, HostWritten, OwnPair
    <3> QED BY <3>1, <3>2, <3>3 DEF OverlapInv
  <2>2. CASE Next
    <3>1. TypeOK'
      BY <2>2, ArriveTypeOK, StepTypeOK DEF Next
    <3> QED BY <2>2, <3>1, MetStep, FreshStep, NamespaceStep, PairsStep DEF OverlapInv
  <2> QED BY <2>1, <2>2
<1> QED BY <1>1, <1>2, PTL DEF Spec

\* However many requests overlap, a table command whose two namespaces differ
\* ran beside a request that changes the namespace.
THEOREM NamespaceAgrees == Spec => []OneNamespacePerCommand
<1>1. TypeOK /\ OverlapInv => OneNamespacePerCommand
  BY DEF OverlapInv
<1> QED BY <1>1, OverlapInvHolds, PTL

\* Without overlapping connects and without a port int() rejects, a session
\* pairs a host with a port of the same connect, or of one in between.
THEOREM PairsHaveCause == Spec => []MixedPairHasCause
<1>1. TypeOK /\ OverlapInv => MixedPairHasCause
  BY DEF OverlapInv, PairsOK, Unmixed, OwnPair, MixedPairHasCause
<1> QED BY <1>1, OverlapInvHolds, PTL

-----------------------------------------------------------------------------
(* The server of a request, when nothing overlaps that should not. *)

\* The latest connect is one that has been answered.
LEMMA LastAnsweredStep ==
  ASSUME TypeOK, LastAnswered, Next
  PROVE  LastAnswered'
<1>1. ASSUME NEW r \in Requests, NEW c \in Clients, NEW f \in Forms, Arrive(r, c, f)
      PROVE  LastAnswered'
  BY <1>1, ArriveFrame DEF LastAnswered, IsConnect, Arrived, TypeOK, Types
<1>2. ASSUME NEW r \in Requests, Step(r)
      PROVE  LastAnswered'
  <2>1. /\ form' = form /\ Active(r) /\ pc'[r] # "idle"
        /\ \A t \in Requests \ {r} : pc'[t] = pc[t]
    BY <1>2, StepFrame
  <2>2. CASE Respond(r)
    <3>1. pc'[r] = "answered" /\ lastOk' = IF form[r].kind = "connect" THEN r ELSE lastOk
      BY <2>2 DEF Respond, Goto, TypeOK, Types
    <3> QED BY <2>1, <3>1 DEF LastAnswered, IsConnect, Arrived, Active, TypeOK, Types
  <2>3. CASE ~Respond(r)
    <3>1. lastOk' = lastOk
      BY <1>2, <2>3 DEF Step, HasKey, ReadCookie, SetCookie, LookUp, Insert, CopyHost, CopyPort,
           ReadNs, ReadDest, WriteHost, WritePort, WriteNs, history
    <3> QED BY <2>1, <3>1 DEF LastAnswered, IsConnect, Arrived, Active, TypeOK, Types
  <2> QED BY <2>2, <2>3
<1> QED BY <1>1, <1>2 DEF Next

\* A settled session leads to an object.
LEMMA SettledObject ==
  ASSUME TypeOK, Settled
  PROVE  cookie \in SessionIds /\ sessionDict[cookie] \in Objects
  BY DEF Settled, TypeOK, Types

\* A request that arrives has copied nothing and writes nothing yet.
LEMMA CalmArrive ==
  ASSUME IInv, OverlapInv, CalmInv, Calm', NEW r \in Requests, NEW c \in Clients,
         NEW f \in Forms, Arrive(r, c, f)
  PROVE  OneObject' /\ (Settled => Content)' /\ \A t \in Requests : Copied(t)'
<1> USE DEF IInv, OverlapInv
<1>1. OneObject /\ (Settled => Content) /\ (\A t \in Requests : Copied(t)) /\ LastAnswered
  BY Backwards DEF CalmInv, Calm, Next
<1>2. /\ UNCHANGED <<cookie, sessionDict, heap, call, sid, so, target, lastOk>>
      /\ pc[r] = "idle" /\ pc'[r] = "hasKey" /\ base'[r] = lastOk
      /\ settledAt'[r] = Settled /\ met'[r] = {q \in Requests : Active(q)}
      /\ \A t \in Requests \ {r} :
           /\ pc'[t] = pc[t] /\ form'[t] = form[t] /\ base'[t] = base[t]
           /\ settledAt'[t] = settledAt[t] /\ met[t] \subseteq met'[t]
  BY ArriveFrame
<1>3. so[r] = None /\ call[r] = 1
  BY <1>2 DEF TypeOK, ThreadOK, PathOK
<1>4. lastOk # None => lastOk \in Requests \ {r}
  BY <1>1, <1>2 DEF LastAnswered, TypeOK, Types
<1>5. HostOf(lastOk)' = HostOf(lastOk) /\ PortIn(lastOk)' = PortIn(lastOk)
  BY <1>2, <1>4 DEF HostOf, PortIn
<1>6. ASSUME NEW t \in Requests PROVE Copied(t)'
  <2>1. CASE t = r
    BY <1>2, <1>3, <2>1 DEF Copied, HasPort
  <2>2. CASE t # r
    <3> SUFFICES ASSUME Active(t)', \A q \in met'[t] : ~IsConnect(q)'
                 PROVE  /\ base'[t] = lastOk'
                        /\ pc'[t] = "copyPort" \/ HasPort(t)' => target'[t].host = HostOf(base[t])'
                        /\ HasPort(t)' => target'[t].port = PortIn(base[t])'
      BY DEF Copied
    <3>1. \A q \in met[t] : ~IsConnect(q)
      BY <1>2, <2>2 DEF MetEachOther, IsConnect, Arrived, TypeOK, Types
    <3>2. Active(t) /\ (HasPort(t)' <=> HasPort(t))
      BY <1>2, <2>2 DEF Active, HasPort
    <3>3. base[t] = lastOk
      BY <1>1, <3>1, <3>2 DEF Copied
    <3>4. HostOf(base[t])' = HostOf(base[t]) /\ PortIn(base[t])' = PortIn(base[t])
      BY <1>2, <1>4, <2>2, <3>3 DEF HostOf, PortIn
    <3> QED BY <1>1, <1>2, <2>2, <3>1, <3>2, <3>3, <3>4 DEF Copied
  <2> QED BY <2>1, <2>2
<1>7. CASE Settled
  <2>1. Settled'
    BY <1>7, ArriveEffect
  <2>2. OneObject'
    BY <1>1, <1>2, <2>1 DEF OneObject
  <2>3. \A t \in Requests : Writing(t)' <=> Writing(t)
    BY <1>2 DEF Writing, IsConnect, Arrived
  <2>4. \A t \in Requests : Writing(t) => t # r
    BY <1>2 DEF Writing
  <2>5. Content'
    BY <1>1, <1>2, <1>5, <1>7, <2>3, <2>4 DEF Content
  <2> QED BY <1>6, <2>1, <2>2, <2>5
<1>8. CASE ~Settled
  <2>1. \A t \in Requests : ~settledAt[t] /\ so[t] = None
    BY <1>1, <1>8 DEF ArrivedSettled, OneObject
  <2>2. Arrived(r)' /\ ~settledAt'[r]
    BY <1>2, <1>8 DEF Arrived
  <2>3. \A q \in met'[r] : settledAt'[q]
    BY <2>2 DEF Calm, StartUpNotRaced
  <2>4. \A q \in Requests : ~Active(q)
    BY <1>2, <2>1, <2>2, <2>3
  <2>5. \A q \in Requests : ~Arrived(q)
    BY <1>1, <1>8, <2>4 DEF OneObject, Active
  <2>6. cookie = None
    BY <1>1, <1>8, <2>5 DEF OneObject
  <2>7. ~Settled'
    BY <1>2, <2>6 DEF Settled
  <2>8. \A q \in Requests \ {r} : pc'[q] = "idle"
    BY <1>2, <2>5 DEF Arrived
  <2>9. OneObject'
    BY <1>1, <1>2, <1>8, <2>1, <2>6, <2>8 DEF OneObject, Arrived
  <2> QED BY <1>6, <2>7, <2>9
<1> QED BY <1>7, <1>8

\* A step of a settled session: whose connect the object holds.
LEMMA ContentStep ==
  ASSUME IInv, OverlapInv, NoConnectsOverlap, NoBadPort, Settled, OneObject, Content,
         NEW r \in Requests, Step(r)
  PROVE  Content'
<1> USE DEF IInv, OverlapInv
<1>1. UNCHANGED <<cookie, sessionDict>>
  BY SettledStep
<1>2. PICK o \in Objects : o = sessionDict[cookie]
  BY SettledObject
<1>3. /\ form' = form /\ Active(r) /\ pc'[r] # "idle"
      /\ \A t \in Requests \ {r} : pc'[t] = pc[t]
  BY StepFrame
<1>4. \A t \in Requests : IsConnect(t)' <=> IsConnect(t)
  BY <1>3 DEF IsConnect, Arrived, Active
<1>5. \A t \in Requests \ {r} : Writing(t)' <=> Writing(t)
  BY <1>3, <1>4 DEF Writing
<1>6. ASSUME IsConnect(r), NEW t \in Requests \ {r} PROVE ~Writing(t)
  <2>1. Writing(t) => Active(t) /\ IsConnect(t)
    BY DEF Writing, Active
  <2>2. Active(t) => r \in met[t]
    BY <1>3 DEF MetEachOther
  <2> QED BY <1>6, <2>1, <2>2 DEF NoConnectsOverlap
<1>7. \A q : q # None => (HostOf(q)' = form'[q].host /\ PortIn(q)' = form'[q].port)
  BY DEF HostOf, PortIn
<1>8. heap[o] \in Element /\ heap \in [Objects -> Element]
  BY DEF TypeOK, Types
<1>9. CASE /\ heap'[o].host = heap[o].host /\ heap'[o].port = heap[o].port
           /\ Writing(r)' <=> Writing(r)
           /\ Writing(r) => pc[r] # "writePort"
           /\ lastOk' = lastOk
  <2>1. HostOf(lastOk)' = HostOf(lastOk) /\ PortIn(lastOk)' = PortIn(lastOk)
    BY <1>3, <1>9 DEF HostOf, PortIn
  <2>2. \A t \in Requests : Writing(t)' <=> Writing(t)
    BY <1>5, <1>9
  <2>3. \A t \in Requests : Writing(t) => (pc'[t] # "writePort" => pc[t] # "writePort")
    BY <1>3, <1>9
  <2> QED BY <1>1, <1>2, <1>3, <1>9, <2>1, <2>2, <2>3 DEF Content
<1>10. CASE WriteHost(r)
  <2>1. IsConnect(r) /\ so[r] = o /\ pc'[r] = "writePort"
        /\ heap' = [heap EXCEPT ![so[r]].host = form[r].host]
    BY <1>2, <1>3, <1>10, SessionAssumption DEF WriteHost, Goto, IsConnect, Arrived, Active, TypeOK, Types,
         ThreadOK, PastSession, OneObject
  <2>2. heap'[o].host = form[r].host
    BY <1>8, <2>1 DEF Element
  <2>3. Writing(r)'
    BY <1>4, <2>1 DEF Writing
  <2> QED BY <1>1, <1>2, <1>3, <1>5, <1>6, <2>1, <2>2, <2>3 DEF Content
<1>11. CASE WritePort(r)
  <2>1. IsConnect(r) /\ so[r] = o /\ pc[r] = "writePort"
    BY <1>2, <1>3, <1>11, SessionAssumption DEF WritePort, IsConnect, Arrived, Active, TypeOK, Types,
         ThreadOK, PastSession, OneObject
  <2>2. form[r].port # BadPort /\ Writing(r)
    BY <2>1 DEF NoBadPort, Writing
  <2>3. /\ heap' = [heap EXCEPT ![so[r]].port = form[r].port]
        /\ pc'[r] \in {"writeNs", "respond"}
    BY <1>11, <2>2 DEF WritePort, ParsedPort, Goto, TypeOK, Types
  <2>4. heap'[o].host = form[r].host /\ heap'[o].port = form[r].port
    BY <1>2, <1>8, <2>1, <2>2, <2>3 DEF Content, Element
  <2>5. Writing(r)'
    BY <1>4, <2>1, <2>3 DEF Writing
  <2> QED BY <1>1, <1>2, <1>3, <1>5, <1>6, <2>1, <2>4, <2>5 DEF Content
<1>12. CASE WriteNs(r)
  <2>1. heap'[o].host = heap[o].host /\ heap'[o].port = heap[o].port
    BY <1>8, <1>12 DEF WriteNs, Element
  <2>2. pc[r] = "writeNs" /\ pc'[r] = "respond" /\ lastOk' = lastOk
    BY <1>12 DEF WriteNs, Goto, TypeOK, Types, history
  <2> QED BY <1>4, <1>9, <2>1, <2>2 DEF Writing
<1>13. CASE Respond(r)
  <2>1. /\ pc[r] = "respond" /\ pc'[r] = "answered" /\ heap' = heap
        /\ lastOk' = IF form[r].kind = "connect" THEN r ELSE lastOk
    BY <1>13 DEF Respond, Goto, TypeOK, Types
  <2>2. CASE IsConnect(r)
    <3>1. lastOk' = r /\ Writing(r) /\ ~Writing(r)'
      BY <2>1, <2>2 DEF IsConnect, Writing
    <3>2. heap[o].host = form[r].host /\ heap[o].port = form[r].port
      BY <1>2, <2>1, <3>1 DEF Content
    <3>3. HostOf(lastOk)' = form[r].host /\ PortIn(lastOk)' = form[r].port
      BY <1>3, <3>1, SessionAssumption DEF HostOf, PortIn
    <3>4. \A t \in Requests : ~Writing(t)'
      BY <1>5, <1>6, <2>2, <3>1
    <3> QED BY <1>1, <1>2, <2>1, <3>2, <3>3, <3>4 DEF Content
  <2>3. CASE ~IsConnect(r)
    BY <1>3, <1>4, <1>9, <2>1, <2>3 DEF IsConnect, Arrived, Active, Writing
  <2> QED BY <2>2, <2>3
<1>14. CASE ~WriteHost(r) /\ ~WritePort(r) /\ ~WriteNs(r) /\ ~Respond(r)
  <2>1. ~Insert(r)
    BY DEF Insert, Settled
  <2>2. heap' = heap
    BY <1>14, <2>1, HeapFrame
  <2>3. lastOk' = lastOk /\ pc[r] \notin {"writePort", "writeNs", "respond"}
    BY <1>14, <2>1 DEF Step, HasKey, ReadCookie, SetCookie, LookUp, CopyHost, CopyPort, ReadNs,
         ReadDest, history
  <2>4. pc'[r] \in {"writePort", "writeNs", "respond"} => form[r].kind # "connect"
    BY <1>14, <2>1 DEF Step, HasKey, ReadCookie, SetCookie, LookUp, AfterSession, CopyHost, CopyPort,
         ReadNs, ReadDest, Goto, TypeOK, Types, PathOK, Changes
  <2>5. ~Writing(r) /\ ~Writing(r)'
    BY <1>4, <2>3, <2>4 DEF Writing, IsConnect
  <2> QED BY <1>9, <2>2, <2>3, <2>5
<1> QED BY <1>10, <1>11, <1>12, <1>13, <1>14

\* What a request copies while no connect overlaps with it.
LEMMA CopiedStep ==
  ASSUME IInv, OverlapInv, OneObject, Settled => Content,
         \A t \in Requests : Copied(t), NEW r \in Requests, Step(r)
  PROVE  \A t \in Requests : Copied(t)'
<1> USE DEF IInv, OverlapInv
<1>1. /\ UNCHANGED <<form, met, base>> /\ Active(r) /\ pc'[r] # "idle"
      /\ \A t \in Requests \ {r} : pc'[t] = pc[t] /\ call'[t] = call[t] /\ target'[t] = target[t]
  BY StepFrame
<1>2. \A t \in Requests : IsConnect(t)' <=> IsConnect(t)
  BY <1>1 DEF IsConnect, Arrived, Active
<1> SUFFICES ASSUME NEW t \in Requests, Active(t)', \A q \in met[t] : ~IsConnect(q)
             PROVE  /\ base[t] = lastOk'
                    /\ pc'[t] = "copyPort" \/ HasPort(t)' => target'[t].host = HostOf(base[t])
                    /\ HasPort(t)' => target'[t].port = PortIn(base[t])
  BY <1>1, <1>2 DEF Copied, HostOf, PortIn, TypeOK, Types
<1>3. Active(t)
  BY <1>1 DEF Active
<1>4. /\ base[t] = lastOk
      /\ pc[t] = "copyPort" \/ HasPort(t) => target[t].host = HostOf(base[t])
      /\ HasPort(t) => target[t].port = PortIn(base[t])
  BY <1>3 DEF Copied
<1>5. lastOk' = lastOk
  <2>1. CASE Respond(r)
    <3>1. t # r
      BY <2>1 DEF Respond, Goto, Active, TypeOK, Types
    <3>2. ~IsConnect(r)
      BY <1>1, <1>3, <3>1 DEF MetEachOther
    <3> QED BY <1>1, <2>1, <3>2 DEF Respond, IsConnect, Arrived, Active
  <2>2. CASE ~Respond(r)
    BY <2>2 DEF Step, HasKey, ReadCookie, SetCookie, LookUp, Insert, CopyHost, CopyPort,
         ReadNs, ReadDest, WriteHost, WritePort, WriteNs, history
  <2> QED BY <2>1, <2>2
<1>6. CASE t # r
  BY <1>1, <1>4, <1>5, <1>6 DEF HasPort
<1>7. CASE t = r
  <2>1. so[r] # None => /\ so[r] \in Objects
                        /\ (\A q \in Requests : ~Writing(q)) =>
                             /\ heap[so[r]].host = HostOf(lastOk)
                             /\ heap[so[r]].port = PortIn(lastOk)
    BY DEF OneObject, Content, TypeOK, Types
  <2>2. pc[r] \in {"copyHost", "copyPort"} => \A q \in Requests : ~Writing(q)
    <3> SUFFICES ASSUME pc[r] \in {"copyHost", "copyPort"}, NEW q \in Requests, Writing(q)
                 PROVE  FALSE
      OBVIOUS
    <3>1. q # r /\ Active(q) /\ IsConnect(q)
      BY DEF Writing, Active
    <3>2. q \in met[r]
      BY <1>1, <3>1 DEF MetEachOther
    <3> QED BY <1>7, <3>1, <3>2
  <2>3. CASE CopyHost(r)
    <3>1. pc[r] = "copyHost" /\ so[r] \in Objects /\ so[r] # None /\ call[r] = 1
      BY <2>3, SessionAssumption DEF CopyHost, TypeOK, ThreadOK, PastSession, PathOK
    <3>2. /\ target'[r].host = heap[so[r]].host /\ pc'[r] = "copyPort" /\ call'[r] = call[r]
      BY <2>3 DEF CopyHost, Goto, TypeOK, Types, Target
    <3> QED BY <1>4, <1>5, <1>7, <2>1, <2>2, <3>1, <3>2 DEF HasPort
  <2>4. CASE CopyPort(r)
    <3>1. pc[r] = "copyPort" /\ so[r] \in Objects /\ so[r] # None
      BY <2>4, SessionAssumption DEF CopyPort, TypeOK, ThreadOK, PastSession
    <3>2. target[r] \in Target
      BY DEF TypeOK, Types
    <3>3. target'[r].port = heap[so[r]].port /\ target'[r].host = target[r].host
      BY <2>4, <3>2 DEF CopyPort, PortOf, TypeOK, Types, Target
    <3> QED BY <1>4, <1>5, <1>7, <2>1, <2>2, <3>1, <3>3
  <2>5. CASE ~CopyHost(r) /\ ~CopyPort(r)
    <3>1. target[r] \in Target
      BY DEF TypeOK, Types
    <3>2. target'[r].host = target[r].host /\ target'[r].port = target[r].port
      BY <2>5, <3>1 DEF Step, HasKey, ReadCookie, SetCookie, LookUp, Insert, ReadNs, ReadDest,
           WriteHost, WritePort, WriteNs, Respond, TypeOK, Types, Target
    <3>3. HasPort(r)' => HasPort(r)
      BY <2>5 DEF Step, HasKey, ReadCookie, SetCookie, LookUp, Insert, AfterSession, ReadNs, ReadDest,
           WriteHost, WritePort, WriteNs, Respond, Goto, HasPort, TypeOK, Types
    <3>4. pc'[r] # "copyPort"
      BY <2>5 DEF Step, HasKey, ReadCookie, SetCookie, LookUp, Insert, AfterSession, ReadNs, ReadDest,
           WriteHost, WritePort, WriteNs, Respond, Goto, TypeOK, Types
    <3> QED BY <1>4, <1>5, <1>7, <3>2, <3>3, <3>4
  <2> QED BY <2>3, <2>4, <2>5
<1> QED BY <1>6, <1>7

\* A step of a settled session leaves it with its one object.
LEMMA OneObjectKept ==
  ASSUME IInv, OneObject, Settled, NEW r \in Requests, Step(r)
  PROVE  OneObject'
<1> USE DEF IInv
<1>1. Settled' /\ UNCHANGED <<cookie, sessionDict>>
  BY SettledStep
<1>2. \A t \in Requests \ {r} : pc'[t] = pc[t] /\ sid'[t] = sid[t] /\ so'[t] = so[t]
  BY StepFrame
<1>3. ~SetCookie(r) /\ ~Insert(r)
  BY DEF Settled, SetCookie, Insert
<1>4. pc'[r] \in {"lookup", "insert"} => sid'[r] = cookie'
  <2>1. CASE ReadCookie(r)
    BY <1>1, <2>1 DEF ReadCookie, TypeOK, Types
  <2>2. CASE LookUp(r)
    BY <1>1, <2>2 DEF LookUp, OneObject, history
  <2>3. CASE ~ReadCookie(r) /\ ~LookUp(r)
    BY <1>3, <2>3 DEF Step, HasKey, CopyHost, CopyPort, ReadNs, ReadDest, WriteHost, WritePort,
         WriteNs, Respond, Goto, TypeOK, Types
  <2> QED BY <2>1, <2>2, <2>3
<1>5. so'[r] # None => so'[r] = sessionDict'[cookie']
  <2>1. CASE UNCHANGED <<so, sessionDict>>
    BY <1>1, <2>1 DEF OneObject
  <2>2. CASE LookUp(r) /\ so'[r] = sessionDict[sid[r]]
    BY <1>1, <2>2 DEF LookUp, OneObject
  <2> QED BY <1>3, <2>1, <2>2, NewUses
<1> QED BY <1>1, <1>2, <1>4, <1>5 DEF OneObject

\* Until then the one request there is takes the steps of Session().
LEMMA StartUpStep ==
  ASSUME IInv, OneObject, LastAnswered, ~Settled, NEW r \in Requests, Step(r)
  PROVE  OneObject' /\ (Settled => Content)'
<1> USE DEF IInv
<1>1. /\ \A id \in SessionIds : sessionDict[id] = None
      /\ pc[r] \in {"hasKey", "setCookie", "lookup", "insert"}
      /\ pc[r] \in {"hasKey", "setCookie"} => cookie = None
      /\ pc[r] \in {"lookup", "insert"} => sid[r] = cookie /\ cookie \in SessionIds
      /\ \A q \in Requests \ {r} : pc[q] = "idle"
      /\ \A q \in Requests : so[q] = None
  <2>1. Arrived(r)
    BY StepFrame DEF Active, Arrived
  <2>2. pc[r] \in {"lookup", "insert"} => sid[r] = cookie /\ cookie \in SessionIds
    BY DEF OneObject, TypeOK, ThreadOK
  <2> QED BY <2>1, <2>2 DEF OneObject, Arrived
<1>2. \A q \in Requests \ {r} : pc'[q] = "idle" /\ so'[q] = None
  BY <1>1, StepFrame
<1>3. CASE HasKey(r)
  <2>1. /\ UNCHANGED <<cookie, sessionDict, so, sid>> /\ pc'[r] = "setCookie" /\ cookie = None
    BY <1>1, <1>3 DEF HasKey, HasCookie, Goto, TypeOK, Types, shared
  <2>2. ~Settled'
    BY <2>1 DEF Settled
  <2> QED BY <1>1, <1>2, <2>1, <2>2 DEF OneObject, Arrived
<1>4. CASE SetCookie(r)
  <2>1. /\ UNCHANGED <<sessionDict, so>> /\ pc'[r] = "lookup" /\ sid'[r] = cookie'
        /\ cookie' \in SessionIds
    BY <1>4 DEF SetCookie, Goto, TypeOK, Types
  <2>2. ~Settled'
    BY <1>1, <2>1 DEF Settled
  <2> QED BY <1>1, <1>2, <2>1, <2>2 DEF OneObject, Arrived
<1>5. CASE LookUp(r)
  <2>1. /\ UNCHANGED <<cookie, sessionDict, so, sid>> /\ pc'[r] = "insert" /\ pc[r] = "lookup"
    BY <1>1, <1>5 DEF LookUp, Known, Goto, TypeOK, Types, shared
  <2>2. ~Settled'
    BY <2>1 DEF Settled
  <2> QED BY <1>1, <1>2, <2>1, <2>2 DEF OneObject, Arrived
<1>6. CASE Insert(r)
  <2>1. call[r] \in {1, 2}
    BY DEF TypeOK, Types
  <2>2. PICK o \in Objects : o = <<r, call[r]>>
    BY <2>1 DEF Objects
  <2>3. /\ cookie' = cookie /\ sessionDict'[cookie] = o /\ so'[r] = o
        /\ heap'[o] = NewElement /\ lastOk' = lastOk
    BY <1>1, <1>6, <2>2 DEF Insert, TypeOK, Types, history
  <2>4. /\ pc'[r] \notin {"setCookie", "insert", "lookup", "writePort", "respond"}
        /\ pc'[r] = "writeNs" => form'[r].kind # "connect"
    BY <1>6 DEF Insert, AfterSession, Goto, TypeOK, Types
  <2>5. Settled'
    <3>1. cookie' \in SessionIds
      BY <1>1, <1>6, <2>3 DEF Insert
    <3>2. cookie' # None /\ sessionDict'[cookie'] # None
      BY <2>3, <3>1, SessionAssumption
    <3>3. \A t \in Requests : pc'[t] \notin {"setCookie", "insert", "lookup"}
      BY <1>2, <2>4
    <3> QED BY <3>2, <3>3 DEF Settled
  <2>6. OneObject'
    BY <1>2, <2>3, <2>4, <2>5 DEF OneObject
  <2>7. lastOk = None
    BY <1>1 DEF LastAnswered, IsConnect, Arrived, TypeOK, Types
  <2>8. Content'
    BY <1>2, <2>3, <2>4, <2>7 DEF Content, Writing, IsConnect, HostOf, PortIn, NewElement
  <2> QED BY <2>6, <2>8
<1>7. CASE ~HasKey(r) /\ ~SetCookie(r) /\ ~LookUp(r) /\ ~Insert(r)
  BY <1>1, <1>7 DEF Step, ReadCookie, CopyHost, CopyPort, ReadNs, ReadDest, WriteHost, WritePort,
       WriteNs, Respond
<1> QED BY <1>3, <1>4, <1>5, <1>6, <1>7

\* The invariant about the server a request goes to.
LEMMA CalmInvHolds == Spec => [](IInv /\ OverlapInv /\ CalmInv)
<1>1. Init => CalmInv
  <2> SUFFICES ASSUME Init PROVE CalmInv
    OBVIOUS
  <2>1. /\ \A r \in Requests : pc[r] = "idle" /\ so[r] = None
        /\ \A id \in SessionIds : sessionDict[id] = None
        /\ cookie = None /\ lastOk = None
    BY DEF Init
  <2>2. ~Settled
    BY <2>1 DEF Settled
  <2> QED BY <2>1, <2>2 DEF CalmInv, LastAnswered, OneObject, Arrived, Copied, Active
<1>2. IInv /\ OverlapInv /\ CalmInv /\ [Next]_vars => CalmInv'
  <2> SUFFICES ASSUME IInv, OverlapInv, CalmInv, [Next]_vars PROVE CalmInv'
    OBVIOUS
  <2>1. CASE UNCHANGED vars
    BY <2>1 DEF vars, shared, local, history, CalmInv, LastAnswered, IsConnect, Arrived, Calm,
         StartUpNotRaced, NoConnectsOverlap, NoBadPort, OneObject, Settled, Content, Writing,
         HostOf, PortIn, Copied, Active, HasPort
  <2>2. CASE Next
    <3>1. LastAnswered'
      BY <2>2, LastAnsweredStep DEF IInv, CalmInv
    <3>2. ASSUME Calm' PROVE OneObject' /\ (Settled => Content)' /\ \A t \in Requests : Copied(t)'
      <4>1. Calm
        BY <2>2, <3>2, Backwards DEF IInv, OverlapInv, Calm
      <4>2. /\ OneObject /\ (Settled => Content) /\ (\A t \in Requests : Copied(t))
            /\ LastAnswered
        BY <4>1 DEF CalmInv
      <4>3. ASSUME NEW r \in Requests, NEW c \in Clients, NEW f \in Forms, Arrive(r, c, f)
            PROVE  OneObject' /\ (Settled => Content)' /\ \A t \in Requests : Copied(t)'
        BY <3>2, <4>3, CalmArrive
      <4>4. ASSUME NEW r \in Requests, Step(r)
            PROVE  OneObject' /\ (Settled => Content)' /\ \A t \in Requests : Copied(t)'
        <5>1. \A t \in Requests : Copied(t)'
          BY <4>2, <4>4, CopiedStep
        <5>2. CASE Settled
          BY <4>1, <4>2, <4>4, <5>1, <5>2, OneObjectKept, ContentStep DEF Calm
        <5>3. CASE ~Settled
          BY <4>2, <4>4, <5>1, <5>3, StartUpStep
        <5> QED BY <5>2, <5>3
      <4> QED BY <2>2, <4>3, <4>4 DEF Next
    <3> QED BY <3>1, <3>2 DEF CalmInv
  <2> QED BY <2>1, <2>2
<1> QED BY <1>1, <1>2, IInvHolds, OverlapInvHolds, PTL DEF Spec

\* For any number of requests: one that no connect overlaps with goes to the
\* host and the port of the latest connect answered before it arrived, or to
\* the default ones, unless the first requests raced or connects overlapped.
THEOREM LatestConnectUsed == Spec => []LastConnectWins
<1>1. IInv /\ OverlapInv /\ CalmInv => LastConnectWins
  BY DEF CalmInv, Calm, Copied, HasPort, HostOf, PortIn, Active, LastConnectWins
<1> QED BY <1>1, CalmInvHolds, PTL

-----------------------------------------------------------------------------
(* One record: the steps of Session, once steady, are steps of OneSession. *)

\* Every request makes its first Session() call first.
FirstCall == \A r \in Requests : pc[r] = "idle" => call[r] = 1

\* What the threads do on the record, as a function.
BeyondAll == [r \in Requests |-> Beyond(r)]

\* A request that has not come yet has both calls before it, always.
LEMMA FirstCallHolds == Spec => []FirstCall
<1>1. Init => FirstCall
  BY DEF Init, FirstCall
<1>2. TypeOK /\ FirstCall /\ [Next]_vars => FirstCall'
  <2> SUFFICES ASSUME TypeOK, FirstCall, [Next]_vars PROVE FirstCall'
    OBVIOUS
  <2>1. CASE UNCHANGED vars
    BY <2>1 DEF vars, local, FirstCall
  <2>2. ASSUME NEW r \in Requests, NEW c \in Clients, NEW f \in Forms, Arrive(r, c, f)
        PROVE  FirstCall'
    BY <2>2, ArriveFrame DEF FirstCall
  <2>3. ASSUME NEW r \in Requests, Step(r) PROVE FirstCall'
    BY <2>3, StepFrame DEF FirstCall
  <2> QED BY <2>1, <2>2, <2>3 DEF Next
<1> QED BY <1>1, <1>2, TypeCorrect, PTL DEF Spec

\* A thread that arrived settled and is past Session() holds the record.
LEMMA HoldsRecord ==
  ASSUME IInv, Steady, NEW r \in Requests, pc[r] \in PastSession
  PROVE  heap[so[r]] = Record /\ so[r] = sessionDict[cookie]
<1>1. settledAt[r]
  BY DEF Steady, Active, PastSession
<1>2. so[r] # None
  BY SessionAssumption DEF IInv, TypeOK, ThreadOK
<1> QED BY <1>1, <1>2 DEF IInv, OneSessionOnceSettled, Record

\* Only the thread that steps moves on the record.
LEMMA BeyondMoves ==
  ASSUME NEW r \in Requests, UNCHANGED form,
         \A t \in Requests \ {r} : pc'[t] = pc[t] /\ call'[t] = call[t]
  PROVE  BeyondAll' = [BeyondAll EXCEPT ![r] = Beyond(r)'] /\ BeyondAll[r] = Beyond(r)
<1>1. ASSUME NEW t \in Requests \ {r} PROVE Beyond(t)' = Beyond(t)
  BY <1>1 DEF Beyond, AfterSession
<1> QED BY <1>1 DEF BeyondAll

\* Inside Session() nothing happens to the record.
LEMMA InsideStutters ==
  ASSUME IInv, Steady, NEW r \in Requests, HasKey(r) \/ ReadCookie(r) \/ LookUp(r)
  PROVE  UNCHANGED One!vars
<1>1. /\ UNCHANGED <<cookie, sessionDict, heap, target, form, call>>
      /\ \A t \in Requests \ {r} : pc'[t] = pc[t]
  BY DEF HasKey, ReadCookie, LookUp, Goto, shared, history, IInv, TypeOK, Types
<1>2. Beyond(r)' = Beyond(r)
  <2>1. AfterSession(r)' = AfterSession(r)
    BY <1>1 DEF AfterSession
  <2>2. AfterSession(r) \notin {"hasKey", "readCookie", "setCookie", "lookup", "insert"}
    BY DEF AfterSession
  <2>3. CASE HasKey(r)
    BY <2>1, <2>3 DEF HasKey, Goto, Beyond, IInv, TypeOK, Types
  <2>4. CASE ReadCookie(r)
    BY <2>1, <2>4 DEF ReadCookie, Goto, Beyond, IInv, TypeOK, Types
  <2>5. CASE LookUp(r)
    <3>1. pc[r] = "lookup" /\ pc'[r] = AfterSession(r)
      BY <2>5 DEF LookUp, Known, Goto, Steady, Settled, IInv, TypeOK, Types
    <3> QED BY <2>1, <2>2, <3>1 DEF Beyond
  <2> QED BY <2>3, <2>4, <2>5
<1>3. BeyondAll' = BeyondAll
  BY <1>1, <1>2, BeyondMoves DEF BeyondAll
<1>4. Record' = Record
  BY <1>1 DEF Record
<1> QED BY <1>1, <1>3, <1>4 DEF One!vars, BeyondAll

\* Past Session() a step of the handler is one of OneSession's.
LEMMA HandlerOnRecord ==
  ASSUME IInv, Steady, NEW r \in Requests, Step(r), pc[r] \in PastSession
  PROVE  One!Step(r)
<1>1. heap[so[r]] = Record /\ so[r] = sessionDict[cookie]
  BY HoldsRecord
<1>2. UNCHANGED <<cookie, sessionDict>> /\ so[r] \in Objects
  BY SettledStep DEF Steady, IInv, TypeOK, ThreadOK
<1>3. form' = form /\ \A t \in Requests \ {r} : pc'[t] = pc[t] /\ call'[t] = call[t]
  BY StepFrame DEF IInv
<1>4. BeyondAll' = [BeyondAll EXCEPT ![r] = Beyond(r)'] /\ BeyondAll[r] = Beyond(r)
  BY <1>3, BeyondMoves
<1>5. Beyond(r) = pc[r]
  BY DEF Beyond, PastSession
<1>6. Record' = heap'[so[r]]
  BY <1>1, <1>2 DEF Record
<1>7. form[r] \in Form /\ pc \in [Requests -> Labels] /\ call \in [Requests -> {1, 2}]
      /\ heap \in [Objects -> Element]
  BY SessionAssumption DEF IInv, TypeOK, Types, ThreadOK, PastSession
<1> USE DEF PastSession, Goto, shared, history
<1>8. CASE CopyHost(r)
  <2>1. Beyond(r)' = "copyPort"
    BY <1>7, <1>8 DEF CopyHost, Beyond
  <2> QED BY <1>1, <1>3, <1>4, <1>5, <1>6, <1>8, <2>1
          DEF CopyHost, One!Step, One!CopyHost, One!Goto, BeyondAll
<1>9. CASE CopyPort(r)
  <2>1. Beyond(r)' = One!Handler(form[r])
    BY <1>3, <1>7, <1>9 DEF CopyPort, Beyond, AfterSession, One!Handler, Form, Kinds
  <2> QED BY <1>1, <1>3, <1>4, <1>5, <1>6, <1>9, <2>1
          DEF CopyPort, PortOf, One!Step, One!CopyPort, One!Goto, BeyondAll
<1>10. CASE ReadNs(r)
  <2>1. Beyond(r)' = IF form[r].kind = "table" THEN "readDest" ELSE "respond"
    BY <1>7, <1>10 DEF ReadNs, Beyond
  <2> QED BY <1>1, <1>3, <1>4, <1>5, <1>6, <1>10, <2>1
          DEF ReadNs, One!Step, One!ReadNs, One!Goto, BeyondAll
<1>11. CASE ReadDest(r)
  <2>1. Beyond(r)' = "respond"
    BY <1>7, <1>11 DEF ReadDest, Beyond
  <2> QED BY <1>1, <1>3, <1>4, <1>5, <1>6, <1>11, <2>1
          DEF ReadDest, One!Step, One!ReadDest, One!Goto, BeyondAll
<1>12. CASE WriteHost(r)
  <2>1. Beyond(r)' = "writePort"
    BY <1>7, <1>12 DEF WriteHost, Beyond
  <2>2. Record' = [Record EXCEPT !.host = form[r].host]
    BY <1>1, <1>2, <1>6, <1>7, <1>12 DEF WriteHost
  <2> QED BY <1>3, <1>4, <1>5, <1>12, <2>1, <2>2
          DEF WriteHost, One!Step, One!WriteHost, One!Goto, BeyondAll
<1>13. CASE WritePort(r)
  <2>1. CASE form[r].port = BadPort
    <3>1. Beyond(r)' = "dropped" /\ Record' = Record /\ target' = target /\ pc[r] = "writePort"
      BY <1>1, <1>6, <1>7, <1>13, <2>1 DEF WritePort, Beyond
    <3> QED BY <1>3, <1>4, <1>5, <2>1, <3>1
            DEF One!Step, One!WritePort, One!Goto, BeyondAll
  <2>2. CASE form[r].port # BadPort
    <3>1. /\ Beyond(r)' = IF form[r].ns # None THEN "writeNs" ELSE "respond"
          /\ target' = target /\ pc[r] = "writePort"
      BY <1>7, <1>13, <2>2 DEF WritePort, Beyond
    <3>2. Record' = [Record EXCEPT !.port = form[r].port]
      BY <1>1, <1>2, <1>6, <1>7, <1>13, <2>2 DEF WritePort, ParsedPort
    <3> QED BY <1>3, <1>4, <1>5, <2>2, <3>1, <3>2
            DEF One!Step, One!WritePort, One!Goto, BeyondAll
  <2> QED BY <2>1, <2>2
<1>14. CASE WriteNs(r)
  <2>1. Beyond(r)' = "respond"
    BY <1>7, <1>14 DEF WriteNs, Beyond
  <2>2. Record' = [Record EXCEPT !.ns =
           IF form[r].kind = "connect" THEN form[r].ns ELSE Upper[form[r].ns]]
    BY <1>1, <1>2, <1>6, <1>7, <1>14 DEF WriteNs
  <2> QED BY <1>3, <1>4, <1>5, <1>14, <2>1, <2>2
          DEF WriteNs, One!Step, One!WriteNs, One!Goto, BeyondAll
<1>15. CASE Respond(r)
  <2>1. Beyond(r)' = "answered"
    BY <1>7, <1>15 DEF Respond, Beyond
  <2> QED BY <1>1, <1>3, <1>4, <1>5, <1>6, <1>15, <2>1
          DEF Respond, One!Step, One!Respond, One!Goto, BeyondAll
<1>16. CASE HasKey(r) \/ ReadCookie(r) \/ SetCookie(r) \/ LookUp(r) \/ Insert(r)
  BY <1>16 DEF HasKey, ReadCookie, SetCookie, LookUp, Insert
<1> QED BY <1>8, <1>9, <1>10, <1>11, <1>12, <1>13, <1>14, <1>15, <1>16 DEF Step

\* An arrival is one of OneSession's, and does not end what is steady.
LEMMA ArrivalOnRecord ==
  ASSUME IInv, FirstCall, Steady, NEW r \in Requests, NEW c \in Clients,
         NEW f \in Forms, Arrive(r, c, f)
  PROVE  Steady' /\ One!Arrive(r, f)
<1>1. /\ UNCHANGED <<cookie, sessionDict, heap, call, target>>
      /\ pc[r] = "idle" /\ pc'[r] = "hasKey"
      /\ settledAt'[r] = Settled /\ Settled'
      /\ \A t \in Requests \ {r} :
           pc'[t] = pc[t] /\ form'[t] = form[t] /\ settledAt'[t] = settledAt[t]
  BY ArriveFrame, ArriveEffect DEF IInv, Steady
<1>2. Steady'
  BY <1>1 DEF Steady, Active
<1>3. Beyond(r) = "idle" /\ Beyond(r)' = "copyHost"
  BY <1>1 DEF Beyond, AfterSession, FirstCall
<1>4. \A t \in Requests \ {r} : Beyond(t)' = Beyond(t)
  BY <1>1 DEF Beyond, AfterSession
<1>5. BeyondAll[r] = "idle" /\ BeyondAll' = [BeyondAll EXCEPT ![r] = "copyHost"]
  BY <1>3, <1>4 DEF BeyondAll
<1>6. form' = [form EXCEPT ![r] = f] /\ Record' = Record
  BY <1>1 DEF Arrive, Record
<1> QED BY <1>1, <1>2, <1>5, <1>6 DEF One!Arrive, One!Goto, BeyondAll

\* What is steady stays so.
LEMMA SteadyStep ==
  ASSUME IInv, Steady, NEW r \in Requests, Step(r)
  PROVE  Steady' /\ (One!Step(r) \/ UNCHANGED One!vars)
<1>1. Settled' /\ UNCHANGED settledAt
  BY SettledStep, StepFrame DEF Steady, IInv
<1>2. Active(r) /\ \A t \in Requests \ {r} : pc'[t] = pc[t]
  BY StepFrame DEF IInv
<1>3. Steady'
  BY <1>1, <1>2 DEF Steady, Active
<1>4. CASE pc[r] \in PastSession
  BY <1>3, <1>4, HandlerOnRecord
<1>5. CASE pc[r] \notin PastSession
  <2>1. HasKey(r) \/ ReadCookie(r) \/ LookUp(r)
    BY <1>5 DEF Step, SetCookie, Insert, CopyHost, CopyPort, ReadNs, ReadDest, WriteHost,
        WritePort, WriteNs, Respond, PastSession, Steady, Settled
  <2> QED BY <1>3, <2>1, InsideStutters
<1> QED BY <1>4, <1>5

\* Once the first requests are through, however many there are and whatever
\* they ask, the server is OneSession: its threads share one record.
THEOREM ServerIsOneRecord == Spec => OneRecord
<1>1. IInv /\ FirstCall /\ [Next]_vars
        => [Steady => Steady' /\ (One!Next \/ UNCHANGED One!vars)]_vars
  <2> SUFFICES ASSUME IInv, FirstCall, Next, Steady
               PROVE  Steady' /\ (One!Next \/ UNCHANGED One!vars)
    OBVIOUS
  <2>1. ASSUME NEW r \in Requests, NEW c \in Clients, NEW f \in Forms, Arrive(r, c, f)
        PROVE  Steady' /\ One!Next
    BY <2>1, ArrivalOnRecord DEF One!Next
  <2>2. ASSUME NEW r \in Requests, Step(r)
        PROVE  Steady' /\ (One!Next \/ UNCHANGED One!vars)
    BY <2>2, SteadyStep DEF One!Next
  <2> QED BY <2>1, <2>2 DEF Next
<1> QED BY <1>1, IInvHolds, FirstCallHolds, PTL DEF Spec, OneRecord
=============================================================================
