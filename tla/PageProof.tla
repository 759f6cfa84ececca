----------------------------- MODULE PageProof ------------------------------
(***************************************************************************)
(* What holds of Page for any terminals, servers, connects and queries.    *)
(* The keys go to the tab shown because every change of the tab but one    *)
(* moves them with it, and that one leaves them with the tab it has        *)
(* removed.  The label is right because, as long as nothing is to blame,   *)
(* one connect at most is under way, and only it can have led the session  *)
(* away.                                                                   *)
(***************************************************************************)
EXTENDS Page, SequenceTheorems, TLAPS

\* What a connect's thread has written, while it has written it.
Written(r) ==
  /\ thread[r] \in {"writePort", "writeNs", "respond"} => session.host = form[r].host
  /\ thread[r] \in {"writeNs", "respond"} => session.port = form[r].port
  /\ thread[r] = "respond" => form[r].ns \in {session.ns, None}

\* Where the thread of a connect is that has changed the session, or was dropped.
Begun == {"writePort", "writeNs", "respond", "dropped"}

\* With nothing to blame one connect is under way at most, the page waits for
\* it, what it has written is there, and without one the label is right.
Quiet ==
  blame = {} =>
    /\ \A r, q \in Connects : Busy(r) /\ Busy(q) => r = q
    /\ \A r \in Connects : Writing(r) => connects[r] = "sent"
    /\ \A r \in Connects : connects[r] = "sent" => Written(r)
    /\ label # None /\ ~LeadsTo(label) =>
         \E r \in Connects : connects[r] = "sent" /\ thread[r] \in Begun

\* A thread has a form, and past the port one with a port.
ThreadsOK ==
  \A r \in Connects :
    /\ thread[r] = "idle" <=> connects[r] = "unused"
    /\ thread[r] # "idle" => form[r] \in Forms
    /\ thread[r] \in {"writePort", "writeNs", "respond"} => Complete(r)
    /\ thread[r] \in {"writeNs", "respond"} => form[r].port # BadPort
    /\ thread[r] = "writeNs" => form[r].ns # None

\* Who waits has no query under way but the newest.
OneAsked ==
  hasty = FALSE => \A i \in DOMAIN queries : queries[i] = "sent" => i = Len(queries)
Patient == OneAsked /\ ResultIsNewest

IInv == TypeOK /\ KeysGoToShown /\ ThreadsOK /\ Quiet /\ Patient

-----------------------------------------------------------------------------
\* removeAt leaves the other options in their order.
LEMMA Removed ==
  ASSUME NEW S, NEW s \in Seq(S), NEW i \in 1 .. Len(s)
  PROVE  /\ RemoveAt(s, i) \in Seq(S)
         /\ Len(RemoveAt(s, i)) = Len(s) - 1
         /\ \A j \in 1 .. Len(s) - 1 :
              RemoveAt(s, i)[j] = IF j < i THEN s[j] ELSE s[j + 1]
<1> DEFINE a == SubSeq(s, 1, i - 1)
           b == SubSeq(s, i + 1, Len(s))
<1>1. Len(s) \in Nat /\ 1 \in 1 .. Len(s) + 1 /\ i - 1 \in 0 .. Len(s)
      /\ i + 1 \in 1 .. Len(s) + 1 /\ Len(s) \in i .. Len(s)
  BY LenProperties
<1>2. a \in Seq(S) /\ Len(a) = i - 1 /\ \A j \in 1 .. i - 1 : a[j] = s[j]
  BY <1>1
<1>3. b \in Seq(S) /\ Len(b) = Len(s) - i /\ \A j \in 1 .. Len(s) - i : b[j] = s[i + j]
  BY <1>1
<1> HIDE DEF a, b
<1>4. /\ a \o b \in Seq(S) /\ Len(a \o b) = Len(s) - 1
      /\ \A j \in 1 .. Len(s) - 1 :
           (a \o b)[j] = IF j < i THEN a[j] ELSE b[j - (i - 1)]
  <2>1. /\ a \o b \in Seq(S) /\ Len(a \o b) = Len(a) + Len(b)
        /\ \A j \in 1 .. Len(a) + Len(b) :
             (a \o b)[j] = IF j <= Len(a) THEN a[j] ELSE b[j - Len(a)]
    BY <1>2, <1>3, ConcatProperties, Zenon
  <2>2. Len(a) + Len(b) = Len(s) - 1 /\ \A j \in Int : j < i <=> j <= i - 1
    BY <1>1, <1>2, <1>3
  <2> QED BY <1>1, <1>2, <2>1, <2>2
<1>5. ASSUME NEW j \in 1 .. Len(s) - 1
      PROVE  (a \o b)[j] = IF j < i THEN s[j] ELSE s[j + 1]
  <2>1. CASE j < i
    BY <1>2, <1>4, <2>1
  <2>2. CASE ~(j < i)
    <3>1. j - (i - 1) \in 1 .. Len(s) - i /\ i + (j - (i - 1)) = j + 1
      BY <1>1, <2>2
    <3> QED BY <1>3, <1>4, <2>2, <3>1
  <2> QED BY <2>1, <2>2
<1> QED BY <1>4, <1>5 DEF RemoveAt, a, b

\* The options that are left are different, and the one removed is not there.
LEMMA RemovedDiffer ==
  ASSUME NEW S, NEW s \in Seq(S), IsInjective(s), NEW i \in 1 .. Len(s)
  PROVE  /\ IsInjective(RemoveAt(s, i))
         /\ \A j \in 1 .. Len(s) - 1 : RemoveAt(s, i)[j] # s[i]
         /\ \A j \in 1 .. Len(s) : j # i => \E k \in 1 .. Len(s) - 1 : RemoveAt(s, i)[k] = s[j]
<1>1. /\ RemoveAt(s, i) \in Seq(S) /\ Len(RemoveAt(s, i)) = Len(s) - 1
      /\ \A j \in 1 .. Len(s) - 1 :
           RemoveAt(s, i)[j] = IF j < i THEN s[j] ELSE s[j + 1]
  BY Removed
<1>2. DOMAIN RemoveAt(s, i) = 1 .. Len(s) - 1 /\ DOMAIN s = 1 .. Len(s) /\ Len(s) \in Nat
  BY <1>1
<1>3. IsInjective(RemoveAt(s, i))
  BY <1>1, <1>2 DEF IsInjective
<1>4. \A j \in 1 .. Len(s) - 1 : RemoveAt(s, i)[j] # s[i]
  BY <1>1, <1>2 DEF IsInjective
<1>5. ASSUME NEW j \in 1 .. Len(s), j # i
      PROVE  \E k \in 1 .. Len(s) - 1 : RemoveAt(s, i)[k] = s[j]
  <2>1. CASE j < i
    BY <1>1, <1>2, <2>1
  <2>2. CASE j > i
    <3>1. j - 1 \in 1 .. Len(s) - 1 /\ ~(j - 1 < i) /\ (j - 1) + 1 = j
      BY <1>2, <2>2
    <3> QED BY <1>1, <3>1
  <2> QED BY <1>5, <2>1, <2>2
<1> QED BY <1>3, <1>4, <1>5

\* The page as webix.ready leaves it.
LEMMA InitIInv == Init => IInv
<1> SUFFICES ASSUME Init PROVE IInv
  OBVIOUS
<1>1. Terminals[1] \in ToSet(Terminals) /\ Tabs = ToSet(Terminals)
  BY PageAssumption DEF ToSet, Tabs
<1>2. /\ connects \in [Connects -> {"unused", "sent", "done"}]
      /\ form \in [Connects -> Forms \cup {None}] /\ thread \in [Connects -> Threads]
  BY DEF Init, Threads
<1>3. tabs \in Seq(Tabs) /\ tabs # <<>> /\ IsInjective(tabs)
      /\ shown \in ToSet(tabs) \cap opened /\ opened \subseteq Tabs /\ activeTerm \in opened
  BY <1>1, PageAssumption DEF Init
<1>4. queries \in Seq({"sent", "done", "refused", "dropped"}) /\ result \in 0 .. Len(queries)
  BY EmptySeq DEF Init
<1>5. TypeOK
  BY <1>2, <1>3, <1>4, PageAssumption DEF Init, TypeOK
<1>6. KeysGoToShown /\ ThreadsOK /\ Quiet
  BY DEF Init, KeysGoToShown, ThreadsOK, Quiet, Busy, Writing
<1>7. Patient
  BY EmptySeq DEF Init, Patient, OneAsked, ResultIsNewest
<1> QED BY <1>5, <1>6, <1>7 DEF IInv

-----------------------------------------------------------------------------
\* The next-state relation, for the lemmas to go through.
LEMMA Steps ==
  ASSUME Next
  PROVE  \/ \E v \in Views : Menu(v)
         \/ \E t \in Tabs : TabClick(t)
         \/ \E i \in DOMAIN tabs : CloseTab(i)
         \/ form_change_server \/ Cancel
         \/ \E r \in Connects : onChangeServer(r)
         \/ \E r \in Connects : Handle(r)
         \/ \E r \in Connects : Connected(r)
         \/ \E r \in Connects : NotConnected(r)
         \/ Configured
         \/ ConnectElsewhere
         \/ execute_query \/ clear_results
         \/ \E i \in DOMAIN queries : QuerySucceeds(i) \/ QueryRefused(i) \/ QueryDropped(i)
  BY Zenon DEF Next, Keyboard, Connecting, Table

\* The console: types of its variables, and where the keys go.
ConsoleOK ==
  /\ view \in Views /\ dialog \in {"open", "hidden"}
  /\ tabs \in Seq(Tabs) /\ tabs # <<>> /\ IsInjective(tabs)
  /\ shown \in ToSet(tabs) \cap opened /\ opened \subseteq Tabs
  /\ keylock \in BOOLEAN /\ activeTerm \in opened
  /\ KeysGoToShown

\* Closing a tab: the neighbour is one of the tabs that are left.
LEMMA CloseStep ==
  ASSUME ConsoleOK, NEW i \in DOMAIN tabs, CloseTab(i)
  PROVE  ConsoleOK'
<1> DEFINE rest == RemoveAt(tabs, i)
<1>1. Len(tabs) \in Nat /\ DOMAIN tabs = 1 .. Len(tabs) /\ i \in 2 .. Len(tabs)
      /\ i \in 1 .. Len(tabs)
  BY LenProperties DEF ConsoleOK, CloseTab
<1>2. rest \in Seq(Tabs) /\ Len(rest) = Len(tabs) - 1
  BY <1>1, Removed DEF ConsoleOK
<1>3. /\ IsInjective(rest)
      /\ \A j \in 1 .. Len(tabs) - 1 : rest[j] # tabs[i]
      /\ \A j \in 1 .. Len(tabs) : j # i => \E k \in 1 .. Len(tabs) - 1 : rest[k] = tabs[j]
  BY <1>1, RemovedDiffer DEF ConsoleOK
<1>4. DOMAIN rest = 1 .. Len(tabs) - 1 /\ rest # <<>>
  BY <1>1, <1>2, LenProperties, EmptySeq
<1>5. tabs' = rest
  BY DEF CloseTab
<1> HIDE DEF rest
<1>6. tabs[i] \notin ToSet(rest)
  BY <1>3, <1>4 DEF ToSet
<1>7. ToSet(rest) \subseteq Tabs
  BY <1>2, <1>4, LenProperties DEF ToSet
<1>8. CASE shown = tabs[i]
  <2>1. Shows(Neighbour(i))
    BY <1>8 DEF CloseTab
  <2>2. Neighbour(i) \in ToSet(rest)
    <3>1. (IF i < Len(rest) THEN i ELSE Len(rest)) \in DOMAIN rest
      BY <1>1, <1>2, <1>4
    <3> QED BY <3>1 DEF Neighbour, ToSet, rest
  <2>3. activeTerm = tabs[i] \/ activeTerm \notin ToSet(tabs)
    BY <1>8 DEF ConsoleOK, KeysGoToShown
  <2>4. ToSet(rest) \subseteq ToSet(tabs)
    <3>1. ASSUME NEW j \in DOMAIN rest PROVE rest[j] \in ToSet(tabs)
      <4>1. rest[j] = IF j < i THEN tabs[j] ELSE tabs[j + 1]
        BY <1>1, <1>4, Removed DEF ConsoleOK, rest
      <4> QED BY <1>1, <1>4, <4>1 DEF ToSet
    <3> QED BY <3>1 DEF ToSet
  <2>5. activeTerm \notin ToSet(rest)
    BY <1>6, <2>3, <2>4
  <2>6. keylock' \in BOOLEAN /\ activeTerm' \in opened'
    BY <2>1 DEF Shows, ConsoleOK
  <2>7. KeysGoToShown'
    BY <1>5, <2>1, <2>5 DEF Shows, KeysGoToShown
  <2>8. shown' \in ToSet(tabs') \cap opened' /\ opened' \subseteq Tabs
    BY <1>5, <1>7, <2>1, <2>2 DEF Shows, ConsoleOK
  <2> QED BY <1>2, <1>3, <1>4, <1>5, <2>6, <2>7, <2>8 DEF ConsoleOK, CloseTab
<1>9. CASE shown # tabs[i]
  <2>1. UNCHANGED <<shown, opened, keylock, activeTerm>>
    BY <1>9 DEF CloseTab
  <2>2. shown \in ToSet(rest)
    <3>1. PICK j \in DOMAIN tabs : shown = tabs[j]
      BY DEF ConsoleOK, ToSet
    <3>2. PICK k \in 1 .. Len(tabs) - 1 : rest[k] = tabs[j]
      BY <1>1, <1>3, <1>9, <3>1
    <3> QED BY <1>4, <3>1, <3>2 DEF ToSet
  <2>3. ToSet(rest) \subseteq ToSet(tabs)
    <3>1. ASSUME NEW j \in DOMAIN rest PROVE rest[j] \in ToSet(tabs)
      <4>1. rest[j] = IF j < i THEN tabs[j] ELSE tabs[j + 1]
        BY <1>1, <1>4, Removed DEF ConsoleOK, rest
      <4> QED BY <1>1, <1>4, <4>1 DEF ToSet
    <3> QED BY <3>1 DEF ToSet
  <2>4. KeysGoToShown'
    BY <1>5, <2>1, <2>3 DEF KeysGoToShown, ConsoleOK
  <2> QED BY <1>2, <1>3, <1>4, <1>5, <2>1, <2>2, <2>4 DEF ConsoleOK, CloseTab
<1> QED BY <1>8, <1>9

\* Menu, tabs and dialog keep the keys where they belong.
LEMMA ConsoleStep == ConsoleOK /\ Next => ConsoleOK'
<1> SUFFICES ASSUME ConsoleOK, Next PROVE ConsoleOK'
  OBVIOUS
<1>1. ASSUME NEW v \in Views, Menu(v) PROVE ConsoleOK'
  BY <1>1 DEF Menu, Locked, ConsoleOK, KeysGoToShown
<1>2. ASSUME NEW t \in Tabs, TabClick(t) PROVE ConsoleOK'
  BY <1>2 DEF TabClick, Focus, ConsoleOK, KeysGoToShown
<1>3. ASSUME NEW i \in DOMAIN tabs, CloseTab(i) PROVE ConsoleOK'
  BY <1>3, CloseStep
<1>4. CASE form_change_server \/ Cancel
  BY <1>4 DEF form_change_server, Cancel, ConsoleOK, KeysGoToShown
<1>5. ASSUME NEW r \in Connects, Connected(r) \/ NotConnected(r) PROVE ConsoleOK'
  BY <1>5 DEF Connected, NotConnected, Success, ConsoleOK, KeysGoToShown
<1>6. ASSUME UNCHANGED keyboard PROVE ConsoleOK'
  BY <1>6 DEF keyboard, ConsoleOK, KeysGoToShown
<1>7. ASSUME NEW r \in Connects, onChangeServer(r) \/ Handle(r)
      PROVE  UNCHANGED keyboard
  BY <1>7 DEF onChangeServer, Handle
<1>8. ASSUME ConnectElsewhere PROVE UNCHANGED keyboard
  BY <1>8 DEF ConnectElsewhere
<1>9. CASE Configured \/ execute_query \/ clear_results
  BY <1>6, <1>9 DEF Configured, execute_query, clear_results
<1>10. ASSUME NEW i \in DOMAIN queries, QuerySucceeds(i) \/ QueryRefused(i) \/ QueryDropped(i)
       PROVE  UNCHANGED keyboard
  BY <1>10 DEF QuerySucceeds, QueryRefused, QueryDropped
<1> QED BY <1>1, <1>2, <1>3, <1>4, <1>5, <1>6, <1>7, <1>8, <1>9, <1>10, Steps

-----------------------------------------------------------------------------
\* The address: types of its variables, and what Quiet needs besides itself.
Causes == {"overlap", "failed", "config", "elsewhere"}
AddressTypes ==
  /\ connects \in [Connects -> {"unused", "sent", "done"}]
  /\ form \in [Connects -> Forms \cup {None}] /\ thread \in [Connects -> Threads]
  /\ config \in {"sent", "done"} /\ label \in Labels \cup {None}
  /\ session \in Address /\ blame \subseteq Causes
AddressOK == AddressTypes /\ ThreadsOK /\ Quiet

\* Change is pressed: a connect more is under way.
LEMMA ChangeStep ==
  ASSUME AddressOK, NEW r \in Connects, onChangeServer(r)
  PROVE  AddressOK'
<1> USE DEF AddressOK, AddressTypes
<1>1. PICK f \in Forms : form' = [form EXCEPT ![r] = f]
  BY DEF onChangeServer
<1>2. /\ connects' = [connects EXCEPT ![r] = "sent"] /\ connects[r] = "unused"
      /\ thread' = [thread EXCEPT ![r] = "writeHost"]
      /\ UNCHANGED <<config, label, session>>
  BY DEF onChangeServer
<1>3. AddressTypes'
  BY <1>1, <1>2 DEF onChangeServer, Threads, Causes
<1>4. ThreadsOK'
  BY <1>1, <1>2 DEF ThreadsOK, Complete
<1>5. ASSUME blame' = {} PROVE blame = {} /\ \A q \in Connects : ~Busy(q)
  BY <1>5 DEF onChangeServer
<1>6. \A q \in Connects \ {r} : Busy(q)' <=> Busy(q)
  BY <1>2 DEF Busy, Writing
<1>7. Quiet'
  BY <1>2, <1>5, <1>6 DEF Quiet, Busy, Writing, Written, LeadsTo
<1> QED BY <1>3, <1>4, <1>7

\* What a step of connect r's thread writes.
LEMMA ThreadStep ==
  ASSUME AddressOK, NEW r \in Connects, Handle(r)
  PROVE  /\ Writing(r) /\ form[r] \in Form
         /\ UNCHANGED <<form, connects, config, label, blame>>
         /\ thread' = [thread EXCEPT ![r] = thread'[r]]
         /\ \/ /\ thread[r] = "writeHost" /\ ~Complete(r)
               /\ thread'[r] = "dropped" /\ session' = session
            \/ /\ thread[r] = "writeHost" /\ Complete(r) /\ thread'[r] = "writePort"
               /\ session' = [session EXCEPT !.host = form[r].host]
            \/ thread[r] = "writePort" /\ thread'[r] = "dropped" /\ session' = session
            \/ /\ thread[r] = "writePort" /\ form[r].port # BadPort
               /\ thread'[r] = IF form[r].ns # None THEN "writeNs" ELSE "respond"
               /\ session' = [session EXCEPT !.port = form[r].port]
            \/ /\ thread[r] = "writeNs" /\ thread'[r] = "respond"
               /\ session' = [session EXCEPT !.ns = form[r].ns]
<1> USE DEF AddressOK, AddressTypes, Server!Goto
<1>1. Writing(r) /\ UNCHANGED <<connects, config, label, blame>>
  BY DEF Handle
<1>2. form[r] \in Form
  BY <1>1, PageAssumption DEF ThreadsOK, Writing
<1>3. CASE ~Complete(r)
  <2>1. thread[r] = "writeHost"
    BY <1>1, <1>3 DEF ThreadsOK, Writing
  <2> QED BY <1>1, <1>2, <1>3, <2>1 DEF Handle
<1>4. CASE Complete(r) /\ Server!WriteHost(r)
  BY <1>1, <1>2, <1>4 DEF Server!WriteHost
<1>5. CASE Server!WritePort(r)
  BY <1>1, <1>2, <1>5 DEF Server!WritePort
<1>6. CASE Server!WriteNs(r)
  <2>1. form[r].kind = "connect"
    BY <1>2 DEF Form
  <2> QED BY <1>1, <1>2, <1>6, <2>1 DEF Server!WriteNs
<1> QED BY <1>3, <1>4, <1>5, <1>6 DEF Handle

\* A connect's thread writes one field; alone, it finds the others as it left them.
LEMMA HandleStep ==
  ASSUME AddressOK, NEW r \in Connects, Handle(r)
  PROVE  AddressOK'
<1> USE DEF AddressOK, AddressTypes
<1>1. /\ Writing(r) /\ form[r] \in Form
      /\ UNCHANGED <<form, connects, config, label, blame>>
      /\ thread' = [thread EXCEPT ![r] = thread'[r]]
      /\ \/ /\ thread[r] = "writeHost" /\ ~Complete(r)
            /\ thread'[r] = "dropped" /\ session' = session
         \/ /\ thread[r] = "writeHost" /\ Complete(r) /\ thread'[r] = "writePort"
            /\ session' = [session EXCEPT !.host = form[r].host]
         \/ thread[r] = "writePort" /\ thread'[r] = "dropped" /\ session' = session
         \/ /\ thread[r] = "writePort" /\ form[r].port # BadPort
            /\ thread'[r] = IF form[r].ns # None THEN "writeNs" ELSE "respond"
            /\ session' = [session EXCEPT !.port = form[r].port]
         \/ /\ thread[r] = "writeNs" /\ thread'[r] = "respond"
            /\ session' = [session EXCEPT !.ns = form[r].ns]
  BY ThreadStep
<1>2. thread'[r] \in Threads
  BY <1>1 DEF Threads
<1>3. session' \in Address
  BY <1>1 DEF Address, Form, ThreadsOK, Complete
<1>4. AddressTypes'
  BY <1>1, <1>2, <1>3
<1>5. \A q \in Connects : Complete(q)' <=> Complete(q)
  BY <1>1 DEF Complete
<1>6. ThreadsOK'
  BY <1>1, <1>5 DEF ThreadsOK, Writing
<1>7. ASSUME blame = {}
      PROVE  connects[r] = "sent" /\ Written(r) /\ \A q \in Connects \ {r} : ~Busy(q)
  BY <1>1, <1>7 DEF Quiet, Busy
<1>8. ASSUME blame = {} PROVE Written(r)' /\ thread'[r] \in Begun
  <2>1. session \in Address
    OBVIOUS
  <2> QED BY <1>1, <1>7, <1>8, <2>1 DEF Written, Address, Begun
<1>9. \A q \in Connects \ {r} : Busy(q)' <=> Busy(q)
  BY <1>1 DEF Busy, Writing
<1>10. Quiet'
  <2> SUFFICES ASSUME blame = {}
      PROVE  /\ \A q, t \in Connects : Busy(q)' /\ Busy(t)' => q = t
             /\ \A q \in Connects : Writing(q)' => connects'[q] = "sent"
             /\ \A q \in Connects : connects'[q] = "sent" => Written(q)'
             /\ \E q \in Connects : connects'[q] = "sent" /\ thread'[q] \in Begun
    BY <1>1, Zenon DEF Quiet
  <2>1. \A q \in Connects \ {r} : ~Busy(q)'
    BY <1>7, <1>9
  <2> QED BY <1>1, <1>7, <1>8, <2>1 DEF Busy
<1> QED BY <1>4, <1>6, <1>10

\* The label takes what was typed, so it has the dialog's type.
LEMMA SuccessStep ==
  ASSUME AddressOK, NEW r \in Connects, Success(r), blame' \subseteq Causes,
         thread[r] # "writeHost" => UNCHANGED thread,
         UNCHANGED thread \/ thread' = [thread EXCEPT ![r] = "dropped"]
  PROVE  /\ AddressTypes' /\ ThreadsOK'
         /\ UNCHANGED <<form, session>> /\ label' = AddressOf(r)
         /\ connects' = [connects EXCEPT ![r] = "done"] /\ connects[r] = "sent"
         /\ \A q \in Connects \ {r} : Busy(q)' <=> Busy(q)
<1> USE DEF AddressOK, AddressTypes
<1>1. /\ connects' = [connects EXCEPT ![r] = "done"] /\ label' = AddressOf(r)
      /\ UNCHANGED <<form, config, session>> /\ connects[r] = "sent"
  BY DEF Success
<1>2. form[r] \in Form
  BY <1>1, PageAssumption DEF ThreadsOK
<1>3. label' \in Labels
  BY <1>1, <1>2 DEF AddressOf, Labels, Form
<1>4. AddressTypes'
  BY <1>1, <1>3 DEF Threads
<1>5. \A q \in Connects : Complete(q)' <=> Complete(q)
  BY <1>1 DEF Complete
<1>6. ThreadsOK'
  BY <1>1, <1>5 DEF ThreadsOK
<1>7. \A q \in Connects \ {r} : Busy(q)' <=> Busy(q)
  BY <1>1 DEF Busy, Writing
<1> QED BY <1>1, <1>4, <1>6, <1>7

\* The answer sets the label; alone, to what the session then holds.
LEMMA ConnectedStep ==
  ASSUME AddressOK, NEW r \in Connects, Connected(r)
  PROVE  AddressOK'
<1> USE DEF AddressOK, AddressTypes
<1>1. Success(r) /\ UNCHANGED thread /\ thread[r] = "respond" /\ blame' \subseteq Causes
  BY DEF Connected
<1>2. /\ AddressTypes' /\ ThreadsOK'
      /\ UNCHANGED <<form, session>> /\ label' = AddressOf(r)
      /\ connects' = [connects EXCEPT ![r] = "done"] /\ connects[r] = "sent"
      /\ \A q \in Connects \ {r} : Busy(q)' <=> Busy(q)
  BY <1>1, SuccessStep
<1>3. ASSUME blame' = {}
      PROVE  LeadsTo(label)' /\ \A q \in Connects \ {r} : ~Busy(q)
  <2>1. CASE blame = {}
    <3>1. Written(r) /\ Busy(r) /\ \A q \in Connects \ {r} : ~Busy(q)
      BY <1>2, <2>1 DEF Quiet, Busy
    <3> QED BY <1>1, <1>2, <3>1 DEF Written, LeadsTo, AddressOf
  <2>2. CASE blame # {}
    <3>1. LeadsTo(label') /\ \A q \in Connects \ {r} : ~Busy(q)
      BY <1>3, <2>2 DEF Connected, Settled
    <3> QED BY <1>2, <3>1 DEF LeadsTo
  <2> QED BY <2>1, <2>2
<1>4. ~Busy(r)'
  BY <1>1, <1>2 DEF Busy, Writing
<1>5. Quiet'
  BY <1>2, <1>3, <1>4 DEF Quiet, Busy
<1> QED BY <1>2, <1>5

\* A connect without an answer leaves the label right, or is to blame.
LEMMA NotConnectedStep ==
  ASSUME AddressOK, NEW r \in Connects, NotConnected(r)
  PROVE  AddressOK'
<1> USE DEF AddressOK, AddressTypes
<1>1. /\ Success(r) /\ blame' \subseteq Causes
      /\ thread[r] # "writeHost" => UNCHANGED thread
      /\ UNCHANGED thread \/ thread' = [thread EXCEPT ![r] = "dropped"]
  BY DEF NotConnected, Causes
<1>2. /\ AddressTypes' /\ ThreadsOK'
      /\ UNCHANGED <<form, session>> /\ label' = AddressOf(r)
      /\ connects' = [connects EXCEPT ![r] = "done"] /\ connects[r] = "sent"
      /\ \A q \in Connects \ {r} : Busy(q)' <=> Busy(q)
  BY <1>1, SuccessStep
<1>3. ASSUME blame' = {}
      PROVE  LeadsTo(label') /\ ~Writing(r)' /\ \A q \in Connects \ {r} : ~Busy(q)
  BY <1>3 DEF NotConnected, Settled
<1>4. ASSUME blame' = {} PROVE LeadsTo(label)' /\ ~Busy(r)'
  BY <1>2, <1>3, <1>4 DEF LeadsTo, Busy
<1>5. Quiet'
  BY <1>2, <1>3, <1>4 DEF Quiet, Busy
<1> QED BY <1>2, <1>5

\* The answer to /get_config/ sets the label, rightly or to blame.
LEMMA ConfiguredStep == AddressOK /\ Configured => AddressOK'
<1> SUFFICES ASSUME AddressOK, Configured PROVE AddressOK'
  OBVIOUS
<1> USE DEF AddressOK, AddressTypes
<1>1. UNCHANGED <<connects, form, thread, session>> /\ config' = "done"
  BY DEF Configured
<1>2. Default \in Labels
  BY PageAssumption DEF Address, Labels
<1>3. AddressTypes' /\ ThreadsOK'
  BY <1>1, <1>2 DEF Configured, ThreadsOK, Complete, Causes
<1>4. ASSUME blame' = {}
      PROVE  /\ blame = {}
             /\ label' = label \/ (label' = Default /\ LeadsTo(Default))
  BY <1>4 DEF Configured
<1>5. \A q \in Connects : /\ Busy(q)' <=> Busy(q)
                          /\ Writing(q)' <=> Writing(q)
                          /\ Written(q)' <=> Written(q)
  BY <1>1 DEF Busy, Writing, Written
<1>6. CASE blame' # {}
  BY <1>3, <1>6 DEF Quiet
<1>7. CASE blame' = {} /\ label' = label
  <2>1. LeadsTo(label)' <=> LeadsTo(label)
    BY <1>1, <1>7 DEF LeadsTo
  <2>2. Quiet'
    BY <1>1, <1>4, <1>5, <1>7, <2>1 DEF Quiet
  <2> QED BY <1>3, <2>2
<1>8. CASE blame' = {} /\ label' = Default /\ LeadsTo(Default)
  <2>1. LeadsTo(label)'
    BY <1>1, <1>8 DEF LeadsTo
  <2>2. Quiet'
    BY <1>1, <1>4, <1>5, <1>8, <2>1 DEF Quiet
  <2> QED BY <1>3, <2>2
<1> QED BY <1>4, <1>6, <1>7, <1>8

\* Who changes the session from elsewhere is to blame.
LEMMA ElsewhereStep == AddressOK /\ ConnectElsewhere => AddressOK'
<1> SUFFICES ASSUME AddressOK, ConnectElsewhere PROVE AddressOK'
  OBVIOUS
<1>1. UNCHANGED <<connects, form, thread, config, label>> /\ "elsewhere" \in blame'
  BY DEF ConnectElsewhere
<1>2. session' \in Address
  BY DEF ConnectElsewhere, AddressOK, AddressTypes, Address
<1> QED BY <1>1, <1>2 DEF ConnectElsewhere, AddressOK, AddressTypes, ThreadsOK, Complete, Quiet,
                       Causes

\* Every step, as far as label and session go.
LEMMA AddressStep == AddressOK /\ Next => AddressOK'
<1> SUFFICES ASSUME AddressOK, Next PROVE AddressOK'
  OBVIOUS
<1>1. ASSUME UNCHANGED address PROVE AddressOK'
  BY <1>1 DEF address, AddressOK, AddressTypes, ThreadsOK, Complete, Quiet, Busy, Writing,
              Written, LeadsTo
<1>4. ASSUME NEW v \in Views, Menu(v) PROVE UNCHANGED address
  BY <1>4 DEF Menu
<1>5. ASSUME NEW t \in Tabs, TabClick(t) PROVE UNCHANGED address
  BY <1>5 DEF TabClick
<1>6. ASSUME NEW i \in DOMAIN tabs, CloseTab(i) PROVE UNCHANGED address
  BY <1>6 DEF CloseTab
<1>7. CASE form_change_server \/ Cancel \/ execute_query \/ clear_results
  BY <1>1, <1>7 DEF form_change_server, Cancel, execute_query, clear_results
<1>8. ASSUME NEW i \in DOMAIN queries, QuerySucceeds(i) \/ QueryRefused(i) \/ QueryDropped(i)
      PROVE  UNCHANGED address
  BY <1>8 DEF QuerySucceeds, QueryRefused, QueryDropped
<1> QED BY <1>1, <1>4, <1>5, <1>6, <1>7, <1>8, Steps, ChangeStep, HandleStep,
           ConnectedStep, NotConnectedStep, ConfiguredStep, ElsewhereStep

-----------------------------------------------------------------------------
\* The table: types of its variables, and what the user who waits sees.
QueryStates == {"sent", "done", "refused", "dropped"}
TableOK ==
  /\ queries \in Seq(QueryStates) /\ result \in 0 .. Len(queries)
  /\ hasty \in BOOLEAN /\ Patient

\* A query more: hasty, if another is under way.
LEMMA AskStep == TableOK /\ execute_query => TableOK'
<1> SUFFICES ASSUME TableOK, execute_query PROVE TableOK'
  OBVIOUS
<1> DEFINE n == Len(queries)
<1>1. n \in Nat /\ DOMAIN queries = 1 .. n /\ result \in 0 .. n
  BY LenProperties DEF TableOK
<1>2. /\ queries' \in Seq(QueryStates) /\ Len(queries') = n + 1
      /\ \A i \in 1 .. n : queries'[i] = queries[i]
      /\ queries'[n + 1] = "sent"
  <2>1. queries' = Append(queries, "sent") /\ "sent" \in QueryStates
    BY DEF execute_query, QueryStates
  <2> QED BY <2>1, AppendProperties DEF TableOK
<1>3. DOMAIN queries' = 1 .. n + 1
  BY <1>2, LenProperties
<1>4. result' \in 0 .. n
  BY <1>1 DEF execute_query
<1>5. hasty' \in BOOLEAN
  BY Zenon DEF execute_query, TableOK
<1>6. hasty' = FALSE => \A i \in DOMAIN queries : queries[i] # "sent"
  BY Zenon DEF execute_query
<1> HIDE DEF n
<1>7. ASSUME hasty' = FALSE, NEW i \in DOMAIN queries', queries'[i] = "sent"
      PROVE  i = Len(queries')
  <2>1. CASE i \in 1 .. n
    BY <1>1, <1>2, <1>6, <1>7, <2>1
  <2>2. CASE i \notin 1 .. n
    BY <1>1, <1>2, <1>3, <1>7, <2>2
  <2> QED BY <2>1, <2>2
<1>8. Patient'
  <2>1. OneAsked'
    BY <1>7 DEF OneAsked
  <2>2. ResultIsNewest'
    BY <1>2 DEF ResultIsNewest
  <2> QED BY <2>1, <2>2 DEF Patient
<1>9. result' \in 0 .. Len(queries')
  BY <1>1, <1>2, <1>4
<1> QED BY <1>2, <1>5, <1>8, <1>9 DEF TableOK

\* An answer to query i, seen query by query.
LEMMA Answered ==
  ASSUME TableOK, NEW i \in DOMAIN queries, queries[i] = "sent",
         NEW x \in QueryStates, x # "sent", queries' = [queries EXCEPT ![i] = x]
  PROVE  /\ queries' \in Seq(QueryStates) /\ Len(queries') = Len(queries)
         /\ i \in 1 .. Len(queries) /\ queries'[i] = x
         /\ hasty = FALSE => /\ i = Len(queries)
                             /\ \A j \in DOMAIN queries' : queries'[j] # "sent"
<1>1. DOMAIN queries = 1 .. Len(queries) /\ Len(queries) \in Nat
  BY LenProperties DEF TableOK
<1>2. /\ queries' \in Seq(QueryStates) /\ Len(queries') = Len(queries)
      /\ queries'[i] = x /\ DOMAIN queries' = DOMAIN queries
      /\ \A j \in DOMAIN queries : j # i => queries'[j] = queries[j]
  BY <1>1, ExceptSeq DEF TableOK
<1> QED BY <1>1, <1>2 DEF TableOK, Patient, OneAsked

\* The end of a query: an answer, an error status, or none.
LEMMA AnswerStep ==
  ASSUME TableOK, NEW i \in DOMAIN queries,
         QuerySucceeds(i) \/ QueryRefused(i) \/ QueryDropped(i)
  PROVE  TableOK'
<1>1. CASE QuerySucceeds(i)
  <2>1. /\ queries[i] = "sent" /\ "done" \in QueryStates
        /\ queries' = [queries EXCEPT ![i] = "done"] /\ result' = i
    BY <1>1 DEF QuerySucceeds, QueryStates, Filled
  <2>2. hasty' = hasty
    BY <1>1 DEF QuerySucceeds
  <2>3. Patient'
    BY <2>1, <2>2, Answered DEF TableOK, Patient, OneAsked, ResultIsNewest
  <2>4. result' \in 0 .. Len(queries')
    BY <2>1, Answered
  <2> QED BY <2>1, <2>2, <2>3, <2>4, Answered DEF TableOK
<1>2. CASE QueryRefused(i)
  <2>1. /\ queries[i] = "sent" /\ "refused" \in QueryStates
        /\ queries' = [queries EXCEPT ![i] = "refused"] /\ result' = result
    BY <1>2 DEF QueryRefused, QueryStates
  <2>2. hasty' = hasty
    BY <1>2 DEF QueryRefused
  <2>3. Patient'
    BY <2>1, <2>2, Answered DEF TableOK, Patient, OneAsked, ResultIsNewest
  <2>4. result' \in 0 .. Len(queries')
    BY <2>1, Answered DEF TableOK
  <2> QED BY <2>1, <2>2, <2>3, <2>4, Answered DEF TableOK
<1>3. CASE QueryDropped(i)
  <2>1. /\ queries[i] = "sent" /\ "dropped" \in QueryStates
        /\ queries' = [queries EXCEPT ![i] = "dropped"] /\ result' = 0
    BY <1>3 DEF QueryDropped, QueryStates
  <2>2. hasty' = hasty
    BY <1>3 DEF QueryDropped
  <2>3. Patient'
    BY <2>1, <2>2, Answered DEF TableOK, Patient, OneAsked, ResultIsNewest
  <2>4. result' \in 0 .. Len(queries')
    BY <2>1, Answered DEF TableOK
  <2> QED BY <2>1, <2>2, <2>3, <2>4, Answered DEF TableOK
<1> QED BY <1>1, <1>2, <1>3

\* Every step, as far as the table goes.
LEMMA TableStep == TableOK /\ Next => TableOK'
<1> SUFFICES ASSUME TableOK, Next PROVE TableOK'
  OBVIOUS
<1>1. ASSUME UNCHANGED table PROVE TableOK'
  BY <1>1 DEF table, TableOK, Patient, OneAsked, ResultIsNewest
<1>2. CASE clear_results
  <2>1. result' = 0 /\ UNCHANGED <<queries, hasty>>
    BY <1>2 DEF clear_results
  <2>2. 0 \in 0 .. Len(queries)
    BY LenProperties DEF TableOK
  <2> QED BY <2>1, <2>2 DEF TableOK, Patient, OneAsked, ResultIsNewest
<1>3. ASSUME NEW v \in Views, Menu(v) PROVE UNCHANGED table
  BY <1>3 DEF Menu
<1>4. ASSUME NEW t \in Tabs, TabClick(t) PROVE UNCHANGED table
  BY <1>4 DEF TabClick
<1>5. ASSUME NEW i \in DOMAIN tabs, CloseTab(i) PROVE UNCHANGED table
  BY <1>5 DEF CloseTab
<1>6. CASE form_change_server \/ Cancel \/ Configured
  BY <1>1, <1>6 DEF form_change_server, Cancel, Configured
<1>7. ASSUME NEW r \in Connects, onChangeServer(r) \/ Handle(r)
      PROVE  UNCHANGED table
  BY <1>7 DEF onChangeServer, Handle
<1>8. ASSUME NEW r \in Connects, Connected(r) \/ NotConnected(r) PROVE UNCHANGED table
  BY <1>8 DEF Connected, NotConnected, Success
<1>9. ASSUME ConnectElsewhere PROVE UNCHANGED table
  BY <1>9 DEF ConnectElsewhere
<1> QED BY <1>1, <1>2, <1>3, <1>4, <1>5, <1>6, <1>7, <1>8, <1>9, Steps, AskStep,
           AnswerStep

-----------------------------------------------------------------------------
\* The invariant is that of its three parts, which share no variable.
LEMMA Parts == IInv <=> ConsoleOK /\ AddressOK /\ TableOK
  BY DEF IInv, TypeOK, ConsoleOK, AddressOK, AddressTypes, Causes, TableOK, QueryStates

\* Every step keeps it.
LEMMA NextIInv == IInv /\ [Next]_vars => IInv'
<1>1. CASE UNCHANGED vars
  BY <1>1 DEF vars, keyboard, address, table, IInv, TypeOK, KeysGoToShown,
              ThreadsOK, Complete, Quiet, Busy, Writing, Written, LeadsTo, Patient,
              OneAsked, ResultIsNewest
<1>2. IInv' <=> ConsoleOK' /\ AddressOK' /\ TableOK'
  BY DEF IInv, TypeOK, ConsoleOK, AddressOK, AddressTypes, Causes, TableOK, QueryStates
<1> QED BY <1>1, <1>2, Parts, ConsoleStep, AddressStep, TableStep

\* It holds in every reachable state.
LEMMA Invariance == Spec => []IInv
  BY InitIInv, NextIInv, PTL DEF Spec

(* Every variable keeps its type: in particular the tab shown is always    *)
(* one that is there and has been opened (removeOption, open).             *)
THEOREM TypeCorrect == Spec => []TypeOK
<1>1. IInv => TypeOK
  BY DEF IInv
<1> QED BY <1>1, Invariance, PTL

(* Keys never go to a terminal that is on the page and not shown, however  *)
(* many tabs there are and in whatever order they are clicked and closed   *)
(* (setFocus, open, removeOption).                                         *)
THEOREM KeysStay == Spec => []KeysGoToShown
<1>1. IInv => KeysGoToShown
  BY DEF IInv
<1> QED BY <1>1, Invariance, PTL

(* The label and the session differ only for the four causes that          *)
(* LabelIsSession names, whatever the dialog is filled with and however    *)
(* connects end (onChangeServer, /connect/, get_config).                   *)
THEOREM LabelRight == Spec => []LabelIsSession
<1>1. IInv => LabelIsSession
  BY DEF IInv, Quiet, LabelIsSession
<1> QED BY <1>1, Invariance, PTL

(* Whoever waits for each answer never sees an older query's result once   *)
(* the newest is answered or dropped (execute_query).                      *)
THEOREM NewestShown == Spec => []ResultIsNewest
<1>1. IInv => ResultIsNewest
  BY DEF IInv, Patient
<1> QED BY <1>1, Invariance, PTL

\* Any step that takes the keyboard is one of the two kinds.
LEMMA Takes ==
  ASSUME IInv, Next, ~Taken, Taken'
  PROVE  \/ \E r \in Connects : connects[r] # "done" /\ connects'[r] = "done"
         \/ dialog = "open" /\ dialog' = "hidden" /\ view # Console
<1>1. ASSUME NEW v \in Views, Menu(v) PROVE FALSE
  BY <1>1 DEF Menu, Locked, Taken
<1>2. ASSUME NEW t \in Tabs, TabClick(t) PROVE FALSE
  BY <1>2 DEF TabClick, Taken
<1>3. ASSUME NEW i \in DOMAIN tabs, CloseTab(i) PROVE FALSE
  BY <1>3 DEF CloseTab, Taken
<1>4. ASSUME form_change_server PROVE FALSE
  BY <1>4 DEF form_change_server, Taken
<1>5. CASE Cancel
  BY <1>5 DEF Cancel, Taken
<1>6. ASSUME NEW r \in Connects, Connected(r) \/ NotConnected(r)
      PROVE  connects[r] # "done" /\ connects'[r] = "done"
  BY <1>6 DEF Connected, NotConnected, Success, IInv, TypeOK
<1>7. ASSUME UNCHANGED keyboard PROVE FALSE
  BY <1>7 DEF keyboard, Taken
<1>8. ASSUME NEW r \in Connects, onChangeServer(r) \/ Handle(r)
      PROVE  UNCHANGED keyboard
  BY <1>8 DEF onChangeServer, Handle
<1>9. ASSUME ConnectElsewhere PROVE UNCHANGED keyboard
  BY <1>9 DEF ConnectElsewhere
<1>10. CASE Configured \/ execute_query \/ clear_results
  BY <1>7, <1>10 DEF Configured, execute_query, clear_results
<1>11. ASSUME NEW i \in DOMAIN queries, QuerySucceeds(i) \/ QueryRefused(i) \/ QueryDropped(i)
       PROVE  UNCHANGED keyboard
  BY <1>11 DEF QuerySucceeds, QueryRefused, QueryDropped
<1> QED BY <1>1, <1>2, <1>3, <1>4, <1>5, <1>6, <1>7, <1>8, <1>9, <1>10, <1>11, Steps

(* The terminals take the keyboard from elsewhere only at the end of a     *)
(* connect or by Cancel in another view (onChangeServer, the Cancel        *)
(* button, the menu).                                                      *)
THEOREM KeyboardTaken == Spec => KeyboardTakenOnlyBy
<1>1. IInv /\ [Next]_vars =>
        [~Taken /\ Taken' =>
           \/ \E r \in Connects : connects[r] # "done" /\ connects'[r] = "done"
           \/ dialog = "open" /\ dialog' = "hidden" /\ view # Console]_vars
  BY Takes
<1> QED BY <1>1, Invariance, PTL DEF Spec, KeyboardTakenOnlyBy
=============================================================================
