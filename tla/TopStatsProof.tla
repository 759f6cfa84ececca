--------------------------- MODULE TopStatsProof ---------------------------
(***************************************************************************)
(* What holds of TopStats for any number of browsers and tablets.  The     *)
(* argument: while no two polls work on a tablet at once, its element has  *)
(* one writer, so between a poll's steps the element holds what the poll   *)
(* left in it (Working), the sum of the rows follows the stored value, and *)
(* a value only another poll has changed is marked in mixed and newer.     *)
(***************************************************************************)
EXTENDS TopStats, TLAPS

Past == {"diff", "store", "read", "guard", "divide"}

\* Elements are never shared between tablets.
OwnElements ==
  /\ \A tab \in Tablets : topMap[tab] # None => topMap[tab][2] = tab
  /\ \A p \in Pollers : pc[p] \in Past => topData[p][2] = t[p]
  /\ \A p \in Pollers : pc[p] = "load" => topMap[t[p]] # None

Alone ==
  \A p, q \in Pollers :
    p # q /\ AtWork(p) /\ AtWork(q) /\ t[p] = t[q] => t[p] \in clash

\* What a poll at work on a tablet of its own knows of its element.
Reference ==
  \A p \in Pollers : AtWork(p) /\ t[p] \notin clash =>
    /\ pc[p] = "insert" => topMap[t[p]] = None
    /\ pc[p] # "insert" => topMap[t[p]] # None
    /\ pc[p] \in Past => topData[p] = topMap[t[p]]

Knows(p) ==
  /\ pc[p] = "store" =>
       readDiffTime[topData[p]] = ret[p][t[p]] - readTime[topData[p]]
  /\ pc[p] = "read" =>
       /\ readTime[topData[p]] = ret[p][t[p]]
       /\ computed[t[p]] + readDiffTime[topData[p]] = readTime[topData[p]]
  /\ pc[p] = "divide" => readDiffTime[topData[p]] # 0
  /\ pc[p] \in {"store", "read"} /\ t[p] \notin mixed[p] =>
       readDiffTime[topData[p]] = ret[p][t[p]] - last[p][t[p]]
  /\ pc[p] \in {"store", "read"} /\ restarted = FALSE /\ t[p] \notin newer[p] =>
       readDiffTime[topData[p]] >= 0

Working == \A p \in Pollers : AtWork(p) /\ t[p] \notin clash => Knows(p)

\* What is stored for a tablet.
Stored(tab) == IF topMap[tab] = None THEN 0 ELSE readTime[topMap[tab]]

LastStored ==
  \A p \in Pollers : \A tab \in Tablets :
    tab \notin clash /\ tab \notin mixed[p] /\ (pc[p] = "read" => t[p] # tab) =>
      last[p][tab] = Stored(tab)

InTime ==
  restarted = FALSE =>
    /\ \A p \in Pollers : \A tab \in Tablets : ret[p][tab] <= readtime[tab]
    /\ \A e \in Elements : readTime[e] <= readtime[e[2]]
    /\ \A p \in Pollers : \A tab \in Tablets :
         tab \notin clash /\ tab \notin newer[p] /\ pc[p] \notin {"idle", "ended", "zero"}
           => Stored(tab) <= ret[p][tab]

IInv ==
  /\ TypeOK /\ OwnElements /\ Alone /\ Reference /\ Working /\ RowsAddUp
  /\ LastStored /\ InTime /\ ZeroDivisionHasCause

-----------------------------------------------------------------------------
LEMMA ElementShape == \A e \in Elements : e # None /\ e[2] \in Tablets
  BY StatsAssumption DEF Elements

LEMMA InitIInv == Init => IInv
<1> SUFFICES ASSUME Init PROVE IInv
  OBVIOUS
<1> USE StatsAssumption
<1>1. TypeOK
  <2>1. /\ readtime \in [Tablets -> Nat] /\ topMap \in [Tablets -> Elements \cup {None}]
    BY DEF Init, Zeros
  <2>5. restarted \in BOOLEAN
    BY DEF Init
  <2>6. readTime \in [Elements -> Nat] /\ readDiffTime \in [Elements -> Int]
    BY DEF Init
  <2>2. /\ ret \in [Pollers -> [Tablets -> Nat]] /\ computed \in [Tablets -> Int]
        /\ last \in [Pollers -> [Tablets -> Nat]]
    BY DEF Init, Zeros
  <2>3. /\ todo \in [Pollers -> SUBSET Tablets] /\ t \in [Pollers -> Tablets \cup {None}]
        /\ topData \in [Pollers -> Elements \cup {None}]
        /\ mixed \in [Pollers -> SUBSET Tablets] /\ newer \in [Pollers -> SUBSET Tablets]
        /\ clash \subseteq Tablets
    BY DEF Init
  <2>4. \A p \in Pollers : pc[p] = "idle"
    BY DEF Init
  <2> QED
    BY <2>1, <2>2, <2>3, <2>4, <2>5, <2>6 DEF Init, TypeOK, AtWork
<1>2. OwnElements /\ Alone /\ Reference /\ Working
  BY DEF Init, OwnElements, Alone, Reference, Working, Knows, AtWork, Past
<1>3. RowsAddUp /\ LastStored /\ ZeroDivisionHasCause
  BY DEF Init, RowsAddUp, LastStored, ZeroDivisionHasCause, Zeros, Stored
<1>4. InTime
  BY DEF Init, InTime, Zeros, Stored, Elements
<1> QED
  BY <1>1, <1>2, <1>3, <1>4 DEF IInv

LEMMA WorkStep ==
  ASSUME IInv, NEW tab \in Tablets, Work(tab) PROVE IInv'
<1> USE StatsAssumption
<1>1. TypeOK'
  BY DEF Work, IInv, TypeOK, AtWork, shared, local, history
<1>2. OwnElements'
  BY DEF Work, IInv, TypeOK, OwnElements, Past, shared, local, history
<1>3. Alone'
  BY DEF Work, IInv, TypeOK, Alone, AtWork, shared, local, history
<1>4. Reference'
  BY DEF Work, IInv, TypeOK, Reference, AtWork, Past, Alone, shared, local, history
<1>5. Working'
  BY DEF Work, IInv, Working, Knows, AtWork, Past, Alone, LastStored, shared, local,
         history
<1>6. RowsAddUp'
  BY DEF Work, IInv, TypeOK, RowsAddUp, shared, local, history
<1>7. LastStored'
  BY DEF Work, IInv, TypeOK, LastStored, Stored, shared, local, history
<1>8. InTime'
  BY DEF Work, IInv, TypeOK, InTime, Stored, shared, local, history
<1>9. ZeroDivisionHasCause'
  BY DEF Work, IInv, TypeOK, ZeroDivisionHasCause, shared, local, history
<1> QED
  BY <1>1, <1>2, <1>3, <1>4, <1>5, <1>6, <1>7, <1>8, <1>9 DEF IInv

LEMMA RestartStep ==
  ASSUME IInv, Restart PROVE IInv'
<1> USE StatsAssumption
<1>1. TypeOK'
  BY DEF Restart, IInv, TypeOK, AtWork, shared, local, history
<1>2. OwnElements'
  BY DEF Restart, IInv, TypeOK, OwnElements, Past, shared, local, history
<1>3. Alone'
  BY DEF Restart, IInv, TypeOK, Alone, AtWork, shared, local, history
<1>4. Reference'
  BY DEF Restart, IInv, TypeOK, Reference, AtWork, Past, Alone, shared, local, history
<1>5. Working'
  BY DEF Restart, IInv, Working, Knows, AtWork, Past, Alone, LastStored, shared,
         local, history
<1>6. RowsAddUp'
  BY DEF Restart, IInv, TypeOK, RowsAddUp, shared, local, history
<1>7. LastStored'
  BY DEF Restart, IInv, TypeOK, LastStored, Stored, shared, local, history
<1>8. InTime'
  BY DEF Restart, IInv, TypeOK, InTime, shared, local, history
<1>9. ZeroDivisionHasCause'
  BY DEF Restart, IInv, ZeroDivisionHasCause, local, history
<1> QED
  BY <1>1, <1>2, <1>3, <1>4, <1>5, <1>6, <1>7, <1>8, <1>9 DEF IInv

LEMMA AskStep ==
  ASSUME IInv, NEW r \in Pollers, Ask(r) PROVE IInv'
<1> USE StatsAssumption
<1>1. TypeOK'
  BY DEF Ask, IInv, TypeOK, AtWork, orion, shared
<1>2. OwnElements'
  BY DEF Ask, IInv, TypeOK, OwnElements, Past, orion, shared
<1>3. Alone'
  BY DEF Ask, IInv, TypeOK, Alone, AtWork, orion, shared
<1>4. Reference'
  BY DEF Ask, IInv, TypeOK, Reference, AtWork, Past, Alone, shared
<1>5. Working'
  BY DEF Ask, IInv, Working, Knows, AtWork, Past, Alone, LastStored, orion, shared
<1>6. RowsAddUp'
  BY DEF Ask, IInv, TypeOK, RowsAddUp, orion, shared
<1>7. LastStored'
  BY DEF Ask, IInv, TypeOK, LastStored, Stored, shared
<1>8. InTime'
  <2> SUFFICES ASSUME restarted' = FALSE PROVE InTime'
    BY DEF InTime
  <2>1. /\ restarted = FALSE /\ UNCHANGED <<readtime, shared>>
        /\ \A p \in Pollers : ret'[p] = IF p = r THEN readtime ELSE ret[p]
        /\ \A p \in Pollers \ {r} : newer'[p] = newer[p] /\ pc'[p] = pc[p]
        /\ UNCHANGED clash
    BY DEF Ask, IInv, TypeOK, orion
  <2>2. ASSUME NEW p \in Pollers, NEW tab \in Tablets
        PROVE  ret'[p][tab] <= readtime'[tab]
    <3>1. readtime[tab] \in Nat /\ readtime'[tab] = readtime[tab]
      BY <2>1 DEF IInv, TypeOK
    <3>2. ret[p][tab] <= readtime[tab]
      BY <2>1 DEF IInv, InTime
    <3> QED
      BY <2>1, <3>1, <3>2
  <2>3. \A x \in Elements : readTime'[x] <= readtime'[x[2]]
    BY <2>1 DEF IInv, InTime, shared
  <2>4. \A tab \in Tablets : Stored(tab)' = Stored(tab) /\ Stored(tab) <= readtime[tab]
    <3>1. ASSUME NEW tab \in Tablets PROVE Stored(tab)' = Stored(tab)
      BY <2>1 DEF Stored, shared
    <3>2. ASSUME NEW tab \in Tablets, topMap[tab] # None PROVE Stored(tab) <= readtime[tab]
      <4>1. topMap[tab] \in Elements /\ topMap[tab][2] = tab
        BY <3>2 DEF IInv, TypeOK, OwnElements
      <4> QED
        BY <2>1, <3>2, <4>1 DEF IInv, InTime, Stored
    <3>3. ASSUME NEW tab \in Tablets, topMap[tab] = None PROVE Stored(tab) <= readtime[tab]
      BY <3>3 DEF IInv, TypeOK, Stored
    <3> QED
      BY <3>1, <3>2, <3>3
  <2> QED
    BY <2>1, <2>2, <2>3, <2>4 DEF IInv, InTime
<1>9. ZeroDivisionHasCause'
  BY DEF Ask, IInv, ZeroDivisionHasCause
<1> QED
  BY <1>1, <1>2, <1>3, <1>4, <1>5, <1>6, <1>7, <1>8, <1>9 DEF IInv

LEMMA AskFailsStep ==
  ASSUME IInv, NEW r \in Pollers, AskFails(r) PROVE IInv'
<1> USE StatsAssumption
<1>1. TypeOK'
  BY DEF AskFails, IInv, TypeOK, AtWork, orion, shared, history
<1>2. OwnElements'
  BY DEF AskFails, IInv, TypeOK, OwnElements, Past, orion, shared, history
<1>3. Alone'
  BY DEF AskFails, IInv, TypeOK, Alone, AtWork, orion, shared, history
<1>4. Reference'
  BY DEF AskFails, IInv, TypeOK, Reference, AtWork, Past, Alone, shared, history
<1>5. Working'
  BY DEF AskFails, IInv, Working, Knows, AtWork, Past, Alone, LastStored, orion,
         shared, history
<1>6. RowsAddUp'
  BY DEF AskFails, IInv, TypeOK, RowsAddUp, orion, shared, history
<1>7. LastStored'
  BY DEF AskFails, IInv, TypeOK, LastStored, Stored, shared, history
<1>8. InTime'
  BY DEF AskFails, IInv, TypeOK, InTime, Stored, orion, shared, history
<1>9. ZeroDivisionHasCause'
  BY DEF AskFails, IInv, TypeOK, ZeroDivisionHasCause, orion, shared, history
<1> QED
  BY <1>1, <1>2, <1>3, <1>4, <1>5, <1>6, <1>7, <1>8, <1>9 DEF IInv

LEMMA InsertStep ==
  ASSUME IInv, NEW r \in Pollers, Insert(r) PROVE IInv'
<1> USE StatsAssumption
<1> DEFINE e == <<r, t[r]>>
<1>a. t[r] \in Tablets /\ AtWork(r) /\ e \in Elements /\ e[2] = t[r] /\ pc[r] = "insert"
  BY DEF Insert, IInv, TypeOK, AtWork, Elements
<1>b. /\ pc' = [pc EXCEPT ![r] = "load"]
      /\ \A tab \in Tablets : topMap'[tab] = IF tab = t[r] THEN e ELSE topMap[tab]
      /\ \A x \in Elements : readTime'[x] = IF x = e THEN 0 ELSE readTime[x]
      /\ \A x \in Elements : readDiffTime'[x] = IF x = e THEN 0 ELSE readDiffTime[x]
      /\ UNCHANGED <<orion, ret, todo, t, topData, history>>
  BY <1>a DEF Insert, IInv, TypeOK
<1>c. e # None
  BY <1>a DEF Elements
<1>d. \A tab \in Tablets : Stored(tab)' = IF tab = t[r] THEN 0 ELSE Stored(tab)
  <2>1. ASSUME NEW tab \in Tablets, tab # t[r], topMap[tab] # None
        PROVE  topMap[tab] \in Elements \ {e}
    BY <1>a, <2>1 DEF IInv, OwnElements, TypeOK
  <2> QED
    BY <1>a, <1>b, <1>c, <2>1 DEF Stored
<1>e. \A p \in Pollers \ {r} :
         AtWork(p) /\ t[p] \notin clash /\ pc[p] \in Past => topData[p] \in Elements \ {e} /\ t[p] # t[r]
  <2>1. ASSUME NEW p \in Pollers, pc[p] \in Past
        PROVE  topData[p] \in Elements /\ topData[p][2] = t[p]
    BY <2>1 DEF IInv, OwnElements, TypeOK, Past
  <2>2. ASSUME NEW p \in Pollers, p # r, AtWork(p), t[p] \notin clash
        PROVE  t[p] # t[r]
    BY <1>a, <2>2 DEF IInv, Alone
  <2> QED
    BY <1>a, <2>1, <2>2
<1>1. TypeOK'
  <2>1. readTime' \in [Elements -> Nat] /\ readDiffTime' \in [Elements -> Int]
        /\ topMap' \in [Tablets -> Elements \cup {None}]
    BY <1>a DEF Insert, IInv, TypeOK
  <2>2. pc' \in [Pollers -> {"idle", "rows", "insert", "load", "diff", "store", "read",
                             "guard", "divide", "ended", "zero"}]
    BY <1>b DEF IInv, TypeOK
  <2>3. \A p \in Pollers :
          /\ AtWork(p)' => t'[p] # None
          /\ pc'[p] \in {"diff", "store", "read", "guard", "divide"} => topData'[p] # None
    BY <1>a, <1>b DEF IInv, TypeOK, AtWork
  <2> QED
    BY <1>b, <2>1, <2>2, <2>3 DEF IInv, TypeOK, orion, history
<1>2. OwnElements'
  <2>1. \A p \in Pollers : pc'[p] \in Past => pc[p] \in Past
    BY <1>a, <1>b DEF IInv, TypeOK, Past
  <2>2. \A p \in Pollers : pc'[p] = "load" => topMap'[t[p]] # None
    <3>1. ASSUME NEW p \in Pollers, p # r, pc'[p] = "load"
          PROVE  t[p] \in Tablets /\ topMap[t[p]] # None
      <4>1. pc[p] = "load" /\ AtWork(p)
        BY <1>b, <3>1 DEF IInv, TypeOK, AtWork
      <4> QED
        BY <4>1 DEF IInv, TypeOK, OwnElements
    <3> QED
      BY <1>a, <1>b, <1>c, <3>1
  <2> QED
    BY <1>a, <1>b, <2>1, <2>2 DEF IInv, OwnElements
<1>3. Alone'
  BY DEF Insert, IInv, Alone, AtWork, history
<1>4. Reference'
  BY <1>a, <1>b, <1>c, <1>e DEF IInv, TypeOK, Reference, Alone, AtWork, Past, history
<1>5. Working'
  BY <1>a, <1>b, <1>e DEF IInv, TypeOK, Working, Knows, AtWork, Past, history, orion
<1>6. RowsAddUp'
  <2>1. t[r] \notin clash => Stored(t[r]) = 0
    BY <1>a DEF IInv, Reference, Stored
  <2>2. \A tab \in Tablets : tab \notin clash => Stored(tab)' = Stored(tab)
    BY <1>d, <2>1
  <2> QED
    BY <1>a, <1>b, <2>2 DEF IInv, TypeOK, RowsAddUp, Stored, history
<1>7. LastStored'
  <2>1. t[r] \notin clash => Stored(t[r]) = 0
    BY <1>a DEF IInv, Reference, Stored
  <2>2. \A tab \in Tablets : tab \notin clash => Stored(tab)' = Stored(tab)
    BY <1>d, <2>1
  <2> QED
    BY <1>a, <1>b, <2>2 DEF IInv, TypeOK, LastStored, history
<1>8. InTime'
  BY DEF Insert, IInv, TypeOK, InTime, Stored, Elements, orion, history
<1>9. ZeroDivisionHasCause'
  BY DEF Insert, IInv, TypeOK, ZeroDivisionHasCause, AtWork, orion, history
<1> QED
  BY <1>1, <1>2, <1>3, <1>4, <1>5, <1>6, <1>7, <1>8, <1>9 DEF IInv

LEMMA LoadStep ==
  ASSUME IInv, NEW r \in Pollers, Load(r) PROVE IInv'
<1> USE StatsAssumption
<1>a. t[r] \in Tablets /\ AtWork(r) /\ pc[r] = "load" /\ topMap[t[r]] \in Elements \cup {None}
  BY DEF Load, IInv, TypeOK, AtWork
<1>1. TypeOK'
  <2>1. topMap[t[r]] \in Elements
    BY <1>a DEF IInv, OwnElements
  <2> QED
    <3>1. topData' \in [Pollers -> Elements \cup {None}] /\ topData'[r] # None
      BY <2>1, ElementShape DEF Load, IInv, TypeOK
    <3>2. \A p \in Pollers \ {r} : topData'[p] = topData[p] /\ pc'[p] = pc[p]
      BY DEF Load, IInv, TypeOK
    <3>3. /\ pc' \in [Pollers -> {"idle", "rows", "insert", "load", "diff", "store", "read",
                                  "guard", "divide", "ended", "zero"}]
          /\ pc'[r] = "diff"
      BY DEF Load, IInv, TypeOK
    <3>4. \A p \in Pollers :
            /\ AtWork(p)' => t'[p] # None
            /\ pc'[p] \in {"diff", "store", "read", "guard", "divide"} => topData'[p] # None
      BY <1>a, <3>1, <3>2, <3>3 DEF Load, IInv, TypeOK, AtWork
    <3> QED
      BY <3>1, <3>3, <3>4 DEF Load, IInv, TypeOK, orion, shared, history
<1>2. OwnElements'
  BY <1>a DEF Load, IInv, TypeOK, OwnElements, Past, shared
<1>3. Alone'
  BY DEF Load, IInv, Alone, AtWork, history
<1>4. Reference'
  BY DEF Load, IInv, TypeOK, Reference, AtWork, Past, Alone, shared, history
<1>5. Working'
  BY DEF Load, IInv, Working, Knows, AtWork, Past, Reference, Alone, LastStored,
         orion, shared, history
<1>6. RowsAddUp'
  BY DEF Load, IInv, TypeOK, RowsAddUp, orion, shared, history
<1>7. LastStored'
  BY DEF Load, IInv, TypeOK, LastStored, Stored, shared, history
<1>8. InTime'
  BY DEF Load, IInv, TypeOK, InTime, Stored, orion, shared, history
<1>9. ZeroDivisionHasCause'
  BY DEF Load, IInv, TypeOK, ZeroDivisionHasCause, orion, shared, history
<1> QED
  BY <1>1, <1>2, <1>3, <1>4, <1>5, <1>6, <1>7, <1>8, <1>9 DEF IInv

LEMMA DiffStep ==
  ASSUME IInv, NEW r \in Pollers, Diff(r) PROVE IInv'
<1> USE StatsAssumption
<1> DEFINE e == topData[r]
<1>a. t[r] \in Tablets /\ AtWork(r) /\ e \in Elements /\ e[2] = t[r] /\ pc[r] = "diff"
  <2>1. pc[r] \in Past /\ AtWork(r) /\ pc[r] = "diff"
    BY DEF Diff, AtWork, Past
  <2>2. t[r] \in Tablets /\ e \in Elements
    BY <2>1 DEF IInv, TypeOK, Past
  <2> QED
    BY <2>1, <2>2 DEF IInv, OwnElements
<1>e. \A p \in Pollers \ {r} :
         AtWork(p) /\ t[p] \notin clash /\ pc[p] \in Past => topData[p] # e /\ t[p] # t[r]
  BY <1>a DEF IInv, OwnElements, Alone, TypeOK
<1>b. /\ pc' = [pc EXCEPT ![r] = "store"]
      /\ \A x \in Elements :
           readDiffTime'[x] = IF x = e THEN ret[r][t[r]] - readTime[e] ELSE readDiffTime[x]
      /\ UNCHANGED <<orion, topMap, readTime, ret, todo, t, topData, history>>
  BY <1>a DEF Diff, IInv, TypeOK
<1>c. t[r] \notin clash => Stored(t[r]) = readTime[e]
  BY <1>a DEF IInv, Reference, Stored, Past
<1>d. t[r] \notin clash /\ t[r] \notin mixed[r] => readTime[e] = last[r][t[r]]
  BY <1>a, <1>c DEF IInv, LastStored
<1>f. t[r] \notin clash /\ restarted = FALSE /\ t[r] \notin newer[r] =>
        readTime[e] <= ret[r][t[r]]
  BY <1>a, <1>c DEF IInv, InTime
<1>g. ret[r][t[r]] \in Nat /\ readTime[e] \in Nat
  BY <1>a DEF IInv, TypeOK
<1>1. TypeOK'
  BY DEF Diff, IInv, TypeOK, Elements, AtWork, orion, history
<1>2. OwnElements'
  BY DEF Diff, IInv, TypeOK, OwnElements, Past, orion, history
<1>3. Alone'
  BY DEF Diff, IInv, TypeOK, Alone, AtWork, orion, history
<1>4. Reference'
  BY DEF Diff, IInv, TypeOK, Reference, AtWork, Past, Alone, history
<1>5. Working'
  <2>1. ASSUME NEW p \in Pollers, p # r, AtWork(p)', t'[p] \notin clash'
        PROVE  /\ AtWork(p) /\ t[p] \notin clash /\ pc'[p] = pc[p]
               /\ pc[p] \in Past => readDiffTime'[topData[p]] = readDiffTime[topData[p]]
    BY <1>a, <1>b, <1>e, <2>1 DEF IInv, TypeOK, AtWork, Past, history
  <2>2. ASSUME t[r] \notin clash
        PROVE  /\ readDiffTime'[e] = ret[r][t[r]] - readTime[e]
               /\ t[r] \notin mixed[r] => readDiffTime'[e] = ret[r][t[r]] - last[r][t[r]]
               /\ restarted = FALSE /\ t[r] \notin newer[r] => readDiffTime'[e] >= 0
    BY <1>a, <1>b, <1>d, <1>f, <1>g, <2>2
  <2> QED
    <3>1. /\ pc'[r] = "store" /\ \A p \in Pollers \ {r} : pc'[p] = pc[p]
          /\ UNCHANGED <<restarted, computed, last, mixed, newer, clash>>
      BY <1>b DEF IInv, TypeOK, orion, history
    <3>2. ASSUME NEW p \in Pollers, p # r, AtWork(p)', t'[p] \notin clash'
          PROVE  Knows(p)'
      BY <1>b, <2>1, <3>1, <3>2 DEF IInv, Working, Knows, Past
    <3>3. t[r] \notin clash => Knows(r)'
      BY <1>a, <1>b, <2>2, <3>1 DEF Knows
    <3> QED
      BY <1>b, <3>1, <3>2, <3>3 DEF Working
<1>6. RowsAddUp'
  BY DEF Diff, IInv, RowsAddUp, history
<1>7. LastStored'
  BY DEF Diff, IInv, TypeOK, LastStored, Stored, history
<1>8. InTime'
  BY DEF Diff, IInv, TypeOK, InTime, Stored, orion, history
<1>9. ZeroDivisionHasCause'
  BY DEF Diff, IInv, TypeOK, ZeroDivisionHasCause, orion, history
<1> QED
  BY <1>1, <1>2, <1>3, <1>4, <1>5, <1>6, <1>7, <1>8, <1>9 DEF IInv

LEMMA StoreStep ==
  ASSUME IInv, NEW r \in Pollers, Store(r) PROVE IInv'
<1> USE StatsAssumption
<1> DEFINE e == topData[r]
<1>a. t[r] \in Tablets /\ AtWork(r) /\ e \in Elements /\ e[2] = t[r] /\ pc[r] = "store"
  <2>1. pc[r] \in Past /\ AtWork(r) /\ pc[r] = "store"
    BY DEF Store, AtWork, Past
  <2>2. t[r] \in Tablets /\ e \in Elements
    BY <2>1 DEF IInv, TypeOK, Past
  <2> QED
    BY <2>1, <2>2 DEF IInv, OwnElements
<1>e. \A p \in Pollers \ {r} :
         AtWork(p) /\ t[p] \notin clash /\ pc[p] \in Past => topData[p] # e /\ t[p] # t[r]
  BY <1>a DEF IInv, OwnElements, Alone, TypeOK
<1>b. /\ pc' = [pc EXCEPT ![r] = "read"]
      /\ \A x \in Elements : readTime'[x] = IF x = e THEN ret[r][t[r]] ELSE readTime[x]
      /\ UNCHANGED <<orion, topMap, readDiffTime, ret, todo, t, topData, computed, last,
                     clash>>
  BY <1>a DEF Store, IInv, TypeOK, NewTime
<1>c. /\ mixed' \in [Pollers -> SUBSET Tablets] /\ newer' \in [Pollers -> SUBSET Tablets]
      /\ mixed'[r] = mixed[r] /\ newer'[r] = newer[r]
      /\ \A q \in Pollers \ {r} :
           mixed'[q] = mixed[q] \cup {t[r]} /\ newer'[q] = newer[q] \cup {t[r]}
  BY <1>a DEF Store, IInv, TypeOK
<1>d. ret[r][t[r]] \in Nat /\ readTime[e] \in Nat
  BY <1>a DEF IInv, TypeOK
<1>f. \A tab \in Tablets : tab \notin clash =>
        Stored(tab)' = IF tab = t[r] THEN ret[r][t[r]] ELSE Stored(tab)
  BY <1>a, <1>b DEF IInv, TypeOK, Stored, OwnElements, Reference, Past
<1>g. t[r] \notin clash =>
        /\ readDiffTime[e] = ret[r][t[r]] - readTime[e]
        /\ computed[t[r]] = readTime[e]
  <2>1. ASSUME t[r] \notin clash
        PROVE  \A p \in Pollers : pc[p] = "read" => t[p] # t[r]
    BY <1>a, <2>1 DEF IInv, Alone, AtWork
  <2> QED
    BY <1>a, <2>1 DEF IInv, Working, Knows, RowsAddUp, Reference, Past
<1>1. TypeOK'
  <2>1. readTime' \in [Elements -> Nat]
    BY <1>a, <1>d DEF Store, IInv, TypeOK, NewTime
  <2>2. pc' \in [Pollers -> {"idle", "rows", "insert", "load", "diff", "store", "read",
                             "guard", "divide", "ended", "zero"}]
    BY <1>b DEF IInv, TypeOK
  <2>3. \A p \in Pollers :
          /\ AtWork(p)' => t'[p] # None
          /\ pc'[p] \in {"diff", "store", "read", "guard", "divide"} => topData'[p] # None
    BY <1>a, <1>b DEF IInv, TypeOK, AtWork
  <2> QED
    BY <1>b, <1>c, <2>1, <2>2, <2>3 DEF IInv, TypeOK, orion
<1>2. OwnElements'
  BY DEF Store, IInv, OwnElements, Past
<1>3. Alone'
  BY DEF Store, IInv, TypeOK, Alone, AtWork
<1>4. Reference'
  BY DEF Store, IInv, TypeOK, Reference, AtWork, Past, Alone
<1>5. Working'
  <2>1. ASSUME NEW p \in Pollers, p # r, AtWork(p)', t'[p] \notin clash'
        PROVE  /\ AtWork(p) /\ t[p] \notin clash /\ pc'[p] = pc[p]
               /\ pc[p] \in Past => readTime'[topData[p]] = readTime[topData[p]]
               /\ t[p] \notin mixed'[p] => t[p] \notin mixed[p]
               /\ t[p] \notin newer'[p] => t[p] \notin newer[p]
    BY <1>a, <1>b, <1>c, <1>e, <2>1 DEF IInv, TypeOK, AtWork, Past, OwnElements
  <2>2. ASSUME t[r] \notin clash
        PROVE  /\ readTime'[e] = ret[r][t[r]]
               /\ computed[t[r]] + readDiffTime[e] = readTime'[e]
    BY <1>a, <1>b, <1>d, <1>g, <2>2
  <2> QED
    BY <1>a, <1>b, <1>c, <2>1, <2>2 DEF IInv, TypeOK, Working, Knows, AtWork, Past, orion
<1>6. RowsAddUp'
  <2>1. ASSUME NEW tab \in Tablets \ clash', \A p \in Pollers : pc'[p] = "read" => t'[p] # tab
        PROVE  computed'[tab] = Stored(tab)'
    <3>1. tab # t[r] /\ \A p \in Pollers : pc[p] = "read" => t[p] # tab
      BY <1>a, <1>b, <2>1 DEF IInv, TypeOK
    <3> QED
      BY <1>b, <1>f, <2>1, <3>1 DEF IInv, RowsAddUp, Stored
  <2> QED
    BY <2>1 DEF RowsAddUp, Stored
<1>7. LastStored'
  <2>1. ASSUME NEW p \in Pollers, NEW tab \in Tablets, tab \notin clash', tab \notin mixed'[p],
               pc'[p] = "read" => t'[p] # tab
        PROVE  last'[p][tab] = Stored(tab)'
    <3>1. tab # t[r] /\ tab \notin mixed[p] /\ (pc[p] = "read" => t[p] # tab)
      BY <1>a, <1>b, <1>c, <2>1 DEF IInv, TypeOK
    <3> QED
      BY <1>b, <1>f, <2>1, <3>1 DEF IInv, LastStored
  <2> QED
    BY <2>1 DEF LastStored
<1>8. InTime'
  <2> SUFFICES ASSUME restarted' = FALSE PROVE InTime'
    BY DEF InTime
  <2>1. restarted = FALSE /\ \A p \in Pollers : \A tab \in Tablets : ret'[p][tab] <= readtime'[tab]
    BY <1>b DEF IInv, InTime, orion
  <2>2. \A x \in Elements : readTime'[x] <= readtime'[x[2]]
    BY <1>a, <1>b, <2>1 DEF IInv, InTime, orion
  <2>3. ASSUME NEW p \in Pollers, NEW tab \in Tablets, tab \notin clash', tab \notin newer'[p],
               pc'[p] \notin {"idle", "ended", "zero"}
        PROVE  Stored(tab)' <= ret'[p][tab]
    <3>1. tab \notin newer[p] /\ pc[p] \notin {"idle", "ended", "zero"} /\ tab \notin clash
      BY <1>a, <1>b, <1>c, <2>3 DEF IInv, TypeOK
    <3>2. CASE tab # t[r]
      BY <1>b, <1>f, <2>1, <2>3, <3>1, <3>2 DEF IInv, InTime
    <3>3. CASE tab = t[r]
      <4>1. p = r
        BY <1>c, <2>3, <3>3
      <4> QED
        BY <1>b, <1>d, <1>f, <3>1, <3>3, <4>1
    <3> QED
      BY <3>2, <3>3
  <2> QED
    BY <2>1, <2>2, <2>3 DEF InTime
<1>9. ZeroDivisionHasCause'
  BY DEF Store, IInv, ZeroDivisionHasCause
<1> QED
  BY <1>1, <1>2, <1>3, <1>4, <1>5, <1>6, <1>7, <1>8, <1>9 DEF IInv

LEMMA ReadStep ==
  ASSUME IInv, NEW r \in Pollers, Read(r) PROVE IInv'
<1> USE StatsAssumption
<1> DEFINE e == topData[r]
<1>a. t[r] \in Tablets /\ AtWork(r) /\ e \in Elements /\ e[2] = t[r] /\ pc[r] = "read"
  <2>1. pc[r] \in Past /\ AtWork(r) /\ pc[r] = "read"
    BY DEF Read, AtWork, Past
  <2>2. t[r] \in Tablets /\ e \in Elements
    BY <2>1 DEF IInv, TypeOK, Past
  <2> QED
    BY <2>1, <2>2 DEF IInv, OwnElements
<1>e. \A p \in Pollers \ {r} :
         AtWork(p) /\ t[p] \notin clash /\ pc[p] \in Past => topData[p] # e /\ t[p] # t[r]
  BY <1>a DEF IInv, OwnElements, Alone, TypeOK
<1>b. /\ pc' = [pc EXCEPT ![r] = "guard"]
      /\ UNCHANGED <<orion, shared, ret, todo, t, topData, newer, clash>>
      /\ \A p \in Pollers, tab \in Tablets :
           last'[p][tab] = IF p = r /\ tab = t[r] THEN ret[r][t[r]] ELSE last[p][tab]
      /\ \A p \in Pollers : mixed'[p] = IF p = r THEN mixed[r] \ {t[r]} ELSE mixed[p]
      /\ \A tab \in Tablets \ {t[r]} : computed'[tab] = computed[tab]
      /\ t[r] \notin clash => computed'[t[r]] = computed[t[r]] + readDiffTime[e]
  BY <1>a DEF Read, IInv, TypeOK
<1>c. Stored(t[r]) \in Int /\ \A tab \in Tablets : Stored(tab)' = Stored(tab)
  BY <1>a, <1>b DEF Stored, shared, IInv, TypeOK
<1>d. t[r] \notin clash =>
        Stored(t[r]) = ret[r][t[r]] /\ computed'[t[r]] = Stored(t[r])
  BY <1>a, <1>b DEF IInv, Working, Knows, Reference, Stored, Past
<1>1. TypeOK'
  <2>1. readDiffTime[e] \in Int /\ ret[r][t[r]] \in Nat
    BY <1>a DEF IInv, TypeOK
  <2>2. computed' \in [Tablets -> Int]
    BY <1>a, <2>1 DEF Read, IInv, TypeOK
  <2>3. last' \in [Pollers -> [Tablets -> Nat]]
    <3>1. [last[r] EXCEPT ![t[r]] = ret[r][t[r]]] \in [Tablets -> Nat]
      BY <1>a, <2>1 DEF IInv, TypeOK
    <3> QED
      BY <3>1 DEF Read, IInv, TypeOK
  <2>4. mixed' \in [Pollers -> SUBSET Tablets]
    BY DEF Read, IInv, TypeOK
  <2>5. pc' \in [Pollers -> {"idle", "rows", "insert", "load", "diff", "store", "read",
                             "guard", "divide", "ended", "zero"}]
    BY <1>b DEF IInv, TypeOK
  <2>6. \A p \in Pollers :
          /\ AtWork(p)' => t'[p] # None
          /\ pc'[p] \in {"diff", "store", "read", "guard", "divide"} => topData'[p] # None
    BY <1>a, <1>b DEF IInv, TypeOK, AtWork
  <2> QED
    BY <1>b, <2>2, <2>3, <2>4, <2>5, <2>6 DEF IInv, TypeOK, orion, shared
<1>2. OwnElements'
  BY DEF Read, IInv, OwnElements, Past, shared
<1>3. Alone'
  BY DEF Read, IInv, TypeOK, Alone, AtWork, shared
<1>4. Reference'
  BY DEF Read, IInv, TypeOK, Reference, AtWork, Past, Alone, shared
<1>5. Working'
  BY DEF Read, IInv, TypeOK, Working, Knows, AtWork, Past, Alone, LastStored, InTime,
         orion, shared
<1>6. RowsAddUp'
  <2>1. ASSUME NEW tab \in Tablets \ clash', \A p \in Pollers : pc'[p] = "read" => t'[p] # tab
        PROVE  computed'[tab] = Stored(tab)'
    <3>1. CASE tab = t[r]
      BY <1>b, <1>c, <1>d, <2>1, <3>1
    <3>2. CASE tab # t[r]
      <4>1. \A p \in Pollers : pc[p] = "read" => t[p] # tab
        BY <1>a, <1>b, <2>1, <3>2 DEF IInv, TypeOK
      <4> QED
        BY <1>b, <1>c, <2>1, <3>2, <4>1 DEF IInv, RowsAddUp, Stored
    <3> QED
      BY <3>1, <3>2
  <2> QED
    BY <2>1 DEF RowsAddUp, Stored
<1>7. LastStored'
  <2>1. ASSUME NEW p \in Pollers, NEW tab \in Tablets, tab \notin clash', tab \notin mixed'[p],
               pc'[p] = "read" => t'[p] # tab
        PROVE  last'[p][tab] = Stored(tab)'
    <3>1. CASE p = r /\ tab = t[r]
      BY <1>b, <1>c, <1>d, <2>1, <3>1
    <3>2. CASE ~(p = r /\ tab = t[r])
      <4>1. tab \notin mixed[p] /\ (pc[p] = "read" => t[p] # tab)
        BY <1>a, <1>b, <2>1, <3>2 DEF IInv, TypeOK
      <4> QED
        BY <1>b, <1>c, <2>1, <3>2, <4>1 DEF IInv, LastStored
    <3> QED
      BY <3>1, <3>2
  <2> QED
    BY <2>1 DEF LastStored
<1>8. InTime'
  BY DEF Read, IInv, InTime, Stored, orion, shared
<1>9. ZeroDivisionHasCause'
  BY DEF Read, IInv, TypeOK, ZeroDivisionHasCause, orion, shared
<1> QED
  BY <1>1, <1>2, <1>3, <1>4, <1>5, <1>6, <1>7, <1>8, <1>9 DEF IInv

LEMMA GuardStep ==
  ASSUME IInv, NEW r \in Pollers, Guard(r) PROVE IInv'
<1> USE StatsAssumption
<1>1. TypeOK'
  BY DEF Guard, IInv, TypeOK, AtWork, orion, shared, history
<1>2. OwnElements'
  BY DEF Guard, IInv, TypeOK, OwnElements, Past, orion, shared, history
<1>3. Alone'
  BY DEF Guard, IInv, TypeOK, Alone, AtWork, orion, shared, history
<1>4. Reference'
  BY DEF Guard, IInv, TypeOK, Reference, AtWork, Past, Alone, shared, history
<1>5. Working'
  BY DEF Guard, IInv, Working, Knows, AtWork, Past, Alone, LastStored, InTime, Still,
         orion, shared, history
<1>6. RowsAddUp'
  BY DEF Guard, IInv, TypeOK, RowsAddUp, Still, orion, shared, history
<1>7. LastStored'
  BY DEF Guard, IInv, TypeOK, LastStored, Stored, shared, history
<1>8. InTime'
  BY DEF Guard, IInv, TypeOK, InTime, Stored, orion, shared, history
<1>9. ZeroDivisionHasCause'
  BY DEF Guard, IInv, TypeOK, ZeroDivisionHasCause, orion, shared, history
<1> QED
  BY <1>1, <1>2, <1>3, <1>4, <1>5, <1>6, <1>7, <1>8, <1>9 DEF IInv

LEMMA DivideStep ==
  ASSUME IInv, NEW r \in Pollers, Divide(r) PROVE IInv'
<1> USE StatsAssumption
<1>1. TypeOK'
  BY DEF Divide, IInv, TypeOK, AtWork, orion, shared, history
<1>2. OwnElements'
  BY DEF Divide, IInv, TypeOK, OwnElements, Past, orion, shared, history
<1>3. Alone'
  BY DEF Divide, IInv, TypeOK, Alone, AtWork, orion, shared, history
<1>4. Reference'
  BY DEF Divide, IInv, TypeOK, Reference, AtWork, Past, Alone, shared, history
<1>5. Working'
  BY DEF Divide, IInv, Working, Knows, AtWork, Past, Alone, LastStored, orion, shared,
         history
<1>6. RowsAddUp'
  BY DEF Divide, IInv, TypeOK, RowsAddUp, orion, shared, history
<1>7. LastStored'
  BY DEF Divide, IInv, TypeOK, LastStored, Stored, shared, history
<1>8. InTime'
  BY DEF Divide, IInv, TypeOK, InTime, Stored, orion, shared, history
<1>9. ZeroDivisionHasCause'
  BY DEF Divide, IInv, TypeOK, ZeroDivisionHasCause, Working, Knows, AtWork, orion,
         shared, history
<1> QED
  BY <1>1, <1>2, <1>3, <1>4, <1>5, <1>6, <1>7, <1>8, <1>9 DEF IInv

LEMMA DoneStep ==
  ASSUME IInv, NEW r \in Pollers, Done(r) PROVE IInv'
<1> USE StatsAssumption
<1>1. TypeOK'
  BY DEF Done, IInv, TypeOK, AtWork, Zeros, orion, shared, history
<1>2. OwnElements'
  BY DEF Done, IInv, TypeOK, OwnElements, Past, Elements, Zeros, orion, shared,
         history
<1>3. Alone'
  BY DEF Done, IInv, TypeOK, Alone, AtWork, Zeros, orion, shared, history
<1>4. Reference'
  BY DEF Done, IInv, TypeOK, Reference, AtWork, Past, Alone, shared, history
<1>5. Working'
  BY DEF Done, IInv, Working, Knows, AtWork, Past, Alone, LastStored, orion, shared,
         history
<1>6. RowsAddUp'
  <2>1. \A p \in Pollers : pc[p] = "read" => pc'[p] = "read" /\ t'[p] = t[p]
    BY DEF Done, IInv, TypeOK
  <2> QED
    BY <2>1 DEF Done, IInv, RowsAddUp, shared, history
<1>7. LastStored'
  BY DEF Done, IInv, LastStored, Stored, shared, history
<1>8. InTime'
  BY DEF Done, IInv, TypeOK, InTime, Stored, Zeros, orion, shared, history
<1>9. ZeroDivisionHasCause'
  BY DEF Done, IInv, TypeOK, ZeroDivisionHasCause, Zeros, orion, shared, history
<1> QED
  BY <1>1, <1>2, <1>3, <1>4, <1>5, <1>6, <1>7, <1>8, <1>9 DEF IInv

LEMMA CheckStep ==
  ASSUME IInv, NEW r \in Pollers, NEW tab0 \in Tablets, Check(r, tab0) PROVE IInv'
<1> USE StatsAssumption
<1>a. /\ pc[r] = "rows" /\ ~AtWork(r)
      /\ pc'[r] = IF topMap[tab0] = None THEN "insert" ELSE "load"
      /\ t'[r] = tab0 /\ AtWork(r)'
      /\ \A p \in Pollers \ {r} : pc'[p] = pc[p] /\ t'[p] = t[p] /\ AtWork(p)' = AtWork(p)
      /\ UNCHANGED <<orion, shared, ret, topData, computed, last, mixed, newer>>
      /\ clash \subseteq clash' /\ clash' \subseteq clash \cup {tab0}
  BY DEF Check, IInv, TypeOK, AtWork, Missing
<1>b. ASSUME NEW q \in Pollers, q # r, AtWork(q), t[q] = tab0
      PROVE  tab0 \in clash'
  BY <1>b DEF Check
<1>1. TypeOK'
  <2>1. /\ pc' \in [Pollers -> {"idle", "rows", "insert", "load", "diff", "store", "read",
                                "guard", "divide", "ended", "zero"}]
        /\ t' \in [Pollers -> Tablets \cup {None}]
        /\ todo' \in [Pollers -> SUBSET Tablets]
    BY DEF Check, IInv, TypeOK
  <2>2. \A p \in Pollers :
          /\ AtWork(p)' => t'[p] # None
          /\ pc'[p] \in {"diff", "store", "read", "guard", "divide"} => topData'[p] # None
    BY <1>a DEF IInv, TypeOK
  <2> QED
    BY <1>a, <2>1, <2>2 DEF IInv, TypeOK, orion, shared
<1>2. OwnElements'
  BY <1>a DEF IInv, OwnElements, Past, shared
<1>3. Alone'
  BY <1>a, <1>b DEF IInv, Alone
<1>4. Reference'
  BY <1>a DEF IInv, Reference, Past, shared
<1>5. Working'
  BY <1>a DEF IInv, Working, Knows, shared, orion
<1>6. RowsAddUp'
  BY <1>a DEF IInv, RowsAddUp, shared
<1>7. LastStored'
  BY <1>a DEF IInv, LastStored, Stored, shared
<1>8. InTime'
  BY <1>a DEF IInv, InTime, Stored, shared, orion
<1>9. ZeroDivisionHasCause'
  BY <1>a DEF IInv, ZeroDivisionHasCause
<1> QED
  BY <1>1, <1>2, <1>3, <1>4, <1>5, <1>6, <1>7, <1>8, <1>9 DEF IInv

LEMMA Stutter == IInv /\ UNCHANGED vars => IInv'
<1> SUFFICES ASSUME IInv, UNCHANGED vars PROVE IInv'
  OBVIOUS
<1>1. TypeOK' /\ OwnElements' /\ Alone' /\ Reference'
  BY DEF vars, orion, shared, local, history, IInv, TypeOK, OwnElements, Alone, Reference,
         AtWork, Past
<1>2. Working'
  BY DEF vars, orion, shared, local, history, IInv, Working, Knows, AtWork
<1>3. RowsAddUp' /\ LastStored' /\ InTime' /\ ZeroDivisionHasCause'
  BY DEF vars, orion, shared, local, history, IInv, RowsAddUp, LastStored, InTime,
         ZeroDivisionHasCause, Stored
<1> QED
  BY <1>1, <1>2, <1>3 DEF IInv

LEMMA SpecIInv == Spec => []IInv
<1>1. ASSUME IInv, [Next]_vars PROVE IInv'
  <2>1. CASE Restart
    BY <1>1, <2>1, RestartStep
  <2>2. ASSUME NEW tab \in Tablets, Work(tab) PROVE IInv'
    BY <1>1, <2>2, WorkStep
  <2>3. ASSUME NEW p \in Pollers, Poll(p) PROVE IInv'
    <3>1. ASSUME NEW tab \in Tablets, Check(p, tab) PROVE IInv'
      BY <1>1, <3>1, CheckStep
    <3> QED
      BY <1>1, <2>3, <3>1, AskStep, AskFailsStep, InsertStep, LoadStep, DiffStep,
         StoreStep, ReadStep, GuardStep, DivideStep, DoneStep DEF Poll
  <2>4. CASE UNCHANGED vars
    BY <1>1, <2>4, Stutter
  <2> QED
    BY <1>1, <2>1, <2>2, <2>3, <2>4 DEF Next
<1> QED
  BY <1>1, InitIInv, PTL DEF Spec

-----------------------------------------------------------------------------
\* Every variable keeps its type, and no poll works without an element.
THEOREM TypeCorrect == Spec => []TypeOK
<1>1. IInv => TypeOK
  BY DEF IInv
<1> QED
  BY <1>1, SpecIInv, PTL

\* The rows of all browsers together account for a tablet's counter, unless
\* two polls have worked on it at once.
THEOREM RowsAccountForCounters == Spec => []RowsAddUp
<1>1. IInv => RowsAddUp
  BY DEF IInv
<1> QED
  BY <1>1, SpecIInv, PTL

\* Only a clash lets the division by zero through its guard.
THEOREM OnlyClashDividesByZero == Spec => []ZeroDivisionHasCause
<1>1. IInv => ZeroDivisionHasCause
  BY DEF IInv
<1> QED
  BY <1>1, SpecIInv, PTL

\* A negative row has a restart of Orion, a clash or a later answer behind it.
THEOREM NegativeRowsHaveCause == Spec => NegativeHasCause
<1>1. ASSUME IInv, [Next]_vars
      PROVE  [\A p \in Pollers :
                Read(p) /\ readDiffTime[topData[p]] < 0 =>
                  restarted \/ t[p] \in clash \cup newer[p]]_vars
  <2>1. ASSUME NEW p \in Pollers, Read(p), t[p] \notin clash, t[p] \notin newer[p],
               restarted = FALSE
        PROVE  ~(readDiffTime[topData[p]] < 0)
    <3>1. pc[p] = "read" /\ AtWork(p)
      BY <2>1 DEF Read, AtWork
    <3>2. readDiffTime[topData[p]] >= 0
      BY <1>1, <2>1, <3>1 DEF IInv, Working, Knows
    <3>3. topData[p] \in Elements
      BY <1>1, <3>1 DEF IInv, TypeOK
    <3>4. readDiffTime[topData[p]] \in Int
      BY <1>1, <3>3 DEF IInv, TypeOK
    <3> QED
      BY <3>2, <3>4
  <2>2. restarted \in BOOLEAN
    BY <1>1 DEF IInv, TypeOK
  <2> QED
    BY <2>1, <2>2
<1> QED
  BY <1>1, SpecIInv, PTL DEF Spec, NegativeHasCause

\* A row covers its own browser's interval unless another poll came between.
THEOREM RowsCoverTheirInterval == Spec => OwnInterval
<1>1. ASSUME IInv, [Next]_vars
      PROVE  [\A p \in Pollers :
                Read(p) /\ t[p] \notin clash \cup mixed[p] =>
                  readDiffTime[topData[p]] = ret[p][t[p]] - last[p][t[p]]]_vars
  <2>1. ASSUME NEW p \in Pollers, Read(p), t[p] \notin clash, t[p] \notin mixed[p]
        PROVE  readDiffTime[topData[p]] = ret[p][t[p]] - last[p][t[p]]
    BY <1>1, <2>1 DEF IInv, Working, Knows, Read, AtWork
  <2> QED
    BY <2>1
<1> QED
  BY <1>1, SpecIInv, PTL DEF Spec, OwnInterval
=============================================================================
