------------------------------ MODULE TopStats ------------------------------
(***************************************************************************)
(* The statistics OrionStat.orion_top pushes: each connection polls Orion  *)
(* and shows what a tablet's counter has grown by since the last poll.     *)
(* The last values are kept in topMap, a dictionary of the class: all      *)
(* connections share it, and their polls run in threads of their own.      *)
(*                                                                         *)
(* Of the counters of a tablet the read time stands for all: the write     *)
(* time is treated alike, and the counts follow the same two statements.   *)
(***************************************************************************)
EXTENDS Integers, FiniteSets

CONSTANTS
  Pollers,   \* the connections that poll
  Tablets,
  MaxTime,   \* bound on Orion's counters
  None       \* Python's None

ASSUME StatsAssumption ==
  None \notin Tablets /\ None \notin Pollers \X Tablets /\ MaxTime \in Nat

VARIABLES
  readtime,   \* Orion's counter per tablet
  restarted,  \* history: Orion has started its counters anew
  topMap,     \* per tablet the TopDataElement, or None
  readTime, readDiffTime,  \* the fields of each TopDataElement
  pc,         \* where a poll is; "ended" when an exception has ended the chain
  ret,        \* the values Orion has answered
  todo,       \* the tablets whose rows are to be made
  t,          \* the tablet at hand
  topData,    \* the local reference to its TopDataElement
  computed,   \* history: per tablet, the sum of all rows' read times until a clash
  last,       \* history: the value each connection's latest row went up to
  mixed,      \* history: tablets another poll has stored since that row
  newer,      \* history: tablets another poll has stored since Orion's answer
  clash       \* history: tablets two polls have worked on at once

orion   == <<readtime, restarted>>
shared  == <<topMap, readTime, readDiffTime>>
local   == <<pc, ret, todo, t, topData>>
history == <<computed, last, mixed, newer, clash>>
vars    == <<orion, shared, local, history>>

Elements == Pollers \X Tablets  \* named by who creates them, for which tablet
Zeros == [tab \in Tablets |-> 0]
AtWork(p) == pc[p] \notin {"idle", "rows", "ended", "zero"}
-----------------------------------------------------------------------------
\* Orion.

\* A tablet is read from.
Work(tab) ==
  /\ readtime[tab] < MaxTime
  /\ readtime' = [readtime EXCEPT ![tab] = @ + 1]
  /\ UNCHANGED <<restarted, shared, local, history>>

Restart ==
  /\ readtime' = [tab \in Tablets |-> 0]
  /\ restarted' = TRUE
  /\ UNCHANGED <<shared, local, history>>

-----------------------------------------------------------------------------
\* orion_top.

\* client.command: Orion answers with its counters at some moment of the call.
Ask(p) ==
  /\ pc[p] = "idle"
  /\ pc' = [pc EXCEPT ![p] = "rows"]
  /\ ret' = [ret EXCEPT ![p] = readtime]
  /\ todo' = [todo EXCEPT ![p] = Tablets]
  /\ newer' = [newer EXCEPT ![p] = {}]
  /\ UNCHANGED <<orion, shared, t, topData, computed, last, mixed, clash>>

\* The call fails, and no timer is armed.
AskFails(p) ==
  /\ pc[p] = "idle"
  /\ pc' = [pc EXCEPT ![p] = "ended"]
  /\ UNCHANGED <<orion, shared, ret, todo, t, topData, history>>

\* Mutants: the dictionary is not looked at; never has to be filled.
AlwaysMissing(tab) == TRUE
NeverMissing(tab) == FALSE
Missing(tab) == topMap[tab] = None

\* The next tablet: if t.sVtablet not in self.topMap.
Check(p, tab) ==
  /\ pc[p] = "rows" /\ tab \in todo[p]
  /\ pc' = [pc EXCEPT ![p] = IF Missing(tab) THEN "insert" ELSE "load"]
  /\ todo' = [todo EXCEPT ![p] = @ \ {tab}]
  /\ t' = [t EXCEPT ![p] = tab]
  /\ clash' = IF \E q \in Pollers \ {p} : AtWork(q) /\ t[q] = tab
              THEN clash \cup {tab} ELSE clash
  /\ UNCHANGED <<orion, shared, ret, topData, computed, last, mixed, newer>>

Insert(p) ==
  LET e == <<p, t[p]>> IN
  /\ pc[p] = "insert"
  /\ pc' = [pc EXCEPT ![p] = "load"]
  /\ topMap' = [topMap EXCEPT ![t[p]] = e]
  /\ readTime' = [readTime EXCEPT ![e] = 0]
  /\ readDiffTime' = [readDiffTime EXCEPT ![e] = 0]
  /\ UNCHANGED <<orion, ret, todo, t, topData, history>>

\* topData = self.topMap[t.sVtablet]
Load(p) ==
  /\ pc[p] = "load"
  /\ pc' = [pc EXCEPT ![p] = "diff"]
  /\ topData' = [topData EXCEPT ![p] = topMap[t[p]]]
  /\ UNCHANGED <<orion, shared, ret, todo, t, history>>

Diff(p) ==
  /\ pc[p] = "diff"
  /\ pc' = [pc EXCEPT ![p] = "store"]
  /\ readDiffTime' =
       [readDiffTime EXCEPT ![topData[p]] = ret[p][t[p]] - readTime[topData[p]]]
  /\ UNCHANGED <<orion, topMap, readTime, ret, todo, t, topData, history>>

\* Mutant: the counter is taken for a difference.
AddedTime(p) == readTime[topData[p]] + ret[p][t[p]]
NewTime(p) == ret[p][t[p]]

Store(p) ==
  LET ByAnother(f) == [q \in Pollers |-> IF q = p THEN f[q] ELSE f[q] \cup {t[p]}] IN
  /\ pc[p] = "store"
  /\ pc' = [pc EXCEPT ![p] = "read"]
  /\ readTime' = [readTime EXCEPT ![topData[p]] = NewTime(p)]
  /\ mixed' = ByAnother(mixed) /\ newer' = ByAnother(newer)
  /\ UNCHANGED <<orion, topMap, readDiffTime, ret, todo, t, topData, computed, last,
                 clash>>

\* tmp['READ']
Read(p) ==
  /\ pc[p] = "read"
  /\ pc' = [pc EXCEPT ![p] = "guard"]
  /\ computed' = [computed EXCEPT ![t[p]] =
       IF t[p] \in clash THEN @ ELSE @ + readDiffTime[topData[p]]]
  /\ last' = [last EXCEPT ![p] = [@ EXCEPT ![t[p]] = ret[p][t[p]]]]
  /\ mixed' = [mixed EXCEPT ![p] = @ \ {t[p]}]
  /\ UNCHANGED <<orion, shared, ret, todo, t, topData, newer, clash>>

\* Mutant: nothing is tested before the division.
NeverStill(p) == FALSE
Still(p) == readDiffTime[topData[p]] = 0

\* tmp['READSPEED']: zero if nothing was read, else the quotient of what was.
Guard(p) ==
  /\ pc[p] = "guard"
  /\ pc' = [pc EXCEPT ![p] = IF Still(p) THEN "rows" ELSE "divide"]
  /\ UNCHANGED <<orion, shared, ret, todo, t, topData, history>>

\* ZeroDivisionError ends the poll, its rows so far and the chain of timers.
Divide(p) ==
  /\ pc[p] = "divide"
  /\ pc' = [pc EXCEPT ![p] = IF readDiffTime[topData[p]] = 0 THEN "zero" ELSE "rows"]
  /\ UNCHANGED <<orion, shared, ret, todo, t, topData, history>>

\* The rows are sent and the timer armed, or, the connection gone, not armed.
Done(p) ==
  /\ pc[p] = "rows" /\ todo[p] = {}
  /\ \E next \in {"idle", "ended"} : pc' = [pc EXCEPT ![p] = next]
  /\ ret' = [ret EXCEPT ![p] = Zeros]
  /\ t' = [t EXCEPT ![p] = None] /\ topData' = [topData EXCEPT ![p] = None]
  /\ UNCHANGED <<orion, shared, todo, history>>

-----------------------------------------------------------------------------
Init ==
  /\ readtime = Zeros /\ restarted = FALSE
  /\ topMap = [tab \in Tablets |-> None]
  /\ readTime = [e \in Elements |-> 0] /\ readDiffTime = [e \in Elements |-> 0]
  /\ pc = [p \in Pollers |-> "idle"]
  /\ ret = [p \in Pollers |-> Zeros]
  /\ todo = [p \in Pollers |-> {}]
  /\ t = [p \in Pollers |-> None] /\ topData = [p \in Pollers |-> None]
  /\ computed = Zeros
  /\ last = [p \in Pollers |-> Zeros]
  /\ mixed = [p \in Pollers |-> {}] /\ newer = [p \in Pollers |-> {}]
  /\ clash = {}

Poll(p) ==
  \/ Ask(p) \/ AskFails(p) \/ Insert(p) \/ Load(p) \/ Diff(p) \/ Store(p) \/ Read(p)
  \/ Guard(p) \/ Divide(p) \/ Done(p) \/ \E tab \in Tablets : Check(p, tab)

Next == Restart \/ (\E tab \in Tablets : Work(tab)) \/ \E p \in Pollers : Poll(p)

Spec == Init /\ [][Next]_vars
-----------------------------------------------------------------------------
\* Properties.

\* Every variable holds a value of its type; a poll past the dictionary holds
\* an element.
TypeOK ==
  /\ readtime \in [Tablets -> Nat] /\ restarted \in BOOLEAN
  /\ topMap \in [Tablets -> Elements \cup {None}]
  /\ readTime \in [Elements -> Nat] /\ readDiffTime \in [Elements -> Int]
  /\ pc \in [Pollers -> {"idle", "rows", "insert", "load", "diff", "store", "read",
                         "guard", "divide", "ended", "zero"}]
  /\ ret \in [Pollers -> [Tablets -> Nat]]
  /\ todo \in [Pollers -> SUBSET Tablets]
  /\ t \in [Pollers -> Tablets \cup {None}]
  /\ topData \in [Pollers -> Elements \cup {None}]
  /\ computed \in [Tablets -> Int]
  /\ last \in [Pollers -> [Tablets -> Nat]]
  /\ mixed \in [Pollers -> SUBSET Tablets] /\ newer \in [Pollers -> SUBSET Tablets]
  /\ clash \subseteq Tablets
  /\ \A p \in Pollers :
       /\ AtWork(p) => t[p] # None
       /\ pc[p] \in {"diff", "store", "read", "guard", "divide"} => topData[p] # None

\* Unless two polls have worked on a tablet at once, the rows of all browsers
\* together account for its counter: no growth is shown twice or not at all.
RowsAddUp ==
  \A tab \in Tablets \ clash :
    (\A p \in Pollers : pc[p] = "read" => t[p] # tab) =>
      computed[tab] = IF topMap[tab] = None THEN 0 ELSE readTime[topMap[tab]]

\* The guard before the division fails only when another poll changes the
\* shared element between the two.
ZeroDivisionHasCause == \A p \in Pollers : pc[p] = "zero" => t[p] \in clash

\* A row is negative only if Orion's counters have started anew, or another
\* poll has worked on the tablet at once or with a later answer.
NegativeHasCause ==
  [][\A p \in Pollers :
       Read(p) /\ readDiffTime[topData[p]] < 0 =>
         restarted \/ t[p] \in clash \cup newer[p]]_vars

\* A row covers the time since its own browser's row before, which is the time
\* its load is computed over, unless another browser's poll came in between.
OwnInterval ==
  [][\A p \in Pollers :
       Read(p) /\ t[p] \notin clash \cup mixed[p] =>
         readDiffTime[topData[p]] = ret[p][t[p]] - last[p][t[p]]]_vars
=============================================================================
