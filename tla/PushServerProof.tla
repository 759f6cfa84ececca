-------------------------- MODULE PushServerProof --------------------------
(***************************************************************************)
(* What holds of PushServer for any number of connections and every fault. *)
(* The argument: a chain of polls is begun only by the handshake of a       *)
(* connection in the tables, so a connection that was removed finds started *)
(* FALSE at its next test and arms no timer again; and a scan works only on *)
(* descriptors that are still in the tables, unless select() reported one   *)
(* twice.                                                                   *)
(***************************************************************************)
EXTENDS PushServer, FiniteSetTheorems, TLAPS

\* A connection that was never accepted has no traces anywhere, one that is just
\* accepted none but its socket.
NewConnections ==
  /\ \A c \in Conns :
       /\ browser[c] \in {"away", "dialing"} => sock[c] = "none"
       /\ sock[c] = "none" =>
            /\ c \notin connections \cup visited \cup iterated \cup unclosed
            /\ chain[c] = "none" /\ late[c] = 0 /\ ~started[c] /\ ~handshaked[c]
  /\ lastSock \in Conns => sock[lastSock] # "none"
  /\ spc = "accepted" =>
       /\ cur \in Conns \ (connections \cup visited \cup iterated \cup unclosed)
       /\ sock[cur] = "open" /\ chain[cur] = "none" /\ late[cur] = 0
       /\ ~started[cur] /\ ~handshaked[cur]

\* A chain is begun for a connection in the tables, after its handshake.
StartedWithHandshake ==
  \A c \in Conns :
    /\ started[c] => c \in connections
    /\ marks \cap {"server", "interrupt"} = {} =>
         (handshaked[c] <=> started[c] \/ (spc = "begin" /\ cur = c))

\* Before handleConnected there is no chain.
ChainUnbegun ==
  \A c \in Conns :
    /\ ~handshaked[c] /\ sock[c] = "open" => ~started[c] /\ chain[c] = "none"
    /\ spc \in {"connect", "begin"} /\ cur = c => ~started[c] /\ chain[c] = "none"
    /\ spc = "begin" /\ cur = c /\ sock[c] = "open" => handshaked[c]

\* What is left of a scan names connections in the tables, each once.
ScanOrder ==
  /\ rList \subseteq connections \cup {Server}
  /\ spc \in {"connect", "begin", "sendClose"} =>
       cur \in rList \ {Server} /\ Server \notin rList
  /\ spc = "accepted" => Server \in rList
  /\ "twice" \notin marks =>
       xList \subseteq connections \cup {Server} /\ rList \cap xList \subseteq {Server}

\* A removed connection that has begun its last poll arms no timer.
LateChain ==
  \A c \in Conns :
    /\ late[c] <= 1
    /\ c \in connections => late[c] = 0
    /\ late[c] = 1 => chain[c] \in {"none", "fetch", "push", "test"}

\* Whoever runs close() has a cause, and is at a connection it has met.
DeathMarked ==
  /\ LoopDeathHasCause
  /\ main # "run" => "interrupt" \in marks
  /\ spc \in {"closing", "told"} => "server" \in marks
  /\ spc = "told" => cur \in unclosed
  /\ main = "told" => conn \in visited

IInv ==
  /\ TypeOK /\ TablesMatchSockets /\ NewConnections /\ StartedWithHandshake
  /\ ChainUnbegun /\ ScanOrder /\ LateChain /\ SilentOnlyAfterFailure /\ DeathMarked

-----------------------------------------------------------------------------
\* A server that has just started.
LEMMA InitIInv == Init => IInv
  BY PushAssumption DEF Init, IInv, TypeOK, ChainStates, Mark, TablesMatchSockets,
         NewConnections, StartedWithHandshake, ChainUnbegun, ScanOrder, LateChain,
         SilentOnlyAfterFailure, DeathMarked, LoopDeathHasCause

\* The types.
LEMMA TypesStep == TypeOK /\ Next => TypeOK'
<1> SUFFICES ASSUME TypeOK, Next PROVE TypeOK'
  OBVIOUS
<1> USE PushAssumption DEF TypeOK, ChainStates, Mark, wires, tables, loop, mainVars,
    history
<1>1. ASSUME NEW c \in Conns, Dial(c) PROVE TypeOK'
  BY <1>1 DEF Dial
<1>2. ASSUME NEW c \in Conns, HangUp(c) PROVE TypeOK'
  BY <1>2 DEF HangUp
<1>3. ASSUME NEW c \in Conns, StallOrDrain(c) PROVE TypeOK'
  BY <1>3 DEF StallOrDrain
<1>4. ASSUME NEW c \in Conns, Accept(c) PROVE TypeOK'
  BY <1>4 DEF Accept, Backlog
<1>5. ASSUME NEW c \in Conns, Enter(c) PROVE TypeOK'
  BY <1>5 DEF Enter, Register, LoopBack
<1>6. ASSUME NEW c \in Conns, DataIgnored(c) PROVE TypeOK'
  BY <1>6 DEF DataIgnored, Readable
<1>7. ASSUME NEW c \in Conns, DataRaises(c) PROVE TypeOK'
  BY <1>7 DEF DataRaises, Drop, CloseSocket, Forget, StopListening, StopStarted,
      Readable
<1>8. ASSUME NEW c \in Conns, Handshake(c) PROVE TypeOK'
  BY <1>8 DEF Handshake, Readable
<1>9. ASSUME NEW c \in Conns, SetHandshaked(c) PROVE TypeOK'
  BY <1>9 DEF SetHandshaked
<1>10. ASSUME NEW c \in Conns, Connected(c) PROVE TypeOK'
  BY <1>10 DEF Connected, SetStarted, LoopBack
<1>11. ASSUME NEW c \in Conns, CloseFrame(c) PROVE TypeOK'
  BY <1>11 DEF CloseFrame, Readable
<1>12. ASSUME NEW c \in Conns, CloseSent(c) PROVE TypeOK'
  BY <1>12 DEF CloseSent, Drop, CloseSocket, Forget, StopListening, StopStarted,
      LoopBack
<1>13. ASSUME NEW c \in Conns, Exceptional(c) PROVE TypeOK'
  <2>1. CASE c \in connections
    <3>1. /\ Drop(c) /\ spc = "scan" /\ xList' = xList \ {c}
          /\ UNCHANGED <<wires, chain, cur, spc, rList, lastSock, unclosed, mainVars,
                        history>>
      BY <1>13, <2>1 DEF Exceptional
    <3> QED
      BY <3>1 DEF Drop, CloseSocket, Forget, StopListening, StopStarted
  <2>2. CASE c \notin connections
    BY <1>13, <2>2 DEF Exceptional, tables
  <2> QED
    BY <2>1, <2>2
<1>14. ASSUME NEW c \in Conns, LoopTells(c) PROVE TypeOK'
  BY <1>14 DEF LoopTells, StopStarted
<1>15. ASSUME NEW c \in Conns, LoopCloses(c) PROVE TypeOK'
  BY <1>15 DEF LoopCloses, CloseSocket
<1>16. ASSUME NEW c \in Conns, MainTells(c) PROVE TypeOK'
  BY <1>16 DEF MainTells, StopStarted
<1>17. ASSUME NEW c \in Conns, MainCloses(c) PROVE TypeOK'
  BY <1>17 DEF MainCloses, CloseSocket
<1>18. ASSUME NEW c \in Conns, Fetch(c) PROVE TypeOK'
  BY <1>18 DEF Fetch
<1>19. ASSUME NEW c \in Conns, FetchRaises(c) PROVE TypeOK'
  BY <1>19 DEF FetchRaises, Return, LoopBack, InLoop
<1>20. ASSUME NEW c \in Conns, Push(c) PROVE TypeOK'
  BY <1>20 DEF Push
<1>21. ASSUME NEW c \in Conns, Test(c) PROVE TypeOK'
  BY <1>21 DEF Test, Return, LoopBack, InLoop
<1>22. ASSUME NEW c \in Conns, Arm(c) PROVE TypeOK'
  BY <1>22 DEF Arm, Return, LoopBack, InLoop
<1>23. ASSUME NEW c \in Conns, Fire(c) PROVE TypeOK'
  BY <1>23 DEF Fire
<1>24. CASE Select
  <2>1. CASE spc' = "dead" /\ UNCHANGED <<rList, xList, marks>>
    BY <1>24, <2>1 DEF Select
  <2>2. ASSUME NEW r \in SUBSET listeners,
               NEW x \in SUBSET (listeners \cup {Server}),
               rList' = r \cup (IF Backlog # {} THEN {Server} ELSE {}),
               xList' = x,
               marks' = marks \cup (IF r \cap x # {} THEN {"twice"} ELSE {}),
               spc' = "scan"
        PROVE  TypeOK'
    <3>1. (rList' \cup xList') \subseteq listeners \cup {Server}
      BY <2>2
    <3>2. marks' \in {marks, marks \cup {"twice"}}
      BY <2>2
    <3>3. "twice" \notin marks' =>
            rList' \cap xList' \subseteq {Server} /\ "twice" \notin marks
      BY <2>2
    <3> QED
      BY <1>24, <2>2, <3>1, <3>2, <3>3 DEF Select
  <2> QED
    BY <1>24, <2>1, <2>2 DEF Select
<1>25. CASE AcceptRaises
  BY <1>25 DEF AcceptRaises
<1>26. CASE ServerFailed
  BY <1>26 DEF ServerFailed
<1>27. CASE LoopRaises
  BY <1>27 DEF LoopRaises
<1>28. CASE ScanDone
  BY <1>28 DEF ScanDone
<1>29. CASE Interrupt
  BY <1>29 DEF Interrupt
<1>30. CASE Iterate
  BY <1>30 DEF Iterate
<1>31. CASE CloseEnds
  BY <1>31 DEF CloseEnds
<1>32. CASE CloseRaises
  BY <1>32 DEF CloseRaises
<1>33. CASE ProcessEnds
  BY <1>33 DEF ProcessEnds, InLoop
<1> QED
  BY <1>1, <1>2, <1>3, <1>4, <1>5, <1>6, <1>7, <1>8, <1>9, <1>10, <1>11, <1>12,
      <1>13, <1>14, <1>15, <1>16, <1>17, <1>18, <1>19, <1>20, <1>21, <1>22, <1>23,
      <1>24, <1>25, <1>26, <1>27, <1>28, <1>29, <1>30, <1>31, <1>32, <1>33 DEF Next,
      Loop, Main, Poll, Environment

\* The tables and the sockets.
LEMMA TablesStep == IInv /\ Next => TablesMatchSockets'
<1> SUFFICES ASSUME IInv, Next PROVE TablesMatchSockets'
  OBVIOUS
<1> USE PushAssumption DEF IInv, TablesMatchSockets, wires, tables, loop, mainVars,
    history
<1>1. ASSUME NEW c \in Conns, Accept(c) PROVE TablesMatchSockets'
  BY <1>1 DEF Accept, Backlog, NewConnections, TypeOK
<1>2. ASSUME NEW c \in Conns, Enter(c) PROVE TablesMatchSockets'
  BY <1>2 DEF Enter, Register, LoopBack, NewConnections, TypeOK
<1>3. ASSUME NEW c \in Conns, DataRaises(c) PROVE TablesMatchSockets'
  BY <1>3 DEF DataRaises, Drop, CloseSocket, Forget, StopListening, StopStarted,
      Readable, TypeOK
<1>4. ASSUME NEW c \in Conns, Handshake(c) PROVE TablesMatchSockets'
  BY <1>4 DEF Handshake, Readable, TypeOK
<1>5. ASSUME NEW c \in Conns, SetHandshaked(c) PROVE TablesMatchSockets'
  BY <1>5 DEF SetHandshaked, TypeOK
<1>6. ASSUME NEW c \in Conns, Connected(c) PROVE TablesMatchSockets'
  BY <1>6 DEF Connected, SetStarted, LoopBack, TypeOK
<1>7. ASSUME NEW c \in Conns, CloseFrame(c) PROVE TablesMatchSockets'
  BY <1>7 DEF CloseFrame, Readable, TypeOK
<1>8. ASSUME NEW c \in Conns, CloseSent(c) PROVE TablesMatchSockets'
  BY <1>8 DEF CloseSent, Drop, CloseSocket, Forget, StopListening, StopStarted,
      LoopBack, TypeOK
<1>9. ASSUME NEW c \in Conns, Exceptional(c) PROVE TablesMatchSockets'
  <2>1. CASE c \in connections
    <3>1. /\ Drop(c) /\ spc = "scan" /\ xList' = xList \ {c}
          /\ UNCHANGED <<wires, chain, cur, spc, rList, lastSock, unclosed, mainVars,
                        history>>
      BY <1>9, <2>1 DEF Exceptional
    <3> QED
      BY <3>1 DEF Drop, CloseSocket, Forget, StopListening, StopStarted, TypeOK
  <2>2. CASE c \notin connections
    BY <1>9, <2>2 DEF Exceptional, tables, TypeOK
  <2> QED
    BY <2>1, <2>2
<1>10. ASSUME NEW c \in Conns, LoopTells(c) PROVE TablesMatchSockets'
  BY <1>10 DEF LoopTells, StopStarted, TypeOK
<1>11. ASSUME NEW c \in Conns, LoopCloses(c) PROVE TablesMatchSockets'
  BY <1>11 DEF LoopCloses, CloseSocket, DeathMarked, TypeOK
<1>12. ASSUME NEW c \in Conns, MainCloses(c) PROVE TablesMatchSockets'
  BY <1>12 DEF MainCloses, CloseSocket, DeathMarked, TypeOK
<1>13. ASSUME NEW c \in Conns, FetchRaises(c) PROVE TablesMatchSockets'
  BY <1>13 DEF FetchRaises, Return, LoopBack, InLoop, TypeOK
<1>14. ASSUME NEW c \in Conns, Test(c) PROVE TablesMatchSockets'
  BY <1>14 DEF Test, Return, LoopBack, InLoop, TypeOK
<1>15. ASSUME NEW c \in Conns, Arm(c) PROVE TablesMatchSockets'
  BY <1>15 DEF Arm, Return, LoopBack, InLoop, TypeOK
<1>16. CASE Select
  BY <1>16 DEF Select, Backlog, TypeOK
<1>17. CASE AcceptRaises
  BY <1>17 DEF AcceptRaises, TypeOK
<1>18. CASE ServerFailed
  BY <1>18 DEF ServerFailed, TypeOK
<1>19. CASE LoopRaises
  BY <1>19 DEF LoopRaises, TypeOK
<1>20. CASE ScanDone
  BY <1>20 DEF ScanDone, TypeOK
<1>21. CASE Interrupt
  BY <1>21 DEF Interrupt, TypeOK
<1>22. CASE CloseEnds
  BY <1>22 DEF CloseEnds, TypeOK
<1>23. CASE CloseRaises
  BY <1>23 DEF CloseRaises, TypeOK
<1>24. CASE (\E c \in Conns : Dial(c) \/ HangUp(c) \/ StallOrDrain(c) \/
    DataIgnored(c) \/ MainTells(c) \/ Fetch(c) \/ Push(c) \/ Fire(c)) \/ Iterate \/
    ProcessEnds
  BY <1>24 DEF Dial, HangUp, StallOrDrain, DataIgnored, MainTells, Fetch, Push,
      Fire, Iterate, ProcessEnds
<1> QED
  BY <1>1, <1>2, <1>3, <1>4, <1>5, <1>6, <1>7, <1>8, <1>9, <1>10, <1>11, <1>12,
      <1>13, <1>14, <1>15, <1>16, <1>17, <1>18, <1>19, <1>20, <1>21, <1>22, <1>23,
      <1>24 DEF Next, Loop, Main, Poll, Environment

\* A connection before and after it is accepted.
LEMMA NewStep == IInv /\ Next => NewConnections'
<1> SUFFICES ASSUME IInv, Next PROVE NewConnections'
  OBVIOUS
<1> USE PushAssumption DEF IInv, NewConnections, wires, tables, loop, mainVars,
    history
<1>1. ASSUME NEW c \in Conns, Dial(c) PROVE NewConnections'
  BY <1>1 DEF Dial, TypeOK
<1>2. ASSUME NEW c \in Conns, HangUp(c) PROVE NewConnections'
  BY <1>2 DEF HangUp, TypeOK
<1>3. ASSUME NEW c \in Conns, StallOrDrain(c) PROVE NewConnections'
  BY <1>3 DEF StallOrDrain, TypeOK
<1>4. ASSUME NEW c \in Conns, Accept(c) PROVE NewConnections'
  BY <1>4 DEF Accept, Backlog, TablesMatchSockets, TypeOK
<1>5. ASSUME NEW c \in Conns, Enter(c) PROVE NewConnections'
  BY <1>5 DEF Enter, Register, LoopBack, TypeOK
<1>6. ASSUME NEW c \in Conns, DataIgnored(c) PROVE NewConnections'
  BY <1>6 DEF DataIgnored, Readable, TypeOK
<1>7. ASSUME NEW c \in Conns, DataRaises(c) PROVE NewConnections'
  BY <1>7 DEF DataRaises, Drop, CloseSocket, Forget, StopListening, StopStarted,
      Readable, ScanOrder, TypeOK
<1>8. ASSUME NEW c \in Conns, Handshake(c) PROVE NewConnections'
  BY <1>8 DEF Handshake, Readable, TypeOK
<1>9. ASSUME NEW c \in Conns, SetHandshaked(c) PROVE NewConnections'
  BY <1>9 DEF SetHandshaked, ScanOrder, TypeOK
<1>10. ASSUME NEW c \in Conns, Connected(c) PROVE NewConnections'
  BY <1>10 DEF Connected, SetStarted, LoopBack, ScanOrder, TypeOK
<1>11. ASSUME NEW c \in Conns, CloseFrame(c) PROVE NewConnections'
  BY <1>11 DEF CloseFrame, Readable, TypeOK
<1>12. ASSUME NEW c \in Conns, CloseSent(c) PROVE NewConnections'
  BY <1>12 DEF CloseSent, Drop, CloseSocket, Forget, StopListening, StopStarted,
      LoopBack, ScanOrder, TypeOK
<1>13. ASSUME NEW c \in Conns, Exceptional(c) PROVE NewConnections'
  BY <1>13 DEF Exceptional, Drop, CloseSocket, Forget, StopListening, StopStarted,
      TypeOK
<1>14. ASSUME NEW c \in Conns, LoopTells(c) PROVE NewConnections'
  BY <1>14 DEF LoopTells, StopStarted, TypeOK
<1>15. ASSUME NEW c \in Conns, LoopCloses(c) PROVE NewConnections'
  BY <1>15 DEF LoopCloses, CloseSocket, DeathMarked, TypeOK
<1>16. ASSUME NEW c \in Conns, MainTells(c) PROVE NewConnections'
  BY <1>16 DEF MainTells, StopStarted, TypeOK
<1>17. ASSUME NEW c \in Conns, MainCloses(c) PROVE NewConnections'
  BY <1>17 DEF MainCloses, CloseSocket, DeathMarked, TypeOK
<1>18. ASSUME NEW c \in Conns, Fetch(c) PROVE NewConnections'
  BY <1>18 DEF Fetch, TypeOK
<1>19. ASSUME NEW c \in Conns, FetchRaises(c) PROVE NewConnections'
  BY <1>19 DEF FetchRaises, Return, LoopBack, InLoop, TypeOK
<1>20. ASSUME NEW c \in Conns, Push(c) PROVE NewConnections'
  BY <1>20 DEF Push, TypeOK
<1>21. ASSUME NEW c \in Conns, Test(c) PROVE NewConnections'
  BY <1>21 DEF Test, Return, LoopBack, InLoop, TypeOK
<1>22. ASSUME NEW c \in Conns, Arm(c) PROVE NewConnections'
  BY <1>22 DEF Arm, Return, LoopBack, InLoop, TypeOK
<1>23. ASSUME NEW c \in Conns, Fire(c) PROVE NewConnections'
  BY <1>23 DEF Fire, TypeOK
<1>24. CASE Select
  BY <1>24 DEF Select, Backlog, TypeOK
<1>25. CASE AcceptRaises
  BY <1>25 DEF AcceptRaises, TypeOK
<1>26. CASE ServerFailed
  BY <1>26 DEF ServerFailed, TypeOK
<1>27. CASE LoopRaises
  BY <1>27 DEF LoopRaises, TypeOK
<1>28. CASE ScanDone
  BY <1>28 DEF ScanDone, TypeOK
<1>29. CASE Interrupt
  BY <1>29 DEF Interrupt, TypeOK
<1>30. CASE Iterate
  BY <1>30 DEF Iterate, TypeOK
<1>31. CASE CloseEnds
  BY <1>31 DEF CloseEnds, TypeOK
<1>32. CASE CloseRaises
  BY <1>32 DEF CloseRaises, TypeOK
<1>33. CASE ProcessEnds
  BY <1>33 DEF ProcessEnds, InLoop, TypeOK
<1> QED
  BY <1>1, <1>2, <1>3, <1>4, <1>5, <1>6, <1>7, <1>8, <1>9, <1>10, <1>11, <1>12,
      <1>13, <1>14, <1>15, <1>16, <1>17, <1>18, <1>19, <1>20, <1>21, <1>22, <1>23,
      <1>24, <1>25, <1>26, <1>27, <1>28, <1>29, <1>30, <1>31, <1>32, <1>33 DEF Next,
      Loop, Main, Poll, Environment

\* started and handshaked.
LEMMA StartedStep == IInv /\ Next => StartedWithHandshake'
<1> SUFFICES ASSUME IInv, Next PROVE StartedWithHandshake'
  OBVIOUS
<1> USE PushAssumption DEF IInv, StartedWithHandshake, wires, tables, loop,
    mainVars, history
<1>1. ASSUME NEW c \in Conns, Dial(c) PROVE StartedWithHandshake'
  BY <1>1 DEF Dial, TypeOK
<1>2. ASSUME NEW c \in Conns, HangUp(c) PROVE StartedWithHandshake'
  BY <1>2 DEF HangUp, TypeOK
<1>3. ASSUME NEW c \in Conns, StallOrDrain(c) PROVE StartedWithHandshake'
  BY <1>3 DEF StallOrDrain, TypeOK
<1>4. ASSUME NEW c \in Conns, Accept(c) PROVE StartedWithHandshake'
  BY <1>4 DEF Accept, Backlog, NewConnections, TypeOK
<1>5. ASSUME NEW c \in Conns, Enter(c) PROVE StartedWithHandshake'
  BY <1>5 DEF Enter, Register, LoopBack, NewConnections, TypeOK
<1>6. ASSUME NEW c \in Conns, DataIgnored(c) PROVE StartedWithHandshake'
  BY <1>6 DEF DataIgnored, Readable, TypeOK
<1>7. ASSUME NEW c \in Conns, DataRaises(c) PROVE StartedWithHandshake'
  BY <1>7 DEF DataRaises, Drop, CloseSocket, Forget, StopListening, StopStarted,
      Readable, TypeOK
<1>8. ASSUME NEW c \in Conns, Handshake(c) PROVE StartedWithHandshake'
  BY <1>8 DEF Handshake, Readable, ScanOrder, ChainUnbegun, TypeOK
<1>9. ASSUME NEW c \in Conns, SetHandshaked(c) PROVE StartedWithHandshake'
  BY <1>9 DEF SetHandshaked, ScanOrder, ChainUnbegun, TypeOK
<1>10. ASSUME NEW c \in Conns, Connected(c) PROVE StartedWithHandshake'
  BY <1>10 DEF Connected, SetStarted, LoopBack, ScanOrder, ChainUnbegun, TypeOK
<1>11. ASSUME NEW c \in Conns, CloseFrame(c) PROVE StartedWithHandshake'
  BY <1>11 DEF CloseFrame, Readable, TypeOK
<1>12. ASSUME NEW c \in Conns, CloseSent(c) PROVE StartedWithHandshake'
  BY <1>12 DEF CloseSent, Drop, CloseSocket, Forget, StopListening, StopStarted,
      LoopBack, TypeOK
<1>13. ASSUME NEW c \in Conns, Exceptional(c) PROVE StartedWithHandshake'
  <2>1. CASE c \in connections
    <3>1. /\ Drop(c) /\ spc = "scan" /\ xList' = xList \ {c}
          /\ UNCHANGED <<wires, chain, cur, spc, rList, lastSock, unclosed, mainVars,
                        history>>
      BY <1>13, <2>1 DEF Exceptional
    <3> QED
      BY <3>1 DEF Drop, CloseSocket, Forget, StopListening, StopStarted, TypeOK
  <2>2. CASE c \notin connections
    BY <1>13, <2>2 DEF Exceptional, tables, TypeOK
  <2> QED
    BY <2>1, <2>2
<1>14. ASSUME NEW c \in Conns, LoopTells(c) PROVE StartedWithHandshake'
  BY <1>14 DEF LoopTells, StopStarted, DeathMarked, TypeOK
<1>15. ASSUME NEW c \in Conns, LoopCloses(c) PROVE StartedWithHandshake'
  BY <1>15 DEF LoopCloses, CloseSocket, DeathMarked, TypeOK
<1>16. ASSUME NEW c \in Conns, MainTells(c) PROVE StartedWithHandshake'
  BY <1>16 DEF MainTells, StopStarted, DeathMarked, TypeOK
<1>17. ASSUME NEW c \in Conns, MainCloses(c) PROVE StartedWithHandshake'
  BY <1>17 DEF MainCloses, CloseSocket, DeathMarked, TypeOK
<1>18. ASSUME NEW c \in Conns, Fetch(c) PROVE StartedWithHandshake'
  BY <1>18 DEF Fetch, TypeOK
<1>19. ASSUME NEW c \in Conns, FetchRaises(c) PROVE StartedWithHandshake'
  BY <1>19 DEF FetchRaises, Return, LoopBack, InLoop, TypeOK
<1>20. ASSUME NEW c \in Conns, Push(c) PROVE StartedWithHandshake'
  BY <1>20 DEF Push, TypeOK
<1>21. ASSUME NEW c \in Conns, Test(c) PROVE StartedWithHandshake'
  BY <1>21 DEF Test, Return, LoopBack, InLoop, TypeOK
<1>22. ASSUME NEW c \in Conns, Arm(c) PROVE StartedWithHandshake'
  BY <1>22 DEF Arm, Return, LoopBack, InLoop, TypeOK
<1>23. ASSUME NEW c \in Conns, Fire(c) PROVE StartedWithHandshake'
  BY <1>23 DEF Fire, TypeOK
<1>24. CASE Select
  BY <1>24 DEF Select, Backlog, TypeOK
<1>25. CASE AcceptRaises
  BY <1>25 DEF AcceptRaises, TypeOK
<1>26. CASE ServerFailed
  BY <1>26 DEF ServerFailed, TypeOK
<1>27. CASE LoopRaises
  BY <1>27 DEF LoopRaises, TypeOK
<1>28. CASE ScanDone
  BY <1>28 DEF ScanDone, TypeOK
<1>29. CASE Interrupt
  BY <1>29 DEF Interrupt, TypeOK
<1>30. CASE Iterate
  BY <1>30 DEF Iterate, TypeOK
<1>31. CASE CloseEnds
  BY <1>31 DEF CloseEnds, TypeOK
<1>32. CASE CloseRaises
  BY <1>32 DEF CloseRaises, TypeOK
<1>33. CASE ProcessEnds
  BY <1>33 DEF ProcessEnds, InLoop, TypeOK
<1> QED
  BY <1>1, <1>2, <1>3, <1>4, <1>5, <1>6, <1>7, <1>8, <1>9, <1>10, <1>11, <1>12,
      <1>13, <1>14, <1>15, <1>16, <1>17, <1>18, <1>19, <1>20, <1>21, <1>22, <1>23,
      <1>24, <1>25, <1>26, <1>27, <1>28, <1>29, <1>30, <1>31, <1>32, <1>33 DEF Next,
      Loop, Main, Poll, Environment

\* No poll begins but by the handshake, and a connection told to stop is closed.
LEMMA UnbegunStep == IInv /\ Next => ChainUnbegun'
<1> SUFFICES ASSUME IInv, Next PROVE ChainUnbegun'
  OBVIOUS
<1> USE PushAssumption DEF IInv, ChainUnbegun, wires, tables, loop, mainVars,
    history
<1>1. ASSUME NEW c \in Conns, Dial(c) PROVE ChainUnbegun'
  BY <1>1 DEF Dial, TypeOK
<1>2. ASSUME NEW c \in Conns, HangUp(c) PROVE ChainUnbegun'
  BY <1>2 DEF HangUp, TypeOK
<1>3. ASSUME NEW c \in Conns, StallOrDrain(c) PROVE ChainUnbegun'
  BY <1>3 DEF StallOrDrain, TypeOK
<1>4. ASSUME NEW c \in Conns, Accept(c) PROVE ChainUnbegun'
  BY <1>4 DEF Accept, Backlog, NewConnections, TypeOK
<1>5. ASSUME NEW c \in Conns, Enter(c) PROVE ChainUnbegun'
  BY <1>5 DEF Enter, Register, LoopBack, NewConnections, TypeOK
<1>6. ASSUME NEW c \in Conns, DataIgnored(c) PROVE ChainUnbegun'
  BY <1>6 DEF DataIgnored, Readable, TypeOK
<1>7. ASSUME NEW c \in Conns, DataRaises(c) PROVE ChainUnbegun'
  BY <1>7 DEF DataRaises, Drop, CloseSocket, Forget, StopListening, StopStarted,
      Readable, TypeOK
<1>8. ASSUME NEW c \in Conns, Handshake(c) PROVE ChainUnbegun'
  BY <1>8 DEF Handshake, Readable, ScanOrder, TypeOK
<1>9. ASSUME NEW c \in Conns, SetHandshaked(c) PROVE ChainUnbegun'
  BY <1>9 DEF SetHandshaked, ScanOrder, TypeOK
<1>10. ASSUME NEW c \in Conns, Connected(c) PROVE ChainUnbegun'
  BY <1>10 DEF Connected, SetStarted, LoopBack, ScanOrder, TypeOK
<1>11. ASSUME NEW c \in Conns, CloseFrame(c) PROVE ChainUnbegun'
  BY <1>11 DEF CloseFrame, Readable, TypeOK
<1>12. ASSUME NEW c \in Conns, CloseSent(c) PROVE ChainUnbegun'
  BY <1>12 DEF CloseSent, Drop, CloseSocket, Forget, StopListening, StopStarted,
      LoopBack, TypeOK
<1>13. ASSUME NEW c \in Conns, Exceptional(c) PROVE ChainUnbegun'
  <2>1. CASE c \in connections
    <3>1. /\ Drop(c) /\ spc = "scan" /\ xList' = xList \ {c}
          /\ UNCHANGED <<wires, chain, cur, spc, rList, lastSock, unclosed, mainVars,
                        history>>
      BY <1>13, <2>1 DEF Exceptional
    <3> QED
      BY <3>1 DEF Drop, CloseSocket, Forget, StopListening, StopStarted, TypeOK
  <2>2. CASE c \notin connections
    BY <1>13, <2>2 DEF Exceptional, tables, TypeOK
  <2> QED
    BY <2>1, <2>2
<1>14. ASSUME NEW c \in Conns, LoopTells(c) PROVE ChainUnbegun'
  BY <1>14 DEF LoopTells, StopStarted, TypeOK
<1>15. ASSUME NEW c \in Conns, LoopCloses(c) PROVE ChainUnbegun'
  BY <1>15 DEF LoopCloses, CloseSocket, TypeOK
<1>16. ASSUME NEW c \in Conns, MainTells(c) PROVE ChainUnbegun'
  BY <1>16 DEF MainTells, StopStarted, TypeOK
<1>17. ASSUME NEW c \in Conns, MainCloses(c) PROVE ChainUnbegun'
  BY <1>17 DEF MainCloses, CloseSocket, TypeOK
<1>18. ASSUME NEW c \in Conns, Fetch(c) PROVE ChainUnbegun'
  BY <1>18 DEF Fetch, TypeOK
<1>19. ASSUME NEW c \in Conns, FetchRaises(c) PROVE ChainUnbegun'
  BY <1>19 DEF FetchRaises, Return, LoopBack, InLoop, TypeOK
<1>20. ASSUME NEW c \in Conns, Push(c) PROVE ChainUnbegun'
  BY <1>20 DEF Push, TypeOK
<1>21. ASSUME NEW c \in Conns, Test(c) PROVE ChainUnbegun'
  BY <1>21 DEF Test, Return, LoopBack, InLoop, TypeOK
<1>22. ASSUME NEW c \in Conns, Arm(c) PROVE ChainUnbegun'
  BY <1>22 DEF Arm, Return, LoopBack, InLoop, TypeOK
<1>23. ASSUME NEW c \in Conns, Fire(c) PROVE ChainUnbegun'
  BY <1>23 DEF Fire, TypeOK
<1>24. CASE Select
  BY <1>24 DEF Select, Backlog, TypeOK
<1>25. CASE AcceptRaises
  BY <1>25 DEF AcceptRaises, TypeOK
<1>26. CASE ServerFailed
  BY <1>26 DEF ServerFailed, TypeOK
<1>27. CASE LoopRaises
  BY <1>27 DEF LoopRaises, TypeOK
<1>28. CASE ScanDone
  BY <1>28 DEF ScanDone, TypeOK
<1>29. CASE Interrupt
  BY <1>29 DEF Interrupt, TypeOK
<1>30. CASE Iterate
  BY <1>30 DEF Iterate, TypeOK
<1>31. CASE CloseEnds
  BY <1>31 DEF CloseEnds, TypeOK
<1>32. CASE CloseRaises
  BY <1>32 DEF CloseRaises, TypeOK
<1>33. CASE ProcessEnds
  BY <1>33 DEF ProcessEnds, InLoop, TypeOK
<1> QED
  BY <1>1, <1>2, <1>3, <1>4, <1>5, <1>6, <1>7, <1>8, <1>9, <1>10, <1>11, <1>12,
      <1>13, <1>14, <1>15, <1>16, <1>17, <1>18, <1>19, <1>20, <1>21, <1>22, <1>23,
      <1>24, <1>25, <1>26, <1>27, <1>28, <1>29, <1>30, <1>31, <1>32, <1>33 DEF Next,
      Loop, Main, Poll, Environment

\* The rest of a scan.
LEMMA ScanStep == IInv /\ Next => ScanOrder'
<1> SUFFICES ASSUME IInv, Next PROVE ScanOrder'
  OBVIOUS
<1> USE PushAssumption DEF IInv, ScanOrder, wires, tables, loop, mainVars, history
<1>1. ASSUME NEW c \in Conns, Accept(c) PROVE ScanOrder'
  BY <1>1 DEF Accept, Backlog, TypeOK, TablesMatchSockets
<1>2. ASSUME NEW c \in Conns, Enter(c) PROVE ScanOrder'
  BY <1>2 DEF Enter, Register, LoopBack, TypeOK, TablesMatchSockets
<1>3. ASSUME NEW c \in Conns, DataIgnored(c) PROVE ScanOrder'
  BY <1>3 DEF DataIgnored, Readable, TypeOK, TablesMatchSockets
<1>4. ASSUME NEW c \in Conns, DataRaises(c) PROVE ScanOrder'
  BY <1>4 DEF DataRaises, Drop, CloseSocket, Forget, StopListening, StopStarted,
      Readable, TypeOK, TablesMatchSockets
<1>5. ASSUME NEW c \in Conns, Handshake(c) PROVE ScanOrder'
  BY <1>5 DEF Handshake, Readable, TypeOK, TablesMatchSockets
<1>6. ASSUME NEW c \in Conns, SetHandshaked(c) PROVE ScanOrder'
  BY <1>6 DEF SetHandshaked, TypeOK, TablesMatchSockets
<1>7. ASSUME NEW c \in Conns, Connected(c) PROVE ScanOrder'
  BY <1>7 DEF Connected, SetStarted, LoopBack, TypeOK, TablesMatchSockets
<1>8. ASSUME NEW c \in Conns, CloseFrame(c) PROVE ScanOrder'
  BY <1>8 DEF CloseFrame, Readable, TypeOK, TablesMatchSockets
<1>9. ASSUME NEW c \in Conns, CloseSent(c) PROVE ScanOrder'
  BY <1>9 DEF CloseSent, Drop, CloseSocket, Forget, StopListening, StopStarted,
      LoopBack, TypeOK, TablesMatchSockets
<1>10. ASSUME NEW c \in Conns, Exceptional(c) PROVE ScanOrder'
  BY <1>10 DEF Exceptional, Drop, CloseSocket, Forget, StopListening, StopStarted,
      TypeOK, TablesMatchSockets
<1>11. ASSUME NEW c \in Conns, LoopTells(c) PROVE ScanOrder'
  BY <1>11 DEF LoopTells, StopStarted, TypeOK, TablesMatchSockets
<1>12. ASSUME NEW c \in Conns, LoopCloses(c) PROVE ScanOrder'
  BY <1>12 DEF LoopCloses, CloseSocket, TypeOK, TablesMatchSockets
<1>13. ASSUME NEW c \in Conns, FetchRaises(c) PROVE ScanOrder'
  BY <1>13 DEF FetchRaises, Return, LoopBack, InLoop, TypeOK, TablesMatchSockets
<1>14. ASSUME NEW c \in Conns, Test(c) PROVE ScanOrder'
  BY <1>14 DEF Test, Return, LoopBack, InLoop, TypeOK, TablesMatchSockets
<1>15. ASSUME NEW c \in Conns, Arm(c) PROVE ScanOrder'
  BY <1>15 DEF Arm, Return, LoopBack, InLoop, TypeOK, TablesMatchSockets
<1>16. CASE Select
  <2>1. CASE spc' = "dead" /\ UNCHANGED <<rList, xList, marks>>
    BY <1>16, <2>1 DEF Select, TypeOK, TablesMatchSockets
  <2>2. ASSUME NEW r \in SUBSET listeners,
               NEW x \in SUBSET (listeners \cup {Server}),
               rList' = r \cup (IF Backlog # {} THEN {Server} ELSE {}),
               xList' = x,
               marks' = marks \cup (IF r \cap x # {} THEN {"twice"} ELSE {}),
               spc' = "scan"
        PROVE  ScanOrder'
    <3>1. (rList' \cup xList') \subseteq listeners \cup {Server}
      BY <2>2
    <3>2. marks' \in {marks, marks \cup {"twice"}}
      BY <2>2
    <3>3. "twice" \notin marks' =>
            rList' \cap xList' \subseteq {Server} /\ "twice" \notin marks
      BY <2>2
    <3> QED
      BY <1>16, <2>2, <3>1, <3>2, <3>3 DEF Select, TypeOK, TablesMatchSockets
  <2> QED
    BY <1>16, <2>1, <2>2 DEF Select
<1>17. CASE AcceptRaises
  BY <1>17 DEF AcceptRaises, TypeOK, TablesMatchSockets
<1>18. CASE ServerFailed
  BY <1>18 DEF ServerFailed, TypeOK, TablesMatchSockets
<1>19. CASE LoopRaises
  BY <1>19 DEF LoopRaises, TypeOK, TablesMatchSockets
<1>20. CASE ScanDone
  BY <1>20 DEF ScanDone, TypeOK, TablesMatchSockets
<1>21. CASE Interrupt
  BY <1>21 DEF Interrupt, TypeOK, TablesMatchSockets
<1>22. CASE CloseEnds
  BY <1>22 DEF CloseEnds, TypeOK, TablesMatchSockets
<1>23. CASE CloseRaises
  BY <1>23 DEF CloseRaises, TypeOK, TablesMatchSockets
<1>24. CASE ProcessEnds
  BY <1>24 DEF ProcessEnds, InLoop, TypeOK, TablesMatchSockets
<1>25. CASE (\E c \in Conns : Dial(c) \/ HangUp(c) \/ StallOrDrain(c) \/
    MainTells(c) \/ MainCloses(c) \/ Fetch(c) \/ Push(c) \/ Fire(c)) \/ Iterate
  BY <1>25 DEF Dial, HangUp, StallOrDrain, MainTells, MainCloses, Fetch, Push, Fire,
      Iterate
<1> QED
  BY <1>1, <1>2, <1>3, <1>4, <1>5, <1>6, <1>7, <1>8, <1>9, <1>10, <1>11, <1>12,
      <1>13, <1>14, <1>15, <1>16, <1>17, <1>18, <1>19, <1>20, <1>21, <1>22, <1>23,
      <1>24, <1>25 DEF Next, Loop, Main, Poll, Environment

\* The last poll after a removal.
LEMMA LateStep == IInv /\ Next => LateChain'
<1> SUFFICES ASSUME IInv, Next PROVE LateChain'
  OBVIOUS
<1> USE PushAssumption DEF IInv, LateChain, wires, tables, loop, mainVars, history
<1>1. ASSUME NEW c \in Conns, Accept(c) PROVE LateChain'
  BY <1>1 DEF Accept, Backlog, NewConnections, TypeOK
<1>2. ASSUME NEW c \in Conns, Enter(c) PROVE LateChain'
  BY <1>2 DEF Enter, Register, LoopBack, NewConnections, TypeOK
<1>3. ASSUME NEW c \in Conns, DataRaises(c) PROVE LateChain'
  BY <1>3 DEF DataRaises, Drop, CloseSocket, Forget, StopListening, StopStarted,
      Readable, TypeOK
<1>4. ASSUME NEW c \in Conns, Connected(c) PROVE LateChain'
  BY <1>4 DEF Connected, SetStarted, LoopBack, ScanOrder, TypeOK
<1>5. ASSUME NEW c \in Conns, CloseSent(c) PROVE LateChain'
  BY <1>5 DEF CloseSent, Drop, CloseSocket, Forget, StopListening, StopStarted,
      LoopBack, TypeOK
<1>6. ASSUME NEW c \in Conns, Exceptional(c) PROVE LateChain'
  BY <1>6 DEF Exceptional, Drop, CloseSocket, Forget, StopListening, StopStarted,
      TypeOK
<1>7. ASSUME NEW c \in Conns, Fetch(c) PROVE LateChain'
  BY <1>7 DEF Fetch, TypeOK
<1>8. ASSUME NEW c \in Conns, FetchRaises(c) PROVE LateChain'
  BY <1>8 DEF FetchRaises, Return, LoopBack, InLoop, TypeOK
<1>9. ASSUME NEW c \in Conns, Push(c) PROVE LateChain'
  BY <1>9 DEF Push, TypeOK
<1>10. ASSUME NEW c \in Conns, Test(c) PROVE LateChain'
  BY <1>10 DEF Test, Return, LoopBack, InLoop, StartedWithHandshake, TypeOK
<1>11. ASSUME NEW c \in Conns, Arm(c) PROVE LateChain'
  BY <1>11 DEF Arm, Return, LoopBack, InLoop, TypeOK
<1>12. ASSUME NEW c \in Conns, Fire(c) PROVE LateChain'
  BY <1>12 DEF Fire, TypeOK
<1>13. CASE (\E c \in Conns : Dial(c) \/ HangUp(c) \/ StallOrDrain(c) \/
    DataIgnored(c) \/ Handshake(c) \/ SetHandshaked(c) \/ CloseFrame(c) \/
    LoopTells(c) \/ LoopCloses(c) \/ MainTells(c) \/ MainCloses(c)) \/ Select \/
    AcceptRaises \/ ServerFailed \/ LoopRaises \/ ScanDone \/ Interrupt \/ Iterate
    \/ CloseEnds \/ CloseRaises \/ ProcessEnds
  BY <1>13 DEF Dial, HangUp, StallOrDrain, DataIgnored, Handshake, SetHandshaked,
      CloseFrame, LoopTells, LoopCloses, MainTells, MainCloses, Select,
      AcceptRaises, ServerFailed, LoopRaises, ScanDone, Interrupt, Iterate,
      CloseEnds, CloseRaises, ProcessEnds
<1> QED
  BY <1>1, <1>2, <1>3, <1>4, <1>5, <1>6, <1>7, <1>8, <1>9, <1>10, <1>11, <1>12,
      <1>13 DEF Next, Loop, Main, Poll, Environment

\* No silent browser without a failed poll.
LEMMA SilentStep == IInv /\ Next => SilentOnlyAfterFailure'
<1> SUFFICES ASSUME IInv, Next PROVE SilentOnlyAfterFailure'
  OBVIOUS
<1> USE PushAssumption DEF IInv, SilentOnlyAfterFailure, wires, tables, loop,
    mainVars, history
<1>1. ASSUME NEW c \in Conns, Dial(c) PROVE SilentOnlyAfterFailure'
  BY <1>1 DEF Dial, TypeOK
<1>2. ASSUME NEW c \in Conns, HangUp(c) PROVE SilentOnlyAfterFailure'
  BY <1>2 DEF HangUp, TypeOK
<1>3. ASSUME NEW c \in Conns, StallOrDrain(c) PROVE SilentOnlyAfterFailure'
  BY <1>3 DEF StallOrDrain, TypeOK
<1>4. ASSUME NEW c \in Conns, Accept(c) PROVE SilentOnlyAfterFailure'
  BY <1>4 DEF Accept, Backlog, NewConnections, TypeOK
<1>5. ASSUME NEW c \in Conns, Enter(c) PROVE SilentOnlyAfterFailure'
  BY <1>5 DEF Enter, Register, LoopBack, NewConnections, TypeOK
<1>6. ASSUME NEW c \in Conns, DataIgnored(c) PROVE SilentOnlyAfterFailure'
  BY <1>6 DEF DataIgnored, Readable, TypeOK
<1>7. ASSUME NEW c \in Conns, DataRaises(c) PROVE SilentOnlyAfterFailure'
  BY <1>7 DEF DataRaises, Drop, CloseSocket, Forget, StopListening, StopStarted,
      Readable, TypeOK
<1>8. ASSUME NEW c \in Conns, Handshake(c) PROVE SilentOnlyAfterFailure'
  BY <1>8 DEF Handshake, Readable, TypeOK
<1>9. ASSUME NEW c \in Conns, SetHandshaked(c) PROVE SilentOnlyAfterFailure'
  BY <1>9 DEF SetHandshaked, ScanOrder, TypeOK
<1>10. ASSUME NEW c \in Conns, Connected(c) PROVE SilentOnlyAfterFailure'
  BY <1>10 DEF Connected, SetStarted, LoopBack, ScanOrder, ChainUnbegun,
      StartedWithHandshake, TypeOK
<1>11. ASSUME NEW c \in Conns, CloseFrame(c) PROVE SilentOnlyAfterFailure'
  BY <1>11 DEF CloseFrame, Readable, TypeOK
<1>12. ASSUME NEW c \in Conns, CloseSent(c) PROVE SilentOnlyAfterFailure'
  BY <1>12 DEF CloseSent, Drop, CloseSocket, Forget, StopListening, StopStarted,
      LoopBack, TypeOK
<1>13. ASSUME NEW c \in Conns, Exceptional(c) PROVE SilentOnlyAfterFailure'
  BY <1>13 DEF Exceptional, Drop, CloseSocket, Forget, StopListening, StopStarted,
      TypeOK
<1>14. ASSUME NEW c \in Conns, LoopTells(c) PROVE SilentOnlyAfterFailure'
  BY <1>14 DEF LoopTells, StopStarted, DeathMarked, TypeOK
<1>15. ASSUME NEW c \in Conns, LoopCloses(c) PROVE SilentOnlyAfterFailure'
  BY <1>15 DEF LoopCloses, CloseSocket, DeathMarked, TypeOK
<1>16. ASSUME NEW c \in Conns, MainTells(c) PROVE SilentOnlyAfterFailure'
  BY <1>16 DEF MainTells, StopStarted, DeathMarked, TypeOK
<1>17. ASSUME NEW c \in Conns, MainCloses(c) PROVE SilentOnlyAfterFailure'
  BY <1>17 DEF MainCloses, CloseSocket, DeathMarked, TypeOK
<1>18. ASSUME NEW c \in Conns, Fetch(c) PROVE SilentOnlyAfterFailure'
  BY <1>18 DEF Fetch, TypeOK
<1>19. ASSUME NEW c \in Conns, FetchRaises(c) PROVE SilentOnlyAfterFailure'
  BY <1>19 DEF FetchRaises, Return, LoopBack, InLoop, TypeOK
<1>20. ASSUME NEW c \in Conns, Push(c) PROVE SilentOnlyAfterFailure'
  BY <1>20 DEF Push, TypeOK
<1>21. ASSUME NEW c \in Conns, Test(c) PROVE SilentOnlyAfterFailure'
  BY <1>21 DEF Test, Return, LoopBack, InLoop, StartedWithHandshake, TypeOK
<1>22. ASSUME NEW c \in Conns, Arm(c) PROVE SilentOnlyAfterFailure'
  BY <1>22 DEF Arm, Return, LoopBack, InLoop, TypeOK
<1>23. ASSUME NEW c \in Conns, Fire(c) PROVE SilentOnlyAfterFailure'
  BY <1>23 DEF Fire, TypeOK
<1>24. CASE Select
  BY <1>24 DEF Select, Backlog, TypeOK
<1>25. CASE AcceptRaises
  BY <1>25 DEF AcceptRaises, TypeOK
<1>26. CASE ServerFailed
  BY <1>26 DEF ServerFailed, TypeOK
<1>27. CASE LoopRaises
  BY <1>27 DEF LoopRaises, TypeOK
<1>28. CASE ScanDone
  BY <1>28 DEF ScanDone, TypeOK
<1>29. CASE Interrupt
  BY <1>29 DEF Interrupt, TypeOK
<1>30. CASE Iterate
  BY <1>30 DEF Iterate, TypeOK
<1>31. CASE CloseEnds
  BY <1>31 DEF CloseEnds, TypeOK
<1>32. CASE CloseRaises
  BY <1>32 DEF CloseRaises, TypeOK
<1>33. CASE ProcessEnds
  BY <1>33 DEF ProcessEnds, InLoop, TypeOK
<1> QED
  BY <1>1, <1>2, <1>3, <1>4, <1>5, <1>6, <1>7, <1>8, <1>9, <1>10, <1>11, <1>12,
      <1>13, <1>14, <1>15, <1>16, <1>17, <1>18, <1>19, <1>20, <1>21, <1>22, <1>23,
      <1>24, <1>25, <1>26, <1>27, <1>28, <1>29, <1>30, <1>31, <1>32, <1>33 DEF Next,
      Loop, Main, Poll, Environment

\* Why the loop ends.
LEMMA DeathStep == IInv /\ Next => DeathMarked'
<1> SUFFICES ASSUME IInv, Next PROVE DeathMarked'
  OBVIOUS
<1> USE PushAssumption DEF IInv, DeathMarked, LoopDeathHasCause, wires, tables,
    loop, mainVars, history
<1>1. ASSUME NEW c \in Conns, Accept(c) PROVE DeathMarked'
  BY <1>1 DEF Accept, Backlog, TypeOK
<1>2. ASSUME NEW c \in Conns, Enter(c) PROVE DeathMarked'
  BY <1>2 DEF Enter, Register, LoopBack, TypeOK
<1>3. ASSUME NEW c \in Conns, Handshake(c) PROVE DeathMarked'
  BY <1>3 DEF Handshake, Readable, TypeOK
<1>4. ASSUME NEW c \in Conns, SetHandshaked(c) PROVE DeathMarked'
  BY <1>4 DEF SetHandshaked, TypeOK
<1>5. ASSUME NEW c \in Conns, Connected(c) PROVE DeathMarked'
  BY <1>5 DEF Connected, SetStarted, LoopBack, TypeOK
<1>6. ASSUME NEW c \in Conns, CloseFrame(c) PROVE DeathMarked'
  BY <1>6 DEF CloseFrame, Readable, TypeOK
<1>7. ASSUME NEW c \in Conns, CloseSent(c) PROVE DeathMarked'
  BY <1>7 DEF CloseSent, Drop, CloseSocket, Forget, StopListening, StopStarted,
      LoopBack, TypeOK
<1>8. ASSUME NEW c \in Conns, Exceptional(c) PROVE DeathMarked'
  BY <1>8 DEF Exceptional, Drop, CloseSocket, Forget, StopListening, StopStarted,
      ScanOrder, TypeOK
<1>9. ASSUME NEW c \in Conns, LoopTells(c) PROVE DeathMarked'
  BY <1>9 DEF LoopTells, StopStarted, TypeOK
<1>10. ASSUME NEW c \in Conns, LoopCloses(c) PROVE DeathMarked'
  BY <1>10 DEF LoopCloses, CloseSocket, TypeOK
<1>11. ASSUME NEW c \in Conns, MainTells(c) PROVE DeathMarked'
  BY <1>11 DEF MainTells, StopStarted, TypeOK
<1>12. ASSUME NEW c \in Conns, MainCloses(c) PROVE DeathMarked'
  BY <1>12 DEF MainCloses, CloseSocket, TypeOK
<1>13. ASSUME NEW c \in Conns, FetchRaises(c) PROVE DeathMarked'
  BY <1>13 DEF FetchRaises, Return, LoopBack, InLoop, TypeOK
<1>14. ASSUME NEW c \in Conns, Test(c) PROVE DeathMarked'
  BY <1>14 DEF Test, Return, LoopBack, InLoop, TypeOK
<1>15. ASSUME NEW c \in Conns, Arm(c) PROVE DeathMarked'
  BY <1>15 DEF Arm, Return, LoopBack, InLoop, TypeOK
<1>16. CASE Select
  BY <1>16 DEF Select, Backlog, TablesMatchSockets, TypeOK
<1>17. CASE AcceptRaises
  BY <1>17 DEF AcceptRaises, TypeOK
<1>18. CASE ServerFailed
  BY <1>18 DEF ServerFailed, TypeOK
<1>19. CASE LoopRaises
  BY <1>19 DEF LoopRaises, TypeOK
<1>20. CASE ScanDone
  BY <1>20 DEF ScanDone, TypeOK
<1>21. CASE Interrupt
  BY <1>21 DEF Interrupt, TypeOK
<1>22. CASE Iterate
  BY <1>22 DEF Iterate, TypeOK
<1>23. CASE CloseEnds
  BY <1>23 DEF CloseEnds, TypeOK
<1>24. CASE CloseRaises
  BY <1>24 DEF CloseRaises, TypeOK
<1>25. CASE ProcessEnds
  BY <1>25 DEF ProcessEnds, InLoop, TypeOK
<1>26. CASE (\E c \in Conns : Dial(c) \/ HangUp(c) \/ StallOrDrain(c) \/
    DataIgnored(c) \/ DataRaises(c) \/ Fetch(c) \/ Push(c) \/ Fire(c))
  BY <1>26 DEF Dial, HangUp, StallOrDrain, DataIgnored, DataRaises, Fetch, Push,
      Fire
<1> QED
  BY <1>1, <1>2, <1>3, <1>4, <1>5, <1>6, <1>7, <1>8, <1>9, <1>10, <1>11, <1>12,
      <1>13, <1>14, <1>15, <1>16, <1>17, <1>18, <1>19, <1>20, <1>21, <1>22, <1>23,
      <1>24, <1>25, <1>26 DEF Next, Loop, Main, Poll, Environment

-----------------------------------------------------------------------------
\* The invariant says nothing of anything but the variables.
LEMMA StutterIInv == IInv /\ UNCHANGED vars => IInv'
  BY DEF IInv, vars, wires, tables, loop, mainVars, history, TypeOK,
         TablesMatchSockets, NewConnections, StartedWithHandshake, ChainUnbegun,
         ScanOrder, LateChain, SilentOnlyAfterFailure, DeathMarked, LoopDeathHasCause

\* The inductive invariant holds.
LEMMA SpecIInv == Spec => []IInv
<1>1. IInv /\ [Next]_vars => IInv'
  BY TypesStep, TablesStep, NewStep, StartedStep, UnbegunStep, ScanStep, LateStep, SilentStep,
     DeathStep, StutterIInv DEF IInv
<1> QED
  BY InitIInv, <1>1, PTL DEF Spec

\* Every variable of the server keeps its type.
THEOREM TypeCorrect == Spec => []TypeOK
  BY SpecIInv, PTL DEF IInv

\* The tables of the loop and the sockets agree until accept() fails, the
\* listening socket fails or SIGINT comes.
THEOREM TablesAgree == Spec => []TablesMatchSockets
  BY SpecIInv, PTL DEF IInv

\* What browsers do does not end the loop.
THEOREM BrowsersCannotEndLoop == Spec => []LoopDeathHasCause
<1>1. IInv => LoopDeathHasCause
  BY DEF IInv, DeathMarked
<1> QED
  BY <1>1, SpecIInv, PTL

\* At most one poll of the database is begun for a connection that is gone.
THEOREM OnePollAtMost == Spec => []OnePollAfterClose
<1>1. IInv => OnePollAfterClose
  BY DEF IInv, LateChain, OnePollAfterClose
<1> QED
  BY <1>1, SpecIInv, PTL

\* A connected browser goes without rows only after a poll failed.
THEOREM SilenceHasCause == Spec => []SilentOnlyAfterFailure
  BY SpecIInv, PTL DEF IInv

-----------------------------------------------------------------------------
\* One chain of polls each: chain has room for one only, and a second one would
\* overwrite it.  handleConnected never starts a second chain of polls for a
\* connection, not even for one that close() closes while its handshake is
\* answered.
THEOREM OneChainEach ==
  Spec => [][\A c \in Conns : Connected(c) => chain[c] = "none" /\ ~started[c]]_vars
<1>1. IInv => \A c \in Conns : Connected(c) => chain[c] = "none" /\ ~started[c]
  BY DEF Connected, ChainUnbegun, IInv
<1> QED
  BY <1>1, SpecIInv, PTL

-----------------------------------------------------------------------------
\* A connection that was removed, and the polls it may still make: one that is
\* armed, or being armed, is begun and is the last.

Removed(c) == sock[c] = "closed" /\ c \notin connections

\* The loop polls for connections in the tables, and the process outlives the
\* timer threads.
PollsWatched ==
  /\ spc = "poll" => cur \in connections
  /\ main = "gone" => \A c \in Conns : chain[c] = "none" \/ InLoop(c)

\* Only the handshake starts a poll in the loop, and only when every chain of
\* timers has ended does the process end.
LEMMA WatchedStep == IInv /\ PollsWatched /\ [Next]_vars => PollsWatched'
<1> SUFFICES ASSUME IInv, PollsWatched, [Next]_vars PROVE PollsWatched'
  OBVIOUS
<1> USE PushAssumption DEF PollsWatched, InLoop, wires, tables, loop, mainVars,
    history
<1>1. CASE main = "gone"
  <2>1. UNCHANGED vars
    BY <1>1 DEF Next, Loop, Interrupt, Iterate, Main, CloseEnds, CloseRaises, ProcessEnds,
        MainTells, MainCloses, Environment, Poll, vars
  <2> QED
    BY <1>1, <2>1 DEF vars
<1>2. CASE main # "gone"
  <2>1. ASSUME NEW c \in Conns, Connected(c) PROVE PollsWatched'
    BY <1>2, <2>1 DEF Connected, LoopBack, IInv, ScanOrder
  <2>2. CASE ProcessEnds
    BY <2>2 DEF ProcessEnds
  <2>3. ASSUME NEW c \in Conns, Accept(c) \/ Enter(c) PROVE PollsWatched'
    BY <1>2, <2>3 DEF Accept, Enter, LoopBack
  <2>4. ASSUME NEW c \in Conns, DataRaises(c) \/ CloseSent(c) \/ Exceptional(c)
        PROVE  PollsWatched'
    BY <1>2, <2>4 DEF DataRaises, CloseSent, Exceptional, Readable, LoopBack
  <2>5. ASSUME NEW c \in Conns, FetchRaises(c) \/ Test(c) \/ Arm(c)
        PROVE  PollsWatched'
    BY <1>2, <2>5 DEF FetchRaises, Test, Arm, Return, LoopBack
  <2>6. CASE \/ \E c \in Conns :
                  \/ Dial(c) \/ HangUp(c) \/ StallOrDrain(c) \/ DataIgnored(c)
                  \/ Handshake(c) \/ SetHandshaked(c) \/ CloseFrame(c) \/ LoopTells(c)
                  \/ LoopCloses(c) \/ MainTells(c) \/ MainCloses(c) \/ Fetch(c)
                  \/ Push(c) \/ Fire(c)
             \/ Select \/ AcceptRaises \/ ServerFailed \/ LoopRaises \/ ScanDone
             \/ Interrupt \/ Iterate \/ CloseEnds \/ CloseRaises \/ UNCHANGED vars
    BY <1>2, <2>6 DEF Dial, HangUp, StallOrDrain, DataIgnored, Handshake,
        SetHandshaked, CloseFrame, LoopTells, LoopCloses, MainTells, MainCloses, Fetch,
        Push, Fire, Select, AcceptRaises, ServerFailed, LoopRaises, ScanDone,
        Interrupt, Iterate, CloseEnds, CloseRaises, vars
  <2> QED
    BY <2>1, <2>2, <2>3, <2>4, <2>5, <2>6 DEF Next, Loop, Main, Poll, Environment
<1> QED
  BY <1>1, <1>2

\* So polls are watched in every reachable state.
LEMMA SpecWatched == Spec => [](IInv /\ PollsWatched)
<1>1. Init => PollsWatched
  BY DEF Init, PollsWatched
<1>2. IInv /\ PollsWatched /\ [Next]_vars => PollsWatched'
  BY WatchedStep
<1> QED
  BY <1>1, <1>2, SpecIInv, PTL DEF Spec

\* A connection stays removed, and only its own polls move its chain.
LEMMA RemovedStep ==
  ASSUME NEW c \in Conns, IInv, Removed(c), [Next]_vars
  PROVE  Removed(c)' /\ (chain'[c] = chain[c] \/ Poll(c))
<1> USE PushAssumption DEF IInv, TypeOK, Removed, wires, tables, loop, mainVars, history
<1>1. ASSUME NEW d \in Conns, Accept(d) PROVE Removed(c)' /\ chain'[c] = chain[c]
  <2>1. c # d
    BY <1>1 DEF Accept, Backlog, NewConnections
  <2> QED
    BY <1>1, <2>1 DEF Accept
<1>2. ASSUME NEW d \in Conns, Enter(d) PROVE Removed(c)' /\ chain'[c] = chain[c]
  <2>1. c # d
    BY <1>2 DEF Enter, NewConnections
  <2> QED
    BY <1>2, <2>1 DEF Enter
<1>3. ASSUME NEW d \in Conns, DataRaises(d) \/ CloseSent(d) \/ Exceptional(d)
      PROVE  Removed(c)' /\ chain'[c] = chain[c]
  BY <1>3 DEF DataRaises, CloseSent, Exceptional, Drop, CloseSocket, Forget,
      StopListening
<1>4. ASSUME NEW d \in Conns, Connected(d) PROVE Removed(c)' /\ chain'[c] = chain[c]
  <2>1. c # d
    BY <1>4 DEF Connected, ScanOrder
  <2> QED
    BY <1>4, <2>1 DEF Connected
<1>5. ASSUME NEW d \in Conns, Poll(d), d # c PROVE Removed(c)' /\ chain'[c] = chain[c]
  BY <1>5 DEF Poll, Fetch, FetchRaises, Push, Test, Arm, Fire
<1>6. CASE Poll(c)
  BY <1>6 DEF Poll, Fetch, FetchRaises, Push, Test, Arm, Fire
<1>7. CASE AcceptRaises \/ \E d \in Conns : LoopCloses(d) \/ MainCloses(d)
  BY <1>7 DEF AcceptRaises, LoopCloses, MainCloses, CloseSocket
<1>8. CASE \/ \E d \in Conns :
                \/ Dial(d) \/ HangUp(d) \/ StallOrDrain(d) \/ DataIgnored(d)
                \/ Handshake(d) \/ SetHandshaked(d) \/ CloseFrame(d) \/ LoopTells(d)
                \/ MainTells(d)
           \/ Select \/ ServerFailed \/ LoopRaises \/ ScanDone \/ Interrupt
           \/ Iterate \/ CloseEnds \/ CloseRaises \/ ProcessEnds \/ UNCHANGED vars
  BY <1>8 DEF Dial, HangUp, StallOrDrain, DataIgnored, Handshake, SetHandshaked,
      CloseFrame, LoopTells, MainTells, Select, ServerFailed, LoopRaises, ScanDone,
      Interrupt, Iterate, CloseEnds, CloseRaises, ProcessEnds, vars
<1> QED
  BY <1>1, <1>2, <1>3, <1>4, <1>5, <1>6, <1>7, <1>8 DEF Next, Loop, Main, Environment

\* What a poll does to the chain of a connection that has been told to stop.
LEMMA LastPoll ==
  ASSUME NEW c \in Conns, IInv, ~started[c], Poll(c)
  PROVE  /\ chain[c] = "arm" => chain'[c] = "timer"
         /\ chain[c] = "timer" => chain'[c] = "fetch"
         /\ chain[c] = "fetch" => chain'[c] \in {"push", "none"}
         /\ chain[c] = "push" => chain'[c] = "test"
         /\ chain[c] = "test" => chain'[c] = "none"
         /\ chain[c] # "none"
BY DEF IInv, TypeOK, Poll, Fetch, FetchRaises, Push, Test, Arm, Fire

\* The fairness of Poll(c) that FairSpec assumes, with the guard of its steps
\* in the place of ENABLED.
PollMay(c) == main # "gone" /\ chain[c] # "none" /\ (chain[c] = "push" => Sendable(c))
PollRuns(c) == []<>~PollMay(c) \/ []<><<Poll(c)>>_vars

\* Step by step, the chain of a removed connection ends.
LEMMA ChainEnds ==
  ASSUME NEW c \in Conns
  PROVE  Spec /\ PollRuns(c) => (Removed(c) ~> chain[c] = "none")
<1>0. IInv /\ Removed(c) => ~started[c]
  BY DEF IInv, StartedWithHandshake, Removed
<1>1. IInv /\ PollsWatched /\ Removed(c)
        => /\ chain[c] = "none" \/ PollMay(c)
           /\ \/ chain[c] = "none" \/ chain[c] = "timer" \/ chain[c] = "fetch"
              \/ chain[c] = "push" \/ chain[c] = "test" \/ chain[c] = "arm"
  BY DEF IInv, TypeOK, ChainStates, PollsWatched, Removed, InLoop, PollMay, Sendable
<1>2. IInv /\ Removed(c) /\ [Next]_vars
        => /\ Removed(c)'
           /\ chain[c] = "arm" => (chain[c] = "arm")' \/ (chain[c] = "timer")'
           /\ chain[c] = "timer" => (chain[c] = "timer")' \/ (chain[c] = "fetch")'
           /\ chain[c] = "fetch" => \/ (chain[c] = "fetch")' \/ (chain[c] = "push")'
                                    \/ (chain[c] = "none")'
           /\ chain[c] = "push" => (chain[c] = "push")' \/ (chain[c] = "test")'
           /\ chain[c] = "test" => (chain[c] = "test")' \/ (chain[c] = "none")'
  BY <1>0, RemovedStep, LastPoll
<1>3. IInv /\ Removed(c) /\ <<Poll(c)>>_vars
        => /\ chain[c] = "arm" => (chain[c] = "timer")'
           /\ chain[c] = "timer" => (chain[c] = "fetch")'
           /\ chain[c] = "fetch" => (chain[c] = "push")' \/ (chain[c] = "none")'
           /\ chain[c] = "push" => (chain[c] = "test")'
           /\ chain[c] = "test" => (chain[c] = "none")'
  BY <1>0, LastPoll
<1>4. Spec => [][Next]_vars
  BY PTL DEF Spec
<1> QED
  BY <1>1, <1>2, <1>3, <1>4, SpecWatched, PTL DEF PollRuns

\* A connection that is gone stops polling, as long as the timer threads run.
THEOREM PollingStopsOnce ==
  Spec /\ (\A c \in Conns : PollRuns(c)) => PollingStops
  BY ChainEnds DEF PollingStops, Removed

-----------------------------------------------------------------------------
\* What the main thread's close() leaves behind.  The loop goes on with its scan
\* beside it, over connections that close() iterates over; one that is entered in
\* the tables meanwhile is not read before the loop ends.

Closing == main \in {"closing", "told"}

\* What it has visited is shut, or is being shut, and after it everything is.
CloseProgress ==
  /\ main \in {"run", "interrupted"} => visited = {}
  /\ Closing \/ Exited =>
       /\ rList \subseteq iterated \cup {Server}
       /\ \A c \in Conns :
            /\ started[c] => c \in iterated
            /\ sock[c] = "open" /\ chain[c] # "none" => c \in iterated
  /\ ~Excused /\ Closing =>
       \A c \in visited :
         ~started[c] /\ (sock[c] = "open" => main = "told" /\ conn = c)
  /\ ~Excused /\ Exited =>
       connections \cap iterated \subseteq visited /\ \A c \in Conns : Shut(c)

\* What is marked stays marked.
LEMMA MarksStay == Next => marks \subseteq marks'
<1> USE DEF wires, tables, loop, mainVars, history
<1>1. ASSUME NEW c \in Conns, Environment(c) \/ Poll(c) PROVE marks' = marks
  BY <1>1 DEF Environment, Dial, HangUp, StallOrDrain, Poll, Fetch, FetchRaises, Push,
      Test, Arm, Fire
<1>2. ASSUME Loop PROVE marks \subseteq marks'
  BY <1>2 DEF Loop, Select, AcceptRaises, ServerFailed, LoopRaises, ScanDone, Accept,
      Enter, DataIgnored, DataRaises, Handshake, SetHandshaked, Connected, CloseFrame,
      CloseSent, Exceptional, LoopTells, LoopCloses
<1>3. ASSUME Interrupt \/ Main PROVE marks \subseteq marks'
  BY <1>3 DEF Interrupt, Main, Iterate, CloseEnds, CloseRaises, ProcessEnds, MainTells,
      MainCloses
<1> QED
  BY <1>1, <1>2, <1>3 DEF Next

\* What the loop, the timers and the browsers may do while the main thread closes,
\* or has closed: no socket is opened, and polls begin only for a connection that
\* is left of the scan; if its handleClose was called, that is marked.
LEMMA BesideClose ==
  ASSUME IInv, Next, main # "run", UNCHANGED mainVars
  PROVE  /\ rList' \subseteq rList
         /\ Excused => Excused'
         /\ connections' \cap iterated \subseteq connections
         /\ \A c \in Conns :
              /\ sock'[c] = "open" => sock[c] = "open"
              /\ started'[c] =>
                   \/ started[c]
                   \/ c \in rList \cap connections /\ (c \in visited => Excused')
              /\ chain'[c] # "none" => chain[c] # "none" \/ c \in rList
<1> DEFINE Beside ==
      /\ rList' \subseteq rList
      /\ marks \subseteq marks'
      /\ connections' \cap iterated \subseteq connections
      /\ \A c \in Conns :
           /\ sock'[c] = "open" => sock[c] = "open"
           /\ started'[c] =>
                \/ started[c]
                \/ c \in rList \cap connections /\ (c \in visited => "revived" \in marks')
           /\ chain'[c] # "none" => chain[c] # "none" \/ c \in rList
<1> USE PushAssumption DEF IInv, TypeOK, wires, tables, loop, history
<1>1. ASSUME NEW d \in Conns, Connected(d) PROVE Beside
  BY <1>1 DEF Connected, SetStarted, LoopBack, ScanOrder
<1>2. ASSUME NEW d \in Conns, Enter(d) PROVE Beside
  BY <1>2 DEF Enter, NewConnections
<1>3. ASSUME NEW d \in Conns, DataRaises(d) PROVE Beside
  BY <1>3 DEF DataRaises, Drop, CloseSocket, StopStarted, Forget
<1>4. ASSUME NEW d \in Conns, CloseSent(d) PROVE Beside
  BY <1>4 DEF CloseSent, Drop, CloseSocket, StopStarted, Forget
<1>5. ASSUME NEW d \in Conns, Exceptional(d) PROVE Beside
  BY <1>5 DEF Exceptional, Drop, CloseSocket, StopStarted, Forget
<1>6. ASSUME NEW d \in Conns, LoopTells(d) \/ LoopCloses(d) PROVE Beside
  BY <1>6 DEF LoopTells, LoopCloses, CloseSocket, StopStarted
<1>7. ASSUME NEW d \in Conns, Poll(d) PROVE Beside
  BY <1>7 DEF Poll, Fetch, FetchRaises, Push, Test, Arm, Fire
<1>8. ASSUME Select \/ AcceptRaises \/ ServerFailed \/ LoopRaises \/ ScanDone
      PROVE  Beside
  BY <1>8 DEF Select, AcceptRaises, ServerFailed, LoopRaises, ScanDone
<1>9. ASSUME NEW d \in Conns,
             \/ Dial(d) \/ HangUp(d) \/ StallOrDrain(d) \/ DataIgnored(d)
             \/ Handshake(d) \/ SetHandshaked(d) \/ CloseFrame(d)
      PROVE  Beside
  BY <1>9 DEF Dial, HangUp, StallOrDrain, DataIgnored, Handshake, SetHandshaked,
      CloseFrame
<1>10. ASSUME NEW d \in Conns PROVE ~MainTells(d) /\ ~MainCloses(d)
  BY DEF MainTells, MainCloses, mainVars
<1>11. /\ ~Interrupt /\ ~Iterate /\ ~CloseEnds /\ ~CloseRaises /\ ~ProcessEnds
       /\ \A d \in Conns : ~Accept(d)
  BY DEF Interrupt, Iterate, CloseEnds, CloseRaises, ProcessEnds, Accept, mainVars
<1>12. Beside
  BY <1>1, <1>2, <1>3, <1>4, <1>5, <1>6, <1>7, <1>8, <1>9, <1>10, <1>11 DEF Next,
     Loop, Main, Environment
<1> QED
  BY <1>12 DEF Excused

\* The main thread's variables change in its own steps only.
LEMMA MainSteps ==
  ASSUME Next
  PROVE  \/ UNCHANGED mainVars \/ Interrupt \/ Iterate \/ CloseEnds \/ CloseRaises
         \/ ProcessEnds \/ \E c \in Conns : MainTells(c) \/ MainCloses(c)
<1> USE DEF wires, tables, loop, history
<1>1. ASSUME NEW c \in Conns, Environment(c) \/ Poll(c) PROVE UNCHANGED mainVars
  BY <1>1 DEF Environment, Dial, HangUp, StallOrDrain, Poll, Fetch, FetchRaises, Push,
      Test, Arm, Fire
<1>2. ASSUME Loop PROVE UNCHANGED mainVars
  BY <1>2 DEF Loop, Select, AcceptRaises, ServerFailed, LoopRaises, ScanDone, Accept,
      Enter, DataIgnored, DataRaises, Handshake, SetHandshaked, Connected, CloseFrame,
      CloseSent, Exceptional, LoopTells, LoopCloses
<1> QED
  BY <1>1, <1>2 DEF Next, Main

\* Every step keeps what close() has done so far, or is an excuse.
LEMMA ProgressStep == IInv /\ CloseProgress /\ [Next]_vars => CloseProgress'
<1> SUFFICES ASSUME IInv, CloseProgress, [Next]_vars PROVE CloseProgress'
  OBVIOUS
<1> USE PushAssumption DEF Closing, Exited, Shut
<1>1. CASE UNCHANGED vars
  BY <1>1 DEF CloseProgress, Excused, vars, wires, tables, loop, mainVars, history
<1>2. CASE Next
  <2>1. CASE UNCHANGED mainVars
    <3>1. CASE main = "run"
      BY <2>1, <3>1 DEF CloseProgress, mainVars
    <3>2. CASE main # "run"
      <4>1. /\ visited \subseteq Conns /\ iterated \subseteq Conns
            /\ connections \subseteq Conns
        BY DEF IInv, TypeOK
      <4> QED
        BY <1>2, <2>1, <3>2, <4>1, BesideClose DEF CloseProgress, mainVars
    <3> QED
      BY <3>1, <3>2
  <2>2. CASE Interrupt
    BY <2>2 DEF Interrupt, CloseProgress
  <2>3. CASE Iterate
    BY <2>3 DEF Iterate, CloseProgress, IInv, TypeOK, ScanOrder, StartedWithHandshake,
        TablesMatchSockets, NewConnections, loop, tables
  <2>4. ASSUME NEW c \in Conns, MainTells(c) PROVE CloseProgress'
    BY <2>4 DEF MainTells, StopStarted, CloseProgress, Excused, IInv, TypeOK, loop,
        history
  <2>5. ASSUME NEW c \in Conns, MainCloses(c) PROVE CloseProgress'
    BY <2>5 DEF MainCloses, CloseSocket, CloseProgress, Excused, IInv, TypeOK, loop,
        history
  <2>6. CASE CloseEnds
    <3>1. UNCHANGED <<rList, started, sock, chain, visited, iterated, connections>>
      BY <2>6 DEF CloseEnds, loop, tables
    <3>2. ASSUME ~Excused'
          PROVE  ~Excused /\ connections \cap iterated \subseteq visited
      BY <2>6, <3>2 DEF CloseEnds, Excused
    <3>3. ASSUME ~Excused', NEW c \in Conns PROVE Shut(c)
      <4>1. ASSUME started[c] PROVE FALSE
        <5>1. c \in connections \cap iterated
          BY <2>6, <4>1 DEF CloseEnds, CloseProgress, IInv, StartedWithHandshake
        <5> QED
          BY <2>6, <3>2, <3>3, <4>1, <5>1 DEF CloseEnds, CloseProgress
      <4>2. ASSUME c \in iterated, sock[c] = "open" PROVE FALSE
        <5>1. c \in connections
          BY <4>2 DEF IInv, TablesMatchSockets, NewConnections
        <5> QED
          BY <2>6, <3>2, <3>3, <4>2, <5>1 DEF CloseEnds, CloseProgress
      <4> QED
        BY <4>1, <4>2
    <3> QED
      BY <2>6, <3>1, <3>2, <3>3 DEF CloseEnds, CloseProgress
  <2>7. CASE CloseRaises
    BY <2>7 DEF CloseRaises, CloseProgress, Excused, loop
  <2>8. CASE ProcessEnds
    BY <2>8 DEF ProcessEnds, CloseProgress, Excused, loop, tables, history
  <2> QED
    BY <1>2, <2>1, <2>2, <2>3, <2>4, <2>5, <2>6, <2>7, <2>8, MainSteps
<1> QED
  BY <1>1, <1>2

\* So it holds in every reachable state.
LEMMA SpecProgress == Spec => [](IInv /\ CloseProgress)
<1>1. Init => CloseProgress
  BY DEF Init, CloseProgress, Closing, Exited
<1> QED
  BY <1>1, ProgressStep, SpecIInv, PTL DEF Spec

\* When the main thread has run close() to its end, each connection it began with
\* has its socket closed and no connection starts polls again, unless a change of
\* the dictionary made close() raise or skip one, or handleConnected began the
\* polls of a connection after close() had called its handleClose.
THEOREM ShutAtExit == Spec => []ClosedAtExit
<1>1. CloseProgress => ClosedAtExit
  BY DEF CloseProgress, ClosedAtExit
<1> QED
  BY <1>1, SpecProgress, PTL

\* From then on only its own polls move a connection's chain.
LEMMA ExitStep ==
  ASSUME NEW c \in Conns, IInv, CloseProgress, main = "exit", ~Excused, [Next]_vars
  PROVE  /\ main' \in {"exit", "gone"}
         /\ chain'[c] = chain[c] \/ Poll(c) \/ Excused'
<1> USE PushAssumption DEF IInv, TypeOK, wires, tables, loop, mainVars, history
<1>1. ASSUME NEW d \in Conns, Connected(d)
      PROVE  main' = main /\ (chain'[c] = chain[c] \/ Excused')
  <2>1. CASE c = d
    <3>1. c \in visited /\ ~started[c]
      BY <1>1, <2>1 DEF Connected, ScanOrder, CloseProgress, Closing, Exited, ChainUnbegun
    <3> QED
      BY <1>1, <2>1, <3>1 DEF Connected, Excused
  <2>2. CASE c # d
    BY <1>1, <2>2 DEF Connected
  <2> QED
    BY <2>1, <2>2
<1>2. ASSUME NEW d \in Conns, Poll(d)
      PROVE  main' = main /\ (chain'[c] = chain[c] \/ Poll(c))
  BY <1>2 DEF Poll, Fetch, FetchRaises, Push, Test, Arm, Fire
<1>3. ASSUME NEW d \in Conns,
             \/ Enter(d) \/ DataRaises(d) \/ CloseSent(d) \/ Exceptional(d)
             \/ LoopTells(d) \/ LoopCloses(d)
      PROVE  main' = main /\ chain'[c] = chain[c]
  BY <1>3 DEF Enter, DataRaises, CloseSent, Exceptional, LoopTells, LoopCloses
<1>4. CASE \/ \E d \in Conns :
                \/ Dial(d) \/ HangUp(d) \/ StallOrDrain(d) \/ DataIgnored(d)
                \/ Handshake(d) \/ SetHandshaked(d) \/ CloseFrame(d)
           \/ Select \/ AcceptRaises \/ ServerFailed \/ LoopRaises \/ ScanDone
           \/ ProcessEnds \/ UNCHANGED vars
  BY <1>4 DEF Dial, HangUp, StallOrDrain, DataIgnored, Handshake, SetHandshaked,
      CloseFrame, Select, AcceptRaises, ServerFailed, LoopRaises, ScanDone,
      ProcessEnds, vars
<1>5. /\ ~Interrupt /\ ~Iterate /\ ~CloseEnds /\ ~CloseRaises
      /\ \A d \in Conns : ~Accept(d) /\ ~MainTells(d) /\ ~MainCloses(d)
  BY DEF Interrupt, Iterate, CloseEnds, CloseRaises, Accept, MainTells, MainCloses
<1> QED
  BY <1>1, <1>2, <1>3, <1>4, <1>5 DEF Next, Loop, Main, Environment

\* Each chain of polls ends after close() and starts no more, under the same
\* excuses, as long as the timer threads run.
THEOREM PollsEndAtExit ==
  Spec /\ (\A c \in Conns : PollRuns(c))
    => \A c \in Conns :
         main = "exit" ~> [](chain[c] = "none" \/ main = "gone" \/ Excused)
<1>1. ASSUME NEW c \in Conns
      PROVE  Spec /\ PollRuns(c)
               => (main = "exit" ~> [](chain[c] = "none" \/ main = "gone" \/ Excused))
  <2> USE DEF Exited, Closing
  <2>1. IInv /\ CloseProgress /\ main = "exit" /\ ~Excused
          => /\ chain[c] = "none" \/ PollMay(c)
             /\ \/ chain[c] = "none" \/ chain[c] = "timer" \/ chain[c] = "fetch"
                \/ chain[c] = "push" \/ chain[c] = "test" \/ chain[c] = "arm"
    BY DEF IInv, TypeOK, ChainStates, NewConnections, CloseProgress, Shut, PollMay,
        Sendable
  <2>2. IInv /\ CloseProgress /\ main = "exit" /\ ~Excused /\ [Next]_vars
          => /\ (main = "exit")' \/ (main = "gone")'
             /\ \/ Excused'
                \/ /\ chain[c] = "arm" => (chain[c] = "arm")' \/ (chain[c] = "timer")'
                   /\ chain[c] = "timer" => (chain[c] = "timer")' \/ (chain[c] = "fetch")'
                   /\ chain[c] = "fetch" => \/ (chain[c] = "fetch")' \/ (chain[c] = "push")'
                                            \/ (chain[c] = "none")'
                   /\ chain[c] = "push" => (chain[c] = "push")' \/ (chain[c] = "test")'
                   /\ chain[c] = "test" => (chain[c] = "test")' \/ (chain[c] = "none")'
                   /\ chain[c] = "none" => (chain[c] = "none")'
    BY ExitStep, LastPoll DEF CloseProgress, Shut
  <2>3. IInv /\ CloseProgress /\ main = "exit" /\ ~Excused /\ <<Poll(c)>>_vars
          => /\ chain[c] = "arm" => (chain[c] = "timer")'
             /\ chain[c] = "timer" => (chain[c] = "fetch")'
             /\ chain[c] = "fetch" => (chain[c] = "push")' \/ (chain[c] = "none")'
             /\ chain[c] = "push" => (chain[c] = "test")'
             /\ chain[c] = "test" => (chain[c] = "none")'
    BY LastPoll DEF CloseProgress, Shut
  <2>4. /\ IInv /\ main = "gone" /\ [Next]_vars => (main = "gone")'
        /\ IInv /\ Excused /\ [Next]_vars => Excused'
    <3>1. IInv /\ UNCHANGED vars => (main = "gone" => main' = "gone") /\ (Excused => Excused')
      BY DEF vars, mainVars, history, Excused
    <3>2. IInv /\ Next /\ main = "gone" => main' = "gone"
      BY DEF Next, Loop, Interrupt, Iterate, Main, CloseEnds, CloseRaises, ProcessEnds,
          MainTells, MainCloses, Environment, Poll
    <3>3. IInv /\ Next /\ Excused => Excused'
      BY MarksStay DEF Excused
    <3> QED
      BY <3>1, <3>2, <3>3
  <2>5. Spec => [][Next]_vars
    BY PTL DEF Spec
  <2> QED
    BY <2>1, <2>2, <2>3, <2>4, <2>5, SpecProgress, PTL DEF PollRuns
<1> QED
  BY <1>1

-----------------------------------------------------------------------------
\* The loop's thread.  LoopMay is the guard of Loop; with it in the place of
\* ENABLED, LoopRuns is the fairness of Loop that FairSpec assumes.

LoopMay ==
  /\ main # "gone"
  /\ \/ /\ spc = "select"
        /\ \/ main # "run" \/ Backlog # {} \/ listeners # {}
           \/ "exceptional" \in Faults
     \/ spc \in {"scan", "accepted", "connect", "begin", "closing", "told"}
     \/ spc = "sendClose" /\ Sendable(cur)
LoopRuns == []<>~LoopMay \/ []<><<Loop>>_vars

\* The loop is at work for connection c alone: it answers the handshake, makes
\* the first poll, or answers a close frame.
Serving(c) == cur = c /\ spc \in {"connect", "begin", "poll", "sendClose"}
PollInLoop(c) == InLoop(c) => chain[c] \in {"fetch", "push", "test", "arm"}

\* What a step of the system does while the loop serves connection c.
LEMMA ServingStep ==
  ASSUME NEW c \in Conns, IInv, PollInLoop(c), Serving(c), Next
  PROVE  \/ UNCHANGED <<spc, cur, chain[c]>>
         \/ SetHandshaked(c) \/ Connected(c) \/ CloseSent(c) \/ Poll(c)
<1> USE PushAssumption DEF Serving, wires, tables, loop, mainVars, history
<1>1. ASSUME NEW d \in Conns, SetHandshaked(d) \/ Connected(d) \/ CloseSent(d)
      PROVE  SetHandshaked(c) \/ Connected(c) \/ CloseSent(c)
  BY <1>1 DEF SetHandshaked, Connected, CloseSent
<1>2. ASSUME NEW d \in Conns,
             \/ Accept(d) \/ Enter(d) \/ DataIgnored(d) \/ DataRaises(d) \/ Handshake(d)
             \/ CloseFrame(d) \/ Exceptional(d) \/ LoopTells(d) \/ LoopCloses(d)
      PROVE  FALSE
  BY <1>2 DEF Accept, Enter, DataIgnored, DataRaises, Handshake, CloseFrame,
      Exceptional, LoopTells, LoopCloses, Readable
<1>3. ~Select /\ ~AcceptRaises /\ ~ServerFailed /\ ~LoopRaises /\ ~ScanDone
  BY DEF Select, AcceptRaises, ServerFailed, LoopRaises, ScanDone
<1>4. ASSUME NEW d \in Conns, Poll(d), d # c
      PROVE  UNCHANGED <<spc, cur, chain[c]>>
  BY <1>4 DEF Poll, Fetch, FetchRaises, Push, Test, Arm, Fire, Return, InLoop, IInv,
      TypeOK
<1>5. CASE \/ \E d \in Conns :
                Dial(d) \/ HangUp(d) \/ StallOrDrain(d) \/ MainTells(d) \/ MainCloses(d)
           \/ Interrupt \/ Iterate \/ CloseEnds \/ CloseRaises \/ ProcessEnds
  BY <1>5 DEF Dial, HangUp, StallOrDrain, MainTells, MainCloses, Interrupt, Iterate,
      CloseEnds, CloseRaises, ProcessEnds
<1> QED
  BY <1>1, <1>2, <1>3, <1>4, <1>5 DEF Next, Loop, Main, Environment

\* A poll in the loop's thread is always at one of its steps.
LEMMA PollInLoopStep ==
  ASSUME NEW c \in Conns, IInv, PollInLoop(c), [Next]_vars
  PROVE  PollInLoop(c)'
<1> USE DEF PollInLoop, InLoop
<1>1. CASE UNCHANGED vars
  BY <1>1 DEF vars, loop
<1>2. CASE Next /\ Serving(c)
  <2>1. CASE UNCHANGED <<spc, cur, chain[c]>>
    BY <2>1
  <2>2. CASE SetHandshaked(c) \/ Connected(c) \/ CloseSent(c)
    BY <2>2 DEF SetHandshaked, Connected, CloseSent, LoopBack, IInv, TypeOK
  <2>3. CASE Poll(c)
    BY <2>3 DEF Poll, Fetch, FetchRaises, Push, Test, Arm, Fire, Return, LoopBack, IInv,
        TypeOK, loop
  <2> QED
    BY <1>2, <2>1, <2>2, <2>3, ServingStep
<1>3. CASE Next /\ ~Serving(c)
  <2>1. spc' # "poll" \/ cur' # c
    <3> USE <1>3, PushAssumption DEF Serving, wires, tables, loop, mainVars, history
    <3>1. ASSUME NEW d \in Conns, Connected(d) PROVE spc' # "poll" \/ cur' # c
      BY <3>1 DEF Connected, LoopBack
    <3>2. ASSUME NEW d \in Conns,
                 \/ Accept(d) \/ Enter(d) \/ DataIgnored(d) \/ DataRaises(d)
                 \/ Handshake(d) \/ SetHandshaked(d) \/ CloseFrame(d) \/ CloseSent(d)
                 \/ Exceptional(d) \/ LoopTells(d) \/ LoopCloses(d)
          PROVE  spc' # "poll" \/ cur' # c
      BY <3>2 DEF Accept, Enter, DataIgnored, DataRaises, Handshake, SetHandshaked,
          CloseFrame, CloseSent, Exceptional, LoopTells, LoopCloses, LoopBack, Readable
    <3>3. CASE Select \/ AcceptRaises \/ ServerFailed \/ LoopRaises \/ ScanDone
      BY <3>3 DEF Select, AcceptRaises, ServerFailed, LoopRaises, ScanDone
    <3>4. ASSUME NEW d \in Conns, Poll(d) PROVE spc' # "poll" \/ cur' # c
      BY <3>4 DEF Poll, Fetch, FetchRaises, Push, Test, Arm, Fire, Return, LoopBack
    <3>5. CASE \/ \E d \in Conns :
                    \/ Dial(d) \/ HangUp(d) \/ StallOrDrain(d)
                    \/ MainTells(d) \/ MainCloses(d)
               \/ Interrupt \/ Iterate \/ CloseEnds \/ CloseRaises \/ ProcessEnds
      BY <3>5 DEF Dial, HangUp, StallOrDrain, MainTells, MainCloses, Interrupt, Iterate,
          CloseEnds, CloseRaises, ProcessEnds
    <3> QED
      BY <1>3, <3>1, <3>2, <3>3, <3>4, <3>5 DEF Next, Loop, Main, Environment
  <2> QED
    BY <2>1
<1> QED
  BY <1>1, <1>2, <1>3

\* What the steps that serve connection c come to.
LEMMA ServedBy ==
  ASSUME NEW c \in Conns, IInv, PollInLoop(c), Serving(c)
  PROVE  /\ SetHandshaked(c) => spc = "connect" /\ spc' = "begin" /\ cur' = c
         /\ Connected(c) =>
              /\ spc = "begin"
              /\ spc' = "scan" \/ (spc' = "poll" /\ cur' = c /\ chain'[c] = "fetch")
         /\ CloseSent(c) => spc' = "scan"
         /\ spc = "poll" /\ Poll(c) =>
              \/ spc' = "scan"
              \/ /\ spc' = "poll" /\ cur' = c
                 /\ \/ chain[c] = "fetch" /\ chain'[c] = "push"
                    \/ chain[c] = "push" /\ chain'[c] = "test"
                    \/ chain[c] = "test" /\ chain'[c] = "arm"
         /\ spc # "poll" /\ Poll(c) => spc' = spc /\ cur' = c
<1> USE DEF Serving, IInv, TypeOK, loop, LoopBack
<1>1. SetHandshaked(c) => spc = "connect" /\ spc' = "begin" /\ cur' = c
  BY DEF SetHandshaked
<1>2. Connected(c) =>
        /\ spc = "begin"
        /\ spc' = "scan" \/ (spc' = "poll" /\ cur' = c /\ chain'[c] = "fetch")
  BY DEF Connected
<1>3. CloseSent(c) => spc' = "scan"
  BY DEF CloseSent
<1>4. ASSUME spc = "poll", Poll(c)
      PROVE  \/ spc' = "scan"
             \/ /\ spc' = "poll" /\ cur' = c
                /\ \/ chain[c] = "fetch" /\ chain'[c] = "push"
                   \/ chain[c] = "push" /\ chain'[c] = "test"
                   \/ chain[c] = "test" /\ chain'[c] = "arm"
  BY <1>4 DEF Poll, Fetch, FetchRaises, Push, Test, Arm, Fire, Return, InLoop, PollInLoop
<1>5. ASSUME spc # "poll", Poll(c) PROVE spc' = spc /\ cur' = c
  BY <1>5 DEF Poll, Fetch, FetchRaises, Push, Test, Arm, Fire, Return, InLoop
<1> QED
  BY <1>1, <1>2, <1>3, <1>4, <1>5

\* While a poll runs in the loop's thread it is at one of its steps, always.
LEMMA SpecInLoop ==
  ASSUME NEW c \in Conns
  PROVE  Spec => [](IInv /\ PollInLoop(c))
<1>1. Init => PollInLoop(c)
  BY DEF Init, PollInLoop, InLoop
<1>2. IInv /\ PollInLoop(c) /\ [Next]_vars => PollInLoop(c)'
  BY PollInLoopStep
<1> QED
  BY <1>1, <1>2, SpecIInv, PTL DEF Spec

\* One browser cannot keep the loop: what the loop does for a connection is over
\* in the end, if that browser reads from some time on, hangs up, or is closed.
THEOREM ServedInTheEnd ==
  Spec /\ LoopRuns /\ (\A c \in Conns : PollRuns(c))
    => \A c \in Conns :
         <>[]Sendable(c) => (Serving(c) ~> spc = "scan" \/ main = "gone")
<1>1. ASSUME NEW c \in Conns
      PROVE  Spec /\ LoopRuns /\ PollRuns(c)
               => (<>[]Sendable(c) => (Serving(c) ~> spc = "scan" \/ main = "gone"))
  <2>1. IInv /\ PollInLoop(c) /\ Serving(c)
        => /\ cur = c
           /\ \/ spc = "connect"
              \/ spc = "begin"
              \/ spc = "sendClose"
              \/ /\ spc = "poll"
                 /\ \/ chain[c] = "fetch" \/ chain[c] = "push" \/ chain[c] = "test"
                    \/ chain[c] = "arm"
    BY DEF Serving, PollInLoop, InLoop
  <2>2. IInv /\ cur = c /\ Sendable(c)
        => /\ spc = "connect" \/ spc = "begin" \/ spc = "sendClose"
              => main = "gone" \/ LoopMay
           /\ \/ chain[c] = "fetch" \/ chain[c] = "push" \/ chain[c] = "test"
              \/ chain[c] = "arm"
              => main = "gone" \/ PollMay(c)
    BY DEF LoopMay, PollMay
  <2>3. IInv /\ PollInLoop(c) /\ cur = c /\ [Next]_vars
        => /\ spc = "connect" =>
                \/ (spc = "connect")' /\ (cur = c)'
                \/ (spc = "begin")' /\ (cur = c)'
           /\ spc = "begin" =>
                \/ (spc = "begin")' /\ (cur = c)'
                \/ (spc = "scan")'
                \/ (spc = "poll")' /\ (cur = c)' /\ (chain[c] = "fetch")'
           /\ spc = "sendClose" =>
                \/ (spc = "sendClose")' /\ (cur = c)'
                \/ (spc = "scan")'
           /\ spc = "poll" /\ chain[c] = "fetch" =>
                \/ (spc = "poll")' /\ (cur = c)' /\ (chain[c] = "fetch")'
                \/ (spc = "poll")' /\ (cur = c)' /\ (chain[c] = "push")'
                \/ (spc = "scan")'
           /\ spc = "poll" /\ chain[c] = "push" =>
                \/ (spc = "poll")' /\ (cur = c)' /\ (chain[c] = "push")'
                \/ (spc = "poll")' /\ (cur = c)' /\ (chain[c] = "test")'
                \/ (spc = "scan")'
           /\ spc = "poll" /\ chain[c] = "test" =>
                \/ (spc = "poll")' /\ (cur = c)' /\ (chain[c] = "test")'
                \/ (spc = "poll")' /\ (cur = c)' /\ (chain[c] = "arm")'
                \/ (spc = "scan")'
           /\ spc = "poll" /\ chain[c] = "arm" =>
                \/ (spc = "poll")' /\ (cur = c)' /\ (chain[c] = "arm")'
                \/ (spc = "scan")'
    <3> SUFFICES ASSUME IInv, PollInLoop(c), Serving(c), [Next]_vars
                 PROVE  \/ spc' = spc /\ cur' = c /\ (spc = "poll" => chain'[c] = chain[c])
                        \/ spc # "connect" /\ spc' = "scan"
                        \/ spc' = "begin" /\ cur' = c /\ spc = "connect"
                        \/ spc' = "poll" /\ cur' = c /\ spc = "begin" /\ chain'[c] = "fetch"
                        \/ /\ spc = "poll" /\ spc' = "poll" /\ cur' = c
                           /\ \/ chain[c] = "fetch" /\ chain'[c] = "push"
                              \/ chain[c] = "push" /\ chain'[c] = "test"
                              \/ chain[c] = "test" /\ chain'[c] = "arm"
      BY DEF Serving
    <3>1. CASE UNCHANGED vars
      BY <3>1 DEF vars, loop, Serving
    <3>2. CASE UNCHANGED <<spc, cur, chain[c]>>
      BY <3>2 DEF Serving
    <3>3. CASE SetHandshaked(c) \/ Connected(c)
      BY <3>3, ServedBy
    <3>4. CASE CloseSent(c)
      BY <3>4, ServedBy DEF CloseSent
    <3>5. CASE Poll(c)
      BY <3>5, ServedBy DEF Serving
    <3> QED
      BY <3>1, <3>2, <3>3, <3>4, <3>5, ServingStep
  <2>4. IInv /\ PollInLoop(c) /\ cur = c /\ <<Loop>>_vars
        => /\ spc = "connect" => (spc = "begin")' /\ (cur = c)'
           /\ spc = "begin" =>
                \/ (spc = "scan")'
                \/ (spc = "poll")' /\ (cur = c)' /\ (chain[c] = "fetch")'
           /\ spc = "sendClose" => (spc = "scan")'
    <3> SUFFICES ASSUME IInv, cur = c, Loop, spc \in {"connect", "begin", "sendClose"}
                 PROVE  \/ spc = "connect" /\ spc' = "begin" /\ cur' = c
                        \/ spc # "connect" /\ spc' = "scan"
                        \/ /\ spc = "begin" /\ spc' = "poll" /\ cur' = c
                           /\ chain'[c] = "fetch"
      OBVIOUS
    <3>1. \E d \in Conns : SetHandshaked(d) \/ Connected(d) \/ CloseSent(d)
      BY DEF Loop, Select, AcceptRaises, ServerFailed, LoopRaises, ScanDone, Accept,
          Enter, DataIgnored, DataRaises, Handshake, CloseFrame, Exceptional, LoopTells,
          LoopCloses, Readable
    <3> QED
      BY <3>1 DEF SetHandshaked, Connected, CloseSent, LoopBack, IInv, TypeOK
  <2>5. IInv /\ PollInLoop(c) /\ cur = c /\ spc = "poll" /\ <<Poll(c)>>_vars
        => /\ chain[c] = "fetch" => (chain[c] = "push")' \/ (spc = "scan")'
           /\ chain[c] = "push" => (chain[c] = "test")' \/ (spc = "scan")'
           /\ chain[c] = "test" => (chain[c] = "arm")' \/ (spc = "scan")'
           /\ chain[c] = "arm" => (spc = "scan")'
    BY ServedBy DEF Serving
  <2>6. /\ ~(spc = "connect" /\ spc = "poll") /\ ~(spc = "sendClose" /\ spc = "poll")
        /\ ~(spc = "connect" /\ spc = "sendClose") /\ ~(spc = "begin" /\ spc = "poll")
        /\ ~(spc = "connect" /\ spc = "begin") /\ ~(spc = "begin" /\ spc = "sendClose")
        /\ ~(chain[c] = "fetch" /\ (chain[c] = "push" \/ chain[c] = "test" \/ chain[c] = "arm"))
        /\ ~(chain[c] = "push" /\ (chain[c] = "test" \/ chain[c] = "arm"))
        /\ ~(chain[c] = "test" /\ chain[c] = "arm")
    OBVIOUS
  <2>7. Spec => [][Next]_vars
    BY PTL DEF Spec
  <2> QED
    BY <2>1, <2>2, <2>3, <2>4, <2>5, <2>6, <2>7, SpecInLoop, PTL DEF LoopRuns, PollRuns
<1> QED
  BY <1>1

\* A scan gets shorter: only select() begins one, and each step of the loop
\* strikes a descriptor out, begins to serve one or goes on with it, or ends the
\* scan.
AtOne == {"accepted", "connect", "begin", "sendClose"}
ScanEnds == {"select", "closing", "told", "dead"}
THEOREM ScanShrinks ==
  Spec => [][spc # "select" =>
               /\ rList' \subseteq rList /\ xList' \subseteq xList
               /\ Loop => rList' # rList \/ xList' # xList \/ spc' \in AtOne \cup ScanEnds
            ]_vars
<1>1. ASSUME IInv, Next, spc # "select"
      PROVE  /\ rList' \subseteq rList /\ xList' \subseteq xList
             /\ Loop => rList' # rList \/ xList' # xList \/ spc' \in AtOne \cup ScanEnds
  <2> USE <1>1 DEF wires, tables, loop, mainVars, history, AtOne, ScanEnds
  <2>1. CASE Loop
    <3>1. ASSUME NEW c \in Conns,
                 \/ Accept(c) \/ DataIgnored(c) \/ DataRaises(c) \/ Handshake(c)
                 \/ SetHandshaked(c) \/ CloseFrame(c) \/ Exceptional(c)
                 \/ LoopTells(c) \/ LoopCloses(c)
          PROVE  /\ rList' \subseteq rList /\ xList' \subseteq xList
                 /\ rList' # rList \/ xList' # xList \/ spc' \in AtOne \cup ScanEnds
      BY <3>1 DEF Accept, DataIgnored, DataRaises, Handshake, SetHandshaked, CloseFrame,
          Exceptional, LoopTells, LoopCloses, Readable
    <3>2. ASSUME NEW c \in Conns, Enter(c) \/ Connected(c) \/ CloseSent(c)
          PROVE  rList' \subseteq rList /\ xList' = xList /\ rList' # rList
      BY <3>2 DEF Enter, Connected, CloseSent, IInv, ScanOrder
    <3>3. CASE AcceptRaises \/ ServerFailed \/ LoopRaises \/ ScanDone
      BY <3>3 DEF AcceptRaises, ServerFailed, LoopRaises, ScanDone
    <3> QED
      BY <2>1, <3>1, <3>2, <3>3 DEF Loop, Select
  <2>2. CASE ~Loop
    <3>1. ASSUME NEW c \in Conns,
                 Environment(c) \/ Poll(c) \/ MainTells(c) \/ MainCloses(c)
          PROVE  UNCHANGED <<rList, xList>>
      BY <3>1 DEF Environment, Dial, HangUp, StallOrDrain, Poll, Fetch, FetchRaises, Push,
          Test, Arm, Fire, MainTells, MainCloses
    <3>2. CASE Interrupt \/ Iterate \/ CloseEnds \/ CloseRaises \/ ProcessEnds
      BY <2>2, <3>2 DEF Interrupt, Iterate, CloseEnds, CloseRaises, ProcessEnds
    <3> QED
      BY <2>2, <3>1, <3>2 DEF Next, Main
  <2> QED
    BY <2>1, <2>2
<1> QED
  BY <1>1, SpecIInv, PTL DEF Spec

\* A connection whose browser has hung up, and that the loop is going to read.
Hung(c) == c \in connections /\ browser[c] = "gone"
Noticed(c) ==
  /\ Hung(c) /\ c \in rList
  /\ spc \in {"scan", "accepted", "connect", "begin", "poll", "sendClose"}
  /\ spc \in {"connect", "begin"} => cur # c

\* Who has hung up stays away, and a scan that names him does not end before he
\* is dropped.
LEMMA HungStep ==
  ASSUME NEW c \in Conns, IInv, Hung(c), Next
  PROVE  /\ Hung(c)' \/ c \notin connections'
         /\ Noticed(c) => Noticed(c)' \/ c \notin connections' \/ spc' = "dead"
<1> USE PushAssumption DEF Hung, Noticed, wires, tables, loop, mainVars, history
<1>1. c # Server /\ browser \in [Conns -> {"away", "dialing", "up", "gone"}]
  BY DEF IInv, TypeOK
<1> USE <1>1
<1>2. CASE Select \/ AcceptRaises \/ ServerFailed \/ LoopRaises \/ ScanDone
  BY <1>2 DEF Select, AcceptRaises, ServerFailed, LoopRaises, ScanDone
<1>3. ASSUME NEW d \in Conns, Accept(d) \/ Enter(d)
      PROVE  Hung(c)' /\ (Noticed(c) => Noticed(c)')
  BY <1>3 DEF Accept, Enter, LoopBack, Backlog
<1>4. ASSUME NEW d \in Conns,
             \/ DataIgnored(d) \/ Handshake(d) \/ SetHandshaked(d) \/ CloseFrame(d)
      PROVE  Hung(c)' /\ (Noticed(c) => Noticed(c)')
  BY <1>4 DEF DataIgnored, Handshake, SetHandshaked, CloseFrame, Readable
<1>5. ASSUME NEW d \in Conns, DataRaises(d) \/ CloseSent(d) \/ Exceptional(d)
      PROVE  /\ Hung(c)' \/ c \notin connections'
             /\ Noticed(c) => Noticed(c)' \/ c \notin connections' \/ spc' = "dead"
  BY <1>5 DEF DataRaises, CloseSent, Exceptional, Readable, Drop, Forget, LoopBack
<1>6. ASSUME NEW d \in Conns, Connected(d) \/ LoopTells(d) \/ LoopCloses(d)
      PROVE  Hung(c)' /\ (Noticed(c) => Noticed(c)')
  BY <1>6 DEF Connected, LoopBack, LoopTells, LoopCloses
<1>7. ASSUME NEW d \in Conns, Poll(d)
      PROVE  Hung(c)' /\ (Noticed(c) => Noticed(c)')
  BY <1>7 DEF Poll, Fetch, FetchRaises, Push, Test, Arm, Fire, Return, LoopBack, InLoop
<1>8. ASSUME NEW d \in Conns,
             \/ Dial(d) \/ HangUp(d) \/ StallOrDrain(d) \/ MainTells(d) \/ MainCloses(d)
      PROVE  Hung(c)' /\ (Noticed(c) => Noticed(c)')
  BY <1>8 DEF Dial, HangUp, StallOrDrain, MainTells, MainCloses
<1>9. CASE Interrupt \/ Iterate \/ CloseEnds \/ CloseRaises \/ ProcessEnds
  BY <1>9 DEF Interrupt, Iterate, CloseEnds, CloseRaises, ProcessEnds
<1> QED
  BY <1>2, <1>3, <1>4, <1>5, <1>6, <1>7, <1>8, <1>9 DEF Next, Loop, Main, Environment

\* select() reports who has hung up.
LEMMA SelectNotices ==
  ASSUME NEW c \in Conns, IInv, Hung(c), spc = "select", Next
  PROVE  /\ spc' = "select" \/ Noticed(c)' \/ spc' = "dead"
         /\ Loop => spc' # "select"
<1> USE PushAssumption DEF wires, tables, loop, mainVars, history
<1>1. c \in listeners
  BY DEF IInv, TablesMatchSockets, Hung
<1>2. ASSUME Select PROVE Noticed(c)' \/ spc' = "dead"
  BY <1>1, <1>2 DEF Select, Noticed, Hung
<1>3. ASSUME Loop PROVE Select
  BY <1>3 DEF Loop, AcceptRaises, ServerFailed, LoopRaises, ScanDone, Accept, Enter,
      DataIgnored, DataRaises, Handshake, SetHandshaked, Connected, CloseFrame, CloseSent,
      Exceptional, LoopTells, LoopCloses, Readable
<1>4. ASSUME NEW d \in Conns, Poll(d) PROVE spc' = "select"
  BY <1>4 DEF Poll, Fetch, FetchRaises, Push, Test, Arm, Fire, Return, InLoop
<1>5. ASSUME \/ \E d \in Conns :
                  \/ Dial(d) \/ HangUp(d) \/ StallOrDrain(d)
                  \/ MainTells(d) \/ MainCloses(d)
             \/ Interrupt \/ Iterate \/ CloseEnds \/ CloseRaises \/ ProcessEnds
      PROVE  spc' = "select"
  BY <1>5 DEF Dial, HangUp, StallOrDrain, MainTells, MainCloses, Interrupt, Iterate,
      CloseEnds, CloseRaises, ProcessEnds
<1>6. Loop => spc' # "select"
  BY <1>2, <1>3 DEF Noticed
<1> QED
  BY <1>2, <1>3, <1>4, <1>5, <1>6 DEF Next, Main, Environment

\* Without SIGINT the main thread waits for ever.
LEMMA NeverInterrupted ==
  ASSUME "interrupt" \notin Faults
  PROVE  Spec => [](main = "run")
<1>1. Init => main = "run"
  BY DEF Init
<1>2. main = "run" /\ [Next]_vars => (main = "run")'
  <2> SUFFICES ASSUME main = "run", [Next]_vars PROVE main' = "run"
    OBVIOUS
  <2> USE DEF wires, tables, loop, mainVars, history
  <2>1. CASE UNCHANGED vars
    BY <2>1 DEF vars
  <2>2. CASE Loop
    BY <2>2 DEF Loop, Select, AcceptRaises, ServerFailed, LoopRaises, ScanDone, Accept,
        Enter, DataIgnored, DataRaises, Handshake, SetHandshaked, Connected, CloseFrame,
        CloseSent, Exceptional, LoopTells, LoopCloses
  <2>3. ASSUME NEW d \in Conns, Environment(d) \/ Poll(d) PROVE main' = "run"
    BY <2>3 DEF Environment, Dial, HangUp, StallOrDrain, Poll, Fetch, FetchRaises, Push,
        Test, Arm, Fire
  <2> QED
    BY <2>1, <2>2, <2>3 DEF Next, Interrupt, Iterate, Main, MainTells, MainCloses, CloseEnds, CloseRaises,
        ProcessEnds
<1> QED
  BY <1>1, <1>2, PTL DEF Spec

\* A loop that comes back to select(), as long as browsers read, notices every
\* hang-up: the next scan after it does not end before the connection is dropped.
THEOREM ReturningLoopNotices ==
  ASSUME "interrupt" \notin Faults
  PROVE  Spec /\ LoopRuns /\ (AllRead => []<>(spc = "select" \/ spc = "dead"))
           => HangUpNoticed
<1>1. ASSUME NEW c \in Conns
      PROVE  Spec /\ LoopRuns /\ []<>(spc = "select" \/ spc = "dead")
               => (c \in connections /\ browser[c] = "gone"
                     ~> c \notin connections \/ spc = "dead")
  <2>1. IInv /\ main = "run" /\ Hung(c) /\ spc = "select" => LoopMay
    BY DEF IInv, TablesMatchSockets, Hung, LoopMay
  <2>2. IInv /\ Hung(c) /\ [Next]_vars
        => /\ Hung(c)' \/ (c \notin connections)'
           /\ Noticed(c) =>
                Noticed(c)' \/ (c \notin connections)' \/ (spc = "dead")'
           /\ spc = "select" => (spc = "select")' \/ Noticed(c)' \/ (spc = "dead")'
    <3>1. CASE UNCHANGED vars
      BY <3>1 DEF vars, Hung, Noticed, wires, tables, loop
    <3>2. CASE Next
      BY <3>2, HungStep, SelectNotices
    <3> QED
      BY <3>1, <3>2
  <2>3. IInv /\ Hung(c) /\ spc = "select" /\ <<Loop>>_vars => ~(spc = "select")'
    BY SelectNotices DEF Next
  <2>4. /\ Noticed(c) => ~(spc = "select") /\ ~(spc = "dead")
        /\ Hung(c) <=> c \in connections /\ browser[c] = "gone"
        /\ c \notin connections <=> ~(c \in connections)
    BY DEF Noticed, Hung
  <2>5. Spec => [][Next]_vars
    BY PTL DEF Spec
  <2> QED
    BY <2>1, <2>2, <2>3, <2>4, <2>5, SpecIInv, NeverInterrupted, PTL DEF LoopRuns
<1>2. ASSUME NEW c \in Conns
      PROVE  Spec /\ LoopRuns /\ (AllRead => []<>(spc = "select" \/ spc = "dead")) /\ AllRead
               => (c \in connections /\ browser[c] = "gone"
                     ~> c \notin connections \/ spc = "dead")
  BY <1>1, PTL
<1> QED
  BY <1>2 DEF HangUpNoticed

=============================================================================
