----------------------------- MODULE PushServer -----------------------------
(***************************************************************************)
(* The websocket side of Orion Mission Control: the select loop of         *)
(* SimpleWebSocketServer.serve_forever, which one thread runs for all      *)
(* connections, and the polls of OrionStat.orion_top, which a chain of     *)
(* threading.Timer threads runs for each connection and which push a row   *)
(* set to its browser every two seconds.  The loop makes the first poll of *)
(* a connection itself, inside handleConnected.  SIGINT makes the main      *)
(* thread run SimpleWebSocketServer.close beside them.                     *)
(*                                                                         *)
(* What a socket delivers is abstracted to what handleData makes of it.  A *)
(* descriptor closed under the loop is not reused before the loop selects. *)
(* There is one SIGINT at most.                                            *)
(***************************************************************************)
EXTENDS Naturals, FiniteSets

CONSTANTS
  Conns,   \* connections, each with the descriptor and socket it will get
  Server,  \* the listening socket, as an entry of rList and xList
  None,    \* no connection
  Faults   \* what may happen: accept() raises, select() reports exceptional
           \* conditions, a browser stops reading, the process is interrupted

ASSUME PushAssumption ==
  /\ Faults \subseteq {"accept", "exceptional", "stall", "interrupt"}
  /\ Server \notin Conns /\ None \notin Conns
  /\ IsFiniteSet(Conns)

VARIABLES
  browser,      \* what the other end of each connection does
  full,         \* the send buffer of the connection takes no more bytes
  sock,         \* the server's socket of each connection
  listeners,    \* descriptors selected on, besides the listening socket
  connections,  \* descriptors with a WebSocket object
  handshaked,   \* WebSocket.handshaked
  started,      \* OrionStat.started
  chain,        \* where the poll chain of each connection is
  spc,          \* where the loop is
  cur,          \* the connection the loop is working on, None between two
  rList, xList, \* what is left to do of select()'s answer
  lastSock,     \* the loop's local variable sock, None while unbound
  unclosed,     \* what is left to close when the loop itself runs close()
  main,         \* where the main thread is; see TypeOK
  conn,         \* the connection that the main thread's close() is at
  visited,      \* connections whose handleClose it has called
  iterated,     \* connections when it began to iterate over them
  late,         \* history: polls begun after the removal, counted up to 2
  pollFailed,   \* history: a poll of the connection raised
  marks         \* history: which rare things happened; see Mark

wires   == <<browser, full>>
tables  == <<listeners, connections>>
loop    == <<spc, cur, rList, xList, lastSock, unclosed>>
mainVars == <<main, conn, visited, iterated>>
history == <<late, pollFailed, marks>>
vars    == <<wires, sock, tables, handshaked, started, chain, loop, mainVars,
             history>>

\* accept() raised; select() reported a descriptor in both lists or the
\* listening socket in the second; SIGINT; the main thread's close() raised, or
\* ended without a connection it should have closed; handleConnected began the
\* polls of a connection after that close() had called its handleClose.
Mark == {"accept", "twice", "server", "interrupt", "closeRaised", "skipped",
         "revived"}

\* The loop runs the poll of connection c, or c's timer thread does.
InLoop(c) == spc = "poll" /\ cur = c
LoopBack == spc' = "scan" /\ cur' = None
\* A send returns or raises at once unless the peer has stopped reading.
Sendable(c) == ~full[c] \/ sock[c] = "closed" \/ browser[c] = "gone"

-----------------------------------------------------------------------------
\* Browsers and the network.  A hang-up counts from when the server has read
\* all that was sent before it.

Dial(c) ==
  /\ browser[c] = "away"
  /\ browser' = [browser EXCEPT ![c] = "dialing"]
  /\ UNCHANGED <<full, sock, tables, handshaked, started, chain, loop, mainVars,
                 history>>

HangUp(c) ==
  /\ browser[c] = "up"
  /\ browser' = [browser EXCEPT ![c] = "gone"]
  /\ UNCHANGED <<full, sock, tables, handshaked, started, chain, loop, mainVars,
                 history>>

\* The browser stops reading until the buffer is full, or reads again.
StallOrDrain(c) ==
  /\ "stall" \in Faults /\ browser[c] = "up" /\ sock[c] = "open"
  /\ full' = [full EXCEPT ![c] = ~@]
  /\ UNCHANGED <<browser, sock, tables, handshaked, started, chain, loop, mainVars,
                 history>>

-----------------------------------------------------------------------------
\* serve_forever

Backlog == {c \in Conns : browser[c] = "dialing"}

\* select() reports every pending connection and every hang-up, and may report
\* any other open connection; a closed descriptor makes it raise.
Select ==
  /\ spc = "select"
  /\ IF main # "run" \/ \E c \in listeners : sock[c] = "closed"
     THEN spc' = "dead" /\ UNCHANGED <<rList, xList, marks>>
     ELSE \E r \in SUBSET listeners : \E x \in SUBSET (listeners \cup {Server}) :
            /\ {c \in listeners : browser[c] = "gone"} \subseteq r
            /\ rList' = r \cup (IF Backlog # {} THEN {Server} ELSE {})
            /\ x # {} => "exceptional" \in Faults
            /\ xList' = x
            /\ rList' \cup xList' # {}
            /\ marks' = marks \cup (IF r \cap x # {} THEN {"twice"} ELSE {})
            /\ spc' = "scan"
  /\ UNCHANGED <<wires, sock, tables, handshaked, started, chain, cur, lastSock,
                 unclosed, mainVars, late, pollFailed>>

\* Mutant: the listening socket is appended again.
RegisterServer(c) == listeners \cup {Server}
Register(c) == listeners \cup {c}

\* The listening socket comes first in listeners, so first in rList.
Accept(c) ==
  /\ spc = "scan" /\ Server \in rList
  /\ c \in Backlog /\ main = "run"
  /\ browser' = [browser EXCEPT ![c] = "up"]
  /\ sock' = [sock EXCEPT ![c] = "open"]
  /\ lastSock' = c
  /\ spc' = "accepted"
  /\ cur' = c
  /\ UNCHANGED <<full, tables, handshaked, started, chain, rList, xList, unclosed,
                 mainVars, history>>

\* The entries in the two tables, which SIGINT may have come before.
Enter(c) ==
  /\ spc = "accepted" /\ cur = c
  /\ listeners' = Register(c)
  /\ connections' = connections \cup {c}
  /\ LoopBack
  /\ rList' = rList \ {Server}
  /\ UNCHANGED <<wires, sock, handshaked, started, chain, xList, lastSock, unclosed,
                 mainVars, history>>

\* accept() raises, as it must once close() has closed the socket: the handler
\* closes whatever sock holds, the connection accepted before; before any
\* accept, sock is unbound and the thread ends.
AcceptRaises ==
  /\ spc = "scan" /\ Server \in rList
  /\ "accept" \in Faults \/ main # "run"
  /\ marks' = marks \cup {"accept"}
  /\ IF lastSock = None
     THEN spc' = "dead" /\ UNCHANGED <<sock, rList>>
     ELSE /\ sock' = [sock EXCEPT ![lastSock] = "closed"]
          /\ rList' = rList \ {Server}
          /\ UNCHANGED spc
  /\ UNCHANGED <<wires, tables, handshaked, started, chain, cur, xList, lastSock,
                 unclosed, mainVars, late, pollFailed>>

Readable(c) == spc = "scan" /\ Server \notin rList /\ c \in rList \ {Server}

\* Mutants: the descriptor stays in listeners; the object stays in connections;
\* the poll chain is not told.
KeepListening(c) == listeners
StopListening(c) == listeners \ {c}
KeepObject(c) == connections
Forget(c) == connections \ {c}
KeepStarted(c) == started
StopStarted(c) == [started EXCEPT ![c] = FALSE]

\* WebSocket.close; what it resets besides is the loop's own.  Mutant: without
\* client.close().
ResetSocket(c) == handshaked' = [handshaked EXCEPT ![c] = FALSE] /\ UNCHANGED sock
CloseSocket(c) ==
  /\ sock' = [sock EXCEPT ![c] = "closed"]
  /\ handshaked' = [handshaked EXCEPT ![c] = FALSE]

\* handleClose, close and the removal of the connection.  No thread tells these
\* steps apart: the poll of c tests started only, and the main thread's close()
\* writes to c what is written here.
Drop(c) ==
  /\ started' = StopStarted(c)
  /\ CloseSocket(c)
  /\ connections' = Forget(c)
  /\ listeners' = StopListening(c)

\* handleData returns with nothing to do: a part of a header or of a frame, a
\* ping, a pong, an unknown opcode.
DataIgnored(c) ==
  /\ Readable(c)
  /\ browser[c] # "gone" /\ sock[c] = "open"
  /\ rList' = rList \ {c}
  /\ UNCHANGED <<wires, sock, tables, handshaked, started, chain, spc, cur, xList,
                 lastSock, unclosed, mainVars, history>>

\* handleData raises: end of file, a bad header, a frame for handleMessage
\* (which OrionStat defines with two more parameters than handlePacket passes).
DataRaises(c) ==
  /\ Readable(c)
  /\ Drop(c)
  /\ rList' = rList \ {c}
  /\ UNCHANGED <<wires, chain, spc, cur, xList, lastSock, unclosed, mainVars, history>>

\* The header is complete and the answer to it is sent.
Handshake(c) ==
  /\ Readable(c)
  /\ browser[c] # "gone" /\ sock[c] = "open" /\ ~handshaked[c]
  /\ spc' = "connect"
  /\ cur' = c
  /\ UNCHANGED <<wires, sock, tables, handshaked, started, chain, rList, xList,
                 lastSock, unclosed, mainVars, history>>

\* handshaked is set and the header's buffer emptied.
SetHandshaked(c) ==
  /\ spc = "connect" /\ cur = c
  /\ handshaked' = [handshaked EXCEPT ![c] = TRUE]
  /\ spc' = "begin"
  /\ UNCHANGED <<wires, sock, tables, started, chain, cur, rList, xList, lastSock,
                 unclosed, mainVars, history>>

\* Mutant: started is set once the first poll is over.
SetStartedLate(c) == started
SetStarted(c) == [started EXCEPT ![c] = TRUE]

\* handleConnected starts the poll chain unless it was started.
Connected(c) ==
  /\ spc = "begin" /\ cur = c
  /\ rList' = rList \ {c}
  /\ IF started[c]
     THEN LoopBack /\ UNCHANGED <<started, chain, marks>>
     ELSE /\ started' = SetStarted(c)
          /\ chain' = [chain EXCEPT ![c] = "fetch"]
          /\ marks' = marks \cup (IF c \in visited THEN {"revived"} ELSE {})
          /\ spc' = "poll" /\ UNCHANGED cur
  /\ UNCHANGED <<wires, sock, tables, handshaked, xList, lastSock, unclosed, mainVars,
                 late, pollFailed>>

\* A close frame: sendClose keeps trying while the buffer is full.
CloseFrame(c) ==
  /\ Readable(c)
  /\ browser[c] # "gone" /\ sock[c] = "open" /\ handshaked[c]
  /\ spc' = "sendClose"
  /\ cur' = c
  /\ UNCHANGED <<wires, sock, tables, handshaked, started, chain, rList, xList,
                 lastSock, unclosed, mainVars, history>>

\* Once it is sent, or cannot be, handlePacket raises.
CloseSent(c) ==
  /\ spc = "sendClose" /\ cur = c
  /\ Sendable(c)
  /\ Drop(c)
  /\ LoopBack
  /\ rList' = rList \ {c}
  /\ UNCHANGED <<wires, chain, xList, lastSock, unclosed, mainVars, history>>

\* The exceptional descriptors, after the readable ones and the listening
\* socket first; one that is already removed is a KeyError that nothing catches.
Exceptional(c) ==
  /\ spc = "scan" /\ rList = {} /\ Server \notin xList /\ c \in xList
  /\ IF c \in connections
     THEN Drop(c) /\ xList' = xList \ {c} /\ UNCHANGED spc
     ELSE /\ spc' = "dead"
          /\ UNCHANGED <<started, sock, handshaked, tables, xList>>
  /\ UNCHANGED <<wires, chain, cur, rList, lastSock, unclosed, mainVars, history>>

\* The listening socket is exceptional: the loop runs close(), then it raises.
ServerFailed ==
  /\ spc = "scan" /\ rList = {} /\ Server \in xList
  /\ marks' = marks \cup {"server"}
  /\ unclosed' = connections
  /\ spc' = "closing"
  /\ UNCHANGED <<wires, sock, tables, handshaked, started, chain, cur, rList, xList,
                 lastSock, mainVars, late, pollFailed>>

\* close() of the loop, which alone changes the dictionary: handleClose of one
\* connection, then its close.
LoopTells(c) ==
  /\ spc = "closing" /\ c \in unclosed
  /\ started' = StopStarted(c)
  /\ spc' = "told"
  /\ cur' = c
  /\ UNCHANGED <<wires, sock, tables, handshaked, chain, rList, xList, lastSock,
                 unclosed, mainVars, history>>

LoopCloses(c) ==
  /\ spc = "told" /\ cur = c
  /\ CloseSocket(c)
  /\ unclosed' = unclosed \ {c}
  /\ spc' = "closing"
  /\ cur' = None
  /\ UNCHANGED <<wires, tables, started, chain, rList, xList, lastSock, mainVars,
                 history>>

LoopRaises ==
  /\ spc = "closing" /\ unclosed = {}
  /\ spc' = "dead"
  /\ UNCHANGED <<wires, sock, tables, handshaked, started, chain, cur, rList, xList,
                 lastSock, unclosed, mainVars, history>>

ScanDone ==
  /\ spc = "scan" /\ rList = {} /\ xList = {}
  /\ spc' = "select"
  /\ UNCHANGED <<wires, sock, tables, handshaked, started, chain, cur, rList, xList,
                 lastSock, unclosed, mainVars, history>>

-----------------------------------------------------------------------------
\* The main thread: SIGINT runs close() and then sys.exit().

\* close() closes the listening socket.
Interrupt ==
  /\ "interrupt" \in Faults /\ main = "run"
  /\ main' = "interrupted"
  /\ marks' = marks \cup {"interrupt"}
  /\ UNCHANGED <<wires, sock, tables, handshaked, started, chain, loop, conn, visited,
                 iterated, late, pollFailed>>

\* connections.itervalues()
Iterate ==
  /\ main = "interrupted"
  /\ main' = "closing"
  /\ iterated' = connections
  /\ UNCHANGED <<wires, sock, tables, handshaked, started, chain, loop, conn, visited,
                 history>>

\* The dictionary iterator looks only at the size.
SizeChanged == Cardinality(connections) # Cardinality(iterated)

\* handleClose of the next connection; none is met twice.
MainTells(c) ==
  /\ main = "closing" /\ ~SizeChanged /\ c \in connections \ visited
  /\ started' = StopStarted(c)
  /\ visited' = visited \cup {c}
  /\ conn' = c
  /\ main' = "told"
  /\ UNCHANGED <<wires, sock, tables, handshaked, chain, loop, iterated, history>>

\* Its close.
MainCloses(c) ==
  /\ main = "told" /\ conn = c
  /\ CloseSocket(c)
  /\ conn' = None
  /\ main' = "closing"
  /\ UNCHANGED <<wires, tables, started, chain, loop, visited, iterated, history>>

\* It ends when all are visited; over changed entries it may end early.
CloseEnds ==
  /\ main = "closing" /\ ~SizeChanged
  /\ connections = iterated => connections \subseteq visited
  /\ main' = "exit"
  /\ marks' = marks \cup
       (IF connections \cap iterated \subseteq visited THEN {} ELSE {"skipped"})
  /\ UNCHANGED <<wires, sock, tables, handshaked, started, chain, loop, conn, visited,
                 iterated, late, pollFailed>>

\* RuntimeError out of the signal handler ends the main thread as well.
CloseRaises ==
  /\ main = "closing" /\ SizeChanged
  /\ main' = "exit"
  /\ marks' = marks \cup {"closeRaised"}
  /\ UNCHANGED <<wires, sock, tables, handshaked, started, chain, loop, conn, visited,
                 iterated, late, pollFailed>>

\* The interpreter waits for the timer threads; the loop's thread dies with it.
ProcessEnds ==
  /\ main = "exit"
  /\ \A c \in Conns : chain[c] = "none" \/ InLoop(c)
  /\ main' = "gone"
  /\ UNCHANGED <<wires, sock, tables, handshaked, started, chain, loop, conn, visited,
                 iterated, history>>

-----------------------------------------------------------------------------
\* orion_top.  The loop goes on scanning when the first poll is over.

Return(c) == IF InLoop(c) THEN LoopBack ELSE UNCHANGED <<spc, cur>>

\* The thrift call of the poll; it fails at the latest after SOCKET_TIMEOUT_MS.
Fetch(c) ==
  /\ chain[c] = "fetch"
  /\ chain' = [chain EXCEPT ![c] = "push"]
  /\ UNCHANGED <<wires, sock, tables, handshaked, started, loop, mainVars, history>>

\* The exception is printed and no timer is armed.
FetchRaises(c) ==
  /\ chain[c] = "fetch"
  /\ chain' = [chain EXCEPT ![c] = "none"]
  /\ pollFailed' = [pollFailed EXCEPT ![c] = TRUE]
  /\ Return(c)
  /\ UNCHANGED <<wires, sock, tables, handshaked, started, rList, xList, lastSock,
                 unclosed, mainVars, late, marks>>

\* handleMessage swallows what sendMessage raises.
Push(c) ==
  /\ chain[c] = "push"
  /\ Sendable(c)
  /\ chain' = [chain EXCEPT ![c] = "test"]
  /\ UNCHANGED <<wires, sock, tables, handshaked, started, loop, mainVars, history>>

\* if (self.started)
Test(c) ==
  /\ chain[c] = "test"
  /\ IF started[c]
     THEN chain' = [chain EXCEPT ![c] = "arm"] /\ UNCHANGED <<spc, cur>>
     ELSE chain' = [chain EXCEPT ![c] = "none"] /\ Return(c)
  /\ UNCHANGED <<wires, sock, tables, handshaked, started, rList, xList, lastSock,
                 unclosed, mainVars, history>>

Arm(c) ==
  /\ chain[c] = "arm"
  /\ chain' = [chain EXCEPT ![c] = "timer"]
  /\ Return(c)
  /\ UNCHANGED <<wires, sock, tables, handshaked, started, rList, xList, lastSock,
                 unclosed, mainVars, history>>

\* The timer starts the next poll in its own thread, whatever happened since.
Fire(c) ==
  /\ chain[c] = "timer"
  /\ chain' = [chain EXCEPT ![c] = "fetch"]
  /\ late' = [late EXCEPT ![c] =
       IF c \in connections THEN 0 ELSE IF @ < 2 THEN @ + 1 ELSE 2]
  /\ UNCHANGED <<wires, sock, tables, handshaked, started, loop, mainVars, pollFailed,
                 marks>>

-----------------------------------------------------------------------------
Init ==
  /\ browser = [c \in Conns |-> "away"]
  /\ full = [c \in Conns |-> FALSE]
  /\ sock = [c \in Conns |-> "none"]
  /\ listeners = {} /\ connections = {}
  /\ handshaked = [c \in Conns |-> FALSE]
  /\ started = [c \in Conns |-> FALSE]
  /\ chain = [c \in Conns |-> "none"]
  /\ spc = "select" /\ cur = None /\ rList = {} /\ xList = {} /\ lastSock = None
  /\ unclosed = {}
  /\ main = "run" /\ conn = None /\ visited = {} /\ iterated = {}
  /\ late = [c \in Conns |-> 0]
  /\ pollFailed = [c \in Conns |-> FALSE]
  /\ marks = {}

Environment(c) == main # "gone" /\ (Dial(c) \/ HangUp(c) \/ StallOrDrain(c))
Loop ==
  /\ main # "gone"
  /\ \/ Select \/ AcceptRaises \/ ServerFailed \/ LoopRaises \/ ScanDone
     \/ \E c \in Conns :
          \/ Accept(c) \/ Enter(c) \/ DataIgnored(c) \/ DataRaises(c) \/ Handshake(c)
          \/ SetHandshaked(c) \/ Connected(c) \/ CloseFrame(c) \/ CloseSent(c)
          \/ Exceptional(c) \/ LoopTells(c) \/ LoopCloses(c)
Main ==
  \/ Iterate \/ CloseEnds \/ CloseRaises \/ ProcessEnds
  \/ \E c \in Conns : MainTells(c) \/ MainCloses(c)
Poll(c) ==
  /\ main # "gone"
  /\ Fetch(c) \/ FetchRaises(c) \/ Push(c) \/ Test(c) \/ Arm(c) \/ Fire(c)

Next == Loop \/ Interrupt \/ Main \/ \E c \in Conns : Environment(c) \/ Poll(c)

Spec == Init /\ [][Next]_vars
\* The loop and the timer threads are never starved, a thrift call ends within
\* its timeout, and a timer fires; browsers owe nothing.
FairSpec ==
  Spec /\ WF_vars(Loop) /\ WF_vars(Main) /\ \A c \in Conns : WF_vars(Poll(c))
-----------------------------------------------------------------------------
\* Properties.

ChainStates == {"none", "timer", "fetch", "push", "test", "arm"}

\* Every variable holds a value of its type.
TypeOK ==
  /\ browser \in [Conns -> {"away", "dialing", "up", "gone"}]
  /\ full \in [Conns -> BOOLEAN]
  /\ sock \in [Conns -> {"none", "open", "closed"}]
  /\ listeners \subseteq Conns /\ connections \subseteq Conns
  /\ handshaked \in [Conns -> BOOLEAN]
  /\ started \in [Conns -> BOOLEAN]
  /\ chain \in [Conns -> ChainStates]
  /\ spc \in {"select", "scan", "accepted", "connect", "begin", "poll", "sendClose",
              "closing", "told", "dead"}
  /\ cur \in Conns \cup {None}
  /\ rList \subseteq Conns \cup {Server} /\ xList \subseteq Conns \cup {Server}
  /\ lastSock \in Conns \cup {None} /\ unclosed \subseteq Conns
  /\ late \in [Conns -> 0..2]
  /\ pollFailed \in [Conns -> BOOLEAN]
  /\ main \in {"run", "interrupted", "closing", "told", "exit", "gone"}
  /\ conn \in Conns \cup {None}
  /\ visited \subseteq Conns /\ iterated \subseteq Conns
  /\ marks \subseteq Mark

\* The tables and the sockets agree: a descriptor the loop selects on has its
\* WebSocket and an open socket, and an open socket is selected on, as soon as
\* it is entered.  Only a failed accept(), a failed listening socket or SIGINT
\* closes a socket that stays in the tables.
TablesMatchSockets ==
  /\ listeners = connections
  /\ \A c \in Conns :
       sock[c] = "open" => c \in listeners \/ (spc = "accepted" /\ cur = c)
  /\ \A c \in listeners :
       sock[c] = "open" \/ marks \cap {"accept", "server", "interrupt"} # {}

\* Nothing a browser does ends the loop: it dies only after accept() failed,
\* after select() reported one descriptor both readable and exceptional or the
\* listening socket exceptional, or after SIGINT.
LoopDeathHasCause ==
  spc = "dead" => marks \cap {"accept", "twice", "server", "interrupt"} # {}

\* After handleClose the timer chain of the connection makes at most one more
\* poll of the database: the timer already armed, or armed by a thread that
\* had tested started just before.
OnePollAfterClose == \A c \in Conns : late[c] <= 1

\* A browser that is connected and handshaked stops getting rows only because
\* a poll failed, until a close() of all connections.
SilentOnlyAfterFailure ==
  \A c \in connections :
    handshaked[c] /\ chain[c] = "none" =>
      \/ pollFailed[c] \/ marks \cap {"server", "interrupt"} # {}
      \/ spc = "begin" /\ cur = c

\* A connection that is gone stops polling the database.
PollingStops ==
  \A c \in Conns : sock[c] = "closed" /\ c \notin connections ~> chain[c] = "none"

\* A change of the dictionary made close() raise or skip a connection, or
\* handleConnected began the polls of a connection after close() had called its
\* handleClose.
Excused == marks \cap {"closeRaised", "skipped", "revived"} # {}
Exited == main \in {"exit", "gone"}
Shut(c) == ~started[c] /\ (c \in iterated => sock[c] # "open")

\* When close() has run, each connection that it began with has its socket closed
\* and no connection arms a timer again: whatever the loop did beside it, but for
\* the three overlaps that Excused names.
ClosedAtExit == Exited /\ ~Excused => \A c \in Conns : Shut(c)

\* SIGINT ends the process, but for those overlaps: they leave a chain of timers
\* that is never told to stop.
ShutdownEnds == main = "interrupted" ~> main = "gone" \/ Excused

AllRead == <>[](\A c \in Conns : ~full[c])

\* As long as browsers read what they are sent, the loop comes back to select
\* and a browser that hangs up loses its connection.
HangUpNoticed ==
  AllRead => \A c \in Conns :
    c \in connections /\ browser[c] = "gone" ~> c \notin connections \/ spc = "dead"
=============================================================================
