--------------------------- MODULE HandshakeProof ---------------------------
(***************************************************************************)
(* What holds of Handshake for every size of the header, the first read    *)
(* and the limit.  The argument: while the key is not split, draftkey is   *)
(* empty and the header has not ended; once it is, at most eight bytes are *)
(* left to read and the buffer, which is subtracted from that, is longer.  *)
(***************************************************************************)
EXTENDS Handshake, TLAPS

\* A connection that waits for more of the request.
Waiting == alive /\ ~handshaked

Progress ==
  /\ readdraftkey => ~handshaked /\ kind = "hixie" /\ headertoread <= 8 /\ taken >= HeaderLen
  /\ Waiting /\ ~readdraftkey => draftkey = {}
  /\ ~early /\ ~handshaked => sent <= RequestLen

IInv == TypeOK /\ Progress /\ KeyIsRight /\ FramesStartRight

\* A new connection.
LEMMA InitIInv == Init => IInv
<1> SUFFICES ASSUME Init PROVE IInv
  OBVIOUS
<1>1. TypeOK
  <2>1. alive \in BOOLEAN /\ handshaked \in BOOLEAN /\ hixie76 \in BOOLEAN
        /\ readdraftkey \in BOOLEAN /\ closed \in BOOLEAN /\ early \in BOOLEAN
    BY DEF Init
  <2>2. headertoread \in Int /\ headerbuffer < MaxHeader
    BY HandshakeAssumption DEF Init
  <2> QED
    BY <2>1, <2>2 DEF Init, TypeOK
<1>2. Progress
  BY HandshakeAssumption DEF Init, Progress, RequestLen
<1> QED
  BY <1>1, <1>2 DEF Init, IInv, KeyIsRight, FramesStartRight

\* A byte more is under way; one past the request makes the client early.
LEMMA SendByteStep == IInv /\ SendByte => IInv'
<1> SUFFICES ASSUME IInv, SendByte PROVE IInv'
  OBVIOUS
<1>1. TypeOK'
  BY DEF SendByte, IInv, TypeOK, object
<1>3. ~early' /\ ~handshaked' => sent' <= RequestLen'
  <2>1. RequestLen' = RequestLen /\ RequestLen \in Nat
    BY HandshakeAssumption DEF SendByte, RequestLen
  <2>2. /\ early' = (early \/ (~handshaked /\ sent >= RequestLen))
        /\ sent' = sent + 1 /\ handshaked' = handshaked /\ sent \in Nat
    BY DEF SendByte, IInv, TypeOK, object
  <2>3. ASSUME ~early', ~handshaked' PROVE sent < RequestLen
    <3>1. ~(sent >= RequestLen)
      BY <2>2, <2>3, Zenon
    <3> QED
      BY <2>1, <2>2, <3>1
  <2> QED
    BY <2>1, <2>2, <2>3
<1>2. Progress'
  BY <1>3 DEF SendByte, IInv, Progress, Waiting, object
<1> QED
  BY <1>1, <1>2 DEF SendByte, IInv, KeyIsRight, FramesStartRight, RequestLen, object

\* The client hangs up.
LEMMA HangUpStep == IInv /\ HangUp => IInv'
<1> SUFFICES ASSUME IInv, HangUp PROVE IInv'
  OBVIOUS
<1>1. TypeOK' /\ Progress'
  BY DEF HangUp, IInv, TypeOK, Progress, Waiting, RequestLen, object
<1> QED
  BY <1>1 DEF HangUp, IInv, KeyIsRight, FramesStartRight, RequestLen, object

\* recv() raises or returns nothing: the connection is over.
LEMMA RecvFailsStep == IInv /\ RecvFails => IInv'
<1> SUFFICES ASSUME IInv, RecvFails PROVE IInv'
  OBVIOUS
<1>1. alive' = FALSE /\ UNCHANGED <<client, taken, object, start, early>>
  BY DEF RecvFails, Raise, object
<1>2. TypeOK'
  BY <1>1 DEF IInv, TypeOK, client, object
<1>3. Progress'
  BY <1>1 DEF IInv, Progress, Waiting, RequestLen, client, object
<1> QED
  BY <1>1, <1>2, <1>3 DEF IInv, KeyIsRight, FramesStartRight, RequestLen, client, object

\* The reply to a request that is complete in the buffer of n bytes.
LEMMA ReplyStep ==
  ASSUME IInv, NEW n \in Nat, NEW hixie \in BOOLEAN, Reply(hixie, n), ~readdraftkey, ~handshaked,
         taken' = n, n <= sent, n >= RequestLen, n < MaxHeader, UNCHANGED <<client, early>>,
         kind # "endless", hixie = TRUE <=> kind = "hixie",
         draftkey' = IF hixie THEN (HeaderLen + 1)..(HeaderLen + 8) ELSE {}
  PROVE  IInv'
<1>1. /\ kind \in Kinds /\ sent \in Nat /\ closed \in BOOLEAN /\ HeaderLen \in Nat
      /\ readdraftkey' = FALSE /\ headertoread' = headertoread /\ headertoread \in Int
      /\ start \in Nat \cup {None} /\ handshaked \in BOOLEAN /\ hixie76 \in BOOLEAN
      /\ alive \in BOOLEAN /\ early' \in BOOLEAN
  BY HandshakeAssumption DEF Reply, IInv, TypeOK
<1>2. RequestLen \in Nat /\ (hixie = TRUE => RequestLen = HeaderLen + 8)
  BY <1>1 DEF RequestLen
<1>3. draftkey' \subseteq 1..n
  BY <1>1, <1>2
<1>4. CASE /\ handshaked' = TRUE /\ hixie76' = hixie /\ headerbuffer' = 0
           /\ start' = n + 1 /\ UNCHANGED <<alive, why>>
  <2>1. TypeOK'
    <3>1. /\ handshaked' \in BOOLEAN /\ hixie76' \in BOOLEAN /\ alive' \in BOOLEAN
          /\ readdraftkey' \in BOOLEAN /\ headertoread' \in Int
      BY <1>1, <1>4
    <3>2. start' \in Nat \cup {None} /\ taken' \in 0..sent'
      BY <1>1, <1>4 DEF client
    <3>3. headerbuffer' \in Nat /\ (alive' => headerbuffer' < MaxHeader)
      BY <1>4, HandshakeAssumption
    <3> QED
      BY <1>1, <1>3, <3>1, <3>2, <3>3 DEF TypeOK, client
  <2>2. ~early => n = RequestLen
    BY <1>1, <1>2 DEF IInv, Progress
  <2>3. RequestLen' = RequestLen
    BY DEF RequestLen, client
  <2>4. Progress' /\ KeyIsRight' /\ FramesStartRight'
    BY <1>1, <1>4, <2>2, <2>3 DEF Progress, Waiting, KeyIsRight, FramesStartRight, client
  <2> QED
    BY <2>1, <2>4 DEF IInv
<1>5. CASE /\ alive' = FALSE /\ headerbuffer' = n /\ UNCHANGED <<handshaked, hixie76, start>>
  <2>1. TypeOK'
    <3>1. /\ handshaked' \in BOOLEAN /\ hixie76' \in BOOLEAN /\ alive' \in BOOLEAN
          /\ readdraftkey' \in BOOLEAN /\ headertoread' \in Int
      BY <1>1, <1>5
    <3>2. start' \in Nat \cup {None} /\ taken' \in 0..sent'
      BY <1>1, <1>5 DEF client
    <3>3. headerbuffer' \in Nat /\ (alive' => headerbuffer' < MaxHeader)
      BY <1>5
    <3> QED
      BY <1>1, <1>3, <3>1, <3>2, <3>3 DEF TypeOK, client
  <2>3. RequestLen' = RequestLen
    BY DEF RequestLen, client
  <2>4. Progress' /\ KeyIsRight' /\ FramesStartRight'
    BY <1>1, <1>5, <2>3 DEF IInv, Progress, Waiting, KeyIsRight, FramesStartRight, client
  <2> QED
    BY <2>1, <2>4 DEF IInv
<1> QED
  BY <1>4, <1>5 DEF Reply

\* The steps in which handleData waits for more of the header or the key.
LEMMA WaitStep ==
  ASSUME IInv, NEW n \in Nat, alive, ~handshaked, taken <= n, n <= sent, n < MaxHeader,
         taken' = n, headerbuffer' = n, headertoread' \in Int, readdraftkey' \in BOOLEAN,
         draftkey' \subseteq 1..n, Progress',
         UNCHANGED <<client, early, handshaked, hixie76, alive, start>>
  PROVE  IInv'
<1>1. TypeOK'
  BY DEF IInv, TypeOK, client
<1> QED
  BY <1>1 DEF IInv, KeyIsRight, FramesStartRight, client

\* The steps in which it raises before it has changed more than the buffer.
LEMMA RaiseStep ==
  ASSUME IInv, NEW n \in Nat, NEW e, Raise(e), ~handshaked, taken <= n, n <= sent,
         taken' = n, headerbuffer' = n, UNCHANGED <<client, early>>
  PROVE  IInv'
<1>1. alive' = FALSE /\ UNCHANGED <<headertoread, readdraftkey, draftkey, handshaked, hixie76, start>>
  BY DEF Raise
<1>2. draftkey' \subseteq 1..n
  BY <1>1 DEF IInv, TypeOK
<1>3. TypeOK'
  <2>1. taken' \in 0..sent' /\ headerbuffer' \in Nat
    BY DEF IInv, TypeOK, client
  <2> QED
    BY <1>1, <1>2, <2>1 DEF IInv, TypeOK, client
<1>4. Progress'
  BY <1>1, HandshakeAssumption DEF IInv, TypeOK, Progress, Waiting, RequestLen, client
<1> QED
  BY <1>1, <1>3, <1>4 DEF IInv, KeyIsRight, FramesStartRight, client

\* A read, branch by branch of handleData.
LEMMA RecvStep == ASSUME IInv, NEW n \in 1..Total, Recv(n) PROVE IInv'
<1>1. /\ alive /\ ~handshaked /\ n > taken /\ n <= sent /\ n - taken <= headertoread
      /\ taken' = n /\ UNCHANGED <<client, early>>
  BY DEF Recv
<1>2. /\ n \in Nat /\ kind \in Kinds /\ kind \in Kind /\ sent \in Nat
      /\ HeaderLen \in Nat /\ HeaderLen > 8 /\ MaxHeader \in Nat
      /\ headertoread \in Int /\ taken \in Nat /\ readdraftkey \in BOOLEAN
      /\ RequestLen \in Nat /\ RequestLen' = RequestLen
      /\ draftkey \subseteq 1..taken /\ draftkey \subseteq 1..n
  BY <1>1, HandshakeAssumption DEF IInv, TypeOK, RequestLen, Total, client
<1>3. ASSUME NEW e, Raise(e), headerbuffer' = n PROVE IInv'
  BY <1>1, <1>2, <1>3, RaiseStep
<1>4. CASE TooLong(n)
  BY <1>3, <1>4 DEF Recv
<1>5. CASE ~TooLong(n) /\ readdraftkey
  <2>1. AddBuffer(n)
    BY <1>5 DEF Recv
  <2>2. headertoread <= 8 /\ n > 8 /\ n < MaxHeader
    BY <1>1, <1>2, <1>5 DEF IInv, Progress, TooLong
  <2>3. /\ draftkey' = draftkey \cup 1..n /\ headertoread' = headertoread - n
        /\ headerbuffer' = n
        /\ UNCHANGED <<readdraftkey, handshaked, hixie76, alive, why, start>>
    <3>1. headertoread - n # 0
      BY <1>2, <2>2
    <3> QED
      BY <2>1, <3>1 DEF AddBuffer
  <2>4. Progress'
    BY <1>1, <1>2, <1>5, <2>2, <2>3 DEF IInv, Progress, Waiting, client
  <2> QED
    BY <1>1, <1>2, <2>2, <2>3, <2>4, WaitStep
<1>6. CASE ~TooLong(n) /\ ~readdraftkey /\ ~BlankLineIn(n)
  <2>1. /\ headerbuffer' = n
        /\ UNCHANGED <<headertoread, readdraftkey, draftkey, handshaked, hixie76, alive, why, start>>
    BY <1>6 DEF Recv
  <2>2. n < MaxHeader
    BY <1>2, <1>6 DEF TooLong
  <2>3. Progress'
    BY <1>1, <1>2, <1>6, <2>1 DEF IInv, Progress, Waiting, client
  <2> QED
    BY <1>1, <1>2, <2>1, <2>2, <2>3, WaitStep
<1>7. CASE ~TooLong(n) /\ ~readdraftkey /\ BlankLineIn(n)
  <2>1. n < MaxHeader /\ n >= HeaderLen /\ kind # "endless" /\ draftkey = {}
    BY <1>1, <1>2, <1>7 DEF TooLong, BlankLineIn, IInv, Progress, Waiting
  <2>2. CASE kind = "hixie"
    <3>1. HixieHeader(n)
      BY <1>7, <2>2 DEF Recv
    <3>2. draftkey' = (HeaderLen + 1)..Least(n, HeaderLen + 8)
      BY <2>1, <3>1 DEF HixieHeader
    <3>3. CASE Short(n - HeaderLen)
      <4>1. /\ headertoread' = 8 - (n - HeaderLen) /\ readdraftkey' = TRUE
            /\ headerbuffer' = n /\ UNCHANGED <<handshaked, hixie76, alive, why, start>>
        BY <3>1, <3>3 DEF HixieHeader
      <4>2. draftkey' \subseteq 1..n
        BY <1>2, <2>1, <3>2, <3>3 DEF Least, Short
      <4>3. Progress'
        BY <1>1, <1>2, <2>1, <2>2, <4>1 DEF IInv, Progress, Waiting, client
      <4>4. headertoread' \in Int /\ readdraftkey' \in BOOLEAN
        BY <1>2, <4>1
      <4> QED
        BY <1>1, <1>2, <2>1, <4>1, <4>2, <4>3, <4>4, WaitStep
    <3>4. CASE ~Short(n - HeaderLen)
      <4>1. Reply(TRUE, n)
        BY <3>1, <3>4 DEF HixieHeader
      <4>2. n >= RequestLen
        BY <1>2, <2>1, <3>4 DEF Short, RequestLen
      <4>3. draftkey' = (HeaderLen + 1)..(HeaderLen + 8)
        BY <1>2, <2>1, <3>2, <3>4 DEF Short, Least
      <4> QED
        BY <1>1, <1>2, <1>7, <2>1, <2>2, <4>1, <4>2, <4>3, ReplyStep
    <3> QED
      BY <3>3, <3>4
  <2>3. CASE kind = "rfc"
    <3>1. Reply(FALSE, n) /\ draftkey' = {}
      BY <1>7, <2>1, <2>3 DEF Recv
    <3>2. n >= RequestLen
      BY <1>2, <2>1, <2>3 DEF RequestLen
    <3> QED
      BY <1>1, <1>2, <1>7, <2>1, <2>3, <3>1, <3>2, ReplyStep
  <2>4. CASE kind = "bare"
    <3>1. Raise("key") /\ headerbuffer' = n
      BY <1>7, <2>4 DEF Recv
    <3> QED
      BY <1>3, <3>1
  <2> QED
    BY <1>2, <2>1, <2>2, <2>3, <2>4 DEF Kind
<1> QED
  BY <1>2, <1>4, <1>5, <1>6, <1>7

\* The invariant holds in every reachable state.
LEMMA SpecIInv == Spec => []IInv
<1>1. Init => IInv
  BY InitIInv
<1>2. IInv /\ [Next]_vars => IInv'
  <2> SUFFICES ASSUME IInv, [Next]_vars PROVE IInv'
    OBVIOUS
  <2>1. CASE SendByte
    BY <2>1, SendByteStep
  <2>2. CASE HangUp
    BY <2>2, HangUpStep
  <2>3. CASE RecvFails
    BY <2>3, RecvFailsStep
  <2>4. ASSUME NEW n \in 1..Total, Recv(n) PROVE IInv'
    BY <2>4, RecvStep
  <2>5. CASE UNCHANGED vars
    BY <2>5 DEF IInv, TypeOK, Progress, Waiting, KeyIsRight, FramesStartRight, RequestLen,
       vars, client, object
  <2> QED
    BY <2>1, <2>2, <2>3, <2>4, <2>5 DEF Next, HandleData
<1> QED
  BY <1>1, <1>2, PTL DEF Spec

\* Every variable of a connection keeps its type, and the buffer stays below
\* the limit while the connection is served.
THEOREM TypeCorrect == Spec => []TypeOK
<1>1. IInv => TypeOK
  BY DEF IInv
<1> QED
  BY <1>1, SpecIInv, PTL

\* Whatever the reads return, a hixie client is answered from its eight bytes
\* and an RFC client as one of the RFC.
THEOREM KeyRight == Spec => []KeyIsRight
<1>1. IInv => KeyIsRight
  BY DEF IInv
<1> QED
  BY <1>1, SpecIInv, PTL

\* With a client that waits for the response, the parser of frames gets the
\* first byte after the request first.
THEOREM FramesFromTheRightByte == Spec => []FramesStartRight
<1>1. IInv => FramesStartRight
  BY DEF IInv
<1> QED
  BY <1>1, SpecIInv, PTL

\* A hixie connection whose key is not in the read that ends its header is
\* never handshaked, however long the header is.
THEOREM SplitKeysFail == Spec => []SplitKeyFails
<1>1. IInv => SplitKeyFails
  BY DEF IInv, Progress, SplitKeyFails
<1> QED
  BY <1>1, SpecIInv, PTL

-----------------------------------------------------------------------------
\* Reading goes on.  HandleMay is the guard of HandleData; with it in the place
\* of ENABLED, HandleRuns is the fairness that FairSpec assumes.

HandleMay ==
  /\ alive /\ ~handshaked
  /\ \/ headertoread > 0 /\ taken < sent
     \/ headertoread < 0 /\ (taken < sent \/ closed)
     \/ headertoread >= 0 /\ taken = sent /\ closed
HandleRuns == []<>~HandleMay \/ []<><<HandleData>>_vars

\* The three ways in which a request ends for handleData.
Ended == handshaked \/ ~alive \/ readdraftkey
\* All of a request is sent.
Whole == sent >= RequestLen /\ kind # "endless"

\* Until then a part of the header is missing, and as much may be read as at first.
Unread == Ended \/ (headertoread = FirstRead /\ (kind # "endless" => taken < HeaderLen))

\* A read of a request that goes on leaves its header unfinished.
LEMMA UnreadStep ==
  ASSUME IInv, Unread, [Next]_vars
  PROVE  /\ Unread'
         /\ Whole => Whole'
         /\ HandleData /\ ~Ended => Ended' \/ taken' > taken
         /\ ~HandleData => taken' = taken
<1>1. /\ sent \in Nat /\ taken \in Nat /\ HeaderLen \in Nat /\ kind \in Kind
      /\ readdraftkey \in BOOLEAN /\ alive \in BOOLEAN /\ handshaked \in BOOLEAN
      /\ RequestLen \in Nat
  BY HandshakeAssumption DEF IInv, TypeOK, RequestLen
<1>2. CASE SendByte \/ HangUp \/ UNCHANGED vars
  <2>1. /\ UNCHANGED <<kind, taken, object, alive>>
        /\ sent' = sent \/ sent' = sent + 1
    BY <1>2 DEF SendByte, HangUp, vars, client
  <2>2. Unread' /\ (Whole => Whole') /\ taken' = taken
    BY <1>1, <2>1 DEF Unread, Ended, Whole, RequestLen, object
  <2> QED
    BY <1>1, <1>2, <2>2 DEF SendByte, HangUp, HandleData, RecvFails, Raise, Recv, vars,
        client, object
<1>3. CASE RecvFails
  <2>1. alive' = FALSE /\ UNCHANGED <<client, taken>>
    BY <1>3 DEF RecvFails, Raise
  <2> QED
    BY <2>1, <1>3 DEF Unread, Ended, Whole, RequestLen, client, HandleData
<1>4. ASSUME NEW n \in 1..Total, Recv(n)
      PROVE  Unread' /\ (Whole => Whole') /\ taken' > taken
  <2>1. /\ alive /\ ~handshaked /\ n > taken /\ taken' = n /\ n \in Nat
        /\ UNCHANGED client
    BY <1>1, <1>4, HandshakeAssumption DEF Recv, Total
  <2>2. Whole => Whole'
    BY <2>1 DEF Whole, RequestLen, client
  <2>3. ASSUME ~Ended'
        PROVE  /\ ~TooLong(n) /\ ~readdraftkey /\ ~BlankLineIn(n)
               /\ headertoread' = headertoread
    <3>1. alive' /\ ~handshaked' /\ ~readdraftkey'
      BY <2>3 DEF Ended
    <3>2. ~TooLong(n)
      BY <1>4, <3>1 DEF Recv, Raise
    <3>3. ~readdraftkey
      BY <1>4, <3>1, <3>2 DEF Recv, AddBuffer, Reply
    <3>4. ~BlankLineIn(n)
      BY <1>1, <1>4, <3>1, <3>2, <3>3 DEF Recv, HixieHeader, Reply, Raise, Kind,
          BlankLineIn
    <3> QED
      BY <1>4, <3>2, <3>3, <3>4 DEF Recv
  <2>4. Unread'
    <3>1. CASE Ended'
      BY <3>1 DEF Unread
    <3>2. CASE ~Ended'
      <4>1. ~Ended
        BY <2>1, <2>3, <3>2 DEF Ended
      <4>2. headertoread' = FirstRead' /\ (kind' # "endless" => taken' < HeaderLen)
        BY <1>1, <2>1, <2>3, <3>2, <4>1 DEF Unread, BlankLineIn, client
      <4> QED
        BY <4>2 DEF Unread
    <3> QED
      BY <3>1, <3>2
  <2> QED
    BY <1>1, <2>1, <2>2, <2>4
<1> QED
  BY <1>2, <1>3, <1>4 DEF Next, HandleData

\* What is left of a request is always in fewer reads than its header has bytes.
LEMMA SpecUnread == Spec => [](IInv /\ Unread)
<1>1. Init => Unread
  BY HandshakeAssumption DEF Init, Unread
<1>2. IInv /\ Unread /\ [Next]_vars => Unread'
  BY UnreadStep
<1> QED
  BY <1>1, <1>2, SpecIInv, PTL DEF Spec

\* handleData never waits for bytes that will not come: as long as a request is
\* neither answered nor refused nor its key split, its header is not all read,
\* and when all of it is sent the next read may be made and takes some of it.
THEOREM NeverWaitsInVain ==
  Spec => [](/\ Ended \/ kind = "endless" \/ taken < HeaderLen
             /\ Whole => Ended \/ HandleMay)
<1>1. IInv /\ Unread => /\ Ended \/ kind = "endless" \/ taken < HeaderLen
                        /\ Whole => Ended \/ HandleMay
  BY HandshakeAssumption DEF IInv, TypeOK, Unread, Ended, Whole, RequestLen, HandleMay
<1> QED
  BY <1>1, SpecUnread, PTL

\* Each read of a request that is all sent is followed by another until it ends:
\* with NeverWaitsInVain, by fewer than HeaderLen.
THEOREM ReadsGoOn ==
  Spec /\ HandleRuns => \A n \in Nat : Whole /\ taken = n ~> Ended \/ taken > n
<1>1. ASSUME NEW n \in Nat
      PROVE  Spec /\ HandleRuns => (Whole /\ taken = n ~> Ended \/ taken > n)
  <2>1. IInv /\ Unread /\ Whole => Ended \/ HandleMay
    BY HandshakeAssumption DEF IInv, TypeOK, Unread, Ended, Whole, RequestLen, HandleMay
  <2>2. IInv /\ Unread /\ [Next]_vars
        => /\ Whole => Whole'
           /\ taken = n => Ended \/ Ended' \/ (taken = n)' \/ (taken > n)'
    BY UnreadStep
  <2>3. IInv /\ Unread /\ taken = n /\ <<HandleData>>_vars
        => Ended \/ Ended' \/ (taken > n)'
    BY UnreadStep DEF Next
  <2>4. Spec => [][Next]_vars
    BY PTL DEF Spec
  <2> QED
    BY <2>1, <2>2, <2>3, <2>4, SpecUnread, PTL DEF HandleRuns
<1> QED
  BY <1>1
=============================================================================
