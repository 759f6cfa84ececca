----------------------------- MODULE Handshake -----------------------------
(***************************************************************************)
(* The handshake of a WebSocket: what handleData does of the bytes of a    *)
(* new connection until handshaked is True and parseMessage takes over.    *)
(*                                                                         *)
(* A byte is its position in what the client sends; headerbuffer holds the *)
(* bytes from the first on, so it is its length, and draftkey is the set   *)
(* of the positions of its bytes.                                          *)
(***************************************************************************)
EXTENDS Integers

CONSTANTS
  Kinds,       \* the requests that occur, see Kind
  HeaderLen,   \* the length of the header with its blank line
  FirstRead,   \* the initial headertoread
  MaxHeader,   \* WebSocket.maxheader
  Frames,      \* how many bytes of frames the client sends
  None

\* The header has the RFC's key or hixie's two; "bare" has neither, and "endless"
\* never ends.
Kind == {"rfc", "hixie", "bare", "endless"}

ASSUME HandshakeAssumption ==
  /\ Kinds \subseteq Kind
  /\ HeaderLen \in Nat /\ HeaderLen > 8 /\ HeaderLen < MaxHeader
  /\ FirstRead \in Nat \ {0} /\ MaxHeader \in Nat /\ Frames \in Nat
  /\ None \notin Nat \cup {"header", "recv", "closed", "key", "send"}

VARIABLES
  kind, sent, closed,  \* the client: its request, bytes sent, hung up
  taken,          \* the bytes recv() has returned
  headerbuffer, headertoread, readdraftkey, draftkey, handshaked, hixie76,
  alive, why,     \* no exception has left handleData; which one did
  start,          \* history: the byte from which frames are parsed
  early           \* history: the client sent frames before it had the response

client == <<kind, sent, closed>>
object == <<headerbuffer, headertoread, readdraftkey, draftkey, handshaked, hixie76>>
vars   == <<client, taken, object, alive, why, start, early>>

\* The request: hixie's has eight bytes after the header.
RequestLen == HeaderLen + IF kind = "hixie" THEN 8 ELSE 0
Total == (IF kind = "endless" THEN MaxHeader ELSE RequestLen) + Frames
-----------------------------------------------------------------------------
\* The client.

SendByte ==
  /\ ~closed /\ sent < Total
  /\ sent' = sent + 1
  /\ early' = (early \/ (~handshaked /\ sent >= RequestLen))
  /\ UNCHANGED <<kind, closed, taken, object, alive, why, start>>

HangUp ==
  /\ ~closed
  /\ closed' = TRUE
  /\ UNCHANGED <<kind, sent, taken, object, alive, why, start, early>>

-----------------------------------------------------------------------------
\* handleData.

Raise(e) ==
  /\ alive' = FALSE /\ why' = e
  /\ UNCHANGED <<headertoread, readdraftkey, draftkey, handshaked, hixie76, start>>

\* The reply, after which the buffer is emptied.  The client may be gone; a hixie
\* request may lack a header or have keys without digits or without spaces.
Reply(hixie, n) ==
  \/ /\ handshaked' = TRUE /\ hixie76' = hixie
     /\ headerbuffer' = 0
     /\ start' = n + 1
     /\ UNCHANGED <<headertoread, readdraftkey, alive, why>>
  \/ /\ \/ closed /\ why' = "send"
        \/ hixie /\ why' = "key"
     /\ alive' = FALSE
     /\ headerbuffer' = n
     /\ UNCHANGED <<headertoread, readdraftkey, handshaked, hixie76, start>>

\* Mutant: what the comment says, the limit itself is allowed.
Exceeds(n) == n > MaxHeader
TooLong(n) == n >= MaxHeader

\* Mutants: the key is taken for complete; a byte too early.
NeverShort(read) == FALSE
ShortByOne(read) == read < 7
Short(read) == read < 8

Least(m, n) == IF m < n THEN m ELSE n

\* Mutant: the blank line is seen one byte late.
BlankLineBefore(n) == kind # "endless" /\ n > HeaderLen
BlankLineIn(n) == kind # "endless" /\ n >= HeaderLen

\* A hixie request whose header is in the buffer of n bytes.
HixieHeader(n) ==
  LET read == n - HeaderLen IN
  /\ draftkey' = draftkey \cup (HeaderLen + 1)..Least(n, HeaderLen + 8)
  /\ IF Short(read)
     THEN /\ headertoread' = 8 - read
          /\ readdraftkey' = TRUE
          /\ headerbuffer' = n
          /\ UNCHANGED <<handshaked, hixie76, alive, why, start>>
     ELSE Reply(TRUE, n)

\* Mutant: only what is new is added and counted.
AddNew(n) ==
  LET read == headertoread - (n - taken) IN
  /\ draftkey' = draftkey \cup (taken + 1)..n
  /\ IF read > 0
     THEN /\ headertoread' = read
          /\ headerbuffer' = n
          /\ UNCHANGED <<readdraftkey, handshaked, hixie76, alive, why, start>>
     ELSE Reply(TRUE, n)

\* The rest of a split key: all of headerbuffer is added to it, and counted.
AddBuffer(n) ==
  LET read == headertoread - n IN
  /\ draftkey' = draftkey \cup 1..n
  /\ IF read # 0
     THEN /\ headertoread' = read
          /\ headerbuffer' = n
          /\ UNCHANGED <<readdraftkey, handshaked, hixie76, alive, why, start>>
     ELSE Reply(TRUE, n)

\* recv() raises for a negative size and returns nothing when the client is gone.
RecvFails ==
  /\ alive /\ ~handshaked /\ (taken < sent \/ closed)
  /\ \/ headertoread < 0 /\ Raise("recv")
     \/ headertoread >= 0 /\ taken = sent /\ Raise("closed")
  /\ UNCHANGED <<client, taken, headerbuffer, early>>

Recv(n) ==
  /\ alive /\ ~handshaked
  /\ n > taken /\ n <= sent /\ n - taken <= headertoread
  /\ taken' = n
  /\ UNCHANGED <<client, early>>
  /\ CASE TooLong(n) -> Raise("header") /\ headerbuffer' = n
       [] ~TooLong(n) /\ readdraftkey -> AddBuffer(n)
       [] ~TooLong(n) /\ ~readdraftkey /\ ~BlankLineIn(n) ->
            /\ headerbuffer' = n
            /\ UNCHANGED <<headertoread, readdraftkey, draftkey, handshaked, hixie76,
                           alive, why, start>>
       [] OTHER ->
            CASE kind = "hixie" -> HixieHeader(n)
              [] kind = "rfc"   -> Reply(FALSE, n) /\ UNCHANGED draftkey
              [] kind = "bare"  -> Raise("key") /\ headerbuffer' = n

-----------------------------------------------------------------------------
Init ==
  /\ kind \in Kinds /\ sent = 0 /\ closed = FALSE
  /\ taken = 0
  /\ headerbuffer = 0 /\ headertoread = FirstRead
  /\ readdraftkey = FALSE /\ draftkey = {}
  /\ handshaked = FALSE /\ hixie76 = FALSE
  /\ alive = TRUE /\ why = None /\ start = None /\ early = FALSE

HandleData == RecvFails \/ \E n \in 1..Total : Recv(n)

Next == SendByte \/ HangUp \/ HandleData

Spec == Init /\ [][Next]_vars
\* The select loop calls handleData as long as there is something to read.
FairSpec == Spec /\ WF_vars(HandleData)
-----------------------------------------------------------------------------
\* Properties.

\* Every variable holds a value of its type, the buffer within its limit.
TypeOK ==
  /\ kind \in Kinds /\ sent \in Nat /\ closed \in BOOLEAN
  /\ taken \in 0..sent
  /\ headerbuffer \in Nat /\ (alive => headerbuffer < MaxHeader)
  /\ headertoread \in Int /\ readdraftkey \in BOOLEAN
  /\ draftkey \subseteq 1..taken
  /\ handshaked \in BOOLEAN /\ hixie76 \in BOOLEAN
  /\ alive \in BOOLEAN /\ start \in Nat \cup {None} /\ early \in BOOLEAN

\* The answer to a hixie challenge is computed from the eight bytes after the
\* header, and a request of the other kind is not answered as hixie's.
KeyIsRight ==
  handshaked => /\ hixie76 <=> kind = "hixie"
                /\ hixie76 => draftkey = (HeaderLen + 1)..(HeaderLen + 8)

\* The bytes parsed as frames are those after the request, unless the client
\* has sent some before it had the response: recv() takes and drops those.
FramesStartRight == ~early /\ handshaked => start = RequestLen + 1

\* "We need to read the entire 8 bytes of after the HTTP header, ensure we do": a
\* connection that has read all eight, and goes on, has them for its key.
EntireKeyRead ==
  kind = "hixie" /\ alive /\ taken >= RequestLen
    => draftkey = (HeaderLen + 1)..(HeaderLen + 8)

\* What the code does instead: a key that does not come with its header is never
\* completed, as the count of what is left goes below zero and the next recv() raises.
SplitKeyFails == readdraftkey => ~handshaked

\* A request all of which is sent is answered or refused, unless its key is split.
RequestsEnd ==
  sent >= RequestLen /\ kind # "endless" ~> handshaked \/ ~alive \/ readdraftkey
=============================================================================
