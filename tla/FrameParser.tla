---------------------------- MODULE FrameParser ----------------------------
(***************************************************************************)
(* WebSocket.parseMessage and parseMessage_hixie76, which read the frames  *)
(* of a connection byte by byte, and the frames sendMessage writes.        *)
(*                                                                         *)
(* A byte on the wire is the part of the frame it is: its values matter    *)
(* only through the header fields and whether the parser takes it for the  *)
(* part it is.  A byte array of the parser is its length.                  *)
(***************************************************************************)
EXTENDS Naturals

CONSTANTS
  Ops,         \* the opcodes that occur; "other" stands for the unassigned
  Lengths,     \* the payload lengths that occur
  MaxPayload,  \* WebSocket.maxpayload
  None         \* Python's None

DataOps == {"STREAM", "TEXT", "BINARY"}

ASSUME FrameAssumption ==
  /\ Ops \subseteq DataOps \cup {"CLOSE", "PING", "PONG", "other"}
  /\ Lengths \subseteq Nat
  /\ MaxPayload \in Nat \ {0}
  /\ None \notin Nat \cup {"close", "handler", "payload", "length", "mask"}
  /\ \A f \in [op : Ops \cup {"TEXT"}, masked : BOOLEAN, len : Lengths,
                 form : {"7", "16", "64", "hixie"}] : f # None

\* The payload length is in the second byte, in 2 or in 8 bytes of its own; a
\* hixie frame has a byte before and one after the payload instead.
Fits(form, n) == (form = "7" => n <= 125) /\ (form = "16" => n <= 65535)
Frame == [op : Ops \cup {"TEXT"}, form : {"7", "16", "64", "hixie"},
          masked : BOOLEAN, len : Lengths]
Frames ==
  {f \in Frame : /\ Fits(f.form, f.len)
                 /\ f.form = "hixie" => f.op = "TEXT" /\ ~f.masked}

Ext(f) == CASE f.form = "16" -> 2 [] f.form = "64" -> 8 [] OTHER -> 0
Key(f) == IF f.masked THEN 4 ELSE 0
Head(f) == IF f.form = "hixie" THEN 1 ELSE 2 + Ext(f) + Key(f)
Size(f) == Head(f) + f.len + IF f.form = "hixie" THEN 1 ELSE 0

VARIABLES
  hixie76,     \* the connection uses the old protocol; fixed by the handshake
  frame, pos,  \* the wire: the frame in transmission, its bytes read so far
  state, opcode, hasmask, length, index,
  lengtharray, maskarray,  \* how many bytes they hold
  data,                    \* how many bytes it holds, or None
  intact,   \* history: data holds the payload's bytes so far, unmasked
  garbled,  \* history: a byte was taken for what it is not
  alive,    \* no exception has left handleData
  why,      \* history: the exception that did
  got       \* history: what handlePacket did with the latest frame

wire   == <<frame, pos>>
parser == <<state, opcode, hasmask, length, index, lengtharray, maskarray, data>>
vars   == <<hixie76, wire, parser, intact, garbled, alive, why, got>>

\* The frame sendMessage writes for a message of n bytes.
SendMessage(op, n) ==
  [op |-> IF hixie76 THEN "TEXT" ELSE op, masked |-> FALSE, len |-> n,
   form |-> IF hixie76 THEN "hixie"
            ELSE IF n <= 125 THEN "7" ELSE IF n <= 65535 THEN "16" ELSE "64"]

InFlight == frame # None /\ pos < Size(frame)

\* The peer, or the network, delivers what follows: the bytes of a frame.
Send(f) ==
  /\ alive /\ ~InFlight
  /\ f.form = "hixie" <=> hixie76
  /\ frame' = f /\ pos' = 0
  /\ got' = None
  /\ UNCHANGED <<parser, intact, garbled, alive, why>>

-----------------------------------------------------------------------------
\* The next byte is byte i of a part of the frame.
Part(p, i) ==
  LET k == pos + 1 IN
  CASE p = "b1"    -> ~hixie76 /\ k = 1
    [] p = "b2"    -> ~hixie76 /\ k = 2
    [] p = "len"   -> ~hixie76 /\ k = 2 + i /\ i <= Ext(frame)
    [] p = "key"   -> ~hixie76 /\ k = 2 + Ext(frame) + i /\ i <= Key(frame)
    [] p = "data"  -> k = Head(frame) + i /\ i <= frame.len
    [] p = "start" -> hixie76 /\ k = 1
    [] p = "end"   -> hixie76 /\ k = Size(frame)

\* The parser takes the next byte for byte i of part p.
TakeAs(p, i) ==
  /\ alive /\ InFlight
  /\ pos' = pos + 1
  /\ garbled' = (garbled \/ ~Part(p, i))
  /\ UNCHANGED frame

\* A value made of bytes that are not what they are taken for is anything.
Value(v, S) == IF garbled' THEN S ELSE {v}

Raise(e) == alive' = FALSE /\ why' = e

\* Mutant: the finally clause does not forget the data.
ForgetData == UNCHANGED data
ResetData == data' = None

\* handlePacket, with the finally clause of its callers, for a message of size n.
HandlePacket(op, n) ==
  /\ state' = "HEADERB1"
  /\ ResetData
  /\ got' = IF op \in DataOps
            THEN [op |-> op, size |-> n, intact |-> intact'] ELSE None
  /\ IF op = "CLOSE" THEN Raise("close")
     ELSE \/ UNCHANGED <<alive, why>>
          \/ op \in DataOps /\ Raise("handler")

\* What follows the header: no payload, or its first byte.
BeginPayload(n) ==
  IF n = 0
  THEN /\ HandlePacket(opcode, IF data = None THEN 0 ELSE data)
       /\ UNCHANGED index
  ELSE /\ index' = 0 /\ data' = 0 /\ state' = "PAYLOAD"
       /\ UNCHANGED <<alive, why, got>>

\* Mutants: the array of the frame before is kept; is dropped.
KeepMaskArray == UNCHANGED maskarray
DropMaskArray == maskarray' = None
NewMaskArray == maskarray' = 0

\* What follows the length n: the mask, or what follows the header.
AfterLength(n, m) ==
  IF m
  THEN /\ NewMaskArray
       /\ state' = "MASK"
       /\ UNCHANGED <<index, data, alive, why, got>>
  ELSE BeginPayload(n) /\ UNCHANGED maskarray

-----------------------------------------------------------------------------
ReadB1 ==
  /\ ~hixie76 /\ state = "HEADERB1"
  /\ TakeAs("b1", 1)
  /\ intact' = TRUE
  /\ opcode' \in Value(frame.op, Ops)
  /\ state' = "HEADERB2"
  /\ UNCHANGED <<hasmask, length, index, lengtharray, maskarray, data, alive, why, got>>

ReadB2 ==
  /\ ~hixie76 /\ state = "HEADERB2"
  /\ TakeAs("b2", 1)
  /\ UNCHANGED <<opcode, intact>>
  /\ hasmask' \in Value(frame.masked, BOOLEAN)
  /\ \E form \in Value(frame.form, {"7", "16", "64"}) :
       IF form = "7"
       THEN /\ length' \in Value(frame.len, Lengths)
            /\ AfterLength(length', hasmask')
            /\ UNCHANGED lengtharray
       ELSE /\ lengtharray' = 0
            /\ state' = IF form = "16" THEN "LENGTHSHORT" ELSE "LENGTHLONG"
            /\ UNCHANGED <<length, index, maskarray, data, alive, why, got>>

\* Mutant: the eighth byte is left on the wire.
WidthOfStruct == IF state = "LENGTHSHORT" THEN 2 ELSE 7
Width == IF state = "LENGTHSHORT" THEN 2 ELSE 8

ReadLength ==
  /\ ~hixie76 /\ state \in {"LENGTHSHORT", "LENGTHLONG"}
  /\ TakeAs("len", lengtharray + 1)
  /\ UNCHANGED <<opcode, hasmask, intact>>
  /\ lengtharray' = lengtharray + 1
  /\ CASE lengtharray' > Width ->
            Raise("length") /\ UNCHANGED <<state, length, index, maskarray, data, got>>
       [] lengtharray' = Width ->
            length' \in Value(frame.len, Lengths) /\ AfterLength(length', hasmask)
       [] OTHER ->
            UNCHANGED <<state, length, index, maskarray, data, alive, why, got>>

ReadMask ==
  /\ ~hixie76 /\ state = "MASK"
  /\ TakeAs("key", maskarray + 1)
  /\ UNCHANGED <<opcode, hasmask, length, lengtharray, intact>>
  /\ maskarray' = maskarray + 1
  /\ CASE maskarray' > 4 ->
            Raise("mask") /\ UNCHANGED <<state, index, data, got>>
       [] maskarray' = 4 -> BeginPayload(length)
       [] OTHER          -> UNCHANGED <<state, index, data, alive, why, got>>

\* Payload byte i was masked with byte (i - 1) % 4 of the key.
Unmasked == hasmask => maskarray = 4 /\ index % 4 = data % 4

Last == index + 1 = length

\* Mutant: the comment's meaning, a payload of the maximal size is allowed.
TooLarge(n) == n > MaxPayload
TooLong(n) == n >= MaxPayload

ReadPayload ==
  /\ ~hixie76 /\ state = "PAYLOAD"
  /\ TakeAs("data", data + 1)
  /\ intact' = (intact /\ Unmasked /\ hasmask = frame.masked)
  /\ IF TooLong(data + 1)
     THEN /\ data' = data + 1
          /\ Raise("payload")
          /\ UNCHANGED <<state, index, got>>
     ELSE IF Last
     THEN HandlePacket(opcode, data + 1) /\ UNCHANGED index
     ELSE /\ index' = index + 1
          /\ data' = data + 1
          /\ UNCHANGED <<state, alive, why, got>>
  /\ UNCHANGED <<opcode, hasmask, length, lengtharray, maskarray>>

\* The old protocol: a byte 0, the payload, a byte 255, which no payload has.
ReadHixieStart ==
  /\ hixie76 /\ state = "HEADERB1"
  /\ TakeAs("start", 1)
  /\ state' = "PAYLOAD" /\ data' = 0 /\ intact' = TRUE
  /\ UNCHANGED <<opcode, hasmask, length, index, lengtharray, maskarray, alive, why,
                 got>>

ReadHixiePayload ==
  /\ hixie76 /\ state = "PAYLOAD" /\ InFlight
  /\ UNCHANGED <<hasmask, index, lengtharray, maskarray, intact>>
  /\ IF Part("end", 1)
     THEN /\ TakeAs("end", 1)
          /\ opcode' = "TEXT" /\ length' = data
          /\ HandlePacket("TEXT", data)
     ELSE /\ TakeAs("data", data + 1)
          /\ data' = data + 1
          /\ IF TooLong(data') THEN Raise("payload") ELSE UNCHANGED <<alive, why>>
          /\ UNCHANGED <<state, opcode, length, got>>

-----------------------------------------------------------------------------
Init ==
  /\ hixie76 \in BOOLEAN
  /\ frame = None /\ pos = 0
  /\ state = "HEADERB1" /\ opcode = "STREAM" /\ hasmask = FALSE
  /\ length = 0 /\ index = 0 /\ lengtharray = 0 /\ maskarray = 0 /\ data = None
  /\ intact = TRUE /\ garbled = FALSE /\ alive = TRUE /\ why = None /\ got = None

Read ==
  ReadB1 \/ ReadB2 \/ ReadLength \/ ReadMask \/ ReadPayload \/ ReadHixieStart
  \/ ReadHixiePayload

Next == (Read \/ \E f \in Frames : Send(f)) /\ UNCHANGED hixie76

Spec == Init /\ [][Next]_vars
-----------------------------------------------------------------------------
\* Properties.

\* The peer speaks the protocol of the handshake.
Protocol ==
  hixie76 \in BOOLEAN /\ (frame # None => (frame.form = "hixie" <=> hixie76))

Typed ==
  /\ frame \in Frames \cup {None} /\ pos \in Nat
  /\ state \in {"HEADERB1", "HEADERB2", "LENGTHSHORT", "LENGTHLONG", "MASK", "PAYLOAD"}
  /\ opcode \in Ops \cup {"STREAM", "TEXT"} /\ hasmask \in BOOLEAN
  /\ length \in Nat /\ index \in Nat
  /\ lengtharray \in Nat /\ maskarray \in Nat /\ data \in Nat \cup {None}
  /\ intact \in BOOLEAN /\ garbled \in BOOLEAN /\ alive \in BOOLEAN

\* Every variable holds a value of its type.
TypeOK == Protocol /\ Typed

\* The parser never loses the framing: it takes every byte for what it is, and
\* is back at the start of a header when a frame has been read.
InSync == ~garbled /\ (alive /\ ~InFlight => state = "HEADERB1" /\ data = None)

\* Of the parser's four size checks only the one on the payload can fail: the
\* arrays of the length and of the mask are new for each frame and never full.
GuardsNeverFire == why \notin {"length", "mask"}

Abstract == INSTANCE FrameStream WITH
  frame <- IF InFlight THEN frame ELSE None

\* The parser implements FrameStream: a frame is handed on once, at its last
\* byte, with its opcode, its size and its own bytes.
Promise == Abstract!Spec
=============================================================================
