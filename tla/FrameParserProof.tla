-------------------------- MODULE FrameParserProof --------------------------
(***************************************************************************)
(* What holds of FrameParser for every set of lengths and opcodes and      *)
(* every MaxPayload.  The argument: the parser's state and the lengths of  *)
(* its arrays say at which byte of the frame it is (Where), so each byte   *)
(* is read as what it is, each array is complete before it is used, and    *)
(* the last byte of a frame is the one at which handlePacket is called.    *)
(***************************************************************************)
EXTENDS FrameParser, TLAPS

\* Where the parser is in a frame that is not hixie, from the second byte on.
Where ==
  /\ opcode = frame.op
  /\ state # "HEADERB2" => hasmask = frame.masked
  /\ state \in {"MASK", "PAYLOAD"} => length = frame.len
  /\ state = "HEADERB2" => pos = 1
  /\ state = "LENGTHSHORT" =>
       frame.form = "16" /\ lengtharray < 2 /\ pos = 2 + lengtharray
  /\ state = "LENGTHLONG" =>
       frame.form = "64" /\ lengtharray < 8 /\ pos = 2 + lengtharray
  /\ state = "MASK" =>
       frame.masked = TRUE /\ maskarray < 4 /\ pos = 2 + Ext(frame) + maskarray
  /\ state = "PAYLOAD" =>
       /\ data = index /\ pos = Head(frame) + data
       /\ frame.masked = TRUE => maskarray = 4

WhereHixie == state = "PAYLOAD" /\ pos = 1 + data /\ data < MaxPayload

Sync ==
  /\ ~garbled /\ why \notin {"length", "mask"}
  /\ frame = None => pos = 0
  /\ data # None <=> state = "PAYLOAD"
  /\ alive /\ ~InFlight => state = "HEADERB1"
  /\ alive /\ InFlight =>
       IF state = "HEADERB1" THEN pos = 0
       ELSE intact /\ IF hixie76 THEN WhereHixie ELSE Where

IInv == TypeOK /\ Sync

Current == IF InFlight THEN frame ELSE None

\* What a step of the parser is to FrameStream.
Implements ==
  Abstract!Finish \/ Abstract!Refuse \/ UNCHANGED <<Current, alive, got>>

-----------------------------------------------------------------------------
\* The shape of frames.
LEMMA FrameShape ==
  ASSUME NEW f \in Frames
  PROVE  /\ f # None /\ f.op \in Ops \cup {"TEXT"} /\ f.masked \in BOOLEAN /\ f.len \in Nat
         /\ f.form \in {"7", "16", "64", "hixie"}
         /\ f.form = "hixie" => f.op = "TEXT" /\ ~f.masked
         /\ Ext(f) \in {0, 2, 8} /\ Key(f) \in {0, 4}
         /\ Head(f) \in Nat /\ Size(f) \in Nat /\ Size(f) >= 2
  BY FrameAssumption DEF Frames, Frame, Ext, Key, Head, Size

\* A frame in the connection's protocol.
LEMMA ProtocolKept ==
  ASSUME IInv, UNCHANGED <<hixie76, frame>>
  PROVE  Protocol'
  BY DEF IInv, TypeOK, Protocol

LEMMA InitIInv == Init => IInv
<1> SUFFICES ASSUME Init PROVE IInv
  OBVIOUS
<1>1. TypeOK
  BY DEF Init, TypeOK, Protocol, Typed
<1>2. Sync
  BY FrameAssumption DEF Init, Sync, InFlight
<1> QED
  BY <1>1, <1>2 DEF IInv, TypeOK

LEMMA SendStep ==
  ASSUME IInv, NEW f \in Frames, UNCHANGED hixie76, Send(f)
  PROVE  IInv' /\ Abstract!Next
<1>3. Protocol'
  BY DEF Send, IInv, TypeOK, Protocol
<1>4. Typed' /\ Sync'
  BY FrameShape, FrameAssumption DEF Send, parser, IInv, TypeOK, Typed, Sync, InFlight
<1>1. IInv'
  BY <1>3, <1>4 DEF IInv, TypeOK
<1>2. Abstract!Send(f)
  BY FrameShape, FrameAssumption DEF Send, Abstract!Send, InFlight, IInv, TypeOK, Typed
<1> QED
  BY <1>1, <1>2 DEF Abstract!Next

LEMMA ReadB1Step == IInv /\ UNCHANGED hixie76 /\ ReadB1 => IInv' /\ Implements
<1> SUFFICES ASSUME IInv, UNCHANGED hixie76, ReadB1 PROVE IInv' /\ Implements
  OBVIOUS
<1>1. frame \in Frames /\ pos = 0 /\ Part("b1", 1) /\ Size(frame) >= 2
  BY FrameShape, FrameAssumption DEF ReadB1, TakeAs, IInv, TypeOK, Typed, Protocol, Sync, InFlight, Part
<1>2. garbled' = FALSE /\ pos' = 1
  BY <1>1 DEF ReadB1, TakeAs, IInv, Sync, TypeOK, Typed
<1>5. opcode' = frame.op
  BY <1>2 DEF ReadB1, Value
<1>6. frame' = frame
  BY DEF ReadB1, TakeAs
<1>7. Typed'
  BY <1>1, <1>2, <1>5, FrameShape DEF ReadB1, TakeAs, IInv, TypeOK, Typed
<1>8. Sync'
  BY <1>1, <1>2, <1>5, FrameShape, FrameAssumption
     DEF ReadB1, TakeAs, IInv, Sync, InFlight, Where, Ext, Head
<1>3. IInv'
  BY <1>6, <1>7, <1>8, ProtocolKept DEF IInv, TypeOK
<1>4. Implements
  BY <1>1, <1>2, <1>5, FrameShape DEF ReadB1, TakeAs, Implements, Current, InFlight
<1> QED
  BY <1>3, <1>4

\* handlePacket at the last byte of a frame.
LEMMA LastByte ==
  ASSUME IInv, alive, InFlight, pos' = pos + 1, pos' = Size(frame), garbled' = FALSE,
         UNCHANGED <<hixie76, frame>>, intact' = TRUE, frame.len < MaxPayload,
         HandlePacket(frame.op, frame.len)
  PROVE  /\ Implements
         /\ state' = "HEADERB1" /\ data' = None
         /\ alive' \in BOOLEAN /\ why' \notin {"length", "mask"}
<1>1. frame \in Frames
  BY DEF IInv, TypeOK, Typed, InFlight
<1>2. Current = frame /\ Current' = None
  BY DEF Current, InFlight
<1>3. /\ got' = IF frame.op \in DataOps
                THEN [op |-> frame.op, size |-> frame.len, intact |-> TRUE] ELSE None
      /\ state' = "HEADERB1" /\ data' = None
  BY DEF HandlePacket, ResetData
<1>4. /\ alive' \in BOOLEAN /\ why' \notin {"length", "mask"}
      /\ frame.op = "CLOSE" => ~alive'
      /\ frame.op \notin DataOps \cup {"CLOSE"} => UNCHANGED alive
  BY DEF HandlePacket, Raise, DataOps, IInv, Sync, TypeOK, Typed
<1>5. Abstract!Finish
  BY <1>1, <1>2, <1>3, <1>4 DEF Abstract!Finish, Abstract!DataOps, DataOps, Current, InFlight
<1> QED
  BY <1>3, <1>4, <1>5 DEF Implements

\* The state between two frames, or after the last.
LEMMA BetweenFrames ==
  ASSUME IInv, UNCHANGED <<hixie76, frame>>, frame \in Frames, pos' = Size(frame), garbled' = FALSE,
         state' = "HEADERB1", data' = None, alive' \in BOOLEAN,
         why' \notin {"length", "mask"}, intact' \in BOOLEAN,
         opcode' \in Ops \cup {"STREAM", "TEXT"}, hasmask' \in BOOLEAN,
         length' \in Nat, index' \in Nat, lengtharray' \in Nat, maskarray' \in Nat
  PROVE  IInv'
<1>1. Typed'
  BY FrameShape DEF IInv, TypeOK, Typed
<1>2. Sync'
  BY FrameShape DEF Sync, InFlight
<1> QED
  BY <1>1, <1>2, ProtocolKept DEF IInv, TypeOK

\* The end of the header.
LEMMA PayloadBegins ==
  ASSUME IInv, alive, InFlight, ~hixie76, state \notin {"HEADERB1", "PAYLOAD"},
         pos' = pos + 1, pos' = Head(frame), garbled' = FALSE,
         UNCHANGED <<hixie76, frame, opcode, intact>>,
         hasmask' = frame.masked, length' = frame.len,
         lengtharray' \in Nat, maskarray' \in Nat, frame.masked = TRUE => maskarray' = 4,
         BeginPayload(frame.len)
  PROVE  IInv' /\ Implements
<1>1. /\ frame \in Frames /\ frame.len \in Nat /\ Head(frame) \in Nat
      /\ Size(frame) = Head(frame) + frame.len /\ frame.masked \in BOOLEAN
  BY FrameShape DEF IInv, TypeOK, Typed, Protocol, InFlight, Size
<1>2. opcode = frame.op /\ data = None /\ intact
  BY DEF IInv, Sync, Where
<1>3. CASE frame.len = 0
  <2>1. HandlePacket(frame.op, frame.len) /\ UNCHANGED index
    BY <1>2, <1>3 DEF BeginPayload
  <2>2. pos' = Size(frame) /\ frame.len < MaxPayload /\ intact' = TRUE
    BY <1>1, <1>2, <1>3, FrameAssumption DEF IInv, TypeOK, Typed
  <2>3. /\ Implements /\ state' = "HEADERB1" /\ data' = None
        /\ alive' \in BOOLEAN /\ why' \notin {"length", "mask"}
    BY <2>1, <2>2, LastByte
  <2> QED
    BY <1>1, <2>1, <2>2, <2>3, BetweenFrames DEF IInv, TypeOK, Typed
<1>4. CASE frame.len # 0
  <2>1. /\ index' = 0 /\ data' = 0 /\ state' = "PAYLOAD"
        /\ UNCHANGED <<alive, why, got>>
    BY <1>4 DEF BeginPayload
  <2>2. InFlight'
    BY <1>1, <1>4 DEF InFlight
  <2>3. Typed'
    BY <1>1, <2>1 DEF IInv, TypeOK, Typed
  <2>4. Head(frame)' = Head(frame)
    OBVIOUS
  <2>5. Where'
    BY <1>1, <1>2, <2>1, <2>4 DEF Where
  <2>6. Sync'
    BY <1>2, <2>1, <2>2, <2>5, FrameAssumption DEF IInv, Sync, InFlight
  <2>7. Implements
    BY <2>1, <2>2 DEF Implements, Current
  <2> QED
    BY <1>1, <2>3, <2>6, <2>7, ProtocolKept DEF IInv, TypeOK
<1> QED
  BY <1>3, <1>4

\* The length is known.
LEMMA LengthKnown ==
  ASSUME IInv, alive, InFlight, ~hixie76, state \in {"HEADERB2", "LENGTHSHORT", "LENGTHLONG"},
         pos' = pos + 1, pos' = 2 + Ext(frame), garbled' = FALSE,
         UNCHANGED <<hixie76, frame, opcode, intact>>,
         hasmask' = frame.masked, length' = frame.len, lengtharray' \in Nat,
         \/ /\ frame.masked = TRUE /\ maskarray' = 0 /\ state' = "MASK"
            /\ UNCHANGED <<index, data, alive, why, got>>
         \/ frame.masked = FALSE /\ BeginPayload(frame.len) /\ UNCHANGED maskarray
  PROVE  IInv' /\ Implements
<1>1. /\ frame \in Frames /\ frame.len \in Nat /\ frame.masked \in BOOLEAN
      /\ Ext(frame) \in Nat /\ frame.form # "hixie"
      /\ Size(frame) = 2 + Ext(frame) + Key(frame) + frame.len
      /\ Key(frame) = IF frame.masked THEN 4 ELSE 0
      /\ Head(frame) = 2 + Ext(frame) + Key(frame)
  BY FrameShape DEF IInv, TypeOK, Typed, Protocol, InFlight, Size, Head, Key
<1>2. CASE frame.masked = TRUE
  <2>1. /\ maskarray' = 0 /\ state' = "MASK"
        /\ UNCHANGED <<index, data, alive, why, got>>
    BY <1>2
  <2>2. InFlight'
    BY <1>1, <1>2 DEF InFlight
  <2>3. Typed'
    <3>1. /\ frame' \in Frames /\ pos' \in Nat /\ opcode' \in Ops \cup {"STREAM", "TEXT"}
          /\ hasmask' \in BOOLEAN /\ length' \in Nat
      BY <1>1 DEF IInv, TypeOK, Typed
    <3>2. index' \in Nat /\ maskarray' \in Nat /\ data' \in Nat \cup {None}
      BY <2>1 DEF IInv, TypeOK, Typed
    <3>3. intact' \in BOOLEAN /\ alive' \in BOOLEAN
      BY <2>1 DEF IInv, TypeOK, Typed
    <3> QED
      BY <2>1, <3>1, <3>2, <3>3 DEF Typed
  <2>4. Ext(frame)' = Ext(frame)
    OBVIOUS
  <2>5. opcode' = frame.op /\ intact'
    BY DEF IInv, Sync, Where
  <2>6. Where'
    <3>1. hasmask' = TRUE /\ frame'.masked = TRUE /\ frame'.len = length'
      BY <1>2
    <3>2. pos' = 2 + Ext(frame)' + maskarray'
      BY <1>1, <2>1, <2>4
    <3> QED
      BY <2>1, <2>5, <3>1, <3>2 DEF Where
  <2>7. Sync'
    BY <2>1, <2>2, <2>5, <2>6 DEF IInv, Sync, InFlight
  <2>8. Implements
    BY <2>1, <2>2 DEF Implements, Current
  <2> QED
    BY <1>1, <2>3, <2>7, <2>8, ProtocolKept DEF IInv, TypeOK
<1>3. CASE frame.masked = FALSE
  <2>1. BeginPayload(frame.len) /\ UNCHANGED maskarray
    BY <1>3
  <2>2. maskarray' \in Nat /\ hasmask' = FALSE
    BY <1>3, <2>1 DEF IInv, TypeOK, Typed
  <2>3. pos' = Head(frame) /\ state \notin {"HEADERB1", "PAYLOAD"}
    BY <1>1, <1>3
  <2> QED
    BY <2>1, <2>2, <2>3, PayloadBegins
<1> QED
  BY <1>1, <1>2, <1>3

\* Not the start of a frame.
LEMMA InFrame ==
  ASSUME IInv, alive, InFlight, ~hixie76, state # "HEADERB1"
  PROVE  /\ Where /\ intact /\ garbled = FALSE
         /\ frame \in Frames /\ frame.len \in Nat /\ frame.masked \in BOOLEAN
         /\ Ext(frame) = (CASE frame.form = "16" -> 2 [] frame.form = "64" -> 8 [] OTHER -> 0)
         /\ Key(frame) = IF frame.masked THEN 4 ELSE 0
         /\ frame.form \in {"7", "16", "64"}
         /\ Head(frame) = 2 + Ext(frame) + Key(frame)
         /\ Size(frame) = Head(frame) + frame.len /\ Size(frame) \in Nat
  BY FrameShape DEF IInv, Sync, TypeOK, Typed, Protocol, InFlight, Size, Head, Key, Ext

LEMMA ReadB2Step == IInv /\ UNCHANGED hixie76 /\ ReadB2 => IInv' /\ Implements
<1> SUFFICES ASSUME IInv, UNCHANGED hixie76, ReadB2 PROVE IInv' /\ Implements
  OBVIOUS
<1>1. /\ alive /\ InFlight /\ ~hixie76 /\ state = "HEADERB2"
      /\ pos' = pos + 1 /\ UNCHANGED <<frame, opcode, intact>>
  BY DEF ReadB2, TakeAs
<1>2. /\ frame \in Frames /\ frame.form \in {"7", "16", "64"} /\ frame.len \in Nat
      /\ frame.masked \in BOOLEAN /\ pos = 1 /\ opcode = frame.op /\ intact
      /\ Ext(frame) = (CASE frame.form = "16" -> 2 [] frame.form = "64" -> 8 [] OTHER -> 0)
      /\ Size(frame) >= 2 + Ext(frame) /\ Size(frame) \in Nat
  BY <1>1, InFrame DEF Where
<1>3. garbled' = FALSE
  <2>1. Part("b2", 1)
    BY <1>1, <1>2 DEF Part
  <2> QED
    BY <1>1, <2>1, InFrame DEF ReadB2, TakeAs
<1>4. hasmask' = frame.masked
  BY <1>3 DEF ReadB2, Value
<1>5. CASE frame.form = "7"
  <2>1. length' = frame.len /\ AfterLength(length', hasmask') /\ UNCHANGED lengtharray
    BY <1>3, <1>5 DEF ReadB2, Value
  <2>2. \/ /\ frame.masked = TRUE /\ maskarray' = 0 /\ state' = "MASK"
           /\ UNCHANGED <<index, data, alive, why, got>>
        \/ frame.masked = FALSE /\ BeginPayload(frame.len) /\ UNCHANGED maskarray
    BY <1>2, <1>4, <2>1 DEF AfterLength, NewMaskArray
  <2>3. lengtharray' \in Nat /\ pos' = 2 + Ext(frame)
    BY <1>1, <1>2, <1>5, <2>1 DEF IInv, TypeOK, Typed
  <2> QED
    BY <1>1, <1>3, <1>4, <2>1, <2>2, <2>3, LengthKnown
<1>6. CASE frame.form # "7"
  <2>1. /\ lengtharray' = 0
        /\ state' = IF frame.form = "16" THEN "LENGTHSHORT" ELSE "LENGTHLONG"
        /\ UNCHANGED <<length, index, maskarray, data, alive, why, got>>
    BY <1>3, <1>6 DEF ReadB2, Value
  <2>7. Ext(frame) \in {2, 8} /\ (frame.form = "16" <=> Ext(frame) = 2) /\ pos' = 2
    BY <1>1, <1>2, <1>6
  <2>2. InFlight'
    BY <1>1, <1>2, <2>7 DEF InFlight
  <2>3. Typed'
    <3>1. /\ frame' \in Frames /\ pos' \in Nat /\ opcode' \in Ops \cup {"STREAM", "TEXT"}
          /\ hasmask' \in BOOLEAN /\ intact' \in BOOLEAN
      BY <1>1, <1>2, <1>4 DEF IInv, TypeOK, Typed
    <3>2. /\ length' \in Nat /\ index' \in Nat /\ maskarray' \in Nat
          /\ data' \in Nat \cup {None} /\ alive' \in BOOLEAN
      BY <2>1 DEF IInv, TypeOK, Typed
    <3> QED
      BY <1>3, <2>1, <3>1, <3>2 DEF Typed
  <2>4. Where'
    <3>1. /\ opcode' = frame'.op /\ hasmask' = frame'.masked /\ pos' = 2 + lengtharray'
          /\ lengtharray' = 0
      BY <1>1, <1>2, <1>4, <2>1, <2>7
    <3>2. \/ state' = "LENGTHSHORT" /\ frame'.form = "16"
          \/ state' = "LENGTHLONG" /\ frame'.form = "64"
      BY <1>1, <1>2, <1>6, <2>1
    <3> QED
      BY <3>1, <3>2 DEF Where
  <2>5. Sync'
    BY <1>1, <1>2, <1>3, <2>1, <2>2, <2>4 DEF IInv, Sync, InFlight
  <2>6. Implements
    BY <1>1, <2>1, <2>2 DEF Implements, Current
  <2> QED
    BY <1>1, <2>3, <2>5, <2>6, ProtocolKept DEF IInv, TypeOK
<1> QED
  BY <1>5, <1>6

LEMMA ReadLengthStep == IInv /\ UNCHANGED hixie76 /\ ReadLength => IInv' /\ Implements
<1> SUFFICES ASSUME IInv, UNCHANGED hixie76, ReadLength PROVE IInv' /\ Implements
  OBVIOUS
<1>1. /\ alive /\ InFlight /\ ~hixie76 /\ state \in {"LENGTHSHORT", "LENGTHLONG"}
      /\ pos' = pos + 1 /\ UNCHANGED <<frame, opcode, hasmask, intact>>
      /\ lengtharray' = lengtharray + 1
  BY DEF ReadLength, TakeAs
<1>6. /\ Where /\ intact /\ frame \in Frames /\ frame.len \in Nat /\ frame.masked \in BOOLEAN
      /\ Size(frame) = 2 + Ext(frame) + Key(frame) + frame.len /\ Size(frame) \in Nat
      /\ Key(frame) \in {0, 4}
      /\ frame.form = "16" => Ext(frame) = 2
      /\ frame.form = "64" => Ext(frame) = 8
  BY <1>1, InFrame
<1>7. lengtharray \in Nat
  BY DEF IInv, TypeOK, Typed
<1>2. /\ hasmask = frame.masked /\ opcode = frame.op
      /\ pos = 2 + lengtharray /\ lengtharray < Width /\ Ext(frame) = Width
      /\ Width \in {2, 8} /\ Size(frame) >= 2 + Width
      /\ state = "LENGTHSHORT" => frame.form = "16" /\ Width = 2
      /\ state = "LENGTHLONG" => frame.form = "64" /\ Width = 8
  BY <1>1, <1>6, <1>7 DEF Where, Width
<1>3. garbled' = FALSE
  <2>1. Part("len", lengtharray + 1)
    BY <1>1, <1>2, <1>6, <1>7 DEF Part
  <2> QED
    BY <1>1, <2>1, InFrame DEF ReadLength, TakeAs
<1>4. CASE lengtharray' = Width
  <2>8. ~(lengtharray' > Width)
    BY <1>1, <1>2, <1>6, <1>7, <1>4
  <2>1. length' = frame.len /\ AfterLength(length', hasmask)
    BY <1>1, <1>2, <1>6, <1>7, <1>3, <1>4, <2>8 DEF ReadLength, Value
  <2>2. \/ /\ frame.masked = TRUE /\ maskarray' = 0 /\ state' = "MASK"
           /\ UNCHANGED <<index, data, alive, why, got>>
        \/ frame.masked = FALSE /\ BeginPayload(frame.len) /\ UNCHANGED maskarray
    BY <1>2, <1>6, <2>1 DEF AfterLength, NewMaskArray
  <2>3. lengtharray' \in Nat /\ pos' = 2 + Ext(frame) /\ hasmask' = frame.masked
    BY <1>1, <1>2, <1>6, <1>7, <1>4
  <2> QED
    BY <1>1, <1>3, <2>1, <2>2, <2>3, LengthKnown
<1>5. CASE lengtharray' # Width
  <2>8. ~(lengtharray' > Width)
    BY <1>1, <1>2, <1>6, <1>7
  <2>1. UNCHANGED <<state, length, index, maskarray, data, alive, why, got>>
    BY <1>5, <2>8 DEF ReadLength
  <2>2. lengtharray' < Width /\ pos' = 2 + lengtharray' /\ lengtharray' \in Nat
    BY <1>1, <1>2, <1>6, <1>7, <1>5
  <2>3. InFlight'
    BY <1>1, <1>2, <1>6, <1>7, <2>2 DEF InFlight
  <2>4. Typed'
    <3>1. /\ frame' \in Frames /\ pos' \in Nat /\ opcode' \in Ops \cup {"STREAM", "TEXT"}
          /\ hasmask' \in BOOLEAN /\ intact' \in BOOLEAN
      BY <1>1, <1>6 DEF IInv, TypeOK, Typed
    <3>2. /\ length' \in Nat /\ index' \in Nat /\ maskarray' \in Nat
          /\ data' \in Nat \cup {None} /\ alive' \in BOOLEAN
      BY <2>1 DEF IInv, TypeOK, Typed
    <3> QED
      BY <1>1, <1>3, <2>1, <2>2, <3>1, <3>2 DEF Typed
  <2>5. Where'
    BY <1>1, <1>2, <1>6, <1>7, <2>1, <2>2 DEF Where
  <2>6. Sync'
    BY <1>1, <1>2, <1>6, <1>7, <1>3, <2>1, <2>3, <2>5 DEF IInv, Sync
  <2>7. Implements
    BY <1>1, <2>1, <2>3 DEF Implements, Current
  <2> QED
    BY <1>1, <2>4, <2>6, <2>7, ProtocolKept DEF IInv, TypeOK
<1> QED
  BY <1>4, <1>5

LEMMA ReadMaskStep == IInv /\ UNCHANGED hixie76 /\ ReadMask => IInv' /\ Implements
<1> SUFFICES ASSUME IInv, UNCHANGED hixie76, ReadMask PROVE IInv' /\ Implements
  OBVIOUS
<1>1. /\ alive /\ InFlight /\ ~hixie76 /\ state = "MASK"
      /\ pos' = pos + 1 /\ UNCHANGED <<frame, opcode, hasmask, length, lengtharray, intact>>
      /\ maskarray' = maskarray + 1
  BY DEF ReadMask, TakeAs
<1>6. /\ Where /\ intact /\ frame \in Frames /\ frame.len \in Nat
      /\ Size(frame) = Head(frame) + frame.len /\ Size(frame) \in Nat
      /\ Head(frame) = 2 + Ext(frame) + Key(frame) /\ Ext(frame) \in Nat
      /\ frame.masked = TRUE => Key(frame) = 4
  BY <1>1, InFrame
<1>7. maskarray \in Nat /\ lengtharray \in Nat
  BY DEF IInv, TypeOK, Typed
<1>2. /\ frame.masked = TRUE /\ Key(frame) = 4 /\ Head(frame) = 6 + Ext(frame)
      /\ hasmask = frame.masked /\ opcode = frame.op /\ length = frame.len
      /\ maskarray < 4 /\ pos = 2 + Ext(frame) + maskarray
  BY <1>1, <1>6, <1>7 DEF Where
<1>3. garbled' = FALSE
  <2>1. Part("key", maskarray + 1)
    BY <1>1, <1>2, <1>6, <1>7 DEF Part
  <2> QED
    BY <1>1, <2>1, InFrame DEF ReadMask, TakeAs
<1>4. CASE maskarray' = 4
  <2>1. BeginPayload(frame.len)
    BY <1>2, <1>4 DEF ReadMask
  <2>2. /\ pos' = Head(frame) /\ maskarray' \in Nat /\ lengtharray' \in Nat
        /\ hasmask' = frame.masked /\ length' = frame.len
    BY <1>1, <1>2, <1>6, <1>7, <1>4
  <2> QED
    BY <1>1, <1>3, <1>4, <2>1, <2>2, PayloadBegins
<1>5. CASE maskarray' # 4
  <2>8. ~(maskarray' > 4)
    BY <1>1, <1>2, <1>6, <1>7, <1>6, <1>7
  <2>1. UNCHANGED <<state, index, data, alive, why, got>>
    BY <1>5, <2>8 DEF ReadMask
  <2>2. maskarray' < 4 /\ pos' = 2 + Ext(frame) + maskarray' /\ maskarray' \in Nat
    BY <1>1, <1>2, <1>6, <1>7, <1>5
  <2>3. InFlight'
    BY <1>1, <1>2, <1>6, <1>7, <2>2 DEF InFlight
  <2>4. Typed'
    <3>1. /\ frame' \in Frames /\ pos' \in Nat /\ opcode' \in Ops \cup {"STREAM", "TEXT"}
          /\ hasmask' \in BOOLEAN /\ intact' \in BOOLEAN
      BY <1>1, <1>6 DEF IInv, TypeOK, Typed
    <3>2. /\ length' \in Nat /\ index' \in Nat /\ lengtharray' \in Nat
          /\ data' \in Nat \cup {None} /\ alive' \in BOOLEAN
      BY <1>1, <2>1 DEF IInv, TypeOK, Typed
    <3> QED
      BY <1>1, <1>3, <2>1, <2>2, <3>1, <3>2 DEF Typed
  <2>5. Where'
    BY <1>1, <1>2, <1>6, <1>7, <2>1, <2>2 DEF Where
  <2>6. Sync'
    BY <1>1, <1>2, <1>6, <1>7, <1>3, <2>1, <2>3, <2>5 DEF IInv, Sync
  <2>7. Implements
    BY <1>1, <2>1, <2>3 DEF Implements, Current
  <2> QED
    BY <1>1, <2>4, <2>6, <2>7, ProtocolKept DEF IInv, TypeOK
<1> QED
  BY <1>4, <1>5

LEMMA ReadPayloadStep == IInv /\ UNCHANGED hixie76 /\ ReadPayload => IInv' /\ Implements
<1> SUFFICES ASSUME IInv, UNCHANGED hixie76, ReadPayload PROVE IInv' /\ Implements
  OBVIOUS
<1>1. /\ alive /\ InFlight /\ ~hixie76 /\ state = "PAYLOAD" /\ pos' = pos + 1
      /\ UNCHANGED <<frame, opcode, hasmask, length, lengtharray, maskarray>>
  BY DEF ReadPayload, TakeAs
<1>6. /\ Where /\ intact /\ frame \in Frames /\ frame.len \in Nat /\ frame.masked \in BOOLEAN
      /\ Size(frame) = Head(frame) + frame.len /\ Size(frame) \in Nat
      /\ frame.form \in {"7", "16", "64"} /\ Head(frame) \in Nat
  BY <1>1, InFrame, FrameShape
<1>2. /\ opcode = frame.op /\ hasmask = frame.masked /\ length = frame.len
      /\ data = index /\ pos = Head(frame) + data /\ data \in Nat
      /\ frame.masked = TRUE => maskarray = 4
  BY <1>1, <1>6 DEF Where, IInv, TypeOK, Typed, Sync
<1>7. data + 1 <= frame.len
  BY <1>1, <1>2, <1>6 DEF InFlight
<1>3. garbled' = FALSE
  <2>1. Part("data", data + 1)
    BY <1>1, <1>2, <1>6, <1>7 DEF Part
  <2> QED
    BY <1>1, <2>1, InFrame DEF ReadPayload, TakeAs
<1>8. intact' = TRUE
  BY <1>1, <1>2, <1>6 DEF ReadPayload, Unmasked
<1>9. /\ frame' \in Frames /\ pos' \in Nat /\ pos' = Head(frame) + (data + 1)
      /\ opcode' \in Ops \cup {"STREAM", "TEXT"} /\ hasmask' \in BOOLEAN
      /\ length' \in Nat /\ lengtharray' \in Nat /\ maskarray' \in Nat
  BY <1>1, <1>2, <1>6 DEF IInv, TypeOK, Typed
<1>10. MaxPayload \in Nat
  BY FrameAssumption
<1>4. CASE TooLong(data + 1)
  <2>1. /\ data' = data + 1 /\ alive' = FALSE /\ why' = "payload"
        /\ UNCHANGED <<state, index, got>>
    BY <1>4 DEF ReadPayload, Raise
  <2>2. Typed'
    <3>1. data' \in Nat /\ index' \in Nat /\ state' = "PAYLOAD"
      BY <1>1, <1>2, <2>1
    <3>3. alive' \in BOOLEAN
      BY <2>1 DEF IInv, TypeOK, Typed
    <3>2. intact' \in BOOLEAN /\ garbled' \in BOOLEAN
      BY <1>3, <1>8
    <3> QED
      BY <1>9, <3>1, <3>2, <3>3 DEF Typed
  <2>3. Sync'
    BY <1>1, <1>2, <1>3, <1>6, <2>1, FrameShape, FrameAssumption DEF IInv, Sync, TypeOK, Typed
  <2>4. frame.len >= MaxPayload
    BY <1>2, <1>4, <1>6, <1>7, <1>10 DEF TooLong
  <2>5. Current = frame /\ Current' \in {frame, None}
    BY <1>1 DEF Current
  <2>6. Abstract!Refuse
    BY <1>1, <1>6, <2>1, <2>4, <2>5, FrameShape DEF Abstract!Refuse, Current
  <2> QED
    BY <1>1, <2>2, <2>3, <2>6, ProtocolKept DEF IInv, TypeOK, Implements
<1>5. CASE ~TooLong(data + 1) /\ data + 1 = frame.len
  <2>1. HandlePacket(frame.op, frame.len) /\ UNCHANGED index
    BY <1>2, <1>5 DEF ReadPayload, Last
  <2>2. pos' = Size(frame) /\ frame.len < MaxPayload
    BY <1>2, <1>5, <1>6, <1>9, <1>10 DEF TooLong
  <2>3. /\ Implements /\ state' = "HEADERB1" /\ data' = None
        /\ alive' \in BOOLEAN /\ why' \notin {"length", "mask"}
    BY <1>1, <1>3, <1>8, <2>1, <2>2, LastByte
  <2>4. index' \in Nat /\ intact' \in BOOLEAN
    BY <1>8, <2>1 DEF IInv, TypeOK, Typed
  <2> QED
    BY <1>1, <1>3, <1>6, <1>9, <2>2, <2>3, <2>4, BetweenFrames
<1>11. CASE ~TooLong(data + 1) /\ data + 1 # frame.len
  <2>1. /\ index' = index + 1 /\ data' = data + 1
        /\ UNCHANGED <<state, alive, why, got>>
    BY <1>2, <1>11 DEF ReadPayload, Last
  <2>2. InFlight'
    BY <1>1, <1>2, <1>6, <1>7, <1>9, <1>11 DEF InFlight
  <2>3. Typed'
    <3>1. data' \in Nat /\ index' \in Nat /\ state' = "PAYLOAD"
      BY <1>1, <1>2, <2>1
    <3>3. alive' \in BOOLEAN
      BY <2>1 DEF IInv, TypeOK, Typed
    <3>2. intact' \in BOOLEAN /\ garbled' \in BOOLEAN
      BY <1>3, <1>8
    <3> QED
      BY <1>9, <3>1, <3>2, <3>3 DEF Typed
  <2>4. Head(frame)' = Head(frame)
    BY <1>1
  <2>5. Where'
    BY <1>1, <1>2, <1>9, <2>1, <2>4 DEF Where
  <2>6. Sync'
    BY <1>1, <1>2, <1>3, <1>6, <1>8, <2>1, <2>2, <2>5, FrameShape, FrameAssumption
       DEF IInv, Sync
  <2>7. Implements
    BY <1>1, <2>1, <2>2 DEF Implements, Current
  <2> QED
    BY <1>1, <2>3, <2>6, <2>7, ProtocolKept DEF IInv, TypeOK
<1> QED
  BY <1>4, <1>5, <1>11

LEMMA ReadHixieStartStep == IInv /\ UNCHANGED hixie76 /\ ReadHixieStart => IInv' /\ Implements
<1> SUFFICES ASSUME IInv, UNCHANGED hixie76, ReadHixieStart PROVE IInv' /\ Implements
  OBVIOUS
<1>1. /\ frame \in Frames /\ pos = 0 /\ alive /\ InFlight /\ hixie76
      /\ Size(frame) \in Nat /\ Size(frame) >= 2
  BY FrameShape DEF ReadHixieStart, TakeAs, IInv, TypeOK, Typed, Sync, InFlight
<1>2. garbled' = FALSE /\ pos' = 1 /\ frame' = frame
  BY <1>1 DEF ReadHixieStart, TakeAs, IInv, Sync, TypeOK, Typed, Protocol, Part
<1>3. /\ state' = "PAYLOAD" /\ data' = 0 /\ intact' = TRUE
      /\ UNCHANGED <<opcode, hasmask, length, index, lengtharray, maskarray, alive, why, got>>
  BY DEF ReadHixieStart
<1>4. InFlight'
  BY <1>1, <1>2 DEF InFlight
<1>5. Typed'
  BY <1>1, <1>2, <1>3 DEF IInv, TypeOK, Typed
<1>6. Sync'
  BY <1>1, <1>2, <1>3, <1>4, FrameShape, FrameAssumption DEF IInv, Sync, WhereHixie
<1>7. Implements
  BY <1>1, <1>2, <1>3, <1>4 DEF Implements, Current
<1> QED
  BY <1>1, <1>2, <1>5, <1>6, <1>7, ProtocolKept DEF IInv, TypeOK

LEMMA ReadHixiePayloadStep == IInv /\ UNCHANGED hixie76 /\ ReadHixiePayload => IInv' /\ Implements
<1> SUFFICES ASSUME IInv, UNCHANGED hixie76, ReadHixiePayload PROVE IInv' /\ Implements
  OBVIOUS
<1>1. /\ alive /\ InFlight /\ hixie76 /\ state = "PAYLOAD" /\ pos' = pos + 1
      /\ UNCHANGED <<frame, hasmask, index, lengtharray, maskarray, intact>>
  BY DEF ReadHixiePayload, TakeAs
<1>2. /\ frame \in Frames /\ frame.len \in Nat /\ frame.op = "TEXT"
      /\ Head(frame) = 1 /\ Size(frame) = frame.len + 2 /\ Size(frame) \in Nat
  BY <1>1, FrameShape DEF IInv, TypeOK, Typed, Protocol, InFlight, Head, Size
<1>3. pos = 1 + data /\ data \in Nat /\ intact = TRUE /\ garbled = FALSE
  BY <1>1 DEF IInv, TypeOK, Typed, Sync, WhereHixie
<1>4. Part("end", 1) <=> data = frame.len
  BY <1>1, <1>2, <1>3 DEF Part
<1>9. /\ frame' \in Frames /\ pos' \in Nat /\ pos' = 2 + data
      /\ hasmask' \in BOOLEAN /\ index' \in Nat /\ intact' \in BOOLEAN
      /\ lengtharray' \in Nat /\ maskarray' \in Nat
  BY <1>1, <1>2, <1>3 DEF IInv, TypeOK, Typed
<1>10. MaxPayload \in Nat
  BY FrameAssumption
<1>5. CASE data = frame.len
  <2>1. /\ opcode' = "TEXT" /\ length' = data /\ HandlePacket(frame.op, frame.len)
        /\ garbled' = FALSE
    BY <1>1, <1>2, <1>3, <1>4, <1>5 DEF ReadHixiePayload, TakeAs
  <2>2. pos' = Size(frame) /\ frame.len < MaxPayload /\ intact' = TRUE
    BY <1>1, <1>2, <1>3, <1>5, <1>9 DEF IInv, Sync, WhereHixie
  <2>3. /\ Implements /\ state' = "HEADERB1" /\ data' = None
        /\ alive' \in BOOLEAN /\ why' \notin {"length", "mask"}
    BY <1>1, <2>1, <2>2, LastByte
  <2>4. opcode' \in Ops \cup {"STREAM", "TEXT"} /\ length' \in Nat
    BY <1>3, <2>1
  <2> QED
    BY <1>1, <1>2, <1>9, <2>1, <2>2, <2>3, <2>4, BetweenFrames
<1>6. CASE data # frame.len
  <2>1. /\ data' = data + 1 /\ UNCHANGED <<state, opcode, length, got>>
        /\ IF TooLong(data') THEN Raise("payload") ELSE UNCHANGED <<alive, why>>
    BY <1>1, <1>4, <1>6 DEF ReadHixiePayload
  <2>2. garbled' = FALSE /\ data + 1 <= frame.len
    <3>1. data + 1 <= frame.len
      BY <1>1, <1>2, <1>3, <1>6 DEF InFlight
    <3>2. Part("data", data + 1)
      BY <1>2, <1>3, <3>1 DEF Part
    <3> QED
      BY <1>3, <1>4, <1>6, <3>1, <3>2 DEF ReadHixiePayload, TakeAs
  <2>3. alive' \in BOOLEAN /\ why' \notin {"length", "mask"}
    BY <1>1, <2>1 DEF Raise, IInv, Sync
  <2>4. Typed'
    <3>1. /\ data' \in Nat /\ state' = "PAYLOAD" /\ opcode' \in Ops \cup {"STREAM", "TEXT"}
          /\ length' \in Nat
      BY <1>1, <1>3, <2>1 DEF IInv, TypeOK, Typed
    <3> QED
      BY <1>9, <2>2, <2>3, <3>1 DEF Typed
  <2>5. InFlight'
    BY <1>1, <1>2, <1>3, <1>9, <2>2 DEF InFlight
  <2>6. alive' => data' < MaxPayload
    <3>1. CASE TooLong(data')
      BY <2>1, <3>1 DEF Raise
    <3>2. CASE ~TooLong(data')
      BY <1>3, <1>10, <2>1, <3>2 DEF TooLong
    <3> QED
      BY <3>1, <3>2
  <2>7. data' # None /\ data' \in Nat /\ frame' # None
    BY <1>1, <1>2, <1>3, <2>1, FrameShape, FrameAssumption
  <2>8. alive' => WhereHixie'
    BY <1>1, <1>3, <1>9, <2>1, <2>6 DEF WhereHixie
  <2>9. Sync'
    BY <1>1, <1>3, <2>1, <2>2, <2>3, <2>5, <2>7, <2>8 DEF Sync
  <2>10. Implements
    <3>1. Current = frame /\ Current' = frame
      BY <1>1, <2>5 DEF Current
    <3>2. CASE TooLong(data')
      <4>1. frame.len >= MaxPayload /\ alive' = FALSE
        BY <1>2, <1>3, <1>10, <2>1, <2>2, <3>2 DEF Raise, TooLong
      <4>2. Abstract!Refuse
        BY <1>1, <1>2, <2>1, <3>1, <4>1, FrameShape DEF Abstract!Refuse, Current
      <4> QED
        BY <4>2 DEF Implements
    <3>3. CASE ~TooLong(data')
      BY <2>1, <3>1, <3>3 DEF Implements
    <3> QED
      BY <3>2, <3>3
  <2> QED
    BY <1>1, <2>4, <2>9, <2>10, ProtocolKept DEF IInv, TypeOK
<1> QED
  BY <1>5, <1>6

LEMMA Stutter == IInv /\ UNCHANGED vars => IInv' /\ UNCHANGED <<Current, alive, got>>
<1> SUFFICES ASSUME IInv, UNCHANGED vars PROVE IInv' /\ UNCHANGED <<Current, alive, got>>
  OBVIOUS
<1>1. Typed'
  BY DEF IInv, TypeOK, Typed, vars, wire, parser
<1>2. InFlight' = InFlight /\ Current' = Current
  BY DEF InFlight, Current, vars, wire
<1>3. Where' = Where /\ WhereHixie' = WhereHixie
  BY DEF Where, WhereHixie, vars, wire, parser
<1>4. Sync'
  BY <1>2, <1>3 DEF IInv, Sync, vars, wire, parser
<1>5. Protocol'
  BY ProtocolKept DEF vars, wire
<1> QED
  BY <1>1, <1>2, <1>4, <1>5 DEF IInv, TypeOK, vars

-----------------------------------------------------------------------------
LEMMA StepIInv == IInv /\ [Next]_vars => IInv' /\ [Abstract!Next]_<<Current, alive, got>>
<1> SUFFICES ASSUME IInv, [Next]_vars
             PROVE  IInv' /\ [Abstract!Next]_<<Current, alive, got>>
  OBVIOUS
<1>1. CASE Read /\ UNCHANGED hixie76
  <2>1. IInv' /\ Implements
    BY <1>1, ReadB1Step, ReadB2Step, ReadLengthStep, ReadMaskStep, ReadPayloadStep,
       ReadHixieStartStep, ReadHixiePayloadStep DEF Read
  <2> QED
    BY <2>1 DEF Implements, Abstract!Next
<1>2. ASSUME NEW f \in Frames, UNCHANGED hixie76, Send(f)
      PROVE  IInv' /\ Abstract!Next
  BY <1>2, SendStep
<1>3. CASE UNCHANGED vars
  BY <1>3, Stutter
<1> QED
  BY <1>1, <1>2, <1>3 DEF Next

LEMMA SpecIInv == Spec => []IInv
<1>1. IInv /\ [Next]_vars => IInv'
  BY StepIInv
<1> QED
  BY <1>1, InitIInv, PTL DEF Spec

\* Every variable holds a value of its type.
THEOREM TypeCorrect == Spec => []TypeOK
<1>1. IInv => TypeOK
  BY DEF IInv
<1> QED
  BY <1>1, SpecIInv, PTL

\* No byte is taken for what it is not, whatever frames follow one another.
THEOREM StaysInSync == Spec => []InSync
<1>1. IInv => InSync
  BY DEF IInv, Sync, InSync
<1> QED
  BY <1>1, SpecIInv, PTL

\* The checks of lengtharray and of maskarray against their sizes never fail.
THEOREM GuardsDead == Spec => []GuardsNeverFire
<1>1. IInv => GuardsNeverFire
  BY DEF IInv, Sync, GuardsNeverFire
<1> QED
  BY <1>1, SpecIInv, PTL

\* The parser implements FrameStream: every frame is handled once, at its last
\* byte, as what it was sent as, or refused for its size.
THEOREM ImplementsFrameStream == Spec => Promise
<1>1. Init => Abstract!Init
  BY FrameAssumption DEF Init, Abstract!Init, InFlight
<1>2. IInv /\ [Next]_vars => [Abstract!Next]_<<Current, alive, got>>
  BY StepIInv
<1> QED
  BY <1>1, <1>2, SpecIInv, PTL DEF Spec, Promise, Abstract!Spec, Current

\* Every message sendMessage writes is a frame the parser of the other side
\* reads: the length it chooses a form for fits that form.
THEOREM SentFramesFit ==
  ASSUME NEW op \in Ops \cap {"TEXT", "BINARY"}, NEW n \in Lengths
  PROVE  SendMessage(op, n) \in Frames
<1>1. SendMessage(op, n) \in Frame
  BY DEF SendMessage, Frame
<1>2. n \in Nat
  BY FrameAssumption
<1> QED
  BY <1>1, <1>2, FrameAssumption DEF SendMessage, Frames, Fits
=============================================================================
