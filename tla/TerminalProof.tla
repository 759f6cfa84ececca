---------------------------- MODULE TerminalProof ----------------------------
(***************************************************************************)
(* What holds of Terminal for any characters, lines and requests.  The     *)
(* argument for the line: while nothing has come between the user and the  *)
(* line, insert is set exactly when the cursor is left of its end, so a    *)
(* key is either inserted before a character or written behind the last.   *)
(* The argument for the requests: a socket only ever has one of four       *)
(* values.                                                                 *)
(***************************************************************************)
EXTENDS Terminal, SequenceTheorems, TLAPS

\* While nothing is in between, the editor is the one the user believes in.
Editing ==
  why = {} => line = meant /\ c = meantC /\ (insert = TRUE <=> c < Len(line))

\* The values of a socket: before, while and after it is used.
Ended(err, reports) ==
  [readyState |-> "done", error |-> err, timer |-> "null", request |-> "null",
   callback |-> "null", shown |-> reports]
Answered == Ended("OK", <<"answer">>)
TimedOut == Ended("TIMEOUT", <<"timedOut", "failed">>)
SocketStates == {NewSocket, SentSocket, Answered, TimedOut}
SocketsOK == soc \in [Requests -> SocketStates]

\* The editor's own variables, and the user's.
EditorOK ==
  /\ line \in Lines /\ c \in 0 .. Len(line) /\ insert \in BOOLEAN
UserOK ==
  /\ meant \in Lines /\ meantC \in 0 .. Len(meant)
  /\ why \subseteq {"left", "cut", "edited"}
HistoryOK ==
  history \in Seq(Lines) /\ histPtr \in 0 .. Len(history) /\ lastLine \in Lines

IInv == EditorOK /\ UserOK /\ HistoryOK /\ Editing

-----------------------------------------------------------------------------
\* A function on an initial segment is a sequence of that length.
LEMMA FunctionIsLine ==
  ASSUME NEW S, NEW n \in Nat, NEW f \in [1 .. n -> S]
  PROVE  f \in Seq(S) /\ Len(f) = n /\ DOMAIN f = 1 .. n
<1>1. f \in Seq(S)
  BY SeqDef
<1>2. DOMAIN f = 1 .. n /\ DOMAIN f = 1 .. Len(f) /\ Len(f) \in Nat
  BY <1>1, LenProperties
<1>. QED BY <1>1, <1>2

\* A line is a function, and empty when its length is zero.
LEMMA LineIsFunction ==
  ASSUME NEW l \in Lines
  PROVE  /\ Len(l) \in Nat /\ l \in [1 .. Len(l) -> Chars] /\ DOMAIN l = 1 .. Len(l)
         /\ l = <<>> <=> Len(l) = 0
BY LenProperties, EmptySeq DEF Lines

\* Typing the ideal way adds a character.
LEMMA InsertedLine ==
  ASSUME NEW l \in Lines, NEW k \in 0 .. Len(l), NEW ch \in Chars
  PROVE  Inserted(l, k, ch) \in Lines /\ Len(Inserted(l, k, ch)) = Len(l) + 1
<1>1. Len(l) + 1 \in Nat /\ Inserted(l, k, ch) \in [1 .. Len(l) + 1 -> Chars]
  BY LineIsFunction DEF Inserted
<1>. QED BY <1>1, FunctionIsLine DEF Lines

\* Removing the k-th character.
LEMMA RemovedLine ==
  ASSUME NEW l \in Lines, NEW k \in 1 .. Len(l)
  PROVE  Removed(l, k) \in Lines /\ Len(Removed(l, k)) = Len(l) - 1
<1>1. Len(l) - 1 \in Nat /\ Removed(l, k) \in [1 .. Len(l) - 1 -> Chars]
  BY LineIsFunction DEF Removed
<1>. QED BY <1>1, FunctionIsLine DEF Lines

\* Moving the rest of the line is a line of the row again.
LEMMA ScrolledLine ==
  ASSUME NEW l \in Lines, NEW k \in 0 .. Len(l)
  PROVE  /\ ScrollRight(l, k) \in Lines
         /\ Len(ScrollRight(l, k)) = IF l = <<>> THEN 0 ELSE Len(l) + 1
<1>1. CASE l = <<>>
  BY <1>1, LineIsFunction DEF ScrollRight
<1>2. CASE l # <<>>
  <2>1. Len(l) + 1 \in Nat /\ Len(l) >= 1 /\ l \in [1 .. Len(l) -> Chars]
    BY <1>2, LineIsFunction
  <2>2. ScrollRight(l, k) \in [1 .. Len(l) + 1 -> Chars]
    <3> DEFINE from == IF k < Len(l) THEN k + 1 ELSE 1
    <3>1. from \in 1 .. Len(l)
      BY <2>1
    <3>2. ScrollRight(l, k)
            = [i \in 1 .. Len(l) + 1 |-> IF i <= from THEN l[i] ELSE l[i - 1]]
      BY <1>2 DEF ScrollRight
    <3> HIDE DEF from
    <3>3. \A i \in 1 .. Len(l) + 1 : (IF i <= from THEN l[i] ELSE l[i - 1]) \in Chars
      BY <2>1, <3>1
    <3>. QED BY <3>2, <3>3
  <2>. QED BY <1>2, <2>1, <2>2, FunctionIsLine DEF Lines
<1>. QED BY <1>1, <1>2

\* Writing at the cursor leaves a line with the cursor in it.
LEMMA WrittenLine ==
  ASSUME NEW l \in Lines, NEW k \in 0 .. Len(l), NEW ch \in Chars
  PROVE  /\ CharOut(l, k, ch) \in Lines
         /\ Len(CharOut(l, k, ch)) = IF k < Len(l) THEN Len(l) ELSE k + 1
<1> DEFINE n == IF k < Len(l) THEN Len(l) ELSE k + 1
<1>1. n \in Nat /\ CharOut(l, k, ch) \in [1 .. n -> Chars]
  BY LineIsFunction DEF CharOut
<1>2. CharOut(l, k, ch) \in Lines /\ Len(CharOut(l, k, ch)) = n
  BY <1>1, FunctionIsLine DEF Lines
<1>. QED BY <1>2

\* A key, whatever insert says.
LEMMA TypedLine ==
  ASSUME NEW l \in Lines, NEW k \in 0 .. Len(l), NEW ins \in BOOLEAN, NEW ch \in Chars
  PROVE  Typed(l, k, ins, ch) \in Lines /\ k + 1 \in 0 .. Len(Typed(l, k, ins, ch))
<1> DEFINE m == IF ins THEN ScrollRight(l, k) ELSE l
<1>1. m \in Lines /\ Len(m) \in Nat /\ Len(l) \in Nat /\ Len(m) >= Len(l)
  BY ScrolledLine, LineIsFunction
<1>2. k \in 0 .. Len(m)
  BY <1>1
<1> HIDE DEF m
<1>3. CharOut(m, k, ch) \in Lines /\ k + 1 <= Len(CharOut(m, k, ch))
  BY <1>1, <1>2, WrittenLine
<1>4. Typed(l, k, ins, ch) = CharOut(m, k, ch)
  BY DEF Typed, m
<1>. QED BY <1>1, <1>3, <1>4, LineIsFunction

\* With insert set exactly inside the line, a key does what the user means.
LEMMA TypedAsMeant ==
  ASSUME NEW l \in Lines, NEW k \in 0 .. Len(l), NEW ins \in BOOLEAN, NEW ch \in Chars,
         ins = TRUE <=> k < Len(l)
  PROVE  Typed(l, k, ins, ch) = Inserted(l, k, ch)
<1>0. Len(l) \in Nat
  BY LineIsFunction
<1>1. CASE k < Len(l)
  <2>1. l # <<>> /\ ins = TRUE
    BY <1>0, <1>1, LineIsFunction
  <2>2. ScrollRight(l, k)
          = [i \in 1 .. Len(l) + 1 |-> IF i <= k + 1 THEN l[i] ELSE l[i - 1]]
    BY <1>1, <2>1 DEF ScrollRight
  <2>3. Len(ScrollRight(l, k)) = Len(l) + 1
    BY <2>1, ScrolledLine
  <2>4. Typed(l, k, ins, ch)
          = [i \in 1 .. Len(l) + 1 |-> IF i = k + 1 THEN ch ELSE ScrollRight(l, k)[i]]
    <3>1. k < Len(l) + 1
      BY <1>0, <1>1
    <3>. QED BY <2>1, <2>3, <3>1 DEF Typed, CharOut
  <2>5. \A i \in 1 .. Len(l) + 1 :
          (IF i = k + 1 THEN ch ELSE ScrollRight(l, k)[i])
             = (IF i <= k THEN l[i] ELSE IF i = k + 1 THEN ch ELSE l[i - 1])
    BY <1>0, <2>2
  <2>. QED BY <2>4, <2>5 DEF Inserted
<1>2. CASE k = Len(l)
  <2>1. ins = FALSE /\ ~(k < Len(l))
    BY <1>0, <1>2
  <2>2. Typed(l, k, ins, ch) = [i \in 1 .. Len(l) + 1 |-> IF i = k + 1 THEN ch ELSE l[i]]
    BY <1>2, <2>1 DEF Typed, CharOut
  <2>3. \A i \in 1 .. Len(l) + 1 :
          (IF i = k + 1 THEN ch ELSE l[i])
             = (IF i <= k THEN l[i] ELSE IF i = k + 1 THEN ch ELSE l[i - 1])
    BY <1>0, <1>2
  <2>. QED BY <2>2, <2>3 DEF Inserted
<1>. QED BY <1>0, <1>1, <1>2

-----------------------------------------------------------------------------
\* The user's picture keeps its type when what it is set to has it.
LEMMA BelievedKept ==
  ASSUME NEW l \in Lines, NEW k \in 0 .. Len(l), Believed(l, k),
         why' \subseteq {"left", "cut", "edited"}
  PROVE  UserOK' /\ (why' = {} => meant' = l /\ meantC' = k)
<1>1. <<>> \in Lines /\ Len(<<>>) = 0
  BY EmptySeq DEF Lines
<1>2. CASE why' = {}
  BY <1>2 DEF Believed, UserOK
<1>3. CASE why' # {}
  <2>1. meant' = <<>> /\ meantC' = 0
    BY <1>3 DEF Believed
  <2>2. 0 \in 0 .. Len(<<>>)
    BY <1>1
  <2>. QED BY <1>1, <1>3, <2>1, <2>2 DEF UserOK
<1>. QED BY <1>2, <1>3

\* A line put in the place of the one typed: recall, Return.
LEMMA ShownKept ==
  ASSUME NEW l \in Lines, Shown(l)
  PROVE  EditorOK' /\ UserOK' /\ Editing'
<1>1. line' = l /\ c' = Len(l) /\ insert' = FALSE /\ why' = {} /\ Believed(l, Len(l))
  BY DEF Shown
<1>2. Len(l) \in Nat /\ Len(l) \in 0 .. Len(l)
  BY LineIsFunction
<1>3. UserOK' /\ meant' = l /\ meantC' = Len(l)
  BY <1>1, <1>2, BelievedKept
<1>4. EditorOK'
  BY <1>1, <1>2 DEF EditorOK
<1>5. Editing'
  BY <1>1, <1>2, <1>3 DEF Editing
<1>. QED BY <1>3, <1>4, <1>5

\* The editor's operations on the line.
LEMMA EditsKept ==
  ASSUME IInv,
         (\E ch \in Chars : Key(ch)) \/ Left \/ Right \/ backspace \/ fwdDelete
  PROVE  EditorOK' /\ UserOK' /\ Editing'
<1>0. /\ line \in Lines /\ Len(line) \in Nat /\ c \in 0 .. Len(line) /\ insert \in BOOLEAN
      /\ meant \in Lines /\ Len(meant) \in Nat /\ meantC \in 0 .. Len(meant)
      /\ why \subseteq {"left", "cut", "edited"}
  BY LineIsFunction DEF IInv, EditorOK, UserOK
<1>1. ASSUME NEW ch \in Chars, Key(ch)
      PROVE  EditorOK' /\ UserOK' /\ Editing'
  <2> DEFINE m == Inserted(meant, meantC, ch)
             t == Typed(line, c, insert, ch)
  <2>1. /\ line' = t /\ c' = c + 1 /\ insert' = insert /\ why' = why
        /\ Believed(m, meantC + 1)
    BY <1>1 DEF Key
  <2>2. t \in Lines /\ c + 1 \in 0 .. Len(t)
    BY <1>0, TypedLine
  <2>3. m \in Lines /\ meantC + 1 \in 0 .. Len(m) /\ Len(m) = Len(meant) + 1
    BY <1>0, InsertedLine
  <2>4. why = {} => t = m /\ c = meantC /\ line = meant /\ (insert = TRUE <=> c < Len(line))
    BY <1>0, TypedAsMeant DEF IInv, Editing
  <2> HIDE DEF m, t
  <2>5. UserOK' /\ (why' = {} => meant' = m /\ meantC' = meantC + 1)
    BY <1>0, <2>1, <2>3, BelievedKept
  <2>6. EditorOK'
    BY <1>0, <2>1, <2>2 DEF EditorOK
  <2>7. Editing'
    BY <1>0, <2>1, <2>3, <2>4, <2>5 DEF Editing
  <2>. QED BY <2>5, <2>6, <2>7
<1>2. CASE Left
  <2>1. /\ line' = line /\ c' = (IF c > 0 THEN c - 1 ELSE c) /\ insert' = TRUE
        /\ why' = (IF line = <<>> THEN why \cup {"left"} ELSE why)
        /\ Believed(meant, IF meantC > 0 THEN meantC - 1 ELSE meantC)
    BY <1>2 DEF Left
  <2>2. (IF meantC > 0 THEN meantC - 1 ELSE meantC) \in 0 .. Len(meant)
    BY <1>0
  <2>3. why' \subseteq {"left", "cut", "edited"}
    BY <1>0, <2>1
  <2>4. /\ UserOK'
        /\ why' = {} => meant' = meant /\ meantC' = (IF meantC > 0 THEN meantC - 1 ELSE meantC)
    BY <1>0, <2>1, <2>2, <2>3, BelievedKept
  <2>5. EditorOK'
    BY <1>0, <2>1 DEF EditorOK
  <2>6. Editing'
    BY <1>0, <2>1, <2>4 DEF Editing, IInv
  <2>. QED BY <2>4, <2>5, <2>6
<1>3. CASE Right
  <2>1. /\ line' = line /\ c' = (IF c < Len(line) THEN c + 1 ELSE c)
        /\ insert' = (insert /\ c + 1 < Len(line)) /\ why' = why
        /\ Believed(meant, IF meantC < Len(meant) THEN meantC + 1 ELSE meantC)
    BY <1>3 DEF Right
  <2>2. (IF meantC < Len(meant) THEN meantC + 1 ELSE meantC) \in 0 .. Len(meant)
    BY <1>0
  <2>4. /\ UserOK'
        /\ why' = {} =>
             meant' = meant /\ meantC' = (IF meantC < Len(meant) THEN meantC + 1 ELSE meantC)
    BY <1>0, <2>1, <2>2, BelievedKept
  <2>5. EditorOK'
    BY <1>0, <2>1 DEF EditorOK
  <2>6. Editing'
    BY <1>0, <2>1, <2>4 DEF Editing, IInv
  <2>. QED BY <2>4, <2>5, <2>6
<1>4. CASE backspace
  <2>1. insert' = insert /\ why' = why
    BY <1>4 DEF backspace
  <2>2. line' = (IF c > 0 THEN Removed(line, c) ELSE line) /\ c' = (IF c > 0 THEN c - 1 ELSE c)
    BY <1>4 DEF backspace
  <2>3. Believed(IF meantC > 0 THEN Removed(meant, meantC) ELSE meant,
                 IF meantC > 0 THEN meantC - 1 ELSE meantC)
    BY <1>4 DEF backspace
  <2> DEFINE m == IF meantC > 0 THEN Removed(meant, meantC) ELSE meant
             k == IF meantC > 0 THEN meantC - 1 ELSE meantC
             t == IF c > 0 THEN Removed(line, c) ELSE line
  <2>4. m \in Lines /\ k \in 0 .. Len(m)
    BY <1>0, RemovedLine
  <2>5. t \in Lines /\ Len(t) = (IF c > 0 THEN Len(line) - 1 ELSE Len(line))
    BY <1>0, RemovedLine
  <2>6. line = meant /\ c = meantC => t = m /\ k = (IF c > 0 THEN c - 1 ELSE c)
    OBVIOUS
  <2>7. line' = t /\ Believed(m, k)
    BY <2>2, <2>3
  <2> HIDE DEF m, k, t
  <2>8. UserOK' /\ (why' = {} => meant' = m /\ meantC' = k)
    BY <1>0, <2>1, <2>4, <2>7, BelievedKept
  <2>9. EditorOK'
    BY <1>0, <2>1, <2>2, <2>5, <2>7 DEF EditorOK
  <2>10. Editing'
    BY <1>0, <2>1, <2>2, <2>5, <2>6, <2>7, <2>8 DEF Editing, IInv
  <2>. QED BY <2>8, <2>9, <2>10
<1>5. CASE fwdDelete
  <2> DEFINE m == IF meantC < Len(meant) THEN Removed(meant, meantC + 1) ELSE meant
             t == IF c < Len(line) THEN Removed(line, c + 1) ELSE line
  <2>1. /\ c' = c /\ why' = why /\ line' = t /\ Believed(m, meantC)
        /\ insert' = (IF c < Len(line) THEN insert /\ c < Len(line) - 1 ELSE insert)
    BY <1>5 DEF fwdDelete
  <2>4. m \in Lines /\ meantC \in 0 .. Len(m)
    BY <1>0, RemovedLine
  <2>5. t \in Lines /\ Len(t) = (IF c < Len(line) THEN Len(line) - 1 ELSE Len(line))
    <3>1. CASE c < Len(line)
      <4>1. c + 1 \in 1 .. Len(line)
        BY <1>0, <3>1
      <4>. QED BY <1>0, <3>1, <4>1, RemovedLine
    <3>2. CASE ~(c < Len(line))
      BY <1>0, <3>2
    <3>. QED BY <3>1, <3>2
  <2>6. line = meant /\ c = meantC => t = m
    OBVIOUS
  <2> HIDE DEF m, t
  <2>8. UserOK' /\ (why' = {} => meant' = m /\ meantC' = meantC)
    BY <1>0, <2>1, <2>4, BelievedKept
  <2>7. insert' \in BOOLEAN
    BY <1>0, <2>1
  <2>9. EditorOK'
    <3>1. c' \in 0 .. Len(t) /\ line' = t
      BY <1>0, <2>1, <2>5
    <3>. QED BY <2>5, <2>7, <3>1 DEF EditorOK
  <2>10. Editing'
    BY <1>0, <2>1, <2>5, <2>6, <2>8 DEF Editing, IInv
  <2>. QED BY <2>8, <2>9, <2>10
<1>. QED BY <1>1, <1>2, <1>3, <1>4, <1>5

\* An answer or a timeout starts a new line under the user's hands.
LEMMA PromptedKept ==
  ASSUME IInv, Prompted
  PROVE  IInv'
<1>1. PICK cleared \in BOOLEAN : insert' = (insert /\ ~cleared)
  BY DEF Prompted
<1>2. /\ line' = <<>> /\ c' = 0 /\ Believed(meant, meantC)
      /\ why' = why \cup (IF meant # <<>> THEN {"cut"} ELSE {})
                    \cup (IF insert' THEN {"edited"} ELSE {})
      /\ UNCHANGED <<history, histPtr, lastLine>>
  BY DEF Prompted
<1>3. <<>> \in Lines /\ Len(<<>>) = 0
  BY EmptySeq DEF Lines
<1>4. meant \in Lines /\ meantC \in 0 .. Len(meant)
  BY DEF IInv, UserOK
<1>5. why' \subseteq {"left", "cut", "edited"}
  BY <1>2 DEF IInv, UserOK
<1>6. UserOK' /\ (why' = {} => meant' = meant /\ meantC' = meantC)
  BY <1>2, <1>4, <1>5, BelievedKept
<1>7. insert' \in BOOLEAN
  BY <1>1
<1>8. EditorOK'
  BY <1>2, <1>3, <1>7 DEF EditorOK
<1>9. HistoryOK'
  BY <1>2 DEF IInv, HistoryOK
<1>10. why' = {} => why = {} /\ meant = <<>> /\ insert' = FALSE
  BY <1>2, <1>7
<1>11. ASSUME why' = {}
       PROVE  line' = meant' /\ c' = meantC' /\ (insert' = TRUE <=> c' < Len(line'))
  <2>1. why = {} /\ meant = <<>> /\ insert' = FALSE
    BY <1>10, <1>11
  <2>2. c = meantC /\ line = <<>> /\ c \in 0 .. Len(line)
    BY <2>1 DEF Editing, IInv, EditorOK
  <2>3. c = 0
    BY <1>3, <2>2
  <2>4. meant' = <<>> /\ meantC' = 0
    BY <1>6, <1>11, <2>1, <2>2, <2>3
  <2>5. ~(c' < Len(line'))
    BY <1>2, <1>3
  <2>. QED BY <1>2, <2>1, <2>4, <2>5
<1>12. Editing'
  BY <1>11 DEF Editing
<1>. QED BY <1>6, <1>8, <1>9, <1>12 DEF IInv

\* The history's entries are lines.
LEMMA EntriesAreLines ==
  ASSUME HistoryOK, NEW i \in 1 .. Len(history)
  PROVE  history[i] \in Lines
BY ElementOfSeq DEF HistoryOK

\* The invariant holds in every reachable state.
LEMMA Invariant == Spec => []IInv
<1>1. Init => IInv
  <2> SUFFICES ASSUME Init PROVE IInv
    OBVIOUS
  <2>1. <<>> \in Lines /\ Len(<<>>) = 0 /\ <<>> \in Seq(Lines)
    BY EmptySeq DEF Lines
  <2>2. 0 \in 0 .. Len(<<>>) /\ ~(0 < Len(<<>>))
    BY <2>1
  <2>3. EditorOK
    BY <2>1, <2>2 DEF Init, EditorOK
  <2>4. UserOK
    BY <2>1, <2>2 DEF Init, UserOK
  <2>5. HistoryOK
    BY <2>1, <2>2 DEF Init, HistoryOK
  <2>6. Editing
    BY <2>2 DEF Init, Editing
  <2>. QED BY <2>3, <2>4, <2>5, <2>6 DEF IInv
<1>2. IInv /\ [Next]_vars => IInv'
  <2> SUFFICES ASSUME IInv, [Next]_vars PROVE IInv'
    OBVIOUS
  <2>0. HistoryOK /\ Len(history) \in Nat /\ line \in Lines
    BY LenProperties DEF IInv, HistoryOK, EditorOK
  <2>. Len(history) \in Nat
    BY <2>0
  <2>1. CASE (\E ch \in Chars : Key(ch)) \/ Left \/ Right \/ backspace \/ fwdDelete
    <3>1. UNCHANGED <<history, histPtr, lastLine>>
      BY <2>1 DEF Key, Left, Right, backspace, fwdDelete
    <3>2. HistoryOK'
      BY <2>0, <3>1 DEF HistoryOK
    <3>. QED BY <2>1, <3>2, EditsKept DEF IInv
  <2>2. CASE Up
    <3> DEFINE l == IF history # <<>> THEN history[histPtr' + 1] ELSE lastLine'
    <3>1. /\ lastLine' \in Lines /\ history' = history /\ Shown(l)
          /\ histPtr' = (IF histPtr > 0 THEN histPtr - 1 ELSE histPtr)
      BY <2>0, <2>2 DEF Up, Kept, HistoryOK
    <3>2. histPtr' \in 0 .. Len(history)
      BY <2>0, <3>1 DEF HistoryOK
    <3>3. ASSUME history # <<>> PROVE histPtr' + 1 \in 1 .. Len(history)
      <4>1. Len(history) \in Nat \ {0}
        BY <2>0, <3>3, EmptySeq DEF HistoryOK
      <4>. QED BY <2>0, <3>1, <4>1 DEF HistoryOK
    <3>4. l \in Lines
      BY <2>0, <3>1, <3>3, EntriesAreLines
    <3> HIDE DEF l
    <3>5. HistoryOK'
      BY <2>0, <3>1, <3>2 DEF HistoryOK
    <3>. QED BY <3>1, <3>4, <3>5, ShownKept DEF IInv
  <2>3. CASE Down
    <3> DEFINE l == IF histPtr' < Len(history) THEN history[histPtr' + 1] ELSE lastLine'
    <3>1. /\ lastLine' \in Lines /\ history' = history /\ Shown(l)
          /\ histPtr' = (IF histPtr < Len(history) THEN histPtr + 1 ELSE histPtr)
      BY <2>0, <2>3 DEF Down, Newer, Kept, HistoryOK
    <3>2. histPtr' \in 0 .. Len(history)
      BY <2>0, <3>1 DEF HistoryOK
    <3>3. ASSUME histPtr' < Len(history) PROVE histPtr' + 1 \in 1 .. Len(history)
      <4>1. histPtr \in Nat
        BY <2>0 DEF HistoryOK
      <4>. QED BY <2>0, <3>1, <3>3, <4>1
    <3>4. l \in Lines
      BY <2>0, <3>1, <3>3, EntriesAreLines
    <3> HIDE DEF l
    <3>5. HistoryOK'
      BY <2>0, <3>1, <3>2 DEF HistoryOK
    <3>. QED BY <3>1, <3>4, <3>5, ShownKept DEF IInv
  <2>4. CASE Return
    <3>1. /\ history' = (IF line # <<>> THEN Append(history, line) ELSE history)
          /\ histPtr' = Len(history') /\ lastLine' = <<>> /\ Shown(<<>>)
      BY <2>4 DEF Return
    <3>2. <<>> \in Lines
      BY EmptySeq DEF Lines
    <3>3. history' \in Seq(Lines)
      BY <2>0, <3>1, AppendProperties DEF HistoryOK
    <3>4. histPtr' \in 0 .. Len(history')
      BY <3>1, <3>3, LenProperties
    <3>5. HistoryOK'
      BY <3>1, <3>2, <3>3, <3>4 DEF HistoryOK
    <3>. QED BY <3>1, <3>2, <3>5, ShownKept DEF IInv
  <2>5. CASE \E r \in Requests : Answer(r) \/ Timeout(r)
    BY <2>5, PromptedKept DEF Answer, Timeout
  <2>6. CASE UNCHANGED vars
    BY <2>6 DEF vars, IInv, EditorOK, UserOK, HistoryOK, Editing
  <2>. QED BY <2>1, <2>2, <2>3, <2>4, <2>5, <2>6 DEF Next
<1>. QED BY <1>1, <1>2, PTL DEF Spec

-----------------------------------------------------------------------------
\* What the handlers append to what has been shown.
LEMMA ReportsInOrder ==
  /\ Append(<<>>, "answer") = <<"answer">>
  /\ Append(<<>>, "timedOut") = <<"timedOut">>
  /\ Append(<<"timedOut">>, "failed") = <<"timedOut", "failed">>
<1>1. Append(<<>>, "answer") = <<"answer">> /\ Append(<<>>, "timedOut") = <<"timedOut">>
  OBVIOUS
<1> DEFINE a == <<"timedOut">>
           b == <<"timedOut", "failed">>
<1>2. /\ a \in Seq(Reports) /\ b \in Seq(Reports) /\ "failed" \in Reports
      /\ Len(a) = 1 /\ Len(b) = 2
  BY DEF Reports
<1>3. a[1] = "timedOut" /\ b[1] = "timedOut" /\ b[2] = "failed"
  OBVIOUS
<1> HIDE DEF a, b
<1>4. /\ Append(a, "failed") \in Seq(Reports) /\ Len(Append(a, "failed")) = 2
      /\ Append(a, "failed")[1] = "timedOut" /\ Append(a, "failed")[2] = "failed"
  BY <1>2, <1>3, AppendProperties
<1>5. \A i \in 1 .. Len(b) : Append(a, "failed")[i] = b[i]
  BY <1>2, <1>3, <1>4
<1>6. Append(a, "failed") = b
  BY <1>2, <1>4, <1>5, SeqEqual
<1>. QED BY <1>1, <1>6 DEF a, b

\* callbackHandler of a request that has just been answered, and
\* timeoutHandler of one that is waiting.
LEMMA HandlersEnd ==
  /\ callbackHandler([SentSocket EXCEPT !.readyState = "done"]) = Answered
  /\ timeoutHandler(SentSocket) = TimedOut
<1>1. callbackHandler([SentSocket EXCEPT !.readyState = "done"]) = Answered
  <2>1. [SentSocket EXCEPT !.readyState = "done"] = Socket("done", "set")
    BY DEF SentSocket, Socket
  <2>2. callbackHandler(Socket("done", "set")) = Answered
    BY ReportsInOrder DEF callbackHandler, Report, Socket, Answered, Ended
  <2>. QED BY <2>1, <2>2
<1>2. timeoutHandler(SentSocket) = TimedOut
  <2> DEFINE late == [SentSocket EXCEPT !.error = "TIMEOUT"]
             ended == [late EXCEPT !.readyState = "done"]
  <2>1. ended = [readyState |-> "done", error |-> "TIMEOUT", timer |-> "set",
                 request |-> "set", callback |-> "set", shown |-> <<>>]
    <3>1. late = [readyState |-> "sent", error |-> "TIMEOUT", timer |-> "set",
                  request |-> "set", callback |-> "set", shown |-> <<>>]
      BY DEF SentSocket, Socket
    <3> HIDE DEF late
    <3>. QED BY <3>1
  <2>2. SentSocket.readyState = "sent"
    BY DEF SentSocket, Socket
  <2>3. timeoutHandler(SentSocket) = callbackHandler(callbackHandler(ended))
    BY <2>2 DEF timeoutHandler
  <2> HIDE DEF ended
  <2>4. callbackHandler(ended) = Ended("TIMEOUT", <<"timedOut">>)
    BY <2>1, ReportsInOrder DEF callbackHandler, Report, Ended
  <2>5. callbackHandler(Ended("TIMEOUT", <<"timedOut">>)) = TimedOut
    BY ReportsInOrder DEF callbackHandler, Report, Ended, TimedOut
  <2>. QED BY <2>3, <2>4, <2>5
<1>. QED BY <1>1, <1>2

\* Only a socket that waits is answered, and only its timer runs.
LEMMA OnlySentWait ==
  ASSUME NEW s \in SocketStates
  PROVE  /\ s.readyState = "sent" => s = SentSocket
         /\ s.timer = "set" => s = SentSocket
BY DEF SocketStates, NewSocket, SentSocket, Socket, Answered, TimedOut, Ended

\* In every reachable state a socket has one of those four values.
LEMMA SocketInvariant == Spec => []SocketsOK
<1>1. Init => SocketsOK
  BY DEF Init, SocketsOK, SocketStates
<1>2. SocketsOK /\ [Next]_vars => SocketsOK'
  <2> SUFFICES ASSUME SocketsOK, [Next]_vars PROVE SocketsOK'
    OBVIOUS
  <2>1. ASSUME NEW r \in Requests, NEW s \in SocketStates, soc' = [soc EXCEPT ![r] = s]
        PROVE  SocketsOK'
    BY <2>1 DEF SocketsOK
  <2>2. CASE \E r \in Requests : Answer(r)
    <3> PICK r \in Requests : Answer(r)
      BY <2>2
    <3>1. soc[r] = SentSocket
      BY OnlySentWait DEF Answer, SocketsOK
    <3>2. soc' = [soc EXCEPT ![r] = Answered]
      BY <3>1, HandlersEnd DEF Answer
    <3>. QED BY <2>1, <3>2 DEF SocketStates
  <2>3. CASE \E r \in Requests : Timeout(r)
    <3> PICK r \in Requests : Timeout(r)
      BY <2>3
    <3>1. soc[r] \in SocketStates /\ soc[r].timer = "set"
      BY DEF Timeout, SocketsOK
    <3>2. soc[r] = SentSocket
      BY <3>1, OnlySentWait
    <3>3. soc' = [soc EXCEPT ![r] = TimedOut]
      BY <3>2, HandlersEnd DEF Timeout
    <3>. QED BY <2>1, <3>3 DEF SocketStates
  <2>4. CASE Return
    <3>1. CASE line \in RequestLines
      <4>1. PICK r \in Requests : soc' = [soc EXCEPT ![r] = SentSocket]
        BY <2>4, <3>1 DEF Return, Request
      <4>. QED BY <2>1, <4>1 DEF SocketStates
    <3>2. CASE line \notin RequestLines
      BY <2>4, <3>2 DEF Return, Request, SocketsOK
    <3>. QED BY <3>1, <3>2
  <2>5. CASE \/ \E ch \in Chars : Key(ch)
             \/ Left \/ Right \/ backspace \/ fwdDelete \/ Up \/ Down \/ UNCHANGED vars
    BY <2>5 DEF Key, Left, Right, backspace, fwdDelete, Up, Down, vars, SocketsOK
  <2>. QED BY <2>2, <2>3, <2>4, <2>5 DEF Next
<1>. QED BY <1>1, <1>2, PTL DEF Spec

-----------------------------------------------------------------------------
\* A terminal only ever holds a line with its cursor in it, a history of
\* lines and sockets of the type.
THEOREM TypeCorrect == Spec => []TypeOK
<1>1. IInv /\ SocketsOK => TypeOK
  <2> SUFFICES ASSUME IInv, SocketsOK PROVE TypeOK
    OBVIOUS
  <2>1. SocketStates \subseteq Sockets
    <3>1. /\ <<>> \in Seq(Reports) /\ <<"answer">> \in Seq(Reports)
          /\ <<"timedOut", "failed">> \in Seq(Reports)
      BY DEF Reports
    <3>. QED BY <3>1 DEF SocketStates, Sockets, States, NewSocket, SentSocket, Socket,
                         Answered, TimedOut, Ended
  <2>2. soc \in [Requests -> Sockets]
    BY <2>1 DEF SocketsOK
  <2>. QED BY <2>2 DEF IInv, EditorOK, UserOK, HistoryOK, TypeOK
<1>. QED BY <1>1, Invariant, SocketInvariant, PTL

\* The line is as typed unless an answer has come in, or Left was pressed on
\* an empty line, since the last Return or recall.
THEOREM LineIsAsTyped == Spec => []LineAsTyped
<1>1. IInv => LineAsTyped
  BY DEF IInv, Editing, LineAsTyped
<1>. QED BY <1>1, Invariant, PTL

\* An answered request is reported once, one that times out twice, no request
\* both ways.
THEOREM OneOutcomeEach == Spec => []OneOutcome
<1>1. SocketsOK => OneOutcome
  <2> SUFFICES ASSUME SocketsOK, NEW r \in Requests
      PROVE  /\ soc[r].shown \in {<<>>, <<"answer">>, <<"timedOut", "failed">>}
             /\ soc[r].shown # <<>> <=> soc[r].readyState = "done"
             /\ soc[r].timer = "set" => soc[r].readyState = "sent"
    BY DEF OneOutcome
  <2>1. soc[r] \in SocketStates
    BY DEF SocketsOK
  <2>2. <<"answer">> # <<>> /\ <<"timedOut", "failed">> # <<>>
    OBVIOUS
  <2>3. CASE soc[r] = NewSocket \/ soc[r] = SentSocket
    BY <2>3 DEF NewSocket, SentSocket, Socket
  <2>4. CASE soc[r] = Answered \/ soc[r] = TimedOut
    <3>1. /\ soc[r].shown \in {<<"answer">>, <<"timedOut", "failed">>}
          /\ soc[r].readyState = "done" /\ soc[r].timer = "null"
      BY <2>4 DEF Answered, TimedOut, Ended
    <3>. QED BY <2>2, <3>1
  <2>. QED BY <2>1, <2>3, <2>4 DEF SocketStates
<1>. QED BY <1>1, SocketInvariant, PTL

-----------------------------------------------------------------------------
\* The fairness of Timeout(r) that Spec assumes, with the guard of Timeout in
\* the place of ENABLED: a browser's timer that stays set goes off.
TimerFires(r) ==
  []<>~(soc[r].timer = "set") \/ []<><<Timeout(r)>>_vars

\* What a step does to a request that waits.
LEMMA WaitingStep ==
  ASSUME NEW r \in Requests, SocketsOK, [Next]_vars, soc[r] = SentSocket
  PROVE  soc'[r] \in {SentSocket, Answered, TimedOut}
<1>1. CASE \E q \in Requests : Answer(q)
  <2> PICK q \in Requests : Answer(q)
    BY <1>1
  <2>1. soc[q] = SentSocket
    BY OnlySentWait DEF Answer, SocketsOK
  <2>2. soc' = [soc EXCEPT ![q] = Answered]
    BY <2>1, HandlersEnd DEF Answer
  <2>. QED BY <2>2 DEF SocketsOK
<1>2. CASE \E q \in Requests : Timeout(q)
  <2> PICK q \in Requests : Timeout(q)
    BY <1>2
  <2>1. soc[q] \in SocketStates /\ soc[q].timer = "set"
    BY DEF Timeout, SocketsOK
  <2>2. soc[q] = SentSocket
    BY <2>1, OnlySentWait
  <2>3. soc' = [soc EXCEPT ![q] = TimedOut]
    BY <2>2, HandlersEnd DEF Timeout
  <2>. QED BY <2>3 DEF SocketsOK
<1>3. CASE Return
  <2>1. soc' = soc \/ \E q \in Requests : /\ soc[q].readyState = "unused"
                                          /\ soc' = [soc EXCEPT ![q] = SentSocket]
    BY <1>3 DEF Return, Request
  <2>. QED BY <2>1 DEF SocketsOK
<1>4. CASE \/ \E ch \in Chars : Key(ch)
           \/ Left \/ Right \/ backspace \/ fwdDelete \/ Up \/ Down \/ UNCHANGED vars
  BY <1>4 DEF Key, Left, Right, backspace, fwdDelete, Up, Down, vars
<1>. QED BY <1>1, <1>2, <1>3, <1>4 DEF Next

\* A request that waits is reported by the answer or by its timer.
LEMMA ReportedByTimer ==
  ASSUME NEW r \in Requests
  PROVE  Spec /\ TimerFires(r) => (soc[r].readyState = "sent" ~> soc[r].shown # <<>>)
<1>1. SocketsOK /\ soc[r] = SentSocket /\ [Next]_vars
        => (soc[r] = SentSocket)' \/ (soc[r] \in {Answered, TimedOut})'
  BY WaitingStep
<1>2. SocketsOK /\ soc[r] = SentSocket /\ <<Timeout(r)>>_vars
        => (soc[r] \in {Answered, TimedOut})'
  BY HandlersEnd DEF Timeout, SocketsOK
<1>3. SocketsOK /\ soc[r].readyState = "sent" => soc[r] = SentSocket
  BY OnlySentWait DEF SocketsOK
<1>4. soc[r] = SentSocket => soc[r].timer = "set"
  BY DEF SentSocket, Socket
<1>5. soc[r] \in {Answered, TimedOut} => soc[r].shown # <<>>
  <2>1. <<"answer">> # <<>> /\ <<"timedOut", "failed">> # <<>>
    OBVIOUS
  <2>. QED BY <2>1 DEF Answered, TimedOut, Ended
<1>6. Spec => [][Next]_vars
  BY PTL DEF Spec
<1>. QED BY <1>1, <1>2, <1>3, <1>4, <1>5, <1>6, SocketInvariant, PTL DEF TimerFires

\* Every request sent is reported in the end, whether the server answers or
\* not, as long as timers go off.
THEOREM EveryRequestIsReported ==
  Spec /\ (\A r \in Requests : TimerFires(r)) => EveryRequestReported
BY ReportedByTimer DEF EveryRequestReported
=============================================================================
