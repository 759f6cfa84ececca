------------------------------ MODULE Terminal ------------------------------
(***************************************************************************)
(* One terminal of the console page: termlib's line editor, the handler    *)
(* that terminal.js gives it, and termlib's requests to the server         *)
(* (src/js/terminal/terminal.js, src/js/terminal/terminal/termlib.js).     *)
(*                                                                         *)
(* termlib keeps no buffer of the line being typed.  The line is the       *)
(* printable cells of the screen's row between the separator that prompt() *)
(* writes and the first cell that is not printable, and it is read back    *)
(* when Return is pressed.  A command that needs the server is sent        *)
(* without waiting: the handler prompts at once, the user types on, and    *)
(* the answer is written, and a new prompt after it, wherever the cursor   *)
(* then is.                                                                *)
(*                                                                         *)
(* A row of the screen holds the whole line: lines of more than one row    *)
(* are not modelled.  Everything runs in the browser's single thread, so   *)
(* a handler is one step.                                                  *)
(***************************************************************************)
EXTENDS Integers, Sequences

CONSTANTS
  Chars,         \* printable characters
  RequestLines,  \* the lines that the handler sends to the server
  Commands,      \* bound: the lines on which the user presses Return
  Requests,      \* the requests a page may send
  MaxLine,       \* bound: cells of the row after the prompt
  MaxHistory     \* bound: lines entered

ASSUME BoundsAreNatural == MaxLine \in Nat /\ MaxHistory \in Nat

VARIABLES
  line,     \* the cells after the separator, up to the first blank one
  c,        \* the cursor: cells of the line to its left
  insert,   \* termlib's flag: typing moves the rest of the line first
  history, histPtr, lastLine,
  soc,      \* the _HttpSocket of each request
  \* history variables: no code reads them
  meant,    \* the line as the user has typed it since the last Return
  meantC,   \* where the user believes the cursor to be in it
  why       \* what has come between the user and the line since then

vars == <<line, c, insert, history, histPtr, lastLine, soc, meant, meantC, why>>

Lines == Seq(Chars)

-----------------------------------------------------------------------------
(* The row.  Positions count from 1; k cells lie left of the cursor.       *)

(* What every editor means by typing, and by removing the k-th character.  *)
Inserted(l, k, ch) ==
  [i \in 1 .. Len(l) + 1 |->
     IF i <= k THEN l[i] ELSE IF i = k + 1 THEN ch ELSE l[i - 1]]
Removed(l, k) ==
  [i \in 1 .. Len(l) - 1 |-> IF i < k THEN l[i] ELSE l[i + 1]]

(* _scrollRight: from the line's end back to the cursor each cell is       *)
(* copied to its right.  The loop ends when it meets the cursor; a cursor  *)
(* behind the last character is never met and the whole line is copied.    *)
ScrollRight(l, k) ==
  LET from == IF k < Len(l) THEN k + 1 ELSE 1
  IN  IF l = <<>> THEN l
      ELSE [i \in 1 .. Len(l) + 1 |-> IF i <= from THEN l[i] ELSE l[i - 1]]

(* _charOut: the cell under the cursor is overwritten. *)
CharOut(l, k, ch) ==
  [i \in 1 .. (IF k < Len(l) THEN Len(l) ELSE k + 1) |->
     IF i = k + 1 THEN ch ELSE l[i]]

Typed(l, k, ins, ch) == CharOut(IF ins THEN ScrollRight(l, k) ELSE l, k, ch)

-----------------------------------------------------------------------------
(* A request: timeoutHandler, callbackHandler and the two callbacks.       *)

States == {"unused", "sent", "done"}
Reports == {"answer", "timedOut", "failed"}

Sockets == [readyState: States, error: {"OK", "TIMEOUT"}, timer: {"set", "null"},
            request: {"set", "null"}, callback: {"set", "null"}, shown: Seq(Reports)]

Socket(state, ref) ==
  [readyState |-> state, error |-> "OK", timer |-> ref, request |-> ref,
   callback |-> ref, shown |-> <<>>]
NewSocket == Socket("unused", "null")

\* Mutant: the timer is not started.
SentWithoutTimer == [Socket("sent", "set") EXCEPT !.timer = "null"]
(* send() sets the callback, sends and starts the timer of ten seconds. *)
SentSocket == Socket("sent", "set")

(* What is written: by terminal.js' callback while it is set, otherwise by *)
(* _defaultServerCallback.                                                 *)
Report(s) ==
  IF s.callback = "null" THEN "failed" ELSE IF s.error = "OK" THEN "answer" ELSE "timedOut"

\* Mutant: the timer is not cleared.
HandlerLeavesTimer(s) ==
  IF s.error = "OK" /\ s.readyState # "done" THEN s
  ELSE [s EXCEPT !.shown = Append(@, Report(s)), !.request = "null", !.callback = "null"]
callbackHandler(s) ==
  IF s.error = "OK" /\ s.readyState # "done" THEN s
  ELSE [s EXCEPT !.timer = "null", !.shown = Append(@, Report(s)),
                 !.request = "null", !.callback = "null"]

(* abort() of a request that is not done ends it and fires its handler     *)
(* before it returns; timeoutHandler then calls the handler once more.     *)
timeoutHandler(s) ==
  LET timedOut == [s EXCEPT !.error = "TIMEOUT"]
      aborted  == IF s.readyState = "sent"
                    THEN callbackHandler([timedOut EXCEPT !.readyState = "done"])
                    ELSE timedOut
  IN  callbackHandler(aborted)

-----------------------------------------------------------------------------
(* The user's picture of the line, given up when something came between.   *)
Believed(l, k) ==
  IF why' = {} THEN meant' = l /\ meantC' = k ELSE meant' = <<>> /\ meantC' = 0

Init ==
  /\ line = <<>> /\ c = 0 /\ insert = FALSE
  /\ history = <<>> /\ histPtr = 0 /\ lastLine = <<>>
  /\ soc = [r \in Requests |-> NewSocket]
  /\ meant = <<>> /\ meantC = 0 /\ why = {}

(* A printable key. *)
Key(ch) ==
  /\ Len(line) < MaxLine
  /\ line' = Typed(line, c, insert, ch)
  /\ c' = c + 1
  /\ UNCHANGED <<insert, history, histPtr, lastLine, soc, why>>
  /\ Believed(Inserted(meant, meantC, ch), meantC + 1)

(* cursorLeft sets the flag whether the cursor moves or not. *)
Left ==
  /\ c' = IF c > 0 THEN c - 1 ELSE c
  /\ insert' = TRUE
  /\ why' = IF line = <<>> THEN why \cup {"left"} ELSE why
  /\ Believed(meant, IF meantC > 0 THEN meantC - 1 ELSE meantC)
  /\ UNCHANGED <<line, history, histPtr, lastLine, soc>>

(* cursorRight looks at the cell right of the cursor's and clears the flag *)
(* if that is blank; it moves if the cursor's own cell is not.             *)
Right ==
  /\ c' = IF c < Len(line) THEN c + 1 ELSE c
  /\ insert' = (insert /\ c + 1 < Len(line))
  /\ UNCHANGED <<line, history, histPtr, lastLine, soc, why>>
  /\ Believed(meant, IF meantC < Len(meant) THEN meantC + 1 ELSE meantC)

backspace ==
  /\ IF c > 0 THEN line' = Removed(line, c) /\ c' = c - 1
              ELSE UNCHANGED <<line, c>>
  /\ UNCHANGED <<insert, history, histPtr, lastLine, soc, why>>
  /\ IF meantC > 0 THEN Believed(Removed(meant, meantC), meantC - 1)
                   ELSE Believed(meant, meantC)

fwdDelete ==
  /\ IF c < Len(line)
       THEN line' = Removed(line, c + 1) /\ insert' = (insert /\ c < Len(line) - 1)
       ELSE UNCHANGED <<line, insert>>
  /\ UNCHANGED <<c, history, histPtr, lastLine, soc, why>>
  /\ Believed(IF meantC < Len(meant) THEN Removed(meant, meantC + 1) ELSE meant, meantC)

\* Mutant: _clearLine does not reset insert.
ShownOnly(l) ==
  /\ line' = l /\ c' = Len(l) /\ UNCHANGED insert
  /\ why' = {} /\ Believed(l, Len(l))
(* _clearLine and type(): the line is replaced, the flag reset. *)
Shown(l) ==
  /\ line' = l /\ c' = Len(l) /\ insert' = FALSE
  /\ why' = {} /\ Believed(l, Len(l))

(* The line typed is kept when the user leaves the end of the history. *)
Kept == IF histPtr = Len(history) THEN line ELSE lastLine

Up ==
  /\ lastLine' = Kept
  /\ histPtr' = IF histPtr > 0 THEN histPtr - 1 ELSE histPtr
  /\ Shown(IF history # <<>> THEN history[histPtr' + 1] ELSE lastLine')
  /\ UNCHANGED <<history, soc>>

\* Mutant: Down moves on past the line being typed.
AlwaysNewer == histPtr + 1
Newer == IF histPtr < Len(history) THEN histPtr + 1 ELSE histPtr

Down ==
  /\ lastLine' = Kept
  /\ histPtr' = Newer
  /\ Shown(IF histPtr' < Len(history) THEN history[histPtr' + 1] ELSE lastLine')
  /\ UNCHANGED <<history, soc>>

(* The handler's requests; every other line is answered at once. *)
Request(l) ==
  IF l \in RequestLines
    THEN \E r \in Requests : /\ soc[r].readyState = "unused"
                             /\ soc' = [soc EXCEPT ![r] = SentSocket]
    ELSE UNCHANGED soc

Return ==
  /\ Len(history) < MaxHistory /\ line \in Commands
  /\ history' = IF line # <<>> THEN Append(history, line) ELSE history
  /\ histPtr' = Len(history')
  /\ lastLine' = <<>>
  /\ Request(line)
  /\ Shown(<<>>)

(* What callbackHandler's callbacks do to the line: the text is written    *)
(* from the cursor on, and prompt() starts a new row.  insert stays as it  *)
(* was, unless the text holds %CS, which clears the screen.  An answer     *)
(* that finds the user in the middle of a line cuts it.                    *)
Prompted ==
  /\ line' = <<>> /\ c' = 0
  /\ \E cleared \in BOOLEAN : insert' = (insert /\ ~cleared)
  /\ why' = why \cup (IF meant # <<>> THEN {"cut"} ELSE {})
                \cup (IF insert' THEN {"edited"} ELSE {})
  /\ Believed(meant, meantC)
  /\ UNCHANGED <<history, histPtr, lastLine>>

Answer(r) ==
  /\ soc[r].readyState = "sent"
  /\ soc' = [soc EXCEPT ![r] = callbackHandler([@ EXCEPT !.readyState = "done"])]
  /\ Prompted

Timeout(r) ==
  /\ soc[r].timer = "set"
  /\ soc' = [soc EXCEPT ![r] = timeoutHandler(@)]
  /\ Prompted

Next ==
  \/ \E ch \in Chars : Key(ch)
  \/ Left \/ Right \/ backspace \/ fwdDelete
  \/ Up \/ Down \/ Return
  \/ \E r \in Requests : Answer(r) \/ Timeout(r)

(* The browser's timers fire; nothing says that the server answers. *)
Spec == Init /\ [][Next]_vars /\ \A r \in Requests : WF_vars(Timeout(r))

-----------------------------------------------------------------------------
(* Every variable keeps its type; the cursor is never right of the line's  *)
(* end, where the next character would leave a gap (keyHandler).           *)
TypeOK ==
  /\ line \in Lines /\ c \in 0 .. Len(line) /\ insert \in BOOLEAN
  /\ history \in Seq(Lines) /\ histPtr \in 0 .. Len(history) /\ lastLine \in Lines
  /\ soc \in [Requests -> Sockets]
  /\ meant \in Lines /\ meantC \in 0 .. Len(meant)
  /\ why \subseteq {"left", "cut", "edited"}

(* The line that Return would hand to the handler is the one the user has  *)
(* typed, character for character, unless since the last Return or recall  *)
(* an answer has cut it, has come while the user was editing inside it, or *)
(* Left was pressed on an empty line (_getLine and keyHandler).            *)
LineAsTyped == why = {} => line = meant /\ c = meantC

(* A request is reported once if it is answered and twice if it times out, *)
(* first as a timeout and then as a failure, and its timer and its answer  *)
(* never both report it (callbackHandler and timeoutHandler).              *)
OneOutcome ==
  \A r \in Requests :
    /\ soc[r].shown \in {<<>>, <<"answer">>, <<"timedOut", "failed">>}
    /\ soc[r].shown # <<>> <=> soc[r].readyState = "done"
    /\ soc[r].timer = "set" => soc[r].readyState = "sent"

(* Every request sent is reported in the end, answered or not. *)
EveryRequestReported ==
  \A r \in Requests : soc[r].readyState = "sent" ~> soc[r].shown # <<>>
=============================================================================
