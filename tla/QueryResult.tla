---------------------------- MODULE QueryResult ----------------------------
(***************************************************************************)
(* What /execute_query/ makes of Orion's answer: a table in text, built by *)
(* PrettyTable, or a JSON object.  The two loops over keyslices and their  *)
(* columns are the same; they differ in how a cell is added to a record    *)
(* and in what may raise.  No handler of do_POST catches what does, and    *)
(* the browser gets no response, or only the head of one.                  *)
(*                                                                         *)
(* A record is a function: a list is one from 1..n, a dict one from keys.  *)
(* A cell of a record is the position in the answer of what it shows.      *)
(***************************************************************************)
EXTENDS Integers, Sequences

CONSTANTS
  Columns,  \* column names
  BadNames, \* those that are no UTF-8
  Answers,  \* the answers that occur
  Formats   \* what the form's format field says: "text", or "json" for the rest

\* A value is a list of numbers that is not empty, which ",".join rejects; of a
\* type the code has no branch for; a string that is no UTF-8, already in its first
\* 30 bytes or only after them; one whose first 30 bytes alone are none, for they
\* end within a character; or none of these.  A list of strings may be no UTF-8.
Kind == {"plain", "numbers", "unknown", "bytes", "tail", "cut"}
Cell == [column : Columns, kind : Kind]

ASSUME ResultAssumption ==
  /\ BadNames \subseteq Columns
  /\ Answers \subseteq Seq(Seq(Cell))
  /\ Formats \subseteq {"text", "json"}

VARIABLES
  fmt, ret,  \* the format and the answer
  i, j,      \* the keyslice and the column at hand
  columns,   \* the names in the table's heading
  rows,      \* the records that are complete
  record,    \* recordData
  status     \* "run", "sent", "truncated" after the head, or "raised" before it

vars == <<fmt, ret, i, j, columns, rows, record, status>>

EmptyRecord == [k \in {} |-> 0]
Put(f, k, v) == [x \in DOMAIN f \cup {k} |-> IF x = k THEN v ELSE f[x]]
Raise == status' = "raised" /\ UNCHANGED <<i, j, columns, rows, record>>

Listed(c) == \E k \in DOMAIN columns : columns[k] = c

\* The branches on iVtype: "Undefined" is no index of a list, but a dict's value.
Converts(cell) ==
  cell.kind # "numbers" /\ (cell.kind = "unknown" => fmt = "json")

\* Mutant: text shows the whole string.
DecodesWhole(cell) == cell.kind \notin {"bytes", "tail"}
\* What is written of the value decodes: sVvalue[:30] in text, all of it in JSON.
Decodes(cell) ==
  cell.kind \notin (IF fmt = "text" THEN {"bytes", "cut"} ELSE {"bytes", "tail"})

\* PrettyTable: add_column of a column without values, and add_row.
AddsColumn == rows = <<>>
AddsRow(n) == n = Len(columns)

\* recordData.append(...), or recordData[column.sVcolumn] = ...
Key(cell) == IF fmt = "text" THEN j ELSE cell.column

\* The next column of the keyslice.
AddCell ==
  LET cell == ret[i][j] IN
  /\ status = "run" /\ i <= Len(ret) /\ j <= Len(ret[i])
  /\ IF /\ fmt = "text" => Listed(cell.column) \/ AddsColumn
        /\ Converts(cell)
     THEN /\ columns' = IF Listed(cell.column) THEN columns
                        ELSE Append(columns, cell.column)
          /\ record' = Put(record, Key(cell), <<i, j>>)
          /\ j' = j + 1
          /\ UNCHANGED <<i, rows, status>>
     ELSE Raise
  /\ UNCHANGED <<fmt, ret>>

\* Mutant: the record is not made anew for each keyslice.
KeepRecord == record
NewRecord == EmptyRecord

\* The end of a keyslice: add_row(recordData), or data['data'].append.
EndRow ==
  /\ status = "run" /\ i <= Len(ret) /\ j > Len(ret[i])
  /\ IF fmt = "text" => AddsRow(Len(ret[i]))
     THEN /\ rows' = Append(rows, record)
          /\ record' = NewRecord
          /\ i' = i + 1 /\ j' = 1
          /\ UNCHANGED <<columns, status>>
     ELSE Raise
  /\ UNCHANGED <<fmt, ret>>

\* The cell of the answer that a cell of a record shows.
Shown(place) == ret[place[1]][place[2]]

\* str(PrettyTable) and json.dumps decode every byte string of the table.
Encodes ==
  /\ \A k \in DOMAIN columns : columns[k] \notin BadNames
  /\ \A r \in DOMAIN rows : \A k \in DOMAIN rows[r] : Decodes(Shown(rows[r][k]))

\* Text has sent the status 200 and the headers before str() raises; json.dumps
\* raises before that.
Respond ==
  /\ status = "run" /\ i > Len(ret)
  /\ status' = IF Encodes THEN "sent" ELSE IF fmt = "text" THEN "truncated" ELSE "raised"
  /\ UNCHANGED <<fmt, ret, i, j, columns, rows, record>>

-----------------------------------------------------------------------------
Init ==
  /\ fmt \in Formats /\ ret \in Answers
  /\ i = 1 /\ j = 1
  /\ columns = <<>> /\ rows = <<>> /\ record = EmptyRecord
  /\ status = "run"

Next == AddCell \/ EndRow \/ Respond

Spec == Init /\ [][Next]_vars
-----------------------------------------------------------------------------
\* Properties.

Names(slice) == {slice[k].column : k \in DOMAIN slice}

\* What a record of a keyslice may hold: cells of its own.
RecordOf(r) ==
  UNION {[S -> {r} \X DOMAIN ret[r]] :
           S \in IF fmt = "text" THEN {1..n : n \in 0..Len(ret[r])} ELSE SUBSET Columns}

\* Every variable holds a value of its type; a record shows cells of its own
\* keyslice only.
TypeOK ==
  /\ fmt \in Formats /\ ret \in Seq(Seq(Cell))
  /\ i \in 1..Len(ret) + 1 /\ j \in Nat \ {0}
  /\ columns \in Seq(Columns)
  /\ Len(rows) = i - 1 /\ \A r \in DOMAIN rows : rows[r] \in RecordOf(r)
  /\ i <= Len(ret) => j <= Len(ret[i]) + 1 /\ record \in RecordOf(i)
  /\ status \in {"run", "sent", "truncated", "raised"}

\* The answers that fit in a table whose columns are those of the first record.
Tabular ==
  \A r \in DOMAIN ret :
    /\ Len(ret[r]) = Len(ret[1]) /\ Names(ret[r]) \subseteq Names(ret[1])
    /\ \A k, l \in DOMAIN ret[1] : ret[1][k].column = ret[1][l].column => k = l

Buildable ==
  /\ \A r \in DOMAIN ret : \A k \in DOMAIN ret[r] : Converts(ret[r][k])
  /\ fmt = "text" => Tabular

\* Cell k of record r is written: JSON keeps the last of equal names.
Written(r, k) ==
  fmt = "json" => \A l \in DOMAIN ret[r] : l > k => ret[r][l].column # ret[r][k].column

\* A value is UTF-8; its first 30 bytes are.
ValidWhole(cell) == cell.kind \notin {"bytes", "tail"}
ValidHead(cell) == cell.kind \notin {"bytes", "cut"}

\* Every name is UTF-8, and of what is written of the values each: the head in
\* text, all of it in JSON.
Encodable ==
  \A r \in DOMAIN ret : \A k \in DOMAIN ret[r] :
    /\ ret[r][k].column \notin BadNames
    /\ fmt = "text" => ValidHead(ret[r][k])
    /\ fmt = "json" /\ Written(r, k) => ValidWhole(ret[r][k])

\* A whole response is sent if and only if every value has a branch that can take
\* it, for text no record has more, fewer or other columns than the first, and
\* all that is written is UTF-8.  If only the last fails, text gets the head of a
\* response, which the browser takes for an empty one, and JSON gets none.
AnsweredIfAnswerable ==
  /\ status = "sent" => Buildable /\ Encodable
  /\ status = "truncated" => fmt = "text" /\ Buildable /\ ~Encodable
  /\ status = "raised" => ~Buildable \/ (fmt = "json" /\ ~Encodable)

\* A text table has every cell in one place, in its record's order, and its
\* heading is the first record's: a cell is under its own name only if its record
\* has the first one's order.
TextTable ==
  fmt = "text" /\ status = "sent" =>
    /\ Len(rows) = Len(ret)
    /\ \A r \in DOMAIN rows :
         /\ rows[r] = [k \in DOMAIN ret[r] |-> <<r, k>>]
         /\ DOMAIN rows[r] = DOMAIN columns
    /\ \A k \in DOMAIN columns : columns[k] = ret[1][k].column

\* A JSON table shows under each name the last cell of that name in its record and
\* no other, and its heading has each name of the answer once.
JsonTable ==
  fmt = "json" /\ status = "sent" =>
    /\ Len(rows) = Len(ret)
    /\ \A r \in DOMAIN rows :
         /\ DOMAIN rows[r] = Names(ret[r])
         /\ \A c \in DOMAIN rows[r] : \E k \in DOMAIN ret[r] :
              /\ rows[r][c] = <<r, k>> /\ ret[r][k].column = c
              /\ \A l \in DOMAIN ret[r] : l > k => ret[r][l].column # c
    /\ {columns[k] : k \in DOMAIN columns} = UNION {Names(ret[r]) : r \in DOMAIN ret}
    /\ \A k, l \in DOMAIN columns : columns[k] = columns[l] => k = l
=============================================================================
