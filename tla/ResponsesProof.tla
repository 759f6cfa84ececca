--------------------------- MODULE ResponsesProof ---------------------------
(***************************************************************************)
(* What holds of Responses for any answers.  Both loops keep, at every     *)
(* step, that what they have built is what their property says of the part *)
(* of the answer they have read.  The one argument that is not about a     *)
(* single step is about the text table: its heading is as long as the      *)
(* first record as long as no name has come twice in it.                   *)
(***************************************************************************)
EXTENDS Responses, SequenceTheorems, TLAPS

\* The cells read when the loop is at cell b of keyslice a.
Read(r, k, a, b) ==
  r \in DOMAIN ret /\ k \in DOMAIN ret[r] /\ (r < a \/ (r = a /\ k < b))

\* A record f that shows the first n cells of keyslice r.
Shows(f, r, n) ==
  /\ fmt = "text" => f = [k \in 1 .. n |-> <<r, k>>]
  /\ fmt = "json" =>
       /\ f \in [{ret[r][k].column : k \in 1 .. n} -> {r} \X (1 .. n)]
       /\ \A c \in DOMAIN f : \E k \in 1 .. n :
            /\ f[c] = <<r, k>> /\ ret[r][k].column = c
            /\ \A l \in k + 1 .. n : ret[r][l].column # c

Records == UNION {[S -> Nat \X Nat] : S \in SUBSET (Nat \cup Columns)}

Types ==
  /\ fmt \in {"text", "json"} /\ fmt \in Formats /\ ret \in Seq(Seq(Cell))
  /\ i \in 1 .. Len(ret) + 1 /\ j \in Nat \ {0}
  /\ i <= Len(ret) => j <= Len(ret[i]) + 1
  /\ i > Len(ret) => j = 1
  /\ columns \in Seq(Columns)
  /\ rows \in Seq(Records) /\ Len(rows) = i - 1
  /\ status \in {"run", "sent", "truncated", "raised"}

Built ==
  /\ Shows(record, i, j - 1)
  /\ \A r \in 1 .. i - 1 : Shows(rows[r], r, Len(ret[r]))

\* The heading has the names read, each once.
Heading ==
  /\ \A m, n \in DOMAIN columns : columns[m] = columns[n] => m = n
  /\ \A r, k : Read(r, k, i, j) => Listed(ret[r][k].column)
  /\ \A m \in DOMAIN columns :
       \E r \in DOMAIN ret : \E k \in DOMAIN ret[r] :
         Read(r, k, i, j) /\ ret[r][k].column = columns[m]

\* In the first record of a text table: no name came twice, or one did.
FirstHeading ==
  /\ fmt = "text" /\ i = 1 =>
       \/ Len(columns) = j - 1 /\ \A k \in 1 .. j - 1 : columns[k] = ret[1][k].column
       \/ Len(columns) < j - 1 /\ \E k, l \in 1 .. j - 1 :
                                     k # l /\ ret[1][k].column = ret[1][l].column
  /\ fmt = "text" /\ i > 1 =>
       /\ Len(columns) = Len(ret[1]) /\ \A k \in 1 .. Len(ret[1]) : columns[k] = ret[1][k].column
       /\ \A r \in 1 .. i - 1 : Len(ret[r]) = Len(ret[1])

Outcome ==
  /\ \A r, k : Read(r, k, i, j) => Converts(ret[r][k])
  /\ status \in {"sent", "truncated"} => i = Len(ret) + 1
  /\ status = "sent" => Encodes
  /\ status = "truncated" => fmt = "text" /\ ~Encodes
  /\ status = "raised" =>
       ~Buildable \/ (fmt = "json" /\ i = Len(ret) + 1 /\ ~Encodes)

QInv == Types /\ Built /\ Heading /\ FirstHeading /\ Outcome

-----------------------------------------------------------------------------
LEMMA TypesOf ==
  ASSUME Types
  PROVE  /\ Len(ret) \in Nat /\ DOMAIN ret = 1 .. Len(ret)
         /\ Len(columns) \in Nat /\ DOMAIN columns = 1 .. Len(columns)
         /\ \A r \in 1 .. Len(ret) :
              /\ ret[r] \in Seq(Cell) /\ Len(ret[r]) \in Nat
              /\ DOMAIN ret[r] = 1 .. Len(ret[r])
              /\ \A k \in 1 .. Len(ret[r]) : ret[r][k] \in Cell /\ ret[r][k].column \in Columns
<1>1. ret \in Seq(Seq(Cell)) /\ columns \in Seq(Columns)
  BY DEF Types
<1>2. Len(ret) \in Nat /\ DOMAIN ret = 1 .. Len(ret)
      /\ Len(columns) \in Nat /\ DOMAIN columns = 1 .. Len(columns)
  BY <1>1
<1>3. ASSUME NEW r \in 1 .. Len(ret)
      PROVE  /\ ret[r] \in Seq(Cell) /\ Len(ret[r]) \in Nat
             /\ DOMAIN ret[r] = 1 .. Len(ret[r])
             /\ \A k \in 1 .. Len(ret[r]) : ret[r][k] \in Cell /\ ret[r][k].column \in Columns
  <2>1. ret[r] \in Seq(Cell)
    BY <1>1, <1>2, ElementOfSeq
  <2>2. Len(ret[r]) \in Nat /\ DOMAIN ret[r] = 1 .. Len(ret[r])
    BY <2>1, LenProperties
  <2>3. ASSUME NEW k \in 1 .. Len(ret[r]) PROVE ret[r][k] \in Cell
    BY <2>1, <2>3, ElementOfSeq
  <2>4. \A x \in Cell : x.column \in Columns
    BY DEF Cell
  <2> QED BY <2>1, <2>2, <2>3, <2>4
<1> QED BY <1>2, <1>3

LEMMA InitQ == Init => QInv
<1> SUFFICES ASSUME Init PROVE QInv
  OBVIOUS
<1>1. ret \in Seq(Seq(Cell)) /\ fmt \in {"text", "json"} /\ fmt \in Formats
  BY ResultAssumption DEF Init
<1>2. Len(ret) \in Nat /\ DOMAIN ret = 1 .. Len(ret)
  BY <1>1
<1>3. Len(columns) = 0 /\ Len(rows) = 0 /\ columns \in Seq(Columns) /\ rows \in Seq(Records)
      /\ DOMAIN columns = {}
  BY DEF Init
<1>4. ASSUME NEW r \in 1 .. Len(ret) PROVE Len(ret[r]) \in Nat
  BY <1>1, <1>2, ElementOfSeq, LenProperties
<1>5. Types
  BY <1>1, <1>2, <1>3, <1>4 DEF Init, Types
<1>6. ASSUME NEW r, NEW k PROVE ~Read(r, k, i, j)
  BY <1>1, <1>2, <1>4, <1>5, TypesOf DEF Init, Read
<1>7. Heading
  BY <1>3, <1>6 DEF Heading
<1>8. Outcome
  BY <1>6 DEF Init, Outcome
<1>9. FirstHeading
  BY <1>3 DEF Init, FirstHeading
<1>10. Built
  <2>1. record = EmptyRecord /\ i = 1 /\ j = 1
    BY DEF Init
  <2>2. record = [k \in 1 .. j - 1 |-> <<i, k>>]
    BY <2>1 DEF EmptyRecord
  <2>3. {ret[i][k].column : k \in 1 .. j - 1} = {} /\ DOMAIN record = {}
    BY <2>1, <2>2
  <2>4. record \in [{} -> {i} \X (1 .. j - 1)]
    BY <2>1 DEF EmptyRecord
  <2>5. Shows(record, i, j - 1)
    BY <2>2, <2>3, <2>4 DEF Shows
  <2> QED BY <2>1, <2>5 DEF Built
<1> QED BY <1>5, <1>7, <1>8, <1>9, <1>10 DEF QInv

-----------------------------------------------------------------------------
\* The loop is at a cell of the answer.
AtCell == i <= Len(ret) /\ j <= Len(ret[i])

\* The answer does not change, nor what a record shows of it.
LEMMA StillShows ==
  ASSUME UNCHANGED <<fmt, ret>>, NEW f, NEW r, NEW n, Shows(f, r, n)
  PROVE  Shows(f, r, n)'
<1>1. {ret'[r][k].column : k \in 1 .. n} = {ret[r][k].column : k \in 1 .. n}
  OBVIOUS
<1>2. CASE fmt = "text"
  BY <1>2 DEF Shows
<1>3. CASE fmt = "json"
  BY <1>1, <1>3 DEF Shows
<1>4. CASE fmt \notin {"text", "json"}
  BY <1>4 DEF Shows
<1> QED BY <1>2, <1>3, <1>4

LEMMA StillBuildable ==
  ASSUME UNCHANGED <<fmt, ret>>
  PROVE  Buildable' <=> Buildable
<1>1. Tabular' <=> Tabular
  BY DEF Tabular
<1>2. \A cell : Converts(cell)' <=> Converts(cell)
  BY DEF Converts
<1> QED BY <1>1, <1>2 DEF Buildable

LEMMA StillEncodes ==
  ASSUME UNCHANGED <<fmt, ret, columns, rows>>
  PROVE  Encodes' <=> Encodes
<1>1. \A place : Shown(place)' = Shown(place)
  BY DEF Shown
<1>2. \A cell : Decodes(cell)' <=> Decodes(cell)
  BY DEF Decodes
<1> QED BY <1>1, <1>2 DEF Encodes

\* What putting the cell into the record does.
LEMMA PutShows ==
  ASSUME Types, AtCell, Shows(record, i, j - 1)
  PROVE  Shows(Put(record, Key(ret[i][j]), <<i, j>>), i, j)
<1> DEFINE f == Put(record, Key(ret[i][j]), <<i, j>>)
<1>1. i \in 1 .. Len(ret) /\ j \in 1 .. Len(ret[i]) /\ j \in Nat /\ 1 .. j = (1 .. j - 1) \cup {j}
      /\ j \notin 1 .. j - 1
  BY TypesOf DEF Types, AtCell
<1>2. CASE fmt = "text"
  <2>1. record = [k \in 1 .. j - 1 |-> <<i, k>>] /\ Key(ret[i][j]) = j
    BY <1>2 DEF Shows, Key
  <2>2. f = [k \in 1 .. j |-> <<i, k>>]
    BY <1>1, <2>1 DEF Put
  <2> QED BY <1>2, <2>2 DEF Shows
<1>3. CASE fmt = "json"
  <2> DEFINE d == ret[i][j].column
             old == {ret[i][k].column : k \in 1 .. j - 1}
  <2>1. Key(ret[i][j]) = d
    BY <1>3 DEF Key
  <2>2. /\ record \in [old -> {i} \X (1 .. j - 1)]
        /\ \A c \in old : \E k \in 1 .. j - 1 :
             /\ record[c] = <<i, k>> /\ ret[i][k].column = c
             /\ \A l \in k + 1 .. j - 1 : ret[i][l].column # c
    BY <1>3 DEF Shows
  <2>3. {ret[i][k].column : k \in 1 .. j} = old \cup {d}
    BY <1>1
  <2>4. DOMAIN f = old \cup {d} /\ f = [x \in old \cup {d} |-> IF x = d THEN <<i, j>> ELSE record[x]]
    BY <2>1, <2>2 DEF Put
  <2> HIDE DEF f, old
  <2>5. ASSUME NEW c \in old \cup {d}
        PROVE  /\ f[c] \in {i} \X (1 .. j)
               /\ \E k \in 1 .. j : /\ f[c] = <<i, k>> /\ ret[i][k].column = c
                                    /\ \A l \in k + 1 .. j : ret[i][l].column # c
    <3>1. CASE c = d
      BY <1>1, <2>4, <3>1
    <3>2. CASE c # d
      <4>1. c \in old /\ f[c] = record[c]
        BY <2>4, <3>2
      <4>2. PICK k \in 1 .. j - 1 : /\ record[c] = <<i, k>> /\ ret[i][k].column = c
                                    /\ \A l \in k + 1 .. j - 1 : ret[i][l].column # c
        BY <2>2, <4>1
      <4>3. k \in 1 .. j /\ \A l \in k + 1 .. j : l = j \/ l \in k + 1 .. j - 1
        BY <1>1
      <4>4. \A l \in k + 1 .. j : ret[i][l].column # c
        BY <3>2, <4>2, <4>3
      <4> QED BY <4>1, <4>2, <4>3, <4>4
    <3> QED BY <3>1, <3>2
  <2>6. f \in [old \cup {d} -> {i} \X (1 .. j)]
    BY <2>4, <2>5
  <2>7. Shows(f, i, j)
    BY <1>3, <2>3, <2>4, <2>5, <2>6 DEF Shows
  <2> QED BY <2>7 DEF f
<1> QED BY <1>2, <1>3 DEF Types

LEMMA CellRead ==
  ASSUME Types, AtCell, NEW r, NEW k
  PROVE  Read(r, k, i, j + 1) <=> Read(r, k, i, j) \/ (r = i /\ k = j)
<1>1. i \in 1 .. Len(ret) /\ j \in 1 .. Len(ret[i]) /\ i \in DOMAIN ret /\ j \in DOMAIN ret[i]
  BY TypesOf DEF Types, AtCell
<1>2. CASE r \in DOMAIN ret /\ k \in DOMAIN ret[r]
  <2>1. r \in Int /\ k \in Int
    BY <1>2, TypesOf
  <2> QED BY <1>1, <1>2, <2>1 DEF Read
<1>3. CASE ~(r \in DOMAIN ret /\ k \in DOMAIN ret[r])
  BY <1>1, <1>3 DEF Read
<1> QED BY <1>2, <1>3

LEMMA AddStep ==
  ASSUME QInv, AddCell, status' = "run"
  PROVE  QInv'
<1> DEFINE cell == ret[i][j]
<1>1. /\ status = "run" /\ AtCell /\ UNCHANGED <<fmt, ret, i, rows, status>> /\ j' = j + 1
      /\ columns' = IF Listed(cell.column) THEN columns ELSE Append(columns, cell.column)
      /\ record' = Put(record, Key(cell), <<i, j>>)
      /\ Converts(cell)
      /\ fmt = "text" => Listed(cell.column) \/ rows = <<>>
  BY DEF AddCell, AtCell, Raise, AddsColumn
<1>2. /\ i \in 1 .. Len(ret) /\ j \in 1 .. Len(ret[i]) /\ i \in DOMAIN ret /\ j \in DOMAIN ret[i]
      /\ cell.column \in Columns
  BY <1>1, TypesOf DEF QInv, Types, AtCell
<1>3. DOMAIN columns = 1 .. Len(columns) /\ Len(columns) \in Nat
  BY TypesOf DEF QInv
<1>5. \/ Listed(cell.column) /\ columns' = columns
      \/ /\ ~Listed(cell.column)
         /\ columns' \in Seq(Columns) /\ Len(columns') = Len(columns) + 1
         /\ DOMAIN columns' = 1 .. Len(columns) + 1
         /\ columns'[Len(columns) + 1] = cell.column
         /\ \A m \in 1 .. Len(columns) : columns'[m] = columns[m]
  <2>1. CASE Listed(cell.column)
    BY <1>1, <2>1
  <2>2. CASE ~Listed(cell.column)
    <3>1. columns' = Append(columns, cell.column) /\ columns \in Seq(Columns)
      BY <1>1, <2>2 DEF QInv, Types
    <3> QED BY <1>2, <2>2, <3>1, AppendProperties
  <2> QED BY <2>1, <2>2
<1> HIDE DEF cell
<1>6. Types'
  <2>1. j + 1 \in Nat \ {0} /\ j + 1 <= Len(ret[i]) + 1
    BY <1>2
  <2>2. columns' \in Seq(Columns)
    BY <1>5 DEF QInv, Types
  <2>3. i <= Len(ret)
    BY <1>1 DEF AtCell
  <2> QED BY <1>1, <2>1, <2>2, <2>3 DEF QInv, Types
<1>7. Built'
  <2>1. Shows(record', i, j)
    BY <1>1, PutShows DEF QInv, Built, cell
  <2>2. j' - 1 = j
    BY <1>1, <1>2
  <2>3. Shows(record', i', j' - 1)
    BY <1>1, <2>1, <2>2
  <2>4. \A r \in 1 .. i' - 1 : Shows(rows'[r], r, Len(ret'[r]))
    BY <1>1 DEF QInv, Built
  <2> QED BY <1>1, <2>3, <2>4, StillShows DEF Built
<1>8. \A r, k : Read(r, k, i, j)' <=> Read(r, k, i, j) \/ (r = i /\ k = j)
  <2>1. \A r, k : Read(r, k, i, j)' <=> Read(r, k, i, j + 1)
    BY <1>1 DEF Read
  <2> QED BY <1>1, <2>1, CellRead DEF QInv
<1>9. Heading'
  <2>1. \A m, n \in DOMAIN columns' : columns'[m] = columns'[n] => m = n
    <3>1. \A m, n \in 1 .. Len(columns) : columns[m] = columns[n] => m = n
      BY <1>3 DEF QInv, Heading
    <3>2. ~Listed(cell.column) => \A m \in 1 .. Len(columns) : columns[m] # cell.column
      BY <1>3 DEF Listed
    <3> QED BY <1>3, <1>5, <3>1, <3>2
  <2>2. \A c : Listed(c)' <=> Listed(c) \/ c = cell.column
    BY <1>3, <1>5 DEF Listed
  <2>3. \A r, k : Read(r, k, i, j)' => Listed(ret[r][k].column)'
    <3> SUFFICES ASSUME NEW r, NEW k, Read(r, k, i, j)'
                 PROVE  Listed(ret[r][k].column)'
      OBVIOUS
    <3>1. Listed(ret[r][k].column) \/ ret[r][k].column = cell.column
      BY <1>8 DEF QInv, Heading, cell
    <3>2. ret' = ret
      BY <1>1
    <3> QED BY <2>2, <3>1, <3>2
  <2>4. ASSUME NEW m \in DOMAIN columns'
        PROVE  \E r \in DOMAIN ret : \E k \in DOMAIN ret[r] :
                 Read(r, k, i, j)' /\ ret[r][k].column = columns'[m]
    <3>1. CASE m \in DOMAIN columns
      BY <1>3, <1>5, <1>8, <3>1 DEF QInv, Heading
    <3>2. CASE m \notin DOMAIN columns
      <4>1. columns'[m] = cell.column
        BY <1>3, <1>5, <3>2
      <4> QED BY <1>2, <1>8, <4>1 DEF cell
    <3> QED BY <3>1, <3>2
  <2> QED BY <1>1, <2>1, <2>3, <2>4 DEF Heading, Listed
<1>10. FirstHeading'
  <2>1. CASE fmt = "text" /\ i = 1
    <3>1. ASSUME Len(columns) = j - 1, \A k \in 1 .. j - 1 : columns[k] = ret[1][k].column,
                 Listed(cell.column)
          PROVE  \E k \in 1 .. j - 1 : ret[1][k].column = ret[1][j].column
      BY <1>3, <2>1, <3>1 DEF Listed, cell
    <3>2. 1 .. j = (1 .. j - 1) \cup {j} /\ j \notin 1 .. j - 1 /\ (j + 1) - 1 = j
      BY <1>2
    <3>3. CASE Len(columns) = j - 1 /\ \A k \in 1 .. j - 1 : columns[k] = ret[1][k].column
      <4>1. CASE Listed(cell.column)
        <5>1. Len(columns') < j /\ columns' = columns
          BY <1>1, <1>2, <3>3, <4>1
        <5>2. \E k, l \in 1 .. j : k # l /\ ret[1][k].column = ret[1][l].column
          BY <3>1, <3>2, <3>3, <4>1
        <5> QED BY <1>1, <2>1, <3>2, <5>1, <5>2 DEF FirstHeading
      <4>2. CASE ~Listed(cell.column)
        <5> Len(columns) + 1 = j
          BY <1>2, <3>3
        <5>1. Len(columns') = j /\ columns'[j] = ret[1][j].column
              /\ \A k \in 1 .. j - 1 : columns'[k] = ret[1][k].column
          BY <1>5, <2>1, <3>3, <4>2 DEF cell
        <5> QED BY <1>1, <2>1, <3>2, <5>1 DEF FirstHeading
      <4> QED BY <4>1, <4>2
    <3>4. CASE Len(columns) < j - 1 /\ \E k, l \in 1 .. j - 1 :
                                         k # l /\ ret[1][k].column = ret[1][l].column
      <4>1. Len(columns') < j
        BY <1>2, <1>3, <1>5, <3>4
      <4> QED BY <1>1, <2>1, <3>2, <3>4, <4>1 DEF FirstHeading
    <3> QED BY <2>1, <3>3, <3>4 DEF QInv, FirstHeading
  <2>2. CASE fmt = "text" /\ i > 1
    <3>1. rows # <<>>
      BY <2>2 DEF QInv, Types
    <3>2. columns' = columns
      BY <1>1, <1>5, <2>2, <3>1
    <3> QED BY <1>1, <2>2, <3>2 DEF QInv, FirstHeading
  <2>3. CASE fmt # "text"
    BY <1>1, <2>3 DEF FirstHeading
  <2> QED BY <1>2, <2>1, <2>2, <2>3
<1>11. Outcome'
  <2>1. \A r, k : Read(r, k, i, j)' => Converts(ret[r][k])
    BY <1>1, <1>8 DEF QInv, Outcome, cell
  <2> QED BY <1>1, <2>1 DEF Outcome, Converts
<1> QED BY <1>6, <1>7, <1>9, <1>10, <1>11 DEF QInv

\* Whatever raises, only the outcome changes.
LEMMA RaisedQ ==
  ASSUME QInv, ~Buildable, status' = "raised",
         UNCHANGED <<fmt, ret, i, j, columns, rows, record>>
  PROVE  QInv'
<1>1. Types' /\ FirstHeading'
  BY DEF QInv, Types, FirstHeading
<1>2. Built'
  <2>1. Shows(record', i', j' - 1)
    BY DEF QInv, Built
  <2>2. \A r \in 1 .. i' - 1 : Shows(rows'[r], r, Len(ret'[r]))
    BY DEF QInv, Built
  <2> QED BY <2>1, <2>2, StillShows DEF Built
<1>3. Heading'
  BY DEF QInv, Heading, Listed, Read
<1>4. Outcome'
  <2>1. \A r, k : Read(r, k, i, j)' => Converts(ret[r][k])'
    BY DEF QInv, Outcome, Read, Converts
  <2>2. ~Buildable'
    BY StillBuildable
  <2> QED BY <2>1, <2>2 DEF Outcome
<1> QED BY <1>1, <1>2, <1>3, <1>4 DEF QInv

\* A cell that cannot be added is one that Buildable forbids.
LEMMA CellRaises ==
  ASSUME QInv, AddCell, status' # "run"
  PROVE  QInv'
<1> DEFINE cell == ret[i][j]
<1>1. /\ status = "run" /\ AtCell /\ UNCHANGED <<fmt, ret, i, j, columns, rows, record>>
      /\ status' = "raised"
      /\ ~Converts(cell) \/ (fmt = "text" /\ ~Listed(cell.column) /\ rows # <<>>)
  BY DEF AddCell, AtCell, Raise, AddsColumn
<1>2. i \in 1 .. Len(ret) /\ j \in 1 .. Len(ret[i]) /\ i \in DOMAIN ret /\ j \in DOMAIN ret[i]
  BY <1>1, TypesOf DEF QInv, Types, AtCell
<1>3. ~Buildable
  <2>1. CASE ~Converts(cell)
    BY <1>2, <2>1 DEF Buildable
  <2>2. CASE fmt = "text" /\ ~Listed(cell.column) /\ rows # <<>>
    <3>1. i > 1
      <4>1. Len(rows) # 0
        BY <2>2, EmptySeq DEF QInv, Types
      <4> QED BY <1>2, <4>1 DEF QInv, Types
    <3>2. /\ Len(columns) = Len(ret[1]) /\ 1 \in 1 .. Len(ret)
          /\ \A k \in 1 .. Len(ret[1]) : columns[k] = ret[1][k].column
      BY <1>2, <2>2, <3>1, TypesOf DEF QInv, FirstHeading
    <3>3. DOMAIN ret[1] = DOMAIN columns /\ DOMAIN columns = 1 .. Len(ret[1])
      BY <3>2, TypesOf DEF QInv
    <3>4. cell.column \notin Names(ret[1])
      BY <2>2, <3>2, <3>3 DEF Listed, Names
    <3>5. cell.column \in Names(ret[i])
      BY <1>2 DEF Names
    <3> QED BY <1>2, <2>2, <3>4, <3>5 DEF Buildable, Tabular
  <2> QED BY <1>1, <2>1, <2>2
<1> QED BY <1>1, <1>3, RaisedQ

\* The first record fits the heading unless a name has come twice in it; the
\* others unless they are longer or shorter than the first.
LEMMA RowFits ==
  ASSUME QInv, fmt = "text", i <= Len(ret), j > Len(ret[i])
  PROVE  /\ AddsRow(Len(ret[i])) =>
              /\ Len(columns) = Len(ret[1])
              /\ \A k \in 1 .. Len(ret[1]) : columns[k] = ret[1][k].column
              /\ Len(ret[i]) = Len(ret[1])
         /\ ~AddsRow(Len(ret[i])) => ~Buildable
<1>1. i \in 1 .. Len(ret) /\ 1 \in 1 .. Len(ret) /\ j = Len(ret[i]) + 1 /\ j - 1 = Len(ret[i])
      /\ Len(ret[i]) \in Nat /\ DOMAIN ret = 1 .. Len(ret)
      /\ DOMAIN ret[1] = 1 .. Len(ret[1])
  BY TypesOf DEF QInv, Types
<1>2. CASE i = 1
  <2>1. CASE Len(columns) = j - 1 /\ \A k \in 1 .. j - 1 : columns[k] = ret[1][k].column
    BY <1>1, <1>2, <2>1 DEF AddsRow
  <2>2. CASE Len(columns) < j - 1 /\ \E k, l \in 1 .. j - 1 :
                                       k # l /\ ret[1][k].column = ret[1][l].column
    <3>1. ~Tabular
      BY <1>1, <1>2, <2>2 DEF Tabular
    <3>2. ~AddsRow(Len(ret[i]))
      BY <1>1, <2>2, TypesOf DEF AddsRow, QInv
    <3> QED BY <3>1, <3>2 DEF Buildable
  <2> QED BY <1>2, <2>1, <2>2 DEF QInv, FirstHeading
<1>3. CASE i # 1
  <2>1. i > 1
    BY <1>1, <1>3
  <2>2. Len(columns) = Len(ret[1]) /\ \A k \in 1 .. Len(ret[1]) : columns[k] = ret[1][k].column
    BY <2>1 DEF QInv, FirstHeading
  <2>3. Len(ret[i]) # Len(ret[1]) => ~Buildable
    BY <1>1 DEF Buildable, Tabular
  <2> QED BY <2>2, <2>3 DEF AddsRow
<1> QED BY <1>2, <1>3

LEMMA RowRead ==
  ASSUME Types, i <= Len(ret), j > Len(ret[i]), NEW r, NEW k
  PROVE  Read(r, k, i + 1, 1) <=> Read(r, k, i, j)
<1>1. i \in 1 .. Len(ret) /\ j = Len(ret[i]) + 1
  BY TypesOf DEF Types
<1>2. CASE r \in DOMAIN ret /\ k \in DOMAIN ret[r]
  <2>1. r \in Int /\ k \in Int /\ k <= Len(ret[r]) /\ k >= 1
    BY <1>2, TypesOf
  <2>2. r = i => k < j
    BY <1>1, <2>1
  <2> QED BY <1>1, <1>2, <2>1, <2>2 DEF Read
<1>3. CASE ~(r \in DOMAIN ret /\ k \in DOMAIN ret[r])
  BY <1>1, <1>3 DEF Read
<1> QED BY <1>2, <1>3

\* A record is one of Records.
LEMMA ShownIsRecord ==
  ASSUME Types, NEW r \in 1 .. Len(ret), NEW n \in 0 .. Len(ret[r]), NEW f, Shows(f, r, n)
  PROVE  f \in Records /\ f \in RecordOf(r)
<1>1. DOMAIN ret[r] = 1 .. Len(ret[r]) /\ Len(ret[r]) \in Nat /\ r \in Nat
      /\ \A k \in 1 .. Len(ret[r]) : ret[r][k].column \in Columns
  BY TypesOf
<1>2. 1 .. n \subseteq DOMAIN ret[r] /\ 1 .. n \subseteq Nat
  BY <1>1
<1>3. CASE fmt = "text"
  <2>1. f = [k \in 1 .. n |-> <<r, k>>]
    BY <1>3 DEF Shows
  <2>2. f \in [1 .. n -> {r} \X DOMAIN ret[r]] /\ f \in [1 .. n -> Nat \X Nat]
    BY <1>1, <1>2, <2>1
  <2> QED BY <1>2, <1>3, <2>2 DEF Records, RecordOf
<1>4. CASE fmt = "json"
  <2> DEFINE S == {ret[r][k].column : k \in 1 .. n}
  <2>1. f \in [S -> {r} \X (1 .. n)]
    BY <1>4 DEF Shows
  <2>2. S \subseteq Columns
    BY <1>1
  <2> HIDE DEF S
  <2>3. f \in [S -> {r} \X DOMAIN ret[r]] /\ f \in [S -> Nat \X Nat]
    BY <1>1, <1>2, <2>1
  <2> QED BY <1>4, <2>2, <2>3 DEF Records, RecordOf
<1> QED BY <1>3, <1>4 DEF Types

LEMMA RowStep ==
  ASSUME QInv, EndRow
  PROVE  QInv'
<1>1. /\ status = "run" /\ UNCHANGED <<fmt, ret>> /\ i <= Len(ret) /\ j > Len(ret[i])
  BY DEF EndRow
<1>2. /\ i \in 1 .. Len(ret) /\ Len(ret[i]) \in Nat /\ j - 1 = Len(ret[i]) /\ Len(ret) \in Nat
      /\ i \in Nat
  <2>1. Len(ret) \in Nat /\ i \in 1 .. Len(ret)
    BY <1>1, TypesOf DEF QInv, Types
  <2>2. Len(ret[i]) \in Nat
    BY <2>1, TypesOf DEF QInv
  <2>3. j \in Nat /\ j <= Len(ret[i]) + 1 /\ j > Len(ret[i])
    BY <1>1 DEF QInv, Types
  <2>4. j - 1 = Len(ret[i])
    BY <2>2, <2>3
  <2> QED BY <2>1, <2>2, <2>4
<1>3. CASE fmt = "text" => AddsRow(Len(ret[i]))
  <2>1. /\ rows' = Append(rows, record) /\ record' = EmptyRecord /\ i' = i + 1 /\ j' = 1
        /\ UNCHANGED <<columns, status, fmt, ret>>
    BY <1>3 DEF EndRow, NewRecord
  <2>2. record \in Records
    <3>1. Shows(record, i, Len(ret[i])) /\ Len(ret[i]) \in 0 .. Len(ret[i])
      BY <1>2 DEF QInv, Built
    <3> QED BY <1>2, <3>1, ShownIsRecord DEF QInv
  <2>3. /\ rows' \in Seq(Records) /\ Len(rows') = i
        /\ \A r \in 1 .. i - 1 : rows'[r] = rows[r]
        /\ rows'[i] = record
    <3>1. rows \in Seq(Records) /\ Len(rows) = i - 1
      BY DEF QInv, Types
    <3>2. /\ Append(rows, record) \in Seq(Records)
          /\ Len(Append(rows, record)) = Len(rows) + 1
          /\ \A r \in 1 .. Len(rows) : Append(rows, record)[r] = rows[r]
          /\ Append(rows, record)[Len(rows) + 1] = record
      BY <2>2, <3>1, AppendProperties
    <3> QED BY <1>2, <2>1, <3>1, <3>2
  <2>4. Types'
    <3>1. i + 1 <= Len(ret) => 1 <= Len(ret[i + 1]) + 1
      BY <1>2, TypesOf DEF QInv
    <3>2. i + 1 \in 1 .. Len(ret) + 1 /\ (i + 1) - 1 = i
      BY <1>2
    <3> QED BY <1>1, <2>1, <2>3, <3>1, <3>2 DEF QInv, Types
  <2>5. Built'
    <3>1. ASSUME NEW r \in 1 .. i PROVE Shows(rows'[r], r, Len(ret[r]))
      <4>1. CASE r \in 1 .. i - 1
        BY <2>3, <4>1 DEF QInv, Built
      <4>2. CASE r = i
        BY <1>2, <2>3, <4>2 DEF QInv, Built
      <4> QED BY <1>2, <4>1, <4>2
    <3>2. Shows(record', i', j' - 1)
      <4>1. 1 .. j' - 1 = {}
        BY <2>1
      <4>2. record' = [k \in 1 .. j' - 1 |-> <<i', k>>]
        BY <2>1, <4>1 DEF EmptyRecord
      <4>3. {ret[i'][k].column : k \in 1 .. j' - 1} = {}
        BY <4>1
      <4>4. record' \in [{} -> {i'} \X (1 .. j' - 1)] /\ DOMAIN record' = {}
        BY <2>1 DEF EmptyRecord
      <4> QED BY <4>2, <4>3, <4>4 DEF Shows
    <3>3. ASSUME NEW r \in 1 .. i' - 1 PROVE Shows(rows'[r], r, Len(ret'[r]))
      <4>1. r \in 1 .. i /\ ret'[r] = ret[r]
        BY <1>2, <2>1
      <4> QED BY <3>1, <4>1
    <3> QED BY <2>1, <3>2, <3>3, StillShows DEF Built
  <2>6. \A r, k : Read(r, k, i, j)' <=> Read(r, k, i, j)
    <3>1. \A r, k : Read(r, k, i, j)' <=> Read(r, k, i + 1, 1)
      BY <2>1 DEF Read
    <3> QED BY <1>1, <3>1, RowRead DEF QInv
  <2>7. Heading'
    <3>1. \A c : Listed(c)' <=> Listed(c)
      BY <2>1 DEF Listed
    <3>2. \A r, k : Read(r, k, i, j)' => Listed(ret[r][k].column)'
      <4> SUFFICES ASSUME NEW r, NEW k, Read(r, k, i, j)'
                   PROVE  Listed(ret[r][k].column)'
        OBVIOUS
      <4>1. Listed(ret[r][k].column) /\ ret' = ret
        BY <2>1, <2>6 DEF QInv, Heading
      <4> QED BY <3>1, <4>1
    <3> QED BY <2>1, <2>6, <3>1, <3>2 DEF QInv, Heading
  <2>8. FirstHeading'
    <3>1. CASE fmt = "text"
      <4>1. /\ Len(columns) = Len(ret[1])
            /\ \A k \in 1 .. Len(ret[1]) : columns[k] = ret[1][k].column
            /\ Len(ret[i]) = Len(ret[1])
        BY <1>1, <1>3, <3>1, RowFits
      <4>2. \A r \in 1 .. i - 1 : Len(ret[r]) = Len(ret[1])
        BY <1>2, <3>1 DEF QInv, FirstHeading
      <4>3. i' # 1 /\ \A r \in 1 .. i' - 1 : r = i \/ r \in 1 .. i - 1
        BY <1>2, <2>1
      <4> QED BY <2>1, <4>1, <4>2, <4>3 DEF FirstHeading
    <3>2. CASE fmt # "text"
      BY <2>1, <3>2 DEF FirstHeading
    <3> QED BY <3>1, <3>2
  <2>9. Outcome'
    <3>1. \A r, k : Read(r, k, i, j)' => Converts(ret[r][k])'
      BY <2>1, <2>6 DEF QInv, Outcome, Converts
    <3> QED BY <1>1, <2>1, <3>1 DEF Outcome
  <2> QED BY <2>4, <2>5, <2>7, <2>8, <2>9 DEF QInv
<1>4. CASE fmt = "text" /\ ~AddsRow(Len(ret[i]))
  <2>1. status' = "raised" /\ UNCHANGED <<fmt, ret, i, j, columns, rows, record>>
    BY <1>4 DEF EndRow, Raise
  <2>2. ~Buildable
    BY <1>1, <1>4, RowFits
  <2> QED BY <2>1, <2>2, RaisedQ
<1> QED BY <1>3, <1>4

LEMMA NextQ == QInv /\ [Next]_vars => QInv'
<1> SUFFICES ASSUME QInv, [Next]_vars PROVE QInv'
  OBVIOUS
<1>1. CASE AddCell
  BY <1>1, AddStep, CellRaises
<1>2. CASE EndRow
  BY <1>2, RowStep
<1>3. ASSUME UNCHANGED <<fmt, ret, i, j, columns, rows, record>>,
             \/ status' = status
             \/ i > Len(ret) /\ status' = "sent" /\ Encodes
             \/ i > Len(ret) /\ status' = "truncated" /\ fmt = "text" /\ ~Encodes
             \/ i > Len(ret) /\ status' = "raised" /\ fmt = "json" /\ ~Encodes
      PROVE  QInv'
  <2>1. Types'
    BY <1>3 DEF QInv, Types
  <2>2. Built'
    <3>1. Shows(record', i', j' - 1)
      BY <1>3 DEF QInv, Built
    <3>2. \A r \in 1 .. i' - 1 : Shows(rows'[r], r, Len(ret'[r]))
      BY <1>3 DEF QInv, Built
    <3> QED BY <1>3, <3>1, <3>2, StillShows DEF Built
  <2>3. Heading'
    BY <1>3 DEF QInv, Heading, Listed, Read
  <2>4. FirstHeading'
    BY <1>3 DEF QInv, FirstHeading
  <2>5. Outcome'
    <3>1. \A r, k : Read(r, k, i, j)' => Converts(ret[r][k])'
      BY <1>3 DEF QInv, Outcome, Read, Converts
    <3>2. Buildable' <=> Buildable
      BY <1>3, StillBuildable
    <3>4. Encodes' <=> Encodes
      BY <1>3, StillEncodes
    <3>3. i > Len(ret) => i = Len(ret) + 1
      BY TypesOf DEF QInv, Types
    <3> QED BY <1>3, <3>1, <3>2, <3>3, <3>4 DEF QInv, Outcome
  <2> QED BY <2>1, <2>2, <2>3, <2>4, <2>5 DEF QInv
<1>4. CASE Respond
  BY <1>3, <1>4 DEF Respond, QInv, Types
<1>5. CASE UNCHANGED vars
  BY <1>3, <1>5 DEF vars
<1> QED BY <1>1, <1>2, <1>4, <1>5 DEF Next

\* At the end of the loop every cell is read and every record is complete.
LEMMA AllRead ==
  ASSUME QInv, i = Len(ret) + 1
  PROVE  /\ i - 1 = Len(ret) /\ DOMAIN ret = 1 .. Len(ret)
         /\ \A r \in DOMAIN ret : \A k \in DOMAIN ret[r] : Read(r, k, i, j)
         /\ \A r \in DOMAIN ret : Shows(rows[r], r, Len(ret[r]))
         /\ DOMAIN rows = DOMAIN ret /\ Len(rows) = Len(ret)
<1>1. Len(ret) \in Nat /\ DOMAIN rows = 1 .. i - 1 /\ DOMAIN ret = 1 .. Len(ret)
  BY TypesOf, LenProperties DEF QInv, Types
<1>2. \A r \in 1 .. Len(ret) : r < i
  BY <1>1
<1> QED BY <1>1, <1>2, TypesOf DEF QInv, Types, Built, Read

\* Then the heading has the names of the answer.
LEMMA AllListed ==
  ASSUME QInv, i = Len(ret) + 1
  PROVE  \A c : (\E k \in DOMAIN columns : columns[k] = c)
                  <=> (\E r \in DOMAIN ret : \E k \in DOMAIN ret[r] : ret[r][k].column = c)
<1> SUFFICES ASSUME NEW c
             PROVE  (\E k \in DOMAIN columns : columns[k] = c)
                      <=> (\E r \in DOMAIN ret : \E k \in DOMAIN ret[r] : ret[r][k].column = c)
  OBVIOUS
<1>1. ASSUME NEW k \in DOMAIN columns, columns[k] = c
      PROVE  \E r \in DOMAIN ret : \E l \in DOMAIN ret[r] : ret[r][l].column = c
  BY <1>1 DEF QInv, Heading
<1>2. ASSUME NEW r \in DOMAIN ret, NEW k \in DOMAIN ret[r], ret[r][k].column = c
      PROVE  \E l \in DOMAIN columns : columns[l] = c
  <2>1. Listed(ret[r][k].column)
    BY <1>2, AllRead DEF QInv, Heading
  <2> QED BY <1>2, <2>1 DEF Listed
<1> QED BY <1>1, <1>2

\* The cells of a complete record are those that are written of it.
LEMMA RowDecodes ==
  ASSUME QInv, i = Len(ret) + 1, NEW r \in DOMAIN ret
  PROVE  (\A k \in DOMAIN rows[r] : Decodes(Shown(rows[r][k])))
           <=> (\A k \in DOMAIN ret[r] : Written(r, k) => Decodes(ret[r][k]))
<1> DEFINE n == Len(ret[r])
<1>1. DOMAIN ret[r] = 1 .. n /\ n \in Nat /\ Shows(rows[r], r, n)
  BY AllRead, TypesOf DEF QInv
<1>2. \A k : Shown(<<r, k>>) = ret[r][k]
  BY DEF Shown
<1> HIDE DEF n
<1>3. CASE fmt = "text"
  <2>1. rows[r] = [k \in 1 .. n |-> <<r, k>>]
    BY <1>1, <1>3 DEF Shows
  <2>2. DOMAIN rows[r] = 1 .. n /\ \A k \in 1 .. n : rows[r][k] = <<r, k>>
    BY <2>1
  <2>3. \A k : Written(r, k)
    BY <1>3 DEF Written
  <2> QED BY <1>1, <1>2, <2>2, <2>3
<1>4. CASE fmt = "json"
  <2>1. /\ DOMAIN rows[r] = {ret[r][k].column : k \in 1 .. n}
        /\ \A c \in DOMAIN rows[r] : \E k \in 1 .. n :
             /\ rows[r][c] = <<r, k>> /\ ret[r][k].column = c
             /\ \A l \in k + 1 .. n : ret[r][l].column # c
    BY <1>1, <1>4 DEF Shows
  <2>2. \A k, l \in 1 .. n : l > k <=> l \in k + 1 .. n
    BY <1>1
  <2>3. ASSUME NEW c \in DOMAIN rows[r]
        PROVE  \E k \in DOMAIN ret[r] : Written(r, k) /\ rows[r][c] = <<r, k>>
    <3>1. PICK k \in 1 .. n : /\ rows[r][c] = <<r, k>> /\ ret[r][k].column = c
                              /\ \A l \in k + 1 .. n : ret[r][l].column # c
      BY <2>1
    <3>2. Written(r, k)
      BY <1>1, <2>2, <3>1 DEF Written
    <3> QED BY <1>1, <3>1, <3>2
  <2>4. ASSUME NEW k \in DOMAIN ret[r], Written(r, k)
        PROVE  \E c \in DOMAIN rows[r] : rows[r][c] = <<r, k>>
    <3>1. ret[r][k].column \in DOMAIN rows[r]
      BY <1>1, <2>1
    <3>2. PICK m \in 1 .. n : /\ rows[r][ret[r][k].column] = <<r, m>>
                              /\ ret[r][m].column = ret[r][k].column
                              /\ \A l \in m + 1 .. n : ret[r][l].column # ret[r][k].column
      BY <2>1, <3>1
    <3>3. ~(m > k)
      BY <1>1, <1>4, <2>4, <3>2 DEF Written
    <3>4. ~(k > m)
      BY <1>1, <2>2, <3>2
    <3>5. m = k
      BY <1>1, <3>3, <3>4
    <3> QED BY <3>1, <3>2, <3>5
  <2> QED BY <1>2, <2>3, <2>4
<1> QED BY <1>3, <1>4 DEF QInv, Types

\* Encodes looks at the table, Encodable at the answer.
LEMMA EncodesAll ==
  ASSUME QInv, i = Len(ret) + 1
  PROVE  Encodes <=> Encodable
<1>1. (\A k \in DOMAIN columns : columns[k] \notin BadNames)
        <=> (\A r \in DOMAIN ret : \A k \in DOMAIN ret[r] : ret[r][k].column \notin BadNames)
  BY AllListed
<1>2. DOMAIN rows = DOMAIN ret
  BY AllRead
<1>3. \A r \in DOMAIN ret : \A k \in DOMAIN ret[r] :
        (Written(r, k) => Decodes(ret[r][k]))
          <=> /\ fmt = "text" => ValidHead(ret[r][k])
              /\ fmt = "json" /\ Written(r, k) => ValidWhole(ret[r][k])
  <2>1. fmt \in {"text", "json"}
    BY DEF QInv, Types
  <2>2. CASE fmt = "text"
    BY <2>2 DEF Written, Decodes, ValidHead
  <2>3. CASE fmt = "json"
    BY <2>3 DEF Decodes, ValidWhole
  <2> QED BY <2>1, <2>2, <2>3
<1> QED BY <1>1, <1>2, <1>3, RowDecodes DEF Encodes, Encodable

\* What the invariant says of a table that is complete.
LEMMA QueryOK == QInv => TypeOK /\ AnsweredIfAnswerable /\ TextTable /\ JsonTable
<1> SUFFICES ASSUME QInv PROVE TypeOK /\ AnsweredIfAnswerable /\ TextTable /\ JsonTable
  OBVIOUS
<1>1. Len(ret) \in Nat /\ i \in 1 .. Len(ret) + 1 /\ DOMAIN rows = 1 .. i - 1 /\ i \in Nat
      /\ j \in Nat /\ j >= 1
  BY TypesOf, LenProperties DEF QInv, Types
<1>2. TypeOK
  <2>1. ASSUME NEW r \in DOMAIN rows PROVE rows[r] \in RecordOf(r)
    <3>1. r \in 1 .. Len(ret) /\ r \in 1 .. i - 1
      BY <1>1
    <3>2. Shows(rows[r], r, Len(ret[r])) /\ Len(ret[r]) \in 0 .. Len(ret[r])
      BY <3>1, TypesOf DEF QInv, Built
    <3> QED BY <3>1, <3>2, ShownIsRecord DEF QInv
  <2>2. ASSUME i <= Len(ret) PROVE record \in RecordOf(i)
    <3>1. i \in 1 .. Len(ret) /\ Len(ret[i]) \in Nat
      BY <1>1, <2>2, TypesOf DEF QInv
    <3>2. Shows(record, i, j - 1) /\ j - 1 \in 0 .. Len(ret[i])
      BY <1>1, <2>2, <3>1 DEF QInv, Types, Built
    <3> QED BY <3>1, <3>2, ShownIsRecord DEF QInv
  <2> QED BY <2>1, <2>2 DEF QInv, Types, TypeOK
<1>3. ASSUME status = "sent"
      PROVE  /\ i = Len(ret) + 1 /\ i - 1 = Len(ret)
             /\ \A r \in DOMAIN ret : \A k \in DOMAIN ret[r] : Read(r, k, i, j)
             /\ \A r \in DOMAIN ret : Shows(rows[r], r, Len(ret[r]))
             /\ DOMAIN rows = DOMAIN ret /\ Len(rows) = Len(ret)
  <2>1. i = Len(ret) + 1
    BY <1>3 DEF QInv, Outcome
  <2> QED BY <2>1, AllRead
<1>4. AnsweredIfAnswerable
  <2>1. ASSUME i = Len(ret) + 1, status # "raised" PROVE Buildable
    <3>1. \A r \in DOMAIN ret : \A k \in DOMAIN ret[r] : Converts(ret[r][k])
      BY <2>1, AllRead DEF QInv, Outcome
    <3>2. ASSUME fmt = "text", NEW r \in DOMAIN ret
          PROVE  /\ Len(ret[r]) = Len(ret[1]) /\ Names(ret[r]) \subseteq Names(ret[1])
                 /\ \A k, l \in DOMAIN ret[1] : ret[1][k].column = ret[1][l].column => k = l
      <4>1. i > 1 /\ r \in 1 .. i - 1 /\ 1 \in 1 .. Len(ret)
        BY <1>1, <2>1, TypesOf DEF QInv
      <4>2. /\ Len(columns) = Len(ret[1]) /\ Len(ret[r]) = Len(ret[1])
            /\ \A k \in 1 .. Len(ret[1]) : columns[k] = ret[1][k].column
        BY <3>2, <4>1 DEF QInv, FirstHeading
      <4>3. DOMAIN columns = DOMAIN ret[1] /\ DOMAIN ret[1] = 1 .. Len(ret[1])
        BY <4>1, <4>2, TypesOf DEF QInv
      <4>4. \A k \in DOMAIN ret[r] : Listed(ret[r][k].column)
        BY <2>1, <3>2, AllRead DEF QInv, Heading
      <4>5. Names(ret[r]) \subseteq Names(ret[1])
        BY <4>2, <4>3, <4>4 DEF Names, Listed
      <4> QED BY <4>2, <4>3, <4>5 DEF QInv, Heading
    <3> QED BY <3>1, <3>2 DEF Buildable, Tabular
  <2> QED BY <2>1, EncodesAll DEF QInv, Outcome, AnsweredIfAnswerable
<1>5. TextTable
  <2> SUFFICES ASSUME fmt = "text", status = "sent"
               PROVE  /\ Len(rows) = Len(ret)
                      /\ \A r \in DOMAIN rows :
                           /\ rows[r] = [k \in DOMAIN ret[r] |-> <<r, k>>]
                           /\ DOMAIN rows[r] = DOMAIN columns
                      /\ \A k \in DOMAIN columns : columns[k] = ret[1][k].column
    BY DEF TextTable
  <2>1. ASSUME NEW r \in DOMAIN rows
        PROVE  /\ rows[r] = [k \in DOMAIN ret[r] |-> <<r, k>>]
               /\ DOMAIN rows[r] = DOMAIN columns
    <3>1. r \in 1 .. Len(ret) /\ r \in 1 .. i - 1 /\ i > 1 /\ 1 \in 1 .. Len(ret)
      BY <1>1, <1>3
    <3>2. rows[r] = [k \in 1 .. Len(ret[r]) |-> <<r, k>>]
      BY <1>3, <3>1, TypesOf DEF QInv, Shows
    <3>3. Len(columns) = Len(ret[r])
      BY <3>1 DEF QInv, FirstHeading
    <3>4. DOMAIN ret[r] = 1 .. Len(ret[r]) /\ DOMAIN columns = 1 .. Len(ret[r])
      BY <3>1, <3>3, TypesOf DEF QInv
    <3> QED BY <3>2, <3>4
  <2>2. ASSUME NEW k \in DOMAIN columns PROVE columns[k] = ret[1][k].column
    <3>1. i > 1
      BY <1>1, <1>3, <2>2, TypesOf DEF QInv, Heading
    <3> QED BY <2>2, <3>1, TypesOf DEF QInv, FirstHeading
  <2> QED BY <1>3, <2>1, <2>2
<1>6. JsonTable
  <2> SUFFICES ASSUME fmt = "json", status = "sent"
               PROVE  /\ Len(rows) = Len(ret)
                      /\ \A r \in DOMAIN rows :
                           /\ DOMAIN rows[r] = Names(ret[r])
                           /\ \A c \in DOMAIN rows[r] : \E k \in DOMAIN ret[r] :
                                /\ rows[r][c] = <<r, k>> /\ ret[r][k].column = c
                                /\ \A l \in DOMAIN ret[r] : l > k => ret[r][l].column # c
                      /\ {columns[k] : k \in DOMAIN columns}
                           = UNION {Names(ret[r]) : r \in DOMAIN ret}
                      /\ \A k, l \in DOMAIN columns : columns[k] = columns[l] => k = l
    BY DEF JsonTable
  <2>1. ASSUME NEW r \in DOMAIN rows
        PROVE  /\ DOMAIN rows[r] = Names(ret[r])
               /\ \A c \in DOMAIN rows[r] : \E k \in DOMAIN ret[r] :
                    /\ rows[r][c] = <<r, k>> /\ ret[r][k].column = c
                    /\ \A l \in DOMAIN ret[r] : l > k => ret[r][l].column # c
    <3>1. DOMAIN ret[r] = 1 .. Len(ret[r]) /\ Len(ret[r]) \in Nat /\ Shows(rows[r], r, Len(ret[r]))
      BY <1>3, TypesOf DEF QInv
    <3>2. Names(ret[r]) = {ret[r][k].column : k \in 1 .. Len(ret[r])}
      BY <3>1 DEF Names
    <3>3. DOMAIN rows[r] = Names(ret[r])
      BY <3>1, <3>2 DEF Shows
    <3>4. \A k, l \in 1 .. Len(ret[r]) : l > k => l \in k + 1 .. Len(ret[r])
      BY <3>1
    <3> QED BY <3>1, <3>3, <3>4 DEF Shows
  <2>2. ASSUME NEW c
        PROVE  (\E k \in DOMAIN columns : columns[k] = c)
                 <=> (\E r \in DOMAIN ret : \E k \in DOMAIN ret[r] : ret[r][k].column = c)
    <3>1. ASSUME NEW k \in DOMAIN columns, columns[k] = c
          PROVE  \E r \in DOMAIN ret : \E l \in DOMAIN ret[r] : ret[r][l].column = c
      BY <3>1 DEF QInv, Heading
    <3>2. ASSUME NEW r \in DOMAIN ret, NEW k \in DOMAIN ret[r], ret[r][k].column = c
          PROVE  \E l \in DOMAIN columns : columns[l] = c
      <4>1. Read(r, k, i, j)
        BY <1>3, <3>2
      <4>2. Listed(ret[r][k].column)
        BY <4>1 DEF QInv, Heading
      <4> QED BY <3>2, <4>2 DEF Listed
    <3> QED BY <3>1, <3>2
  <2>3. {columns[k] : k \in DOMAIN columns} = UNION {Names(ret[r]) : r \in DOMAIN ret}
    <3>1. ASSUME NEW c
          PROVE  c \in {columns[k] : k \in DOMAIN columns}
                   <=> c \in UNION {Names(ret[r]) : r \in DOMAIN ret}
      <4>1. c \in {columns[k] : k \in DOMAIN columns} <=> \E k \in DOMAIN columns : columns[k] = c
        OBVIOUS
      <4>2. c \in UNION {Names(ret[r]) : r \in DOMAIN ret}
              <=> \E r \in DOMAIN ret : c \in Names(ret[r])
        OBVIOUS
      <4>3. ASSUME NEW r \in DOMAIN ret
            PROVE  c \in Names(ret[r]) <=> \E k \in DOMAIN ret[r] : ret[r][k].column = c
        BY DEF Names
      <4> QED BY <2>2, <4>1, <4>2, <4>3
    <3> QED BY <3>1
  <2> QED BY <1>3, <2>1, <2>3 DEF QInv, Heading
<1> QED BY <1>2, <1>4, <1>5, <1>6
-----------------------------------------------------------------------------
\* The graph after the first m elements: what GraphShowsAnswer says of them.
Drawn(m) ==
  /\ datacenter = {response[k].dc : k \in 1 .. m}
  /\ DOMAIN node = {response[k].node : k \in 1 .. m}
  /\ \A n \in DOMAIN node : node[n] = {k \in 1 .. m : response[k].node = n}
  /\ DOMAIN parent = DOMAIN node
  /\ \A k \in 1 .. m :
       (\A l \in 1 .. k - 1 : response[l].node # response[k].node)
         => parent[response[k].node] = response[k].dc
  /\ \A k \in 1 .. m : response[k].state = "named"

GInv ==
  /\ response \in Seq(GossipElement) \cup {Unreachable}
  /\ at \in Nat \ {0}
  /\ response # Unreachable => at <= Len(response) + 1
  /\ outcome \in {"run", "sent", "silent"}
  /\ response # Unreachable /\ outcome # "silent" => Drawn(at - 1)
  /\ outcome = "sent" => response # Unreachable /\ at = Len(response) + 1
  /\ outcome = "silent" /\ response # Unreachable =>
       \E k \in DOMAIN response : response[k].state # "named"

LEMMA InitG == InitGraph => GInv
<1> SUFFICES ASSUME InitGraph PROVE GInv
  OBVIOUS
<1>1. response \in Seq(GossipElement) \cup {Unreachable}
  BY GossipAssumption DEF InitGraph
<1>2. at = 1 /\ outcome = "run" /\ datacenter = {} /\ 1 .. at - 1 = {}
  BY DEF InitGraph
<1>3. DOMAIN node = {} /\ DOMAIN parent = {}
  BY DEF InitGraph
<1>4. Drawn(at - 1)
  BY <1>2, <1>3 DEF Drawn
<1>5. response # Unreachable => Len(response) \in Nat
  BY <1>1
<1> QED BY <1>1, <1>2, <1>4, <1>5 DEF GInv

\* The answer does not change, nor what has been drawn of it.
LEMMA StillDrawn ==
  ASSUME UNCHANGED <<response, graph>>, NEW m, Drawn(m)
  PROVE  Drawn(m)'
<1>1. UNCHANGED <<response, datacenter, parent, node>>
  BY DEF graph
<1>2. /\ {response'[k].dc : k \in 1 .. m} = {response[k].dc : k \in 1 .. m}
      /\ {response'[k].node : k \in 1 .. m} = {response[k].node : k \in 1 .. m}
  BY <1>1
<1>3. \A n : {k \in 1 .. m : response'[k].node = n} = {k \in 1 .. m : response[k].node = n}
  BY <1>1
<1> QED BY <1>1, <1>2, <1>3 DEF Drawn

\* An element whose state has a name is drawn beside those before it.
LEMMA ElementDrawn ==
  ASSUME GInv, AddElement, response[at].state = "named", NEW m, m = at
  PROVE  Drawn(m)'
<1> DEFINE e == response[at]
<1>1. /\ outcome = "run" /\ response # Unreachable /\ at <= Len(response) /\ response' = response
      /\ datacenter' = datacenter \cup {e.dc}
      /\ parent' = IF NotInTree(e) THEN With(parent, e.node, e.dc) ELSE parent
      /\ node' = With(node, e.node, (IF NotInTree(e) THEN {} ELSE node[e.node]) \cup {at})
      /\ at' = at + 1
  BY DEF AddElement
<1>2. at \in Nat /\ 1 .. at = (1 .. at - 1) \cup {at} /\ at \notin 1 .. at - 1
  BY DEF GInv
<1>3. Drawn(at - 1)
  BY <1>1 DEF GInv
<1>4. NotInTree(e) <=> \A l \in 1 .. at - 1 : response[l].node # e.node
  BY <1>3 DEF NotInTree, Drawn
<1>5. DOMAIN node' = DOMAIN node \cup {e.node}
      /\ \A n \in DOMAIN node' :
           node'[n] = IF n = e.node
                      THEN (IF NotInTree(e) THEN {} ELSE node[e.node]) \cup {at} ELSE node[n]
  BY <1>1 DEF With
<1>6. /\ DOMAIN parent' = DOMAIN parent \cup {e.node}
      /\ \A n \in DOMAIN parent : n # e.node => parent'[n] = parent[n]
      /\ NotInTree(e) => parent'[e.node] = e.dc
      /\ ~NotInTree(e) => parent' = parent
  <2>1. CASE NotInTree(e)
    BY <1>1, <2>1 DEF With
  <2>2. CASE ~NotInTree(e)
    BY <1>1, <1>3, <2>2 DEF NotInTree, Drawn
  <2> QED BY <2>1, <2>2
<1>7. datacenter' = {response[k].dc : k \in 1 .. at}
  BY <1>1, <1>2, <1>3 DEF Drawn
<1>8. DOMAIN node' = {response[k].node : k \in 1 .. at}
  BY <1>2, <1>3, <1>5 DEF Drawn
<1>9. ASSUME NEW n \in DOMAIN node'
      PROVE  node'[n] = {k \in 1 .. at : response[k].node = n}
  <2>1. CASE n # e.node
    <3>1. n \in DOMAIN node /\ node'[n] = node[n]
      BY <1>5, <1>9, <2>1
    <3>2. node[n] = {k \in 1 .. at - 1 : response[k].node = n}
      BY <1>3, <3>1 DEF Drawn
    <3> QED BY <1>2, <2>1, <3>1, <3>2
  <2>2. CASE n = e.node /\ NotInTree(e)
    <3>1. node'[n] = {at}
      BY <1>5, <1>9, <2>2
    <3> QED BY <1>2, <1>4, <2>2, <3>1
  <2>3. CASE n = e.node /\ ~NotInTree(e)
    <3>1. node'[n] = node[n] \cup {at}
      BY <1>5, <1>9, <2>3
    <3>2. node[n] = {k \in 1 .. at - 1 : response[k].node = n}
      BY <1>3, <2>3 DEF Drawn, NotInTree
    <3> QED BY <1>2, <2>3, <3>1, <3>2
  <2> QED BY <2>1, <2>2, <2>3
<1>10. ASSUME NEW k \in 1 .. at, \A l \in 1 .. k - 1 : response[l].node # response[k].node
       PROVE  parent'[response[k].node] = response[k].dc
  <2>1. CASE k = at
    BY <1>4, <1>6, <1>10, <2>1
  <2>2. CASE k # at
    <3>1. k \in 1 .. at - 1
      BY <1>2, <2>2
    <3>2. parent[response[k].node] = response[k].dc /\ response[k].node \in DOMAIN parent
      BY <1>3, <1>10, <3>1 DEF Drawn
    <3>3. response[k].node = e.node => ~NotInTree(e)
      BY <1>4, <3>1
    <3> QED BY <1>6, <3>2, <3>3
  <2> QED BY <2>1, <2>2
<1>11. DOMAIN parent' = DOMAIN node'
  BY <1>3, <1>5, <1>6 DEF Drawn
<1>12. \A k \in 1 .. at : response[k].state = "named"
  BY <1>2, <1>3 DEF Drawn
<1> HIDE DEF e
<1>13. /\ datacenter' = {response'[k].dc : k \in 1 .. m}
       /\ DOMAIN node' = {response'[k].node : k \in 1 .. m}
       /\ \A n \in DOMAIN node' : node'[n] = {k \in 1 .. m : response'[k].node = n}
  <2>1. /\ {response'[k].dc : k \in 1 .. m} = {response[k].dc : k \in 1 .. at}
        /\ {response'[k].node : k \in 1 .. m} = {response[k].node : k \in 1 .. at}
    BY <1>1
  <2>2. ASSUME NEW n \in DOMAIN node'
        PROVE  node'[n] = {k \in 1 .. m : response'[k].node = n}
    <3>1. {k \in 1 .. m : response'[k].node = n} = {k \in 1 .. at : response[k].node = n}
      BY <1>1
    <3> QED BY <1>9, <2>2, <3>1
  <2> QED BY <1>7, <1>8, <2>1, <2>2
<1>14. /\ \A k \in 1 .. m :
            (\A l \in 1 .. k - 1 : response'[l].node # response'[k].node)
              => parent'[response'[k].node] = response'[k].dc
       /\ \A k \in 1 .. m : response'[k].state = "named"
  BY <1>1, <1>10, <1>12
<1> QED BY <1>11, <1>13, <1>14 DEF Drawn

LEMMA NextG == GInv /\ [NextGraph]_graphVars => GInv'
<1> SUFFICES ASSUME GInv, [NextGraph]_graphVars PROVE GInv'
  OBVIOUS
<1>1. CASE AddElement
  <2>1. /\ outcome = "run" /\ response # Unreachable /\ at <= Len(response) /\ response' = response
        /\ at \in DOMAIN response
    BY <1>1 DEF AddElement, GInv
  <2>2. CASE response[at].state = "named"
    <3>1. at' = at + 1 /\ outcome' = "run" /\ at' - 1 = at
      BY <1>1, <2>2 DEF AddElement, GInv
    <3>2. at' <= Len(response') + 1
      BY <2>1, <3>1 DEF GInv
    <3>3. Drawn(at - 1)'
      BY <1>1, <2>2, <3>1, ElementDrawn
    <3> QED BY <2>1, <3>1, <3>2, <3>3 DEF GInv
  <2>3. CASE response[at].state # "named"
    <3>1. at' = at /\ outcome' = "silent"
      BY <1>1, <2>3 DEF AddElement
    <3> QED BY <2>1, <2>3, <3>1 DEF GInv
  <2> QED BY <2>2, <2>3
<1>2. ASSUME UNCHANGED <<response, at, graph>>,
             \/ outcome' = outcome
             \/ outcome' = "sent" /\ outcome = "run" /\ response # Unreachable /\ at > Len(response)
             \/ outcome' = "silent" /\ response = Unreachable
      PROVE  GInv'
  <2>1. response # Unreachable /\ outcome' # "silent" => Drawn(at - 1)'
    <3> SUFFICES ASSUME response # Unreachable, outcome' # "silent" PROVE Drawn(at - 1)'
      OBVIOUS
    <3>1. Drawn(at - 1) /\ at' - 1 = at - 1
      BY <1>2 DEF GInv
    <3> QED BY <1>2, <3>1, StillDrawn
  <2>2. outcome' = "sent" => response # Unreachable /\ at = Len(response) + 1
    BY <1>2 DEF GInv
  <2> QED BY <1>2, <2>1, <2>2 DEF GInv
<1>3. CASE SendGraph
  BY <1>2, <1>3 DEF SendGraph
<1>4. CASE NoGraph
  BY <1>2, <1>4 DEF NoGraph
<1>5. CASE UNCHANGED graphVars
  BY <1>2, <1>5 DEF graphVars
<1> QED BY <1>1, <1>3, <1>4, <1>5 DEF NextGraph

LEMMA GraphOK == GInv => GraphShowsAnswer /\ GraphAnswered
<1> SUFFICES ASSUME GInv PROVE GraphShowsAnswer /\ GraphAnswered
  OBVIOUS
<1>1. ASSUME outcome = "sent"
      PROVE  /\ response # Unreachable /\ DOMAIN response = 1 .. Len(response)
             /\ at - 1 = Len(response) /\ Drawn(at - 1)
  BY <1>1 DEF GInv
<1>2. GraphShowsAnswer
  BY <1>1 DEF GraphShowsAnswer, Drawn
<1>3. outcome = "sent" => \A k \in DOMAIN response : response[k].state = "named"
  BY <1>1 DEF Drawn
<1> QED BY <1>1, <1>2, <1>3 DEF GraphAnswered, GInv

-----------------------------------------------------------------------------
LEMMA PostInv == SpecPOST => [](QInv /\ GInv)
<1>1. Ask => QInv /\ GInv
  BY InitQ, InitG DEF Ask
<1>2. QInv /\ GInv /\ [Build]_do_POST => QInv' /\ GInv'
  <2> SUFFICES ASSUME QInv, GInv, [Build]_do_POST PROVE QInv' /\ GInv'
    OBVIOUS
  <2>1. [Next]_vars /\ [NextGraph]_graphVars
    BY DEF Build, do_POST
  <2> QED BY <2>1, NextQ, NextG
<1> QED BY <1>1, <1>2, PTL DEF SpecPOST

\* Every variable of the query's loop holds a value of its type, and a record
\* shows cells of its own keyslice only (do_POST, /execute_query/).
THEOREM TypeCorrect == SpecPOST => []TypeOK
<1>1. QInv => TypeOK
  BY QueryOK
<1> QED BY <1>1, PostInv, PTL

\* For any answer of the server, whether the browser gets a whole response, the
\* head of one or none is what AnsweredIfWritable says: it depends on the types of
\* the values, for text on the records being alike, and on what is written being
\* UTF-8 (do_POST, /execute_query/ and /update_graph/).
THEOREM AnsweredAsWritable == SpecPOST => []AnsweredIfWritable
<1>1. QInv /\ GInv => AnsweredIfWritable
  BY QueryOK, GraphOK DEF AnsweredIfWritable
<1> QED BY <1>1, PostInv, PTL

\* For any answer of the server, what is sent shows the cells and the addresses
\* that ResponseShowsAnswer names, each where it says: not all of them in JSON, and
\* in text and in the tree not always under their own name or data centre.
THEOREM AnswersShown == SpecPOST => []ResponseShowsAnswer
<1>1. QInv /\ GInv => ResponseShowsAnswer
  BY QueryOK, GraphOK DEF ResponseShowsAnswer
<1> QED BY <1>1, PostInv, PTL
=============================================================================
