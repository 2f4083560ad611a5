-------------------------- MODULE Translation_proofs --------------------------
(***************************************************************************)
(* Proofs about Parser, for tables of any size and any values, and about   *)
(* Translation, of which Parser is a part, for any calendar, codes and     *)
(* markets.                                                                *)
(***************************************************************************)
EXTENDS Translation, SequenceTheorems, WellFoundedInduction, TLAPS

(* What is in data, by the way Wind sent it. *)
Arrived ==
  \/ ~Blocks /\ data = Columns
  \/ query.api = "wsd" /\ OneField /\ query.times = 1 /\ data = Folded
  \/ Blocks /\ data \in {table, CodeMajor}
  \/ Blocks /\ query.times = 1 /\ data \in {BareFields, BareCodes}
  \/ query.times = 0 /\ data = <<>>

Typed ==
  /\ query \in Queries
  /\ table \in [Fields -> [Codes -> [Times -> Values]]]
  /\ phase \in {"asked", "answered", "error", "parsed", "raised"}

\* What a parser returns, stated by its function spaces.
Rows == IF query.api = "wss" THEN query.codes ELSE query.times
Cells == IF OneField THEN query.codes ELSE query.fields

Placed ==
  IF Blocks
  THEN parsed = [c \in Codes |-> [f \in Fields |-> [t \in Times |-> SafeValue(table[f][c][t])]]]
  ELSE /\ parsed \in [1..Rows -> [1..Cells -> Clean]]
       /\ \A f \in Fields, c \in Codes, t \in Times : Found(f, c, t) = SafeValue(table[f][c][t])

IInv ==
  /\ Typed
  /\ phase \in {"answered", "parsed", "raised"} => Arrived
  /\ phase = "parsed" => Placed
  /\ RefusesOnlyAmbiguous

-----------------------------------------------------------------------------
(* Lists. *)

LEMMA ListOf ==
  ASSUME NEW n \in Nat, NEW S, NEW s \in [1..n -> S]
  PROVE  s \in Seq(S) /\ Len(s) = n
  <1>1. s \in Seq(S)
    BY SeqDef
  <1> QED
    BY <1>1, LenProperties

LEMMA QueryFacts ==
  ASSUME Typed
  PROVE  /\ query.api \in {"wss", "wsd", "wsi", "wset", "edb"}
         /\ query.fields \in Nat /\ query.fields >= 1
         /\ query.codes \in Nat /\ query.codes >= 1
         /\ query.times \in Nat
         /\ query.api = "wss" => query.times = 1
         /\ query.api \in {"wsi", "wset"} => query.codes = 1
         /\ query.api = "edb" => query.fields = 1
         /\ query.times = 0 => query.api = "wset"
  BY BoundsAssumption DEF Typed, Queries

LEMMA SafeIsClean == \A v \in Values : SafeValue(v) \in Clean
  BY DEF SafeValue, Clean

LEMMA SeriesOfList ==
  ASSUME NEW n \in Nat, NEW s \in [1..n -> Values]
  PROVE  Series(s) = [t \in 1..n |-> SafeValue(s[t])]
  <1>1. s \in Seq(Values) /\ Len(s) = n
    BY ListOf
  <1>2. AsSequence(s) = s
    BY <1>1, ValuesAssumption DEF AsSequence
  <1> QED
    BY <1>1, <1>2 DEF Series

LEMMA SeriesOfValue ==
  ASSUME NEW v \in Values
  PROVE  Series(v) = [t \in 1..1 |-> SafeValue(v)]
  <1>1. AsSequence(v) = <<v>>
    BY DEF AsSequence
  <1>2. Len(<<v>>) = 1 /\ \A t \in 1..1 : <<v>>[t] = v
    OBVIOUS
  <1> QED
    BY <1>1, <1>2 DEF Series

(* The loop over rows and columns turns a column-major list round and cannot
   index past an end. *)
LEMMA RowsRead ==
  ASSUME NEW rows \in Nat, NEW columns \in Nat, ParseRows(rows, columns),
         data \in [1..columns -> [1..rows -> Values]]
  PROVE  /\ phase' = "parsed"
         /\ UNCHANGED <<query, table, data>>
         /\ parsed' = [i \in 1..rows |-> [j \in 1..columns |-> SafeValue(data[j][i])]]
         /\ parsed' \in [1..rows -> [1..columns -> Clean]]
  <1>1. Len(data) = columns
    BY ListOf
  <1>2. \A j \in 1..columns : Len(data[j]) = rows
    BY ListOf
  <1>3. \A j \in 1..columns : rows > 0 => j <= Len(data) /\ rows <= Len(data[j])
    BY <1>1, <1>2
  <1>4. Return([i \in 1..rows |-> [j \in 1..columns |-> SafeValue(data[j][i])]])
    BY <1>3 DEF ParseRows
  <1> QED
    BY <1>4, SafeIsClean DEF Return

-----------------------------------------------------------------------------
LEMMA InitInv == Init => IInv
  <1> SUFFICES ASSUME Init PROVE IInv
    OBVIOUS
  <1>1. Typed
    BY DEF Init, Typed, Fields, Codes, Times
  <1> QED
    BY <1>1 DEF Init, IInv, RefusesOnlyAmbiguous

(* What Wind sends is one of the forms; nothing is parsed yet. *)
LEMMA SendInv ==
  ASSUME IInv, SendColumns \/ SendFolded \/ SendBlocks \/ SendBare \/ SendNothing
  PROVE  IInv'
  <1>1. /\ phase' = "answered" /\ UNCHANGED <<query, table, parsed>>
        /\ \/ ~Blocks /\ data' = Columns
           \/ query.api = "wsd" /\ OneField /\ query.times = 1 /\ data' = Folded
           \/ Blocks /\ data' \in {table, CodeMajor}
           \/ Blocks /\ query.times = 1 /\ data' \in {BareFields, BareCodes}
           \/ query.times = 0 /\ data' = <<>>
    BY DEF SendColumns, SendFolded, SendBlocks, SendBare, SendNothing, Send
  <1>2. Arrived'
    BY <1>1 DEF Arrived, Blocks, Columns, OneField, OneCode, Folded, CodeMajor, BareFields, BareCodes,
                Fields, Codes, Times
  <1>3. Typed'
    BY <1>1 DEF IInv, Typed, Fields, Codes, Times
  <1> QED
    BY <1>1, <1>2, <1>3 DEF IInv, RefusesOnlyAmbiguous

(* A parser changes phase and parsed only: what is left to show of it. *)
LEMMA ParseInv ==
  ASSUME IInv, phase = "answered", UNCHANGED <<query, table, data>>,
         \/ phase' = "parsed" /\ Placed'
         \/ phase' = "raised" /\ Ambiguous
  PROVE  IInv'
  <1>1. Typed' /\ Arrived'
    BY DEF IInv, Typed, Arrived, Blocks, Columns, OneField, OneCode, Folded, CodeMajor, BareFields,
           BareCodes, Fields, Codes, Times
  <1>2. Ambiguous' <=> Ambiguous
    BY DEF Ambiguous, Blocks
  <1> QED
    BY <1>1, <1>2 DEF IInv, RefusesOnlyAmbiguous
\* Columns is a list of lists for the loop, and where the loop puts its cells.
LEMMA ColumnsRead ==
  ASSUME Typed, ~Blocks, query.times > 0,
         data = Columns, phase = "answered", ParseRows(Rows, Cells)
  PROVE  phase' = "parsed" /\ UNCHANGED <<query, table, data>> /\ Placed'
  <1>1. Rows \in Nat /\ Cells \in Nat
    BY QueryFacts DEF Rows, Cells
  <1>2. data \in [1..Cells -> [1..Rows -> Values]]
    <2>1. CASE OneField
      BY <2>1, QueryFacts DEF Typed, Columns, Cells, Rows, OneField, OneCode, Fields, Codes, Times
    <2>2. CASE ~OneField /\ OneCode
      BY <2>2, QueryFacts DEF Typed, Columns, Cells, Rows, OneField, OneCode, Fields, Codes, Times
    <2>3. CASE ~OneField /\ ~OneCode
      BY <2>3, QueryFacts DEF Typed, Columns, Cells, Rows, OneField, OneCode, Blocks, Fields, Codes, Times
    <2> QED
      BY <2>1, <2>2, <2>3
  <1>3. /\ phase' = "parsed" /\ UNCHANGED <<query, table, data>>
        /\ parsed' = [i \in 1..Rows |-> [j \in 1..Cells |-> SafeValue(data[j][i])]]
        /\ parsed' \in [1..Rows -> [1..Cells -> Clean]]
    BY <1>1, <1>2, RowsRead
  <1>4. \A i \in 1..Rows, j \in 1..Cells : parsed'[i][j] = SafeValue(data[j][i])
    BY <1>3
  <1>5. ASSUME NEW f \in Fields, NEW c \in Codes, NEW t \in Times
        PROVE  Found(f, c, t)' = SafeValue(table[f][c][t])
    <2>1. CASE query.api = "wss"
      BY <2>1, <1>3, <1>4, QueryFacts
      DEF Found, Columns, OneField, OneCode, Rows, Cells, Fields, Codes, Times
    <2>2. CASE query.api # "wss" /\ OneCode
      <3>1. f \in 1..Cells /\ t \in 1..Rows /\ c = 1
        BY <2>2, QueryFacts DEF Rows, Cells, OneField, OneCode, Fields, Codes, Times
      <3>2. data[f][t] = table[f][1][t]
        BY <2>2, QueryFacts DEF Columns, OneField, OneCode, Fields
      <3>3. Found(f, c, t)' = parsed'[t][f]
        BY <2>2, <1>3 DEF Found, OneCode
      <3> QED
        BY <3>1, <3>2, <3>3, <1>4
    <2>3. CASE query.api # "wss" /\ ~OneCode
      <3>1. OneField
        BY <2>3, QueryFacts DEF OneField, OneCode, Blocks
      <3>2. c \in 1..Cells /\ t \in 1..Rows /\ f = 1
        BY <2>3, <3>1, QueryFacts DEF Rows, Cells, OneField, OneCode, Fields, Codes, Times
      <3>3. data[c][t] = table[1][c][t]
        BY <3>1 DEF Columns
      <3>4. Found(f, c, t)' = parsed'[t][c]
        BY <2>3, <3>1, <1>3 DEF Found, OneCode, OneField
      <3> QED
        BY <3>2, <3>3, <3>4, <1>4
    <2> QED
      BY <2>1, <2>2, <2>3
  <1>6. /\ Blocks' = Blocks /\ Rows' = Rows /\ Cells' = Cells
        /\ Fields' = Fields /\ Codes' = Codes /\ Times' = Times
    BY <1>3 DEF Blocks, Rows, Cells, OneField, Fields, Codes, Times
  <1> QED
    BY <1>3, <1>5, <1>6 DEF Placed

LEMMA WssInv == ASSUME IInv, ParseWss PROVE IInv'
  <1>1. ~Blocks /\ data = Columns /\ query.times > 0 /\ Rows = query.codes /\ Cells = query.fields
    BY QueryFacts DEF IInv, Arrived, ParseWss, Blocks, OneField, Rows, Cells
  <1>2. ParseRows(Rows, Cells)
    BY <1>1 DEF ParseWss
  <1> QED
    BY <1>1, <1>2, ColumnsRead, ParseInv DEF ParseWss, IInv

LEMMA WsiInv == ASSUME IInv, ParseWsi PROVE IInv'
  <1>1. ~Blocks /\ data = Columns /\ query.times > 0 /\ Rows = query.times /\ Cells = query.fields
    BY QueryFacts DEF IInv, Arrived, ParseWsi, Blocks, OneField, Rows, Cells
  <1>2. ParseRows(Rows, Cells)
    BY <1>1 DEF ParseWsi
  <1> QED
    BY <1>1, <1>2, ColumnsRead, ParseInv DEF ParseWsi, IInv

LEMMA EdbInv == ASSUME IInv, ParseEdb PROVE IInv'
  <1>1. ~Blocks /\ data = Columns /\ query.times > 0 /\ Rows = query.times /\ Cells = query.codes
    BY QueryFacts DEF IInv, Arrived, ParseEdb, Blocks, OneField, Rows, Cells
  <1>2. ParseRows(Rows, Cells)
    BY <1>1 DEF ParseEdb
  <1> QED
    BY <1>1, <1>2, ColumnsRead, ParseInv DEF ParseEdb, IInv

LEMMA OneCodeInv == ASSUME IInv, ParseOneCode PROVE IInv'
  <1>1. ~Blocks /\ data = Columns /\ query.times > 0 /\ Rows = query.times /\ Cells = query.fields
    BY QueryFacts DEF IInv, Arrived, ParseOneCode, Blocks, OneField, Rows, Cells
  <1>2. ParseRows(Rows, Cells)
    BY <1>1 DEF ParseOneCode
  <1> QED
    BY <1>1, <1>2, ColumnsRead, ParseInv DEF ParseOneCode, IInv
LEMMA WsetInv == ASSUME IInv, ParseWset PROVE IInv'
  <1>1. /\ query.api = "wset" /\ phase = "answered" /\ ~Blocks /\ OneCode /\ ~OneField
        /\ Rows = query.times /\ Cells = query.fields
        /\ query.fields \in Nat /\ query.fields >= 1 /\ query.times \in Nat
    BY QueryFacts DEF IInv, ParseWset, Blocks, OneCode, OneField, Rows, Cells
  <1>2. data = Columns \/ (query.times = 0 /\ data = <<>>)
    BY <1>1 DEF IInv, Arrived
  <1>3. Columns = [f \in Fields |-> table[f][1]]
    BY <1>1 DEF Columns
  <1>4. \A f \in Fields : table[f][1] \in [Times -> Values]
    BY <1>1, QueryFacts DEF IInv, Typed, Codes
  <1>5. CASE query.times = 0
    <2>1. data = <<>> \/ data[1] = <<>>
      BY <1>1, <1>2, <1>3, <1>4, <1>5 DEF Fields, Times
    <2>2. phase' = "parsed" /\ parsed' = <<>> /\ UNCHANGED <<query, table, data>>
      BY <2>1 DEF ParseWset, Return
    <2>3. Placed'
      BY <1>1, <1>5, <2>2 DEF Placed, Blocks, OneField, Rows, Cells, Fields, Codes, Times
    <2> QED
      BY <1>1, <2>2, <2>3, ParseInv
  <1>6. CASE query.times > 0
    <2>1. data = Columns
      BY <1>2, <1>6
    <2>2. data[1] = table[1][1] /\ table[1][1] \in [1..query.times -> Values]
      BY <1>1, <1>3, <1>4, <2>1 DEF Fields, Times
    <2>3. Len(data[1]) = query.times
      BY <1>1, <2>2, ListOf
    <2>4. data \in [1..query.fields -> [1..query.times -> Values]]
      BY <1>3, <1>4, <2>1 DEF Fields, Times
    <2>5. Len(data) = query.fields
      BY <1>1, <2>4, ListOf
    <2>6. data # <<>> /\ data[1] # <<>>
      BY <1>1, <1>6, <2>3, <2>5
    <2>7. ParseRows(Rows, Cells)
      BY <1>1, <2>3, <2>6 DEF ParseWset
    <2> QED
      BY <1>1, <1>6, <2>1, <2>7, ColumnsRead, ParseInv DEF IInv
  <1> QED
    BY <1>1, <1>5, <1>6

LEMMA OneFieldInv == ASSUME IInv, ParseOneField PROVE IInv'
  <1>1. /\ query.api = "wsd" /\ query.fields = 1 /\ query.codes > 1 /\ phase = "answered"
        /\ ~Blocks /\ ~OneCode /\ OneField /\ Rows = query.times /\ Cells = query.codes
        /\ query.codes \in Nat /\ query.times \in Nat /\ query.times > 0
    BY QueryFacts DEF IInv, ParseOneField, Blocks, OneCode, OneField, Rows, Cells
  <1>2. data = Columns \/ (query.times = 1 /\ data = Folded)
    <2>1. Arrived
      BY <1>1 DEF IInv
    <2>2. query.times # 0
      BY <1>1
    <2> QED
      BY <1>1, <2>1, <2>2 DEF Arrived
  <1>3. CASE data = Columns
    <2>1. data \in [1..query.codes -> [1..query.times -> Values]]
      BY <1>1, <1>3 DEF Columns, IInv, Typed, Fields, Codes, Times
    <2>2. Len(data) = query.codes
      BY <1>1, <2>1, ListOf
    <2>3. ParseRows(Rows, Cells)
      BY <1>1, <2>2 DEF ParseOneField
    <2> QED
      BY <1>1, <1>3, <2>3, ColumnsRead, ParseInv DEF IInv
  <1>4. CASE query.times = 1 /\ data = Folded
    <2>1. \A c \in Codes : table[1][c][1] \in Values
      BY <1>1, <1>4 DEF IInv, Typed, Fields, Codes, Times
    <2>2. Len(data) = 1 /\ data[1] = [c \in Codes |-> table[1][c][1]]
      BY <1>4 DEF Folded
    <2>3. data[1] \in [1..query.codes -> Values]
      BY <2>1, <2>2 DEF Codes
    <2>4. Len(data[1]) = query.codes
      BY <1>1, <2>3, ListOf
    <2>5. Return(<<[c \in Codes |-> SafeValue(data[1][c])]>>)
      BY <1>4, <2>2, <2>4 DEF ParseOneField
    <2>6. /\ phase' = "parsed" /\ UNCHANGED <<query, table, data>>
          /\ parsed' = <<[c \in Codes |-> SafeValue(table[1][c][1])]>>
      BY <2>2, <2>5 DEF Return, Codes
    <2>7. parsed' \in [1..1 -> [1..query.codes -> Clean]]
      <3> DEFINE row == [c \in Codes |-> SafeValue(table[1][c][1])]
      <3>1. row \in [1..query.codes -> Clean]
        BY <2>1, SafeIsClean DEF Codes
      <3> HIDE DEF row
      <3>2. <<row>> \in [1..1 -> [1..query.codes -> Clean]]
        BY <3>1
      <3> QED
        BY <3>2, <2>6 DEF row
    <2>8. ASSUME NEW f \in Fields, NEW c \in Codes, NEW t \in Times
          PROVE  Found(f, c, t)' = SafeValue(table[f][c][t])
      <3>1. f = 1 /\ t = 1
        BY <1>1, <1>4 DEF Fields, Times
      <3>2. Found(f, c, t)' = parsed'[1][c]
        BY <1>1, <2>6, <3>1 DEF Found, OneCode, OneField
      <3> QED
        BY <2>6, <3>1, <3>2
    <2>9. Placed'
      BY <1>1, <1>4, <2>6, <2>7, <2>8 DEF Placed, Blocks, OneField, Rows, Cells, Fields, Codes, Times
    <2> QED
      BY <1>1, <2>6, <2>9, ParseInv
  <1> QED
    BY <1>2, <1>3, <1>4

-----------------------------------------------------------------------------
(* Several codes and fields: what the lengths show of each order. *)

LEMMA BlocksFacts ==
  ASSUME IInv, ParseBlocks
  PROVE  /\ Blocks /\ phase = "answered"
         /\ query.fields \in Nat /\ query.codes \in Nat /\ query.times \in Nat
         /\ query.fields > 1 /\ query.codes > 1
         /\ \A f \in Fields, c \in Codes : table[f][c] \in [1..query.times -> Values]
         /\ \/ data \in {table, CodeMajor}
            \/ query.times = 1 /\ data \in {BareFields, BareCodes}
  <1>1. Blocks /\ phase = "answered" /\ Typed
    BY DEF IInv, ParseBlocks
  <1>2. query.api = "wsd" /\ ~OneField /\ query.times # 0 /\ query.fields > 1 /\ query.codes > 1
    BY <1>1, QueryFacts DEF Blocks, OneField
  <1>3. \A f \in Fields, c \in Codes : table[f][c] \in [1..query.times -> Values]
    BY <1>1 DEF Typed, Times
  <1>4. Arrived
    BY <1>1 DEF IInv
  <1>5. \/ data \in {table, CodeMajor}
        \/ query.times = 1 /\ data \in {BareFields, BareCodes}
    BY <1>1, <1>2, <1>4 DEF Arrived
  <1> QED
    BY <1>1, <1>2, <1>3, <1>5, QueryFacts

LEMMA FieldMajorRead ==
  ASSUME IInv, ParseBlocks, NEW S,
         data \in [Fields -> [Codes -> S]],
         \A f \in Fields, c \in Codes :
           Series(data[f][c]) = [t \in Times |-> SafeValue(table[f][c][t])]
  PROVE  IInv'
  <1>1. Len(data) = query.fields /\ \A b \in 1..query.fields : Len(data[b]) = query.codes
    BY BlocksFacts, ListOf DEF Fields, Codes
  <1>2. CASE query.fields # query.codes
    <2>1. FieldMajorShape /\ ~CodeMajorShape
      BY <1>1, <1>2 DEF FieldMajorShape, CodeMajorShape
    <2>2. Return([c \in Codes |-> [f \in Fields |-> Series(data[f][c])]])
      BY <2>1 DEF ParseBlocks
    <2>3. /\ phase' = "parsed" /\ UNCHANGED <<query, table, data>>
          /\ parsed' = [c \in Codes |-> [f \in Fields |-> [t \in Times |-> SafeValue(table[f][c][t])]]]
      BY <2>2 DEF Return
    <2>4. Placed'
      BY <2>3, BlocksFacts DEF Placed, Blocks, Fields, Codes, Times
    <2> QED
      BY <2>3, <2>4, BlocksFacts, ParseInv
  <1>3. CASE query.fields = query.codes
    <2>1. ~FieldMajorShape /\ ~CodeMajorShape
      BY <1>3 DEF FieldMajorShape, CodeMajorShape
    <2>2. phase' = "raised" /\ UNCHANGED <<query, table, data>>
      BY <2>1 DEF ParseBlocks, Raise
    <2>3. Ambiguous
      BY <1>1, <1>3, BlocksFacts DEF Ambiguous
    <2> QED
      BY <2>2, <2>3, BlocksFacts, ParseInv
  <1> QED
    BY <1>2, <1>3

LEMMA CodeMajorRead ==
  ASSUME IInv, ParseBlocks, NEW S,
         data \in [Codes -> [Fields -> S]],
         \A f \in Fields, c \in Codes :
           Series(data[c][f]) = [t \in Times |-> SafeValue(table[f][c][t])]
  PROVE  IInv'
  <1>1. Len(data) = query.codes /\ \A b \in 1..query.codes : Len(data[b]) = query.fields
    BY BlocksFacts, ListOf DEF Fields, Codes
  <1>2. CASE query.fields # query.codes
    <2>1. CodeMajorShape /\ ~FieldMajorShape
      BY <1>1, <1>2 DEF FieldMajorShape, CodeMajorShape
    <2>2. Return([c \in Codes |-> [f \in Fields |-> Series(data[c][f])]])
      BY <2>1 DEF ParseBlocks
    <2>3. /\ phase' = "parsed" /\ UNCHANGED <<query, table, data>>
          /\ parsed' = [c \in Codes |-> [f \in Fields |-> [t \in Times |-> SafeValue(table[f][c][t])]]]
      BY <2>2 DEF Return
    <2>4. Placed'
      BY <2>3, BlocksFacts DEF Placed, Blocks, Fields, Codes, Times
    <2> QED
      BY <2>3, <2>4, BlocksFacts, ParseInv
  <1>3. CASE query.fields = query.codes
    <2>1. ~FieldMajorShape /\ ~CodeMajorShape
      BY <1>3 DEF FieldMajorShape, CodeMajorShape
    <2>2. phase' = "raised" /\ UNCHANGED <<query, table, data>>
      BY <2>1 DEF ParseBlocks, Raise
    <2>3. Ambiguous
      BY <1>1, <1>3, BlocksFacts DEF Ambiguous
    <2> QED
      BY <2>2, <2>3, BlocksFacts, ParseInv
  <1> QED
    BY <1>2, <1>3

LEMMA BlocksInv == ASSUME IInv, ParseBlocks PROVE IInv'
  <1>1. \A f \in Fields, c \in Codes :
          Series(table[f][c]) = [t \in Times |-> SafeValue(table[f][c][t])]
    BY BlocksFacts, SeriesOfList DEF Times
  <1>2. ASSUME query.times = 1, NEW f \in Fields, NEW c \in Codes
        PROVE  /\ table[f][c][1] \in Values
               /\ Series(table[f][c][1]) = [t \in Times |-> SafeValue(table[f][c][t])]
    <2>1. table[f][c][1] \in Values
      BY <1>2, BlocksFacts
    <2>2. Series(table[f][c][1]) = [t \in 1..1 |-> SafeValue(table[f][c][1])]
      BY <2>1, SeriesOfValue
    <2> QED
      BY <1>2, <2>1, <2>2 DEF Times
  <1>3. CASE data = table
    <2>1. data \in [Fields -> [Codes -> [Times -> Values]]]
      BY <1>3 DEF IInv, Typed
    <2> QED
      BY <1>1, <1>3, <2>1, FieldMajorRead
  <1>4. CASE data = CodeMajor
    <2>1. data \in [Codes -> [Fields -> [Times -> Values]]]
      BY <1>4, BlocksFacts DEF CodeMajor, Times
    <2>2. \A f \in Fields, c \in Codes : data[c][f] = table[f][c]
      BY <1>4 DEF CodeMajor
    <2>3. \A f \in Fields, c \in Codes :
            Series(data[c][f]) = [t \in Times |-> SafeValue(table[f][c][t])]
      BY <1>1, <2>2
    <2> QED
      BY <2>1, <2>3, CodeMajorRead
  <1>5. CASE query.times = 1 /\ data = BareFields
    <2>1. data \in [Fields -> [Codes -> Values]]
      BY <1>2, <1>5 DEF BareFields
    <2>2. \A f \in Fields, c \in Codes : data[f][c] = table[f][c][1]
      BY <1>5 DEF BareFields
    <2>3. \A f \in Fields, c \in Codes :
            Series(data[f][c]) = [t \in Times |-> SafeValue(table[f][c][t])]
      BY <1>2, <1>5, <2>2
    <2> QED
      BY <2>1, <2>3, FieldMajorRead
  <1>6. CASE query.times = 1 /\ data = BareCodes
    <2>1. data \in [Codes -> [Fields -> Values]]
      BY <1>2, <1>6 DEF BareCodes
    <2>2. \A f \in Fields, c \in Codes : data[c][f] = table[f][c][1]
      BY <1>6 DEF BareCodes
    <2>3. \A f \in Fields, c \in Codes :
            Series(data[c][f]) = [t \in Times |-> SafeValue(table[f][c][t])]
      BY <1>2, <1>6, <2>2
    <2> QED
      BY <2>1, <2>3, CodeMajorRead
  <1> QED
    BY <1>3, <1>4, <1>5, <1>6, BlocksFacts

-----------------------------------------------------------------------------
LEMMA StepInv == IInv /\ [Next]_vars => IInv'
  <1> SUFFICES ASSUME IInv, [Next]_vars PROVE IInv'
    OBVIOUS
  <1>1. CASE SendColumns \/ SendFolded \/ SendBlocks \/ SendBare \/ SendNothing
    BY <1>1, SendInv
  <1>2. CASE Fail
    BY <1>2 DEF Fail, IInv, Typed, RefusesOnlyAmbiguous, Fields, Codes, Times
  <1>3. CASE ParseWss
    BY <1>3, WssInv
  <1>4. CASE ParseWsi
    BY <1>4, WsiInv
  <1>5. CASE ParseEdb
    BY <1>5, EdbInv
  <1>6. CASE ParseWset
    BY <1>6, WsetInv
  <1>7. CASE ParseOneCode
    BY <1>7, OneCodeInv
  <1>8. CASE ParseOneField
    BY <1>8, OneFieldInv
  <1>9. CASE ParseBlocks
    BY <1>9, BlocksInv
  <1>10. CASE UNCHANGED vars
    BY <1>10 DEF vars, IInv, Typed, Arrived, Placed, RefusesOnlyAmbiguous, Ambiguous, Found, Rows, Cells,
                 Blocks, Columns, OneField, OneCode, Folded, CodeMajor, BareFields, BareCodes,
                 Fields, Codes, Times
  <1> QED
    BY <1>1, <1>2, <1>3, <1>4, <1>5, <1>6, <1>7, <1>8, <1>9, <1>10 DEF Next

LEMMA Invariance == Spec => []IInv
  BY InitInv, StepInv, PTL DEF Spec

\* IInv gives what the runs check.
LEMMA PlacedTyped == IInv => TypeOK /\ ValuesInPlace
  <1> SUFFICES ASSUME IInv PROVE TypeOK /\ ValuesInPlace
    OBVIOUS
  <1>1. /\ query.fields \in Nat /\ query.codes \in Nat /\ query.times \in Nat
    BY QueryFacts DEF IInv
  <1>2. CASE phase # "parsed"
    BY <1>2 DEF IInv, Typed, TypeOK, ValuesInPlace
  <1>3. CASE phase = "parsed" /\ Blocks
    <2> DEFINE series(f, c) == [t \in Times |-> SafeValue(table[f][c][t])]
    <2>1. parsed = [c \in Codes |-> [f \in Fields |-> series(f, c)]]
      BY <1>3 DEF IInv, Placed
    <2>2. ASSUME NEW f \in Fields, NEW c \in Codes
          PROVE  series(f, c) \in [1..query.times -> Clean]
      <3>1. \A t \in Times : SafeValue(table[f][c][t]) \in Clean
        BY SafeIsClean DEF IInv, Typed
      <3> QED
        BY <3>1 DEF Times
    <2>3. \A f \in Fields, c \in Codes : series(f, c) \in Seq(Clean)
      BY <1>1, <2>2, ListOf
    <2>4. \A c \in Codes : parsed[c] \in [1..query.fields -> Seq(Clean)]
      BY <2>1, <2>3 DEF Fields
    <2>5. \A c \in Codes : parsed[c] \in Seq(Seq(Clean))
      BY <1>1, <2>4, ListOf
    <2>6. parsed \in [1..query.codes -> Seq(Seq(Clean))]
      BY <2>1, <2>5 DEF Codes
    <2>7. parsed \in Seq(Seq(Seq(Clean))) /\ Len(parsed) = query.codes
      BY <1>1, <2>6, ListOf
    <2>8. \A f \in Fields, c \in Codes, t \in Times : Found(f, c, t) = SafeValue(table[f][c][t])
      BY <1>3, <2>1 DEF Found, Blocks, OneField, OneCode
    <2> QED
      BY <1>3, <2>7, <2>8 DEF IInv, Typed, TypeOK, ValuesInPlace
  <1>4. CASE phase = "parsed" /\ ~Blocks
    <2>1. /\ parsed \in [1..Rows -> [1..Cells -> Clean]]
          /\ \A f \in Fields, c \in Codes, t \in Times : Found(f, c, t) = SafeValue(table[f][c][t])
      BY <1>4 DEF IInv, Placed
    <2>2. Rows \in Nat /\ Cells \in Nat
      BY <1>1 DEF Rows, Cells
    <2>3. \A i \in 1..Rows : parsed[i] \in Seq(Clean)
      BY <2>1, <2>2, ListOf
    <2>4. parsed \in [1..Rows -> Seq(Clean)]
      BY <2>1, <2>3
    <2>5. parsed \in Seq(Seq(Clean)) /\ Len(parsed) = Rows
      BY <2>2, <2>4, ListOf
    <2> QED
      BY <1>4, <2>1, <2>5 DEF IInv, Typed, TypeOK, ValuesInPlace, Rows
  <1> QED
    BY <1>2, <1>3, <1>4

(* The types hold for tables of any size; no NaN is passed on. *)
THEOREM TypeCorrect == Spec => []TypeOK
  BY Invariance, PlacedTyped, PTL

(* Every value is found under its own field, code and time, in whatever order
   Wind sent the table. *)
THEOREM EveryValueInPlace == Spec => []ValuesInPlace
  BY Invariance, PlacedTyped, PTL

(* Only a response that is as good in either order is refused. *)
THEOREM RefusalsJustified == Spec => []RefusesOnlyAmbiguous
  <1>1. IInv => RefusesOnlyAmbiguous
    BY DEF IInv
  <1> QED
    BY <1>1, Invariance, PTL
-----------------------------------------------------------------------------
(* Translation runs the parser whole: what is proved of Spec holds of
   TranslationSpec. *)
THEOREM ParsesAsParser == TranslationSpec => Spec
  <1>1. TranslationInit => Init
    BY DEF TranslationInit
  <1>2. [TranslationNext]_translationVars => [Next]_vars
    BY DEF TranslationNext, translationVars, vars, ConvertCodes, AcceptRange, RefuseRange,
           Translate, AskAndParse
  <1> QED
    BY <1>1, <1>2, PTL DEF TranslationSpec, Spec

-----------------------------------------------------------------------------
(* Days. *)

(* No text is two days: a dash is no month. *)
LEMMA OneDay ==
  ASSUME NEW b \in Dates, NEW e \in Dates, NEW text, text \in Written(b), text \in Written(e)
  PROVE  b = e
  <1>1. /\ b = <<b[1], b[2], b[3]>> /\ e = <<e[1], e[2], e[3]>>
        /\ {b[2], b[3], e[2], e[3]} \subseteq MonthTexts
    BY DEF Dates
  <1>2. b[1] = e[1] /\ b[2] = e[2] /\ b[3] = e[3]
    BY <1>1, DashAssumption DEF Written
  <1> QED
    BY <1>1, <1>2

LEMMA UndashedDay ==
  ASSUME NEW date \in Dates, NEW text \in Written(date)
  PROVE  IsAbsolute(text) /\ Undashed(text) = date
  BY OneDay DEF IsAbsolute, Undashed

LEMMA DayParts ==
  ASSUME NEW date \in Dates
  PROVE  /\ PartValue[date[1]] \in Nat
         /\ PartValue[date[2]] \in 0..99
         /\ PartValue[date[3]] \in 0..99
  <1>1. date[1] \in YearTexts /\ date[2] \in MonthTexts /\ date[3] \in MonthTexts
    BY DEF Dates
  <1> QED
    BY <1>1, CalendarAssumption

LEMMA LaterDay ==
  ASSUME NEW b \in Dates, NEW e \in Dates
  PROVE  /\ Day(b) \in Nat
         /\ Day(b) > Day(e) <=>
              \/ PartValue[b[1]] > PartValue[e[1]]
              \/ PartValue[b[1]] = PartValue[e[1]] /\ PartValue[b[2]] > PartValue[e[2]]
              \/ /\ PartValue[b[1]] = PartValue[e[1]] /\ PartValue[b[2]] = PartValue[e[2]]
                 /\ PartValue[b[3]] > PartValue[e[3]]
  <1>1. PICK y1 \in Nat : y1 = PartValue[b[1]]
    BY DayParts
  <1>2. PICK m1 \in 0..99 : m1 = PartValue[b[2]]
    BY DayParts
  <1>3. PICK d1 \in 0..99 : d1 = PartValue[b[3]]
    BY DayParts
  <1>4. PICK y2 \in Nat : y2 = PartValue[e[1]]
    BY DayParts
  <1>5. PICK m2 \in 0..99 : m2 = PartValue[e[2]]
    BY DayParts
  <1>6. PICK d2 \in 0..99 : d2 = PartValue[e[3]]
    BY DayParts
  <1>7. Day(b) = 10000 * y1 + 100 * m1 + d1 /\ Day(e) = 10000 * y2 + 100 * m2 + d2
    BY <1>1, <1>2, <1>3, <1>4, <1>5, <1>6 DEF Day
  <1>8. /\ Day(b) \in Nat
        /\ Day(b) > Day(e) <=>
             \/ y1 > y2
             \/ y1 = y2 /\ m1 > m2
             \/ y1 = y2 /\ m1 = m2 /\ d1 > d2
    BY <1>7
  <1> QED
    BY <1>1, <1>2, <1>3, <1>4, <1>5, <1>6, <1>8

(* Part by part, texts of days are in the order of the days. *)
LEMMA AfterIsLater ==
  ASSUME NEW b \in Dates, NEW e \in Dates
  PROVE  After(b, e) <=> Day(b) > Day(e)
  <1>1. /\ DOMAIN b = 1..3 /\ DOMAIN e = 1..3
        /\ b[1] \in YearTexts /\ b[2] \in MonthTexts /\ b[3] \in MonthTexts
        /\ e[1] \in YearTexts /\ e[2] \in MonthTexts /\ e[3] \in MonthTexts
    BY DEF Dates
  <1> DEFINE later(i) == Collates[b[i]] > Collates[e[i]]
  <1>2. After(b, e) <=> \/ later(1)
                        \/ e[1] = b[1] /\ later(2)
                        \/ e[1] = b[1] /\ e[2] = b[2] /\ later(3)
    <2>1. \A i \in 1..3 : Part(e, i) = e[i]
      BY <1>1 DEF Part
    <2>2. After(b, e) <=> \E i \in 1..3 : (\A j \in 1..(i - 1) : e[j] = b[j]) /\ later(i)
      BY <1>1, <2>1 DEF After
    <2>3. 1..3 = {1, 2, 3} /\ 1..(1 - 1) = {} /\ 1..(2 - 1) = {1} /\ 1..(3 - 1) = {1, 2}
      OBVIOUS
    <2> HIDE DEF later
    <2> QED
      BY <2>2, <2>3
  <1>3. \A i \in 1..3 : /\ later(i) <=> PartValue[b[i]] > PartValue[e[i]]
                        /\ e[i] = b[i] <=> PartValue[b[i]] = PartValue[e[i]]
    BY <1>1, CalendarAssumption
  <1> HIDE DEF later
  <1> QED
    BY <1>2, <1>3, LaterDay

(* What became of the range that was said, if anything did. *)
RangeInv ==
  /\ said \in Words \cup {Nothing}
  /\ said[1] = "range" =>
       \/ sent = Nothing
       \/ sent = said /\ RangeAccepted(said[2], said[3])
       \/ sent = <<"refused">> /\ ~RangeAccepted(said[2], said[3])

LEMMA RangeInvariance == TranslationSpec => []RangeInv
  <1>1. TranslationInit => RangeInv
    BY DEF TranslationInit, RangeInv
  <1>2. ASSUME RangeInv, [TranslationNext]_translationVars
        PROVE  RangeInv'
    <2>1. CASE ConvertCodes
      BY <1>2, <2>1 DEF ConvertCodes, Translate, RangeInv
    <2>2. CASE AcceptRange
      BY <1>2, <2>2 DEF AcceptRange, Translate, RangeInv
    <2>3. CASE RefuseRange
      BY <1>2, <2>3 DEF RefuseRange, Translate, RangeInv
    <2>4. CASE AskAndParse
      BY <1>2, <2>4 DEF AskAndParse, RangeInv
    <2>5. CASE UNCHANGED translationVars
      BY <1>2, <2>5 DEF translationVars, RangeInv
    <2> QED
      BY <1>2, <2>1, <2>2, <2>3, <2>4, <2>5 DEF TranslationNext
  <1> QED
    BY <1>1, <1>2, PTL DEF TranslationSpec

(* For any years, months and days: a range of the two inputs that are checked
   (HistoricalInput, SectorSeriesInput) reaches Wind if and only if it runs forward
   in the calendar, in whatever way its ends are written.  Nothing is said of the
   other tools, which send their ranges unchecked. *)
THEOREM RangesForward == TranslationSpec => []RangesRunForward
  <1>1. ASSUME RangeInv, said[1] = "range", sent # Nothing,
               NEW begin \in Dates, NEW end \in Dates,
               said[2] \in Written(begin), said[3] \in Written(end)
        PROVE  sent = said <=> Day(begin) <= Day(end)
    <2>1. /\ IsAbsolute(said[2]) /\ Undashed(said[2]) = begin
          /\ IsAbsolute(said[3]) /\ Undashed(said[3]) = end
      BY <1>1, UndashedDay
    <2>2. RangeAccepted(said[2], said[3]) <=> ~After(begin, end)
      BY <2>1 DEF RangeAccepted, IsValidDate
    <2>3. RangeAccepted(said[2], said[3]) <=> Day(begin) <= Day(end)
      BY <1>1, <2>2, LaterDay, AfterIsLater
    <2>4. said # <<"refused">>
      BY <1>1
    <2> QED
      BY <1>1, <2>3, <2>4 DEF RangeInv
  <1>2. RangeInv => RangesRunForward
    BY <1>1 DEF RangesRunForward
  <1> QED
    BY <1>2, RangeInvariance, PTL
-----------------------------------------------------------------------------
(* Recursive functions. *)

(* Induction, over a set of numbers. *)
LEMMA Induction ==
  ASSUME NEW G, 0 \in G, \A k \in Nat : k \in G => k + 1 \in G
  PROVE  Nat \subseteq G
  <1> DEFINE Smaller == {ss \in Nat \X Nat : ss[1] < ss[2]}
             Rest == Nat \ G
  <1>1. IsWellFoundedOn(Smaller, Nat)
    BY NatLessThanWellFounded DEF OpToRel
  <1>2. SUFFICES ASSUME Rest # {} PROVE FALSE
    BY DEF Rest
  <1>3. PICK n \in Rest : \A m \in Rest : <<m, n>> \notin Smaller
    <2> HIDE DEF Smaller
    <2> QED BY <1>1, <1>2, WFMin
  <1>4. n # 0 /\ n - 1 \in Nat /\ n - 1 \notin G
    <2>1. n \in Nat /\ n # 0
      OBVIOUS
    <2>2. n - 1 \in Nat /\ (n - 1) + 1 = n
      BY <2>1
    <2> QED
      BY <2>1, <2>2
  <1>5. <<n - 1, n>> \in Smaller
    BY <1>4
  <1> QED
    BY <1>3, <1>4, <1>5

(* Going on from one value to the next. *)
Iterates(f, n, V, base, step) ==
  f \in [0..n -> V] /\ f[0] = base /\ \A i \in 1..n : f[i] = step[i][f[i - 1]]

(* There is such a function, of any length. *)
LEMMA Iteration ==
  ASSUME NEW n \in Nat, NEW V, NEW base \in V, NEW step \in [1..n -> [V -> V]]
  PROVE  \E f : Iterates(f, n, V, base, step)
  <1> DEFINE Good(k, f) == Iterates(f, k, V, base, step)
             G == {k \in Nat : k <= n => \E f : Good(k, f)}
  <1>1. 0 \in G
    <2>1. Good(0, [i \in 0..0 |-> base])
      BY DEF Iterates
    <2> QED BY <2>1
  <1>2. ASSUME NEW k \in G, k + 1 <= n PROVE \E f : Good(k + 1, f)
    <2>1. PICK f : Good(k, f)
      BY <1>2
    <2> DEFINE g == [i \in 0..(k + 1) |-> IF i = k + 1 THEN step[k + 1][f[k]] ELSE f[i]]
    <2>2. Good(k + 1, g)
      BY <1>2, <2>1 DEF Iterates
    <2> QED BY <2>2
  <1>3. Nat \subseteq G
    <2>1. \A k \in Nat : k \in G => k + 1 \in G
      BY <1>2
    <2> HIDE DEF G
    <2> QED BY <1>1, <2>1, Induction
  <1> QED BY <1>3

-----------------------------------------------------------------------------
(* Numbers. *)

(* upTo counts the digits: the number that the first i of them write. *)
Counting(upTo, digits) ==
  /\ upTo \in [0..Len(digits) -> Nat]
  /\ upTo[0] = 0
  /\ \A i \in 1..Len(digits) : upTo[i] = 10 * upTo[i - 1] + DigitValue[digits[i]]

(* A digit has one number of its own, zero the least. *)
LEMMA DigitFacts ==
  /\ \A d \in DigitTexts : DigitValue[d] \in 0..9
  /\ \A d, e \in DigitTexts : DigitValue[d] = DigitValue[e] => d = e
  /\ DigitValue["0"] = 0 /\ "0" \in DigitTexts
  BY DEF DigitValue, DigitTexts

(* Number() is what such a count ends with. *)
LEMMA NumberCounts ==
  ASSUME NEW digits \in Seq(DigitTexts)
  PROVE  \E upTo : Counting(upTo, digits) /\ Number(digits) = upTo[Len(digits)]
  <1> DEFINE n == Len(digits)
             next(i, c) == 10 * c + DigitValue[digits[i]]
             step == [i \in 1..n |-> [c \in Nat |-> next(i, c)]]
             upTo[i \in 0..n] ==
               IF i = 0 THEN 0 ELSE 10 * upTo[i - 1] + DigitValue[digits[i]]
  <1>1. n \in Nat /\ \A i \in 1..n : digits[i] \in DigitTexts
    OBVIOUS
  <1>2. step \in [1..n -> [Nat -> Nat]]
    <2>1. ASSUME NEW i \in 1..n, NEW c \in Nat PROVE next(i, c) \in Nat
      <3>1. DigitValue[digits[i]] \in Nat
        BY <1>1, DigitFacts
      <3> QED
        BY <3>1
    <2> HIDE DEF next, n
    <2> QED
      BY <2>1
  <1>3. PICK f : Iterates(f, n, Nat, 0, step)
    <2> HIDE DEF step, n
    <2>1. 0 \in Nat
      OBVIOUS
    <2> QED
      BY <1>1, <1>2, <2>1, Iteration
  <1>4. \A i \in 1..n : f[i] = next(i, f[i - 1])
    <2> TAKE i \in 1..n
    <2>1. i - 1 \in 0..n
      BY <1>1
    <2>2. f[i - 1] \in Nat
      BY <1>3, <2>1 DEF Iterates
    <2> HIDE DEF next
    <2> QED
      BY <1>3, <2>2 DEF Iterates
  <1>5. f = [i \in 0..n |-> IF i = 0 THEN 0 ELSE next(i, f[i - 1])]
    <2>1. 0..n = {0} \cup 1..n
      BY <1>1
    <2> HIDE DEF next, n
    <2> QED
      BY <1>3, <1>4, <2>1 DEF Iterates
  <1>6. upTo = [i \in 0..n |-> IF i = 0 THEN 0 ELSE next(i, upTo[i - 1])]
    <2> HIDE DEF n
    <2> QED
      BY <1>5
  <1>7. Number(digits) = upTo[n]
    BY DEF Number
  <1> HIDE DEF upTo, n
  <1>8. upTo[0] = 0
    BY <1>1, <1>6
  <1>9. ASSUME NEW i \in 1..n PROVE upTo[i] = next(i, upTo[i - 1])
    <2> HIDE DEF next
    <2>1. i \in 0..n /\ i # 0
      BY <1>1
    <2> QED
      BY <1>6, <2>1
  <1> DEFINE Done == {i \in Nat : i <= n => upTo[i] \in Nat}
  <1>10. 0 \in Done
    BY <1>8
  <1>11. ASSUME NEW i \in Nat, i \in Done PROVE i + 1 \in Done
    <2> SUFFICES ASSUME i + 1 <= n PROVE upTo[i + 1] \in Nat
      OBVIOUS
    <2>1. i + 1 \in 1..n /\ (i + 1) - 1 = i /\ upTo[i] \in Nat
      BY <1>1, <1>11
    <2>2. upTo[i + 1] = 10 * upTo[i] + DigitValue[digits[i + 1]]
      BY <1>9, <2>1
    <2>3. DigitValue[digits[i + 1]] \in Nat
      BY <1>1, <2>1, DigitFacts
    <2> QED
      BY <2>1, <2>2, <2>3
  <1>12. Nat \subseteq Done
    <2> HIDE DEF Done
    <2> QED
      BY <1>10, <1>11, Induction
  <1>13. upTo \in [0..n -> Nat]
    <2>1. \A i \in 0..n : upTo[i] \in Nat
      BY <1>1, <1>12
    <2>2. DOMAIN upTo = 0..n /\ upTo = [i \in 0..n |-> upTo[i]]
      <3> HIDE DEF next
      <3> QED
        BY <1>6
    <2> QED
      BY <2>1, <2>2
  <1>14. Counting(upTo, digits)
    BY <1>8, <1>9, <1>13 DEF Counting, n
  <1> QED
    BY <1>7, <1>14 DEF n

(* str.zfill: p is t after zeros, in the width asked for. *)
IsPadded(p, t, width) ==
  /\ p \in [1..width -> DigitTexts]
  /\ \A i \in 1..(width - Len(t)) : p[i] = "0"
  /\ \A i \in 1..Len(t) : p[(width - Len(t)) + i] = t[i]

(* Zeros go before it, and it follows them. *)
LEMMA PaddedDigits ==
  ASSUME NEW t \in Seq(DigitTexts), NEW width \in Nat
  PROVE  /\ Padded(t, width) \in Seq(DigitTexts)
         /\ width >= Len(t) => IsPadded(Padded(t, width), t, width)
  <1> DEFINE z == width - Len(t)
             zeros == [i \in 1..z |-> "0"]
  <1>1. z \in Int /\ Len(t) \in Nat
    OBVIOUS
  <1>2. Padded(t, width) = zeros \o t
    BY DEF Padded
  <1>3. CASE z >= 0
    <2>1. zeros \in Seq(DigitTexts) /\ Len(zeros) = z
      <3>1. zeros \in [1..z -> DigitTexts]
        BY DigitFacts
      <3> HIDE DEF zeros, z
      <3> QED
        BY <1>1, <1>3, <3>1, ListOf
    <2>2. \A i \in 1..z : zeros[i] = "0"
      OBVIOUS
    <2> HIDE DEF zeros
    <2> DEFINE p == zeros \o t
    <2>3. /\ p \in Seq(DigitTexts) /\ Len(p) = z + Len(t)
          /\ \A i \in 1..z : p[i] = zeros[i]
          /\ \A i \in 1..Len(t) : p[z + i] = t[i]
      <3> HIDE DEF z
      <3> QED
        BY <1>1, <1>3, <2>1
    <2>4. z + Len(t) = width
      BY <1>1
    <2> HIDE DEF p
    <2>5. p \in [1..width -> DigitTexts]
      BY <2>3, <2>4
    <2> QED
      BY <1>2, <2>2, <2>3, <2>5 DEF p, IsPadded
  <1>4. CASE z < 0
    <2>1. 1..z = {}
      BY <1>1, <1>4
    <2>2. zeros \in [1..0 -> DigitTexts]
      BY <2>1
    <2> HIDE DEF zeros
    <2>3. zeros \in Seq(DigitTexts)
      BY <2>2, ListOf
    <2>4. zeros \o t \in Seq(DigitTexts)
      BY <2>3
    <2> QED
      BY <1>1, <1>2, <1>4, <2>4
  <1> QED
    BY <1>1, <1>3, <1>4

(* Zeros before a number do not change it. *)
LEMMA PaddedNumber ==
  ASSUME NEW t \in Seq(DigitTexts), NEW width \in Nat, width >= Len(t)
  PROVE  Number(Padded(t, width)) = Number(t)
  <1> DEFINE p == Padded(t, width)
             z == width - Len(t)
  <1>1. /\ p \in Seq(DigitTexts) /\ Len(p) = width
        /\ \A i \in 1..z : p[i] = "0"
        /\ \A i \in 1..Len(t) : p[z + i] = t[i]
    <2>1. p \in Seq(DigitTexts) /\ p \in [1..width -> DigitTexts]
      BY PaddedDigits DEF IsPadded
    <2>2. /\ \A i \in 1..z : p[i] = "0"
          /\ \A i \in 1..Len(t) : p[z + i] = t[i]
      BY PaddedDigits DEF IsPadded
    <2> HIDE DEF p, z
    <2>3. Len(p) = width
      BY <2>1
    <2> QED
      BY <2>1, <2>2, <2>3
  <1>2. z \in Nat /\ Len(t) \in Nat /\ z + Len(t) = width
    OBVIOUS
  <1> HIDE DEF p, z
  <1>3. PICK a : Counting(a, p) /\ Number(p) = a[width]
    BY <1>1, NumberCounts
  <1>4. PICK b : Counting(b, t) /\ Number(t) = b[Len(t)]
    BY NumberCounts
  <1> DEFINE Zero == {i \in Nat : i <= z => a[i] = 0}
             Done == {i \in Nat : i <= Len(t) => a[z + i] = b[i]}
  <1>5. 0 \in Zero
    BY <1>3 DEF Counting
  <1>6. ASSUME NEW i \in Nat, i \in Zero PROVE i + 1 \in Zero
    <2> SUFFICES ASSUME i + 1 <= z PROVE a[i + 1] = 0
      OBVIOUS
    <2>1. i + 1 \in 1..width /\ i + 1 \in 1..z /\ (i + 1) - 1 = i /\ a[i] = 0
      BY <1>2, <1>6
    <2>2. a[i + 1] = 10 * a[i] + DigitValue["0"]
      BY <1>1, <1>3, <2>1 DEF Counting
    <2> QED
      BY <2>1, <2>2, DigitFacts
  <1>7. z \in Zero
    <2> HIDE DEF Zero
    <2> QED
      BY <1>2, <1>5, <1>6, Induction
  <1>8. 0 \in Done
    BY <1>2, <1>4, <1>7 DEF Counting
  <1>9. ASSUME NEW i \in Nat, i \in Done PROVE i + 1 \in Done
    <2> SUFFICES ASSUME i + 1 <= Len(t) PROVE a[z + (i + 1)] = b[i + 1]
      OBVIOUS
    <2>1. /\ i + 1 \in 1..Len(t) /\ (i + 1) - 1 = i /\ a[z + i] = b[i]
          /\ z + (i + 1) \in 1..width /\ (z + (i + 1)) - 1 = z + i
      BY <1>2, <1>9
    <2>2. a[z + (i + 1)] = 10 * a[z + i] + DigitValue[t[i + 1]]
      BY <1>1, <1>3, <2>1 DEF Counting
    <2>3. b[i + 1] = 10 * b[i] + DigitValue[t[i + 1]]
      BY <1>4, <2>1 DEF Counting
    <2> QED
      BY <2>1, <2>2, <2>3
  <1>10. Len(t) \in Done
    <2> HIDE DEF Done
    <2> QED
      BY <1>2, <1>8, <1>9, Induction
  <1> QED
    BY <1>2, <1>3, <1>4, <1>10 DEF p

(* A set of places has a first one. *)
LEMMA FirstOf ==
  ASSUME NEW S \in SUBSET Nat, S # {}
  PROVE  \E first \in S : \A j \in S : first <= j
  <1> DEFINE Above == {k \in Nat : \A j \in S : k <= j}
  <1>1. SUFFICES ASSUME \A first \in S : \E j \in S : j < first PROVE FALSE
    <2>1. \A i, j \in S : j < i \/ i <= j
      OBVIOUS
    <2> QED
      BY <2>1
  <1>2. 0 \in Above
    OBVIOUS
  <1>3. ASSUME NEW k \in Nat, k \in Above PROVE k + 1 \in Above
    <2>1. k \notin S
      <3> SUFFICES ASSUME k \in S PROVE FALSE
        OBVIOUS
      <3>1. PICK j \in S : j < k
        BY <1>1
      <3> QED
        BY <1>3, <3>1
    <2> QED
      BY <1>3, <2>1
  <1>4. Nat \subseteq Above
    <2> HIDE DEF Above
    <2> QED
      BY <1>2, <1>3, Induction
  <1>5. PICK s \in S : TRUE
    OBVIOUS
  <1>6. s + 1 \in Nat /\ s + 1 \in Above
    BY <1>4
  <1> QED
    BY <1>5, <1>6

(* str.lstrip("0") takes off what str.zfill puts back. *)
LEMMA StrippedPads ==
  ASSUME NEW t \in Seq(DigitTexts)
  PROVE  /\ Stripped(t) \in Seq(DigitTexts) /\ Len(Stripped(t)) <= Len(t)
         /\ Stripped(t) = <<>> \/ Stripped(t)[1] # "0"
         /\ t = Padded(Stripped(t), Len(t))
  <1> DEFINE n == Len(t)
  <1>1. n \in Nat /\ DOMAIN t = 1..n /\ t \in [1..n -> DigitTexts]
    OBVIOUS
  <1>2. CASE \A i \in DOMAIN t : t[i] = "0"
    <2>1. Stripped(t) = <<>>
      BY <1>2 DEF Stripped
    <2>2. <<>> \in Seq(DigitTexts) /\ Len(<<>>) = 0
      OBVIOUS
    <2> DEFINE p == Padded(<<>>, n)
    <2>3. p \in [1..n -> DigitTexts] /\ \A i \in 1..n : p[i] = "0"
      <3>1. IsPadded(p, <<>>, n)
        <4>1. n >= Len(<<>>) /\ <<>> \in Seq(DigitTexts) /\ n \in Nat
          BY <1>1, <2>2
        <4> HIDE DEF n
        <4> QED
          BY <4>1, PaddedDigits
      <3> HIDE DEF p, n
      <3>2. n - Len(<<>>) = n
        BY <1>1, <2>2
      <3> QED
        BY <3>1, <3>2 DEF IsPadded
    <2> HIDE DEF p, n
    <2>4. t = p
      BY <1>1, <1>2, <2>3
    <2> QED
      BY <1>1, <2>1, <2>2, <2>4 DEF p, n
  <1>3. CASE ~ \A i \in DOMAIN t : t[i] = "0"
    <2> DEFINE is(i) == t[i] # "0" /\ \A j \in 1..(i - 1) : t[j] = "0"
               S == {i \in DOMAIN t : t[i] # "0"}
               first == CHOOSE i \in DOMAIN t : is(i)
               s == SubSeq(t, first, n)
    <2>1. PICK i \in S : \A j \in S : i <= j
      <3>1. S \in SUBSET Nat /\ S # {}
        BY <1>1, <1>3
      <3> HIDE DEF S
      <3> QED
        BY <3>1, FirstOf
    <2>2. \E k \in DOMAIN t : is(k)
      <3>1. \A j \in 1..(i - 1) : j \in DOMAIN t /\ ~(i <= j)
        BY <1>1
      <3>2. is(i)
        BY <2>1, <3>1
      <3> QED
        BY <3>2
    <2>3. first \in DOMAIN t /\ t[first] # "0" /\ \A j \in 1..(first - 1) : t[j] = "0"
      <3>1. first \in DOMAIN t /\ is(first)
        <4> HIDE DEF is
        <4> QED
          BY <2>2
      <3> HIDE DEF first
      <3> QED
        BY <3>1
    <2>4. Stripped(t) = s
      BY <1>3 DEF Stripped
    <2> HIDE DEF first, n
    <2>5. first \in 1..n /\ \A k \in first..n : t[k] \in DigitTexts
      BY <1>1, <2>3
    <2>6. /\ s \in Seq(DigitTexts)
          /\ Len(s) = IF first <= n THEN n - first + 1 ELSE 0
          /\ \A k \in 1..(n - first + 1) : s[k] = t[first + k - 1]
      BY <1>1, <2>5, SubSeqProperties
    <2> HIDE DEF s
    <2>7. Len(s) = n - first + 1 /\ Len(s) \in 1..n /\ s[1] = t[first]
      BY <1>1, <2>5, <2>6
    <2> DEFINE p == Padded(s, n)
    <2>8. /\ p \in [1..n -> DigitTexts]
          /\ \A k \in 1..(n - Len(s)) : p[k] = "0"
          /\ \A k \in 1..Len(s) : p[(n - Len(s)) + k] = s[k]
      <3>1. n \in Nat /\ n >= Len(s)
        BY <1>1, <2>7
      <3>2. IsPadded(p, s, n)
        BY <2>6, <3>1, PaddedDigits
      <3> HIDE DEF p
      <3> QED
        BY <3>2 DEF IsPadded
    <2> HIDE DEF p
    <2>9. ASSUME NEW k \in 1..n PROVE p[k] = t[k]
      <3>1. CASE k < first
        <4>1. k \in 1..(n - Len(s)) /\ k \in 1..(first - 1)
          BY <1>1, <2>5, <2>7, <3>1
        <4> QED
          BY <2>3, <2>8, <4>1
      <3>2. CASE k >= first
        <4>1. /\ k - first + 1 \in 1..Len(s) /\ k - first + 1 \in 1..(n - first + 1)
              /\ (n - Len(s)) + (k - first + 1) = k /\ first + (k - first + 1) - 1 = k
          BY <1>1, <2>5, <2>7, <3>2
        <4> QED
          BY <2>6, <2>8, <4>1
      <3> QED
        BY <1>1, <2>5, <3>1, <3>2
    <2>10. t = p
      BY <1>1, <2>8, <2>9
    <2> QED
      BY <1>1, <2>3, <2>4, <2>6, <2>7, <2>10 DEF p, n
  <1> QED
    BY <1>2, <1>3

(* Counting on never lowers a number: six digits and no zero first are a hundred
   thousand at least. *)
LEMMA LongNumber ==
  ASSUME NEW t \in Seq(DigitTexts), Len(t) >= 6, t[1] # "0"
  PROVE  Number(t) >= 100000
  <1> DEFINE n == Len(t)
  <1>1. n \in Nat /\ n >= 6 /\ \A i \in 1..n : t[i] \in DigitTexts
    OBVIOUS
  <1>2. PICK a : Counting(a, t) /\ Number(t) = a[n]
    BY NumberCounts
  <1> HIDE DEF n
  <1>3. \A i \in 1..n : DigitValue[t[i]] \in 0..9
    BY <1>1, DigitFacts
  <1>4. \A i \in 0..n : a[i] \in Nat
    BY <1>2 DEF Counting, n
  <1>5. \A i \in 1..n : a[i] = 10 * a[i - 1] + DigitValue[t[i]]
    BY <1>2 DEF Counting, n
  <1>6. a[6] >= 100000
    <2>1. a[0] = 0
      BY <1>2 DEF Counting
    <2>2. DigitValue[t[1]] \in 1..9
      <3>1. 1 \in 1..n /\ t[1] \in DigitTexts
        BY <1>1
      <3>2. DigitValue[t[1]] # 0
        BY <3>1, DigitFacts
      <3> QED
        BY <1>3, <3>1, <3>2
    <2>3. a[1] >= 1
      BY <1>1, <1>5, <2>1, <2>2
    <2>4. \A i \in 1..5 : a[i + 1] >= 10 * a[i] /\ a[i] \in Nat /\ a[i + 1] \in Nat
      <3> TAKE i \in 1..5
      <3>1. i + 1 \in 1..n /\ (i + 1) - 1 = i /\ i \in 0..n /\ i + 1 \in 0..n
        BY <1>1
      <3>2. a[i + 1] = 10 * a[i] + DigitValue[t[i + 1]]
        BY <1>5, <3>1
      <3>3. a[i] \in Nat /\ a[i + 1] \in Nat /\ DigitValue[t[i + 1]] \in 0..9
        BY <1>3, <1>4, <3>1
      <3>4. PICK m \in Nat, n1 \in Nat, d \in 0..9 :
              m = a[i] /\ n1 = a[i + 1] /\ d = DigitValue[t[i + 1]]
        BY <3>3
      <3>5. n1 = 10 * m + d
        BY <3>2, <3>4
      <3>6. n1 >= 10 * m
        BY <3>5
      <3> QED
        BY <3>4, <3>6
    <2>5. a[2] >= 10 /\ a[2] \in Nat
      <3>1. a[1 + 1] >= 10 * a[1] /\ a[1] \in Nat /\ a[1 + 1] \in Nat
        BY <2>4
      <3> QED BY <2>3, <3>1
    <2>6. a[3] >= 100 /\ a[3] \in Nat
      <3>1. a[2 + 1] >= 10 * a[2] /\ a[2 + 1] \in Nat
        BY <2>4
      <3> QED BY <2>5, <3>1
    <2>7. a[4] >= 1000 /\ a[4] \in Nat
      <3>1. a[3 + 1] >= 10 * a[3] /\ a[3 + 1] \in Nat
        BY <2>4
      <3> QED BY <2>6, <3>1
    <2>8. a[5] >= 10000 /\ a[5] \in Nat
      <3>1. a[4 + 1] >= 10 * a[4] /\ a[4 + 1] \in Nat
        BY <2>4
      <3> QED BY <2>7, <3>1
    <2>9. a[5 + 1] >= 10 * a[5] /\ a[5 + 1] \in Nat
      BY <2>4
    <2> QED BY <2>8, <2>9
  <1> DEFINE Done == {i \in Nat : 6 <= i /\ i <= n => a[i] >= 100000}
  <1>7. 0 \in Done
    OBVIOUS
  <1>8. ASSUME NEW i \in Nat, i \in Done PROVE i + 1 \in Done
    <2> SUFFICES ASSUME 6 <= i + 1, i + 1 <= n PROVE a[i + 1] >= 100000
      OBVIOUS
    <2>1. CASE i + 1 = 6
      BY <1>6, <2>1
    <2>2. CASE i + 1 # 6
      <3>1. /\ i + 1 \in 1..n /\ (i + 1) - 1 = i /\ i \in 0..n /\ i + 1 \in 0..n
            /\ 6 <= i /\ i <= n
        BY <1>1, <2>2
      <3>2. a[i + 1] = 10 * a[i] + DigitValue[t[i + 1]]
        BY <1>5, <3>1
      <3>3. a[i] >= 100000
        BY <1>8, <3>1
      <3>4. a[i] \in Nat /\ a[i + 1] \in Nat /\ DigitValue[t[i + 1]] \in 0..9
        BY <1>3, <1>4, <3>1
      <3>5. a[i + 1] >= a[i]
        <4>1. PICK m \in Nat, n1 \in Nat, d \in 0..9 :
                m = a[i] /\ n1 = a[i + 1] /\ d = DigitValue[t[i + 1]]
          BY <3>4
        <4>2. n1 = 10 * m + d
          BY <3>2, <4>1
        <4>3. n1 >= m
          BY <4>2
        <4> QED
          BY <4>1, <4>3
      <3> QED
        BY <3>3, <3>4, <3>5
    <2> QED
      BY <2>1, <2>2
  <1>9. n \in Done
    <2> HIDE DEF Done
    <2> QED
      BY <1>1, <1>7, <1>8, Induction
  <1> QED
    BY <1>1, <1>2, <1>9

(* _convert_china_equity goes by the first of six digits: the hundred thousands. *)
LEMMA BoardIsExchange ==
  ASSUME NEW p \in [1..6 -> DigitTexts]
  PROVE  Board(p[1]) = Exchange(Number(p))
  <1>1. p \in Seq(DigitTexts) /\ Len(p) = 6
    BY ListOf
  <1>2. PICK a : Counting(a, p) /\ Number(p) = a[6]
    BY <1>1, NumberCounts
  <1>3. \A i \in 1..6 : DigitValue[p[i]] \in 0..9
    BY DigitFacts
  <1>4. /\ a[0] = 0 /\ \A i \in 0..6 : a[i] \in Nat
        /\ \A i \in 1..6 : a[i] = 10 * a[i - 1] + DigitValue[p[i]]
    BY <1>1, <1>2 DEF Counting
  <1> DEFINE d(i) == DigitValue[p[i]]
  <1>5. /\ d(1) \in 0..9 /\ d(2) \in 0..9 /\ d(3) \in 0..9
        /\ d(4) \in 0..9 /\ d(5) \in 0..9 /\ d(6) \in 0..9
    BY <1>3
  <1>6. /\ a[1] = 10 * a[0] + d(1) /\ a[2] = 10 * a[1] + d(2) /\ a[3] = 10 * a[2] + d(3)
        /\ a[4] = 10 * a[3] + d(4) /\ a[5] = 10 * a[4] + d(5) /\ a[6] = 10 * a[5] + d(6)
    <2>1. ASSUME NEW i \in 1..6 PROVE a[i] = 10 * a[i - 1] + d(i)
      BY <1>4
    <2>2. /\ a[1] = 10 * a[1 - 1] + d(1) /\ a[2] = 10 * a[2 - 1] + d(2)
          /\ a[3] = 10 * a[3 - 1] + d(3) /\ a[4] = 10 * a[4 - 1] + d(4)
          /\ a[5] = 10 * a[5 - 1] + d(5) /\ a[6] = 10 * a[6 - 1] + d(6)
      BY <2>1
    <2> HIDE DEF d
    <2> QED
      BY <2>2
  <1>7. /\ a[1] \in Nat /\ a[2] \in Nat /\ a[3] \in Nat
        /\ a[4] \in Nat /\ a[5] \in Nat /\ a[6] \in Nat
    BY <1>4
  <1> HIDE DEF d
  <1>9. a[6] \div 100000 = d(1)
    <2>1. a[1] = d(1)
      BY <1>4, <1>5, <1>6
    <2> QED
      <3>1. PICK d1 \in 0..9, d2 \in 0..9, d3 \in 0..9, d4 \in 0..9, d5 \in 0..9, d6 \in 0..9 :
              d1 = d(1) /\ d2 = d(2) /\ d3 = d(3) /\ d4 = d(4) /\ d5 = d(5) /\ d6 = d(6)
        BY <1>5
      <3>2. PICK a2 \in Nat, a3 \in Nat, a4 \in Nat, a5 \in Nat, a6 \in Nat :
              a2 = a[2] /\ a3 = a[3] /\ a4 = a[4] /\ a5 = a[5] /\ a6 = a[6]
        BY <1>7
      <3>3. /\ a2 = 10 * d1 + d2 /\ a3 = 10 * a2 + d3
            /\ a4 = 10 * a3 + d4 /\ a5 = 10 * a4 + d5 /\ a6 = 10 * a5 + d6
        BY <1>6, <2>1, <3>1, <3>2
      <3>4. a6 = 100000 * d1 + 10000 * d2 + 1000 * d3 + 100 * d4 + 10 * d5 + d6
        BY <3>3
      <3>5. a6 \div 100000 = d1
        BY <3>4
      <3> QED
        BY <3>1, <3>2, <3>5
  <1>10. /\ p[1] \in {"0", "2", "3"} <=> d(1) \in {0, 2, 3}
         /\ p[1] \in {"4", "8"} <=> d(1) \in {4, 8}
    <2>1. p[1] \in DigitTexts
      OBVIOUS
    <2> QED
      BY <2>1 DEF d, DigitValue, DigitTexts
  <1> QED
    BY <1>2, <1>9, <1>10 DEF Board, Exchange

(* In a fixed width a number is written in one way. *)
LEMMA OneWay ==
  ASSUME NEW width \in Nat, NEW s \in [1..width -> DigitTexts],
         NEW t \in [1..width -> DigitTexts], Number(s) = Number(t)
  PROVE  s = t
  <1>1. s \in Seq(DigitTexts) /\ Len(s) = width /\ t \in Seq(DigitTexts) /\ Len(t) = width
    BY ListOf
  <1>2. PICK a : Counting(a, s) /\ Number(s) = a[width]
    BY <1>1, NumberCounts
  <1>3. PICK b : Counting(b, t) /\ Number(t) = b[width]
    BY <1>1, NumberCounts
  <1> DEFINE Done == {i \in Nat : i <= width /\ a[i] = b[i] => \A j \in 1..i : s[j] = t[j]}
  <1>4. 0 \in Done
    OBVIOUS
  <1>5. ASSUME NEW i \in Nat, i \in Done PROVE i + 1 \in Done
    <2> SUFFICES ASSUME i + 1 <= width, a[i + 1] = b[i + 1]
                 PROVE  \A j \in 1..(i + 1) : s[j] = t[j]
      OBVIOUS
    <2>1. i + 1 \in 1..width /\ (i + 1) - 1 = i /\ i \in 0..width /\ i <= width
      OBVIOUS
    <2>2. /\ a[i + 1] = 10 * a[i] + DigitValue[s[i + 1]] /\ a[i] \in Nat
          /\ b[i + 1] = 10 * b[i] + DigitValue[t[i + 1]] /\ b[i] \in Nat
      BY <1>1, <1>2, <1>3, <2>1 DEF Counting
    <2>3. /\ s[i + 1] \in DigitTexts /\ t[i + 1] \in DigitTexts
          /\ DigitValue[s[i + 1]] \in 0..9 /\ DigitValue[t[i + 1]] \in 0..9
      BY <2>1, DigitFacts
    <2>4. a[i] = b[i] /\ DigitValue[s[i + 1]] = DigitValue[t[i + 1]]
      <3>1. PICK m \in Nat, n \in Nat, d \in 0..9, e \in 0..9 :
              /\ m = a[i] /\ n = b[i]
              /\ d = DigitValue[s[i + 1]] /\ e = DigitValue[t[i + 1]]
        BY <2>2, <2>3
      <3>2. 10 * m + d = 10 * n + e
        BY <1>5, <2>2, <3>1
      <3>3. m = n /\ d = e
        BY <3>2
      <3> QED
        BY <3>1, <3>3
    <2>5. s[i + 1] = t[i + 1]
      BY <2>3, <2>4, DigitFacts
    <2>6. \A j \in 1..(i + 1) : j \in 1..i \/ j = i + 1
      OBVIOUS
    <2> QED
      BY <1>5, <2>1, <2>4, <2>5, <2>6
  <1>6. width \in Done
    <2> HIDE DEF Done
    <2> QED
      BY <1>4, <1>5, Induction
  <1>7. a[width] = b[width]
    BY <1>2, <1>3
  <1>8. \A j \in 1..width : s[j] = t[j]
    BY <1>6, <1>7
  <1> QED
    BY <1>8

-----------------------------------------------------------------------------
(* Listings. *)

(* _convert_china_equity: a number is padded and put on its board. *)
LEMMA MainlandListing ==
  ASSUME NEW code, Numbered(code, "CH"), Len(code.ticker) <= 6
  PROVE  IsListing(ConvertSingle(code), Number(code.ticker), 6, Exchange(Number(code.ticker)))
  <1> DEFINE t == code.ticker
             p == Padded(t, 6)
  <1>1. t \in Seq(DigitTexts) /\ 6 >= Len(t) /\ 6 \in Nat
    BY DEF Numbered
  <1>2. ConvertSingle(code) = Wind(p, Board(p[1]))
    BY MarketsAssumption DEF Numbered, ConvertSingle, ConvertEquity, ConvertChina
  <1>3. IsPadded(p, t, 6)
    BY <1>1, PaddedDigits
  <1>4. p \in [1..6 -> DigitTexts]
    BY <1>3 DEF IsPadded
  <1>5. Number(p) = Number(t)
    BY <1>1, PaddedNumber
  <1> HIDE DEF p
  <1>6. Board(p[1]) = Exchange(Number(t))
    BY <1>4, <1>5, BoardIsExchange
  <1> QED
    BY <1>2, <1>4, <1>5, <1>6 DEF IsListing, Wind

(* The Hong Kong branch of _convert_equity: zeros off, then padded again. *)
LEMMA HongKongListing ==
  ASSUME NEW code, Numbered(code, "HK"), Number(code.ticker) < 100000
  PROVE  IsListing(ConvertSingle(code), Number(code.ticker), 5, "HK")
  <1> DEFINE t == code.ticker
             s == Stripped(t)
             number == IF s = <<>> THEN <<"0">> ELSE s
             p == Padded(number, 5)
  <1>1. t \in Seq(DigitTexts) /\ Len(t) \in Nat
    BY DEF Numbered
  <1>2. ConvertSingle(code) = Wind(p, "HK")
    BY MarketsAssumption DEF Numbered, ConvertSingle, ConvertEquity, ConvertHk
  <1>3. /\ s \in Seq(DigitTexts) /\ Len(t) >= Len(s)
        /\ s = <<>> \/ s[1] # "0"
        /\ t = Padded(s, Len(t))
    <2>1. Len(s) <= Len(t) /\ s \in Seq(DigitTexts)
      BY <1>1, StrippedPads
    <2>2. s = <<>> \/ s[1] # "0"
      BY <1>1, StrippedPads
    <2>3. t = Padded(s, Len(t))
      BY <1>1, StrippedPads
    <2> HIDE DEF s, t
    <2> QED
      BY <1>1, <2>1, <2>2, <2>3
  <1> HIDE DEF s
  <1>4. Number(s) = Number(t)
    <2>1. Number(Padded(s, Len(t))) = Number(s)
      BY <1>1, <1>3, PaddedNumber
    <2> QED
      BY <1>3, <2>1
  <1>5. number \in Seq(DigitTexts) /\ Len(number) <= 5 /\ Number(number) = Number(t)
    <2>1. CASE s = <<>>
      <3>1. number = <<"0">> /\ <<"0">> \in Seq(DigitTexts) /\ Len(<<"0">>) = 1
        BY <2>1, DigitFacts
      <3>2. PICK w \in Nat : w = 1 /\ Len(s) = 0 /\ w >= Len(s) /\ w - Len(s) = w
        BY <2>1
      <3>3. w \in Nat /\ w >= Len(s) /\ s \in Seq(DigitTexts)
        BY <1>3, <3>2
      <3>4. Number(Padded(s, w)) = Number(s)
        BY <3>3, PaddedNumber
      <3>5. IsPadded(Padded(s, w), s, w)
        BY <3>3, PaddedDigits
      <3>6. Padded(s, w) = <<"0">>
        <4>1. Padded(s, w) \in [1..1 -> DigitTexts] /\ Padded(s, w)[1] = "0"
          BY <3>2, <3>5 DEF IsPadded
        <4> QED
          BY <4>1
      <3> HIDE DEF number
      <3> QED
        BY <1>4, <3>1, <3>4, <3>6
    <2>2. CASE s # <<>>
      <3>1. s[1] # "0"
        BY <1>3, <2>2
      <3>2. ~(Len(s) >= 6)
        <4> SUFFICES ASSUME Len(s) >= 6 PROVE FALSE
          OBVIOUS
        <4>1. Number(s) >= 100000
          BY <1>3, <3>1, LongNumber
        <4>2. \E n \in Nat : n = Number(s)
          <5>1. PICK a : Counting(a, s) /\ Number(s) = a[Len(s)]
            BY <1>3, NumberCounts
          <5> QED
            BY <1>3, <5>1 DEF Counting
        <4> QED
          BY <1>4, <4>1, <4>2
      <3>3. Len(s) \in Nat
        BY <1>3
      <3> QED
        BY <1>3, <1>4, <2>2, <3>2, <3>3
    <2> QED
      BY <2>1, <2>2
  <1> HIDE DEF number
  <1>6. 5 \in Nat /\ 5 >= Len(number)
    BY <1>5
  <1>7. IsPadded(p, number, 5)
    BY <1>5, <1>6, PaddedDigits
  <1>8. p \in [1..5 -> DigitTexts]
    BY <1>7 DEF IsPadded
  <1>9. Number(p) = Number(number)
    BY <1>5, <1>6, PaddedNumber
  <1> HIDE DEF p
  <1> QED
    BY <1>2, <1>5, <1>8, <1>9 DEF IsListing, Wind

-----------------------------------------------------------------------------
(* What conversion leaves alone. *)

(* A code in Wind's form is not converted outside the mainland, *)
LEMMA ForeignStays ==
  ASSUME NEW wind, wind.form = "wind", Upper[wind.place] \notin MainlandSuffixes
  PROVE  ConvertSingle(wind) = wind
  BY DEF ConvertSingle

(* and on the mainland only its capitals are. *)
LEMMA MainlandStays ==
  ASSUME NEW t, UpperTicker(t) = t, NEW s \in MainlandSuffixes
  PROVE  ConvertSingle(Wind(t, s)) = Wind(t, s)
  <1>1. Upper[s] = s
    BY UpperAssumption
  <1> QED
    BY <1>1 DEF ConvertSingle, Wind

(* A name with no market is passed through. *)
LEMMA BareStays == \A t : ConvertSingle(Bare(t)) = Bare(t)
  BY DEF ConvertSingle, Bare

(* What a map gave, or could not, is left alone. *)
LEMMA ByMapStays ==
  ASSUME NEW map \in {IndexMap, CommodityMap, CurrencyMap}, NEW t
  PROVE  ConvertSingle(ByMap(map, t)) = ByMap(map, t)
  <1>1. CASE UpperTicker(t) \in DOMAIN map
    BY <1>1, MapsAssumption DEF ByMap
  <1>2. CASE UpperTicker(t) \notin DOMAIN map
    BY <1>2, BareStays DEF ByMap
  <1> QED
    BY <1>1, <1>2

(* So is what an equity of any market is converted to. *)
LEMMA EquityStays ==
  ASSUME NEW t, NEW market \in Markets, market = "CH" => t \in Seq(DigitTexts)
  PROVE  ConvertSingle(ConvertEquity(t, market)) = ConvertEquity(t, market)
  <1>1. CASE market = "CH"
    <2> DEFINE p == Padded(t, 6)
    <2>1. ConvertEquity(t, market) = Wind(p, Board(p[1]))
      BY <1>1, MarketsAssumption DEF ConvertEquity, ConvertChina
    <2>2. p \in Seq(DigitTexts)
      BY <1>1, PaddedDigits
    <2> HIDE DEF p
    <2>3. UpperTicker(p) = p
      <3>1. \A i \in DOMAIN p : Upper[p[i]] = p[i]
        BY <2>2, DigitsAssumption
      <3>2. p = [i \in DOMAIN p |-> p[i]]
        BY <2>2
      <3> QED
        BY <3>1, <3>2 DEF UpperTicker
    <2>4. Board(p[1]) \in MainlandSuffixes
      BY DEF Board, MainlandSuffixes
    <2> QED
      BY <2>1, <2>3, <2>4, MainlandStays
  <1>2. CASE market # "CH"
    <2>1. PICK ticker, suffix : /\ ConvertEquity(t, market) = Wind(ticker, suffix)
                                /\ Upper[suffix] \notin MainlandSuffixes
      <3>1. CASE market = "HK"
        BY <1>2, <3>1, MarketsAssumption DEF ConvertEquity, ConvertHk
      <3>2. CASE market = "US"
        <4> DEFINE u == UpperTicker(t)
                   suffix == IF u \in DOMAIN UsExchange THEN UsExchange[u] ELSE "O"
        <4>1. ConvertEquity(t, market) = Wind(u, suffix)
          BY <1>2, <3>2, MarketsAssumption DEF ConvertEquity, ConvertUs
        <4>2. suffix \in Range(UsExchange) \cup {"O"}
          BY DEF Range
        <4> HIDE DEF suffix
        <4> QED
          BY <4>1, <4>2, MarketsAssumption
      <3>3. CASE market \notin {"HK", "US"} /\ market \in DOMAIN SuffixOf
        <4>1. ConvertEquity(t, market) = Wind(t, SuffixOf[market])
          BY <1>2, <3>3 DEF ConvertEquity
        <4>2. SuffixOf[market] \in Range(SuffixOf)
          BY <3>3 DEF Range
        <4> QED
          BY <4>1, <4>2, MarketsAssumption
      <3>4. CASE market \notin {"HK", "US"} /\ market \notin DOMAIN SuffixOf
        <4>1. ConvertEquity(t, market) = Wind(t, market)
          BY <1>2, <3>4 DEF ConvertEquity
        <4> QED
          BY <4>1, MarketsAssumption
      <3> QED
        BY <3>1, <3>2, <3>3, <3>4
    <2>2. /\ Wind(ticker, suffix).form = "wind"
          /\ Wind(ticker, suffix).place = suffix
      BY DEF Wind
    <2> QED
      BY <2>1, <2>2, ForeignStays
  <1> QED
    BY <1>1, <1>2

(* What was sent is sent again as it is. *)
LEMMA OwnForm ==
  ASSUME NEW code, code.ticker \in Seq(DOMAIN Upper), code.place \in DOMAIN Upper,
         Mainland(code) => Numbered(code, "CH")
  PROVE  ConvertSingle(ConvertSingle(code)) = ConvertSingle(code)
  <1> DEFINE place == Upper[code.place]
  <1>1. CASE code.form = "wind" /\ place \in MainlandSuffixes
    <2> DEFINE u == UpperTicker(code.ticker)
    <2>1. ConvertSingle(code) = Wind(u, place)
      BY <1>1 DEF ConvertSingle
    <2>2. UpperTicker(u) = u
      <3>1. \A i \in DOMAIN code.ticker : Upper[Upper[code.ticker[i]]] = Upper[code.ticker[i]]
        BY UpperAssumption
      <3> QED
        BY <3>1 DEF UpperTicker
    <2> QED
      BY <1>1, <2>1, <2>2, MainlandStays
  <1>2. CASE code.form = "Equity" /\ place \in Markets
    <2>1. ConvertSingle(code) = ConvertEquity(code.ticker, place)
      BY <1>2 DEF ConvertSingle
    <2>2. place = "CH" => code.ticker \in Seq(DigitTexts)
      BY <1>2 DEF Mainland, Numbered
    <2> QED
      BY <1>2, <2>1, <2>2, EquityStays
  <1>3. CASE code.form = "Index"
    <2> DEFINE u == UpperTicker(BeforeKey(code))
    <2>1. ConvertSingle(code) = ConvertIndex(BeforeKey(code))
      BY <1>3 DEF ConvertSingle
    <2>2. CASE u \in DOMAIN IndexMap
      BY <2>1, <2>2, MapsAssumption DEF ConvertIndex
    <2>3. CASE u \notin DOMAIN IndexMap
      <3>1. ConvertSingle(code) = Wind(u, "GI")
        BY <2>1, <2>3 DEF ConvertIndex
      <3>2. Wind(u, "GI").form = "wind" /\ Wind(u, "GI").place = "GI"
        BY DEF Wind
      <3>3. Upper["GI"] \notin MainlandSuffixes
        BY MarketsAssumption
      <3> QED
        BY <3>1, <3>2, <3>3, ForeignStays
    <2> QED
      BY <2>2, <2>3
  <1>4. CASE code.form = "Comdty"
    <2>1. ConvertSingle(code) = ByMap(CommodityMap, BeforeKey(code))
      BY <1>4 DEF ConvertSingle
    <2> QED
      BY <2>1, ByMapStays
  <1>5. CASE code.form = "Curncy"
    <2>1. ConvertSingle(code) = ByMap(CurrencyMap, BeforeKey(code))
      BY <1>5 DEF ConvertSingle
    <2> QED
      BY <2>1, ByMapStays
  <1>6. CASE /\ ~(code.form = "wind" /\ place \in MainlandSuffixes)
             /\ ~(code.form = "Equity" /\ place \in Markets)
             /\ code.form \notin {"Index", "Comdty", "Curncy"}
    BY <1>6 DEF ConvertSingle
  <1> QED
    BY <1>1, <1>2, <1>3, <1>4, <1>5, <1>6

-----------------------------------------------------------------------------
(* What became of the codes that were said, if anything did. *)
CodesInv ==
  /\ said \in Words \cup {Nothing}
  /\ sent[1] = "codes" => said[1] = "codes" /\ sent[2] = EnsureWindCodes(said[2])

(* It holds in every state. *)
LEMMA CodesInvariance == TranslationSpec => []CodesInv
  <1>1. TranslationInit => CodesInv
    BY DEF TranslationInit, CodesInv, Nothing
  <1>2. ASSUME CodesInv, [TranslationNext]_translationVars
        PROVE  CodesInv'
    <2>1. CASE ConvertCodes
      <3>1. said' = said /\ said[1] = "codes" /\ sent' = <<"codes", EnsureWindCodes(said[2])>>
        BY <2>1 DEF ConvertCodes, Translate
      <3> QED
        BY <1>2, <3>1 DEF CodesInv
    <2>2. CASE AcceptRange
      <3>1. said' = said /\ said[1] = "range" /\ sent' = said
        BY <2>2 DEF AcceptRange, Translate
      <3> QED
        BY <1>2, <3>1 DEF CodesInv
    <2>3. CASE RefuseRange
      <3>1. said' = said /\ sent' = <<"refused">>
        BY <2>3 DEF RefuseRange, Translate
      <3> QED
        BY <1>2, <3>1 DEF CodesInv
    <2>4. CASE AskAndParse
      BY <1>2, <2>4 DEF AskAndParse, CodesInv
    <2>5. CASE UNCHANGED translationVars
      BY <1>2, <2>5 DEF translationVars, CodesInv
    <2> QED
      BY <1>2, <2>1, <2>2, <2>3, <2>4, <2>5 DEF TranslationNext
  <1> QED
    BY <1>1, <1>2, PTL DEF TranslationSpec

(* For numbers of any length and any names, markets and maps: a Hong Kong or mainland
   share is sent as the listing of its number, and whatever is sent is Wind's own
   form already. *)
THEOREM ListingsSame == TranslationSpec => []SameListing
  <1>1. CodesInv => SameListing
    <2> SUFFICES ASSUME CodesInv, sent[1] = "codes", NEW i \in DOMAIN said[2]
                 PROVE
                   LET code == said[2][i]
                       wind == sent[2][i]
                       n == Number(code.ticker)
                   IN  /\ (Numbered(code, "HK") /\ n < 100000) => IsListing(wind, n, 5, "HK")
                       /\ (Numbered(code, "CH") /\ Len(code.ticker) <= 6)
                            => IsListing(wind, n, 6, Exchange(n))
                       /\ (Mainland(code) => Numbered(code, "CH")) => ConvertSingle(wind) = wind
      BY DEF SameListing
    <2> DEFINE code == said[2][i]
    <2>1. said[2] \in CodeLists /\ sent[2][i] = ConvertSingle(code)
      BY DEF CodesInv, Words, Nothing, EnsureWindCodes
    <2>2. code.ticker \in Seq(DOMAIN Upper) /\ code.place \in DOMAIN Upper
      BY <2>1, CodesAssumption
    <2> HIDE DEF code
    <2>3. (Numbered(code, "HK") /\ Number(code.ticker) < 100000)
            => IsListing(ConvertSingle(code), Number(code.ticker), 5, "HK")
      BY HongKongListing
    <2>4. (Numbered(code, "CH") /\ Len(code.ticker) <= 6)
            => IsListing(ConvertSingle(code), Number(code.ticker), 6, Exchange(Number(code.ticker)))
      BY MainlandListing
    <2>5. (Mainland(code) => Numbered(code, "CH"))
            => ConvertSingle(ConvertSingle(code)) = ConvertSingle(code)
      BY <2>2, OwnForm
    <2> QED
      BY <2>1, <2>3, <2>4, <2>5 DEF code
  <1> QED
    BY <1>1, CodesInvariance, PTL

(* One share is one code, and so one key of the cache: two names with the same number
   on one market are sent to Wind as the same code. *)
THEOREM OneShareOneCode ==
  ASSUME NEW a, NEW b, NEW market \in {"HK", "CH"},
         Numbered(a, market), Numbered(b, market),
         Number(a.ticker) = Number(b.ticker),
         IF market = "HK" THEN Number(a.ticker) < 100000
         ELSE Len(a.ticker) <= 6 /\ Len(b.ticker) <= 6
  PROVE  ConvertSingle(a) = ConvertSingle(b)
  <1>1. ASSUME NEW n, NEW v, NEW w, NEW width \in Nat, NEW exchange,
               IsListing(v, n, width, exchange), IsListing(w, n, width, exchange)
        PROVE  v = w
    <2>1. v.ticker = w.ticker
      BY <1>1, OneWay DEF IsListing
    <2> QED
      BY <1>1, <2>1 DEF IsListing
  <1>2. CASE market = "HK"
    <2>1. /\ IsListing(ConvertSingle(a), Number(a.ticker), 5, "HK")
          /\ IsListing(ConvertSingle(b), Number(a.ticker), 5, "HK")
      BY <1>2, HongKongListing
    <2> QED
      BY <1>1, <2>1
  <1>3. CASE market = "CH"
    <2>1. /\ IsListing(ConvertSingle(a), Number(a.ticker), 6, Exchange(Number(a.ticker)))
          /\ IsListing(ConvertSingle(b), Number(a.ticker), 6, Exchange(Number(a.ticker)))
      BY <1>3, MainlandListing
    <2> QED
      BY <1>1, <2>1
  <1> QED
    BY <1>2, <1>3
=============================================================================
