------------------------------- MODULE Parser --------------------------------
(***************************************************************************)
(* core/parser.py: turning a WindData object into rows.  Wind sends a      *)
(* table of fields, codes and times as nested lists, in an order that      *)
(* depends on the call and on how many of each there are, and that for     *)
(* several codes and fields is told by lengths only.                       *)
(*                                                                         *)
(* Fields, codes and times are known by their position; their names are    *)
(* taken to be distinct.  wsq, wsee and wps are parsed as wss, wses and    *)
(* wpd as wsd, wst as wsi, weqs and wpf as wset.                           *)
(***************************************************************************)
EXTENDS Integers, Sequences

CONSTANTS Values,     \* what a cell may hold
          NaN,        \* of these, a float that is no number
          None,
          MaxAxis,    \* bound: fields, codes, times
          MaxCells    \* bound: cells of a table

\* A cell is not a list (_as_sequence tells them apart).
ASSUME ValuesAssumption ==
  /\ NaN \in Values
  /\ None \notin Values
  /\ \A v \in Values : v \notin Seq(Values)
ASSUME BoundsAssumption == MaxAxis \in Nat /\ MaxCells \in Nat

Queries ==
  {q \in [api : {"wss", "wsd", "wsi", "wset", "edb"},
          fields : 1..MaxAxis, codes : 1..MaxAxis, times : 0..MaxAxis] :
     /\ q.api = "wss" => q.times = 1
     /\ q.api \in {"wsi", "wset"} => q.codes = 1
     /\ q.api = "edb" => q.fields = 1
     /\ q.times = 0 => q.api = "wset"
     /\ q.fields * q.codes * q.times <= MaxCells}

VARIABLES
  query,    \* the call, and the lengths of Fields, Codes and Times
  table,    \* what Wind means, by field, code and time; rows of wset count as times
  data,     \* Data as it arrives
  phase,
  parsed

vars == <<query, table, data, phase, parsed>>

Fields == 1..query.fields
Codes == 1..query.codes
Times == 1..query.times

Init ==
  /\ query \in Queries
  /\ table \in [1..query.fields -> [1..query.codes -> [1..query.times -> Values]]]
  /\ data = <<>>
  /\ phase = "asked"
  /\ parsed = <<>>

-----------------------------------------------------------------------------
\* Wind's side.

OneCode == \/ query.api \in {"wsi", "wset"}
           \/ query.api = "wsd" /\ query.codes = 1
OneField == \/ query.api = "edb"
            \/ query.api = "wsd" /\ query.fields = 1 /\ query.codes > 1
Blocks == query.api = "wsd" /\ query.fields > 1 /\ query.codes > 1

Columns == IF OneField THEN table[1]
           ELSE IF OneCode THEN [f \in Fields |-> table[f][1]]
           ELSE [f \in Fields |-> [c \in Codes |-> table[f][c][1]]]

\* A single time of a single field arrives as one list, of all codes.
Folded == <<[c \in Codes |-> table[1][c][1]]>>

CodeMajor == [c \in Codes |-> [f \in Fields |-> table[f][c]]]

\* The innermost axis collapses when it has one point.
BareFields == [f \in Fields |-> [c \in Codes |-> table[f][c][1]]]
BareCodes == [c \in Codes |-> [f \in Fields |-> table[f][c][1]]]

Send(d) ==
  /\ phase = "asked"
  /\ data' = d
  /\ phase' = "answered"
  /\ UNCHANGED <<query, table, parsed>>

SendColumns == ~Blocks /\ Send(Columns)
SendFolded == query.api = "wsd" /\ OneField /\ query.times = 1 /\ Send(Folded)
SendBlocks == Blocks /\ (Send(table) \/ Send(CodeMajor))
SendBare == Blocks /\ query.times = 1 /\ (Send(BareFields) \/ Send(BareCodes))
SendNothing == query.times = 0 /\ Send(<<>>)

\* ErrorCode # 0: every parser starts with _check_error, which raises.
Fail ==
  /\ phase = "asked"
  /\ phase' = "error"
  /\ UNCHANGED <<query, table, data, parsed>>

-----------------------------------------------------------------------------
\* The parsers.

Return(p) == phase' = "parsed" /\ parsed' = p /\ UNCHANGED <<query, table, data>>

Raise == phase' = "raised" /\ UNCHANGED <<query, table, data, parsed>>

\* Mutant: a NaN is passed on.
SafeValueKept(v) == IF v = NaN THEN NaN ELSE v

SafeValue(v) == IF v = NaN THEN None ELSE v

AsSequence(cell) == IF cell \in Values THEN <<cell>> ELSE cell

\* for i in rows: for j in columns: data[j][i], with its IndexError.
ParseRows(rows, columns) ==
  IF \A j \in 1..columns : rows > 0 => j <= Len(data) /\ rows <= Len(data[j])
  THEN Return([i \in 1..rows |-> [j \in 1..columns |-> SafeValue(data[j][i])]])
  ELSE Raise

ParseWss == query.api = "wss" /\ phase = "answered" /\ ParseRows(query.codes, query.fields)

ParseWsi == query.api = "wsi" /\ phase = "answered" /\ ParseRows(query.times, query.fields)

ParseEdb == query.api = "edb" /\ phase = "answered" /\ ParseRows(query.times, query.codes)

ParseWset ==
  /\ query.api = "wset" /\ phase = "answered"
  /\ IF data = <<>> \/ data[1] = <<>>
     THEN Return(<<>>)
     ELSE ParseRows(Len(data[1]), query.fields)

ParseOneCode ==
  /\ query.api = "wsd" /\ query.codes = 1 /\ phase = "answered"
  /\ ParseRows(query.times, query.fields)

\* Mutant: the single day is read like any other.
ParseOneFieldUnfolded ==
  /\ query.api = "wsd" /\ query.fields = 1 /\ query.codes > 1 /\ phase = "answered"
  /\ ParseRows(query.times, query.codes)

ParseOneField ==
  /\ query.api = "wsd" /\ query.fields = 1 /\ query.codes > 1 /\ phase = "answered"
  /\ IF query.times = 1 /\ Len(data) = 1 /\ Len(data[1]) = query.codes
     THEN Return(<<[c \in Codes |-> SafeValue(data[1][c])]>>)
     ELSE ParseRows(query.times, query.codes)

Series(cell) ==
  [t \in 1..Len(AsSequence(cell)) |-> SafeValue(AsSequence(cell)[t])]

\* Mutant: as many fields as codes are taken to be field-major.
ParseBlocksGuessing ==
  /\ Blocks /\ phase = "answered"
  /\ \/ /\ Len(data) = query.fields
        /\ \A b \in 1..Len(data) : Len(data[b]) = query.codes
        /\ Return([c \in Codes |-> [f \in Fields |-> Series(data[f][c])]])
     \/ /\ query.fields # query.codes /\ Len(data) = query.codes
        /\ \A b \in 1..Len(data) : Len(data[b]) = query.fields
        /\ Return([c \in Codes |-> [f \in Fields |-> Series(data[c][f])]])

FieldMajorShape ==
  /\ query.fields # query.codes /\ Len(data) = query.fields
  /\ \A b \in 1..Len(data) : Len(data[b]) = query.codes

CodeMajorShape ==
  /\ query.fields # query.codes /\ Len(data) = query.codes
  /\ \A b \in 1..Len(data) : Len(data[b]) = query.fields

ParseBlocks ==
  /\ Blocks /\ phase = "answered"
  /\ \/ /\ FieldMajorShape
        /\ Return([c \in Codes |-> [f \in Fields |-> Series(data[f][c])]])
     \/ /\ CodeMajorShape
        /\ Return([c \in Codes |-> [f \in Fields |-> Series(data[c][f])]])
     \/ ~FieldMajorShape /\ ~CodeMajorShape /\ Raise

Next ==
  \/ SendColumns \/ SendFolded \/ SendBlocks \/ SendBare \/ SendNothing \/ Fail
  \/ ParseWss \/ ParseWsi \/ ParseEdb \/ ParseWset
  \/ ParseOneCode \/ ParseOneField \/ ParseBlocks

Spec == Init /\ [][Next]_vars
-----------------------------------------------------------------------------
Clean == (Values \ {NaN}) \cup {None}

(* In particular no NaN, which is not valid in JSON, reaches a caller. *)
TypeOK ==
  /\ query \in Queries
  /\ table \in [Fields -> [Codes -> [Times -> Values]]]
  /\ phase \in {"asked", "answered", "error", "parsed", "raised"}
  /\ phase = "parsed" =>
       parsed \in IF Blocks THEN Seq(Seq(Seq(Clean))) ELSE Seq(Seq(Clean))

\* Where the callers find a value: rows by time, or by code for wss, or the
\* series of a code and a field.
Found(f, c, t) ==
  IF query.api = "wss" THEN parsed[c][f]
  ELSE IF OneCode THEN parsed[t][f]
  ELSE IF OneField THEN parsed[t][c]
  ELSE parsed[c][f][t]

(* Whatever order and folding Wind chose, a value is found under its own field,
   code and time or the response is refused; never under another's, and there is
   a row for every time or code and no other. *)
ValuesInPlace ==
  phase = "parsed" =>
    /\ Len(parsed) = IF query.api = "wss" \/ Blocks THEN query.codes ELSE query.times
    /\ \A f \in Fields, c \in Codes, t \in Times : Found(f, c, t) = SafeValue(table[f][c][t])

\* The response is as good in either order: one of another table could be the same.
Ambiguous ==
  /\ Blocks
  /\ Len(data) = query.fields /\ Len(data) = query.codes
  /\ \A b \in 1..Len(data) : Len(data[b]) = query.fields /\ Len(data[b]) = query.codes

(* "when n_f == n_c the shape cannot disambiguate at all, so refuse rather than
   guess wrong" (parse_wsd): the parsers refuse nothing else, and index past no
   end, the single folded day included. *)
RefusesOnlyAmbiguous == phase = "raised" => Ambiguous
=============================================================================
