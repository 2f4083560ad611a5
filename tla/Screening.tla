------------------------------ MODULE Screening ------------------------------
(***************************************************************************)
(* handle_dynamic_screen: the rows of a universe are filtered, ranked and  *)
(* cut in memory (core/filters.py, handlers/screening.py).  Operators      *)
(* only; Tools has the call.                                               *)
(*                                                                         *)
(* A value is a kind and a magnitude, <<"number", n>> or <<"text", n>>;    *)
(* magnitude 0 is the number 0 and the empty text.  A row is a function of *)
(* the names it has: its fields, in lower case, and "code".                *)
(***************************************************************************)
EXTENDS Handlers, FiniteSets

CONSTANTS
  Contained,   \* <<part, whole>>: str(part).lower() in str(whole).lower()
  CodeText     \* a code, as the text it is

Missing == <<"none", 0>>

\* row.get(field.lower()): a filter or a ranking may name the code, or a field, in
\* any case.
ValueOf(row, field) ==
  IF Lower[field] \in DOMAIN row THEN row[Lower[field]] ELSE Missing

SameKind(a, b) == a[1] = b[1]
Less(a, b) == SameKind(a, b) /\ a[2] < b[2]

-----------------------------------------------------------------------------
\* resolve_universe: the codes listed, or the constituents Wind finds.
Universe(u, found) == IF u.kind = "codes" THEN WindCodes(u.codes) ELSE found

\* parse_wss: a row per code, which has the code, unless a field of that name takes
\* its place, and the fields.
RowOf(code, cells) ==
  [name \in DOMAIN cells \cup {"code"} |->
     IF name \in DOMAIN cells THEN cells[name] ELSE CodeText[code]]

Rows(codes, cells) == [i \in DOMAIN codes |-> RowOf(codes[i], cells[i])]

-----------------------------------------------------------------------------
\* apply_filters: a comparison with a missing value, or of a number with a text,
\* fails; only "neq", and "contains", which makes texts of both, hold between kinds.
\* "in" and "between" take a list.

Compare(v, op, target) ==
  CASE op = "gt" -> Less(target, v)
    [] op = "gte" -> Less(target, v) \/ target = v
    [] op = "lt" -> Less(v, target)
    [] op = "lte" -> Less(v, target) \/ target = v
    [] op = "eq" -> v = target
    [] op = "neq" -> v # target
    [] op = "in" -> v \in ToSet(target)
    [] op = "between" -> /\ Len(target) >= 2
                         /\ Less(target[1], v) \/ target[1] = v
                         /\ Less(v, target[2]) \/ v = target[2]
    [] op = "contains" -> <<target, v>> \in Contained

Passes(row, f) ==
  LET v == ValueOf(row, f.field)
  IN  CASE f.op = "isnull" -> v = Missing
        [] f.op = "notnull" -> v # Missing
        [] OTHER -> v # Missing /\ Compare(v, f.op, f.value)

Filtered(rows, f) ==
  LET kept[i \in 0..Len(rows)] ==
        IF i = 0 THEN <<>>
        ELSE IF Passes(rows[i], f) THEN Append(kept[i - 1], rows[i]) ELSE kept[i - 1]
  IN  kept[Len(rows)]

\* Mutant: every filter starts again from all rows.
ApplyLastFilter(rows, filters) ==
  LET left[n \in 0..Len(filters)] == IF n = 0 THEN rows ELSE Filtered(rows, filters[n])
  IN  left[Len(filters)]

ApplyFilters(rows, filters) ==
  LET left[n \in 0..Len(filters)] == IF n = 0 THEN rows ELSE Filtered(left[n - 1], filters[n])
  IN  left[Len(filters)]

-----------------------------------------------------------------------------
\* Ranking: a missing or falsy value counts as the number 0, and the sort, stable
\* in both directions, compares numbers with numbers and texts with texts only.

RankKey(row, field) ==
  LET v == ValueOf(row, field) IN IF v[2] = 0 THEN <<"number", 0>> ELSE v

Rankable(rows, field) ==
  \A i, j \in DOMAIN rows : SameKind(RankKey(rows[i], field), RankKey(rows[j], field))

Ahead(a, b, s) ==
  IF s.descending THEN Less(RankKey(b, s.rankBy), RankKey(a, s.rankBy))
  ELSE Less(RankKey(a, s.rankBy), RankKey(b, s.rankBy))

Ranked(rows, s) ==
  LET Place(i) == Cardinality({j \in DOMAIN rows : \/ Ahead(rows[j], rows[i], s)
                                                   \/ /\ j <= i
                                                      /\ ~Ahead(rows[i], rows[j], s)})
  IN  [n \in DOMAIN rows |-> rows[CHOOSE i \in DOMAIN rows : Place(i) = n]]

\* data[:top_n]: 0 is no cut, a negative n cuts off the last |n|.
Cut(rows, n) ==
  LET size == IF n >= 0 THEN n ELSE Len(rows) + n
  IN  IF n = 0 THEN rows
      ELSE SubSeq(rows, 1, IF size > Len(rows) THEN Len(rows) ELSE size)

\* Mutant: cut first, then rank.
OutcomeCutFirst(rows, s) ==
  LET passing == Cut(ApplyFilters(rows, s.filters), s.topN)
  IN  IF s.rankBy = "" THEN passing ELSE Ranked(passing, s)

\* A screen s has filters, rankBy ("" for none), descending and topN (0 for none).
Outcome(rows, s) ==
  LET passing == ApplyFilters(rows, s.filters)
  IN  Cut(IF s.rankBy = "" THEN passing ELSE Ranked(passing, s), s.topN)

CanRank(rows, s) == s.rankBy # "" => Rankable(ApplyFilters(rows, s.filters), s.rankBy)
=============================================================================
