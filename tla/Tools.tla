-------------------------------- MODULE Tools --------------------------------
(***************************************************************************)
(* The tools as a client sees them: one call after the other, answered     *)
(* from the cache or by Wind, while the days pass.  Handlers has what each *)
(* tool looks up and asks, Screening the work of dynamic_screen; how a     *)
(* call meets the session and the clock in seconds is in Serving.          *)
(***************************************************************************)
EXTENDS Screening

CONSTANTS
  Days,       \* the days of the model, as dates
  Screens,    \* inputs of dynamic_screen
  Found,      \* what Wind may find of an index or a sector: lists of codes
  Cells,      \* what Wind may send for a field
  NoReply, NoCall,
  MaxCalls    \* bound: calls

IsList(s) == s \in Seq(ToSet(s))

ASSUME DaysAssumption == Len(Days) \in Nat \ {0}
ASSUME FieldsAssumption ==
  /\ \A fields \in FieldLists \cup {s.fields : s \in Screens} : IsList(fields)
  /\ \A set \in DOMAIN FieldSets : IsList(FieldSets[set])
ASSUME ScreensAssumption ==
  \A s \in Screens : IsList(s.filters) /\ IsList(s.universe.codes) /\ s.topN \in Int
ASSUME WindAssumption ==
  /\ \A found \in Found : IsList(found)
  /\ \A cell \in Cells : cell[2] \in Int
  /\ \A s \in Screens, found \in Found :
       \A code \in ToSet(Universe(s.universe, found)) : CodeText[code][2] \in Int
ASSUME CallsAssumption == MaxCalls \in Nat

VARIABLES
  today,
  kept,       \* the cache: by key, the answer, its category and the day it was given
  asked,      \* the last call
  reply,      \* its answer, known by the query it answers
  screened,   \* the last dynamic screen: its input, the rows quoted, the result
  calls

vars == <<today, kept, asked, reply, screened, calls>>

Today == Days[today]

Init ==
  /\ today = 1
  /\ kept = [k \in {} |-> NoReply]
  /\ asked = NoCall
  /\ reply = NoReply
  /\ screened = NoReply
  /\ calls = 0

-----------------------------------------------------------------------------
Asked(p) ==
  /\ calls < MaxCalls
  /\ calls' = calls + 1
  /\ asked' = p
  /\ screened' = NoReply
  /\ UNCHANGED today

Hit(p) ==
  LET h == Handle(p, Today)
  IN  /\ Asked(p)
      /\ h.key \in DOMAIN kept
      /\ reply' = kept[h.key]
      /\ UNCHANGED kept

Miss(p) ==
  LET h == Handle(p, Today)
      answer == [query |-> h.query, category |-> h.category, day |-> today]
  IN  /\ Asked(p)
      /\ h.key \notin DOMAIN kept
      /\ h.query # NoQuery
      /\ reply' = answer
      /\ kept' = [k \in DOMAIN kept \cup {h.key} |-> IF k = h.key THEN answer ELSE kept[k]]

\* No session, no query for what is asked, or an error of Wind or of the parser; a
\* profile gets the session before it looks in the cache.
Fails(p) ==
  /\ Asked(p)
  /\ \/ Handle(p, Today).key \notin DOMAIN kept
     \/ p.tool = "company_profile"
  /\ reply' = NoReply
  /\ UNCHANGED kept

\* Bound: a screen neither reads nor changes the cache, so it is tried as the first
\* and last call only.
OnlyCall ==
  /\ calls = 0
  /\ today = 1
  /\ calls' = MaxCalls
  /\ UNCHANGED <<today, kept, asked, reply>>

\* An empty universe gives no rows.
Screen(s) ==
  /\ OnlyCall
  /\ \E found \in Found :
       LET codes == Universe(s.universe, found)
           fields == ExpandFields(s.fields)
       IN  \E cells \in [DOMAIN codes -> [{Lower[f] : f \in ToSet(fields)} -> Cells]] :
             LET rows == Rows(codes, cells)
             IN  /\ CanRank(rows, s)
                 /\ screened' = [input |-> s, fields |-> fields, rows |-> rows,
                                 result |-> Outcome(rows, s)]

\* No session, an error of Wind, or a ranking of numbers with texts.
ScreenFails(s) == OnlyCall /\ UNCHANGED screened

-----------------------------------------------------------------------------
\* Expiry or eviction.
Drop(k) ==
  /\ kept' = [j \in DOMAIN kept \ {k} |-> kept[j]]
  /\ UNCHANGED <<today, asked, reply, screened, calls>>

\* Mutant: what is kept never expires.
NewDayKeepsAll ==
  /\ today < Len(Days)
  /\ today' = today + 1
  /\ asked' = NoCall
  /\ reply' = NoReply
  /\ UNCHANGED <<kept, screened, calls>>

\* By default no answer is kept for more than 24 hours (CACHE_TTL; a configuration
\* may allow more), so at midnight those of the day before go.
NewDay ==
  /\ today < Len(Days)
  /\ today' = today + 1
  /\ kept' = [k \in {j \in DOMAIN kept : kept[j].day = today} |-> kept[k]]
  /\ asked' = NoCall
  /\ reply' = NoReply
  /\ UNCHANGED <<screened, calls>>

Next ==
  \/ \E p \in Inputs : Hit(p) \/ Miss(p) \/ Fails(p)
  \/ \E s \in Screens : Screen(s) \/ ScreenFails(s)
  \/ \E k \in DOMAIN kept : Drop(k)
  \/ NewDay

Spec == Init /\ [][Next]_vars

-----------------------------------------------------------------------------
TypeOK ==
  /\ today \in 1..Len(Days)
  /\ asked \in Inputs \cup {NoCall}
  /\ calls \in 0..MaxCalls
  /\ \A k \in DOMAIN kept : kept[k].day \in {today - 1, today}

\* The cache never answers one question with the answer to another: whatever key a
\* handler makes, a reply is to the query this call would send now, spelling of the
\* codes, defaults and all, and is kept as long as this call would keep it.  Queries
\* are compared as they are written: what an empty or relative date left in one
\* meant on an earlier day is EmptyEndIsToday's matter.
AnswersTheQuestion ==
  reply # NoReply => /\ reply.query = Handle(asked, Today).query
                     /\ reply.category = Handle(asked, Today).category

\* The fields sent are those of the items, each once.
OnceEach(fields, items) ==
  LET wanted == UNION {ToSet(FieldsOf(items[i])) : i \in DOMAIN items}
  IN  /\ \A f \in wanted : Cardinality({i \in DOMAIN fields : Lower[fields[i]] = Lower[f]}) = 1
      /\ \A i \in DOMAIN fields : fields[i] \in wanted

ExpandsFields(p) == p.tool \in {"snapshot", "historical", "minute_bars", "ticks", "realtime"}

\* Each field asked for, by name in any case or by a set, is asked of Wind once, and
\* nothing else is: a field sent twice would put two columns in one place of a row.
FieldsAskedOnce ==
  /\ (reply # NoReply /\ ExpandsFields(asked)) => OnceEach(reply.query[2][2], asked.fields)
  /\ screened # NoReply => OnceEach(screened.fields, screened.input.fields)

\* Row i of the rows quoted comes before row j: ranked higher, or equal and sooner in
\* Wind's order.
Precedes(i, j, rows, s) ==
  IF s.rankBy # "" /\ (Ahead(rows[i], rows[j], s) \/ Ahead(rows[j], rows[i], s))
  THEN Ahead(rows[i], rows[j], s)
  ELSE i < j

IsTop(result, rows, s) ==
  LET passing == {i \in DOMAIN rows : \A n \in DOMAIN s.filters : Passes(rows[i], s.filters[n])}
      all == Cardinality(passing)
      wanted == CASE s.topN = 0 -> all [] s.topN > 0 -> s.topN [] s.topN < 0 -> all + s.topN
  IN  \E from \in [DOMAIN result -> passing] :
        /\ \A k \in DOMAIN result : result[k] = rows[from[k]]
        /\ \A k, l \in DOMAIN result : k < l => Precedes(from[k], from[l], rows, s)
        /\ \A i \in passing \ Range(from), k \in DOMAIN result : Precedes(from[k], i, rows, s)
        /\ Len(result) = IF wanted < 0 THEN 0 ELSE IF wanted > all THEN all ELSE wanted

\* A dynamic screen returns rows that pass every filter, ranked, those that rank
\* equal in Wind's order, and cuts only rows that rank no higher than what it keeps,
\* as many as asked for.
ScreenIsTop ==
  screened # NoReply => IsTop(screened.result, screened.rows, screened.input)

\* HistoricalInput says of end_date "Empty string = today".
EmptyEndIsToday ==
  (reply # NoReply /\ asked.tool = "historical" /\ asked.end = NoDate) => reply.day = today
=============================================================================
