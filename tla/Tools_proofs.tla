---------------------------- MODULE Tools_proofs -----------------------------
(***************************************************************************)
(* Theorems of Handlers, Screening and Tools for every set of codes,       *)
(* fields, options, dates and screens, and for caches and days without     *)
(* bound: a key tells the query; each field is asked for once; a dynamic   *)
(* screen returns the top of the rows that pass.  The last two go by       *)
(* induction over the lists that the code goes through.                    *)
(***************************************************************************)
EXTENDS Tools, TLAPS, WellFoundedInduction, FiniteSetTheorems, SequenceTheorems

\* The query a key stands for, and the category of its answer.
QueryOf(k) ==
  CASE k[1] = "holders" -> HolderQuery(k[2][1], k[2][2], k[2][3])
    [] k[1] = "company_profile" -> <<"profile", <<k[2][2]>>>>
    [] k[1] \in {"estimates", "stock_connect_wss"} -> <<"wss", k[2]>>
    [] k[1] \in {"stock_connect_wset", "calendar_wset"} -> <<"wset", k[2]>>
    [] OTHER -> k

CategoryOf(k) ==
  CASE k[1] \in {"wss", "stock_connect_wss", "company_profile"} -> "snapshot"
    [] k[1] = "wsd" -> "historical"
    [] k[1] = "wsi" -> "minute_bars"
    [] k[1] = "wst" -> "ticks"
    [] k[1] = "wsq" -> "realtime"
    [] k[1] \in {"wset", "stock_connect_wset", "calendar_wset"} -> "dataset"
    [] k[1] = "edb" -> "macro"
    [] k[1] \in {"wses", "wsee"} -> "sector"
    [] k[1] = "weqs" -> "screening"
    [] k[1] = "estimates" -> "estimates"
    [] k[1] = "holders" -> "holders"
    [] k[1] \in {"tdays", "tdaysoffset", "tdayscount"} -> "dates"
    [] OTHER -> "portfolio"

\* h holds what its key stands for.
Answered(h, k) == h.query = QueryOf(k) /\ h.category = CategoryOf(k)

-----------------------------------------------------------------------------
\* The tools there are.
LEMMA InputTools ==
  ASSUME NEW p \in Inputs
    PROVE  p.tool \in {"snapshot", "historical", "minute_bars", "ticks", "realtime",
                      "dataset", "macro", "sector_series", "sector_snapshot", "screen",
                      "portfolio_report", "portfolio_snapshot", "portfolio_series",
                      "trading_days", "date_offset", "days_count", "estimates",
                      "holders", "northbound", "stock_connect", "calendar",
                      "company_profile"}
BY DEF Inputs, SnapshotInput, HistoricalInput, MinuteBarsInput, TicksInput,
  RealtimeInput, DatasetInput, MacroInput, SectorSeriesInput, SectorSnapshotInput,
  ScreenInput, EstimatesInput, HoldersInput, StockConnectInput, EventCalendarInput,
  TradingDaysInput, DateOffsetInput, DaysCountInput, CompanyProfileInput,
  PortfolioReportInput, PortfolioSnapshotInput, PortfolioSeriesInput

\* Whatever a caller passes and on whatever day, the key a handler looks up fixes
\* the query it would send and the category it would keep the answer under: two
\* calls that share a key ask the same.
THEOREM KeyDeterminesQuery ==
  ASSUME NEW p \in Inputs, NEW day
  PROVE  Answered(Handle(p, day), Handle(p, day).key)
<1>1. CASE p.tool = "snapshot"
  BY <1>1 DEF Handle, HandleSnapshot, Direct, Lookup, Answered, QueryOf, CategoryOf
<1>2. CASE p.tool = "historical"
  BY <1>2 DEF Handle, HandleHistorical, Direct, Lookup, Answered, QueryOf, CategoryOf
<1>3. CASE p.tool = "minute_bars"
  BY <1>3 DEF Handle, HandleMinuteBars, Direct, Lookup, Answered, QueryOf, CategoryOf
<1>4. CASE p.tool = "ticks"
  BY <1>4 DEF Handle, HandleTicks, Direct, Lookup, Answered, QueryOf, CategoryOf
<1>5. CASE p.tool = "realtime"
  BY <1>5 DEF Handle, HandleRealtime, Direct, Lookup, Answered, QueryOf, CategoryOf
<1>6. CASE p.tool = "dataset"
  BY <1>6 DEF Handle, HandleDataset, Direct, Lookup, Answered, QueryOf, CategoryOf
<1>7. CASE p.tool = "macro"
  BY <1>7 DEF Handle, HandleMacro, Direct, Lookup, Answered, QueryOf, CategoryOf
<1>8. CASE p.tool = "sector_series"
  BY <1>8 DEF Handle, HandleSectorSeries, Direct, Lookup, Answered, QueryOf, CategoryOf
<1>9. CASE p.tool = "sector_snapshot"
  BY <1>9 DEF Handle, HandleSectorSnapshot, Direct, Lookup, Answered, QueryOf, CategoryOf
<1>10. CASE p.tool = "screen"
  BY <1>10 DEF Handle, HandleScreen, Direct, Lookup, Answered, QueryOf, CategoryOf
<1>11. CASE p.tool = "portfolio_report"
    BY <1>11 DEF Handle, HandlePortfolioReport, Direct, Lookup, Answered, QueryOf,
    CategoryOf
<1>12. CASE p.tool = "portfolio_snapshot"
    BY <1>12 DEF Handle, HandlePortfolioSnapshot, Direct, Lookup, Answered, QueryOf,
    CategoryOf
<1>13. CASE p.tool = "portfolio_series"
    BY <1>13 DEF Handle, HandlePortfolioSeries, Direct, Lookup, Answered, QueryOf,
    CategoryOf
<1>14. CASE p.tool = "trading_days"
  BY <1>14 DEF Handle, HandleTradingDays, Direct, Lookup, Answered, QueryOf, CategoryOf
<1>15. CASE p.tool = "date_offset"
  BY <1>15 DEF Handle, HandleDateOffset, Direct, Lookup, Answered, QueryOf, CategoryOf
<1>16. CASE p.tool = "days_count"
  BY <1>16 DEF Handle, HandleDaysCount, Direct, Lookup, Answered, QueryOf, CategoryOf
<1>17. CASE p.tool = "estimates"
  BY <1>17 DEF Handle, HandleEstimates, Lookup, Answered, QueryOf, CategoryOf
<1>18. CASE p.tool = "holders"
  BY <1>18 DEF Handle, HandleHolders, Answered, QueryOf, CategoryOf
<1>19. CASE p.tool = "northbound"
  BY <1>19 DEF Handle, HandleNorthbound, Lookup, Answered, QueryOf, CategoryOf
<1>20. CASE p.tool = "stock_connect"
  BY <1>20 DEF Handle, HandleStockConnect, Lookup, Answered, QueryOf, CategoryOf
<1>21. CASE p.tool = "calendar"
  BY <1>21 DEF Handle, HandleCalendar, Lookup, Answered, QueryOf, CategoryOf
<1>22. CASE p.tool = "company_profile"
  BY <1>22 DEF Handle, HandleCompanyProfile, Lookup, Answered, QueryOf, CategoryOf
<1> QED
  BY InputTools, <1>1, <1>2, <1>3, <1>4, <1>5, <1>6, <1>7, <1>8, <1>9, <1>10, <1>11,
    <1>12, <1>13, <1>14, <1>15, <1>16, <1>17, <1>18, <1>19, <1>20, <1>21, <1>22

-----------------------------------------------------------------------------
\* What the cache holds under a key answers what the key stands for.
KeptAnswers == \A k \in DOMAIN kept : Answered(kept[k], k)

IInv == TypeOK /\ KeptAnswers /\ AnswersTheQuestion

\* The first state.
LEMMA InitHolds == Init => IInv
BY DaysAssumption, CallsAssumption DEF Init, IInv, TypeOK, KeptAnswers, AnswersTheQuestion

\* A call: a hit returns what its key stands for, and a miss keeps it.
LEMMA CallPreserves ==
  ASSUME IInv, NEW p \in Inputs, Hit(p) \/ Miss(p) \/ Fails(p)
  PROVE  IInv'
<1> DEFINE h == Handle(p, Today)
<1> USE CallsAssumption
<1>1. /\ asked' = p /\ today' = today /\ Today' = Today
      /\ calls' = calls + 1 /\ calls < MaxCalls
  BY DEF Hit, Miss, Fails, Asked, Today
<1>2. Answered(h, h.key)
  BY KeyDeterminesQuery
<1>3. CASE Hit(p)
  <2>1. h.key \in DOMAIN kept /\ reply' = kept[h.key] /\ kept' = kept
    BY <1>3 DEF Hit
  <2>2. Answered(kept[h.key], h.key)
    BY <2>1 DEF IInv, KeptAnswers
  <2>3. AnswersTheQuestion'
    BY <1>1, <1>2, <2>1, <2>2 DEF Answered, AnswersTheQuestion
  <2>4. TypeOK' /\ KeptAnswers'
    BY <1>1, <2>1 DEF IInv, TypeOK, KeptAnswers
  <2> QED BY <2>3, <2>4 DEF IInv
<1>4. CASE Miss(p)
  <2> DEFINE answer == [query |-> h.query, category |-> h.category, day |-> today]
  <2>1. /\ reply' = answer
        /\ kept' = [k \in DOMAIN kept \cup {h.key} |->
                      IF k = h.key THEN answer ELSE kept[k]]
    BY <1>4 DEF Miss
  <2>2. AnswersTheQuestion'
    BY <1>1, <2>1 DEF AnswersTheQuestion
  <2>3. KeptAnswers'
    BY <1>2, <2>1 DEF IInv, KeptAnswers, Answered
  <2>4. TypeOK'
    BY <1>1, <2>1 DEF IInv, TypeOK
  <2> QED BY <2>2, <2>3, <2>4 DEF IInv
<1>5. CASE Fails(p)
  <2>1. reply' = NoReply /\ kept' = kept
    BY <1>5 DEF Fails
  <2> QED BY <1>1, <2>1 DEF IInv, TypeOK, KeptAnswers, AnswersTheQuestion
<1> QED BY <1>3, <1>4, <1>5

\* Every step.
LEMMA NextPreserves == IInv /\ [Next]_vars => IInv'
<1> SUFFICES ASSUME IInv, [Next]_vars PROVE IInv'
  OBVIOUS
<1> USE DaysAssumption, CallsAssumption
<1>1. ASSUME NEW p \in Inputs, Hit(p) \/ Miss(p) \/ Fails(p)
      PROVE  IInv'
  BY <1>1, CallPreserves
<1>2. ASSUME NEW s \in Screens, Screen(s) \/ ScreenFails(s)
      PROVE  IInv'
  <2>1. /\ calls' = MaxCalls
        /\ UNCHANGED <<today, kept, asked, reply>>
    BY <1>2 DEF Screen, ScreenFails, OnlyCall
  <2> QED BY <2>1 DEF IInv, TypeOK, KeptAnswers, AnswersTheQuestion, Today
<1>3. ASSUME NEW k \in DOMAIN kept, Drop(k)
      PROVE  IInv'
  <2>1. /\ kept' = [j \in DOMAIN kept \ {k} |-> kept[j]]
        /\ UNCHANGED <<today, asked, reply, calls>>
    BY <1>3 DEF Drop
  <2> QED BY <2>1 DEF IInv, TypeOK, KeptAnswers, AnswersTheQuestion, Today
<1>4. CASE NewDay
  <2>1. /\ today < Len(Days) /\ today' = today + 1
        /\ kept' = [k \in {j \in DOMAIN kept : kept[j].day = today} |-> kept[k]]
        /\ asked' = NoCall /\ reply' = NoReply /\ calls' = calls
    BY <1>4 DEF NewDay
  <2>2. AnswersTheQuestion'
    BY <2>1 DEF AnswersTheQuestion
  <2>3. KeptAnswers'
    BY <2>1 DEF IInv, KeptAnswers
  <2>4. TypeOK'
    BY <2>1 DEF IInv, TypeOK
  <2> QED BY <2>2, <2>3, <2>4 DEF IInv
<1>5. CASE UNCHANGED vars
  BY <1>5 DEF IInv, TypeOK, KeptAnswers, AnswersTheQuestion, Today, vars
<1> QED BY <1>1, <1>2, <1>3, <1>4, <1>5 DEF Next

\* No answer outlives the day after it was given, and the model stays within its
\* types.
THEOREM TypeCorrect == Spec => []TypeOK
<1>1. IInv => TypeOK
  BY DEF IInv
<1> QED BY InitHolds, NextPreserves, <1>1, PTL DEF Spec

\* For every input and any number of days and calls: a reply, from the cache or
\* not, is to the query that the call itself would send.
THEOREM RepliesAnswer == Spec => []AnswersTheQuestion
<1>1. IInv => AnswersTheQuestion
  BY DEF IInv
<1> QED BY InitHolds, NextPreserves, <1>1, PTL DEF Spec

-----------------------------------------------------------------------------
\* Induction, over a set of numbers.
LEMMA Induction ==
  ASSUME NEW G, 0 \in G, \A k \in Nat : k \in G => k + 1 \in G
  PROVE  Nat \subseteq G
  <1> DEFINE Smaller == {ss \in Nat \X Nat : ss[1] < ss[2]}
             Rest == Nat \ G
  <1>1. IsWellFoundedOn(Smaller, Nat)
    BY NatLessThanWellFounded DEF OpToRel
  <1>2. SUFFICES ASSUME Rest # {} PROVE FALSE
    BY DEF Rest
  <1>3. PICK n \in Rest : \A m \in Rest : <<m, n>> \notin Smaller
    <2> HIDE DEF Smaller
    <2> QED BY <1>1, <1>2, WFMin
  <1>4. n # 0 /\ n - 1 \in Nat /\ n - 1 \notin G
    <2>1. n \in Nat /\ n # 0
      OBVIOUS
    <2>2. n - 1 \in Nat /\ (n - 1) + 1 = n
      BY <2>1
    <2> QED
      BY <2>1, <2>2
  <1>5. <<n - 1, n>> \in Smaller
    BY <1>4
  <1> QED
    BY <1>3, <1>4, <1>5


\* Going on from one value to the next.
Iterates(f, n, V, base, step) ==
  f \in [0..n -> V] /\ f[0] = base /\ \A i \in 1..n : f[i] = step[i][f[i - 1]]

\* A recursive function of 0..n exists.
LEMMA Iteration ==
  ASSUME NEW n \in Nat, NEW V, NEW base \in V, NEW step \in [1..n -> [V -> V]]
  PROVE  \E f : Iterates(f, n, V, base, step)
  <1> DEFINE Good(k, f) == Iterates(f, k, V, base, step)
             G == {k \in Nat : k <= n => \E f : Good(k, f)}
  <1>1. 0 \in G
    <2>1. Good(0, [i \in 0..0 |-> base])
      BY DEF Iterates
    <2> QED BY <2>1
  <1>2. ASSUME NEW k \in G, k + 1 <= n PROVE \E f : Good(k + 1, f)
    <2>1. PICK f : Good(k, f)
      BY <1>2
    <2> DEFINE g == [i \in 0..(k + 1) |-> IF i = k + 1 THEN step[k + 1][f[k]] ELSE f[i]]
    <2>2. Good(k + 1, g)
      BY <1>2, <2>1 DEF Iterates
    <2> QED BY <2>2
  <1>3. Nat \subseteq G
    <2>1. \A k \in Nat : k \in G => k + 1 \in G
      BY <1>2
    <2> HIDE DEF G
    <2> QED BY <1>1, <2>1, Induction
  <1> QED BY <1>3

-----------------------------------------------------------------------------
\* Flat: the fields of the items, and only they.
LEMMA FlatFields ==
  ASSUME NEW items, IsList(items), NEW W,
         W = UNION {ToSet(FieldsOf(items[i])) : i \in DOMAIN items}
  PROVE  Flat(items) \in Seq(W) /\ \A f \in W : f \in ToSet(Flat(items))
  <1>0. /\ Len(items) \in Nat /\ DOMAIN items = 1..Len(items)
    BY DEF IsList
  <1>01. \A i \in DOMAIN items : FieldsOf(items[i]) \in Seq(W)
    <2> SUFFICES ASSUME NEW i \in DOMAIN items PROVE FieldsOf(items[i]) \in Seq(W)
      OBVIOUS
    <2>1. FieldsOf(items[i]) \in Seq(ToSet(FieldsOf(items[i])))
      <3>1. CASE Lower[items[i]] \in DOMAIN FieldSets
        BY <3>1, FieldsAssumption DEF IsList, FieldsOf
      <3>2. CASE Lower[items[i]] \notin DOMAIN FieldSets
        BY <3>2 DEF FieldsOf, ToSet
      <3> QED BY <3>1, <3>2
    <2>2. ToSet(FieldsOf(items[i])) \subseteq W
      OBVIOUS
    <2> QED BY <2>1, <2>2
  <1> DEFINE n == Len(items)
             V == Seq(W)
             next(i, c) == c \o FieldsOf(items[i])
             step == [i \in 1..n |-> [c \in V |-> next(i, c)]]
             flat[i \in 0..n] == IF i = 0 THEN <<>> ELSE flat[i - 1] \o FieldsOf(items[i])
  <1>1. n \in Nat
    BY <1>0
  <1>2. step \in [1..n -> [V -> V]]
    <2>1. ASSUME NEW i \in 1..n, NEW c \in V PROVE next(i, c) \in V
      <3>1. c \in Seq(W) /\ FieldsOf(items[i]) \in Seq(W)
        BY <1>0, <1>01
      <3>2. c \o FieldsOf(items[i]) \in Seq(W)
        BY <3>1
      <3> QED
        BY <3>2
    <2> QED
      BY <2>1
  <1>3. PICK f : Iterates(f, n, V, <<>>, step)
    <2> HIDE DEF step, n
    <2>1. <<>> \in V
      OBVIOUS
    <2> HIDE DEF V
    <2> QED
      BY <1>1, <1>2, <2>1, Iteration
  <1>4. f = [i \in 0..n |-> IF i = 0 THEN <<>> ELSE next(i, f[i - 1])]
    <2>1. ASSUME NEW i \in 1..n PROVE f[i] = next(i, f[i - 1])
      <3>1. i - 1 \in 0..n
        BY <1>1
      <3>2. f[i - 1] \in V
        BY <1>3, <3>1 DEF Iterates
      <3> HIDE DEF next, V
      <3> QED
        BY <1>3, <3>2 DEF Iterates
    <2>2. 0..n = {0} \cup 1..n
      BY <1>1
    <2> HIDE DEF next, V, n
    <2> QED
      BY <1>3, <2>1, <2>2 DEF Iterates
  <1>5. flat = [i \in 0..n |-> IF i = 0 THEN <<>> ELSE next(i, flat[i - 1])]
    <2> HIDE DEF n
    <2> QED
      BY <1>4
  <1>6. Flat(items) = flat[n]
    BY DEF Flat
  <1> HIDE DEF flat, n
  <1> DEFINE Done == {i \in Nat : i <= n =>
                        /\ flat[i] \in V
                        /\ \A j \in 1..i :
                             \A g \in ToSet(FieldsOf(items[j])) : g \in ToSet(flat[i])}
  <1>7. 0 \in Done
    <2>1. flat[0] = <<>>
      BY <1>1, <1>5
    <2>2. flat[0] \in V /\ 1..0 = {}
      BY <2>1
    <2> HIDE DEF V
    <2> QED
      BY <2>2
  <1>8. ASSUME NEW i \in Nat, i \in Done PROVE i + 1 \in Done
    <2> SUFFICES ASSUME i + 1 <= n
                 PROVE  /\ flat[i + 1] \in V
                        /\ \A j \in 1..(i + 1) :
                             \A g \in ToSet(FieldsOf(items[j])) : g \in ToSet(flat[i + 1])
      OBVIOUS
    <2>1. i <= n /\ i + 1 \in 1..n /\ (i + 1) - 1 = i
      BY <1>1
    <2>2. flat[i + 1] = next(i + 1, flat[i])
      <3> HIDE DEF next
      <3> QED
        BY <1>5, <2>1
    <2>3. flat[i] \in V /\ FieldsOf(items[i + 1]) \in V
      BY <1>0, <1>01, <1>8, <2>1 DEF n
    <2>4. flat[i + 1] \in V
      BY <2>2, <2>3
    <2>5. \A g : g \in ToSet(flat[i]) \/ g \in ToSet(FieldsOf(items[i + 1]))
                   => g \in ToSet(flat[i + 1])
      <3> DEFINE s == flat[i]
                 t == FieldsOf(items[i + 1])
      <3>1. \A s1 \in Seq(W), t1 \in Seq(W) : ToSet(s1) \cup ToSet(t1) \subseteq ToSet(s1 \o t1)
        <4> SUFFICES ASSUME NEW s1 \in Seq(W), NEW t1 \in Seq(W)
                     PROVE  ToSet(s1) \cup ToSet(t1) \subseteq ToSet(s1 \o t1)
          OBVIOUS
        <4>1. \A k \in DOMAIN s1 : k \in DOMAIN (s1 \o t1) /\ (s1 \o t1)[k] = s1[k]
          OBVIOUS
        <4>2. \A k \in DOMAIN t1 : /\ Len(s1) + k \in DOMAIN (s1 \o t1)
                                   /\ (s1 \o t1)[Len(s1) + k] = t1[k]
          OBVIOUS
        <4> QED
          BY <4>1, <4>2 DEF ToSet
      <3> QED
        BY <2>2, <2>3, <3>1
    <2>6. \A j \in 1..(i + 1) : j \in 1..i \/ j = i + 1
      OBVIOUS
    <2> HIDE DEF V
    <2> QED
      BY <1>8, <2>1, <2>4, <2>5, <2>6
  <1>9. n \in Done
    <2> HIDE DEF Done
    <2> QED
      BY <1>1, <1>7, <1>8, Induction
  <1>10. \A f1 \in W : \E j \in 1..n : f1 \in ToSet(FieldsOf(items[j]))
    BY <1>0 DEF n
  <1> QED
    BY <1>1, <1>6, <1>9, <1>10

\* AddNew: what a list of fields is once it is free of names met before.
Fresh(seen, fields, i) ==
  /\ seen \in Seq(ToSet(fields))
  /\ \A k, l \in DOMAIN seen : Lower[seen[k]] = Lower[seen[l]] => k = l
  /\ \A j \in 1..i : \E k \in DOMAIN seen : Lower[seen[k]] = Lower[fields[j]]

\* AddNew keeps a list free of names met before.
LEMMA OneMore ==
  ASSUME NEW fields, IsList(fields), NEW i \in Nat, i + 1 \in DOMAIN fields,
         NEW seen, Fresh(seen, fields, i)
  PROVE  Fresh(AddNew(seen, fields[i + 1]), fields, i + 1)
  <1> DEFINE f == fields[i + 1]
             more == Append(seen, f)
  <1>1. /\ seen \in Seq(ToSet(fields)) /\ f \in ToSet(fields)
        /\ Len(seen) \in Nat /\ DOMAIN seen = 1..Len(seen)
    BY DEF Fresh, IsList, ToSet
  <1>2. \A j \in 1..(i + 1) : j \in 1..i \/ j = i + 1
    OBVIOUS
  <1>3. CASE \E k \in DOMAIN seen : Lower[seen[k]] = Lower[f]
    <2>1. AddNew(seen, f) = seen
      BY <1>3 DEF AddNew
    <2> QED
      BY <1>2, <1>3, <2>1 DEF Fresh
  <1>4. CASE ~ \E k \in DOMAIN seen : Lower[seen[k]] = Lower[f]
    <2>1. AddNew(seen, f) = more
      BY <1>4 DEF AddNew
    <2>2. /\ more \in Seq(ToSet(fields))
          /\ DOMAIN more = 1..(Len(seen) + 1)
          /\ more[Len(seen) + 1] = f
          /\ \A k \in DOMAIN seen : more[k] = seen[k]
      BY <1>1
    <2>3. \A k \in DOMAIN more : k \in DOMAIN seen \/ k = Len(seen) + 1
      BY <1>1, <2>2
    <2>4. \A k \in DOMAIN seen : k \in DOMAIN more
      BY <1>1, <2>2
    <2>5. Len(seen) + 1 \in DOMAIN more
      BY <1>1, <2>2
    <2> HIDE DEF more, f
    <2>6. \A k, l \in DOMAIN more : Lower[more[k]] = Lower[more[l]] => k = l
      BY <1>4, <2>2, <2>3 DEF Fresh
    <2>7. \A j \in 1..(i + 1) : \E k \in DOMAIN more : Lower[more[k]] = Lower[fields[j]]
      BY <1>2, <2>2, <2>4, <2>5 DEF Fresh, f
    <2> QED
      BY <2>1, <2>2, <2>6, <2>7 DEF Fresh, f
  <1> QED
    BY <1>3, <1>4

\* expand_fields, after the sets: one field of each name, whatever its case.
LEMMA FieldsSeen ==
  ASSUME NEW items, NEW fields, fields = Flat(items), IsList(fields)
  PROVE  Fresh(ExpandFields(items), fields, Len(fields))
  <1> DEFINE n == Len(fields)
             V == Seq(ToSet(fields))
             next(i, c) == AddNew(c, fields[i])
             step == [i \in 1..n |-> [c \in V |-> next(i, c)]]
             seen[i \in 0..n] == IF i = 0 THEN <<>> ELSE AddNew(seen[i - 1], fields[i])
  <1>1. n \in Nat /\ DOMAIN fields = 1..n
    BY DEF IsList
  <1>2. step \in [1..n -> [V -> V]]
    <2>1. ASSUME NEW i \in 1..n, NEW c \in V PROVE next(i, c) \in V
      <3>1. c \in V /\ Append(c, fields[i]) \in V
        BY <1>1 DEF ToSet
      <3> QED
        BY <3>1 DEF AddNew
    <2> QED
      BY <2>1
  <1>3. PICK f : Iterates(f, n, V, <<>>, step)
    <2> HIDE DEF step, n
    <2>1. <<>> \in V
      OBVIOUS
    <2> HIDE DEF V
    <2> QED
      BY <1>1, <1>2, <2>1, Iteration
  <1>4. f = [i \in 0..n |-> IF i = 0 THEN <<>> ELSE next(i, f[i - 1])]
    <2>1. ASSUME NEW i \in 1..n PROVE f[i] = next(i, f[i - 1])
      <3>1. i - 1 \in 0..n
        BY <1>1
      <3>2. f[i - 1] \in V
        BY <1>3, <3>1 DEF Iterates
      <3> HIDE DEF next, V
      <3> QED
        BY <1>3, <3>2 DEF Iterates
    <2>2. 0..n = {0} \cup 1..n
      BY <1>1
    <2> HIDE DEF next, V, n
    <2> QED
      BY <1>3, <2>1, <2>2 DEF Iterates
  <1>5. seen = [i \in 0..n |-> IF i = 0 THEN <<>> ELSE next(i, seen[i - 1])]
    <2> HIDE DEF n
    <2> QED
      BY <1>4
  <1>6. ExpandFields(items) = seen[n]
    BY DEF ExpandFields
  <1> HIDE DEF seen, n
  <1> DEFINE Done == {i \in Nat : i <= n => Fresh(seen[i], fields, i)}
  <1>7. 0 \in Done
    <2>1. seen[0] = <<>>
      BY <1>1, <1>5
    <2>2. 1..0 = {} /\ DOMAIN <<>> = {} /\ <<>> \in Seq(ToSet(fields))
      OBVIOUS
    <2>3. Fresh(<<>>, fields, 0)
      BY <2>2 DEF Fresh
    <2> QED
      BY <2>1, <2>3
  <1>8. ASSUME NEW i \in Nat, i \in Done PROVE i + 1 \in Done
    <2> SUFFICES ASSUME i + 1 <= n PROVE Fresh(seen[i + 1], fields, i + 1)
      OBVIOUS
    <2>1. i <= n /\ i + 1 \in 1..n /\ (i + 1) - 1 = i
      BY <1>1
    <2>2. seen[i + 1] = next(i + 1, seen[i])
      <3> HIDE DEF next
      <3> QED
        BY <1>5, <2>1
    <2>3. Fresh(seen[i], fields, i)
      BY <1>8, <2>1
    <2> QED
      BY <1>1, <2>1, <2>2, <2>3, OneMore
  <1>9. n \in Done
    <2> HIDE DEF Done
    <2> QED
      BY <1>1, <1>7, <1>8, Induction
  <1> QED
    BY <1>1, <1>6, <1>9 DEF n

\* expand_fields: each field asked for once, for any list of fields and sets.
LEMMA ExpandedOnce ==
  ASSUME NEW items, IsList(items)
  PROVE  OnceEach(ExpandFields(items), items)
  <1> DEFINE wanted == UNION {ToSet(FieldsOf(items[i])) : i \in DOMAIN items}
             fields == Flat(items)
             sent == ExpandFields(items)
  <1>1. fields \in Seq(wanted) /\ \A f \in wanted : f \in ToSet(fields)
    <2> HIDE DEF wanted
    <2>1. wanted = UNION {ToSet(FieldsOf(items[i])) : i \in DOMAIN items}
      BY DEF wanted
    <2> QED
      BY <2>1, FlatFields
  <1> HIDE DEF wanted
  <1>2. ToSet(fields) \subseteq wanted /\ IsList(fields)
    <2>1. \A s \in Seq(wanted) : ToSet(s) \subseteq wanted /\ s \in Seq(ToSet(s))
      BY DEF ToSet
    <2> QED
      BY <1>1, <2>1 DEF IsList
  <1>3. Fresh(sent, fields, Len(fields))
    BY <1>2, FieldsSeen
  <1> HIDE DEF sent, fields
  <1>4. DOMAIN fields = 1..Len(fields) /\ DOMAIN sent = 1..Len(sent) /\ Len(sent) \in Nat
    BY <1>2, <1>3 DEF Fresh, IsList
  <1>5. ASSUME NEW f \in wanted
        PROVE  Cardinality({i \in DOMAIN sent : Lower[sent[i]] = Lower[f]}) = 1
    <2>1. PICK j \in DOMAIN fields : fields[j] = f
      BY <1>1 DEF ToSet
    <2>2. PICK k \in DOMAIN sent : Lower[sent[k]] = Lower[f]
      BY <1>3, <1>4, <2>1 DEF Fresh
    <2>3. {i \in DOMAIN sent : Lower[sent[i]] = Lower[f]} = {k}
      BY <1>3, <2>2 DEF Fresh
    <2> QED
      BY <2>3, FS_Singleton
  <1>6. \A i \in DOMAIN sent : sent[i] \in wanted
    BY <1>2, <1>3, <1>4 DEF Fresh
  <1> QED
    BY <1>5, <1>6 DEF OnceEach, sent, wanted

-----------------------------------------------------------------------------
\* The rows kept are those at the places in P, in order: at tells the place of each.
Picks(left, rows, P, at) ==
  /\ left \in Seq(ToSet(rows))
  /\ at \in [DOMAIN left -> P]
  /\ \A k, l \in DOMAIN left : k < l => at[k] < at[l]
  /\ \A p \in P : \E k \in DOMAIN left : at[k] = p
  /\ \A k \in DOMAIN left : left[k] = rows[at[k]]

Picked(left, rows, P) == \E at : Picks(left, rows, P, at)

PassingOf(rows, f) == {i \in DOMAIN rows : Passes(rows[i], f)}

\* One more row of the list, kept.
LEMMA PickOne ==
  ASSUME NEW rows, IsList(rows), NEW p \in DOMAIN rows,
         NEW P \in SUBSET 1..(p - 1), NEW left, Picked(left, rows, P)
  PROVE  Picked(Append(left, rows[p]), rows, P \cup {p})
  <1>1. PICK at : Picks(left, rows, P, at)
    BY DEF Picked
  <1> DEFINE n == Len(left)
             more == Append(left, rows[p])
             also == [k \in 1..(n + 1) |-> IF k = n + 1 THEN p ELSE at[k]]
  <1>2. /\ n \in Nat /\ DOMAIN left = 1..n /\ rows[p] \in ToSet(rows)
        /\ p \in Nat
    BY <1>1 DEF Picks, ToSet, IsList
  <1>3. /\ more \in Seq(ToSet(rows)) /\ DOMAIN more = 1..(n + 1)
        /\ more[n + 1] = rows[p]
        /\ \A k \in 1..n : more[k] = left[k]
    BY <1>1, <1>2 DEF Picks
  <1> HIDE DEF n, more
  <1>4. \A k \in 1..(n + 1) : k \in 1..n \/ k = n + 1
    BY <1>2
  <1>5. \A k \in 1..n : k \in 1..(n + 1) /\ also[k] = at[k] /\ at[k] \in P
    BY <1>1, <1>2 DEF Picks
  <1>6. n + 1 \in 1..(n + 1) /\ also[n + 1] = p /\ DOMAIN also = 1..(n + 1)
    BY <1>2
  <1> HIDE DEF also
  <1>7. also \in [1..(n + 1) -> P \cup {p}]
    <2>1. also = [k \in 1..(n + 1) |-> IF k = n + 1 THEN p ELSE at[k]]
      BY DEF also
    <2>2. \A k \in 1..(n + 1) : (IF k = n + 1 THEN p ELSE at[k]) \in P \cup {p}
      BY <1>4, <1>5
    <2> QED
      BY <2>1, <2>2
  <1>8. \A k, l \in 1..(n + 1) : k < l => also[k] < also[l]
    <2> SUFFICES ASSUME NEW k \in 1..(n + 1), NEW l \in 1..(n + 1), k < l
                 PROVE  also[k] < also[l]
      OBVIOUS
    <2>1. k \in 1..n
      BY <1>2
    <2>2. CASE l \in 1..n
      BY <1>1, <1>2, <1>5, <2>1, <2>2 DEF Picks
    <2>3. CASE l = n + 1
      <3>1. at[k] \in 1..(p - 1)
        BY <1>5, <2>1
      <3> QED
        BY <1>2, <1>5, <1>6, <2>1, <2>3, <3>1
    <2> QED
      BY <1>4, <2>2, <2>3
  <1>9. \A q \in P \cup {p} : \E k \in 1..(n + 1) : also[k] = q
    BY <1>1, <1>2, <1>5, <1>6 DEF Picks
  <1>10. \A k \in 1..(n + 1) : more[k] = rows[also[k]]
    BY <1>1, <1>2, <1>3, <1>4, <1>5, <1>6 DEF Picks
  <1>11. Picks(more, rows, P \cup {p}, also)
    BY <1>3, <1>7, <1>8, <1>9, <1>10 DEF Picks
  <1> QED
    BY <1>11 DEF Picked, more

\* A filter keeps the rows that pass it, in order.
LEMMA FilteredPicks ==
  ASSUME NEW rows, IsList(rows), NEW f
  PROVE  Picked(Filtered(rows, f), rows, PassingOf(rows, f))
  <1> DEFINE n == Len(rows)
             V == Seq(ToSet(rows))
             next(i, c) == IF Passes(rows[i], f) THEN Append(c, rows[i]) ELSE c
             step == [i \in 1..n |-> [c \in V |-> next(i, c)]]
             left[i \in 0..n] ==
               IF i = 0 THEN <<>>
               ELSE IF Passes(rows[i], f) THEN Append(left[i - 1], rows[i]) ELSE left[i - 1]
  <1>1. n \in Nat /\ DOMAIN rows = 1..n
    BY DEF IsList
  <1>2. step \in [1..n -> [V -> V]]
    <2>1. ASSUME NEW i \in 1..n, NEW c \in V PROVE next(i, c) \in V
      <3>1. Append(c, rows[i]) \in V
        BY <1>1 DEF ToSet
      <3> QED
        BY <3>1
    <2> QED
      BY <2>1
  <1>3. PICK g : Iterates(g, n, V, <<>>, step)
    <2> HIDE DEF step, n
    <2>1. <<>> \in V
      OBVIOUS
    <2> HIDE DEF V
    <2> QED
      BY <1>1, <1>2, <2>1, Iteration
  <1>4. g = [i \in 0..n |-> IF i = 0 THEN <<>> ELSE next(i, g[i - 1])]
    <2>1. ASSUME NEW i \in 1..n PROVE g[i] = next(i, g[i - 1])
      <3>1. i - 1 \in 0..n
        BY <1>1
      <3>2. g[i - 1] \in V
        BY <1>3, <3>1 DEF Iterates
      <3> HIDE DEF next, V
      <3> QED
        BY <1>3, <3>2 DEF Iterates
    <2>2. 0..n = {0} \cup 1..n
      BY <1>1
    <2> HIDE DEF next, V, n
    <2> QED
      BY <1>3, <2>1, <2>2 DEF Iterates
  <1>5. left = [i \in 0..n |-> IF i = 0 THEN <<>> ELSE next(i, left[i - 1])]
    <2> HIDE DEF n
    <2> QED
      BY <1>4
  <1>6. Filtered(rows, f) = left[n]
    BY DEF Filtered
  <1> HIDE DEF left, n
  <1> DEFINE upTo(i) == {j \in 1..i : Passes(rows[j], f)}
             Done == {i \in Nat : i <= n => Picked(left[i], rows, upTo(i))}
  <1>7. 0 \in Done
    <2>1. left[0] = <<>>
      BY <1>1, <1>5
    <2>2. upTo(0) = {} /\ DOMAIN <<>> = {} /\ <<>> \in Seq(ToSet(rows))
      OBVIOUS
    <2>3. Picks(<<>>, rows, upTo(0), [k \in {} |-> 0])
      BY <2>2 DEF Picks
    <2> HIDE DEF upTo
    <2> QED
      BY <2>1, <2>3 DEF Picked
  <1>8. ASSUME NEW i \in Nat, i \in Done PROVE i + 1 \in Done
    <2> SUFFICES ASSUME i + 1 <= n PROVE Picked(left[i + 1], rows, upTo(i + 1))
      OBVIOUS
    <2>1. i <= n /\ i + 1 \in 1..n /\ (i + 1) - 1 = i
      BY <1>1
    <2>2. left[i + 1] = next(i + 1, left[i])
      <3> HIDE DEF next
      <3> QED
        BY <1>5, <2>1
    <2>3. Picked(left[i], rows, upTo(i))
      BY <1>8, <2>1
    <2>4. CASE Passes(rows[i + 1], f)
      <3>1. upTo(i + 1) = upTo(i) \cup {i + 1} /\ upTo(i) \in SUBSET 1..((i + 1) - 1)
        BY <2>4
      <3> HIDE DEF upTo
      <3>2. Picked(Append(left[i], rows[i + 1]), rows, upTo(i) \cup {i + 1})
        BY <1>1, <2>1, <2>3, <3>1, PickOne
      <3> QED
        BY <2>2, <2>4, <3>1, <3>2
    <2>5. CASE ~Passes(rows[i + 1], f)
      <3>1. upTo(i + 1) = upTo(i)
        BY <2>5
      <3> HIDE DEF upTo
      <3> QED
        BY <2>2, <2>3, <2>5, <3>1
    <2> QED
      BY <2>4, <2>5
  <1>9. n \in Done
    <2> HIDE DEF Done
    <2> QED
      BY <1>1, <1>7, <1>8, Induction
  <1>10. upTo(n) = PassingOf(rows, f)
    BY <1>1 DEF PassingOf
  <1> HIDE DEF upTo
  <1> QED
    BY <1>1, <1>6, <1>9, <1>10

\* A pick of a pick is a pick.
LEMMA PickAgain ==
  ASSUME NEW rows, NEW left, NEW P \in SUBSET Nat, Picked(left, rows, P),
         NEW f, NEW again, Picked(again, left, PassingOf(left, f))
  PROVE  Picked(again, rows, {p \in P : Passes(rows[p], f)})
  <1>1. PICK at : Picks(left, rows, P, at)
    BY DEF Picked
  <1>2. PICK of : Picks(again, left, PassingOf(left, f), of)
    BY DEF Picked
  <1> DEFINE Q == {p \in P : Passes(rows[p], f)}
             from == [k \in DOMAIN again |-> at[of[k]]]
  <1>3. \A k \in DOMAIN again : of[k] \in DOMAIN left /\ Passes(left[of[k]], f)
    BY <1>2 DEF Picks, PassingOf
  <1>4. \A k \in DOMAIN left : at[k] \in P /\ left[k] = rows[at[k]]
    BY <1>1 DEF Picks
  <1>5. from \in [DOMAIN again -> Q]
    <2>1. \A k \in DOMAIN again : at[of[k]] \in P /\ Passes(rows[at[of[k]]], f)
      BY <1>3, <1>4
    <2> QED
      BY <2>1
  <1>6. again \in Seq(ToSet(rows))
    <2>1. left \in Seq(ToSet(rows)) /\ again \in Seq(ToSet(left))
      BY <1>1, <1>2 DEF Picks
    <2>2. ToSet(left) \subseteq ToSet(rows)
      BY <2>1 DEF ToSet
    <2> QED
      BY <2>1, <2>2
  <1>7. \A k, l \in DOMAIN again : k < l => from[k] < from[l]
    BY <1>1, <1>2, <1>3 DEF Picks
  <1>8. \A p \in Q : \E k \in DOMAIN again : from[k] = p
    <2> TAKE p \in Q
    <2>1. PICK k \in DOMAIN left : at[k] = p
      BY <1>1 DEF Picks
    <2>2. k \in PassingOf(left, f)
      BY <1>4, <2>1 DEF PassingOf
    <2>3. PICK l \in DOMAIN again : of[l] = k
      BY <1>2, <2>2 DEF Picks
    <2> QED
      BY <2>1, <2>3
  <1>9. \A k \in DOMAIN again : again[k] = rows[from[k]]
    BY <1>2, <1>3, <1>4 DEF Picks
  <1> HIDE DEF from, Q
  <1>10. Picks(again, rows, Q, from)
    BY <1>5, <1>6, <1>7, <1>8, <1>9 DEF Picks
  <1> QED
    BY <1>10 DEF Picked, Q

\* What is picked is a list of rows.
LEMMA PickedList ==
  ASSUME NEW rows, NEW left, NEW P, Picked(left, rows, P)
  PROVE  left \in Seq(ToSet(rows)) /\ IsList(left)
  <1>1. left \in Seq(ToSet(rows))
    BY DEF Picked, Picks
  <1>2. left \in Seq(ToSet(left))
    BY <1>1 DEF ToSet
  <1> QED
    BY <1>1, <1>2 DEF IsList

\* All filters keep the rows that pass each, in order.
LEMMA FiltersPick ==
  ASSUME NEW rows, IsList(rows), NEW filters, IsList(filters)
  PROVE  Picked(ApplyFilters(rows, filters), rows,
                {p \in DOMAIN rows : \A m \in DOMAIN filters : Passes(rows[p], filters[m])})
  <1> DEFINE n == Len(filters)
             V == Seq(ToSet(rows))
             next(i, c) == Filtered(c, filters[i])
             step == [i \in 1..n |-> [c \in V |-> next(i, c)]]
             left[i \in 0..n] == IF i = 0 THEN rows ELSE Filtered(left[i - 1], filters[i])
  <1>1. n \in Nat /\ DOMAIN filters = 1..n /\ DOMAIN rows = 1..Len(rows) /\ Len(rows) \in Nat
    BY DEF IsList
  <1>2. step \in [1..n -> [V -> V]]
    <2>1. ASSUME NEW i \in 1..n, NEW c \in V PROVE next(i, c) \in V
      <3>1. IsList(c) /\ ToSet(c) \subseteq ToSet(rows)
        BY DEF IsList, ToSet
      <3>2. Picked(next(i, c), c, PassingOf(c, filters[i]))
        BY <3>1, FilteredPicks
      <3>3. next(i, c) \in Seq(ToSet(c))
        <4> HIDE DEF next
        <4> QED
          BY <3>2, PickedList
      <3> QED
        BY <3>1, <3>3
    <2> HIDE DEF next, V
    <2> QED
      BY <2>1
  <1>3. PICK g : Iterates(g, n, V, rows, step)
    <2> HIDE DEF step, n
    <2>1. rows \in V
      BY DEF IsList
    <2> HIDE DEF V
    <2> QED
      BY <1>1, <1>2, <2>1, Iteration
  <1>4. g = [i \in 0..n |-> IF i = 0 THEN rows ELSE next(i, g[i - 1])]
    <2>1. ASSUME NEW i \in 1..n PROVE g[i] = next(i, g[i - 1])
      <3>1. i - 1 \in 0..n
        BY <1>1
      <3>2. g[i - 1] \in V
        BY <1>3, <3>1 DEF Iterates
      <3> HIDE DEF next, V
      <3> QED
        BY <1>3, <3>2 DEF Iterates
    <2>2. 0..n = {0} \cup 1..n
      BY <1>1
    <2> HIDE DEF next, V, n
    <2> QED
      BY <1>3, <2>1, <2>2 DEF Iterates
  <1>5. left = [i \in 0..n |-> IF i = 0 THEN rows ELSE next(i, left[i - 1])]
    <2> HIDE DEF n
    <2> QED
      BY <1>4
  <1>6. ApplyFilters(rows, filters) = left[n]
    BY DEF ApplyFilters
  <1> HIDE DEF left, n
  <1> DEFINE pass(i) == {p \in DOMAIN rows : \A m \in 1..i : Passes(rows[p], filters[m])}
             Done == {i \in Nat : i <= n => Picked(left[i], rows, pass(i))}
  <1>7. 0 \in Done
    <2>1. left[0] = rows
      BY <1>1, <1>5
    <2>2. pass(0) = DOMAIN rows
      OBVIOUS
    <2>3. Picks(rows, rows, DOMAIN rows, [k \in DOMAIN rows |-> k])
      BY <1>1 DEF Picks, IsList
    <2> HIDE DEF pass
    <2> QED
      BY <2>1, <2>2, <2>3 DEF Picked
  <1>8. ASSUME NEW i \in Nat, i \in Done PROVE i + 1 \in Done
    <2> SUFFICES ASSUME i + 1 <= n PROVE Picked(left[i + 1], rows, pass(i + 1))
      OBVIOUS
    <2>1. i <= n /\ i + 1 \in 1..n /\ (i + 1) - 1 = i
      BY <1>1
    <2>2. left[i + 1] = Filtered(left[i], filters[i + 1])
      <3>1. left[i + 1] = next(i + 1, left[i])
        <4> HIDE DEF next
        <4> QED
          BY <1>5, <2>1
      <3> QED
        BY <3>1
    <2>3. Picked(left[i], rows, pass(i))
      BY <1>8, <2>1
    <2>4. Picked(left[i + 1], left[i], PassingOf(left[i], filters[i + 1]))
      <3>1. IsList(left[i])
        <4> HIDE DEF pass
        <4> QED
          BY <2>3, PickedList
      <3> QED
        BY <2>2, <3>1, FilteredPicks
    <2>5. pass(i) \in SUBSET Nat
      BY <1>1
    <2>6. pass(i + 1) = {p \in pass(i) : Passes(rows[p], filters[i + 1])}
      <3>1. 1..(i + 1) = 1..i \cup {i + 1}
        OBVIOUS
      <3> QED
        BY <3>1
    <2> HIDE DEF pass
    <2> QED
      BY <2>3, <2>4, <2>5, <2>6, PickAgain
  <1>9. n \in Done
    <2> HIDE DEF Done
    <2> QED
      BY <1>1, <1>7, <1>8, Induction
  <1>10. pass(n) = {p \in DOMAIN rows : \A m \in DOMAIN filters : Passes(rows[p], filters[m])}
    BY <1>1
  <1> HIDE DEF pass
  <1> QED
    BY <1>1, <1>6, <1>9, <1>10

\* A stable sort: the place of i is the number of those that go no later.
GoesBy(m, j, i) == m[j] > m[i] \/ (j <= i /\ ~(m[i] > m[j]))

Ahead0(m, n, i) == {j \in 1..n : GoesBy(m, j, i)}

\* The places of a stable sort are one each, and higher ranks come first.
LEMMA Ranking ==
  ASSUME NEW n \in Nat, NEW m \in [1..n -> Int], NEW place,
         place = [i \in 1..n |-> Cardinality(Ahead0(m, n, i))]
  PROVE  /\ place \in Bijection(1..n, 1..n)
         /\ \A i, j \in 1..n : GoesBy(m, i, j) /\ i # j => place[i] < place[j]
  <1> DEFINE S(i) == Ahead0(m, n, i)
  <1>1. IsFiniteSet(1..n) /\ Cardinality(1..n) = n
    <2>1. n \in Int /\ 1 \in Int
      OBVIOUS
    <2> QED
      BY <2>1, FS_Interval
  <1>2. \A i \in 1..n : /\ IsFiniteSet(S(i)) /\ Cardinality(S(i)) \in 1..n
    <2> TAKE i \in 1..n
    <2>1. S(i) \in SUBSET (1..n) /\ i \in S(i)
      BY DEF Ahead0, GoesBy
    <2> HIDE DEF S
    <2>2. IsFiniteSet(S(i)) /\ Cardinality(S(i)) <= n
      BY <1>1, <2>1, FS_Subset
    <2>3. Cardinality(S(i)) \in Nat /\ Cardinality(S(i)) # 0
      BY <2>1, <2>2, FS_CardinalityType, FS_EmptySet
    <2> QED
      BY <2>2, <2>3
  <1>3. \A i, j \in 1..n : GoesBy(m, i, j) /\ i # j => Cardinality(S(i)) < Cardinality(S(j))
    <2> SUFFICES ASSUME NEW i \in 1..n, NEW j \in 1..n, GoesBy(m, i, j), i # j
                 PROVE  Cardinality(S(i)) < Cardinality(S(j))
      OBVIOUS
    <2>1. S(i) \in SUBSET S(j)
      BY DEF Ahead0, GoesBy
    <2>2. j \in S(j) /\ j \notin S(i)
      BY DEF Ahead0, GoesBy
    <2> HIDE DEF S
    <2>3. Cardinality(S(i)) <= Cardinality(S(j)) /\ Cardinality(S(i)) # Cardinality(S(j))
      BY <1>2, <2>1, <2>2, FS_Subset
    <2> QED
      BY <1>2, <2>3
  <1>4. place \in [1..n -> 1..n] /\ \A i \in 1..n : place[i] = Cardinality(S(i))
    <2> HIDE DEF S
    <2>1. place = [i \in 1..n |-> Cardinality(S(i))]
      BY DEF S
    <2> QED
      BY <1>2, <2>1
  <1> HIDE DEF S
  <1>5. \A i, j \in 1..n : GoesBy(m, i, j) /\ i # j => place[i] < place[j]
    BY <1>3, <1>4
  <1>6. place \in Injection(1..n, 1..n)
    <2>1. \A i, j \in 1..n : i # j => GoesBy(m, i, j) \/ GoesBy(m, j, i)
      BY DEF GoesBy
    <2>2. ASSUME NEW i \in 1..n, NEW j \in 1..n, i # j PROVE place[i] # place[j]
      <3>1. place[i] \in Int /\ place[j] \in Int
        BY <1>4
      <3>2. place[i] < place[j] \/ place[j] < place[i]
        BY <1>5, <2>1, <2>2
      <3> QED
        BY <3>1, <3>2
    <2> QED
      BY <1>4, <2>2 DEF Injection, IsInjective
  <1>7. place \in Surjection(1..n, 1..n)
    BY <1>1, <1>6, FS_Injection
  <1> QED
    BY <1>5, <1>6, <1>7 DEF Bijection

\* The order of the ranked rows: a permutation, higher ranks first and equal ranks
\* as they were.
RankedBy(rows, s, order) ==
  /\ order \in [DOMAIN rows -> DOMAIN rows]
  /\ \A i \in DOMAIN rows : \E k \in DOMAIN rows : order[k] = i
  /\ Ranked(rows, s) = [k \in DOMAIN rows |-> rows[order[k]]]
  /\ \A k, l \in DOMAIN rows : k < l =>
       \/ Ahead(rows[order[k]], rows[order[l]], s)
       \/ /\ ~Ahead(rows[order[l]], rows[order[k]], s)
          /\ order[k] < order[l]

\* sorted(): values of one kind are ranked, either way, as a stable sort does.
LEMMA RankingRanks ==
  ASSUME NEW rows, IsList(rows), NEW s, Rankable(rows, s.rankBy),
         \A i \in DOMAIN rows : RankKey(rows[i], s.rankBy)[2] \in Int
  PROVE  \E order : RankedBy(rows, s, order)
  <1> DEFINE n == Len(rows)
             key(i) == RankKey(rows[i], s.rankBy)
             m == [i \in 1..n |-> IF s.descending THEN key(i)[2] ELSE -key(i)[2]]
             place == [i \in 1..n |-> Cardinality(Ahead0(m, n, i))]
             order == [k \in 1..n |-> CHOOSE i \in 1..n : place[i] = k]
  <1>1. n \in Nat /\ DOMAIN rows = 1..n
    BY DEF IsList
  <1>2. m \in [1..n -> Int]
    <2>1. \A i \in 1..n : key(i)[2] \in Int
      BY <1>1
    <2> HIDE DEF key, n
    <2> QED
      BY <2>1
  <1>3. \A i, j \in 1..n : Ahead(rows[i], rows[j], s) <=> m[i] > m[j]
    <2> SUFFICES ASSUME NEW i \in 1..n, NEW j \in 1..n
                 PROVE  Ahead(rows[i], rows[j], s) <=> m[i] > m[j]
      OBVIOUS
    <2>1. SameKind(key(i), key(j)) /\ SameKind(key(j), key(i))
      BY <1>1 DEF Rankable
    <2>2. key(i)[2] \in Int /\ key(j)[2] \in Int
      BY <1>1
    <2>3. Ahead(rows[i], rows[j], s) <=>
            IF s.descending THEN Less(key(j), key(i)) ELSE Less(key(i), key(j))
      BY DEF Ahead
    <2> HIDE DEF key, n
    <2>4. Ahead(rows[i], rows[j], s) <=>
            IF s.descending THEN key(j)[2] < key(i)[2] ELSE key(i)[2] < key(j)[2]
      BY <2>1, <2>3 DEF Less
    <2> QED
      BY <2>2, <2>4
  <1> HIDE DEF m, n
  <1>4. \A i \in 1..n : place[i] = Cardinality({j \in DOMAIN rows :
                                     \/ Ahead(rows[j], rows[i], s)
                                     \/ j <= i /\ ~Ahead(rows[i], rows[j], s)})
    <2> TAKE i \in 1..n
    <2>1. Ahead0(m, n, i) = {j \in DOMAIN rows : \/ Ahead(rows[j], rows[i], s)
                                                 \/ j <= i /\ ~Ahead(rows[i], rows[j], s)}
      BY <1>1, <1>3 DEF Ahead0, GoesBy
    <2> QED
      BY <2>1
  <1>5. /\ place \in Bijection(1..n, 1..n)
        /\ \A i, j \in 1..n : GoesBy(m, i, j) /\ i # j => place[i] < place[j]
    <2>1. place = [i \in 1..n |-> Cardinality(Ahead0(m, n, i))]
      OBVIOUS
    <2> HIDE DEF place
    <2> QED
      BY <1>1, <1>2, <2>1, Ranking
  <1>6. Ranked(rows, s) = [k \in DOMAIN rows |-> rows[order[k]]]
    <2>1. \A k \in DOMAIN rows :
            order[k] = CHOOSE i \in DOMAIN rows :
                         Cardinality({j \in DOMAIN rows :
                                        \/ Ahead(rows[j], rows[i], s)
                                        \/ j <= i /\ ~Ahead(rows[i], rows[j], s)}) = k
      <3> TAKE k \in DOMAIN rows
      <3>1. order[k] = CHOOSE i \in 1..n : place[i] = k
        <4> HIDE DEF place
        <4> QED
          BY <1>1
      <3> HIDE DEF place, order
      <3> QED
        BY <1>1, <1>4, <3>1
    <2>2. Ranked(rows, s) =
            [k \in DOMAIN rows |->
               rows[CHOOSE i \in DOMAIN rows :
                      Cardinality({j \in DOMAIN rows :
                                     \/ Ahead(rows[j], rows[i], s)
                                     \/ j <= i /\ ~Ahead(rows[i], rows[j], s)}) = k]]
      BY Zenon DEF Ranked
    <2> HIDE DEF order
    <2> QED
      BY <2>1, <2>2, Zenon
  <1> HIDE DEF place
  <1>7. \A k \in 1..n : order[k] \in 1..n /\ place[order[k]] = k
    <2> TAKE k \in 1..n
    <2>1. \E i \in 1..n : place[i] = k
      BY <1>5 DEF Bijection, Surjection
    <2> QED
      BY <2>1
  <1>8. order \in [1..n -> 1..n]
    BY <1>7
  <1> HIDE DEF order
  <1>9. \A i \in 1..n : \E k \in 1..n : order[k] = i
    <2> TAKE i \in 1..n
    <2>1. place[i] \in 1..n
      BY <1>5 DEF Bijection, Injection
    <2>2. place[order[place[i]]] = place[i] /\ order[place[i]] \in 1..n
      BY <1>7, <2>1
    <2>3. order[place[i]] = i
      BY <1>5, <2>2 DEF Bijection, Injection, IsInjective
    <2> QED
      BY <2>1, <2>3
  <1>10. ASSUME NEW k \in 1..n, NEW l \in 1..n, k < l
         PROVE  \/ Ahead(rows[order[k]], rows[order[l]], s)
                \/ /\ ~Ahead(rows[order[l]], rows[order[k]], s)
                   /\ order[k] < order[l]
    <2>1. order[k] \in 1..n /\ order[l] \in 1..n /\ order[k] # order[l]
          /\ ~(place[order[l]] < place[order[k]])
      BY <1>7, <1>10
    <2>2. ~GoesBy(m, order[l], order[k])
      BY <1>5, <2>1
    <2>3. m[order[k]] > m[order[l]] \/ (~(m[order[l]] > m[order[k]]) /\ order[k] < order[l])
      BY <1>1, <1>2, <2>1, <2>2 DEF GoesBy
    <2> QED
      BY <1>3, <2>1, <2>3
  <1>11. RankedBy(rows, s, order)
    BY <1>1, <1>6, <1>8, <1>9, <1>10 DEF RankedBy
  <1> QED
    BY <1>11

\* The places of a list.
LEMMA ListDomain ==
  \A list : IsList(list) => /\ Len(list) \in Nat
                            /\ DOMAIN list = 1..Len(list) /\ DOMAIN list \subseteq Nat
  BY DEF IsList

\* A function on 1..n is a list.
LEMMA ListMade ==
  ASSUME NEW n \in Nat, NEW W, NEW list, list \in [1..n -> W]
  PROVE  list \in Seq(W) /\ Len(list) = n
  OBVIOUS

\* How many of all rows are asked for.
Kept(n, all) ==
  LET wanted == CASE n = 0 -> all [] n > 0 -> n [] n < 0 -> all + n
  IN  IF wanted < 0 THEN 0 ELSE IF wanted > all THEN all ELSE wanted

\* data[:top_n] keeps the first rows, as many as Kept.
LEMMA CutKeeps ==
  ASSUME NEW W, NEW rows \in Seq(W), NEW n \in Int
  PROVE  /\ Cut(rows, n) \in Seq(W)
         /\ Len(Cut(rows, n)) = Kept(n, Len(rows))
         /\ Kept(n, Len(rows)) \in 0..Len(rows)
         /\ \A k \in 1..Kept(n, Len(rows)) : Cut(rows, n)[k] = rows[k]
  <1> DEFINE all == Len(rows)
             size == IF n >= 0 THEN n ELSE all + n
             last == IF size > all THEN all ELSE size
  <1>1. all \in Nat /\ DOMAIN rows = 1..all /\ \A k \in 1..all : rows[k] \in W
    OBVIOUS
  <1>2. Kept(n, all) \in 0..all
    BY <1>1 DEF Kept
  <1>3. CASE n = 0
    <2>1. Cut(rows, n) = rows /\ Kept(n, all) = all
      BY <1>1, <1>3 DEF Cut, Kept
    <2> QED
      BY <1>1, <1>2, <2>1
  <1>4. CASE n # 0
    <2>1. Cut(rows, n) = SubSeq(rows, 1, last)
      BY <1>4 DEF Cut
    <2>2. last \in Int /\ last <= all
      BY <1>1, <1>4
    <2>3. Kept(n, all) = IF last < 0 THEN 0 ELSE last
      BY <1>1, <1>4 DEF Kept
    <2> HIDE DEF last, all
    <2>4. \A k \in 1..last : rows[k] \in W
      BY <1>1, <2>2
    <2> DEFINE cut == SubSeq(rows, 1, last)
    <2>5. /\ cut \in Seq(W)
          /\ Len(cut) = IF 1 <= last THEN last - 1 + 1 ELSE 0
          /\ \A k \in 1..(last - 1 + 1) : cut[k] = rows[1 + k - 1]
      BY <2>2, <2>4, SubSeqProperties
    <2> HIDE DEF cut
    <2>6. Len(cut) = Kept(n, all)
      BY <2>2, <2>3, <2>5
    <2>7. \A k \in 1..Kept(n, all) : cut[k] = rows[k]
      BY <2>2, <2>3, <2>5
    <2> QED
      BY <1>2, <2>1, <2>5, <2>6, <2>7 DEF cut, all
  <1> QED
    BY <1>3, <1>4

\* The rows that pass, all of them, as they are ranked: g tells the place of each.
InOrder(full, rows, s, P, g) ==
  /\ full \in Seq(ToSet(rows))
  /\ g \in [DOMAIN full -> P]
  /\ \A p \in P : \E k \in DOMAIN full : g[k] = p
  /\ \A k \in DOMAIN full : full[k] = rows[g[k]]
  /\ \A k, l \in DOMAIN full : k < l => Precedes(g[k], g[l], rows, s)
  /\ Cardinality(P) = Len(full)

\* As many rows are kept as places are picked.
LEMMA PickCounts ==
  ASSUME NEW rows, NEW left, NEW P \in SUBSET Nat, NEW at, Picks(left, rows, P, at)
  PROVE  Cardinality(P) = Len(left)
  <1>1. Len(left) \in Nat /\ DOMAIN left = 1..Len(left)
    BY DEF Picks
  <1>2. at \in [1..Len(left) -> P] /\ \A p \in P : \E k \in 1..Len(left) : at[k] = p
    BY <1>1 DEF Picks
  <1>3. ASSUME NEW k \in 1..Len(left), NEW l \in 1..Len(left), k # l
        PROVE  at[k] # at[l]
    <2>1. at[k] \in Nat /\ at[l] \in Nat
      BY <1>2
    <2>2. k < l \/ l < k
      BY <1>1, <1>3
    <2>3. at[k] < at[l] \/ at[l] < at[k]
      BY <1>1, <2>2 DEF Picks
    <2> QED
      BY <2>1, <2>3
  <1>4. at \in Bijection(1..Len(left), P)
    BY <1>2, <1>3 DEF Bijection, Injection, IsInjective, Surjection
  <1>5. ExistsBijection(1..Len(left), P)
    BY <1>4 DEF ExistsBijection
  <1> QED
    BY <1>1, <1>5, FS_CountingElements

\* Filtered and, if asked for, ranked, the rows are in order.
LEMMA RankedInOrder ==
  ASSUME NEW rows, IsList(rows), NEW s,
         \A i \in DOMAIN rows : RankKey(rows[i], s.rankBy)[2] \in Int,
         NEW P \in SUBSET DOMAIN rows, NEW left, Picked(left, rows, P),
         s.rankBy # "" => Rankable(left, s.rankBy)
  PROVE  \E g : InOrder(IF s.rankBy = "" THEN left ELSE Ranked(left, s), rows, s, P, g)
  <1>1. PICK at : Picks(left, rows, P, at)
    BY DEF Picked
  <1>2. /\ Len(rows) \in Nat /\ DOMAIN rows = 1..Len(rows) /\ P \in SUBSET Nat
        /\ Len(left) \in Nat /\ DOMAIN left = 1..Len(left) /\ IsList(left)
    <2>1. Len(rows) \in Nat /\ DOMAIN rows = 1..Len(rows) /\ DOMAIN rows \subseteq Nat
      BY ListDomain
    <2>2. P \in SUBSET Nat
      BY <2>1, Zenon
    <2>3. left \in Seq(ToSet(rows)) /\ IsList(left)
      BY PickedList
    <2>4. Len(left) \in Nat /\ DOMAIN left = 1..Len(left)
      BY <2>3, ListDomain
    <2> QED
      BY <2>1, <2>2, <2>3, <2>4
  <1>3. Cardinality(P) = Len(left)
    BY <1>1, <1>2, PickCounts
  <1>4. \A k \in DOMAIN left : at[k] \in P /\ left[k] = rows[at[k]]
    BY <1>1 DEF Picks
  <1>5. CASE s.rankBy = ""
    <2>1. \A k, l \in DOMAIN left : k < l => Precedes(at[k], at[l], rows, s)
      BY <1>1, <1>5 DEF Picks, Precedes
    <2>2. InOrder(left, rows, s, P, at)
      BY <1>1, <1>3, <2>1 DEF Picks, InOrder
    <2> QED
      BY <1>5, <2>2
  <1>6. CASE s.rankBy # ""
    <2>1. \A k \in DOMAIN left : RankKey(left[k], s.rankBy)[2] \in Int
      BY <1>4
    <2>2. PICK order : RankedBy(left, s, order)
      BY <1>2, <1>6, <2>1, RankingRanks
    <2> DEFINE full == Ranked(left, s)
               g == [k \in DOMAIN left |-> at[order[k]]]
    <2>3. full = [k \in DOMAIN left |-> left[order[k]]] /\ order \in [DOMAIN left -> DOMAIN left]
      BY <2>2 DEF RankedBy
    <2> HIDE DEF full
    <2>4. \A k \in DOMAIN left : /\ order[k] \in DOMAIN left
                                 /\ full[k] = rows[g[k]] /\ g[k] \in P
      BY <1>4, <2>3
    <2>5. full \in Seq(ToSet(rows)) /\ DOMAIN full = DOMAIN left /\ Len(full) = Len(left)
      <3>1. \A k \in DOMAIN left : left[order[k]] \in ToSet(rows)
        BY <1>4, <2>3 DEF ToSet
      <3>2. DOMAIN full = 1..Len(left) /\ full \in [1..Len(left) -> ToSet(rows)]
        BY <1>2, <2>3, <3>1
      <3>3. full \in Seq(ToSet(rows)) /\ Len(full) = Len(left)
        BY <1>2, <3>2, ListMade
      <3> QED
        BY <1>2, <3>2, <3>3
    <2>6. \A p \in P : \E k \in DOMAIN left : g[k] = p
      <3> TAKE p \in P
      <3>1. PICK i \in DOMAIN left : at[i] = p
        BY <1>1 DEF Picks
      <3>2. PICK k \in DOMAIN left : order[k] = i
        BY <2>2 DEF RankedBy
      <3> QED
        BY <3>1, <3>2
    <2>7. ASSUME NEW k \in DOMAIN left, NEW l \in DOMAIN left, k < l
          PROVE  Precedes(g[k], g[l], rows, s)
      <3> DEFINE i == order[k]
                 j == order[l]
      <3>1. \/ Ahead(left[i], left[j], s)
            \/ ~Ahead(left[j], left[i], s) /\ i < j
        BY <2>2, <2>7 DEF RankedBy
      <3>2. /\ g[k] = at[i] /\ g[l] = at[j] /\ i \in DOMAIN left /\ j \in DOMAIN left
            /\ left[i] = rows[at[i]] /\ left[j] = rows[at[j]]
        BY <1>4, <2>4
      <3>3. i < j => at[i] < at[j]
        BY <1>1, <3>2 DEF Picks
      <3> HIDE DEF i, j, g
      <3> QED
        BY <1>6, <3>1, <3>2, <3>3 DEF Precedes
    <2>8. g \in [DOMAIN left -> P]
      BY <2>4
    <2> HIDE DEF g
    <2>9. InOrder(full, rows, s, P, g)
      BY <1>3, <2>4, <2>5, <2>6, <2>7, <2>8 DEF InOrder
    <2> QED
      BY <1>6, <2>9 DEF full
  <1> QED
    BY <1>5, <1>6

\* dynamic_screen: the top of the rows that pass, for any rows and any screen.
LEMMA OutcomeIsTop ==
  ASSUME NEW rows, IsList(rows), NEW s, IsList(s.filters), s.topN \in Int, CanRank(rows, s),
         \A i \in DOMAIN rows : RankKey(rows[i], s.rankBy)[2] \in Int
  PROVE  IsTop(Outcome(rows, s), rows, s)
  <1> DEFINE P == {i \in DOMAIN rows :
                     \A n \in DOMAIN s.filters : Passes(rows[i], s.filters[n])}
             left == ApplyFilters(rows, s.filters)
             full == IF s.rankBy = "" THEN left ELSE Ranked(left, s)
             result == Outcome(rows, s)
             M == Kept(s.topN, Len(full))
  <1>1. Picked(left, rows, P)
    BY FiltersPick
  <1>2. PICK g : InOrder(full, rows, s, P, g)
    <2>1. P \in SUBSET DOMAIN rows
      OBVIOUS
    <2>2. s.rankBy # "" => Rankable(left, s.rankBy)
      BY DEF CanRank
    <2> HIDE DEF P, left
    <2> QED
      BY <1>1, <2>1, <2>2, RankedInOrder
  <1>3. result = Cut(full, s.topN)
    BY DEF Outcome
  <1> HIDE DEF P, left, full, result
  <1>4. full \in Seq(ToSet(rows)) /\ Len(full) \in Nat /\ DOMAIN full = 1..Len(full)
    BY <1>2 DEF InOrder
  <1>5. /\ result \in Seq(ToSet(rows)) /\ Len(result) = M /\ M \in 0..Len(full)
        /\ \A k \in 1..M : result[k] = full[k]
    BY <1>3, <1>4, CutKeeps
  <1>6. DOMAIN result = 1..M /\ \A k \in 1..M : k \in DOMAIN full
    BY <1>4, <1>5
  <1> DEFINE from == [k \in DOMAIN result |-> g[k]]
  <1>7. from \in [DOMAIN result -> P] /\ \A k \in DOMAIN result : result[k] = rows[from[k]]
    BY <1>2, <1>5, <1>6 DEF InOrder
  <1>8. \A k, l \in DOMAIN result : k < l => Precedes(from[k], from[l], rows, s)
    BY <1>2, <1>6 DEF InOrder
  <1>9. \A i \in P \ Range(from), k \in DOMAIN result : Precedes(from[k], i, rows, s)
    <2> SUFFICES ASSUME NEW i \in P, i \notin Range(from), NEW k \in DOMAIN result
                 PROVE  Precedes(from[k], i, rows, s)
      OBVIOUS
    <2>1. PICK l \in DOMAIN full : g[l] = i
      BY <1>2 DEF InOrder
    <2>2. l \notin DOMAIN result
      BY <2>1 DEF Range
    <2>3. k < l
      BY <1>4, <1>5, <1>6, <2>1, <2>2
    <2> QED
      BY <1>2, <1>6, <2>1, <2>3 DEF InOrder
  <1>10. Len(result) = Kept(s.topN, Cardinality(P))
    BY <1>2, <1>5 DEF InOrder
  <1> HIDE DEF from, M
  <1> QED
    BY <1>7, <1>8, <1>9, <1>10 DEF IsTop, Kept, P, result

-----------------------------------------------------------------------------
\* What is shown of a call comes of one: a reply, of an input; a screen, of rows Wind
\* may send that can be ranked.
ScreenMade(shown) ==
  \E s \in Screens, found \in Found :
    LET codes == Universe(s.universe, found)
        fields == ExpandFields(s.fields)
    IN  \E cells \in [DOMAIN codes -> [{Lower[f] : f \in ToSet(fields)} -> Cells]] :
          LET rows == Rows(codes, cells)
          IN  /\ CanRank(rows, s)
              /\ shown = [input |-> s, fields |-> fields, rows |-> rows,
                          result |-> Outcome(rows, s)]

ShownOfCalls ==
  /\ reply # NoReply => asked \in Inputs
  /\ screened # NoReply => ScreenMade(screened)

\* Every state shows what calls made.
LEMMA ShownHolds == Spec => []ShownOfCalls
<1>1. Init => ShownOfCalls
  BY DEF Init, ShownOfCalls
<1>2. ShownOfCalls /\ [Next]_vars => ShownOfCalls'
  <2> SUFFICES ASSUME ShownOfCalls, [Next]_vars PROVE ShownOfCalls'
    OBVIOUS
  <2>1. ASSUME NEW p \in Inputs, Hit(p) \/ Miss(p) \/ Fails(p)
        PROVE  ShownOfCalls'
    <3>1. asked' \in Inputs /\ screened' = NoReply
      BY <2>1 DEF Hit, Miss, Fails, Asked
    <3> QED
      BY <3>1 DEF ShownOfCalls
  <2>2. ASSUME NEW s \in Screens, Screen(s)
        PROVE  ShownOfCalls'
    <3>1. reply' = reply /\ asked' = asked
      BY <2>2 DEF Screen, OnlyCall
    <3>2. ScreenMade(screened)'
      BY <2>2 DEF Screen, ScreenMade
    <3> QED
      BY <3>1, <3>2 DEF ShownOfCalls
  <2>3. ASSUME NEW s \in Screens, ScreenFails(s)
        PROVE  ShownOfCalls'
    BY <2>3 DEF ScreenFails, OnlyCall, ShownOfCalls, ScreenMade
  <2>4. ASSUME NEW k \in DOMAIN kept, Drop(k)
        PROVE  ShownOfCalls'
    BY <2>4 DEF Drop, ShownOfCalls, ScreenMade
  <2>5. CASE NewDay
    BY <2>5 DEF NewDay, ShownOfCalls, ScreenMade
  <2>6. CASE UNCHANGED vars
    BY <2>6 DEF vars, ShownOfCalls, ScreenMade
  <2> QED
    BY <2>1, <2>2, <2>3, <2>4, <2>5, <2>6 DEF Next
<1> QED
  BY <1>1, <1>2, PTL DEF Spec

\* A screen that was made asked for each field once, and its result is its top.
LEMMA MadeRight ==
  ASSUME NEW shown, ScreenMade(shown)
  PROVE  /\ OnceEach(shown.fields, shown.input.fields)
         /\ IsTop(shown.result, shown.rows, shown.input)
  <1>1. PICK s \in Screens, found \in Found :
          LET codes == Universe(s.universe, found)
              fields == ExpandFields(s.fields)
          IN  \E cells \in [DOMAIN codes -> [{Lower[f] : f \in ToSet(fields)} -> Cells]] :
                LET rows == Rows(codes, cells)
                IN  /\ CanRank(rows, s)
                    /\ shown = [input |-> s, fields |-> fields, rows |-> rows,
                                result |-> Outcome(rows, s)]
    BY DEF ScreenMade
  <1> DEFINE codes == Universe(s.universe, found)
             fields == ExpandFields(s.fields)
             names == {Lower[f] : f \in ToSet(fields)}
  <1>2. PICK cells \in [DOMAIN codes -> [names -> Cells]] :
          /\ CanRank(Rows(codes, cells), s)
          /\ shown = [input |-> s, fields |-> fields, rows |-> Rows(codes, cells),
                      result |-> Outcome(Rows(codes, cells), s)]
    BY <1>1
  <1> DEFINE rows == Rows(codes, cells)
  <1>3. shown.input = s /\ shown.fields = fields /\ shown.rows = rows
        /\ shown.result = Outcome(rows, s)
    BY <1>2
  <1>4. IsList(s.fields) /\ IsList(s.filters) /\ s.topN \in Int
    <2>1. s.fields \in FieldLists \cup {t.fields : t \in Screens}
      OBVIOUS
    <2> QED
      BY <2>1, FieldsAssumption, ScreensAssumption
  <1>5. OnceEach(fields, s.fields)
    BY <1>4, ExpandedOnce
  <1>6. Len(codes) \in Nat /\ DOMAIN codes = 1..Len(codes)
    <2>1. CASE s.universe.kind = "codes"
      <3>1. codes = [i \in DOMAIN s.universe.codes |-> ToWind[s.universe.codes[i]]]
        BY <2>1 DEF Universe, WindCodes
      <3>2. /\ Len(s.universe.codes) \in Nat
            /\ DOMAIN s.universe.codes = 1..Len(s.universe.codes)
        BY ScreensAssumption, ListDomain
      <3> QED
        BY <3>1, <3>2
    <2>2. CASE s.universe.kind # "codes"
      <3>1. codes = found
        BY <2>2 DEF Universe
      <3> QED
        BY <3>1, WindAssumption, ListDomain
    <2> QED
      BY <2>1, <2>2
  <1>c. \A i \in DOMAIN codes : CodeText[codes[i]][2] \in Int
    <2>1. \A code \in ToSet(codes) : CodeText[code][2] \in Int
      BY WindAssumption
    <2> HIDE DEF codes
    <2> QED
      BY <2>1 DEF ToSet
  <1>7. rows = [i \in 1..Len(codes) |-> RowOf(codes[i], cells[i])]
    BY <1>6 DEF Rows
  <1> HIDE DEF codes, names, fields, rows
  <1>8. IsList(rows) /\ DOMAIN rows = DOMAIN codes
    <2>1. rows \in [1..Len(codes) -> ToSet(rows)]
      BY <1>7 DEF ToSet
    <2>2. rows \in Seq(ToSet(rows))
      BY <1>6, <2>1, ListMade
    <2> QED
      BY <1>6, <1>7, <2>2 DEF IsList
  <1>9. ASSUME NEW i \in DOMAIN rows
        PROVE  RankKey(rows[i], s.rankBy)[2] \in Int
    <2> DEFINE v == ValueOf(rows[i], s.rankBy)
    <2>1. rows[i] = RowOf(codes[i], cells[i]) /\ i \in DOMAIN codes
      BY <1>6, <1>7, <1>8
    <2>2. v = Missing \/ v \in Cells \/ v = CodeText[codes[i]]
      <3>1. cells[i] \in [names -> Cells]
        BY <1>2, <2>1
      <3>2. \A name \in DOMAIN rows[i] : rows[i][name] \in Cells \/ rows[i][name] = CodeText[codes[i]]
        BY <2>1, <3>1 DEF RowOf
      <3> QED
        BY <2>1, <3>2 DEF ValueOf
    <2>3. v[2] \in Int
      BY <1>c, <2>1, <2>2, WindAssumption DEF Missing
    <2> HIDE DEF v
    <2>4. RankKey(rows[i], s.rankBy) = IF v[2] = 0 THEN <<"number", 0>> ELSE v
      BY DEF RankKey, v
    <2> QED
      BY <2>3, <2>4
  <1>10. IsTop(Outcome(rows, s), rows, s)
    <2>1. CanRank(rows, s)
      BY <1>2 DEF rows
    <2> QED
      BY <1>4, <1>8, <1>9, <2>1, OutcomeIsTop
  <1> QED
    BY <1>3, <1>5, <1>10

\* For every list of fields and field sets, in any case, whether the answer comes
\* from the cache or from Wind, and for a dynamic screen too: each field is asked of
\* Wind once, and no other.
THEOREM EachFieldOnce == Spec => []FieldsAskedOnce
<1>1. IInv /\ ShownOfCalls => FieldsAskedOnce
  <2> SUFFICES ASSUME IInv, ShownOfCalls PROVE FieldsAskedOnce
    OBVIOUS
  <2>1. ASSUME reply # NoReply, ExpandsFields(asked)
        PROVE  OnceEach(reply.query[2][2], asked.fields)
    <3>1. asked \in Inputs /\ reply.query = Handle(asked, Today).query
      BY <2>1 DEF IInv, AnswersTheQuestion, ShownOfCalls
    <3>2. reply.query[2][2] = ExpandFields(asked.fields)
      BY <2>1, <3>1 DEF ExpandsFields, Handle, HandleSnapshot, HandleHistorical,
        HandleMinuteBars, HandleTicks, HandleRealtime, Direct, Lookup
    <3>3. asked.fields \in FieldLists
      BY <2>1, <3>1 DEF ExpandsFields, Inputs, SnapshotInput, HistoricalInput, MinuteBarsInput,
        TicksInput, RealtimeInput, DatasetInput, MacroInput, SectorSeriesInput,
        SectorSnapshotInput, ScreenInput, EstimatesInput, HoldersInput, StockConnectInput,
        EventCalendarInput, TradingDaysInput, DateOffsetInput, DaysCountInput,
        CompanyProfileInput, PortfolioReportInput, PortfolioSnapshotInput,
        PortfolioSeriesInput
    <3>4. IsList(asked.fields)
      BY <3>3, FieldsAssumption
    <3> QED
      BY <3>2, <3>4, ExpandedOnce
  <2>2. screened # NoReply => OnceEach(screened.fields, screened.input.fields)
    BY MadeRight DEF ShownOfCalls
  <2> QED
    BY <2>1, <2>2 DEF FieldsAskedOnce
<1>2. Spec => []IInv
  BY InitHolds, NextPreserves, PTL DEF Spec
<1> QED
  BY <1>1, <1>2, ShownHolds, PTL

\* For every universe, every list of filters and ranking, and whatever Wind sends that
\* can be ranked: a dynamic screen returns the top of the rows that pass.
THEOREM ScreenReturnsTop == Spec => []ScreenIsTop
<1>1. ShownOfCalls => ScreenIsTop
  BY MadeRight DEF ShownOfCalls, ScreenIsTop
<1> QED
  BY <1>1, ShownHolds, PTL
=============================================================================
