------------------------------- MODULE Handlers -------------------------------
(***************************************************************************)
(* What each query handler (handlers/) makes of its input (models/inputs): *)
(* the key and category it caches the answer under, and the query it sends *)
(* to Wind.  Operators only; Tools has the calls.                          *)
(*                                                                         *)
(* A key is a function name and arguments, a query an API and arguments.   *)
(* Codes and fields are lists, which the code joins with commas; options   *)
(* and dates that a handler composes are lists of their parts, <<>> when   *)
(* left empty.                                                             *)
(***************************************************************************)
EXTENDS Integers, Sequences, SequencesExt

CONSTANTS
  CodeLists,    \* lists of codes, in Wind's or Bloomberg's form
  FieldLists,   \* lists of fields and field sets
  Options,      \* what a caller may pass as options
  Dates,        \* days and relative dates a caller may pass
  Backwards,    \* pairs of them that validate_date_range refuses
  Words,        \* names of tables, products, portfolios, schemes, single fields
  DayOptions,   \* day type and calendar
  Periods, Offsets,
  ToWind,       \* _convert_single: a code's form in Wind
  Lower,        \* str.lower() of a field or of the name of a field set
  FieldSets     \* FIELDSETS: the fields of a set, by its name in lower case

NoDate == <<>>
AnyDate == Dates \cup {NoDate}

WindCodes(codes) == [i \in DOMAIN codes |-> ToWind[codes[i]]]

-----------------------------------------------------------------------------
\* expand_fields: sets replaced by their fields, then the first of each field,
\* whatever its case.

FieldsOf(item) ==
  IF Lower[item] \in DOMAIN FieldSets THEN FieldSets[Lower[item]] ELSE <<item>>

Flat(items) ==
  LET flat[i \in 0..Len(items)] == IF i = 0 THEN <<>> ELSE flat[i - 1] \o FieldsOf(items[i])
  IN  flat[Len(items)]

\* Mutant: close and CLOSE are two fields.
AddNewCased(seen, f) ==
  IF \E i \in DOMAIN seen : seen[i] = f THEN seen ELSE Append(seen, f)

AddNew(seen, f) ==
  IF \E i \in DOMAIN seen : Lower[seen[i]] = Lower[f] THEN seen ELSE Append(seen, f)

ExpandFields(items) ==
  LET fields == Flat(items)
      seen[i \in 0..Len(fields)] == IF i = 0 THEN <<>> ELSE AddNew(seen[i - 1], fields[i])
  IN  seen[Len(fields)]

-----------------------------------------------------------------------------
OrToday(date, today) == IF date = NoDate THEN today ELSE date

Lookup(func, keyArgs, category, api, args) ==
  [key |-> <<func, keyArgs>>, category |-> category, query |-> <<api, args>>]

\* Most handlers look up exactly what they send.
Direct(api, args, category) == Lookup(api, args, category, api, args)

-----------------------------------------------------------------------------
\* The inputs, as the models of models/inputs.py let them through.  Kinds of events
\* the handler does not know are left out: it refuses them before it looks in the
\* cache.  A kind of holders it does not know it refuses after.

SnapshotInput ==
  [tool : {"snapshot"}, codes : CodeLists, fields : FieldLists, options : Options]

HistoricalInput ==
  {p \in [tool : {"historical"}, codes : CodeLists, fields : FieldLists,
          begin : Dates, end : AnyDate, options : Options] :
     <<p.begin, p.end>> \notin Backwards}

MinuteBarsInput ==
  [tool : {"minute_bars"}, codes : CodeLists, fields : FieldLists,
   begin : Dates, end : AnyDate, options : Options]

TicksInput ==
  [tool : {"ticks"}, codes : CodeLists, fields : FieldLists,
   begin : Dates, end : AnyDate, options : Options]

RealtimeInput == [tool : {"realtime"}, codes : CodeLists, fields : FieldLists]

DatasetInput == [tool : {"dataset"}, table : Words, options : Options]

MacroInput ==
  [tool : {"macro"}, codes : CodeLists, begin : Dates, end : AnyDate, options : Options]

SectorSeriesInput ==
  {p \in [tool : {"sector_series"}, codes : CodeLists, field : Words,
          begin : Dates, end : AnyDate, options : Options] :
     <<p.begin, p.end>> \notin Backwards}

SectorSnapshotInput ==
  [tool : {"sector_snapshot"}, codes : CodeLists, field : Words, options : Options]

ScreenInput == [tool : {"screen"}, scheme : Words]

EstimatesInput ==
  [tool : {"estimates"}, codes : CodeLists, metrics : FieldLists, options : Options]

HoldersInput ==
  [tool : {"holders"}, codes : CodeLists, options : Options,
   type : {"top10_holder", "top10_tradable_holder", "fund_holder", "institutional", "unknown"}]

\* Its two dates are never read.
StockConnectInput ==
  [tool : {"northbound"}, options : Options]
  \cup [tool : {"stock_connect"}, codes : CodeLists, options : Options]

EventCalendarInput ==
  [tool : {"calendar"}, begin : AnyDate, end : AnyDate, options : Options,
   table : {"DividendHistory", "IPOEvent", "RestrictedStock", "EarningsReport"}]

TradingDaysInput ==
  [tool : {"trading_days"}, begin : Dates, end : AnyDate, days : DayOptions, period : Periods]

DateOffsetInput ==
  [tool : {"date_offset"}, offset : Offsets, begin : AnyDate, days : DayOptions, period : Periods]

DaysCountInput ==
  [tool : {"days_count"}, begin : Dates, end : AnyDate, days : DayOptions]

CompanyProfileInput == [tool : {"company_profile"}, codes : CodeLists]

PortfolioReportInput ==
  [tool : {"portfolio_report"}, product : Words, table : Words, options : Options]

PortfolioSnapshotInput ==
  [tool : {"portfolio_snapshot"}, portfolio : Words, fields : Words, options : Options]

PortfolioSeriesInput ==
  [tool : {"portfolio_series"}, portfolio : Words, fields : Words,
   begin : Dates, end : AnyDate, options : Options]

Inputs ==
  UNION {SnapshotInput, HistoricalInput, MinuteBarsInput,
         TicksInput, RealtimeInput, DatasetInput,
         MacroInput, SectorSeriesInput, SectorSnapshotInput,
         ScreenInput, EstimatesInput, HoldersInput,
         StockConnectInput, EventCalendarInput, TradingDaysInput,
         DateOffsetInput, DaysCountInput, CompanyProfileInput,
         PortfolioReportInput, PortfolioSnapshotInput, PortfolioSeriesInput}

-----------------------------------------------------------------------------
\* The handlers.

HandleSnapshot(p) ==
  Direct("wss", <<WindCodes(p.codes), ExpandFields(p.fields), p.options>>, "snapshot")

HandleHistorical(p) ==
  Direct("wsd", <<WindCodes(p.codes), ExpandFields(p.fields), p.begin, p.end, p.options>>,
         "historical")

HandleMinuteBars(p) ==
  Direct("wsi", <<WindCodes(p.codes), ExpandFields(p.fields), p.begin, p.end, p.options>>,
         "minute_bars")

HandleTicks(p) ==
  Direct("wst", <<WindCodes(p.codes), ExpandFields(p.fields), p.begin, p.end, p.options>>,
         "ticks")

HandleRealtime(p) == Direct("wsq", <<WindCodes(p.codes), ExpandFields(p.fields)>>, "realtime")

HandleDataset(p) == Direct("wset", <<p.table, p.options>>, "dataset")

HandleMacro(p) == Direct("edb", <<p.codes, p.begin, p.end, p.options>>, "macro")

HandleSectorSeries(p) ==
  Direct("wses", <<p.codes, p.field, p.begin, p.end, p.options>>, "sector")

HandleSectorSnapshot(p) == Direct("wsee", <<p.codes, p.field, p.options>>, "sector")

HandleScreen(p) == Direct("weqs", <<p.scheme>>, "screening")

HandleEstimates(p) ==
  LET args == <<WindCodes(p.codes), p.metrics, p.options>>
  IN  Lookup("estimates", args, "estimates", "wss", args)

TopHolders == <<"holder_name", "holder_quantity", "holder_pct", "holder_holdchange">>
Institutions ==
  <<"holder_institutionnum", "holder_institution_pct", "holder_fundnum", "holder_fund_pct">>

NoQuery == <<"none">>

HolderQuery(codes, type, options) ==
  CASE type = "top10_holder" -> <<"wss", <<codes, TopHolders, options>>>>
    [] type = "top10_tradable_holder" ->
         <<"wss", <<codes, TopHolders,
                    IF "holderType" \in ToSet(options) THEN options
                    ELSE <<"holderType", "tradable">> \o options>>>>
    [] type = "fund_holder" ->
         <<"wset", <<"FundPortfolio",
                     IF options = <<>> THEN <<"windcode">> \o codes ELSE options>>>>
    [] type = "institutional" -> <<"wss", <<codes, Institutions, options>>>>
    [] OTHER -> NoQuery

\* Mutant: the kind of holder is not part of the key.
HandleHoldersAnyType(p) ==
  [key |-> <<"holders", <<WindCodes(p.codes), p.options>>>>,
   category |-> "holders",
   query |-> HolderQuery(WindCodes(p.codes), p.type, p.options)]

HandleHolders(p) ==
  [key |-> <<"holders", <<WindCodes(p.codes), p.type, p.options>>>>,
   category |-> "holders",
   query |-> HolderQuery(WindCodes(p.codes), p.type, p.options)]

\* stock_connect without codes: the summary of a day.
HandleNorthbound(p, today) ==
  LET args == <<"StockConnect", IF p.options = <<>> THEN <<"date">> \o today ELSE p.options>>
  IN  Lookup("stock_connect_wset", args, "dataset", "wset", args)

HandleStockConnect(p) ==
  LET fields == <<"share_hk_hold", "ratio_hk_hold", "share_hk_hold_chg_1d", "share_hk_hold_chg_5d">>
      args == <<WindCodes(p.codes), fields, p.options>>
  IN  Lookup("stock_connect_wss", args, "snapshot", "wss", args)

\* Given options win over given dates.
HandleCalendar(p, today) ==
  LET options == IF p.options # <<>> THEN p.options
                 ELSE <<"startdate">> \o OrToday(p.begin, today)
                        \o <<"enddate">> \o OrToday(p.end, today)
      args == <<p.table, options>>
  IN  Lookup("calendar_wset", args, "dataset", "wset", args)

HandleTradingDays(p, today) ==
  Direct("tdays", <<p.begin, OrToday(p.end, today), p.days, p.period>>, "dates")

HandleDateOffset(p, today) ==
  Direct("tdaysoffset", <<p.offset, OrToday(p.begin, today), p.days, p.period>>, "dates")

HandleDaysCount(p, today) ==
  Direct("tdayscount", <<p.begin, OrToday(p.end, today), p.days>>, "dates")

\* Three queries about the codes, all fixed by the code: Serving has them.
HandleCompanyProfile(p) ==
  Lookup("company_profile", <<"company_profile", WindCodes(p.codes)>>, "snapshot",
         "profile", <<WindCodes(p.codes)>>)

HandlePortfolioReport(p) == Direct("wpf", <<p.product, p.table, p.options>>, "portfolio")

HandlePortfolioSnapshot(p) == Direct("wps", <<p.portfolio, p.fields, p.options>>, "portfolio")

HandlePortfolioSeries(p) ==
  Direct("wpd", <<p.portfolio, p.fields, p.begin, p.end, p.options>>, "portfolio")

Handle(p, today) ==
  CASE p.tool = "snapshot" -> HandleSnapshot(p)
    [] p.tool = "historical" -> HandleHistorical(p)
    [] p.tool = "minute_bars" -> HandleMinuteBars(p)
    [] p.tool = "ticks" -> HandleTicks(p)
    [] p.tool = "realtime" -> HandleRealtime(p)
    [] p.tool = "dataset" -> HandleDataset(p)
    [] p.tool = "macro" -> HandleMacro(p)
    [] p.tool = "sector_series" -> HandleSectorSeries(p)
    [] p.tool = "sector_snapshot" -> HandleSectorSnapshot(p)
    [] p.tool = "screen" -> HandleScreen(p)
    [] p.tool = "estimates" -> HandleEstimates(p)
    [] p.tool = "holders" -> HandleHolders(p)
    [] p.tool = "northbound" -> HandleNorthbound(p, today)
    [] p.tool = "stock_connect" -> HandleStockConnect(p)
    [] p.tool = "calendar" -> HandleCalendar(p, today)
    [] p.tool = "trading_days" -> HandleTradingDays(p, today)
    [] p.tool = "date_offset" -> HandleDateOffset(p, today)
    [] p.tool = "days_count" -> HandleDaysCount(p, today)
    [] p.tool = "company_profile" -> HandleCompanyProfile(p)
    [] p.tool = "portfolio_report" -> HandlePortfolioReport(p)
    [] p.tool = "portfolio_snapshot" -> HandlePortfolioSnapshot(p)
    [] p.tool = "portfolio_series" -> HandlePortfolioSeries(p)
=============================================================================
