------------------------------- MODULE Converter -------------------------------
(***************************************************************************)
(* core/converter.py: a security's name, as Bloomberg or as Wind writes    *)
(* it, in Wind's form.  A code is taken apart where the regular            *)
(* expressions take it apart: a ticker, a place (a market or the suffix    *)
(* after the dot), and its form (the yellow key, "wind" for                *)
(* ticker.suffix, "bare" for anything else).  A ticker is the sequence of  *)
(* its digits, or holds one name; the spaces around it are gone (strip).   *)
(***************************************************************************)
EXTENDS Integers, Sequences, SequencesExt

CONSTANTS
  Upper,         \* str.upper(): of a digit, a name, a market or a suffix
  Markets,       \* the markets BBG_FORMAT_RE knows
  SuffixOf,      \* _convert_equity: markets that only change their name
  UsExchange,    \* the static maps
  IndexMap,
  CommodityMap,
  CurrencyMap

MainlandSuffixes == {"SH", "SZ", "BJ"}

\* A capital is its own capital, and so is what has none.  No other market is written
\* as the mainland's three are.
ASSUME UpperAssumption ==
  /\ \A t \in DOMAIN Upper : Upper[t] \in DOMAIN Upper /\ Upper[Upper[t]] = Upper[t]
  /\ \A s \in MainlandSuffixes : s \in DOMAIN Upper /\ Upper[s] = s
ASSUME MarketsAssumption ==
  /\ {"CH", "HK"} \subseteq Markets
  /\ DOMAIN SuffixOf \subseteq Markets \ {"CH", "HK", "US"}
  /\ \A s \in Markets \cup Range(SuffixOf) \cup Range(UsExchange) \cup {"O", "GI"} :
       Upper[s] \notin MainlandSuffixes

Wind(ticker, suffix) == [form |-> "wind", ticker |-> ticker, place |-> suffix]
Bare(ticker) == [form |-> "bare", ticker |-> ticker, place |-> ""]

UpperTicker(ticker) == [i \in DOMAIN ticker |-> Upper[ticker[i]]]

\* str.zfill and str.lstrip("0").
Padded(ticker, width) == [i \in 1..(width - Len(ticker)) |-> "0"] \o ticker
Stripped(ticker) == 
  IF \A i \in DOMAIN ticker : ticker[i] = "0" THEN <<>>
  ELSE LET first == CHOOSE i \in DOMAIN ticker :
                      ticker[i] # "0" /\ \A j \in 1..(i - 1) : ticker[j] = "0"
       IN  SubSeq(ticker, first, Len(ticker))

\* _convert_china_equity, by the first digit; anything else is taken for Shanghai.
Board(first) ==
  CASE first \in {"0", "2", "3"} -> "SZ"
    [] first \in {"4", "8"} -> "BJ"
    [] OTHER -> "SH"

\* Mutant: the ticker's zeros are not restored.
ConvertChinaUnpadded(ticker) == Wind(ticker, Board(ticker[1]))

ConvertChina(ticker) == Wind(Padded(ticker, 6), Board(Padded(ticker, 6)[1]))

ConvertHk(ticker) ==
  LET number == IF Stripped(ticker) = <<>> THEN <<"0">> ELSE Stripped(ticker)
  IN  Wind(Padded(number, 5), "HK")

ConvertUs(ticker) ==
  Wind(UpperTicker(ticker),
       IF UpperTicker(ticker) \in DOMAIN UsExchange THEN UsExchange[UpperTicker(ticker)] ELSE "O")

ConvertEquity(ticker, market) ==
  CASE market = "CH" -> ConvertChina(ticker)
    [] market = "HK" -> ConvertHk(ticker)
    [] market = "US" -> ConvertUs(ticker)
    [] market \in DOMAIN SuffixOf -> Wind(ticker, SuffixOf[market])
    [] OTHER -> Wind(ticker, market)

ConvertIndex(ticker) ==
  IF UpperTicker(ticker) \in DOMAIN IndexMap THEN IndexMap[UpperTicker(ticker)]
  ELSE Wind(UpperTicker(ticker), "GI")

\* _convert_commodity, _convert_currency: what their map lacks goes as it came.
ByMap(map, ticker) ==
  IF UpperTicker(ticker) \in DOMAIN map THEN map[UpperTicker(ticker)] ELSE Bare(ticker)

\* What stands before the yellow key: for all but equities a market is part of it.
BeforeKey(code) == IF code.place = "" THEN code.ticker ELSE Append(code.ticker, code.place)

ConvertSingle(code) ==
  CASE code.form = "wind" /\ Upper[code.place] \in MainlandSuffixes ->
         Wind(UpperTicker(code.ticker), Upper[code.place])
    [] code.form = "Equity" /\ Upper[code.place] \in Markets ->
         ConvertEquity(code.ticker, Upper[code.place])
    [] code.form = "Index" -> ConvertIndex(BeforeKey(code))
    [] code.form = "Comdty" -> ByMap(CommodityMap, BeforeKey(code))
    [] code.form = "Curncy" -> ByMap(CurrencyMap, BeforeKey(code))
    [] OTHER -> code

\* The maps hold codes in Wind's own form, which is left alone.
ASSUME MapsAssumption ==
  \A map \in {IndexMap, CommodityMap, CurrencyMap} :
    \A name \in DOMAIN map : ConvertSingle(map[name]) = map[name]

\* ensure_wind_codes: every code by itself, in order.
EnsureWindCodes(codes) == [i \in DOMAIN codes |-> ConvertSingle(codes[i])]
=============================================================================
