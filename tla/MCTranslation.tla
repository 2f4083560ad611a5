---------------------------- MODULE MCTranslation ----------------------------
(***************************************************************************)
(* A small instance of Translation: the boards of the mainland with and    *)
(* without their zeros, Hong Kong, mapped and unmapped names, pairs of     *)
(* them; the turns of a month and of a year in every way of dashes, macros *)
(* of every kind; and the tables of up to three fields, codes and times.   *)
(***************************************************************************)
EXTENDS Translation

CONSTANTS x

MCValues == {x, NaN}

Same == [c \in DigitTexts \cup {"AAPL", "ZZ", "CSI300", "GC1", "EUR", "EURUSD", "HSI", "",
                                "CH", "HK", "US", "JP", "SW", "JT", "T", "O", "GI", "HI", "FX", "CMX",
                                "SH", "SZ", "BJ"} |-> c]
MCUpper == Same @@ [c \in {"aapl"} |-> "AAPL"] @@ [c \in {"eur"} |-> "EUR"]
                @@ [c \in {"hk"} |-> "HK"] @@ [c \in {"sh"} |-> "SH"] @@ [c \in {"o"} |-> "O"]

MCMarkets == {"US", "CH", "HK", "JP", "SW"}
MCSuffixOf == [m \in {"JP"} |-> "T"]
MCUsExchange == [t \in {<<"AAPL">>} |-> "O"]
MCIndexMap == [t \in {<<"CSI300">>, <<"HSI">>} |->
                 IF t = <<"HSI">> THEN Wind(<<"HSI">>, "HI")
                 ELSE Wind(<<"0", "0", "0", "3", "0", "0">>, "SH")]
MCCommodityMap == [t \in {<<"GC1">>} |-> Wind(<<"GC">>, "CMX")]
MCCurrencyMap == [t \in {<<"EUR">>} |-> Wind(<<"EURUSD">>, "FX")]

Code(form, ticker, place) == [form |-> form, ticker |-> ticker, place |-> place]

\* Every first digit of a mainland number, and numbers short of their zeros.
MainlandTickers ==
  {<<d, "0", "0", "0", "3", "0">> : d \in DigitTexts}
  \cup {<<"1">>, <<"3", "0", "0">>, <<"0", "7", "0", "0">>, <<"6", "8", "8">>}
HongKongTickers == {<<"0">>, <<"7", "0", "0">>, <<"0", "7", "0", "0">>,
                    <<"0", "0", "0", "7", "0", "0">>, <<"9", "9", "8", "8">>}

MCCodes ==
  {Code("Equity", t, "CH") : t \in MainlandTickers}
  \cup {Code("Equity", t, m) : t \in HongKongTickers, m \in {"HK", "hk"}}
  \cup {Code("Equity", t, "US") : t \in {<<"AAPL">>, <<"aapl">>, <<"ZZ">>}}
  \cup {Code("Equity", <<"7", "2", "0", "3">>, m) : m \in {"JP", "SW", "JT"}}
  \cup {Code("Index", <<"HSI">>, m) : m \in {"", "HK"}}
  \cup {Code("Index", t, "") : t \in {<<"CSI300">>, <<"ZZ">>}}
  \cup {Code("Comdty", t, "") : t \in {<<"GC1">>, <<"ZZ">>}}
  \cup {Code("Curncy", t, "") : t \in {<<"eur">>, <<"EURUSD">>}}
  \cup {Code("wind", <<"6", "0", "0", "0", "3", "0">>, s) : s \in {"SH", "sh"}}
  \cup {Code("wind", <<"aapl">>, "o"), Bare(<<"ZZ">>)}

MCCodeLists == {<<c>> : c \in MCCodes} \cup (MCCodes \X MCCodes)

MCPartValue == [n \in {"2023", "2024"} |-> IF n = "2023" THEN 2023 ELSE 2024]
           @@ [n \in {"01", "02", "12", "30"} |->
                 CASE n = "01" -> 1 [] n = "02" -> 2 [] n = "12" -> 12 [] OTHER -> 30]

MCCollates == [p \in {"-"} |-> 0] @@ [p \in DOMAIN MCPartValue |-> MCPartValue[p] + 1]

MCUpperPart == [p \in DOMAIN MCPartValue \cup {"-", "+", "1", "5", "ED", "LYR", "D", "d", "Y", "y"} |-> p]
               @@ [p \in {"ed"} |-> "ED"]

Days == {<<"2023", "12", "30">>, <<"2024", "01", "12">>, <<"2024", "02", "01">>,
         <<"2024", "12", "01">>}

MCDateTexts ==
  UNION {Written(d) : d \in Days}
  \cup {<<>>, <<"-", "5", "d">>, <<"1", "Y">>, <<"ed">>, <<"ED", "-", "1", "d">>,
        <<"ed", "-", "1", "d">>, <<"LYR", "-", "1", "y">>, <<"2024">>, <<"2024", "01", "-">>}
=============================================================================
