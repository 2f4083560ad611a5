------------------------------- MODULE MCTools -------------------------------
(***************************************************************************)
(* A small instance of Tools: one share under its two names, a field set   *)
(* that overlaps a field given in capitals, three days, screens of three   *)
(* rows with numbers, texts and missing values, filtered and ranked by     *)
(* fields and by codes.                                                    *)
(***************************************************************************)
EXTENDS Tools

MCCodeLists == {<<"AAPL US Equity">>, <<"AAPL.O">>}
MCToWind == [c \in {"AAPL US Equity", "AAPL.O", "600030.SH", "000001.SZ"} |->
               IF c = "AAPL US Equity" THEN "AAPL.O" ELSE c]
MCLower == [f \in {"PRICE", "price", "open", "close", "CLOSE", "pe_ttm", "code", "CODE"} |->
              CASE f = "PRICE" -> "price"
                [] f = "CLOSE" -> "close"
                [] f = "CODE" -> "code"
                [] OTHER -> f]
MCFieldSets == [s \in {"price"} |-> <<"open", "close">>]
MCFieldLists == {<<"close">>, <<"CLOSE", "PRICE", "price">>}
MCOptions == {<<>>, <<"holderType", "all">>}
MCDays == <<<<"day 1">>, <<"day 2">>, <<"day 3">>>>
MCDates == {<<"day 2">>}
MCBackwards == {}
MCWords == {"Performance"}
MCDayOptions == {"Trading SSE"}
MCPeriods == {"D"}
MCOffsets == {-5}

MCFound == {<<>>, <<"600030.SH", "000001.SZ", "AAPL.O">>}
\* The texts in their order: "000001.SZ", "1", "600030.SH", "AAPL.O".
MCCodeText == [c \in {"000001.SZ", "600030.SH", "AAPL.O"} |->
                 <<"text", CASE c = "000001.SZ" -> 1 [] c = "600030.SH" -> 3 [] c = "AAPL.O" -> 4>>]
One == <<"text", 2>>
MCCells == {Missing, <<"number", -1>>, <<"number", 0>>, <<"number", 2>>, One}
NotNull == [field |-> "close", op |-> "notnull", value |-> Missing]
IsNull == [field |-> "pe_ttm", op |-> "isnull", value |-> Missing]
Gte == [field |-> "CLOSE", op |-> "gte", value |-> <<"number", 0>>]
Neq == [field |-> "close", op |-> "neq", value |-> <<"number", 2>>]
In == [field |-> "close", op |-> "in",
       value |-> <<<<"number", 0>>, <<"number", 2>>, One>>]
Between == [field |-> "close", op |-> "between", value |-> <<<<"number", -1>>, <<"number", 1>>>>]
HasOne == [field |-> "close", op |-> "contains", value |-> One]
\* As tests/test_filters.py filters on the code.
InCodes == [field |-> "code", op |-> "in",
            value |-> <<MCCodeText["600030.SH"], MCCodeText["AAPL.O"]>>]
CodeHasOne == [field |-> "CODE", op |-> "contains", value |-> One]
MCContained == {<<One, v>> : v \in {One, <<"number", -1>>, MCCodeText["000001.SZ"]}}
MCFilterLists ==
  {<<>>, <<NotNull>>, <<IsNull, Gte>>, <<Neq, In>>, <<Between>>, <<HasOne, Neq>>,
   <<InCodes, NotNull>>, <<CodeHasOne>>}
MCScreens ==
  [universe : {[kind |-> "index", codes |-> <<>>]}, fields : {<<"CLOSE">>},
   filters : MCFilterLists, rankBy : {"", "CLOSE", "pe_ttm", "CODE"},
   descending : BOOLEAN, topN : {-1, 0, 2}]
  \cup [universe : {[kind |-> "codes", codes |-> <<"AAPL US Equity", "600030.SH">>]},
        fields : {<<"pe_ttm", "price", "CLOSE">>}, filters : {<<IsNull, Gte>>}, rankBy : {"pe_ttm"},
        descending : {TRUE}, topN : {1}]
=============================================================================
