------------------------------ MODULE Translation ------------------------------
(***************************************************************************)
(* Between a caller's words and Wind's: the codes and the dates of a call  *)
(* on their way in (Converter, Validators), the table that comes back on   *)
(* its way out (Parser).  An input model refuses a call before anything is *)
(* sent; a handler converts its codes before it asks.                      *)
(*                                                                         *)
(* What is said and what comes back do not depend on each other: the words *)
(* are enumerated with one small table, the tables with no words.          *)
(***************************************************************************)
EXTENDS Parser, Converter, Validators

CONSTANTS
  CodeLists,    \* the lists of codes a caller may name
  DateTexts,    \* the dates a caller may write
  PartValue     \* the number a part of a date stands for

\* A year has four digits and a month or a day two, so their texts are ordered as
\* their numbers are.
ASSUME CalendarAssumption ==
  /\ \A y \in YearTexts : PartValue[y] \in Nat
  /\ \A m \in MonthTexts : PartValue[m] \in 0..99
  /\ \A parts \in {YearTexts, MonthTexts} : \A p, q \in parts :
       /\ Collates[p] > Collates[q] <=> PartValue[p] > PartValue[q]
       /\ PartValue[p] = PartValue[q] => p = q

ASSUME CodesAssumption ==
  \A codes \in CodeLists : \A i \in DOMAIN codes :
    codes[i].ticker \in Seq(DOMAIN Upper) /\ codes[i].place \in DOMAIN Upper

\* What a caller may write, tagged by what it is; and nothing at all.
Words == ({"codes"} \X CodeLists) \cup ({"range"} \X DateTexts \X DateTexts)
Nothing == <<"nothing">>

VARIABLES
  said,         \* codes, or a range of dates, as the caller wrote them
  sent          \* the same for Wind, or that the call was refused

translationVars == <<query, table, data, phase, parsed, said, sent>>

SmallTable == query.api = "wss" /\ table = <<<<<<NaN>>>>>>

TranslationInit ==
  /\ Init
  /\ \/ said = Nothing
     \/ SmallTable /\ said \in Words
  /\ sent = Nothing

Translate(words) ==
  /\ sent = Nothing
  /\ sent' = words
  /\ UNCHANGED <<query, table, data, phase, parsed, said>>

ConvertCodes == said[1] = "codes" /\ Translate(<<"codes", EnsureWindCodes(said[2])>>)

AcceptRange ==
  said[1] = "range" /\ RangeAccepted(said[2], said[3]) /\ Translate(said)

RefuseRange ==
  said[1] = "range" /\ ~RangeAccepted(said[2], said[3]) /\ Translate(<<"refused">>)

AskAndParse ==
  /\ said = Nothing \/ sent \notin {Nothing, <<"refused">>}
  /\ Next
  /\ UNCHANGED <<said, sent>>

TranslationNext == ConvertCodes \/ AcceptRange \/ RefuseRange \/ AskAndParse

TranslationSpec == TranslationInit /\ [][TranslationNext]_translationVars
-----------------------------------------------------------------------------
DigitTexts == {"0", "1", "2", "3", "4", "5", "6", "7", "8", "9"}
ASSUME DigitsAssumption == \A d \in DigitTexts : d \in DOMAIN Upper /\ Upper[d] = d

DigitValue ==
  [d \in DigitTexts |->
     CASE d = "0" -> 0 [] d = "1" -> 1 [] d = "2" -> 2 [] d = "3" -> 3 [] d = "4" -> 4
       [] d = "5" -> 5 [] d = "6" -> 6 [] d = "7" -> 7 [] d = "8" -> 8 [] d = "9" -> 9]

\* The number that digits write.
Number(digits) ==
  LET upTo[i \in 0..Len(digits)] ==
        IF i = 0 THEN 0 ELSE 10 * upTo[i - 1] + DigitValue[digits[i]]
  IN  upTo[Len(digits)]

\* The exchange of a mainland number: the A and B shares by their hundred thousands
\* (_convert_china_equity), anything else Shanghai.
Exchange(n) == CASE n \div 100000 \in {0, 2, 3} -> "SZ"
                 [] n \div 100000 \in {4, 8} -> "BJ"
                 [] OTHER -> "SH"

\* A share of a market that Bloomberg names by its number.
Numbered(code, market) ==
  code.form = "Equity" /\ Upper[code.place] = market /\ code.ticker \in Seq(DigitTexts)

Mainland(code) == code.form = "Equity" /\ Upper[code.place] = "CH"

\* Wind's code of a listing: its number in a fixed width, and its exchange.
IsListing(code, n, width, exchange) ==
  /\ code = Wind(code.ticker, exchange)
  /\ code.ticker \in [1..width -> DigitTexts]
  /\ Number(code.ticker) = n

(* The code sent for a Hong Kong or mainland share names the listing of that
   number, however many zeros and capitals its name was written with, so that one
   share is one key of the cache; and whatever was sent is a form that conversion
   leaves alone: sent again it would not change, as when a handler gets a code from
   another tool's answer.  Such a form need not be Wind's: EURUSD is left as it is,
   where the repository's README has EURUSD.FX.  A number has at most five digits in Hong Kong, not counting zeros
   before them, and at most six on the mainland, where names are numbers. *)
SameListing ==
  sent[1] = "codes" =>
    \A i \in DOMAIN said[2] :
      LET code == said[2][i]
          wind == sent[2][i]
          n == Number(code.ticker)
      IN  /\ (Numbered(code, "HK") /\ n < 100000) => IsListing(wind, n, 5, "HK")
          /\ (Numbered(code, "CH") /\ Len(code.ticker) <= 6) => IsListing(wind, n, 6, Exchange(n))
          /\ (Mainland(code) => Numbered(code, "CH")) => ConvertSingle(wind) = wind

Day(date) == 10000 * PartValue[date[1]] + 100 * PartValue[date[2]] + PartValue[date[3]]

(* A range between two written-out days that validate_date_range is asked about,
   as those of HistoricalInput and SectorSeriesInput are, reaches Wind if and only
   if it runs forward in the calendar, whichever of the four ways of dashes each of
   its ends is written in.  The other tools with a range (minute bars, ticks, macro,
   trading days, days count, portfolio series) send it unchecked, backward or not. *)
RangesRunForward ==
  (said[1] = "range" /\ sent # Nothing) =>
    \A begin, end \in Dates :
      (said[2] \in Written(begin) /\ said[3] \in Written(end)) =>
        (sent = said <=> Day(begin) <= Day(end))
=============================================================================
