------------------------------ MODULE Validators ------------------------------
(***************************************************************************)
(* core/validators.py: which dates and ranges of dates are let through to  *)
(* Wind.  A text is the sequence of its parts: the digits of a year, of a  *)
(* month and of a day, dashes, macro names, counts and units.              *)
(***************************************************************************)
EXTENDS Integers, Sequences

CONSTANTS
  YearTexts, MonthTexts,   \* parts of four and of two digits
  Counts,                  \* other parts of digits
  Units,                   \* D, TD, W, ... in any case
  ArithmeticUnits,         \* of these, the ones _MACRO_ARITHMETIC_RE lists
  SpecialMacros,           \* ED, LYR, ... in capitals
  UpperPart,               \* str.upper() of a part
  Collates                 \* the place of a part in the order of texts

ASSUME UnitsAssumption == ArithmeticUnits \subseteq Units
ASSUME DashAssumption == "-" \notin MonthTexts

Part(text, i) == IF i \in DOMAIN text THEN text[i] ELSE "end"

\* A day, and the ways to write it: a dash may stand after the year and after the
\* month (_DATE_ABSOLUTE_RE).
Dates == YearTexts \X MonthTexts \X MonthTexts
Written(date) ==
  {<<date[1], date[2], date[3]>>,      <<date[1], "-", date[2], date[3]>>,
   <<date[1], date[2], "-", date[3]>>, <<date[1], "-", date[2], "-", date[3]>>}

IsAbsolute(text) == \E date \in Dates : text \in Written(date)

\* An absolute date without its dashes.
Undashed(text) == CHOOSE date \in Dates : text \in Written(date)

\* _DATE_MACRO_RE
IsOffset(text) ==
  \E sign \in {<<>>, <<"-">>}, n \in Counts, u \in Units : text = sign \o <<n, u>>

IsSpecial(text) == Len(text) = 1 /\ UpperPart[text[1]] \in SpecialMacros

\* _MACRO_ARITHMETIC_RE, which no flag makes blind to case
IsArithmetic(text) ==
  \E m \in SpecialMacros, sign \in {"+", "-"}, n \in Counts, u \in ArithmeticUnits :
    text = <<m, sign, n, u>>

IsValidDate(text) ==
  text = <<>> \/ IsAbsolute(text) \/ IsOffset(text) \/ IsSpecial(text) \/ IsArithmetic(text)

\* b > e, for texts
After(b, e) ==
  \E i \in DOMAIN b :
    /\ \A j \in 1..(i - 1) : Part(e, j) = b[j]
    /\ i \in DOMAIN e => Collates[b[i]] > Collates[e[i]]

\* Mutant: the texts are compared as they are.
RangeAcceptedDashed(begin, end) ==
  /\ IsValidDate(begin) /\ IsValidDate(end)
  /\ ~(IsAbsolute(begin) /\ IsAbsolute(end) /\ After(begin, end))

\* validate_date_range raises nothing
RangeAccepted(begin, end) ==
  /\ IsValidDate(begin) /\ IsValidDate(end)
  /\ ~(IsAbsolute(begin) /\ IsAbsolute(end) /\ After(Undashed(begin), Undashed(end)))
=============================================================================
