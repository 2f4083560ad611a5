CONSTANTS
  x = x
  NaN = NaN
  None = None
  Values <- MCValues
  MaxAxis = 3
  MaxCells = 12
  Upper <- MCUpper
  Markets <- MCMarkets
  SuffixOf <- MCSuffixOf
  UsExchange <- MCUsExchange
  IndexMap <- MCIndexMap
  CommodityMap <- MCCommodityMap
  CurrencyMap <- MCCurrencyMap
  CodeLists <- MCCodeLists
  DateTexts <- MCDateTexts
  PartValue <- MCPartValue
  YearTexts = {"2023", "2024"}
  MonthTexts = {"01", "02", "12", "30"}
  Counts = {"1", "5"}
  Units = {"D", "d", "Y", "y"}
  ArithmeticUnits = {"D", "d", "Y"}
  SpecialMacros = {"ED", "LYR"}
  UpperPart <- MCUpperPart
  Collates <- MCCollates
SPECIFICATION TranslationSpec
INVARIANTS
  TypeOK
  ValuesInPlace
  RefusesOnlyAmbiguous
  SameListing
  RangesRunForward
CHECK_DEADLOCK FALSE
