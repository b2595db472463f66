SPECIFICATION FairSpec
CONSTANTS
  Languages = {"python", "cpp"}
  Accepted = {"python"}
  Files <- MCFiles
  LanguageOf <- MCLanguageOf
  NoLanguage = NoLanguage
  Typed = {"typed"}
  MaxRows = 2
  MaxClicks = 4
  MaxFaults = 1
INVARIANTS
  PageInv
  FinalShowsTests
PROPERTY
  PagesCatchUp
CHECK_DEADLOCK FALSE
