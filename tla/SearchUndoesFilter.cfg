SPECIFICATION Spec
CONSTANTS
  NoRequest = NoRequest
  Problems <- MCProblemIds
  Texts <- MCTexts
  Trimmed <- MCTrimmed
  Cut <- MCCut
  Finds <- MCFinds
  Difficulties = {"easy"}
  DifficultyOf <- MCDifficultyOf
  KindOf <- MCKindOf
  RatingOf <- MCRatingOf
  NullRank = 9
  PageSizes = {2}
  DefaultSize = 2
  FacetsSize = 2
  FirstAddresses <- MCAddresses
  MaxClicks = 3
  MaxFaults = 1
PROPERTY
  PendingSearchKeepsFilters
CHECK_DEADLOCK FALSE
