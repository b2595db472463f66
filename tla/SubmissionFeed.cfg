SPECIFICATION Spec
CONSTANTS
  People = {1, 2}
  Problems = {"p", "q"}
  Visitor = 1
  Stamps = {1, 2, 3}
  PageSize = 1
  Limit = 2
INVARIANTS
  FeedInv
  WalkMissesNothing
  RankingsAgree
  CountedAreRanked
CHECK_DEADLOCK FALSE
