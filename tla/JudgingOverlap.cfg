SPECIFICATION Spec
CONSTANTS
  Submissions = {1}
  Machines = {m1}
  Runners = {r1, r2}
  ClaimIds = {1, 2, 3}
  NoMachine = NoMachine
  Judgements = {"judged"}
  AttemptLimits = {2}
  Capacity <- MCCapacity
  CanJudge <- MCCanJudge
  DispatchBatch = 50
  CollectBatch = 100
  Disturbances = {"lease"}
  MaxDisturbances = 1
SYMMETRY MCSymmetry
INVARIANTS
  FenceIsExact
  JudgedTotalsAgree
PROPERTIES
  FinalIsForever
  VerdictFromHolder
