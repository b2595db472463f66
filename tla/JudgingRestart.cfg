SPECIFICATION FairSpec
CONSTANTS
  Submissions = {1}
  Machines = {m1}
  Runners = {r1}
  ClaimIds = {1, 2, 3, 4}
  NoMachine = NoMachine
  Judgements = {"judged"}
  AttemptLimits = {1, 2}
  Capacity <- MCCapacity
  CanJudge <- MCCanJudge
  DispatchBatch = 50
  CollectBatch = 100
  Disturbances = {"timeout", "outage", "lease", "failure", "runner", "crash", "shutdown", "expiry", "disable"}
  MaxDisturbances = 2
INVARIANTS
  AttemptsWithinLimit
  JudgingInv
PROPERTIES
  ImplementsLifecycle
  EventuallyFinal
