SPECIFICATION Spec
CONSTANTS
  Submissions = {1, 2}
  Machines = {m1}
  Runners = {r1}
  ClaimIds = {1, 2, 3}
  NoMachine = NoMachine
  Judgements = {"judged"}
  AttemptLimits = {2}
  Capacity <- MCCapacity
  CanJudge <- MCCanJudge
  DispatchBatch = 50
  CollectBatch = 100
  Disturbances = {"timeout", "outage", "lease", "failure", "runner", "crash", "shutdown", "expiry", "disable"}
  MaxDisturbances = 1
INVARIANT
  HeldWithinCapacity
