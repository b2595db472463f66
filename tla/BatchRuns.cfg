SPECIFICATION FairSpec
CONSTANTS
  Batches = {b1, b2}
  Processes = {p1, p2}
  NoProcess = NoProcess
  Counts = {1, 3}
  Faults = {"failure", "mark", "insert", "crash"}
  MaxFaults = 2
INVARIANTS
  OneRuns
  SentWhatWasAsked
PROPERTIES
  CountIsFinal
  BatchEnds
CHECK_DEADLOCK FALSE
