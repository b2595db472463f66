SPECIFICATION Spec
CONSTANTS
  Batches = {b1, b2}
  Processes = {p1}
  NoProcess = NoProcess
  Counts = {1, 3}
  Faults = {}
  MaxFaults = 0
PROPERTY
  StopIsKept
CHECK_DEADLOCK FALSE
