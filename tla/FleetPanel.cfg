SPECIFICATION FairSpec
CONSTANTS
  m1 = m1
  m2 = m2
  Machines = {m1, m2}
  Runners = {r1}
  Unreadable = Unreadable
  Settings <- MCSettings
  MaxStarts = 2
  MaxClicks = 2
  MaxFaults = 1
INVARIANTS
  FleetInv
  SettledPanelIsTrue
PROPERTY
  PanelCatchesUp
CHECK_DEADLOCK FALSE
