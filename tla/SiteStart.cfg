SPECIFICATION FairSpec
CONSTANTS
  s1 = s1
  s2 = s2
  t1 = t1
  t2 = t2
  benchmark = benchmark
  ania = ania
  Ania = Ania
  b1 = b1
  b2 = b2
  k1 = k1
  k2 = k2
  Directories = {1, 2}
  Slugs = {s1, s2}
  Texts = {t1, t2}
  None = None
  Entrypoint = container
  Seeders = {container, byHand}
  MaxTests = 2
  MaxProblems = 4
  Names = {benchmark, ania, Ania}
  Lower <- MCLower
  Benchmark = benchmark
  Browsers = {b1, b2}
  Connections <- MCConnections
  Secrets = {k1, k2}
  Unset = Unset
  MaxAccounts = 2
  Shipments <- MCShipments
  Scenarios <- MCScenarios
INVARIANTS
  SiteTypeOK
  WholeProblems
  EachPackageOnce
  OnePersonOneAccount
  ServesWhatItShips
PROPERTIES
  LeftAsIs
  LogInAlwaysWorks
  GreetedByName
  SiteComesUp
CHECK_DEADLOCK FALSE
