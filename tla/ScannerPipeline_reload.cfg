\* Calls under sync passes, model loads that may fail, and a push.
SPECIFICATION Spec
CONSTANTS
  None = None
  pro = pro
  enterprise = enterprise
  Threads = {t1}
  MaxVersions = 3
  Size = 2
  Invalid <- SecondBroken
  Bare = {2}
  ScratchPins = FALSE
  Engines = {"hyperscan", "re2"}
  Models <- Bundled
  Rank <- BundledRank
  Categories = {"jailbreak", "safe"}
  Harmless = {"safe"}
  Requests <- OurRequests
  Policies <- OurPolicies
  InitialConfigs <- Boot
  Thresholds = {60}
  BootModels = {None, pro}
  MaxPushes = 1
INVARIANTS
  TypeOK
  OneSetPerScan
  UndisturbedScansAreWhole
  CalmCallsAreExact
  HighestTierRuns
  SensitivityIsMonotone
