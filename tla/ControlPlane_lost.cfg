\* A policy fetch fails once.
SPECIFICATION FairSpec
CONSTANTS
  Policies = {1, 2}
  Sections = {"routing", "scan_request"}
  Malformed <- WellFormed
  MaxSwitches = 1
  SwitchBack = FALSE
  FetchErrors = {"http"}
PROPERTIES
  PolicyConverges
