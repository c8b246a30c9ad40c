\* Refusals, outages, failed fetches, rejected parts and policy changes, back too,
\* at every await.
SPECIFICATION FairSpec
CONSTANTS
  Policies = {1, 2, 3, 4}
  Sections = {"routing", "scan_request"}
  Malformed <- RejectedParts
  MaxSwitches = 3
  SwitchBack = TRUE
  FetchErrors = {"http", "reply"}
INVARIANTS
  TypeOK
PROPERTIES
  PolicyConvergesUnlessMissed
  SilentAfterRefusal
  KeepsBeating
