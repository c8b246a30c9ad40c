\* Aliases, downgrades, retries and rescans, with pushes of the scan settings
\* and of the routing table while requests are in flight.
SPECIFICATION Spec
CONSTANTS
  small = small
  large = large
  summarize = summarize
  draft = draft
  None = None
  Requests = {r1}
  Models = {small, large}
  Tasks = {summarize, draft}
  Prompts <- RoutingPrompts
  Empty = {"get"}
  Opaque = {"upload", "get"}
  Capable = {"chat"}
  Simple = {"chat"}
  Cacheable = {}
  SystemPrompts = {"chat"}
  Inputs <- RoutingInputs
  RoutingConfigs <- RoutingSettings
  Pushable = {"scan", "closed", "promptCache"}
  InitialConfigs <- RoutingBoot
  MaxPushes = 2
INVARIANTS
  TypeOK
  ForwardedBytesWereScanned
  ProvenanceTruthful
  EachModelTriedOnce
