\* Requests one after another through the response cache, while Redis may fail,
\* entries expire and the cache and response-scan settings are pushed.
SPECIFICATION FairSpec
CONSTANTS
  small = small
  large = large
  summarize = summarize
  draft = draft
  None = None
  Requests = {r1}
  Models = {small, large}
  Tasks = {summarize, draft}
  Prompts = {"chat"}
  Empty = {}
  Opaque = {}
  Capable = {"chat"}
  Simple = {"chat"}
  Cacheable = {"chat"}
  SystemPrompts = {}
  Inputs <- CacheInputs
  RoutingConfigs = {}
  Pushable = {"optIn", "pii", "respScan"}
  InitialConfigs <- HitsBoot
  MaxPushes = 1
INVARIANTS
  PipelineInv
  ServedResponsesWereScanned
  ProvenanceTruthful
  AnswersMatchTheirRequests
PROPERTIES
  EveryRequestAnswered
