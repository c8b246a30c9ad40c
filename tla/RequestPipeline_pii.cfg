\* A store that was under way when a push turned PII detection on.
SPECIFICATION Spec
CONSTANTS
  small = small
  large = large
  summarize = summarize
  draft = draft
  None = None
  Requests = {r1}
  Models = {small, large}
  Tasks = {summarize, draft}
  Prompts = {"chat"}
  Empty = {}
  Opaque = {}
  Capable = {"chat"}
  Simple = {"chat"}
  Cacheable = {"chat"}
  SystemPrompts = {}
  Inputs <- CacheInputs
  RoutingConfigs = {}
  Pushable = {"optIn", "pii", "respScan"}
  InitialConfigs <- HitsBoot
  MaxPushes = 1
PROPERTIES
  SensitivePolicyStopsCaching
