\* Every response of up to three chunks in every mode, with two reloads or toggles
\* anywhere; the buffer fills within one chunk, after two, after three or never.
SPECIFICATION Spec
CONSTANTS
  Characters = {"a", "b"}
  Responses <- MCResponses
  RuleSets <- MCRuleSets
  Modes = {"passthrough", "buffered", "full"}
  BufferSize = 2
  MaxPushes = 2
CHECK_DEADLOCK FALSE
INVARIANTS
  TypeOK
  ReleasedInOrder
  VerdictOfWhole
PROPERTIES
  HeldUntilScanned
