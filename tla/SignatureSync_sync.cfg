\* Publications, one of them chained, a tier change, failures, crashes and expiries
\* at every await; any two steps that go wrong, with defective models and signatures.
SPECIFICATION FairSpec
CONSTANTS
  Tiers = {1, 2, 3}
  Encrypted = {3}
  WithModel = {1, 3}
  Chained = {3}
  MaxPublished = 3
  MaxTierChanges = 1
  Modes = {"full", "encrypted_only"}
  Mishaps = {"failure", "crash", "expiry", "defect"}
  MaxMishaps = 2
CHECK_DEADLOCK FALSE
INVARIANTS
  TypeOK
  ModelMatchesSignatures
PROPERTIES
  SignaturesConvergeUnlessDisturbed
  CacheConvergesUnlessLost
  NeverUnprotected
