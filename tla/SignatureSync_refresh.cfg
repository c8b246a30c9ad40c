\* One license on disk expires; no request fails.
SPECIFICATION FairSpec
CONSTANTS
  Tiers = {1, 2}
  Encrypted = {2}
  WithModel = {1, 2}
  Chained = {}
  MaxPublished = 2
  MaxTierChanges = 1
  Modes = {"full"}
  Mishaps = {"expiry"}
  MaxMishaps = 1
CHECK_DEADLOCK FALSE
PROPERTIES
  CacheConverges
