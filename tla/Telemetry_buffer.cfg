\* Four events through a buffer of two: outages, rejections, requeues past the
\* cap, a revoked key and a shutdown, in every interleaving.
SPECIFICATION FairSpec
CONSTANTS
  Events = {d1, d2, u1, u2}
  UsageEvents = {u1, u2}
  Threshold = 2
  Batch = 1
  BufferMax = 2
  Outages = TRUE
CHECK_DEADLOCK FALSE
INVARIANTS
  TypeOK
  SingleFlight
  EveryEventInOnePlace
  BufferCapped
  PerKindOrder
PROPERTIES
  ImplementsDelivery
  EventuallySettled
