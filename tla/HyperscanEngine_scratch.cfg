\* A scan and a reload.
SPECIFICATION Spec
CONSTANTS
  None = None
  Threads = {t1}
  MaxVersions = 2
  Bare = {}
  ScratchPins = FALSE
INVARIANTS
  SnapshotsAreScanned
