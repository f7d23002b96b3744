\* Two workers, three io_us of which two overlap.
CONSTANTS
  MAX_WORKERS = 2
  IoU = {"u1", "u2", "u3"}
  Overlap = {{"u1", "u2"}}
  INIT_FAILS = TRUE
  MAX_ENQ = 3
  MAX_FLUSH = 1
SPECIFICATION FairSpec
INVARIANTS OneWorkerEach NoOverlapInFlight NoWakeupLost
PROPERTIES DrainedAtReturn CallsReturn
CHECK_DEADLOCK FALSE
