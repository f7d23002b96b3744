\* Two workers that are all started and initialised.
CONSTANTS
  MAX_WORKERS = 2
  IoU = {"u1"}
  Overlap = {}
  INIT_FAILS = FALSE
  MAX_ENQ = 1
  MAX_FLUSH = 0
SPECIFICATION FairSpec
PROPERTY InitReturns
CHECK_DEADLOCK FALSE
