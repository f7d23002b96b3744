SPECIFICATION FairSpec
CONSTANTS
  VERIFY_ASYNC = 2
  IoU = {"u1", "u2"}
  BLOCKS = 2
  CREATE_FAILS = FALSE
INVARIANTS
  ReadBackIsChecked
CHECK_DEADLOCK FALSE
