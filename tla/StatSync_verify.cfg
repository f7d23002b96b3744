\* Two jobs that verify, and one call of the helper.
SPECIFICATION Spec
CONSTANTS
  JOBS = 2
  MAX_TRIES = 0
  STAT_CALLS = 1
  DO_VERIFY = TRUE
INVARIANTS
  NoStatDeadlock
CHECK_DEADLOCK FALSE
