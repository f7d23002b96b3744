\* Four commands of two sizes (0 and 1 page) through four entries and two SQ entries:
\* with two in flight the others are queued again and again.
SPECIFICATION Spec
CONSTANTS
  HCMD_NUM = 4
  TASK_QUEUE_MAX = 4
  HW_QUEUE_DEPTH = 2
  MAX_POLLING_NUM = 2
  Sizes = {4096, 16384}
  MaxCmds = 4
INVARIANTS
  OnePlace NoCommandLost SqBitmapExact NoLostWakeup FinishedMeansComplete
PROPERTIES
  InFlightStable SameKindInOrder
