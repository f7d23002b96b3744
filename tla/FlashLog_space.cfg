\* One page, as the pipeline uses now, and data that may be white space.
SPECIFICATION Spec
CONSTANTS
  Page = {p20}
  Byte = {"a", "ws"}
  DATA_LEN = 2
  MAX_WRITES = 2
  KILLS = FALSE
  NONE = NONE
INVARIANTS
  ReadsLatest
