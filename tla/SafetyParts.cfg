SPECIFICATION SafetySpec
CONSTANTS
  \* Shm: fe() and two fio threads compete for two slots; every direction, trims too.
  CMD_SLOT_NUM = 2
  Fio = {t1, t2}
  Ddirs = {"read", "write", "trim", "sync"}
  Sizes = {4096, 16384}
  FE_CMDS = 1
  FIO_REQS = 2
  \* TaskQueue: a ring whose capacity is the number of values of its indices,
  \* as in the source (256).
  Status = {to_sq}
  Hcmd = {h0, h1, h2}
  TASK_QUEUE_MAX = 4
  U8 = 4
  U16 = 16
  NULL = NULL
  \* ShmList: four slots moving between the lists, with every stale link.
  LIST_SLOT_NUM = 4
  \* Buffer: more pages than buffers, two pages in a hash chain, two commands.
  BUFFER_NUMBER = 3
  HASH_TABLE_SIZE = 2
  HCMD_NUM = 2
  LPN_NUM = 4
  MAX_REQ = 2
  \* L2P: two of five channels are not normal.
  TOTAL_CHANNEL = 5
  NORMAL_CHANNEL = {0, 2, 3}
  CE_PER_CH = 3
  PLANE_PER_CE = 2
  PAGE_PER_BLOCK_SLC_MODE = 3
  ROWS = 2
  \* VerifyAsync: two threads, two io_us, three blocks: an io_u is used again.
  VERIFY_ASYNC = 2
  IoU = {"u1", "u2"}
  BLOCKS = 3
  CREATE_FAILS = TRUE
  \* FlashLog: two pages; data without white space; any record may be cut short.
  Page = {p20, p21}
  Byte = {"a", "b"}
  DATA_LEN = 2
  MAX_WRITES = 3
  KILLS = TRUE
  NONE = NONE
  \* FileLock: three threads and three names for two locks.
  Flusher = {f1, f2, f3}
  Hash = {n1, n2, n3}
  MAX_FILELOCKS = 2
  \* Flow: three jobs, also without a group; two requests each.
  FlowJob = {j1, j2, j3}
  MAX_WEIGHT = 2
  MAX_IO = 2
  \* RandomMap: words of two bits, so three and four levels; the LFSR at the
  \* boundaries of its widths.
  UNIT_SHIFT = 1
  FileBlocks = {5, 8, 9}
  LfsrBlocks = {5, 8, 15}
  MAX_NR = 3
INVARIANTS
  SlotsConserved SlotAvailable ExactlyOnce
  CacheListsExact MappingExact LastWrittenIsRead
  IoUsConserved SignalsKept EndOfPass
  FileLocksExact FlowKeepsRatio AxmapIsSet EachBlockOnce
PROPERTIES
  ReadyKeptInOrder ImplementsFifo ListImplementsFifo ImplementsCache
\* A trim of fio returns with both locks held and everything stops; the buffers
\* are closed at the end; a verify pass, a flow group and a random pass end.
CHECK_DEADLOCK FALSE
