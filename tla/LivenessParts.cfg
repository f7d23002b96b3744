SPECIFICATION LivenessSpec
CONSTANTS
  \* HostDma: a FIFO of four entries and three laps of its tail.
  Dir = {tx}
  WRAP = 4
  MAX_OVERFLOW = 3
  \* FlashQueue: more commands than entries, and all four phases.
  HostCmd = {c0, c1, c2}
  HW_QUEUE_DEPTH = 2
  PHASES = 4
  NoHcmd = NoHcmd
  \* VerifyAsync: two threads, two io_us, two blocks.
  VERIFY_ASYNC = 2
  IoU = {"u1", "u2"}
  BLOCKS = 2
  CREATE_FAILS = TRUE
  \* StatSync: two jobs, which also verify; EDEADLK after the first failure.
  JOBS = 2
  MAX_TRIES = 0
  STAT_CALLS = 1
  DO_VERIFY = TRUE
INVARIANTS
  CountersExact
  PhaseExact EntriesExact EachHcmdOnce
PROPERTIES
  HardwareWaitsEnd  StatSemGivenBack
\* The verify pass ends, or waits for an io_u no thread will return; the DMA
\* counters stop at their bound; the jobs exit.
CHECK_DEADLOCK FALSE
