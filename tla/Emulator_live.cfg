\* Liveness from the host to the table and back: one slot, and one SQ entry
\* for two commands.
SPECIFICATION FairSpec
CONSTANTS
  CMD_SLOT_NUM = 1
  Fio = {t1}
  Ddirs = {"read", "write"}
  Sizes = {16384}
  FE_CMDS = 1
  FIO_REQS = 1
  HCMD_NUM = 2
  TASK_QUEUE_MAX = 2
  HW_QUEUE_DEPTH = 1
  MAX_POLLING_NUM = 1
PROPERTIES
  EveryHostCommandFinishes HostReturns
