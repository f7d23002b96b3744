\* 4 KB requests: the first one keeps the only entry.
SPECIFICATION FairSpec
CONSTANTS
  CMD_SLOT_NUM = 1
  Fio = {t1}
  Ddirs = {"write"}
  Sizes = {4096, 16384}
  FE_CMDS = 1
  FIO_REQS = 1
  HCMD_NUM = 1
  TASK_QUEUE_MAX = 1
  HW_QUEUE_DEPTH = 1
  MAX_POLLING_NUM = 1
PROPERTIES
  EveryCommandIsAccepted
