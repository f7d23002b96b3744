\* Two host processes, two slots, two entries, one SQ entry; one-page commands and
\* commands that never complete.
SPECIFICATION Spec
CONSTANTS
  CMD_SLOT_NUM = 2
  Fio = {t1}
  Ddirs = {"read", "write"}
  Sizes = {4096, 16384}
  FE_CMDS = 1
  FIO_REQS = 2
  HCMD_NUM = 2
  TASK_QUEUE_MAX = 2
  HW_QUEUE_DEPTH = 1
  MAX_POLLING_NUM = 2
PROPERTIES
  PipelineSpec FrontEndSpec
