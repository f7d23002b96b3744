\* A slot is reused while the command it brought is still in the table.
SPECIFICATION Spec
CONSTANTS
  CMD_SLOT_NUM = 1
  Fio = {t1}
  Ddirs = {"read", "write"}
  Sizes = {16384}
  FE_CMDS = 1
  FIO_REQS = 1
  HCMD_NUM = 1
  TASK_QUEUE_MAX = 1
  HW_QUEUE_DEPTH = 1
  MAX_POLLING_NUM = 1
INVARIANTS
  SlotHoldsCommand
