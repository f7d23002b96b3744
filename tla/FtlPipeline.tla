---------------------------- MODULE FtlPipeline ----------------------------
(***************************************************************************)
(* The command pipeline of the emulator build: the FTL thread              *)
(* (FTL_core0_task_run: NVMe polling, task-queue polling, CQ polling) and  *)
(* the back-end thread be(), which exchange submission-queue entries       *)
(* through register_list and complete_list under fcl_be_mutex.             *)
(*                                                                         *)
(* The host is abstract here: each NVMe polling iteration either finds no  *)
(* command or receives one of any size in Sizes.  Module Emulator replaces *)
(* it by the shared-memory front end.                                      *)
(***************************************************************************)
EXTENDS Integers, Sequences, FiniteSets, Functions, Queues

CONSTANTS
  HCMD_NUM,         \* entries of the host command table
  TASK_QUEUE_MAX,   \* capacity of one task queue
  HW_QUEUE_DEPTH,   \* submission-queue entries of the one channel in use
  MAX_POLLING_NUM,  \* iterations of one NVMe polling round
  Sizes,            \* command sizes in bytes the host may send
  MaxCmds           \* bound of the model: commands accepted in a behaviour

ASSUME PipelineAssumption ==
  /\ HCMD_NUM \in Nat \ {0}
  /\ TASK_QUEUE_MAX \in Nat
  /\ HCMD_NUM <= TASK_QUEUE_MAX
  /\ HW_QUEUE_DEPTH \in Nat \ {0}
  /\ MAX_POLLING_NUM \in Nat \ {0}
  /\ Sizes \subseteq Nat
  /\ MaxCmds \in Nat

VARIABLES
  hcmd_map,       \* the indices of the allocated host command entries
  hcmd,           \* host command entry of each index
  emu_c,          \* static counter c of FTL_nvme_req_polling
  tq,             \* task queue of each status, as the FIFO it implements
  sq_bitmap,      \* the indices of the allocated SQ entries
  pc, i, cnt,     \* FTL thread: place, loop index, queue length sampled
  ftl_sq,         \* EMU_sq the FTL thread is about to register (0 or 1)
  register_list,  \* EMU_sqs on the way to the back end
  complete_list,  \* EMU_sqs on the way back
  fcl_be_mutex,   \* owner of the mutex of both lists
  be_pc, r_sq     \* back-end thread: place, EMU_sq in its hands (0 or 1)

cmdVars == <<hcmd_map, hcmd, emu_c>>
ftlVars == <<pc, i, cnt, ftl_sq>>
beVars == <<be_pc, r_sq>>
linkVars == <<register_list, complete_list, fcl_be_mutex>>
vars == <<cmdVars, tq, sq_bitmap, ftlVars, linkVars, beVars>>

Hcmd == 0 .. HCMD_NUM - 1
SqIndex == 0 .. HW_QUEUE_DEPTH - 1

HCE_READ == 1
HCE_WRITE == 2
Ops == {HCE_READ, HCE_WRITE}

HCE_CHECK_CACHE == 0
HCE_TO_SQ == 1
HCE_DATAMOVED == 2
HCE_FROM_CQ == 3
HCE_FINISH == 4
Status == HCE_CHECK_CACHE .. HCE_FINISH

HOST_BLOCK_SIZE == 4096

\* A reclaimed entry is memset to 0.
ZeroEntry == [op_code |-> 0, req_num |-> 0, cpl_cnt |-> 0, emu_id |-> 0]

HcmdEntry == [op_code : Ops \cup {0}, req_num : Nat, cpl_cnt : Nat, emu_id : Nat]

EMU_sq == [sq_index : SqIndex, hcmd_index : Hcmd, op : Ops]

Init ==
  /\ hcmd_map = {}
  /\ hcmd = [h \in Hcmd |-> ZeroEntry]
  /\ emu_c = 0
  /\ tq = [s \in Status |-> << >>]
  /\ sq_bitmap = {}
  /\ pc = "nvme" /\ i = 0 /\ cnt = 0 /\ ftl_sq = << >>
  /\ register_list = << >> /\ complete_list = << >> /\ fcl_be_mutex = "none"
  /\ be_pc = "lock" /\ r_sq = << >>

-----------------------------------------------------------------------------
(* Task queues.  FTL_task_queue_add_tail refuses when the queue is full and *)
(* FTL_sendhcmd's callers ignore the refusal: the command is then nowhere.  *)

RemoveHead(q, s) == Dequeue(q, s)

Sendhcmd(q, h, s) ==
  IF Len(q[s]) = TASK_QUEUE_MAX THEN q ELSE Enqueue(q, s, h)

\* Mutant: the scan does not look at the bits in use.
IsFirstFreeBlind(x, all, used) ==
  /\ x \in all
  /\ \A y \in all : x <= y

\* First zero bit of a bitmap: the scan takes the lowest free index.
IsFirstFree(x, all, used) ==
  /\ x \in all \ used
  /\ \A y \in all \ used : x <= y

\* The SQ entry x of the channel: taken, filled for command h, given back.
FCL_get_free_SQ_entry(x) ==
  /\ IsFirstFree(x, SqIndex, sq_bitmap)
  /\ sq_bitmap' = sq_bitmap \cup {x}

FCL_set_SQ_entry(x, h) == [sq_index |-> x, hcmd_index |-> h, op |-> hcmd[h].op_code]

FCL_free_SQ_entry(x) == sq_bitmap' = sq_bitmap \ {x}

-----------------------------------------------------------------------------
(* FTL_nvme_req_polling: MAX_POLLING_NUM iterations, then task polling,     *)
(* whose loop starts by sampling the length of the first queue.             *)

PollNext ==
  IF i + 1 < MAX_POLLING_NUM
    THEN i' = i + 1 /\ pc' = "nvme" /\ cnt' = cnt
    ELSE i' = HCE_CHECK_CACHE /\ pc' = "task" /\ cnt' = Len(tq'[HCE_CHECK_CACHE])

\* No command is ready.
PollNone ==
  /\ pc = "nvme"
  /\ UNCHANGED <<cmdVars, tq>>
  /\ PollNext
  /\ UNCHANGED <<sq_bitmap, ftl_sq, linkVars, beVars>>

\* A command is ready and HCL_get_host_cmd_entry returns NULL: the command
\* goes back to the host side.
PollNoEntry ==
  /\ pc = "nvme"
  /\ hcmd_map = Hcmd
  /\ UNCHANGED <<cmdVars, tq>>
  /\ PollNext
  /\ UNCHANGED <<sq_bitmap, ftl_sq, linkVars, beVars>>

\* Pages of 16 KB in a command of the given size: whole host blocks, by four.
ReqNum(size) == (size \div HOST_BLOCK_SIZE) \div 4

\* A command is accepted: entry allocated, filled and sent to CHECK_CACHE.
PollAccept(op, size) ==
  /\ pc = "nvme"
  /\ emu_c < MaxCmds
  /\ \E h \in Hcmd :
       /\ IsFirstFree(h, Hcmd, hcmd_map)
       /\ hcmd_map' = hcmd_map \cup {h}
       /\ hcmd' = [hcmd EXCEPT ![h] = [op_code |-> op, req_num |-> ReqNum(size),
                                       cpl_cnt |-> 0, emu_id |-> emu_c + 1]]
       /\ tq' = Sendhcmd(tq, h, HCE_CHECK_CACHE)
  /\ emu_c' = emu_c + 1
  /\ PollNext
  /\ UNCHANGED <<sq_bitmap, ftl_sq, linkVars, beVars>>

-----------------------------------------------------------------------------
(* FTL_core0task_polling: for each status in turn, as many heads as the     *)
(* queue had entries when its turn came are removed and handled.            *)

Polled(s) == pc = "task" /\ i = s /\ cnt > 0 /\ tq[s] # << >>

NextQueue ==
  /\ pc = "task" /\ cnt = 0
  /\ IF i < HCE_FINISH
       THEN i' = i + 1 /\ cnt' = Len(tq[i + 1]) /\ pc' = "task"
       ELSE i' = 0 /\ cnt' = 0 /\ pc' = "cq_lock"
  /\ UNCHANGED <<cmdVars, tq, sq_bitmap, ftl_sq, linkVars, beVars>>

\* The cache lookup has no effect on the command (the buffer calls are
\* disabled in the source): a write moves its data first, a read goes to flash.
HandleCheckcache ==
  LET h == Head(tq[HCE_CHECK_CACHE])
      s == IF hcmd[h].op_code = HCE_WRITE THEN HCE_DATAMOVED ELSE HCE_TO_SQ
  IN /\ Polled(HCE_CHECK_CACHE)
     /\ tq' = Sendhcmd(RemoveHead(tq, HCE_CHECK_CACHE), h, s)
     /\ cnt' = cnt - 1
     /\ UNCHANGED <<cmdVars, sq_bitmap, pc, i, ftl_sq, linkVars, beVars>>

\* Mutants: a command that finds no SQ entry is not queued again; the drain
\* of the queue stops at the first such command.
HandleTosqRetryDrops ==
  /\ Polled(HCE_TO_SQ)
  /\ sq_bitmap = SqIndex
  /\ tq' = RemoveHead(tq, HCE_TO_SQ)
  /\ cnt' = cnt - 1
  /\ UNCHANGED <<cmdVars, sq_bitmap, pc, i, ftl_sq, linkVars, beVars>>

HandleTosqRetryBreaks ==
  LET h == Head(tq[HCE_TO_SQ])
  IN /\ Polled(HCE_TO_SQ)
     /\ sq_bitmap = SqIndex
     /\ tq' = Sendhcmd(RemoveHead(tq, HCE_TO_SQ), h, HCE_TO_SQ)
     /\ cnt' = 0
     /\ UNCHANGED <<cmdVars, sq_bitmap, pc, i, ftl_sq, linkVars, beVars>>

\* No SQ entry is free: the command is queued again for the next round.
HandleTosqRetry ==
  LET h == Head(tq[HCE_TO_SQ])
  IN /\ Polled(HCE_TO_SQ)
     /\ sq_bitmap = SqIndex
     /\ tq' = Sendhcmd(RemoveHead(tq, HCE_TO_SQ), h, HCE_TO_SQ)
     /\ cnt' = cnt - 1
     /\ UNCHANGED <<cmdVars, sq_bitmap, pc, i, ftl_sq, linkVars, beVars>>

\* Mutant: the entry is reclaimed as soon as its SQ entry is filled.
HandleTosqReclaims ==
  LET h == Head(tq[HCE_TO_SQ])
  IN /\ Polled(HCE_TO_SQ)
     /\ \E x \in SqIndex :
          /\ FCL_get_free_SQ_entry(x)
          /\ ftl_sq' = <<FCL_set_SQ_entry(x, h)>>
     /\ tq' = RemoveHead(tq, HCE_TO_SQ)
     /\ hcmd_map' = hcmd_map \ {h}
     /\ pc' = "send_lock"
     /\ UNCHANGED <<hcmd, emu_c, i, cnt, linkVars, beVars>>

\* buf_cnt is fixed to 1: one SQ entry is allocated and filled whatever the
\* size of the command; BE_send_sq follows.
HandleTosq ==
  LET h == Head(tq[HCE_TO_SQ])
  IN /\ Polled(HCE_TO_SQ)
     /\ \E x \in SqIndex :
          /\ FCL_get_free_SQ_entry(x)
          /\ ftl_sq' = <<FCL_set_SQ_entry(x, h)>>
     /\ tq' = RemoveHead(tq, HCE_TO_SQ)
     /\ pc' = "send_lock"
     /\ UNCHANGED <<cmdVars, i, cnt, linkVars, beVars>>

SendLock ==
  /\ pc = "send_lock" /\ fcl_be_mutex = "none"
  /\ fcl_be_mutex' = "ftl" /\ pc' = "send"
  /\ UNCHANGED <<cmdVars, tq, sq_bitmap, i, cnt, ftl_sq, register_list, complete_list, beVars>>

\* Mutant: list_cond is not signalled.
BE_send_sqSilent ==
  /\ pc = "send"
  /\ register_list' = Append(register_list, Head(ftl_sq))
  /\ ftl_sq' = << >>
  /\ fcl_be_mutex' = "none"
  /\ pc' = "task" /\ cnt' = cnt - 1
  /\ UNCHANGED <<cmdVars, tq, sq_bitmap, i, complete_list, be_pc, r_sq>>

\* BE_send_sq with the mutex held: append, signal list_cond, unlock; then the
\* rest of FTL_handle_tosq, which changes nothing another step reads.
BE_send_sq ==
  /\ pc = "send"
  /\ register_list' = Append(register_list, Head(ftl_sq))
  /\ ftl_sq' = << >>
  /\ be_pc' = IF be_pc = "wait" THEN "lock" ELSE be_pc
  /\ fcl_be_mutex' = "none"
  /\ pc' = "task" /\ cnt' = cnt - 1
  /\ UNCHANGED <<cmdVars, tq, sq_bitmap, i, complete_list, r_sq>>

\* Mutant: reads and writes are exchanged.
HandleDatamoveSwapped ==
  LET h == Head(tq[HCE_DATAMOVED])
      s == IF hcmd[h].op_code = HCE_WRITE THEN HCE_FINISH ELSE HCE_TO_SQ
  IN /\ Polled(HCE_DATAMOVED)
     /\ tq' = Sendhcmd(RemoveHead(tq, HCE_DATAMOVED), h, s)
     /\ cnt' = cnt - 1
     /\ UNCHANGED <<cmdVars, sq_bitmap, pc, i, ftl_sq, linkVars, beVars>>

HandleDatamove ==
  LET h == Head(tq[HCE_DATAMOVED])
      s == IF hcmd[h].op_code = HCE_READ THEN HCE_FINISH ELSE HCE_TO_SQ
  IN /\ Polled(HCE_DATAMOVED)
     /\ tq' = Sendhcmd(RemoveHead(tq, HCE_DATAMOVED), h, s)
     /\ cnt' = cnt - 1
     /\ UNCHANGED <<cmdVars, sq_bitmap, pc, i, ftl_sq, linkVars, beVars>>

HandleFromcq ==
  LET h == Head(tq[HCE_FROM_CQ])
      s == IF hcmd[h].op_code = HCE_WRITE THEN HCE_FINISH ELSE HCE_DATAMOVED
  IN /\ Polled(HCE_FROM_CQ)
     /\ tq' = Sendhcmd(RemoveHead(tq, HCE_FROM_CQ), h, s)
     /\ cnt' = cnt - 1
     /\ UNCHANGED <<cmdVars, sq_bitmap, pc, i, ftl_sq, linkVars, beVars>>

\* HCL_reclaim_hcmd_entry: the bit is cleared and the entry zeroed.
HandleFinish ==
  LET h == Head(tq[HCE_FINISH])
  IN /\ Polled(HCE_FINISH)
     /\ tq' = RemoveHead(tq, HCE_FINISH)
     /\ hcmd_map' = hcmd_map \ {h}
     /\ hcmd' = [hcmd EXCEPT ![h] = ZeroEntry]
     /\ cnt' = cnt - 1
     /\ UNCHANGED <<emu_c, sq_bitmap, pc, i, ftl_sq, linkVars, beVars>>

-----------------------------------------------------------------------------
(* FTL_CQ_polling drains complete_list with the mutex held.                 *)

CqLock ==
  /\ pc = "cq_lock" /\ fcl_be_mutex = "none"
  /\ fcl_be_mutex' = "ftl" /\ pc' = "cq"
  /\ UNCHANGED <<cmdVars, tq, sq_bitmap, i, cnt, ftl_sq, register_list, complete_list, beVars>>

\* Mutant: FCL_free_SQ_entry is forgotten.
CqEntryKeeps ==
  LET sq == Head(complete_list)
      h == sq.hcmd_index
      cpl == hcmd[h].cpl_cnt + 1
  IN /\ pc = "cq" /\ complete_list # << >>
     /\ hcmd' = [hcmd EXCEPT ![h].cpl_cnt = cpl]
     /\ tq' = IF cpl = hcmd[h].req_num THEN Sendhcmd(tq, h, HCE_FROM_CQ) ELSE tq
     /\ complete_list' = Tail(complete_list)
     /\ UNCHANGED <<hcmd_map, emu_c, sq_bitmap, ftlVars, register_list, fcl_be_mutex, beVars>>

CqEntry ==
  LET sq == Head(complete_list)
      h == sq.hcmd_index
      cpl == hcmd[h].cpl_cnt + 1
  IN /\ pc = "cq" /\ complete_list # << >>
     /\ FCL_free_SQ_entry(sq.sq_index)
     /\ hcmd' = [hcmd EXCEPT ![h].cpl_cnt = cpl]
     /\ tq' = IF cpl = hcmd[h].req_num THEN Sendhcmd(tq, h, HCE_FROM_CQ) ELSE tq
     /\ complete_list' = Tail(complete_list)
     /\ UNCHANGED <<hcmd_map, emu_c, ftlVars, register_list, fcl_be_mutex, beVars>>

CqUnlock ==
  /\ pc = "cq" /\ complete_list = << >>
  /\ fcl_be_mutex' = "none" /\ pc' = "nvme" /\ i' = 0
  /\ UNCHANGED <<cmdVars, tq, sq_bitmap, cnt, ftl_sq, register_list, complete_list, beVars>>

-----------------------------------------------------------------------------
(* The back-end thread be().                                               *)

BeLock ==
  /\ be_pc = "lock" /\ fcl_be_mutex = "none"
  /\ fcl_be_mutex' = "be" /\ be_pc' = "check"
  /\ UNCHANGED <<cmdVars, tq, sq_bitmap, ftlVars, register_list, complete_list, r_sq>>

\* pthread_cond_wait releases the mutex and blocks.
BeWait ==
  /\ be_pc = "check" /\ register_list = << >>
  /\ fcl_be_mutex' = "none" /\ be_pc' = "wait"
  /\ UNCHANGED <<cmdVars, tq, sq_bitmap, ftlVars, register_list, complete_list, r_sq>>

\* pthread_cond_wait may return without a signal.
BeSpuriousWake ==
  /\ be_pc = "wait"
  /\ be_pc' = "lock"
  /\ UNCHANGED <<cmdVars, tq, sq_bitmap, ftlVars, linkVars, r_sq>>

BeTake ==
  /\ be_pc = "check" /\ register_list # << >>
  /\ r_sq' = <<Head(register_list)>>
  /\ register_list' = Tail(register_list)
  /\ fcl_be_mutex' = "none" /\ be_pc' = "io"
  /\ UNCHANGED <<cmdVars, tq, sq_bitmap, ftlVars, complete_list>>

\* BE_read_log or BE_write_log (module FlashLog), then the lock.
BeLockDone ==
  /\ be_pc = "io" /\ fcl_be_mutex = "none"
  /\ fcl_be_mutex' = "be" /\ be_pc' = "done"
  /\ UNCHANGED <<cmdVars, tq, sq_bitmap, ftlVars, register_list, complete_list, r_sq>>

BeDone ==
  /\ be_pc = "done"
  /\ complete_list' = Append(complete_list, Head(r_sq))
  /\ r_sq' = << >>
  /\ fcl_be_mutex' = "none" /\ be_pc' = "lock"
  /\ UNCHANGED <<cmdVars, tq, sq_bitmap, ftlVars, register_list>>

-----------------------------------------------------------------------------
PollStep == PollNone \/ PollNoEntry \/ \E op \in Ops, size \in Sizes : PollAccept(op, size)

TaskStep ==
  \/ NextQueue \/ HandleCheckcache \/ HandleTosqRetry \/ HandleTosq
  \/ HandleDatamove \/ HandleFromcq \/ HandleFinish \/ BE_send_sq

CqStep == CqEntry \/ CqUnlock

BeStep == BeWait \/ BeTake \/ BeDone

Next ==
  \/ PollStep \/ TaskStep \/ SendLock \/ CqLock \/ CqStep
  \/ BeLock \/ BeStep \/ BeLockDone \/ BeSpuriousWake

Spec == Init /\ [][Next]_vars

-----------------------------------------------------------------------------
(* Where commands are.                                                      *)

\* The places of an EMU_sq between its allocation and FCL_free_SQ_entry.
Sqs == <<ftl_sq, register_list, r_sq, complete_list>>
FlightSqs == Members(Sqs)
FlightHcmds == {sq.hcmd_index : sq \in FlightSqs}

\* Every variable stays in its type; the two EMU_sq locals hold an entry
\* exactly while their thread is between taking and handing it over.
TypeOK ==
  /\ hcmd_map \subseteq Hcmd
  /\ hcmd \in [Hcmd -> HcmdEntry]
  /\ emu_c \in Nat
  /\ tq \in [Status -> Seq(Hcmd)]
  /\ sq_bitmap \subseteq SqIndex
  /\ pc \in {"nvme", "task", "send_lock", "send", "cq_lock", "cq"}
  /\ i \in Nat /\ cnt \in Nat
  /\ ftl_sq \in Seq(EMU_sq) /\ Len(ftl_sq) = (IF pc \in {"send_lock", "send"} THEN 1 ELSE 0)
  /\ register_list \in Seq(EMU_sq) /\ complete_list \in Seq(EMU_sq)
  /\ fcl_be_mutex \in {"none", "ftl", "be"}
  /\ be_pc \in {"lock", "check", "wait", "io", "done"}
  /\ r_sq \in Seq(EMU_sq) /\ Len(r_sq) = (IF be_pc \in {"io", "done"} THEN 1 ELSE 0)

\* A host command entry is in at most one place: once in one task queue, or
\* named by one EMU_sq, and every place names an allocated entry.  The queues
\* hold bare pointers (FTL_task_queue_add_tail), so nothing else prevents a
\* command from being handled twice or after HCL_reclaim_hcmd_entry.
OnePlace ==
  /\ NoRepeat(tq)
  /\ Members(tq) \subseteq hcmd_map \ FlightHcmds
  /\ NoRepeat(Sqs)
  /\ \A e, f \in FlightSqs : e.hcmd_index = f.hcmd_index => e = f
  /\ FlightHcmds \subseteq hcmd_map

\* No command of one page is ever dropped: FTL_sendhcmd's FAIL, which its
\* callers ignore, is never returned, and CQ polling always forwards it.
NoCommandLost ==
  \A h \in hcmd_map : hcmd[h].req_num = 1
    => h \in FlightHcmds \cup Members(tq)

\* The SQ bitmap is exactly the set of entries in flight: none leaks, none is
\* handed out twice, none is freed before the back end has finished with it.
SqBitmapExact ==
  /\ sq_bitmap = {sq.sq_index : sq \in FlightSqs}
  /\ \A e, f \in FlightSqs : e.sq_index = f.sq_index => e = f

\* The back end never sleeps on list_cond while work is registered.
NoLostWakeup == be_pc = "wait" => register_list = << >>

\* A command reaches FTL_handle_finish only when the flash operations it asked
\* for are complete.
FinishedMeansComplete ==
  \A h \in Range(tq[HCE_FINISH]) : hcmd[h].cpl_cnt = hcmd[h].req_num /\ hcmd[h].cpl_cnt > 0

\* FTL_task_queue_remove_head never returns NULL in FTL_core0task_polling: the
\* sampled count never exceeds what the queue still holds.
SampleCovered == pc = "task" => cnt <= Len(tq[i])

\* be() reads the host command entry of the EMU_sq it holds without any lock
\* of the table: the entry keeps its command as long as the EMU_sq is in flight.
InFlightStable ==
  [][\A h \in FlightHcmds :
       /\ h \in hcmd_map'
       /\ hcmd'[h].emu_id = hcmd[h].emu_id /\ hcmd'[h].op_code = hcmd[h].op_code]_vars

\* One-page commands of the same kind finish in the order they were accepted,
\* even when SQ entries run out and FTL_handle_tosq queues commands again.
SameKindInOrder ==
  [][\A h \in hcmd_map \ hcmd_map' : \A g \in hcmd_map :
       hcmd[g].op_code = hcmd[h].op_code /\ hcmd[g].req_num = 1
         => hcmd[h].emu_id <= hcmd[g].emu_id]_vars
=============================================================================
