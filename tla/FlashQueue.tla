----------------------------- MODULE FlashQueue -----------------------------
(***************************************************************************)
(* The submission and completion queues of one flash channel in the         *)
(* hardware build: core 0 takes an SQ entry and sends it to the flash       *)
(* controller (FTL_handle_tosq), the controller writes a CQ entry, core 1   *)
(* polls the CQ by phase, frees the SQ entry and hands the command back     *)
(* (FTL_CQ_polling).  Commands are one page long (req_num = buf_cnt = 1).   *)
(* The channels share no state.  The CQ entry's op and cmd_space, which     *)
(* core 1 reads after the free, are the same for everything                 *)
(* FTL_handle_tosq sends and are left out.                                  *)
(***************************************************************************)
EXTENDS Integers, Sequences, FiniteSets

CONSTANTS
  HostCmd,            \* host command entries
  HW_QUEUE_DEPTH,  \* entries of the SQ and of the CQ: 256
  PHASES,          \* values of the two-bit phase: 4
  NoHcmd

ASSUME FlashQueueAssumption ==
  /\ HW_QUEUE_DEPTH \in Nat \ {0} /\ PHASES \in Nat \ {0, 1}
  /\ NoHcmd \notin HostCmd

SqIndex == 0 .. HW_QUEUE_DEPTH - 1
CqPhase == 0 .. PHASES - 1

VARIABLES
  bitmap,         \* hw_sq_bitmap: the SQ entries in use
  hcmd_index,     \* hcmd_index of each SQ entry
  cq_ptr, cq_ph,  \* cur_ptr and ph of each CQ entry
  sent,           \* entries given to the controller and not completed
  completed,      \* entries completed whose CQ entry core 1 has not polled
  wr_index, wr_phase,            \* the controller's place in the CQ
  polling_index, polling_phase,  \* core 1's place in the CQ
  free_hcmd,      \* command entries without a command
  to_sq, from_cq, \* the task queues HCE_TO_SQ and HCE_FROM_CQ
  cpl_cnt,        \* pages of each command completed
  pc0, hcmd0, sq0,        \* core 0: its step, its command and its SQ entry
  pc1, cq1, sq1, hcmd1    \* core 1: its step, CQ entry, SQ entry and command

core0 == <<pc0, hcmd0, sq0>>
core1 == <<pc1, cq1, sq1, hcmd1, polling_index, polling_phase>>
device == <<cq_ptr, cq_ph, sent, wr_index, wr_phase>>
fqVars == <<bitmap, hcmd_index, completed, free_hcmd, to_sq, from_cq, cpl_cnt, device, core0, core1>>

\* FCL_init_hw_queue; the CQ is filled with 0xff, the last phase.
FqInit ==
  /\ bitmap = {} /\ hcmd_index = [i \in SqIndex |-> NoHcmd]
  /\ cq_ptr = [i \in SqIndex |-> HW_QUEUE_DEPTH - 1]
  /\ cq_ph = [i \in SqIndex |-> PHASES - 1]
  /\ sent = {} /\ completed = {} /\ wr_index = 0 /\ wr_phase = 0
  /\ polling_index = 0 /\ polling_phase = 0
  /\ free_hcmd = HostCmd /\ to_sq = << >> /\ from_cq = << >>
  /\ cpl_cnt = [h \in HostCmd |-> 0]
  /\ pc0 = "idle" /\ hcmd0 = NoHcmd /\ sq0 = 0
  /\ pc1 = "poll" /\ cq1 = 0 /\ sq1 = 0 /\ hcmd1 = NoHcmd

-----------------------------------------------------------------------------
\* Core 0.

\* A command of the host takes a free entry (FTL_nvme_req_polling) and waits
\* to be sent.
NewCommand(h) ==
  /\ pc0 = "idle" /\ h \in free_hcmd
  /\ free_hcmd' = free_hcmd \ {h}
  /\ to_sq' = Append(to_sq, h)
  /\ cpl_cnt' = [cpl_cnt EXCEPT ![h] = 0]
  /\ UNCHANGED <<bitmap, hcmd_index, completed, from_cq, device, core0, core1>>

\* FCL_get_free_SQ_entry under the channel's spin lock: the lowest free entry.
FirstFree(i) == i \in SqIndex \ bitmap /\ \A j \in SqIndex \ bitmap : i <= j

\* Mutant: the bit is not set.
GetEntryUnmarked ==
  /\ pc0 = "idle" /\ to_sq # << >>
  /\ \E i \in SqIndex : FirstFree(i) /\ sq0' = i
  /\ hcmd0' = Head(to_sq) /\ to_sq' = Tail(to_sq) /\ pc0' = "set"
  /\ UNCHANGED <<free_hcmd, bitmap, hcmd_index, completed, from_cq, cpl_cnt, device, core1>>

GetEntry ==
  /\ pc0 = "idle" /\ to_sq # << >>
  /\ \E i \in SqIndex :
       /\ FirstFree(i)
       /\ bitmap' = bitmap \cup {i}
       /\ sq0' = i
  /\ hcmd0' = Head(to_sq) /\ to_sq' = Tail(to_sq) /\ pc0' = "set"
  /\ UNCHANGED <<free_hcmd, hcmd_index, completed, from_cq, cpl_cnt, device, core1>>

\* No entry: the command goes to the end of its queue.
NoEntry ==
  /\ pc0 = "idle" /\ to_sq # << >> /\ bitmap = SqIndex
  /\ to_sq' = Append(Tail(to_sq), Head(to_sq))
  /\ UNCHANGED <<free_hcmd, bitmap, hcmd_index, completed, from_cq, cpl_cnt, device, core0, core1>>

\* FCL_set_SQ_entry
SetEntry ==
  /\ pc0 = "set" /\ pc0' = "send"
  /\ hcmd_index' = [hcmd_index EXCEPT ![sq0] = hcmd0]
  /\ UNCHANGED <<free_hcmd, bitmap, completed, to_sq, from_cq, cpl_cnt, hcmd0, sq0, device, core1>>

\* FCL_send_SQ_entry; while the fifo reports busy core 0 tries again, which
\* changes nothing.
SendEntry ==
  /\ pc0 = "send"
  /\ sent' = sent \cup {sq0}
  /\ pc0' = "idle" /\ hcmd0' = NoHcmd /\ sq0' = 0
  /\ UNCHANGED <<free_hcmd, bitmap, hcmd_index, completed, to_sq, from_cq, cpl_cnt, cq_ptr, cq_ph,
                 wr_index, wr_phase, core1>>

\* Core 0 takes a finished command off HCE_FROM_CQ, under the queue's spin
\* lock; its entry is reclaimed.
FromCq ==
  /\ pc0 = "idle" /\ from_cq # << >>
  /\ from_cq' = Tail(from_cq)
  /\ free_hcmd' = free_hcmd \cup {Head(from_cq)}
  /\ UNCHANGED <<bitmap, hcmd_index, completed, to_sq, cpl_cnt, device, core0, core1>>

-----------------------------------------------------------------------------
\* The flash controller completes any entry it holds and writes the next CQ
\* entry; its phase goes up each time the CQ wraps.
Complete(i) ==
  LET wraps == wr_index + 1 = HW_QUEUE_DEPTH
  IN /\ i \in sent
     /\ sent' = sent \ {i} /\ completed' = completed \cup {i}
     /\ cq_ptr' = [cq_ptr EXCEPT ![wr_index] = i]
     /\ cq_ph' = [cq_ph EXCEPT ![wr_index] = wr_phase]
     /\ wr_index' = IF wraps THEN 0 ELSE wr_index + 1
     /\ wr_phase' = IF wraps THEN (wr_phase + 1) % PHASES ELSE wr_phase
     /\ UNCHANGED <<free_hcmd, bitmap, hcmd_index, to_sq, from_cq, cpl_cnt, core0, core1>>

-----------------------------------------------------------------------------
\* Core 1, FTL_CQ_polling.

\* Mutant: the phase does not change at the end of the CQ.
PollSamePhase ==
  /\ pc1 = "poll" /\ cq_ph[polling_index] = polling_phase
  /\ cq1' = polling_index
  /\ polling_index' = (polling_index + 1) % HW_QUEUE_DEPTH
  /\ completed' = completed \ {cq_ptr[polling_index]}
  /\ pc1' = "ptr"
  /\ UNCHANGED <<free_hcmd, bitmap, hcmd_index, to_sq, from_cq, cpl_cnt, device, core0, sq1, hcmd1,
                 polling_phase>>

\* The CQ entry at polling_index carries the expected phase: take it and move
\* on, changing the phase at the end of the CQ.  The entry core 1 has taken
\* (ghost completed) is the one the CQ entry names.
Poll ==
  LET wraps == polling_index + 1 = HW_QUEUE_DEPTH
  IN /\ pc1 = "poll" /\ cq_ph[polling_index] = polling_phase
     /\ cq1' = polling_index
     /\ polling_index' = IF wraps THEN 0 ELSE polling_index + 1
     /\ polling_phase' = IF wraps THEN (polling_phase + 1) % PHASES ELSE polling_phase
     /\ completed' = completed \ {cq_ptr[polling_index]}
     /\ pc1' = "ptr"
     /\ UNCHANGED <<free_hcmd, bitmap, hcmd_index, to_sq, from_cq, cpl_cnt, device, core0, sq1, hcmd1>>

\* Mutant: the entry is freed before its command is read.
ReadPtrFrees ==
  /\ pc1 = "ptr" /\ pc1' = "hcmd"
  /\ sq1' = cq_ptr[cq1] /\ bitmap' = bitmap \ {cq_ptr[cq1]}
  /\ UNCHANGED <<free_hcmd, hcmd_index, completed, to_sq, from_cq, cpl_cnt, device, core0,
                 cq1, hcmd1, polling_index, polling_phase>>

\* SQ_index = CQ_entry->cur_ptr
ReadPtr ==
  /\ pc1 = "ptr" /\ pc1' = "hcmd"
  /\ sq1' = cq_ptr[cq1]
  /\ UNCHANGED <<free_hcmd, bitmap, hcmd_index, completed, to_sq, from_cq, cpl_cnt, device, core0,
                 cq1, hcmd1, polling_index, polling_phase>>

\* hcmd_entry_index = SQ_entry->hcmd_index
ReadHcmd ==
  /\ pc1 = "hcmd" /\ pc1' = "free"
  /\ hcmd1' = hcmd_index[sq1]
  /\ UNCHANGED <<free_hcmd, bitmap, hcmd_index, completed, to_sq, from_cq, cpl_cnt, device, core0,
                 cq1, sq1, polling_index, polling_phase>>

\* Mutant: the entry is not freed.
FreeEntryNot ==
  /\ pc1 = "free" /\ pc1' = "count"
  /\ UNCHANGED <<free_hcmd, bitmap, hcmd_index, completed, to_sq, from_cq, cpl_cnt, device, core0,
                 cq1, sq1, hcmd1, polling_index, polling_phase>>

\* FCL_free_SQ_entry under the channel's spin lock
FreeEntry ==
  /\ pc1 = "free" /\ pc1' = "count"
  /\ bitmap' = bitmap \ {sq1}
  /\ UNCHANGED <<free_hcmd, hcmd_index, completed, to_sq, from_cq, cpl_cnt, device, core0,
                 cq1, sq1, hcmd1, polling_index, polling_phase>>

\* Mutant: the count is compared before it goes up.
CountLate ==
  /\ pc1 = "count"
  /\ cpl_cnt' = [cpl_cnt EXCEPT ![hcmd1] = 1]
  /\ from_cq' = IF cpl_cnt[hcmd1] = 1 THEN Append(from_cq, hcmd1) ELSE from_cq
  /\ pc1' = "poll" /\ cq1' = 0 /\ sq1' = 0 /\ hcmd1' = NoHcmd
  /\ UNCHANGED <<free_hcmd, bitmap, hcmd_index, completed, to_sq, device, core0, polling_index, polling_phase>>

\* Mutant: the command goes to the wrong queue.
CountToSq ==
  /\ pc1 = "count"
  /\ to_sq' = Append(to_sq, hcmd1)
  /\ pc1' = "poll" /\ cq1' = 0 /\ sq1' = 0 /\ hcmd1' = NoHcmd
  /\ UNCHANGED <<free_hcmd, bitmap, hcmd_index, completed, from_cq, cpl_cnt, device, core0, polling_index, polling_phase>>

\* cpl_cnt reaches req_num: the command goes to HCE_FROM_CQ under the queue's
\* spin lock.
Count ==
  /\ pc1 = "count"
  /\ cpl_cnt' = [cpl_cnt EXCEPT ![hcmd1] = @ + 1]
  /\ from_cq' = IF cpl_cnt[hcmd1] + 1 = 1 THEN Append(from_cq, hcmd1) ELSE from_cq
  /\ pc1' = "poll" /\ cq1' = 0 /\ sq1' = 0 /\ hcmd1' = NoHcmd
  /\ UNCHANGED <<free_hcmd, bitmap, hcmd_index, completed, to_sq, device, core0, polling_index, polling_phase>>

-----------------------------------------------------------------------------
Core0 == GetEntry \/ NoEntry \/ SetEntry \/ SendEntry \/ FromCq
Core1 == Poll \/ ReadPtr \/ ReadHcmd \/ FreeEntry \/ Count
Controller == \E i \in SqIndex : Complete(i)

FqNext == Core0 \/ Core1 \/ Controller \/ \E h \in HostCmd : NewCommand(h)

FqSpec == FqInit /\ [][FqNext]_fqVars

\* Both cores run, the controller's fifo is not busy for ever and it completes
\* every entry it accepts.
FqFairSpec ==
  /\ FqSpec /\ WF_fqVars(Core0) /\ WF_fqVars(Core1)
  /\ \A i \in SqIndex : WF_fqVars(Complete(i))

-----------------------------------------------------------------------------
FlashQueueTypeOK ==
  /\ bitmap \subseteq SqIndex /\ sent \subseteq SqIndex /\ completed \subseteq SqIndex
  /\ hcmd_index \in [SqIndex -> HostCmd \cup {NoHcmd}]
  /\ cq_ptr \in [SqIndex -> SqIndex] /\ cq_ph \in [SqIndex -> CqPhase]
  /\ wr_index \in SqIndex /\ wr_phase \in CqPhase
  /\ polling_index \in SqIndex /\ polling_phase \in CqPhase
  /\ free_hcmd \subseteq HostCmd /\ to_sq \in Seq(HostCmd) /\ from_cq \in Seq(HostCmd)
  /\ cpl_cnt \in [HostCmd -> 0 .. 1]
  /\ pc0 \in {"idle", "set", "send"} /\ sq0 \in SqIndex /\ hcmd0 \in HostCmd \cup {NoHcmd}
  /\ pc1 \in {"poll", "ptr", "hcmd", "free", "count"} /\ cq1 \in SqIndex /\ sq1 \in SqIndex
  /\ hcmd1 \in HostCmd \cup {NoHcmd}

\* Core 1 takes the CQ entry for a new one exactly when the controller has
\* written completions that core 1 has not polled: through the wraps of the
\* index and of the two-bit phase, and although the CQ starts as 0xff.
PhaseExact == cq_ph[polling_index] = polling_phase <=> completed # {}

\* The SQ entries of the bitmap are exactly those some party still uses: core
\* 0 before it sends, the controller, the CQ, and core 1 before it frees.
EntriesExact ==
  bitmap = sent \cup completed
             \cup (IF pc0 # "idle" THEN {sq0} ELSE {})
             \cup (IF pc1 = "ptr" THEN {cq_ptr[cq1]} ELSE {})
             \cup (IF pc1 \in {"hcmd", "free"} THEN {sq1} ELSE {})

\* Where a command can be.
Occurrences(q, h) == Cardinality({k \in DOMAIN q : q[k] = h})
InFlight(h) ==
  {i \in sent \cup completed \cup (IF pc1 = "ptr" THEN {cq_ptr[cq1]} ELSE {})
           \cup (IF pc1 = "hcmd" THEN {sq1} ELSE {}) : hcmd_index[i] = h}

\* No completion is lost, counted twice or credited to another command: every
\* command is at any time in exactly one place.
EachHcmdOnce ==
  \A h \in HostCmd :
    Occurrences(to_sq, h) + Occurrences(from_cq, h) + Cardinality(InFlight(h))
      + (IF h \in free_hcmd THEN 1 ELSE 0) + (IF hcmd0 = h THEN 1 ELSE 0) + (IF hcmd1 = h THEN 1 ELSE 0) = 1

\* A command that has been sent comes back to core 0.
SentComesBack == \A h \in HostCmd : InFlight(h) # {} ~> Occurrences(from_cq, h) > 0
=============================================================================
