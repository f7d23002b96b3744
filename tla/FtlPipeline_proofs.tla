------------------------ MODULE FtlPipeline_proofs --------------------------
(***************************************************************************)
(* The safety invariants of FtlPipeline, for every size of the tables and   *)
(* queues.  The inductive invariant IInv adds to the properties of          *)
(* FtlPipeline what the two threads know at each place (MutexInv, LoopInv)  *)
(* and what has happened to a command by the time it is in a queue          *)
(* (StageInv).                                                              *)
(***************************************************************************)
EXTENDS FtlPipeline, QueueLemmas, SequenceTheorems

\* Which thread is inside a critical section of fcl_be_mutex.
MutexInv ==
  /\ pc \in {"send", "cq"} <=> fcl_be_mutex = "ftl"
  /\ be_pc \in {"check", "done"} <=> fcl_be_mutex = "be"

\* What the polling loop knows of the queue it is draining.
LoopInv ==
  /\ pc \in {"task", "send_lock", "send"} => i \in Status
  /\ pc \in {"send_lock", "send"} => i = HCE_TO_SQ /\ cnt > 0 /\ cnt - 1 <= Len(tq[HCE_TO_SQ])
  /\ SampleCovered

\* The progress of a command, by the place where it is.
NotStarted(h) == hcmd[h].cpl_cnt = 0
Complete(h) == hcmd[h].cpl_cnt = hcmd[h].req_num /\ hcmd[h].cpl_cnt > 0

StageOk(s, h) ==
  CASE s \in {HCE_CHECK_CACHE, HCE_TO_SQ} -> NotStarted(h)
    [] s = HCE_DATAMOVED -> IF hcmd[h].op_code = HCE_WRITE THEN NotStarted(h) ELSE Complete(h)
    [] OTHER -> Complete(h)

StageInv ==
  /\ \A h \in hcmd_map : hcmd[h].op_code \in Ops
  /\ \A h \in FlightHcmds : NotStarted(h)
  /\ \A s \in Status : \A h \in Range(tq[s]) : StageOk(s, h)

\* Where commands are and what they have done; where the threads are.
PlaceInv == OnePlace /\ SqBitmapExact /\ NoCommandLost /\ StageInv
ControlInv == MutexInv /\ LoopInv /\ NoLostWakeup

IInv == TypeOK /\ PlaceInv /\ ControlInv

-----------------------------------------------------------------------------
(* The queues.                                                              *)

LEMMA HcmdIsFinite == IsFiniteSet(Hcmd) /\ Cardinality(Hcmd) = HCMD_NUM
  <1>1. 0 \in Int /\ HCMD_NUM - 1 \in Int /\ HCMD_NUM > 0
    BY PipelineAssumption
  <1>2. /\ IsFiniteSet(0 .. HCMD_NUM - 1)
        /\ Cardinality(0 .. HCMD_NUM - 1) = IF 0 > HCMD_NUM - 1 THEN 0 ELSE HCMD_NUM - 1 - 0 + 1
    BY <1>1, FS_Interval, Zenon
  <1>. QED BY <1>1, <1>2, PipelineAssumption DEF Hcmd

\* FTL_sendhcmd never finds its queue full: the entries of a queue are
\* distinct, and there are no more entries than places in a queue.
LEMMA SendFits ==
  ASSUME NEW q, Family(Status, Hcmd, q), NEW s \in Status, NEW h \in Hcmd,
         \A t \in Status : h \notin Range(q[t])
  PROVE  /\ Sendhcmd(q, h, s) = Enqueue(q, s, h)
         /\ Enqueued(Status, Hcmd, q, s, h, Sendhcmd(q, h, s))
  <1>1. q[s] \in Seq(Hcmd) /\ \A k, l \in 1 .. Len(q[s]) : q[s][k] = q[s][l] => k = l
    BY DEF Family, NoRepeat
  <1>2. Len(q[s]) < Cardinality(Hcmd)
    BY <1>1, HcmdIsFinite, DistinctIsShort
  <1>3. Len(q[s]) # TASK_QUEUE_MAX
    BY <1>1, <1>2, HcmdIsFinite, PipelineAssumption
  <1>4. Sendhcmd(q, h, s) = Enqueue(q, s, h)
    BY <1>3 DEF Sendhcmd
  <1>5. Enqueued(Status, Hcmd, q, s, h, Enqueue(q, s, h))
    BY EnqueueProps
  <1>. QED BY <1>4, <1>5

\* A handler that passes the head of queue s on to queue t.
LEMMA AdvanceProps ==
  ASSUME NEW q, Family(Status, Hcmd, q), NEW s \in Status, NEW t \in Status, q[s] # << >>
  PROVE  Moved(Status, Hcmd, q, s, t, Head(q[s]), Sendhcmd(RemoveHead(q, s), Head(q[s]), t))
  <1> DEFINE h == Head(q[s])
             m == Dequeue(q, s)
  <1>1. Dequeued(Status, Hcmd, q, s, h, m)
    BY DequeueProps
  <1>2. Moved(Status, Hcmd, q, s, t, h, Enqueue(m, t, h))
    BY MoveProps
  <1>3. Sendhcmd(m, h, t) = Enqueue(m, t, h)
    <2> HIDE DEF h, m
    <2>. QED BY <1>1, SendFits DEF Dequeued
  <1>. QED BY <1>2, <1>3 DEF RemoveHead

LEMMA OneElement ==
  ASSUME NEW E, NEW q \in Seq(E), Len(q) = 1
  PROVE  q # << >> /\ Head(q) \in E /\ Tail(q) = << >>
  <1>1. q # << >> /\ Head(q) \in E /\ Tail(q) \in Seq(E) /\ Len(Tail(q)) = 0
    OBVIOUS
  <1>2. Tail(q) = << >>
    BY <1>1, EmptySeq
  <1>. QED BY <1>1, <1>2

\* The four places of an EMU_sq form a family.
LEMMA SqsIsFamily ==
  ASSUME TypeOK, OnePlace
  PROVE  /\ Family(1 .. 4, EMU_sq, Sqs)
         /\ Sqs[1] = ftl_sq /\ Sqs[2] = register_list /\ Sqs[3] = r_sq /\ Sqs[4] = complete_list
         /\ FlightSqs \subseteq EMU_sq /\ FlightHcmds \subseteq Hcmd
  <1>1. Sqs \in [1 .. 4 -> Seq(EMU_sq)]
    BY DEF TypeOK, Sqs
  <1>2. \A a \in 1 .. 4 : Range(Sqs[a]) \subseteq EMU_sq
    <2>1. \A a \in 1 .. 4 : Sqs[a] \in Seq(EMU_sq)
      BY <1>1
    <2>. QED BY <2>1, RangeIsIndexed
  <1>3. \A x : x \in FlightSqs <=> \E a \in 1 .. 4 : x \in Range(Sqs[a])
    BY <1>1, InMembers DEF FlightSqs
  <1>4. FlightSqs \subseteq EMU_sq
    BY <1>2, <1>3
  <1>. QED BY <1>1, <1>4 DEF Family, OnePlace, FlightHcmds, EMU_sq, Sqs

LEMMA TqIsFamily ==
  ASSUME TypeOK, OnePlace
  PROVE  Family(Status, Hcmd, tq)
  BY DEF TypeOK, OnePlace, Family

-----------------------------------------------------------------------------
(* Type correctness.                                                        *)

LEMMA TypeInit == Init => TypeOK
  BY PipelineAssumption DEF Init, TypeOK, HcmdEntry, ZeroEntry, Ops, EMU_sq

\* What each branch of the polling loops leaves in i, cnt and pc.
LEMMA PollNextType ==
  ASSUME TypeOK, PollNext, tq' \in [Status -> Seq(Hcmd)]
  PROVE  i' \in Nat /\ cnt' \in Nat /\ pc' \in {"nvme", "task"}
  <1>1. HCE_CHECK_CACHE \in Status /\ HCE_CHECK_CACHE \in Nat
    BY DEF Status, HCE_CHECK_CACHE, HCE_FINISH
  <1>2. Len(tq'[HCE_CHECK_CACHE]) \in Nat
    BY <1>1
  <1>. QED BY <1>1, <1>2 DEF TypeOK, PollNext

LEMMA TypeStep == IInv /\ [Next]_vars => TypeOK'
  <1> SUFFICES ASSUME IInv, [Next]_vars PROVE TypeOK'
    OBVIOUS
  <1> USE DEF IInv, PlaceInv
  <1>q. Family(Status, Hcmd, tq) /\ tq \in [Status -> Seq(Hcmd)]
    BY TqIsFamily DEF TypeOK
  <1>s. \A s \in Status : s \in Nat
    BY DEF Status, HCE_CHECK_CACHE, HCE_FINISH
  <1>c. /\ HCE_CHECK_CACHE \in Status /\ HCE_TO_SQ \in Status /\ HCE_DATAMOVED \in Status
        /\ HCE_FROM_CQ \in Status /\ HCE_FINISH \in Status
    BY DEF Status, HCE_CHECK_CACHE, HCE_TO_SQ, HCE_DATAMOVED, HCE_FROM_CQ, HCE_FINISH
  <1>adv. \A s, t \in Status : tq[s] # << >> =>
            /\ Sendhcmd(RemoveHead(tq, s), Head(tq[s]), t) \in [Status -> Seq(Hcmd)]
            /\ RemoveHead(tq, s) \in [Status -> Seq(Hcmd)]
            /\ Head(tq[s]) \in Hcmd
    <2> SUFFICES ASSUME NEW s \in Status, NEW t \in Status, tq[s] # << >>
                 PROVE  /\ Sendhcmd(RemoveHead(tq, s), Head(tq[s]), t) \in [Status -> Seq(Hcmd)]
                        /\ RemoveHead(tq, s) \in [Status -> Seq(Hcmd)]
                        /\ Head(tq[s]) \in Hcmd
      OBVIOUS
    <2>1. Moved(Status, Hcmd, tq, s, t, Head(tq[s]), Sendhcmd(RemoveHead(tq, s), Head(tq[s]), t))
      BY <1>q, AdvanceProps
    <2>2. Dequeued(Status, Hcmd, tq, s, Head(tq[s]), RemoveHead(tq, s))
      BY <1>q, DequeueProps DEF RemoveHead
    <2>. QED BY <2>1, <2>2 DEF Moved, Dequeued, Family
  <1>1. ASSUME PollNone \/ PollNoEntry PROVE TypeOK'
    <2>1. UNCHANGED <<cmdVars, tq, sq_bitmap, ftl_sq, linkVars, beVars>> /\ PollNext /\ pc = "nvme"
      BY <1>1 DEF PollNone, PollNoEntry
    <2>2. i' \in Nat /\ cnt' \in Nat /\ pc' \in {"nvme", "task"}
      BY <1>q, <2>1, PollNextType
    <2>. QED BY <2>1, <2>2 DEF TypeOK, cmdVars, linkVars, beVars
  <1>2. ASSUME NEW op \in Ops, NEW size \in Sizes, PollAccept(op, size) PROVE TypeOK'
    <2>1. PICK h \in Hcmd :
            /\ hcmd_map' = hcmd_map \cup {h}
            /\ hcmd' = [hcmd EXCEPT ![h] = [op_code |-> op, req_num |-> ReqNum(size),
                                            cpl_cnt |-> 0, emu_id |-> emu_c + 1]]
            /\ h \notin hcmd_map
            /\ tq' = Sendhcmd(tq, h, HCE_CHECK_CACHE)
      BY <1>2 DEF PollAccept, IsFirstFree
    <2>2. ReqNum(size) \in Nat
      BY PipelineAssumption DEF ReqNum, HOST_BLOCK_SIZE
    <2>3. tq' \in [Status -> Seq(Hcmd)]
      <3>1. Sendhcmd(tq, h, HCE_CHECK_CACHE) = tq \/ Sendhcmd(tq, h, HCE_CHECK_CACHE) = Enqueue(tq, HCE_CHECK_CACHE, h)
        BY DEF Sendhcmd
      <3>2. Enqueue(tq, HCE_CHECK_CACHE, h) \in [Status -> Seq(Hcmd)]
        <4>1. Append(tq[HCE_CHECK_CACHE], h) \in Seq(Hcmd)
          BY <1>q, <1>c
        <4>. QED BY <1>q, <1>c, <4>1 DEF Enqueue
      <3>. QED BY <1>q, <2>1, <3>1, <3>2
    <2>4. i' \in Nat /\ cnt' \in Nat /\ pc' \in {"nvme", "task"}
      BY <1>2, <2>3, PollNextType DEF PollAccept
    <2>5. hcmd' \in [Hcmd -> HcmdEntry] /\ hcmd_map' \subseteq Hcmd
      BY <2>1, <2>2 DEF TypeOK, HcmdEntry
    <2>. QED BY <1>2, <2>3, <2>4, <2>5 DEF TypeOK, PollAccept, linkVars, beVars
  <1>3. ASSUME NextQueue PROVE TypeOK'
    <2>1. i' \in Nat /\ cnt' \in Nat /\ pc' \in {"task", "cq_lock"}
      BY <1>3 DEF NextQueue, TypeOK, Status, HCE_CHECK_CACHE, HCE_FINISH, ControlInv, LoopInv
    <2>. QED BY <1>3, <2>1 DEF NextQueue, TypeOK, cmdVars, linkVars, beVars
  <1>4. ASSUME HandleCheckcache \/ HandleTosqRetry \/ HandleDatamove \/ HandleFromcq PROVE TypeOK'
    <2>1. tq' \in [Status -> Seq(Hcmd)]
      <3>1. CASE HandleCheckcache
        BY <3>1, <1>adv, <1>c DEF HandleCheckcache, Polled
      <3>2. CASE HandleTosqRetry
        BY <3>2, <1>adv, <1>c DEF HandleTosqRetry, Polled
      <3>3. CASE HandleDatamove
        BY <3>3, <1>adv, <1>c DEF HandleDatamove, Polled
      <3>4. CASE HandleFromcq
        BY <3>4, <1>adv, <1>c DEF HandleFromcq, Polled
      <3>. QED BY <1>4, <3>1, <3>2, <3>3, <3>4
    <2>2. cnt' \in Nat /\ UNCHANGED <<cmdVars, sq_bitmap, pc, i, ftl_sq, linkVars, beVars>>
      BY <1>4 DEF HandleCheckcache, HandleTosqRetry, HandleDatamove, HandleFromcq, Polled, TypeOK
    <2>. QED BY <2>1, <2>2 DEF TypeOK, cmdVars, linkVars, beVars
  <1>5. ASSUME HandleTosq PROVE TypeOK'
    <2>1. tq' \in [Status -> Seq(Hcmd)] /\ Head(tq[HCE_TO_SQ]) \in Hcmd
      BY <1>5, <1>adv, <1>c DEF HandleTosq, Polled
    <2>2. hcmd[Head(tq[HCE_TO_SQ])].op_code \in Ops
      <3>1. Head(tq[HCE_TO_SQ]) \in Members(tq)
        BY <1>5, <1>q, <1>c, DequeueProps DEF HandleTosq, Polled, Dequeued
      <3>. QED BY <3>1 DEF OnePlace, StageInv
    <2>3. PICK x \in SqIndex :
            /\ sq_bitmap' = sq_bitmap \cup {x}
            /\ ftl_sq' = <<[sq_index |-> x, hcmd_index |-> Head(tq[HCE_TO_SQ]),
                            op |-> hcmd[Head(tq[HCE_TO_SQ])].op_code]>>
      BY <1>5 DEF HandleTosq, FCL_get_free_SQ_entry, FCL_set_SQ_entry
    <2>4. ftl_sq' \in Seq(EMU_sq) /\ Len(ftl_sq') = 1
      BY <2>1, <2>2, <2>3 DEF EMU_sq
    <2>. QED BY <1>5, <2>1, <2>3, <2>4 DEF HandleTosq, TypeOK, cmdVars, linkVars, beVars
  <1>6. ASSUME HandleFinish PROVE TypeOK'
    <2>1. tq' \in [Status -> Seq(Hcmd)]
      BY <1>6, <1>adv, <1>c DEF HandleFinish, Polled
    <2>2. hcmd' \in [Hcmd -> HcmdEntry] /\ cnt' \in Nat
      <3>1. ZeroEntry \in HcmdEntry
        BY DEF HcmdEntry, ZeroEntry
      <3>2. hcmd' \in [Hcmd -> HcmdEntry]
        BY <1>6, <3>1 DEF HandleFinish, TypeOK
      <3>3. cnt' \in Nat
        BY <1>6 DEF HandleFinish, Polled, TypeOK
      <3>. QED BY <3>2, <3>3
    <2>. QED BY <1>6, <2>1, <2>2 DEF HandleFinish, TypeOK, linkVars, beVars
  <1>7. ASSUME BE_send_sq PROVE TypeOK'
    <2>1. register_list' \in Seq(EMU_sq) /\ cnt' \in Nat
      <3>1. Head(ftl_sq) \in EMU_sq
        BY <1>7, OneElement DEF BE_send_sq, TypeOK
      <3>. QED BY <1>7, <3>1 DEF BE_send_sq, TypeOK, ControlInv, LoopInv
    <2>. QED BY <1>7, <2>1 DEF BE_send_sq, TypeOK, cmdVars
  <1>8. ASSUME CqEntry PROVE TypeOK'
    <2>1. Head(complete_list).hcmd_index \in Hcmd /\ complete_list' \in Seq(EMU_sq)
      <3>1. complete_list # << >> /\ complete_list \in Seq(EMU_sq) /\ complete_list' = Tail(complete_list)
        BY <1>8 DEF CqEntry, TypeOK
      <3>2. Head(complete_list) \in EMU_sq /\ complete_list' \in Seq(EMU_sq)
        BY <3>1
      <3>. QED BY <3>2 DEF EMU_sq
    <2>2. hcmd' \in [Hcmd -> HcmdEntry]
      <3> DEFINE h == Head(complete_list).hcmd_index
      <3>1. hcmd[h] \in HcmdEntry
        BY <2>1 DEF TypeOK
      <3>2. [hcmd[h] EXCEPT !.cpl_cnt = hcmd[h].cpl_cnt + 1] \in HcmdEntry
        BY <3>1 DEF HcmdEntry
      <3>3. hcmd' = [hcmd EXCEPT ![h] = [hcmd[h] EXCEPT !.cpl_cnt = hcmd[h].cpl_cnt + 1]]
        BY <1>8 DEF CqEntry
      <3>. QED BY <2>1, <3>2, <3>3 DEF TypeOK
    <2>3. tq' \in [Status -> Seq(Hcmd)]
      BY <1>8, <1>q, <1>c, <2>1 DEF CqEntry, Sendhcmd, Enqueue
    <2>. QED BY <1>8, <2>1, <2>2, <2>3 DEF CqEntry, FCL_free_SQ_entry, TypeOK, ftlVars, beVars
  <1>9. ASSUME SendLock \/ CqLock \/ CqUnlock PROVE TypeOK'
    BY <1>9 DEF SendLock, CqLock, CqUnlock, TypeOK, cmdVars, beVars
  <1>10. ASSUME BeLock \/ BeWait \/ BeSpuriousWake \/ BeLockDone PROVE TypeOK'
    BY <1>10 DEF BeLock, BeWait, BeSpuriousWake, BeLockDone, TypeOK, cmdVars, ftlVars, linkVars
  <1>11. ASSUME BeTake PROVE TypeOK'
    <2>1. r_sq' \in Seq(EMU_sq) /\ Len(r_sq') = 1 /\ register_list' \in Seq(EMU_sq)
      BY <1>11 DEF BeTake, TypeOK
    <2>. QED BY <1>11, <2>1 DEF BeTake, TypeOK, cmdVars, ftlVars
  <1>12. ASSUME BeDone PROVE TypeOK'
    <2>1. complete_list' \in Seq(EMU_sq)
      <3>1. Head(r_sq) \in EMU_sq
        BY <1>12, OneElement DEF BeDone, TypeOK
      <3>. QED BY <1>12, <3>1 DEF BeDone, TypeOK
    <2>. QED BY <1>12, <2>1 DEF BeDone, TypeOK, cmdVars, ftlVars
  <1>13. ASSUME UNCHANGED vars PROVE TypeOK'
    BY <1>13 DEF vars, cmdVars, ftlVars, linkVars, beVars, TypeOK
  <1>. QED
    BY <1>1, <1>2, <1>3, <1>4, <1>5, <1>6, <1>7, <1>8, <1>9, <1>10, <1>11, <1>12, <1>13
       DEF Next, PollStep, TaskStep, CqStep, BeStep

-----------------------------------------------------------------------------
(* The threads: the mutex, the polling loop, the condition variable.        *)

LEMMA ControlInit == Init => ControlInv
  BY DEF Init, ControlInv, MutexInv, LoopInv, SampleCovered, NoLostWakeup

LEMMA MutexStep == IInv /\ [Next]_vars => (MutexInv /\ NoLostWakeup)'
  <1> SUFFICES ASSUME IInv, [Next]_vars PROVE (MutexInv /\ NoLostWakeup)'
    OBVIOUS
  <1> USE DEF IInv, ControlInv, MutexInv, NoLostWakeup
  <1>1. ASSUME PollStep PROVE (MutexInv /\ NoLostWakeup)'
    <2>1. pc = "nvme" /\ pc' \in {"nvme", "task"} /\ UNCHANGED <<linkVars, beVars>>
      BY <1>1 DEF PollStep, PollNone, PollNoEntry, PollAccept, PollNext
    <2>. QED BY <2>1 DEF linkVars, beVars
  <1>2. ASSUME TaskStep, ~BE_send_sq PROVE (MutexInv /\ NoLostWakeup)'
    <2>1. pc = "task" /\ pc' \in {"task", "send_lock", "cq_lock"} /\ UNCHANGED <<linkVars, beVars>>
      BY <1>2 DEF TaskStep, NextQueue, HandleCheckcache, HandleTosqRetry, HandleTosq,
                  HandleDatamove, HandleFromcq, HandleFinish, Polled
    <2>. QED BY <2>1 DEF linkVars, beVars
  <1>3. ASSUME BE_send_sq PROVE (MutexInv /\ NoLostWakeup)'
    BY <1>3 DEF BE_send_sq
  <1>4. ASSUME SendLock \/ CqLock \/ CqUnlock PROVE (MutexInv /\ NoLostWakeup)'
    BY <1>4 DEF SendLock, CqLock, CqUnlock, beVars
  <1>5. ASSUME CqEntry PROVE (MutexInv /\ NoLostWakeup)'
    BY <1>5 DEF CqEntry, ftlVars, beVars
  <1>6. ASSUME BeLock \/ BeWait \/ BeSpuriousWake \/ BeTake \/ BeLockDone \/ BeDone
        PROVE  (MutexInv /\ NoLostWakeup)'
    BY <1>6 DEF BeLock, BeWait, BeSpuriousWake, BeTake, BeLockDone, BeDone, ftlVars, linkVars, TypeOK
  <1>7. ASSUME UNCHANGED vars PROVE (MutexInv /\ NoLostWakeup)'
    BY <1>7 DEF vars, ftlVars, linkVars, beVars
  <1>. QED BY <1>1, <1>2, <1>3, <1>4, <1>5, <1>6, <1>7 DEF Next, TaskStep, CqStep, BeStep

\* A handler removes one head of the queue it drains and counts it.
LEMMA LoopStep == IInv /\ [Next]_vars => LoopInv'
  <1> SUFFICES ASSUME IInv, [Next]_vars PROVE LoopInv'
    OBVIOUS
  <1> USE DEF IInv, ControlInv, PlaceInv
  <1>t. TypeOK'
    BY TypeStep
  <1>q. Family(Status, Hcmd, tq) /\ \A s \in Status : Len(tq[s]) \in Nat /\ Len(tq'[s]) \in Nat
    BY <1>t, TqIsFamily DEF TypeOK
  <1>c. /\ HCE_CHECK_CACHE \in Status /\ HCE_TO_SQ \in Status /\ HCE_DATAMOVED \in Status
        /\ HCE_FROM_CQ \in Status /\ HCE_FINISH \in Status
    BY DEF Status, HCE_CHECK_CACHE, HCE_TO_SQ, HCE_DATAMOVED, HCE_FROM_CQ, HCE_FINISH
  <1>adv. \A s, t \in Status : tq[s] # << >> =>
            /\ Len(Sendhcmd(RemoveHead(tq, s), Head(tq[s]), t)[s]) >= Len(tq[s]) - 1
            /\ Len(RemoveHead(tq, s)[s]) = Len(tq[s]) - 1
    <2> SUFFICES ASSUME NEW s \in Status, NEW t \in Status, tq[s] # << >>
                 PROVE  /\ Len(Sendhcmd(RemoveHead(tq, s), Head(tq[s]), t)[s]) >= Len(tq[s]) - 1
                        /\ Len(RemoveHead(tq, s)[s]) = Len(tq[s]) - 1
      OBVIOUS
    <2>1. Moved(Status, Hcmd, tq, s, t, Head(tq[s]), Sendhcmd(RemoveHead(tq, s), Head(tq[s]), t))
      BY <1>q, AdvanceProps
    <2>2. Dequeued(Status, Hcmd, tq, s, Head(tq[s]), RemoveHead(tq, s))
      BY <1>q, DequeueProps DEF RemoveHead
    <2>. QED BY <2>1, <2>2 DEF Moved, Dequeued
  <1>1. ASSUME PollStep PROVE LoopInv'
    <2>1. PollNext
      BY <1>1 DEF PollStep, PollNone, PollNoEntry, PollAccept
    <2>. QED BY <1>c, <1>q, <2>1 DEF PollNext, LoopInv, SampleCovered
  <1>2. ASSUME NextQueue PROVE LoopInv'
    <2>1. i \in Status /\ (i < HCE_FINISH => i + 1 \in Status)
      BY <1>2 DEF NextQueue, LoopInv, Status, HCE_CHECK_CACHE, HCE_FINISH
    <2>. QED BY <1>2, <1>q, <2>1 DEF NextQueue, LoopInv, SampleCovered
  <1>3. ASSUME NEW s \in Status, NEW t \in Status, Polled(s), cnt' = cnt - 1, UNCHANGED <<pc, i>>,
               \/ tq' = Sendhcmd(RemoveHead(tq, s), Head(tq[s]), t)
               \/ tq' = RemoveHead(tq, s)
        PROVE  LoopInv'
    <2>1. pc' = "task" /\ i' = s /\ Len(tq'[s]) >= Len(tq[s]) - 1 /\ cnt <= Len(tq[s])
      BY <1>3, <1>adv, <1>q DEF Polled, LoopInv, SampleCovered
    <2>. QED BY <1>3, <1>q, <2>1 DEF LoopInv, SampleCovered, TypeOK
  <1>4. ASSUME HandleCheckcache PROVE LoopInv'
    BY <1>4, <1>3, <1>c DEF HandleCheckcache
  <1>5. ASSUME HandleTosqRetry PROVE LoopInv'
    BY <1>5, <1>3, <1>c DEF HandleTosqRetry
  <1>6. ASSUME HandleDatamove PROVE LoopInv'
    BY <1>6, <1>3, <1>c DEF HandleDatamove
  <1>7. ASSUME HandleFromcq PROVE LoopInv'
    BY <1>7, <1>3, <1>c DEF HandleFromcq
  <1>8. ASSUME HandleFinish PROVE LoopInv'
    BY <1>8, <1>3, <1>c DEF HandleFinish
  <1>9. ASSUME HandleTosq PROVE LoopInv'
    <2>1. pc = "task" /\ i = HCE_TO_SQ /\ cnt > 0 /\ tq[HCE_TO_SQ] # << >>
          /\ tq' = RemoveHead(tq, HCE_TO_SQ) /\ pc' = "send_lock" /\ UNCHANGED <<i, cnt>>
      BY <1>9 DEF HandleTosq, Polled
    <2>2. Len(tq'[HCE_TO_SQ]) = Len(tq[HCE_TO_SQ]) - 1 /\ cnt <= Len(tq[HCE_TO_SQ])
      BY <1>c, <1>adv, <2>1 DEF LoopInv, SampleCovered
    <2>. QED BY <1>c, <1>q, <2>1, <2>2 DEF LoopInv, SampleCovered, TypeOK
  <1>10. ASSUME BE_send_sq PROVE LoopInv'
    BY <1>10, <1>q, <1>c DEF BE_send_sq, LoopInv, SampleCovered, TypeOK
  <1>11. ASSUME SendLock \/ CqLock \/ CqUnlock PROVE LoopInv'
    BY <1>11 DEF SendLock, CqLock, CqUnlock, LoopInv, SampleCovered
  <1>12. ASSUME CqEntry PROVE LoopInv'
    BY <1>12 DEF CqEntry, ftlVars, LoopInv, SampleCovered
  <1>13. ASSUME BeLock \/ BeStep \/ BeLockDone \/ BeSpuriousWake \/ UNCHANGED vars PROVE LoopInv'
    <2>1. UNCHANGED <<tq, ftlVars>>
      BY <1>13 DEF BeLock, BeStep, BeWait, BeTake, BeDone, BeLockDone, BeSpuriousWake, vars
    <2>. QED BY <2>1 DEF ftlVars, LoopInv, SampleCovered
  <1>. QED
    BY <1>1, <1>2, <1>4, <1>5, <1>6, <1>7, <1>8, <1>9, <1>10, <1>11, <1>12, <1>13
       DEF Next, TaskStep, CqStep

-----------------------------------------------------------------------------
(* The places of commands and SQ entries.                                   *)

LEMMA PlaceInit == Init => PlaceInv
  <1> SUFFICES ASSUME Init PROVE PlaceInv
    OBVIOUS
  <1>1. tq \in [Status -> Seq(Hcmd)] /\ \A s \in Status : tq[s] = << >>
    BY DEF Init
  <1>2. Sqs \in [1 .. 4 -> Seq(EMU_sq)] /\ \A a \in 1 .. 4 : Sqs[a] = << >>
    <2>1. Sqs \in [1 .. 4 -> Seq(EMU_sq)]
      BY TypeInit DEF TypeOK, Sqs
    <2>2. Sqs[1] = << >> /\ Sqs[2] = << >> /\ Sqs[3] = << >> /\ Sqs[4] = << >>
      BY DEF Init, Sqs
    <2>3. \A a \in 1 .. 4 : a = 1 \/ a = 2 \/ a = 3 \/ a = 4
      OBVIOUS
    <2>. QED BY <2>1, <2>2, <2>3
  <1>3. \A x : x \notin Range(<< >>)
    BY DEF Range
  <1>4. \A x : x \notin Members(tq) /\ x \notin FlightSqs
    BY <1>1, <1>2, <1>3, InMembers DEF FlightSqs
  <1>5. NoRepeat(tq) /\ NoRepeat(Sqs)
    BY <1>1, <1>2 DEF NoRepeat
  <1>6. FlightHcmds = {} /\ FlightSqs = {} /\ {sq.sq_index : sq \in FlightSqs} = {}
    BY <1>4 DEF FlightHcmds
  <1>. QED BY <1>1, <1>3, <1>4, <1>5, <1>6
           DEF Init, PlaceInv, OnePlace, SqBitmapExact, NoCommandLost, StageInv

\* Nothing moves.
LEMMA StayStep ==
  ASSUME IInv, UNCHANGED <<hcmd_map, hcmd, tq, sq_bitmap>>, Sqs' = Sqs
  PROVE  PlaceInv'
  <1>1. FlightSqs' = FlightSqs
    BY DEF FlightSqs
  <1>2. FlightHcmds' = FlightHcmds
    BY <1>1 DEF FlightHcmds
  <1>. QED BY <1>1, <1>2 DEF IInv, PlaceInv, OnePlace, SqBitmapExact, NoCommandLost, StageInv,
                          StageOk, NotStarted, Complete

\* A command passes from one task queue to another, or to the end of its own.
LEMMA PassStep ==
  ASSUME IInv, NEW s \in Status, NEW t \in Status, tq[s] # << >>,
         tq' = Sendhcmd(RemoveHead(tq, s), Head(tq[s]), t), StageOk(t, Head(tq[s])),
         UNCHANGED <<hcmd_map, hcmd, sq_bitmap>>, Sqs' = Sqs
  PROVE  PlaceInv'
  <1> USE DEF IInv, PlaceInv
  <1> DEFINE h == Head(tq[s])
  <1>1. Family(Status, Hcmd, tq)
    BY TqIsFamily
  <1>2. Moved(Status, Hcmd, tq, s, t, h, tq')
    BY <1>1, AdvanceProps
  <1>3. FlightSqs' = FlightSqs
    BY DEF FlightSqs
  <1>4. FlightHcmds' = FlightHcmds
    BY <1>3 DEF FlightHcmds
  <1> HIDE DEF h
  <1>5. NoRepeat(tq)' /\ Members(tq)' = Members(tq)
    BY <1>2 DEF Moved, Family
  <1>6. OnePlace' /\ SqBitmapExact' /\ NoCommandLost'
    BY <1>3, <1>4, <1>5 DEF OnePlace, SqBitmapExact, NoCommandLost
  <1>7. \A u \in Status : \A g \in Range(tq'[u]) : StageOk(u, g)
    <2>1. \A u \in Status : \A g \in Range(tq'[u]) : g \in Range(tq[u]) \/ (u = t /\ g = h)
      BY <1>2 DEF Moved
    <2>2. StageOk(t, h)
      BY DEF h
    <2>. QED BY <2>1, <2>2 DEF StageInv
  <1>8. \A u, g : StageOk(u, g)' <=> StageOk(u, g)
    BY DEF StageOk, NotStarted, Complete
  <1>9. StageInv'
    BY <1>4, <1>7, <1>8 DEF StageInv, NotStarted
  <1>. QED BY <1>6, <1>9

\* An EMU_sq passes from one of its places to another.
LEMMA HandOverStep ==
  ASSUME IInv, NEW a \in 1 .. 4, NEW b \in 1 .. 4, Sqs[a] # << >>,
         Sqs' = Enqueue(Dequeue(Sqs, a), b, Head(Sqs[a])),
         UNCHANGED <<hcmd_map, hcmd, tq, sq_bitmap>>
  PROVE  PlaceInv'
  <1>1. Family(1 .. 4, EMU_sq, Sqs)
    BY SqsIsFamily DEF IInv, PlaceInv
  <1>2. Moved(1 .. 4, EMU_sq, Sqs, a, b, Head(Sqs[a]), Sqs')
    BY <1>1, MoveProps
  <1>3. NoRepeat(Sqs)' /\ FlightSqs' = FlightSqs
    BY <1>2 DEF Moved, Family, FlightSqs
  <1>4. FlightHcmds' = FlightHcmds
    BY <1>3 DEF FlightHcmds
  <1>. QED BY <1>3, <1>4 DEF IInv, PlaceInv, OnePlace, SqBitmapExact, NoCommandLost, StageInv,
                          StageOk, NotStarted, Complete

LEMMA AcceptStep ==
  ASSUME IInv, NEW op \in Ops, NEW size \in Sizes, PollAccept(op, size)
  PROVE  PlaceInv'
  <1> USE DEF IInv, PlaceInv
  <1>1. PICK h \in Hcmd :
          /\ h \notin hcmd_map
          /\ hcmd_map' = hcmd_map \cup {h}
          /\ hcmd' = [hcmd EXCEPT ![h] = [op_code |-> op, req_num |-> ReqNum(size),
                                          cpl_cnt |-> 0, emu_id |-> emu_c + 1]]
          /\ tq' = Sendhcmd(tq, h, HCE_CHECK_CACHE)
    BY DEF PollAccept, IsFirstFree
  <1>2. /\ hcmd'[h].op_code \in Ops /\ hcmd'[h].cpl_cnt = 0
        /\ \A g \in Hcmd : g # h => hcmd'[g] = hcmd[g]
    BY <1>1 DEF TypeOK
  <1>3. Sqs' = Sqs
    BY DEF PollAccept, Sqs, linkVars, beVars
  <1>4. FlightSqs' = FlightSqs
    BY <1>3 DEF FlightSqs
  <1>5. FlightHcmds' = FlightHcmds
    BY <1>4 DEF FlightHcmds
  <1>6. h \notin Members(tq) /\ h \notin FlightHcmds
    BY <1>1 DEF OnePlace
  <1>7. Family(Status, Hcmd, tq) /\ HCE_CHECK_CACHE \in Status
    BY TqIsFamily DEF Status, HCE_CHECK_CACHE, HCE_FINISH
  <1>8. \A t \in Status : h \notin Range(tq[t]) /\ Range(tq[t]) \subseteq Members(tq)
    <2>1. \A x : x \in Members(tq) <=> \E t \in Status : x \in Range(tq[t])
      BY <1>7, InMembers DEF Family
    <2>. QED BY <1>6, <2>1
  <1>9. Enqueued(Status, Hcmd, tq, HCE_CHECK_CACHE, h, tq')
    BY <1>1, <1>7, <1>8, SendFits
  <1>10. NoRepeat(tq)' /\ Members(tq)' = Members(tq) \cup {h}
    BY <1>9 DEF Enqueued, Family
  <1>11. OnePlace'
    BY <1>1, <1>3, <1>4, <1>5, <1>6, <1>10 DEF OnePlace
  <1>12. SqBitmapExact'
    BY <1>4 DEF SqBitmapExact, PollAccept
  <1>13. NoCommandLost'
    BY <1>1, <1>2, <1>5, <1>10 DEF NoCommandLost, TypeOK
  <1>14. ASSUME NEW s \in Status, NEW g \in Range(tq'[s]) PROVE StageOk(s, g)'
    <2>1. CASE g = h
      <3>1. s = HCE_CHECK_CACHE
        BY <1>8, <1>9, <2>1 DEF Enqueued
      <3>. QED BY <1>2, <2>1, <3>1 DEF StageOk, NotStarted, HCE_CHECK_CACHE, HCE_TO_SQ, HCE_DATAMOVED
    <2>2. CASE g # h
      <3>1. g \in Range(tq[s])
        BY <1>9, <2>2 DEF Enqueued
      <3>2. StageOk(s, g)
        BY <3>1 DEF StageInv
      <3>3. g \in Hcmd
        BY <1>8, <3>1 DEF OnePlace, TypeOK
      <3>4. hcmd'[g] = hcmd[g]
        BY <1>2, <2>2, <3>3
      <3>. QED BY <3>2, <3>4 DEF StageOk, NotStarted, Complete
    <2>. QED BY <2>1, <2>2
  <1>15. StageInv'
    <2>1. \A g \in hcmd_map' : hcmd'[g].op_code \in Ops
      BY <1>1, <1>2 DEF StageInv, TypeOK
    <2>2. \A g \in FlightHcmds' : NotStarted(g)'
      BY <1>2, <1>5, <1>6 DEF StageInv, OnePlace, TypeOK, NotStarted
    <2>. QED BY <1>14, <2>1, <2>2 DEF StageInv
  <1>. QED BY <1>11, <1>12, <1>13, <1>15

LEMMA FinishStep ==
  ASSUME IInv, HandleFinish
  PROVE  PlaceInv'
  <1> USE DEF IInv, PlaceInv
  <1> DEFINE h == Head(tq[HCE_FINISH])
  <1>1. /\ tq[HCE_FINISH] # << >> /\ tq' = Dequeue(tq, HCE_FINISH)
        /\ hcmd_map' = hcmd_map \ {h} /\ sq_bitmap' = sq_bitmap
        /\ hcmd' = [hcmd EXCEPT ![h] = ZeroEntry]
    BY DEF HandleFinish, Polled, RemoveHead
  <1>2. Family(Status, Hcmd, tq) /\ HCE_FINISH \in Status
    BY TqIsFamily DEF Status, HCE_CHECK_CACHE, HCE_FINISH
  <1>3. Dequeued(Status, Hcmd, tq, HCE_FINISH, h, tq')
    BY <1>1, <1>2, DequeueProps
  <1>4. Sqs' = Sqs
    BY DEF HandleFinish, Sqs, linkVars, beVars
  <1> HIDE DEF h
  <1>5. FlightSqs' = FlightSqs
    BY <1>4 DEF FlightSqs
  <1>6. FlightHcmds' = FlightHcmds
    BY <1>5 DEF FlightHcmds
  <1>7. NoRepeat(tq)' /\ Members(tq)' = Members(tq) \ {h} /\ h \in Members(tq) /\ h \notin FlightHcmds
    BY <1>3 DEF Dequeued, Family, OnePlace
  <1>8. \A g \in Hcmd : g # h => hcmd'[g] = hcmd[g]
    BY <1>1 DEF TypeOK
  <1>9. OnePlace' /\ SqBitmapExact'
    BY <1>1, <1>4, <1>5, <1>6, <1>7 DEF OnePlace, SqBitmapExact
  <1>10. NoCommandLost'
    BY <1>1, <1>6, <1>7, <1>8 DEF NoCommandLost, TypeOK
  <1>11. ASSUME NEW s \in Status, NEW g \in Range(tq'[s]) PROVE StageOk(s, g)'
    <2>1. g # h /\ g \in Range(tq[s])
      BY <1>3 DEF Dequeued
    <2>2. StageOk(s, g) /\ g \in Hcmd
      <3>1. tq[s] \in Seq(Hcmd)
        BY DEF TypeOK
      <3>. QED BY <2>1, <3>1, RangeIsIndexed DEF StageInv
    <2>3. hcmd'[g] = hcmd[g]
      BY <1>8, <2>1, <2>2
    <2>. QED BY <2>2, <2>3 DEF StageOk, NotStarted, Complete
  <1>12. StageInv'
    <2>1. \A g \in hcmd_map' : hcmd'[g].op_code \in Ops
      BY <1>1, <1>8 DEF StageInv, TypeOK
    <2>2. \A g \in FlightHcmds' : NotStarted(g)'
      BY <1>6, <1>7, <1>8 DEF StageInv, OnePlace, TypeOK, NotStarted
    <2>. QED BY <1>11, <2>1, <2>2 DEF StageInv
  <1>. QED BY <1>9, <1>10, <1>12

LEMMA TosqStep ==
  ASSUME IInv, HandleTosq
  PROVE  PlaceInv'
  <1> USE DEF IInv, PlaceInv
  <1> DEFINE h == Head(tq[HCE_TO_SQ])
  <1>1. /\ tq[HCE_TO_SQ] # << >> /\ tq' = Dequeue(tq, HCE_TO_SQ) /\ pc = "task"
        /\ UNCHANGED <<hcmd_map, hcmd, register_list, complete_list, r_sq>>
    BY DEF HandleTosq, Polled, RemoveHead, cmdVars, linkVars, beVars
  <1>2. PICK x \in SqIndex :
          /\ x \notin sq_bitmap /\ sq_bitmap' = sq_bitmap \cup {x}
          /\ ftl_sq' = <<[sq_index |-> x, hcmd_index |-> h, op |-> hcmd[h].op_code]>>
    BY DEF HandleTosq, FCL_get_free_SQ_entry, FCL_set_SQ_entry, IsFirstFree
  <1> DEFINE e == [sq_index |-> x, hcmd_index |-> h, op |-> hcmd[h].op_code]
  <1>3. Family(Status, Hcmd, tq) /\ HCE_TO_SQ \in Status
    BY TqIsFamily DEF Status, HCE_CHECK_CACHE, HCE_TO_SQ, HCE_FINISH
  <1>4. Dequeued(Status, Hcmd, tq, HCE_TO_SQ, h, tq')
    BY <1>1, <1>3, DequeueProps
  <1>5. h \in Hcmd /\ h \in hcmd_map /\ h \notin FlightHcmds /\ NotStarted(h)
    <2>1. h \in Hcmd /\ h \in Members(tq) /\ h \in Range(tq[HCE_TO_SQ])
      BY <1>4 DEF Dequeued
    <2>2. StageOk(HCE_TO_SQ, h)
      BY <1>3, <2>1 DEF StageInv
    <2>. QED BY <2>1, <2>2 DEF OnePlace, StageOk, HCE_CHECK_CACHE, HCE_TO_SQ, HCE_DATAMOVED
  <1>6. e \in EMU_sq /\ e.sq_index = x /\ e.hcmd_index = h
    BY <1>5 DEF EMU_sq, StageInv
  <1>7. Sqs' = Enqueue(Sqs, 1, e)
    <2>1. ftl_sq = << >>
      BY <1>1, EmptySeq DEF TypeOK
    <2>2. Append(<< >>, e) = <<e>>
      BY <1>6
    <2>. QED BY <1>1, <1>2, <2>1, <2>2 DEF Sqs, Enqueue
  <1> HIDE DEF h, e
  <1>8. Family(1 .. 4, EMU_sq, Sqs) /\ 1 \in 1 .. 4 /\ e \notin FlightSqs
    BY <1>2, <1>6, SqsIsFamily DEF SqBitmapExact
  <1>9. \A a \in 1 .. 4 : e \notin Range(Sqs[a])
    <2>1. \A y : y \in FlightSqs <=> \E a \in 1 .. 4 : y \in Range(Sqs[a])
      BY <1>8, InMembers DEF Family, FlightSqs
    <2>. QED BY <1>8, <2>1
  <1>10. Enqueued(1 .. 4, EMU_sq, Sqs, 1, e, Sqs')
    BY <1>6, <1>7, <1>8, <1>9, EnqueueProps
  <1>11. NoRepeat(Sqs)' /\ FlightSqs' = FlightSqs \cup {e}
    BY <1>10 DEF Enqueued, Family, FlightSqs
  <1>12. FlightHcmds' = FlightHcmds \cup {h}
    BY <1>6, <1>11 DEF FlightHcmds
  <1>13. NoRepeat(tq)' /\ Members(tq)' = Members(tq) \ {h}
    BY <1>4 DEF Dequeued, Family
  <1>14. OnePlace'
    <2>1. \A f \in FlightSqs : f.hcmd_index # e.hcmd_index
      BY <1>5, <1>6 DEF FlightHcmds
    <2>2. \A d, f \in FlightSqs' : d.hcmd_index = f.hcmd_index => d = f
      BY <1>11, <2>1 DEF OnePlace
    <2>. QED BY <1>1, <1>5, <1>11, <1>12, <1>13, <2>2 DEF OnePlace
  <1>15. SqBitmapExact'
    <2>1. \A f \in FlightSqs : f.sq_index # x
      BY <1>2 DEF SqBitmapExact
    <2>. QED BY <1>2, <1>6, <1>11, <2>1 DEF SqBitmapExact
  <1>16. NoCommandLost'
    BY <1>1, <1>12, <1>13 DEF NoCommandLost
  <1>17. StageInv'
    <2>1. \A s \in Status : Range(tq'[s]) \subseteq Range(tq[s])
      BY <1>4 DEF Dequeued
    <2>2. \A s, g : StageOk(s, g)' <=> StageOk(s, g)
      BY <1>1 DEF StageOk, NotStarted, Complete
    <2>. QED BY <1>1, <1>5, <1>12, <2>1, <2>2 DEF StageInv, NotStarted
  <1>. QED BY <1>14, <1>15, <1>16, <1>17

\* An EMU_sq comes back: its SQ entry is freed and its command counted.
LEMMA CqStepPlaces ==
  ASSUME IInv, CqEntry
  PROVE  PlaceInv'
  <1> USE DEF IInv, PlaceInv
  <1> DEFINE e == Head(complete_list)
             h == e.hcmd_index
  <1>1. /\ complete_list # << >> /\ sq_bitmap' = sq_bitmap \ {e.sq_index}
        /\ hcmd' = [hcmd EXCEPT ![h].cpl_cnt = hcmd[h].cpl_cnt + 1]
        /\ tq' = IF hcmd[h].cpl_cnt + 1 = hcmd[h].req_num THEN Sendhcmd(tq, h, HCE_FROM_CQ) ELSE tq
        /\ complete_list' = Tail(complete_list)
        /\ UNCHANGED <<hcmd_map, ftl_sq, register_list, r_sq>>
    BY DEF CqEntry, FCL_free_SQ_entry, ftlVars, beVars
  <1>2. Family(1 .. 4, EMU_sq, Sqs) /\ Sqs[4] = complete_list /\ 4 \in 1 .. 4
    BY SqsIsFamily
  <1>3. Sqs' = Dequeue(Sqs, 4)
    BY <1>1 DEF Sqs, Dequeue
  <1>4. Dequeued(1 .. 4, EMU_sq, Sqs, 4, e, Sqs')
    BY <1>1, <1>2, <1>3, DequeueProps
  <1> HIDE DEF e
  <1>5. NoRepeat(Sqs)' /\ FlightSqs' = FlightSqs \ {e} /\ e \in FlightSqs /\ e \in EMU_sq
    BY <1>4 DEF Dequeued, Family, FlightSqs
  <1>6. FlightHcmds' = FlightHcmds \ {h} /\ h \in FlightHcmds /\ h \in hcmd_map /\ h \in Hcmd
    BY <1>5 DEF FlightHcmds, OnePlace, TypeOK
  <1>7. SqBitmapExact'
    BY <1>1, <1>5 DEF SqBitmapExact
  <1>8. /\ \A g \in Hcmd : g # h => hcmd'[g] = hcmd[g]
        /\ hcmd'[h].cpl_cnt = 1 /\ hcmd'[h].op_code = hcmd[h].op_code
        /\ hcmd'[h].req_num = hcmd[h].req_num /\ hcmd[h].cpl_cnt = 0
    <2>1. hcmd[h].cpl_cnt = 0 /\ hcmd[h] \in HcmdEntry /\ DOMAIN hcmd = Hcmd
      BY <1>6 DEF StageInv, NotStarted, TypeOK
    <2>. QED BY <1>1, <1>6, <2>1 DEF HcmdEntry
  <1> HIDE DEF h
  <1>9. Family(Status, Hcmd, tq) /\ HCE_FROM_CQ \in Status
    BY TqIsFamily DEF Status, HCE_CHECK_CACHE, HCE_FROM_CQ, HCE_FINISH
  <1>10. \A t \in Status : h \notin Range(tq[t]) /\ Range(tq[t]) \subseteq Members(tq)
    <2>1. \A x : x \in Members(tq) <=> \E t \in Status : x \in Range(tq[t])
      BY <1>9, InMembers DEF Family
    <2>. QED BY <1>6, <2>1 DEF OnePlace
  <1>11. \/ hcmd[h].req_num # 1 /\ tq' = tq
         \/ hcmd[h].req_num = 1 /\ Enqueued(Status, Hcmd, tq, HCE_FROM_CQ, h, tq')
    BY <1>1, <1>6, <1>8, <1>9, <1>10, SendFits
  <1>12. NoRepeat(tq)' /\ Members(tq) \subseteq Members(tq)' /\ Members(tq)' \subseteq Members(tq) \cup {h}
         /\ (hcmd[h].req_num = 1 => h \in Members(tq)')
    BY <1>11 DEF Enqueued, Family, OnePlace
  <1>13. OnePlace'
    <2>1. \A d, f \in FlightSqs' : d.hcmd_index = f.hcmd_index => d = f
      BY <1>5 DEF OnePlace
    <2>. QED BY <1>1, <1>5, <1>6, <1>12, <2>1 DEF OnePlace
  <1>14. NoCommandLost'
    BY <1>1, <1>6, <1>8, <1>12 DEF NoCommandLost, TypeOK
  <1>15. ASSUME NEW s \in Status, NEW g \in Range(tq'[s]) PROVE StageOk(s, g)'
    <2>1. CASE g = h
      <3>1. s = HCE_FROM_CQ /\ hcmd[h].req_num = 1
        BY <1>10, <1>11, <2>1 DEF Enqueued
      <3>. QED BY <1>8, <2>1, <3>1
               DEF StageOk, Complete, HCE_CHECK_CACHE, HCE_TO_SQ, HCE_DATAMOVED, HCE_FROM_CQ
    <2>2. CASE g # h
      <3>1. g \in Range(tq[s])
        BY <1>11, <2>2 DEF Enqueued
      <3>2. StageOk(s, g) /\ g \in Hcmd
        BY <1>10, <3>1 DEF StageInv, OnePlace, TypeOK
      <3>3. hcmd'[g] = hcmd[g]
        BY <1>8, <2>2, <3>2
      <3>. QED BY <3>2, <3>3 DEF StageOk, NotStarted, Complete
    <2>. QED BY <2>1, <2>2
  <1>16. StageInv'
    <2>1. \A g \in hcmd_map' : hcmd'[g].op_code \in Ops
      BY <1>1, <1>8 DEF StageInv, TypeOK
    <2>2. \A g \in FlightHcmds' : NotStarted(g)'
      BY <1>6, <1>8 DEF StageInv, OnePlace, TypeOK, NotStarted
    <2>. QED BY <1>15, <2>1, <2>2 DEF StageInv
  <1>. QED BY <1>7, <1>13, <1>14, <1>16

LEMMA PlaceStep == IInv /\ [Next]_vars => PlaceInv'
  <1> SUFFICES ASSUME IInv, [Next]_vars PROVE PlaceInv'
    OBVIOUS
  <1>c. /\ HCE_CHECK_CACHE \in Status /\ HCE_TO_SQ \in Status /\ HCE_DATAMOVED \in Status
        /\ HCE_FROM_CQ \in Status /\ HCE_FINISH \in Status
    BY DEF Status, HCE_CHECK_CACHE, HCE_TO_SQ, HCE_DATAMOVED, HCE_FROM_CQ, HCE_FINISH
  <1>q. Family(Status, Hcmd, tq)
    BY TqIsFamily DEF IInv, PlaceInv
  \* What is known of the head of a queue.
  <1>h. \A s \in Status : tq[s] # << >> => StageOk(s, Head(tq[s])) /\ hcmd[Head(tq[s])].op_code \in Ops
    <2> SUFFICES ASSUME NEW s \in Status, tq[s] # << >>
                 PROVE  StageOk(s, Head(tq[s])) /\ hcmd[Head(tq[s])].op_code \in Ops
      OBVIOUS
    <2>1. Dequeued(Status, Hcmd, tq, s, Head(tq[s]), Dequeue(tq, s))
      BY <1>q, DequeueProps
    <2>. QED BY <2>1 DEF Dequeued, IInv, PlaceInv, StageInv, OnePlace
  <1>s. Sqs[1] = ftl_sq /\ Sqs[2] = register_list /\ Sqs[3] = r_sq /\ Sqs[4] = complete_list
    BY DEF Sqs
  <1> USE DEF HCE_CHECK_CACHE, HCE_TO_SQ, HCE_DATAMOVED, HCE_FROM_CQ, HCE_FINISH, HCE_READ, HCE_WRITE, Ops
  <1>1. ASSUME HandleCheckcache PROVE PlaceInv'
    <2>1. tq[HCE_CHECK_CACHE] # << >> /\ UNCHANGED <<hcmd_map, hcmd, sq_bitmap>> /\ Sqs' = Sqs
      BY <1>1 DEF HandleCheckcache, Polled, cmdVars, linkVars, beVars, Sqs
    <2>2. StageOk(HCE_CHECK_CACHE, Head(tq[HCE_CHECK_CACHE]))
      BY <1>c, <1>h, <2>1
    <2>3. CASE hcmd[Head(tq[HCE_CHECK_CACHE])].op_code = HCE_WRITE
      <3>1. StageOk(HCE_DATAMOVED, Head(tq[HCE_CHECK_CACHE]))
        BY <2>2, <2>3 DEF StageOk
      <3>. QED BY <1>1, <1>c, <2>1, <2>3, <3>1, PassStep DEF HandleCheckcache
    <2>4. CASE hcmd[Head(tq[HCE_CHECK_CACHE])].op_code # HCE_WRITE
      <3>1. StageOk(HCE_TO_SQ, Head(tq[HCE_CHECK_CACHE]))
        BY <2>2 DEF StageOk
      <3>. QED BY <1>1, <1>c, <2>1, <2>4, <3>1, PassStep DEF HandleCheckcache
    <2>. QED BY <2>3, <2>4
  <1>2. ASSUME HandleTosqRetry PROVE PlaceInv'
    <2>1. tq[HCE_TO_SQ] # << >> /\ UNCHANGED <<hcmd_map, hcmd, sq_bitmap>> /\ Sqs' = Sqs
      BY <1>2 DEF HandleTosqRetry, Polled, cmdVars, linkVars, beVars, Sqs
    <2>2. StageOk(HCE_TO_SQ, Head(tq[HCE_TO_SQ]))
      BY <1>c, <1>h, <2>1
    <2>. QED BY <1>2, <1>c, <2>1, <2>2, PassStep DEF HandleTosqRetry
  <1>3. ASSUME HandleDatamove PROVE PlaceInv'
    <2>1. tq[HCE_DATAMOVED] # << >> /\ UNCHANGED <<hcmd_map, hcmd, sq_bitmap>> /\ Sqs' = Sqs
      BY <1>3 DEF HandleDatamove, Polled, cmdVars, linkVars, beVars, Sqs
    <2>2. StageOk(HCE_DATAMOVED, Head(tq[HCE_DATAMOVED])) /\ hcmd[Head(tq[HCE_DATAMOVED])].op_code \in Ops
      BY <1>c, <1>h, <2>1
    <2>3. CASE hcmd[Head(tq[HCE_DATAMOVED])].op_code = HCE_READ
      <3>1. StageOk(HCE_FINISH, Head(tq[HCE_DATAMOVED]))
        BY <2>2, <2>3 DEF StageOk
      <3>. QED BY <1>3, <1>c, <2>1, <2>3, <3>1, PassStep DEF HandleDatamove
    <2>4. CASE hcmd[Head(tq[HCE_DATAMOVED])].op_code # HCE_READ
      <3>1. StageOk(HCE_TO_SQ, Head(tq[HCE_DATAMOVED]))
        BY <2>2, <2>4 DEF StageOk
      <3>. QED BY <1>3, <1>c, <2>1, <2>4, <3>1, PassStep DEF HandleDatamove
    <2>. QED BY <2>3, <2>4
  <1>4. ASSUME HandleFromcq PROVE PlaceInv'
    <2>1. tq[HCE_FROM_CQ] # << >> /\ UNCHANGED <<hcmd_map, hcmd, sq_bitmap>> /\ Sqs' = Sqs
      BY <1>4 DEF HandleFromcq, Polled, cmdVars, linkVars, beVars, Sqs
    <2>2. StageOk(HCE_FROM_CQ, Head(tq[HCE_FROM_CQ])) /\ hcmd[Head(tq[HCE_FROM_CQ])].op_code \in Ops
      BY <1>c, <1>h, <2>1
    <2>3. CASE hcmd[Head(tq[HCE_FROM_CQ])].op_code = HCE_WRITE
      <3>1. StageOk(HCE_FINISH, Head(tq[HCE_FROM_CQ]))
        BY <2>2 DEF StageOk
      <3>. QED BY <1>4, <1>c, <2>1, <2>3, <3>1, PassStep DEF HandleFromcq
    <2>4. CASE hcmd[Head(tq[HCE_FROM_CQ])].op_code # HCE_WRITE
      <3>1. StageOk(HCE_DATAMOVED, Head(tq[HCE_FROM_CQ]))
        BY <2>2, <2>4 DEF StageOk
      <3>. QED BY <1>4, <1>c, <2>1, <2>4, <3>1, PassStep DEF HandleFromcq
    <2>. QED BY <2>3, <2>4
  <1>5. ASSUME BE_send_sq PROVE PlaceInv'
    <2>1. ftl_sq # << >> /\ Tail(ftl_sq) = << >>
      BY <1>5, OneElement DEF BE_send_sq, IInv, TypeOK
    <2>2. Sqs' = Enqueue(Dequeue(Sqs, 1), 2, Head(Sqs[1]))
      <3>1. Sqs' = << << >>, Append(register_list, Head(ftl_sq)), r_sq, complete_list >>
        BY <1>5 DEF BE_send_sq, Sqs
      <3>2. Enqueue(Dequeue(Sqs, 1), 2, Head(ftl_sq))
              = <<Tail(ftl_sq), Append(register_list, Head(ftl_sq)), r_sq, complete_list>>
        BY DEF Sqs, Enqueue, Dequeue
      <3>. QED BY <1>s, <2>1, <3>1, <3>2, Zenon
    <2>3. UNCHANGED <<hcmd_map, hcmd, tq, sq_bitmap>>
      BY <1>5 DEF BE_send_sq, cmdVars
    <2>4. 1 \in 1 .. 4 /\ 2 \in 1 .. 4 /\ Sqs[1] # << >>
      BY <1>s, <2>1
    <2>. QED BY <2>1, <2>2, <2>3, <2>4, HandOverStep, Zenon
  <1>6. ASSUME BeTake PROVE PlaceInv'
    <2>1. Sqs' = Enqueue(Dequeue(Sqs, 2), 3, Head(Sqs[2])) /\ register_list # << >>
      <3>1. r_sq = << >>
        BY <1>6, EmptySeq DEF BeTake, IInv, TypeOK
      <3>. QED BY <1>6, <3>1 DEF BeTake, ftlVars, Sqs, Enqueue, Dequeue
    <2>3. UNCHANGED <<hcmd_map, hcmd, tq, sq_bitmap>>
      BY <1>6 DEF BeTake, cmdVars
    <2>4. 2 \in 1 .. 4 /\ 3 \in 1 .. 4 /\ Sqs[2] # << >>
      BY <1>s, <2>1
    <2>. QED BY <2>1, <2>3, <2>4, HandOverStep, Zenon
  <1>7. ASSUME BeDone PROVE PlaceInv'
    <2>1. r_sq # << >> /\ Tail(r_sq) = << >>
      BY <1>7, OneElement DEF BeDone, IInv, TypeOK
    <2>2. Sqs' = Enqueue(Dequeue(Sqs, 3), 4, Head(Sqs[3]))
      <3>1. Sqs' = <<ftl_sq, register_list, << >>, Append(complete_list, Head(r_sq))>>
        BY <1>7 DEF BeDone, ftlVars, Sqs
      <3>2. Enqueue(Dequeue(Sqs, 3), 4, Head(r_sq))
              = <<ftl_sq, register_list, Tail(r_sq), Append(complete_list, Head(r_sq))>>
        BY DEF Sqs, Enqueue, Dequeue
      <3>. QED BY <1>s, <2>1, <3>1, <3>2, Zenon
    <2>3. UNCHANGED <<hcmd_map, hcmd, tq, sq_bitmap>>
      BY <1>7 DEF BeDone, cmdVars
    <2>4. 3 \in 1 .. 4 /\ 4 \in 1 .. 4 /\ Sqs[3] # << >>
      BY <1>s, <2>1
    <2>. QED BY <2>1, <2>2, <2>3, <2>4, HandOverStep, Zenon
  <1>8. ASSUME \/ PollNone \/ PollNoEntry \/ NextQueue \/ SendLock \/ CqLock \/ CqUnlock
               \/ BeLock \/ BeWait \/ BeSpuriousWake \/ BeLockDone \/ UNCHANGED vars
        PROVE  PlaceInv'
    <2>1. UNCHANGED <<hcmd_map, hcmd, tq, sq_bitmap, ftl_sq, register_list, r_sq, complete_list>>
      BY <1>8 DEF PollNone, PollNoEntry, NextQueue, SendLock, CqLock, CqUnlock, BeLock, BeWait,
                  BeSpuriousWake, BeLockDone, vars, cmdVars, ftlVars, linkVars, beVars
    <2>2. Sqs' = Sqs
      BY <2>1 DEF Sqs
    <2>. QED BY <2>1, <2>2, StayStep
  <1>. QED
    BY <1>1, <1>2, <1>3, <1>4, <1>5, <1>6, <1>7, <1>8, AcceptStep, FinishStep, TosqStep, CqStepPlaces
       DEF Next, PollStep, TaskStep, CqStep, BeStep

\* One step keeps IInv.
LEMMA InvStep == IInv /\ [Next]_vars => IInv'
  BY TypeStep, PlaceStep, MutexStep, LoopStep DEF IInv, ControlInv

-----------------------------------------------------------------------------
(* Results.                                                                 *)

\* IInv is an inductive invariant of the two threads.
THEOREM Invariance == Spec => []IInv
  <1>1. Init => IInv
    BY TypeInit, PlaceInit, ControlInit DEF IInv
  <1>. QED BY <1>1, InvStep, PTL DEF Spec

\* Every variable keeps its type, whatever the sizes of tables and queues.
THEOREM TypeCorrect == Spec => []TypeOK
  BY Invariance, PTL DEF IInv

\* No command is ever in two queues or in a queue and in flight, and no place
\* names a reclaimed entry.
THEOREM CommandsInOnePlace == Spec => []OnePlace
  BY Invariance, PTL DEF IInv, PlaceInv

\* FTL_sendhcmd never fails and CQ polling never drops a one-page command.
THEOREM CommandsAreKept == Spec => []NoCommandLost
  BY Invariance, PTL DEF IInv, PlaceInv

\* The SQ bitmap of fcl.c is exactly the set of EMU_sqs in flight.
THEOREM BitmapIsExact == Spec => []SqBitmapExact
  BY Invariance, PTL DEF IInv, PlaceInv

\* be() never waits on list_cond with registered work.
THEOREM WakeupsAreKept == Spec => []NoLostWakeup
  BY Invariance, PTL DEF IInv, ControlInv

\* FTL_core0task_polling never finds a queue shorter than its sampled count.
THEOREM SamplesAreCovered == Spec => []SampleCovered
  BY Invariance, PTL DEF IInv, ControlInv, LoopInv

\* A command in the finish queue has completed the flash work it asked for.
THEOREM FinishIsComplete == Spec => []FinishedMeansComplete
  <1>1. IInv => FinishedMeansComplete
    BY DEF IInv, PlaceInv, StageInv, StageOk, Complete, FinishedMeansComplete,
           Status, HCE_CHECK_CACHE, HCE_TO_SQ, HCE_DATAMOVED, HCE_FINISH
  <1>. QED BY <1>1, Invariance, PTL

\* The entry an EMU_sq names keeps its command until the EMU_sq is back, so
\* be() may read it without a lock of the table.
THEOREM InFlightEntriesAreStable == Spec => InFlightStable
  <1> DEFINE A == \A h \in FlightHcmds :
                    /\ h \in hcmd_map'
                    /\ hcmd'[h].emu_id = hcmd[h].emu_id /\ hcmd'[h].op_code = hcmd[h].op_code
  <1>1. IInv /\ [Next]_vars => [A]_vars
    <2> SUFFICES ASSUME IInv, Next, NEW h \in FlightHcmds
                 PROVE  /\ h \in hcmd_map'
                        /\ hcmd'[h].emu_id = hcmd[h].emu_id /\ hcmd'[h].op_code = hcmd[h].op_code
      OBVIOUS
    <2>1. h \in hcmd_map /\ h \in Hcmd /\ h \notin Members(tq)
          /\ DOMAIN hcmd = Hcmd /\ hcmd[h] \in HcmdEntry
      BY DEF IInv, PlaceInv, OnePlace, TypeOK
    <2>2. ASSUME NEW op \in Ops, NEW size \in Sizes, PollAccept(op, size)
          PROVE  h \in hcmd_map' /\ hcmd'[h] = hcmd[h]
      BY <2>1, <2>2 DEF PollAccept, IsFirstFree
    <2>3. ASSUME HandleFinish PROVE h \in hcmd_map' /\ hcmd'[h] = hcmd[h]
      <3>1. Family(Status, Hcmd, tq) /\ HCE_FINISH \in Status /\ tq[HCE_FINISH] # << >>
        BY <2>3, TqIsFamily DEF HandleFinish, Polled, IInv, PlaceInv, Status, HCE_CHECK_CACHE, HCE_FINISH
      <3>2. Head(tq[HCE_FINISH]) \in Members(tq)
        BY <3>1, DequeueProps DEF Dequeued
      <3>. QED BY <2>1, <2>3, <3>2 DEF HandleFinish
    <2>4. ASSUME CqEntry
          PROVE  h \in hcmd_map' /\ hcmd'[h].emu_id = hcmd[h].emu_id /\ hcmd'[h].op_code = hcmd[h].op_code
      BY <2>1, <2>4 DEF CqEntry, HcmdEntry
    <2>5. CASE UNCHANGED cmdVars
      BY <2>1, <2>5 DEF cmdVars
    <2>. QED
      BY <2>2, <2>3, <2>4, <2>5
         DEF Next, PollStep, PollNone, PollNoEntry, TaskStep, NextQueue, HandleCheckcache, HandleTosqRetry,
             HandleTosq, BE_send_sq, HandleDatamove, HandleFromcq, SendLock, CqLock, CqStep, CqUnlock,
             BeLock, BeStep, BeWait, BeTake, BeDone, BeLockDone, BeSpuriousWake
  <1>. QED BY <1>1, Invariance, PTL DEF Spec, InFlightStable
=============================================================================
