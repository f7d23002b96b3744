-------------------------- MODULE Workqueue_proofs --------------------------
(***************************************************************************)
(* The work queue keeps its invariants for every number of workers, of      *)
(* io_us and of calls.                                                      *)
(***************************************************************************)
EXTENDS Workqueue, QueueLemmas, SequenceTheorems

Working == {"ready", "get", "advance", "add", "flush_scan", "flush_sleep", "flush_wait"}
Exiting == {"exit", "join", "gone"}
Submitting == {"overlap", "queue", "complete"}

Empty(w) == work_list[w] = << >> /\ local_list[w] = << >> /\ cur[w] = NoIoU

\* The bounds of the job's loops and the range of its locals.
JobInv ==
  /\ job \in {"start", "mark"} =>
       max_workers = MAX_WORKERS /\ idx < MAX_WORKERS /\ running = 0 /\ error = FALSE
  /\ job \in {"init_scan", "init_sleep", "init_wait"} \cup Working => max_workers > 0
  /\ job \in {"init_scan", "get", "flush_scan"} => idx < max_workers
  /\ job \in {"exit", "join"} => idx <= max_workers
  /\ job = "init_scan" => running <= idx
  /\ job \in {"init_sleep", "init_wait"} => idx = 0 /\ running = 0 /\ error = FALSE
  /\ job \in {"flush_sleep", "flush_wait"} => idx = 0
  /\ job = "get" => next < max_workers /\ (best # NoWorker => best < max_workers)
  /\ job \in {"advance", "add"} => best \in Worker /\ best < max_workers
  /\ job \in {"get", "advance", "add"} => io \in IoU
  /\ job \in {"flush_scan", "flush_sleep", "flush_wait"} => wake_idle = 1

\* What the job has learnt from the flags of the workers it has passed.
ScanInv ==
  /\ job = "init_scan" /\ running = idx /\ ~error =>
       \A w \in Worker : w < idx => "RUNNING" \in flags[w] /\ "ERROR" \notin flags[w]
  /\ job = "flush_scan" => \A w \in Worker : w < idx => "IDLE" \in flags[w]

\* The workers it has joined are gone.
JoinInv ==
  /\ job = "join" => \A w \in Worker : w < idx => pc[w] = "exited"
  /\ job = "gone" => \A w \in Worker : w < max_workers => pc[w] = "exited"

\* The job in workqueue_flush is not forgotten, before it sleeps and after.
FlushInv ==
  job \in {"flush_sleep", "flush_wait"} =>
    \E w \in Worker : w < max_workers /\ ("IDLE" \notin flags[w] \/ pc[w] = "notify")

\* Where a worker can be while the job is where it is, and what its flags say.
PlaceInv(w) ==
  /\ pc[w] \in {"none", "init"} => "RUNNING" \notin flags[w]
  /\ pc[w] = "exited" /\ job \in Initialising => "ERROR" \in flags[w] \/ "RUNNING" \notin flags[w]
  /\ pc[w] = "wait" => "EXIT" \notin flags[w]
  /\ "EXIT" \in flags[w] => job \in Exiting
  /\ w >= max_workers => pc[w] = "none"
  /\ job = "start" /\ w >= idx => pc[w] = "none"
  /\ job = "mark" /\ w > idx => pc[w] = "none"
  /\ job \in Working /\ w < max_workers =>
       "RUNNING" \in flags[w] /\ "ERROR" \notin flags[w] /\ pc[w] \notin {"none", "init", "exited"}

\* Where its io_us can be.
ListInv(w) ==
  /\ pc[w] \in {"none", "init", "wait", "exited"} => work_list[w] = << >>
  /\ local_list[w] # << >> => pc[w] \in Submitting \cup {"handle"}
  /\ cur[w] # NoIoU <=> pc[w] \in Submitting
  /\ "IDLE" \in flags[w] => Empty(w)
  /\ "ERROR" \in flags[w] => work_list[w] = << >>
  /\ job \in Initialising => Empty(w)

NextInv == next_free_worker = 0 \/ pc[next_free_worker] # "none"

\* The mutex overlap_check, and what its owner has found.
OverlapInv ==
  /\ \A w \in Worker : pc[w] = "queue" <=> overlap_check = w
  /\ \A w \in Worker : pc[w] = "queue" => \A v \in flight : {cur[w], v} \notin Overlap
  /\ NoOverlapInFlight

\* An io_u that is not complete is with a worker.
HeldInv == \A u \in busy : \E w \in Worker : u \in Held(w)

WqInv ==
  /\ WorkqueueTypeOK /\ JobInv /\ ScanInv /\ JoinInv /\ FlushInv /\ NextInv
  /\ \A w \in Worker : PlaceInv(w) /\ ListInv(w)
  /\ OverlapInv /\ HeldInv

-----------------------------------------------------------------------------

\* The constants.
LEMMA WqConsts ==
  /\ MAX_WORKERS \in Nat /\ MAX_WORKERS > 0 /\ 0 \in Worker
  /\ NoWorker \notin Worker /\ NoIoU \notin IoU
BY WorkqueueAssumption DEF Worker, NoWorker, NoIoU

FlagsType == flags \in [Worker -> SUBSET SwFlag]
PcType == pc \in [Worker -> WorkerPlace]
ListsType ==
  /\ work_list \in [Worker -> Seq(IoU)] /\ local_list \in [Worker -> Seq(IoU)]
  /\ cur \in [Worker -> IoU \cup {NoIoU}] /\ overlap_check \in Worker \cup {NoWorker}
  /\ flight \subseteq IoU /\ busy \subseteq IoU
OrderType ==
  /\ seq \in [Worker -> Nat] /\ work_seq \in Nat
  /\ next_free_worker \in Worker
  /\ job \in Initialising \cup {"exit", "join", "gone"} \/ next_free_worker < max_workers
JobType ==
  /\ max_workers \in 0 .. MAX_WORKERS /\ wake_idle \in {0, 1} /\ flushes \in Nat
  /\ job \in JobPlace /\ idx \in 0 .. MAX_WORKERS
  /\ running \in 0 .. MAX_WORKERS /\ error \in BOOLEAN
  /\ next \in Worker /\ best \in Worker \cup {NoWorker} /\ io \in IoU \cup {NoIoU}

\* The type invariant, by groups of variables.
LEMMA TypeParts == WorkqueueTypeOK <=> FlagsType /\ PcType /\ ListsType /\ OrderType /\ JobType
BY Zenon DEF WorkqueueTypeOK, FlagsType, PcType, ListsType, OrderType, JobType

\* Types, one group of variables after the other.
LEMMA FlagsTypeStep ==
  ASSUME WorkqueueTypeOK, JobInv, Next
  PROVE  FlagsType'
<1>0. FlagsType /\ idx \in 0 .. MAX_WORKERS /\ max_workers \in 0 .. MAX_WORKERS
      /\ (job = "mark" => idx \in Worker)
  BY WqConsts, TypeParts DEF JobType, JobInv, Worker
<1>1. CASE MarkIdle
  BY <1>1, <1>0 DEF MarkIdle, Worker, FlagsType, SwFlag
<1>2. CASE EnqueueAdd
  BY <1>2, <1>0, Zenon DEF EnqueueAdd, FlagsType, SwFlag
<1>3. CASE ExitMark \/ ExitJoin
  BY <1>3, <1>0 DEF ExitMark, ExitJoin, FlagsType, SwFlag
<1>4. ASSUME NEW p \in Worker, WorkerInit(p) PROVE FlagsType'
  BY <1>4, <1>0 DEF WorkerInit, FlagsType, SwFlag
<1>5. ASSUME NEW p \in Worker, WorkerIdle(p) PROVE FlagsType'
  BY <1>5, <1>0 DEF WorkerIdle, FlagsType, SwFlag
<1>6. CASE UNCHANGED <<flags>>
  BY <1>6, <1>0 DEF FlagsType, SwFlag
<1>7. CASE StartWorker \/ StartFails \/ InitScan \/ JobSleep \/ GetSubmitWorker
  BY <1>7, <1>6 DEF StartWorker, StartFails, InitScan, JobSleep, GetSubmitWorker, engine, lists,
     order, locals, count, found
<1>8. CASE AdvanceFree \/ FlushScan \/ FlushBegin \/ ExitBegin \/ SpuriousWakeup
  BY <1>8, <1>6 DEF AdvanceFree, FlushScan, FlushBegin, ExitBegin, SpuriousWakeup, engine,
     lists, order, locals, count, found
<1>9. ASSUME NEW p \in Worker, WorkerStarted(p) \/ WorkerCheck(p) \/ WorkerExit(p) \/
   WorkerNotify(p) \/ WorkerSleep(p) \/ WorkerSplice(p) PROVE FlagsType'
  BY <1>9, <1>6, Zenon DEF WorkerStarted, WorkerCheck, WorkerExit, WorkerNotify, WorkerSleep,
     WorkerSplice, engine, lists, order, locals, count, found
<1>10. ASSUME NEW p \in Worker, HandleNext(p) \/ HandleDone(p) \/ CheckOverlap(p) \/ QueueIoU(p)
   \/ Complete(p) PROVE FlagsType'
  BY <1>10, <1>6 DEF HandleNext, HandleDone, CheckOverlap, QueueIoU, Complete, engine, lists,
     order, locals, count, found
<1>11. ASSUME NEW u \in IoU, EnqueueBegin(u) PROVE FlagsType'
  BY <1>11, <1>6 DEF EnqueueBegin, engine, lists, order, locals, count, found
<1> QED
  BY <1>1, <1>2, <1>3, <1>4, <1>5, <1>6, <1>7, <1>8, <1>9, <1>10, <1>11 DEF Next, JobStep,
     JobCall, WorkerStep

LEMMA PcTypeStep ==
  ASSUME WorkqueueTypeOK, JobInv, Next
  PROVE  PcType'
<1>0. PcType
  BY WqConsts, TypeParts DEF PcType
<1>1. CASE StartWorker
  BY <1>1, <1>0, Zenon DEF StartWorker, PcType, WorkerPlace
<1>2. CASE EnqueueAdd \/ ExitMark \/ SpuriousWakeup
  BY <1>2, <1>0 DEF EnqueueAdd, ExitMark, SpuriousWakeup, SignalWorker, PcType, WorkerPlace
<1>3. ASSUME NEW p \in Worker, WorkerInit(p) \/ WorkerStarted(p) \/ WorkerCheck(p) \/ WorkerIdle(p) \/ WorkerNotify(p) PROVE PcType'
  BY <1>3, <1>0 DEF WorkerInit, WorkerStarted, WorkerCheck, WorkerIdle, WorkerNotify, Goto,
     PcType, WorkerPlace
<1>4. ASSUME NEW p \in Worker, WorkerExit(p) \/ WorkerSplice(p) PROVE PcType'
  BY <1>4, <1>0, Zenon DEF WorkerExit, WorkerSplice, PcType, WorkerPlace
<1>5. ASSUME NEW p \in Worker, WorkerSleep(p) PROVE PcType'
  BY <1>5, <1>0 DEF WorkerSleep, Goto, PcType, WorkerPlace
<1>6. ASSUME NEW p \in Worker, HandleNext(p) \/ HandleDone(p) \/ CheckOverlap(p) \/ QueueIoU(p) \/ Complete(p) PROVE PcType'
  BY <1>6, <1>0 DEF HandleNext, HandleDone, CheckOverlap, QueueIoU, Complete, Goto, PcType,
     WorkerPlace
<1>7. CASE UNCHANGED <<pc>>
  BY <1>7, <1>0 DEF PcType, WorkerPlace
<1>8. CASE StartFails \/ MarkIdle \/ InitScan \/ JobSleep \/ GetSubmitWorker
  BY <1>8, <1>7 DEF StartFails, MarkIdle, InitScan, JobSleep, GetSubmitWorker, engine, lists,
     order, locals, count, found
<1>9. CASE AdvanceFree \/ FlushScan \/ ExitJoin \/ FlushBegin \/ ExitBegin
  BY <1>9, <1>7 DEF AdvanceFree, FlushScan, ExitJoin, FlushBegin, ExitBegin, engine, lists,
     order, locals, count, found
<1>10. ASSUME NEW u \in IoU, EnqueueBegin(u) PROVE PcType'
  BY <1>10, <1>7 DEF EnqueueBegin, engine, lists, order, locals, count, found
<1> QED
  BY <1>1, <1>2, <1>3, <1>4, <1>5, <1>6, <1>7, <1>8, <1>9, <1>10 DEF Next, JobStep, JobCall,
     WorkerStep

\* What is queued is an io_u, because a worker submits only when it has one.
LEMMA ListsTypeStep ==
  ASSUME WorkqueueTypeOK, JobInv, \A w \in Worker : ListInv(w), Next
  PROVE  ListsType'
<1>0. /\ ListsType /\ (job = "add" => io \in IoU /\ best \in Worker)
      /\ \A w \in Worker : pc[w] = "queue" => cur[w] \in IoU
  BY WqConsts, TypeParts DEF ListsType, JobInv, ListInv, Submitting
<1>1. CASE EnqueueAdd
  BY <1>1, <1>0 DEF EnqueueAdd, engine, ListsType
<1>2. ASSUME NEW p \in Worker, WorkerSplice(p) PROVE ListsType'
  BY <1>2, <1>0 DEF WorkerSplice, engine, ListsType
<1>3. ASSUME NEW p \in Worker, HandleNext(p) PROVE ListsType'
  BY <1>3, <1>0 DEF HandleNext, ListsType
<1>4. ASSUME NEW p \in Worker, CheckOverlap(p) PROVE ListsType'
  BY <1>4, <1>0 DEF CheckOverlap, lists, ListsType
<1>5. ASSUME NEW p \in Worker, QueueIoU(p) PROVE ListsType'
  BY <1>5, <1>0 DEF QueueIoU, lists, Goto, ListsType
<1>6. ASSUME NEW p \in Worker, Complete(p) PROVE ListsType'
  BY <1>6, <1>0 DEF Complete, lists, ListsType
<1>7. CASE UNCHANGED <<work_list, local_list, cur, overlap_check, flight, busy>>
  BY <1>7, <1>0 DEF ListsType
<1>8. CASE StartWorker \/ StartFails \/ MarkIdle \/ InitScan \/ JobSleep
  BY <1>8, <1>7 DEF StartWorker, StartFails, MarkIdle, InitScan, JobSleep, engine, lists, order,
     locals, count, found
<1>9. CASE GetSubmitWorker \/ AdvanceFree \/ FlushScan \/ ExitMark \/ ExitJoin
  BY <1>9, <1>7 DEF GetSubmitWorker, AdvanceFree, FlushScan, ExitMark, ExitJoin, engine, lists,
     order, locals, count, found
<1>10. CASE FlushBegin \/ ExitBegin \/ SpuriousWakeup
  BY <1>10, <1>7 DEF FlushBegin, ExitBegin, SpuriousWakeup, engine, lists, order, locals, count,
     found
<1>11. ASSUME NEW p \in Worker, WorkerInit(p) \/ WorkerStarted(p) \/ WorkerCheck(p) \/
   WorkerExit(p) \/ WorkerIdle(p) \/ WorkerNotify(p) PROVE ListsType'
  BY <1>11, <1>7 DEF WorkerInit, WorkerStarted, WorkerCheck, WorkerExit, WorkerIdle,
     WorkerNotify, engine, lists, order, locals, count, found
<1>12. ASSUME NEW p \in Worker, WorkerSleep(p) \/ HandleDone(p) PROVE ListsType'
  BY <1>12, <1>7 DEF WorkerSleep, HandleDone, engine, lists, order, locals, count, found
<1>13. ASSUME NEW u \in IoU, EnqueueBegin(u) PROVE ListsType'
  BY <1>13, <1>7 DEF EnqueueBegin, engine, lists, order, locals, count, found
<1> QED
  BY <1>1, <1>2, <1>3, <1>4, <1>5, <1>6, <1>7, <1>8, <1>9, <1>10, <1>11, <1>12, <1>13 DEF Next,
     JobStep, JobCall, WorkerStep

\* next_free_worker is a started worker: one that becomes idle was started, and
\* get_submit_worker wraps at max_workers.
LEMMA OrderTypeStep ==
  ASSUME WorkqueueTypeOK, JobInv, NextInv, \A w \in Worker : PlaceInv(w), Next
  PROVE  OrderType'
<1>0. /\ OrderType /\ max_workers \in 0 .. MAX_WORKERS /\ idx \in 0 .. MAX_WORKERS
      /\ (job = "advance" => best \in Worker /\ best < max_workers /\ next_free_worker < max_workers)
      /\ (job = "init_scan" => max_workers > 0 /\ next_free_worker < max_workers)
      /\ (job = "add" => max_workers > 0 /\ next_free_worker < max_workers)
      /\ \A w \in Worker : pc[w] = "top" => w < max_workers
  <2>1. OrderType /\ max_workers \in 0 .. MAX_WORKERS /\ idx \in 0 .. MAX_WORKERS
    BY TypeParts DEF JobType
  <2>2. job = "advance" => best \in Worker /\ best < max_workers /\ next_free_worker < max_workers
    BY <2>1 DEF JobInv, OrderType, Initialising
  <2>3. job = "init_scan" => max_workers > 0 /\ next_free_worker < max_workers
    <3>1. next_free_worker \in Nat /\ MAX_WORKERS \in Nat
      BY <2>1, WqConsts DEF OrderType, Worker
    <3> QED BY <2>1, <3>1 DEF JobInv, PlaceInv, NextInv, OrderType
  <2>4. job = "add" => max_workers > 0 /\ next_free_worker < max_workers
    BY <2>1 DEF JobInv, OrderType, Initialising, Working
  <2>5. ASSUME NEW w \in Worker, pc[w] = "top" PROVE w < max_workers
    <3>1. w \in Nat /\ max_workers \in Nat
      BY <2>1, WqConsts DEF Worker
    <3> QED BY <2>5, <3>1 DEF PlaceInv
  <2> QED BY <2>1, <2>2, <2>3, <2>4, <2>5
<1>1. CASE StartWorker \/ MarkIdle \/ JobSleep \/ FlushScan
  BY <1>1, <1>0 DEF StartWorker, MarkIdle, JobSleep, FlushScan, JobAt, order, Initialising,
     OrderType
<1>2. CASE ExitMark \/ ExitJoin \/ FlushBegin \/ ExitBegin
  BY <1>2, <1>0 DEF ExitMark, ExitJoin, FlushBegin, ExitBegin, JobAt, order, Initialising,
     OrderType
<1>3. CASE SpuriousWakeup
  BY <1>3, <1>0 DEF SpuriousWakeup, JobAt, SignalFlushCond, order, Initialising, OrderType
<1>4. CASE StartFails
  BY <1>4, <1>0 DEF StartFails, JobAt, order, Initialising, OrderType
<1>5. CASE InitScan
  BY <1>5, <1>0 DEF InitScan, order, Initialising, OrderType
<1>6. CASE GetSubmitWorker
  BY <1>6, <1>0 DEF GetSubmitWorker, order, Initialising, OrderType
<1>7. CASE AdvanceFree
  BY <1>7, <1>0, WqConsts DEF AdvanceFree, NextWorker, JobAt, Initialising, Worker, OrderType
<1>8. CASE EnqueueAdd
  <2>1. seq' \in [Worker -> Nat] /\ work_seq' \in Nat
    <3>1. seq' = [seq EXCEPT ![best] = work_seq + 1] /\ work_seq' = work_seq + 1
      BY <1>8 DEF EnqueueAdd
    <3>2. seq \in [Worker -> Nat] /\ work_seq \in Nat
      BY <1>0 DEF OrderType
    <3>3. work_seq + 1 \in Nat
      BY <3>2
    <3> QED BY <3>1, <3>2, <3>3, Zenon
  <2>2. next_free_worker' \in Worker /\ next_free_worker' < max_workers'
    BY <1>8, <1>0 DEF EnqueueAdd, OrderType
  <2> QED BY <2>1, <2>2 DEF OrderType
<1>9. ASSUME NEW u \in IoU, EnqueueBegin(u) PROVE OrderType'
  BY <1>9, <1>0 DEF EnqueueBegin, order, Initialising, OrderType
<1>10. ASSUME NEW p \in Worker, WorkerStarted(p) \/ WorkerNotify(p) PROVE OrderType'
  BY <1>10, <1>0 DEF WorkerStarted, WorkerNotify, JobAt, SignalFlushCond, order, Initialising,
     locals, OrderType
<1>11. ASSUME NEW p \in Worker, WorkerIdle(p) PROVE OrderType'
  BY <1>11, <1>0 DEF WorkerIdle, Goto, OrderType
<1>12. CASE UNCHANGED <<seq, work_seq, next_free_worker, job, max_workers>>
  BY <1>12, <1>0 DEF OrderType
<1>13. ASSUME NEW p \in Worker, WorkerInit(p) \/ WorkerCheck(p) \/ WorkerExit(p) \/
   WorkerSleep(p) \/ WorkerSplice(p) \/ HandleNext(p) PROVE OrderType'
  BY <1>13, <1>12, Zenon DEF WorkerInit, WorkerCheck, WorkerExit, WorkerSleep, WorkerSplice,
     HandleNext, engine, lists, order, locals, count, found
<1>14. ASSUME NEW p \in Worker, HandleDone(p) \/ CheckOverlap(p) \/ QueueIoU(p) \/ Complete(p)
   PROVE OrderType'
  BY <1>14, <1>12 DEF HandleDone, CheckOverlap, QueueIoU, Complete, engine, lists, order,
     locals, count, found
<1> QED
  BY <1>1, <1>2, <1>3, <1>4, <1>5, <1>6, <1>7, <1>8, <1>9, <1>10, <1>11, <1>12, <1>13, <1>14 DEF
     Next, JobStep, JobCall, WorkerStep

LEMMA JobTypeStep ==
  ASSUME WorkqueueTypeOK, JobInv, Next
  PROVE  JobType'
<1>0. /\ JobType /\ next_free_worker \in Worker
      /\ (job \in {"start", "mark"} => idx < MAX_WORKERS)
      /\ (job = "init_scan" => idx < max_workers /\ running <= idx)
      /\ (job = "get" => idx < max_workers /\ next < max_workers)
      /\ (job = "flush_scan" => idx < max_workers)
  BY WqConsts, TypeParts DEF JobType, OrderType, JobInv
<1>1. CASE StartWorker \/ JobSleep
  BY <1>1, <1>0, WqConsts DEF StartWorker, JobSleep, JobAt, count, found, JobType, JobPlace
<1>2. CASE MarkIdle
  BY <1>2, <1>0, WqConsts DEF MarkIdle, JobAt, count, found, JobType, JobPlace
<1>3. CASE FlushScan
  BY <1>3, <1>0, WqConsts DEF FlushScan, JobAt, count, found, JobType, JobPlace
<1>4. CASE ExitMark \/ ExitJoin
  BY <1>4, <1>0, WqConsts DEF ExitMark, ExitJoin, JobAt, count, found, JobType, JobPlace
<1>5. CASE FlushBegin
  BY <1>5, <1>0, WqConsts DEF FlushBegin, JobAt, count, found, JobType, JobPlace
<1>6. CASE ExitBegin
  BY <1>6, <1>0, WqConsts DEF ExitBegin, JobAt, count, found, JobType, JobPlace
<1>7. CASE SpuriousWakeup
  BY <1>7, <1>0, WqConsts DEF SpuriousWakeup, JobAt, SignalFlushCond, locals, count, found,
     JobType, JobPlace
<1>8. CASE StartFails
  BY <1>8, <1>0, WqConsts DEF StartFails, JobAt, count, found, JobType, JobPlace
<1>9. CASE InitScan
  BY <1>9, <1>0, WqConsts DEF InitScan, found, JobType, JobPlace
<1>10. CASE GetSubmitWorker
  BY <1>10, <1>0, WqConsts, SMTT(30) DEF GetSubmitWorker, count, Candidate, Worker, JobType, JobPlace
<1>11. CASE AdvanceFree
  BY <1>11, <1>0, WqConsts DEF AdvanceFree, JobAt, count, found, JobType, JobPlace
<1>12. CASE EnqueueAdd
  BY <1>12, <1>0, WqConsts DEF EnqueueAdd, count, JobType, JobPlace
<1>13. ASSUME NEW u \in IoU, EnqueueBegin(u) PROVE JobType'
  BY <1>13, <1>0, WqConsts DEF EnqueueBegin, count, JobType, JobPlace
<1>14. ASSUME NEW p \in Worker, WorkerStarted(p) \/ WorkerNotify(p) PROVE JobType'
  BY <1>14, <1>0, WqConsts DEF WorkerStarted, WorkerNotify, JobAt, SignalFlushCond, locals,
     count, found, JobType, JobPlace
<1>15. CASE UNCHANGED <<job, idx, running, error, next, best, io, max_workers, wake_idle, flushes>>
  BY <1>15, <1>0, WqConsts DEF JobType, JobPlace
<1>16. ASSUME NEW p \in Worker, WorkerInit(p) \/ WorkerCheck(p) \/ WorkerExit(p) \/
   WorkerIdle(p) \/ WorkerSleep(p) \/ WorkerSplice(p) PROVE JobType'
  BY <1>16, <1>15, Zenon DEF WorkerInit, WorkerCheck, WorkerExit, WorkerIdle, WorkerSleep,
     WorkerSplice, engine, lists, order, locals, count, found
<1>17. ASSUME NEW p \in Worker, HandleNext(p) \/ HandleDone(p) \/ CheckOverlap(p) \/ QueueIoU(p)
   \/ Complete(p) PROVE JobType'
  BY <1>17, <1>15 DEF HandleNext, HandleDone, CheckOverlap, QueueIoU, Complete, engine, lists,
     order, locals, count, found
<1> QED
  BY <1>1, <1>2, <1>3, <1>4, <1>5, <1>6, <1>7, <1>8, <1>9, <1>10, <1>11, <1>12, <1>13, <1>14,
     <1>15, <1>16, <1>17 DEF Next, JobStep, JobCall, WorkerStep

\* The loops of the job stay within their bounds.
LEMMA JobInvStep ==
  ASSUME WorkqueueTypeOK, JobInv, Next
  PROVE  JobInv'
<1>0. JobInv /\ JobType /\ OrderType
  BY WqConsts, TypeParts DEF JobType, OrderType
<1>1. CASE StartWorker \/ JobSleep
  BY <1>1, <1>0, WqConsts DEF StartWorker, JobSleep, JobAt, count, found, JobInv, Working,
     JobType
<1>2. CASE MarkIdle
  BY <1>2, <1>0, WqConsts DEF MarkIdle, JobAt, count, found, JobInv, Working, JobType
<1>3. CASE FlushScan
  BY <1>3, <1>0, WqConsts DEF FlushScan, JobAt, count, found, JobInv, Working, JobType
<1>4. CASE ExitMark
  BY <1>4, <1>0, WqConsts DEF ExitMark, JobAt, count, found, JobInv, Working, JobType
<1>5. CASE ExitJoin
  BY <1>5, <1>0, WqConsts DEF ExitJoin, JobAt, count, found, JobInv, Working, JobType
<1>6. CASE FlushBegin
  BY <1>6, <1>0, WqConsts DEF FlushBegin, JobAt, count, found, JobInv, Working, JobType
<1>7. CASE ExitBegin
  BY <1>7, <1>0, WqConsts DEF ExitBegin, JobAt, count, found, JobInv, Working, JobType
<1>8. CASE SpuriousWakeup
  BY <1>8, <1>0, WqConsts DEF SpuriousWakeup, JobAt, SignalFlushCond, locals, count, found,
     JobInv, Working, JobType
<1>9. CASE StartFails
  BY <1>9, <1>0, WqConsts DEF StartFails, JobAt, count, found, JobInv, Working, JobType
<1>10. CASE InitScan
  BY <1>10, <1>0, WqConsts DEF InitScan, found, JobInv, Working, JobType
<1>11. CASE GetSubmitWorker
  BY <1>11, <1>0, WqConsts, SMTT(30) DEF GetSubmitWorker, count, Candidate, Worker, JobInv, Working,
     JobType
<1>12. CASE AdvanceFree
  BY <1>12, <1>0, WqConsts DEF AdvanceFree, JobAt, count, found, JobInv, Working, JobType
<1>13. CASE EnqueueAdd
  BY <1>13, <1>0, WqConsts DEF EnqueueAdd, count, JobInv, Working, JobType
<1>14. ASSUME NEW u \in IoU, EnqueueBegin(u) PROVE JobInv'
  BY <1>14, <1>0, WqConsts DEF EnqueueBegin, count, OrderType, Initialising, JobInv, Working,
     JobType
<1>15. ASSUME NEW p \in Worker, WorkerStarted(p) \/ WorkerNotify(p) PROVE JobInv'
  BY <1>15, <1>0, WqConsts DEF WorkerStarted, WorkerNotify, JobAt, SignalFlushCond, locals,
     count, found, JobInv, Working, JobType
<1>16. CASE UNCHANGED <<job, idx, running, error, next, best, io, max_workers, wake_idle>>
  BY <1>16, <1>0, WqConsts DEF JobInv, Working, JobType
<1>17. ASSUME NEW p \in Worker, WorkerInit(p) \/ WorkerCheck(p) \/ WorkerExit(p) \/
   WorkerIdle(p) \/ WorkerSleep(p) \/ WorkerSplice(p) PROVE JobInv'
  BY <1>17, <1>16, Zenon DEF WorkerInit, WorkerCheck, WorkerExit, WorkerIdle, WorkerSleep,
     WorkerSplice, engine, lists, order, locals, count, found
<1>18. ASSUME NEW p \in Worker, HandleNext(p) \/ HandleDone(p) \/ CheckOverlap(p) \/ QueueIoU(p)
   \/ Complete(p) PROVE JobInv'
  BY <1>18, <1>16 DEF HandleNext, HandleDone, CheckOverlap, QueueIoU, Complete, engine, lists,
     order, locals, count, found
<1> QED
  BY <1>1, <1>2, <1>3, <1>4, <1>5, <1>6, <1>7, <1>8, <1>9, <1>10, <1>11, <1>12, <1>13, <1>14,
     <1>15, <1>16, <1>17, <1>18 DEF Next, JobStep, JobCall, WorkerStep

\* next_free_worker was started, or is the first.
LEMMA NextStep ==
  ASSUME WorkqueueTypeOK, JobInv, NextInv, \A w \in Worker : PlaceInv(w), Next
  PROVE  NextInv'
<1>0. /\ NextInv /\ PcType /\ next_free_worker \in Worker /\ max_workers \in 0 .. MAX_WORKERS
      /\ job = "advance" => /\ best \in Worker /\ best < max_workers /\ NextWorker(best) \in Worker
                            /\ \A w \in Worker : w < max_workers => pc[w] # "none"
                            /\ NextWorker(best) < max_workers
  <2>1. PcType /\ next_free_worker \in Worker /\ max_workers \in 0 .. MAX_WORKERS
    BY TypeParts DEF OrderType, JobType
  <2>2. ASSUME job = "advance"
        PROVE  /\ best \in Worker /\ best < max_workers /\ NextWorker(best) \in Worker
               /\ NextWorker(best) < max_workers
    BY <2>1, <2>2, WqConsts DEF JobInv, NextWorker, Worker
  <2>3. ASSUME job = "advance", NEW w \in Worker, w < max_workers PROVE pc[w] # "none"
    BY <2>3 DEF PlaceInv, Working
  <2> QED BY <2>1, <2>2, <2>3
<1>1. CASE StartWorker
  BY <1>1, <1>0, WqConsts DEF StartWorker, order, NextInv, PcType
<1>2. CASE EnqueueAdd \/ ExitMark
  BY <1>2, <1>0, WqConsts DEF EnqueueAdd, ExitMark, SignalWorker, order, NextInv, PcType
<1>3. CASE SpuriousWakeup
  BY <1>3, <1>0, WqConsts DEF SpuriousWakeup, SignalWorker, order, NextInv, PcType
<1>4. CASE AdvanceFree
  BY <1>4, <1>0, WqConsts DEF AdvanceFree, NextWorker, NextInv, PcType
<1>5. ASSUME NEW p \in Worker, WorkerInit(p) \/ WorkerStarted(p) \/ WorkerCheck(p) PROVE NextInv'
  BY <1>5, <1>0, WqConsts DEF WorkerInit, WorkerStarted, WorkerCheck, Goto, order, NextInv,
     PcType
<1>6. ASSUME NEW p \in Worker, WorkerNotify(p) \/ WorkerSleep(p) PROVE NextInv'
  BY <1>6, <1>0, WqConsts DEF WorkerNotify, WorkerSleep, Goto, order, NextInv, PcType
<1>7. ASSUME NEW p \in Worker, WorkerExit(p) \/ WorkerSplice(p) PROVE NextInv'
  BY <1>7, <1>0, WqConsts, Zenon DEF WorkerExit, WorkerSplice, order, NextInv, PcType
<1>8. ASSUME NEW p \in Worker, WorkerIdle(p) PROVE NextInv'
  BY <1>8, <1>0, WqConsts DEF WorkerIdle, Goto, NextInv, PcType
<1>9. ASSUME NEW p \in Worker, HandleNext(p) \/ HandleDone(p) PROVE NextInv'
  BY <1>9, <1>0, WqConsts DEF HandleNext, HandleDone, Goto, order, NextInv, PcType
<1>10. ASSUME NEW p \in Worker, CheckOverlap(p) \/ QueueIoU(p) \/ Complete(p) PROVE NextInv'
  BY <1>10, <1>0, WqConsts DEF CheckOverlap, QueueIoU, Complete, Goto, order, NextInv, PcType
<1>11. CASE UNCHANGED <<pc, next_free_worker>>
  BY <1>11, <1>0, WqConsts DEF NextInv, PcType
<1>12. CASE StartFails \/ MarkIdle \/ InitScan \/ JobSleep \/ GetSubmitWorker
  BY <1>12, <1>11 DEF StartFails, MarkIdle, InitScan, JobSleep, GetSubmitWorker, engine, lists,
     order, locals, count, found
<1>13. CASE FlushScan \/ ExitJoin \/ FlushBegin \/ ExitBegin
  BY <1>13, <1>11 DEF FlushScan, ExitJoin, FlushBegin, ExitBegin, engine, lists, order, locals,
     count, found
<1>14. ASSUME NEW u \in IoU, EnqueueBegin(u) PROVE NextInv'
  BY <1>14, <1>11 DEF EnqueueBegin, engine, lists, order, locals, count, found
<1> QED
  BY <1>1, <1>2, <1>3, <1>4, <1>5, <1>6, <1>7, <1>8, <1>9, <1>10, <1>11, <1>12, <1>13, <1>14 DEF
     Next, JobStep, JobCall, WorkerStep

\* Only the owner of overlap_check puts an io_u in flight, and it has compared it
\* with all that are.
LEMMA OverlapStep ==
  ASSUME WorkqueueTypeOK, OverlapInv, \A w \in Worker : PlaceInv(w), \A w \in Worker : ListInv(w), Next
  PROVE  OverlapInv'
<1>0. OverlapInv /\ PcType /\ ListsType /\ (job = "start" => \A w \in Worker : w >= idx => pc[w] = "none")
      /\ idx \in Nat
  BY TypeParts, WqConsts DEF JobType, PlaceInv
<1>1. CASE StartWorker
  BY <1>1, <1>0, WqConsts DEF StartWorker, engine, OverlapInv, NoOverlapInFlight, PcType
<1>2. CASE EnqueueAdd \/ ExitMark \/ SpuriousWakeup
  BY <1>2, <1>0, WqConsts, Zenon DEF EnqueueAdd, ExitMark, SpuriousWakeup, SignalWorker, engine,
     OverlapInv, NoOverlapInFlight, PcType
<1>3. ASSUME NEW p \in Worker, WorkerInit(p) \/ WorkerStarted(p) \/ WorkerCheck(p) PROVE OverlapInv'
  BY <1>3, <1>0, WqConsts DEF WorkerInit, WorkerStarted, WorkerCheck, Goto, engine, OverlapInv,
     NoOverlapInFlight, PcType
<1>4. ASSUME NEW p \in Worker, WorkerIdle(p) \/ WorkerNotify(p) \/ WorkerSleep(p) PROVE OverlapInv'
  BY <1>4, <1>0, WqConsts, Zenon DEF WorkerIdle, WorkerNotify, WorkerSleep, Goto, engine, OverlapInv,
     NoOverlapInFlight, PcType
<1>5. ASSUME NEW p \in Worker, WorkerExit(p) \/ WorkerSplice(p) PROVE OverlapInv'
  BY <1>5, <1>0, WqConsts, Zenon DEF WorkerExit, WorkerSplice, engine, OverlapInv, NoOverlapInFlight,
     PcType
<1>6. ASSUME NEW p \in Worker, HandleNext(p) \/ HandleDone(p) PROVE OverlapInv'
  BY <1>6, <1>0, WqConsts, Zenon DEF HandleNext, HandleDone, ListsType, Goto, engine, OverlapInv,
     NoOverlapInFlight, PcType
<1>7. ASSUME NEW p \in Worker, CheckOverlap(p) PROVE OverlapInv'
  BY <1>7, <1>0, WqConsts, Zenon DEF CheckOverlap, ListsType, Goto, OverlapInv, NoOverlapInFlight,
     PcType
<1>8. ASSUME NEW p \in Worker, QueueIoU(p) PROVE OverlapInv'
  <2>1. /\ pc[p] = "queue" /\ flight' = flight \cup {cur[p]} /\ cur' = cur /\ overlap_check' = NoWorker
        /\ pc' = [pc EXCEPT ![p] = "complete"] /\ overlap_check = p
    BY <1>8, <1>0 DEF QueueIoU, Goto, OverlapInv
  <2>2. \A w \in Worker : pc'[w] # "queue"
    BY <2>1, <1>0 DEF OverlapInv, PcType
  <2>3. \A v \in flight : {cur[p], v} \notin Overlap /\ {v, cur[p]} \notin Overlap
    <3>1. \A v \in flight : {cur[p], v} \notin Overlap
      BY <2>1, <1>0 DEF OverlapInv
    <3>2. \A v : {cur[p], v} = {v, cur[p]}
      OBVIOUS
    <3> QED BY <3>1, <3>2
  <2>4. NoOverlapInFlight'
    BY <2>1, <2>3, <1>0 DEF OverlapInv, NoOverlapInFlight
  <2> QED BY <2>1, <2>2, <2>4, WqConsts DEF OverlapInv
<1>9. ASSUME NEW p \in Worker, Complete(p) PROVE OverlapInv'
  BY <1>9, <1>0, WqConsts, Zenon DEF Complete, ListsType, Goto, OverlapInv, NoOverlapInFlight, PcType
<1>10. CASE UNCHANGED <<pc, cur, overlap_check, flight>>
  BY <1>10, <1>0, WqConsts DEF OverlapInv, NoOverlapInFlight, PcType
<1>11. CASE StartFails \/ MarkIdle \/ InitScan \/ JobSleep \/ GetSubmitWorker
  BY <1>11, <1>10 DEF StartFails, MarkIdle, InitScan, JobSleep, GetSubmitWorker, engine, lists,
     order, locals, count, found
<1>12. CASE AdvanceFree \/ FlushScan \/ ExitJoin \/ FlushBegin \/ ExitBegin
  BY <1>12, <1>10 DEF AdvanceFree, FlushScan, ExitJoin, FlushBegin, ExitBegin, engine, lists,
     order, locals, count, found
<1>13. ASSUME NEW u \in IoU, EnqueueBegin(u) PROVE OverlapInv'
  BY <1>13, <1>10 DEF EnqueueBegin, engine, lists, order, locals, count, found
<1> QED
  BY <1>1, <1>2, <1>3, <1>4, <1>5, <1>6, <1>7, <1>8, <1>9, <1>10, <1>11, <1>12, <1>13 DEF Next,
     JobStep, JobCall, WorkerStep

\* A worker that was seen running without error stays so, and one seen idle stays
\* idle while the job is in workqueue_flush.
LEMMA ScanStep ==
  ASSUME WorkqueueTypeOK, JobInv, ScanInv, \A w \in Worker : PlaceInv(w), Next
  PROVE  ScanInv'
<1>0. ScanInv /\ FlagsType /\ JobInv /\ JobType
  BY WqConsts, TypeParts DEF FlagsType, JobType
<1>1. CASE StartWorker \/ StartFails \/ JobSleep
  BY <1>1, <1>0, WqConsts DEF StartWorker, StartFails, JobSleep, JobAt, count, Worker, ScanInv
<1>2. CASE MarkIdle
  BY <1>2, <1>0, WqConsts DEF MarkIdle, JobAt, Worker, JobType, ScanInv
<1>3. CASE InitScan
  <2>1. CASE idx + 1 = max_workers
    BY <1>3, <2>1, <1>0 DEF InitScan, ScanInv
  <2>2. CASE idx + 1 # max_workers
    <3>1. /\ job = "init_scan" /\ job' = job /\ idx' = idx + 1 /\ flags' = flags
          /\ running' = running + IF "RUNNING" \in flags[idx] THEN 1 ELSE 0
          /\ error' = (error \/ "ERROR" \in flags[idx])
          /\ idx \in Nat /\ running \in Nat /\ running <= idx
      BY <1>3, <2>2, <1>0 DEF InitScan, JobType, JobInv
    <3>2. ASSUME running' = idx', ~error'
          PROVE  /\ running = idx /\ ~error
                 /\ "RUNNING" \in flags[idx] /\ "ERROR" \notin flags[idx]
      <4>1. ~error /\ "ERROR" \notin flags[idx]
        BY <3>1, <3>2, Zenon
      <4>2. running = idx /\ "RUNNING" \in flags[idx]
        <5>1. running' = idx + 1
          BY <3>1, <3>2
        <5> QED BY <3>1, <5>1
      <4> QED BY <4>1, <4>2
    <3>3. \A w \in Worker : w < idx + 1 => w < idx \/ w = idx
      BY <3>1 DEF Worker
    <3> QED BY <3>1, <3>2, <3>3, <1>0 DEF ScanInv
  <2> QED BY <2>1, <2>2
<1>4. CASE GetSubmitWorker \/ AdvanceFree
  BY <1>4, <1>0, WqConsts DEF GetSubmitWorker, AdvanceFree, JobAt, ScanInv
<1>5. CASE EnqueueAdd
  BY <1>5, <1>0, WqConsts DEF EnqueueAdd, ScanInv
<1>6. CASE FlushScan
  BY <1>6, <1>0, WqConsts DEF FlushScan, JobAt, JobType, Worker, ScanInv
<1>7. CASE ExitMark \/ ExitJoin \/ ExitBegin
  BY <1>7, <1>0, WqConsts DEF ExitMark, ExitJoin, ExitBegin, JobAt, ScanInv
<1>8. CASE FlushBegin
  BY <1>8, <1>0, WqConsts DEF FlushBegin, JobAt, Worker, ScanInv
<1>9. CASE SpuriousWakeup
  BY <1>9, <1>0, WqConsts DEF SpuriousWakeup, JobAt, SignalFlushCond, JobInv, Worker, locals,
     count, ScanInv
<1>10. ASSUME NEW u \in IoU, EnqueueBegin(u) PROVE ScanInv'
  BY <1>10, <1>0, WqConsts DEF EnqueueBegin, ScanInv
<1>11. ASSUME NEW p \in Worker, WorkerStarted(p) \/ WorkerNotify(p) PROVE ScanInv'
  BY <1>11, <1>0, WqConsts DEF WorkerStarted, WorkerNotify, JobAt, SignalFlushCond, JobInv,
     Worker, locals, count, ScanInv
<1>12. ASSUME NEW p \in Worker, WorkerInit(p) PROVE ScanInv'
  BY <1>12, <1>0, WqConsts DEF WorkerInit, FlagsType, Goto, PlaceInv, locals, count, ScanInv
<1>13. ASSUME NEW p \in Worker, WorkerIdle(p) PROVE ScanInv'
  BY <1>13, <1>0, WqConsts DEF WorkerIdle, FlagsType, locals, count, ScanInv
<1>14. CASE UNCHANGED <<job, idx, running, error, flags>>
  BY <1>14, <1>0, WqConsts DEF ScanInv
<1>15. ASSUME NEW p \in Worker, WorkerCheck(p) \/ WorkerExit(p) \/ WorkerSleep(p) \/
   WorkerSplice(p) \/ HandleNext(p) \/ HandleDone(p) PROVE ScanInv'
  BY <1>15, <1>14, Zenon DEF WorkerCheck, WorkerExit, WorkerSleep, WorkerSplice, HandleNext,
     HandleDone, engine, lists, order, locals, count, found
<1>16. ASSUME NEW p \in Worker, CheckOverlap(p) \/ QueueIoU(p) \/ Complete(p) PROVE ScanInv'
  BY <1>16, <1>14 DEF CheckOverlap, QueueIoU, Complete, engine, lists, order, locals, count,
     found
<1> QED
  BY <1>1, <1>2, <1>3, <1>4, <1>5, <1>6, <1>7, <1>8, <1>9, <1>10, <1>11, <1>12, <1>13, <1>14,
     <1>15, <1>16 DEF Next, JobStep, JobCall, WorkerStep

\* A joined worker takes no more steps.
LEMMA JoinStep ==
  ASSUME WorkqueueTypeOK, JobInv, JoinInv, Next
  PROVE  JoinInv'
<1>0. JoinInv /\ PcType /\ JobInv /\ JobType
  BY WqConsts, TypeParts DEF PcType, JobType
<1>1. CASE StartWorker \/ StartFails \/ JobSleep \/ MarkIdle \/ AdvanceFree \/ FlushScan \/ FlushBegin \/ ExitBegin
  BY <1>1, <1>0, WqConsts DEF StartWorker, StartFails, JobSleep, MarkIdle, AdvanceFree,
     FlushScan, FlushBegin, ExitBegin, JobAt, JoinInv
<1>2. CASE InitScan \/ GetSubmitWorker \/ EnqueueAdd
  BY <1>2, <1>0, WqConsts DEF InitScan, GetSubmitWorker, EnqueueAdd, JoinInv
<1>3. CASE ExitMark
  BY <1>3, <1>0, WqConsts DEF ExitMark, JobAt, PcType, SignalWorker, Worker, JoinInv
<1>4. CASE ExitJoin
  BY <1>4, <1>0, WqConsts DEF ExitJoin, JobAt, PcType, JobType, Worker, JoinInv
<1>5. ASSUME NEW u \in IoU, EnqueueBegin(u) PROVE JoinInv'
  BY <1>5, <1>0, WqConsts DEF EnqueueBegin, JoinInv
<1>6. CASE SpuriousWakeup
  BY <1>6, <1>0, WqConsts DEF SpuriousWakeup, JobAt, SignalFlushCond, SignalWorker, PcType,
     locals, JoinInv
<1>7. ASSUME NEW p \in Worker, WorkerInit(p) \/ WorkerCheck(p) \/ WorkerIdle(p) PROVE JoinInv'
  BY <1>7, <1>0, WqConsts DEF WorkerInit, WorkerCheck, WorkerIdle, Goto, PcType, locals, JoinInv
<1>8. ASSUME NEW p \in Worker, WorkerSleep(p) PROVE JoinInv'
  BY <1>8, <1>0, WqConsts DEF WorkerSleep, Goto, PcType, locals, JoinInv
<1>9. ASSUME NEW p \in Worker, WorkerStarted(p) PROVE JoinInv'
  BY <1>9, <1>0, WqConsts DEF WorkerStarted, Goto, PcType, JobAt, SignalFlushCond, JoinInv
<1>10. ASSUME NEW p \in Worker, WorkerNotify(p) PROVE JoinInv'
  BY <1>10, <1>0, WqConsts DEF WorkerNotify, Goto, PcType, JobAt, SignalFlushCond, locals,
     JoinInv
<1>11. ASSUME NEW p \in Worker, WorkerExit(p) \/ WorkerSplice(p) PROVE JoinInv'
  BY <1>11, <1>0, WqConsts DEF WorkerExit, WorkerSplice, PcType, locals, JoinInv
<1>12. ASSUME NEW p \in Worker, HandleNext(p) \/ HandleDone(p) PROVE JoinInv'
  BY <1>12, <1>0, WqConsts DEF HandleNext, HandleDone, Goto, PcType, locals, JoinInv
<1>13. ASSUME NEW p \in Worker, CheckOverlap(p) \/ QueueIoU(p) \/ Complete(p) PROVE JoinInv'
  BY <1>13, <1>0, WqConsts DEF CheckOverlap, QueueIoU, Complete, Goto, PcType, locals, JoinInv
<1> QED
  BY <1>1, <1>2, <1>3, <1>4, <1>5, <1>6, <1>7, <1>8, <1>9, <1>10, <1>11, <1>12, <1>13 DEF Next,
     JobStep, JobCall, WorkerStep

\* Between the unlocked test of the flags and the sleep, flush_lock keeps the
\* signal back.
LEMMA FlushStep ==
  ASSUME WorkqueueTypeOK, JobInv, FlushInv, Next
  PROVE  FlushInv'
<1>0. FlushInv /\ PcType /\ FlagsType /\ JobInv /\ JobType
  BY WqConsts, TypeParts DEF PcType, FlagsType, JobType
<1>1. CASE StartWorker \/ StartFails \/ MarkIdle \/ AdvanceFree
  BY <1>1, <1>0, WqConsts DEF StartWorker, StartFails, MarkIdle, AdvanceFree, JobAt, FlushInv
<1>2. CASE FlushBegin \/ ExitBegin \/ ExitMark \/ ExitJoin
  BY <1>2, <1>0, WqConsts DEF FlushBegin, ExitBegin, ExitMark, ExitJoin, JobAt, FlushInv
<1>3. CASE InitScan \/ GetSubmitWorker \/ EnqueueAdd
  BY <1>3, <1>0, WqConsts DEF InitScan, GetSubmitWorker, EnqueueAdd, FlushInv
<1>4. ASSUME NEW u \in IoU, EnqueueBegin(u) PROVE FlushInv'
  BY <1>4, <1>0, WqConsts DEF EnqueueBegin, FlushInv
<1>5. CASE JobSleep
  BY <1>5, <1>0, WqConsts DEF JobSleep, JobAt, FlushInv
<1>6. CASE FlushScan
  <2>1. /\ job = "flush_scan" /\ UNCHANGED <<flags, max_workers>>
        /\ job' # "flush_wait" /\ (job' = "flush_sleep" => "IDLE" \notin flags[idx])
    BY <1>6 DEF FlushScan, JobAt
  <2>2. idx \in Worker /\ idx < max_workers
    BY <2>1, <1>0, WqConsts, SMTT(30) DEF JobInv, JobType, Worker
  <2> QED BY <2>1, <2>2 DEF FlushInv
<1>7. CASE SpuriousWakeup
  BY <1>7, <1>0, WqConsts DEF SpuriousWakeup, JobAt, SignalFlushCond, SignalWorker, PcType,
     locals, FlushInv
<1>8. ASSUME NEW p \in Worker, WorkerInit(p) PROVE FlushInv'
  BY <1>8, <1>0, WqConsts, SMTT(30) DEF WorkerInit, Goto, PcType, FlagsType, locals, FlushInv
<1>9. ASSUME NEW p \in Worker, WorkerCheck(p) PROVE FlushInv'
  BY <1>9, <1>0, WqConsts DEF WorkerCheck, Goto, PcType, locals, FlushInv
<1>10. ASSUME NEW p \in Worker, WorkerIdle(p) PROVE FlushInv'
  BY <1>10, <1>0, WqConsts DEF WorkerIdle, Goto, PcType, FlagsType, locals, FlushInv
<1>11. ASSUME NEW p \in Worker, WorkerSleep(p) PROVE FlushInv'
  BY <1>11, <1>0, WqConsts DEF WorkerSleep, Goto, PcType, locals, FlushInv
<1>12. ASSUME NEW p \in Worker, WorkerStarted(p) PROVE FlushInv'
  BY <1>12, <1>0, WqConsts DEF WorkerStarted, Goto, PcType, JobAt, SignalFlushCond, FlushInv
<1>13. ASSUME NEW p \in Worker, WorkerNotify(p) PROVE FlushInv'
  BY <1>13, <1>0, WqConsts DEF WorkerNotify, Goto, PcType, JobAt, SignalFlushCond,
     FlushLockFree, JobInv, locals, FlushInv
<1>14. ASSUME NEW p \in Worker, WorkerExit(p) \/ WorkerSplice(p) PROVE FlushInv'
  BY <1>14, <1>0, WqConsts DEF WorkerExit, WorkerSplice, PcType, locals, FlushInv
<1>15. ASSUME NEW p \in Worker, HandleNext(p) \/ HandleDone(p) PROVE FlushInv'
  BY <1>15, <1>0, WqConsts DEF HandleNext, HandleDone, Goto, PcType, locals, FlushInv
<1>16. ASSUME NEW p \in Worker, CheckOverlap(p) \/ QueueIoU(p) \/ Complete(p) PROVE FlushInv'
  BY <1>16, <1>0, WqConsts DEF CheckOverlap, QueueIoU, Complete, Goto, PcType, locals, FlushInv
<1> QED
  BY <1>1, <1>2, <1>3, <1>4, <1>5, <1>6, <1>7, <1>8, <1>9, <1>10, <1>11, <1>12, <1>13, <1>14,
     <1>15, <1>16 DEF Next, JobStep, JobCall, WorkerStep

\* One worker's place and flags.
LEMMA PlaceStep ==
  ASSUME WorkqueueTypeOK, JobInv, ScanInv, NEW x \in Worker, PlaceInv(x), Next
  PROVE  PlaceInv(x)'
<1>0. PlaceInv(x) /\ ScanInv /\ PcType /\ FlagsType /\ JobInv /\ JobType
  BY WqConsts, TypeParts DEF PcType, FlagsType, JobType
<1>1. CASE StartWorker
  <2>1. /\ job = "start" /\ job' = "mark" /\ idx' = idx /\ UNCHANGED <<flags, max_workers>>
        /\ pc'[x] = IF x = idx THEN "init" ELSE pc[x]
    BY <1>1, <1>0 DEF StartWorker, JobAt, PcType
  <2>2. x < max_workers /\ max_workers \in Nat /\ idx \in Nat /\ x \in Nat
    BY <2>1, <1>0, WqConsts, SMTT(30) DEF JobInv, JobType, Worker
  <2>3. CASE x = idx
    <3>0. x >= idx /\ ~(x > idx) /\ ~(x >= max_workers)
      BY <2>2, <2>3
    <3>1. pc[x] = "none" /\ pc'[x] = "init"
      BY <2>1, <2>3, <3>0, <1>0, Zenon DEF PlaceInv
    <3> QED BY <2>1, <3>0, <3>1, <1>0 DEF PlaceInv, Working, Initialising, Exiting
  <2>4. CASE x # idx
    <3>1. pc'[x] = pc[x] /\ (x > idx => x >= idx)
      BY <2>1, <2>2, <2>4
    <3> QED BY <2>1, <2>2, <2>4, <3>1, <1>0 DEF PlaceInv, Working, Initialising, Exiting
  <2> QED BY <2>3, <2>4
<1>2. CASE StartFails
  BY <1>2, <1>0, WqConsts DEF StartFails, JobAt, JobInv, PlaceInv, Working, Initialising,
     Exiting, PcType, FlagsType, JobType, Worker
<1>3. CASE MarkIdle
  <2>1. /\ job = "mark" /\ UNCHANGED <<pc, max_workers>>
        /\ flags'[x] = IF x = idx THEN {"IDLE"} ELSE flags[x]
        /\ \/ job' = "start" /\ idx' = idx + 1
           \/ job' = "init_scan"
    BY <1>3, <1>0 DEF MarkIdle, JobAt, FlagsType
  <2>2. idx \in Nat /\ x \in Nat /\ (x >= idx + 1 => x > idx)
    BY <1>0, WqConsts DEF JobType, Worker
  <2>3. job' = "start" /\ x >= idx' => pc[x] = "none"
    BY <2>1, <2>2, <1>0 DEF PlaceInv
  <2>4. /\ "RUNNING" \in flags'[x] => "RUNNING" \in flags[x] /\ ("ERROR" \in flags[x] => "ERROR" \in flags'[x])
        /\ "EXIT" \in flags'[x] => "EXIT" \in flags[x]
    BY <2>1, SMTT(30)
  <2>5. job' \in {"start", "init_scan"}
    BY <2>1
  <2> QED BY <2>1, <2>3, <2>4, <2>5, <1>0 DEF PlaceInv, Working, Initialising, Exiting
<1>4. CASE AdvanceFree
  BY <1>4, <1>0, WqConsts DEF AdvanceFree, JobAt, PlaceInv, Working, Initialising, Exiting,
     PcType, FlagsType, JobType, Worker
<1>5. CASE FlushBegin
  BY <1>5, <1>0, WqConsts DEF FlushBegin, JobAt, PlaceInv, Working, Initialising, Exiting,
     PcType, FlagsType, JobType, Worker
<1>6. CASE ExitBegin
  BY <1>6, <1>0, WqConsts DEF ExitBegin, JobAt, PlaceInv, Working, Initialising, Exiting,
     PcType, FlagsType, JobType, Worker
<1>7. CASE ExitMark
  <2>1. job = "exit" /\ job' \in {"exit", "join"} /\ max_workers' = max_workers
    BY <1>7 DEF ExitMark, JobAt
  <2>2. \/ flags'[x] = flags[x] /\ pc'[x] = pc[x]
        \/ /\ flags'[x] = flags[x] \cup {"EXIT"}
           /\ pc'[x] = IF pc[x] = "wait" THEN "handle" ELSE pc[x]
    BY <1>7, <1>0 DEF ExitMark, SignalWorker, FlagsType, PcType
  <2> QED BY <2>1, <2>2, <1>0 DEF PlaceInv, Working, Initialising, Exiting
<1>8. CASE ExitJoin
  BY <1>8, <1>0, WqConsts DEF ExitJoin, JobAt, PlaceInv, Working, Initialising, Exiting, PcType,
     FlagsType, JobType, Worker
<1>9. CASE InitScan
  BY <1>9, <1>0, WqConsts DEF InitScan, JobInv, ScanInv, PlaceInv, Working, Initialising,
     Exiting, PcType, FlagsType, JobType, Worker
<1>10. CASE GetSubmitWorker
  BY <1>10, <1>0, WqConsts DEF GetSubmitWorker, PlaceInv, Working, Initialising, Exiting,
     PcType, FlagsType, JobType, Worker
<1>11. CASE EnqueueAdd
  BY <1>11, <1>0, WqConsts DEF EnqueueAdd, SignalWorker, JobInv, PlaceInv, Working,
     Initialising, Exiting, PcType, FlagsType, JobType, Worker
<1>12. ASSUME NEW u \in IoU, EnqueueBegin(u) PROVE PlaceInv(x)'
  BY <1>12, <1>0, WqConsts DEF EnqueueBegin, PlaceInv, Working, Initialising, Exiting, PcType,
     FlagsType, JobType, Worker
<1>13. CASE JobSleep
  BY <1>13, <1>0, WqConsts DEF JobSleep, JobAt, PlaceInv, Working, Initialising, Exiting,
     PcType, FlagsType, JobType, Worker
<1>14. CASE FlushScan
  BY <1>14, <1>0, WqConsts, Zenon DEF FlushScan, JobAt, JobInv, PlaceInv, Working, Initialising,
     Exiting, PcType, FlagsType, JobType, Worker
<1>15. CASE SpuriousWakeup
  BY <1>15, <1>0, WqConsts DEF SpuriousWakeup, JobAt, SignalFlushCond, SignalWorker, locals,
     PlaceInv, Working, Initialising, Exiting, PcType, FlagsType, JobType, Worker
<1>16. ASSUME NEW p \in Worker, WorkerInit(p) PROVE PlaceInv(x)'
  <2>1. UNCHANGED <<job, idx, max_workers>> /\ pc[p] = "init"
    BY <1>16 DEF WorkerInit, Goto, locals
  <2>2. x # p => flags'[x] = flags[x] /\ pc'[x] = pc[x]
    BY <1>16, <1>0 DEF WorkerInit, Goto, FlagsType, PcType
  <2>3. x = p => pc'[x] = "started" /\ ("EXIT" \in flags'[x] => "EXIT" \in flags[x])
    BY <1>16, <1>0 DEF WorkerInit, Goto, FlagsType, PcType
  <2> QED BY <2>1, <2>2, <2>3, <1>0, Zenon DEF PlaceInv, Working, Initialising, Exiting
<1>17. ASSUME NEW p \in Worker, WorkerCheck(p) PROVE PlaceInv(x)'
  BY <1>17, <1>0, WqConsts DEF WorkerCheck, Goto, locals, PlaceInv, Working, Initialising,
     Exiting, PcType, FlagsType, JobType, Worker
<1>18. ASSUME NEW p \in Worker, WorkerIdle(p) PROVE PlaceInv(x)'
  BY <1>18, <1>0, WqConsts DEF WorkerIdle, Goto, locals, PlaceInv, Working, Initialising,
     Exiting, PcType, FlagsType, JobType, Worker
<1>19. ASSUME NEW p \in Worker, WorkerSleep(p) PROVE PlaceInv(x)'
  BY <1>19, <1>0, WqConsts DEF WorkerSleep, Goto, locals, PlaceInv, Working, Initialising,
     Exiting, PcType, FlagsType, JobType, Worker
<1>20. ASSUME NEW p \in Worker, WorkerStarted(p) PROVE PlaceInv(x)'
  BY <1>20, <1>0, WqConsts DEF WorkerStarted, Goto, JobAt, SignalFlushCond, PlaceInv, Working,
     Initialising, Exiting, PcType, FlagsType, JobType, Worker
<1>21. ASSUME NEW p \in Worker, WorkerNotify(p) PROVE PlaceInv(x)'
  BY <1>21, <1>0, WqConsts DEF WorkerNotify, Goto, JobAt, SignalFlushCond, locals, PlaceInv,
     Working, Initialising, Exiting, PcType, FlagsType, JobType, Worker
<1>22. ASSUME NEW p \in Worker, WorkerExit(p) PROVE PlaceInv(x)'
  BY <1>22, <1>0, WqConsts DEF WorkerExit, locals, PlaceInv, Working, Initialising, Exiting,
     PcType, FlagsType, JobType, Worker
<1>23. ASSUME NEW p \in Worker, WorkerSplice(p) PROVE PlaceInv(x)'
  BY <1>23, <1>0, WqConsts DEF WorkerSplice, locals, PlaceInv, Working, Initialising, Exiting,
     PcType, FlagsType, JobType, Worker
<1>24. ASSUME NEW p \in Worker, HandleNext(p) PROVE PlaceInv(x)'
  BY <1>24, <1>0, WqConsts DEF HandleNext, Goto, locals, PlaceInv, Working, Initialising,
     Exiting, PcType, FlagsType, JobType, Worker
<1>25. ASSUME NEW p \in Worker, HandleDone(p) PROVE PlaceInv(x)'
  BY <1>25, <1>0, WqConsts DEF HandleDone, Goto, locals, PlaceInv, Working, Initialising,
     Exiting, PcType, FlagsType, JobType, Worker
<1>26. ASSUME NEW p \in Worker, CheckOverlap(p) PROVE PlaceInv(x)'
  BY <1>26, <1>0, WqConsts DEF CheckOverlap, Goto, locals, PlaceInv, Working, Initialising,
     Exiting, PcType, FlagsType, JobType, Worker
<1>27. ASSUME NEW p \in Worker, QueueIoU(p) PROVE PlaceInv(x)'
  BY <1>27, <1>0, WqConsts DEF QueueIoU, Goto, locals, PlaceInv, Working, Initialising, Exiting,
     PcType, FlagsType, JobType, Worker
<1>28. ASSUME NEW p \in Worker, Complete(p) PROVE PlaceInv(x)'
  BY <1>28, <1>0, WqConsts DEF Complete, Goto, locals, PlaceInv, Working, Initialising, Exiting,
     PcType, FlagsType, JobType, Worker
<1> QED
  BY <1>1, <1>2, <1>3, <1>4, <1>5, <1>6, <1>7, <1>8, <1>9, <1>10, <1>11, <1>12, <1>13, <1>14,
     <1>15, <1>16, <1>17, <1>18, <1>19, <1>20, <1>21, <1>22, <1>23, <1>24, <1>25, <1>26, <1>27,
     <1>28 DEF Next, JobStep, JobCall, WorkerStep

\* One worker's lists.
LEMMA ListStep ==
  ASSUME WorkqueueTypeOK, JobInv, NEW x \in Worker, PlaceInv(x), ListInv(x), Next
  PROVE  ListInv(x)'
<1>0. ListInv(x) /\ PlaceInv(x) /\ PcType /\ FlagsType /\ ListsType /\ JobInv
  BY WqConsts, TypeParts DEF PcType, FlagsType, ListsType
<1>1. CASE StartWorker
  BY <1>1, <1>0, WqConsts DEF StartWorker, JobAt, JobInv, lists, engine, ListInv, Empty,
     Submitting, Initialising, PcType, FlagsType, ListsType
<1>2. CASE StartFails
  BY <1>2, <1>0, WqConsts DEF StartFails, JobAt, lists, engine, ListInv, Empty, Submitting,
     Initialising, PcType, FlagsType, ListsType
<1>3. CASE MarkIdle
  BY <1>3, <1>0, WqConsts DEF MarkIdle, JobAt, lists, engine, ListInv, Empty, Submitting,
     Initialising, PcType, FlagsType, ListsType
<1>4. CASE AdvanceFree
  BY <1>4, <1>0, WqConsts DEF AdvanceFree, JobAt, lists, engine, ListInv, Empty, Submitting,
     Initialising, PcType, FlagsType, ListsType
<1>5. CASE FlushBegin
  BY <1>5, <1>0, WqConsts DEF FlushBegin, JobAt, lists, engine, ListInv, Empty, Submitting,
     Initialising, PcType, FlagsType, ListsType
<1>6. CASE ExitBegin
  BY <1>6, <1>0, WqConsts DEF ExitBegin, JobAt, lists, engine, ListInv, Empty, Submitting,
     Initialising, PcType, FlagsType, ListsType
<1>7. CASE ExitMark
  <2>1. job' \in {"exit", "join"} /\ UNCHANGED <<work_list, local_list, cur>>
    BY <1>7 DEF ExitMark, JobAt, lists, engine
  <2>2. /\ \A f \in {"IDLE", "ERROR"} : f \in flags'[x] => f \in flags[x]
        /\ pc'[x] = pc[x] \/ (pc[x] = "wait" /\ pc'[x] = "handle")
    BY <1>7, <1>0 DEF ExitMark, SignalWorker, FlagsType, PcType
  <2> QED BY <2>1, <2>2, <1>0 DEF ListInv, Empty, Submitting, Initialising
<1>8. CASE ExitJoin
  BY <1>8, <1>0, WqConsts, Zenon DEF ExitJoin, JobAt, lists, engine, ListInv, Empty, Submitting,
     Initialising, PcType, FlagsType, ListsType
<1>9. CASE InitScan
  BY <1>9, <1>0, WqConsts DEF InitScan, lists, engine, ListInv, Empty, Submitting, Initialising,
     PcType, FlagsType, ListsType
<1>10. CASE GetSubmitWorker
  BY <1>10, <1>0, WqConsts, Zenon DEF GetSubmitWorker, lists, engine, ListInv, Empty, Submitting,
     Initialising, PcType, FlagsType, ListsType
<1>11. CASE EnqueueAdd
  BY <1>11, <1>0, WqConsts, Zenon DEF EnqueueAdd, SignalWorker, JobInv, engine, Working, PlaceInv,
     ListInv, Empty, Submitting, Initialising, PcType, FlagsType, ListsType
<1>12. ASSUME NEW u \in IoU, EnqueueBegin(u) PROVE ListInv(x)'
  BY <1>12, <1>0, WqConsts DEF EnqueueBegin, lists, engine, ListInv, Empty, Submitting,
     Initialising, PcType, FlagsType, ListsType
<1>13. CASE JobSleep
  BY <1>13, <1>0, WqConsts, Zenon DEF JobSleep, JobAt, lists, engine, ListInv, Empty, Submitting,
     Initialising, PcType, FlagsType, ListsType
<1>14. CASE FlushScan
  BY <1>14, <1>0, WqConsts, Zenon DEF FlushScan, JobAt, lists, engine, ListInv, Empty, Submitting,
     Initialising, PcType, FlagsType, ListsType
<1>15. CASE SpuriousWakeup
  BY <1>15, <1>0, WqConsts DEF SpuriousWakeup, JobAt, SignalFlushCond, SignalWorker, lists,
     engine, ListInv, Empty, Submitting, Initialising, PcType, FlagsType, ListsType
<1>16. ASSUME NEW p \in Worker, WorkerInit(p) PROVE ListInv(x)'
  BY <1>16, <1>0, WqConsts DEF WorkerInit, Goto, lists, engine, ListInv, Empty, Submitting,
     Initialising, PcType, FlagsType, ListsType
<1>17. ASSUME NEW p \in Worker, WorkerCheck(p) PROVE ListInv(x)'
  BY <1>17, <1>0, WqConsts DEF WorkerCheck, Goto, lists, engine, ListInv, Empty, Submitting,
     Initialising, PcType, FlagsType, ListsType
<1>18. ASSUME NEW p \in Worker, WorkerIdle(p) PROVE ListInv(x)'
  BY <1>18, <1>0, WqConsts DEF WorkerIdle, Goto, lists, engine, ListInv, Empty, Submitting,
     Initialising, PcType, FlagsType, ListsType
<1>19. ASSUME NEW p \in Worker, WorkerSleep(p) PROVE ListInv(x)'
  BY <1>19, <1>0, WqConsts DEF WorkerSleep, Goto, lists, engine, ListInv, Empty, Submitting,
     Initialising, PcType, FlagsType, ListsType
<1>20. ASSUME NEW p \in Worker, WorkerStarted(p) PROVE ListInv(x)'
  BY <1>20, <1>0, WqConsts DEF WorkerStarted, Goto, JobAt, SignalFlushCond, lists, engine,
     ListInv, Empty, Submitting, Initialising, PcType, FlagsType, ListsType
<1>21. ASSUME NEW p \in Worker, WorkerNotify(p) PROVE ListInv(x)'
  BY <1>21, <1>0, WqConsts DEF WorkerNotify, Goto, JobAt, SignalFlushCond, lists, engine,
     ListInv, Empty, Submitting, Initialising, PcType, FlagsType, ListsType
<1>22. ASSUME NEW p \in Worker, WorkerExit(p) PROVE ListInv(x)'
  BY <1>22, <1>0, WqConsts DEF WorkerExit, lists, engine, ListInv, Empty, Submitting,
     Initialising, PcType, FlagsType, ListsType
<1>23. ASSUME NEW p \in Worker, WorkerSplice(p) PROVE ListInv(x)'
  BY <1>23, <1>0, WqConsts DEF WorkerSplice, engine, ListInv, Empty, Submitting, Initialising,
     PcType, FlagsType, ListsType
<1>24. ASSUME NEW p \in Worker, HandleNext(p) PROVE ListInv(x)'
  <2>1. UNCHANGED <<job, flags, work_list>> /\ pc[p] = "handle" /\ local_list[p] # << >>
    BY <1>24 DEF HandleNext, Goto
  <2>2. x # p => pc'[x] = pc[x] /\ local_list'[x] = local_list[x] /\ cur'[x] = cur[x]
    BY <1>24, <1>0 DEF HandleNext, Goto, PcType, ListsType
  <2>3. x = p => pc'[x] = "overlap" /\ cur'[x] \in IoU
    BY <1>24, <1>0 DEF HandleNext, Goto, PcType, ListsType
  <2> QED BY <2>1, <2>2, <2>3, <1>0, WqConsts, Zenon DEF ListInv, Empty, Submitting, Initialising
<1>25. ASSUME NEW p \in Worker, HandleDone(p) PROVE ListInv(x)'
  BY <1>25, <1>0, WqConsts DEF HandleDone, Goto, lists, engine, ListInv, Empty, Submitting,
     Initialising, PcType, FlagsType, ListsType
<1>26. ASSUME NEW p \in Worker, CheckOverlap(p) PROVE ListInv(x)'
  BY <1>26, <1>0, WqConsts DEF CheckOverlap, Goto, lists, ListInv, Empty, Submitting,
     Initialising, PcType, FlagsType, ListsType
<1>27. ASSUME NEW p \in Worker, QueueIoU(p) PROVE ListInv(x)'
  BY <1>27, <1>0, WqConsts DEF QueueIoU, Goto, lists, ListInv, Empty, Submitting, Initialising,
     PcType, FlagsType, ListsType
<1>28. ASSUME NEW p \in Worker, Complete(p) PROVE ListInv(x)'
  BY <1>28, <1>0, WqConsts DEF Complete, Goto, lists, ListInv, Empty, Submitting, Initialising,
     PcType, FlagsType, ListsType
<1> QED
  BY <1>1, <1>2, <1>3, <1>4, <1>5, <1>6, <1>7, <1>8, <1>9, <1>10, <1>11, <1>12, <1>13, <1>14,
     <1>15, <1>16, <1>17, <1>18, <1>19, <1>20, <1>21, <1>22, <1>23, <1>24, <1>25, <1>26, <1>27,
     <1>28 DEF Next, JobStep, JobCall, WorkerStep

-----------------------------------------------------------------------------
(* The io_us: what is enqueued and not complete is with a worker.           *)

LEMMA HeldParts ==
  \A w : /\ Held(w) = Range(work_list[w]) \cup Range(local_list[w]) \cup ({cur[w]} \ {NoIoU})
         /\ Held(w)' = Range(work_list'[w]) \cup Range(local_list'[w]) \cup ({cur'[w]} \ {NoIoU})
BY DEF Held, Range

\* Nothing is held by a worker whose lists are empty.
LEMMA EmptyHolds ==
  ASSUME NEW w, Empty(w) PROVE Held(w) = {}
<1>1. Range(<< >>) = {}
  BY DEF Range
<1> QED BY <1>1, HeldParts DEF Empty

\* What a worker holds changes when it is given an io_u and when it completes one.
LEMMA HeldStep ==
  ASSUME WorkqueueTypeOK, JobInv, HeldInv, \A w \in Worker : ListInv(w), Next
  PROVE  HeldInv'
<1>0. /\ ListsType /\ HeldInv
      /\ job = "add" => best \in Worker /\ io \in IoU
      /\ \A w \in Worker : pc[w] = "handle" => cur[w] = NoIoU
  BY TypeParts, Zenon DEF ListsType, JobInv, ListInv, Submitting
<1> DEFINE Kept(u) == \A w \in Worker : u \in Held(w) => u \in Held(w)'
<1>k. ASSUME busy' \subseteq busy, \A u \in busy' : Kept(u) PROVE HeldInv'
  BY <1>0, <1>k DEF HeldInv
<1>1. CASE EnqueueAdd
  <2>1. /\ work_list' = [work_list EXCEPT ![best] = Append(work_list[best], io)]
        /\ local_list' = local_list /\ cur' = cur /\ busy' = busy \cup {io} /\ job = "add"
    BY <1>1 DEF EnqueueAdd, engine
  <2>2. work_list[best] \in Seq(IoU) /\ work_list'[best] = Append(work_list[best], io)
    BY <2>1, <1>0 DEF ListsType
  <2>3. /\ Range(work_list[best]) \subseteq Range(work_list'[best])
        /\ io \in Range(work_list'[best])
    BY <2>1, <2>2, <1>0, RangeAppend, SMTT(30)
  <2>4. \A w \in Worker : w # best => work_list'[w] = work_list[w]
    BY <2>1, <1>0 DEF ListsType
  <2>5. \A w \in Worker : Held(w) \subseteq Held(w)'
    BY <2>1, <2>3, <2>4, HeldParts
  <2>6. \A w \in Worker : w = best => io \in Held(w)'
    BY <2>3, HeldParts
  <2>7. \E w \in Worker : io \in Held(w)'
    BY <2>1, <2>6, <1>0
  <2> QED BY <2>1, <2>5, <2>7, <1>0 DEF HeldInv
<1>2. ASSUME NEW p \in Worker, WorkerSplice(p) PROVE HeldInv'
  <2>1. /\ local_list' = [local_list EXCEPT ![p] = @ \o work_list[p]]
        /\ work_list' = [work_list EXCEPT ![p] = << >>] /\ cur' = cur /\ busy' = busy
    BY <1>2 DEF WorkerSplice, engine
  <2>2. Range(local_list[p]) \cup Range(work_list[p]) \subseteq Range(local_list'[p])
    BY <2>1, <1>0, RangeConcatHas DEF ListsType
  <2>3. \A w \in Worker : w # p => work_list'[w] = work_list[w] /\ local_list'[w] = local_list[w]
    BY <2>1, <1>0 DEF ListsType
  <2>4. \A w \in Worker : Held(w) \subseteq Held(w)'
    BY <2>1, <2>2, <2>3, HeldParts
  <2> QED BY <2>1, <2>4, <1>k
<1>3. ASSUME NEW p \in Worker, HandleNext(p) PROVE HeldInv'
  <2>1. /\ local_list[p] # << >> /\ pc[p] = "handle"
        /\ local_list' = [local_list EXCEPT ![p] = Tail(local_list[p])]
        /\ cur' = [cur EXCEPT ![p] = Head(local_list[p])] /\ work_list' = work_list /\ busy' = busy
    BY <1>3 DEF HandleNext, Goto
  <2>2. /\ local_list[p] \in Seq(IoU) /\ Head(local_list[p]) \in IoU
        /\ local_list'[p] = Tail(local_list[p]) /\ cur'[p] = Head(local_list[p]) /\ cur[p] = NoIoU
    BY <2>1, <1>0 DEF ListsType
  <2>3. Range(local_list[p]) \subseteq {cur'[p]} \cup Range(local_list'[p])
    BY <2>1, <2>2, RangeSplit
  <2>4. \A w \in Worker : w # p => local_list'[w] = local_list[w] /\ cur'[w] = cur[w]
    BY <2>1, <1>0 DEF ListsType
  <2>5. \A w \in Worker : Held(w) \subseteq Held(w)'
    BY <2>1, <2>2, <2>3, <2>4, HeldParts, WqConsts, Zenon
  <2> QED BY <2>1, <2>5, <1>k
<1>4. ASSUME NEW p \in Worker, Complete(p) PROVE HeldInv'
  <2>1. /\ busy' = busy \ {cur[p]} /\ cur' = [cur EXCEPT ![p] = NoIoU]
        /\ work_list' = work_list /\ local_list' = local_list
    BY <1>4 DEF Complete, lists
  <2>2. \A w \in Worker : w # p => cur'[w] = cur[w]
    BY <2>1, <1>0 DEF ListsType
  <2>3. \A u \in busy' : Kept(u)
    BY <2>1, <2>2, HeldParts
  <2> QED BY <2>1, <2>3, <1>k
<1>5. CASE UNCHANGED <<work_list, local_list, cur, busy>>
  BY <1>5, <1>k, HeldParts
<1>6. CASE StartWorker \/ StartFails \/ MarkIdle \/ InitScan \/ JobSleep
  BY <1>6, <1>5 DEF StartWorker, StartFails, MarkIdle, InitScan, JobSleep, engine, lists, order,
     locals, count, found
<1>7. CASE GetSubmitWorker \/ AdvanceFree \/ FlushScan \/ ExitMark \/ ExitJoin
  BY <1>7, <1>5 DEF GetSubmitWorker, AdvanceFree, FlushScan, ExitMark, ExitJoin, engine, lists,
     order, locals, count, found
<1>8. CASE FlushBegin \/ ExitBegin \/ SpuriousWakeup
  BY <1>8, <1>5 DEF FlushBegin, ExitBegin, SpuriousWakeup, engine, lists, order, locals, count,
     found
<1>9. ASSUME NEW p \in Worker, WorkerInit(p) \/ WorkerStarted(p) \/ WorkerCheck(p) \/
   WorkerExit(p) \/ WorkerIdle(p) \/ WorkerNotify(p) PROVE HeldInv'
  BY <1>9, <1>5, Zenon DEF WorkerInit, WorkerStarted, WorkerCheck, WorkerExit, WorkerIdle,
     WorkerNotify, engine, lists, order, locals, count, found
<1>10. ASSUME NEW p \in Worker, WorkerSleep(p) \/ HandleDone(p) \/ CheckOverlap(p) \/
   QueueIoU(p) PROVE HeldInv'
  BY <1>10, <1>5, Zenon DEF WorkerSleep, HandleDone, CheckOverlap, QueueIoU, engine, lists, order,
     locals, count, found
<1>11. ASSUME NEW u \in IoU, EnqueueBegin(u) PROVE HeldInv'
  BY <1>11, <1>5 DEF EnqueueBegin, engine, lists, order, locals, count, found
<1> QED
  BY <1>1, <1>2, <1>3, <1>4, <1>5, <1>6, <1>7, <1>8, <1>9, <1>10, <1>11 DEF Next, JobStep,
     JobCall, WorkerStep

-----------------------------------------------------------------------------
(* The theorems.                                                            *)

LEMMA WqInit == Init => WqInv
<1> SUFFICES ASSUME Init PROVE WqInv
  OBVIOUS
<1>1. WorkqueueTypeOK
  BY WqConsts DEF Init, WorkqueueTypeOK, Initialising, JobPlace, WorkerPlace, SwFlag
<1>2. JobInv /\ ScanInv /\ JoinInv /\ FlushInv /\ NextInv
  BY WqConsts DEF Init, JobInv, ScanInv, JoinInv, FlushInv, NextInv, Working
<1>3. \A w \in Worker : PlaceInv(w)
  BY WqConsts DEF Init, PlaceInv, Working, Worker
<1>4. \A w \in Worker : ListInv(w)
  BY WqConsts DEF Init, ListInv, Empty, Submitting
<1>5. OverlapInv /\ HeldInv
  BY WqConsts DEF Init, OverlapInv, NoOverlapInFlight, HeldInv
<1> QED BY <1>1, <1>2, <1>3, <1>4, <1>5 DEF WqInv

LEMMA WqNext == WqInv /\ [Next]_vars => WqInv'
<1> SUFFICES ASSUME WqInv, [Next]_vars PROVE WqInv'
  OBVIOUS
<1>1. CASE Next
  <2>1. WorkqueueTypeOK'
    <3>1. FlagsType' /\ PcType' /\ ListsType' /\ OrderType' /\ JobType'
      BY <1>1, FlagsTypeStep, PcTypeStep, ListsTypeStep, OrderTypeStep, JobTypeStep DEF WqInv
    <3> QED BY <3>1, Zenon DEF WorkqueueTypeOK, FlagsType, PcType, ListsType, OrderType, JobType
  <2>2. JobInv' /\ ScanInv' /\ JoinInv' /\ FlushInv' /\ NextInv'
    BY <1>1, JobInvStep, ScanStep, JoinStep, FlushStep, NextStep DEF WqInv
  <2>3. \A w \in Worker : PlaceInv(w)' /\ ListInv(w)'
    BY <1>1, PlaceStep, ListStep DEF WqInv
  <2>4. OverlapInv' /\ HeldInv'
    BY <1>1, OverlapStep, HeldStep DEF WqInv
  <2> QED BY <2>1, <2>2, <2>3, <2>4 DEF WqInv
<1>2. CASE UNCHANGED vars
  <2> USE <1>2 DEF vars, engine, lists, order, locals, count, found
  <2>0. WorkqueueTypeOK'
    BY DEF WqInv, WorkqueueTypeOK
  <2>1. JobInv' /\ ScanInv'
    BY Zenon DEF WqInv, JobInv, ScanInv
  <2>2. JoinInv' /\ FlushInv' /\ NextInv'
    BY Zenon DEF WqInv, JoinInv, FlushInv, NextInv
  <2>3. \A w \in Worker : PlaceInv(w)' /\ ListInv(w)'
    BY Zenon DEF WqInv, PlaceInv, ListInv, Empty
  <2>4. OverlapInv'
    BY Zenon DEF WqInv, OverlapInv, NoOverlapInFlight
  <2>5. HeldInv'
    BY HeldParts, Zenon DEF WqInv, HeldInv
  <2> QED BY <2>0, <2>1, <2>2, <2>3, <2>4, <2>5 DEF WqInv
<1> QED BY <1>1, <1>2

LEMMA WqAlways == Spec => []WqInv
BY WqInit, WqNext, PTL DEF Spec

\* Everything enqueued is complete once workqueue_exit has returned.
ExitMeansDone == job = "gone" => busy = {}

\* Everything that is not complete is with a worker that is neither idle nor gone.
LEMMA Consequences ==
  WqInv => /\ IdleMeansDrained /\ ExitMeansDone /\ FlushNotMissed /\ SleepsOnNothing
           /\ NoOverlapInFlight /\ WorkqueueTypeOK
<1> SUFFICES ASSUME WqInv
    PROVE /\ IdleMeansDrained /\ ExitMeansDone /\ FlushNotMissed /\ SleepsOnNothing
          /\ NoOverlapInFlight /\ WorkqueueTypeOK
  OBVIOUS
<1>1. IdleMeansDrained
  BY EmptyHolds, Zenon DEF WqInv, ListInv, IdleMeansDrained
<1>2. ExitMeansDone
  <2> SUFFICES ASSUME job = "gone", NEW u \in busy PROVE FALSE
    BY DEF ExitMeansDone
  <2>1. PICK w \in Worker : u \in Held(w)
    BY DEF WqInv, HeldInv
  <2>2. pc[w] \in {"none", "exited"}
    <3>1. w < max_workers \/ w >= max_workers
      BY TypeParts, WqConsts DEF WqInv, JobType, Worker
    <3> QED BY <3>1, Zenon DEF WqInv, JoinInv, PlaceInv
  <2>3. Empty(w)
    BY <2>2 DEF WqInv, ListInv, Empty, Submitting
  <2> QED BY <2>1, <2>3, EmptyHolds
<1>3. FlushNotMissed
  <2>1. \A w \in Worker : w < max_workers => w \in Started
    BY TypeParts DEF WqInv, JobType, Worker, Started
  <2> QED BY <2>1 DEF WqInv, FlushInv, FlushNotMissed
<1>4. SleepsOnNothing
  BY DEF WqInv, PlaceInv, ListInv, SleepsOnNothing
<1> QED BY <1>1, <1>2, <1>3, <1>4 DEF WqInv, OverlapInv

\* The type invariant of the work queue (workqueue.c), with the assertion of
\* get_submit_worker that next_free_worker names a started worker.
THEOREM WorkqueueTypes == Spec => []WorkqueueTypeOK
BY WqAlways, Consequences, PTL

\* SW_F_IDLE is never set on a worker that holds an io_u.
THEOREM IdleIsDrained == Spec => []IdleMeansDrained
BY WqAlways, Consequences, PTL

\* A job in workqueue_flush does not miss the last worker's signal, and no worker
\* sleeps on work or on the order to exit.
THEOREM WakeupsAreKept == Spec => []NoWakeupLost
<1>1. WqInv => NoWakeupLost
  BY Consequences DEF NoWakeupLost
<1> QED BY <1>1, WqAlways, PTL

\* check_overlap keeps overlapping io_us apart, whatever the number of workers.
THEOREM OverlapsAreSerialised == Spec => []NoOverlapInFlight
BY WqAlways, Consequences, PTL

\* When workqueue_flush or workqueue_exit returns, everything enqueued is complete.
THEOREM ReturnsAreDrained == Spec => DrainedAtReturn
<1>1. ASSUME WqInv, [Next]_vars PROVE [job = "flush_scan" /\ job' = "ready" => busy = {}]_vars
  <2> SUFFICES ASSUME Next, job = "flush_scan", job' = "ready", NEW u \in busy PROVE FALSE
    BY <1>1
  <2>1. FlushScan /\ idx + 1 = max_workers /\ "IDLE" \in flags[idx]
    <3>1. CASE FlushScan
      BY <3>1 DEF FlushScan, JobAt
    <3>2. ASSUME NEW p \in Worker, WorkerStep(p) PROVE FALSE
      BY <3>2 DEF WorkerStep, WorkerInit, WorkerStarted, WorkerCheck, WorkerExit, WorkerIdle,
         WorkerNotify, WorkerSleep, WorkerSplice, HandleNext, HandleDone, CheckOverlap, QueueIoU,
         Complete, SignalFlushCond, JobAt, locals
    <3>3. CASE JobStep /\ ~FlushScan
      BY <3>3 DEF JobStep, StartWorker, StartFails, MarkIdle, InitScan, JobSleep, GetSubmitWorker,
         AdvanceFree, EnqueueAdd, ExitMark, ExitJoin
    <3>4. CASE JobCall \/ SpuriousWakeup
      BY <3>4 DEF JobCall, EnqueueBegin, FlushBegin, ExitBegin, SpuriousWakeup, SignalFlushCond, JobAt
    <3> QED BY <3>1, <3>2, <3>3, <3>4 DEF Next
  <2>2. PICK w \in Worker : u \in Held(w)
    BY <1>1 DEF WqInv, HeldInv
  <2>3. w < max_workers
    <3>1. ASSUME w >= max_workers PROVE FALSE
      <4>1. pc[w] = "none"
        BY <1>1, <3>1 DEF WqInv, PlaceInv
      <4>2. Empty(w)
        BY <1>1, <4>1, Zenon DEF WqInv, ListInv, Empty, Submitting
      <4> QED BY <2>2, <4>2, EmptyHolds
    <3>2. w \in Nat /\ max_workers \in Nat
      BY <1>1, TypeParts, WqConsts DEF WqInv, JobType, Worker
    <3> QED BY <3>1, <3>2
  <2>4. "IDLE" \in flags[w]
    <3>1. w < idx \/ w = idx
      <4>1. w \in Nat /\ idx \in Nat
        BY <1>1, TypeParts, WqConsts DEF WqInv, JobType, Worker
      <4> QED BY <2>1, <2>3, <4>1
    <3> QED BY <3>1, <2>1, <1>1 DEF WqInv, ScanInv
  <2>5. Empty(w)
    BY <2>4, <1>1, Zenon DEF WqInv, ListInv
  <2> QED BY <2>2, <2>5, EmptyHolds
<1>2. WqInv => ExitMeansDone
  BY Consequences
<1>3. ASSUME WqInv, WqInv', [Next]_vars
      PROVE  [/\ job = "flush_scan" /\ job' = "ready" => busy = {}
              /\ job' = "gone" => busy' = {}]_vars
  <2>1. ExitMeansDone'
    BY <1>2, <1>3, PTL
  <2> QED BY <1>1, <1>3, <2>1 DEF ExitMeansDone
<1> QED BY <1>3, WqAlways, PTL DEF Spec, DrainedAtReturn

-----------------------------------------------------------------------------
(* The io_us again: each is with one worker, and in one place there.        *)

\* The places of one worker share no io_u, and none holds one twice.
OnceIn(w) ==
  /\ Distinct(work_list[w]) /\ Distinct(local_list[w])
  /\ Range(work_list[w]) \cap Range(local_list[w]) = {}
  /\ cur[w] \notin Range(work_list[w]) \cup Range(local_list[w])

\* What a worker holds is not complete and with no other worker.
HeldOnce ==
  /\ \A w \in Worker : OnceIn(w) /\ Held(w) \subseteq busy
  /\ \A w, x \in Worker : w # x => Held(w) \cap Held(x) = {}

\* The io_u the job is about to hand over is with no worker yet.
IoIsFree == job \in {"get", "advance", "add"} => io \notin busy

OnceInv == HeldOnce /\ IoIsFree

\* The places of the io_us change in four actions.
LEMMA HeldOnceStep ==
  ASSUME WqInv, OnceInv, Next
  PROVE  HeldOnce'
<1>0. /\ ListsType /\ HeldOnce
      /\ job = "add" => best \in Worker /\ io \in IoU /\ io \notin busy
      /\ \A w \in Worker : pc[w] = "handle" => cur[w] = NoIoU
  BY TypeParts, Zenon DEF WqInv, JobInv, ListInv, Submitting, OnceInv, IoIsFree
<1>1. CASE EnqueueAdd
  <2>1. /\ work_list' = [work_list EXCEPT ![best] = Append(@, io)]
        /\ local_list' = local_list /\ cur' = cur /\ busy' = busy \cup {io} /\ job = "add"
    BY <1>1 DEF EnqueueAdd, engine
  <2>a. PICK b \in Worker : b = best /\ io \in IoU /\ io \notin busy
    BY <2>1, <1>0
  <2>2. work_list[b] \in Seq(IoU) /\ work_list'[b] = Append(work_list[b], io)
    BY <2>1, <2>a, <1>0 DEF ListsType
  <2>3. \A w \in Worker : io \notin Held(w)
    BY <2>1, <2>a, <1>0 DEF HeldOnce
  <2>4. /\ io \notin Range(work_list[b]) \cup Range(local_list[b]) /\ io # cur[b]
        /\ OnceIn(b)
    BY <2>1, <2>3, <2>a, <1>0, HeldParts, WqConsts, Zenon DEF HeldOnce
  <2>5. /\ Range(work_list'[b]) = Range(work_list[b]) \cup {io}
        /\ Distinct(work_list'[b])
    <3>1. Distinct(work_list[b]) /\ io \notin Range(work_list[b])
      BY <2>4, Zenon DEF OnceIn
    <3>2. /\ Range(Append(work_list[b], io)) = Range(work_list[b]) \cup {io}
          /\ Distinct(Append(work_list[b], io))
      BY <2>2, <2>a, <3>1, DistinctAppend
    <3> QED BY <2>2, <3>2, Zenon
  <2>6. \A w \in Worker : w # b => work_list'[w] = work_list[w]
    BY <2>1, <2>a, <1>0 DEF ListsType
  <2>7. /\ Held(b)' = Held(b) \cup {io}
        /\ \A w \in Worker : w # b => Held(w)' = Held(w)
    BY <2>1, <2>5, <2>6, <2>a, WqConsts, HeldParts, Zenon
  <2>8. OnceIn(b)'
    BY <2>1, <2>4, <2>5, <2>a, <1>0 DEF OnceIn
  <2>9. \A w \in Worker : OnceIn(w)'
    BY <2>1, <2>6, <2>8, <2>a, <1>0 DEF OnceIn, HeldOnce
  <2> QED BY <2>1, <2>3, <2>7, <2>9, <2>a, <1>0, SMTT(30) DEF HeldOnce
<1>2. ASSUME NEW p \in Worker, WorkerSplice(p) PROVE HeldOnce'
  <2>1. /\ local_list' = [local_list EXCEPT ![p] = local_list[p] \o work_list[p]]
        /\ work_list' = [work_list EXCEPT ![p] = << >>] /\ cur' = cur /\ busy' = busy
    BY <1>2 DEF WorkerSplice, engine
  <2>2. /\ local_list'[p] = local_list[p] \o work_list[p] /\ work_list'[p] = << >>
        /\ local_list[p] \in Seq(IoU) /\ work_list[p] \in Seq(IoU)
    BY <2>1, <1>0 DEF ListsType
  <2>3. OnceIn(p)
    BY <1>0 DEF HeldOnce
  <2>4. /\ Range(local_list'[p]) = Range(local_list[p]) \cup Range(work_list[p])
        /\ Distinct(local_list'[p])
    BY <2>2, <2>3, DistinctConcat, SMTT(30) DEF OnceIn
  <2>5. Range(work_list'[p]) = {} /\ Distinct(work_list'[p])
    BY <2>2 DEF Range, Distinct
  <2>6. \A w \in Worker : w # p => work_list'[w] = work_list[w] /\ local_list'[w] = local_list[w]
    BY <2>1, <1>0 DEF ListsType
  <2>7. \A w \in Worker : Held(w)' = Held(w)
    <3>1. Held(p)' = Held(p)
      BY <2>1, <2>4, <2>5, HeldParts, ZenonT(30)
    <3>2. \A w \in Worker : w # p => Held(w)' = Held(w)
      BY <2>1, <2>6, HeldParts, ZenonT(30)
    <3> QED BY <3>1, <3>2
  <2>8. OnceIn(p)'
    BY <2>1, <2>3, <2>4, <2>5 DEF OnceIn
  <2>9. \A w \in Worker : OnceIn(w)'
    BY <2>1, <2>6, <2>8, <1>0 DEF OnceIn, HeldOnce
  <2> QED BY <2>1, <2>7, <2>9, <1>0 DEF HeldOnce
<1>3. ASSUME NEW p \in Worker, HandleNext(p) PROVE HeldOnce'
  <2>1. /\ local_list[p] # << >> /\ pc[p] = "handle"
        /\ local_list' = [local_list EXCEPT ![p] = Tail(local_list[p])]
        /\ cur' = [cur EXCEPT ![p] = Head(local_list[p])] /\ work_list' = work_list /\ busy' = busy
    BY <1>3 DEF HandleNext, Goto
  <2>2. /\ local_list[p] \in Seq(IoU) /\ Head(local_list[p]) \in IoU
        /\ local_list'[p] = Tail(local_list[p]) /\ cur'[p] = Head(local_list[p]) /\ cur[p] = NoIoU
    BY <2>1, <1>0 DEF ListsType
  <2>3. OnceIn(p)
    BY <1>0 DEF HeldOnce
  <2>4. /\ Distinct(local_list'[p]) /\ cur'[p] \notin Range(local_list'[p])
        /\ Range(local_list[p]) = {cur'[p]} \cup Range(local_list'[p])
    <3>1. Distinct(local_list[p])
      BY <2>3 DEF OnceIn
    <3>2. /\ Distinct(Tail(local_list[p]))
          /\ Head(local_list[p]) \notin Range(Tail(local_list[p]))
          /\ Range(local_list[p]) = {Head(local_list[p])} \cup Range(Tail(local_list[p]))
      BY <2>1, <2>2, <3>1, DistinctTail
    <3> QED BY <2>2, <3>2
  <2>5. \A w \in Worker : w # p => local_list'[w] = local_list[w] /\ cur'[w] = cur[w]
    BY <2>1, <1>0 DEF ListsType
  <2>6. \A w \in Worker : Held(w)' = Held(w)
    <3>1. Held(p)' = Held(p)
      BY <2>1, <2>2, <2>4, HeldParts, WqConsts, ZenonT(30)
    <3>2. \A w \in Worker : w # p => Held(w)' = Held(w)
      BY <2>1, <2>5, HeldParts, ZenonT(30)
    <3> QED BY <3>1, <3>2
  <2>7. OnceIn(p)'
    BY <2>1, <2>3, <2>4 DEF OnceIn
  <2>8. \A w \in Worker : OnceIn(w)'
    BY <2>1, <2>5, <2>7, <1>0, ZenonT(30) DEF OnceIn, HeldOnce
  <2> QED BY <2>1, <2>6, <2>8, <1>0 DEF HeldOnce
<1>4. ASSUME NEW p \in Worker, Complete(p) PROVE HeldOnce'
  <2>1. /\ busy' = busy \ {cur[p]} /\ cur' = [cur EXCEPT ![p] = NoIoU] /\ pc[p] = "complete"
        /\ work_list' = work_list /\ local_list' = local_list
    BY <1>4 DEF Complete, lists, Goto
  <2>2. /\ \A w \in Worker : w # p => cur'[w] = cur[w]
        /\ cur'[p] = NoIoU /\ cur[p] # NoIoU
    BY <2>1, <1>0 DEF ListsType, WqInv, ListInv, Submitting
  <2>3. OnceIn(p) /\ cur[p] \in Held(p)
    BY <2>2, <1>0, HeldParts DEF HeldOnce
  <2>4. /\ Held(p)' = Held(p) \ {cur[p]}
        /\ \A w \in Worker : w # p => Held(w)' = Held(w)
    BY <2>1, <2>2, <2>3, HeldParts, Zenon DEF OnceIn
  <2>5. OnceIn(p)'
    <3>1. work_list[p] \in Seq(IoU) /\ local_list[p] \in Seq(IoU)
      BY <1>0 DEF ListsType
    <3>2. Range(work_list[p]) \subseteq IoU /\ Range(local_list[p]) \subseteq IoU
      BY <3>1, RangeIsIndexed
    <3> QED BY <2>1, <2>2, <2>3, <3>2, WqConsts DEF OnceIn
  <2>6. \A w \in Worker : OnceIn(w)'
    BY <2>1, <2>2, <2>5, <1>0 DEF OnceIn, HeldOnce
  <2>7. /\ \A w \in Worker : Held(w) \subseteq busy
        /\ \A w, x \in Worker : w # x => Held(w) \cap Held(x) = {}
    BY <1>0, Zenon DEF HeldOnce
  <2>8. ASSUME NEW w \in Worker PROVE Held(w)' \subseteq busy'
    <3>1. CASE w = p
      BY <2>1, <2>4, <2>7, <3>1
    <3>2. CASE w # p
      <4>1. cur[p] \notin Held(w)
        BY <2>3, <2>7, <3>2
      <4> QED BY <2>1, <2>4, <2>7, <3>2, <4>1
    <3> QED BY <3>1, <3>2
  <2>9. ASSUME NEW w \in Worker, NEW x \in Worker, w # x PROVE Held(w)' \cap Held(x)' = {}
    <3>1. Held(w)' \subseteq Held(w) /\ Held(x)' \subseteq Held(x)
      BY <2>4
    <3> QED BY <2>7, <2>9, <3>1
  <2> QED BY <2>6, <2>8, <2>9, Zenon DEF HeldOnce
<1>5. CASE UNCHANGED <<work_list, local_list, cur, busy>>
  <2>1. \A w \in Worker : Held(w)' = Held(w)
    BY <1>5, HeldParts
  <2>2. \A w \in Worker : OnceIn(w)'
    BY <1>5, <1>0 DEF OnceIn, HeldOnce
  <2> QED BY <1>5, <2>1, <2>2, <1>0 DEF HeldOnce
<1>6. CASE StartWorker \/ StartFails \/ MarkIdle \/ InitScan \/ JobSleep
  BY <1>6, <1>5 DEF StartWorker, StartFails, MarkIdle, InitScan, JobSleep, engine, lists, order,
     locals, count, found
<1>7. CASE GetSubmitWorker \/ AdvanceFree \/ FlushScan \/ ExitMark \/ ExitJoin
  BY <1>7, <1>5 DEF GetSubmitWorker, AdvanceFree, FlushScan, ExitMark, ExitJoin, engine, lists,
     order, locals, count, found
<1>8. CASE FlushBegin \/ ExitBegin \/ SpuriousWakeup
  BY <1>8, <1>5 DEF FlushBegin, ExitBegin, SpuriousWakeup, engine, lists, order, locals, count,
     found
<1>9. ASSUME NEW p \in Worker, WorkerInit(p) \/ WorkerStarted(p) \/ WorkerCheck(p) \/
   WorkerExit(p) \/ WorkerIdle(p) \/ WorkerNotify(p) PROVE HeldOnce'
  BY <1>9, <1>5, Zenon DEF WorkerInit, WorkerStarted, WorkerCheck, WorkerExit, WorkerIdle,
     WorkerNotify, engine, lists, order, locals, count, found
<1>10. ASSUME NEW p \in Worker, WorkerSleep(p) \/ HandleDone(p) \/ CheckOverlap(p) \/
   QueueIoU(p) PROVE HeldOnce'
  BY <1>10, <1>5, Zenon DEF WorkerSleep, HandleDone, CheckOverlap, QueueIoU, engine, lists, order,
     locals, count, found
<1>11. ASSUME NEW u \in IoU, EnqueueBegin(u) PROVE HeldOnce'
  BY <1>11, <1>5 DEF EnqueueBegin, engine, lists, order, locals, count, found
<1> QED
  BY <1>1, <1>2, <1>3, <1>4, <1>5, <1>6, <1>7, <1>8, <1>9, <1>10, <1>11 DEF Next, JobStep,
     JobCall, WorkerStep

\* The io_u of get_io_u stays free until the job has handed it over.
LEMMA IoIsFreeStep ==
  ASSUME IoIsFree, Next
  PROVE  IoIsFree'
<1>1. CASE StartWorker \/ StartFails \/ MarkIdle \/ InitScan \/ JobSleep
  BY <1>1, Zenon DEF StartWorker, StartFails, MarkIdle, InitScan, JobSleep, JobAt, IoIsFree
<1>2. CASE GetSubmitWorker \/ AdvanceFree
  <2>1. CASE GetSubmitWorker
    <3>1. job = "get" /\ io' = io /\ busy' = busy
      BY <2>1, Zenon DEF GetSubmitWorker
    <3> QED BY <3>1 DEF IoIsFree
  <2>2. CASE AdvanceFree
    <3>1. job = "advance" /\ io' = io /\ busy' = busy
      BY <2>2 DEF AdvanceFree, JobAt, found
    <3> QED BY <3>1 DEF IoIsFree
  <2> QED BY <1>2, <2>1, <2>2
<1>3. CASE EnqueueAdd \/ FlushScan \/ ExitMark \/ ExitJoin \/ FlushBegin \/ ExitBegin
  BY <1>3 DEF EnqueueAdd, FlushScan, ExitMark, ExitJoin, FlushBegin, ExitBegin, JobAt, IoIsFree
<1>4. ASSUME NEW u \in IoU, EnqueueBegin(u) PROVE IoIsFree'
  BY <1>4 DEF EnqueueBegin, IoIsFree
<1>5. CASE SpuriousWakeup
  BY <1>5 DEF SpuriousWakeup, SignalFlushCond, JobAt, locals, found, IoIsFree
<1>6. ASSUME NEW p \in Worker, WorkerStarted(p) \/ WorkerNotify(p) PROVE IoIsFree'
  BY <1>6 DEF WorkerStarted, WorkerNotify, SignalFlushCond, JobAt, locals, found, IoIsFree
<1>7. ASSUME NEW p \in Worker, Complete(p) PROVE IoIsFree'
  BY <1>7 DEF Complete, locals, found, IoIsFree
<1>8. CASE UNCHANGED <<job, io, busy>>
  BY <1>8 DEF IoIsFree
<1>9. ASSUME NEW p \in Worker, WorkerInit(p) \/ WorkerCheck(p) \/ WorkerExit(p) \/
   WorkerIdle(p) \/ WorkerSleep(p) \/ WorkerSplice(p) PROVE IoIsFree'
  BY <1>9, <1>8, Zenon DEF WorkerInit, WorkerCheck, WorkerExit, WorkerIdle, WorkerSleep,
     WorkerSplice, locals, found
<1>10. ASSUME NEW p \in Worker, HandleNext(p) \/ HandleDone(p) \/ CheckOverlap(p) \/ QueueIoU(p)
   PROVE IoIsFree'
  BY <1>10, <1>8 DEF HandleNext, HandleDone, CheckOverlap, QueueIoU, locals, found
<1> QED
  BY <1>1, <1>2, <1>3, <1>4, <1>5, <1>6, <1>7, <1>8, <1>9, <1>10 DEF Next, JobStep, JobCall,
     WorkerStep

LEMMA OnceAlways == Spec => [](WqInv /\ OnceInv)
<1>1. Init => OnceInv
  <2> SUFFICES ASSUME Init PROVE OnceInv
    OBVIOUS
  <2>1. Range(<< >>) = {} /\ Distinct(<< >>)
    BY DEF Range, Distinct
  <2>2. \A w \in Worker : work_list[w] = << >> /\ local_list[w] = << >> /\ cur[w] = NoIoU
    BY DEF Init
  <2>3. \A w \in Worker : OnceIn(w) /\ Held(w) = {}
    BY <2>1, <2>2, EmptyHolds, Zenon DEF OnceIn, Empty
  <2>4. HeldOnce
    BY <2>3 DEF HeldOnce
  <2> QED BY <2>4 DEF Init, OnceInv, IoIsFree
<1>2. WqInv /\ OnceInv /\ [Next]_vars => OnceInv'
  <2> SUFFICES ASSUME WqInv, OnceInv, [Next]_vars PROVE OnceInv'
    OBVIOUS
  <2>1. CASE Next
    BY <2>1, HeldOnceStep, IoIsFreeStep DEF OnceInv
  <2>2. CASE UNCHANGED vars
    <3>1. \A w \in Worker : Held(w)' = Held(w)
      BY <2>2, HeldParts DEF vars, lists, engine
    <3>2. \A w \in Worker : OnceIn(w)'
      BY <2>2 DEF OnceInv, HeldOnce, OnceIn, vars, lists, engine
    <3> QED BY <2>2, <3>1, <3>2 DEF OnceInv, HeldOnce, IoIsFree, vars, locals, found
  <2> QED BY <2>1, <2>2
<1> QED BY <1>1, <1>2, WqAlways, PTL DEF Spec

\* An io_u handed to workqueue_enqueue is with one worker, in one of its lists or
\* with the engine, and there once, until it completes.
THEOREM EachWithOneWorker == Spec => []OneWorkerEach
<1>1. ASSUME WqInv, OnceInv PROVE OneWorkerEach
  <2>1. UNION {Held(w) : w \in Worker} = busy
    BY <1>1, Zenon DEF WqInv, HeldInv, OnceInv, HeldOnce
  <2>2. \A w, x \in Worker : w # x => Held(w) \cap Held(x) = {}
    BY <1>1 DEF OnceInv, HeldOnce
  <2>3. ASSUME NEW w \in Worker
        PROVE  Cardinality(Held(w)) =
                 Len(work_list[w]) + Len(local_list[w]) + IF cur[w] = NoIoU THEN 0 ELSE 1
    <3> DEFINE W == Range(work_list[w])
               L == Range(local_list[w])
               C == {cur[w]} \ {NoIoU}
    <3>1. work_list[w] \in Seq(IoU) /\ local_list[w] \in Seq(IoU)
      BY <1>1, TypeParts DEF WqInv, ListsType
    <3>2. OnceIn(w)
      BY <1>1 DEF OnceInv, HeldOnce
    <3>3. /\ IsFiniteSet(W) /\ Cardinality(W) = Len(work_list[w])
          /\ IsFiniteSet(L) /\ Cardinality(L) = Len(local_list[w])
      BY <3>1, <3>2, DistinctSize DEF OnceIn
    <3>4. IsFiniteSet(C) /\ Cardinality(C) = IF cur[w] = NoIoU THEN 0 ELSE 1
      <4>1. CASE cur[w] = NoIoU
        <5>1. C = {}
          BY <4>1
        <5> QED BY <4>1, <5>1, FS_EmptySet
      <4>2. CASE cur[w] # NoIoU
        <5>1. C = {cur[w]}
          BY <4>2
        <5> QED BY <4>2, <5>1, FS_Singleton
      <4> QED BY <4>1, <4>2
    <3>5. W \cap L = {} /\ (W \cup L) \cap C = {}
      BY <3>2 DEF OnceIn
    <3> HIDE DEF W, L, C
    <3>6. IsFiniteSet(W \cup L) /\ Cardinality(W \cup L) = Cardinality(W) + Cardinality(L)
      <4>1. Cardinality(W) \in Nat /\ Cardinality(L) \in Nat
        BY <3>3, FS_CardinalityType
      <4>2. /\ IsFiniteSet(W \cup L)
            /\ Cardinality(W \cup L) = Cardinality(W) + Cardinality(L) - Cardinality(W \cap L)
        BY <3>3, FS_Union
      <4>3. Cardinality(W \cap L) = 0
        BY <3>5, FS_EmptySet
      <4> QED BY <4>1, <4>2, <4>3
    <3>7. Cardinality(W \cup L \cup C) = Cardinality(W) + Cardinality(L) + Cardinality(C)
      <4>1. Cardinality(W) \in Nat /\ Cardinality(L) \in Nat /\ Cardinality(C) \in Nat
        BY <3>3, <3>4, FS_CardinalityType
      <4>2. Cardinality(W \cup L \cup C) =
              Cardinality(W \cup L) + Cardinality(C) - Cardinality((W \cup L) \cap C)
        BY <3>4, <3>6, FS_Union
      <4>3. Cardinality((W \cup L) \cap C) = 0
        BY <3>5, FS_EmptySet
      <4> QED BY <3>6, <4>1, <4>2, <4>3
    <3>8. Held(w) = W \cup L \cup C
      BY HeldParts DEF W, L, C
    <3> QED BY <3>3, <3>4, <3>7, <3>8
  <2> QED BY <2>1, <2>2, <2>3 DEF OneWorkerEach
<1> QED BY <1>1, OnceAlways, PTL

=============================================================================
