------------------------------ MODULE Workqueue ------------------------------
(***************************************************************************)
(* The work queue of fio (workqueue.c) as io_submit_mode=offload uses it    *)
(* (rate-submit.c): a job hands its io_us to worker threads, each with a    *)
(* list, a mutex and a condition variable of its own, waits for all of them *)
(* to be idle (workqueue_flush) and ends them (workqueue_exit).  A worker   *)
(* submits an io_u to the engine only when no io_u in flight overlaps it.   *)
(*                                                                         *)
(* A section under sw->lock changes only the state of its worker and is one *)
(* step; what the job reads without that lock (the flags, while it looks    *)
(* for a worker or waits for idle ones) is read one worker at a time.       *)
(***************************************************************************)
EXTENDS Integers, Sequences, FiniteSets

CONSTANTS
  MAX_WORKERS,  \* workers the job asks for (its iodepth)
  IoU,          \* io_us of the job
  Overlap,      \* pairs of io_us whose blocks overlap
  INIT_FAILS,   \* whether pthread_create and init_worker_fn may fail
  MAX_ENQ,      \* bound of the model: calls of workqueue_enqueue
  MAX_FLUSH     \* bound of the model: calls of workqueue_flush

ASSUME WorkqueueAssumption ==
  /\ MAX_WORKERS \in Nat \ {0}
  /\ INIT_FAILS \in BOOLEAN
  /\ MAX_ENQ \in Nat /\ MAX_FLUSH \in Nat
  /\ "none" \notin IoU

Worker == 0 .. MAX_WORKERS - 1
NoWorker == -1
NoIoU == "none"
SwFlag == {"IDLE", "RUNNING", "EXIT", "ACCOUNTED", "ERROR"}

VARIABLES
  max_workers,       \* wq->max_workers: workers really started
  flags,             \* sw->flags of each worker
  work_list,         \* sw->work_list
  local_list,        \* the worker's own list, spliced from work_list
  seq,               \* sw->seq
  work_seq,          \* wq->work_seq
  next_free_worker,  \* wq->next_free_worker
  wake_idle,         \* wq->wake_idle
  job,               \* place of the job, and the locals of the function it is in:
  idx,               \*   the loop variable
  running, error,    \*   workqueue_init
  next, best, io,    \*   get_submit_worker and workqueue_enqueue
  pc,                \* place of each worker
  cur,               \* io_u the worker is handing to the engine
  overlap_check,     \* owner of the mutex overlap_check
  flight,            \* io_us with IO_U_F_FLIGHT
  busy,              \* history: io_us enqueued and not yet completed
  flushes            \* calls of workqueue_flush so far

engine == <<cur, overlap_check, flight>>
lists == <<work_list, local_list>>
order == <<seq, work_seq, next_free_worker>>
count == <<running, error>>
found == <<next, best, io>>
locals == <<idx, count, found>>
vars == <<max_workers, flags, lists, order, wake_idle, job, locals, pc, engine, busy, flushes>>

Init ==
  /\ max_workers = MAX_WORKERS
  /\ flags = [w \in Worker |-> {}]
  /\ work_list = [w \in Worker |-> << >>]
  /\ local_list = [w \in Worker |-> << >>]
  /\ seq = [w \in Worker |-> 0]
  /\ work_seq = 0 /\ next_free_worker = 0 /\ wake_idle = 0
  /\ job = "start" /\ idx = 0 /\ running = 0 /\ error = FALSE
  /\ next = 0 /\ best = NoWorker /\ io = NoIoU
  /\ pc = [w \in Worker |-> "none"]
  /\ cur = [w \in Worker |-> NoIoU]
  /\ overlap_check = NoWorker
  /\ flight = {} /\ busy = {} /\ flushes = 0

\* The job goes on at p with loop index k.
JobAt(p, k) == job' = p /\ idx' = k /\ UNCHANGED <<count, found>>
Goto(w, from, to) == pc[w] = from /\ pc' = [pc EXCEPT ![w] = to]

\* The job holds flush_lock while it looks at the flags; a worker takes and
\* releases it within one step.
FlushLockFree == job \notin {"init_scan", "init_sleep", "flush_scan", "flush_sleep"}

\* pthread_cond_signal(&wq->flush_cond): only the job ever waits there.
SignalFlushCond ==
  JobAt(CASE job = "init_wait" -> "init_scan" [] job = "flush_wait" -> "flush_scan" [] OTHER -> job, idx)

\* Mutant: no signal.
NoSignal(w) == UNCHANGED pc

\* pthread_cond_signal(&sw->cond): the worker returns from pthread_cond_wait
\* and finds local_list empty.
SignalWorker(w) == pc' = IF pc[w] = "wait" THEN [pc EXCEPT ![w] = "handle"] ELSE pc

-----------------------------------------------------------------------------
(* workqueue_init: start the workers, then wait until all are running.      *)

\* start_worker: pthread_create; the thread may run before the call returns.
StartWorker ==
  /\ job = "start"
  /\ pc' = [pc EXCEPT ![idx] = "init"]
  /\ JobAt("mark", idx)
  /\ UNCHANGED <<max_workers, flags, lists, order, wake_idle, engine, busy, flushes>>

\* pthread_create fails: the loop ends, and the work queue has fewer workers.
StartFails ==
  /\ job = "start" /\ INIT_FAILS
  /\ max_workers' = idx
  /\ JobAt(IF idx = 0 THEN "exit" ELSE "init_scan", 0)
  /\ UNCHANGED <<flags, lists, order, wake_idle, pc, engine, busy, flushes>>

\* The end of start_worker: the flags are assigned, not added to.
MarkIdle ==
  /\ job = "mark"
  /\ flags' = [flags EXCEPT ![idx] = {"IDLE"}]
  /\ IF idx + 1 < MAX_WORKERS THEN JobAt("start", idx + 1) ELSE JobAt("init_scan", 0)
  /\ UNCHANGED <<max_workers, lists, order, wake_idle, pc, engine, busy, flushes>>

\* One worker is counted; after the last one the job returns, fails or waits.
InitScan ==
  /\ job = "init_scan"
  /\ LET r == running + IF "RUNNING" \in flags[idx] THEN 1 ELSE 0
         e == error \/ "ERROR" \in flags[idx]
         after == CASE e -> "exit" [] ~e /\ r = max_workers -> "ready" [] OTHER -> "init_sleep"
     IN /\ error' = e
        /\ IF idx + 1 = max_workers THEN job' = after /\ idx' = 0 /\ running' = 0
                                    ELSE job' = job /\ idx' = idx + 1 /\ running' = r
  /\ UNCHANGED <<found, max_workers, flags, lists, order, wake_idle, pc, engine, busy, flushes>>

-----------------------------------------------------------------------------
(* workqueue_enqueue and workqueue_flush.                                   *)

\* The k-th worker get_submit_worker looks at: from next to the end, then from 0.
Candidate(k) == IF next + k < max_workers THEN next + k ELSE next + k - max_workers

\* The job has a free io_u (get_io_u) and looks for a worker.
EnqueueBegin(u) ==
  /\ job = "ready" /\ work_seq < MAX_ENQ
  /\ u \in IoU \ busy
  /\ job' = "get" /\ idx' = 0 /\ next' = next_free_worker /\ best' = NoWorker /\ io' = u
  /\ UNCHANGED <<count, max_workers, flags, lists, order, wake_idle, pc, engine, busy, flushes>>

\* __get_submit_worker reads the flags of one worker.  An idle one is taken, or
\* after the last one the one with the smallest seq.
GetSubmitWorker ==
  /\ job = "get"
  /\ LET w == Candidate(idx)
         b == IF best = NoWorker \/ seq[w] < seq[best] THEN w ELSE best
     IN /\ best' = IF "IDLE" \in flags[w] THEN w ELSE b
        /\ IF "IDLE" \in flags[w] \/ idx + 1 = max_workers THEN job' = "advance" /\ idx' = 0
                                                           ELSE job' = job /\ idx' = idx + 1
  /\ UNCHANGED <<count, next, io, max_workers, flags, lists, order, wake_idle, pc, engine, busy, flushes>>

NextWorker(w) == IF w + 1 < max_workers THEN w + 1 ELSE 0

\* The rest of get_submit_worker: next_free_worker is not under a lock.
AdvanceFree ==
  /\ job = "advance" /\ JobAt("add", 0)
  /\ next_free_worker' = IF best = next_free_worker THEN NextWorker(best) ELSE next_free_worker
  /\ UNCHANGED <<max_workers, flags, lists, seq, work_seq, wake_idle, pc, engine, busy, flushes>>

\* The section of workqueue_enqueue under sw->lock.
EnqueueAdd ==
  /\ job = "add"
  /\ LET w == best
     IN /\ work_list' = [work_list EXCEPT ![w] = Append(@, io)]
        /\ work_seq' = work_seq + 1
        /\ seq' = [seq EXCEPT ![w] = work_seq + 1]
        /\ flags' = [flags EXCEPT ![w] = @ \ {"IDLE"}]
        /\ SignalWorker(w)
  /\ busy' = busy \cup {io}
  /\ job' = "ready" /\ next' = 0 /\ best' = NoWorker /\ io' = NoIoU
  /\ UNCHANGED <<idx, count, max_workers, local_list, next_free_worker, wake_idle, engine, flushes>>

\* The lock is taken and wake_idle set.
FlushBegin ==
  /\ job = "ready" /\ flushes < MAX_FLUSH
  /\ wake_idle' = 1 /\ flushes' = flushes + 1
  /\ JobAt("flush_scan", 0)
  /\ UNCHANGED <<max_workers, flags, lists, order, pc, engine, busy>>

\* Mutant: one idle worker is enough.
FlushScanAny ==
  /\ job = "flush_scan"
  /\ LET idle == "IDLE" \in flags[idx]
     IN /\ JobAt(IF idle THEN "ready" ELSE "flush_sleep", 0)
        /\ wake_idle' = IF idle THEN 0 ELSE wake_idle
  /\ UNCHANGED <<max_workers, flags, lists, order, pc, engine, busy, flushes>>

\* all_sw_idle reads the flags of one worker.
FlushScan ==
  /\ job = "flush_scan"
  /\ LET idle == "IDLE" \in flags[idx]
         last == idx + 1 = max_workers
     IN /\ IF ~idle THEN JobAt("flush_sleep", 0)
           ELSE IF last THEN JobAt("ready", 0) ELSE JobAt("flush_scan", idx + 1)
        /\ wake_idle' = IF idle /\ last THEN 0 ELSE wake_idle
  /\ UNCHANGED <<max_workers, flags, lists, order, pc, engine, busy, flushes>>

\* pthread_cond_wait(&wq->flush_cond, &wq->flush_lock), in workqueue_init and
\* in workqueue_flush: the job waits and gives the lock back in one step.
JobSleep ==
  /\ job \in {"init_sleep", "flush_sleep"}
  /\ JobAt(IF job = "init_sleep" THEN "init_wait" ELSE "flush_wait", 0)
  /\ UNCHANGED <<max_workers, flags, lists, order, wake_idle, pc, engine, busy, flushes>>

-----------------------------------------------------------------------------
(* workqueue_exit: tell every worker to exit, then join them in turn.       *)

ExitBegin ==
  /\ job = "ready"
  /\ JobAt("exit", 0)
  /\ UNCHANGED <<max_workers, flags, lists, order, wake_idle, pc, engine, busy, flushes>>

\* Mutant: the workers are not woken.
ExitMarkSilent ==
  /\ job = "exit"
  /\ IF idx < max_workers
     THEN flags' = [flags EXCEPT ![idx] = @ \cup {"EXIT"}] /\ JobAt("exit", idx + 1)
     ELSE JobAt("join", 0) /\ UNCHANGED flags
  /\ UNCHANGED <<max_workers, lists, order, wake_idle, pc, engine, busy, flushes>>

ExitMark ==
  /\ job = "exit"
  /\ IF idx < max_workers
     THEN /\ flags' = [flags EXCEPT ![idx] = @ \cup {"EXIT"}]
          /\ SignalWorker(idx)
          /\ JobAt("exit", idx + 1)
     ELSE JobAt("join", 0) /\ UNCHANGED <<flags, pc>>
  /\ UNCHANGED <<max_workers, lists, order, wake_idle, engine, busy, flushes>>

\* shutdown_worker joins the thread.  The first turn of the loop accounts for
\* every worker, so there is no second one.
ExitJoin ==
  /\ job = "join"
  /\ IF idx < max_workers
     THEN /\ pc[idx] = "exited"
          /\ flags' = [flags EXCEPT ![idx] = @ \cup {"ACCOUNTED"}]
          /\ JobAt("join", idx + 1)
     ELSE JobAt("gone", 0) /\ UNCHANGED flags
  /\ UNCHANGED <<max_workers, lists, order, wake_idle, pc, engine, busy, flushes>>

-----------------------------------------------------------------------------
(* worker_thread.  pre_sleep_flush_fn is false: the worker's iodepth is 1,  *)
(* so fn leaves nothing in flight.                                          *)

\* init_worker_fn, and the first section under sw->lock.
WorkerInit(w) ==
  /\ Goto(w, "init", "started")
  /\ \E f \in {{"RUNNING"}} \cup IF INIT_FAILS THEN {{"RUNNING", "ERROR"}} ELSE {} :
       flags' = [flags EXCEPT ![w] = @ \cup f]
  /\ UNCHANGED <<max_workers, lists, order, wake_idle, job, locals, engine, busy, flushes>>

WorkerStarted(w) ==
  /\ Goto(w, "started", "check") /\ FlushLockFree
  /\ SignalFlushCond
  /\ UNCHANGED <<max_workers, flags, lists, order, wake_idle, engine, busy, flushes>>

\* The worker reads its flags without the lock.
WorkerCheck(w) ==
  /\ Goto(w, "check", IF "ERROR" \in flags[w] THEN "exited" ELSE "top")
  /\ UNCHANGED <<max_workers, flags, lists, order, wake_idle, job, locals, engine, busy, flushes>>

\* Mutant: the order to exit is obeyed before the list is done.
WorkerExitAtOnce(w) ==
  /\ pc[w] \in {"top", "again"} /\ pc' = [pc EXCEPT ![w] = "exited"]
  /\ "EXIT" \in flags[w]
  /\ UNCHANGED <<max_workers, flags, lists, order, wake_idle, job, locals, engine, busy, flushes>>

\* "top" is the head of the loop, "again" the last test of it, after the lock
\* was dropped to report idleness.
WorkerExit(w) ==
  /\ pc[w] \in {"top", "again"} /\ pc' = [pc EXCEPT ![w] = "exited"]
  /\ work_list[w] = << >> /\ "EXIT" \in flags[w]
  /\ UNCHANGED <<max_workers, flags, lists, order, wake_idle, job, locals, engine, busy, flushes>>

WorkerIdle(w) ==
  /\ Goto(w, "top", "notify")
  /\ work_list[w] = << >> /\ {"EXIT", "IDLE"} \cap flags[w] = {}
  /\ flags' = [flags EXCEPT ![w] = @ \cup {"IDLE"}]
  /\ next_free_worker' = w
  /\ UNCHANGED <<max_workers, lists, seq, work_seq, wake_idle, job, locals, engine, busy, flushes>>

\* Mutants: the signal is sent without flush_lock; there is no signal.
WorkerNotifyUnlocked(w) ==
  /\ Goto(w, "notify", "again")
  /\ IF wake_idle = 1 THEN SignalFlushCond ELSE UNCHANGED <<job, locals>>
  /\ UNCHANGED <<max_workers, flags, lists, order, wake_idle, engine, busy, flushes>>

WorkerNotifySilent(w) ==
  /\ Goto(w, "notify", "again") /\ FlushLockFree
  /\ UNCHANGED <<max_workers, flags, lists, order, wake_idle, job, locals, engine, busy, flushes>>

WorkerNotify(w) ==
  /\ Goto(w, "notify", "again") /\ FlushLockFree
  /\ IF wake_idle = 1 THEN SignalFlushCond ELSE UNCHANGED <<job, locals>>
  /\ UNCHANGED <<max_workers, flags, lists, order, wake_idle, engine, busy, flushes>>

WorkerSleep(w) ==
  /\ \/ Goto(w, "top", "wait") /\ "IDLE" \in flags[w]
     \/ Goto(w, "again", "wait")
  /\ work_list[w] = << >> /\ "EXIT" \notin flags[w]
  /\ UNCHANGED <<max_workers, flags, lists, order, wake_idle, job, locals, engine, busy, flushes>>

\* Mutant: flist_splice for flist_splice_init.
WorkerSpliceOnly(w) ==
  /\ pc[w] \in {"top", "again"} /\ pc' = [pc EXCEPT ![w] = "handle"]
  /\ work_list[w] # << >>
  /\ local_list' = [local_list EXCEPT ![w] = @ \o work_list[w]]
  /\ UNCHANGED <<max_workers, flags, work_list, order, wake_idle, job, locals, engine, busy, flushes>>

WorkerSplice(w) ==
  /\ pc[w] \in {"top", "again"} /\ pc' = [pc EXCEPT ![w] = "handle"]
  /\ work_list[w] # << >>
  /\ local_list' = [local_list EXCEPT ![w] = @ \o work_list[w]]
  /\ work_list' = [work_list EXCEPT ![w] = << >>]
  /\ UNCHANGED <<max_workers, flags, order, wake_idle, job, locals, engine, busy, flushes>>

-----------------------------------------------------------------------------
(* handle_list and io_workqueue_fn.                                         *)

HandleNext(w) ==
  /\ local_list[w] # << >>
  /\ Goto(w, "handle", "overlap")
  /\ cur' = [cur EXCEPT ![w] = Head(local_list[w])]
  /\ local_list' = [local_list EXCEPT ![w] = Tail(@)]
  /\ UNCHANGED <<max_workers, flags, work_list, order, wake_idle, job, locals, overlap_check, flight, busy, flushes>>

\* The list is done: update_acct_fn, and back to the head of the loop.
HandleDone(w) ==
  /\ local_list[w] = << >>
  /\ Goto(w, "handle", "top")
  /\ UNCHANGED <<max_workers, flags, lists, order, wake_idle, job, locals, engine, busy, flushes>>

\* check_overlap returns with the mutex; while it finds an overlap it releases
\* the mutex and starts again, which changes nothing.
CheckOverlap(w) ==
  /\ Goto(w, "overlap", "queue")
  /\ overlap_check = NoWorker /\ overlap_check' = w
  /\ \A v \in flight : {cur[w], v} \notin Overlap
  /\ UNCHANGED <<max_workers, flags, lists, order, wake_idle, job, locals, cur, flight, busy, flushes>>

\* Mutants: the mutex is released before the flag is set; it is not released.
QueueIoUEarlyRelease(w) ==
  /\ pc[w] = "queue"
  /\ \/ /\ overlap_check = w /\ overlap_check' = NoWorker /\ UNCHANGED <<pc, flight>>
     \/ /\ overlap_check # w /\ flight' = flight \cup {cur[w]}
        /\ pc' = [pc EXCEPT ![w] = "complete"] /\ UNCHANGED overlap_check
  /\ UNCHANGED <<max_workers, flags, lists, order, wake_idle, job, locals, cur, busy, flushes>>

QueueIoUKeepsMutex(w) ==
  /\ Goto(w, "queue", "complete")
  /\ flight' = flight \cup {cur[w]}
  /\ UNCHANGED <<max_workers, flags, lists, order, wake_idle, job, locals, overlap_check, cur, busy, flushes>>

\* td_io_queue: the flag is set, then the mutex is released.
QueueIoU(w) ==
  /\ Goto(w, "queue", "complete")
  /\ flight' = flight \cup {cur[w]}
  /\ overlap_check' = NoWorker
  /\ UNCHANGED <<max_workers, flags, lists, order, wake_idle, job, locals, cur, busy, flushes>>

\* The engine has completed the io_u: io_completed and put_io_u.  An engine of
\* depth 1 with nothing in flight does not answer FIO_Q_BUSY.
Complete(w) ==
  /\ Goto(w, "complete", "handle")
  /\ flight' = flight \ {cur[w]}
  /\ busy' = busy \ {cur[w]}
  /\ cur' = [cur EXCEPT ![w] = NoIoU]
  /\ UNCHANGED <<max_workers, flags, lists, order, wake_idle, job, locals, overlap_check, flushes>>

\* pthread_cond_wait may return without a signal.
SpuriousWakeup ==
  /\ \/ job \in {"init_wait", "flush_wait"} /\ SignalFlushCond /\ UNCHANGED pc
     \/ \E w \in Worker : pc[w] = "wait" /\ SignalWorker(w) /\ UNCHANGED <<job, locals>>
  /\ UNCHANGED <<max_workers, flags, lists, order, wake_idle, engine, busy, flushes>>

-----------------------------------------------------------------------------

\* The steps the job is bound to take once it is in a function.
JobStep ==
  \/ StartWorker \/ StartFails \/ MarkIdle \/ InitScan \/ JobSleep
  \/ GetSubmitWorker \/ AdvanceFree \/ EnqueueAdd \/ FlushScan \/ ExitMark \/ ExitJoin

JobCall == (\E u \in IoU : EnqueueBegin(u)) \/ FlushBegin \/ ExitBegin

WorkerStep(w) ==
  \/ WorkerInit(w) \/ WorkerStarted(w) \/ WorkerCheck(w)
  \/ WorkerExit(w) \/ WorkerIdle(w) \/ WorkerNotify(w) \/ WorkerSleep(w) \/ WorkerSplice(w)
  \/ HandleNext(w) \/ HandleDone(w) \/ CheckOverlap(w) \/ QueueIoU(w) \/ Complete(w)

Next == JobStep \/ JobCall \/ (\E w \in Worker : WorkerStep(w)) \/ SpuriousWakeup

Spec == Init /\ [][Next]_vars

\* Every thread is scheduled, the caller may stop calling, and flush_lock, when
\* it is released again and again, is some time given to a worker that waits.
FairSpec ==
  /\ Spec /\ WF_vars(JobStep)
  /\ \A w \in Worker : WF_vars(WorkerStep(w)) /\ SF_vars(WorkerStarted(w) \/ WorkerNotify(w))

-----------------------------------------------------------------------------
(* Properties.                                                              *)

JobPlace == {"start", "mark", "init_scan", "init_sleep", "init_wait", "ready", "get", "advance",
             "add", "flush_scan", "flush_sleep", "flush_wait", "exit", "join", "gone"}
WorkerPlace == {"none", "init", "started", "check", "top", "notify", "again", "wait", "handle",
                "overlap", "queue", "complete", "exited"}
Started == 0 .. max_workers - 1
Initialising == {"start", "mark", "init_scan", "init_sleep", "init_wait"}

\* Type invariant; next_free_worker names a worker that was started, as
\* get_submit_worker asserts, in spite of the unlocked writes to it.
WorkqueueTypeOK ==
  /\ max_workers \in 0 .. MAX_WORKERS
  /\ flags \in [Worker -> SUBSET SwFlag]
  /\ work_list \in [Worker -> Seq(IoU)] /\ local_list \in [Worker -> Seq(IoU)]
  /\ seq \in [Worker -> Nat] /\ work_seq \in Nat
  /\ next_free_worker \in Worker
  /\ job \in Initialising \cup {"exit", "join", "gone"} \/ next_free_worker < max_workers
  /\ wake_idle \in {0, 1}
  /\ job \in JobPlace /\ idx \in 0 .. MAX_WORKERS
  /\ running \in 0 .. MAX_WORKERS /\ error \in BOOLEAN
  /\ next \in Worker /\ best \in Worker \cup {NoWorker} /\ io \in IoU \cup {NoIoU}
  /\ pc \in [Worker -> WorkerPlace]
  /\ cur \in [Worker -> IoU \cup {NoIoU}]
  /\ overlap_check \in Worker \cup {NoWorker}
  /\ flight \subseteq IoU /\ busy \subseteq IoU
  /\ flushes \in Nat

\* What a worker has been given and not yet completed.
Held(w) == {work_list[w][k] : k \in DOMAIN work_list[w]}
           \cup {local_list[w][k] : k \in DOMAIN local_list[w]} \cup ({cur[w]} \ {NoIoU})

\* Every io_u handed to workqueue_enqueue and not yet completed is with one
\* worker, once: neither the splice nor two enqueues lose or double it.
OneWorkerEach ==
  /\ UNION {Held(w) : w \in Worker} = busy
  /\ \A w, x \in Worker : w # x => Held(w) \cap Held(x) = {}
  /\ \A w \in Worker : Cardinality(Held(w)) =
        Len(work_list[w]) + Len(local_list[w]) + IF cur[w] = NoIoU THEN 0 ELSE 1

\* A worker with SW_F_IDLE has nothing left to do: the flag, which the job reads
\* without the lock, never runs ahead of the lists.
IdleMeansDrained == \A w \in Worker : "IDLE" \in flags[w] => Held(w) = {}

\* workqueue_flush and workqueue_exit return only when everything enqueued is
\* complete, though all_sw_idle looks at one worker after the other.
DrainedAtReturn ==
  [][/\ job = "flush_scan" /\ job' = "ready" => busy = {}
     /\ job' = "gone" => busy' = {}]_vars

\* Two overlapping io_us are never in flight together (the comment of
\* check_overlap, rate-submit.c).
NoOverlapInFlight == \A u, v \in flight : u # v => {u, v} \notin Overlap

\* A job waiting in workqueue_flush is not forgotten: some worker is still to
\* become idle or has still to signal flush_cond.
FlushNotMissed ==
  job = "flush_wait" =>
    \E w \in Started : "IDLE" \notin flags[w] \/ pc[w] = "notify"

\* A worker never sleeps on work, nor on the order to exit.
SleepsOnNothing ==
  \A w \in Worker : pc[w] = "wait" => work_list[w] = << >> /\ "EXIT" \notin flags[w]

\* No signal is lost: a job waiting in workqueue_flush has still a worker that
\* will become idle or signal it, and no worker sleeps on work or an order to exit.
NoWakeupLost == FlushNotMissed /\ SleepsOnNothing

\* Every io_u handed over is completed, whatever overlaps it.
EveryWorkCompletes == \A u \in IoU : u \in busy ~> u \notin busy

\* workqueue_flush returns.
FlushReturns == job = "flush_scan" ~> job = "ready"

\* workqueue_exit returns, also after a failed workqueue_init.
ExitReturns == job = "exit" ~> job = "gone"

\* Every io_u handed over is completed, and the calls that wait for it return.
CallsReturn == EveryWorkCompletes /\ FlushReturns /\ ExitReturns

\* workqueue_init returns: it waits for the workers to be "started and
\* initialized", and no worker hangs in its own initialisation.
InitReturns == <>(job \notin Initialising)

=============================================================================
