----------------------------- MODULE VerifyAsync -----------------------------
(***************************************************************************)
(* fio4emu: the verify pass of a job with verify_async threads             *)
(* (verify.c, backend.c:do_verify, io_u.c).  The job takes an io_u from    *)
(* the free list, reads the next written block back into it with the emu   *)
(* engine (a synchronous engine whose reads do not fail) and hands it to   *)
(* the verify threads, which check it and put the io_u back.  io_u_lock is *)
(* held for one step at a time, so it needs no variable; a thread blocked  *)
(* in pthread_cond_wait is at a place of its own ("wait"), and "woken"     *)
(* once it is signalled.                                                   *)
(***************************************************************************)
EXTENDS Sequences, VerifyConsts

Thread == 1 .. VERIFY_ASYNC
Block == 1 .. BLOCKS

VARIABLES
  proceed,     \* continue_on_error=verify
  fatal,       \* verify_fatal
  free,        \* io_u_freelist
  verify_list, \* io_us read back and not yet taken by a thread
  blk,         \* the block an io_u holds
  in_depth,    \* io_us with IO_U_F_IN_CUR_DEPTH
  cur_depth,
  error,       \* td->error is set
  terminate, verify_thread_exit, nr_verify_threads, total_err_count,
  job,         \* where the job is
  idx,         \* threads created
  io,          \* the io_u in the job's hands
  todo,        \* the first block of the history not read back yet
  pc,          \* where a thread is
  batch,       \* the local list of a thread
  hand,        \* the io_u a thread is checking
  verify_ret, read, \* locals of a thread: ret, and the error count it read
  checked, bad \* history: the blocks verify_io_u has looked at, and those it refused

options == <<proceed, fatal>>
counts  == <<error, terminate, total_err_count>>
lists   == <<free, verify_list, blk, in_depth, cur_depth>>
exiting == <<verify_thread_exit, nr_verify_threads>>
jobVars == <<job, idx, io, todo>>
locals  == <<batch, hand, verify_ret, read>>
seen    == <<checked, bad>>
verifyVars == <<options, counts, lists, exiting, jobVars, pc, locals, seen>>

VerifyInit ==
  /\ proceed \in BOOLEAN /\ fatal \in BOOLEAN
  /\ free = IoU /\ verify_list = << >> /\ blk = [u \in IoU |-> 0]
  /\ in_depth = {} /\ cur_depth = 0
  /\ error = FALSE /\ terminate = FALSE /\ total_err_count = 0
  /\ verify_thread_exit = FALSE /\ nr_verify_threads = 0
  /\ job = "create" /\ idx = 0 /\ io = NoIoU /\ todo = 1
  /\ pc = [t \in Thread |-> "none"]
  /\ batch = [t \in Thread |-> << >>] /\ hand = [t \in Thread |-> NoIoU]
  /\ verify_ret = [t \in Thread |-> FALSE] /\ read = [t \in Thread |-> 0]
  /\ checked = {} /\ bad = {}

-----------------------------------------------------------------------------
(* Condition variables.                                                    *)


\* pthread_cond_broadcast(&td->verify_cond)
Broadcast == pc' = [t \in Thread |-> IF pc[t] = "wait" THEN "woken" ELSE pc[t]]

\* mutant: nobody is woken
NoSignalVerify == UNCHANGED pc

\* pthread_cond_signal(&td->verify_cond): one of the threads that wait, if any does
SignalVerify ==
  IF \E t \in Thread : pc[t] = "wait"
  THEN \E t \in Thread : pc[t] = "wait" /\ pc' = [pc EXCEPT ![t] = "woken"]
  ELSE UNCHANGED pc

\* pthread_cond_signal(&td->free_cond): only the job waits on it, in __get_io_u
\* or in verify_async_exit
SignalFree ==
  job' = CASE job = "wait" -> "woken" [] job = "exit_wait" -> "exit_check" [] OTHER -> job

-----------------------------------------------------------------------------
(* The job.                                                                *)

JobAt(p) == job = p

\* verify_async_init, one thread
CreateThread ==
  /\ JobAt("create") /\ idx < VERIFY_ASYNC
  /\ pc' = [pc EXCEPT ![idx + 1] = "top"]
  /\ idx' = idx + 1 /\ nr_verify_threads' = nr_verify_threads + 1
  /\ UNCHANGED <<options, counts, lists, verify_thread_exit, job, io, todo, locals, seen>>

CreateDone ==
  /\ JobAt("create") /\ idx = VERIFY_ASYNC /\ job' = "loop"
  /\ UNCHANGED <<options, counts, lists, exiting, idx, io, todo, pc, locals, seen>>

\* the threads created so far are told to leave; thread_main goes to err
CreateFails ==
  /\ CREATE_FAILS /\ JobAt("create") /\ idx < VERIFY_ASYNC
  /\ verify_thread_exit' = TRUE /\ Broadcast /\ job' = "exit"
  /\ UNCHANGED <<options, counts, lists, nr_verify_threads, idx, io, todo, locals, seen>>

\* while (!td->terminate)
LoopTest ==
  /\ JobAt("loop") /\ job' = IF terminate THEN "exit" ELSE "again"
  /\ UNCHANGED <<options, counts, lists, exiting, idx, io, todo, pc, locals, seen>>

\* __get_io_u from its label again, under io_u_lock
TakeOrWait ==
  \/ /\ free = {} /\ job' = "wait" /\ UNCHANGED <<free, in_depth, cur_depth, io>>
  \/ \E u \in free :
       /\ free' = free \ {u} /\ in_depth' = in_depth \cup {u}
       /\ cur_depth' = cur_depth + 1 /\ io' = u /\ job' = "next"

GetIoU ==
  /\ JobAt("again") /\ TakeOrWait
  /\ UNCHANGED <<options, counts, verify_list, blk, exiting, idx, todo, pc, locals, seen>>

\* back from pthread_cond_wait: try again, unless there is an error
GetWoken ==
  /\ JobAt("woken")
  /\ IF error THEN job' = "exit" /\ UNCHANGED <<free, in_depth, cur_depth, io>> ELSE TakeOrWait
  /\ UNCHANGED <<options, counts, verify_list, blk, exiting, idx, todo, pc, locals, seen>>

\* mutant: the io_u stays in cur_depth
PutIoUKeepsDepth(u) ==
  free' = free \cup {u} /\ UNCHANGED <<cur_depth, verify_list, blk, in_depth>>

\* put_io_u: the io_u is free again, and leaves cur_depth if it is counted there
PutIoU(u) ==
  /\ free' = free \cup {u}
  /\ cur_depth' = IF u \in in_depth THEN cur_depth - 1 ELSE cur_depth
  /\ UNCHANGED <<verify_list, blk, in_depth>>

\* get_next_verify finds a block of the history
NextVerify ==
  /\ JobAt("next") /\ todo \in Block
  /\ blk' = [blk EXCEPT ![io] = todo] /\ todo' = todo + 1 /\ job' = "submit"
  /\ UNCHANGED <<options, counts, free, verify_list, in_depth, cur_depth, exiting, idx, io, pc,
                 locals, seen>>

\* get_next_verify finds nothing: the io_u is put back and do_verify ends
NoNextVerify ==
  /\ JobAt("next") /\ todo \notin Block
  /\ PutIoU(io) /\ io' = NoIoU /\ job' = "exit"
  /\ UNCHANGED <<options, counts, exiting, idx, todo, pc, locals, seen>>

\* io_u_submit reads the block; its completion calls verify_io_u_async
Submit ==
  /\ JobAt("submit")
  /\ IF io \in in_depth
     THEN cur_depth' = cur_depth - 1 /\ in_depth' = in_depth \ {io}
     ELSE UNCHANGED <<cur_depth, in_depth>>
  /\ verify_list' = Append(verify_list, io) /\ io' = NoIoU /\ job' = "loop"
  /\ SignalVerify
  /\ UNCHANGED <<options, counts, free, blk, exiting, idx, todo, locals, seen>>

\* verify_async_exit: tell the threads, then wait until none is counted
Exit ==
  /\ JobAt("exit")
  /\ verify_thread_exit' = TRUE /\ Broadcast
  /\ job' = IF nr_verify_threads # 0 THEN "exit_wait" ELSE "gone"
  /\ UNCHANGED <<options, counts, lists, nr_verify_threads, idx, io, todo, locals, seen>>

\* mutant: an if in the place of the while
ExitCheckOnce ==
  /\ JobAt("exit_check") /\ job' = "gone"
  /\ UNCHANGED <<options, counts, lists, exiting, idx, io, todo, pc, locals, seen>>

\* verify_async_exit, back from pthread_cond_wait
ExitCheck ==
  /\ JobAt("exit_check")
  /\ job' = IF nr_verify_threads # 0 THEN "exit_wait" ELSE "gone"
  /\ UNCHANGED <<options, counts, lists, exiting, idx, io, todo, pc, locals, seen>>

-----------------------------------------------------------------------------
(* A verify thread (verify_async_thread).                                  *)

ThreadGoto(t, from, to) == pc[t] = from /\ pc' = [pc EXCEPT ![t] = to]

\* read_barrier(); if (td->verify_thread_exit) break;
ThreadTop(t) ==
  /\ ThreadGoto(t, "top", IF verify_thread_exit THEN "leave" ELSE "lock")
  /\ UNCHANGED <<options, counts, lists, exiting, jobVars, locals, seen>>

\* under io_u_lock: wait for something to check, or for the end
ThreadWait(t) ==
  /\ verify_list = << >> /\ ~verify_thread_exit
  /\ pc[t] \in {"lock", "woken"} /\ pc' = [pc EXCEPT ![t] = "wait"]
  /\ UNCHANGED <<options, counts, lists, exiting, jobVars, locals, seen>>

\* mutant: the list is copied and not emptied
ThreadSpliceKeeps(t) ==
  /\ verify_list # << >> \/ verify_thread_exit
  /\ pc[t] \in {"lock", "woken"}
  /\ pc' = [pc EXCEPT ![t] = IF verify_list = << >> THEN "top" ELSE "batch"]
  /\ batch' = [batch EXCEPT ![t] = verify_list]
  /\ UNCHANGED <<options, counts, lists, exiting, jobVars, hand, verify_ret, read, seen>>

\* under io_u_lock: the whole list becomes the thread's
ThreadSplice(t) ==
  /\ verify_list # << >> \/ verify_thread_exit
  /\ pc[t] \in {"lock", "woken"}
  /\ pc' = [pc EXCEPT ![t] = IF verify_list = << >> THEN "top" ELSE "batch"]
  /\ batch' = [batch EXCEPT ![t] = verify_list] /\ verify_list' = << >>
  /\ UNCHANGED <<options, counts, free, blk, in_depth, cur_depth, exiting, jobVars, hand,
                 verify_ret, read, seen>>

\* verify_io_u of the first io_u of the batch; data that fails with verify_fatal
\* ends the job, a header that fails does not
ThreadVerify(t) ==
  /\ batch[t] # << >> /\ ThreadGoto(t, "batch", "put")
  /\ LET u == Head(batch[t]) IN
       \E v \in {"good", "header", "data"} :
         /\ hand' = [hand EXCEPT ![t] = u]
         /\ verify_ret' = [verify_ret EXCEPT ![t] = v # "good"]
         /\ terminate' = (terminate \/ (fatal /\ v = "data"))
         /\ checked' = checked \cup {blk[u]}
         /\ bad' = IF v = "good" THEN bad ELSE bad \cup {blk[u]}
  /\ batch' = [batch EXCEPT ![t] = Tail(@)]
  /\ UNCHANGED <<options, error, total_err_count, lists, exiting, jobVars, read>>

\* mutant: free_cond is not signalled
ThreadPutSilent(t) ==
  /\ ThreadGoto(t, "put", IF verify_ret[t] /\ proceed THEN "count" ELSE "batch")
  /\ PutIoU(hand[t]) /\ hand' = [hand EXCEPT ![t] = NoIoU]
  /\ UNCHANGED <<options, counts, exiting, jobVars, batch, verify_ret, read, seen>>

\* mutant: an error the job goes on after is not counted
ThreadPutNoCount(t) ==
  /\ ThreadGoto(t, "put", "batch")
  /\ PutIoU(hand[t]) /\ hand' = [hand EXCEPT ![t] = NoIoU] /\ SignalFree
  /\ UNCHANGED <<options, counts, exiting, idx, io, todo, batch, verify_ret, read, seen>>

\* put_io_u; then an error that is not fatal to the job is counted
ThreadPut(t) ==
  /\ ThreadGoto(t, "put", IF verify_ret[t] /\ proceed THEN "count" ELSE "batch")
  /\ PutIoU(hand[t]) /\ hand' = [hand EXCEPT ![t] = NoIoU] /\ SignalFree
  /\ UNCHANGED <<options, counts, exiting, idx, io, todo, batch, verify_ret, read, seen>>

\* update_error_count: total_err_count++ without a lock, so a read ...
CountRead(t) ==
  /\ ThreadGoto(t, "count", "counted") /\ read' = [read EXCEPT ![t] = total_err_count]
  /\ UNCHANGED <<options, counts, lists, exiting, jobVars, batch, hand, verify_ret, seen>>

\* ... and a write; then td_clear_error and ret = 0
CountWrite(t) ==
  /\ ThreadGoto(t, "counted", "batch")
  /\ total_err_count' = read[t] + 1 /\ read' = [read EXCEPT ![t] = 0]
  /\ error' = FALSE /\ verify_ret' = [verify_ret EXCEPT ![t] = FALSE]
  /\ UNCHANGED <<options, terminate, lists, exiting, jobVars, batch, hand, seen>>

\* mutant: a thread told to leave forgets the rest of its batch
BatchEndAtOnce(t) ==
  /\ batch[t] = << >> \/ verify_thread_exit
  /\ ThreadGoto(t, "batch", IF verify_ret[t] THEN "fail" ELSE "top")
  /\ UNCHANGED <<options, counts, lists, exiting, jobVars, locals, seen>>

\* the batch is empty: while (!ret)
BatchEnd(t) ==
  /\ batch[t] = << >> /\ ThreadGoto(t, "batch", IF verify_ret[t] THEN "fail" ELSE "top")
  /\ UNCHANGED <<options, counts, lists, exiting, jobVars, locals, seen>>

\* td_verror, and the end of the job with verify_fatal
ThreadFail(t) ==
  /\ ThreadGoto(t, "fail", "leave")
  /\ error' = TRUE /\ terminate' = (terminate \/ fatal)
  /\ UNCHANGED <<options, total_err_count, lists, exiting, jobVars, locals, seen>>

\* done: under io_u_lock
ThreadLeave(t) ==
  /\ ThreadGoto(t, "leave", "gone")
  /\ nr_verify_threads' = nr_verify_threads - 1 /\ SignalFree
  /\ UNCHANGED <<options, counts, lists, verify_thread_exit, idx, io, todo, locals, seen>>

-----------------------------------------------------------------------------
\* pthread_cond_wait may return without a signal
SpuriousWakeup ==
  \/ /\ SignalFree /\ job # job'
     /\ UNCHANGED <<options, counts, lists, exiting, idx, io, todo, pc, locals, seen>>
  \/ \E t \in Thread :
       /\ ThreadGoto(t, "wait", "woken")
       /\ UNCHANGED <<options, counts, lists, exiting, jobVars, locals, seen>>

JobStep ==
  \/ CreateThread \/ CreateDone \/ CreateFails \/ LoopTest \/ GetIoU \/ GetWoken
  \/ NextVerify \/ NoNextVerify \/ Submit \/ Exit \/ ExitCheck

ThreadStep(t) ==
  \/ ThreadTop(t) \/ ThreadWait(t) \/ ThreadSplice(t) \/ ThreadVerify(t) \/ ThreadPut(t)
  \/ CountRead(t) \/ CountWrite(t) \/ BatchEnd(t) \/ ThreadFail(t) \/ ThreadLeave(t)

VerifyNext == JobStep \/ SpuriousWakeup \/ \E t \in Thread : ThreadStep(t)

VerifySpec == VerifyInit /\ [][VerifyNext]_verifyVars

\* The job and the threads are scheduled; nobody keeps io_u_lock.
FairSpec == VerifySpec /\ WF_verifyVars(JobStep) /\ \A t \in Thread : WF_verifyVars(ThreadStep(t))

-----------------------------------------------------------------------------
(* Properties.                                                             *)

Elements(q) == {q[k] : k \in 1 .. Len(q)}
JobHolds == {io} \ {NoIoU}
ThreadHolds(t) == Elements(batch[t]) \cup ({hand[t]} \ {NoIoU})

\* An io_u is in exactly one place: the free list, the job's hands, the verify
\* list, or a batch or the hands of one thread.  Nothing is freed twice or lost
\* when the list is spliced by one thread while another puts an io_u back.
EachIoUOnce ==
  /\ IoU = free \cup JobHolds \cup Elements(verify_list) \cup UNION {ThreadHolds(t) : t \in Thread}
  /\ Cardinality(IoU) = Cardinality(free) + Cardinality(JobHolds) + Len(verify_list)
       + Cardinality({p \in Thread \X (1 .. Cardinality(IoU)) : p[2] <= Len(batch[p[1]])})
       + Cardinality({t \in Thread : hand[t] # NoIoU})

\* cur_depth counts the io_us in the job's hands only: one handed to the threads
\* is taken out once (verify_io_u_async), not again when a thread puts it back.
DepthExact == cur_depth = Cardinality(JobHolds)

\* Both: no io_u is lost or doubled, nor its place in cur_depth.
IoUsConserved == EachIoUOnce /\ DepthExact

\* The job does not sleep on free_cond in __get_io_u while an io_u is free: the
\* signal of put_io_u is never lost.
FreeNotMissed == job = "wait" => free = {}

\* No thread sleeps on verify_cond beside a block to check, unless another one
\* has been woken for it: the signal of verify_io_u_async is never lost.
WorkNotMissed ==
  verify_list # << >> /\ (\E t \in Thread : pc[t] = "wait") => \E t \in Thread : pc[t] = "woken"

\* Both: no signal between the job and the threads is lost.
SignalsKept == FreeNotMissed /\ WorkNotMissed

\* verify_async_exit returns, and the job frees its io_us, only when no thread
\* runs any more, also after a thread could not be created.
ExitWaitsForThreads == job = "gone" => \A t \in Thread : pc[t] \in {"none", "gone"}

Left == {blk[u] : u \in Elements(verify_list)}

\* When the job goes, every block it read back has been checked or is still on
\* verify_list: a thread never leaves with a batch it has taken.
NothingDropped == job = "gone" => \A b \in Block : b < todo => b \in checked \cup Left

\* With continue_on_error a job in which a block was refused ends with an error
\* count, though the threads increment total_err_count without a lock.
FailureCounted == proceed /\ job = "gone" /\ bad # {} => total_err_count >= 1

\* What the end of a pass promises: all three.
EndOfPass == ExitWaitsForThreads /\ NothingDropped /\ FailureCounted


\* do_verify "reads the blocks back in, and checks the crc/md5 of the data"
\* (backend.c:628): when a job goes without an error, what it read back has been
\* checked.
ReadBackIsChecked ==
  job = "gone" /\ ~error /\ ~terminate => \A b \in Block : b < todo => b \in checked
=============================================================================
