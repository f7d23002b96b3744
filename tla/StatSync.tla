------------------------------ MODULE StatSync ------------------------------
(***************************************************************************)
(* How fio's helper thread prints statistics of running jobs                *)
(* (stat.c, __show_running_run_stats): it takes stat_sem, asks every job    *)
(* for fresh numbers with update_rusage and waits for each on its           *)
(* rusage_sem.  A job answers in check_update_rusage, and takes stat_sem    *)
(* itself after each pass of thread_main (backend.c).                       *)
(*                                                                          *)
(* runstate and update_rusage are plain stores: the job's last store to     *)
(* runstate may reach the helper after the job has read update_rusage.      *)
(***************************************************************************)
EXTENDS Integers, Sequences, FioSem

CONSTANTS
  JOBS,           \* number of jobs
  MAX_TRIES,      \* turns of the trylock loop before EDEADLK: 5000
  STAT_CALLS,     \* bound of the model: calls of the helper
  DO_VERIFY       \* the jobs verify what they wrote

StatJob == 1 .. JOBS
Helper == 0

VARIABLES
  stat_sem, rusage_sem,  \* the semaphores
  update_rusage,         \* of each job
  exited,                \* jobs whose runstate is seen as TD_EXITED
  jpc, back,             \* where a job is; where check_update_rusage returns
  tries,                 \* deadlock_loop_cnt
  hpc, k, calls          \* the helper, its loop over the jobs, calls so far

statVars == <<stat_sem, rusage_sem, update_rusage, exited, jpc, back, tries, hpc, k, calls>>

Init ==
  /\ stat_sem = SemNew(1) /\ rusage_sem = [j \in StatJob |-> SemNew(0)]
  /\ update_rusage = [j \in StatJob |-> FALSE] /\ exited = {}
  /\ jpc = [j \in StatJob |-> "do_io"] /\ back = [j \in StatJob |-> "none"]
  /\ tries = [j \in StatJob |-> 0]
  /\ hpc = "idle" /\ k = 1 /\ calls = 0

JobGoto(j, place) == jpc' = [jpc EXCEPT ![j] = place]

\* A call of check_update_rusage that returns to the given place.
CheckThen(j, place) == JobGoto(j, "check") /\ back' = [back EXCEPT ![j] = place]

\* check_update_rusage returns.
CheckReturns(j) ==
  /\ JobGoto(j, back[j])
  /\ back' = [back EXCEPT ![j] = IF @ = "gone" THEN @ ELSE "none"]

-----------------------------------------------------------------------------
\* The helper: fio_sem_down(stat_sem), for a new call or after a wake-up.
HelperDown ==
  /\ \/ hpc = "idle" /\ calls < STAT_CALLS /\ calls' = calls + 1
     \/ hpc = "down" /\ Helper \notin stat_sem.asleep /\ UNCHANGED calls
  /\ stat_sem' = SemDown(stat_sem, Helper)
  /\ hpc' = IF stat_sem.value > 0 THEN "ask" ELSE "down"
  /\ UNCHANGED <<rusage_sem, update_rusage, exited, jpc, back, tries, k>>

\* First loop: ask every job.
HelperAsk ==
  /\ hpc = "ask"
  /\ update_rusage' = [update_rusage EXCEPT ![k] = TRUE]
  /\ IF k = JOBS THEN k' = 1 /\ hpc' = "look" ELSE k' = k + 1 /\ UNCHANGED hpc
  /\ UNCHANGED <<stat_sem, rusage_sem, exited, jpc, back, tries, calls>>

\* The next job of the second loop, or its end.
NextJob ==
  IF k = JOBS THEN k' = 1 /\ hpc' = "up" ELSE k' = k + 1 /\ hpc' = "look"

\* Second loop: a job that has exited is not waited for.
HelperLook ==
  /\ hpc = "look"
  /\ IF k \in exited THEN NextJob ELSE hpc' = "again" /\ UNCHANGED k
  /\ UNCHANGED <<stat_sem, rusage_sem, update_rusage, exited, jpc, back, tries, calls>>

\* The others are asked once more ...
HelperAskAgain ==
  /\ hpc = "again" /\ hpc' = "wait"
  /\ update_rusage' = [update_rusage EXCEPT ![k] = TRUE]
  /\ UNCHANGED <<stat_sem, rusage_sem, exited, jpc, back, tries, k, calls>>

\* ... and waited for: fio_sem_down(td->rusage_sem).
HelperWait ==
  /\ hpc = "wait" /\ Helper \notin rusage_sem[k].asleep
  /\ rusage_sem' = [rusage_sem EXCEPT ![k] = SemDown(@, Helper)]
  /\ hpc' = IF rusage_sem[k].value > 0 THEN "clear" ELSE "wait"
  /\ UNCHANGED <<stat_sem, update_rusage, exited, jpc, back, tries, k, calls>>

HelperClear ==
  /\ hpc = "clear"
  /\ update_rusage' = [update_rusage EXCEPT ![k] = FALSE]
  /\ NextJob
  /\ UNCHANGED <<stat_sem, rusage_sem, exited, jpc, back, tries, calls>>

HelperUp ==
  /\ hpc = "up" /\ hpc' = "idle"
  /\ stat_sem' \in SemUp(stat_sem)
  /\ UNCHANGED <<rusage_sem, update_rusage, exited, jpc, back, tries, k, calls>>

HelperStep ==
  \/ HelperDown \/ HelperAsk \/ HelperLook \/ HelperAskAgain \/ HelperWait
  \/ HelperClear \/ HelperUp

-----------------------------------------------------------------------------
\* check_update_rusage: read the request ...
CheckRead(j) ==
  /\ jpc[j] = "check"
  /\ IF update_rusage[j] THEN JobGoto(j, "answer") /\ UNCHANGED back ELSE CheckReturns(j)
  /\ UNCHANGED <<stat_sem, rusage_sem, update_rusage, exited, tries, hpc, k, calls>>

\* ... clear it ...
CheckClear(j) ==
  /\ jpc[j] = "answer"
  /\ update_rusage' = [update_rusage EXCEPT ![j] = FALSE]
  /\ JobGoto(j, "answer_up")
  /\ UNCHANGED <<stat_sem, rusage_sem, exited, back, tries, hpc, k, calls>>

\* ... and answer it: fio_sem_up(td->rusage_sem).
CheckUp(j) ==
  /\ jpc[j] = "answer_up"
  /\ \E s \in SemUp(rusage_sem[j]) : rusage_sem' = [rusage_sem EXCEPT ![j] = s]
  /\ CheckReturns(j)
  /\ UNCHANGED <<stat_sem, update_rusage, exited, tries, hpc, k, calls>>

\* do_io and do_verify check once for every request, and end after some.
DoIo(j) ==
  /\ jpc[j] = "do_io"
  /\ \/ CheckThen(j, "do_io") \/ CheckThen(j, "trylock")
     \/ JobGoto(j, "exit") /\ UNCHANGED back
  /\ UNCHANGED <<stat_sem, rusage_sem, update_rusage, exited, tries, hpc, k, calls>>

\* Mutant: the job waits for stat_sem instead of trying and answering in turn.
TryStatSemWaits(j) ==
  /\ jpc[j] = "trylock" /\ j \notin stat_sem.asleep
  /\ stat_sem' = SemDown(stat_sem, j)
  /\ IF stat_sem.value > 0 THEN JobGoto(j, "runtime") ELSE UNCHANGED jpc
  /\ UNCHANGED <<rusage_sem, update_rusage, exited, back, tries, hpc, k, calls>>

\* The loop after a pass: fio_sem_down_trylock(stat_sem), answer again when it
\* fails, and give up with EDEADLK after MAX_TRIES turns.
TryStatSem(j) ==
  /\ jpc[j] = "trylock"
  /\ \/ /\ stat_sem.value > 0
        /\ stat_sem' = SemTake(stat_sem, j) /\ JobGoto(j, "runtime")
        /\ tries' = [tries EXCEPT ![j] = 0] /\ UNCHANGED back
     \/ /\ stat_sem.value = 0 /\ UNCHANGED stat_sem
        /\ IF tries[j] > MAX_TRIES
           THEN JobGoto(j, "exit") /\ tries' = [tries EXCEPT ![j] = 0] /\ UNCHANGED back
           ELSE CheckThen(j, "trylock") /\ tries' = [tries EXCEPT ![j] = @ + 1]
  /\ UNCHANGED <<rusage_sem, update_rusage, exited, hpc, k, calls>>

\* fio_sem_up(stat_sem), after do_io or after do_verify; then the next pass, the
\* end of the job, or do_verify.
StatSemUp(j) ==
  /\ jpc[j] \in {"runtime", "verified"}
  /\ stat_sem' \in SemUp(stat_sem)
  /\ \/ JobGoto(j, "do_io") \/ JobGoto(j, "exit")
     \/ DO_VERIFY /\ jpc[j] = "runtime" /\ JobGoto(j, "do_verify")
  /\ UNCHANGED <<rusage_sem, update_rusage, exited, back, tries, hpc, k, calls>>

DoVerify(j) ==
  /\ jpc[j] = "do_verify"
  /\ CheckThen(j, "do_verify") \/ CheckThen(j, "down")
  /\ UNCHANGED <<stat_sem, rusage_sem, update_rusage, exited, tries, hpc, k, calls>>

\* After do_verify, check_update_rusage is followed by fio_sem_down(stat_sem).
StatSemDown(j) ==
  /\ jpc[j] = "down" /\ j \notin stat_sem.asleep
  /\ stat_sem' = SemDown(stat_sem, j)
  /\ JobGoto(j, IF stat_sem.value > 0 THEN "verified" ELSE "down")
  /\ UNCHANGED <<rusage_sem, update_rusage, exited, back, tries, hpc, k, calls>>

\* td_set_runstate(TD_EXITED), then a last check_update_rusage.
SetExited(j) ==
  /\ jpc[j] = "exit" /\ CheckThen(j, "gone")
  /\ UNCHANGED <<stat_sem, rusage_sem, update_rusage, exited, tries, hpc, k, calls>>

\* The store of TD_EXITED becomes visible.
SeeExited(j) ==
  /\ j \notin exited /\ back[j] = "gone"
  /\ exited' = exited \cup {j}
  /\ UNCHANGED <<stat_sem, rusage_sem, update_rusage, jpc, back, tries, hpc, k, calls>>

JobStep(j) ==
  \/ CheckRead(j) \/ CheckClear(j) \/ CheckUp(j) \/ DoIo(j) \/ TryStatSem(j)
  \/ StatSemUp(j) \/ DoVerify(j) \/ StatSemDown(j) \/ SetExited(j)

Next == HelperStep \/ \E j \in StatJob : JobStep(j) \/ SeeExited(j)

Spec == Init /\ [][Next]_statVars

FairSpec ==
  /\ Spec /\ WF_statVars(HelperStep)
  /\ \A j \in StatJob : WF_statVars(JobStep(j)) /\ WF_statVars(SeeExited(j))

-----------------------------------------------------------------------------
\* The job the helper waits for has nothing more to answer with, or sleeps on
\* stat_sem after do_verify.
WaitsForGone == hpc = "wait" /\ jpc[k] = "gone"
WaitsForVerified == hpc = "wait" /\ jpc[k] = "down" /\ k \in stat_sem.asleep

\* The helper gives stat_sem back, whatever it interrupts a job in: while the job
\* it waits for lives, the job answers before stat_sem could hold it up.  The
\* one place where that is not so is the fio_sem_down after do_verify.
StatSemGivenBack ==
  (hpc \notin {"idle", "down"}) ~> (hpc = "idle" \/ WaitsForGone \/ WaitsForVerified)

\* "Make sure we've successfully updated the rusage stats before waiting on the
\* stat mutex": the helper, holding stat_sem, does not wait for a job that
\* sleeps on stat_sem.
NoStatDeadlock ==
  \A j \in StatJob :
    ~ (hpc = "wait" /\ k = j /\ Helper \in rusage_sem[j].asleep /\ j \in stat_sem.asleep)
=============================================================================
