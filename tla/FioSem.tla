------------------------------- MODULE FioSem -------------------------------
(***************************************************************************)
(* fio_sem.c: a counting semaphore made of a mutex and a condition          *)
(* variable.  Each critical section of the mutex is one step.  A semaphore  *)
(* is a record: its value, the threads asleep in pthread_cond_wait and the  *)
(* ones that have been woken and not yet looked at the value again; both    *)
(* are counted by the field waiters of the source.                          *)
(***************************************************************************)
EXTENDS Integers

\* fio_sem_init with FIO_SEM_LOCKED (0) or FIO_SEM_UNLOCKED (1).
SemNew(v) == [value |-> v, asleep |-> {}, woken |-> {}]

\* Thread p takes a unit: fio_sem_down after its loop, or a successful
\* fio_sem_down_trylock.
SemTake(s, p) == [s EXCEPT !.value = @ - 1, !.woken = @ \ {p}]

\* Thread p finds no unit and sleeps, for the first time or again.
SemSleep(s, p) == [s EXCEPT !.asleep = @ \cup {p}, !.woken = @ \ {p}]

\* One turn of the loop of fio_sem_down by a thread that is not asleep: it goes
\* on with the unit or goes to sleep.
SemDown(s, p) == IF s.value > 0 THEN SemTake(s, p) ELSE SemSleep(s, p)

\* A thread in pthread_cond_wait wakes up, signalled or not.
SemWake(s, p) == [s EXCEPT !.asleep = @ \ {p}, !.woken = @ \cup {p}]

\* The semaphore after fio_sem_up: the signal is sent only when the value was 0
\* and somebody waits, and wakes one of the threads that are asleep.
SemUp(s) ==
  LET up == [s EXCEPT !.value = @ + 1]
  IN  IF s.value = 0 /\ s.asleep # {} THEN {SemWake(up, p) : p \in s.asleep} ELSE {up}

\* No thread stays asleep beside a unit unless another one has been woken.
SemNotMissed(s) == s.value > 0 /\ s.asleep # {} => s.woken # {}
=============================================================================
