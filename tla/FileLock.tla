------------------------------ MODULE FileLock ------------------------------
(***************************************************************************)
(* fio's locks by file name (filelock.c), as the threads that write out     *)
(* their logs use them (iolog.c finish_log): a fixed pool of locks, a list  *)
(* of the ones in use with a reference count each, and one lock, fld->lock, *)
(* for the list.  A section under fld->lock is one step; the loop that      *)
(* waits for a free lock leaves the section and enters it again.            *)
(***************************************************************************)
EXTENDS Integers, Sequences, FiniteSets, FioSem, SequencesExt

CONSTANTS
  Flusher,       \* threads that write out logs
  Hash,          \* hashes of the names of the logs
  MAX_FILELOCKS  \* size of the pool: 1024

Ff == 1 .. MAX_FILELOCKS

VARIABLES
  list, free_list,         \* fld->list and fld->free_list
  hash, references, lock,  \* the fields of each lock
  at,                      \* where each thread is
  name, try, ff            \* its arguments, and the lock it found

flVars == <<list, free_list, hash, references, lock, at, name, try, ff>>

AnyHash == CHOOSE h \in Hash : TRUE

Init ==
  /\ list = << >> /\ free_list = [k \in Ff |-> k]
  /\ hash = [f \in Ff |-> AnyHash]
  /\ references = [f \in Ff |-> 0] /\ lock = [f \in Ff |-> SemNew(1)]
  /\ at = [t \in Flusher |-> "out"]
  /\ name = [t \in Flusher |-> AnyHash]
  /\ try = [t \in Flusher |-> FALSE] /\ ff = [t \in Flusher |-> 0]

Goto(t, place) == at' = [at EXCEPT ![t] = place]

\* The call returns and its locals are gone.
Return(t) ==
  /\ Goto(t, "out") /\ name' = [name EXCEPT ![t] = AnyHash]
  /\ try' = [try EXCEPT ![t] = FALSE] /\ ff' = [ff EXCEPT ![t] = 0]

Begin(t, h, trylock) ==
  name' = [name EXCEPT ![t] = h] /\ try' = [try EXCEPT ![t] = trylock]

\* fio_hash_find: the locks of the list with this hash; the first is taken.
fio_hash_find(h) == SelectSeq(list, LAMBDA f : hash[f] = h)

\* __fio_lock_file, first section: a lock of this name is in use.
Found(t, h) ==
  /\ fio_hash_find(h) # << >>
  /\ LET f == Head(fio_hash_find(h))
     IN  /\ references' = [references EXCEPT ![f] = @ + 1]
         /\ ff' = [ff EXCEPT ![t] = f]
  /\ Goto(t, "down") /\ UNCHANGED <<list, free_list, hash, lock>>

\* ... or a free one is put on the list for it.
Added(t, h) ==
  /\ fio_hash_find(h) = << >> /\ free_list # << >>
  /\ LET f == Head(free_list)
     IN  /\ list' = <<f>> \o list /\ free_list' = Tail(free_list)
         /\ hash' = [hash EXCEPT ![f] = h]
         /\ references' = [references EXCEPT ![f] = 1]
         /\ ff' = [ff EXCEPT ![t] = f]
  /\ Goto(t, "down") /\ UNCHANGED lock

\* ... or the pool is empty: a trylock fails, the other waits for a free lock.
Exhausted(t, h, trylock) ==
  /\ fio_hash_find(h) = << >> /\ free_list = << >>
  /\ IF trylock THEN UNCHANGED <<at, name, try>>
     ELSE Goto(t, "usleep") /\ Begin(t, h, trylock)
  /\ UNCHANGED <<list, free_list, hash, references, lock, ff>>

\* fio_lock_file and fio_trylock_file, up to the end of the first section.
LockFile(t, h, trylock) ==
  /\ at[t] = "out"
  /\ \/ (Found(t, h) \/ Added(t, h)) /\ Begin(t, h, trylock)
     \/ Exhausted(t, h, trylock)

\* Mutant: the name is not looked up again after the wait.
RetryBlind(t) ==
  /\ at[t] = "usleep" /\ UNCHANGED <<name, try>>
  /\ free_list # << >>
  /\ LET f == Head(free_list)
     IN  /\ list' = <<f>> \o list /\ free_list' = Tail(free_list)
         /\ hash' = [hash EXCEPT ![f] = name[t]]
         /\ references' = [references EXCEPT ![f] = 1]
         /\ ff' = [ff EXCEPT ![t] = f]
  /\ Goto(t, "down") /\ UNCHANGED lock

\* get_filelock and fio_hash_get after the wait: the name may be in the list by
\* now, and the free lock just taken is then put back in its place.
Retry(t) ==
  /\ at[t] = "usleep" /\ UNCHANGED <<name, try>>
  /\ free_list # << >>
  /\ Found(t, name[t]) \/ Added(t, name[t])

\* fio_sem_down on the lock of the name: fio_lock_file, or a trylock that holds
\* the only reference.
Down(t) ==
  /\ at[t] = (IF try[t] THEN "grab" ELSE "down")
  /\ t \notin lock[ff[t]].asleep
  /\ lock' = [lock EXCEPT ![ff[t]] = SemDown(@, t)]
  /\ IF lock[ff[t]].value > 0 THEN Goto(t, "held") ELSE UNCHANGED at
  /\ UNCHANGED <<list, free_list, hash, references, name, try, ff>>

\* fio_trylock_file: fio_sem_down_trylock.
TryDown(t) ==
  /\ at[t] = "down" /\ try[t]
  /\ IF lock[ff[t]].value > 0
     THEN lock' = [lock EXCEPT ![ff[t]] = SemTake(@, t)] /\ Goto(t, "held")
     ELSE UNCHANGED lock /\ Goto(t, "busy")
  /\ UNCHANGED <<list, free_list, hash, references, name, try, ff>>

\* ... and when it was taken: the last reference grabs it, another gives up.
TryAgain(t) ==
  /\ at[t] = "busy"
  /\ IF references[ff[t]] = 1
     THEN Goto(t, "grab") /\ UNCHANGED <<references, name, try, ff>>
     ELSE Return(t) /\ references' = [references EXCEPT ![ff[t]] = @ - 1]
  /\ UNCHANGED <<list, free_list, hash, lock>>

\* fio_unlock_file looks the lock up by name again.
UnlockFile(t) ==
  /\ at[t] = "held" /\ fio_hash_find(name[t]) # << >>
  /\ LET f == Head(fio_hash_find(name[t]))
     IN  /\ references' = [references EXCEPT ![f] = @ - 1]
         /\ \E s \in SemUp(lock[f]) : lock' = [lock EXCEPT ![f] = s]
         /\ IF references[f] = 1
            THEN list' = Remove(list, f) /\ free_list' = <<f>> \o free_list
            ELSE UNCHANGED <<list, free_list>>
  /\ Return(t) /\ UNCHANGED hash

\* pthread_cond_wait may return without a signal.
SpuriousWake(t) ==
  /\ at[t] \in {"down", "grab"} /\ t \in lock[ff[t]].asleep
  /\ lock' = [lock EXCEPT ![ff[t]] = SemWake(@, t)]
  /\ UNCHANGED <<list, free_list, hash, references, at, name, try, ff>>

Next == \E t \in Flusher :
  \/ \E h \in Hash, trylock \in BOOLEAN : LockFile(t, h, trylock)
  \/ Retry(t) \/ Down(t) \/ TryDown(t) \/ TryAgain(t) \/ UnlockFile(t) \/ SpuriousWake(t)

-----------------------------------------------------------------------------
\* Threads that hold a reference to lock f.
Referring(f) == {t \in Flusher : at[t] \in {"down", "grab", "busy", "held"} /\ ff[t] = f}

Holding(f) == {t \in Flusher : at[t] = "held" /\ ff[t] = f}

\* A log is written by one thread at a time, whatever the pool's size, the
\* lookups by name find the lock that was taken, each lock is on one list,
\* counts its references and no more, and no thread sleeps beside a free lock.
FileLocksExact ==
  /\ \A t, u \in Flusher :
       at[t] = "held" /\ at[u] = "held" /\ name[t] = name[u] => t = u
  /\ \A t \in Flusher : at[t] = "held" => fio_hash_find(name[t]) = <<ff[t]>>
  /\ IsInjective(list \o free_list) /\ ToSet(list \o free_list) = Ff
  /\ \A f \in ToSet(list) : references[f] = Cardinality(Referring(f)) /\ references[f] > 0
  /\ \A f \in Ff : lock[f].value = 1 - Cardinality(Holding(f)) /\ SemNotMissed(lock[f])
=============================================================================
