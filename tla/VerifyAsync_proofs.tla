------------------------ MODULE VerifyAsync_proofs -------------------------
(***************************************************************************)
(* The verify threads of a job keep their invariants for every number of    *)
(* threads, io_us and blocks.                                               *)
(***************************************************************************)
EXTENDS VerifyAsync, QueueLemmas

\* verify_list (place 0) and the batches of the threads as one family.
ListAt == 0 .. VERIFY_ASYNC
Lists == [p \in ListAt |-> IF p = 0 THEN verify_list ELSE batch[p]]
Listed == Members(Lists)

JobPlace == {"create", "loop", "again", "wait", "woken", "next", "submit", "exit", "exit_wait",
             "exit_check", "gone"}
ThreadPlace == {"none", "top", "lock", "wait", "woken", "batch", "put", "count", "counted", "fail",
                "leave", "gone"}

TypeInv ==
  /\ free \subseteq IoU /\ verify_list \in Seq(IoU) /\ blk \in [IoU -> Nat]
  /\ in_depth \subseteq IoU /\ total_err_count \in Nat /\ cur_depth \in Int
  /\ job \in JobPlace /\ idx \in 0 .. VERIFY_ASYNC /\ io \in IoU \cup {NoIoU} /\ todo \in Nat
  /\ pc \in [Thread -> ThreadPlace] /\ batch \in [Thread -> Seq(IoU)]
  /\ hand \in [Thread -> IoU \cup {NoIoU}] /\ verify_ret \in [Thread -> BOOLEAN]
  /\ read \in [Thread -> Nat]

\* Who holds an io_u is told by the place it is at; a thread that is not inside
\* its batch has none, and threads start in order.
LocalInv ==
  /\ io # NoIoU <=> job \in {"next", "submit"}
  /\ \A t \in Thread : hand[t] # NoIoU <=> pc[t] = "put"
  /\ \A t \in Thread : pc[t] \notin {"batch", "put", "count", "counted"} => batch[t] = << >>
  /\ \A t \in Thread : t > idx => pc[t] = "none"

\* Every io_u is somewhere, and no two places share one.
OnceInv ==
  /\ NoRepeat(Lists)
  /\ free \cap Listed = {}
  /\ io \notin free \cup Listed
  /\ \A t \in Thread : hand[t] # NoIoU => hand[t] \notin free \cup Listed \cup {io}
  /\ \A t, u \in Thread : hand[t] = hand[u] /\ hand[t] # NoIoU => t = u
  /\ \A u \in IoU : u \in free \cup Listed \cup {io} \/ \E t \in Thread : hand[t] = u

\* An io_u beyond the job's hands carries no place in cur_depth, unless it was
\* put back unread.
DepthInv ==
  /\ cur_depth = IF io = NoIoU THEN 0 ELSE 1
  /\ io # NoIoU => io \in in_depth
  /\ in_depth \subseteq free \cup {io}

Running == {t \in Thread : pc[t] \notin {"none", "gone"}}

\* nr_verify_threads counts the threads that run.
CountInv ==
  /\ nr_verify_threads = Cardinality(Running)
  /\ job = "gone" => nr_verify_threads = 0

\* A block read back is checked, or some io_u on its way to a thread holds it.
CheckInv ==
  \A b \in Block : b < todo =>
    \/ b \in checked
    \/ \E u \in Listed : b = blk[u]
    \/ job = "submit" /\ b = blk[io]

\* The first refused block is counted, or its thread is about to count it.
FailInv ==
  proceed /\ bad # {} =>
    \/ total_err_count >= 1
    \/ \E t \in Thread : (pc[t] = "put" /\ verify_ret[t]) \/ pc[t] \in {"count", "counted"}

\* The inductive invariant.
VerifyInv ==
  TypeInv /\ LocalInv /\ OnceInv /\ DepthInv /\ CountInv /\ CheckInv /\ FailInv /\ SignalsKept

-----------------------------------------------------------------------------
(* The family of lists.                                                     *)

\* All of queue s moves to queue t.
Splice(q, s, t) == [q EXCEPT ![t] = q[s], ![s] = << >>]

\* Into an empty queue, that keeps every value and repeats none.
LEMMA SpliceProps ==
  ASSUME NEW P, NEW E, NEW q, Family(P, E, q), NEW s \in P, NEW t \in P, s # t, q[t] = << >>
  PROVE  Family(P, E, Splice(q, s, t)) /\ Members(Splice(q, s, t)) = Members(q)
<1> DEFINE r == Splice(q, s, t)
<1>1. /\ q \in [P -> Seq(E)] /\ NoRepeat(q) /\ DOMAIN q = P
  BY DEF Family
<1>2. /\ r \in [P -> Seq(E)] /\ DOMAIN r = P /\ r[t] = q[s] /\ r[s] = q[t]
      /\ \A p \in P : p # s /\ p # t => r[p] = q[p]
  BY <1>1 DEF Splice
<1> HIDE DEF r
<1> DEFINE back(p) == IF p = s THEN t ELSE IF p = t THEN s ELSE p
<1>3. \A p \in P : back(p) \in P /\ r[p] = q[back(p)]
  BY <1>2
<1>4. \A x, y \in P : back(x) = back(y) => x = y
  OBVIOUS
<1>5. NoRepeat(r)
  <2> SUFFICES ASSUME NEW x \in P, NEW y \in P, NEW k \in 1 .. Len(r[x]), NEW l \in 1 .. Len(r[y]),
                      r[x][k] = r[y][l]
               PROVE  x = y /\ k = l
    BY <1>2 DEF NoRepeat
  <2>1. back(x) \in P /\ back(y) \in P /\ r[x] = q[back(x)] /\ r[y] = q[back(y)]
    BY <1>3
  <2> HIDE DEF back
  <2>2. back(x) = back(y) /\ k = l
    BY <1>1, <2>1 DEF NoRepeat
  <2> QED BY <1>4, <2>2
<1>6. \A x : x \in Members(r) <=> x \in Members(q)
  <2>1. \A x : x \in Members(q) <=> \E p \in P : x \in Range(q[p])
    BY <1>1, InMembers, Zenon
  <2>2. \A x : x \in Members(r) <=> \E p \in P : x \in Range(r[p])
    BY <1>2, InMembers, Zenon
  <2>3. \A p \in P : \E o \in P : r[o] = q[p]
    BY <1>2
  <2> QED BY <1>3, <2>1, <2>2, <2>3
<1>7. Members(r) = Members(q)
  BY <1>6
<1> QED BY <1>2, <1>5, <1>7 DEF Family, r

LEMMA ListsAreFamily ==
  ASSUME TypeInv, OnceInv
  PROVE  /\ Family(ListAt, IoU, Lists) /\ Listed \subseteq IoU
         /\ 0 \in ListAt /\ Lists[0] = verify_list
         /\ \A t \in Thread : t \in ListAt /\ t # 0 /\ Lists[t] = batch[t]
<1>1. 0 \in ListAt /\ \A t \in Thread : t \in ListAt /\ t # 0
  BY VerifyAssumption DEF ListAt, Thread
<1>2. \A p \in ListAt : p # 0 => p \in Thread
  BY VerifyAssumption DEF ListAt, Thread
<1>3. Lists \in [ListAt -> Seq(IoU)]
  BY <1>1, <1>2 DEF Lists, TypeInv
<1>4. Listed \subseteq IoU
  <2>1. \A p \in ListAt : Range(Lists[p]) \subseteq IoU
    BY <1>3, RangeIsIndexed
  <2> QED BY <1>3, <2>1, InMembers DEF Listed
<1> QED BY <1>1, <1>3, <1>4 DEF Family, OnceInv, Lists

LEMMA ListsSame ==
  ASSUME UNCHANGED <<verify_list, batch>>
  PROVE  Lists' = Lists /\ Listed' = Listed
BY DEF Lists, Listed

-----------------------------------------------------------------------------
(* Types, and what the places say.                                          *)


LEMMA TypeJob ==
  ASSUME TypeInv, LocalInv, JobStep \/ SpuriousWakeup
  PROVE  TypeInv'
<1> USE VerifyAssumption DEF TypeInv, options, counts, lists, exiting, locals, seen, jobVars, JobAt
<1>1. CASE CreateThread
  <2>1. idx + 1 \in Thread /\ idx + 1 \in 0 .. VERIFY_ASYNC
    BY <1>1 DEF CreateThread, Thread
  <2> QED BY <1>1, <2>1 DEF CreateThread, ThreadPlace
<1>2. CASE CreateDone \/ LoopTest \/ ExitCheck
  BY <1>2 DEF CreateDone, LoopTest, ExitCheck, JobPlace
<1>3. CASE CreateFails \/ Exit
  BY <1>3 DEF CreateFails, Exit, Broadcast, JobPlace, ThreadPlace
<1>4. CASE GetIoU \/ GetWoken
  BY <1>4 DEF GetIoU, GetWoken, TakeOrWait, JobPlace
<1>5. CASE NextVerify
  BY <1>5 DEF NextVerify, LocalInv, JobPlace, Block
<1>6. CASE NoNextVerify
  BY <1>6 DEF NoNextVerify, PutIoU, LocalInv, JobPlace
<1>7. CASE Submit
  <2>1. io \in IoU
    BY <1>7 DEF Submit, LocalInv
  <2>2. pc' \in [Thread -> ThreadPlace]
    BY <1>7 DEF Submit, SignalVerify, ThreadPlace
  <2> QED BY <1>7, <2>1, <2>2 DEF Submit, JobPlace
<1>8. CASE SpuriousWakeup
  BY <1>8 DEF SpuriousWakeup, SignalFree, ThreadGoto, JobPlace, ThreadPlace
<1> QED BY <1>1, <1>2, <1>3, <1>4, <1>5, <1>6, <1>7, <1>8 DEF JobStep

LEMMA TypeThread ==
  ASSUME TypeInv, LocalInv, NEW t \in Thread, ThreadStep(t)
  PROVE  TypeInv'
<1> USE DEF TypeInv, options, counts, lists, exiting, locals, seen, jobVars, ThreadGoto
<1>1. CASE ThreadTop(t) \/ ThreadWait(t) \/ BatchEnd(t) \/ ThreadFail(t)
  BY <1>1 DEF ThreadTop, ThreadWait, BatchEnd, ThreadFail, ThreadPlace
<1>2. CASE ThreadSplice(t)
  BY <1>2 DEF ThreadSplice, ThreadPlace
<1>3. CASE ThreadVerify(t)
  <2>1. Head(batch[t]) \in IoU /\ Tail(batch[t]) \in Seq(IoU)
    BY <1>3 DEF ThreadVerify
  <2> QED BY <1>3, <2>1 DEF ThreadVerify, ThreadPlace
<1>4. CASE ThreadPut(t)
  BY <1>4 DEF ThreadPut, PutIoU, SignalFree, LocalInv, ThreadPlace, JobPlace
<1>5. CASE CountRead(t) \/ CountWrite(t)
  <2>1. CASE CountRead(t)
    BY <2>1 DEF CountRead, ThreadPlace
  <2>2. CASE CountWrite(t)
    BY <2>2 DEF CountWrite, ThreadPlace
  <2> QED BY <1>5, <2>1, <2>2
<1>6. CASE ThreadLeave(t)
  BY <1>6 DEF ThreadLeave, SignalFree, ThreadPlace, JobPlace
<1> QED BY <1>1, <1>2, <1>3, <1>4, <1>5, <1>6 DEF ThreadStep

LEMMA LocalJob ==
  ASSUME TypeInv, LocalInv, JobStep \/ SpuriousWakeup
  PROVE  LocalInv'
<1> USE VerifyAssumption DEF LocalInv, TypeInv, options, counts, lists, exiting, locals, seen, jobVars, JobAt
<1>1. CASE CreateThread
  <2>1. idx + 1 \in Thread /\ pc[idx + 1] = "none" /\ idx \in Nat
    BY <1>1 DEF CreateThread, Thread
  <2> QED BY <1>1, <2>1 DEF CreateThread, Thread
<1>2. CASE CreateDone \/ LoopTest \/ ExitCheck
  BY <1>2 DEF CreateDone, LoopTest, ExitCheck
<1>3. CASE CreateFails \/ Exit
  BY <1>3 DEF CreateFails, Exit, Broadcast
<1>4. CASE GetIoU \/ GetWoken
  BY <1>4 DEF GetIoU, GetWoken, TakeOrWait
<1>5. CASE NextVerify
  BY <1>5 DEF NextVerify
<1>6. CASE NoNextVerify
  BY <1>6 DEF NoNextVerify, PutIoU
<1>7. CASE Submit
  <2>1. \A t \in Thread : pc'[t] = pc[t] \/ (pc[t] = "wait" /\ pc'[t] = "woken")
    BY <1>7 DEF Submit, SignalVerify
  <2> QED BY <1>7, <2>1 DEF Submit
<1>8. CASE SpuriousWakeup
  BY <1>8 DEF SpuriousWakeup, SignalFree, ThreadGoto
<1> QED BY <1>1, <1>2, <1>3, <1>4, <1>5, <1>6, <1>7, <1>8 DEF JobStep

LEMMA LocalThread ==
  ASSUME TypeInv, LocalInv, NEW t \in Thread, ThreadStep(t)
  PROVE  LocalInv'
<1> USE VerifyAssumption DEF LocalInv, TypeInv, options, counts, lists, exiting, locals, seen, jobVars, ThreadGoto
<1>1. CASE ThreadTop(t) \/ ThreadWait(t) \/ BatchEnd(t) \/ ThreadFail(t)
  BY <1>1 DEF ThreadTop, ThreadWait, BatchEnd, ThreadFail
<1>2. CASE ThreadSplice(t)
  BY <1>2 DEF ThreadSplice
<1>3. CASE ThreadVerify(t)
  <2>1. Head(batch[t]) \in IoU
    BY <1>3 DEF ThreadVerify
  <2> QED BY <1>3, <2>1 DEF ThreadVerify
<1>4. CASE ThreadPut(t)
  BY <1>4 DEF ThreadPut, PutIoU, SignalFree
<1>5. CASE CountRead(t) \/ CountWrite(t)
  BY <1>5 DEF CountRead, CountWrite
<1>6. CASE ThreadLeave(t)
  BY <1>6 DEF ThreadLeave, SignalFree
<1> QED BY <1>1, <1>2, <1>3, <1>4, <1>5, <1>6 DEF ThreadStep

-----------------------------------------------------------------------------
(* An io_u moves from one place to another.                                 *)

LEMMA OnceSame ==
  ASSUME OnceInv, UNCHANGED <<free, verify_list, io, batch, hand>>
  PROVE  OnceInv'
BY ListsSame DEF OnceInv

\* __get_io_u: from the free list to the job's hands.
LEMMA OnceTake ==
  ASSUME TypeInv, LocalInv, OnceInv, job \notin {"next", "submit"},
         NEW u \in free, free' = free \ {u}, io' = u,
         UNCHANGED <<verify_list, batch, hand>>
  PROVE  OnceInv'
<1>1. io = NoIoU /\ u \in IoU /\ u # NoIoU
  BY VerifyAssumption DEF LocalInv, TypeInv
<1>2. Lists' = Lists /\ Listed' = Listed
  BY ListsSame
<1>3. /\ NoRepeat(Lists') /\ free' \cap Listed' = {} /\ io' \notin free' \cup Listed'
      /\ \A t, s \in Thread : hand'[t] = hand'[s] /\ hand'[t] # NoIoU => t = s
  BY <1>2 DEF OnceInv
<1>4. \A t \in Thread : hand'[t] # NoIoU => hand'[t] \notin free' \cup Listed' \cup {io'}
  BY <1>2 DEF OnceInv
<1>5. \A v \in IoU : v \in free' \cup Listed' \cup {io'} \/ \E t \in Thread : hand'[t] = v
  BY <1>1, <1>2, VerifyAssumption DEF OnceInv
<1> QED BY <1>3, <1>4, <1>5 DEF OnceInv

\* put_io_u by the job.
LEMMA OncePutBack ==
  ASSUME TypeInv, LocalInv, OnceInv, job \in {"next", "submit"},
         free' = free \cup {io}, io' = NoIoU, UNCHANGED <<verify_list, batch, hand>>
  PROVE  OnceInv'
<1>1. io \in IoU /\ io # NoIoU
  BY DEF LocalInv, TypeInv
<1>2. Lists' = Lists /\ Listed' = Listed /\ Listed \subseteq IoU
  BY ListsSame, ListsAreFamily
<1>3. NoIoU \notin free' \cup Listed'
  BY <1>1, <1>2, VerifyAssumption DEF TypeInv
<1> QED BY <1>1, <1>2, <1>3 DEF OnceInv

\* verify_io_u_async: from the job's hands to verify_list.
LEMMA OnceSubmit ==
  ASSUME TypeInv, LocalInv, OnceInv, Submit
  PROVE  OnceInv' /\ Listed' = Listed \cup {io}
<1>1. io \in IoU /\ io # NoIoU
  BY DEF LocalInv, TypeInv, Submit, JobAt
<1>2. /\ Family(ListAt, IoU, Lists) /\ Listed \subseteq IoU /\ 0 \in ListAt /\ Lists[0] = verify_list
  BY ListsAreFamily
<1>3. Lists' = Enqueue(Lists, 0, io)
  BY <1>2 DEF Submit, locals, Lists, Enqueue
<1>4. \A p \in ListAt : io \notin Range(Lists[p])
  BY <1>2, InMembers DEF OnceInv, Listed, Family
<1>5. Enqueued(ListAt, IoU, Lists, 0, io, Lists')
  BY <1>1, <1>2, <1>3, <1>4, EnqueueProps
<1>6. NoRepeat(Lists') /\ Listed' = Listed \cup {io}
  BY <1>5 DEF Enqueued, Family, Listed
<1>7. free' = free /\ io' = NoIoU /\ hand' = hand
  BY DEF Submit, locals
<1>8. NoIoU \notin free' \cup Listed'
  BY <1>1, <1>2, <1>6, <1>7, VerifyAssumption DEF TypeInv
<1> QED BY <1>1, <1>6, <1>7, <1>8 DEF OnceInv

\* The list becomes a thread's batch.
LEMMA OnceSplice ==
  ASSUME TypeInv, LocalInv, OnceInv, NEW t \in Thread, ThreadSplice(t)
  PROVE  OnceInv' /\ Listed' = Listed
<1>1. /\ Family(ListAt, IoU, Lists) /\ 0 \in ListAt /\ Lists[0] = verify_list
      /\ t \in ListAt /\ t # 0 /\ Lists[t] = batch[t]
  BY ListsAreFamily
<1>2. batch[t] = << >>
  BY DEF LocalInv, ThreadSplice
<1>3. Lists' = Splice(Lists, 0, t)
  <2>1. \A p \in ListAt : p # 0 => p \in Thread
    BY VerifyAssumption DEF ListAt, Thread
  <2> QED BY <1>1, <2>1 DEF ThreadSplice, Lists, TypeInv, Splice
<1>4. Family(ListAt, IoU, Lists') /\ Members(Lists') = Members(Lists)
  <2>1. Lists[t] = << >> /\ 0 # t
    BY <1>1, <1>2
  <2> QED BY <1>1, <1>3, <2>1, SpliceProps
<1>5. NoRepeat(Lists') /\ Listed' = Listed
  BY <1>4 DEF Family, Listed
<1> QED BY <1>5 DEF OnceInv, ThreadSplice, jobVars

\* From the batch to the thread's hands.
LEMMA OnceVerify ==
  ASSUME TypeInv, LocalInv, OnceInv, NEW t \in Thread, ThreadVerify(t)
  PROVE  /\ OnceInv' /\ Listed' = Listed \ {Head(batch[t])}
         /\ Head(batch[t]) \in Listed /\ Head(batch[t]) \in IoU
<1> DEFINE u == Head(batch[t])
<1>1. /\ Family(ListAt, IoU, Lists) /\ t \in ListAt /\ t # 0 /\ Lists[t] = batch[t]
      /\ batch[t] # << >>
  BY ListsAreFamily DEF ThreadVerify
<1>2. Lists' = Dequeue(Lists, t)
  <2>1. \A p \in ListAt : p # 0 => p \in Thread
    BY VerifyAssumption DEF ListAt, Thread
  <2> QED BY <1>1, <2>1 DEF ThreadVerify, Lists, TypeInv, Dequeue, lists
<1>3. Dequeued(ListAt, IoU, Lists, t, u, Lists')
  BY <1>1, <1>2, DequeueProps
<1>4. NoRepeat(Lists') /\ Listed' = Listed \ {u} /\ u \in Listed /\ u \in IoU
  BY <1>3 DEF Dequeued, Family, Listed
<1>5. /\ hand[t] = NoIoU /\ u # NoIoU /\ hand'[t] = u
      /\ \A s \in Thread : s # t => hand'[s] = hand[s]
  BY <1>4, VerifyAssumption DEF ThreadVerify, LocalInv, ThreadGoto, TypeInv
<1>6. free' = free /\ io' = io
  BY DEF ThreadVerify, lists, jobVars
<1> HIDE DEF u
<1>7. OnceInv'
  <2>1. /\ NoRepeat(Lists') /\ free' \cap Listed' = {} /\ io' \notin free' \cup Listed'
    BY <1>4, <1>6 DEF OnceInv
  <2>2. /\ u \notin free /\ u # io /\ \A s \in Thread : hand[s] # u
    BY <1>4, <1>5 DEF OnceInv
  <2>3. \A s \in Thread : hand'[s] # NoIoU => hand'[s] \notin free' \cup Listed' \cup {io'}
    BY <1>4, <1>5, <1>6, <2>2 DEF OnceInv
  <2>4. \A s, v \in Thread : hand'[s] = hand'[v] /\ hand'[s] # NoIoU => s = v
    BY <1>5, <2>2 DEF OnceInv
  <2>5. ASSUME NEW v \in IoU
        PROVE  v \in free' \cup Listed' \cup {io'} \/ \E s \in Thread : hand'[s] = v
    <3>1. CASE v = u
      BY <1>5, <3>1
    <3>2. CASE v # u /\ v \in free \cup Listed \cup {io}
      BY <1>4, <1>6, <3>2
    <3>3. CASE \E s \in Thread : hand[s] = v
      BY <1>5, <3>3, VerifyAssumption
    <3> QED BY <3>1, <3>2, <3>3 DEF OnceInv
  <2> QED BY <2>1, <2>3, <2>4, <2>5 DEF OnceInv
<1> QED BY <1>4, <1>7 DEF u

\* put_io_u by a thread.
LEMMA OncePut ==
  ASSUME TypeInv, LocalInv, OnceInv, NEW t \in Thread, ThreadPut(t)
  PROVE  OnceInv' /\ Listed' = Listed
<1>1. /\ hand[t] \in IoU /\ hand[t] # NoIoU /\ hand'[t] = NoIoU
      /\ \A s \in Thread : s # t => hand'[s] = hand[s]
  BY DEF ThreadPut, LocalInv, ThreadGoto, TypeInv
<1>2. free' = free \cup {hand[t]} /\ io' = io
  BY DEF ThreadPut, PutIoU
<1>3. Lists' = Lists /\ Listed' = Listed
  BY ListsSame DEF ThreadPut, PutIoU
<1> QED BY <1>1, <1>2, <1>3 DEF OnceInv

LEMMA OnceJob ==
  ASSUME TypeInv, LocalInv, OnceInv, JobStep \/ SpuriousWakeup
  PROVE  OnceInv'
<1>1. CASE CreateThread \/ CreateDone \/ CreateFails \/ LoopTest \/ NextVerify \/ Exit \/ ExitCheck
           \/ SpuriousWakeup
  BY <1>1, OnceSame DEF CreateThread, CreateDone, CreateFails, LoopTest, NextVerify, Exit, ExitCheck,
     SpuriousWakeup, lists, locals, jobVars
<1>2. CASE GetIoU \/ GetWoken
  BY <1>2, OnceSame, OnceTake DEF GetIoU, GetWoken, TakeOrWait, JobAt, locals
<1>3. CASE NoNextVerify
  BY <1>3, OncePutBack DEF NoNextVerify, PutIoU, JobAt, locals
<1> QED BY <1>1, <1>2, <1>3, OnceSubmit DEF JobStep

LEMMA OnceThread ==
  ASSUME TypeInv, LocalInv, OnceInv, NEW t \in Thread, ThreadStep(t)
  PROVE  OnceInv'
<1>1. CASE \/ ThreadTop(t) \/ ThreadWait(t) \/ BatchEnd(t) \/ ThreadFail(t) \/ ThreadLeave(t)
           \/ CountRead(t) \/ CountWrite(t)
  BY <1>1, OnceSame DEF ThreadTop, ThreadWait, BatchEnd, ThreadFail, ThreadLeave, CountRead, CountWrite,
     lists, locals, jobVars
<1> QED BY <1>1, OnceSplice, OnceVerify, OncePut DEF ThreadStep

-----------------------------------------------------------------------------
(* cur_depth.                                                               *)

LEMMA DepthSame ==
  ASSUME DepthInv, UNCHANGED <<free, in_depth, cur_depth, io>>
  PROVE  DepthInv'
BY DEF DepthInv

LEMMA DepthJob ==
  ASSUME TypeInv, LocalInv, OnceInv, DepthInv, JobStep \/ SpuriousWakeup
  PROVE  DepthInv'
<1>1. CASE CreateThread \/ CreateDone \/ CreateFails \/ LoopTest \/ NextVerify \/ Exit \/ ExitCheck
           \/ SpuriousWakeup
  BY <1>1, DepthSame DEF CreateThread, CreateDone, CreateFails, LoopTest, NextVerify, Exit, ExitCheck,
     SpuriousWakeup, lists, jobVars
<1>2. CASE GetIoU \/ GetWoken
  <2>1. job \notin {"next", "submit"} /\ io = NoIoU
    BY <1>2 DEF GetIoU, GetWoken, JobAt, LocalInv
  <2>2. CASE UNCHANGED <<free, in_depth, cur_depth, io>>
    BY <2>2, DepthSame
  <2>3. ASSUME NEW u \in free, free' = free \ {u}, in_depth' = in_depth \cup {u},
               cur_depth' = cur_depth + 1, io' = u
        PROVE  DepthInv'
    <3>1. u # NoIoU /\ NoIoU \notin in_depth
      BY VerifyAssumption DEF TypeInv
    <3> QED BY <2>1, <2>3, <3>1 DEF DepthInv
  <2> QED BY <1>2, <2>2, <2>3 DEF GetIoU, GetWoken, TakeOrWait
<1>3. CASE NoNextVerify
  <2>1. io # NoIoU /\ io \in in_depth
    BY <1>3 DEF NoNextVerify, LocalInv, DepthInv, JobAt
  <2> QED BY <1>3, <2>1 DEF NoNextVerify, PutIoU, DepthInv
<1>4. CASE Submit
  <2>1. io # NoIoU /\ io \in in_depth
    BY <1>4 DEF Submit, LocalInv, DepthInv, JobAt
  <2> QED BY <1>4, <2>1 DEF Submit, DepthInv
<1> QED BY <1>1, <1>2, <1>3, <1>4 DEF JobStep

\* An io_u in a thread's hands left cur_depth when the job handed it over.
LEMMA DepthThread ==
  ASSUME TypeInv, LocalInv, OnceInv, DepthInv, NEW t \in Thread, ThreadStep(t)
  PROVE  DepthInv'
<1>1. CASE \/ ThreadTop(t) \/ ThreadWait(t) \/ BatchEnd(t) \/ ThreadFail(t) \/ ThreadLeave(t)
           \/ CountRead(t) \/ CountWrite(t) \/ ThreadSplice(t) \/ ThreadVerify(t)
  BY <1>1, DepthSame DEF ThreadTop, ThreadWait, BatchEnd, ThreadFail, ThreadLeave, CountRead, CountWrite,
     ThreadSplice, ThreadVerify, lists, jobVars
<1>2. CASE ThreadPut(t)
  <2>1. hand[t] # NoIoU /\ hand[t] \notin free \cup {io}
    BY <1>2 DEF ThreadPut, ThreadGoto, LocalInv, OnceInv
  <2>2. hand[t] \notin in_depth
    BY <2>1 DEF DepthInv
  <2> QED BY <1>2, <2>2 DEF ThreadPut, PutIoU, DepthInv
<1> QED BY <1>1, <1>2 DEF ThreadStep

-----------------------------------------------------------------------------
(* The threads that run.                                                    *)

LEMMA RunningFinite == IsFiniteSet(Running) /\ Cardinality(Running) \in Nat
<1>1. IsFiniteSet(Thread)
  BY VerifyAssumption, FS_Interval DEF Thread
<1>2. Running \subseteq Thread
  BY DEF Running
<1>3. IsFiniteSet(Running)
  BY <1>1, <1>2, FS_Subset
<1> QED BY <1>3, FS_CardinalityType

LEMMA CountSame ==
  ASSUME CountInv, nr_verify_threads' = nr_verify_threads, job' = "gone" => nr_verify_threads = 0,
         \A t \in Thread : pc'[t] \in {"none", "gone"} <=> pc[t] \in {"none", "gone"}
  PROVE  CountInv'
<1>1. Running' = Running
  BY DEF Running
<1> QED BY <1>1 DEF CountInv

LEMMA CountJob ==
  ASSUME TypeInv, LocalInv, CountInv, JobStep \/ SpuriousWakeup
  PROVE  CountInv'
<1>1. CASE CreateThread
  <2>1. idx + 1 \in Thread /\ pc[idx + 1] = "none"
    BY <1>1, VerifyAssumption DEF CreateThread, LocalInv, TypeInv, Thread
  <2>2. Running' = Running \cup {idx + 1} /\ idx + 1 \notin Running
    BY <1>1, <2>1 DEF CreateThread, Running, TypeInv
  <2>3. Cardinality(Running \cup {idx + 1}) = Cardinality(Running) + 1
    BY <2>2, RunningFinite, FS_AddElement
  <2> QED BY <1>1, <2>2, <2>3 DEF CreateThread, CountInv, JobAt
<1>2. CASE CreateDone \/ LoopTest \/ ExitCheck \/ GetIoU \/ GetWoken \/ NextVerify \/ NoNextVerify
  BY <1>2, CountSame DEF CreateDone, LoopTest, ExitCheck, GetIoU, GetWoken, NextVerify, NoNextVerify,
     TakeOrWait, exiting
<1>3. CASE CreateFails \/ Exit
  BY <1>3, CountSame DEF CreateFails, Exit, Broadcast
<1>4. CASE Submit
  <2>1. \A t \in Thread : pc'[t] = pc[t] \/ (pc[t] = "wait" /\ pc'[t] = "woken")
    BY <1>4 DEF Submit, SignalVerify, TypeInv
  <2> QED BY <1>4, <2>1, CountSame DEF Submit, exiting
<1>5. CASE SpuriousWakeup
  <2>1. \A t \in Thread : pc'[t] = pc[t] \/ (pc[t] = "wait" /\ pc'[t] = "woken")
    BY <1>5 DEF SpuriousWakeup, ThreadGoto, TypeInv
  <2>2. job' = "gone" => job = "gone"
    BY <1>5 DEF SpuriousWakeup, SignalFree, jobVars
  <2>3. nr_verify_threads' = nr_verify_threads
    BY <1>5 DEF SpuriousWakeup, exiting
  <2> QED BY <2>1, <2>2, <2>3, CountSame DEF CountInv
<1> QED BY <1>1, <1>2, <1>3, <1>4, <1>5 DEF JobStep

LEMMA CountThread ==
  ASSUME TypeInv, LocalInv, CountInv, NEW t \in Thread, ThreadStep(t)
  PROVE  CountInv'
<1>0. pc \in [Thread -> ThreadPlace]
  BY DEF TypeInv
<1>1. CASE ThreadTop(t) \/ ThreadWait(t) \/ BatchEnd(t) \/ ThreadFail(t)
  BY <1>0, <1>1, CountSame DEF ThreadTop, ThreadWait, BatchEnd, ThreadFail, ThreadGoto, exiting, jobVars,
     CountInv
<1>2. CASE ThreadSplice(t) \/ ThreadVerify(t) \/ CountRead(t) \/ CountWrite(t)
  BY <1>0, <1>2, CountSame DEF ThreadSplice, ThreadVerify, CountRead, CountWrite, ThreadGoto, exiting,
     jobVars, CountInv
<1>3. CASE ThreadPut(t)
  <2>1. job' = "gone" => job = "gone"
    BY <1>3 DEF ThreadPut, SignalFree
  <2> QED BY <1>0, <1>3, <2>1, CountSame DEF ThreadPut, ThreadGoto, exiting, CountInv
<1>4. CASE ThreadLeave(t)
  <2>1. Running' = Running \ {t} /\ t \in Running
    BY <1>0, <1>4 DEF ThreadLeave, ThreadGoto, Running
  <2>2. Cardinality(Running \ {t}) = Cardinality(Running) - 1 /\ Cardinality(Running) # 0
    BY <2>1, RunningFinite, FS_RemoveElement, FS_EmptySet
  <2>3. job' # "gone"
    BY <1>4, <2>2 DEF ThreadLeave, SignalFree, CountInv
  <2> QED BY <1>4, <2>1, <2>2, <2>3 DEF ThreadLeave, CountInv
<1> QED BY <1>1, <1>2, <1>3, <1>4 DEF ThreadStep

-----------------------------------------------------------------------------
(* The blocks read back.                                                    *)

LEMMA CheckSame ==
  ASSUME CheckInv, UNCHANGED <<todo, blk, checked, io>>, Listed' = Listed,
         job = "submit" => job' = "submit"
  PROVE  CheckInv'
BY DEF CheckInv

LEMMA CheckJob ==
  ASSUME TypeInv, LocalInv, OnceInv, CheckInv, JobStep \/ SpuriousWakeup
  PROVE  CheckInv'
<1>1. CASE CreateThread \/ CreateDone \/ CreateFails \/ LoopTest \/ Exit \/ ExitCheck
  BY <1>1, ListsSame, CheckSame DEF CreateThread, CreateDone, CreateFails, LoopTest, Exit, ExitCheck,
     lists, locals, seen, JobAt
<1>2. CASE GetIoU \/ GetWoken \/ NoNextVerify
  <2>1. job # "submit" /\ UNCHANGED <<todo, blk, checked>> /\ Listed' = Listed
    BY <1>2, ListsSame DEF GetIoU, GetWoken, NoNextVerify, PutIoU, locals, seen, JobAt
  <2> QED BY <2>1 DEF CheckInv
<1>3. CASE NextVerify
  <2>1. /\ io \in IoU /\ job # "submit" /\ job' = "submit" /\ todo' = todo + 1 /\ io' = io
        /\ checked' = checked /\ blk'[io] = todo /\ Listed' = Listed
        /\ \A u \in IoU : u # io => blk'[u] = blk[u]
    BY <1>3, ListsSame DEF NextVerify, JobAt, LocalInv, TypeInv, locals, seen
  <2>2. \A u \in Listed : blk'[u] = blk[u]
    BY <2>1, ListsAreFamily DEF OnceInv
  <2>3. \A b \in Block : b < todo' => b < todo \/ b = todo
    BY <2>1 DEF Block, TypeInv
  <2> QED BY <2>1, <2>2, <2>3 DEF CheckInv
<1>4. CASE Submit
  <2>1. Listed' = Listed \cup {io}
    BY <1>4, OnceSubmit
  <2>2. UNCHANGED <<todo, blk, checked>>
    BY <1>4 DEF Submit, seen
  <2> QED BY <2>1, <2>2 DEF CheckInv
<1>5. CASE SpuriousWakeup
  <2>1. job = "submit" => job' = "submit"
    BY <1>5 DEF SpuriousWakeup, SignalFree, jobVars
  <2> QED BY <1>5, <2>1, ListsSame, CheckSame DEF SpuriousWakeup, lists, locals, seen, jobVars
<1> QED BY <1>1, <1>2, <1>3, <1>4, <1>5 DEF JobStep

LEMMA CheckThread ==
  ASSUME TypeInv, LocalInv, OnceInv, CheckInv, NEW t \in Thread, ThreadStep(t)
  PROVE  CheckInv'
<1>1. CASE \/ ThreadTop(t) \/ ThreadWait(t) \/ BatchEnd(t) \/ ThreadFail(t)
           \/ CountRead(t) \/ CountWrite(t)
  BY <1>1, ListsSame, CheckSame DEF ThreadTop, ThreadWait, BatchEnd, ThreadFail, CountRead, CountWrite,
     lists, locals, seen, jobVars
<1>2. CASE ThreadLeave(t)
  BY <1>2, ListsSame, CheckSame DEF ThreadLeave, SignalFree, lists, locals, seen
<1>3. CASE ThreadSplice(t)
  BY <1>3, OnceSplice, CheckSame DEF ThreadSplice, seen, jobVars
<1>4. CASE ThreadPut(t)
  BY <1>4, OncePut, CheckSame DEF ThreadPut, PutIoU, SignalFree, seen
<1>5. CASE ThreadVerify(t)
  <2>1. Listed' = Listed \ {Head(batch[t])}
    BY <1>5, OnceVerify
  <2>2. checked' = checked \cup {blk[Head(batch[t])]} /\ UNCHANGED <<todo, blk, io, job>>
    BY <1>5 DEF ThreadVerify, lists, jobVars
  <2> QED BY <2>1, <2>2 DEF CheckInv
<1> QED BY <1>1, <1>2, <1>3, <1>4, <1>5 DEF ThreadStep

-----------------------------------------------------------------------------
(* The error count.                                                         *)

Counting(t) == (pc[t] = "put" /\ verify_ret[t]) \/ pc[t] \in {"count", "counted"}

LEMMA FailSame ==
  ASSUME FailInv, UNCHANGED <<proceed, bad, total_err_count>>,
         proceed => \A t \in Thread : Counting(t) => Counting(t)'
  PROVE  FailInv'
BY DEF FailInv, Counting

LEMMA FailJob ==
  ASSUME TypeInv, LocalInv, FailInv, JobStep \/ SpuriousWakeup
  PROVE  FailInv'
<1>1. UNCHANGED <<proceed, bad, total_err_count, verify_ret>>
  BY DEF JobStep, SpuriousWakeup, CreateThread, CreateDone, CreateFails, LoopTest, Exit, ExitCheck,
     GetIoU, GetWoken, NextVerify, NoNextVerify, Submit, options, counts, locals, seen
<1>2. \A t \in Thread : pc'[t] = pc[t] \/ pc[t] \in {"wait", "none"}
  <2>1. CASE CreateThread
    <3>1. idx + 1 \in Thread /\ pc[idx + 1] = "none"
      BY <2>1, VerifyAssumption DEF CreateThread, LocalInv, TypeInv, Thread
    <3> QED BY <2>1, <3>1 DEF CreateThread, TypeInv
  <2>2. CASE CreateFails \/ Exit
    BY <2>2 DEF CreateFails, Exit, Broadcast
  <2>3. CASE Submit \/ SpuriousWakeup
    BY <2>3 DEF Submit, SpuriousWakeup, SignalVerify, ThreadGoto, TypeInv
  <2>4. CASE UNCHANGED pc
    BY <2>4
  <2> QED BY <2>1, <2>2, <2>3, <2>4 DEF JobStep, CreateDone, LoopTest, ExitCheck, GetIoU, GetWoken,
          NextVerify, NoNextVerify
<1>3. \A t \in Thread : Counting(t) => Counting(t)'
  BY <1>1, <1>2 DEF Counting
<1> QED BY <1>1, <1>3, FailSame

LEMMA FailThread ==
  ASSUME TypeInv, LocalInv, FailInv, NEW t \in Thread, ThreadStep(t)
  PROVE  FailInv'
<1>0. pc \in [Thread -> ThreadPlace] /\ verify_ret \in [Thread -> BOOLEAN] /\ read[t] \in Nat
  BY DEF TypeInv
<1>1. CASE ThreadTop(t) \/ ThreadWait(t) \/ BatchEnd(t) \/ ThreadFail(t) \/ ThreadLeave(t)
  BY <1>0, <1>1, FailSame DEF ThreadTop, ThreadWait, BatchEnd, ThreadFail, ThreadLeave, ThreadGoto,
     Counting, options, counts, locals, seen
<1>2. CASE ThreadSplice(t) \/ CountRead(t)
  BY <1>0, <1>2, FailSame DEF ThreadSplice, CountRead, ThreadGoto, Counting, options, counts, seen
<1>3. CASE ThreadPut(t)
  BY <1>0, <1>3, FailSame DEF ThreadPut, ThreadGoto, Counting, options, counts, seen
<1>4. CASE CountWrite(t)
  BY <1>0, <1>4 DEF CountWrite, FailInv
<1>5. CASE ThreadVerify(t)
  <2>1. /\ pc[t] = "batch" /\ pc'[t] = "put" /\ UNCHANGED <<proceed, total_err_count>>
        /\ \A s \in Thread : s # t => pc'[s] = pc[s] /\ verify_ret'[s] = verify_ret[s]
        /\ bad' = bad \/ verify_ret'[t]
    BY <1>0, <1>5 DEF ThreadVerify, ThreadGoto, options
  <2>2. CASE verify_ret'[t]
    BY <2>1, <2>2 DEF FailInv
  <2>3. CASE bad' = bad
    BY <2>1, <2>3, FailSame DEF Counting
  <2> QED BY <2>1, <2>2, <2>3
<1> QED BY <1>1, <1>2, <1>3, <1>4, <1>5 DEF ThreadStep

-----------------------------------------------------------------------------
(* The condition variables.                                                 *)

LEMMA FreeStep ==
  ASSUME TypeInv, FreeNotMissed, JobStep \/ SpuriousWakeup \/ \E t \in Thread : ThreadStep(t)
  PROVE  FreeNotMissed'
<1>1. CASE JobStep
  BY <1>1 DEF JobStep, CreateThread, CreateDone, CreateFails, LoopTest, Exit, ExitCheck,
     GetIoU, GetWoken, TakeOrWait, NextVerify, NoNextVerify, Submit, JobAt, FreeNotMissed
<1>2. CASE SpuriousWakeup
  BY <1>2 DEF SpuriousWakeup, SignalFree, lists, jobVars, FreeNotMissed
<1>3. ASSUME NEW t \in Thread, ThreadPut(t) \/ ThreadLeave(t) PROVE FreeNotMissed'
  BY <1>3 DEF ThreadPut, ThreadLeave, SignalFree, FreeNotMissed
<1>4. ASSUME NEW t \in Thread, ThreadStep(t), ~ThreadPut(t), ~ThreadLeave(t) PROVE FreeNotMissed'
  BY <1>4 DEF ThreadStep, ThreadTop, ThreadWait, ThreadSplice, ThreadVerify, CountRead, CountWrite,
     BatchEnd, ThreadFail, lists, jobVars, FreeNotMissed
<1> QED BY <1>1, <1>2, <1>3, <1>4

LEMMA WorkJob ==
  ASSUME TypeInv, LocalInv, WorkNotMissed, JobStep \/ SpuriousWakeup
  PROVE  WorkNotMissed'
<1>0. pc \in [Thread -> ThreadPlace]
  BY DEF TypeInv
<1>1. CASE CreateThread
  <2>1. idx + 1 \in Thread /\ pc[idx + 1] = "none"
    BY <1>1, VerifyAssumption DEF CreateThread, LocalInv, TypeInv, Thread
  <2> QED BY <1>0, <1>1, <2>1 DEF CreateThread, WorkNotMissed, lists
<1>2. CASE CreateFails \/ Exit
  BY <1>2 DEF CreateFails, Exit, Broadcast, WorkNotMissed
<1>3. CASE Submit
  BY <1>0, <1>3 DEF Submit, SignalVerify, WorkNotMissed
<1>4. CASE SpuriousWakeup
  BY <1>0, <1>4 DEF SpuriousWakeup, ThreadGoto, WorkNotMissed, lists
<1>5. CASE UNCHANGED <<verify_list, pc>>
  BY <1>5 DEF WorkNotMissed
<1> QED BY <1>1, <1>2, <1>3, <1>4, <1>5 DEF JobStep, CreateDone, LoopTest, ExitCheck, GetIoU, GetWoken,
        NextVerify, NoNextVerify, PutIoU, lists

LEMMA WorkThread ==
  ASSUME TypeInv, WorkNotMissed, NEW t \in Thread, ThreadStep(t)
  PROVE  WorkNotMissed'
<1>0. pc \in [Thread -> ThreadPlace]
  BY DEF TypeInv
<1>1. CASE ThreadWait(t) \/ ThreadSplice(t)
  BY <1>1 DEF ThreadWait, ThreadSplice, WorkNotMissed, lists
<1>2. ASSUME ~ThreadWait(t), ~ThreadSplice(t)
      PROVE  /\ verify_list' = verify_list /\ pc'[t] # "wait" /\ pc[t] # "woken"
             /\ \A s \in Thread : s # t => pc'[s] = pc[s]
  BY <1>0, <1>2 DEF ThreadStep, ThreadTop, ThreadVerify, ThreadPut, PutIoU, CountRead, CountWrite,
     BatchEnd, ThreadFail, ThreadLeave, ThreadGoto, lists
<1> QED BY <1>1, <1>2 DEF WorkNotMissed

-----------------------------------------------------------------------------
(* Every io_u is counted once.                                              *)

LEMMA DisjointSize ==
  ASSUME NEW S, NEW T, IsFiniteSet(S), IsFiniteSet(T), S \cap T = {}
  PROVE  IsFiniteSet(S \cup T) /\ Cardinality(S \cup T) = Cardinality(S) + Cardinality(T)
<1>1. /\ IsFiniteSet(S \cup T)
      /\ Cardinality(S \cup T) = Cardinality(S) + Cardinality(T) - Cardinality(S \cap T)
  BY FS_Union
<1>2. Cardinality(S \cap T) = 0 /\ Cardinality(S) \in Nat /\ Cardinality(T) \in Nat
  BY FS_EmptySet, FS_CardinalityType
<1> QED BY <1>1, <1>2

Batched == UNION {Range(batch[t]) : t \in Thread}
Handed == {hand[t] : t \in Thread} \ {NoIoU}
BatchPlaces == {p \in Thread \X (1 .. Cardinality(IoU)) : p[2] <= Len(batch[p[1]])}
HandPlaces == {t \in Thread : hand[t] # NoIoU}

LEMMA ElementsAreRange ==
  ASSUME NEW q \in Seq(IoU)
  PROVE  Elements(q) = Range(q)
<1>1. \A e : e \in Range(q) <=> \E k \in 1 .. Len(q) : q[k] = e
  BY RangeIsIndexed
<1> QED BY <1>1 DEF Elements

LEMMA ListedParts ==
  ASSUME TypeInv, OnceInv
  PROVE  /\ Listed = Range(verify_list) \cup Batched
         /\ Range(verify_list) \cap Batched = {}
<1>1. /\ Lists \in [ListAt -> Seq(IoU)] /\ NoRepeat(Lists) /\ 0 \in ListAt /\ Lists[0] = verify_list
      /\ \A t \in Thread : t \in ListAt /\ t # 0 /\ Lists[t] = batch[t]
  BY ListsAreFamily DEF Family
<1>2. \A p \in ListAt : p # 0 => p \in Thread
  BY VerifyAssumption DEF ListAt, Thread
<1>3. \A x : x \in Listed <=> \E p \in ListAt : x \in Range(Lists[p])
  BY <1>1, InMembers DEF Listed
<1>4. \A x : x \in Batched <=> \E t \in Thread : x \in Range(batch[t])
  BY DEF Batched
<1>5. \A x : x \in Listed <=> x \in Range(verify_list) \cup Batched
  BY <1>1, <1>2, <1>3, <1>4
<1>6. ASSUME NEW x \in Range(verify_list), NEW t \in Thread, x \in Range(batch[t])
      PROVE  FALSE
  <2>1. Lists[0] \in Seq(IoU) /\ Lists[t] \in Seq(IoU)
    BY <1>1
  <2>2. \E k \in 1 .. Len(Lists[0]) : Lists[0][k] = x
    BY <1>1, <1>6, <2>1, RangeIsIndexed
  <2>3. \E l \in 1 .. Len(Lists[t]) : Lists[t][l] = x
    BY <1>1, <1>6, <2>1, RangeIsIndexed
  <2> QED BY <1>1, <2>2, <2>3 DEF NoRepeat
<1> QED BY <1>4, <1>5, <1>6

\* A place in a batch for each io_u in a batch.
LEMMA BatchPlacesCount ==
  ASSUME TypeInv, OnceInv
  PROVE  IsFiniteSet(Batched) /\ Cardinality(BatchPlaces) = Cardinality(Batched)
<1>1. /\ Lists \in [ListAt -> Seq(IoU)] /\ NoRepeat(Lists) /\ DOMAIN Lists = ListAt
      /\ Listed \subseteq IoU
      /\ \A t \in Thread : t \in ListAt /\ Lists[t] = batch[t]
  BY ListsAreFamily DEF Family
<1>2. IsFiniteSet(Batched) /\ Batched \subseteq IoU
  BY <1>1, ListedParts, FS_Subset, VerifyAssumption
<1>3. \A t, s \in Thread : \A k \in 1 .. Len(batch[t]), l \in 1 .. Len(batch[s]) :
        batch[t][k] = batch[s][l] => t = s /\ k = l
  BY <1>1 DEF NoRepeat
<1>4. ASSUME NEW t \in Thread PROVE Len(batch[t]) \in Nat /\ Len(batch[t]) <= Cardinality(IoU)
  <2>0. batch[t] \in Seq(IoU) /\ DOMAIN batch[t] = 1 .. Len(batch[t])
    BY DEF TypeInv
  <2>1. batch[t] \in Seq(IoU) /\ Distinct(batch[t])
    BY <1>3, <2>0, Zenon DEF Distinct
  <2>2. Cardinality(Range(batch[t])) = Len(batch[t]) /\ Range(batch[t]) \subseteq IoU
    BY <2>1, DistinctSize, RangeIsIndexed
  <2>3. Cardinality(Range(batch[t])) <= Cardinality(IoU)
    BY <2>2, FS_Subset, VerifyAssumption
  <2> QED BY <2>1, <2>2, <2>3
<1>5. Cardinality(IoU) \in Nat
  BY FS_CardinalityType, VerifyAssumption
<1> DEFINE f == [p \in BatchPlaces |-> batch[p[1]][p[2]]]
<1>6. \A p \in BatchPlaces : p[1] \in Thread /\ p[2] \in 1 .. Len(batch[p[1]]) /\ p = <<p[1], p[2]>>
  BY <1>4, <1>5 DEF BatchPlaces
<1>7. \A t \in Thread : \A k \in 1 .. Len(batch[t]) : <<t, k>> \in BatchPlaces
  BY <1>4, <1>5 DEF BatchPlaces
<1>8. \A t \in Thread : \A e : e \in Range(batch[t]) <=> \E k \in 1 .. Len(batch[t]) : batch[t][k] = e
  BY RangeIsIndexed DEF TypeInv
<1>9. \A e : e \in Batched <=> \E t \in Thread : e \in Range(batch[t])
  BY DEF Batched
<1>10. f \in [BatchPlaces -> Batched]
  BY <1>6, <1>8, <1>9
<1>11. f \in Injection(BatchPlaces, Batched)
  <2>1. ASSUME NEW p \in BatchPlaces, NEW o \in BatchPlaces, f[p] = f[o] PROVE p = o
    <3>1. p[1] = o[1] /\ p[2] = o[2]
      BY <1>3, <1>6, <2>1
    <3> QED BY <1>6, <3>1
  <2> QED BY <1>10, <2>1 DEF Injection, IsInjective
<1>12. \A e \in Batched : \E p \in BatchPlaces : f[p] = e
  <2> SUFFICES ASSUME NEW e \in Batched PROVE \E p \in BatchPlaces : f[p] = e
    OBVIOUS
  <2>1. PICK t \in Thread : e \in Range(batch[t])
    BY <1>9
  <2>2. PICK k \in 1 .. Len(batch[t]) : batch[t][k] = e
    BY <1>8, <2>1
  <2>3. <<t, k>> \in BatchPlaces /\ f[<<t, k>>] = e
    BY <1>7, <2>2
  <2> QED BY <2>3
<1> HIDE DEF f
<1>13. f \in Bijection(BatchPlaces, Batched)
  BY <1>10, <1>11, <1>12 DEF Bijection, Surjection
<1>14. IsFiniteSet(BatchPlaces)
  BY <1>2, <1>11, FS_Injection
<1> QED BY <1>2, <1>13, <1>14, FS_Bijection DEF ExistsBijection

\* A thread for each io_u in the hands of one.
LEMMA HandPlacesCount ==
  ASSUME TypeInv, OnceInv
  PROVE  IsFiniteSet(Handed) /\ Cardinality(HandPlaces) = Cardinality(Handed)
<1>1. Handed \subseteq IoU
  BY DEF TypeInv, Handed
<1>2. IsFiniteSet(Handed)
  BY <1>1, FS_Subset, VerifyAssumption
<1> DEFINE f == [t \in HandPlaces |-> hand[t]]
<1>3. f \in [HandPlaces -> Handed]
  BY DEF HandPlaces, Handed
<1>4. f \in Injection(HandPlaces, Handed)
  BY <1>3 DEF Injection, IsInjective, OnceInv, HandPlaces
<1>5. \A e \in Handed : \E t \in HandPlaces : f[t] = e
  BY DEF Handed, HandPlaces
<1> HIDE DEF f
<1>6. f \in Bijection(HandPlaces, Handed)
  BY <1>3, <1>4, <1>5 DEF Bijection, Surjection
<1>7. IsFiniteSet(HandPlaces)
  BY <1>2, <1>4, FS_Injection
<1> QED BY <1>2, <1>6, <1>7, FS_Bijection DEF ExistsBijection

LEMMA OnceMeansCounted ==
  ASSUME TypeInv, OnceInv
  PROVE  EachIoUOnce
<1>1. /\ Listed \subseteq IoU /\ Listed = Range(verify_list) \cup Batched
      /\ Range(verify_list) \cap Batched = {}
  BY ListsAreFamily, ListedParts
<1>2. JobHolds \subseteq IoU /\ Handed \subseteq IoU /\ free \subseteq IoU /\ NoIoU \notin IoU
  BY VerifyAssumption DEF TypeInv, JobHolds, Handed
<1>3. Elements(verify_list) = Range(verify_list)
  BY ElementsAreRange DEF TypeInv
<1>4. UNION {ThreadHolds(t) : t \in Thread} = Batched \cup Handed
  <2>1. \A t \in Thread : ThreadHolds(t) = Range(batch[t]) \cup ({hand[t]} \ {NoIoU})
    BY ElementsAreRange DEF TypeInv, ThreadHolds
  <2> QED BY <2>1 DEF Batched, Handed
<1>5. IoU = free \cup JobHolds \cup Range(verify_list) \cup Batched \cup Handed
  <2>1. ASSUME NEW u \in IoU
        PROVE  u \in free \cup JobHolds \cup Range(verify_list) \cup Batched \cup Handed
    BY <1>1, <1>2 DEF OnceInv, JobHolds, Handed
  <2> QED BY <1>1, <1>2, <2>1
<1>6. /\ free \cap JobHolds = {}
      /\ (free \cup JobHolds) \cap Range(verify_list) = {}
      /\ (free \cup JobHolds \cup Range(verify_list)) \cap Batched = {}
      /\ (free \cup JobHolds \cup Range(verify_list) \cup Batched) \cap Handed = {}
  <2>1. free \cap JobHolds = {} /\ (free \cup JobHolds) \cap Listed = {}
    BY DEF OnceInv, JobHolds
  <2>2. (free \cup JobHolds \cup Listed) \cap Handed = {}
    BY DEF OnceInv, JobHolds, Handed
  <2> QED BY <1>1, <2>1, <2>2
<1>7. /\ IsFiniteSet(free) /\ IsFiniteSet(JobHolds) /\ IsFiniteSet(Range(verify_list))
      /\ IsFiniteSet(Batched) /\ IsFiniteSet(Handed)
  BY <1>1, <1>2, FS_Subset, VerifyAssumption
<1>8. Cardinality(Range(verify_list)) = Len(verify_list)
  <2>1. Lists[0] = verify_list /\ 0 \in ListAt /\ DOMAIN Lists = ListAt /\ NoRepeat(Lists)
    BY ListsAreFamily DEF Family
  <2>2. verify_list \in Seq(IoU) /\ DOMAIN verify_list = 1 .. Len(verify_list)
    BY DEF TypeInv
  <2>3. \A k, l \in 1 .. Len(verify_list) : verify_list[k] = verify_list[l] => k = l
    BY <2>1 DEF NoRepeat
  <2>4. Distinct(verify_list)
    BY <2>2, <2>3, Zenon DEF Distinct
  <2> QED BY <2>2, <2>4, DistinctSize
<1> DEFINE A == free \cup JobHolds
           B == A \cup Range(verify_list)
           C == B \cup Batched
<1>9. IsFiniteSet(A) /\ Cardinality(A) = Cardinality(free) + Cardinality(JobHolds)
  BY <1>6, <1>7, DisjointSize
<1>10. IsFiniteSet(B) /\ Cardinality(B) = Cardinality(A) + Len(verify_list)
  BY <1>6, <1>7, <1>8, <1>9, DisjointSize
<1>11. IsFiniteSet(C) /\ Cardinality(C) = Cardinality(B) + Cardinality(Batched)
  BY <1>6, <1>7, <1>10, DisjointSize
<1>12. Cardinality(C \cup Handed) = Cardinality(C) + Cardinality(Handed)
  BY <1>6, <1>7, <1>11, DisjointSize
<1>13. IoU = C \cup Handed
  BY <1>5
<1> HIDE DEF A, B, C
<1>14. Cardinality(IoU) = Cardinality(free) + Cardinality(JobHolds) + Len(verify_list)
                          + Cardinality(BatchPlaces) + Cardinality(HandPlaces)
  BY <1>9, <1>10, <1>11, <1>12, <1>13, BatchPlacesCount, HandPlacesCount
<1>15. IoU = free \cup JobHolds \cup Elements(verify_list) \cup UNION {ThreadHolds(t) : t \in Thread}
  BY <1>3, <1>4, <1>5
<1> QED BY <1>14, <1>15 DEF EachIoUOnce, BatchPlaces, HandPlaces

-----------------------------------------------------------------------------
(* Results.                                                                 *)

LEMMA VerifyInvInit == VerifyInit => VerifyInv
<1> SUFFICES ASSUME VerifyInit PROVE VerifyInv
  OBVIOUS
<1>1. TypeInv
  BY VerifyAssumption DEF VerifyInit, TypeInv, JobPlace, ThreadPlace
<1>2. LocalInv
  BY DEF VerifyInit, LocalInv
<1>3. Lists \in [ListAt -> Seq(IoU)] /\ \A p \in ListAt : Lists[p] = << >>
  <2>1. \A p \in ListAt : p # 0 => p \in Thread
    BY VerifyAssumption DEF ListAt, Thread
  <2> QED BY <2>1 DEF VerifyInit, Lists
<1>4. NoRepeat(Lists)
  BY <1>3 DEF NoRepeat
<1>5. Listed = {}
  <2>1. \A p \in ListAt : Range(Lists[p]) = {}
    BY <1>3 DEF Range
  <2> QED BY <1>3, <2>1, InMembers DEF Listed
<1>6. OnceInv
  BY <1>4, <1>5, VerifyAssumption DEF VerifyInit, OnceInv
<1>7. DepthInv
  BY DEF VerifyInit, DepthInv
<1>8. CountInv
  <2>1. Running = {}
    BY DEF VerifyInit, Running
  <2> QED BY <2>1, FS_EmptySet DEF VerifyInit, CountInv
<1>9. CheckInv /\ FailInv /\ SignalsKept
  BY DEF VerifyInit, CheckInv, FailInv, SignalsKept, FreeNotMissed, WorkNotMissed, Block
<1> QED BY <1>1, <1>2, <1>6, <1>7, <1>8, <1>9 DEF VerifyInv

LEMMA VerifyInvStep ==
  ASSUME VerifyInv, [VerifyNext]_verifyVars
  PROVE  VerifyInv'
<1> USE DEF VerifyInv, SignalsKept
<1>1. CASE JobStep \/ SpuriousWakeup
  BY <1>1, TypeJob, LocalJob, OnceJob, DepthJob, CountJob, CheckJob, FailJob, FreeStep, WorkJob
<1>2. ASSUME NEW t \in Thread, ThreadStep(t) PROVE VerifyInv'
  BY <1>2, TypeThread, LocalThread, OnceThread, DepthThread, CountThread, CheckThread, FailThread,
     FreeStep, WorkThread
<1>3. CASE UNCHANGED verifyVars
  <2>1. /\ UNCHANGED <<free, verify_list, blk, in_depth, cur_depth>>
        /\ UNCHANGED <<job, idx, io, todo, pc, batch, hand, verify_ret, read, checked, bad>>
        /\ UNCHANGED <<proceed, total_err_count, nr_verify_threads>>
    BY <1>3 DEF verifyVars, options, counts, lists, exiting, jobVars, locals, seen
  <2>2. Lists' = Lists /\ Listed' = Listed
    BY <2>1, ListsSame
  <2>3. TypeInv' /\ LocalInv' /\ DepthInv'
    BY <2>1 DEF TypeInv, LocalInv, DepthInv
  <2>4. OnceInv'
    BY <2>1, OnceSame
  <2>5. CountInv' /\ FailInv'
    BY <2>1 DEF CountInv, Running, FailInv
  <2>6. CheckInv'
    BY <2>1, <2>2, CheckSame
  <2>7. FreeNotMissed' /\ WorkNotMissed'
    BY <2>1 DEF FreeNotMissed, WorkNotMissed
  <2> QED BY <2>3, <2>4, <2>5, <2>6, <2>7
<1> QED BY <1>1, <1>2, <1>3 DEF VerifyNext

LEMMA VerifyInvariance == VerifySpec => []VerifyInv
<1>1. VerifyInv /\ [VerifyNext]_verifyVars => VerifyInv'
  BY VerifyInvStep
<1> QED BY <1>1, VerifyInvInit, PTL DEF VerifySpec

\* An io_u is in exactly one place and cur_depth counts those in the job's
\* hands, whatever the threads do with theirs.
THEOREM VerifyConservesIoUs == VerifySpec => []IoUsConserved
<1>1. ASSUME VerifyInv PROVE IoUsConserved
  <2>1. EachIoUOnce
    BY <1>1, OnceMeansCounted DEF VerifyInv
  <2>2. Cardinality(JobHolds) = IF io = NoIoU THEN 0 ELSE 1
    <3>1. CASE io = NoIoU
      <4>1. JobHolds = {}
        BY <3>1 DEF JobHolds
      <4> QED BY <3>1, <4>1, FS_EmptySet
    <3>2. CASE io # NoIoU
      <4>1. JobHolds = {io}
        BY <3>2 DEF JobHolds
      <4> QED BY <3>2, <4>1, FS_Singleton
    <3> QED BY <3>1, <3>2
  <2> QED BY <1>1, <2>1, <2>2 DEF IoUsConserved, DepthExact, VerifyInv, DepthInv
<1>2. VerifyInv => IoUsConserved
  BY <1>1
<1> QED BY <1>2, VerifyInvariance, PTL

\* No signal between the job and the verify threads is lost: put_io_u wakes a job
\* that waits for an io_u, verify_io_u_async a thread that waits for a block.
THEOREM VerifyKeepsSignals == VerifySpec => []SignalsKept
<1>1. VerifyInv => SignalsKept
  BY DEF VerifyInv
<1> QED BY <1>1, VerifyInvariance, PTL

\* When verify_async_exit has returned no thread runs, what was read back has
\* been checked or is still listed, and a refused block is counted.
THEOREM VerifyEndsWell == VerifySpec => []EndOfPass
<1>1. ASSUME VerifyInv, job = "gone" PROVE EndOfPass
  <2>1. Running = {}
    BY <1>1, RunningFinite, FS_EmptySet DEF VerifyInv, CountInv
  <2>2. \A t \in Thread : pc[t] \in {"none", "gone"}
    BY <2>1 DEF Running
  <2>3. Batched = {}
    <3>1. ASSUME NEW t \in Thread PROVE Range(batch[t]) = {}
      <4>1. batch[t] = << >>
        BY <1>1, <2>2 DEF VerifyInv, LocalInv
      <4> QED BY <4>1 DEF Range
    <3> QED BY <3>1 DEF Batched
  <2>4. Listed = Elements(verify_list)
    BY <1>1, <2>3, ListedParts, ElementsAreRange DEF VerifyInv, TypeInv
  <2>5. NothingDropped
    BY <1>1, <2>4 DEF VerifyInv, CheckInv, NothingDropped, Left
  <2>6. FailureCounted
    BY <1>1, <2>2 DEF VerifyInv, FailInv, FailureCounted
  <2> QED BY <2>2, <2>5, <2>6 DEF EndOfPass, ExitWaitsForThreads
<1>2. job # "gone" => EndOfPass
  BY DEF EndOfPass, ExitWaitsForThreads, NothingDropped, FailureCounted
<1>3. VerifyInv => EndOfPass
  BY <1>1, <1>2
<1> QED BY <1>3, VerifyInvariance, PTL
=============================================================================
