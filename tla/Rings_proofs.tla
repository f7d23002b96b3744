---------------------------- MODULE Rings_proofs ----------------------------
(***************************************************************************)
(* Proofs about two rings of the firmware whose indices wrap around.        *)
(* TaskQueue: the task queues implement FIFO queues, for every capacity     *)
(* that fits the integer types they are stored in.  HostDma: the counters   *)
(* of the DMA FIFOs are right, for every width of the counters, every       *)
(* number of FIFOs and every bound on the overflow counts.                  *)
(***************************************************************************)
EXTENDS TaskQueue, HostDma, SequenceTheorems, TLAPS

-----------------------------------------------------------------------------
(* TaskQueue.                                                               *)

M == TASK_QUEUE_MAX

\* A number below the modulus is its own remainder; one below twice the modulus
\* wraps once.
LEMMA SmallMod ==
  \A a \in Nat, m \in Nat \ {0} : /\ a < m => a % m = a
                                  /\ m <= a /\ a < m + m => a % m = a - m
OBVIOUS

\* Ring arithmetic: the u8 variable holds every index, and counting from the
\* next index is counting one further.
LEMMA RingArithmetic ==
  ASSUME NEW x \in Index, NEW k \in 0 .. M
  PROVE /\ NextIndex(x) \in Index
        /\ (x + k) % M \in Index
        /\ k < M => /\ (NextIndex(x) + k) % M = (x + (k + 1)) % M
                    /\ NextIndex((x + k) % M) = (x + (k + 1)) % M
<1>0. M \in Nat \ {0} /\ U8 \in Nat \ {0} /\ M <= U8 /\ x \in Nat /\ x < M /\ k \in Nat /\ k <= M
  BY TaskQueueAssumption DEF Index, M
<1>w. \A a \in Nat : /\ a < M => a % M = a
                     /\ M <= a /\ a < M + M => a % M = a - M
  BY <1>0, SmallMod
<1>1. \A a \in Nat : a < M + M => a % M \in Nat /\ a % M < M
  BY <1>0, SmallMod
<1>2. \A y \in Nat : y < M => NextIndex(y) = IF y + 1 = M THEN 0 ELSE y + 1
  <2> SUFFICES ASSUME NEW y \in Nat, y < M PROVE NextIndex(y) = IF y + 1 = M THEN 0 ELSE y + 1
    OBVIOUS
  <2>1. (y + 1) % M = IF y + 1 = M THEN 0 ELSE y + 1
    <3>1. y + 1 \in Nat /\ (y + 1 < M \/ y + 1 = M) /\ M < M + M /\ M - M = 0 /\ M \in Nat /\ M <= M
      BY <1>0
    <3>2. CASE y + 1 = M
      BY <1>w, <3>1, <3>2, Zenon
    <3>3. CASE y + 1 # M
      BY <1>w, <3>1, <3>3, Zenon
    <3> QED BY <3>2, <3>3
  <2>2. \A z \in Nat : z < M => z % U8 = z
    BY <1>0, SmallMod
  <2> QED BY <1>0, <2>1, <2>2 DEF NextIndex, M
<1>3. NextIndex(x) \in Index
  BY <1>0, <1>2 DEF Index, M
<1>4. (x + k) % M \in Index
  BY <1>0, <1>1 DEF Index, M
<1>5. ASSUME k < M PROVE (NextIndex(x) + k) % M = (x + (k + 1)) % M
  <2>1. CASE x + 1 = M
    <3>1. NextIndex(x) = 0
      BY <1>0, <1>2, <2>1
    <3>2. k % M = k
      BY <1>0, <1>5, SmallMod
    <3>3. (x + (k + 1)) % M = (x + (k + 1)) - M
      <4>1. x + (k + 1) \in Nat /\ M <= x + (k + 1) /\ x + (k + 1) < M + M
        BY <1>0, <1>5, <2>1
      <4> QED BY <4>1, <1>w, Zenon
    <3> QED BY <1>0, <2>1, <3>1, <3>2, <3>3
  <2>2. CASE x + 1 # M
    BY <1>0, <1>2, <2>2
  <2> QED BY <2>1, <2>2
<1>6. ASSUME k < M PROVE NextIndex((x + k) % M) = (x + (k + 1)) % M
  <2>1. CASE x + k < M
    <3>1. (x + k) % M = x + k
      <4>1. x + k \in Nat
        BY <1>0
      <4> QED BY <4>1, <2>1, <1>w, Zenon
    <3>2. (x + (k + 1)) % M = IF x + (k + 1) = M THEN 0 ELSE x + (k + 1)
      <4>1. /\ x + (k + 1) \in Nat /\ (x + (k + 1) < M \/ x + (k + 1) = M)
            /\ M < M + M /\ M - M = 0 /\ M \in Nat /\ M <= M
        BY <1>0, <2>1
      <4>2. CASE x + (k + 1) = M
        BY <1>w, <4>1, <4>2, Zenon
      <4>3. CASE x + (k + 1) # M
        BY <1>w, <4>1, <4>3, Zenon
      <4> QED BY <4>2, <4>3
    <3> QED BY <1>0, <1>2, <2>1, <3>1, <3>2
  <2>2. CASE M <= x + k
    <3>1. (x + k) % M = (x + k) - M
      <4>1. x + k \in Nat /\ M <= x + k /\ x + k < M + M
        BY <1>0, <2>2, <1>6
      <4> QED BY <4>1, <1>w, Zenon
    <3>2. (x + (k + 1)) % M = (x + (k + 1)) - M
      <4>1. x + (k + 1) \in Nat /\ M <= x + (k + 1) /\ x + (k + 1) < M + M
        BY <1>0, <2>2, <1>6
      <4> QED BY <4>1, <1>w, Zenon
    <3> QED BY <1>0, <1>2, <1>6, <2>2, <3>1, <3>2
  <2> QED BY <1>0, <2>1, <2>2
<1> QED BY <1>3, <1>4, <1>5, <1>6

\* Two places less than a turn apart are different cells.
LEMMA RingDistinct ==
  ASSUME NEW x \in Index, NEW j \in 0 .. M, NEW k \in 0 .. M, j < k, k < M
  PROVE (x + j) % M # (x + k) % M
<1>0. M \in Nat \ {0} /\ x \in Nat /\ x < M /\ j \in Nat /\ k \in Nat
  BY TaskQueueAssumption DEF Index, M
<1>1. \A a \in Nat : /\ a < M => a % M = a
                     /\ M <= a /\ a < M + M => a % M = a - M
  BY <1>0, SmallMod
<1>2. x + j \in Nat /\ x + k \in Nat /\ x + j < M + M /\ x + k < M + M
  BY <1>0
<1>3. (x + j < M /\ (x + j) % M = x + j) \/ (M <= x + j /\ (x + j) % M = (x + j) - M)
  BY <1>0, <1>1, <1>2
<1>4. (x + k < M /\ (x + k) % M = x + k) \/ (M <= x + k /\ (x + k) % M = (x + k) - M)
  BY <1>0, <1>1, <1>2
<1> QED BY <1>0, <1>2, <1>3, <1>4

LEMMA SeqIsFunction ==
  ASSUME NEW S, NEW t \in Seq(S) PROVE t = [k \in 1 .. Len(t) |-> t[k]]
BY LenProperties

Popped(r) == [r EXCEPT !.cnt = @ - 1, !.head = NextIndex(r.head)]
Pushed(r, h) == [r EXCEPT !.cnt = (@ + 1) % U16, !.tail = NextIndex(r.tail), !.queue[r.tail] = h]

\* FTL_task_queue_remove_head takes the head of the queue the ring stands for.
LEMMA PopRing ==
  ASSUME NEW r \in Ring, Spans(r), r.cnt # 0
  PROVE /\ Popped(r) \in Ring /\ Spans(Popped(r))
        /\ Contents(r) # << >>
        /\ r.queue[r.head] = Head(Contents(r)) /\ r.queue[r.head] \in Hcmd
        /\ Contents(Popped(r)) = Tail(Contents(r))
<1>0. /\ M \in Nat \ {0} /\ r.head \in Index /\ r.cnt \in 1 .. M /\ r.head \in Nat /\ r.head < M
      /\ r.queue \in [Index -> Hcmd \cup {NULL}]
  BY TaskQueueAssumption DEF Ring, Index, M
<1>1. /\ Popped(r).cnt = r.cnt - 1 /\ Popped(r).head = NextIndex(r.head)
      /\ Popped(r).tail = r.tail /\ Popped(r).queue = r.queue
  BY DEF Popped, Ring
<1>2. NextIndex(r.head) \in Index
  BY <1>0, RingArithmetic
<1>3. \A k \in 0 .. r.cnt - 1 : (NextIndex(r.head) + k) % M = (r.head + (k + 1)) % M
  <2> SUFFICES ASSUME NEW k \in 0 .. r.cnt - 1
               PROVE (NextIndex(r.head) + k) % M = (r.head + (k + 1)) % M
    OBVIOUS
  <2>1. k \in 0 .. M /\ k < M
    BY <1>0
  <2> QED BY <1>0, <2>1, RingArithmetic
<1>4. Popped(r) \in Ring
  <2>1. r.cnt - 1 \in 0 .. TASK_QUEUE_MAX
    BY <1>0 DEF M
  <2> QED BY <1>2, <2>1 DEF Popped, Ring
<1>5. Spans(Popped(r))
  <2>1. r.tail = (NextIndex(r.head) + (r.cnt - 1)) % M
    BY <1>0, <1>3 DEF Spans, M
  <2>2. \A k \in 0 .. r.cnt - 2 : r.queue[(NextIndex(r.head) + k) % M] # NULL
    BY <1>0, <1>3 DEF Spans, M
  <2> QED BY <1>0, <1>1, <2>1, <2>2 DEF Spans, M
<1>6. Contents(r) # << >> /\ Head(Contents(r)) = r.queue[r.head % M]
  BY <1>0 DEF Contents, M
<1>7. r.head % M = r.head
  BY <1>0, SmallMod
<1>8. r.queue[r.head] # NULL
  BY <1>0, <1>7 DEF Spans, M
<1>9. Contents(Popped(r)) = Tail(Contents(r))
  <2>1. Contents(Popped(r)) = [k \in 1 .. r.cnt - 1 |-> r.queue[(NextIndex(r.head) + (k - 1)) % M]]
    BY <1>1 DEF Contents, M
  <2>2. Tail(Contents(r)) = [k \in 1 .. r.cnt - 1 |-> r.queue[(r.head + k) % M]]
    <3>1. \A k \in 1 .. r.cnt : (r.head + (k - 1)) % M \in Index
      <4> SUFFICES ASSUME NEW k \in 1 .. r.cnt PROVE (r.head + (k - 1)) % M \in Index
        OBVIOUS
      <4>1. k - 1 \in 0 .. M
        BY <1>0
      <4> QED BY <1>0, <4>1, RingArithmetic
    <3>2. Contents(r) \in Seq(Hcmd \cup {NULL}) /\ Len(Contents(r)) = r.cnt
      <4>1. \A k \in 1 .. r.cnt : r.queue[(r.head + (k - 1)) % M] \in Hcmd \cup {NULL}
        BY <1>0, <3>1
      <4>2. Contents(r) = [k \in 1 .. r.cnt |-> r.queue[(r.head + (k - 1)) % M]]
        BY DEF Contents, M
      <4>3. Contents(r) \in [1 .. r.cnt -> Hcmd \cup {NULL}] /\ DOMAIN Contents(r) = 1 .. r.cnt
        BY <4>1, <4>2, Zenon
      <4>4. r.cnt \in Nat
        BY <1>0
      <4>5. Contents(r) \in Seq(Hcmd \cup {NULL})
        BY <4>3, <4>4, SeqDef
      <4> QED BY <4>3, <4>4, <4>5, LenProperties
    <3>3. Tail(Contents(r)) = [k \in 1 .. r.cnt - 1 |-> Contents(r)[k + 1]]
      <4>1. Contents(r) # << >>
        BY <1>0, <3>2
      <4>2. /\ Tail(Contents(r)) \in Seq(Hcmd \cup {NULL})
            /\ Len(Tail(Contents(r))) = r.cnt - 1
            /\ \A k \in 1 .. Len(Tail(Contents(r))) : Tail(Contents(r))[k] = Contents(r)[k + 1]
        BY <3>2, <4>1, HeadTailProperties
      <4>3. Tail(Contents(r)) = [k \in 1 .. r.cnt - 1 |-> Tail(Contents(r))[k]]
        BY <4>2, SeqIsFunction, Zenon
      <4>4. \A k \in 1 .. r.cnt - 1 : Tail(Contents(r))[k] = Contents(r)[k + 1]
        BY <4>2
      <4> QED BY <4>3, <4>4, Zenon
    <3>4. \A k \in 1 .. r.cnt - 1 : Contents(r)[k + 1] = r.queue[(r.head + k) % M]
      <4> SUFFICES ASSUME NEW k \in 1 .. r.cnt - 1
                   PROVE Contents(r)[k + 1] = r.queue[(r.head + k) % M]
        OBVIOUS
      <4>1. k + 1 \in 1 .. r.cnt /\ (k + 1) - 1 = k
        BY <1>0
      <4> QED BY <4>1 DEF Contents, M
    <3> QED BY <3>3, <3>4
  <2>3. \A k \in 1 .. r.cnt - 1 : (NextIndex(r.head) + (k - 1)) % M = (r.head + k) % M
    BY <1>0, <1>3
  <2> QED BY <2>1, <2>2, <2>3
<1> QED BY <1>0, <1>4, <1>5, <1>6, <1>7, <1>8, <1>9

\* FTL_task_queue_add_tail appends to it.
LEMMA PushRing ==
  ASSUME NEW r \in Ring, Spans(r), r.cnt # M, NEW h \in Hcmd
  PROVE /\ Pushed(r, h) \in Ring /\ Spans(Pushed(r, h))
        /\ Contents(Pushed(r, h)) = Append(Contents(r), h)
<1>0. /\ M \in Nat \ {0} /\ r.head \in Index /\ r.cnt \in 0 .. M /\ r.cnt < M /\ r.tail \in Index
      /\ r.head \in Nat /\ r.queue \in [Index -> Hcmd \cup {NULL}] /\ h # NULL
  BY TaskQueueAssumption DEF Ring, Index, M
<1>a. (r.cnt + 1) % U16 = r.cnt + 1
  <2>1. U16 \in Nat \ {0} /\ r.cnt + 1 \in Nat /\ r.cnt + 1 < U16
    BY <1>0, TaskQueueAssumption DEF M
  <2> QED BY <2>1, SmallMod, Zenon
<1>1. /\ Pushed(r, h).cnt = r.cnt + 1 /\ Pushed(r, h).head = r.head
      /\ Pushed(r, h).tail = NextIndex(r.tail)
      /\ Pushed(r, h).queue = [r.queue EXCEPT ![r.tail] = h]
  BY <1>a DEF Pushed, Ring
<1>2. r.tail = (r.head + r.cnt) % M
  BY DEF Spans, M
<1>3. NextIndex(r.tail) = (r.head + (r.cnt + 1)) % M /\ NextIndex(r.tail) \in Index
  BY <1>0, <1>2, RingArithmetic
<1>4. Pushed(r, h) \in Ring
  <2>2. r.cnt + 1 \in 0 .. TASK_QUEUE_MAX
    BY <1>0 DEF M
  <2>3. [r.queue EXCEPT ![r.tail] = h] \in [Index -> Hcmd \cup {NULL}]
    BY <1>0
  <2> QED BY <1>a, <1>3, <2>2, <2>3 DEF Pushed, Ring
<1>5. \A k \in 0 .. r.cnt - 1 : (r.head + k) % M # r.tail /\ (r.head + k) % M \in Index
  <2> SUFFICES ASSUME NEW k \in 0 .. r.cnt - 1
               PROVE (r.head + k) % M # r.tail /\ (r.head + k) % M \in Index
    OBVIOUS
  <2>1. k \in 0 .. M /\ k < r.cnt
    BY <1>0
  <2>2. (r.head + k) % M # (r.head + r.cnt) % M
    BY <1>0, <2>1, RingDistinct
  <2>3. (r.head + k) % M \in Index
    BY <1>0, <2>1, RingArithmetic
  <2> QED BY <1>2, <2>2, <2>3
<1>6. \A k \in 0 .. r.cnt : Pushed(r, h).queue[(r.head + k) % M]
                              = IF k = r.cnt THEN h ELSE r.queue[(r.head + k) % M]
  <2> SUFFICES ASSUME NEW k \in 0 .. r.cnt
               PROVE [r.queue EXCEPT ![r.tail] = h][(r.head + k) % M]
                       = IF k = r.cnt THEN h ELSE r.queue[(r.head + k) % M]
    BY <1>1
  <2>1. CASE k = r.cnt
    BY <1>0, <1>2, <2>1
  <2>2. CASE k # r.cnt
    <3>1. k \in 0 .. r.cnt - 1
      BY <1>0, <2>2
    <3> QED BY <1>0, <1>5, <2>2, <3>1
  <2> QED BY <2>1, <2>2
<1>7. Spans(Pushed(r, h))
  <2>1. \A k \in 0 .. r.cnt : Pushed(r, h).queue[(r.head + k) % M] # NULL
    <3> SUFFICES ASSUME NEW k \in 0 .. r.cnt PROVE Pushed(r, h).queue[(r.head + k) % M] # NULL
      OBVIOUS
    <3>1. CASE k = r.cnt
      BY <1>0, <1>6, <3>1
    <3>2. CASE k # r.cnt
      <4>1. k \in 0 .. r.cnt - 1
        BY <1>0, <3>2
      <4>2. r.queue[(r.head + k) % M] # NULL
        BY <4>1 DEF Spans, M
      <4> QED BY <1>6, <3>2, <4>2
    <3> QED BY <3>1, <3>2
  <2>2. (r.cnt + 1) - 1 = r.cnt
    BY <1>0
  <2> QED BY <1>1, <1>3, <2>1, <2>2 DEF Spans, M
<1>8. Contents(Pushed(r, h)) = Append(Contents(r), h)
  <2>1. Contents(Pushed(r, h))
          = [k \in 1 .. r.cnt + 1 |-> Pushed(r, h).queue[(r.head + (k - 1)) % M]]
    BY <1>1 DEF Contents, M
  <2>2. Append(Contents(r), h)
          = [k \in 1 .. r.cnt + 1 |-> IF k = r.cnt + 1 THEN h ELSE r.queue[(r.head + (k - 1)) % M]]
    BY <1>0 DEF Contents, M
  <2>3. \A k \in 1 .. r.cnt + 1 :
          Pushed(r, h).queue[(r.head + (k - 1)) % M]
            = IF k = r.cnt + 1 THEN h ELSE r.queue[(r.head + (k - 1)) % M]
    <3> SUFFICES ASSUME NEW k \in 1 .. r.cnt + 1
                 PROVE Pushed(r, h).queue[(r.head + (k - 1)) % M]
                         = IF k = r.cnt + 1 THEN h ELSE r.queue[(r.head + (k - 1)) % M]
      OBVIOUS
    <3>1. k - 1 \in 0 .. r.cnt /\ (k - 1 = r.cnt <=> k = r.cnt + 1)
      BY <1>0
    <3> QED BY <1>6, <3>1
  <2> QED BY <2>1, <2>2, <2>3
<1> QED BY <1>4, <1>7, <1>8

-----------------------------------------------------------------------------
LEMMA RingInit == Init => RingOK
<1> SUFFICES ASSUME Init PROVE RingOK
  OBVIOUS
<1>1. M \in Nat \ {0} /\ 0 \in Index /\ 0 \in 0 .. TASK_QUEUE_MAX
  BY TaskQueueAssumption DEF M, Index
<1>2. \A s \in Status : task_queue[s] \in Ring
  BY <1>1 DEF Init, Ring
<1>3. \A s \in Status : Spans(task_queue[s])
  <2>1. (0 + 0) % M = 0
    BY <1>1, SmallMod
  <2>2. 0 .. 0 - 1 = {}
    OBVIOUS
  <2>3. \A s \in Status : task_queue[s].tail = 0 /\ task_queue[s].head = 0 /\ task_queue[s].cnt = 0
    BY DEF Init
  <2> QED BY <2>1, <2>2, <2>3 DEF Spans, M
<1> QED BY <1>2, <1>3 DEF Init, RingOK

\* Every step leaves one ring as Popped or Pushed does and the others alone.
LEMMA StepForms ==
  ASSUME RingOK, Next
  PROVE \E s \in Status :
          \/ task_queue[s].cnt = 0 /\ ret' = NULL /\ task_queue' = task_queue
          \/ /\ task_queue[s].cnt # 0 /\ ret' = task_queue[s].queue[task_queue[s].head]
             /\ task_queue' = [task_queue EXCEPT ![s] = Popped(task_queue[s])]
          \/ task_queue[s].cnt = M /\ UNCHANGED tqVars
          \/ \E h \in Hcmd :
               /\ task_queue[s].cnt # M /\ ret' = ret
               /\ task_queue' = [task_queue EXCEPT ![s] = Pushed(task_queue[s], h)]
<1>1. PICK s \in Status : remove_head(s) \/ \E h \in Hcmd : add_tail(h, s)
  BY DEF Next
<1>2. CASE remove_head(s)
  <2>1. CASE task_queue[s].cnt = 0
    <3>1. ret' = NULL /\ task_queue' = task_queue
      BY <1>2, <2>1 DEF remove_head, is_empty
    <3> QED BY <2>1, <3>1, Zenon
  <2>2. CASE task_queue[s].cnt # 0
    <3>1. /\ ret' = task_queue[s].queue[task_queue[s].head]
          /\ task_queue' = [task_queue EXCEPT ![s].cnt = @ - 1, ![s].head = NextIndex(task_queue[s].head)]
      BY <1>2, <2>2 DEF remove_head, is_empty
    <3>2. task_queue' = [task_queue EXCEPT ![s] = Popped(task_queue[s])]
      BY <3>1 DEF Popped
    <3> QED BY <2>2, <3>1, <3>2, Zenon
  <2> QED BY <2>1, <2>2
<1>3. ASSUME NEW h \in Hcmd, add_tail(h, s)
      PROVE \/ task_queue[s].cnt = M /\ UNCHANGED tqVars
            \/ /\ task_queue[s].cnt # M /\ ret' = ret
               /\ task_queue' = [task_queue EXCEPT ![s] = Pushed(task_queue[s], h)]
  BY <1>3 DEF add_tail, is_full, Pushed, M
<1> QED BY <1>1, <1>2, <1>3

LEMMA RingStep == RingOK /\ [Next]_tqVars => RingOK'
<1> SUFFICES ASSUME RingOK, [Next]_tqVars PROVE RingOK'
  OBVIOUS
<1>0. task_queue \in [Status -> Ring] /\ ret \in Hcmd \cup {NULL}
  BY DEF RingOK
<1>1. CASE UNCHANGED tqVars
  BY <1>1 DEF RingOK, tqVars
<1>2. CASE Next
  <2>1. PICK s \in Status :
          \/ task_queue[s].cnt = 0 /\ ret' = NULL /\ task_queue' = task_queue
          \/ /\ task_queue[s].cnt # 0 /\ ret' = task_queue[s].queue[task_queue[s].head]
             /\ task_queue' = [task_queue EXCEPT ![s] = Popped(task_queue[s])]
          \/ task_queue[s].cnt = M /\ UNCHANGED tqVars
          \/ \E h \in Hcmd :
               /\ task_queue[s].cnt # M /\ ret' = ret
               /\ task_queue' = [task_queue EXCEPT ![s] = Pushed(task_queue[s], h)]
    BY <1>2, StepForms
  <2>2. task_queue[s] \in Ring /\ Spans(task_queue[s])
    BY DEF RingOK
  <2>3. CASE task_queue[s].cnt = 0 /\ ret' = NULL /\ task_queue' = task_queue
    BY <2>3 DEF RingOK
  <2>4. CASE /\ task_queue[s].cnt # 0 /\ ret' = task_queue[s].queue[task_queue[s].head]
             /\ task_queue' = [task_queue EXCEPT ![s] = Popped(task_queue[s])]
    <3>1. /\ Popped(task_queue[s]) \in Ring /\ Spans(Popped(task_queue[s]))
          /\ task_queue[s].queue[task_queue[s].head] \in Hcmd
      BY <2>2, <2>4, PopRing
    <3> QED BY <1>0, <2>4, <3>1 DEF RingOK
  <2>5. CASE UNCHANGED tqVars
    BY <2>5 DEF RingOK, tqVars
  <2>6. ASSUME NEW h \in Hcmd, task_queue[s].cnt # M, ret' = ret,
               task_queue' = [task_queue EXCEPT ![s] = Pushed(task_queue[s], h)]
        PROVE RingOK'
    <3>1. Pushed(task_queue[s], h) \in Ring /\ Spans(Pushed(task_queue[s], h))
      BY <2>2, <2>6, PushRing
    <3> QED BY <1>0, <2>6, <3>1 DEF RingOK
  <2> QED BY <2>1, <2>3, <2>4, <2>5, <2>6
<1> QED BY <1>1, <1>2

\* The length of the queue a ring stands for is its count.
LEMMA ContentsLen ==
  ASSUME NEW r \in Ring PROVE Len(Contents(r)) = r.cnt /\ (Contents(r) = << >> <=> r.cnt = 0)
BY TaskQueueAssumption DEF Contents, Ring

LEMMA FifoStep == RingOK /\ [Next]_tqVars => [F!FifoNext]_<<AbsQ, ret>>
<1> SUFFICES ASSUME RingOK, [Next]_tqVars PROVE [F!FifoNext]_<<AbsQ, ret>>
  OBVIOUS
<1>1. CASE UNCHANGED tqVars
  BY <1>1 DEF tqVars, AbsQ
<1>2. CASE Next
  <2>1. PICK s \in Status :
          \/ task_queue[s].cnt = 0 /\ ret' = NULL /\ task_queue' = task_queue
          \/ /\ task_queue[s].cnt # 0 /\ ret' = task_queue[s].queue[task_queue[s].head]
             /\ task_queue' = [task_queue EXCEPT ![s] = Popped(task_queue[s])]
          \/ task_queue[s].cnt = M /\ UNCHANGED tqVars
          \/ \E h \in Hcmd :
               /\ task_queue[s].cnt # M /\ ret' = ret
               /\ task_queue' = [task_queue EXCEPT ![s] = Pushed(task_queue[s], h)]
    BY <1>2, StepForms
  <2>2. task_queue[s] \in Ring /\ Spans(task_queue[s]) /\ task_queue \in [Status -> Ring]
    BY DEF RingOK
  <2>3. AbsQ[s] = Contents(task_queue[s]) /\ Len(AbsQ[s]) = task_queue[s].cnt
        /\ (AbsQ[s] = << >> <=> task_queue[s].cnt = 0)
    BY <2>2, ContentsLen DEF AbsQ
  <2>4. ASSUME NEW r, task_queue' = [task_queue EXCEPT ![s] = r]
        PROVE AbsQ' = [AbsQ EXCEPT ![s] = Contents(r)]
    BY <2>2, <2>4 DEF AbsQ
  <2>5. CASE task_queue[s].cnt = 0 /\ ret' = NULL /\ task_queue' = task_queue
    <3>1. AbsQ' = AbsQ
      BY <2>5 DEF AbsQ
    <3> QED BY <2>3, <2>5, <3>1 DEF F!FifoNext, F!RemoveNone
  <2>6. CASE /\ task_queue[s].cnt # 0 /\ ret' = task_queue[s].queue[task_queue[s].head]
             /\ task_queue' = [task_queue EXCEPT ![s] = Popped(task_queue[s])]
    <3>1. /\ task_queue[s].queue[task_queue[s].head] = Head(Contents(task_queue[s]))
          /\ Contents(Popped(task_queue[s])) = Tail(Contents(task_queue[s]))
      BY <2>2, <2>6, PopRing
    <3>2. AbsQ' = [AbsQ EXCEPT ![s] = Tail(AbsQ[s])]
      BY <2>3, <2>4, <2>6, <3>1
    <3>3. F!Remove(s)
      BY <2>3, <2>6, <3>1, <3>2 DEF F!Remove, F!Dequeue
    <3> QED BY <3>3 DEF F!FifoNext
  <2>7. CASE UNCHANGED tqVars
    BY <2>7 DEF tqVars, AbsQ
  <2>8. ASSUME NEW h \in Hcmd, task_queue[s].cnt # M, ret' = ret,
               task_queue' = [task_queue EXCEPT ![s] = Pushed(task_queue[s], h)]
        PROVE F!Add(s, h)
    <3>1. Contents(Pushed(task_queue[s], h)) = Append(Contents(task_queue[s]), h)
      BY <2>2, <2>8, PushRing
    <3>2. AbsQ' = [AbsQ EXCEPT ![s] = Append(AbsQ[s], h)]
      BY <2>3, <2>4, <2>8, <3>1
    <3>3. Len(AbsQ[s]) < TASK_QUEUE_MAX
      BY <2>2, <2>3, <2>8, TaskQueueAssumption DEF Ring, M
    <3> QED BY <2>8, <3>2, <3>3 DEF F!Add, F!Enqueue
  <2> QED BY <2>1, <2>5, <2>6, <2>7, <2>8 DEF F!FifoNext
<1> QED BY <1>1, <1>2

-----------------------------------------------------------------------------
\* The ring invariant of FTL_task_queue_add_tail and FTL_task_queue_remove_head
\* holds for every capacity up to the number of values of a u8.
THEOREM RingInvariant == Spec => []RingOK
<1>1. RingOK /\ UNCHANGED tqVars => RingOK'
  BY DEF RingOK, tqVars
<1> QED BY RingInit, RingStep, PTL DEF Spec

\* The task queues implement FIFO queues: the ring, its u8 indices and its u16
\* count never lose, repeat or reorder a command.
THEOREM RingsAreFifos == Spec => ImplementsFifo
<1>1. Init => F!FifoInit
  <2> SUFFICES ASSUME Init PROVE F!FifoInit
    OBVIOUS
  <2>1. \A s \in Status : Contents(task_queue[s]) = << >>
    BY RingInit, ContentsLen DEF Init, RingOK
  <2> QED BY <2>1 DEF Init, F!FifoInit, AbsQ
<1>2. RingOK /\ [Next]_tqVars => [F!FifoNext]_<<AbsQ, ret>>
  BY FifoStep
<1> QED BY <1>1, <1>2, RingInvariant, PTL DEF Spec, ImplementsFifo, F!FifoSpec

-----------------------------------------------------------------------------
(* HostDma.                                                                 *)

\* Arithmetic of counts kept as laps of WRAP and a remainder.

\* A larger lap count is larger by at least one lap.
LEMMA LapGap ==
  ASSUME NEW W \in Nat, NEW x \in Nat, NEW y \in Nat, x < y
  PROVE  W * x + W <= W * y
  <1>1. PICK k \in Nat : y = x + 1 + k
    <2>1. y - x - 1 \in Nat /\ y = x + 1 + (y - x - 1)
      OBVIOUS
    <2>2. QED
      BY <2>1
  <1>2. W * y = W * x + W + W * k
    BY <1>1
  <1>3. W * k >= 0
    OBVIOUS
  <1>4. W * x \in Nat /\ W * y \in Nat /\ W * k \in Nat
    BY <1>1
  <1>5. QED
    BY <1>2, <1>3, <1>4

\* Division with remainder.
LEMMA Remainder ==
  ASSUME NEW W \in Nat \ {0}, NEW s \in Nat
  PROVE  s \div W \in Nat /\ s % W \in 0 .. W - 1 /\ s = W * (s \div W) + (s % W)
  OBVIOUS

\* The laps and the remainder of a number are unique.
LEMMA RemainderUnique ==
  ASSUME NEW W \in Nat \ {0}, NEW a \in Nat, NEW r \in 0 .. W - 1
  PROVE  (W * a + r) % W = r /\ (W * a + r) \div W = a
  <1> DEFINE s == W * a + r
             q == s \div W
             m == s % W
  <1>1. s \in Nat
    OBVIOUS
  <1>2. q \in Nat /\ m \in 0 .. W - 1 /\ s = W * q + m
    BY <1>1, Remainder
  <1>3. W * a \in Nat /\ W * q \in Nat
    BY <1>2
  <1>4. ~ (a < q)
    <2>1. a < q => W * a + W <= W * q
      BY <1>2, LapGap
    <2>2. QED
      BY <2>1, <1>1, <1>2, <1>3
  <1>5. ~ (q < a)
    <2>1. q < a => W * q + W <= W * a
      BY <1>2, LapGap
    <2>2. QED
      BY <2>1, <1>1, <1>2, <1>3
  <1>6. q = a
    BY <1>2, <1>4, <1>5
  <1>7. QED
    BY <1>6, <1>2, <1>3

\* The decision check_auto_dma_partial_done takes from the remainders and the
\* overflow count is the comparison of the full counts: head c:h, tail n:t and
\* noted tail b:r, the FIFO holding less than a lap.
LEMMA PartialDoneCorrect ==
  ASSUME NEW W \in Nat \ {0},
         NEW c \in Nat, NEW h \in 0 .. W - 1,
         NEW n \in Nat, NEW t \in 0 .. W - 1,
         NEW b \in Nat, NEW r \in 0 .. W - 1,
         W * c + h <= W * n + t, W * n + t < W * c + h + W,
         W * b + r <= W * n + t
  PROVE  PartialDone(h, t, n, r, b) <=> W * c + h >= W * b + r
  <1> DEFINE C == W * c
             N == W * n
             B == W * b
  <1>1. C \in Nat /\ N \in Nat /\ B \in Nat
    OBVIOUS
  <1>2. /\ c < n => C + W <= N
        /\ n < c => N + W <= C
        /\ b < n => B + W <= N
        /\ n < b => N + W <= B
        /\ c < b => C + W <= B
        /\ b < c => B + W <= C
    BY LapGap
  <1>3. (b + 1 < n) => B + W + W <= N
    <2>1. W * (b + 1) = B + W
      OBVIOUS
    <2>2. b + 1 < n => W * (b + 1) + W <= N
      BY LapGap
    <2>3. QED
      BY <2>1, <2>2
  <1>3a. (c + 1 < n) => C + W + W <= N
    <2>1. W * (c + 1) = C + W
      OBVIOUS
    <2>2. c + 1 < n => W * (c + 1) + W <= N
      BY LapGap
    <2>3. QED
      BY <2>1, <2>2
  <1>3b. (n = c => N = C) /\ (n = c + 1 => N = C + W) /\ (n = b => N = B) /\ (n = b + 1 => N = B + W)
    OBVIOUS
  <1>4. C + h <= N + t /\ N + t < C + h + W /\ B + r <= N + t
    OBVIOUS
  <1>5. PartialDone(h, t, n, r, b) <=> C + h >= B + r
    <2> HIDE DEF C, N, B
    <2>1. n = c \/ n = c + 1
      BY <1>1, <1>2, <1>3a, <1>4
    <2>2. n = b \/ n = b + 1 \/ n > b + 1
      BY <1>1, <1>2, <1>4
    <2>3. QED
      BY <2>1, <2>2, <1>1, <1>2, <1>3, <1>3b, <1>4 DEF PartialDone
  <1>6. QED
    BY <1>5

-----------------------------------------------------------------------------
\* The inductive invariant.  Beyond the properties it says that the FIFO holds
\* less than a lap even when measured from the last head read: only that lets
\* a comparison of 8-bit counts against an old head be trusted.
Count == [Dir -> Nat]

CountsOK ==
  /\ issued \in Count /\ done \in Count /\ seen \in Count /\ mark \in Count
  /\ fifoTail \in [Dir -> 0 .. WRAP - 1] /\ overFlowCnt \in [Dir -> 0 .. MAX_OVERFLOW]
  /\ fifoHead \in [Dir -> 0 .. WRAP - 1]
  /\ tailIndex \in [Dir -> 0 .. WRAP - 1] /\ tailAssistIndex \in Count

FifoOK(d) ==
  /\ issued[d] = WRAP * overFlowCnt[d] + fifoTail[d]
  /\ fifoHead[d] = seen[d] % WRAP
  /\ mark[d] = WRAP * tailAssistIndex[d] + tailIndex[d]
  /\ mark[d] <= issued[d]
  /\ seen[d] <= done[d] /\ done[d] <= issued[d] /\ issued[d] < seen[d] + WRAP

PcOK ==
  /\ pc \in {"idle", "set", "check", "partial", "all_done", "part_done", "not_done"}
  /\ dir \in Dir
  /\ pc = "all_done" => seen[dir] = issued[dir]
  /\ PartialDoneExact

IInv == CountsOK /\ (\A d \in Dir : FifoOK(d)) /\ PcOK

LEMMA InitEstablishes == DmaInit => IInv
  <1> SUFFICES ASSUME DmaInit PROVE IInv
    OBVIOUS
  <1> USE HostDmaAssumption
  <1>1. CountsOK
    BY DEF DmaInit, CountsOK, Count
  <1>2. 0 % WRAP = 0 /\ WRAP * 0 = 0
    OBVIOUS
  <1>3. ASSUME NEW d \in Dir PROVE FifoOK(d)
    <2>1. /\ fifoHead[d] = 0 /\ fifoTail[d] = 0 /\ overFlowCnt[d] = 0 /\ tailIndex[d] = 0
          /\ tailAssistIndex[d] = 0 /\ issued[d] = 0 /\ done[d] = 0 /\ seen[d] = 0 /\ mark[d] = 0
      BY DEF DmaInit
    <2>2. QED
      BY <2>1, <1>2 DEF FifoOK
  <1>4. PcOK
    BY DEF DmaInit, PcOK, PartialDoneExact
  <1>5. QED
    BY <1>1, <1>3, <1>4 DEF IInv

\* Reading the register keeps every count in step.
LEMMA ReadKeeps ==
  ASSUME IInv, ReadFifoCnt,
         UNCHANGED <<fifoTail, overFlowCnt, tailIndex, tailAssistIndex, issued, done, mark>>
  PROVE  CountsOK' /\ \A d \in Dir : FifoOK(d)'
  <1> USE HostDmaAssumption
  <1>1. \A d \in Dir : done[d] % WRAP \in 0 .. WRAP - 1
    <2>1. \A d \in Dir : done[d] \in Nat
      BY DEF IInv, CountsOK, Count
    <2>2. QED
      BY <2>1, Remainder
  <1>2. CountsOK'
    BY <1>1 DEF IInv, CountsOK, Count, ReadFifoCnt
  <1>3. ASSUME NEW d \in Dir PROVE FifoOK(d)'
    <2>1. FifoOK(d) /\ done[d] \in Nat /\ issued[d] \in Nat /\ seen[d] \in Nat
      BY DEF IInv, CountsOK, Count
    <2>2. fifoHead'[d] = done[d] % WRAP /\ seen'[d] = done[d]
      BY DEF ReadFifoCnt
    <2>3. QED
      BY <2>1, <2>2 DEF FifoOK
  <1>4. QED
    BY <1>2, <1>3

\* Issuing a transfer when the FIFO is not full keeps every count in step.
LEMMA IssueKeeps ==
  ASSUME IInv, NEW note \in BOOLEAN, SetAutoIssue(note)
  PROVE  IInv'
  <1> USE HostDmaAssumption
  <1> DEFINE tail == (fifoTail[dir] + 1) % WRAP
             cnt  == overFlowCnt[dir] + (IF fifoTail[dir] > tail THEN 1 ELSE 0)
  <1>1. /\ dir \in Dir /\ fifoTail[dir] \in 0 .. WRAP - 1
        /\ overFlowCnt[dir] \in Nat /\ overFlowCnt[dir] <= MAX_OVERFLOW
        /\ fifoHead[dir] \in 0 .. WRAP - 1
        /\ issued[dir] \in Nat /\ seen[dir] \in Nat /\ done[dir] \in Nat
        /\ FifoOK(dir)
    BY DEF IInv, PcOK, CountsOK, Count
  <1>2. \/ fifoTail[dir] + 1 < WRAP /\ tail = fifoTail[dir] + 1 /\ cnt = overFlowCnt[dir]
        \/ fifoTail[dir] + 1 = WRAP /\ tail = 0 /\ cnt = overFlowCnt[dir] + 1
    <2>1. CASE fifoTail[dir] + 1 < WRAP
      <3>1. tail = fifoTail[dir] + 1
        BY <2>1, <1>1
      <3>2. QED
        BY <3>1, <2>1, <1>1
    <2>2. CASE fifoTail[dir] + 1 = WRAP
      <3>1. tail = 0
        BY <2>2, <1>1
      <3>2. QED
        BY <3>1, <2>2, <1>1
    <2>3. QED
      BY <2>1, <2>2, <1>1
  <1>3. tail \in 0 .. WRAP - 1 /\ cnt \in Nat
    BY <1>1, <1>2
  <1>4. issued[dir] + 1 = WRAP * cnt + tail
    <2>1. issued[dir] = WRAP * overFlowCnt[dir] + fifoTail[dir]
      BY <1>1 DEF FifoOK
    <2>2. WRAP * (overFlowCnt[dir] + 1) = WRAP * overFlowCnt[dir] + WRAP
      BY <1>1
    <2>3. WRAP * overFlowCnt[dir] \in Nat
      BY <1>1
    <2>4. QED
      BY <2>1, <2>2, <2>3, <1>1, <1>2
  <1>5. issued[dir] + 1 < seen[dir] + WRAP
    <2>1. issued[dir] < seen[dir] + WRAP /\ fifoHead[dir] = seen[dir] % WRAP
      BY <1>1 DEF FifoOK
    <2>2. tail # fifoHead[dir]
      BY DEF SetAutoIssue, FifoFull
    <2>3. (issued[dir] + 1) % WRAP = tail
      BY <1>3, <1>4, RemainderUnique
    <2>4. (seen[dir] + WRAP) % WRAP = seen[dir] % WRAP
      <3>1. /\ seen[dir] \div WRAP \in Nat /\ seen[dir] % WRAP \in 0 .. WRAP - 1
            /\ seen[dir] = WRAP * (seen[dir] \div WRAP) + (seen[dir] % WRAP)
        BY <1>1, Remainder
      <3>2. seen[dir] + WRAP = WRAP * ((seen[dir] \div WRAP) + 1) + (seen[dir] % WRAP)
        BY <3>1
      <3>3. (WRAP * ((seen[dir] \div WRAP) + 1) + (seen[dir] % WRAP)) % WRAP = seen[dir] % WRAP
        <4>1. (seen[dir] \div WRAP) + 1 \in Nat
          BY <3>1
        <4>2. QED
          BY <4>1, <3>1, RemainderUnique
      <3>4. QED
        BY <3>2, <3>3
    <2>5. issued[dir] + 1 # seen[dir] + WRAP
      BY <2>1, <2>2, <2>3, <2>4
    <2>6. QED
      BY <2>1, <2>5, <1>1
  <1>6. /\ cnt <= MAX_OVERFLOW
        /\ fifoTail' = [fifoTail EXCEPT ![dir] = tail]
        /\ overFlowCnt' = [overFlowCnt EXCEPT ![dir] = cnt]
        /\ issued' = [issued EXCEPT ![dir] = issued[dir] + 1]
        /\ \/ /\ tailIndex' = [tailIndex EXCEPT ![dir] = tail]
              /\ tailAssistIndex' = [tailAssistIndex EXCEPT ![dir] = cnt]
              /\ mark' = [mark EXCEPT ![dir] = issued[dir] + 1]
           \/ UNCHANGED <<tailIndex, tailAssistIndex, mark>>
        /\ UNCHANGED <<fifoHead, dir, done, seen>> /\ pc' = "idle"
    BY DEF SetAutoIssue
  <1> HIDE DEF tail, cnt
  <1>7. CountsOK'
    BY <1>1, <1>3, <1>6 DEF IInv, CountsOK, Count
  <1>8. ASSUME NEW d \in Dir PROVE FifoOK(d)'
    <2>0. /\ issued[d] \in Nat /\ seen[d] \in Nat /\ done[d] \in Nat /\ mark[d] \in Nat
          /\ FifoOK(d) /\ dir \in Dir
          /\ issued \in Count /\ mark \in Count
          /\ DOMAIN fifoTail = Dir /\ DOMAIN overFlowCnt = Dir
          /\ DOMAIN tailIndex = Dir /\ DOMAIN tailAssistIndex = Dir
      BY <1>1 DEF IInv, CountsOK, Count
    <2>1. CASE d # dir
      BY <2>0, <2>1, <1>6 DEF FifoOK, Count
    <2>2. CASE d = dir
      <3>1. /\ issued'[d] = issued[d] + 1 /\ fifoTail'[d] = tail /\ overFlowCnt'[d] = cnt
            /\ \/ mark'[d] = issued[d] + 1 /\ tailIndex'[d] = tail /\ tailAssistIndex'[d] = cnt
               \/ mark'[d] = mark[d] /\ tailIndex'[d] = tailIndex[d]
                  /\ tailAssistIndex'[d] = tailAssistIndex[d]
            /\ seen'[d] = seen[d] /\ done'[d] = done[d] /\ fifoHead'[d] = fifoHead[d]
        BY <2>0, <2>2, <1>6 DEF Count
      <3>2. QED
        BY <3>1, <2>0, <2>2, <1>4, <1>5 DEF FifoOK
    <2>3. QED
      BY <2>1, <2>2
  <1>9. PcOK'
    BY <1>1, <1>6 DEF IInv, PcOK, PartialDoneExact
  <1>10. QED
    BY <1>7, <1>8, <1>9 DEF IInv

\* Every step of the firmware and of the engine preserves the invariant.
LEMMA NextPreserves == IInv /\ [DmaNext]_dmaVars => IInv'
  <1> SUFFICES ASSUME IInv, [DmaNext]_dmaVars PROVE IInv'
    OBVIOUS
  <1> USE HostDmaAssumption
  <1>0. \A d \in Dir : /\ issued[d] \in Nat /\ seen[d] \in Nat /\ done[d] \in Nat /\ mark[d] \in Nat
                       /\ FifoOK(d)
    BY DEF IInv, CountsOK, Count
  <1>1. ASSUME NEW d \in Dir, SetAutoBegin(d) PROVE IInv'
    <2>1. CountsOK' /\ \A e \in Dir : FifoOK(e)'
      BY <1>1, ReadKeeps DEF SetAutoBegin
    <2>2. PcOK'
      BY <1>1 DEF SetAutoBegin, PcOK, PartialDoneExact
    <2>3. QED
      BY <2>1, <2>2 DEF IInv
  <1>2. CASE SetAutoSpin
    <2>1. CountsOK' /\ \A e \in Dir : FifoOK(e)'
      BY <1>2, ReadKeeps DEF SetAutoSpin
    <2>2. PcOK'
      BY <1>2 DEF SetAutoSpin, IInv, PcOK, PartialDoneExact
    <2>3. QED
      BY <2>1, <2>2 DEF IInv
  <1>3. ASSUME NEW note \in BOOLEAN, SetAutoIssue(note) PROVE IInv'
    BY <1>3, IssueKeeps
  <1>4. ASSUME NEW d \in Dir, CheckDoneBegin(d) PROVE IInv'
    BY <1>4 DEF CheckDoneBegin, IInv, CountsOK, FifoOK, PcOK, PartialDoneExact
  <1>5. CASE CheckDoneSpin
    <2>1. CountsOK' /\ \A e \in Dir : FifoOK(e)'
      BY <1>5, ReadKeeps DEF CheckDoneSpin
    <2>2. PcOK'
      BY <1>5 DEF CheckDoneSpin, IInv, PcOK, PartialDoneExact
    <2>3. QED
      BY <2>1, <2>2 DEF IInv
  <1>6. CASE CheckDoneReturn
    <2>1. CountsOK' /\ \A e \in Dir : FifoOK(e)'
      BY <1>6 DEF CheckDoneReturn, IInv, CountsOK, FifoOK
    <2>2. dir \in Dir /\ fifoTail[dir] \in 0 .. WRAP - 1 /\ overFlowCnt[dir] \in Nat
      BY DEF IInv, PcOK, CountsOK
    <2>3. seen[dir] = issued[dir]
      <3> DEFINE q == seen[dir] \div WRAP
                 m == seen[dir] % WRAP
                 n == overFlowCnt[dir]
                 t == fifoTail[dir]
      <3>1. q \in Nat /\ m \in 0 .. WRAP - 1 /\ seen[dir] = WRAP * q + m
        BY <1>0, <2>2, Remainder
      <3>2. m = t
        BY <1>0, <1>6, <2>2 DEF CheckDoneReturn, FifoOK
      <3>3. /\ issued[dir] = WRAP * n + t
            /\ seen[dir] <= issued[dir] /\ issued[dir] < seen[dir] + WRAP
        BY <1>0, <2>2 DEF FifoOK
      <3>4. (q < n => WRAP * q + WRAP <= WRAP * n) /\ (n < q => WRAP * n + WRAP <= WRAP * q)
        BY <3>1, <2>2, LapGap
      <3>5. WRAP * q \in Nat /\ WRAP * n \in Nat
        BY <3>1, <2>2
      <3> HIDE DEF q, m, n, t
      <3>6. ~ (q < n) /\ ~ (n < q)
        BY <3>1, <3>2, <3>3, <3>4, <3>5
      <3>7. q = n
        BY <3>6, <3>1, <2>2 DEF n
      <3>8. QED
        BY <3>1, <3>2, <3>3, <3>7
    <2>4. PcOK'
      BY <1>6, <2>2, <2>3 DEF CheckDoneReturn, PcOK, PartialDoneExact
    <2>5. QED
      BY <2>1, <2>4 DEF IInv
  <1>7. ASSUME NEW d \in Dir, PartialDoneRead(d) PROVE IInv'
    <2>1. CountsOK' /\ \A e \in Dir : FifoOK(e)'
      BY <1>7, ReadKeeps DEF PartialDoneRead
    <2>2. PcOK'
      BY <1>7 DEF PartialDoneRead, PcOK, PartialDoneExact
    <2>3. QED
      BY <2>1, <2>2 DEF IInv
  <1>8. CASE PartialDoneReturn
    <2>1. CountsOK' /\ \A e \in Dir : FifoOK(e)'
      BY <1>8 DEF PartialDoneReturn, IInv, CountsOK, FifoOK
    <2>2. /\ dir \in Dir /\ fifoTail[dir] \in 0 .. WRAP - 1 /\ overFlowCnt[dir] \in Nat
          /\ tailIndex[dir] \in 0 .. WRAP - 1 /\ tailAssistIndex[dir] \in Nat
      BY DEF IInv, PcOK, CountsOK, Count
    <2>3. PartialDone(fifoHead[dir], fifoTail[dir], overFlowCnt[dir],
                      tailIndex[dir], tailAssistIndex[dir])
            <=> seen[dir] >= mark[dir]
      <3> DEFINE q == seen[dir] \div WRAP
                 m == seen[dir] % WRAP
      <3>1. q \in Nat /\ m \in 0 .. WRAP - 1 /\ seen[dir] = WRAP * q + m
        BY <1>0, <2>2, Remainder
      <3>2. /\ issued[dir] = WRAP * overFlowCnt[dir] + fifoTail[dir]
            /\ mark[dir] = WRAP * tailAssistIndex[dir] + tailIndex[dir]
            /\ fifoHead[dir] = m /\ mark[dir] <= issued[dir]
            /\ seen[dir] <= issued[dir] /\ issued[dir] < seen[dir] + WRAP
        BY <1>0, <2>2 DEF FifoOK
      <3> HIDE DEF q, m
      <3>3. PartialDone(m, fifoTail[dir], overFlowCnt[dir], tailIndex[dir], tailAssistIndex[dir])
              <=> WRAP * q + m >= WRAP * tailAssistIndex[dir] + tailIndex[dir]
        <4> DEFINE n == overFlowCnt[dir]
                   t == fifoTail[dir]
                   b == tailAssistIndex[dir]
                   r == tailIndex[dir]
        <4>1. /\ WRAP * q + m <= WRAP * n + t /\ WRAP * n + t < WRAP * q + m + WRAP
              /\ WRAP * b + r <= WRAP * n + t
          BY <3>1, <3>2
        <4>2. /\ n \in Nat /\ t \in 0 .. WRAP - 1 /\ b \in Nat /\ r \in 0 .. WRAP - 1
              /\ WRAP \in Nat \ {0}
          BY <2>2
        <4> HIDE DEF n, t, b, r
        <4>3. PartialDone(m, t, n, r, b) <=> WRAP * q + m >= WRAP * b + r
          BY <4>1, <4>2, <3>1, PartialDoneCorrect
        <4>4. QED
          BY <4>3 DEF n, t, b, r
      <3>4. QED
        BY <3>1, <3>2, <3>3
    <2>4. PcOK'
      <3>1. /\ pc' = "part_done" => seen[dir] >= mark[dir]
            /\ pc' = "not_done" => ~ (seen[dir] >= mark[dir])
            /\ pc' \in {"part_done", "not_done"}
        BY <1>8, <2>3 DEF PartialDoneReturn
      <3>2. pc' = "not_done" => seen[dir] < mark[dir]
        BY <3>1, <1>0, <2>2
      <3>3. UNCHANGED <<dir, seen, mark>>
        BY <1>8 DEF PartialDoneReturn
      <3>4. QED
        BY <3>1, <3>2, <3>3, <2>2 DEF PcOK, PartialDoneExact
    <2>5. QED
      BY <2>1, <2>4 DEF IInv
  <1>9. CASE Resume
    BY <1>9 DEF Resume, IInv, CountsOK, FifoOK, PcOK, PartialDoneExact
  <1>10. ASSUME NEW d \in Dir, EngineStep(d) PROVE IInv'
    <2>1. CountsOK'
      BY <1>10, <1>0 DEF EngineStep, IInv, CountsOK, Count
    <2>2. ASSUME NEW e \in Dir PROVE FifoOK(e)'
      <3>1. done'[e] = IF e = d THEN done[d] + 1 ELSE done[e]
        BY <1>10 DEF EngineStep, IInv, CountsOK, Count
      <3>2. seen[e] <= done'[e] /\ done'[e] <= issued[e]
        BY <3>1, <1>0, <1>10 DEF EngineStep, FifoOK
      <3>3. QED
        BY <3>2, <1>0, <1>10 DEF EngineStep, FifoOK
    <2>3. PcOK'
      BY <1>10 DEF EngineStep, IInv, PcOK, PartialDoneExact
    <2>4. QED
      BY <2>1, <2>2, <2>3 DEF IInv
  <1>11. CASE UNCHANGED dmaVars
    BY <1>11 DEF dmaVars, IInv, CountsOK, FifoOK, PcOK, PartialDoneExact
  <1>12. QED
    BY <1>1, <1>2, <1>3, <1>4, <1>5, <1>6, <1>7, <1>8, <1>9, <1>10, <1>11 DEF DmaNext, DmaFirmware

LEMMA IInvHolds == DmaSpec => []IInv
  <1>1. QED
    BY InitEstablishes, NextPreserves, PTL DEF DmaSpec

-----------------------------------------------------------------------------
\* The counters are the counts, for every width: HostDmaTypeOK of the
\* set_auto and check functions of host_lld.c.
THEOREM CountersAreCounts == DmaSpec => []HostDmaTypeOK
  <1>1. IInv => HostDmaTypeOK
    BY DEF IInv, CountsOK, FifoOK, PcOK, HostDmaTypeOK
  <1>2. QED
    BY <1>1, IInvHolds, PTL

\* The spin of set_auto_tx_dma and set_auto_rx_dma keeps less than a lap of
\* transfers in the FIFO.
THEOREM NeverOverrun == DmaSpec => []FifoNotOverrun
  <1>1. IInv => FifoNotOverrun
    <2> SUFFICES ASSUME IInv, NEW d \in Dir
                 PROVE  done[d] <= issued[d] /\ issued[d] < done[d] + WRAP
      BY DEF FifoNotOverrun
    <2>1. seen[d] \in Nat /\ done[d] \in Nat /\ issued[d] \in Nat /\ FifoOK(d)
      BY DEF IInv, CountsOK, Count
    <2>2. QED
      BY <2>1, HostDmaAssumption, SMTT(30) DEF FifoOK
  <1>2. QED
    BY <1>1, IInvHolds, PTL

\* When check_auto_dma_done returns, every transfer issued is finished.
THEOREM CheckDoneSound == DmaSpec => []DoneMeansDone
  <1>1. IInv => DoneMeansDone
    <2> SUFFICES ASSUME IInv, pc = "all_done" PROVE done[dir] = issued[dir]
      BY DEF DoneMeansDone
    <2>1. seen[dir] \in Nat /\ done[dir] \in Nat /\ issued[dir] \in Nat /\ FifoOK(dir)
      BY DEF IInv, PcOK, CountsOK, Count
    <2>2. QED
      BY <2>1 DEF FifoOK, IInv, PcOK
  <1>2. QED
    BY <1>1, IInvHolds, PTL

\* The answer of check_auto_dma_partial_done is exact for a transfer of any age.
THEOREM PartialDoneIsExact == DmaSpec => []PartialDoneExact
  <1>1. IInv => PartialDoneExact
    BY DEF IInv, PcOK
  <1>2. QED
    BY <1>1, IInvHolds, PTL

\* What the firmware concludes from the counters of host_lld.c is right, for
\* every width of the counters.
THEOREM CountersAreRight == DmaSpec => []CountersExact
  <1>1. FifoNotOverrun /\ DoneMeansDone /\ PartialDoneExact => CountersExact
    BY DEF CountersExact
  <1>2. QED
    BY <1>1, NeverOverrun, CheckDoneSound, PartialDoneIsExact, PTL
=============================================================================
