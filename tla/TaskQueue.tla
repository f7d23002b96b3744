----------------------------- MODULE TaskQueue ------------------------------
(***************************************************************************)
(* The task queues of ftl_taskqueue.c as they are stored: an array used as  *)
(* a ring with u8 indices and a u16 count.  They implement the FIFO queues  *)
(* the pipeline is specified with.                                          *)
(***************************************************************************)
EXTENDS Integers, Sequences

CONSTANTS
  Status,          \* the queues
  Hcmd,            \* the host command entries
  TASK_QUEUE_MAX,  \* capacity of one queue
  U8, U16,         \* number of values of the two integer types
  NULL

ASSUME TaskQueueAssumption ==
  /\ TASK_QUEUE_MAX \in Nat \ {0} /\ U8 \in Nat /\ U16 \in Nat
  /\ TASK_QUEUE_MAX <= U8 /\ TASK_QUEUE_MAX < U16
  /\ NULL \notin Hcmd

VARIABLES
  task_queue,  \* ftl_task_queue[status]
  ret          \* what the last FTL_task_queue_remove_head returned

tqVars == <<task_queue, ret>>

Index == 0 .. TASK_QUEUE_MAX - 1

Init ==
  /\ task_queue = [s \in Status |->
       [head |-> 0, tail |-> 0, cnt |-> 0, queue |-> [j \in Index |-> NULL]]]
  /\ ret = NULL

is_empty(s) == task_queue[s].cnt = 0
is_full(s) == task_queue[s].cnt = TASK_QUEUE_MAX

\* A ring index after the given one, in a u8 variable.
NextIndex(x) == ((x + 1) % TASK_QUEUE_MAX) % U8

remove_head(s) ==
  IF is_empty(s)
    THEN ret' = NULL /\ UNCHANGED task_queue
    ELSE LET old_head == task_queue[s].head
         IN /\ task_queue' = [task_queue EXCEPT
                 ![s].cnt = @ - 1, ![s].head = NextIndex(old_head)]
            /\ ret' = task_queue[s].queue[old_head]

\* Mutant: the count is a u8 like the indices.
add_tail_u8(h, s) ==
  IF is_full(s)
    THEN UNCHANGED tqVars
    ELSE LET old_tail == task_queue[s].tail
         IN /\ task_queue' = [task_queue EXCEPT
                 ![s].cnt = (@ + 1) % U8, ![s].tail = NextIndex(old_tail),
                 ![s].queue[old_tail] = h]
            /\ UNCHANGED ret

add_tail(h, s) ==
  IF is_full(s)
    THEN UNCHANGED tqVars
    ELSE LET old_tail == task_queue[s].tail
         IN /\ task_queue' = [task_queue EXCEPT
                 ![s].cnt = (@ + 1) % U16, ![s].tail = NextIndex(old_tail),
                 ![s].queue[old_tail] = h]
            /\ UNCHANGED ret

Next == \E s \in Status : remove_head(s) \/ \E h \in Hcmd : add_tail(h, s)

Spec == Init /\ [][Next]_tqVars

-----------------------------------------------------------------------------
Ring == [head : Index, tail : Index, cnt : 0 .. TASK_QUEUE_MAX,
         queue : [Index -> Hcmd \cup {NULL}]]

\* The count is the distance from head to tail and the cells between hold hcmds.
Spans(r) ==
  /\ r.tail = (r.head + r.cnt) % TASK_QUEUE_MAX
  /\ \A k \in 0 .. r.cnt - 1 : r.queue[(r.head + k) % TASK_QUEUE_MAX] # NULL

\* The indices stay inside the ring, the count is the distance between them,
\* and the cells between them, whatever the stale ones hold, are never NULL.
RingOK ==
  /\ ret \in Hcmd \cup {NULL}
  /\ task_queue \in [Status -> Ring]
  /\ \A s \in Status : Spans(task_queue[s])

\* The elements of a ring, from its head.
Contents(r) == [k \in 1 .. r.cnt |-> r.queue[(r.head + (k - 1)) % TASK_QUEUE_MAX]]

AbsQ == [s \in Status |-> Contents(task_queue[s])]

F == INSTANCE Fifos WITH Key <- Status, Elem <- Hcmd, Cap <- TASK_QUEUE_MAX, q <- AbsQ

\* The rings are FIFO queues of TASK_QUEUE_MAX entries: the indices wrap
\* around, a full ring is told from an empty one (head = tail in both) and the
\* stale pointers that removals leave behind are never returned.
ImplementsFifo == F!FifoSpec
=============================================================================
