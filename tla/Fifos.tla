------------------------------- MODULE Fifos --------------------------------
(***************************************************************************)
(* What the queues of the program promise: a family of bounded FIFO queues, *)
(* an addition that is refused when the queue is full and a removal that    *)
(* returns the oldest element or nothing.                                   *)
(***************************************************************************)
EXTENDS Integers, Sequences, Queues

CONSTANTS Key, Elem, Cap, NULL

VARIABLES
  q,    \* the elements of each queue, oldest first
  ret   \* what the last removal returned

FifoInit == q = [k \in Key |-> << >>] /\ ret = NULL

Add(k, e) == Len(q[k]) < Cap /\ q' = Enqueue(q, k, e) /\ UNCHANGED ret

Refuse(k) == Len(q[k]) = Cap /\ UNCHANGED <<q, ret>>

Remove(k) == q[k] # << >> /\ ret' = Head(q[k]) /\ q' = Dequeue(q, k)

RemoveNone(k) == q[k] = << >> /\ ret' = NULL /\ UNCHANGED q

FifoNext ==
  \E k \in Key : Refuse(k) \/ Remove(k) \/ RemoveNone(k) \/ \E e \in Elem : Add(k, e)

FifoSpec == FifoInit /\ [][FifoNext]_<<q, ret>>
=============================================================================
