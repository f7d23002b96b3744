------------------------------- MODULE Queues -------------------------------
(***************************************************************************)
(* Families of queues: functions from places to sequences.                 *)
(***************************************************************************)
EXTENDS Integers, Sequences, Functions

\* Remove the head of queue s; append e to queue s.
Dequeue(q, s) == [q EXCEPT ![s] = Tail(@)]
Enqueue(q, s, e) == [q EXCEPT ![s] = Append(@, e)]

\* No value occurs twice in the sequences of q, wherever.
NoRepeat(q) ==
  \A s, t \in DOMAIN q : \A k \in 1 .. Len(q[s]), l \in 1 .. Len(q[t]) :
    q[s][k] = q[t][l] => s = t /\ k = l

\* The values in the sequences of q.
Members(q) == UNION {Range(q[s]) : s \in DOMAIN q}
=============================================================================
