----------------------------- MODULE LinkedList -----------------------------
(***************************************************************************)
(* The circular doubly linked lists of lib/list.c.  A memory m holds the    *)
(* links m.next and m.prev of every list_node; a function of list.c is an   *)
(* operator from memories to memories.                                      *)
(***************************************************************************)
EXTENDS Naturals, Sequences

Nil == <<"null", 0>>

list_empty(m, head) == m.next[head] = head

list_add(m, new, prev, next) ==
  [m EXCEPT !.next = [@ EXCEPT ![new] = next, ![prev] = new],
            !.prev = [@ EXCEPT ![next] = new, ![new] = prev]]

list_add_tail(m, new, head) == list_add(m, new, m.prev[head], head)
list_add_head(m, new, head) == list_add(m, new, head, m.next[head])

\* Mutant: the node after the deleted one keeps its back link.
ListDeleteOneWay(m, node) ==
  IF node = Nil \/ m.next[node] = Nil \/ m.prev[node] = Nil
    THEN m
    ELSE [m EXCEPT !.next = [@ EXCEPT ![m.prev[node]] = m.next[node], ![node] = Nil],
                   !.prev = [@ EXCEPT ![node] = Nil]]

\* A node that is in no list has Nil links and is left alone.
list_delete(m, node) ==
  IF node = Nil \/ m.next[node] = Nil \/ m.prev[node] = Nil
    THEN m
    ELSE [m EXCEPT !.next = [@ EXCEPT ![m.prev[node]] = m.next[node], ![node] = Nil],
                   !.prev = [@ EXCEPT ![m.next[node]] = m.prev[node], ![node] = Nil]]

list_delete_tail(m, head) == list_delete(m, m.prev[head])
list_delete_head(m, head) == list_delete(m, m.next[head])

\* The nodes list_for_each_entry visits from node x on, at most max of them.
RECURSIVE nodes_from(_, _, _, _)
nodes_from(m, head, x, max) ==
  IF x = head \/ x = Nil \/ max = 0
    THEN << >>
    ELSE <<x>> \o nodes_from(m, head, m.next[x], max - 1)

list_nodes(m, head, max) == nodes_from(m, head, m.next[head], max)
=============================================================================
