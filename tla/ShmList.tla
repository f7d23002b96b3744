------------------------------ MODULE ShmList -------------------------------
(***************************************************************************)
(* FREE_LIST and RDY_LIST as they are stored in the shared memory: doubly   *)
(* linked lists whose links are slot numbers, CMD_SLOT_NUM standing for no  *)
(* slot.  Each operation runs under CTRL_BYTE (Shm: MutualExclusion), so it *)
(* is one step; they implement the FIFO lists of module Shm.                *)
(***************************************************************************)
EXTENDS Integers, Sequences, FiniteSets, Functions

CONSTANT CMD_SLOT_NUM  \* number of slots, at least one

VARIABLES
  head,  \* FREE_LIST_HEAD, RDY_LIST_HEAD
  slot,  \* link fields of the slots
  n,     \* loop index of SHM_init
  ret    \* what the last shm_list_remove returned

listVars == <<head, slot, n, ret>>

Slot == 0 .. CMD_SLOT_NUM - 1
FREE_LIST == 1
RDY_LIST == 2
ListType == {FREE_LIST, RDY_LIST}

\* SHM_init: everything is zeroed, then the list heads are made empty.
Init ==
  /\ head = [l \in ListType |-> [next |-> CMD_SLOT_NUM, prev |-> CMD_SLOT_NUM]]
  /\ slot = [s \in Slot |-> [next |-> 0, prev |-> 0]]
  /\ n = 0 /\ ret = CMD_SLOT_NUM

shm_list_empty(l) == head[l].next = CMD_SLOT_NUM

\* Mutant: in a list with elements the next link of the new one is not set.
ListAddStale(s, l) ==
  LET slot_tail == head[l].prev
  IN /\ head' = [head EXCEPT ![l] = [next |-> IF shm_list_empty(l) THEN s ELSE @.next, prev |-> s]]
     /\ slot' = IF shm_list_empty(l)
                  THEN [slot EXCEPT ![s] = head[l]]
                  ELSE [slot EXCEPT ![s].prev = slot_tail, ![slot_tail].next = s]
     /\ UNCHANGED ret

\* The new element takes over the next link of the list head or of the tail.
shm_list_add(s, l) ==
  LET slot_tail == head[l].prev
  IN /\ head' = [head EXCEPT ![l] = [next |-> IF shm_list_empty(l) THEN s ELSE @.next, prev |-> s]]
     /\ slot' = IF shm_list_empty(l)
                  THEN [slot EXCEPT ![s] = head[l]]
                  ELSE [slot EXCEPT ![s] = [next |-> slot[slot_tail].next, prev |-> slot_tail],
                                    ![slot_tail].next = s]
     /\ UNCHANGED ret

\* Mutant: the element after the removed one keeps its back link.
ListRemoveStale(l) ==
  LET s == head[l].next
      slot_head == slot[s].next
  IN IF shm_list_empty(l)
       THEN ret' = CMD_SLOT_NUM /\ UNCHANGED <<head, slot, n>>
       ELSE /\ ret' = s
            /\ head' = [head EXCEPT ![l] = [next |-> slot_head,
                 prev |-> IF slot_head = CMD_SLOT_NUM THEN CMD_SLOT_NUM ELSE @.prev]]
            /\ UNCHANGED <<slot, n>>

shm_list_remove(l) ==
  LET s == head[l].next
      slot_head == slot[s].next
  IN IF shm_list_empty(l)
       THEN ret' = CMD_SLOT_NUM /\ UNCHANGED <<head, slot, n>>
       ELSE /\ ret' = s
            /\ IF slot_head = CMD_SLOT_NUM
                 THEN /\ head' = [head EXCEPT ![l] = [next |-> CMD_SLOT_NUM, prev |-> CMD_SLOT_NUM]]
                      /\ slot' = slot
                 ELSE /\ head' = [head EXCEPT ![l].next = slot_head]
                      /\ slot' = [slot EXCEPT ![slot_head].prev = slot[s].prev]
            /\ n' = n

-----------------------------------------------------------------------------
\* The slots of a list, following the next links.
Chain(l) ==
  LET hop[k \in 0 .. CMD_SLOT_NUM] ==
        IF k = 0 THEN head[l].next
        ELSE IF hop[k - 1] = CMD_SLOT_NUM THEN CMD_SLOT_NUM ELSE slot[hop[k - 1]].next
      len == Cardinality({k \in 0 .. CMD_SLOT_NUM : hop[k] # CMD_SLOT_NUM})
  IN IF head[l].next = CMD_SLOT_NUM THEN << >> ELSE [k \in 1 .. len |-> hop[k - 1]]

\* SHM_init adds the slots in turn; then any slot that is in no list, being in
\* the hands of a process, may be added to either.
InitAdd == n < CMD_SLOT_NUM /\ shm_list_add(n, FREE_LIST) /\ n' = n + 1

InHands == {s \in Slot : \A l \in ListType : s \notin Range(Chain(l))}

Use ==
  /\ n = CMD_SLOT_NUM
  /\ \E l \in ListType : \/ shm_list_remove(l)
                         \/ \E s \in InHands : shm_list_add(s, l) /\ UNCHANGED n

Next == InitAdd \/ Use

Spec == Init /\ [][Next]_listVars

-----------------------------------------------------------------------------
\* Next and prev links of a list agree, from the head's next to its prev: the
\* prev links, which only shm_list_add reads, always lead to the real tail.
LinksAgree ==
  \A l \in ListType : LET c == Chain(l) IN
    /\ Len(c) <= CMD_SLOT_NUM
    /\ head[l].prev = IF c = << >> THEN CMD_SLOT_NUM ELSE c[Len(c)]
    /\ \A k \in DOMAIN c : slot[c[k]].prev = IF k = 1 THEN CMD_SLOT_NUM ELSE c[k - 1]

F == INSTANCE Fifos WITH Key <- ListType, Elem <- Slot, Cap <- CMD_SLOT_NUM,
                         NULL <- CMD_SLOT_NUM, q <- [l \in ListType |-> Chain(l)]

\* The linked lists are FIFO lists: whatever stale links the slots carry when
\* they are added, no list loses, repeats or reorders a slot.
ImplementsFifo == F!FifoSpec
=============================================================================
