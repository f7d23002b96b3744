------------------------------- MODULE Buffer -------------------------------
(***************************************************************************)
(* The buffer cache: a free list, a list in order of allocation, a hash     *)
(* table by page number and, for each host command, the list of its         *)
(* buffers.  A buffer has one list_node for each.  The FTL thread is the    *)
(* only user.  The calls are the ones FTL_handle_checkcache and             *)
(* FTL_handle_finish contain as comments; the pipeline does not make them   *)
(* at present, so this module stands by itself.                             *)
(***************************************************************************)
EXTENDS Integers, Sequences, Functions, LinkedList

CONSTANTS
  BUFFER_NUMBER, HASH_TABLE_SIZE,
  HCMD_NUM,  \* host commands, each with a list of buffers
  LPN_NUM,   \* bound: page numbers 0 .. LPN_NUM - 1
  MAX_REQ    \* bound: pages of one command

VARIABLES
  mem,    \* next, prev: all links; lpn: of each buffer; cnt: of each command
  pages,  \* pages[h]: history, the pages command h has asked for so far
  cur,    \* the command FTL_handle_checkcache works on
  todo,   \* the pages it has still to ask for
  up,     \* FALSE once the FTL thread loops for ever
  shared  \* history: a buffer was added to a list while it was in a list

bufVars == <<mem, pages, cur, todo, up, shared>>

Buf == 0 .. BUFFER_NUMBER - 1
HcmdNr == 0 .. HCMD_NUM - 1
Lpn == 0 .. LPN_NUM - 1
INVALID_ID == -1  \* 0xffffffff

\* The list nodes of a buffer and the list heads.
free_list_node(b) == <<"free", b>>
lru_list_node(b) == <<"lru", b>>
hash_table_node(b) == <<"hash", b>>
hcmd_buf_list_node(b) == <<"hcmd", b>>
free_buf_list_head == <<"free_head", 0>>
lru_buf_list_head == <<"lru_head", 0>>
hash_table(k) == <<"hash_head", k>>
table_entry(h) == <<"hcmd_head", h>>

Heads == {free_buf_list_head, lru_buf_list_head}
           \cup {hash_table(k) : k \in 0 .. HASH_TABLE_SIZE - 1}
           \cup {table_entry(h) : h \in HcmdNr}
Nodes == Heads \cup ({"free", "lru", "hash", "hcmd"} \X Buf)

\* container_of: the buffers of a list in the order of the list.
Entries(m, head) ==
  LET ns == list_nodes(m, head, BUFFER_NUMBER + 1)
  IN [k \in DOMAIN ns |-> ns[k][2]]

-----------------------------------------------------------------------------
(* The hash table.                                                          *)

get_hash_code(key) == key % HASH_TABLE_SIZE

insert_hash_table_entry(m, key, b) ==
  list_add_tail(m, hash_table_node(b), hash_table(get_hash_code(key)))

\* The first buffer of the chain with this page, or INVALID_ID.
search_hash_table_entry(m, key) ==
  LET hits == SelectSeq(Entries(m, hash_table(get_hash_code(key))), LAMBDA b : m.lpn[b] = key)
  IN IF hits = << >> THEN INVALID_ID ELSE Head(hits)

delete_hash_table_entry(m, key) ==
  LET b == search_hash_table_entry(m, key)
  IN IF b = INVALID_ID THEN m ELSE list_delete(m, hash_table_node(b))

L2P_check_buf_hit(m, key) == search_hash_table_entry(m, key)

-----------------------------------------------------------------------------
(* Buffers.                                                                 *)

\* L2P_init_buffer: all buffers free, in order, all other lists empty.  It
\* leaves hcmd_buf_list_node alone, which is written before it is read.
InitMem ==
  LET NULLs == [x \in Nodes |-> IF x \in Heads THEN x ELSE Nil]
      empty == [next |-> NULLs, prev |-> NULLs,
                lpn |-> [b \in Buf |-> INVALID_ID], cnt |-> [h \in HcmdNr |-> 0]]
      added[k \in 0 .. BUFFER_NUMBER] ==
        IF k = 0 THEN empty ELSE list_add_tail(added[k - 1], free_list_node(k - 1), free_buf_list_head)
  IN added[BUFFER_NUMBER]

\* The buffer L2P_allocate_buf takes: the first free one, else the oldest.
Victim(m) ==
  IF list_empty(m, free_buf_list_head)
    THEN m.prev[lru_buf_list_head][2]
    ELSE m.next[free_buf_list_head][2]

\* Mutants: the page that leaves stays in the hash table; the buffer goes to
\* the end where the next one is taken from.
AllocateKeepsHash(m, lpn) ==
  LET b == Victim(m)
      m1 == IF list_empty(m, free_buf_list_head)
              THEN list_delete_tail(m, lru_buf_list_head)
              ELSE list_delete_head(m, free_buf_list_head)
      m2 == list_add_head(m1, lru_list_node(b), lru_buf_list_head)
  IN [insert_hash_table_entry(m2, lpn, b) EXCEPT !.lpn[b] = lpn]

AllocateAtTail(m, lpn) ==
  LET b == Victim(m)
      m1 == IF list_empty(m, free_buf_list_head)
              THEN list_delete_tail(delete_hash_table_entry(m, m.lpn[b]), lru_buf_list_head)
              ELSE list_delete_head(m, free_buf_list_head)
      m2 == list_add_tail(m1, lru_list_node(b), lru_buf_list_head)
  IN [insert_hash_table_entry(m2, lpn, b) EXCEPT !.lpn[b] = lpn]

\* The buffer comes from the free list or, when that is empty, from the end of
\* the other list, with the page it held leaving the hash table.
L2P_allocate_buf(m, lpn) ==
  LET b == Victim(m)
      m1 == IF list_empty(m, free_buf_list_head)
              THEN list_delete_tail(delete_hash_table_entry(m, m.lpn[b]), lru_buf_list_head)
              ELSE list_delete_head(m, free_buf_list_head)
      m2 == list_add_head(m1, lru_list_node(b), lru_buf_list_head)
  IN [insert_hash_table_entry(m2, lpn, b) EXCEPT !.lpn[b] = lpn]

L2P_hcmd_add_buffer(m, h, b, lpn) ==
  LET m1 == list_add_tail(m, hcmd_buf_list_node(b), table_entry(h))
  IN [m1 EXCEPT !.lpn[b] = lpn, !.cnt[h] = @ + 1]

\* list_delete_tail until the list is empty, or for ever when a deletion has
\* no effect.
RECURSIVE Emptied(_, _)
Emptied(m, h) ==
  LET m1 == list_delete_tail(m, table_entry(h))
  IN IF list_empty(m, table_entry(h)) \/ m1 = m THEN m ELSE Emptied(m1, h)

\* Mutant: the count of the command is not reset.
HcmdFreeKeepsCnt(m, h) == Emptied(m, h)

\* The buffers leave the list of the command and stay in the cache.
L2P_hcmd_free_buf(m, h) == [Emptied(m, h) EXCEPT !.cnt[h] = 0]

\* What the handlers read: how many buffers, and the buffer and the page at a
\* place of the list.
L2P_get_hcmd_buff_cnt(m, h) == m.cnt[h]
L2P_hcmd_get_buffer(m, h, offset) == Entries(m, table_entry(h))[offset + 1]
L2P_hcmd_buf_get_lpn(m, h, offset) == m.lpn[L2P_hcmd_get_buffer(m, h, offset)]

-----------------------------------------------------------------------------
Init ==
  /\ mem = InitMem
  /\ pages = [h \in HcmdNr |-> << >>]
  /\ cur = 0 /\ todo = << >>
  /\ up = TRUE /\ shared = FALSE

\* FTL_handle_checkcache is called for a command of n pages from lpn on.
CheckcacheStart(h, lpn, n) ==
  /\ up /\ todo = << >> /\ pages[h] = << >>
  /\ lpn + n <= LPN_NUM
  /\ cur' = h /\ todo' = [k \in 1 .. n |-> lpn + k - 1]
  /\ UNCHANGED <<mem, pages, up, shared>>

\* One turn of its loop: a hit, or an allocation, then the list of the command.
CheckcachePage ==
  LET lpn == Head(todo)
      hit == L2P_check_buf_hit(mem, lpn)
      b == IF hit # INVALID_ID THEN hit ELSE Victim(mem)
      m == IF hit # INVALID_ID THEN mem ELSE L2P_allocate_buf(mem, lpn)
  IN /\ up /\ todo # << >>
     /\ mem' = L2P_hcmd_add_buffer(m, cur, b, lpn)
     /\ shared' = (shared \/ m.next[hcmd_buf_list_node(b)] # Nil)
     /\ pages' = [pages EXCEPT ![cur] = Append(@, lpn)]
     /\ todo' = Tail(todo)
     /\ UNCHANGED <<cur, up>>

\* FTL_handle_finish gives the buffers back.  On a broken list the loop of
\* L2P_hcmd_free_buf does not end.
Finish(h) ==
  /\ up /\ todo = << >> /\ pages[h] # << >>
  /\ mem' = L2P_hcmd_free_buf(mem, h)
  /\ up' = list_empty(Emptied(mem, h), table_entry(h))
  /\ pages' = [pages EXCEPT ![h] = << >>]
  /\ UNCHANGED <<cur, todo, shared>>

Next ==
  \/ \E h \in HcmdNr, lpn \in Lpn, n \in 1 .. MAX_REQ : CheckcacheStart(h, lpn, n)
  \/ CheckcachePage
  \/ \E h \in HcmdNr : Finish(h)

Spec == Init /\ [][Next]_bufVars

-----------------------------------------------------------------------------
Free == Entries(mem, free_buf_list_head)
Lru == Entries(mem, lru_buf_list_head)
Chain(k) == Entries(mem, hash_table(k))

\* A list read backwards along prev is the list read along next.
Linked(head) ==
  LET ns == <<head>> \o list_nodes(mem, head, BUFFER_NUMBER + 1) \o <<head>>
  IN \A k \in 1 .. Len(ns) - 1 : mem.prev[ns[k + 1]] = ns[k]

\* The free list, the allocation order and the hash chains stay proper lists,
\* whatever happens to the lists of the commands: next and prev agree, and a
\* buffer is in exactly one of the free list and the order of allocation.
\* list_add_tail never follows a Nil link of a command's list head.
BufferListsOK ==
  /\ \A head \in Heads \ {table_entry(h) : h \in HcmdNr} : Linked(head)
  /\ Len(Free) + Len(Lru) = BUFFER_NUMBER
  /\ Range(Free) \cup Range(Lru) = Buf
  /\ up => \A h \in HcmdNr : mem.prev[table_entry(h)] # Nil

\* "hash table's entries equal lru list's entries" (L2P_check_buf_hit): a page
\* is found if and only if a buffer in the order of allocation holds it, that
\* buffer is the one found, and no page is held twice.
HashEqualsLru ==
  /\ \A b \in Range(Lru) : L2P_check_buf_hit(mem, mem.lpn[b]) = b
  /\ UNION {Range(Chain(k)) : k \in 0 .. HASH_TABLE_SIZE - 1} = Range(Lru)

\* As long as no buffer in use was added to a list again, the list of a
\* command is the pages it asked for, in order, with the right count, and
\* the loop of L2P_hcmd_free_buf ends.
HcmdListsExact ==
  ~shared =>
    /\ up
    /\ \A h \in HcmdNr :
         /\ L2P_get_hcmd_buff_cnt(mem, h) = Len(pages[h])
         /\ Len(Entries(mem, table_entry(h))) = Len(pages[h])
         /\ \A o \in 0 .. Len(pages[h]) - 1 : L2P_hcmd_buf_get_lpn(mem, h, o) = pages[h][o + 1]

Cache == INSTANCE PageCache WITH Page <- Lpn, Size <- BUFFER_NUMBER,
                                 cached <- [k \in DOMAIN Lru |-> mem.lpn[Lru[k]]]

\* The cache holds the pages allocated last, each once, and drops the oldest.
ImplementsCache == Cache!CacheSpec
=============================================================================
