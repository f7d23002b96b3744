---------------------------- MODULE SafetyParts ----------------------------
(***************************************************************************)
(* Ten parts that share no state here, checked for safety in one run: the   *)
(* shared memory, its linked lists, the rings of ftl_taskqueue.c, the       *)
(* buffer cache, the address mapping and the flash log of the emulator, and *)
(* the verify threads, the file locks, the flow groups and the random maps  *)
(* of fio.  SafetyInit picks the part that runs; the others keep their      *)
(* initial state, so the states of the run are those of the ten parts one   *)
(* after the other.                                                         *)
(***************************************************************************)
EXTENDS Shm, TaskQueue, VerifyAsync

CONSTANTS
  LIST_SLOT_NUM,                                              \* ShmList
  BUFFER_NUMBER, HASH_TABLE_SIZE, HCMD_NUM, LPN_NUM, MAX_REQ, \* Buffer
  TOTAL_CHANNEL, NORMAL_CHANNEL, CE_PER_CH, PLANE_PER_CE,
  PAGE_PER_BLOCK_SLC_MODE, ROWS,                              \* L2P
  Page, Byte, DATA_LEN, MAX_WRITES, KILLS, NONE,              \* FlashLog
  Flusher, Hash, MAX_FILELOCKS,                               \* FileLock
  FlowJob, MAX_WEIGHT, MAX_IO,                                \* Flow
  UNIT_SHIFT, FileBlocks, LfsrBlocks, MAX_NR                  \* RandomMap

ASSUME SafetyPartsAssumption ==
  /\ LIST_SLOT_NUM \in Nat \ {0}
  /\ BUFFER_NUMBER \in Nat \ {0} /\ HASH_TABLE_SIZE \in Nat \ {0}
  /\ HCMD_NUM \in Nat \ {0} /\ LPN_NUM \in Nat \ {0} /\ MAX_REQ \in 1 .. LPN_NUM
  /\ NORMAL_CHANNEL \subseteq 0 .. TOTAL_CHANNEL - 1 /\ NORMAL_CHANNEL # {}
  /\ {CE_PER_CH, PLANE_PER_CE, PAGE_PER_BLOCK_SLC_MODE, ROWS} \subseteq Nat \ {0}
  /\ DATA_LEN \in Nat \ {0} /\ MAX_WRITES \in Nat /\ KILLS \in BOOLEAN
  /\ Flusher # {} /\ Hash # {} /\ MAX_FILELOCKS \in Nat \ {0}
  /\ FlowJob # {} /\ {MAX_WEIGHT, MAX_IO} \subseteq Nat
  /\ {UNIT_SHIFT, MAX_NR} \cup FileBlocks \cup LfsrBlocks \subseteq Nat \ {0}

VARIABLES
  part,                               \* the part that runs
  head, slot, n, list_ret,            \* ShmList
  mem, pages, cur, buf_todo, up, shared,  \* Buffer
  calc, block, page, plane, ce, ch, circle_num, target, ppa, addr,  \* L2P
  file, be_io, want, pos, parsed, buf, writes, latest, last,        \* FlashLog
  lock_list, free_list, hash, references, lock, at, name, try, ff,  \* FileLock
  refs, flow_counter, total_weight, weight, td_flow, td_counter, fpc, ratio, main, out, \* Flow
  gen, nr, seed, spin, fl, map, b, covered, twice, over             \* RandomMap

List == INSTANCE ShmList WITH CMD_SLOT_NUM <- LIST_SLOT_NUM, ret <- list_ret
Buffers == INSTANCE Buffer WITH todo <- buf_todo
Mapping == INSTANCE L2P
Log == INSTANCE FlashLog
Locks == INSTANCE FileLock WITH list <- lock_list
Group == INSTANCE Flow
Random == INSTANCE RandomMap WITH Blocks <- FileBlocks

listVars == <<head, slot, n, list_ret>>
bufVars == <<mem, pages, cur, buf_todo, up, shared>>
l2pVars == <<calc, block, page, plane, ce, ch, circle_num, target, ppa, addr>>
logVars == <<file, be_io, want, pos, parsed, buf, writes, latest, last>>
lockVars == <<lock_list, free_list, hash, references, lock, at, name, try, ff>>
flowVars == <<refs, flow_counter, total_weight, weight, td_flow, td_counter, fpc, ratio, main, out>>
randomVars == <<gen, nr, seed, spin, fl, map, b, covered, twice, over>>
safetyVars == <<part, shmVars, tqVars, listVars, bufVars, l2pVars, logVars, verifyVars, lockVars,
                flowVars, randomVars>>

\* The options of a part are free where it runs.
SafetyInit ==
  /\ part \in {"shm", "ring", "list", "cache", "l2p", "log", "verify", "lock", "flow", "random"}
  /\ ShmInit /\ Init /\ List!Init /\ Buffers!Init /\ Mapping!Init /\ Log!Init /\ Locks!Init
  /\ VerifyInit /\ (part # "verify" => ~proceed /\ ~fatal)
  /\ Group!Init /\ (part # "flow" => \A j \in FlowJob : weight[j] = 0)
  /\ Random!Init
  /\ part # "random" => gen = "tausworthe" /\ nr = CHOOSE x \in FileBlocks : TRUE

\* The parts that do not run.
Rest ==
  /\ IF part = "shm" THEN TRUE ELSE UNCHANGED shmVars
  /\ IF part = "ring" THEN TRUE ELSE UNCHANGED tqVars
  /\ IF part = "list" THEN TRUE ELSE UNCHANGED listVars
  /\ IF part = "cache" THEN TRUE ELSE UNCHANGED bufVars
  /\ IF part = "l2p" THEN TRUE ELSE UNCHANGED l2pVars
  /\ IF part = "log" THEN TRUE ELSE UNCHANGED logVars
  /\ IF part = "verify" THEN TRUE ELSE UNCHANGED verifyVars
  /\ IF part = "lock" THEN TRUE ELSE UNCHANGED lockVars
  /\ IF part = "flow" THEN TRUE ELSE UNCHANGED flowVars
  /\ IF part = "random" THEN TRUE ELSE UNCHANGED randomVars

SafetyNext ==
  /\ part' = part
  /\ \/ part = "shm" /\ ShmNext /\ Rest
     \/ part = "ring" /\ Next /\ Rest
     \/ part = "list" /\ List!Next /\ Rest
     \/ part = "cache" /\ Buffers!Next /\ Rest
     \/ part = "l2p" /\ Mapping!Next /\ Rest
     \/ part = "log" /\ Log!Next /\ Rest
     \/ part = "verify" /\ VerifyNext /\ Rest
     \/ part = "lock" /\ Locks!Next /\ Rest
     \/ part = "flow" /\ Group!Next /\ Rest
     \/ part = "random" /\ Random!Next /\ Rest

SafetySpec == SafetyInit /\ [][SafetyNext]_safetyVars

-----------------------------------------------------------------------------
\* ShmList: the linked lists are FIFO lists, whatever stale links the slots
\* carry when they are added, and their next and prev links agree.
ListImplementsFifo == List!ImplementsFifo /\ [](part = "list" => List!LinksAgree)

\* Buffer: the free list, the order of allocation and the hash chains stay
\* proper lists; a page is found in the hash table if and only if one buffer in
\* use holds it; the list of a command is the pages it asked for, in order, as
\* long as no buffer in use was added to a list again.
CacheListsExact ==
  part = "cache" => Buffers!BufferListsOK /\ Buffers!HashEqualsLru /\ Buffers!HcmdListsExact

\* Buffer: the cache holds the pages allocated last and drops the oldest.
ImplementsCache == Buffers!ImplementsCache

\* L2P: both functions find the one flash page with the number asked for, on a
\* normal channel; only an offset behind the object has no page.
MappingExact == part = "l2p" => Mapping!MappingExact

\* FlashLog: the page written last is read back, whatever unfinished records
\* lie before it in the file.
LastWrittenIsRead == part = "log" => Log!LastWrittenIsRead

\* FileLock: a log is written by one thread at a time, whatever the size of the
\* pool, references are counted exactly and no thread sleeps beside a free lock.
FileLocksExact == part = "lock" => Locks!FileLocksExact

\* Flow: the group's counter is one more than the requests of its jobs, some job
\* may always issue its next request, and none runs ahead of its weight.
FlowKeepsRatio == part = "flow" => Group!FlowKeepsRatio

\* RandomMap: the axmap is the set of the blocks done and finds the next free one.
AxmapIsSet == part = "random" => Random!AxmapIsSet

\* RandomMap: no block is given twice in a pass, and a pass that ends has given
\* every block.
EachBlockOnce == part = "random" => Random!EachBlockOnce
=============================================================================
