------------------------------ MODULE RandomMap ------------------------------
(***************************************************************************)
(* How a fio job picks the blocks of random I/O (io_u.c, filesetup.c): with *)
(* a generator and a map of the blocks done (axmap), or with an LFSR and no *)
(* map.  The request at hand is marked in the map as far as its blocks are  *)
(* free.  A job that is time_based starts over when no block is left.       *)
(* The file size is a multiple of the smallest block.                       *)
(***************************************************************************)
EXTENDS Axmap, Lfsr

CONSTANTS
  Blocks,       \* numbers of blocks of the file
  LfsrBlocks,   \* numbers of blocks for the LFSR
  MAX_NR        \* largest request, in blocks

VARIABLES
  gen,             \* the generator: "tausworthe" or "lfsr"
  nr,              \* blocks of the file
  seed, spin, fl,  \* the LFSR; fio itself uses spin 0, its test up to 15
  map,             \* io_axmap
  b,               \* the block picked and not yet marked
  covered, twice,  \* blocks done in this pass; some block was done twice
  over             \* get_next_rand_block has failed

rmVars == <<gen, nr, seed, spin, fl, map, b, covered, twice, over>>

Width == find_lfsr(nr)

\* init_random_map.
Init ==
  /\ gen \in {"tausworthe", "lfsr"}
  /\ nr \in (IF gen = "lfsr" THEN LfsrBlocks ELSE Blocks)
  /\ spin \in (IF gen = "lfsr" THEN 0 .. 15 ELSE {0})
  /\ seed \in (IF gen = "lfsr" THEN {s \in 0 .. 2 ^ Width - 1 : lfsr_legal(Width, s)} ELSE {0})
  /\ fl = lfsr_init(Width, seed, spin)
  /\ map = axmap_reset(nr)
  /\ b = NoFree /\ covered = {} /\ twice = FALSE /\ over = FALSE

\* The block is picked from the map: the one drawn if it is free, or the next
\* free one.
MapPicks(drawn) == IF axmap_isset(map, drawn) THEN axmap_next_free(map, nr, drawn) ELSE drawn

\* __get_next_rand_offset gives a block.
PickMapped ==
  /\ gen = "tausworthe" /\ b = NoFree /\ ~ over
  /\ \E drawn \in 0 .. nr - 1 :
       /\ MapPicks(drawn) # NoFree
       /\ b' = MapPicks(drawn)
  /\ UNCHANGED <<gen, nr, seed, spin, fl, map, covered, twice, over>>

\* mark_random_map: the blocks of the request that lie before the first one
\* done; its buffer is cut to them.
MarkRandomMap ==
  /\ gen = "tausworthe" /\ b # NoFree
  /\ \E nr_blocks \in 1 .. MAX_NR :
       /\ b + nr_blocks <= nr
       /\ LET set == axmap_set_nr(map, b, nr_blocks)
              mine == b .. b + set.set_bits - 1
          IN  /\ map' = set.map
              /\ covered' = covered \cup mine
              /\ twice' = (mine \cap covered # {} \/ set.set_bits = 0)
  /\ b' = NoFree
  /\ UNCHANGED <<gen, nr, seed, spin, fl, over>>

\* __get_next_rand_offset with the LFSR: requests of one block, no map.
PickLfsr ==
  /\ gen = "lfsr" /\ ~ over /\ ~ lfsr_ends(fl, nr)
  /\ fl' = lfsr_next(fl, Width, nr, spin)
  /\ b' = fl'.last_val
  /\ covered' = covered \cup {b'} /\ twice' = (b' \in covered)
  /\ UNCHANGED <<gen, nr, seed, spin, map, over>>

\* No block is left to give.
Fails ==
  \/ gen = "lfsr" /\ lfsr_ends(fl, nr)
  \/ gen = "tausworthe" /\ b = NoFree /\ \E drawn \in 0 .. nr - 1 : MapPicks(drawn) = NoFree

\* get_next_rand_block of a job that is not time_based: the pass ends here.
PassEnds ==
  /\ Fails /\ ~ over /\ over' = TRUE
  /\ UNCHANGED <<gen, nr, seed, spin, fl, map, b, covered, twice>>

\* Mutant: fio_file_reset clears the lowest level only.
FileResetLow ==
  /\ Fails /\ ~ over /\ spin = 0
  /\ map' = [map EXCEPT ![1] = {}] /\ covered' = {}
  /\ fl' = lfsr_reset(fl, Width, seed)
  /\ UNCHANGED <<gen, nr, seed, spin, b, twice, over>>

\* ... and of one that is: fio_file_reset, then it tries again.
FileReset ==
  /\ Fails /\ ~ over /\ spin = 0
  /\ map' = (IF gen = "lfsr" THEN map ELSE axmap_reset(nr))
  /\ fl' = (IF gen = "lfsr" THEN lfsr_reset(fl, Width, seed) ELSE fl)
  /\ covered' = {}
  /\ UNCHANGED <<gen, nr, seed, spin, b, twice, over>>

Next == PickMapped \/ MarkRandomMap \/ PickLfsr \/ PassEnds \/ FileReset

-----------------------------------------------------------------------------
\* The next block after drawn, around the end, that is not done.
NextFree(drawn) ==
  LET steps == {d \in 1 .. nr : (drawn + d) % nr \notin covered}
  IN  IF steps = {} THEN NoFree ELSE (drawn + Min(steps)) % nr

\* "a set that can store numbers 0 .. @nr_bits - 1": axmap_isset answers for
\* every block, a bit of a higher level stands for a full word, and
\* axmap_next_free finds the next free block around the end, or none.
AxmapIsSet ==
  gen = "tausworthe" =>
    /\ \A x \in 0 .. nr - 1 : axmap_isset(map, x) <=> x \in covered
    /\ \A i \in 2 .. Len(map) : \A x \in 0 .. MapSizes(nr)[i - 1] - 1 :
         x \in map[i] <=> Word(x) \subseteq map[i - 1]
    /\ \A x \in covered : axmap_next_free(map, nr, x) = NextFree(x)

\* "lfsr guarantees that we never generate the same offset twice", nor does the
\* map; and the job finds no block only when every block has been done.
EachBlockOnce == ~ twice /\ (over => covered = 0 .. nr - 1)
=============================================================================
