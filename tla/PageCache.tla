------------------------------ MODULE PageCache -----------------------------
(***************************************************************************)
(* What the buffer cache promises: the last Size pages that missed, each    *)
(* once.  A hit does not renew a page (the list_move_head of                *)
(* L2P_check_buf_hit is commented out), so the oldest allocation leaves.    *)
(***************************************************************************)
EXTENDS Integers, Sequences, SequencesExt

CONSTANTS Page, Size

VARIABLE cached  \* the pages in the cache, the latest allocation first

CacheInit == cached = << >>

Load(p) ==
  /\ p \notin Range(cached)
  /\ cached' = <<p>> \o (IF Len(cached) = Size THEN Front(cached) ELSE cached)

CacheSpec == CacheInit /\ [][\E p \in Page : Load(p)]_cached
=============================================================================
