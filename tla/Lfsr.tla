-------------------------------- MODULE Lfsr --------------------------------
(***************************************************************************)
(* lib/lfsr.c: a linear feedback shift register that runs through the       *)
(* numbers below nums in an order that looks random.  The register has more *)
(* values than nums; the larger ones are skipped.                           *)
(***************************************************************************)
EXTENDS Integers, Bitwise

\* lfsr_taps, for the register widths in use here.
lfsr_taps == [w \in 3 .. 7 |->
  CASE w = 3 -> {3, 2} [] w = 4 -> {4, 3} [] w = 5 -> {5, 3} [] w = 6 -> {6, 5} [] w = 7 -> {7, 6}]

\* find_lfsr: the smallest width whose values, but for the prohibited one of
\* all ones, cover size numbers.
find_lfsr(size) == CHOOSE w \in 3 .. 7 : 2 ^ w > size /\ \A v \in 3 .. w - 1 : 2 ^ v <= size

\* lfsr_create_xormask: one bit for each tap, the sum over a row of two taps.
lfsr_create_xormask(w) ==
  2 ^ (w - 1) + 2 ^ ((CHOOSE t \in lfsr_taps[w] : t # w) - 1)

\* __LFSR_NEXT.
LFSR_NEXT(w, v) ==
  LET shifted == v \div 2 + 2 ^ (w - 1)
  IN  IF v % 2 = 1 THEN shifted ELSE shifted ^^ lfsr_create_xormask(w)

\* __lfsr_next: spin + 1 turns, and none above the largest case of its switch.
RECURSIVE lfsr_turns(_, _, _)
lfsr_turns(w, v, spin) ==
  IF spin > 15 THEN v
  ELSE IF spin = 0 THEN LFSR_NEXT(w, v) ELSE lfsr_turns(w, LFSR_NEXT(w, v), spin - 1)

\* prepare_spin: the length of the shorter cycle the spin makes, 0 if none.
CachedCycle(w, spin) ==
  LET max == 2 ^ w - 1
      x == max \div (spin + 1)
      y == max % (spin + 1)
      hit == {i \in 1 .. spin : (y * i) % (spin + 1) = 0}
      i == CHOOSE i \in hit : \A j \in hit : i <= j
  IN  IF hit = {} THEN 0 ELSE x * i + (y * i) \div (spin + 1)

\* A register: its value, the turns left in its cycle and the values given out.
\* lfsr_reset refuses the value of all ones; lfsr_init adds one to the cycle.
lfsr_legal(w, seed) == seed % 2 ^ w # 2 ^ w - 1

lfsr_init(w, seed, spin) ==
  [last_val |-> seed % 2 ^ w, num_vals |-> 0, cycle_length |-> CachedCycle(w, spin) + 1]

\* lfsr_reset leaves cycle_length as it is.
lfsr_reset(fl, w, seed) == [fl EXCEPT !.num_vals = 0, !.last_val = seed % 2 ^ w]

\* One turn of the loop of lfsr_next: one more spin when a cycle is complete.
lfsr_turn(fl, w, spin) ==
  IF fl.cycle_length = 1
  THEN [fl EXCEPT !.last_val = lfsr_turns(w, @, spin + 1), !.cycle_length = CachedCycle(w, spin)]
  ELSE [fl EXCEPT !.last_val = lfsr_turns(w, @, spin),
                  !.cycle_length = IF @ = 0 THEN 0 ELSE @ - 1]

RECURSIVE lfsr_loop(_, _, _, _)
lfsr_loop(fl, w, nums, spin) ==
  LET turned == lfsr_turn(fl, w, spin)
  IN  IF turned.last_val > nums - 1 THEN lfsr_loop(turned, w, nums, spin) ELSE turned

\* Mutant: one value too many.
lfsr_endsLate(fl, nums) == fl.num_vals > nums

\* lfsr_next gives out a value unless nums have been given out.
lfsr_ends(fl, nums) == fl.num_vals > nums - 1

lfsr_next(fl, w, nums, spin) == lfsr_loop([fl EXCEPT !.num_vals = @ + 1], w, nums, spin)
=============================================================================
