------------------------------- MODULE Axmap -------------------------------
(***************************************************************************)
(* lib/axmap.c: a set of block numbers kept as levels of bitmaps.  A bit of *)
(* a level above zero says that a whole word of the level below is set.     *)
(* The map is a sequence of sets, map[i + 1] the numbers of the bits set in *)
(* level i; a word is the bits with the same quotient by BLOCKS_PER_UNIT.   *)
(***************************************************************************)
EXTENDS Integers, Sequences, FiniteSetsExt

CONSTANT UNIT_SHIFT  \* 6 on 64-bit machines

BLOCKS_PER_UNIT == 2 ^ UNIT_SHIFT

Units(bits) == (bits + BLOCKS_PER_UNIT - 1) \div BLOCKS_PER_UNIT

\* axmap_new: the number of words of each level, up to a level of one word.
RECURSIVE MapSizes(_)
MapSizes(bits) ==
  <<Units(bits)>> \o (IF Units(bits) > 1 THEN MapSizes(Units(bits)) ELSE << >>)

\* axmap_reset.
axmap_reset(nr_bits) == [i \in DOMAIN MapSizes(nr_bits) |-> {}]

\* The bits of one word of a level.
Word(offset) == offset * BLOCKS_PER_UNIT .. (offset + 1) * BLOCKS_PER_UNIT - 1

NoFree == -1

\* axmap_set_fn, and axmap_handler with it: set nr bits of level i from bit
\* number index on, up to the first one that is set; when the word is full
\* then, set its bit one level up.  The result has the map and set_bits.
RECURSIVE SetFrom(_, _, _, _)
SetFrom(map, i, index, nr) ==
  LET taken == map[i] \cap (index .. index + nr - 1)
      fresh == IF taken = {} THEN nr ELSE Min(taken) - index
      new   == [map EXCEPT ![i] = @ \cup (index .. index + fresh - 1)]
      unit  == index \div BLOCKS_PER_UNIT
      above == SetFrom(new, i + 1, unit, 1)
  IN  IF fresh = 0 THEN [map |-> map, set_bits |-> 0]
      ELSE IF Word(unit) \subseteq new[i] /\ i < Len(map)
      THEN [map |-> above.map, set_bits |-> IF above.set_bits = 0 THEN 0 ELSE fresh]
      ELSE [map |-> new, set_bits |-> fresh]

\* axmap_set_nr: word by word, until all are set or one was set before.
RECURSIVE axmap_set_nr(_, _, _)
axmap_set_nr(map, bit_nr, nr_bits) ==
  LET this_set == Min({nr_bits, BLOCKS_PER_UNIT - (bit_nr % BLOCKS_PER_UNIT)})
      data     == SetFrom(map, 1, bit_nr, this_set)
      rest     == axmap_set_nr(data.map, bit_nr + this_set, nr_bits - this_set)
  IN  IF data.set_bits # this_set \/ nr_bits = this_set THEN data
      ELSE [map |-> rest.map, set_bits |-> this_set + rest.set_bits]

\* axmap_isset: the bit of some level, from the top down, is set.
axmap_isset(map, bit_nr) ==
  \E i \in DOMAIN map : bit_nr \div BLOCKS_PER_UNIT ^ (i - 1) \in map[i]

\* The free bits of level i at or above index; the last word has bits past the
\* end of the map.
FreeBits(map, sizes, i, index) ==
  (index .. sizes[i] * BLOCKS_PER_UNIT - 1) \ map[i]

\* axmap_find_first_free: go down the levels; on each, the first free bit of
\* the unit found above, or of a later one.
RECURSIVE FindFrom(_, _, _, _, _)
FindFrom(map, sizes, i, index, bit_nr) ==
  LET base == bit_nr \div BLOCKS_PER_UNIT ^ (i - 1)
      free == FreeBits(map, sizes, i, Max({index, base}))
  IN  IF free = {} THEN NoFree
      ELSE IF i = 1 THEN Min(free)
      ELSE FindFrom(map, sizes, i - 1, Min(free) * BLOCKS_PER_UNIT, bit_nr)

Inside(index, nr_bits) == IF index >= nr_bits THEN NoFree ELSE index

axmap_find_first_free(map, nr_bits, bit_nr) ==
  Inside(FindFrom(map, MapSizes(nr_bits), Len(map), 0, bit_nr), nr_bits)

\* axmap_next_free: look in the word of the next bit first, then from the next
\* bit on, then from the start.
axmap_next_free(map, nr_bits, bit_nr) ==
  LET next_bit == IF bit_nr + 1 = nr_bits THEN 0 ELSE bit_nr + 1
      word     == {b \in Word(next_bit \div BLOCKS_PER_UNIT) : b >= next_bit} \ map[1]
      ret      == IF word # {} THEN Inside(Min(word), nr_bits)
                  ELSE axmap_find_first_free(map, nr_bits, next_bit)
  IN  IF ret = NoFree /\ next_bit # 0 THEN axmap_find_first_free(map, nr_bits, 0) ELSE ret
=============================================================================
