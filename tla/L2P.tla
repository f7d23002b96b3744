-------------------------------- MODULE L2P ---------------------------------
(***************************************************************************)
(* The address mapping of l2p.c: L2P_calc_ppa turns a logical page number   *)
(* into a flash page and L2P_calc_obj_ppa an offset in an object.  Both     *)
(* count through the pages of a row, channel by channel and leaving out the *)
(* channels that are not normal, until the count is the number they look    *)
(* for.  One step is one iteration of the innermost loop.                   *)
(***************************************************************************)
EXTENDS Integers, FiniteSets

CONSTANTS
  TOTAL_CHANNEL,
  NORMAL_CHANNEL,           \* the channels whose entry in NORMAL_CHANNEL is 1
  CE_PER_CH,
  PLANE_PER_CE,             \* = PLANE_PER_LUN: there is one lun in a ce
  PAGE_PER_BLOCK_SLC_MODE,
  ROWS                      \* bound of the model: rows of the device

VARIABLES
  calc,                     \* function that runs: "ppa", "obj" or "none"
  block, page,              \* row, and the page in it (of L2P_calc_obj_ppa: the loop's)
  plane, ce, ch,            \* the other loop variables
  circle_num,               \* pages counted so far
  target,                   \* page_offset, or obj_offset
  ppa,                      \* what the call has written, or NoPpa
  addr                      \* history: the page asked for, numbered over all rows

l2pVars == <<calc, block, page, plane, ce, ch, circle_num, target, ppa, addr>>

valid_ch_num == Cardinality(NORMAL_CHANNEL)
PagesPerStripe == valid_ch_num * CE_PER_CH * PLANE_PER_CE
PagesPerRow == PagesPerStripe * PAGE_PER_BLOCK_SLC_MODE

NoPpa == [ch |-> -1, ce |-> -1, plane |-> -1, block |-> -1, page |-> -1]

Init ==
  /\ calc = "none" /\ block = 0 /\ page = 0 /\ plane = 0 /\ ce = 0 /\ ch = 0
  /\ circle_num = 0 /\ target = 0 /\ ppa = NoPpa /\ addr = -1

\* A call begins with all loops at 0 and *ppa not written.
Begin(f, a) ==
  /\ calc = "none" /\ calc' = f /\ addr' = a
  /\ plane' = 0 /\ ce' = 0 /\ ch' = 0 /\ circle_num' = 0
  /\ ppa' = NoPpa

\* mutant: the planes are forgotten
PageOffsetNoPlane(row_offset) == row_offset % (valid_ch_num * CE_PER_CH)

PageOffset(row_offset) == row_offset % PagesPerStripe

L2P_calc_ppa(lpn) ==
  LET row_offset == lpn % PagesPerRow IN
  /\ Begin("ppa", lpn)
  /\ block' = lpn \div PagesPerRow
  /\ page' = row_offset \div PagesPerStripe
  /\ target' = PageOffset(row_offset)

L2P_calc_obj_ppa(obj_id, obj_offset) ==
  /\ Begin("obj", obj_id * PagesPerRow + obj_offset)
  /\ block' = obj_id /\ page' = 0
  /\ target' = obj_offset

Here == ch \in NORMAL_CHANNEL /\ circle_num = target

\* The page is found and the function returns.
Return ==
  /\ calc # "none" /\ Here
  /\ ppa' = [ch |-> ch, ce |-> ce, plane |-> plane, block |-> block, page |-> page]
  /\ calc' = "none"
  /\ UNCHANGED <<block, page, plane, ce, ch, circle_num, target, addr>>

\* The loop variables go on to the next iteration, or the outermost loop ends.
Step ==
  LET nextCe == ch + 1 = TOTAL_CHANNEL
      nextPlane == nextCe /\ ce + 1 = CE_PER_CH
      nextPage == nextPlane /\ plane + 1 = PLANE_PER_CE
  IN /\ ch' = IF nextCe THEN 0 ELSE ch + 1
     /\ ce' = IF nextPlane THEN 0 ELSE IF nextCe THEN ce + 1 ELSE ce
     /\ plane' = IF nextPage THEN 0 ELSE IF nextPlane THEN plane + 1 ELSE plane
     /\ page' = IF nextPage /\ calc = "obj" THEN page + 1 ELSE page
     /\ calc' = IF nextPage /\ (calc = "ppa" \/ page + 1 = PAGE_PER_BLOCK_SLC_MODE) THEN "none" ELSE calc

\* Not the page looked for; the function returns without a result when the
\* loops are through.
Continue ==
  /\ calc # "none" /\ ~Here
  /\ circle_num' = IF ch \in NORMAL_CHANNEL THEN circle_num + 1 ELSE circle_num
  /\ Step
  /\ UNCHANGED <<block, target, ppa, addr>>

\* Offsets up to the first one behind the object, whose page does not exist.
Next ==
  \/ \E lpn \in 0 .. ROWS * PagesPerRow - 1 : L2P_calc_ppa(lpn)
  \/ \E obj_id \in 0 .. ROWS - 1, obj_offset \in 0 .. PagesPerRow : L2P_calc_obj_ppa(obj_id, obj_offset)
  \/ Return \/ Continue

Spec == Init /\ [][Next]_l2pVars

-----------------------------------------------------------------------------
\* The page number a flash page stands for, counted over all rows: the inverse
\* of the mapping, from the position of a channel among the normal ones.
NumberOf(p) ==
  ((p.block * PAGE_PER_BLOCK_SLC_MODE + p.page) * PLANE_PER_CE + p.plane) * (CE_PER_CH * valid_ch_num)
    + p.ce * valid_ch_num + Cardinality({x \in NORMAL_CHANNEL : x < p.ch})

\* Both functions find the one flash page with the number asked for, on a
\* normal channel: no page number is mapped to the page of another one, and the
\* two functions agree.  Only an offset behind the object has no page.
MappingExact ==
  calc = "none" /\ addr # -1 =>
    \/ /\ ppa # NoPpa /\ NumberOf(ppa) = addr
       /\ ppa.ch \in NORMAL_CHANNEL /\ ppa.ce < CE_PER_CH
       /\ ppa.plane < PLANE_PER_CE /\ ppa.page < PAGE_PER_BLOCK_SLC_MODE
    \/ ppa = NoPpa /\ target = PagesPerRow
=============================================================================
