------------------------- MODULE FlashQueue_proofs -------------------------
(***************************************************************************)
(* Proofs about FlashQueue for every depth of the queues, every number of   *)
(* phases (at least two) and every set of commands: core 1's polling is     *)
(* exact, no SQ entry is shared or lost, and every command is in one place. *)
(***************************************************************************)
EXTENDS FlashQueue, QueueLemmas

\* Core 0's entry and core 1's entry.
Mine0 == IF pc0 # "idle" THEN {sq0} ELSE {}
Mine1 == IF pc1 = "ptr" THEN {cq_ptr[cq1]} ELSE IF pc1 \in {"hcmd", "free"} THEN {sq1} ELSE {}

\* The CQ entries the controller has written and core 1 has not polled, and
\* with them the one core 1 has polled and not read yet.
Pending ==
  IF wr_phase = polling_phase
    THEN {j \in SqIndex : polling_index <= j /\ j < wr_index}
    ELSE {j \in SqIndex : polling_index <= j \/ j < wr_index}
Held == IF pc1 = "ptr" THEN Pending \cup {cq1} ELSE Pending

NextPhase(p) == IF p + 1 = PHASES THEN 0 ELSE p + 1
PrevPhase(p) == IF p = 0 THEN PHASES - 1 ELSE p - 1

TypeInv ==
  /\ bitmap \subseteq SqIndex /\ sent \subseteq SqIndex /\ completed \subseteq SqIndex
  /\ cq_ptr \in [SqIndex -> SqIndex] /\ cq_ph \in [SqIndex -> CqPhase]
  /\ wr_index \in SqIndex /\ wr_phase \in CqPhase
  /\ polling_index \in SqIndex /\ polling_phase \in CqPhase
  /\ sq0 \in SqIndex /\ cq1 \in SqIndex /\ sq1 \in SqIndex
  /\ pc0 \in {"idle", "set", "send"}
  /\ pc1 \in {"poll", "ptr", "hcmd", "free", "count"}

\* Core 1 is on the controller's lap or on the one before.
LapInv ==
  \/ wr_phase = polling_phase /\ polling_index <= wr_index
  \/ wr_phase = NextPhase(polling_phase) /\ wr_index <= polling_index

\* The controller's current lap reaches to wr_index, the lap before it lies beyond.
PhaseInv ==
  \A j \in SqIndex : cq_ph[j] = IF j < wr_index THEN wr_phase ELSE PrevPhase(wr_phase)

\* Different CQ entries name different SQ entries, and the entries pending in
\* the CQ are the completed ones.
CqInv ==
  /\ completed = {cq_ptr[j] : j \in Pending}
  /\ \A j, k \in Held : cq_ptr[j] = cq_ptr[k] => j = k
  /\ pc1 = "ptr" => /\ cq1 \notin Pending
                    /\ polling_index = IF cq1 + 1 = HW_QUEUE_DEPTH THEN 0 ELSE cq1 + 1

\* The parties use disjoint SQ entries, and together the ones in the bitmap.
SqInv ==
  /\ bitmap = sent \cup completed \cup Mine0 \cup Mine1
  /\ sent \cap completed = {} /\ sent \cap Mine0 = {} /\ sent \cap Mine1 = {}
  /\ completed \cap Mine0 = {} /\ completed \cap Mine1 = {} /\ Mine0 \cap Mine1 = {}

IInv == TypeInv /\ LapInv /\ PhaseInv /\ CqInv /\ SqInv

\* What the invariant is about.
iVars == <<bitmap, sent, completed, cq_ptr, cq_ph, wr_index, wr_phase, polling_index,
           polling_phase, pc0, sq0, pc1, cq1, sq1>>

USE FlashQueueAssumption

-----------------------------------------------------------------------------
LEMMA InitEstablishes == FqInit => IInv
  <1> SUFFICES ASSUME FqInit PROVE IInv
    OBVIOUS
  <1>1. TypeInv
    BY DEF FqInit, TypeInv, SqIndex, CqPhase
  <1>2. LapInv
    BY DEF FqInit, LapInv
  <1>3. PhaseInv
    BY DEF FqInit, PhaseInv, PrevPhase, SqIndex
  <1>4. Pending = {} /\ Held = {}
    BY DEF FqInit, Pending, Held, SqIndex
  <1>5. CqInv
    BY <1>4 DEF FqInit, CqInv
  <1>6. SqInv
    BY DEF FqInit, SqInv, Mine0, Mine1
  <1>7. QED
    BY <1>1, <1>2, <1>3, <1>5, <1>6 DEF IInv

\* Phases: the one after differs from the one before, and they are inverse.
LEMMA PhaseFacts ==
  ASSUME NEW p \in CqPhase
  PROVE  /\ NextPhase(p) \in CqPhase /\ PrevPhase(p) \in CqPhase
         /\ NextPhase(p) # p /\ PrevPhase(p) # p
         /\ PrevPhase(NextPhase(p)) = p
         /\ (p + 1) % PHASES = NextPhase(p)
  <1>1. /\ NextPhase(p) \in CqPhase /\ PrevPhase(p) \in CqPhase
        /\ NextPhase(p) # p /\ PrevPhase(p) # p
        /\ PrevPhase(NextPhase(p)) = p
    BY DEF CqPhase, NextPhase, PrevPhase
  <1>2. (p + 1) % PHASES = NextPhase(p)
    <2>1. CASE p + 1 = PHASES
      BY <2>1 DEF NextPhase, CqPhase
    <2>2. CASE p + 1 < PHASES
      BY <2>2 DEF NextPhase, CqPhase
    <2>3. QED
      BY <2>1, <2>2 DEF CqPhase
  <1>3. QED
    BY <1>1, <1>2

\* While the controller holds an entry, the CQ is not full: a CQ entry for
\* each of the completed entries still leaves one.
LEMMA NotFull ==
  ASSUME IInv, NEW i \in sent
  PROVE  Held # SqIndex
  <1> SUFFICES ASSUME Held = SqIndex PROVE FALSE
    OBVIOUS
  <1>1. cq_ptr \in Injection(SqIndex, SqIndex)
    BY DEF IInv, TypeInv, CqInv, Injection, IsInjective
  <1>2. IsFiniteSet(SqIndex)
    <2>1. 0 \in Int /\ HW_QUEUE_DEPTH - 1 \in Int
      OBVIOUS
    <2>2. QED
      BY <2>1, FS_Interval DEF SqIndex
  <1>3. cq_ptr \in Surjection(SqIndex, SqIndex)
    BY <1>1, <1>2, FS_Injection
  <1>4. PICK j \in SqIndex : cq_ptr[j] = i
    BY <1>3 DEF Surjection, IInv, TypeInv
  <1>5. j \in Pending \/ (pc1 = "ptr" /\ j = cq1)
    BY DEF Held
  <1>6. CASE j \in Pending
    BY <1>4, <1>6 DEF IInv, CqInv, SqInv
  <1>7. CASE pc1 = "ptr" /\ j = cq1
    BY <1>4, <1>7 DEF IInv, SqInv, Mine1
  <1>8. QED
    BY <1>5, <1>6, <1>7

\* So the controller's next write hits no entry that core 1 has yet to read.
LEMMA WriteIsFree ==
  ASSUME IInv, NEW i \in sent
  PROVE  /\ wr_index \notin Held
         /\ wr_phase # polling_phase => wr_index < polling_index
  <1>1. Held # SqIndex
    BY NotFull
  <1>2. /\ wr_index \in SqIndex /\ polling_index \in SqIndex /\ cq1 \in SqIndex
        /\ LapInv /\ Pending \subseteq SqIndex
    BY DEF IInv, TypeInv, Pending
  <1>3. wr_index \notin Pending /\ (wr_phase # polling_phase => wr_index < polling_index)
    <2>1. CASE wr_phase = polling_phase
      BY <2>1, <1>2 DEF Pending, SqIndex
    <2>2. CASE wr_phase # polling_phase
      <3>1. wr_index <= polling_index
        BY <2>2, <1>2 DEF LapInv
      <3>2. wr_index # polling_index
        <4>1. wr_index = polling_index => Pending = SqIndex
          BY <2>2, <1>2 DEF Pending, SqIndex
        <4>2. QED
          BY <4>1, <1>1, <1>2 DEF Held
      <3>3. QED
        BY <3>1, <3>2, <2>2, <1>2 DEF Pending, SqIndex
    <2>3. QED
      BY <2>1, <2>2
  <1>4. ASSUME pc1 = "ptr", cq1 = wr_index PROVE FALSE
    <2>1. polling_index = IF cq1 + 1 = HW_QUEUE_DEPTH THEN 0 ELSE cq1 + 1
      BY <1>4 DEF IInv, CqInv
    <2>2. SqIndex \subseteq Pending \cup {cq1}
      <3>1. CASE wr_phase = polling_phase
        <4>1. polling_index <= wr_index
          BY <3>1, <1>2, PhaseFacts DEF LapInv, IInv, TypeInv
        <4>2. QED
          BY <4>1, <3>1, <2>1, <1>2, <1>4 DEF Pending, SqIndex
      <3>2. CASE wr_phase # polling_phase
        BY <3>2, <2>1, <1>2, <1>3, <1>4 DEF Pending, SqIndex
      <3>3. QED
        BY <3>1, <3>2
    <2>3. QED
      BY <2>2, <1>1, <1>2, <1>4 DEF Held
  <1>5. QED
    BY <1>3, <1>4 DEF Held

\* Steps that change nothing the invariant is about.
LEMMA StutterKeeps == IInv /\ UNCHANGED iVars => IInv'
  BY DEF IInv, iVars, TypeInv, LapInv, PhaseInv, CqInv, SqInv, Mine0, Mine1, Pending, Held

\* Core 0 and core 1 move an SQ entry between the parties; the CQ and the
\* places in it stay.
cqVars == <<cq_ptr, cq_ph, wr_index, wr_phase, polling_index, polling_phase, completed, cq1>>

LEMMA CqKept ==
  ASSUME IInv, UNCHANGED cqVars, pc1' = "ptr" <=> pc1 = "ptr"
  PROVE  LapInv' /\ PhaseInv' /\ CqInv'
  <1>1. Pending' = Pending /\ Held' = Held
    BY DEF cqVars, Pending, Held
  <1>2. LapInv' /\ PhaseInv'
    BY DEF cqVars, IInv, LapInv, PhaseInv
  <1>3. CqInv'
    BY <1>1 DEF cqVars, IInv, CqInv
  <1>4. QED
    BY <1>2, <1>3

\* Leaving "ptr" only drops the entry core 1 held.
LEMMA CqReleased ==
  ASSUME IInv, UNCHANGED cqVars, pc1' # "ptr"
  PROVE  LapInv' /\ PhaseInv' /\ CqInv'
  <1>1. Pending' = Pending /\ Held' = Pending /\ Pending \subseteq Held
    BY DEF cqVars, Pending, Held
  <1>2. LapInv' /\ PhaseInv'
    BY DEF cqVars, IInv, LapInv, PhaseInv
  <1>3. CqInv'
    BY <1>1 DEF cqVars, IInv, CqInv
  <1>4. QED
    BY <1>2, <1>3

LEMMA Core0Keeps == IInv /\ Core0 => IInv'
  <1> SUFFICES ASSUME IInv, Core0 PROVE IInv'
    OBVIOUS
  <1>1. CASE GetEntry
    <2>1. PICK i \in SqIndex : FirstFree(i) /\ bitmap' = bitmap \cup {i} /\ sq0' = i
      BY <1>1 DEF GetEntry
    <2>2. /\ i \notin bitmap /\ pc0 = "idle" /\ pc0' = "set"
          /\ UNCHANGED <<sent, completed, cq_ptr, cq_ph, wr_index, wr_phase, polling_index,
                         polling_phase, pc1, cq1, sq1>>
      BY <1>1, <2>1 DEF GetEntry, FirstFree, device, core1
    <2>3. TypeInv'
      BY <2>1, <2>2 DEF IInv, TypeInv
    <2>4. LapInv' /\ PhaseInv' /\ CqInv'
      BY <2>2, CqKept DEF cqVars
    <2>5. Mine0 = {} /\ Mine0' = {i} /\ Mine1' = Mine1
      BY <2>1, <2>2 DEF Mine0, Mine1
    <2>6. SqInv'
      BY <2>1, <2>2, <2>5 DEF IInv, SqInv
    <2>7. QED
      BY <2>3, <2>4, <2>6 DEF IInv
  <1>2. CASE NoEntry
    <2>1. UNCHANGED iVars
      BY <1>2 DEF NoEntry, iVars, device, core0, core1
    <2>2. QED
      BY <2>1, StutterKeeps
  <1>3. CASE SetEntry
    <2>1. /\ pc0 = "set" /\ pc0' = "send" /\ sq0' = sq0
          /\ UNCHANGED <<bitmap, sent, completed, cq_ptr, cq_ph, wr_index, wr_phase, polling_index,
                         polling_phase, pc1, cq1, sq1>>
      BY <1>3 DEF SetEntry, device, core1
    <2>2. TypeInv'
      BY <2>1 DEF IInv, TypeInv
    <2>3. LapInv' /\ PhaseInv' /\ CqInv'
      BY <2>1, CqKept DEF cqVars
    <2>4. Mine0' = Mine0 /\ Mine1' = Mine1
      BY <2>1 DEF Mine0, Mine1
    <2>5. SqInv'
      BY <2>1, <2>4 DEF IInv, SqInv
    <2>6. QED
      BY <2>2, <2>3, <2>5 DEF IInv
  <1>4. CASE SendEntry
    <2>1. /\ pc0 = "send" /\ pc0' = "idle" /\ sq0' = 0 /\ sent' = sent \cup {sq0}
          /\ UNCHANGED <<bitmap, completed, cq_ptr, cq_ph, wr_index, wr_phase, polling_index,
                         polling_phase, pc1, cq1, sq1>>
      BY <1>4 DEF SendEntry, core1
    <2>2. TypeInv'
      <3>1. 0 \in SqIndex
        BY DEF SqIndex
      <3>2. QED
        BY <3>1, <2>1 DEF IInv, TypeInv
    <2>3. LapInv' /\ PhaseInv' /\ CqInv'
      BY <2>1, CqKept DEF cqVars
    <2>4. Mine0 = {sq0} /\ Mine0' = {} /\ Mine1' = Mine1
      BY <2>1 DEF Mine0, Mine1
    <2>5. SqInv'
      BY <2>1, <2>4 DEF IInv, SqInv
    <2>6. QED
      BY <2>2, <2>3, <2>5 DEF IInv
  <1>5. CASE FromCq
    <2>1. UNCHANGED iVars
      BY <1>5 DEF FromCq, iVars, device, core0, core1
    <2>2. QED
      BY <2>1, StutterKeeps
  <1>6. QED
    BY <1>1, <1>2, <1>3, <1>4, <1>5 DEF Core0

\* The controller writes one CQ entry more.
LEMMA CompleteKeeps ==
  ASSUME IInv, NEW i \in SqIndex, Complete(i)
  PROVE  IInv'
  <1> DEFINE wraps == wr_index + 1 = HW_QUEUE_DEPTH
  <1>1. /\ i \in sent /\ sent' = sent \ {i} /\ completed' = completed \cup {i}
        /\ cq_ptr' = [cq_ptr EXCEPT ![wr_index] = i]
        /\ cq_ph' = [cq_ph EXCEPT ![wr_index] = wr_phase]
        /\ wr_index' = IF wraps THEN 0 ELSE wr_index + 1
        /\ wr_phase' = IF wraps THEN (wr_phase + 1) % PHASES ELSE wr_phase
        /\ UNCHANGED <<bitmap, polling_index, polling_phase, pc0, sq0, pc1, cq1, sq1>>
    BY DEF Complete, core0, core1
  <1>2. /\ wr_index \in SqIndex /\ wr_phase \in CqPhase /\ polling_index \in SqIndex
        /\ polling_phase \in CqPhase /\ cq1 \in SqIndex
        /\ cq_ptr \in [SqIndex -> SqIndex] /\ cq_ph \in [SqIndex -> CqPhase]
    BY DEF IInv, TypeInv
  <1>3. (wr_phase + 1) % PHASES = NextPhase(wr_phase) /\ NextPhase(wr_phase) \in CqPhase
    BY <1>2, PhaseFacts
  <1>4. wr_index' \in SqIndex /\ wr_phase' \in CqPhase
    BY <1>1, <1>2, <1>3 DEF SqIndex
  <1>5. TypeInv'
    BY <1>1, <1>2, <1>4 DEF IInv, TypeInv
  <1>6. wr_index \notin Held /\ (wr_phase # polling_phase => wr_index < polling_index)
    BY <1>1, WriteIsFree
  <1>7. /\ wr_phase = polling_phase => polling_index <= wr_index
        /\ wr_phase # polling_phase => wr_phase = NextPhase(polling_phase)
    BY <1>2, PhaseFacts DEF IInv, LapInv
  <1>8. LapInv'
    <2>1. CASE wr_phase = polling_phase
      BY <2>1, <1>1, <1>2, <1>3, <1>7 DEF LapInv, SqIndex
    <2>2. CASE wr_phase # polling_phase
      BY <2>2, <1>1, <1>2, <1>6, <1>7 DEF LapInv, SqIndex
    <2>3. QED
      BY <2>1, <2>2
  <1>9. PhaseInv'
    <2> SUFFICES ASSUME NEW j \in SqIndex
                 PROVE  cq_ph'[j] = IF j < wr_index' THEN wr_phase' ELSE PrevPhase(wr_phase')
      BY DEF PhaseInv
    <2>1. cq_ph[j] = IF j < wr_index THEN wr_phase ELSE PrevPhase(wr_phase)
      BY DEF IInv, PhaseInv
    <2>2. cq_ph'[j] = IF j = wr_index THEN wr_phase ELSE cq_ph[j]
      BY <1>1, <1>2
    <2>3. PrevPhase(NextPhase(wr_phase)) = wr_phase
      BY <1>2, PhaseFacts
    <2>4. CASE wraps
      BY <2>1, <2>2, <2>3, <2>4, <1>1, <1>2, <1>3 DEF SqIndex
    <2>5. CASE ~wraps
      <3>1. wr_index' = wr_index + 1 /\ wr_phase' = wr_phase
        BY <2>5, <1>1
      <3>2. j \in Int /\ wr_index \in Int
        BY <1>2 DEF SqIndex
      <3>3. j < wr_index + 1 <=> (j < wr_index \/ j = wr_index)
        BY <3>2
      <3>4. QED
        BY <3>1, <3>3, <2>1, <2>2
    <2>6. QED
      BY <2>4, <2>5
  <1>10. Pending' = Pending \cup {wr_index}
    <2>0. \A j \in SqIndex : j \in Int /\ 0 <= j /\ j < HW_QUEUE_DEPTH
      BY DEF SqIndex
    <2>1. CASE wr_phase = polling_phase /\ ~wraps
      <3>1. wr_index' = wr_index + 1 /\ wr_phase' = polling_phase' /\ polling_index' = polling_index
        BY <2>1, <1>1
      <3>2. \A j \in SqIndex : (polling_index <= j /\ j < wr_index + 1)
                               <=> ((polling_index <= j /\ j < wr_index) \/ j = wr_index)
        BY <2>0, <2>1, <1>2, <1>7
      <3>3. QED
        BY <3>1, <3>2, <2>1, <1>2 DEF Pending
    <2>2. CASE wr_phase = polling_phase /\ wraps
      <3>1. wr_phase' # polling_phase' /\ wr_index' = 0 /\ polling_index' = polling_index
        BY <2>2, <1>1, <1>2, <1>3, PhaseFacts
      <3>2. \A j \in SqIndex : (polling_index <= j \/ j < 0)
                               <=> ((polling_index <= j /\ j < wr_index) \/ j = wr_index)
        BY <2>0, <2>2, <1>2, <1>7
      <3>3. QED
        BY <3>1, <3>2, <2>2, <1>2 DEF Pending
    <2>3. CASE wr_phase # polling_phase
      <3>1. ~wraps
        BY <2>3, <1>2, <1>6 DEF SqIndex
      <3>2. wr_index' = wr_index + 1 /\ wr_phase' # polling_phase' /\ polling_index' = polling_index
        BY <3>1, <2>3, <1>1
      <3>3. \A j \in SqIndex : (polling_index <= j \/ j < wr_index + 1)
                               <=> ((polling_index <= j \/ j < wr_index) \/ j = wr_index)
        BY <2>0, <1>2
      <3>4. QED
        BY <3>2, <3>3, <2>3, <1>2 DEF Pending
    <2>4. QED
      BY <2>1, <2>2, <2>3
  <1>11. Held' = Held \cup {wr_index}
    BY <1>1, <1>10 DEF Held
  <1>12. /\ Held \subseteq SqIndex /\ Pending \subseteq Held
         /\ \A j \in Held : cq_ptr'[j] = cq_ptr[j]
         /\ cq_ptr'[wr_index] = i
    BY <1>1, <1>2, <1>6 DEF Held, Pending
  <1>13. \A j \in Held : cq_ptr[j] # i
    BY <1>1 DEF Held, IInv, CqInv, SqInv, Mine1
  <1>14. CqInv'
    <2>1. completed' = {cq_ptr'[j] : j \in Pending'}
      <3>1. completed = {cq_ptr[j] : j \in Pending}
        BY DEF IInv, CqInv
      <3>2. QED
        BY <3>1, <1>1, <1>10, <1>12
    <2>2. \A j, k \in Held' : cq_ptr'[j] = cq_ptr'[k] => j = k
      BY <1>11, <1>12, <1>13 DEF IInv, CqInv
    <2>3. pc1' = "ptr" => /\ cq1' \notin Pending'
                          /\ polling_index' = IF cq1' + 1 = HW_QUEUE_DEPTH THEN 0 ELSE cq1' + 1
      BY <1>1, <1>6, <1>10 DEF Held, IInv, CqInv
    <2>4. QED
      BY <2>1, <2>2, <2>3 DEF CqInv
  <1>15. SqInv'
    <2>1. Mine0' = Mine0
      BY <1>1 DEF Mine0
    <2>2. Mine1' = Mine1
      BY <1>1, <1>12 DEF Mine1, Held
    <2>3. QED
      BY <2>1, <2>2, <1>1 DEF IInv, SqInv
  <1>16. QED
    BY <1>5, <1>8, <1>9, <1>14, <1>15 DEF IInv

\* Core 1 takes the oldest pending CQ entry.
LEMMA PollKeeps ==
  ASSUME IInv, Poll
  PROVE  IInv'
  <1> DEFINE wraps == polling_index + 1 = HW_QUEUE_DEPTH
  <1>1. /\ pc1 = "poll" /\ pc1' = "ptr" /\ cq1' = polling_index
        /\ cq_ph[polling_index] = polling_phase
        /\ polling_index' = IF wraps THEN 0 ELSE polling_index + 1
        /\ polling_phase' = IF wraps THEN (polling_phase + 1) % PHASES ELSE polling_phase
        /\ completed' = completed \ {cq_ptr[polling_index]}
        /\ UNCHANGED <<bitmap, sent, cq_ptr, cq_ph, wr_index, wr_phase, pc0, sq0, sq1>>
    BY DEF Poll, device, core0
  <1>2. /\ wr_index \in SqIndex /\ wr_phase \in CqPhase /\ polling_index \in SqIndex
        /\ polling_phase \in CqPhase /\ cq_ptr \in [SqIndex -> SqIndex]
    BY DEF IInv, TypeInv
  <1>3. /\ (polling_phase + 1) % PHASES = NextPhase(polling_phase)
        /\ NextPhase(polling_phase) \in CqPhase /\ NextPhase(polling_phase) # polling_phase
        /\ PrevPhase(polling_phase) # polling_phase
    BY <1>2, PhaseFacts
  <1>4. polling_index' \in SqIndex /\ polling_phase' \in CqPhase
    BY <1>1, <1>2, <1>3 DEF SqIndex
  <1>5. TypeInv'
    BY <1>1, <1>2, <1>4 DEF IInv, TypeInv
  <1>6. \A j \in SqIndex : j \in Int /\ 0 <= j /\ j < HW_QUEUE_DEPTH
    BY DEF SqIndex
  <1>7. \/ wr_phase = polling_phase /\ polling_index < wr_index
        \/ wr_phase # polling_phase /\ wr_phase = NextPhase(polling_phase) /\ wr_index <= polling_index
    <2>1. cq_ph[polling_index] = IF polling_index < wr_index THEN wr_phase ELSE PrevPhase(wr_phase)
      BY <1>2 DEF IInv, PhaseInv
    <2>2. LapInv
      BY DEF IInv
    <2>3. QED
      BY <2>1, <2>2, <1>1, <1>2, <1>3, <1>6 DEF LapInv
  <1>8. LapInv'
    <2>1. CASE wr_phase = polling_phase /\ polling_index < wr_index
      <3>1. ~wraps
        BY <2>1, <1>2, <1>6
      <3>2. QED
        BY <3>1, <2>1, <1>1, <1>2, <1>6 DEF LapInv
    <2>2. CASE wr_phase = NextPhase(polling_phase) /\ wr_index <= polling_index
      BY <2>2, <1>1, <1>2, <1>3, <1>6 DEF LapInv
    <2>3. QED
      BY <1>7, <2>1, <2>2
  <1>9. PhaseInv'
    BY <1>1 DEF IInv, PhaseInv
  <1>10. polling_index \in Pending /\ Pending' = Pending \ {polling_index}
    <2>1. CASE wr_phase = polling_phase /\ polling_index < wr_index
      <3>1. ~wraps
        BY <2>1, <1>2, <1>6
      <3>2. polling_index' = polling_index + 1 /\ wr_phase' = polling_phase' /\ wr_index' = wr_index
        BY <3>1, <2>1, <1>1
      <3>3. \A j \in SqIndex : (polling_index + 1 <= j /\ j < wr_index)
                               <=> ((polling_index <= j /\ j < wr_index) /\ j # polling_index)
        BY <1>2, <1>6
      <3>4. polling_index <= polling_index
        BY <1>2, <1>6
      <3>5. QED
        BY <3>2, <3>3, <3>4, <2>1, <1>2 DEF Pending
    <2>2. CASE wr_phase # polling_phase /\ wr_phase = NextPhase(polling_phase) /\ wr_index <= polling_index
      <3>1. polling_index <= polling_index
        BY <1>2, <1>6
      <3>2. CASE wraps
        <4>1. polling_index' = 0 /\ wr_phase' = polling_phase' /\ wr_index' = wr_index
          BY <3>2, <2>2, <1>1, <1>3
        <4>2. \A j \in SqIndex : (0 <= j /\ j < wr_index)
                                 <=> ((polling_index <= j \/ j < wr_index) /\ j # polling_index)
          BY <3>2, <2>2, <1>2, <1>6
        <4>3. QED
          BY <4>1, <4>2, <3>1, <2>2, <1>2 DEF Pending
      <3>3. CASE ~wraps
        <4>1. polling_index' = polling_index + 1 /\ wr_phase' # polling_phase' /\ wr_index' = wr_index
          BY <3>3, <2>2, <1>1
        <4>2. \A j \in SqIndex : (polling_index + 1 <= j \/ j < wr_index)
                                 <=> ((polling_index <= j \/ j < wr_index) /\ j # polling_index)
          BY <2>2, <1>2, <1>6
        <4>3. QED
          BY <4>1, <4>2, <3>1, <2>2, <1>2 DEF Pending
      <3>4. QED
        BY <3>2, <3>3
    <2>3. QED
      BY <1>7, <2>1, <2>2
  <1>11. Held = Pending /\ Held' = Pending
    BY <1>1, <1>10 DEF Held
  <1>12. /\ completed = {cq_ptr[j] : j \in Pending}
         /\ \A j, k \in Pending : cq_ptr[j] = cq_ptr[k] => j = k
    BY <1>11 DEF IInv, CqInv
  <1>13. CqInv'
    <2>1. completed' = {cq_ptr'[j] : j \in Pending'}
      BY <1>1, <1>10, <1>12
    <2>2. \A j, k \in Held' : cq_ptr'[j] = cq_ptr'[k] => j = k
      BY <1>1, <1>11, <1>12
    <2>3. /\ cq1' \notin Pending'
          /\ polling_index' = IF cq1' + 1 = HW_QUEUE_DEPTH THEN 0 ELSE cq1' + 1
      BY <1>1, <1>10
    <2>4. QED
      BY <2>1, <2>2, <2>3 DEF CqInv
  <1>14. SqInv'
    <2>1. Mine0' = Mine0
      BY <1>1 DEF Mine0
    <2>2. Mine1 = {} /\ Mine1' = {cq_ptr[polling_index]}
      BY <1>1 DEF Mine1
    <2>3. cq_ptr[polling_index] \in completed
      BY <1>10, <1>12
    <2>4. QED
      BY <2>1, <2>2, <2>3, <1>1 DEF IInv, SqInv
  <1>15. QED
    BY <1>5, <1>8, <1>9, <1>13, <1>14 DEF IInv

LEMMA Core1Keeps == IInv /\ Core1 => IInv'
  <1> SUFFICES ASSUME IInv, Core1 PROVE IInv'
    OBVIOUS
  <1>1. CASE Poll
    BY <1>1, PollKeeps
  <1>2. CASE ReadPtr
    <2>1. /\ pc1 = "ptr" /\ pc1' = "hcmd" /\ sq1' = cq_ptr[cq1]
          /\ UNCHANGED <<bitmap, sent, completed, cq_ptr, cq_ph, wr_index, wr_phase, polling_index,
                         polling_phase, pc0, sq0, cq1>>
      BY <1>2 DEF ReadPtr, device, core0
    <2>2. TypeInv'
      BY <2>1 DEF IInv, TypeInv
    <2>3. LapInv' /\ PhaseInv' /\ CqInv'
      BY <2>1, CqReleased DEF cqVars
    <2>4. Mine0' = Mine0 /\ Mine1' = Mine1
      BY <2>1 DEF Mine0, Mine1
    <2>5. SqInv'
      BY <2>1, <2>4 DEF IInv, SqInv
    <2>6. QED
      BY <2>2, <2>3, <2>5 DEF IInv
  <1>3. CASE ReadHcmd
    <2>1. /\ pc1 = "hcmd" /\ pc1' = "free" /\ sq1' = sq1
          /\ UNCHANGED <<bitmap, sent, completed, cq_ptr, cq_ph, wr_index, wr_phase, polling_index,
                         polling_phase, pc0, sq0, cq1>>
      BY <1>3 DEF ReadHcmd, device, core0
    <2>2. TypeInv'
      BY <2>1 DEF IInv, TypeInv
    <2>3. LapInv' /\ PhaseInv' /\ CqInv'
      BY <2>1, CqReleased DEF cqVars
    <2>4. Mine0' = Mine0 /\ Mine1' = Mine1
      BY <2>1 DEF Mine0, Mine1
    <2>5. SqInv'
      BY <2>1, <2>4 DEF IInv, SqInv
    <2>6. QED
      BY <2>2, <2>3, <2>5 DEF IInv
  <1>4. CASE FreeEntry
    <2>1. /\ pc1 = "free" /\ pc1' = "count" /\ sq1' = sq1 /\ bitmap' = bitmap \ {sq1}
          /\ UNCHANGED <<sent, completed, cq_ptr, cq_ph, wr_index, wr_phase, polling_index,
                         polling_phase, pc0, sq0, cq1>>
      BY <1>4 DEF FreeEntry, device, core0
    <2>2. TypeInv'
      BY <2>1 DEF IInv, TypeInv
    <2>3. LapInv' /\ PhaseInv' /\ CqInv'
      BY <2>1, CqReleased DEF cqVars
    <2>4. Mine0' = Mine0 /\ Mine1 = {sq1} /\ Mine1' = {}
      BY <2>1 DEF Mine0, Mine1
    <2>5. SqInv'
      BY <2>1, <2>4 DEF IInv, SqInv
    <2>6. QED
      BY <2>2, <2>3, <2>5 DEF IInv
  <1>5. CASE Count
    <2>1. /\ pc1 = "count" /\ pc1' = "poll" /\ sq1' = 0 /\ cq1' = 0
          /\ UNCHANGED <<bitmap, sent, completed, cq_ptr, cq_ph, wr_index, wr_phase, polling_index,
                         polling_phase, pc0, sq0>>
      BY <1>5 DEF Count, device, core0
    <2>2. TypeInv'
      <3>1. 0 \in SqIndex
        BY DEF SqIndex
      <3>2. QED
        BY <3>1, <2>1 DEF IInv, TypeInv
    <2>3. Pending' = Pending /\ Held' = Held
      BY <2>1 DEF Pending, Held
    <2>4. LapInv' /\ PhaseInv' /\ CqInv'
      BY <2>1, <2>3 DEF IInv, LapInv, PhaseInv, CqInv
    <2>5. Mine0' = Mine0 /\ Mine1' = Mine1
      BY <2>1 DEF Mine0, Mine1
    <2>6. SqInv'
      BY <2>1, <2>5 DEF IInv, SqInv
    <2>7. QED
      BY <2>2, <2>4, <2>6 DEF IInv
  <1>6. QED
    BY <1>1, <1>2, <1>3, <1>4, <1>5 DEF Core1

LEMMA IInvHolds == FqSpec => []IInv
  <1>1. IInv /\ [FqNext]_fqVars => IInv'
    <2> SUFFICES ASSUME IInv, [FqNext]_fqVars PROVE IInv'
      OBVIOUS
    <2>1. CASE UNCHANGED fqVars
      <3>1. UNCHANGED iVars
        BY <2>1 DEF fqVars, iVars, device, core0, core1
      <3>2. QED
        BY <3>1, StutterKeeps
    <2>2. ASSUME NEW h \in HostCmd, NewCommand(h) PROVE IInv'
      <3>1. UNCHANGED iVars
        BY <2>2 DEF NewCommand, iVars, device, core0, core1
      <3>2. QED
        BY <3>1, StutterKeeps
    <2>3. QED
      BY <2>1, <2>2, Core0Keeps, Core1Keeps, CompleteKeeps DEF FqNext, Controller
  <1>2. QED
    BY <1>1, InitEstablishes, PTL DEF FqSpec

-----------------------------------------------------------------------------
\* FTL_CQ_polling recognises the controller's completions exactly, whatever
\* the depth of the CQ and however often its index and its phase wrap.
THEOREM PollingIsExact == FqSpec => []PhaseExact
  <1>1. IInv => PhaseExact
    <2> SUFFICES ASSUME IInv PROVE PhaseExact
      OBVIOUS
    <2>1. /\ wr_index \in SqIndex /\ wr_phase \in CqPhase /\ polling_index \in SqIndex
          /\ polling_phase \in CqPhase /\ LapInv
      BY DEF IInv, TypeInv
    <2>2. cq_ph[polling_index] = IF polling_index < wr_index THEN wr_phase ELSE PrevPhase(wr_phase)
      BY <2>1 DEF IInv, PhaseInv
    <2>3. /\ PrevPhase(wr_phase) # wr_phase
          /\ NextPhase(polling_phase) # polling_phase
          /\ PrevPhase(NextPhase(polling_phase)) = polling_phase
      BY <2>1, PhaseFacts
    <2>4. wr_index \in Int /\ polling_index \in Int
      BY <2>1 DEF SqIndex
    <2>5. cq_ph[polling_index] = polling_phase <=> Pending # {}
      <3>1. CASE wr_phase = polling_phase
        <4>1. polling_index < wr_index => polling_index \in Pending
          BY <3>1, <2>1, <2>4 DEF Pending
        <4>2. ~ (polling_index < wr_index) => Pending = {}
          BY <3>1, <2>4 DEF Pending, SqIndex
        <4>3. QED
          BY <4>1, <4>2, <3>1, <2>2, <2>3
      <3>2. CASE wr_phase # polling_phase
        <4>1. wr_phase = NextPhase(polling_phase) /\ wr_index <= polling_index
          BY <3>2, <2>1 DEF LapInv
        <4>2. polling_index \in Pending
          BY <3>2, <2>1, <2>4 DEF Pending
        <4>3. QED
          BY <4>1, <4>2, <2>2, <2>3, <2>4
      <3>3. QED
        BY <3>1, <3>2
    <2>6. completed = {} <=> Pending = {}
      <3>1. completed = {cq_ptr[j] : j \in Pending}
        BY DEF IInv, CqInv
      <3>2. \A j \in Pending : cq_ptr[j] \in completed
        BY <3>1
      <3>3. \A i \in completed : \E j \in Pending : i = cq_ptr[j]
        BY <3>1
      <3>4. QED
        BY <3>2, <3>3
    <2>7. QED
      BY <2>5, <2>6 DEF PhaseExact
  <1>2. QED
    BY <1>1, IInvHolds, PTL

\* The bitmap of FCL_get_free_SQ_entry and FCL_free_SQ_entry holds exactly
\* the SQ entries in use: none is handed out twice and none is lost.
THEOREM BitmapIsExact == FqSpec => []EntriesExact
  <1>1. IInv => EntriesExact
    BY DEF IInv, SqInv, Mine0, Mine1, EntriesExact
  <1>2. QED
    BY <1>1, IInvHolds, PTL

-----------------------------------------------------------------------------
(* The commands.                                                            *)

\* The SQ entries whose hcmd_index core 1 has still to read.
Carriers == sent \cup completed \cup (IF pc1 \in {"ptr", "hcmd"} THEN Mine1 ELSE {})

\* The commands with the controller, with core 0 and with core 1.
Fly == {hcmd_index[i] : i \in Carriers}
Hand0 == {hcmd0} \ {NoHcmd}
Hand1 == {hcmd1} \ {NoHcmd}

CmdTypes ==
  /\ hcmd_index \in [SqIndex -> HostCmd \cup {NoHcmd}]
  /\ free_hcmd \subseteq HostCmd /\ to_sq \in Seq(HostCmd) /\ from_cq \in Seq(HostCmd)
  /\ cpl_cnt \in [HostCmd -> 0 .. 1]
  /\ hcmd0 \in HostCmd \cup {NoHcmd} /\ hcmd1 \in HostCmd \cup {NoHcmd}

\* The six places share no command and hold them all.
Apart(a, b, c, d, e, f) ==
  /\ a \cap b = {} /\ a \cap c = {} /\ a \cap d = {} /\ a \cap e = {} /\ a \cap f = {}
  /\ b \cap c = {} /\ b \cap d = {} /\ b \cap e = {} /\ b \cap f = {}
  /\ c \cap d = {} /\ c \cap e = {} /\ c \cap f = {}
  /\ d \cap e = {} /\ d \cap f = {} /\ e \cap f = {}
  /\ a \cup b \cup c \cup d \cup e \cup f = HostCmd

PlacesInv ==
  /\ Distinct(to_sq) /\ Distinct(from_cq)
  /\ \A i, j \in Carriers : hcmd_index[i] = hcmd_index[j] => i = j
  /\ Apart(free_hcmd, Range(to_sq), Hand0, Fly, Hand1, Range(from_cq))

\* What the cores hold where they are.
HandsInv ==
  /\ pc0 = "idle" <=> hcmd0 = NoHcmd
  /\ pc0 = "send" => hcmd_index[sq0] = hcmd0
  /\ pc1 \in {"free", "count"} <=> hcmd1 # NoHcmd

\* A command has no page completed until it is back.
CountInv == \A h \in HostCmd : cpl_cnt[h] = 0 \/ h \in free_hcmd \/ h \in Range(from_cq)

CmdInv == CmdTypes /\ PlacesInv /\ HandsInv /\ CountInv

Places == <<free_hcmd, to_sq, from_cq, hcmd0, hcmd1>>

\* The entries that carry a command are SQ entries, and core 0's is not one.
LEMMA CarriersApart ==
  ASSUME IInv
  PROVE  Carriers \subseteq SqIndex /\ (pc0 # "idle" => sq0 \notin Carriers)
  <1>1. Mine1 \subseteq SqIndex
    BY DEF IInv, TypeInv, Mine1
  <1>2. Carriers \subseteq SqIndex
    BY <1>1 DEF IInv, TypeInv, Carriers
  <1>3. ASSUME pc0 # "idle" PROVE sq0 \notin Carriers
    <2>1. sq0 \in Mine0
      BY <1>3 DEF Mine0
    <2>2. QED
      BY <2>1 DEF IInv, SqInv, Carriers
  <1>4. QED
    BY <1>2, <1>3

\* What is carried stays, and each command once.
LEMMA FlyKept ==
  ASSUME PlacesInv, Carriers' = Carriers, \A i \in Carriers : hcmd_index'[i] = hcmd_index[i]
  PROVE  Fly' = Fly /\ \A i, j \in Carriers' : hcmd_index'[i] = hcmd_index'[j] => i = j
  <1>1. Fly' = {hcmd_index'[i] : i \in Carriers}
    BY DEF Fly
  <1>2. QED
    BY <1>1 DEF PlacesInv, Fly

\* A step that changes no place of a command.
LEMMA PlacesKept ==
  ASSUME PlacesInv, CountInv, Carriers' = Carriers, \A i \in Carriers : hcmd_index'[i] = hcmd_index[i],
         UNCHANGED Places, UNCHANGED cpl_cnt
  PROVE  PlacesInv' /\ CountInv'
  <1>1. Fly' = Fly /\ \A i, j \in Carriers' : hcmd_index'[i] = hcmd_index'[j] => i = j
    BY FlyKept
  <1>2. Hand0' = Hand0 /\ Hand1' = Hand1 /\ UNCHANGED <<to_sq, from_cq, free_hcmd>>
    BY DEF Places, Hand0, Hand1
  <1>3. PlacesInv'
    BY <1>1, <1>2 DEF PlacesInv
  <1>4. CountInv'
    BY <1>2 DEF CountInv
  <1>5. QED
    BY <1>3, <1>4

LEMMA NewCommandCmd ==
  ASSUME IInv, CmdInv, NEW h \in HostCmd, NewCommand(h)
  PROVE  CmdInv'
  <1>1. /\ h \in free_hcmd /\ free_hcmd' = free_hcmd \ {h} /\ to_sq' = Append(to_sq, h)
        /\ cpl_cnt' = [cpl_cnt EXCEPT ![h] = 0]
        /\ UNCHANGED <<hcmd_index, from_cq, hcmd0, hcmd1, pc0, sq0, pc1, sq1, cq1, cq_ptr, sent, completed>>
    BY DEF NewCommand, device, core0, core1
  <1>2. CmdTypes /\ PlacesInv /\ HandsInv /\ CountInv
    BY DEF CmdInv
  <1>3. CmdTypes'
    BY <1>1, <1>2 DEF CmdTypes
  <1>4. Carriers' = Carriers /\ Hand0' = Hand0 /\ Hand1' = Hand1
    BY <1>1 DEF Carriers, Mine1, Hand0, Hand1
  <1>5. Fly' = Fly /\ \A i, j \in Carriers' : hcmd_index'[i] = hcmd_index'[j] => i = j
    BY <1>1, <1>2, <1>4, FlyKept
  <1>6. h \notin Range(to_sq)
    BY <1>1, <1>2 DEF PlacesInv, Apart
  <1>7. Distinct(to_sq') /\ Range(to_sq') = Range(to_sq) \cup {h}
    BY <1>1, <1>2, <1>6, DistinctAppend DEF CmdTypes, PlacesInv
  <1>8. Apart(free_hcmd', Range(to_sq'), Hand0', Fly', Hand1', Range(from_cq'))
    BY <1>1, <1>2, <1>4, <1>5, <1>7, SMTT(30) DEF PlacesInv, Apart
  <1>9. PlacesInv'
    BY <1>1, <1>2, <1>5, <1>7, <1>8 DEF PlacesInv
  <1>10. HandsInv'
    BY <1>1, <1>2 DEF HandsInv
  <1>11. CountInv'
    BY <1>1, <1>2 DEF CountInv, CmdTypes
  <1>12. QED
    BY <1>3, <1>9, <1>10, <1>11 DEF CmdInv

LEMMA Core0Cmd ==
  ASSUME IInv, CmdInv, Core0
  PROVE  CmdInv'
  <1>0. CmdTypes /\ PlacesInv /\ HandsInv /\ CountInv
    BY DEF CmdInv
  <1>1. CASE GetEntry
    <2>1. /\ pc0 = "idle" /\ to_sq # << >> /\ hcmd0' = Head(to_sq) /\ to_sq' = Tail(to_sq) /\ pc0' = "set"
          /\ UNCHANGED <<hcmd_index, from_cq, free_hcmd, cpl_cnt, hcmd1, pc1, sq1, cq1, cq_ptr, sent, completed>>
      BY <1>1 DEF GetEntry, device, core1
    <2>2. /\ Distinct(Tail(to_sq)) /\ Head(to_sq) \notin Range(Tail(to_sq)) /\ Tail(to_sq) \in Seq(HostCmd)
          /\ Range(to_sq) = {Head(to_sq)} \cup Range(Tail(to_sq)) /\ Head(to_sq) \in HostCmd
      <3>1. to_sq \in Seq(HostCmd) /\ Distinct(to_sq)
        BY <1>0 DEF CmdTypes, PlacesInv
      <3>2. QED
        BY <2>1, <3>1, DistinctTail
    <2>3. CmdTypes'
      BY <1>0, <2>1, <2>2 DEF CmdTypes
    <2>4. Carriers' = Carriers /\ Hand1' = Hand1
      BY <2>1 DEF Carriers, Mine1, Hand1
    <2>5. Fly' = Fly /\ \A i, j \in Carriers' : hcmd_index'[i] = hcmd_index'[j] => i = j
      BY <1>0, <2>1, <2>4, FlyKept
    <2>6. Hand0 = {} /\ Hand0' = {Head(to_sq)}
      BY <1>0, <2>1, <2>2 DEF HandsInv, Hand0
    <2>7. Apart(free_hcmd', Range(to_sq'), Hand0', Fly', Hand1', Range(from_cq'))
      BY <1>0, <2>1, <2>2, <2>4, <2>5, <2>6 DEF PlacesInv, Apart
    <2>8. PlacesInv'
      BY <1>0, <2>1, <2>2, <2>5, <2>7 DEF PlacesInv
    <2>9. HandsInv'
      BY <1>0, <2>1, <2>2 DEF HandsInv
    <2>10. CountInv'
      BY <1>0, <2>1 DEF CountInv
    <2>11. QED
      BY <2>3, <2>8, <2>9, <2>10 DEF CmdInv
  <1>2. CASE NoEntry
    <2>1. /\ to_sq # << >> /\ to_sq' = Append(Tail(to_sq), Head(to_sq))
          /\ UNCHANGED <<hcmd_index, from_cq, free_hcmd, cpl_cnt, hcmd0, hcmd1, pc0, sq0, pc1, sq1, cq1,
                         cq_ptr, sent, completed>>
      BY <1>2 DEF NoEntry, device, core0, core1
    <2>2. /\ Distinct(Tail(to_sq)) /\ Head(to_sq) \notin Range(Tail(to_sq)) /\ Tail(to_sq) \in Seq(HostCmd)
          /\ Range(to_sq) = {Head(to_sq)} \cup Range(Tail(to_sq)) /\ Head(to_sq) \in HostCmd
      <3>1. to_sq \in Seq(HostCmd) /\ Distinct(to_sq)
        BY <1>0 DEF CmdTypes, PlacesInv
      <3>2. QED
        BY <2>1, <3>1, DistinctTail
    <2>3. Distinct(to_sq') /\ Range(to_sq') = Range(to_sq) /\ to_sq' \in Seq(HostCmd)
      <3>1. PICK t \in Seq(HostCmd), e \in HostCmd : t = Tail(to_sq) /\ e = Head(to_sq)
        BY <2>2
      <3>2. Distinct(t) /\ e \notin Range(t)
        BY <2>2, <3>1, Zenon
      <3>3. Range(Append(t, e)) = Range(t) \cup {e} /\ Distinct(Append(t, e))
        BY <3>2, DistinctAppend
      <3>4. QED
        BY <2>1, <2>2, <3>1, <3>3
    <2>4. Carriers' = Carriers /\ Hand0' = Hand0 /\ Hand1' = Hand1
      BY <2>1 DEF Carriers, Mine1, Hand0, Hand1
    <2>5. Fly' = Fly /\ \A i, j \in Carriers' : hcmd_index'[i] = hcmd_index'[j] => i = j
      BY <1>0, <2>1, <2>4, FlyKept
    <2>6. PlacesInv'
      BY <1>0, <2>1, <2>3, <2>4, <2>5 DEF PlacesInv
    <2>7. CmdTypes' /\ HandsInv' /\ CountInv'
      BY <1>0, <2>1, <2>3 DEF CmdTypes, HandsInv, CountInv
    <2>8. QED
      BY <2>6, <2>7 DEF CmdInv
  <1>3. CASE SetEntry
    <2>1. /\ pc0 = "set" /\ pc0' = "send" /\ hcmd_index' = [hcmd_index EXCEPT ![sq0] = hcmd0]
          /\ UNCHANGED <<from_cq, to_sq, free_hcmd, cpl_cnt, hcmd0, hcmd1, sq0, pc1, sq1, cq1,
                         cq_ptr, sent, completed>>
      BY <1>3 DEF SetEntry, device, core1
    <2>2. sq0 \in SqIndex /\ Carriers \subseteq SqIndex /\ sq0 \notin Carriers
      BY <2>1, CarriersApart DEF IInv, TypeInv
    <2>3. Carriers' = Carriers
      BY <2>1 DEF Carriers, Mine1
    <2>4. hcmd_index'[sq0] = hcmd0 /\ \A i \in Carriers : hcmd_index'[i] = hcmd_index[i]
      BY <1>0, <2>1, <2>2 DEF CmdTypes
    <2>5. PlacesInv' /\ CountInv'
      BY <1>0, <2>1, <2>3, <2>4, PlacesKept DEF Places
    <2>6. CmdTypes' /\ HandsInv'
      BY <1>0, <2>1, <2>4 DEF CmdTypes, HandsInv
    <2>7. QED
      BY <2>5, <2>6 DEF CmdInv
  <1>4. CASE SendEntry
    <2>1. /\ pc0 = "send" /\ sent' = sent \cup {sq0} /\ pc0' = "idle" /\ hcmd0' = NoHcmd /\ sq0' = 0
          /\ UNCHANGED <<hcmd_index, from_cq, to_sq, free_hcmd, cpl_cnt, hcmd1, pc1, sq1, cq1,
                         cq_ptr, completed>>
      BY <1>4 DEF SendEntry, core1
    <2>2. hcmd_index[sq0] = hcmd0 /\ hcmd0 # NoHcmd /\ hcmd0 \in Hand0 /\ Hand0 = {hcmd0} /\ Hand0' = {}
      BY <1>0, <2>1 DEF HandsInv, Hand0
    <2>3. Carriers' = Carriers \cup {sq0} /\ Hand1' = Hand1
      BY <2>1 DEF Carriers, Mine1, Hand1
    <2>4. hcmd0 \notin Fly
      BY <1>0, <2>2 DEF PlacesInv, Apart
    <2>5. \A i \in Carriers : hcmd_index[i] # hcmd0
      BY <2>4 DEF Fly
    <2>6. Fly' = Fly \cup {hcmd0}
      <3>1. Fly' = {hcmd_index[i] : i \in Carriers \cup {sq0}}
        BY <2>1, <2>3 DEF Fly
      <3>2. QED
        BY <3>1, <2>2 DEF Fly
    <2>7. \A i, j \in Carriers' : hcmd_index'[i] = hcmd_index'[j] => i = j
      BY <1>0, <2>1, <2>2, <2>3, <2>5 DEF PlacesInv
    <2>8. Apart(free_hcmd', Range(to_sq'), Hand0', Fly', Hand1', Range(from_cq'))
      BY <1>0, <2>1, <2>2, <2>3, <2>6 DEF PlacesInv, Apart
    <2>9. PlacesInv'
      BY <1>0, <2>1, <2>7, <2>8 DEF PlacesInv
    <2>10. CmdTypes' /\ HandsInv' /\ CountInv'
      BY <1>0, <2>1 DEF CmdTypes, HandsInv, CountInv
    <2>11. QED
      BY <2>9, <2>10 DEF CmdInv
  <1>5. CASE FromCq
    <2>1. /\ from_cq # << >> /\ from_cq' = Tail(from_cq) /\ free_hcmd' = free_hcmd \cup {Head(from_cq)}
          /\ UNCHANGED <<hcmd_index, to_sq, cpl_cnt, hcmd0, hcmd1, pc0, sq0, pc1, sq1, cq1,
                         cq_ptr, sent, completed>>
      BY <1>5 DEF FromCq, device, core0, core1
    <2>2. /\ Distinct(Tail(from_cq)) /\ Head(from_cq) \notin Range(Tail(from_cq))
          /\ Tail(from_cq) \in Seq(HostCmd) /\ Head(from_cq) \in HostCmd
          /\ Range(from_cq) = {Head(from_cq)} \cup Range(Tail(from_cq))
      <3>1. from_cq \in Seq(HostCmd) /\ Distinct(from_cq)
        BY <1>0 DEF CmdTypes, PlacesInv
      <3>2. QED
        BY <2>1, <3>1, DistinctTail
    <2>3. Carriers' = Carriers /\ Hand0' = Hand0 /\ Hand1' = Hand1
      BY <2>1 DEF Carriers, Mine1, Hand0, Hand1
    <2>4. Fly' = Fly /\ \A i, j \in Carriers' : hcmd_index'[i] = hcmd_index'[j] => i = j
      BY <1>0, <2>1, <2>3, FlyKept
    <2>5. Apart(free_hcmd', Range(to_sq'), Hand0', Fly', Hand1', Range(from_cq'))
      BY <1>0, <2>1, <2>2, <2>3, <2>4, SMTT(30) DEF PlacesInv, Apart
    <2>6. PlacesInv'
      BY <1>0, <2>1, <2>2, <2>4, <2>5 DEF PlacesInv
    <2>7. CmdTypes' /\ HandsInv'
      BY <1>0, <2>1, <2>2 DEF CmdTypes, HandsInv
    <2>8. CountInv'
      BY <1>0, <2>1, <2>2 DEF CountInv
    <2>9. QED
      BY <2>6, <2>7, <2>8 DEF CmdInv
  <1>6. QED
    BY <1>1, <1>2, <1>3, <1>4, <1>5 DEF Core0

\* The controller moves an entry from sent to completed: what core 1 holds of the
\* bitmap stays the same.
LEMMA CompleteCmd ==
  ASSUME IInv, IInv', CmdInv, NEW i \in SqIndex, Complete(i)
  PROVE  CmdInv'
  <1>0. CmdTypes /\ PlacesInv /\ HandsInv /\ CountInv
    BY DEF CmdInv
  <1>1. /\ i \in sent /\ sent' = sent \ {i} /\ completed' = completed \cup {i}
        /\ UNCHANGED <<bitmap, hcmd_index, to_sq, from_cq, free_hcmd, cpl_cnt, hcmd0, hcmd1, pc0, sq0,
                       pc1, sq1, cq1>>
    BY DEF Complete, core0, core1
  <1>2. Mine0' = Mine0
    BY <1>1 DEF Mine0
  <1>3. Mine1' = Mine1
    BY <1>1, <1>2 DEF IInv, SqInv
  <1>4. Carriers' = Carriers
    BY <1>1, <1>3 DEF Carriers
  <1>5. PlacesInv' /\ CountInv'
    BY <1>0, <1>1, <1>4, PlacesKept DEF Places
  <1>6. CmdTypes' /\ HandsInv'
    BY <1>0, <1>1 DEF CmdTypes, HandsInv
  <1>7. QED
    BY <1>5, <1>6 DEF CmdInv

LEMMA Core1Cmd ==
  ASSUME IInv, IInv', CmdInv, Core1
  PROVE  CmdInv'
  <1>0. CmdTypes /\ PlacesInv /\ HandsInv /\ CountInv
    BY DEF CmdInv
  <1>1. CASE Poll
    <2>1. /\ pc1 = "poll" /\ pc1' = "ptr" /\ completed' = completed \ {cq_ptr[polling_index]}
          /\ cq1' = polling_index /\ cq_ptr' = cq_ptr
          /\ UNCHANGED <<bitmap, hcmd_index, to_sq, from_cq, free_hcmd, cpl_cnt, hcmd0, hcmd1, pc0, sq0, sent>>
      BY <1>1 DEF Poll, device, core0
    <2>2. Mine0' = Mine0 /\ Mine1 = {} /\ Mine1' = {cq_ptr[polling_index]}
      BY <2>1 DEF Mine0, Mine1
    <2>3. Carriers = sent \cup completed /\ Carriers' = sent \cup completed' \cup Mine1'
      BY <2>1, <2>2 DEF Carriers
    <2>4. cq_ptr[polling_index] \in completed
      BY <2>1, <2>2 DEF IInv, SqInv
    <2>5. Carriers' = Carriers
      BY <2>1, <2>2, <2>3, <2>4
    <2>6. PlacesInv' /\ CountInv'
      BY <1>0, <2>1, <2>5, PlacesKept DEF Places
    <2>7. CmdTypes' /\ HandsInv'
      BY <1>0, <2>1 DEF CmdTypes, HandsInv
    <2>8. QED
      BY <2>6, <2>7 DEF CmdInv
  <1>2. CASE ReadPtr
    <2>1. /\ pc1 = "ptr" /\ pc1' = "hcmd" /\ sq1' = cq_ptr[cq1]
          /\ UNCHANGED <<hcmd_index, to_sq, from_cq, free_hcmd, cpl_cnt, hcmd0, hcmd1, pc0, sq0, sent, completed>>
      BY <1>2 DEF ReadPtr, device, core0
    <2>2. Carriers' = Carriers
      BY <2>1 DEF Carriers, Mine1
    <2>3. PlacesInv' /\ CountInv'
      BY <1>0, <2>1, <2>2, PlacesKept DEF Places
    <2>4. CmdTypes' /\ HandsInv'
      BY <1>0, <2>1 DEF CmdTypes, HandsInv
    <2>5. QED
      BY <2>3, <2>4 DEF CmdInv
  <1>3. CASE ReadHcmd
    <2>1. /\ pc1 = "hcmd" /\ pc1' = "free" /\ hcmd1' = hcmd_index[sq1]
          /\ UNCHANGED <<hcmd_index, to_sq, from_cq, free_hcmd, cpl_cnt, hcmd0, pc0, sq0, sq1, sent, completed>>
      BY <1>3 DEF ReadHcmd, device, core0
    <2>2. Mine1 = {sq1} /\ sq1 \in Carriers /\ Carriers' = Carriers \ {sq1}
      BY <2>1 DEF Carriers, Mine1, IInv, SqInv
    <2>3. hcmd1' \in Fly /\ hcmd1' \in HostCmd /\ hcmd1 = NoHcmd
      BY <1>0, <2>1, <2>2 DEF Fly, PlacesInv, Apart, HandsInv
    <2>4. Hand0' = Hand0 /\ Hand1 = {} /\ Hand1' = {hcmd1'}
      BY <2>1, <2>3 DEF Hand0, Hand1
    <2>5. Fly' = Fly \ {hcmd1'}
      <3>1. Fly' = {hcmd_index[i] : i \in Carriers \ {sq1}}
        BY <2>1, <2>2 DEF Fly
      <3>2. \A i \in Carriers : hcmd_index[i] = hcmd_index[sq1] => i = sq1
        BY <1>0, <2>2 DEF PlacesInv
      <3>3. QED
        BY <2>1, <3>1, <3>2 DEF Fly
    <2>6. \A i, j \in Carriers' : hcmd_index'[i] = hcmd_index'[j] => i = j
      BY <1>0, <2>1, <2>2 DEF PlacesInv
    <2>7. Apart(free_hcmd', Range(to_sq'), Hand0', Fly', Hand1', Range(from_cq'))
      <3>1. PICK c \in Fly : /\ free_hcmd' = free_hcmd /\ to_sq' = to_sq /\ from_cq' = from_cq
                             /\ Hand0' = Hand0 /\ Hand1 = {} /\ Hand1' = {c} /\ Fly' = Fly \ {c}
        BY <2>1, <2>3, <2>4, <2>5
      <3>2. Apart(free_hcmd, Range(to_sq), Hand0, Fly, Hand1, Range(from_cq))
        BY <1>0 DEF PlacesInv
      <3>3. Apart(free_hcmd, Range(to_sq), Hand0, Fly \ {c}, {c}, Range(from_cq))
        BY <3>1, <3>2 DEF Apart
      <3>4. QED
        BY <3>1, <3>3
    <2>8. PlacesInv'
      BY <1>0, <2>1, <2>6, <2>7 DEF PlacesInv
    <2>9. CmdTypes' /\ HandsInv' /\ CountInv'
      BY <1>0, <2>1, <2>3 DEF CmdTypes, HandsInv, CountInv
    <2>10. QED
      BY <2>8, <2>9 DEF CmdInv
  <1>4. CASE FreeEntry
    <2>1. /\ pc1 = "free" /\ pc1' = "count"
          /\ UNCHANGED <<hcmd_index, to_sq, from_cq, free_hcmd, cpl_cnt, hcmd0, hcmd1, pc0, sq0, sent, completed>>
      BY <1>4 DEF FreeEntry, device, core0
    <2>2. Carriers' = Carriers
      BY <2>1 DEF Carriers
    <2>3. PlacesInv' /\ CountInv'
      BY <1>0, <2>1, <2>2, PlacesKept DEF Places
    <2>4. CmdTypes' /\ HandsInv'
      BY <1>0, <2>1 DEF CmdTypes, HandsInv
    <2>5. QED
      BY <2>3, <2>4 DEF CmdInv
  <1>5. CASE Count
    <2>1. /\ pc1 = "count" /\ pc1' = "poll" /\ hcmd1' = NoHcmd
          /\ cpl_cnt' = [cpl_cnt EXCEPT ![hcmd1] = cpl_cnt[hcmd1] + 1]
          /\ from_cq' = IF cpl_cnt[hcmd1] + 1 = 1 THEN Append(from_cq, hcmd1) ELSE from_cq
          /\ UNCHANGED <<hcmd_index, to_sq, free_hcmd, hcmd0, pc0, sq0, sent, completed>>
      BY <1>5 DEF Count, device, core0
    <2>2. hcmd1 \in HostCmd /\ Hand1 = {hcmd1} /\ Hand1' = {} /\ Hand0' = Hand0
      BY <1>0, <2>1 DEF HandsInv, CmdTypes, Hand0, Hand1
    <2>3. hcmd1 \notin free_hcmd /\ hcmd1 \notin Range(from_cq)
      BY <1>0, <2>2 DEF PlacesInv, Apart
    <2>4. cpl_cnt[hcmd1] = 0
      BY <1>0, <2>2, <2>3 DEF CountInv
    <2>5. /\ from_cq' = Append(from_cq, hcmd1) /\ from_cq' \in Seq(HostCmd)
          /\ cpl_cnt' = [cpl_cnt EXCEPT ![hcmd1] = 1]
      BY <1>0, <2>1, <2>2, <2>4 DEF CmdTypes
    <2>6. Range(from_cq') = Range(from_cq) \cup {hcmd1} /\ Distinct(from_cq')
      BY <1>0, <2>2, <2>3, <2>5, DistinctAppend DEF CmdTypes, PlacesInv
    <2>7. Carriers' = Carriers
      BY <2>1 DEF Carriers
    <2>8. Fly' = Fly /\ \A i, j \in Carriers' : hcmd_index'[i] = hcmd_index'[j] => i = j
      BY <1>0, <2>1, <2>7, FlyKept
    <2>9. Apart(free_hcmd', Range(to_sq'), Hand0', Fly', Hand1', Range(from_cq'))
      BY <1>0, <2>1, <2>2, <2>6, <2>8 DEF PlacesInv, Apart
    <2>10. PlacesInv'
      BY <1>0, <2>1, <2>6, <2>8, <2>9 DEF PlacesInv
    <2>11. CmdTypes' /\ HandsInv'
      BY <1>0, <2>1, <2>2, <2>5 DEF CmdTypes, HandsInv
    <2>12. CountInv'
      BY <1>0, <2>1, <2>2, <2>5, <2>6 DEF CountInv, CmdTypes
    <2>13. QED
      BY <2>10, <2>11, <2>12 DEF CmdInv
  <1>6. QED
    BY <1>1, <1>2, <1>3, <1>4, <1>5 DEF Core1

LEMMA CmdInit == FqInit => CmdInv
  <1> SUFFICES ASSUME FqInit PROVE CmdInv
    OBVIOUS
  <1>1. Range(<< >>) = {} /\ Distinct(<< >>)
    BY DEF Range, Distinct
  <1>2. Carriers = {} /\ Hand0 = {} /\ Hand1 = {}
    BY DEF FqInit, Carriers, Hand0, Hand1
  <1>3. Fly = {}
    BY <1>2 DEF Fly
  <1>4. PlacesInv
    BY <1>1, <1>2, <1>3 DEF FqInit, PlacesInv, Apart
  <1>5. CmdTypes /\ HandsInv /\ CountInv
    BY DEF FqInit, CmdTypes, HandsInv, CountInv
  <1>6. QED
    BY <1>4, <1>5 DEF CmdInv

LEMMA CmdHolds == FqSpec => [](IInv /\ CmdInv)
  <1>1. IInv /\ IInv' /\ CmdInv /\ [FqNext]_fqVars => CmdInv'
    <2> SUFFICES ASSUME IInv, IInv', CmdInv, [FqNext]_fqVars PROVE CmdInv'
      OBVIOUS
    <2>1. CASE UNCHANGED fqVars
      <3>1. UNCHANGED <<hcmd_index, to_sq, from_cq, free_hcmd, cpl_cnt, hcmd0, hcmd1, pc0, sq0,
                        pc1, sq1, cq1, cq_ptr, sent, completed>>
        BY <2>1 DEF fqVars, device, core0, core1
      <3>2. Carriers' = Carriers
        BY <3>1 DEF Carriers, Mine1
      <3>3. PlacesInv' /\ CountInv'
        BY <3>1, <3>2, PlacesKept DEF Places, CmdInv
      <3>4. CmdTypes' /\ HandsInv'
        BY <3>1 DEF CmdInv, CmdTypes, HandsInv
      <3>5. QED
        BY <3>3, <3>4 DEF CmdInv
    <2>2. QED
      BY <2>1, NewCommandCmd, Core0Cmd, Core1Cmd, CompleteCmd DEF FqNext, Controller
  <1>2. QED
    BY <1>1, CmdInit, IInvHolds, PTL DEF FqSpec

\* A value is in a sequence without repetition once or not at all.
LEMMA OccursOnce ==
  ASSUME NEW q \in Seq(HostCmd), Distinct(q), NEW h
  PROVE  Occurrences(q, h) = IF h \in Range(q) THEN 1 ELSE 0
  <1>1. CASE h \in Range(q)
    <2>1. PICK k \in DOMAIN q : q[k] = h
      BY <1>1, Zenon DEF Range
    <2>2. {j \in DOMAIN q : q[j] = h} = {k}
      BY <2>1 DEF Distinct
    <2>3. QED
      BY <1>1, <2>2, FS_Singleton DEF Occurrences
  <1>2. CASE h \notin Range(q)
    <2>1. {j \in DOMAIN q : q[j] = h} = {}
      BY <1>2, Zenon DEF Range
    <2>2. QED
      BY <1>2, <2>1, FS_EmptySet DEF Occurrences
  <1>3. QED
    BY <1>1, <1>2

\* From FTL_nvme_req_polling through the SQ, the controller and the CQ back to
\* HCE_FROM_CQ a command is at any time in exactly one place, whatever the depth
\* of the queues and the number of commands.
THEOREM EachCommandOnce == FqSpec => []EachHcmdOnce
  <1>1. ASSUME IInv, CmdInv PROVE EachHcmdOnce
    <2>0. CmdTypes /\ PlacesInv
      BY <1>1 DEF CmdInv
    <2> SUFFICES ASSUME NEW h \in HostCmd
                 PROVE  Occurrences(to_sq, h) + Occurrences(from_cq, h) + Cardinality(InFlight(h))
                          + (IF h \in free_hcmd THEN 1 ELSE 0) + (IF hcmd0 = h THEN 1 ELSE 0)
                          + (IF hcmd1 = h THEN 1 ELSE 0) = 1
      BY DEF EachHcmdOnce
    <2>1. /\ Occurrences(to_sq, h) = IF h \in Range(to_sq) THEN 1 ELSE 0
          /\ Occurrences(from_cq, h) = IF h \in Range(from_cq) THEN 1 ELSE 0
      BY <2>0, OccursOnce DEF CmdTypes, PlacesInv
    <2>2. InFlight(h) = {i \in Carriers : hcmd_index[i] = h}
      BY <1>1 DEF InFlight, Carriers, Mine1, IInv, TypeInv
    <2>3. Cardinality(InFlight(h)) = IF h \in Fly THEN 1 ELSE 0
      <3>1. CASE h \in Fly
        <4>1. PICK i \in Carriers : hcmd_index[i] = h
          BY <3>1 DEF Fly
        <4>2. InFlight(h) = {i}
          BY <4>1, <2>0, <2>2 DEF PlacesInv
        <4>3. QED
          BY <3>1, <4>2, FS_Singleton
      <3>2. CASE h \notin Fly
        <4>1. InFlight(h) = {}
          BY <3>2, <2>2 DEF Fly
        <4>2. QED
          BY <3>2, <4>1, FS_EmptySet
      <3>3. QED
        BY <3>1, <3>2
    <2>4. (hcmd0 = h <=> h \in Hand0) /\ (hcmd1 = h <=> h \in Hand1)
      BY DEF Hand0, Hand1
    <2>5. Apart(free_hcmd, Range(to_sq), Hand0, Fly, Hand1, Range(from_cq))
      BY <2>0 DEF PlacesInv
    <2>6. QED
      BY <2>1, <2>3, <2>4, <2>5 DEF Apart
  <1>2. QED
    BY <1>1, CmdHolds, PTL
=============================================================================
