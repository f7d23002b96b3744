-------------------------- MODULE Emulator_proofs ---------------------------
(***************************************************************************)
(* The shared-memory front end keeps its invariants for every number of     *)
(* slots, threads and requests.  The composed emulator implements the       *)
(* specifications its two components were checked against alone, so what    *)
(* Shm and FtlPipeline guarantee holds of the whole system.                 *)
(***************************************************************************)
EXTENDS Emulator, QueueLemmas, SequenceTheorems

\* The inductive invariant: the properties support each other.  A slot is only
\* removed under the lock, so what a host saw in FREE_LIST is still there; the
\* slot in the FTL's hands is in no list, so nobody writes it.
ShmInv ==
  /\ ShmTypeOK /\ MutualExclusion /\ SlotsConserved /\ SlotAvailable
  /\ CopyIsCurrent /\ ExactlyOnce

Holding == {"got", "free", "back", "add_free", "add_rdy"}

LEMMA HostIsNotFtl ==
  /\ \A p \in Host : p # "ftl" /\ p \in Process
  /\ "ftl" \in Process /\ "fe" \in Host /\ Fio \subseteq Host
BY ShmAssumption DEF Host, Process

-----------------------------------------------------------------------------
(* The spin lock.                                                           *)

\* A process that takes the lock, or releases it, or stays on its side of it.
LEMMA MutexMove ==
  ASSUME ShmTypeOK, MutualExclusion, NEW p \in Process, NEW from, NEW to, Goto(p, from, to),
         \/ CTRL_BYTE = 0 /\ CTRL_BYTE' = 1
         \/ CTRL_BYTE' = CTRL_BYTE /\ (to \in Locked => from \in Locked)
         \/ CTRL_BYTE' = 0 /\ from \in Locked /\ to \notin Locked
  PROVE MutualExclusion'
<1>1. /\ shm_pc[p] = from /\ shm_pc'[p] = to
      /\ \A q \in Process : q # p => shm_pc'[q] = shm_pc[q]
  BY DEF Goto, ShmTypeOK
<1> QED BY <1>1 DEF MutualExclusion

\* Every step is one move of one process.
LEMMA MutexStep ==
  ASSUME ShmTypeOK, MutualExclusion, ShmNext
  PROVE MutualExclusion'
<1>1. ASSUME NEW p \in Host, HostGet(p) \/ HostRetry(p) \/ HostProceed(p) PROVE MutualExclusion'
  BY <1>1, MutexMove, HostIsNotFtl DEF HostGet, shm_get, HostRetry, HostProceed, Locked
<1>2. ASSUME FeStart \/ FeSend PROVE MutualExclusion'
  BY <1>2, MutexMove, HostIsNotFtl DEF FeStart, FeSend, Locked
<1>3. ASSUME NEW t \in Fio,
             FioStart(t) \/ FioTrim(t) \/ FioSync(t) \/ FioUnlockMu(t) \/ FioRelease(t)
      PROVE MutualExclusion'
  BY <1>3, MutexMove, HostIsNotFtl DEF FioStart, FioTrim, FioSync, FioUnlockMu, FioRelease, Locked
<1>4. ASSUME NEW t \in Fio, NEW op \in ShmOps, NEW size \in Sizes, FioSend(t, op, size)
      PROVE MutualExclusion'
  BY <1>4, MutexMove, HostIsNotFtl DEF FioSend, Locked
<1>5. ASSUME FtlGet \/ FtlNone \/ FtlTake \/ FtlAccept \/ FtlRefuse PROVE MutualExclusion'
  BY <1>5, MutexMove, HostIsNotFtl DEF FtlGet, shm_get, FtlNone, FtlTake, FtlAccept, FtlRefuse, Locked
<1>6. ASSUME FtlGetFree \/ SHM_add_free_list \/ FtlGetRdy \/ SHM_add_rdy_list
      PROVE MutualExclusion'
  BY <1>6, MutexMove, HostIsNotFtl
     DEF FtlGetFree, FtlGetRdy, shm_get, SHM_add_free_list, SHM_add_rdy_list, Locked
<1> QED BY <1>1, <1>2, <1>3, <1>4, <1>5, <1>6 DEF ShmNext, HostStep, FtlStep

-----------------------------------------------------------------------------
(* Slots move from one place to another.                                    *)

LEMMA PlacesAreFamily ==
  ASSUME ShmTypeOK, SlotsConserved
  PROVE /\ Family(1 .. 3, Slot, SlotPlaces)
        /\ SlotPlaces[1] = list[FREE_LIST] /\ SlotPlaces[2] = list[RDY_LIST] /\ SlotPlaces[3] = index
<1>1. list[FREE_LIST] \in Seq(Slot) /\ list[RDY_LIST] \in Seq(Slot) /\ index \in Seq(Slot)
  BY DEF ShmTypeOK, ListType, FREE_LIST, RDY_LIST
<1>2. SlotPlaces \in [1 .. 3 -> Seq(Slot)]
  BY <1>1 DEF SlotPlaces
<1> QED BY <1>2 DEF Family, SlotsConserved, SlotPlaces

\* The head slot h of place a has become the last of place b.
Shifted(a, b, h) ==
  /\ SlotsConserved'
  /\ h \in Slot /\ h \in Range(SlotPlaces[a])
  /\ \A u \in 1 .. 3 : u # a => h \notin Range(SlotPlaces[u])
  /\ Range(SlotPlaces'[a]) = Range(SlotPlaces[a]) \ {h}
  /\ Range(SlotPlaces'[b]) = Range(SlotPlaces[b]) \cup {h}
  /\ Len(SlotPlaces'[b]) = Len(SlotPlaces[b]) + 1

LEMMA SlotMoves ==
  ASSUME ShmTypeOK, SlotsConserved, NEW a \in 1 .. 3, NEW b \in 1 .. 3, a # b,
         SlotPlaces[a] # << >>,
         SlotPlaces' = Enqueue(Dequeue(SlotPlaces, a), b, Head(SlotPlaces[a]))
  PROVE Shifted(a, b, Head(SlotPlaces[a]))
<1> DEFINE h == Head(SlotPlaces[a])
           m == Dequeue(SlotPlaces, a)
           r == Enqueue(m, b, h)
<1>1. Family(1 .. 3, Slot, SlotPlaces)
  BY PlacesAreFamily
<1>2. Dequeued(1 .. 3, Slot, SlotPlaces, a, h, m)
  BY <1>1, DequeueProps
<1> HIDE DEF m, h
<1>3. Enqueued(1 .. 3, Slot, m, b, h, r)
  BY <1>2, EnqueueProps DEF Dequeued
<1> HIDE DEF r
<1>4. SlotPlaces' = r
  BY DEF r, m, h
<1>5. Members(r) = Slot
  BY <1>2, <1>3 DEF Dequeued, Enqueued, SlotsConserved
<1>6. /\ m[b] = SlotPlaces[b] /\ r[a] = m[a]
      /\ \A u \in 1 .. 3 : u # a => h \notin Range(SlotPlaces[u])
  BY <1>2, <1>3 DEF Dequeued, Enqueued
<1> QED BY <1>2, <1>3, <1>4, <1>5, <1>6 DEF Shifted, Dequeued, Enqueued, Family, SlotsConserved, h

\* Where the four operations on the lists move their slot.
LEMMA SendMoves ==
  ASSUME ShmTypeOK, SlotsConserved, list[FREE_LIST] # << >>, NEW op, NEW size, SendCmd(op, size),
         index' = index
  PROVE Shifted(1, 2, Head(list[FREE_LIST]))
<1>1. /\ list'[FREE_LIST] = Tail(list[FREE_LIST])
      /\ list'[RDY_LIST] = Append(list[RDY_LIST], Head(list[FREE_LIST]))
  BY DEF SendCmd, Enqueue, Dequeue, ShmTypeOK, ListType, FREE_LIST, RDY_LIST
<1>2. SlotPlaces' = Enqueue(Dequeue(SlotPlaces, 1), 2, Head(SlotPlaces[1]))
  BY <1>1 DEF SlotPlaces, Enqueue, Dequeue
<1>3. SlotPlaces[1] = list[FREE_LIST]
  BY DEF SlotPlaces
<1> QED BY <1>2, <1>3, SlotMoves

LEMMA TakeMoves ==
  ASSUME ShmTypeOK, SlotsConserved, FtlTake
  PROVE Shifted(2, 3, Head(list[RDY_LIST]))
<1>1. /\ list'[FREE_LIST] = list[FREE_LIST] /\ list'[RDY_LIST] = Tail(list[RDY_LIST])
      /\ index' = Append(index, Head(list[RDY_LIST]))
  <2>1. index = << >>
    BY EmptySeq DEF ShmTypeOK, FtlTake, Goto
  <2> QED BY <2>1 DEF FtlTake, Dequeue, ShmTypeOK, ListType, FREE_LIST, RDY_LIST
<1>2. SlotPlaces' = Enqueue(Dequeue(SlotPlaces, 2), 3, Head(SlotPlaces[2]))
  BY <1>1 DEF SlotPlaces, Enqueue, Dequeue
<1>3. SlotPlaces[2] = list[RDY_LIST] /\ list[RDY_LIST] # << >>
  BY DEF SlotPlaces, FtlTake
<1> QED BY <1>2, <1>3, SlotMoves

LEMMA PutMoves ==
  ASSUME ShmTypeOK, SlotsConserved, NEW l \in ListType, Len(index) = 1,
         list' = Enqueue(list, l, Head(index)), index' = << >>
  PROVE Shifted(3, l, Head(index)) /\ \A k \in ListType : k # l => list'[k] = list[k]
<1>0. index \in Seq(Slot) /\ index # << >>
  <2>1. index \in Seq(Slot)
    BY DEF ShmTypeOK
  <2>2. Len(<< >>) # 1
    BY EmptySeq
  <2> QED BY <2>1, <2>2, Zenon
<1>1. index' = Tail(index)
  <2>1. Tail(index) \in Seq(Slot) /\ Len(Tail(index)) = 0
    BY <1>0, HeadTailProperties
  <2> QED BY <2>1, EmptySeq
<1>2. list'[l] = Append(list[l], Head(index)) /\ \A k \in ListType : k # l => list'[k] = list[k]
  BY DEF Enqueue, ShmTypeOK
<1>3. SlotPlaces[3] = index
  BY DEF SlotPlaces
<1>4. CASE l = FREE_LIST
  <2>1. SlotPlaces' = Enqueue(Dequeue(SlotPlaces, 3), 1, Head(SlotPlaces[3]))
    <3>1. list'[FREE_LIST] = Append(list[FREE_LIST], Head(index)) /\ list'[RDY_LIST] = list[RDY_LIST]
      BY <1>2, <1>4 DEF ListType, FREE_LIST, RDY_LIST
    <3>2. Enqueue(Dequeue(SlotPlaces, 3), 1, Head(SlotPlaces[3]))
            = <<Append(list[FREE_LIST], Head(index)), list[RDY_LIST], Tail(index)>>
      BY DEF SlotPlaces, Enqueue, Dequeue
    <3> QED BY <1>1, <3>1, <3>2 DEF SlotPlaces
  <2>2. Shifted(3, 1, Head(SlotPlaces[3]))
    BY <1>0, <1>3, <2>1, SlotMoves
  <2> QED BY <1>2, <1>3, <1>4, <2>2 DEF FREE_LIST
<1>5. CASE l = RDY_LIST
  <2>1. SlotPlaces' = Enqueue(Dequeue(SlotPlaces, 3), 2, Head(SlotPlaces[3]))
    <3>1. list'[RDY_LIST] = Append(list[RDY_LIST], Head(index)) /\ list'[FREE_LIST] = list[FREE_LIST]
      BY <1>2, <1>5 DEF ListType, FREE_LIST, RDY_LIST
    <3>2. Enqueue(Dequeue(SlotPlaces, 3), 2, Head(SlotPlaces[3]))
            = <<list[FREE_LIST], Append(list[RDY_LIST], Head(index)), Tail(index)>>
      BY DEF SlotPlaces, Enqueue, Dequeue
    <3> QED BY <1>1, <3>1, <3>2 DEF SlotPlaces
  <2>2. Shifted(3, 2, Head(SlotPlaces[3]))
    BY <1>0, <1>3, <2>1, SlotMoves
  <2> QED BY <1>2, <1>3, <1>5, <2>2 DEF RDY_LIST
<1> QED BY <1>4, <1>5 DEF ListType

-----------------------------------------------------------------------------
(* Steps that move a process and touch neither lists nor commands.          *)

AtHand == {"got", "back", "add_rdy"}
Places == {"idle", "get", "check", "send", "unlock", "release",
           "poll", "got", "free", "back", "add_free", "add_rdy"}

Rest == SlotsConserved /\ SlotAvailable /\ CopyIsCurrent /\ ExactlyOnce

Quiet(p, from, to) ==
  /\ Goto(p, from, to) /\ to \in Places
  /\ UNCHANGED <<list, cmd, index, scmd, sent, accepted>>
  /\ CTRL_BYTE' \in {0, 1} /\ mu' \in Fio \cup {"none"} /\ c' \in [Host -> Nat]
  /\ p = "ftl" => (from \in Holding <=> to \in Holding) /\ (from \in AtHand <=> to \in AtHand)
  /\ p \in Host /\ to = "send" => list[FREE_LIST] # << >>

LEMMA QuietStep ==
  ASSUME ShmInv, NEW p \in Process, NEW from, NEW to, Quiet(p, from, to)
  PROVE ShmTypeOK' /\ Rest'
<1> USE DEF ShmInv
<1>1. /\ shm_pc[p] = from /\ shm_pc'[p] = to
      /\ \A q \in Process : q # p => shm_pc'[q] = shm_pc[q]
      /\ shm_pc' \in [Process -> Places]
  BY DEF Quiet, Goto, ShmTypeOK, Places
<1>2. /\ shm_pc'["ftl"] \in Holding <=> shm_pc["ftl"] \in Holding
      /\ shm_pc'["ftl"] \in AtHand <=> shm_pc["ftl"] \in AtHand
  BY <1>1, HostIsNotFtl DEF Quiet
<1>3. ShmTypeOK'
  BY <1>1, <1>2 DEF Quiet, ShmTypeOK, Holding, Places
<1>4. SlotsConserved'
  BY DEF Quiet, SlotsConserved, SlotPlaces
<1>5. SlotAvailable'
  BY <1>1, HostIsNotFtl DEF Quiet, SlotAvailable
<1>6. CopyIsCurrent'
  BY <1>2 DEF Quiet, CopyIsCurrent, AtHand
<1>7. ExactlyOnce'
  <2>1. Waiting' = Waiting /\ InHand' = InHand
    BY <1>2 DEF Quiet, Waiting, InHand, AtHand
  <2> QED BY <2>1 DEF Quiet, ExactlyOnce
<1> QED BY <1>3, <1>4, <1>5, <1>6, <1>7 DEF Rest

LEMMA QuietHost ==
  ASSUME ShmInv, NEW p \in Host,
         \/ HostGet(p) \/ HostRetry(p) \/ HostProceed(p) \/ (p = "fe" /\ FeStart)
         \/ p \in Fio /\ (FioStart(p) \/ FioTrim(p) \/ FioSync(p) \/ FioUnlockMu(p) \/ FioRelease(p))
  PROVE ShmTypeOK' /\ Rest'
<1>0. /\ p \in Process /\ p # "ftl"
      /\ CTRL_BYTE \in {0, 1} /\ mu \in Fio \cup {"none"} /\ c \in [Host -> Nat]
  BY HostIsNotFtl DEF ShmInv, ShmTypeOK
<1>1. CASE HostGet(p)
  <2>1. Quiet(p, "get", "check")
    BY <1>0, <1>1 DEF Quiet, HostGet, shm_get, Places
  <2> QED BY <1>0, <2>1, QuietStep
<1>2. CASE HostRetry(p)
  <2>1. Quiet(p, "check", "get")
    BY <1>0, <1>2 DEF Quiet, HostRetry, Places
  <2> QED BY <1>0, <2>1, QuietStep
<1>3. CASE HostProceed(p)
  <2>1. Quiet(p, "check", "send")
    BY <1>0, <1>3 DEF Quiet, HostProceed, Places
  <2> QED BY <1>0, <2>1, QuietStep
<1>4. CASE p = "fe" /\ FeStart
  <2>1. Quiet(p, "idle", "get")
    BY <1>0, <1>4 DEF Quiet, FeStart, Places
  <2> QED BY <1>0, <2>1, QuietStep
<1>5. CASE p \in Fio /\ FioStart(p)
  <2>1. Quiet(p, "idle", "get")
    BY <1>0, <1>5 DEF Quiet, FioStart, Places
  <2> QED BY <1>0, <2>1, QuietStep
<1>6. CASE FioTrim(p)
  <2>1. Quiet(p, "send", "idle")
    BY <1>0, <1>6 DEF Quiet, FioTrim, Places
  <2> QED BY <1>0, <2>1, QuietStep
<1>7. CASE FioSync(p)
  <2>1. Quiet(p, "send", "unlock")
    BY <1>0, <1>7 DEF Quiet, FioSync, Places
  <2> QED BY <1>0, <2>1, QuietStep
<1>8. CASE FioUnlockMu(p)
  <2>1. Quiet(p, "unlock", "release")
    BY <1>0, <1>8 DEF Quiet, FioUnlockMu, Places
  <2> QED BY <1>0, <2>1, QuietStep
<1>9. CASE FioRelease(p)
  <2>1. Quiet(p, "release", "idle")
    BY <1>0, <1>9 DEF Quiet, FioRelease, Places
  <2> QED BY <1>0, <2>1, QuietStep
<1> QED BY <1>1, <1>2, <1>3, <1>4, <1>5, <1>6, <1>7, <1>8, <1>9

LEMMA QuietFtl ==
  ASSUME ShmInv, FtlGet \/ FtlNone \/ FtlRefuse \/ FtlGetFree \/ FtlGetRdy
  PROVE ShmTypeOK' /\ Rest'
<1>0. /\ "ftl" \in Process /\ "ftl" \notin Host
      /\ CTRL_BYTE \in {0, 1} /\ mu \in Fio \cup {"none"} /\ c \in [Host -> Nat]
  BY HostIsNotFtl DEF ShmInv, ShmTypeOK
<1>1. CASE FtlGet
  <2>1. Quiet("ftl", "idle", "poll")
    BY <1>0, <1>1 DEF Quiet, FtlGet, shm_get, Places, Holding, AtHand
  <2> QED BY <1>0, <2>1, QuietStep
<1>2. CASE FtlNone
  <2>1. Quiet("ftl", "poll", "idle")
    BY <1>0, <1>2 DEF Quiet, FtlNone, Places, Holding, AtHand
  <2> QED BY <1>0, <2>1, QuietStep
<1>3. CASE FtlRefuse
  <2>1. Quiet("ftl", "got", "back")
    BY <1>0, <1>3 DEF Quiet, FtlRefuse, Places, Holding, AtHand
  <2> QED BY <1>0, <2>1, QuietStep
<1>4. CASE FtlGetFree
  <2>1. Quiet("ftl", "free", "add_free")
    BY <1>0, <1>4 DEF Quiet, FtlGetFree, shm_get, Places, Holding, AtHand
  <2> QED BY <1>0, <2>1, QuietStep
<1>5. CASE FtlGetRdy
  <2>1. Quiet("ftl", "back", "add_rdy")
    BY <1>0, <1>5 DEF Quiet, FtlGetRdy, shm_get, Places, Holding, AtHand
  <2> QED BY <1>0, <2>1, QuietStep
<1> QED BY <1>1, <1>2, <1>3, <1>4, <1>5

-----------------------------------------------------------------------------
(* Steps that move a command.                                               *)

\* The types of the three places.
LEMMA ReadyIsTyped ==
  ASSUME ShmTypeOK
  PROVE /\ list[FREE_LIST] \in Seq(Slot) /\ list[RDY_LIST] \in Seq(Slot) /\ index \in Seq(Slot)
        /\ Range(list[RDY_LIST]) \subseteq Slot
        /\ SlotPlaces[1] = list[FREE_LIST] /\ SlotPlaces[2] = list[RDY_LIST] /\ SlotPlaces[3] = index
<1>1. list[FREE_LIST] \in Seq(Slot) /\ list[RDY_LIST] \in Seq(Slot) /\ index \in Seq(Slot)
  BY DEF ShmTypeOK, ListType, FREE_LIST, RDY_LIST
<1> QED BY <1>1, RangeIsIndexed DEF SlotPlaces

LEMMA SendStep ==
  ASSUME ShmInv, NEW p \in Host, NEW to \in {"idle", "unlock"}, Goto(p, "send", to),
         NEW op \in ShmOps, NEW size \in Nat, SendCmd(op, size),
         CTRL_BYTE' \in {0, 1}, UNCHANGED <<mu, c, index, scmd, accepted>>
  PROVE ShmTypeOK' /\ Rest'
<1> DEFINE s == Head(list[FREE_LIST])
<1>0. ShmTypeOK /\ SlotsConserved /\ ExactlyOnce /\ MutualExclusion
  BY DEF ShmInv
<1>1. /\ shm_pc[p] = "send" /\ shm_pc'[p] = to /\ shm_pc'["ftl"] = shm_pc["ftl"]
      /\ \A q \in Process : q # p => shm_pc'[q] = shm_pc[q]
      /\ shm_pc' \in [Process -> Places] /\ p \in Process
  BY <1>0, HostIsNotFtl DEF Goto, ShmTypeOK, Places
<1>2. list[FREE_LIST] # << >>
  BY <1>1 DEF ShmInv, SlotAvailable
<1>3. Shifted(1, 2, s)
  BY <1>0, <1>2, SendMoves
<1>4. /\ s \in Slot /\ s \notin Range(list[RDY_LIST]) /\ s \notin Range(index)
      /\ SlotsConserved'
      /\ Range(SlotPlaces'[2]) = Range(list[RDY_LIST]) \cup {s}
  BY <1>0, <1>3, ReadyIsTyped DEF Shifted
<1> HIDE DEF s
<1>5. /\ cmd'[s].nr = sent + 1 /\ sent' = sent + 1 /\ cmd' \in [Slot -> ShmCmd]
      /\ \A t \in Slot : t # s => cmd'[t] = cmd[t]
  BY <1>0, <1>4 DEF SendCmd, ShmTypeOK, ShmCmd, s
<1>6. ShmTypeOK'
  <2>1. list' \in [ListType -> Seq(Slot)]
    <3>1. list' = [[list EXCEPT ![FREE_LIST] = Tail(@)] EXCEPT ![RDY_LIST] = Append(@, s)]
      BY DEF SendCmd, Enqueue, Dequeue, s
    <3>2. Tail(list[FREE_LIST]) \in Seq(Slot) /\ Append(list[RDY_LIST], s) \in Seq(Slot)
      BY <1>0, <1>2, <1>4, ReadyIsTyped, HeadTailProperties
    <3>3. FREE_LIST \in ListType /\ RDY_LIST \in ListType /\ FREE_LIST # RDY_LIST
      BY DEF ListType, FREE_LIST, RDY_LIST
    <3>4. list \in [ListType -> Seq(Slot)]
      BY <1>0 DEF ShmTypeOK
    <3> QED BY <3>1, <3>2, <3>3, <3>4
  <2> QED BY <1>0, <1>1, <1>5, <2>1 DEF ShmTypeOK, Places
<1>7. SlotAvailable'
  <2>1. \A q \in Host : shm_pc'[q] # "send"
    BY <1>0, <1>1, HostIsNotFtl DEF MutualExclusion, Locked
  <2> QED BY <2>1 DEF SlotAvailable
<1>8. CopyIsCurrent'
  <2> SUFFICES ASSUME shm_pc["ftl"] \in AtHand PROVE scmd = cmd'[Head(index)]
    BY <1>1 DEF CopyIsCurrent, AtHand
  <2>1. Head(index) \in Range(index) /\ Head(index) \in Slot
    <3>1. Len(index) = 1 /\ index \in Seq(Slot)
      BY <1>0 DEF ShmTypeOK, AtHand
    <3>2. Head(index) = index[1] /\ 1 \in 1 .. Len(index)
      BY <3>1
    <3> QED BY <3>1, <3>2, RangeIsIndexed
  <2> QED BY <1>4, <1>5, <2>1 DEF ShmInv, CopyIsCurrent, AtHand
<1>9. ExactlyOnce'
  <2>1. SlotPlaces'[2] = list'[RDY_LIST]
    BY DEF SlotPlaces
  <2>2. /\ Range(list'[RDY_LIST]) = Range(list[RDY_LIST]) \cup {s}
        /\ Range(list[RDY_LIST]) \subseteq Slot
    BY <1>0, <1>4, <2>1, ReadyIsTyped
  <2>3. Waiting' = Waiting \cup {sent + 1}
    BY <1>4, <1>5, <2>2 DEF Waiting
  <2>4. InHand' = InHand
    BY <1>1 DEF InHand
  <2>5. sent \in Nat /\ 1 .. sent + 1 = (1 .. sent) \cup {sent + 1} /\ sent + 1 \notin 1 .. sent
    BY <1>0 DEF ShmTypeOK
  <2>6. \A t \in Range(list[RDY_LIST]) : cmd[t].nr # sent + 1
    BY <1>0, <2>5 DEF ExactlyOnce, Waiting
  <2>7. \A t, u \in Range(list'[RDY_LIST]) : cmd'[t].nr = cmd'[u].nr => t = u
    BY <1>0, <1>4, <1>5, <2>2, <2>6 DEF ExactlyOnce
  <2>8. sent + 1 \notin InHand /\ sent + 1 \notin accepted
    BY <1>0, <2>5 DEF ExactlyOnce
  <2> QED BY <1>0, <1>5, <2>3, <2>4, <2>5, <2>7, <2>8 DEF ExactlyOnce
<1> QED BY <1>4, <1>6, <1>7, <1>8, <1>9 DEF Rest

LEMMA TakeStep ==
  ASSUME ShmInv, FtlTake
  PROVE ShmTypeOK' /\ Rest'
<1> DEFINE s == Head(list[RDY_LIST])
<1>0. ShmTypeOK /\ SlotsConserved /\ ExactlyOnce
  BY DEF ShmInv
<1>1. /\ shm_pc["ftl"] = "poll" /\ shm_pc'["ftl"] = "got"
      /\ \A q \in Process : q # "ftl" => shm_pc'[q] = shm_pc[q]
      /\ shm_pc' \in [Process -> Places]
  BY <1>0, HostIsNotFtl DEF FtlTake, Goto, ShmTypeOK, Places
<1>3. Shifted(2, 3, s)
  BY <1>0, TakeMoves
<1>4. /\ s \in Slot /\ s \in Range(list[RDY_LIST]) /\ SlotsConserved'
      /\ Range(SlotPlaces'[2]) = Range(list[RDY_LIST]) \ {s}
  BY <1>0, <1>3, ReadyIsTyped DEF Shifted
<1>5. index' = <<s>> /\ scmd' = cmd[s] /\ UNCHANGED <<cmd, mu, c, sent, accepted>>
  BY DEF FtlTake
<1>6. list'[FREE_LIST] = list[FREE_LIST] /\ list' \in [ListType -> Seq(Slot)]
  <2>1. list[RDY_LIST] # << >> /\ list' = [list EXCEPT ![RDY_LIST] = Tail(@)]
    BY DEF FtlTake, Dequeue
  <2>2. Tail(list[RDY_LIST]) \in Seq(Slot)
    BY <1>0, <2>1, ReadyIsTyped, HeadTailProperties
  <2>3. FREE_LIST \in ListType /\ RDY_LIST \in ListType /\ FREE_LIST # RDY_LIST
    BY DEF ListType, FREE_LIST, RDY_LIST
  <2>4. list \in [ListType -> Seq(Slot)]
    BY <1>0 DEF ShmTypeOK
  <2> QED BY <2>1, <2>2, <2>3, <2>4
<1> HIDE DEF s
<1>7. ShmTypeOK'
  <2>1. index' \in Seq(Slot) /\ Len(index') = 1 /\ scmd' \in ShmCmd /\ CTRL_BYTE' \in {0, 1}
    BY <1>0, <1>4, <1>5 DEF ShmTypeOK, FtlTake
  <2> QED BY <1>0, <1>1, <1>5, <1>6, <2>1 DEF ShmTypeOK, Places
<1>8. SlotAvailable'
  BY <1>1, <1>6, HostIsNotFtl DEF ShmInv, SlotAvailable
<1>9. CopyIsCurrent'
  <2>1. Head(index') = s
    BY <1>4, <1>5
  <2> QED BY <1>5, <2>1 DEF CopyIsCurrent
<1>10. ExactlyOnce'
  <2>1. SlotPlaces'[2] = list'[RDY_LIST]
    BY DEF SlotPlaces
  <2>2. Range(list'[RDY_LIST]) = Range(list[RDY_LIST]) \ {s}
    BY <1>4, <2>1
  <2>3. Waiting' = Waiting \ {cmd[s].nr} /\ cmd[s].nr \in Waiting
    BY <1>0, <1>4, <1>5, <2>2 DEF Waiting, ExactlyOnce
  <2>4. InHand = {} /\ InHand' = {cmd[s].nr}
    BY <1>1, <1>5 DEF InHand
  <2>5. \A t, u \in Range(list'[RDY_LIST]) : cmd'[t].nr = cmd'[u].nr => t = u
    BY <1>0, <1>5, <2>2 DEF ExactlyOnce
  <2> QED BY <1>0, <1>5, <2>3, <2>4, <2>5 DEF ExactlyOnce
<1> QED BY <1>4, <1>7, <1>8, <1>9, <1>10 DEF Rest

LEMMA AcceptStep ==
  ASSUME ShmInv, FtlAccept
  PROVE ShmTypeOK' /\ Rest'
<1>0. ShmTypeOK /\ SlotsConserved /\ ExactlyOnce
  BY DEF ShmInv
<1>1. /\ shm_pc["ftl"] = "got" /\ shm_pc'["ftl"] = "free"
      /\ \A q \in Process : q # "ftl" => shm_pc'[q] = shm_pc[q]
      /\ shm_pc' \in [Process -> Places]
  BY <1>0, HostIsNotFtl DEF FtlAccept, Goto, ShmTypeOK, Places
<1>2. UNCHANGED <<list, cmd, CTRL_BYTE, mu, c, index, scmd, sent>> /\ accepted' = accepted \cup {scmd.nr}
  BY DEF FtlAccept
<1>3. ShmTypeOK'
  <2>1. scmd.nr \in Nat
    BY <1>0 DEF ShmTypeOK, ShmCmd
  <2> QED BY <1>0, <1>1, <1>2, <2>1 DEF ShmTypeOK, Places
<1>4. SlotsConserved'
  BY <1>0, <1>2 DEF SlotsConserved, SlotPlaces
<1>5. SlotAvailable'
  BY <1>1, <1>2, HostIsNotFtl DEF ShmInv, SlotAvailable
<1>6. CopyIsCurrent'
  BY <1>1 DEF CopyIsCurrent
<1>7. ExactlyOnce'
  <2>1. Waiting' = Waiting /\ InHand = {scmd.nr} /\ InHand' = {}
    BY <1>1, <1>2 DEF Waiting, InHand
  <2> QED BY <1>0, <1>2, <2>1 DEF ExactlyOnce
<1> QED BY <1>3, <1>4, <1>5, <1>6, <1>7 DEF Rest

\* The FTL gives its slot back to list l; the slot's contents are what they were.
LEMMA PutStep ==
  ASSUME ShmInv, NEW from \in {"add_free", "add_rdy"}, Goto("ftl", from, "idle"),
         NEW l \in ListType, list' = Enqueue(list, l, Head(index)), index' = << >>,
         CTRL_BYTE' = 0, cmd' = cmd, UNCHANGED <<mu, c, scmd, sent, accepted>>
  PROVE /\ ShmTypeOK' /\ SlotsConserved' /\ SlotAvailable' /\ CopyIsCurrent' /\ InHand' = {}
        /\ shm_pc["ftl"] = from /\ Head(index) \in Slot /\ Head(index) \notin Range(list[RDY_LIST])
        /\ Range(list'[RDY_LIST]) = Range(list[RDY_LIST])
                                      \cup (IF l = RDY_LIST THEN {Head(index)} ELSE {})
<1>0. ShmTypeOK /\ SlotsConserved /\ MutualExclusion
  BY DEF ShmInv
<1>1. /\ shm_pc["ftl"] = from /\ shm_pc'["ftl"] = "idle"
      /\ \A q \in Process : q # "ftl" => shm_pc'[q] = shm_pc[q]
      /\ shm_pc' \in [Process -> Places]
  BY <1>0, HostIsNotFtl DEF Goto, ShmTypeOK, Places
<1>2. Len(index) = 1
  BY <1>0, <1>1 DEF ShmTypeOK
<1>3. Shifted(3, l, Head(index)) /\ \A k \in ListType : k # l => list'[k] = list[k]
  BY <1>0, <1>2, PutMoves
<1>4. /\ Head(index) \in Slot /\ Head(index) \notin Range(list[RDY_LIST]) /\ SlotsConserved'
      /\ Range(SlotPlaces'[l]) = Range(SlotPlaces[l]) \cup {Head(index)}
  BY <1>0, <1>3, ReadyIsTyped DEF Shifted
<1>5. list' \in [ListType -> Seq(Slot)]
  <2>1. list \in [ListType -> Seq(Slot)]
    BY <1>0 DEF ShmTypeOK
  <2>2. Append(list[l], Head(index)) \in Seq(Slot)
    BY <1>4, <2>1
  <2> QED BY <2>1, <2>2 DEF Enqueue
<1>6. ShmTypeOK'
  <2>1. index' \in Seq(Slot) /\ Len(index') = 0
    BY EmptySeq
  <2>2. cmd' \in [Slot -> ShmCmd] /\ mu' \in Fio \cup {"none"} /\ c' \in [Host -> Nat]
        /\ scmd' \in ShmCmd /\ sent' \in Nat /\ accepted' \subseteq Nat
    BY <1>0 DEF ShmTypeOK
  <2>3. shm_pc'["ftl"] \notin {"got", "free", "back", "add_free", "add_rdy"}
    BY <1>1
  <2> QED BY <1>1, <1>5, <2>1, <2>2, <2>3 DEF ShmTypeOK, Places
<1>7. SlotAvailable'
  <2>1. \A q \in Host : shm_pc'[q] # "send"
    BY <1>0, <1>1, HostIsNotFtl DEF MutualExclusion, Locked
  <2> QED BY <2>1 DEF SlotAvailable
<1>8. CopyIsCurrent' /\ InHand' = {}
  BY <1>1 DEF CopyIsCurrent, InHand
<1>9. Range(list'[RDY_LIST]) = Range(list[RDY_LIST])
                                 \cup (IF l = RDY_LIST THEN {Head(index)} ELSE {})
  <2>1. CASE l = RDY_LIST
    <3>1. SlotPlaces'[2] = list'[RDY_LIST] /\ SlotPlaces[2] = list[RDY_LIST]
      BY DEF SlotPlaces
    <3>2. l = 2
      BY <2>1 DEF RDY_LIST
    <3> QED BY <1>4, <2>1, <3>1, <3>2
  <2>2. CASE l # RDY_LIST
    <3>1. list'[RDY_LIST] = list[RDY_LIST]
      BY <1>3, <2>2 DEF ListType
    <3> QED BY <2>2, <3>1
  <2> QED BY <2>1, <2>2
<1> QED BY <1>1, <1>4, <1>6, <1>7, <1>8, <1>9

LEMMA AddFreeStep ==
  ASSUME ShmInv, SHM_add_free_list
  PROVE ShmTypeOK' /\ Rest'
<1>1. FREE_LIST \in ListType /\ FREE_LIST # RDY_LIST
  BY DEF ListType, FREE_LIST, RDY_LIST
<1>2. /\ ShmTypeOK' /\ SlotsConserved' /\ SlotAvailable' /\ CopyIsCurrent' /\ InHand' = {}
      /\ shm_pc["ftl"] = "add_free" /\ Range(list'[RDY_LIST]) = Range(list[RDY_LIST])
  BY <1>1, PutStep DEF SHM_add_free_list
<1>3. ExactlyOnce'
  <2>1. Waiting' = Waiting /\ InHand' = InHand
    BY <1>2 DEF SHM_add_free_list, Waiting, InHand
  <2> QED BY <1>2, <2>1 DEF SHM_add_free_list, ShmInv, ExactlyOnce
<1> QED BY <1>2, <1>3 DEF Rest

\* What is written back is what the slot already holds.
LEMMA AddRdyStep ==
  ASSUME ShmInv, SHM_add_rdy_list
  PROVE ShmTypeOK' /\ Rest'
<1> DEFINE s == Head(index)
<1>1. RDY_LIST \in ListType
  BY DEF ListType
<1>2. scmd = cmd[s] /\ cmd \in [Slot -> ShmCmd]
  BY DEF ShmInv, CopyIsCurrent, ShmTypeOK, SHM_add_rdy_list, Goto
<1>3. cmd' = cmd
  BY <1>2 DEF SHM_add_rdy_list
<1>4. /\ ShmTypeOK' /\ SlotsConserved' /\ SlotAvailable' /\ CopyIsCurrent' /\ InHand' = {}
      /\ shm_pc["ftl"] = "add_rdy" /\ s \notin Range(list[RDY_LIST])
      /\ Range(list'[RDY_LIST]) = Range(list[RDY_LIST]) \cup {s}
  BY <1>1, <1>3, PutStep DEF SHM_add_rdy_list
<1> HIDE DEF s
<1>5. ExactlyOnce'
  <2>1. InHand = {cmd[s].nr} /\ Waiting' = Waiting \cup {cmd[s].nr}
    BY <1>2, <1>3, <1>4 DEF Waiting, InHand
  <2>2. \A t \in Range(list[RDY_LIST]) : cmd[t].nr # cmd[s].nr
    BY <2>1 DEF ShmInv, ExactlyOnce, Waiting
  <2>3. \A t, u \in Range(list'[RDY_LIST]) : cmd'[t].nr = cmd'[u].nr => t = u
    BY <1>3, <1>4, <2>2 DEF ShmInv, ExactlyOnce
  <2>4. sent' = sent /\ accepted' = accepted
    BY DEF SHM_add_rdy_list
  <2> QED BY <1>4, <2>1, <2>3, <2>4 DEF ShmInv, ExactlyOnce
<1> QED BY <1>4, <1>5 DEF Rest

-----------------------------------------------------------------------------
LEMMA ShmInitIsGood ==
  ASSUME ShmInit
  PROVE ShmInv
<1> DEFINE q == [k \in 1 .. CMD_SLOT_NUM |-> k - 1]
<1>0. CMD_SLOT_NUM \in Nat \ {0}
  BY ShmAssumption
<1>1. /\ q \in Seq(Slot) /\ Len(q) = CMD_SLOT_NUM
      /\ \A k \in 1 .. CMD_SLOT_NUM : q[k] = k - 1
  <2>1. q \in [1 .. CMD_SLOT_NUM -> Slot]
    BY <1>0 DEF Slot
  <2> QED BY <1>0, <2>1, SeqDef, LenProperties
<1> HIDE DEF q
<1>2. list[FREE_LIST] = q /\ list[RDY_LIST] = << >> /\ list \in [ListType -> Seq(Slot)]
  BY <1>1, EmptySeq DEF ShmInit, ListType, FREE_LIST, RDY_LIST, q
<1>3. NoCmd \in ShmCmd
  BY DEF NoCmd, ShmCmd
<1>4. \A p \in Process : shm_pc[p] = "idle"
  BY DEF ShmInit
<1>5. ShmTypeOK
  BY <1>2, <1>3, <1>4, EmptySeq, HostIsNotFtl DEF ShmInit, ShmTypeOK
<1>6. MutualExclusion /\ SlotAvailable /\ CopyIsCurrent
  BY <1>4, HostIsNotFtl DEF MutualExclusion, SlotAvailable, CopyIsCurrent, Locked
<1>7. SlotsConserved
  <2>1. SlotPlaces = <<q, << >>, << >>>> /\ DOMAIN SlotPlaces = 1 .. 3
    BY <1>2 DEF SlotPlaces, ShmInit
  <2>2. SlotPlaces[1] = q /\ SlotPlaces[2] = << >> /\ SlotPlaces[3] = << >>
    BY <2>1
  <2>3. NoRepeat(SlotPlaces)
    <3>1. \A s \in 1 .. 3 : s # 1 => Len(SlotPlaces[s]) = 0
      BY <2>2, EmptySeq
    <3>2. \A k, l \in 1 .. Len(q) : q[k] = q[l] => k = l
      BY <1>0, <1>1
    <3>3. \A s \in 1 .. 3 : s # 1 => 1 .. Len(SlotPlaces[s]) = {}
      BY <3>1
    <3>4. SUFFICES ASSUME NEW s \in 1 .. 3, NEW t \in 1 .. 3, NEW k \in 1 .. Len(SlotPlaces[s]),
                          NEW l \in 1 .. Len(SlotPlaces[t]), SlotPlaces[s][k] = SlotPlaces[t][l]
                   PROVE s = t /\ k = l
      BY <2>1 DEF NoRepeat
    <3>5. s = 1 /\ t = 1
      BY <3>3
    <3> QED BY <2>2, <3>2, <3>4, <3>5
  <2>4. Range(q) = Slot
    <3>1. \A e : e \in Range(q) <=> \E k \in 1 .. Len(q) : q[k] = e
      BY <1>1, RangeIsIndexed
    <3>2. \A e \in Slot : e + 1 \in 1 .. CMD_SLOT_NUM /\ q[e + 1] = e
      BY <1>0, <1>1 DEF Slot
    <3>3. Slot \subseteq Range(q)
      BY <1>1, <3>1, <3>2, Zenon
    <3>4. Range(q) \subseteq Slot
      BY <1>1, RangeIsIndexed
    <3> QED BY <3>3, <3>4
  <2>5. Range(<< >>) = {}
    BY EmptySeq DEF Range
  <2>6. Members(SlotPlaces) = Slot
    BY <2>1, <2>2, <2>4, <2>5 DEF Members
  <2> QED BY <2>3, <2>6 DEF SlotsConserved
<1>8. ExactlyOnce
  <2>1. Range(list[RDY_LIST]) = {}
    BY <1>2, EmptySeq DEF Range
  <2>2. Waiting = {} /\ InHand = {} /\ 1 .. sent = {} /\ accepted = {}
    <3>1. sent = 0 /\ accepted = {} /\ shm_pc["ftl"] = "idle"
      BY <1>4, HostIsNotFtl DEF ShmInit
    <3>2. InHand = {} /\ 1 .. sent = {}
      BY <3>1 DEF InHand
    <3>3. Waiting = {}
      BY <2>1 DEF Waiting
    <3> QED BY <3>1, <3>2, <3>3
  <2> QED BY <2>1, <2>2 DEF ExactlyOnce
<1> QED BY <1>5, <1>6, <1>7, <1>8 DEF ShmInv

LEMMA ShmStep ==
  ASSUME ShmInv, [ShmNext]_shmVars
  PROVE ShmInv'
<1>1. CASE ShmNext
  <2>0. MutualExclusion'
    BY <1>1, MutexStep DEF ShmInv
  <2>1. ASSUME NEW p \in Host, HostGet(p) \/ HostRetry(p) \/ HostProceed(p)
        PROVE ShmTypeOK' /\ Rest'
    BY <2>1, QuietHost
  <2>2. ASSUME FeStart PROVE ShmTypeOK' /\ Rest'
    BY <2>2, QuietHost, HostIsNotFtl
  <2>3. ASSUME NEW t \in Fio,
               FioStart(t) \/ FioTrim(t) \/ FioSync(t) \/ FioUnlockMu(t) \/ FioRelease(t)
        PROVE ShmTypeOK' /\ Rest'
    BY <2>3, QuietHost, HostIsNotFtl
  <2>4. ASSUME FeSend PROVE ShmTypeOK' /\ Rest'
    <3>1. SHM_READ_OPS \in ShmOps /\ FE_SIZE \in Nat /\ "fe" \in Host
      BY HostIsNotFtl DEF ShmOps, FE_SIZE
    <3> QED BY <2>4, <3>1, SendStep DEF FeSend
  <2>5. ASSUME NEW t \in Fio, NEW op \in ShmOps, NEW size \in Sizes, FioSend(t, op, size)
        PROVE ShmTypeOK' /\ Rest'
    <3>1. size \in Nat /\ t \in Host /\ CTRL_BYTE \in {0, 1}
      BY HostIsNotFtl, ShmAssumption DEF ShmInv, ShmTypeOK
    <3> QED BY <2>5, <3>1, SendStep DEF FioSend
  <2> QED BY <1>1, <2>0, <2>1, <2>2, <2>3, <2>4, <2>5, QuietFtl, TakeStep, AcceptStep,
             AddFreeStep, AddRdyStep
          DEF ShmNext, HostStep, FtlStep, ShmInv, Rest
<1>2. CASE UNCHANGED shmVars
  <2>0. ShmTypeOK /\ MutualExclusion /\ SlotsConserved /\ SlotAvailable /\ CopyIsCurrent /\ ExactlyOnce
    BY DEF ShmInv
  <2>1. ShmTypeOK' /\ MutualExclusion'
    BY <1>2, <2>0 DEF shmVars, ShmTypeOK, MutualExclusion
  <2>2. SlotsConserved' /\ SlotAvailable'
    BY <1>2, <2>0 DEF shmVars, SlotsConserved, SlotPlaces, SlotAvailable
  <2>3. CopyIsCurrent' /\ ExactlyOnce'
    BY <1>2, <2>0, SMTT(30) DEF shmVars, CopyIsCurrent, ExactlyOnce, Waiting, InHand
  <2> QED BY <2>1, <2>2, <2>3 DEF ShmInv
<1> QED BY <1>1, <1>2

\* The shared-memory front end keeps its inductive invariant through every
\* interleaving of fe(), the fio threads and the FTL's polling.
THEOREM ShmInvariance == ShmSpec => []ShmInv
<1>1. ShmInit => ShmInv
  BY ShmInitIsGood
<1>2. ShmInv /\ [ShmNext]_shmVars => ShmInv'
  BY ShmStep
<1> QED BY <1>1, <1>2, PTL DEF ShmSpec

\* The state of the front end stays in its types.
THEOREM ShmTypeCorrect == ShmSpec => []ShmTypeOK
<1>1. ShmInv => ShmTypeOK
  BY DEF ShmInv
<1> QED BY <1>1, ShmInvariance, PTL

\* shm_get and shm_release give mutual exclusion across both programs, with any
\* number of fio threads, trims that never release the lock included.
THEOREM LockExcludes == ShmSpec => []MutualExclusion
<1>1. ShmInv => MutualExclusion
  BY DEF ShmInv
<1> QED BY <1>1, ShmInvariance, PTL

\* No slot is lost or in two lists, however many commands are put back.
THEOREM SlotsAreConserved == ShmSpec => []SlotsConserved
<1>1. ShmInv => SlotsConserved
  BY DEF ShmInv
<1> QED BY <1>1, ShmInvariance, PTL

\* The assertion of send_cmd_to_shm never fails: the slot seen is still free.
THEOREM SlotIsAvailable == ShmSpec => []SlotAvailable
<1>1. ShmInv => SlotAvailable
  BY DEF ShmInv
<1> QED BY <1>1, ShmInvariance, PTL

\* Every command sent is in exactly one of RDY_LIST, the FTL's hands and the
\* accepted commands.
THEOREM CommandsExactlyOnce == ShmSpec => []ExactlyOnce
<1>1. ShmInv => ExactlyOnce
  BY DEF ShmInv
<1> QED BY <1>1, ShmInvariance, PTL

\* The copy FTL_nvme_req_polling uses after the lock is released is never stale.
THEOREM CopiesAreCurrent == ShmSpec => []CopyIsCurrent
<1>1. ShmInv => CopyIsCurrent
  BY DEF ShmInv
<1> QED BY <1>1, ShmInvariance, PTL

-----------------------------------------------------------------------------
(* What a step may do to RDY_LIST.                                          *)

KeptInOrder ==
  LET q == list[RDY_LIST]
      r == list'[RDY_LIST]
  IN /\ \/ Len(r) >= Len(q) /\ SubSeq(r, 1, Len(q)) = q
        \/ q # << >> /\ r = Tail(q) /\ index' = <<Head(q)>>
     /\ \A s \in Range(q) : cmd'[s] = cmd[s]

LEMMA PrefixKept ==
  ASSUME NEW E, NEW q \in Seq(E), NEW e \in E
  PROVE /\ Len(q) >= Len(q) /\ SubSeq(q, 1, Len(q)) = q
        /\ Len(Append(q, e)) >= Len(q) /\ SubSeq(Append(q, e), 1, Len(q)) = q
OBVIOUS

LEMMA KeptByUnchanged ==
  ASSUME ShmInv, UNCHANGED cmd, list'[RDY_LIST] = list[RDY_LIST]
  PROVE KeptInOrder
<1>1. list[RDY_LIST] \in Seq(Slot) /\ 0 \in Slot
  BY ReadyIsTyped, ShmAssumption DEF ShmInv, Slot
<1> QED BY <1>1, PrefixKept DEF KeptInOrder

LEMMA KeptByAppend ==
  ASSUME ShmInv, NEW e \in Slot, list'[RDY_LIST] = Append(list[RDY_LIST], e),
         \A t \in Range(list[RDY_LIST]) : cmd'[t] = cmd[t]
  PROVE KeptInOrder
<1>1. list[RDY_LIST] \in Seq(Slot)
  BY ReadyIsTyped DEF ShmInv
<1>2. /\ Len(Append(list[RDY_LIST], e)) >= Len(list[RDY_LIST])
      /\ SubSeq(Append(list[RDY_LIST], e), 1, Len(list[RDY_LIST])) = list[RDY_LIST]
  BY <1>1, PrefixKept, Zenon
<1>3. /\ Len(list'[RDY_LIST]) >= Len(list[RDY_LIST])
      /\ SubSeq(list'[RDY_LIST], 1, Len(list[RDY_LIST])) = list[RDY_LIST]
  BY <1>2, Zenon
<1> QED BY <1>3, Zenon DEF KeptInOrder

LEMMA KeptBySend ==
  ASSUME ShmInv, NEW p \in Host, shm_pc[p] = "send", NEW op, NEW size, SendCmd(op, size),
         index' = index
  PROVE KeptInOrder
<1> DEFINE s == Head(list[FREE_LIST])
<1>0. ShmTypeOK /\ SlotsConserved /\ list[FREE_LIST] # << >>
  BY DEF ShmInv, SlotAvailable
<1>1. Shifted(1, 2, s)
  BY <1>0, SendMoves
<1>2. s \in Slot /\ s \notin Range(list[RDY_LIST]) /\ Range(list[RDY_LIST]) \subseteq Slot
  BY <1>0, <1>1, ReadyIsTyped DEF Shifted
<1>3. list'[RDY_LIST] = Append(list[RDY_LIST], s)
  BY <1>0 DEF SendCmd, Enqueue, Dequeue, ShmTypeOK, ListType, FREE_LIST, RDY_LIST
<1>4. \A t \in Range(list[RDY_LIST]) : cmd'[t] = cmd[t]
  BY <1>0, <1>2 DEF SendCmd, ShmTypeOK
<1> HIDE DEF s
<1> QED BY <1>2, <1>3, <1>4, KeptByAppend, Zenon

LEMMA KeptByTake ==
  ASSUME ShmInv, FtlTake
  PROVE KeptInOrder
<1>1. list'[RDY_LIST] = Tail(list[RDY_LIST])
  BY DEF FtlTake, Dequeue, ShmInv, ShmTypeOK, ListType, RDY_LIST
<1> QED BY <1>1 DEF KeptInOrder, FtlTake

LEMMA KeptByPut ==
  ASSUME ShmInv, SHM_add_free_list \/ SHM_add_rdy_list
  PROVE KeptInOrder
<1>0. ShmTypeOK /\ Len(index) = 1 /\ index \in Seq(Slot)
  BY DEF ShmInv, ShmTypeOK, SHM_add_free_list, SHM_add_rdy_list, Goto
<1>1. CASE SHM_add_free_list
  <2>1. list'[RDY_LIST] = list[RDY_LIST] /\ cmd' = cmd
    BY <1>0, <1>1 DEF SHM_add_free_list, Enqueue, ShmTypeOK, ListType, FREE_LIST, RDY_LIST
  <2> QED BY <2>1, KeptByUnchanged
<1>2. CASE SHM_add_rdy_list
  <2>1. list'[RDY_LIST] = Append(list[RDY_LIST], Head(index)) /\ Head(index) \in Slot
    <3>1. list'[RDY_LIST] = Append(list[RDY_LIST], Head(index))
      BY <1>0, <1>2 DEF SHM_add_rdy_list, Enqueue, ShmTypeOK, ListType, RDY_LIST
    <3>2. Head(index) = index[1] /\ index[1] \in Slot
      BY <1>0
    <3> QED BY <3>1, <3>2
  <2>2. cmd' = cmd
    BY <1>2 DEF SHM_add_rdy_list, ShmInv, CopyIsCurrent, ShmTypeOK, Goto
  <2> QED BY <2>1, <2>2, KeptByAppend, Zenon
<1> QED BY <1>1, <1>2

LEMMA KeptByStep ==
  ASSUME ShmInv, [ShmNext]_shmVars
  PROVE KeptInOrder
<1>1. ASSUME NEW p \in Host, HostGet(p) \/ HostRetry(p) \/ HostProceed(p) PROVE KeptInOrder
  BY <1>1, KeptByUnchanged DEF HostGet, shm_get, HostRetry, HostProceed
<1>2. ASSUME FeStart PROVE KeptInOrder
  BY <1>2, KeptByUnchanged DEF FeStart
<1>3. ASSUME FeSend PROVE KeptInOrder
  BY <1>3, KeptBySend, HostIsNotFtl DEF FeSend, Goto
<1>4. ASSUME NEW t \in Fio,
             FioStart(t) \/ FioTrim(t) \/ FioSync(t) \/ FioUnlockMu(t) \/ FioRelease(t)
      PROVE KeptInOrder
  BY <1>4, KeptByUnchanged DEF FioStart, FioTrim, FioSync, FioUnlockMu, FioRelease
<1>5. ASSUME NEW t \in Fio, NEW op \in ShmOps, NEW size \in Sizes, FioSend(t, op, size)
      PROVE KeptInOrder
  BY <1>5, KeptBySend, HostIsNotFtl DEF FioSend, Goto
<1>6. ASSUME FtlGet \/ FtlNone \/ FtlAccept \/ FtlRefuse \/ FtlGetFree \/ FtlGetRdy
      PROVE KeptInOrder
  BY <1>6, KeptByUnchanged DEF FtlGet, FtlGetFree, FtlGetRdy, shm_get, FtlNone, FtlAccept, FtlRefuse
<1>7. ASSUME UNCHANGED shmVars PROVE KeptInOrder
  BY <1>7, KeptByUnchanged DEF shmVars
<1> QED BY <1>1, <1>2, <1>3, <1>4, <1>5, <1>6, <1>7, KeptByTake, KeptByPut
        DEF ShmNext, HostStep, FtlStep

\* A waiting command keeps its contents and its turn in RDY_LIST.
THEOREM ReadyOrderIsKept == ShmSpec => ReadyKeptInOrder
<1>1. ShmInv /\ [ShmNext]_shmVars => [KeptInOrder]_shmVars
  BY KeptByStep
<1>2. ReadyKeptInOrder <=> [][KeptInOrder]_shmVars
  BY DEF ReadyKeptInOrder, KeptInOrder
<1> QED BY <1>1, <1>2, ShmInvariance, PTL DEF ShmSpec

-----------------------------------------------------------------------------
(* The front end: every step of the system is a step of Shm or leaves its   *)
(* variables alone.                                                         *)

LEMMA FrontEndStep ==
  ASSUME [Next]_vars
  PROVE [ShmNext]_shmVars
<1>1. ASSUME NEW p \in Host, HostMoves(p) \/ HostLock(p) \/ HostStart(p)
      PROVE ShmNext
  BY <1>1, HostIsNotFtl DEF HostMoves, HostCall, HostLock, HostStart, ShmNext, HostStep
<1>2. ASSUME PollLock \/ PutLock \/ PollBody
      PROVE ShmNext
  BY <1>2 DEF PollLock, PutLock, PollBody, PollEmpty, PollTake, PollAccept, PollRefuse, Put,
              ShmNext, FtlStep
<1>3. ASSUME FtlBody \/ SqLock \/ CqLock \/ BeBody \/ BeLock \/ BeLockDone \/ BeSpuriousWake
      PROVE ShmNext \/ UNCHANGED shmVars
  BY <1>2, <1>3 DEF FtlBody, SqLock, CqLock, BeBody, BeLock, BeLockDone, BeSpuriousWake
<1>4. CASE UNCHANGED vars
  BY <1>4 DEF vars
<1> QED BY <1>1, <1>2, <1>3, <1>4 DEF Next

\* The composed system keeps to the front end's specification: no step of the
\* pipeline or of the back end interferes with the shared memory.
THEOREM ImplementsFrontEnd == Spec => FrontEndSpec
<1>1. Init => ShmInit
  BY DEF Init
<1>2. [Next]_vars => [ShmNext]_shmVars
  BY FrontEndStep
<1> QED BY <1>1, <1>2, PTL DEF Spec, FrontEndSpec, ShmSpec

-----------------------------------------------------------------------------
(* The pipeline: what the FTL takes is a command some host has sent.        *)

\* A command as the hosts send it.
Sendable(s) == s.ops \in ShmOps /\ s.size \in Sizes \cup {FE_SIZE}

\* Every waiting slot holds such a command, and so does the FTL's copy.
SentInv ==
  /\ \A s \in Range(list[RDY_LIST]) : Sendable(cmd[s])
  /\ shm_pc["ftl"] \in {"got", "back", "add_rdy"} => Sendable(scmd)

\* A step of the host that sends a command: the slot it fills is the only one
\* that changes.
LEMMA SentBySend ==
  ASSUME ShmInv, SentInv, NEW p \in Host, shm_pc[p] = "send", shm_pc'["ftl"] = shm_pc["ftl"],
         NEW op \in ShmOps, NEW size \in Sizes \cup {FE_SIZE}, SendCmd(op, size),
         UNCHANGED <<index, scmd>>
  PROVE SentInv'
<1> DEFINE s == Head(list[FREE_LIST])
<1>0. ShmTypeOK /\ SlotsConserved
  BY DEF ShmInv
<1>1. list[FREE_LIST] # << >>
  BY DEF ShmInv, SlotAvailable
<1>2. Shifted(1, 2, s)
  BY <1>0, <1>1, SendMoves
<1>3. /\ s \in Slot
      /\ Range(SlotPlaces'[2]) = Range(list[RDY_LIST]) \cup {s}
      /\ Range(list[RDY_LIST]) \subseteq Slot
  BY <1>0, <1>2, ReadyIsTyped DEF Shifted
<1> HIDE DEF s
<1>4. Range(list'[RDY_LIST]) = Range(list[RDY_LIST]) \cup {s}
  BY <1>3 DEF SlotPlaces
<1>5. Sendable(cmd'[s]) /\ \A t \in Slot : t # s => cmd'[t] = cmd[t]
  BY <1>0, <1>3 DEF SendCmd, ShmTypeOK, Sendable, s
<1> QED BY <1>3, <1>4, <1>5 DEF SentInv

\* A step that leaves RDY_LIST and the slots alone and gives the FTL nothing.
LEMMA SentByOther ==
  ASSUME SentInv, UNCHANGED <<cmd, scmd>>, Range(list'[RDY_LIST]) \subseteq Range(list[RDY_LIST]),
         shm_pc'["ftl"] \in {"got", "back", "add_rdy"} => shm_pc["ftl"] \in {"got", "back", "add_rdy"}
  PROVE SentInv'
BY DEF SentInv

LEMMA SentByTake ==
  ASSUME ShmInv, SentInv, FtlTake
  PROVE SentInv'
<1> DEFINE s == Head(list[RDY_LIST])
<1>0. ShmTypeOK /\ SlotsConserved
  BY DEF ShmInv
<1>1. Shifted(2, 3, s)
  BY <1>0, TakeMoves
<1>2. /\ s \in Range(list[RDY_LIST])
      /\ Range(SlotPlaces'[2]) = Range(list[RDY_LIST]) \ {s}
  BY <1>0, <1>1, ReadyIsTyped DEF Shifted
<1>3. scmd' = cmd[s] /\ cmd' = cmd
  BY DEF FtlTake
<1> HIDE DEF s
<1>4. Range(list'[RDY_LIST]) = Range(list[RDY_LIST]) \ {s}
  BY <1>2 DEF SlotPlaces
<1> QED BY <1>2, <1>3, <1>4 DEF SentInv

\* The slot goes back with the copy of its own contents.
LEMMA SentByPut ==
  ASSUME ShmInv, SentInv, SHM_add_free_list \/ SHM_add_rdy_list
  PROVE SentInv'
<1>0. FREE_LIST \in ListType /\ RDY_LIST \in ListType /\ FREE_LIST # RDY_LIST
  BY DEF ListType, FREE_LIST, RDY_LIST
<1>1. CASE SHM_add_free_list
  <2>1. Range(list'[RDY_LIST]) = Range(list[RDY_LIST]) /\ shm_pc'["ftl"] = "idle"
    BY <1>0, <1>1, PutStep, HostIsNotFtl DEF SHM_add_free_list, Goto, ShmInv, ShmTypeOK
  <2> QED BY <1>1, <2>1, SentByOther DEF SHM_add_free_list
<1>2. CASE SHM_add_rdy_list
  <2> DEFINE s == Head(index)
  <2>1. shm_pc["ftl"] = "add_rdy" /\ shm_pc'["ftl"] = "idle"
    BY <1>2, HostIsNotFtl DEF SHM_add_rdy_list, Goto, ShmInv, ShmTypeOK
  <2>2. scmd = cmd[s] /\ cmd \in [Slot -> ShmCmd] /\ Sendable(scmd)
    BY <2>1 DEF ShmInv, CopyIsCurrent, ShmTypeOK, SentInv
  <2>3. cmd' = cmd
    BY <1>2, <2>2 DEF SHM_add_rdy_list
  <2>4. Range(list'[RDY_LIST]) = Range(list[RDY_LIST]) \cup {s}
    BY <1>0, <1>2, <2>3, PutStep DEF SHM_add_rdy_list
  <2> HIDE DEF s
  <2> QED BY <2>1, <2>2, <2>3, <2>4 DEF SentInv
<1> QED BY <1>1, <1>2

LEMMA SentStep ==
  ASSUME ShmInv, SentInv, [ShmNext]_shmVars
  PROVE SentInv'
<1>0. shm_pc \in [Process -> {"idle", "get", "check", "send", "unlock", "release",
                             "poll", "got", "free", "back", "add_free", "add_rdy"}]
  BY DEF ShmInv, ShmTypeOK
<1>1. ASSUME NEW p \in Host, HostGet(p) \/ HostRetry(p) \/ HostProceed(p)
      PROVE SentInv'
  BY <1>0, <1>1, SentByOther, HostIsNotFtl DEF HostGet, shm_get, HostRetry, HostProceed, Goto
<1>2. ASSUME FeStart PROVE SentInv'
  BY <1>0, <1>2, SentByOther, HostIsNotFtl DEF FeStart, Goto
<1>3. ASSUME FeSend PROVE SentInv'
  BY <1>0, <1>3, SentBySend, HostIsNotFtl DEF FeSend, Goto, ShmOps
<1>4. ASSUME NEW t \in Fio,
             FioStart(t) \/ FioTrim(t) \/ FioSync(t) \/ FioUnlockMu(t) \/ FioRelease(t)
      PROVE SentInv'
  BY <1>0, <1>4, SentByOther, HostIsNotFtl
     DEF FioStart, FioTrim, FioSync, FioUnlockMu, FioRelease, Goto
<1>5. ASSUME NEW t \in Fio, NEW op \in ShmOps, NEW size \in Sizes, FioSend(t, op, size)
      PROVE SentInv'
  BY <1>0, <1>5, SentBySend, HostIsNotFtl DEF FioSend, Goto
<1>6. ASSUME FtlGet \/ FtlNone \/ FtlAccept \/ FtlRefuse \/ FtlGetFree \/ FtlGetRdy
      PROVE SentInv'
  BY <1>0, <1>6, SentByOther, HostIsNotFtl
     DEF FtlGet, FtlGetFree, FtlGetRdy, shm_get, FtlNone, FtlAccept, FtlRefuse, Goto
<1>7. CASE UNCHANGED shmVars
  BY <1>7, SentByOther DEF shmVars
<1> QED BY <1>1, <1>2, <1>3, <1>4, <1>5, <1>6, <1>7, SentByTake, SentByPut
        DEF ShmNext, HostStep, FtlStep

\* What the FTL takes from RDY_LIST is always a command some host has sent.
THEOREM TakenWasSent == ShmSpec => []SentInv
<1>1. ShmInit => SentInv
  <2>1. ASSUME ShmInit PROVE Range(list[RDY_LIST]) = {} /\ shm_pc["ftl"] = "idle"
    <3>1. list[RDY_LIST] = << >> /\ shm_pc["ftl"] = "idle"
      BY <2>1, HostIsNotFtl DEF ShmInit, ListType, FREE_LIST, RDY_LIST
    <3> QED BY <3>1, EmptySeq DEF Range
  <2> QED BY <2>1 DEF SentInv
<1>2. ShmInv /\ SentInv /\ [ShmNext]_shmVars => SentInv'
  BY SentStep
<1> QED BY <1>1, <1>2, ShmInvariance, PTL DEF ShmSpec

-----------------------------------------------------------------------------
LEMMA PipelineStep ==
  ASSUME SentInv, [Next]_vars
  PROVE [P!Next]_P!vars
<1>0. UNCHANGED pipeVars => UNCHANGED P!vars
  BY DEF pipeVars, P!vars, P!cmdVars, P!ftlVars, P!linkVars, P!beVars
<1>1. ASSUME \/ \E p \in Host : HostMoves(p) \/ HostLock(p) \/ HostStart(p)
             \/ PollLock \/ PollTake \/ PutLock \/ Put \/ UNCHANGED vars
      PROVE UNCHANGED pipeVars
  BY <1>1 DEF HostMoves, HostLock, HostStart, PollLock, PollTake, PutLock, Put, vars
<1>2. ASSUME PollAccept PROVE P!PollStep
  <2>1. Sendable(scmd)
    BY <1>2 DEF PollAccept, FtlAccept, Goto, SentInv
  <2>2. OpOf(scmd) \in P!Ops
    BY DEF OpOf, P!Ops
  <2> QED BY <1>2, <2>1, <2>2 DEF PollAccept, Sendable, P!PollStep
<1>3. ASSUME PollEmpty \/ PollRefuse PROVE P!PollStep
  BY <1>3 DEF PollEmpty, PollRefuse, P!PollStep
<1>4. ASSUME SqLock \/ CqLock \/ BeBody \/ BeLock \/ BeLockDone \/ BeSpuriousWake
      PROVE P!Next
  BY <1>4 DEF SqLock, CqLock, BeBody, BeLock, BeLockDone, BeSpuriousWake, P!Next
<1> QED BY <1>0, <1>1, <1>2, <1>3, <1>4 DEF Next, FtlBody, PollBody, P!Next

\* The composed system keeps to the pipeline's specification: whatever the
\* host processes do, the FTL only ever sees commands of its own alphabet.
THEOREM ImplementsPipeline == Spec => PipelineSpec
<1>1. Init => P!Init
  BY DEF Init
<1>2. SentInv /\ [Next]_vars => [P!Next]_P!vars
  BY PipelineStep
<1>3. Spec => []SentInv
  BY ImplementsFrontEnd, TakenWasSent DEF FrontEndSpec
<1> QED BY <1>1, <1>2, <1>3, PTL DEF Spec, PipelineSpec, P!Spec
=============================================================================
