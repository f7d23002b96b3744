------------------------------ MODULE HostDma ------------------------------
(***************************************************************************)
(* The auto DMA FIFOs of nvme/host_lld.c (hardware build): the firmware     *)
(* counts the transfers it issues in an 8-bit tail and an overflow count,   *)
(* the DMA engine counts the ones it has finished in an 8-bit register, and *)
(* the firmware decides from these alone whether a transfer it issued some  *)
(* time ago is done.  The numbers issued, done, seen and mark are what the  *)
(* counters stand for; no guard of the code reads them.                     *)
(***************************************************************************)
EXTENDS Integers

CONSTANTS
  Dir,           \* the two FIFOs, autoDmaTx and autoDmaRx
  WRAP,          \* number of values of an unsigned char: 256
  MAX_OVERFLOW   \* bound on the overflow counts, below 2^32

ASSUME HostDmaAssumption == WRAP \in Nat \ {0, 1} /\ MAX_OVERFLOW \in Nat

VARIABLES
  fifoHead,      \* g_hostDmaStatus.fifoHead, the register as last read
  fifoTail,      \* g_hostDmaStatus.fifoTail
  overFlowCnt,   \* g_hostDmaAssistStatus.autoDma{Tx,Rx}OverFlowCnt
  tailIndex,     \* the tail and the overflow count the caller noted ...
  tailAssistIndex, \* ... right after issuing a transfer
  pc, dir,       \* where the firmware is, and on which FIFO
  issued, done,  \* transfers issued, and finished by the engine
  seen,          \* the value of done when fifoHead was read
  mark           \* the value of issued when tailIndex was noted

dmaVars == <<fifoHead, fifoTail, overFlowCnt, tailIndex, tailAssistIndex,
             pc, dir, issued, done, seen, mark>>

DmaInit ==
  /\ fifoHead = [d \in Dir |-> 0] /\ fifoTail = [d \in Dir |-> 0]
  /\ overFlowCnt = [d \in Dir |-> 0]
  /\ tailIndex = [d \in Dir |-> 0] /\ tailAssistIndex = [d \in Dir |-> 0]
  /\ pc = "idle" /\ dir \in Dir
  /\ issued = [d \in Dir |-> 0] /\ done = [d \in Dir |-> 0]
  /\ seen = [d \in Dir |-> 0] /\ mark = [d \in Dir |-> 0]

\* IO_READ32(HOST_DMA_FIFO_CNT_REG_ADDR): one register holds every count.
ReadFifoCnt ==
  /\ fifoHead' = [d \in Dir |-> done[d] % WRAP]
  /\ seen' = done

\* Mutant: the tail's next value is not reduced.
FifoFullMissed(d) == fifoTail[d] + 1 = fifoHead[d]

FifoFull(d) == (fifoTail[d] + 1) % WRAP = fifoHead[d]

\* set_auto_tx_dma, set_auto_rx_dma: read the head, read it again while the
\* FIFO is full, then issue.
SetAutoBegin(d) ==
  /\ pc = "idle" /\ pc' = "set" /\ dir' = d
  /\ ReadFifoCnt
  /\ UNCHANGED <<fifoTail, overFlowCnt, tailIndex, tailAssistIndex, issued, done, mark>>

\* Mutant: the loop does not read the head again.
SetAutoSpinStale == pc = "set" /\ FifoFull(dir) /\ UNCHANGED dmaVars

SetAutoSpin ==
  /\ pc = "set" /\ FifoFull(dir)
  /\ ReadFifoCnt
  /\ UNCHANGED <<fifoTail, overFlowCnt, tailIndex, tailAssistIndex, pc, dir, issued, done, mark>>

\* The caller may note the tail and the overflow count of this transfer for a
\* later partial done check.
SetAutoIssue(note) ==
  LET tail == (fifoTail[dir] + 1) % WRAP
      cnt  == overFlowCnt[dir] + (IF fifoTail[dir] > tail THEN 1 ELSE 0)
  IN /\ pc = "set" /\ ~FifoFull(dir) /\ cnt <= MAX_OVERFLOW
     /\ pc' = "idle"
     /\ fifoTail' = [fifoTail EXCEPT ![dir] = tail]
     /\ overFlowCnt' = [overFlowCnt EXCEPT ![dir] = cnt]
     /\ issued' = [issued EXCEPT ![dir] = @ + 1]
     /\ IF note
          THEN /\ tailIndex' = [tailIndex EXCEPT ![dir] = tail]
               /\ tailAssistIndex' = [tailAssistIndex EXCEPT ![dir] = cnt]
               /\ mark' = [mark EXCEPT ![dir] = issued[dir] + 1]
          ELSE UNCHANGED <<tailIndex, tailAssistIndex, mark>>
     /\ UNCHANGED <<fifoHead, dir, done, seen>>

\* check_auto_tx_dma_done, check_auto_rx_dma_done: read until head meets tail.
CheckDoneBegin(d) ==
  /\ pc = "idle" /\ pc' = "check" /\ dir' = d
  /\ UNCHANGED <<fifoHead, fifoTail, overFlowCnt, tailIndex, tailAssistIndex, issued, done, seen, mark>>

CheckDoneSpin ==
  /\ pc = "check" /\ fifoHead[dir] # fifoTail[dir]
  /\ ReadFifoCnt
  /\ UNCHANGED <<fifoTail, overFlowCnt, tailIndex, tailAssistIndex, pc, dir, issued, done, mark>>

\* Mutant: the head is read once.
CheckDoneReturnOnce ==
  /\ pc = "check" /\ pc' = "all_done"
  /\ UNCHANGED <<fifoHead, fifoTail, overFlowCnt, tailIndex, tailAssistIndex, dir, issued, done, seen, mark>>

CheckDoneReturn ==
  /\ pc = "check" /\ fifoHead[dir] = fifoTail[dir]
  /\ pc' = "all_done"
  /\ UNCHANGED <<fifoHead, fifoTail, overFlowCnt, tailIndex, tailAssistIndex, dir, issued, done, seen, mark>>

\* Mutant: the overflow counts are always expected to be equal.
PartialDoneSameLap(h, t, n, r, b) ==
  \/ h = t
  \/ h < r /\ t < r /\ (t > h \/ n # b)
  \/ h < r /\ t >= r /\ n # b
  \/ h = r
  \/ h > r /\ (t < r \/ t > h \/ n # b)

\* What check_auto_{tx,rx}_dma_partial_done returns for head h, tail t,
\* overflow count n, noted tail r and noted overflow count b.
PartialDone(h, t, n, r, b) ==
  \/ h = t
  \/ h < r /\ t < r /\ (t > h \/ n # b + 1)
  \/ h < r /\ t >= r /\ n # b
  \/ h = r
  \/ h > r /\ (t < r \/ t > h \/ n # b)

PartialDoneRead(d) ==
  /\ pc = "idle" /\ pc' = "partial" /\ dir' = d
  /\ ReadFifoCnt
  /\ UNCHANGED <<fifoTail, overFlowCnt, tailIndex, tailAssistIndex, issued, done, mark>>

PartialDoneReturn ==
  /\ pc = "partial"
  /\ pc' = IF PartialDone(fifoHead[dir], fifoTail[dir], overFlowCnt[dir],
                          tailIndex[dir], tailAssistIndex[dir])
             THEN "part_done" ELSE "not_done"
  /\ UNCHANGED <<fifoHead, fifoTail, overFlowCnt, tailIndex, tailAssistIndex, dir, issued, done, seen, mark>>

\* The caller goes on with the answer.
Resume ==
  /\ pc \in {"all_done", "part_done", "not_done"} /\ pc' = "idle"
  /\ UNCHANGED <<fifoHead, fifoTail, overFlowCnt, tailIndex, tailAssistIndex, dir, issued, done, seen, mark>>

\* The engine finishes the oldest transfer of a FIFO.
EngineStep(d) ==
  /\ done[d] < issued[d]
  /\ done' = [done EXCEPT ![d] = @ + 1]
  /\ UNCHANGED <<fifoHead, fifoTail, overFlowCnt, tailIndex, tailAssistIndex, pc, dir, issued, seen, mark>>

DmaFirmware ==
  \/ \E d \in Dir : SetAutoBegin(d) \/ CheckDoneBegin(d) \/ PartialDoneRead(d)
  \/ SetAutoSpin \/ \E note \in BOOLEAN : SetAutoIssue(note)
  \/ CheckDoneSpin \/ CheckDoneReturn \/ PartialDoneReturn \/ Resume

DmaNext == DmaFirmware \/ \E d \in Dir : EngineStep(d)

DmaSpec == DmaInit /\ [][DmaNext]_dmaVars

\* The firmware runs and the engine finishes what it is given.
DmaFairSpec ==
  DmaSpec /\ WF_dmaVars(DmaFirmware) /\ \A d \in Dir : WF_dmaVars(EngineStep(d))

-----------------------------------------------------------------------------
\* The tail and the overflow count together are the number of transfers
\* issued, through every wrap of the 8-bit tail, and the head is the number
\* finished when it was read.
HostDmaTypeOK ==
  /\ pc \in {"idle", "set", "check", "partial", "all_done", "part_done", "not_done"}
  /\ dir \in Dir
  /\ \A d \in Dir :
       /\ fifoTail[d] \in 0 .. WRAP - 1 /\ overFlowCnt[d] \in 0 .. MAX_OVERFLOW
       /\ issued[d] = WRAP * overFlowCnt[d] + fifoTail[d]
       /\ fifoHead[d] = seen[d] % WRAP
       /\ mark[d] = WRAP * tailAssistIndex[d] + tailIndex[d]
       /\ mark[d] <= issued[d]

\* The FIFO of WRAP entries never holds more than WRAP - 1 transfers: the spin
\* on a full FIFO, done against a head that is already old, is enough.
FifoNotOverrun == \A d \in Dir : done[d] <= issued[d] /\ issued[d] < done[d] + WRAP

\* check_auto_dma_done returns only when every transfer issued is finished,
\* although equal 8-bit counts alone could also mean a full lap.
DoneMeansDone == pc = "all_done" => done[dir] = issued[dir]

\* check_auto_dma_partial_done answers yes exactly when the transfer whose
\* tail the caller noted was finished when the head was read, however many
\* transfers and laps of the tail lie between.
PartialDoneExact ==
  /\ pc = "part_done" => seen[dir] >= mark[dir]
  /\ pc = "not_done" => seen[dir] < mark[dir]

\* What the firmware concludes from the counters is right: the FIFO is never
\* overrun, and the answers of both check functions are exact.
CountersExact == FifoNotOverrun /\ DoneMeansDone /\ PartialDoneExact

\* The two spin loops end: the engine catches up with whatever is issued.
SpinsEnd == (pc \in {"set", "check"} /\ overFlowCnt[dir] < MAX_OVERFLOW) ~> pc \notin {"set", "check"}
=============================================================================
