------------------------------ MODULE Emulator ------------------------------
(***************************************************************************)
(* The emulator process and the fio process together: the host side of Shm, *)
(* the FTL thread polling the shared memory and running the pipeline of     *)
(* FtlPipeline, and the back-end thread.                                    *)
(***************************************************************************)
EXTENDS Shm

CONSTANTS HCMD_NUM, TASK_QUEUE_MAX, HW_QUEUE_DEPTH, MAX_POLLING_NUM

VARIABLES
  hcmd_map, hcmd, emu_c, tq, sq_bitmap, pc, i, cnt, ftl_sq,
  register_list, complete_list, fcl_be_mutex, be_pc, r_sq,
  origin   \* slot (field nvme_cmd_slot) and number of the command of each emu_id

\* The host never sends more than this.
AllCmds == FE_CMDS + FIO_REQS * Cardinality(Fio)

\* The FTL serves fe()'s commands and those of fio.
P == INSTANCE FtlPipeline WITH MaxCmds <- AllCmds, Sizes <- Sizes \cup {FE_SIZE}

pipeVars == <<hcmd_map, hcmd, emu_c, tq, sq_bitmap, pc, i, cnt, ftl_sq,
              register_list, complete_list, fcl_be_mutex, be_pc, r_sq>>
vars == <<shmVars, pipeVars, origin>>

Init == ShmInit /\ P!Init /\ origin = << >>

-----------------------------------------------------------------------------
(* FTL_nvme_req_polling: one iteration takes several steps of the FTL       *)
(* thread, between which the other threads and the other process run.       *)

Idle == shm_pc["ftl"] = "idle"

PollLock == pc = "nvme" /\ FtlGet /\ UNCHANGED <<pipeVars, origin>>

PollEmpty == FtlNone /\ P!PollNone /\ UNCHANGED origin

PollTake == FtlTake /\ UNCHANGED <<pipeVars, origin>>

\* Mutant: only writes are recognised; the entry was zeroed.
OpOfUnset(s) == IF s.ops = SHM_WRITE_OPS THEN P!HCE_WRITE ELSE 0

OpOf(s) == IF s.ops = SHM_WRITE_OPS THEN P!HCE_WRITE ELSE P!HCE_READ

PollAccept ==
  /\ FtlAccept
  /\ P!PollAccept(OpOf(scmd), scmd.size)
  /\ origin' = Append(origin, [nr |-> scmd.nr, slot |-> Head(index)])

\* Mutant: a refused command is not put back.
PollRefuseDrops ==
  /\ Goto("ftl", "got", "idle")
  /\ UNCHANGED <<list, cmd, CTRL_BYTE, mu, c, index, scmd, sent, accepted>>
  /\ P!PollNoEntry /\ UNCHANGED origin

PollRefuse == FtlRefuse /\ P!PollNoEntry /\ UNCHANGED origin

PutLock == (FtlGetFree \/ FtlGetRdy) /\ UNCHANGED <<pipeVars, origin>>

Put == (SHM_add_free_list \/ SHM_add_rdy_list) /\ UNCHANGED <<pipeVars, origin>>

-----------------------------------------------------------------------------
HostCall(p) == \/ HostRetry(p) \/ HostProceed(p)
               \/ p = "fe" /\ FeSend
               \/ p \in Fio /\ \/ FioSync(p) \/ FioUnlockMu(p) \/ FioRelease(p) \/ FioTrim(p)
                               \/ \E op \in ShmOps, size \in Sizes : FioSend(p, op, size)

\* A host process between the start and the end of a call; asking for CTRL_BYTE;
\* asking for mu, or fe() waking up.
HostMoves(p) == HostCall(p) /\ UNCHANGED <<pipeVars, origin>>
HostLock(p) == HostGet(p) /\ UNCHANGED <<pipeVars, origin>>
HostStart(p) ==
  /\ (p = "fe" /\ FeStart) \/ (p \in Fio /\ FioStart(p))
  /\ UNCHANGED <<pipeVars, origin>>

PollBody == PollEmpty \/ PollTake \/ PollAccept \/ PollRefuse \/ Put

FtlBody == PollBody \/ (Idle /\ (P!TaskStep \/ P!CqStep) /\ UNCHANGED <<shmVars, origin>>)
SqLock == Idle /\ P!SendLock /\ UNCHANGED <<shmVars, origin>>
CqLock == Idle /\ P!CqLock /\ UNCHANGED <<shmVars, origin>>

BeBody == P!BeStep /\ UNCHANGED <<shmVars, origin>>
BeLock == P!BeLock /\ UNCHANGED <<shmVars, origin>>
BeLockDone == P!BeLockDone /\ UNCHANGED <<shmVars, origin>>
BeSpuriousWake == P!BeSpuriousWake /\ UNCHANGED <<shmVars, origin>>

Next ==
  \/ \E p \in Host : HostMoves(p) \/ HostLock(p) \/ HostStart(p)
  \/ PollLock \/ FtlBody \/ PutLock \/ SqLock \/ CqLock
  \/ BeBody \/ BeLock \/ BeLockDone \/ BeSpuriousWake

Spec == Init /\ [][Next]_vars

(* Every thread of both processes runs, and whoever keeps asking for a lock *)
(* that keeps being released is eventually served.                          *)
Fairness ==
  /\ \A p \in Host : WF_vars(HostMoves(p)) /\ SF_vars(HostLock(p)) /\ SF_vars(HostStart(p))
  /\ WF_vars(FtlBody) /\ WF_vars(BeBody)
  /\ SF_vars(PollLock) /\ SF_vars(PutLock) /\ SF_vars(SqLock) /\ SF_vars(CqLock)
  /\ SF_vars(BeLock) /\ SF_vars(BeLockDone)

FairSpec == Spec /\ Fairness

-----------------------------------------------------------------------------
\* emu_id of a command the FTL has accepted and not yet reclaimed.
Held == {hcmd[h].emu_id : h \in hcmd_map}

\* The command with this number has been accepted and its entry reclaimed.
Finished(n) == \E k \in 1 .. Len(origin) : origin[k].nr = n /\ k \notin Held

\* The composed system behaves as each component assumes of its environment:
\* the FTL sees a host that sends commands of the given sizes, the front end an
\* FTL that gives back every slot it takes.
PipelineSpec == P!Spec
FrontEndSpec == ShmSpec

\* Every host command of one page is eventually finished.
EveryHostCommandFinishes == \A n \in 1 .. AllCmds : (sent >= n) ~> Finished(n)

\* Every call of the host side returns.
HostReturns == \A p \in Host : (shm_pc[p] # "idle") ~> (shm_pc[p] = "idle")

\* "add to rdy_list wait FTL get it": what is put into RDY_LIST the FTL gets.
EveryCommandIsAccepted == \A n \in 1 .. AllCmds : (sent >= n) ~> (n \in accepted)

\* "used for finding cmd slot in shm": the slot recorded in a host command
\* entry still holds the command while the entry is allocated.
SlotHoldsCommand == \A h \in hcmd_map :
  cmd[origin[hcmd[h].emu_id].slot].nr = origin[hcmd[h].emu_id].nr
=============================================================================
