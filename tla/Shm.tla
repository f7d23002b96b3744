-------------------------------- MODULE Shm ---------------------------------
(***************************************************************************)
(* The shared-memory front end: the fe() thread of the emulator, the fio    *)
(* threads of the emu_io engine and the FTL thread exchange command slots   *)
(* through the FREE and RDY lists under the spin lock CTRL_BYTE.  The lists *)
(* are FIFO sequences here; module ShmList models their links.              *)
(*                                                                         *)
(* What the FTL does with a command between taking it and giving the slot   *)
(* back is open (FtlAccept, FtlRefuse); module Emulator closes it.          *)
(***************************************************************************)
EXTENDS Integers, Sequences, FiniteSets, Functions, Queues

CONSTANTS
  CMD_SLOT_NUM,  \* slots of the shared memory
  Fio,           \* threads of fio
  Ddirs,         \* directions of the requests: "read", "write", "trim", "sync"
  Sizes,         \* request sizes in bytes
  FE_CMDS,       \* commands fe() sends before it returns
  FIO_REQS       \* bound of the model: requests of one fio thread

ASSUME ShmAssumption ==
  /\ CMD_SLOT_NUM \in Nat \ {0}
  /\ Sizes \subseteq Nat
  /\ FE_CMDS \in Nat /\ FIO_REQS \in Nat
  /\ {"fe", "ftl", "none"} \cap Fio = {}

VARIABLES
  list,       \* slots of FREE_LIST and of RDY_LIST, from the head
  cmd,        \* contents of each slot
  CTRL_BYTE,  \* 1 while some process is between shm_get and shm_release
  mu,         \* owner of the fio mutex
  shm_pc,     \* place of each process
  c,          \* requests each host process has begun
  index,      \* slot the FTL has taken from RDY_LIST (0 or 1)
  scmd,       \* the FTL's copy of its command
  sent,       \* history: commands sent so far; numbers the commands
  accepted    \* history: numbers of the commands the FTL has accepted

shmVars == <<list, cmd, CTRL_BYTE, mu, shm_pc, c, index, scmd, sent, accepted>>

Slot == 0 .. CMD_SLOT_NUM - 1
FREE_LIST == 1
RDY_LIST == 2
ListType == {FREE_LIST, RDY_LIST}

SHM_READ_OPS == 1
SHM_WRITE_OPS == 2
ShmOps == {SHM_READ_OPS, SHM_WRITE_OPS}
FE_SIZE == 16384

Host == Fio \cup {"fe"}
Process == Host \cup {"ftl"}

\* Slots are zeroed by SHM_init; nr is the number of the command (history).
NoCmd == [ops |-> 0, size |-> 0, nr |-> 0]
ShmCmd == [ops : ShmOps \cup {0}, size : Nat, nr : Nat]

\* After SHM_init: every slot is free, in the order of the loop.
ShmInit ==
  /\ list = [l \in ListType |-> IF l = FREE_LIST THEN [k \in 1 .. CMD_SLOT_NUM |-> k - 1] ELSE << >>]
  /\ cmd = [s \in Slot |-> NoCmd]
  /\ CTRL_BYTE = 0 /\ mu = "none"
  /\ shm_pc = [p \in Process |-> "idle"]
  /\ c = [p \in Host |-> 0]
  /\ index = << >> /\ scmd = NoCmd
  /\ sent = 0 /\ accepted = {}

-----------------------------------------------------------------------------
(* The spin lock.                                                           *)

Goto(p, from, to) == shm_pc[p] = from /\ shm_pc' = [shm_pc EXCEPT ![p] = to]

\* __sync_lock_test_and_set succeeds.
shm_get(p, from, to) ==
  /\ Goto(p, from, to)
  /\ CTRL_BYTE = 0 /\ CTRL_BYTE' = 1
  /\ UNCHANGED <<list, cmd, mu, c, index, scmd, sent, accepted>>

\* Remove the head of FREE_LIST, fill the slot and append it to RDY_LIST.
SendCmd(op, size) ==
  LET s == Head(list[FREE_LIST])
  IN /\ list' = Enqueue(Dequeue(list, FREE_LIST), RDY_LIST, s)
     /\ cmd' = [cmd EXCEPT ![s] = [ops |-> op, size |-> size, nr |-> sent + 1]]
     /\ sent' = sent + 1

\* FREE_LIST is empty: release the lock and ask for it again.
HostRetry(p) ==
  /\ Goto(p, "check", "get")
  /\ list[FREE_LIST] = << >>
  /\ CTRL_BYTE' = 0
  /\ UNCHANGED <<list, cmd, mu, c, index, scmd, sent, accepted>>

\* Mutant: FREE_LIST is not checked again after a retry.
HostProceedUnchecked(p) ==
  /\ Goto(p, "check", "send")
  /\ UNCHANGED <<list, cmd, CTRL_BYTE, mu, c, index, scmd, sent, accepted>>

HostProceed(p) ==
  /\ Goto(p, "check", "send")
  /\ list[FREE_LIST] # << >>
  /\ UNCHANGED <<list, cmd, CTRL_BYTE, mu, c, index, scmd, sent, accepted>>

-----------------------------------------------------------------------------
(* fe(): reads of 16 KB, one at a time, until its count is reached.         *)

FeStart ==
  /\ c["fe"] < FE_CMDS
  /\ Goto("fe", "idle", "get")
  /\ c' = [c EXCEPT !["fe"] = @ + 1]
  /\ UNCHANGED <<list, cmd, CTRL_BYTE, mu, index, scmd, sent, accepted>>

FeSend ==
  /\ Goto("fe", "send", "idle")
  /\ SendCmd(SHM_READ_OPS, FE_SIZE)
  /\ CTRL_BYTE' = 0
  /\ UNCHANGED <<mu, c, index, scmd, accepted>>

-----------------------------------------------------------------------------
(* fio_emussd_queue: mu around the whole call, the spin lock inside it.     *)

FioStart(t) ==
  /\ c[t] < FIO_REQS
  /\ mu = "none" /\ mu' = t
  /\ Goto(t, "idle", "get")
  /\ c' = [c EXCEPT ![t] = @ + 1]
  /\ UNCHANGED <<list, cmd, CTRL_BYTE, index, scmd, sent, accepted>>

FioSend(t, op, size) ==
  /\ (IF op = SHM_READ_OPS THEN "read" ELSE "write") \in Ddirs
  /\ Goto(t, "send", "unlock")
  /\ SendCmd(op, size)
  /\ UNCHANGED <<CTRL_BYTE, mu, c, index, scmd, accepted>>

\* A trim returns from inside both critical sections.
FioTrim(t) ==
  /\ "trim" \in Ddirs
  /\ Goto(t, "send", "idle")
  /\ UNCHANGED <<list, cmd, CTRL_BYTE, mu, c, index, scmd, sent, accepted>>

\* Any other direction sends nothing.
FioSync(t) ==
  /\ "sync" \in Ddirs
  /\ Goto(t, "send", "unlock")
  /\ UNCHANGED <<list, cmd, CTRL_BYTE, mu, c, index, scmd, sent, accepted>>

FioUnlockMu(t) ==
  /\ Goto(t, "unlock", "release")
  /\ mu' = "none"
  /\ UNCHANGED <<list, cmd, CTRL_BYTE, c, index, scmd, sent, accepted>>

FioRelease(t) ==
  /\ Goto(t, "release", "idle")
  /\ CTRL_BYTE' = 0
  /\ UNCHANGED <<list, cmd, mu, c, index, scmd, sent, accepted>>

-----------------------------------------------------------------------------
(* The FTL's side: SHM_get_rdy_list, then SHM_add_free_list or              *)
(* SHM_add_rdy_list.                                                        *)

FtlNone ==
  /\ Goto("ftl", "poll", "idle")
  /\ list[RDY_LIST] = << >>
  /\ CTRL_BYTE' = 0
  /\ UNCHANGED <<list, cmd, mu, c, index, scmd, sent, accepted>>

\* Mutant: the command is read without being removed.
FtlTakePeeks ==
  /\ Goto("ftl", "poll", "got")
  /\ list[RDY_LIST] # << >>
  /\ index' = <<Head(list[RDY_LIST])>>
  /\ scmd' = cmd[Head(list[RDY_LIST])]
  /\ CTRL_BYTE' = 0
  /\ UNCHANGED <<list, cmd, mu, c, sent, accepted>>

FtlTake ==
  /\ Goto("ftl", "poll", "got")
  /\ list[RDY_LIST] # << >>
  /\ index' = <<Head(list[RDY_LIST])>>
  /\ scmd' = cmd[Head(list[RDY_LIST])]
  /\ list' = Dequeue(list, RDY_LIST)
  /\ CTRL_BYTE' = 0
  /\ UNCHANGED <<cmd, mu, c, sent, accepted>>

\* The FTL has an entry for the command: its slot will be freed.
FtlAccept ==
  /\ Goto("ftl", "got", "free")
  /\ accepted' = accepted \cup {scmd.nr}
  /\ UNCHANGED <<list, cmd, CTRL_BYTE, mu, c, index, scmd, sent>>

\* The FTL has none: the slot goes back to RDY_LIST.
FtlRefuse ==
  /\ Goto("ftl", "got", "back")
  /\ UNCHANGED <<list, cmd, CTRL_BYTE, mu, c, index, scmd, sent, accepted>>

\* Mutant: the slot is not added to the list.
AddFreeListLeaks ==
  /\ Goto("ftl", "add_free", "idle")
  /\ index' = << >>
  /\ CTRL_BYTE' = 0
  /\ UNCHANGED <<list, cmd, mu, c, scmd, sent, accepted>>

SHM_add_free_list ==
  /\ Goto("ftl", "add_free", "idle")
  /\ list' = Enqueue(list, FREE_LIST, Head(index))
  /\ index' = << >>
  /\ CTRL_BYTE' = 0
  /\ UNCHANGED <<cmd, mu, c, scmd, sent, accepted>>

\* Mutants: the slot goes to the wrong list; to the head of the right one.
AddRdyListFrees ==
  /\ Goto("ftl", "add_rdy", "idle")
  /\ list' = Enqueue(list, FREE_LIST, Head(index))
  /\ cmd' = [cmd EXCEPT ![Head(index)] = scmd]
  /\ index' = << >>
  /\ CTRL_BYTE' = 0
  /\ UNCHANGED <<mu, c, scmd, sent, accepted>>

AddRdyListInFront ==
  /\ Goto("ftl", "add_rdy", "idle")
  /\ list' = [list EXCEPT ![RDY_LIST] = index \o @]
  /\ cmd' = [cmd EXCEPT ![Head(index)] = scmd]
  /\ index' = << >>
  /\ CTRL_BYTE' = 0
  /\ UNCHANGED <<mu, c, scmd, sent, accepted>>

SHM_add_rdy_list ==
  /\ Goto("ftl", "add_rdy", "idle")
  /\ list' = Enqueue(list, RDY_LIST, Head(index))
  /\ cmd' = [cmd EXCEPT ![Head(index)] = scmd]
  /\ index' = << >>
  /\ CTRL_BYTE' = 0
  /\ UNCHANGED <<mu, c, scmd, sent, accepted>>

-----------------------------------------------------------------------------
HostGet(p) == shm_get(p, "get", "check")
FtlGet == shm_get("ftl", "idle", "poll")
FtlGetFree == shm_get("ftl", "free", "add_free")
FtlGetRdy == shm_get("ftl", "back", "add_rdy")

HostStep ==
  \/ \E p \in Host : HostGet(p) \/ HostRetry(p) \/ HostProceed(p)
  \/ FeStart \/ FeSend
  \/ \E t \in Fio : \/ FioStart(t) \/ FioTrim(t) \/ FioSync(t) \/ FioUnlockMu(t) \/ FioRelease(t)
                    \/ \E op \in ShmOps, size \in Sizes : FioSend(t, op, size)

FtlStep ==
  \/ FtlGet \/ FtlNone \/ FtlTake \/ FtlAccept \/ FtlRefuse
  \/ FtlGetFree \/ SHM_add_free_list \/ FtlGetRdy \/ SHM_add_rdy_list

ShmNext == HostStep \/ FtlStep

ShmSpec == ShmInit /\ [][ShmNext]_shmVars

-----------------------------------------------------------------------------
\* Every variable stays in its type; the FTL holds a slot exactly from taking
\* it to giving it back.
ShmTypeOK ==
  /\ list \in [ListType -> Seq(Slot)]
  /\ cmd \in [Slot -> ShmCmd]
  /\ CTRL_BYTE \in {0, 1}
  /\ mu \in Fio \cup {"none"}
  /\ shm_pc \in [Process -> {"idle", "get", "check", "send", "unlock", "release",
                             "poll", "got", "free", "back", "add_free", "add_rdy"}]
  /\ c \in [Host -> Nat]
  /\ index \in Seq(Slot)
  /\ Len(index) = (IF shm_pc["ftl"] \in {"got", "free", "back", "add_free", "add_rdy"} THEN 1 ELSE 0)
  /\ scmd \in ShmCmd
  /\ sent \in Nat /\ accepted \subseteq Nat

\* The places between shm_get and shm_release, where the lists are used.
Locked == {"check", "send", "unlock", "release", "poll", "add_free", "add_rdy"}

\* At most one process, of either program, is between shm_get and shm_release.
MutualExclusion ==
  \A p, q \in Process : shm_pc[p] \in Locked /\ shm_pc[q] \in Locked => p = q /\ CTRL_BYTE = 1

\* Every slot is in exactly one place, FREE_LIST, RDY_LIST or the FTL's hands:
\* none is lost by a retry or a put-back and none is in two lists.
SlotPlaces == <<list[FREE_LIST], list[RDY_LIST], index>>
SlotsConserved == NoRepeat(SlotPlaces) /\ Members(SlotPlaces) = Slot

\* What send_cmd_to_shm asserts of the slot it removes, and fe() relies on: a
\* host that saw FREE_LIST non-empty still finds a slot there.
SlotAvailable == \A p \in Host : shm_pc[p] = "send" => list[FREE_LIST] # << >>

\* The numbers of the commands that wait in RDY_LIST and in the FTL's hands.
Waiting == {cmd[s].nr : s \in Range(list[RDY_LIST])}
InHand == IF shm_pc["ftl"] \in {"got", "back", "add_rdy"} THEN {scmd.nr} ELSE {}

\* Every command sent waits, or is in the FTL's hands, or was accepted once:
\* putting a command back neither loses nor doubles it.
ExactlyOnce ==
  /\ Waiting \cup InHand \cup accepted = 1 .. sent
  /\ Waiting \cap InHand = {} /\ Waiting \cap accepted = {} /\ InHand \cap accepted = {}
  /\ \A s, t \in Range(list[RDY_LIST]) : cmd[s].nr = cmd[t].nr => s = t

\* No host writes a slot the FTL has taken: the copy scmd, made under the lock
\* and used and written back after it, is still the slot's contents.
CopyIsCurrent ==
  shm_pc["ftl"] \in {"got", "back", "add_rdy"} => scmd = cmd[Head(index)]

\* A waiting command keeps its contents and its turn: RDY_LIST only grows at
\* its tail, where commands put back go too, and only the FTL takes its head.
ReadyKeptInOrder ==
  [][LET q == list[RDY_LIST]
         r == list'[RDY_LIST]
     IN /\ \/ Len(r) >= Len(q) /\ SubSeq(r, 1, Len(q)) = q
           \/ q # << >> /\ r = Tail(q) /\ index' = <<Head(q)>>
        /\ \A s \in Range(q) : cmd'[s] = cmd[s]]_shmVars
=============================================================================
