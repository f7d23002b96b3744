--------------------------- MODULE LivenessParts ---------------------------
(***************************************************************************)
(* Four parts that share no state and have liveness properties, checked in  *)
(* one run: the DMA counters and the hardware queues of the firmware, and   *)
(* fio's verify pass and statistics of running jobs.  LivenessInit picks    *)
(* the part that runs; the others keep their initial state.                 *)
(***************************************************************************)
EXTENDS HostDma, FlashQueue, VerifyConsts

CONSTANTS JOBS, MAX_TRIES, STAT_CALLS, DO_VERIFY \* StatSync

ASSUME LivenessPartsAssumption ==
  /\ JOBS \in Nat \ {0} /\ {MAX_TRIES, STAT_CALLS} \subseteq Nat /\ DO_VERIFY \in BOOLEAN

VARIABLES
  part,                                                      \* the part that runs
  proceed, fatal, free, verify_list, blk, in_depth, cur_depth, error, terminate,
  verify_thread_exit, nr_verify_threads, total_err_count, job, idx, io, todo,
  thread_pc, batch, hand, verify_ret, read, checked, bad,    \* VerifyAsync
  stat_sem, rusage_sem, update_rusage, exited, jpc, back, tries, hpc, k, calls \* StatSync

Verify == INSTANCE VerifyAsync WITH pc <- thread_pc
Stat == INSTANCE StatSync

verifyVars ==
  <<proceed, fatal, free, verify_list, blk, in_depth, cur_depth, error, terminate,
    verify_thread_exit, nr_verify_threads, total_err_count, job, idx, io, todo,
    thread_pc, batch, hand, verify_ret, read, checked, bad>>
statVars == <<stat_sem, rusage_sem, update_rusage, exited, jpc, back, tries, hpc, k, calls>>
livenessVars == <<part, dmaVars, fqVars, verifyVars, statVars>>

\* The options of the verify pass are free where it runs.
LivenessInit ==
  /\ part \in {"dma", "queue", "verify", "stat"}
  /\ DmaInit /\ FqInit /\ Stat!Init
  /\ Verify!VerifyInit /\ (part # "verify" => ~proceed /\ ~fatal)

\* The parts that do not run.
Rest ==
  /\ IF part = "dma" THEN TRUE ELSE UNCHANGED dmaVars
  /\ IF part = "queue" THEN TRUE ELSE UNCHANGED fqVars
  /\ IF part = "verify" THEN TRUE ELSE UNCHANGED verifyVars
  /\ IF part = "stat" THEN TRUE ELSE UNCHANGED statVars

LivenessNext ==
  /\ part' = part
  /\ \/ part = "dma" /\ DmaNext /\ Rest
     \/ part = "queue" /\ FqNext /\ Rest
     \/ part = "verify" /\ Verify!VerifyNext /\ Rest
     \/ part = "stat" /\ Stat!Next /\ Rest

\* The fairness of the four modules, for the part that runs.
LivenessSpec ==
  /\ LivenessInit /\ [][LivenessNext]_livenessVars
  /\ WF_dmaVars(part = "dma" /\ DmaFirmware)
  /\ \A d \in Dir : WF_dmaVars(part = "dma" /\ EngineStep(d))
  /\ WF_fqVars(part = "queue" /\ Core0)
  /\ WF_fqVars(part = "queue" /\ Core1)
  /\ \A x \in SqIndex : WF_fqVars(part = "queue" /\ Complete(x))
  /\ WF_verifyVars(part = "verify" /\ Verify!JobStep)
  /\ \A t \in Verify!Thread : WF_verifyVars(part = "verify" /\ Verify!ThreadStep(t))
  /\ WF_statVars(part = "stat" /\ Stat!HelperStep)
  /\ \A j \in Stat!StatJob :
       WF_statVars(part = "stat" /\ Stat!JobStep(j)) /\ WF_statVars(part = "stat" /\ Stat!SeeExited(j))

-----------------------------------------------------------------------------
\* HostDma, FlashQueue: what the firmware waits for comes.  The spin loops on
\* the DMA counters end, and a command sent to the controller returns to core 0.
HardwareWaitsEnd == SpinsEnd /\ SentComesBack


\* StatSync: the helper gives stat_sem back as long as the job it waits for
\* lives and does not sleep on stat_sem after do_verify: everywhere else a job
\* answers before it could be held up by the helper's stat_sem.
StatSemGivenBack == Stat!StatSemGivenBack
=============================================================================
