---------------------------- MODULE VerifyConsts ----------------------------
(***************************************************************************)
(* The constants of VerifyAsync and what is assumed of them.                *)
(***************************************************************************)
EXTENDS Naturals, FiniteSets

CONSTANTS VERIFY_ASYNC, \* the number of verify threads asked for
          IoU,          \* the io_us of the job
          BLOCKS,       \* blocks are written, and read back, in order 1 .. BLOCKS
          CREATE_FAILS  \* pthread_create may fail

NoIoU == "none"

ASSUME VerifyAssumption ==
  /\ VERIFY_ASYNC \in Nat /\ BLOCKS \in Nat /\ CREATE_FAILS \in BOOLEAN
  /\ IsFiniteSet(IoU) /\ NoIoU \notin IoU
=============================================================================
