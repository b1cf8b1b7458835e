---------------------------- MODULE MCScheduler ----------------------------
(* Small instances of Scheduler for TLC. *)
EXTENDS SchedulerPool, TLC

\* Frames are only compared for equality.
FrameSymmetry == Permutations(Frames)
=============================================================================
