--------------------------- MODULE SchedulerPool ---------------------------
(* The scheduler implements TaskPool. *)
EXTENDS Scheduler

\* Life of a frame as the list and its invalid flag show it.
TaskState(f) ==
    CASE f \notin spawned -> "new"
      [] f \in spawned /\ ~Linked(f) -> "gone"
      [] f \in spawned /\ Linked(f) /\ f \in invalid -> "exited"
      [] f \in spawned /\ Linked(f) /\ f \notin invalid -> "ready"

Pool == INSTANCE TaskPool WITH
            Tasks   <- Frames,
            None    <- Null,
            state   <- [f \in Frames |-> TaskState(f)],
            running <- IF current \in Frames THEN current ELSE Null,
            stopped <- mode # "run"

\* Every behaviour of the scheduler, with the timer ticking, is one of the
\* task pool: TaskSwitch, IntAddTask, ProcessExit and exceptions do to the
\* tasks what Tick, Spawn, Exit and Stop do.
ImplementsPool == Pool!PoolSpec
=============================================================================
