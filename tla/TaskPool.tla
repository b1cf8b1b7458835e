------------------------------ MODULE TaskPool ------------------------------
(***************************************************************************)
(* What the scheduler promises, without lists, quanta, registers or pids:  *)
(* spawned tasks are ready until they exit, an exited task is dropped when *)
(* the CPU is next given away, the CPU is only ever given to a ready task, *)
(* and no ready task is left waiting for ever.                             *)
(***************************************************************************)
CONSTANTS Tasks, None

VARIABLES
    state,      \* life of each task
    running,    \* the task that has the CPU, or None
    stopped     \* the kernel has panicked

poolVars == <<state, running, stopped>>

Ready == {t \in Tasks : state[t] = "ready"}

PoolInit ==
    /\ state = [t \in Tasks |-> "new"]
    /\ running = None
    /\ stopped = FALSE

Spawn(t) ==
    /\ ~stopped
    /\ state[t] = "new"
    /\ state' = [state EXCEPT ![t] = "ready"]
    /\ UNCHANGED <<running, stopped>>

Exit(t) ==
    /\ ~stopped
    /\ running = t
    /\ state[t] = "ready"
    /\ state' = [state EXCEPT ![t] = "exited"]
    /\ UNCHANGED <<running, stopped>>

\* A tick: the running task is dropped if it has exited, and a ready task is
\* given the CPU if there is one.
Tick ==
    /\ ~stopped
    /\ state' = [t \in Tasks |-> IF t = running /\ state[t] = "exited"
                                 THEN "gone" ELSE state[t]]
    /\ IF Ready = {} THEN running' = None ELSE running' \in Ready
    /\ UNCHANGED stopped

Stop == stopped' = TRUE /\ UNCHANGED <<state, running>>

PoolNext == Tick \/ Stop \/ \E t \in Tasks : Spawn(t) \/ Exit(t)

NoStarvation ==
    \A t \in Tasks : []<>(running = t \/ state[t] # "ready" \/ stopped)

PoolSafety == PoolInit /\ [][PoolNext]_poolVars
PoolSpec == PoolSafety /\ NoStarvation
=============================================================================
