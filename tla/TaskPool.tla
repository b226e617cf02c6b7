------------------------------- MODULE TaskPool -------------------------------
(***************************************************************************)
(* What a driver that runs an unfolding set of tasks on a team of workers  *)
(* promises (src/src/scheduler.rs 209-212: "Blocks until all work is       *)
(* drained"): a task that is spawned is run once, only a running task      *)
(* spawns, and a worker leaves only when nothing is left to be run.        *)
(***************************************************************************)
CONSTANTS
    Workers,   \* the team
    Tasks,     \* all there can be
    Seeds      \* those that are there at the start

VARIABLES
    pending,   \* spawned and not yet begun
    running,   \* begun and not yet ended
    done,      \* ended
    present    \* the workers that have not left

poolVars == <<pending, running, done, present>>

PoolInit ==
    /\ pending = Seeds
    /\ running = {}
    /\ done = {}
    /\ present = Workers

Known == pending \cup running \cup done

\* A running task spawns a task that was not there before.
SpawnTask(t) ==
    /\ running # {}
    /\ t \notin Known
    /\ pending' = pending \cup {t}
    /\ UNCHANGED <<running, done, present>>

BeginTask(t) ==
    /\ t \in pending
    /\ pending' = pending \ {t}
    /\ running' = running \cup {t}
    /\ UNCHANGED <<done, present>>

EndTask(t) ==
    /\ t \in running
    /\ running' = running \ {t}
    /\ done' = done \cup {t}
    /\ UNCHANGED <<pending, present>>

Leave(w) ==
    /\ pending \cup running = {}
    /\ present' = present \ {w}
    /\ UNCHANGED <<pending, running, done>>

PoolNext ==
    \/ \E t \in Tasks : SpawnTask(t) \/ BeginTask(t) \/ EndTask(t)
    \/ \E w \in Workers : Leave(w)

PoolSpec == PoolInit /\ [][PoolNext]_poolVars
==============================================================================
