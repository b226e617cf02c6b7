-------------------------------- MODULE Parts --------------------------------
(***************************************************************************)
(* Three small parts of the crate under one roof: the distributed          *)
(* scheduler, the persistent queue and the priority pool.  The first state *)
(* says which of them this behaviour is of, or that it is of none (MCParts *)
(* has a fourth); the variables of the others stay as they are.            *)
(***************************************************************************)
EXTENDS Integers, Sequences

CONSTANTS NumNodes, NumSeeds, MaxTasks, CanPanic, Values, MaxLog,
          Stealers, NumLevels, MaxPrio

VARIABLES part,
          local, inbox, waiting, outstanding, at, task, spawned, ended, lost,
          durable, volatile, live, recovered,
          levels, pushed, popAt, reaching, scanAt, claim, retries, since

Dist == INSTANCE Distributed
Log == INSTANCE Persistent
Prio == INSTANCE Priority

ASSUME PartsAssumption ==
    /\ Dist!DistributedAssumption
    /\ Log!PersistentAssumption
    /\ Prio!PriorityAssumption

distVars == <<local, inbox, waiting, outstanding, at, task, spawned, ended,
              lost>>
logVars == <<durable, volatile, live, recovered>>
prioVars == <<levels, pushed, popAt, reaching, scanAt, claim, retries, since>>
partVars == <<part, distVars, logVars, prioVars>>

PartsInit ==
    /\ part \in {"nodes", "log", "levels", "program"}
    /\ Dist!DistInit /\ Log!LogInit /\ Prio!PrioInit

InNodes == part = "nodes" /\ UNCHANGED <<part, logVars, prioVars>>
InLog == part = "log" /\ UNCHANGED <<part, distVars, prioVars>>
InLevels == part = "levels" /\ UNCHANGED <<part, distVars, logVars>>

PartsNext ==
    \/ InNodes /\ Dist!DistNext
    \/ InLog /\ Log!LogNext
    \/ InLevels /\ Prio!PrioNext

PartsSpec == PartsInit /\ [][PartsNext]_partVars

-----------------------------------------------------------------------------
\* distributed.rs 20-25: see Distributed.ImplementsPool.
ImplementsPool == Dist!ImplementsPool

\* distributed.rs 177-193, 231: a node that waits is owed one answer.
OneAnswerOwed == Dist!OneAnswerOwed

\* persistent.rs 29-32: see Persistent.ImplementsDurable.
ImplementsDurable == Log!ImplementsDurable

\* priority.rs 75-83: see Priority.PopsHighest.
PopsHighest == [][part = "levels" => Prio!PopsHighest]_partVars

\* priority.rs 101-118: see Priority.StealsHighest.
StealsHighest == [][part = "levels" => Prio!StealsHighest]_partVars
==============================================================================
