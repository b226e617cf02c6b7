----------------------------- MODULE RelaxedQueue -----------------------------
(***************************************************************************)
(* What a queue with multiplicity promises (src/src/idempotent.rs 15-38,   *)
(* src/src/linked.rs 19-21): every task is delivered, in the order of the  *)
(* puts, but perhaps to several processes.  No task is passed over before  *)
(* somebody has it.                                                        *)
(***************************************************************************)
EXTENDS Naturals, Sequences

CONSTANTS
    Takers,   \* the processes that take tasks
    MaxTasks  \* how many tasks there can be

VARIABLES
    takers,     \* for each task put so far, who has got it
    ordered,    \* processes that never get a task again, or an older one
    exclusive   \* processes that never get a task another of them has got

relaxedVars == <<takers, ordered, exclusive>>

RelaxedInit ==
    /\ takers = <<>>
    /\ ordered \subseteq Takers
    /\ exclusive \subseteq Takers

PutTask ==
    /\ Len(takers) < MaxTasks
    /\ takers' = Append(takers, {})
    /\ UNCHANGED <<ordered, exclusive>>

TakeTask(p, k) ==
    /\ k \in DOMAIN takers
    /\ \A j \in 1..k-1 : takers[j] # {}
    /\ p \in ordered => \A j \in k..Len(takers) : p \notin takers[j]
    /\ p \in exclusive => takers[k] \cap exclusive = {}
    /\ takers' = [takers EXCEPT ![k] = @ \cup {p}]
    /\ UNCHANGED <<ordered, exclusive>>

RelaxedNext == PutTask \/ \E p \in Takers, k \in 1..MaxTasks : TakeTask(p, k)

RelaxedSpec == RelaxedInit /\ [][RelaxedNext]_relaxedVars
==============================================================================
