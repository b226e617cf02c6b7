------------------------------ MODULE MCRelaxed ------------------------------
(***************************************************************************)
(* Instances of the queues with multiplicity for TLC.  Idempotent and      *)
(* Linked are two stores for one queue: they have head, the processes and  *)
(* their history in common and promise the same.  The first state says     *)
(* which store it is; the variables of the other one stay as they are.     *)
(***************************************************************************)
EXTENDS Integers, Sequences, LinkedParameters

\* MaxPut is for the list, MaxArray for the array.
CONSTANTS t1, InitLen, Capacity, MaxArray

VARIABLES store, head, tail, pc, regs, takers, freed,
          bounded, kind, arrays, claimed, r, lull,
          cells, linked, node

A == INSTANCE Idempotent WITH MaxPut <- MaxArray
L == INSTANCE Linked

\* Both stores are checked against one bound on the number of tasks.
ASSUME RelaxedAssumption == A!IdempotentAssumption /\ MaxArray <= MaxPut

Procs == Thieves \cup {Owner}
arrayVars == <<bounded, kind, arrays, claimed, r, lull>>
listVars == <<cells, linked, node>>
vars == <<store, head, tail, pc, regs, takers, freed, arrayVars, listVars>>

NoArray == /\ bounded = FALSE /\ kind = [p \in Thieves |-> "steal"]
           /\ arrays = <<>> /\ claimed = {}
           /\ r = [p \in Thieves |-> 0] /\ lull = {}
NoList == cells = <<>> /\ linked = 0 /\ node = [p \in Thieves |-> 0]

Init == \/ store = "array" /\ A!Init /\ NoList
        \/ store = "list" /\ L!Init /\ NoArray

InArray == store = "array" /\ UNCHANGED <<store, listVars>>
InList == store = "list" /\ UNCHANGED <<store, arrayVars>>

Put == (InArray /\ A!Put) \/ (InList /\ L!Put)
Steal(p) == (InArray /\ A!Steal(p)) \/ (InList /\ L!Steal(p))
Next == (InArray /\ A!Next) \/ (InList /\ L!Next)

\* An operation that has begun goes on; thief t1 is diligent, the other not.
LiveSpec == /\ Init /\ [][Next]_vars
            /\ WF_vars(Put /\ pc[Owner] # "idle")
            /\ WF_vars(Steal(t1))

-----------------------------------------------------------------------------
\* linked.rs 205-251: a walk ends at the node it looks for, see Linked.WalkInv
\* (with the types, part of the inductive invariant of RelaxedProofs).
WalkInv == store = "list" => L!TypeOK /\ L!WalkInv

Queue == INSTANCE RelaxedQueue WITH
    Takers <- Procs,
    MaxTasks <- MaxPut,
    ordered <- IF store = "array" THEN A!Ordered ELSE Procs,
    exclusive <- IF store = "array" THEN A!Exclusive ELSE {}

\* idempotent.rs 15-25, 82-84, 356-360, linked.rs 19-21: every task is
\* delivered and none is passed over; nobody gets a task twice or out of order
\* unless a weak thief is about; no two exclusive thieves get the same task.
ImplementsRelaxed == Queue!RelaxedSpec

\* Neither growth, nor a list that is still short, nor a thief that moves head
\* late or back makes a thief or the owner report Empty while a task is there:
\* see HonestEmpty in Idempotent and in Linked.
EmptyIsHonest == IF store = "array" THEN A!HonestEmpty ELSE L!HonestEmpty

\* Drop frees every task put exactly once, however many arrays hold a pointer
\* to it and however long the list is.
FreedOnce == IF store = "array" THEN A!FreedOnce ELSE L!FreedOnce

\* A thief that keeps stealing leaves no task undelivered, though others, and
\* the winner of a claim, may stall anywhere.  As finitely many tasks are put,
\* there is always a time to come at which all are delivered.
Delivered == []<>(freed # <<0>> \/ \A k \in DOMAIN takers : takers[k] # {})
==============================================================================
