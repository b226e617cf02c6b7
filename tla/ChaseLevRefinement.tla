-------------------------- MODULE ChaseLevRefinement --------------------------
(***************************************************************************)
(* The Chase-Lev deque implements the atomic deque of TaskDeque.  A push   *)
(* takes effect when it stores bottom, a steal when its CAS succeeds, a    *)
(* pop when it loads top and finds more than one task, or else when its    *)
(* CAS succeeds.                                                           *)
(***************************************************************************)
EXTENDS ChaseLev

Deque == INSTANCE TaskDeque WITH items  <- IF dropped THEN <<>> ELSE Items,
                                 closed <- dropped

\* Every behaviour of the code is one of the atomic deque: tasks leave from
\* the front, or for a LIFO owner from the back, each to one process.
ImplementsDeque == Deque!Spec

\* A thief that keeps calling steal drains the deque: every task it is not
\* beaten to is handed out, although other thieves may stall anywhere (also
\* inside the critical section) and the owner may stop between operations.
Drained == \A k \in 1..MaxPush :
    k \in DOMAIN recipients ~>
        k \in DOMAIN recipients /\ recipients[k] # <<>>
==============================================================================
