--------------------------- MODULE LinkedParameters ---------------------------
(***************************************************************************)
(* The parameters of Linked and what is assumed of them.                   *)
(***************************************************************************)
EXTENDS Naturals

CONSTANTS
    Owner,     \* the thread that holds the LinkedWorker
    Thieves,   \* the threads that hold a LinkedStealer
    NodeSize,  \* cells of a node
    MaxPut     \* bound of the model: how many tasks are put

ASSUME LinkedAssumption ==
    /\ Owner \notin Thieves
    /\ NodeSize \in Nat \ {0}
    /\ MaxPut \in Nat
==============================================================================
