------------------------------ MODULE MCChaseLev ------------------------------
(* Instances of ChaseLev for TLC.                                          *)
EXTENDS ChaseLevRefinement

CONSTANTS t1

\* Thief t1 is diligent, the others are not.
LiveSpec == Spec /\ Fairness(t1)
==============================================================================
