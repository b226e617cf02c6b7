------------------------------- MODULE MCInline -------------------------------
(* Instances of Inline for TLC.                                            *)
EXTENDS Inline

CONSTANTS t1

\* Thief t1 is diligent, the others are not.
LiveSpec == Spec /\ Fairness(t1)
==============================================================================
