------------------------------- MODULE MCParts -------------------------------
(***************************************************************************)
(* Instances of four small parts of the crate for TLC: those of Parts, and *)
(* the race detector.                                                      *)
(***************************************************************************)
EXTENDS Parts, Race

ReadOf(loc) == [location |-> loc, is_write |-> FALSE]
WriteOf(loc) == [location |-> loc, is_write |-> TRUE]

\* Two locations, and strands with two accesses to one or to both.
MCAccessLists == {<<WriteOf(0), ReadOf(0)>>, <<ReadOf(0), WriteOf(1)>>}

vars == <<partVars, dagVars>>

Init == PartsInit /\ DagInit

Next == \/ PartsNext /\ UNCHANGED dagVars
        \/ part = "program" /\ DagNext /\ UNCHANGED partVars

\* Every node goes on with its loop, and every task ends or panics.
LiveSpec == /\ Init /\ [][Next]_vars
            /\ \A n \in Dist!Nodes :
                  WF_vars(InNodes /\ Dist!Step(n) /\ UNCHANGED dagVars)

-----------------------------------------------------------------------------
\* distributed.rs 71-74: all nodes return, unless a task panics or a node is
\* kept at its mailbox for ever (see Distributed.AllLeave).
Terminates == part = "nodes" => Dist!AllLeave
==============================================================================
