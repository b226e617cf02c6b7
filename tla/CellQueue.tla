------------------------------ MODULE CellQueue ------------------------------
(***************************************************************************)
(* A row of cells that many producers append to and one consumer empties   *)
(* from the front: a cell is claimed in one step and filled in another,    *)
(* and a cell that is not filled yet holds up those behind it.  This is    *)
(* how a Jiffy queue (src/src/jiffy.rs) looks from outside; the inboxes of *)
(* Scheduler are such rows, and Jiffy is shown to be one.                  *)
(***************************************************************************)
EXTENDS Naturals, Sequences

Claimed(cells, task) == Append(cells, [task |-> task, filled |-> FALSE])

Filled(cells, task) ==
    [i \in DOMAIN cells |-> IF cells[i].task = task
                            THEN [task |-> task, filled |-> TRUE]
                            ELSE cells[i]]

\* The consumer can take something.
Ready(cells) == cells # <<>> /\ Head(cells).filled
==============================================================================
