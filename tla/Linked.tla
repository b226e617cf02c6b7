-------------------------------- MODULE Linked --------------------------------
(***************************************************************************)
(* The queue with multiplicity of src/src/linked.rs: as Idempotent with    *)
(* plain steals, but the cells are in a list of nodes, and the owner tells *)
(* thieves how far it has written (tail) before it links the next node.  A *)
(* thief walks the list from the node it was at last.                      *)
(*                                                                         *)
(* Task i is in cell i - 1.  A node is its place in the list and next is   *)
(* only ever set once, so linked, the last place, stands for all next      *)
(* pointers; the owner appends to the last node.  A definition marked      *)
(* "Fault" is the one after it with a plausible mistake.                   *)
(***************************************************************************)
EXTENDS Integers, Sequences, LinkedParameters

Procs == Thieves \cup {Owner}
Null == 0
NoTask == 0

VARIABLES
    head,     \* index of the next task to take
    tail,     \* Inner.tail; but for the store of it, the owner's own count
    cells,    \* per index: the box, over all nodes
    linked,   \* the last node in the list
    node,     \* per thief: cur_node, with cur_base = node * NodeSize
    pc,       \* where each process is in its operation
    regs,     \* what the operation has loaded
    takers,   \* history: who has got each task put so far
    freed     \* history: the boxes that drop gave back; <<Null>> before

innerVars == <<head, tail, cells, linked>>
vars == <<innerVars, node, pc, regs, takers, freed>>

NoRegs == [head |-> 0, cell |-> NoTask]

Live == freed = <<Null>>
Larger(a, b) == IF a > b THEN a ELSE b

\* Where node n begins, and the node an index belongs to.
Base(n) == n * NodeSize
IndicesOf(n) == Base(n)..Base(n) + NodeSize - 1

Goto(p, label) == pc' = [pc EXCEPT ![p] = label]

Return(p) ==
    /\ Goto(p, "idle")
    /\ regs' = [regs EXCEPT ![p] = NoRegs]

Init ==
    /\ head = 0
    /\ tail = 0
    /\ cells = [i \in IndicesOf(0) |-> NoTask]
    /\ linked = 0
    /\ node = [p \in Thieves |-> 0]
    /\ pc = [p \in Procs |-> "idle"]
    /\ regs = [p \in Procs |-> NoRegs]
    /\ takers = <<>>
    /\ freed = <<Null>>

-----------------------------------------------------------------------------
(* put: the cell, the tail, and after the last cell of a node the link.    *)

PutCell ==
    /\ pc[Owner] = "idle" /\ Live
    /\ tail < MaxPut
    /\ cells' = [cells EXCEPT ![tail] = tail + 1]
    /\ Goto(Owner, "put_tail")
    /\ UNCHANGED <<head, tail, linked, node, regs, takers, freed>>

\* Fault: the next node is linked only when a task is there for it.
PutTailUnlinked ==
    /\ pc[Owner] = "put_tail"
    /\ tail' = tail + 1
    /\ takers' = Append(takers, {})
    /\ cells' = [i \in 0..Base(linked + 2) |->
                    IF i \in DOMAIN cells THEN cells[i] ELSE NoTask]
    /\ Goto(Owner, IF tail - Base(linked) > NodeSize - 1
                   THEN "put_link" ELSE "idle")
    /\ UNCHANGED <<head, linked, node, regs, freed>>

\* The task is there for thieves, the next node not yet.
PutTail ==
    /\ pc[Owner] = "put_tail"
    /\ tail' = tail + 1
    /\ takers' = Append(takers, {})
    /\ Goto(Owner, IF tail + 1 = Base(linked) + NodeSize
                   THEN "put_link" ELSE "idle")
    /\ UNCHANGED <<head, cells, linked, node, regs, freed>>

PutLink ==
    /\ pc[Owner] = "put_link"
    /\ linked' = linked + 1
    /\ cells' = [i \in DOMAIN cells \cup IndicesOf(linked + 1) |->
                    IF i \in DOMAIN cells THEN cells[i] ELSE NoTask]
    /\ Goto(Owner, "idle")
    /\ UNCHANGED <<head, tail, node, regs, takers, freed>>

Put == PutCell \/ PutTail \/ PutLink

-----------------------------------------------------------------------------
(* take: load_slot walks the list, all of it the owner's own writes.       *)

TakeSeesNone ==
    /\ pc[Owner] = "idle" /\ Live
    /\ head >= tail \/ cells[head] = NoTask

TakeFindsNone == TakeSeesNone /\ UNCHANGED vars

TakeRead ==
    /\ pc[Owner] = "idle" /\ Live
    /\ head < tail
    /\ cells[head] # NoTask
    /\ regs' = [regs EXCEPT ![Owner] = [head |-> head, cell |-> cells[head]]]
    /\ Goto(Owner, "advance")
    /\ UNCHANGED <<innerVars, node, takers, freed>>

-----------------------------------------------------------------------------
(* steal                                                                   *)

\* A clone of a thief's handle takes its place: it starts at the first node.
Clone(p) ==
    /\ pc[p] = "idle" /\ Live
    /\ node' = [node EXCEPT ![p] = 0]
    /\ UNCHANGED <<innerVars, pc, regs, takers, freed>>

StealLoadHead(p) ==
    /\ pc[p] = "idle" /\ Live
    /\ regs' = [regs EXCEPT ![p].head = head]
    /\ Goto(p, "load_tail")
    /\ UNCHANGED <<innerVars, node, takers, freed>>

\* head is compared with a tail that may have moved on since.
StealLoadTail(p) ==
    /\ pc[p] = "load_tail"
    /\ regs[p].head < tail
    /\ Goto(p, "walk")
    /\ UNCHANGED <<innerVars, node, regs, takers, freed>>

AtItsNode(p) == regs[p].head < Base(node[p]) + NodeSize

\* The three ways to Empty: nothing put, no next node, no box in the cell.
StealSeesNone(p) ==
    \/ pc[p] = "load_tail" /\ regs[p].head >= tail
    \/ pc[p] = "walk" /\ ~AtItsNode(p) /\ node[p] = linked
    \/ pc[p] = "walk" /\ AtItsNode(p) /\ cells[regs[p].head] = NoTask

StealFindsNone(p) ==
    /\ StealSeesNone(p)
    /\ Return(p)
    /\ UNCHANGED <<innerVars, node, takers, freed>>

StealWalk(p) ==
    /\ pc[p] = "walk"
    /\ ~AtItsNode(p)
    /\ node[p] < linked
    /\ node' = [node EXCEPT ![p] = @ + 1]
    /\ UNCHANGED <<innerVars, pc, regs, takers, freed>>

StealRead(p) ==
    /\ pc[p] = "walk"
    /\ AtItsNode(p)
    /\ cells[regs[p].head] # NoTask
    /\ regs' = [regs EXCEPT ![p].cell = cells[regs[p].head]]
    /\ Goto(p, "advance")
    /\ UNCHANGED <<innerVars, node, takers, freed>>

\* Fault: head is stored as if it could not have moved.
AdvanceStore(p) ==
    /\ pc[p] = "advance"
    /\ head' = regs[p].head + 1
    /\ takers' = [takers EXCEPT ![regs[p].cell] = @ \cup {p}]
    /\ Return(p)
    /\ UNCHANGED <<tail, cells, linked, node, freed>>

\* fetch_max, and the caller has a clone of the task.
Advance(p) ==
    /\ pc[p] = "advance"
    /\ head' = Larger(head, regs[p].head + 1)
    /\ takers' = [takers EXCEPT ![regs[p].cell] = @ \cup {p}]
    /\ Return(p)
    /\ UNCHANGED <<tail, cells, linked, node, freed>>

Steal(p) == \/ StealLoadHead(p) \/ StealLoadTail(p) \/ StealFindsNone(p)
            \/ StealWalk(p) \/ StealRead(p) \/ Advance(p)

-----------------------------------------------------------------------------
\* The boxes in the first n cells, node after node: in the order of indices.
TasksIn(n) ==
    LET first[i \in 0..n] ==
            IF i = 0 THEN <<>>
            ELSE IF cells[i - 1] = NoTask THEN first[i - 1]
            ELSE Append(first[i - 1], cells[i - 1])
    IN  first[n]

\* The last handle goes: the list is walked to its end.
Drop ==
    /\ Live
    /\ \A p \in Procs : pc[p] = "idle"
    /\ freed' = TasksIn(Base(linked) + NodeSize)
    /\ UNCHANGED <<innerVars, node, pc, regs, takers>>

Next == \/ Put \/ TakeFindsNone \/ TakeRead \/ Advance(Owner)
        \/ (\E p \in Thieves : Clone(p) \/ Steal(p)) \/ Drop

Spec == Init /\ [][Next]_vars

-----------------------------------------------------------------------------
(* What must hold.                                                         *)

AllDelivered == \A k \in DOMAIN takers : takers[k] # {}

\* Every variable keeps its type: in particular a thief's node is in the list.
TypeOK ==
    /\ head \in Nat /\ tail \in Nat
    /\ linked \in Nat
    /\ cells \in [0..Base(linked) + NodeSize - 1 -> Nat]
    /\ node \in [Thieves -> 0..linked]
    /\ pc \in [Procs -> {"idle", "put_tail", "put_link", "load_tail", "walk",
                         "advance"}]
    /\ regs \in [Procs -> [head : Nat, cell : Nat]]

\* linked.rs 205-251: the list is as long as the tail needs it to be, whoever
\* walks it finds the node it looks for, and no thief is beyond its head.
WalkInv ==
    /\ head <= tail
    /\ IF pc[Owner] = "put_link"
       THEN tail = Base(linked) + NodeSize
       ELSE tail \in IndicesOf(linked)
    /\ \A p \in Thieves :
         /\ Base(node[p]) <= head
         /\ pc[p] \in {"load_tail", "walk"} =>
               regs[p].head <= head /\ Base(node[p]) <= regs[p].head
         /\ pc[p] = "walk" => regs[p].head < tail
    /\ \A p \in Procs : pc[p] = "advance" => regs[p].head < tail

\* Where a thief, or take, would report Empty everything put is delivered: no
\* thief is turned away because the list ends before its index, and no late one
\* moves head past a task that nobody has.
HonestEmpty ==
    /\ \A p \in Thieves : StealSeesNone(p) => AllDelivered
    /\ TakeSeesNone => AllDelivered

\* linked.rs 76-77: the walk of drop frees every task put exactly once.
FreedOnce == ~Live => freed = [k \in DOMAIN takers |-> k]
==============================================================================
