------------------------------ MODULE Idempotent ------------------------------
(***************************************************************************)
(* The queue with multiplicity of src/src/idempotent.rs: an array of cells *)
(* that only the owner writes, and a head that only moves up.  Consumers   *)
(* read head, read that cell, and then move head beyond it, without a race *)
(* for the task, so that several of them may get it.  Three kinds of       *)
(* thieves: "steal" (fetch_max), "exclusive" (claims the cell among the    *)
(* thieves; only where the array is fixed) and "weak" (plain loads and     *)
(* stores of head, with a private maximum).                                *)
(*                                                                         *)
(* One action is one access to memory that others write or read.  Task i   *)
(* is in cell i - 1; Null is an empty cell.  A definition marked "Fault"   *)
(* is the one after it with a plausible mistake.                           *)
(***************************************************************************)
EXTENDS Integers, Sequences, FiniteSets

CONSTANTS
    Owner,     \* the thread that holds the IdempotentWorker
    Thieves,   \* the threads with an IdempotentStealer or WeakStealer
    InitLen,   \* INITIAL_CAPACITY of a growable queue
    Capacity,  \* capacity of a bounded one
    MaxPut     \* bound of the model: how many tasks are put

Procs == Thieves \cup {Owner}
Null == 0
Kinds == {"steal", "exclusive", "weak"}

IdempotentAssumption ==
    /\ Owner \notin Thieves
    /\ InitLen \in Nat \ {0} /\ Capacity \in Nat /\ MaxPut \in Nat

VARIABLES
    bounded,   \* the array is fixed; chosen once
    kind,      \* what each thief calls; chosen once
    head,      \* index of the next task to take
    tail,      \* the owner's count of puts
    arrays,    \* the arrays allocated so far; the last is the active one
    claimed,   \* the cells a thief has claimed
    r,         \* per weak thief: the largest head it has seen
    pc,        \* where each process is in its operation
    regs,      \* what the operation has loaded
    takers,    \* history: who has got each task put so far
    lull,      \* history: the operations that saw every task delivered
    freed      \* history: the boxes that drop gave back; <<Null>> before

modeVars == <<bounded, kind>>
innerVars == <<head, arrays, claimed>>
localVars == <<pc, regs, r>>
historyVars == <<takers, lull, freed>>
vars == <<modeVars, innerVars, tail, localVars, historyVars>>

NoRegs == [head |-> 0, arr |-> 1, cell |-> Null]

WithLen(len) == [i \in 0..len-1 |-> Null]
LenOf(arr) == Cardinality(DOMAIN arr)
Active == arrays[Len(arrays)]
Live == freed = <<Null>>

Larger(a, b) == IF a > b THEN a ELSE b

Goto(p, label) == pc' = [pc EXCEPT ![p] = label]

Return(p) ==
    /\ Goto(p, "idle")
    /\ regs' = [regs EXCEPT ![p] = NoRegs]

AllDelivered == \A k \in DOMAIN takers : takers[k] # {}

\* Every thief in the middle of its call sees it if now all are delivered.
Deliver(p) ==
    /\ takers' = [takers EXCEPT ![regs[p].head + 1] = @ \cup {p}]
    /\ lull' = (IF \A k \in DOMAIN takers : takers'[k] # {}
                THEN {q \in Thieves : pc[q] # "idle"} ELSE lull) \ {p}

Init ==
    /\ bounded \in BOOLEAN
    /\ kind \in [Thieves -> Kinds]
    /\ ~bounded => \A p \in Thieves : kind[p] # "exclusive"
    /\ head = 0
    /\ tail = 0
    /\ arrays = <<WithLen(IF bounded THEN Capacity + 2 ELSE InitLen)>>
    /\ claimed = {}
    /\ r = [p \in Thieves |-> 0]
    /\ pc = [p \in Procs |-> "idle"]
    /\ regs = [p \in Procs |-> NoRegs]
    /\ takers = <<>>
    /\ lull = {}
    /\ freed = <<Null>>

-----------------------------------------------------------------------------
(* put.  A bounded queue that is full refuses, which changes nothing.      *)

PutRefused == bounded /\ tail >= Capacity

PutStarts == pc[Owner] = "idle" /\ Live /\ tail < MaxPut /\ ~PutRefused

\* The cell for the task and the empty one behind it must exist.
MustGrow == tail + 1 >= LenOf(Active)

\* Fault: the cell in use last is not copied.
CopiedShort(old) ==
    [i \in 0..2 * LenOf(old)-1 |->
        IF i < LenOf(old) - 2 THEN old[i] ELSE Null]

Copied(old) ==
    [i \in 0..2 * LenOf(old)-1 |->
        IF i \in DOMAIN old THEN old[i] ELSE Null]

\* grow: copy the cells, publish the new array, retire the old one.
PutGrow ==
    /\ PutStarts
    /\ MustGrow
    /\ arrays' = Append(arrays, Copied(Active))
    /\ Goto(Owner, "put_store")
    /\ UNCHANGED <<modeVars, head, claimed, tail, regs, r, historyVars>>

\* From here a thief can take the task.
PutStore ==
    /\ pc[Owner] = "put_store" \/ (PutStarts /\ ~MustGrow)
    /\ arrays' = [arrays EXCEPT ![Len(arrays)][tail] = tail + 1]
    /\ takers' = Append(takers, {})
    /\ Goto(Owner, "put_mark")
    /\ UNCHANGED <<modeVars, head, claimed, tail, regs, r, lull, freed>>

PutMark ==
    /\ pc[Owner] = "put_mark"
    /\ arrays' = [arrays EXCEPT ![Len(arrays)][tail + 1] = Null]
    /\ tail' = tail + 1
    /\ Return(Owner)
    /\ UNCHANGED <<modeVars, head, claimed, r, historyVars>>

Put == PutGrow \/ PutStore \/ PutMark

-----------------------------------------------------------------------------
(* take, by the owner, who alone writes tail and the cells.                *)

TakeBegins == pc[Owner] = "idle" /\ Live

\* The owner's Empty: no task at the head it read.
TakeSeesNone == TakeBegins /\ (head >= tail \/ Active[head] = Null)

TakeFindsNone ==
    /\ TakeSeesNone
    /\ UNCHANGED <<modeVars, innerVars, tail, localVars, historyVars>>

TakeRead ==
    /\ TakeBegins
    /\ head < tail
    /\ Active[head] # Null
    /\ regs' = [regs EXCEPT ![Owner].head = head, ![Owner].cell = Active[head]]
    /\ Goto(Owner, "advance")
    /\ UNCHANGED <<modeVars, innerVars, tail, r, historyVars>>

-----------------------------------------------------------------------------
(* steal, steal_exclusive, steal_weak                                      *)

IsWeak(p) == p \in Thieves /\ kind[p] = "weak"
IsExclusive(p) == p \in Thieves /\ kind[p] = "exclusive"

\* A weak thief does not go below the largest head it has seen (rmax_read).
StealLoadHead(p) ==
    /\ pc[p] = "idle" /\ Live
    /\ IF IsWeak(p)
       THEN /\ r' = [r EXCEPT ![p] = Larger(@, head)]
            /\ regs' = [regs EXCEPT ![p].head = Larger(r[p], head)]
       ELSE /\ regs' = [regs EXCEPT ![p].head = head]
            /\ UNCHANGED r
    /\ lull' = IF AllDelivered THEN lull \cup {p} ELSE lull
    /\ Goto(p, "load_array")
    /\ UNCHANGED <<modeVars, innerVars, tail, takers, freed>>

StealLoadArray(p) ==
    /\ pc[p] = "load_array"
    /\ regs' = [regs EXCEPT ![p].arr = Len(arrays)]
    /\ Goto(p, "read_cell")
    /\ UNCHANGED <<modeVars, innerVars, tail, r, historyVars>>

\* What the thief sees at its head; a head beyond the array holds no task.
CellSeen(p) ==
    LET arr == arrays[regs[p].arr]
    IN  IF regs[p].head \in DOMAIN arr THEN arr[regs[p].head] ELSE Null

StealSeesNone(p) == pc[p] = "read_cell" /\ CellSeen(p) = Null

StealFindsNone(p) ==
    /\ StealSeesNone(p)
    /\ lull' = lull \ {p}
    /\ Return(p)
    /\ UNCHANGED <<modeVars, innerVars, tail, r, takers, freed>>

StealRead(p) ==
    /\ pc[p] = "read_cell"
    /\ CellSeen(p) # Null
    /\ regs' = [regs EXCEPT ![p].cell = CellSeen(p)]
    /\ Goto(p, CASE kind[p] = "steal" -> "advance"
                 [] kind[p] = "exclusive" -> "claim"
                 [] kind[p] = "weak" -> "refresh")
    /\ UNCHANGED <<modeVars, innerVars, tail, r, historyVars>>

\* fetch_max, and the task is the caller's.
Advance(p) ==
    /\ pc[p] = "advance"
    /\ head' = Larger(head, regs[p].head + 1)
    /\ IF IsExclusive(p)
       THEN lull' = lull \ {p} /\ UNCHANGED takers
       ELSE Deliver(p)
    /\ Return(p)
    /\ UNCHANGED <<modeVars, arrays, claimed, tail, r, freed>>

\* The compare_exchange on the claim flag decides among the exclusive
\* thieves; the winner moves head later.
ClaimWon(p) ==
    /\ pc[p] = "claim"
    /\ regs[p].head \notin claimed
    /\ claimed' = claimed \cup {regs[p].head}
    /\ Deliver(p)
    /\ Goto(p, "advance")
    /\ UNCHANGED <<modeVars, head, arrays, tail, regs, r, freed>>

ClaimLost(p) ==
    /\ pc[p] = "claim"
    /\ regs[p].head \in claimed
    /\ Goto(p, "nudge")
    /\ UNCHANGED <<modeVars, innerVars, tail, regs, r, historyVars>>

\* Fault: the loser waits for the winner to move head.
NudgeNot(p) ==
    /\ pc[p] = "nudge"
    /\ lull' = lull \ {p}
    /\ Return(p)
    /\ UNCHANGED <<modeVars, innerVars, tail, r, takers, freed>>

\* The loser moves head too and reports Empty.
Nudge(p) ==
    /\ pc[p] = "nudge"
    /\ head' = Larger(head, regs[p].head + 1)
    /\ lull' = lull \ {p}
    /\ Return(p)
    /\ UNCHANGED <<modeVars, arrays, claimed, tail, r, takers, freed>>

\* rmax_write(head + 1): the private maximum is refreshed first, and where it
\* is not below the new head there is nothing to store.
WeakRefresh(p) ==
    LET seen == Larger(r[p], head)
        next == regs[p].head + 1
    IN  /\ pc[p] = "refresh"
        /\ r' = [r EXCEPT ![p] = Larger(seen, next)]
        /\ IF next > seen
           THEN Goto(p, "store") /\ UNCHANGED <<regs, takers, lull>>
           ELSE Return(p) /\ Deliver(p)
        /\ UNCHANGED <<modeVars, innerVars, tail, freed>>

\* A plain store: it may move head back over what others have written.
WeakStore(p) ==
    /\ pc[p] = "store"
    /\ head' = regs[p].head + 1
    /\ Deliver(p)
    /\ Return(p)
    /\ UNCHANGED <<modeVars, arrays, claimed, tail, r, freed>>

Steal(p) ==
    \/ StealLoadHead(p) \/ StealLoadArray(p) \/ StealFindsNone(p)
    \/ StealRead(p) \/ Advance(p) \/ ClaimWon(p) \/ ClaimLost(p)
    \/ Nudge(p) \/ WeakRefresh(p) \/ WeakStore(p)

-----------------------------------------------------------------------------
\* The boxes in the cells of an array, in the order of the cells.
TasksIn(arr) ==
    LET first[i \in 0..LenOf(arr)] ==
            IF i = 0 THEN <<>>
            ELSE IF arr[i - 1] = Null THEN first[i - 1]
            ELSE Append(first[i - 1], arr[i - 1])
    IN  first[LenOf(arr)]

\* Fault: the tasks of retired arrays are freed as well.
DropAll ==
    /\ Live
    /\ \A p \in Procs : pc[p] = "idle"
    /\ freed' = IF Len(arrays) = 1 THEN TasksIn(Active)
                ELSE TasksIn(Active) \o TasksIn(arrays[Len(arrays) - 1])
    /\ UNCHANGED <<modeVars, innerVars, tail, localVars, takers, lull>>

\* The last handle goes: the boxes of the active array are freed, and of the
\* retired arrays only the cells.
Drop ==
    /\ Live
    /\ \A p \in Procs : pc[p] = "idle"
    /\ freed' = TasksIn(Active)
    /\ UNCHANGED <<modeVars, innerVars, tail, localVars, takers, lull>>

Next == \/ Put \/ TakeFindsNone \/ TakeRead \/ Advance(Owner)
        \/ (\E p \in Thieves : Steal(p)) \/ Drop

Spec == Init /\ [][Next]_vars

-----------------------------------------------------------------------------
(* What must hold.                                                         *)

\* The processes that are served in order: everyone as long as head only
\* moves up, but beside a weak thief only weak thieves.
Ordered ==
    LET weak == {p \in Thieves : kind[p] = "weak"}
    IN  IF weak = {} THEN Procs ELSE weak

Exclusive == {p \in Thieves : kind[p] = "exclusive"}

\* A thief about to report Empty was in its call at a moment when everything
\* put had been delivered, growth or not; where take would report Empty it is
\* so now: no thief, late or weak, moves head past a task that nobody has.  The
\* loser of a claim is told Empty whatever there is.
HonestEmpty ==
    /\ \A p \in Thieves : StealSeesNone(p) => p \in lull \/ AllDelivered
    /\ TakeSeesNone => AllDelivered

\* idempotent.rs 148-149, 160-162: drop frees every task put exactly once,
\* however many arrays hold a pointer to it.
FreedOnce ==
    ~Live => /\ Len(freed) = Len(takers)
             /\ {freed[i] : i \in DOMAIN freed} = DOMAIN takers
==============================================================================
