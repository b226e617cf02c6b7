------------------------------ MODULE TaskDeque ------------------------------
(***************************************************************************)
(* What every exactly-once deque of this crate promises its user (README   *)
(* "Guarantees", lib.rs 1-60): a sequence of tasks, to which the owner     *)
(* appends, from whose front the thieves take and from one end of which    *)
(* the owner takes (the back when LIFO, the front when FIFO).  Each of     *)
(* these is one atomic step, whatever the implementation interleaves.      *)
(*                                                                         *)
(* Tasks are numbered in the order in which they are put.  recipients[k]   *)
(* is the sequence of processes that task k was handed to, so that "handed *)
(* out twice" is expressible, although no step below can bring it about.   *)
(***************************************************************************)
EXTENDS Naturals, Sequences, SequencesExt

CONSTANTS
    Owner,      \* the process that holds the Worker handle
    Thieves,    \* the processes that hold a Stealer handle
    Fifo        \* whether the owner takes the oldest task (Worker::new_fifo)

Procs == Thieves \cup {Owner}

VARIABLES
    items,       \* the tasks in the deque, oldest first
    recipients,  \* who got each of the tasks put so far
    closed       \* the last handle is gone

vars == <<items, recipients, closed>>

Init ==
    /\ items = <<>>
    /\ recipients = <<>>
    /\ closed = FALSE

Put ==
    /\ ~closed
    /\ items' = Append(items, Len(recipients) + 1)
    /\ recipients' = Append(recipients, <<>>)
    /\ UNCHANGED closed

HandOver(k, p) == recipients' = [recipients EXCEPT ![k] = Append(@, p)]

TakeFirst(p) ==
    /\ ~closed
    /\ items # <<>>
    /\ HandOver(Head(items), p)
    /\ items' = Tail(items)
    /\ UNCHANGED closed

TakeLast(p) ==
    /\ ~closed
    /\ items # <<>>
    /\ HandOver(Last(items), p)
    /\ items' = Front(items)
    /\ UNCHANGED closed

OwnerTake == IF Fifo THEN TakeFirst(Owner) ELSE TakeLast(Owner)

\* The last handle's holder destroys the tasks that nobody took.
Close(p) ==
    /\ ~closed
    /\ recipients' = [k \in DOMAIN recipients |->
                        IF Contains(items, k) THEN Append(recipients[k], p)
                                              ELSE recipients[k]]
    /\ items' = <<>>
    /\ closed' = TRUE

Next ==
    \/ Put
    \/ OwnerTake
    \/ \E p \in Thieves : TakeFirst(p)
    \/ \E p \in Procs : Close(p)

Spec == Init /\ [][Next]_vars
==============================================================================
