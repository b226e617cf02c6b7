-------------------------------- MODULE Inline --------------------------------
(***************************************************************************)
(* The deque for small Copy values of src/src/inline.rs: the protocol of   *)
(* ChaseLev for a LIFO owner, but a value's bits are in the cell itself,   *)
(* and retired buffers are kept until the last handle goes, so a steal     *)
(* announces itself to nobody.                                             *)
(*                                                                         *)
(* Here indices have their width: they are Width-bit signed numbers that   *)
(* wrap, and every comparison is of a wrapped difference, as in the code.  *)
(* The first state is that of a deque from which Start values have already *)
(* been put and taken, so that indices may wrap within a few puts.  A      *)
(* value is the number of its put; 0 is the bits of an older one or none.  *)
(* A definition marked "Fault" is the one after it with a plausible        *)
(* mistake.                                                                *)
(***************************************************************************)
EXTENDS Integers, Sequences, FiniteSets

CONSTANTS
    Owner,         \* the thread that holds the InlineWorker
    Thieves,       \* the threads that hold an InlineStealer
    InitCap,       \* slots of the first buffer
    MinCapacity,   \* MIN_CAPACITY (16 in the code)
    ShrinkFactor,  \* SHRINK_FACTOR (3 in the code)
    Width,         \* bits of an isize
    Starts,        \* the values put and taken before
    MaxPush        \* bound of the model: how many values are put

Procs == Thieves \cup {Owner}
Indices == -2^(Width - 1)..2^(Width - 1) - 1

ASSUME InlineAssumption ==
    /\ Owner \notin Thieves
    /\ Width \in Nat \ {0} /\ Starts \subseteq Nat /\ MaxPush \in Nat
    /\ \E i, j \in 0..Width - 1 : InitCap = 2^i /\ MinCapacity = 2^j
    /\ ShrinkFactor \in Nat /\ ShrinkFactor > 1

\* What the powers of two up to 2^Width are, in a form that provers know of.
ASSUME PowersOfTwo ==
    /\ 2^0 = 1
    /\ \A i \in 0..Width - 1 : 2^(i + 1) = 2 * 2^i

VARIABLES
    top,         \* index of the oldest value; only a successful CAS moves it
    bottom,      \* index of the next put; only the owner writes it
    cachedTop,   \* the owner's private lower bound of top
    buffer,      \* the active buffer
    bufs,        \* the cells of every buffer ever allocated
    retired,     \* the retire list
    freed,       \* the buffers given back, in order
    pc,          \* where each process is in its operation
    regs,        \* what the operation has loaded
    recipients   \* history: who got each value put so far

indexVars == <<top, bottom, cachedTop>>
memoryVars == <<buffer, bufs, retired, freed>>
vars == <<indexVars, memoryVars, pc, regs, recipients>>

NoRegs == [t |-> 0, buf |-> 1, bits |-> 0]

\* wrapping_add(1), wrapping_sub: two's complement of Width bits.
Wrap(n) == ((n + 2^(Width - 1)) % 2^Width) - 2^(Width - 1)
Succ(i) == Wrap(i + 1)

\* Fault: indices are subtracted as if they never wrapped.
PlainMinus(i, j) == i - j

Minus(i, j) == Wrap(i - j)

\* A new buffer; and cells[index & mask], also of a negative index.
Alloc(cap) == [s \in 0..cap - 1 |-> 0]
CapOf(buf) == Cardinality(DOMAIN buf)
Slot(i, cap) == i % cap
CellOf(buf, i) == buf[Slot(i, CapOf(buf))]
ActiveCap == CapOf(bufs[buffer])

\* The count of values from t to b goes to the new buffer, one by one.
Resized(old, newCap, b, t) ==
    LET live(s) == {k \in 0..Minus(b, t) - 1 : Slot(Wrap(t + k), newCap) = s}
    IN  [s \in 0..newCap - 1 |->
            IF live(s) = {} THEN 0
            ELSE CellOf(old, Wrap(t + CHOOSE k \in live(s) : TRUE))]

IsFull(b, t, cap) == Minus(b, t) >= cap - 1

ShrinkWanted(size, cap) == cap > MinCapacity /\ size < cap \div ShrinkFactor

Goto(p, label) == pc' = [pc EXCEPT ![p] = label]

Return(p) ==
    /\ Goto(p, "idle")
    /\ regs' = [regs EXCEPT ![p] = NoRegs]

Deliver(k, p) == recipients' = [recipients EXCEPT ![k] = Append(@, p)]

Live == freed = <<>>

\* With two slots the cached top is refreshed by every put.
Init ==
    /\ \E s \in Starts :
         /\ top = Wrap(s)
         /\ bottom = Wrap(s)
         /\ cachedTop = IF s = 0 THEN 0 ELSE Wrap(s - 1)
    /\ buffer = 1
    /\ bufs = <<Alloc(InitCap)>>
    /\ retired = <<>>
    /\ freed = <<>>
    /\ pc = [p \in Procs |-> "idle"]
    /\ regs = [p \in Procs |-> NoRegs]
    /\ recipients = <<>>

-----------------------------------------------------------------------------
(* push and pop                                                            *)

Larger(a, b) == IF a > b THEN a ELSE b

\* Fault: a buffer is freed as soon as it is replaced.
InstallAndFree(newCap, b, t) ==
    /\ bufs' = Append(bufs, Resized(bufs[buffer], newCap, b, t))
    /\ buffer' = Len(bufs) + 1
    /\ freed' = Append(freed, buffer)
    /\ UNCHANGED retired

\* Store the resized copy in `buffer`; the old one goes on the retire list.
Install(newCap, b, t) ==
    /\ bufs' = Append(bufs, Resized(bufs[buffer], newCap, b, t))
    /\ buffer' = Len(bufs) + 1
    /\ retired' = <<buffer>> \o retired
    /\ UNCHANGED freed

PushBegin ==
    /\ pc[Owner] = "idle" /\ Live
    /\ Len(recipients) < MaxPush
    /\ Goto(Owner, IF IsFull(bottom, cachedTop, ActiveCap)
                   THEN "push_top" ELSE "push_write")
    /\ UNCHANGED <<indexVars, memoryVars, regs, recipients>>

PushLoadTop ==
    /\ pc[Owner] = "push_top"
    /\ cachedTop' = top
    /\ Goto(Owner, IF IsFull(bottom, top, ActiveCap)
                   THEN "push_grow" ELSE "push_write")
    /\ UNCHANGED <<top, bottom, memoryVars, regs, recipients>>

PushGrow ==
    /\ pc[Owner] = "push_grow"
    /\ Install(Larger(2 * ActiveCap, MinCapacity), bottom, cachedTop)
    /\ Goto(Owner, "push_write")
    /\ UNCHANGED <<indexVars, regs, recipients>>

PushWrite ==
    /\ pc[Owner] = "push_write"
    /\ bufs' = [bufs EXCEPT ![buffer][Slot(bottom, ActiveCap)] =
                                Len(recipients) + 1]
    /\ Goto(Owner, "push_publish")
    /\ UNCHANGED <<indexVars, buffer, retired, freed, regs, recipients>>

PushPublish ==
    /\ pc[Owner] = "push_publish"
    /\ bottom' = Succ(bottom)
    /\ recipients' = Append(recipients, <<>>)
    /\ Return(Owner)
    /\ UNCHANGED <<top, cachedTop, memoryVars>>

Push == PushBegin \/ PushLoadTop \/ PushGrow \/ PushWrite \/ PushPublish

PopBegin ==
    /\ pc[Owner] = "idle" /\ Live
    /\ bottom' = Wrap(bottom - 1)
    /\ Goto(Owner, "pop_top")
    /\ UNCHANGED <<top, cachedTop, memoryVars, regs, recipients>>

PopFindEmpty ==
    /\ pc[Owner] = "pop_top"
    /\ Minus(bottom, top) < 0
    /\ regs' = [regs EXCEPT ![Owner].t = top]
    /\ Goto(Owner, "pop_empty")
    /\ UNCHANGED <<indexVars, memoryVars, recipients>>

PopRestoreEmpty ==
    /\ pc[Owner] = "pop_empty"
    /\ bottom' = regs[Owner].t
    /\ Return(Owner)
    /\ UNCHANGED <<top, cachedTop, memoryVars, recipients>>

\* More than one value; the buffer is made smaller before pop returns.
PopTake ==
    /\ pc[Owner] = "pop_top"
    /\ Minus(bottom, top) > 0
    /\ Deliver(CellOf(bufs[buffer], bottom), Owner)
    /\ IF ShrinkWanted(Minus(bottom, top), ActiveCap)
       THEN /\ regs' = [regs EXCEPT ![Owner].t = top]
            /\ Goto(Owner, "pop_shrink")
       ELSE Return(Owner)
    /\ UNCHANGED <<indexVars, memoryVars>>

PopShrink ==
    /\ pc[Owner] = "pop_shrink"
    /\ Install(Larger(ActiveCap \div 2, MinCapacity), bottom, regs[Owner].t)
    /\ Return(Owner)
    /\ UNCHANGED <<indexVars, recipients>>

\* The last value, for which the owner must race the thieves.
PopFindLast ==
    /\ pc[Owner] = "pop_top"
    /\ bottom = top
    /\ regs' = [regs EXCEPT ![Owner].t = top,
                            ![Owner].bits = CellOf(bufs[buffer], bottom)]
    /\ Goto(Owner, "pop_cas")
    /\ UNCHANGED <<indexVars, memoryVars, recipients>>

PopCas ==
    /\ pc[Owner] = "pop_cas"
    /\ IF top = regs[Owner].t
       THEN top' = Succ(top) /\ Deliver(regs[Owner].bits, Owner)
       ELSE UNCHANGED <<top, recipients>>
    /\ Goto(Owner, "pop_restore")
    /\ UNCHANGED <<bottom, cachedTop, memoryVars, regs>>

\* Fault: bottom is not put back above the value that is gone.
PopRestoreLastShort ==
    /\ pc[Owner] = "pop_restore"
    /\ bottom' = regs[Owner].t
    /\ Return(Owner)
    /\ UNCHANGED <<top, cachedTop, memoryVars, recipients>>

PopRestoreLast ==
    /\ pc[Owner] = "pop_restore"
    /\ bottom' = Succ(regs[Owner].t)
    /\ Return(Owner)
    /\ UNCHANGED <<top, cachedTop, memoryVars, recipients>>

Pop == \/ PopBegin \/ PopFindEmpty \/ PopRestoreEmpty \/ PopTake \/ PopShrink
       \/ PopFindLast \/ PopCas \/ PopRestoreLast

-----------------------------------------------------------------------------
(* steal                                                                   *)

StealLoadTop(p) ==
    /\ pc[p] = "idle" /\ Live
    /\ regs' = [regs EXCEPT ![p].t = top]
    /\ Goto(p, "steal_bottom")
    /\ UNCHANGED <<indexVars, memoryVars, recipients>>

StealFindEmpty(p) ==
    /\ pc[p] = "steal_bottom"
    /\ Minus(bottom, regs[p].t) <= 0
    /\ Return(p)
    /\ UNCHANGED <<indexVars, memoryVars, recipients>>

StealFindValue(p) ==
    /\ pc[p] = "steal_bottom"
    /\ Minus(bottom, regs[p].t) > 0
    /\ Goto(p, "steal_buffer")
    /\ UNCHANGED <<indexVars, memoryVars, regs, recipients>>

StealLoadBuffer(p) ==
    /\ pc[p] = "steal_buffer"
    /\ regs' = [regs EXCEPT ![p].buf = buffer]
    /\ Goto(p, "steal_read")
    /\ UNCHANGED <<indexVars, memoryVars, recipients>>

StealRead(p) ==
    /\ pc[p] = "steal_read"
    /\ regs' = [regs EXCEPT ![p].bits = CellOf(bufs[regs[p].buf], regs[p].t)]
    /\ Goto(p, "steal_cas")
    /\ UNCHANGED <<indexVars, memoryVars, recipients>>

\* Success, or Retry if someone else was faster.
StealCas(p) ==
    /\ pc[p] = "steal_cas"
    /\ IF top = regs[p].t
       THEN top' = Succ(top) /\ Deliver(regs[p].bits, p)
       ELSE UNCHANGED <<top, recipients>>
    /\ Return(p)
    /\ UNCHANGED <<bottom, cachedTop, memoryVars>>

Steal(p) == \/ StealLoadTop(p) \/ StealFindEmpty(p) \/ StealFindValue(p)
            \/ StealLoadBuffer(p) \/ StealRead(p) \/ StealCas(p)

-----------------------------------------------------------------------------
\* The last handle goes: the active buffer is freed and then the retired
\* ones; values need no drop.
Drop ==
    /\ Live
    /\ \A p \in Procs : pc[p] = "idle"
    /\ freed' = <<buffer>> \o retired
    /\ UNCHANGED <<indexVars, buffer, bufs, retired, pc, regs, recipients>>

Next == Push \/ Pop \/ (\E p \in Thieves : Steal(p)) \/ Drop

Spec == Init /\ [][Next]_vars

-----------------------------------------------------------------------------
(* What must hold.                                                         *)

\* What bottom counts for until the owner's pop is decided.
EffectiveBottom ==
    IF pc[Owner] \in {"pop_top", "pop_empty", "pop_cas", "pop_restore"}
    THEN Succ(bottom) ELSE bottom

\* The values in the deque, oldest first.
Items == [i \in 1..Minus(EffectiveBottom, top) |->
             CellOf(bufs[buffer], Wrap(top + i - 1))]

\* The queue that InlineWorker and InlineStealer promise: see TaskDeque.
Deque == INSTANCE TaskDeque WITH items <- Items, closed <- FALSE, Fifo <- FALSE

\* inline.rs 5-17: also where indices wrap, and with no counter of thieves in
\* flight, each value goes to one process, from the front or to the owner from
\* the back, whatever resizing and racing goes on.
ImplementsDeque == Deque!Spec

\* inline.rs 121-127: no buffer is freed that someone may still read, and the
\* drop frees every buffer once.
BuffersKept ==
    /\ ~Live => /\ \A p \in Procs : pc[p] = "idle"
                /\ Len(freed) = Len(bufs)
                /\ {freed[i] : i \in DOMAIN freed} = DOMAIN bufs

\* A thief that keeps calling steal gets every value that nobody else gets,
\* while others may stall.
Drained == \A k \in 1..MaxPush :
    k \in DOMAIN recipients ~>
        (k \in DOMAIN recipients /\ recipients[k] # <<>>) \/ ~Live

\* An operation that has begun goes on, and thief p keeps trying.
Fairness(p) ==
    /\ WF_vars(Push /\ pc[Owner] # "idle")
    /\ WF_vars(Pop /\ pc[Owner] # "idle")
    /\ WF_vars(Steal(p))
==============================================================================
