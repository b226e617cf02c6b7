------------------------------- MODULE ChaseLev -------------------------------
(***************************************************************************)
(* The Chase-Lev work-stealing deque of src/src/lib.rs: one owner (Worker) *)
(* that pushes and pops, any number of thieves (Stealer), a ring buffer    *)
(* that the owner grows and shrinks, and the in_flight counter that tells  *)
(* the owner when the buffers it retired may be freed.                     *)
(*                                                                         *)
(* One action is one access to shared memory together with the private     *)
(* computation around it, so every interleaving of the owner and the       *)
(* thieves is a behaviour.  Accesses are sequentially consistent.          *)
(* Indices are integers: the code's wrapping isize arithmetic only ever    *)
(* compares differences.  A task's box is the number of its push; Null is  *)
(* the null pointer.  A buffer is known by the order of its allocation.    *)
(*                                                                         *)
(* A definition marked "Fault" is not part of the model: it is the         *)
(* definition after it with a plausible mistake, which a property of this  *)
(* module must be able to tell from the real one.                          *)
(***************************************************************************)
EXTENDS Integers, Sequences, FiniteSets

CONSTANTS
    Owner,         \* the thread that holds the Worker
    Thieves,       \* the threads that hold a Stealer
    Fifo,          \* Worker::new_fifo: the owner pops from the top
    InitCap,       \* slots of the first buffer (2^log_initial_cap)
    MinCapacity,   \* MIN_CAPACITY (16 in the code)
    ShrinkFactor,  \* SHRINK_FACTOR (3 in the code)
    MaxPush        \* bound of the model: how many tasks are pushed

Procs == Thieves \cup {Owner}

ASSUME ProcsAssumption ==
    /\ IsFiniteSet(Thieves)
    /\ Owner \notin Thieves

ASSUME ParameterAssumption ==
    /\ Fifo \in BOOLEAN
    /\ InitCap \in Nat \ {0}
    /\ MinCapacity \in Nat \ {0}
    /\ ShrinkFactor \in Nat \ {0, 1, 2}
    /\ MaxPush \in Nat

\* A capacity is a power of two, which is why the code may index with a mask.
ASSUME PowerOfTwoAssumption ==
    \E i, j \in 0..30 : InitCap = 2^i /\ MinCapacity = 2^j

VARIABLES
    top,         \* index of the oldest task; only a successful CAS moves it
    bottom,      \* index of the next push; only the owner writes it
    buffer,      \* the active buffer
    bufs,        \* the cells of every buffer ever allocated
    retired,     \* buffers on the retire list
    freed,       \* buffers given back to the allocator
    inFlight,    \* thieves between fetch_add and fetch_sub in steal_from
    cachedTop,   \* the owner's private lower bound of top
    pc,          \* where each process is in the operation it performs
    regs,        \* what its operation has loaded: top, a buffer, a box
    recipients,  \* history: who took each published task, in order
    dropped      \* the last handle has been dropped

indexVars == <<top, bottom, cachedTop>>
memoryVars == <<buffer, bufs, retired, freed>>
historyVars == <<recipients, dropped>>
vars == <<indexVars, memoryVars, inFlight, pc, regs, historyVars>>

-----------------------------------------------------------------------------
Null == 0
NoRegs == [t |-> 0, buf |-> 0, box |-> Null]
Buffers == 1..Len(bufs)

PushPc == {"push_top", "push_grow", "push_reclaim", "push_free",
           "push_write", "push_publish"}
PopPc == {"pop_top", "pop_empty", "pop_shrink", "pop_reclaim", "pop_free",
          "pop_done", "pop_cas", "pop_restore"}
StealPc == {"steal_bottom", "steal_enter", "steal_buffer", "steal_read",
            "steal_leave", "steal_cas", "steal_retry"}

\* A buffer is the sequence of its cells; its length is its capacity.
Alloc(cap) == [s \in 1..cap |-> Null]

\* The cell of a logical index: cells[index & (cap - 1)].
Slot(i, cap) == (i % cap) + 1

CellOf(buf, i) == buf[Slot(i, Len(buf))]

Resized(old, newCap, b, t) ==
    LET live(s) == {i \in t..b-1 : Slot(i, newCap) = s}
    IN  [s \in 1..newCap |-> IF live(s) = {} THEN Null
                             ELSE CellOf(old, CHOOSE i \in live(s) : TRUE)]

\* Fault: the ring is allowed to overrun itself.
IsFullOneLate(b, t, cap) == b - t > cap

\* push: one cell stays unused.
IsFull(b, t, cap) == b - t >= cap - 1

\* Fault: shrink whenever the tasks do not fill the buffer.
ShrinkWantedEagerly(size, cap) == cap > MinCapacity /\ size < cap

\* perhaps_shrink, for the size that is left.
ShrinkWanted(size, cap) == cap > MinCapacity /\ size < cap \div ShrinkFactor

ShrunkCap(cap) == IF cap \div 2 > MinCapacity THEN cap \div 2 ELSE MinCapacity

ActiveCap == Len(bufs[buffer])

Goto(p, label) == pc' = [pc EXCEPT ![p] = label]

Return(p) ==
    /\ Goto(p, "idle")
    /\ regs' = [regs EXCEPT ![p] = NoRegs]

\* Process p becomes the owner of the box: it will unbox, and so free, it.
TakeBox(p, k) == recipients' = [recipients EXCEPT ![k] = Append(@, p)]

-----------------------------------------------------------------------------
Init ==
    /\ top = 0
    /\ bottom = 0
    /\ cachedTop = 0
    /\ buffer = 1
    /\ bufs = <<Alloc(InitCap)>>
    /\ retired = {}
    /\ freed = {}
    /\ inFlight = 0
    /\ pc = [p \in Procs |-> "idle"]
    /\ regs = [p \in Procs |-> NoRegs]
    /\ recipients = <<>>
    /\ dropped = FALSE

-----------------------------------------------------------------------------
(* Resizing and reclamation, which push and pop share.                     *)

\* Store the resized copy in `buffer` and put the old one on the retire list.
Install(newCap, next) ==
    /\ bufs' = Append(bufs, Resized(bufs[buffer], newCap, bottom,
                                    regs[Owner].t))
    /\ buffer' = Len(bufs) + 1
    /\ retired' = retired \cup {buffer}
    /\ Goto(Owner, next)
    /\ UNCHANGED <<indexVars, freed, inFlight, regs, historyVars>>

\* Fault: in_flight is not looked at.
LoadInFlightUnheeded(free, next) ==
    /\ Goto(Owner, free)
    /\ UNCHANGED <<indexVars, memoryVars, inFlight, regs, historyVars>>

\* try_reclaim: give up if a thief is inside its critical section.
LoadInFlight(free, next) ==
    /\ Goto(Owner, IF inFlight = 0 THEN free ELSE next)
    /\ UNCHANGED <<indexVars, memoryVars, inFlight, regs, historyVars>>

\* Fault: the retire list is not emptied.
FreeRetiredAgain(next) ==
    /\ freed' = freed \cup retired
    /\ Goto(Owner, next)
    /\ UNCHANGED <<indexVars, buffer, bufs, retired, inFlight, regs,
                   historyVars>>

FreeRetired(next) ==
    /\ freed' = freed \cup retired
    /\ retired' = {}
    /\ Goto(Owner, next)
    /\ UNCHANGED <<indexVars, buffer, bufs, inFlight, regs, historyVars>>

-----------------------------------------------------------------------------
(* push                                                                    *)

\* The owner's own bottom, buffer and cached top: is the buffer maybe full?
PushBegin ==
    /\ ~dropped
    /\ pc[Owner] = "idle"
    /\ Len(recipients) < MaxPush
    /\ Goto(Owner, IF IsFull(bottom, cachedTop, ActiveCap)
                   THEN "push_top" ELSE "push_write")
    /\ UNCHANGED <<indexVars, memoryVars, inFlight, regs, historyVars>>

\* Refresh the cached top; grow if the buffer is really full.
PushLoadTop ==
    /\ pc[Owner] = "push_top"
    /\ cachedTop' = top
    /\ regs' = [regs EXCEPT ![Owner].t = top]
    /\ Goto(Owner, IF IsFull(bottom, top, ActiveCap)
                   THEN "push_grow" ELSE "push_write")
    /\ UNCHANGED <<top, bottom, memoryVars, inFlight, historyVars>>

PushGrow ==
    /\ pc[Owner] = "push_grow"
    /\ Install(2 * ActiveCap, "push_reclaim")

PushReclaim ==
    /\ pc[Owner] = "push_reclaim"
    /\ LoadInFlight("push_free", "push_write")

PushFree ==
    /\ pc[Owner] = "push_free"
    /\ FreeRetired("push_write")

PushWrite ==
    /\ pc[Owner] = "push_write"
    /\ bufs' = [bufs EXCEPT ![buffer][Slot(bottom, ActiveCap)] =
                                Len(recipients) + 1]
    /\ Goto(Owner, "push_publish")
    /\ UNCHANGED <<indexVars, buffer, retired, freed, inFlight, regs,
                   historyVars>>

\* The store of bottom is what makes the task visible to thieves.
PushPublish ==
    /\ pc[Owner] = "push_publish"
    /\ bottom' = bottom + 1
    /\ recipients' = Append(recipients, <<>>)
    /\ Return(Owner)
    /\ UNCHANGED <<top, cachedTop, memoryVars, inFlight, dropped>>

Push == \/ PushBegin \/ PushLoadTop \/ PushGrow \/ PushReclaim \/ PushFree
        \/ PushWrite \/ PushPublish

-----------------------------------------------------------------------------
(* pop, LIFO.  After PopBegin bottom is one less than what the thieves may *)
(* rely on; the owner's load of top then decides which case this is.       *)

PopBegin ==
    /\ ~dropped
    /\ ~Fifo
    /\ pc[Owner] = "idle"
    /\ bottom' = bottom - 1
    /\ Goto(Owner, "pop_top")
    /\ UNCHANGED <<top, cachedTop, memoryVars, inFlight, regs, historyVars>>

\* size < 0: the deque was empty.
PopFindEmpty ==
    /\ pc[Owner] = "pop_top"
    /\ bottom < top
    /\ regs' = [regs EXCEPT ![Owner].t = top]
    /\ Goto(Owner, "pop_empty")
    /\ UNCHANGED <<indexVars, memoryVars, inFlight, historyVars>>

PopRestoreEmpty ==
    /\ pc[Owner] = "pop_empty"
    /\ bottom' = regs[Owner].t
    /\ Return(Owner)
    /\ UNCHANGED <<top, cachedTop, memoryVars, inFlight, historyVars>>

\* Fault: the last task is taken without a race for it.
PopTakeLastToo ==
    /\ pc[Owner] = "pop_top"
    /\ bottom >= top
    /\ TakeBox(Owner, CellOf(bufs[buffer], bottom))
    /\ Return(Owner)
    /\ UNCHANGED <<indexVars, memoryVars, inFlight, dropped>>

\* size > 0: no thief can be after this task.
PopTake ==
    /\ pc[Owner] = "pop_top"
    /\ bottom > top
    /\ TakeBox(Owner, CellOf(bufs[buffer], bottom))
    /\ IF ShrinkWanted(bottom - top, ActiveCap)
       THEN /\ regs' = [regs EXCEPT ![Owner].t = top]
            /\ Goto(Owner, "pop_shrink")
       ELSE Return(Owner)
    /\ UNCHANGED <<indexVars, memoryVars, inFlight, dropped>>

PopShrink ==
    /\ pc[Owner] = "pop_shrink"
    /\ Install(ShrunkCap(ActiveCap), "pop_reclaim")

PopReclaim ==
    /\ pc[Owner] = "pop_reclaim"
    /\ LoadInFlight("pop_free", "pop_done")

PopFree ==
    /\ pc[Owner] = "pop_free"
    /\ FreeRetired("pop_done")

\* The popped value is handed to the caller once the shrink is over.
PopDone ==
    /\ pc[Owner] = "pop_done"
    /\ Return(Owner)
    /\ UNCHANGED <<indexVars, memoryVars, inFlight, historyVars>>

\* size = 0: the last task, for which the owner must race the thieves.
PopFindLast ==
    /\ pc[Owner] = "pop_top"
    /\ bottom = top
    /\ regs' = [regs EXCEPT ![Owner].t = top,
                            ![Owner].box = CellOf(bufs[buffer], bottom)]
    /\ Goto(Owner, "pop_cas")
    /\ UNCHANGED <<indexVars, memoryVars, inFlight, historyVars>>

PopCas ==
    /\ pc[Owner] = "pop_cas"
    /\ IF top = regs[Owner].t
       THEN top' = top + 1 /\ TakeBox(Owner, regs[Owner].box)
       ELSE UNCHANGED <<top, recipients>>
    /\ Goto(Owner, "pop_restore")
    /\ UNCHANGED <<bottom, cachedTop, memoryVars, inFlight, regs, dropped>>

\* Fault: bottom is not put back above the task that is gone.
PopRestoreLastShort ==
    /\ pc[Owner] = "pop_restore"
    /\ bottom' = regs[Owner].t
    /\ Return(Owner)
    /\ UNCHANGED <<top, cachedTop, memoryVars, inFlight, historyVars>>

PopRestoreLast ==
    /\ pc[Owner] = "pop_restore"
    /\ bottom' = regs[Owner].t + 1
    /\ Return(Owner)
    /\ UNCHANGED <<top, cachedTop, memoryVars, inFlight, historyVars>>

Pop == \/ PopBegin \/ PopFindEmpty \/ PopRestoreEmpty \/ PopTake \/ PopShrink
       \/ PopReclaim \/ PopFree \/ PopDone \/ PopFindLast \/ PopCas
       \/ PopRestoreLast

-----------------------------------------------------------------------------
(* steal_from, run by a thief, or by a FIFO owner as its pop, which then   *)
(* starts again instead of returning Retry.                                *)

MaySteal(p) ==
    \/ pc[p] = "idle" /\ ~dropped /\ (p \in Thieves \/ Fifo)
    \/ pc[p] = "steal_retry"

StealLoadTop(p) ==
    /\ MaySteal(p)
    /\ regs' = [regs EXCEPT ![p].t = top]
    /\ Goto(p, "steal_bottom")
    /\ UNCHANGED <<indexVars, memoryVars, inFlight, historyVars>>

\* Fault: a single task is taken for none.
StealFindEmptyOneEarly(p) ==
    /\ pc[p] = "steal_bottom"
    /\ bottom - regs[p].t <= 1
    /\ Return(p)
    /\ UNCHANGED <<indexVars, memoryVars, inFlight, historyVars>>

StealFindEmpty(p) ==
    /\ pc[p] = "steal_bottom"
    /\ bottom - regs[p].t <= 0
    /\ Return(p)
    /\ UNCHANGED <<indexVars, memoryVars, inFlight, historyVars>>

StealFindTask(p) ==
    /\ pc[p] = "steal_bottom"
    /\ bottom - regs[p].t > 0
    /\ Goto(p, "steal_enter")
    /\ UNCHANGED <<indexVars, memoryVars, inFlight, regs, historyVars>>

\* Fault: the critical section is entered unannounced.
StealEnterUncounted(p) ==
    /\ pc[p] = "steal_enter"
    /\ Goto(p, "steal_buffer")
    /\ UNCHANGED <<indexVars, memoryVars, inFlight, regs, historyVars>>

\* in_flight.fetch_add: from here the owner must not free a buffer.
StealEnter(p) ==
    /\ pc[p] = "steal_enter"
    /\ inFlight' = inFlight + 1
    /\ Goto(p, "steal_buffer")
    /\ UNCHANGED <<indexVars, memoryVars, regs, historyVars>>

StealLoadBuffer(p) ==
    /\ pc[p] = "steal_buffer"
    /\ regs' = [regs EXCEPT ![p].buf = buffer]
    /\ Goto(p, "steal_read")
    /\ UNCHANGED <<indexVars, memoryVars, inFlight, historyVars>>

StealRead(p) ==
    /\ pc[p] = "steal_read"
    /\ regs' = [regs EXCEPT ![p].box = CellOf(bufs[regs[p].buf], regs[p].t)]
    /\ Goto(p, "steal_leave")
    /\ UNCHANGED <<indexVars, memoryVars, inFlight, historyVars>>

StealLeave(p) ==
    /\ pc[p] = "steal_leave"
    /\ inFlight' = inFlight - 1
    /\ Goto(p, "steal_cas")
    /\ UNCHANGED <<indexVars, memoryVars, regs, historyVars>>

\* Fault: top is advanced by a plain store, as if nobody else could.
StealStore(p) ==
    /\ pc[p] = "steal_cas"
    /\ top' = regs[p].t + 1
    /\ TakeBox(p, regs[p].box)
    /\ Return(p)
    /\ UNCHANGED <<bottom, cachedTop, memoryVars, inFlight, dropped>>

StealCas(p) ==
    /\ pc[p] = "steal_cas"
    /\ IF top = regs[p].t
       THEN /\ top' = top + 1
            /\ TakeBox(p, regs[p].box)
            /\ Return(p)
       ELSE /\ IF p = Owner
               THEN Goto(p, "steal_retry")
                    /\ regs' = [regs EXCEPT ![p] = NoRegs]
               ELSE Return(p)
            /\ UNCHANGED <<top, recipients>>
    /\ UNCHANGED <<bottom, cachedTop, memoryVars, inFlight, dropped>>

Steal(p) == \/ StealLoadTop(p) \/ StealFindEmpty(p) \/ StealFindTask(p)
            \/ StealEnter(p) \/ StealLoadBuffer(p) \/ StealRead(p)
            \/ StealLeave(p) \/ StealCas(p)

-----------------------------------------------------------------------------
\* Inner::drop, run by whoever drops the last handle: no operation is under
\* way.  It frees the tasks in [top, bottom) and every buffer.
Drop(p) ==
    LET left == {CellOf(bufs[buffer], i) : i \in top..bottom-1}
    IN  /\ ~dropped
        /\ \A q \in Procs : pc[q] = "idle"
        /\ dropped' = TRUE
        /\ recipients' = [k \in DOMAIN recipients |->
                            IF k \in left THEN Append(recipients[k], p)
                                          ELSE recipients[k]]
        /\ freed' = freed \cup retired \cup {buffer}
        /\ retired' = {}
        /\ UNCHANGED <<indexVars, buffer, bufs, inFlight, pc, regs>>

Next ==
    \/ Push
    \/ Pop
    \/ \E p \in Procs : Steal(p) \/ Drop(p)

Spec == Init /\ [][Next]_vars

-----------------------------------------------------------------------------
(* What must hold.                                                         *)

IndexType == top \in Int /\ bottom \in Int /\ cachedTop \in Int

MemoryType ==
    /\ bufs \in Seq(Seq(Nat))
    /\ \A k \in Buffers : Len(bufs[k]) > 0
    /\ buffer \in Buffers
    /\ retired \subseteq Buffers
    /\ freed \subseteq Buffers

LocalType ==
    /\ pc \in [Procs -> {"idle"} \cup PushPc \cup PopPc \cup StealPc]
    /\ regs \in [Procs -> [t : Int, buf : Nat, box : Nat]]
    /\ \A p \in Procs :
         /\ pc[p] = "steal_read" => regs[p].buf \in Buffers
         /\ pc[p] \in PushPc \cup PopPc => p = Owner

HistoryType == recipients \in Seq(Seq(Procs)) /\ dropped \in BOOLEAN

\* Every variable keeps its type: in particular in_flight never goes below 0,
\* and a thief about to read a cell has loaded a buffer to read it from.
TypeOK ==
    /\ IndexType
    /\ MemoryType
    /\ LocalType
    /\ HistoryType
    /\ inFlight \in Nat

\* What bottom counts for as long as the owner has not decided whether the
\* task it reached for with PopBegin is its own.
EffectiveBottom ==
    IF pc[Owner] \in {"pop_top", "pop_empty", "pop_cas", "pop_restore"}
    THEN bottom + 1 ELSE bottom

\* The tasks in the deque, oldest first.
Items == [i \in 1..EffectiveBottom - top |-> CellOf(bufs[buffer], top + i - 1)]

\* lib.rs 855-859, 1126-1133: no task is handed out twice, whoever races.
AtMostOnce == \A k \in DOMAIN recipients : Len(recipients[k]) <= 1

\* The tasks nobody took are exactly those between top and bottom of the
\* active buffer, in the order in which they were pushed: no resize, no lost
\* race and no restored bottom loses one or leaves a taken one behind.
NothingLost ==
    IF dropped
    THEN \A k \in DOMAIN recipients : recipients[k] # <<>>
    ELSE /\ {Items[i] : i \in DOMAIN Items} =
                {k \in DOMAIN recipients : recipients[k] = <<>>}
         /\ \A i, j \in DOMAIN Items : i < j => Items[i] < Items[j]

\* Reclamation: the buffer a thief is about to read from, and the one the
\* owner works on, has not been freed.
NoUseAfterFree ==
    /\ \A p \in Procs : pc[p] = "steal_read" => regs[p].buf \notin freed
    /\ ~dropped => buffer \notin freed

\* Every buffer is active, retired or freed, and only one of them: none is
\* leaked and none is freed twice.
BufferAccounting ==
    /\ retired \cap freed = {}
    /\ buffer \notin retired
    /\ Buffers = retired \cup freed \cup {buffer}

\* The debug_assert of resized and the SAFETY comment of perhaps_shrink: the
\* elements that are left fit the new buffer with one cell to spare.
ResizeFits ==
    /\ pc[Owner] = "push_grow" =>
          bottom - regs[Owner].t \in 0..2 * ActiveCap - 1
    /\ pc[Owner] = "pop_shrink" =>
          bottom - regs[Owner].t \in 0..ShrunkCap(ActiveCap) - 1

\* A steal reports Empty, and a pop None, only if no task is there, save for
\* one that the owner is popping at that moment.
EmptyIsHonest ==
    [][/\ \A p \in Procs : StealFindEmpty(p) =>
             \/ Items = <<>>
             \/ Len(Items) = 1 /\ pc[Owner] \in {"pop_top", "pop_cas"}
       /\ PopFindEmpty => Items = <<>>]_vars

\* The thieves that in_flight counts.
InSection ==
    {p \in Procs : pc[p] \in {"steal_buffer", "steal_read", "steal_leave"}}

\* Why NoUseAfterFree and BufferAccounting hold, as an inductive invariant:
\* in_flight is exact, so at a zero nobody holds a buffer, and whoever enters
\* between that load and the freeing can only load the active buffer.
ReclaimInv ==
    /\ inFlight = Cardinality(InSection)
    /\ NoUseAfterFree
    /\ BufferAccounting
    /\ dropped => \A p \in Procs : pc[p] = "idle"
    /\ pc[Owner] \in {"push_free", "pop_free"} =>
          \A p \in Procs : pc[p] = "steal_read" => regs[p].buf = buffer

\* Why no index goes astray, as an inductive invariant.  The last conjunct is
\* the heart of the algorithm: a thief whose CAS would still succeed is after
\* a task that is really there, however long ago it looked at bottom.
IndexInv ==
    /\ cachedTop <= top
    /\ top <= EffectiveBottom
    /\ EffectiveBottom - top < ActiveCap
    /\ pc[Owner] \in {"push_reclaim", "push_free", "push_write", "push_publish"}
          => bottom - top < ActiveCap - 1
    /\ pc[Owner] = "push_grow" =>
          regs[Owner].t <= top /\ bottom - regs[Owner].t < ActiveCap
    /\ pc[Owner] = "pop_shrink" =>
          /\ regs[Owner].t <= top
          /\ ShrinkWanted(bottom - regs[Owner].t, ActiveCap)
    /\ pc[Owner] = "pop_empty" => regs[Owner].t = top /\ top = bottom + 1
    /\ pc[Owner] = "pop_cas" => regs[Owner].t = bottom /\ bottom <= top
    /\ pc[Owner] = "pop_restore" => regs[Owner].t = bottom /\ bottom + 1 = top
    /\ \A p \in Procs :
         /\ pc[p] \in StealPc \ {"steal_retry"} => regs[p].t <= top
         /\ pc[p] \in StealPc \ {"steal_retry", "steal_bottom"} =>
               (regs[p].t = top => top < EffectiveBottom)

Active(i) == CellOf(bufs[buffer], i)

LiveIndices == top .. EffectiveBottom-1

\* The tasks nobody took are the live cells, in the order of their pushes.
ContentInv ==
    /\ AtMostOnce
    /\ IF dropped
       THEN \A k \in DOMAIN recipients : recipients[k] # <<>>
       ELSE /\ \A i \in LiveIndices : /\ Active(i) \in DOMAIN recipients
                                      /\ recipients[Active(i)] = <<>>
            /\ \A i, j \in LiveIndices : i < j => Active(i) < Active(j)
            /\ \A k \in DOMAIN recipients :
                 recipients[k] = <<>> => \E i \in LiveIndices : Active(i) = k

\* What a process will claim if its CAS succeeds is the oldest task, although
\* a thief may have read it in a buffer that has since been replaced.
ClaimInv ==
    /\ pc[Owner] = "push_publish" => Active(bottom) = Len(recipients) + 1
    /\ pc[Owner] = "pop_cas" => regs[Owner].box = Active(bottom)
    /\ \A p \in Procs : regs[p].t = top =>
         /\ pc[p] = "steal_read" => CellOf(bufs[regs[p].buf], top) = Active(top)
         /\ pc[p] \in {"steal_leave", "steal_cas"} => regs[p].box = Active(top)

\* Why every task is handed out exactly once, as an inductive invariant.
ExactlyOnceInv == ContentInv /\ ClaimInv

-----------------------------------------------------------------------------
(* Progress: operations that have begun go on, and thief p keeps trying.   *)
Fairness(p) ==
    /\ WF_vars(Push /\ pc[Owner] # "idle")
    /\ WF_vars(Pop /\ pc[Owner] # "idle")
    /\ WF_vars(Steal(p))
==============================================================================
