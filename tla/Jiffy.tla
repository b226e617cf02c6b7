-------------------------------- MODULE Jiffy --------------------------------
(***************************************************************************)
(* The Jiffy queue of src/src/jiffy.rs: producers claim a global index by  *)
(* fetch_add, find or link the buffer that holds it and store there; one   *)
(* consumer scans from the head.  A buffer is its place in the chain:      *)
(* buffer k holds the indices k * BufferSize and on, its next is k + 1 as  *)
(* soon as that is linked, and none is freed before the queue is dropped.  *)
(*                                                                         *)
(* One action is one access to shared memory with the private computation  *)
(* around it.  Values are numbered in the order of their claims: the value *)
(* of index i is i + 1.  A definition marked "Fault" is the one after it   *)
(* with a plausible mistake.                                               *)
(***************************************************************************)
EXTENDS Integers, Sequences

CONSTANTS
    Producers,   \* the threads that hold a Producer
    Consumer,    \* the thread that holds the Consumer
    BufferSize,  \* slots of a buffer (BUFFER_SIZE)
    MaxClaims    \* bound of the model: how many values are enqueued

ASSUME JiffyAssumption ==
    /\ Consumer \notin Producers
    /\ BufferSize \in Nat \ {0}
    /\ MaxClaims \in Nat

Procs == Producers \cup {Consumer}
Indices == 0..MaxClaims-1

VARIABLES
    tail,       \* the next index to claim
    tailBuf,    \* tail_buf: where producers start to look for their buffer
    linked,     \* the last buffer of the chain
    slots,      \* per index: 0 when EMPTY, else the value stored (SET)
    headBuf,    \* head_buf: the consumer's buffer
    head,       \* the consumer's index; slots below it are HANDLED
    pc,         \* where each process is in its operation
    regs,       \* what the operation has loaded
    delivered,  \* history: what dequeue has returned, in order
    dropped     \* Drop for Inner has run

chainVars == <<tailBuf, linked>>
headVars == <<headBuf, head>>
historyVars == <<delivered, dropped>>
vars == <<tail, chainVars, slots, headVars, pc, regs, historyVars>>

NoRegs == [idx |-> 0, buf |-> 0]

EnqueuePc == {"locate", "link", "advance", "from_head", "walk", "store",
              "link_eagerly"}

Goto(p, label) == pc' = [pc EXCEPT ![p] = label]

Return(p) ==
    /\ Goto(p, "idle")
    /\ regs' = [regs EXCEPT ![p] = NoRegs]

Base(buf) == buf * BufferSize
End(buf) == Base(buf) + BufferSize

Init ==
    /\ tail = 0
    /\ tailBuf = 0
    /\ linked = 0
    /\ slots = [i \in Indices |-> 0]
    /\ headBuf = 0
    /\ head = 0
    /\ pc = [p \in Procs |-> "idle"]
    /\ regs = [p \in Procs |-> NoRegs]
    /\ delivered = <<>>
    /\ dropped = FALSE

-----------------------------------------------------------------------------
(* enqueue                                                                 *)

EnqueueClaim(p) ==
    /\ pc[p] = "idle"
    /\ ~dropped
    /\ tail < MaxClaims
    /\ tail' = tail + 1
    /\ regs' = [regs EXCEPT ![p].idx = tail]
    /\ Goto(p, "locate")
    /\ UNCHANGED <<chainVars, slots, headVars, historyVars>>

\* locate_tail_buffer loads tail_buf.  The claimed index lies before it, ...
LocateBefore(p) ==
    /\ pc[p] = "locate"
    /\ regs[p].idx < Base(tailBuf)
    /\ Goto(p, "from_head")
    /\ UNCHANGED <<tail, chainVars, slots, headVars, regs, historyVars>>

\* Fault: the lower end is taken for granted.
LocateHereBelow(p) ==
    /\ pc[p] = "locate"
    /\ regs[p].idx < End(tailBuf)
    /\ regs' = [regs EXCEPT ![p].buf = tailBuf]
    /\ Goto(p, "store")
    /\ UNCHANGED <<tail, chainVars, slots, headVars, historyVars>>

\* ... in it, ...
LocateHere(p) ==
    /\ pc[p] = "locate"
    /\ Base(tailBuf) <= regs[p].idx /\ regs[p].idx < End(tailBuf)
    /\ regs' = [regs EXCEPT ![p].buf = tailBuf]
    /\ Goto(p, "store")
    /\ UNCHANGED <<tail, chainVars, slots, headVars, historyVars>>

\* ... or after it.
LocateAfter(p) ==
    /\ pc[p] = "locate"
    /\ End(tailBuf) <= regs[p].idx
    /\ regs' = [regs EXCEPT ![p].buf = tailBuf]
    /\ Goto(p, "link")
    /\ UNCHANGED <<tail, chainVars, slots, headVars, historyVars>>

\* link_next_buffer: of the producers that found next null one wins the CAS,
\* and the others free what they allocated.
LinkNext(p) ==
    linked' = IF regs[p].buf = linked THEN linked + 1 ELSE linked

\* Fault: the next buffer is taken to be there.
LocateLinkNothing(p) ==
    /\ pc[p] = "link"
    /\ Goto(p, "advance")
    /\ UNCHANGED <<tail, chainVars, slots, headVars, regs, historyVars>>

LocateLink(p) ==
    /\ pc[p] = "link"
    /\ LinkNext(p)
    /\ Goto(p, "advance")
    /\ UNCHANGED <<tail, tailBuf, slots, headVars, regs, historyVars>>

\* Fault: tail_buf stays where it is.
LocateAgain(p) ==
    /\ pc[p] = "advance"
    /\ Goto(p, "locate")
    /\ UNCHANGED <<tail, chainVars, slots, headVars, regs, historyVars>>

\* The CAS on tail_buf; whoever wins, look again.
LocateAdvance(p) ==
    /\ pc[p] = "advance"
    /\ tailBuf' = IF tailBuf = regs[p].buf THEN regs[p].buf + 1 ELSE tailBuf
    /\ Goto(p, "locate")
    /\ UNCHANGED <<tail, linked, slots, headVars, regs, historyVars>>

\* locate_from_head loads head_buf and walks the chain.
WalkBegin(p) ==
    /\ pc[p] = "from_head"
    /\ regs' = [regs EXCEPT ![p].buf = headBuf]
    /\ Goto(p, "walk")
    /\ UNCHANGED <<tail, chainVars, slots, headVars, historyVars>>

WalkOn(p) ==
    /\ pc[p] = "walk"
    /\ End(regs[p].buf) <= regs[p].idx
    /\ regs[p].buf < linked
    /\ regs' = [regs EXCEPT ![p].buf = @ + 1]
    /\ UNCHANGED <<tail, chainVars, slots, headVars, pc, historyVars>>

WalkEnd(p) ==
    /\ pc[p] = "walk"
    /\ regs[p].idx < End(regs[p].buf)
    /\ Goto(p, "store")
    /\ UNCHANGED <<tail, chainVars, slots, headVars, regs, historyVars>>

\* The value, and then SET; the next buffer is linked ahead of need by the
\* producer of the second last slot.
EnqueueStore(p) ==
    /\ pc[p] = "store"
    /\ slots' = [slots EXCEPT ![regs[p].idx] = regs[p].idx + 1]
    /\ IF regs[p].idx + 2 = End(regs[p].buf)
       THEN Goto(p, "link_eagerly") /\ UNCHANGED regs
       ELSE Return(p)
    /\ UNCHANGED <<tail, chainVars, headVars, historyVars>>

EnqueueLink(p) ==
    /\ pc[p] = "link_eagerly"
    /\ LinkNext(p)
    /\ Return(p)
    /\ UNCHANGED <<tail, tailBuf, slots, headVars, historyVars>>

\* An enqueue that has begun.
EnqueueStep(p) ==
    \/ LocateBefore(p) \/ LocateHere(p) \/ LocateAfter(p)
    \/ LocateLink(p) \/ LocateAdvance(p)
    \/ WalkBegin(p) \/ WalkOn(p) \/ WalkEnd(p)
    \/ EnqueueStore(p) \/ EnqueueLink(p)

-----------------------------------------------------------------------------
(* dequeue.  When nothing is claimed past the head it returns None and has *)
(* changed nothing.                                                        *)

DequeueBegin ==
    /\ pc[Consumer] = "idle"
    /\ ~dropped
    /\ head < tail
    /\ Goto(Consumer, "dequeue")
    /\ UNCHANGED <<tail, chainVars, slots, headVars, regs, historyVars>>

AtEnd == head = End(headBuf)

\* The head buffer is used up: go on in the next, ...
DequeueNextBuffer ==
    /\ pc[Consumer] = "dequeue"
    /\ AtEnd
    /\ headBuf < linked
    /\ headBuf' = headBuf + 1
    /\ UNCHANGED <<tail, chainVars, slots, head, pc, regs, historyVars>>

\* Fault: the end of a buffer is taken for the end of the queue.
DequeueAtEnd ==
    /\ pc[Consumer] = "dequeue"
    /\ AtEnd
    /\ Return(Consumer)
    /\ UNCHANGED <<tail, chainVars, slots, headVars, historyVars>>

\* ... or return None if it is not linked yet.
DequeueNoBuffer == headBuf = linked /\ DequeueAtEnd

\* Fault: a slot that is not stored yet is passed over.
DequeueSkip ==
    /\ pc[Consumer] = "dequeue"
    /\ ~AtEnd
    /\ slots[head] = 0
    /\ head' = head + 1
    /\ Return(Consumer)
    /\ UNCHANGED <<tail, chainVars, slots, headBuf, historyVars>>

\* The slot is claimed and not stored: None.
DequeueUnset ==
    /\ pc[Consumer] = "dequeue"
    /\ ~AtEnd
    /\ slots[head] = 0
    /\ Return(Consumer)
    /\ UNCHANGED <<tail, chainVars, slots, headVars, historyVars>>

\* SET: the value is taken and the slot becomes HANDLED, by head moving on.
\* The head never stands at a HANDLED slot, so that the code's branch for
\* one is not taken.
DequeueTake ==
    /\ pc[Consumer] = "dequeue"
    /\ ~AtEnd
    /\ slots[head] # 0
    /\ delivered' = Append(delivered, slots[head])
    /\ head' = head + 1
    /\ Return(Consumer)
    /\ UNCHANGED <<tail, chainVars, slots, headBuf, dropped>>

Dequeue == DequeueBegin \/ DequeueNextBuffer \/ DequeueNoBuffer
             \/ DequeueUnset \/ DequeueTake

\* Drop for Inner: all handles are gone, the values still SET go with them.
Drop ==
    /\ \A p \in Procs : pc[p] = "idle"
    /\ ~dropped
    /\ dropped' = TRUE
    /\ UNCHANGED <<tail, chainVars, slots, headVars, pc, regs, delivered>>

-----------------------------------------------------------------------------
Next ==
    \/ \E p \in Producers : EnqueueClaim(p) \/ EnqueueStep(p)
    \/ Dequeue
    \/ Drop

Spec == Init /\ [][Next]_vars

-----------------------------------------------------------------------------
(* Properties                                                              *)

\* The state has the shape of Inner, Buffer and the locals of an operation.
TypeOK ==
    /\ tail \in 0..MaxClaims
    /\ linked \in Nat
    /\ tailBuf \in 0..linked
    /\ slots \in [Indices -> 0..MaxClaims]
    /\ headBuf \in 0..linked
    /\ head \in 0..tail
    /\ pc \in [Procs -> EnqueuePc \cup {"idle", "dequeue"}]
    /\ regs \in [Procs -> [idx : 0..MaxClaims, buf : Nat]]
    /\ delivered \in Seq(1..MaxClaims)
    /\ dropped \in BOOLEAN

AtItsBuffer(p) ==
    /\ pc[p] = "store" => /\ Base(regs[p].buf) <= regs[p].idx
                          /\ regs[p].idx < End(regs[p].buf)
                          /\ regs[p].buf <= linked
    /\ pc[p] = "walk" => /\ Base(regs[p].buf) <= regs[p].idx
                         /\ End(regs[p].buf) <= regs[p].idx =>
                               regs[p].buf < linked

\* A producer stores in the buffer of its index, however the tail and the
\* head have moved while it searched, and the search never comes to the end
\* of the chain (the assertion in locate_from_head).
FindsItsBuffer == \A p \in Producers : AtItsBuffer(p)

Searching == {"locate", "link", "advance", "from_head", "walk", "store"}

PassedIsStored ==
    \A i \in Indices : /\ i < head => slots[i] # 0
                       /\ tail <= i => slots[i] = 0

SearchedIsUnstored ==
    \A p \in Producers : pc[p] \in Searching =>
        regs[p].idx < tail /\ slots[regs[p].idx] = 0

SearchedIsOwn ==
    \A p, q \in Producers :
        pc[p] \in Searching /\ pc[q] \in Searching /\ p # q =>
            regs[p].idx # regs[q].idx

SlotsInv == PassedIsStored /\ SearchedIsUnstored /\ SearchedIsOwn

InChain(p) ==
    /\ pc[p] # "dequeue"
    /\ pc[p] \in {"link", "link_eagerly"} => regs[p].buf <= linked
    /\ pc[p] = "advance" => regs[p].buf < linked
    /\ pc[p] \in {"from_head", "walk"} => regs[p].idx < Base(tailBuf)

ChainInv ==
    /\ \A p \in Producers : InChain(p)
    /\ Base(headBuf) <= head /\ head <= End(headBuf)
    /\ pc[Consumer] \in {"idle", "dequeue"}
    /\ pc[Consumer] = "dequeue" => head < tail

\* Why it finds its buffer: the consumer has passed only slots that are
\* stored, so that it cannot get ahead of a producer that still searches, and
\* a search from the head ends before tail_buf.
SearchInv == SlotsInv /\ ChainInv /\ FindsItsBuffer

StoredIsOwn ==
    \A i \in Indices : slots[i] # 0 => slots[i] = i + 1 /\ i < End(linked)

ClaimedIsStored ==
    \A i \in Indices : i < tail =>
        \/ slots[i] # 0
        \/ \E p \in Producers : pc[p] \in Searching /\ regs[p].idx = i

DroppedRests == dropped => \A p \in Procs : pc[p] = "idle"

\* Why the claimed slots are the cells of an inbox: each holds nothing or its
\* own value, in a buffer that is linked; each that holds nothing has a
\* producer on the way; and nobody is at work once the queue is gone.
CellsInv == StoredIsOwn /\ ClaimedIsStored /\ DroppedRests

Cell(i) == [task |-> IF slots[i] = 0 THEN i + 1 ELSE slots[i],
            filled |-> slots[i] # 0]
Cells == IF dropped THEN <<>>
         ELSE [k \in 1..(tail - head) |-> Cell(head + k - 1)]

Row == INSTANCE Inbox WITH cells <- Cells, claims <- tail, closed <- dropped

\* The queue is a row of cells that are claimed, filled and taken in order.
ImplementsInbox == Row!InboxSpec

\* dequeue returns None only when the oldest cell is not filled, also where
\* it gives up for want of a next buffer.
NoneIsHonest == [][
    pc[Consumer] = "dequeue" /\ pc'[Consumer] = "idle"
        /\ delivered' = delivered => ~Row!Ready(Cells)]_vars

\* An enqueue that goes on ends, whatever the others do or leave undone: it
\* is wait-free.
EnqueueEnds == \A p \in Producers :
    WF_vars(EnqueueStep(p)) => (pc[p] = "locate" ~> pc[p] = "idle")

\* A consumer that keeps calling gets every value once the producers before
\* it have finished.
Delivered ==
    WF_vars(Dequeue) /\ (\A p \in Producers : WF_vars(EnqueueStep(p)))
        => \A v \in 1..MaxClaims :
               tail >= v ~> (Len(delivered) >= v \/ dropped)
==============================================================================
