--------------------------------- MODULE Bwos ---------------------------------
(***************************************************************************)
(* The bounded block-based work-stealing queue of src/src/bwos.rs          *)
(* (BwosWorker, BwosStealer).  A row of blocks, each a little Chase-Lev    *)
(* deque of its own: committed is its bottom, stolen its top.  The owner   *)
(* works in one block and moves one block on when it is full, one block    *)
(* back when it has nothing left; thieves scan the blocks from the first.  *)
(*                                                                         *)
(* One action is one access to shared memory with the private computation  *)
(* around it.  A value is the number of its put.  A definition marked      *)
(* "Fault" is the one after it with a plausible mistake.                   *)
(***************************************************************************)
EXTENDS Integers, Sequences, FiniteSets

CONSTANTS
    Owner,      \* the thread that holds the BwosWorker
    Thieves,    \* the threads that hold a BwosStealer
    NumBlocks,  \* blocks in the row (at least 2)
    BlockSize,  \* slots of a block
    MaxPut      \* bound of the model: how many values are put

Procs == Thieves \cup {Owner}
Blocks == 0..NumBlocks-1
Positions == 0..BlockSize-1

ASSUME BlockAssumption ==
    /\ Owner \notin Thieves
    /\ NumBlocks \in Nat \ {0, 1}
    /\ BlockSize \in Nat \ {0}
    /\ MaxPut \in Nat

VARIABLES
    committed,   \* per block: the owner's end
    stolen,      \* per block: the thieves' end; only advanced by CAS
    slots,       \* per block and position: the value bits
    produced,    \* produced_blocks: thieves scan the blocks below it
    ownerBlock,  \* the owner's current block; private to it
    pc,          \* where each process is in its operation
    regs,        \* what the operation has loaded
    recipients,  \* history: who got each value put so far
    reentered,   \* history: blocks put has entered with stolen above 0
    buried       \* history: values put below stolen in such a block

blockVars == <<committed, stolen, slots>>
historyVars == <<recipients, reentered, buried>>
vars == <<blockVars, produced, ownerBlock, pc, regs, historyVars>>

NoRegs == [blk |-> 0, t |-> 0, b |-> 0, bits |-> 0, produced |-> 0]

OwnerPc == {"put_write", "put_commit", "pop_again", "pop_decrement",
            "pop_top", "pop_undo", "pop_cas", "pop_lost", "pop_won"}
StealPc == {"steal_top", "steal_bottom", "steal_read", "steal_cas",
            "steal_next"}  \* the last one in BwosUnbounded only

Goto(p, label) == pc' = [pc EXCEPT ![p] = label]

Return(p) ==
    /\ Goto(p, "idle")
    /\ regs' = [regs EXCEPT ![p] = NoRegs]

Deliver(k, p) == recipients' = [recipients EXCEPT ![k] = Append(@, p)]

Init ==
    /\ committed = [blk \in Blocks |-> 0]
    /\ stolen = [blk \in Blocks |-> 0]
    /\ slots = [blk \in Blocks |-> [i \in Positions |-> 0]]
    /\ produced = 1
    /\ ownerBlock = 0
    /\ pc = [p \in Procs |-> "idle"]
    /\ regs = [p \in Procs |-> NoRegs]
    /\ recipients = <<>>
    /\ reentered = {}
    /\ buried = {}

-----------------------------------------------------------------------------
(* put                                                                     *)

BlockFull == committed[ownerBlock] = BlockSize

\* put returns false, and changes nothing, exactly in this state.
PutRefused == BlockFull /\ ownerBlock + 1 = NumBlocks

PutInBlock ==
    /\ pc[Owner] = "idle"
    /\ Len(recipients) < MaxPut
    /\ ~BlockFull
    /\ regs' = [regs EXCEPT ![Owner].b = committed[ownerBlock]]
    /\ Goto(Owner, "put_write")
    /\ UNCHANGED <<blockVars, produced, ownerBlock, historyVars>>

EnterNext ==
    /\ pc[Owner] = "idle"
    /\ Len(recipients) < MaxPut
    /\ BlockFull
    /\ ~PutRefused
    /\ ownerBlock' = ownerBlock + 1
    /\ reentered' = IF stolen[ownerBlock + 1] > 0
                    THEN reentered \cup {ownerBlock + 1} ELSE reentered
    /\ regs' = [regs EXCEPT ![Owner].b = 0]
    /\ Goto(Owner, "put_write")
    /\ UNCHANGED <<blockVars, recipients, buried>>

\* Fault: thieves are not told of the block.
PutAdvanceUnpublished == EnterNext /\ UNCHANGED produced

\* The block is full: go on at the start of the next, and let thieves scan it.
PutAdvance == EnterNext /\ produced' = ownerBlock + 2

PutWrite ==
    /\ pc[Owner] = "put_write"
    /\ slots' = [slots EXCEPT ![ownerBlock][regs[Owner].b] =
                                 Len(recipients) + 1]
    /\ Goto(Owner, "put_commit")
    /\ UNCHANGED <<committed, stolen, produced, ownerBlock, regs, historyVars>>

PutCommit ==
    /\ pc[Owner] = "put_commit"
    /\ committed' = [committed EXCEPT ![ownerBlock] = regs[Owner].b + 1]
    /\ recipients' = Append(recipients, <<>>)
    /\ buried' =
         IF ownerBlock \in reentered /\ regs[Owner].b < stolen[ownerBlock]
         THEN buried \cup {Len(recipients) + 1} ELSE buried
    /\ Return(Owner)
    /\ UNCHANGED <<stolen, slots, produced, ownerBlock, reentered>>

Put == PutInBlock \/ PutAdvance \/ PutWrite \/ PutCommit

-----------------------------------------------------------------------------
(* pop                                                                     *)

MayPop == pc[Owner] \in {"idle", "pop_again"}

\* Nothing left in this block: return None, or go on in the block before.
PopStepBack ==
    /\ MayPop
    /\ committed[ownerBlock] <= stolen[ownerBlock]
    /\ IF ownerBlock = 0
       THEN Return(Owner) /\ UNCHANGED ownerBlock
       ELSE /\ ownerBlock' = ownerBlock - 1
            /\ Goto(Owner, "pop_again")
            /\ UNCHANGED regs
    /\ UNCHANGED <<blockVars, produced, historyVars>>

PopFind ==
    /\ MayPop
    /\ committed[ownerBlock] > stolen[ownerBlock]
    /\ regs' = [regs EXCEPT ![Owner].b = committed[ownerBlock]]
    /\ Goto(Owner, "pop_decrement")
    /\ UNCHANGED <<blockVars, produced, ownerBlock, historyVars>>

PopDecrement ==
    /\ pc[Owner] = "pop_decrement"
    /\ committed' = [committed EXCEPT ![ownerBlock] = regs[Owner].b - 1]
    /\ Goto(Owner, "pop_top")
    /\ UNCHANGED <<stolen, slots, produced, ownerBlock, regs, historyVars>>

\* Fault: the last value is taken without a race for it.
PopTakeLastToo ==
    /\ pc[Owner] = "pop_top"
    /\ regs[Owner].b - 1 >= stolen[ownerBlock]
    /\ Deliver(slots[ownerBlock][regs[Owner].b - 1], Owner)
    /\ Return(Owner)
    /\ UNCHANGED <<blockVars, produced, ownerBlock,
                   reentered, buried>>

\* new_b > s: thieves are strictly behind.
PopTake ==
    /\ pc[Owner] = "pop_top"
    /\ regs[Owner].b - 1 > stolen[ownerBlock]
    /\ Deliver(slots[ownerBlock][regs[Owner].b - 1], Owner)
    /\ Return(Owner)
    /\ UNCHANGED <<blockVars, produced, ownerBlock,
                   reentered, buried>>

\* new_b = s: race the thieves for the last value of the block.
PopFindLast ==
    /\ pc[Owner] = "pop_top"
    /\ regs[Owner].b - 1 = stolen[ownerBlock]
    /\ regs' = [regs EXCEPT
                  ![Owner].t = stolen[ownerBlock],
                  ![Owner].bits = slots[ownerBlock][regs[Owner].b - 1]]
    /\ Goto(Owner, "pop_cas")
    /\ UNCHANGED <<blockVars, produced, ownerBlock, historyVars>>

PopCas ==
    /\ pc[Owner] = "pop_cas"
    /\ IF stolen[ownerBlock] = regs[Owner].t
       THEN /\ stolen' = [stolen EXCEPT ![ownerBlock] = @ + 1]
            /\ Deliver(regs[Owner].bits, Owner)
            /\ Goto(Owner, "pop_won")
       ELSE /\ Goto(Owner, "pop_lost")
            /\ UNCHANGED <<stolen, recipients>>
    /\ UNCHANGED <<committed, slots, produced, ownerBlock, regs,
                   reentered, buried>>

\* The block is empty now; after a lost race the pop starts again.
PopRestore ==
    /\ pc[Owner] \in {"pop_won", "pop_lost"}
    /\ committed' = [committed EXCEPT ![ownerBlock] = regs[Owner].t + 1]
    /\ Goto(Owner, IF pc[Owner] = "pop_won" THEN "idle" ELSE "pop_again")
    /\ regs' = [regs EXCEPT ![Owner] = NoRegs]
    /\ UNCHANGED <<stolen, slots, produced, ownerBlock, historyVars>>

\* new_b < s: thieves took everything between the two loads of stolen.
PopBehind ==
    /\ pc[Owner] = "pop_top"
    /\ regs[Owner].b - 1 < stolen[ownerBlock]
    /\ Goto(Owner, "pop_undo")
    /\ UNCHANGED <<blockVars, produced, ownerBlock, regs, historyVars>>

\* Fault: the tentative decrement is left in place.
PopUndoNothing ==
    /\ pc[Owner] = "pop_undo"
    /\ Goto(Owner, "pop_again")
    /\ regs' = [regs EXCEPT ![Owner] = NoRegs]
    /\ UNCHANGED <<blockVars, produced, ownerBlock, historyVars>>

PopUndo ==
    /\ pc[Owner] = "pop_undo"
    /\ committed' = [committed EXCEPT ![ownerBlock] = regs[Owner].b]
    /\ Goto(Owner, "pop_again")
    /\ regs' = [regs EXCEPT ![Owner] = NoRegs]
    /\ UNCHANGED <<stolen, slots, produced, ownerBlock, historyVars>>

Pop == \/ PopStepBack \/ PopFind \/ PopDecrement \/ PopTake \/ PopFindLast
       \/ PopCas \/ PopRestore \/ PopBehind \/ PopUndo

-----------------------------------------------------------------------------
(* steal                                                                   *)

StealBegin(p) ==
    /\ pc[p] = "idle"
    /\ regs' = [regs EXCEPT ![p].produced = produced, ![p].blk = 0]
    /\ Goto(p, "steal_top")
    /\ UNCHANGED <<blockVars, produced, ownerBlock, historyVars>>

StealLoadTop(p) ==
    /\ pc[p] = "steal_top"
    /\ regs' = [regs EXCEPT ![p].t = stolen[regs[p].blk]]
    /\ Goto(p, "steal_bottom")
    /\ UNCHANGED <<blockVars, produced, ownerBlock, historyVars>>

\* Fault: give up at the first drained block.
StealStopAtDrained(p) ==
    /\ pc[p] = "steal_bottom"
    /\ regs[p].t >= committed[regs[p].blk]
    /\ Return(p)
    /\ UNCHANGED <<blockVars, produced, ownerBlock, historyVars>>

\* A drained block: look at the next, or report Empty after the last.
StealSkip(p) ==
    /\ pc[p] = "steal_bottom"
    /\ regs[p].t >= committed[regs[p].blk]
    /\ IF regs[p].blk + 1 < regs[p].produced
       THEN /\ regs' = [regs EXCEPT ![p].blk = @ + 1]
            /\ Goto(p, "steal_top")
       ELSE Return(p)
    /\ UNCHANGED <<blockVars, produced, ownerBlock, historyVars>>

StealFind(p) ==
    /\ pc[p] = "steal_bottom"
    /\ regs[p].t < committed[regs[p].blk]
    /\ Goto(p, "steal_read")
    /\ UNCHANGED <<blockVars, produced, ownerBlock, regs, historyVars>>

StealRead(p) ==
    /\ pc[p] = "steal_read"
    /\ regs' = [regs EXCEPT ![p].bits = slots[regs[p].blk][regs[p].t]]
    /\ Goto(p, "steal_cas")
    /\ UNCHANGED <<blockVars, produced, ownerBlock, historyVars>>

\* Success, or Retry if another thief or the owner was faster.
StealCas(p) ==
    /\ pc[p] = "steal_cas"
    /\ IF stolen[regs[p].blk] = regs[p].t
       THEN /\ stolen' = [stolen EXCEPT ![regs[p].blk] = @ + 1]
            /\ Deliver(regs[p].bits, p)
       ELSE UNCHANGED <<stolen, recipients>>
    /\ Return(p)
    /\ UNCHANGED <<committed, slots, produced, ownerBlock,
                   reentered, buried>>

Steal(p) == \/ StealBegin(p) \/ StealLoadTop(p) \/ StealSkip(p)
            \/ StealFind(p) \/ StealRead(p) \/ StealCas(p)

Next == Put \/ Pop \/ \E p \in Thieves : Steal(p)

Spec == Init /\ [][Next]_vars

-----------------------------------------------------------------------------
(* What must hold.                                                         *)

\* Every variable keeps its type: in particular the owner's block is one that
\* thieves may scan, and no cursor leaves its block.
TypeOK ==
    /\ committed \in [Blocks -> 0..BlockSize]
    /\ stolen \in [Blocks -> 0..BlockSize]
    /\ slots \in [Blocks -> [Positions -> 0..MaxPut]]
    /\ produced \in 1..NumBlocks
    /\ ownerBlock \in 0..produced-1
    /\ pc \in [Procs -> {"idle"} \cup OwnerPc \cup StealPc]
    /\ regs \in [Procs -> [blk : Blocks, t : 0..BlockSize, b : 0..BlockSize,
                           bits : 0..MaxPut, produced : 0..NumBlocks]]
    /\ recipients \in Seq(Seq(Procs))
    /\ reentered \subseteq Blocks
    /\ buried \subseteq DOMAIN recipients

\* What the block's bottom counts for until the owner's pop is decided.
EffectiveCommitted(blk) ==
    IF blk = ownerBlock /\ pc[Owner] \in {"pop_top", "pop_cas"}
    THEN committed[blk] + 1 ELSE committed[blk]

\* The values that a pop or a steal can still get at.
Reachable ==
    UNION {{slots[blk][i] : i \in stolen[blk]..EffectiveCommitted(blk)-1} :
              blk \in Blocks}

Undelivered == {k \in DOMAIN recipients : recipients[k] = <<>>}

\* bwos.rs 489-495: no value is delivered twice, across owner and thieves.
AtMostOnce == \A k \in DOMAIN recipients : Len(recipients[k]) <= 1

\* A value goes missing in one way only: put re-enters a block at position 0
\* although thieves, or the owner's pop, have moved its stolen above 0.  No
\* interleaving of pop with the thieves loses one.
LostOnlyByReentry == Undelivered = Reachable \cup buried

\* What the concurrent test and its comment claim (bwos.rs 489-495): every
\* value put can be consumed.
NothingLost == Undelivered = Reachable
==============================================================================
