----------------------------- MODULE BwosUnbounded -----------------------------
(***************************************************************************)
(* The unbounded block-based queue of src/src/bwos.rs (module unbounded:   *)
(* UnboundedBwosWorker, UnboundedBwosStealer).  Within a block it is Bwos, *)
(* action for action.  But blocks are linked: a put that finds its block   *)
(* full allocates a new one and makes it the successor, whatever successor *)
(* the block had before; and each thief begins its scan at a cursor of its *)
(* own, which only follows the links.                                      *)
(*                                                                         *)
(* A block is the order of its allocation, produced counts the blocks      *)
(* allocated, NumBlocks bounds them, and the head is block 0.              *)
(***************************************************************************)
EXTENDS Bwos

VARIABLES
    next,    \* per block: its successor
    prev,    \* per block: the block the owner came from
    cursor   \* per thief: where its next steal begins

linkVars == <<next, prev, cursor>>
unboundedVars == <<vars, linkVars>>

None == -1

LinksInit ==
    /\ next = [blk \in Blocks |-> None]
    /\ prev = [blk \in Blocks |-> None]
    /\ cursor = [p \in Thieves |-> 0]

\* The blocks one comes to from blk: the walk of Drop, and of a thief.
From(blk) ==
    LET within[n \in 0..NumBlocks] ==
            IF n = 0 THEN {blk}
            ELSE within[n-1] \cup ({next[b] : b \in within[n-1]} \ {None})
    IN  within[NumBlocks]

-----------------------------------------------------------------------------
\* Fault: a block that has a successor keeps it.
PutFreshKeepNext ==
    /\ pc[Owner] = "idle"
    /\ Len(recipients) < MaxPut /\ produced < NumBlocks
    /\ BlockFull
    /\ next' = [next EXCEPT ![ownerBlock] = IF @ = None THEN produced ELSE @]
    /\ prev' = [prev EXCEPT ![produced] = ownerBlock]
    /\ produced' = produced + 1
    /\ ownerBlock' = produced
    /\ regs' = [regs EXCEPT ![Owner].b = 0]
    /\ Goto(Owner, "put_write")
    /\ UNCHANGED <<blockVars, cursor, historyVars>>

\* The block is full: link a fresh one behind it, and thereby drop from the
\* list any block that was there.
PutFresh ==
    /\ pc[Owner] = "idle"
    /\ Len(recipients) < MaxPut /\ produced < NumBlocks
    /\ BlockFull
    /\ next' = [next EXCEPT ![ownerBlock] = produced]
    /\ prev' = [prev EXCEPT ![produced] = ownerBlock]
    /\ produced' = produced + 1
    /\ ownerBlock' = produced
    /\ regs' = [regs EXCEPT ![Owner].b = 0]
    /\ Goto(Owner, "put_write")
    /\ UNCHANGED <<blockVars, cursor, historyVars>>

PutLinked ==
    \/ PutFresh
    \/ (PutInBlock \/ PutWrite \/ PutCommit) /\ UNCHANGED linkVars

\* As Bwos.PopStepBack, but the way back is by prev.
PopFollowPrev ==
    /\ MayPop
    /\ committed[ownerBlock] <= stolen[ownerBlock]
    /\ IF prev[ownerBlock] = None
       THEN Return(Owner) /\ UNCHANGED ownerBlock
       ELSE /\ ownerBlock' = prev[ownerBlock]
            /\ Goto(Owner, "pop_again")
            /\ UNCHANGED regs
    /\ UNCHANGED <<blockVars, produced, linkVars, historyVars>>

PopLinked ==
    \/ PopFollowPrev
    \/ /\ \/ PopFind \/ PopDecrement \/ PopTake \/ PopFindLast \/ PopCas
          \/ PopRestore \/ PopBehind \/ PopUndo
       /\ UNCHANGED linkVars

-----------------------------------------------------------------------------
StealAtCursor(p) ==
    /\ pc[p] = "idle"
    /\ regs' = [regs EXCEPT ![p].blk = cursor[p]]
    /\ Goto(p, "steal_top")
    /\ UNCHANGED <<blockVars, produced, ownerBlock, linkVars, historyVars>>

StealFindDrained(p) ==
    /\ pc[p] = "steal_bottom"
    /\ regs[p].t >= committed[regs[p].blk]
    /\ Goto(p, "steal_next")
    /\ UNCHANGED <<blockVars, produced, ownerBlock, regs, linkVars,
                   historyVars>>

\* It was drained when its committed was loaded; if it has a successor now,
\* the cursor leaves it for good.
StealFollowNext(p) ==
    LET blk == regs[p].blk
    IN  /\ pc[p] = "steal_next"
        /\ IF next[blk] = None
           THEN Return(p) /\ UNCHANGED cursor
           ELSE /\ cursor' = [cursor EXCEPT ![p] = next[blk]]
                /\ regs' = [regs EXCEPT ![p].blk = next[blk]]
                /\ Goto(p, "steal_top")
        /\ UNCHANGED <<blockVars, produced, ownerBlock, next, prev,
                       historyVars>>

\* As Bwos.StealCas; a thief that succeeds remembers the block.
StealCasLinked(p) ==
    /\ StealCas(p)
    /\ cursor' = IF stolen' = stolen THEN cursor
                 ELSE [cursor EXCEPT ![p] = regs[p].blk]
    /\ UNCHANGED <<next, prev>>

StealLinked(p) ==
    \/ StealAtCursor(p) \/ StealFindDrained(p) \/ StealFollowNext(p)
    \/ StealCasLinked(p)
    \/ (StealLoadTop(p) \/ StealFind(p) \/ StealRead(p)) /\ UNCHANGED linkVars

\* A clone of a thief's handle takes its place: it starts at the head.
Clone(p) ==
    /\ pc[p] = "idle"
    /\ cursor' = [cursor EXCEPT ![p] = 0]
    /\ UNCHANGED <<vars, next, prev>>

NextLinked ==
    \/ PutLinked \/ PopLinked
    \/ \E p \in Thieves : StealLinked(p) \/ Clone(p)

SpecLinked == Init /\ LinksInit /\ [][NextLinked]_unboundedVars

-----------------------------------------------------------------------------
(* What must hold.                                                         *)

ValuesIn(blk) ==
    {slots[blk][i] : i \in stolen[blk]..EffectiveCommitted(blk)-1}

\* bwos.rs 622-628 and 708: relinking takes no block with a value in it out of
\* the list: what is undelivered is where a new thief's walk from the head
\* comes by, and so is the owner and every block it may step back to.
InTheList ==
    LET back[n \in 0..NumBlocks] ==
            IF n = 0 THEN {ownerBlock}
            ELSE back[n-1] \cup ({prev[b] : b \in back[n-1]} \ {None})
    IN  /\ \A blk \in Blocks \ From(0) : ValuesIn(blk) = {}
        /\ back[NumBlocks] \subseteq From(0)
        /\ \A b \in back[NumBlocks] \ {0} : next[prev[b]] = b

\* What the comment on cursor claims (bwos.rs 797-798, 860): it is always at
\* or behind the true front, as the blocks it has left are drained for good.
AtOrBehindFront ==
    \A p \in Thieves : \A blk \in Blocks \ From(cursor[p]) : ValuesIn(blk) = {}
==============================================================================
