------------------------------ MODULE BwosProofs ------------------------------
(***************************************************************************)
(* The block-based queues hand out every value at most once and lose none  *)
(* but to a re-entered block, for any number of thieves, blocks and slots: *)
(* proofs about Bwos (the row of blocks) and BwosUnbounded (the list),     *)
(* which have the steps within a block in common.                          *)
(***************************************************************************)
EXTENDS MCBwos, SequenceTheorems, FiniteSetTheorems, WellFoundedInduction,
        TLAPS

-----------------------------------------------------------------------------
(* The inductive invariant.                                                *)

Undecided == {"pop_top", "pop_cas", "pop_undo", "pop_won", "pop_lost"}

\* What committed will be once the pop under way has undone its decrement.
Settled(blk) == IF blk = ownerBlock /\ pc[Owner] \in Undecided
                THEN committed[blk] + 1 ELSE committed[blk]

\* The owner: where its locals and its block stand in each of its operations.
OwnerInv ==
    /\ pc[Owner] \in {"idle"} \cup OwnerPc
    /\ pc[Owner] \in {"put_write", "put_commit"} =>
          /\ regs[Owner].b < BlockSize
          /\ Len(recipients) < MaxPut
          /\ \/ regs[Owner].b = committed[ownerBlock]
             \/ /\ regs[Owner].b = 0
                /\ committed[ownerBlock] <= stolen[ownerBlock]
                /\ ownerBlock \in reentered
    /\ pc[Owner] = "pop_decrement" =>
          /\ regs[Owner].b = committed[ownerBlock]
          /\ stolen[ownerBlock] <= regs[Owner].b
          /\ regs[Owner].b > 0
    /\ pc[Owner] \in Undecided =>
          stolen[ownerBlock] <= committed[ownerBlock] + 1
    /\ pc[Owner] \in {"pop_top", "pop_undo"} =>
          regs[Owner].b = committed[ownerBlock] + 1
    /\ pc[Owner] \in {"pop_cas", "pop_won", "pop_lost"} =>
          regs[Owner].t = committed[ownerBlock] /\ regs[Owner].t < BlockSize
    /\ pc[Owner] = "pop_cas" => regs[Owner].t <= stolen[ownerBlock]
    /\ pc[Owner] \in {"pop_undo", "pop_won", "pop_lost"} =>
          stolen[ownerBlock] = committed[ownerBlock] + 1

\* Thieves are behind the owner, except in a block that put has re-entered.
BlocksInv ==
    \A blk \in Blocks : blk \in reentered \/ stolen[blk] <= Settled(blk)

\* A thief whose CAS would still succeed is after a value that is there.
ThiefAt(p) ==
    /\ pc[p] \in {"idle"} \cup StealPc
    /\ pc[p] \in {"steal_bottom", "steal_read", "steal_cas"} =>
          regs[p].t <= stolen[regs[p].blk]
    /\ pc[p] \in {"steal_read", "steal_cas"} =>
          /\ regs[p].t < BlockSize
          /\ regs[p].t = stolen[regs[p].blk] =>
                regs[p].t < EffectiveCommitted(regs[p].blk)

ThiefInv == \A p \in Thieves : ThiefAt(p)

\* The slot i of block blk holds a value that can be had.
LiveAt(blk, i) == i \in stolen[blk]..EffectiveCommitted(blk)-1

\* The values nobody has are those in the live slots, each in one, and those
\* that are buried.
ContentInv ==
    /\ AtMostOnce
    /\ buried \subseteq Undelivered
    /\ \A blk \in Blocks, i \in Positions : LiveAt(blk, i) =>
          slots[blk][i] \in Undelivered \ buried
    /\ \A blk1, blk2 \in Blocks, i, j \in Positions :
          LiveAt(blk1, i) /\ LiveAt(blk2, j) /\ slots[blk1][i] = slots[blk2][j]
             => blk1 = blk2 /\ i = j
    /\ \A k \in Undelivered \ buried : \E blk \in Blocks, i \in Positions :
          LiveAt(blk, i) /\ slots[blk][i] = k

\* What is about to be handed out, or put, is what the slot holds.
OwnerClaim ==
    /\ pc[Owner] = "put_commit" =>
          slots[ownerBlock][regs[Owner].b] = Len(recipients) + 1
    /\ pc[Owner] = "pop_cas" =>
          regs[Owner].bits = slots[ownerBlock][regs[Owner].t]

ThiefClaim(p) ==
    pc[p] = "steal_cas" /\ regs[p].t = stolen[regs[p].blk] =>
       regs[p].bits = slots[regs[p].blk][regs[p].t]

ClaimInv == OwnerClaim /\ \A p \in Thieves : ThiefClaim(p)

IndInv == TypeOK /\ OwnerInv /\ BlocksInv /\ ThiefInv /\ ContentInv /\ ClaimInv

\* The row: the blocks beyond the owner's have nothing in them.
RowInv == \A blk \in Blocks : blk > ownerBlock => committed[blk] <= stolen[blk]

\* The list: no block is entered twice, and one not allocated is untouched.
ListInv ==
    /\ reentered = {} /\ buried = {}
    /\ next \in [Blocks -> Blocks \cup {None}]
    /\ prev \in [Blocks -> Blocks \cup {None}]
    /\ \A blk \in Blocks : prev[blk] < produced
    /\ cursor \in [Thieves -> Blocks]
    /\ \A blk \in Blocks : blk >= produced =>
          committed[blk] = 0 /\ stolen[blk] = 0

\* The list: the blocks from the head to the owner's are linked both ways, in
\* the order of their allocation, and all others have nothing in them.
Spine(A) ==
    /\ A \subseteq Blocks /\ 0 \in A /\ ownerBlock \in A
    /\ \A b \in A \ {0} : prev[b] \in A /\ prev[b] < b /\ next[prev[b]] = b
    /\ \A b, c \in A : b < c => b <= prev[c]
    /\ \A b \in A : b <= ownerBlock
    /\ \A blk \in Blocks \ A : committed[blk] <= stolen[blk]

SpineInv == prev[0] = None /\ \E A \in SUBSET Blocks : Spine(A)

-----------------------------------------------------------------------------
(* Types.                                                                  *)

\* What TypeOK says, one function at a time.
Typed ==
    /\ Owner \in Procs /\ Thieves \subseteq Procs /\ Owner \notin Thieves
    /\ NumBlocks \in Nat /\ BlockSize \in Nat \ {0} /\ MaxPut \in Nat
    /\ ownerBlock \in Blocks /\ ownerBlock \in Int
    /\ produced \in 1..NumBlocks
    /\ committed \in [Blocks -> 0..BlockSize]
    /\ stolen \in [Blocks -> 0..BlockSize]
    /\ slots \in [Blocks -> [Positions -> 0..MaxPut]]
    /\ pc \in [Procs -> {"idle"} \cup OwnerPc \cup StealPc]
    /\ DOMAIN regs = Procs
    /\ \A p \in Procs :
          /\ regs[p].blk \in Blocks /\ regs[p].t \in 0..BlockSize
          /\ regs[p].b \in 0..BlockSize /\ regs[p].bits \in 0..MaxPut
          /\ regs[p].produced \in 0..NumBlocks
    /\ NoRegs \in [blk : Blocks, t : 0..BlockSize, b : 0..BlockSize,
                   bits : 0..MaxPut, produced : 0..NumBlocks]
    /\ recipients \in Seq(Seq(Procs))
    /\ Len(recipients) \in Nat /\ DOMAIN recipients = 1..Len(recipients)

LEMMA TypeFacts == TypeOK => Typed
  <1>. SUFFICES ASSUME TypeOK PROVE Typed
    OBVIOUS
  <1>1. /\ Owner \in Procs /\ Thieves \subseteq Procs /\ Owner \notin Thieves
        /\ NumBlocks \in Nat /\ BlockSize \in Nat \ {0} /\ MaxPut \in Nat
    BY BlockAssumption DEF Procs
  <1>2. produced \in 1..NumBlocks /\ ownerBlock \in 0..produced-1
    BY DEF TypeOK
  <1>3. ownerBlock \in Blocks /\ ownerBlock \in Int /\ 0 \in Blocks
    BY <1>1, <1>2 DEF Blocks
  <1>4. NoRegs \in [blk : Blocks, t : 0..BlockSize, b : 0..BlockSize,
                    bits : 0..MaxPut, produced : 0..NumBlocks]
    BY <1>1, <1>3 DEF NoRegs
  <1>5. /\ DOMAIN regs = Procs
        /\ \A p \in Procs :
              /\ regs[p].blk \in Blocks /\ regs[p].t \in 0..BlockSize
              /\ regs[p].b \in 0..BlockSize /\ regs[p].bits \in 0..MaxPut
              /\ regs[p].produced \in 0..NumBlocks
    BY DEF TypeOK
  <1>6. recipients \in Seq(Seq(Procs))
    BY DEF TypeOK
  <1>7. Len(recipients) \in Nat /\ DOMAIN recipients = 1..Len(recipients)
    BY <1>6
  <1>. QED
    BY <1>1, <1>2, <1>3, <1>4, <1>5, <1>6, <1>7 DEF TypeOK, Typed

LEMMA PutTypes ==
    ASSUME IndInv, PutInBlock \/ PutWrite \/ PutCommit PROVE TypeOK'
  <1>0. Typed
    BY TypeFacts DEF IndInv
  <1>. USE <1>0 DEF IndInv, Typed
  <1>1. CASE PutInBlock
    BY <1>1 DEF PutInBlock, TypeOK, Goto, blockVars, historyVars, OwnerPc
  <1>2. CASE PutWrite
    <2>1. Len(recipients) + 1 \in 0..MaxPut
      BY <1>2 DEF PutWrite, OwnerInv
    <2>2. slots' \in [Blocks -> [Positions -> 0..MaxPut]]
      BY <1>2, <2>1 DEF PutWrite
    <2>. QED BY <1>2, <2>2 DEF PutWrite, TypeOK, Goto, historyVars, OwnerPc
  <1>3. CASE PutCommit
    <2>1. committed' \in [Blocks -> 0..BlockSize]
      BY SMTT(30), <1>3 DEF PutCommit, OwnerInv
    <2>2. /\ recipients' \in Seq(Seq(Procs))
          /\ DOMAIN recipients' = 1..Len(recipients) + 1
          /\ DOMAIN recipients = 1..Len(recipients)
      BY <1>3 DEF PutCommit
    <2>3. buried' \subseteq DOMAIN recipients'
      <3>1. buried' \subseteq buried \cup {Len(recipients) + 1}
        BY <1>3 DEF PutCommit
      <3>2. buried \subseteq 1..Len(recipients)
        BY <2>2 DEF TypeOK
      <3>3. 1..Len(recipients) + 1 = 1..Len(recipients) \cup {Len(recipients) + 1}
        OBVIOUS
      <3>. QED BY <2>2, <3>1, <3>2, <3>3
    <2>. QED
      BY <1>3, <2>1, <2>2, <2>3
      DEF PutCommit, TypeOK, Return, Goto
  <1>. QED BY <1>1, <1>2, <1>3

\* Handing a value out leaves a history of the same length.
LEMMA DeliverType ==
    ASSUME TypeOK, NEW k, NEW p \in Procs, Deliver(k, p)
    PROVE  recipients' \in Seq(Seq(Procs)) /\ DOMAIN recipients' = DOMAIN recipients
  <1>1. recipients \in Seq(Seq(Procs))
    BY DEF TypeOK
  <1>2. DOMAIN recipients' = DOMAIN recipients
    BY <1>1 DEF Deliver
  <1>3. CASE k \in DOMAIN recipients
    <2>1. Append(recipients[k], p) \in Seq(Procs)
      BY <1>1, <1>3
    <2>2. k \in 1..Len(recipients)
      BY <1>1, <1>3
    <2>. QED BY <1>1, <1>2, <2>1, <2>2, ExceptSeq DEF Deliver
  <1>4. CASE k \notin DOMAIN recipients
    <2>1. recipients' = recipients
      BY <1>1, <1>4 DEF Deliver
    <2>. QED BY <1>1, <2>1
  <1>. QED BY <1>2, <1>3, <1>4

\* The pop within a block.
PopInBlock ==
    \/ PopFind \/ PopDecrement \/ PopTake \/ PopFindLast \/ PopCas
    \/ PopRestore \/ PopBehind \/ PopUndo

LEMMA PopTypes == ASSUME IndInv, PopInBlock PROVE TypeOK'
  <1>0. Typed
    BY TypeFacts DEF IndInv
  <1>. USE <1>0 DEF IndInv, Typed
  <1>1. CASE PopFind
    BY <1>1 DEF PopFind, TypeOK, Goto, blockVars, historyVars, OwnerPc
  <1>2. CASE PopDecrement
    <2>1. committed' \in [Blocks -> 0..BlockSize]
      BY <1>2 DEF PopDecrement, OwnerInv
    <2>. QED BY <1>2, <2>1 DEF PopDecrement, TypeOK, Goto, historyVars, OwnerPc
  <1>3. CASE PopTake
    <2>1. recipients' \in Seq(Seq(Procs)) /\ DOMAIN recipients' = DOMAIN recipients
      BY <1>3, DeliverType DEF PopTake
    <2>. QED
      BY <1>3, <2>1 DEF PopTake, TypeOK, Goto, Return, blockVars
  <1>4. CASE PopFindLast
    <2>1. regs[Owner].b - 1 \in Positions
      BY SMTT(30), <1>4 DEF PopFindLast, Positions
    <2>2. slots[ownerBlock][regs[Owner].b - 1] \in 0..MaxPut
      BY <2>1
    <2>. QED
      BY <1>4, <2>2 DEF PopFindLast, TypeOK, Goto, blockVars, historyVars, OwnerPc
  <1>5. CASE PopCas
    <2>1. recipients' \in Seq(Seq(Procs)) /\ DOMAIN recipients' = DOMAIN recipients
      BY <1>5, DeliverType DEF PopCas
    <2>2. stolen' \in [Blocks -> 0..BlockSize]
      BY SMTT(30), <1>5 DEF PopCas, OwnerInv
    <2>3. pc' \in [Procs -> {"idle"} \cup OwnerPc \cup StealPc]
      BY <1>5 DEF PopCas, Goto, OwnerPc
    <2>. QED BY <1>5, <2>1, <2>2, <2>3 DEF PopCas, TypeOK
  <1>6. CASE PopRestore
    <2>1. committed' \in [Blocks -> 0..BlockSize]
      BY <1>6 DEF PopRestore, OwnerInv
    <2>2. pc' \in [Procs -> {"idle"} \cup OwnerPc \cup StealPc]
      BY <1>6 DEF PopRestore, Goto, OwnerPc
    <2>. QED
      BY <1>6, <2>1, <2>2 DEF PopRestore, TypeOK, historyVars
  <1>7. CASE PopBehind
    BY <1>7 DEF PopBehind, TypeOK, Goto, blockVars, historyVars, OwnerPc
  <1>8. CASE PopUndo
    <2>1. committed' \in [Blocks -> 0..BlockSize]
      BY <1>8 DEF PopUndo
    <2>. QED
      BY <1>8, <2>1 DEF PopUndo, TypeOK, Goto, historyVars, OwnerPc
  <1>. QED BY <1>1, <1>2, <1>3, <1>4, <1>5, <1>6, <1>7, <1>8 DEF PopInBlock

\* The steal within a block.
StealInBlock(p) == StealLoadTop(p) \/ StealFind(p) \/ StealRead(p) \/ StealCas(p)

LEMMA StealTypes ==
    ASSUME IndInv, NEW p \in Thieves, StealInBlock(p) PROVE TypeOK'
  <1>0. Typed
    BY TypeFacts DEF IndInv
  <1>p. p \in Procs
    BY <1>0 DEF Typed
  <1>. USE <1>0, <1>p DEF IndInv, Typed
  <1>1. CASE StealLoadTop(p)
    BY <1>1 DEF StealLoadTop, TypeOK, Goto, blockVars, historyVars, StealPc
  <1>2. CASE StealFind(p)
    BY <1>2 DEF StealFind, TypeOK, Goto, blockVars, historyVars, StealPc
  <1>3. CASE StealRead(p)
    <2>1. regs[p].t \in Positions
      <3>1. regs[p].t \in 0..BlockSize /\ regs[p].t < BlockSize
        BY <1>3 DEF StealRead, ThiefInv, ThiefAt
      <3>. QED BY <3>1 DEF Positions
    <2>2. slots[regs[p].blk] \in [Positions -> 0..MaxPut]
      OBVIOUS
    <2>3. slots[regs[p].blk][regs[p].t] \in 0..MaxPut
      BY <2>1, <2>2
    <2>. QED
      BY <1>3, <2>3 DEF StealRead, TypeOK, Goto, blockVars, historyVars, StealPc
  <1>4. CASE StealCas(p)
    <2>1. recipients' \in Seq(Seq(Procs)) /\ DOMAIN recipients' = DOMAIN recipients
      BY <1>4, DeliverType DEF StealCas
    <2>2. stolen' \in [Blocks -> 0..BlockSize]
      <3>1. regs[p].t < BlockSize
        BY <1>4 DEF StealCas, ThiefInv, ThiefAt
      <3>2. CASE stolen[regs[p].blk] = regs[p].t
        <4>1. stolen[regs[p].blk] + 1 \in 0..BlockSize
          BY SMTT(30), <3>1, <3>2
        <4>. QED BY <1>4, <3>2, <4>1 DEF StealCas
      <3>3. CASE stolen[regs[p].blk] # regs[p].t
        BY <1>4, <3>3 DEF StealCas
      <3>. QED BY <3>2, <3>3
    <2>. QED
      BY <1>4, <2>1, <2>2 DEF StealCas, TypeOK, Return, Goto
  <1>. QED BY <1>1, <1>2, <1>3, <1>4 DEF StealInBlock

-----------------------------------------------------------------------------
(* Who is where.                                                           *)

LocalInv == OwnerInv /\ BlocksInv /\ ThiefInv

\* A thief stays where it is when it takes no step, no stolen goes back, and
\* what is at a block's stolen stays there unless stolen moves.
LEMMA ThiefFrame ==
    ASSUME Typed, NEW q \in Thieves, ThiefAt(q),
           pc'[q] = pc[q], regs'[q] = regs[q],
           \A blk \in Blocks :
              /\ stolen[blk] <= stolen'[blk] /\ stolen'[blk] \in Int
              /\ stolen'[blk] = stolen[blk] /\ stolen[blk] < EffectiveCommitted(blk)
                    => stolen'[blk] < EffectiveCommitted(blk)'
    PROVE  ThiefAt(q)'
  <1>1. q \in Procs
    BY DEF Typed
  <1>2. regs[q].blk \in Blocks /\ regs[q].t \in 0..BlockSize /\ BlockSize \in Nat
    BY <1>1 DEF Typed
  <1>3. stolen[regs[q].blk] \in 0..BlockSize
    BY <1>2 DEF Typed
  <1>. QED BY <1>2, <1>3 DEF ThiefAt

LEMMA PutLocal ==
    ASSUME IndInv, PutInBlock \/ PutWrite \/ PutCommit PROVE LocalInv'
  <1>0. Typed
    BY TypeFacts DEF IndInv
  <1>. USE <1>0 DEF IndInv, Typed, LocalInv
  <1>1. CASE PutInBlock
    <2>1. OwnerInv'
      BY <1>1 DEF PutInBlock, BlockFull, OwnerInv, Goto, blockVars, historyVars, OwnerPc, Undecided
    <2>2. BlocksInv'
      BY <1>1 DEF PutInBlock, BlocksInv, Settled, Undecided, Goto, blockVars, historyVars
    <2>3. ThiefInv'
      BY <1>1 DEF PutInBlock, ThiefInv, ThiefAt, EffectiveCommitted, Goto, blockVars
    <2>. QED BY <2>1, <2>2, <2>3
  <1>2. CASE PutWrite
    <2>1. OwnerInv'
      BY <1>2 DEF PutWrite, OwnerInv, Goto, historyVars, OwnerPc, Undecided
    <2>2. BlocksInv'
      BY <1>2 DEF PutWrite, BlocksInv, Settled, Undecided, Goto, historyVars
    <2>3. ThiefInv'
      BY <1>2 DEF PutWrite, ThiefInv, ThiefAt, EffectiveCommitted, Goto
    <2>. QED BY <2>1, <2>2, <2>3
  <1>3. CASE PutCommit
    <2>1. OwnerInv'
      BY <1>3 DEF PutCommit, OwnerInv, Return, Goto, OwnerPc, Undecided
    <2>2. BlocksInv'
      BY <1>3 DEF PutCommit, OwnerInv, BlocksInv, Settled, Undecided, Return, Goto
    <2>3. ThiefInv'
      BY <1>3 DEF PutCommit, OwnerInv, ThiefInv, ThiefAt, EffectiveCommitted, Return, Goto
    <2>. QED BY <2>1, <2>2, <2>3
  <1>. QED BY <1>1, <1>2, <1>3

LEMMA PopLocal == ASSUME IndInv, PopInBlock PROVE LocalInv'
  <1>0. Typed
    BY TypeFacts DEF IndInv
  <1>. USE <1>0 DEF IndInv, Typed, LocalInv, blockVars, historyVars
  <1>1. CASE PopFind
    <2>1. OwnerInv'
      BY <1>1 DEF PopFind, MayPop, OwnerInv, Return, Goto, OwnerPc, Undecided
    <2>2. BlocksInv'
      BY <1>1 DEF PopFind, MayPop, OwnerInv, BlocksInv, Settled, Undecided, Return, Goto
    <2>3. ThiefInv'
      BY <1>1 DEF PopFind, MayPop, OwnerInv, ThiefInv, ThiefAt, EffectiveCommitted, Undecided, Return, Goto
    <2>. QED BY <2>1, <2>2, <2>3
  <1>2. CASE PopDecrement
    <2>1. OwnerInv'
      BY <1>2 DEF PopDecrement, MayPop, OwnerInv, Return, Goto, OwnerPc, Undecided
    <2>2. BlocksInv'
      BY <1>2 DEF PopDecrement, MayPop, OwnerInv, BlocksInv, Settled, Undecided, Return, Goto
    <2>3. ThiefInv'
      BY <1>2 DEF PopDecrement, MayPop, OwnerInv, ThiefInv, ThiefAt, EffectiveCommitted, Undecided, Return, Goto
    <2>. QED BY <2>1, <2>2, <2>3
  <1>3. CASE PopTake
    <2>1. OwnerInv'
      BY <1>3 DEF PopTake, MayPop, OwnerInv, Return, Goto, OwnerPc, Undecided
    <2>2. BlocksInv'
      BY <1>3 DEF PopTake, MayPop, OwnerInv, BlocksInv, Settled, Undecided, Return, Goto
    <2>3. ThiefInv'
      <3>1. \A q \in Thieves : pc'[q] = pc[q] /\ regs'[q] = regs[q]
        BY <1>3 DEF PopTake, Return, Goto
      <3>2. \A blk \in Blocks :
              /\ stolen[blk] <= stolen'[blk] /\ stolen'[blk] \in Int
              /\ stolen'[blk] = stolen[blk] /\ stolen[blk] < EffectiveCommitted(blk)
                    => stolen'[blk] < EffectiveCommitted(blk)'
        BY SMTT(30), <1>3
           DEF PopTake, OwnerInv, EffectiveCommitted, Undecided, Return, Goto
      <3>. QED BY <3>1, <3>2, ThiefFrame DEF ThiefInv
    <2>. QED BY <2>1, <2>2, <2>3
  <1>4. CASE PopFindLast
    <2>1. OwnerInv'
      BY SMTT(30), <1>4
         DEF PopFindLast, MayPop, OwnerInv, Return, Goto, OwnerPc, Undecided
    <2>2. BlocksInv'
      BY <1>4 DEF PopFindLast, MayPop, OwnerInv, BlocksInv, Settled, Undecided, Return, Goto
    <2>3. ThiefInv'
      BY <1>4 DEF PopFindLast, MayPop, OwnerInv, ThiefInv, ThiefAt, EffectiveCommitted, Undecided, Return, Goto
    <2>. QED BY <2>1, <2>2, <2>3
  <1>5. CASE PopCas
    <2>1. OwnerInv'
      BY SMTT(30), <1>5
         DEF PopCas, MayPop, OwnerInv, Return, Goto, OwnerPc, Undecided
    <2>2. BlocksInv'
      BY SMTT(30), <1>5
         DEF PopCas, MayPop, OwnerInv, BlocksInv, Settled, Undecided, Return, Goto
    <2>3. ThiefInv'
      <3>1. \A q \in Thieves : pc'[q] = pc[q] /\ regs'[q] = regs[q]
        BY <1>5 DEF PopCas, Return, Goto
      <3>2. \A blk \in Blocks :
              /\ stolen[blk] <= stolen'[blk] /\ stolen'[blk] \in Int
              /\ stolen'[blk] = stolen[blk] /\ stolen[blk] < EffectiveCommitted(blk)
                    => stolen'[blk] < EffectiveCommitted(blk)'
        BY SMTT(30), <1>5
           DEF PopCas, OwnerInv, EffectiveCommitted, Undecided, Return, Goto
      <3>. QED BY <3>1, <3>2, ThiefFrame DEF ThiefInv
    <2>. QED BY <2>1, <2>2, <2>3
  <1>6. CASE PopRestore
    <2>1. OwnerInv'
      BY <1>6 DEF PopRestore, MayPop, OwnerInv, Return, Goto, OwnerPc, Undecided
    <2>2. BlocksInv'
      BY <1>6 DEF PopRestore, MayPop, OwnerInv, BlocksInv, Settled, Undecided, Return, Goto
    <2>3. ThiefInv'
      BY <1>6 DEF PopRestore, MayPop, OwnerInv, ThiefInv, ThiefAt, EffectiveCommitted, Undecided, Return, Goto
    <2>. QED BY <2>1, <2>2, <2>3
  <1>7. CASE PopBehind
    <2>1. OwnerInv'
      BY <1>7 DEF PopBehind, MayPop, OwnerInv, Return, Goto, OwnerPc, Undecided
    <2>2. BlocksInv'
      BY <1>7 DEF PopBehind, MayPop, OwnerInv, BlocksInv, Settled, Undecided, Return, Goto
    <2>3. ThiefInv'
      <3>1. \A q \in Thieves : pc'[q] = pc[q] /\ regs'[q] = regs[q]
        BY <1>7 DEF PopBehind, Return, Goto
      <3>2. \A blk \in Blocks :
              /\ stolen[blk] <= stolen'[blk] /\ stolen'[blk] \in Int
              /\ stolen'[blk] = stolen[blk] /\ stolen[blk] < EffectiveCommitted(blk)
                    => stolen'[blk] < EffectiveCommitted(blk)'
        <4>1. /\ UNCHANGED <<stolen, committed, ownerBlock>>
              /\ pc'[Owner] = "pop_undo" /\ pc[Owner] = "pop_top"
              /\ regs[Owner].b = committed[ownerBlock] + 1
              /\ committed[ownerBlock] < stolen[ownerBlock]
          BY <1>7 DEF PopBehind, OwnerInv, Goto, Undecided
        <4>2. ASSUME NEW blk \in Blocks
              PROVE  stolen[blk] \in Int /\ committed[blk] \in Int
          OBVIOUS
        <4>. QED BY <4>1, <4>2 DEF EffectiveCommitted
      <3>. QED BY <3>1, <3>2, ThiefFrame DEF ThiefInv
    <2>. QED BY <2>1, <2>2, <2>3
  <1>8. CASE PopUndo
    <2>1. OwnerInv'
      BY <1>8 DEF PopUndo, MayPop, OwnerInv, Return, Goto, OwnerPc, Undecided
    <2>2. BlocksInv'
      BY <1>8 DEF PopUndo, MayPop, OwnerInv, BlocksInv, Settled, Undecided, Return, Goto
    <2>3. ThiefInv'
      BY <1>8 DEF PopUndo, MayPop, OwnerInv, ThiefInv, ThiefAt, EffectiveCommitted, Undecided, Return, Goto
    <2>. QED BY <2>1, <2>2, <2>3
  <1>. QED
    BY <1>1, <1>2, <1>3, <1>4, <1>5, <1>6, <1>7, <1>8 DEF PopInBlock

LEMMA StealLocal ==
    ASSUME IndInv, NEW p \in Thieves, StealInBlock(p) PROVE LocalInv'
  <1>0. Typed /\ OwnerInv /\ BlocksInv /\ ThiefInv
    BY TypeFacts DEF IndInv
  <1>1. p \in Procs /\ Owner \in Procs /\ p # Owner
    BY <1>0 DEF Typed
  <1>2. /\ \A q \in Procs \ {p} : pc'[q] = pc[q] /\ regs'[q] = regs[q]
        /\ UNCHANGED <<committed, ownerBlock, reentered>>
    BY <1>0, <1>1
    DEF StealInBlock, StealLoadTop, StealFind, StealRead, StealCas, Return,
        Goto, blockVars, historyVars, Typed
  <1>a. Len(recipients') = Len(recipients)
    <2>1. \/ UNCHANGED recipients
          \/ Deliver(regs[p].bits, p)
      BY DEF StealInBlock, StealLoadTop, StealFind, StealRead, StealCas, historyVars
    <2>2. TypeOK /\ recipients \in Seq(Seq(Procs))
      BY <1>0 DEF IndInv, Typed
    <2>. QED BY <1>1, <2>1, <2>2, DeliverType
  <1>3. \A blk : /\ EffectiveCommitted(blk)' = EffectiveCommitted(blk)
                 /\ Settled(blk)' = Settled(blk)
    BY <1>1, <1>2 DEF EffectiveCommitted, Settled
  <1>4. \/ UNCHANGED stolen
        \/ /\ stolen' = [stolen EXCEPT ![regs[p].blk] = @ + 1]
           /\ stolen[regs[p].blk] < EffectiveCommitted(regs[p].blk)
    BY <1>0
    DEF StealInBlock, StealLoadTop, StealFind, StealRead, StealCas, blockVars,
        ThiefInv, ThiefAt
  <1>5. ASSUME NEW blk \in Blocks
        PROVE  /\ \/ stolen'[blk] = stolen[blk]
                  \/ /\ stolen'[blk] = stolen[blk] + 1
                     /\ stolen'[blk] <= EffectiveCommitted(blk)
               /\ stolen[blk] \in Int /\ stolen'[blk] \in Int
               /\ EffectiveCommitted(blk) \in Int
               /\ EffectiveCommitted(blk) <= Settled(blk) /\ Settled(blk) \in Int
    <2>1. /\ stolen \in [Blocks -> 0..BlockSize] /\ stolen[blk] \in Int
          /\ committed[blk] \in Int /\ regs[p].blk \in Blocks
      BY <1>0, <1>1 DEF Typed
    <2>2. /\ EffectiveCommitted(blk) \in Int
          /\ EffectiveCommitted(blk) <= Settled(blk) /\ Settled(blk) \in Int
      BY <2>1 DEF EffectiveCommitted, Settled, Undecided
    <2>3. CASE blk = regs[p].blk
      BY <1>4, <2>1, <2>2, <2>3
    <2>4. CASE blk # regs[p].blk
      BY <1>4, <2>1, <2>2, <2>4
    <2>. QED BY <2>2, <2>3, <2>4
  <1>6. OwnerInv'
    <2>1. /\ pc'[Owner] = pc[Owner] /\ regs'[Owner] = regs[Owner]
          /\ ownerBlock \in Blocks /\ UNCHANGED <<committed, ownerBlock, reentered>>
          /\ committed[ownerBlock] \in Int /\ stolen[ownerBlock] \in Int
          /\ stolen'[ownerBlock] \in Int /\ Len(recipients') = Len(recipients)
          /\ regs[Owner].t \in Int /\ regs[Owner].b \in Int
      BY <1>0, <1>1, <1>2, <1>a, <1>5 DEF Typed
    <2>2. \/ stolen'[ownerBlock] = stolen[ownerBlock]
          \/ /\ stolen'[ownerBlock] = stolen[ownerBlock] + 1
             /\ stolen'[ownerBlock] <= EffectiveCommitted(ownerBlock)
      BY <1>5, <2>1
    <2>3. CASE stolen'[ownerBlock] = stolen[ownerBlock]
      BY <1>0, <2>1, <2>3 DEF OwnerInv
    <2>4. CASE /\ stolen'[ownerBlock] = stolen[ownerBlock] + 1
               /\ stolen'[ownerBlock] <= EffectiveCommitted(ownerBlock)
      BY <1>0, <2>1, <2>4 DEF OwnerInv, EffectiveCommitted, Undecided
    <2>. QED BY <2>2, <2>3, <2>4
  <1>7. BlocksInv'
    BY <1>0, <1>2, <1>3, <1>5 DEF BlocksInv
  <1>8. ASSUME NEW q \in Thieves \ {p} PROVE ThiefAt(q)'
    <2>1. ThiefAt(q) /\ pc'[q] = pc[q] /\ regs'[q] = regs[q]
      BY <1>0, <1>2 DEF ThiefInv, Typed
    <2>2. \A blk \in Blocks :
              /\ stolen[blk] <= stolen'[blk] /\ stolen'[blk] \in Int
              /\ stolen'[blk] = stolen[blk] /\ stolen[blk] < EffectiveCommitted(blk)
                    => stolen'[blk] < EffectiveCommitted(blk)'
      BY <1>3, <1>5
    <2>. QED BY <1>0, <2>1, <2>2, ThiefFrame
  <1>9. ThiefAt(p)'
    <2>0. /\ regs[p].blk \in Blocks /\ DOMAIN pc = Procs /\ DOMAIN regs = Procs
          /\ stolen[regs[p].blk] \in 0..BlockSize
          /\ committed[regs[p].blk] \in 0..BlockSize /\ BlockSize \in Nat
          /\ regs[p].t \in 0..BlockSize
          /\ ThiefAt(p)
      BY <1>0, <1>1 DEF Typed, ThiefInv
    <2>1. CASE StealLoadTop(p)
      <3>1. /\ regs'[p] = [regs[p] EXCEPT !.t = stolen[regs[p].blk]]
            /\ pc'[p] = "steal_bottom" /\ UNCHANGED stolen
            /\ DOMAIN regs[p] = {"blk", "t", "b", "bits", "produced"}
        BY <1>0, <1>1, <2>0, <2>1
        DEF StealLoadTop, Goto, blockVars, IndInv, TypeOK
      <3>2. regs'[p].t = stolen[regs[p].blk] /\ regs'[p].blk = regs[p].blk
        BY <3>1
      <3>. QED BY <2>0, <3>1, <3>2 DEF ThiefAt, StealPc
    <2>2. CASE StealFind(p)
      <3>1. /\ regs' = regs /\ pc'[p] = "steal_read" /\ UNCHANGED stolen
            /\ pc[p] = "steal_bottom"
            /\ regs[p].t < committed[regs[p].blk]
        BY <1>1, <2>0, <2>2 DEF StealFind, Goto, blockVars
      <3>2. regs[p].t <= stolen[regs[p].blk]
        BY <2>0, <3>1 DEF ThiefAt
      <3>3. regs[p].t < EffectiveCommitted(regs[p].blk) /\ regs[p].t < BlockSize
        BY <2>0, <3>1 DEF EffectiveCommitted
      <3>. QED
        BY <1>3, <3>1, <3>2, <3>3 DEF ThiefAt, StealPc
    <2>3. CASE StealRead(p)
      <3>1. /\ regs'[p].t = regs[p].t /\ regs'[p].blk = regs[p].blk
            /\ pc[p] = "steal_read" /\ pc'[p] = "steal_cas" /\ UNCHANGED stolen
        BY <1>0, <1>1, <2>0, <2>3 DEF StealRead, Goto, blockVars, IndInv, TypeOK
      <3>. QED BY <2>0, <1>3, <3>1 DEF ThiefAt, StealPc
    <2>4. CASE StealCas(p)
      BY <1>1, <2>0, <2>4 DEF StealCas, Return, Goto, ThiefAt
    <2>. QED BY <2>1, <2>2, <2>3, <2>4 DEF StealInBlock
  <1>. QED BY <1>6, <1>7, <1>8, <1>9 DEF LocalInv, ThiefInv

-----------------------------------------------------------------------------
(* What is in the live slots.                                              *)

\* A step that changes neither the live slots nor what has been handed out.
LEMMA ContentFrame ==
    ASSUME ContentInv, UNCHANGED <<recipients, buried>>,
           \A blk \in Blocks, i \in Positions :
              /\ LiveAt(blk, i)' <=> LiveAt(blk, i)
              /\ LiveAt(blk, i) => slots'[blk][i] = slots[blk][i]
    PROVE  ContentInv'
  <1>1. AtMostOnce' /\ Undelivered' = Undelivered /\ buried' = buried
    BY DEF ContentInv, AtMostOnce, Undelivered
  <1>. QED BY <1>1 DEF ContentInv

\* The value of one live slot is handed out, and the slot is live no more.
LEMMA ContentTake ==
    ASSUME TypeOK, ContentInv, NEW p \in Procs,
           NEW b \in Blocks, NEW e \in Positions, LiveAt(b, e),
           Deliver(slots[b][e], p), UNCHANGED <<slots, buried>>,
           \A blk \in Blocks, i \in Positions :
              LiveAt(blk, i)' <=> LiveAt(blk, i) /\ ~(blk = b /\ i = e)
    PROVE  ContentInv'
  <1> DEFINE v == slots[b][e]
  <1>1. v \in Undelivered /\ v \notin buried
    BY DEF ContentInv
  <1>2. v \in DOMAIN recipients /\ recipients[v] = <<>>
    BY <1>1 DEF Undelivered
  <1>3. DOMAIN recipients' = DOMAIN recipients
    BY DeliverType
  <1>4. /\ recipients'[v] = <<p>>
        /\ \A k \in DOMAIN recipients \ {v} : recipients'[k] = recipients[k]
    BY <1>2 DEF Deliver
  <1>5. Len(recipients'[v]) = 1 /\ recipients'[v] # <<>>
    BY <1>4
  <1>. HIDE DEF v
  <1>6. AtMostOnce'
    <2>1. ASSUME NEW k \in DOMAIN recipients PROVE Len(recipients'[k]) <= 1
      <3>1. Len(recipients[k]) <= 1
        BY DEF ContentInv, AtMostOnce
      <3>2. CASE k = v
        <4>1. Len(recipients'[k]) = 1
          BY <1>5, <3>2
        <4>. QED BY <4>1
      <3>3. CASE k # v
        <4>1. recipients'[k] = recipients[k]
          BY <1>4, <3>3
        <4>. QED BY <3>1, <4>1
      <3>. QED BY <3>2, <3>3
    <2>. QED BY <1>3, <2>1 DEF AtMostOnce
  <1>7. Undelivered' = Undelivered \ {v}
    BY <1>2, <1>3, <1>4, <1>5 DEF Undelivered
  <1>8. buried' \subseteq Undelivered'
    BY <1>1, <1>7 DEF ContentInv
  <1>9. ASSUME NEW blk \in Blocks, NEW i \in Positions, LiveAt(blk, i)'
        PROVE  slots'[blk][i] \in (Undelivered \ buried)'
    BY <1>7, <1>9 DEF ContentInv, v
  <1>10. \A blk1, blk2 \in Blocks, i, j \in Positions :
            LiveAt(blk1, i)' /\ LiveAt(blk2, j)'
            /\ slots'[blk1][i] = slots'[blk2][j] => blk1 = blk2 /\ i = j
    BY DEF ContentInv
  <1>11. ASSUME NEW k \in (Undelivered \ buried)'
         PROVE  \E blk \in Blocks, i \in Positions :
                   LiveAt(blk, i)' /\ slots'[blk][i] = k
    <2>1. k \in Undelivered \ buried /\ k # v
      BY <1>7
    <2>2. PICK blk \in Blocks, i \in Positions : LiveAt(blk, i) /\ slots[blk][i] = k
      BY <2>1 DEF ContentInv
    <2>3. ~(blk = b /\ i = e)
      BY <2>1, <2>2 DEF v
    <2>. QED BY <2>2, <2>3
  <1>. QED BY <1>6, <1>8, <1>9, <1>10, <1>11 DEF ContentInv

\* What is live is told by where stolen and committed stand.
SameLive(blk) ==
    \/ /\ stolen'[blk] = stolen[blk]
       /\ EffectiveCommitted(blk)' = EffectiveCommitted(blk)
    \/ /\ EffectiveCommitted(blk) <= stolen[blk]
       /\ EffectiveCommitted(blk)' <= stolen'[blk]

LEMMA LiveFrame ==
    ASSUME NEW blk, SameLive(blk),
           stolen[blk] \in Int, EffectiveCommitted(blk) \in Int,
           stolen'[blk] \in Int, EffectiveCommitted(blk)' \in Int
    PROVE  \A i : LiveAt(blk, i)' <=> LiveAt(blk, i)
  <1>1. CASE /\ stolen'[blk] = stolen[blk]
             /\ EffectiveCommitted(blk)' = EffectiveCommitted(blk)
    BY <1>1 DEF LiveAt
  <1>2. CASE /\ EffectiveCommitted(blk) <= stolen[blk]
             /\ EffectiveCommitted(blk)' <= stolen'[blk]
    <2>1. stolen[blk]..EffectiveCommitted(blk)-1 = {}
      BY <1>2
    <2>2. stolen'[blk]..EffectiveCommitted(blk)'-1 = {}
      BY <1>2
    <2>. QED BY <2>1, <2>2 DEF LiveAt
  <1>. QED BY <1>1, <1>2 DEF SameLive

\* Where a block's ends stand before a step and, as both keep their type, after.
LEMMA EndsType ==
    ASSUME TypeOK, NEW blk \in Blocks
    PROVE  /\ stolen[blk] \in 0..BlockSize /\ committed[blk] \in 0..BlockSize
           /\ EffectiveCommitted(blk) \in Int /\ BlockSize \in Nat
  BY TypeFacts DEF Typed, EffectiveCommitted

\* The value a thief has read stays in its slot while no one else claims it.
LEMMA ClaimFrame ==
    ASSUME Typed, NEW q \in Thieves, ThiefAt(q), ThiefClaim(q),
           pc'[q] = pc[q], regs'[q] = regs[q],
           \A blk \in Blocks :
              /\ stolen[blk] \in Int /\ stolen'[blk] \in Int
              /\ stolen[blk] <= stolen'[blk]
              /\ EffectiveCommitted(blk) \in Int,
           \A blk \in Blocks, i \in Positions :
              LiveAt(blk, i) => slots'[blk][i] = slots[blk][i]
    PROVE  ThiefClaim(q)'
  <1>1. q \in Procs
    BY DEF Typed
  <1>2. /\ regs[q].blk \in Blocks /\ regs[q].t \in 0..BlockSize
        /\ BlockSize \in Nat
    BY <1>1 DEF Typed
  <1>3. SUFFICES ASSUME pc[q] = "steal_cas", regs[q].t = stolen'[regs[q].blk]
                 PROVE  regs[q].bits = slots'[regs[q].blk][regs[q].t]
    BY DEF ThiefClaim
  <1>4. /\ regs[q].t = stolen[regs[q].blk] /\ regs[q].t < BlockSize
        /\ regs[q].t < EffectiveCommitted(regs[q].blk)
    BY <1>2, <1>3 DEF ThiefAt
  <1>5. regs[q].t \in Positions /\ LiveAt(regs[q].blk, regs[q].t)
    BY <1>2, <1>4 DEF Positions, LiveAt
  <1>. QED BY <1>2, <1>3, <1>4, <1>5 DEF ThiefClaim

\* A value put has nobody yet.
LEMMA PutHistory ==
    ASSUME TypeOK, recipients' = Append(recipients, <<>>), AtMostOnce
    PROVE  /\ Undelivered' = Undelivered \cup {Len(recipients) + 1}
           /\ Len(recipients) + 1 \notin DOMAIN recipients
           /\ AtMostOnce'
  <1>1. recipients \in Seq(Seq(Procs))
    BY DEF TypeOK
  <1>2. /\ DOMAIN recipients = 1..Len(recipients) /\ Len(recipients) \in Nat
        /\ DOMAIN recipients' = 1..Len(recipients) + 1
        /\ \A k \in 1..Len(recipients) : recipients'[k] = recipients[k]
        /\ recipients'[Len(recipients) + 1] = <<>>
    BY <1>1
  <1>3. 1..Len(recipients) + 1 = 1..Len(recipients) \cup {Len(recipients) + 1}
        /\ Len(recipients) + 1 \notin 1..Len(recipients)
    BY <1>2
  <1>4. Len(recipients'[Len(recipients) + 1]) <= 1
    BY <1>2
  <1>5. AtMostOnce'
    BY <1>2, <1>3, <1>4 DEF AtMostOnce
  <1>6. Undelivered' = Undelivered \cup {Len(recipients) + 1}
    BY <1>2, <1>3 DEF Undelivered
  <1>. QED BY <1>2, <1>3, <1>5, <1>6

\* A value is put: the slot it is in becomes live.
LEMMA ContentPut ==
    ASSUME TypeOK, ContentInv, recipients' = Append(recipients, <<>>),
           UNCHANGED <<slots, buried>>, NEW b \in Blocks, NEW e \in Positions,
           slots[b][e] = Len(recipients) + 1,
           \A blk \in Blocks, i \in Positions :
              LiveAt(blk, i)' <=> LiveAt(blk, i) \/ (blk = b /\ i = e)
    PROVE  ContentInv'
  <1> DEFINE n == Len(recipients) + 1
  <1>1. /\ Undelivered' = Undelivered \cup {n}
        /\ n \notin DOMAIN recipients /\ AtMostOnce'
    BY PutHistory DEF ContentInv
  <1>2. n \notin Undelivered /\ n \notin buried /\ slots[b][e] = n
    BY <1>1 DEF ContentInv, Undelivered
  <1>. HIDE DEF n
  <1>3. (Undelivered \ buried)' = (Undelivered \ buried) \cup {n}
    BY <1>1, <1>2
  <1>4. buried' \subseteq Undelivered'
    BY <1>1 DEF ContentInv
  <1>5. ASSUME NEW blk \in Blocks, NEW i \in Positions, LiveAt(blk, i)'
        PROVE  slots'[blk][i] \in (Undelivered \ buried)'
    BY <1>2, <1>3, <1>5 DEF ContentInv
  <1>6. ASSUME NEW blk1 \in Blocks, NEW blk2 \in Blocks,
               NEW i \in Positions, NEW j \in Positions,
               LiveAt(blk1, i)', LiveAt(blk2, j)',
               slots'[blk1][i] = slots'[blk2][j]
        PROVE  blk1 = blk2 /\ i = j
    BY <1>2, <1>6 DEF ContentInv
  <1>7. ASSUME NEW k \in (Undelivered \ buried)'
        PROVE  \E blk \in Blocks, i \in Positions :
                  LiveAt(blk, i)' /\ slots'[blk][i] = k
    <2>1. CASE k = n
      BY <1>2, <2>1
    <2>2. CASE k \in Undelivered \ buried
      BY <2>2 DEF ContentInv
    <2>. QED BY <1>3, <2>1, <2>2
  <1>. QED BY <1>1, <1>4, <1>5, <1>6, <1>7 DEF ContentInv

\* A value is put where no thief looks any more.
LEMMA ContentBury ==
    ASSUME TypeOK, ContentInv, recipients' = Append(recipients, <<>>),
           UNCHANGED slots, buried' = buried \cup {Len(recipients) + 1},
           \A blk \in Blocks, i \in Positions : LiveAt(blk, i)' <=> LiveAt(blk, i)
    PROVE  ContentInv'
  <1> DEFINE n == Len(recipients) + 1
  <1>1. /\ Undelivered' = Undelivered \cup {n}
        /\ n \notin DOMAIN recipients /\ AtMostOnce'
    BY PutHistory DEF ContentInv
  <1>2. n \notin Undelivered /\ buried' = buried \cup {n}
    BY <1>1 DEF Undelivered
  <1>. HIDE DEF n
  <1>3. (Undelivered \ buried)' = Undelivered \ buried
    BY <1>1, <1>2
  <1>4. buried' \subseteq Undelivered'
    BY <1>1, <1>2 DEF ContentInv
  <1>. QED BY <1>1, <1>3, <1>4 DEF ContentInv

\* A step that moves neither values nor live slots.
Quiet ==
    /\ UNCHANGED <<slots, recipients, buried>>
    /\ \A blk \in Blocks : SameLive(blk) /\ stolen[blk] <= stolen'[blk]

LEMMA QuietStep ==
    ASSUME IndInv, TypeOK', Quiet
    PROVE  /\ ContentInv'
           /\ \A q \in Thieves : pc'[q] = pc[q] /\ regs'[q] = regs[q]
                                    => ThiefClaim(q)'
  <1>1. ASSUME NEW blk \in Blocks
        PROVE  /\ stolen[blk] \in Int /\ EffectiveCommitted(blk) \in Int
               /\ stolen'[blk] \in Int /\ EffectiveCommitted(blk)' \in Int
    <2>1. stolen[blk] \in Int /\ EffectiveCommitted(blk) \in Int
      BY EndsType DEF IndInv
    <2>2. stolen'[blk] \in Int /\ EffectiveCommitted(blk)' \in Int
      <3>1. /\ stolen' \in [Blocks -> 0..BlockSize] /\ BlockSize \in Nat
            /\ committed' \in [Blocks -> 0..BlockSize]
        BY BlockAssumption DEF TypeOK
      <3>2. stolen'[blk] \in Int /\ committed'[blk] \in Int
        BY <3>1
      <3>. QED BY <3>2 DEF EffectiveCommitted
    <2>. QED BY <2>1, <2>2
  <1>2. \A blk \in Blocks, i \in Positions : LiveAt(blk, i)' <=> LiveAt(blk, i)
    BY <1>1, LiveFrame DEF Quiet
  <1>3. ContentInv'
    BY <1>2, ContentFrame DEF Quiet, IndInv
  <1>4. ASSUME NEW q \in Thieves, pc'[q] = pc[q], regs'[q] = regs[q]
        PROVE  ThiefClaim(q)'
    <2>1. Typed /\ ThiefAt(q) /\ ThiefClaim(q)
      BY TypeFacts DEF IndInv, ThiefInv, ClaimInv
    <2>. QED BY <1>1, <1>4, <2>1, ClaimFrame DEF Quiet
  <1>. QED BY <1>3, <1>4

LEMMA PutContent ==
    ASSUME IndInv, PutInBlock \/ PutWrite \/ PutCommit
    PROVE  ContentInv' /\ ClaimInv'
  <1>0. Typed /\ OwnerInv /\ BlocksInv /\ ThiefInv /\ ContentInv /\ ClaimInv
        /\ TypeOK /\ TypeOK'
    BY TypeFacts, PutTypes DEF IndInv
  <1>1. /\ Owner \in Procs /\ Thieves \subseteq Procs /\ Owner \notin Thieves
        /\ DOMAIN regs = Procs /\ DOMAIN pc = Procs /\ ownerBlock \in Blocks
        /\ regs[Owner].b \in 0..BlockSize /\ BlockSize \in Nat
        /\ DOMAIN committed = Blocks /\ DOMAIN slots = Blocks
        /\ \A blk \in Blocks : DOMAIN slots[blk] = Positions
    BY <1>0 DEF Typed
  <1>2. \A q \in Thieves : pc'[q] = pc[q] /\ regs'[q] = regs[q]
    BY <1>1 DEF PutInBlock, PutWrite, PutCommit, Return, Goto
  <1>3. \A blk \in Blocks : /\ stolen[blk] \in Int /\ committed[blk] \in Int
                             /\ EffectiveCommitted(blk) \in Int
                             /\ EffectiveCommitted(blk)' \in Int
    <2>1. /\ committed' \in [Blocks -> 0..BlockSize]
          /\ committed \in [Blocks -> 0..BlockSize]
          /\ stolen \in [Blocks -> 0..BlockSize]
      BY <1>0 DEF TypeOK
    <2>. QED BY <1>1, <2>1 DEF EffectiveCommitted
  <1>4. CASE PutInBlock
    <2>1. Quiet
      BY <1>1, <1>3, <1>4
      DEF PutInBlock, Goto, Quiet, SameLive, EffectiveCommitted, blockVars,
          historyVars
    <2>2. OwnerClaim'
      BY <1>1, <1>4 DEF PutInBlock, Goto, OwnerClaim
    <2>. QED BY <1>0, <1>2, <2>1, <2>2, QuietStep DEF ClaimInv
  <1>5. CASE PutWrite
    <2>1. /\ UNCHANGED <<committed, stolen, ownerBlock, regs, recipients, buried>>
          /\ pc[Owner] = "put_write" /\ pc'[Owner] = "put_commit"
          /\ slots' = [slots EXCEPT ![ownerBlock][regs[Owner].b] =
                                        Len(recipients) + 1]
      BY <1>1, <1>5 DEF PutWrite, Goto, historyVars
    <2>2. \A blk \in Blocks : EffectiveCommitted(blk) = committed[blk]
                               /\ EffectiveCommitted(blk)' = committed[blk]
      BY <2>1 DEF EffectiveCommitted
    <2>3. \A blk \in Blocks, i \in Positions : LiveAt(blk, i)' <=> LiveAt(blk, i)
      BY <2>1, <2>2 DEF LiveAt
    <2>4. /\ regs[Owner].b < BlockSize
          /\ regs[Owner].b = committed[ownerBlock]
             \/ committed[ownerBlock] <= stolen[ownerBlock]
      BY <1>0, <2>1 DEF OwnerInv
    <2>5. ~LiveAt(ownerBlock, regs[Owner].b)
      BY <1>1, <1>3, <2>2, <2>4 DEF LiveAt
    <2>6. regs[Owner].b \in Positions
      BY <1>1, <2>4 DEF Positions
    <2>7. \A blk \in Blocks, i \in Positions :
             LiveAt(blk, i) => slots'[blk][i] = slots[blk][i]
      BY <1>1, <2>1, <2>5
    <2>8. ContentInv'
      BY <1>0, <2>1, <2>3, <2>7, ContentFrame
    <2>9. OwnerClaim'
      BY <1>1, <2>1, <2>6 DEF OwnerClaim
    <2>10. ASSUME NEW q \in Thieves PROVE ThiefClaim(q)'
      <3>1. ThiefAt(q) /\ ThiefClaim(q)
        BY <1>0 DEF ThiefInv, ClaimInv
      <3>2. \A blk \in Blocks :
               /\ stolen[blk] \in Int /\ stolen'[blk] \in Int
               /\ stolen[blk] <= stolen'[blk]
               /\ EffectiveCommitted(blk) \in Int
        BY <1>3, <2>1
      <3>. QED BY <1>0, <1>2, <2>7, <3>1, <3>2, ClaimFrame
    <2>. QED BY <2>8, <2>9, <2>10 DEF ClaimInv
  <1>6. CASE PutCommit
    <2> DEFINE b == regs[Owner].b
    <2>1. /\ UNCHANGED <<stolen, slots, ownerBlock>>
          /\ pc[Owner] = "put_commit" /\ pc'[Owner] = "idle"
          /\ committed' = [committed EXCEPT ![ownerBlock] = b + 1]
          /\ recipients' = Append(recipients, <<>>)
          /\ buried' = IF ownerBlock \in reentered /\ b < stolen[ownerBlock]
                       THEN buried \cup {Len(recipients) + 1} ELSE buried
      BY <1>1, <1>6 DEF PutCommit, Return, Goto
    <2>2. /\ b < BlockSize /\ b \in Positions
          /\ \/ b = committed[ownerBlock]
             \/ b = 0 /\ committed[ownerBlock] <= stolen[ownerBlock]
          /\ slots[ownerBlock][b] = Len(recipients) + 1
      BY <1>0, <1>1, <2>1 DEF OwnerInv, Positions, ClaimInv, OwnerClaim
    <2>3. /\ \A blk \in Blocks : EffectiveCommitted(blk) = committed[blk]
          /\ \A blk \in Blocks \ {ownerBlock} :
                EffectiveCommitted(blk)' = committed[blk]
          /\ EffectiveCommitted(ownerBlock)' = b + 1
      BY <1>1, <2>1 DEF EffectiveCommitted
    <2>. HIDE DEF b
    <2>4. \A blk \in Blocks \ {ownerBlock} : \A i :
              LiveAt(blk, i)' <=> LiveAt(blk, i)
      BY <2>1, <2>3 DEF LiveAt
    <2>5. ContentInv'
      <3>0. stolen[ownerBlock] \in 0..BlockSize /\ committed[ownerBlock] \in 0..BlockSize
            /\ b \in 0..BlockSize
        BY <1>0, <1>1 DEF TypeOK, b
      <3>1. CASE stolen[ownerBlock] <= b
        <4>1. ASSUME NEW blk \in Blocks, blk = ownerBlock
              PROVE  \A i \in Int : LiveAt(blk, i)' <=> LiveAt(blk, i) \/ i = b
          <5>1. EffectiveCommitted(blk)' = b + 1 /\ EffectiveCommitted(blk) = committed[blk]
            BY <2>1, <2>3, <4>1
          <5>. QED BY <2>1, <2>2, <3>0, <3>1, <4>1, <5>1 DEF LiveAt
        <4>2. \A blk \in Blocks, i \in Positions :
                 LiveAt(blk, i)' <=> LiveAt(blk, i) \/ (blk = ownerBlock /\ i = b)
          BY <1>1, <2>4, <4>1 DEF Positions
        <4>3. buried' = buried
          BY <1>1, <2>1, <3>0, <3>1
        <4>. QED
          BY <1>0, <1>1, <2>1, <2>2, <4>2, <4>3, ContentPut
      <3>2. CASE b < stolen[ownerBlock]
        <4>1. ownerBlock \in reentered
          BY <1>0, <1>1, <2>1, <2>2, <3>0, <3>2 DEF BlocksInv, Settled, Undecided, OwnerInv, b
        <4>2. ASSUME NEW blk \in Blocks, blk = ownerBlock
              PROVE  \A i : ~LiveAt(blk, i) /\ ~LiveAt(blk, i)'
          <5>1. EffectiveCommitted(blk)' = b + 1 /\ EffectiveCommitted(blk) = committed[blk]
            BY <2>1, <2>3, <4>2
          <5>. QED BY <2>1, <2>2, <3>0, <3>2, <4>2, <5>1 DEF LiveAt
        <4>3. \A blk \in Blocks, i \in Positions :
                 LiveAt(blk, i)' <=> LiveAt(blk, i)
          BY <2>4, <4>2
        <4>. QED BY <1>0, <2>1, <3>2, <4>1, <4>3, ContentBury
      <3>. QED BY <3>0, <3>1, <3>2
    <2>6. OwnerClaim'
      BY <2>1 DEF OwnerClaim
    <2>7. ASSUME NEW q \in Thieves PROVE ThiefClaim(q)'
      <3>1. ThiefAt(q) /\ ThiefClaim(q)
        BY <1>0 DEF ThiefInv, ClaimInv
      <3>2. \A blk \in Blocks :
               /\ stolen[blk] \in Int /\ stolen'[blk] \in Int
               /\ stolen[blk] <= stolen'[blk]
               /\ EffectiveCommitted(blk) \in Int
        BY <1>3, <2>1
      <3>. QED BY <1>0, <1>2, <2>1, <3>1, <3>2, ClaimFrame
    <2>. QED BY <2>5, <2>6, <2>7 DEF ClaimInv
  <1>. QED BY <1>4, <1>5, <1>6

\* What a thief has claimed survives a take of anybody else's.
LEMMA ClaimKept ==
    ASSUME IndInv, NEW q \in Thieves, pc'[q] = pc[q], regs'[q] = regs[q],
           UNCHANGED slots,
           \A blk \in Blocks : stolen'[blk] \in Int /\ stolen[blk] <= stolen'[blk]
    PROVE  ThiefClaim(q)'
  <1>1. Typed /\ ThiefAt(q) /\ ThiefClaim(q)
    BY TypeFacts DEF IndInv, ThiefInv, ClaimInv
  <1>2. \A blk \in Blocks : stolen[blk] \in Int /\ EffectiveCommitted(blk) \in Int
    BY EndsType DEF IndInv
  <1>. QED BY <1>1, <1>2, ClaimFrame

\* The slot that the owner's undecided pop is after.
LEMMA OwnerTakes ==
    ASSUME IndInv, NEW e \in Positions, pc[Owner] \in {"pop_top", "pop_cas"},
           e = committed[ownerBlock], stolen[ownerBlock] <= e,
           Deliver(slots[ownerBlock][e], Owner),
           UNCHANGED <<slots, buried, committed, ownerBlock>>,
           \/ UNCHANGED stolen
           \/ /\ stolen[ownerBlock] = e
              /\ stolen' = [stolen EXCEPT ![ownerBlock] = @ + 1],
           pc'[Owner] \notin {"pop_top", "pop_cas"}
    PROVE  ContentInv'
  <1>1. Typed /\ TypeOK /\ ContentInv
    BY TypeFacts DEF IndInv
  <1>2. /\ ownerBlock \in Blocks /\ Owner \in Procs
        /\ committed \in [Blocks -> 0..BlockSize]
        /\ stolen \in [Blocks -> 0..BlockSize] /\ BlockSize \in Nat
    BY <1>1 DEF Typed
  <1>3. e \in Int /\ e < BlockSize
    BY <1>2 DEF Positions
  <1>4. LiveAt(ownerBlock, e)
    BY <1>2, <1>3 DEF LiveAt, EffectiveCommitted
  <1>5. ASSUME NEW blk \in Blocks, NEW i \in Positions
        PROVE  LiveAt(blk, i)' <=> LiveAt(blk, i) /\ ~(blk = ownerBlock /\ i = e)
    <2>1. i \in Int /\ stolen[blk] \in Int /\ committed[blk] \in Int
      BY <1>2 DEF Positions
    <2>2. EffectiveCommitted(blk)' = committed[blk]
      BY DEF EffectiveCommitted
    <2>3. CASE blk = ownerBlock
      <3>1. EffectiveCommitted(blk) = e + 1 /\ EffectiveCommitted(blk)' = e
        BY <2>2, <2>3 DEF EffectiveCommitted
      <3>2. \/ stolen'[blk] = stolen[blk]
            \/ stolen[blk] = e /\ stolen'[blk] = e + 1
        BY <1>2, <2>3
      <3>. QED BY <1>3, <2>1, <2>3, <3>1, <3>2 DEF LiveAt
    <2>4. CASE blk # ownerBlock
      <3>1. EffectiveCommitted(blk) = committed[blk] /\ stolen'[blk] = stolen[blk]
        BY <1>2, <2>4 DEF EffectiveCommitted
      <3>. QED BY <2>2, <2>4, <3>1 DEF LiveAt
    <2>. QED BY <2>3, <2>4
  <1>. QED BY <1>1, <1>2, <1>4, <1>5, ContentTake

LEMMA PopContent == ASSUME IndInv, PopInBlock PROVE ContentInv' /\ ClaimInv'
  <1>0. Typed /\ OwnerInv /\ ContentInv /\ ClaimInv /\ TypeOK /\ TypeOK'
    BY TypeFacts, PopTypes DEF IndInv
  <1>1. /\ Owner \in Procs /\ Thieves \subseteq Procs /\ Owner \notin Thieves
        /\ DOMAIN regs = Procs /\ DOMAIN pc = Procs /\ ownerBlock \in Blocks
        /\ regs[Owner].b \in 0..BlockSize /\ regs[Owner].t \in 0..BlockSize
        /\ BlockSize \in Nat
        /\ committed \in [Blocks -> 0..BlockSize]
        /\ stolen \in [Blocks -> 0..BlockSize]
    BY <1>0 DEF Typed
  <1>2. /\ \A q \in Thieves : pc'[q] = pc[q] /\ regs'[q] = regs[q]
        /\ UNCHANGED <<slots, buried, ownerBlock>>
    BY <1>1 DEF PopInBlock, PopFind, PopDecrement, PopTake, PopFindLast, PopCas,
                PopRestore, PopBehind, PopUndo, Return, Goto, blockVars, historyVars
  <1>3. \A blk \in Blocks : /\ stolen[blk] \in Int /\ committed[blk] \in Int
                             /\ stolen'[blk] \in Int /\ committed'[blk] \in Int
    <2>1. /\ committed' \in [Blocks -> 0..BlockSize]
          /\ stolen' \in [Blocks -> 0..BlockSize]
      BY <1>0 DEF TypeOK
    <2>. QED BY <1>1, <2>1
  <1>4. Quiet => /\ ContentInv' /\ \A q \in Thieves : ThiefClaim(q)'
    BY <1>0, <1>2, QuietStep
  <1>5. \A blk \in Blocks : stolen[blk] <= stolen'[blk]
    BY <1>1, <1>3 DEF PopInBlock, PopFind, PopDecrement, PopTake, PopFindLast, PopCas,
                PopRestore, PopBehind, PopUndo, blockVars
  <1>6. \A q \in Thieves : ThiefClaim(q)'
    BY <1>2, <1>3, <1>5, ClaimKept
  <1>7. CASE PopFind
    <2>1. Quiet
      BY <1>1, <1>2, <1>3, <1>7
      DEF PopFind, MayPop, Goto, Quiet, SameLive, EffectiveCommitted, blockVars, historyVars
    <2>2. OwnerClaim'
      BY <1>1, <1>7 DEF PopFind, Goto, OwnerClaim
    <2>. QED BY <1>4, <1>6, <2>1, <2>2 DEF ClaimInv
  <1>8. CASE PopDecrement
    <2>0. regs[Owner].b = committed[ownerBlock]
      BY <1>0, <1>8 DEF PopDecrement, OwnerInv
    <2>1. Quiet
      BY <1>1, <1>2, <1>3, <1>8, <2>0
      DEF PopDecrement, Goto, Quiet, SameLive, EffectiveCommitted, historyVars
    <2>2. OwnerClaim'
      BY <1>1, <1>8 DEF PopDecrement, Goto, OwnerClaim
    <2>. QED BY <1>4, <1>6, <2>1, <2>2 DEF ClaimInv
  <1>9. CASE PopTake
    <2>1. /\ pc[Owner] = "pop_top" /\ pc'[Owner] = "idle"
          /\ stolen[ownerBlock] < regs[Owner].b - 1
          /\ regs[Owner].b - 1 = committed[ownerBlock]
          /\ Deliver(slots[ownerBlock][regs[Owner].b - 1], Owner)
          /\ UNCHANGED <<stolen, committed>>
      BY <1>0, <1>1, <1>3, <1>9 DEF PopTake, OwnerInv, Undecided, Return, Goto, blockVars
    <2>2. regs[Owner].b - 1 \in Positions /\ stolen[ownerBlock] <= regs[Owner].b - 1
      BY <1>1, <1>3, <2>1 DEF Positions
    <2>3. ContentInv'
      BY <1>1, <1>2, <2>1, <2>2, OwnerTakes
    <2>4. OwnerClaim'
      BY <2>1 DEF OwnerClaim
    <2>. QED BY <1>6, <2>3, <2>4 DEF ClaimInv
  <1>10. CASE PopFindLast
    <2>0. regs[Owner].b - 1 = committed[ownerBlock]
      BY <1>0, <1>1, <1>10 DEF PopFindLast, OwnerInv, Undecided
    <2>1. Quiet
      BY <1>1, <1>2, <1>3, <1>10
      DEF PopFindLast, Goto, Quiet, SameLive, EffectiveCommitted, blockVars, historyVars
    <2>2. OwnerClaim'
      <3>1. /\ pc'[Owner] = "pop_cas" /\ UNCHANGED <<slots, ownerBlock>>
            /\ regs[Owner].b - 1 = stolen[ownerBlock]
            /\ regs'[Owner].t = stolen[ownerBlock]
            /\ regs'[Owner].bits = slots[ownerBlock][regs[Owner].b - 1]
        BY <1>0, <1>1, <1>10 DEF PopFindLast, Goto, blockVars, TypeOK
      <3>. QED BY <3>1 DEF OwnerClaim
    <2>. QED BY <1>4, <1>6, <2>1, <2>2 DEF ClaimInv
  <1>11. CASE PopCas
    <2>1. /\ pc[Owner] = "pop_cas" /\ regs[Owner].t = committed[ownerBlock]
          /\ regs[Owner].t < BlockSize /\ regs[Owner].t <= stolen[ownerBlock]
          /\ regs[Owner].bits = slots[ownerBlock][regs[Owner].t]
          /\ pc'[Owner] \in {"pop_won", "pop_lost"} /\ UNCHANGED committed
          /\ stolen[ownerBlock] <= committed[ownerBlock] + 1
      BY <1>0, <1>1, <1>11
      DEF PopCas, OwnerInv, Undecided, ClaimInv, OwnerClaim, Goto
    <2>2. OwnerClaim'
      BY <2>1 DEF OwnerClaim
    <2>3. CASE stolen[ownerBlock] = regs[Owner].t
      <3>1. regs[Owner].t \in Positions /\ stolen[ownerBlock] <= regs[Owner].t
        BY <1>1, <1>3, <2>1, <2>3 DEF Positions
      <3>2. /\ stolen' = [stolen EXCEPT ![ownerBlock] = @ + 1]
            /\ Deliver(slots[ownerBlock][regs[Owner].t], Owner)
        BY <1>11, <2>1, <2>3 DEF PopCas
      <3>3. ContentInv'
        BY <1>1, <1>2, <2>1, <2>3, <3>1, <3>2, OwnerTakes
      <3>. QED BY <1>6, <2>2, <3>3 DEF ClaimInv
    <2>4. CASE stolen[ownerBlock] # regs[Owner].t
      <3>1. /\ UNCHANGED <<stolen, recipients>>
            /\ stolen[ownerBlock] = committed[ownerBlock] + 1
        BY <1>1, <1>3, <1>11, <2>1, <2>4 DEF PopCas
      <3>2. Quiet
        BY <1>2, <1>3, <2>1, <3>1 DEF Quiet, SameLive, EffectiveCommitted
      <3>. QED BY <1>4, <1>6, <2>2, <3>2 DEF ClaimInv
    <2>. QED BY <2>3, <2>4
  <1>12. CASE PopRestore
    <2>1. /\ pc[Owner] \in {"pop_won", "pop_lost"}
          /\ pc'[Owner] \in {"idle", "pop_again"}
          /\ stolen[ownerBlock] = committed[ownerBlock] + 1
          /\ committed' = [committed EXCEPT ![ownerBlock] = committed[ownerBlock] + 1]
          /\ UNCHANGED <<stolen, recipients>>
      BY <1>0, <1>1, <1>12 DEF PopRestore, OwnerInv, Goto, historyVars
    <2>2. Quiet
      BY <1>1, <1>2, <1>3, <2>1 DEF Quiet, SameLive, EffectiveCommitted
    <2>3. OwnerClaim'
      BY <2>1 DEF OwnerClaim
    <2>. QED BY <1>4, <1>6, <2>2, <2>3 DEF ClaimInv
  <1>13. CASE PopBehind
    <2>1. /\ pc[Owner] = "pop_top" /\ pc'[Owner] = "pop_undo"
          /\ regs[Owner].b = committed[ownerBlock] + 1
          /\ committed[ownerBlock] < stolen[ownerBlock]
          /\ UNCHANGED <<stolen, committed, recipients>>
      BY <1>0, <1>1, <1>3, <1>13
      DEF PopBehind, OwnerInv, Undecided, Goto, blockVars, historyVars
    <2>2. Quiet
      BY <1>1, <1>2, <1>3, <2>1 DEF Quiet, SameLive, EffectiveCommitted
    <2>3. OwnerClaim'
      BY <2>1 DEF OwnerClaim
    <2>. QED BY <1>4, <1>6, <2>2, <2>3 DEF ClaimInv
  <1>14. CASE PopUndo
    <2>1. /\ pc[Owner] = "pop_undo" /\ pc'[Owner] = "pop_again"
          /\ stolen[ownerBlock] = committed[ownerBlock] + 1
          /\ committed' = [committed EXCEPT ![ownerBlock] = committed[ownerBlock] + 1]
          /\ UNCHANGED <<stolen, recipients>>
      BY <1>0, <1>1, <1>14 DEF PopUndo, OwnerInv, Goto, historyVars
    <2>2. Quiet
      BY <1>1, <1>2, <1>3, <2>1 DEF Quiet, SameLive, EffectiveCommitted
    <2>3. OwnerClaim'
      BY <2>1 DEF OwnerClaim
    <2>. QED BY <1>4, <1>6, <2>2, <2>3 DEF ClaimInv
  <1>. QED
    BY <1>7, <1>8, <1>9, <1>10, <1>11, <1>12, <1>13, <1>14 DEF PopInBlock

LEMMA StealContent ==
    ASSUME IndInv, NEW p \in Thieves, StealInBlock(p)
    PROVE  ContentInv' /\ ClaimInv'
  <1>0. Typed /\ ThiefInv /\ ContentInv /\ ClaimInv /\ TypeOK /\ TypeOK'
    BY TypeFacts, StealTypes DEF IndInv
  <1>1. /\ Owner \in Procs /\ Thieves \subseteq Procs /\ p \in Procs /\ p # Owner
        /\ DOMAIN regs = Procs /\ DOMAIN pc = Procs
        /\ regs[p].blk \in Blocks /\ regs[p].t \in 0..BlockSize
        /\ BlockSize \in Nat
        /\ committed \in [Blocks -> 0..BlockSize]
        /\ stolen \in [Blocks -> 0..BlockSize]
    BY <1>0 DEF Typed
  <1>2. /\ \A q \in Procs \ {p} : pc'[q] = pc[q] /\ regs'[q] = regs[q]
        /\ UNCHANGED <<slots, buried, ownerBlock, committed>>
        /\ \/ UNCHANGED <<stolen, recipients>>
           \/ StealCas(p)
    BY <1>1 DEF StealInBlock, StealLoadTop, StealFind, StealRead, StealCas,
                Return, Goto, blockVars, historyVars
  <1>3. \A blk : EffectiveCommitted(blk)' = EffectiveCommitted(blk)
    BY <1>1, <1>2 DEF EffectiveCommitted
  <1>4. \A blk \in Blocks : /\ stolen[blk] \in Int /\ stolen'[blk] \in Int
                             /\ stolen[blk] <= stolen'[blk]
                             /\ EffectiveCommitted(blk) \in Int
    <2>1. stolen' \in [Blocks -> 0..BlockSize]
      BY <1>0 DEF TypeOK
    <2>2. \A blk \in Blocks : stolen[blk] \in Int /\ stolen'[blk] \in Int
      BY <1>1, <2>1
    <2>3. \A blk \in Blocks : stolen[blk] <= stolen'[blk]
      BY <1>1, <1>2, <2>2 DEF StealCas
    <2>. QED BY <1>0, <2>2, <2>3, EndsType
  <1>5. Len(recipients') = Len(recipients)
    BY <1>0, <1>1, <1>2, DeliverType DEF StealCas, Typed
  <1>6. OwnerClaim'
    BY <1>0, <1>1, <1>2, <1>5 DEF ClaimInv, OwnerClaim
  <1>7. \A q \in Thieves \ {p} : ThiefClaim(q)'
    BY <1>1, <1>2, <1>4, ClaimKept
  <1>8. ThiefClaim(p)'
    <2>1. CASE pc'[p] # "steal_cas"
      BY <2>1 DEF ThiefClaim
    <2>2. CASE pc'[p] = "steal_cas"
      <3>1. StealRead(p)
        BY <1>1, <2>2 DEF StealInBlock, StealLoadTop, StealFind, StealCas, Return, Goto,
                          StealRead
      <3>2. /\ regs'[p].bits = slots[regs[p].blk][regs[p].t]
            /\ regs'[p].t = regs[p].t /\ regs'[p].blk = regs[p].blk
        BY <1>0, <1>1, <3>1 DEF StealRead, TypeOK
      <3>. QED BY <1>2, <3>2 DEF ThiefClaim
    <2>. QED BY <2>1, <2>2
  <1>9. CASE UNCHANGED <<stolen, recipients>>
    <2>1. Quiet
      BY <1>2, <1>3, <1>4, <1>9 DEF Quiet, SameLive
    <2>. QED BY <1>0, <1>6, <1>7, <1>8, <2>1, QuietStep DEF ClaimInv
  <1>10. CASE StealCas(p) /\ ~UNCHANGED <<stolen, recipients>>
    <2> DEFINE b == regs[p].blk
               t == regs[p].t
    <2>1. /\ pc[p] = "steal_cas" /\ stolen[b] = t
          /\ stolen' = [stolen EXCEPT ![b] = @ + 1]
          /\ Deliver(regs[p].bits, p)
      BY <1>10 DEF StealCas
    <2>2. /\ t < BlockSize /\ t < EffectiveCommitted(b)
          /\ regs[p].bits = slots[b][t]
      BY <1>0, <2>1 DEF ThiefInv, ThiefAt, ClaimInv, ThiefClaim
    <2>3. b \in Blocks /\ t \in 0..BlockSize /\ t \in Positions
      BY <1>1, <2>2 DEF Positions
    <2>. HIDE DEF b, t
    <2>4. LiveAt(b, t)
      BY <1>1, <1>4, <2>1, <2>2, <2>3 DEF LiveAt
    <2>5. ASSUME NEW blk \in Blocks, NEW i \in Positions
          PROVE  LiveAt(blk, i)' <=> LiveAt(blk, i) /\ ~(blk = b /\ i = t)
      <3>1. i \in Int /\ t \in Int /\ stolen[blk] \in Int
            /\ EffectiveCommitted(blk) \in Int
            /\ EffectiveCommitted(blk)' = EffectiveCommitted(blk)
        BY <1>1, <1>3, <1>4, <2>3 DEF Positions
      <3>2. CASE blk = b
        <4>1. stolen[blk] = t /\ stolen'[blk] = t + 1
          BY <1>1, <2>1, <2>3, <3>2
        <4>. QED BY <3>1, <3>2, <4>1 DEF LiveAt
      <3>3. CASE blk # b
        <4>1. stolen'[blk] = stolen[blk]
          BY <1>1, <2>1, <3>3
        <4>. QED BY <3>1, <3>3, <4>1 DEF LiveAt
      <3>. QED BY <3>2, <3>3
    <2>6. ContentInv'
      BY <1>0, <1>1, <1>2, <2>1, <2>2, <2>3, <2>4, <2>5, ContentTake
    <2>. QED BY <1>6, <1>7, <1>8, <2>6 DEF ClaimInv
  <1>. QED BY <1>2, <1>9, <1>10

-----------------------------------------------------------------------------
(* The steps that the row and the list have in common, and those in which  *)
(* they differ: how the owner and the thieves come from block to block.    *)

InBlock ==
    \/ PutInBlock \/ PutWrite \/ PutCommit \/ PopInBlock
    \/ \E p \in Thieves : StealInBlock(p)

LEMMA InBlockStep == ASSUME IndInv, InBlock PROVE IndInv'
  <1>1. CASE PutInBlock \/ PutWrite \/ PutCommit
    BY <1>1, PutTypes, PutLocal, PutContent DEF IndInv, LocalInv
  <1>2. CASE PopInBlock
    BY <1>2, PopTypes, PopLocal, PopContent DEF IndInv, LocalInv
  <1>3. CASE \E p \in Thieves : StealInBlock(p)
    BY <1>3, StealTypes, StealLocal, StealContent DEF IndInv, LocalInv
  <1>. QED BY <1>1, <1>2, <1>3 DEF InBlock

\* The owner goes to a block, to pop there or to put at a position of it.
LEMMA OwnerMoves ==
    ASSUME IndInv, pc[Owner] \in {"idle", "pop_again"}, TypeOK',
           NEW l \in {"idle", "pop_again", "put_write"},
           pc' = [pc EXCEPT ![Owner] = l],
           \A q \in Thieves : regs'[q] = regs[q],
           UNCHANGED <<blockVars, recipients, buried>>,
           reentered \subseteq reentered',
           l = "put_write" =>
              /\ regs'[Owner].b = 0 /\ Len(recipients) < MaxPut
              /\ \/ committed[ownerBlock'] = 0
                 \/ /\ committed[ownerBlock'] <= stolen[ownerBlock']
                    /\ ownerBlock' \in reentered'
    PROVE  IndInv'
  <1>0. /\ Typed /\ OwnerInv /\ BlocksInv /\ ThiefInv /\ ContentInv /\ ClaimInv
        /\ UNCHANGED <<committed, stolen, slots, recipients, buried>>
    BY TypeFacts DEF IndInv, blockVars
  <1>1. /\ Owner \in Procs /\ Owner \notin Thieves /\ Thieves \subseteq Procs
        /\ DOMAIN pc = Procs /\ BlockSize \in Nat \ {0}
    BY <1>0 DEF Typed
  <1>2. pc'[Owner] = l /\ \A q \in Thieves : pc'[q] = pc[q] /\ regs'[q] = regs[q]
    BY <1>1
  <1>3. /\ \A blk : EffectiveCommitted(blk) = committed[blk]
        /\ \A blk : EffectiveCommitted(blk)' = committed[blk]
        /\ \A blk : Settled(blk) = committed[blk]
        /\ \A blk : Settled(blk)' = committed[blk]
    BY <1>0, <1>2 DEF EffectiveCommitted, Settled, Undecided
  <1>4. OwnerInv'
    BY <1>0, <1>1, <1>2 DEF OwnerInv, OwnerPc, Undecided
  <1>5. BlocksInv'
    BY <1>0, <1>3 DEF BlocksInv
  <1>6. ThiefInv'
    BY <1>0, <1>2, <1>3 DEF ThiefInv, ThiefAt
  <1>7. Quiet
    <2>1. \A blk \in Blocks : stolen[blk] \in Int
      BY <1>0 DEF Typed
    <2>. QED BY <1>0, <1>3, <2>1 DEF Quiet, SameLive
  <1>8. ContentInv' /\ \A q \in Thieves : ThiefClaim(q)'
    BY <1>2, <1>7, QuietStep
  <1>9. OwnerClaim'
    BY <1>2 DEF OwnerClaim
  <1>. QED BY <1>4, <1>5, <1>6, <1>8, <1>9 DEF IndInv, ClaimInv

RegsType == [blk : Blocks, t : 0..BlockSize, b : 0..BlockSize,
             bits : 0..MaxPut, produced : 0..NumBlocks]

\* A thief goes to look at a block, or comes away from one with nothing.
LEMMA ThiefMoves ==
    ASSUME IndInv, NEW p \in Thieves, NEW r \in RegsType,
           NEW l \in {"idle", "steal_top", "steal_next"},
           pc' = [pc EXCEPT ![p] = l], regs' = [regs EXCEPT ![p] = r],
           UNCHANGED <<blockVars, produced, ownerBlock, historyVars>>
    PROVE  IndInv'
  <1>0. /\ Typed /\ OwnerInv /\ BlocksInv /\ ThiefInv /\ ContentInv /\ ClaimInv
        /\ UNCHANGED <<committed, stolen, slots, recipients, reentered, buried>>
    BY TypeFacts DEF IndInv, blockVars, historyVars
  <1>1. /\ Owner \in Procs /\ p \in Procs /\ p # Owner
        /\ DOMAIN pc = Procs /\ DOMAIN regs = Procs
    BY <1>0 DEF Typed
  <1>2. /\ \A q \in Procs \ {p} : pc'[q] = pc[q] /\ regs'[q] = regs[q]
        /\ pc'[p] = l
    BY <1>1
  <1>3. TypeOK'
    BY <1>0, <1>1 DEF IndInv, TypeOK, RegsType, StealPc
  <1>4. \A blk : /\ EffectiveCommitted(blk)' = EffectiveCommitted(blk)
                 /\ Settled(blk)' = Settled(blk)
    BY <1>0, <1>1, <1>2 DEF EffectiveCommitted, Settled
  <1>5. OwnerInv'
    BY <1>0, <1>1, <1>2 DEF OwnerInv
  <1>6. BlocksInv'
    BY <1>0, <1>4 DEF BlocksInv
  <1>7. ASSUME NEW q \in Thieves \ {p} PROVE ThiefAt(q)'
    <2>1. q \in Procs /\ ThiefAt(q)
      BY <1>0 DEF Typed, ThiefInv
    <2>. QED BY <1>0, <1>2, <1>4, <2>1 DEF ThiefAt
  <1>8. ThiefAt(p)'
    BY <1>2 DEF ThiefAt, StealPc
  <1>9. Quiet
    <2>1. \A blk \in Blocks : stolen[blk] \in Int
      BY <1>0 DEF Typed
    <2>. QED BY <1>0, <1>4, <2>1 DEF Quiet, SameLive
  <1>10. ContentInv' /\ \A q \in Thieves \ {p} : ThiefClaim(q)'
    <2>1. \A q \in Thieves \ {p} : pc'[q] = pc[q] /\ regs'[q] = regs[q]
      BY <1>0, <1>2 DEF Typed
    <2>. QED BY <1>3, <1>9, <2>1, QuietStep
  <1>11. ThiefClaim(p)'
    BY <1>2 DEF ThiefClaim
  <1>12. OwnerClaim'
    BY <1>0, <1>1, <1>2 DEF ClaimInv, OwnerClaim
  <1>. QED
    BY <1>3, <1>5, <1>6, <1>7, <1>8, <1>10, <1>11, <1>12
    DEF IndInv, ThiefInv, ClaimInv

\* What a thief has loaded, changed as a step changes it, keeps its type.
LEMMA RegsLoad ==
    ASSUME TypeOK, NEW p \in Procs, NEW b \in Blocks, NEW n \in 0..NumBlocks
    PROVE  /\ regs[p] \in RegsType /\ NoRegs \in RegsType
           /\ [regs[p] EXCEPT !.blk = b] \in RegsType
           /\ [regs[p] EXCEPT !.b = 0] \in RegsType
           /\ [regs[p] EXCEPT !.produced = n, !.blk = b] \in RegsType
  <1>1. regs[p] \in RegsType
    BY DEF TypeOK, RegsType
  <1>2. NoRegs \in RegsType
    BY TypeFacts DEF Typed, RegsType
  <1>3. 0 \in 0..BlockSize
    BY BlockAssumption
  <1>. QED BY <1>1, <1>2, <1>3 DEF RegsType

-----------------------------------------------------------------------------
(* The row.                                                                *)

LEMMA InitInv == Init => IndInv /\ RowInv
  <1>. SUFFICES ASSUME Init PROVE IndInv /\ RowInv
    OBVIOUS
  <1>1. /\ Owner \in Procs /\ Thieves \subseteq Procs /\ NumBlocks \in Nat
        /\ NumBlocks > 1 /\ BlockSize \in Nat \ {0} /\ MaxPut \in Nat
        /\ 0 \in Blocks
    BY BlockAssumption DEF Procs, Blocks
  <1>2. TypeOK
    <2>1. regs \in [Procs -> RegsType]
      BY <1>1 DEF Init, RegsType, NoRegs
    <2>2. recipients \in Seq(Seq(Procs)) /\ DOMAIN recipients = {}
      BY DEF Init
    <2>3. produced \in 1..NumBlocks /\ ownerBlock \in 0..produced-1
      BY <1>1 DEF Init
    <2>. QED BY <1>1, <2>1, <2>2, <2>3 DEF Init, TypeOK, RegsType
  <1>3. /\ pc[Owner] = "idle" /\ \A p \in Thieves : pc[p] = "idle"
        /\ \A blk \in Blocks : /\ committed[blk] = 0 /\ stolen[blk] = 0
                               /\ EffectiveCommitted(blk) = 0 /\ Settled(blk) = 0
    BY <1>1 DEF Init, EffectiveCommitted, Settled, Undecided
  <1>4. OwnerInv /\ ThiefInv /\ BlocksInv /\ ClaimInv
    BY <1>3 DEF OwnerInv, Undecided, ThiefInv, ThiefAt, BlocksInv, ClaimInv,
                OwnerClaim, ThiefClaim
  <1>5. ContentInv
    <2>1. \A blk \in Blocks, i \in Positions : ~LiveAt(blk, i)
      BY <1>3 DEF LiveAt
    <2>2. AtMostOnce /\ Undelivered = {} /\ buried = {}
      BY DEF Init, AtMostOnce, Undelivered
    <2>. QED BY <2>1, <2>2 DEF ContentInv
  <1>6. RowInv
    BY <1>3 DEF RowInv
  <1>. QED BY <1>2, <1>4, <1>5, <1>6 DEF IndInv

\* A step within a block leaves the others as they are, or steals from one.
LEMMA InBlockFrame ==
    ASSUME IndInv, InBlock
    PROVE  /\ ownerBlock' = ownerBlock /\ produced' = produced
           /\ reentered' = reentered
           /\ reentered = {} /\ buried = {} => buried' = {}
           /\ \A blk \in Blocks \ {ownerBlock} :
                 /\ committed'[blk] = committed[blk]
                 /\ \/ stolen'[blk] = stolen[blk]
                    \/ /\ stolen'[blk] = stolen[blk] + 1
                       /\ stolen[blk] < committed[blk]
  <1>0. Typed /\ ThiefInv
    BY TypeFacts DEF IndInv
  <1>1. /\ ownerBlock \in Blocks /\ Owner \in Procs
        /\ DOMAIN committed = Blocks /\ DOMAIN stolen = Blocks
    BY <1>0 DEF Typed
  <1>2. CASE PutInBlock \/ PutWrite \/ PutCommit
    BY <1>1, <1>2 DEF PutInBlock, PutWrite, PutCommit, blockVars, historyVars
  <1>3. CASE PopInBlock
    BY <1>1, <1>3
    DEF PopInBlock, PopFind, PopDecrement, PopTake, PopFindLast, PopCas,
        PopRestore, PopBehind, PopUndo, blockVars, historyVars
  <1>4. ASSUME NEW p \in Thieves, StealInBlock(p)
        PROVE  /\ UNCHANGED <<ownerBlock, produced, reentered, buried, committed>>
               /\ \A blk \in Blocks \ {ownerBlock} :
                     \/ stolen'[blk] = stolen[blk]
                     \/ /\ stolen'[blk] = stolen[blk] + 1
                        /\ stolen[blk] < committed[blk]
    <2>1. CASE StealLoadTop(p) \/ StealFind(p) \/ StealRead(p)
      BY <2>1 DEF StealLoadTop, StealFind, StealRead, blockVars, historyVars
    <2>2. CASE StealCas(p)
      <3>1. UNCHANGED <<ownerBlock, produced, reentered, buried, committed>>
        BY <2>2 DEF StealCas
      <3>2. CASE UNCHANGED stolen
        BY <3>1, <3>2
      <3>3. CASE /\ stolen[regs[p].blk] = regs[p].t
                 /\ stolen' = [stolen EXCEPT ![regs[p].blk] = @ + 1]
        <4>1. stolen[regs[p].blk] < EffectiveCommitted(regs[p].blk)
          BY <1>0, <2>2, <3>3 DEF StealCas, ThiefInv, ThiefAt
        <4>2. \A blk \in Blocks \ {ownerBlock} : EffectiveCommitted(blk) = committed[blk]
          BY DEF EffectiveCommitted
        <4>. QED BY <1>1, <3>1, <3>3, <4>1, <4>2
      <3>. QED BY <2>2, <3>2, <3>3 DEF StealCas
    <2>. QED BY <1>4, <2>1, <2>2 DEF StealInBlock
  <1>. QED BY <1>2, <1>3, <1>4 DEF InBlock

LEMMA PutAdvanceStep == ASSUME IndInv, RowInv, PutAdvance PROVE IndInv' /\ RowInv'
  <1>0. Typed /\ OwnerInv
    BY TypeFacts DEF IndInv
  <1>1. /\ Owner \in Procs /\ Owner \notin Thieves /\ Thieves \subseteq Procs
        /\ DOMAIN regs = Procs /\ NumBlocks \in Nat /\ BlockSize \in Nat
        /\ ownerBlock \in Blocks /\ ownerBlock \in Int
        /\ committed \in [Blocks -> 0..BlockSize]
        /\ stolen \in [Blocks -> 0..BlockSize]
    BY <1>0 DEF Typed
  <1>2. /\ pc[Owner] = "idle" /\ pc' = [pc EXCEPT ![Owner] = "put_write"]
        /\ ownerBlock' = ownerBlock + 1 /\ produced' = ownerBlock + 2
        /\ ownerBlock + 1 # NumBlocks
        /\ regs' = [regs EXCEPT ![Owner].b = 0]
        /\ Len(recipients) < MaxPut
        /\ reentered' = IF stolen[ownerBlock + 1] > 0
                        THEN reentered \cup {ownerBlock + 1} ELSE reentered
        /\ UNCHANGED <<blockVars, recipients, buried>>
    BY DEF PutAdvance, EnterNext, PutRefused, BlockFull, Goto
  <1>3. /\ ownerBlock' \in Blocks /\ ownerBlock' \in 0..produced'-1
        /\ produced' \in 1..NumBlocks
    BY <1>1, <1>2 DEF Blocks
  <1>4. TypeOK'
    <2>1. regs' \in [Procs -> RegsType]
      <3>1. [regs[Owner] EXCEPT !.b = 0] \in RegsType
        BY <1>1, 0 \in 0..NumBlocks, RegsLoad DEF IndInv
      <3>2. regs \in [Procs -> RegsType]
        BY DEF IndInv, TypeOK, RegsType
      <3>. QED BY <1>1, <1>2, <3>1, <3>2
    <2>2. reentered' \subseteq Blocks
      BY <1>2, <1>3 DEF IndInv, TypeOK
    <2>. QED
      BY <1>1, <1>2, <1>3, <2>1, <2>2 DEF IndInv, TypeOK, blockVars, OwnerPc, RegsType
  <1>5. committed[ownerBlock'] <= stolen[ownerBlock']
    BY <1>1, <1>2, <1>3 DEF RowInv
  <1>6. /\ committed[ownerBlock'] \in 0..BlockSize /\ stolen[ownerBlock'] \in 0..BlockSize
    BY <1>1, <1>3
  <1>7. \/ committed[ownerBlock'] = 0
        \/ /\ committed[ownerBlock'] <= stolen[ownerBlock']
           /\ ownerBlock' \in reentered'
    BY <1>1, <1>2, <1>5, <1>6
  <1>8. regs'[Owner].b = 0 /\ \A q \in Thieves : regs'[q] = regs[q]
    BY <1>1, <1>2 DEF IndInv, TypeOK
  <1>9. reentered \subseteq reentered'
    BY <1>2
  <1>10. IndInv'
    BY <1>2, <1>4, <1>7, <1>8, <1>9, OwnerMoves
  <1>11. RowInv'
    <2>1. UNCHANGED <<committed, stolen>> /\ \A blk \in Blocks : blk \in Int
      BY <1>1, <1>2 DEF blockVars, Blocks
    <2>. QED BY <1>1, <1>2, <2>1 DEF RowInv
  <1>. QED BY <1>10, <1>11

LEMMA PopStepBackStep == ASSUME IndInv, RowInv, PopStepBack PROVE IndInv' /\ RowInv'
  <1>0. Typed /\ OwnerInv
    BY TypeFacts DEF IndInv
  <1>1. /\ Owner \in Procs /\ Owner \notin Thieves /\ Thieves \subseteq Procs
        /\ DOMAIN regs = Procs /\ NumBlocks \in Nat
        /\ ownerBlock \in Blocks /\ ownerBlock \in Int /\ produced \in Int
        /\ NoRegs \in RegsType
    BY <1>0 DEF Typed, RegsType
  <1>2. /\ pc[Owner] \in {"idle", "pop_again"}
        /\ committed[ownerBlock] <= stolen[ownerBlock]
        /\ UNCHANGED <<blockVars, produced, recipients, reentered, buried>>
        /\ \/ /\ ownerBlock' = ownerBlock
              /\ pc' = [pc EXCEPT ![Owner] = "idle"]
              /\ regs' = [regs EXCEPT ![Owner] = NoRegs]
           \/ /\ ownerBlock # 0 /\ ownerBlock' = ownerBlock - 1
              /\ pc' = [pc EXCEPT ![Owner] = "pop_again"]
              /\ regs' = regs
    BY DEF PopStepBack, MayPop, Return, Goto, historyVars
  <1>3. TypeOK'
    <2>1. regs' \in [Procs -> RegsType]
      BY <1>1, <1>2 DEF IndInv, TypeOK, RegsType
    <2>2. ownerBlock' \in 0..produced-1
      BY <1>1, <1>2 DEF IndInv, TypeOK
    <2>. QED BY <1>1, <1>2, <2>1, <2>2 DEF IndInv, TypeOK, blockVars, OwnerPc, RegsType
  <1>4. \A q \in Thieves : regs'[q] = regs[q]
    BY <1>1, <1>2
  <1>5. IndInv'
    BY <1>2, <1>3, <1>4, OwnerMoves
  <1>6. RowInv'
    <2>1. UNCHANGED <<committed, stolen>> /\ \A blk \in Blocks : blk \in Int
      BY <1>1, <1>2 DEF blockVars, Blocks
    <2>. QED BY <1>1, <1>2, <2>1 DEF RowInv
  <1>. QED BY <1>5, <1>6

LEMMA RowStep == IndInv /\ RowInv /\ [Next]_vars => IndInv' /\ RowInv'
  <1>. SUFFICES ASSUME IndInv, RowInv, [Next]_vars PROVE IndInv' /\ RowInv'
    OBVIOUS
  <1>1. TypeOK /\ Typed /\ Thieves \subseteq Procs
    BY TypeFacts DEF IndInv, Typed
  <1>2. CASE InBlock
    <2>1. \A blk \in Blocks : blk \in Int /\ committed[blk] \in Int /\ stolen[blk] \in Int
      BY <1>1 DEF Typed, Blocks
    <2>2. ownerBlock \in Int /\ ownerBlock' = ownerBlock
      BY <1>1, <1>2, InBlockFrame DEF Typed
    <2>3. RowInv'
      BY <1>2, <2>1, <2>2, InBlockFrame DEF RowInv
    <2>. QED BY <1>2, <2>3, InBlockStep
  <1>3. CASE PutAdvance
    BY <1>3, PutAdvanceStep
  <1>4. CASE PopStepBack
    BY <1>4, PopStepBackStep
  <1>5. ASSUME NEW p \in Thieves, StealBegin(p) \/ StealSkip(p)
        PROVE  IndInv' /\ RowInv'
    <2>1. p \in Procs /\ produced \in 0..NumBlocks /\ 0 \in Blocks /\ NumBlocks \in Nat
          /\ regs[p].blk \in Blocks /\ regs[p].produced \in 0..NumBlocks
      <3>1. p \in Procs /\ NumBlocks \in Nat \ {0}
        BY <1>1, BlockAssumption
      <3>. QED BY SMTT(30), <1>1, <3>1 DEF Typed, Blocks
    <2>2. UNCHANGED <<blockVars, produced, ownerBlock, historyVars>>
      BY <1>5 DEF StealBegin, StealSkip
    <2>3. RowInv'
      BY <2>2 DEF RowInv, blockVars
    <2>4. CASE StealBegin(p)
      <3>1. regs' = [regs EXCEPT ![p] = [regs[p] EXCEPT !.produced = produced, !.blk = 0]]
        BY <2>4 DEF StealBegin
      <3>. QED
        BY <1>1, <2>1, <2>2, <2>3, <2>4, <3>1, RegsLoad, ThiefMoves DEF StealBegin, Goto
    <2>5. CASE StealSkip(p) /\ regs[p].blk + 1 < regs[p].produced
      <3>1. /\ regs' = [regs EXCEPT ![p] = [regs[p] EXCEPT !.blk = regs[p].blk + 1]]
            /\ pc' = [pc EXCEPT ![p] = "steal_top"]
        BY <2>5 DEF StealSkip, Goto
      <3>2. regs[p].blk + 1 \in Blocks
        BY <2>1, <2>5 DEF Blocks
      <3>. QED
        BY <1>1, <2>1, <2>2, <2>3, <3>1, <3>2, RegsLoad, ThiefMoves
    <2>6. CASE StealSkip(p) /\ ~(regs[p].blk + 1 < regs[p].produced)
      <3>1. /\ regs' = [regs EXCEPT ![p] = NoRegs]
            /\ pc' = [pc EXCEPT ![p] = "idle"]
        BY <2>6 DEF StealSkip, Return, Goto
      <3>. QED
        BY <1>1, <2>1, <2>2, <2>3, <3>1, RegsLoad, ThiefMoves
    <2>. QED BY <1>5, <2>4, <2>5, <2>6
  <1>6. CASE UNCHANGED vars
    BY <1>6
    DEF vars, blockVars, historyVars, IndInv, TypeOK, OwnerInv, BlocksInv, Settled,
        ThiefInv, ThiefAt, EffectiveCommitted, ContentInv, LiveAt, AtMostOnce,
        Undelivered, ClaimInv, OwnerClaim, ThiefClaim, RowInv
  <1>. QED
    BY <1>2, <1>3, <1>4, <1>5, <1>6
    DEF Next, Put, Pop, Steal, InBlock, PopInBlock, StealInBlock

\* What the inductive invariant says of the properties.
LEMMA InvImplies == IndInv => TypeOK /\ AtMostOnce /\ LostOnlyByReentry
  <1>. SUFFICES ASSUME IndInv PROVE TypeOK /\ AtMostOnce /\ LostOnlyByReentry
    OBVIOUS
  <1>1. Typed /\ OwnerInv /\ ContentInv
    BY TypeFacts DEF IndInv
  <1>2. ASSUME NEW blk \in Blocks, NEW i, LiveAt(blk, i) PROVE i \in Positions
    <2>1. /\ stolen[blk] \in 0..BlockSize /\ committed[blk] \in 0..BlockSize
          /\ BlockSize \in Nat /\ ownerBlock \in Blocks
          /\ regs[Owner].b \in 0..BlockSize
      BY <1>1 DEF Typed
    <2>2. EffectiveCommitted(blk) \in 0..BlockSize
      BY <1>1, <2>1 DEF EffectiveCommitted, OwnerInv
    <2>. QED BY <1>2, <2>1, <2>2 DEF LiveAt, Positions
  <1>3. ASSUME NEW k
        PROVE  k \in Reachable <=>
                  \E blk \in Blocks, i \in Positions : LiveAt(blk, i) /\ slots[blk][i] = k
    BY <1>2 DEF Reachable, LiveAt
  <1>4. Undelivered = Reachable \cup buried
    BY <1>1, <1>3 DEF ContentInv
  <1>. QED BY <1>1, <1>4 DEF IndInv, ContentInv, LostOnlyByReentry

\* The inductive invariant of the row.
THEOREM RowInvariant == Spec => [](IndInv /\ RowInv)
  <1>. QED BY InitInv, RowStep, PTL DEF Spec

\* No cursor of a block leaves it, and the owner's block is always one that
\* thieves may scan (bwos.rs put, pop and steal, with any NumBlocks).
THEOREM RowTypeOK == Spec => []TypeOK
  <1>. QED BY RowInvariant, InvImplies, PTL

\* bwos.rs 489-495: pop and any number of steals never return a value twice.
THEOREM RowAtMostOnce == Spec => []AtMostOnce
  <1>. QED BY RowInvariant, InvImplies, PTL

\* The row loses a value by re-entering a block at position 0 and in no other
\* way: no interleaving of put, pop and steals costs one.
THEOREM RowLosesOnlyByReentry == Spec => []LostOnlyByReentry
  <1>. QED BY RowInvariant, InvImplies, PTL

-----------------------------------------------------------------------------
(* The list.                                                               *)

LEMMA LinksInitInv == Init /\ LinksInit => ListInv
  <1>1. 0 \in Blocks /\ NumBlocks \in Nat
    BY BlockAssumption DEF Blocks
  <1>. QED BY <1>1 DEF Init, LinksInit, ListInv, None, Blocks

LEMMA PutFreshStep == ASSUME IndInv, ListInv, PutFresh PROVE IndInv' /\ ListInv'
  <1>0. Typed
    BY TypeFacts DEF IndInv
  <1>1. /\ Owner \in Procs /\ Owner \notin Thieves /\ Thieves \subseteq Procs
        /\ DOMAIN regs = Procs /\ NumBlocks \in Nat /\ BlockSize \in Nat
        /\ ownerBlock \in Blocks /\ ownerBlock \in Int /\ produced \in 1..NumBlocks
    BY <1>0 DEF Typed
  <1>2. /\ pc[Owner] = "idle" /\ pc' = [pc EXCEPT ![Owner] = "put_write"]
        /\ Len(recipients) < MaxPut /\ produced < NumBlocks
        /\ ownerBlock' = produced /\ produced' = produced + 1
        /\ next' = [next EXCEPT ![ownerBlock] = produced]
        /\ prev' = [prev EXCEPT ![produced] = ownerBlock]
        /\ regs' = [regs EXCEPT ![Owner].b = 0]
        /\ UNCHANGED <<blockVars, cursor, recipients, reentered, buried>>
    BY DEF PutFresh, Goto, historyVars
  <1>3. produced \in Blocks /\ produced' \in 1..NumBlocks /\ ownerBlock' \in 0..produced'-1
    BY <1>1, <1>2 DEF Blocks
  <1>4. TypeOK'
    <2>1. regs' \in [Procs -> RegsType]
      <3>1. [regs[Owner] EXCEPT !.b = 0] \in RegsType
        BY <1>1, 0 \in 0..NumBlocks, RegsLoad DEF IndInv
      <3>2. regs \in [Procs -> RegsType]
        BY DEF IndInv, TypeOK, RegsType
      <3>. QED BY <1>1, <1>2, <3>1, <3>2
    <2>. QED
      BY <1>1, <1>2, <1>3, <2>1 DEF IndInv, TypeOK, blockVars, OwnerPc, RegsType
  <1>5. committed[ownerBlock'] = 0
    BY <1>1, <1>2, <1>3 DEF ListInv
  <1>6. regs'[Owner].b = 0 /\ \A q \in Thieves : regs'[q] = regs[q]
    BY <1>1, <1>2 DEF IndInv, TypeOK
  <1>7. IndInv'
    BY <1>2, <1>4, <1>5, <1>6, OwnerMoves
  <1>8. ListInv'
    <2>1. /\ next' \in [Blocks -> Blocks \cup {None}]
          /\ prev' \in [Blocks -> Blocks \cup {None}]
      BY <1>1, <1>2, <1>3 DEF ListInv
    <2>2. ASSUME NEW blk \in Blocks PROVE prev'[blk] < produced'
      <3>1. prev[blk] < produced /\ prev[blk] \in Int /\ ownerBlock < produced
        BY <1>1 DEF ListInv, Blocks, None, IndInv, TypeOK
      <3>2. prev'[blk] = prev[blk] \/ prev'[blk] = ownerBlock
        BY <1>2 DEF ListInv
      <3>. QED BY <1>1, <1>2, <3>1, <3>2
    <2>3. \A blk \in Blocks : blk >= produced' => committed[blk] = 0 /\ stolen[blk] = 0
      BY <1>1, <1>2 DEF ListInv, Blocks
    <2>. QED BY <1>2, <2>1, <2>2, <2>3 DEF ListInv, blockVars
  <1>. QED BY <1>7, <1>8

LEMMA PopFollowPrevStep ==
    ASSUME IndInv, ListInv, PopFollowPrev PROVE IndInv' /\ ListInv'
  <1>0. Typed
    BY TypeFacts DEF IndInv
  <1>1. /\ Owner \in Procs /\ Owner \notin Thieves /\ Thieves \subseteq Procs
        /\ DOMAIN regs = Procs /\ NumBlocks \in Nat
        /\ ownerBlock \in Blocks /\ produced \in Int /\ NoRegs \in RegsType
    BY <1>0 DEF Typed, RegsType
  <1>2. /\ pc[Owner] \in {"idle", "pop_again"}
        /\ UNCHANGED <<blockVars, produced, recipients, reentered, buried, linkVars>>
        /\ \/ /\ ownerBlock' = ownerBlock
              /\ pc' = [pc EXCEPT ![Owner] = "idle"]
              /\ regs' = [regs EXCEPT ![Owner] = NoRegs]
           \/ /\ prev[ownerBlock] # None /\ ownerBlock' = prev[ownerBlock]
              /\ pc' = [pc EXCEPT ![Owner] = "pop_again"]
              /\ regs' = regs
    BY DEF PopFollowPrev, MayPop, Return, Goto, historyVars
  <1>3. TypeOK'
    <2>1. regs' \in [Procs -> RegsType]
      BY <1>1, <1>2 DEF IndInv, TypeOK, RegsType
    <2>2. ownerBlock' \in 0..produced-1
      <3>1. CASE ownerBlock' = ownerBlock
        BY <3>1 DEF IndInv, TypeOK
      <3>2. CASE prev[ownerBlock] # None /\ ownerBlock' = prev[ownerBlock]
        <4>1. prev[ownerBlock] \in Blocks /\ prev[ownerBlock] < produced
          BY <1>1, <3>2 DEF ListInv
        <4>. QED BY <1>1, <3>2, <4>1 DEF Blocks
      <3>. QED BY <1>2, <3>1, <3>2
    <2>. QED BY <1>1, <1>2, <2>1, <2>2 DEF IndInv, TypeOK, blockVars, OwnerPc, RegsType
  <1>4. \A q \in Thieves : regs'[q] = regs[q]
    BY <1>1, <1>2
  <1>5. IndInv'
    BY <1>2, <1>3, <1>4, OwnerMoves
  <1>6. ListInv'
    BY <1>2 DEF ListInv, linkVars, blockVars
  <1>. QED BY <1>5, <1>6

\* The links and cursors, and the blocks not allocated, under a step within a block.
LEMMA InBlockList ==
    ASSUME IndInv, ListInv, InBlock, UNCHANGED <<next, prev>>,
           cursor' \in [Thieves -> Blocks]
    PROVE  ListInv'
  <1>0. Typed
    BY TypeFacts DEF IndInv
  <1>1. /\ ownerBlock' = ownerBlock /\ produced' = produced
        /\ reentered' = {} /\ buried' = {}
    BY InBlockFrame DEF ListInv
  <1>2. ASSUME NEW blk \in Blocks, blk >= produced
        PROVE  committed'[blk] = 0 /\ stolen'[blk] = 0
    <2>1. blk \in Int /\ ownerBlock \in 0..produced-1 /\ produced \in Int
      BY <1>0 DEF Typed, IndInv, TypeOK, Blocks
    <2>2. blk # ownerBlock /\ committed[blk] = 0 /\ stolen[blk] = 0
      BY <1>2, <2>1 DEF ListInv
    <2>. QED BY <2>2, InBlockFrame
  <1>. QED BY <1>1, <1>2 DEF ListInv

LEMMA ListStep == IndInv /\ ListInv /\ [NextLinked]_unboundedVars => IndInv' /\ ListInv'
  <1>. SUFFICES ASSUME IndInv, ListInv, [NextLinked]_unboundedVars
                PROVE  IndInv' /\ ListInv'
    OBVIOUS
  <1>1. TypeOK /\ Typed /\ Thieves \subseteq Procs
    BY TypeFacts DEF IndInv, Typed
  <1>2. CASE InBlock /\ UNCHANGED linkVars
    <2>1. UNCHANGED <<next, prev>> /\ cursor' \in [Thieves -> Blocks]
      BY <1>2 DEF linkVars, ListInv
    <2>. QED BY <1>2, <2>1, InBlockStep, InBlockList
  <1>3. CASE PutFresh
    BY <1>3, PutFreshStep
  <1>4. CASE PopFollowPrev
    BY <1>4, PopFollowPrevStep
  <1>5. ASSUME NEW p \in Thieves
        PROVE  /\ p \in Procs /\ regs[p].blk \in Blocks /\ cursor[p] \in Blocks
               /\ 0 \in 0..NumBlocks /\ NumBlocks \in Nat
    BY <1>1 DEF Typed, ListInv
  <1>6. ASSUME NEW p \in Thieves, StealCasLinked(p)
        PROVE  IndInv' /\ ListInv'
    <2>1. InBlock
      BY <1>6 DEF StealCasLinked, InBlock, StealInBlock
    <2>2. UNCHANGED <<next, prev>> /\ cursor' \in [Thieves -> Blocks]
      BY <1>5, <1>6 DEF StealCasLinked, ListInv
    <2>. QED BY <2>1, <2>2, InBlockStep, InBlockList
  <1>7. ASSUME NEW p \in Thieves,
               StealAtCursor(p) \/ StealFindDrained(p) \/ StealFollowNext(p)
        PROVE  IndInv' /\ ListInv'
    <2>1. UNCHANGED <<blockVars, produced, ownerBlock, historyVars, next, prev>>
      BY <1>7 DEF StealAtCursor, StealFindDrained, StealFollowNext, linkVars
    <2>2. ListInv' <=> cursor' \in [Thieves -> Blocks]
      BY <2>1 DEF ListInv, blockVars, historyVars
    <2>3. CASE StealAtCursor(p)
      <3>1. /\ regs' = [regs EXCEPT ![p] = [regs[p] EXCEPT !.blk = cursor[p]]]
            /\ pc' = [pc EXCEPT ![p] = "steal_top"] /\ UNCHANGED cursor
        BY <2>3 DEF StealAtCursor, Goto, linkVars
      <3>2. [regs[p] EXCEPT !.blk = cursor[p]] \in RegsType
        BY <1>1, <1>5, RegsLoad
      <3>3. IndInv'
        BY <2>1, <3>1, <3>2, ThiefMoves
      <3>. QED BY <2>2, <3>1, <3>3 DEF ListInv
    <2>4. CASE StealFindDrained(p)
      <3>1. /\ regs' = [regs EXCEPT ![p] = regs[p]]
            /\ pc' = [pc EXCEPT ![p] = "steal_next"] /\ UNCHANGED cursor
        BY <1>1, <2>4 DEF StealFindDrained, Goto, linkVars, TypeOK
      <3>2. regs[p] \in RegsType
        BY <1>1, <1>5, RegsLoad
      <3>3. IndInv'
        BY <2>1, <3>1, <3>2, ThiefMoves
      <3>. QED BY <2>2, <3>1, <3>3 DEF ListInv
    <2>5. CASE StealFollowNext(p) /\ next[regs[p].blk] = None
      <3>1. /\ regs' = [regs EXCEPT ![p] = NoRegs]
            /\ pc' = [pc EXCEPT ![p] = "idle"] /\ UNCHANGED cursor
        BY <2>5 DEF StealFollowNext, Return, Goto
      <3>2. NoRegs \in RegsType
        BY <1>1, <1>5, RegsLoad
      <3>3. IndInv'
        BY <2>1, <3>1, <3>2, ThiefMoves
      <3>. QED BY <2>2, <3>1, <3>3 DEF ListInv
    <2>6. CASE StealFollowNext(p) /\ next[regs[p].blk] # None
      <3> DEFINE b == next[regs[p].blk]
      <3>1. /\ regs' = [regs EXCEPT ![p] = [regs[p] EXCEPT !.blk = b]]
            /\ pc' = [pc EXCEPT ![p] = "steal_top"]
            /\ cursor' = [cursor EXCEPT ![p] = b]
        BY <2>6 DEF StealFollowNext, Goto
      <3>2. b \in Blocks
        BY <1>5, <2>6 DEF ListInv
      <3>. HIDE DEF b
      <3>3. [regs[p] EXCEPT !.blk = b] \in RegsType
        BY <1>1, <1>5, <3>2, RegsLoad
      <3>4. IndInv'
        BY <2>1, <3>1, <3>3, ThiefMoves
      <3>. QED BY <2>2, <3>1, <3>2, <3>4 DEF ListInv
    <2>. QED BY <1>7, <2>3, <2>4, <2>5, <2>6
  <1>8. ASSUME UNCHANGED vars PROVE IndInv'
    BY <1>8
    DEF vars, blockVars, historyVars, IndInv, TypeOK, OwnerInv, BlocksInv, Settled,
        ThiefInv, ThiefAt, EffectiveCommitted, ContentInv, LiveAt, AtMostOnce,
        Undelivered, ClaimInv, OwnerClaim, ThiefClaim
  <1>9. ASSUME NEW p \in Thieves, Clone(p) PROVE IndInv' /\ ListInv'
    <2>1. UNCHANGED <<vars, next, prev>> /\ cursor' = [cursor EXCEPT ![p] = 0]
      BY <1>9 DEF Clone
    <2>2. 0 \in Blocks
      BY BlockAssumption DEF Blocks
    <2>3. ListInv'
      BY <2>1, <2>2 DEF ListInv, vars, blockVars, historyVars
    <2>. QED BY <1>8, <2>1, <2>3
  <1>10. CASE UNCHANGED unboundedVars
    BY <1>8, <1>10 DEF unboundedVars, linkVars, ListInv, vars, blockVars, historyVars
  <1>. QED
    BY <1>2, <1>3, <1>4, <1>6, <1>7, <1>9, <1>10
    DEF NextLinked, PutLinked, PopLinked, StealLinked, InBlock, PopInBlock, StealInBlock

\* The inductive invariant of the list.
THEOREM ListInvariant == SpecLinked => [](IndInv /\ ListInv)
  <1>. QED BY InitInv, LinksInitInv, ListStep, PTL DEF SpecLinked

\* The unbounded queue keeps its types: its cursors stay within their blocks.
THEOREM ListTypeOK == SpecLinked => []TypeOK
  <1>. QED BY ListInvariant, InvImplies, PTL

\* bwos.rs 489-495, of the unbounded queue: no value is returned twice, by pop
\* or by any number of thieves, cloned or not.
THEOREM ListAtMostOnce == SpecLinked => []AtMostOnce
  <1>. QED BY ListInvariant, InvImplies, PTL

\* The unbounded queue loses nothing: as it enters no block twice, what nobody
\* has got is in a live slot of a block.
THEOREM ListNothingLost == SpecLinked => []NothingLost
  <1>1. IndInv /\ ListInv => NothingLost
    BY InvImplies DEF ListInv, LostOnlyByReentry, NothingLost
  <1>. QED BY <1>1, ListInvariant, PTL

-----------------------------------------------------------------------------
(* Numbers, and the walk along the links.                                  *)

\* Every set of numbers has a least one: the sets 0..x are finite, and finite
\* sets are well-founded under inclusion.
LEMMA LeastNat ==
    ASSUME NEW T \in SUBSET Nat, T # {}
    PROVE  \E x \in T : \A y \in T : x <= y
  <1> DEFINE W == {0..x : x \in T}
             R == StrictSubsetOrdering(Nat)
  <1>1. IsWellFoundedOn(R, FiniteSubsetsOf(Nat))
    BY FS_StrictSubsetOrderingWellFounded
  <1>2. W \subseteq FiniteSubsetsOf(Nat) /\ W # {}
    <2>1. \A x \in T : 0..x \subseteq Nat /\ IsFiniteSet(0..x)
      BY FS_Interval
    <2>. QED BY <2>1 DEF FiniteSubsetsOf
  <1>3. \E w \in W : \A v \in W : ~ (<<v, w>> \in R)
    <2>. HIDE DEF W, R
    <2>. QED BY <1>1, <1>2, WFMin
  <1>4. PICK x \in T : \A y \in T : <<0..y, 0..x>> \notin R
    BY <1>3
  <1>5. ASSUME NEW y \in T, y < x PROVE FALSE
    <2>1. 0..y \in SUBSET Nat /\ 0..x \in SUBSET Nat /\ 0..y \subseteq 0..x
      BY <1>5
    <2>2. x \in 0..x /\ x \notin 0..y
      BY <1>5
    <2>3. <<0..y, 0..x>> \in R
      BY <2>1, <2>2 DEF StrictSubsetOrdering
    <2>. QED BY <2>3, <1>4
  <1>. QED BY <1>5

\* Induction: a set of numbers with 0 and, with every number, the next.
LEMMA Induction ==
    ASSUME NEW T \in SUBSET Nat, 0 \in T, \A n \in T : n + 1 \in T
    PROVE  T = Nat
  <1>. SUFFICES ASSUME Nat \ T # {} PROVE FALSE
    OBVIOUS
  <1>1. PICK x \in Nat \ T : \A y \in Nat \ T : x <= y
    BY LeastNat
  <1>2. x # 0 /\ x - 1 \in Nat /\ x - 1 < x
    BY <1>1
  <1>3. x - 1 \in T
    BY <1>1, <1>2
  <1>. QED BY <1>1, <1>2, <1>3

\* The blocks X and those that g links them to.
Nexts(g, X) == X \cup ({g[b] : b \in X} \ {None})

IsWalk(f, g, start, n) ==
    f = [i \in 0..n |-> IF i = 0 THEN {start} ELSE Nexts(g, f[i-1])]

LEMMA WalkExists ==
    ASSUME NEW g, NEW start, NEW N \in Nat
    PROVE  \E f : IsWalk(f, g, start, N)
  <1> DEFINE T == {n \in Nat : \E f : IsWalk(f, g, start, n)}
  <1>1. 0 \in T
    <2>1. IsWalk([i \in 0..0 |-> {start}], g, start, 0)
      BY DEF IsWalk
    <2>. QED BY <2>1
  <1>2. ASSUME NEW n \in T PROVE n + 1 \in T
    <2>1. PICK f : IsWalk(f, g, start, n)
      OBVIOUS
    <2> DEFINE h == [i \in 0..n+1 |-> IF i = n+1 THEN Nexts(g, f[n]) ELSE f[i]]
    <2>a. \A i \in 0..n : f[i] = IF i = 0 THEN {start} ELSE Nexts(g, f[i-1])
      <3> DEFINE r == [i \in 0..n |-> IF i = 0 THEN {start} ELSE Nexts(g, f[i-1])]
      <3>2. f = r
        BY <2>1 DEF IsWalk
      <3>3. \A i \in 0..n : r[i] = IF i = 0 THEN {start} ELSE Nexts(g, f[i-1])
        OBVIOUS
      <3>. HIDE DEF r
      <3>. QED BY <3>2, <3>3
    <2>2. n \in Nat /\ \A i \in 0..n+1 : i = n + 1 \/ i \in 0..n
      OBVIOUS
    <2>3. ASSUME NEW i \in 0..n+1
          PROVE  h[i] = IF i = 0 THEN {start} ELSE Nexts(g, h[i-1])
      <3>1. CASE i = n + 1
        <4>1. h[i] = Nexts(g, f[n]) /\ h[i-1] = f[n]
          BY <2>2, <3>1
        <4>. QED BY <2>2, <3>1, <4>1
      <3>2. CASE i \in 1..n
        <4>1. f[i] = Nexts(g, f[i-1])
          BY <2>a, <2>2, <3>2
        <4>2. h[i] = f[i] /\ h[i-1] = f[i-1]
          BY <2>2, <3>2
        <4>. QED BY <3>2, <4>1, <4>2
      <3>3. CASE i = 0
        <4>1. f[0] = {start}
          BY <2>a, <2>2
        <4>. QED BY <2>2, <3>3, <4>1
      <3>. QED BY <2>2, <3>1, <3>2, <3>3
    <2>4. h = [i \in 0..n+1 |-> h[i]]
      OBVIOUS
    <2>. HIDE DEF h
    <2>5. IsWalk(h, g, start, n + 1)
      BY <2>3, <2>4 DEF IsWalk
    <2>. QED BY <2>5
  <1>3. T = Nat
    <2>. HIDE DEF T
    <2>1. T \subseteq Nat
      BY DEF T
    <2>. QED BY <1>1, <1>2, <2>1, Induction
  <1>. QED BY <1>3

TheWalk(g, start) == CHOOSE f : IsWalk(f, g, start, NumBlocks)

LEMMA FromIsWalk == ASSUME NEW blk PROVE From(blk) = TheWalk(next, blk)[NumBlocks]
  BY DEF From, TheWalk, IsWalk, Nexts

LEMMA WalkIs ==
    ASSUME NEW g, NEW start
    PROVE  IsWalk(TheWalk(g, start), g, start, NumBlocks)
  <1>1. NumBlocks \in Nat
    BY BlockAssumption
  <1>2. \E f : IsWalk(f, g, start, NumBlocks)
    BY <1>1, WalkExists
  <1>. QED BY <1>2 DEF TheWalk

LEMMA WalkSteps ==
    ASSUME NEW g, NEW start
    PROVE  /\ TheWalk(g, start)[0] = {start}
           /\ \A n \in 1..NumBlocks :
                 TheWalk(g, start)[n] = Nexts(g, TheWalk(g, start)[n-1])
  <1> DEFINE f == TheWalk(g, start)
             r == [i \in 0..NumBlocks |-> IF i = 0 THEN {start} ELSE Nexts(g, f[i-1])]
  <1>1. f = r
    BY WalkIs DEF IsWalk
  <1>2. NumBlocks \in Nat
    BY BlockAssumption
  <1>3. /\ r[0] = {start}
        /\ \A n \in 1..NumBlocks : r[n] = Nexts(g, f[n-1])
    BY <1>2
  <1>. HIDE DEF f, r
  <1>4. /\ f[0] = {start}
        /\ \A n \in 1..NumBlocks : f[n] = Nexts(g, f[n-1])
    BY <1>1, <1>3
  <1>. QED BY <1>4 DEF f

\* From the head one comes by every block of the spine.
LEMMA SpineReached ==
    ASSUME NEW A, Spine(A) PROVE A \subseteq From(0)
  <1> DEFINE f == TheWalk(next, 0)
  <1>1. /\ NumBlocks \in Nat /\ f[0] = {0} /\ From(0) = f[NumBlocks]
        /\ \A n \in 1..NumBlocks : f[n] = Nexts(next, f[n-1])
    BY BlockAssumption, WalkSteps, FromIsWalk
  <1>. HIDE DEF f
  <1>2. \A n \in 0..NumBlocks : 0 \in f[n]
    <2> DEFINE T == {n \in Nat : n <= NumBlocks => 0 \in f[n]}
    <2>1. 0 \in T
      BY <1>1
    <2>2. ASSUME NEW n \in T PROVE n + 1 \in T
      <3>1. SUFFICES ASSUME n + 1 <= NumBlocks PROVE 0 \in f[n+1]
        OBVIOUS
      <3>2. n + 1 \in 1..NumBlocks /\ 0 \in f[n] /\ (n + 1) - 1 = n
        BY <1>1, <3>1
      <3>. QED BY <1>1, <3>2 DEF Nexts
    <2>3. T \subseteq Nat
      OBVIOUS
    <2>4. T = Nat
      <3>. HIDE DEF T
      <3>. QED BY <2>1, <2>2, <2>3, Induction
    <2>. QED BY <2>4
  <1>3. \A b \in A : \A n \in b..NumBlocks : b \in f[n]
    <2> DEFINE Missed == {b \in A : \E n \in b..NumBlocks : b \notin f[n]}
    <2>1. SUFFICES ASSUME Missed # {} PROVE FALSE
      OBVIOUS
    <2>2. A \subseteq Nat
      BY <1>1 DEF Spine, Blocks
    <2>3. PICK b \in Missed : \A c \in Missed : b <= c
      <3>1. Missed \subseteq Nat
        BY <2>2
      <3>. HIDE DEF Missed
      <3>. QED BY <2>1, <3>1, LeastNat
    <2>4. PICK n \in b..NumBlocks : b \notin f[n]
      BY <2>3
    <2>5. b \in A /\ b \in Nat /\ n \in Nat /\ b # 0
      BY <1>1, <1>2, <2>2, <2>3, <2>4
    <2>6. prev[b] \in A /\ prev[b] \in Nat /\ prev[b] < b /\ next[prev[b]] = b
      BY <2>2, <2>5 DEF Spine
    <2>7. prev[b] \notin Missed
      BY <2>3, <2>5, <2>6
    <2>8. n - 1 \in prev[b]..NumBlocks /\ n \in 1..NumBlocks
      BY <1>1, <2>4, <2>5, <2>6
    <2>9. prev[b] \in f[n-1]
      BY <2>6, <2>7, <2>8
    <2>10. b # None
      BY <2>5 DEF None
    <2>. QED BY <1>1, <2>4, <2>6, <2>8, <2>9, <2>10 DEF Nexts
  <1>4. \A b \in A : NumBlocks \in b..NumBlocks
    BY <1>1 DEF Spine, Blocks
  <1>. QED BY <1>1, <1>3, <1>4

\* Stepping back from its block, the owner stays on the spine.
LEMMA SpineKept ==
    ASSUME NEW A, Spine(A), prev[0] = None
    PROVE  TheWalk(prev, ownerBlock)[NumBlocks] \subseteq A
  <1> DEFINE f == TheWalk(prev, ownerBlock)
             T == {n \in Nat : n <= NumBlocks => f[n] \subseteq A}
  <1>1. /\ NumBlocks \in Nat /\ f[0] = {ownerBlock}
        /\ \A n \in 1..NumBlocks : f[n] = Nexts(prev, f[n-1])
    BY BlockAssumption, WalkSteps
  <1>. HIDE DEF f
  <1>2. 0 \in T
    BY <1>1 DEF Spine
  <1>3. ASSUME NEW n \in T PROVE n + 1 \in T
    <2>1. SUFFICES ASSUME n + 1 <= NumBlocks PROVE f[n+1] \subseteq A
      OBVIOUS
    <2>2. n + 1 \in 1..NumBlocks /\ f[n] \subseteq A /\ (n + 1) - 1 = n
      BY <1>1, <2>1
    <2>3. f[n+1] = Nexts(prev, f[n])
      BY <1>1, <2>2
    <2>. QED BY <2>2, <2>3 DEF Nexts, Spine
  <1>4. T = Nat
    <2>1. T \subseteq Nat
      OBVIOUS
    <2>. HIDE DEF T
    <2>. QED BY <1>2, <1>3, <2>1, Induction
  <1>. QED BY <1>1, <1>4 DEF f

LEMMA SpineImplies == IndInv /\ SpineInv => InTheList
  <1>. SUFFICES ASSUME IndInv, SpineInv PROVE InTheList
    OBVIOUS
  <1>1. PICK A \in SUBSET Blocks : Spine(A)
    BY DEF SpineInv
  <1> DEFINE back == TheWalk(prev, ownerBlock)[NumBlocks]
  <1>2. A \subseteq From(0) /\ back \subseteq A
    BY <1>1, SpineReached, SpineKept DEF SpineInv
  <1>3. \A b \in back \ {0} : next[prev[b]] = b
    BY <1>1, <1>2 DEF Spine
  <1>4. ASSUME NEW blk \in Blocks \ From(0) PROVE ValuesIn(blk) = {}
    <2>1. committed[blk] <= stolen[blk] /\ blk # ownerBlock
      BY <1>1, <1>2 DEF Spine
    <2>2. /\ stolen[blk] \in Int /\ committed[blk] \in Int
          /\ EffectiveCommitted(blk) = committed[blk]
      BY <2>1, EndsType DEF IndInv, EffectiveCommitted
    <2>3. stolen[blk]..EffectiveCommitted(blk)-1 = {}
      BY <2>1, <2>2
    <2>. QED BY <2>3 DEF ValuesIn
  <1>5. back \subseteq From(0)
    BY <1>2
  <1>. QED BY <1>3, <1>4, <1>5 DEF InTheList, TheWalk, IsWalk, Nexts

\* A step within a block leaves the links alone, and what has nothing in it.
LEMMA SpineFrame ==
    ASSUME IndInv, SpineInv, UNCHANGED <<next, prev, ownerBlock>>,
           \A blk \in Blocks \ {ownerBlock} :
              /\ committed'[blk] = committed[blk]
              /\ \/ stolen'[blk] = stolen[blk]
                 \/ /\ stolen'[blk] = stolen[blk] + 1
                    /\ stolen[blk] < committed[blk]
    PROVE  SpineInv'
  <1>1. PICK A \in SUBSET Blocks : Spine(A)
    BY DEF SpineInv
  <1>2. ASSUME NEW blk \in Blocks \ A PROVE committed'[blk] <= stolen'[blk]
    <2>1. committed[blk] <= stolen[blk] /\ blk # ownerBlock
      BY <1>1 DEF Spine
    <2>2. stolen[blk] \in Int /\ committed[blk] \in Int
      BY EndsType DEF IndInv
    <2>. QED BY <2>1, <2>2
  <1>3. Spine(A)'
    BY <1>1, <1>2 DEF Spine
  <1>. QED BY <1>3 DEF SpineInv

\* The owner goes on in a fresh block: what was beyond its block is cut off,
\* and has nothing in it.
LEMMA SpineFresh == ASSUME IndInv, ListInv, SpineInv, PutFresh PROVE SpineInv'
  <1>1. PICK A \in SUBSET Blocks : Spine(A)
    BY DEF SpineInv
  <1>2. /\ next \in [Blocks -> Blocks \cup {None}] /\ prev \in [Blocks -> Blocks \cup {None}]
        /\ produced \in Blocks /\ produced # 0 /\ ownerBlock < produced
        /\ ownerBlock \in A
    <2>1. /\ NumBlocks \in Nat /\ produced \in 1..NumBlocks
          /\ ownerBlock \in 0..produced-1 /\ produced < NumBlocks
      BY BlockAssumption DEF IndInv, TypeOK, PutFresh
    <2>. QED BY <1>1, <2>1 DEF ListInv, Blocks, Spine
  <1>3. /\ next' = [next EXCEPT ![ownerBlock] = produced]
        /\ prev' = [prev EXCEPT ![produced] = ownerBlock]
        /\ ownerBlock' = produced
        /\ UNCHANGED <<committed, stolen>>
    BY DEF PutFresh, blockVars
  <1>4. ASSUME NEW b \in A
        PROVE  b \in Int /\ b <= ownerBlock /\ ownerBlock \in Int /\ b # produced
               /\ produced \in Int
    BY <1>1, <1>2 DEF Spine, Blocks
  <1>5. /\ \A b \in A : prev'[b] = prev[b]
        /\ prev'[produced] = ownerBlock /\ next'[ownerBlock] = produced
        /\ \A b \in Blocks \ {ownerBlock} : next'[b] = next[b]
    BY <1>1, <1>2, <1>3, <1>4 DEF Spine
  <1>b. PICK B : B = A \cup {produced}
    OBVIOUS
  <1>6. B \in SUBSET Blocks /\ 0 \in B /\ produced \in B
    BY <1>1, <1>2, <1>b DEF Spine
  <1>7. ASSUME NEW b \in B \ {0}
        PROVE  prev'[b] \in B /\ prev'[b] < b /\ next'[prev'[b]] = b
    <2>1. CASE b = produced
      BY <1>2, <1>5, <1>b, <2>1
    <2>2. CASE b \in A
      <3>1. prev[b] \in A /\ prev[b] < b /\ next[prev[b]] = b
        BY <1>1, <2>2 DEF Spine
      <3>2. prev[b] # ownerBlock /\ prev[b] \in Blocks
        BY <1>1, <1>4, <2>2, <3>1 DEF Spine
      <3>. QED BY <1>5, <1>b, <2>2, <3>1, <3>2
    <2>. QED BY <1>b, <2>1, <2>2
  <1>8. ASSUME NEW b \in B, NEW c \in B, b < c PROVE b <= prev'[c]
    <2>1. CASE c = produced
      BY <1>2, <1>4, <1>5, <1>8, <1>b, <2>1
    <2>2. CASE c \in A
      <3>1. b \in A
        BY <1>2, <1>4, <1>8, <1>b, <2>2
      <3>. QED BY <1>1, <1>5, <1>8, <2>2, <3>1 DEF Spine
    <2>. QED BY <1>b, <2>1, <2>2
  <1>9. \A b \in B : b <= produced
    BY <1>2, <1>4, <1>b
  <1>10. \A blk \in Blocks \ B : committed[blk] <= stolen[blk]
    BY <1>1, <1>b DEF Spine
  <1>11. Spine(B)'
    BY <1>3, <1>6, <1>7, <1>8, <1>9, <1>10 DEF Spine
  <1>12. prev'[0] = None
    BY <1>1, <1>5 DEF Spine, SpineInv
  <1>. QED BY <1>6, <1>11, <1>12 DEF SpineInv

\* The owner leaves a block for the one before with nothing in it.
LEMMA SpineBack == ASSUME IndInv, ListInv, SpineInv, PopFollowPrev PROVE SpineInv'
  <1>0. UNCHANGED <<next, prev, committed, stolen>>
    BY DEF PopFollowPrev, linkVars, blockVars
  <1>1. PICK A \in SUBSET Blocks : Spine(A)
    BY DEF SpineInv
  <1>2. CASE ownerBlock' = ownerBlock
    BY <1>0, <1>2 DEF SpineInv, Spine
  <1>3. CASE ownerBlock' = prev[ownerBlock] /\ prev[ownerBlock] # None
    <2>b. PICK B : B = A \ {ownerBlock}
      OBVIOUS
    <2>1. ownerBlock \in A \ {0} /\ A \subseteq Int
      BY <1>1, <1>3 DEF Spine, SpineInv, Blocks
    <2>2. /\ prev[ownerBlock] \in A /\ prev[ownerBlock] < ownerBlock
          /\ committed[ownerBlock] <= stolen[ownerBlock]
      BY <1>1, <2>1 DEF Spine, PopFollowPrev
    <2>3. \A b \in B : b < ownerBlock /\ b <= prev[ownerBlock]
      BY <1>1, <2>1, <2>b DEF Spine
    <2>4. \A b \in B \ {0} : prev[b] \in B /\ prev[b] < b /\ next[prev[b]] = b
      BY <1>1, <2>1, <2>3, <2>b DEF Spine
    <2>5. \A b, c \in B : b < c => b <= prev[c]
      BY <1>1, <2>b DEF Spine
    <2>6. B \in SUBSET Blocks /\ 0 \in B /\ prev[ownerBlock] \in B
      BY <1>1, <2>1, <2>2, <2>b DEF Spine
    <2>7. \A blk \in Blocks \ B : committed[blk] <= stolen[blk]
      BY <1>1, <2>2, <2>b DEF Spine
    <2>8. Spine(B)'
      BY <1>0, <1>3, <2>3, <2>4, <2>5, <2>6, <2>7 DEF Spine
    <2>. QED BY <1>0, <2>6, <2>8 DEF SpineInv
  <1>. QED BY <1>2, <1>3 DEF PopFollowPrev

LEMMA SpineStep ==
    IndInv /\ ListInv /\ SpineInv /\ [NextLinked]_unboundedVars => SpineInv'
  <1>. SUFFICES ASSUME IndInv, ListInv, SpineInv, [NextLinked]_unboundedVars
                PROVE  SpineInv'
    OBVIOUS
  <1>1. CASE InBlock /\ UNCHANGED <<next, prev>>
    <2>1. UNCHANGED <<next, prev, ownerBlock>>
      BY <1>1, InBlockFrame
    <2>. QED BY <1>1, <2>1, InBlockFrame, SpineFrame
  <1>2. CASE PutFresh
    BY <1>2, SpineFresh
  <1>3. CASE PopFollowPrev
    BY <1>3, SpineBack
  <1>4. CASE UNCHANGED <<next, prev, ownerBlock, committed, stolen>>
    BY <1>4 DEF SpineInv, Spine
  <1>5. ASSUME NEW p \in Thieves, StealCasLinked(p) PROVE SpineInv'
    BY <1>1, <1>5 DEF StealCasLinked, InBlock, StealInBlock
  <1>6. ASSUME NEW p \in Thieves,
               \/ StealAtCursor(p) \/ StealFindDrained(p) \/ StealFollowNext(p)
               \/ Clone(p)
        PROVE  SpineInv'
    BY <1>4, <1>6
    DEF StealAtCursor, StealFindDrained, StealFollowNext, Clone, linkVars, vars, blockVars
  <1>7. CASE UNCHANGED unboundedVars
    BY <1>4, <1>7 DEF unboundedVars, linkVars, vars, blockVars
  <1>8. ASSUME InBlock, UNCHANGED linkVars PROVE SpineInv'
    BY <1>1, <1>8 DEF linkVars
  <1>. QED
    BY <1>2, <1>3, <1>5, <1>6, <1>7, <1>8
    DEF NextLinked, PutLinked, PopLinked, StealLinked, InBlock, PopInBlock, StealInBlock

LEMMA SpineInit == Init /\ LinksInit => SpineInv
  <1>. SUFFICES ASSUME Init, LinksInit PROVE SpineInv
    OBVIOUS
  <1>1. 0 \in Blocks
    BY BlockAssumption DEF Blocks
  <1>2. Spine({0})
    BY <1>1 DEF Init, Spine
  <1>. QED BY <1>1, <1>2 DEF SpineInv, LinksInit

\* bwos.rs 622-628 and 708: linking a fresh block behind the owner's takes no
\* block with a value in it out of the list, nor one the owner may step back to.
THEOREM ListKeepsItsBlocks == SpecLinked => []InTheList
  <1>1. Init /\ LinksInit => IndInv /\ ListInv /\ SpineInv
    BY InitInv, LinksInitInv, SpineInit
  <1>2. IndInv /\ ListInv /\ SpineInv /\ [NextLinked]_unboundedVars
           => (IndInv /\ ListInv /\ SpineInv)'
    BY ListStep, SpineStep
  <1>. QED BY <1>1, <1>2, SpineImplies, PTL DEF SpecLinked

-----------------------------------------------------------------------------
(* Either queue, as MCBwos has them checked.                               *)

AnyInv == /\ IndInv
          /\ unbounded \in BOOLEAN
          /\ ~unbounded => RowInv
          /\ unbounded => ListInv /\ SpineInv

\* The inductive invariant of the two queues together; the fairness of LiveSpec
\* plays no part in it.
THEOREM EitherInvariant == LiveSpec => []AnyInv
  <1>1. AnyInit => AnyInv
    BY InitInv, LinksInitInv, SpineInit DEF AnyInit, AnyInv
  <1>2. AnyInv /\ [AnyNext]_allVars => AnyInv'
    <2>. SUFFICES ASSUME AnyInv, [AnyNext]_allVars PROVE AnyInv'
      OBVIOUS
    <2>1. CASE InRow /\ Next
      BY <2>1, RowStep DEF AnyInv, InRow
    <2>2. CASE InList /\ NextLinked
      BY <2>2, ListStep, SpineStep DEF AnyInv, InList
    <2>3. CASE UNCHANGED allVars
      <3>1. UNCHANGED vars /\ UNCHANGED unboundedVars /\ UNCHANGED unbounded
        BY <2>3 DEF allVars, unboundedVars
      <3>2. ~unbounded => IndInv' /\ RowInv'
        BY <3>1, RowStep DEF AnyInv
      <3>3. unbounded => IndInv' /\ ListInv' /\ SpineInv'
        BY <3>1, ListStep, SpineStep DEF AnyInv
      <3>. QED BY <3>1, <3>2, <3>3 DEF AnyInv
    <2>. QED BY <2>1, <2>2, <2>3 DEF AnyNext
  <1>. QED BY <1>1, <1>2, PTL DEF LiveSpec

\* The list stays linked (see ListKeepsItsBlocks), in the words of the run.
THEOREM ListIsKept == LiveSpec => []ListKept
  <1>1. AnyInv => ListKept
    BY SpineImplies DEF AnyInv, ListKept
  <1>. QED BY <1>1, EitherInvariant, PTL
==============================================================================
