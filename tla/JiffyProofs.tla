----------------------------- MODULE JiffyProofs -----------------------------
(***************************************************************************)
(* Proofs about Jiffy, for any number of producers and values and buffers  *)
(* of any size: the state keeps its types, a producer that has claimed an  *)
(* index finds the buffer that holds it, the queue is a row of cells as    *)
(* Inbox describes it, and None is told only when the oldest value is not  *)
(* stored.                                                                 *)
(***************************************************************************)
EXTENDS Jiffy, SequenceTheorems, TLAPS

\* The buffers lie one after the other without overlap: the order of bases is
\* the order in the chain, and a buffer ends where the next begins.
LEMMA BaseOrder ==
    \A a, b \in Nat : /\ Base(a) \in Nat /\ End(a) \in Nat
                      /\ End(a) = Base(a + 1)
                      /\ a <= b => Base(a) <= Base(b)
                      /\ Base(a) < Base(b) => a < b
                      /\ End(a) <= Base(b) => a < b
                      /\ Base(a) < End(a)
<1> SUFFICES ASSUME NEW a \in Nat, NEW b \in Nat
             PROVE  /\ Base(a) \in Nat /\ End(a) \in Nat
                    /\ End(a) = Base(a + 1)
                    /\ a <= b => Base(a) <= Base(b)
                    /\ Base(a) < Base(b) => a < b
                    /\ End(a) <= Base(b) => a < b
                    /\ Base(a) < End(a)
    OBVIOUS
<1>1. BufferSize \in Nat /\ BufferSize > 0
    BY JiffyAssumption
<1>2. Base(a) \in Nat /\ End(a) \in Nat /\ Base(a) < End(a)
    BY <1>1 DEF Base, End
<1>3. End(a) = Base(a + 1)
    BY <1>1 DEF Base, End
<1>4. \A x, y \in Nat : x <= y => Base(x) <= Base(y)
  <2> SUFFICES ASSUME NEW x \in Nat, NEW y \in Nat, x <= y
               PROVE  Base(x) <= Base(y)
      OBVIOUS
  <2>1. (y - x) * BufferSize >= 0
      BY <1>1
  <2> QED
      BY <2>1, <1>1 DEF Base
<1>5. Base(b) \in Nat
    BY <1>1 DEF Base
<1>6. Base(a) < Base(b) => a < b
    BY <1>2, <1>4, <1>5
<1> QED
    BY <1>2, <1>3, <1>4, <1>5, <1>6

-----------------------------------------------------------------------------
(* The invariant                                                           *)

\* Every step keeps the types.
LEMMA TypeStep ==
    ASSUME TypeOK, SlotsInv, ChainInv, Next
    PROVE  TypeOK'
<1>1. ASSUME NEW p \in Producers, EnqueueClaim(p)
     PROVE  TypeOK'
  <2>1. /\ tail' = tail + 1 /\ tail < MaxClaims
        /\ regs' = [regs EXCEPT ![p].idx = tail]
        /\ pc' = [pc EXCEPT ![p] = "locate"]
        /\ UNCHANGED <<chainVars, slots, headVars, historyVars>>
      BY <1>1 DEF EnqueueClaim, Goto
  <2>2. tail' \in 0..MaxClaims /\ head' \in 0..tail'
      BY <2>1, JiffyAssumption DEF TypeOK, headVars
  <2>3. regs' \in [Procs -> [idx : 0..MaxClaims, buf : Nat]]
      BY <2>1 DEF TypeOK, Procs
  <2>4. pc' \in [Procs -> EnqueuePc \cup {"idle", "dequeue"}]
      BY <2>1 DEF TypeOK, Procs, EnqueuePc
  <2> QED
      BY <2>1, <2>2, <2>3, <2>4
         DEF TypeOK, chainVars, headVars, historyVars
<1>2. ASSUME NEW p \in Producers, LocateBefore(p)
     PROVE  TypeOK'
    BY <1>2, JiffyAssumption
       DEF LocateBefore, Goto, vars, chainVars, headVars, historyVars, TypeOK,
           Procs, NoRegs, EnqueuePc
<1>3. ASSUME NEW p \in Producers, LocateHere(p)
     PROVE  TypeOK'
    BY <1>3, JiffyAssumption
       DEF LocateHere, Goto, vars, chainVars, headVars, historyVars, TypeOK,
           Procs, NoRegs, EnqueuePc
<1>4. ASSUME NEW p \in Producers, LocateAfter(p)
     PROVE  TypeOK'
    BY <1>4, JiffyAssumption
       DEF LocateAfter, Goto, vars, chainVars, headVars, historyVars, TypeOK,
           Procs, NoRegs, EnqueuePc
<1>5. ASSUME NEW p \in Producers, LocateLink(p)
     PROVE  TypeOK'
    BY <1>5, JiffyAssumption
       DEF LocateLink, LinkNext, Goto, vars, chainVars, headVars, historyVars,
           TypeOK, Procs, NoRegs, EnqueuePc
<1>6. ASSUME NEW p \in Producers, LocateAdvance(p)
     PROVE  TypeOK'
    BY SMTT(30), <1>6, JiffyAssumption
       DEF LocateAdvance, Goto, vars, chainVars, headVars, historyVars,
           TypeOK, Procs, NoRegs, EnqueuePc, ChainInv, InChain
<1>7. ASSUME NEW p \in Producers, WalkBegin(p)
     PROVE  TypeOK'
  <2>1. headBuf \in Nat
      BY DEF TypeOK
  <2>2. regs' = [regs EXCEPT ![p].buf = headBuf]
      BY <1>7 DEF WalkBegin
  <2>3. regs' \in [Procs -> [idx : 0..MaxClaims, buf : Nat]]
      BY <2>1, <2>2 DEF TypeOK, Procs
  <2>4. pc' \in [Procs -> EnqueuePc \cup {"idle", "dequeue"}]
      BY <1>7 DEF WalkBegin, Goto, TypeOK, Procs, EnqueuePc
  <2> QED
      BY <1>7, <2>3, <2>4
         DEF WalkBegin, TypeOK, chainVars, headVars, historyVars
<1>8. ASSUME NEW p \in Producers, WalkOn(p)
     PROVE  TypeOK'
  <2>1. regs[p].buf + 1 \in Nat
      BY DEF TypeOK, Procs
  <2>2. regs' \in [Procs -> [idx : 0..MaxClaims, buf : Nat]]
      BY <1>8, <2>1 DEF WalkOn, TypeOK, Procs
  <2> QED
      BY <1>8, <2>2
         DEF WalkOn, TypeOK, vars, chainVars, headVars, historyVars
<1>9. ASSUME NEW p \in Producers, WalkEnd(p)
     PROVE  TypeOK'
    BY <1>9, JiffyAssumption
       DEF WalkEnd, Goto, vars, chainVars, headVars, historyVars, TypeOK,
           Procs, NoRegs, EnqueuePc
<1>10. ASSUME NEW p \in Producers, EnqueueStore(p)
     PROVE  TypeOK'
  <2>1. /\ slots' = [slots EXCEPT ![regs[p].idx] = regs[p].idx + 1]
        /\ UNCHANGED <<tail, chainVars, headVars, historyVars>>
      BY <1>10 DEF EnqueueStore
  <2>2. regs[p].idx \in Nat /\ regs[p].idx < tail /\ tail <= MaxClaims
      BY <1>10, JiffyAssumption
         DEF EnqueueStore, SlotsInv, SearchedIsUnstored, Searching, TypeOK,
             Procs
  <2>3. regs[p].idx + 1 \in 0..MaxClaims
      BY <2>2, JiffyAssumption DEF TypeOK
  <2>4. slots' \in [Indices -> 0..MaxClaims]
      BY <2>1, <2>3 DEF TypeOK
  <2>5. regs' \in [Procs -> [idx : 0..MaxClaims, buf : Nat]]
    <3>1. NoRegs \in [idx : 0..MaxClaims, buf : Nat]
        BY JiffyAssumption DEF NoRegs
    <3>2. regs' = regs \/ regs' = [regs EXCEPT ![p] = NoRegs]
        BY <1>10 DEF EnqueueStore, Return
    <3> QED
        BY <3>1, <3>2 DEF TypeOK
  <2>6. pc' \in [Procs -> EnqueuePc \cup {"idle", "dequeue"}]
      BY <1>10 DEF EnqueueStore, Return, Goto, TypeOK, Procs, EnqueuePc
  <2> QED
      BY <2>1, <2>4, <2>5, <2>6
         DEF TypeOK, chainVars, headVars, historyVars
<1>11. ASSUME NEW p \in Producers, EnqueueLink(p)
     PROVE  TypeOK'
    BY <1>11, JiffyAssumption
       DEF EnqueueLink, LinkNext, Return, Goto, vars, chainVars, headVars,
           historyVars, TypeOK, Procs, NoRegs, EnqueuePc
<1>12. CASE DequeueBegin
    BY <1>12, JiffyAssumption
       DEF DequeueBegin, Goto, vars, chainVars, headVars, historyVars, TypeOK,
           Procs, NoRegs, EnqueuePc
<1>13. CASE DequeueNextBuffer
    BY <1>13, JiffyAssumption
       DEF DequeueNextBuffer, Goto, vars, chainVars, headVars, historyVars,
           TypeOK, Procs, NoRegs, EnqueuePc
<1>14. CASE DequeueNoBuffer
    BY <1>14, JiffyAssumption
       DEF DequeueNoBuffer, DequeueAtEnd, Return, Goto, vars, chainVars,
           headVars, historyVars, TypeOK, Procs, NoRegs, EnqueuePc
<1>15. CASE DequeueUnset
    BY <1>15, JiffyAssumption
       DEF DequeueUnset, Return, Goto, vars, chainVars, headVars, historyVars,
           TypeOK, Procs, NoRegs, EnqueuePc
<1>16. CASE DequeueTake
    BY <1>16, JiffyAssumption
       DEF DequeueTake, Return, Goto, vars, chainVars, headVars, historyVars,
           TypeOK, Procs, NoRegs, EnqueuePc, Indices, ChainInv
<1>17. CASE Drop
    BY <1>17, JiffyAssumption
       DEF Drop, Goto, vars, chainVars, headVars, historyVars, TypeOK, Procs,
           NoRegs, EnqueuePc
<1> QED
    BY <1>1, <1>2, <1>3, <1>4, <1>5, <1>6, <1>7, <1>8, <1>9, <1>10, <1>11,
       <1>12, <1>13, <1>14, <1>15, <1>16, <1>17 DEF Next, EnqueueStep, Dequeue

\* A step of the consumer, or of none, leaves the producers where they are.
LEMMA ConsumerMovesNone ==
    ASSUME TypeOK, Dequeue \/ Drop, NEW q \in Producers
    PROVE  pc'[q] = pc[q] /\ regs'[q] = regs[q]
<1>1. q \in Procs /\ q # Consumer
    BY JiffyAssumption DEF Procs
<1> QED
    BY <1>1 DEF Dequeue, DequeueBegin, DequeueNextBuffer, DequeueNoBuffer,
                DequeueAtEnd, DequeueUnset, DequeueTake, Drop, Return, Goto,
                TypeOK

\* A step of a producer leaves the others, and the consumer, where they are.
LEMMA ProducerMovesOne ==
    ASSUME TypeOK, NEW p \in Producers, EnqueueClaim(p) \/ EnqueueStep(p)
    PROVE  /\ \A q \in Procs \ {p} : pc'[q] = pc[q] /\ regs'[q] = regs[q]
           /\ headBuf' = headBuf /\ head' = head /\ tail <= tail'
<1> USE DEF Goto, TypeOK, headVars
<1>1. CASE EnqueueClaim(p)
    BY <1>1 DEF EnqueueClaim
<1>2. CASE LocateBefore(p) \/ LocateHere(p) \/ LocateAfter(p)
    BY <1>2 DEF LocateBefore, LocateHere, LocateAfter
<1>3. CASE LocateLink(p) \/ LocateAdvance(p)
    BY <1>3 DEF LocateLink, LocateAdvance
<1>4. CASE WalkBegin(p) \/ WalkOn(p) \/ WalkEnd(p)
    BY <1>4 DEF WalkBegin, WalkOn, WalkEnd
<1>5. CASE EnqueueStore(p) \/ EnqueueLink(p)
    BY <1>5 DEF EnqueueStore, EnqueueLink, Return
<1> QED
    BY <1>1, <1>2, <1>3, <1>4, <1>5 DEF EnqueueStep

\* Nothing stored, claimed or passed, and no producer begins to search.
LEMMA SlotsKept ==
    ASSUME SlotsInv, tail' = tail, head' = head, slots' = slots,
           \A q \in Producers : pc'[q] \in Searching =>
               pc[q] \in Searching /\ regs'[q].idx = regs[q].idx
    PROVE  SlotsInv'
<1>1. PassedIsStored'
    BY DEF SlotsInv, PassedIsStored, Indices
<1>2. SearchedIsUnstored'
    BY DEF SlotsInv, SearchedIsUnstored, Searching
<1>3. SearchedIsOwn'
    BY DEF SlotsInv, SearchedIsOwn, Searching
<1> QED
    BY <1>1, <1>2, <1>3 DEF SlotsInv

\* What the consumer has passed is stored, and what is claimed by a producer
\* that still searches is its own and not stored.
LEMMA SlotsStep ==
    ASSUME TypeOK, SlotsInv, ChainInv, Next
    PROVE  SlotsInv'
<1>1. ASSUME NEW p \in Producers, EnqueueClaim(p)
     PROVE  SlotsInv'
  <2>1. /\ tail < MaxClaims /\ tail' = tail + 1
        /\ pc' = [pc EXCEPT ![p] = "locate"]
        /\ regs' = [regs EXCEPT ![p].idx = tail]
        /\ slots' = slots /\ head' = head
        /\ pc[p] = "idle"
      BY <1>1 DEF EnqueueClaim, Goto, headVars
  <2>2. tail \in Indices /\ slots[tail] = 0
      BY <2>1, JiffyAssumption
         DEF TypeOK, SlotsInv, PassedIsStored, Indices
  <2>3. /\ p \in Procs
        /\ regs'[p].idx = tail
        /\ \A q \in Producers \ {p} : regs'[q] = regs[q] /\ pc'[q] = pc[q]
      BY <2>1 DEF TypeOK, Procs
  <2>4. \A i \in Indices : /\ i < head' => slots'[i] # 0
                           /\ tail' <= i => slots'[i] = 0
      BY <2>1, JiffyAssumption
         DEF SlotsInv, PassedIsStored, Indices, TypeOK
  <2>5. \A q \in Producers : pc[q] \in Searching =>
            regs[q].idx \in Nat /\ regs[q].idx < tail
      BY DEF SlotsInv, SearchedIsUnstored, TypeOK, Procs
  <2>6. \A q \in Producers : pc'[q] \in Searching =>
            regs'[q].idx < tail' /\ slots'[regs'[q].idx] = 0
    <3> TAKE q \in Producers
    <3>1. CASE q = p
        BY <3>1, <2>1, <2>2, <2>3 DEF TypeOK
    <3>2. CASE q # p
      <4>1. regs'[q] = regs[q] /\ pc'[q] = pc[q]
          BY <3>2, <2>3
      <4>2. pc[q] \in Searching =>
                regs[q].idx < tail /\ slots[regs[q].idx] = 0
          BY DEF SlotsInv, SearchedIsUnstored
      <4> QED
          BY <4>1, <4>2, <2>1, <2>5 DEF TypeOK
    <3> QED
        BY <3>1, <3>2
  <2>7. \A q, r \in Producers :
            pc'[q] \in Searching /\ pc'[r] \in Searching /\ q # r =>
                regs'[q].idx # regs'[r].idx
    <3> SUFFICES ASSUME NEW q \in Producers, NEW r \in Producers,
                        pc'[q] \in Searching, pc'[r] \in Searching, q # r
                 PROVE  regs'[q].idx # regs'[r].idx
        OBVIOUS
    <3>1. CASE q = p \/ r = p
        BY <3>1, <2>3, <2>5 DEF TypeOK
    <3>2. CASE q # p /\ r # p
      <4>1. pc[q] \in Searching /\ pc[r] \in Searching
          BY <3>2, <2>3
      <4>2. regs[q].idx # regs[r].idx
          BY <4>1 DEF SlotsInv, SearchedIsOwn
      <4> QED
          BY <3>2, <4>2, <2>3
    <3> QED
        BY <3>1, <3>2
  <2> QED
    <3>1. PassedIsStored'
        BY <2>4 DEF PassedIsStored, Indices
    <3>2. SearchedIsUnstored'
        BY <2>6 DEF SearchedIsUnstored, Searching
    <3>3. SearchedIsOwn'
        BY <2>7 DEF SearchedIsOwn, Searching
    <3> QED
        BY <3>1, <3>2, <3>3 DEF SlotsInv
<1>2. ASSUME NEW p \in Producers, EnqueueStore(p)
     PROVE  SlotsInv'
  <2>1. /\ slots' = [slots EXCEPT ![regs[p].idx] = regs[p].idx + 1]
        /\ pc[p] = "store"
        /\ tail' = tail /\ head' = head
      BY <1>2 DEF EnqueueStore, headVars
  <2>2. pc'[p] \notin Searching
      BY <1>2 DEF EnqueueStore, Return, Goto, Searching, TypeOK, Procs
  <2>3. \A q \in Producers \ {p} : regs'[q] = regs[q] /\ pc'[q] = pc[q]
      BY <1>2 DEF EnqueueStore, Return, Goto, TypeOK, Procs
  <2>4. /\ regs[p].idx \in Nat /\ regs[p].idx < tail
        /\ regs[p].idx \in Indices
      BY <2>1, JiffyAssumption
         DEF SlotsInv, SearchedIsUnstored, Searching, TypeOK, Procs,
             Indices
  <2>5. \A i \in Indices : /\ i < head' => slots'[i] # 0
                           /\ tail' <= i => slots'[i] = 0
      BY <2>1, <2>4 DEF SlotsInv, PassedIsStored, Indices, TypeOK
  <2>6. \A q \in Producers \ {p} : pc[q] \in Searching =>
            slots'[regs[q].idx] = slots[regs[q].idx]
    <3> SUFFICES ASSUME NEW q \in Producers \ {p}, pc[q] \in Searching
                 PROVE  slots'[regs[q].idx] = slots[regs[q].idx]
        OBVIOUS
    <3>1. regs[q].idx \in Nat /\ regs[q].idx < tail
        BY DEF SlotsInv, SearchedIsUnstored, TypeOK, Procs
    <3>2. regs[q].idx \in Indices
        BY <3>1, JiffyAssumption DEF TypeOK, Indices
    <3>3. regs[q].idx # regs[p].idx
        BY <2>1 DEF SlotsInv, SearchedIsOwn, Searching
    <3> QED
        BY <2>1, <3>2, <3>3 DEF TypeOK
  <2> QED
    <3>1. \A q \in Producers : pc'[q] \in Searching =>
              /\ q # p /\ pc[q] \in Searching
              /\ regs'[q].idx = regs[q].idx
        BY <2>2, <2>3
    <3>2. \A q \in Producers : pc'[q] \in Searching =>
              regs'[q].idx < tail' /\ slots'[regs'[q].idx] = 0
        BY <3>1, <2>1, <2>6 DEF SlotsInv, SearchedIsUnstored
    <3>3. \A q, r \in Producers :
              pc'[q] \in Searching /\ pc'[r] \in Searching /\ q # r =>
                  regs'[q].idx # regs'[r].idx
        BY <3>1 DEF SlotsInv, SearchedIsOwn
    <3> QED
      <4>1. PassedIsStored'
          BY <2>5 DEF PassedIsStored, Indices
      <4>2. SearchedIsUnstored'
          BY <3>2 DEF SearchedIsUnstored, Searching
      <4>3. SearchedIsOwn'
          BY <3>3 DEF SearchedIsOwn, Searching
      <4> QED
          BY <4>1, <4>2, <4>3 DEF SlotsInv
<1>3. ASSUME NEW p \in Producers, EnqueueStep(p), ~EnqueueStore(p)
     PROVE  SlotsInv'
  <2>1. tail' = tail /\ head' = head /\ slots' = slots
      BY <1>3 DEF EnqueueStep, LocateBefore, LocateHere, LocateAfter,
                  LocateLink, LocateAdvance, WalkBegin, WalkOn, WalkEnd,
                  EnqueueLink, headVars
  <2>2. p \in Procs
      BY DEF Procs
  <2>3. pc'[p] \in Searching =>
            pc[p] \in Searching /\ regs'[p].idx = regs[p].idx
    <3>1. CASE EnqueueLink(p)
        BY <3>1, <2>2 DEF EnqueueLink, Return, Goto, Searching, TypeOK
    <3>2. CASE ~EnqueueLink(p)
      <4>1. pc[p] \in Searching
          BY <1>3, <3>2 DEF EnqueueStep, LocateBefore, LocateHere,
                            LocateAfter, LocateLink, LocateAdvance, WalkBegin,
                            WalkOn, WalkEnd, Searching
      <4>2. regs'[p].idx = regs[p].idx
          BY <1>3, <3>2, <2>2
             DEF EnqueueStep, LocateBefore, LocateHere, LocateAfter,
                 LocateLink, LocateAdvance, WalkBegin, WalkOn, WalkEnd, TypeOK
      <4> QED
          BY <4>1, <4>2
    <3> QED
        BY <3>1, <3>2
  <2>4. \A q \in Producers : q # p => pc'[q] = pc[q] /\ regs'[q] = regs[q]
      BY <1>3, ProducerMovesOne DEF Procs
  <2> QED
      BY <2>1, <2>3, <2>4, SlotsKept
<1>4. CASE Dequeue \/ Drop
  <2>1. \A q \in Producers : pc'[q] = pc[q] /\ regs'[q] = regs[q]
      BY <1>4, ConsumerMovesNone
  <2>2. tail' = tail /\ slots' = slots
      BY <1>4 DEF Dequeue, DequeueBegin, DequeueNextBuffer, DequeueNoBuffer,
                  DequeueAtEnd, DequeueUnset, DequeueTake, Drop
  <2>3. CASE head' = head
      BY <2>1, <2>2, <2>3, SlotsKept
  <2>4. CASE head' # head
    <3>1. head' = head + 1 /\ slots[head] # 0 /\ head < tail
        BY <1>4, <2>4
           DEF Dequeue, DequeueBegin, DequeueNextBuffer, DequeueNoBuffer,
               DequeueAtEnd, DequeueUnset, DequeueTake, Drop, headVars,
               ChainInv
    <3>2. PassedIsStored'
        BY <3>1, <2>2 DEF SlotsInv, PassedIsStored, Indices, TypeOK
    <3>3. SearchedIsUnstored'
        BY <2>1, <2>2 DEF SlotsInv, SearchedIsUnstored, Searching
    <3>4. SearchedIsOwn'
        BY <2>1 DEF SlotsInv, SearchedIsOwn, Searching
    <3> QED
        BY <3>2, <3>3, <3>4 DEF SlotsInv
  <2> QED
      BY <2>3, <2>4
<1> QED
    BY <1>1, <1>2, <1>3, <1>4 DEF Next, EnqueueStep

\* The chain and its end as the producers know it only grow.
LEMMA ChainGrows ==
    ASSUME TypeOK, SlotsInv, ChainInv, Next
    PROVE  /\ linked <= linked' /\ tailBuf <= tailBuf'
           /\ Base(tailBuf) <= Base(tailBuf')
<1>1. linked <= linked' /\ tailBuf <= tailBuf'
  <2>1. ASSUME NEW p \in Producers, EnqueueStep(p)
        PROVE  linked <= linked' /\ tailBuf <= tailBuf'
      BY <2>1 DEF EnqueueStep, LocateBefore, LocateHere, LocateAfter,
                  LocateLink, LocateAdvance, LinkNext, WalkBegin, WalkOn,
                  WalkEnd, EnqueueStore, EnqueueLink, chainVars, TypeOK
  <2>2. ASSUME NEW p \in Producers, EnqueueClaim(p)
        PROVE  linked <= linked' /\ tailBuf <= tailBuf'
      BY <2>2 DEF EnqueueClaim, chainVars, TypeOK
  <2>3. CASE Dequeue \/ Drop
      BY <2>3 DEF Dequeue, DequeueBegin, DequeueNextBuffer, DequeueNoBuffer,
                  DequeueAtEnd, DequeueUnset, DequeueTake, Drop, chainVars,
                  TypeOK
  <2> QED
      BY <2>1, <2>2, <2>3 DEF Next
<1>2. tailBuf \in Nat /\ tailBuf' \in Nat
  <2>1. TypeOK'
      BY TypeStep
  <2> QED
      BY <2>1 DEF TypeOK
<1> QED
    BY <1>1, <1>2, BaseOrder

\* A producer that does not move stays in the chain, and at its buffer.
LEMMA OthersStay ==
    ASSUME TypeOK, TypeOK', NEW q \in Producers,
           pc'[q] = pc[q], regs'[q] = regs[q],
           linked <= linked', Base(tailBuf) <= Base(tailBuf'),
           InChain(q), AtItsBuffer(q)
    PROVE  InChain(q)' /\ AtItsBuffer(q)'
<1>1. /\ regs[q].idx \in Nat /\ regs[q].buf \in Nat
      /\ linked \in Nat /\ linked' \in Nat
      /\ Base(tailBuf) \in Nat /\ Base(tailBuf') \in Nat
  <2>1. /\ linked \in Nat /\ linked' \in Nat
        /\ tailBuf \in Nat /\ tailBuf' \in Nat
      BY DEF TypeOK
  <2>2. regs[q] \in [idx : 0..MaxClaims, buf : Nat]
      BY DEF TypeOK, Procs
  <2>3. Base(tailBuf) \in Nat /\ Base(tailBuf') \in Nat
      BY <2>1, BaseOrder
  <2> QED
      BY <2>1, <2>2, <2>3
<1>2. InChain(q)'
  <2>1. Base(tailBuf)' = Base(tailBuf')
      BY DEF Base
  <2> QED
      BY <1>1, <2>1 DEF InChain
<1>3. Base(regs[q].buf)' = Base(regs[q].buf)
      /\ End(regs[q].buf)' = End(regs[q].buf)
    BY DEF Base, End
<1>4. AtItsBuffer(q)'
    BY <1>1, <1>3 DEF AtItsBuffer
<1> QED
    BY <1>2, <1>4

\* The producer that moves is in the chain, and at its buffer, after as before.
LEMMA MoverStays ==
    ASSUME TypeOK, SlotsInv, ChainInv, FindsItsBuffer, NEW p \in Producers,
           EnqueueClaim(p) \/ EnqueueStep(p), linked <= linked',
           tailBuf' \in Nat, linked' \in Nat
    PROVE  InChain(p)' /\ AtItsBuffer(p)'
<1> DEFINE idx == regs[p].idx
           buf == regs[p].buf
<1>1. /\ p \in Procs /\ idx \in Nat /\ buf \in Nat
      /\ tailBuf \in Nat /\ headBuf \in Nat /\ linked \in Nat
      /\ tailBuf <= linked /\ head \in Nat
    BY DEF TypeOK, Procs
<1>2. InChain(p) /\ AtItsBuffer(p)
    BY DEF ChainInv, FindsItsBuffer
<1>3. /\ Base(tailBuf) \in Nat /\ Base(buf) \in Nat /\ End(buf) \in Nat
      /\ End(tailBuf) \in Nat /\ Base(headBuf) \in Nat
    BY <1>1, BaseOrder
<1>4. CASE EnqueueClaim(p) \/ LocateBefore(p)
    BY <1>4, <1>1 DEF EnqueueClaim, LocateBefore, Goto, InChain, AtItsBuffer,
                      TypeOK, Procs, chainVars
<1>5. CASE LocateHere(p)
  <2>1. /\ pc'[p] = "store" /\ regs'[p].buf = tailBuf /\ regs'[p].idx = idx
        /\ linked' = linked /\ Base(tailBuf) <= idx /\ idx < End(tailBuf)
      BY <1>5, <1>1 DEF LocateHere, Goto, TypeOK, chainVars
  <2> QED
      BY <2>1, <1>1 DEF InChain, AtItsBuffer
<1>6. CASE LocateAfter(p)
    BY <1>6, <1>1 DEF LocateAfter, Goto, InChain, AtItsBuffer, TypeOK,
                      chainVars
<1>7. CASE LocateLink(p) \/ EnqueueLink(p)
  <2>1. pc'[p] \in {"advance", "idle"}
      BY <1>7, <1>1 DEF LocateLink, EnqueueLink, Goto, Return, TypeOK
  <2>2. pc'[p] = "advance" => buf < linked' /\ regs'[p].buf = buf
      BY <1>7, <1>1, <1>2
         DEF LocateLink, LinkNext, EnqueueLink, Goto, Return, TypeOK, InChain
  <2> QED
      BY <2>1, <2>2 DEF InChain, AtItsBuffer
<1>8. CASE LocateAdvance(p)
    BY <1>8, <1>1 DEF LocateAdvance, Goto, InChain, AtItsBuffer, TypeOK
<1>9. CASE WalkBegin(p)
  <2>1. /\ pc[p] = "from_head" /\ pc'[p] = "walk" /\ regs'[p].idx = idx
        /\ regs'[p].buf = headBuf /\ linked' = linked /\ tailBuf' = tailBuf
      BY <1>9, <1>1 DEF WalkBegin, Goto, TypeOK, chainVars
  <2>2. idx < Base(tailBuf)
      BY <2>1, <1>2 DEF InChain
  <2>3. head <= idx
    <3>1. slots[idx] = 0 /\ idx < tail
        BY <2>1 DEF SlotsInv, SearchedIsUnstored, Searching
    <3>2. idx \in Indices
        BY <3>1, <1>1, JiffyAssumption DEF TypeOK, Indices
    <3> QED
        BY <3>1, <3>2, <1>1 DEF SlotsInv, PassedIsStored
  <2>4. Base(headBuf) <= idx
      BY <2>3, <1>1, <1>3 DEF ChainInv
  <2>5. End(headBuf) <= idx => headBuf < linked
      BY <2>2, <1>1, <1>3, BaseOrder
  <2> QED
      BY <2>1, <2>2, <2>4, <2>5 DEF InChain, AtItsBuffer
<1>10. CASE WalkOn(p)
  <2>1. /\ pc[p] = "walk" /\ pc'[p] = "walk" /\ regs'[p].idx = idx
        /\ regs'[p].buf = buf + 1 /\ linked' = linked /\ tailBuf' = tailBuf
        /\ End(buf) <= idx
      BY <1>10, <1>1 DEF WalkOn, TypeOK, chainVars
  <2>2. idx < Base(tailBuf)
      BY <2>1, <1>2 DEF InChain
  <2>3. Base(buf + 1) <= idx
      BY <2>1, <1>1, BaseOrder
  <2>4. End(buf + 1) <= idx => buf + 1 < linked
    <3>1. buf + 1 \in Nat /\ End(buf + 1) \in Nat
        BY <1>1, BaseOrder
    <3>2. End(buf + 1) <= idx => End(buf + 1) <= Base(tailBuf)
        BY <2>2, <3>1, <1>1, <1>3
    <3> QED
        BY <3>1, <3>2, <1>1, BaseOrder
  <2> QED
      BY <2>1, <2>2, <2>3, <2>4 DEF InChain, AtItsBuffer
<1>11. CASE WalkEnd(p)
  <2>1. /\ pc[p] = "walk" /\ pc'[p] = "store" /\ regs' = regs
        /\ linked' = linked /\ tailBuf' = tailBuf /\ idx < End(buf)
      BY <1>11, <1>1 DEF WalkEnd, Goto, TypeOK, chainVars
  <2>2. Base(buf) <= idx /\ idx < Base(tailBuf)
      BY <2>1, <1>2 DEF InChain, AtItsBuffer
  <2>3. buf <= linked
    <3>1. Base(buf) < Base(tailBuf)
        BY <2>2, <1>1, <1>3
    <3> QED
        BY <3>1, <1>1, BaseOrder
  <2> QED
      BY <2>1, <2>2, <2>3 DEF InChain, AtItsBuffer
<1>12. CASE EnqueueStore(p)
  <2>1. /\ pc[p] = "store" /\ linked' = linked
        /\ \/ pc'[p] = "link_eagerly" /\ regs' = regs
           \/ pc'[p] = "idle"
      BY <1>12, <1>1 DEF EnqueueStore, Goto, Return, TypeOK, chainVars
  <2> QED
      BY <2>1, <1>2 DEF InChain, AtItsBuffer
<1> QED
    BY <1>4, <1>5, <1>6, <1>7, <1>8, <1>9, <1>10, <1>11, <1>12
       DEF EnqueueStep

\* The consumer's index stays in its buffer, or at its end.
LEMMA ConsumerStays ==
    ASSUME TypeOK, ChainInv, Next
    PROVE  /\ Base(headBuf') <= head' /\ head' <= End(headBuf')
           /\ pc'[Consumer] \in {"idle", "dequeue"}
           /\ pc'[Consumer] = "dequeue" => head' < tail'
<1>1. /\ headBuf \in Nat /\ head \in Nat /\ tail \in Nat
      /\ Consumer \in Procs
    BY JiffyAssumption DEF TypeOK, Procs
<1>2. /\ Base(headBuf) <= head /\ head <= End(headBuf)
      /\ pc[Consumer] \in {"idle", "dequeue"}
      /\ pc[Consumer] = "dequeue" => head < tail
    BY DEF ChainInv
<1>3. /\ Base(headBuf) \in Nat /\ End(headBuf) \in Nat
      /\ Base(headBuf + 1) = End(headBuf)
      /\ End(headBuf + 1) \in Nat /\ Base(headBuf + 1) < End(headBuf + 1)
    BY <1>1, BaseOrder
<1>4. ASSUME NEW p \in Producers, EnqueueClaim(p) \/ EnqueueStep(p)
      PROVE  /\ headBuf' = headBuf /\ head' = head
             /\ pc'[Consumer] = pc[Consumer]
             /\ tail <= tail' /\ tail' \in Nat
  <2>1. p # Consumer
      BY JiffyAssumption
  <2>2. tail' = tail \/ tail' = tail + 1
      BY <1>4 DEF EnqueueClaim, EnqueueStep, LocateBefore, LocateHere,
                  LocateAfter, LocateLink, LocateAdvance, WalkBegin, WalkOn,
                  WalkEnd, EnqueueStore, EnqueueLink
  <2> QED
      BY <1>1, <1>4, <2>1, <2>2, ProducerMovesOne
<1>5. CASE DequeueBegin \/ DequeueUnset \/ DequeueNoBuffer \/ Drop
  <2>1. headBuf' = headBuf /\ head' = head /\ tail' = tail
      BY <1>5 DEF DequeueBegin, DequeueUnset, DequeueNoBuffer, DequeueAtEnd,
                  Drop, headVars
  <2>2. \/ pc' = pc \/ pc'[Consumer] = "idle"
        \/ pc'[Consumer] = "dequeue" /\ head < tail
      BY <1>5, <1>1 DEF DequeueBegin, DequeueUnset, DequeueNoBuffer,
                        DequeueAtEnd, Drop, Goto, Return, TypeOK
  <2> QED
      BY <2>1, <2>2, <1>2
<1>6. CASE DequeueNextBuffer
  <2>1. /\ headBuf' = headBuf + 1 /\ head' = head /\ tail' = tail /\ pc' = pc
        /\ head = End(headBuf)
      BY <1>6 DEF DequeueNextBuffer, AtEnd
  <2> QED
      BY <2>1, <1>1, <1>2, <1>3
<1>7. CASE DequeueTake
  <2>1. /\ headBuf' = headBuf /\ head' = head + 1 /\ head # End(headBuf)
        /\ pc'[Consumer] = "idle"
      BY <1>7, <1>1 DEF DequeueTake, AtEnd, Return, Goto, TypeOK
  <2> QED
      BY <2>1, <1>1, <1>2, <1>3
<1>8. CASE \E p \in Producers : EnqueueClaim(p) \/ EnqueueStep(p)
    BY <1>8, <1>4, <1>2, <1>1
<1> QED
    BY <1>5, <1>6, <1>7, <1>8 DEF Next, Dequeue

\* Every producer stays in the chain, and at its buffer.
LEMMA SearchStep ==
    ASSUME TypeOK, SearchInv, Next
    PROVE  ChainInv' /\ FindsItsBuffer'
<1>1. SlotsInv /\ ChainInv /\ FindsItsBuffer
    BY DEF SearchInv
<1>2. TypeOK'
    BY <1>1, TypeStep
<1>3. linked <= linked' /\ Base(tailBuf) <= Base(tailBuf')
    BY <1>1, ChainGrows
<1>4. tailBuf' \in Nat /\ linked' \in Nat
    BY <1>2 DEF TypeOK
<1>5. \A q \in Producers : InChain(q) /\ AtItsBuffer(q)
    BY <1>1 DEF ChainInv, FindsItsBuffer
<1>6. ASSUME NEW q \in Producers
      PROVE  InChain(q)' /\ AtItsBuffer(q)'
  <2>1. CASE EnqueueClaim(q) \/ EnqueueStep(q)
      BY <2>1, <1>1, <1>3, <1>4, MoverStays
  <2>2. CASE pc'[q] = pc[q] /\ regs'[q] = regs[q]
      BY <2>2, <1>2, <1>3, <1>5, OthersStay
  <2>3. ASSUME NEW p \in Producers, EnqueueClaim(p) \/ EnqueueStep(p), q # p
        PROVE  pc'[q] = pc[q] /\ regs'[q] = regs[q]
    <3>1. q \in Procs \ {p}
        BY <2>3 DEF Procs
    <3> QED
        BY <3>1, <2>3, ProducerMovesOne
  <2>4. CASE Dequeue \/ Drop
      BY <2>4, <2>2, ConsumerMovesNone
  <2> QED
      BY <2>1, <2>2, <2>3, <2>4 DEF Next
<1>7. FindsItsBuffer'
    BY <1>6 DEF FindsItsBuffer
<1>8. Base(headBuf)' = Base(headBuf') /\ End(headBuf)' = End(headBuf')
    BY DEF Base, End
<1>9. ChainInv'
    BY <1>1, <1>6, <1>8, ConsumerStays DEF ChainInv
<1> QED
    BY <1>7, <1>9

-----------------------------------------------------------------------------
(* The theorems                                                            *)

\* The inductive invariant: the consumer passes only what is stored, so that
\* it stays behind every producer that still looks for its buffer.
THEOREM SearchInvariant == Spec => [](TypeOK /\ SearchInv)
<1>1. Init => TypeOK /\ SearchInv
  <2> SUFFICES ASSUME Init PROVE TypeOK /\ SearchInv
      OBVIOUS
  <2>1. TypeOK
    <3>1. NoRegs \in [idx : 0..MaxClaims, buf : Nat]
        BY JiffyAssumption DEF NoRegs
    <3>2. regs \in [Procs -> [idx : 0..MaxClaims, buf : Nat]]
        BY <3>1 DEF Init
    <3>3. slots \in [Indices -> 0..MaxClaims]
        BY JiffyAssumption DEF Init
    <3>4. delivered \in Seq(1..MaxClaims)
        BY DEF Init
    <3>5. pc \in [Procs -> EnqueuePc \cup {"idle", "dequeue"}]
        BY DEF Init
    <3>6. /\ tail \in 0..MaxClaims /\ head \in 0..tail
          /\ linked \in Nat /\ tailBuf \in 0..linked
          /\ headBuf \in 0..linked
        BY JiffyAssumption DEF Init
    <3>7. dropped \in BOOLEAN
        BY DEF Init
    <3> QED
        BY <3>2, <3>3, <3>4, <3>5, <3>6, <3>7 DEF TypeOK
  <2>2. \A p \in Procs : pc[p] = "idle"
      BY DEF Init
  <2>3. SlotsInv
      BY <2>2, JiffyAssumption
         DEF SlotsInv, PassedIsStored, SearchedIsUnstored, SearchedIsOwn,
             Searching, Procs, Init, Indices
  <2>4. Base(headBuf) <= head /\ head <= End(headBuf)
      BY JiffyAssumption DEF Init, Base, End
  <2>5. ChainInv
      BY <2>2, <2>4 DEF ChainInv, InChain, Procs
  <2>6. FindsItsBuffer
      BY <2>2 DEF FindsItsBuffer, AtItsBuffer, Procs
  <2> QED
      BY <2>1, <2>3, <2>5, <2>6 DEF SearchInv
<1>2. TypeOK /\ SearchInv /\ [Next]_vars => (TypeOK /\ SearchInv)'
  <2> SUFFICES ASSUME TypeOK, SearchInv, [Next]_vars
               PROVE  (TypeOK /\ SearchInv)'
      OBVIOUS
  <2>1. CASE Next
    <3>1. SlotsInv /\ ChainInv
        BY DEF SearchInv
    <3>2. TypeOK' /\ SlotsInv'
        BY <2>1, <3>1, TypeStep, SlotsStep
    <3>3. ChainInv' /\ FindsItsBuffer'
        BY <2>1, SearchStep
    <3> QED
        BY <3>2, <3>3 DEF SearchInv
  <2>2. CASE UNCHANGED vars
      BY <2>2 DEF vars, chainVars, headVars, historyVars, TypeOK, SearchInv,
                  SlotsInv, PassedIsStored, SearchedIsUnstored, SearchedIsOwn,
                  ChainInv, InChain, FindsItsBuffer, AtItsBuffer, Base, End
  <2> QED
      BY <2>1, <2>2
<1> QED
    BY <1>1, <1>2, PTL DEF Spec

\* The state keeps the shape of Inner, Buffer and the locals of an operation.
THEOREM JiffyTypeCorrect == Spec => []TypeOK
BY SearchInvariant, PTL

\* A producer stores its value in the buffer of the index it has claimed, and
\* a search from the head never comes to the end of the chain: the assertion
\* in locate_from_head holds.
THEOREM SearchFindsItsBuffer == Spec => []FindsItsBuffer
<1>1. SearchInv => FindsItsBuffer
    BY DEF SearchInv
<1> QED
    BY <1>1, SearchInvariant, PTL

-----------------------------------------------------------------------------
(* The queue as a row of cells                                             *)

\* A longer chain has room for no less.
LEMMA EndOrder ==
    \A a, b \in Nat : a <= b => End(a) \in Nat /\ End(b) \in Nat
                                   /\ End(a) <= End(b)
<1> SUFFICES ASSUME NEW a \in Nat, NEW b \in Nat, a <= b
             PROVE  End(a) \in Nat /\ End(b) \in Nat /\ End(a) <= End(b)
    OBVIOUS
<1>1. Base(a) \in Nat /\ Base(b) \in Nat /\ Base(a) <= Base(b)
    BY BaseOrder
<1> QED
    BY <1>1, JiffyAssumption DEF End

\* What is stored stays stored, in a chain that grows.
LEMMA StoredKept ==
    ASSUME StoredIsOwn, slots' = slots,
           linked \in Nat, linked' \in Nat, linked <= linked'
    PROVE  StoredIsOwn'
<1>1. End(linked) \in Nat /\ End(linked') \in Nat
      /\ End(linked) <= End(linked')
    BY EndOrder
<1>2. End(linked)' = End(linked')
    BY DEF End, Base
<1>3. \A i \in Indices : i \in Nat
    BY JiffyAssumption DEF Indices
<1> QED
    BY <1>1, <1>2, <1>3 DEF StoredIsOwn, Indices

\* A claim leaves a producer on the way to the slot.
LEMMA CellsStepClaim ==
    ASSUME TypeOK, SearchInv, CellsInv, NEW p \in Producers, EnqueueClaim(p)
    PROVE  CellsInv'
<1>1. /\ pc[p] = "idle" /\ ~dropped /\ dropped' = dropped
      /\ tail' = tail + 1 /\ slots' = slots /\ linked' = linked
      /\ pc' = [pc EXCEPT ![p] = "locate"]
      /\ regs' = [regs EXCEPT ![p].idx = tail]
    BY DEF EnqueueClaim, Goto, chainVars, historyVars
<1>2. /\ p \in Procs /\ pc'[p] \in Searching /\ regs'[p].idx = tail
      /\ \A q \in Producers \ {p} : pc'[q] = pc[q] /\ regs'[q] = regs[q]
    BY <1>1 DEF TypeOK, Procs, Searching
<1>3. StoredIsOwn'
    BY <1>1, StoredKept DEF CellsInv, TypeOK
<1>4. ClaimedIsStored'
  <2> SUFFICES ASSUME NEW i \in Indices, i < tail', slots'[i] = 0
               PROVE  \E q \in Producers : pc'[q] \in Searching
                                               /\ regs'[q].idx = i
      BY DEF ClaimedIsStored, Indices, Searching
  <2>1. CASE i = tail
      BY <2>1, <1>2
  <2>2. CASE i # tail
    <3>1. i < tail
      <4>1. i \in Nat /\ tail \in Nat /\ tail' = tail + 1
          BY <1>1, JiffyAssumption DEF TypeOK, Indices
      <4> QED
          BY <4>1, <2>2
    <3>2. PICK q \in Producers : pc[q] \in Searching /\ regs[q].idx = i
        BY <3>1, <1>1 DEF CellsInv, ClaimedIsStored
    <3>3. q # p
        BY <3>2, <1>1 DEF Searching
    <3> QED
        BY <3>2, <3>3, <1>2
  <2> QED
      BY <2>1, <2>2
<1> QED
    BY <1>1, <1>3, <1>4 DEF CellsInv, DroppedRests

\* A store fills the producer's own slot, which is in its buffer.
LEMMA CellsStepStore ==
    ASSUME TypeOK, SearchInv, CellsInv, NEW p \in Producers, EnqueueStore(p)
    PROVE  CellsInv'
<1> DEFINE idx == regs[p].idx
           buf == regs[p].buf
<1>1. /\ pc[p] = "store" /\ p \in Procs
      /\ slots' = [slots EXCEPT ![idx] = idx + 1]
      /\ tail' = tail /\ linked' = linked /\ dropped' = dropped
    BY DEF EnqueueStore, chainVars, historyVars, Procs
<1>2. /\ idx \in Nat /\ buf \in Nat /\ linked \in Nat
      /\ idx < tail /\ idx \in Indices
    BY <1>1, JiffyAssumption
       DEF TypeOK, SearchInv, SlotsInv, SearchedIsUnstored, Searching, Indices
<1>3. \A q \in Producers \ {p} : pc'[q] = pc[q] /\ regs'[q] = regs[q]
  <2>1. \A q \in Procs \ {p} : pc'[q] = pc[q] /\ regs'[q] = regs[q]
      BY ProducerMovesOne DEF EnqueueStep
  <2> QED
      BY <2>1 DEF Procs
<1>4. /\ slots'[idx] = idx + 1
      /\ \A i \in Indices : i # idx => slots'[i] = slots[i]
    BY <1>1, <1>2 DEF TypeOK
<1>5. idx < End(linked)
  <2>1. idx < End(buf) /\ buf <= linked
      BY <1>1 DEF SearchInv, FindsItsBuffer, AtItsBuffer
  <2>2. End(buf) \in Nat /\ End(linked) \in Nat /\ End(buf) <= End(linked)
      BY <2>1, <1>2, EndOrder
  <2> QED
      BY <2>1, <2>2, <1>2
<1>6. End(linked)' = End(linked)
    BY <1>1 DEF End, Base
<1>7. StoredIsOwn'
    BY <1>4, <1>5, <1>6 DEF CellsInv, StoredIsOwn, Indices
<1>8. ClaimedIsStored'
  <2> SUFFICES ASSUME NEW i \in Indices, i < tail', slots'[i] = 0
               PROVE  \E q \in Producers : pc'[q] \in Searching
                                               /\ regs'[q].idx = i
      BY DEF ClaimedIsStored, Indices, Searching
  <2>1. i # idx
      BY <1>2, <1>4
  <2>2. PICK q \in Producers : pc[q] \in Searching /\ regs[q].idx = i
      BY <2>1, <1>1, <1>4 DEF CellsInv, ClaimedIsStored
  <2>3. q # p
      BY <2>1, <2>2
  <2> QED
      BY <2>2, <2>3, <1>3
<1>9. ~dropped
    BY <1>1 DEF CellsInv, DroppedRests
<1> QED
    BY <1>1, <1>7, <1>8, <1>9 DEF CellsInv, DroppedRests

\* A search goes on to the slot it was on the way to.
LEMMA CellsStepSearch ==
    ASSUME TypeOK, TypeOK', SearchInv, CellsInv, linked <= linked',
           NEW p \in Producers, EnqueueStep(p), ~EnqueueStore(p)
    PROVE  CellsInv'
<1>1. /\ tail' = tail /\ slots' = slots /\ dropped' = dropped
      /\ pc[p] # "idle" /\ p \in Procs
    BY DEF EnqueueStep, LocateBefore, LocateHere, LocateAfter, LocateLink,
           LocateAdvance, WalkBegin, WalkOn, WalkEnd, EnqueueLink,
           historyVars, Procs
<1>2. \A q \in Producers \ {p} : pc'[q] = pc[q] /\ regs'[q] = regs[q]
  <2>1. \A q \in Procs \ {p} : pc'[q] = pc[q] /\ regs'[q] = regs[q]
      BY ProducerMovesOne
  <2> QED
      BY <2>1 DEF Procs
<1>3. pc[p] \in Searching =>
          pc'[p] \in Searching /\ regs'[p].idx = regs[p].idx
  <2>1. CASE EnqueueLink(p)
      BY <2>1 DEF EnqueueLink, Searching
  <2>2. CASE LocateBefore(p) \/ LocateHere(p) \/ LocateAfter(p)
      BY <2>2, <1>1 DEF LocateBefore, LocateHere, LocateAfter, Goto, TypeOK,
                        Searching
  <2>3. CASE LocateLink(p) \/ LocateAdvance(p)
      BY <2>3, <1>1 DEF LocateLink, LocateAdvance, Goto, TypeOK, Searching
  <2>4. CASE WalkBegin(p) \/ WalkOn(p) \/ WalkEnd(p)
      BY <2>4, <1>1 DEF WalkBegin, WalkOn, WalkEnd, Goto, TypeOK, Searching
  <2> QED
      BY <2>1, <2>2, <2>3, <2>4 DEF EnqueueStep
<1>4. StoredIsOwn'
    BY <1>1, StoredKept DEF CellsInv, TypeOK
<1>5. ClaimedIsStored'
  <2> SUFFICES ASSUME NEW i \in Indices, i < tail', slots'[i] = 0
               PROVE  \E q \in Producers : pc'[q] \in Searching
                                               /\ regs'[q].idx = i
      BY DEF ClaimedIsStored, Indices, Searching
  <2>1. PICK q \in Producers : pc[q] \in Searching /\ regs[q].idx = i
      BY <1>1 DEF CellsInv, ClaimedIsStored
  <2> QED
      BY <2>1, <1>2, <1>3
<1>6. ~dropped
    BY <1>1 DEF CellsInv, DroppedRests
<1> QED
    BY <1>1, <1>4, <1>5, <1>6 DEF CellsInv, DroppedRests

\* Every step keeps the claimed slots accounted for.
LEMMA CellsStep ==
    ASSUME TypeOK, SearchInv, CellsInv, Next
    PROVE  CellsInv'
<1>1. TypeOK' /\ linked <= linked'
    BY TypeStep, ChainGrows DEF SearchInv
<1>2. ASSUME NEW p \in Producers, EnqueueClaim(p)
      PROVE  CellsInv'
    BY <1>2, CellsStepClaim
<1>3. ASSUME NEW p \in Producers, EnqueueStep(p)
      PROVE  CellsInv'
    BY <1>1, <1>3, CellsStepStore, CellsStepSearch
<1>4. CASE Dequeue \/ Drop
  <2>1. \A q \in Producers : pc'[q] = pc[q] /\ regs'[q] = regs[q]
      BY <1>4, ConsumerMovesNone
  <2>2. tail' = tail /\ slots' = slots
      BY <1>4 DEF Dequeue, DequeueBegin, DequeueNextBuffer, DequeueNoBuffer,
                  DequeueAtEnd, DequeueUnset, DequeueTake, Drop
  <2>3. StoredIsOwn'
      BY <1>1, <2>2, StoredKept DEF CellsInv, TypeOK
  <2>4. ClaimedIsStored'
      BY <2>1, <2>2 DEF CellsInv, ClaimedIsStored, Indices, Searching
  <2>5. DroppedRests'
    <3>1. CASE Dequeue
      <4>1. ~dropped
        <5>1. Consumer \in Procs
            BY DEF Procs
        <5> QED
            BY <3>1, <5>1
               DEF Dequeue, DequeueBegin, DequeueNextBuffer, DequeueNoBuffer,
                   DequeueAtEnd, DequeueUnset, DequeueTake, CellsInv,
                   DroppedRests
      <4>2. dropped' = dropped
          BY <3>1 DEF Dequeue, DequeueBegin, DequeueNextBuffer,
                      DequeueNoBuffer, DequeueAtEnd, DequeueUnset,
                      DequeueTake, historyVars
      <4> QED
          BY <4>1, <4>2 DEF DroppedRests
    <3>2. CASE Drop
        BY <3>2 DEF Drop, DroppedRests, Procs
    <3> QED
        BY <1>4, <3>1, <3>2
  <2> QED
      BY <2>3, <2>4, <2>5 DEF CellsInv
<1> QED
    BY <1>2, <1>3, <1>4 DEF Next

\* The inductive invariant that makes the claimed slots the cells of an
\* inbox: they hold their own values, the empty ones are being searched for,
\* and a dropped queue is at rest.
THEOREM CellsInvariant == Spec => [](TypeOK /\ SearchInv /\ CellsInv)
<1>1. Init => CellsInv
  <2> SUFFICES ASSUME Init PROVE CellsInv
      OBVIOUS
  <2>1. \A i \in Indices : slots[i] = 0 /\ ~(i < tail)
      BY JiffyAssumption DEF Init, Indices
  <2> QED
      BY <2>1 DEF Init, CellsInv, StoredIsOwn, ClaimedIsStored, DroppedRests
<1>2. TypeOK /\ SearchInv /\ CellsInv /\ [Next]_vars => CellsInv'
  <2> SUFFICES ASSUME TypeOK, SearchInv, CellsInv, [Next]_vars
               PROVE  CellsInv'
      OBVIOUS
  <2>1. CASE UNCHANGED vars
      BY <2>1 DEF vars, chainVars, historyVars, CellsInv, StoredIsOwn,
                  ClaimedIsStored, DroppedRests, Indices, Searching, Procs,
                  End, Base
  <2> QED
      BY <2>1, CellsStep
<1> QED
    BY <1>1, <1>2, SearchInvariant, PTL DEF Spec

-----------------------------------------------------------------------------
(* The refinement                                                          *)

\* The cells of the slots from h up to t.
RowOf(t, h, s) == [k \in 1..(t - h) |-> [task |-> h + k,
                                         filled |-> s[h + k - 1] # 0]]

RowCell == [task : Nat, filled : BOOLEAN]

\* The fields of a cell.
LEMMA CellFields ==
    ASSUME NEW c, NEW a, NEW b, c = [task |-> a, filled |-> b # 0]
    PROVE  c.task = a /\ (b # 0 => c.filled) /\ (b = 0 => ~c.filled)
<1>1. CASE b # 0
  <2>1. c = [task |-> a, filled |-> TRUE]
      BY <1>1
  <2> QED
      BY <1>1, <2>1
<1>2. CASE b = 0
  <2>1. c = [task |-> a, filled |-> FALSE]
      BY <1>2
  <2> QED
      BY <1>2, <2>1
<1> QED
    BY <1>1, <1>2

\* The cells of a row are those of its slots, in their order.
LEMMA RowShape ==
    ASSUME NEW t \in Nat, NEW h \in Nat, h <= t, NEW s
    PROVE  /\ RowOf(t, h, s) \in Seq(RowCell)
           /\ Len(RowOf(t, h, s)) = t - h
           /\ DOMAIN RowOf(t, h, s) = 1..(t - h)
           /\ \A k \in 1..(t - h) :
                  RowOf(t, h, s)[k] = [task |-> h + k,
                                       filled |-> s[h + k - 1] # 0]
<1> DEFINE e(k) == [task |-> h + k, filled |-> s[h + k - 1] # 0]
<1>1. t - h \in Nat
    OBVIOUS
<1>2. \A k \in 1..(t - h) : e(k) \in RowCell
    BY <1>1 DEF RowCell
<1> HIDE DEF e
<1>3. [k \in 1..(t - h) |-> e(k)] \in Seq(RowCell)
    BY <1>1, <1>2, IsASeq
<1>4. RowOf(t, h, s) = [k \in 1..(t - h) |-> e(k)]
    BY DEF RowOf, e
<1>5. Len(RowOf(t, h, s)) = t - h
  <2>1. DOMAIN RowOf(t, h, s) = 1..(t - h)
      BY <1>4
  <2>2. /\ DOMAIN RowOf(t, h, s) = 1..Len(RowOf(t, h, s))
        /\ Len(RowOf(t, h, s)) \in Nat
      BY <1>3, <1>4, LenProperties
  <2> QED
      BY <1>1, <2>1, <2>2
<1> QED
    BY <1>3, <1>4, <1>5 DEF e

\* A claim appends a cell that is not filled.
LEMMA RowClaimed ==
    ASSUME NEW t \in Nat, NEW h \in Nat, h <= t, NEW s, s[t] = 0
    PROVE  RowOf(t + 1, h, s) = Row!Claimed(RowOf(t, h, s), t + 1)
<1> DEFINE r == RowOf(t, h, s)
           new == [task |-> t + 1, filled |-> FALSE]
<1>1. r \in Seq(RowCell) /\ Len(r) = t - h
      /\ \A k \in 1..(t - h) : r[k] = [task |-> h + k,
                                       filled |-> s[h + k - 1] # 0]
    BY RowShape
<1>2. /\ RowOf(t + 1, h, s) \in Seq(RowCell)
      /\ Len(RowOf(t + 1, h, s)) = (t + 1) - h
      /\ \A k \in 1..((t + 1) - h) :
             RowOf(t + 1, h, s)[k] = [task |-> h + k,
                                      filled |-> s[h + k - 1] # 0]
  <2>1. t + 1 \in Nat /\ h <= t + 1
      OBVIOUS
  <2> QED
      BY <2>1, RowShape
<1>3. new \in RowCell
    BY DEF RowCell
<1> HIDE DEF r, new
<1>4. /\ Append(r, new) \in Seq(RowCell)
      /\ Len(Append(r, new)) = (t - h) + 1
      /\ \A k \in 1..(t - h) : Append(r, new)[k] = r[k]
      /\ Append(r, new)[(t - h) + 1] = new
  <2>1. /\ Append(r, new) \in Seq(RowCell)
        /\ Len(Append(r, new)) = Len(r) + 1
        /\ \A k \in 1..Len(r) : Append(r, new)[k] = r[k]
        /\ Append(r, new)[Len(r) + 1] = new
      BY <1>1, <1>3, AppendProperties
  <2> QED
      BY <1>1, <2>1
<1>5. \A k \in 1..((t + 1) - h) : RowOf(t + 1, h, s)[k] = Append(r, new)[k]
  <2> SUFFICES ASSUME NEW k \in 1..((t + 1) - h)
               PROVE  RowOf(t + 1, h, s)[k] = Append(r, new)[k]
      OBVIOUS
  <2>1. CASE k = (t - h) + 1
    <3>1. h + k = t + 1 /\ h + k - 1 = t
        BY <2>1
    <3>2. RowOf(t + 1, h, s)[k] = [task |-> t + 1, filled |-> s[t] # 0]
        BY <1>2, <3>1
    <3> QED
        BY <2>1, <3>2, <1>4 DEF new
  <2>2. CASE k # (t - h) + 1
    <3>1. k \in 1..(t - h)
        BY <2>2
    <3> QED
        BY <3>1, <1>1, <1>2, <1>4
  <2> QED
      BY <2>1, <2>2
<1>6. RowOf(t + 1, h, s) = Append(r, new)
  <2>1. Len(RowOf(t + 1, h, s)) = Len(Append(r, new))
      BY <1>2, <1>4
  <2> QED
      BY <1>2, <1>4, <1>5, <2>1, SeqEqual
<1> QED
    BY <1>6 DEF Row!Claimed, r, new

\* A store fills the cell of its slot and no other.
LEMMA RowFilled ==
    ASSUME NEW t \in Nat, NEW h \in Nat, h <= t, NEW s, NEW s1,
           NEW i \in Nat, h <= i, i < t, s1[i] # 0,
           \A j \in h..(t - 1) : j # i => s1[j] = s[j]
    PROVE  RowOf(t, h, s1) = Row!Filled(RowOf(t, h, s), i + 1)
<1>1. \A k \in 1..(t - h) :
          [task |-> h + k, filled |-> s1[h + k - 1] # 0]
            = IF [task |-> h + k, filled |-> s[h + k - 1] # 0].task = i + 1
              THEN [task |-> i + 1, filled |-> TRUE]
              ELSE [task |-> h + k, filled |-> s[h + k - 1] # 0]
  <2> SUFFICES ASSUME NEW k \in 1..(t - h)
               PROVE  [task |-> h + k, filled |-> s1[h + k - 1] # 0]
                        = IF h + k = i + 1
                          THEN [task |-> i + 1, filled |-> TRUE]
                          ELSE [task |-> h + k, filled |-> s[h + k - 1] # 0]
      OBVIOUS
  <2>1. h + k - 1 \in h..(t - 1)
      OBVIOUS
  <2>2. CASE h + k = i + 1
    <3>1. h + k - 1 = i
        BY <2>2
    <3>2. (s1[h + k - 1] # 0) = TRUE
        BY <3>1
    <3> QED
        BY <2>2, <3>2
  <2>3. CASE h + k # i + 1
    <3>1. h + k - 1 # i
        BY <2>3
    <3>2. s1[h + k - 1] = s[h + k - 1]
        BY <2>1, <3>1
    <3> QED
        BY <2>3, <3>2
  <2> QED
      BY <2>2, <2>3
<1>2. /\ DOMAIN RowOf(t, h, s) = 1..(t - h)
      /\ \A k \in 1..(t - h) :
             RowOf(t, h, s)[k] = [task |-> h + k,
                                  filled |-> s[h + k - 1] # 0]
    BY RowShape
<1> QED
    BY <1>1, <1>2 DEF RowOf, Row!Filled

\* The oldest cell is that of slot h, and without it the row begins one later.
LEMMA RowTaken ==
    ASSUME NEW t \in Nat, NEW h \in Nat, h < t, NEW s
    PROVE  /\ RowOf(t, h, s) # <<>>
           /\ Head(RowOf(t, h, s)) = [task |-> h + 1, filled |-> s[h] # 0]
           /\ Tail(RowOf(t, h, s)) = RowOf(t, h + 1, s)
<1> DEFINE r == RowOf(t, h, s)
<1>1. r \in Seq(RowCell) /\ Len(r) = t - h
      /\ \A k \in 1..(t - h) : r[k] = [task |-> h + k,
                                       filled |-> s[h + k - 1] # 0]
    BY RowShape
<1>2. /\ RowOf(t, h + 1, s) \in Seq(RowCell)
      /\ Len(RowOf(t, h + 1, s)) = t - (h + 1)
      /\ \A k \in 1..(t - (h + 1)) :
             RowOf(t, h + 1, s)[k] = [task |-> (h + 1) + k,
                                      filled |-> s[(h + 1) + k - 1] # 0]
  <2>1. h + 1 \in Nat /\ h + 1 <= t
      OBVIOUS
  <2> QED
      BY <2>1, RowShape
<1> HIDE DEF r
<1>3. r # <<>>
  <2>1. t - h > 0
      OBVIOUS
  <2>2. Len(<<>>) = 0
      BY EmptySeq
  <2> QED
      BY <1>1, <2>1, <2>2
<1>4. Head(r) = [task |-> h + 1, filled |-> s[h] # 0]
  <2>1. Head(r) = r[1]
      BY <1>1, <1>3
  <2>2. 1 \in 1..(t - h) /\ h + 1 - 1 = h
      OBVIOUS
  <2>3. r[1] = [task |-> h + 1, filled |-> s[h + 1 - 1] # 0]
      BY <2>2, <1>1
  <2> QED
      BY <2>1, <2>2, <2>3
<1>5. /\ Tail(r) \in Seq(RowCell)
      /\ Len(Tail(r)) = t - (h + 1)
      /\ \A k \in 1..(t - (h + 1)) : Tail(r)[k] = r[k + 1]
  <2>1. /\ Tail(r) \in Seq(RowCell)
        /\ Len(Tail(r)) = Len(r) - 1
        /\ \A k \in 1..Len(Tail(r)) : Tail(r)[k] = r[k + 1]
      BY <1>1, <1>3, HeadTailProperties
  <2>2. Len(r) - 1 = t - (h + 1)
      BY <1>1
  <2> QED
      BY <2>1, <2>2
<1>6. \A k \in 1..(t - (h + 1)) : Tail(r)[k] = RowOf(t, h + 1, s)[k]
  <2> SUFFICES ASSUME NEW k \in 1..(t - (h + 1))
               PROVE  Tail(r)[k] = RowOf(t, h + 1, s)[k]
      OBVIOUS
  <2>1. /\ k + 1 \in 1..(t - h)
        /\ h + (k + 1) = (h + 1) + k
        /\ h + (k + 1) - 1 = (h + 1) + k - 1
      OBVIOUS
  <2>2. r[k + 1] = [task |-> h + (k + 1), filled |-> s[h + (k + 1) - 1] # 0]
      BY <2>1, <1>1
  <2> QED
      BY <2>1, <2>2, <1>2, <1>5
<1>7. Tail(r) = RowOf(t, h + 1, s)
    BY <1>2, <1>5, <1>6, SeqEqual
<1> QED
    BY <1>3, <1>4, <1>7 DEF r

\* Slots that hold their own values are the cells of a row, ...
LEMMA RowIs ==
    ASSUME NEW t \in 0..MaxClaims, NEW h \in 0..t, NEW s,
           \A i \in Indices : s[i] # 0 => s[i] = i + 1
    PROVE  [k \in 1..(t - h) |->
                [task |-> IF s[h + k - 1] = 0 THEN (h + k - 1) + 1
                          ELSE s[h + k - 1],
                 filled |-> s[h + k - 1] # 0]] = RowOf(t, h, s)
<1>1. ASSUME NEW k \in 1..(t - h)
      PROVE  (IF s[h + k - 1] = 0 THEN (h + k - 1) + 1 ELSE s[h + k - 1])
                 = h + k
  <2>1. h + k - 1 \in Indices /\ (h + k - 1) + 1 = h + k
      BY JiffyAssumption DEF Indices
  <2> QED
      BY <2>1
<1> QED
    BY <1>1 DEF RowOf

\* ... and this is what the refinement mapping makes of them, ...
LEMMA CellsAre ==
    ASSUME TypeOK, CellsInv, ~dropped
    PROVE  Cells = RowOf(tail, head, slots)
<1>1. tail \in 0..MaxClaims /\ head \in 0..tail
    BY DEF TypeOK
<1>2. \A i \in Indices : slots[i] # 0 => slots[i] = i + 1
    BY DEF CellsInv, StoredIsOwn
<1> QED
    BY <1>1, <1>2, RowIs DEF Cells, Cell

\* ... now as in the next state.
LEMMA CellsAreNext ==
    ASSUME TypeOK', CellsInv', ~dropped'
    PROVE  Cells' = RowOf(tail', head', slots')
<1>1. tail' \in 0..MaxClaims /\ head' \in 0..tail'
    BY DEF TypeOK
<1>2. \A i \in Indices : slots'[i] # 0 => slots'[i] = i + 1
    BY DEF CellsInv, StoredIsOwn, Indices
<1> QED
    BY <1>1, <1>2, RowIs DEF Cells, Cell

\* Nothing that the mapping reads has changed: the inbox stutters.
LEMMA Stutters ==
    ASSUME tail' = tail, head' = head, slots' = slots,
           delivered' = delivered, dropped' = dropped
    PROVE  UNCHANGED Row!inboxVars
<1>1. Cells' = Cells
    BY DEF Cells, Cell
<1> QED
    BY <1>1 DEF Row!inboxVars

\* A claim is a claim, ...
LEMMA ClaimIsClaim ==
    ASSUME TypeOK, TypeOK', SearchInv, CellsInv, CellsInv',
           NEW p \in Producers, EnqueueClaim(p)
    PROVE  Row!InboxClaim
<1>1. /\ ~dropped /\ dropped' = dropped /\ delivered' = delivered
      /\ tail < MaxClaims /\ tail' = tail + 1
      /\ head' = head /\ slots' = slots
    BY DEF EnqueueClaim, headVars, historyVars
<1>2. tail \in Nat /\ head \in Nat /\ head <= tail /\ tail \in Indices
    BY <1>1, JiffyAssumption DEF TypeOK, Indices
<1>3. slots[tail] = 0
    BY <1>2 DEF SearchInv, SlotsInv, PassedIsStored
<1>4. /\ Cells = RowOf(tail, head, slots)
      /\ Cells' = RowOf(tail', head', slots')
    BY <1>1, CellsAre, CellsAreNext
<1>5. Cells' = Row!Claimed(Cells, tail + 1)
    BY <1>1, <1>2, <1>3, <1>4, RowClaimed
<1> QED
    BY <1>1, <1>5 DEF Row!InboxClaim

\* ... a store fills a cell, for the consumer has not passed its slot, ...
LEMMA StoreIsFill ==
    ASSUME TypeOK, TypeOK', SearchInv, CellsInv, CellsInv',
           NEW p \in Producers, EnqueueStore(p)
    PROVE  \E v \in 1..MaxClaims : Row!InboxFill(v)
<1> DEFINE idx == regs[p].idx
<1>1. /\ pc[p] = "store" /\ p \in Procs
      /\ slots' = [slots EXCEPT ![idx] = idx + 1]
      /\ tail' = tail /\ head' = head
      /\ dropped' = dropped /\ delivered' = delivered
    BY DEF EnqueueStore, headVars, historyVars, Procs
<1>2. /\ idx \in Nat /\ tail \in Nat /\ head \in Nat /\ head <= tail
      /\ idx < tail /\ tail <= MaxClaims
      /\ idx \in Indices /\ slots[idx] = 0
    BY <1>1, JiffyAssumption
       DEF TypeOK, SearchInv, SlotsInv, SearchedIsUnstored, Searching, Indices
<1>3. head <= idx
    BY <1>2 DEF SearchInv, SlotsInv, PassedIsStored
<1>4. ~dropped /\ ~dropped'
    BY <1>1 DEF CellsInv, DroppedRests
<1>5. /\ Cells = RowOf(tail, head, slots)
      /\ Cells' = RowOf(tail, head, slots')
    BY <1>1, <1>4, CellsAre, CellsAreNext
<1>6. \A j \in head..(tail - 1) : j # idx => slots'[j] = slots[j]
  <2>1. \A j \in head..(tail - 1) : j \in Indices
      BY <1>2, JiffyAssumption DEF Indices
  <2> QED
      BY <1>1, <1>2, <2>1 DEF TypeOK
<1>7. slots'[idx] # 0
    BY <1>1, <1>2 DEF TypeOK
<1> HIDE DEF idx
<1>8. Cells' = Row!Filled(Cells, idx + 1)
    BY <1>2, <1>3, <1>5, <1>6, <1>7, RowFilled
<1>9. \E k \in DOMAIN Cells : Cells[k] = [task |-> idx + 1, filled |-> FALSE]
  <2>1. idx - head + 1 \in 1..(tail - head)
      BY <1>2, <1>3
  <2>2. /\ head + (idx - head + 1) = idx + 1
        /\ head + (idx - head + 1) - 1 = idx
      BY <1>2
  <2>3. /\ DOMAIN Cells = 1..(tail - head)
        /\ \A k \in 1..(tail - head) :
               Cells[k] = [task |-> head + k,
                           filled |-> slots[head + k - 1] # 0]
      BY <1>5, Zenon DEF RowOf
  <2>4. Cells[idx - head + 1] = [task |-> idx + 1, filled |-> slots[idx] # 0]
      BY <2>1, <2>2, <2>3
  <2> QED
      BY <2>1, <2>3, <2>4, <1>2
<1>10. Row!InboxFill(idx + 1)
    BY <1>1, <1>8, <1>9 DEF Row!InboxFill
<1> QED
    BY <1>2, <1>10, JiffyAssumption

\* ... a delivery takes the oldest cell, ...
LEMMA TakeIsTake ==
    ASSUME TypeOK, TypeOK', SearchInv, CellsInv, CellsInv', DequeueTake
    PROVE  Row!InboxTake
<1>1. /\ pc[Consumer] = "dequeue" /\ Consumer \in Procs
      /\ slots[head] # 0 /\ delivered' = Append(delivered, slots[head])
      /\ head' = head + 1 /\ tail' = tail /\ slots' = slots
      /\ dropped' = dropped
    BY DEF DequeueTake, Procs
<1>2. /\ tail \in Nat /\ head \in Nat /\ head < tail /\ head \in Indices
    BY <1>1, JiffyAssumption DEF TypeOK, SearchInv, ChainInv, Indices
<1>3. ~dropped /\ ~dropped'
    BY <1>1 DEF CellsInv, DroppedRests
<1>4. /\ Cells = RowOf(tail, head, slots)
      /\ Cells' = RowOf(tail, head + 1, slots)
    BY <1>1, <1>3, CellsAre, CellsAreNext
<1>5. slots[head] = head + 1
    BY <1>1, <1>2 DEF CellsInv, StoredIsOwn
<1>6. /\ Cells # <<>> /\ Tail(Cells) = Cells'
      /\ Head(Cells) = [task |-> head + 1, filled |-> slots[head] # 0]
    BY <1>2, <1>4, RowTaken
<1>7. Head(Cells).filled /\ Head(Cells).task = head + 1
    BY <1>1, <1>6, CellFields
<1> QED
    BY <1>1, <1>5, <1>6, <1>7 DEF Row!InboxTake, Row!Ready

\* ... and the drop closes a row of filled cells.
LEMMA DropIsClose ==
    ASSUME TypeOK, SearchInv, CellsInv, Drop
    PROVE  Row!InboxClose
<1>1. /\ \A p \in Procs : pc[p] = "idle"
      /\ ~dropped /\ dropped' = TRUE
      /\ tail' = tail /\ delivered' = delivered
    BY DEF Drop
<1>2. Cells' = <<>>
    BY <1>1 DEF Cells
<1>3. tail \in Nat /\ head \in Nat /\ head <= tail /\ tail <= MaxClaims
    BY JiffyAssumption DEF TypeOK
<1>4. Cells = RowOf(tail, head, slots)
    BY <1>1, CellsAre
<1>5. ASSUME NEW k \in DOMAIN Cells
      PROVE  Cells[k].filled
  <2>1. k \in 1..(tail - head)
      BY <1>4, Zenon DEF RowOf
  <2>2. head + k - 1 \in Indices /\ head + k - 1 < tail
      BY <1>3, <2>1, JiffyAssumption DEF Indices
  <2>3. \A p \in Producers : pc[p] \notin Searching
      BY <1>1 DEF Procs, Searching
  <2>4. slots[head + k - 1] # 0
      BY <2>2, <2>3 DEF CellsInv, ClaimedIsStored
  <2>5. Cells[k] = [task |-> head + k,
                    filled |-> slots[head + k - 1] # 0]
      BY <1>4, <2>1, Zenon DEF RowOf
  <2> QED
      BY <2>4, <2>5, CellFields
<1> QED
    BY <1>1, <1>2, <1>5 DEF Row!InboxClose

\* Each step of the algorithm is a step of the inbox, or changes nothing there.
LEMMA RowStep ==
    ASSUME TypeOK, TypeOK', SearchInv, CellsInv, CellsInv', [Next]_vars
    PROVE  [Row!InboxNext]_(Row!inboxVars)
<1>1. ASSUME NEW p \in Producers, EnqueueClaim(p)
      PROVE  Row!InboxNext
    BY <1>1, ClaimIsClaim DEF Row!InboxNext
<1>2. ASSUME NEW p \in Producers, EnqueueStep(p)
      PROVE  [Row!InboxNext]_(Row!inboxVars)
  <2>1. CASE EnqueueStore(p)
      BY <2>1, StoreIsFill DEF Row!InboxNext
  <2>2. CASE ~EnqueueStore(p)
    <3>1. /\ tail' = tail /\ head' = head /\ slots' = slots
          /\ delivered' = delivered /\ dropped' = dropped
        BY <1>2, <2>2
           DEF EnqueueStep, LocateBefore, LocateHere, LocateAfter, LocateLink,
               LocateAdvance, WalkBegin, WalkOn, WalkEnd, EnqueueLink,
               headVars, historyVars
    <3> QED
        BY <3>1, Stutters
  <2> QED
      BY <2>1, <2>2
<1>3. CASE DequeueTake
    BY <1>3, TakeIsTake DEF Row!InboxNext
<1>4. CASE DequeueBegin \/ DequeueNextBuffer \/ DequeueNoBuffer
             \/ DequeueUnset \/ UNCHANGED vars
  <2>1. /\ tail' = tail /\ head' = head /\ slots' = slots
        /\ delivered' = delivered /\ dropped' = dropped
      BY <1>4 DEF DequeueBegin, DequeueNextBuffer, DequeueNoBuffer,
                  DequeueAtEnd, DequeueUnset, vars, headVars, historyVars
  <2> QED
      BY <2>1, Stutters
<1>5. CASE Drop
    BY <1>5, DropIsClose DEF Row!InboxNext
<1> QED
    BY <1>1, <1>2, <1>3, <1>4, <1>5 DEF Next, Dequeue

\* The Jiffy queue is a row of cells that are claimed, filled and taken in
\* the order of the claims: FIFO, with nothing lost and nothing twice.
THEOREM JiffyIsAnInbox == Spec => ImplementsInbox
<1>1. Init => Row!InboxInit
  <2> SUFFICES ASSUME Init PROVE Row!InboxInit
      OBVIOUS
  <2>1. tail = 0 /\ head = 0 /\ delivered = <<>> /\ dropped = FALSE
      BY DEF Init
  <2>2. Cells = <<>>
    <3>1. 1..(tail - head) = {}
        BY <2>1
    <3> QED
        BY <2>1, <3>1 DEF Cells
  <2> QED
      BY <2>1, <2>2 DEF Row!InboxInit
<1>2. ASSUME TypeOK, TypeOK', SearchInv, CellsInv, CellsInv', [Next]_vars
      PROVE  [Row!InboxNext]_(Row!inboxVars)
    BY <1>2, RowStep
<1> QED
    BY <1>1, <1>2, CellsInvariant, PTL DEF Spec, ImplementsInbox,
       Row!InboxSpec

\* dequeue returns None only when the oldest cell is not filled.  Where the
\* chain ends nothing can have been stored.
LEMMA NoneStep ==
    ASSUME TypeOK, SearchInv, CellsInv, [Next]_vars,
           pc[Consumer] = "dequeue", pc'[Consumer] = "idle",
           delivered' = delivered
    PROVE  ~Row!Ready(Cells)
<1>1. Consumer \in Procs
    BY DEF Procs
<1>2. ~dropped
    BY <1>1 DEF CellsInv, DroppedRests
<1>3. tail \in Nat /\ head \in Nat /\ head < tail /\ head \in Indices
    BY JiffyAssumption DEF TypeOK, SearchInv, ChainInv, Indices
<1>4. slots[head] = 0
  <2>1. DequeueNoBuffer \/ DequeueUnset
    <3>1. ~\E p \in Producers : EnqueueClaim(p) \/ EnqueueStep(p)
      <4> SUFFICES ASSUME NEW p \in Producers,
                          EnqueueClaim(p) \/ EnqueueStep(p)
                   PROVE  FALSE
          OBVIOUS
      <4>1. Consumer \in Procs \ {p}
          BY <1>1, JiffyAssumption
      <4> QED
          BY <4>1, ProducerMovesOne
    <3>2. ~DequeueBegin /\ ~Drop /\ ~DequeueNextBuffer /\ ~UNCHANGED vars
        BY <1>1 DEF DequeueBegin, Drop, DequeueNextBuffer, vars
    <3>3. ~DequeueTake
      <4>1. delivered \in Seq(1..MaxClaims) /\ slots[head] \in Nat
          BY <1>3 DEF TypeOK
      <4>2. Len(Append(delivered, slots[head])) = Len(delivered) + 1
          BY <4>1
      <4>3. Len(delivered) \in Nat
          BY <4>1, LenProperties
      <4> QED
          BY <4>2, <4>3 DEF DequeueTake
    <3> QED
        BY <3>1, <3>2, <3>3 DEF Next, Dequeue
  <2>2. CASE DequeueUnset
      BY <2>2 DEF DequeueUnset
  <2>3. CASE DequeueNoBuffer
    <3>1. head = End(linked)
        BY <2>3 DEF DequeueNoBuffer, DequeueAtEnd, AtEnd
    <3> QED
        BY <3>1, <1>3 DEF CellsInv, StoredIsOwn
  <2> QED
      BY <2>1, <2>2, <2>3
<1>5. Cells = RowOf(tail, head, slots)
    BY <1>2, CellsAre
<1>6. Head(Cells) = [task |-> head + 1, filled |-> slots[head] # 0]
    BY <1>3, <1>5, RowTaken
<1>7. ~Head(Cells).filled
    BY <1>4, <1>6, CellFields
<1> QED
    BY <1>7 DEF Row!Ready

\* A consumer that is told None finds the oldest value claimed and not yet
\* stored, also where it gives up for want of a next buffer.
THEOREM NoneMeansNotStored == Spec => NoneIsHonest
<1> DEFINE A == pc[Consumer] = "dequeue" /\ pc'[Consumer] = "idle"
                    /\ delivered' = delivered => ~Row!Ready(Cells)
<1>1. TypeOK /\ SearchInv /\ CellsInv /\ [Next]_vars => [A]_vars
    BY NoneStep
<1> QED
    BY <1>1, CellsInvariant, PTL DEF Spec, NoneIsHonest
=============================================================================
