---------------------------- MODULE RelaxedProofs ----------------------------
(***************************************************************************)
(* The queues with multiplicity keep the promise of RelaxedQueue, say      *)
(* Empty only when everything put is delivered, and free every task once:  *)
(* proofs about MCRelaxed, that is about Linked (the list) and Idempotent  *)
(* (the array), for any thieves, sizes and number of puts.                 *)
(***************************************************************************)
EXTENDS MCRelaxed, SequenceTheorems, FiniteSetTheorems, WellFoundedInduction,
        TLAPS

-----------------------------------------------------------------------------
(* What the two stores have in common.                                     *)

\* The first k tasks are put, and somebody has got each of them.
GivenOut(k) == k <= Len(takers) /\ \A j \in 1..k : takers[j] # {}

TakersOK == takers \in Seq(SUBSET Procs)

LEMMA GiveTask ==
    ASSUME TakersOK, NEW p \in Procs, NEW k \in 1..Len(takers),
           takers' = [takers EXCEPT ![k] = @ \cup {p}]
    PROVE  /\ TakersOK' /\ Len(takers') = Len(takers)
           /\ \A j \in 1..Len(takers) :
                 takers'[j] = IF j = k THEN takers[j] \cup {p} ELSE takers[j]
           /\ \A n \in Nat : GivenOut(n) => GivenOut(n)'
  <1>1. takers[k] \cup {p} \in SUBSET Procs
    BY DEF TakersOK
  <1>2. takers' = [takers EXCEPT ![k] = takers[k] \cup {p}]
    OBVIOUS
  <1>3. takers' \in Seq(SUBSET Procs) /\ Len(takers') = Len(takers)
    BY <1>1, <1>2, ExceptSeq DEF TakersOK
  <1>4. \A j \in 1..Len(takers) :
            takers'[j] = IF j = k THEN takers[j] \cup {p} ELSE takers[j]
    <2>1. DOMAIN takers = 1..Len(takers)
      BY LenProperties DEF TakersOK
    <2>2. \A j \in DOMAIN takers : takers'[j] =
             IF j = k THEN takers[k] \cup {p} ELSE takers[j]
      BY <1>2
    <2>. QED BY <2>1, <2>2
  <1>5. ASSUME NEW n \in Nat, GivenOut(n) PROVE GivenOut(n)'
    <2>1. Len(takers) \in Nat
      BY DEF TakersOK
    <2>2. n <= Len(takers) /\ \A j \in 1..n : takers[j] # {}
      BY <1>5 DEF GivenOut
    <2>3. \A j \in 1..n : j \in 1..Len(takers)
      BY <2>1, <2>2
    <2>4. \A j \in 1..n : takers'[j] # {}
      BY <2>2, <2>3, <1>4
    <2>. QED BY <1>3, <2>2, <2>4 DEF GivenOut
  <1>. QED BY <1>3, <1>4, <1>5 DEF TakersOK

LEMMA AddTask ==
    ASSUME TakersOK, takers' = Append(takers, {})
    PROVE  /\ TakersOK' /\ Len(takers') = Len(takers) + 1
           /\ \A j \in 1..Len(takers) : takers'[j] = takers[j]
           /\ takers'[Len(takers) + 1] = {}
           /\ \A n \in Nat : GivenOut(n) => GivenOut(n)'
  <1>1. {} \in SUBSET Procs
    OBVIOUS
  <1>2. /\ takers' \in Seq(SUBSET Procs) /\ Len(takers') = Len(takers) + 1
        /\ \A j \in 1..Len(takers) : takers'[j] = takers[j]
        /\ takers'[Len(takers) + 1] = {}
    BY <1>1, AppendProperties DEF TakersOK
  <1>3. ASSUME NEW n \in Nat, GivenOut(n) PROVE GivenOut(n)'
    <2>1. Len(takers) \in Nat
      BY DEF TakersOK
    <2>2. n <= Len(takers) /\ \A j \in 1..n : takers[j] # {}
      BY <1>3 DEF GivenOut
    <2>3. \A j \in 1..n : j \in 1..Len(takers)
      BY <2>1, <2>2
    <2>4. \A j \in 1..n : takers'[j] # {}
      BY <2>2, <2>3, <1>2
    <2>. QED BY <1>2, <2>1, <2>2, <2>4 DEF GivenOut
  <1>. QED BY <1>2, <1>3 DEF TakersOK

LEMMA LeastNat ==
    ASSUME NEW T \in SUBSET Nat, T # {}
    PROVE  \E x \in T : \A y \in T : x <= y
  <1> DEFINE W == {0..x : x \in T}
             R == StrictSubsetOrdering(Nat)
  <1>1. IsWellFoundedOn(R, FiniteSubsetsOf(Nat))
    BY FS_StrictSubsetOrderingWellFounded
  <1>2. W \subseteq FiniteSubsetsOf(Nat) /\ W # {}
    <2>1. \A x \in T : 0..x \subseteq Nat /\ IsFiniteSet(0..x)
      BY FS_Interval
    <2>. QED BY <2>1 DEF FiniteSubsetsOf
  <1>3. \E w \in W : \A v \in W : ~ (<<v, w>> \in R)
    <2>. HIDE DEF W, R
    <2>. QED BY <1>1, <1>2, WFMin
  <1>4. PICK x \in T : \A y \in T : <<0..y, 0..x>> \notin R
    BY <1>3
  <1>5. ASSUME NEW y \in T, y < x PROVE FALSE
    <2>1. 0..y \in SUBSET Nat /\ 0..x \in SUBSET Nat /\ 0..y \subseteq 0..x
      BY <1>5
    <2>2. x \in 0..x /\ x \notin 0..y
      BY <1>5
    <2>3. <<0..y, 0..x>> \in R
      BY <2>1, <2>2 DEF StrictSubsetOrdering
    <2>. QED BY <2>3, <1>4
  <1>. QED BY <1>5

\* The tasks 1 to n, as drop would free them.
Upto(n) == [k \in 1..n |-> k]

\* Once the queue is dropped nobody is at work, and each box was freed once.
DropInv ==
    freed # <<0>> => /\ \A p \in Procs : pc[p] = "idle"
                     /\ freed = Upto(Len(takers))

LEMMA UptoFacts ==
    /\ Upto(0) = <<>>
    /\ \A n \in Nat : Append(Upto(n), n + 1) = Upto(n + 1)
  <1>1. Upto(0) = <<>>
    <2>1. Upto(0) \in Seq(Nat) /\ Len(Upto(0)) = 0
      BY DEF Upto
    <2>. QED BY <2>1, EmptySeq
  <1>2. ASSUME NEW n \in Nat PROVE Append(Upto(n), n + 1) = Upto(n + 1)
    <2>1. Upto(n) \in Seq(Nat) /\ Len(Upto(n)) = n
      BY DEF Upto
    <2>2. PICK f \in Seq(Nat) : f = Append(Upto(n), n + 1)
      <3>1. n + 1 \in Nat
        OBVIOUS
      <3>2. Append(Upto(n), n + 1) \in Seq(Nat)
        BY <2>1, <3>1, AppendProperties
      <3>. QED BY <3>2
    <2>3. /\ Len(f) = n + 1 /\ f[n + 1] = n + 1
          /\ \A i \in 1..n : f[i] = Upto(n)[i]
      BY <2>1, <2>2, AppendProperties
    <2>4. DOMAIN f = 1..n + 1 /\ f \in [1..n + 1 -> Nat]
      BY <2>3, LenProperties
    <2>5. \A i \in 1..n + 1 : f[i] = i
      <3>1. \A i \in 1..n : f[i] = i
        BY <2>3 DEF Upto
      <3>2. \A i \in 1..n + 1 : i \in 1..n \/ i = n + 1
        OBVIOUS
      <3>. QED BY <2>3, <3>1, <3>2
    <2>6. f = [k \in 1..n + 1 |-> k]
      BY <2>4, <2>5
    <2>. QED BY <2>2, <2>6 DEF Upto
  <1>. QED BY <1>1, <1>2

\* One step of the scan: what it adds to the boxes found so far.
Scanned(f, c, i) == IF i = 0 THEN <<>>
                    ELSE IF c[i - 1] = 0 THEN f[i - 1]
                    ELSE Append(f[i - 1], c[i - 1])

\* A scan of N cells, of which the first T hold the tasks 1 to T and the others
\* none, finds each task once and in order.
LEMMA ScanFacts ==
    ASSUME NEW N \in Nat, NEW T \in 0..N, NEW c, NEW F,
           \A i \in 0..N - 1 : c[i] = IF i < T THEN i + 1 ELSE 0,
           F = CHOOSE f : f = [i \in 0..N |-> Scanned(f, c, i)]
    PROVE  F[N] = Upto(T)
  <1> DEFINE upTo(i) == Upto(IF i < T THEN i ELSE T)
             g == [i \in 0..N |-> upTo(i)]
  <1>1. \A i \in 0..N : Scanned(g, c, i) = upTo(i)
    <2>. SUFFICES ASSUME NEW i \in 0..N PROVE Scanned(g, c, i) = upTo(i)
      OBVIOUS
    <2>1. CASE i = 0
      <3>1. upTo(i) = Upto(0)
        BY <2>1
      <3>. QED BY <2>1, <3>1, UptoFacts DEF Scanned
    <2>2. CASE i > 0
      <3>1. i - 1 \in 0..N - 1 /\ i - 1 \in 0..N /\ i - 1 \in Nat
        BY <2>2
      <3>2. g[i - 1] = upTo(i - 1)
        BY <3>1
      <3>3. CASE i - 1 < T
        <4>1. c[i - 1] = i - 1 + 1 /\ c[i - 1] # 0
          BY <3>1, <3>3
        <4>2. upTo(i - 1) = Upto(i - 1) /\ upTo(i) = Upto(i - 1 + 1)
          <5>1. i - 1 + 1 = i /\ (i < T \/ i = T)
            BY <3>1, <3>3
          <5>. QED BY <5>1, <3>3
        <4>3. Append(Upto(i - 1), i - 1 + 1) = Upto(i - 1 + 1)
          BY <3>1, UptoFacts
        <4>4. Scanned(g, c, i) = Append(g[i - 1], c[i - 1])
          BY <2>2, <4>1 DEF Scanned
        <4>. HIDE DEF g, upTo
        <4>. QED BY <3>2, <4>1, <4>2, <4>3, <4>4
      <3>4. CASE ~(i - 1 < T)
        <4>1. c[i - 1] = 0
          BY <3>1, <3>4
        <4>2. upTo(i - 1) = Upto(T) /\ upTo(i) = Upto(T)
          BY <3>1, <3>4
        <4>3. Scanned(g, c, i) = g[i - 1]
          BY <2>2, <4>1 DEF Scanned
        <4>. HIDE DEF g, upTo
        <4>. QED BY <3>2, <4>2, <4>3
      <3>. QED BY <3>3, <3>4
    <2>. QED BY <2>1, <2>2
  <1>2. g = [i \in 0..N |-> Scanned(g, c, i)]
    BY <1>1
  <1>3. F = [i \in 0..N |-> Scanned(F, c, i)]
    <2>. HIDE DEF g
    <2>1. \E f : f = [i \in 0..N |-> Scanned(f, c, i)]
      BY <1>2
    <2>. QED BY <2>1
  <1>4. \A i \in 0..N : F[i] = Scanned(F, c, i)
    <2>1. PICK h : h = [i \in 0..N |-> Scanned(F, c, i)]
      OBVIOUS
    <2>2. \A i \in 0..N : h[i] = Scanned(F, c, i)
      BY <2>1
    <2>. QED BY <1>3, <2>1, <2>2
  <1>5. \A i \in 0..N : F[i] = g[i]
    <2> DEFINE S == {i \in 0..N : F[i] # g[i]}
    <2>. SUFFICES ASSUME S # {} PROVE FALSE
      OBVIOUS
    <2>1. PICK m \in S : \A y \in S : m <= y
      <3>1. S \in SUBSET Nat
        OBVIOUS
      <3>. HIDE DEF S
      <3>. QED BY <3>1, LeastNat
    <2>2. m \in 0..N /\ F[m] # g[m]
      OBVIOUS
    <2>3. F[m] = Scanned(F, c, m) /\ g[m] = Scanned(g, c, m)
      <3>1. F[m] = Scanned(F, c, m)
        BY <1>4, <2>2
      <3>2. g[m] = upTo(m)
        BY <2>2
      <3>3. Scanned(g, c, m) = upTo(m)
        BY <1>1, <2>2
      <3>. QED BY <3>1, <3>2, <3>3
    <2>4. m # 0 => F[m - 1] = g[m - 1]
      <3>. SUFFICES ASSUME m # 0 PROVE F[m - 1] = g[m - 1]
        OBVIOUS
      <3>1. m - 1 \in 0..N /\ m - 1 < m
        BY <2>2
      <3>2. m - 1 \notin S
        BY <2>1, <2>2, <3>1
      <3>. QED BY <3>1, <3>2
    <2>5. Scanned(F, c, m) = Scanned(g, c, m)
      <3>. HIDE DEF g
      <3>. QED BY <2>4 DEF Scanned
    <2>. QED BY <2>2, <2>3, <2>5
  <1>6. g[N] = Upto(T)
    <2>1. upTo(N) = Upto(T)
      OBVIOUS
    <2>. QED BY <2>1
  <1>. QED BY <1>5, <1>6

-----------------------------------------------------------------------------
(* The list.                                                               *)

\* How many cells hold a task: while put is at its tail store, one more than
\* thieves are told.
Filled == IF pc[Owner] = "put_tail" THEN tail + 1 ELSE tail

ListCells ==
    /\ Len(takers) = tail
    /\ Filled <= MaxPut
    /\ \A i \in DOMAIN cells : cells[i] = IF i < Filled THEN i + 1 ELSE 0

\* What a process has loaded of head is given out, and what it has got itself
\* is below that.
ListHeads ==
    /\ GivenOut(head)
    /\ \A p \in Procs : pc[p] \in {"load_tail", "walk", "advance"} =>
          regs[p].head <= head
    /\ \A p \in Procs : pc[p] = "advance" => regs[p].cell = regs[p].head + 1
    /\ \A p \in Procs : \A j \in 1..Len(takers) : p \in takers[j] =>
          /\ j <= head
          /\ pc[p] \in {"load_tail", "walk", "advance"} => j <= regs[p].head

ListInv == /\ L!TypeOK /\ L!WalkInv
           /\ TakersOK /\ ListCells /\ ListHeads /\ DropInv

\* Where nodes begin: the product is all that is not linear here.
LEMMA BaseType ==
    ASSUME NEW n \in Nat
    PROVE  L!Base(n) \in Nat
  BY LinkedAssumption DEF L!Base

LEMMA BaseNext ==
    ASSUME NEW n \in Nat PROVE L!Base(n + 1) = L!Base(n) + NodeSize
  BY LinkedAssumption DEF L!Base

LEMMA WalkInit == L!Init => L!TypeOK /\ L!WalkInv
  <1>1. L!Base(0) = 0
    BY LinkedAssumption DEF L!Base
  <1>. QED
    BY <1>1, LinkedAssumption
    DEF L!Init, L!TypeOK, L!WalkInv, L!IndicesOf, L!Procs, L!NoRegs, L!NoTask

LEMMA WalkPut ==
    ASSUME L!TypeOK, L!WalkInv, L!Put PROVE L!TypeOK' /\ L!WalkInv'
  <1>. USE LinkedAssumption DEF L!TypeOK, L!Procs
  <1>0. L!Base(linked) \in Nat /\ L!Base(linked + 1) = L!Base(linked) + NodeSize
    BY BaseType, BaseNext
  <1>1. CASE L!PutCell
    <2>1. L!TypeOK'
      <3>1. tail + 1 \in Nat /\ cells' = [cells EXCEPT ![tail] = tail + 1]
        BY <1>1 DEF L!PutCell
      <3>2. cells' \in [0..L!Base(linked) + NodeSize - 1 -> Nat]
        BY <3>1, Zenon
      <3>3. pc' \in [Procs -> {"idle", "put_tail", "put_link", "load_tail",
                               "walk", "advance"}]
        BY <1>1 DEF L!PutCell, L!Goto, Procs
      <3>. QED BY <1>1, <3>2, <3>3 DEF L!PutCell, Procs
    <2>2. L!WalkInv'
      BY <1>1 DEF L!PutCell, L!WalkInv, L!Goto, L!IndicesOf
    <2>. QED BY <2>1, <2>2
  <1>2. CASE L!PutTail
    <2>1. L!TypeOK'
      BY <1>2 DEF L!PutTail, L!Goto
    <2>2. L!WalkInv'
      BY SMTT(30), <1>0, <1>2 DEF L!PutTail, L!WalkInv, L!Goto, L!IndicesOf
    <2>. QED BY <2>1, <2>2
  <1>3. CASE L!PutLink
    <2>1. L!TypeOK'
      BY <1>0, <1>3 DEF L!PutLink, L!Goto, L!IndicesOf, L!NoTask
    <2>2. L!WalkInv'
      BY <1>0, <1>3 DEF L!PutLink, L!WalkInv, L!Goto, L!IndicesOf
    <2>. QED BY <2>1, <2>2
  <1>. QED BY <1>1, <1>2, <1>3 DEF L!Put

LEMMA WalkAdvance ==
    ASSUME NEW p \in L!Procs, L!TypeOK, L!WalkInv, L!Advance(p)
    PROVE  L!TypeOK' /\ L!WalkInv'
  <1>. USE LinkedAssumption DEF L!TypeOK, L!Procs, L!Advance, L!Return,
           L!Goto, L!NoRegs, L!NoTask, L!Larger
  <1>1. L!TypeOK'
    OBVIOUS
  <1>2. head' \in Nat /\ head <= head' /\ head' <= tail
    BY DEF L!WalkInv
  <1>3. L!WalkInv'
    <2>1. \A q \in Thieves : L!Base(node[q]) \in Nat
      BY BaseType
    <2>. QED BY SMTT(30), <1>2, <2>1 DEF L!WalkInv, L!IndicesOf
  <1>. QED BY <1>1, <1>3

LEMMA WalkTake ==
    ASSUME L!TypeOK, L!WalkInv, L!TakeRead PROVE L!TypeOK' /\ L!WalkInv'
  <1>. USE LinkedAssumption DEF L!TypeOK, L!Procs, L!TakeRead, L!Goto,
           L!innerVars
  <1>1. 0 <= head /\ head < tail /\ head <= L!Base(linked) + NodeSize - 1
    BY BaseType DEF L!WalkInv, L!IndicesOf
  <1>2. L!TypeOK'
    <2>1. head \in 0..L!Base(linked) + NodeSize - 1
      BY <1>1, BaseType
    <2>2. cells[head] \in Nat
      BY <2>1
    <2>. QED BY <2>2
  <1>3. L!WalkInv'
    BY <1>1 DEF L!WalkInv
  <1>. QED BY <1>2, <1>3

LEMMA WalkSteal ==
    ASSUME NEW p \in Thieves, L!TypeOK, L!WalkInv, L!Steal(p) \/ L!Clone(p)
    PROVE  L!TypeOK' /\ L!WalkInv'
  <1>. USE LinkedAssumption DEF L!TypeOK, L!Procs, L!innerVars
  <1>0. /\ L!Base(0) = 0
        /\ \A q \in Thieves : /\ node[q] \in Nat
                              /\ L!Base(node[q]) \in Nat
                              /\ L!Base(node[q] + 1) = L!Base(node[q]) + NodeSize
    BY BaseType, BaseNext DEF L!Base
  <1>1. CASE L!Clone(p)
    <2>1. L!TypeOK'
      BY <1>1 DEF L!Clone
    <2>2. L!WalkInv'
      BY SMTT(30), <1>0, <1>1 DEF L!Clone, L!WalkInv
    <2>. QED BY <2>1, <2>2
  <1>2. CASE L!StealLoadHead(p)
    <2>1. L!TypeOK'
      BY <1>2 DEF L!StealLoadHead, L!Goto
    <2>2. L!WalkInv'
      BY <1>2 DEF L!StealLoadHead, L!Goto, L!WalkInv
    <2>. QED BY <2>1, <2>2
  <1>3. CASE L!StealLoadTail(p)
    <2>1. L!TypeOK'
      BY <1>3 DEF L!StealLoadTail, L!Goto
    <2>2. L!WalkInv'
      BY <1>3 DEF L!StealLoadTail, L!Goto, L!WalkInv
    <2>. QED BY <2>1, <2>2
  <1>4. CASE L!StealFindsNone(p)
    <2>1. L!TypeOK'
      BY <1>4 DEF L!StealFindsNone, L!Return, L!Goto, L!NoRegs, L!NoTask
    <2>2. L!WalkInv'
      BY <1>4 DEF L!StealFindsNone, L!Return, L!Goto, L!WalkInv
    <2>. QED BY <2>1, <2>2
  <1>5. CASE L!StealWalk(p)
    <2>1. L!TypeOK'
      BY <1>5 DEF L!StealWalk
    <2>2. L!WalkInv'
      BY SMTT(30), <1>0, <1>5 DEF L!StealWalk, L!AtItsNode, L!WalkInv
    <2>. QED BY <2>1, <2>2
  <1>6. CASE L!StealRead(p)
    <2>1. cells[regs[p].head] \in Nat
      <3>1. regs[p].head \in 0..L!Base(linked) + NodeSize - 1
        BY <1>6, BaseType DEF L!StealRead, L!WalkInv, L!IndicesOf
      <3>. QED BY <3>1
    <2>2. L!TypeOK'
      BY <1>6, <2>1 DEF L!StealRead, L!Goto
    <2>3. L!WalkInv'
      BY <1>6 DEF L!StealRead, L!Goto, L!WalkInv
    <2>. QED BY <2>2, <2>3
  <1>7. CASE L!Advance(p)
    BY <1>7, WalkAdvance
  <1>. QED BY <1>1, <1>2, <1>3, <1>4, <1>5, <1>6, <1>7 DEF L!Steal


LEMMA ListInit == L!Init => ListInv
  <1>. SUFFICES ASSUME L!Init PROVE ListInv
    OBVIOUS
  <1>1. takers = <<>> /\ Len(takers) = 0 /\ TakersOK
    BY DEF L!Init, TakersOK
  <1>2. ListCells
    BY <1>1, LinkedAssumption
    DEF L!Init, ListCells, Filled, L!NoTask, L!Procs, L!IndicesOf, L!Base
  <1>3. ListHeads
    BY <1>1 DEF L!Init, ListHeads, GivenOut, L!Procs, Procs
  <1>4. DropInv
    BY DEF L!Init, DropInv, L!Null
  <1>. QED BY <1>1, <1>2, <1>3, <1>4, WalkInit DEF ListInv

LEMMA ListPut ==
    ASSUME ListInv, L!Put PROVE ListInv'
  <1>0. /\ pc \in [Procs -> {"idle", "put_tail", "put_link", "load_tail",
                            "walk", "advance"}]
        /\ regs \in [Procs -> [head : Nat, cell : Nat]]
        /\ Owner \in Procs /\ head \in Nat /\ tail \in Nat /\ linked \in Nat
        /\ DOMAIN cells = 0..L!Base(linked) + NodeSize - 1
        /\ L!Base(linked) \in Nat /\ NodeSize \in Nat
    BY BaseType, LinkedAssumption DEF ListInv, L!TypeOK, L!Procs, Procs
  <1>1. L!TypeOK' /\ L!WalkInv'
    BY WalkPut DEF ListInv
  <1>2. CASE L!PutCell
    <2>1. /\ pc[Owner] = "idle" /\ freed = <<0>> /\ tail < MaxPut
          /\ cells' = [cells EXCEPT ![tail] = tail + 1]
          /\ pc' = [pc EXCEPT ![Owner] = "put_tail"]
          /\ UNCHANGED <<head, tail, linked, node, regs, takers, freed>>
      BY <1>2 DEF L!PutCell, L!Goto, L!Live, L!Null
    <2>2. TakersOK' /\ DropInv'
      BY <2>1 DEF ListInv, TakersOK, DropInv
    <2>3. ListCells'
      <3>1. Filled = tail /\ Filled' = tail + 1
        BY <1>0, <2>1 DEF Filled
      <3>2. \A i \in DOMAIN cells : cells[i] = IF i < tail THEN i + 1 ELSE 0
        BY <3>1 DEF ListInv, ListCells
      <3>3. DOMAIN cells' = DOMAIN cells
        BY <2>1
      <3>4. \A i \in DOMAIN cells :
                cells'[i] = IF i < tail + 1 THEN i + 1 ELSE 0
        BY <1>0, <2>1, <3>2
      <3>. QED BY <1>0, <2>1, <3>1, <3>3, <3>4, LinkedAssumption
           DEF ListInv, ListCells
    <2>4. ListHeads'
      <3>1. \A p \in Procs : pc'[p] \in {"load_tail", "walk", "advance"} =>
                pc'[p] = pc[p]
        BY <1>0, <2>1
      <3>2. GivenOut(head)'
        BY <2>1 DEF ListInv, ListHeads, GivenOut
      <3>. QED BY <2>1, <3>1, <3>2 DEF ListInv, ListHeads
    <2>. QED BY <1>1, <2>2, <2>3, <2>4 DEF ListInv
  <1>3. CASE L!PutTail
    <2>1. /\ pc[Owner] = "put_tail"
          /\ tail' = tail + 1
          /\ takers' = Append(takers, {})
          /\ UNCHANGED <<head, cells, linked, node, regs, freed>>
      BY <1>3 DEF L!PutTail
    <2>2. \E l \in {"put_link", "idle"} : pc' = [pc EXCEPT ![Owner] = l]
      BY <1>3 DEF L!PutTail, L!Goto
    <2>3. /\ TakersOK' /\ Len(takers') = Len(takers) + 1
          /\ \A j \in 1..Len(takers) : takers'[j] = takers[j]
          /\ takers'[Len(takers) + 1] = {}
          /\ GivenOut(head) => GivenOut(head)'
      <3>1. \A n \in Nat : GivenOut(n) => GivenOut(n)'
        BY <2>1, AddTask DEF ListInv
      <3>2. GivenOut(head) => GivenOut(head)'
        BY <1>0, <2>1, <3>1 DEF GivenOut
      <3>. QED BY <2>1, <3>2, AddTask DEF ListInv
    <2>4. DropInv'
      <3>1. freed = <<0>>
        BY <1>0, <2>1 DEF ListInv, DropInv
      <3>. QED BY <2>1, <3>1 DEF DropInv
    <2>5. ListCells'
      <3>1. Filled = tail + 1 /\ Filled' = tail + 1
        BY <1>0, <2>1, <2>2 DEF Filled
      <3>. QED BY <1>0, <2>1, <2>3, <3>1 DEF ListInv, ListCells
    <2>6. ListHeads'
      <3>1. \A p \in Procs : pc'[p] \in {"load_tail", "walk", "advance"} =>
                pc'[p] = pc[p]
        BY <1>0, <2>2
      <3>2. Len(takers) \in Nat
        BY DEF ListInv, TakersOK
      <3>3. \A p \in Procs : \A j \in 1..Len(takers) + 1 : p \in takers'[j] =>
                j \in 1..Len(takers) /\ p \in takers[j]
        <4>1. \A j \in 1..Len(takers) + 1 :
                  j \in 1..Len(takers) \/ j = Len(takers) + 1
          BY <3>2
        <4>. QED BY <2>3, <4>1
      <3>4. \A p \in Procs : \A j \in 1..Len(takers) + 1 : p \in takers'[j] =>
                /\ j <= head
                /\ pc'[p] \in {"load_tail", "walk", "advance"} =>
                      j <= regs[p].head
        BY <3>1, <3>3 DEF ListInv, ListHeads
      <3>. QED BY <2>1, <2>3, <3>1, <3>4 DEF ListInv, ListHeads
    <2>. QED BY <1>1, <2>3, <2>4, <2>5, <2>6 DEF ListInv
  <1>4. CASE L!PutLink
    <2>1. /\ pc[Owner] = "put_link"
          /\ cells' = [i \in DOMAIN cells \cup L!IndicesOf(linked + 1) |->
                          IF i \in DOMAIN cells THEN cells[i] ELSE 0]
          /\ pc' = [pc EXCEPT ![Owner] = "idle"]
          /\ UNCHANGED <<head, tail, node, regs, takers, freed>>
      BY <1>4 DEF L!PutLink, L!Goto, L!NoTask
    <2>2. TakersOK'
      BY <2>1 DEF ListInv, TakersOK
    <2>3. DropInv'
      <3>1. freed = <<0>>
        BY <1>0, <2>1 DEF ListInv, DropInv
      <3>. QED BY <2>1, <3>1 DEF DropInv
    <2>4. ListCells'
      <3>1. Filled = tail /\ Filled' = tail
        BY <1>0, <2>1 DEF Filled
      <3>2. tail = L!Base(linked) + NodeSize
        BY <2>1 DEF ListInv, L!WalkInv
      <3>3. L!Base(linked + 1) = L!Base(linked) + NodeSize
        BY <1>0, BaseNext
      <3>4. \A i \in L!IndicesOf(linked + 1) : i \in Int /\ i >= tail
        BY <1>0, <3>2, <3>3 DEF L!IndicesOf
      <3>5. \A i \in DOMAIN cells' :
                cells'[i] = IF i < tail THEN i + 1 ELSE 0
        <4>1. DOMAIN cells' = DOMAIN cells \cup L!IndicesOf(linked + 1)
          BY <2>1
        <4>2. \A i \in DOMAIN cells : cells'[i] = cells[i]
          BY <2>1
        <4>3. \A i \in L!IndicesOf(linked + 1) :
                  i \notin DOMAIN cells => cells'[i] = 0
          BY <2>1
        <4>4. \A i \in DOMAIN cells : cells[i] = IF i < tail THEN i + 1 ELSE 0
          BY <3>1 DEF ListInv, ListCells
        <4>. QED BY <1>0, <3>4, <4>1, <4>2, <4>3, <4>4
      <3>. QED BY <2>1, <3>1, <3>5 DEF ListInv, ListCells
    <2>5. ListHeads'
      <3>1. \A p \in Procs : pc'[p] \in {"load_tail", "walk", "advance"} =>
                pc'[p] = pc[p]
        BY <1>0, <2>1
      <3>2. GivenOut(head)'
        BY <2>1 DEF ListInv, ListHeads, GivenOut
      <3>. QED BY <2>1, <3>1, <3>2 DEF ListInv, ListHeads
    <2>. QED BY <1>1, <2>2, <2>3, <2>4, <2>5 DEF ListInv
  <1>. QED BY <1>2, <1>3, <1>4 DEF L!Put

\* What is used of the types of the list.
ListTypes ==
    /\ pc \in [Procs -> {"idle", "put_tail", "put_link", "load_tail", "walk",
                         "advance"}]
    /\ regs \in [Procs -> [head : Nat, cell : Nat]]
    /\ Owner \in Procs /\ head \in Nat /\ tail \in Nat
    /\ DOMAIN cells = 0..L!Base(linked) + NodeSize - 1
    /\ L!Base(linked) \in Nat /\ NodeSize \in Nat \ {0}
    /\ Len(takers) = tail /\ tail <= L!Base(linked) + NodeSize

LEMMA ListTyped == ListInv => ListTypes
  <1>. SUFFICES ASSUME ListInv PROVE ListTypes
    OBVIOUS
  <1>1. L!Base(linked) \in Nat
    BY BaseType DEF ListInv, L!TypeOK
  <1>2. tail \in Nat /\ tail <= L!Base(linked) + NodeSize
    BY <1>1, LinkedAssumption DEF ListInv, L!TypeOK, L!WalkInv, L!IndicesOf
  <1>. QED BY <1>1, <1>2, LinkedAssumption
       DEF ListInv, ListTypes, ListCells, L!TypeOK, L!Procs, Procs

\* The process p has got the task it read, and moves head beyond it.
LEMMA ListAdvance ==
    ASSUME ListInv, NEW p \in Procs, L!Advance(p)
    PROVE  /\ ListInv'
           /\ regs[p].head + 1 \in 1..Len(takers)
           /\ takers' = [takers EXCEPT ![regs[p].head + 1] = @ \cup {p}]
           /\ GivenOut(regs[p].head)
           /\ \A j \in 1..Len(takers) : p \in takers[j] => j <= regs[p].head
           /\ UNCHANGED freed
  <1>0. ListTypes
    BY ListTyped
  <1>1. L!TypeOK' /\ L!WalkInv'
    BY WalkAdvance DEF ListInv, L!Procs, Procs
  <1>2. PICK h \in Nat : h = regs[p].head
    BY <1>0 DEF ListTypes
  <1>3. /\ pc[p] = "advance"
        /\ head' = IF head > h + 1 THEN head ELSE h + 1
        /\ takers' = [takers EXCEPT ![h + 1] = @ \cup {p}]
        /\ pc' = [pc EXCEPT ![p] = "idle"]
        /\ UNCHANGED <<tail, cells, linked, node, freed>>
    <2>1. regs[p].cell = h + 1
      BY <1>2 DEF L!Advance, ListInv, ListHeads
    <2>. QED BY <1>2, <2>1 DEF L!Advance, L!Larger, L!Return, L!Goto
  <1>4. h < tail /\ h <= head /\ h + 1 \in 1..Len(takers)
    BY <1>0, <1>2, <1>3 DEF ListInv, ListHeads, L!WalkInv, L!Procs, Procs,
       ListTypes
  <1>5. \A q \in Procs : pc'[q] # "idle" =>
            q # p /\ pc'[q] = pc[q] /\ regs'[q] = regs[q]
    BY <1>0, <1>3 DEF ListTypes, L!Advance, L!Return
  <1>6. /\ TakersOK' /\ Len(takers') = Len(takers)
        /\ \A j \in 1..Len(takers) :
              takers'[j] = IF j = h + 1 THEN takers[j] \cup {p} ELSE takers[j]
    BY <1>3, <1>4, GiveTask DEF ListInv
  <1>7. GivenOut(head)'
    <2>1. head <= Len(takers) /\ \A j \in 1..head : takers[j] # {}
      BY DEF ListInv, ListHeads, GivenOut
    <2>2. \A j \in 1..head' : j \in 1..head \/ j = h + 1
      BY <1>0, <1>3, <1>4 DEF ListTypes
    <2>3. \A j \in 1..head' : j \in 1..Len(takers)
      BY <1>0, <1>4, <2>1, <2>2 DEF ListTypes
    <2>4. \A j \in 1..head' : takers'[j] # {}
      BY <1>6, <2>1, <2>2, <2>3
    <2>5. head' <= Len(takers)
      BY <1>0, <1>3, <1>4, <2>1 DEF ListTypes
    <2>. QED BY <1>6, <2>4, <2>5 DEF GivenOut
  <1>8. head' \in Nat /\ head <= head' /\ h + 1 <= head'
    BY <1>0, <1>3 DEF ListTypes
  <1>9. ListHeads'
    <2>1. \A q \in Procs : pc'[q] # "idle" =>
              /\ pc'[q] \in {"load_tail", "walk", "advance"} =>
                    regs'[q].head <= head
              /\ pc'[q] = "advance" => regs'[q].cell = regs'[q].head + 1
      BY <1>5 DEF ListInv, ListHeads
    <2>2. \A q \in Procs : pc'[q] # "idle" => regs'[q].head \in Nat
      BY <1>0, <1>5 DEF ListTypes
    <2>3. \A q \in Procs : \A j \in 1..Len(takers) : q \in takers'[j] =>
              q \in takers[j] \/ (q = p /\ j = h + 1)
      BY <1>6
    <2>4. \A q \in Procs : \A j \in 1..Len(takers) : q \in takers'[j] =>
              /\ j <= head'
              /\ pc'[q] \in {"load_tail", "walk", "advance"} =>
                    j <= regs'[q].head
      <3>1. \A q \in Procs : \A j \in 1..Len(takers) : q \in takers[j] =>
                j <= head
        BY DEF ListInv, ListHeads
      <3>2. \A q \in Procs : \A j \in 1..Len(takers) : q \in takers[j] =>
                j <= head'
        BY <1>0, <1>8, <3>1 DEF ListTypes
      <3>3. \A q \in Procs : \A j \in 1..Len(takers) :
                /\ q \in takers[j]
                /\ pc'[q] \in {"load_tail", "walk", "advance"}
                => j <= regs'[q].head
        BY <1>5 DEF ListInv, ListHeads
      <3>4. pc'[p] = "idle"
        BY <1>0, <1>3 DEF ListTypes
      <3>. QED BY <1>8, <2>3, <3>2, <3>3, <3>4
    <2>. QED BY SMTT(30), <1>0, <1>6, <1>7, <1>8, <2>1, <2>2, <2>4
         DEF ListHeads, ListTypes
  <1>10. ListCells'
    <2>1. Filled' = Filled
      BY <1>0, <1>3 DEF Filled, ListTypes
    <2>. QED BY <1>3, <1>6, <2>1 DEF ListInv, ListCells
  <1>11. DropInv'
    <2>1. freed = <<0>>
      BY <1>3 DEF ListInv, DropInv
    <2>. QED BY <1>3, <2>1 DEF DropInv
  <1>12. GivenOut(h)
    <2>1. head <= Len(takers) /\ \A j \in 1..head : takers[j] # {}
      BY DEF ListInv, ListHeads, GivenOut
    <2>2. head \in Nat /\ Len(takers) \in Nat
      BY <1>0 DEF ListTypes
    <2>3. \A j \in 1..h : j \in 1..head
      BY <1>4, <2>2
    <2>4. h <= Len(takers)
      BY <1>4, <2>1, <2>2
    <2>. QED BY <2>1, <2>3, <2>4 DEF GivenOut
  <1>13. \A j \in 1..Len(takers) : p \in takers[j] => j <= h
    BY <1>2, <1>3 DEF ListInv, ListHeads
  <1>. QED BY <1>1, <1>2, <1>3, <1>4, <1>6, <1>9, <1>10, <1>11, <1>12, <1>13
       DEF ListInv

\* Steps that take and give nothing.
LEMMA ListLook ==
    ASSUME ListInv, NEW p \in Procs,
           \/ p = Owner /\ L!TakeRead
           \/ p \in Thieves /\ ~L!Advance(p) /\ (L!Steal(p) \/ L!Clone(p))
    PROVE  ListInv' /\ UNCHANGED <<takers, freed>>
  <1>0. ListTypes
    BY ListTyped
  <1>1. L!TypeOK' /\ L!WalkInv'
    BY WalkTake, WalkSteal DEF ListInv
  <1>2. UNCHANGED <<head, tail, cells, takers, freed>>
    BY DEF L!TakeRead, L!Steal, L!Clone, L!StealLoadHead, L!StealLoadTail,
       L!StealFindsNone, L!StealWalk, L!StealRead, L!innerVars
  <1>3. freed = <<0>>
    <2>1. pc[p] # "idle" => freed = <<0>>
      BY DEF ListInv, DropInv
    <2>. QED BY <2>1 DEF L!TakeRead, L!Steal, L!Clone, L!StealLoadHead,
         L!StealLoadTail, L!StealFindsNone, L!StealSeesNone, L!StealWalk,
         L!StealRead, L!Live, L!Null
  <1>4. /\ \A q \in Procs : q # p => pc'[q] = pc[q] /\ regs'[q] = regs[q]
        /\ pc'[Owner] = "put_tail" <=> pc[Owner] = "put_tail"
    <2>1. /\ \A q \in Procs : q # p => pc'[q] = pc[q] /\ regs'[q] = regs[q]
          /\ p = Owner => pc[p] = "idle" /\ pc'[p] = "advance"
      BY <1>0, LinkedAssumption
      DEF L!TakeRead, L!Steal, L!Clone, L!StealLoadHead,
         L!StealLoadTail, L!StealFindsNone, L!StealWalk, L!StealRead, L!Goto,
         L!Return, ListTypes
    <2>. QED BY <1>0, <2>1 DEF ListTypes
  <1>5. pc'[p] \in {"load_tail", "walk", "advance"} =>
            \/ regs'[p].head = head
            \/ /\ pc[p] \in {"load_tail", "walk"}
               /\ regs'[p].head = regs[p].head
    BY <1>0 DEF L!TakeRead, L!Steal, L!Clone, L!StealLoadHead,
       L!StealLoadTail, L!StealFindsNone, L!StealWalk, L!StealRead, L!Goto,
       L!Return, ListTypes
  <1>6. pc'[p] = "advance" =>
            /\ regs'[p].head \in DOMAIN cells
            /\ regs'[p].cell = cells[regs'[p].head]
            /\ regs'[p].cell # 0
    <2>1. \/ L!TakeRead /\ p = Owner
          \/ L!StealRead(p)
          \/ pc'[p] # "advance"
      BY <1>0 DEF L!Steal, L!Clone, L!StealLoadHead,
         L!StealLoadTail, L!StealFindsNone, L!StealWalk, L!Goto,
         L!Return, ListTypes
    <2>2. CASE L!TakeRead /\ p = Owner
      <3>1. /\ head < tail /\ cells[head] # 0
            /\ head <= L!Base(linked) + NodeSize - 1
        BY <1>0, <2>2 DEF L!TakeRead, L!NoTask, ListTypes
      <3>2. regs'[p] = [head |-> head, cell |-> cells[head]]
        BY <1>0, <2>2 DEF L!TakeRead, ListTypes
      <3>. QED BY <1>0, <3>1, <3>2 DEF ListTypes
    <2>3. CASE L!StealRead(p)
      <3>1. pc[p] = "walk" /\ p \in Thieves
        BY <1>0, <2>3 DEF L!StealRead, L!TakeRead
      <3>2. regs[p].head < tail
        BY <3>1 DEF ListInv, L!WalkInv
      <3>3. regs[p].head \in 0..L!Base(linked) + NodeSize - 1
        <4>1. regs[p].head \in Nat
          BY <1>0 DEF ListTypes
        <4>. QED BY <1>0, <3>2, <4>1 DEF ListTypes
      <3>4. /\ regs'[p].head = regs[p].head
            /\ regs'[p].cell = cells[regs[p].head] /\ cells[regs[p].head] # 0
        BY <1>0, <2>3 DEF L!StealRead, L!NoTask, ListTypes
      <3>. QED BY <1>0, <3>3, <3>4 DEF ListTypes
    <2>. QED BY <2>1, <2>2, <2>3
  <1>7. pc'[p] = "advance" => regs'[p].cell = regs'[p].head + 1
    BY <1>6 DEF ListInv, ListCells
  <1>8. ListHeads'
    <2>1. GivenOut(head)'
      BY <1>2 DEF ListInv, ListHeads, GivenOut
    <2>2. \A q \in Procs : pc'[q] \in {"load_tail", "walk", "advance"} =>
              \/ regs'[q].head = head
              \/ /\ pc[q] \in {"load_tail", "walk", "advance"}
                 /\ regs'[q].head = regs[q].head
      BY <1>4, <1>5
    <2>3. \A q \in Procs : pc'[q] \in {"load_tail", "walk", "advance"} =>
              regs'[q].head <= head
      BY <1>0, <2>2 DEF ListInv, ListHeads, ListTypes
    <2>4. \A q \in Procs : pc'[q] = "advance" =>
              regs'[q].cell = regs'[q].head + 1
      BY <1>4, <1>7 DEF ListInv, ListHeads
    <2>5. \A q \in Procs : \A j \in 1..Len(takers) : q \in takers[j] =>
              /\ j <= head
              /\ pc'[q] \in {"load_tail", "walk", "advance"} =>
                    j <= regs'[q].head
      BY <2>2 DEF ListInv, ListHeads
    <2>. QED BY <1>2, <2>1, <2>3, <2>4, <2>5 DEF ListHeads
  <1>9. ListCells'
    <2>1. Filled' = Filled
      BY <1>2, <1>4 DEF Filled
    <2>. QED BY <1>2, <2>1 DEF ListInv, ListCells
  <1>. QED BY <1>1, <1>2, <1>3, <1>8, <1>9 DEF ListInv, TakersOK, DropInv

LEMMA ListDrop ==
    ASSUME ListInv, L!Drop
    PROVE  ListInv' /\ UNCHANGED takers
  <1>0. ListTypes
    BY ListTyped
  <1>1. /\ freed' = L!TasksIn(L!Base(linked) + NodeSize)
        /\ UNCHANGED <<head, tail, cells, linked, node, pc, regs, takers>>
        /\ \A p \in Procs : pc[p] = "idle"
    BY DEF L!Drop, L!innerVars, L!Procs, Procs
  <1>2. L!TypeOK' /\ L!WalkInv'
    BY <1>1 DEF ListInv, L!TypeOK, L!WalkInv
  <1>3. PICK N \in Nat : N = L!Base(linked) + NodeSize
    BY BaseType, LinkedAssumption DEF ListInv, L!TypeOK
  <1>4. tail \in 0..N /\ DOMAIN cells = 0..N - 1
    BY <1>0, <1>3 DEF ListTypes
  <1>5. \A i \in 0..N - 1 : cells[i] = IF i < tail THEN i + 1 ELSE 0
    <2>1. Filled = tail
      BY <1>0, <1>1 DEF Filled, ListTypes
    <2>. QED BY <1>4, <2>1 DEF ListInv, ListCells
  <1>6. PICK F : F = CHOOSE f : f = [i \in 0..N |-> Scanned(f, cells, i)]
    OBVIOUS
  <1>7. F[N] = Upto(tail)
    BY <1>4, <1>5, <1>6, ScanFacts
  <1>8. L!TasksIn(N) = F[N]
    BY <1>6 DEF L!TasksIn, L!NoTask, Scanned
  <1>9. freed' = Upto(Len(takers))
    BY <1>0, <1>1, <1>3, <1>7, <1>8 DEF ListTypes
  <1>. QED BY <1>1, <1>2, <1>9
       DEF ListInv, TakersOK, ListCells, Filled, ListHeads, GivenOut, DropInv

-----------------------------------------------------------------------------
(* What a step is to the abstract queue.                                   *)

IsOrdered(p) == p \in IF store = "array" THEN A!Ordered ELSE Procs
ExclusiveOnes == IF store = "array" THEN A!Exclusive ELSE {}

LEMMA QueueTakes ==
    ASSUME TakersOK, Len(takers) <= MaxPut, UNCHANGED <<store, kind>>,
           NEW p \in Procs, NEW k \in 1..Len(takers),
           takers' = [takers EXCEPT ![k] = @ \cup {p}],
           GivenOut(k - 1),
           IsOrdered(p) => \A j \in k..Len(takers) : p \notin takers[j],
           p \in ExclusiveOnes => takers[k] \cap ExclusiveOnes = {}
    PROVE  Queue!RelaxedNext
  <1>1. DOMAIN takers = 1..Len(takers) /\ Len(takers) \in Nat
    BY LenProperties DEF TakersOK
  <1>2. k \in 1..MaxPut
    BY <1>1, LinkedAssumption
  <1>3. A!Ordered' = A!Ordered /\ A!Exclusive' = A!Exclusive
    BY DEF A!Ordered, A!Exclusive, A!Procs
  <1>4. Queue!TakeTask(p, k)
    BY <1>1, <1>3
    DEF Queue!TakeTask, IsOrdered, ExclusiveOnes, GivenOut, A!Procs
  <1>. QED BY <1>2, <1>4 DEF Queue!RelaxedNext

LEMMA QueuePuts ==
    ASSUME Len(takers) < MaxPut, takers' = Append(takers, {}),
           UNCHANGED <<store, kind>>
    PROVE  Queue!RelaxedNext
  <1>1. A!Ordered' = A!Ordered /\ A!Exclusive' = A!Exclusive
    BY DEF A!Ordered, A!Exclusive, A!Procs
  <1>2. Queue!PutTask
    BY <1>1 DEF Queue!PutTask
  <1>. QED BY <1>2 DEF Queue!RelaxedNext

LEMMA QueueRests ==
    ASSUME UNCHANGED <<takers, store, kind>>
    PROVE  UNCHANGED Queue!relaxedVars
  <1>1. A!Ordered' = A!Ordered /\ A!Exclusive' = A!Exclusive
    BY DEF A!Ordered, A!Exclusive, A!Procs
  <1>. QED BY <1>1 DEF Queue!relaxedVars

-----------------------------------------------------------------------------
(* The list keeps its invariant and the promise.                           *)

LEMMA ListStep ==
    ASSUME ListInv, store = "list", InList, L!Next
    PROVE  ListInv' /\ [Queue!RelaxedNext]_(Queue!relaxedVars)
  <1>0. ListTypes /\ TakersOK /\ Len(takers) <= MaxPut
    <2>1. Len(takers) <= Filled /\ Filled <= MaxPut /\ Filled \in Nat
      BY ListTyped DEF ListInv, ListTypes, ListCells, Filled
    <2>2. Len(takers) \in Nat /\ MaxPut \in Nat
      BY LinkedAssumption DEF ListInv, TakersOK
    <2>. QED BY <2>1, <2>2, ListTyped DEF ListInv
  <1>1. UNCHANGED <<store, kind>>
    BY DEF InList, arrayVars
  <1>2. CASE L!Put
    <2>1. CASE L!PutTail
      <3>1. Filled = tail + 1 /\ takers' = Append(takers, {})
        BY <2>1 DEF L!PutTail, Filled
      <3>2. Len(takers) < MaxPut
        BY <1>0, <3>1, LinkedAssumption DEF ListInv, ListCells, ListTypes
      <3>. QED BY <1>1, <1>2, <3>1, <3>2, ListPut, QueuePuts
    <2>2. CASE L!PutCell \/ L!PutLink
      <3>1. UNCHANGED takers
        BY <2>2 DEF L!PutCell, L!PutLink
      <3>. QED BY <1>1, <1>2, <3>1, ListPut, QueueRests
    <2>. QED BY <1>2, <2>1, <2>2 DEF L!Put
  <1>3. ASSUME NEW p \in Procs, L!Advance(p)
        PROVE  ListInv' /\ [Queue!RelaxedNext]_(Queue!relaxedVars)
    <2>1. PICK h \in Nat : h = regs[p].head
      BY <1>0 DEF ListTypes
    <2>2. /\ ListInv'
          /\ h + 1 \in 1..Len(takers)
          /\ takers' = [takers EXCEPT ![h + 1] = @ \cup {p}]
          /\ GivenOut(h + 1 - 1)
      BY <1>3, <2>1, ListAdvance
    <2>3. \A j \in h + 1..Len(takers) : p \notin takers[j]
      <3>1. \A j \in 1..Len(takers) : p \in takers[j] => j <= h
        BY <1>3, <2>1, ListAdvance
      <3>2. Len(takers) \in Nat
        BY <1>0 DEF ListTypes
      <3>. QED BY <3>1, <3>2
    <2>4. PICK k \in 1..Len(takers) : k = h + 1
      BY <2>2
    <2>5. p \notin ExclusiveOnes
      BY DEF ExclusiveOnes
    <2>6. /\ takers' = [takers EXCEPT ![k] = @ \cup {p}]
          /\ GivenOut(k - 1)
          /\ \A j \in k..Len(takers) : p \notin takers[j]
      BY <2>2, <2>3, <2>4
    <2>7. Queue!RelaxedNext
      BY <1>0, <1>1, <2>5, <2>6, QueueTakes
    <2>. QED BY <2>2, <2>7
  <1>4. CASE L!TakeRead
    <2>1. Owner \in Procs
      BY DEF Procs
    <2>. QED BY <1>1, <1>4, <2>1, ListLook, QueueRests
  <1>5. ASSUME NEW p \in Thieves, L!Clone(p) \/ L!Steal(p)
        PROVE  ListInv' /\ [Queue!RelaxedNext]_(Queue!relaxedVars)
    <2>1. p \in Procs
      BY DEF Procs
    <2>. QED BY <1>1, <1>3, <1>5, <2>1, ListLook, QueueRests
  <1>6. CASE L!Drop
    BY <1>1, <1>6, ListDrop, QueueRests
  <1>7. CASE L!TakeFindsNone
    <2>1. UNCHANGED L!vars
      BY <1>7 DEF L!TakeFindsNone
    <2>2. UNCHANGED <<head, tail, cells, linked, node, pc, regs, takers, freed>>
      BY <2>1 DEF L!vars, L!innerVars
    <2>. QED BY <1>1, <2>2, QueueRests
         DEF ListInv, L!TypeOK, L!WalkInv, TakersOK, ListCells, Filled,
             ListHeads, GivenOut, DropInv
  <1>8. Owner \in Procs
    BY DEF Procs
  <1>. QED BY <1>2, <1>3, <1>4, <1>5, <1>6, <1>7, <1>8 DEF L!Next

LEMMA ListHonest == ListInv => L!HonestEmpty
  <1>. SUFFICES ASSUME ListInv PROVE L!HonestEmpty
    OBVIOUS
  <1>0. ListTypes
    BY ListTyped
  <1>1. ASSUME NEW n \in Nat, GivenOut(n), n >= tail PROVE L!AllDelivered
    <2>1. DOMAIN takers = 1..Len(takers)
      BY LenProperties DEF ListInv, TakersOK
    <2>2. \A j \in 1..n : takers[j] # {}
      BY <1>1 DEF GivenOut
    <2>3. \A j \in 1..Len(takers) : j \in 1..n
      BY <1>0, <1>1 DEF ListTypes
    <2>. QED BY <2>1, <2>2, <2>3 DEF L!AllDelivered
  <1>2. GivenOut(head)
    BY DEF ListInv, ListHeads
  <1>3. \A i \in Nat : i < tail => i \in DOMAIN cells /\ cells[i] # 0
    <2>1. tail <= Filled
      BY <1>0 DEF Filled, ListTypes
    <2>2. Filled \in Nat
      BY <1>0 DEF Filled, ListTypes
    <2>3. \A i \in Nat : i < tail => i \in DOMAIN cells
      BY <1>0 DEF ListTypes
    <2>4. \A i \in DOMAIN cells : i < Filled => cells[i] = i + 1
      BY DEF ListInv, ListCells
    <2>. QED BY <1>0, <2>1, <2>2, <2>3, <2>4 DEF ListTypes
  <1>4. ASSUME NEW p \in Thieves, L!StealSeesNone(p) PROVE L!AllDelivered
    <2>0. p \in Procs /\ regs[p].head \in Nat /\ linked \in Nat
      BY <1>0 DEF Procs, ListTypes, ListInv, L!TypeOK
    <2>1. CASE pc[p] = "load_tail" /\ regs[p].head >= tail
      <3>1. regs[p].head <= head
        BY <2>0, <2>1 DEF ListInv, ListHeads
      <3>2. head >= tail
        BY <1>0, <2>0, <2>1, <3>1 DEF ListTypes
      <3>. QED BY <1>0, <1>1, <1>2, <3>2 DEF ListTypes
    <2>2. CASE pc[p] = "walk"
      <3>1. regs[p].head < tail
        BY <2>2 DEF ListInv, L!WalkInv
      <3>2. cells[regs[p].head] # 0
        BY <1>3, <2>0, <3>1
      <3>3. ~L!AtItsNode(p) /\ node[p] = linked
        BY <1>4, <2>2, <3>2 DEF L!StealSeesNone, L!NoTask
      <3>4. regs[p].head >= L!Base(linked) + NodeSize
        BY <1>0, <2>0, <3>3 DEF L!AtItsNode, ListTypes
      <3>. QED BY <1>0, <2>0, <3>1, <3>4 DEF ListTypes
    <2>. QED BY <1>4, <2>1, <2>2 DEF L!StealSeesNone
  <1>5. ASSUME L!TakeSeesNone PROVE L!AllDelivered
    <2>1. head >= tail
      BY <1>0, <1>3, <1>5 DEF L!TakeSeesNone, L!NoTask, ListTypes
    <2>. QED BY <1>0, <1>1, <1>2, <2>1 DEF ListTypes
  <1>. QED BY <1>4, <1>5 DEF L!HonestEmpty

-----------------------------------------------------------------------------
(* The array.                                                              *)

\* Arrays are rows of cells that begin at 0.
Rows == UNION {[0..n - 1 -> Nat] : n \in Nat \ {0}}

Busy == {"load_array", "read_cell", "advance", "claim", "nudge", "refresh",
         "store"}
Holding == Busy \ {"load_array", "read_cell"}

ArrayTypes ==
    /\ kind \in [Thieves -> A!Kinds]
    /\ head \in Nat /\ tail \in Nat
    /\ arrays \in Seq(Rows) /\ arrays # <<>>
    /\ claimed \subseteq Nat
    /\ r \in [Thieves -> Nat]
    /\ pc \in [Procs -> {"idle", "put_store", "put_mark"} \cup Busy]
    /\ regs \in [Procs -> [head : Nat, arr : Nat, cell : Nat]]

\* Each cell of the active array holds its task once it is put, and each cell
\* of an older array its task or, for ever, none.
ArrayCells ==
    /\ Len(takers) = IF pc[Owner] = "put_mark" THEN tail + 1 ELSE tail
    /\ Len(takers) <= MaxArray
    /\ pc[Owner] = "put_store" => tail < MaxArray
    /\ tail < A!LenOf(A!Active)
    /\ pc[Owner] \in {"put_store", "put_mark"} => tail + 1 < A!LenOf(A!Active)
    /\ \A i \in DOMAIN A!Active :
          A!Active[i] = IF i < Len(takers) THEN i + 1 ELSE 0
    /\ \A a \in 1..Len(arrays) : \A i \in DOMAIN arrays[a] :
          arrays[a][i] # 0 => i < Len(takers)

\* Which process can be where.
KindOK(p) ==
    /\ pc[p] \in {"claim", "nudge"} => A!IsExclusive(p)
    /\ pc[p] \in {"refresh", "store"} => A!IsWeak(p)
    /\ pc[p] = "advance" => ~A!IsWeak(p)
    /\ pc[p] \in Busy \ {"advance"} => p \in Thieves

\* The thief has claimed its task and has not yet moved head.
Won(p) == pc[p] = "advance" /\ A!IsExclusive(p)

\* Whatever a process has seen of head is given out; a weak thief's maximum is
\* ahead of that only at its store.
HeadsOK(p) ==
    /\ pc[p] \in Busy => GivenOut(regs[p].head)
    /\ pc[p] \in Holding => regs[p].head < Len(takers)
    /\ p \in Thieves => IF pc[p] = "store" THEN r[p] = regs[p].head + 1
                                           ELSE GivenOut(r[p])
    /\ pc[p] = "nudge" \/ Won(p) => regs[p].head \in claimed

\* How far a process that is served in order has been served.
Reach(p) == IF A!IsWeak(p) THEN r[p] ELSE head

OrderOK(p) ==
    \A j \in 1..Len(takers) : p \in takers[j] =>
       /\ j <= Reach(p) \/ Won(p)
       /\ pc[p] \in Busy => \/ j <= regs[p].head
                            \/ Won(p) /\ j = regs[p].head + 1

\* A thief that has not met a lull has a task in sight.
LullOK(p) ==
    /\ pc[p] = "load_array" => p \in lull \/ regs[p].head < Len(takers)
    /\ pc[p] = "read_cell" =>
          /\ regs[p].arr \in 1..Len(arrays)
          /\ \/ p \in lull
             \/ /\ regs[p].head \in DOMAIN arrays[regs[p].arr]
                /\ arrays[regs[p].arr][regs[p].head] # 0

ClaimsOK == \A c \in claimed : c < Len(takers) /\ takers[c + 1] # {}

ClaimsKept ==
    \A j \in 1..Len(takers) : \A p \in A!Exclusive : p \in takers[j] =>
       j - 1 \in claimed

ArrayInv ==
    /\ TakersOK /\ ArrayTypes /\ ArrayCells /\ DropInv
    /\ GivenOut(head) /\ ClaimsOK /\ ClaimsKept
    /\ \A p \in Procs : KindOK(p) /\ HeadsOK(p)
    /\ \A p \in A!Ordered : OrderOK(p)
    /\ \A p \in Thieves : LullOK(p)

LEMMA RowFacts ==
    ASSUME NEW arr \in Rows
    PROVE  /\ A!LenOf(arr) \in Nat \ {0}
           /\ DOMAIN arr = 0..A!LenOf(arr) - 1
           /\ \A i \in DOMAIN arr : arr[i] \in Nat
  <1>1. PICK n \in Nat \ {0} : arr \in [0..n - 1 -> Nat]
    BY DEF Rows
  <1>2. Cardinality(0..n - 1) = n
    <2>1. 0 \in Int /\ n - 1 \in Int /\ ~(0 > n - 1) /\ n - 1 - 0 + 1 = n
      OBVIOUS
    <2>. QED BY <2>1, FS_Interval
  <1>3. A!LenOf(arr) = Cardinality(DOMAIN arr)
    BY DEF A!LenOf, A!Cardinality, Cardinality
  <1>. QED BY <1>1, <1>2, <1>3

LEMMA ActiveFacts ==
    ASSUME ArrayTypes
    PROVE  /\ Len(arrays) \in Nat \ {0} /\ DOMAIN arrays = 1..Len(arrays)
           /\ A!Active \in Rows /\ A!Active = arrays[Len(arrays)]
           /\ \A a \in 1..Len(arrays) : arrays[a] \in Rows
  <1>1. Len(arrays) \in Nat /\ DOMAIN arrays = 1..Len(arrays)
    BY LenProperties DEF ArrayTypes
  <1>2. Len(arrays) # 0
    BY EmptySeq DEF ArrayTypes
  <1>3. \A a \in 1..Len(arrays) : arrays[a] \in Rows
    BY <1>1, ElementOfSeq DEF ArrayTypes
  <1>. QED BY <1>1, <1>2, <1>3 DEF A!Active

LEMMA OrderedAreProcs ==
    /\ A!Ordered \subseteq Procs /\ A!Exclusive \subseteq Thieves
    /\ \A p \in A!Ordered : ~A!IsWeak(p) => \A q \in Procs : ~A!IsWeak(q)
    /\ A!Procs = Procs /\ Owner \in Procs /\ Owner \notin Thieves
  BY RelaxedAssumption
  DEF A!Ordered, A!Exclusive, A!Procs, Procs, A!IsWeak, A!IdempotentAssumption

\* The step is the one of p, in the middle of no put.
Alone(p) ==
    /\ \A q \in Procs \ {p} : pc'[q] = pc[q] /\ regs'[q] = regs[q]
    /\ \A q \in Thieves \ {p} : r'[q] = r[q]
    /\ \A q \in Thieves \ {p} : q \in lull /\ pc[q] # "idle" => q \in lull'
    /\ UNCHANGED <<kind, arrays, tail, freed>>
    /\ freed = <<0>>
    /\ p = Owner => pc[p] \in {"idle", "advance"} /\ pc'[p] \in {"idle", "advance"}

\* The process p gets the task it holds.
Gives(p) ==
    /\ regs[p].head + 1 \in 1..Len(takers)
    /\ takers' = [takers EXCEPT ![regs[p].head + 1] = @ \cup {p}]

\* What has to be shown of a step of p: nothing of the others.
LEMMA OneMoves ==
    ASSUME ArrayInv, NEW p \in Procs, Alone(p), ArrayTypes',
           Gives(p) \/ UNCHANGED takers,
           A!IsWeak(p) \/ head <= head', GivenOut(head)',
           claimed \subseteq claimed', ClaimsOK', ClaimsKept',
           KindOK(p)', HeadsOK(p)', p \in A!Ordered => OrderOK(p)',
           p \in Thieves => LullOK(p)'
    PROVE  ArrayInv'
  <1>1. /\ TakersOK' /\ Len(takers') = Len(takers)
        /\ \A n \in Nat : GivenOut(n) => GivenOut(n)'
        /\ \A j \in 1..Len(takers) : \A q \in Procs \ {p} :
              q \in takers'[j] => q \in takers[j]
    <2>1. CASE Gives(p)
      <3>1. PICK k \in 1..Len(takers) :
                takers' = [takers EXCEPT ![k] = @ \cup {p}]
        BY <2>1 DEF Gives
      <3>2. TakersOK
        BY DEF ArrayInv
      <3>3. /\ TakersOK' /\ Len(takers') = Len(takers)
            /\ \A j \in 1..Len(takers) :
                  takers'[j] = IF j = k THEN takers[j] \cup {p} ELSE takers[j]
        BY <3>1, <3>2, GiveTask
      <3>4. \A n \in Nat : GivenOut(n) => GivenOut(n)'
        BY <3>1, <3>2, GiveTask
      <3>. QED BY <3>3, <3>4
    <2>2. CASE UNCHANGED takers
      BY <2>2 DEF GivenOut, ArrayInv, TakersOK
    <2>. QED BY <2>1, <2>2
  <1>2. /\ A!Ordered' = A!Ordered /\ A!Exclusive' = A!Exclusive
        /\ \A q \in Procs : /\ A!IsWeak(q)' <=> A!IsWeak(q)
                            /\ A!IsExclusive(q)' <=> A!IsExclusive(q)
    BY DEF Alone, A!Ordered, A!Exclusive, A!IsWeak, A!IsExclusive, A!Procs
  <1>3. DropInv'
    BY DEF Alone, DropInv
  <1>4. ArrayCells'
    <2>1. A!Active' = A!Active
      BY DEF Alone, A!Active
    <2>2. pc'[Owner] # pc[Owner] =>
              pc[Owner] \in {"idle", "advance"} /\ pc'[Owner] \in {"idle", "advance"}
      BY OrderedAreProcs DEF Alone
    <2>3. /\ pc'[Owner] = "put_mark" <=> pc[Owner] = "put_mark"
          /\ pc'[Owner] = "put_store" <=> pc[Owner] = "put_store"
      BY <2>2
    <2>. QED BY <1>1, <2>1, <2>3 DEF Alone, ArrayInv, ArrayCells, A!LenOf
  <1>5. ASSUME NEW q \in Procs, q # p
        PROVE  KindOK(q)' /\ HeadsOK(q)'
    <2>1. /\ KindOK(q) /\ HeadsOK(q)
          /\ pc'[q] = pc[q] /\ regs'[q] = regs[q]
          /\ q \in Thieves => r'[q] = r[q]
      BY <1>5 DEF ArrayInv, Alone
    <2>2. KindOK(q)'
      BY <1>2, <2>1 DEF KindOK
    <2>3. Won(q)' <=> Won(q)
      BY <1>2, <2>1 DEF Won
    <2>4. regs[q].head \in Nat /\ (q \in Thieves => r[q] \in Nat)
      BY DEF ArrayInv, ArrayTypes
    <2>5. GivenOut(regs[q].head) => GivenOut(regs[q].head)'
      BY <1>1, <2>1, <2>4 DEF GivenOut
    <2>6. q \in Thieves /\ GivenOut(r[q]) => GivenOut(r[q])'
      BY <1>1, <2>1, <2>4 DEF GivenOut
    <2>7. HeadsOK(q)'
      BY <1>1, <2>1, <2>3, <2>5, <2>6 DEF HeadsOK
    <2>. QED BY <2>2, <2>7
  <1>6. ASSUME NEW q \in A!Ordered, q # p
        PROVE  OrderOK(q)'
    <2>1. /\ q \in Procs /\ OrderOK(q)
          /\ pc'[q] = pc[q] /\ regs'[q] = regs[q]
          /\ q \in Thieves => r'[q] = r[q]
      BY <1>6, OrderedAreProcs DEF ArrayInv, Alone
    <2>2. Won(q)' <=> Won(q)
      BY <1>2, <2>1 DEF Won
    <2>3. Reach(q) \in Nat /\ Reach(q)' \in Nat /\ Reach(q) <= Reach(q)'
      <3>1. CASE A!IsWeak(q)
        BY <1>2, <2>1, <3>1 DEF Reach, A!IsWeak, ArrayInv, ArrayTypes
      <3>2. CASE ~A!IsWeak(q)
        <4>1. ~A!IsWeak(p)
          BY <3>2, OrderedAreProcs
        <4>. QED BY <1>2, <2>1, <3>2, <4>1 DEF Reach, ArrayInv, ArrayTypes
      <3>. QED BY <3>1, <3>2
    <2>4. Len(takers) \in Nat
      BY DEF ArrayInv, TakersOK
    <2>5. \A j \in 1..Len(takers) : q \in takers'[j] =>
              /\ j <= Reach(q)' \/ Won(q)
              /\ pc[q] \in Busy => \/ j <= regs[q].head
                                   \/ Won(q) /\ j = regs[q].head + 1
      BY <1>1, <1>6, <2>1, <2>3, <2>4 DEF OrderOK
    <2>. QED BY <1>1, <2>1, <2>2, <2>5 DEF OrderOK
  <1>7. ASSUME NEW q \in Thieves, q # p
        PROVE  LullOK(q)'
    <2>1. /\ LullOK(q) /\ pc'[q] = pc[q] /\ regs'[q] = regs[q]
          /\ arrays' = arrays
          /\ q \in lull /\ pc[q] # "idle" => q \in lull'
      BY <1>7 DEF ArrayInv, Alone, Procs
    <2>. QED BY <1>1, <2>1 DEF LullOK
  <1>. QED BY <1>1, <1>2, <1>3, <1>4, <1>5, <1>6, <1>7 DEF ArrayInv

\* A step that leaves head, the claims and the tasks alone.
LEMMA Quiet ==
    ASSUME ArrayInv, UNCHANGED <<kind, head, claimed, takers>>
    PROVE  /\ GivenOut(head)' /\ ClaimsOK' /\ ClaimsKept'
           /\ claimed \subseteq claimed' /\ head <= head'
           /\ A!Ordered' = A!Ordered
           /\ \A q \in Procs : /\ A!IsWeak(q)' <=> A!IsWeak(q)
                               /\ A!IsExclusive(q)' <=> A!IsExclusive(q)
  <1>1. A!Exclusive' = A!Exclusive /\ A!Ordered' = A!Ordered
    BY DEF A!Exclusive, A!Ordered, A!Procs
  <1>2. \A q \in Procs : /\ A!IsWeak(q)' <=> A!IsWeak(q)
                         /\ A!IsExclusive(q)' <=> A!IsExclusive(q)
    BY DEF A!IsWeak, A!IsExclusive
  <1>3. GivenOut(head)'
    BY DEF ArrayInv, GivenOut
  <1>4. ClaimsOK'
    BY DEF ArrayInv, ClaimsOK
  <1>5. ClaimsKept'
    BY <1>1 DEF ArrayInv, ClaimsKept
  <1>6. head <= head'
    BY DEF ArrayInv, ArrayTypes
  <1>. QED BY <1>1, <1>2, <1>3, <1>4, <1>5, <1>6

\* What holds of any process.
LEMMA OneFacts ==
    ASSUME ArrayInv, NEW p \in Procs
    PROVE  /\ KindOK(p) /\ HeadsOK(p) /\ (p \in A!Ordered => OrderOK(p))
           /\ (p \in Thieves => LullOK(p) /\ r[p] \in Nat)
           /\ regs[p] \in [head : Nat, arr : Nat, cell : Nat]
           /\ regs[p].head \in Nat /\ head \in Nat /\ Len(takers) \in Nat
           /\ DOMAIN takers = 1..Len(takers)
           /\ pc[p] # "idle" => freed = <<0>>
           /\ p = Owner => pc[p] \notin Busy \ {"advance"}
  <1>1. Len(takers) \in Nat /\ DOMAIN takers = 1..Len(takers)
    BY LenProperties DEF ArrayInv, TakersOK
  <1>2. regs[p] \in [head : Nat, arr : Nat, cell : Nat]
    BY DEF ArrayInv, ArrayTypes
  <1>3. p = Owner => pc[p] \notin Busy \ {"advance"}
    BY OrderedAreProcs DEF ArrayInv, KindOK
  <1>. QED BY <1>1, <1>2, <1>3 DEF ArrayInv, ArrayTypes, DropInv

LEMMA LoadHeadInv ==
    ASSUME ArrayInv, NEW p \in Thieves, A!StealLoadHead(p)
    PROVE  ArrayInv' /\ UNCHANGED <<takers, kind>>
  <1>0. p \in Procs /\ p # Owner
    BY OrderedAreProcs DEF Procs
  <1> DEFINE x == IF A!IsWeak(p) THEN A!Larger(r[p], head) ELSE head
  <1>1. /\ pc[p] = "idle" /\ freed = <<0>>
        /\ pc' = [pc EXCEPT ![p] = "load_array"]
        /\ regs' = [regs EXCEPT ![p].head = x]
        /\ r' = [r EXCEPT ![p] = IF A!IsWeak(p) THEN x ELSE r[p]]
        /\ lull' = IF A!AllDelivered THEN lull \cup {p} ELSE lull
        /\ UNCHANGED <<kind, head, arrays, claimed, tail, takers, freed>>
    BY DEF A!StealLoadHead, A!Live, A!Null, A!Goto, A!modeVars, A!innerVars,
       ArrayInv, ArrayTypes
  <1>2. /\ HeadsOK(p) /\ r[p] \in Nat /\ head \in Nat
        /\ p \in A!Ordered => OrderOK(p)
        /\ Len(takers) \in Nat /\ DOMAIN takers = 1..Len(takers)
    BY <1>0, OneFacts
  <1>3. x \in Nat /\ GivenOut(x) /\ (A!IsWeak(p) => r[p] <= x)
    <2>1. GivenOut(head) /\ GivenOut(r[p])
      BY <1>1, <1>2 DEF ArrayInv, HeadsOK
    <2>. QED BY <1>2, <2>1 DEF A!Larger
  <1> HIDE DEF x
  <1>4. /\ pc'[p] = "load_array" /\ regs'[p].head = x
        /\ r'[p] = IF A!IsWeak(p) THEN x ELSE r[p]
        /\ \A q \in Procs \ {p} : pc'[q] = pc[q] /\ regs'[q] = regs[q]
        /\ \A q \in Thieves \ {p} : r'[q] = r[q]
    BY <1>0, <1>1 DEF ArrayInv, ArrayTypes
  <1>5. ArrayTypes'
    <2>1. regs' \in [Procs -> [head : Nat, arr : Nat, cell : Nat]]
      BY <1>1, <1>3 DEF ArrayInv, ArrayTypes
    <2>2. pc' \in [Procs -> {"idle", "put_store", "put_mark"} \cup Busy]
      BY <1>1 DEF ArrayInv, ArrayTypes, Busy
    <2>3. r' \in [Thieves -> Nat]
      BY <1>1, <1>2, <1>3 DEF ArrayInv, ArrayTypes
    <2>. QED BY <1>1, <2>1, <2>2, <2>3 DEF ArrayInv, ArrayTypes
  <1>6. Alone(p)
    BY <1>0, <1>1, <1>4 DEF Alone
  <1>7. /\ GivenOut(head)' /\ ClaimsOK' /\ ClaimsKept'
        /\ claimed \subseteq claimed' /\ head <= head'
        /\ A!IsWeak(p)' <=> A!IsWeak(p)
    BY <1>0, <1>1, Quiet
  <1>8. KindOK(p)'
    BY <1>4 DEF KindOK
  <1>9. HeadsOK(p)'
    <2>1. GivenOut(regs[p].head)' /\ GivenOut(r[p])'
      BY <1>1, <1>2, <1>3, <1>4 DEF GivenOut, HeadsOK
    <2>. QED BY <1>4, <2>1 DEF HeadsOK, Won, Holding
  <1>10. p \in A!Ordered => OrderOK(p)'
    <2>. SUFFICES ASSUME p \in A!Ordered, NEW j \in 1..Len(takers), p \in takers[j]
                  PROVE  j <= Reach(p)' /\ j <= regs'[p].head
      BY <1>1 DEF OrderOK
    <2>1. j <= Reach(p)
      BY <1>1, <1>2 DEF OrderOK, Won
    <2>2. CASE A!IsWeak(p)
      BY <1>2, <1>3, <1>4, <1>7, <2>1, <2>2 DEF Reach
    <2>3. CASE ~A!IsWeak(p)
      BY <1>1, <1>4, <1>7, <2>1, <2>3 DEF Reach, x
    <2>. QED BY <2>2, <2>3
  <1>11. LullOK(p)'
    <2>1. p \notin lull' => \E k \in 1..Len(takers) : takers[k] = {}
      BY <1>1, <1>2 DEF A!AllDelivered
    <2>2. p \notin lull' => x < Len(takers)
      BY <1>2, <1>3, <2>1 DEF GivenOut
    <2>. QED BY <1>1, <1>4, <2>2 DEF LullOK
  <1>. QED BY <1>0, <1>1, <1>5, <1>6, <1>7, <1>8, <1>9, <1>10, <1>11, OneMoves

LEMMA LoadArrayInv ==
    ASSUME ArrayInv, NEW p \in Thieves, A!StealLoadArray(p)
    PROVE  ArrayInv' /\ UNCHANGED <<takers, kind>>
  <1>0. p \in Procs /\ p # Owner
    BY OrderedAreProcs DEF Procs
  <1>1. /\ pc[p] = "load_array"
        /\ pc' = [pc EXCEPT ![p] = "read_cell"]
        /\ regs' = [regs EXCEPT ![p].arr = Len(arrays)]
        /\ UNCHANGED <<kind, head, arrays, claimed, tail, r, lull, takers,
                       freed>>
    BY DEF A!StealLoadArray, A!Goto, A!modeVars, A!innerVars, A!historyVars
  <1>2. /\ HeadsOK(p) /\ LullOK(p) /\ (p \in A!Ordered => OrderOK(p))
        /\ freed = <<0>> /\ regs[p].head \in Nat /\ Len(takers) \in Nat
    BY <1>0, <1>1, OneFacts
  <1>3. Len(arrays) \in Nat \ {0} /\ A!Active = arrays[Len(arrays)]
    BY ActiveFacts DEF ArrayInv
  <1>4. /\ pc'[p] = "read_cell" /\ regs'[p].head = regs[p].head
        /\ regs'[p].arr = Len(arrays)
        /\ \A q \in Procs \ {p} : pc'[q] = pc[q] /\ regs'[q] = regs[q]
    BY <1>0, <1>1 DEF ArrayInv, ArrayTypes
  <1>5. ArrayTypes'
    <2>1. regs' \in [Procs -> [head : Nat, arr : Nat, cell : Nat]]
      BY <1>1, <1>3 DEF ArrayInv, ArrayTypes
    <2>2. pc' \in [Procs -> {"idle", "put_store", "put_mark"} \cup Busy]
      BY <1>1 DEF ArrayInv, ArrayTypes, Busy
    <2>. QED BY <1>1, <2>1, <2>2 DEF ArrayInv, ArrayTypes
  <1>6. Alone(p)
    BY <1>0, <1>1, <1>2, <1>4 DEF Alone
  <1>7. /\ GivenOut(head)' /\ ClaimsOK' /\ ClaimsKept'
        /\ claimed \subseteq claimed' /\ head <= head'
        /\ A!IsWeak(p)' <=> A!IsWeak(p)
    BY <1>0, <1>1, Quiet
  <1>8. KindOK(p)'
    BY <1>4 DEF KindOK
  <1>9. HeadsOK(p)'
    <2>1. GivenOut(regs[p].head)' /\ GivenOut(r[p])'
      BY <1>1, <1>2, <1>4 DEF GivenOut, HeadsOK, Busy
    <2>. QED BY <1>4, <2>1 DEF HeadsOK, Won, Holding
  <1>10. p \in A!Ordered => OrderOK(p)'
    BY <1>1, <1>2, <1>4, <1>7 DEF OrderOK, Won, Reach, Busy
  <1>11. LullOK(p)'
    <2>1. CASE p \in lull
      BY <1>1, <1>3, <1>4, <2>1 DEF LullOK
    <2>2. CASE p \notin lull
      <3>1. regs[p].head < Len(takers)
        BY <1>1, <1>2, <2>2 DEF LullOK
      <3>2. Len(takers) <= A!LenOf(A!Active)
        BY RowFacts, ActiveFacts DEF ArrayInv, ArrayCells, ArrayTypes
      <3>3. regs[p].head \in DOMAIN A!Active
        BY <1>2, <3>1, <3>2, RowFacts, ActiveFacts DEF ArrayInv
      <3>4. A!Active[regs[p].head] # 0
        BY <1>2, <3>1, <3>3 DEF ArrayInv, ArrayCells
      <3>. QED BY <1>1, <1>3, <1>4, <3>3, <3>4 DEF LullOK
    <2>. QED BY <2>1, <2>2
  <1>. QED BY <1>0, <1>1, <1>5, <1>6, <1>7, <1>8, <1>9, <1>10, <1>11, OneMoves

LEMMA FindsNoneInv ==
    ASSUME ArrayInv, NEW p \in Thieves, A!StealFindsNone(p)
    PROVE  ArrayInv' /\ UNCHANGED <<takers, kind>>
  <1>0. p \in Procs /\ p # Owner
    BY OrderedAreProcs DEF Procs
  <1>1. /\ pc[p] = "read_cell"
        /\ pc' = [pc EXCEPT ![p] = "idle"]
        /\ regs' = [regs EXCEPT ![p] = [head |-> 0, arr |-> 1, cell |-> 0]]
        /\ lull' = lull \ {p}
        /\ UNCHANGED <<kind, head, arrays, claimed, tail, r, takers, freed>>
    BY DEF A!StealFindsNone, A!StealSeesNone, A!Return, A!NoRegs, A!Null, A!Goto,
       A!modeVars, A!innerVars
  <1>2. /\ HeadsOK(p) /\ (p \in A!Ordered => OrderOK(p)) /\ freed = <<0>>
    BY <1>0, <1>1, OneFacts
  <1>4. /\ pc'[p] = "idle"
        /\ \A q \in Procs \ {p} : pc'[q] = pc[q] /\ regs'[q] = regs[q]
    BY <1>0, <1>1 DEF ArrayInv, ArrayTypes
  <1>5. ArrayTypes'
    <2>1. regs' \in [Procs -> [head : Nat, arr : Nat, cell : Nat]]
      BY <1>1 DEF ArrayInv, ArrayTypes
    <2>2. pc' \in [Procs -> {"idle", "put_store", "put_mark"} \cup Busy]
      BY <1>1 DEF ArrayInv, ArrayTypes
    <2>. QED BY <1>1, <2>1, <2>2 DEF ArrayInv, ArrayTypes
  <1>6. Alone(p)
    BY <1>0, <1>1, <1>2, <1>4 DEF Alone
  <1>7. /\ GivenOut(head)' /\ ClaimsOK' /\ ClaimsKept'
        /\ claimed \subseteq claimed' /\ head <= head'
        /\ A!IsWeak(p)' <=> A!IsWeak(p)
    BY <1>0, <1>1, Quiet
  <1>8. KindOK(p)'
    BY <1>4 DEF KindOK, Busy
  <1>9. HeadsOK(p)'
    <2>1. GivenOut(r[p])'
      BY <1>1, <1>2 DEF GivenOut, HeadsOK
    <2>. QED BY <1>4, <2>1 DEF HeadsOK, Won, Holding, Busy
  <1>10. p \in A!Ordered => OrderOK(p)'
    BY <1>1, <1>2, <1>4, <1>7 DEF OrderOK, Won, Reach, Busy
  <1>11. LullOK(p)'
    BY <1>4 DEF LullOK
  <1>. QED BY <1>0, <1>1, <1>5, <1>6, <1>7, <1>8, <1>9, <1>10, <1>11, OneMoves

LEMMA ReadInv ==
    ASSUME ArrayInv, NEW p \in Thieves, A!StealRead(p)
    PROVE  ArrayInv' /\ UNCHANGED <<takers, kind>>
  <1>0. p \in Procs /\ p # Owner
    BY OrderedAreProcs DEF Procs
  <1> DEFINE l == CASE kind[p] = "steal" -> "advance"
                    [] kind[p] = "exclusive" -> "claim"
                    [] kind[p] = "weak" -> "refresh"
  <1>1. /\ pc[p] = "read_cell" /\ A!CellSeen(p) # 0
        /\ pc' = [pc EXCEPT ![p] = l]
        /\ regs' = [regs EXCEPT ![p].cell = A!CellSeen(p)]
        /\ UNCHANGED <<kind, head, arrays, claimed, tail, r, lull, takers,
                       freed>>
    BY DEF A!StealRead, A!Goto, A!modeVars, A!innerVars, A!historyVars, A!Null
  <1>2. /\ HeadsOK(p) /\ LullOK(p) /\ (p \in A!Ordered => OrderOK(p))
        /\ freed = <<0>> /\ regs[p].head \in Nat /\ Len(takers) \in Nat
    BY <1>0, <1>1, OneFacts
  <1>3. /\ regs[p].arr \in 1..Len(arrays)
        /\ regs[p].head \in DOMAIN arrays[regs[p].arr]
        /\ A!CellSeen(p) = arrays[regs[p].arr][regs[p].head]
    BY <1>1, <1>2 DEF A!CellSeen, A!Null, LullOK
  <1>a. regs[p].head < Len(takers) /\ A!CellSeen(p) \in Nat
    <2>1. arrays[regs[p].arr] \in Rows
      BY <1>3, ActiveFacts DEF ArrayInv
    <2>. QED BY <1>1, <1>3, <2>1, RowFacts DEF ArrayInv, ArrayCells
  <1>b. \/ kind[p] = "steal" /\ l = "advance"
        \/ kind[p] = "exclusive" /\ l = "claim"
        \/ kind[p] = "weak" /\ l = "refresh"
    BY DEF ArrayInv, ArrayTypes, A!Kinds
  <1> HIDE DEF l
  <1>4. /\ pc'[p] = l /\ regs'[p].head = regs[p].head
        /\ \A q \in Procs \ {p} : pc'[q] = pc[q] /\ regs'[q] = regs[q]
    BY <1>0, <1>1 DEF ArrayInv, ArrayTypes
  <1>5. ArrayTypes'
    <2>1. regs' \in [Procs -> [head : Nat, arr : Nat, cell : Nat]]
      BY <1>1, <1>a DEF ArrayInv, ArrayTypes
    <2>2. l \in Busy
      BY <1>b DEF Busy
    <2>3. pc' \in [Procs -> {"idle", "put_store", "put_mark"} \cup Busy]
      BY <1>1, <2>2 DEF ArrayInv, ArrayTypes
    <2>. QED BY <1>1, <2>1, <2>3 DEF ArrayInv, ArrayTypes
  <1>6. Alone(p)
    BY <1>0, <1>1, <1>2, <1>4 DEF Alone
  <1>7. /\ GivenOut(head)' /\ ClaimsOK' /\ ClaimsKept'
        /\ claimed \subseteq claimed' /\ head <= head'
        /\ A!IsWeak(p)' <=> A!IsWeak(p)
    BY <1>0, <1>1, Quiet
  <1>8. KindOK(p)' /\ ~Won(p)'
    BY <1>1, <1>4, <1>b DEF KindOK, Won, A!IsWeak, A!IsExclusive
  <1>9. HeadsOK(p)'
    <2>1. GivenOut(regs[p].head)' /\ GivenOut(r[p])'
      BY <1>1, <1>2, <1>4 DEF GivenOut, HeadsOK, Busy
    <2>2. pc'[p] # "nudge" /\ pc'[p] # "store"
      BY <1>4, <1>b
    <2>. QED BY <1>1, <1>4, <1>8, <1>a, <2>1, <2>2 DEF HeadsOK
  <1>10. p \in A!Ordered => OrderOK(p)'
    BY <1>1, <1>2, <1>4, <1>7 DEF OrderOK, Won, Reach, Busy
  <1>11. LullOK(p)'
    BY <1>4, <1>b DEF LullOK
  <1>. QED BY <1>0, <1>1, <1>5, <1>6, <1>7, <1>8, <1>9, <1>10, <1>11, OneMoves

\* The process p gets the task it holds: what Deliver does.
LEMMA Delivers ==
    ASSUME ArrayInv, NEW p \in Procs, pc[p] \in Holding, A!Deliver(p)
    PROVE  LET k == regs[p].head + 1
           IN  /\ Gives(p) /\ k \in 1..Len(takers) /\ GivenOut(k - 1)
               /\ Len(takers') = Len(takers)
               /\ \A j \in 1..Len(takers) :
                     takers'[j] = IF j = k THEN takers[j] \cup {p}
                                  ELSE takers[j]
               /\ \A n \in Nat : GivenOut(n) => GivenOut(n)'
               /\ \A n \in Nat : n = k => GivenOut(n)'
               /\ \A q \in Thieves \ {p} : q \in lull /\ pc[q] # "idle" =>
                     q \in lull'
  <1>1. PICK h \in Nat : h = regs[p].head
    BY OneFacts
  <1>2. h < Len(takers) /\ GivenOut(h) /\ Len(takers) \in Nat
    BY <1>1, OneFacts DEF HeadsOK, Holding
  <1>3. PICK k \in 1..Len(takers) : k = h + 1
    BY <1>2
  <1>4. takers' = [takers EXCEPT ![k] = @ \cup {p}]
    BY <1>1, <1>3 DEF A!Deliver
  <1>5. /\ Len(takers') = Len(takers)
        /\ \A j \in 1..Len(takers) :
              takers'[j] = IF j = k THEN takers[j] \cup {p} ELSE takers[j]
    BY <1>4, GiveTask DEF ArrayInv
  <1>6. \A n \in Nat : GivenOut(n) => GivenOut(n)'
    BY <1>4, GiveTask DEF ArrayInv
  <1>7. \A n \in Nat : n = k => GivenOut(n)'
    <2>1. \A j \in 1..k : j \in 1..h \/ j = k
      BY <1>3
    <2>2. \A j \in 1..h : j \in 1..Len(takers) /\ takers[j] # {}
      BY <1>2 DEF GivenOut
    <2>3. p \in takers'[k]
      BY <1>5
    <2>4. \A j \in 1..h : takers'[j] # {}
      BY <1>5, <2>2
    <2>5. \A j \in 1..k : takers'[j] # {}
      BY <2>1, <2>3, <2>4
    <2>. QED BY <1>5, <2>5 DEF GivenOut
  <1>8. \A q \in Thieves \ {p} : q \in lull /\ pc[q] # "idle" => q \in lull'
    BY DEF A!Deliver
  <1>9. Gives(p)
    BY <1>1, <1>3, <1>4 DEF Gives
  <1>10. regs[p].head + 1 = k /\ k - 1 = h
    BY <1>1, <1>3
  <1>. QED BY <1>2, <1>5, <1>6, <1>7, <1>8, <1>9, <1>10

\* What is given out up to m and up to n is so up to the larger.
LEMMA MaxGiven ==
    ASSUME NEW m \in Nat, NEW n \in Nat
    PROVE  /\ A!Larger(m, n) \in Nat
           /\ m <= A!Larger(m, n) /\ n <= A!Larger(m, n)
           /\ GivenOut(m) /\ GivenOut(n) => GivenOut(A!Larger(m, n))
           /\ GivenOut(m)' /\ GivenOut(n)' => GivenOut(A!Larger(m, n))'
  BY DEF A!Larger

\* The task in a claimed cell is given out.
LEMMA ClaimGiven ==
    ASSUME ArrayInv, NEW h \in Nat, GivenOut(h), h \in claimed
    PROVE  GivenOut(h + 1)
  <1>1. h < Len(takers) /\ takers[h + 1] # {} /\ Len(takers) \in Nat
    BY DEF ArrayInv, ClaimsOK, TakersOK
  <1>2. \A j \in 1..h + 1 : j \in 1..h \/ j = h + 1
    OBVIOUS
  <1>3. \A j \in 1..h : takers[j] # {}
    BY DEF GivenOut
  <1>4. \A j \in 1..h + 1 : takers[j] # {}
    BY <1>1, <1>2, <1>3
  <1>. QED BY <1>1, <1>4 DEF GivenOut

LEMMA ClaimLostInv ==
    ASSUME ArrayInv, NEW p \in Thieves, A!ClaimLost(p)
    PROVE  ArrayInv' /\ UNCHANGED <<takers, kind>>
  <1>0. p \in Procs /\ p # Owner
    BY OrderedAreProcs DEF Procs
  <1>1. /\ pc[p] = "claim" /\ regs[p].head \in claimed
        /\ pc' = [pc EXCEPT ![p] = "nudge"]
        /\ UNCHANGED <<kind, head, arrays, claimed, tail, regs, r, lull,
                       takers, freed>>
    BY DEF A!ClaimLost, A!Goto, A!modeVars, A!innerVars, A!historyVars
  <1>2. /\ KindOK(p) /\ HeadsOK(p) /\ (p \in A!Ordered => OrderOK(p))
        /\ freed = <<0>>
    BY <1>0, <1>1, OneFacts
  <1>4. /\ pc'[p] = "nudge"
        /\ \A q \in Procs \ {p} : pc'[q] = pc[q] /\ regs'[q] = regs[q]
    BY <1>0, <1>1 DEF ArrayInv, ArrayTypes
  <1>5. ArrayTypes'
    <2>1. pc' \in [Procs -> {"idle", "put_store", "put_mark"} \cup Busy]
      BY <1>1 DEF ArrayInv, ArrayTypes, Busy
    <2>. QED BY <1>1, <2>1 DEF ArrayInv, ArrayTypes
  <1>6. Alone(p)
    BY <1>0, <1>1, <1>2, <1>4 DEF Alone
  <1>7. /\ GivenOut(head)' /\ ClaimsOK' /\ ClaimsKept'
        /\ claimed \subseteq claimed' /\ head <= head'
        /\ A!IsWeak(p)' <=> A!IsWeak(p)
        /\ A!IsExclusive(p)' <=> A!IsExclusive(p)
    BY <1>0, <1>1, Quiet
  <1>8. KindOK(p)'
    BY <1>1, <1>2, <1>4, <1>7, <1>0 DEF KindOK
  <1>9. HeadsOK(p)'
    <2>1. GivenOut(regs[p].head)' /\ GivenOut(r[p])'
      BY <1>1, <1>2, <1>4 DEF GivenOut, HeadsOK, Busy
    <2>. QED BY <1>1, <1>2, <1>4, <2>1 DEF HeadsOK, Won, Holding, Busy
  <1>10. p \in A!Ordered => OrderOK(p)'
    BY <1>1, <1>2, <1>4, <1>7 DEF OrderOK, Won, Reach, Busy
  <1>11. LullOK(p)'
    BY <1>4 DEF LullOK
  <1>. QED BY <1>0, <1>1, <1>5, <1>6, <1>7, <1>8, <1>9, <1>10, <1>11, OneMoves

LEMMA NudgeInv ==
    ASSUME ArrayInv, NEW p \in Thieves, A!Nudge(p)
    PROVE  ArrayInv' /\ UNCHANGED <<takers, kind>>
  <1>0. p \in Procs /\ p # Owner
    BY OrderedAreProcs DEF Procs
  <1>1. /\ pc[p] = "nudge"
        /\ head' = A!Larger(head, regs[p].head + 1)
        /\ pc' = [pc EXCEPT ![p] = "idle"]
        /\ regs' = [regs EXCEPT ![p] = [head |-> 0, arr |-> 1, cell |-> 0]]
        /\ lull' = lull \ {p}
        /\ UNCHANGED <<kind, arrays, claimed, tail, r, takers, freed>>
    BY DEF A!Nudge, A!Return, A!NoRegs, A!Null, A!Goto, A!modeVars
  <1>2. /\ KindOK(p) /\ HeadsOK(p) /\ (p \in A!Ordered => OrderOK(p))
        /\ freed = <<0>> /\ regs[p].head \in Nat /\ head \in Nat
        /\ Len(takers) \in Nat
    BY <1>0, <1>1, OneFacts
  <1>3. head' \in Nat /\ head <= head' /\ GivenOut(head')
    <2>1. GivenOut(regs[p].head + 1) /\ regs[p].head + 1 \in Nat
      BY <1>1, <1>2, ClaimGiven DEF HeadsOK, Busy
    <2>. QED BY <1>1, <1>2, <2>1, MaxGiven DEF ArrayInv
  <1>4. /\ pc'[p] = "idle"
        /\ \A q \in Procs \ {p} : pc'[q] = pc[q] /\ regs'[q] = regs[q]
    BY <1>0, <1>1 DEF ArrayInv, ArrayTypes
  <1>5. ArrayTypes'
    <2>1. regs' \in [Procs -> [head : Nat, arr : Nat, cell : Nat]]
      BY <1>1 DEF ArrayInv, ArrayTypes
    <2>2. pc' \in [Procs -> {"idle", "put_store", "put_mark"} \cup Busy]
      BY <1>1 DEF ArrayInv, ArrayTypes
    <2>. QED BY <1>1, <1>3, <2>1, <2>2 DEF ArrayInv, ArrayTypes
  <1>6. Alone(p)
    BY <1>0, <1>1, <1>2, <1>4 DEF Alone
  <1>7. /\ GivenOut(head)' /\ ClaimsOK' /\ ClaimsKept'
        /\ claimed \subseteq claimed'
    BY <1>1, <1>3 DEF GivenOut, ArrayInv, ClaimsOK, ClaimsKept, A!Exclusive
  <1>8. KindOK(p)'
    BY <1>4 DEF KindOK, Busy
  <1>9. HeadsOK(p)'
    <2>1. GivenOut(r[p])'
      BY <1>1, <1>2 DEF GivenOut, HeadsOK
    <2>. QED BY <1>4, <2>1 DEF HeadsOK, Won, Holding, Busy
  <1>10. p \in A!Ordered => OrderOK(p)'
    <2>1. A!IsWeak(p)' <=> A!IsWeak(p)
      BY <1>1 DEF A!IsWeak
    <2>2. ~A!IsWeak(p)
      BY <1>1, <1>2 DEF KindOK, A!IsWeak, A!IsExclusive
    <2>3. p \in A!Ordered => \A j \in 1..Len(takers) : p \in takers[j] => j <= head
      BY <1>1, <1>2, <2>2 DEF OrderOK, Won, Reach
    <2>. QED BY <1>1, <1>2, <1>3, <1>4, <2>1, <2>2, <2>3
         DEF OrderOK, Reach, Busy
  <1>11. LullOK(p)'
    BY <1>4 DEF LullOK
  <1>. QED BY <1>0, <1>1, <1>3, <1>5, <1>6, <1>7, <1>8, <1>9, <1>10, <1>11,
       OneMoves

\* The process p gets the task it holds, as RelaxedQueue allows it.
Served(p) ==
    /\ Gives(p) /\ GivenOut(regs[p].head)
    /\ p \in A!Ordered =>
          \A j \in 1..Len(takers) : p \in takers[j] => j <= regs[p].head
    /\ p \in A!Exclusive => takers[regs[p].head + 1] \cap A!Exclusive = {}

\* Who is no exclusive thief gets its task and leaves the claims alone.
LEMMA GiveClaims ==
    ASSUME ArrayInv, NEW p \in Procs, pc[p] \in Holding, A!Deliver(p),
           ~A!IsExclusive(p), UNCHANGED <<kind, claimed>>
    PROVE  /\ ClaimsOK' /\ ClaimsKept' /\ claimed \subseteq claimed'
           /\ p \notin A!Exclusive
           /\ A!IsWeak(p)' <=> A!IsWeak(p)
           /\ A!IsExclusive(p)' <=> A!IsExclusive(p)
  <1>1. /\ Len(takers') = Len(takers) /\ Len(takers) \in Nat
        /\ \A j \in 1..Len(takers) : takers[j] \subseteq takers'[j]
        /\ \A j \in 1..Len(takers) : takers'[j] \subseteq takers[j] \cup {p}
    BY Delivers, OneFacts
  <1>2. A!Exclusive' = A!Exclusive
    BY DEF A!Exclusive
  <1>3. p \notin A!Exclusive
    BY DEF A!Exclusive, A!IsExclusive
  <1>4. ClaimsOK'
    <2>1. \A c \in claimed : c \in Nat /\ c < Len(takers) /\ takers[c + 1] # {}
      BY DEF ArrayInv, ClaimsOK, ArrayTypes
    <2>2. \A c \in claimed : c + 1 \in 1..Len(takers)
      BY <1>1, <2>1
    <2>3. \A c \in claimed : takers'[c + 1] # {}
      BY <1>1, <2>1, <2>2
    <2>. QED BY <1>1, <2>1, <2>3 DEF ClaimsOK
  <1>5. ClaimsKept'
    BY <1>1, <1>2, <1>3 DEF ArrayInv, ClaimsKept
  <1>6. /\ A!IsWeak(p)' <=> A!IsWeak(p)
        /\ A!IsExclusive(p)' <=> A!IsExclusive(p)
    BY DEF A!IsWeak, A!IsExclusive
  <1>. QED BY <1>3, <1>4, <1>5, <1>6

\* What the invariant says of a process that is about to be served.
LEMMA Serves ==
    ASSUME ArrayInv, NEW p \in Procs, pc[p] \in Holding, ~Won(p), A!Deliver(p),
           A!IsExclusive(p) => regs[p].head \notin claimed
    PROVE  Served(p)
  <1>1. PICK h \in Nat : h = regs[p].head
    BY OneFacts
  <1>2. GivenOut(h) /\ h + 1 \in 1..Len(takers) /\ Gives(p)
    BY <1>1, OneFacts, Delivers DEF HeadsOK, Holding
  <1>3. p \in A!Ordered => \A j \in 1..Len(takers) : p \in takers[j] => j <= h
    BY <1>1, OneFacts DEF OrderOK, Holding
  <1>4. p \in A!Exclusive => takers[h + 1] \cap A!Exclusive = {}
    <2>. SUFFICES ASSUME p \in A!Exclusive, NEW q \in A!Exclusive,
                         q \in takers[h + 1]
                  PROVE  FALSE
      OBVIOUS
    <2>1. h + 1 - 1 \in claimed
      BY <1>2 DEF ArrayInv, ClaimsKept
    <2>2. A!IsExclusive(p)
      BY DEF A!Exclusive, A!IsExclusive
    <2>. QED BY <1>1, <2>1, <2>2
  <1>. QED BY <1>1, <1>2, <1>3, <1>4 DEF Served

LEMMA AdvanceInv ==
    ASSUME ArrayInv, NEW p \in Procs, A!Advance(p)
    PROVE  ArrayInv' /\ UNCHANGED kind /\ (Served(p) \/ UNCHANGED takers)
  <1>1. /\ pc[p] = "advance"
        /\ head' = A!Larger(head, regs[p].head + 1)
        /\ pc' = [pc EXCEPT ![p] = "idle"]
        /\ regs' = [regs EXCEPT ![p] = [head |-> 0, arr |-> 1, cell |-> 0]]
        /\ UNCHANGED <<kind, arrays, claimed, tail, r, freed>>
    BY DEF A!Advance, A!Return, A!NoRegs, A!Null, A!Goto, A!modeVars
  <1>2. /\ KindOK(p) /\ HeadsOK(p) /\ (p \in A!Ordered => OrderOK(p))
        /\ freed = <<0>> /\ regs[p].head \in Nat /\ head \in Nat
        /\ Len(takers) \in Nat
    BY <1>1, OneFacts
  <1>a. PICK h \in Nat : h = regs[p].head
    BY <1>2
  <1>b. pc[p] \in Holding /\ ~A!IsWeak(p) /\ GivenOut(head) /\ GivenOut(h)
    BY <1>1, <1>2, <1>a DEF Holding, Busy, KindOK, HeadsOK, ArrayInv
  <1>3. head' \in Nat /\ head <= head' /\ h + 1 <= head'
    <2>1. h + 1 \in Nat /\ head' = A!Larger(head, h + 1)
      BY <1>1, <1>a
    <2>. QED BY <1>2, <2>1, MaxGiven
  <1>4. /\ pc'[p] = "idle"
        /\ \A q \in Procs \ {p} : pc'[q] = pc[q] /\ regs'[q] = regs[q]
    BY <1>1 DEF ArrayInv, ArrayTypes
  <1>5. ArrayTypes'
    <2>1. regs' \in [Procs -> [head : Nat, arr : Nat, cell : Nat]]
      BY <1>1 DEF ArrayInv, ArrayTypes
    <2>2. pc' \in [Procs -> {"idle", "put_store", "put_mark"} \cup Busy]
      BY <1>1 DEF ArrayInv, ArrayTypes
    <2>. QED BY <1>1, <1>3, <2>1, <2>2 DEF ArrayInv, ArrayTypes
  <1>c. /\ A!IsWeak(p)' <=> A!IsWeak(p)
        /\ \A q \in Thieves \ {p} : r'[q] = r[q]
    BY <1>1 DEF A!IsWeak
  <1>8. KindOK(p)' /\ LullOK(p)' /\ ~Won(p)'
    BY <1>4 DEF KindOK, Busy, LullOK, Won
  <1>9. CASE A!IsExclusive(p)
    <2>1. UNCHANGED takers /\ lull' = lull \ {p}
      BY <1>9 DEF A!Advance
    <2>2. Won(p) /\ h \in claimed
      BY <1>1, <1>2, <1>9, <1>a DEF HeadsOK, Won
    <2>3. GivenOut(head')
      <3>1. GivenOut(h + 1) /\ h + 1 \in Nat
        BY <1>b, <2>2, ClaimGiven
      <3>. QED BY <1>1, <1>2, <1>a, <1>b, <3>1, MaxGiven
    <2>4. Alone(p)
      BY <1>1, <1>2, <1>4, <1>c, <2>1 DEF Alone
    <2>5. /\ GivenOut(head)' /\ ClaimsOK' /\ ClaimsKept'
          /\ claimed \subseteq claimed'
      BY <1>1, <2>1, <2>3
      DEF GivenOut, ArrayInv, ClaimsOK, ClaimsKept, A!Exclusive
    <2>6. HeadsOK(p)'
      <3>1. p \in Thieves => GivenOut(r[p])'
        BY <1>1, <1>2, <2>1 DEF GivenOut, HeadsOK
      <3>. QED BY <1>4, <1>8, <3>1 DEF HeadsOK, Holding, Busy
    <2>7. p \in A!Ordered => OrderOK(p)'
      <3>. SUFFICES ASSUME p \in A!Ordered, NEW j \in 1..Len(takers),
                           p \in takers[j]
                    PROVE  j <= head'
        BY <1>4, <1>b, <1>c, <2>1 DEF OrderOK, Reach, Busy
      <3>1. j <= h \/ j = h + 1
        BY <1>2, <1>b, <1>a DEF OrderOK, Holding
      <3>. QED BY <1>3, <3>1
    <2>. QED BY <1>1, <1>3, <1>5, <1>8, <2>1, <2>4, <2>5, <2>6, <2>7, OneMoves
  <1>10. CASE ~A!IsExclusive(p)
    <2>0. A!Deliver(p) /\ ~Won(p)
      BY <1>10 DEF A!Advance, Won
    <2>1. /\ Gives(p) /\ Len(takers') = Len(takers) /\ GivenOut(h + 1)'
          /\ \A j \in 1..Len(takers) :
                takers'[j] = IF j = h + 1 THEN takers[j] \cup {p} ELSE takers[j]
          /\ \A n \in Nat : GivenOut(n) => GivenOut(n)'
          /\ \A q \in Thieves \ {p} : q \in lull /\ pc[q] # "idle" => q \in lull'
      <3>1. h + 1 \in Nat
        OBVIOUS
      <3>. QED BY <1>a, <1>b, <2>0, <3>1, Delivers
    <2>2. Served(p)
      BY <1>10, <1>b, <2>0, Serves
    <2>3. GivenOut(head)'
      <3>2. PICK m \in Nat : m = head
        BY <1>2
      <3>3. head' = A!Larger(m, h + 1) /\ GivenOut(m)'
        BY <1>1, <1>a, <1>b, <2>1, <3>2
      <3>4. GivenOut(A!Larger(m, h + 1))' /\ h + 1 \in Nat
        BY <2>1, <3>3, MaxGiven
      <3>. QED BY <3>3, <3>4 DEF GivenOut, A!Larger
    <2>4. Alone(p)
      BY <1>1, <1>2, <1>4, <1>c, <2>1 DEF Alone
    <2>5. ClaimsOK' /\ ClaimsKept' /\ claimed \subseteq claimed'
      BY <1>1, <1>10, <1>b, <2>0, GiveClaims
    <2>6. HeadsOK(p)'
      <3>1. p \in Thieves => GivenOut(r[p])'
        <4>. SUFFICES ASSUME p \in Thieves PROVE GivenOut(r[p])'
          OBVIOUS
        <4>1. PICK n \in Nat : n = r[p]
          BY OneFacts
        <4>2. GivenOut(n)
          BY <1>1, <1>2, <4>1 DEF HeadsOK
        <4>3. GivenOut(n)' /\ r'[p] = n
          BY <1>1, <2>1, <4>1, <4>2
        <4>. QED BY <4>3 DEF GivenOut
      <3>. QED BY <1>4, <1>8, <3>1 DEF HeadsOK, Holding, Busy
    <2>7. p \in A!Ordered => OrderOK(p)'
      <3>. SUFFICES ASSUME p \in A!Ordered, NEW j \in 1..Len(takers),
                           p \in takers'[j]
                    PROVE  j <= head'
        BY <1>4, <1>b, <1>c, <2>1 DEF OrderOK, Reach, Busy
      <3>1. j = h + 1 \/ p \in takers[j]
        BY <2>1
      <3>2. j <= h \/ j = h + 1
        BY <1>2, <1>b, <1>a, <3>1 DEF OrderOK, Holding
      <3>. QED BY <1>3, <3>2
    <2>. QED BY <1>1, <1>3, <1>5, <1>8, <2>1, <2>2, <2>3, <2>4, <2>5, <2>6,
         <2>7, OneMoves
  <1>. QED BY <1>9, <1>10


LEMMA ClaimWonInv ==
    ASSUME ArrayInv, NEW p \in Thieves, A!ClaimWon(p)
    PROVE  ArrayInv' /\ UNCHANGED kind /\ Served(p)
  <1>0. p \in Procs /\ p # Owner
    BY OrderedAreProcs DEF Procs
  <1>1. /\ pc[p] = "claim" /\ regs[p].head \notin claimed
        /\ claimed' = claimed \cup {regs[p].head}
        /\ A!Deliver(p)
        /\ pc' = [pc EXCEPT ![p] = "advance"]
        /\ UNCHANGED <<kind, head, arrays, tail, regs, r, freed>>
    BY DEF A!ClaimWon, A!Goto, A!modeVars
  <1>2. /\ KindOK(p) /\ HeadsOK(p) /\ (p \in A!Ordered => OrderOK(p))
        /\ freed = <<0>> /\ Len(takers) \in Nat
    BY <1>0, <1>1, OneFacts
  <1>a. PICK h \in Nat : h = regs[p].head
    BY <1>0, OneFacts
  <1>b. pc[p] \in Holding /\ A!IsExclusive(p) /\ ~Won(p)
    BY <1>1, <1>2 DEF Holding, Busy, KindOK, Won
  <1>c. h < Len(takers) /\ GivenOut(h) /\ GivenOut(r[p]) /\ GivenOut(head)
    BY <1>1, <1>2, <1>a, <1>b DEF HeadsOK, Holding, ArrayInv
  <1>d. /\ Gives(p) /\ Len(takers') = Len(takers)
        /\ \A j \in 1..Len(takers) :
              takers'[j] = IF j = h + 1 THEN takers[j] \cup {p} ELSE takers[j]
        /\ \A n \in Nat : GivenOut(n) => GivenOut(n)'
        /\ \A q \in Thieves \ {p} : q \in lull /\ pc[q] # "idle" => q \in lull'
    BY <1>0, <1>1, <1>a, <1>b, Delivers
  <1>e. Served(p)
    BY <1>0, <1>1, <1>b, Serves
  <1>4. /\ pc'[p] = "advance" /\ regs'[p].head = h
        /\ \A q \in Procs \ {p} : pc'[q] = pc[q] /\ regs'[q] = regs[q]
    BY <1>0, <1>1, <1>a DEF ArrayInv, ArrayTypes
  <1>5. ArrayTypes'
    <2>1. pc' \in [Procs -> {"idle", "put_store", "put_mark"} \cup Busy]
      BY <1>1 DEF ArrayInv, ArrayTypes, Busy
    <2>2. claimed' \subseteq Nat
      BY <1>1, <1>a DEF ArrayInv, ArrayTypes
    <2>. QED BY <1>1, <2>1, <2>2 DEF ArrayInv, ArrayTypes
  <1>6. Alone(p)
    BY <1>0, <1>1, <1>2, <1>4, <1>d DEF Alone
  <1>f. /\ A!Exclusive' = A!Exclusive
        /\ A!IsExclusive(p)' /\ ~A!IsWeak(p)'
    BY <1>1, <1>b DEF A!Exclusive, A!IsWeak, A!IsExclusive
  <1>g. Won(p)'
    BY <1>4, <1>f DEF Won
  <1>h. \A n \in Nat : GivenOut(n) /\ head' = n => GivenOut(head)'
    BY <1>d DEF GivenOut
  <1>7. GivenOut(head)' /\ head <= head' /\ claimed \subseteq claimed'
    BY <1>1, <1>c, <1>h DEF ArrayInv, ArrayTypes
  <1>i. ClaimsOK'
    <2>1. \A c \in claimed : c \in Nat /\ c < Len(takers) /\ takers[c + 1] # {}
      BY DEF ArrayInv, ClaimsOK, ArrayTypes
    <2>2. \A c \in claimed' : c + 1 \in 1..Len(takers)
      BY <1>1, <1>2, <1>a, <1>c, <2>1
    <2>3. \A c \in claimed' : c \in claimed \/ c = h
      BY <1>1, <1>a
    <2>4. \A c \in claimed' : takers'[c + 1] # {}
      BY <1>d, <2>1, <2>2, <2>3
    <2>5. \A c \in claimed' : c < Len(takers)
      BY <1>c, <2>1, <2>3
    <2>. QED BY <1>d, <2>4, <2>5 DEF ClaimsOK
  <1>j. ClaimsKept'
    <2>. SUFFICES ASSUME NEW j \in 1..Len(takers), NEW q \in A!Exclusive,
                         q \in takers'[j]
                  PROVE  j - 1 \in claimed'
      BY <1>d, <1>f DEF ClaimsKept
    <2>1. CASE j = h + 1
      BY <1>1, <1>a, <2>1
    <2>2. CASE j # h + 1
      BY <1>1, <1>d, <2>2 DEF ArrayInv, ClaimsKept
    <2>. QED BY <2>1, <2>2
  <1>8. KindOK(p)'
    BY <1>0, <1>4, <1>f DEF KindOK
  <1>9. HeadsOK(p)'
    <2>1. PICK n \in Nat : n = r[p]
      BY <1>0, OneFacts
    <2>2. GivenOut(n)' /\ GivenOut(h)'
      BY <1>c, <1>d, <2>1
    <2>3. GivenOut(regs[p].head)' /\ GivenOut(r[p])'
      BY <1>1, <1>4, <2>1, <2>2 DEF GivenOut
    <2>4. h \in claimed'
      BY <1>1, <1>a
    <2>. QED BY <1>4, <1>c, <1>d, <2>3, <2>4 DEF HeadsOK
  <1>10. p \in A!Ordered => OrderOK(p)'
    <2>. SUFFICES ASSUME p \in A!Ordered, NEW j \in 1..Len(takers),
                         p \in takers'[j]
                  PROVE  j <= h \/ j = h + 1
      BY <1>4, <1>d, <1>g DEF OrderOK
    <2>1. j = h + 1 \/ p \in takers[j]
      BY <1>d
    <2>. QED BY <1>2, <1>b, <1>a, <2>1 DEF OrderOK, Holding
  <1>11. LullOK(p)'
    BY <1>4 DEF LullOK
  <1>. QED BY <1>0, <1>1, <1>5, <1>6, <1>7, <1>8, <1>9, <1>10, <1>11, <1>d,
       <1>e, <1>i, <1>j, OneMoves

LEMMA WeakStoreInv ==
    ASSUME ArrayInv, NEW p \in Thieves, A!WeakStore(p)
    PROVE  ArrayInv' /\ UNCHANGED kind /\ Served(p)
  <1>0. p \in Procs /\ p # Owner
    BY OrderedAreProcs DEF Procs
  <1>1. /\ pc[p] = "store"
        /\ head' = regs[p].head + 1
        /\ A!Deliver(p)
        /\ pc' = [pc EXCEPT ![p] = "idle"]
        /\ regs' = [regs EXCEPT ![p] = [head |-> 0, arr |-> 1, cell |-> 0]]
        /\ UNCHANGED <<kind, arrays, claimed, tail, r, freed>>
    BY DEF A!WeakStore, A!Return, A!NoRegs, A!Null, A!Goto, A!modeVars
  <1>2. /\ KindOK(p) /\ HeadsOK(p) /\ (p \in A!Ordered => OrderOK(p))
        /\ freed = <<0>> /\ Len(takers) \in Nat
    BY <1>0, <1>1, OneFacts
  <1>a. PICK h \in Nat : h = regs[p].head
    BY <1>0, OneFacts
  <1>b. /\ pc[p] \in Holding /\ A!IsWeak(p) /\ ~A!IsExclusive(p) /\ ~Won(p)
        /\ r[p] = h + 1 /\ h + 1 \in Nat
    BY <1>0, <1>1, <1>2, <1>a
    DEF Holding, Busy, KindOK, HeadsOK, Won, A!IsWeak, A!IsExclusive
  <1>d. /\ Gives(p) /\ Len(takers') = Len(takers) /\ GivenOut(h + 1)'
        /\ \A j \in 1..Len(takers) :
              takers'[j] = IF j = h + 1 THEN takers[j] \cup {p} ELSE takers[j]
        /\ \A q \in Thieves \ {p} : q \in lull /\ pc[q] # "idle" => q \in lull'
    BY <1>0, <1>1, <1>a, <1>b, Delivers
  <1>e. Served(p)
    BY <1>0, <1>1, <1>b, Serves
  <1>4. /\ pc'[p] = "idle"
        /\ \A q \in Procs \ {p} : pc'[q] = pc[q] /\ regs'[q] = regs[q]
    BY <1>0, <1>1 DEF ArrayInv, ArrayTypes
  <1>5. ArrayTypes'
    <2>1. regs' \in [Procs -> [head : Nat, arr : Nat, cell : Nat]]
      BY <1>1 DEF ArrayInv, ArrayTypes
    <2>2. pc' \in [Procs -> {"idle", "put_store", "put_mark"} \cup Busy]
      BY <1>1 DEF ArrayInv, ArrayTypes
    <2>3. head' \in Nat
      BY <1>1, <1>a
    <2>. QED BY <1>1, <2>1, <2>2, <2>3 DEF ArrayInv, ArrayTypes
  <1>6. Alone(p)
    BY <1>0, <1>1, <1>2, <1>4, <1>d DEF Alone
  <1>7. /\ ClaimsOK' /\ ClaimsKept' /\ claimed \subseteq claimed'
        /\ A!IsWeak(p)'
    BY <1>0, <1>1, <1>b, GiveClaims
  <1>f. GivenOut(head)' /\ GivenOut(r[p])'
    BY <1>1, <1>a, <1>b, <1>d DEF GivenOut
  <1>8. KindOK(p)' /\ LullOK(p)'
    BY <1>4 DEF KindOK, LullOK, Busy
  <1>9. HeadsOK(p)'
    BY <1>4, <1>f DEF HeadsOK, Won, Holding, Busy
  <1>10. p \in A!Ordered => OrderOK(p)'
    <2>. SUFFICES ASSUME p \in A!Ordered, NEW j \in 1..Len(takers),
                         p \in takers'[j]
                  PROVE  j <= r[p]
      BY <1>1, <1>4, <1>7, <1>d DEF OrderOK, Reach, Busy
    <2>1. j = h + 1 \/ p \in takers[j]
      BY <1>d
    <2>. QED BY <1>2, <1>b, <2>1 DEF OrderOK, Reach
  <1>. QED BY <1>0, <1>1, <1>5, <1>6, <1>7, <1>8, <1>9, <1>10, <1>b, <1>d,
       <1>e, <1>f, OneMoves

LEMMA WeakRefreshInv ==
    ASSUME ArrayInv, NEW p \in Thieves, A!WeakRefresh(p)
    PROVE  ArrayInv' /\ UNCHANGED kind /\ (Served(p) \/ UNCHANGED takers)
  <1>0. p \in Procs /\ p # Owner
    BY OrderedAreProcs DEF Procs
  <1>a. PICK h \in Nat : h = regs[p].head
    BY <1>0, OneFacts
  <1>c. PICK seen \in Nat : seen = A!Larger(r[p], head)
    BY <1>0, OneFacts, MaxGiven
  <1>1. /\ pc[p] = "refresh"
        /\ r' = [r EXCEPT ![p] = A!Larger(seen, h + 1)]
        /\ IF h + 1 > seen
           THEN /\ pc' = [pc EXCEPT ![p] = "store"]
                /\ UNCHANGED <<regs, takers, lull>>
           ELSE /\ pc' = [pc EXCEPT ![p] = "idle"]
                /\ regs' = [regs EXCEPT
                              ![p] = [head |-> 0, arr |-> 1, cell |-> 0]]
                /\ A!Deliver(p)
        /\ UNCHANGED <<kind, head, arrays, claimed, tail, freed>>
    BY <1>a, <1>c DEF A!WeakRefresh, A!Return, A!NoRegs, A!Null, A!Goto,
                      A!modeVars, A!innerVars
  <1>2. /\ KindOK(p) /\ HeadsOK(p) /\ (p \in A!Ordered => OrderOK(p))
        /\ freed = <<0>> /\ Len(takers) \in Nat /\ head \in Nat /\ r[p] \in Nat
    BY <1>0, <1>1, OneFacts
  <1>b. /\ pc[p] \in Holding /\ A!IsWeak(p) /\ ~A!IsExclusive(p) /\ ~Won(p)
        /\ h + 1 \in Nat /\ h < Len(takers)
        /\ GivenOut(h) /\ GivenOut(head) /\ GivenOut(r[p])
    BY <1>0, <1>1, <1>2, <1>a
    DEF Holding, Busy, KindOK, HeadsOK, Won, A!IsWeak, A!IsExclusive, ArrayInv
  <1>d. GivenOut(seen) /\ r[p] <= seen
    BY <1>2, <1>b, <1>c, MaxGiven
  <1>e. \A j \in 1..Len(takers) : p \in takers[j] /\ p \in A!Ordered =>
           j <= r[p] /\ j <= h
    BY <1>2, <1>a, <1>b DEF OrderOK, Reach, Holding
  <1>3. \A q \in Thieves \ {p} : r'[q] = r[q]
    BY <1>1 DEF ArrayInv, ArrayTypes
  <1>4. r'[p] = A!Larger(seen, h + 1) /\ A!Larger(seen, h + 1) \in Nat
    BY <1>0, <1>1, <1>b, MaxGiven DEF ArrayInv, ArrayTypes
  <1>5. r' \in [Thieves -> Nat]
    BY <1>1, <1>4 DEF ArrayInv, ArrayTypes
  <1>6. CASE h + 1 > seen
    <2>1. /\ pc' = [pc EXCEPT ![p] = "store"]
          /\ UNCHANGED <<regs, takers, lull>>
      BY <1>1, <1>6
    <2>2. r'[p] = h + 1
      BY <1>4, <1>6, <1>b DEF A!Larger
    <2>3. /\ pc'[p] = "store" /\ regs'[p].head = h
          /\ \A q \in Procs \ {p} : pc'[q] = pc[q] /\ regs'[q] = regs[q]
      BY <1>0, <1>a, <2>1 DEF ArrayInv, ArrayTypes
    <2>4. ArrayTypes'
      <3>1. pc' \in [Procs -> {"idle", "put_store", "put_mark"} \cup Busy]
        BY <2>1 DEF ArrayInv, ArrayTypes, Busy
      <3>. QED BY <1>1, <1>5, <2>1, <3>1 DEF ArrayInv, ArrayTypes
    <2>5. Alone(p)
      BY <1>0, <1>1, <1>2, <1>3, <2>1, <2>3 DEF Alone
    <2>6. /\ GivenOut(head)' /\ ClaimsOK' /\ ClaimsKept'
          /\ claimed \subseteq claimed' /\ head <= head'
          /\ A!IsWeak(p)' <=> A!IsWeak(p)
      BY <1>0, <1>1, <2>1, Quiet
    <2>7. KindOK(p)' /\ LullOK(p)'
      BY <1>0, <1>b, <2>3, <2>6 DEF KindOK, LullOK
    <2>8. HeadsOK(p)'
      <3>1. GivenOut(regs[p].head)'
        BY <1>b, <2>1, <2>3 DEF GivenOut
      <3>. QED BY <1>b, <2>1, <2>2, <2>3, <3>1 DEF HeadsOK, Won
    <2>9. p \in A!Ordered => OrderOK(p)'
      BY <1>2, <1>b, <1>d, <1>e, <1>6, <2>1, <2>2, <2>3, <2>6
      DEF OrderOK, Reach
    <2>. QED BY <1>0, <1>1, <2>1, <2>4, <2>5, <2>6, <2>7, <2>8, <2>9, OneMoves
  <1>7. CASE ~(h + 1 > seen)
    <2>1. /\ pc' = [pc EXCEPT ![p] = "idle"]
          /\ regs' = [regs EXCEPT ![p] = [head |-> 0, arr |-> 1, cell |-> 0]]
          /\ A!Deliver(p)
      BY <1>1, <1>7
    <2>2. r'[p] = seen /\ h + 1 <= seen
      BY <1>4, <1>7, <1>b DEF A!Larger
    <2>3. /\ pc'[p] = "idle"
          /\ \A q \in Procs \ {p} : pc'[q] = pc[q] /\ regs'[q] = regs[q]
      BY <1>0, <2>1 DEF ArrayInv, ArrayTypes
    <2>4. ArrayTypes'
      <3>1. regs' \in [Procs -> [head : Nat, arr : Nat, cell : Nat]]
        BY <2>1 DEF ArrayInv, ArrayTypes
      <3>2. pc' \in [Procs -> {"idle", "put_store", "put_mark"} \cup Busy]
        BY <2>1 DEF ArrayInv, ArrayTypes
      <3>. QED BY <1>1, <1>5, <3>1, <3>2 DEF ArrayInv, ArrayTypes
    <2>5. /\ Gives(p) /\ Len(takers') = Len(takers)
          /\ \A j \in 1..Len(takers) :
                takers'[j] = IF j = h + 1 THEN takers[j] \cup {p} ELSE takers[j]
          /\ \A n \in Nat : GivenOut(n) => GivenOut(n)'
          /\ \A q \in Thieves \ {p} : q \in lull /\ pc[q] # "idle" => q \in lull'
      BY <1>0, <1>a, <1>b, <2>1, Delivers
    <2>6. Served(p)
      BY <1>0, <1>b, <2>1, Serves
    <2>7. Alone(p)
      BY <1>0, <1>1, <1>2, <1>3, <2>3, <2>5 DEF Alone
    <2>8. /\ ClaimsOK' /\ ClaimsKept' /\ claimed \subseteq claimed'
          /\ A!IsWeak(p)' <=> A!IsWeak(p)
      BY <1>0, <1>1, <1>b, <2>1, GiveClaims
    <2>9. GivenOut(head)' /\ GivenOut(r[p])' /\ head <= head'
      <3>1. PICK n \in Nat : n = head
        BY <1>2
      <3>2. GivenOut(n)' /\ GivenOut(seen)'
        BY <1>b, <1>d, <2>5, <3>1
      <3>. QED BY <1>1, <2>2, <3>1, <3>2 DEF GivenOut
    <2>10. KindOK(p)' /\ LullOK(p)'
      BY <2>3 DEF KindOK, LullOK, Busy
    <2>11. HeadsOK(p)'
      BY <2>3, <2>9 DEF HeadsOK, Won, Holding, Busy
    <2>12. p \in A!Ordered => OrderOK(p)'
      <3>. SUFFICES ASSUME p \in A!Ordered, NEW j \in 1..Len(takers),
                           p \in takers'[j]
                    PROVE  j <= seen
        BY <1>b, <2>2, <2>3, <2>5, <2>8 DEF OrderOK, Reach, Busy
      <3>1. j = h + 1 \/ p \in takers[j]
        BY <2>5
      <3>. QED BY <1>2, <1>d, <1>e, <2>2, <3>1
    <2>. QED BY <1>0, <1>1, <2>4, <2>5, <2>6, <2>7, <2>8, <2>9, <2>10, <2>11,
         <2>12, OneMoves
  <1>. QED BY <1>6, <1>7


LEMMA TakeReadInv ==
    ASSUME ArrayInv, A!TakeRead
    PROVE  ArrayInv' /\ UNCHANGED <<takers, kind>>
  <1>0. Owner \in Procs /\ Owner \notin Thieves
    BY OrderedAreProcs
  <1>1. /\ pc[Owner] = "idle" /\ freed = <<0>> /\ head < tail
        /\ pc' = [pc EXCEPT ![Owner] = "advance"]
        /\ regs' = [regs EXCEPT ![Owner].head = head,
                                ![Owner].cell = A!Active[head]]
        /\ UNCHANGED <<kind, head, arrays, claimed, tail, r, lull, takers,
                       freed>>
    BY DEF A!TakeRead, A!TakeBegins, A!Live, A!Null, A!Goto, A!modeVars,
       A!innerVars, A!historyVars
  <1>2. /\ KindOK(Owner) /\ (Owner \in A!Ordered => OrderOK(Owner))
        /\ head \in Nat /\ Len(takers) \in Nat /\ tail \in Nat
        /\ GivenOut(head)
    BY <1>0, OneFacts DEF ArrayInv, ArrayTypes
  <1>3. head < Len(takers) /\ A!Active[head] \in Nat
    <2>1. Len(takers) = tail /\ tail < A!LenOf(A!Active)
      BY <1>1 DEF ArrayInv, ArrayCells
    <2>2. A!Active \in Rows
      BY ActiveFacts DEF ArrayInv
    <2>3. head \in DOMAIN A!Active
      BY <1>1, <1>2, <2>1, <2>2, RowFacts
    <2>. QED BY <1>1, <2>1, <2>2, <2>3, RowFacts
  <1>4. /\ pc'[Owner] = "advance" /\ regs'[Owner].head = head
        /\ \A q \in Procs \ {Owner} : pc'[q] = pc[q] /\ regs'[q] = regs[q]
    BY <1>0, <1>1 DEF ArrayInv, ArrayTypes
  <1>5. ArrayTypes'
    <2>1. regs' \in [Procs -> [head : Nat, arr : Nat, cell : Nat]]
      BY <1>1, <1>2, <1>3 DEF ArrayInv, ArrayTypes
    <2>2. pc' \in [Procs -> {"idle", "put_store", "put_mark"} \cup Busy]
      BY <1>1 DEF ArrayInv, ArrayTypes, Busy
    <2>. QED BY <1>1, <2>1, <2>2 DEF ArrayInv, ArrayTypes
  <1>6. Alone(Owner)
    BY <1>0, <1>1, <1>4 DEF Alone
  <1>7. /\ GivenOut(head)' /\ ClaimsOK' /\ ClaimsKept'
        /\ claimed \subseteq claimed' /\ head <= head'
        /\ A!IsWeak(Owner)' <=> A!IsWeak(Owner)
    BY <1>0, <1>1, Quiet
  <1>8. KindOK(Owner)' /\ ~Won(Owner)' /\ ~Won(Owner) /\ ~A!IsWeak(Owner)
    BY <1>0, <1>4 DEF KindOK, Won, A!IsWeak, A!IsExclusive
  <1>9. HeadsOK(Owner)'
    <2>1. GivenOut(regs[Owner].head)'
      BY <1>1, <1>2, <1>4 DEF GivenOut
    <2>. QED BY <1>0, <1>1, <1>3, <1>4, <1>8, <2>1 DEF HeadsOK
  <1>10. Owner \in A!Ordered => OrderOK(Owner)'
    BY <1>1, <1>2, <1>4, <1>7, <1>8 DEF OrderOK, Reach
  <1>. QED BY <1>0, <1>1, <1>5, <1>6, <1>7, <1>8, <1>9, <1>10, OneMoves

\* A step that changes nothing but freed.
LEMMA Stays ==
    ASSUME ArrayInv, DropInv',
           UNCHANGED <<kind, head, arrays, claimed, tail, r, pc, regs, lull,
                       takers>>
    PROVE  ArrayInv'
  <1>1. ArrayTypes'
    BY DEF ArrayInv, ArrayTypes
  <1>3. /\ A!Ordered' = A!Ordered
        /\ \A q \in Procs : /\ A!IsWeak(q)' <=> A!IsWeak(q)
                            /\ A!IsExclusive(q)' <=> A!IsExclusive(q)
    BY Quiet
  <1>4. ClaimsOK' /\ ClaimsKept' /\ GivenOut(head)'
    BY Quiet
  <1>5. TakersOK'
    BY DEF ArrayInv, TakersOK
  <1>6. ArrayCells'
    BY DEF ArrayInv, ArrayCells, A!Active, A!LenOf
  <1>7. \A p \in Procs : Won(p)' <=> Won(p)
    BY <1>3 DEF Won
  <1>8. \A p \in Procs : KindOK(p)'
    BY <1>3 DEF ArrayInv, KindOK
  <1>9. ASSUME NEW p \in Procs PROVE HeadsOK(p)'
    <2>1. /\ GivenOut(regs[p].head)' <=> GivenOut(regs[p].head)
          /\ GivenOut(r[p])' <=> GivenOut(r[p])
      BY DEF GivenOut
    <2>2. HeadsOK(p)
      BY DEF ArrayInv
    <2>. QED BY <1>7, <2>1, <2>2 DEF HeadsOK
  <1>10. \A p \in A!Ordered : OrderOK(p)'
    BY <1>3, <1>7, OrderedAreProcs DEF ArrayInv, OrderOK, Reach
  <1>11. \A p \in Thieves : LullOK(p)'
    BY DEF ArrayInv, LullOK
  <1>. QED BY <1>1, <1>3, <1>4, <1>5, <1>6, <1>8, <1>9, <1>10, <1>11
       DEF ArrayInv

\* The owner's steps of a put: a thief keeps what it has in sight.
LEMMA OwnerPuts ==
    ASSUME ArrayInv, A!Live, ArrayTypes', ArrayCells',
           pc[Owner] \in {"idle", "put_store", "put_mark"},
           pc'[Owner] \in {"idle", "put_store", "put_mark"},
           \A q \in Thieves : pc'[q] = pc[q] /\ regs'[q] = regs[q],
           UNCHANGED <<kind, head, claimed, r, lull, freed>>,
           takers' = Append(takers, {}) \/ UNCHANGED takers,
           Len(arrays) <= Len(arrays'),
           \A a \in 1..Len(arrays) : \A i \in DOMAIN arrays[a] :
              /\ i \in DOMAIN arrays'[a]
              /\ arrays[a][i] # 0 => arrays'[a][i] # 0
    PROVE  ArrayInv'
  <1>1. /\ TakersOK' /\ Len(takers) <= Len(takers') /\ Len(takers) \in Nat
        /\ Len(takers') \in Nat
        /\ \A j \in 1..Len(takers) : takers'[j] = takers[j]
        /\ \A j \in 1..Len(takers') : j \in 1..Len(takers) \/ takers'[j] = {}
        /\ \A n \in Nat : GivenOut(n) => GivenOut(n)'
    <2>1. TakersOK /\ Len(takers) \in Nat
      BY DEF ArrayInv, TakersOK
    <2>2. CASE takers' = Append(takers, {})
      <3>1. /\ TakersOK' /\ Len(takers') = Len(takers) + 1
            /\ \A j \in 1..Len(takers) : takers'[j] = takers[j]
            /\ takers'[Len(takers) + 1] = {}
        BY <2>1, <2>2, AddTask
      <3>2. \A n \in Nat : GivenOut(n) => GivenOut(n)'
        BY <2>1, <2>2, AddTask
      <3>3. \A j \in 1..Len(takers') : j \in 1..Len(takers) \/ j = Len(takers) + 1
        BY <2>1, <3>1
      <3>. QED BY <2>1, <3>1, <3>2, <3>3
    <2>3. CASE UNCHANGED takers
      BY <2>1, <2>3 DEF GivenOut, TakersOK
    <2>. QED BY <2>2, <2>3
  <1>2. /\ A!Ordered' = A!Ordered /\ A!Exclusive' = A!Exclusive
        /\ \A q \in Procs : /\ A!IsWeak(q)' <=> A!IsWeak(q)
                            /\ A!IsExclusive(q)' <=> A!IsExclusive(q)
    BY DEF A!Ordered, A!Exclusive, A!IsWeak, A!IsExclusive, A!Procs
  <1>3. DropInv'
    BY DEF DropInv, A!Live, A!Null
  <1>4. GivenOut(head)'
    <2>1. PICK n \in Nat : n = head
      BY DEF ArrayInv, ArrayTypes
    <2>2. GivenOut(n)'
      BY <1>1, <2>1 DEF ArrayInv
    <2>. QED BY <2>1, <2>2 DEF GivenOut
  <1>5. ClaimsOK'
    <2>1. \A c \in claimed : c \in Nat /\ c < Len(takers) /\ takers[c + 1] # {}
      BY DEF ArrayInv, ClaimsOK, ArrayTypes
    <2>2. \A c \in claimed : c + 1 \in 1..Len(takers) /\ c < Len(takers')
      BY <1>1, <2>1
    <2>3. \A c \in claimed : takers'[c + 1] # {}
      BY <1>1, <2>1, <2>2
    <2>. QED BY <2>2, <2>3 DEF ClaimsOK
  <1>6. ClaimsKept'
    BY <1>1, <1>2 DEF ArrayInv, ClaimsKept
  <1>7. Owner \in Procs /\ Owner \notin Thieves /\ ~A!IsWeak(Owner)
        /\ pc'[Owner] \notin Busy /\ ~Won(Owner) /\ ~Won(Owner)'
        /\ pc[Owner] \notin Busy
    BY OrderedAreProcs DEF Busy, Won, A!IsWeak, A!IsExclusive
  <1>8. \A q \in Procs : q = Owner \/ q \in Thieves
    BY DEF Procs
  <1>9. ASSUME NEW q \in Procs PROVE KindOK(q)' /\ HeadsOK(q)'
    <2>1. CASE q = Owner
      <3>1. pc'[q] \notin {"claim", "nudge", "refresh", "store", "advance"}
        BY <1>7, <2>1 DEF Busy
      <3>. QED BY <1>7, <2>1, <3>1 DEF KindOK, HeadsOK, Holding
    <2>2. CASE q \in Thieves
      <3>1. /\ KindOK(q) /\ HeadsOK(q)
            /\ pc'[q] = pc[q] /\ regs'[q] = regs[q] /\ r'[q] = r[q]
            /\ Won(q)' <=> Won(q)
        BY <1>2, <2>2 DEF ArrayInv, Won
      <3>2. KindOK(q)'
        BY <1>2, <3>1 DEF KindOK
      <3>3. PICK n \in Nat, m \in Nat : n = regs[q].head /\ m = r[q]
        BY <2>2, OneFacts
      <3>4. /\ GivenOut(n) => GivenOut(n)'
            /\ GivenOut(m) => GivenOut(m)'
            /\ n < Len(takers) => n < Len(takers')
        BY <1>1, <3>3
      <3>5. /\ GivenOut(regs[q].head) => GivenOut(regs[q].head)'
            /\ GivenOut(r[q]) => GivenOut(r[q])'
            /\ regs[q].head < Len(takers) => regs'[q].head < Len(takers')
        <4>1. regs'[q].head = n /\ r'[q] = m
          BY <3>1, <3>3
        <4>2. GivenOut(regs[q].head) => GivenOut(regs[q].head)'
          BY <3>3, <3>4, <4>1 DEF GivenOut
        <4>3. GivenOut(r[q]) => GivenOut(r[q])'
          BY <3>3, <3>4, <4>1 DEF GivenOut
        <4>. QED BY <3>3, <3>4, <4>1, <4>2, <4>3
      <3>. QED BY <1>1, <2>2, <3>1, <3>2, <3>5 DEF HeadsOK
    <2>. QED BY <1>8, <2>1, <2>2
  <1>10. ASSUME NEW q \in A!Ordered PROVE OrderOK(q)'
    <2>1. /\ q \in Procs /\ OrderOK(q) /\ (Won(q)' <=> Won(q))
          /\ Reach(q)' = Reach(q)
      BY <1>2, <1>7, <1>8, OrderedAreProcs
      DEF ArrayInv, Won, Reach, A!IsWeak
    <2>2. pc'[q] \in Busy => pc[q] \in Busy /\ regs'[q] = regs[q]
      BY <1>7, <1>8, <2>1
    <2>3. \A j \in 1..Len(takers') : q \in takers'[j] =>
             j \in 1..Len(takers) /\ q \in takers[j]
      BY <1>1
    <2>. QED BY <2>1, <2>2, <2>3 DEF OrderOK
  <1>11. ASSUME NEW q \in Thieves PROVE LullOK(q)'
    <2>1. LullOK(q) /\ pc'[q] = pc[q] /\ regs'[q] = regs[q]
      BY DEF ArrayInv
    <2>2. regs[q].head \in Nat /\ Len(arrays) \in Nat /\ Len(arrays') \in Nat
      BY <1>8, ActiveFacts, OneFacts DEF ArrayInv, Procs, ArrayTypes
    <2>3. CASE pc[q] = "load_array"
      <3>1. q \in lull \/ regs[q].head < Len(takers)
        BY <2>1, <2>3 DEF LullOK
      <3>2. q \in lull' \/ regs'[q].head < Len(takers')
        BY <1>1, <2>1, <2>2, <3>1
      <3>. QED BY <2>1, <2>3, <3>2 DEF LullOK
    <2>4. CASE pc[q] = "read_cell"
      <3>1. /\ regs[q].arr \in 1..Len(arrays)
            /\ regs[q].arr \in 1..Len(arrays')
        BY <2>1, <2>2, <2>4 DEF LullOK
      <3>. QED BY <2>1, <2>4, <3>1 DEF LullOK
    <2>. QED BY <2>1, <2>3, <2>4 DEF LullOK
  <1>. QED BY <1>1, <1>2, <1>3, <1>4, <1>5, <1>6, <1>9, <1>10, <1>11
       DEF ArrayInv

\* A store of the owner in a cell of the active array.
LEMMA SetCell ==
    ASSUME ArrayTypes, NEW c \in DOMAIN A!Active, NEW v \in Nat,
           arrays' = [arrays EXCEPT ![Len(arrays)][c] = v]
    PROVE  /\ arrays' \in Seq(Rows) /\ arrays' # <<>>
           /\ Len(arrays') = Len(arrays)
           /\ \A a \in 1..Len(arrays) : a # Len(arrays) => arrays'[a] = arrays[a]
           /\ A!Active' = [A!Active EXCEPT ![c] = v]
           /\ arrays'[Len(arrays)] = A!Active'
           /\ DOMAIN A!Active' = DOMAIN A!Active
           /\ A!LenOf(A!Active)' = A!LenOf(A!Active)
  <1>1. PICK n \in Nat \ {0} : n = Len(arrays)
    BY ActiveFacts
  <1>2. /\ A!Active = arrays[n] /\ A!Active \in Rows
        /\ DOMAIN arrays = 1..n /\ n \in 1..n
    BY <1>1, ActiveFacts
  <1>3. PICK row \in Rows : row = A!Active
    BY <1>2
  <1>4. [row EXCEPT ![c] = v] \in Rows
    <2>1. PICK m \in Nat \ {0} : row \in [0..m - 1 -> Nat]
      BY DEF Rows
    <2>2. [row EXCEPT ![c] = v] \in [0..m - 1 -> Nat]
      BY <1>3, <2>1
    <2>. QED BY <2>2 DEF Rows
  <1>5. arrays' = [arrays EXCEPT ![n] = [row EXCEPT ![c] = v]]
    BY <1>1, <1>2, <1>3
  <1>6. arrays' \in Seq(Rows) /\ Len(arrays') = n
    <2>1. PICK new \in Rows : new = [row EXCEPT ![c] = v]
      BY <1>4
    <2>2. arrays' = [arrays EXCEPT ![n] = new] /\ n \in 1..Len(arrays)
      BY <1>1, <1>2, <1>5, <2>1
    <2>3. [arrays EXCEPT ![n] = new] \in Seq(Rows)
      BY <2>2, ExceptSeq DEF ArrayTypes
    <2>4. Len([arrays EXCEPT ![n] = new]) = Len(arrays)
      BY <2>2, ExceptSeq DEF ArrayTypes
    <2>. QED BY <1>1, <2>2, <2>3, <2>4
  <1>7. /\ arrays'[n] = [row EXCEPT ![c] = v]
        /\ \A a \in 1..n : a # n => arrays'[a] = arrays[a]
    BY <1>2, <1>5
  <1>8. A!Active' = [row EXCEPT ![c] = v]
    BY <1>6, <1>7 DEF A!Active
  <1>9. DOMAIN A!Active' = DOMAIN A!Active
    BY <1>3, <1>8
  <1>10. A!LenOf(A!Active)' = A!LenOf(A!Active)
    BY <1>9 DEF A!LenOf, A!Cardinality
  <1>11. arrays' # <<>>
    BY <1>6
  <1>. QED BY <1>1, <1>3, <1>6, <1>7, <1>8, <1>9, <1>10, <1>11


\* The cells of an array that has just been grown.
LEMMA GrowFacts ==
    ASSUME NEW old \in Rows
    PROVE  /\ A!Copied(old) \in Rows
           /\ A!LenOf(A!Copied(old)) = 2 * A!LenOf(old)
           /\ \A i \in DOMAIN A!Copied(old) :
                 A!Copied(old)[i] = IF i \in DOMAIN old THEN old[i] ELSE 0
  <1>1. PICK n \in Nat \ {0} : n = A!LenOf(old)
    BY RowFacts
  <1>2. /\ \A i \in DOMAIN old : old[i] \in Nat
        /\ DOMAIN old = 0..n - 1
    BY <1>1, RowFacts
  <1>3. PICK m \in Nat \ {0} : m = 2 * n
    OBVIOUS
  <1>4. A!Copied(old) = [i \in 0..m - 1 |-> IF i \in DOMAIN old THEN old[i] ELSE 0]
    BY <1>1, <1>3 DEF A!Copied, A!Null
  <1>5. A!Copied(old) \in [0..m - 1 -> Nat]
    BY <1>2, <1>4
  <1>6. A!Copied(old) \in Rows
    BY <1>5 DEF Rows
  <1>7. A!LenOf(A!Copied(old)) = m
    <2>1. PICK k \in Nat \ {0} : /\ k = A!LenOf(A!Copied(old))
                                 /\ DOMAIN A!Copied(old) = 0..k - 1
      BY <1>6, RowFacts
    <2>2. 0..k - 1 = 0..m - 1
      BY <1>5, <2>1
    <2>3. k - 1 \in 0..m - 1 /\ m - 1 \in 0..k - 1
      <3>1. k - 1 \in 0..k - 1 /\ m - 1 \in 0..m - 1
        OBVIOUS
      <3>. QED BY <2>2, <3>1
    <2>. QED BY <2>1, <2>3
  <1>. QED BY <1>1, <1>3, <1>4, <1>6, <1>7

LEMMA PutGrowInv ==
    ASSUME ArrayInv, A!PutGrow
    PROVE  ArrayInv' /\ UNCHANGED <<takers, kind>>
  <1>0. Owner \in Procs /\ Owner \notin Thieves
    BY OrderedAreProcs
  <1>1. /\ pc[Owner] = "idle" /\ freed = <<0>> /\ tail < MaxArray
        /\ arrays' = Append(arrays, A!Copied(A!Active))
        /\ pc' = [pc EXCEPT ![Owner] = "put_store"]
        /\ UNCHANGED <<kind, head, claimed, tail, regs, r, lull, takers, freed>>
    BY DEF A!PutGrow, A!PutStarts, A!Live, A!Null, A!Goto, A!modeVars,
       A!historyVars
  <1>2. PICK old \in Rows : old = A!Active
    BY ActiveFacts DEF ArrayInv
  <1>3. PICK len \in Nat \ {0} : len = A!LenOf(old) /\ DOMAIN old = 0..len - 1
    BY RowFacts
  <1>4. PICK new \in Rows : new = A!Copied(old)
    BY GrowFacts
  <1>5. /\ A!LenOf(new) = 2 * len /\ DOMAIN new = 0..2 * len - 1
        /\ \A i \in DOMAIN new : new[i] = IF i \in DOMAIN old THEN old[i] ELSE 0
    BY <1>3, <1>4, GrowFacts, RowFacts
  <1>6. /\ arrays' \in Seq(Rows) /\ Len(arrays') = Len(arrays) + 1
        /\ \A a \in 1..Len(arrays) : arrays'[a] = arrays[a]
        /\ arrays'[Len(arrays) + 1] = new
        /\ Len(arrays) \in Nat \ {0}
    <2>1. arrays \in Seq(Rows) /\ Len(arrays) \in Nat \ {0}
      BY ActiveFacts DEF ArrayInv, ArrayTypes
    <2>. QED BY <1>1, <1>2, <1>4, <2>1, AppendProperties
  <1>7. A!Active' = new
    BY <1>6 DEF A!Active
  <1>8. ArrayTypes'
    <2>1. pc' \in [Procs -> {"idle", "put_store", "put_mark"} \cup Busy]
      BY <1>1 DEF ArrayInv, ArrayTypes
    <2>2. arrays' # <<>>
      BY <1>6
    <2>. QED BY <1>1, <1>6, <2>1, <2>2 DEF ArrayInv, ArrayTypes
  <1>9. pc'[Owner] = "put_store" /\ \A q \in Thieves : pc'[q] = pc[q]
    BY <1>0, <1>1 DEF ArrayInv, ArrayTypes
  <1>a. /\ Len(takers) = tail /\ tail \in Nat /\ tail < len
        /\ Len(takers) <= MaxArray
        /\ \A i \in DOMAIN old : old[i] = IF i < tail THEN i + 1 ELSE 0
        /\ \A a \in 1..Len(arrays) : \A i \in DOMAIN arrays[a] :
              arrays[a][i] # 0 => i < tail
    BY <1>1, <1>2, <1>3 DEF ArrayInv, ArrayCells, ArrayTypes
  <1>b. \A i \in DOMAIN new : new[i] = IF i < tail THEN i + 1 ELSE 0
    <2>. SUFFICES ASSUME NEW i \in DOMAIN new
                  PROVE  new[i] = IF i < tail THEN i + 1 ELSE 0
      OBVIOUS
    <2>1. i \in Nat
      BY <1>5
    <2>2. CASE i \in DOMAIN old
      BY <1>5, <1>a, <2>2
    <2>3. CASE i \notin DOMAIN old
      BY <1>3, <1>5, <1>a, <2>1, <2>3
    <2>. QED BY <2>2, <2>3
  <1>c. ArrayCells'
    <2>1. A!LenOf(A!Active)' = 2 * len
      BY <1>5, <1>7 DEF A!LenOf, A!Cardinality
    <2>2. tail < 2 * len /\ tail + 1 < 2 * len
      BY <1>a
    <2>3. \A a \in 1..Len(arrays') : \A i \in DOMAIN arrays'[a] :
             arrays'[a][i] # 0 => i < tail
      <3>1. \A a \in 1..Len(arrays') :
               a \in 1..Len(arrays) \/ a = Len(arrays) + 1
        BY <1>6
      <3>2. \A i \in DOMAIN new : new[i] # 0 => i < tail
        BY <1>b
      <3>. QED BY <1>6, <1>a, <3>1, <3>2
    <2>. QED BY <1>1, <1>7, <1>9, <1>a, <1>b, <2>1, <2>2, <2>3 DEF ArrayCells
  <1>d. /\ Len(arrays) <= Len(arrays')
        /\ \A a \in 1..Len(arrays) : \A i \in DOMAIN arrays[a] :
              /\ i \in DOMAIN arrays'[a]
              /\ arrays[a][i] # 0 => arrays'[a][i] # 0
    BY <1>6
  <1>. QED BY <1>1, <1>8, <1>9, <1>c, <1>d, OwnerPuts
       DEF A!Live, A!Null

LEMMA PutStoreInv ==
    ASSUME ArrayInv, A!PutStore
    PROVE  /\ ArrayInv' /\ UNCHANGED kind /\ Len(takers) < MaxArray
           /\ takers' = Append(takers, {})
  <1>0. Owner \in Procs /\ Owner \notin Thieves /\ MaxArray \in Nat
    BY OrderedAreProcs, RelaxedAssumption DEF A!IdempotentAssumption
  <1>1. /\ arrays' = [arrays EXCEPT ![Len(arrays)][tail] = tail + 1]
        /\ takers' = Append(takers, {})
        /\ pc' = [pc EXCEPT ![Owner] = "put_mark"]
        /\ UNCHANGED <<kind, head, claimed, tail, regs, r, lull, freed>>
    BY DEF A!PutStore, A!Goto, A!modeVars
  <1>2. /\ pc[Owner] \in {"idle", "put_store"} /\ freed = <<0>>
        /\ tail < MaxArray /\ tail + 1 < A!LenOf(A!Active)
    <2>1. CASE pc[Owner] = "put_store"
      BY <1>0, <2>1, OneFacts DEF ArrayInv, ArrayCells
    <2>2. CASE A!PutStarts /\ ~A!MustGrow
      <3>1. A!LenOf(A!Active) \in Nat /\ tail \in Nat
        BY ActiveFacts, RowFacts DEF ArrayInv, ArrayTypes
      <3>. QED BY <2>2, <3>1 DEF A!PutStarts, A!Live, A!Null, A!MustGrow
    <2>. QED BY <2>1, <2>2 DEF A!PutStore
  <1>3. PICK len \in Nat \ {0} : /\ len = A!LenOf(A!Active)
                                 /\ DOMAIN A!Active = 0..len - 1
    BY ActiveFacts, RowFacts DEF ArrayInv
  <1>4. /\ Len(takers) = tail /\ tail \in Nat /\ tail \in DOMAIN A!Active
        /\ \A i \in DOMAIN A!Active : A!Active[i] = IF i < tail THEN i + 1 ELSE 0
        /\ \A a \in 1..Len(arrays) : \A i \in DOMAIN arrays[a] :
              arrays[a][i] # 0 => i < tail
    BY <1>2, <1>3 DEF ArrayInv, ArrayCells, ArrayTypes
  <1>5. /\ arrays' \in Seq(Rows) /\ arrays' # <<>>
        /\ Len(arrays') = Len(arrays)
        /\ \A a \in 1..Len(arrays) : a # Len(arrays) => arrays'[a] = arrays[a]
        /\ A!Active' = [A!Active EXCEPT ![tail] = tail + 1]
        /\ arrays'[Len(arrays)] = A!Active'
        /\ DOMAIN A!Active' = DOMAIN A!Active
        /\ A!LenOf(A!Active)' = A!LenOf(A!Active)
    <2>1. PICK v \in Nat : v = tail + 1
      BY <1>4
    <2>2. arrays' = [arrays EXCEPT ![Len(arrays)][tail] = v] /\ ArrayTypes
      BY <1>1, <2>1 DEF ArrayInv
    <2>. QED BY <1>4, <2>1, <2>2, SetCell
  <1>6. /\ Len(arrays) \in Nat \ {0} /\ A!Active = arrays[Len(arrays)]
        /\ \A a \in 1..Len(arrays) : \A i \in DOMAIN arrays[a] : i \in Nat
    <2>1. /\ Len(arrays) \in Nat \ {0} /\ A!Active = arrays[Len(arrays)]
          /\ \A a \in 1..Len(arrays) : arrays[a] \in Rows
      BY ActiveFacts DEF ArrayInv
    <2>2. \A row \in Rows : \A i \in DOMAIN row : i \in Nat
      BY RowFacts
    <2>. QED BY <2>1, <2>2
  <1>7. Len(takers') = tail + 1
    BY <1>1, <1>4, AddTask DEF ArrayInv
  <1>8. ArrayTypes'
    <2>1. pc' \in [Procs -> {"idle", "put_store", "put_mark"} \cup Busy]
      BY <1>1 DEF ArrayInv, ArrayTypes
    <2>. QED BY <1>1, <1>5, <2>1 DEF ArrayInv, ArrayTypes
  <1>9. pc'[Owner] = "put_mark" /\ \A q \in Thieves : pc'[q] = pc[q]
    BY <1>0, <1>1 DEF ArrayInv, ArrayTypes
  <1>a. \A i \in DOMAIN A!Active :
           /\ A!Active'[i] = IF i < tail + 1 THEN i + 1 ELSE 0
           /\ A!Active[i] # 0 => A!Active'[i] # 0
    <2>. SUFFICES ASSUME NEW i \in DOMAIN A!Active
                  PROVE  /\ A!Active'[i] = IF i < tail + 1 THEN i + 1 ELSE 0
                         /\ A!Active[i] # 0 => A!Active'[i] # 0
      OBVIOUS
    <2>1. A!Active'[i] = IF i = tail THEN tail + 1 ELSE A!Active[i]
      BY <1>5
    <2>2. i \in Nat
      BY <1>3
    <2>. QED BY <1>4, <2>1, <2>2
  <1>b. \A a \in 1..Len(arrays) : \A i \in DOMAIN arrays[a] :
           /\ i \in DOMAIN arrays'[a]
           /\ arrays[a][i] # 0 => arrays'[a][i] # 0
           /\ i \in Nat
    <2>. SUFFICES ASSUME NEW a \in 1..Len(arrays), NEW i \in DOMAIN arrays[a]
                  PROVE  /\ i \in DOMAIN arrays'[a]
                         /\ arrays[a][i] # 0 => arrays'[a][i] # 0
                         /\ i \in Nat
      OBVIOUS
    <2>1. CASE a = Len(arrays)
      BY <1>5, <1>6, <1>a, <2>1
    <2>2. CASE a # Len(arrays)
      BY <1>5, <1>6, <2>2
    <2>. QED BY <2>1, <2>2
  <1>c. ArrayCells'
    <2>1. \A i \in DOMAIN A!Active' :
             A!Active'[i] = IF i < tail + 1 THEN i + 1 ELSE 0
      BY <1>5, <1>a
    <2>2. \A a \in 1..Len(arrays) : \A i \in DOMAIN arrays'[a] :
             arrays'[a][i] # 0 => i < tail + 1
      <3>. SUFFICES ASSUME NEW a \in 1..Len(arrays), NEW i \in DOMAIN arrays'[a],
                           arrays'[a][i] # 0
                    PROVE  i < tail + 1
        OBVIOUS
      <3>1. CASE a = Len(arrays)
        BY <1>5, <2>1, <3>1
      <3>2. CASE a # Len(arrays)
        <4>1. i < tail /\ i \in Nat
          BY <1>4, <1>5, <1>6, <3>2
        <4>. QED BY <1>4, <4>1
      <3>. QED BY <3>1, <3>2
    <2>3. tail < A!LenOf(A!Active)
      BY <1>2, <1>3, <1>4
    <2>4. tail + 1 <= MaxArray
      BY <1>0, <1>2, <1>4
    <2>. QED BY <1>1, <1>2, <1>5, <1>7, <1>9, <2>1, <2>2, <2>3, <2>4
         DEF ArrayCells
  <1>d. Len(arrays) <= Len(arrays')
    BY <1>5, <1>6
  <1>e. ArrayInv'
    <2>1. \A q \in Thieves : pc'[q] = pc[q] /\ regs'[q] = regs[q]
      BY <1>1, <1>9
    <2>2. pc'[Owner] \in {"idle", "put_store", "put_mark"}
      BY <1>9
    <2>. QED BY <1>1, <1>2, <1>8, <1>b, <1>c, <1>d, <2>1, <2>2, OwnerPuts
       DEF A!Live, A!Null
  <1>. QED BY <1>1, <1>2, <1>4, <1>e


LEMMA PutMarkInv ==
    ASSUME ArrayInv, A!PutMark
    PROVE  ArrayInv' /\ UNCHANGED <<takers, kind>>
  <1>0. Owner \in Procs /\ Owner \notin Thieves
    BY OrderedAreProcs
  <1>1. /\ pc[Owner] = "put_mark"
        /\ arrays' = [arrays EXCEPT ![Len(arrays)][tail + 1] = 0]
        /\ tail' = tail + 1
        /\ pc' = [pc EXCEPT ![Owner] = "idle"]
        /\ regs' = [regs EXCEPT ![Owner] = [head |-> 0, arr |-> 1, cell |-> 0]]
        /\ UNCHANGED <<kind, head, claimed, r, lull, takers, freed>>
    BY DEF A!PutMark, A!Return, A!NoRegs, A!Null, A!Goto, A!modeVars,
       A!historyVars
  <1>2. PICK n \in Nat \ {0}, row \in Rows :
           n = Len(arrays) /\ row = A!Active /\ row = arrays[n]
    BY ActiveFacts DEF ArrayInv
  <1>3. /\ tail \in Nat /\ tail + 1 < A!LenOf(row) /\ Len(takers) = tail + 1
        /\ \A i \in DOMAIN row : row[i] = IF i < tail + 1 THEN i + 1 ELSE 0
    BY <1>1, <1>2 DEF ArrayInv, ArrayCells, ArrayTypes
  <1>4. tail + 1 \in DOMAIN row /\ row[tail + 1] = 0
    <2>1. tail + 1 \in DOMAIN row
      BY <1>3, RowFacts
    <2>. QED BY <1>3, <2>1
  <1>5. [row EXCEPT ![tail + 1] = 0] = row
    <2>1. row = [i \in DOMAIN row |-> row[i]]
      BY DEF Rows
    <2>. QED BY <1>4, <2>1
  <1>6. arrays' = arrays
    <2>1. arrays' = [arrays EXCEPT ![n] = [row EXCEPT ![tail + 1] = 0]]
      BY <1>1, <1>2
    <2>2. arrays = [i \in DOMAIN arrays |-> arrays[i]]
      BY LenProperties DEF ArrayInv, ArrayTypes
    <2>. QED BY <1>2, <1>5, <2>1, <2>2
  <1>7. ArrayTypes'
    <2>1. pc' \in [Procs -> {"idle", "put_store", "put_mark"} \cup Busy]
      BY <1>1 DEF ArrayInv, ArrayTypes
    <2>2. regs' \in [Procs -> [head : Nat, arr : Nat, cell : Nat]]
      BY <1>1 DEF ArrayInv, ArrayTypes
    <2>3. tail' \in Nat
      BY <1>1, <1>3
    <2>4. ArrayTypes
      BY DEF ArrayInv
    <2>5. arrays' \in Seq(Rows) /\ arrays' # <<>>
      BY <1>6, <2>4 DEF ArrayTypes
    <2>6. /\ kind' \in [Thieves -> A!Kinds] /\ head' \in Nat
          /\ claimed' \subseteq Nat /\ r' \in [Thieves -> Nat]
      BY <1>1, <2>4 DEF ArrayTypes, A!Kinds
    <2>. QED BY <2>1, <2>2, <2>3, <2>5, <2>6 DEF ArrayTypes, A!Kinds
  <1>8. /\ pc'[Owner] = "idle"
        /\ \A q \in Thieves : pc'[q] = pc[q] /\ regs'[q] = regs[q]
    BY <1>0, <1>1 DEF ArrayInv, ArrayTypes, Procs
  <1>9. ArrayCells'
    <2>1. A!Active' = A!Active /\ A!LenOf(A!Active)' = A!LenOf(A!Active)
      BY <1>6 DEF A!Active, A!LenOf, A!Cardinality
    <2>. QED BY <1>1, <1>2, <1>3, <1>6, <1>8, <2>1 DEF ArrayInv, ArrayCells
  <1>10. Len(arrays) <= Len(arrays')
    BY <1>2, <1>6
  <1>11. freed = <<0>>
    BY <1>0, <1>1, OneFacts
  <1>. QED BY <1>1, <1>6, <1>7, <1>8, <1>9, <1>10, <1>11, OwnerPuts
       DEF A!Live, A!Null

LEMMA ArrayDrop ==
    ASSUME ArrayInv, A!Drop
    PROVE  ArrayInv' /\ UNCHANGED <<takers, kind>>
  <1>1. /\ \A p \in Procs : pc[p] = "idle"
        /\ freed' = A!TasksIn(A!Active)
        /\ UNCHANGED <<kind, head, arrays, claimed, tail, r, pc, regs, lull,
                       takers>>
    BY DEF A!Drop, A!Procs, Procs, A!modeVars, A!innerVars, A!localVars
  <1>2. PICK N \in Nat, row \in Rows :
           row = A!Active /\ N = A!LenOf(row) /\ DOMAIN row = 0..N - 1
    BY ActiveFacts, RowFacts DEF ArrayInv
  <1>3. PICK T \in 0..N : T = Len(takers)
    <2>1. Owner \in Procs
      BY DEF Procs
    <2>2. Len(takers) \in Nat /\ Len(takers) < N
      BY <1>1, <1>2, <2>1 DEF ArrayInv, ArrayCells, ArrayTypes
    <2>. QED BY <2>2
  <1>4. \A i \in 0..N - 1 : row[i] = IF i < T THEN i + 1 ELSE 0
    BY <1>2, <1>3 DEF ArrayInv, ArrayCells
  <1>5. PICK F : F = CHOOSE f : f = [i \in 0..N |-> Scanned(f, row, i)]
    OBVIOUS
  <1>6. F[N] = Upto(T)
    BY <1>4, <1>5, ScanFacts
  <1>7. A!TasksIn(row) = F[N]
    BY <1>2, <1>5 DEF A!TasksIn, A!Null, Scanned
  <1>8. DropInv'
    BY <1>1, <1>2, <1>3, <1>6, <1>7 DEF DropInv
  <1>. QED BY <1>1, <1>8, Stays

LEMMA ArrayInit == A!Init => ArrayInv
  <1>. SUFFICES ASSUME A!Init PROVE ArrayInv
    OBVIOUS
  <1>1. PICK n \in Nat \ {0} : arrays = <<[i \in 0..n - 1 |-> 0]>>
    <2>1. Capacity + 2 \in Nat \ {0} /\ InitLen \in Nat \ {0}
      BY RelaxedAssumption DEF A!IdempotentAssumption
    <2>. QED BY <2>1 DEF A!Init, A!WithLen, A!Null
  <1>2. PICK row \in Rows : row = [i \in 0..n - 1 |-> 0] /\ arrays = <<row>>
    <2>1. [i \in 0..n - 1 |-> 0] \in [0..n - 1 -> Nat]
      OBVIOUS
    <2>. QED BY <1>1, <2>1 DEF Rows
  <1>3. /\ arrays \in Seq(Rows) /\ arrays # <<>> /\ Len(arrays) = 1
        /\ arrays[1] = row /\ A!Active = row
    BY <1>2 DEF A!Active
  <1>4. /\ kind \in [Thieves -> A!Kinds] /\ head = 0 /\ tail = 0
        /\ claimed = {} /\ r = [p \in Thieves |-> 0]
        /\ pc = [p \in Procs |-> "idle"]
        /\ regs = [p \in Procs |-> [head |-> 0, arr |-> 1, cell |-> 0]]
        /\ takers = <<>> /\ freed = <<0>>
    BY DEF A!Init, A!NoRegs, A!Null, A!Procs, Procs
  <1>5. ArrayTypes
    BY <1>3, <1>4 DEF ArrayTypes
  <1>6. TakersOK /\ Len(takers) = 0 /\ DropInv
    BY <1>4 DEF TakersOK, DropInv
  <1>7. ArrayCells
    <2>1. A!LenOf(row) \in Nat \ {0}
      BY RowFacts
    <2>2. pc[Owner] = "idle"
      BY <1>4 DEF Procs
    <2>3. \A i \in DOMAIN row : row[i] = 0 /\ i \in Nat
      BY <1>2
    <2>4. MaxArray \in Nat
      BY RelaxedAssumption DEF A!IdempotentAssumption
    <2>. QED BY <1>3, <1>4, <1>6, <2>1, <2>2, <2>3, <2>4 DEF ArrayCells
  <1>8. GivenOut(0) /\ ClaimsOK /\ ClaimsKept
    BY <1>4, <1>6 DEF GivenOut, ClaimsOK, ClaimsKept
  <1>9. \A p \in Procs : KindOK(p) /\ HeadsOK(p)
    BY <1>4, <1>8 DEF KindOK, HeadsOK, Won, Busy, Holding
  <1>10. \A p \in A!Ordered : OrderOK(p)
    BY <1>6 DEF OrderOK
  <1>11. \A p \in Thieves : LullOK(p)
    BY <1>4 DEF LullOK, Procs
  <1>. QED BY <1>4, <1>5, <1>6, <1>7, <1>8, <1>9, <1>10, <1>11 DEF ArrayInv


-----------------------------------------------------------------------------
(* The array keeps its invariant and the promise.                          *)

LEMMA ArrayStep ==
    ASSUME ArrayInv, store = "array", InArray, A!Next
    PROVE  ArrayInv' /\ [Queue!RelaxedNext]_(Queue!relaxedVars)
  <1>0. TakersOK /\ Len(takers) <= MaxPut /\ Owner \in Procs
    <2>1. Len(takers) <= MaxArray /\ MaxArray <= MaxPut
      BY RelaxedAssumption DEF ArrayInv, ArrayCells
    <2>2. Len(takers) \in Nat /\ MaxArray \in Nat /\ MaxPut \in Nat
      BY RelaxedAssumption, LinkedAssumption
      DEF ArrayInv, TakersOK, A!IdempotentAssumption
    <2>. QED BY <2>1, <2>2, OrderedAreProcs DEF ArrayInv
  <1>1. store' = store
    BY DEF InArray
  <1>2. ASSUME NEW p \in Procs, Served(p), UNCHANGED kind
        PROVE  Queue!RelaxedNext
    <2>1. PICK h \in Nat : h = regs[p].head
      BY OneFacts
    <2>2. PICK k \in 1..Len(takers) : k = h + 1
      BY <1>2, <2>1 DEF Served, Gives
    <2>3. takers' = [takers EXCEPT ![k] = @ \cup {p}]
      BY <1>2, <2>1, <2>2 DEF Served, Gives
    <2>4. GivenOut(k - 1)
      BY <1>2, <2>1, <2>2 DEF Served
    <2>5. IsOrdered(p) => \A j \in k..Len(takers) : p \notin takers[j]
      <3>1. IsOrdered(p) => \A j \in 1..Len(takers) : p \in takers[j] => j <= h
        BY <1>2, <2>1 DEF Served, IsOrdered
      <3>2. \A j \in k..Len(takers) : j \in 1..Len(takers) /\ ~(j <= h)
        BY <1>0, <2>2 DEF TakersOK
      <3>. QED BY <3>1, <3>2
    <2>6. p \in ExclusiveOnes => takers[k] \cap ExclusiveOnes = {}
      BY <1>2, <2>1, <2>2 DEF Served, ExclusiveOnes
    <2>. QED BY <1>0, <1>1, <1>2, <2>3, <2>4, <2>5, <2>6, QueueTakes
  <1>3. CASE A!PutStore
    <2>1. /\ ArrayInv' /\ UNCHANGED kind /\ Len(takers) < MaxArray
          /\ takers' = Append(takers, {})
      BY <1>3, PutStoreInv
    <2>2. Len(takers) < MaxPut
      BY <1>0, <2>1, RelaxedAssumption, LinkedAssumption
      DEF TakersOK, A!IdempotentAssumption
    <2>. QED BY <1>1, <2>1, <2>2, QueuePuts
  <1>4. CASE A!PutGrow \/ A!PutMark \/ A!TakeRead \/ A!Drop
    BY <1>1, <1>4, PutGrowInv, PutMarkInv, TakeReadInv, ArrayDrop, QueueRests
  <1>5. ASSUME NEW p \in Procs, A!Advance(p)
        PROVE  ArrayInv' /\ [Queue!RelaxedNext]_(Queue!relaxedVars)
    BY <1>1, <1>2, <1>5, AdvanceInv, QueueRests
  <1>6. ASSUME NEW p \in Thieves, A!Steal(p)
        PROVE  ArrayInv' /\ [Queue!RelaxedNext]_(Queue!relaxedVars)
    <2>1. p \in Procs
      BY DEF Procs
    <2>2. CASE A!Advance(p)
      BY <1>5, <2>1, <2>2
    <2>3. CASE A!ClaimWon(p)
      BY <1>2, <2>1, <2>3, ClaimWonInv
    <2>4. CASE A!WeakStore(p)
      BY <1>2, <2>1, <2>4, WeakStoreInv
    <2>5. CASE A!WeakRefresh(p)
      BY <1>1, <1>2, <2>1, <2>5, WeakRefreshInv, QueueRests
    <2>6. CASE \/ A!StealLoadHead(p) \/ A!StealLoadArray(p)
               \/ A!StealFindsNone(p) \/ A!StealRead(p) \/ A!ClaimLost(p)
               \/ A!Nudge(p)
      BY <1>1, <2>6, LoadHeadInv, LoadArrayInv, FindsNoneInv, ReadInv,
         ClaimLostInv, NudgeInv, QueueRests
    <2>. QED BY <1>6, <2>2, <2>3, <2>4, <2>5, <2>6 DEF A!Steal
  <1>7. CASE A!TakeFindsNone
    <2>1. UNCHANGED <<kind, head, arrays, claimed, tail, r, pc, regs, lull,
                      takers, freed>>
      BY <1>7 DEF A!TakeFindsNone, A!modeVars, A!innerVars, A!localVars,
                  A!historyVars
    <2>2. DropInv'
      BY <2>1 DEF ArrayInv, DropInv
    <2>. QED BY <1>1, <2>1, <2>2, Stays, QueueRests
  <1>. QED BY <1>0, <1>3, <1>4, <1>5, <1>6, <1>7 DEF A!Next, A!Put

LEMMA ArrayHonest == ArrayInv => A!HonestEmpty
  <1>. SUFFICES ASSUME ArrayInv PROVE A!HonestEmpty
    OBVIOUS
  <1>1. ASSUME NEW p \in Thieves, A!StealSeesNone(p) PROVE p \in lull
    <2>1. pc[p] = "read_cell" /\ A!CellSeen(p) = 0
      BY <1>1 DEF A!StealSeesNone, A!Null
    <2>2. LullOK(p)
      BY DEF ArrayInv
    <2>. QED BY <2>1, <2>2 DEF LullOK, A!CellSeen
  <1>2. ASSUME A!TakeSeesNone PROVE A!AllDelivered
    <2>1. /\ pc[Owner] = "idle"
          /\ head >= tail \/ A!Active[head] = 0
      BY <1>2 DEF A!TakeSeesNone, A!TakeBegins, A!Null
    <2>2. /\ Len(takers) = tail /\ tail \in Nat /\ head \in Nat
          /\ tail < A!LenOf(A!Active) /\ GivenOut(head)
          /\ \A i \in DOMAIN A!Active :
                A!Active[i] = IF i < tail THEN i + 1 ELSE 0
      BY <2>1 DEF ArrayInv, ArrayCells, ArrayTypes
    <2>3. head >= tail
      <3>1. head < tail => head \in DOMAIN A!Active
        BY <2>2, ActiveFacts, RowFacts DEF ArrayInv
      <3>. QED BY <2>1, <2>2, <3>1
    <2>4. DOMAIN takers = 1..tail
      BY <2>2, LenProperties DEF ArrayInv, TakersOK
    <2>. QED BY <2>2, <2>3, <2>4 DEF GivenOut, A!AllDelivered
  <1>. QED BY <1>1, <1>2 DEF A!HonestEmpty

-----------------------------------------------------------------------------
(* Both stores.                                                            *)

\* The inductive invariant of the store that was chosen.
RelaxedInv ==
    /\ store \in {"array", "list"}
    /\ store = "array" => ArrayInv
    /\ store = "list" => ListInv

LEMMA RelaxedInit == Init => RelaxedInv
  BY ArrayInit, ListInit DEF Init, RelaxedInv

LEMMA RelaxedStep ==
    ASSUME RelaxedInv, [Next]_vars
    PROVE  RelaxedInv' /\ [Queue!RelaxedNext]_(Queue!relaxedVars)
  <1>1. CASE InArray /\ A!Next
    <2>1. store = "array" /\ store' = "array"
      BY <1>1 DEF InArray
    <2>. QED BY <1>1, <2>1, ArrayStep DEF RelaxedInv
  <1>2. CASE InList /\ L!Next
    <2>1. store = "list" /\ store' = "list"
      BY <1>2 DEF InList
    <2>. QED BY <1>2, <2>1, ListStep DEF RelaxedInv
  <1>3. CASE UNCHANGED vars
    <2>1. UNCHANGED <<store, head, tail, pc, regs, takers, freed, kind, arrays,
                      claimed, r, lull, cells, linked, node>>
      BY <1>3 DEF vars, arrayVars, listVars
    <2>2. DropInv => DropInv'
      BY <2>1 DEF DropInv
    <2>3. ArrayInv => ArrayInv'
      BY <2>1, <2>2, Stays DEF ArrayInv
    <2>4. ListInv => ListInv'
      BY <2>1 DEF ListInv, L!TypeOK, L!WalkInv, TakersOK, ListCells, Filled,
                  ListHeads, GivenOut, DropInv
    <2>. QED BY <2>1, <2>3, <2>4, QueueRests DEF RelaxedInv
  <1>. QED BY <1>1, <1>2, <1>3 DEF Next

\* The invariant holds whatever store, thieves, sizes and number of puts: every
\* cell, head and claim is what the processes take it for.
THEOREM RelaxedInvariant == LiveSpec => []RelaxedInv
  <1>1. RelaxedInv /\ [Next]_vars => RelaxedInv'
    BY RelaxedStep
  <1>. QED BY <1>1, RelaxedInit, PTL DEF LiveSpec

\* linked.rs 205-251: a walk along the list ends at the node it looks for.
THEOREM WalksEnd == LiveSpec => []WalkInv
  <1>1. RelaxedInv => WalkInv
    BY DEF RelaxedInv, ListInv, WalkInv
  <1>. QED BY <1>1, RelaxedInvariant, PTL

\* idempotent.rs 148-162 and the drop of linked.rs: the box of every task put
\* is freed, and freed once.
THEOREM EachBoxFreedOnce == LiveSpec => []FreedOnce
  <1>1. ASSUME RelaxedInv PROVE FreedOnce
    <2>1. TakersOK /\ DropInv
      BY <1>1 DEF RelaxedInv, ArrayInv, ListInv
    <2>2. PICK n \in Nat : n = Len(takers) /\ DOMAIN takers = 1..n
      BY <2>1, LenProperties DEF TakersOK
    <2>3. freed # <<0>> => freed = [k \in 1..n |-> k]
      BY <2>1, <2>2 DEF DropInv, Upto
    <2>4. A!FreedOnce
      <3>. SUFFICES ASSUME ~A!Live
                    PROVE  /\ Len(freed) = n
                           /\ {freed[i] : i \in DOMAIN freed} = 1..n
        BY <2>2 DEF A!FreedOnce
      <3>. QED BY <2>3 DEF A!Live, A!Null
    <2>5. L!FreedOnce
      BY <2>2, <2>3 DEF L!FreedOnce, L!Live, L!Null
    <2>. QED BY <2>4, <2>5 DEF FreedOnce
  <1>. QED BY <1>1, RelaxedInvariant, PTL

\* idempotent.rs 15-25, 82-84, 356-360, linked.rs 19-21: both stores are the
\* queue of RelaxedQueue, step by step: nothing is passed over, who is served
\* in order is so, and no two exclusive thieves get the same task.
THEOREM RelaxedQueueImplemented == LiveSpec => ImplementsRelaxed
  <1>1. Init => Queue!RelaxedInit
    <2>1. Init => takers = <<>>
      BY DEF Init, A!Init, L!Init
    <2>2. A!Ordered \subseteq Procs /\ A!Exclusive \subseteq Procs
      BY OrderedAreProcs DEF Procs
    <2>. QED BY <2>1, <2>2 DEF Queue!RelaxedInit
  <1>2. RelaxedInv /\ [Next]_vars => [Queue!RelaxedNext]_(Queue!relaxedVars)
    BY RelaxedStep
  <1>. QED BY <1>1, <1>2, RelaxedInvariant, PTL
       DEF LiveSpec, ImplementsRelaxed, Queue!RelaxedSpec

\* idempotent.rs 290-301, 337-349, 368-384, 460-470, linked.rs 163-172, 211-233:
\* in every state, a thief about to be told Empty was in its call at a moment
\* when everything put had been delivered; where take would answer Empty, every
\* task put has a taker, whoever has moved head.
THEOREM EmptyMeansDelivered == LiveSpec => []EmptyIsHonest
  <1>1. RelaxedInv => EmptyIsHonest
    BY ArrayHonest, ListHonest DEF RelaxedInv, EmptyIsHonest
  <1>. QED BY <1>1, RelaxedInvariant, PTL
==============================================================================
