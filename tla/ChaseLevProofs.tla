---------------------------- MODULE ChaseLevProofs ----------------------------
(***************************************************************************)
(* Proofs about ChaseLev, for any thieves, capacities and number of tasks: *)
(* first the types and the reclamation of the buffers; then that every     *)
(* task is handed out exactly once, from the indices and the contents of   *)
(* the ring; and last that the operations of the deque are atomic.         *)
(***************************************************************************)
EXTENDS ChaseLevRefinement, FiniteSetTheorems, SequenceTheorems, TLAPS

-----------------------------------------------------------------------------
(* Sequences and the ring.                                                 *)

\* Overwriting an element of a sequence gives a sequence of the same length.
LEMMA OverwriteSeq ==
    ASSUME NEW S, NEW s \in Seq(S), NEW i, NEW v \in S
    PROVE  /\ [s EXCEPT ![i] = v] \in Seq(S)
           /\ Len([s EXCEPT ![i] = v]) = Len(s)
  <1>1. CASE i \in 1..Len(s)
    BY <1>1, ExceptSeq
  <1>2. CASE i \notin 1..Len(s)
    <2>1. [s EXCEPT ![i] = v] = s
      BY <1>2
    <2> QED
      BY <2>1
  <1> QED
    BY <1>1, <1>2

\* A logical index always falls on a cell of the ring.
LEMMA SlotInRange ==
    ASSUME NEW i \in Int, NEW cap \in Nat, cap > 0
    PROVE  Slot(i, cap) \in 1..cap
  BY DEF Slot

\* Whatever an index selects from a buffer is a box, or null.
LEMMA CellType ==
    ASSUME NEW buf \in Seq(Nat), Len(buf) > 0, NEW i \in Int
    PROVE  CellOf(buf, i) \in Nat
  <1>1. Len(buf) \in Nat
    OBVIOUS
  <1>2. Slot(i, Len(buf)) \in 1..Len(buf)
    BY <1>1, SlotInRange
  <1> QED
    BY <1>2 DEF CellOf

\* A resized buffer has the capacity asked for and holds boxes.
LEMMA ResizedType ==
    ASSUME NEW old \in Seq(Nat), Len(old) > 0, NEW newCap \in Nat,
           NEW b \in Int, NEW t \in Int
    PROVE  /\ Resized(old, newCap, b, t) \in Seq(Nat)
           /\ Len(Resized(old, newCap, b, t)) = newCap
  <1> DEFINE live(s) == {i \in t..b-1 : Slot(i, newCap) = s}
             cell(s) == IF live(s) = {} THEN Null
                        ELSE CellOf(old, CHOOSE i \in live(s) : TRUE)
  <1>1. ASSUME NEW s \in 1..newCap PROVE cell(s) \in Nat
    <2>1. CASE live(s) = {}
      BY <2>1 DEF Null
    <2>2. CASE live(s) # {}
      <3>1. (CHOOSE i \in live(s) : TRUE) \in Int
        BY <2>2
      <3> QED
        BY <2>2, <3>1, CellType
    <2> QED
      BY <2>1, <2>2
  <1>2. Resized(old, newCap, b, t) = [s \in 1..newCap |-> cell(s)]
    BY DEF Resized
  <1> HIDE DEF cell
  <1> QED
    BY <1>1, <1>2

-----------------------------------------------------------------------------
(* Type correctness.                                                       *)

\* The owner's operations are the owner's.
LEMMA OwnerIsProc == Owner \in Procs
  BY DEF Procs

\* What a resize does to the buffers.
LEMMA InstallMemory ==
    ASSUME TypeOK, NEW newCap \in Nat \ {0}, NEW next, Install(newCap, next)
    PROVE  /\ MemoryType'
           /\ Len(bufs') = Len(bufs) + 1
           /\ \A k \in Buffers : bufs'[k] = bufs[k]
           /\ bufs'[Len(bufs) + 1] = Resized(bufs[buffer], newCap, bottom,
                                             regs[Owner].t)
           /\ Len(bufs'[Len(bufs) + 1]) = newCap
  <1> DEFINE new == Resized(bufs[buffer], newCap, bottom, regs[Owner].t)
  <1>1. new \in Seq(Nat) /\ Len(new) = newCap
    <2>1. bufs[buffer] \in Seq(Nat) /\ Len(bufs[buffer]) > 0
      BY DEF TypeOK, MemoryType, Buffers
    <2>2. bottom \in Int /\ regs[Owner].t \in Int
      BY OwnerIsProc DEF TypeOK, IndexType, LocalType
    <2> QED
      BY <2>1, <2>2, ResizedType
  <1>2. /\ bufs' = Append(bufs, new)
        /\ buffer' = Len(bufs) + 1
        /\ retired' = retired \cup {buffer}
        /\ freed' = freed
    BY DEF Install
  <1>3. /\ bufs \in Seq(Seq(Nat))
        /\ \A k \in 1..Len(bufs) : Len(bufs[k]) > 0
        /\ buffer \in 1..Len(bufs)
        /\ retired \subseteq 1..Len(bufs)
        /\ freed \subseteq 1..Len(bufs)
    BY DEF TypeOK, MemoryType, Buffers
  <1> HIDE DEF new
  <1>4. /\ bufs' \in Seq(Seq(Nat))
        /\ Len(bufs') = Len(bufs) + 1
        /\ \A k \in 1..Len(bufs) : bufs'[k] = bufs[k]
        /\ bufs'[Len(bufs) + 1] = new
    BY <1>1, <1>2, <1>3
  <1>5. MemoryType'
    BY <1>1, <1>2, <1>3, <1>4 DEF MemoryType, Buffers
  <1> QED
    BY <1>1, <1>4, <1>5 DEF Buffers, new

\* A push overwrites one cell of the active buffer.
LEMMA WriteMemory ==
    ASSUME TypeOK, PushWrite
    PROVE  /\ MemoryType'
           /\ Len(bufs') = Len(bufs)
           /\ \A k \in Buffers : Len(bufs'[k]) = Len(bufs[k])
           /\ \A k \in Buffers \ {buffer} : bufs'[k] = bufs[k]
           /\ bufs'[buffer] = [bufs[buffer] EXCEPT ![Slot(bottom, ActiveCap)] =
                                                       Len(recipients) + 1]
  <1> DEFINE s == Slot(bottom, ActiveCap)
             n == Len(recipients) + 1
             new == [bufs[buffer] EXCEPT ![s] = n]
  <1>1. n \in Nat
    BY DEF TypeOK, HistoryType
  <1>2. /\ bufs \in Seq(Seq(Nat))
        /\ \A k \in 1..Len(bufs) : Len(bufs[k]) > 0
        /\ buffer \in 1..Len(bufs)
        /\ retired \subseteq 1..Len(bufs)
        /\ freed \subseteq 1..Len(bufs)
    BY DEF TypeOK, MemoryType, Buffers
  <1>3. /\ bufs' = [bufs EXCEPT ![buffer] = new]
        /\ UNCHANGED <<buffer, retired, freed>>
    BY DEF PushWrite
  <1> DEFINE old == bufs[buffer]
  <1>4. new \in Seq(Nat) /\ Len(new) = Len(bufs[buffer])
    <2>1. old \in Seq(Nat)
      BY <1>2
    <2> HIDE DEF s, n, old
    <2>2. new = [old EXCEPT ![s] = n]
      BY DEF old
    <2>3. [old EXCEPT ![s] = n] \in Seq(Nat)
      BY <1>1, <2>1, OverwriteSeq
    <2>4. Len([old EXCEPT ![s] = n]) = Len(old)
      BY <1>1, <2>1, OverwriteSeq
    <2> HIDE DEF new
    <2> QED
      BY <2>2, <2>3, <2>4 DEF old
  <1> HIDE DEF s, n, new
  <1>5. bufs' \in Seq(Seq(Nat)) /\ Len(bufs') = Len(bufs)
    BY <1>2, <1>3, <1>4, OverwriteSeq
  <1>6. /\ bufs'[buffer] = new
        /\ \A k \in 1..Len(bufs) \ {buffer} : bufs'[k] = bufs[k]
    BY <1>2, <1>3
  <1>7. MemoryType'
    BY <1>2, <1>3, <1>4, <1>5, <1>6 DEF MemoryType, Buffers
  <1> QED
    BY <1>4, <1>5, <1>6, <1>7 DEF Buffers, new, s, n

\* A function on 1..n is a sequence of length n.
LEMMA FunctionSeq ==
    ASSUME NEW S, NEW n \in Nat, NEW f \in [1..n -> S]
    PROVE  f \in Seq(S) /\ Len(f) = n
  OBVIOUS

\* Handing a box over keeps the history well-formed.
LEMMA TakeBoxType ==
    ASSUME TypeOK, NEW p \in Procs, NEW k, TakeBox(p, k)
    PROVE  recipients' \in Seq(Seq(Procs)) /\ Len(recipients') = Len(recipients)
  <1>1. recipients \in Seq(Seq(Procs))
    BY DEF TypeOK, HistoryType
  <1> DEFINE v == Append(recipients[k], p)
  <1>2. recipients' = [recipients EXCEPT ![k] = v]
    BY DEF TakeBox
  <1>3. CASE k \in 1..Len(recipients)
    <2>1. v \in Seq(Procs)
      BY <1>1, <1>3
    <2> HIDE DEF v
    <2>2. [recipients EXCEPT ![k] = v] \in Seq(Seq(Procs))
      BY <1>1, <1>3, <2>1, OverwriteSeq
    <2>3. Len([recipients EXCEPT ![k] = v]) = Len(recipients)
      BY <1>1, <1>3, <2>1, OverwriteSeq
    <2> QED
      BY <1>2, <2>2, <2>3
  <1>4. CASE k \notin 1..Len(recipients)
    <2> HIDE DEF v
    <2>1. recipients' = recipients
      BY <1>1, <1>2, <1>4
    <2> QED
      BY <1>1, <2>1
  <1> QED
    BY <1>3, <1>4

\* An operation that changes neither buffers nor history keeps their types.
LEMMA MemoryFrame ==
    ASSUME TypeOK, UNCHANGED memoryVars
    PROVE  MemoryType'
  BY DEF TypeOK, MemoryType, memoryVars, Buffers

\* The end of an operation, as to types.
LEMMA ReturnType ==
    ASSUME TypeOK, NEW p \in Procs, Return(p), Len(bufs') = Len(bufs)
    PROVE  LocalType'
  BY DEF TypeOK, LocalType, Return, Goto, Buffers, NoRegs, Null,
         PushPc, PopPc, StealPc

\* Loading one register keeps the registers well-typed.
LEMMA RegsType ==
    ASSUME NEW r \in [Procs -> [t : Int, buf : Nat, box : Nat]], NEW p \in Procs
    PROVE  /\ \A v \in Int : [r EXCEPT ![p].t = v] \in
                  [Procs -> [t : Int, buf : Nat, box : Nat]]
           /\ \A v \in Nat : [r EXCEPT ![p].buf = v] \in
                  [Procs -> [t : Int, buf : Nat, box : Nat]]
           /\ \A v \in Nat : [r EXCEPT ![p].box = v] \in
                  [Procs -> [t : Int, buf : Nat, box : Nat]]
           /\ \A v \in Int, w \in Nat : [r EXCEPT ![p].t = v, ![p].box = w] \in
                  [Procs -> [t : Int, buf : Nat, box : Nat]]
  OBVIOUS

\* What holds of the registers of the others when p loads one of its own.
LEMMA LoadType ==
    ASSUME TypeOK, NEW p \in Procs,
           NEW l \in {"idle"} \cup PushPc \cup PopPc \cup StealPc, Goto(p, l),
           regs' \in [Procs -> [t : Int, buf : Nat, box : Nat]],
           \A q \in Procs \ {p} : regs'[q] = regs[q],
           Len(bufs') = Len(bufs),
           l \in PushPc \cup PopPc => p = Owner,
           l = "steal_read" => regs'[p].buf \in Buffers
    PROVE  LocalType'
  BY DEF TypeOK, LocalType, Goto, Buffers

\* While a thief is inside its critical section in_flight is positive.
LEMMA SectionNonEmpty ==
    ASSUME ReclaimInv, NEW p \in Procs,
           pc[p] \in {"steal_buffer", "steal_read", "steal_leave"}
    PROVE  inFlight \in Nat /\ inFlight > 0
  <1>1. IsFiniteSet(Procs)
    BY ProcsAssumption, FS_AddElement DEF Procs
  <1>2. IsFiniteSet(InSection) /\ InSection # {}
    BY <1>1, FS_Subset DEF InSection
  <1> QED
    BY <1>2, FS_EmptySet, FS_CardinalityType DEF ReclaimInv

LEMMA TypeInit == Init => TypeOK
  <1> SUFFICES ASSUME Init PROVE TypeOK
    OBVIOUS
  <1>1. Alloc(InitCap) \in Seq(Nat) /\ Len(Alloc(InitCap)) = InitCap
    BY ParameterAssumption DEF Alloc, Null
  <1>2. MemoryType
    <2> DEFINE new == Alloc(InitCap)
    <2> HIDE DEF new
    <2>1. bufs = <<new>> /\ new \in Seq(Nat) /\ Len(new) > 0
      BY <1>1, ParameterAssumption DEF Init, new
    <2>2. bufs \in Seq(Seq(Nat)) /\ Len(bufs) = 1 /\ bufs[1] = new
      BY <2>1
    <2> QED
      BY <2>1, <2>2 DEF Init, MemoryType, Buffers
  <1>3. LocalType
    BY DEF Init, LocalType, NoRegs, Null, PushPc, PopPc, StealPc
  <1>4. IndexType /\ inFlight \in Nat
    BY DEF Init, IndexType
  <1>5. HistoryType
    <2>1. recipients = <<>> /\ dropped = FALSE
      BY DEF Init
    <2>2. recipients \in Seq(Seq(Procs))
      BY <2>1
    <2> QED
      BY <2>1, <2>2, Zenon DEF HistoryType
  <1> QED
    BY <1>2, <1>3, <1>4, <1>5 DEF TypeOK

LEMMA TypeStep == TypeOK /\ ReclaimInv /\ [Next]_vars => TypeOK'
  <1> SUFFICES ASSUME TypeOK, ReclaimInv, [Next]_vars
               PROVE  TypeOK'
    OBVIOUS
  <1>0. Owner \in Procs
    BY OwnerIsProc
  <1> USE DEF PushPc, PopPc, StealPc
  <1>1. CASE PushBegin
    <2>1. MemoryType'
      BY <1>1, MemoryFrame DEF PushBegin
    <2>2. LocalType'
      BY <1>0, <1>1 DEF PushBegin, TypeOK, LocalType, Goto, Return, NoRegs,
         Null, Buffers, memoryVars
    <2> QED
      BY <1>0, <1>1, <2>1, <2>2
      DEF PushBegin, indexVars, historyVars, TypeOK, IndexType, LocalType,
         HistoryType
  <1>2. CASE PushLoadTop
    <2>1. MemoryType'
      BY <1>2, MemoryFrame DEF PushLoadTop
    <2>2. LocalType'
      <3>1. regs' \in [Procs -> [t : Int, buf : Nat, box : Nat]]
        BY <1>0, <1>2, RegsType DEF PushLoadTop, TypeOK, LocalType, IndexType
      <3>2. \A q \in Procs \ {Owner} : regs'[q] = regs[q]
        BY <1>0, <1>2 DEF PushLoadTop, TypeOK, LocalType
      <3> QED
        BY <1>0, <1>2, <3>1, <3>2, LoadType DEF PushLoadTop, memoryVars
    <2> QED
      BY <1>0, <1>2, <2>1, <2>2
      DEF PushLoadTop, indexVars, historyVars, TypeOK, IndexType, LocalType,
         HistoryType
  <1>3. CASE PushGrow
    <2>1. Install(2 * ActiveCap, "push_reclaim")
      BY <1>3 DEF PushGrow
    <2>2. 2 * ActiveCap \in Nat \ {0}
      BY ParameterAssumption DEF ShrunkCap, ActiveCap, TypeOK, MemoryType,
         Buffers
    <2>3. MemoryType' /\ Len(bufs') = Len(bufs) + 1
      BY <2>1, <2>2, InstallMemory
    <2>4. LocalType'
      BY SMTT(30), <1>0, <2>1, <2>3 DEF Install, TypeOK, LocalType, MemoryType, Goto,
         Buffers
    <2> QED
      BY <2>1, <2>3, <2>4
      DEF Install, indexVars, historyVars, TypeOK, IndexType, HistoryType
  <1>4. CASE PushReclaim
    <2>1. MemoryType'
      BY <1>4, MemoryFrame DEF PushReclaim, LoadInFlight
    <2>2. LocalType'
      BY <1>0, <1>4 DEF PushReclaim, LoadInFlight, TypeOK, LocalType, Goto,
         Return, NoRegs, Null, Buffers, memoryVars
    <2> QED
      BY <1>0, <1>4, <2>1, <2>2
      DEF PushReclaim, LoadInFlight, indexVars, historyVars, TypeOK, IndexType,
         LocalType, HistoryType
  <1>5. CASE PushFree
    <2>1. MemoryType'
      BY <1>5 DEF PushFree, FreeRetired, TypeOK, MemoryType, Buffers
    <2>2. LocalType'
      BY <1>0, <1>5 DEF PushFree, FreeRetired, TypeOK, LocalType, Goto, Return,
         NoRegs, Null, Buffers, memoryVars
    <2> QED
      BY <1>0, <1>5, <2>1, <2>2
      DEF PushFree, FreeRetired, indexVars, historyVars, TypeOK, IndexType,
         LocalType, HistoryType
  <1>6. CASE PushWrite
    <2>1. MemoryType' /\ Len(bufs') = Len(bufs)
      BY <1>6, WriteMemory
    <2>2. LocalType'
      BY <1>0, <1>6, <2>1 DEF PushWrite, TypeOK, LocalType, Goto, Return,
         NoRegs, Null, Buffers, memoryVars
    <2> QED
      BY <1>0, <1>6, <2>1, <2>2
      DEF PushWrite, indexVars, historyVars, TypeOK, IndexType, LocalType,
         HistoryType
  <1>7. CASE PushPublish
    <2>1. MemoryType'
      BY <1>7, MemoryFrame DEF PushPublish
    <2>2. LocalType'
      BY <1>0, <1>7 DEF PushPublish, TypeOK, LocalType, Goto, Return, NoRegs,
         Null, Buffers, memoryVars
    <2> QED
      BY <1>0, <1>7, <2>1, <2>2
      DEF PushPublish, indexVars, historyVars, TypeOK, IndexType, LocalType,
         HistoryType
  <1>8. CASE PopBegin
    <2>1. MemoryType'
      BY <1>8, MemoryFrame DEF PopBegin
    <2>2. LocalType'
      BY <1>0, <1>8 DEF PopBegin, TypeOK, LocalType, Goto, Return, NoRegs,
         Null, Buffers, memoryVars
    <2> QED
      BY <1>0, <1>8, <2>1, <2>2
      DEF PopBegin, indexVars, historyVars, TypeOK, IndexType, LocalType,
         HistoryType
  <1>9. CASE PopFindEmpty
    <2>1. MemoryType'
      BY <1>9, MemoryFrame DEF PopFindEmpty
    <2>2. LocalType'
      <3>1. regs' \in [Procs -> [t : Int, buf : Nat, box : Nat]]
        BY <1>0, <1>9, RegsType DEF PopFindEmpty, TypeOK, LocalType, IndexType
      <3>2. \A q \in Procs \ {Owner} : regs'[q] = regs[q]
        BY <1>0, <1>9 DEF PopFindEmpty, TypeOK, LocalType
      <3> QED
        BY <1>0, <1>9, <3>1, <3>2, LoadType DEF PopFindEmpty, memoryVars
    <2> QED
      BY <1>0, <1>9, <2>1, <2>2
      DEF PopFindEmpty, indexVars, historyVars, TypeOK, IndexType, LocalType,
         HistoryType
  <1>10. CASE PopRestoreEmpty
    <2>1. MemoryType'
      BY <1>10, MemoryFrame DEF PopRestoreEmpty
    <2>2. LocalType'
      BY <1>0, <1>10 DEF PopRestoreEmpty, TypeOK, LocalType, Goto, Return,
         NoRegs, Null, Buffers, memoryVars
    <2> QED
      BY <1>0, <1>10, <2>1, <2>2
      DEF PopRestoreEmpty, indexVars, historyVars, TypeOK, IndexType,
         LocalType, HistoryType
  <1>11. CASE PopTake
    <2>1. MemoryType'
      BY <1>11, MemoryFrame DEF PopTake
    <2>2. LocalType'
      <3>1. CASE ShrinkWanted(bottom - top, ActiveCap)
        <4>1. /\ regs' = [regs EXCEPT ![Owner].t = top]
              /\ Goto(Owner, "pop_shrink")
          BY <1>11, <3>1 DEF PopTake
        <4>2. regs' \in [Procs -> [t : Int, buf : Nat, box : Nat]]
          BY <1>0, <4>1, RegsType DEF TypeOK, LocalType, IndexType
        <4>3. \A q \in Procs \ {Owner} : regs'[q] = regs[q]
          BY <4>1 DEF TypeOK, LocalType
        <4> QED
          BY <1>0, <1>11, <4>1, <4>2, <4>3, LoadType DEF PopTake, memoryVars
      <3>2. CASE ~ShrinkWanted(bottom - top, ActiveCap)
        BY <1>0, <1>11, <3>2, ReturnType DEF PopTake, memoryVars
      <3> QED
        BY <3>1, <3>2
    <2>3. recipients' \in Seq(Seq(Procs))
      BY <1>0, <1>11, TakeBoxType DEF PopTake, TypeOK, HistoryType
    <2> QED
      BY <1>0, <1>11, <2>1, <2>2, <2>3
      DEF PopTake, indexVars, TypeOK, IndexType, LocalType, HistoryType
  <1>12. CASE PopShrink
    <2>1. Install(ShrunkCap(ActiveCap), "pop_reclaim")
      BY <1>12 DEF PopShrink
    <2>2. ShrunkCap(ActiveCap) \in Nat \ {0}
      <3>1. ActiveCap \in Nat
        BY DEF ActiveCap, TypeOK, MemoryType, Buffers
      <3> QED
        BY <3>1, ParameterAssumption DEF ShrunkCap
    <2>3. MemoryType' /\ Len(bufs') = Len(bufs) + 1
      BY <2>1, <2>2, InstallMemory
    <2>4. LocalType'
      BY <1>0, <2>1, <2>3 DEF Install, TypeOK, LocalType, MemoryType, Goto,
         Buffers
    <2> QED
      BY <2>1, <2>3, <2>4
      DEF Install, indexVars, historyVars, TypeOK, IndexType, HistoryType
  <1>13. CASE PopReclaim
    <2>1. MemoryType'
      BY <1>13, MemoryFrame DEF PopReclaim, LoadInFlight
    <2>2. LocalType'
      BY <1>0, <1>13 DEF PopReclaim, LoadInFlight, TypeOK, LocalType, Goto,
         Return, NoRegs, Null, Buffers, memoryVars
    <2> QED
      BY <1>0, <1>13, <2>1, <2>2
      DEF PopReclaim, LoadInFlight, indexVars, historyVars, TypeOK, IndexType,
         LocalType, HistoryType
  <1>14. CASE PopFree
    <2>1. MemoryType'
      BY <1>14 DEF PopFree, FreeRetired, TypeOK, MemoryType, Buffers
    <2>2. LocalType'
      BY <1>0, <1>14 DEF PopFree, FreeRetired, TypeOK, LocalType, Goto, Return,
         NoRegs, Null, Buffers, memoryVars
    <2> QED
      BY <1>0, <1>14, <2>1, <2>2
      DEF PopFree, FreeRetired, indexVars, historyVars, TypeOK, IndexType,
         LocalType, HistoryType
  <1>15. CASE PopDone
    <2>1. MemoryType'
      BY <1>15, MemoryFrame DEF PopDone
    <2>2. LocalType'
      BY <1>0, <1>15 DEF PopDone, TypeOK, LocalType, Goto, Return, NoRegs,
         Null, Buffers, memoryVars
    <2> QED
      BY <1>0, <1>15, <2>1, <2>2
      DEF PopDone, indexVars, historyVars, TypeOK, IndexType, LocalType,
         HistoryType
  <1>16. CASE PopFindLast
    <2>1. MemoryType'
      BY <1>16, MemoryFrame DEF PopFindLast
    <2>2. LocalType'
      <3>0. CellOf(bufs[buffer], bottom) \in Nat
        BY CellType DEF TypeOK, MemoryType, IndexType, Buffers
      <3>1. regs' \in [Procs -> [t : Int, buf : Nat, box : Nat]]
        BY <1>0, <1>16, <3>0, RegsType DEF PopFindLast, TypeOK, LocalType,
           IndexType
      <3>2. \A q \in Procs \ {Owner} : regs'[q] = regs[q]
        BY <1>0, <1>16 DEF PopFindLast, TypeOK, LocalType
      <3> QED
        BY <1>0, <1>16, <3>1, <3>2, LoadType DEF PopFindLast, memoryVars
    <2> QED
      BY <1>0, <1>16, <2>1, <2>2
      DEF PopFindLast, indexVars, historyVars, TypeOK, IndexType, LocalType,
         HistoryType
  <1>17. CASE PopCas
    <2>1. MemoryType'
      BY <1>17, MemoryFrame DEF PopCas
    <2>2. LocalType'
      BY <1>0, <1>17 DEF PopCas, TypeOK, LocalType, Goto, Return, NoRegs, Null,
         Buffers, memoryVars
    <2>3. recipients' \in Seq(Seq(Procs))
      BY <1>0, <1>17, TakeBoxType DEF PopCas, TypeOK, HistoryType
    <2> QED
      BY <1>0, <1>17, <2>1, <2>2, <2>3
      DEF PopCas, indexVars, TypeOK, IndexType, LocalType, HistoryType
  <1>18. CASE PopRestoreLast
    <2>1. MemoryType'
      BY <1>18, MemoryFrame DEF PopRestoreLast
    <2>2. LocalType'
      BY <1>0, <1>18 DEF PopRestoreLast, TypeOK, LocalType, Goto, Return,
         NoRegs, Null, Buffers, memoryVars
    <2> QED
      BY <1>0, <1>18, <2>1, <2>2
      DEF PopRestoreLast, indexVars, historyVars, TypeOK, IndexType, LocalType,
         HistoryType
  <1>19. ASSUME NEW p \in Procs, Steal(p)
         PROVE  TypeOK'
    <2>1. CASE StealLoadTop(p)
      <3>1. MemoryType'
        BY <2>1, MemoryFrame DEF StealLoadTop
      <3>2. LocalType'
        <4>1. regs' \in [Procs -> [t : Int, buf : Nat, box : Nat]]
          BY <2>1, RegsType DEF StealLoadTop, TypeOK, LocalType, IndexType,
             MemoryType, Buffers
        <4>2. \A q \in Procs \ {p} : regs'[q] = regs[q]
          BY <2>1 DEF StealLoadTop, TypeOK, LocalType
        <4> QED
          BY <2>1, <4>1, <4>2, LoadType DEF StealLoadTop, memoryVars, TypeOK,
             LocalType, MemoryType
      <3> QED
        BY <1>0, <2>1, <3>1, <3>2
        DEF StealLoadTop, indexVars, historyVars, TypeOK, IndexType, LocalType,
           HistoryType
    <2>2. CASE StealFindEmpty(p)
      <3>1. MemoryType'
        BY <2>2, MemoryFrame DEF StealFindEmpty
      <3>2. LocalType'
        BY <1>0, <2>2 DEF StealFindEmpty, MaySteal, TypeOK, LocalType,
           MemoryType, Goto, Return, NoRegs, Null, Buffers, memoryVars
      <3> QED
        BY <1>0, <2>2, <3>1, <3>2
        DEF StealFindEmpty, indexVars, historyVars, TypeOK, IndexType,
           LocalType, HistoryType
    <2>3. CASE StealFindTask(p)
      <3>1. MemoryType'
        BY <2>3, MemoryFrame DEF StealFindTask
      <3>2. LocalType'
        BY <1>0, <2>3 DEF StealFindTask, MaySteal, TypeOK, LocalType,
           MemoryType, Goto, Return, NoRegs, Null, Buffers, memoryVars
      <3> QED
        BY <1>0, <2>3, <3>1, <3>2
        DEF StealFindTask, indexVars, historyVars, TypeOK, IndexType,
           LocalType, HistoryType
    <2>4. CASE StealEnter(p)
      <3>1. MemoryType'
        BY <2>4, MemoryFrame DEF StealEnter
      <3>2. LocalType'
        BY <1>0, <2>4 DEF StealEnter, MaySteal, TypeOK, LocalType, MemoryType,
           Goto, Return, NoRegs, Null, Buffers, memoryVars
      <3> QED
        BY <1>0, <2>4, <3>1, <3>2
        DEF StealEnter, indexVars, historyVars, TypeOK, IndexType, LocalType,
           HistoryType
    <2>5. CASE StealLoadBuffer(p)
      <3>1. MemoryType'
        BY <2>5, MemoryFrame DEF StealLoadBuffer
      <3>2. LocalType'
        <4>0. buffer \in Nat
          BY DEF TypeOK, MemoryType, Buffers
        <4>1. regs' \in [Procs -> [t : Int, buf : Nat, box : Nat]]
          BY <2>5, <4>0, RegsType DEF StealLoadBuffer, TypeOK, LocalType
        <4>2. \A q \in Procs \ {p} : regs'[q] = regs[q]
          BY <2>5 DEF StealLoadBuffer, TypeOK, LocalType
        <4>3. /\ Goto(p, "steal_read")
              /\ bufs' = bufs
          BY <2>5 DEF StealLoadBuffer, memoryVars
        <4>4. regs'[p].buf \in Buffers
          BY <2>5 DEF StealLoadBuffer, TypeOK, LocalType, MemoryType
        <4> QED
          BY <4>1, <4>2, <4>3, <4>4, LoadType
      <3> QED
        BY <1>0, <2>5, <3>1, <3>2
        DEF StealLoadBuffer, indexVars, historyVars, TypeOK, IndexType,
           LocalType, HistoryType
    <2>6. CASE StealRead(p)
      <3>1. MemoryType'
        BY <2>6, MemoryFrame DEF StealRead
      <3>2. LocalType'
        <4>0. CellOf(bufs[regs[p].buf], regs[p].t) \in Nat
          BY <2>6, CellType DEF StealRead, TypeOK, MemoryType, LocalType,
             Buffers
        <4>1. regs' \in [Procs -> [t : Int, buf : Nat, box : Nat]]
          BY <2>6, <4>0, RegsType DEF StealRead, TypeOK, LocalType, IndexType,
             MemoryType, Buffers
        <4>2. \A q \in Procs \ {p} : regs'[q] = regs[q]
          BY <2>6 DEF StealRead, TypeOK, LocalType
        <4> QED
          BY <2>6, <4>1, <4>2, LoadType DEF StealRead, memoryVars, TypeOK,
             LocalType, MemoryType
      <3> QED
        BY SMTT(30), <1>0, <2>6, <3>1, <3>2
        DEF StealRead, indexVars, historyVars, TypeOK, IndexType, LocalType,
           HistoryType
    <2>7. CASE StealLeave(p)
      <3>1. MemoryType'
        BY <2>7, MemoryFrame DEF StealLeave
      <3>2. LocalType'
        BY <1>0, <2>7 DEF StealLeave, MaySteal, TypeOK, LocalType, MemoryType,
           Goto, Return, NoRegs, Null, Buffers, memoryVars
      <3>3. inFlight > 0
        BY <2>7, SectionNonEmpty DEF StealLeave
      <3> QED
        BY <1>0, <2>7, <3>1, <3>2, <3>3
        DEF StealLeave, indexVars, historyVars, TypeOK, IndexType, LocalType,
           HistoryType
    <2>8. CASE StealCas(p)
      <3>1. MemoryType'
        BY <2>8, MemoryFrame DEF StealCas
      <3>2. LocalType'
        <4>1. CASE Return(p)
          BY <2>8, <4>1, ReturnType DEF StealCas, memoryVars
        <4>2. CASE ~Return(p)
          <5>1. /\ regs' = [regs EXCEPT ![p] = NoRegs]
                /\ Goto(p, "steal_retry")
                /\ bufs' = bufs
            BY <2>8, <4>2 DEF StealCas, memoryVars
          <5>2. NoRegs \in [t : Int, buf : Nat, box : Nat]
            BY DEF NoRegs, Null
          <5>3. /\ regs' \in [Procs -> [t : Int, buf : Nat, box : Nat]]
                /\ \A q \in Procs \ {p} : regs'[q] = regs[q]
            BY <5>1, <5>2 DEF TypeOK, LocalType
          <5> QED
            BY <5>1, <5>3, LoadType
        <4> QED
          BY <4>1, <4>2
      <3>3. recipients' \in Seq(Seq(Procs))
        <4>1. CASE TakeBox(p, regs[p].box)
          BY <4>1, TakeBoxType
        <4>2. CASE recipients' = recipients
          BY <4>2 DEF TypeOK, HistoryType
        <4> QED
          BY <2>8, <4>1, <4>2 DEF StealCas
      <3>4. IndexType' /\ inFlight' = inFlight /\ dropped' = dropped
        BY <2>8 DEF StealCas, TypeOK, IndexType
      <3> QED
        BY <3>1, <3>2, <3>3, <3>4 DEF TypeOK, HistoryType
    <2> QED
      BY <1>19, <2>1, <2>2, <2>3, <2>4, <2>5, <2>6, <2>7, <2>8 DEF Steal
  <1>20. ASSUME NEW p \in Procs, Drop(p)
         PROVE  TypeOK'
    <2> DEFINE left == {CellOf(bufs[buffer], i) : i \in top..bottom-1}
               new(k) == IF k \in left THEN Append(recipients[k], p)
                                       ELSE recipients[k]
    <2>1. recipients' = [k \in DOMAIN recipients |-> new(k)]
      BY <1>20 DEF Drop
    <2> HIDE DEF left
    <2>2. recipients \in Seq(Seq(Procs))
      BY DEF TypeOK, HistoryType
    <2>3. \A k \in 1..Len(recipients) : new(k) \in Seq(Procs)
      BY <1>20, <2>2
    <2> HIDE DEF new
    <2>4. recipients' \in Seq(Seq(Procs))
      <3>1. Len(recipients) \in Nat /\ DOMAIN recipients = 1..Len(recipients)
        BY <2>2
      <3>2. recipients' \in [1..Len(recipients) -> Seq(Procs)]
        BY <2>1, <2>3, <3>1
      <3> QED
        BY <3>1, <3>2, FunctionSeq
    <2>5. MemoryType' /\ LocalType'
      BY <1>20 DEF Drop, TypeOK, MemoryType, LocalType, Buffers
    <2> QED
      BY <1>20, <2>4, <2>5 DEF Drop, indexVars, TypeOK, IndexType, HistoryType
  <1>21. CASE UNCHANGED vars
    BY <1>21 DEF vars, indexVars, memoryVars, historyVars, TypeOK, IndexType,
                 MemoryType, LocalType, HistoryType, Buffers
  <1> QED
    BY <1>1, <1>2, <1>3, <1>4, <1>5, <1>6, <1>7, <1>8, <1>9, <1>10, <1>11,
       <1>12, <1>13, <1>14, <1>15, <1>16, <1>17, <1>18, <1>19, <1>20, <1>21
       DEF Next, Push, Pop

-----------------------------------------------------------------------------
(* Reclamation.                                                            *)

\* The critical section is left alone by a process outside that stays outside.
LEMMA SectionFrame ==
    ASSUME TypeOK, NEW p \in Procs, NEW l, Goto(p, l),
           pc[p] \notin {"steal_buffer", "steal_read", "steal_leave"},
           l \notin {"steal_buffer", "steal_read", "steal_leave"}
    PROVE  InSection' = InSection
  BY DEF TypeOK, LocalType, Goto, InSection

LEMMA SectionFinite == IsFiniteSet(InSection)
  <1>1. IsFiniteSet(Procs)
    BY ProcsAssumption, FS_AddElement DEF Procs
  <1> QED
    BY <1>1, FS_Subset DEF InSection

\* A step outside the critical section that neither resizes nor frees.
LEMMA ReclaimFrame ==
    ASSUME TypeOK, ReclaimInv, NEW p \in Procs, NEW l, Goto(p, l),
           pc[p] \notin {"steal_buffer", "steal_read", "steal_leave"},
           l \notin {"steal_buffer", "steal_read", "steal_leave",
                     "push_free", "pop_free"},
           ~dropped \/ pc[p] # "idle",
           \A q \in Procs \ {p} : regs'[q] = regs[q],
           Len(bufs') = Len(bufs),
           UNCHANGED <<buffer, retired, freed, inFlight, dropped>>
    PROVE  ReclaimInv'
  <1>0. Owner \in Procs
    BY OwnerIsProc
  <1>1. ~dropped
    BY DEF ReclaimInv
  <1>2. InSection' = InSection
    BY SectionFrame
  <1>3. pc' = [pc EXCEPT ![p] = l] /\ DOMAIN pc = Procs
    BY DEF Goto, TypeOK, LocalType
  <1>4. NoUseAfterFree' /\ BufferAccounting'
    BY <1>3 DEF ReclaimInv, NoUseAfterFree, BufferAccounting, Buffers
  <1>5. pc'[Owner] \in {"push_free", "pop_free"} =>
          \A q \in Procs : pc'[q] = "steal_read" => regs'[q].buf = buffer'
    BY <1>0, <1>3 DEF ReclaimInv
  <1> QED
    BY <1>1, <1>2, <1>4, <1>5 DEF ReclaimInv

\* A resize: the new buffer is fresh, and the old one joins the retire list.
LEMMA ReclaimInstall ==
    ASSUME TypeOK, ReclaimInv, NEW newCap \in Nat \ {0},
           NEW next \in {"push_reclaim", "pop_reclaim"}, Install(newCap, next),
           pc[Owner] \in {"push_grow", "pop_shrink"}
    PROVE  ReclaimInv'
  <1>0. Owner \in Procs
    BY OwnerIsProc
  <1>1. ~dropped
    BY <1>0 DEF ReclaimInv
  <1>2. InSection' = InSection
    BY <1>0, SectionFrame DEF Install
  <1>3. Len(bufs') = Len(bufs) + 1
    BY InstallMemory
  <1>4. pc' = [pc EXCEPT ![Owner] = next] /\ DOMAIN pc = Procs
    BY DEF Install, Goto, TypeOK, LocalType
  <1>5. /\ buffer' = Len(bufs) + 1
        /\ retired' = retired \cup {buffer}
        /\ UNCHANGED <<freed, inFlight, regs, dropped>>
    BY DEF Install, historyVars
  <1>6. Len(bufs) \in Nat /\ freed \subseteq 1..Len(bufs)
        /\ retired \subseteq 1..Len(bufs) /\ buffer \in 1..Len(bufs)
    BY DEF TypeOK, MemoryType, Buffers
  <1>7. NoUseAfterFree'
    BY <1>0, <1>4, <1>5, <1>6 DEF ReclaimInv, NoUseAfterFree
  <1>8. BufferAccounting'
    BY <1>1, <1>3, <1>5, <1>6
    DEF ReclaimInv, NoUseAfterFree, BufferAccounting, Buffers
  <1> QED
    BY <1>0, <1>1, <1>2, <1>4, <1>5, <1>7, <1>8 DEF ReclaimInv

\* The load of in_flight: at zero the critical section is empty.
LEMMA ReclaimLoad ==
    ASSUME TypeOK, ReclaimInv,
           NEW free \in {"push_free", "pop_free"},
           NEW next \in {"push_write", "pop_done"}, LoadInFlight(free, next),
           pc[Owner] \in {"push_reclaim", "pop_reclaim"}
    PROVE  ReclaimInv'
  <1>0. Owner \in Procs
    BY OwnerIsProc
  <1>1. ~dropped
    BY <1>0 DEF ReclaimInv
  <1> DEFINE l == IF inFlight = 0 THEN free ELSE next
  <1>2. /\ Goto(Owner, l)
        /\ UNCHANGED <<bufs, buffer, retired, freed, inFlight, regs, dropped>>
    BY DEF LoadInFlight, memoryVars, historyVars
  <1>3. InSection' = InSection
    BY <1>0, <1>2, SectionFrame
  <1>4. pc' = [pc EXCEPT ![Owner] = l] /\ DOMAIN pc = Procs
    BY <1>2 DEF Goto, TypeOK, LocalType
  <1>5. NoUseAfterFree' /\ BufferAccounting'
    BY <1>0, <1>2, <1>4 DEF ReclaimInv, NoUseAfterFree, BufferAccounting,
       Buffers
  <1>6. pc'[Owner] \in {"push_free", "pop_free"} =>
          \A q \in Procs : pc'[q] = "steal_read" => regs'[q].buf = buffer'
    <2>1. CASE inFlight = 0
      <3>1. InSection = {}
        BY <2>1, SectionFinite, FS_EmptySet DEF ReclaimInv
      <3>2. \A q \in Procs : pc[q] # "steal_read"
        BY <3>1 DEF InSection
      <3> QED
        BY <1>0, <1>4, <3>2
    <2>2. CASE inFlight # 0
      BY <1>0, <1>4, <2>2
    <2> QED
      BY <2>1, <2>2
  <1> QED
    BY <1>1, <1>2, <1>3, <1>5, <1>6 DEF ReclaimInv

\* Freeing the retire list takes no buffer from under a reader.
LEMMA ReclaimFree ==
    ASSUME TypeOK, ReclaimInv,
           NEW next \in {"push_write", "pop_done"}, FreeRetired(next),
           pc[Owner] \in {"push_free", "pop_free"}
    PROVE  ReclaimInv'
  <1>0. Owner \in Procs
    BY OwnerIsProc
  <1>1. ~dropped
    BY <1>0 DEF ReclaimInv
  <1>2. /\ Goto(Owner, next)
        /\ freed' = freed \cup retired
        /\ retired' = {}
        /\ UNCHANGED <<bufs, buffer, inFlight, regs, dropped>>
    BY DEF FreeRetired, historyVars
  <1>3. InSection' = InSection
    BY <1>0, <1>2, SectionFrame
  <1>4. pc' = [pc EXCEPT ![Owner] = next] /\ DOMAIN pc = Procs
    BY <1>2 DEF Goto, TypeOK, LocalType
  <1>5. NoUseAfterFree'
    BY <1>0, <1>2, <1>4 DEF ReclaimInv, NoUseAfterFree, BufferAccounting
  <1>6. BufferAccounting'
    BY <1>2 DEF ReclaimInv, BufferAccounting, Buffers
  <1> QED
    BY <1>0, <1>1, <1>2, <1>3, <1>4, <1>5, <1>6 DEF ReclaimInv

LEMMA ReclaimInit == Init => ReclaimInv
  <1> SUFFICES ASSUME Init PROVE ReclaimInv
    OBVIOUS
  <1>1. InSection = {}
    BY DEF Init, InSection
  <1>2. Len(bufs) = 1
    BY DEF Init
  <1>3. NoUseAfterFree /\ BufferAccounting
    BY <1>2 DEF Init, NoUseAfterFree, BufferAccounting, Buffers
  <1> QED
    BY <1>1, <1>3, OwnerIsProc, FS_EmptySet DEF Init, ReclaimInv

LEMMA ReclaimStep == TypeOK /\ ReclaimInv /\ [Next]_vars => ReclaimInv'
  <1> SUFFICES ASSUME TypeOK, ReclaimInv, [Next]_vars
               PROVE  ReclaimInv'
    OBVIOUS
  <1>0. Owner \in Procs
    BY OwnerIsProc
  <1> USE DEF memoryVars, historyVars
  <1>a. pc \in [Procs -> {"idle"} \cup PushPc \cup PopPc \cup StealPc]
        /\ DOMAIN regs = Procs
    BY DEF TypeOK, LocalType
  <1>1. CASE PushBegin
    BY <1>0, <1>a, <1>1, ReclaimFrame DEF PushBegin, Return
  <1>2. CASE PushLoadTop
    BY <1>0, <1>a, <1>2, ReclaimFrame DEF PushLoadTop, Return
  <1>3. CASE PushGrow
    <2>1. ActiveCap \in Nat \ {0}
      BY DEF ActiveCap, TypeOK, MemoryType, Buffers
    <2>2. 2 * ActiveCap \in Nat \ {0}
      BY <2>1, ParameterAssumption DEF ShrunkCap
    <2> QED
      BY <1>3, <2>2, ReclaimInstall DEF PushGrow
  <1>4. CASE PushReclaim
    BY <1>4, ReclaimLoad DEF PushReclaim
  <1>5. CASE PushFree
    BY <1>5, ReclaimFree DEF PushFree
  <1>6. CASE PushWrite
    <2>1. Len(bufs') = Len(bufs)
      BY <1>6, WriteMemory
    <2> QED
      BY <1>0, <1>a, <1>6, <2>1, ReclaimFrame DEF PushWrite
  <1>7. CASE PushPublish
    BY <1>0, <1>a, <1>7, ReclaimFrame DEF PushPublish, Return
  <1>8. CASE PopBegin
    BY <1>0, <1>a, <1>8, ReclaimFrame DEF PopBegin, Return
  <1>9. CASE PopFindEmpty
    BY <1>0, <1>a, <1>9, ReclaimFrame DEF PopFindEmpty, Return
  <1>10. CASE PopRestoreEmpty
    BY <1>0, <1>a, <1>10, ReclaimFrame DEF PopRestoreEmpty, Return
  <1>11. CASE PopTake
    <2>1. CASE ShrinkWanted(bottom - top, ActiveCap)
      BY <1>0, <1>a, <1>11, <2>1, ReclaimFrame DEF PopTake
    <2>2. CASE ~ShrinkWanted(bottom - top, ActiveCap)
      BY <1>0, <1>a, <1>11, <2>2, ReclaimFrame DEF PopTake, Return
    <2> QED
      BY <2>1, <2>2
  <1>12. CASE PopShrink
    <2>1. ActiveCap \in Nat \ {0}
      BY DEF ActiveCap, TypeOK, MemoryType, Buffers
    <2>2. ShrunkCap(ActiveCap) \in Nat \ {0}
      BY <2>1, ParameterAssumption DEF ShrunkCap
    <2> QED
      BY <1>12, <2>2, ReclaimInstall DEF PopShrink
  <1>13. CASE PopReclaim
    BY <1>13, ReclaimLoad DEF PopReclaim
  <1>14. CASE PopFree
    BY <1>14, ReclaimFree DEF PopFree
  <1>15. CASE PopDone
    BY <1>0, <1>a, <1>15, ReclaimFrame DEF PopDone, Return
  <1>16. CASE PopFindLast
    BY <1>0, <1>a, <1>16, ReclaimFrame DEF PopFindLast, Return
  <1>17. CASE PopCas
    BY <1>0, <1>a, <1>17, ReclaimFrame DEF PopCas, Return
  <1>18. CASE PopRestoreLast
    BY <1>0, <1>a, <1>18, ReclaimFrame DEF PopRestoreLast, Return
  <1>19. ASSUME NEW p \in Procs, Steal(p)
         PROVE  ReclaimInv'
    <2> USE <1>19
    <2>1. CASE StealLoadTop(p)
      BY <1>a, <2>1, ReclaimFrame DEF StealLoadTop, MaySteal
    <2>2. CASE StealFindEmpty(p)
      BY <1>a, <2>2, ReclaimFrame DEF StealFindEmpty, Return
    <2>3. CASE StealFindTask(p)
      BY <1>a, <2>3, ReclaimFrame DEF StealFindTask
    <2>4. CASE StealEnter(p)
      <3>1. InSection' = InSection \cup {p} /\ p \notin InSection
        BY <1>a, <2>4 DEF StealEnter, Goto, InSection
      <3>2. inFlight' = Cardinality(InSection')
        BY <2>4, <3>1, SectionFinite, FS_AddElement DEF StealEnter, ReclaimInv
      <3> QED
        BY <1>0, <1>a, <2>4, <3>2
        DEF StealEnter, Goto, ReclaimInv, NoUseAfterFree, BufferAccounting,
           Buffers
    <2>5. CASE StealLoadBuffer(p)
      <3>1. InSection' = InSection
        BY <1>a, <2>5 DEF StealLoadBuffer, Goto, InSection
      <3>2. ~dropped /\ buffer \notin freed
        BY <2>5 DEF StealLoadBuffer, ReclaimInv, NoUseAfterFree
      <3>3. /\ pc' = [pc EXCEPT ![p] = "steal_read"]
            /\ regs'[p].buf = buffer
            /\ \A q \in Procs \ {p} : regs'[q] = regs[q]
        BY <2>5 DEF StealLoadBuffer, Goto, TypeOK, LocalType
      <3>4. UNCHANGED <<bufs, buffer, retired, freed, inFlight, dropped>>
        BY <2>5 DEF StealLoadBuffer
      <3>5. NoUseAfterFree' /\ BufferAccounting'
        BY <1>a, <3>2, <3>3, <3>4
        DEF ReclaimInv, NoUseAfterFree, BufferAccounting, Buffers
      <3>6. pc'[Owner] \in {"push_free", "pop_free"} =>
              \A q \in Procs : pc'[q] = "steal_read" => regs'[q].buf = buffer'
        BY <1>0, <1>a, <3>3, <3>4 DEF ReclaimInv
      <3> QED
        BY <3>1, <3>2, <3>4, <3>5, <3>6 DEF ReclaimInv
    <2>6. CASE StealRead(p)
      <3>1. InSection' = InSection
        BY <1>a, <2>6 DEF StealRead, Goto, InSection
      <3>2. ~dropped
        BY <2>6 DEF StealRead, ReclaimInv
      <3>3. /\ pc' = [pc EXCEPT ![p] = "steal_leave"]
            /\ \A q \in Procs \ {p} : regs'[q] = regs[q]
        BY <2>6 DEF StealRead, Goto, TypeOK, LocalType
      <3>4. UNCHANGED <<bufs, buffer, retired, freed, inFlight, dropped>>
        BY <2>6 DEF StealRead
      <3>5. NoUseAfterFree' /\ BufferAccounting'
        BY <1>a, <3>3, <3>4
        DEF ReclaimInv, NoUseAfterFree, BufferAccounting, Buffers
      <3>6. pc'[Owner] \in {"push_free", "pop_free"} =>
              \A q \in Procs : pc'[q] = "steal_read" => regs'[q].buf = buffer'
        BY <1>0, <1>a, <3>3, <3>4 DEF ReclaimInv
      <3> QED
        BY <3>1, <3>2, <3>4, <3>5, <3>6 DEF ReclaimInv
    <2>7. CASE StealLeave(p)
      <3>1. InSection' = InSection \ {p} /\ p \in InSection
        BY <1>a, <2>7 DEF StealLeave, Goto, InSection
      <3>2. inFlight' = Cardinality(InSection')
        BY <2>7, <3>1, SectionFinite, FS_RemoveElement
           DEF StealLeave, ReclaimInv
      <3> QED
        BY <1>0, <1>a, <2>7, <3>2
        DEF StealLeave, Goto, ReclaimInv, NoUseAfterFree, BufferAccounting,
           Buffers
    <2>8. CASE StealCas(p)
      <3>1. CASE Return(p)
        BY <1>a, <2>8, <3>1, ReclaimFrame DEF StealCas, Return
      <3>2. CASE ~Return(p)
        BY <1>a, <2>8, <3>2, ReclaimFrame DEF StealCas
      <3> QED
        BY <3>1, <3>2
    <2> QED
      BY <2>1, <2>2, <2>3, <2>4, <2>5, <2>6, <2>7, <2>8 DEF Steal
  <1>20. ASSUME NEW p \in Procs, Drop(p)
         PROVE  ReclaimInv'
    <2>1. /\ \A q \in Procs : pc[q] = "idle"
          /\ dropped' = TRUE
          /\ freed' = freed \cup retired \cup {buffer}
          /\ retired' = {}
          /\ UNCHANGED <<buffer, bufs, inFlight, pc, regs>>
      BY <1>20 DEF Drop
    <2>2. InSection' = InSection
      BY <2>1 DEF InSection
    <2>3. NoUseAfterFree' /\ BufferAccounting'
      BY <2>1 DEF ReclaimInv, NoUseAfterFree, BufferAccounting, Buffers
    <2> QED
      BY <1>0, <2>1, <2>2, <2>3 DEF ReclaimInv
  <1>21. CASE UNCHANGED vars
    BY <1>21 DEF vars, ReclaimInv, InSection, NoUseAfterFree, BufferAccounting,
                 Buffers
  <1> QED
    BY <1>1, <1>2, <1>3, <1>4, <1>5, <1>6, <1>7, <1>8, <1>9, <1>10, <1>11,
       <1>12, <1>13, <1>14, <1>15, <1>16, <1>17, <1>18, <1>19, <1>20, <1>21
       DEF Next, Push, Pop

-----------------------------------------------------------------------------
(* The theorems so far.                                                    *)

\* The deque of lib.rs never confuses what it stores, its in_flight counter
\* counts exactly the thieves in their critical section, and its retire list
\* accounts for every buffer.
THEOREM ReclamationCorrect == Spec => [](TypeOK /\ ReclaimInv)
  <1>1. Init => TypeOK /\ ReclaimInv
    BY TypeInit, ReclaimInit
  <1>2. TypeOK /\ ReclaimInv /\ [Next]_vars => (TypeOK /\ ReclaimInv)'
    BY TypeStep, ReclaimStep
  <1> QED
    BY <1>1, <1>2, PTL DEF Spec

\* The type invariant of lib.rs's deque.
THEOREM TypeCorrect == Spec => []TypeOK
  BY ReclamationCorrect, PTL

\* try_reclaim (lib.rs 285-297) frees no buffer that a thief is about to read
\* from or that the owner works on, however resizes and steals interleave.
THEOREM ReclamationSafe == Spec => []NoUseAfterFree
  <1>1. ReclaimInv => NoUseAfterFree
    BY DEF ReclaimInv
  <1> QED
    BY <1>1, ReclamationCorrect, PTL

\* No buffer is leaked by retire and try_reclaim and none is freed twice.
THEOREM NoBufferLeaked == Spec => []BufferAccounting
  <1>1. ReclaimInv => BufferAccounting
    BY DEF ReclaimInv
  <1> QED
    BY <1>1, ReclamationCorrect, PTL

-----------------------------------------------------------------------------
(* Indices.                                                                *)

\* What the type invariant says of the numbers that the steps compare.
LEMMA IndexFacts ==
    ASSUME TypeOK
    PROVE  /\ top \in Int /\ bottom \in Int /\ cachedTop \in Int
           /\ ActiveCap \in Nat /\ ActiveCap > 0
           /\ EffectiveBottom \in Int
           /\ \A p \in Procs : regs[p].t \in Int
           /\ Owner \in Procs
           /\ pc \in [Procs -> {"idle"} \cup PushPc \cup PopPc \cup StealPc]
           /\ DOMAIN regs = Procs
  BY OwnerIsProc DEF TypeOK, IndexType, MemoryType, LocalType, Buffers,
                     ActiveCap, EffectiveBottom

\* A buffer that is shrunk still has room for the tasks that are left.
LEMMA ShrinkFits ==
    ASSUME NEW cap \in Nat, cap > 0, NEW size \in Int, ShrinkWanted(size, cap)
    PROVE  ShrunkCap(cap) \in Nat /\ ShrunkCap(cap) > 0 /\ size < ShrunkCap(cap)
  <1>1. ShrinkFactor \in Nat /\ ShrinkFactor > 2 /\ MinCapacity \in Nat
        /\ MinCapacity > 0
    BY ParameterAssumption
  <1>2. cap \div ShrinkFactor <= cap \div 2
    BY <1>1
  <1>3. size < cap \div ShrinkFactor
    BY DEF ShrinkWanted
  <1>4. cap \div ShrinkFactor \in Int /\ cap \div 2 \in Int
    BY <1>1
  <1> QED
    BY <1>1, <1>2, <1>3, <1>4 DEF ShrunkCap

LEMMA IndexInit == Init => IndexInv
  <1> SUFFICES ASSUME Init PROVE IndexInv
    OBVIOUS
  <1>1. ActiveCap = InitCap
    BY ParameterAssumption DEF Init, ActiveCap, Alloc
  <1> QED
    BY <1>1, OwnerIsProc, ParameterAssumption
    DEF Init, IndexInv, EffectiveBottom, NoRegs, StealPc

LEMMA IndexStep == TypeOK /\ IndexInv /\ [Next]_vars => IndexInv'
  <1> SUFFICES ASSUME TypeOK, IndexInv, [Next]_vars
               PROVE  IndexInv'
    OBVIOUS
  <1>0. /\ top \in Int /\ bottom \in Int /\ cachedTop \in Int
        /\ ActiveCap \in Nat /\ ActiveCap > 0
        /\ EffectiveBottom \in Int
        /\ \A p \in Procs : regs[p].t \in Int
        /\ Owner \in Procs
        /\ pc \in [Procs -> {"idle"} \cup PushPc \cup PopPc \cup StealPc]
        /\ DOMAIN regs = Procs
    BY IndexFacts
  <1> USE DEF indexVars, memoryVars, StealPc
  <1>1. CASE PushBegin
    <2>1. ActiveCap' = ActiveCap
      BY <1>1 DEF PushBegin, ActiveCap
    <2> QED
      BY <1>0, <1>1, <2>1 DEF PushBegin, Goto, IndexInv, EffectiveBottom, IsFull
  <1>2. CASE PushLoadTop
    <2>1. ActiveCap' = ActiveCap
      BY <1>2 DEF PushLoadTop, ActiveCap
    <2> QED
      BY <1>0, <1>2, <2>1 DEF PushLoadTop, Goto, IndexInv, EffectiveBottom,
         IsFull
  <1>3. CASE PushGrow
    <2>1. Install(2 * ActiveCap, "push_reclaim")
      BY <1>3 DEF PushGrow
    <2>2. 2 * ActiveCap \in Nat \ {0}
      BY <1>0
    <2>3. ActiveCap' = 2 * ActiveCap
      BY <2>1, <2>2, InstallMemory DEF Install, ActiveCap
    <2>4. bottom - top < 2 * ActiveCap - 1
      BY <1>0, <1>3 DEF PushGrow, IndexInv
    <2> HIDE DEF StealPc
    <2>5. UNCHANGED <<top, bottom, cachedTop, regs>>
          /\ pc' = [pc EXCEPT ![Owner] = "push_reclaim"]
      BY <2>1 DEF Install, Goto
    <2> QED
      BY <1>0, <1>3, <2>2, <2>3, <2>4, <2>5
      DEF PushGrow, IndexInv, EffectiveBottom, StealPc
  <1>4. CASE PushReclaim
    <2>1. ActiveCap' = ActiveCap
      BY <1>4 DEF PushReclaim, LoadInFlight, ActiveCap
    <2> QED
      BY <1>0, <1>4, <2>1 DEF PushReclaim, Goto, IndexInv, EffectiveBottom,
         LoadInFlight
  <1>5. CASE PushFree
    <2>1. ActiveCap' = ActiveCap
      BY <1>5 DEF PushFree, FreeRetired, ActiveCap
    <2> QED
      BY <1>0, <1>5, <2>1 DEF PushFree, Goto, IndexInv, EffectiveBottom,
         FreeRetired
  <1>6. CASE PushWrite
    <2>1. ActiveCap' = ActiveCap
      BY <1>6, WriteMemory DEF PushWrite, ActiveCap, TypeOK, MemoryType
    <2> QED
      BY <1>0, <1>6, <2>1 DEF PushWrite, Goto, IndexInv, EffectiveBottom
  <1>7. CASE PushPublish
    <2>1. ActiveCap' = ActiveCap
      BY <1>7 DEF PushPublish, ActiveCap
    <2> QED
      BY <1>0, <1>7, <2>1 DEF PushPublish, Goto, IndexInv, EffectiveBottom,
         Return
  <1>8. CASE PopBegin
    <2>1. ActiveCap' = ActiveCap
      BY <1>8 DEF PopBegin, ActiveCap
    <2> QED
      BY <1>0, <1>8, <2>1 DEF PopBegin, Goto, IndexInv, EffectiveBottom
  <1>9. CASE PopFindEmpty
    <2>1. ActiveCap' = ActiveCap
      BY <1>9 DEF PopFindEmpty, ActiveCap
    <2> QED
      BY <1>0, <1>9, <2>1 DEF PopFindEmpty, Goto, IndexInv, EffectiveBottom
  <1>10. CASE PopRestoreEmpty
    <2>1. ActiveCap' = ActiveCap
      BY <1>10 DEF PopRestoreEmpty, ActiveCap
    <2> QED
      BY <1>0, <1>10, <2>1 DEF PopRestoreEmpty, Goto, IndexInv,
         EffectiveBottom, Return
  <1>11. CASE PopTake
    <2>1. ActiveCap' = ActiveCap
      BY <1>11 DEF PopTake, ActiveCap
    <2>2. CASE ShrinkWanted(bottom - top, ActiveCap)
      <3>1. /\ regs'[Owner].t = top
            /\ \A p \in Procs \ {Owner} : regs'[p] = regs[p]
            /\ pc' = [pc EXCEPT ![Owner] = "pop_shrink"]
            /\ UNCHANGED <<top, bottom, cachedTop>>
            /\ pc[Owner] = "pop_top" /\ bottom > top
        BY <1>0, <1>11, <2>2 DEF PopTake, Goto, TypeOK, LocalType
      <3> QED
        BY <1>0, <2>1, <2>2, <3>1 DEF IndexInv, EffectiveBottom
    <2>3. CASE ~ShrinkWanted(bottom - top, ActiveCap)
      BY <1>0, <1>11, <2>1, <2>3
      DEF PopTake, Goto, Return, IndexInv, EffectiveBottom
    <2> QED
      BY <2>2, <2>3
  <1>12. CASE PopShrink
    <2>1. Install(ShrunkCap(ActiveCap), "pop_reclaim")
      BY <1>12 DEF PopShrink
    <2>2. ShrunkCap(ActiveCap) \in Nat \ {0}
      BY <1>0, <1>12, ShrinkFits DEF PopShrink, IndexInv
    <2>3. ActiveCap' = ShrunkCap(ActiveCap)
      BY <2>1, <2>2, InstallMemory DEF Install, ActiveCap
    <2>4. bottom - top < ShrunkCap(ActiveCap)
      BY <1>0, <1>12, ShrinkFits DEF PopShrink, IndexInv
    <2> HIDE DEF StealPc
    <2>5. UNCHANGED <<top, bottom, cachedTop, regs>>
          /\ pc' = [pc EXCEPT ![Owner] = "pop_reclaim"]
      BY <2>1 DEF Install, Goto
    <2> QED
      BY <1>0, <1>12, <2>2, <2>3, <2>4, <2>5
      DEF PopShrink, IndexInv, EffectiveBottom, StealPc
  <1>13. CASE PopReclaim
    <2>1. ActiveCap' = ActiveCap
      BY <1>13 DEF PopReclaim, LoadInFlight, ActiveCap
    <2> QED
      BY <1>0, <1>13, <2>1 DEF PopReclaim, Goto, IndexInv, EffectiveBottom,
         LoadInFlight
  <1>14. CASE PopFree
    <2>1. ActiveCap' = ActiveCap
      BY <1>14 DEF PopFree, FreeRetired, ActiveCap
    <2> QED
      BY <1>0, <1>14, <2>1 DEF PopFree, Goto, IndexInv, EffectiveBottom,
         FreeRetired
  <1>15. CASE PopDone
    <2>1. ActiveCap' = ActiveCap
      BY <1>15 DEF PopDone, ActiveCap
    <2> QED
      BY <1>0, <1>15, <2>1 DEF PopDone, Goto, IndexInv, EffectiveBottom, Return
  <1>16. CASE PopFindLast
    <2>1. ActiveCap' = ActiveCap
      BY <1>16 DEF PopFindLast, ActiveCap
    <2> QED
      BY <1>0, <1>16, <2>1 DEF PopFindLast, Goto, IndexInv, EffectiveBottom
  <1>17. CASE PopCas
    <2>1. ActiveCap' = ActiveCap
      BY <1>17 DEF PopCas, ActiveCap
    <2> QED
      BY <1>0, <1>17, <2>1 DEF PopCas, Goto, IndexInv, EffectiveBottom
  <1>18. CASE PopRestoreLast
    <2>1. ActiveCap' = ActiveCap
      BY <1>18 DEF PopRestoreLast, ActiveCap
    <2> QED
      BY <1>0, <1>18, <2>1 DEF PopRestoreLast, Goto, IndexInv, EffectiveBottom,
         Return
  <1>19. ASSUME NEW p \in Procs, Steal(p)
         PROVE  IndexInv'
    <2> USE <1>19
    <2>1. CASE StealLoadTop(p)
      <3>1. ActiveCap' = ActiveCap
        BY <2>1 DEF StealLoadTop, ActiveCap
      <3> QED
        BY <1>0, <2>1, <3>1 DEF StealLoadTop, MaySteal, Goto, IndexInv,
           EffectiveBottom
    <2>2. CASE StealFindEmpty(p)
      <3>1. ActiveCap' = ActiveCap
        BY <2>2 DEF StealFindEmpty, ActiveCap
      <3> QED
        BY <1>0, <2>2, <3>1 DEF StealFindEmpty, Return, Goto, IndexInv,
           EffectiveBottom
    <2>3. CASE StealFindTask(p)
      <3>1. ActiveCap' = ActiveCap
        BY <2>3 DEF StealFindTask, ActiveCap
      <3> QED
        BY <1>0, <2>3, <3>1 DEF StealFindTask, Goto, IndexInv, EffectiveBottom
    <2>4. CASE StealEnter(p)
      <3>1. ActiveCap' = ActiveCap
        BY <2>4 DEF StealEnter, ActiveCap
      <3> QED
        BY <1>0, <2>4, <3>1 DEF StealEnter, Goto, IndexInv, EffectiveBottom
    <2>5. CASE StealLoadBuffer(p)
      <3>1. ActiveCap' = ActiveCap
        BY <2>5 DEF StealLoadBuffer, ActiveCap
      <3> QED
        BY <1>0, <2>5, <3>1 DEF StealLoadBuffer, Goto, IndexInv, EffectiveBottom
    <2>6. CASE StealRead(p)
      <3>1. ActiveCap' = ActiveCap
        BY <2>6 DEF StealRead, ActiveCap
      <3> QED
        BY <1>0, <2>6, <3>1 DEF StealRead, Goto, IndexInv, EffectiveBottom
    <2>7. CASE StealLeave(p)
      <3>1. ActiveCap' = ActiveCap
        BY <2>7 DEF StealLeave, ActiveCap
      <3> QED
        BY <1>0, <2>7, <3>1 DEF StealLeave, Goto, IndexInv, EffectiveBottom
    <2>8. CASE StealCas(p)
      <3>1. ActiveCap' = ActiveCap
        BY <2>8 DEF StealCas, ActiveCap
      <3> QED
        BY <1>0, <2>8, <3>1 DEF StealCas, Return, Goto, IndexInv,
           EffectiveBottom
    <2> QED
      BY <2>1, <2>2, <2>3, <2>4, <2>5, <2>6, <2>7, <2>8 DEF Steal
  <1>20. ASSUME NEW p \in Procs, Drop(p)
         PROVE  IndexInv'
    <2>1. ActiveCap' = ActiveCap
      BY <1>20 DEF Drop, ActiveCap
    <2> QED
      BY <1>20, <2>1 DEF Drop, IndexInv, EffectiveBottom
  <1>21. CASE UNCHANGED vars
    BY <1>21 DEF vars, IndexInv, EffectiveBottom, ActiveCap
  <1> QED
    BY <1>1, <1>2, <1>3, <1>4, <1>5, <1>6, <1>7, <1>8, <1>9, <1>10, <1>11,
       <1>12, <1>13, <1>14, <1>15, <1>16, <1>17, <1>18, <1>19, <1>20, <1>21
       DEF Next, Push, Pop

-----------------------------------------------------------------------------
(* The ring.                                                               *)

\* Two indices less than a round apart have different cells.
LEMMA SlotInjective ==
    ASSUME NEW cap \in Nat, cap > 0, NEW i \in Int, NEW j \in Int,
           i - j < cap, j - i < cap, Slot(i, cap) = Slot(j, cap)
    PROVE  i = j
  <1>1. i % cap = j % cap
    BY DEF Slot
  <1> DEFINE q == i \div cap
             r == j \div cap
  <1>2. i = cap * q + (i % cap) /\ j = cap * r + (j % cap)
        /\ q \in Int /\ r \in Int
    OBVIOUS
  <1> HIDE DEF q, r
  <1>3. i - j = cap * (q - r)
    BY <1>1, <1>2
  <1>4. CASE q > r
    BY <1>2, <1>3, <1>4
  <1>5. CASE q < r
    BY <1>2, <1>3, <1>5
  <1> QED
    BY <1>2, <1>3, <1>4, <1>5

\* A resize keeps what every index in the copied range selects.
LEMMA ResizedCell ==
    ASSUME NEW old \in Seq(Nat), Len(old) > 0,
           NEW newCap \in Nat, newCap > 0,
           NEW b \in Int, NEW t \in Int, b - t <= newCap, NEW i \in t..b-1
    PROVE  CellOf(Resized(old, newCap, b, t), i) = CellOf(old, i)
  <1> DEFINE live(s) == {j \in t..b-1 : Slot(j, newCap) = s}
             s == Slot(i, newCap)
  <1>0. i \in Int /\ newCap \in Nat /\ newCap > 0
    OBVIOUS
  <1>1. Slot(i, newCap) \in 1..newCap
    BY <1>0, SlotInRange, Zenon
  <1>2. i \in live(s)
    OBVIOUS
  <1>3. \A j \in live(s) : j = i
    BY SlotInjective
  <1>4. (CHOOSE j \in live(s) : TRUE) = i
    BY <1>2, <1>3
  <1>5. Resized(old, newCap, b, t)[s] = CellOf(old, i)
    BY <1>1, <1>2, <1>4 DEF Resized
  <1>6. Len(Resized(old, newCap, b, t)) = newCap
    BY ResizedType
  <1> HIDE DEF live
  <1> QED
    BY <1>5, <1>6 DEF CellOf

\* A push overwrites none of the indices less than a round below bottom.
LEMMA WriteCell ==
    ASSUME TypeOK, PushWrite
    PROVE  /\ Active(bottom)' = Len(recipients) + 1
           /\ \A i \in Int : i < bottom /\ bottom - i < ActiveCap =>
                Active(i)' = Active(i)
  <1> DEFINE old == bufs[buffer]
             new == bufs'[buffer]
             s == Slot(bottom, ActiveCap)
  <1>1. /\ old \in Seq(Nat) /\ Len(old) \in Nat /\ Len(old) > 0
        /\ bottom \in Int
        /\ buffer' = buffer /\ bottom' = bottom
    BY DEF TypeOK, MemoryType, IndexType, Buffers, PushWrite, indexVars
  <1>2. new = [old EXCEPT ![s] = Len(recipients) + 1] /\ Len(new) = Len(old)
    BY WriteMemory DEF TypeOK, MemoryType
  <1>3. s \in 1..Len(old)
    BY <1>1, SlotInRange, Zenon DEF ActiveCap
  <1>4. new[s] = Len(recipients) + 1
    BY <1>1, <1>2, <1>3
  <1>5. CellOf(new, bottom) = Len(recipients) + 1
    BY <1>2, <1>4 DEF CellOf, ActiveCap
  <1>6. ASSUME NEW i \in Int, i < bottom, bottom - i < ActiveCap
        PROVE  CellOf(new, i) = CellOf(old, i)
    <2>1. Slot(i, Len(old)) # s
      BY <1>1, <1>6, SlotInjective DEF ActiveCap
    <2>2. Slot(i, Len(old)) \in 1..Len(old)
      BY <1>1, <1>6, SlotInRange, Zenon
    <2>3. new[Slot(i, Len(old))] = old[Slot(i, Len(old))]
      BY <1>1, <1>2, <2>1, <2>2
    <2> QED
      BY <1>2, <2>3 DEF CellOf
  <1> QED
    BY <1>1, <1>5, <1>6 DEF Active

-----------------------------------------------------------------------------
(* The contents of the deque.                                              *)

\* A step that touches neither the cells, the history nor the two ends.
LEMMA ContentFrame ==
    ASSUME ContentInv, EffectiveBottom' = EffectiveBottom,
           UNCHANGED <<top, bufs, buffer, recipients, dropped>>
    PROVE  ContentInv'
  BY DEF ContentInv, AtMostOnce, LiveIndices, Active

\* A step after which every live index selects the same box as before.
LEMMA ContentRelocated ==
    ASSUME ContentInv, ~dropped, LiveIndices' = LiveIndices,
           \A i \in LiveIndices : Active(i)' = Active(i),
           UNCHANGED <<recipients, dropped>>
    PROVE  ContentInv'
  <1> DEFINE old(i) == Active(i)
             new(i) == Active(i)'
             L == LiveIndices
  <1>1. L' = L /\ \A i \in L : new(i) = old(i)
    OBVIOUS
  <1>2. /\ \A i \in L : /\ old(i) \in DOMAIN recipients
                       /\ recipients[old(i)] = <<>>
        /\ \A i, j \in L : i < j => old(i) < old(j)
        /\ \A k \in DOMAIN recipients :
             recipients[k] = <<>> => \E i \in L : old(i) = k
        /\ AtMostOnce
    BY DEF ContentInv
  <1>3. AtMostOnce'
    BY <1>2 DEF AtMostOnce
  <1> HIDE DEF old, new, L
  <1>4. /\ \A i \in L : /\ new(i) \in DOMAIN recipients
                       /\ recipients[new(i)] = <<>>
        /\ \A i, j \in L : i < j => new(i) < new(j)
        /\ \A k \in DOMAIN recipients :
             recipients[k] = <<>> => \E i \in L : new(i) = k
    BY <1>1, <1>2
  <1> QED
    BY <1>1, <1>3, <1>4 DEF ContentInv, new, L

\* What handing a box that nobody has to p makes of the history.
LEMMA TakeLive ==
    ASSUME TypeOK, ContentInv, NEW p \in Procs,
           NEW k \in DOMAIN recipients, recipients[k] = <<>>, TakeBox(p, k)
    PROVE  /\ AtMostOnce'
           /\ DOMAIN recipients' = DOMAIN recipients
           /\ recipients'[k] # <<>>
           /\ \A m \in DOMAIN recipients \ {k} : recipients'[m] = recipients[m]
  <1>1. recipients \in Seq(Seq(Procs))
    BY DEF TypeOK, HistoryType
  <1> DEFINE one == Append(recipients[k], p)
  <1>2. one = <<p>>
    BY <1>1
  <1>3. Len(one) <= 1 /\ one # <<>>
    BY <1>2
  <1>4. recipients' = [recipients EXCEPT ![k] = one]
    BY DEF TakeBox
  <1> HIDE DEF one
  <1>5. /\ DOMAIN recipients' = DOMAIN recipients
        /\ recipients'[k] = one
        /\ \A m \in DOMAIN recipients \ {k} : recipients'[m] = recipients[m]
    BY <1>1, <1>4
  <1>6. \A m \in DOMAIN recipients : Len(recipients[m]) <= 1
    BY DEF ContentInv, AtMostOnce
  <1>7. \A m \in DOMAIN recipients' : Len(recipients'[m]) <= 1
    BY <1>3, <1>5, <1>6, Zenon
  <1> QED
    BY <1>3, <1>5, <1>7 DEF AtMostOnce

\* Taking the task at one end of the live range leaves the others.
LEMMA ContentTake ==
    ASSUME TypeOK, ContentInv, ~dropped, NEW p \in Procs,
           NEW e \in LiveIndices, TakeBox(p, Active(e)),
           LiveIndices' = LiveIndices \ {e},
           UNCHANGED <<bufs, buffer, dropped>>
    PROVE  ContentInv'
  <1> DEFINE A(i) == Active(i)
             L == LiveIndices
  <1>1. \A i : Active(i)' = A(i)
    BY DEF Active
  <1>2. /\ \A i \in L : A(i) \in DOMAIN recipients /\ recipients[A(i)] = <<>>
        /\ \A i, j \in L : i < j => A(i) < A(j)
        /\ \A k \in DOMAIN recipients :
             recipients[k] = <<>> => \E i \in L : A(i) = k
        /\ e \in L /\ L \subseteq Int
    BY DEF ContentInv, LiveIndices
  <1>3. /\ AtMostOnce'
        /\ DOMAIN recipients' = DOMAIN recipients
        /\ recipients'[A(e)] # <<>>
        /\ \A m \in DOMAIN recipients \ {A(e)} : recipients'[m] = recipients[m]
    BY <1>2, TakeLive
  <1>4. DOMAIN recipients \subseteq Nat
    BY DEF TypeOK, HistoryType
  <1>5. LiveIndices' = L \ {e}
    OBVIOUS
  <1> HIDE DEF A, L
  <1>6. \A i \in L \ {e} : A(i) # A(e)
    BY <1>2, <1>4
  <1>7. /\ \A i \in L \ {e} : /\ A(i) \in DOMAIN recipients'
                              /\ recipients'[A(i)] = <<>>
        /\ \A i, j \in L \ {e} : i < j => A(i) < A(j)
    BY <1>2, <1>3, <1>6
  <1>8. \A k \in DOMAIN recipients' :
          recipients'[k] = <<>> => \E i \in L \ {e} : A(i) = k
    BY <1>2, <1>3
  <1> QED
    BY <1>1, <1>3, <1>5, <1>7, <1>8 DEF ContentInv

\* A successful CAS on top claims the oldest task.
LEMMA ContentCas ==
    ASSUME TypeOK, IndexInv, ContentInv, ~dropped, NEW p \in Procs,
           top < EffectiveBottom, top' = top + 1,
           EffectiveBottom' = EffectiveBottom, TakeBox(p, Active(top)),
           UNCHANGED <<bufs, buffer, dropped>>
    PROVE  ContentInv'
  <1>1. top \in Int /\ EffectiveBottom \in Int
    BY IndexFacts
  <1>2. top \in LiveIndices /\ LiveIndices' = LiveIndices \ {top}
    BY <1>1 DEF LiveIndices
  <1> QED
    BY <1>2, ContentTake

LEMMA ExactlyOnceInit == Init => ExactlyOnceInv
  <1> SUFFICES ASSUME Init PROVE ExactlyOnceInv
    OBVIOUS
  <1>1. recipients = <<>> /\ DOMAIN recipients = {} /\ ~dropped
    BY DEF Init
  <1>2. LiveIndices = {}
    BY OwnerIsProc DEF Init, LiveIndices, EffectiveBottom
  <1>3. ContentInv
    BY <1>1, <1>2 DEF ContentInv, AtMostOnce
  <1>4. ClaimInv
    BY OwnerIsProc DEF Init, ClaimInv
  <1> QED
    BY <1>3, <1>4 DEF ExactlyOnceInv

\* A resize relocates the live tasks and loses none: it copies from what the
\* owner last read of top, which is not above the oldest task.
LEMMA InstallCells ==
    ASSUME TypeOK, IndexInv, NEW newCap \in Nat \ {0}, NEW next,
           Install(newCap, next), pc[Owner] \in {"push_grow", "pop_shrink"},
           bottom - regs[Owner].t <= newCap
    PROVE  \A i \in top..bottom-1 : Active(i)' = Active(i)
  <1> SUFFICES ASSUME NEW i \in top..bottom-1
               PROVE  Active(i)' = Active(i)
    OBVIOUS
  <1> DEFINE old == bufs[buffer]
             t == regs[Owner].t
  <1>1. old \in Seq(Nat) /\ Len(old) > 0
    BY DEF TypeOK, MemoryType, Buffers
  <1>2. bottom \in Int /\ t \in Int /\ top \in Int
    BY IndexFacts
  <1>3. t <= top
    BY DEF IndexInv
  <1>4. /\ i \in t..bottom-1
        /\ newCap \in Nat /\ newCap > 0
        /\ bottom - t <= newCap
    BY <1>2, <1>3
  <1>5. bufs'[buffer'] = Resized(old, newCap, bottom, t)
    BY InstallMemory DEF Install
  <1> HIDE DEF old, t
  <1>6. CellOf(Resized(old, newCap, bottom, t), i) = CellOf(old, i)
    BY <1>1, <1>2, <1>4, ResizedCell
  <1> QED
    BY <1>5, <1>6 DEF Active, old

LEMMA ContentStep ==
    TypeOK /\ ReclaimInv /\ IndexInv /\ ExactlyOnceInv /\ [Next]_vars
        => ContentInv'
  <1> SUFFICES ASSUME TypeOK, ReclaimInv, IndexInv, ContentInv, ClaimInv,
                      [Next]_vars
               PROVE  ContentInv'
    BY DEF ExactlyOnceInv
  <1>0. /\ top \in Int /\ bottom \in Int /\ cachedTop \in Int
        /\ ActiveCap \in Nat /\ ActiveCap > 0
        /\ EffectiveBottom \in Int
        /\ \A p \in Procs : regs[p].t \in Int
        /\ Owner \in Procs
        /\ pc \in [Procs -> {"idle"} \cup PushPc \cup PopPc \cup StealPc]
        /\ DOMAIN regs = Procs
    BY IndexFacts
  <1>a. \A p \in Procs : pc[p] # "idle" => ~dropped
    BY DEF ReclaimInv
  <1> USE DEF indexVars, memoryVars, historyVars
  <1>1. CASE PushBegin
    <2>1. EffectiveBottom' = EffectiveBottom
      BY <1>0, <1>1 DEF PushBegin, Goto, EffectiveBottom, IndexInv
    <2> QED
      BY <1>1, <2>1, ContentFrame DEF PushBegin
  <1>2. CASE PushLoadTop
    <2>1. EffectiveBottom' = EffectiveBottom
      BY <1>0, <1>2 DEF PushLoadTop, Goto, EffectiveBottom, IndexInv
    <2> QED
      BY <1>2, <2>1, ContentFrame DEF PushLoadTop
  <1>4. CASE PushReclaim
    <2>1. EffectiveBottom' = EffectiveBottom
      BY <1>0, <1>4 DEF PushReclaim, LoadInFlight, Goto, EffectiveBottom,
         IndexInv
    <2> QED
      BY <1>4, <2>1, ContentFrame DEF PushReclaim, LoadInFlight
  <1>5. CASE PushFree
    <2>1. EffectiveBottom' = EffectiveBottom
      BY <1>0, <1>5 DEF PushFree, FreeRetired, Goto, EffectiveBottom, IndexInv
    <2> QED
      BY <1>5, <2>1, ContentFrame DEF PushFree, FreeRetired
  <1>8. CASE PopBegin
    <2>1. EffectiveBottom' = EffectiveBottom
      BY <1>0, <1>8 DEF PopBegin, Goto, EffectiveBottom, IndexInv
    <2> QED
      BY <1>8, <2>1, ContentFrame DEF PopBegin
  <1>9. CASE PopFindEmpty
    <2>1. EffectiveBottom' = EffectiveBottom
      BY <1>0, <1>9 DEF PopFindEmpty, Goto, EffectiveBottom, IndexInv
    <2> QED
      BY <1>9, <2>1, ContentFrame DEF PopFindEmpty
  <1>10. CASE PopRestoreEmpty
    <2>1. EffectiveBottom' = EffectiveBottom
      BY <1>0, <1>10 DEF PopRestoreEmpty, Return, Goto, EffectiveBottom,
         IndexInv
    <2> QED
      BY <1>10, <2>1, ContentFrame DEF PopRestoreEmpty
  <1>13. CASE PopReclaim
    <2>1. EffectiveBottom' = EffectiveBottom
      BY <1>0, <1>13 DEF PopReclaim, LoadInFlight, Goto, EffectiveBottom,
         IndexInv
    <2> QED
      BY <1>13, <2>1, ContentFrame DEF PopReclaim, LoadInFlight
  <1>14. CASE PopFree
    <2>1. EffectiveBottom' = EffectiveBottom
      BY <1>0, <1>14 DEF PopFree, FreeRetired, Goto, EffectiveBottom, IndexInv
    <2> QED
      BY <1>14, <2>1, ContentFrame DEF PopFree, FreeRetired
  <1>15. CASE PopDone
    <2>1. EffectiveBottom' = EffectiveBottom
      BY <1>0, <1>15 DEF PopDone, Return, Goto, EffectiveBottom, IndexInv
    <2> QED
      BY <1>15, <2>1, ContentFrame DEF PopDone
  <1>16. CASE PopFindLast
    <2>1. EffectiveBottom' = EffectiveBottom
      BY <1>0, <1>16 DEF PopFindLast, Goto, EffectiveBottom, IndexInv
    <2> QED
      BY <1>16, <2>1, ContentFrame DEF PopFindLast
  <1>18. CASE PopRestoreLast
    <2>1. EffectiveBottom' = EffectiveBottom
      BY <1>0, <1>18 DEF PopRestoreLast, Return, Goto, EffectiveBottom, IndexInv
    <2> QED
      BY <1>18, <2>1, ContentFrame DEF PopRestoreLast
  <1>3. CASE PushGrow
    <2>1. Install(2 * ActiveCap, "push_reclaim") /\ pc[Owner] = "push_grow"
      BY <1>3 DEF PushGrow
    <2>2. bottom - regs[Owner].t <= 2 * ActiveCap /\ 2 * ActiveCap \in Nat \ {0}
      BY <1>0, <2>1 DEF IndexInv
    <2>3. LiveIndices = top..bottom-1 /\ LiveIndices' = top..bottom-1
      BY <1>0, <2>1 DEF Install, Goto, LiveIndices, EffectiveBottom
    <2>4. \A i \in LiveIndices : Active(i)' = Active(i)
      BY <2>1, <2>2, <2>3, InstallCells
    <2> QED
      BY <1>0, <1>a, <2>1, <2>3, <2>4, ContentRelocated DEF Install
  <1>12. CASE PopShrink
    <2>1. /\ Install(ShrunkCap(ActiveCap), "pop_reclaim")
          /\ pc[Owner] = "pop_shrink"
      BY <1>12 DEF PopShrink
    <2>2. /\ bottom - regs[Owner].t <= ShrunkCap(ActiveCap)
          /\ ShrunkCap(ActiveCap) \in Nat \ {0}
      BY <1>0, <2>1, ShrinkFits DEF IndexInv
    <2>3. LiveIndices = top..bottom-1 /\ LiveIndices' = top..bottom-1
      BY <1>0, <2>1 DEF Install, Goto, LiveIndices, EffectiveBottom
    <2>4. \A i \in LiveIndices : Active(i)' = Active(i)
      BY <2>1, <2>2, <2>3, InstallCells
    <2> QED
      BY <1>0, <1>a, <2>1, <2>3, <2>4, ContentRelocated DEF Install
  <1>6. CASE PushWrite
    <2>1. LiveIndices = top..bottom-1 /\ LiveIndices' = top..bottom-1
      BY <1>0, <1>6 DEF PushWrite, Goto, LiveIndices, EffectiveBottom
    <2>2. bottom - top < ActiveCap
      BY <1>0, <1>6 DEF PushWrite, IndexInv
    <2>3. \A i \in LiveIndices : Active(i)' = Active(i)
      BY <1>0, <1>6, <2>1, <2>2, WriteCell
    <2> QED
      BY <1>0, <1>a, <1>6, <2>1, <2>3, ContentRelocated DEF PushWrite
  <1>7. CASE PushPublish
    <2> DEFINE n == Len(recipients)
               L == LiveIndices
               A(i) == Active(i)
    <2>1. /\ L = top..bottom-1 /\ top <= bottom
          /\ LiveIndices' = L \cup {bottom}
      BY <1>0, <1>7 DEF PushPublish, Return, Goto, LiveIndices, EffectiveBottom,
                        IndexInv
    <2>2. \A i : Active(i)' = A(i)
      BY <1>7 DEF PushPublish, Active
    <2>3. A(bottom) = n + 1
      BY <1>7 DEF PushPublish, ClaimInv
    <2>4. ~dropped /\ ~dropped'
      BY <1>0, <1>a, <1>7 DEF PushPublish
    <2>5. /\ recipients \in Seq(Seq(Procs))
          /\ recipients' = Append(recipients, <<>>)
      BY <1>7 DEF PushPublish, TypeOK, HistoryType
    <2>6. /\ n \in Nat
          /\ DOMAIN recipients = 1..n
          /\ DOMAIN recipients' = 1..n+1
          /\ recipients'[n+1] = <<>>
          /\ \A k \in 1..n : recipients'[k] = recipients[k]
      BY <2>5
    <2>7. /\ \A i \in L : A(i) \in 1..n /\ recipients[A(i)] = <<>>
          /\ \A i, j \in L : i < j => A(i) < A(j)
          /\ \A k \in 1..n : recipients[k] = <<>> => \E i \in L : A(i) = k
          /\ \A k \in 1..n : Len(recipients[k]) <= 1
      BY <2>4, <2>6 DEF ContentInv, AtMostOnce
    <2> HIDE DEF n, L, A
    <2>8. AtMostOnce'
      <3>1. Len(recipients'[n+1]) <= 1
        BY <2>6
      <3>2. \A k \in 1..n+1 : k \in 1..n \/ k = n+1
        BY <2>6
      <3> QED
        BY <2>6, <2>7, <3>1, <3>2, Zenon DEF AtMostOnce
    <2>9. \A i \in L \cup {bottom} : A(i) \in 1..n+1 /\ recipients'[A(i)] = <<>>
      BY <2>3, <2>6, <2>7
    <2>10. \A i, j \in L \cup {bottom} : i < j => A(i) < A(j)
      BY <1>0, <2>1, <2>3, <2>6, <2>7
    <2>11. \A k \in 1..n+1 :
             recipients'[k] = <<>> => \E i \in L \cup {bottom} : A(i) = k
      BY <2>3, <2>6, <2>7
    <2> QED
      BY <2>1, <2>2, <2>4, <2>6, <2>8, <2>9, <2>10, <2>11 DEF ContentInv
  <1>11. CASE PopTake
    <2>1. /\ LiveIndices = top..bottom /\ bottom \in LiveIndices
          /\ LiveIndices' = LiveIndices \ {bottom}
      BY <1>0, <1>11 DEF PopTake, Return, Goto, LiveIndices, EffectiveBottom
    <2>2. TakeBox(Owner, Active(bottom)) /\ ~dropped
      BY <1>0, <1>a, <1>11 DEF PopTake, Active
    <2> QED
      BY <1>0, <1>11, <2>1, <2>2, ContentTake DEF PopTake
  <1>17. CASE PopCas
    <2>1. /\ regs[Owner].t = bottom /\ regs[Owner].box = Active(bottom)
          /\ EffectiveBottom = bottom + 1 /\ EffectiveBottom' = bottom + 1
      BY <1>0, <1>17 DEF PopCas, Goto, IndexInv, ClaimInv, EffectiveBottom
    <2>2. CASE top = regs[Owner].t
      BY <1>0, <1>a, <1>17, <2>1, <2>2, ContentCas DEF PopCas
    <2>3. CASE top # regs[Owner].t
      BY <1>17, <2>1, <2>3, ContentFrame DEF PopCas
    <2> QED
      BY <2>2, <2>3
  <1>19. ASSUME NEW p \in Procs, Steal(p)
         PROVE  ContentInv'
    <2> USE <1>19
    <2>1. CASE StealLoadTop(p)
      <3>1. EffectiveBottom' = EffectiveBottom
        BY <1>0, <2>1 DEF StealLoadTop, MaySteal, Goto, EffectiveBottom
      <3> QED
        BY <2>1, <3>1, ContentFrame DEF StealLoadTop
    <2>2. CASE StealFindEmpty(p)
      <3>1. EffectiveBottom' = EffectiveBottom
        BY <1>0, <2>2 DEF StealFindEmpty, Return, Goto, EffectiveBottom
      <3> QED
        BY <2>2, <3>1, ContentFrame DEF StealFindEmpty
    <2>3. CASE StealFindTask(p)
      <3>1. EffectiveBottom' = EffectiveBottom
        BY <1>0, <2>3 DEF StealFindTask, Goto, EffectiveBottom
      <3> QED
        BY <2>3, <3>1, ContentFrame DEF StealFindTask
    <2>4. CASE StealEnter(p)
      <3>1. EffectiveBottom' = EffectiveBottom
        BY <1>0, <2>4 DEF StealEnter, Goto, EffectiveBottom
      <3> QED
        BY <2>4, <3>1, ContentFrame DEF StealEnter
    <2>5. CASE StealLoadBuffer(p)
      <3>1. EffectiveBottom' = EffectiveBottom
        BY <1>0, <2>5 DEF StealLoadBuffer, Goto, EffectiveBottom
      <3> QED
        BY <2>5, <3>1, ContentFrame DEF StealLoadBuffer
    <2>6. CASE StealRead(p)
      <3>1. EffectiveBottom' = EffectiveBottom
        BY <1>0, <2>6 DEF StealRead, Goto, EffectiveBottom
      <3> QED
        BY <2>6, <3>1, ContentFrame DEF StealRead
    <2>7. CASE StealLeave(p)
      <3>1. EffectiveBottom' = EffectiveBottom
        BY <1>0, <2>7 DEF StealLeave, Goto, EffectiveBottom
      <3> QED
        BY <2>7, <3>1, ContentFrame DEF StealLeave
    <2>8. CASE StealCas(p)
      <3>1. EffectiveBottom' = EffectiveBottom
        BY <1>0, <2>8 DEF StealCas, Return, Goto, EffectiveBottom
      <3>2. CASE top = regs[p].t
        <4>1. top < EffectiveBottom /\ regs[p].box = Active(top)
          BY <2>8, <3>2 DEF StealCas, IndexInv, ClaimInv, StealPc
        <4> QED
          BY <1>a, <2>8, <3>1, <3>2, <4>1, ContentCas DEF StealCas
      <3>3. CASE top # regs[p].t
        BY <2>8, <3>1, <3>3, ContentFrame DEF StealCas
      <3> QED
        BY <3>2, <3>3
    <2> QED
      BY <2>1, <2>2, <2>3, <2>4, <2>5, <2>6, <2>7, <2>8 DEF Steal
  <1>20. ASSUME NEW p \in Procs, Drop(p)
         PROVE  ContentInv'
    <2> DEFINE left == {CellOf(bufs[buffer], i) : i \in top..bottom-1}
               new(k) == IF k \in left THEN Append(recipients[k], p)
                                       ELSE recipients[k]
    <2>1. /\ ~dropped /\ dropped'
          /\ recipients' = [k \in DOMAIN recipients |-> new(k)]
          /\ pc[Owner] = "idle"
      BY <1>0, <1>20 DEF Drop
    <2>2. LiveIndices = top..bottom-1
      BY <2>1 DEF LiveIndices, EffectiveBottom
    <2>3. left = {Active(i) : i \in LiveIndices}
      BY <2>2 DEF Active
    <2>4. recipients \in Seq(Seq(Procs))
      BY DEF TypeOK, HistoryType
    <2>5. /\ \A k \in DOMAIN recipients :
               recipients[k] = <<>> <=> k \in left
          /\ \A k \in DOMAIN recipients : Len(recipients[k]) <= 1
      BY <2>1, <2>3 DEF ContentInv, AtMostOnce
    <2> HIDE DEF left
    <2>6. \A k \in DOMAIN recipients : new(k) # <<>> /\ Len(new(k)) <= 1
      <3> SUFFICES ASSUME NEW k \in DOMAIN recipients
                   PROVE  new(k) # <<>> /\ Len(new(k)) <= 1
        OBVIOUS
      <3>1. CASE k \in left
        <4>0. recipients[k] = <<>>
          BY <2>5, <3>1
        <4>1. new(k) = <<p>>
          BY <3>1, <4>0
        <4> HIDE DEF new
        <4> QED
          BY <4>1
      <3>2. CASE k \notin left
        BY <2>5, <3>2
      <3> QED
        BY <3>1, <3>2
    <2> HIDE DEF new
    <2>7. \A k \in DOMAIN recipients' :
            recipients'[k] # <<>> /\ Len(recipients'[k]) <= 1
      BY <2>1, <2>6
    <2> QED
      BY <2>1, <2>7 DEF ContentInv, AtMostOnce
  <1>21. CASE UNCHANGED vars
    BY <1>21, ContentFrame DEF vars, EffectiveBottom
  <1> QED
    BY <1>1, <1>2, <1>3, <1>4, <1>5, <1>6, <1>7, <1>8, <1>9, <1>10, <1>11,
       <1>12, <1>13, <1>14, <1>15, <1>16, <1>17, <1>18, <1>19, <1>20, <1>21
    DEF Next, Push, Pop

-----------------------------------------------------------------------------
(* The claims.                                                             *)

\* A step of process p that leaves the cells alone: only what p itself is up
\* to must be looked at, and if top moves every other claim is void.
LEMMA ClaimFrame ==
    ASSUME TypeOK, IndexInv, ClaimInv, NEW p \in Procs,
           \A q \in Procs \ {p} : pc'[q] = pc[q] /\ regs'[q] = regs[q],
           top' = top \/ top' = top + 1,
           p # Owner => UNCHANGED bottom,
           Len(recipients') = Len(recipients) \/ p = Owner,
           UNCHANGED <<bufs, buffer>>,
           p = Owner =>
             /\ pc'[Owner] = "push_publish" =>
                   Active(bottom)' = Len(recipients') + 1
             /\ pc'[Owner] = "pop_cas" => regs'[Owner].box = Active(bottom)',
           regs'[p].t = top' =>
             /\ pc'[p] = "steal_read" =>
                  CellOf(bufs[regs'[p].buf], top') = Active(top)'
             /\ pc'[p] \in {"steal_leave", "steal_cas"} =>
                  regs'[p].box = Active(top)'
    PROVE  ClaimInv'
  <1>0. Owner \in Procs /\ top \in Int /\ \A q \in Procs : regs[q].t \in Int
    BY IndexFacts
  <1>1. \A i : Active(i)' = Active(i)
    BY DEF Active
  <1>2. pc'[Owner] = "push_publish" => Active(bottom)' = Len(recipients') + 1
    BY <1>0, <1>1 DEF ClaimInv
  <1>3. pc'[Owner] = "pop_cas" => regs'[Owner].box = Active(bottom)'
    BY <1>0, <1>1 DEF ClaimInv
  <1>4. ASSUME NEW q \in Procs, q # p, regs'[q].t = top'
        PROVE  /\ pc'[q] = "steal_read" =>
                    CellOf(bufs'[regs'[q].buf], top') = Active(top)'
               /\ pc'[q] \in {"steal_leave", "steal_cas"} =>
                    regs'[q].box = Active(top)'
    <2>1. pc'[q] = pc[q] /\ regs'[q] = regs[q]
      BY <1>4
    <2>2. CASE pc[q] \in {"steal_read", "steal_leave", "steal_cas"}
      <3>1. regs[q].t <= top
        BY <2>2 DEF IndexInv, StealPc
      <3>2. top' = top /\ regs[q].t = top
        BY <1>0, <1>4, <2>1, <3>1
      <3> QED
        BY <1>1, <2>1, <2>2, <3>2 DEF ClaimInv, Active
    <2>3. CASE pc[q] \notin {"steal_read", "steal_leave", "steal_cas"}
      BY <2>1, <2>3
    <2> QED
      BY <2>2, <2>3
  <1> QED
    BY <1>2, <1>3, <1>4 DEF ClaimInv, Active

\* A resize keeps what every thief has read or is about to read, if it counts.
LEMMA ClaimInstall ==
    ASSUME TypeOK, IndexInv, ClaimInv, NEW newCap \in Nat \ {0},
           NEW next \in {"push_reclaim", "pop_reclaim"},
           Install(newCap, next), pc[Owner] \in {"push_grow", "pop_shrink"},
           bottom - regs[Owner].t <= newCap
    PROVE  ClaimInv'
  <1>0. Owner \in Procs /\ top \in Int /\ bottom \in Int
        /\ DOMAIN pc = Procs
    BY IndexFacts
  <1>1. /\ pc' = [pc EXCEPT ![Owner] = next]
        /\ UNCHANGED <<top, bottom, regs, recipients>>
    BY DEF Install, Goto, indexVars, historyVars
  <1>2. \A i \in top..bottom-1 : Active(i)' = Active(i)
    BY InstallCells
  <1>3. \A k \in Buffers : bufs'[k] = bufs[k]
    BY InstallMemory
  <1>4. ASSUME NEW q \in Procs, regs'[q].t = top',
               pc'[q] \in {"steal_read", "steal_leave", "steal_cas"}
        PROVE  /\ pc'[q] = "steal_read" =>
                    CellOf(bufs'[regs'[q].buf], top') = Active(top)'
               /\ pc'[q] \in {"steal_leave", "steal_cas"} =>
                    regs'[q].box = Active(top)'
    <2>1. pc[q] = pc'[q] /\ regs[q].t = top
      BY <1>0, <1>1, <1>4
    <2>2. top < bottom
      BY <1>4, <2>1 DEF IndexInv, EffectiveBottom, StealPc
    <2>3. Active(top)' = Active(top)
      BY <1>0, <1>1, <1>2, <2>2 DEF Active
    <2>4. pc[q] = "steal_read" => bufs'[regs[q].buf] = bufs[regs[q].buf]
      BY <1>3 DEF TypeOK, LocalType
    <2> QED
      BY <1>1, <2>1, <2>3, <2>4 DEF ClaimInv
  <1> QED
    BY <1>0, <1>1, <1>4 DEF ClaimInv

\* Neither does the write of a push: its cell is no live task's.
LEMMA ClaimWrite ==
    ASSUME TypeOK, IndexInv, ClaimInv, PushWrite
    PROVE  ClaimInv'
  <1>0. Owner \in Procs /\ top \in Int /\ bottom \in Int
        /\ DOMAIN pc = Procs
    BY IndexFacts
  <1>1. /\ pc[Owner] = "push_write"
        /\ pc' = [pc EXCEPT ![Owner] = "push_publish"]
        /\ UNCHANGED <<top, bottom, buffer, regs, recipients>>
    BY DEF PushWrite, Goto, indexVars, historyVars
  <1>2. /\ Active(bottom)' = Len(recipients) + 1
        /\ \A i \in Int : i < bottom /\ bottom - i < ActiveCap =>
             Active(i)' = Active(i)
    BY WriteCell
  <1>3. \A k \in Buffers \ {buffer} : bufs'[k] = bufs[k]
    BY WriteMemory
  <1>4. ASSUME NEW q \in Procs, regs'[q].t = top',
               pc'[q] \in {"steal_read", "steal_leave", "steal_cas"}
        PROVE  /\ pc'[q] = "steal_read" =>
                    CellOf(bufs'[regs'[q].buf], top') = Active(top)'
               /\ pc'[q] \in {"steal_leave", "steal_cas"} =>
                    regs'[q].box = Active(top)'
    <2>1. pc[q] = pc'[q] /\ regs[q].t = top
      BY <1>0, <1>1, <1>4
    <2>2. top < bottom /\ bottom - top < ActiveCap
      BY <1>1, <1>4, <2>1 DEF IndexInv, EffectiveBottom, StealPc
    <2>3. Active(top)' = Active(top)
      BY <1>0, <1>1, <1>2, <2>2 DEF Active
    <2>4. CASE pc[q] = "steal_read" /\ regs[q].buf = buffer
      BY <1>1, <2>1, <2>4 DEF Active
    <2>5. CASE pc[q] = "steal_read" /\ regs[q].buf # buffer
      <3>1. bufs'[regs[q].buf] = bufs[regs[q].buf]
        BY <1>3, <2>5 DEF TypeOK, LocalType
      <3> QED
        BY <1>1, <2>1, <2>3, <2>5, <3>1 DEF ClaimInv
    <2>6. CASE pc[q] # "steal_read"
      BY <1>1, <1>4, <2>1, <2>3, <2>6 DEF ClaimInv
    <2> QED
      BY <2>4, <2>5, <2>6
  <1> QED
    BY <1>0, <1>1, <1>2, <1>4 DEF ClaimInv, Active

LEMMA ClaimStep ==
    TypeOK /\ ReclaimInv /\ IndexInv /\ ExactlyOnceInv /\ [Next]_vars
        => ClaimInv'
  <1> SUFFICES ASSUME TypeOK, ReclaimInv, IndexInv, ClaimInv, [Next]_vars
               PROVE  ClaimInv'
    BY DEF ExactlyOnceInv
  <1>0. /\ top \in Int /\ bottom \in Int /\ cachedTop \in Int
        /\ ActiveCap \in Nat /\ ActiveCap > 0
        /\ EffectiveBottom \in Int
        /\ \A p \in Procs : regs[p].t \in Int
        /\ Owner \in Procs
        /\ pc \in [Procs -> {"idle"} \cup PushPc \cup PopPc \cup StealPc]
        /\ DOMAIN regs = Procs
    BY IndexFacts
  <1>h. recipients \in Seq(Seq(Procs))
    BY DEF TypeOK, HistoryType
  <1> USE DEF indexVars, memoryVars, historyVars
  <1>1. CASE PushBegin
    <2>1. /\ pc'[Owner] \notin {"push_publish", "pop_cas", "steal_read",
                                "steal_leave", "steal_cas"}
          /\ \A q \in Procs \ {Owner} : pc'[q] = pc[q] /\ regs'[q] = regs[q]
          /\ UNCHANGED <<top, bufs, buffer>>
      BY <1>0, <1>1 DEF PushBegin, Goto, TypeOK, LocalType
    <2> QED
      BY <1>0, <2>1, ClaimFrame
  <1>2. CASE PushLoadTop
    <2>1. /\ pc'[Owner] \notin {"push_publish", "pop_cas", "steal_read",
                                "steal_leave", "steal_cas"}
          /\ \A q \in Procs \ {Owner} : pc'[q] = pc[q] /\ regs'[q] = regs[q]
          /\ UNCHANGED <<top, bufs, buffer>>
      BY <1>0, <1>2 DEF PushLoadTop, Goto, TypeOK, LocalType
    <2> QED
      BY <1>0, <2>1, ClaimFrame
  <1>4. CASE PushReclaim
    <2>1. /\ pc'[Owner] \notin {"push_publish", "pop_cas", "steal_read",
                                "steal_leave", "steal_cas"}
          /\ \A q \in Procs \ {Owner} : pc'[q] = pc[q] /\ regs'[q] = regs[q]
          /\ UNCHANGED <<top, bufs, buffer>>
      BY <1>0, <1>4 DEF PushReclaim, LoadInFlight, Goto, TypeOK, LocalType
    <2> QED
      BY <1>0, <2>1, ClaimFrame
  <1>5. CASE PushFree
    <2>1. /\ pc'[Owner] \notin {"push_publish", "pop_cas", "steal_read",
                                "steal_leave", "steal_cas"}
          /\ \A q \in Procs \ {Owner} : pc'[q] = pc[q] /\ regs'[q] = regs[q]
          /\ UNCHANGED <<top, bufs, buffer>>
      BY <1>0, <1>5 DEF PushFree, FreeRetired, Goto, TypeOK, LocalType
    <2> QED
      BY <1>0, <2>1, ClaimFrame
  <1>7. CASE PushPublish
    <2>1. /\ pc'[Owner] \notin {"push_publish", "pop_cas", "steal_read",
                                "steal_leave", "steal_cas"}
          /\ \A q \in Procs \ {Owner} : pc'[q] = pc[q] /\ regs'[q] = regs[q]
          /\ UNCHANGED <<top, bufs, buffer>>
      BY <1>0, <1>7 DEF PushPublish, Return, Goto, TypeOK, LocalType
    <2> QED
      BY <1>0, <2>1, ClaimFrame
  <1>8. CASE PopBegin
    <2>1. /\ pc'[Owner] \notin {"push_publish", "pop_cas", "steal_read",
                                "steal_leave", "steal_cas"}
          /\ \A q \in Procs \ {Owner} : pc'[q] = pc[q] /\ regs'[q] = regs[q]
          /\ UNCHANGED <<top, bufs, buffer>>
      BY <1>0, <1>8 DEF PopBegin, Goto, TypeOK, LocalType
    <2> QED
      BY <1>0, <2>1, ClaimFrame
  <1>9. CASE PopFindEmpty
    <2>1. /\ pc'[Owner] \notin {"push_publish", "pop_cas", "steal_read",
                                "steal_leave", "steal_cas"}
          /\ \A q \in Procs \ {Owner} : pc'[q] = pc[q] /\ regs'[q] = regs[q]
          /\ UNCHANGED <<top, bufs, buffer>>
      BY <1>0, <1>9 DEF PopFindEmpty, Goto, TypeOK, LocalType
    <2> QED
      BY <1>0, <2>1, ClaimFrame
  <1>10. CASE PopRestoreEmpty
    <2>1. /\ pc'[Owner] \notin {"push_publish", "pop_cas", "steal_read",
                                "steal_leave", "steal_cas"}
          /\ \A q \in Procs \ {Owner} : pc'[q] = pc[q] /\ regs'[q] = regs[q]
          /\ UNCHANGED <<top, bufs, buffer>>
      BY <1>0, <1>10 DEF PopRestoreEmpty, Return, Goto, TypeOK, LocalType
    <2> QED
      BY <1>0, <2>1, ClaimFrame
  <1>11. CASE PopTake
    <2>1. /\ pc'[Owner] \notin {"push_publish", "pop_cas", "steal_read",
                                "steal_leave", "steal_cas"}
          /\ \A q \in Procs \ {Owner} : pc'[q] = pc[q] /\ regs'[q] = regs[q]
          /\ UNCHANGED <<top, bufs, buffer>>
      BY <1>0, <1>11 DEF PopTake, Return, Goto, TypeOK, LocalType
    <2> QED
      BY <1>0, <2>1, ClaimFrame
  <1>13. CASE PopReclaim
    <2>1. /\ pc'[Owner] \notin {"push_publish", "pop_cas", "steal_read",
                                "steal_leave", "steal_cas"}
          /\ \A q \in Procs \ {Owner} : pc'[q] = pc[q] /\ regs'[q] = regs[q]
          /\ UNCHANGED <<top, bufs, buffer>>
      BY <1>0, <1>13 DEF PopReclaim, LoadInFlight, Goto, TypeOK, LocalType
    <2> QED
      BY <1>0, <2>1, ClaimFrame
  <1>14. CASE PopFree
    <2>1. /\ pc'[Owner] \notin {"push_publish", "pop_cas", "steal_read",
                                "steal_leave", "steal_cas"}
          /\ \A q \in Procs \ {Owner} : pc'[q] = pc[q] /\ regs'[q] = regs[q]
          /\ UNCHANGED <<top, bufs, buffer>>
      BY <1>0, <1>14 DEF PopFree, FreeRetired, Goto, TypeOK, LocalType
    <2> QED
      BY <1>0, <2>1, ClaimFrame
  <1>15. CASE PopDone
    <2>1. /\ pc'[Owner] \notin {"push_publish", "pop_cas", "steal_read",
                                "steal_leave", "steal_cas"}
          /\ \A q \in Procs \ {Owner} : pc'[q] = pc[q] /\ regs'[q] = regs[q]
          /\ UNCHANGED <<top, bufs, buffer>>
      BY <1>0, <1>15 DEF PopDone, Return, Goto, TypeOK, LocalType
    <2> QED
      BY <1>0, <2>1, ClaimFrame
  <1>16. CASE PopFindLast
    <2>1. /\ pc'[Owner] = "pop_cas"
          /\ \A q \in Procs \ {Owner} : pc'[q] = pc[q] /\ regs'[q] = regs[q]
          /\ UNCHANGED <<top, bufs, buffer>>
          /\ bottom' = bottom
          /\ regs'[Owner].box = CellOf(bufs[buffer], bottom)
      BY <1>0, <1>16 DEF PopFindLast, Goto, TypeOK, LocalType
    <2> QED
      BY <1>0, <2>1, ClaimFrame DEF Active
  <1>18. CASE PopRestoreLast
    <2>1. /\ pc'[Owner] \notin {"push_publish", "pop_cas", "steal_read",
                                "steal_leave", "steal_cas"}
          /\ \A q \in Procs \ {Owner} : pc'[q] = pc[q] /\ regs'[q] = regs[q]
          /\ UNCHANGED <<top, bufs, buffer>>
      BY <1>0, <1>18 DEF PopRestoreLast, Return, Goto, TypeOK, LocalType
    <2> QED
      BY <1>0, <2>1, ClaimFrame
  <1>3. CASE PushGrow
    <2>1. Install(2 * ActiveCap, "push_reclaim") /\ pc[Owner] = "push_grow"
      BY <1>3 DEF PushGrow
    <2>2. bottom - regs[Owner].t <= 2 * ActiveCap /\ 2 * ActiveCap \in Nat \ {0}
      BY <1>0, <2>1 DEF IndexInv
    <2> QED
      BY <2>1, <2>2, ClaimInstall
  <1>12. CASE PopShrink
    <2>1. /\ Install(ShrunkCap(ActiveCap), "pop_reclaim")
          /\ pc[Owner] = "pop_shrink"
      BY <1>12 DEF PopShrink
    <2>2. /\ bottom - regs[Owner].t <= ShrunkCap(ActiveCap)
          /\ ShrunkCap(ActiveCap) \in Nat \ {0}
      BY <1>0, <2>1, ShrinkFits DEF IndexInv
    <2> QED
      BY <2>1, <2>2, ClaimInstall
  <1>6. CASE PushWrite
    BY <1>6, ClaimWrite
  <1>17. CASE PopCas
    <2>1. /\ pc' = [pc EXCEPT ![Owner] = "pop_restore"]
          /\ UNCHANGED <<bottom, bufs, buffer, regs>>
          /\ top' = top \/ top' = top + 1
      BY <1>17 DEF PopCas, Goto
    <2> QED
      BY <1>0, <2>1, ClaimFrame
  <1>19. ASSUME NEW p \in Procs, Steal(p)
         PROVE  ClaimInv'
    <2> USE <1>19
    <2>1. CASE StealLoadTop(p)
      <3>1. /\ \A q \in Procs \ {p} : pc'[q] = pc[q] /\ regs'[q] = regs[q]
            /\ pc'[p] \notin {"push_publish", "pop_cas", "steal_read",
                             "steal_leave", "steal_cas"}
            /\ UNCHANGED <<top, bottom, bufs, buffer, recipients>>
        BY <1>0, <2>1 DEF StealLoadTop, MaySteal, Goto, TypeOK, LocalType
      <3> QED
        BY <3>1, ClaimFrame
    <2>2. CASE StealFindEmpty(p)
      <3>1. /\ \A q \in Procs \ {p} : pc'[q] = pc[q] /\ regs'[q] = regs[q]
            /\ pc'[p] \notin {"push_publish", "pop_cas", "steal_read",
                             "steal_leave", "steal_cas"}
            /\ UNCHANGED <<top, bottom, bufs, buffer, recipients>>
        BY <1>0, <2>2 DEF StealFindEmpty, Return, Goto, TypeOK, LocalType
      <3> QED
        BY <3>1, ClaimFrame
    <2>3. CASE StealFindTask(p)
      <3>1. /\ \A q \in Procs \ {p} : pc'[q] = pc[q] /\ regs'[q] = regs[q]
            /\ pc'[p] \notin {"push_publish", "pop_cas", "steal_read",
                             "steal_leave", "steal_cas"}
            /\ UNCHANGED <<top, bottom, bufs, buffer, recipients>>
        BY <1>0, <2>3 DEF StealFindTask, Goto, TypeOK, LocalType
      <3> QED
        BY <3>1, ClaimFrame
    <2>4. CASE StealEnter(p)
      <3>1. /\ \A q \in Procs \ {p} : pc'[q] = pc[q] /\ regs'[q] = regs[q]
            /\ pc'[p] \notin {"push_publish", "pop_cas", "steal_read",
                             "steal_leave", "steal_cas"}
            /\ UNCHANGED <<top, bottom, bufs, buffer, recipients>>
        BY <1>0, <2>4 DEF StealEnter, Goto, TypeOK, LocalType
      <3> QED
        BY <3>1, ClaimFrame
    <2>5. CASE StealLoadBuffer(p)
      <3>1. /\ \A q \in Procs \ {p} : pc'[q] = pc[q] /\ regs'[q] = regs[q]
            /\ pc'[p] = "steal_read" /\ regs'[p].buf = buffer
            /\ UNCHANGED <<top, bottom, bufs, buffer, recipients>>
        BY <1>0, <2>5 DEF StealLoadBuffer, Goto, TypeOK, LocalType
      <3>2. CellOf(bufs[regs'[p].buf], top') = Active(top)'
        BY <3>1 DEF Active
      <3> QED
        BY <3>1, <3>2, ClaimFrame
    <2>7. CASE StealLeave(p)
      <3>1. /\ \A q \in Procs \ {p} : pc'[q] = pc[q] /\ regs'[q] = regs[q]
            /\ pc'[p] = "steal_cas" /\ pc[p] = "steal_leave"
            /\ regs'[p] = regs[p]
            /\ UNCHANGED <<top, bottom, bufs, buffer, recipients>>
        BY <1>0, <2>7 DEF StealLeave, Goto, TypeOK, LocalType
      <3>2. regs'[p].t = top' => regs'[p].box = Active(top)'
        BY <3>1 DEF ClaimInv, Active
      <3> QED
        BY <3>1, <3>2, ClaimFrame
    <2>6. CASE StealRead(p)
      <3>1. /\ pc' = [pc EXCEPT ![p] = "steal_leave"]
            /\ \A q \in Procs \ {p} : regs'[q] = regs[q]
            /\ regs'[p].t = regs[p].t
            /\ regs'[p].box = CellOf(bufs[regs[p].buf], regs[p].t)
            /\ pc[p] = "steal_read"
            /\ UNCHANGED <<top, bottom, bufs, buffer, recipients>>
        BY <2>6 DEF StealRead, Goto, TypeOK, LocalType
      <3>2. regs'[p].t = top' => regs'[p].box = Active(top)'
        BY <3>1 DEF ClaimInv, Active
      <3>3. pc'[p] = "steal_leave" /\ \A q \in Procs \ {p} : pc'[q] = pc[q]
        BY <1>0, <3>1
      <3> QED
        BY <3>1, <3>2, <3>3, ClaimFrame
    <2>8. CASE StealCas(p)
      <3>1. /\ pc'[p] \in {"idle", "steal_retry"}
            /\ \A q \in Procs \ {p} : pc'[q] = pc[q] /\ regs'[q] = regs[q]
            /\ top' = top \/ top' = top + 1
            /\ UNCHANGED <<bottom, bufs, buffer>>
        BY <1>0, <2>8 DEF StealCas, Return, Goto
      <3>2. Len(recipients') = Len(recipients)
        BY <2>8, TakeBoxType DEF StealCas
      <3> QED
        BY <3>1, <3>2, ClaimFrame
    <2> QED
      BY <2>1, <2>2, <2>3, <2>4, <2>5, <2>6, <2>7, <2>8 DEF Steal
  <1>20. ASSUME NEW p \in Procs, Drop(p)
         PROVE  ClaimInv'
    BY <1>0, <1>20 DEF Drop, ClaimInv
  <1>21. CASE UNCHANGED vars
    BY <1>21 DEF vars, ClaimInv, Active
  <1> QED
    BY <1>1, <1>2, <1>3, <1>4, <1>5, <1>6, <1>7, <1>8, <1>9, <1>10, <1>11,
       <1>12, <1>13, <1>14, <1>15, <1>16, <1>17, <1>18, <1>19, <1>20, <1>21
    DEF Next, Push, Pop

-----------------------------------------------------------------------------
(* The theorems.                                                           *)

\* Everything that is inductive about the deque of lib.rs, at once.
THEOREM InductiveInvariant ==
    Spec => [](TypeOK /\ ReclaimInv /\ IndexInv /\ ExactlyOnceInv)
  <1>1. Init => TypeOK /\ ReclaimInv /\ IndexInv /\ ExactlyOnceInv
    BY TypeInit, ReclaimInit, IndexInit, ExactlyOnceInit
  <1>2. TypeOK /\ ReclaimInv /\ IndexInv /\ ExactlyOnceInv /\ [Next]_vars
          => (TypeOK /\ ReclaimInv /\ IndexInv /\ ExactlyOnceInv)'
    BY TypeStep, ReclaimStep, IndexStep, ContentStep, ClaimStep
    DEF ExactlyOnceInv
  <1> QED
    BY <1>1, <1>2, PTL DEF Spec

\* lib.rs 855-859: no task is handed to two of the processes that pop, steal
\* and drop, whatever the interleaving.
THEOREM NoTaskTwice == Spec => []AtMostOnce
  <1>1. ExactlyOnceInv => AtMostOnce
    BY DEF ExactlyOnceInv, ContentInv
  <1> QED
    BY <1>1, InductiveInvariant, PTL

\* lib.rs 855-859, 1033: no task is lost; what nobody took lies between top and
\* bottom in the order of the pushes, and is destroyed with the deque.
THEOREM NoTaskLost == Spec => []NothingLost
  <1>1. TypeOK /\ ExactlyOnceInv => NothingLost
    <2> SUFFICES ASSUME TypeOK, ContentInv PROVE NothingLost
      BY DEF ExactlyOnceInv
    <2>1. CASE dropped
      BY <2>1 DEF ContentInv, NothingLost
    <2>2. CASE ~dropped
      <3> DEFINE n == EffectiveBottom - top
                 A(i) == Active(i)
      <3>1. top \in Int /\ EffectiveBottom \in Int
        BY IndexFacts
      <3>2. Items = [i \in 1..n |-> A(top + i - 1)]
        BY DEF Items, Active
      <3>3. /\ \A i \in top..EffectiveBottom-1 :
                 A(i) \in DOMAIN recipients /\ recipients[A(i)] = <<>>
            /\ \A i, j \in top..EffectiveBottom-1 : i < j => A(i) < A(j)
            /\ \A k \in DOMAIN recipients : recipients[k] = <<>> =>
                 \E i \in top..EffectiveBottom-1 : A(i) = k
        BY <2>2 DEF ContentInv, LiveIndices
      <3> HIDE DEF A
      <3>4. \A i \in 1..n : top + i - 1 \in top..EffectiveBottom-1
        BY <3>1
      <3>5. \A i \in top..EffectiveBottom-1 :
              i - top + 1 \in 1..n /\ top + (i - top + 1) - 1 = i
        BY <3>1
      <3> HIDE DEF n
      <3>6. DOMAIN Items = 1..n /\ \A i \in 1..n : Items[i] = A(top + i - 1)
        BY <3>2
      <3>7. \A i \in DOMAIN Items :
              Items[i] \in {k \in DOMAIN recipients : recipients[k] = <<>>}
        BY <3>3, <3>4, <3>6
      <3>8. \A k \in DOMAIN recipients :
              recipients[k] = <<>> => \E i \in DOMAIN Items : Items[i] = k
        BY <3>3, <3>5, <3>6
      <3>9. \A i, j \in DOMAIN Items : i < j => Items[i] < Items[j]
        <4> SUFFICES ASSUME NEW i \in 1..n, NEW j \in 1..n, i < j
                     PROVE  A(top + i - 1) < A(top + j - 1)
          BY <3>6
        <4>1. top + i - 1 < top + j - 1
          BY <3>1 DEF n
        <4> QED
          BY <3>3, <3>4, <4>1
      <3> QED
        BY <2>2, <3>7, <3>8, <3>9 DEF NothingLost
    <2> QED
      BY <2>1, <2>2
  <1> QED
    BY <1>1, InductiveInvariant, PTL

\* The debug_assert of resized (lib.rs 216): both resizes have room.
THEOREM ResizesFit == Spec => []ResizeFits
  <1>1. TypeOK /\ IndexInv => ResizeFits
    <2> SUFFICES ASSUME TypeOK, IndexInv PROVE ResizeFits
      OBVIOUS
    <2>1. /\ top \in Int /\ bottom \in Int /\ regs[Owner].t \in Int
          /\ ActiveCap \in Nat /\ ActiveCap > 0
      BY IndexFacts
    <2>2. pc[Owner] = "push_grow" =>
            bottom - regs[Owner].t \in 0..2 * ActiveCap - 1
      BY <2>1 DEF IndexInv, EffectiveBottom
    <2>3. pc[Owner] = "pop_shrink" =>
            bottom - regs[Owner].t \in 0..ShrunkCap(ActiveCap) - 1
      BY <2>1, ShrinkFits DEF IndexInv, EffectiveBottom
    <2> QED
      BY <2>2, <2>3 DEF ResizeFits
  <1> QED
    BY <1>1, InductiveInvariant, PTL
-----------------------------------------------------------------------------
(* The deque is atomic.                                                    *)

\* Worker::new_fifo decides for good how the owner takes its tasks.
ModeInv ==
    /\ pc[Owner] \in PopPc => ~Fifo
    /\ pc[Owner] \in StealPc => Fifo

LEMMA ModeStep == TypeOK /\ ModeInv /\ [Next]_vars => ModeInv'
  <1> SUFFICES ASSUME TypeOK, ModeInv, [Next]_vars PROVE ModeInv'
    OBVIOUS
  <1>0. /\ Owner \in Procs /\ Owner \notin Thieves
        /\ pc \in [Procs -> {"idle"} \cup PushPc \cup PopPc \cup StealPc]
    BY IndexFacts, ProcsAssumption
  <1> USE DEF PopPc, StealPc, ModeInv
  <1>1. CASE Push
    BY <1>0, <1>1
    DEF Push, PushBegin, PushLoadTop, PushGrow, PushReclaim, PushFree,
        PushWrite, PushPublish, Install, LoadInFlight, FreeRetired, Return,
        Goto
  <1>2. CASE Pop
    BY <1>0, <1>2
    DEF Pop, PopBegin, PopFindEmpty, PopRestoreEmpty, PopTake, PopShrink,
        PopReclaim, PopFree, PopDone, PopFindLast, PopCas, PopRestoreLast,
        Install, LoadInFlight, FreeRetired, Return, Goto
  <1>3. ASSUME NEW p \in Procs, Steal(p)
        PROVE  ModeInv'
    <2>1. CASE p = Owner
      BY <1>0, <1>3, <2>1
      DEF Steal, StealLoadTop, StealFindEmpty, StealFindTask, StealEnter,
          StealLoadBuffer, StealRead, StealLeave, StealCas, MaySteal, Return,
          Goto
    <2>2. CASE p # Owner
      <3>1. pc'[Owner] = pc[Owner]
        BY <1>0, <1>3, <2>2
        DEF Steal, StealLoadTop, StealFindEmpty, StealFindTask, StealEnter,
            StealLoadBuffer, StealRead, StealLeave, StealCas, Return, Goto
      <3> QED
        BY <3>1
    <2> QED
      BY <2>1, <2>2
  <1>4. ASSUME NEW p \in Procs, Drop(p)
        PROVE  ModeInv'
    BY <1>4 DEF Drop
  <1>5. CASE UNCHANGED vars
    BY <1>5 DEF vars
  <1> QED
    BY <1>1, <1>2, <1>3, <1>4, <1>5 DEF Next

\* The items, as a function of the two ends and of the cells between them.
LEMMA ItemsAre ==
    ASSUME TypeOK, IndexInv
    PROVE  \E n \in Nat :
              /\ n = EffectiveBottom - top
              /\ Items = [i \in 1..n |-> Active(top + i - 1)]
              /\ Len(Items) = n /\ DOMAIN Items = 1..n
  <1>1. top \in Int /\ EffectiveBottom \in Int
    BY IndexFacts
  <1>2. PICK n \in Nat : n = EffectiveBottom - top
    BY <1>1 DEF IndexInv
  <1>3. Items = [i \in 1..n |-> Active(top + i - 1)]
    BY <1>2 DEF Items, Active
  <1> QED
    BY <1>2, <1>3

\* Nothing a user of the deque could see.
Unseen ==
    /\ EffectiveBottom' = EffectiveBottom
    /\ UNCHANGED <<top, recipients, dropped>>
    /\ \A i \in LiveIndices : Active(i)' = Active(i)

LEMMA UnseenStutters ==
    ASSUME TypeOK, IndexInv, Unseen
    PROVE  UNCHANGED Deque!vars
  <1>1. top \in Int /\ EffectiveBottom \in Int
    BY IndexFacts
  <1>2. PICK n \in Nat : n = EffectiveBottom - top
    BY <1>1 DEF IndexInv
  <1>3. /\ Items = [i \in 1..n |-> Active(top + i - 1)]
        /\ Items' = [i \in 1..n |-> Active(top + i - 1)']
    <2>1. EffectiveBottom' = EffectiveBottom /\ top' = top
      BY DEF Unseen
    <2> QED
      BY <2>1, <1>2 DEF Items, Active
  <1>4. \A i \in 1..n : top + i - 1 \in LiveIndices
    BY <1>1, <1>2 DEF LiveIndices
  <1>5. \A i \in 1..n : Active(top + i - 1)' = Active(top + i - 1)
    BY <1>4 DEF Unseen, Active
  <1>6. Items' = Items
    BY <1>3, <1>5
  <1> QED
    BY <1>6 DEF Unseen, Deque!vars

\* push: the store of bottom puts the task at the end.
LEMMA PublishPuts ==
    ASSUME TypeOK, ReclaimInv, IndexInv, ExactlyOnceInv, PushPublish
    PROVE  Deque!Put
  <1>0. /\ Owner \in Procs /\ top \in Int /\ bottom \in Int
        /\ pc \in [Procs -> {"idle"} \cup PushPc \cup PopPc \cup StealPc]
    BY IndexFacts
  <1>1. /\ pc[Owner] = "push_publish" /\ pc'[Owner] = "idle"
        /\ top' = top /\ bottom' = bottom + 1
        /\ bufs' = bufs /\ buffer' = buffer /\ dropped' = dropped
        /\ recipients' = Append(recipients, <<>>)
    BY <1>0 DEF PushPublish, Return, Goto, memoryVars
  <1>2. ~dropped
    BY <1>0, <1>1 DEF ReclaimInv
  <1>3. EffectiveBottom = bottom /\ EffectiveBottom' = bottom + 1
    BY <1>1 DEF EffectiveBottom
  <1>4. PICK n \in Nat : n = bottom - top
    BY <1>0, <1>3 DEF IndexInv
  <1>5. bottom + 1 - top = n + 1
    BY <1>0, <1>4
  <1>6. /\ Items = [i \in 1..n |-> Active(top + i - 1)]
        /\ Items' = [i \in 1..n+1 |-> Active(top + i - 1)]
    <2>1. top' = top /\ bufs' = bufs /\ buffer' = buffer
      BY <1>1
    <2>2. EffectiveBottom - top = n /\ EffectiveBottom' - top' = n + 1
      BY <2>1, <1>0, <1>3, <1>4, <1>5
    <2>3. Items = [i \in 1..EffectiveBottom - top |-> Active(top + i - 1)]
      BY DEF Items, Active
    <2>4. Items' = [i \in 1..EffectiveBottom' - top' |-> Active(top + i - 1)]
      BY <2>1 DEF Items, Active
    <2> QED
      BY <2>2, <2>3, <2>4
  <1>7. Active(top + (n + 1) - 1) = Len(recipients) + 1
    <2>1. top + (n + 1) - 1 = bottom
      BY <1>0, <1>4
    <2> QED
      BY <2>1, <1>1 DEF ExactlyOnceInv, ClaimInv
  <1> DEFINE A(i) == Active(top + i - 1)
  <1>8. /\ Items = [i \in 1..n |-> A(i)]
        /\ Items' = [i \in 1..n+1 |-> A(i)]
        /\ A(n + 1) = Len(recipients) + 1
    BY <1>6, <1>7
  <1> HIDE DEF A
  <1>9. Items' = Append(Items, A(n + 1))
    BY <1>8
  <1> QED
    BY <1>1, <1>2, <1>8, <1>9 DEF Deque!Put

\* A successful CAS on top takes the oldest task.
LEMMA CasTakesFirst ==
    ASSUME TypeOK, IndexInv, ~dropped, NEW p \in Procs,
           top < EffectiveBottom, top' = top + 1,
           EffectiveBottom' = EffectiveBottom, TakeBox(p, Active(top)),
           UNCHANGED <<bufs, buffer, dropped>>
    PROVE  /\ Deque!TakeFirst(p)
           /\ EffectiveBottom = top + 1 => Deque!TakeLast(p)
  <1>0. top \in Int /\ EffectiveBottom \in Int
    BY IndexFacts
  <1>1. PICK n \in Nat : n + 1 = EffectiveBottom - top
    <2>1. EffectiveBottom - top - 1 \in Nat
      BY <1>0
    <2> QED
      BY <2>1, <1>0
  <1>2. EffectiveBottom' - top' = n
    BY <1>0, <1>1
  <1>3. /\ Items = [i \in 1..n+1 |-> Active(top + i - 1)]
        /\ Items' = [i \in 1..n |-> Active(top + 1 + i - 1)]
    BY <1>1, <1>2 DEF Items, Active
  <1> DEFINE A(i) == Active(top + i - 1)
  <1>4. \A i \in 1..n : top + 1 + i - 1 = top + (i + 1) - 1
    BY <1>0
  <1>5. /\ Items = [i \in 1..n+1 |-> A(i)]
        /\ Items' = [i \in 1..n |-> A(i + 1)]
    BY <1>3, <1>4
  <1>6. A(1) = Active(top)
    <2>1. top + 1 - 1 = top
      BY <1>0
    <2> QED
      BY <2>1
  <1> HIDE DEF A
  <1>7. Items # <<>> /\ Head(Items) = A(1) /\ Len(Items) = n + 1
    BY <1>5
  <1>8. Items' = Tail(Items)
    BY <1>5, <1>7
  <1>9. Deque!TakeFirst(p)
    BY <1>6, <1>7, <1>8 DEF Deque!TakeFirst, Deque!HandOver, TakeBox
  <1>10. ASSUME EffectiveBottom = top + 1
         PROVE  Deque!TakeLast(p)
    <2>1. n = 0
      BY <1>0, <1>1, <1>10
    <2>2. Items = <<A(1)>> /\ Items' = <<>>
      BY <2>1, <1>5
    <2>3. Deque!Last(Items) = A(1) /\ Deque!Front(Items) = <<>>
      BY <2>2 DEF Deque!Last, Deque!Front
    <2> QED
      BY <2>2, <2>3, <1>6, <1>7 DEF Deque!TakeLast, Deque!HandOver, TakeBox
  <1> QED
    BY <1>9, <1>10

\* pop: with more than one task there, the load of top takes the newest.
LEMMA PopTakesLast ==
    ASSUME TypeOK, ReclaimInv, IndexInv, PopTake
    PROVE  Deque!TakeLast(Owner)
  <1>0. /\ Owner \in Procs /\ top \in Int /\ bottom \in Int
        /\ pc \in [Procs -> {"idle"} \cup PushPc \cup PopPc \cup StealPc]
    BY IndexFacts
  <1>1. /\ pc[Owner] = "pop_top" /\ bottom > top
        /\ pc'[Owner] \in {"pop_shrink", "idle"}
        /\ top' = top /\ bottom' = bottom
        /\ bufs' = bufs /\ buffer' = buffer /\ dropped' = dropped
        /\ TakeBox(Owner, Active(bottom))
    BY <1>0 DEF PopTake, Return, Goto, memoryVars, indexVars, Active
  <1>2. ~dropped
    BY <1>0, <1>1 DEF ReclaimInv
  <1>3. EffectiveBottom = bottom + 1 /\ EffectiveBottom' = bottom
    BY <1>1 DEF EffectiveBottom
  <1>4. PICK n \in Nat : n = bottom - top
    BY <1>0, <1>1
  <1>5. bottom + 1 - top = n + 1
    BY <1>0, <1>4
  <1>6. /\ Items = [i \in 1..n+1 |-> Active(top + i - 1)]
        /\ Items' = [i \in 1..n |-> Active(top + i - 1)]
    <2>1. top' = top /\ bufs' = bufs /\ buffer' = buffer
      BY <1>1
    <2>2. EffectiveBottom - top = n + 1 /\ EffectiveBottom' - top' = n
      BY <2>1, <1>0, <1>3, <1>4, <1>5
    <2>3. Items = [i \in 1..EffectiveBottom - top |-> Active(top + i - 1)]
      BY DEF Items, Active
    <2>4. Items' = [i \in 1..EffectiveBottom' - top' |-> Active(top + i - 1)]
      BY <2>1 DEF Items, Active
    <2> QED
      BY <2>2, <2>3, <2>4
  <1> DEFINE A(i) == Active(top + i - 1)
  <1>7. A(n + 1) = Active(bottom)
    <2>1. top + (n + 1) - 1 = bottom
      BY <1>0, <1>4
    <2> QED
      BY <2>1
  <1>8. /\ Items = [i \in 1..n+1 |-> A(i)]
        /\ Items' = [i \in 1..n |-> A(i)]
    BY <1>6
  <1> HIDE DEF A
  <1>9. /\ Items # <<>> /\ Len(Items) = n + 1 /\ Deque!Last(Items) = A(n + 1)
        /\ Deque!Front(Items) = Items'
    BY <1>8 DEF Deque!Last, Deque!Front
  <1> QED
    BY <1>1, <1>2, <1>7, <1>9 DEF Deque!TakeLast, Deque!HandOver, TakeBox

\* Inner::drop destroys what is left.
LEMMA DropCloses ==
    ASSUME TypeOK, IndexInv, NEW p \in Procs, Drop(p)
    PROVE  Deque!Close(p)
  <1>0. Owner \in Procs /\ top \in Int /\ bottom \in Int
    BY IndexFacts
  <1>1. EffectiveBottom = bottom
    BY <1>0 DEF Drop, EffectiveBottom
  <1>2. PICK n \in Nat : n = bottom - top
    BY <1>0, <1>1 DEF IndexInv
  <1>3. Items = [i \in 1..n |-> Active(top + i - 1)]
    BY <1>1, <1>2 DEF Items, Active
  <1> DEFINE left == {CellOf(bufs[buffer], i) : i \in top..bottom-1}
  <1>4. ASSUME NEW k
        PROVE  k \in left <=> Deque!Contains(Items, k)
    <2>1. k \in left <=> \E i \in top..bottom-1 : Active(i) = k
      BY DEF Active
    <2>2. Deque!Contains(Items, k) <=> \E i \in 1..n : Active(top + i - 1) = k
      BY <1>3 DEF Deque!Contains
    <2>3. \A i \in 1..n : top + i - 1 \in top..bottom-1
      BY <1>0, <1>2
    <2>4. \A i \in top..bottom-1 :
              i - top + 1 \in 1..n /\ top + (i - top + 1) - 1 = i
      BY <1>0, <1>2
    <2>5. ASSUME NEW i \in top..bottom-1, Active(i) = k
          PROVE  \E j \in 1..n : Active(top + j - 1) = k
      BY <2>4, <2>5
    <2> QED
      BY <2>1, <2>2, <2>3, <2>5
  <1>5. recipients' = [k \in DOMAIN recipients |->
                          IF k \in left THEN Append(recipients[k], p)
                                        ELSE recipients[k]]
    BY DEF Drop
  <1> HIDE DEF left
  <1>6. recipients' = [k \in DOMAIN recipients |->
                          IF Deque!Contains(Items, k)
                          THEN Append(recipients[k], p)
                          ELSE recipients[k]]
    BY <1>4, <1>5
  <1> QED
    BY <1>6 DEF Drop, Deque!Close

\* The steps of push and pop that nobody sees.
LEMMA OwnerUnseen ==
    ASSUME TypeOK, IndexInv,
           \/ PushBegin \/ PushLoadTop \/ PushGrow \/ PushReclaim \/ PushFree
           \/ PushWrite \/ PopBegin \/ PopFindEmpty \/ PopRestoreEmpty
           \/ PopShrink \/ PopReclaim \/ PopFree \/ PopDone \/ PopFindLast
           \/ PopRestoreLast
    PROVE  Unseen
  <1>0. /\ top \in Int /\ bottom \in Int /\ Owner \in Procs
        /\ ActiveCap \in Nat /\ ActiveCap > 0
        /\ pc \in [Procs -> {"idle"} \cup PushPc \cup PopPc \cup StealPc]
    BY IndexFacts
  <1>a. ASSUME EffectiveBottom' = EffectiveBottom,
               UNCHANGED <<top, bufs, buffer, recipients, dropped>>
        PROVE  Unseen
    BY <1>a DEF Unseen, Active
  <1>b. ASSUME NEW newCap \in Nat \ {0}, NEW next, Install(newCap, next),
               next \in {"push_reclaim", "pop_reclaim"},
               pc[Owner] \in {"push_grow", "pop_shrink"},
               bottom - regs[Owner].t <= newCap
        PROVE  Unseen
    <2>1. EffectiveBottom = bottom /\ EffectiveBottom' = bottom
      BY <1>0, <1>b DEF Install, Goto, indexVars, EffectiveBottom
    <2>2. \A i \in LiveIndices : Active(i)' = Active(i)
      BY <2>1, <1>b, InstallCells DEF LiveIndices
    <2> QED
      BY <2>1, <2>2, <1>b DEF Install, indexVars, historyVars, Unseen
  <1> USE DEF indexVars, memoryVars, historyVars
  <1>1. CASE PushBegin
    <2>1. EffectiveBottom' = EffectiveBottom
      BY <1>0, <1>1 DEF PushBegin, Goto, EffectiveBottom
    <2> QED
      BY <2>1, <1>1, <1>a DEF PushBegin
  <1>2. CASE PushLoadTop
    <2>1. EffectiveBottom' = EffectiveBottom
      BY <1>0, <1>2 DEF PushLoadTop, Goto, EffectiveBottom
    <2> QED
      BY <2>1, <1>2, <1>a DEF PushLoadTop
  <1>3. CASE PushGrow
    <2>1. Install(2 * ActiveCap, "push_reclaim") /\ pc[Owner] = "push_grow"
      BY <1>3 DEF PushGrow
    <2>2. /\ bottom - regs[Owner].t <= 2 * ActiveCap
          /\ 2 * ActiveCap \in Nat \ {0}
      BY <1>0, <2>1, IndexFacts DEF IndexInv
    <2> QED
      BY <2>1, <2>2, <1>b
  <1>4. CASE PushReclaim
    <2>1. EffectiveBottom' = EffectiveBottom
      BY <1>0, <1>4 DEF PushReclaim, LoadInFlight, Goto, EffectiveBottom
    <2> QED
      BY <2>1, <1>4, <1>a DEF PushReclaim, LoadInFlight
  <1>5. CASE PushFree
    <2>1. EffectiveBottom' = EffectiveBottom
      BY <1>0, <1>5 DEF PushFree, FreeRetired, Goto, EffectiveBottom
    <2> QED
      BY <2>1, <1>5, <1>a DEF PushFree, FreeRetired
  <1>6. CASE PushWrite
    <2>1. EffectiveBottom = bottom /\ EffectiveBottom' = bottom
      BY <1>0, <1>6 DEF PushWrite, Goto, EffectiveBottom
    <2>2. bottom - top < ActiveCap
      BY <1>0, <1>6 DEF PushWrite, IndexInv
    <2>3. \A i \in LiveIndices : Active(i)' = Active(i)
      BY <1>0, <1>6, <2>1, <2>2, WriteCell DEF LiveIndices
    <2> QED
      BY <1>6, <2>1, <2>3 DEF PushWrite, Unseen
  <1>7. CASE PopBegin
    <2>1. EffectiveBottom' = EffectiveBottom
      BY <1>0, <1>7 DEF PopBegin, Goto, EffectiveBottom
    <2> QED
      BY <2>1, <1>7, <1>a DEF PopBegin
  <1>8. CASE PopFindEmpty
    <2>1. EffectiveBottom' = EffectiveBottom
      BY <1>0, <1>8 DEF PopFindEmpty, Goto, EffectiveBottom
    <2> QED
      BY <2>1, <1>8, <1>a DEF PopFindEmpty
  <1>9. CASE PopRestoreEmpty
    <2>1. EffectiveBottom' = EffectiveBottom
      BY <1>0, <1>9 DEF PopRestoreEmpty, Return, Goto, EffectiveBottom,
         IndexInv
    <2> QED
      BY <2>1, <1>9, <1>a DEF PopRestoreEmpty
  <1>10. CASE PopShrink
    <2>1. /\ Install(ShrunkCap(ActiveCap), "pop_reclaim")
          /\ pc[Owner] = "pop_shrink"
      BY <1>10 DEF PopShrink
    <2>2. /\ bottom - regs[Owner].t <= ShrunkCap(ActiveCap)
          /\ ShrunkCap(ActiveCap) \in Nat \ {0}
      BY <1>0, <2>1, ShrinkFits, IndexFacts DEF IndexInv
    <2> QED
      BY <2>1, <2>2, <1>b
  <1>11. CASE PopReclaim
    <2>1. EffectiveBottom' = EffectiveBottom
      BY <1>0, <1>11 DEF PopReclaim, LoadInFlight, Goto, EffectiveBottom
    <2> QED
      BY <2>1, <1>11, <1>a DEF PopReclaim, LoadInFlight
  <1>12. CASE PopFree
    <2>1. EffectiveBottom' = EffectiveBottom
      BY <1>0, <1>12 DEF PopFree, FreeRetired, Goto, EffectiveBottom
    <2> QED
      BY <2>1, <1>12, <1>a DEF PopFree, FreeRetired
  <1>13. CASE PopDone
    <2>1. EffectiveBottom' = EffectiveBottom
      BY <1>0, <1>13 DEF PopDone, Return, Goto, EffectiveBottom
    <2> QED
      BY <2>1, <1>13, <1>a DEF PopDone
  <1>14. CASE PopFindLast
    <2>1. EffectiveBottom' = EffectiveBottom
      BY <1>0, <1>14 DEF PopFindLast, Goto, EffectiveBottom
    <2> QED
      BY <2>1, <1>14, <1>a DEF PopFindLast
  <1>15. CASE PopRestoreLast
    <2>1. EffectiveBottom' = EffectiveBottom
      BY <1>0, <1>15 DEF PopRestoreLast, Return, Goto, EffectiveBottom,
         IndexInv
    <2> QED
      BY <2>1, <1>15, <1>a DEF PopRestoreLast
  <1> QED
    BY <1>1, <1>2, <1>3, <1>4, <1>5, <1>6, <1>7, <1>8, <1>9, <1>10, <1>11,
       <1>12, <1>13, <1>14, <1>15

\* The steps of steal_from that nobody sees: all but a CAS that succeeds.
LEMMA ThiefUnseen ==
    ASSUME TypeOK, IndexInv, NEW p \in Procs, Steal(p),
           StealCas(p) => top # regs[p].t
    PROVE  Unseen
  <1>0. /\ Owner \in Procs
        /\ pc \in [Procs -> {"idle"} \cup PushPc \cup PopPc \cup StealPc]
    BY IndexFacts
  <1>1. UNCHANGED <<top, bottom, bufs, buffer, recipients, dropped>>
    BY DEF Steal, StealLoadTop, StealFindEmpty, StealFindTask, StealEnter,
           StealLoadBuffer, StealRead, StealLeave, StealCas, indexVars,
           memoryVars, historyVars
  <1>2. EffectiveBottom' = EffectiveBottom
    BY <1>0, <1>1
    DEF Steal, StealLoadTop, StealFindEmpty, StealFindTask, StealEnter,
        StealLoadBuffer, StealRead, StealLeave, StealCas, MaySteal, Return,
        Goto, EffectiveBottom
  <1> QED
    BY <1>1, <1>2 DEF Unseen, Active

\* Every access to shared memory is a step of the atomic deque, or none.
LEMMA DequeStep ==
    ASSUME TypeOK, ReclaimInv, IndexInv, ExactlyOnceInv, ModeInv, Next
    PROVE  Deque!Next \/ UNCHANGED Deque!vars
  <1>0. /\ Owner \in Procs /\ top \in Int /\ bottom \in Int
        /\ EffectiveBottom \in Int
        /\ pc \in [Procs -> {"idle"} \cup PushPc \cup PopPc \cup StealPc]
    BY IndexFacts
  <1>1. CASE Push
    <2>1. CASE PushPublish
      BY <2>1, PublishPuts DEF Deque!Next
    <2>2. CASE ~PushPublish
      BY <1>1, <2>2, OwnerUnseen, UnseenStutters DEF Push
    <2> QED
      BY <2>1, <2>2
  <1>2. CASE Pop
    <2>1. CASE PopTake
      <3>1. ~Fifo
        BY <2>1 DEF PopTake, ModeInv, PopPc
      <3> QED
        BY <2>1, <3>1, PopTakesLast DEF Deque!Next, Deque!OwnerTake
    <2>2. CASE PopCas
      <3>0. pc[Owner] = "pop_cas" /\ ~Fifo /\ ~dropped
        BY <1>0, <2>2 DEF PopCas, ModeInv, PopPc, ReclaimInv
      <3>1. /\ regs[Owner].t = bottom /\ regs[Owner].box = Active(bottom)
            /\ EffectiveBottom = bottom + 1 /\ EffectiveBottom' = bottom + 1
        BY <1>0, <2>2
        DEF PopCas, Goto, IndexInv, ExactlyOnceInv, ClaimInv, EffectiveBottom
      <3>2. CASE top = regs[Owner].t
        <4>1. /\ top < EffectiveBottom /\ top' = top + 1
              /\ EffectiveBottom' = EffectiveBottom
              /\ TakeBox(Owner, Active(top))
              /\ UNCHANGED <<bufs, buffer, dropped>>
              /\ EffectiveBottom = top + 1
          BY <1>0, <2>2, <3>1, <3>2 DEF PopCas, memoryVars
        <4>2. Deque!TakeLast(Owner)
          BY <1>0, <3>0, <4>1, CasTakesFirst
        <4> QED
          BY <3>0, <4>2 DEF Deque!Next, Deque!OwnerTake
      <3>3. CASE top # regs[Owner].t
        <4>1. Unseen
          BY <2>2, <3>1, <3>3 DEF PopCas, memoryVars, Unseen, Active
        <4> QED
          BY <4>1, UnseenStutters
      <3> QED
        BY <3>2, <3>3
    <2>3. CASE ~PopTake /\ ~PopCas
      BY <1>2, <2>3, OwnerUnseen, UnseenStutters DEF Pop
    <2> QED
      BY <2>1, <2>2, <2>3
  <1>3. ASSUME NEW p \in Procs, Steal(p)
        PROVE  Deque!Next \/ UNCHANGED Deque!vars
    <2>1. CASE StealCas(p) /\ top = regs[p].t
      <3>1. top < EffectiveBottom /\ regs[p].box = Active(top)
        BY <2>1 DEF StealCas, IndexInv, ExactlyOnceInv, ClaimInv, StealPc
      <3>2. EffectiveBottom' = EffectiveBottom
        BY <1>0, <2>1 DEF StealCas, Return, Goto, EffectiveBottom
      <3>3. /\ top' = top + 1 /\ TakeBox(p, Active(top)) /\ ~dropped
            /\ UNCHANGED <<bufs, buffer, dropped>>
        BY <2>1, <3>1 DEF StealCas, memoryVars, ReclaimInv
      <3>4. Deque!TakeFirst(p)
        BY <3>1, <3>2, <3>3, CasTakesFirst
      <3>5. p = Owner => Fifo
        BY <2>1 DEF StealCas, ModeInv, StealPc
      <3> QED
        BY <3>4, <3>5 DEF Deque!Next, Deque!OwnerTake, Procs
    <2>2. CASE ~(StealCas(p) /\ top = regs[p].t)
      BY <1>3, <2>2, ThiefUnseen, UnseenStutters
    <2> QED
      BY <2>1, <2>2
  <1>4. ASSUME NEW p \in Procs, Drop(p)
        PROVE  Deque!Next
    <2>1. Deque!Close(p)
      BY <1>4, DropCloses
    <2> QED
      BY <2>1 DEF Deque!Next, Deque!Procs, Procs
  <1> QED
    BY <1>1, <1>2, <1>3, <1>4 DEF Next

LEMMA DequeInit == Init => Deque!Init
  <1> SUFFICES ASSUME Init PROVE Deque!Init
    OBVIOUS
  <1>1. EffectiveBottom = 0 /\ top = 0
    BY OwnerIsProc DEF Init, EffectiveBottom
  <1>2. Items = <<>>
    <2>1. 1..0 = {}
      OBVIOUS
    <2>2. Items = [i \in 1..0 |-> CellOf(bufs[buffer], top + i - 1)]
      BY <1>1 DEF Items
    <2> QED
      BY <2>1, <2>2
  <1> QED
    BY <1>2 DEF Init, Deque!Init

\* Beside the invariant of the contents, the owner keeps to one way of taking.
THEOREM ModeKept == Spec => []ModeInv
  <1>1. Init => ModeInv
    BY OwnerIsProc DEF Init, ModeInv, PopPc, StealPc
  <1> QED
    BY <1>1, ModeStep, InductiveInvariant, PTL DEF Spec

\* lib.rs 1-60: push, pop and steal are atomic.  Every behaviour of the code
\* is one of the deque of TaskDeque: thieves take the oldest task, the owner
\* the newest, or the oldest under new_fifo, and each task goes to one.
THEOREM DequeIsAtomic == Spec => ImplementsDeque
  <1>1. /\ TypeOK /\ ReclaimInv /\ IndexInv /\ ExactlyOnceInv /\ ModeInv
        /\ [Next]_vars
        => [Deque!Next]_(Deque!vars)
    <2>1. ASSUME UNCHANGED vars, TypeOK, IndexInv
          PROVE  UNCHANGED Deque!vars
      <3>1. Unseen
        BY <2>1 DEF vars, indexVars, memoryVars, historyVars, Unseen,
                    EffectiveBottom, Active
      <3> QED
        BY <2>1, <3>1, UnseenStutters
    <2> QED
      BY <2>1, DequeStep
  <1> QED
    BY <1>1, DequeInit, InductiveInvariant, ModeKept, PTL
    DEF Spec, ImplementsDeque, Deque!Spec

\* lib.rs: steal_from gives up at `size <= 0`, and pop at `size < 0`: when they
\* do there is nothing left but, for the thief, a task that pop is taking.
THEOREM EmptyMeansEmpty == Spec => EmptyIsHonest
  <1>1. ASSUME TypeOK, IndexInv, NEW p \in Procs, StealFindEmpty(p)
        PROVE  \/ Items = <<>>
               \/ Len(Items) = 1 /\ pc[Owner] \in {"pop_top", "pop_cas"}
    <2>1. /\ top \in Int /\ bottom \in Int /\ regs[p].t \in Int
      BY <1>1, IndexFacts
    <2>2. bottom <= top
      BY <1>1, <2>1 DEF StealFindEmpty, IndexInv, StealPc
    <2>3. PICK n \in Nat : /\ n = EffectiveBottom - top
                           /\ Items = [i \in 1..n |-> Active(top + i - 1)]
                           /\ Len(Items) = n
      BY <1>1, ItemsAre
    <2>4. CASE n = 0
      BY <2>3, <2>4
    <2>5. CASE n # 0
      <3>1. n = 1 /\ EffectiveBottom = bottom + 1 /\ bottom = top
        BY <2>1, <2>2, <2>3, <2>5 DEF EffectiveBottom
      <3>2. pc[Owner] \in {"pop_top", "pop_empty", "pop_cas", "pop_restore"}
        BY <2>1, <3>1 DEF EffectiveBottom
      <3>3. pc[Owner] \notin {"pop_empty", "pop_restore"}
        BY <1>1, <2>1, <3>1 DEF IndexInv
      <3> QED
        BY <2>3, <3>1, <3>2, <3>3
    <2> QED
      BY <2>4, <2>5
  <1>2. ASSUME TypeOK, IndexInv, PopFindEmpty
        PROVE  Items = <<>>
    <2>1. top \in Int /\ bottom \in Int
      BY <1>2, IndexFacts
    <2>2. PICK n \in Nat : /\ n = EffectiveBottom - top
                           /\ Items = [i \in 1..n |-> Active(top + i - 1)]
                           /\ Len(Items) = n
      BY <1>2, ItemsAre
    <2>3. EffectiveBottom = bottom + 1 /\ bottom < top
      BY <1>2 DEF PopFindEmpty, EffectiveBottom
    <2>4. n = 0
      BY <2>1, <2>2, <2>3
    <2> QED
      BY <2>2, <2>4
  <1>3. TypeOK /\ IndexInv =>
          [/\ \A p \in Procs : StealFindEmpty(p) =>
                 \/ Items = <<>>
                 \/ Len(Items) = 1 /\ pc[Owner] \in {"pop_top", "pop_cas"}
           /\ PopFindEmpty => Items = <<>>]_vars
    BY <1>1, <1>2
  <1> QED
    BY <1>3, InductiveInvariant, PTL DEF EmptyIsHonest
==============================================================================
