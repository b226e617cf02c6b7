----------------------------- MODULE PartsProofs -----------------------------
(***************************************************************************)
(* Proofs about Parts: the priority pool hands out the highest priority,   *)
(* for any number of levels, thieves and tasks; the queue with its log is  *)
(* a durable queue, for any values and any length of the log; and the      *)
(* nodes of the distributed scheduler are one pool of tasks, for any       *)
(* number of nodes and tasks, and owe each other one answer at a time.     *)
(***************************************************************************)
EXTENDS Parts, SequenceTheorems, FiniteSetTheorems, WellFoundedInduction,
        TLAPS

-----------------------------------------------------------------------------
(* Sequences                                                               *)

\* What a sequence holds.
Elems(s) == {s[i] : i \in DOMAIN s}

\* A sequence is empty when it holds nothing.
LEMMA NoElems ==
    ASSUME NEW S, NEW s \in Seq(S)
    PROVE  /\ Elems(s) \subseteq S
           /\ s = <<>> <=> Elems(s) = {}
           /\ s = <<>> <=> Len(s) = 0
<1>1. DOMAIN s = 1..Len(s) /\ Len(s) \in Nat /\ s \in [1..Len(s) -> S]
    BY LenProperties
<1>2. CASE s = <<>>
  <2>1. Len(s) = 0
      BY <1>2, EmptySeq
  <2>2. 1..Len(s) = {}
      BY <2>1
  <2> QED
      BY <1>1, <1>2, <2>1, <2>2 DEF Elems
<1>3. CASE s # <<>>
  <2>1. Len(s) # 0 /\ 1 \in 1..Len(s)
      BY <1>1, <1>3, EmptySeq
  <2>2. s[1] \in Elems(s)
      BY <1>1, <2>1 DEF Elems
  <2> QED
      BY <1>1, <1>3, <2>1, <2>2 DEF Elems
<1> QED
    BY <1>2, <1>3

\* It holds what is appended besides.
LEMMA AppendElems ==
    ASSUME NEW S, NEW s \in Seq(S), NEW x \in S
    PROVE  /\ Append(s, x) \in Seq(S)
           /\ Len(Append(s, x)) = Len(s) + 1
           /\ Elems(Append(s, x)) = Elems(s) \cup {x}
<1>1. /\ Append(s, x) \in Seq(S)
      /\ Len(Append(s, x)) = Len(s) + 1
      /\ \A i \in 1..Len(s) : Append(s, x)[i] = s[i]
      /\ Append(s, x)[Len(s) + 1] = x
    BY AppendProperties
<1>2. /\ DOMAIN s = 1..Len(s) /\ Len(s) \in Nat
      /\ DOMAIN Append(s, x) = 1..(Len(s) + 1)
    BY <1>1, LenProperties
<1>3. 1..(Len(s) + 1) = 1..Len(s) \cup {Len(s) + 1}
    BY <1>2
<1> QED
    BY <1>1, <1>2, <1>3 DEF Elems

\* Its tail is shorter and holds nothing else.
LEMMA TailElems ==
    ASSUME NEW S, NEW s \in Seq(S), s # <<>>
    PROVE  /\ Tail(s) \in Seq(S) /\ Len(Tail(s)) = Len(s) - 1
           /\ Head(s) \in S
           /\ Elems(s) = {Head(s)} \cup Elems(Tail(s))
<1>1. /\ Head(s) \in S /\ Tail(s) \in Seq(S) /\ Len(Tail(s)) = Len(s) - 1
      /\ \A i \in 1..Len(Tail(s)) : Tail(s)[i] = s[i + 1]
    BY HeadTailProperties
<1>2. /\ DOMAIN s = 1..Len(s) /\ Len(s) \in Nat /\ Len(s) # 0
      /\ DOMAIN Tail(s) = 1..(Len(s) - 1)
    BY <1>1, LenProperties, EmptySeq
<1>3. Head(s) = s[1]
    OBVIOUS
<1>4. \A i \in 1..Len(s) : i = 1 \/ (i - 1 \in 1..(Len(s) - 1)
                                         /\ s[i] = Tail(s)[i - 1])
    BY <1>1, <1>2
<1>5. \A i \in 1..(Len(s) - 1) : i + 1 \in 1..Len(s) /\ Tail(s)[i] = s[i + 1]
    BY <1>1, <1>2
<1>6. Elems(s) \subseteq {Head(s)} \cup Elems(Tail(s))
    BY <1>2, <1>3, <1>4 DEF Elems
<1>7. {Head(s)} \cup Elems(Tail(s)) \subseteq Elems(s)
  <2>1. 1 \in 1..Len(s)
      BY <1>2
  <2> QED
      BY <2>1, <1>2, <1>3, <1>5 DEF Elems
<1> QED
    BY <1>1, <1>6, <1>7

\* The front of a sequence, as SequencesExt has it.
LEMMA FrontElems ==
    ASSUME NEW S, NEW s \in Seq(S), s # <<>>
    PROVE  /\ SubSeq(s, 1, Len(s) - 1) \in Seq(S)
           /\ Len(SubSeq(s, 1, Len(s) - 1)) = Len(s) - 1
           /\ s[Len(s)] \in S
           /\ Elems(s) = Elems(SubSeq(s, 1, Len(s) - 1)) \cup {s[Len(s)]}
<1> DEFINE f == SubSeq(s, 1, Len(s) - 1)
<1>1. /\ DOMAIN s = 1..Len(s) /\ Len(s) \in Nat /\ Len(s) # 0
      /\ s \in [1..Len(s) -> S]
    BY LenProperties, EmptySeq
<1>2. /\ f \in Seq(S) /\ Len(f) = Len(s) - 1
      /\ \A i \in 1..(Len(s) - 1) : f[i] = s[i]
  <2>1. \A i \in 1..(Len(s) - 1) : s[i] \in S
      BY <1>1
  <2>2. /\ f \in Seq(S)
        /\ Len(f) = IF 1 <= Len(s) - 1 THEN (Len(s) - 1) - 1 + 1 ELSE 0
        /\ \A i \in 1..((Len(s) - 1) - 1 + 1) : f[i] = s[1 + i - 1]
    <3>1. Len(s) - 1 \in Int /\ 1 \in Int
        BY <1>1
    <3> HIDE DEF f
    <3> QED
        BY <2>1, <3>1, SubSeqProperties DEF f
  <2> HIDE DEF f
  <2>3. (Len(s) - 1) - 1 + 1 = Len(s) - 1
      BY <1>1
  <2>4. Len(f) = Len(s) - 1
    <3>1. Len(f) = IF 1 <= Len(s) - 1 THEN (Len(s) - 1) - 1 + 1 ELSE 0
        BY <2>2
    <3>2. CASE Len(s) = 1
        BY <3>1, <3>2
    <3>3. CASE Len(s) # 1
      <4>1. 1 <= Len(s) - 1
          BY <1>1, <3>3
      <4> QED
          BY <4>1, <3>1, <2>3
    <3> QED
        BY <3>2, <3>3
  <2>5. ASSUME NEW i \in 1..(Len(s) - 1)
        PROVE  f[i] = s[i]
    <3>1. 1 + i - 1 = i
        OBVIOUS
    <3>2. f[i] = s[1 + i - 1]
        BY <2>2, <2>3
    <3> QED
        BY <3>1, <3>2
  <2> QED
      BY <2>2, <2>4, <2>5
<1> HIDE DEF f
<1>3. DOMAIN f = 1..(Len(s) - 1)
    BY <1>2, LenProperties
<1>4. 1..Len(s) = 1..(Len(s) - 1) \cup {Len(s)}
    BY <1>1
<1>5. Elems(s) = Elems(f) \cup {s[Len(s)]}
    BY <1>1, <1>2, <1>3, <1>4 DEF Elems
<1>6. s[Len(s)] \in S
    BY <1>1
<1> QED
    BY <1>2, <1>5, <1>6 DEF f

-----------------------------------------------------------------------------
(* The priority pool                                                       *)

\* The levels are numbered from the highest priority, 0.
LEMMA LevelFacts ==
    /\ NumLevels \in Nat \ {0}
    /\ 0 \in Prio!Levels
    /\ \A l \in Prio!Levels : /\ l \in Nat /\ l # Prio!NoLevel
                              /\ \A k \in 0..l - 1 : k \in Prio!Levels
                              /\ l + 1 < NumLevels => l + 1 \in Prio!Levels
<1>1. NumLevels \in Nat \ {0}
    BY PartsAssumption DEF Prio!PriorityAssumption
<1> QED
    BY <1>1 DEF Prio!Levels, Prio!NoLevel

\* What a push does to the levels, ...
LEMMA LevelGrows ==
    ASSUME Prio!PrioTypeOK, NEW l \in Prio!Levels,
           levels' = [levels EXCEPT ![l] = Append(@, pushed + 1)]
    PROVE  /\ levels' \in [Prio!Levels -> Seq(Nat)]
           /\ Prio!InLevel(l)' = Prio!InLevel(l) \cup {pushed + 1}
           /\ \A k \in Prio!Levels : k # l => levels'[k] = levels[k]
<1>1. levels[l] \in Seq(Nat) /\ pushed + 1 \in Nat
    BY DEF Prio!PrioTypeOK
<1>2. /\ Append(levels[l], pushed + 1) \in Seq(Nat)
      /\ Elems(Append(levels[l], pushed + 1)) = Elems(levels[l]) \cup {pushed + 1}
    BY <1>1, AppendElems
<1>3. /\ levels'[l] = Append(levels[l], pushed + 1)
      /\ \A k \in Prio!Levels : k # l => levels'[k] = levels[k]
    BY DEF Prio!PrioTypeOK
<1>4. levels' \in [Prio!Levels -> Seq(Nat)]
    BY <1>2 DEF Prio!PrioTypeOK
<1> QED
    BY <1>2, <1>3, <1>4 DEF Prio!InLevel, Prio!ToSet, Elems

\* ... and what a pop or a steal does.
LEMMA LevelShrinks ==
    ASSUME Prio!PrioTypeOK, NEW l \in Prio!Levels, levels[l] # <<>>,
           \/ levels' = [levels EXCEPT ![l] = Tail(@)]
           \/ levels' = [levels EXCEPT ![l] = Prio!Front(@)]
    PROVE  /\ levels' \in [Prio!Levels -> Seq(Nat)]
           /\ \A k \in Prio!Levels : /\ Prio!InLevel(k)' \subseteq Prio!InLevel(k)
                                     /\ levels[k] = <<>> => levels'[k] = <<>>
                                     /\ k # l => levels'[k] = levels[k]
           /\ Len(levels'[l]) = Len(levels[l]) - 1
           /\ Len(levels[l]) \in Nat
           /\ Len(levels[l]) = 1 => Prio!InLevel(l)' = {}
<1>1. levels[l] \in Seq(Nat) /\ Len(levels[l]) \in Nat
    BY DEF Prio!PrioTypeOK
<1>2. /\ levels'[l] \in Seq(Nat)
      /\ Len(levels'[l]) = Len(levels[l]) - 1
      /\ Elems(levels'[l]) \subseteq Elems(levels[l])
  <2>1. CASE levels' = [levels EXCEPT ![l] = Tail(@)]
    <3>1. levels'[l] = Tail(levels[l])
        BY <2>1 DEF Prio!PrioTypeOK
    <3> QED
        BY <1>1, <3>1, TailElems
  <2>2. CASE levels' = [levels EXCEPT ![l] = Prio!Front(@)]
    <3>1. levels'[l] = SubSeq(levels[l], 1, Len(levels[l]) - 1)
        BY <2>2 DEF Prio!PrioTypeOK, Prio!Front
    <3> QED
        BY <1>1, <3>1, FrontElems
  <2> QED
      BY <2>1, <2>2
<1>3. \A k \in Prio!Levels : k # l => levels'[k] = levels[k]
    BY DEF Prio!PrioTypeOK
<1>4. levels' \in [Prio!Levels -> Seq(Nat)]
  <2>1. DOMAIN levels' = Prio!Levels
      BY DEF Prio!PrioTypeOK
  <2>2. \A k \in Prio!Levels : levels'[k] \in Seq(Nat)
      BY <1>2, <1>3 DEF Prio!PrioTypeOK
  <2>3. levels' = [k \in Prio!Levels |-> levels'[k]]
      BY <2>1 DEF Prio!PrioTypeOK
  <2> QED
      BY <2>2, <2>3
<1>5. \A k \in Prio!Levels : Prio!InLevel(k)' \subseteq Prio!InLevel(k)
    BY ZenonT(40), <1>2, <1>3 DEF Prio!InLevel, Prio!ToSet, Elems
<1>6. Len(levels[l]) = 1 => Prio!InLevel(l)' = {}
  <2>1. Len(levels[l]) = 1 => Elems(levels'[l]) = {}
      BY <1>2, NoElems
  <2> QED
      BY <2>1 DEF Prio!InLevel, Prio!ToSet, Elems
<1> QED
    BY <1>1, <1>2, <1>3, <1>4, <1>5, <1>6

\* Every step keeps the types.
LEMMA PrioTypeStep ==
    ASSUME Prio!PrioTypeOK, Prio!PopScanned, Prio!PrioNext
    PROVE  Prio!PrioTypeOK'
<1> USE LevelFacts
<1>1. ASSUME NEW level \in 0..NumLevels, Prio!PushAt(level)
      PROVE  Prio!PrioTypeOK'
  <2>1. PICK l \in Prio!Levels :
            levels' = [levels EXCEPT ![l] = Append(@, pushed + 1)]
    <3> DEFINE l == IF level < NumLevels THEN level ELSE NumLevels - 1
    <3>1. l \in Prio!Levels
        BY DEF Prio!Levels
    <3> QED
        BY <1>1, <3>1 DEF Prio!PushAt
  <2>2. levels' \in [Prio!Levels -> Seq(Nat)]
      BY <2>1, LevelGrows
  <2> QED
      BY <1>1, <2>2 DEF Prio!PushAt, Prio!PrioTypeOK, Prio!thiefVars
<1>2. CASE Prio!PopScan \/ Prio!PopReach
    BY <1>2 DEF Prio!PopScan, Prio!PopReach, Prio!PrioTypeOK, Prio!thiefVars
<1>3. CASE Prio!PopTakes
  <2>1. /\ popAt \in Prio!Levels /\ levels[popAt] # <<>>
        /\ levels' = [levels EXCEPT ![popAt] = Prio!Front(@)]
        /\ popAt' = Prio!NoLevel /\ reaching' = FALSE
        /\ UNCHANGED <<pushed, Prio!thiefVars>>
        /\ since' = [p \in Stealers |-> since[p] \ {Prio!Last(levels[popAt])}]
      BY <1>3 DEF Prio!PopTakes, Prio!PrioTypeOK, Prio!PopScanned, Prio!Taken
  <2>2. levels' \in [Prio!Levels -> Seq(Nat)]
      BY <2>1, LevelShrinks
  <2>3. since' \in [Stealers -> SUBSET Nat]
      BY <2>1 DEF Prio!PrioTypeOK
  <2> QED
      BY <2>1, <2>2, <2>3 DEF Prio!PrioTypeOK, Prio!thiefVars
<1>4. CASE Prio!PopPasses
  <2>1. popAt' \in Prio!Levels \cup {Prio!NoLevel}
      BY <1>4 DEF Prio!PopPasses, Prio!PrioTypeOK, Prio!PopScanned
  <2> QED
      BY <1>4, <2>1 DEF Prio!PopPasses, Prio!PrioTypeOK, Prio!thiefVars
<1>5. ASSUME NEW p \in Stealers, Prio!ScanBegin(p)
      PROVE  Prio!PrioTypeOK'
  <2>1. \A l \in Prio!Levels : Prio!InLevel(l) \subseteq Nat
    <3>1. \A l \in Prio!Levels : Elems(levels[l]) \subseteq Nat
        BY NoElems DEF Prio!PrioTypeOK
    <3> QED
        BY <3>1 DEF Prio!InLevel, Prio!ToSet, Elems
  <2>2. since' \in [Stealers -> SUBSET Nat]
    <3>1. UNION {Prio!InLevel(l) : l \in Prio!Levels} \subseteq Nat
        BY <2>1
    <3> QED
        BY <1>5, <3>1 DEF Prio!ScanBegin, Prio!PrioTypeOK
  <2>3. /\ scanAt' \in [Stealers -> Prio!Levels \cup {Prio!NoLevel}]
        /\ retries' \in [Stealers -> SUBSET Prio!Levels]
      BY <1>5 DEF Prio!ScanBegin, Prio!PrioTypeOK
  <2> QED
      BY <1>5, <2>2, <2>3 DEF Prio!ScanBegin, Prio!PrioTypeOK, Prio!ownerVars
<1>6. ASSUME NEW p \in Stealers, Prio!ScanEmpty(p) \/ Prio!ScanRetry(p)
      PROVE  Prio!PrioTypeOK'
  <2>1. scanAt[p] \in Prio!Levels /\ Prio!Onward(p)
      BY <1>6 DEF Prio!ScanEmpty, Prio!ScanRetry, Prio!PrioTypeOK
  <2>2. scanAt' \in [Stealers -> Prio!Levels \cup {Prio!NoLevel}]
      BY <2>1 DEF Prio!Onward, Prio!PrioTypeOK
  <2>3. claim' \in [Stealers -> Nat]
      BY <1>6 DEF Prio!ScanEmpty, Prio!ScanRetry, Prio!PrioTypeOK, Prio!NoTask
  <2>4. retries' \in [Stealers -> SUBSET Prio!Levels]
    <3>1. CASE Prio!ScanEmpty(p)
        BY <3>1 DEF Prio!ScanEmpty, Prio!PrioTypeOK
    <3>2. CASE Prio!ScanRetry(p)
      <4>1. retries[p] \cup {scanAt[p]} \in SUBSET Prio!Levels
          BY <2>1 DEF Prio!PrioTypeOK
      <4>2. retries' = [retries EXCEPT ![p] = retries[p] \cup {scanAt[p]}]
          BY <3>2 DEF Prio!ScanRetry
      <4> QED
          BY <4>1, <4>2 DEF Prio!PrioTypeOK
    <3> QED
        BY <1>6, <3>1, <3>2
  <2> QED
      BY <1>6, <2>2, <2>3, <2>4
         DEF Prio!ScanEmpty, Prio!ScanRetry, Prio!PrioTypeOK, Prio!ownerVars
<1>7. ASSUME NEW p \in Stealers, Prio!ScanLook(p)
      PROVE  Prio!PrioTypeOK'
  <2>1. scanAt[p] \in Prio!Levels /\ levels[scanAt[p]] # <<>>
      BY <1>7 DEF Prio!ScanLook, Prio!PrioTypeOK
  <2>2. Head(levels[scanAt[p]]) \in Nat
    <3>1. levels[scanAt[p]] \in Seq(Nat)
        BY <2>1 DEF Prio!PrioTypeOK
    <3> QED
        BY <2>1, <3>1, TailElems
  <2>3. claim' \in [Stealers -> Nat]
      BY <1>7, <2>2 DEF Prio!ScanLook, Prio!PrioTypeOK
  <2> QED
      BY <1>7, <2>3 DEF Prio!ScanLook, Prio!PrioTypeOK, Prio!ownerVars
<1>8. ASSUME NEW p \in Stealers, Prio!ScanTake(p)
      PROVE  Prio!PrioTypeOK'
  <2>1. /\ scanAt[p] \in Prio!Levels /\ levels[scanAt[p]] # <<>>
        /\ levels' = [levels EXCEPT ![scanAt[p]] = Tail(@)]
      BY <1>8 DEF Prio!ScanTake, Prio!StillOldest, Prio!PrioTypeOK
  <2>2. levels' \in [Prio!Levels -> Seq(Nat)]
      BY <2>1, LevelShrinks
  <2>3. /\ scanAt' \in [Stealers -> Prio!Levels \cup {Prio!NoLevel}]
        /\ claim' \in [Stealers -> Nat]
        /\ since' \in [Stealers -> SUBSET Nat]
      BY <1>8 DEF Prio!ScanTake, Prio!Taken, Prio!PrioTypeOK, Prio!NoTask
  <2> QED
      BY <1>8, <2>2, <2>3 DEF Prio!ScanTake, Prio!PrioTypeOK, Prio!ownerVars
<1> QED
    BY <1>1, <1>2, <1>3, <1>4, <1>5, <1>6, <1>7, <1>8 DEF Prio!PrioNext

\* What a step does to the levels, and when a level that is about to lose its
\* only task is no longer that: when the task is gone.
LEMMA LevelsStep ==
    ASSUME Prio!PrioTypeOK, Prio!PopScanned, Prio!PrioNext
    PROVE  \/ /\ popAt = Prio!NoLevel /\ popAt' = Prio!NoLevel
              /\ pushed' = pushed + 1 /\ UNCHANGED since
              /\ UNCHANGED <<reaching, Prio!thiefVars>>
              /\ \A k \in Prio!Levels :
                    Prio!InLevel(k)' \subseteq Prio!InLevel(k) \cup {pushed + 1}
           \/ /\ pushed' = pushed
              /\ \A k \in Prio!Levels :
                    /\ Prio!InLevel(k)' \subseteq Prio!InLevel(k)
                    /\ levels[k] = <<>> => levels'[k] = <<>>
                    /\ Prio!AboutToGo(k) =>
                          Prio!AboutToGo(k)' \/ Prio!InLevel(k)' = {}
<1> USE LevelFacts
<1>1. ASSUME NEW level \in 0..NumLevels, Prio!PushAt(level)
      PROVE  /\ popAt = Prio!NoLevel /\ popAt' = Prio!NoLevel
             /\ pushed' = pushed + 1 /\ UNCHANGED since
             /\ UNCHANGED <<reaching, Prio!thiefVars>>
             /\ \A k \in Prio!Levels :
                   Prio!InLevel(k)' \subseteq Prio!InLevel(k) \cup {pushed + 1}
  <2>1. PICK l \in Prio!Levels :
            levels' = [levels EXCEPT ![l] = Append(@, pushed + 1)]
    <3> DEFINE l == IF level < NumLevels THEN level ELSE NumLevels - 1
    <3>1. l \in Prio!Levels
        BY DEF Prio!Levels
    <3> QED
        BY <1>1, <3>1 DEF Prio!PushAt
  <2>2. \A k \in Prio!Levels :
            Prio!InLevel(k)' \subseteq Prio!InLevel(k) \cup {pushed + 1}
      BY <2>1, LevelGrows DEF Prio!InLevel
  <2> QED
      BY <1>1, <2>2 DEF Prio!PushAt
<1>2. ASSUME pushed' = pushed, levels' = levels,
             \A k \in Prio!Levels : Prio!AboutToGo(k) => Prio!AboutToGo(k)'
      PROVE  /\ pushed' = pushed
             /\ \A k \in Prio!Levels :
                   /\ Prio!InLevel(k)' \subseteq Prio!InLevel(k)
                   /\ levels[k] = <<>> => levels'[k] = <<>>
                   /\ Prio!AboutToGo(k) =>
                         Prio!AboutToGo(k)' \/ Prio!InLevel(k)' = {}
    BY <1>2 DEF Prio!InLevel
<1>3. CASE Prio!PopScan \/ Prio!PopReach
  <2>1. \A k \in Prio!Levels : ~Prio!AboutToGo(k)
      BY <1>3 DEF Prio!PopScan, Prio!PopReach, Prio!AboutToGo, Prio!PopScanned
  <2> QED
      BY <1>2, <1>3, <2>1 DEF Prio!PopScan, Prio!PopReach
<1>4. CASE Prio!PopTakes
  <2>1. /\ popAt \in Prio!Levels /\ levels[popAt] # <<>>
        /\ levels' = [levels EXCEPT ![popAt] = Prio!Front(@)]
        /\ pushed' = pushed
      BY <1>4 DEF Prio!PopTakes, Prio!PrioTypeOK, Prio!PopScanned
  <2>2. \A k \in Prio!Levels :
           /\ Prio!InLevel(k)' \subseteq Prio!InLevel(k)
           /\ levels[k] = <<>> => levels'[k] = <<>>
      BY <2>1, LevelShrinks DEF Prio!InLevel
  <2>3. \A k \in Prio!Levels :
            k = popAt /\ Len(levels[k]) = 1 => Prio!InLevel(k)' = {}
      BY <2>1, LevelShrinks DEF Prio!InLevel
  <2>4. \A k \in Prio!Levels : Prio!AboutToGo(k) => Prio!InLevel(k)' = {}
      BY <2>3 DEF Prio!AboutToGo
  <2> QED
      BY <2>1, <2>2, <2>4
<1>5. CASE Prio!PopPasses
  <2>1. \A k \in Prio!Levels : ~Prio!AboutToGo(k)
    <3>1. \A k \in Prio!Levels : levels[k] = <<>> => Len(levels[k]) = 0
        BY NoElems DEF Prio!PrioTypeOK
    <3>2. levels[popAt] = <<>>
        BY <1>5 DEF Prio!PopPasses
    <3>3. \A k \in Prio!Levels : popAt = k => Len(levels[k]) = 0
        BY <3>1, <3>2
    <3> QED
        BY <3>3 DEF Prio!AboutToGo
  <2> QED
      BY <1>2, <1>5, <2>1 DEF Prio!PopPasses
<1>6. ASSUME NEW p \in Stealers,
             \/ Prio!ScanBegin(p) \/ Prio!ScanEmpty(p)
             \/ Prio!ScanLook(p) \/ Prio!ScanRetry(p)
      PROVE  levels' = levels /\ UNCHANGED Prio!ownerVars
    BY <1>6 DEF Prio!ScanBegin, Prio!ScanEmpty, Prio!ScanLook, Prio!ScanRetry
<1>7. CASE levels' = levels /\ UNCHANGED Prio!ownerVars
    BY <1>2, <1>7 DEF Prio!AboutToGo, Prio!ownerVars
<1>8. ASSUME NEW p \in Stealers, Prio!ScanTake(p)
      PROVE  /\ pushed' = pushed
             /\ \A k \in Prio!Levels :
                   /\ Prio!InLevel(k)' \subseteq Prio!InLevel(k)
                   /\ levels[k] = <<>> => levels'[k] = <<>>
                   /\ Prio!AboutToGo(k) =>
                         Prio!AboutToGo(k)' \/ Prio!InLevel(k)' = {}
  <2>1. /\ scanAt[p] \in Prio!Levels /\ levels[scanAt[p]] # <<>>
        /\ levels' = [levels EXCEPT ![scanAt[p]] = Tail(@)]
        /\ UNCHANGED Prio!ownerVars
      BY <1>8 DEF Prio!ScanTake, Prio!StillOldest, Prio!PrioTypeOK
  <2>2. \A k \in Prio!Levels :
           /\ Prio!InLevel(k)' \subseteq Prio!InLevel(k)
           /\ levels[k] = <<>> => levels'[k] = <<>>
           /\ k # scanAt[p] => levels'[k] = levels[k]
      BY <2>1, LevelShrinks DEF Prio!InLevel
  <2>3. \A k \in Prio!Levels :
            k = scanAt[p] /\ Len(levels[k]) = 1 => Prio!InLevel(k)' = {}
      BY <2>1, LevelShrinks DEF Prio!InLevel
  <2>4. \A k \in Prio!Levels : Prio!AboutToGo(k) =>
            Prio!AboutToGo(k)' \/ Prio!InLevel(k)' = {}
    <3> SUFFICES ASSUME NEW k \in Prio!Levels, Prio!AboutToGo(k)
                 PROVE  Prio!AboutToGo(k)' \/ Prio!InLevel(k)' = {}
        OBVIOUS
    <3>1. CASE k = scanAt[p]
        BY <3>1, <2>3 DEF Prio!AboutToGo
    <3>2. CASE k # scanAt[p]
        BY <3>2, <2>1, <2>2 DEF Prio!AboutToGo, Prio!ownerVars
    <3> QED
        BY <3>1, <3>2
  <2> QED
      BY <2>1, <2>2, <2>4 DEF Prio!ownerVars
<1> QED
    BY <1>1, <1>3, <1>4, <1>5, <1>6, <1>7, <1>8 DEF Prio!PrioNext

\* What happens to what a thief has seen.
LEMMA SinceStep ==
    ASSUME Prio!PrioTypeOK, Prio!PrioNext, NEW p \in Stealers
    PROVE  \/ since'[p] \subseteq since[p] /\ ~Prio!ScanBegin(p)
           \/ /\ Prio!ScanBegin(p)
              /\ since'[p] = UNION {Prio!InLevel(l) : l \in Prio!Levels}
<1>1. CASE Prio!ScanBegin(p)
    BY <1>1 DEF Prio!ScanBegin, Prio!PrioTypeOK
<1>2. CASE ~Prio!ScanBegin(p)
  <2>1. CASE UNCHANGED since
      BY <2>1, <1>2
  <2>2. ASSUME NEW t, Prio!Taken(t)
        PROVE  since'[p] \subseteq since[p]
      BY <2>2 DEF Prio!Taken
  <2>3. ASSUME NEW q \in Stealers, Prio!ScanBegin(q)
        PROVE  since'[p] = since[p]
    <3>1. q # p
        BY <1>2, <2>3
    <3> QED
        BY <2>3, <3>1 DEF Prio!ScanBegin, Prio!PrioTypeOK
  <2> QED
      BY <1>2, <2>1, <2>2, <2>3
         DEF Prio!PrioNext, Prio!PushAt, Prio!PopScan, Prio!PopReach,
             Prio!PopTakes, Prio!PopPasses, Prio!ScanEmpty, Prio!ScanLook,
             Prio!ScanTake, Prio!ScanRetry
<1> QED
    BY <1>1, <1>2

\* What was there has been pushed.
LEMMA PushedStep ==
    ASSUME Prio!PrioTypeOK, Prio!PushedBefore, Prio!PopScanned, Prio!PrioNext
    PROVE  Prio!PushedBefore'
<1>1. pushed \in Nat /\ (pushed' = pushed \/ pushed' = pushed + 1)
    BY LevelsStep DEF Prio!PrioTypeOK
<1>2. 1..pushed \subseteq 1..pushed'
    BY <1>1
<1>3. \A k \in Prio!Levels : Prio!InLevel(k)' \subseteq 1..pushed'
  <2>1. \A k \in Prio!Levels : Prio!InLevel(k) \subseteq 1..pushed
      BY DEF Prio!PushedBefore
  <2>2. pushed' = pushed + 1 => pushed + 1 \in 1..pushed'
      BY <1>1
  <2> QED
      BY <1>2, <2>1, <2>2, LevelsStep
<1>4. \A p \in Stealers : since'[p] \subseteq 1..pushed'
  <2> TAKE p \in Stealers
  <2>1. /\ since[p] \subseteq 1..pushed
        /\ UNION {Prio!InLevel(l) : l \in Prio!Levels} \subseteq 1..pushed
      BY DEF Prio!PushedBefore
  <2> QED
      BY <1>2, <2>1, SinceStep
<1> QED
    BY <1>3, <1>4 DEF Prio!PushedBefore, Prio!Levels, Prio!InLevel

\* What a thief has not overlooked it will not come to have overlooked: what
\* comes later it has not seen.
LEMMA StaysSeen ==
    ASSUME Prio!PrioTypeOK, Prio!PushedBefore, Prio!PopScanned, Prio!PrioNext,
           NEW p \in Stealers, ~Prio!ScanBegin(p),
           NEW l \in Prio!Levels, ~Prio!Overlooked(p, l)
    PROVE  ~Prio!Overlooked(p, l)'
<1>1. since'[p] \subseteq since[p]
    BY SinceStep
<1>2. CASE /\ popAt = Prio!NoLevel /\ popAt' = Prio!NoLevel
           /\ \A k \in Prio!Levels :
                  Prio!InLevel(k)' \subseteq Prio!InLevel(k) \cup {pushed + 1}
  <2>1. ~Prio!AboutToGo(l)
      BY <1>2, LevelFacts DEF Prio!AboutToGo
  <2>2. since[p] \cap Prio!InLevel(l) = {}
      BY <2>1 DEF Prio!Overlooked
  <2>3. pushed + 1 \notin since[p]
      BY DEF Prio!PushedBefore, Prio!PrioTypeOK
  <2>4. since'[p] \cap Prio!InLevel(l)' = {}
      BY <1>1, <1>2, <2>2, <2>3
  <2> QED
      BY <2>4 DEF Prio!Overlooked, Prio!InLevel
<1>3. CASE \A k \in Prio!Levels :
              /\ Prio!InLevel(k)' \subseteq Prio!InLevel(k)
              /\ Prio!AboutToGo(k) =>
                    Prio!AboutToGo(k)' \/ Prio!InLevel(k)' = {}
  <2>1. Prio!Overlooked(p, l)' =>
            since'[p] \cap Prio!InLevel(l)' # {} /\ ~Prio!AboutToGo(l)'
      BY DEF Prio!Overlooked, Prio!InLevel, Prio!AboutToGo
  <2>2. since[p] \cap Prio!InLevel(l) = {} \/ Prio!AboutToGo(l)
      BY DEF Prio!Overlooked
  <2> QED
      BY <1>1, <1>3, <2>1, <2>2
<1> QED
    BY <1>2, <1>3, LevelsStep

\* The owner's scan: it is the only one to push, and does not while it scans.
LEMMA PopStep ==
    ASSUME Prio!PrioTypeOK, Prio!PopScanned, Prio!PrioNext
    PROVE  Prio!PopScanned'
<1> USE LevelFacts
<1>1. CASE popAt' = Prio!NoLevel /\ ~reaching'
    BY <1>1 DEF Prio!PopScanned
<1>2. CASE /\ popAt' = popAt /\ (reaching' => popAt # Prio!NoLevel)
           /\ \A k \in Prio!Levels : levels[k] = <<>> => levels'[k] = <<>>
    BY <1>2 DEF Prio!PopScanned, Prio!PrioTypeOK
<1>3. ASSUME NEW level \in 0..NumLevels, Prio!PushAt(level)
      PROVE  popAt' = Prio!NoLevel /\ ~reaching'
    BY <1>3 DEF Prio!PushAt, Prio!PopScanned
<1>4. CASE Prio!PopScan
    BY <1>4 DEF Prio!PopScan, Prio!PopScanned, Prio!NoLevel
<1>5. CASE Prio!PopReach
    BY <1>5, <1>2 DEF Prio!PopReach
<1>6. CASE Prio!PopTakes
    BY <1>6, <1>1 DEF Prio!PopTakes
<1>7. CASE Prio!PopPasses
  <2>1. /\ popAt \in Prio!Levels /\ ~reaching' /\ levels' = levels
        /\ \A k \in 0..popAt - 1 : levels[k] = <<>>
        /\ levels[popAt] = <<>>
      BY <1>7 DEF Prio!PopPasses, Prio!PopScanned, Prio!PrioTypeOK
  <2>2. popAt' = popAt + 1 \/ popAt' = Prio!NoLevel
      BY <1>7 DEF Prio!PopPasses
  <2>3. popAt' = popAt + 1 => \A k \in 0..popAt' - 1 : levels'[k] = <<>>
      BY <2>1
  <2> QED
      BY <2>1, <2>2, <2>3 DEF Prio!PopScanned
<1>8. ASSUME NEW p \in Stealers,
             \/ Prio!ScanBegin(p) \/ Prio!ScanEmpty(p) \/ Prio!ScanLook(p)
             \/ Prio!ScanTake(p) \/ Prio!ScanRetry(p)
      PROVE  Prio!PopScanned'
  <2>1. popAt' = popAt /\ reaching' = reaching /\ pushed' = pushed
      BY <1>8 DEF Prio!ScanBegin, Prio!ScanEmpty, Prio!ScanLook,
                  Prio!ScanTake, Prio!ScanRetry, Prio!ownerVars
  <2>2. \A k \in Prio!Levels : levels[k] = <<>> => levels'[k] = <<>>
      BY <2>1, LevelsStep DEF Prio!PrioTypeOK
  <2>3. reaching' => popAt # Prio!NoLevel
      BY <2>1 DEF Prio!PopScanned
  <2> QED
      BY <2>1, <2>2, <2>3, <1>2
<1> QED
    BY <1>1, <1>3, <1>4, <1>5, <1>6, <1>7, <1>8 DEF Prio!PrioNext

\* A thief's place in its scan, and the levels where it lost.
LEMMA ScanStep ==
    ASSUME Prio!PrioTypeOK, Prio!PrioNext, NEW p \in Stealers
    PROVE  \/ Prio!ScanBegin(p) /\ scanAt'[p] = 0
           \/ ~Prio!ScanBegin(p) /\ scanAt'[p] = scanAt[p] /\ retries'[p] = retries[p]
           \/ Prio!ScanTake(p) /\ scanAt'[p] = Prio!NoLevel
           \/ /\ scanAt[p] \in Prio!Levels /\ ~Prio!ScanBegin(p)
              /\ scanAt'[p] = IF scanAt[p] + 1 < NumLevels THEN scanAt[p] + 1
                              ELSE Prio!NoLevel
              /\ \/ /\ retries'[p] = retries[p] /\ Prio!ScanEmpty(p)
                 \/ retries'[p] = retries[p] \cup {scanAt[p]}
<1>1. CASE Prio!ScanBegin(p)
    BY <1>1 DEF Prio!ScanBegin, Prio!PrioTypeOK
<1>2. CASE Prio!ScanTake(p)
    BY <1>2 DEF Prio!ScanTake, Prio!PrioTypeOK
<1>3. CASE Prio!ScanEmpty(p)
    BY <1>3 DEF Prio!ScanEmpty, Prio!ScanBegin, Prio!Onward, Prio!PrioTypeOK
<1>4. CASE Prio!ScanRetry(p)
    BY <1>4 DEF Prio!ScanRetry, Prio!ScanBegin, Prio!Onward, Prio!PrioTypeOK
<1>5. CASE /\ ~Prio!ScanBegin(p) /\ ~Prio!ScanTake(p)
           /\ ~Prio!ScanEmpty(p) /\ ~Prio!ScanRetry(p)
  <2>1. ASSUME NEW q \in Stealers,
               \/ Prio!ScanBegin(q) \/ Prio!ScanEmpty(q) \/ Prio!ScanLook(q)
               \/ Prio!ScanTake(q) \/ Prio!ScanRetry(q)
        PROVE  scanAt'[p] = scanAt[p] /\ retries'[p] = retries[p]
    <3>1. CASE Prio!ScanLook(q)
        BY <3>1 DEF Prio!ScanLook
    <3>2. CASE ~Prio!ScanLook(q)
      <4>1. q # p
          BY <1>5, <2>1, <3>2
      <4> QED
          BY <2>1, <3>2, <4>1
             DEF Prio!ScanBegin, Prio!ScanEmpty, Prio!ScanTake,
                 Prio!ScanRetry, Prio!Onward, Prio!PrioTypeOK
    <3> QED
        BY <3>1, <3>2
  <2>2. CASE UNCHANGED Prio!thiefVars
      BY <2>2, <1>5 DEF Prio!thiefVars
  <2> QED
      BY <1>5, <2>1, <2>2
         DEF Prio!PrioNext, Prio!PushAt, Prio!PopScan, Prio!PopReach,
             Prio!PopTakes, Prio!PopPasses
<1> QED
    BY <1>1, <1>2, <1>3, <1>4, <1>5

\* A level that looks empty has nothing that was overlooked.
LEMMA EmptyIsSeen ==
    ASSUME Prio!PrioTypeOK, NEW p \in Stealers, Prio!ScanEmpty(p)
    PROVE  ~Prio!Overlooked(p, scanAt[p])
<1>1. scanAt[p] \in Prio!Levels
    BY DEF Prio!ScanEmpty, Prio!PrioTypeOK
<1>2. levels[scanAt[p]] = <<>> => Prio!InLevel(scanAt[p]) = {}
  <2>1. levels[scanAt[p]] = <<>> => Elems(levels[scanAt[p]]) = {}
      BY <1>1, NoElems DEF Prio!PrioTypeOK
  <2> QED
      BY <2>1 DEF Prio!InLevel, Prio!ToSet, Elems
<1> QED
    BY <1>2 DEF Prio!ScanEmpty, Prio!Overlooked

\* A thief's scan: it moves on where it has overlooked nothing, or lost.
LEMMA StealStep ==
    ASSUME Prio!PrioInv, Prio!PrioNext
    PROVE  Prio!StealScanned'
<1> USE DEF Prio!PrioInv
<1> SUFFICES ASSUME NEW p \in Stealers, scanAt'[p] # Prio!NoLevel,
                    NEW l \in 0..scanAt'[p] - 1, l \notin retries'[p]
             PROVE  ~Prio!Overlooked(p, l)'
    BY DEF Prio!StealScanned, Prio!Overlooked
<1>1. ~(Prio!ScanBegin(p) /\ scanAt'[p] = 0)
    BY LevelFacts
<1>2. ~Prio!ScanBegin(p)
    BY <1>1, ScanStep DEF Prio!ScanBegin, Prio!PrioTypeOK
<1>3. ASSUME scanAt'[p] = scanAt[p], retries'[p] = retries[p]
      PROVE  l \in Prio!Levels /\ ~Prio!Overlooked(p, l)
  <2>1. scanAt[p] \in Prio!Levels
      BY <1>3 DEF Prio!PrioTypeOK
  <2> QED
      BY <1>3, <2>1, LevelFacts DEF Prio!StealScanned
<1>4. ASSUME scanAt[p] \in Prio!Levels, scanAt'[p] = scanAt[p] + 1,
             \/ retries'[p] = retries[p] /\ Prio!ScanEmpty(p)
             \/ retries'[p] = retries[p] \cup {scanAt[p]}
      PROVE  l \in Prio!Levels /\ ~Prio!Overlooked(p, l)
  <2>1. l \in 0..scanAt[p] - 1 \/ l = scanAt[p]
      BY <1>4, LevelFacts
  <2>2. CASE l \in 0..scanAt[p] - 1
      BY <1>4, <2>2, LevelFacts DEF Prio!StealScanned
  <2>3. CASE l = scanAt[p]
      BY <1>4, <2>3, EmptyIsSeen
  <2> QED
      BY <2>1, <2>2, <2>3
<1>5. l \in Prio!Levels /\ ~Prio!Overlooked(p, l)
    BY <1>2, <1>3, <1>4, ScanStep
<1> QED
    BY <1>2, <1>5, StaysSeen

\* A step of the other parts.
LEMMA PrioStutters ==
    ASSUME Prio!PrioInv, UNCHANGED prioVars
    PROVE  Prio!PrioInv'
BY DEF prioVars, Prio!PrioInv, Prio!PrioTypeOK, Prio!PushedBefore,
       Prio!PopScanned, Prio!StealScanned, Prio!Overlooked, Prio!AboutToGo,
       Prio!InLevel, Prio!Levels

\* All levels are empty at first.
LEMMA PrioStarts ==
    ASSUME Prio!PrioInit
    PROVE  Prio!PrioInv
<1>1. Prio!PrioTypeOK
  <2>1. <<>> \in Seq(Nat) /\ Prio!NoTask \in Nat
      BY EmptySeq DEF Prio!NoTask
  <2> QED
      BY <2>1 DEF Prio!PrioInit, Prio!PrioTypeOK
<1>2. \A l \in Prio!Levels : Prio!InLevel(l) = {}
    BY DEF Prio!PrioInit, Prio!InLevel, Prio!ToSet
<1> QED
    BY <1>1, <1>2 DEF Prio!PrioInit, Prio!PrioInv, Prio!PushedBefore,
                      Prio!PopScanned, Prio!StealScanned

\* priority.rs 75-83, 101-118: where a scan of the levels has been nothing
\* was missed, whatever came and went meanwhile.
THEOREM PriorityInvariant == PartsSpec => []Prio!PrioInv
<1>1. PartsInit => Prio!PrioInv
    BY PrioStarts DEF PartsInit
<1>2. Prio!PrioInv /\ [PartsNext]_partVars => Prio!PrioInv'
  <2> SUFFICES ASSUME Prio!PrioInv, [PartsNext]_partVars
               PROVE  Prio!PrioInv'
      OBVIOUS
  <2>1. CASE Prio!PrioNext
    <3>1. /\ Prio!PrioTypeOK /\ Prio!PushedBefore /\ Prio!PopScanned
        BY DEF Prio!PrioInv
    <3>2. Prio!PrioTypeOK' /\ Prio!PushedBefore' /\ Prio!PopScanned'
        BY <2>1, <3>1, PrioTypeStep, PushedStep, PopStep
    <3>3. Prio!StealScanned'
        BY <2>1, StealStep
    <3> QED
        BY <3>2, <3>3 DEF Prio!PrioInv
  <2>2. CASE UNCHANGED prioVars
      BY <2>2, PrioStutters
  <2> QED
      BY <2>1, <2>2 DEF PartsNext, InNodes, InLog, partVars
<1> QED
    BY <1>1, <1>2, PTL DEF PartsSpec

\* A pop takes its task below levels that are empty, and ends with nothing
\* only at the last of them.
LEMMA PopsStep ==
    ASSUME Prio!PrioInv, Prio!PrioNext
    PROVE  Prio!PopsHighest
<1> USE DEF Prio!PrioInv
<1>1. ASSUME Prio!PopTakes
      PROVE  \A l \in 0..popAt - 1 : levels[l] = <<>>
    BY <1>1 DEF Prio!PopTakes, Prio!PopScanned
<1>2. ASSUME reaching, popAt' = Prio!NoLevel, levels' = levels
      PROVE  \A l \in Prio!Levels : levels[l] = <<>>
  <2>1. popAt \in Prio!Levels
      BY <1>2 DEF Prio!PopScanned, Prio!PrioTypeOK
  <2>2. popAt' # popAt
      BY <1>2, <2>1, LevelFacts
  <2>3. ~Prio!PopTakes
    <3> SUFFICES ASSUME Prio!PopTakes PROVE FALSE
        OBVIOUS
    <3>1. /\ levels[popAt] # <<>>
          /\ levels' = [levels EXCEPT ![popAt] = Prio!Front(@)]
        BY DEF Prio!PopTakes
    <3>2. Len(levels'[popAt]) = Len(levels[popAt]) - 1
          /\ Len(levels[popAt]) \in Nat
        BY <2>1, <3>1, LevelShrinks
    <3> QED
        BY <1>2, <3>2
  <2>4. Prio!PopPasses
      BY <1>2, <2>2, <2>3
         DEF Prio!PrioNext, Prio!PushAt, Prio!PopScan, Prio!PopReach,
             Prio!ScanBegin, Prio!ScanEmpty, Prio!ScanLook, Prio!ScanTake,
             Prio!ScanRetry, Prio!ownerVars, Prio!PopScanned
  <2>5. levels[popAt] = <<>> /\ ~(popAt + 1 < NumLevels)
    <3>1. popAt + 1 < NumLevels => popAt' = popAt + 1
        BY <2>4 DEF Prio!PopPasses
    <3>2. popAt + 1 # Prio!NoLevel
        BY <2>1, LevelFacts DEF Prio!NoLevel
    <3> QED
        BY <1>2, <2>4, <3>1, <3>2 DEF Prio!PopPasses
  <2>6. \A l \in 0..popAt - 1 : levels[l] = <<>>
      BY <1>2 DEF Prio!PopScanned
  <2>7. ASSUME NEW l \in Prio!Levels
        PROVE  l \in 0..popAt - 1 \/ l = popAt
      BY <2>1, <2>5, <2>7, LevelFacts DEF Prio!Levels
  <2> QED
      BY <2>5, <2>6, <2>7
<1> QED
    BY <1>1, <1>2 DEF Prio!PopsHighest

\* So does a steal, but for what it did not see when it began and what it lost.
LEMMA StealsStep ==
    ASSUME Prio!PrioInv, Prio!PrioNext
    PROVE  Prio!StealsHighest
<1> USE DEF Prio!PrioInv
<1> SUFFICES ASSUME NEW p \in Stealers
             PROVE  /\ Prio!EndsEmpty(p) =>
                          \A l \in Prio!Levels : ~Prio!Overlooked(p, l)
                    /\ Prio!ScanTake(p) => \A l \in 0..scanAt[p] - 1 :
                          Prio!Overlooked(p, l) => l \in retries[p]
    BY DEF Prio!StealsHighest
<1>1. ASSUME Prio!ScanTake(p)
      PROVE  \A l \in 0..scanAt[p] - 1 :
                Prio!Overlooked(p, l) => l \in retries[p]
    BY <1>1 DEF Prio!ScanTake, Prio!StillOldest, Prio!StealScanned
<1>2. ASSUME Prio!EndsEmpty(p), NEW l \in Prio!Levels
      PROVE  ~Prio!Overlooked(p, l)
  <2>1. /\ scanAt[p] \in Prio!Levels /\ scanAt[p] # Prio!NoLevel
        /\ scanAt'[p] = Prio!NoLevel
        /\ ~Prio!ScanTake(p) /\ retries'[p] = {}
      BY <1>2 DEF Prio!EndsEmpty, Prio!PrioTypeOK
  <2>2. ~Prio!ScanBegin(p)
      BY <2>1 DEF Prio!ScanBegin
  <2>3. /\ ~(scanAt[p] + 1 < NumLevels)
        /\ retries[p] = {} /\ Prio!ScanEmpty(p)
    <3>1. /\ scanAt'[p] = IF scanAt[p] + 1 < NumLevels THEN scanAt[p] + 1
                          ELSE Prio!NoLevel
          /\ \/ retries'[p] = retries[p] /\ Prio!ScanEmpty(p)
             \/ retries'[p] = retries[p] \cup {scanAt[p]}
        BY <2>1, <2>2, ScanStep
    <3>2. scanAt[p] + 1 # Prio!NoLevel
        BY <2>1, LevelFacts DEF Prio!NoLevel
    <3> QED
        BY <2>1, <3>1, <3>2
  <2>4. l \in 0..scanAt[p] - 1 \/ l = scanAt[p]
      BY <2>1, <2>3, LevelFacts DEF Prio!Levels
  <2>5. CASE l \in 0..scanAt[p] - 1
      BY <2>1, <2>3, <2>5 DEF Prio!StealScanned
  <2>6. CASE l = scanAt[p]
      BY <2>3, <2>6, EmptyIsSeen
  <2> QED
      BY <2>4, <2>5, <2>6
<1> QED
    BY <1>1, <1>2

\* A step of the pool is one of a behaviour of the pool.
LEMMA StepOfLevels ==
    [PartsNext]_partVars /\ part = "levels" => Prio!PrioNext \/ UNCHANGED partVars
BY DEF PartsNext, InNodes, InLog

\* priority.rs 75-83: the owner's pop returns a task of the highest priority
\* there is, and None only when there is none at all.
THEOREM PopTakesTheHighest == PartsSpec => PopsHighest
<1>1. Prio!PrioInv /\ [PartsNext]_partVars =>
          [part = "levels" => Prio!PopsHighest]_partVars
    BY PopsStep, StepOfLevels
<1> QED
    BY <1>1, PriorityInvariant, PTL DEF PartsSpec, PopsHighest

\* priority.rs 101-118: a thief passes over a task that was there all through
\* its call only where another was faster, and never reports Empty then.
THEOREM StealTakesTheHighest == PartsSpec => StealsHighest
<1>1. Prio!PrioInv /\ [PartsNext]_partVars =>
          [part = "levels" => Prio!StealsHighest]_partVars
    BY StealsStep, StepOfLevels
<1> QED
    BY <1>1, PriorityInvariant, PTL DEF PartsSpec, StealsHighest

-----------------------------------------------------------------------------
(* The persistent queue                                                    *)

\* Every set of numbers has a least one: the sets 0..x are finite, and finite
\* sets are well-founded under inclusion.
LEMMA LeastNat ==
    ASSUME NEW T \in SUBSET Nat, T # {}
    PROVE  \E x \in T : \A y \in T : x <= y
<1> DEFINE W == {0..x : x \in T}
           R == StrictSubsetOrdering(Nat)
<1>1. IsWellFoundedOn(R, FiniteSubsetsOf(Nat))
    BY FS_StrictSubsetOrderingWellFounded
<1>2. W \subseteq FiniteSubsetsOf(Nat) /\ W # {}
  <2>1. \A x \in T : 0..x \subseteq Nat /\ IsFiniteSet(0..x)
      BY FS_Interval
  <2> QED
      BY <2>1 DEF FiniteSubsetsOf
<1>3. \E w \in W : \A v \in W : ~(<<v, w>> \in R)
  <2> HIDE DEF W, R
  <2> QED
      BY <1>1, <1>2, WFMin
<1>4. PICK x \in T : \A y \in T : <<0..y, 0..x>> \notin R
    BY <1>3
<1>5. ASSUME NEW y \in T, y < x PROVE FALSE
  <2>1. 0..y \in SUBSET Nat /\ 0..x \in SUBSET Nat /\ 0..y \subseteq 0..x
      BY <1>5
  <2>2. x \in 0..x /\ x \notin 0..y
      BY <1>5
  <2>3. <<0..y, 0..x>> \in R
      BY <2>1, <2>2 DEF StrictSubsetOrdering
  <2> QED
      BY <2>3, <1>4
<1> QED
    BY <1>5

\* The contents after each of the first n records: what Replay computes.
ContentsOf(f, log, n) ==
    f = [k \in 0..n |-> IF k = 0 THEN <<>> ELSE Log!Redo(f[k - 1], log[k])]

\* What such a function says at each place.
LEMMA ContentsAt ==
    ASSUME NEW f, NEW log, NEW n \in Nat, ContentsOf(f, log, n)
    PROVE  f[0] = <<>> /\ \A k \in 1..n : f[k] = Log!Redo(f[k - 1], log[k])
<1>1. \A k \in 0..n : f[k] = IF k = 0 THEN <<>> ELSE Log!Redo(f[k - 1], log[k])
    BY Zenon DEF ContentsOf
<1>2. 0 \in 0..n /\ \A k \in 1..n : k \in 0..n /\ k # 0
    OBVIOUS
<1> QED
    BY <1>1, <1>2, Zenon

\* There is such a function, of logs of any length.
LEMMA ContentsExist ==
    ASSUME NEW log, NEW n \in Nat
    PROVE  \E f : ContentsOf(f, log, n)
<1> DEFINE T == {k \in Nat : ~\E f : ContentsOf(f, log, k)}
<1> SUFFICES ASSUME n \in T PROVE FALSE
    OBVIOUS
<1>1. PICK m \in T : \A k \in T : m <= k
  <2>1. T \in SUBSET Nat /\ T # {}
      OBVIOUS
  <2> HIDE DEF T
  <2> QED
      BY <2>1, LeastNat
<1>2. CASE m = 0
  <2> DEFINE f == [k \in 0..0 |-> <<>>]
  <2>1. ContentsOf(f, log, 0)
    <3>1. \A k \in 0..0 : k = 0
        OBVIOUS
    <3> QED
        BY <3>1, Zenon DEF ContentsOf
  <2> QED
      BY <1>2, <2>1
<1>3. CASE m # 0
  <2>1. m - 1 \in Nat /\ m - 1 \notin T /\ m \in Nat
      BY <1>1, <1>3
  <2>2. PICK f : ContentsOf(f, log, m - 1)
      BY <2>1
  <2> DEFINE g == [k \in 0..m |-> IF k = m THEN Log!Redo(f[m - 1], log[m])
                                  ELSE f[k]]
  <2>3. \A k \in 0..(m - 1) : f[k] =
            IF k = 0 THEN <<>> ELSE Log!Redo(f[k - 1], log[k])
      BY <2>2, Zenon DEF ContentsOf
  <2>4. ASSUME NEW k \in 0..m
        PROVE  g[k] = IF k = 0 THEN <<>> ELSE Log!Redo(g[k - 1], log[k])
    <3>1. CASE k = 0
      <4>1. 0 \in 0..(m - 1) /\ k # m
          BY <1>3, <2>1, <3>1
      <4> QED
          BY <3>1, <4>1, <2>3
    <3>2. CASE k # 0
      <4>1. k - 1 \in 0..m /\ k - 1 # m /\ g[k - 1] = f[k - 1]
          BY <2>1, <3>2
      <4>2. CASE k = m
          BY <3>2, <4>1, <4>2
      <4>3. CASE k # m
        <5>1. k \in 0..(m - 1) /\ g[k] = f[k]
            BY <2>1, <4>3
        <5> QED
            BY <3>2, <4>1, <5>1, <2>3
      <4> QED
          BY <4>2, <4>3
    <3> QED
        BY <3>1, <3>2
  <2>5. ContentsOf(g, log, m)
    <3> HIDE DEF g
    <3>1. g = [k \in 0..m |-> g[k]]
        BY DEF g
    <3> QED
        BY <2>4, <3>1, Zenon DEF ContentsOf
  <2> QED
      BY <2>5
<1> QED
    BY <1>2, <1>3

\* Logs that begin alike have the same contents so far.
LEMMA SameContents ==
    ASSUME NEW f, NEW g, NEW log, NEW other, NEW n \in Nat, NEW m \in Nat,
           ContentsOf(f, log, n), ContentsOf(g, other, m), n <= m,
           \A k \in 1..n : log[k] = other[k]
    PROVE  \A k \in 0..n : f[k] = g[k]
<1> DEFINE T == {k \in 0..n : f[k] # g[k]}
<1> SUFFICES ASSUME T # {} PROVE FALSE
    OBVIOUS
<1>1. PICK k \in T : \A j \in T : k <= j
  <2>1. T \in SUBSET Nat
      OBVIOUS
  <2> HIDE DEF T
  <2> QED
      BY <2>1, LeastNat
<1>2. /\ f[0] = <<>> /\ g[0] = <<>>
      /\ \A j \in 1..n : f[j] = Log!Redo(f[j - 1], log[j])
      /\ \A j \in 1..m : g[j] = Log!Redo(g[j - 1], other[j])
    BY ContentsAt
<1>3. k # 0
    BY <1>2
<1>4. k \in 1..n /\ k \in 1..m /\ k - 1 \in 0..n /\ k - 1 \notin T
    BY <1>1, <1>3
<1>5. f[k - 1] = g[k - 1] /\ log[k] = other[k]
    BY <1>4
<1> QED
    BY <1>2, <1>4, <1>5

\* What Replay finds is the last value of such a function.
LEMMA ReplayIs ==
    ASSUME NEW log, Len(log) \in Nat
    PROVE  \E f : ContentsOf(f, log, Len(log)) /\ Log!Replay(log) = f[Len(log)]
<1> DEFINE Body(f) == [n \in 0..Len(log) |->
                         IF n = 0 THEN <<>> ELSE Log!Redo(f[n - 1], log[n])]
           c == CHOOSE f : f = Body(f)
<1>1. \E f : f = Body(f)
    BY ContentsExist DEF ContentsOf
<1>2. c = Body(c)
  <2> HIDE DEF Body
  <2> QED
      BY <1>1
<1>3. ContentsOf(c, log, Len(log))
    BY <1>2 DEF ContentsOf
<1>4. Log!Replay(log) = c[Len(log)]
    BY DEF Log!Replay
<1> QED
    BY <1>3, <1>4

\* The next record is redone on the contents so far.
LEMMA ReplayNext ==
    ASSUME NEW S, NEW log \in Seq(S), NEW record \in S
    PROVE  Log!Replay(Append(log, record)) = Log!Redo(Log!Replay(log), record)
<1> DEFINE longer == Append(log, record)
           n == Len(log)
<1>1. /\ n \in Nat /\ Len(longer) = n + 1
      /\ \A k \in 1..n : longer[k] = log[k]
      /\ longer[n + 1] = record
    BY AppendProperties, LenProperties
<1> HIDE DEF longer
<1>2. PICK f : ContentsOf(f, log, n) /\ Log!Replay(log) = f[n]
    BY <1>1, ReplayIs
<1>3. PICK g : ContentsOf(g, longer, n + 1) /\ Log!Replay(longer) = g[n + 1]
    BY <1>1, ReplayIs
<1> HIDE DEF n
<1>4. f[n] = g[n]
  <2>1. n + 1 \in Nat /\ n <= n + 1 /\ n \in 0..n
      BY <1>1
  <2>2. \A k \in 0..n : f[k] = g[k]
      BY <1>1, <1>2, <1>3, <2>1, SameContents
  <2> QED
      BY <2>1, <2>2
<1>5. g[n + 1] = Log!Redo(g[n], longer[n + 1])
  <2>1. n + 1 \in Nat /\ n + 1 \in 1..(n + 1) /\ (n + 1) - 1 = n
      BY <1>1
  <2>2. g[n + 1] = Log!Redo(g[(n + 1) - 1], longer[n + 1])
      BY <1>3, <2>1, ContentsAt
  <2> QED
      BY <2>1, <2>2
<1> QED
    BY <1>1, <1>2, <1>3, <1>4, <1>5 DEF longer

\* An empty log is an empty queue.
LEMMA ReplayNothing == Log!Replay(<<>>) = <<>>
<1>1. Len(<<>>) = 0
    BY EmptySeq
<1>2. PICK f : ContentsOf(f, <<>>, 0) /\ Log!Replay(<<>>) = f[0]
    BY <1>1, ReplayIs
<1> QED
    BY <1>2, ContentsAt

Records == Values \cup {Log!Dequeue}

\* What recovery finds are values.
LEMMA ReplayType ==
    ASSUME NEW log \in Seq(Records)
    PROVE  Log!Replay(log) \in Seq(Values)
<1> DEFINE Bad == {l \in Seq(Records) : Log!Replay(l) \notin Seq(Values)}
           T == {Len(l) : l \in Bad}
<1> SUFFICES ASSUME log \in Bad PROVE FALSE
    OBVIOUS
<1>1. PICK n \in T : \A k \in T : n <= k
  <2>1. T \in SUBSET Nat /\ T # {}
    <3>1. \A l \in Bad : Len(l) \in Nat
        BY LenProperties
    <3>2. Len(log) \in T
        OBVIOUS
    <3> HIDE DEF Bad
    <3> QED
        BY <3>1, <3>2
  <2> HIDE DEF T
  <2> QED
      BY <2>1, LeastNat
<1>2. PICK l \in Bad : Len(l) = n
    OBVIOUS
<1>3. l # <<>>
    BY ReplayNothing, EmptySeq
<1>4. PICK s \in Seq(Records), r \in Records : l = Append(s, r)
    BY <1>3, SequenceEmptyOrAppend
<1>5. Len(s) \in Nat /\ Len(l) = Len(s) + 1
    BY <1>4, AppendProperties, LenProperties
<1>6. s \notin Bad
  <2>1. s \in Bad => Len(s) \in T
      OBVIOUS
  <2> HIDE DEF T, Bad
  <2> QED
      BY <1>1, <1>2, <1>5, <2>1
<1>7. Log!Replay(s) \in Seq(Values)
    BY <1>6
<1>8. Log!Redo(Log!Replay(s), r) \in Seq(Values)
  <2>1. CASE r # Log!Dequeue
    <3>1. r \in Values
        BY <2>1 DEF Records
    <3> QED
        BY <1>7, <2>1, <3>1, AppendProperties DEF Log!Redo
  <2>2. CASE r = Log!Dequeue
      BY <1>7, <2>2, EmptySeq, HeadTailProperties DEF Log!Redo
  <2> QED
      BY <2>1, <2>2
<1> QED
    BY <1>4, <1>8, ReplayNext

\* Where an element is appended does not matter.
LEMMA ConcatAppend ==
    ASSUME NEW S, NEW s \in Seq(S), NEW t \in Seq(S), NEW e \in S
    PROVE  s \o Append(t, e) = Append(s \o t, e)
<1>1. <<e>> \in Seq(S) /\ s \o t \in Seq(S)
    BY ConcatProperties
<1>2. Append(t, e) = t \o <<e>> /\ Append(s \o t, e) = (s \o t) \o <<e>>
    BY <1>1, AppendIsConcat
<1>3. (s \o t) \o <<e>> = s \o (t \o <<e>>)
    BY <1>1, ConcatAssociative
<1> QED
    BY <1>2, <1>3

\* Staged values go behind what the durable log holds.
LEMMA ReplayStaged ==
    ASSUME NEW log \in Seq(Records), NEW values \in Seq(Values)
    PROVE  Log!Replay(log \o values) = Log!Replay(log) \o values
<1> DEFINE Bad == {v \in Seq(Values) :
                     Log!Replay(log \o v) # Log!Replay(log) \o v}
           T == {Len(v) : v \in Bad}
<1> SUFFICES ASSUME values \in Bad PROVE FALSE
    OBVIOUS
<1>1. PICK n \in T : \A k \in T : n <= k
  <2>1. T \in SUBSET Nat /\ T # {}
    <3>1. \A v \in Bad : Len(v) \in Nat
        BY LenProperties
    <3>2. Len(values) \in T
        OBVIOUS
    <3> HIDE DEF Bad
    <3> QED
        BY <3>1, <3>2
  <2> HIDE DEF T
  <2> QED
      BY <2>1, LeastNat
<1>2. PICK v \in Bad : Len(v) = n
    OBVIOUS
<1>3. v \in Seq(Values) /\ Log!Replay(log) \in Seq(Values)
    BY ReplayType
<1>4. v # <<>>
    BY <1>2, <1>3, ConcatEmptySeq
<1>5. PICK s \in Seq(Values), r \in Values : v = Append(s, r)
    BY <1>3, <1>4, SequenceEmptyOrAppend
<1>6. Len(s) \in Nat /\ Len(v) = Len(s) + 1
    BY <1>5, AppendProperties, LenProperties
<1>7. s \notin Bad
  <2>1. s \in Bad => Len(s) \in T
      OBVIOUS
  <2> HIDE DEF T, Bad
  <2> QED
      BY <1>1, <1>2, <1>6, <2>1
<1>8. Log!Replay(log \o s) = Log!Replay(log) \o s
    BY <1>7
<1>9. log \o v = Append(log \o s, r)
  <2>1. s \in Seq(Records) /\ r \in Records
      BY SeqMonotonic DEF Records
  <2> HIDE DEF T, Bad
  <2>2. log \o Append(s, r) = Append(log \o s, r)
      BY <2>1, ConcatAppend
  <2> QED
      BY <1>5, <2>2
<1>10. Append(Log!Replay(log) \o s, r) = Log!Replay(log) \o v
  <2>1. /\ Log!Replay(log) \in Seq(Values) /\ s \in Seq(Values)
        /\ r \in Values
      BY <1>3, <1>5
  <2> HIDE DEF T, Bad
  <2>2. Log!Replay(log) \o Append(s, r) = Append(Log!Replay(log) \o s, r)
      BY <2>1, ConcatAppend
  <2> QED
      BY <1>5, <2>2
<1>11. Log!Replay(log \o v) = Log!Redo(Log!Replay(log \o s), r)
  <2>1. log \o s \in Seq(Records) /\ r \in Records
      BY SeqMonotonic, ConcatProperties DEF Records
  <2> QED
      BY <1>9, <2>1, ReplayNext
<1>12. Log!Redo(Log!Replay(log) \o s, r) = Append(Log!Replay(log) \o s, r)
    BY PartsAssumption
       DEF Log!PersistentAssumption, Log!Dequeue, Log!Redo
<1> QED
    BY <1>8, <1>10, <1>11, <1>12

\* What is made durable: the staged values and the record.
LEMMA Synced ==
    ASSUME Log!LogInv, recovered, NEW record \in Records
    PROVE  /\ durable \o Append(volatile, record) \in Seq(Records)
           /\ Log!Replay(durable \o Append(volatile, record))
                  = Log!Redo(live, record)
<1>1. durable \in Seq(Records) /\ volatile \in Seq(Values)
      /\ live = Log!Replay(durable) \o volatile
    BY DEF Log!LogInv, Records
<1>2. volatile \in Seq(Records)
    BY <1>1, SeqMonotonic DEF Records
<1>3. durable \o volatile \in Seq(Records)
    BY <1>1, <1>2, ConcatProperties
<1>4. durable \o Append(volatile, record) = Append(durable \o volatile, record)
    BY <1>1, <1>2, ConcatAppend
<1>5. Append(durable \o volatile, record) \in Seq(Records)
    BY <1>3, AppendProperties
<1> QED
    BY <1>1, <1>3, <1>4, <1>5, ReplayStaged, ReplayNext

\* The contents as the user knows them.
Known == IF recovered THEN live ELSE Log!Replay(durable)

\* A step of the other parts.
LEMMA LogStutters ==
    ASSUME Log!LogInv, UNCHANGED <<durable, volatile, live, recovered>>
    PROVE  Log!LogInv' /\ UNCHANGED Log!Ideal!durableVars
<1>1. Log!Replay(durable)' = Log!Replay(durable)
    BY DEF Log!Replay
<1>2. Log!LogInv'
    BY <1>1 DEF Log!LogInv
<1> QED
    BY <1>1, <1>2 DEF Log!Ideal!durableVars

\* Every call keeps the invariant, and is a call of the durable queue.
LEMMA LogStep ==
    ASSUME Log!LogInv, Log!LogNext
    PROVE  Log!LogInv' /\ [Log!Ideal!DurableNext]_(Log!Ideal!durableVars)
<1>0. /\ durable \in Seq(Records) /\ volatile \in Seq(Values)
      /\ live \in Seq(Values) /\ recovered \in BOOLEAN
      /\ recovered => live = Log!Replay(durable) \o volatile
      /\ ~recovered => volatile = <<>>
      /\ <<>> \in Seq(Values) /\ Len(<<>>) = 0
    BY EmptySeq DEF Log!LogInv, Records
<1>1. Log!Replay(durable) \in Seq(Values)
    BY <1>0, ReplayType
<1>2. ASSUME NEW v \in Values, Log!EnqueueValue(v)
      PROVE  Log!LogInv' /\ Log!Ideal!Put(v)
  <2>1. /\ recovered /\ recovered' = recovered
        /\ durable' = durable \o Append(volatile, v) /\ volatile' = <<>>
        /\ live' = Append(live, v)
      BY <1>2 DEF Log!EnqueueValue, Log!Sync
  <2>2. v \in Records /\ v # Log!Dequeue
      BY PartsAssumption DEF Records, Log!PersistentAssumption, Log!Dequeue
  <2>3. durable' \in Seq(Records) /\ Log!Replay(durable') = live'
      BY <2>1, <2>2, Synced DEF Log!Redo
  <2>4. live' \in Seq(Values)
      BY <1>0, <2>1, AppendProperties
  <2>5. live' = Log!Replay(durable)' \o volatile'
    <3>1. Log!Replay(durable)' = Log!Replay(durable')
        BY DEF Log!Replay
    <3> QED
        BY <2>1, <2>3, <2>4, <3>1, ConcatEmptySeq
  <2>6. Log!LogInv'
      BY <1>0, <2>1, <2>3, <2>4, <2>5 DEF Log!LogInv, Records
  <2> QED
      BY <1>0, <2>1, <2>6 DEF Log!Ideal!Put
<1>3. ASSUME Log!DequeueValue
      PROVE  Log!LogInv' /\ Log!Ideal!Take
  <2>1. /\ recovered /\ recovered' = recovered /\ live # <<>>
        /\ durable' = durable \o Append(volatile, Log!Dequeue)
        /\ volatile' = <<>> /\ live' = Tail(live)
      BY <1>3 DEF Log!DequeueValue, Log!Sync
  <2>2. Log!Dequeue \in Records
      BY DEF Records
  <2>3. durable' \in Seq(Records) /\ Log!Replay(durable') = live'
      BY <2>1, <2>2, Synced DEF Log!Redo
  <2>4. live' \in Seq(Values)
      BY <1>0, <2>1, HeadTailProperties
  <2>5. live' = Log!Replay(durable)' \o volatile'
    <3>1. Log!Replay(durable)' = Log!Replay(durable')
        BY DEF Log!Replay
    <3> QED
        BY <2>1, <2>3, <2>4, <3>1, ConcatEmptySeq
  <2>6. Log!LogInv'
      BY <1>0, <2>1, <2>3, <2>4, <2>5 DEF Log!LogInv, Records
  <2> QED
      BY <1>0, <2>1, <2>6 DEF Log!Ideal!Take
<1>4. ASSUME NEW v \in Values, Log!EnqueueUnsynced(v)
      PROVE  Log!LogInv' /\ Log!Ideal!PutStaged(v)
  <2>1. /\ recovered /\ recovered' = recovered /\ durable' = durable
        /\ volatile' = Append(volatile, v) /\ live' = Append(live, v)
      BY <1>4 DEF Log!EnqueueUnsynced
  <2>2. /\ live' \in Seq(Values) /\ volatile' \in Seq(Values)
        /\ Len(volatile') = Len(volatile) + 1
      BY <1>0, <2>1, AppendProperties
  <2>3. live' = Log!Replay(durable) \o volatile'
    <3>1. Log!Replay(durable) \o Append(volatile, v)
              = Append(Log!Replay(durable) \o volatile, v)
        BY <1>0, <1>1, ConcatAppend
    <3> QED
        BY <1>0, <2>1, <3>1
  <2>4. Log!Replay(durable)' = Log!Replay(durable)
      BY <2>1 DEF Log!Replay
  <2>5. Log!LogInv'
      BY <1>0, <2>1, <2>2, <2>3, <2>4 DEF Log!LogInv, Records
  <2> QED
      BY <2>1, <2>2, <2>5 DEF Log!Ideal!PutStaged
<1>5. ASSUME Log!CrashNow
      PROVE  Log!LogInv' /\ Log!Ideal!Crash
  <2>1. /\ ~recovered' /\ recovered' \in BOOLEAN /\ durable' = durable
        /\ volatile' = <<>> /\ live' = <<>>
      BY <1>5 DEF Log!CrashNow
  <2>2. Log!Replay(durable)' = Log!Replay(durable)
      BY <2>1 DEF Log!Replay
  <2>3. Log!LogInv'
      BY <1>0, <2>1 DEF Log!LogInv, Records
  <2>4. Log!Replay(durable) =
            SubSeq(Known, 1, Len(Known) - Len(volatile))
    <3> DEFINE kept == Log!Replay(durable)
    <3>1. Known = kept \o volatile
        BY <1>0, <1>1, ConcatEmptySeq DEF Known
    <3>2. Len(kept) \in Nat /\ Len(volatile) \in Nat
          /\ Len(kept \o volatile) = Len(kept) + Len(volatile)
        BY <1>0, <1>1, ConcatProperties, LenProperties
    <3>3. Len(Known) - Len(volatile) = Len(kept)
        BY <3>1, <3>2
    <3>4. SubSeq(kept \o volatile, 1, Len(kept)) = kept
        BY <1>0, <1>1, <3>2, SubSeqFull, SubSeqOfConcat1
    <3> QED
        BY <3>1, <3>3, <3>4
  <2> QED
      BY <1>0, <2>1, <2>2, <2>3, <2>4 DEF Log!Ideal!Crash, Known
<1>6. ASSUME Log!RecoverLog
      PROVE  Log!LogInv' /\ Log!Ideal!Recover
  <2>1. /\ recovered' = TRUE /\ volatile = <<>> /\ durable' = durable
        /\ volatile' = volatile /\ live' = Log!Replay(durable)
      BY <1>0, <1>6 DEF Log!RecoverLog
  <2>2. Log!Replay(durable)' = Log!Replay(durable)
      BY <2>1 DEF Log!Replay
  <2>3. live' = Log!Replay(durable) \o volatile'
      BY <1>1, <2>1, ConcatEmptySeq
  <2>4. Log!LogInv'
      BY <1>0, <1>1, <2>1, <2>2, <2>3 DEF Log!LogInv, Records
  <2>5. Known = Log!Replay(durable)
      BY <1>0, <1>1, <2>1, ConcatEmptySeq DEF Known
  <2> QED
      BY <2>1, <2>4, <2>5 DEF Log!Ideal!Recover, Known
<1>7. CASE Log!DequeueNone
  <2>1. UNCHANGED Log!logVars
      BY <1>7 DEF Log!DequeueNone
  <2>2. UNCHANGED <<durable, volatile, live, recovered>>
      BY <2>1 DEF Log!logVars
  <2> QED
      BY <2>2, LogStutters
<1> QED
    BY <1>2, <1>3, <1>4, <1>5, <1>6, <1>7
       DEF Log!LogNext, Log!Ideal!DurableNext

\* The queue is empty at first.
LEMMA LogStarts ==
    ASSUME Log!LogInit
    PROVE  Log!LogInv /\ Log!Ideal!DurableInit
<1>1. /\ durable = <<>> /\ volatile = <<>> /\ live = <<>> /\ recovered = TRUE
      /\ \A S : <<>> \in Seq(S)
      /\ Len(<<>>) = 0 /\ Log!Replay(<<>>) \o <<>> = <<>>
    BY EmptySeq, ReplayNothing, ConcatEmptySeq DEF Log!LogInit
<1> QED
    BY <1>1, ReplayNothing DEF Log!LogInv, Log!Ideal!DurableInit

\* A step of any part is a call of the durable queue, or none.
LEMMA LogPart ==
    ASSUME Log!LogInv, [PartsNext]_partVars
    PROVE  Log!LogInv' /\ [Log!Ideal!DurableNext]_(Log!Ideal!durableVars)
<1>1. \/ Log!LogNext
      \/ UNCHANGED <<durable, volatile, live, recovered>>
    BY DEF PartsNext, InNodes, InLog, InLevels, logVars, partVars
<1> QED
    BY <1>1, LogStep, LogStutters

\* persistent.rs 29-32, 124-157: what is in memory is what the durable log
\* replays to and the staged values behind it, and nothing is staged between
\* a crash and recovery.
THEOREM LogInvariant == PartsSpec => []Log!LogInv
<1>1. PartsInit => Log!LogInv
    BY LogStarts DEF PartsInit
<1>2. Log!LogInv /\ [PartsNext]_partVars => Log!LogInv'
    BY LogPart
<1> QED
    BY <1>1, <1>2, PTL DEF PartsSpec

\* persistent.rs 29-32, 124-127, 130-133, 155-157: the queue with its log is
\* the durable queue, whatever is put and whenever it crashes.
THEOREM QueueRecovers == PartsSpec => ImplementsDurable
<1>1. PartsInit => Log!Ideal!DurableInit
    BY LogStarts DEF PartsInit
<1>2. Log!LogInv /\ [PartsNext]_partVars
          => [Log!Ideal!DurableNext]_(Log!Ideal!durableVars)
    BY LogPart
<1> QED
    BY <1>1, <1>2, LogInvariant, PTL
       DEF PartsSpec, ImplementsDurable, Log!ImplementsDurable,
           Log!Ideal!DurableSpec

-----------------------------------------------------------------------------
(* The nodes: their pools and mailboxes                                    *)

\* A sequence that is joined to another.
LEMMA JoinFacts ==
    ASSUME NEW S, NEW s \in Seq(S), NEW t \in Seq(S)
    PROVE  /\ s \o t \in Seq(S)
           /\ Dist!ToSet(s \o t) = Dist!ToSet(s) \cup Dist!ToSet(t)
           /\ /\ Dist!IsInjective(s) /\ Dist!IsInjective(t)
              /\ Dist!ToSet(s) \cap Dist!ToSet(t) = {}
              => Dist!IsInjective(s \o t)
<1>1. /\ DOMAIN s = 1..Len(s) /\ DOMAIN t = 1..Len(t)
      /\ Len(s) \in Nat /\ Len(t) \in Nat
    BY LenProperties
<1>2. /\ s \o t \in Seq(S) /\ Len(s \o t) = Len(s) + Len(t)
      /\ \A i \in 1..Len(s) + Len(t) :
            (s \o t)[i] = IF i <= Len(s) THEN s[i] ELSE t[i - Len(s)]
    BY ConcatProperties
<1>3. DOMAIN (s \o t) = 1..Len(s) + Len(t)
    BY <1>2, LenProperties
<1>4. \A i \in 1..Len(s) + Len(t) :
          \/ i \in 1..Len(s) /\ (s \o t)[i] = s[i]
          \/ i - Len(s) \in 1..Len(t) /\ (s \o t)[i] = t[i - Len(s)]
    BY <1>1, <1>2
<1>5. \A i \in 1..Len(s) : i \in 1..Len(s) + Len(t) /\ (s \o t)[i] = s[i]
    BY <1>1, <1>2
<1>6. \A i \in 1..Len(t) : /\ i + Len(s) \in 1..Len(s) + Len(t)
                           /\ (s \o t)[i + Len(s)] = t[i]
  <2> TAKE i \in 1..Len(t)
  <2>1. /\ i + Len(s) \in 1..Len(s) + Len(t) /\ ~(i + Len(s) <= Len(s))
        /\ i + Len(s) - Len(s) = i
      BY <1>1
  <2> QED
      BY <2>1, <1>2
<1>7. Dist!ToSet(s \o t) = Dist!ToSet(s) \cup Dist!ToSet(t)
  <2>1. Dist!ToSet(s \o t) \subseteq Dist!ToSet(s) \cup Dist!ToSet(t)
      BY <1>1, <1>3, <1>4 DEF Dist!ToSet
  <2>2. Dist!ToSet(s) \subseteq Dist!ToSet(s \o t)
      BY <1>1, <1>3, <1>5 DEF Dist!ToSet
  <2>3. Dist!ToSet(t) \subseteq Dist!ToSet(s \o t)
      BY <1>1, <1>3, <1>6 DEF Dist!ToSet
  <2> QED
      BY <2>1, <2>2, <2>3
<1>8. ASSUME Dist!IsInjective(s), Dist!IsInjective(t),
             Dist!ToSet(s) \cap Dist!ToSet(t) = {},
             NEW i \in 1..Len(s) + Len(t), NEW j \in 1..Len(s) + Len(t),
             (s \o t)[i] = (s \o t)[j]
      PROVE  i = j
  <2>1. ASSUME NEW k \in 1..Len(s), NEW l \in 1..Len(t)
        PROVE  s[k] # t[l]
      BY <1>1, <1>8 DEF Dist!ToSet
  <2>2. CASE i \in 1..Len(s) /\ j \in 1..Len(s)
      BY <1>1, <1>4, <1>5, <1>8, <2>2 DEF Dist!IsInjective
  <2>3. CASE i - Len(s) \in 1..Len(t) /\ j - Len(s) \in 1..Len(t)
    <3>1. (s \o t)[i] = t[i - Len(s)] /\ (s \o t)[j] = t[j - Len(s)]
        BY <1>1, <1>2, <2>3
    <3>2. i - Len(s) = j - Len(s)
        BY <1>1, <1>8, <2>3, <3>1 DEF Dist!IsInjective
    <3> QED
        BY <1>1, <3>2
  <2> QED
      BY <1>4, <1>5, <1>8, <2>1, <2>2, <2>3
<1> QED
    BY <1>2, <1>3, <1>7, <1>8 DEF Dist!IsInjective

\* A sequence that is cut in two.
LEMMA SplitFacts ==
    ASSUME NEW S, NEW s \in Seq(S), NEW k \in 0..Len(s)
    PROVE  LET left == SubSeq(s, 1, k)
               right == SubSeq(s, k + 1, Len(s))
           IN  /\ left \in Seq(S) /\ right \in Seq(S)
               /\ Dist!ToSet(s) = Dist!ToSet(left) \cup Dist!ToSet(right)
               /\ Dist!IsInjective(s) =>
                     /\ Dist!IsInjective(left) /\ Dist!IsInjective(right)
                     /\ Dist!ToSet(left) \cap Dist!ToSet(right) = {}
<1> DEFINE left == SubSeq(s, 1, k)
           right == SubSeq(s, k + 1, Len(s))
<1>1. DOMAIN s = 1..Len(s) /\ Len(s) \in Nat /\ k \in Nat /\ k <= Len(s)
      /\ \A i \in 1..Len(s) : s[i] \in S
    BY LenProperties
<1>2. /\ left \in Seq(S) /\ DOMAIN left = 1..k
      /\ \A i \in 1..k : left[i] = s[i]
  <2>1. /\ left \in Seq(S)
        /\ Len(left) = IF 1 <= k THEN k - 1 + 1 ELSE 0
        /\ \A i \in 1..(k - 1 + 1) : left[i] = s[1 + i - 1]
      BY <1>1, SubSeqProperties
  <2> HIDE DEF left
  <2>2. Len(left) = k /\ k - 1 + 1 = k
      BY <1>1, <2>1
  <2>3. \A i \in 1..k : 1 + i - 1 = i
      BY <1>1
  <2> QED
      BY <2>1, <2>2, <2>3, LenProperties
<1>3. /\ right \in Seq(S) /\ DOMAIN right = 1..Len(s) - k
      /\ \A i \in 1..Len(s) - k : right[i] = s[i + k]
  <2>1. /\ right \in Seq(S)
        /\ Len(right) = IF k + 1 <= Len(s) THEN Len(s) - (k + 1) + 1 ELSE 0
        /\ \A i \in 1..(Len(s) - (k + 1) + 1) : right[i] = s[k + 1 + i - 1]
    <3>1. k + 1 \in 1..Len(s) + 1
        BY SMTT(30), <1>1
    <3> QED
        BY <1>1, <3>1, SubSeqProperties
  <2> HIDE DEF right
  <2>2. Len(right) = Len(s) - k /\ Len(s) - (k + 1) + 1 = Len(s) - k
    <3>0. PICK n \in Nat, m \in Nat : n = Len(s) /\ m = k /\ m <= n
        BY <1>1
    <3>1. Len(s) - (k + 1) + 1 = Len(s) - k
        BY <3>0
    <3>2. k + 1 <= Len(s) \/ Len(s) - k = 0
        BY <3>0
    <3> QED
        BY ZenonT(40), <2>1, <3>1, <3>2
  <2>3. \A i \in 1..Len(s) - k : k + 1 + i - 1 = i + k
      BY <1>1
  <2> QED
      BY <2>1, <2>2, <2>3, LenProperties
<1> HIDE DEF left, right
<1>4. \A i \in 1..Len(s) : \/ i \in 1..k
                           \/ i - k \in 1..Len(s) - k /\ (i - k) + k = i
    BY <1>1
<1>5. /\ \A i \in 1..k : i \in 1..Len(s)
      /\ \A i \in 1..Len(s) - k : i + k \in 1..Len(s) /\ i + k \notin 1..k
    BY <1>1
<1>6. Dist!ToSet(s) = Dist!ToSet(left) \cup Dist!ToSet(right)
  <2>1. Dist!ToSet(left) \subseteq Dist!ToSet(s)
      BY <1>1, <1>2, <1>5 DEF Dist!ToSet
  <2>2. Dist!ToSet(right) \subseteq Dist!ToSet(s)
      BY <1>1, <1>3, <1>5 DEF Dist!ToSet
  <2>3. ASSUME NEW i \in 1..Len(s)
        PROVE  s[i] \in Dist!ToSet(left) \cup Dist!ToSet(right)
    <3>1. CASE i \in 1..k
        BY <1>2, <3>1 DEF Dist!ToSet
    <3>2. CASE i - k \in 1..Len(s) - k /\ (i - k) + k = i
        BY <1>3, <3>2 DEF Dist!ToSet
    <3> QED
        BY <1>4, <3>1, <3>2
  <2> QED
      BY <1>1, <2>1, <2>2, <2>3 DEF Dist!ToSet
<1>7. ASSUME Dist!IsInjective(s)
      PROVE  /\ Dist!IsInjective(left) /\ Dist!IsInjective(right)
             /\ Dist!ToSet(left) \cap Dist!ToSet(right) = {}
  <2>1. Dist!IsInjective(left)
      BY <1>1, <1>2, <1>5, <1>7 DEF Dist!IsInjective
  <2>2. ASSUME NEW i \in 1..Len(s) - k, NEW j \in 1..Len(s) - k,
               right[i] = right[j]
        PROVE  i = j
    <3>1. i + k = j + k
        BY <1>1, <1>3, <1>5, <1>7, <2>2 DEF Dist!IsInjective
    <3> QED
        BY <1>1, <3>1
  <2>3. ASSUME NEW i \in 1..k, NEW j \in 1..Len(s) - k
        PROVE  left[i] # right[j]
    <3>1. i # j + k /\ i \in DOMAIN s /\ j + k \in DOMAIN s
        BY <1>1, <1>5
    <3> QED
        BY <1>2, <1>3, <1>7, <3>1 DEF Dist!IsInjective
  <2> QED
      BY <1>2, <1>3, <2>1, <2>2, <2>3 DEF Dist!IsInjective, Dist!ToSet
<1> QED
    BY <1>2, <1>3, <1>6, <1>7 DEF left, right

\* What is at the end of a pool.
LEMMA LastFacts ==
    ASSUME NEW S, NEW s \in Seq(S), s # <<>>
    PROVE  /\ Dist!Front(s) \in Seq(S) /\ Dist!Last(s) \in Dist!ToSet(s)
           /\ Dist!IsInjective(s) =>
                 /\ Dist!IsInjective(Dist!Front(s))
                 /\ Dist!ToSet(Dist!Front(s)) = Dist!ToSet(s) \ {Dist!Last(s)}
<1>1. /\ DOMAIN s = 1..Len(s) /\ Len(s) \in Nat /\ Len(s) > 0
      /\ Len(s) - 1 \in 0..Len(s) /\ (Len(s) - 1) + 1 = Len(s)
    BY LenProperties, EmptySeq
<1>2. Dist!Last(s) = s[Len(s)]
    BY DEF Dist!Last
<1>3. /\ DOMAIN SubSeq(s, Len(s), Len(s)) = 1..1
      /\ SubSeq(s, Len(s), Len(s))[1] = s[Len(s)]
  <2>1. SubSeq(s, Len(s), Len(s)) = [i \in 1..1 |-> s[i + Len(s) - 1]]
      BY <1>1
  <2>2. 1 + Len(s) - 1 = Len(s)
      BY <1>1
  <2> QED
      BY <2>1, <2>2
<1>4. Dist!ToSet(SubSeq(s, Len(s), Len(s))) = {Dist!Last(s)}
    BY <1>2, <1>3 DEF Dist!ToSet
<1>5. Dist!Front(s) = SubSeq(s, 1, Len(s) - 1)
    BY DEF Dist!Front
<1>6. /\ SubSeq(s, 1, Len(s) - 1) \in Seq(S)
      /\ Dist!ToSet(s) = Dist!ToSet(SubSeq(s, 1, Len(s) - 1))
                            \cup Dist!ToSet(SubSeq(s, Len(s), Len(s)))
      /\ Dist!IsInjective(s) =>
            /\ Dist!IsInjective(SubSeq(s, 1, Len(s) - 1))
            /\ Dist!ToSet(SubSeq(s, 1, Len(s) - 1))
                  \cap Dist!ToSet(SubSeq(s, Len(s), Len(s))) = {}
    BY <1>1, SplitFacts
<1> QED
    BY <1>4, <1>5, <1>6

\* A message is a request or brings work.
LEMMA MessageFacts ==
    /\ \A m \in Dist!Messages :
          \/ m.type = "request" /\ m.from \in Dist!Nodes
             /\ m = Dist!Request(m.from)
          \/ m.type = "work" /\ m.batch \in Seq(Dist!Tasks)
    /\ \A n \in Dist!Nodes : /\ Dist!Request(n) \in Dist!Messages
                             /\ Dist!Request(n).type = "request"
                             /\ Dist!Request(n).from = n
    /\ \A b \in Seq(Dist!Tasks) : /\ Dist!Work(b) \in Dist!Messages
                                  /\ Dist!Work(b).type = "work"
                                  /\ Dist!Work(b).batch = b
BY DEF Dist!Messages, Dist!Request, Dist!Work

\* What is in the batches of a mailbox.
LEMMA BatchFacts ==
    ASSUME NEW box, NEW t
    PROVE  t \in Dist!BatchesIn(box) <=>
              \E i \in DOMAIN box : /\ box[i].type = "work"
                                    /\ t \in Dist!ToSet(box[i].batch)
BY DEF Dist!BatchesIn

\* Receiving a message, ...
LEMMA BoxTail ==
    ASSUME NEW box \in Seq(Dist!Messages), box # <<>>
    PROVE  /\ Tail(box) \in Seq(Dist!Messages)
           /\ 1 \in DOMAIN box /\ Head(box) = box[1] /\ box[1] \in Dist!Messages
           /\ \A i \in DOMAIN Tail(box) : /\ i + 1 \in DOMAIN box /\ i \in Nat
                                          /\ i + 1 # 1
                                          /\ Tail(box)[i] = box[i + 1]
           /\ \A i \in DOMAIN box : i # 1 =>
                 i - 1 \in DOMAIN Tail(box) /\ (i - 1) + 1 = i
<1>1. /\ Tail(box) \in Seq(Dist!Messages) /\ Len(box) \in Nat /\ Len(box) > 0
      /\ DOMAIN box = 1..Len(box) /\ DOMAIN Tail(box) = 1..Len(box) - 1
      /\ \A i \in 1..Len(box) - 1 : Tail(box)[i] = box[i + 1]
      /\ Head(box) = box[1] /\ Head(box) \in Dist!Messages
    BY HeadTailProperties, LenProperties, EmptySeq
<1>2. \A i \in 1..Len(box) : i # 1 => i - 1 \in 1..Len(box) - 1 /\ i - 1 + 1 = i
    BY <1>1
<1>3. \A i \in 1..Len(box) - 1 : i + 1 \in 1..Len(box) /\ i + 1 # 1 /\ i \in Nat
    BY <1>1
<1>4. 1 \in 1..Len(box)
    BY <1>1
<1> QED
    BY <1>1, <1>2, <1>3, <1>4

\* ... and what it does to the batches.
LEMMA TailBatches ==
    ASSUME NEW box \in Seq(Dist!Messages), box # <<>>
    PROVE  Dist!BatchesIn(box) =
              Dist!BatchesIn(Tail(box)) \cup
                 (IF Head(box).type = "work"
                  THEN Dist!ToSet(Head(box).batch) ELSE {})
<1>1. ASSUME NEW t \in Dist!BatchesIn(Tail(box))
      PROVE  t \in Dist!BatchesIn(box)
  <2>1. PICK i \in DOMAIN Tail(box) :
            Tail(box)[i].type = "work" /\ t \in Dist!ToSet(Tail(box)[i].batch)
      BY <1>1, BatchFacts
  <2>2. i + 1 \in DOMAIN box /\ box[i + 1] = Tail(box)[i]
      BY BoxTail
  <2> QED
      BY <2>1, <2>2, BatchFacts
<1>2. ASSUME Head(box).type = "work", NEW t \in Dist!ToSet(Head(box).batch)
      PROVE  t \in Dist!BatchesIn(box)
  <2>1. 1 \in DOMAIN box /\ Head(box) = box[1]
      BY BoxTail
  <2> QED
      BY <1>2, <2>1, BatchFacts
<1>3. ASSUME NEW t \in Dist!BatchesIn(box)
      PROVE  \/ t \in Dist!BatchesIn(Tail(box))
             \/ Head(box).type = "work" /\ t \in Dist!ToSet(Head(box).batch)
  <2>1. PICK i \in DOMAIN box :
            box[i].type = "work" /\ t \in Dist!ToSet(box[i].batch)
      BY <1>3, BatchFacts
  <2>2. CASE i = 1
      BY <2>1, <2>2, BoxTail
  <2>3. CASE i # 1
    <3>1. /\ i - 1 \in DOMAIN Tail(box) /\ (i - 1) + 1 = i
          /\ Tail(box)[i - 1] = box[(i - 1) + 1]
        BY <2>3, BoxTail
    <3>2. Tail(box)[i - 1] = box[i]
        BY <3>1
    <3> QED
        BY <2>1, <3>1, <3>2, BatchFacts
  <2> QED
      BY <2>2, <2>3
<1> QED
    BY <1>1, <1>2, <1>3

\* Sending one.
LEMMA BoxAppend ==
    ASSUME NEW box \in Seq(Dist!Messages), NEW m \in Dist!Messages
    PROVE  /\ Append(box, m) \in Seq(Dist!Messages)
           /\ Len(box) + 1 \in DOMAIN Append(box, m)
           /\ Len(box) + 1 \notin DOMAIN box
           /\ Append(box, m)[Len(box) + 1] = m
           /\ \A i \in DOMAIN box : /\ i \in DOMAIN Append(box, m)
                                    /\ Append(box, m)[i] = box[i]
           /\ \A i \in DOMAIN Append(box, m) : i \in DOMAIN box \/ i = Len(box) + 1
<1>1. /\ Append(box, m) \in Seq(Dist!Messages) /\ DOMAIN box = 1..Len(box)
      /\ Len(box) \in Nat /\ Len(Append(box, m)) = Len(box) + 1
      /\ DOMAIN Append(box, m) = 1..Len(box) + 1
      /\ \A i \in 1..Len(box) : Append(box, m)[i] = box[i]
      /\ Append(box, m)[Len(box) + 1] = m
    BY AppendProperties, LenProperties
<1>2. /\ \A i \in 1..Len(box) + 1 : i \in 1..Len(box) \/ i = Len(box) + 1
      /\ \A i \in 1..Len(box) : i \in 1..Len(box) + 1
      /\ Len(box) + 1 \in 1..Len(box) + 1 /\ Len(box) + 1 \notin 1..Len(box)
    BY <1>1
<1> QED
    BY <1>1, <1>2

\* ... and what that does to the batches.
LEMMA AppendBatches ==
    ASSUME NEW box \in Seq(Dist!Messages)
    PROVE  /\ \A n \in Dist!Nodes : Dist!BatchesIn(Append(box, Dist!Request(n)))
                                       = Dist!BatchesIn(box)
           /\ \A b \in Seq(Dist!Tasks) :
                 Dist!BatchesIn(Append(box, Dist!Work(b)))
                    = Dist!BatchesIn(box) \cup Dist!ToSet(b)
<1>1. ASSUME NEW m \in Dist!Messages, NEW t
      PROVE  t \in Dist!BatchesIn(Append(box, m)) <=>
                \/ t \in Dist!BatchesIn(box)
                \/ m.type = "work" /\ t \in Dist!ToSet(m.batch)
  <2> DEFINE next == Append(box, m)
  <2>1. /\ Len(box) + 1 \in DOMAIN next /\ next[Len(box) + 1] = m
        /\ \A i \in DOMAIN box : i \in DOMAIN next /\ next[i] = box[i]
        /\ \A i \in DOMAIN next : i \in DOMAIN box \/ i = Len(box) + 1
      BY BoxAppend
  <2> HIDE DEF next
  <2>2. t \in Dist!BatchesIn(next) <=>
            \E i \in DOMAIN next : /\ next[i].type = "work"
                                   /\ t \in Dist!ToSet(next[i].batch)
      BY BatchFacts
  <2>3. t \in Dist!BatchesIn(box) <=>
            \E i \in DOMAIN box : /\ box[i].type = "work"
                                  /\ t \in Dist!ToSet(box[i].batch)
      BY BatchFacts
  <2>4. t \in Dist!BatchesIn(next) <=>
            \/ t \in Dist!BatchesIn(box)
            \/ m.type = "work" /\ t \in Dist!ToSet(m.batch)
      BY <2>1, <2>2, <2>3
  <2> QED
      BY <2>4 DEF next
<1>2. ASSUME NEW n \in Dist!Nodes
      PROVE  Dist!BatchesIn(Append(box, Dist!Request(n))) = Dist!BatchesIn(box)
    BY ZenonT(40), <1>1, MessageFacts
<1>3. ASSUME NEW b \in Seq(Dist!Tasks)
      PROVE  Dist!BatchesIn(Append(box, Dist!Work(b)))
                = Dist!BatchesIn(box) \cup Dist!ToSet(b)
    BY <1>1, MessageFacts
<1> QED
    BY <1>2, <1>3

\* An empty mailbox has none.
LEMMA NoBatches == Dist!BatchesIn(<<>>) = {}
<1>1. DOMAIN <<>> = {}
    OBVIOUS
<1> QED
    BY <1>1, BatchFacts

\* What the constants are.
LEMMA NodeFacts ==
    /\ NumNodes \in Nat /\ NumNodes > 0 /\ NumSeeds \in Nat /\ MaxTasks \in Nat
    /\ NumSeeds <= MaxTasks /\ Dist!Nodes = 0..NumNodes - 1
    /\ Dist!Nodes \subseteq Nat /\ Dist!Tasks = 1..MaxTasks
    /\ 0 \notin Dist!Tasks
BY PartsAssumption DEF Dist!DistributedAssumption, Dist!Nodes, Dist!Tasks

\* The nodes count as the library does.
LEMMA CountsSame == \A S : Dist!Cardinality(S) = Cardinality(S)
BY DEF Dist!Cardinality, Cardinality

\* What is at the head of a mailbox.
LEMMA NextFacts ==
    ASSUME Dist!DistTypeOK, NEW n \in Dist!Nodes, inbox[n] # <<>>
    PROVE  \/ /\ Dist!Next1(n).type = "request"
              /\ Dist!Next1(n).from \in Dist!Nodes
              /\ Dist!Next1(n) = Dist!Request(Dist!Next1(n).from)
           \/ /\ Dist!Next1(n).type = "work"
              /\ Dist!Next1(n).batch \in Seq(Dist!Tasks)
<1>1. inbox[n] \in Seq(Dist!Messages)
    BY DEF Dist!DistTypeOK
<1>2. Dist!Next1(n) \in Dist!Messages
    BY <1>1, BoxTail DEF Dist!Next1
<1> QED
    BY <1>2, MessageFacts

\* The surplus of a pool: what a node gives away, and what it keeps.
Give(pool) == (Len(pool) - (IF pool = <<>> THEN 0 ELSE 1)) \div 2
Batch(pool) == SubSeq(pool, Len(pool) - Give(pool) + 1, Len(pool))
Rest(pool) == SubSeq(pool, 1, Len(pool) - Give(pool))

LEMMA GiveFacts ==
    ASSUME NEW S, NEW pool \in Seq(S)
    PROVE  /\ Batch(pool) \in Seq(S) /\ Rest(pool) \in Seq(S)
           /\ Dist!ToSet(pool) = Dist!ToSet(Rest(pool)) \cup Dist!ToSet(Batch(pool))
           /\ Dist!IsInjective(pool) =>
                 /\ Dist!IsInjective(Rest(pool)) /\ Dist!IsInjective(Batch(pool))
                 /\ Dist!ToSet(Rest(pool)) \cap Dist!ToSet(Batch(pool)) = {}
<1>1. Len(pool) \in Nat /\ (pool # <<>> => Len(pool) > 0)
    BY LenProperties, EmptySeq
<1>2. PICK k \in Nat : /\ k = Len(pool) - (IF pool = <<>> THEN 0 ELSE 1)
                       /\ k <= Len(pool)
    BY SMTT(30), <1>1
<1>3. Give(pool) = k \div 2
    BY <1>2 DEF Give
<1>4. Len(pool) - Give(pool) \in 0..Len(pool)
  <2>1. k \in Nat => k \div 2 \in Nat /\ k \div 2 <= k
      OBVIOUS
  <2>2. PICK g \in Nat : g = Give(pool) /\ g <= k
      BY <1>3, <2>1
  <2>3. PICK l \in Nat : l = Len(pool) /\ k <= l
      BY <1>1, <1>2
  <2>4. l - g \in 0..l
      BY <2>2, <2>3
  <2> QED
      BY <2>2, <2>3, <2>4
<1> HIDE DEF Give
<1> QED
    BY <1>4, SplitFacts DEF Batch, Rest

\* An answer in these terms, ...
LEMMA AnswerIs ==
    ASSUME Dist!DistTypeOK, NEW n \in Dist!Nodes, Dist!Answer(n)
    PROVE  LET to == Dist!Next1(n).from
           IN  /\ at[n] = "drain" /\ inbox[n] # <<>>
               /\ Dist!Next1(n).type = "request" /\ to \in Dist!Nodes
               /\ Dist!Next1(n) = Dist!Request(to)
               /\ local' = [local EXCEPT ![n] = Rest(local[n])]
               /\ inbox' = [inbox EXCEPT ![n] = Tail(@),
                              ![to] = IF Dist!Gone(to) THEN @
                                      ELSE Append(@, Dist!Work(Batch(local[n])))]
               /\ lost' = IF at[to] = "panicked"
                          THEN lost \cup Dist!ToSet(Batch(local[n])) ELSE lost
               /\ UNCHANGED <<waiting, outstanding, at, task, spawned, ended>>
<1>1. /\ at[n] = "drain" /\ inbox[n] # <<>>
      /\ Dist!Next1(n).type = "request"
    BY DEF Dist!Answer
<1>2. /\ Dist!Next1(n).from \in Dist!Nodes
      /\ Dist!Next1(n) = Dist!Request(Dist!Next1(n).from)
    BY <1>1, NextFacts
<1>3. local' = [local EXCEPT ![n] = Rest(local[n])]
    BY DEF Dist!Answer, Rest, Give, Dist!DistTypeOK
<1> QED
    BY <1>1, <1>2, <1>3 DEF Dist!Answer, Batch, Give

\* ... and where the messages are then.
LEMMA AnswerMoves ==
    ASSUME Dist!DistTypeOK, Dist!MailInv, NEW n \in Dist!Nodes, Dist!Answer(n),
           NEW to \in Dist!Nodes, to = Dist!Next1(n).from
    PROVE  /\ to # n /\ inbox[n][1] = Dist!Request(to)
           /\ local'[n] = Rest(local[n]) /\ inbox'[n] = Tail(inbox[n])
           /\ inbox'[to] = IF Dist!Gone(to) THEN inbox[to]
                           ELSE Append(inbox[to], Dist!Work(Batch(local[n])))
           /\ \A m \in Dist!Nodes \ {n} : local'[m] = local[m]
           /\ \A m \in Dist!Nodes \ {n, to} : inbox'[m] = inbox[m]
<1>1. /\ inbox[n] \in Seq(Dist!Messages) /\ inbox[n] # <<>>
      /\ Dist!Next1(n) = Dist!Request(to)
    BY AnswerIs DEF Dist!DistTypeOK
<1>2. 1 \in DOMAIN inbox[n] /\ inbox[n][1] = Dist!Request(to)
    BY <1>1, BoxTail DEF Dist!Next1
<1>3. to # n
    BY <1>2 DEF Dist!MailInv
<1>4. /\ local' = [local EXCEPT ![n] = Rest(local[n])]
      /\ inbox' = [inbox EXCEPT ![n] = Tail(@),
                     ![to] = IF Dist!Gone(to) THEN @
                             ELSE Append(@, Dist!Work(Batch(local[n])))]
    BY AnswerIs
<1> QED
    BY <1>2, <1>3, <1>4 DEF Dist!DistTypeOK

\* What a place holds, in this state and in the next.
LEMMA HeldIs ==
    /\ \A n \in Dist!Nodes :
          /\ Dist!Held[<<"local", n>>] = Dist!ToSet(local[n])
          /\ Dist!Held[<<"mail", n>>] = Dist!BatchesIn(inbox[n])
          /\ Dist!Held[<<"task", n>>] = {task[n]} \ {0}
          /\ Dist!Held'[<<"local", n>>] = Dist!ToSet(local'[n])
          /\ Dist!Held'[<<"mail", n>>] = Dist!BatchesIn(inbox'[n])
          /\ Dist!Held'[<<"task", n>>] = {task'[n]} \ {0}
    /\ Dist!Held[<<"lost", 0>>] = lost /\ Dist!Held'[<<"lost", 0>>] = lost'
BY DEF Dist!Held, Dist!Places

\* The places.
LEMMA PlaceFacts ==
    /\ \A n \in Dist!Nodes : /\ <<"local", n>> \in Dist!Places
                              /\ <<"mail", n>> \in Dist!Places
                              /\ <<"task", n>> \in Dist!Places
    /\ <<"lost", 0>> \in Dist!Places
    /\ \A p \in Dist!Places :
          \/ \E n \in Dist!Nodes : \/ p = <<"local", n>> \/ p = <<"mail", n>>
                                   \/ p = <<"task", n>>
          \/ p = <<"lost", 0>>
BY DEF Dist!Places

\* The task that runs is one that has not ended.
LEMMA TaskFacts ==
    ASSUME Dist!TasksInv, NEW n \in Dist!Nodes
    PROVE  at[n] \in {"run", "panicked"} =>
              task[n] \in (1..spawned) \ ended /\ task[n] # 0
<1>1. Dist!Held[<<"task", n>>] \subseteq (1..spawned) \ ended
    BY PlaceFacts DEF Dist!TasksInv
<1>2. task[n] # 0 <=> at[n] \in {"run", "panicked"}
    BY DEF Dist!TasksInv
<1>3. Dist!Held[<<"task", n>>] = {task[n]} \ {0}
    BY HeldIs
<1>4. ASSUME at[n] \in {"run", "panicked"}
      PROVE  task[n] \in (1..spawned) \ ended /\ task[n] # 0
  <2>1. task[n] # 0
      BY <1>2, <1>4
  <2>2. task[n] \in Dist!Held[<<"task", n>>]
      BY <1>3, <2>1
  <2> QED
      BY <1>1, <2>1, <2>2
<1> QED
    BY <1>4

\* Where a node can be in its loop.
Settings == {"drain", "work", "run", "ask", "left", "panicked"}

\* Every step keeps the types.
LEMMA DistTypeStep ==
    ASSUME Dist!DistTypeOK, Dist!MailInv, Dist!TasksInv, Dist!DistNext
    PROVE  Dist!DistTypeOK'
<1>0. /\ local \in [Dist!Nodes -> Seq(Dist!Tasks)]
      /\ inbox \in [Dist!Nodes -> Seq(Dist!Messages)]
      /\ waiting \in [Dist!Nodes -> BOOLEAN]
      /\ at \in [Dist!Nodes -> Settings]
      /\ task \in [Dist!Nodes -> Dist!Tasks \cup {0}]
      /\ spawned \in NumSeeds..MaxTasks /\ ended \subseteq 1..spawned
    BY DEF Dist!DistTypeOK, Settings
<1> USE NodeFacts
<1>1. ASSUME NEW n \in Dist!Nodes, Dist!Answer(n)
      PROVE  Dist!DistTypeOK'
  <2>1. PICK to \in Dist!Nodes : to = Dist!Next1(n).from
      BY <1>1, AnswerIs
  <2>2. /\ Rest(local[n]) \in Seq(Dist!Tasks) /\ Batch(local[n]) \in Seq(Dist!Tasks)
      BY <1>0, GiveFacts
  <2>3. local' \in [Dist!Nodes -> Seq(Dist!Tasks)]
    <3>1. local' = [local EXCEPT ![n] = Rest(local[n])]
        BY <1>1, AnswerIs
    <3> QED
        BY <1>0, <2>2, <3>1
  <2>4. inbox' \in [Dist!Nodes -> Seq(Dist!Messages)]
    <3>1. inbox[n] # <<>>
        BY <1>1, AnswerIs
    <3>2. Tail(inbox[n]) \in Seq(Dist!Messages)
        BY <1>0, <3>1, BoxTail
    <3>3. Append(inbox[to], Dist!Work(Batch(local[n]))) \in Seq(Dist!Messages)
        BY <1>0, <2>2, BoxAppend, MessageFacts
    <3>4. inbox' = [inbox EXCEPT ![n] = Tail(@),
                      ![to] = IF Dist!Gone(to) THEN @
                              ELSE Append(@, Dist!Work(Batch(local[n])))]
        BY <1>1, <2>1, AnswerIs
    <3>5. to # n
        BY <1>1, <2>1, AnswerMoves
    <3> QED
        BY <1>0, <3>2, <3>3, <3>4, <3>5
  <2> QED
      BY <1>0, <1>1, <2>3, <2>4, AnswerIs DEF Dist!DistTypeOK, Settings
<1>2. ASSUME NEW n \in Dist!Nodes, Dist!Absorb(n)
      PROVE  Dist!DistTypeOK'
  <2>1. /\ inbox[n] # <<>> /\ Dist!Next1(n).type = "work"
        /\ local' = [local EXCEPT ![n] = @ \o Dist!Next1(n).batch]
        /\ inbox' = [inbox EXCEPT ![n] = Tail(@)]
        /\ waiting' = [waiting EXCEPT ![n] = FALSE]
        /\ UNCHANGED <<outstanding, at, task, spawned, ended, lost>>
      BY <1>2 DEF Dist!Absorb
  <2>2. Dist!Next1(n).batch \in Seq(Dist!Tasks)
      BY <2>1, NextFacts
  <2>3. Tail(inbox[n]) \in Seq(Dist!Messages)
      BY <1>0, <2>1, BoxTail
  <2>4. local[n] \o Dist!Next1(n).batch \in Seq(Dist!Tasks)
      BY <1>0, <2>2, ConcatProperties
  <2> QED
      BY <1>0, <2>1, <2>3, <2>4 DEF Dist!DistTypeOK, Settings
<1>3. ASSUME NEW n \in Dist!Nodes,
             \/ Dist!DrainEnds(n) \/ Dist!Starve(n)
      PROVE  Dist!DistTypeOK'
    BY <1>0, <1>3 DEF Dist!DrainEnds, Dist!Starve, Dist!Goto, Dist!DistTypeOK, Settings
<1>4. ASSUME NEW n \in Dist!Nodes, Dist!RunTask(n)
      PROVE  Dist!DistTypeOK'
  <2>1. /\ local[n] # <<>> /\ local[n] \in Seq(Dist!Tasks)
        /\ local' = [local EXCEPT ![n] = Dist!Front(@)]
        /\ task' = [task EXCEPT ![n] = Dist!Last(local[n])]
      BY <1>0, <1>4 DEF Dist!RunTask
  <2>2. Dist!Front(local[n]) \in Seq(Dist!Tasks) /\ Dist!Last(local[n]) \in Dist!Tasks
    <3>1. Dist!ToSet(local[n]) \subseteq Dist!Tasks
        BY <2>1 DEF Dist!ToSet
    <3> QED
        BY <2>1, <3>1, LastFacts
  <2> QED
      BY <1>0, <1>4, <2>1, <2>2
         DEF Dist!RunTask, Dist!Goto, Dist!DistTypeOK, Settings
<1>5. ASSUME NEW n \in Dist!Nodes, Dist!Spawn(n)
      PROVE  Dist!DistTypeOK'
  <2>1. /\ spawned < MaxTasks /\ spawned' = spawned + 1
        /\ local' = [local EXCEPT ![n] = Append(@, spawned + 1)]
        /\ UNCHANGED <<inbox, waiting, at, task, ended, lost>>
      BY <1>5 DEF Dist!Spawn
  <2>2. /\ spawned + 1 \in Dist!Tasks /\ spawned' \in NumSeeds..MaxTasks
        /\ ended \subseteq 1..spawned'
      BY <1>0, <2>1
  <2>3. Append(local[n], spawned + 1) \in Seq(Dist!Tasks)
      BY <1>0, <2>2, AppendProperties
  <2> QED
      BY <1>0, <2>1, <2>2, <2>3 DEF Dist!DistTypeOK, Settings
<1>6. ASSUME NEW n \in Dist!Nodes, Dist!LeaveDone(n)
      PROVE  Dist!DistTypeOK'
  <2>1. <<>> \in Seq(Dist!Messages)
      BY EmptySeq
  <2> QED
      BY <1>0, <1>6, <2>1 DEF Dist!LeaveDone, Dist!Goto, Dist!DistTypeOK, Settings
<1>7. ASSUME NEW n \in Dist!Nodes, Dist!Panic(n)
      PROVE  Dist!DistTypeOK'
  <2>1. <<>> \in Seq(Dist!Messages) /\ <<>> \in Seq(Dist!Tasks)
      BY EmptySeq
  <2> QED
      BY <1>0, <1>7, <2>1 DEF Dist!Panic, Dist!Goto, Dist!DistTypeOK, Settings
<1>8. ASSUME NEW n \in Dist!Nodes, Dist!Ask(n)
      PROVE  Dist!DistTypeOK'
  <2>1. PICK victim \in Dist!Nodes :
            IF victim = n \/ Dist!Gone(victim)
            THEN UNCHANGED <<inbox, waiting>>
            ELSE /\ inbox' = [inbox EXCEPT ![victim] = Append(@, Dist!Request(n))]
                 /\ waiting' = [waiting EXCEPT ![n] = TRUE]
      BY <1>8 DEF Dist!Ask
  <2>2. Append(inbox[victim], Dist!Request(n)) \in Seq(Dist!Messages)
      BY <1>0, BoxAppend, MessageFacts
  <2>3. inbox' \in [Dist!Nodes -> Seq(Dist!Messages)] /\ waiting' \in [Dist!Nodes -> BOOLEAN]
      BY ZenonT(40), <1>0, <2>1, <2>2
  <2> QED
      BY <1>0, <1>8, <2>3 DEF Dist!Ask, Dist!Goto, Dist!DistTypeOK, Settings
<1>9. ASSUME NEW n \in Dist!Nodes, Dist!FinishTask(n)
      PROVE  Dist!DistTypeOK'
  <2>1. task[n] \in 1..spawned
      BY <1>9, TaskFacts DEF Dist!FinishTask
  <2> QED
      BY <1>0, <1>9, <2>1
         DEF Dist!FinishTask, Dist!Goto, Dist!DistTypeOK, Settings
<1> QED
    BY <1>1, <1>2, <1>3, <1>4, <1>5, <1>6, <1>7, <1>8, <1>9
       DEF Dist!DistNext, Dist!Step

\* No two places share a task, and what they hold is not done.
Disjoint(held, alive) ==
    /\ \A p \in Dist!Places : held[p] \subseteq alive
    /\ \A p, q \in Dist!Places : p # q => held[p] \cap held[q] = {}

\* Tasks may go from one place to another, ...
LEMMA Moved ==
    ASSUME NEW held, NEW next, NEW alive, Disjoint(held, alive),
           NEW p \in Dist!Places, NEW q \in Dist!Places, p # q,
           NEW some, some \subseteq held[p],
           next[p] = held[p] \ some,
           next[q] = held[q] \cup some,
           \A r \in Dist!Places \ {p, q} : next[r] = held[r]
    PROVE  Disjoint(next, alive)
<1>1. \A r \in Dist!Places : next[r] \subseteq alive
    BY DEF Disjoint
<1>2. \A r \in Dist!Places \ {p} : some \cap held[r] = {}
    BY DEF Disjoint
<1>3. ASSUME NEW r1 \in Dist!Places, NEW r2 \in Dist!Places, r1 # r2, NEW x,
             x \in next[r1], x \in next[r2]
      PROVE  FALSE
  <2>1. CASE x \in some
    <3>1. \A r \in Dist!Places \ {q} : x \notin next[r]
        BY <1>2, <2>1
    <3> QED
        BY <1>3, <3>1
  <2>2. CASE x \notin some
    <3>1. x \in held[r1] /\ x \in held[r2]
        BY <1>3, <2>2
    <3> QED
        BY <3>1, <1>3 DEF Disjoint
  <2> QED
      BY <2>1, <2>2
<1> QED
    BY <1>1, <1>3 DEF Disjoint

\* ... a new one may appear, ...
LEMMA Added ==
    ASSUME NEW held, NEW next, NEW alive, NEW more, Disjoint(held, alive),
           NEW p \in Dist!Places, NEW t, t \notin alive,
           more = alive \cup {t},
           next[p] = held[p] \cup {t},
           \A r \in Dist!Places \ {p} : next[r] = held[r]
    PROVE  Disjoint(next, more)
BY DEF Disjoint

\* ... and one may go.
LEMMA Removed ==
    ASSUME NEW held, NEW next, NEW alive, NEW less, Disjoint(held, alive),
           NEW p \in Dist!Places, NEW t \in held[p],
           less = alive \ {t},
           next[p] = held[p] \ {t},
           \A r \in Dist!Places \ {p} : next[r] = held[r]
    PROVE  Disjoint(next, less)
BY DEF Disjoint

\* The tasks to be run and those that run, by place.
Waits == Dist!Places \ ({"task"} \X Dist!Nodes)
PendingIn(held) == UNION {held[p] : p \in Waits}
RunningIn(held) == UNION {held[<<"task", n>>] : n \in Dist!Nodes}

LEMMA WaitFacts ==
    /\ \A n \in Dist!Nodes : /\ <<"local", n>> \in Waits /\ <<"mail", n>> \in Waits
                             /\ <<"task", n>> \notin Waits
    /\ <<"lost", 0>> \in Waits /\ Waits \subseteq Dist!Places
    /\ \A p \in Waits :
          \/ \E n \in Dist!Nodes : p = <<"local", n>> \/ p = <<"mail", n>>
          \/ p = <<"lost", 0>>
<1>1. \A n \in Dist!Nodes : /\ <<"local", n>> \notin {"task"} \X Dist!Nodes
                            /\ <<"mail", n>> \notin {"task"} \X Dist!Nodes
                            /\ <<"task", n>> \in {"task"} \X Dist!Nodes
    OBVIOUS
<1>2. <<"lost", 0>> \notin {"task"} \X Dist!Nodes
    OBVIOUS
<1> QED
    BY <1>1, <1>2, PlaceFacts DEF Waits

\* The pool that the nodes are, by place.
LEMMA PoolIs ==
    /\ Dist!Pending = PendingIn(Dist!Held) /\ Dist!Running = RunningIn(Dist!Held)
    /\ Dist!Pending' = PendingIn(Dist!Held') /\ Dist!Running' = RunningIn(Dist!Held')
<1>1. \A t : t \in Dist!Pending <=>
          \/ t \in lost
          \/ \E n \in Dist!Nodes : \/ t \in Dist!ToSet(local[n])
                                   \/ t \in Dist!BatchesIn(inbox[n])
    BY DEF Dist!Pending
<1>2. \A t : t \in Dist!Pending' <=>
          \/ t \in lost'
          \/ \E n \in Dist!Nodes : \/ t \in Dist!ToSet(local'[n])
                                   \/ t \in Dist!BatchesIn(inbox'[n])
    BY DEF Dist!Pending
<1>3. \A held, t : t \in PendingIn(held) <=>
          \/ t \in held[<<"lost", 0>>]
          \/ \E n \in Dist!Nodes : t \in held[<<"local", n>>] \/ t \in held[<<"mail", n>>]
  <2> TAKE held, t
  <2>1. t \in PendingIn(held) <=> \E p \in Waits : t \in held[p]
      BY DEF PendingIn
  <2> QED
      BY <2>1, WaitFacts
<1>4. \A t : t \in Dist!Running <=> \E n \in Dist!Nodes : t = task[n] /\ t # 0
    BY DEF Dist!Running
<1>5. \A t : t \in Dist!Running' <=> \E n \in Dist!Nodes : t = task'[n] /\ t # 0
    BY DEF Dist!Running
<1>6. \A held, t : t \in RunningIn(held) <=>
          \E n \in Dist!Nodes : t \in held[<<"task", n>>]
    BY DEF RunningIn
<1>7. Dist!Pending = PendingIn(Dist!Held)
  <2>1. \A t : t \in PendingIn(Dist!Held) <=>
            \/ t \in Dist!Held[<<"lost", 0>>]
            \/ \E n \in Dist!Nodes : \/ t \in Dist!Held[<<"local", n>>]
                                     \/ t \in Dist!Held[<<"mail", n>>]
      BY <1>3
  <2>2. \A t : t \in PendingIn(Dist!Held) <=> t \in Dist!Pending
    <3>1. \A n \in Dist!Nodes :
              /\ Dist!Held[<<"local", n>>] = Dist!ToSet(local[n])
              /\ Dist!Held[<<"mail", n>>] = Dist!BatchesIn(inbox[n])
        BY HeldIs
    <3>2. Dist!Held[<<"lost", 0>>] = lost
        BY HeldIs
    <3> QED
        BY <1>1, <2>1, <3>1, <3>2
  <2> QED
      BY <2>2
<1>8. Dist!Pending' = PendingIn(Dist!Held')
  <2>1. \A t : t \in PendingIn(Dist!Held') <=>
            \/ t \in Dist!Held'[<<"lost", 0>>]
            \/ \E n \in Dist!Nodes : \/ t \in Dist!Held'[<<"local", n>>]
                                     \/ t \in Dist!Held'[<<"mail", n>>]
      BY <1>3
  <2>2. \A t : t \in PendingIn(Dist!Held') <=> t \in Dist!Pending'
    <3>1. \A n \in Dist!Nodes :
              /\ Dist!Held'[<<"local", n>>] = Dist!ToSet(local'[n])
              /\ Dist!Held'[<<"mail", n>>] = Dist!BatchesIn(inbox'[n])
        BY HeldIs
    <3>2. Dist!Held'[<<"lost", 0>>] = lost'
        BY HeldIs
    <3> QED
        BY <1>2, <2>1, <3>1, <3>2
  <2> QED
      BY <2>2
<1>9. Dist!Running = RunningIn(Dist!Held)
  <2>1. \A t : t \in RunningIn(Dist!Held) <=>
            \E n \in Dist!Nodes : t \in Dist!Held[<<"task", n>>]
      BY <1>6
  <2>2. \A t : t \in RunningIn(Dist!Held) <=> t \in Dist!Running
    <3>1. \A n \in Dist!Nodes : Dist!Held[<<"task", n>>] = {task[n]} \ {0}
        BY HeldIs
    <3>2. \A n \in Dist!Nodes : \A t :
              t \in Dist!Held[<<"task", n>>] <=> t = task[n] /\ t # 0
        BY <3>1
    <3> QED
        BY <1>4, <2>1, <3>2
  <2> QED
      BY <2>2
<1>10. Dist!Running' = RunningIn(Dist!Held')
  <2>1. \A t : t \in RunningIn(Dist!Held') <=>
            \E n \in Dist!Nodes : t \in Dist!Held'[<<"task", n>>]
      BY <1>6
  <2>2. \A t : t \in RunningIn(Dist!Held') <=> t \in Dist!Running'
    <3>1. \A n \in Dist!Nodes : Dist!Held'[<<"task", n>>] = {task'[n]} \ {0}
        BY HeldIs
    <3>2. \A n \in Dist!Nodes : \A t :
              t \in Dist!Held'[<<"task", n>>] <=> t = task'[n] /\ t # 0
        BY <3>1
    <3> QED
        BY <1>5, <2>1, <3>2
  <2> QED
      BY <2>2
<1> QED
    BY <1>7, <1>8, <1>9, <1>10

\* Tasks that go from a place to be run to another are still to be run.
LEMMA StillPending ==
    ASSUME NEW held, NEW next,
           NEW p \in Waits, NEW q \in Waits,
           NEW some, some \subseteq held[p],
           next[p] = held[p] \ some,
           next[q] = held[q] \cup some,
           \A r \in Dist!Places \ {p, q} : next[r] = held[r]
    PROVE  PendingIn(next) = PendingIn(held) /\ RunningIn(next) = RunningIn(held)
<1>1. \A n \in Dist!Nodes : /\ <<"task", n>> \in Dist!Places
                            /\ <<"task", n>> # p /\ <<"task", n>> # q
    BY WaitFacts, PlaceFacts
<1>2. RunningIn(next) = RunningIn(held)
    BY <1>1 DEF RunningIn
<1>3. \A r \in Waits : r \in Dist!Places
    BY WaitFacts
<1>4. ASSUME NEW t, NEW r \in Waits, t \in next[r]
      PROVE  \E r2 \in Waits : t \in held[r2]
    BY <1>3, <1>4
<1>5. ASSUME NEW t, NEW r \in Waits, t \in held[r]
      PROVE  \E r2 \in Waits : t \in next[r2]
    BY <1>3, <1>5
<1>6. PendingIn(next) = PendingIn(held)
    BY <1>4, <1>5 DEF PendingIn
<1> QED
    BY <1>2, <1>6

\* What is owed to a node, place by place, in this state and in the next.
LEMMA OwedIs ==
    ASSUME NEW n \in Dist!Nodes
    PROVE  /\ \A a : a \in Dist!Owed(n) <=>
                 \E v \in Dist!Nodes : \E i \in DOMAIN inbox[v] :
                    /\ a = <<v, i>>
                    /\ \/ inbox[v][i] = Dist!Request(n)
                       \/ v = n /\ inbox[v][i].type = "work"
           /\ \A a : a \in Dist!Owed(n)' <=>
                 \E v \in Dist!Nodes : \E i \in DOMAIN inbox'[v] :
                    /\ a = <<v, i>>
                    /\ \/ inbox'[v][i] = Dist!Request(n)
                       \/ v = n /\ inbox'[v][i].type = "work"
BY DEF Dist!Owed

\* A node that has an answer before it has no other.
LEMMA OneAnswer ==
    ASSUME Dist!DistTypeOK, Dist!MailInv, NEW n \in Dist!Nodes,
           inbox[n] # <<>>, Dist!Next1(n).type = "work"
    PROVE  Dist!BatchesIn(Tail(inbox[n])) = {}
<1>1. inbox[n] \in Seq(Dist!Messages)
    BY DEF Dist!DistTypeOK
<1>2. \A a, b \in Dist!Owed(n) : a = b
    BY DEF Dist!MailInv
<1>3. <<n, 1>> \in Dist!Owed(n)
  <2>1. 1 \in DOMAIN inbox[n] /\ inbox[n][1].type = "work"
      BY <1>1, BoxTail DEF Dist!Next1
  <2> QED
      BY <2>1, OwedIs
<1>4. ASSUME NEW i \in DOMAIN Tail(inbox[n]), Tail(inbox[n])[i].type = "work"
      PROVE  FALSE
  <2>1. /\ i + 1 \in DOMAIN inbox[n] /\ inbox[n][i + 1].type = "work"
        /\ i + 1 # 1
      BY <1>1, <1>4, BoxTail
  <2>2. <<n, i + 1>> \in Dist!Owed(n)
      BY <2>1, OwedIs
  <2>3. <<n, i + 1>> = <<n, 1>>
      BY <1>2, <1>3, <2>2
  <2> QED
      BY <2>1, <2>3
<1> QED
    BY <1>4, BatchFacts

\* When nothing is outstanding no task is anywhere.
LEMMA NothingLeft ==
    ASSUME Dist!DistInv, outstanding = 0
    PROVE  /\ \A p \in Dist!Places : Dist!Held[p] = {}
           /\ Dist!Pending = {} /\ Dist!Running = {}
<1>1. /\ spawned \in Nat /\ ended \subseteq 1..spawned
      /\ spawned - Cardinality(ended) = 0
  <2>1. spawned \in NumSeeds..MaxTasks /\ ended \subseteq 1..spawned
      BY DEF Dist!DistInv, Dist!DistTypeOK
  <2>2. outstanding = spawned - Cardinality(ended)
    <3>1. Dist!CountInv
        BY DEF Dist!DistInv
    <3> QED
        BY <3>1, CountsSame DEF Dist!CountInv
  <2>3. NumSeeds \in Nat /\ MaxTasks \in Nat
      BY NodeFacts
  <2> QED
      BY <2>1, <2>2, <2>3
<1>2. IsFiniteSet(1..spawned) /\ Cardinality(1..spawned) = spawned
  <2>1. Cardinality(1..spawned) = IF 1 > spawned THEN 0 ELSE spawned - 1 + 1
      BY <1>1, FS_Interval
  <2> QED
      BY <1>1, <2>1, FS_Interval
<1>3. IsFiniteSet(ended) /\ Cardinality(ended) \in Nat
    BY <1>1, <1>2, FS_Subset, FS_CardinalityType
<1>4. ended = 1..spawned
  <2>1. Cardinality(ended) = Cardinality(1..spawned)
      BY <1>1, <1>2, <1>3
  <2> QED
      BY <1>1, <1>2, <2>1, FS_Subset
<1>5. \A p \in Dist!Places : Dist!Held[p] = {}
    BY <1>4 DEF Dist!DistInv, Dist!TasksInv
<1>6. PendingIn(Dist!Held) = {}
    BY <1>5, WaitFacts DEF PendingIn
<1>7. RunningIn(Dist!Held) = {}
  <2>1. \A n \in Dist!Nodes : Dist!Held[<<"task", n>>] = {}
      BY <1>5, PlaceFacts
  <2> QED
      BY <2>1 DEF RunningIn
<1> QED
    BY <1>5, <1>6, <1>7, PoolIs

\* No task is twice in one pool or one batch.
Once(pools, boxes) ==
    \A n \in Dist!Nodes : /\ Dist!IsInjective(pools[n])
                          /\ \A i \in DOMAIN boxes[n] : boxes[n][i].type = "work"
                                => Dist!IsInjective(boxes[n][i].batch)

LEMMA TasksInvIs ==
    /\ Dist!TasksInv <=>
          /\ Disjoint(Dist!Held, (1..spawned) \ ended) /\ Once(local, inbox)
          /\ \A n \in Dist!Nodes : task[n] # 0 <=> at[n] \in {"run", "panicked"}
    /\ Dist!TasksInv' <=>
          /\ Disjoint(Dist!Held', (1..spawned') \ ended') /\ Once(local', inbox')
          /\ \A n \in Dist!Nodes : task'[n] # 0 <=> at'[n] \in {"run", "panicked"}
BY DEF Dist!TasksInv, Disjoint, Once

\* A place that is not touched.
LEMMA HeldSame ==
    /\ \A n \in Dist!Nodes : local'[n] = local[n] =>
          Dist!Held'[<<"local", n>>] = Dist!Held[<<"local", n>>]
    /\ \A n \in Dist!Nodes : Dist!BatchesIn(inbox'[n]) = Dist!BatchesIn(inbox[n])
          => Dist!Held'[<<"mail", n>>] = Dist!Held[<<"mail", n>>]
    /\ \A n \in Dist!Nodes : task'[n] = task[n] =>
          Dist!Held'[<<"task", n>>] = Dist!Held[<<"task", n>>]
    /\ lost' = lost => Dist!Held'[<<"lost", 0>>] = Dist!Held[<<"lost", 0>>]
<1>1. ASSUME NEW n \in Dist!Nodes, local'[n] = local[n]
      PROVE  Dist!Held'[<<"local", n>>] = Dist!Held[<<"local", n>>]
  <2>1. /\ Dist!Held'[<<"local", n>>] = Dist!ToSet(local'[n])
        /\ Dist!Held[<<"local", n>>] = Dist!ToSet(local[n])
      BY HeldIs
  <2> QED
      BY <1>1, <2>1
<1>2. ASSUME NEW n \in Dist!Nodes,
             Dist!BatchesIn(inbox'[n]) = Dist!BatchesIn(inbox[n])
      PROVE  Dist!Held'[<<"mail", n>>] = Dist!Held[<<"mail", n>>]
  <2>1. /\ Dist!Held'[<<"mail", n>>] = Dist!BatchesIn(inbox'[n])
        /\ Dist!Held[<<"mail", n>>] = Dist!BatchesIn(inbox[n])
      BY HeldIs
  <2> QED
      BY <1>2, <2>1
<1>3. ASSUME NEW n \in Dist!Nodes, task'[n] = task[n]
      PROVE  Dist!Held'[<<"task", n>>] = Dist!Held[<<"task", n>>]
  <2>1. /\ Dist!Held'[<<"task", n>>] = {task'[n]} \ {0}
        /\ Dist!Held[<<"task", n>>] = {task[n]} \ {0}
      BY HeldIs
  <2> QED
      BY <1>3, <2>1
<1>4. lost' = lost => Dist!Held'[<<"lost", 0>>] = Dist!Held[<<"lost", 0>>]
    BY HeldIs
<1> QED
    BY <1>1, <1>2, <1>3, <1>4

\* Most steps leave the tasks where they are.
LEMMA Quiet ==
    ASSUME Dist!TasksInv, UNCHANGED <<local, task, spawned, ended, lost>>,
           Once(local', inbox'),
           \A n \in Dist!Nodes :
              /\ Dist!BatchesIn(inbox'[n]) = Dist!BatchesIn(inbox[n])
              /\ task[n] # 0 <=> at'[n] \in {"run", "panicked"}
    PROVE  /\ Dist!TasksInv'
           /\ Dist!Pending' = Dist!Pending /\ Dist!Running' = Dist!Running
<1>1. \A p \in Dist!Places : Dist!Held'[p] = Dist!Held[p]
  <2>1. \A n \in Dist!Nodes : Dist!Held'[<<"local", n>>] = Dist!Held[<<"local", n>>]
      BY HeldIs
  <2>2. \A n \in Dist!Nodes : Dist!Held'[<<"mail", n>>] = Dist!Held[<<"mail", n>>]
      BY HeldIs
  <2>3. \A n \in Dist!Nodes : Dist!Held'[<<"task", n>>] = Dist!Held[<<"task", n>>]
      BY HeldIs
  <2>4. Dist!Held'[<<"lost", 0>>] = Dist!Held[<<"lost", 0>>]
      BY HeldIs
  <2> QED
      BY <2>1, <2>2, <2>3, <2>4, PlaceFacts
<1>2. Disjoint(Dist!Held', (1..spawned') \ ended')
  <2>1. Disjoint(Dist!Held, (1..spawned) \ ended)
      BY TasksInvIs
  <2> QED
      BY <1>1, <2>1 DEF Disjoint
<1>3. Dist!TasksInv'
    BY <1>2, TasksInvIs
<1>4. PendingIn(Dist!Held') = PendingIn(Dist!Held)
    BY <1>1, WaitFacts DEF PendingIn
<1>5. RunningIn(Dist!Held') = RunningIn(Dist!Held)
    BY <1>1, PlaceFacts DEF RunningIn
<1> QED
    BY <1>3, <1>4, <1>5, PoolIs

\* A node that answers hands its batch over to the one who asked.
LEMMA AnswerStep ==
    ASSUME Dist!DistInv, NEW n \in Dist!Nodes, Dist!Answer(n)
    PROVE  /\ Dist!TasksInv'
           /\ Dist!Pending' = Dist!Pending /\ Dist!Running' = Dist!Running
<1> DEFINE batch == Batch(local[n])
           alive == (1..spawned) \ ended
<1>0. /\ Dist!DistTypeOK /\ Dist!MailInv /\ Dist!TasksInv /\ Dist!CountInv
    BY DEF Dist!DistInv
<1>1. PICK to \in Dist!Nodes : to = Dist!Next1(n).from
    BY <1>0, AnswerIs
<1>2. /\ to # n /\ inbox[n][1] = Dist!Request(to)
      /\ local'[n] = Rest(local[n]) /\ inbox'[n] = Tail(inbox[n])
      /\ inbox'[to] = IF Dist!Gone(to) THEN inbox[to]
                      ELSE Append(inbox[to], Dist!Work(batch))
      /\ \A m \in Dist!Nodes \ {n} : local'[m] = local[m]
      /\ \A m \in Dist!Nodes \ {n, to} : inbox'[m] = inbox[m]
    BY <1>0, <1>1, AnswerMoves
<1>3. /\ inbox[n] # <<>> /\ Dist!Next1(n).type = "request"
      /\ lost' = IF at[to] = "panicked"
                 THEN lost \cup Dist!ToSet(batch) ELSE lost
      /\ UNCHANGED <<waiting, outstanding, at, task, spawned, ended>>
    BY <1>0, <1>1, AnswerIs
<1>4. /\ \A m \in Dist!Nodes : inbox[m] \in Seq(Dist!Messages)
      /\ local[n] \in Seq(Dist!Tasks)
    BY <1>0 DEF Dist!DistTypeOK
<1>5. /\ Disjoint(Dist!Held, alive) /\ Once(local, inbox)
      /\ \A m \in Dist!Nodes : task[m] # 0 <=> at[m] \in {"run", "panicked"}
    BY <1>0, TasksInvIs
<1>6. /\ batch \in Seq(Dist!Tasks)
      /\ Dist!ToSet(local[n]) = Dist!ToSet(Rest(local[n])) \cup Dist!ToSet(batch)
      /\ Dist!IsInjective(Rest(local[n])) /\ Dist!IsInjective(batch)
      /\ Dist!ToSet(Rest(local[n])) \cap Dist!ToSet(batch) = {}
    BY <1>4, <1>5, GiveFacts DEF Once
<1> HIDE DEF batch, alive
<1>7. Dist!ToSet(local'[n]) = Dist!ToSet(local[n]) \ Dist!ToSet(batch)
    BY <1>2, <1>6
<1>8. Dist!BatchesIn(inbox'[n]) = Dist!BatchesIn(inbox[n])
    BY <1>2, <1>3, <1>4, TailBatches DEF Dist!Next1
<1>9. Once(local', inbox')
  <2>1. \A m \in Dist!Nodes : Dist!IsInjective(local'[m])
      BY <1>2, <1>5, <1>6 DEF Once
  <2>2. ASSUME NEW i \in DOMAIN inbox'[n], inbox'[n][i].type = "work"
        PROVE  Dist!IsInjective(inbox'[n][i].batch)
    <3>1. i + 1 \in DOMAIN inbox[n] /\ inbox'[n][i] = inbox[n][i + 1]
        BY <1>2, <1>3, <1>4, <2>2, BoxTail
    <3> QED
        BY <2>2, <3>1, <1>5 DEF Once
  <2>3. ASSUME NEW i \in DOMAIN inbox'[to], inbox'[to][i].type = "work"
        PROVE  Dist!IsInjective(inbox'[to][i].batch)
    <3>1. CASE Dist!Gone(to)
        BY <1>2, <1>5, <2>3, <3>1 DEF Once
    <3>2. CASE ~Dist!Gone(to)
      <4>1. /\ inbox'[to] = Append(inbox[to], Dist!Work(batch))
            /\ Dist!Work(batch) \in Dist!Messages /\ Dist!Work(batch).batch = batch
          BY <1>2, <1>6, <3>2, MessageFacts
      <4>2. \/ i \in DOMAIN inbox[to] /\ inbox'[to][i] = inbox[to][i]
            \/ inbox'[to][i] = Dist!Work(batch)
          BY <1>4, <2>3, <4>1, BoxAppend
      <4> QED
          BY <1>5, <1>6, <2>3, <4>1, <4>2 DEF Once
    <3> QED
        BY <3>1, <3>2
  <2>4. ASSUME NEW m \in Dist!Nodes \ {n, to},
               NEW i \in DOMAIN inbox'[m], inbox'[m][i].type = "work"
        PROVE  Dist!IsInjective(inbox'[m][i].batch)
      BY <1>2, <1>5, <2>4 DEF Once
  <2> QED
      BY <2>1, <2>2, <2>3, <2>4 DEF Once
<1>10. \A r \in Dist!Places \ {<<"local", n>>, <<"mail", to>>, <<"lost", 0>>} :
          Dist!Held'[r] = Dist!Held[r]
  <2>1. \A m \in Dist!Nodes \ {n} :
            Dist!Held'[<<"local", m>>] = Dist!Held[<<"local", m>>]
      BY <1>2, HeldSame
  <2>2. \A m \in Dist!Nodes \ {to} :
            Dist!Held'[<<"mail", m>>] = Dist!Held[<<"mail", m>>]
    <3>1. \A m \in Dist!Nodes \ {to} :
              Dist!BatchesIn(inbox'[m]) = Dist!BatchesIn(inbox[m])
        BY <1>2, <1>8
    <3> QED
        BY <3>1, HeldSame
  <2>3. \A m \in Dist!Nodes : Dist!Held'[<<"task", m>>] = Dist!Held[<<"task", m>>]
      BY <1>3, HeldSame
  <2> QED
      BY <2>1, <2>2, <2>3, PlaceFacts
<1>11. /\ Dist!Held'[<<"local", n>>] = Dist!Held[<<"local", n>>] \ Dist!ToSet(batch)
       /\ Dist!ToSet(batch) \subseteq Dist!Held[<<"local", n>>]
  <2>1. /\ Dist!Held'[<<"local", n>>] = Dist!ToSet(local'[n])
        /\ Dist!Held[<<"local", n>>] = Dist!ToSet(local[n])
      BY HeldIs
  <2> QED
      BY <1>6, <1>7, <2>1
<1>12. CASE ~Dist!Gone(to)
  <2>1. Dist!Held'[<<"mail", to>>] = Dist!Held[<<"mail", to>>] \cup Dist!ToSet(batch)
    <3>1. Dist!BatchesIn(inbox'[to]) =
              Dist!BatchesIn(inbox[to]) \cup Dist!ToSet(batch)
        BY <1>2, <1>4, <1>6, <1>12, AppendBatches
    <3>2. /\ Dist!Held'[<<"mail", to>>] = Dist!BatchesIn(inbox'[to])
          /\ Dist!Held[<<"mail", to>>] = Dist!BatchesIn(inbox[to])
        BY HeldIs
    <3> QED
        BY <3>1, <3>2
  <2>2. Dist!Held'[<<"lost", 0>>] = Dist!Held[<<"lost", 0>>]
      BY <1>3, <1>12, HeldSame DEF Dist!Gone
  <2>3. \A r \in Dist!Places \ {<<"local", n>>, <<"mail", to>>} :
            Dist!Held'[r] = Dist!Held[r]
      BY <1>10, <2>2
  <2>4. /\ <<"local", n>> # <<"mail", to>>
        /\ <<"local", n>> \in Dist!Places /\ <<"mail", to>> \in Dist!Places
      BY PlaceFacts
  <2>5. Disjoint(Dist!Held', alive)
      BY <1>5, <1>11, <2>1, <2>3, <2>4, Moved
  <2>6. /\ PendingIn(Dist!Held') = PendingIn(Dist!Held)
        /\ RunningIn(Dist!Held') = RunningIn(Dist!Held)
      BY <1>11, <2>1, <2>3, WaitFacts, StillPending
  <2> QED
      BY <1>3, <1>5, <1>9, <2>5, <2>6, TasksInvIs, PoolIs DEF alive
<1>13. CASE at[to] = "panicked"
  <2>1. Dist!Held'[<<"lost", 0>>] = Dist!Held[<<"lost", 0>>] \cup Dist!ToSet(batch)
      BY <1>3, <1>13, HeldIs
  <2>2. Dist!Held'[<<"mail", to>>] = Dist!Held[<<"mail", to>>]
      BY <1>2, <1>13, HeldSame DEF Dist!Gone
  <2>3. \A r \in Dist!Places \ {<<"local", n>>, <<"lost", 0>>} :
            Dist!Held'[r] = Dist!Held[r]
      BY <1>10, <2>2
  <2>4. /\ <<"local", n>> # <<"lost", 0>>
        /\ <<"local", n>> \in Dist!Places /\ <<"lost", 0>> \in Dist!Places
      BY PlaceFacts
  <2>5. Disjoint(Dist!Held', alive)
      BY <1>5, <1>11, <2>1, <2>3, <2>4, Moved
  <2>6. /\ PendingIn(Dist!Held') = PendingIn(Dist!Held)
        /\ RunningIn(Dist!Held') = RunningIn(Dist!Held)
      BY <1>11, <2>1, <2>3, WaitFacts, StillPending
  <2> QED
      BY <1>3, <1>5, <1>9, <2>5, <2>6, TasksInvIs, PoolIs DEF alive
<1>14. CASE at[to] = "left"
  <2>1. \A p \in Dist!Places : Dist!Held[p] = {}
      BY <1>0, <1>14, NothingLeft DEF Dist!CountInv
  <2>2. Dist!Held'[<<"mail", to>>] = Dist!Held[<<"mail", to>>]
      BY <1>2, <1>14, HeldSame DEF Dist!Gone
  <2>3. Dist!Held'[<<"lost", 0>>] = Dist!Held[<<"lost", 0>>]
      BY <1>3, <1>14, HeldSame
  <2>4. Dist!Held'[<<"local", n>>] = Dist!Held[<<"local", n>>]
      BY <1>11, <2>1, PlaceFacts
  <2>5. \A r \in Dist!Places : Dist!Held'[r] = Dist!Held[r]
      BY <1>10, <2>2, <2>3, <2>4
  <2>6. Disjoint(Dist!Held', alive)
      BY <1>5, <2>5 DEF Disjoint
  <2>7. PendingIn(Dist!Held') = PendingIn(Dist!Held)
      BY <2>5, WaitFacts DEF PendingIn
  <2>8. RunningIn(Dist!Held') = RunningIn(Dist!Held)
      BY <2>5, PlaceFacts DEF RunningIn
  <2> QED
      BY <1>3, <1>5, <1>9, <2>6, <2>7, <2>8, TasksInvIs, PoolIs DEF alive
<1> QED
    BY <1>12, <1>13, <1>14 DEF Dist!Gone

\* A node that receives an answer puts its batch into the pool.
LEMMA AbsorbStep ==
    ASSUME Dist!DistInv, NEW n \in Dist!Nodes, Dist!Absorb(n)
    PROVE  /\ Dist!TasksInv'
           /\ Dist!Pending' = Dist!Pending /\ Dist!Running' = Dist!Running
<1> DEFINE batch == Dist!Next1(n).batch
           alive == (1..spawned) \ ended
<1>0. /\ Dist!DistTypeOK /\ Dist!MailInv /\ Dist!TasksInv
    BY DEF Dist!DistInv
<1>1. /\ inbox[n] # <<>> /\ Dist!Next1(n).type = "work"
      /\ local' = [local EXCEPT ![n] = @ \o batch]
      /\ inbox' = [inbox EXCEPT ![n] = Tail(@)]
      /\ UNCHANGED <<outstanding, at, task, spawned, ended, lost>>
    BY DEF Dist!Absorb
<1>2. /\ inbox[n] \in Seq(Dist!Messages) /\ local[n] \in Seq(Dist!Tasks)
      /\ batch \in Seq(Dist!Tasks)
    BY <1>0, <1>1, NextFacts DEF Dist!DistTypeOK
<1>3. /\ Disjoint(Dist!Held, alive) /\ Once(local, inbox)
      /\ \A m \in Dist!Nodes : task[m] # 0 <=> at[m] \in {"run", "panicked"}
    BY <1>0, TasksInvIs
<1> HIDE DEF batch, alive
<1>4. /\ local'[n] = local[n] \o batch /\ inbox'[n] = Tail(inbox[n])
      /\ \A m \in Dist!Nodes \ {n} : local'[m] = local[m] /\ inbox'[m] = inbox[m]
    BY <1>0, <1>1 DEF Dist!DistTypeOK
<1>5. Dist!BatchesIn(inbox[n]) = Dist!ToSet(batch) /\ Dist!BatchesIn(inbox'[n]) = {}
    BY <1>0, <1>1, <1>2, <1>4, TailBatches, OneAnswer DEF Dist!Next1, batch
<1>6. /\ Dist!Held[<<"local", n>>] = Dist!ToSet(local[n])
      /\ Dist!Held'[<<"local", n>>] = Dist!ToSet(local'[n])
      /\ Dist!Held[<<"mail", n>>] = Dist!ToSet(batch)
      /\ Dist!Held'[<<"mail", n>>] = {}
    BY <1>5, HeldIs
<1>7. /\ <<"local", n>> # <<"mail", n>>
      /\ <<"local", n>> \in Dist!Places /\ <<"mail", n>> \in Dist!Places
    BY PlaceFacts
<1>8. Dist!ToSet(local[n]) \cap Dist!ToSet(batch) = {}
    BY <1>3, <1>6, <1>7 DEF Disjoint
<1>9. Dist!IsInjective(batch)
  <2>1. 1 \in DOMAIN inbox[n] /\ Head(inbox[n]) = inbox[n][1]
      BY <1>1, <1>2, BoxTail
  <2> QED
      BY <1>1, <1>3, <2>1 DEF Once, Dist!Next1, batch
<1>10. /\ Dist!ToSet(local'[n]) = Dist!ToSet(local[n]) \cup Dist!ToSet(batch)
       /\ Dist!IsInjective(local'[n])
    BY <1>2, <1>3, <1>4, <1>8, <1>9, JoinFacts DEF Once
<1>11. Once(local', inbox')
  <2>1. \A m \in Dist!Nodes : Dist!IsInjective(local'[m])
      BY <1>3, <1>4, <1>10 DEF Once
  <2>2. ASSUME NEW m \in Dist!Nodes,
               NEW i \in DOMAIN inbox'[m], inbox'[m][i].type = "work"
        PROVE  Dist!IsInjective(inbox'[m][i].batch)
    <3>1. CASE m = n
      <4>1. i \in DOMAIN Tail(inbox[n]) /\ inbox'[m] = Tail(inbox[n])
          BY <1>4, <3>1
      <4>2. i + 1 \in DOMAIN inbox[n] /\ Tail(inbox[n])[i] = inbox[n][i + 1]
          BY <1>1, <1>2, <4>1, BoxTail
      <4>3. inbox[n][i + 1].type = "work" /\ inbox'[m][i] = inbox[n][i + 1]
          BY <2>2, <4>1, <4>2
      <4> QED
          BY <1>3, <4>2, <4>3 DEF Once
    <3>2. CASE m # n
        BY <1>3, <1>4, <2>2, <3>2 DEF Once
    <3> QED
        BY <3>1, <3>2
  <2> QED
      BY <2>1, <2>2 DEF Once
<1>12. \A r \in Dist!Places \ {<<"mail", n>>, <<"local", n>>} :
          Dist!Held'[r] = Dist!Held[r]
  <2>1. \A m \in Dist!Nodes \ {n} :
            /\ Dist!Held'[<<"local", m>>] = Dist!Held[<<"local", m>>]
            /\ Dist!Held'[<<"mail", m>>] = Dist!Held[<<"mail", m>>]
      BY <1>4, HeldSame
  <2>2. \A m \in Dist!Nodes : Dist!Held'[<<"task", m>>] = Dist!Held[<<"task", m>>]
      BY <1>1, HeldSame
  <2>3. Dist!Held'[<<"lost", 0>>] = Dist!Held[<<"lost", 0>>]
      BY <1>1, HeldSame
  <2>4. ASSUME NEW r \in Dist!Places \ {<<"mail", n>>, <<"local", n>>}
        PROVE  Dist!Held'[r] = Dist!Held[r]
    <3>1. \/ \E m \in Dist!Nodes \ {n} : r = <<"local", m>> \/ r = <<"mail", m>>
          \/ \E m \in Dist!Nodes : r = <<"task", m>>
          \/ r = <<"lost", 0>>
        BY PlaceFacts
    <3> QED
        BY <2>1, <2>2, <2>3, <3>1
  <2> QED
      BY <2>4
<1>13. /\ Dist!ToSet(batch) \subseteq Dist!Held[<<"mail", n>>]
       /\ Dist!Held'[<<"mail", n>>] = Dist!Held[<<"mail", n>>] \ Dist!ToSet(batch)
       /\ Dist!Held'[<<"local", n>>] =
             Dist!Held[<<"local", n>>] \cup Dist!ToSet(batch)
    BY <1>6, <1>10
<1>14. Disjoint(Dist!Held', alive)
    BY <1>3, <1>7, <1>12, <1>13, Moved
<1>15. /\ PendingIn(Dist!Held') = PendingIn(Dist!Held)
       /\ RunningIn(Dist!Held') = RunningIn(Dist!Held)
    BY <1>12, <1>13, WaitFacts, StillPending
<1> QED
    BY <1>1, <1>3, <1>11, <1>14, <1>15, TasksInvIs, PoolIs DEF alive

\* A node that looks for work, or asks for some, leaves the tasks in place.
LEMMA IdleStep ==
    ASSUME Dist!DistInv, NEW n \in Dist!Nodes,
           Dist!DrainEnds(n) \/ Dist!Starve(n) \/ Dist!Ask(n)
    PROVE  /\ Dist!TasksInv'
           /\ Dist!Pending' = Dist!Pending /\ Dist!Running' = Dist!Running
<1>0. /\ Dist!DistTypeOK /\ Dist!TasksInv
      /\ at \in [Dist!Nodes -> Settings]
    BY DEF Dist!DistInv, Dist!DistTypeOK, Settings
<1>1. /\ UNCHANGED <<local, outstanding, task, spawned, ended, lost>>
      /\ at[n] \notin {"run", "panicked"}
      /\ \E label \in {"drain", "work", "ask"} : at' = [at EXCEPT ![n] = label]
    BY DEF Dist!DrainEnds, Dist!Starve, Dist!Ask, Dist!Goto
<1>2. \A m \in Dist!Nodes : at'[m] \in {"run", "panicked"} <=>
                               at[m] \in {"run", "panicked"}
    BY <1>0, <1>1
<1>3. \/ inbox' = inbox
      \/ \E v \in Dist!Nodes :
            inbox' = [inbox EXCEPT ![v] = Append(@, Dist!Request(n))]
    BY DEF Dist!DrainEnds, Dist!Starve, Dist!Ask
<1>4. Once(local, inbox)
    BY <1>0, TasksInvIs
<1>5. /\ Once(local', inbox')
      /\ \A m \in Dist!Nodes : Dist!BatchesIn(inbox'[m]) = Dist!BatchesIn(inbox[m])
  <2>1. CASE inbox' = inbox
      BY <1>1, <1>4, <2>1
  <2>2. ASSUME NEW v \in Dist!Nodes,
               inbox' = [inbox EXCEPT ![v] = Append(@, Dist!Request(n))]
        PROVE  /\ Once(local', inbox')
               /\ \A m \in Dist!Nodes :
                     Dist!BatchesIn(inbox'[m]) = Dist!BatchesIn(inbox[m])
    <3>1. /\ inbox[v] \in Seq(Dist!Messages)
          /\ inbox'[v] = Append(inbox[v], Dist!Request(n))
          /\ \A m \in Dist!Nodes \ {v} : inbox'[m] = inbox[m]
        BY <1>0, <2>2 DEF Dist!DistTypeOK
    <3>2. \A i \in DOMAIN inbox'[v] :
              inbox'[v][i].type = "work" =>
                 i \in DOMAIN inbox[v] /\ inbox'[v][i] = inbox[v][i]
      <4>1. /\ Dist!Request(n) \in Dist!Messages
            /\ Dist!Request(n).type = "request"
          BY MessageFacts
      <4>2. \A i \in DOMAIN inbox'[v] :
                \/ i \in DOMAIN inbox[v] /\ inbox'[v][i] = inbox[v][i]
                \/ inbox'[v][i] = Dist!Request(n)
          BY <3>1, <4>1, BoxAppend
      <4> QED
          BY <4>1, <4>2
    <3>3. Once(local', inbox')
        BY <1>1, <1>4, <3>1, <3>2 DEF Once
    <3>4. Dist!BatchesIn(inbox'[v]) = Dist!BatchesIn(inbox[v])
        BY <3>1, AppendBatches
    <3> QED
        BY <3>1, <3>3, <3>4
  <2> QED
      BY <1>3, <2>1, <2>2
<1>6. \A m \in Dist!Nodes : task[m] # 0 <=> at'[m] \in {"run", "panicked"}
    BY <1>0, <1>2, TasksInvIs
<1> QED
    BY <1>0, <1>1, <1>5, <1>6, Quiet

\* A task that a node takes from its pool to run, ...
LEMMA Begun ==
    ASSUME NEW held, NEW next, NEW alive, Disjoint(held, alive),
           NEW p \in Waits, NEW n \in Dist!Nodes, NEW t \in held[p],
           next[p] = held[p] \ {t},
           next[<<"task", n>>] = held[<<"task", n>>] \cup {t},
           \A r \in Dist!Places \ {p, <<"task", n>>} : next[r] = held[r]
    PROVE  /\ t \in PendingIn(held) /\ PendingIn(next) = PendingIn(held) \ {t}
           /\ RunningIn(next) = RunningIn(held) \cup {t}
<1>1. /\ p \in Dist!Places /\ <<"task", n>> \notin Waits
      /\ \A r \in Waits : r \in Dist!Places
      /\ \A m \in Dist!Nodes : /\ <<"task", m>> \in Dist!Places
                               /\ <<"task", m>> # p
    BY WaitFacts, PlaceFacts
<1>2. \A r \in Waits \ {p} : next[r] = held[r] /\ t \notin held[r]
    BY <1>1 DEF Disjoint
<1>3. PendingIn(next) = PendingIn(held) \ {t}
    BY <1>2 DEF PendingIn
<1>4. \A m \in Dist!Nodes \ {n} : next[<<"task", m>>] = held[<<"task", m>>]
    BY <1>1
<1>5. RunningIn(next) = RunningIn(held) \cup {t}
    BY <1>4 DEF RunningIn
<1> QED
    BY <1>3, <1>5 DEF PendingIn

\* ... that it adds to it, ...
LEMMA Spawned ==
    ASSUME NEW held, NEW next, NEW p \in Waits, NEW t,
           next[p] = held[p] \cup {t},
           \A r \in Dist!Places \ {p} : next[r] = held[r]
    PROVE  /\ PendingIn(next) = PendingIn(held) \cup {t}
           /\ RunningIn(next) = RunningIn(held)
<1>1. /\ \A r \in Waits : r \in Dist!Places
      /\ \A m \in Dist!Nodes : /\ <<"task", m>> \in Dist!Places
                               /\ <<"task", m>> # p
    BY WaitFacts, PlaceFacts
<1>2. \A r \in Waits \ {p} : next[r] = held[r]
    BY <1>1
<1>3. PendingIn(next) = PendingIn(held) \cup {t}
    BY <1>2 DEF PendingIn
<1>4. RunningIn(next) = RunningIn(held)
    BY <1>1 DEF RunningIn
<1> QED
    BY <1>3, <1>4

\* ... and that it has run.
LEMMA Ended ==
    ASSUME NEW held, NEW next, NEW alive, Disjoint(held, alive),
           NEW n \in Dist!Nodes, NEW t \in held[<<"task", n>>],
           next[<<"task", n>>] = held[<<"task", n>>] \ {t},
           \A r \in Dist!Places \ {<<"task", n>>} : next[r] = held[r]
    PROVE  /\ PendingIn(next) = PendingIn(held)
           /\ t \in RunningIn(held) /\ RunningIn(next) = RunningIn(held) \ {t}
<1>1. /\ \A r \in Waits : r \in Dist!Places /\ r # <<"task", n>>
      /\ \A m \in Dist!Nodes : <<"task", m>> \in Dist!Places
    BY WaitFacts, PlaceFacts
<1>2. PendingIn(next) = PendingIn(held)
    BY <1>1 DEF PendingIn
<1>3. \A m \in Dist!Nodes \ {n} : /\ next[<<"task", m>>] = held[<<"task", m>>]
                                  /\ t \notin held[<<"task", m>>]
  <2> TAKE m \in Dist!Nodes \ {n}
  <2>1. <<"task", m>> # <<"task", n>>
      OBVIOUS
  <2> QED
      BY <1>1, <2>1 DEF Disjoint
<1>4. RunningIn(next) = RunningIn(held) \ {t}
    BY <1>3 DEF RunningIn
<1> QED
    BY <1>2, <1>4 DEF RunningIn

\* A node that starts a task.
LEMMA RunTaskStep ==
    ASSUME Dist!DistInv, NEW n \in Dist!Nodes, Dist!RunTask(n)
    PROVE  /\ Dist!TasksInv'
           /\ \E t \in Dist!Tasks :
                 /\ t \in Dist!Pending /\ Dist!Pending' = Dist!Pending \ {t}
                 /\ Dist!Running' = Dist!Running \cup {t}
<1> DEFINE t == Dist!Last(local[n])
           alive == (1..spawned) \ ended
<1>0. /\ Dist!DistTypeOK /\ Dist!TasksInv /\ at \in [Dist!Nodes -> Settings]
    BY DEF Dist!DistInv, Dist!DistTypeOK, Settings
<1>1. /\ at[n] = "work" /\ local[n] # <<>>
      /\ task' = [task EXCEPT ![n] = t]
      /\ local' = [local EXCEPT ![n] = Dist!Front(@)]
      /\ at' = [at EXCEPT ![n] = "run"]
      /\ UNCHANGED <<inbox, waiting, outstanding, spawned, ended, lost>>
    BY DEF Dist!RunTask, Dist!Goto
<1>2. local[n] \in Seq(Dist!Tasks)
    BY <1>0 DEF Dist!DistTypeOK
<1>3. /\ Disjoint(Dist!Held, alive) /\ Once(local, inbox)
      /\ \A m \in Dist!Nodes : task[m] # 0 <=> at[m] \in {"run", "panicked"}
    BY <1>0, TasksInvIs
<1>4. /\ t \in Dist!ToSet(local[n]) /\ t \in Dist!Tasks /\ t # 0
      /\ Dist!IsInjective(Dist!Front(local[n]))
      /\ Dist!ToSet(Dist!Front(local[n])) = Dist!ToSet(local[n]) \ {t}
  <2>1. Dist!ToSet(local[n]) \subseteq Dist!Tasks
      BY <1>2 DEF Dist!ToSet
  <2> QED
      BY <1>1, <1>2, <1>3, <2>1, LastFacts, NodeFacts DEF Once
<1> HIDE DEF t, alive
<1>5. /\ local'[n] = Dist!Front(local[n]) /\ task'[n] = t /\ task[n] = 0
      /\ at'[n] = "run"
      /\ \A m \in Dist!Nodes \ {n} : /\ local'[m] = local[m] /\ task'[m] = task[m]
                                     /\ at'[m] = at[m]
    BY <1>0, <1>1, <1>3 DEF Dist!DistTypeOK
<1>6. /\ Dist!Held[<<"local", n>>] = Dist!ToSet(local[n])
      /\ Dist!Held'[<<"local", n>>] = Dist!ToSet(local'[n])
      /\ Dist!Held[<<"task", n>>] = {}
      /\ Dist!Held'[<<"task", n>>] = {t}
  <2>1. /\ Dist!Held[<<"local", n>>] = Dist!ToSet(local[n])
        /\ Dist!Held'[<<"local", n>>] = Dist!ToSet(local'[n])
      BY HeldIs
  <2>2. /\ Dist!Held[<<"task", n>>] = {task[n]} \ {0}
        /\ Dist!Held'[<<"task", n>>] = {task'[n]} \ {0}
      BY HeldIs
  <2> QED
      BY <1>4, <1>5, <2>1, <2>2
<1>7. /\ <<"local", n>> # <<"task", n>> /\ <<"local", n>> \in Waits
      /\ <<"local", n>> \in Dist!Places /\ <<"task", n>> \in Dist!Places
    BY PlaceFacts, WaitFacts
<1>8. \A r \in Dist!Places \ {<<"local", n>>, <<"task", n>>} :
          Dist!Held'[r] = Dist!Held[r]
  <2>1. \A m \in Dist!Nodes \ {n} :
            /\ Dist!Held'[<<"local", m>>] = Dist!Held[<<"local", m>>]
            /\ Dist!Held'[<<"task", m>>] = Dist!Held[<<"task", m>>]
      BY <1>5, HeldSame
  <2>2. \A m \in Dist!Nodes : Dist!Held'[<<"mail", m>>] = Dist!Held[<<"mail", m>>]
      BY <1>1, HeldSame
  <2>3. Dist!Held'[<<"lost", 0>>] = Dist!Held[<<"lost", 0>>]
      BY <1>1, HeldSame
  <2>4. ASSUME NEW r \in Dist!Places \ {<<"local", n>>, <<"task", n>>}
        PROVE  Dist!Held'[r] = Dist!Held[r]
    <3>1. \/ \E m \in Dist!Nodes \ {n} : r = <<"local", m>> \/ r = <<"task", m>>
          \/ \E m \in Dist!Nodes : r = <<"mail", m>>
          \/ r = <<"lost", 0>>
        BY PlaceFacts
    <3> QED
        BY <2>1, <2>2, <2>3, <3>1
  <2> QED
      BY <2>4
<1>9. /\ {t} \subseteq Dist!Held[<<"local", n>>]
      /\ Dist!Held'[<<"local", n>>] = Dist!Held[<<"local", n>>] \ {t}
      /\ Dist!Held'[<<"task", n>>] = Dist!Held[<<"task", n>>] \cup {t}
    BY <1>4, <1>5, <1>6
<1>10. Disjoint(Dist!Held', alive)
  <2> DEFINE some == {t}
  <2>1. /\ some \subseteq Dist!Held[<<"local", n>>]
        /\ Dist!Held'[<<"local", n>>] = Dist!Held[<<"local", n>>] \ some
        /\ Dist!Held'[<<"task", n>>] = Dist!Held[<<"task", n>>] \cup some
      BY <1>9
  <2> HIDE DEF some
  <2> QED
      BY <1>3, <1>7, <1>8, <2>1, Moved
<1>11. /\ t \in PendingIn(Dist!Held)
       /\ PendingIn(Dist!Held') = PendingIn(Dist!Held) \ {t}
       /\ RunningIn(Dist!Held') = RunningIn(Dist!Held) \cup {t}
    BY <1>3, <1>7, <1>8, <1>9, Begun
<1>12. Once(local', inbox')
    BY <1>1, <1>3, <1>4, <1>5 DEF Once
<1>13. \A m \in Dist!Nodes : task'[m] # 0 <=> at'[m] \in {"run", "panicked"}
    BY <1>3, <1>4, <1>5
<1>14. Dist!TasksInv'
    BY <1>1, <1>10, <1>12, <1>13, TasksInvIs DEF alive
<1> QED
    BY <1>4, <1>11, <1>14, PoolIs

\* A task that spawns another.
LEMMA SpawnStep ==
    ASSUME Dist!DistInv, NEW n \in Dist!Nodes, Dist!Spawn(n)
    PROVE  /\ Dist!TasksInv'
           /\ Dist!Running # {}
           /\ \E t \in Dist!Tasks :
                 /\ t \notin Dist!Pending \cup Dist!Running \cup ended
                 /\ Dist!Pending' = Dist!Pending \cup {t}
                 /\ Dist!Running' = Dist!Running
<1> DEFINE t == spawned + 1
           alive == (1..spawned) \ ended
           more == (1..spawned') \ ended
<1>0. Dist!DistTypeOK /\ Dist!TasksInv
    BY DEF Dist!DistInv
<1>1. /\ at[n] = "run" /\ spawned < MaxTasks /\ spawned' = t
      /\ local' = [local EXCEPT ![n] = Append(@, t)]
      /\ UNCHANGED <<inbox, waiting, at, task, ended, lost>>
    BY DEF Dist!Spawn
<1>2. /\ local[n] \in Seq(Dist!Tasks) /\ spawned \in Nat /\ MaxTasks \in Nat
      /\ ended \subseteq 1..spawned
    BY <1>0, NodeFacts DEF Dist!DistTypeOK
<1>3. /\ Disjoint(Dist!Held, alive) /\ Once(local, inbox)
      /\ \A m \in Dist!Nodes : task[m] # 0 <=> at[m] \in {"run", "panicked"}
    BY <1>0, TasksInvIs
<1>4. t \in Dist!Tasks /\ t \notin alive /\ t \notin ended /\ more = alive \cup {t}
    BY <1>1, <1>2, NodeFacts
<1> HIDE DEF t, alive, more
<1>5. /\ <<t>> \in Seq(Dist!Tasks) /\ Append(local[n], t) = local[n] \o <<t>>
      /\ Dist!ToSet(<<t>>) = {t} /\ Dist!IsInjective(<<t>>)
  <2>1. <<t>> \in Seq(Dist!Tasks) /\ Append(local[n], t) = local[n] \o <<t>>
      BY <1>2, <1>4
  <2>2. DOMAIN <<t>> = {1} /\ <<t>>[1] = t
      OBVIOUS
  <2> QED
      BY <2>1, <2>2 DEF Dist!ToSet, Dist!IsInjective
<1>6. /\ local'[n] = local[n] \o <<t>>
      /\ \A m \in Dist!Nodes \ {n} : local'[m] = local[m]
    BY <1>0, <1>1, <1>5 DEF Dist!DistTypeOK
<1>7. /\ Dist!Held[<<"local", n>>] = Dist!ToSet(local[n])
      /\ Dist!Held'[<<"local", n>>] = Dist!ToSet(local'[n])
    BY HeldIs
<1>8. t \notin Dist!ToSet(local[n])
    BY ZenonT(40), <1>3, <1>4, <1>7, PlaceFacts DEF Disjoint
<1>9. /\ Dist!ToSet(local'[n]) = Dist!ToSet(local[n]) \cup {t}
      /\ Dist!IsInjective(local'[n])
  <2>1. /\ Dist!IsInjective(local[n])
        /\ Dist!ToSet(local[n]) \cap Dist!ToSet(<<t>>) = {}
      BY <1>3, <1>5, <1>8 DEF Once
  <2>2. /\ Dist!ToSet(local[n] \o <<t>>) =
              Dist!ToSet(local[n]) \cup Dist!ToSet(<<t>>)
        /\ Dist!IsInjective(local[n] \o <<t>>)
      BY ZenonT(40), <1>2, <1>5, <2>1, JoinFacts
  <2> QED
      BY <1>5, <1>6, <2>2
<1>10. \A r \in Dist!Places \ {<<"local", n>>} : Dist!Held'[r] = Dist!Held[r]
  <2>1. \A m \in Dist!Nodes \ {n} :
            Dist!Held'[<<"local", m>>] = Dist!Held[<<"local", m>>]
      BY <1>6, HeldSame
  <2>2. \A m \in Dist!Nodes :
            /\ Dist!Held'[<<"mail", m>>] = Dist!Held[<<"mail", m>>]
            /\ Dist!Held'[<<"task", m>>] = Dist!Held[<<"task", m>>]
      BY <1>1, HeldSame
  <2>3. Dist!Held'[<<"lost", 0>>] = Dist!Held[<<"lost", 0>>]
      BY <1>1, HeldSame
  <2>4. ASSUME NEW r \in Dist!Places \ {<<"local", n>>}
        PROVE  Dist!Held'[r] = Dist!Held[r]
    <3>1. \/ \E m \in Dist!Nodes \ {n} : r = <<"local", m>>
          \/ \E m \in Dist!Nodes : r = <<"mail", m>> \/ r = <<"task", m>>
          \/ r = <<"lost", 0>>
        BY PlaceFacts
    <3> QED
        BY <2>1, <2>2, <2>3, <3>1
  <2> QED
      BY <2>4
<1>11. Dist!Held'[<<"local", n>>] = Dist!Held[<<"local", n>>] \cup {t}
    BY <1>7, <1>9
<1>12. Disjoint(Dist!Held', more)
  <2>1. <<"local", n>> \in Dist!Places
      BY PlaceFacts
  <2> QED
      BY <1>3, <1>4, <1>10, <1>11, <2>1, Added
<1>13. /\ PendingIn(Dist!Held') = PendingIn(Dist!Held) \cup {t}
       /\ RunningIn(Dist!Held') = RunningIn(Dist!Held)
    BY ZenonT(40), <1>10, <1>11, WaitFacts, Spawned
<1>14. Once(local', inbox')
    BY <1>1, <1>3, <1>6, <1>9 DEF Once
<1>15. Dist!TasksInv'
    BY <1>1, <1>3, <1>12, <1>14, TasksInvIs DEF more
<1>16. t \notin PendingIn(Dist!Held) /\ t \notin RunningIn(Dist!Held)
  <2>1. \A p \in Dist!Places : t \notin Dist!Held[p]
      BY <1>3, <1>4 DEF Disjoint
  <2>2. t \notin PendingIn(Dist!Held)
      BY <2>1, WaitFacts DEF PendingIn
  <2>3. t \notin RunningIn(Dist!Held)
      BY <2>1, PlaceFacts DEF RunningIn
  <2> QED
      BY <2>2, <2>3
<1>17. Dist!Running # {}
    BY <1>0, <1>1, TaskFacts DEF Dist!Running
<1> QED
    BY <1>4, <1>13, <1>15, <1>16, <1>17, PoolIs

\* A task that has been run.
LEMMA FinishStep ==
    ASSUME Dist!DistInv, NEW n \in Dist!Nodes, Dist!FinishTask(n)
    PROVE  /\ Dist!TasksInv'
           /\ \E t \in Dist!Tasks :
                 /\ t \in Dist!Running /\ Dist!Running' = Dist!Running \ {t}
                 /\ ended' = ended \cup {t} /\ t \in (1..spawned) \ ended
                 /\ Dist!Pending' = Dist!Pending
<1> DEFINE t == task[n]
           alive == (1..spawned) \ ended
           less == (1..spawned) \ ended'
<1>0. /\ Dist!DistTypeOK /\ Dist!TasksInv /\ at \in [Dist!Nodes -> Settings]
    BY DEF Dist!DistInv, Dist!DistTypeOK, Settings
<1>1. /\ at[n] = "run" /\ ended' = ended \cup {t}
      /\ task' = [task EXCEPT ![n] = 0] /\ at' = [at EXCEPT ![n] = "drain"]
      /\ UNCHANGED <<local, inbox, waiting, spawned, lost>>
    BY DEF Dist!FinishTask, Dist!Goto
<1>2. t \in alive /\ t # 0 /\ t \in Dist!Tasks
  <2>1. t \in alive /\ t # 0
      BY <1>0, <1>1, TaskFacts
  <2> QED
      BY <1>0, <2>1 DEF Dist!DistTypeOK
<1>3. /\ Disjoint(Dist!Held, alive) /\ Once(local, inbox)
      /\ \A m \in Dist!Nodes : task[m] # 0 <=> at[m] \in {"run", "panicked"}
    BY <1>0, TasksInvIs
<1>4. less = alive \ {t}
    BY <1>1
<1>5. /\ task'[n] = 0 /\ at'[n] = "drain"
      /\ \A m \in Dist!Nodes \ {n} : task'[m] = task[m] /\ at'[m] = at[m]
    BY <1>0, <1>1 DEF Dist!DistTypeOK
<1>6. Dist!Held[<<"task", n>>] = {t} /\ Dist!Held'[<<"task", n>>] = {}
  <2>1. /\ Dist!Held[<<"task", n>>] = {task[n]} \ {0}
        /\ Dist!Held'[<<"task", n>>] = {task'[n]} \ {0}
      BY HeldIs
  <2> QED
      BY <1>2, <1>5, <2>1
<1> HIDE DEF t, alive, less
<1>7. \A r \in Dist!Places \ {<<"task", n>>} : Dist!Held'[r] = Dist!Held[r]
  <2>1. \A m \in Dist!Nodes \ {n} :
            Dist!Held'[<<"task", m>>] = Dist!Held[<<"task", m>>]
      BY <1>5, HeldSame
  <2>2. \A m \in Dist!Nodes :
            /\ Dist!Held'[<<"local", m>>] = Dist!Held[<<"local", m>>]
            /\ Dist!Held'[<<"mail", m>>] = Dist!Held[<<"mail", m>>]
      BY <1>1, HeldSame
  <2>3. Dist!Held'[<<"lost", 0>>] = Dist!Held[<<"lost", 0>>]
      BY <1>1, HeldSame
  <2>4. ASSUME NEW r \in Dist!Places \ {<<"task", n>>}
        PROVE  Dist!Held'[r] = Dist!Held[r]
    <3>1. \/ \E m \in Dist!Nodes \ {n} : r = <<"task", m>>
          \/ \E m \in Dist!Nodes : r = <<"mail", m>> \/ r = <<"local", m>>
          \/ r = <<"lost", 0>>
        BY PlaceFacts
    <3> QED
        BY <2>1, <2>2, <2>3, <3>1
  <2> QED
      BY <2>4
<1>8. /\ t \in Dist!Held[<<"task", n>>]
      /\ Dist!Held'[<<"task", n>>] = Dist!Held[<<"task", n>>] \ {t}
    BY <1>6
<1>9. Disjoint(Dist!Held', less)
    BY <1>3, <1>4, <1>7, <1>8, PlaceFacts, Removed
<1>10. /\ PendingIn(Dist!Held') = PendingIn(Dist!Held)
       /\ t \in RunningIn(Dist!Held)
       /\ RunningIn(Dist!Held') = RunningIn(Dist!Held) \ {t}
    BY <1>3, <1>7, <1>8, Ended
<1>11. Once(local', inbox')
    BY <1>1, <1>3
<1>12. \A m \in Dist!Nodes : task'[m] # 0 <=> at'[m] \in {"run", "panicked"}
    BY <1>3, <1>5
<1>13. Dist!TasksInv'
    BY <1>1, <1>9, <1>11, <1>12, TasksInvIs DEF less
<1> QED
    BY <1>1, <1>2, <1>10, <1>13, PoolIs DEF alive

\* A task that panics takes its node's pool and mailbox with it.
LEMMA PanicStep ==
    ASSUME Dist!DistInv, NEW n \in Dist!Nodes, Dist!Panic(n)
    PROVE  /\ Dist!TasksInv'
           /\ Dist!Pending' = Dist!Pending /\ Dist!Running' = Dist!Running
<1> DEFINE pool == <<"local", n>>
           mail == <<"mail", n>>
           gone == <<"lost", 0>>
           tasks == Dist!ToSet(local[n])
           batches == Dist!BatchesIn(inbox[n])
           alive == (1..spawned) \ ended
           mid == [r \in Dist!Places |->
                     CASE r = pool -> {}
                       [] r = gone -> lost \cup tasks
                       [] OTHER -> Dist!Held[r]]
<1>0. /\ Dist!DistTypeOK /\ Dist!TasksInv /\ at \in [Dist!Nodes -> Settings]
    BY DEF Dist!DistInv, Dist!DistTypeOK, Settings
<1>1. /\ at[n] = "run"
      /\ lost' = lost \cup tasks \cup batches
      /\ local' = [local EXCEPT ![n] = <<>>]
      /\ inbox' = [inbox EXCEPT ![n] = <<>>]
      /\ at' = [at EXCEPT ![n] = "panicked"]
      /\ UNCHANGED <<waiting, outstanding, task, spawned, ended>>
    BY DEF Dist!Panic, Dist!Goto
<1>2. /\ local'[n] = <<>> /\ inbox'[n] = <<>> /\ at'[n] = "panicked"
      /\ \A m \in Dist!Nodes \ {n} : /\ local'[m] = local[m] /\ inbox'[m] = inbox[m]
                                     /\ at'[m] = at[m]
    BY <1>0, <1>1 DEF Dist!DistTypeOK
<1>3. /\ Disjoint(Dist!Held, alive) /\ Once(local, inbox)
      /\ \A m \in Dist!Nodes : task[m] # 0 <=> at[m] \in {"run", "panicked"}
    BY <1>0, TasksInvIs
<1>4. /\ pool \in Waits /\ mail \in Waits /\ gone \in Waits
      /\ pool \in Dist!Places /\ mail \in Dist!Places /\ gone \in Dist!Places
      /\ pool # mail /\ pool # gone /\ mail # gone
    BY PlaceFacts, WaitFacts
<1>5. /\ Dist!Held[pool] = tasks /\ Dist!Held[mail] = batches
      /\ Dist!Held[gone] = lost
    BY HeldIs
<1>6. /\ Dist!Held'[pool] = {} /\ Dist!Held'[mail] = {}
      /\ Dist!Held'[gone] = lost \cup tasks \cup batches
  <2>1. Dist!ToSet(<<>>) = {}
      BY DEF Dist!ToSet
  <2> QED
      BY <1>1, <1>2, <2>1, HeldIs, NoBatches
<1>7. \A r \in Dist!Places \ {pool, mail, gone} : Dist!Held'[r] = Dist!Held[r]
  <2>1. \A m \in Dist!Nodes \ {n} :
            /\ Dist!Held'[<<"local", m>>] = Dist!Held[<<"local", m>>]
            /\ Dist!Held'[<<"mail", m>>] = Dist!Held[<<"mail", m>>]
      BY <1>2, HeldSame
  <2>2. \A m \in Dist!Nodes : Dist!Held'[<<"task", m>>] = Dist!Held[<<"task", m>>]
      BY <1>1, HeldSame
  <2>3. ASSUME NEW r \in Dist!Places \ {pool, mail, gone}
        PROVE  Dist!Held'[r] = Dist!Held[r]
    <3>1. \/ \E m \in Dist!Nodes \ {n} : r = <<"local", m>> \/ r = <<"mail", m>>
          \/ \E m \in Dist!Nodes : r = <<"task", m>>
        BY PlaceFacts
    <3> QED
        BY <2>1, <2>2, <3>1
  <2> QED
      BY <2>3
<1>8. /\ mid[pool] = {} /\ mid[gone] = lost \cup tasks
      /\ mid[mail] = batches
      /\ \A r \in Dist!Places \ {pool, gone} : mid[r] = Dist!Held[r]
    BY <1>4, <1>5
<1> HIDE DEF pool, mail, gone, tasks, batches, alive, mid
<1>9. /\ Disjoint(mid, alive)
      /\ PendingIn(mid) = PendingIn(Dist!Held)
      /\ RunningIn(mid) = RunningIn(Dist!Held)
  <2>1. /\ tasks \subseteq Dist!Held[pool]
        /\ mid[pool] = Dist!Held[pool] \ tasks
        /\ mid[gone] = Dist!Held[gone] \cup tasks
      BY <1>5, <1>8
  <2>2. Disjoint(mid, alive)
      BY <1>3, <1>4, <1>8, <2>1, Moved
  <2> QED
      BY <1>4, <1>8, <2>1, <2>2, StillPending
<1>10. /\ Disjoint(Dist!Held', alive)
       /\ PendingIn(Dist!Held') = PendingIn(mid)
       /\ RunningIn(Dist!Held') = RunningIn(mid)
  <2>1. /\ batches \subseteq mid[mail]
        /\ Dist!Held'[mail] = mid[mail] \ batches
        /\ Dist!Held'[gone] = mid[gone] \cup batches
      BY <1>6, <1>8
  <2>2. \A r \in Dist!Places \ {mail, gone} : Dist!Held'[r] = mid[r]
      BY <1>4, <1>6, <1>7, <1>8
  <2>3. Disjoint(Dist!Held', alive)
      BY <1>4, <1>9, <2>1, <2>2, Moved
  <2> QED
      BY <1>4, <2>1, <2>2, <2>3, StillPending
<1>11. Once(local', inbox')
  <2>1. DOMAIN <<>> = {} /\ Dist!IsInjective(<<>>)
      BY DEF Dist!IsInjective
  <2> QED
      BY <1>2, <1>3, <2>1 DEF Once
<1>12. \A m \in Dist!Nodes : task'[m] # 0 <=> at'[m] \in {"run", "panicked"}
    BY <1>1, <1>2, <1>3
<1>13. Dist!TasksInv'
    BY <1>1, <1>10, <1>11, <1>12, TasksInvIs DEF alive
<1> QED
    BY <1>9, <1>10, <1>13, PoolIs

\* A node that returns does so when there is no task anywhere.
LEMMA LeaveStep ==
    ASSUME Dist!DistInv, NEW n \in Dist!Nodes, Dist!LeaveDone(n)
    PROVE  /\ Dist!TasksInv'
           /\ Dist!Pending = {} /\ Dist!Running = {}
           /\ Dist!Pending' = Dist!Pending /\ Dist!Running' = Dist!Running
           /\ Dist!Present' = Dist!Present \ {n}
<1>0. /\ Dist!DistTypeOK /\ Dist!TasksInv /\ at \in [Dist!Nodes -> Settings]
    BY DEF Dist!DistInv, Dist!DistTypeOK, Settings
<1>1. /\ at[n] = "work" /\ outstanding = 0
      /\ inbox' = [inbox EXCEPT ![n] = <<>>]
      /\ at' = [at EXCEPT ![n] = "left"]
      /\ UNCHANGED <<local, waiting, outstanding, task, spawned, ended, lost>>
    BY DEF Dist!LeaveDone, Dist!Goto
<1>2. /\ inbox'[n] = <<>> /\ at'[n] = "left"
      /\ \A m \in Dist!Nodes \ {n} : inbox'[m] = inbox[m] /\ at'[m] = at[m]
    BY <1>0, <1>1 DEF Dist!DistTypeOK
<1>3. /\ \A p \in Dist!Places : Dist!Held[p] = {}
      /\ Dist!Pending = {} /\ Dist!Running = {}
    BY <1>1, NothingLeft
<1>4. \A m \in Dist!Nodes : Dist!BatchesIn(inbox'[m]) = Dist!BatchesIn(inbox[m])
  <2>1. Dist!BatchesIn(inbox[n]) = {}
      BY <1>3, HeldIs, PlaceFacts
  <2> QED
      BY <1>2, <2>1, NoBatches
<1>5. Once(local', inbox')
  <2>1. DOMAIN <<>> = {}
      OBVIOUS
  <2>2. Once(local, inbox)
      BY <1>0, TasksInvIs
  <2> QED
      BY <1>1, <1>2, <2>1, <2>2 DEF Once
<1>6. \A m \in Dist!Nodes : task[m] # 0 <=> at'[m] \in {"run", "panicked"}
    BY <1>0, <1>1, <1>2, TasksInvIs
<1>7. /\ Dist!TasksInv'
      /\ Dist!Pending' = Dist!Pending /\ Dist!Running' = Dist!Running
    BY <1>0, <1>1, <1>4, <1>5, <1>6, Quiet
<1>8. Dist!Present' = Dist!Present \ {n}
    BY <1>1, <1>2 DEF Dist!Present
<1> QED
    BY <1>3, <1>7, <1>8

\* Nobody else returns.
LEMMA StayStep ==
    ASSUME Dist!DistTypeOK, NEW n \in Dist!Nodes,
           Dist!Step(n) \/ Dist!Spawn(n) \/ Dist!Panic(n), ~Dist!LeaveDone(n)
    PROVE  /\ \A m \in Dist!Nodes : at'[m] = "left" <=> at[m] = "left"
           /\ Dist!Present' = Dist!Present
<1>0. at \in [Dist!Nodes -> Settings]
    BY DEF Dist!DistTypeOK, Settings
<1>1. \/ at' = at
      \/ /\ at[n] # "left"
         /\ \E label \in Settings \ {"left"} : at' = [at EXCEPT ![n] = label]
  <2>1. CASE Dist!Answer(n) \/ Dist!Absorb(n) \/ Dist!Spawn(n)
      BY <2>1 DEF Dist!Answer, Dist!Absorb, Dist!Spawn
  <2>2. CASE \/ Dist!DrainEnds(n) \/ Dist!RunTask(n) \/ Dist!FinishTask(n)
             \/ Dist!Starve(n) \/ Dist!Ask(n) \/ Dist!Panic(n)
      BY <2>2 DEF Dist!DrainEnds, Dist!RunTask, Dist!FinishTask, Dist!Starve,
                  Dist!Ask, Dist!Panic, Dist!Goto, Settings
  <2> QED
      BY <2>1, <2>2 DEF Dist!Step
<1>2. \A m \in Dist!Nodes : at'[m] = "left" <=> at[m] = "left"
    BY <1>0, <1>1
<1> QED
    BY <1>2 DEF Dist!Present

\* The count is kept, and a node that has left has seen it to be 0 for good.
LEMMA CountStep ==
    ASSUME Dist!DistInv, Dist!DistNext
    PROVE  Dist!CountInv'
<1>0. /\ Dist!DistTypeOK /\ Dist!TasksInv /\ Dist!CountInv
      /\ at \in [Dist!Nodes -> Settings]
      /\ spawned \in Nat /\ ended \subseteq 1..spawned
    BY NodeFacts DEF Dist!DistInv, Dist!DistTypeOK, Settings
<1>1. PICK n \in Dist!Nodes : Dist!Step(n) \/ Dist!Spawn(n) \/ Dist!Panic(n)
    BY DEF Dist!DistNext
<1>2. /\ outstanding = spawned - Cardinality(ended)
      /\ \A m \in Dist!Nodes : at[m] = "left" => outstanding = 0
    BY <1>0, CountsSame DEF Dist!CountInv
<1>3. IsFiniteSet(ended) /\ Cardinality(ended) \in Nat
  <2>1. IsFiniteSet(1..spawned)
      BY <1>0, FS_Interval
  <2> QED
      BY <1>0, <2>1, FS_Subset, FS_CardinalityType
<1>4. SUFFICES /\ outstanding' = spawned' - Cardinality(ended')
               /\ \A m \in Dist!Nodes : at'[m] = "left" => outstanding' = 0
    BY CountsSame DEF Dist!CountInv
<1>5. at[n] = "run" => \A m \in Dist!Nodes : at[m] # "left"
  <2> SUFFICES ASSUME at[n] = "run", NEW m \in Dist!Nodes, at[m] = "left"
               PROVE  FALSE
      OBVIOUS
  <2>1. Dist!Running = {}
      BY <1>2, NothingLeft
  <2>2. task[n] # 0
      BY <1>0, TaskFacts
  <2> QED
      BY <2>1, <2>2 DEF Dist!Running
<1>6. CASE Dist!LeaveDone(n)
    BY <1>0, <1>2, <1>6 DEF Dist!LeaveDone
<1>7. CASE ~Dist!LeaveDone(n)
  <2>0. \A m \in Dist!Nodes : at'[m] = "left" <=> at[m] = "left"
      BY <1>0, <1>1, <1>7, StayStep
  <2>1. CASE Dist!Spawn(n)
    <3>1. /\ at[n] = "run" /\ spawned' = spawned + 1
          /\ outstanding' = outstanding + 1 /\ ended' = ended
        BY <2>1 DEF Dist!Spawn
    <3> QED
        BY <1>0, <1>2, <1>3, <1>5, <2>0, <3>1
  <2>2. CASE Dist!FinishTask(n)
    <3>1. /\ at[n] = "run" /\ spawned' = spawned
          /\ outstanding' = outstanding - 1 /\ ended' = ended \cup {task[n]}
        BY <2>2 DEF Dist!FinishTask
    <3>2. task[n] \notin ended
        BY <1>0, <3>1, TaskFacts
    <3>3. Cardinality(ended') = Cardinality(ended) + 1
        BY <1>3, <3>1, <3>2, FS_AddElement
    <3> QED
        BY <1>0, <1>2, <1>3, <1>5, <2>0, <3>1, <3>3
  <2>3. CASE ~Dist!Spawn(n) /\ ~Dist!FinishTask(n)
    <3>1. UNCHANGED <<outstanding, spawned, ended>>
        BY <1>1, <1>7, <2>3
           DEF Dist!Step, Dist!Answer, Dist!Absorb, Dist!DrainEnds,
               Dist!RunTask, Dist!Starve, Dist!Ask, Dist!Panic
    <3> QED
        BY <1>2, <2>0, <3>1
  <2> QED
      BY <2>1, <2>2, <2>3
<1> QED
    BY <1>6, <1>7

\* A node that is gone does not come back.
LEMMA GoneStays ==
    ASSUME Dist!DistTypeOK, NEW n \in Dist!Nodes,
           Dist!Step(n) \/ Dist!Spawn(n) \/ Dist!Panic(n)
    PROVE  \A v \in Dist!Nodes : Dist!Gone(v) => Dist!Gone(v)'
<1>0. at \in [Dist!Nodes -> Settings]
    BY DEF Dist!DistTypeOK, Settings
<1>1. \/ at' = at
      \/ /\ at[n] \notin {"left", "panicked"}
         /\ \E label \in Settings : at' = [at EXCEPT ![n] = label]
  <2>1. CASE Dist!Answer(n) \/ Dist!Absorb(n) \/ Dist!Spawn(n)
      BY <2>1 DEF Dist!Answer, Dist!Absorb, Dist!Spawn
  <2>2. CASE \/ Dist!DrainEnds(n) \/ Dist!RunTask(n) \/ Dist!FinishTask(n)
             \/ Dist!Starve(n) \/ Dist!Ask(n) \/ Dist!Panic(n)
             \/ Dist!LeaveDone(n)
      BY <2>2 DEF Dist!DrainEnds, Dist!RunTask, Dist!FinishTask, Dist!Starve,
                  Dist!Ask, Dist!Panic, Dist!LeaveDone, Dist!Goto, Settings
  <2> QED
      BY <2>1, <2>2 DEF Dist!Step
<1> QED
    BY <1>0, <1>1 DEF Dist!Gone

\* What the mailboxes promise one node.
MailOf(n) ==
    /\ \A a, b \in Dist!Owed(n) : a = b
    /\ Dist!Owed(n) # {} => waiting[n]
    /\ (\A v \in Dist!Nodes : ~Dist!Gone(v)) /\ waiting[n] => Dist!Owed(n) # {}
    /\ at[n] = "ask" => ~waiting[n]

NotFromSelf(n) == \A i \in DOMAIN inbox[n] : inbox[n][i] # Dist!Request(n)

LEMMA MailIs ==
    /\ Dist!MailInv <=> \A n \in Dist!Nodes : NotFromSelf(n) /\ MailOf(n)
    /\ Dist!MailInv' <=> \A n \in Dist!Nodes : NotFromSelf(n)' /\ MailOf(n)'
BY DEF Dist!MailInv, MailOf, NotFromSelf

\* The promise is kept when what is owed to the node comes or goes in step with
\* whether it waits.
LEMMA MailKept ==
    ASSUME NEW m \in Dist!Nodes, MailOf(m),
           \A v \in Dist!Nodes : Dist!Gone(v) => Dist!Gone(v)',
           waiting'[m] = waiting[m],
           at'[m] = "ask" => ~waiting[m],
           (\A a, b \in Dist!Owed(m) : a = b) =>
              \A a, b \in Dist!Owed(m)' : a = b,
           Dist!Owed(m)' # {} => Dist!Owed(m) # {},
           \/ Dist!Owed(m) # {} => Dist!Owed(m)' # {}
           \/ \E v \in Dist!Nodes : Dist!Gone(v)'
    PROVE  MailOf(m)'
BY DEF MailOf

\* A message of node v's mailbox that node m waits for.
Owes(v, msg, m) == msg = Dist!Request(m) \/ (v = m /\ msg.type = "work")

LEMMA OwedHere ==
    ASSUME NEW m \in Dist!Nodes
    PROVE  /\ \A a : a \in Dist!Owed(m) <=>
                 \E v \in Dist!Nodes : \E i \in DOMAIN inbox[v] :
                    a = <<v, i>> /\ Owes(v, inbox[v][i], m)
           /\ \A a : a \in Dist!Owed(m)' <=>
                 \E v \in Dist!Nodes : \E i \in DOMAIN inbox'[v] :
                    a = <<v, i>> /\ Owes(v, inbox'[v][i], m)
BY OwedIs DEF Owes

\* Node v owes m the same as before.
SameFrom(v, m) ==
    \A i : i \in DOMAIN inbox'[v] /\ Owes(v, inbox'[v][i], m) <=>
              i \in DOMAIN inbox[v] /\ Owes(v, inbox[v][i], m)

\* Nobody owes m anything else.
LEMMA OwedSame ==
    ASSUME NEW m \in Dist!Nodes, \A v \in Dist!Nodes : SameFrom(v, m)
    PROVE  Dist!Owed(m)' = Dist!Owed(m)
BY OwedHere DEF SameFrom

\* Node n receives a message that is not owed to m.
LEMMA OwedMoves ==
    ASSUME NEW m \in Dist!Nodes, NEW n \in Dist!Nodes,
           inbox[n] \in Seq(Dist!Messages), inbox[n] # <<>>,
           inbox'[n] = Tail(inbox[n]), ~Owes(n, inbox[n][1], m),
           \A v \in Dist!Nodes \ {n} : SameFrom(v, m)
    PROVE  /\ (\A a, b \in Dist!Owed(m) : a = b) =>
                 \A a, b \in Dist!Owed(m)' : a = b
           /\ Dist!Owed(m)' # {} => Dist!Owed(m) # {}
           /\ Dist!Owed(m) # {} => Dist!Owed(m)' # {}
<1>1. /\ \A i \in DOMAIN inbox'[n] : /\ i + 1 \in DOMAIN inbox[n] /\ i \in Nat
                                     /\ inbox'[n][i] = inbox[n][i + 1]
      /\ \A i \in DOMAIN inbox[n] : i # 1 =>
            /\ i - 1 \in DOMAIN inbox'[n]
            /\ inbox'[n][i - 1] = inbox[n][i]
  <2>1. \A i \in DOMAIN Tail(inbox[n]) :
            /\ i + 1 \in DOMAIN inbox[n] /\ i \in Nat
            /\ Tail(inbox[n])[i] = inbox[n][i + 1]
      BY BoxTail
  <2>2. \A i \in DOMAIN inbox[n] : i # 1 =>
            i - 1 \in DOMAIN Tail(inbox[n]) /\ (i - 1) + 1 = i
      BY BoxTail
  <2> QED
      BY <2>1, <2>2
<1> DEFINE Up(a) == IF a[1] = n THEN <<n, a[2] + 1>> ELSE a
<1>2. ASSUME NEW a \in Dist!Owed(m)'
      PROVE  /\ Up(a) \in Dist!Owed(m)
             /\ \E v, i : a = <<v, i>> /\ (v = n => i \in Nat)
  <2>1. PICK v \in Dist!Nodes :
            \E i \in DOMAIN inbox'[v] : a = <<v, i>> /\ Owes(v, inbox'[v][i], m)
      BY <1>2, OwedHere
  <2>2. PICK i \in DOMAIN inbox'[v] : a = <<v, i>> /\ Owes(v, inbox'[v][i], m)
      BY <2>1
  <2>3. CASE v = n
    <3>1. /\ i + 1 \in DOMAIN inbox[n] /\ i \in Nat
          /\ Owes(n, inbox[n][i + 1], m)
        BY <1>1, <2>2, <2>3
    <3>2. <<n, i + 1>> \in Dist!Owed(m)
        BY <3>1, OwedHere
    <3>3. Up(a) = <<n, i + 1>>
        BY <2>2, <2>3
    <3> QED
        BY <2>2, <3>1, <3>2, <3>3
  <2>4. CASE v # n
    <3>1. i \in DOMAIN inbox[v] /\ Owes(v, inbox[v][i], m)
        BY <2>2, <2>4 DEF SameFrom
    <3>2. a \in Dist!Owed(m)
        BY <2>2, <3>1, OwedHere
    <3>3. Up(a) = a
        BY <2>2, <2>4
    <3> QED
        BY <2>2, <2>4, <3>2, <3>3
  <2> QED
      BY <2>3, <2>4
<1>3. ASSUME NEW a \in Dist!Owed(m)', NEW b \in Dist!Owed(m)', Up(a) = Up(b)
      PROVE  a = b
  <2>1. PICK v, i : a = <<v, i>> /\ (v = n => i \in Nat)
      BY <1>2
  <2>2. PICK w, j : b = <<w, j>> /\ (w = n => j \in Nat)
      BY <1>2
  <2>3. /\ Up(a) = IF v = n THEN <<n, i + 1>> ELSE <<v, i>>
        /\ Up(b) = IF w = n THEN <<n, j + 1>> ELSE <<w, j>>
      BY <2>1, <2>2
  <2>4. v = w
      BY <1>3, <2>3
  <2>5. CASE v = n
    <3>1. i + 1 = j + 1 /\ i \in Nat /\ j \in Nat
        BY <1>3, <2>1, <2>2, <2>3, <2>4, <2>5
    <3> QED
        BY <2>1, <2>2, <2>4, <3>1
  <2> QED
      BY <1>3, <2>1, <2>2, <2>3, <2>4, <2>5
<1> HIDE DEF Up
<1>4. ASSUME NEW b \in Dist!Owed(m)
      PROVE  Dist!Owed(m)' # {}
  <2>1. PICK v \in Dist!Nodes :
            \E i \in DOMAIN inbox[v] : b = <<v, i>> /\ Owes(v, inbox[v][i], m)
      BY <1>4, OwedHere
  <2>2. PICK i \in DOMAIN inbox[v] : b = <<v, i>> /\ Owes(v, inbox[v][i], m)
      BY <2>1
  <2>3. CASE v = n
    <3>1. i # 1
        BY <2>2, <2>3
    <3>2. i - 1 \in DOMAIN inbox'[n] /\ inbox'[n][i - 1] = inbox[n][i]
        BY <1>1, <2>2, <2>3, <3>1
    <3>3. PICK k \in DOMAIN inbox'[n] : inbox'[n][k] = inbox[n][i]
        BY <3>2
    <3>4. <<n, k>> \in Dist!Owed(m)'
        BY <2>2, <2>3, <3>3, OwedHere
    <3> QED
        BY <3>4
  <2>4. CASE v # n
    <3>1. i \in DOMAIN inbox'[v] /\ Owes(v, inbox'[v][i], m)
        BY <2>2, <2>4 DEF SameFrom
    <3>2. b \in Dist!Owed(m)'
        BY <2>2, <3>1, OwedHere
    <3> QED
        BY <3>2
  <2> QED
      BY <2>3, <2>4
<1> QED
    BY <1>2, <1>3, <1>4

\* What is at the head of a mailbox and owed to m is all that is owed to it.
LEMMA HeadOwed ==
    ASSUME Dist!DistTypeOK, Dist!MailInv, NEW n \in Dist!Nodes,
           NEW m \in Dist!Nodes, inbox[n] # <<>>, Owes(n, Dist!Next1(n), m)
    PROVE  /\ Dist!Owed(m) = {<<n, 1>>} /\ waiting[m]
           /\ 1 \in DOMAIN inbox[n] /\ inbox[n][1] = Dist!Next1(n)
           /\ \A v \in Dist!Nodes : \A i \in DOMAIN inbox[v] :
                 Owes(v, inbox[v][i], m) => v = n /\ i = 1
<1>1. 1 \in DOMAIN inbox[n] /\ inbox[n][1] = Dist!Next1(n)
    BY BoxTail DEF Dist!DistTypeOK, Dist!Next1
<1>2. <<n, 1>> \in Dist!Owed(m)
    BY <1>1, OwedHere
<1>3. MailOf(m)
    BY MailIs
<1>4. Dist!Owed(m) = {<<n, 1>>} /\ waiting[m]
    BY <1>2, <1>3 DEF MailOf
<1>5. ASSUME NEW v \in Dist!Nodes, NEW i \in DOMAIN inbox[v],
             Owes(v, inbox[v][i], m)
      PROVE  v = n /\ i = 1
  <2>1. <<v, i>> \in Dist!Owed(m)
      BY <1>5, OwedHere
  <2> QED
      BY <1>4, <2>1
<1> QED
    BY <1>1, <1>4, <1>5

\* Requests of two nodes are told apart, and neither brings work.
LEMMA OwesRequest ==
    ASSUME NEW n \in Dist!Nodes
    PROVE  \A v, m \in Dist!Nodes : Owes(v, Dist!Request(n), m) <=> m = n
BY MessageFacts DEF Owes

\* Work is owed to the node whose mailbox it is in.
LEMMA OwesWork ==
    ASSUME NEW b \in Seq(Dist!Tasks)
    PROVE  /\ \A v, m \in Dist!Nodes : Owes(v, Dist!Work(b), m) <=> m = v
           /\ \A m \in Dist!Nodes : Dist!Work(b) # Dist!Request(m)
BY MessageFacts DEF Owes

\* A mailbox that is not touched owes the same.
LEMMA SameBox ==
    ASSUME NEW v, NEW m, inbox'[v] = inbox[v]
    PROVE  SameFrom(v, m)
BY DEF SameFrom

\* So does one to which a message for another is sent.
LEMMA OtherSent ==
    ASSUME NEW v \in Dist!Nodes, NEW m \in Dist!Nodes,
           NEW msg \in Dist!Messages, inbox[v] \in Seq(Dist!Messages),
           inbox'[v] = Append(inbox[v], msg), ~Owes(v, msg, m)
    PROVE  SameFrom(v, m)
<1>1. /\ Len(inbox[v]) + 1 \in DOMAIN inbox'[v]
      /\ inbox'[v][Len(inbox[v]) + 1] = msg
      /\ \A i \in DOMAIN inbox[v] : /\ i \in DOMAIN inbox'[v]
                                    /\ inbox'[v][i] = inbox[v][i]
      /\ \A i \in DOMAIN inbox'[v] : i \in DOMAIN inbox[v]
                                        \/ i = Len(inbox[v]) + 1
    BY BoxAppend
<1> QED
    BY <1>1 DEF SameFrom

\* The mailbox to which something is sent that m waits for, and nothing else.
LEMMA NowOwed ==
    ASSUME NEW v \in Dist!Nodes, NEW m \in Dist!Nodes,
           NEW msg \in Dist!Messages, inbox[v] \in Seq(Dist!Messages),
           inbox'[v] = Append(inbox[v], msg), Owes(v, msg, m),
           \A i \in DOMAIN inbox[v] : ~Owes(v, inbox[v][i], m),
           \A w \in Dist!Nodes \ {v} : \A i \in DOMAIN inbox'[w] :
              ~Owes(w, inbox'[w][i], m)
    PROVE  Dist!Owed(m)' = {<<v, Len(inbox[v]) + 1>>}
<1> DEFINE new == Len(inbox[v]) + 1
<1>1. /\ new \in DOMAIN inbox'[v] /\ inbox'[v][new] = msg
      /\ \A i \in DOMAIN inbox[v] : inbox'[v][i] = inbox[v][i]
      /\ \A i \in DOMAIN inbox'[v] : i \in DOMAIN inbox[v] \/ i = new
    BY BoxAppend
<1> HIDE DEF new
<1>2. \A i \in DOMAIN inbox'[v] : Owes(v, inbox'[v][i], m) => i = new
    BY <1>1
<1>3. \A a : a \in Dist!Owed(m)' <=> a = <<v, new>>
  <2>1. <<v, new>> \in Dist!Owed(m)'
      BY <1>1, OwedHere
  <2>2. ASSUME NEW a \in Dist!Owed(m)'
        PROVE  a = <<v, new>>
    <3>1. PICK w \in Dist!Nodes :
              \E i \in DOMAIN inbox'[w] : a = <<w, i>> /\ Owes(w, inbox'[w][i], m)
        BY <2>2, OwedHere
    <3>2. w = v
        BY <3>1
    <3> QED
        BY <1>2, <3>1, <3>2
  <2> QED
      BY <2>1, <2>2
<1> QED
    BY <1>3 DEF new

\* A node asks itself only when such a request comes in.
LEMMA NotFromSelfSent ==
    ASSUME NEW v \in Dist!Nodes, NotFromSelf(v), inbox[v] \in Seq(Dist!Messages),
           NEW msg \in Dist!Messages, msg # Dist!Request(v),
           inbox'[v] = Append(inbox[v], msg)
    PROVE  NotFromSelf(v)'
<1>1. \A i \in DOMAIN inbox'[v] :
          \/ i \in DOMAIN inbox[v] /\ inbox'[v][i] = inbox[v][i]
          \/ inbox'[v][i] = msg
    BY BoxAppend
<1> QED
    BY <1>1 DEF NotFromSelf

LEMMA NotFromSelfTaken ==
    ASSUME NEW v \in Dist!Nodes, NotFromSelf(v), inbox[v] \in Seq(Dist!Messages),
           inbox[v] # <<>>, inbox'[v] = Tail(inbox[v])
    PROVE  NotFromSelf(v)'
<1>1. \A i \in DOMAIN inbox'[v] :
          i + 1 \in DOMAIN inbox[v] /\ inbox'[v][i] = inbox[v][i + 1]
  <2>1. \A i \in DOMAIN Tail(inbox[v]) :
            i + 1 \in DOMAIN inbox[v] /\ Tail(inbox[v])[i] = inbox[v][i + 1]
      BY BoxTail
  <2> QED
      BY <2>1
<1> QED
    BY <1>1 DEF NotFromSelf

\* Steps that send and receive nothing.
LEMMA MailIdle ==
    ASSUME Dist!DistTypeOK, Dist!MailInv, NEW n \in Dist!Nodes,
           \/ Dist!DrainEnds(n) \/ Dist!Starve(n) \/ Dist!RunTask(n)
           \/ Dist!Spawn(n) \/ Dist!FinishTask(n)
    PROVE  Dist!MailInv'
<1>1. UNCHANGED <<inbox, waiting>>
    BY DEF Dist!DrainEnds, Dist!Starve, Dist!RunTask, Dist!Spawn, Dist!FinishTask
<1>2. at \in [Dist!Nodes -> Settings]
    BY DEF Dist!DistTypeOK, Settings
<1>3. \A v \in Dist!Nodes : Dist!Gone(v) => Dist!Gone(v)'
    BY GoneStays DEF Dist!Step
<1>4. \A m \in Dist!Nodes : NotFromSelf(m) /\ MailOf(m)
    BY MailIs
<1>5. \A m \in Dist!Nodes : at'[m] = "ask" => ~waiting[m]
  <2>1. \A m \in Dist!Nodes : at[m] = "ask" => ~waiting[m]
      BY <1>4 DEF MailOf
  <2>2. CASE Dist!Starve(n)
      BY <1>2, <2>1, <2>2 DEF Dist!Starve, Dist!Goto
  <2>3. CASE Dist!DrainEnds(n) \/ Dist!RunTask(n) \/ Dist!Spawn(n)
             \/ Dist!FinishTask(n)
      BY <1>2, <2>1, <2>3
         DEF Dist!DrainEnds, Dist!RunTask, Dist!Spawn, Dist!FinishTask, Dist!Goto
  <2> QED
      BY <2>2, <2>3
<1>6. ASSUME NEW m \in Dist!Nodes
      PROVE  NotFromSelf(m)' /\ MailOf(m)'
  <2>1. NotFromSelf(m)'
      BY <1>1, <1>4 DEF NotFromSelf
  <2>2. \A v \in Dist!Nodes : SameFrom(v, m)
      BY <1>1, SameBox
  <2>3. Dist!Owed(m)' = Dist!Owed(m)
      BY <2>2, OwedSame
  <2>4. MailOf(m)'
      BY <1>1, <1>3, <1>4, <1>5, <2>3, MailKept
  <2> QED
      BY <2>1, <2>4
<1> QED
    BY <1>6, MailIs

\* A node that goes drops its mailbox.
LEMMA MailGoes ==
    ASSUME Dist!DistTypeOK, Dist!MailInv, NEW n \in Dist!Nodes,
           Dist!Panic(n) \/ Dist!LeaveDone(n)
    PROVE  Dist!MailInv'
<1>0. at \in [Dist!Nodes -> Settings] /\ inbox \in [Dist!Nodes -> Seq(Dist!Messages)]
    BY DEF Dist!DistTypeOK, Settings
<1>1. /\ inbox' = [inbox EXCEPT ![n] = <<>>] /\ waiting' = waiting
      /\ \E label \in {"left", "panicked"} : at' = [at EXCEPT ![n] = label]
    BY DEF Dist!Panic, Dist!LeaveDone, Dist!Goto
<1>2. /\ inbox'[n] = <<>> /\ DOMAIN inbox'[n] = {}
      /\ \A v \in Dist!Nodes \ {n} : inbox'[v] = inbox[v] /\ at'[v] = at[v]
      /\ at'[n] \in {"left", "panicked"}
    BY <1>0, <1>1
<1>3. \A v \in Dist!Nodes : Dist!Gone(v) => Dist!Gone(v)'
    BY GoneStays DEF Dist!Step
<1>4. \A m \in Dist!Nodes : NotFromSelf(m) /\ MailOf(m)
    BY MailIs
<1>5. Dist!Gone(n)'
    BY <1>2 DEF Dist!Gone
<1>6. ASSUME NEW m \in Dist!Nodes
      PROVE  NotFromSelf(m)' /\ MailOf(m)'
  <2>1. NotFromSelf(m)'
      BY <1>2, <1>4 DEF NotFromSelf
  <2>2. Dist!Owed(m)' \subseteq Dist!Owed(m)
      BY <1>2, OwedHere
  <2>3. at'[m] = "ask" => ~waiting[m]
      BY <1>2, <1>4 DEF MailOf
  <2>4. MailOf(m)'
      BY <1>1, <1>3, <1>4, <1>5, <2>2, <2>3, MailKept
  <2> QED
      BY <2>1, <2>4
<1> QED
    BY <1>6, MailIs

\* A node that asks waits from now on.
LEMMA MailAsk ==
    ASSUME Dist!DistTypeOK, Dist!MailInv, NEW n \in Dist!Nodes, Dist!Ask(n)
    PROVE  Dist!MailInv'
<1>0. /\ at \in [Dist!Nodes -> Settings]
      /\ inbox \in [Dist!Nodes -> Seq(Dist!Messages)]
      /\ waiting \in [Dist!Nodes -> BOOLEAN]
    BY DEF Dist!DistTypeOK, Settings
<1>1. at[n] = "ask" /\ at' = [at EXCEPT ![n] = "drain"]
    BY DEF Dist!Ask, Dist!Goto
<1>2. /\ \A v \in Dist!Nodes : Dist!Gone(v) => Dist!Gone(v)'
      /\ \A m \in Dist!Nodes : at'[m] = "ask" => at[m] = "ask" /\ m # n
    BY <1>0, <1>1, GoneStays DEF Dist!Step
<1>3. \A m \in Dist!Nodes : NotFromSelf(m) /\ MailOf(m)
    BY MailIs
<1>4. CASE UNCHANGED <<inbox, waiting>>
  <2>1. ASSUME NEW m \in Dist!Nodes
        PROVE  NotFromSelf(m)' /\ MailOf(m)'
    <3>1. NotFromSelf(m)'
        BY <1>3, <1>4 DEF NotFromSelf
    <3>2. \A v \in Dist!Nodes : SameFrom(v, m)
        BY <1>4, SameBox
    <3>3. Dist!Owed(m)' = Dist!Owed(m)
        BY <3>2, OwedSame
    <3>4. at'[m] = "ask" => ~waiting[m]
        BY <1>2, <1>3 DEF MailOf
    <3>5. MailOf(m)'
        BY <1>2, <1>3, <1>4, <3>3, <3>4, MailKept
    <3> QED
        BY <3>1, <3>5
  <2> QED
      BY <2>1, MailIs
<1>5. ASSUME NEW v \in Dist!Nodes \ {n},
             inbox' = [inbox EXCEPT ![v] = Append(@, Dist!Request(n))],
             waiting' = [waiting EXCEPT ![n] = TRUE]
      PROVE  Dist!MailInv'
  <2>1. /\ inbox'[v] = Append(inbox[v], Dist!Request(n))
        /\ inbox[v] \in Seq(Dist!Messages) /\ Dist!Request(n) \in Dist!Messages
        /\ \A w \in Dist!Nodes \ {v} : inbox'[w] = inbox[w]
        /\ waiting'[n] /\ \A m \in Dist!Nodes \ {n} : waiting'[m] = waiting[m]
      BY <1>0, <1>5, MessageFacts
  <2>2. \A m \in Dist!Nodes : Owes(v, Dist!Request(n), m) <=> m = n
      BY OwesRequest
  <2>3. \A m \in Dist!Nodes : NotFromSelf(m)'
    <3>1. Dist!Request(n) # Dist!Request(v)
        BY MessageFacts
    <3>2. NotFromSelf(v)'
        BY <1>3, <2>1, <3>1, NotFromSelfSent
    <3>3. \A m \in Dist!Nodes \ {v} : NotFromSelf(m)'
        BY <1>3, <2>1 DEF NotFromSelf
    <3> QED
        BY <3>2, <3>3
  <2>4. ASSUME NEW m \in Dist!Nodes \ {n}
        PROVE  MailOf(m)'
    <3>1. SameFrom(v, m)
        BY <2>1, <2>2, OtherSent
    <3>2. \A w \in Dist!Nodes : SameFrom(w, m)
        BY <2>1, <3>1, SameBox
    <3>3. Dist!Owed(m)' = Dist!Owed(m)
        BY <3>2, OwedSame
    <3>4. at'[m] = "ask" => ~waiting[m]
        BY <1>2, <1>3 DEF MailOf
    <3> QED
        BY <1>2, <1>3, <2>1, <3>3, <3>4, MailKept
  <2>5. MailOf(n)'
    <3>1. Dist!Owed(n) = {}
        BY <1>1, <1>3 DEF MailOf
    <3>2. \A w \in Dist!Nodes : \A i \in DOMAIN inbox[w] :
              ~Owes(w, inbox[w][i], n)
        BY <3>1, OwedHere
    <3>3. Dist!Owed(n)' = {<<v, Len(inbox[v]) + 1>>}
        BY <2>1, <2>2, <3>2, NowOwed
    <3>4. at'[n] # "ask"
        BY <1>2
    <3> QED
        BY <2>1, <3>3, <3>4 DEF MailOf
  <2> QED
      BY <2>3, <2>4, <2>5, MailIs
<1> QED
    BY <1>4, <1>5 DEF Dist!Ask

\* A node that receives its answer waits no more.
LEMMA MailAbsorb ==
    ASSUME Dist!DistTypeOK, Dist!MailInv, NEW n \in Dist!Nodes, Dist!Absorb(n)
    PROVE  Dist!MailInv'
<1>0. /\ inbox \in [Dist!Nodes -> Seq(Dist!Messages)]
      /\ waiting \in [Dist!Nodes -> BOOLEAN]
    BY DEF Dist!DistTypeOK
<1>1. /\ at[n] = "drain" /\ inbox[n] # <<>> /\ Dist!Next1(n).type = "work"
      /\ inbox' = [inbox EXCEPT ![n] = Tail(@)]
      /\ waiting' = [waiting EXCEPT ![n] = FALSE] /\ at' = at
    BY DEF Dist!Absorb
<1>2. /\ inbox'[n] = Tail(inbox[n]) /\ inbox[n] \in Seq(Dist!Messages)
      /\ \A v \in Dist!Nodes \ {n} : inbox'[v] = inbox[v]
      /\ ~waiting'[n] /\ \A m \in Dist!Nodes \ {n} : waiting'[m] = waiting[m]
    BY <1>0, <1>1
<1>3. \A m \in Dist!Nodes : NotFromSelf(m) /\ MailOf(m)
    BY MailIs
<1>4. Owes(n, Dist!Next1(n), n)
    BY <1>1 DEF Owes
<1>5. /\ inbox[n][1] = Dist!Next1(n)
      /\ \A v \in Dist!Nodes : \A i \in DOMAIN inbox[v] :
            Owes(v, inbox[v][i], n) => v = n /\ i = 1
    BY <1>1, <1>4, HeadOwed
<1>6. \A m \in Dist!Nodes : NotFromSelf(m)'
  <2>1. NotFromSelf(n)'
      BY <1>1, <1>2, <1>3, NotFromSelfTaken
  <2>2. \A m \in Dist!Nodes \ {n} : NotFromSelf(m)'
      BY <1>2, <1>3 DEF NotFromSelf
  <2> QED
      BY <2>1, <2>2
<1>7. MailOf(n)'
  <2>1. ASSUME NEW v \in Dist!Nodes, NEW i \in DOMAIN inbox'[v]
        PROVE  ~Owes(v, inbox'[v][i], n)
    <3>1. CASE v = n
      <4>1. i \in DOMAIN Tail(inbox[n])
          BY <1>2, <2>1, <3>1
      <4>2. /\ i + 1 \in DOMAIN inbox[n] /\ i + 1 # 1
            /\ Tail(inbox[n])[i] = inbox[n][i + 1]
          BY <1>1, <1>2, <4>1, BoxTail
      <4>3. ~Owes(n, inbox[n][i + 1], n)
          BY <1>5, <4>2
      <4> QED
          BY <1>2, <3>1, <4>2, <4>3
    <3>2. CASE v # n
        BY <1>2, <1>5, <2>1, <3>2
    <3> QED
        BY <3>1, <3>2
  <2>2. Dist!Owed(n)' = {}
      BY <2>1, OwedHere
  <2> QED
      BY <1>2, <2>2 DEF MailOf
<1>8. ASSUME NEW m \in Dist!Nodes \ {n}
      PROVE  MailOf(m)'
  <2>1. ~Owes(n, inbox[n][1], m)
    <3>1. \A k \in Dist!Nodes : Dist!Request(k).type = "request"
        BY MessageFacts
    <3> QED
        BY <1>1, <1>5, <3>1 DEF Owes
  <2>2. \A v \in Dist!Nodes \ {n} : SameFrom(v, m)
      BY <1>2, SameBox
  <2>3. /\ (\A a, b \in Dist!Owed(m) : a = b) =>
              \A a, b \in Dist!Owed(m)' : a = b
        /\ Dist!Owed(m)' # {} => Dist!Owed(m) # {}
        /\ Dist!Owed(m) # {} => Dist!Owed(m)' # {}
      BY <1>1, <1>2, <2>1, <2>2, OwedMoves
  <2>4. \A v \in Dist!Nodes : Dist!Gone(v) => Dist!Gone(v)'
      BY GoneStays DEF Dist!Step
  <2>5. at'[m] = "ask" => ~waiting[m]
      BY <1>1, <1>3 DEF MailOf
  <2> QED
      BY <1>2, <1>3, <2>3, <2>4, <2>5, MailKept
<1> QED
    BY <1>6, <1>7, <1>8, MailIs

\* An answer takes the place of the request, or nothing does when the one who
\* asked is gone.
LEMMA MailAnswer ==
    ASSUME Dist!DistTypeOK, Dist!MailInv, NEW n \in Dist!Nodes, Dist!Answer(n)
    PROVE  Dist!MailInv'
<1> DEFINE work == Dist!Work(Batch(local[n]))
<1>1. PICK to \in Dist!Nodes : to = Dist!Next1(n).from
    BY AnswerIs
<1>2. /\ at[n] = "drain" /\ inbox[n] # <<>> /\ UNCHANGED <<waiting, at>>
      /\ Dist!Next1(n) = Dist!Request(to)
    BY <1>1, AnswerIs
<1>3. /\ to # n /\ inbox[n][1] = Dist!Request(to)
      /\ inbox'[n] = Tail(inbox[n])
      /\ inbox'[to] = IF Dist!Gone(to) THEN inbox[to]
                      ELSE Append(inbox[to], work)
      /\ \A m \in Dist!Nodes \ {n, to} : inbox'[m] = inbox[m]
    BY <1>1, AnswerMoves
<1>4. /\ inbox[n] \in Seq(Dist!Messages) /\ inbox[to] \in Seq(Dist!Messages)
      /\ local[n] \in Seq(Dist!Tasks)
    BY DEF Dist!DistTypeOK
<1>5. /\ work \in Dist!Messages
      /\ \A v, m \in Dist!Nodes : Owes(v, work, m) <=> m = v
      /\ \A m \in Dist!Nodes : work # Dist!Request(m)
    BY <1>4, GiveFacts, MessageFacts, OwesWork
<1> HIDE DEF work
<1>6. \A m \in Dist!Nodes : NotFromSelf(m) /\ MailOf(m)
    BY MailIs
<1>7. \A v \in Dist!Nodes : Dist!Gone(v) => Dist!Gone(v)'
    BY GoneStays DEF Dist!Step
<1>8. \A m \in Dist!Nodes : Owes(n, Dist!Request(to), m) <=> m = to
    BY OwesRequest
<1>9. /\ waiting[to]
      /\ \A v \in Dist!Nodes : \A i \in DOMAIN inbox[v] :
            Owes(v, inbox[v][i], to) => v = n /\ i = 1
    BY <1>2, <1>8, HeadOwed
<1>10. \A m \in Dist!Nodes : NotFromSelf(m)'
  <2>1. NotFromSelf(n)'
      BY <1>2, <1>3, <1>4, <1>6, NotFromSelfTaken
  <2>2. NotFromSelf(to)'
    <3>1. CASE Dist!Gone(to)
        BY <1>3, <1>6, <3>1 DEF NotFromSelf
    <3>2. CASE ~Dist!Gone(to)
        BY <1>3, <1>4, <1>5, <1>6, <3>2, NotFromSelfSent
    <3> QED
        BY <3>1, <3>2
  <2>3. \A m \in Dist!Nodes \ {n, to} : NotFromSelf(m)'
      BY <1>3, <1>6 DEF NotFromSelf
  <2> QED
      BY <2>1, <2>2, <2>3
<1>11. ASSUME NEW m \in Dist!Nodes \ {to}
       PROVE  MailOf(m)'
  <2>1. ~Owes(n, inbox[n][1], m)
      BY <1>3, <1>8
  <2>2. SameFrom(to, m)
    <3>1. CASE Dist!Gone(to)
        BY <1>3, <3>1, SameBox
    <3>2. CASE ~Dist!Gone(to)
        BY <1>3, <1>4, <1>5, <3>2, OtherSent
    <3> QED
        BY <3>1, <3>2
  <2>3. \A v \in Dist!Nodes \ {n} : SameFrom(v, m)
      BY <1>3, <2>2, SameBox
  <2>4. /\ (\A a, b \in Dist!Owed(m) : a = b) =>
              \A a, b \in Dist!Owed(m)' : a = b
        /\ Dist!Owed(m)' # {} => Dist!Owed(m) # {}
        /\ Dist!Owed(m) # {} => Dist!Owed(m)' # {}
      BY <1>2, <1>3, <1>4, <2>1, <2>3, OwedMoves
  <2>5. at'[m] = "ask" => ~waiting[m]
      BY <1>2, <1>6 DEF MailOf
  <2> QED
      BY <1>2, <1>6, <1>7, <2>4, <2>5, MailKept
<1>12. MailOf(to)'
  <2>1. \A i \in DOMAIN inbox'[n] : ~Owes(n, inbox'[n][i], to)
    <3>1. \A i \in DOMAIN Tail(inbox[n]) :
              /\ i + 1 \in DOMAIN inbox[n] /\ i + 1 # 1
              /\ Tail(inbox[n])[i] = inbox[n][i + 1]
        BY <1>2, <1>4, BoxTail
    <3>2. \A i \in DOMAIN Tail(inbox[n]) : ~Owes(n, Tail(inbox[n])[i], to)
        BY <1>9, <3>1
    <3> QED
        BY <1>3, <3>2
  <2>2. /\ \A i \in DOMAIN inbox[to] : ~Owes(to, inbox[to][i], to)
        /\ \A w \in Dist!Nodes \ {to} : \A i \in DOMAIN inbox'[w] :
              ~Owes(w, inbox'[w][i], to)
    <3>1. \A w \in Dist!Nodes \ {n} : \A i \in DOMAIN inbox[w] :
              ~Owes(w, inbox[w][i], to)
        BY <1>9
    <3>2. ASSUME NEW w \in Dist!Nodes \ {to}
          PROVE  \A i \in DOMAIN inbox'[w] : ~Owes(w, inbox'[w][i], to)
      <4>1. CASE w = n
          BY <2>1, <4>1
      <4>2. CASE w # n
        <5>1. inbox'[w] = inbox[w]
            BY <1>3, <4>2
        <5> QED
            BY <3>1, <4>2, <5>1
      <4> QED
          BY <4>1, <4>2
    <3> QED
        BY <1>3, <3>1, <3>2
  <2>3. at'[to] # "ask"
      BY <1>2, <1>6, <1>9 DEF MailOf
  <2>4. waiting'[to]
      BY <1>2, <1>9
  <2>5. CASE Dist!Gone(to)
    <3>1. Dist!Owed(to)' = {}
        BY <1>3, <2>2, <2>5, OwedHere
    <3>2. Dist!Gone(to)'
        BY <1>7, <2>5
    <3> QED
        BY <2>3, <3>1, <3>2 DEF MailOf
  <2>6. CASE ~Dist!Gone(to)
    <3>1. Dist!Owed(to)' = {<<to, Len(inbox[to]) + 1>>}
        BY <1>3, <1>4, <1>5, <2>2, <2>6, NowOwed
    <3> QED
        BY <2>3, <2>4, <3>1 DEF MailOf
  <2> QED
      BY <2>5, <2>6
<1> QED
    BY <1>10, <1>11, <1>12, MailIs

\* Every step keeps what the mailboxes promise.
LEMMA MailStep ==
    ASSUME Dist!DistTypeOK, Dist!MailInv, Dist!DistNext
    PROVE  Dist!MailInv'
<1>1. PICK n \in Dist!Nodes : Dist!Step(n) \/ Dist!Spawn(n) \/ Dist!Panic(n)
    BY DEF Dist!DistNext
<1>2. CASE Dist!Answer(n)
    BY <1>2, MailAnswer
<1>3. CASE Dist!Absorb(n)
    BY <1>3, MailAbsorb
<1>4. CASE Dist!Ask(n)
    BY <1>4, MailAsk
<1>5. CASE Dist!Panic(n) \/ Dist!LeaveDone(n)
    BY <1>5, MailGoes
<1>6. CASE \/ Dist!DrainEnds(n) \/ Dist!Starve(n) \/ Dist!RunTask(n)
           \/ Dist!Spawn(n) \/ Dist!FinishTask(n)
    BY <1>6, MailIdle
<1> QED
    BY <1>1, <1>2, <1>3, <1>4, <1>5, <1>6 DEF Dist!Step

\* A number has one quotient and one remainder.
LEMMA OneQuotient ==
    ASSUME NEW n \in Nat, n > 0, NEW i \in Nat, NEW j \in Nat,
           NEW v \in 0..n-1, NEW w \in 0..n-1, v + i * n = w + j * n
    PROVE  i = j /\ v = w
<1>1. ASSUME NEW a \in Nat, NEW b \in Nat, a < b
      PROVE  a * n + n <= b * n
  <2>1. PICK c \in Nat : b = a + 1 + c
      BY <1>1
  <2>2. b * n = a * n + n + c * n
      BY <2>1
  <2>3. c * n >= 0 /\ c * n \in Nat /\ a * n \in Nat
      OBVIOUS
  <2> QED
      BY <2>2, <2>3
<1>2. i * n \in Nat /\ j * n \in Nat
    OBVIOUS
<1>3. ~(i < j)
    BY <1>1, <1>2
<1>4. ~(j < i)
    BY <1>1, <1>2
<1>5. i = j
    BY <1>3, <1>4
<1> QED
    BY <1>2, <1>5

\* The seeds are dealt out: each node's are among them, and no two nodes
\* or positions get the same one.
LEMMA SeedFacts ==
    ASSUME NEW m \in Dist!Nodes
    PROVE  /\ Dist!SeedsOf(m) \in Seq(Dist!Tasks)
           /\ Dist!ToSet(Dist!SeedsOf(m)) \subseteq 1..NumSeeds
           /\ \A i \in DOMAIN Dist!SeedsOf(m) :
                 /\ i - 1 \in Nat
                 /\ Dist!SeedsOf(m)[i] = m + 1 + (i - 1) * NumNodes
<1> DEFINE n == (NumSeeds + NumNodes - 1 - m) \div NumNodes
<1>0. /\ NumNodes \in Nat /\ NumNodes > 0 /\ NumSeeds \in Nat
      /\ m \in Nat /\ m <= NumNodes - 1
    BY NodeFacts
<1>1. PICK d \in Nat : d = NumSeeds + NumNodes - 1 - m
    BY <1>0
<1>2. n \in Nat /\ n * NumNodes <= d
  <2>1. n = d \div NumNodes
      BY <1>1
  <2> HIDE DEF n
  <2>2. n \in Nat
      BY <2>1, <1>0
  <2>3. NumNodes * n <= d /\ NumNodes * n = n * NumNodes
      BY <2>1, <2>2, <1>0
  <2> QED
      BY <2>2, <2>3
<1>3. Dist!SeedsOf(m) = [i \in 1..n |-> m + 1 + (i - 1) * NumNodes]
    BY DEF Dist!SeedsOf
<1> HIDE DEF n
<1>4. ASSUME NEW i \in 1..n
      PROVE  /\ i - 1 \in Nat
             /\ m + 1 + (i - 1) * NumNodes \in 1..NumSeeds
  <2>1. i - 1 \in Nat
      BY <1>2
  <2>2. PICK c \in Nat : n = i + c
      BY <1>2
  <2>3. n * NumNodes = i * NumNodes + c * NumNodes
      BY <2>2, <1>0
  <2>4. /\ c * NumNodes \in Nat /\ i * NumNodes \in Nat
        /\ (i - 1) * NumNodes \in Nat
      BY <2>1, <1>0
  <2>5. (i - 1) * NumNodes = i * NumNodes - NumNodes
      BY <1>0
  <2>6. PICK p \in Nat, q \in Nat :
            p = i * NumNodes /\ q = (i - 1) * NumNodes
      BY <2>4
  <2>7. p <= d /\ q = p - NumNodes
      BY <2>3, <2>4, <2>5, <2>6, <1>1, <1>2, <1>0
  <2>8. m + 1 + q \in 1..NumSeeds
      BY <2>7, <1>0, <1>1
  <2> QED
      BY <2>1, <2>6, <2>8
<1>5. Dist!SeedsOf(m) \in [1..n -> 1..NumSeeds]
    BY <1>3, <1>4
<1>6. Dist!SeedsOf(m) \in Seq(Dist!Tasks)
  <2>1. 1..NumSeeds \subseteq Dist!Tasks
      BY NodeFacts
  <2>2. Dist!SeedsOf(m) \in [1..n -> Dist!Tasks]
      BY <2>1, <1>5
  <2> QED
      BY <2>2, <1>2, SeqDef
<1>7. Dist!ToSet(Dist!SeedsOf(m)) \subseteq 1..NumSeeds
    BY <1>5 DEF Dist!ToSet
<1> QED
    BY <1>3, <1>4, <1>6, <1>7

\* Every seed is dealt to some node.
LEMMA SeedsDealt ==
    ASSUME NEW t \in 1..NumSeeds
    PROVE  \E w \in Dist!Nodes : t \in Dist!ToSet(Dist!SeedsOf(w))
<1>0. /\ NumNodes \in Nat /\ NumNodes > 0 /\ NumSeeds \in Nat
      /\ Dist!Nodes = 0..NumNodes-1
    BY NodeFacts
<1>1. PICK d \in Nat : d = t - 1
    OBVIOUS
<1>2. PICK q \in Nat, p \in Nat : q = d \div NumNodes /\ p = NumNodes * q
    BY <1>0
<1>3. p <= d /\ d < p + NumNodes
  <2>1. /\ NumNodes * (d \div NumNodes) <= d
        /\ d < NumNodes * (d \div NumNodes) + NumNodes
      BY <1>0
  <2> QED
      BY <2>1, <1>2
<1>4. PICK w \in Dist!Nodes : w = d - p
    BY <1>0, <1>2, <1>3
<1>5. w \in Nat /\ w <= NumNodes - 1
    BY <1>0
<1>6. PICK e \in Nat : e = NumSeeds + NumNodes - 1 - w
    BY <1>0, <1>5
<1>7. PICK n \in Nat : n = e \div NumNodes
    BY <1>0
<1>8. e < NumNodes * n + NumNodes
    BY <1>0, <1>7
<1>9. p + NumNodes <= e
    BY <1>0, <1>1, <1>3, <1>4, <1>6
<1>10. q + 1 <= n
  <2>1. ASSUME ~(q + 1 <= n)
        PROVE  FALSE
    <3>1. PICK c \in Nat : q = n + c
        BY <2>1
    <3>2. NumNodes * q = NumNodes * n + NumNodes * c
        BY <3>1, <1>0
    <3>3. PICK a \in Nat, b \in Nat :
              a = NumNodes * n /\ b = NumNodes * c
        BY <1>0
    <3>4. p = a + b /\ e < a + NumNodes
        BY <3>2, <3>3, <1>2, <1>8
    <3> QED
        BY <3>3, <3>4, <1>0, <1>9
  <2> QED
      BY <2>1
<1>11. /\ q + 1 \in 1..n
       /\ Dist!SeedsOf(w) = [i \in 1..n |-> w + 1 + (i - 1) * NumNodes]
    BY <1>6, <1>7, <1>10 DEF Dist!SeedsOf
<1>12. w + 1 + ((q + 1) - 1) * NumNodes = t
  <2>1. (q + 1) - 1 = q
      OBVIOUS
  <2>2. q * NumNodes = p
      BY <1>0, <1>2
  <2> QED
      BY <2>1, <2>2, <1>1, <1>2, <1>4
<1>13. q + 1 \in DOMAIN Dist!SeedsOf(w) /\ Dist!SeedsOf(w)[q + 1] = t
    BY <1>11, <1>12
<1> QED
    BY <1>13 DEF Dist!ToSet

\* No seed is dealt twice.
LEMMA SeedsApart ==
    ASSUME NEW m \in Dist!Nodes, NEW n \in Dist!Nodes,
           NEW i \in DOMAIN Dist!SeedsOf(m), NEW j \in DOMAIN Dist!SeedsOf(n),
           Dist!SeedsOf(m)[i] = Dist!SeedsOf(n)[j]
    PROVE  i = j /\ m = n
<1>0. /\ NumNodes \in Nat /\ NumNodes > 0 /\ m \in Nat /\ n \in Nat
      /\ m \in 0..NumNodes-1 /\ n \in 0..NumNodes-1
    BY NodeFacts
<1>1. /\ i - 1 \in Nat /\ Dist!SeedsOf(m)[i] = m + 1 + (i - 1) * NumNodes
      /\ j - 1 \in Nat /\ Dist!SeedsOf(n)[j] = n + 1 + (j - 1) * NumNodes
    BY SeedFacts
<1>2. PICK k \in Nat, l \in Nat : k = i - 1 /\ l = j - 1
    BY <1>1
<1>3. PICK a \in Nat, b \in Nat : a = k * NumNodes /\ b = l * NumNodes
    BY <1>0
<1>4. m + 1 + a = n + 1 + b
    BY <1>1, <1>2, <1>3
<1>5. m + k * NumNodes = n + l * NumNodes
    BY <1>0, <1>3, <1>4
<1>6. k = l /\ m = n
    BY <1>0, <1>5, OneQuotient
<1>7. i \in Int /\ j \in Int
  <2>1. Dist!SeedsOf(m) \in Seq(Dist!Tasks) /\ Dist!SeedsOf(n) \in Seq(Dist!Tasks)
      BY SeedFacts
  <2> QED
      BY <2>1, LenProperties
<1> QED
    BY <1>2, <1>6, <1>7

\* At the start every task is in the pool it was dealt to, ...
LEMMA TasksStart ==
    ASSUME Dist!DistInit
    PROVE  Dist!DistTypeOK /\ Dist!TasksInv
<1>0. /\ local = [n \in Dist!Nodes |-> Dist!SeedsOf(n)]
      /\ inbox = [n \in Dist!Nodes |-> <<>>]
      /\ waiting = [n \in Dist!Nodes |-> FALSE]
      /\ at = [n \in Dist!Nodes |-> "drain"]
      /\ task = [n \in Dist!Nodes |-> 0]
      /\ spawned = NumSeeds /\ ended = {} /\ lost = {}
    BY DEF Dist!DistInit
<1>1. Dist!DistTypeOK
  <2>1. <<>> \in Seq(Dist!Messages)
      BY EmptySeq
  <2>2. local \in [Dist!Nodes -> Seq(Dist!Tasks)]
      BY <1>0, SeedFacts
  <2>3. spawned \in NumSeeds..MaxTasks
      BY <1>0, NodeFacts
  <2> QED
      BY <1>0, <2>1, <2>2, <2>3 DEF Dist!DistTypeOK
<1>2. \A n \in Dist!Nodes :
          /\ Dist!Held[<<"local", n>>] = Dist!ToSet(Dist!SeedsOf(n))
          /\ Dist!Held[<<"mail", n>>] = {} /\ Dist!Held[<<"task", n>>] = {}
  <2> TAKE n \in Dist!Nodes
  <2>1. Dist!Held[<<"local", n>>] = Dist!ToSet(local[n])
      BY HeldIs
  <2>2. Dist!Held[<<"mail", n>>] = Dist!BatchesIn(inbox[n])
      BY HeldIs
  <2>3. Dist!Held[<<"task", n>>] = {task[n]} \ {0}
      BY HeldIs
  <2> QED
      BY <1>0, <2>1, <2>2, <2>3, NoBatches
<1>3. Dist!Held[<<"lost", 0>>] = {}
    BY <1>0, HeldIs
<1>4. (1..spawned) \ ended = 1..NumSeeds
    BY <1>0
<1>5. \A n \in Dist!Nodes : Dist!ToSet(Dist!SeedsOf(n)) \subseteq 1..NumSeeds
    BY SeedFacts
<1>6. \A m, n \in Dist!Nodes : m # n =>
          Dist!ToSet(Dist!SeedsOf(m)) \cap Dist!ToSet(Dist!SeedsOf(n)) = {}
    BY SeedsApart DEF Dist!ToSet
<1>7. \A p \in Dist!Places :
          \/ \E n \in Dist!Nodes : /\ p = <<"local", n>>
                                   /\ Dist!Held[p] = Dist!ToSet(Dist!SeedsOf(n))
          \/ Dist!Held[p] = {}
    BY <1>2, <1>3, PlaceFacts
<1>8. Disjoint(Dist!Held, (1..spawned) \ ended)
  <2>1. \A p \in Dist!Places : Dist!Held[p] \subseteq 1..NumSeeds
      BY <1>5, <1>7
  <2>2. ASSUME NEW p \in Dist!Places, NEW q \in Dist!Places, p # q
        PROVE  Dist!Held[p] \cap Dist!Held[q] = {}
      BY <1>6, <1>7, <2>2
  <2> QED
      BY <1>4, <2>1, <2>2 DEF Disjoint
<1>9. Once(local, inbox)
  <2>1. \A n \in Dist!Nodes : Dist!IsInjective(Dist!SeedsOf(n))
      BY SeedsApart DEF Dist!IsInjective
  <2>2. DOMAIN <<>> = {}
      OBVIOUS
  <2> QED
      BY <1>0, <2>1, <2>2 DEF Once
<1> QED
    BY <1>0, <1>1, <1>8, <1>9, TasksInvIs

\* ... nobody waits, and nothing is done.
LEMMA NodesStart ==
    ASSUME Dist!DistInit
    PROVE  Dist!DistInv
<1>1. Dist!DistTypeOK /\ Dist!TasksInv
    BY TasksStart
<1>2. Dist!MailInv
  <2>1. \A n \in Dist!Nodes : /\ inbox[n] = <<>> /\ ~waiting[n]
                              /\ at[n] = "drain"
      BY DEF Dist!DistInit
  <2>2. DOMAIN <<>> = {}
      OBVIOUS
  <2>3. \A n \in Dist!Nodes : Dist!Owed(n) = {}
      BY <2>1, <2>2, OwedHere
  <2> QED
      BY <2>1, <2>2, <2>3 DEF Dist!MailInv
<1>3. Dist!CountInv
  <2>1. Cardinality({}) = 0
      BY FS_EmptySet
  <2>2. outstanding = NumSeeds /\ spawned = NumSeeds /\ ended = {}
        /\ \A n \in Dist!Nodes : at[n] = "drain"
      BY DEF Dist!DistInit
  <2> QED
      BY <2>1, <2>2, CountsSame, NodeFacts DEF Dist!CountInv
<1> QED
    BY <1>1, <1>2, <1>3 DEF Dist!DistInv

LEMMA NodesPoolStarts ==
    ASSUME Dist!DistInit
    PROVE  Dist!Pool!PoolInit
<1>0. /\ local = [n \in Dist!Nodes |-> Dist!SeedsOf(n)]
      /\ inbox = [n \in Dist!Nodes |-> <<>>]
      /\ at = [n \in Dist!Nodes |-> "drain"]
      /\ task = [n \in Dist!Nodes |-> 0]
      /\ ended = {} /\ lost = {}
    BY DEF Dist!DistInit
<1>1. Dist!Pending = 1..NumSeeds
  <2>1. \A n \in Dist!Nodes : /\ local[n] = Dist!SeedsOf(n)
                              /\ Dist!BatchesIn(inbox[n]) = {}
      BY <1>0, NoBatches
  <2>2. \A t : t \in Dist!Pending <=>
            \E n \in Dist!Nodes : t \in Dist!ToSet(Dist!SeedsOf(n))
      BY <1>0, <2>1 DEF Dist!Pending
  <2> QED
      BY <2>2, SeedFacts, SeedsDealt
<1>2. Dist!Running = {}
    BY <1>0 DEF Dist!Running
<1>3. Dist!Present = Dist!Nodes
    BY <1>0 DEF Dist!Present
<1> QED
    BY <1>0, <1>1, <1>2, <1>3 DEF Dist!Pool!PoolInit, Dist!Seeds

\* Every step keeps the tasks, and is a step of the pool that the nodes are,
\* or none.
LEMMA PoolStep ==
    ASSUME Dist!DistInv, Dist!DistNext
    PROVE  /\ Dist!TasksInv'
           /\ Dist!Pool!PoolNext \/ UNCHANGED Dist!Pool!poolVars
<1>0. Dist!DistTypeOK
    BY DEF Dist!DistInv
<1>1. PICK n \in Dist!Nodes : Dist!Step(n) \/ Dist!Spawn(n) \/ Dist!Panic(n)
    BY DEF Dist!DistNext
<1>2. CASE Dist!LeaveDone(n)
  <2>1. /\ Dist!TasksInv'
        /\ Dist!Pending = {} /\ Dist!Running = {}
        /\ Dist!Pending' = Dist!Pending /\ Dist!Running' = Dist!Running
        /\ Dist!Present' = Dist!Present \ {n}
      BY <1>2, LeaveStep
  <2>2. ended' = ended
      BY <1>2 DEF Dist!LeaveDone
  <2> QED
      BY <2>1, <2>2 DEF Dist!Pool!Leave, Dist!Pool!PoolNext
<1>3. CASE ~Dist!LeaveDone(n)
  <2>1. Dist!Present' = Dist!Present
      BY <1>0, <1>1, <1>3, StayStep
  <2>2. CASE Dist!RunTask(n)
    <3>1. PICK t \in Dist!Tasks :
              /\ t \in Dist!Pending /\ Dist!Pending' = Dist!Pending \ {t}
              /\ Dist!Running' = Dist!Running \cup {t}
        BY <2>2, RunTaskStep
    <3>2. Dist!TasksInv' /\ ended' = ended
        BY <2>2, RunTaskStep DEF Dist!RunTask
    <3> QED
        BY <2>1, <3>1, <3>2 DEF Dist!Pool!BeginTask, Dist!Pool!PoolNext
  <2>3. CASE Dist!Spawn(n)
    <3>1. PICK t \in Dist!Tasks :
              /\ t \notin Dist!Pending \cup Dist!Running \cup ended
              /\ Dist!Pending' = Dist!Pending \cup {t}
              /\ Dist!Running' = Dist!Running
        BY <2>3, SpawnStep
    <3>2. Dist!TasksInv' /\ Dist!Running # {} /\ ended' = ended
        BY <2>3, SpawnStep DEF Dist!Spawn
    <3> QED
        BY <2>1, <3>1, <3>2
           DEF Dist!Pool!SpawnTask, Dist!Pool!Known, Dist!Pool!PoolNext
  <2>4. CASE Dist!FinishTask(n)
    <3>1. PICK t \in Dist!Tasks :
              /\ t \in Dist!Running /\ Dist!Running' = Dist!Running \ {t}
              /\ ended' = ended \cup {t} /\ Dist!Pending' = Dist!Pending
        BY <2>4, FinishStep
    <3>2. Dist!TasksInv'
        BY <2>4, FinishStep
    <3> QED
        BY <2>1, <3>1, <3>2 DEF Dist!Pool!EndTask, Dist!Pool!PoolNext
  <2>5. ASSUME \/ Dist!Answer(n) \/ Dist!Absorb(n) \/ Dist!DrainEnds(n)
               \/ Dist!Starve(n) \/ Dist!Ask(n) \/ Dist!Panic(n)
        PROVE  /\ Dist!TasksInv'
               /\ UNCHANGED Dist!Pool!poolVars
    <3>1. ended' = ended
        BY <2>5 DEF Dist!Answer, Dist!Absorb, Dist!DrainEnds, Dist!Starve,
                    Dist!Ask, Dist!Panic
    <3>2. /\ Dist!TasksInv'
          /\ Dist!Pending' = Dist!Pending /\ Dist!Running' = Dist!Running
        BY <2>5, AnswerStep, AbsorbStep, IdleStep, PanicStep
    <3> QED
        BY <2>1, <3>1, <3>2 DEF Dist!Pool!poolVars
  <2> QED
      BY <1>1, <1>3, <2>2, <2>3, <2>4, <2>5 DEF Dist!Step
<1> QED
    BY <1>2, <1>3

\* Steps of the other parts leave the nodes as they are.
LEMMA NodesStutter ==
    ASSUME Dist!DistInv, UNCHANGED distVars
    PROVE  Dist!DistInv' /\ UNCHANGED Dist!Pool!poolVars
<1>0. Dist!DistTypeOK /\ Dist!MailInv /\ Dist!TasksInv /\ Dist!CountInv
    BY DEF Dist!DistInv
<1>1. UNCHANGED <<local, inbox, waiting, outstanding, at, task, spawned, ended,
                  lost>>
    BY DEF distVars
<1>2. Dist!DistTypeOK'
    BY <1>0, <1>1 DEF Dist!DistTypeOK
<1>3. Dist!MailInv'
    BY <1>0, <1>1 DEF Dist!MailInv, Dist!Owed, Dist!Gone
<1>4. Dist!TasksInv'
    BY <1>0, <1>1 DEF Dist!TasksInv, Dist!Held
<1>5. Dist!CountInv'
    BY <1>0, <1>1 DEF Dist!CountInv
<1>6. UNCHANGED Dist!Pool!poolVars
    BY <1>1 DEF Dist!Pool!poolVars, Dist!Pending, Dist!Running, Dist!Present
<1> QED
    BY <1>2, <1>3, <1>4, <1>5, <1>6 DEF Dist!DistInv

LEMMA NodesPart ==
    ASSUME Dist!DistInv, [PartsNext]_partVars
    PROVE  /\ Dist!DistInv'
           /\ Dist!Pool!PoolNext \/ UNCHANGED Dist!Pool!poolVars
<1>1. CASE Dist!DistNext
  <2>1. Dist!DistTypeOK /\ Dist!MailInv /\ Dist!TasksInv
      BY DEF Dist!DistInv
  <2>2. Dist!DistTypeOK' /\ Dist!MailInv' /\ Dist!CountInv'
      BY <1>1, <2>1, DistTypeStep, MailStep, CountStep
  <2>3. /\ Dist!TasksInv'
        /\ Dist!Pool!PoolNext \/ UNCHANGED Dist!Pool!poolVars
      BY <1>1, PoolStep
  <2> QED
      BY <2>2, <2>3 DEF Dist!DistInv
<1>2. CASE UNCHANGED distVars
    BY <1>2, NodesStutter
<1>3. Dist!DistNext \/ UNCHANGED distVars
    BY DEF PartsNext, InNodes, InLog, InLevels, partVars
<1> QED
    BY <1>1, <1>2, <1>3

\* The state of the nodes has its shape; the tasks not yet done are in one
\* place each and are what is counted, so that a node that finds the count 0
\* can return (distributed.rs 20-25).
THEOREM NodesInvariant == PartsSpec => []Dist!DistInv
<1>1. PartsInit => Dist!DistInv
    BY NodesStart DEF PartsInit
<1>2. Dist!DistInv /\ [PartsNext]_partVars => Dist!DistInv'
    BY NodesPart
<1> QED
    BY <1>1, <1>2, PTL DEF PartsSpec

\* A node that waits is owed one message, its request or the answer, and one
\* that does not wait is owed none (distributed.rs 177-193, 231).
THEOREM AnswerIsOwed == PartsSpec => []OneAnswerOwed
<1>1. ASSUME Dist!DistInv
      PROVE  OneAnswerOwed
  <2>1. ASSUME NEW n \in Dist!Nodes
        PROVE  /\ Dist!Cardinality(Dist!Owed(n)) <= IF waiting[n] THEN 1 ELSE 0
               /\ (\A v \in Dist!Nodes : ~Dist!Gone(v)) /\ waiting[n]
                     => Dist!Owed(n) # {}
    <3>1. MailOf(n)
        BY <1>1, MailIs DEF Dist!DistInv
    <3>2. CASE Dist!Owed(n) = {}
      <4>1. Dist!Cardinality(Dist!Owed(n)) = 0
          BY <3>2, FS_EmptySet, CountsSame
      <4> QED
          BY <3>1, <4>1 DEF MailOf
    <3>3. CASE Dist!Owed(n) # {}
      <4>1. waiting[n] /\ \E a : Dist!Owed(n) = {a}
          BY <3>1, <3>3 DEF MailOf
      <4>2. Dist!Cardinality(Dist!Owed(n)) = 1
          BY <4>1, FS_Singleton, CountsSame
      <4> QED
          BY <3>3, <4>1, <4>2
    <3> QED
        BY <3>2, <3>3
  <2> QED
      BY <2>1 DEF OneAnswerOwed, Dist!OneAnswerOwed
<1> QED
    BY <1>1, NodesInvariant, PTL

\* The nodes run every task once and return when all are done: they are one
\* pool of tasks (distributed.rs 20-25).
THEOREM NodesImplementPool == PartsSpec => ImplementsPool
<1>1. PartsInit => Dist!Pool!PoolInit
    BY NodesPoolStarts DEF PartsInit
<1>2. Dist!DistInv /\ [PartsNext]_partVars =>
          [Dist!Pool!PoolNext]_Dist!Pool!poolVars
    BY NodesPart
<1> QED
    BY <1>1, <1>2, NodesInvariant, PTL
       DEF PartsSpec, ImplementsPool, Dist!ImplementsPool, Dist!Pool!PoolSpec
=============================================================================
