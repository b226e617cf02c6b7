----------------------------- MODULE InlineProofs -----------------------------
(***************************************************************************)
(* Proofs that the inline deque gives every buffer back once and not       *)
(* before the last handle is gone, and that it is the atomic deque of      *)
(* TaskDeque: for any thieves, capacities, width of the indices, index to  *)
(* start from and number of values.                                        *)
(*                                                                         *)
(* The first depends on nothing of what the indices are.  Buffers are only *)
(* ever replaced by newer ones, so that the retire list is at all times    *)
(* the list of the older ones, newest first; that is what is inductive.    *)
(*                                                                         *)
(* The second is about indices that wrap.  Wrap picks from the numbers     *)
(* that differ by whole rounds the one that is an index, and every         *)
(* capacity divides a round, so that such numbers have the same cell.  The *)
(* code compares distances only; IndexInv says which distances occur, how  *)
(* old a top may be that a process remembers, and that they are all small  *)
(* enough to be what they seem.  ClaimInv says what the values are that    *)
(* an operation holds while its CAS may still succeed.                     *)
(***************************************************************************)
EXTENDS Inline, SequenceTheorems, FiniteSetTheorems, WellFoundedInduction,
        TLAPS

\* The buffers 1 to n, newest first.
Down(n) == [i \in 1..n |-> n + 1 - i]

IsSequence(s) == s \in Seq({s[i] : i \in DOMAIN s})

\* What is on the retire list, and what Inner::drop has freed.
RetireInv ==
    /\ IsSequence(bufs)
    /\ buffer = Len(bufs) /\ buffer \in Nat \ {0}
    /\ retired = Down(buffer - 1)
    /\ freed \in {<<>>, Down(buffer)}
    /\ ~Live => \A p \in Procs : pc[p] = "idle"

LEMMA DownFacts ==
    ASSUME NEW n \in Nat
    PROVE  /\ Down(n) \in Seq(1..n) /\ Len(Down(n)) = n
           /\ {Down(n)[i] : i \in DOMAIN Down(n)} = 1..n
           /\ <<n + 1>> \o Down(n) = Down(n + 1)
<1>1. Down(n) \in Seq(1..n) /\ Len(Down(n)) = n /\ DOMAIN Down(n) = 1..n
  <2>1. \A i \in 1..n : n + 1 - i \in 1..n
      OBVIOUS
  <2> QED
      BY <2>1 DEF Down
<1>2. {Down(n)[i] : i \in DOMAIN Down(n)} = 1..n
  <2>1. ASSUME NEW k \in 1..n
        PROVE  \E i \in 1..n : Down(n)[i] = k
    <3>1. n + 1 - k \in 1..n /\ n + 1 - (n + 1 - k) = k
        OBVIOUS
    <3> QED
        BY <3>1 DEF Down
  <2>2. \A i \in 1..n : Down(n)[i] \in 1..n
      BY DEF Down
  <2> QED
      BY <1>1, <2>1, <2>2
<1>3. <<n + 1>> \o Down(n) = Down(n + 1)
  <2>0. Down(n) \in Seq(Nat) /\ <<n + 1>> \in Seq(Nat)
    <3>1. 1..n \subseteq Nat
        OBVIOUS
    <3> QED
        BY <3>1, <1>1, SeqDef
  <2>1. PICK s \in Seq(Nat), d \in Seq(Nat) : s = <<n + 1>> /\ d = Down(n)
      BY <2>0
  <2>2. Len(s) = 1 /\ s[1] = n + 1 /\ Len(d) = n
      BY <1>1, <2>1
  <2>3. s \o d = [i \in 1..n + 1 |-> IF i <= 1 THEN s[i] ELSE d[i - 1]]
    <3>1. /\ s \o d \in Seq(Nat) /\ Len(s \o d) = n + 1
          /\ \A i \in 1..n + 1 :
                (s \o d)[i] = IF i <= 1 THEN s[i] ELSE d[i - 1]
        BY <2>1, <2>2, ConcatProperties
    <3>2. PICK f \in Seq(Nat) : f = s \o d
        BY <3>1
    <3>3. f \in [1..n + 1 -> Nat]
        BY <3>1, <3>2, LenProperties
    <3>4. f = [i \in 1..n + 1 |-> f[i]]
        BY <3>3
    <3> QED
        BY <3>1, <3>2, <3>4
  <2>4. \A i \in 1..n + 1 :
            (IF i <= 1 THEN s[i] ELSE d[i - 1]) = n + 1 + 1 - i
    <3>1. ASSUME NEW i \in 1..n + 1, i > 1
          PROVE  d[i - 1] = n + 1 + 1 - i
      <4>1. i - 1 \in 1..n /\ n + 1 - (i - 1) = n + 1 + 1 - i
          BY <3>1
      <4> QED
          BY <4>1, <2>1 DEF Down
    <3> QED
        BY <3>1, <2>2
  <2>5. s \o d = [i \in 1..n + 1 |-> n + 1 + 1 - i]
      BY <2>3, <2>4
  <2> QED
      BY <2>1, <2>5 DEF Down
<1> QED
    BY <1>1, <1>2, <1>3

\* A step that leaves the buffers and the two lists alone.
LEMMA RetireFrame ==
    ASSUME RetireInv, Live, UNCHANGED <<buffer, bufs, retired, freed>>
    PROVE  RetireInv'
BY DEF RetireInv, IsSequence, Live

\* Install makes the newest buffer the active one and retires the last.
LEMMA RetireInstall ==
    ASSUME RetireInv, Live, NEW cap, NEW b, NEW t, Install(cap, b, t)
    PROVE  RetireInv'
<1>1. PICK new, S : /\ new = Resized(bufs[buffer], cap, b, t)
                    /\ S = {bufs[i] : i \in DOMAIN bufs} \cup {new}
    OBVIOUS
<1>2. PICK n \in Nat : buffer = n + 1 /\ Len(bufs) = n + 1
  <2>1. buffer - 1 \in Nat /\ buffer = (buffer - 1) + 1
      BY DEF RetireInv
  <2> QED
      BY <2>1 DEF RetireInv
<1>3. bufs \in Seq(S)
  <2>1. {bufs[i] : i \in DOMAIN bufs} \subseteq S
      BY <1>1
  <2> QED
      BY <2>1, SeqDef DEF RetireInv, IsSequence
<1>4. bufs' = Append(bufs, new) /\ buffer' = n + 1 + 1
    BY <1>1, <1>2 DEF Install
<1>5. bufs' \in Seq(S) /\ Len(bufs') = n + 1 + 1
  <2>1. new \in S
      BY <1>1
  <2> QED
      BY <2>1, <1>2, <1>3, <1>4
<1>6. IsSequence(bufs')
    BY <1>5 DEF IsSequence
<1>7. retired' = Down(n + 1)
  <2>1. retired = Down(n)
    <3>1. buffer - 1 = n
        BY <1>2
    <3> QED
        BY <3>1 DEF RetireInv
  <2>2. retired' = <<n + 1>> \o Down(n)
      BY <2>1, <1>2 DEF Install
  <2> QED
      BY <2>2, DownFacts
<1>8. freed' = <<>>
    BY DEF Install, Live
<1>9. buffer' - 1 = n + 1
    BY <1>4
<1> QED
    BY <1>4, <1>5, <1>6, <1>7, <1>8, <1>9 DEF RetireInv, Live, IsSequence

\* The drop gives back the active buffer and then the retired ones.
LEMMA RetireDrop ==
    ASSUME RetireInv, Drop
    PROVE  RetireInv'
<1>1. PICK n \in Nat : n = buffer - 1 /\ buffer = n + 1
  <2>1. buffer - 1 \in Nat /\ buffer = (buffer - 1) + 1
      BY DEF RetireInv
  <2> QED
      BY <2>1
<1>2. freed' = Down(buffer)
  <2>1. freed' = <<n + 1>> \o Down(n)
      BY <1>1 DEF Drop, RetireInv
  <2> QED
      BY <2>1, <1>1, DownFacts
<1>3. /\ UNCHANGED <<buffer, bufs, retired, pc>>
      /\ \A p \in Procs : pc[p] = "idle"
    BY DEF Drop
<1> QED
    BY <1>2, <1>3 DEF RetireInv, IsSequence

LEMMA RetireInit == Init => RetireInv
<1> SUFFICES ASSUME Init
             PROVE  RetireInv
    OBVIOUS
<1>1. IsSequence(bufs) /\ Len(bufs) = 1
  <2>1. PICK cells : bufs = <<cells>>
      BY DEF Init
  <2>2. DOMAIN bufs = 1..1 /\ bufs[1] = cells /\ Len(bufs) = 1
      BY <2>1
  <2>3. {bufs[i] : i \in DOMAIN bufs} = {cells}
      BY <2>2
  <2>4. <<cells>> \in Seq({cells})
      OBVIOUS
  <2> QED
      BY <2>1, <2>2, <2>3, <2>4 DEF IsSequence
<1>2. Down(0) = <<>>
  <2>1. 0 \in Nat
      OBVIOUS
  <2>2. Down(0) \in Seq(1..0) /\ Len(Down(0)) = 0
      BY <2>1, DownFacts
  <2> QED
      BY <2>2, EmptySeq
<1> QED
    BY <1>1, <1>2 DEF Init, RetireInv, Live

LEMMA RetireStep == RetireInv /\ [Next]_vars => RetireInv'
<1> SUFFICES ASSUME RetireInv, [Next]_vars
             PROVE  RetireInv'
    OBVIOUS
<1>0. Owner \in Procs
    BY DEF Procs
<1>1. ASSUME NEW p \in Procs, pc[p] # "idle"
      PROVE  Live
    BY <1>1 DEF RetireInv
<1>2. CASE PushGrow
  <2>1. Live
      BY <1>0, <1>1, <1>2 DEF PushGrow
  <2>2. PICK cap : Install(cap, bottom, cachedTop)
      BY <1>2 DEF PushGrow
  <2> QED
      BY <2>1, <2>2, RetireInstall
<1>3. CASE PopShrink
  <2>1. Live
      BY <1>0, <1>1, <1>3 DEF PopShrink
  <2>2. PICK cap : Install(cap, bottom, regs[Owner].t)
      BY <1>3 DEF PopShrink
  <2> QED
      BY <2>1, <2>2, RetireInstall
<1>4. CASE PushWrite
  <2>1. PICK i, v : /\ bufs' = [bufs EXCEPT ![buffer][i] = v]
                    /\ UNCHANGED <<buffer, retired, freed>>
      BY <1>4 DEF PushWrite
  <2>2. PICK cells : bufs' = [bufs EXCEPT ![buffer] = cells]
      BY <2>1
  <2>3. PICK S : /\ S = {bufs[k] : k \in DOMAIN bufs} \cup {cells}
                 /\ bufs \in Seq(S)
    <3>1. PICK S : S = {bufs[k] : k \in DOMAIN bufs} \cup {cells}
        OBVIOUS
    <3>2. \A k \in DOMAIN bufs : bufs[k] \in S
        BY <3>1
    <3>3. PICK T : bufs \in Seq(T)
        BY DEF RetireInv, IsSequence
    <3>4. bufs \in Seq(S)
        BY <3>2, <3>3, SeqDef
    <3> QED
        BY <3>1, <3>4
  <2>4. buffer \in 1..Len(bufs)
      BY DEF RetireInv
  <2>5. bufs' \in Seq(S) /\ Len(bufs') = Len(bufs)
    <3>1. cells \in S
        BY <2>3
    <3> QED
        BY <3>1, <2>2, <2>3, <2>4, ExceptSeq
  <2>6. Live
      BY <1>0, <1>1, <1>4 DEF PushWrite
  <2>7. IsSequence(bufs')
      BY <2>5 DEF IsSequence
  <2> QED
      BY <2>1, <2>5, <2>6, <2>7 DEF RetireInv, Live, IsSequence
<1>5. CASE \/ PushBegin \/ PushLoadTop \/ PushPublish \/ PopBegin
           \/ PopFindEmpty \/ PopRestoreEmpty \/ PopTake \/ PopFindLast
           \/ PopCas \/ PopRestoreLast
  <2>1. UNCHANGED <<buffer, bufs, retired, freed>>
      BY <1>5 DEF PushBegin, PushLoadTop, PushPublish, PopBegin, PopFindEmpty,
         PopRestoreEmpty, PopTake, PopFindLast, PopCas, PopRestoreLast,
         memoryVars
  <2>2. Live
      BY <1>0, <1>1, <1>5 DEF PushBegin, PushLoadTop, PushPublish, PopBegin,
         PopFindEmpty, PopRestoreEmpty, PopTake, PopFindLast, PopCas,
         PopRestoreLast
  <2> QED
      BY <2>1, <2>2, RetireFrame
<1>6. ASSUME NEW p \in Thieves, Steal(p)
      PROVE  RetireInv'
  <2>0. p \in Procs
      BY DEF Procs
  <2>1. UNCHANGED <<buffer, bufs, retired, freed>>
      BY <1>6 DEF Steal, StealLoadTop, StealFindEmpty, StealFindValue,
         StealLoadBuffer, StealRead, StealCas, memoryVars
  <2>2. Live
      BY <2>0, <1>1, <1>6 DEF Steal, StealLoadTop, StealFindEmpty,
         StealFindValue, StealLoadBuffer, StealRead, StealCas
  <2> QED
      BY <2>1, <2>2, RetireFrame
<1>7. CASE Drop
    BY <1>7, RetireDrop
<1>8. CASE UNCHANGED vars
    BY <1>8 DEF vars, memoryVars, RetireInv, IsSequence, Live
<1> QED
    BY <1>2, <1>3, <1>4, <1>5, <1>6, <1>7, <1>8 DEF Next, Push, Pop

\* inline.rs 121-127: while a handle exists no buffer is given back, so that a
\* thief may read the one it has loaded however late; the drop, when nobody is
\* at work any more, then frees every buffer once.
THEOREM EveryBufferFreedOnce == Spec => []BuffersKept
<1>1. RetireInv => BuffersKept
  <2> SUFFICES ASSUME RetireInv, ~Live
               PROVE  /\ \A p \in Procs : pc[p] = "idle"
                      /\ Len(freed) = Len(bufs)
                      /\ {freed[i] : i \in DOMAIN freed} = DOMAIN bufs
      BY DEF BuffersKept
  <2>1. PICK n \in Nat : n = buffer
      BY DEF RetireInv
  <2>2. freed = Down(n) /\ Len(bufs) = n
      BY <2>1 DEF RetireInv, Live
  <2>3. DOMAIN bufs = 1..n
      BY <2>2, LenProperties DEF RetireInv, IsSequence
  <2>4. Len(freed) = n /\ {freed[i] : i \in DOMAIN freed} = 1..n
    <3>1. /\ Len(Down(n)) = n
          /\ {Down(n)[i] : i \in DOMAIN Down(n)} = 1..n
        BY DownFacts
    <3> QED
        BY <2>2, <3>1
  <2> QED
      BY <2>2, <2>3, <2>4 DEF RetireInv
<1> QED
    BY <1>1, RetireInit, RetireStep, PTL DEF Spec

-----------------------------------------------------------------------------
(* Indices that wrap.                                                      *)

Half == 2^(Width - 1)
Round == 2^Width

\* x and y differ by a number of whole rounds.
Congruent(x, y) == \E q \in Int : x = y + q * Round

\* A set of numbers that is not empty has a least one.
LEMMA LeastNat ==
    ASSUME NEW T \in SUBSET Nat, T # {}
    PROVE  \E x \in T : \A y \in T : x <= y
<1> DEFINE W == {0..x : x \in T}
           R == StrictSubsetOrdering(Nat)
<1>1. IsWellFoundedOn(R, FiniteSubsetsOf(Nat))
    BY FS_StrictSubsetOrderingWellFounded
<1>2. W \subseteq FiniteSubsetsOf(Nat) /\ W # {}
  <2>1. \A x \in T : 0..x \subseteq Nat /\ IsFiniteSet(0..x)
      BY FS_Interval
  <2> QED
      BY <2>1 DEF FiniteSubsetsOf
<1>3. \E w \in W : \A v \in W : ~(<<v, w>> \in R)
  <2> HIDE DEF W, R
  <2> QED
      BY <1>1, <1>2, WFMin
<1>4. PICK x \in T : \A y \in T : <<0..y, 0..x>> \notin R
    BY <1>3
<1>5. ASSUME NEW y \in T, y < x PROVE FALSE
  <2>1. 0..y \in SUBSET Nat /\ 0..x \in SUBSET Nat /\ 0..y \subseteq 0..x
      BY <1>5
  <2>2. x \in 0..x /\ x \notin 0..y
      BY <1>5
  <2>3. <<0..y, 0..x>> \in R
      BY <2>1, <2>2 DEF StrictSubsetOrdering
  <2> QED
      BY <1>4, <2>3
<1> QED
    BY <1>4, <1>5

\* Induction, for a set of numbers that is given.
LEMMA AllOfNat ==
    ASSUME NEW T \in SUBSET Nat, 0 \in T, \A n \in T : n + 1 \in T
    PROVE  T = Nat
<1> SUFFICES ASSUME Nat \ T # {}
             PROVE  FALSE
    OBVIOUS
<1>1. PICK x \in Nat \ T : \A y \in Nat \ T : x <= y
    BY LeastNat
<1>2. x - 1 \in Nat /\ x - 1 \in T
    BY <1>1
<1> QED
    BY <1>1, <1>2

LEMMA RoundFacts ==
    /\ Half \in Nat /\ Half > 0
    /\ Round \in Nat /\ Round = 2 * Half
    /\ Width \in Nat /\ Width > 0
    /\ Indices = -Half..Half - 1
    /\ \A i \in 0..Width : 2^i \in Nat /\ 2^i > 0
<1>1. Width \in Nat /\ Width > 0
    BY InlineAssumption
<1> DEFINE T == {i \in Nat : i <= Width => 2^i \in Nat /\ 2^i > 0}
<1>2. T = Nat
  <2>1. 0 \in T
      BY PowersOfTwo
  <2>2. ASSUME NEW i \in T
        PROVE  i + 1 \in T
    <3>1. CASE i \in 0..Width - 1
      <4>1. 2^(i + 1) = 2 * 2^i
          BY <3>1, PowersOfTwo
      <4>2. 2^i \in Nat /\ 2^i > 0
          BY <3>1, <1>1
      <4> QED
          BY <4>1, <4>2
    <3>2. CASE i \notin 0..Width - 1
        BY <3>2, <1>1
    <3> QED
        BY <3>1, <3>2
  <2> HIDE DEF T
  <2>3. T \in SUBSET Nat
      BY DEF T
  <2> QED
      BY <2>1, <2>2, <2>3, AllOfNat
<1>3. \A i \in 0..Width : 2^i \in Nat /\ 2^i > 0
    BY <1>1, <1>2
<1>4. 2^(Width - 1) \in Nat /\ 2^(Width - 1) > 0
    BY <1>1, <1>3
<1>5. 2^(Width - 1 + 1) = 2 * 2^(Width - 1)
    BY <1>1, PowersOfTwo
<1>6. Width - 1 + 1 = Width
    BY <1>1
<1> QED
    BY <1>1, <1>3, <1>4, <1>5, <1>6 DEF Half, Round, Indices

\* Wrap picks the one index that a number is congruent to.
LEMMA WrapFacts ==
    ASSUME NEW x \in Int
    PROVE  /\ Wrap(x) \in Indices /\ Wrap(x) \in Int
           /\ Congruent(Wrap(x), x)
           /\ \A y \in Indices : Congruent(y, x) => Wrap(x) = y
<1> DEFINE H == Half
           R == Round
           q == (x + H) \div R
<1>0. H \in Int /\ R \in Int /\ R > 0 /\ R = 2 * H /\ Indices = -H..H - 1
    BY RoundFacts
<1>1. Wrap(x) = ((x + H) % R) - H
    BY DEF Wrap, Half, Round
<1> HIDE DEF H, R
<1>2. /\ x + H \in Int /\ q \in Int /\ (x + H) % R \in 0..R - 1
      /\ x + H = R * q + ((x + H) % R)
    BY <1>0
<1> HIDE DEF q
<1>3. Wrap(x) \in Indices /\ Wrap(x) \in Int
    BY <1>0, <1>1, <1>2
<1>4. Wrap(x) = x + (-q) * R /\ -q \in Int
    BY <1>0, <1>1, <1>2
<1>5. Congruent(Wrap(x), x)
    BY <1>4 DEF Congruent, R
<1>6. ASSUME NEW y \in Indices, Congruent(y, x)
      PROVE  Wrap(x) = y
  <2>1. PICK p \in Int : y = x + p * R
      BY <1>6 DEF Congruent, R
  <2>2. y \in Int /\ y - Wrap(x) = (p + q) * R
      BY <1>0, <1>4, <1>2, <2>1
  <2>3. y - Wrap(x) < R /\ Wrap(x) - y < R
      BY <1>0, <1>3, <2>2
  <2>4. PICK d \in Int : d = p + q
      BY <1>2
  <2>5. d * R < R /\ -(d * R) < R
      BY <2>2, <2>3, <2>4, <1>3
  <2>6. d = 0
      BY <2>5, <1>0
  <2> QED
      BY <2>2, <2>4, <2>6, <1>0, <1>3
<1> QED
    BY <1>3, <1>5, <1>6

LEMMA CongruentFacts ==
    ASSUME NEW x \in Int, NEW y \in Int, Congruent(x, y)
    PROVE  /\ Congruent(y, x)
           /\ \A z \in Int : Congruent(y, z) => Congruent(x, z)
           /\ \A z \in Int : Congruent(x + z, y + z) /\ Congruent(z - x, z - y)
<1> DEFINE R == Round
<1>0. R \in Int
    BY RoundFacts
<1>1. PICK q \in Int : x = y + q * R
    BY DEF Congruent
<1> HIDE DEF R
<1>2. -q \in Int /\ y = x + (-q) * R
    BY <1>0, <1>1
<1>3. ASSUME NEW z \in Int, Congruent(y, z)
      PROVE  Congruent(x, z)
  <2>1. PICK p \in Int : y = z + p * R
      BY <1>3 DEF Congruent, R
  <2>2. x = z + (p + q) * R /\ p + q \in Int
      BY <1>0, <1>1, <2>1
  <2> QED
      BY <2>2 DEF Congruent, R
<1>4. ASSUME NEW z \in Int
      PROVE  Congruent(x + z, y + z) /\ Congruent(z - x, z - y)
  <2>1. x + z = (y + z) + q * R
      BY <1>0, <1>1
  <2>2. z - x = (z - y) + (-q) * R
      BY <1>0, <1>1
  <2> QED
      BY <2>1, <2>2, <1>2 DEF Congruent, R
<1> QED
    BY <1>2, <1>3, <1>4 DEF Congruent, R

\* The same is added on both sides.
LEMMA CongruentPlus ==
    ASSUME NEW x \in Int, NEW y \in Int, NEW z \in Int, Congruent(x, y)
    PROVE  Congruent(x + z, y + z)
BY CongruentFacts

\* Two numbers that are congruent wrap to the same index.
LEMMA WrapCongruent ==
    ASSUME NEW x \in Int, NEW y \in Int, Congruent(x, y)
    PROVE  Wrap(x) = Wrap(y)
<1>1. Wrap(x) \in Indices /\ Wrap(x) \in Int /\ Congruent(Wrap(x), x)
    BY WrapFacts
<1>2. Congruent(Wrap(x), y)
    BY <1>1, CongruentFacts
<1> QED
    BY <1>1, <1>2, WrapFacts

\* An index wraps to itself.
LEMMA WrapIndex ==
    ASSUME NEW x \in Indices
    PROVE  Wrap(x) = x /\ x \in Int
<1>1. x \in Int
    BY RoundFacts
<1>2. Congruent(x, x)
  <2>1. x = x + 0 * Round /\ 0 \in Int
      BY <1>1, RoundFacts
  <2> QED
      BY <2>1 DEF Congruent
<1> QED
    BY <1>1, <1>2, WrapFacts

\* Wrapping inside a sum or a difference makes no difference.
LEMMA WrapInside ==
    ASSUME NEW x \in Int, NEW y \in Int
    PROVE  /\ Wrap(Wrap(x) + y) = Wrap(x + y)
           /\ Wrap(Wrap(x) - y) = Wrap(x - y)
           /\ Wrap(y + Wrap(x)) = Wrap(y + x)
           /\ Wrap(y - Wrap(x)) = Wrap(y - x)
<1>1. Wrap(x) \in Int /\ Congruent(Wrap(x), x)
    BY WrapFacts
<1>2. PICK w \in Int : w = Wrap(x)
    BY <1>1
<1>3. -y \in Int /\ w + (-y) = w - y /\ x + (-y) = x - y
      /\ w + y = y + w /\ x + y = y + x
    OBVIOUS
<1>4. Congruent(w + y, x + y) /\ Congruent(y - w, y - x)
    BY <1>1, <1>2, CongruentFacts
<1>5. Congruent(w + (-y), x + (-y))
    BY <1>1, <1>2, <1>3, CongruentFacts
<1>6. Wrap(w + y) = Wrap(x + y)
    BY <1>4, WrapCongruent
<1>7. Wrap(y - w) = Wrap(y - x)
    BY <1>4, WrapCongruent
<1>8. Wrap(w - y) = Wrap(x - y)
    BY <1>3, <1>5, WrapCongruent
<1> QED
    BY <1>2, <1>3, <1>6, <1>7, <1>8

\* What the code's arithmetic on indices amounts to.
LEMMA IndexArithmetic ==
    ASSUME NEW i \in Indices, NEW j \in Indices
    PROVE  /\ Minus(i, j) \in Indices /\ Minus(i, j) \in Int
           /\ (Minus(i, j) = 0) <=> (i = j)
           /\ Wrap(j + Minus(i, j)) = i
           /\ Succ(i) \in Indices /\ Wrap(i - 1) \in Indices
           /\ Succ(Wrap(i - 1)) = i /\ Wrap(Succ(i) - 1) = i
           /\ Minus(Succ(i), j) = Wrap(Minus(i, j) + 1)
           /\ Minus(Wrap(i - 1), j) = Wrap(Minus(i, j) - 1)
           /\ Minus(i, Succ(j)) = Wrap(Minus(i, j) - 1)
           /\ \A k \in Indices : Minus(i, k) = Wrap(Minus(i, j) + Minus(j, k))
<1>0. i \in Int /\ j \in Int /\ Wrap(i) = i /\ Wrap(j) = j
    BY WrapIndex
<1>1. i - j \in Int /\ Minus(i, j) = Wrap(i - j)
    BY <1>0 DEF Minus
<1>2. Minus(i, j) \in Indices /\ Minus(i, j) \in Int
    BY <1>1, WrapFacts
<1>3. Wrap(j + Minus(i, j)) = i
  <2>1. Wrap(j + Wrap(i - j)) = Wrap(j + (i - j))
      BY <1>0, <1>1, WrapInside
  <2>2. j + (i - j) = i
      BY <1>0
  <2> QED
      BY <2>1, <2>2, <1>0, <1>1
<1>4. (Minus(i, j) = 0) <=> (i = j)
  <2>1. ASSUME Minus(i, j) = 0
        PROVE  i = j
    <3>1. j + 0 = j
        BY <1>0
    <3> QED
        BY <1>3, <2>1, <3>1, <1>0
  <2>2. ASSUME i = j
        PROVE  Minus(i, j) = 0
    <3>1. i - j = 0 /\ 0 \in Indices
        BY <1>0, <2>2, RoundFacts
    <3> QED
        BY <1>1, <3>1, WrapIndex
  <2> QED
      BY <2>1, <2>2
<1>5. Succ(i) \in Indices /\ Wrap(i - 1) \in Indices
  <2>1. i + 1 \in Int /\ i - 1 \in Int
      BY <1>0
  <2> QED
      BY <2>1, WrapFacts DEF Succ
<1>6. Succ(Wrap(i - 1)) = i /\ Wrap(Succ(i) - 1) = i
  <2>1. i + 1 \in Int /\ i - 1 \in Int /\ 1 \in Int
        /\ (i - 1) + 1 = i /\ (i + 1) - 1 = i
      BY <1>0
  <2>2. Wrap(Wrap(i - 1) + 1) = Wrap((i - 1) + 1)
      BY <2>1, WrapInside
  <2>3. Wrap(Wrap(i + 1) - 1) = Wrap((i + 1) - 1)
      BY <2>1, WrapInside
  <2> QED
      BY <2>1, <2>2, <2>3, <1>0 DEF Succ
<1>7. Minus(Succ(i), j) = Wrap(Minus(i, j) + 1)
  <2>1. i + 1 \in Int /\ 1 \in Int /\ (i + 1) - j = (i - j) + 1
      BY <1>0
  <2>2. Wrap(Wrap(i + 1) - j) = Wrap((i + 1) - j)
      BY <2>1, <1>0, WrapInside
  <2>3. Wrap(Wrap(i - j) + 1) = Wrap((i - j) + 1)
      BY <2>1, <1>1, WrapInside
  <2> QED
      BY <2>1, <2>2, <2>3 DEF Succ, Minus
<1>8. Minus(Wrap(i - 1), j) = Wrap(Minus(i, j) - 1)
  <2>1. i - 1 \in Int /\ 1 \in Int /\ (i - 1) - j = (i - j) - 1
      BY <1>0
  <2>2. Wrap(Wrap(i - 1) - j) = Wrap((i - 1) - j)
      BY <2>1, <1>0, WrapInside
  <2>3. Wrap(Wrap(i - j) - 1) = Wrap((i - j) - 1)
      BY <2>1, <1>1, WrapInside
  <2> QED
      BY <2>1, <2>2, <2>3 DEF Minus
<1>9. Minus(i, Succ(j)) = Wrap(Minus(i, j) - 1)
  <2>1. j + 1 \in Int /\ 1 \in Int /\ i - (j + 1) = (i - j) - 1
      BY <1>0
  <2>2. Wrap(i - Wrap(j + 1)) = Wrap(i - (j + 1))
      BY <2>1, <1>0, WrapInside
  <2>3. Wrap(Wrap(i - j) - 1) = Wrap((i - j) - 1)
      BY <2>1, <1>1, WrapInside
  <2> QED
      BY <2>1, <2>2, <2>3 DEF Succ, Minus
<1>10. ASSUME NEW k \in Indices
       PROVE  Minus(i, k) = Wrap(Minus(i, j) + Minus(j, k))
  <2>1. k \in Int /\ j - k \in Int /\ (i - j) + (j - k) = i - k
      BY <1>0, WrapIndex
  <2>2. Wrap(j - k) \in Int
      BY <2>1, WrapFacts
  <2>3. Wrap(Wrap(i - j) + Wrap(j - k)) = Wrap((i - j) + Wrap(j - k))
      BY <1>1, <2>2, WrapInside
  <2>4. Wrap((i - j) + Wrap(j - k)) = Wrap((i - j) + (j - k))
      BY <1>1, <2>1, WrapInside
  <2> QED
      BY <2>1, <2>3, <2>4 DEF Minus
<1> QED
    BY <1>2, <1>3, <1>4, <1>5, <1>6, <1>7, <1>8, <1>9, <1>10

\* A difference is zero between equal indices only.
LEMMA MinusIsZero ==
    \A i, j \in Indices :
        Minus(i, j) \in Int /\ ((Minus(i, j) = 0) <=> (i = j))
<1> SUFFICES ASSUME NEW i \in Indices, NEW j \in Indices
             PROVE  Minus(i, j) \in Int /\ ((Minus(i, j) = 0) <=> (i = j))
    OBVIOUS
<1> QED
    BY IndexArithmetic

-----------------------------------------------------------------------------
(* The ring.                                                               *)

Capacities == {2^i : i \in 0..Width}
Rings == UNION {[0..c - 1 -> Nat] : c \in Capacities}

\* Every capacity divides the number of indices, so that a round ends where a
\* turn of the ring ends.
LEMMA CapacityDivides ==
    ASSUME NEW c \in Capacities
    PROVE  c \in Nat /\ c > 0 /\ \E m \in Int : Round = m * c
<1>0. /\ Width \in Nat /\ Round = 2^Width /\ Round \in Nat
      /\ \A i \in 0..Width : 2^i \in Nat /\ 2^i > 0
    BY RoundFacts DEF Round
<1> DEFINE T == {n \in Nat : n <= Width =>
                    \E m \in Int : Round = m * 2^(Width - n)}
<1>1. T = Nat
  <2>1. 0 \in T
    <3>1. Width - 0 = Width /\ Round = 1 * Round /\ 1 \in Int
        BY <1>0
    <3> QED
        BY <1>0, <3>1
  <2>2. ASSUME NEW n \in T
        PROVE  n + 1 \in T
    <3> SUFFICES ASSUME n + 1 <= Width
                 PROVE  \E m \in Int : Round = m * 2^(Width - (n + 1))
        OBVIOUS
    <3>1. PICK k \in 0..Width - 1 : k = Width - (n + 1) /\ k + 1 = Width - n
        BY <1>0
    <3>2. PICK m \in Int : Round = m * 2^(k + 1)
        BY <3>1, <1>0
    <3>3. 2^(k + 1) = 2 * 2^k
        BY <3>1, PowersOfTwo
    <3>4. PICK a \in Nat : a = 2^k
        BY <1>0, <3>1
    <3>5. Round = (m * 2) * a /\ m * 2 \in Int
        BY <3>2, <3>3, <3>4
    <3> QED
        BY <3>1, <3>4, <3>5
  <2> HIDE DEF T
  <2>3. T \in SUBSET Nat
      BY DEF T
  <2> QED
      BY <2>1, <2>2, <2>3, AllOfNat
<1>2. PICK i \in 0..Width : c = 2^i
    BY DEF Capacities
<1>3. Width - i \in Nat /\ Width - i <= Width /\ Width - (Width - i) = i
    BY <1>0
<1>4. \E m \in Int : Round = m * 2^(Width - (Width - i))
    BY <1>1, <1>3
<1> QED
    BY <1>0, <1>2, <1>3, <1>4

\* The capacities that a deque starts with, grows to and shrinks to.
LEMMA CapacityFacts ==
    /\ InitCap \in Capacities /\ MinCapacity \in Capacities
    /\ \A c \in Capacities : c <= Half => 2 * c \in Capacities
    /\ \A c \in Capacities : c > 1 => /\ c \div 2 \in Capacities
                                      /\ c = 2 * (c \div 2)
<1>0. /\ Width \in Nat /\ Round = 2^Width /\ Round = 2 * Half
      /\ Half \in Nat /\ Half > 0
      /\ \A i \in 0..Width : 2^i \in Nat /\ 2^i > 0
    BY RoundFacts DEF Round
<1>1. InitCap \in Capacities /\ MinCapacity \in Capacities
    BY <1>0, InlineAssumption DEF Capacities
<1>2. ASSUME NEW c \in Capacities, c <= Half
      PROVE  2 * c \in Capacities
  <2>1. PICK i \in 0..Width : c = 2^i
      BY DEF Capacities
  <2>2. i # Width
      BY <1>0, <1>2, <2>1
  <2>3. i \in 0..Width - 1 /\ i + 1 \in 0..Width
      BY <1>0, <2>2
  <2> QED
      BY <2>1, <2>3, PowersOfTwo DEF Capacities
<1>3. ASSUME NEW c \in Capacities, c > 1
      PROVE  c \div 2 \in Capacities /\ c = 2 * (c \div 2)
  <2>1. PICK i \in 0..Width : c = 2^i
      BY DEF Capacities
  <2>2. i # 0
    <3> SUFFICES ASSUME i = 0
                 PROVE  FALSE
        OBVIOUS
    <3>1. c = 1
        BY <2>1, PowersOfTwo
    <3> QED
        BY <3>1, <1>3
  <2>3. PICK k \in 0..Width - 1 : i = k + 1
    <3>1. i - 1 \in 0..Width - 1 /\ i = (i - 1) + 1
        BY <1>0, <2>2
    <3> QED
        BY <3>1
  <2>4. c = 2 * 2^k
      BY <2>1, <2>3, PowersOfTwo
  <2>5. k \in 0..Width
      BY <1>0
  <2>6. PICK a \in Nat : a = 2^k
      BY <1>0, <2>5
  <2>7. c = 2 * a /\ c \div 2 = a
      BY <2>4, <2>6
  <2> QED
      BY <2>5, <2>6, <2>7 DEF Capacities
<1> QED
    BY <1>1, <1>2, <1>3

\* Two indices less than a turn apart have different cells.
LEMMA SlotInjective ==
    ASSUME NEW cap \in Nat, cap > 0, NEW i \in Int, NEW j \in Int,
           i - j < cap, j - i < cap, Slot(i, cap) = Slot(j, cap)
    PROVE  i = j
<1>1. i % cap = j % cap
    BY DEF Slot
<1> DEFINE q == i \div cap
           r == j \div cap
<1>2. /\ i = cap * q + (i % cap) /\ j = cap * r + (j % cap)
      /\ q \in Int /\ r \in Int
    OBVIOUS
<1> HIDE DEF q, r
<1>3. i - j = cap * (q - r)
    BY <1>1, <1>2
<1>4. CASE q > r
    BY <1>2, <1>3, <1>4
<1>5. CASE q < r
    BY <1>2, <1>3, <1>5
<1> QED
    BY <1>2, <1>3, <1>4, <1>5

\* Numbers that are congruent have the same cell, wrapped or not.
LEMMA SlotCongruent ==
    ASSUME NEW cap \in Capacities, NEW x \in Int, NEW y \in Int,
           Congruent(x, y)
    PROVE  Slot(x, cap) = Slot(y, cap) /\ Slot(x, cap) \in 0..cap - 1
<1>0. cap \in Nat /\ cap > 0
    BY CapacityDivides
<1>1. PICK m \in Int : Round = m * cap
    BY CapacityDivides
<1>2. PICK q \in Int : x = y + q * Round
    BY DEF Congruent
<1>3. PICK k \in Int : k = q * m
    OBVIOUS
<1>4. x = y + k * cap
    BY <1>0, <1>1, <1>2, <1>3
<1>5. PICK r \in 0..cap - 1, s \in 0..cap - 1, a \in Int, b \in Int :
          /\ x = cap * a + r /\ r = x % cap
          /\ y = cap * b + s /\ s = y % cap
  <2>1. /\ x % cap \in 0..cap - 1 /\ x \div cap \in Int
        /\ x = cap * (x \div cap) + (x % cap)
      BY <1>0
  <2>2. /\ y % cap \in 0..cap - 1 /\ y \div cap \in Int
        /\ y = cap * (y \div cap) + (y % cap)
      BY <1>0
  <2> QED
      BY <2>1, <2>2
<1>6. r - s = (b + k - a) * cap
    BY <1>0, <1>4, <1>5
<1>7. PICK d \in Int : d = b + k - a
    OBVIOUS
<1>8. d * cap < cap /\ -(d * cap) < cap
    BY <1>0, <1>5, <1>6, <1>7
<1>9. d = 0
    BY <1>0, <1>8
<1>10. r = s
    BY <1>0, <1>6, <1>7, <1>9
<1> QED
    BY <1>5, <1>10 DEF Slot

\* A buffer, the cell that a number selects from it and the same in terms of
\* the wrapped number.
LEMMA RingFacts ==
    ASSUME NEW buf \in Rings
    PROVE  /\ CapOf(buf) \in Capacities
           /\ buf \in [0..CapOf(buf) - 1 -> Nat]
           /\ \A x \in Int : CellOf(buf, x) \in Nat
           /\ \A x, y \in Int :
                Congruent(x, y) => CellOf(buf, x) = CellOf(buf, y)
<1>1. PICK c \in Capacities : buf \in [0..c - 1 -> Nat]
    BY DEF Rings
<1>2. c \in Nat /\ c > 0
    BY CapacityDivides
<1>3. CapOf(buf) = c
  <2>1. DOMAIN buf = 0..c - 1
      BY <1>1
  <2>2. c - 1 \in Int /\ 0 \in Int /\ c - 1 - 0 + 1 = c /\ 0 <= c - 1
      BY <1>2
  <2>3. Cardinality(0..c - 1) = c
      BY <2>2, FS_Interval
  <2> QED
      BY <2>1, <2>3 DEF CapOf
<1>4. ASSUME NEW x \in Int
      PROVE  CellOf(buf, x) \in Nat
  <2>1. Slot(x, c) \in 0..c - 1
      BY <1>2 DEF Slot
  <2> QED
      BY <1>1, <1>3, <2>1 DEF CellOf
<1>5. ASSUME NEW x \in Int, NEW y \in Int, Congruent(x, y)
      PROVE  CellOf(buf, x) = CellOf(buf, y)
    BY <1>3, <1>5, SlotCongruent DEF CellOf
<1> QED
    BY <1>1, <1>3, <1>4, <1>5

LEMMA WrapCell ==
    ASSUME NEW buf \in Rings, NEW x \in Int
    PROVE  CellOf(buf, Wrap(x)) = CellOf(buf, x)
<1>1. Wrap(x) \in Int /\ Congruent(Wrap(x), x)
    BY WrapFacts
<1> QED
    BY <1>1, RingFacts

\* A resize keeps what every index in the copied range selects.
LEMMA ResizedCell ==
    ASSUME NEW old \in Rings, NEW newCap \in Capacities,
           NEW b \in Indices, NEW t \in Indices, Minus(b, t) <= newCap
    PROVE  /\ Resized(old, newCap, b, t) \in Rings
           /\ CapOf(Resized(old, newCap, b, t)) = newCap
           /\ \A k \in 0..Minus(b, t) - 1 :
                CellOf(Resized(old, newCap, b, t), t + k) = CellOf(old, t + k)
<1> DEFINE n == Minus(b, t)
           new == Resized(old, newCap, b, t)
           live(s) == {k \in 0..n - 1 : Slot(Wrap(t + k), newCap) = s}
           cell(s) == IF live(s) = {} THEN 0
                      ELSE CellOf(old, Wrap(t + CHOOSE k \in live(s) : TRUE))
<1>0. /\ newCap \in Nat /\ newCap > 0 /\ t \in Int /\ n \in Int
      /\ n <= newCap
    BY CapacityDivides, WrapIndex, IndexArithmetic
<1>1. new = [s \in 0..newCap - 1 |-> cell(s)]
    BY DEF Resized
<1>2. ASSUME NEW s \in 0..newCap - 1
      PROVE  cell(s) \in Nat
  <2>1. CASE live(s) = {}
      BY <2>1
  <2>2. CASE live(s) # {}
    <3>1. PICK k \in live(s) : k = CHOOSE j \in live(s) : TRUE
        BY <2>2
    <3>2. t + k \in Int
        BY <1>0
    <3>3. Wrap(t + k) \in Int
        BY <3>2, WrapFacts
    <3>4. CellOf(old, Wrap(t + k)) \in Nat
        BY <3>3, RingFacts
    <3> QED
        BY <2>2, <3>1, <3>4
  <2> QED
      BY <2>1, <2>2
<1>3. new \in [0..newCap - 1 -> Nat]
  <2> HIDE DEF cell, new
  <2> QED
      BY <1>1, <1>2
<1>4. new \in Rings
    BY <1>3 DEF Rings
<1>5. CapOf(new) = newCap
  <2> HIDE DEF new
  <2>1. DOMAIN new = 0..newCap - 1
      BY <1>3
  <2>2. newCap - 1 \in Int /\ 0 \in Int /\ newCap - 1 - 0 + 1 = newCap
        /\ 0 <= newCap - 1
      BY <1>0
  <2>3. Cardinality(0..newCap - 1) = newCap
      BY <2>2, FS_Interval
  <2> QED
      BY <2>1, <2>3 DEF CapOf
<1>6. ASSUME NEW k \in 0..n - 1
      PROVE  CellOf(new, t + k) = CellOf(old, t + k)
  <2> DEFINE s == Slot(t + k, newCap)
  <2>1. t + k \in Int /\ k \in Int
      BY <1>0
  <2>2. ASSUME NEW j \in 0..n - 1
        PROVE  Slot(Wrap(t + j), newCap) = Slot(t + j, newCap)
    <3>1. t + j \in Int
        BY <1>0
    <3>2. Wrap(t + j) \in Int /\ Congruent(Wrap(t + j), t + j)
        BY <3>1, WrapFacts
    <3> QED
        BY <3>1, <3>2, SlotCongruent
  <2>3. k \in live(s)
      BY <2>2
  <2>4. ASSUME NEW j \in live(s)
        PROVE  j = k
    <3>1. Slot(t + j, newCap) = Slot(t + k, newCap)
        BY <2>2, <2>4
    <3>2. t + j \in Int /\ (t + j) - (t + k) < newCap
          /\ (t + k) - (t + j) < newCap /\ j \in Int
        BY <1>0, <2>1, <2>4
    <3>3. t + j = t + k
        BY <3>1, <3>2, <2>1, <1>0, SlotInjective
    <3> QED
        BY <3>2, <3>3, <1>0
  <2>5. (CHOOSE j \in live(s) : TRUE) = k
    <3> HIDE DEF live, s
    <3> QED
        BY <2>3, <2>4
  <2>6. s \in 0..newCap - 1
      BY <2>1, <1>0 DEF Slot
  <2>7. new[s] = cell(s)
    <3> HIDE DEF cell, new, s
    <3> QED
        BY <1>1, <2>6
  <2>8. cell(s) = CellOf(old, Wrap(t + k))
    <3>1. live(s) # {}
        BY <2>3
    <3> HIDE DEF live, s
    <3> QED
        BY <3>1, <2>5
  <2>9. CellOf(old, Wrap(t + k)) = CellOf(old, t + k)
      BY <2>1, WrapCell
  <2>10. CellOf(new, t + k) = new[s]
      BY <1>5 DEF CellOf
  <2> QED
      BY <2>7, <2>8, <2>9, <2>10
<1> QED
    BY <1>4, <1>5, <1>6

-----------------------------------------------------------------------------
(* Indices of a deque into which fewer values are put than there are        *)
(* positive indices.                                                       *)

FewPuts == MaxPush + 2 <= 2^(Width - 1)

PushPc == {"push_top", "push_grow", "push_write", "push_publish"}
PopPc == {"pop_top", "pop_empty", "pop_shrink", "pop_cas", "pop_restore"}
StealPc == {"steal_bottom", "steal_buffer", "steal_read", "steal_cas"}

TypeInv ==
    /\ top \in Indices /\ bottom \in Indices /\ cachedTop \in Indices
    /\ bufs \in Seq(Rings) /\ buffer \in 1..Len(bufs)
    /\ pc \in [Procs -> {"idle"} \cup PushPc \cup PopPc \cup StealPc]
    /\ regs \in [Procs -> [t : Indices, buf : Nat, bits : Nat]]
    /\ \A p \in Procs :
         /\ pc[p] = "steal_read" => regs[p].buf \in 1..Len(bufs)
         /\ pc[p] \in PushPc \cup PopPc => p = Owner
         /\ pc[p] \in StealPc => p # Owner
    /\ recipients \in Seq(Seq(Procs))

\* How many values there are, and how far top has come since it was x.
Size == Minus(EffectiveBottom, top)
Lag(x) == Minus(top, x)

\* x is an index that top had since the first put, or the one before.
Recent(x) == Lag(x) >= 0 /\ Lag(x) + Size <= Len(recipients) + 1

\* The heart of the algorithm: a thief whose CAS would succeed is after a value
\* that is there, however long ago it looked at bottom.
TimelyInv(p) ==
    pc[p] \in StealPc =>
        /\ Recent(regs[p].t)
        /\ pc[p] # "steal_bottom" /\ regs[p].t = top => Size > 0

\* Why no wrapped difference misleads, as an inductive invariant.
IndexInv ==
    /\ Len(recipients) <= MaxPush
    /\ 0 <= Size /\ Size < ActiveCap /\ Size <= Len(recipients)
    /\ Recent(cachedTop)
    /\ pc[Owner] \in PushPc => Len(recipients) < MaxPush
    /\ pc[Owner] \in {"push_write", "push_publish"} => Size < ActiveCap - 1
    /\ pc[Owner] = "push_grow" =>
          /\ Lag(cachedTop) + Size < ActiveCap
          /\ ActiveCap <= Lag(cachedTop) + Size + 1
    /\ pc[Owner] = "pop_shrink" =>
          /\ Recent(regs[Owner].t)
          /\ ShrinkWanted(Lag(regs[Owner].t) + Size, ActiveCap)
    /\ pc[Owner] = "pop_empty" => regs[Owner].t = top /\ Size = 0
    /\ pc[Owner] = "pop_cas" => regs[Owner].t = bottom /\ Size <= 1
    /\ pc[Owner] = "pop_restore" => regs[Owner].t = bottom /\ Size = 0
    /\ \A p \in Thieves : TimelyInv(p)

Popping == {"pop_top", "pop_empty", "pop_cas", "pop_restore"}

LEMMA TypeFacts ==
    ASSUME TypeInv
    PROVE  /\ Owner \in Procs /\ Thieves \subseteq Procs /\ Owner \notin Thieves
           /\ EffectiveBottom \in Indices
           /\ ActiveCap \in Capacities /\ ActiveCap \in Nat /\ ActiveCap > 0
           /\ bufs[buffer] \in Rings
           /\ Len(recipients) \in Nat
           /\ \A p \in Procs : regs[p].t \in Indices
<1>1. Owner \in Procs /\ Thieves \subseteq Procs /\ Owner \notin Thieves
    BY InlineAssumption DEF Procs
<1>2. EffectiveBottom \in Indices
    BY IndexArithmetic DEF TypeInv, EffectiveBottom
<1>3. bufs[buffer] \in Rings
    BY DEF TypeInv
<1>4. ActiveCap \in Capacities
    BY <1>3, RingFacts DEF ActiveCap
<1>5. ActiveCap \in Nat /\ ActiveCap > 0
    BY <1>4, CapacityDivides
<1> QED
    BY <1>1, <1>2, <1>3, <1>4, <1>5 DEF TypeInv

\* The wrapped differences that the operations compare are the true ones.
LEMMA Distances ==
    ASSUME TypeInv, IndexInv, FewPuts
    PROVE  /\ Size \in Int
           /\ \A x \in Indices : /\ Lag(x) \in Int
                                 /\ Lag(x) = 0 <=> x = top
           /\ pc[Owner] \notin Popping =>
                /\ EffectiveBottom = bottom
                /\ \A x \in Indices :
                      Recent(x) => Minus(bottom, x) = Lag(x) + Size
           /\ pc[Owner] \in Popping =>
                /\ EffectiveBottom = Succ(bottom)
                /\ bottom = Wrap(EffectiveBottom - 1)
                /\ \A x \in Indices :
                      Recent(x) => Minus(bottom, x) = Lag(x) + Size - 1
           /\ \A d \in Int :
                -1 <= d /\ d <= Len(recipients) + 1 => d \in Indices
<1>0. /\ EffectiveBottom \in Indices /\ top \in Indices /\ bottom \in Indices
      /\ Len(recipients) \in Nat /\ Len(recipients) <= MaxPush
      /\ MaxPush \in Nat
      /\ Half \in Nat /\ Half > 0 /\ Indices = -Half..Half - 1
      /\ MaxPush + 2 <= Half
    BY TypeFacts, RoundFacts, InlineAssumption
    DEF TypeInv, IndexInv, FewPuts, Half
<1>1. Size \in Int /\ 0 <= Size
    BY <1>0, IndexArithmetic DEF Size, IndexInv
<1>2. ASSUME NEW x \in Indices
      PROVE  Lag(x) \in Int /\ (Lag(x) = 0 <=> x = top)
  <2>1. Minus(top, x) \in Int /\ ((Minus(top, x) = 0) <=> (top = x))
      BY <1>0, MinusIsZero
  <2> QED
      BY <2>1 DEF Lag
<1>3. ASSUME NEW d \in Int, -1 <= d, d <= Len(recipients) + 1
      PROVE  d \in Indices
    BY <1>0, <1>3
<1>4. ASSUME NEW x \in Indices, Recent(x)
      PROVE  Minus(EffectiveBottom, x) = Lag(x) + Size
  <2>1. Minus(EffectiveBottom, x) = Wrap(Size + Lag(x))
      BY <1>0, IndexArithmetic DEF Size, Lag
  <2>2. PICK d \in Int : d = Size + Lag(x) /\ d = Lag(x) + Size
      BY <1>1, <1>2
  <2>3. d \in Indices
    <3>1. -1 <= d /\ d <= Len(recipients) + 1
        BY <1>0, <1>1, <1>2, <1>4, <2>2 DEF Recent
    <3> QED
        BY <3>1, <1>3
  <2> QED
      BY <2>1, <2>2, <2>3, WrapIndex
<1>5. ASSUME pc[Owner] \in Popping
      PROVE  /\ EffectiveBottom = Succ(bottom)
             /\ bottom = Wrap(EffectiveBottom - 1)
             /\ \A x \in Indices :
                   Recent(x) => Minus(bottom, x) = Lag(x) + Size - 1
  <2>1. EffectiveBottom = Succ(bottom)
      BY <1>5 DEF EffectiveBottom, Popping
  <2>2. bottom = Wrap(EffectiveBottom - 1)
      BY <2>1, <1>0, IndexArithmetic
  <2>3. ASSUME NEW x \in Indices, Recent(x)
        PROVE  Minus(bottom, x) = Lag(x) + Size - 1
    <3>1. Minus(bottom, x) = Wrap(Minus(EffectiveBottom, x) - 1)
        BY <2>2, <1>0, IndexArithmetic
    <3>2. PICK d \in Int : d = Lag(x) + Size - 1
        BY <1>1, <1>2
    <3>3. -1 <= d /\ d <= Len(recipients) + 1
        BY <1>0, <1>1, <1>2, <2>3, <3>2 DEF Recent
    <3>4. d \in Indices
        BY <3>3, <1>3
    <3>5. Minus(EffectiveBottom, x) - 1 = d
        BY <2>3, <1>4, <3>2, <1>1, <1>2
    <3> QED
        BY <3>1, <3>2, <3>4, <3>5, WrapIndex
  <2> QED
      BY <2>1, <2>2, <2>3
<1>6. pc[Owner] \notin Popping => EffectiveBottom = bottom
    BY DEF EffectiveBottom, Popping
<1> QED
    BY <1>1, <1>2, <1>3, <1>4, <1>5, <1>6

\* What a step does to the distances that moves top, bottom or neither.
LEMMA TopMoves ==
    ASSUME TypeInv, IndexInv, FewPuts, Size > 0, top' = Succ(top),
           EffectiveBottom' = EffectiveBottom
    PROVE  /\ Size' = Size - 1
           /\ \A x \in Indices : Recent(x) => Minus(top', x) = Lag(x) + 1
<1>0. /\ EffectiveBottom \in Indices /\ top \in Indices
      /\ Len(recipients) \in Nat /\ Size \in Int /\ Size <= Len(recipients)
      /\ \A d \in Int : -1 <= d /\ d <= Len(recipients) + 1 => d \in Indices
    BY TypeFacts, Distances DEF TypeInv, IndexInv
<1>1. Size' = Size - 1
  <2>1. Minus(EffectiveBottom, Succ(top)) = Wrap(Size - 1)
      BY <1>0, IndexArithmetic DEF Size
  <2>2. PICK d \in Int : d = Size - 1
      BY <1>0
  <2>3. d \in Indices
      BY <1>0, <2>2
  <2> QED
      BY <2>1, <2>2, <2>3, WrapIndex DEF Size
<1>2. ASSUME NEW x \in Indices, Recent(x)
      PROVE  Minus(top', x) = Lag(x) + 1
  <2>1. Minus(Succ(top), x) = Wrap(Lag(x) + 1)
      BY <1>0, IndexArithmetic DEF Lag
  <2>2. PICK d \in Int : d = Lag(x) + 1
      BY Distances
  <2>3. d \in Indices
    <3>1. Lag(x) \in Int
        BY Distances
    <3>2. -1 <= d /\ d <= Len(recipients) + 1
        BY <1>0, <1>2, <2>2, <3>1 DEF Recent
    <3> QED
        BY <3>2, <1>0
  <2> QED
      BY <2>1, <2>2, <2>3, WrapIndex
<1> QED
    BY <1>1, <1>2

LEMMA BottomMoves ==
    ASSUME TypeInv, IndexInv, FewPuts, top' = top
    PROVE  /\ EffectiveBottom' = Succ(EffectiveBottom) => Size' = Size + 1
           /\ EffectiveBottom' = Wrap(EffectiveBottom - 1) => Size' = Size - 1
           /\ EffectiveBottom' = EffectiveBottom => Size' = Size
<1>0. /\ EffectiveBottom \in Indices /\ top \in Indices
      /\ Len(recipients) \in Nat /\ Size \in Int /\ Size <= Len(recipients)
      /\ 0 <= Size
      /\ \A d \in Int : -1 <= d /\ d <= Len(recipients) + 1 => d \in Indices
    BY TypeFacts, Distances DEF TypeInv, IndexInv
<1>1. Size + 1 \in Indices /\ Size - 1 \in Indices
    BY <1>0
<1>2. Wrap(Size + 1) = Size + 1 /\ Wrap(Size - 1) = Size - 1
    BY <1>1, WrapIndex
<1>3. Minus(Succ(EffectiveBottom), top) = Wrap(Size + 1)
    BY <1>0, IndexArithmetic DEF Size
<1>4. Minus(Wrap(EffectiveBottom - 1), top) = Wrap(Size - 1)
    BY <1>0, IndexArithmetic DEF Size
<1> QED
    BY <1>2, <1>3, <1>4 DEF Size

-----------------------------------------------------------------------------
(* What the owner does to the buffers.                                     *)

Active(i) == CellOf(bufs[buffer], i)

LEMMA InstallFacts ==
    ASSUME TypeInv, NEW newCap \in Capacities, NEW b \in Indices,
           NEW t \in Indices, Minus(b, t) <= newCap, Install(newCap, b, t)
    PROVE  /\ bufs' \in Seq(Rings) /\ Len(bufs') = Len(bufs) + 1
           /\ buffer' \in 1..Len(bufs') /\ ActiveCap' = newCap
           /\ \A k \in 1..Len(bufs) : bufs'[k] = bufs[k]
           /\ \A k \in 0..Minus(b, t) - 1 :
                CellOf(bufs'[buffer'], t + k) = Active(t + k)
<1> DEFINE old == bufs[buffer]
           new == Resized(old, newCap, b, t)
<1>1. old \in Rings
    BY TypeFacts
<1>2. /\ new \in Rings /\ CapOf(new) = newCap
      /\ \A k \in 0..Minus(b, t) - 1 : CellOf(new, t + k) = CellOf(old, t + k)
  <2> HIDE DEF old
  <2> QED
      BY <1>1, ResizedCell
<1>3. bufs' = Append(bufs, new) /\ buffer' = Len(bufs) + 1
    BY DEF Install
<1>4. bufs \in Seq(Rings) /\ buffer \in 1..Len(bufs)
    BY DEF TypeInv
<1> HIDE DEF new
<1>5. /\ bufs' \in Seq(Rings) /\ Len(bufs') = Len(bufs) + 1
      /\ bufs'[Len(bufs) + 1] = new
      /\ \A k \in 1..Len(bufs) : bufs'[k] = bufs[k]
    BY <1>2, <1>3, <1>4
<1>6. buffer' \in 1..Len(bufs') /\ bufs'[buffer'] = new
    BY <1>3, <1>4, <1>5
<1> QED
    BY <1>2, <1>5, <1>6 DEF ActiveCap, Active

LEMMA WriteFacts ==
    ASSUME TypeInv, PushWrite
    PROVE  /\ bufs' \in Seq(Rings) /\ Len(bufs') = Len(bufs)
           /\ buffer' = buffer /\ ActiveCap' = ActiveCap
           /\ \A k \in 1..Len(bufs) : k # buffer => bufs'[k] = bufs[k]
           /\ Active(bottom)' = Len(recipients) + 1
           /\ \A i \in Int : Slot(i, ActiveCap) # Slot(bottom, ActiveCap) =>
                CellOf(bufs'[buffer'], i) = Active(i)
<1> DEFINE c == ActiveCap
           s == Slot(bottom, c)
           n == Len(recipients) + 1
           old == bufs[buffer]
           new == [old EXCEPT ![s] = n]
<1>0. /\ c \in Capacities /\ c \in Nat /\ c > 0 /\ old \in [0..c - 1 -> Nat]
      /\ n \in Nat /\ bottom \in Int
  <2>1. bottom \in Int
      BY WrapIndex DEF TypeInv
  <2>2. /\ old \in Rings /\ Len(recipients) \in Nat
        /\ c \in Capacities /\ c \in Nat /\ c > 0
      BY TypeFacts
  <2>3. old \in [0..c - 1 -> Nat]
      BY <2>2, RingFacts DEF ActiveCap
  <2> QED
      BY <2>1, <2>2, <2>3
<1>1. s \in 0..c - 1
    BY <1>0 DEF Slot
<1>2. bufs \in Seq(Rings) /\ buffer \in 1..Len(bufs)
    BY DEF TypeInv
<1>3. bufs' = [bufs EXCEPT ![buffer] = new] /\ buffer' = buffer
      /\ bottom' = bottom
    BY DEF PushWrite, indexVars
<1>4. new \in [0..c - 1 -> Nat] /\ new[s] = n
      /\ \A i \in 0..c - 1 : i # s => new[i] = old[i]
  <2> HIDE DEF c, s, n, old
  <2> QED
      BY <1>0, <1>1
<1>5. new \in Rings
    BY <1>0, <1>4 DEF Rings
<1> HIDE DEF new, n, old, c
<1>6. CapOf(new) = c
  <2>1. DOMAIN new = DOMAIN old
      BY <1>0, <1>4
  <2> QED
      BY <2>1 DEF CapOf, c, ActiveCap, old
<1>7. /\ bufs' \in Seq(Rings) /\ Len(bufs') = Len(bufs) /\ bufs'[buffer] = new
      /\ \A k \in 1..Len(bufs) : k # buffer => bufs'[k] = bufs[k]
  <2>1. /\ [bufs EXCEPT ![buffer] = new] \in Seq(Rings)
        /\ Len([bufs EXCEPT ![buffer] = new]) = Len(bufs)
      BY <1>2, <1>5, ExceptSeq
  <2>2. /\ [bufs EXCEPT ![buffer] = new][buffer] = new
        /\ \A k \in 1..Len(bufs) :
              k # buffer => [bufs EXCEPT ![buffer] = new][k] = bufs[k]
      BY <1>2
  <2> QED
      BY <1>3, <2>1, <2>2
<1>8. ActiveCap' = ActiveCap
    BY <1>3, <1>6, <1>7 DEF ActiveCap, c
<1>9. Active(bottom)' = Len(recipients) + 1
    BY <1>3, <1>4, <1>6, <1>7 DEF Active, CellOf, n, s
<1>10. ASSUME NEW i \in Int, Slot(i, c) # s
       PROVE  CellOf(bufs'[buffer'], i) = Active(i)
  <2>1. Slot(i, c) \in 0..c - 1
      BY <1>0 DEF Slot
  <2>2. new[Slot(i, c)] = old[Slot(i, c)]
      BY <1>4, <1>10, <2>1
  <2>3. CellOf(bufs'[buffer'], i) = new[Slot(i, c)]
      BY <1>3, <1>6, <1>7 DEF CellOf
  <2>4. Active(i) = old[Slot(i, c)]
      BY DEF Active, CellOf, c, old, ActiveCap
  <2> QED
      BY <2>2, <2>3, <2>4
<1> QED
    BY <1>3, <1>7, <1>8, <1>9, <1>10 DEF c, s

LEMMA GrowFacts ==
    ASSUME TypeInv, IndexInv, FewPuts, PushGrow
    PROVE  \E newCap \in Capacities :
             /\ Install(newCap, bottom, cachedTop)
             /\ newCap \in Nat /\ Size < newCap - 1
             /\ Minus(bottom, cachedTop) = Lag(cachedTop) + Size
             /\ Minus(bottom, cachedTop) <= newCap
             /\ Lag(cachedTop) >= 0
<1> DEFINE newCap == Larger(2 * ActiveCap, MinCapacity)
<1>0. /\ ActiveCap \in Capacities /\ ActiveCap \in Nat /\ ActiveCap > 0
      /\ MinCapacity \in Capacities /\ MinCapacity \in Nat
      /\ cachedTop \in Indices /\ pc[Owner] = "push_grow"
      /\ Len(recipients) \in Nat /\ Len(recipients) < MaxPush
      /\ MaxPush \in Nat /\ Half \in Nat /\ MaxPush + 2 <= Half
      /\ Size \in Int /\ Lag(cachedTop) \in Int /\ Size < ActiveCap
      /\ Recent(cachedTop)
      /\ Lag(cachedTop) + Size < ActiveCap
      /\ ActiveCap <= Lag(cachedTop) + Size + 1
    BY TypeFacts, Distances, RoundFacts, CapacityFacts, CapacityDivides,
       InlineAssumption DEF TypeInv, IndexInv, PushGrow, FewPuts, Half, PushPc
<1>1. ActiveCap <= Half
    BY <1>0 DEF Recent
<1>2. 2 * ActiveCap \in Capacities
    BY <1>0, <1>1, CapacityFacts
<1>3. newCap \in Capacities /\ newCap \in Nat /\ newCap >= 2 * ActiveCap
    BY <1>0, <1>2 DEF Larger
<1>4. Minus(bottom, cachedTop) = Lag(cachedTop) + Size
  <2>1. pc[Owner] \notin Popping
      BY <1>0 DEF Popping
  <2> QED
      BY <1>0, <2>1, Distances
<1>5. Install(newCap, bottom, cachedTop)
    BY DEF PushGrow
<1> HIDE DEF newCap
<1>6. Size < newCap - 1 /\ Minus(bottom, cachedTop) <= newCap
      /\ Lag(cachedTop) >= 0
    BY <1>0, <1>3, <1>4 DEF Recent
<1> QED
    BY <1>3, <1>4, <1>5, <1>6

LEMMA ShrinkFacts ==
    ASSUME TypeInv, IndexInv, FewPuts, PopShrink
    PROVE  \E newCap \in Capacities :
             /\ Install(newCap, bottom, regs[Owner].t)
             /\ newCap \in Nat /\ Size < newCap
             /\ Minus(bottom, regs[Owner].t) = Lag(regs[Owner].t) + Size
             /\ Minus(bottom, regs[Owner].t) <= newCap
             /\ Lag(regs[Owner].t) >= 0
<1> DEFINE newCap == Larger(ActiveCap \div 2, MinCapacity)
           t == regs[Owner].t
<1>0. /\ ActiveCap \in Capacities /\ ActiveCap \in Nat /\ ActiveCap > 0
      /\ MinCapacity \in Capacities /\ MinCapacity \in Nat /\ MinCapacity > 0
      /\ t \in Indices /\ pc[Owner] = "pop_shrink"
      /\ Size \in Int /\ Lag(t) \in Int
      /\ Recent(t) /\ ShrinkWanted(Lag(t) + Size, ActiveCap)
      /\ ShrinkFactor \in Nat /\ ShrinkFactor > 1
    BY TypeFacts, Distances, CapacityFacts, CapacityDivides,
       InlineAssumption DEF TypeInv, IndexInv, PopShrink
<1> HIDE DEF t
<1>1. ActiveCap > 1
    BY <1>0 DEF ShrinkWanted
<1>2. ActiveCap \div 2 \in Capacities
    BY <1>0, <1>1, CapacityFacts
<1>3. ActiveCap \div ShrinkFactor <= ActiveCap \div 2
    BY <1>0
<1>4. ActiveCap \div ShrinkFactor \in Int /\ ActiveCap \div 2 \in Int
    BY <1>0
<1>5. newCap \in Capacities /\ newCap \in Nat /\ newCap >= ActiveCap \div 2
    BY <1>0, <1>2, <1>4, CapacityDivides DEF Larger
<1>6. Minus(bottom, t) = Lag(t) + Size
  <2>1. pc[Owner] \notin Popping
      BY <1>0 DEF Popping
  <2> QED
      BY <1>0, <2>1, Distances
<1>7. Install(newCap, bottom, t)
    BY DEF PopShrink, t
<1> HIDE DEF newCap
<1>8. Size < newCap /\ Minus(bottom, t) <= newCap /\ Lag(t) >= 0
    BY <1>0, <1>3, <1>4, <1>5, <1>6 DEF Recent, ShrinkWanted
<1> QED
    BY <1>5, <1>6, <1>7, <1>8 DEF t

-----------------------------------------------------------------------------
(* Types.                                                                  *)

Labels == {"idle"} \cup PushPc \cup PopPc \cup StealPc
Registers == [t : Indices, buf : Nat, bits : Nat]

LocalInv ==
    /\ pc \in [Procs -> Labels]
    /\ regs \in [Procs -> Registers]
    /\ \A p \in Procs :
         /\ pc[p] = "steal_read" => regs[p].buf \in 1..Len(bufs)
         /\ pc[p] \in PushPc \cup PopPc => p = Owner
         /\ pc[p] \in StealPc => p # Owner

\* Writing registers of one process.
LEMMA RegsWrite ==
    ASSUME NEW r \in [Procs -> Registers], NEW p \in Procs
    PROVE  /\ \A v \in Indices : [r EXCEPT ![p].t = v] \in [Procs -> Registers]
           /\ \A v \in Nat : [r EXCEPT ![p].buf = v] \in [Procs -> Registers]
           /\ \A v \in Nat : [r EXCEPT ![p].bits = v] \in [Procs -> Registers]
           /\ \A v \in Indices, w \in Nat :
                 [r EXCEPT ![p].t = v, ![p].bits = w] \in [Procs -> Registers]
           /\ NoRegs \in Registers
           /\ [r EXCEPT ![p] = NoRegs] \in [Procs -> Registers]
<1>1. 0 \in Indices
    BY RoundFacts
<1>2. NoRegs \in Registers
    BY <1>1 DEF NoRegs, Registers
<1>3. [r EXCEPT ![p] = NoRegs] \in [Procs -> Registers]
    BY <1>2
<1> HIDE DEF NoRegs
<1> QED
    BY <1>2, <1>3 DEF Registers

\* A step of one process, as to what is private to it.
LEMMA LocalStep ==
    ASSUME TypeInv, NEW p \in Procs, NEW l \in Labels, Goto(p, l),
           regs' \in [Procs -> Registers],
           \A q \in Procs : q # p => regs'[q] = regs[q],
           Len(bufs') \in Nat, Len(bufs) <= Len(bufs'),
           l \in PushPc \cup PopPc => p = Owner,
           l \in StealPc => p # Owner,
           l = "steal_read" => regs'[p].buf \in 1..Len(bufs')
    PROVE  LocalInv'
<1>1. pc' = [pc EXCEPT ![p] = l] /\ pc \in [Procs -> Labels]
    BY DEF Goto, TypeInv, Labels
<1>2. pc' \in [Procs -> Labels] /\ pc'[p] = l
      /\ \A q \in Procs : q # p => pc'[q] = pc[q]
    BY <1>1
<1>3. ASSUME NEW q \in Procs, q # p, pc'[q] = "steal_read"
      PROVE  regs'[q].buf \in 1..Len(bufs')
  <2>1. regs'[q].buf \in 1..Len(bufs) /\ Len(bufs) \in Nat
      BY <1>2, <1>3 DEF TypeInv
  <2> QED
      BY <2>1
<1>4. ASSUME NEW q \in Procs
      PROVE  /\ pc'[q] \in PushPc \cup PopPc => q = Owner
             /\ pc'[q] \in StealPc => q # Owner
    BY <1>2 DEF TypeInv
<1> QED
    BY <1>2, <1>3, <1>4 DEF LocalInv

\* A process that goes on without writing its registers, or that returns.
LEMMA LocalGoto ==
    ASSUME TypeInv, NEW p \in Procs, NEW l \in Labels, Goto(p, l), regs' = regs,
           Len(bufs') \in Nat, Len(bufs) <= Len(bufs'),
           l \in PushPc \cup PopPc => p = Owner,
           l \in StealPc => p # Owner,
           l # "steal_read"
    PROVE  LocalInv'
<1>1. regs' \in [Procs -> Registers]
    BY DEF TypeInv, Registers
<1> QED
    BY <1>1, LocalStep

LEMMA LocalReturn ==
    ASSUME TypeInv, NEW p \in Procs, Return(p),
           Len(bufs') \in Nat, Len(bufs) <= Len(bufs')
    PROVE  LocalInv'
<1>1. regs \in [Procs -> Registers]
    BY DEF TypeInv, Registers
<1>2. regs' = [regs EXCEPT ![p] = NoRegs] /\ Goto(p, "idle")
    BY DEF Return
<1>3. regs' \in [Procs -> Registers]
    BY <1>1, <1>2, RegsWrite
<1>4. \A q \in Procs : q # p => regs'[q] = regs[q]
    BY <1>1, <1>2
<1>5. "idle" \in Labels /\ "idle" \notin PushPc \cup PopPc
      /\ "idle" \notin StealPc
    BY DEF Labels, PushPc, PopPc, StealPc
<1> QED
    BY <1>2, <1>3, <1>4, <1>5, LocalStep

\* A process that writes registers and goes on.
LEMMA LocalLoad ==
    ASSUME TypeInv, NEW p \in Procs, NEW l \in Labels, Goto(p, l),
           NEW r \in Registers, regs' = [regs EXCEPT ![p] = r],
           Len(bufs') \in Nat, Len(bufs) <= Len(bufs'),
           l \in PushPc \cup PopPc => p = Owner,
           l \in StealPc => p # Owner,
           l = "steal_read" => r.buf \in 1..Len(bufs')
    PROVE  LocalInv'
<1>1. regs \in [Procs -> Registers]
    BY DEF TypeInv, Registers
<1>2. regs' \in [Procs -> Registers] /\ regs'[p] = r
      /\ \A q \in Procs : q # p => regs'[q] = regs[q]
    BY <1>1
<1> QED
    BY <1>2, LocalStep

\* Handing a value over keeps the history well-formed.
LEMMA DeliverType ==
    ASSUME TypeInv, NEW k, NEW p \in Procs, Deliver(k, p)
    PROVE  recipients' \in Seq(Seq(Procs)) /\ Len(recipients') = Len(recipients)
<1> DEFINE v == Append(recipients[k], p)
<1>1. recipients \in Seq(Seq(Procs))
    BY DEF TypeInv
<1>2. recipients' = [recipients EXCEPT ![k] = v]
    BY DEF Deliver
<1>3. CASE k \in 1..Len(recipients)
  <2>1. v \in Seq(Procs)
      BY <1>1, <1>3
  <2> HIDE DEF v
  <2> QED
      BY <1>1, <1>2, <1>3, <2>1, ExceptSeq
<1>4. CASE k \notin 1..Len(recipients)
  <2> HIDE DEF v
  <2>1. recipients' = recipients
      BY <1>1, <1>2, <1>4
  <2> QED
      BY <1>1, <2>1
<1> QED
    BY <1>3, <1>4

\* The rest of TypeInv after a step that keeps the buffers.
LEMMA TypeFrame ==
    ASSUME TypeInv, LocalInv', UNCHANGED memoryVars,
           top' \in Indices, bottom' \in Indices, cachedTop' \in Indices,
           recipients' \in Seq(Seq(Procs))
    PROVE  TypeInv'
<1>1. bufs' = bufs /\ buffer' = buffer
    BY DEF memoryVars
<1>2. bufs' \in Seq(Rings) /\ buffer' \in 1..Len(bufs')
    BY <1>1 DEF TypeInv
<1> QED
    BY <1>1, <1>2 DEF TypeInv, LocalInv, Labels, Registers

LEMMA TypeInit == Init => TypeInv
<1> SUFFICES ASSUME Init
             PROVE  TypeInv
    OBVIOUS
<1>1. PICK s \in Starts : /\ top = Wrap(s) /\ bottom = Wrap(s)
                          /\ cachedTop = IF s = 0 THEN 0 ELSE Wrap(s - 1)
    BY DEF Init
<1>2. s \in Int /\ s - 1 \in Int
    BY InlineAssumption
<1>3. 0 \in Indices
    BY RoundFacts
<1>4. top \in Indices /\ bottom \in Indices /\ cachedTop \in Indices
    BY <1>1, <1>2, <1>3, WrapFacts
<1>5. InitCap \in Capacities
    BY CapacityFacts
<1>6. Alloc(InitCap) \in Rings
  <2>1. Alloc(InitCap) \in [0..InitCap - 1 -> Nat]
      BY DEF Alloc
  <2> QED
      BY <1>5, <2>1 DEF Rings
<1>7. bufs \in Seq(Rings) /\ buffer \in 1..Len(bufs)
  <2>1. PICK a \in Rings : bufs = <<a>>
      BY <1>6 DEF Init
  <2>2. buffer = 1
      BY DEF Init
  <2> QED
      BY <2>1, <2>2
<1>8. regs \in [Procs -> Registers]
  <2>1. NoRegs \in Registers
      BY <1>3 DEF NoRegs, Registers
  <2> QED
      BY <2>1 DEF Init
<1>9. recipients \in Seq(Seq(Procs))
  <2>1. recipients = <<>>
      BY DEF Init
  <2> QED
      BY <2>1
<1>10. pc = [p \in Procs |-> "idle"]
    BY DEF Init
<1> QED
    BY <1>4, <1>7, <1>8, <1>9, <1>10
    DEF TypeInv, Registers, PushPc, PopPc, StealPc

LEMMA TypeStep == TypeInv /\ IndexInv /\ FewPuts /\ [Next]_vars => TypeInv'
<1> SUFFICES ASSUME TypeInv, IndexInv, FewPuts, [Next]_vars
             PROVE  TypeInv'
    OBVIOUS
<1>0. /\ Owner \in Procs /\ Thieves \subseteq Procs /\ Owner \notin Thieves
      /\ top \in Indices /\ bottom \in Indices /\ cachedTop \in Indices
      /\ bufs \in Seq(Rings) /\ buffer \in 1..Len(bufs) /\ Len(bufs) \in Nat
      /\ bufs[buffer] \in Rings
      /\ regs \in [Procs -> Registers]
      /\ recipients \in Seq(Seq(Procs)) /\ Len(recipients) \in Nat
      /\ \A i \in Indices : i \in Int
    BY TypeFacts, WrapIndex DEF TypeInv, Registers
<1>a. \A i \in Indices : Succ(i) \in Indices /\ Wrap(i - 1) \in Indices
    BY IndexArithmetic
<1>b. \A k \in 1..Len(bufs), i \in Indices : CellOf(bufs[k], i) \in Nat
  <2> SUFFICES ASSUME NEW k \in 1..Len(bufs), NEW i \in Indices
               PROVE  CellOf(bufs[k], i) \in Nat
      OBVIOUS
  <2>1. bufs[k] \in Rings /\ i \in Int
      BY <1>0
  <2> QED
      BY <2>1, RingFacts
<1>c. \A p \in Procs : regs[p].t \in Indices /\ regs[p].buf \in Nat
                       /\ regs[p].bits \in Nat
    BY <1>0 DEF Registers
<1> USE DEF indexVars
<1>1. CASE PushBegin
  <2>1. PICK l \in {"push_top", "push_write"} : Goto(Owner, l)
      BY <1>1 DEF PushBegin
  <2>2. LocalInv'
      BY <1>0, <1>1, <2>1, LocalGoto
      DEF PushBegin, memoryVars, Labels, PushPc, StealPc
  <2> QED
      BY <1>0, <1>1, <2>2, TypeFrame DEF PushBegin
<1>2. CASE PushLoadTop
  <2>1. PICK l \in {"push_grow", "push_write"} : Goto(Owner, l)
      BY <1>2 DEF PushLoadTop
  <2>2. LocalInv'
      BY <1>0, <1>2, <2>1, LocalGoto
      DEF PushLoadTop, memoryVars, Labels, PushPc, StealPc
  <2> QED
      BY <1>0, <1>2, <2>2, TypeFrame DEF PushLoadTop
<1>3. CASE PushGrow
  <2>1. PICK newCap \in Capacities :
               /\ Install(newCap, bottom, cachedTop)
               /\ Minus(bottom, cachedTop) <= newCap
      BY <1>3, GrowFacts
  <2>2. bufs' \in Seq(Rings) /\ Len(bufs') = Len(bufs) + 1
        /\ buffer' \in 1..Len(bufs')
      BY <1>0, <2>1, InstallFacts
  <2>3. LocalInv'
      BY <1>0, <1>3, <2>2, LocalGoto DEF PushGrow, Labels, PushPc, StealPc
  <2> QED
      BY <1>0, <1>3, <2>2, <2>3 DEF PushGrow, TypeInv, LocalInv, Labels,
         Registers
<1>4. CASE PushWrite
  <2>1. bufs' \in Seq(Rings) /\ Len(bufs') = Len(bufs) /\ buffer' = buffer
      BY <1>4, WriteFacts
  <2>2. LocalInv'
      BY <1>0, <1>4, <2>1, LocalGoto DEF PushWrite, Labels, PushPc, StealPc
  <2> QED
      BY <1>0, <1>4, <2>1, <2>2 DEF PushWrite, TypeInv, LocalInv, Labels,
         Registers
<1>5. CASE PushPublish
  <2>1. LocalInv'
      BY <1>0, <1>5, LocalReturn DEF PushPublish, memoryVars
  <2>2. recipients' \in Seq(Seq(Procs))
      BY <1>0, <1>5 DEF PushPublish
  <2> QED
      BY <1>0, <1>a, <1>5, <2>1, <2>2, TypeFrame DEF PushPublish
<1>6. CASE PopBegin
  <2>1. LocalInv'
      BY <1>0, <1>6, LocalGoto
      DEF PopBegin, memoryVars, Labels, PopPc, StealPc
  <2> QED
      BY <1>0, <1>a, <1>6, <2>1, TypeFrame DEF PopBegin
<1>7. CASE PopFindEmpty
  <2>1. regs' \in [Procs -> Registers]
        /\ \A q \in Procs : q # Owner => regs'[q] = regs[q]
      BY <1>0, <1>7, RegsWrite DEF PopFindEmpty
  <2>2. LocalInv'
    <3>1. Goto(Owner, "pop_empty") /\ bufs' = bufs
        BY <1>0, <1>7, <2>1 DEF PopFindEmpty, memoryVars
    <3> QED
        BY <1>0, <1>7, <2>1, <3>1, LocalStep
        DEF Labels, PushPc, PopPc, StealPc
  <2> QED
      BY <1>0, <1>7, <2>2, TypeFrame DEF PopFindEmpty
<1>8. CASE PopRestoreEmpty
  <2>1. LocalInv'
      BY <1>0, <1>8, LocalReturn DEF PopRestoreEmpty, memoryVars
  <2> QED
      BY <1>0, <1>c, <1>8, <2>1, TypeFrame DEF PopRestoreEmpty
<1>9. CASE PopTake
  <2>1. LocalInv'
    <3>1. CASE ShrinkWanted(Minus(bottom, top), ActiveCap)
      <4>1. regs' = [regs EXCEPT ![Owner].t = top] /\ Goto(Owner, "pop_shrink")
          BY <1>9, <3>1 DEF PopTake
      <4>2. regs' \in [Procs -> Registers]
            /\ \A q \in Procs : q # Owner => regs'[q] = regs[q]
          BY <1>0, <4>1, RegsWrite
      <4> QED
          BY <1>0, <1>9, <4>1, <4>2, LocalStep
          DEF PopTake, memoryVars, Labels, PopPc, StealPc
    <3>2. CASE ~ShrinkWanted(Minus(bottom, top), ActiveCap)
        BY <1>0, <1>9, <3>2, LocalReturn DEF PopTake, memoryVars
    <3> QED
        BY <3>1, <3>2
  <2>2. recipients' \in Seq(Seq(Procs))
      BY <1>0, <1>9, DeliverType DEF PopTake
  <2> QED
      BY <1>0, <1>9, <2>1, <2>2, TypeFrame DEF PopTake
<1>10. CASE PopShrink
  <2>1. PICK newCap \in Capacities :
               /\ Install(newCap, bottom, regs[Owner].t)
               /\ Minus(bottom, regs[Owner].t) <= newCap
      BY <1>10, ShrinkFacts
  <2>2. bufs' \in Seq(Rings) /\ Len(bufs') = Len(bufs) + 1
        /\ buffer' \in 1..Len(bufs')
      BY <1>0, <1>c, <2>1, InstallFacts
  <2>3. LocalInv'
      BY <1>0, <1>10, <2>2, LocalReturn DEF PopShrink
  <2> QED
      BY <1>0, <1>10, <2>2, <2>3 DEF PopShrink, TypeInv, LocalInv, Labels,
         Registers
<1>11. CASE PopFindLast
  <2>1. CellOf(bufs[buffer], bottom) \in Nat
      BY <1>0, <1>b
  <2>2. regs' \in [Procs -> Registers]
        /\ \A q \in Procs : q # Owner => regs'[q] = regs[q]
    <3> DEFINE w == CellOf(bufs[buffer], bottom)
    <3>1. regs' = [regs EXCEPT ![Owner].t = top, ![Owner].bits = w]
        BY <1>11 DEF PopFindLast
    <3> HIDE DEF w
    <3>2. \A q \in Procs : q # Owner => regs'[q] = regs[q]
        BY <1>0, <3>1
    <3>3. w \in Nat
        BY <2>1 DEF w
    <3> QED
        BY <1>0, <3>1, <3>2, <3>3, RegsWrite
  <2>3. LocalInv'
    <3>1. Goto(Owner, "pop_cas") /\ bufs' = bufs
        BY <1>0, <1>11, <2>2 DEF PopFindLast, memoryVars
    <3> QED
        BY <1>0, <1>11, <2>2, <3>1, LocalStep
        DEF Labels, PushPc, PopPc, StealPc
  <2> QED
      BY <1>0, <1>11, <2>3, TypeFrame DEF PopFindLast
<1>12. CASE PopCas
  <2>1. LocalInv'
      BY <1>0, <1>12, LocalGoto
      DEF PopCas, memoryVars, Labels, PopPc, StealPc
  <2>2. recipients' \in Seq(Seq(Procs)) /\ top' \in Indices
      BY <1>0, <1>a, <1>12, DeliverType DEF PopCas
  <2> QED
      BY <1>0, <1>12, <2>1, <2>2, TypeFrame DEF PopCas
<1>13. CASE PopRestoreLast
  <2>1. LocalInv'
      BY <1>0, <1>13, LocalReturn DEF PopRestoreLast, memoryVars
  <2> QED
      BY <1>0, <1>a, <1>c, <1>13, <2>1, TypeFrame DEF PopRestoreLast
<1>14. ASSUME NEW p \in Thieves, Steal(p)
       PROVE  TypeInv'
  <2>0. p \in Procs /\ p # Owner
      BY <1>0
  <2>1. CASE StealLoadTop(p)
    <3>1. regs' \in [Procs -> Registers]
          /\ \A q \in Procs : q # p => regs'[q] = regs[q]
        BY <1>0, <2>0, <2>1, RegsWrite DEF StealLoadTop
    <3>2. LocalInv'
      <4>1. Goto(p, "steal_bottom") /\ bufs' = bufs
          BY <1>0, <2>0, <2>1, <3>1 DEF StealLoadTop, memoryVars
      <4> QED
          BY <1>0, <2>0, <2>1, <3>1, <4>1, LocalStep
          DEF Labels, PushPc, PopPc, StealPc
    <3> QED
        BY <1>0, <2>1, <3>2, TypeFrame DEF StealLoadTop
  <2>2. CASE StealFindEmpty(p)
    <3>1. LocalInv'
        BY <1>0, <2>0, <2>2, LocalReturn DEF StealFindEmpty, memoryVars
    <3> QED
        BY <1>0, <2>2, <3>1, TypeFrame DEF StealFindEmpty
  <2>3. CASE StealFindValue(p)
    <3>1. LocalInv'
        BY <1>0, <2>0, <2>3, LocalGoto
        DEF StealFindValue, memoryVars, Labels, PushPc, PopPc, StealPc
    <3> QED
        BY <1>0, <2>3, <3>1, TypeFrame DEF StealFindValue
  <2>4. CASE StealLoadBuffer(p)
    <3>0. buffer \in Nat
        BY <1>0
    <3>1. regs' \in [Procs -> Registers] /\ regs'[p].buf = buffer
          /\ \A q \in Procs : q # p => regs'[q] = regs[q]
      <4>1. regs' = [regs EXCEPT ![p].buf = buffer]
          BY <2>4 DEF StealLoadBuffer
      <4>2. regs'[p].buf = buffer
            /\ \A q \in Procs : q # p => regs'[q] = regs[q]
          BY <1>0, <2>0, <4>1 DEF Registers
      <4> QED
          BY <1>0, <2>0, <3>0, <4>1, <4>2, RegsWrite
    <3>2. LocalInv'
      <4>1. Goto(p, "steal_read") /\ bufs' = bufs
          BY <1>0, <2>0, <2>4, <3>1 DEF StealLoadBuffer, memoryVars
      <4> QED
          BY <1>0, <2>0, <2>4, <3>1, <4>1, LocalStep
          DEF Labels, PushPc, PopPc, StealPc
    <3> QED
        BY <1>0, <2>4, <3>2, TypeFrame DEF StealLoadBuffer
  <2>5. CASE StealRead(p)
    <3> DEFINE w == CellOf(bufs[regs[p].buf], regs[p].t)
    <3>1. regs[p].buf \in 1..Len(bufs)
        BY <2>0, <2>5 DEF TypeInv, StealRead
    <3>2. w \in Nat
        BY <1>b, <1>c, <2>0, <3>1
    <3>3. regs' = [regs EXCEPT ![p].bits = w]
        BY <2>5 DEF StealRead
    <3> HIDE DEF w
    <3>4. regs' \in [Procs -> Registers]
          /\ \A q \in Procs : q # p => regs'[q] = regs[q]
        BY <1>0, <2>0, <3>2, <3>3, RegsWrite
    <3>5. LocalInv'
      <4>1. Goto(p, "steal_cas") /\ bufs' = bufs
          BY <1>0, <2>0, <2>5, <3>4 DEF StealRead, memoryVars
      <4> QED
          BY <1>0, <2>0, <2>5, <3>4, <4>1, LocalStep
          DEF Labels, PushPc, PopPc, StealPc
    <3> QED
        BY <1>0, <2>5, <3>5, TypeFrame DEF StealRead
  <2>6. CASE StealCas(p)
    <3>1. LocalInv'
        BY <1>0, <2>0, <2>6, LocalReturn DEF StealCas, memoryVars
    <3>2. recipients' \in Seq(Seq(Procs)) /\ top' \in Indices
        BY <1>0, <1>a, <2>0, <2>6, DeliverType DEF StealCas
    <3> QED
        BY <1>0, <2>6, <3>1, <3>2, TypeFrame DEF StealCas
  <2> QED
      BY <1>14, <2>1, <2>2, <2>3, <2>4, <2>5, <2>6 DEF Steal
<1>15. CASE Drop
    BY <1>15 DEF Drop, TypeInv
<1>16. CASE UNCHANGED vars
    BY <1>16 DEF vars, memoryVars, TypeInv
<1> QED
    BY <1>1, <1>2, <1>3, <1>4, <1>5, <1>6, <1>7, <1>8, <1>9, <1>10, <1>11,
       <1>12, <1>13, <1>14, <1>15, <1>16 DEF Next, Push, Pop

-----------------------------------------------------------------------------
(* Indices, step by step.                                                  *)

LEMMA IndexInit == FewPuts /\ Init => IndexInv
<1> SUFFICES ASSUME FewPuts, Init
             PROVE  IndexInv
    OBVIOUS
<1>0. TypeInv
    BY TypeInit
<1>1. PICK s \in Starts : /\ top = Wrap(s) /\ bottom = Wrap(s)
                          /\ cachedTop = IF s = 0 THEN 0 ELSE Wrap(s - 1)
    BY DEF Init
<1>2. s \in Int /\ s - 1 \in Int /\ 1 \in Int
    BY InlineAssumption
<1>3. /\ Owner \in Procs /\ pc[Owner] = "idle" /\ Len(recipients) = 0
      /\ MaxPush \in Nat /\ 0 \in Indices /\ 1 \in Indices
      /\ \A p \in Thieves : pc[p] = "idle"
  <2>1. MaxPush \in Nat /\ Half \in Nat /\ MaxPush + 2 <= Half
        /\ Indices = -Half..Half - 1
      BY InlineAssumption, RoundFacts DEF FewPuts, Half
  <2>2. Owner \in Procs /\ Thieves \subseteq Procs
      BY <1>0, TypeFacts
  <2>3. recipients = <<>> /\ pc = [p \in Procs |-> "idle"]
      BY DEF Init
  <2> QED
      BY <2>1, <2>2, <2>3
<1>4. EffectiveBottom = top /\ top \in Indices /\ cachedTop \in Indices
    BY <1>0, <1>1, <1>3 DEF EffectiveBottom, TypeInv
<1>5. Size = 0
    BY <1>4, IndexArithmetic DEF Size
<1>6. Lag(cachedTop) \in {0, 1}
  <2>1. CASE s = 0
    <3>1. cachedTop = top
        BY <1>1, <1>3, <2>1, WrapIndex
    <3> QED
        BY <1>4, <3>1, IndexArithmetic DEF Lag
  <2>2. CASE s # 0
    <3>1. cachedTop = Wrap(s - 1)
        BY <1>1, <2>2
    <3>2. Wrap(Wrap(s) - Wrap(s - 1)) = Wrap(s - Wrap(s - 1))
      <4>1. Wrap(s - 1) \in Int
          BY <1>2, WrapFacts
      <4> QED
          BY <1>2, <4>1, WrapInside
    <3>3. Wrap(s - Wrap(s - 1)) = Wrap(s - (s - 1))
        BY <1>2, WrapInside
    <3>4. s - (s - 1) = 1
        BY <1>2
    <3>5. Wrap(1) = 1
        BY <1>3, WrapIndex
    <3> QED
        BY <1>1, <3>1, <3>2, <3>3, <3>4, <3>5 DEF Lag, Minus
  <2> QED
      BY <2>1, <2>2
<1>7. ActiveCap \in Nat /\ ActiveCap > 0
    BY <1>0, TypeFacts
<1> QED
    BY <1>3, <1>5, <1>6, <1>7
    DEF IndexInv, Recent, TimelyInv, PushPc, StealPc

\* A thief that does nothing while top stays: the values may become fewer, but
\* not none at all.
LEMMA TimelyStays ==
    ASSUME TypeInv, IndexInv, FewPuts, NEW q \in Thieves,
           pc'[q] = pc[q], regs'[q] = regs[q], top' = top,
           Size' \in Int, Len(recipients') \in Int,
           Size' - Len(recipients') <= Size - Len(recipients),
           Size > 0 => Size' > 0
    PROVE  TimelyInv(q)'
<1>1. regs[q].t \in Indices
    BY TypeFacts
<1>2. Lag(regs[q].t) \in Int /\ Size \in Int /\ Len(recipients) \in Int
    BY <1>1, Distances, TypeFacts
<1>3. TimelyInv(q)
    BY DEF IndexInv
<1> QED
    BY <1>2, <1>3 DEF TimelyInv, Recent, Lag

\* Once top has moved on, it is none of the indices that it was before.
LEMMA Passed ==
    ASSUME TypeInv, IndexInv, FewPuts, NEW x \in Indices, Recent(x),
           top' = Succ(top), Size > 0, EffectiveBottom' = EffectiveBottom
    PROVE  x # top'
<1>1. Minus(top', x) = Lag(x) + 1
    BY TopMoves
<1>2. Lag(x) \in Int /\ Lag(x) >= 0
    BY Distances DEF Recent
<1>3. top' \in Indices
    BY IndexArithmetic DEF TypeInv
<1>4. PICK i \in Indices : i = top'
    BY <1>3
<1>5. Minus(i, x) # 0
    BY <1>1, <1>2, <1>4
<1>6. i # x
    BY <1>5, IndexArithmetic
<1> QED
    BY <1>4, <1>6

\* A thief that does nothing while top moves: it will not succeed any more.
LEMMA TimelyPassed ==
    ASSUME TypeInv, IndexInv, FewPuts, NEW q \in Thieves,
           pc'[q] = pc[q], regs'[q] = regs[q], top' = Succ(top), Size > 0,
           EffectiveBottom' = EffectiveBottom,
           Len(recipients') = Len(recipients)
    PROVE  TimelyInv(q)'
<1> SUFFICES ASSUME pc[q] \in StealPc
             PROVE  TimelyInv(q)'
    BY DEF TimelyInv
<1>1. regs[q].t \in Indices /\ Len(recipients) \in Int /\ Size \in Int
    BY TypeFacts, Distances
<1>2. Recent(regs[q].t)
    BY DEF IndexInv, TimelyInv
<1>3. Size' = Size - 1 /\ Minus(top', regs[q].t) = Lag(regs[q].t) + 1
    BY <1>1, <1>2, TopMoves
<1>4. Lag(regs[q].t) \in Int /\ Lag(regs[q].t) >= 0
    BY <1>1, <1>2, Distances DEF Recent
<1>5. regs[q].t # top'
    BY <1>1, <1>2, Passed
<1> QED
    BY <1>1, <1>2, <1>3, <1>4, <1>5 DEF TimelyInv, Recent, Lag

\* What no step of the owner but publishing, taking and growing changes.
LEMMA IndexFrame ==
    ASSUME TypeInv, IndexInv, FewPuts, top' = top,
           EffectiveBottom' = EffectiveBottom,
           Len(recipients') = Len(recipients)
    PROVE  /\ Size' = Size /\ Size \in Int
           /\ \A x \in Indices : /\ Lag(x) \in Int /\ Minus(top', x) = Lag(x)
                                 /\ Minus(top, x) = Lag(x)
           /\ Len(recipients) \in Nat
           /\ \A q \in Thieves :
                pc'[q] = pc[q] /\ regs'[q] = regs[q] => TimelyInv(q)'
<1>1. Size' = Size
    BY BottomMoves
<1>2. Size \in Int /\ Len(recipients) \in Nat
      /\ \A x \in Indices : Lag(x) \in Int
    BY Distances, TypeFacts
<1>3. \A q \in Thieves :
          pc'[q] = pc[q] /\ regs'[q] = regs[q] => TimelyInv(q)'
    BY <1>1, <1>2, TimelyStays
<1> QED
    BY <1>1, <1>2, <1>3 DEF Lag

\* Where a step leads, for one that does not touch the buffers.
LEMMA CapFrame ==
    ASSUME UNCHANGED memoryVars
    PROVE  ActiveCap' = ActiveCap
BY DEF memoryVars, ActiveCap

\* The steps of the owner.
LEMMA IndexOwnerStep ==
    ASSUME TypeInv, IndexInv, FewPuts, Push \/ Pop
    PROVE  IndexInv'
<1>0. /\ Owner \in Procs /\ Thieves \subseteq Procs /\ Owner \notin Thieves
      /\ top \in Indices /\ bottom \in Indices /\ cachedTop \in Indices
      /\ regs[Owner].t \in Indices
      /\ Len(recipients) \in Nat /\ ActiveCap \in Nat /\ ActiveCap > 0
      /\ MaxPush \in Nat
      /\ DOMAIN pc = Procs /\ DOMAIN regs = Procs
      /\ EffectiveBottom \in Indices
    BY TypeFacts, InlineAssumption DEF TypeInv
<1>1. /\ Size \in Int /\ 0 <= Size
      /\ \A x \in Indices : Lag(x) \in Int
      /\ Lag(top) = 0
    BY <1>0, Distances DEF IndexInv
<1> USE DEF indexVars
<1>2. CASE PushBegin
  <2>1. PICK l \in {"push_top", "push_write"} :
             /\ Goto(Owner, l)
             /\ l = "push_write" => ~IsFull(bottom, cachedTop, ActiveCap)
      BY <1>2 DEF PushBegin
  <2>2. /\ pc[Owner] = "idle" /\ pc'[Owner] = l
        /\ UNCHANGED <<indexVars, regs, recipients>>
        /\ \A q \in Thieves : pc'[q] = pc[q]
        /\ ActiveCap' = ActiveCap /\ Len(recipients) < MaxPush
      BY <1>0, <1>2, <2>1, CapFrame DEF PushBegin, Goto
  <2>3. EffectiveBottom = bottom /\ EffectiveBottom' = EffectiveBottom
        /\ Minus(bottom, cachedTop) = Lag(cachedTop) + Size
    <3>1. pc[Owner] \notin Popping
        BY <2>2 DEF Popping
    <3> QED
        BY <1>0, <2>2, <3>1, Distances DEF EffectiveBottom, IndexInv
  <2>4. /\ Size' = Size /\ Minus(top', cachedTop) = Lag(cachedTop)
        /\ \A q \in Thieves : TimelyInv(q)'
      BY <1>0, <2>2, <2>3, IndexFrame
  <2>5. l = "push_write" => Size < ActiveCap - 1
      BY <1>0, <1>1, <2>1, <2>3 DEF IsFull, IndexInv, Recent
  <2> QED
      BY <1>0, <1>1, <2>2, <2>4, <2>5 DEF IndexInv, Recent, Lag, PushPc
<1>3. CASE PushLoadTop
  <2>1. PICK l \in {"push_grow", "push_write"} :
             /\ Goto(Owner, l)
             /\ l = "push_write" <=> ~IsFull(bottom, top, ActiveCap)
      BY <1>3 DEF PushLoadTop
  <2>2. /\ pc[Owner] = "push_top" /\ pc'[Owner] = l
        /\ UNCHANGED <<top, bottom, regs, recipients>> /\ cachedTop' = top
        /\ \A q \in Thieves : pc'[q] = pc[q]
        /\ ActiveCap' = ActiveCap
      BY <1>0, <1>3, <2>1, CapFrame DEF PushLoadTop, Goto
  <2>3. Recent(top) /\ Len(recipients) < MaxPush
      BY <1>0, <1>1, <2>2 DEF IndexInv, Recent, PushPc
  <2>4. EffectiveBottom = bottom /\ EffectiveBottom' = EffectiveBottom
        /\ Minus(bottom, top) = Size
    <3>1. pc[Owner] \notin Popping
        BY <2>2 DEF Popping
    <3>2. EffectiveBottom = bottom
        BY <3>1, Distances
    <3> QED
        BY <2>2, <3>2 DEF EffectiveBottom, Size
  <2>5. /\ Size' = Size /\ Minus(top', cachedTop') = 0
        /\ \A q \in Thieves : TimelyInv(q)'
    <3>1. Minus(top', cachedTop') = Lag(top)
        BY <2>2 DEF Lag
    <3>2. Size' = Size /\ \A q \in Thieves : TimelyInv(q)'
        BY <1>0, <2>2, <2>4, IndexFrame
    <3> QED
        BY <1>1, <3>1, <3>2
  <2>6. /\ l = "push_write" => Size < ActiveCap - 1
        /\ l = "push_grow" => ActiveCap <= Size + 1
      BY <1>0, <1>1, <2>1, <2>4 DEF IsFull
  <2> QED
      BY <1>0, <1>1, <2>2, <2>3, <2>5, <2>6 DEF IndexInv, Recent, Lag, PushPc
<1>4. CASE PushGrow
  <2>1. PICK newCap \in Capacities :
             /\ Install(newCap, bottom, cachedTop)
             /\ newCap \in Nat /\ Size < newCap - 1
             /\ Minus(bottom, cachedTop) <= newCap
      BY <1>4, GrowFacts
  <2>2. ActiveCap' = newCap
      BY <1>0, <2>1, InstallFacts
  <2>3. /\ pc[Owner] = "push_grow" /\ pc'[Owner] = "push_write"
        /\ UNCHANGED <<indexVars, regs, recipients>>
        /\ \A q \in Thieves : pc'[q] = pc[q]
      BY <1>0, <1>4 DEF PushGrow, Goto
  <2>4. EffectiveBottom' = EffectiveBottom
      BY <2>3 DEF EffectiveBottom
  <2>5. /\ Size' = Size /\ Minus(top', cachedTop) = Lag(cachedTop)
        /\ \A q \in Thieves : TimelyInv(q)'
      BY <1>0, <2>3, <2>4, IndexFrame
  <2> QED
      BY <1>0, <1>1, <2>1, <2>2, <2>3, <2>5 DEF IndexInv, Recent, Lag, PushPc
<1>5. CASE PushWrite
  <2>1. ActiveCap' = ActiveCap
      BY <1>5, WriteFacts
  <2>2. /\ pc[Owner] = "push_write" /\ pc'[Owner] = "push_publish"
        /\ UNCHANGED <<indexVars, regs, recipients>>
        /\ \A q \in Thieves : pc'[q] = pc[q]
      BY <1>0, <1>5 DEF PushWrite, Goto
  <2>3. EffectiveBottom' = EffectiveBottom
      BY <2>2 DEF EffectiveBottom
  <2>4. /\ Size' = Size /\ Minus(top', cachedTop) = Lag(cachedTop)
        /\ \A q \in Thieves : TimelyInv(q)'
      BY <1>0, <2>2, <2>3, IndexFrame
  <2> QED
      BY <1>0, <1>1, <2>1, <2>2, <2>4 DEF IndexInv, Recent, Lag, PushPc
<1>6. CASE PushPublish
  <2>1. /\ pc[Owner] = "push_publish" /\ pc'[Owner] = "idle"
        /\ bottom' = Succ(bottom) /\ UNCHANGED <<top, cachedTop>>
        /\ recipients' = Append(recipients, <<>>)
        /\ \A q \in Thieves : pc'[q] = pc[q] /\ regs'[q] = regs[q]
        /\ ActiveCap' = ActiveCap
      BY <1>0, <1>6, CapFrame DEF PushPublish, Return, Goto
  <2>2. Len(recipients') = Len(recipients) + 1
      BY <2>1 DEF TypeInv
  <2>3. Size' = Size + 1
    <3>1. EffectiveBottom = bottom /\ EffectiveBottom' = bottom'
        BY <2>1 DEF EffectiveBottom
    <3> QED
        BY <2>1, <3>1, BottomMoves
  <2>4. \A q \in Thieves : TimelyInv(q)'
      BY <1>0, <1>1, <2>1, <2>2, <2>3, TimelyStays
  <2> QED
      BY <1>0, <1>1, <2>1, <2>2, <2>3, <2>4 DEF IndexInv, Recent, Lag, PushPc
<1>7. CASE PopBegin
  <2>1. /\ pc[Owner] = "idle" /\ pc'[Owner] = "pop_top"
        /\ bottom' = Wrap(bottom - 1)
        /\ UNCHANGED <<top, cachedTop, regs, recipients>>
        /\ \A q \in Thieves : pc'[q] = pc[q]
        /\ ActiveCap' = ActiveCap
      BY <1>0, <1>7, CapFrame DEF PopBegin, Goto
  <2>2. EffectiveBottom' = EffectiveBottom
    <3>1. EffectiveBottom = bottom /\ EffectiveBottom' = Succ(bottom')
        BY <2>1 DEF EffectiveBottom
    <3>2. Succ(Wrap(bottom - 1)) = bottom
        BY <1>0, IndexArithmetic
    <3> QED
        BY <2>1, <3>1, <3>2
  <2>3. /\ Size' = Size /\ Minus(top', cachedTop) = Lag(cachedTop)
        /\ \A q \in Thieves : TimelyInv(q)'
      BY <1>0, <2>1, <2>2, IndexFrame
  <2> QED
      BY <1>0, <1>1, <2>1, <2>3 DEF IndexInv, Recent, Lag, PushPc
<1>8. CASE PopFindEmpty
  <2>1. /\ pc[Owner] = "pop_top" /\ pc'[Owner] = "pop_empty"
        /\ Minus(bottom, top) < 0 /\ regs'[Owner].t = top
        /\ UNCHANGED <<indexVars, recipients>>
        /\ \A q \in Thieves : pc'[q] = pc[q] /\ regs'[q] = regs[q]
        /\ ActiveCap' = ActiveCap
      BY <1>0, <1>8, CapFrame DEF PopFindEmpty, Goto, TypeInv
  <2>2. EffectiveBottom' = EffectiveBottom
      BY <2>1 DEF EffectiveBottom
  <2>3. Size = 0
    <3>1. Recent(top)
        BY <1>0, <1>1 DEF Recent, IndexInv
    <3>2. Minus(bottom, top) = Lag(top) + Size - 1
        BY <1>0, <2>1, <3>1, Distances DEF Popping
    <3> QED
        BY <1>1, <2>1, <3>2
  <2>4. /\ Size' = Size /\ Minus(top', cachedTop) = Lag(cachedTop)
        /\ \A q \in Thieves : TimelyInv(q)'
      BY <1>0, <2>1, <2>2, IndexFrame
  <2> QED
      BY <1>0, <1>1, <2>1, <2>3, <2>4 DEF IndexInv, Recent, Lag, PushPc
<1>9. CASE PopRestoreEmpty
  <2>1. /\ pc[Owner] = "pop_empty" /\ pc'[Owner] = "idle"
        /\ bottom' = regs[Owner].t /\ UNCHANGED <<top, cachedTop, recipients>>
        /\ \A q \in Thieves : pc'[q] = pc[q] /\ regs'[q] = regs[q]
        /\ ActiveCap' = ActiveCap
      BY <1>0, <1>9, CapFrame DEF PopRestoreEmpty, Return, Goto
  <2>2. EffectiveBottom' = EffectiveBottom
    <3>1. regs[Owner].t = top /\ Size = 0
        BY <2>1 DEF IndexInv
    <3>2. EffectiveBottom = top
        BY <1>0, <3>1, IndexArithmetic DEF Size
    <3> QED
        BY <2>1, <3>1, <3>2 DEF EffectiveBottom
  <2>3. /\ Size' = Size /\ Minus(top', cachedTop) = Lag(cachedTop)
        /\ \A q \in Thieves : TimelyInv(q)'
      BY <1>0, <2>1, <2>2, IndexFrame
  <2> QED
      BY <1>0, <1>1, <2>1, <2>3 DEF IndexInv, Recent, Lag, PushPc
<1>10. CASE PopTake
  <2>1. /\ pc[Owner] = "pop_top" /\ Minus(bottom, top) > 0
        /\ UNCHANGED indexVars /\ Len(recipients') = Len(recipients)
        /\ \A q \in Thieves : pc'[q] = pc[q] /\ regs'[q] = regs[q]
        /\ ActiveCap' = ActiveCap
        /\ \/ pc'[Owner] = "idle"
           \/ /\ pc'[Owner] = "pop_shrink" /\ regs'[Owner].t = top
              /\ ShrinkWanted(Minus(bottom, top), ActiveCap)
    <3>1. Len(recipients') = Len(recipients)
        BY <1>0, <1>10, DeliverType DEF PopTake
    <3>2. ActiveCap' = ActiveCap
        BY <1>10, CapFrame DEF PopTake
    <3>3. CASE ShrinkWanted(Minus(bottom, top), ActiveCap)
      <4>1. /\ pc' = [pc EXCEPT ![Owner] = "pop_shrink"]
            /\ regs' = [regs EXCEPT ![Owner].t = top]
          BY <1>10, <3>3 DEF PopTake, Goto
      <4> QED
          BY <1>0, <1>10, <3>1, <3>2, <3>3, <4>1 DEF PopTake, TypeInv
    <3>4. CASE ~ShrinkWanted(Minus(bottom, top), ActiveCap)
      <4>1. /\ pc' = [pc EXCEPT ![Owner] = "idle"]
            /\ regs' = [regs EXCEPT ![Owner] = NoRegs]
          BY <1>10, <3>4 DEF PopTake, Goto, Return
      <4> QED
          BY <1>0, <1>10, <3>1, <3>2, <4>1 DEF PopTake
    <3> QED
        BY <3>3, <3>4
  <2>2. Minus(bottom, top) = Size - 1
    <3>1. Recent(top)
        BY <1>0, <1>1 DEF Recent, IndexInv
    <3>2. Minus(bottom, top) = Lag(top) + Size - 1
        BY <1>0, <2>1, <3>1, Distances DEF Popping
    <3> QED
        BY <1>1, <3>2
  <2>3. Size' = Size - 1
    <3>1. EffectiveBottom' = Wrap(EffectiveBottom - 1)
      <4>1. EffectiveBottom' = bottom
          BY <2>1 DEF EffectiveBottom
      <4>2. bottom = Wrap(EffectiveBottom - 1)
          BY <2>1, Distances DEF Popping
      <4> QED
          BY <4>1, <4>2
    <3> QED
        BY <2>1, <3>1, BottomMoves
  <2>4. \A q \in Thieves : TimelyInv(q)'
      BY <1>0, <1>1, <2>1, <2>2, <2>3, TimelyStays
  <2> QED
      BY <1>0, <1>1, <2>1, <2>2, <2>3, <2>4 DEF IndexInv, Recent, Lag, PushPc
<1>11. CASE PopShrink
  <2>1. PICK newCap \in Capacities :
             /\ Install(newCap, bottom, regs[Owner].t)
             /\ newCap \in Nat /\ Size < newCap
             /\ Minus(bottom, regs[Owner].t) <= newCap
      BY <1>11, ShrinkFacts
  <2>2. ActiveCap' = newCap
      BY <1>0, <2>1, InstallFacts
  <2>3. /\ pc[Owner] = "pop_shrink" /\ pc'[Owner] = "idle"
        /\ UNCHANGED <<indexVars, recipients>>
        /\ \A q \in Thieves : pc'[q] = pc[q] /\ regs'[q] = regs[q]
      BY <1>0, <1>11 DEF PopShrink, Return, Goto
  <2>4. EffectiveBottom' = EffectiveBottom
      BY <2>3 DEF EffectiveBottom
  <2>5. /\ Size' = Size /\ Minus(top', cachedTop) = Lag(cachedTop)
        /\ \A q \in Thieves : TimelyInv(q)'
      BY <1>0, <2>3, <2>4, IndexFrame
  <2> QED
      BY <1>0, <1>1, <2>1, <2>2, <2>3, <2>5 DEF IndexInv, Recent, Lag, PushPc
<1>12. CASE PopFindLast
  <2>1. /\ pc[Owner] = "pop_top" /\ pc'[Owner] = "pop_cas"
        /\ bottom = top /\ regs'[Owner].t = top
        /\ UNCHANGED <<indexVars, recipients>>
        /\ \A q \in Thieves : pc'[q] = pc[q] /\ regs'[q] = regs[q]
        /\ ActiveCap' = ActiveCap
      BY <1>0, <1>12, CapFrame DEF PopFindLast, Goto, TypeInv
  <2>2. EffectiveBottom' = EffectiveBottom
      BY <2>1 DEF EffectiveBottom
  <2>3. Size = 1
    <3>1. Recent(top)
        BY <1>0, <1>1 DEF Recent, IndexInv
    <3>2. Minus(bottom, top) = Lag(top) + Size - 1
        BY <1>0, <2>1, <3>1, Distances DEF Popping
    <3>3. Minus(bottom, top) = Lag(top)
        BY <2>1 DEF Lag
    <3> QED
        BY <1>1, <2>1, <3>2, <3>3
  <2>4. /\ Size' = Size /\ Minus(top', cachedTop) = Lag(cachedTop)
        /\ \A q \in Thieves : TimelyInv(q)'
      BY <1>0, <2>1, <2>2, IndexFrame
  <2> QED
      BY <1>0, <1>1, <2>1, <2>3, <2>4 DEF IndexInv, Recent, Lag, PushPc
<1>13. CASE PopCas
  <2>1. /\ pc[Owner] = "pop_cas" /\ pc'[Owner] = "pop_restore"
        /\ UNCHANGED <<bottom, cachedTop, regs>>
        /\ Len(recipients') = Len(recipients)
        /\ \A q \in Thieves : pc'[q] = pc[q]
        /\ ActiveCap' = ActiveCap
        /\ IF top = regs[Owner].t THEN top' = Succ(top) ELSE top' = top
    <3>1. Len(recipients') = Len(recipients)
        BY <1>0, <1>13, DeliverType DEF PopCas
    <3> QED
        BY <1>0, <1>13, <3>1, CapFrame DEF PopCas, Goto
  <2>2. EffectiveBottom' = EffectiveBottom /\ EffectiveBottom = Succ(bottom)
      BY <2>1 DEF EffectiveBottom
  <2>3. regs[Owner].t = bottom /\ Size <= 1
      BY <2>1 DEF IndexInv
  <2>4. CASE top = regs[Owner].t
    <3>1. Size = 1
      <4>1. Recent(top)
          BY <1>0, <1>1 DEF Recent, IndexInv
      <4>2. Minus(bottom, top) = Lag(top) + Size - 1
          BY <1>0, <2>1, <4>1, Distances DEF Popping
      <4>3. Minus(bottom, top) = Lag(top)
          BY <2>3, <2>4 DEF Lag
      <4> QED
          BY <1>1, <4>2, <4>3
    <3>2. /\ Size' = 0
          /\ \A x \in Indices : Recent(x) => Minus(top', x) = Lag(x) + 1
          /\ \A q \in Thieves : TimelyInv(q)'
        BY <1>0, <2>1, <2>2, <2>4, <3>1, TopMoves, TimelyPassed
    <3> QED
        BY <1>0, <1>1, <2>1, <2>3, <3>1, <3>2 DEF IndexInv, Recent, Lag, PushPc
  <2>5. CASE top # regs[Owner].t
    <3>1. Size = 0
      <4>1. Size # 1
        <5> SUFFICES ASSUME Size = 1
                     PROVE  bottom = top
            BY <2>3, <2>5
        <5>1. Recent(top)
            BY <1>0, <1>1 DEF Recent, IndexInv
        <5>2. Minus(bottom, top) = Lag(top) + Size - 1
            BY <1>0, <2>1, <5>1, Distances DEF Popping
        <5>3. Minus(bottom, top) = 0
            BY <1>1, <5>2
        <5> QED
            BY <1>0, <5>3, IndexArithmetic
      <4> QED
          BY <1>1, <2>3, <4>1
    <3>2. top' = top
        BY <2>1, <2>5
    <3>3. /\ Size' = Size /\ Minus(top', cachedTop) = Lag(cachedTop)
          /\ \A q \in Thieves : TimelyInv(q)'
        BY <1>0, <2>1, <2>2, <3>2, IndexFrame
    <3> QED
        BY <1>0, <1>1, <2>1, <2>3, <3>1, <3>3 DEF IndexInv, Recent, Lag, PushPc
  <2> QED
      BY <2>4, <2>5
<1>14. CASE PopRestoreLast
  <2>1. /\ pc[Owner] = "pop_restore" /\ pc'[Owner] = "idle"
        /\ bottom' = Succ(regs[Owner].t)
        /\ UNCHANGED <<top, cachedTop, recipients>>
        /\ \A q \in Thieves : pc'[q] = pc[q] /\ regs'[q] = regs[q]
        /\ ActiveCap' = ActiveCap
      BY <1>0, <1>14, CapFrame DEF PopRestoreLast, Return, Goto
  <2>2. EffectiveBottom' = EffectiveBottom
    <3>1. regs[Owner].t = bottom
        BY <2>1 DEF IndexInv
    <3> QED
        BY <2>1, <3>1 DEF EffectiveBottom
  <2>3. /\ Size' = Size /\ Minus(top', cachedTop) = Lag(cachedTop)
        /\ \A q \in Thieves : TimelyInv(q)'
      BY <1>0, <2>1, <2>2, IndexFrame
  <2> QED
      BY <1>0, <1>1, <2>1, <2>3 DEF IndexInv, Recent, Lag, PushPc
<1> QED
    BY <1>2, <1>3, <1>4, <1>5, <1>6, <1>7, <1>8, <1>9, <1>10, <1>11, <1>12,
       <1>13, <1>14 DEF Push, Pop

\* The steps of the thieves.
LEMMA IndexThiefStep ==
    ASSUME TypeInv, IndexInv, FewPuts, NEW p \in Thieves, Steal(p)
    PROVE  IndexInv'
<1>0. /\ Owner \in Procs /\ p \in Procs /\ p # Owner
      /\ Thieves \subseteq Procs /\ Owner \notin Thieves
      /\ top \in Indices /\ bottom \in Indices /\ cachedTop \in Indices
      /\ regs[p].t \in Indices /\ regs[Owner].t \in Indices
      /\ Len(recipients) \in Nat /\ ActiveCap \in Nat /\ ActiveCap > 0
      /\ MaxPush \in Nat
      /\ DOMAIN pc = Procs /\ DOMAIN regs = Procs
    BY TypeFacts, InlineAssumption DEF TypeInv
<1>1. /\ Size \in Int /\ 0 <= Size
      /\ \A x \in Indices : Lag(x) \in Int
      /\ Lag(top) = 0
    BY <1>0, Distances DEF IndexInv
<1>2. UNCHANGED <<bottom, cachedTop, memoryVars>>
    BY DEF Steal, StealLoadTop, StealFindEmpty, StealFindValue,
       StealLoadBuffer, StealRead, StealCas, indexVars
<1>3. \A q \in Procs : q # p => pc'[q] = pc[q] /\ regs'[q] = regs[q]
    BY <1>0 DEF Steal, StealLoadTop, StealFindEmpty, StealFindValue,
       StealLoadBuffer, StealRead, StealCas, Return, Goto
<1>4. ActiveCap' = ActiveCap
    BY <1>2, CapFrame
<1>5. EffectiveBottom' = EffectiveBottom
    BY <1>0, <1>2, <1>3 DEF EffectiveBottom
<1>6. ASSUME top' = top, recipients' = recipients, TimelyInv(p)'
      PROVE  IndexInv'
  <2>1. /\ Size' = Size
        /\ \A x \in Indices : Minus(top', x) = Lag(x) /\ Minus(top, x) = Lag(x)
        /\ \A q \in Thieves :
              pc'[q] = pc[q] /\ regs'[q] = regs[q] => TimelyInv(q)'
      BY <1>5, <1>6, IndexFrame
  <2>2. \A q \in Thieves : TimelyInv(q)'
      BY <1>0, <1>3, <1>6, <2>1
  <2>3. pc'[Owner] = pc[Owner] /\ regs'[Owner] = regs[Owner]
      BY <1>0, <1>3
  <2> QED
      BY <1>0, <1>1, <1>2, <1>4, <1>6, <2>1, <2>2, <2>3
      DEF IndexInv, Recent, Lag, PushPc
<1>7. CASE StealLoadTop(p)
  <2>1. top' = top /\ recipients' = recipients /\ regs'[p].t = top
        /\ pc'[p] = "steal_bottom"
      BY <1>0, <1>7 DEF StealLoadTop, Goto, indexVars, TypeInv
  <2>2. Size' = Size /\ Minus(top', top) = 0
      BY <1>1, <1>5, <2>1, BottomMoves DEF Lag
  <2>3. TimelyInv(p)'
      BY <1>0, <1>1, <2>1, <2>2 DEF TimelyInv, Recent, Lag, IndexInv
  <2> QED
      BY <1>6, <2>1, <2>3
<1>8. CASE StealFindEmpty(p)
  <2>1. top' = top /\ recipients' = recipients /\ pc'[p] = "idle"
      BY <1>0, <1>8 DEF StealFindEmpty, Return, Goto, indexVars
  <2>2. TimelyInv(p)'
      BY <2>1 DEF TimelyInv, StealPc
  <2> QED
      BY <1>6, <2>1, <2>2
<1>9. ASSUME pc[p] \in StealPc, top' = top, recipients' = recipients,
             regs'[p].t = regs[p].t,
             regs[p].t = top => Size > 0
      PROVE  TimelyInv(p)'
  <2>1. Recent(regs[p].t)
      BY <1>9 DEF IndexInv, TimelyInv
  <2>2. Size' = Size /\ Minus(top', regs[p].t) = Lag(regs[p].t)
      BY <1>0, <1>5, <1>9, BottomMoves DEF Lag
  <2> QED
      BY <1>0, <1>1, <1>9, <2>1, <2>2 DEF TimelyInv, Recent, Lag
<1>10. CASE StealFindValue(p)
  <2>1. /\ top' = top /\ recipients' = recipients /\ regs' = regs
        /\ pc[p] = "steal_bottom" /\ Minus(bottom, regs[p].t) > 0
      BY <1>10 DEF StealFindValue, indexVars
  <2>2. Recent(regs[p].t)
      BY <2>1 DEF IndexInv, TimelyInv, StealPc
  <2>3. regs[p].t = top => Size > 0
    <3>1. Minus(bottom, regs[p].t) \in
              {Lag(regs[p].t) + Size, Lag(regs[p].t) + Size - 1}
        BY <1>0, <2>2, Distances
    <3> QED
        BY <1>0, <1>1, <2>1, <3>1
  <2> QED
      BY <1>6, <1>9, <2>1, <2>3 DEF StealPc
<1>11. CASE StealLoadBuffer(p)
  <2>1. /\ top' = top /\ recipients' = recipients /\ regs'[p].t = regs[p].t
        /\ pc[p] = "steal_buffer"
      BY <1>0, <1>11 DEF StealLoadBuffer, indexVars, TypeInv
  <2>2. regs[p].t = top => Size > 0
      BY <2>1 DEF IndexInv, TimelyInv, StealPc
  <2> QED
      BY <1>6, <1>9, <2>1, <2>2 DEF StealPc
<1>12. CASE StealRead(p)
  <2>1. /\ top' = top /\ recipients' = recipients /\ regs'[p].t = regs[p].t
        /\ pc[p] = "steal_read"
      BY <1>0, <1>12 DEF StealRead, indexVars, TypeInv
  <2>2. regs[p].t = top => Size > 0
      BY <2>1 DEF IndexInv, TimelyInv, StealPc
  <2> QED
      BY <1>6, <1>9, <2>1, <2>2 DEF StealPc
<1>13. CASE StealCas(p)
  <2>1. pc[p] = "steal_cas" /\ pc'[p] = "idle" /\ TimelyInv(p)'
      BY <1>0, <1>13 DEF StealCas, Return, Goto, TimelyInv, StealPc
  <2>2. CASE top # regs[p].t
    <3>1. top' = top /\ recipients' = recipients
        BY <1>13, <2>2 DEF StealCas
    <3> QED
        BY <1>6, <2>1, <3>1
  <2>3. CASE top = regs[p].t
    <3>1. top' = Succ(top) /\ Len(recipients') = Len(recipients)
        BY <1>0, <1>13, <2>3, DeliverType DEF StealCas
    <3>2. Size > 0
        BY <2>1, <2>3 DEF IndexInv, TimelyInv, StealPc
    <3>3. /\ Size' = Size - 1
          /\ \A x \in Indices : Recent(x) => Minus(top', x) = Lag(x) + 1
        BY <1>5, <3>1, <3>2, TopMoves
    <3>4. \A q \in Thieves : q # p => TimelyInv(q)'
        BY <1>0, <1>3, <1>5, <3>1, <3>2, TimelyPassed
    <3>5. pc'[Owner] = pc[Owner] /\ regs'[Owner] = regs[Owner]
        BY <1>0, <1>3
    <3>6. \A q \in Thieves : TimelyInv(q)'
        BY <2>1, <3>4
    <3>7. \A x \in Indices : Recent(x) =>
             /\ Minus(top', x) + Size' = Lag(x) + Size
             /\ Minus(top', x) >= 0
             /\ Minus(top', x) + Size' <= Len(recipients') + 1
        BY <1>1, <3>1, <3>3 DEF Recent
    <3>8. /\ Len(recipients') <= MaxPush
          /\ 0 <= Size' /\ Size' < ActiveCap' /\ Size' <= Len(recipients')
          /\ pc'[Owner] \in PushPc => Len(recipients') < MaxPush
          /\ pc'[Owner] \in {"push_write", "push_publish"} =>
                Size' < ActiveCap' - 1
        BY <1>0, <1>1, <1>4, <3>1, <3>2, <3>3, <3>5 DEF IndexInv
    <3>9. Recent(cachedTop)'
        BY <1>0, <1>2, <3>7 DEF IndexInv, Recent, Lag
    <3>10. pc'[Owner] = "push_grow" =>
              /\ Minus(top', cachedTop') + Size' < ActiveCap'
              /\ ActiveCap' <= Minus(top', cachedTop') + Size' + 1
      <4>1. Recent(cachedTop) /\ cachedTop' = cachedTop
          BY <1>2 DEF IndexInv
      <4> QED
          BY <1>0, <1>4, <3>5, <3>7, <4>1 DEF IndexInv
    <3>11. pc'[Owner] = "pop_shrink" =>
              /\ Recent(regs[Owner].t)'
              /\ ShrinkWanted(Minus(top', regs'[Owner].t) + Size', ActiveCap')
        BY <1>0, <1>4, <3>5, <3>7 DEF IndexInv, Recent, Lag
    <3>12. /\ pc'[Owner] \notin {"pop_empty", "pop_restore"}
           /\ pc'[Owner] = "pop_cas" =>
                 regs'[Owner].t = bottom' /\ Size' <= 1
        BY <1>1, <1>2, <3>2, <3>3, <3>5 DEF IndexInv
    <3> QED
        BY <3>6, <3>8, <3>9, <3>10, <3>11, <3>12 DEF IndexInv, Lag
  <2> QED
      BY <2>2, <2>3
<1> QED
    BY <1>7, <1>8, <1>10, <1>11, <1>12, <1>13 DEF Steal

LEMMA IndexStep == TypeInv /\ IndexInv /\ FewPuts /\ [Next]_vars => IndexInv'
<1> SUFFICES ASSUME TypeInv, IndexInv, FewPuts, [Next]_vars
             PROVE  IndexInv'
    OBVIOUS
<1>1. ASSUME UNCHANGED <<indexVars, memoryVars, pc, regs, recipients>>
             \/ UNCHANGED <<indexVars, buffer, bufs, pc, regs, recipients>>
      PROVE  IndexInv'
    BY <1>1 DEF indexVars, memoryVars, IndexInv, TimelyInv, Recent, Lag, Size,
       EffectiveBottom, ActiveCap
<1>2. CASE Drop
    BY <1>1, <1>2 DEF Drop
<1>3. CASE UNCHANGED vars
    BY <1>1, <1>3 DEF vars
<1> QED
    BY <1>2, <1>3, IndexOwnerStep, IndexThiefStep DEF Next

-----------------------------------------------------------------------------
(* What the operations hold.                                               *)

\* A thief that has loaded the top that is still there finds, or holds, the
\* oldest value, from whichever buffer.
HoldsInv(p) ==
    regs[p].t = top =>
        /\ pc[p] = "steal_read" =>
              CellOf(bufs[regs[p].buf], top) = Active(top)
        /\ pc[p] = "steal_cas" => regs[p].bits = Active(top)

ClaimInv ==
    /\ pc[Owner] = "push_publish" => Active(bottom) = Len(recipients) + 1
    /\ pc[Owner] = "pop_cas" => regs[Owner].bits = Active(bottom)
    /\ \A p \in Thieves : HoldsInv(p)

\* The values stay where they are: nothing that a thief may take changes, in the
\* active buffer or in an older one.
ValuesStay ==
    /\ \A k \in 0..Size - 1 : CellOf(bufs'[buffer'], top + k) = Active(top + k)
    /\ Size > 0 => \A b \in 1..Len(bufs) :
                      CellOf(bufs'[b], top) = CellOf(bufs[b], top)

LEMMA InstallStays ==
    ASSUME TypeInv, IndexInv, FewPuts, NEW newCap \in Capacities,
           NEW t \in Indices, Install(newCap, bottom, t),
           Minus(bottom, t) <= newCap, Minus(bottom, t) = Lag(t) + Size,
           Lag(t) >= 0
    PROVE  ValuesStay
<1>0. /\ top \in Indices /\ bottom \in Indices /\ top \in Int /\ t \in Int
      /\ Lag(t) \in Int /\ Size \in Int /\ bufs[buffer] \in Rings
    BY TypeFacts, Distances, WrapIndex DEF TypeInv
<1>1. /\ bufs' \in Seq(Rings) /\ buffer' \in 1..Len(bufs')
      /\ \A k \in 1..Len(bufs) : bufs'[k] = bufs[k]
      /\ \A k \in 0..Minus(bottom, t) - 1 :
            CellOf(bufs'[buffer'], t + k) = Active(t + k)
    BY <1>0, InstallFacts
<1>2. PICK new \in Rings : new = bufs'[buffer']
    BY <1>1
<1>3. PICK l \in Int, n \in Int : l = Lag(t) /\ n = Size
    BY <1>0
<1>4. Congruent(top, t + l)
  <2>1. top = Wrap(t + l)
      BY <1>0, <1>3, IndexArithmetic DEF Lag
  <2> QED
      BY <1>0, <2>1, WrapFacts
<1>5. ASSUME NEW k \in 0..n - 1
      PROVE  CellOf(new, top + k) = Active(top + k)
  <2>1. top + k \in Int /\ t + l + k \in Int /\ t + l \in Int /\ k \in Int
        /\ t + l + k = t + (l + k)
      BY <1>0
  <2>2. Congruent(top + k, t + l + k)
      BY <1>0, <1>4, <2>1, CongruentFacts
  <2>3. /\ CellOf(new, top + k) = CellOf(new, t + l + k)
        /\ Active(top + k) = Active(t + l + k)
      BY <1>0, <2>1, <2>2, RingFacts DEF Active
  <2>4. l + k \in 0..Minus(bottom, t) - 1
      BY <1>0, <1>3
  <2> QED
      BY <1>1, <1>2, <2>1, <2>3, <2>4
<1> QED
    BY <1>1, <1>2, <1>3, <1>5 DEF ValuesStay

LEMMA WriteStays ==
    ASSUME TypeInv, IndexInv, FewPuts, PushWrite
    PROVE  ValuesStay
<1>0. /\ top \in Indices /\ bottom \in Indices /\ top \in Int /\ bottom \in Int
      /\ Size \in Int /\ Size < ActiveCap /\ bufs[buffer] \in Rings
      /\ ActiveCap \in Capacities /\ ActiveCap \in Nat /\ ActiveCap > 0
    BY TypeFacts, Distances, WrapIndex DEF TypeInv, IndexInv
<1>1. /\ buffer' = buffer
      /\ \A k \in 1..Len(bufs) : k # buffer => bufs'[k] = bufs[k]
      /\ \A i \in Int : Slot(i, ActiveCap) # Slot(bottom, ActiveCap) =>
           CellOf(bufs'[buffer'], i) = Active(i)
    BY WriteFacts
<1>2. Congruent(bottom, top + Size)
  <2>1. EffectiveBottom = bottom
    <3>1. pc[Owner] \notin Popping
        BY DEF PushWrite, Popping
    <3> QED
        BY <3>1, Distances
  <2>2. bottom = Wrap(top + Size)
      BY <1>0, <2>1, IndexArithmetic DEF Size
  <2> QED
      BY <1>0, <2>2, WrapFacts
<1>3. PICK n \in Int, c \in Capacities : n = Size /\ c = ActiveCap
    BY <1>0
<1>4. ASSUME NEW k \in 0..n - 1
      PROVE  CellOf(bufs'[buffer'], top + k) = Active(top + k)
  <2>1. top + k \in Int /\ top + n \in Int /\ c \in Nat /\ c > 0
        /\ (top + k) - (top + n) < c /\ (top + n) - (top + k) < c
        /\ top + k # top + n
      BY <1>0, <1>3
  <2>2. Slot(bottom, c) = Slot(top + n, c)
      BY <1>0, <1>2, <1>3, <2>1, SlotCongruent
  <2>3. Slot(top + k, c) # Slot(top + n, c)
      BY <2>1, SlotInjective
  <2> QED
      BY <1>1, <1>3, <2>1, <2>2, <2>3
<1>5. ASSUME Size > 0, NEW b \in 1..Len(bufs)
      PROVE  CellOf(bufs'[b], top) = CellOf(bufs[b], top)
  <2>1. CASE b # buffer
      BY <1>1, <2>1
  <2>2. CASE b = buffer
    <3>1. 0 \in 0..n - 1 /\ top + 0 = top
        BY <1>0, <1>3, <1>5
    <3>2. CellOf(bufs'[buffer'], top) = Active(top)
        BY <1>4, <3>1
    <3> QED
        BY <1>1, <2>2, <3>2 DEF Active
  <2> QED
      BY <2>1, <2>2
<1> QED
    BY <1>3, <1>4, <1>5 DEF ValuesStay

\* Whatever the owner does to the buffers.
LEMMA OwnerStays ==
    ASSUME TypeInv, IndexInv, FewPuts,
           PushGrow \/ PushWrite \/ PopShrink \/ UNCHANGED <<buffer, bufs>>
    PROVE  ValuesStay
<1>0. cachedTop \in Indices /\ regs[Owner].t \in Indices
    BY TypeFacts DEF TypeInv
<1>1. CASE PushGrow
    BY <1>0, <1>1, GrowFacts, InstallStays
<1>2. CASE PushWrite
    BY <1>2, WriteStays
<1>3. CASE PopShrink
    BY <1>0, <1>3, ShrinkFacts, InstallStays
<1>4. CASE UNCHANGED <<buffer, bufs>>
    BY <1>4 DEF ValuesStay, Active
<1> QED
    BY <1>1, <1>2, <1>3, <1>4

\* pop, at the last value: bottom is top.
LEMMA LastOne ==
    ASSUME TypeInv, IndexInv, FewPuts, pc[Owner] \in Popping
    PROVE  bottom = top <=> Size = 1
<1>1. top \in Indices /\ bottom \in Indices /\ Size \in Int /\ Lag(top) = 0
    BY Distances DEF TypeInv
<1>2. Recent(top)
    BY <1>1, TypeFacts DEF Recent, IndexInv
<1>3. Minus(bottom, top) = Lag(top) + Size - 1
    BY <1>1, <1>2, Distances
<1>4. (Minus(bottom, top) = 0) <=> (bottom = top)
    BY <1>1, IndexArithmetic
<1> QED
    BY <1>1, <1>3, <1>4

LEMMA HoldsStays ==
    ASSUME TypeInv, IndexInv, FewPuts, ClaimInv, NEW q \in Thieves,
           pc'[q] = pc[q], regs'[q] = regs[q], top' = top, ValuesStay
    PROVE  HoldsInv(q)'
<1> SUFFICES ASSUME regs[q].t = top, pc[q] \in {"steal_read", "steal_cas"}
             PROVE  HoldsInv(q)'
    BY DEF HoldsInv
<1>1. HoldsInv(q) /\ TimelyInv(q)
    BY DEF ClaimInv, IndexInv
<1>2. Size > 0
    BY <1>1 DEF TimelyInv, StealPc
<1>3. top \in Int /\ Size \in Int /\ q \in Procs
    BY Distances, TypeFacts, WrapIndex DEF TypeInv
<1>4. CellOf(bufs'[buffer'], top) = Active(top)
  <2>1. 0 \in 0..Size - 1 /\ top + 0 = top
      BY <1>2, <1>3
  <2> QED
      BY <2>1 DEF ValuesStay
<1>5. pc[q] = "steal_read" =>
          CellOf(bufs'[regs[q].buf], top) = CellOf(bufs[regs[q].buf], top)
    BY <1>2, <1>3 DEF TypeInv, ValuesStay
<1> QED
    BY <1>1, <1>4, <1>5 DEF HoldsInv, Active

LEMMA HoldsPassed ==
    ASSUME TypeInv, IndexInv, FewPuts, NEW q \in Thieves,
           pc'[q] = pc[q], regs'[q] = regs[q], top' = Succ(top), Size > 0,
           EffectiveBottom' = EffectiveBottom
    PROVE  HoldsInv(q)'
<1> SUFFICES ASSUME pc[q] \in StealPc
             PROVE  HoldsInv(q)'
    BY DEF HoldsInv, StealPc
<1>1. regs[q].t \in Indices /\ Recent(regs[q].t)
    BY TypeFacts DEF IndexInv, TimelyInv
<1>2. regs[q].t # top'
    BY <1>1, Passed
<1> QED
    BY <1>2 DEF HoldsInv

LEMMA ClaimInit == Init => ClaimInv
<1>1. Init => \A p \in Procs : pc[p] = "idle"
    BY DEF Init
<1>2. Owner \in Procs /\ Thieves \subseteq Procs
    BY DEF Procs
<1> QED
    BY <1>1, <1>2 DEF ClaimInv, HoldsInv

\* The steps of the owner.
LEMMA ClaimOwnerStep ==
    ASSUME TypeInv, IndexInv, FewPuts, ClaimInv, Push \/ Pop
    PROVE  ClaimInv'
<1>0. /\ Owner \in Procs /\ Thieves \subseteq Procs /\ Owner \notin Thieves
      /\ DOMAIN pc = Procs /\ DOMAIN regs = Procs
      /\ regs \in [Procs -> Registers]
    BY TypeFacts DEF TypeInv, Registers
<1>1. PushGrow \/ PushWrite \/ PopShrink \/ UNCHANGED <<buffer, bufs>>
    BY DEF Push, PushBegin, PushLoadTop, PushPublish, Pop, PopBegin,
       PopFindEmpty, PopRestoreEmpty, PopTake, PopFindLast, PopCas,
       PopRestoreLast, memoryVars
<1>2. ValuesStay
    BY <1>1, OwnerStays
<1>3. \A q \in Thieves : pc'[q] = pc[q] /\ regs'[q] = regs[q]
    BY <1>0
    DEF Push, PushBegin, PushLoadTop, PushGrow, PushWrite, PushPublish, Pop,
        PopBegin, PopFindEmpty, PopRestoreEmpty, PopTake, PopShrink,
        PopFindLast, PopCas, PopRestoreLast, Return, Goto
<1>4. \A q \in Thieves : HoldsInv(q)'
  <2>1. CASE top' = top
      BY <1>2, <1>3, <2>1, HoldsStays
  <2>2. CASE top' # top
    <3>1. PopCas /\ top = regs[Owner].t /\ top' = Succ(top)
        BY <2>2 DEF Push, PushBegin, PushLoadTop, PushGrow, PushWrite,
           PushPublish, Pop, PopBegin, PopFindEmpty, PopRestoreEmpty, PopTake,
           PopShrink, PopFindLast, PopCas, PopRestoreLast, indexVars
    <3>2. /\ pc[Owner] = "pop_cas" /\ pc'[Owner] = "pop_restore"
          /\ bottom' = bottom /\ bottom = top
        BY <1>0, <3>1 DEF PopCas, Goto, IndexInv
    <3>3. EffectiveBottom' = EffectiveBottom
        BY <3>2 DEF EffectiveBottom
    <3>4. Size > 0
        BY <3>2, LastOne DEF Popping
    <3> QED
        BY <1>3, <3>1, <3>3, <3>4, HoldsPassed
  <2> QED
      BY <2>1, <2>2
<1>5. ASSUME pc'[Owner] = "push_publish"
      PROVE  Active(bottom)' = Len(recipients') + 1
  <2>1. PushWrite
      BY <1>0, <1>5
      DEF Push, PushBegin, PushLoadTop, PushGrow, PushPublish, Pop, PopBegin,
          PopFindEmpty, PopRestoreEmpty, PopTake, PopShrink, PopFindLast,
          PopCas, PopRestoreLast, Return, Goto
  <2> QED
      BY <2>1, WriteFacts DEF PushWrite
<1>6. ASSUME pc'[Owner] = "pop_cas"
      PROVE  regs'[Owner].bits = Active(bottom)'
  <2>1. PopFindLast
      BY <1>0, <1>6
      DEF Push, PushBegin, PushLoadTop, PushGrow, PushWrite, PushPublish, Pop,
          PopBegin, PopFindEmpty, PopRestoreEmpty, PopTake, PopShrink, PopCas,
          PopRestoreLast, Return, Goto
  <2> QED
      BY <1>0, <2>1 DEF PopFindLast, indexVars, memoryVars, Active, Registers
<1> QED
    BY <1>4, <1>5, <1>6 DEF ClaimInv

\* The steps of the thieves.
LEMMA ClaimThiefStep ==
    ASSUME TypeInv, IndexInv, FewPuts, ClaimInv, NEW p \in Thieves, Steal(p)
    PROVE  ClaimInv'
<1>0. /\ Owner \in Procs /\ p \in Procs /\ p # Owner
      /\ Thieves \subseteq Procs
      /\ DOMAIN pc = Procs /\ DOMAIN regs = Procs
      /\ regs \in [Procs -> Registers]
    BY TypeFacts DEF TypeInv, Registers
<1>1. UNCHANGED <<bottom, buffer, bufs>> /\ Len(recipients') = Len(recipients)
  <2>1. UNCHANGED <<bottom, buffer, bufs>>
      BY DEF Steal, StealLoadTop, StealFindEmpty, StealFindValue,
         StealLoadBuffer, StealRead, StealCas, indexVars, memoryVars
  <2>2. recipients' = recipients \/ Deliver(regs[p].bits, p)
      BY DEF Steal, StealLoadTop, StealFindEmpty, StealFindValue,
         StealLoadBuffer, StealRead, StealCas
  <2> QED
      BY <1>0, <2>1, <2>2, DeliverType
<1>2. \A q \in Procs : q # p => pc'[q] = pc[q] /\ regs'[q] = regs[q]
    BY <1>0 DEF Steal, StealLoadTop, StealFindEmpty, StealFindValue,
       StealLoadBuffer, StealRead, StealCas, Return, Goto
<1>3. ValuesStay
    BY <1>1, OwnerStays
<1>4. \A q \in Thieves : q # p => HoldsInv(q)'
  <2>1. CASE top' = top
      BY <1>0, <1>2, <1>3, <2>1, HoldsStays
  <2>2. CASE top' # top
    <3>1. /\ pc[p] = "steal_cas" /\ top = regs[p].t /\ top' = Succ(top)
        BY <2>2 DEF Steal, StealLoadTop, StealFindEmpty, StealFindValue,
           StealLoadBuffer, StealRead, StealCas, indexVars
    <3>2. Size > 0
        BY <3>1 DEF IndexInv, TimelyInv, StealPc
    <3>3. EffectiveBottom' = EffectiveBottom
        BY <1>0, <1>1, <1>2 DEF EffectiveBottom
    <3> QED
        BY <1>0, <1>2, <3>1, <3>2, <3>3, HoldsPassed
  <2> QED
      BY <2>1, <2>2
<1>5. HoldsInv(p)'
  <2>1. HoldsInv(p)
      BY DEF ClaimInv
  <2>2. CASE StealLoadBuffer(p)
    <3>1. /\ pc'[p] = "steal_read" /\ regs'[p].buf = buffer /\ bufs' = bufs
          /\ buffer' = buffer /\ top' = top
        BY <1>0, <2>2
        DEF StealLoadBuffer, Goto, memoryVars, indexVars, Registers
    <3> QED
        BY <3>1 DEF HoldsInv, Active
  <2>3. CASE StealRead(p)
    <3>1. /\ pc[p] = "steal_read" /\ pc'[p] = "steal_cas"
          /\ regs'[p].bits = CellOf(bufs[regs[p].buf], regs[p].t)
          /\ regs'[p].t = regs[p].t /\ bufs' = bufs
          /\ buffer' = buffer /\ top' = top
        BY <1>0, <2>3 DEF StealRead, Goto, memoryVars, indexVars, Registers
    <3> QED
        BY <2>1, <3>1 DEF HoldsInv, Active
  <2>4. CASE ~StealLoadBuffer(p) /\ ~StealRead(p)
    <3>1. pc'[p] \notin {"steal_read", "steal_cas"}
        BY <1>0, <2>4 DEF Steal, StealLoadTop, StealFindEmpty, StealFindValue,
           StealCas, Return, Goto
    <3> QED
        BY <3>1 DEF HoldsInv
  <2> QED
      BY <2>2, <2>3, <2>4
<1> QED
    BY <1>0, <1>1, <1>2, <1>4, <1>5 DEF ClaimInv, Active

LEMMA ClaimStep ==
    TypeInv /\ IndexInv /\ FewPuts /\ ClaimInv /\ [Next]_vars => ClaimInv'
<1> SUFFICES ASSUME TypeInv, IndexInv, FewPuts, ClaimInv, [Next]_vars
             PROVE  ClaimInv'
    OBVIOUS
<1>1. ASSUME UNCHANGED <<indexVars, buffer, bufs, pc, regs, recipients>>
      PROVE  ClaimInv'
    BY <1>1 DEF indexVars, ClaimInv, HoldsInv, Active
<1>2. CASE Drop
    BY <1>1, <1>2 DEF Drop
<1>3. CASE UNCHANGED vars
    BY <1>1, <1>3 DEF vars, memoryVars
<1> QED
    BY <1>2, <1>3, ClaimOwnerStep, ClaimThiefStep DEF Next

-----------------------------------------------------------------------------
(* The refinement.                                                         *)

Value(i) == Active(top + i - 1)

\* The items, with the cells that the indices select before they wrap.
ItemsInv == \E n \in Nat : n = Size /\ Items = [i \in 1..n |-> Value(i)]

LEMMA ItemsAre == TypeInv /\ IndexInv /\ FewPuts => ItemsInv
<1> SUFFICES ASSUME TypeInv, IndexInv, FewPuts
             PROVE  ItemsInv
    OBVIOUS
<1>0. Size \in Int /\ top \in Int /\ bufs[buffer] \in Rings
    BY TypeFacts, Distances, WrapIndex DEF TypeInv
<1>1. PICK n \in Nat : n = Size
    BY <1>0 DEF IndexInv
<1>2. Items = [i \in 1..n |-> CellOf(bufs[buffer], Wrap(top + i - 1))]
    BY <1>1 DEF Items, Size
<1>3. ASSUME NEW i \in 1..n
      PROVE  CellOf(bufs[buffer], Wrap(top + i - 1)) = Value(i)
  <2>1. top + i - 1 \in Int
      BY <1>0
  <2> QED
      BY <1>0, <2>1, WrapCell DEF Value, Active
<1> QED
    BY <1>1, <1>2, <1>3 DEF ItemsInv

LEMMA ItemsBecome == (TypeInv /\ IndexInv /\ FewPuts => ItemsInv)'
BY ItemsAre, PTL

\* Nothing a user of the deque could see.
Unseen == Size' = Size /\ UNCHANGED <<top, recipients, freed>> /\ ValuesStay

LEMMA UnseenStutters ==
    ASSUME TypeInv, IndexInv, FewPuts, TypeInv', IndexInv', Unseen
    PROVE  UNCHANGED Deque!vars
<1>0. Size \in Int /\ top \in Int
    BY Distances, WrapIndex DEF TypeInv
<1>1. PICK n \in Nat : n = Size /\ Items = [i \in 1..n |-> Value(i)]
    BY ItemsAre DEF ItemsInv
<1>2. PICK m \in Nat : m = Size' /\ Items' = [i \in 1..m |-> Value(i)']
    BY ItemsBecome DEF ItemsInv, FewPuts
<1>3. m = n
    BY <1>1, <1>2 DEF Unseen
<1>4. ASSUME NEW i \in 1..n
      PROVE  Value(i)' = Value(i)
  <2>1. PICK k \in 0..n - 1 : top + k = top + i - 1
    <3>1. i - 1 \in 0..n - 1 /\ top + (i - 1) = top + i - 1
        BY <1>0, <1>1
    <3> QED
        BY <3>1
  <2>2. CellOf(bufs'[buffer'], top + k) = Active(top + k)
      BY <1>1 DEF Unseen, ValuesStay
  <2> QED
      BY <2>1, <2>2 DEF Value, Active, Unseen
<1>5. Items' = Items
    BY <1>1, <1>2, <1>3, <1>4
<1> QED
    BY <1>5 DEF Unseen, Deque!vars

\* push: the store of bottom puts the value at the end.
LEMMA PublishPuts ==
    ASSUME TypeInv, IndexInv, FewPuts, ClaimInv, TypeInv', IndexInv',
           PushPublish, Live
    PROVE  Deque!Put
<1>0. /\ Size \in Int /\ top \in Int /\ top \in Indices /\ bottom \in Indices
      /\ DOMAIN pc = Procs /\ Owner \in Procs /\ bufs[buffer] \in Rings
    BY Distances, WrapIndex, TypeFacts DEF TypeInv
<1>1. /\ pc[Owner] = "push_publish" /\ pc'[Owner] = "idle"
      /\ UNCHANGED <<top, bufs, buffer, freed>> /\ bottom' = Succ(bottom)
      /\ recipients' = Append(recipients, <<>>)
    BY <1>0 DEF PushPublish, Return, Goto, memoryVars
<1>2. EffectiveBottom = bottom /\ EffectiveBottom' = Succ(bottom)
    BY <1>1 DEF EffectiveBottom
<1>3. Size' = Size + 1
    BY <1>1, <1>2, BottomMoves
<1>4. PICK n \in Nat : n = Size /\ Items = [i \in 1..n |-> Value(i)]
    BY ItemsAre DEF ItemsInv
<1>5. Items' = [i \in 1..n + 1 |-> Value(i)]
  <2>1. PICK m \in Nat : m = Size' /\ Items' = [i \in 1..m |-> Value(i)']
      BY ItemsBecome DEF ItemsInv, FewPuts
  <2>2. m = n + 1
      BY <1>3, <1>4, <2>1
  <2> QED
      BY <1>1, <2>1, <2>2 DEF Value, Active
<1>6. Value(n + 1) = Len(recipients) + 1
  <2>1. top + (n + 1) - 1 = top + n /\ top + n \in Int
      BY <1>0
  <2>2. Wrap(top + n) = bottom
      BY <1>0, <1>2, <1>4, IndexArithmetic DEF Size
  <2>3. Active(bottom) = Active(top + n)
      BY <1>0, <2>1, <2>2, WrapCell DEF Active
  <2> QED
      BY <1>1, <2>1, <2>3 DEF Value, ClaimInv
<1> HIDE DEF Value
<1>7. Items' = Append(Items, Value(n + 1))
    BY <1>4, <1>5
<1> QED
    BY <1>1, <1>6, <1>7 DEF Deque!Put, Live

\* A successful CAS on top takes the oldest value.
LEMMA CasTakesFirst ==
    ASSUME TypeInv, IndexInv, FewPuts, TypeInv', IndexInv', Live,
           NEW p \in Procs, Size > 0, top' = Succ(top),
           EffectiveBottom' = EffectiveBottom, Deliver(Active(top), p),
           UNCHANGED <<bufs, buffer, freed>>
    PROVE  /\ Deque!TakeFirst(p)
           /\ Size = 1 => Deque!TakeLast(p)
<1>0. /\ Size \in Int /\ top \in Int /\ top \in Indices
      /\ bufs[buffer] \in Rings
    BY Distances, WrapIndex, TypeFacts DEF TypeInv
<1>1. Size' = Size - 1
    BY TopMoves
<1>2. PICK n \in Nat : n + 1 = Size /\ Items = [i \in 1..n + 1 |-> Value(i)]
  <2>1. PICK m \in Nat : m = Size /\ Items = [i \in 1..m |-> Value(i)]
      BY ItemsAre DEF ItemsInv
  <2>2. m - 1 \in Nat /\ (m - 1) + 1 = m
      BY <2>1
  <2> QED
      BY <2>1, <2>2
<1>3. Items' = [i \in 1..n |-> Value(i + 1)]
  <2>1. PICK m \in Nat : m = Size' /\ Items' = [i \in 1..m |-> Value(i)']
      BY ItemsBecome DEF ItemsInv, FewPuts
  <2>2. m = n
      BY <1>1, <1>2, <2>1
  <2>3. ASSUME NEW i \in 1..n
        PROVE  Value(i)' = Value(i + 1)
    <3>1. /\ top + 1 \in Int /\ i - 1 \in Int /\ top + i \in Int
          /\ (top + 1) + (i - 1) = top + i /\ top + (i + 1) - 1 = top + i
        BY <1>0
    <3>2. PICK w \in Int : w = Succ(top) /\ Congruent(w, top + 1)
        BY <3>1, WrapFacts DEF Succ
    <3>3. w + (i - 1) = w + i - 1 /\ w + i - 1 \in Int
        BY <3>2
    <3>4. Congruent(w + i - 1, top + i)
      <4>1. PICK y \in Int, z \in Int : y = top + 1 /\ z = i - 1
          BY <3>1
      <4>2. Congruent(w, y)
          BY <3>2, <4>1
      <4>3. Congruent(w + z, y + z)
          BY <4>2, CongruentPlus
      <4> QED
          BY <3>1, <3>3, <4>1, <4>3
    <3>5. Active(w + i - 1) = Active(top + i)
        BY <1>0, <3>1, <3>3, <3>4, RingFacts DEF Active
    <3>6. Value(i)' = Active(w + i - 1)
        BY <3>2 DEF Value, Active
    <3> QED
        BY <3>1, <3>5, <3>6 DEF Value
  <2> QED
      BY <2>1, <2>2, <2>3
<1>4. Value(1) = Active(top)
  <2>1. top + 1 - 1 = top
      BY <1>0
  <2> QED
      BY <2>1 DEF Value
<1> HIDE DEF Value
<1>5. Items # <<>> /\ Head(Items) = Value(1) /\ Len(Items) = n + 1
    BY <1>2
<1>6. Items' = Tail(Items)
    BY <1>2, <1>3, <1>5
<1>7. Deque!TakeFirst(p)
    BY <1>4, <1>5, <1>6 DEF Deque!TakeFirst, Deque!HandOver, Deliver, Live
<1>8. ASSUME Size = 1
      PROVE  Deque!TakeLast(p)
  <2>1. n = 0
      BY <1>2, <1>8
  <2>2. Items = <<Value(1)>> /\ Items' = <<>>
      BY <2>1, <1>2, <1>3
  <2>3. Deque!Last(Items) = Value(1) /\ Deque!Front(Items) = <<>>
      BY <2>2 DEF Deque!Last, Deque!Front
  <2> QED
      BY <2>2, <2>3, <1>4, <1>5
      DEF Deque!TakeLast, Deque!HandOver, Deliver, Live
<1> QED
    BY <1>7, <1>8

\* pop: with more than one value there, the load of top takes the newest.
LEMMA PopTakesLast ==
    ASSUME TypeInv, IndexInv, FewPuts, TypeInv', IndexInv', Live, PopTake
    PROVE  Deque!TakeLast(Owner)
<1>0. /\ Size \in Int /\ top \in Int /\ top \in Indices /\ bottom \in Indices
      /\ DOMAIN pc = Procs /\ Owner \in Procs /\ bufs[buffer] \in Rings
      /\ Lag(top) = 0 /\ Len(recipients) \in Nat
    BY Distances, WrapIndex, TypeFacts DEF TypeInv
<1>1. /\ pc[Owner] = "pop_top" /\ Minus(bottom, top) > 0
      /\ pc'[Owner] \in {"pop_shrink", "idle"}
      /\ UNCHANGED <<top, bottom, bufs, buffer, freed>>
      /\ Deliver(Active(bottom), Owner)
    BY <1>0 DEF PopTake, Return, Goto, memoryVars, indexVars, Active
<1>2. /\ Minus(bottom, top) = Size - 1
      /\ EffectiveBottom' = bottom /\ bottom = Wrap(EffectiveBottom - 1)
  <2>1. pc[Owner] \in Popping
      BY <1>1 DEF Popping
  <2>2. EffectiveBottom' = bottom
      BY <1>1 DEF EffectiveBottom
  <2>3. Recent(top)
      BY <1>0 DEF Recent, IndexInv
  <2> QED
      BY <1>0, <2>1, <2>2, <2>3, Distances
<1>3. Size' = Size - 1
    BY <1>1, <1>2, BottomMoves
<1>4. PICK n \in Nat : n + 1 = Size /\ Items = [i \in 1..n + 1 |-> Value(i)]
  <2>1. PICK m \in Nat : m = Size /\ Items = [i \in 1..m |-> Value(i)]
      BY ItemsAre DEF ItemsInv
  <2>2. m - 1 \in Nat /\ (m - 1) + 1 = m
      BY <1>1, <1>2, <2>1
  <2> QED
      BY <2>1, <2>2
<1>5. Items' = [i \in 1..n |-> Value(i)]
  <2>1. PICK m \in Nat : m = Size' /\ Items' = [i \in 1..m |-> Value(i)']
      BY ItemsBecome DEF ItemsInv, FewPuts
  <2>2. m = n
      BY <1>3, <1>4, <2>1
  <2> QED
      BY <1>1, <2>1, <2>2 DEF Value, Active
<1>6. Value(n + 1) = Active(bottom)
  <2>1. top + (n + 1) - 1 = top + n /\ top + n \in Int
      BY <1>0
  <2>2. Minus(bottom, top) = n
      BY <1>2, <1>4
  <2>3. Wrap(top + n) = bottom
      BY <1>0, <2>2, IndexArithmetic
  <2>4. Active(bottom) = Active(top + n)
      BY <1>0, <2>1, <2>3, WrapCell DEF Active
  <2> QED
      BY <2>1, <2>4 DEF Value
<1> HIDE DEF Value
<1>7. /\ Items # <<>> /\ Len(Items) = n + 1 /\ Deque!Last(Items) = Value(n + 1)
      /\ Deque!Front(Items) = Items'
    BY <1>4, <1>5 DEF Deque!Last, Deque!Front
<1> QED
    BY <1>1, <1>6, <1>7 DEF Deque!TakeLast, Deque!HandOver, Deliver, Live

\* The steps of push and pop that nobody sees.
LEMMA OwnerUnseen ==
    ASSUME TypeInv, IndexInv, FewPuts, Push \/ Pop, ~PushPublish, ~PopTake,
           PopCas => top # regs[Owner].t
    PROVE  Unseen
<1>0. /\ DOMAIN pc = Procs /\ Owner \in Procs
      /\ top \in Indices /\ bottom \in Indices
    BY TypeFacts DEF TypeInv
<1>1. PushGrow \/ PushWrite \/ PopShrink \/ UNCHANGED <<buffer, bufs>>
    BY DEF Push, PushBegin, PushLoadTop, PushPublish, Pop, PopBegin,
       PopFindEmpty, PopRestoreEmpty, PopTake, PopFindLast, PopCas,
       PopRestoreLast, memoryVars
<1>2. ValuesStay
    BY <1>1, OwnerStays
<1>3. UNCHANGED <<top, recipients, freed>>
    BY DEF Push, PushBegin, PushLoadTop, PushGrow, PushWrite, Pop, PopBegin,
       PopFindEmpty, PopRestoreEmpty, PopShrink, PopFindLast, PopCas,
       PopRestoreLast, Install, indexVars, memoryVars
<1>4. EffectiveBottom' = EffectiveBottom
  <2>1. CASE PopBegin
    <3>1. Succ(Wrap(bottom - 1)) = bottom
        BY <1>0, IndexArithmetic
    <3> QED
        BY <1>0, <2>1, <3>1 DEF PopBegin, Goto, EffectiveBottom
  <2>2. CASE PopRestoreEmpty
    <3>1. pc[Owner] = "pop_empty" /\ regs[Owner].t = top /\ Size = 0
        BY <2>2 DEF PopRestoreEmpty, IndexInv
    <3>2. EffectiveBottom = top
        BY <1>0, <3>1, TypeFacts, IndexArithmetic DEF Size
    <3> QED
        BY <1>0, <2>2, <3>1, <3>2
        DEF PopRestoreEmpty, Return, Goto, EffectiveBottom
  <2>3. CASE PopRestoreLast
      BY <1>0, <2>3
      DEF PopRestoreLast, Return, Goto, EffectiveBottom, IndexInv
  <2>4. CASE ~PopBegin /\ ~PopRestoreEmpty /\ ~PopRestoreLast
      BY <1>0, <2>4
      DEF Push, PushBegin, PushLoadTop, PushGrow, PushWrite, Pop, PopFindEmpty,
          PopShrink, PopFindLast, PopCas, Return, Goto, EffectiveBottom,
          indexVars
  <2> QED
      BY <2>1, <2>2, <2>3, <2>4
<1> QED
    BY <1>2, <1>3, <1>4, BottomMoves DEF Unseen

\* The steps of a thief that nobody sees: all but a CAS that succeeds.
LEMMA ThiefUnseen ==
    ASSUME TypeInv, IndexInv, FewPuts, NEW p \in Thieves, Steal(p),
           StealCas(p) => top # regs[p].t
    PROVE  Unseen
<1>0. /\ DOMAIN pc = Procs /\ Owner \in Procs /\ p \in Procs /\ p # Owner
    BY TypeFacts DEF TypeInv
<1>1. UNCHANGED <<top, bottom, buffer, bufs, recipients, freed>>
    BY DEF Steal, StealLoadTop, StealFindEmpty, StealFindValue,
       StealLoadBuffer, StealRead, StealCas, indexVars, memoryVars
<1>2. pc'[Owner] = pc[Owner]
    BY <1>0 DEF Steal, StealLoadTop, StealFindEmpty, StealFindValue,
       StealLoadBuffer, StealRead, StealCas, Return, Goto
<1>3. Size' = Size
    BY <1>1, <1>2 DEF Size, EffectiveBottom
<1>4. ValuesStay
    BY <1>1, OwnerStays
<1> QED
    BY <1>1, <1>3, <1>4 DEF Unseen

\* Every access to shared memory is a step of the atomic deque, or none.
LEMMA DequeStep ==
    ASSUME TypeInv, IndexInv, FewPuts, ClaimInv, BuffersKept, TypeInv',
           IndexInv', Next
    PROVE  Deque!Next \/ UNCHANGED Deque!vars
<1>0. /\ DOMAIN pc = Procs /\ Owner \in Procs /\ Thieves \subseteq Procs
      /\ Owner \notin Thieves
    BY TypeFacts DEF TypeInv
<1>1. \A p \in Procs : pc[p] # "idle" => Live
    BY DEF BuffersKept
<1>2. CASE PushPublish
  <2>1. Live
      BY <1>0, <1>1, <1>2 DEF PushPublish
  <2> QED
      BY <1>2, <2>1, PublishPuts DEF Deque!Next
<1>3. CASE PopTake
  <2>1. Live
      BY <1>0, <1>1, <1>3 DEF PopTake
  <2> QED
      BY <1>3, <2>1, PopTakesLast DEF Deque!Next, Deque!OwnerTake
<1>4. CASE PopCas /\ top = regs[Owner].t
  <2>1. /\ pc[Owner] = "pop_cas" /\ pc'[Owner] = "pop_restore"
        /\ UNCHANGED <<bottom, bufs, buffer, freed>> /\ top' = Succ(top)
        /\ Deliver(regs[Owner].bits, Owner)
      BY <1>0, <1>4 DEF PopCas, Goto, memoryVars
  <2>2. regs[Owner].bits = Active(top) /\ bottom = top
      BY <1>4, <2>1 DEF ClaimInv, IndexInv
  <2>3. Size = 1
      BY <2>1, <2>2, LastOne DEF Popping
  <2>4. Live /\ EffectiveBottom' = EffectiveBottom
      BY <1>0, <1>1, <2>1 DEF EffectiveBottom
  <2>5. Deque!TakeLast(Owner)
      BY <1>0, <2>1, <2>2, <2>3, <2>4, CasTakesFirst
  <2> QED
      BY <2>5 DEF Deque!Next, Deque!OwnerTake
<1>5. ASSUME NEW p \in Thieves, StealCas(p), top = regs[p].t
      PROVE  Deque!Next
  <2>1. /\ pc[p] = "steal_cas" /\ pc'[Owner] = pc[Owner]
        /\ UNCHANGED <<bottom, bufs, buffer, freed>> /\ top' = Succ(top)
        /\ Deliver(regs[p].bits, p)
      BY <1>0, <1>5 DEF StealCas, Return, Goto, memoryVars
  <2>2. regs[p].bits = Active(top) /\ Size > 0
      BY <1>5, <2>1 DEF ClaimInv, HoldsInv, IndexInv, TimelyInv, StealPc
  <2>3. Live /\ EffectiveBottom' = EffectiveBottom
      BY <1>0, <1>1, <2>1 DEF EffectiveBottom
  <2>4. Deque!TakeFirst(p)
      BY <1>0, <2>1, <2>2, <2>3, CasTakesFirst
  <2> QED
      BY <2>4 DEF Deque!Next
<1>6. CASE Drop
  <2>1. UNCHANGED <<top, bottom, buffer, bufs, pc, recipients>>
      BY <1>6 DEF Drop, indexVars
  <2> QED
      BY <2>1 DEF Deque!vars, Items, EffectiveBottom
<1>7. Unseen => UNCHANGED Deque!vars
    BY UnseenStutters
<1> QED
    BY <1>2, <1>3, <1>4, <1>5, <1>6, <1>7, OwnerUnseen, ThiefUnseen DEF Next

LEMMA DequeInit == FewPuts /\ Init => Deque!Init
<1> SUFFICES ASSUME FewPuts, Init PROVE Deque!Init
    OBVIOUS
<1>1. TypeInv /\ IndexInv
    BY TypeInit, IndexInit
<1>2. recipients = <<>>
    BY DEF Init
<1>3. Size = 0
  <2>1. Size \in Int /\ Len(recipients) = 0
      BY <1>1, <1>2, Distances
  <2> QED
      BY <1>1, <2>1 DEF IndexInv
<1>4. Items = <<>>
  <2>1. PICK n \in Nat : n = Size /\ Items = [i \in 1..n |-> Value(i)]
      BY <1>1, ItemsAre DEF ItemsInv
  <2>2. 1..n = {}
      BY <1>3, <2>1
  <2> QED
      BY <2>1, <2>2
<1> QED
    BY <1>2, <1>4 DEF Deque!Init

\* inline.rs 5-17: push, pop and steal are atomic though the indices wrap and
\* nobody counts the thieves in flight: each value goes to one process, the
\* oldest to a thief or the newest to the owner.  It holds from whatever index
\* the deque has come to, for as many further puts as there are indices on one
\* side of 0 but two (2^63 - 2 where isize has 64 bits): after a whole round
\* of indices a thief that slept since could find "its" top again.
THEOREM InlineDequeIsAtomic == FewPuts => (Spec => ImplementsDeque)
<1> SUFFICES ASSUME FewPuts
             PROVE  Spec => ImplementsDeque
    OBVIOUS
<1>1. Init => TypeInv /\ IndexInv /\ ClaimInv
    BY TypeInit, IndexInit, ClaimInit
<1>2. TypeInv /\ IndexInv /\ ClaimInv /\ [Next]_vars
      => (TypeInv /\ IndexInv /\ ClaimInv)'
    BY TypeStep, IndexStep, ClaimStep
<1>3. /\ TypeInv /\ IndexInv /\ ClaimInv /\ BuffersKept /\ [Next]_vars
      /\ (TypeInv /\ IndexInv /\ ClaimInv)'
      => [Deque!Next]_(Deque!vars)
  <2>1. ASSUME UNCHANGED vars
        PROVE  UNCHANGED Deque!vars
      BY <2>1
      DEF vars, indexVars, memoryVars, Deque!vars, Items, EffectiveBottom
  <2> QED
      BY <2>1, DequeStep
<1>4. Init => Deque!Init
    BY DequeInit
<1> QED
    BY <1>1, <1>2, <1>3, <1>4, EveryBufferFreedOnce, PTL
    DEF Spec, ImplementsDeque, Deque!Spec
==============================================================================
