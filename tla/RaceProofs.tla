------------------------------ MODULE RaceProofs ------------------------------
(***************************************************************************)
(* Proofs about Race: the detector finds exactly the races of the          *)
(* definition, for programs of any size and shape.                         *)
(***************************************************************************)
EXTENDS Race, SequenceTheorems, FiniteSetTheorems, WellFoundedInduction, TLAPS

LEMMA LeastNat ==
    ASSUME NEW T \in SUBSET Nat, T # {}
    PROVE  \E x \in T : \A y \in T : x <= y
<1> DEFINE W == {0..x : x \in T}
           R == StrictSubsetOrdering(Nat)
<1>1. IsWellFoundedOn(R, FiniteSubsetsOf(Nat))
    BY FS_StrictSubsetOrderingWellFounded
<1>2. W \subseteq FiniteSubsetsOf(Nat) /\ W # {}
  <2>1. \A x \in T : 0..x \subseteq Nat /\ IsFiniteSet(0..x)
      BY FS_Interval
  <2> QED
      BY <2>1 DEF FiniteSubsetsOf
<1>3. \E w \in W : \A v \in W : ~(<<v, w>> \in R)
  <2> HIDE DEF W, R
  <2> QED
      BY <1>1, <1>2, WFMin
<1>4. PICK x \in T : \A y \in T : <<0..y, 0..x>> \notin R
    BY <1>3
<1>5. ASSUME NEW y \in T, y < x PROVE FALSE
  <2>1. 0..y \in SUBSET Nat /\ 0..x \in SUBSET Nat /\ 0..y \subseteq 0..x
      BY <1>5
  <2>2. x \in 0..x /\ x \notin 0..y
      BY <1>5
  <2>3. <<0..y, 0..x>> \in R
      BY <2>1, <2>2 DEF StrictSubsetOrdering
  <2> QED
      BY <2>3, <1>4
<1> QED
    BY <1>5

LEMMA AllOfNat ==
    ASSUME NEW T \in SUBSET Nat, 0 \in T, \A n \in T : n + 1 \in T
    PROVE  T = Nat
<1> SUFFICES ASSUME Nat \ T # {}
             PROVE  FALSE
    OBVIOUS
<1>1. PICK x \in Nat \ T : \A y \in Nat \ T : x <= y
    BY LeastNat
<1>2. x - 1 \in Nat /\ x - 1 \in T
    BY <1>1
<1> QED
    BY <1>1, <1>2

\* A function whose value at n is given by those at smaller numbers: B[n][w] is
\* what comes after the values w.
Step(lo, N, V, B) ==
    \A n \in lo..N : \A w \in [lo..N -> V] :
        /\ B[n][w] \in V
        /\ \A x \in [lo..N -> V] :
              (\A k \in lo..n - 1 : w[k] = x[k]) => B[n][w] = B[n][x]
Fixpoint(lo, N, V, B) ==
    \E f \in [lo..N -> V] : \A n \in lo..N : f[n] = B[n][f]

LEMMA Recursion ==
    ASSUME NEW lo \in Nat, NEW N \in Nat, NEW V, NEW v \in V, NEW B,
           Step(lo, N, V, B)
    PROVE  Fixpoint(lo, N, V, B)
<1> USE DEF Step, Fixpoint
<1> DEFINE Upto(f, m) == \A n \in lo..N : n < m => f[n] = B[n][f]
           T == {m \in Nat : \E f \in [lo..N -> V] : Upto(f, m)}
<1>1. 0 \in T
  <2> DEFINE f == [n \in lo..N |-> v]
  <2>1. f \in [lo..N -> V] /\ Upto(f, 0)
      OBVIOUS
  <2> QED
      BY <2>1
<1>2. ASSUME NEW m \in T PROVE m + 1 \in T
  <2>1. PICK f \in [lo..N -> V] : Upto(f, m)
      OBVIOUS
  <2>2. CASE m \notin lo..N
    <3>1. Upto(f, m + 1)
        BY <2>1, <2>2
    <3> QED
        BY <3>1
  <2>3. CASE m \in lo..N
    <3> DEFINE g == [f EXCEPT ![m] = B[m][f]]
    <3>1. g \in [lo..N -> V] /\ g[m] = B[m][f]
        BY <2>3
    <3>2. \A n \in lo..N : n # m => g[n] = f[n]
        BY <2>3
    <3> HIDE DEF g
    <3>3. ASSUME NEW n \in lo..N, n < m + 1 PROVE g[n] = B[n][g]
      <4>1. \A k \in lo..n - 1 : f[k] = g[k]
          BY <3>2, <3>3
      <4>2. B[n][f] = B[n][g]
          BY <3>1, <4>1
      <4>3. CASE n = m
          BY <3>1, <4>2, <4>3
      <4>4. CASE n # m
          BY <2>1, <3>2, <3>3, <4>2, <4>4
      <4> QED
          BY <4>3, <4>4
    <3> QED
        BY <3>1, <3>3
  <2> QED
      BY <2>2, <2>3
<1>3. T = Nat
  <2>1. T \in SUBSET Nat
      OBVIOUS
  <2> HIDE DEF T
  <2> QED
      BY <1>1, <1>2, <2>1, AllOfNat
<1>4. PICK f \in [lo..N -> V] : Upto(f, N + 1)
  <2>1. N + 1 \in T
    <3> HIDE DEF T, Upto
    <3> QED
        BY <1>3
  <2> QED
      BY <2>1
<1>5. \A n \in lo..N : n < N + 1
    OBVIOUS
<1> QED
    BY <1>4, <1>5

-----------------------------------------------------------------------------
(* Sums                                                                    *)

\* What Sums adds up.
LEMMA SumsFacts ==
    ASSUME NEW m \in Nat, NEW numbers \in [1..m -> Nat], Len(numbers) = m
    PROVE  LET s == Sums(numbers)
           IN  /\ s \in [0..m -> Nat]
               /\ s[0] = 0
               /\ \A i \in 1..m : s[i] = s[i - 1] + numbers[i]
<1> DEFINE Body(f) == [i \in 0..Len(numbers) |->
                         IF i = 0 THEN 0 ELSE f[i - 1] + numbers[i]]
           s == CHOOSE f : f = Body(f)
           V == [0..m -> Nat]
           B == [i \in 0..m |-> [w \in V |->
                    IF i = 0 THEN 0 ELSE w[i - 1] + numbers[i]]]
<1>1. \E f : f = Body(f)
  <2>1. \A i \in 0..m : \A w \in V :
            B[i][w] = IF i = 0 THEN 0 ELSE w[i - 1] + numbers[i]
      OBVIOUS
  <2>2. \A i \in 0..m : i # 0 => i - 1 \in 0..m /\ i \in 1..m
      OBVIOUS
  <2> HIDE DEF B
  <2>3. ASSUME NEW i \in 0..m, NEW w \in V PROVE B[i][w] \in Nat
    <3>1. CASE i = 0
        BY <2>1, <3>1
    <3>2. CASE i # 0
      <4>1. w[i - 1] \in Nat /\ numbers[i] \in Nat
          BY <2>2, <3>2
      <4>2. w[i - 1] + numbers[i] \in Nat
          BY <4>1
      <4>3. B[i][w] = w[i - 1] + numbers[i]
          BY <2>1, <3>2
      <4> QED
          BY <4>2, <4>3
    <3> QED
        BY <3>1, <3>2
  <2>4. ASSUME NEW i \in 0..m, NEW w \in V, NEW x \in V,
               \A k \in 0..i - 1 : w[k] = x[k]
        PROVE  B[i][w] = B[i][x]
    <3>1. i # 0 => i - 1 \in 0..i - 1
        OBVIOUS
    <3>2. B[i][w] = (IF i = 0 THEN 0 ELSE w[i - 1] + numbers[i])
        BY <2>1
    <3>3. B[i][x] = (IF i = 0 THEN 0 ELSE x[i - 1] + numbers[i])
        BY <2>1
    <3> QED
        BY <2>4, <3>1, <3>2, <3>3
  <2>5. PICK f \in V : \A i \in 0..m : f[i] = B[i][f]
    <3>1. 0 \in Nat
        OBVIOUS
    <3>2. \A i \in 0..m : \A w \in V : B[i][w] \in Nat
        BY <2>3
    <3>3. \A i \in 0..m : \A w \in V : \A x \in V :
              (\A k \in 0..i - 1 : w[k] = x[k]) => B[i][w] = B[i][x]
        BY <2>4
    <3>4. ASSUME NEW i \in 0..m, NEW w \in V
          PROVE  /\ B[i][w] \in Nat
                 /\ \A x \in V :
                       (\A k \in 0..i - 1 : w[k] = x[k]) => B[i][w] = B[i][x]
        BY <3>2, <3>3, Zenon
    <3>5. Step(0, m, Nat, B)
        BY <3>4, Zenon DEF Step
    <3>6. Fixpoint(0, m, Nat, B)
        BY <3>1, <3>5, Recursion
    <3> QED
        BY <3>6, Zenon DEF Fixpoint
  <2>6. f = [i \in 0..m |-> IF i = 0 THEN 0 ELSE f[i - 1] + numbers[i]]
    <3>1. f = [i \in 0..m |-> f[i]]
        OBVIOUS
    <3>2. \A i \in 0..m : f[i] = IF i = 0 THEN 0 ELSE f[i - 1] + numbers[i]
        BY <2>1, <2>5
    <3> QED
        BY <3>1, <3>2, Zenon
  <2> QED
      BY <2>6
<1>2. s = Body(s)
  <2> HIDE DEF Body
  <2> QED
      BY <1>1
<1>3. Sums(numbers) = s
    BY DEF Sums
<1> HIDE DEF s
<1>4. /\ s = [i \in 0..m |-> s[i]]
      /\ s[0] = 0
      /\ \A i \in 1..m : s[i] = s[i - 1] + numbers[i]
  <2>1. \A i \in 0..m : s[i] = IF i = 0 THEN 0 ELSE s[i - 1] + numbers[i]
      BY <1>2
  <2>2. 0 \in 0..m /\ \A i \in 1..m : i \in 0..m /\ i # 0
      OBVIOUS
  <2> QED
      BY <1>2, <2>1, <2>2
<1>5. \A i \in 0..m : s[i] \in Nat
  <2> DEFINE bad == {i \in 0..m : s[i] \notin Nat}
  <2> SUFFICES ASSUME bad # {} PROVE FALSE
      OBVIOUS
  <2>1. PICK i \in bad : \A j \in bad : i <= j
    <3>1. bad \in SUBSET Nat
        OBVIOUS
    <3> HIDE DEF bad
    <3> QED
        BY <3>1, LeastNat
  <2>2. i # 0
      BY <1>4
  <2>3. i \in 1..m /\ i - 1 \in 0..m /\ i - 1 \notin bad
      BY <2>1, <2>2
  <2>4. s[i - 1] \in Nat /\ numbers[i] \in Nat
      BY <2>3
  <2>5. s[i] = s[i - 1] + numbers[i]
      BY <1>4, <2>3
  <2>6. s[i] \in Nat /\ s[i] \notin Nat
    <3>1. s[i - 1] + numbers[i] \in Nat
        BY <2>4
    <3> QED
        BY <2>5, <3>1
  <2> QED
      BY <2>6
<1> QED
    BY <1>3, <1>4, <1>5

\* Where the children of a node begin.
Starts(b, m) ==
    /\ b \in [0..m -> Nat]
    /\ b[0] = 0
    /\ \A i \in 1..m : b[i - 1] <= b[i]

LEMMA StartsFacts ==
    ASSUME NEW m \in Nat, NEW b, Starts(b, m)
    PROVE  /\ \A i \in 0..m : b[i] \in Nat
           /\ \A i, j \in 0..m : i <= j => b[i] <= b[j]
           /\ \A x \in 0..b[m] - 1 : \E i \in 1..m : b[i - 1] <= x /\ x < b[i]
<1>0. /\ \A i \in 0..m : b[i] \in Nat
      /\ b[0] = 0
      /\ \A i \in 1..m : b[i - 1] <= b[i]
    BY DEF Starts
<1>1. ASSUME NEW i \in 0..m, NEW j \in 0..m, i <= j PROVE b[i] <= b[j]
  <2> DEFINE bad == {k \in i..m : b[k] < b[i]}
  <2>1. CASE bad = {}
    <3>1. j \notin bad /\ j \in i..m
        BY <1>1, <2>1
    <3> QED
        BY <1>0, <3>1
  <2>2. CASE bad # {}
    <3>1. PICK k \in bad : \A l \in bad : k <= l
      <4>1. bad \in SUBSET Nat
          OBVIOUS
      <4> HIDE DEF bad
      <4> QED
          BY <2>2, <4>1, LeastNat
    <3>2. k # i
        BY <1>0, <3>1
    <3>3. k \in 1..m /\ k - 1 \in i..m /\ k - 1 \in 0..m /\ k - 1 \notin bad
        BY <3>1, <3>2
    <3>4. b[k - 1] <= b[k] /\ b[i] <= b[k - 1] /\ b[k] < b[i]
        BY <1>0, <3>1, <3>3
    <3> QED
        BY <1>0, <3>3, <3>4
  <2> QED
      BY <2>1, <2>2
<1>2. ASSUME NEW x \in 0..b[m] - 1
      PROVE  \E i \in 1..m : b[i - 1] <= x /\ x < b[i]
  <2> DEFINE above == {k \in 0..m : x < b[k]}
  <2>1. m \in above
      BY <1>0
  <2>2. PICK i \in above : \A k \in above : i <= k
    <3>1. above \in SUBSET Nat /\ above # {}
        BY <2>1
    <3> HIDE DEF above
    <3> QED
        BY <3>1, LeastNat
  <2>3. i # 0
      BY <1>0, <2>2
  <2>4. i \in 1..m /\ i - 1 \in 0..m /\ i - 1 \notin above
      BY <2>2, <2>3
  <2> QED
      BY <1>0, <2>2, <2>4
<1> QED
    BY <1>0, <1>1, <1>2

LEMMA BasesFacts ==
    ASSUME NEW node, NEW count, Len(node.children) \in Nat,
           \A i \in 1..Len(node.children) : count[node.children[i]] \in Nat
    PROVE  /\ Starts(Bases(node, count), Len(node.children))
           /\ \A i \in 1..Len(node.children) :
                 Bases(node, count)[i] =
                     Bases(node, count)[i - 1] + count[node.children[i]]
<1>1. PICK m \in Nat : m = Len(node.children)
    OBVIOUS
<1>2. PICK numbers : numbers = [i \in 1..m |-> count[node.children[i]]]
    OBVIOUS
<1>3. numbers \in [1..m -> Nat] /\ Len(numbers) = m
    BY <1>1, <1>2
<1>4. PICK b : b = Bases(node, count) /\ b = Sums(numbers)
    BY <1>1, <1>2 DEF Bases
<1>5. /\ b \in [0..m -> Nat]
      /\ b[0] = 0
      /\ \A i \in 1..m : b[i] = b[i - 1] + numbers[i]
    BY <1>3, <1>4, SumsFacts
<1>6. \A i \in 1..m : b[i - 1] \in Nat /\ numbers[i] \in Nat
    BY <1>3, <1>5
<1>7. Starts(b, m)
  <2>1. ASSUME NEW i \in 1..m PROVE b[i - 1] <= b[i]
    <3>1. PICK x \in Nat, y \in Nat : x = b[i - 1] /\ y = numbers[i]
        BY <1>6
    <3>2. b[i] = x + y
        BY <1>5, <3>1
    <3> QED
        BY <3>1, <3>2
  <2> QED
      BY <1>5, <2>1 DEF Starts
<1>8. \A i \in 1..m : b[i] = b[i - 1] + count[node.children[i]]
    BY <1>2, <1>5
<1> QED
    BY <1>1, <1>4, <1>7, <1>8

-----------------------------------------------------------------------------
(* Programs that the builder makes                                         *)

Kinds == {"series", "parallel"}

\* Nodes whose children are among the first n.
FramesOn(n) == {Composed(kc[1], kc[2]) : kc \in Kinds \X Seq(1..n)}
NodesOn(n) == {Strand(accesses) : accesses \in AccessLists} \cup FramesOn(n)

\* Children are complete before their parent.
DagInv ==
    /\ Len(nodes) \in Nat /\ nodes = [n \in 1..Len(nodes) |-> nodes[n]]
    /\ \A n \in 1..Len(nodes) : nodes[n] \in NodesOn(n - 1)
    /\ open \in Seq(FramesOn(Len(nodes)))
    /\ Len(open) >= 1

LEMMA FrameParts ==
    ASSUME NEW n \in Nat
    PROVE  /\ \A frame \in FramesOn(n) :
                  \E k \in Kinds, c \in Seq(1..n) : frame = Composed(k, c)
           /\ \A k \in Kinds, c \in Seq(1..n) : Composed(k, c) \in FramesOn(n)
<1>1. ASSUME NEW frame \in FramesOn(n)
      PROVE  \E k \in Kinds, c \in Seq(1..n) : frame = Composed(k, c)
  <2>1. PICK kc \in Kinds \X Seq(1..n) : frame = Composed(kc[1], kc[2])
      BY <1>1, Zenon DEF FramesOn
  <2>2. kc[1] \in Kinds /\ kc[2] \in Seq(1..n)
      OBVIOUS
  <2> QED
      BY <2>1, <2>2, Zenon
<1>2. ASSUME NEW k \in Kinds, NEW c \in Seq(1..n)
      PROVE  Composed(k, c) \in FramesOn(n)
  <2> DEFINE kc == <<k, c>>
  <2>1. kc \in Kinds \X Seq(1..n) /\ kc[1] = k /\ kc[2] = c
      OBVIOUS
  <2> HIDE DEF kc
  <2>2. Composed(kc[1], kc[2]) \in FramesOn(n)
      BY <2>1, Zenon DEF FramesOn
  <2> QED
      BY <2>1, <2>2, Zenon
<1> QED
    BY <1>1, <1>2, Zenon

LEMMA FramesGrow ==
    ASSUME NEW n \in Nat
    PROVE  FramesOn(n) \subseteq FramesOn(n + 1)
<1>1. 1..n \subseteq 1..n + 1 /\ n + 1 \in Nat
    OBVIOUS
<1>2. \A c \in Seq(1..n) : c \in Seq(1..n + 1)
    BY <1>1, SeqDef
<1>3. ASSUME NEW frame \in FramesOn(n)
      PROVE  frame \in FramesOn(n + 1)
  <2>1. PICK k \in Kinds, c \in Seq(1..n) : frame = Composed(k, c)
      BY FrameParts
  <2> QED
      BY <1>1, <1>2, <2>1, FrameParts
<1> QED
    BY <1>3

LEMMA ChildAdded ==
    ASSUME NEW k, NEW c, NEW child
    PROVE  [Composed(k, c) EXCEPT !.children = Append(@, child)]
               = Composed(k, Append(c, child))
BY DEF Composed

\* A composition that gets a child is still one.
LEMMA AddedFrame ==
    ASSUME NEW n \in Nat, NEW frame \in FramesOn(n), NEW added,
           added = [frame EXCEPT !.children = Append(@, n + 1)]
    PROVE  added \in FramesOn(n + 1)
<1>1. PICK k \in Kinds, c \in Seq(1..n) : frame = Composed(k, c)
    BY FrameParts, Zenon
<1>2. c \in Seq(1..n + 1)
  <2>1. 1..n \subseteq 1..n + 1
      OBVIOUS
  <2> QED
      BY <2>1, SeqDef
<1>3. Append(c, n + 1) \in Seq(1..n + 1) /\ n + 1 \in Nat
    BY <1>2, AppendProperties
<1>4. added = Composed(k, Append(c, n + 1))
    BY <1>1, ChildAdded, Zenon
<1>5. PICK m, d : /\ m \in Nat /\ d \in Seq(1..m)
                              /\ m = n + 1 /\ d = Append(c, n + 1)
    BY <1>3
<1>6. Composed(k, d) \in FramesOn(m)
    BY <1>1, <1>5, FrameParts, Zenon
<1> QED
    BY <1>4, <1>5, <1>6, Zenon

\* A node is a strand, or is composed of nodes before it.
LEMMA NodeParts ==
    ASSUME NEW n \in Nat, NEW node \in NodesOn(n)
    PROVE  \/ node.kind = "strand" /\ node.accesses \in AccessLists
           \/ /\ node.kind \in Kinds /\ node.kind # "strand"
              /\ Len(node.children) \in Nat
              /\ \A i \in 1..Len(node.children) : node.children[i] \in 1..n
<1>1. CASE \E accesses \in AccessLists : node = Strand(accesses)
    BY <1>1 DEF Strand
<1>2. CASE node \in FramesOn(n)
  <2>1. PICK k \in Kinds, c \in Seq(1..n) : node = Composed(k, c)
      BY <1>2, FrameParts, Zenon
  <2>2. Len(c) \in Nat /\ \A i \in 1..Len(c) : c[i] \in 1..n
      BY LenProperties, ElementOfSeq
  <2> QED
      BY <2>1, <2>2 DEF Composed, Kinds
<1> QED
    BY <1>1, <1>2, Zenon DEF NodesOn

\* The step common to a new strand and to the end of a composition.
LEMMA AddKeepsDag ==
    ASSUME DagInv, NEW node \in NodesOn(Len(nodes)),
           NEW frames \in Seq(FramesOn(Len(nodes))), Len(frames) >= 1,
           Add(frames, node)
    PROVE  DagInv'
<1> DEFINE n == Len(nodes)
           l == Len(frames)
<1>0. n \in Nat /\ l \in Nat /\ l >= 1 /\ DOMAIN frames = 1..l
      /\ \A i \in 1..l : frames[i] \in FramesOn(n)
    BY LenProperties, ElementOfSeq DEF DagInv
<1>1. /\ nodes' = Append(nodes, node)
      /\ open' = [frames EXCEPT ![l].children = Append(@, n + 1)]
    BY DEF Add
<1>2. /\ Len(nodes') = n + 1
      /\ \A i \in 1..n : nodes'[i] = nodes[i]
      /\ nodes'[n + 1] = node
      /\ nodes' = [i \in 1..n + 1 |-> nodes'[i]]
  <2> DEFINE S == {nodes[i] : i \in 1..n} \cup {node}
  <2>1. nodes \in Seq(S)
    <3>1. nodes = [i \in 1..n |-> nodes[i]] /\ \A i \in 1..n : nodes[i] \in S
        BY DEF DagInv
    <3>2. nodes \in [1..n -> S]
      <4> HIDE DEF S, n
      <4> QED
          BY <3>1
    <3> HIDE DEF S, n
    <3> QED
        BY <1>0, <3>2, SeqDef
  <2>2. node \in S
      OBVIOUS
  <2> HIDE DEF S
  <2>3. /\ Append(nodes, node) \in Seq(S)
        /\ Len(Append(nodes, node)) = n + 1
        /\ \A i \in 1..n : Append(nodes, node)[i] = nodes[i]
        /\ Append(nodes, node)[n + 1] = node
      BY <2>1, <2>2, AppendProperties
  <2> QED
      BY <1>1, <2>3, LenProperties
<1>3. open' \in Seq(FramesOn(n + 1)) /\ Len(open') >= 1
  <2> DEFINE last == [frames[l] EXCEPT !.children = Append(@, n + 1)]
  <2>1. last \in FramesOn(n + 1)
    <3>1. frames[l] \in FramesOn(n)
        BY <1>0
    <3> HIDE DEF n, l
    <3> QED
        BY <1>0, <3>1, AddedFrame, Zenon
  <2>2. open' = [frames EXCEPT ![l] = last]
      BY <1>0, <1>1
  <2>3. FramesOn(n) \subseteq FramesOn(n + 1)
      BY <1>0, FramesGrow
  <2>4. frames \in Seq(FramesOn(n + 1))
      BY <2>3, SeqDef
  <2> HIDE DEF last, n
  <2> QED
      BY <1>0, <2>1, <2>2, <2>4, ExceptSeq
<1>4. \A i \in 1..Len(nodes') : nodes'[i] \in NodesOn(i - 1)
  <2>1. \A i \in 1..n + 1 : i \in 1..n \/ i = n + 1
      BY <1>0
  <2>2. \A i \in 1..n : nodes[i] \in NodesOn(i - 1)
      BY DEF DagInv
  <2>3. n + 1 - 1 = n
      BY <1>0
  <2> QED
      BY <1>2, <2>1, <2>2, <2>3
<1>5. Len(nodes') = n + 1 /\ Len(nodes') \in Nat
    BY <1>0, <1>2
<1>6. DagInv' <=> /\ Len(nodes') \in Nat
                  /\ nodes' = [i \in 1..Len(nodes') |-> nodes'[i]]
                  /\ \A i \in 1..Len(nodes') : nodes'[i] \in NodesOn(i - 1)
                  /\ open' \in Seq(FramesOn(Len(nodes')))
                  /\ Len(open') >= 1
    BY DEF DagInv
<1> QED
    BY <1>2, <1>3, <1>4, <1>5, <1>6

\* The tree grows from the leaves: children are complete before their parent.
THEOREM DagInvariant == DagSpec => []DagInv
<1>1. ASSUME DagInit PROVE DagInv
  <2>1. nodes = <<>> /\ Len(nodes) = 0 /\ open = <<Composed("series", <<>>)>>
      BY <1>1 DEF DagInit
  <2>2. "series" \in Kinds /\ <<>> \in Seq(1..0) /\ 0 \in Nat
      BY DEF Kinds
  <2>3. Composed("series", <<>>) \in FramesOn(0)
      BY <2>2, FrameParts
  <2>4. nodes = [n \in 1..Len(nodes) |-> nodes[n]]
      BY <2>1
  <2> QED
      BY <2>1, <2>3, <2>4 DEF DagInv
<1>2. ASSUME DagInv, [DagNext]_dagVars PROVE DagInv'
  <2>0. Len(nodes) \in Nat /\ Len(open) \in Nat /\ Len(open) >= 1
        /\ open \in Seq(FramesOn(Len(nodes)))
      BY <1>2, LenProperties DEF DagInv
  <2>1. ASSUME NEW accesses \in AccessLists, AddStrand(accesses)
        PROVE  DagInv'
    <3>1. Strand(accesses) \in NodesOn(Len(nodes))
        BY DEF NodesOn
    <3> QED
        BY <1>2, <2>0, <2>1, <3>1, AddKeepsDag, Zenon DEF AddStrand
  <2>2. ASSUME NEW k \in Kinds, open' = Append(open, Composed(k, <<>>)),
               UNCHANGED nodes
        PROVE  DagInv'
    <3>1. Composed(k, <<>>) \in FramesOn(Len(nodes))
      <4>1. <<>> \in Seq(1..Len(nodes))
          OBVIOUS
      <4> QED
          BY <2>0, <4>1, FrameParts, Zenon
    <3>2. open' \in Seq(FramesOn(Len(nodes))) /\ Len(open') = Len(open) + 1
        BY <2>0, <2>2, <3>1, AppendProperties
    <3> QED
        BY <1>2, <2>0, <2>2, <3>2 DEF DagInv
  <2>3. CASE OpenSeries
    <3>1. "series" \in Kinds
        BY DEF Kinds
    <3> QED
        BY <2>2, <2>3, <3>1 DEF OpenSeries
  <2>4. CASE OpenParallel
    <3>1. "parallel" \in Kinds
        BY DEF Kinds
    <3> QED
        BY <2>2, <2>4, <3>1 DEF OpenParallel
  <2>5. CASE Close
    <3> DEFINE frames == SubSeq(open, 1, Len(open) - 1)
               node == open[Len(open)]
    <3>1. Len(open) > 1 /\ Add(frames, node)
        BY <2>5 DEF Close
    <3>2. frames \in Seq(FramesOn(Len(nodes))) /\ Len(frames) >= 1
      <4>1. Len(open) - 1 \in 1..Len(open)
          BY <2>0, <3>1
      <4> QED
          BY <2>0, <3>1, <4>1, SubSeqProperties
    <3>3. node \in NodesOn(Len(nodes))
      <4>1. Len(open) \in 1..Len(open)
          BY <2>0
      <4> QED
          BY <2>0, <4>1, ElementOfSeq DEF NodesOn
    <3> HIDE DEF frames, node
    <3> QED
        BY <1>2, <3>1, <3>2, <3>3, AddKeepsDag, Zenon
  <2>6. CASE UNCHANGED dagVars
      BY <1>2, <2>6 DEF DagInv, dagVars
  <2> QED
      BY <1>2, <2>1, <2>3, <2>4, <2>5, <2>6 DEF DagNext
<1> QED
    BY <1>1, <1>2, PTL DEF DagSpec

-----------------------------------------------------------------------------
(* What the walks find                                                     *)

\* The accesses of each of c strands.
EnglishOK(c, E) ==
    /\ \A x \in E : /\ x = <<x[1], x[2]>>
                    /\ x[1] \in 0..c - 1
                    /\ x[2] \in AccessLists
    /\ \A x, y \in E : x[1] = y[1] => x = y

\* The places of c strands in the Hebrew order.
HebrewOK(c, H) ==
    /\ \A x \in H : /\ x = <<x[1], x[2]>>
                    /\ x[1] \in 0..c - 1
                    /\ x[2] \in 0..c - 1
    /\ \A x, y \in H : x[1] = y[1] => x = y
    /\ \A e \in 0..c - 1 : \E x \in H : x[1] = e

\* Pairs of some of c strands.
PairsOK(c, P) ==
    \A x \in P : /\ x = <<x[1], x[2]>>
                 /\ x[1] \in 0..c - 1
                 /\ x[2] \in 0..c - 1
                 /\ x[1] < x[2]

\* The orders disagree on the pairs in P, and only on those.
Agree(H, P) ==
    \A x, y \in H : x[1] < y[1] => (x[2] < y[2] <=> <<x[1], y[1]>> \notin P)

\* The children have places of their own.
LEMMA PlaceFacts ==
    ASSUME NEW m \in Nat, NEW b, Starts(b, m), NEW i \in 1..m
    PROVE  /\ b[i - 1] \in Nat /\ b[i] \in Nat /\ b[m] \in Nat
           /\ b[i - 1] <= b[i] /\ b[i] <= b[m]
           /\ \A x \in 0..(b[i] - b[i - 1]) - 1 :
                 /\ b[i - 1] + x \in 0..b[m] - 1
                 /\ b[i - 1] + x \in b[i - 1]..b[i] - 1
           /\ \A j \in 1..m : \A u \in b[i - 1]..b[i] - 1 :
                 \A v \in b[j - 1]..b[j] - 1 : u <= v => i <= j
<1>1. /\ \A k \in 0..m : b[k] \in Nat
      /\ \A k, l \in 0..m : k <= l => b[k] <= b[l]
    BY StartsFacts
<1>2. i - 1 \in 0..m /\ i \in 0..m /\ m \in 0..m /\ i - 1 <= i /\ i <= m
    OBVIOUS
<1>3. PICK from \in Nat, to \in Nat, all \in Nat :
          from = b[i - 1] /\ to = b[i] /\ all = b[m]
    BY <1>1, <1>2
<1>4. from <= to /\ to <= all
    BY <1>1, <1>2, <1>3
<1>5. \A x \in 0..(to - from) - 1 :
          from + x \in 0..all - 1 /\ from + x \in from..to - 1
    BY <1>4
<1>6. ASSUME NEW j \in 1..m, NEW u \in from..to - 1,
             NEW v \in b[j - 1]..b[j] - 1, u <= v
      PROVE  i <= j
  <2> SUFFICES ASSUME j < i PROVE FALSE
      OBVIOUS
  <2>1. j \in 0..m /\ j <= i - 1
      OBVIOUS
  <2>2. PICK end \in Nat : end = b[j]
      BY <1>1, <2>1
  <2>3. end <= from
      BY <1>1, <1>2, <1>3, <2>1, <2>2
  <2>4. v < end /\ v \in Int
    <3>1. j - 1 \in 0..m
        OBVIOUS
    <3>2. PICK start \in Nat : start = b[j - 1]
        BY <1>1, <3>1
    <3> QED
        BY <2>2, <3>2
  <2> QED
      BY <1>6, <2>3, <2>4
<1> QED
    BY <1>3, <1>4, <1>5, <1>6

\* The same place is the same strand of the same child.
LEMMA SamePlace ==
    ASSUME NEW m \in Nat, NEW b, Starts(b, m), NEW i \in 1..m, NEW j \in 1..m,
           NEW x \in 0..(b[i] - b[i - 1]) - 1,
           NEW y \in 0..(b[j] - b[j - 1]) - 1,
           b[i - 1] + x = b[j - 1] + y
    PROVE  i = j /\ x = y
<1>1. PICK u \in Nat : u = b[i - 1] + x /\ u \in b[i - 1]..b[i] - 1
  <2>1. b[i - 1] + x \in b[i - 1]..b[i] - 1 /\ b[i - 1] \in Nat
      BY PlaceFacts
  <2> QED
      BY <2>1
<1>2. u = b[j - 1] + y /\ u \in b[j - 1]..b[j] - 1
    BY <1>1, PlaceFacts
<1>3. i <= j /\ j <= i
    BY <1>1, <1>2, PlaceFacts
<1>4. b[i - 1] \in Nat
    BY PlaceFacts
<1> QED
    BY <1>3, <1>4

\* The accesses of the strands of the children.
EnglishOver(X, E, b, m) ==
    \A x \in X : \E i \in 1..m : \E p \in E[i] :
                     x = <<b[i - 1] + p[1], p[2]>>

LEMMA EnglishJoined ==
    ASSUME NEW m \in Nat, NEW b, Starts(b, m), NEW E,
           \A i \in 1..m : EnglishOK(b[i] - b[i - 1], E[i]),
           NEW X, EnglishOver(X, E, b, m)
    PROVE  EnglishOK(b[m], X)
<1> USE DEF EnglishOver
<1>1. ASSUME NEW x \in X
      PROVE  /\ x = <<x[1], x[2]>>
             /\ x[1] \in 0..b[m] - 1
             /\ x[2] \in AccessLists
  <2>1. PICK i, p : /\ i \in 1..m /\ p \in E[i]
                     /\ x = <<b[i - 1] + p[1], p[2]>>
      BY <1>1
  <2>2. p[1] \in 0..(b[i] - b[i - 1]) - 1 /\ p[2] \in AccessLists
      BY <2>1 DEF EnglishOK
  <2>3. b[i - 1] + p[1] \in 0..b[m] - 1
      BY <2>1, <2>2, PlaceFacts
  <2> QED
      BY <2>1, <2>2, <2>3
<1>2. ASSUME NEW x \in X, NEW y \in X, x[1] = y[1] PROVE x = y
  <2>1. PICK i, p : /\ i \in 1..m /\ p \in E[i]
                     /\ x = <<b[i - 1] + p[1], p[2]>>
      BY <1>2
  <2>2. PICK j, q : /\ j \in 1..m /\ q \in E[j]
                     /\ y = <<b[j - 1] + q[1], q[2]>>
      BY <1>2
  <2>3. p[1] \in 0..(b[i] - b[i - 1]) - 1 /\ q[1] \in 0..(b[j] - b[j - 1]) - 1
      BY <2>1, <2>2 DEF EnglishOK
  <2>4. b[i - 1] + p[1] = b[j - 1] + q[1]
      BY <1>2, <2>1, <2>2
  <2>5. i = j /\ p[1] = q[1]
      BY <2>1, <2>2, <2>3, <2>4, SamePlace
  <2>6. p = q
      BY <2>1, <2>2, <2>5 DEF EnglishOK
  <2> QED
      BY <2>1, <2>2, <2>5, <2>6
<1> QED
    BY <1>1, <1>2 DEF EnglishOK

\* The places before those of each child, in Hebrew order: the children come
\* one after the other, or in the opposite order.
HebrewStarts(h, b, m, parallel) ==
    /\ \A i \in 1..m : h[i] \in Nat /\ h[i] + (b[i] - b[i - 1]) <= b[m]
    /\ \A i, j \in 1..m : i < j =>
          IF parallel THEN h[j] + (b[j] - b[j - 1]) <= h[i]
          ELSE h[i] + (b[i] - b[i - 1]) <= h[j]

HebrewOver(X, H, h, b, m) ==
    /\ \A x \in X : \E i \in 1..m : \E p \in H[i] :
                        x = <<b[i - 1] + p[1], h[i] + p[2]>>
    /\ \A i \in 1..m : \A p \in H[i] :
           <<b[i - 1] + p[1], h[i] + p[2]>> \in X

LEMMA HebrewJoined ==
    ASSUME NEW m \in Nat, NEW b, Starts(b, m), NEW h, NEW parallel,
           HebrewStarts(h, b, m, parallel), NEW H,
           \A i \in 1..m : HebrewOK(b[i] - b[i - 1], H[i]),
           NEW X, HebrewOver(X, H, h, b, m)
    PROVE  HebrewOK(b[m], X)
<1> USE DEF HebrewOver
<1>1. ASSUME NEW x \in X
      PROVE  /\ x = <<x[1], x[2]>>
             /\ x[1] \in 0..b[m] - 1
             /\ x[2] \in 0..b[m] - 1
  <2>1. PICK i, p : /\ i \in 1..m /\ p \in H[i]
                     /\ x = <<b[i - 1] + p[1], h[i] + p[2]>>
      BY <1>1
  <2>2. /\ p[1] \in 0..(b[i] - b[i - 1]) - 1
        /\ p[2] \in 0..(b[i] - b[i - 1]) - 1
      BY <2>1 DEF HebrewOK
  <2>3. b[i - 1] + p[1] \in 0..b[m] - 1
      BY <2>1, <2>2, PlaceFacts
  <2>4. h[i] + p[2] \in 0..b[m] - 1
    <3>1. b[i - 1] \in Nat /\ b[i] \in Nat /\ b[m] \in Nat
        BY <2>1, PlaceFacts
    <3>2. PICK c \in Int : c = b[i] - b[i - 1]
        BY <3>1
    <3>3. h[i] \in Nat /\ h[i] + c <= b[m] /\ p[2] \in 0..c - 1
        BY <2>1, <2>2, <3>2 DEF HebrewStarts
    <3> QED
        BY <3>1, <3>3
  <2> QED
      BY <2>1, <2>3, <2>4
<1>2. ASSUME NEW x \in X, NEW y \in X, x[1] = y[1] PROVE x = y
  <2>1. PICK i, p : /\ i \in 1..m /\ p \in H[i]
                     /\ x = <<b[i - 1] + p[1], h[i] + p[2]>>
      BY <1>2
  <2>2. PICK j, q : /\ j \in 1..m /\ q \in H[j]
                     /\ y = <<b[j - 1] + q[1], h[j] + q[2]>>
      BY <1>2
  <2>3. p[1] \in 0..(b[i] - b[i - 1]) - 1 /\ q[1] \in 0..(b[j] - b[j - 1]) - 1
      BY <2>1, <2>2 DEF HebrewOK
  <2>4. b[i - 1] + p[1] = b[j - 1] + q[1]
      BY <1>2, <2>1, <2>2
  <2>5. i = j /\ p[1] = q[1]
      BY <2>1, <2>2, <2>3, <2>4, SamePlace
  <2>6. p = q
      BY <2>1, <2>2, <2>5 DEF HebrewOK
  <2> QED
      BY <2>1, <2>2, <2>5, <2>6
<1>3. ASSUME NEW e \in 0..b[m] - 1 PROVE \E x \in X : x[1] = e
  <2>1. PICK i \in 1..m : b[i - 1] <= e /\ e < b[i]
      BY StartsFacts
  <2>2. PICK d : d = e - b[i - 1] /\ d \in 0..(b[i] - b[i - 1]) - 1
      BY <2>1, PlaceFacts
  <2>3. PICK p \in H[i] : p[1] = d
      BY <2>2 DEF HebrewOK
  <2>4. b[i - 1] + p[1] = e
      BY <2>2, <2>3, PlaceFacts
  <2> DEFINE x == <<b[i - 1] + p[1], h[i] + p[2]>>
  <2>5. x \in X /\ x[1] = e
      BY <2>4
  <2> QED
      BY <2>5
<1> QED
    BY <1>1, <1>2, <1>3 DEF HebrewOK

\* Pairs within a child, and across two children of a parallel node.
PairsOver(X, P, b, m, parallel) ==
    /\ \A x \in X :
          \/ \E i \in 1..m : \E p \in P[i] :
                x = <<b[i - 1] + p[1], b[i - 1] + p[2]>>
          \/ /\ parallel
             /\ \E i, j \in 1..m :
                   /\ i < j
                   /\ x \in (b[i - 1]..b[i] - 1) \X (b[j - 1]..b[j] - 1)
    /\ \A i \in 1..m : \A p \in P[i] :
          <<b[i - 1] + p[1], b[i - 1] + p[2]>> \in X
    /\ parallel =>
          \A i, j \in 1..m : i < j =>
              (b[i - 1]..b[i] - 1) \X (b[j - 1]..b[j] - 1) \subseteq X

LEMMA PairsJoined ==
    ASSUME NEW m \in Nat, NEW b, Starts(b, m), NEW P, NEW X, NEW parallel,
           \A i \in 1..m : PairsOK(b[i] - b[i - 1], P[i]),
           PairsOver(X, P, b, m, parallel)
    PROVE  PairsOK(b[m], X)
<1> SUFFICES ASSUME NEW x \in X
             PROVE  /\ x = <<x[1], x[2]>>
                    /\ x[1] \in 0..b[m] - 1
                    /\ x[2] \in 0..b[m] - 1
                    /\ x[1] < x[2]
    BY DEF PairsOK
<1>1. ASSUME NEW i \in 1..m, NEW p \in P[i],
             x = <<b[i - 1] + p[1], b[i - 1] + p[2]>>
      PROVE  /\ x[1] \in 0..b[m] - 1 /\ x[2] \in 0..b[m] - 1 /\ x[1] < x[2]
  <2>1. /\ p[1] \in 0..(b[i] - b[i - 1]) - 1
        /\ p[2] \in 0..(b[i] - b[i - 1]) - 1
        /\ p[1] < p[2]
      BY DEF PairsOK
  <2>2. b[i - 1] + p[1] \in 0..b[m] - 1 /\ b[i - 1] + p[2] \in 0..b[m] - 1
      BY <2>1, PlaceFacts
  <2>3. b[i - 1] \in Nat
      BY PlaceFacts
  <2>4. p[1] \in Int /\ p[2] \in Int
      BY <2>1
  <2>5. b[i - 1] + p[1] < b[i - 1] + p[2]
      BY <2>1, <2>3, <2>4
  <2> QED
      BY <1>1, <2>2, <2>5
<1>2. ASSUME NEW i \in 1..m, NEW j \in 1..m, i < j,
             x \in (b[i - 1]..b[i] - 1) \X (b[j - 1]..b[j] - 1)
      PROVE  /\ x = <<x[1], x[2]>>
             /\ x[1] \in 0..b[m] - 1 /\ x[2] \in 0..b[m] - 1 /\ x[1] < x[2]
  <2>1. x = <<x[1], x[2]>> /\ x[1] \in b[i - 1]..b[i] - 1
        /\ x[2] \in b[j - 1]..b[j] - 1
      BY <1>2
  <2>2. PICK u, v : u = x[1] /\ v = x[2]
      OBVIOUS
  <2>3. /\ b[i - 1] \in Nat /\ b[i] \in Nat /\ b[m] \in Nat /\ b[i] <= b[m]
        /\ b[j - 1] \in Nat /\ b[j] \in Nat /\ b[j] <= b[m]
      BY PlaceFacts
  <2>4. u \in Int /\ v \in Int /\ 0 <= u /\ u < b[m] /\ 0 <= v /\ v < b[m]
      BY <2>1, <2>2, <2>3
  <2>5. ~(v <= u)
    <3>1. v <= u => j <= i
        BY <2>1, <2>2, PlaceFacts
    <3> QED
        BY <1>2, <3>1
  <2> QED
      BY <2>1, <2>2, <2>3, <2>4, <2>5
<1>3. CASE \E i \in 1..m : \E p \in P[i] :
              x = <<b[i - 1] + p[1], b[i - 1] + p[2]>>
  <2>1. x = <<x[1], x[2]>>
      BY <1>3
  <2> QED
      BY <1>1, <1>3, <2>1
<1> QED
    BY <1>2, <1>3 DEF PairsOver

\* The orders disagree where they should, when they do within the children.
LEMMA AgreeJoined ==
    ASSUME NEW m \in Nat, NEW b, Starts(b, m), NEW h, NEW parallel \in BOOLEAN,
           HebrewStarts(h, b, m, parallel), NEW H, NEW P, NEW X, NEW Y,
           \A i \in 1..m : /\ HebrewOK(b[i] - b[i - 1], H[i])
                           /\ PairsOK(b[i] - b[i - 1], P[i])
                           /\ Agree(H[i], P[i]),
           HebrewOver(X, H, h, b, m), PairsOver(Y, P, b, m, parallel)
    PROVE  Agree(X, Y)
<1> SUFFICES ASSUME NEW x \in X, NEW y \in X, x[1] < y[1]
             PROVE  x[2] < y[2] <=> <<x[1], y[1]>> \notin Y
    BY DEF Agree
<1>1. PICK i \in 1..m : \E p \in H[i] : x = <<b[i - 1] + p[1], h[i] + p[2]>>
    BY DEF HebrewOver
<1>2. PICK j \in 1..m : \E q \in H[j] : y = <<b[j - 1] + q[1], h[j] + q[2]>>
    BY DEF HebrewOver
<1>3. PICK p \in H[i] : x = <<b[i - 1] + p[1], h[i] + p[2]>>
    BY <1>1
<1>4. PICK q \in H[j] : y = <<b[j - 1] + q[1], h[j] + q[2]>>
    BY <1>2
<1>5. /\ p[1] \in 0..(b[i] - b[i - 1]) - 1 /\ p[2] \in 0..(b[i] - b[i - 1]) - 1
      /\ q[1] \in 0..(b[j] - b[j - 1]) - 1 /\ q[2] \in 0..(b[j] - b[j - 1]) - 1
    BY DEF HebrewOK
<1>6. PICK u, v : /\ u = b[i - 1] + p[1] /\ v = b[j - 1] + q[1]
                  /\ u = x[1] /\ v = y[1]
    BY <1>3, <1>4
<1>7. /\ u \in b[i - 1]..b[i] - 1 /\ v \in b[j - 1]..b[j] - 1
      /\ b[i - 1] \in Nat /\ b[i] \in Nat /\ b[j - 1] \in Nat /\ b[j] \in Nat
    BY <1>5, <1>6, PlaceFacts
<1>8. u \in Int /\ v \in Int /\ u < v /\ i <= j
  <2>1. u \in Int /\ v \in Int /\ u < v
      BY <1>6, <1>7
  <2>2. u <= v
      BY <2>1
  <2>3. \A l \in 1..m : \A w \in b[i - 1]..b[i] - 1 :
            \A z \in b[l - 1]..b[l] - 1 : w <= z => i <= l
      BY PlaceFacts
  <2> QED
      BY <1>7, <2>1, <2>2, <2>3
\* The child of a pair in Y.
<1>9. ASSUME NEW k \in 1..m, NEW r \in P[k],
             <<u, v>> = <<b[k - 1] + r[1], b[k - 1] + r[2]>>
      PROVE  i = k /\ j = k /\ r = <<p[1], q[1]>>
  <2>1. /\ r = <<r[1], r[2]>>
        /\ r[1] \in 0..(b[k] - b[k - 1]) - 1
        /\ r[2] \in 0..(b[k] - b[k - 1]) - 1
      BY DEF PairsOK
  <2>2. b[i - 1] + p[1] = b[k - 1] + r[1] /\ b[j - 1] + q[1] = b[k - 1] + r[2]
      BY <1>6, <1>9
  <2>3. i = k /\ p[1] = r[1]
      BY <1>5, <2>1, <2>2, SamePlace
  <2>4. j = k /\ q[1] = r[2]
      BY <1>5, <2>1, <2>2, SamePlace
  <2> QED
      BY <2>1, <2>3, <2>4
<1>10. ASSUME NEW k \in 1..m, NEW l \in 1..m,
              u \in b[k - 1]..b[k] - 1, v \in b[l - 1]..b[l] - 1
       PROVE  i = k /\ j = l
  <2>1. u <= u /\ v <= v
      BY <1>8
  <2>2. i <= k /\ k <= i
      BY <1>7, <1>10, <2>1, PlaceFacts
  <2>3. j <= l /\ l <= j
      BY <1>7, <1>10, <2>1, PlaceFacts
  <2> QED
      BY <2>2, <2>3
<1>11. PICK s, t : /\ s = h[i] + p[2] /\ t = h[j] + q[2]
                   /\ s = x[2] /\ t = y[2]
    BY <1>3, <1>4
<1>12. h[i] \in Nat /\ h[j] \in Nat
    BY DEF HebrewStarts
<1>13. CASE i = j
  <2>1. p[1] < q[1] /\ (p[2] < q[2] <=> s < t)
    <3>1. p[1] \in Int /\ q[1] \in Int /\ p[2] \in Int /\ q[2] \in Int
        BY <1>5
    <3> QED
        BY <1>6, <1>7, <1>8, <1>11, <1>12, <1>13, <3>1
  <2>2. p[2] < q[2] <=> <<p[1], q[1]>> \notin P[i]
      BY <1>13, <2>1 DEF Agree
  <2>3. <<p[1], q[1]>> \in P[i] => <<u, v>> \in Y
    <3> SUFFICES ASSUME <<p[1], q[1]>> \in P[i] PROVE <<u, v>> \in Y
        OBVIOUS
    <3> DEFINE r == <<p[1], q[1]>>
    <3>1. <<b[i - 1] + r[1], b[i - 1] + r[2]>> \in Y
        BY DEF PairsOver
    <3> QED
        BY <1>6, <1>13, <3>1
  <2>4. <<u, v>> \in Y => <<p[1], q[1]>> \in P[i]
    <3> SUFFICES ASSUME <<u, v>> \in Y PROVE <<p[1], q[1]>> \in P[i]
        OBVIOUS
    <3>1. CASE \E k \in 1..m : \E r \in P[k] :
                  <<u, v>> = <<b[k - 1] + r[1], b[k - 1] + r[2]>>
        BY <1>9, <3>1
    <3>2. ASSUME NEW k \in 1..m, NEW l \in 1..m, k < l,
                 <<u, v>> \in (b[k - 1]..b[k] - 1) \X (b[l - 1]..b[l] - 1)
          PROVE  FALSE
      <4>1. u \in b[k - 1]..b[k] - 1 /\ v \in b[l - 1]..b[l] - 1
          BY <3>2
      <4> QED
          BY <1>10, <1>13, <3>2, <4>1
    <3> QED
        BY <3>1, <3>2 DEF PairsOver
  <2> QED
      BY <1>6, <1>11, <2>1, <2>2, <2>3, <2>4
<1>14. CASE i # j
  <2>1. i < j
      BY <1>8, <1>14
  <2>2. ~\E k \in 1..m : \E r \in P[k] :
              <<u, v>> = <<b[k - 1] + r[1], b[k - 1] + r[2]>>
      BY <1>9, <1>14
  <2>3. /\ p[2] \in Int /\ 0 <= p[2] /\ p[2] < b[i] - b[i - 1]
        /\ q[2] \in Int /\ 0 <= q[2] /\ q[2] < b[j] - b[j - 1]
      BY <1>5, <1>7
  <2>4. CASE parallel
    <3>1. h[j] + (b[j] - b[j - 1]) <= h[i]
        BY <2>1, <2>4 DEF HebrewStarts
    <3>2. ~(s < t)
        BY <1>7, <1>11, <1>12, <2>3, <3>1
    <3>3. <<u, v>> \in Y
      <4>1. <<u, v>> \in (b[i - 1]..b[i] - 1) \X (b[j - 1]..b[j] - 1)
          BY <1>7
      <4> QED
          BY <2>1, <2>4, <4>1 DEF PairsOver
    <3> QED
        BY <1>6, <1>11, <3>2, <3>3
  <2>5. CASE ~parallel
    <3>1. h[i] + (b[i] - b[i - 1]) <= h[j]
        BY <2>1, <2>5 DEF HebrewStarts
    <3>2. s < t
        BY <1>7, <1>11, <1>12, <2>3, <3>1
    <3>3. <<u, v>> \notin Y
        BY <2>2, <2>5 DEF PairsOver
    <3> QED
        BY <1>6, <1>11, <3>2, <3>3
  <2> QED
      BY <2>4, <2>5
<1> QED
    BY <1>13, <1>14

-----------------------------------------------------------------------------
(* The walks of the nodes                                                  *)

\* A walk of a node looks at its children alone.
LEMMA CountLocal ==
    ASSUME NEW n \in Nat, NEW node \in NodesOn(n), NEW count, NEW other,
           \A k \in 1..n : count[k] = other[k]
    PROVE  CountOf(node, count) = CountOf(node, other)
<1>1. CASE node.kind = "strand"
    BY <1>1 DEF CountOf
<1>2. CASE node.kind # "strand"
  <2>1. \A i \in 1..Len(node.children) : node.children[i] \in 1..n
      BY <1>2, NodeParts
  <2>2. [i \in 1..Len(node.children) |-> count[node.children[i]]]
            = [i \in 1..Len(node.children) |-> other[node.children[i]]]
      BY <2>1
  <2>3. Bases(node, count) = Bases(node, other)
      BY <2>2 DEF Bases
  <2> QED
      BY <2>3 DEF CountOf
<1> QED
    BY <1>1, <1>2

LEMMA CountTyped ==
    ASSUME NEW n \in Nat, NEW node \in NodesOn(n), NEW count,
           \A k \in 1..n : count[k] \in Nat
    PROVE  CountOf(node, count) \in Nat
<1>1. CASE node.kind = "strand"
    BY <1>1 DEF CountOf
<1>2. CASE node.kind # "strand"
  <2>1. Len(node.children) \in Nat
        /\ \A i \in 1..Len(node.children) : node.children[i] \in 1..n
      BY <1>2, NodeParts
  <2>2. PICK b, m : b = Bases(node, count) /\ m = Len(node.children)
      OBVIOUS
  <2>3. m \in Nat /\ Starts(b, m)
      BY <2>1, <2>2, BasesFacts
  <2>4. b[m] \in Nat
    <3>1. m \in 0..m
        BY <2>3
    <3> QED
        BY <2>3, <3>1, StartsFacts
  <2> QED
      BY <1>2, <2>2, <2>4 DEF CountOf
<1> QED
    BY <1>1, <1>2

\* The recursion of count_strands.
LEMMA CountsFacts ==
    ASSUME DagInv
    PROVE  \A n \in 1..Len(nodes) : /\ Counts[n] = CountOf(nodes[n], Counts)
                                    /\ Counts[n] \in Nat
<1> DEFINE N == Len(nodes)
           Body(f) == [n \in 1..N |-> CountOf(nodes[n], f)]
           B == [n \in 1..N |-> [w \in [1..N -> Nat] |-> CountOf(nodes[n], w)]]
<1>0. /\ N \in Nat
      /\ \A n \in 1..N : n - 1 \in Nat /\ nodes[n] \in NodesOn(n - 1)
      /\ \A n \in 1..N : 1..n - 1 \subseteq 1..N
    BY DEF DagInv
<1>1. \E f : f = Body(f)
  <2>1. \A n \in 1..N : \A w \in [1..N -> Nat] : B[n][w] = CountOf(nodes[n], w)
      OBVIOUS
  <2> HIDE DEF B, N
  <2>2. ASSUME NEW n \in 1..N, NEW w \in [1..N -> Nat]
        PROVE  CountOf(nodes[n], w) \in Nat
    <3>1. \A k \in 1..n - 1 : w[k] \in Nat
        BY <1>0
    <3> QED
        BY <1>0, <3>1, CountTyped
  <2>3. ASSUME NEW n \in 1..N, NEW w, NEW x, \A k \in 1..n - 1 : w[k] = x[k]
        PROVE  CountOf(nodes[n], w) = CountOf(nodes[n], x)
      BY <1>0, <2>3, CountLocal
  <2>4. Step(1, N, Nat, B)
    <3>1. ASSUME NEW n \in 1..N, NEW w \in [1..N -> Nat]
          PROVE  B[n][w] \in Nat
        BY <2>1, <2>2, Zenon
    <3>2. ASSUME NEW n \in 1..N, NEW w \in [1..N -> Nat],
                 NEW x \in [1..N -> Nat], \A k \in 1..n - 1 : w[k] = x[k]
          PROVE  B[n][w] = B[n][x]
      <4>1. CountOf(nodes[n], w) = CountOf(nodes[n], x)
          BY <2>3, <3>2, Zenon
      <4> QED
          BY <2>1, <4>1, Zenon
    <3> QED
        BY <3>1, <3>2, Zenon DEF Step
  <2>5. Fixpoint(1, N, Nat, B)
    <3>1. 0 \in Nat /\ 1 \in Nat
        OBVIOUS
    <3> QED
        BY <1>0, <2>4, <3>1, Recursion
  <2>6. PICK f \in [1..N -> Nat] : \A n \in 1..N : f[n] = B[n][f]
      BY <2>5, Zenon DEF Fixpoint
  <2>7. f = Body(f)
    <3>1. \A n \in 1..N : f[n] = CountOf(nodes[n], f)
        BY <2>1, <2>6
    <3>2. f = [n \in 1..N |-> f[n]]
        OBVIOUS
    <3> QED
        BY <3>1, <3>2, Zenon
  <2> QED
      BY <2>7
<1>2. Counts = Body(Counts)
  <2>1. Counts = CHOOSE f : f = Body(f)
      BY DEF Counts
  <2> HIDE DEF Body
  <2> QED
      BY <1>1, <2>1
<1>3. \A n \in 1..N : Counts[n] = CountOf(nodes[n], Counts)
    BY <1>2, Zenon
<1>4. \A n \in 1..N : Counts[n] \in Nat
  <2> DEFINE bad == {n \in 1..N : Counts[n] \notin Nat}
  <2> SUFFICES ASSUME bad # {} PROVE FALSE
      OBVIOUS
  <2>1. PICK n \in bad : \A k \in bad : n <= k
    <3>1. bad \in SUBSET Nat
        OBVIOUS
    <3> HIDE DEF bad
    <3> QED
        BY <3>1, LeastNat
  <2>2. \A k \in 1..n - 1 : Counts[k] \in Nat
    <3>1. \A k \in 1..n - 1 : k \notin bad /\ k \in 1..N
        BY <1>0, <2>1
    <3> QED
        BY <3>1
  <2>3. n \in 1..N /\ n - 1 \in Nat /\ nodes[n] \in NodesOn(n - 1)
      BY <1>0, <2>1
  <2> HIDE DEF N
  <2>4. CountOf(nodes[n], Counts) \in Nat
      BY <2>2, <2>3, CountTyped
  <2> QED
      BY <1>3, <2>1, <2>3, <2>4
<1> QED
    BY <1>3, <1>4

\* A composed node, and the places of its children.
LEMMA ComposedFacts ==
    ASSUME DagInv, NEW n \in Nat, n <= Len(nodes), NEW node \in NodesOn(n),
           node.kind # "strand", NEW b, NEW m,
           b = Bases(node, Counts), m = Len(node.children)
    PROVE  /\ node.kind \in Kinds
           /\ m \in Nat /\ Starts(b, m) /\ CountOf(node, Counts) = b[m]
           /\ \A i \in 0..m : b[i] \in Nat
           /\ \A i \in 1..m : /\ node.children[i] \in 1..n
                              /\ Counts[node.children[i]] \in Nat
                              /\ b[i] - b[i - 1] = Counts[node.children[i]]
<1>1. m \in Nat /\ node.kind \in Kinds
      /\ \A i \in 1..m : node.children[i] \in 1..n
    BY NodeParts
<1>2. \A i \in 1..m : Counts[node.children[i]] \in Nat
  <2>1. \A k \in 1..n : k \in 1..Len(nodes)
      BY DEF DagInv
  <2> QED
      BY <1>1, <2>1, CountsFacts
<1>3. Starts(b, m)
      /\ \A i \in 1..m : b[i] = b[i - 1] + Counts[node.children[i]]
    BY <1>1, <1>2, BasesFacts
<1>4. \A i \in 0..m : b[i] \in Nat
    BY <1>1, <1>3, StartsFacts
<1>5. ASSUME NEW i \in 1..m PROVE b[i] - b[i - 1] = Counts[node.children[i]]
  <2>1. i - 1 \in 0..m
      BY <1>1
  <2>2. PICK x \in Nat, y \in Nat :
            x = b[i - 1] /\ y = Counts[node.children[i]]
      BY <1>2, <1>4, <2>1
  <2>3. b[i] = x + y
      BY <1>3, <2>2
  <2> QED
      BY <2>2, <2>3
<1>6. CountOf(node, Counts) = b[m]
    BY DEF CountOf
<1> QED
    BY <1>1, <1>2, <1>3, <1>4, <1>5, <1>6

\* What the walks of a composed node give.
LEMMA EnglishMembers ==
    ASSUME NEW node, NEW walk, node.kind # "strand"
    PROVE  \A x : x \in EnglishOf(node, walk) <=>
               \E i \in 1..Len(node.children) :
                 \E p \in walk[node.children[i]] :
                   x = <<Bases(node, Counts)[i - 1] + p[1], p[2]>>
<1>1. PICK b : b = Bases(node, Counts)
    OBVIOUS
<1>2. EnglishOf(node, walk) =
          UNION {{<<b[i - 1] + p[1], p[2]>> : p \in walk[node.children[i]]} :
                    i \in 1..Len(node.children)}
    BY <1>1 DEF EnglishOf
<1>3. \A x : x \in EnglishOf(node, walk) <=>
          \E i \in 1..Len(node.children) : \E p \in walk[node.children[i]] :
              x = <<b[i - 1] + p[1], p[2]>>
    BY <1>2
<1> QED
    BY <1>1, <1>3, Zenon

LEMMA HebrewMembers ==
    ASSUME NEW node, NEW walk, node.kind # "strand"
    PROVE  \A x : x \in HebrewOf(node, walk) <=>
               \E i \in 1..Len(node.children) :
                 \E p \in walk[node.children[i]] :
                   x = <<Bases(node, Counts)[i - 1] + p[1],
                         HebrewBase(node, Bases(node, Counts), i) + p[2]>>
<1>1. PICK b : b = Bases(node, Counts)
    OBVIOUS
<1>2. HebrewOf(node, walk) =
          UNION {{<<b[i - 1] + p[1], HebrewBase(node, b, i) + p[2]>> :
                     p \in walk[node.children[i]]} :
                    i \in 1..Len(node.children)}
    BY <1>1 DEF HebrewOf
<1> QED
    BY <1>1, <1>2

LEMMA PairsMembers ==
    ASSUME NEW node, NEW pairs, node.kind # "strand"
    PROVE  \A x : x \in PairsOf(node, pairs) <=>
               \/ \E i \in 1..Len(node.children) :
                     \E p \in pairs[node.children[i]] :
                        x = <<Bases(node, Counts)[i - 1] + p[1],
                              Bases(node, Counts)[i - 1] + p[2]>>
               \/ /\ node.kind # "series"
                  /\ \E i, j \in 1..Len(node.children) :
                        /\ i < j
                        /\ x \in (Bases(node, Counts)[i - 1]
                                    ..Bases(node, Counts)[i] - 1)
                             \X (Bases(node, Counts)[j - 1]
                                    ..Bases(node, Counts)[j] - 1)
<1> DEFINE b == Bases(node, Counts)
           within == UNION {{<<b[i - 1] + p[1], b[i - 1] + p[2]>> :
                                p \in pairs[node.children[i]]} :
                               i \in 1..Len(node.children)}
           later == {ij \in (1..Len(node.children)) \X (1..Len(node.children)) :
                        ij[1] < ij[2]}
           across == UNION {(b[ij[1] - 1]..b[ij[1]] - 1)
                               \X (b[ij[2] - 1]..b[ij[2]] - 1) : ij \in later}
<1>2. PairsOf(node, pairs) =
          within \cup IF node.kind = "series" THEN {} ELSE across
  <2>1. PairsOf(node, pairs) =
            IF node.kind = "strand" THEN {}
            ELSE within \cup IF node.kind = "series" THEN {} ELSE across
      BY Zenon DEF PairsOf
  <2> QED
      BY <2>1, Zenon
<1> HIDE DEF b
<1>3. \A x : x \in within <=>
          \E i \in 1..Len(node.children) : \E p \in pairs[node.children[i]] :
              x = <<b[i - 1] + p[1], b[i - 1] + p[2]>>
    OBVIOUS
<1>4. \A x : x \in across <=>
          \E i, j \in 1..Len(node.children) :
              /\ i < j
              /\ x \in (b[i - 1]..b[i] - 1) \X (b[j - 1]..b[j] - 1)
  <2>1. ASSUME NEW x \in across
        PROVE  \E i, j \in 1..Len(node.children) :
                  /\ i < j
                  /\ x \in (b[i - 1]..b[i] - 1) \X (b[j - 1]..b[j] - 1)
    <3>1. PICK ij \in later : x \in (b[ij[1] - 1]..b[ij[1]] - 1)
                                        \X (b[ij[2] - 1]..b[ij[2]] - 1)
        OBVIOUS
    <3> QED
        BY <3>1
  <2>2. ASSUME NEW i \in 1..Len(node.children), NEW j \in 1..Len(node.children),
               i < j,
               NEW x \in (b[i - 1]..b[i] - 1) \X (b[j - 1]..b[j] - 1)
        PROVE  x \in across
    <3> DEFINE ij == <<i, j>>
    <3>1. ij \in later /\ ij[1] = i /\ ij[2] = j
        BY <2>2
    <3> HIDE DEF ij, later
    <3> QED
        BY <3>1
  <2> QED
      BY <2>1, <2>2
<1> HIDE DEF within, across
<1>5. ASSUME NEW x
      PROVE  x \in PairsOf(node, pairs) <=>
                 \/ x \in within
                 \/ node.kind # "series" /\ x \in across
  <2>1. CASE node.kind = "series"
      BY <1>2, <2>1
  <2>2. CASE node.kind # "series"
      BY <1>2, <2>2
  <2> QED
      BY <2>1, <2>2
<1>6. ASSUME NEW x
      PROVE  x \in PairsOf(node, pairs) <=>
                 \/ \E i \in 1..Len(node.children) :
                       \E p \in pairs[node.children[i]] :
                          x = <<b[i - 1] + p[1], b[i - 1] + p[2]>>
                 \/ /\ node.kind # "series"
                    /\ \E i, j \in 1..Len(node.children) :
                          /\ i < j
                          /\ x \in (b[i - 1]..b[i] - 1) \X (b[j - 1]..b[j] - 1)
    BY <1>3, <1>4, <1>5, Zenon
<1> QED
    BY <1>6, Zenon DEF b

\* The walks of a composed node, over those of its children.
LEMMA EnglishComposed ==
    ASSUME NEW node, node.kind # "strand", NEW b, b = Bases(node, Counts),
           NEW m, m = Len(node.children), NEW E, NEW walk,
           \A i \in 1..m : E[i] = walk[node.children[i]]
    PROVE  EnglishOver(EnglishOf(node, walk), E, b, m)
<1>1. \A x : x \in EnglishOf(node, walk) <=>
          \E i \in 1..Len(node.children) : \E p \in walk[node.children[i]] :
              x = <<Bases(node, Counts)[i - 1] + p[1], p[2]>>
    BY EnglishMembers
<1>2. \A x : x \in EnglishOf(node, walk) <=>
          \E i \in 1..m : \E p \in walk[node.children[i]] :
              x = <<b[i - 1] + p[1], p[2]>>
    BY <1>1
<1> QED
    BY <1>2 DEF EnglishOver

LEMMA HebrewComposed ==
    ASSUME NEW node, node.kind # "strand", NEW b, b = Bases(node, Counts),
           NEW m, m = Len(node.children), NEW H, NEW h, NEW walk,
           \A i \in 1..m : H[i] = walk[node.children[i]]
                           /\ h[i] = HebrewBase(node, b, i)
    PROVE  HebrewOver(HebrewOf(node, walk), H, h, b, m)
<1>1. \A x : x \in HebrewOf(node, walk) <=>
          \E i \in 1..Len(node.children) : \E p \in walk[node.children[i]] :
              x = <<Bases(node, Counts)[i - 1] + p[1],
                    HebrewBase(node, Bases(node, Counts), i) + p[2]>>
    BY HebrewMembers
<1>2. \A x : x \in HebrewOf(node, walk) <=>
          \E i \in 1..m : \E p \in walk[node.children[i]] :
              x = <<b[i - 1] + p[1], HebrewBase(node, b, i) + p[2]>>
    BY <1>1
<1>3. \A x : x \in HebrewOf(node, walk) <=>
          \E i \in 1..m : \E p \in H[i] : x = <<b[i - 1] + p[1], h[i] + p[2]>>
    BY <1>2
<1> QED
    BY <1>3 DEF HebrewOver

LEMMA PairsComposed ==
    ASSUME NEW node, node.kind # "strand", NEW b, b = Bases(node, Counts),
           NEW m, m = Len(node.children), NEW P, NEW pairs,
           \A i \in 1..m : P[i] = pairs[node.children[i]],
           NEW parallel \in BOOLEAN, parallel <=> node.kind # "series"
    PROVE  PairsOver(PairsOf(node, pairs), P, b, m, parallel)
<1> DEFINE Across(x) ==
               \E i, j \in 1..m :
                  /\ i < j
                  /\ x \in (b[i - 1]..b[i] - 1) \X (b[j - 1]..b[j] - 1)
<1>1. \A x : x \in PairsOf(node, pairs) <=>
          \/ \E i \in 1..Len(node.children) :
                \E p \in pairs[node.children[i]] :
                   x = <<Bases(node, Counts)[i - 1] + p[1],
                         Bases(node, Counts)[i - 1] + p[2]>>
          \/ /\ node.kind # "series"
             /\ \E i, j \in 1..Len(node.children) :
                   /\ i < j
                   /\ x \in (Bases(node, Counts)[i - 1]
                               ..Bases(node, Counts)[i] - 1)
                        \X (Bases(node, Counts)[j - 1]
                               ..Bases(node, Counts)[j] - 1)
    BY SMTT(30), PairsMembers
<1>2. \A x : x \in PairsOf(node, pairs) <=>
          \/ \E i \in 1..m : \E p \in pairs[node.children[i]] :
                x = <<b[i - 1] + p[1], b[i - 1] + p[2]>>
          \/ node.kind # "series" /\ Across(x)
    BY <1>1
<1> HIDE DEF Across
<1>3. ASSUME NEW x
      PROVE  x \in PairsOf(node, pairs) <=>
                 \/ \E i \in 1..m : \E p \in P[i] :
                       x = <<b[i - 1] + p[1], b[i - 1] + p[2]>>
                 \/ parallel /\ Across(x)
    BY <1>2
<1> QED
    BY <1>3 DEF PairsOver, Across

\* The sets of pairs are of integers.
LEMMA EnglishTyped ==
    ASSUME DagInv, NEW n \in Nat, n <= Len(nodes), NEW node \in NodesOn(n),
           NEW walk, \A k \in 1..n : walk[k] \in SUBSET (Int \X AccessLists)
    PROVE  EnglishOf(node, walk) \in SUBSET (Int \X AccessLists)
<1>1. CASE node.kind = "strand"
  <2>1. node.accesses \in AccessLists
      BY <1>1, NodeParts DEF Kinds
  <2> QED
      BY <1>1, <2>1 DEF EnglishOf
<1>2. CASE node.kind # "strand"
  <2>1. PICK b, m : b = Bases(node, Counts) /\ m = Len(node.children)
      OBVIOUS
  <2>2. m \in Nat /\ (\A i \in 0..m : b[i] \in Nat)
        /\ \A i \in 1..m : node.children[i] \in 1..n
      BY <1>2, <2>1, ComposedFacts
  <2>3. ASSUME NEW x \in EnglishOf(node, walk) PROVE x \in Int \X AccessLists
    <3>1. PICK i \in 1..m : \E p \in walk[node.children[i]] :
                                x = <<b[i - 1] + p[1], p[2]>>
        BY <1>2, <2>1, EnglishMembers
    <3>2. PICK p \in walk[node.children[i]] : x = <<b[i - 1] + p[1], p[2]>>
        BY <3>1
    <3>3. b[i - 1] \in Int /\ p \in Int \X AccessLists
        BY <2>2
    <3> QED
        BY <3>2, <3>3
  <2> QED
      BY <2>3
<1> QED
    BY <1>1, <1>2

LEMMA HebrewTyped ==
    ASSUME DagInv, NEW n \in Nat, n <= Len(nodes), NEW node \in NodesOn(n),
           NEW walk, \A k \in 1..n : walk[k] \in SUBSET (Int \X Int)
    PROVE  HebrewOf(node, walk) \in SUBSET (Int \X Int)
<1>1. CASE node.kind = "strand"
    BY <1>1 DEF HebrewOf
<1>2. CASE node.kind # "strand"
  <2>1. PICK b, m : b = Bases(node, Counts) /\ m = Len(node.children)
      OBVIOUS
  <2>2. m \in Nat /\ (\A i \in 0..m : b[i] \in Nat)
        /\ \A i \in 1..m : node.children[i] \in 1..n
      BY <1>2, <2>1, ComposedFacts
  <2>3. \A i \in 1..m : b[i - 1] \in Int /\ HebrewBase(node, b, i) \in Int
      BY <2>1, <2>2 DEF HebrewBase
  <2>4. ASSUME NEW x \in HebrewOf(node, walk) PROVE x \in Int \X Int
    <3>1. PICK i \in 1..m : \E p \in walk[node.children[i]] :
              x = <<b[i - 1] + p[1], HebrewBase(node, b, i) + p[2]>>
        BY <1>2, <2>1, HebrewMembers
    <3>2. PICK p \in walk[node.children[i]] :
              x = <<b[i - 1] + p[1], HebrewBase(node, b, i) + p[2]>>
        BY <3>1
    <3>3. p \in Int \X Int
        BY <2>2
    <3> QED
        BY <2>3, <3>2, <3>3
  <2> QED
      BY <2>4
<1> QED
    BY <1>1, <1>2

LEMMA PairsTyped ==
    ASSUME DagInv, NEW n \in Nat, n <= Len(nodes), NEW node \in NodesOn(n),
           NEW walk, \A k \in 1..n : walk[k] \in SUBSET (Int \X Int)
    PROVE  PairsOf(node, walk) \in SUBSET (Int \X Int)
<1>1. CASE node.kind = "strand"
    BY <1>1 DEF PairsOf
<1>2. CASE node.kind # "strand"
  <2>1. PICK b, m : b = Bases(node, Counts) /\ m = Len(node.children)
      OBVIOUS
  <2>2. m \in Nat /\ (\A i \in 0..m : b[i] \in Nat)
        /\ \A i \in 1..m : node.children[i] \in 1..n
      BY <1>2, <2>1, ComposedFacts
  <2>3. ASSUME NEW x \in PairsOf(node, walk) PROVE x \in Int \X Int
    <3>1. ASSUME NEW i \in 1..m, NEW p \in walk[node.children[i]],
                 x = <<b[i - 1] + p[1], b[i - 1] + p[2]>>
          PROVE  x \in Int \X Int
      <4>1. b[i - 1] \in Int /\ p \in Int \X Int
          BY <2>2
      <4> QED
          BY <3>1, <4>1
    <3>2. ASSUME NEW i \in 1..m, NEW j \in 1..m,
                 x \in (b[i - 1]..b[i] - 1) \X (b[j - 1]..b[j] - 1)
          PROVE  x \in Int \X Int
      <4>1. (b[i - 1]..b[i] - 1) \subseteq Int
            /\ (b[j - 1]..b[j] - 1) \subseteq Int
          BY <2>2
      <4> QED
          BY <3>2, <4>1
    <3>3. \/ \E i \in 1..m : \E p \in walk[node.children[i]] :
                x = <<b[i - 1] + p[1], b[i - 1] + p[2]>>
          \/ \E i, j \in 1..m :
                x \in (b[i - 1]..b[i] - 1) \X (b[j - 1]..b[j] - 1)
      <4>1. PICK parallel \in BOOLEAN : parallel <=> node.kind # "series"
          OBVIOUS
      <4>2. PICK P : P = [i \in 1..m |-> walk[node.children[i]]]
          OBVIOUS
      <4>3. PairsOver(PairsOf(node, walk), P, b, m, parallel)
          BY <1>2, <2>1, <4>1, <4>2, PairsComposed
      <4> QED
          BY <4>2, <4>3 DEF PairsOver
    <3> QED
        BY <3>1, <3>2, <3>3
  <2> QED
      BY <2>3
<1> QED
    BY <1>1, <1>2

LEMMA EnglishLocal ==
    ASSUME NEW n \in Nat, NEW node \in NodesOn(n), NEW walk, NEW other,
           \A k \in 1..n : walk[k] = other[k]
    PROVE  EnglishOf(node, walk) = EnglishOf(node, other)
<1>1. CASE node.kind = "strand"
    BY <1>1 DEF EnglishOf
<1>2. CASE node.kind # "strand"
  <2>1. \A i \in 1..Len(node.children) :
            walk[node.children[i]] = other[node.children[i]]
      BY <1>2, NodeParts
  <2>2. \A x : x \in EnglishOf(node, walk) <=> x \in EnglishOf(node, other)
      BY <1>2, <2>1, EnglishMembers
  <2> QED
      BY <2>2
<1> QED
    BY <1>1, <1>2

LEMMA HebrewLocal ==
    ASSUME NEW n \in Nat, NEW node \in NodesOn(n), NEW walk, NEW other,
           \A k \in 1..n : walk[k] = other[k]
    PROVE  HebrewOf(node, walk) = HebrewOf(node, other)
<1>1. CASE node.kind = "strand"
    BY <1>1 DEF HebrewOf
<1>2. CASE node.kind # "strand"
  <2>1. \A i \in 1..Len(node.children) :
            walk[node.children[i]] = other[node.children[i]]
      BY <1>2, NodeParts
  <2>2. \A x : x \in HebrewOf(node, walk) <=> x \in HebrewOf(node, other)
      BY <1>2, <2>1, HebrewMembers
  <2> QED
      BY <2>2
<1> QED
    BY <1>1, <1>2

LEMMA PairsLocal ==
    ASSUME NEW n \in Nat, NEW node \in NodesOn(n), NEW walk, NEW other,
           \A k \in 1..n : walk[k] = other[k]
    PROVE  PairsOf(node, walk) = PairsOf(node, other)
<1>1. CASE node.kind = "strand"
    BY <1>1 DEF PairsOf
<1>2. CASE node.kind # "strand"
  <2>1. \A i \in 1..Len(node.children) :
            walk[node.children[i]] = other[node.children[i]]
      BY <1>2, NodeParts
  <2>2. \A x : x \in PairsOf(node, walk) <=> x \in PairsOf(node, other)
      BY <1>2, <2>1, PairsMembers
  <2> QED
      BY <2>2
<1> QED
    BY <1>1, <1>2

\* The recursions of the walks.
LEMMA EnglishEquation ==
    ASSUME DagInv
    PROVE  \A n \in 1..Len(nodes) : English[n] = EnglishOf(nodes[n], English)
<1> DEFINE N == Len(nodes)
           V == SUBSET (Int \X AccessLists)
           Body(f) == [n \in 1..N |-> EnglishOf(nodes[n], f)]
           B == [n \in 1..N |-> [w \in [1..N -> V] |-> EnglishOf(nodes[n], w)]]
<1>0. /\ N \in Nat /\ {} \in V
      /\ \A n \in 1..N : n - 1 \in Nat /\ n - 1 <= N
      /\ \A n \in 1..N : nodes[n] \in NodesOn(n - 1)
      /\ \A n \in 1..N : 1..n - 1 \subseteq 1..N
    BY DEF DagInv
<1>1. \E f : f = Body(f)
  <2>1. \A n \in 1..N : \A w \in [1..N -> V] : B[n][w] = EnglishOf(nodes[n], w)
      OBVIOUS
  <2> HIDE DEF B
  <2>2. ASSUME NEW n \in 1..N, NEW w \in [1..N -> V]
        PROVE  EnglishOf(nodes[n], w) \in V
    <3>1. \A k \in 1..n - 1 : w[k] \in V
        BY <1>0
    <3> QED
        BY <1>0, <3>1, EnglishTyped
  <2>3. ASSUME NEW n \in 1..N, NEW w, NEW x, \A k \in 1..n - 1 : w[k] = x[k]
        PROVE  EnglishOf(nodes[n], w) = EnglishOf(nodes[n], x)
      BY <1>0, <2>3, EnglishLocal
  <2> HIDE DEF N, V
  <2>4. Step(1, N, V, B)
    <3>1. ASSUME NEW n \in 1..N, NEW w \in [1..N -> V]
          PROVE  B[n][w] \in V
        BY <2>1, <2>2, Zenon
    <3>2. ASSUME NEW n \in 1..N, NEW w \in [1..N -> V],
                 NEW x \in [1..N -> V], \A k \in 1..n - 1 : w[k] = x[k]
          PROVE  B[n][w] = B[n][x]
      <4>1. EnglishOf(nodes[n], w) = EnglishOf(nodes[n], x)
          BY <2>3, <3>2, Zenon
      <4> QED
          BY <2>1, <4>1, Zenon
    <3> QED
        BY <3>1, <3>2, Zenon DEF Step
  <2>5. Fixpoint(1, N, V, B)
    <3>1. 1 \in Nat
        OBVIOUS
    <3> QED
        BY <1>0, <2>4, <3>1, Recursion
  <2>6. PICK f \in [1..N -> V] : \A n \in 1..N : f[n] = B[n][f]
      BY <2>5, Zenon DEF Fixpoint
  <2>7. f = Body(f)
    <3>1. \A n \in 1..N : f[n] = EnglishOf(nodes[n], f)
        BY <2>1, <2>6
    <3>2. f = [n \in 1..N |-> f[n]]
        OBVIOUS
    <3> QED
        BY <3>1, <3>2, Zenon
  <2> QED
      BY <2>7
<1>2. English = Body(English)
  <2>1. English = CHOOSE f : f = Body(f)
      BY DEF English
  <2> HIDE DEF Body
  <2> QED
      BY <1>1, <2>1
<1> QED
    BY <1>2, Zenon

LEMMA HebrewEquation ==
    ASSUME DagInv
    PROVE  \A n \in 1..Len(nodes) : Hebrew[n] = HebrewOf(nodes[n], Hebrew)
<1> DEFINE N == Len(nodes)
           V == SUBSET (Int \X Int)
           Body(f) == [n \in 1..N |-> HebrewOf(nodes[n], f)]
           B == [n \in 1..N |-> [w \in [1..N -> V] |-> HebrewOf(nodes[n], w)]]
<1>0. /\ N \in Nat /\ {} \in V
      /\ \A n \in 1..N : n - 1 \in Nat /\ n - 1 <= N
      /\ \A n \in 1..N : nodes[n] \in NodesOn(n - 1)
      /\ \A n \in 1..N : 1..n - 1 \subseteq 1..N
    BY DEF DagInv
<1>1. \E f : f = Body(f)
  <2>1. \A n \in 1..N : \A w \in [1..N -> V] : B[n][w] = HebrewOf(nodes[n], w)
      OBVIOUS
  <2> HIDE DEF B
  <2>2. ASSUME NEW n \in 1..N, NEW w \in [1..N -> V]
        PROVE  HebrewOf(nodes[n], w) \in V
    <3>1. \A k \in 1..n - 1 : w[k] \in V
        BY <1>0
    <3> QED
        BY <1>0, <3>1, HebrewTyped
  <2>3. ASSUME NEW n \in 1..N, NEW w, NEW x, \A k \in 1..n - 1 : w[k] = x[k]
        PROVE  HebrewOf(nodes[n], w) = HebrewOf(nodes[n], x)
      BY <1>0, <2>3, HebrewLocal
  <2> HIDE DEF N, V
  <2>4. Step(1, N, V, B)
    <3>1. ASSUME NEW n \in 1..N, NEW w \in [1..N -> V]
          PROVE  B[n][w] \in V
        BY <2>1, <2>2, Zenon
    <3>2. ASSUME NEW n \in 1..N, NEW w \in [1..N -> V],
                 NEW x \in [1..N -> V], \A k \in 1..n - 1 : w[k] = x[k]
          PROVE  B[n][w] = B[n][x]
      <4>1. HebrewOf(nodes[n], w) = HebrewOf(nodes[n], x)
          BY <2>3, <3>2, Zenon
      <4> QED
          BY <2>1, <4>1, Zenon
    <3> QED
        BY <3>1, <3>2, Zenon DEF Step
  <2>5. Fixpoint(1, N, V, B)
    <3>1. 1 \in Nat
        OBVIOUS
    <3> QED
        BY <1>0, <2>4, <3>1, Recursion
  <2>6. PICK f \in [1..N -> V] : \A n \in 1..N : f[n] = B[n][f]
      BY <2>5, Zenon DEF Fixpoint
  <2>7. f = Body(f)
    <3>1. \A n \in 1..N : f[n] = HebrewOf(nodes[n], f)
        BY <2>1, <2>6
    <3>2. f = [n \in 1..N |-> f[n]]
        OBVIOUS
    <3> QED
        BY <3>1, <3>2, Zenon
  <2> QED
      BY <2>7
<1>2. Hebrew = Body(Hebrew)
  <2>1. Hebrew = CHOOSE f : f = Body(f)
      BY DEF Hebrew
  <2> HIDE DEF Body
  <2> QED
      BY <1>1, <2>1
<1> QED
    BY <1>2, Zenon

LEMMA PairsEquation ==
    ASSUME DagInv
    PROVE  \A n \in 1..Len(nodes) :
               ParallelPairs[n] = PairsOf(nodes[n], ParallelPairs)
<1> DEFINE N == Len(nodes)
           V == SUBSET (Int \X Int)
           Body(f) == [n \in 1..N |-> PairsOf(nodes[n], f)]
           B == [n \in 1..N |-> [w \in [1..N -> V] |-> PairsOf(nodes[n], w)]]
<1>0. /\ N \in Nat /\ {} \in V
      /\ \A n \in 1..N : n - 1 \in Nat /\ n - 1 <= N
      /\ \A n \in 1..N : nodes[n] \in NodesOn(n - 1)
      /\ \A n \in 1..N : 1..n - 1 \subseteq 1..N
    BY DEF DagInv
<1>1. \E f : f = Body(f)
  <2>1. \A n \in 1..N : \A w \in [1..N -> V] : B[n][w] = PairsOf(nodes[n], w)
      OBVIOUS
  <2> HIDE DEF B
  <2>2. ASSUME NEW n \in 1..N, NEW w \in [1..N -> V]
        PROVE  PairsOf(nodes[n], w) \in V
    <3>1. \A k \in 1..n - 1 : w[k] \in V
        BY <1>0
    <3> QED
        BY <1>0, <3>1, PairsTyped
  <2>3. ASSUME NEW n \in 1..N, NEW w, NEW x, \A k \in 1..n - 1 : w[k] = x[k]
        PROVE  PairsOf(nodes[n], w) = PairsOf(nodes[n], x)
      BY <1>0, <2>3, PairsLocal
  <2> HIDE DEF N, V
  <2>4. Step(1, N, V, B)
    <3>1. ASSUME NEW n \in 1..N, NEW w \in [1..N -> V]
          PROVE  B[n][w] \in V
        BY <2>1, <2>2, Zenon
    <3>2. ASSUME NEW n \in 1..N, NEW w \in [1..N -> V],
                 NEW x \in [1..N -> V], \A k \in 1..n - 1 : w[k] = x[k]
          PROVE  B[n][w] = B[n][x]
      <4>1. PairsOf(nodes[n], w) = PairsOf(nodes[n], x)
          BY <2>3, <3>2, Zenon
      <4> QED
          BY <2>1, <4>1, Zenon
    <3> QED
        BY <3>1, <3>2, Zenon DEF Step
  <2>5. Fixpoint(1, N, V, B)
    <3>1. 1 \in Nat
        OBVIOUS
    <3> QED
        BY <1>0, <2>4, <3>1, Recursion
  <2>6. PICK f \in [1..N -> V] : \A n \in 1..N : f[n] = B[n][f]
      BY <2>5, Zenon DEF Fixpoint
  <2>7. f = Body(f)
    <3>1. \A n \in 1..N : f[n] = PairsOf(nodes[n], f)
        BY <2>1, <2>6
    <3>2. f = [n \in 1..N |-> f[n]]
        OBVIOUS
    <3> QED
        BY <3>1, <3>2, Zenon
  <2> QED
      BY <2>7
<1>2. ParallelPairs = Body(ParallelPairs)
  <2>1. ParallelPairs = CHOOSE f : f = Body(f)
      BY DEF ParallelPairs
  <2> HIDE DEF Body
  <2> QED
      BY <1>1, <2>1
<1> QED
    BY <1>2, Zenon

-----------------------------------------------------------------------------
(* The two orders                                                          *)

\* What the walks of a node with c strands find.
Walked(c, E, H, P) ==
    EnglishOK(c, E) /\ HebrewOK(c, H) /\ PairsOK(c, P) /\ Agree(H, P)

\* The orders of the children of a node, one after the other or in reverse.
LEMMA HebrewBases ==
    ASSUME NEW m \in Nat, NEW b, Starts(b, m), NEW node,
           m = Len(node.children), NEW h, NEW parallel,
           parallel = (node.kind = "parallel"),
           \A i \in 1..m : h[i] = HebrewBase(node, b, i)
    PROVE  HebrewStarts(h, b, m, parallel)
<1>1. /\ \A i \in 0..m : b[i] \in Nat
      /\ \A i, j \in 0..m : i <= j => b[i] <= b[j]
    BY StartsFacts
<1>2. ASSUME NEW i \in 1..m
      PROVE  /\ h[i] = IF parallel THEN b[m] - b[i] ELSE b[i - 1]
             /\ b[i - 1] \in Nat /\ b[i] \in Nat /\ b[m] \in Nat
             /\ b[i - 1] <= b[i] /\ b[i] <= b[m]
  <2>1. h[i] = IF parallel THEN b[m] - b[i] ELSE b[i - 1]
      BY DEF HebrewBase
  <2> QED
      BY <2>1, PlaceFacts
<1>3. ASSUME NEW i \in 1..m
      PROVE  h[i] \in Nat /\ h[i] + (b[i] - b[i - 1]) <= b[m]
  <2>1. CASE parallel
    <3>1. h[i] = b[m] - b[i]
        BY <1>2, <2>1
    <3> QED
        BY <1>2, <3>1
  <2>2. CASE ~parallel
    <3>1. h[i] = b[i - 1]
        BY <1>2, <2>2
    <3> QED
        BY <1>2, <3>1
  <2> QED
      BY <2>1, <2>2
<1>4. ASSUME NEW i \in 1..m, NEW j \in 1..m, i < j
      PROVE  IF parallel THEN h[j] + (b[j] - b[j - 1]) <= h[i]
             ELSE h[i] + (b[i] - b[i - 1]) <= h[j]
  <2>1. b[i] <= b[j - 1]
    <3>1. i \in 0..m /\ j - 1 \in 0..m /\ i <= j - 1
        BY <1>4
    <3> QED
        BY <1>1, <3>1
  <2>2. CASE parallel
    <3>1. h[i] = b[m] - b[i] /\ h[j] = b[m] - b[j]
        BY <1>2, <2>2
    <3> QED
        BY <1>2, <2>1, <2>2, <3>1
  <2>3. CASE ~parallel
    <3>1. h[i] = b[i - 1] /\ h[j] = b[j - 1]
        BY <1>2, <2>3
    <3> QED
        BY <1>2, <2>1, <2>3, <3>1
  <2> QED
      BY <2>2, <2>3
<1> QED
    BY <1>3, <1>4 DEF HebrewStarts

\* The walks of a strand.
LEMMA StrandWalked ==
    ASSUME NEW accesses \in AccessLists
    PROVE  Walked(1, {<<0, accesses>>}, {<<0, 0>>}, {})
<1>1. 0..1 - 1 = {0}
    OBVIOUS
<1>2. EnglishOK(1, {<<0, accesses>>})
    BY <1>1 DEF EnglishOK
<1>3. HebrewOK(1, {<<0, 0>>})
    BY <1>1 DEF HebrewOK
<1>4. PairsOK(1, {})
    BY DEF PairsOK
<1>5. Agree({<<0, 0>>}, {})
    BY DEF Agree
<1> QED
    BY <1>2, <1>3, <1>4, <1>5 DEF Walked

\* The walks of a node, if its children's are right.
LEMMA NodeWalked ==
    ASSUME DagInv, NEW n \in Nat, n <= Len(nodes), NEW node \in NodesOn(n),
           \A k \in 1..n :
               Walked(Counts[k], English[k], Hebrew[k], ParallelPairs[k])
    PROVE  Walked(CountOf(node, Counts), EnglishOf(node, English),
                  HebrewOf(node, Hebrew), PairsOf(node, ParallelPairs))
<1>1. CASE node.kind = "strand"
  <2>1. node.accesses \in AccessLists
      BY <1>1, NodeParts DEF Kinds
  <2>2. /\ CountOf(node, Counts) = 1
        /\ EnglishOf(node, English) = {<<0, node.accesses>>}
        /\ HebrewOf(node, Hebrew) = {<<0, 0>>}
        /\ PairsOf(node, ParallelPairs) = {}
      BY <1>1 DEF CountOf, EnglishOf, HebrewOf, PairsOf
  <2> QED
      BY <2>1, <2>2, StrandWalked
<1>2. CASE node.kind # "strand"
  <2>1. PICK b, m : b = Bases(node, Counts) /\ m = Len(node.children)
      OBVIOUS
  <2>2. /\ node.kind \in Kinds
        /\ m \in Nat /\ Starts(b, m) /\ CountOf(node, Counts) = b[m]
        /\ \A i \in 1..m : /\ node.children[i] \in 1..n
                           /\ b[i] - b[i - 1] = Counts[node.children[i]]
      BY <1>2, <2>1, ComposedFacts
  <2>3. PICK E, H, P, h :
            /\ E = [i \in 1..m |-> English[node.children[i]]]
            /\ H = [i \in 1..m |-> Hebrew[node.children[i]]]
            /\ P = [i \in 1..m |-> ParallelPairs[node.children[i]]]
            /\ h = [i \in 1..m |-> HebrewBase(node, b, i)]
      OBVIOUS
  <2>4. PICK parallel \in BOOLEAN : parallel = (node.kind = "parallel")
      OBVIOUS
  <2>5. parallel <=> node.kind # "series"
      BY <2>2, <2>4 DEF Kinds
  <2>6. ASSUME NEW i \in 1..m
        PROVE  /\ EnglishOK(b[i] - b[i - 1], E[i])
               /\ HebrewOK(b[i] - b[i - 1], H[i])
               /\ PairsOK(b[i] - b[i - 1], P[i])
               /\ Agree(H[i], P[i])
    <3>1. PICK k \in 1..n : k = node.children[i]
        BY <2>2
    <3>2. E[i] = English[k] /\ H[i] = Hebrew[k] /\ P[i] = ParallelPairs[k]
          /\ b[i] - b[i - 1] = Counts[k]
        BY <2>2, <2>3, <3>1
    <3> QED
        BY <3>2 DEF Walked
  <2>7. HebrewStarts(h, b, m, parallel)
    <3>1. \A i \in 1..m : h[i] = HebrewBase(node, b, i)
        BY <2>3
    <3> QED
        BY <2>1, <2>2, <2>4, <3>1, HebrewBases
  <2>8. PICK X, Y, Z : /\ X = EnglishOf(node, English)
                       /\ Y = HebrewOf(node, Hebrew)
                       /\ Z = PairsOf(node, ParallelPairs)
      OBVIOUS
  <2>9. EnglishOver(X, E, b, m)
    <3>1. \A i \in 1..m : E[i] = English[node.children[i]]
        BY <2>3
    <3> QED
        BY <1>2, <2>1, <2>8, <3>1, EnglishComposed
  <2>10. HebrewOver(Y, H, h, b, m)
    <3>1. \A i \in 1..m : H[i] = Hebrew[node.children[i]]
                           /\ h[i] = HebrewBase(node, b, i)
        BY <2>3
    <3> QED
        BY <1>2, <2>1, <2>8, <3>1, HebrewComposed
  <2>11. PairsOver(Z, P, b, m, parallel)
    <3>1. \A i \in 1..m : P[i] = ParallelPairs[node.children[i]]
        BY <2>3
    <3> QED
        BY <1>2, <2>1, <2>5, <2>8, <3>1, PairsComposed
  <2>12. EnglishOK(b[m], X)
    <3>1. \A i \in 1..m : EnglishOK(b[i] - b[i - 1], E[i])
        BY <2>6
    <3> QED
        BY <2>2, <2>9, <3>1, EnglishJoined
  <2>13. HebrewOK(b[m], Y)
    <3>1. \A i \in 1..m : HebrewOK(b[i] - b[i - 1], H[i])
        BY <2>6
    <3> QED
        BY <2>2, <2>7, <2>10, <3>1, HebrewJoined
  <2>14. PairsOK(b[m], Z)
      BY <2>2, <2>6, <2>11, PairsJoined
  <2>15. Agree(Y, Z)
    <3>1. \A i \in 1..m : /\ HebrewOK(b[i] - b[i - 1], H[i])
                           /\ PairsOK(b[i] - b[i - 1], P[i])
                           /\ Agree(H[i], P[i])
        BY <2>6
    <3> QED
        BY <2>2, <2>7, <2>10, <2>11, <3>1, AgreeJoined
  <2> QED
      BY <2>2, <2>8, <2>12, <2>13, <2>14, <2>15 DEF Walked
<1> QED
    BY <1>1, <1>2

\* Of every node, by induction on its number.
LEMMA AllWalked ==
    ASSUME DagInv
    PROVE  \A n \in 1..Len(nodes) :
               Walked(Counts[n], English[n], Hebrew[n], ParallelPairs[n])
<1> DEFINE N == Len(nodes)
           W(n) == Walked(Counts[n], English[n], Hebrew[n], ParallelPairs[n])
           bad == {n \in 1..N : ~W(n)}
<1> SUFFICES ASSUME bad # {} PROVE FALSE
    OBVIOUS
<1>0. /\ N \in Nat
      /\ \A n \in 1..N : n - 1 \in Nat /\ n - 1 <= N
      /\ \A n \in 1..N : nodes[n] \in NodesOn(n - 1)
      /\ \A n \in 1..N : 1..n - 1 \subseteq 1..N
    BY DEF DagInv
<1>1. PICK n \in bad : \A k \in bad : n <= k
  <2>1. bad \in SUBSET Nat
      OBVIOUS
  <2> HIDE DEF bad
  <2> QED
      BY <2>1, LeastNat
<1>2. n \in 1..N /\ ~W(n)
    OBVIOUS
<1>3. \A k \in 1..n - 1 : W(k)
  <2>1. \A k \in 1..n - 1 : k \in 1..N /\ ~(n <= k)
      BY <1>0, <1>2
  <2> HIDE DEF W, N
  <2> QED
      BY <1>1, <2>1
<1>4. Walked(CountOf(nodes[n], Counts), EnglishOf(nodes[n], English),
             HebrewOf(nodes[n], Hebrew), PairsOf(nodes[n], ParallelPairs))
  <2>1. n - 1 \in Nat /\ n - 1 <= Len(nodes) /\ nodes[n] \in NodesOn(n - 1)
      BY <1>0, <1>2
  <2> QED
      BY <1>3, <2>1, NodeWalked
<1>5. /\ Counts[n] = CountOf(nodes[n], Counts)
      /\ English[n] = EnglishOf(nodes[n], English)
      /\ Hebrew[n] = HebrewOf(nodes[n], Hebrew)
      /\ ParallelPairs[n] = PairsOf(nodes[n], ParallelPairs)
    BY <1>2, CountsFacts, EnglishEquation, HebrewEquation, PairsEquation
<1> QED
    BY <1>2, <1>4, <1>5

-----------------------------------------------------------------------------
(* The races                                                               *)

LEMMA InfosMembers ==
    ASSUME NEW root
    PROVE  \A s : s \in Infos(root) <=>
               \E x \in EnglishOf(root, English) :
                 \E y \in HebrewOf(root, Hebrew) :
                   /\ x[1] = y[1]
                   /\ s = [english |-> x[1], hebrew |-> y[2], accesses |-> x[2]]
<1> DEFINE E == EnglishOf(root, English)
           H == HebrewOf(root, Hebrew)
           Same == {eh \in E \X H : eh[1][1] = eh[2][1]}
           Info(eh) == [english |-> eh[1][1], hebrew |-> eh[2][2],
                        accesses |-> eh[1][2]]
<1>1. Infos(root) = {Info(eh) : eh \in Same}
    BY Zenon DEF Infos
<1>2. ASSUME NEW s \in Infos(root)
      PROVE  \E x \in E : \E y \in H :
                /\ x[1] = y[1]
                /\ s = [english |-> x[1], hebrew |-> y[2], accesses |-> x[2]]
  <2>1. PICK eh \in Same : s = Info(eh)
      BY <1>1, Zenon
  <2>2. eh[1] \in E /\ eh[2] \in H /\ eh[1][1] = eh[2][1]
      OBVIOUS
  <2> QED
      BY <2>1, <2>2, Zenon
<1>3. ASSUME NEW x \in E, NEW y \in H, x[1] = y[1]
      PROVE  [english |-> x[1], hebrew |-> y[2], accesses |-> x[2]]
                 \in Infos(root)
  <2> DEFINE eh == <<x, y>>
  <2>1. eh \in Same /\ eh[1] = x /\ eh[2] = y
      BY <1>3
  <2> HIDE DEF eh, Same
  <2>2. Info(eh) \in Infos(root)
      BY <1>1, <2>1, Zenon
  <2> QED
      BY <2>1, <2>2, Zenon
<1> HIDE DEF E, H
<1>4. ASSUME NEW s
      PROVE  s \in Infos(root) <=>
               \E x \in E : \E y \in H :
                 /\ x[1] = y[1]
                 /\ s = [english |-> x[1], hebrew |-> y[2], accesses |-> x[2]]
    BY <1>2, <1>3, Zenon
<1> QED
    BY <1>4, Zenon DEF E, H

\* What is reported.
RaceOf(r, a, b, location, write_a, write_b) ==
    r = [location |-> location, strand_a |-> a, strand_b |-> b,
         write_a |-> write_a, write_b |-> write_b]

Reported(r, infos, location) ==
    \E s, t \in infos :
      \E k \in 1..Len(s.accesses), l \in 1..Len(t.accesses) :
        /\ s.accesses[k].location = location
        /\ t.accesses[l].location = location
        /\ Listed(<<s, k>>, <<t, l>>)
        /\ s # t
        /\ s.accesses[k].is_write \/ t.accesses[l].is_write
        /\ InParallel(s, t)
        /\ RaceOf(r, s.english, t.english, location,
                  s.accesses[k].is_write, t.accesses[l].is_write)

LEMMA LocationMembers ==
    ASSUME NEW infos, NEW location
    PROVE  \A r : r \in RacesAtLocation(infos, location) <=>
                     Reported(r, infos, location)
<1> DEFINE A == Accessors(infos, location)
           Found == {xy \in A \X A : /\ Listed(xy[1], xy[2])
                                     /\ xy[1][1] # xy[2][1]
                                     /\ IsWrite(xy[1]) \/ IsWrite(xy[2])
                                     /\ InParallel(xy[1][1], xy[2][1])}
           Report(xy) == [location |-> location,
                        strand_a |-> xy[1][1].english,
                        strand_b |-> xy[2][1].english,
                        write_a |-> IsWrite(xy[1]), write_b |-> IsWrite(xy[2])]
<1>1. RacesAtLocation(infos, location) = {Report(xy) : xy \in Found}
    BY Zenon DEF RacesAtLocation
<1>2. ASSUME NEW x \in A
      PROVE  \E s \in infos : \E k \in 1..Len(s.accesses) :
                x = <<s, k>> /\ s.accesses[k].location = location
  <2>1. PICK s \in infos : x \in {s} \X (1..Len(s.accesses))
      BY DEF Accessors
  <2>2. x = <<x[1], x[2]>> /\ x[1] = s /\ x[2] \in 1..Len(s.accesses)
      BY <2>1
  <2>3. x[1].accesses[x[2]].location = location
      BY Zenon DEF Accessors
  <2> QED
      BY <2>2, <2>3
<1>3. ASSUME NEW s \in infos, NEW k \in 1..Len(s.accesses),
             s.accesses[k].location = location
      PROVE  <<s, k>> \in A
  <2> DEFINE x == <<s, k>>
  <2>1. x \in {s} \X (1..Len(s.accesses)) /\ x[1] = s /\ x[2] = k
      OBVIOUS
  <2> HIDE DEF x
  <2>2. x \in UNION {{t} \X (1..Len(t.accesses)) : t \in infos}
      BY <2>1
  <2>3. x[1].accesses[x[2]].location = location
      BY <1>3, <2>1, Zenon
  <2>4. x \in A
      BY <2>2, <2>3, Zenon DEF Accessors
  <2> QED
      BY <2>4 DEF x
<1>4. ASSUME NEW r \in RacesAtLocation(infos, location)
      PROVE  \E s, t \in infos :
               \E k \in 1..Len(s.accesses), l \in 1..Len(t.accesses) :
                 /\ s.accesses[k].location = location
                 /\ t.accesses[l].location = location
                 /\ Listed(<<s, k>>, <<t, l>>)
                 /\ s # t
                 /\ s.accesses[k].is_write \/ t.accesses[l].is_write
                 /\ InParallel(s, t)
                 /\ RaceOf(r, s.english, t.english, location,
                           s.accesses[k].is_write, t.accesses[l].is_write)
  <2>1. PICK xy \in Found : r = Report(xy)
      BY <1>1, Zenon
  <2>2. PICK x, y : x = xy[1] /\ y = xy[2] /\ x \in A /\ y \in A
      OBVIOUS
  <2>3. PICK s \in infos : \E k \in 1..Len(s.accesses) :
            x = <<s, k>> /\ s.accesses[k].location = location
      BY <1>2, <2>2
  <2>4. PICK t \in infos : \E l \in 1..Len(t.accesses) :
            y = <<t, l>> /\ t.accesses[l].location = location
      BY <1>2, <2>2
  <2>5. PICK k \in 1..Len(s.accesses) :
            x = <<s, k>> /\ s.accesses[k].location = location
      BY <2>3
  <2>6. PICK l \in 1..Len(t.accesses) :
            y = <<t, l>> /\ t.accesses[l].location = location
      BY <2>4
  <2>7. /\ Listed(x, y) /\ x[1] # y[1] /\ (IsWrite(x) \/ IsWrite(y))
        /\ InParallel(x[1], y[1])
        /\ r = [location |-> location, strand_a |-> x[1].english,
                strand_b |-> y[1].english, write_a |-> IsWrite(x),
                write_b |-> IsWrite(y)]
      BY <2>1, <2>2, Zenon
  <2>8. x[1] = s /\ x[2] = k /\ y[1] = t /\ y[2] = l
      BY <2>5, <2>6
  <2>9. /\ s # t /\ InParallel(s, t)
        /\ (s.accesses[k].is_write \/ t.accesses[l].is_write)
        /\ RaceOf(r, s.english, t.english, location,
                  s.accesses[k].is_write, t.accesses[l].is_write)
      BY <2>7, <2>8, Zenon DEF IsWrite, RaceOf
  <2> QED
      BY <2>5, <2>6, <2>7, <2>9, Zenon
<1>5. ASSUME NEW r, NEW s \in infos, NEW t \in infos,
             NEW k \in 1..Len(s.accesses), NEW l \in 1..Len(t.accesses),
             s.accesses[k].location = location,
             t.accesses[l].location = location,
             Listed(<<s, k>>, <<t, l>>),
             s # t,
             s.accesses[k].is_write \/ t.accesses[l].is_write,
             InParallel(s, t),
             RaceOf(r, s.english, t.english, location,
                    s.accesses[k].is_write, t.accesses[l].is_write)
      PROVE  r \in RacesAtLocation(infos, location)
  <2> DEFINE x == <<s, k>>
             y == <<t, l>>
             xy == <<x, y>>
  <2>1. x[1] = s /\ x[2] = k /\ y[1] = t /\ y[2] = l /\ Listed(x, y)
        /\ x \in A /\ y \in A
      BY <1>3, <1>5
  <2> HIDE DEF x, y, A
  <2>2. xy[1] = x /\ xy[2] = y /\ xy \in A \X A
      BY <2>1
  <2> HIDE DEF xy
  <2>3. IsWrite(x) \/ IsWrite(y)
      BY <1>5, <2>1, Zenon DEF IsWrite
  <2>4. xy \in Found
      BY <1>5, <2>1, <2>2, <2>3, Zenon
  <2>5. r = Report(xy)
      BY <1>5, <2>1, <2>2, Zenon DEF IsWrite, RaceOf
  <2> QED
      BY <1>1, <2>4, <2>5, Zenon
<1>6. ASSUME NEW r \in RacesAtLocation(infos, location)
      PROVE  Reported(r, infos, location)
    BY <1>4, Zenon DEF Reported
<1>7. ASSUME NEW r, Reported(r, infos, location)
      PROVE  r \in RacesAtLocation(infos, location)
    BY <1>5, <1>7, Zenon DEF Reported
<1> QED
    BY <1>6, <1>7, Zenon

Defined(r, E, P) ==
    \E x, y \in E : \E k \in 1..Len(x[2]), l \in 1..Len(y[2]) :
        /\ <<x[1], y[1]>> \in P
        /\ x[2][k].location = y[2][l].location
        /\ x[2][k].is_write \/ y[2][l].is_write
        /\ RaceOf(r, x[1], y[1], x[2][k].location,
                  x[2][k].is_write, y[2][l].is_write)

LEMMA DefinitionMembers ==
    ASSUME NEW root
    PROVE  \A r : r \in RacesByDefinition(root) <=>
                     Defined(r, EnglishOf(root, English),
                             PairsOf(root, ParallelPairs))
<1> DEFINE E == EnglishOf(root, English)
           P == PairsOf(root, ParallelPairs)
           D == Does(root)
           Found == {xy \in D \X D :
                        /\ <<xy[1][1], xy[2][1]>> \in P
                        /\ xy[1][2].location = xy[2][2].location
                        /\ xy[1][2].is_write \/ xy[2][2].is_write}
           Report(xy) == [location |-> xy[1][2].location,
                          strand_a |-> xy[1][1], strand_b |-> xy[2][1],
                          write_a |-> xy[1][2].is_write,
                          write_b |-> xy[2][2].is_write]
<1>1. RacesByDefinition(root) = {Report(xy) : xy \in Found}
    BY Zenon DEF RacesByDefinition
<1>2. \A d : d \in D <=> \E x \in E : \E k \in 1..Len(x[2]) :
                            d = <<x[1], x[2][k]>>
    BY DEF Does
<1> HIDE DEF D
<1>3. ASSUME NEW r \in RacesByDefinition(root)
      PROVE  \E x, y \in E : \E k \in 1..Len(x[2]), l \in 1..Len(y[2]) :
                /\ <<x[1], y[1]>> \in P
                /\ x[2][k].location = y[2][l].location
                /\ x[2][k].is_write \/ y[2][l].is_write
                /\ RaceOf(r, x[1], y[1], x[2][k].location,
                          x[2][k].is_write, y[2][l].is_write)
  <2>1. PICK xy \in Found : r = Report(xy)
      BY <1>1, Zenon
  <2>2. PICK c, d : c = xy[1] /\ d = xy[2] /\ c \in D /\ d \in D
      OBVIOUS
  <2>3. PICK x \in E : \E k \in 1..Len(x[2]) : c = <<x[1], x[2][k]>>
      BY <1>2, <2>2
  <2>4. PICK y \in E : \E l \in 1..Len(y[2]) : d = <<y[1], y[2][l]>>
      BY <1>2, <2>2
  <2>5. PICK k \in 1..Len(x[2]) : c = <<x[1], x[2][k]>>
      BY <2>3
  <2>6. PICK l \in 1..Len(y[2]) : d = <<y[1], y[2][l]>>
      BY <2>4
  <2>7. /\ <<c[1], d[1]>> \in P
        /\ c[2].location = d[2].location
        /\ c[2].is_write \/ d[2].is_write
        /\ r = [location |-> c[2].location, strand_a |-> c[1],
                strand_b |-> d[1], write_a |-> c[2].is_write,
                write_b |-> d[2].is_write]
      BY <2>1, <2>2, Zenon
  <2>8. c[1] = x[1] /\ c[2] = x[2][k] /\ d[1] = y[1] /\ d[2] = y[2][l]
      BY <2>5, <2>6
  <2>9. /\ <<x[1], y[1]>> \in P
        /\ x[2][k].location = y[2][l].location
        /\ x[2][k].is_write \/ y[2][l].is_write
        /\ RaceOf(r, x[1], y[1], x[2][k].location,
                  x[2][k].is_write, y[2][l].is_write)
      BY <2>7, <2>8, Zenon DEF RaceOf
  <2> QED
      BY <2>9
<1>4. ASSUME NEW r, NEW x \in E, NEW y \in E,
             NEW k \in 1..Len(x[2]), NEW l \in 1..Len(y[2]),
             <<x[1], y[1]>> \in P,
             x[2][k].location = y[2][l].location,
             x[2][k].is_write \/ y[2][l].is_write,
             RaceOf(r, x[1], y[1], x[2][k].location,
                    x[2][k].is_write, y[2][l].is_write)
      PROVE  r \in RacesByDefinition(root)
  <2> DEFINE c == <<x[1], x[2][k]>>
             d == <<y[1], y[2][l]>>
             xy == <<c, d>>
  <2>1. /\ c[1] = x[1] /\ c[2] = x[2][k] /\ d[1] = y[1] /\ d[2] = y[2][l]
        /\ c \in D /\ d \in D
      BY <1>2, Zenon
  <2> HIDE DEF c, d
  <2>2. xy[1] = c /\ xy[2] = d /\ xy \in D \X D
      BY <2>1
  <2> HIDE DEF xy
  <2>3. xy \in Found
      BY <1>4, <2>1, <2>2, Zenon
  <2>4. r = Report(xy)
      BY <1>4, <2>1, <2>2, Zenon DEF RaceOf
  <2> QED
      BY <1>1, <2>3, <2>4, Zenon
<1> HIDE DEF E, P
<1>5. ASSUME NEW r
      PROVE  r \in RacesByDefinition(root) <=> Defined(r, E, P)
    BY <1>3, <1>4, Zenon DEF Defined
<1> QED
    BY <1>5, Zenon DEF E, P

\* The StrandInfos are one for each strand, and in_parallel of two of them says
\* whether they are a pair.
LEMMA InfosFacts ==
    ASSUME NEW root, NEW c, NEW E, NEW H, NEW P,
           E = EnglishOf(root, English), H = HebrewOf(root, Hebrew),
           Walked(c, E, H, P)
    PROVE  /\ \A s \in Infos(root) :
                 /\ s.english \in Int
                 /\ \E x \in E : s.english = x[1] /\ s.accesses = x[2]
           /\ \A x \in E : \E s \in Infos(root) :
                 s.english = x[1] /\ s.accesses = x[2]
           /\ \A s, t \in Infos(root) :
                 s.english < t.english =>
                     (InParallel(s, t) <=> <<s.english, t.english>> \in P)
           /\ \A s, t \in Infos(root) : s.english = t.english => s = t
<1>0. EnglishOK(c, E) /\ HebrewOK(c, H) /\ PairsOK(c, P) /\ Agree(H, P)
    BY DEF Walked
<1>1. ASSUME NEW s \in Infos(root)
      PROVE  \E x \in E : \E y \in H :
                /\ s.english = x[1] /\ s.hebrew = y[2] /\ s.accesses = x[2]
                /\ x[1] = y[1] /\ s.english \in Int
                /\ s = [english |-> x[1], hebrew |-> y[2], accesses |-> x[2]]
  <2>1. PICK x \in E : \E y \in H :
                /\ x[1] = y[1]
                /\ s = [english |-> x[1], hebrew |-> y[2], accesses |-> x[2]]
      BY InfosMembers
  <2>2. PICK y \in H :
                /\ x[1] = y[1]
                /\ s = [english |-> x[1], hebrew |-> y[2], accesses |-> x[2]]
      BY <2>1
  <2>3. x[1] \in Int
      BY <1>0 DEF EnglishOK
  <2>4. s.english = x[1] /\ s.hebrew = y[2] /\ s.accesses = x[2]
      BY <2>2
  <2> QED
      BY <2>2, <2>3, <2>4
<1>2. ASSUME NEW x \in E
      PROVE  \E s \in Infos(root) : s.english = x[1] /\ s.accesses = x[2]
  <2>1. x[1] \in 0..c - 1
      BY <1>0 DEF EnglishOK
  <2>2. PICK y \in H : y[1] = x[1]
      BY <1>0, <2>1 DEF HebrewOK
  <2> DEFINE s == [english |-> x[1], hebrew |-> y[2], accesses |-> x[2]]
  <2>3. s \in Infos(root)
      BY <2>2, InfosMembers
  <2>4. s.english = x[1] /\ s.accesses = x[2]
      OBVIOUS
  <2> QED
      BY <2>3, <2>4
<1>3. ASSUME NEW s \in Infos(root), NEW t \in Infos(root),
             s.english < t.english
      PROVE  InParallel(s, t) <=> <<s.english, t.english>> \in P
  <2>1. PICK p \in H : s.english = p[1] /\ s.hebrew = p[2]
      BY <1>1
  <2>2. PICK q \in H : t.english = q[1] /\ t.hebrew = q[2]
      BY <1>1
  <2>3. p[2] < q[2] <=> <<p[1], q[1]>> \notin P
      BY <1>0, <1>3, <2>1, <2>2 DEF Agree
  <2>4. InParallel(s, t) <=> ~(s.hebrew < t.hebrew)
      BY <1>3 DEF InParallel
  <2> QED
      BY <2>1, <2>2, <2>3, <2>4
<1>4. ASSUME NEW s \in Infos(root), NEW t \in Infos(root),
             s.english = t.english
      PROVE  s = t
  <2>1. PICK x \in E : \E p \in H :
            /\ s.english = x[1] /\ x[1] = p[1]
            /\ s = [english |-> x[1], hebrew |-> p[2], accesses |-> x[2]]
      BY <1>1
  <2>2. PICK p \in H :
            /\ s.english = x[1] /\ x[1] = p[1]
            /\ s = [english |-> x[1], hebrew |-> p[2], accesses |-> x[2]]
      BY <2>1
  <2>3. PICK y \in E : \E q \in H :
            /\ t.english = y[1] /\ y[1] = q[1]
            /\ t = [english |-> y[1], hebrew |-> q[2], accesses |-> y[2]]
      BY <1>1
  <2>4. PICK q \in H :
            /\ t.english = y[1] /\ y[1] = q[1]
            /\ t = [english |-> y[1], hebrew |-> q[2], accesses |-> y[2]]
      BY <2>3
  <2>5. x[1] = y[1] /\ p[1] = q[1]
      BY <1>4, <2>2, <2>4
  <2>6. x = y /\ p = q
      BY <1>0, <2>5 DEF EnglishOK, HebrewOK
  <2> QED
      BY <2>2, <2>4, <2>6
<1>5. \A s \in Infos(root) :
         /\ s.english \in Int
         /\ \E x \in E : s.english = x[1] /\ s.accesses = x[2]
    BY <1>1
<1> QED
    BY <1>2, <1>3, <1>4, <1>5

LEMMA RacesAgree ==
    ASSUME NEW root, NEW c,
           Walked(c, EnglishOf(root, English), HebrewOf(root, Hebrew),
                  PairsOf(root, ParallelPairs))
    PROVE  DetectRaces(root) = RacesByDefinition(root)
<1>1. PICK E, H, P : /\ E = EnglishOf(root, English)
                     /\ H = HebrewOf(root, Hebrew)
                     /\ P = PairsOf(root, ParallelPairs)
    OBVIOUS
<1>2. PICK I : I = Infos(root)
    OBVIOUS
<1>3. Walked(c, E, H, P)
    BY <1>1
<1>4. EnglishOK(c, E) /\ PairsOK(c, P)
    BY <1>3 DEF Walked
<1>5. /\ \A s \in I : /\ s.english \in Int
                      /\ \E x \in E : s.english = x[1] /\ s.accesses = x[2]
      /\ \A x \in E : \E s \in I : s.english = x[1] /\ s.accesses = x[2]
      /\ \A s, t \in I :
            s.english < t.english =>
                (InParallel(s, t) <=> <<s.english, t.english>> \in P)
      /\ \A s, t \in I : s.english = t.english => s = t
    BY <1>1, <1>2, <1>3, InfosFacts
<1>6. \A r : r \in DetectRaces(root) <=>
                 \E location \in Locations : r \in RacesAtLocation(I, location)
    BY <1>2 DEF DetectRaces
<1>7. \A r : r \in RacesByDefinition(root) <=> Defined(r, E, P)
    BY <1>1, DefinitionMembers
<1>8. ASSUME NEW r \in DetectRaces(root) PROVE r \in RacesByDefinition(root)
  <2>1. PICK location : r \in RacesAtLocation(I, location)
      BY <1>6
  <2>2. PICK s \in I, t \in I :
               \E k \in 1..Len(s.accesses), l \in 1..Len(t.accesses) :
                   /\ s.accesses[k].location = location
                   /\ t.accesses[l].location = location
                   /\ Listed(<<s, k>>, <<t, l>>)
                   /\ s # t
                   /\ s.accesses[k].is_write \/ t.accesses[l].is_write
                   /\ InParallel(s, t)
                   /\ RaceOf(r, s.english, t.english, location,
                             s.accesses[k].is_write, t.accesses[l].is_write)
    <3>1. Reported(r, I, location)
        BY <2>1, LocationMembers
    <3> QED
        BY <3>1 DEF Reported
  <2>3. PICK k \in 1..Len(s.accesses), l \in 1..Len(t.accesses) :
                   /\ s.accesses[k].location = location
                   /\ t.accesses[l].location = location
                   /\ Listed(<<s, k>>, <<t, l>>)
                   /\ s # t
                   /\ s.accesses[k].is_write \/ t.accesses[l].is_write
                   /\ InParallel(s, t)
                   /\ RaceOf(r, s.english, t.english, location,
                             s.accesses[k].is_write, t.accesses[l].is_write)
      BY <2>2
  <2>4. s.english < t.english
      BY <2>3 DEF Listed
  <2>5. <<s.english, t.english>> \in P
      BY <1>5, <2>3, <2>4
  <2>6. PICK x \in E : s.english = x[1] /\ s.accesses = x[2]
      BY <1>5
  <2>7. PICK y \in E : t.english = y[1] /\ t.accesses = y[2]
      BY <1>5
  <2>8. /\ k \in 1..Len(x[2]) /\ l \in 1..Len(y[2])
        /\ <<x[1], y[1]>> \in P
        /\ x[2][k].location = y[2][l].location
        /\ x[2][k].is_write \/ y[2][l].is_write
        /\ RaceOf(r, x[1], y[1], x[2][k].location,
                  x[2][k].is_write, y[2][l].is_write)
      BY <2>3, <2>5, <2>6, <2>7, Zenon
  <2>9. Defined(r, E, P)
      BY <2>8, Zenon DEF Defined
  <2> QED
      BY <1>7, <2>9
<1>9. ASSUME NEW r \in RacesByDefinition(root) PROVE r \in DetectRaces(root)
  <2>1. PICK x \in E, y \in E :
          \E k \in 1..Len(x[2]), l \in 1..Len(y[2]) :
            /\ <<x[1], y[1]>> \in P
            /\ x[2][k].location = y[2][l].location
            /\ x[2][k].is_write \/ y[2][l].is_write
            /\ RaceOf(r, x[1], y[1], x[2][k].location,
                      x[2][k].is_write, y[2][l].is_write)
    <3>1. Defined(r, E, P)
        BY <1>7
    <3> QED
        BY <3>1, Zenon DEF Defined
  <2>2. PICK k \in 1..Len(x[2]), l \in 1..Len(y[2]) :
            /\ <<x[1], y[1]>> \in P
            /\ x[2][k].location = y[2][l].location
            /\ x[2][k].is_write \/ y[2][l].is_write
            /\ RaceOf(r, x[1], y[1], x[2][k].location,
                      x[2][k].is_write, y[2][l].is_write)
      BY <2>1
  <2>3. PICK s \in I : s.english = x[1] /\ s.accesses = x[2]
      BY <1>5
  <2>4. PICK t \in I : t.english = y[1] /\ t.accesses = y[2]
      BY <1>5
  <2>5. s.english < t.english /\ s.english \in Int /\ t.english \in Int
    <3> DEFINE p == <<x[1], y[1]>>
    <3>1. p[1] < p[2]
        BY <1>4, <2>2 DEF PairsOK
    <3> QED
        BY <1>5, <2>3, <2>4, <3>1
  <2>6. InParallel(s, t) /\ s # t /\ Listed(<<s, k>>, <<t, l>>)
      BY <1>5, <2>2, <2>3, <2>4, <2>5 DEF Listed
  <2>7. PICK location : location = x[2][k].location
      OBVIOUS
  <2>8. location \in Locations
    <3>1. x[2] \in AccessLists
        BY <1>4 DEF EnglishOK
    <3> QED
        BY <2>7, <3>1 DEF Locations
  <2>9. /\ k \in 1..Len(s.accesses) /\ l \in 1..Len(t.accesses)
        /\ s.accesses[k].location = location
        /\ t.accesses[l].location = location
        /\ s.accesses[k].is_write \/ t.accesses[l].is_write
        /\ RaceOf(r, s.english, t.english, location,
                  s.accesses[k].is_write, t.accesses[l].is_write)
      BY <2>2, <2>3, <2>4, <2>7, Zenon
  <2>10. r \in RacesAtLocation(I, location)
    <3>1. Reported(r, I, location)
        BY <2>6, <2>9, Zenon DEF Reported
    <3> QED
        BY <3>1, LocationMembers
  <2> QED
      BY <1>6, <2>8, <2>10
<1> QED
    BY <1>8, <1>9

\* race.rs 8-16, the property of the detector: of every program, however large
\* and however its compositions are nested, detect_races returns exactly the
\* conflicting accesses of strands whose lowest common ancestor is a parallel
\* node.
THEOREM EveryRaceFound == DagSpec => []FindsAllRaces
<1>1. ASSUME DagInv, Len(open) = 1
      PROVE  DetectRaces(open[1]) = RacesByDefinition(open[1])
  <2>1. Len(nodes) \in Nat /\ open[1] \in NodesOn(Len(nodes))
    <3>1. open \in Seq(FramesOn(Len(nodes))) /\ 1 \in 1..Len(open)
        BY <1>1 DEF DagInv
    <3> QED
        BY <1>1, <3>1, ElementOfSeq DEF DagInv, NodesOn
  <2>2. Len(nodes) <= Len(nodes)
      BY <2>1
  <2>3. \A k \in 1..Len(nodes) :
            Walked(Counts[k], English[k], Hebrew[k], ParallelPairs[k])
      BY <1>1, AllWalked
  <2>4. Walked(CountOf(open[1], Counts), EnglishOf(open[1], English),
               HebrewOf(open[1], Hebrew), PairsOf(open[1], ParallelPairs))
      BY <1>1, <2>1, <2>2, <2>3, NodeWalked
  <2> QED
      BY <2>4, RacesAgree
<1>2. DagInv => FindsAllRaces
    BY <1>1 DEF FindsAllRaces
<1> QED
    BY <1>2, DagInvariant, PTL
==============================================================================
