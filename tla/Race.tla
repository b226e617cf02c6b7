--------------------------------- MODULE Race ---------------------------------
(***************************************************************************)
(* The determinacy-race detector of src/src/race.rs: a fork-join program   *)
(* is described as a tree of series and parallel compositions whose leaves *)
(* are strands with their accesses to memory.  Two depth-first orders of   *)
(* the strands, English and Hebrew, that differ on the children of a       *)
(* parallel node, say which strands are in parallel.                       *)
(*                                                                         *)
(* The actions are the calls of the builder (Dag, StrandBuilder), and what *)
(* detect_races returns is an operator on what has been built so far.  The *)
(* accesses of a strand are chosen at once.  A node is known by its number *)
(* in the order of completion, so that the numbers of its children are     *)
(* smaller.  Each walk of the code is a recursive function, and gives a    *)
(* set of pairs: what it notes for which strand, both counted from the     *)
(* first strand of the subtree.  A definition marked "Fault" is the one    *)
(* after it with a plausible mistake.                                      *)
(***************************************************************************)
EXTENDS Integers, Sequences

CONSTANTS
    AccessLists,  \* what a strand may do: sequences of accesses
    MaxStrands,   \* bounds of the model: strands, compositions
    MaxNested

ASSUME RaceAssumption ==
    AccessLists \subseteq Seq([location : Nat, is_write : BOOLEAN])

Strand(accesses) == [kind |-> "strand", accesses |-> accesses]
Composed(kind, children) == [kind |-> kind, children |-> children]

VARIABLES
    open,      \* the compositions under construction, the root first
    nodes,     \* the nodes that are complete
    strands,   \* the number of strands so far
    nested     \* the number of compositions so far

dagVars == <<open, nodes, strands, nested>>

DagInit == /\ open = <<Composed("series", <<>>)>>
           /\ nodes = <<>>
           /\ strands = 0
           /\ nested = 0

\* The innermost of the compositions gets one more child.
Add(frames, node) ==
    /\ nodes' = Append(nodes, node)
    /\ open' = [frames EXCEPT ![Len(frames)].children =
                                  Append(@, Len(nodes) + 1)]

AddStrand(accesses) ==
    /\ strands < MaxStrands
    /\ strands' = strands + 1
    /\ Add(open, Strand(accesses))
    /\ UNCHANGED nested

\* The closure given to series or parallel begins, and ends.
OpenSeries ==
    /\ nested < MaxNested
    /\ nested' = nested + 1
    /\ open' = Append(open, Composed("series", <<>>))
    /\ UNCHANGED <<nodes, strands>>

OpenParallel ==
    /\ nested < MaxNested
    /\ nested' = nested + 1
    /\ open' = Append(open, Composed("parallel", <<>>))
    /\ UNCHANGED <<nodes, strands>>

Close ==
    /\ Len(open) > 1
    /\ Add(SubSeq(open, 1, Len(open) - 1), open[Len(open)])
    /\ UNCHANGED <<strands, nested>>

DagNext ==
    \/ \E accesses \in AccessLists : AddStrand(accesses)
    \/ OpenSeries \/ OpenParallel \/ Close

DagSpec == DagInit /\ [][DagNext]_dagVars

-----------------------------------------------------------------------------
(* The walks.  The root is the composition that is still open at the end.  *)

\* The sum of the first i numbers, for every i.
Sums(numbers) ==
    LET sum[i \in 0..Len(numbers)] ==
            IF i = 0 THEN 0 ELSE sum[i - 1] + numbers[i]
    IN  sum

\* How many strands there are in the first i children.
Bases(node, count) ==
    Sums([i \in 1..Len(node.children) |-> count[node.children[i]]])

\* count_strands
CountOf(node, count) ==
    IF node.kind = "strand" THEN 1
    ELSE Bases(node, count)[Len(node.children)]

Counts[n \in 1..Len(nodes)] == CountOf(nodes[n], Counts)

\* assign_english: the accesses of every strand.
EnglishOf(node, walk) ==
    IF node.kind = "strand" THEN {<<0, node.accesses>>}
    ELSE LET base == Bases(node, Counts)
         IN  UNION {{<<base[i - 1] + p[1], p[2]>> : p \in walk[node.children[i]]} :
                       i \in 1..Len(node.children)}

English[n \in 1..Len(nodes)] == EnglishOf(nodes[n], English)

\* Fault: the children of a parallel node are taken from the left.
HebrewLeftToRight(node, base, i) == base[i - 1]

\* The strands visited before the i-th child: parallel children are visited
\* right to left.
HebrewBase(node, base, i) ==
    IF node.kind = "parallel" THEN base[Len(node.children)] - base[i]
    ELSE base[i - 1]

\* hebrew_walk: the place in Hebrew order of every strand.
HebrewOf(node, walk) ==
    IF node.kind = "strand" THEN {<<0, 0>>}
    ELSE LET base == Bases(node, Counts)
         IN  UNION {{<<base[i - 1] + p[1], HebrewBase(node, base, i) + p[2]>> :
                        p \in walk[node.children[i]]} :
                       i \in 1..Len(node.children)}

Hebrew[n \in 1..Len(nodes)] == HebrewOf(nodes[n], Hebrew)

-----------------------------------------------------------------------------
(* detect_races.                                                           *)

\* The StrandInfo of every strand.
Infos(root) ==
    LET english == EnglishOf(root, English)
        hebrew == HebrewOf(root, Hebrew)
    IN  {[english |-> eh[1][1], hebrew |-> eh[2][2], accesses |-> eh[1][2]] :
            eh \in {eh \in english \X hebrew : eh[1][1] = eh[2][1]}}

InParallel(a, b) == (a.english < b.english) # (a.hebrew < b.hebrew)

\* The accesses to a location; they are listed strand by strand.
Accessors(infos, location) ==
    {sk \in UNION {{s} \X (1..Len(s.accesses)) : s \in infos} :
        sk[1].accesses[sk[2]].location = location}

Listed(x, y) == \/ x[1].english < y[1].english
                \/ x[1] = y[1] /\ x[2] < y[2]

IsWrite(x) == x[1].accesses[x[2]].is_write

RacesAtLocation(infos, location) ==
    LET accessors == Accessors(infos, location)
    IN  {[location |-> location,
          strand_a |-> xy[1][1].english, strand_b |-> xy[2][1].english,
          write_a |-> IsWrite(xy[1]), write_b |-> IsWrite(xy[2])] :
            xy \in {xy \in accessors \X accessors :
                       /\ Listed(xy[1], xy[2])
                       /\ xy[1][1] # xy[2][1]
                       /\ IsWrite(xy[1]) \/ IsWrite(xy[2])
                       /\ InParallel(xy[1][1], xy[2][1])}}

Locations ==
    UNION {{accesses[k].location : k \in 1..Len(accesses)} :
              accesses \in AccessLists}

DetectRaces(root) ==
    LET infos == Infos(root)
    IN  UNION {RacesAtLocation(infos, location) : location \in Locations}

-----------------------------------------------------------------------------
(* What must hold.                                                         *)

\* The pairs of strands whose lowest common ancestor is a parallel node.
PairsOf(node, pairs) ==
    LET base == Bases(node, Counts)
        children == 1..Len(node.children)
        within(i) == {<<base[i - 1] + p[1], base[i - 1] + p[2]>> :
                         p \in pairs[node.children[i]]}
        strandsOf(i) == base[i - 1]..base[i] - 1
    IN  IF node.kind = "strand" THEN {}
        ELSE (UNION {within(i) : i \in children}) \cup
             IF node.kind = "series" THEN {}
             ELSE UNION {strandsOf(ij[1]) \X strandsOf(ij[2]) :
                            ij \in {ij \in children \X children : ij[1] < ij[2]}}

ParallelPairs[n \in 1..Len(nodes)] == PairsOf(nodes[n], ParallelPairs)

\* What each strand does, access by access.
Does(root) ==
    UNION {{<<s[1], s[2][k]>> : k \in 1..Len(s[2])} :
              s \in EnglishOf(root, English)}

RacesByDefinition(root) ==
    LET does == Does(root)
        pairs == PairsOf(root, ParallelPairs)
    IN  {[location |-> xy[1][2].location,
          strand_a |-> xy[1][1], strand_b |-> xy[2][1],
          write_a |-> xy[1][2].is_write, write_b |-> xy[2][2].is_write] :
            xy \in {xy \in does \X does :
                       /\ <<xy[1][1], xy[2][1]>> \in pairs
                       /\ xy[1][2].location = xy[2][2].location
                       /\ xy[1][2].is_write \/ xy[2][2].is_write}}

\* race.rs 8-16: of every program, with empty and nested compositions and any
\* accesses, the two orders find exactly the conflicting accesses of strands
\* whose lowest common ancestor is a parallel node.
FindsAllRaces ==
    Len(open) = 1 => DetectRaces(open[1]) = RacesByDefinition(open[1])
==============================================================================
