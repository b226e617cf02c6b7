--------------------------- MODULE SchedulerProofs ---------------------------
(***************************************************************************)
(* The scheduler runs every task once and loses no wake, for a team of any *)
(* size and any number of tasks: proofs about Scheduler.                   *)
(***************************************************************************)
EXTENDS Scheduler, SequenceTheorems, FiniteSetTheorems, TLAPS

-----------------------------------------------------------------------------
(* The inductive invariant.                                                *)

\* The tasks of a row of cells.
TasksOf(cells) == {cells[i].task : i \in DOMAIN cells}

\* Where a task can be: one kind of place for every worker.
Kinds == {"deque", "inbox", "child", "task"}
Places == Kinds \X Workers

\* The tasks in a place.  A task that is being handed over is in the child
\* register until its cell is claimed, and in the inbox from then on.
Holds(kind, w) ==
    CASE kind = "deque" -> ToSet(deque[w])
      [] kind = "inbox" -> TasksOf(inbox[w])
      [] kind = "child" -> IF pc[w] \in {"spawn_push", "inbox_claim"}
                           THEN {regs[w].child} ELSE {}
      [] kind = "task"  -> {regs[w].task} \ {0}
Held == [p \in Places |-> Holds(p[1], p[2])]

\* No two of the places share a task, and what they hold is live.
Disjoint(held, live) ==
    /\ \A p, q \in Places : p # q => held[p] \cap held[q] = {}
    /\ \A p \in Places : held[p] \subseteq live

\* No task is in two places, and none that has ended is in any.
Apart == Disjoint(Held, (1..spawned) \ ended)

\* Nor is a task in one place twice.
Injective(seq) == \A i, j \in DOMAIN seq : seq[i] = seq[j] => i = j
InjectiveTasks(cells) ==
    \A i, j \in DOMAIN cells : cells[i].task = cells[j].task => i = j
NoRepeats ==
    \A w \in Workers : Injective(deque[w]) /\ InjectiveTasks(inbox[w])

\* With the deque seen empty, and on the way to sleep or to a steal.
IdlePc == {"steal", "steal_first", "buddy"} \cup ParkPc

RegsOk(w) ==
    /\ regs[w].task # 0 <=> pc[w] \in RunPc \cup {"steal_more"}
    /\ regs[w].child # 0 <=>
          pc[w] \in {"spawn_push", "inbox_claim", "inbox_store"}
    /\ pc[w] \in {"steal_first", "steal_more"} => regs[w].victim # w
    /\ pc[w] = "steal_first" => regs[w].want > 0
    /\ pc[w] \in IdlePc => deque[w] = <<>>

\* The cell w has claimed is there, not filled, and its own.
StoreOk(w) ==
    pc[w] = "inbox_store" =>
        /\ \E i \in DOMAIN inbox[regs[w].target] :
              /\ inbox[regs[w].target][i].task = regs[w].child
              /\ ~inbox[regs[w].target][i].filled
        /\ \A v \in Workers :
              pc[v] = "inbox_store" /\ regs[v].child = regs[w].child => v = w

RegsInv == \A w \in Workers : RegsOk(w) /\ StoreOk(w)

TasksInv == Apart /\ NoRepeats /\ RegsInv

\* Who has spawned a task and not bumped the generation for it.
Announcing == {w \in Workers : pc[w] \in SpawnPc \ {"notify"}}

CountInv ==
    /\ outstanding = spawned - Cardinality(ended)
    /\ generation = spawned - NumSeeds - Cardinality(Announcing)

\* The end: once nothing is outstanding somebody declares it, and not before.
EndInv ==
    /\ outstanding = 0 => terminated \/ SomeoneAt({"declare"})
    /\ terminated \/ SomeoneAt(FinishPc \cup {"exited"}) => outstanding = 0
    /\ SomeoneAt({"declare_notify"}) => terminated

\* Between noting the generation and being woken.
Sleeping(me) == pc[me] \in {"asleep", "woken"}

WakeInv ==
    \A me \in Workers :
        /\ pc[me] \in {"park_outstanding", "park_inbox"} =>
              parkLock = me /\ ~terminated
        /\ Sleeping(me) => regs[me].gen <= generation
        /\ pc[me] = "asleep" =>
              /\ terminated => SomeoneAt({"declare_notify"})
              /\ generation # regs[me].gen => SomeoneAt({"notify"})
        /\ Sleeping(me) /\ inbox[me] # <<>> /\ generation = regs[me].gen =>
              \E p \in Workers : \/ pc[p] = "inbox_store" /\ regs[p].target = me
                                 \/ pc[p] = "signal"

IndInv == TypeOK /\ TasksInv /\ CountInv /\ EndInv /\ WakeInv

-----------------------------------------------------------------------------
(* Sequences and rows of cells.                                            *)

\* Appending adds an element, which is a new one if it was not there.
LEMMA AppendFacts ==
    ASSUME NEW S, NEW s \in Seq(S), NEW x \in S
    PROVE  /\ Append(s, x) \in Seq(S)
           /\ ToSet(Append(s, x)) = ToSet(s) \cup {x}
           /\ Injective(s) /\ x \notin ToSet(s) => Injective(Append(s, x))
<1>1. /\ Append(s, x) \in Seq(S) /\ DOMAIN s = 1..Len(s) /\ Len(s) \in Nat
      /\ Len(Append(s, x)) = Len(s) + 1
      /\ DOMAIN Append(s, x) = 1..Len(s) + 1
      /\ \A i \in 1..Len(s) : Append(s, x)[i] = s[i]
      /\ Append(s, x)[Len(s) + 1] = x
    BY AppendProperties, LenProperties
<1>2. \A i \in 1..Len(s) + 1 : i \in 1..Len(s) \/ i = Len(s) + 1
    BY <1>1
<1> QED
    BY <1>1, <1>2 DEF ToSet, Injective

\* A deque that gets a task it has not.
LEMMA Grown ==
    ASSUME NEW s \in Seq(1..MaxTasks), Injective(s),
           NEW t \in 1..MaxTasks, t \notin ToSet(s)
    PROVE  /\ ToSet(Append(s, t)) = ToSet(s) \cup {t}
           /\ Injective(Append(s, t))
BY ZenonT(40), AppendFacts

\* Taking the first element leaves the others.
LEMMA TailFacts ==
    ASSUME NEW S, NEW s \in Seq(S), s # <<>>
    PROVE  /\ Tail(s) \in Seq(S) /\ Head(s) \in S /\ Head(s) \in ToSet(s)
           /\ Injective(s) => /\ Injective(Tail(s))
                              /\ ToSet(Tail(s)) = ToSet(s) \ {Head(s)}
<1>1. /\ Tail(s) \in Seq(S) /\ Len(s) \in Nat /\ Len(s) > 0
      /\ DOMAIN s = 1..Len(s) /\ DOMAIN Tail(s) = 1..Len(s) - 1
      /\ \A i \in 1..Len(s) - 1 : Tail(s)[i] = s[i + 1]
      /\ Head(s) = s[1] /\ Head(s) \in S
    BY HeadTailProperties, LenProperties, EmptySeq
<1>2. \A i \in 1..Len(s) : i # 1 => i - 1 \in 1..Len(s) - 1 /\ i - 1 + 1 = i
    BY <1>1
<1>3. \A i \in 1..Len(s) - 1 : i + 1 \in 1..Len(s) /\ i + 1 # 1
    BY <1>1
<1>4. Head(s) \in ToSet(s)
    BY <1>1 DEF ToSet
<1>5. ASSUME Injective(s) PROVE Injective(Tail(s))
    BY <1>1, <1>3, <1>5 DEF Injective
<1>6. ASSUME Injective(s) PROVE ToSet(Tail(s)) = ToSet(s) \ {Head(s)}
  <2>1. \A i \in 1..Len(s) - 1 : Tail(s)[i] \in ToSet(s) \ {Head(s)}
      BY <1>1, <1>3, <1>6 DEF Injective, ToSet
  <2>2. ASSUME NEW i \in 1..Len(s), s[i] # Head(s)
        PROVE  s[i] \in ToSet(Tail(s))
    <3>1. i # 1 /\ i - 1 \in 1..Len(s) - 1 /\ Tail(s)[i - 1] = s[i]
        BY <1>1, <1>2, <2>2
    <3> QED
        BY <3>1, <1>1 DEF ToSet
  <2> QED
      BY <2>1, <2>2, <1>1 DEF ToSet
<1> QED
    BY <1>1, <1>4, <1>5, <1>6

\* And so does taking the last.
LEMMA FrontFacts ==
    ASSUME NEW S, NEW s \in Seq(S), s # <<>>
    PROVE  /\ Front(s) \in Seq(S) /\ Last(s) \in S /\ Last(s) \in ToSet(s)
           /\ Injective(s) => /\ Injective(Front(s))
                              /\ ToSet(Front(s)) = ToSet(s) \ {Last(s)}
<1>1. /\ Len(s) \in Nat /\ Len(s) > 0 /\ DOMAIN s = 1..Len(s)
      /\ \A i \in 1..Len(s) : s[i] \in S
    BY LenProperties, EmptySeq
<1>2. /\ Front(s) \in Seq(S) /\ DOMAIN Front(s) = 1..Len(s) - 1
      /\ \A i \in 1..Len(s) - 1 : Front(s)[i] = s[i]
  <2>1. /\ SubSeq(s, 1, Len(s) - 1) \in Seq(S)
        /\ Len(SubSeq(s, 1, Len(s) - 1)) = Len(s) - 1
        /\ \A i \in 1..Len(s) - 1 : SubSeq(s, 1, Len(s) - 1)[i] = s[i]
      BY <1>1
  <2>2. DOMAIN SubSeq(s, 1, Len(s) - 1) = 1..Len(s) - 1
      BY <2>1, LenProperties
  <2> QED
      BY <2>1, <2>2 DEF Front
<1>3. Last(s) = s[Len(s)] /\ Len(s) \in 1..Len(s)
    BY <1>1 DEF Last
<1>4. PICK n \in Nat : n = Len(s) /\ n > 0
    BY <1>1
<1>5. \A i \in 1..n : i # n => i \in 1..n - 1
    BY <1>4
<1>6. \A i \in 1..n - 1 : i \in 1..n /\ i # n
    BY <1>4
<1>7. Last(s) \in S /\ Last(s) \in ToSet(s)
    BY <1>1, <1>3 DEF ToSet
<1>8. ASSUME Injective(s) PROVE Injective(Front(s))
    BY <1>1, <1>2, <1>4, <1>6, <1>8 DEF Injective
<1>9. ASSUME Injective(s) PROVE ToSet(Front(s)) = ToSet(s) \ {Last(s)}
  <2>1. \A i \in 1..n - 1 : Front(s)[i] \in ToSet(s) \ {Last(s)}
      BY <1>1, <1>2, <1>3, <1>4, <1>6, <1>9 DEF Injective, ToSet
  <2>2. \A i \in 1..n : s[i] # Last(s) => s[i] \in ToSet(Front(s))
      BY <1>2, <1>3, <1>4, <1>5 DEF ToSet
  <2> QED
      BY <2>1, <2>2, <1>1, <1>2, <1>4 DEF ToSet
<1> QED
    BY <1>2, <1>7, <1>8, <1>9

\* The same for cells: claiming one, ...
LEMMA ClaimedFacts ==
    ASSUME NEW cells \in Seq(CellType), NEW t \in 1..MaxTasks
    PROVE  /\ Claimed(cells, t) \in Seq(CellType)
           /\ TasksOf(Claimed(cells, t)) = TasksOf(cells) \cup {t}
           /\ InjectiveTasks(cells) /\ t \notin TasksOf(cells)
                 => InjectiveTasks(Claimed(cells, t))
           /\ \A i \in DOMAIN cells : /\ i \in DOMAIN Claimed(cells, t)
                                      /\ Claimed(cells, t)[i] = cells[i]
           /\ \E i \in DOMAIN Claimed(cells, t) :
                 Claimed(cells, t)[i] = [task |-> t, filled |-> FALSE]
<1> DEFINE x == [task |-> t, filled |-> FALSE]
<1>0. x \in CellType /\ x.task = t
    BY DEF CellType
<1> HIDE DEF x
<1>1. /\ Append(cells, x) \in Seq(CellType) /\ DOMAIN cells = 1..Len(cells)
      /\ Len(cells) \in Nat
      /\ Len(Append(cells, x)) = Len(cells) + 1
      /\ DOMAIN Append(cells, x) = 1..Len(cells) + 1
      /\ \A i \in 1..Len(cells) : Append(cells, x)[i] = cells[i]
      /\ Append(cells, x)[Len(cells) + 1] = x
    BY <1>0, AppendProperties, LenProperties
<1>2. \A i \in 1..Len(cells) + 1 : i \in 1..Len(cells) \/ i = Len(cells) + 1
    BY <1>1
<1>3. Claimed(cells, t) = Append(cells, x)
    BY DEF Claimed, x
<1>4. Len(cells) + 1 \in 1..Len(cells) + 1 /\ 1..Len(cells) \subseteq 1..Len(cells) + 1
    BY <1>1
<1>5. \E i \in DOMAIN Append(cells, x) :
          Append(cells, x)[i] = [task |-> t, filled |-> FALSE]
    BY <1>1, <1>4 DEF x
<1>6. TasksOf(Append(cells, x)) = TasksOf(cells) \cup {t}
    BY <1>0, <1>1, <1>2, <1>4 DEF TasksOf
<1>7. ASSUME InjectiveTasks(cells), t \notin TasksOf(cells)
      PROVE  InjectiveTasks(Append(cells, x))
    BY <1>0, <1>1, <1>2, <1>7 DEF TasksOf, InjectiveTasks
<1> QED
    BY <1>1, <1>3, <1>4, <1>5, <1>6, <1>7

\* ... filling one, ...
LEMMA FilledFacts ==
    ASSUME NEW cells \in Seq(CellType), NEW t \in 1..MaxTasks
    PROVE  /\ Filled(cells, t) \in Seq(CellType)
           /\ Filled(cells, t) = <<>> <=> cells = <<>>
           /\ TasksOf(Filled(cells, t)) = TasksOf(cells)
           /\ InjectiveTasks(cells) => InjectiveTasks(Filled(cells, t))
           /\ \A i \in DOMAIN cells :
                 /\ i \in DOMAIN Filled(cells, t)
                 /\ cells[i].task # t => Filled(cells, t)[i] = cells[i]
<1>1. /\ DOMAIN cells = 1..Len(cells) /\ Len(cells) \in Nat
      /\ \A i \in 1..Len(cells) : cells[i] \in CellType
    BY LenProperties
<1>2. DOMAIN Filled(cells, t) = 1..Len(cells)
    BY <1>1 DEF Filled
<1>3. \A i \in 1..Len(cells) :
          /\ Filled(cells, t)[i] \in CellType
          /\ Filled(cells, t)[i].task = cells[i].task
          /\ cells[i].task # t => Filled(cells, t)[i] = cells[i]
    BY <1>1 DEF Filled, CellType
<1>4. Filled(cells, t) \in Seq(CellType)
  <2>1. Filled(cells, t) = [i \in 1..Len(cells) |->
                              IF cells[i].task = t
                              THEN [task |-> t, filled |-> TRUE]
                              ELSE cells[i]]
      BY <1>1 DEF Filled
  <2>2. Filled(cells, t) \in [1..Len(cells) -> CellType]
      BY <2>1, <1>3
  <2> QED
      BY <2>2, <1>1, SeqDef
<1>5. Filled(cells, t) = <<>> <=> cells = <<>>
  <2>1. Len(Filled(cells, t)) = Len(cells)
      BY <1>1, <1>2, <1>4, LenProperties
  <2> QED
      BY <2>1, <1>1, <1>4, EmptySeq
<1>6. TasksOf(Filled(cells, t)) = TasksOf(cells)
    BY <1>1, <1>2, <1>3 DEF TasksOf
<1>7. InjectiveTasks(cells) => InjectiveTasks(Filled(cells, t))
    BY <1>1, <1>2, <1>3 DEF InjectiveTasks
<1> QED
    BY <1>1, <1>2, <1>3, <1>4, <1>5, <1>6, <1>7

\* ... and taking the first.
LEMMA CellTailFacts ==
    ASSUME NEW cells \in Seq(CellType), cells # <<>>
    PROVE  /\ Tail(cells) \in Seq(CellType) /\ Head(cells) \in CellType
           /\ Head(cells).task \in TasksOf(cells)
           /\ InjectiveTasks(cells) =>
                 /\ InjectiveTasks(Tail(cells))
                 /\ TasksOf(Tail(cells)) = TasksOf(cells) \ {Head(cells).task}
           /\ \A i \in DOMAIN cells : cells[i] # Head(cells) =>
                 \E j \in DOMAIN Tail(cells) : Tail(cells)[j] = cells[i]
<1>1. /\ Tail(cells) \in Seq(CellType) /\ Len(cells) \in Nat /\ Len(cells) > 0
      /\ DOMAIN cells = 1..Len(cells) /\ DOMAIN Tail(cells) = 1..Len(cells) - 1
      /\ \A i \in 1..Len(cells) - 1 : Tail(cells)[i] = cells[i + 1]
      /\ Head(cells) = cells[1] /\ Head(cells) \in CellType
    BY HeadTailProperties, LenProperties, EmptySeq
<1>2. \A i \in 1..Len(cells) : i # 1 => i - 1 \in 1..Len(cells) - 1 /\ i - 1 + 1 = i
    BY <1>1
<1>3. \A i \in 1..Len(cells) - 1 : i + 1 \in 1..Len(cells) /\ i + 1 # 1
    BY <1>1
<1>4. Head(cells).task \in TasksOf(cells)
    BY <1>1 DEF TasksOf
<1>5. ASSUME InjectiveTasks(cells) PROVE InjectiveTasks(Tail(cells))
    BY <1>1, <1>3, <1>5 DEF InjectiveTasks
<1>6. ASSUME NEW i \in DOMAIN cells, i # 1
      PROVE  \E j \in DOMAIN Tail(cells) : Tail(cells)[j] = cells[i]
    BY <1>1, <1>2, <1>6
<1>7. ASSUME InjectiveTasks(cells)
      PROVE  TasksOf(Tail(cells)) = TasksOf(cells) \ {Head(cells).task}
  <2>1. \A i \in 1..Len(cells) - 1 :
            Tail(cells)[i].task \in TasksOf(cells) \ {Head(cells).task}
      BY <1>1, <1>3, <1>7 DEF InjectiveTasks, TasksOf
  <2>2. ASSUME NEW i \in 1..Len(cells), cells[i].task # Head(cells).task
        PROVE  cells[i].task \in TasksOf(Tail(cells))
      BY <1>1, <1>6, <2>2 DEF TasksOf
  <2> QED
      BY <2>1, <2>2, <1>1 DEF TasksOf
<1> QED
    BY <1>1, <1>4, <1>5, <1>6, <1>7

\* There are n numbers up to n.
LEMMA UpTo ==
    ASSUME NEW n \in Nat
    PROVE  IsFiniteSet(1..n) /\ Cardinality(1..n) = n
<1>1. /\ IsFiniteSet(1..n)
      /\ Cardinality(1..n) = IF 1 > n THEN 0 ELSE n - 1 + 1
    BY FS_Interval
<1> QED
    BY <1>1

\* A deque without repetitions is no longer than there are tasks.
LEMMA LengthBound ==
    ASSUME NEW s \in Seq(1..MaxTasks), Injective(s)
    PROVE  Len(s) \in 0..MaxTasks
<1>1. Len(s) \in Nat /\ s \in [1..Len(s) -> 1..MaxTasks] /\ DOMAIN s = 1..Len(s)
    BY LenProperties
<1>2. s \in Injection(1..Len(s), 1..MaxTasks)
    BY <1>1 DEF Injective, Injection, IsInjective
<1>3. /\ IsFiniteSet(1..MaxTasks) /\ Cardinality(1..MaxTasks) = MaxTasks
      /\ Cardinality(1..Len(s)) = Len(s)
    BY <1>1, UpTo, SchedulerAssumption
<1>4. Cardinality(1..Len(s)) <= Cardinality(1..MaxTasks)
    BY <1>2, <1>3, FS_Injection
<1> QED
    BY <1>1, <1>3, <1>4, SchedulerAssumption

\* Every set of numbers has a least one: the sets 0..x are finite, and finite
\* sets are well-founded under inclusion.
LEMMA LeastNat ==
    ASSUME NEW T \in SUBSET Nat, T # {}
    PROVE  \E x \in T : \A y \in T : x <= y
  <1> DEFINE W == {0..x : x \in T}
             R == StrictSubsetOrdering(Nat)
  <1>1. IsWellFoundedOn(R, FiniteSubsetsOf(Nat))
    BY FS_StrictSubsetOrderingWellFounded
  <1>2. W \subseteq FiniteSubsetsOf(Nat) /\ W # {}
    <2>1. \A x \in T : 0..x \subseteq Nat /\ IsFiniteSet(0..x)
      BY FS_Interval
    <2>. QED BY <2>1 DEF FiniteSubsetsOf
  <1>3. \E w \in W : \A v \in W : ~ (<<v, w>> \in R)
    <2>. HIDE DEF W, R
    <2>. QED BY <1>1, <1>2, WFMin
  <1>4. PICK x \in T : \A y \in T : <<0..y, 0..x>> \notin R
    BY <1>3
  <1>5. ASSUME NEW y \in T, y < x PROVE FALSE
    <2>1. 0..y \in SUBSET Nat /\ 0..x \in SUBSET Nat /\ 0..y \subseteq 0..x
      BY <1>5
    <2>2. x \in 0..x /\ x \notin 0..y
      BY <1>5
    <2>3. <<0..y, 0..x>> \in R
      BY <2>1, <2>2 DEF StrictSubsetOrdering
    <2>. QED BY <2>3, <1>4
  <1>. QED BY <1>5

\* A lifeline is another worker of the team.
LEMMA LifelineFacts ==
    ASSUME NEW me \in Workers, NEW bit \in LifelineBits(me)
    PROVE  bit \in 1..NumWorkers-1 /\ FlipBit(me, bit) \in Workers \ {me}
<1>1. /\ NumWorkers \in Nat /\ NumWorkers > 0 /\ me \in Nat /\ me < NumWorkers
      /\ bit \in Nat /\ bit > 0 /\ bit < NumWorkers
      /\ FlipBit(me, bit) < NumWorkers
    BY SchedulerAssumption DEF Workers, LifelineBits
<1>2. CASE (me \div bit) % 2 = 0
    BY <1>1, <1>2 DEF FlipBit, Workers
<1>3. CASE (me \div bit) % 2 # 0
  <2>1. me >= bit
    <3>1. ASSUME me < bit PROVE me \div bit = 0
        BY <1>1, <3>1
    <3> QED
        BY <3>1, <1>1, <1>3
  <2> QED
      BY <2>1, <1>1, <1>3 DEF FlipBit, Workers
<1> QED
    BY <1>2, <1>3

LEMMA NextLifelineFacts ==
    ASSUME NEW me \in Workers, MoreLifelines(me)
    PROVE  NextLifeline(me) \in LifelineBits(me)
<1> DEFINE T == {bit \in LifelineBits(me) : bit >= regs[me].bit}
<1>1. T \in SUBSET Nat /\ T # {}
    BY LifelineFacts DEF MoreLifelines
<1>2. PICK low \in T : \A other \in T : low <= other
    BY <1>1, LeastNat
<1>3. \E bit \in LifelineBits(me) :
          /\ bit >= regs[me].bit
          /\ \A other \in LifelineBits(me) :
                 other >= regs[me].bit => bit <= other
    BY <1>2
<1> QED
    BY <1>3 DEF NextLifeline

-----------------------------------------------------------------------------
(* The types.                                                              *)

LEMMA Typed ==
    ASSUME TypeOK
    PROVE  /\ \A w \in Workers :
                 /\ deque[w] \in Seq(1..MaxTasks)
                 /\ inbox[w] \in Seq(CellType)
                 /\ requests[w] \in SUBSET Workers
                 /\ pc[w] \in Labels
                 /\ regs[w] \in RegsType
                 /\ regs[w].task \in 0..MaxTasks
                 /\ regs[w].child \in 0..MaxTasks
                 /\ regs[w].target \in Workers /\ regs[w].victim \in Workers
                 /\ regs[w].want \in 0..MaxTasks
                 /\ regs[w].gen \in 0..MaxTasks
           /\ DOMAIN deque = Workers /\ DOMAIN inbox = Workers
           /\ DOMAIN pc = Workers /\ DOMAIN regs = Workers
           /\ spawned \in Nat /\ spawned <= MaxTasks /\ spawned > 0
           /\ outstanding \in Nat /\ generation \in Nat
           /\ ended \subseteq 1..spawned
BY SchedulerAssumption DEF TypeOK, RegsType

LEMMA NoRegsFacts ==
    /\ NoRegs \in RegsType /\ 0 \in Workers
    /\ NoRegs.task = 0 /\ NoRegs.child = 0 /\ NoRegs.bit = 0 /\ NoRegs.want = 0
BY SchedulerAssumption DEF NoRegs, RegsType, Workers

\* The workers are finitely many.
LEMMA WorkersFinite ==
    IsFiniteSet(Workers) /\ \A S \in SUBSET Workers : IsFiniteSet(S)
<1>1. IsFiniteSet(Workers)
    BY FS_Interval, SchedulerAssumption DEF Workers
<1> QED
    BY <1>1, FS_Subset

\* The counts: a task that has not ended is outstanding, and when none is
\* outstanding all have ended.
LEMMA CountFacts ==
    ASSUME TypeOK, CountInv
    PROVE  /\ IsFiniteSet(ended) /\ Cardinality(ended) \in Nat
           /\ Cardinality(Announcing) \in Nat
           /\ Cardinality(ended) <= spawned
           /\ outstanding = 0 <=> ended = 1..spawned
           /\ \A t \in (1..spawned) \ ended :
                 /\ outstanding > 0
                 /\ Cardinality(ended \cup {t}) = Cardinality(ended) + 1
<1>1. /\ IsFiniteSet(1..spawned) /\ Cardinality(1..spawned) = spawned
      /\ spawned \in Nat /\ ended \subseteq 1..spawned
    BY Typed, UpTo
<1>2. /\ IsFiniteSet(ended) /\ Cardinality(ended) <= spawned
      /\ Cardinality(ended) = spawned <=> ended = 1..spawned
    BY <1>1, FS_Subset
<1>3. Cardinality(ended) \in Nat
    BY <1>2, FS_CardinalityType
<1>4. outstanding = spawned - Cardinality(ended)
    BY DEF CountInv
<1>5. Announcing \in SUBSET Workers
    BY DEF Announcing
<1>6. Cardinality(Announcing) \in Nat
    BY <1>5, WorkersFinite, FS_CardinalityType
<1>7. outstanding = 0 <=> ended = 1..spawned
    BY <1>1, <1>2, <1>3, <1>4
<1>8. ASSUME NEW t \in (1..spawned) \ ended
      PROVE  /\ outstanding > 0
             /\ Cardinality(ended \cup {t}) = Cardinality(ended) + 1
  <2>1. ended # 1..spawned /\ outstanding # 0 /\ outstanding \in Nat
      BY <1>7, Typed
  <2>2. Cardinality(ended \cup {t}) = Cardinality(ended) + 1
      BY <1>2, FS_AddElement
  <2> QED
      BY <2>1, <2>2
<1> QED
    BY <1>2, <1>3, <1>6, <1>7, <1>8

\* What a place holds, in this state and in the next.
LEMMA HeldDeque ==
    \A w \in Workers : /\ Held[<<"deque", w>>] = ToSet(deque[w])
                       /\ Held'[<<"deque", w>>] = ToSet(deque'[w])
BY DEF Held, Holds, Places, Kinds

LEMMA HeldInbox ==
    \A w \in Workers : /\ Held[<<"inbox", w>>] = TasksOf(inbox[w])
                       /\ Held'[<<"inbox", w>>] = TasksOf(inbox'[w])
BY DEF Held, Holds, Places, Kinds

Carries(label) == label \in {"spawn_push", "inbox_claim"}

LEMMA HeldChild ==
    \A w \in Workers :
        /\ Carries(pc[w]) => Held[<<"child", w>>] = {regs[w].child}
        /\ ~Carries(pc[w]) => Held[<<"child", w>>] = {}
        /\ Carries(pc'[w]) => Held'[<<"child", w>>] = {regs'[w].child}
        /\ ~Carries(pc'[w]) => Held'[<<"child", w>>] = {}
BY DEF Held, Holds, Places, Kinds, Carries

LEMMA HeldTask ==
    \A w \in Workers : /\ Held[<<"task", w>>] = {regs[w].task} \ {0}
                       /\ Held'[<<"task", w>>] = {regs'[w].task} \ {0}
BY DEF Held, Holds, Places, Kinds

LEMMA APlace ==
    \A w \in Workers : /\ <<"deque", w>> \in Places /\ <<"inbox", w>> \in Places
                       /\ <<"child", w>> \in Places /\ <<"task", w>> \in Places
BY DEF Places, Kinds

LEMMA EveryPlace ==
    \A r \in Places : \E w \in Workers : \/ r = <<"deque", w>>
                                         \/ r = <<"inbox", w>>
                                         \/ r = <<"child", w>>
                                         \/ r = <<"task", w>>
BY DEF Places, Kinds

\* What is held is live; so are the task that runs and the one handed over.
LEMMA LiveFacts ==
    ASSUME TypeOK, Apart, RegsInv, NEW w \in Workers
    PROVE  /\ ToSet(deque[w]) \subseteq (1..spawned) \ ended
           /\ TasksOf(inbox[w]) \subseteq (1..spawned) \ ended
           /\ pc[w] \in RunPc \cup {"steal_more"} =>
                 /\ regs[w].task \in (1..spawned) \ ended
                 /\ Held[<<"task", w>>] = {regs[w].task}
           /\ pc[w] \in {"spawn_push", "inbox_claim", "inbox_store"} =>
                 regs[w].child \in (1..spawned) \ ended
           /\ (1..spawned) \ ended \subseteq 1..MaxTasks
<1>0. (1..spawned) \ ended \subseteq 1..MaxTasks
    BY Typed, SchedulerAssumption
<1>1. \A p \in Places : Held[p] \subseteq (1..spawned) \ ended
    BY DEF Apart, Disjoint
<1>2. ToSet(deque[w]) \subseteq (1..spawned) \ ended
    BY <1>1, APlace, HeldDeque
<1>3. \A v \in Workers : TasksOf(inbox[v]) \subseteq (1..spawned) \ ended
    BY <1>1, APlace, HeldInbox
<1>4. ASSUME pc[w] \in RunPc \cup {"steal_more"}
      PROVE  /\ regs[w].task \in (1..spawned) \ ended
             /\ Held[<<"task", w>>] = {regs[w].task}
  <2>1. regs[w].task # 0
      BY <1>4 DEF RegsInv, RegsOk, StoreOk
  <2>2. Held[<<"task", w>>] = {regs[w].task}
      BY <2>1, HeldTask
  <2> QED
      BY <2>2, <1>1, APlace
<1>5. ASSUME Carries(pc[w])
      PROVE  regs[w].child \in (1..spawned) \ ended
    BY <1>1, <1>5, APlace, HeldChild
<1>6. ASSUME pc[w] = "inbox_store"
      PROVE  regs[w].child \in (1..spawned) \ ended
  <2>1. PICK i \in DOMAIN inbox[regs[w].target] :
            inbox[regs[w].target][i].task = regs[w].child
      BY <1>6 DEF RegsInv, RegsOk, StoreOk
  <2>2. /\ regs[w].target \in Workers
        /\ regs[w].child \in TasksOf(inbox[regs[w].target])
      BY <2>1, Typed DEF TasksOf
  <2> QED
      BY <2>2, <1>3
<1> QED
    BY <1>0, <1>2, <1>3, <1>4, <1>5, <1>6 DEF Carries

\* A thief asks for at least one task, and for no more than there are.
LEMMA WantFacts ==
    ASSUME TypeOK, NoRepeats, NEW v \in Workers
    PROVE  /\ (Len(deque[v]) + 1) \div 2 \in 0..MaxTasks
           /\ deque[v] # <<>> => (Len(deque[v]) + 1) \div 2 > 0
<1>1. deque[v] \in Seq(1..MaxTasks) /\ Injective(deque[v])
    BY Typed DEF NoRepeats
<1>2. Len(deque[v]) \in 0..MaxTasks
    BY <1>1, LengthBound
<1>3. deque[v] # <<>> => Len(deque[v]) # 0
    BY <1>1, EmptySeq
<1>4. \A n \in 0..MaxTasks : /\ (n + 1) \div 2 \in 0..MaxTasks
                             /\ n # 0 => (n + 1) \div 2 > 0
    BY SchedulerAssumption
<1> QED
    BY <1>2, <1>3, <1>4

\* What is written to a field of the registers.
LEMMA FieldWrites ==
    ASSUME NEW q \in RegsType
    PROVE  /\ \A x \in 0..MaxTasks : /\ [q EXCEPT !.task = x] \in RegsType
                                     /\ [q EXCEPT !.child = x] \in RegsType
                                     /\ [q EXCEPT !.want = x] \in RegsType
                                     /\ [q EXCEPT !.gen = x] \in RegsType
           /\ \A w \in Workers : /\ [q EXCEPT !.target = w] \in RegsType
                                 /\ [q EXCEPT !.victim = w] \in RegsType
           /\ \A x \in 0..NumWorkers : [q EXCEPT !.bit = x] \in RegsType
           /\ \A b \in BOOLEAN : /\ [q EXCEPT !.did = b] \in RegsType
                                 /\ [q EXCEPT !.leave = b] \in RegsType
<1>1. \A x \in 0..MaxTasks : [q EXCEPT !.task = x] \in RegsType
    BY DEF RegsType
<1>2. \A x \in 0..MaxTasks : [q EXCEPT !.child = x] \in RegsType
    BY DEF RegsType
<1>3. \A x \in 0..MaxTasks : [q EXCEPT !.want = x] \in RegsType
    BY DEF RegsType
<1>4. \A x \in 0..MaxTasks : [q EXCEPT !.gen = x] \in RegsType
    BY DEF RegsType
<1>5. \A w \in Workers : [q EXCEPT !.target = w] \in RegsType
    BY DEF RegsType
<1>6. \A w \in Workers : [q EXCEPT !.victim = w] \in RegsType
    BY DEF RegsType
<1>7. \A x \in 0..NumWorkers : [q EXCEPT !.bit = x] \in RegsType
    BY DEF RegsType
<1>8. \A b \in BOOLEAN : [q EXCEPT !.did = b] \in RegsType
    BY DEF RegsType
<1>9. \A b \in BOOLEAN : [q EXCEPT !.leave = b] \in RegsType
    BY DEF RegsType
<1> QED
    BY <1>1, <1>2, <1>3, <1>4, <1>5, <1>6, <1>7, <1>8, <1>9

LEMMA RegWrites ==
    ASSUME NEW r \in [Workers -> RegsType], NEW me \in Workers
    PROVE  /\ \A x \in 0..MaxTasks :
                 /\ [r EXCEPT ![me].task = x] \in [Workers -> RegsType]
                 /\ [r EXCEPT ![me].child = x] \in [Workers -> RegsType]
                 /\ [r EXCEPT ![me].want = x] \in [Workers -> RegsType]
                 /\ [r EXCEPT ![me].gen = x] \in [Workers -> RegsType]
           /\ \A w \in Workers :
                 /\ [r EXCEPT ![me].target = w] \in [Workers -> RegsType]
                 /\ [r EXCEPT ![me].victim = w] \in [Workers -> RegsType]
           /\ \A x \in 0..NumWorkers :
                 [r EXCEPT ![me].bit = x] \in [Workers -> RegsType]
           /\ \A b \in BOOLEAN :
                 /\ [r EXCEPT ![me].did = b] \in [Workers -> RegsType]
                 /\ [r EXCEPT ![me].leave = b] \in [Workers -> RegsType]
           /\ \A q \in RegsType : [r EXCEPT ![me] = q] \in [Workers -> RegsType]
<1>1. r[me] \in RegsType
    OBVIOUS
<1>2. \A q \in RegsType : [r EXCEPT ![me] = q] \in [Workers -> RegsType]
    OBVIOUS
<1> QED
    BY <1>1, <1>2, FieldWrites

\* What a thief notes down.
LEMMA StealRegs ==
    ASSUME NEW r \in [Workers -> RegsType], NEW me \in Workers,
           NEW v \in Workers, NEW bit \in 0..NumWorkers,
           NEW want \in 0..MaxTasks, NEW task \in 0..MaxTasks
    PROVE  /\ [r EXCEPT ![me].victim = v, ![me].bit = bit, ![me].want = want]
                \in [Workers -> RegsType]
           /\ [r EXCEPT ![me].task = task, ![me].want = want]
                \in [Workers -> RegsType]
<1>1. PICK r1 : r1 = [r EXCEPT ![me].victim = v]
    OBVIOUS
<1>2. PICK r2 : r2 = [r1 EXCEPT ![me].bit = bit]
    OBVIOUS
<1>3. PICK r3 : r3 = [r EXCEPT ![me].task = task]
    OBVIOUS
<1>4. r1 \in [Workers -> RegsType] /\ r3 \in [Workers -> RegsType]
    BY <1>1, <1>3, RegWrites
<1>5. r2 \in [Workers -> RegsType]
    BY <1>2, <1>4, RegWrites
<1>6. /\ [r2 EXCEPT ![me].want = want] \in [Workers -> RegsType]
      /\ [r3 EXCEPT ![me].want = want] \in [Workers -> RegsType]
    BY <1>4, <1>5, RegWrites
<1> QED
    BY <1>1, <1>2, <1>3, <1>6

\* ... and what it leaves alone.
LEMMA StealNotes ==
    ASSUME TypeOK, NEW me \in Workers,
           StealFirstFails(me) \/ \E v, bit : Estimate(me, v, bit)
    PROVE  /\ \A w \in Workers \ {me} : regs'[w] = regs[w]
           /\ \A w \in Workers :
                 /\ regs'[w].task = regs[w].task
                 /\ regs'[w].child = regs[w].child
                 /\ regs'[w].target = regs[w].target
                 /\ regs'[w].gen = regs[w].gen
           /\ \A v, bit : Estimate(me, v, bit) =>
                 /\ regs'[me].victim = v
                 /\ regs'[me].want = (Len(deque[v]) + 1) \div 2
<1>1. PICK v, bit, want :
          /\ \/ regs' = [regs EXCEPT ![me].victim = v, ![me].bit = bit,
                                     ![me].want = want]
             \/ regs' = [regs EXCEPT ![me].victim = v, ![me].want = want]
  <2>1. CASE StealFirstFails(me)
    <3>1. regs' = [regs EXCEPT ![me].victim = 0, ![me].want = 0]
        BY <2>1 DEF StealFirstFails
    <3> QED
        BY <3>1
  <2>2. CASE \E v, bit : Estimate(me, v, bit)
    <3>1. PICK v, bit : Estimate(me, v, bit)
        BY <2>2
    <3>2. PICK want : want = (Len(deque[v]) + 1) \div 2
        OBVIOUS
    <3>3. regs' = [regs EXCEPT ![me].victim = v, ![me].bit = bit,
                               ![me].want = want]
        BY <3>1, <3>2 DEF Estimate
    <3> QED
        BY <3>3
  <2> QED
      BY <2>1, <2>2
<1>2. PICK r1 : r1 = [regs EXCEPT ![me].victim = v]
    OBVIOUS
<1>3. PICK r2 : r2 = [r1 EXCEPT ![me].bit = bit]
    OBVIOUS
<1>4. PICK f \in {r1, r2} : regs' = [f EXCEPT ![me].want = want]
    BY <1>1, <1>2, <1>3
<1>5. \A w \in Workers :
          DOMAIN regs[w] = {"task", "child", "target", "victim", "want",
                            "bit", "did", "leave", "gen"}
    BY Typed DEF RegsType
<1> DEFINE Same(a, b) == /\ a.task = b.task /\ a.child = b.child
                         /\ a.target = b.target /\ a.gen = b.gen
<1>6. /\ DOMAIN r1 = Workers /\ DOMAIN r1[me] = DOMAIN regs[me]
      /\ r1[me].victim = v /\ Same(r1[me], regs[me])
      /\ \A w \in Workers \ {me} : r1[w] = regs[w]
    BY <1>2, <1>5, Typed
<1>7. /\ DOMAIN r2 = Workers /\ DOMAIN r2[me] = DOMAIN regs[me]
      /\ r2[me].victim = v /\ Same(r2[me], r1[me])
      /\ \A w \in Workers \ {me} : r2[w] = r1[w]
    BY <1>3, <1>5, <1>6
<1>8. /\ DOMAIN f = Workers /\ DOMAIN f[me] = DOMAIN regs[me]
      /\ f[me].victim = v /\ Same(f[me], regs[me])
      /\ \A w \in Workers \ {me} : f[w] = regs[w]
    BY <1>4, <1>6, <1>7
<1>9. /\ regs'[me].victim = v /\ regs'[me].want = want /\ Same(regs'[me], f[me])
      /\ \A w \in Workers \ {me} : regs'[w] = f[w]
    BY <1>4, <1>5, <1>8
<1>10. ASSUME NEW v0, NEW bit0, Estimate(me, v0, bit0)
       PROVE  /\ regs'[me].victim = v0
              /\ regs'[me].want = (Len(deque[v0]) + 1) \div 2
  <2>1. PICK n : n = (Len(deque[v0]) + 1) \div 2
      OBVIOUS
  <2>2. regs' = [regs EXCEPT ![me].victim = v0, ![me].bit = bit0,
                             ![me].want = n]
      BY <1>10, <2>1 DEF Estimate
  <2>3. PICK q1 : q1 = [regs EXCEPT ![me].victim = v0]
      OBVIOUS
  <2>4. PICK q2 : q2 = [q1 EXCEPT ![me].bit = bit0]
      OBVIOUS
  <2>5. regs' = [q2 EXCEPT ![me].want = n]
      BY <2>2, <2>3, <2>4
  <2>6. DOMAIN q1 = Workers /\ DOMAIN q1[me] = DOMAIN regs[me]
        /\ q1[me].victim = v0
      BY <2>3, <1>5, Typed
  <2>7. DOMAIN q2 = Workers /\ DOMAIN q2[me] = DOMAIN regs[me]
        /\ q2[me].victim = v0
      BY <2>4, <2>6, <1>5
  <2>8. regs'[me].victim = v0 /\ regs'[me].want = n
      BY <2>5, <2>7, <1>5
  <2> QED
      BY <2>1, <2>8
<1> QED
    BY <1>8, <1>9, <1>10

\* Every step keeps the types.
LEMMA TypeStep ==
    ASSUME IndInv, Next
    PROVE  TypeOK'
<1>0. /\ TypeOK /\ CountInv /\ RegsInv /\ Apart /\ NoRepeats /\ EndInv
    BY DEF IndInv, TasksInv
<1>t. /\ 0 \in Workers /\ Nobody \notin Workers /\ MaxTasks \in Nat
      /\ NumSeeds <= spawned /\ NumSeeds \in Nat /\ NumSeeds > 0
      /\ NumWorkers \in Nat /\ NumWorkers > 0 /\ 1 \in 0..NumWorkers
      /\ 1..MaxTasks \subseteq 0..MaxTasks /\ 0 \in 0..MaxTasks
    BY <1>0, SchedulerAssumption DEF Workers, Nobody, TypeOK
<1>r. regs \in [Workers -> RegsType]
    BY <1>0 DEF TypeOK
<1> USE DEF Labels, RunPc, SpawnPc, StealPc, FinishPc, ParkPc, Goto, SetReg,
            GotoFresh, parkVars, queueVars, historyVars
<1>1. ASSUME NEW me \in Workers, DrainInbox(me)
      PROVE  TypeOK'
  <2>1. inbox[me] # <<>>
      BY <1>1 DEF DrainInbox, Ready
  <2>2. /\ Append(deque[me], Head(inbox[me]).task) \in Seq(1..MaxTasks)
        /\ Tail(inbox[me]) \in Seq(CellType)
      BY <2>1, <1>0, Typed, CellTailFacts, AppendFacts DEF CellType
  <2> QED
      BY <1>1, <1>0, <1>t, Typed, <2>1, <2>2 DEF DrainInbox, TypeOK
<1>2. ASSUME NEW me \in Workers, DrainDone(me)
      PROVE  TypeOK'
    BY <1>2, <1>0, <1>t, Typed DEF DrainDone, TypeOK
<1>3. ASSUME NEW me \in Workers, PopTask(me)
      PROVE  TypeOK'
  <2>1. Front(deque[me]) \in Seq(1..MaxTasks) /\ Last(deque[me]) \in 0..MaxTasks
      BY <1>3, <1>0, <1>t, Typed, FrontFacts DEF PopTask
  <2>r. regs' \in [Workers -> RegsType]
    <3>1. PICK r : r = [regs EXCEPT ![me].task = Last(deque[me])]
        OBVIOUS
    <3>2. regs' = [r EXCEPT ![me].did = TRUE]
        BY <1>3, <3>1 DEF PopTask
    <3>3. r \in [Workers -> RegsType]
        BY <1>r, <2>1, <3>1, RegWrites
    <3> QED
        BY <3>2, <3>3, RegWrites
  <2> QED
      BY <1>3, <1>0, <1>t, Typed, <2>1, <2>r DEF PopTask, TypeOK
<1>4. ASSUME NEW me \in Workers, PopNone(me)
      PROVE  TypeOK'
  <2>r. regs' \in [Workers -> RegsType]
    <3>1. regs' = [regs EXCEPT ![me] = NoRegs]
        BY <1>4 DEF PopNone
    <3> QED
        BY <1>r, <3>1, RegWrites, NoRegsFacts
  <2> QED
      BY <1>4, <1>0, <1>t, Typed, <2>r DEF PopNone, TypeOK
<1>5. ASSUME NEW me \in Workers, SpawnCount(me)
      PROVE  TypeOK'
  <2>1. /\ outstanding + 1 \in 0..MaxTasks /\ spawned + 1 \in 0..MaxTasks
        /\ spawned + 1 \in NumSeeds..MaxTasks
    <3>1. outstanding <= spawned /\ spawned < MaxTasks
        BY <1>5, <1>0, Typed, CountFacts DEF SpawnCount, MaySpawn, CountInv
    <3> QED
        BY <3>1, <1>0, <1>t, Typed
  <2>2. 1..spawned \subseteq 1..spawned + 1
      BY <1>0, Typed
  <2>r. regs' \in [Workers -> RegsType]
    <3>1. regs' = [regs EXCEPT ![me].child = spawned + 1]
        BY <1>5 DEF SpawnCount
    <3> QED
        BY <1>r, <3>1, RegWrites, <2>1
  <2> QED
      BY <1>5, <1>0, <1>t, Typed, <2>1, <2>2, <2>r DEF SpawnCount, MaySpawn, TypeOK
<1>6. ASSUME NEW me \in Workers, SpawnPush(me)
      PROVE  TypeOK'
  <2>0. regs[me].child \in 1..MaxTasks
      BY <1>6, <1>0, LiveFacts DEF SpawnPush
  <2>1. Append(deque[me], regs[me].child) \in Seq(1..MaxTasks)
      BY <2>0, <1>0, Typed, AppendFacts
  <2>r. regs' \in [Workers -> RegsType]
    <3>1. regs' = [regs EXCEPT ![me].child = 0]
        BY <1>6 DEF SpawnPush
    <3> QED
        BY <1>r, <3>1, RegWrites, <1>t
  <2> QED
      BY <1>6, <1>0, <1>t, Typed, <2>r, <2>1 DEF SpawnPush, TypeOK
<1>7. ASSUME NEW me \in Workers, SpawnClear(me)
      PROVE  TypeOK'
    BY <1>7, <1>0, <1>t, Typed DEF SpawnClear, TypeOK
<1>8. ASSUME NEW me \in Workers, NEW target \in Workers, SpawnAtCount(me, target)
      PROVE  TypeOK'
  <2>1. /\ outstanding + 1 \in 0..MaxTasks /\ spawned + 1 \in 0..MaxTasks
        /\ spawned + 1 \in NumSeeds..MaxTasks
    <3>1. outstanding <= spawned /\ spawned < MaxTasks
        BY <1>8, <1>0, Typed, CountFacts DEF SpawnAtCount, SpawnAt, MaySpawn,
           CountInv
    <3> QED
        BY <3>1, <1>0, <1>t, Typed
  <2>2. 1..spawned \subseteq 1..spawned + 1
      BY <1>0, Typed
  <2>r. regs' \in [Workers -> RegsType]
    <3>1. PICK n : n = spawned + 1
        OBVIOUS
    <3>2. PICK r : r = [regs EXCEPT ![me].child = n]
        OBVIOUS
    <3>3. regs' = [r EXCEPT ![me].target = target]
        BY <1>8, <3>1, <3>2 DEF SpawnAtCount, SpawnAt
    <3>4. n \in 0..MaxTasks /\ regs \in [Workers -> RegsType]
        BY <1>0, <2>1, <3>1 DEF TypeOK
    <3>5. r \in [Workers -> RegsType]
        BY <3>2, <3>4, RegWrites
    <3> QED
        BY <3>3, <3>5, RegWrites
  <2> QED
      BY <1>8, <1>0, <1>t, Typed, <2>1, <2>2, <2>r DEF SpawnAtCount, SpawnAt,
         MaySpawn, TypeOK
<1>9. ASSUME NEW me \in Workers, InboxClaim(me)
      PROVE  TypeOK'
  <2>0. regs[me].child \in 1..MaxTasks /\ regs[me].target \in Workers
      BY <1>9, <1>0, Typed, LiveFacts DEF InboxClaim
  <2>1. Claimed(inbox[regs[me].target], regs[me].child) \in Seq(CellType)
      BY <2>0, <1>0, Typed, ClaimedFacts
  <2> QED
      BY <1>9, <1>0, <1>t, Typed, <2>1 DEF InboxClaim, TypeOK
<1>10. ASSUME NEW me \in Workers, InboxStore(me)
      PROVE  TypeOK'
  <2>0. regs[me].child \in 1..MaxTasks /\ regs[me].target \in Workers
      BY <1>10, <1>0, Typed, LiveFacts DEF InboxStore
  <2>1. Filled(inbox[regs[me].target], regs[me].child) \in Seq(CellType)
      BY <2>0, <1>0, Typed, FilledFacts
  <2>r. regs' \in [Workers -> RegsType]
    <3>1. PICK r : r = [regs EXCEPT ![me].child = 0]
        OBVIOUS
    <3>2. regs' = [r EXCEPT ![me].target = 0]
        BY <1>10, <3>1 DEF InboxStore
    <3>3. r \in [Workers -> RegsType]
        BY <1>r, <1>t, <3>1, RegWrites
    <3> QED
        BY <1>t, <3>2, <3>3, RegWrites
  <2> QED
      BY <1>10, <1>0, <1>t, Typed, <2>1, <2>r DEF InboxStore, TypeOK
<1>11. ASSUME NEW me \in Workers, SignalWork(me)
      PROVE  TypeOK'
  <2>1. generation + 1 \in 0..MaxTasks
    <3>1. generation <= spawned - NumSeeds
        BY <1>0, <1>t, Typed, CountFacts DEF CountInv
    <3> QED
        BY <3>1, <1>0, <1>t, Typed
  <2> QED
      BY <1>11, <1>0, <1>t, Typed, <2>1 DEF SignalWork, TypeOK
<1>12. ASSUME NEW me \in Workers, SignalNotify(me)
      PROVE  TypeOK'
    BY <1>12, <1>0, <1>t, Typed DEF SignalNotify, WakeAll, TypeOK
<1>13. ASSUME NEW me \in Workers, TaskPanics(me)
      PROVE  TypeOK'
    BY <1>13, <1>0, <1>t, Typed DEF TaskPanics, TypeOK
<1>14. ASSUME NEW me \in Workers, FinishTask(me)
      PROVE  TypeOK'
  <2>1. regs[me].task \in (1..spawned) \ ended
      BY <1>14, <1>0, LiveFacts DEF FinishTask
  <2>2. outstanding - 1 \in 0..MaxTasks
    <3>1. outstanding > 0 /\ outstanding \in 0..MaxTasks
        BY <2>1, <1>0, CountFacts DEF TypeOK
    <3> QED
        BY <3>1, <1>t
  <2>r. regs' \in [Workers -> RegsType]
    <3>1. regs' = [regs EXCEPT ![me].task = 0]
        BY <1>14 DEF FinishTask
    <3> QED
        BY <1>r, <3>1, RegWrites, <1>t
  <2> QED
      BY <1>14, <1>0, <1>t, Typed, <2>r, <2>1, <2>2 DEF FinishTask, AfterRun, TypeOK
<1>15. ASSUME NEW me \in Workers, Declare(me)
      PROVE  TypeOK'
    BY <1>15, <1>0, <1>t, Typed DEF Declare, TypeOK
<1>16. ASSUME NEW me \in Workers, DeclareNotify(me)
      PROVE  TypeOK'
  <2>r. regs' \in [Workers -> RegsType]
    <3>1. regs' = [regs EXCEPT ![me].leave = FALSE]
        BY <1>16 DEF DeclareNotify
    <3> QED
        BY <1>r, <3>1, RegWrites
  <2> QED
      BY <1>16, <1>0, <1>t, Typed, <2>r DEF DeclareNotify, WakeAll, AfterRun, TypeOK
<1>17. ASSUME NEW me \in Workers, NEW v \in Workers, StealRandom(me, v)
      PROVE  TypeOK'
  <2>2. (Len(deque[v]) + 1) \div 2 \in 0..MaxTasks
      BY <1>0, WantFacts
  <2>r. regs' \in [Workers -> RegsType]
    <3>1. regs' = [regs EXCEPT ![me].victim = v, ![me].bit = 1,
                                ![me].want = (Len(deque[v]) + 1) \div 2]
        BY <1>17 DEF StealRandom, Estimate
    <3> QED
        BY <3>1, <1>0, <1>t, <2>2, StealRegs DEF TypeOK
  <2> QED
      BY <1>17, <1>0, <1>t, Typed, <2>2, <2>r DEF StealRandom, Estimate, TypeOK
<1>18. ASSUME NEW me \in Workers, StealNoLuck(me)
      PROVE  TypeOK'
  <2>r. regs' \in [Workers -> RegsType]
    <3>1. regs' = [regs EXCEPT ![me].bit = 1]
        BY <1>18 DEF StealNoLuck
    <3> QED
        BY <1>r, <3>1, RegWrites, <1>t
  <2> QED
      BY <1>18, <1>0, <1>t, Typed, <2>r DEF StealNoLuck, TypeOK
<1>19. ASSUME NEW me \in Workers, StealBuddy(me)
      PROVE  TypeOK'
  <2> DEFINE v == FlipBit(me, NextLifeline(me))
  <2>0. v \in Workers
      BY <1>19, NextLifelineFacts, LifelineFacts DEF StealBuddy
  <2>2. (Len(deque[v]) + 1) \div 2 \in 0..MaxTasks
      BY <2>0, <1>0, WantFacts
  <2>3. NextLifeline(me) + 1 \in 0..NumWorkers
    <3>1. NextLifeline(me) \in 1..NumWorkers-1
        BY <1>19, NextLifelineFacts, LifelineFacts DEF StealBuddy
    <3> QED
        BY <3>1, <1>t
  <2>r. regs' \in [Workers -> RegsType]
    <3>1. regs' = [regs EXCEPT ![me].victim = v, ![me].bit = NextLifeline(me) + 1,
                                ![me].want = (Len(deque[v]) + 1) \div 2]
        BY <1>19 DEF StealBuddy, Estimate
    <3> QED
        BY <3>1, <1>0, <1>t, <2>0, <2>2, <2>3, StealRegs DEF TypeOK
  <2> HIDE DEF v
  <2> QED
      BY <1>19, <1>0, <1>t, Typed, <2>0, <2>2, <2>3, <2>r DEF StealBuddy,
         Estimate, TypeOK
<1>20. ASSUME NEW me \in Workers, StealBuddyEmpty(me)
      PROVE  TypeOK'
  <2>1. NextLifeline(me) + 1 \in 0..NumWorkers
    <3>1. NextLifeline(me) \in 1..NumWorkers-1
        BY <1>20, NextLifelineFacts, LifelineFacts DEF StealBuddyEmpty
    <3> QED
        BY <3>1, <1>t
  <2>r. regs' \in [Workers -> RegsType]
    <3>1. regs' = [regs EXCEPT ![me].bit = NextLifeline(me) + 1]
        BY <1>20 DEF StealBuddyEmpty
    <3> QED
        BY <1>r, <3>1, RegWrites, <2>1
  <2> QED
      BY <1>20, <1>0, <1>t, Typed, <2>r DEF StealBuddyEmpty, TypeOK
<1>21. ASSUME NEW me \in Workers, StealGiveUp(me)
      PROVE  TypeOK'
  <2>r. regs' \in [Workers -> RegsType]
    <3>1. regs' = [regs EXCEPT ![me] = NoRegs]
        BY <1>21 DEF StealGiveUp
    <3> QED
        BY <1>r, <3>1, RegWrites, NoRegsFacts
  <2> QED
      BY <1>21, <1>0, <1>t, Typed, <2>r DEF StealGiveUp, TypeOK
<1>22. ASSUME NEW me \in Workers, StealFirst(me)
      PROVE  TypeOK'
  <2>1. /\ regs[me].victim \in Workers
        /\ Tail(deque[regs[me].victim]) \in Seq(1..MaxTasks)
        /\ Head(deque[regs[me].victim]) \in 0..MaxTasks
    <3>1. /\ regs[me].victim \in Workers
          /\ deque[regs[me].victim] \in Seq(1..MaxTasks)
          /\ deque[regs[me].victim] # <<>>
        BY <1>22, <1>0, Typed DEF StealFirst
    <3> QED
        BY <3>1, <1>t, TailFacts
  <2>2. regs[me].want - 1 \in 0..MaxTasks
    <3>1. regs[me].want > 0 /\ regs[me].want \in 0..MaxTasks
        BY <1>22, <1>0, Typed DEF StealFirst, RegsInv, RegsOk, StoreOk
    <3> QED
        BY <3>1, <1>t
  <2>r. regs' \in [Workers -> RegsType]
    <3>1. regs' = [regs EXCEPT ![me].task = Head(deque[regs[me].victim]),
                                ![me].want = regs[me].want - 1]
        BY <1>22 DEF StealFirst
    <3> QED
        BY <3>1, <1>0, <1>t, <2>1, <2>2, StealRegs DEF TypeOK
  <2> QED
      BY <1>22, <1>0, <1>t, Typed, <2>1, <2>2, <2>r DEF StealFirst, TypeOK
<1>23. ASSUME NEW me \in Workers, StealFirstFails(me)
      PROVE  TypeOK'
  <2>r. regs' \in [Workers -> RegsType]
    <3>1. PICK r : r = [regs EXCEPT ![me].victim = 0]
        OBVIOUS
    <3>2. regs' = [r EXCEPT ![me].want = 0]
        BY <1>23, <3>1 DEF StealFirstFails
    <3>3. r \in [Workers -> RegsType]
        BY <3>1, <1>r, <1>t, RegWrites
    <3> QED
        BY <3>2, <3>3, <1>t, RegWrites
  <2> QED
      BY <1>23, <1>0, <1>t, Typed, <2>r DEF StealFirstFails, TypeOK
<1>24. ASSUME NEW me \in Workers, StealMore(me)
      PROVE  TypeOK'
  <2>1. /\ regs[me].victim \in Workers
        /\ Tail(deque[regs[me].victim]) \in Seq(1..MaxTasks)
        /\ Append(deque[me], Head(deque[regs[me].victim])) \in Seq(1..MaxTasks)
        /\ regs[me].victim # me
    <3>1. /\ regs[me].victim \in Workers /\ regs[me].victim # me
          /\ deque[regs[me].victim] \in Seq(1..MaxTasks)
          /\ deque[regs[me].victim] # <<>>
        BY <1>24, <1>0, Typed DEF StealMore, RegsInv, RegsOk, StoreOk
    <3>2. /\ Tail(deque[regs[me].victim]) \in Seq(1..MaxTasks)
          /\ Head(deque[regs[me].victim]) \in 1..MaxTasks
        BY <3>1, TailFacts
    <3> QED
        BY <3>1, <3>2, <1>0, Typed, AppendFacts
  <2>2. regs[me].want - 1 \in 0..MaxTasks
    <3>1. regs[me].want > 0 /\ regs[me].want \in 0..MaxTasks
        BY <1>24, <1>0, Typed DEF StealMore
    <3> QED
        BY <3>1, <1>t
  <2>3. regs' \in [Workers -> RegsType]
    <3>1. regs' = [regs EXCEPT ![me].want = regs[me].want - 1]
        BY <1>24 DEF StealMore
    <3> QED
        BY <1>r, <2>2, <3>1, RegWrites
  <2>4. deque' \in [Workers -> Seq(1..MaxTasks)]
    <3>1. PICK front, back :
              /\ front = Tail(deque[regs[me].victim])
              /\ back = Append(deque[me], Head(deque[regs[me].victim]))
        OBVIOUS
    <3>2. deque' = [deque EXCEPT ![regs[me].victim] = front, ![me] = back]
        BY <1>24, <1>0, <2>1, <3>1, Typed DEF StealMore
    <3> QED
        BY <3>1, <3>2, <2>1, <1>0, Typed DEF TypeOK
  <2> QED
      BY <1>24, <1>0, <2>3, <2>4 DEF StealMore, TypeOK
<1>25. ASSUME NEW me \in Workers, StealDone(me)
      PROVE  TypeOK'
  <2>r. regs' \in [Workers -> RegsType]
    <3>1. PICK q : q = [NoRegs EXCEPT !.task = regs[me].task]
        OBVIOUS
    <3>2. regs' = [regs EXCEPT ![me] = q]
        BY <1>25, <3>1 DEF StealDone
    <3>3. regs[me].task \in 0..MaxTasks /\ NoRegs \in RegsType
        BY <1>0, Typed, NoRegsFacts
    <3>4. q \in RegsType
        BY <3>1, <3>3, FieldWrites
    <3> QED
        BY <1>r, <3>2, <3>4, RegWrites
  <2> QED
      BY <1>25, <1>0, <1>t, Typed, <2>r DEF StealDone, TypeOK
<1>26. ASSUME NEW me \in Workers, CheckDone(me)
      PROVE  TypeOK'
  <2>r. regs' \in [Workers -> RegsType]
    <3>1. regs' = [regs EXCEPT ![me].leave = TRUE]
        BY <1>26 DEF CheckDone, CheckDoneNothingFound
    <3> QED
        BY <1>r, <3>1, RegWrites
  <2> QED
      BY <1>26, <1>0, <1>t, Typed, <2>r DEF CheckDone, CheckDoneNothingFound, TypeOK
<1>27. ASSUME NEW me \in Workers, CheckRegister(me)
      PROVE  TypeOK'
    BY <1>27, <1>0, <1>t, Typed DEF CheckRegister, TypeOK
<1>28. ASSUME NEW me \in Workers, ParkTerminated(me)
      PROVE  TypeOK'
    BY <1>28, <1>0, <1>t, Typed DEF ParkTerminated, TypeOK
<1>29. ASSUME NEW me \in Workers, ParkLock(me)
      PROVE  TypeOK'
    BY <1>29, <1>0, <1>t, Typed DEF ParkLock, TypeOK
<1>30. ASSUME NEW me \in Workers, ParkOutstanding(me)
      PROVE  TypeOK'
    BY <1>30, <1>0, <1>t, Typed DEF ParkOutstanding, TypeOK
<1>31. ASSUME NEW me \in Workers, ParkInbox(me)
      PROVE  TypeOK'
    BY <1>31, <1>0, <1>t, Typed DEF ParkInbox, TypeOK
<1>32. ASSUME NEW me \in Workers, ParkSleep(me)
      PROVE  TypeOK'
  <2>r. regs' \in [Workers -> RegsType]
    <3>1. regs' = [regs EXCEPT ![me].gen = generation]
        BY <1>32 DEF ParkSleep, ParkSleepAnyway
    <3>2. generation \in 0..MaxTasks
        BY <1>0 DEF TypeOK
    <3> QED
        BY <1>r, <3>1, <3>2, RegWrites
  <2> QED
      BY <1>32, <1>0, <1>t, Typed, <2>r DEF ParkSleep, ParkSleepAnyway, TypeOK
<1>33. ASSUME NEW me \in Workers, SpuriousWake(me)
      PROVE  TypeOK'
    BY <1>33, <1>0, <1>t, Typed DEF SpuriousWake, TypeOK
<1>34. ASSUME NEW me \in Workers, SleepOn(me)
      PROVE  TypeOK'
    BY <1>34, <1>0, <1>t, Typed DEF SleepOn, TypeOK
<1>35. ASSUME NEW me \in Workers, WakeUp(me)
      PROVE  TypeOK'
  <2>r. regs' \in [Workers -> RegsType]
    <3>1. regs' = [regs EXCEPT ![me] = NoRegs]
        BY <1>35 DEF WakeUp
    <3> QED
        BY <1>r, <3>1, RegWrites, NoRegsFacts
  <2> QED
      BY <1>35, <1>0, <1>t, Typed, <2>r DEF WakeUp, TypeOK
<1> QED
    BY <1>1, <1>2, <1>3, <1>4, <1>5, <1>6, <1>7, <1>8, <1>9, <1>10, <1>11,
       <1>12, <1>13, <1>14, <1>15, <1>16, <1>17, <1>18, <1>19, <1>20, <1>21,
       <1>22, <1>23, <1>24, <1>25, <1>26, <1>27, <1>28, <1>29, <1>30, <1>31,
       <1>32, <1>33, <1>34, <1>35 DEF Next, WorkerStep, Loop, Spawn, Finish,
       Steal, Park

-----------------------------------------------------------------------------
(* No task is lost sight of, run twice or held in two places.              *)

\* A task may go from one place to another, ...
LEMMA Moved ==
    ASSUME NEW held, NEW next, NEW live, Disjoint(held, live),
           NEW p \in Places, NEW q \in Places, p # q,
           NEW t \in held[p],
           next[p] = held[p] \ {t},
           next[q] = held[q] \cup {t},
           \A r \in Places \ {p, q} : next[r] = held[r]
    PROVE  Disjoint(next, live)
<1>1. \A r \in Places : next[r] \subseteq live
    BY DEF Disjoint
<1>2. \A r \in Places \ {p} : t \notin held[r]
    BY DEF Disjoint
<1>3. ASSUME NEW r1 \in Places, NEW r2 \in Places, r1 # r2, NEW x,
             x \in next[r1], x \in next[r2]
      PROVE  FALSE
  <2>1. CASE x = t
      BY <1>2, <1>3, <2>1
  <2>2. CASE x # t
    <3>1. x \in held[r1] /\ x \in held[r2]
        BY <1>3, <2>2
    <3> QED
        BY <3>1, <1>3 DEF Disjoint
  <2> QED
      BY <2>1, <2>2
<1> QED
    BY <1>1, <1>3 DEF Disjoint

\* ... a new one may appear, ...
LEMMA Added ==
    ASSUME NEW held, NEW next, NEW live, NEW more, Disjoint(held, live),
           NEW p \in Places, NEW t, t \notin live,
           more = live \cup {t},
           next[p] = held[p] \cup {t},
           \A r \in Places \ {p} : next[r] = held[r]
    PROVE  Disjoint(next, more)
BY DEF Disjoint

\* ... and one may go.
LEMMA Removed ==
    ASSUME NEW held, NEW next, NEW live, NEW less, Disjoint(held, live),
           NEW p \in Places, NEW t \in held[p],
           less = live \ {t},
           next[p] = held[p] \ {t},
           \A r \in Places \ {p} : next[r] = held[r]
    PROVE  Disjoint(next, less)
BY DEF Disjoint

\* Most steps leave all tasks where they are.
LEMMA Quiet ==
    ASSUME Apart, NoRepeats,
           UNCHANGED <<deque, spawned, ended>>,
           \A w \in Workers :
               /\ TasksOf(inbox'[w]) = TasksOf(inbox[w])
               /\ InjectiveTasks(inbox'[w])
               /\ regs'[w].task = regs[w].task
               /\ Carries(pc'[w]) <=> Carries(pc[w])
               /\ Carries(pc[w]) => regs'[w].child = regs[w].child
    PROVE  Apart' /\ NoRepeats'
<1>1. \A w \in Workers : Held'[<<"deque", w>>] = Held[<<"deque", w>>]
    BY HeldDeque
<1>2. \A w \in Workers : Held'[<<"inbox", w>>] = Held[<<"inbox", w>>]
    BY HeldInbox
<1>3. \A w \in Workers : Held'[<<"child", w>>] = Held[<<"child", w>>]
    BY HeldChild
<1>4. \A w \in Workers : Held'[<<"task", w>>] = Held[<<"task", w>>]
    BY HeldTask
<1>5. \A r \in Places : Held'[r] = Held[r]
    BY <1>1, <1>2, <1>3, <1>4, EveryPlace
<1>6. NoRepeats'
    BY DEF NoRepeats
<1> QED
    BY <1>5, <1>6 DEF Apart, Disjoint

\* What the places do not share, said of the queues and registers.
LEMMA Separate ==
    ASSUME Apart, NEW v \in Workers, NEW w \in Workers
    PROVE  /\ ToSet(deque[v]) \cap TasksOf(inbox[w]) = {}
           /\ v # w => ToSet(deque[v]) \cap ToSet(deque[w]) = {}
           /\ Carries(pc[v]) =>
                 /\ regs[v].child \notin ToSet(deque[w])
                 /\ regs[v].child \notin TasksOf(inbox[w])
<1>1. /\ <<"deque", v>> # <<"inbox", w>> /\ v # w => <<"deque", v>> # <<"deque", w>>
      /\ <<"child", v>> # <<"deque", w>> /\ <<"child", v>> # <<"inbox", w>>
    OBVIOUS
<1>2. \A p, q \in Places : p # q => Held[p] \cap Held[q] = {}
    BY DEF Apart, Disjoint
<1>3. Held[<<"deque", v>>] \cap Held[<<"inbox", w>>] = {}
    BY <1>1, <1>2, APlace
<1>4. v # w => Held[<<"deque", v>>] \cap Held[<<"deque", w>>] = {}
    BY <1>1, <1>2, APlace
<1>5. /\ Held[<<"child", v>>] \cap Held[<<"deque", w>>] = {}
      /\ Held[<<"child", v>>] \cap Held[<<"inbox", w>>] = {}
    BY <1>1, <1>2, APlace
<1>6. ASSUME Carries(pc[v])
      PROVE  Held[<<"child", v>>] = {regs[v].child}
    BY <1>6, HeldChild
<1>7. /\ Held[<<"deque", v>>] = ToSet(deque[v])
      /\ Held[<<"deque", w>>] = ToSet(deque[w])
      /\ Held[<<"inbox", w>>] = TasksOf(inbox[w])
    BY HeldDeque, HeldInbox
<1> QED
    BY <1>3, <1>4, <1>5, <1>6, <1>7

\* The steps that move a task.
LEMMA TasksStep ==
    ASSUME IndInv, Next
    PROVE  Apart' /\ NoRepeats'
<1>0. /\ TypeOK /\ CountInv /\ RegsInv /\ Apart /\ NoRepeats
      /\ Disjoint(Held, (1..spawned) \ ended)
    BY DEF IndInv, TasksInv, Apart
<1>1. \A w \in Workers : regs[w].task = 0 <=> pc[w] \notin RunPc \cup {"steal_more"}
    BY <1>0 DEF RegsInv, RegsOk, StoreOk
<1>2. \A w \in Workers : Injective(deque[w]) /\ InjectiveTasks(inbox[w])
    BY <1>0 DEF NoRepeats
<1>3. ASSUME NEW me \in Workers, DrainInbox(me)
      PROVE  Apart' /\ NoRepeats'
  <2> DEFINE t == Head(inbox[me]).task
  <2>1. /\ inbox[me] # <<>> /\ deque[me] \in Seq(1..MaxTasks)
        /\ inbox[me] \in Seq(CellType)
        /\ InjectiveTasks(inbox[me]) /\ Injective(deque[me])
      BY <1>3, <1>0, <1>2, Typed DEF DrainInbox, Ready
  <2>2. /\ t \in TasksOf(inbox[me]) /\ t \in 1..MaxTasks
        /\ TasksOf(Tail(inbox[me])) = TasksOf(inbox[me]) \ {t}
        /\ InjectiveTasks(Tail(inbox[me]))
      BY <2>1, CellTailFacts DEF CellType
  <2>3. t \notin ToSet(deque[me])
    <3>1. ToSet(deque[me]) \cap TasksOf(inbox[me]) = {}
        BY <1>0, Separate
    <3> QED
        BY <3>1, <2>2
  <2> HIDE DEF t
  <2>4. /\ ToSet(Append(deque[me], t)) = ToSet(deque[me]) \cup {t}
        /\ Injective(Append(deque[me], t))
      BY <2>1, <2>2, <2>3, Grown
  <2>5. /\ deque' = [deque EXCEPT ![me] = Append(deque[me], t)]
        /\ inbox' = [inbox EXCEPT ![me] = Tail(inbox[me])]
        /\ UNCHANGED <<pc, regs, spawned, ended>>
      BY <1>3 DEF DrainInbox, historyVars, t
  <2>6. /\ deque'[me] = Append(deque[me], t) /\ inbox'[me] = Tail(inbox[me])
        /\ \A w \in Workers \ {me} : deque'[w] = deque[w] /\ inbox'[w] = inbox[w]
      BY <2>5, <1>0, Typed
  <2>7. NoRepeats'
      BY <2>2, <2>4, <2>6, <1>2 DEF NoRepeats
  <2>8. \A r \in Places \ {<<"inbox", me>>, <<"deque", me>>} : Held'[r] = Held[r]
    <3>1. \A w \in Workers \ {me} : Held'[<<"deque", w>>] = Held[<<"deque", w>>]
        BY <2>6, HeldDeque
    <3>2. \A w \in Workers \ {me} : Held'[<<"inbox", w>>] = Held[<<"inbox", w>>]
        BY <2>6, HeldInbox
    <3>3. \A w \in Workers : Held'[<<"child", w>>] = Held[<<"child", w>>]
        BY <2>5, HeldChild
    <3>4. \A w \in Workers : Held'[<<"task", w>>] = Held[<<"task", w>>]
        BY <2>5, HeldTask
    <3> QED
        BY <3>1, <3>2, <3>3, <3>4, EveryPlace
  <2>9. /\ t \in Held[<<"inbox", me>>]
        /\ Held'[<<"inbox", me>>] = Held[<<"inbox", me>>] \ {t}
        /\ Held'[<<"deque", me>>] = Held[<<"deque", me>>] \cup {t}
        /\ <<"inbox", me>> # <<"deque", me>>
      BY <2>2, <2>4, <2>6, HeldInbox, HeldDeque
  <2>10. Disjoint(Held', (1..spawned) \ ended)
      BY <2>8, <2>9, <1>0, APlace, Moved
  <2> QED
      BY <2>5, <2>7, <2>10 DEF Apart, Disjoint
<1>4. ASSUME NEW me \in Workers, PopTask(me)
      PROVE  Apart' /\ NoRepeats'
  <2>1. /\ deque[me] # <<>> /\ deque[me] \in Seq(1..MaxTasks)
        /\ Injective(deque[me]) /\ regs[me].task = 0
      BY <1>4, <1>0, <1>1, <1>2, Typed DEF PopTask, RunPc, SpawnPc
  <2>2. PICK t : t = Last(deque[me])
      OBVIOUS
  <2>3. /\ t \in ToSet(deque[me]) /\ t \in 1..MaxTasks
        /\ ToSet(Front(deque[me])) = ToSet(deque[me]) \ {t}
        /\ Injective(Front(deque[me]))
      BY <2>1, <2>2, FrontFacts
  <2>4. /\ deque' = [deque EXCEPT ![me] = Front(deque[me])]
        /\ regs' = [regs EXCEPT ![me].task = t, ![me].did = TRUE]
        /\ pc[me] = "pop" /\ pc' = [pc EXCEPT ![me] = "run"]
        /\ UNCHANGED <<inbox, spawned, ended>>
      BY <1>4, <2>2 DEF PopTask, historyVars, Goto
  <2>5. /\ deque'[me] = Front(deque[me]) /\ regs'[me].task = t
        /\ ~Carries(pc'[me]) /\ ~Carries(pc[me])
        /\ \A w \in Workers \ {me} :
              deque'[w] = deque[w] /\ regs'[w] = regs[w] /\ pc'[w] = pc[w]
      BY <2>4, <1>0, Typed DEF RegsType, Carries
  <2>6. NoRepeats'
      BY <2>3, <2>4, <2>5, <1>2 DEF NoRepeats
  <2>d. \A w \in Workers \ {me} : deque'[w] = deque[w]
      BY <2>4, <2>5
  <2>i. \A w \in Workers : inbox'[w] = inbox[w]
      BY <2>4, <2>5
  <2>c. \A w \in Workers :
            (Carries(pc'[w]) <=> Carries(pc[w]))
            /\ (Carries(pc[w]) => regs'[w].child = regs[w].child)
      BY <2>4, <2>5
  <2>t. \A w \in Workers \ {me} : regs'[w].task = regs[w].task
      BY <2>4, <2>5
  <2>8. \A r \in Places \ {<<"deque", me>>, <<"task", me>>} :
            Held'[r] = Held[r]
    <3>1. \A w \in Workers \ {me} : Held'[<<"deque", w>>] = Held[<<"deque", w>>]
        BY <2>d, HeldDeque
    <3>2. \A w \in Workers : Held'[<<"inbox", w>>] = Held[<<"inbox", w>>]
        BY <2>i, HeldInbox
    <3>3. \A w \in Workers : Held'[<<"child", w>>] = Held[<<"child", w>>]
        BY <2>c, HeldChild
    <3>4. \A w \in Workers \ {me} : Held'[<<"task", w>>] = Held[<<"task", w>>]
        BY <2>t, HeldTask
    <3> QED
        BY <3>1, <3>2, <3>3, <3>4, EveryPlace
  <2>9. /\ t \in Held[<<"deque", me>>]
        /\ Held'[<<"deque", me>>] = Held[<<"deque", me>>] \ {t}
      BY <2>3, <2>5, HeldDeque
  <2>10. /\ Held'[<<"task", me>>] = Held[<<"task", me>>] \cup {t}
         /\ <<"deque", me>> # <<"task", me>>
      BY <2>1, <2>3, <2>5, HeldTask
  <2>11. Disjoint(Held', (1..spawned) \ ended)
      BY <2>8, <2>9, <2>10, <1>0, APlace, Moved
  <2> QED
      BY <2>4, <2>6, <2>11 DEF Apart, Disjoint
<1>5. ASSUME NEW me \in Workers, SpawnCount(me)
      PROVE  Apart' /\ NoRepeats'
  <2>1. /\ UNCHANGED <<deque, inbox, ended>> /\ spawned' = spawned + 1
        /\ pc[me] = "run" /\ pc' = [pc EXCEPT ![me] = "spawn_push"]
        /\ regs' = [regs EXCEPT ![me].child = spawned + 1]
      BY <1>5 DEF SpawnCount, MaySpawn, queueVars, Goto, SetReg
  <2>2. PICK t : t = spawned + 1
      OBVIOUS
  <2>3. PICK live, more : /\ live = (1..spawned) \ ended
                          /\ more = (1..spawned') \ ended'
      OBVIOUS
  <2>7. t \notin live /\ more = live \cup {t}
      BY <2>1, <2>2, <2>3, <1>0, Typed
  <2>4. /\ Carries(pc'[me]) /\ ~Carries(pc[me]) /\ regs'[me].child = t
        /\ regs'[me].task = regs[me].task
        /\ \A w \in Workers \ {me} : regs'[w] = regs[w] /\ pc'[w] = pc[w]
      BY <2>1, <2>2, <1>0, Typed DEF RegsType, Carries
  <2>5. \A w \in Workers : regs'[w].task = regs[w].task
      BY <2>4
  <2>d. \A w \in Workers : deque'[w] = deque[w]
      BY <2>1, <2>4, <2>5
  <2>i. \A w \in Workers : inbox'[w] = inbox[w]
      BY <2>1, <2>4, <2>5
  <2>c. \A w \in Workers \ {me} :
            (Carries(pc'[w]) <=> Carries(pc[w]))
            /\ (Carries(pc[w]) => regs'[w].child = regs[w].child)
      BY <2>1, <2>4, <2>5
  <2>t. \A w \in Workers : regs'[w].task = regs[w].task
      BY <2>1, <2>4, <2>5
  <2>8. \A r \in Places \ {<<"child", me>>} : Held'[r] = Held[r]
    <3>1. \A w \in Workers : Held'[<<"deque", w>>] = Held[<<"deque", w>>]
        BY <2>d, HeldDeque
    <3>2. \A w \in Workers : Held'[<<"inbox", w>>] = Held[<<"inbox", w>>]
        BY <2>i, HeldInbox
    <3>3. \A w \in Workers \ {me} : Held'[<<"child", w>>] = Held[<<"child", w>>]
        BY <2>c, HeldChild
    <3>4. \A w \in Workers : Held'[<<"task", w>>] = Held[<<"task", w>>]
        BY <2>t, HeldTask
    <3> QED
        BY <3>1, <3>2, <3>3, <3>4, EveryPlace
  <2>9. Held'[<<"child", me>>] = Held[<<"child", me>>] \cup {t}
      BY <2>4, HeldChild
  <2>10. Disjoint(Held', more)
    <3>1. Disjoint(Held, live) /\ <<"child", me>> \in Places
        BY <2>3, <1>0, APlace
    <3> QED
        BY <3>1, <2>7, <2>8, <2>9, Added
  <2> QED
      BY <2>1, <2>3, <2>10, <1>0 DEF Apart, Disjoint, NoRepeats
<1>6. ASSUME NEW me \in Workers, NEW target \in Workers, SpawnAtCount(me, target)
      PROVE  Apart' /\ NoRepeats'
  <2>1. /\ UNCHANGED <<deque, inbox, ended>> /\ spawned' = spawned + 1
        /\ pc[me] = "run" /\ pc' = [pc EXCEPT ![me] = "inbox_claim"]
        /\ regs' = [regs EXCEPT ![me].child = spawned + 1, ![me].target = target]
      BY <1>6 DEF SpawnAtCount, SpawnAt, MaySpawn, queueVars, Goto, SetReg
  <2>2. PICK t : t = spawned + 1
      OBVIOUS
  <2>3. PICK live, more : /\ live = (1..spawned) \ ended
                          /\ more = (1..spawned') \ ended'
      OBVIOUS
  <2>7. t \notin live /\ more = live \cup {t}
      BY <2>1, <2>2, <2>3, <1>0, Typed
  <2>4. /\ Carries(pc'[me]) /\ ~Carries(pc[me]) /\ regs'[me].child = t
        /\ regs'[me].task = regs[me].task
        /\ \A w \in Workers \ {me} : regs'[w] = regs[w] /\ pc'[w] = pc[w]
      BY <2>1, <2>2, <1>0, Typed DEF RegsType, Carries
  <2>5. \A w \in Workers : regs'[w].task = regs[w].task
      BY <2>4
  <2>d. \A w \in Workers : deque'[w] = deque[w]
      BY <2>1, <2>4, <2>5
  <2>i. \A w \in Workers : inbox'[w] = inbox[w]
      BY <2>1, <2>4, <2>5
  <2>c. \A w \in Workers \ {me} :
            (Carries(pc'[w]) <=> Carries(pc[w]))
            /\ (Carries(pc[w]) => regs'[w].child = regs[w].child)
      BY <2>1, <2>4, <2>5
  <2>t. \A w \in Workers : regs'[w].task = regs[w].task
      BY <2>1, <2>4, <2>5
  <2>8. \A r \in Places \ {<<"child", me>>} : Held'[r] = Held[r]
    <3>1. \A w \in Workers : Held'[<<"deque", w>>] = Held[<<"deque", w>>]
        BY <2>d, HeldDeque
    <3>2. \A w \in Workers : Held'[<<"inbox", w>>] = Held[<<"inbox", w>>]
        BY <2>i, HeldInbox
    <3>3. \A w \in Workers \ {me} : Held'[<<"child", w>>] = Held[<<"child", w>>]
        BY <2>c, HeldChild
    <3>4. \A w \in Workers : Held'[<<"task", w>>] = Held[<<"task", w>>]
        BY <2>t, HeldTask
    <3> QED
        BY <3>1, <3>2, <3>3, <3>4, EveryPlace
  <2>9. Held'[<<"child", me>>] = Held[<<"child", me>>] \cup {t}
      BY <2>4, HeldChild
  <2>10. Disjoint(Held', more)
    <3>1. Disjoint(Held, live) /\ <<"child", me>> \in Places
        BY <2>3, <1>0, APlace
    <3> QED
        BY <3>1, <2>7, <2>8, <2>9, Added
  <2> QED
      BY <2>1, <2>3, <2>10, <1>0 DEF Apart, Disjoint, NoRepeats
<1>7. ASSUME NEW me \in Workers, SpawnPush(me)
      PROVE  Apart' /\ NoRepeats'
  <2>1. PICK t : t = regs[me].child
      OBVIOUS
  <2>2. /\ deque' = [deque EXCEPT ![me] = Append(deque[me], t)]
        /\ regs' = [regs EXCEPT ![me].child = 0]
        /\ Carries(pc[me]) /\ pc' = [pc EXCEPT ![me] = "spawn_clear"]
        /\ UNCHANGED <<inbox, spawned, ended>>
      BY <1>7, <2>1 DEF SpawnPush, historyVars, Goto, SetReg, Carries
  <2>3. t \in 1..MaxTasks /\ t \notin ToSet(deque[me])
      BY <2>1, <2>2, <1>0, LiveFacts, Separate DEF Carries
  <2>4. /\ ToSet(Append(deque[me], t)) = ToSet(deque[me]) \cup {t}
        /\ Injective(Append(deque[me], t))
      BY <2>3, <1>0, <1>2, Typed, Grown
  <2>5. /\ deque'[me] = Append(deque[me], t) /\ ~Carries(pc'[me])
        /\ regs'[me].task = regs[me].task
        /\ \A w \in Workers \ {me} :
              deque'[w] = deque[w] /\ regs'[w] = regs[w] /\ pc'[w] = pc[w]
      BY <2>2, <1>0, Typed DEF RegsType, Carries
  <2>6. NoRepeats'
      BY <2>2, <2>4, <2>5, <1>2 DEF NoRepeats
  <2>d. \A w \in Workers \ {me} : deque'[w] = deque[w]
      BY <2>2, <2>5
  <2>i. \A w \in Workers : inbox'[w] = inbox[w]
      BY <2>2, <2>5
  <2>c. \A w \in Workers \ {me} :
            (Carries(pc'[w]) <=> Carries(pc[w]))
            /\ (Carries(pc[w]) => regs'[w].child = regs[w].child)
      BY <2>2, <2>5
  <2>t. \A w \in Workers : regs'[w].task = regs[w].task
      BY <2>2, <2>5
  <2>8. \A r \in Places \ {<<"child", me>>, <<"deque", me>>} :
            Held'[r] = Held[r]
    <3>1. \A w \in Workers \ {me} : Held'[<<"deque", w>>] = Held[<<"deque", w>>]
        BY <2>d, HeldDeque
    <3>2. \A w \in Workers : Held'[<<"inbox", w>>] = Held[<<"inbox", w>>]
        BY <2>i, HeldInbox
    <3>3. \A w \in Workers \ {me} : Held'[<<"child", w>>] = Held[<<"child", w>>]
        BY <2>c, HeldChild
    <3>4. \A w \in Workers : Held'[<<"task", w>>] = Held[<<"task", w>>]
        BY <2>t, HeldTask
    <3> QED
        BY <3>1, <3>2, <3>3, <3>4, EveryPlace
  <2>9. /\ t \in Held[<<"child", me>>]
        /\ Held'[<<"child", me>>] = Held[<<"child", me>>] \ {t}
        /\ <<"child", me>> # <<"deque", me>>
      BY <2>1, <2>2, <2>5, HeldChild
  <2>10. Held'[<<"deque", me>>] = Held[<<"deque", me>>] \cup {t}
      BY <2>4, <2>5, HeldDeque
  <2>11. Disjoint(Held', (1..spawned) \ ended)
      BY <2>8, <2>9, <2>10, <1>0, APlace, Moved
  <2> QED
      BY <2>2, <2>6, <2>11 DEF Apart, Disjoint
<1>8. ASSUME NEW me \in Workers, InboxClaim(me)
      PROVE  Apart' /\ NoRepeats'
  <2>1. PICK t, v : t = regs[me].child /\ v = regs[me].target
      OBVIOUS
  <2>2. /\ inbox' = [inbox EXCEPT ![v] = Claimed(inbox[v], t)]
        /\ Carries(pc[me]) /\ pc' = [pc EXCEPT ![me] = "inbox_store"]
        /\ UNCHANGED <<deque, regs, spawned, ended>>
      BY <1>8, <2>1 DEF InboxClaim, historyVars, Goto, Carries
  <2>3. t \in 1..MaxTasks /\ v \in Workers /\ t \notin TasksOf(inbox[v])
      BY <2>1, <2>2, <1>0, Typed, LiveFacts, Separate DEF Carries
  <2>4. /\ TasksOf(Claimed(inbox[v], t)) = TasksOf(inbox[v]) \cup {t}
        /\ InjectiveTasks(Claimed(inbox[v], t))
      BY <2>3, <1>0, <1>2, Typed, ClaimedFacts
  <2>5. /\ inbox'[v] = Claimed(inbox[v], t) /\ ~Carries(pc'[me])
        /\ \A w \in Workers \ {v} : inbox'[w] = inbox[w]
        /\ \A w \in Workers \ {me} : pc'[w] = pc[w]
      BY <2>2, <2>3, <1>0, Typed DEF Carries
  <2>6. NoRepeats'
      BY <2>2, <2>4, <2>5, <1>2 DEF NoRepeats
  <2>d. \A w \in Workers : deque'[w] = deque[w]
      BY <2>2, <2>5
  <2>i. \A w \in Workers \ {v} : inbox'[w] = inbox[w]
      BY <2>2, <2>5
  <2>c. \A w \in Workers \ {me} :
            (Carries(pc'[w]) <=> Carries(pc[w]))
            /\ (Carries(pc[w]) => regs'[w].child = regs[w].child)
      BY <2>2, <2>5
  <2>t. \A w \in Workers : regs'[w].task = regs[w].task
      BY <2>2, <2>5
  <2>8. \A r \in Places \ {<<"child", me>>, <<"inbox", v>>} :
            Held'[r] = Held[r]
    <3>1. \A w \in Workers : Held'[<<"deque", w>>] = Held[<<"deque", w>>]
        BY <2>d, HeldDeque
    <3>2. \A w \in Workers \ {v} : Held'[<<"inbox", w>>] = Held[<<"inbox", w>>]
        BY <2>i, HeldInbox
    <3>3. \A w \in Workers \ {me} : Held'[<<"child", w>>] = Held[<<"child", w>>]
        BY <2>c, HeldChild
    <3>4. \A w \in Workers : Held'[<<"task", w>>] = Held[<<"task", w>>]
        BY <2>t, HeldTask
    <3> QED
        BY <3>1, <3>2, <3>3, <3>4, EveryPlace
  <2>9. /\ t \in Held[<<"child", me>>]
        /\ Held'[<<"child", me>>] = Held[<<"child", me>>] \ {t}
        /\ <<"child", me>> # <<"inbox", v>>
      BY <2>1, <2>2, <2>5, HeldChild
  <2>10. Held'[<<"inbox", v>>] = Held[<<"inbox", v>>] \cup {t}
      BY <2>3, <2>4, <2>5, HeldInbox
  <2>11. Disjoint(Held', (1..spawned) \ ended)
      BY <2>3, <2>8, <2>9, <2>10, <1>0, APlace, Moved
  <2> QED
      BY <2>2, <2>6, <2>11 DEF Apart, Disjoint
<1>9. ASSUME NEW me \in Workers, FinishTask(me)
      PROVE  Apart' /\ NoRepeats'
  <2>1. PICK t : t = regs[me].task
      OBVIOUS
  <2>2. /\ UNCHANGED <<deque, inbox, spawned>> /\ ended' = ended \cup {t}
        /\ regs' = [regs EXCEPT ![me].task = 0]
        /\ pc[me] = "run"
        /\ \/ pc' = [pc EXCEPT ![me] = "declare"]
           \/ pc' = [pc EXCEPT ![me] = "pop"]
           \/ pc' = [pc EXCEPT ![me] = "drain"]
      BY <1>9, <2>1 DEF FinishTask, queueVars, Goto, SetReg, AfterRun
  <2>3. PICK live, less : /\ live = (1..spawned) \ ended
                          /\ less = (1..spawned') \ ended'
      OBVIOUS
  <2>4. /\ t \in live /\ less = live \ {t}
        /\ Held[<<"task", me>>] = {t}
      BY <2>1, <2>2, <2>3, <1>0, LiveFacts DEF RunPc
  <2>5. /\ ~Carries(pc[me]) /\ ~Carries(pc'[me]) /\ regs'[me].task = 0
        /\ \A w \in Workers \ {me} : regs'[w] = regs[w] /\ pc'[w] = pc[w]
      BY <2>2, <1>0, Typed DEF RegsType, Carries
  <2>d. \A w \in Workers : deque'[w] = deque[w]
      BY <2>2, <2>5
  <2>i. \A w \in Workers : inbox'[w] = inbox[w]
      BY <2>2, <2>5
  <2>c. \A w \in Workers :
            (Carries(pc'[w]) <=> Carries(pc[w]))
            /\ (Carries(pc[w]) => regs'[w].child = regs[w].child)
      BY <2>2, <2>5
  <2>t. \A w \in Workers \ {me} : regs'[w].task = regs[w].task
      BY <2>2, <2>5
  <2>8. \A r \in Places \ {<<"task", me>>} : Held'[r] = Held[r]
    <3>1. \A w \in Workers : Held'[<<"deque", w>>] = Held[<<"deque", w>>]
        BY <2>d, HeldDeque
    <3>2. \A w \in Workers : Held'[<<"inbox", w>>] = Held[<<"inbox", w>>]
        BY <2>i, HeldInbox
    <3>3. \A w \in Workers : Held'[<<"child", w>>] = Held[<<"child", w>>]
        BY <2>c, HeldChild
    <3>4. \A w \in Workers \ {me} : Held'[<<"task", w>>] = Held[<<"task", w>>]
        BY <2>t, HeldTask
    <3> QED
        BY <3>1, <3>2, <3>3, <3>4, EveryPlace
  <2>9. Held'[<<"task", me>>] = Held[<<"task", me>>] \ {t}
      BY <2>4, <2>5, HeldTask
  <2>10. Disjoint(Held', less)
    <3>1. Disjoint(Held, live) /\ t \in Held[<<"task", me>>]
        BY <2>3, <2>4, <1>0
    <3> QED
        BY <3>1, <2>4, <2>8, <2>9, APlace, Removed
  <2> QED
      BY <2>2, <2>3, <2>10, <1>0 DEF Apart, Disjoint, NoRepeats
<1>10. ASSUME NEW me \in Workers, StealFirst(me)
      PROVE  Apart' /\ NoRepeats'
  <2>1. PICK t, v : t = Head(deque[v]) /\ v = regs[me].victim
      OBVIOUS
  <2>2. /\ deque' = [deque EXCEPT ![v] = Tail(deque[v])] /\ deque[v] # <<>>
        /\ regs' = [regs EXCEPT ![me].task = t,
                                ![me].want = regs[me].want - 1]
        /\ pc[me] = "steal_first" /\ pc' = [pc EXCEPT ![me] = "steal_more"]
        /\ UNCHANGED <<inbox, spawned, ended>>
      BY <1>10, <2>1 DEF StealFirst, historyVars, Goto
  <2>3. /\ v \in Workers /\ regs[me].task = 0
        /\ deque[v] \in Seq(1..MaxTasks) /\ Injective(deque[v])
      BY <2>1, <2>2, <1>0, <1>1, <1>2, Typed DEF RunPc, SpawnPc
  <2>4. /\ t \in ToSet(deque[v]) /\ t \in 1..MaxTasks
        /\ ToSet(Tail(deque[v])) = ToSet(deque[v]) \ {t}
        /\ Injective(Tail(deque[v]))
      BY <2>1, <2>2, <2>3, TailFacts
  <2>5. /\ deque'[v] = Tail(deque[v]) /\ regs'[me].task = t
        /\ ~Carries(pc'[me]) /\ ~Carries(pc[me])
        /\ \A w \in Workers \ {v} : deque'[w] = deque[w]
        /\ \A w \in Workers \ {me} : regs'[w] = regs[w] /\ pc'[w] = pc[w]
      BY <2>2, <2>3, <1>0, Typed DEF RegsType, Carries
  <2>6. NoRepeats'
      BY <2>2, <2>4, <2>5, <1>2 DEF NoRepeats
  <2>d. \A w \in Workers \ {v} : deque'[w] = deque[w]
      BY <2>2, <2>5
  <2>i. \A w \in Workers : inbox'[w] = inbox[w]
      BY <2>2, <2>5
  <2>c. \A w \in Workers :
            (Carries(pc'[w]) <=> Carries(pc[w]))
            /\ (Carries(pc[w]) => regs'[w].child = regs[w].child)
      BY <2>2, <2>5
  <2>t. \A w \in Workers \ {me} : regs'[w].task = regs[w].task
      BY <2>2, <2>5
  <2>8. \A r \in Places \ {<<"deque", v>>, <<"task", me>>} :
            Held'[r] = Held[r]
    <3>1. \A w \in Workers \ {v} : Held'[<<"deque", w>>] = Held[<<"deque", w>>]
        BY <2>d, HeldDeque
    <3>2. \A w \in Workers : Held'[<<"inbox", w>>] = Held[<<"inbox", w>>]
        BY <2>i, HeldInbox
    <3>3. \A w \in Workers : Held'[<<"child", w>>] = Held[<<"child", w>>]
        BY <2>c, HeldChild
    <3>4. \A w \in Workers \ {me} : Held'[<<"task", w>>] = Held[<<"task", w>>]
        BY <2>t, HeldTask
    <3> QED
        BY <3>1, <3>2, <3>3, <3>4, EveryPlace
  <2>9. /\ t \in Held[<<"deque", v>>]
        /\ Held'[<<"deque", v>>] = Held[<<"deque", v>>] \ {t}
      BY <2>3, <2>4, <2>5, HeldDeque
  <2>10. /\ Held'[<<"task", me>>] = Held[<<"task", me>>] \cup {t}
         /\ <<"deque", v>> # <<"task", me>>
      BY <2>3, <2>4, <2>5, HeldTask
  <2>11. Disjoint(Held', (1..spawned) \ ended)
      BY <2>3, <2>8, <2>9, <2>10, <1>0, APlace, Moved
  <2> QED
      BY <2>2, <2>6, <2>11 DEF Apart, Disjoint
<1>11. ASSUME NEW me \in Workers, StealMore(me)
      PROVE  Apart' /\ NoRepeats'
  <2>1. PICK t, v : t = Head(deque[v]) /\ v = regs[me].victim
      OBVIOUS
  <2>2. /\ deque' = [deque EXCEPT ![v] = Tail(deque[v]),
                                  ![me] = Append(@, Head(deque[v]))]
        /\ deque[v] # <<>> /\ pc[me] = "steal_more"
        /\ regs' = [regs EXCEPT ![me].want = regs[me].want - 1]
        /\ UNCHANGED <<pc, inbox, spawned, ended>>
      BY <1>11, <2>1 DEF StealMore, historyVars, SetReg
  <2>3. /\ v \in Workers /\ v # me
        /\ deque[v] \in Seq(1..MaxTasks) /\ Injective(deque[v])
      BY <2>1, <2>2, <1>0, <1>2, Typed DEF RegsInv, RegsOk, StoreOk
  <2>4. /\ t \in ToSet(deque[v]) /\ t \in 1..MaxTasks
        /\ ToSet(Tail(deque[v])) = ToSet(deque[v]) \ {t}
        /\ Injective(Tail(deque[v]))
      BY <2>1, <2>2, <2>3, TailFacts
  <2>5. t \notin ToSet(deque[me])
    <3>1. ToSet(deque[v]) \cap ToSet(deque[me]) = {}
        BY <2>3, <1>0, Separate
    <3> QED
        BY <3>1, <2>4
  <2>6. /\ ToSet(Append(deque[me], t)) = ToSet(deque[me]) \cup {t}
        /\ Injective(Append(deque[me], t))
      BY <2>4, <2>5, <1>0, <1>2, Typed, Grown
  <2>7. /\ deque'[v] = Tail(deque[v]) /\ deque'[me] = Append(deque[me], t)
        /\ \A w \in Workers \ {v, me} : deque'[w] = deque[w]
        /\ \A w \in Workers : /\ regs'[w].task = regs[w].task
                              /\ regs'[w].child = regs[w].child
    <3>1. deque \in [Workers -> Seq(1..MaxTasks)]
        BY <1>0 DEF TypeOK
    <3>2. PICK d : d = [deque EXCEPT ![v] = Tail(deque[v])]
        OBVIOUS
    <3>3. /\ d[v] = Tail(deque[v]) /\ DOMAIN d = Workers
          /\ \A w \in Workers \ {v} : d[w] = deque[w]
        BY <3>1, <3>2, <2>3
    <3>4. deque' = [d EXCEPT ![me] = Append(deque[me], t)]
        BY <3>2, <2>1, <2>2
    <3>5. /\ deque'[v] = Tail(deque[v]) /\ deque'[me] = Append(deque[me], t)
          /\ \A w \in Workers \ {v, me} : deque'[w] = deque[w]
        BY <3>3, <3>4, <2>3
    <3>6. \A w \in Workers : /\ regs'[w].task = regs[w].task
                            /\ regs'[w].child = regs[w].child
      <4>1. PICK n : regs' = [regs EXCEPT ![me].want = n]
          BY <2>2
      <4> QED
          BY <4>1, <1>0, Typed DEF RegsType
    <3> QED
        BY <3>5, <3>6
  <2>77. NoRepeats'
      BY <2>2, <2>4, <2>6, <2>7, <1>2 DEF NoRepeats
  <2>d. \A w \in Workers \ {v, me} : deque'[w] = deque[w]
      BY <2>2, <2>7
  <2>i. \A w \in Workers : inbox'[w] = inbox[w]
      BY <2>2, <2>7
  <2>c. \A w \in Workers :
            (Carries(pc'[w]) <=> Carries(pc[w]))
            /\ (Carries(pc[w]) => regs'[w].child = regs[w].child)
      BY <2>2, <2>7
  <2>t. \A w \in Workers : regs'[w].task = regs[w].task
      BY <2>2, <2>7
  <2>8. \A r \in Places \ {<<"deque", v>>, <<"deque", me>>} :
            Held'[r] = Held[r]
    <3>1. \A w \in Workers \ {v, me} : Held'[<<"deque", w>>] = Held[<<"deque", w>>]
        BY <2>d, HeldDeque
    <3>2. \A w \in Workers : Held'[<<"inbox", w>>] = Held[<<"inbox", w>>]
        BY <2>i, HeldInbox
    <3>3. \A w \in Workers : Held'[<<"child", w>>] = Held[<<"child", w>>]
        BY <2>c, HeldChild
    <3>4. \A w \in Workers : Held'[<<"task", w>>] = Held[<<"task", w>>]
        BY <2>t, HeldTask
    <3> QED
        BY <3>1, <3>2, <3>3, <3>4, EveryPlace
  <2>9. /\ t \in Held[<<"deque", v>>]
        /\ Held'[<<"deque", v>>] = Held[<<"deque", v>>] \ {t}
        /\ <<"deque", v>> # <<"deque", me>>
      BY <2>3, <2>4, <2>7, HeldDeque
  <2>10. Held'[<<"deque", me>>] = Held[<<"deque", me>>] \cup {t}
      BY <2>6, <2>7, HeldDeque
  <2>11. Disjoint(Held', (1..spawned) \ ended)
      BY <2>3, <2>8, <2>9, <2>10, <1>0, APlace, Moved
  <2> QED
      BY <2>2, <2>77, <2>11 DEF Apart, Disjoint
<1>12. ASSUME NEW me \in Workers, InboxStore(me)
      PROVE  Apart' /\ NoRepeats'
  <2>1. PICK t, v : t = regs[me].child /\ v = regs[me].target
      OBVIOUS
  <2>2. /\ inbox' = [inbox EXCEPT ![v] = Filled(inbox[v], t)]
        /\ pc[me] = "inbox_store" /\ pc' = [pc EXCEPT ![me] = "signal"]
        /\ regs' = [regs EXCEPT ![me].child = 0, ![me].target = 0]
        /\ UNCHANGED <<deque, spawned, ended>>
      BY <1>12, <2>1 DEF InboxStore, historyVars, Goto
  <2>3. t \in 1..MaxTasks /\ v \in Workers
      BY <2>1, <2>2, <1>0, Typed, LiveFacts
  <2>4. /\ TasksOf(Filled(inbox[v], t)) = TasksOf(inbox[v])
        /\ InjectiveTasks(Filled(inbox[v], t))
      BY <2>3, <1>0, <1>2, Typed, FilledFacts
  <2>5. \A w \in Workers : /\ TasksOf(inbox'[w]) = TasksOf(inbox[w])
                           /\ InjectiveTasks(inbox'[w])
    <3>1. \A w \in Workers : inbox'[w] = IF w = v THEN Filled(inbox[v], t)
                                         ELSE inbox[w]
        BY <2>2, <2>3, <1>0, Typed
    <3> QED
        BY <3>1, <2>4, <1>2
  <2>6. \A w \in Workers :
            /\ regs'[w].task = regs[w].task
            /\ Carries(pc'[w]) <=> Carries(pc[w])
            /\ Carries(pc[w]) => regs'[w].child = regs[w].child
      BY SMTT(30), <2>2, <1>0, Typed DEF RegsType, Carries
  <2> QED
      BY <2>2, <2>5, <2>6, <1>0, Quiet
<1>13. ASSUME NEW me \in Workers, DrainDone(me)
      PROVE  Apart' /\ NoRepeats'
  <2>1. UNCHANGED <<deque, inbox, spawned, ended>>
      BY <1>13 DEF DrainDone, queueVars, historyVars
  <2>2. \A w \in Workers :
            /\ regs'[w].task = regs[w].task
            /\ Carries(pc'[w]) <=> Carries(pc[w])
            /\ Carries(pc[w]) => regs'[w].child = regs[w].child
      BY <1>13, <1>0, <1>1, Typed DEF DrainDone, Goto, Carries
  <2> QED
      BY <2>1, <2>2, <1>0, <1>2, Quiet
<1>14. ASSUME NEW me \in Workers, PopNone(me)
      PROVE  Apart' /\ NoRepeats'
  <2>1. UNCHANGED <<deque, inbox, spawned, ended>>
      BY <1>14 DEF PopNone, GotoFresh, queueVars, historyVars
  <2>2. \A w \in Workers :
            /\ regs'[w].task = regs[w].task
            /\ Carries(pc'[w]) <=> Carries(pc[w])
            /\ Carries(pc[w]) => regs'[w].child = regs[w].child
    <3>1. regs' = [regs EXCEPT ![me] = NoRegs]
        BY <1>14 DEF PopNone, GotoFresh
    <3>2. \A w \in Workers : /\ regs'[w].task = regs[w].task
                             /\ Carries(pc[w]) => regs'[w].child = regs[w].child
        BY <1>14, <3>1, <1>0, <1>1, Typed, NoRegsFacts DEF PopNone, GotoFresh,
           RegsType, Carries,
           RunPc, SpawnPc
    <3>3. \A w \in Workers : Carries(pc'[w]) <=> Carries(pc[w])
        BY <1>14, <1>0, Typed DEF PopNone, GotoFresh, Goto, Carries
    <3> QED
        BY <3>2, <3>3 DEF Carries
  <2> QED
      BY <2>1, <2>2, <1>0, <1>2, Quiet
<1>15. ASSUME NEW me \in Workers, SpawnClear(me)
      PROVE  Apart' /\ NoRepeats'
  <2>1. UNCHANGED <<deque, inbox, spawned, ended>>
      BY <1>15 DEF SpawnClear, queueVars, historyVars
  <2>2. \A w \in Workers :
            /\ regs'[w].task = regs[w].task
            /\ Carries(pc'[w]) <=> Carries(pc[w])
            /\ Carries(pc[w]) => regs'[w].child = regs[w].child
      BY <1>15, <1>0, <1>1, Typed DEF SpawnClear, Goto, Carries
  <2> QED
      BY <2>1, <2>2, <1>0, <1>2, Quiet
<1>16. ASSUME NEW me \in Workers, SignalWork(me)
      PROVE  Apart' /\ NoRepeats'
  <2>1. UNCHANGED <<deque, inbox, spawned, ended>>
      BY <1>16 DEF SignalWork, queueVars, historyVars
  <2>2. \A w \in Workers :
            /\ regs'[w].task = regs[w].task
            /\ Carries(pc'[w]) <=> Carries(pc[w])
            /\ Carries(pc[w]) => regs'[w].child = regs[w].child
      BY <1>16, <1>0, <1>1, Typed DEF SignalWork, Goto, Carries
  <2> QED
      BY <2>1, <2>2, <1>0, <1>2, Quiet
<1>17. ASSUME NEW me \in Workers, SignalNotify(me)
      PROVE  Apart' /\ NoRepeats'
  <2>1. UNCHANGED <<deque, inbox, spawned, ended>>
      BY <1>17 DEF SignalNotify, WakeAll, queueVars, historyVars
  <2>2. \A w \in Workers :
            /\ regs'[w].task = regs[w].task
            /\ Carries(pc'[w]) <=> Carries(pc[w])
            /\ Carries(pc[w]) => regs'[w].child = regs[w].child
      BY <1>17, <1>0, <1>1, Typed DEF SignalNotify, WakeAll, Goto, Carries
  <2> QED
      BY <2>1, <2>2, <1>0, <1>2, Quiet
<1>18. ASSUME NEW me \in Workers, TaskPanics(me)
      PROVE  Apart' /\ NoRepeats'
  <2>1. UNCHANGED <<deque, inbox, spawned, ended>>
      BY <1>18 DEF TaskPanics, queueVars, historyVars
  <2>2. \A w \in Workers :
            /\ regs'[w].task = regs[w].task
            /\ Carries(pc'[w]) <=> Carries(pc[w])
            /\ Carries(pc[w]) => regs'[w].child = regs[w].child
      BY <1>18, <1>0, <1>1, Typed DEF TaskPanics, Goto, Carries
  <2> QED
      BY <2>1, <2>2, <1>0, <1>2, Quiet
<1>19. ASSUME NEW me \in Workers, Declare(me)
      PROVE  Apart' /\ NoRepeats'
  <2>1. UNCHANGED <<deque, inbox, spawned, ended>>
      BY <1>19 DEF Declare, queueVars, historyVars
  <2>2. \A w \in Workers :
            /\ regs'[w].task = regs[w].task
            /\ Carries(pc'[w]) <=> Carries(pc[w])
            /\ Carries(pc[w]) => regs'[w].child = regs[w].child
      BY <1>19, <1>0, <1>1, Typed DEF Declare, Goto, Carries
  <2> QED
      BY <2>1, <2>2, <1>0, <1>2, Quiet
<1>20. ASSUME NEW me \in Workers, DeclareNotify(me)
      PROVE  Apart' /\ NoRepeats'
  <2>1. UNCHANGED <<deque, inbox, spawned, ended>>
      BY <1>20 DEF DeclareNotify, WakeAll, AfterRun, SetReg, queueVars,
         historyVars
  <2>2. \A w \in Workers :
            /\ regs'[w].task = regs[w].task
            /\ Carries(pc'[w]) <=> Carries(pc[w])
            /\ Carries(pc[w]) => regs'[w].child = regs[w].child
    <3>1. PICK x : regs' = [regs EXCEPT ![me].leave = x]
        BY <1>20 DEF DeclareNotify, WakeAll, AfterRun, SetReg
    <3>2. \A w \in Workers : /\ regs'[w].task = regs[w].task
                             /\ regs'[w].child = regs[w].child
        BY SMTT(30), <3>1, <1>0 DEF TypeOK, RegsType
    <3>3. \A w \in Workers : Carries(pc'[w]) <=> Carries(pc[w])
        BY <1>20, <1>0, Typed DEF DeclareNotify, WakeAll, AfterRun, SetReg,
           Goto, Carries
    <3> QED
        BY <3>2, <3>3 DEF Carries
  <2> QED
      BY <2>1, <2>2, <1>0, <1>2, Quiet
<1>21. ASSUME NEW me \in Workers, NEW v \in Workers, StealRandom(me, v)
      PROVE  Apart' /\ NoRepeats'
  <2>1. UNCHANGED <<deque, inbox, spawned, ended>>
      BY <1>21 DEF StealRandom, Estimate, queueVars, historyVars
  <2>2. \A w \in Workers :
            /\ regs'[w].task = regs[w].task
            /\ Carries(pc'[w]) <=> Carries(pc[w])
            /\ Carries(pc[w]) => regs'[w].child = regs[w].child
    <3>2. \A w \in Workers : /\ regs'[w].task = regs[w].task
                             /\ regs'[w].child = regs[w].child
        BY <1>21, <1>0, StealNotes DEF StealRandom, StealBuddy
    <3>3. \A w \in Workers : Carries(pc'[w]) <=> Carries(pc[w])
        BY <1>21, <1>0, Typed DEF StealRandom, Estimate, Goto, Carries
    <3> QED
        BY <3>2, <3>3 DEF Carries
  <2> QED
      BY <2>1, <2>2, <1>0, <1>2, Quiet
<1>22. ASSUME NEW me \in Workers, StealNoLuck(me)
      PROVE  Apart' /\ NoRepeats'
  <2>1. UNCHANGED <<deque, inbox, spawned, ended>>
      BY <1>22 DEF StealNoLuck, SetReg, queueVars, historyVars
  <2>2. \A w \in Workers :
            /\ regs'[w].task = regs[w].task
            /\ Carries(pc'[w]) <=> Carries(pc[w])
            /\ Carries(pc[w]) => regs'[w].child = regs[w].child
    <3>1. PICK x : regs' = [regs EXCEPT ![me].bit = x]
        BY <1>22 DEF StealNoLuck, SetReg
    <3>2. \A w \in Workers : /\ regs'[w].task = regs[w].task
                             /\ regs'[w].child = regs[w].child
        BY SMTT(30), <3>1, <1>0 DEF TypeOK, RegsType
    <3>3. \A w \in Workers : Carries(pc'[w]) <=> Carries(pc[w])
        BY <1>22, <1>0, Typed DEF StealNoLuck, SetReg, Goto, Carries
    <3> QED
        BY <3>2, <3>3 DEF Carries
  <2> QED
      BY <2>1, <2>2, <1>0, <1>2, Quiet
<1>23. ASSUME NEW me \in Workers, StealBuddy(me)
      PROVE  Apart' /\ NoRepeats'
  <2>1. UNCHANGED <<deque, inbox, spawned, ended>>
      BY <1>23 DEF StealBuddy, Estimate, queueVars, historyVars
  <2>2. \A w \in Workers :
            /\ regs'[w].task = regs[w].task
            /\ Carries(pc'[w]) <=> Carries(pc[w])
            /\ Carries(pc[w]) => regs'[w].child = regs[w].child
    <3>2. \A w \in Workers : /\ regs'[w].task = regs[w].task
                             /\ regs'[w].child = regs[w].child
        BY <1>23, <1>0, StealNotes DEF StealRandom, StealBuddy
    <3>3. \A w \in Workers : Carries(pc'[w]) <=> Carries(pc[w])
        BY <1>23, <1>0, Typed DEF StealBuddy, Estimate, Goto, Carries
    <3> QED
        BY <3>2, <3>3 DEF Carries
  <2> QED
      BY <2>1, <2>2, <1>0, <1>2, Quiet
<1>24. ASSUME NEW me \in Workers, StealBuddyEmpty(me)
      PROVE  Apart' /\ NoRepeats'
  <2>1. UNCHANGED <<deque, inbox, spawned, ended>>
      BY <1>24 DEF StealBuddyEmpty, SetReg, queueVars, historyVars
  <2>2. \A w \in Workers :
            /\ regs'[w].task = regs[w].task
            /\ Carries(pc'[w]) <=> Carries(pc[w])
            /\ Carries(pc[w]) => regs'[w].child = regs[w].child
    <3>1. PICK x : regs' = [regs EXCEPT ![me].bit = x]
        BY <1>24 DEF StealBuddyEmpty, SetReg
    <3>2. \A w \in Workers : /\ regs'[w].task = regs[w].task
                             /\ regs'[w].child = regs[w].child
        BY <3>1, <1>0 DEF TypeOK, RegsType
    <3>3. \A w \in Workers : Carries(pc'[w]) <=> Carries(pc[w])
        BY <1>24, <1>0, Typed DEF StealBuddyEmpty, SetReg, Goto, Carries
    <3> QED
        BY <3>2, <3>3 DEF Carries
  <2> QED
      BY <2>1, <2>2, <1>0, <1>2, Quiet
<1>25. ASSUME NEW me \in Workers, StealGiveUp(me)
      PROVE  Apart' /\ NoRepeats'
  <2>1. UNCHANGED <<deque, inbox, spawned, ended>>
      BY <1>25 DEF StealGiveUp, GotoFresh, queueVars, historyVars
  <2>2. \A w \in Workers :
            /\ regs'[w].task = regs[w].task
            /\ Carries(pc'[w]) <=> Carries(pc[w])
            /\ Carries(pc[w]) => regs'[w].child = regs[w].child
    <3>1. regs' = [regs EXCEPT ![me] = NoRegs]
        BY <1>25 DEF StealGiveUp, GotoFresh
    <3>2. \A w \in Workers : /\ regs'[w].task = regs[w].task
                             /\ Carries(pc[w]) => regs'[w].child = regs[w].child
        BY <1>25, <3>1, <1>0, <1>1, Typed, NoRegsFacts DEF StealGiveUp,
           GotoFresh, RegsType, Carries,
           RunPc, SpawnPc
    <3>3. \A w \in Workers : Carries(pc'[w]) <=> Carries(pc[w])
        BY <1>25, <1>0, Typed DEF StealGiveUp, GotoFresh, Goto, Carries
    <3> QED
        BY <3>2, <3>3 DEF Carries
  <2> QED
      BY <2>1, <2>2, <1>0, <1>2, Quiet
<1>26. ASSUME NEW me \in Workers, StealFirstFails(me)
      PROVE  Apart' /\ NoRepeats'
  <2>1. UNCHANGED <<deque, inbox, spawned, ended>>
      BY <1>26 DEF StealFirstFails, queueVars, historyVars
  <2>2. \A w \in Workers :
            /\ regs'[w].task = regs[w].task
            /\ Carries(pc'[w]) <=> Carries(pc[w])
            /\ Carries(pc[w]) => regs'[w].child = regs[w].child
    <3>2. \A w \in Workers : /\ regs'[w].task = regs[w].task
                             /\ regs'[w].child = regs[w].child
        BY <1>26, <1>0, StealNotes DEF StealRandom, StealBuddy
    <3>3. \A w \in Workers : Carries(pc'[w]) <=> Carries(pc[w])
        BY <1>26, <1>0, Typed DEF StealFirstFails, Goto, Carries
    <3> QED
        BY <3>2, <3>3 DEF Carries
  <2> QED
      BY <2>1, <2>2, <1>0, <1>2, Quiet
<1>27. ASSUME NEW me \in Workers, StealDone(me)
      PROVE  Apart' /\ NoRepeats'
  <2>1. UNCHANGED <<deque, inbox, spawned, ended>>
      BY <1>27 DEF StealDone, queueVars, historyVars
  <2>2. \A w \in Workers :
            /\ regs'[w].task = regs[w].task
            /\ Carries(pc'[w]) <=> Carries(pc[w])
            /\ Carries(pc[w]) => regs'[w].child = regs[w].child
    <3>1. regs' = [regs EXCEPT ![me] = [NoRegs EXCEPT !.task = regs[me].task]]
        BY <1>27 DEF StealDone
    <3>2. \A w \in Workers : /\ regs'[w].task = regs[w].task
                             /\ w # me => regs'[w].child = regs[w].child
        BY <3>1, <1>0, Typed DEF NoRegs
    <3>4. ~Carries(pc[me])
        BY <1>27 DEF StealDone, Carries
    <3>3. \A w \in Workers : Carries(pc'[w]) <=> Carries(pc[w])
        BY <1>27, <1>0, Typed DEF StealDone, Goto, Carries
    <3> QED
        BY <3>2, <3>3, <3>4 DEF Carries
  <2> QED
      BY <2>1, <2>2, <1>0, <1>2, Quiet
<1>28. ASSUME NEW me \in Workers, CheckDone(me)
      PROVE  Apart' /\ NoRepeats'
  <2>1. UNCHANGED <<deque, inbox, spawned, ended>>
      BY <1>28 DEF CheckDone, CheckDoneNothingFound, SetReg, queueVars,
         historyVars
  <2>2. \A w \in Workers :
            /\ regs'[w].task = regs[w].task
            /\ Carries(pc'[w]) <=> Carries(pc[w])
            /\ Carries(pc[w]) => regs'[w].child = regs[w].child
    <3>1. PICK x :
              regs' = [regs EXCEPT ![me].leave = x]
        BY <1>28 DEF CheckDone, CheckDoneNothingFound, SetReg
    <3>2. \A w \in Workers : /\ regs'[w].task = regs[w].task
                             /\ regs'[w].child = regs[w].child
        BY <3>1, <1>0 DEF TypeOK, RegsType
    <3>3. \A w \in Workers : Carries(pc'[w]) <=> Carries(pc[w])
        BY <1>28, <1>0, Typed DEF CheckDone, CheckDoneNothingFound, SetReg,
           Goto, Carries
    <3> QED
        BY <3>2, <3>3 DEF Carries
  <2> QED
      BY <2>1, <2>2, <1>0, <1>2, Quiet
<1>29. ASSUME NEW me \in Workers, CheckRegister(me)
      PROVE  Apart' /\ NoRepeats'
  <2>1. UNCHANGED <<deque, inbox, spawned, ended>>
      BY <1>29 DEF CheckRegister, queueVars, historyVars
  <2>2. \A w \in Workers :
            /\ regs'[w].task = regs[w].task
            /\ Carries(pc'[w]) <=> Carries(pc[w])
            /\ Carries(pc[w]) => regs'[w].child = regs[w].child
      BY <1>29, <1>0, <1>1, Typed DEF CheckRegister, Goto, Carries
  <2> QED
      BY <2>1, <2>2, <1>0, <1>2, Quiet
<1>30. ASSUME NEW me \in Workers, ParkTerminated(me)
      PROVE  Apart' /\ NoRepeats'
  <2>1. UNCHANGED <<deque, inbox, spawned, ended>>
      BY <1>30 DEF ParkTerminated, queueVars, historyVars
  <2>2. \A w \in Workers :
            /\ regs'[w].task = regs[w].task
            /\ Carries(pc'[w]) <=> Carries(pc[w])
            /\ Carries(pc[w]) => regs'[w].child = regs[w].child
      BY <1>30, <1>0, <1>1, Typed DEF ParkTerminated, Goto, Carries
  <2> QED
      BY <2>1, <2>2, <1>0, <1>2, Quiet
<1>31. ASSUME NEW me \in Workers, ParkLock(me)
      PROVE  Apart' /\ NoRepeats'
  <2>1. UNCHANGED <<deque, inbox, spawned, ended>>
      BY <1>31 DEF ParkLock, queueVars, historyVars
  <2>2. \A w \in Workers :
            /\ regs'[w].task = regs[w].task
            /\ Carries(pc'[w]) <=> Carries(pc[w])
            /\ Carries(pc[w]) => regs'[w].child = regs[w].child
      BY <1>31, <1>0, <1>1, Typed DEF ParkLock, Goto, Carries
  <2> QED
      BY <2>1, <2>2, <1>0, <1>2, Quiet
<1>32. ASSUME NEW me \in Workers, ParkOutstanding(me)
      PROVE  Apart' /\ NoRepeats'
  <2>1. UNCHANGED <<deque, inbox, spawned, ended>>
      BY <1>32 DEF ParkOutstanding, queueVars, historyVars
  <2>2. \A w \in Workers :
            /\ regs'[w].task = regs[w].task
            /\ Carries(pc'[w]) <=> Carries(pc[w])
            /\ Carries(pc[w]) => regs'[w].child = regs[w].child
      BY <1>32, <1>0, <1>1, Typed DEF ParkOutstanding, Goto, Carries
  <2> QED
      BY <2>1, <2>2, <1>0, <1>2, Quiet
<1>33. ASSUME NEW me \in Workers, ParkInbox(me)
      PROVE  Apart' /\ NoRepeats'
  <2>1. UNCHANGED <<deque, inbox, spawned, ended>>
      BY <1>33 DEF ParkInbox, queueVars, historyVars
  <2>2. \A w \in Workers :
            /\ regs'[w].task = regs[w].task
            /\ Carries(pc'[w]) <=> Carries(pc[w])
            /\ Carries(pc[w]) => regs'[w].child = regs[w].child
      BY <1>33, <1>0, <1>1, Typed DEF ParkInbox, Goto, Carries
  <2> QED
      BY <2>1, <2>2, <1>0, <1>2, Quiet
<1>34. ASSUME NEW me \in Workers, ParkSleep(me)
      PROVE  Apart' /\ NoRepeats'
  <2>1. UNCHANGED <<deque, inbox, spawned, ended>>
      BY <1>34 DEF ParkSleep, ParkSleepAnyway, SetReg, queueVars, historyVars
  <2>2. \A w \in Workers :
            /\ regs'[w].task = regs[w].task
            /\ Carries(pc'[w]) <=> Carries(pc[w])
            /\ Carries(pc[w]) => regs'[w].child = regs[w].child
    <3>1. PICK x : regs' = [regs EXCEPT ![me].gen = x]
        BY <1>34 DEF ParkSleep, ParkSleepAnyway, SetReg
    <3>2. \A w \in Workers : /\ regs'[w].task = regs[w].task
                             /\ regs'[w].child = regs[w].child
        BY SMTT(30), <3>1, <1>0 DEF TypeOK, RegsType
    <3>3. \A w \in Workers : Carries(pc'[w]) <=> Carries(pc[w])
        BY <1>34, <1>0, Typed DEF ParkSleep, ParkSleepAnyway, SetReg, Goto,
           Carries
    <3> QED
        BY <3>2, <3>3 DEF Carries
  <2> QED
      BY <2>1, <2>2, <1>0, <1>2, Quiet
<1>35. ASSUME NEW me \in Workers, SpuriousWake(me)
      PROVE  Apart' /\ NoRepeats'
  <2>1. UNCHANGED <<deque, inbox, spawned, ended>>
      BY <1>35 DEF SpuriousWake, queueVars, historyVars
  <2>2. \A w \in Workers :
            /\ regs'[w].task = regs[w].task
            /\ Carries(pc'[w]) <=> Carries(pc[w])
            /\ Carries(pc[w]) => regs'[w].child = regs[w].child
      BY <1>35, <1>0, <1>1, Typed DEF SpuriousWake, Goto, Carries
  <2> QED
      BY <2>1, <2>2, <1>0, <1>2, Quiet
<1>36. ASSUME NEW me \in Workers, SleepOn(me)
      PROVE  Apart' /\ NoRepeats'
  <2>1. UNCHANGED <<deque, inbox, spawned, ended>>
      BY <1>36 DEF SleepOn, queueVars, historyVars
  <2>2. \A w \in Workers :
            /\ regs'[w].task = regs[w].task
            /\ Carries(pc'[w]) <=> Carries(pc[w])
            /\ Carries(pc[w]) => regs'[w].child = regs[w].child
      BY <1>36, <1>0, <1>1, Typed DEF SleepOn, Goto, Carries
  <2> QED
      BY <2>1, <2>2, <1>0, <1>2, Quiet
<1>37. ASSUME NEW me \in Workers, WakeUp(me)
      PROVE  Apart' /\ NoRepeats'
  <2>1. UNCHANGED <<deque, inbox, spawned, ended>>
      BY <1>37 DEF WakeUp, GotoFresh, queueVars, historyVars
  <2>2. \A w \in Workers :
            /\ regs'[w].task = regs[w].task
            /\ Carries(pc'[w]) <=> Carries(pc[w])
            /\ Carries(pc[w]) => regs'[w].child = regs[w].child
    <3>1. regs' = [regs EXCEPT ![me] = NoRegs]
        BY <1>37 DEF WakeUp, GotoFresh
    <3>2. \A w \in Workers : /\ regs'[w].task = regs[w].task
                             /\ Carries(pc[w]) => regs'[w].child = regs[w].child
        BY <1>37, <3>1, <1>0, <1>1, Typed, NoRegsFacts DEF WakeUp, GotoFresh,
           RegsType, Carries,
           RunPc, SpawnPc
    <3>3. \A w \in Workers : Carries(pc'[w]) <=> Carries(pc[w])
        BY <1>37, <1>0, Typed DEF WakeUp, GotoFresh, Goto, Carries
    <3> QED
        BY <3>2, <3>3 DEF Carries
  <2> QED
      BY <2>1, <2>2, <1>0, <1>2, Quiet
<1> QED
    BY <1>3, <1>4, <1>5, <1>6, <1>7, <1>8, <1>9, <1>10, <1>11, <1>12, <1>13,
       <1>14, <1>15, <1>16, <1>17, <1>18, <1>19, <1>20, <1>21, <1>22, <1>23,
       <1>24, <1>25, <1>26, <1>27, <1>28, <1>29, <1>30, <1>31, <1>32, <1>33,
       <1>34, <1>35, <1>36, <1>37 DEF Next, WorkerStep, Loop, Spawn, Finish,
       Steal, Park

\* What the steps that change the registers do to them.
LEMMA Notes ==
    ASSUME TypeOK, NEW me \in Workers, NEW x,
           SetReg(me, "bit", x) \/ SetReg(me, "leave", x) \/ SetReg(me, "gen", x)
    PROVE  /\ \A w \in Workers \ {me} : regs'[w] = regs[w]
           /\ \A w \in Workers : /\ regs'[w].task = regs[w].task
                                 /\ regs'[w].child = regs[w].child
                                 /\ regs'[w].target = regs[w].target
                                 /\ regs'[w].victim = regs[w].victim
                                 /\ regs'[w].want = regs[w].want
           /\ SetReg(me, "gen", x) => regs'[me].gen = x
           /\ ~SetReg(me, "gen", x) => \A w \in Workers : regs'[w].gen = regs[w].gen
<1>1. /\ DOMAIN regs = Workers
      /\ \A w \in Workers : DOMAIN regs[w] =
            {"task", "child", "target", "victim", "want", "bit", "did",
             "leave", "gen"}
    BY Typed DEF RegsType
<1>2. CASE regs' = [regs EXCEPT ![me].bit = x]
    BY <1>1, <1>2 DEF SetReg
<1>3. CASE regs' = [regs EXCEPT ![me].leave = x]
    BY <1>1, <1>3 DEF SetReg
<1>4. CASE regs' = [regs EXCEPT ![me].gen = x]
    BY <1>1, <1>4 DEF SetReg
<1> QED
    BY <1>2, <1>3, <1>4 DEF SetReg

LEMMA TaskRegs ==
    ASSUME TypeOK, NEW me \in Workers,
           PopTask(me) \/ StealFirst(me) \/ FinishTask(me)
    PROVE  /\ \A w \in Workers \ {me} : regs'[w] = regs[w]
           /\ \A w \in Workers : /\ regs'[w].child = regs[w].child
                                 /\ regs'[w].target = regs[w].target
                                 /\ regs'[w].victim = regs[w].victim
                                 /\ regs'[w].gen = regs[w].gen
           /\ PopTask(me) => regs'[me].task = Last(deque[me])
           /\ StealFirst(me) => regs'[me].task = Head(deque[regs[me].victim])
           /\ FinishTask(me) => regs'[me].task = 0
<1>1. /\ DOMAIN regs = Workers
      /\ \A w \in Workers : DOMAIN regs[w] =
            {"task", "child", "target", "victim", "want", "bit", "did",
             "leave", "gen"}
    BY Typed DEF RegsType
<1>2. PICK t : /\ PopTask(me) => t = Last(deque[me])
               /\ StealFirst(me) => t = Head(deque[regs[me].victim])
               /\ FinishTask(me) => t = 0
  <2>1. ~(PopTask(me) /\ StealFirst(me)) /\ ~(PopTask(me) /\ FinishTask(me))
        /\ ~(StealFirst(me) /\ FinishTask(me))
      BY DEF PopTask, StealFirst, FinishTask
  <2> QED
      BY <2>1
<1>3. PICK r : r = [regs EXCEPT ![me].task = t]
    OBVIOUS
<1>4. /\ DOMAIN r = Workers /\ DOMAIN r[me] = DOMAIN regs[me] /\ r[me].task = t
      /\ r[me].child = regs[me].child /\ r[me].target = regs[me].target
      /\ r[me].victim = regs[me].victim /\ r[me].gen = regs[me].gen
      /\ \A w \in Workers \ {me} : r[w] = regs[w]
    BY <1>1, <1>3
<1>5. CASE PopTask(me)
  <2>1. regs' = [r EXCEPT ![me].did = TRUE]
      BY <1>2, <1>3, <1>5 DEF PopTask
  <2>2. ~StealFirst(me) /\ ~FinishTask(me)
      BY <1>5 DEF PopTask, StealFirst, FinishTask
  <2> QED
      BY <2>1, <2>2, <1>1, <1>2, <1>4, <1>5
<1>6. CASE StealFirst(me)
  <2>1. PICK n : regs' = [r EXCEPT ![me].want = n]
    <3>1. PICK n : n = regs[me].want - 1
        OBVIOUS
    <3>2. regs' = [r EXCEPT ![me].want = n]
        BY <3>1, <1>2, <1>3, <1>6 DEF StealFirst
    <3> QED
        BY <3>2
  <2>2. ~PopTask(me) /\ ~FinishTask(me)
      BY <1>6 DEF PopTask, StealFirst, FinishTask
  <2> QED
      BY <2>1, <2>2, <1>1, <1>2, <1>4, <1>6
<1>7. CASE FinishTask(me)
  <2>1. regs' = r
      BY <1>2, <1>3, <1>7 DEF FinishTask, SetReg
  <2>2. ~StealFirst(me) /\ ~PopTask(me)
      BY <1>7 DEF PopTask, StealFirst, FinishTask
  <2> QED
      BY <2>1, <2>2, <1>1, <1>2, <1>4, <1>7
<1> QED
    BY <1>5, <1>6, <1>7

LEMMA ChildRegs ==
    ASSUME TypeOK, NEW me \in Workers,
           \/ SpawnCount(me) \/ SpawnPush(me) \/ InboxStore(me)
           \/ \E target \in Workers : SpawnAtCount(me, target)
    PROVE  /\ \A w \in Workers \ {me} : regs'[w] = regs[w]
           /\ \A w \in Workers : /\ regs'[w].task = regs[w].task
                                 /\ regs'[w].victim = regs[w].victim
                                 /\ regs'[w].want = regs[w].want
                                 /\ regs'[w].gen = regs[w].gen
           /\ pc[me] = "run" => regs'[me].child = spawned + 1
           /\ pc[me] # "run" => regs'[me].child = 0
<1>1. /\ DOMAIN regs = Workers
      /\ \A w \in Workers : DOMAIN regs[w] =
            {"task", "child", "target", "victim", "want", "bit", "did",
             "leave", "gen"}
    BY Typed DEF RegsType
<1>2. PICK t : t = IF pc[me] = "run" THEN spawned + 1 ELSE 0
    OBVIOUS
<1>3. PICK r : r = [regs EXCEPT ![me].child = t]
    OBVIOUS
<1>4. /\ DOMAIN r = Workers /\ DOMAIN r[me] = DOMAIN regs[me] /\ r[me].child = t
      /\ r[me].task = regs[me].task /\ r[me].want = regs[me].want
      /\ r[me].victim = regs[me].victim /\ r[me].gen = regs[me].gen
      /\ \A w \in Workers \ {me} : r[w] = regs[w]
    BY <1>1, <1>3
<1>5. CASE SpawnCount(me)
  <2>1. regs' = r /\ t = spawned + 1 /\ pc[me] = "run"
      BY <1>2, <1>3, <1>5 DEF SpawnCount, MaySpawn, SetReg
  <2> QED
      BY <2>1, <1>4
<1>6. CASE SpawnPush(me)
  <2>1. regs' = r /\ t = 0 /\ pc[me] # "run"
      BY <1>2, <1>3, <1>6 DEF SpawnPush, SetReg
  <2> QED
      BY <2>1, <1>4
<1>7. CASE InboxStore(me)
  <2>1. regs' = [r EXCEPT ![me].target = 0] /\ t = 0 /\ pc[me] # "run"
      BY <1>2, <1>3, <1>7 DEF InboxStore
  <2> QED
      BY <2>1, <1>1, <1>4
<1>8. CASE \E target \in Workers : SpawnAtCount(me, target)
  <2>1. PICK target \in Workers : SpawnAtCount(me, target)
      BY <1>8
  <2>2. /\ regs' = [r EXCEPT ![me].target = target]
        /\ t = spawned + 1 /\ pc[me] = "run"
      BY <2>1, <1>2, <1>3 DEF SpawnAtCount, SpawnAt, MaySpawn
  <2> QED
      BY <2>2, <1>1, <1>4
<1> QED
    BY <1>5, <1>6, <1>7, <1>8

\* A worker that stays where it is, or is woken, with its registers.
LEMMA Unmoved ==
    ASSUME NEW w \in Workers, RegsOk(w),
           regs'[w].task = regs[w].task, regs'[w].child = regs[w].child,
           regs'[w].victim = regs[w].victim, regs'[w].want = regs[w].want,
           \/ pc'[w] = pc[w]
           \/ pc[w] = "asleep" /\ pc'[w] = "woken",
           pc[w] \in IdlePc => deque'[w] = <<>>
    PROVE  RegsOk(w)'
BY DEF RegsOk, RunPc, SpawnPc, IdlePc, ParkPc

\* The registers say where a worker is.
LEMMA RegsStep ==
    ASSUME IndInv, Next
    PROVE  \A w \in Workers : RegsOk(w)'
<1>0. /\ TypeOK /\ CountInv /\ RegsInv /\ Apart /\ NoRepeats
      /\ \A w \in Workers : RegsOk(w)
    BY DEF IndInv, TasksInv, RegsInv
<1> USE DEF RunPc, SpawnPc, IdlePc, ParkPc
<1>1. ASSUME NEW me \in Workers, DrainInbox(me), NEW w \in Workers
      PROVE  RegsOk(w)'
    BY <1>1, <1>0, Typed DEF DrainInbox, Goto, RegsOk, RegsType,
       parkVars, queueVars, historyVars
<1>2. ASSUME NEW me \in Workers, DrainDone(me), NEW w \in Workers
      PROVE  RegsOk(w)'
    BY <1>2, <1>0, Typed DEF DrainDone, Goto, RegsOk, RegsType,
       parkVars, queueVars, historyVars
<1>3. ASSUME NEW me \in Workers, PopTask(me), NEW w \in Workers
      PROVE  RegsOk(w)'
  <2>r. \A v \in Workers \ {me} : regs'[v] = regs[v]
      BY <1>3, <1>0, TaskRegs
  <2>p. /\ pc[me] = "pop" /\ pc'[me] = "run" 
        /\ \A v \in Workers \ {me} : pc'[v] = pc[v]
      BY <1>3, <1>0, Typed DEF PopTask, Goto
  <2>d. \A v \in Workers \ {me} : deque'[v] = deque[v]
    <3>0. PICK x : x = Front(deque[me])
        OBVIOUS
    <3>1. deque' = [deque EXCEPT ![me] = x]
        BY <1>3, <3>0 DEF PopTask
    <3> QED
        BY <3>1, <1>0, Typed
  <2>1. CASE w # me
      BY <1>0, <2>r, <2>p, <2>d, <2>1, Unmoved DEF RegsOk
  <2>2. CASE w = me
    <3>0. deque[me] # <<>> /\ deque[me] \in Seq(1..MaxTasks)
        BY <1>3, <1>0, Typed DEF PopTask
    <3>a. PICK x : x = Last(deque[me])
        OBVIOUS
    <3>c. Last(deque[me]) \in 1..MaxTasks
        BY <3>0, FrontFacts
    <3>b. x # 0
        BY <3>a, <3>c, SchedulerAssumption
    <3>1. regs'[me].task # 0
        BY <1>3, <1>0, <3>a, <3>b, TaskRegs
    <3>2. regs'[me].child = 0
        BY <1>3, <1>0, <2>p, TaskRegs DEF RegsOk
    <3> QED
        BY <2>2, <2>p, <3>1, <3>2 DEF RegsOk
  <2> QED
      BY <2>1, <2>2
<1>4. ASSUME NEW me \in Workers, PopNone(me), NEW w \in Workers
      PROVE  RegsOk(w)'
    BY <1>4, <1>0, Typed, NoRegsFacts DEF PopNone, GotoFresh, Goto, RegsOk,
       RegsType,
       parkVars, queueVars, historyVars
<1>5. ASSUME NEW me \in Workers, SpawnCount(me), NEW w \in Workers
      PROVE  RegsOk(w)'
    BY <1>5, <1>0, Typed DEF SpawnCount, MaySpawn, SetReg, Goto, RegsOk,
       RegsType,
       parkVars, queueVars, historyVars
<1>6. ASSUME NEW me \in Workers, SpawnPush(me), NEW w \in Workers
      PROVE  RegsOk(w)'
    BY <1>6, <1>0, Typed DEF SpawnPush, SetReg, Goto, RegsOk, RegsType,
       parkVars, queueVars, historyVars
<1>7. ASSUME NEW me \in Workers, SpawnClear(me), NEW w \in Workers
      PROVE  RegsOk(w)'
    BY <1>7, <1>0, Typed DEF SpawnClear, Goto, RegsOk, RegsType,
       parkVars, queueVars, historyVars
<1>8. ASSUME NEW me \in Workers, NEW target \in Workers,
             SpawnAtCount(me, target), NEW w \in Workers
      PROVE  RegsOk(w)'
  <2>r. \A v \in Workers \ {me} : regs'[v] = regs[v]
      BY <1>8, <1>0, ChildRegs
  <2>p. /\ pc[me] = "run" /\ pc'[me] = "inbox_claim" 
        /\ \A v \in Workers \ {me} : pc'[v] = pc[v]
      BY <1>8, <1>0, Typed DEF SpawnAtCount, SpawnAt, MaySpawn, Goto
  <2>d. deque' = deque
      BY <1>8 DEF SpawnAtCount, SpawnAt, queueVars
  <2>1. CASE w # me
      BY <1>0, <2>r, <2>p, <2>d, <2>1, Unmoved DEF RegsOk
  <2>2. CASE w = me
    <3>1. regs'[me].child # 0
        BY SMTT(30), <1>8, <1>0, <2>p, Typed, ChildRegs
    <3>2. regs'[me].task # 0
        BY <1>8, <1>0, <2>p, ChildRegs DEF RegsOk
    <3> QED
        BY <2>2, <2>p, <3>1, <3>2 DEF RegsOk
  <2> QED
      BY <2>1, <2>2
<1>9. ASSUME NEW me \in Workers, InboxClaim(me), NEW w \in Workers
      PROVE  RegsOk(w)'
    BY <1>9, <1>0, Typed DEF InboxClaim, Goto, RegsOk, RegsType,
       parkVars, queueVars, historyVars
<1>10. ASSUME NEW me \in Workers, InboxStore(me), NEW w \in Workers
      PROVE  RegsOk(w)'
  <2>r. \A v \in Workers \ {me} : regs'[v] = regs[v]
      BY <1>10, <1>0, ChildRegs
  <2>p. /\ pc[me] = "inbox_store" /\ pc'[me] = "signal" 
        /\ \A v \in Workers \ {me} : pc'[v] = pc[v]
      BY <1>10, <1>0, Typed DEF InboxStore, Goto
  <2>d. deque' = deque
      BY <1>10 DEF InboxStore, queueVars
  <2>1. CASE w # me
      BY <1>0, <2>r, <2>p, <2>d, <2>1, Unmoved DEF RegsOk
  <2>2. CASE w = me
    <3>1. regs'[me].child = 0
        BY <1>10, <1>0, <2>p, Typed, ChildRegs
    <3>2. regs'[me].task # 0
        BY <1>10, <1>0, <2>p, ChildRegs DEF RegsOk
    <3> QED
        BY <2>2, <2>p, <3>1, <3>2 DEF RegsOk
  <2> QED
      BY <2>1, <2>2
<1>11. ASSUME NEW me \in Workers, SignalWork(me), NEW w \in Workers
      PROVE  RegsOk(w)'
    BY <1>11, <1>0, Typed DEF SignalWork, Goto, RegsOk, RegsType,
       parkVars, queueVars, historyVars
<1>12. ASSUME NEW me \in Workers, SignalNotify(me), NEW w \in Workers
      PROVE  RegsOk(w)'
    BY <1>12, <1>0, Typed DEF SignalNotify, WakeAll, Goto, RegsOk, RegsType,
       parkVars, queueVars, historyVars
<1>13. ASSUME NEW me \in Workers, TaskPanics(me), NEW w \in Workers
      PROVE  RegsOk(w)'
    BY <1>13, <1>0, Typed DEF TaskPanics, Goto, RegsOk, RegsType,
       parkVars, queueVars, historyVars
<1>14. ASSUME NEW me \in Workers, FinishTask(me), NEW w \in Workers
      PROVE  RegsOk(w)'
  <2>r. \A v \in Workers \ {me} : regs'[v] = regs[v]
      BY <1>14, <1>0, TaskRegs
  <2>p. pc[me] = "run" /\ pc'[me] \in {"declare", "pop", "drain"}
        /\ \A v \in Workers \ {me} : pc'[v] = pc[v]
      BY <1>14, <1>0, Typed DEF FinishTask, AfterRun, Goto
  <2>d. deque' = deque
      BY <1>14 DEF FinishTask, queueVars
  <2>1. CASE w # me
      BY <1>0, <2>r, <2>p, <2>d, <2>1, Unmoved DEF RegsOk
  <2>2. CASE w = me
    <3>1. regs'[me].task = 0
        BY <1>14, <1>0, TaskRegs
    <3>2. regs'[me].child = 0
        BY <1>14, <1>0, <2>p, TaskRegs DEF RegsOk
    <3> QED
        BY <2>2, <2>p, <3>1, <3>2 DEF RegsOk
  <2> QED
      BY <2>1, <2>2
<1>15. ASSUME NEW me \in Workers, Declare(me), NEW w \in Workers
      PROVE  RegsOk(w)'
    BY <1>15, <1>0, Typed DEF Declare, Goto, RegsOk, RegsType,
       parkVars, queueVars, historyVars
<1>16. ASSUME NEW me \in Workers, DeclareNotify(me), NEW w \in Workers
      PROVE  RegsOk(w)'
  <2>r. \A v \in Workers : /\ regs'[v].task = regs[v].task
                           /\ regs'[v].child = regs[v].child
                           /\ regs'[v].victim = regs[v].victim
                           /\ regs'[v].want = regs[v].want
      BY <1>16, <1>0, Notes DEF DeclareNotify
  <2>p. /\ pc[me] = "declare_notify" /\ pc'[me] \in {"exited", "pop", "drain"}
        /\ \A v \in Workers \ {me} : \/ pc'[v] = pc[v]
                                     \/ pc[v] = "asleep" /\ pc'[v] = "woken"
      BY <1>16, <1>0, Typed DEF DeclareNotify, WakeAll, AfterRun
  <2>d. deque' = deque
      BY <1>16 DEF DeclareNotify, queueVars
  <2>1. CASE w # me
      BY <1>0, <2>r, <2>p, <2>d, <2>1, Unmoved DEF RegsOk
  <2>2. CASE w = me
      BY <1>0, <2>r, <2>p, <2>2 DEF RegsOk
  <2> QED
      BY <2>1, <2>2
<1>17. ASSUME NEW me \in Workers, NEW v \in Workers,
              StealRandom(me, v), NEW w \in Workers
      PROVE  RegsOk(w)'
  <2>q. /\ regs'[me].task = regs[me].task
        /\ regs'[me].child = regs[me].child
        /\ regs'[me].victim # me
        /\ regs'[me].want > 0
    <3>1. Estimate(me, v, 1) /\ v # me /\ deque[v] # <<>>
        BY <1>17 DEF StealRandom, Estimate
    <3>2. PICK n : n = (Len(deque[v]) + 1) \div 2
        OBVIOUS
    <3>3. n > 0
        BY <3>1, <3>2, <1>0, WantFacts
    <3>4. regs'[me].victim = v /\ regs'[me].want = n
        BY <3>1, <3>2, <1>0, StealNotes
    <3>5. /\ regs'[me].task = regs[me].task
          /\ regs'[me].child = regs[me].child
        BY <3>1, <1>0, StealNotes
    <3> QED
        BY <3>1, <3>3, <3>4, <3>5
  <2>r. \A u \in Workers \ {me} : regs'[u] = regs[u]
      BY <1>17, <1>0, StealNotes DEF StealRandom
  <2>p. /\ pc[me] = "steal" /\ pc'[me] = "steal_first" 
        /\ \A u \in Workers \ {me} : pc'[u] = pc[u]
      BY <1>17, <1>0, Typed DEF StealRandom, Estimate, Goto
  <2>d. deque' = deque
      BY <1>17 DEF StealRandom, queueVars
  <2>1. CASE w # me
      BY <1>0, <2>r, <2>p, <2>d, <2>1, Unmoved DEF RegsOk
  <2>2. CASE w = me
    <3>1. regs'[me].task = 0 /\ regs'[me].child = 0
        BY <1>0, <2>p, <2>q DEF RegsOk
    <3>2. deque'[me] = <<>>
        BY <1>0, <2>p, <2>d DEF RegsOk
    <3> QED
        BY <2>2, <2>p, <2>q, <3>1, <3>2 DEF RegsOk
  <2> QED
      BY <2>1, <2>2
<1>18. ASSUME NEW me \in Workers, StealNoLuck(me), NEW w \in Workers
      PROVE  RegsOk(w)'
  <2>q. /\ regs'[me].task = regs[me].task
        /\ regs'[me].child = regs[me].child
        /\ regs'[me].victim = regs[me].victim
        /\ regs'[me].want = regs[me].want
      BY <1>18, <1>0, Notes DEF StealNoLuck
  <2>r. \A v \in Workers \ {me} : regs'[v] = regs[v]
      BY <1>18, <1>0, Notes DEF StealNoLuck
  <2>p. /\ pc[me] = "steal" /\ pc'[me] = "buddy" 
        /\ \A v \in Workers \ {me} : pc'[v] = pc[v]
      BY <1>18, <1>0, Typed DEF StealNoLuck, Goto
  <2>d. deque' = deque
      BY <1>18 DEF StealNoLuck, queueVars
  <2>1. CASE w # me
      BY <1>0, <2>r, <2>p, <2>d, <2>1, Unmoved DEF RegsOk
  <2>2. CASE w = me
    <3>1. regs'[me].task = 0 /\ regs'[me].child = 0
        BY <1>0, <2>p, <2>q DEF RegsOk
    <3> QED
        BY <2>2, <2>p, <2>q, <2>d, <3>1, <1>0 DEF RegsOk
  <2> QED
      BY <2>1, <2>2
<1>19. ASSUME NEW me \in Workers, StealBuddy(me), NEW w \in Workers
      PROVE  RegsOk(w)'
  <2>q. /\ regs'[me].task = regs[me].task
        /\ regs'[me].child = regs[me].child
        /\ regs'[me].victim # me
        /\ regs'[me].want > 0
    <3>1. PICK v, bit : /\ v = FlipBit(me, NextLifeline(me))
                        /\ Estimate(me, v, bit)
        BY <1>19 DEF StealBuddy
    <3>2. v \in Workers /\ v # me /\ deque[v] # <<>>
        BY <1>19, <3>1, <1>0, NextLifelineFacts, LifelineFacts DEF StealBuddy,
           Estimate
    <3>3. PICK n : n = (Len(deque[v]) + 1) \div 2
        OBVIOUS
    <3>4. n > 0
        BY <3>2, <3>3, <1>0, WantFacts
    <3>5. regs'[me].victim = v /\ regs'[me].want = n
        BY <3>1, <3>3, <1>0, StealNotes
    <3>6. /\ regs'[me].task = regs[me].task
          /\ regs'[me].child = regs[me].child
        BY <3>1, <1>0, StealNotes
    <3> QED
        BY <3>2, <3>4, <3>5, <3>6
  <2>r. \A v \in Workers \ {me} : regs'[v] = regs[v]
      BY <1>19, <1>0, StealNotes DEF StealBuddy
  <2>p. /\ pc[me] = "buddy" /\ pc'[me] = "steal_first" 
        /\ \A v \in Workers \ {me} : pc'[v] = pc[v]
      BY <1>19, <1>0, Typed DEF StealBuddy, Estimate, Goto
  <2>d. deque' = deque
      BY <1>19 DEF StealBuddy, queueVars
  <2>1. CASE w # me
      BY <1>0, <2>r, <2>p, <2>d, <2>1, Unmoved DEF RegsOk
  <2>2. CASE w = me
    <3>1. regs'[me].task = 0 /\ regs'[me].child = 0
        BY <1>0, <2>p, <2>q DEF RegsOk
    <3>2. deque'[me] = <<>>
        BY <1>0, <2>p, <2>d DEF RegsOk
    <3> QED
        BY <2>2, <2>p, <2>q, <3>1, <3>2 DEF RegsOk
  <2> QED
      BY <2>1, <2>2
<1>20. ASSUME NEW me \in Workers, StealBuddyEmpty(me), NEW w \in Workers
      PROVE  RegsOk(w)'
  <2>q. /\ regs'[me].task = regs[me].task
        /\ regs'[me].child = regs[me].child
        /\ regs'[me].victim = regs[me].victim
        /\ regs'[me].want = regs[me].want
      BY <1>20, <1>0, Notes DEF StealBuddyEmpty
  <2>r. \A v \in Workers \ {me} : regs'[v] = regs[v]
      BY <1>20, <1>0, Notes DEF StealBuddyEmpty
  <2>p. /\ pc[me] = "buddy" /\ pc'[me] = "buddy" 
        /\ \A v \in Workers \ {me} : pc'[v] = pc[v]
      BY <1>20, <1>0, Typed DEF StealBuddyEmpty
  <2>d. deque' = deque
      BY <1>20 DEF StealBuddyEmpty, queueVars
  <2>1. CASE w # me
      BY <1>0, <2>r, <2>p, <2>d, <2>1, Unmoved DEF RegsOk
  <2>2. CASE w = me
    <3>1. regs'[me].task = 0 /\ regs'[me].child = 0
        BY <1>0, <2>p, <2>q DEF RegsOk
    <3> QED
        BY <2>2, <2>p, <2>q, <2>d, <3>1, <1>0 DEF RegsOk
  <2> QED
      BY <2>1, <2>2
<1>21. ASSUME NEW me \in Workers, StealGiveUp(me), NEW w \in Workers
      PROVE  RegsOk(w)'
    BY <1>21, <1>0, Typed, NoRegsFacts DEF StealGiveUp, GotoFresh, Goto,
       RegsOk, RegsType,
       parkVars, queueVars, historyVars
<1>22. ASSUME NEW me \in Workers, StealFirst(me), NEW w \in Workers
      PROVE  RegsOk(w)'
  <2>r. \A v \in Workers \ {me} : regs'[v] = regs[v]
      BY <1>22, <1>0, TaskRegs
  <2>p. /\ pc[me] = "steal_first" /\ pc'[me] = "steal_more" 
        /\ \A v \in Workers \ {me} : pc'[v] = pc[v]
      BY <1>22, <1>0, Typed DEF StealFirst, Goto
  <2>d. \A v \in Workers \ {me} : deque'[v] = deque[v] \/ deque[v] # <<>>
    <3>0. PICK x : x = Tail(deque[regs[me].victim])
        OBVIOUS
    <3>1. deque' = [deque EXCEPT ![regs[me].victim] = x]
        BY <1>22, <3>0 DEF StealFirst
    <3>2. deque[regs[me].victim] # <<>>
        BY <1>22 DEF StealFirst
    <3> QED
        BY <3>1, <3>2, <1>0, Typed
  <2>1. CASE w # me
      BY <1>0, <2>r, <2>p, <2>d, <2>1, Unmoved DEF RegsOk
  <2>2. CASE w = me
    <3>0. /\ deque[regs[me].victim] # <<>>
          /\ deque[regs[me].victim] \in Seq(1..MaxTasks)
        BY <1>22, <1>0, Typed DEF StealFirst
    <3>a. PICK x : x = Head(deque[regs[me].victim])
        OBVIOUS
    <3>c. Head(deque[regs[me].victim]) \in 1..MaxTasks
        BY <3>0, TailFacts
    <3>b. x # 0
        BY <3>a, <3>c, SchedulerAssumption
    <3>1. regs'[me].task # 0
        BY <1>22, <1>0, <3>a, <3>b, TaskRegs
    <3>2. regs'[me].child = 0 /\ regs'[me].victim # me
        BY <1>22, <1>0, <2>p, TaskRegs DEF RegsOk
    <3> QED
        BY <2>2, <2>p, <3>1, <3>2 DEF RegsOk
  <2> QED
      BY <2>1, <2>2
<1>23. ASSUME NEW me \in Workers, StealFirstFails(me), NEW w \in Workers
      PROVE  RegsOk(w)'
  <2>q. /\ regs'[me].task = regs[me].task
        /\ regs'[me].child = regs[me].child
      BY <1>23, <1>0, StealNotes
  <2>r. \A v \in Workers \ {me} : regs'[v] = regs[v]
      BY <1>23, <1>0, StealNotes
  <2>p. /\ pc[me] = "steal_first" /\ pc'[me] = "buddy" 
        /\ \A v \in Workers \ {me} : pc'[v] = pc[v]
      BY <1>23, <1>0, Typed DEF StealFirstFails, Goto
  <2>d. deque' = deque
      BY <1>23 DEF StealFirstFails, queueVars
  <2>1. CASE w # me
      BY <1>0, <2>r, <2>p, <2>d, <2>1, Unmoved DEF RegsOk
  <2>2. CASE w = me
    <3>1. regs'[me].task = 0 /\ regs'[me].child = 0
        BY <1>0, <2>p, <2>q DEF RegsOk
    <3>2. deque'[me] = <<>>
        BY <1>0, <2>p, <2>d DEF RegsOk
    <3> QED
        BY <2>2, <2>p, <2>q, <3>1, <3>2 DEF RegsOk
  <2> QED
      BY <2>1, <2>2
<1>24. ASSUME NEW me \in Workers, StealMore(me), NEW w \in Workers
      PROVE  RegsOk(w)'
  <2>q. /\ regs'[me].task = regs[me].task
        /\ regs'[me].child = regs[me].child
        /\ regs'[me].victim = regs[me].victim
        /\ \A v \in Workers \ {me} : regs'[v] = regs[v]
    <3>1. PICK n : regs' = [regs EXCEPT ![me].want = n]
        BY <1>24 DEF StealMore, SetReg
    <3> QED
        BY <3>1, <1>0, Typed DEF RegsType
  <2>r. \A v \in Workers \ {me} : regs'[v] = regs[v]
      BY <2>q
  <2>p. /\ pc[me] = "steal_more" /\ pc'[me] = "steal_more" 
        /\ \A v \in Workers \ {me} : pc'[v] = pc[v]
      BY <1>24, <1>0, Typed DEF StealMore
  <2>d. \A v \in Workers \ {me} : deque'[v] = deque[v] \/ deque[v] # <<>>
    <3>1. PICK x, y : deque' = [deque EXCEPT ![regs[me].victim] = x, ![me] = y]
        BY <1>24 DEF StealMore
    <3>2. deque[regs[me].victim] # <<>>
        BY <1>24 DEF StealMore
    <3> QED
        BY <3>1, <3>2, <1>0, Typed
  <2>1. CASE w # me
      BY <1>0, <2>r, <2>p, <2>d, <2>1, Unmoved DEF RegsOk
  <2>2. CASE w = me
    <3>1. /\ regs'[me].task # 0 /\ regs'[me].child = 0
          /\ regs'[me].victim # me
        BY <1>0, <2>p, <2>q DEF RegsOk
    <3> QED
        BY <2>2, <2>p, <3>1 DEF RegsOk
  <2> QED
      BY <2>1, <2>2
<1>25. ASSUME NEW me \in Workers, StealDone(me), NEW w \in Workers
      PROVE  RegsOk(w)'
    BY <1>25, <1>0, Typed, NoRegsFacts DEF StealDone, Goto, RegsOk, RegsType,
       parkVars, queueVars, historyVars
<1>26. ASSUME NEW me \in Workers, CheckDone(me), NEW w \in Workers
      PROVE  RegsOk(w)'
  <2>q. /\ regs'[me].task = regs[me].task
        /\ regs'[me].child = regs[me].child
        /\ regs'[me].victim = regs[me].victim
        /\ regs'[me].want = regs[me].want
      BY <1>26, <1>0, Notes DEF CheckDone, CheckDoneNothingFound
  <2>r. \A v \in Workers \ {me} : regs'[v] = regs[v]
      BY <1>26, <1>0, Notes DEF CheckDone, CheckDoneNothingFound
  <2>p. /\ pc[me] = "check" /\ pc'[me] = "declare" 
        /\ \A v \in Workers \ {me} : pc'[v] = pc[v]
      BY <1>26, <1>0, Typed DEF CheckDone, CheckDoneNothingFound, Goto
  <2>d. deque' = deque
      BY <1>26 DEF CheckDone, CheckDoneNothingFound, queueVars
  <2>1. CASE w # me
      BY <1>0, <2>r, <2>p, <2>d, <2>1, Unmoved DEF RegsOk
  <2>2. CASE w = me
    <3>1. regs'[me].task = 0 /\ regs'[me].child = 0
        BY <1>0, <2>p, <2>q DEF RegsOk
    <3> QED
        BY <2>2, <2>p, <2>q, <2>d, <3>1, <1>0 DEF RegsOk
  <2> QED
      BY <2>1, <2>2
<1>27. ASSUME NEW me \in Workers, CheckRegister(me), NEW w \in Workers
      PROVE  RegsOk(w)'
    BY <1>27, <1>0, Typed DEF CheckRegister, Goto, RegsOk, RegsType,
       parkVars, queueVars, historyVars
<1>28. ASSUME NEW me \in Workers, ParkTerminated(me), NEW w \in Workers
      PROVE  RegsOk(w)'
    BY <1>28, <1>0, Typed DEF ParkTerminated, Goto, RegsOk, RegsType,
       parkVars, queueVars, historyVars
<1>29. ASSUME NEW me \in Workers, ParkLock(me), NEW w \in Workers
      PROVE  RegsOk(w)'
    BY <1>29, <1>0, Typed DEF ParkLock, Goto, RegsOk, RegsType,
       parkVars, queueVars, historyVars
<1>30. ASSUME NEW me \in Workers, ParkOutstanding(me), NEW w \in Workers
      PROVE  RegsOk(w)'
    BY <1>30, <1>0, Typed DEF ParkOutstanding, Goto, RegsOk, RegsType,
       parkVars, queueVars, historyVars
<1>31. ASSUME NEW me \in Workers, ParkInbox(me), NEW w \in Workers
      PROVE  RegsOk(w)'
    BY <1>31, <1>0, Typed DEF ParkInbox, Goto, RegsOk, RegsType,
       parkVars, queueVars, historyVars
<1>32. ASSUME NEW me \in Workers, ParkSleep(me), NEW w \in Workers
      PROVE  RegsOk(w)'
  <2>q. /\ regs'[me].task = regs[me].task
        /\ regs'[me].child = regs[me].child
        /\ regs'[me].victim = regs[me].victim
        /\ regs'[me].want = regs[me].want
      BY <1>32, <1>0, Notes DEF ParkSleep, ParkSleepAnyway
  <2>r. \A v \in Workers \ {me} : regs'[v] = regs[v]
      BY <1>32, <1>0, Notes DEF ParkSleep, ParkSleepAnyway
  <2>p. /\ pc[me] = "park_inbox" /\ pc'[me] = "asleep" 
        /\ \A v \in Workers \ {me} : pc'[v] = pc[v]
      BY <1>32, <1>0, Typed DEF ParkSleep, ParkSleepAnyway, Goto
  <2>d. deque' = deque
      BY <1>32 DEF ParkSleep, ParkSleepAnyway, queueVars
  <2>1. CASE w # me
      BY <1>0, <2>r, <2>p, <2>d, <2>1, Unmoved DEF RegsOk
  <2>2. CASE w = me
    <3>1. regs'[me].task = 0 /\ regs'[me].child = 0
        BY <1>0, <2>p, <2>q DEF RegsOk
    <3> QED
        BY <2>2, <2>p, <2>q, <2>d, <3>1, <1>0 DEF RegsOk
  <2> QED
      BY <2>1, <2>2
<1>33. ASSUME NEW me \in Workers, SpuriousWake(me), NEW w \in Workers
      PROVE  RegsOk(w)'
    BY <1>33, <1>0, Typed DEF SpuriousWake, Goto, RegsOk, RegsType,
       parkVars, queueVars, historyVars
<1>34. ASSUME NEW me \in Workers, SleepOn(me), NEW w \in Workers
      PROVE  RegsOk(w)'
    BY <1>34, <1>0, Typed DEF SleepOn, Goto, RegsOk, RegsType,
       parkVars, queueVars, historyVars
<1>35. ASSUME NEW me \in Workers, WakeUp(me), NEW w \in Workers
      PROVE  RegsOk(w)'
    BY <1>35, <1>0, Typed, NoRegsFacts DEF WakeUp, GotoFresh, Goto, RegsOk,
       RegsType,
       parkVars, queueVars, historyVars
<1> QED
    BY <1>1, <1>2, <1>3, <1>4, <1>5, <1>6, <1>7, <1>8, <1>9, <1>10, <1>11,
       <1>12, <1>13, <1>14, <1>15, <1>16, <1>17, <1>18, <1>19, <1>20, <1>21,
       <1>22, <1>23, <1>24, <1>25, <1>26, <1>27, <1>28, <1>29, <1>30, <1>31,
       <1>32, <1>33, <1>34, <1>35 DEF Next, WorkerStep, Loop, Spawn, Finish,
       Steal, Park

\* What a step of one worker does to the others, and to what they share.  A
\* sleeper is woken, and nothing else becomes of the others.
Does(me) ==
    /\ \A w \in Workers \ {me} :
          /\ regs'[w] = regs[w]
          /\ \/ pc'[w] = pc[w]
             \/ pc[w] = "asleep" /\ pc'[w] = "woken"
          /\ pc[me] \in {"notify", "declare_notify"} => pc'[w] # "asleep"
    /\ \/ UNCHANGED inbox
       \/ DrainInbox(me) \/ InboxClaim(me) \/ InboxStore(me)
    /\ \/ UNCHANGED <<outstanding, historyVars>>
       \/ SpawnCount(me) \/ FinishTask(me)
       \/ \E target \in Workers : SpawnAtCount(me, target)
    /\ IF pc[me] = "signal" THEN generation' = generation + 1
                            ELSE generation' = generation
    /\ \/ terminated' = terminated
       \/ parkLock = Nobody /\ pc[me] = "declare"
    /\ \/ parkLock' = parkLock
       \/ parkLock = Nobody
       \/ pc[me] \in {"park_outstanding", "park_inbox"}
    /\ pc[me] = "declare" => terminated' /\ pc'[me] = "declare_notify"
    /\ pc[me] = "signal" => pc'[me] = "notify"
    /\ pc[me] = "inbox_store" => pc'[me] = "signal"
    /\ pc'[me] = "inbox_store" => InboxClaim(me)

LEMMA Doing ==
    ASSUME TypeOK, NEW me \in Workers,
           WorkerStep(me) \/ TaskPanics(me) \/ SpuriousWake(me)
    PROVE  Does(me)
<1>1. CASE DrainInbox(me)
  <2>2. \A w \in Workers \ {me} : regs'[w] = regs[w]
      BY <1>1, Typed DEF DrainInbox, Goto, SetReg
  <2> QED
      BY <1>1, <2>2, Typed DEF Does, DrainInbox, Goto, parkVars, queueVars,
         historyVars
<1>2. CASE DrainDone(me)
  <2>2. \A w \in Workers \ {me} : regs'[w] = regs[w]
      BY <1>2, Typed DEF DrainDone, Goto, SetReg
  <2> QED
      BY <1>2, <2>2, Typed DEF Does, DrainDone, Goto, parkVars, queueVars,
         historyVars
<1>3. CASE PopTask(me)
  <2>2. \A w \in Workers \ {me} : regs'[w] = regs[w]
      BY <1>3, TaskRegs
  <2> QED
      BY <1>3, <2>2, Typed DEF Does, PopTask, Goto, parkVars, queueVars,
         historyVars
<1>4. CASE PopNone(me)
  <2>2. \A w \in Workers \ {me} : regs'[w] = regs[w]
      BY <1>4, Typed DEF PopNone, GotoFresh, SetReg
  <2> QED
      BY <1>4, <2>2, Typed DEF Does, PopNone, GotoFresh, Goto, parkVars,
         queueVars, historyVars
<1>5. CASE SpawnCount(me)
  <2>2. \A w \in Workers \ {me} : regs'[w] = regs[w]
      BY <1>5, ChildRegs
  <2> QED
      BY <1>5, <2>2, Typed DEF Does, SpawnCount, MaySpawn, SetReg, Goto,
         parkVars, queueVars, historyVars
<1>6. CASE SpawnPush(me)
  <2>2. \A w \in Workers \ {me} : regs'[w] = regs[w]
      BY <1>6, ChildRegs
  <2> QED
      BY <1>6, <2>2, Typed DEF Does, SpawnPush, SetReg, Goto, parkVars,
         queueVars, historyVars
<1>7. CASE SpawnClear(me)
  <2>2. \A w \in Workers \ {me} : regs'[w] = regs[w]
      BY <1>7, Typed DEF SpawnClear, Goto, SetReg
  <2> QED
      BY <1>7, <2>2, Typed DEF Does, SpawnClear, Goto, parkVars, queueVars,
         historyVars
<1>8. CASE \E target \in Workers : SpawnAtCount(me, target)
  <2>1. PICK target \in Workers : SpawnAtCount(me, target)
      BY <1>8
  <2>2. \A w \in Workers \ {me} : regs'[w] = regs[w]
      BY <2>1, ChildRegs
  <2> QED
      BY <2>1, <2>2, Typed DEF Does, SpawnAtCount, SpawnAt, MaySpawn, Goto,
         parkVars, queueVars, historyVars
<1>9. CASE InboxClaim(me)
  <2>2. \A w \in Workers \ {me} : regs'[w] = regs[w]
      BY <1>9, Typed DEF InboxClaim, Goto, SetReg
  <2> QED
      BY <1>9, <2>2, Typed DEF Does, InboxClaim, Goto, parkVars, queueVars,
         historyVars
<1>10. CASE InboxStore(me)
  <2>2. \A w \in Workers \ {me} : regs'[w] = regs[w]
      BY <1>10, ChildRegs
  <2> QED
      BY <1>10, <2>2, Typed DEF Does, InboxStore, Goto, parkVars, queueVars,
         historyVars
<1>11. CASE SignalWork(me)
  <2>2. \A w \in Workers \ {me} : regs'[w] = regs[w]
      BY <1>11, Typed DEF SignalWork, Goto, SetReg
  <2> QED
      BY <1>11, <2>2, Typed DEF Does, SignalWork, Goto, parkVars, queueVars,
         historyVars
<1>12. CASE SignalNotify(me)
  <2>2. \A w \in Workers \ {me} : regs'[w] = regs[w]
      BY <1>12, Typed DEF SignalNotify, WakeAll, Goto, SetReg
  <2> QED
      BY <1>12, <2>2, Typed DEF Does, SignalNotify, WakeAll, Goto, parkVars,
         queueVars, historyVars
<1>13. CASE TaskPanics(me)
  <2>2. \A w \in Workers \ {me} : regs'[w] = regs[w]
      BY <1>13, Typed DEF TaskPanics, Goto, SetReg
  <2> QED
      BY <1>13, <2>2, Typed DEF Does, TaskPanics, Goto, parkVars, queueVars,
         historyVars
<1>14. CASE FinishTask(me)
  <2>2. \A w \in Workers \ {me} : regs'[w] = regs[w]
      BY <1>14, TaskRegs
  <2> QED
      BY <1>14, <2>2, Typed DEF Does, FinishTask, SetReg, AfterRun, Goto,
         parkVars, queueVars, historyVars
<1>15. CASE Declare(me)
  <2>2. \A w \in Workers \ {me} : regs'[w] = regs[w]
      BY <1>15, Typed DEF Declare, Goto, SetReg
  <2> QED
      BY <1>15, <2>2, Typed DEF Does, Declare, Goto, parkVars, queueVars,
         historyVars
<1>16. CASE DeclareNotify(me)
  <2>2. \A w \in Workers \ {me} : regs'[w] = regs[w]
      BY <1>16, Notes DEF DeclareNotify
  <2> QED
      BY <1>16, <2>2, Typed DEF Does, DeclareNotify, WakeAll, AfterRun, SetReg,
         Goto, parkVars, queueVars, historyVars
<1>17. CASE \E v \in Workers : StealRandom(me, v)
  <2>1. PICK v \in Workers : StealRandom(me, v)
      BY <1>17
  <2>2. \A w \in Workers \ {me} : regs'[w] = regs[w]
      BY <2>1, StealNotes DEF StealRandom
  <2> QED
      BY <2>1, <2>2, Typed DEF Does, StealRandom, Estimate, Goto, parkVars,
         queueVars, historyVars
<1>18. CASE StealNoLuck(me)
  <2>2. \A w \in Workers \ {me} : regs'[w] = regs[w]
      BY <1>18, Notes DEF StealNoLuck
  <2> QED
      BY <1>18, <2>2, Typed DEF Does, StealNoLuck, SetReg, Goto, parkVars,
         queueVars, historyVars
<1>19. CASE StealBuddy(me)
  <2>2. \A w \in Workers \ {me} : regs'[w] = regs[w]
      BY <1>19, StealNotes DEF StealBuddy
  <2> QED
      BY <1>19, <2>2, Typed DEF Does, StealBuddy, Estimate, Goto, parkVars,
         queueVars, historyVars
<1>20. CASE StealBuddyEmpty(me)
  <2>2. \A w \in Workers \ {me} : regs'[w] = regs[w]
      BY <1>20, Notes DEF StealBuddyEmpty
  <2> QED
      BY <1>20, <2>2, Typed DEF Does, StealBuddyEmpty, SetReg, Goto, parkVars,
         queueVars, historyVars
<1>21. CASE StealGiveUp(me)
  <2>2. \A w \in Workers \ {me} : regs'[w] = regs[w]
      BY <1>21, Typed DEF StealGiveUp, GotoFresh, SetReg
  <2> QED
      BY <1>21, <2>2, Typed DEF Does, StealGiveUp, GotoFresh, Goto, parkVars,
         queueVars, historyVars
<1>22. CASE StealFirst(me)
  <2>2. \A w \in Workers \ {me} : regs'[w] = regs[w]
      BY <1>22, TaskRegs
  <2> QED
      BY <1>22, <2>2, Typed DEF Does, StealFirst, Goto, parkVars, queueVars,
         historyVars
<1>23. CASE StealFirstFails(me)
  <2>2. \A w \in Workers \ {me} : regs'[w] = regs[w]
      BY <1>23, StealNotes
  <2> QED
      BY <1>23, <2>2, Typed DEF Does, StealFirstFails, Goto, parkVars,
         queueVars, historyVars
<1>24. CASE StealMore(me)
  <2>2. \A w \in Workers \ {me} : regs'[w] = regs[w]
      BY <1>24, Typed DEF StealMore, SetReg, Goto, SetReg
  <2> QED
      BY <1>24, <2>2, Typed DEF Does, StealMore, SetReg, Goto, parkVars,
         queueVars, historyVars
<1>25. CASE StealDone(me)
  <2>2. \A w \in Workers \ {me} : regs'[w] = regs[w]
      BY <1>25, Typed DEF StealDone, Goto, SetReg
  <2> QED
      BY <1>25, <2>2, Typed DEF Does, StealDone, Goto, parkVars, queueVars,
         historyVars
<1>26. CASE CheckDone(me)
  <2>2. \A w \in Workers \ {me} : regs'[w] = regs[w]
      BY <1>26, Notes DEF CheckDone, CheckDoneNothingFound
  <2> QED
      BY <1>26, <2>2, Typed DEF Does, CheckDone, CheckDoneNothingFound, SetReg,
         Goto, parkVars, queueVars, historyVars
<1>27. CASE CheckRegister(me)
  <2>2. \A w \in Workers \ {me} : regs'[w] = regs[w]
      BY <1>27, Typed DEF CheckRegister, Goto, SetReg
  <2> QED
      BY <1>27, <2>2, Typed DEF Does, CheckRegister, Goto, parkVars, queueVars,
         historyVars
<1>28. CASE ParkTerminated(me)
  <2>2. \A w \in Workers \ {me} : regs'[w] = regs[w]
      BY <1>28, Typed DEF ParkTerminated, Goto, SetReg
  <2> QED
      BY <1>28, <2>2, Typed DEF Does, ParkTerminated, Goto, parkVars,
         queueVars, historyVars
<1>29. CASE ParkLock(me)
  <2>2. \A w \in Workers \ {me} : regs'[w] = regs[w]
      BY <1>29, Typed DEF ParkLock, Goto, SetReg
  <2> QED
      BY <1>29, <2>2, Typed DEF Does, ParkLock, Goto, parkVars, queueVars,
         historyVars
<1>30. CASE ParkOutstanding(me)
  <2>2. \A w \in Workers \ {me} : regs'[w] = regs[w]
      BY <1>30, Typed DEF ParkOutstanding, Goto, SetReg
  <2> QED
      BY <1>30, <2>2, Typed DEF Does, ParkOutstanding, Goto, parkVars,
         queueVars, historyVars
<1>31. CASE ParkInbox(me)
  <2>2. \A w \in Workers \ {me} : regs'[w] = regs[w]
      BY <1>31, Typed DEF ParkInbox, Goto, SetReg
  <2> QED
      BY <1>31, <2>2, Typed DEF Does, ParkInbox, Goto, parkVars, queueVars,
         historyVars
<1>32. CASE ParkSleep(me)
  <2>2. \A w \in Workers \ {me} : regs'[w] = regs[w]
      BY <1>32, Notes DEF ParkSleep, ParkSleepAnyway
  <2> QED
      BY <1>32, <2>2, Typed DEF Does, ParkSleep, ParkSleepAnyway, SetReg, Goto,
         parkVars, queueVars, historyVars
<1>33. CASE SpuriousWake(me)
  <2>2. \A w \in Workers \ {me} : regs'[w] = regs[w]
      BY <1>33, Typed DEF SpuriousWake, Goto, SetReg
  <2> QED
      BY <1>33, <2>2, Typed DEF Does, SpuriousWake, Goto, parkVars, queueVars,
         historyVars
<1>34. CASE SleepOn(me)
  <2>2. \A w \in Workers \ {me} : regs'[w] = regs[w]
      BY <1>34, Typed DEF SleepOn, Goto, SetReg
  <2> QED
      BY <1>34, <2>2, Typed DEF Does, SleepOn, Goto, parkVars, queueVars,
         historyVars
<1>35. CASE WakeUp(me)
  <2>2. \A w \in Workers \ {me} : regs'[w] = regs[w]
      BY <1>35, Typed DEF WakeUp, GotoFresh, SetReg
  <2> QED
      BY <1>35, <2>2, Typed DEF Does, WakeUp, GotoFresh, Goto, parkVars,
         queueVars, historyVars
<1> QED
    BY <1>1, <1>2, <1>3, <1>4, <1>5, <1>6, <1>7, <1>8, <1>9, <1>10, <1>11,
       <1>12, <1>13, <1>14, <1>15, <1>16, <1>17, <1>18, <1>19, <1>20, <1>21,
       <1>22, <1>23, <1>24, <1>25, <1>26, <1>27, <1>28, <1>29, <1>30, <1>31,
       <1>32, <1>33, <1>34, <1>35 DEF WorkerStep, Loop, Spawn, Finish, Steal,
       Park

\* A cell that is claimed stays until it is filled by who claimed it.
LEMMA StoreStep ==
    ASSUME IndInv, Next
    PROVE  \A w \in Workers : StoreOk(w)'
<1>0. /\ TypeOK /\ RegsInv /\ Apart /\ NoRepeats
      /\ \A w \in Workers : RegsOk(w) /\ StoreOk(w)
    BY DEF IndInv, TasksInv, RegsInv
<1>1. PICK me \in Workers : Does(me)
    BY <1>0, Doing DEF Next
<1>2. ASSUME NEW w \in Workers, pc[w] = "inbox_store"
      PROVE  /\ regs[w].child \in TasksOf(inbox[regs[w].target])
             /\ regs[w].target \in Workers
    BY <1>0, <1>2, Typed DEF StoreOk, TasksOf
<1>3. ASSUME InboxClaim(me), NEW w \in Workers, pc[w] = "inbox_store"
      PROVE  regs[me].child # regs[w].child
    BY <1>0, <1>2, <1>3, Separate DEF InboxClaim, Carries
<1>4. ASSUME NEW w \in Workers, pc'[w] = "inbox_store"
      PROVE  StoreOk(w)'
  <2>1. CASE w = me
    <3>1. InboxClaim(me)
        BY <1>1, <1>4, <2>1 DEF Does
    <3>2. PICK t, cells : /\ t = regs[me].child
                          /\ cells = inbox[regs[me].target]
        OBVIOUS
    <3>3. /\ t \in 1..MaxTasks /\ cells \in Seq(CellType)
          /\ regs[me].target \in Workers
        BY <3>1, <3>2, <1>0, LiveFacts, Typed DEF InboxClaim
    <3>4. /\ inbox'[regs[me].target] = Claimed(cells, t)
          /\ regs' = regs
          /\ \A v \in Workers \ {me} : pc'[v] = pc[v]
        BY <3>1, <3>2, <3>3, <1>0, Typed DEF InboxClaim, Goto
    <3>5. \E i \in DOMAIN Claimed(cells, t) :
              Claimed(cells, t)[i] = [task |-> t, filled |-> FALSE]
        BY <3>3, ClaimedFacts
    <3>6. ASSUME NEW v \in Workers \ {me}, pc'[v] = "inbox_store"
          PROVE  regs'[v].child # regs'[me].child
      <4>1. pc[v] = "inbox_store" /\ regs'[v] = regs[v] /\ regs'[me] = regs[me]
          BY <3>4, <3>6
      <4> QED
          BY <4>1, <3>1, <1>3
    <3> QED
        BY <2>1, <3>2, <3>4, <3>5, <3>6 DEF StoreOk
  <2>2. CASE w # me
    <3>1. pc[w] = "inbox_store" /\ regs'[w] = regs[w]
        BY <1>1, <1>4, <2>2 DEF Does
    <3>2. PICK t, target, cells :
              /\ t = regs[w].child /\ target = regs[w].target
              /\ cells = inbox[target]
        OBVIOUS
    <3>3. PICK i \in DOMAIN cells : cells[i].task = t /\ ~cells[i].filled
        BY <3>1, <3>2, <1>0 DEF StoreOk
    <3>4. cells \in Seq(CellType) /\ target \in Workers
        BY <3>2, <1>0, Typed
    <3>5. \A v \in Workers :
              pc'[v] = "inbox_store" /\ regs'[v].child = t => v = w
      <4>1. ASSUME NEW v \in Workers \ {me}, pc'[v] = "inbox_store",
                   regs'[v].child = t
            PROVE  v = w
        <5>1. pc[v] = "inbox_store" /\ regs'[v] = regs[v]
            BY <1>1, <4>1 DEF Does
        <5> QED
            BY <5>1, <3>1, <3>2, <4>1, <1>0 DEF StoreOk
      <4>2. ASSUME pc'[me] = "inbox_store", regs'[me].child = t PROVE FALSE
        <5>1. InboxClaim(me)
            BY <1>1, <4>2 DEF Does
        <5>2. regs'[me] = regs[me]
            BY <5>1 DEF InboxClaim
        <5> QED
            BY <5>1, <5>2, <3>1, <3>2, <4>2, <1>3
      <4> QED
          BY <4>1, <4>2
    <3>6. \E j \in DOMAIN inbox'[target] : /\ inbox'[target][j].task = t
                                           /\ ~inbox'[target][j].filled
      <4>1. CASE UNCHANGED inbox
          BY <4>1, <3>2, <3>3
      <4>2. CASE DrainInbox(me)
        <5>1. CASE target # me
          <6>1. inbox'[target] = cells
              BY <4>2, <5>1, <3>2, <3>4, <1>0, Typed DEF DrainInbox
          <6> QED
              BY <6>1, <3>3
        <5>2. CASE target = me
          <6>1. /\ inbox'[target] = Tail(cells)
                /\ cells # <<>> /\ Head(cells).filled
              BY <4>2, <5>2, <3>2, <1>0, Typed DEF DrainInbox, Ready
          <6>2. cells[i] # Head(cells)
              BY <6>1, <3>3
          <6>3. \E j \in DOMAIN Tail(cells) : Tail(cells)[j] = cells[i]
              BY <6>1, <6>2, <3>3, <3>4, CellTailFacts
          <6> QED
              BY <6>1, <6>3, <3>3
        <5> QED
            BY <5>1, <5>2
      <4>3. CASE InboxClaim(me)
        <5>1. PICK c : c = regs[me].child
            OBVIOUS
        <5>2. c \in 1..MaxTasks /\ regs[me].target \in Workers
            BY <4>3, <5>1, <1>0, LiveFacts, Typed DEF InboxClaim
        <5>3. inbox'[target] \in {cells, Claimed(cells, c)}
            BY <4>3, <5>1, <3>2, <3>4, <1>0, Typed DEF InboxClaim
        <5>4. /\ i \in DOMAIN Claimed(cells, c)
              /\ Claimed(cells, c)[i] = cells[i]
            BY <5>2, <3>3, <3>4, ClaimedFacts
        <5> QED
            BY <5>3, <5>4, <3>3
      <4>4. CASE InboxStore(me)
        <5>1. PICK c : c = regs[me].child
            OBVIOUS
        <5>2. c \in 1..MaxTasks
            BY <4>4, <5>1, <1>0, LiveFacts DEF InboxStore
        <5>3. c # t
            BY <4>4, <5>1, <3>1, <3>2, <2>2, <1>0 DEF InboxStore, StoreOk
        <5>4. inbox'[target] \in {cells, Filled(cells, c)}
            BY <4>4, <5>1, <3>2, <3>4, <1>0, Typed DEF InboxStore
        <5>5. i \in DOMAIN Filled(cells, c) /\ Filled(cells, c)[i] = cells[i]
            BY <5>2, <5>3, <3>3, <3>4, FilledFacts
        <5> QED
            BY <5>4, <5>5, <3>3
      <4> QED
          BY <1>1, <4>1, <4>2, <4>3, <4>4 DEF Does
    <3>7. regs'[w].target = target /\ regs'[w].child = t
        BY <3>1, <3>2
    <3> QED
        BY <3>5, <3>6, <3>7 DEF StoreOk
  <2> QED
      BY <2>1, <2>2
<1> QED
    BY <1>4 DEF StoreOk

\* Where a step takes the worker itself.
Goes(me) ==
    /\ pc[me] # "exited"
    /\ pc[me] \in SpawnPc \ {"notify"} /\ pc[me] # "signal" =>
          pc'[me] \in SpawnPc \ {"notify"}
    /\ pc'[me] \in SpawnPc \ {"notify"} =>
          \/ pc[me] \in SpawnPc \ {"notify", "signal"}
          \/ SpawnCount(me)
          \/ \E target \in Workers : SpawnAtCount(me, target)
    /\ pc'[me] \in FinishPc \cup {"exited"} =>
          \/ pc[me] \in FinishPc
          \/ terminated \/ outstanding = 0 \/ outstanding' = 0
    /\ pc'[me] = "declare_notify" => terminated'
    /\ pc'[me] \in {"park_outstanding", "park_inbox"} =>
          \/ parkLock' = me /\ ~terminated'
          \/ pc[me] = "park_outstanding" /\ UNCHANGED parkVars
    /\ Sleeping(me)' => ParkSleep(me) \/ SleepOn(me) \/ SpuriousWake(me)

LEMMA Going ==
    ASSUME TypeOK, NEW me \in Workers,
           WorkerStep(me) \/ TaskPanics(me) \/ SpuriousWake(me)
    PROVE  Goes(me)
<1> USE DEF SpawnPc, FinishPc, Sleeping
<1>1. CASE DrainInbox(me)
    BY <1>1, Typed DEF Goes, DrainInbox, Goto, parkVars, AfterRun
<1>2. CASE DrainDone(me)
    BY <1>2, Typed DEF Goes, DrainDone, Goto, parkVars, AfterRun
<1>3. CASE PopTask(me)
    BY <1>3, Typed DEF Goes, PopTask, Goto, parkVars, AfterRun
<1>4. CASE PopNone(me)
    BY <1>4, Typed DEF Goes, PopNone, GotoFresh, Goto, parkVars, AfterRun
<1>5. CASE SpawnCount(me)
    BY <1>5, Typed DEF Goes, SpawnCount, MaySpawn, Goto, parkVars, AfterRun
<1>6. CASE SpawnPush(me)
    BY <1>6, Typed DEF Goes, SpawnPush, Goto, parkVars, AfterRun
<1>7. CASE SpawnClear(me)
    BY <1>7, Typed DEF Goes, SpawnClear, Goto, parkVars, AfterRun
<1>8. CASE \E target \in Workers : SpawnAtCount(me, target)
    BY <1>8, Typed DEF Goes, SpawnAtCount, SpawnAt, MaySpawn, Goto, parkVars,
       AfterRun
<1>9. CASE InboxClaim(me)
    BY <1>9, Typed DEF Goes, InboxClaim, Goto, parkVars, AfterRun
<1>10. CASE InboxStore(me)
    BY <1>10, Typed DEF Goes, InboxStore, Goto, parkVars, AfterRun
<1>11. CASE SignalWork(me)
    BY <1>11, Typed DEF Goes, SignalWork, Goto, parkVars, AfterRun
<1>12. CASE SignalNotify(me)
    BY <1>12, Typed DEF Goes, SignalNotify, WakeAll, Goto, parkVars, AfterRun
<1>13. CASE TaskPanics(me)
    BY <1>13, Typed DEF Goes, TaskPanics, Goto, parkVars, AfterRun
<1>14. CASE FinishTask(me)
    BY <1>14, Typed DEF Goes, FinishTask, AfterRun, Goto, parkVars, AfterRun
<1>15. CASE Declare(me)
    BY <1>15, Typed DEF Goes, Declare, Goto, parkVars, AfterRun
<1>16. CASE DeclareNotify(me)
    BY <1>16, Typed DEF Goes, DeclareNotify, WakeAll, AfterRun, Goto, parkVars,
       AfterRun
<1>17. CASE \E v \in Workers : StealRandom(me, v)
    BY <1>17, Typed DEF Goes, StealRandom, Estimate, Goto, parkVars, AfterRun
<1>18. CASE StealNoLuck(me)
    BY <1>18, Typed DEF Goes, StealNoLuck, Goto, parkVars, AfterRun
<1>19. CASE StealBuddy(me)
    BY <1>19, Typed DEF Goes, StealBuddy, Estimate, Goto, parkVars, AfterRun
<1>20. CASE StealBuddyEmpty(me)
    BY <1>20, Typed DEF Goes, StealBuddyEmpty, Goto, parkVars, AfterRun
<1>21. CASE StealGiveUp(me)
    BY <1>21, Typed DEF Goes, StealGiveUp, GotoFresh, Goto, parkVars, AfterRun
<1>22. CASE StealFirst(me)
    BY <1>22, Typed DEF Goes, StealFirst, Goto, parkVars, AfterRun
<1>23. CASE StealFirstFails(me)
    BY <1>23, Typed DEF Goes, StealFirstFails, Goto, parkVars, AfterRun
<1>24. CASE StealMore(me)
    BY <1>24, Typed DEF Goes, StealMore, Goto, parkVars, AfterRun
<1>25. CASE StealDone(me)
    BY <1>25, Typed DEF Goes, StealDone, Goto, parkVars, AfterRun
<1>26. CASE CheckDone(me)
    BY <1>26, Typed DEF Goes, CheckDone, CheckDoneNothingFound, Goto, parkVars,
       AfterRun
<1>27. CASE CheckRegister(me)
    BY <1>27, Typed DEF Goes, CheckRegister, Goto, parkVars, AfterRun
<1>28. CASE ParkTerminated(me)
    BY <1>28, Typed DEF Goes, ParkTerminated, Goto, parkVars, AfterRun
<1>29. CASE ParkLock(me)
    BY <1>29, Typed DEF Goes, ParkLock, Goto, parkVars, AfterRun
<1>30. CASE ParkOutstanding(me)
    BY <1>30, Typed DEF Goes, ParkOutstanding, Goto, parkVars, AfterRun
<1>31. CASE ParkInbox(me)
    BY <1>31, Typed DEF Goes, ParkInbox, Goto, parkVars, AfterRun
<1>32. CASE ParkSleep(me)
    BY <1>32, Typed DEF Goes, ParkSleep, ParkSleepAnyway, Goto, parkVars,
       AfterRun
<1>33. CASE SpuriousWake(me)
    BY <1>33, Typed DEF Goes, SpuriousWake, Goto, parkVars, AfterRun
<1>34. CASE SleepOn(me)
    BY <1>34, Typed DEF Goes, SleepOn, Goto, parkVars, AfterRun
<1>35. CASE WakeUp(me)
    BY <1>35, Typed DEF Goes, WakeUp, GotoFresh, Goto, parkVars, AfterRun
<1> QED
    BY <1>1, <1>2, <1>3, <1>4, <1>5, <1>6, <1>7, <1>8, <1>9, <1>10, <1>11,
       <1>12, <1>13, <1>14, <1>15, <1>16, <1>17, <1>18, <1>19, <1>20, <1>21,
       <1>22, <1>23, <1>24, <1>25, <1>26, <1>27, <1>28, <1>29, <1>30, <1>31,
       <1>32, <1>33, <1>34, <1>35 DEF WorkerStep, Loop, Spawn, Finish, Steal,
       Park

\* The counters count: a task is outstanding until it ends, and each spawn
\* bumps the generation once.
LEMMA CountStep ==
    ASSUME IndInv, Next
    PROVE  CountInv'
<1>0. /\ TypeOK /\ CountInv /\ RegsInv /\ Apart
      /\ NumSeeds \in Nat
    BY SchedulerAssumption DEF IndInv, TasksInv
<1>1. PICK me \in Workers : Does(me) /\ Goes(me)
    BY <1>0, Doing, Going DEF Next
<1>2. /\ spawned \in Nat /\ outstanding \in Nat /\ generation \in Nat
      /\ Cardinality(ended) \in Nat /\ Cardinality(Announcing) \in Nat
      /\ IsFiniteSet(Announcing) /\ Announcing \in SUBSET Workers
    BY <1>0, Typed, CountFacts, WorkersFinite DEF Announcing
<1>3. \A w \in Workers \ {me} : w \in Announcing' <=> w \in Announcing
    BY <1>1 DEF Does, Announcing, SpawnPc
<1>4. CASE SpawnCount(me) \/ \E target \in Workers : SpawnAtCount(me, target)
  <2>1. /\ outstanding' = outstanding + 1 /\ spawned' = spawned + 1
        /\ ended' = ended /\ pc[me] = "run" /\ generation' = generation
        /\ pc'[me] \in {"spawn_push", "inbox_claim"}
      BY <1>4, <1>0, Typed DEF SpawnCount, SpawnAtCount, SpawnAt, MaySpawn,
         Goto, parkVars
  <2>2. me \in Announcing' /\ me \notin Announcing
      BY <2>1 DEF Announcing, SpawnPc
  <2>3. Announcing' = Announcing \cup {me}
      BY <2>2, <1>3 DEF Announcing
  <2>4. Cardinality(Announcing') = Cardinality(Announcing) + 1
      BY <2>2, <2>3, <1>2, FS_AddElement
  <2> QED
      BY <2>1, <2>4, <1>0, <1>2 DEF CountInv
<1>5. CASE pc[me] = "signal"
  <2>1. /\ outstanding' = outstanding /\ spawned' = spawned
        /\ ended' = ended /\ generation' = generation + 1
        /\ pc'[me] = "notify"
      BY <1>1, <1>5 DEF Does, SpawnCount, SpawnAtCount, SpawnAt, MaySpawn,
         FinishTask, historyVars
  <2>2. me \notin Announcing' /\ me \in Announcing
      BY <2>1, <1>5 DEF Announcing, SpawnPc
  <2>3. Announcing' = Announcing \ {me}
      BY <2>2, <1>3 DEF Announcing
  <2>4. Cardinality(Announcing') = Cardinality(Announcing) - 1
      BY <2>2, <2>3, <1>2, FS_RemoveElement
  <2> QED
      BY <2>1, <2>4, <1>0, <1>2 DEF CountInv
<1>6. CASE /\ pc[me] # "signal" /\ ~SpawnCount(me)
           /\ ~\E target \in Workers : SpawnAtCount(me, target)
  <2>1. generation' = generation
      BY <1>1, <1>6 DEF Does
  <2>2. me \in Announcing' <=> me \in Announcing
    <3>1. /\ pc[me] \in SpawnPc \ {"notify"} =>
                pc'[me] \in SpawnPc \ {"notify"}
          /\ pc'[me] \in SpawnPc \ {"notify"} =>
                pc[me] \in SpawnPc \ {"notify", "signal"}
        BY <1>1, <1>6 DEF Goes
    <3> QED
        BY <3>1 DEF Announcing
  <2>3. Announcing' = Announcing
      BY <2>2, <1>3 DEF Announcing
  <2>4. CASE UNCHANGED <<outstanding, historyVars>>
      BY <2>1, <2>3, <2>4, <1>0 DEF CountInv, historyVars
  <2>5. CASE FinishTask(me)
    <3>1. /\ outstanding' = outstanding - 1 /\ spawned' = spawned
          /\ ended' = ended \cup {regs[me].task} /\ pc[me] = "run"
        BY <2>5 DEF FinishTask
    <3>2. PICK t : t = regs[me].task
        OBVIOUS
    <3>3. t \in (1..spawned) \ ended
        BY <3>1, <3>2, <1>0, LiveFacts DEF RunPc
    <3>4. Cardinality(ended') = Cardinality(ended) + 1
        BY <3>1, <3>2, <3>3, <1>0, CountFacts
    <3> QED
        BY <3>1, <3>4, <2>1, <2>3, <1>0, <1>2 DEF CountInv
  <2> QED
      BY <2>4, <2>5, <1>1, <1>6 DEF Does
<1> QED
    BY <1>4, <1>5, <1>6

\* The end is declared when it has come, and only then.
LEMMA EndStep ==
    ASSUME IndInv, Next
    PROVE  EndInv'
<1>0. /\ TypeOK /\ CountInv /\ RegsInv /\ Apart /\ EndInv
      /\ outstanding \in Nat
    BY Typed DEF IndInv, TasksInv
<1>1. PICK me \in Workers : Does(me) /\ Goes(me)
    BY <1>0, Doing, Going DEF Next
<1>2. \A w \in Workers : pc[w] = "run" => outstanding # 0
    BY <1>0, LiveFacts, CountFacts DEF RunPc
<1>3. outstanding = 0 => outstanding' = 0
    BY <1>1, <1>2 DEF Does, SpawnCount, SpawnAtCount, SpawnAt, MaySpawn,
       FinishTask
<1>4. ASSUME outstanding' = 0
      PROVE  terminated' \/ SomeoneAt({"declare"})'
  <2>1. CASE FinishTask(me)
    <3>1. outstanding = 1
        BY <1>0, <1>4, <2>1 DEF FinishTask
    <3>2. pc'[me] = "declare"
        BY <2>1, <3>1, <1>0, Typed DEF FinishTask, Goto
    <3> QED
        BY <3>2 DEF SomeoneAt
  <2>2. CASE ~FinishTask(me)
    <3>1. outstanding = 0
        BY <1>0, <1>1, <1>4, <2>2 DEF Does, SpawnCount, SpawnAtCount, SpawnAt,
           MaySpawn
    <3>2. CASE terminated
        BY <3>2, <1>1 DEF Does
    <3>3. CASE SomeoneAt({"declare"})
      <4>1. PICK p \in Workers : pc[p] = "declare"
          BY <3>3 DEF SomeoneAt
      <4>2. p = me => terminated'
          BY <4>1, <1>1 DEF Does
      <4>3. p # me => pc'[p] = "declare"
          BY <4>1, <1>1 DEF Does
      <4> QED
          BY <4>2, <4>3 DEF SomeoneAt
    <3> QED
        BY <3>1, <3>2, <3>3, <1>0 DEF EndInv
  <2> QED
      BY <2>1, <2>2
<1>5. ASSUME terminated' \/ SomeoneAt(FinishPc \cup {"exited"})'
      PROVE  outstanding' = 0
  <2>1. CASE terminated'
    <3>1. terminated \/ pc[me] = "declare"
        BY <2>1, <1>1 DEF Does
    <3>2. outstanding = 0
        BY <3>1, <1>0 DEF EndInv, SomeoneAt, FinishPc
    <3> QED
        BY <3>2, <1>3
  <2>2. CASE SomeoneAt(FinishPc \cup {"exited"})'
    <3>1. PICK p \in Workers : pc'[p] \in FinishPc \cup {"exited"}
        BY <2>2 DEF SomeoneAt
    <3>2. CASE p # me
      <4>1. pc[p] \in FinishPc \cup {"exited"}
          BY <3>1, <3>2, <1>1 DEF Does, FinishPc
      <4>2. outstanding = 0
          BY <4>1, <1>0 DEF EndInv, SomeoneAt
      <4> QED
          BY <4>2, <1>3
    <3>3. CASE p = me
      <4>1. \/ pc[me] \in FinishPc \/ terminated
            \/ outstanding = 0 \/ outstanding' = 0
          BY <3>1, <3>3, <1>1 DEF Goes
      <4>2. outstanding = 0 \/ outstanding' = 0
          BY <4>1, <1>0 DEF EndInv, SomeoneAt
      <4> QED
          BY <4>2, <1>3
    <3> QED
        BY <3>2, <3>3
  <2> QED
      BY <2>1, <2>2, <1>5
<1>6. ASSUME SomeoneAt({"declare_notify"})'
      PROVE  terminated'
  <2>1. PICK p \in Workers : pc'[p] = "declare_notify"
      BY <1>6 DEF SomeoneAt
  <2>2. CASE p # me
    <3>1. pc[p] = "declare_notify"
        BY <2>1, <2>2, <1>1 DEF Does
    <3>2. terminated
        BY <3>1, <1>0 DEF EndInv, SomeoneAt
    <3> QED
        BY <3>2, <1>1 DEF Does
  <2>3. CASE p = me
      BY <2>1, <2>3, <1>1 DEF Goes
  <2> QED
      BY <2>2, <2>3
<1> QED
    BY <1>4, <1>5, <1>6 DEF EndInv

\* Nobody sleeps through a reason to get up.
LEMMA WakeStep ==
    ASSUME IndInv, Next
    PROVE  WakeInv'
<1>0. /\ TypeOK /\ RegsInv /\ Apart /\ NoRepeats /\ EndInv /\ WakeInv
    BY DEF IndInv, TasksInv
<1>1. PICK me \in Workers : Does(me) /\ Goes(me)
    BY <1>0, Doing, Going DEF Next
<1>n. Nobody \notin Workers
    BY SchedulerAssumption DEF Nobody, Workers
<1>2. generation \in Nat /\ \A w \in Workers : regs[w].gen \in Nat
    BY <1>0, Typed, SchedulerAssumption
<1>3. generation' \in Nat /\ generation <= generation'
    BY <1>1, <1>2 DEF Does
<1>4. \A w \in Workers : pc[w] \in {"park_outstanding", "park_inbox"} =>
                             parkLock = w /\ ~terminated
    BY <1>0 DEF WakeInv
<1>5. ASSUME NEW w \in Workers \ {me}
      PROVE  /\ pc'[w] \in {"park_outstanding", "park_inbox"} =>
                   parkLock' = w /\ ~terminated'
             /\ Sleeping(w)' => regs'[w].gen <= generation'
  <2>1. /\ regs'[w] = regs[w]
        /\ \/ pc'[w] = pc[w]
           \/ pc[w] = "asleep" /\ pc'[w] = "woken"
      BY <1>1, <1>5 DEF Does
  <2>2. ASSUME pc'[w] \in {"park_outstanding", "park_inbox"}
        PROVE  parkLock' = w /\ ~terminated'
    <3>1. parkLock = w /\ ~terminated
        BY <2>1, <2>2, <1>4
    <3>2. parkLock # Nobody /\ parkLock # me
        BY <3>1, <1>n, <1>5
    <3> QED
        BY <3>1, <3>2, <1>1, <1>4 DEF Does
  <2>3. ASSUME Sleeping(w)'
        PROVE  regs'[w].gen <= generation'
    <3>1. Sleeping(w)
        BY <2>1, <2>3 DEF Sleeping
    <3>2. regs[w].gen <= generation
        BY <3>1, <1>0 DEF WakeInv
    <3> QED
        BY <3>2, <2>1, <1>2, <1>3
  <2> QED
      BY <2>2, <2>3
<1>6. ASSUME NEW w \in Workers \ {me}, pc'[w] = "asleep"
      PROVE  /\ terminated' => SomeoneAt({"declare_notify"})'
             /\ generation' # regs'[w].gen => SomeoneAt({"notify"})'
  <2>1. /\ regs'[w] = regs[w] /\ pc[w] = "asleep"
        /\ pc[me] \notin {"notify", "declare_notify"}
      BY <1>1, <1>6 DEF Does
  <2>2. ASSUME terminated'
        PROVE  SomeoneAt({"declare_notify"})'
    <3>1. CASE terminated
      <4>1. PICK p \in Workers : pc[p] = "declare_notify"
          BY <2>1, <3>1, <1>0 DEF WakeInv, SomeoneAt
      <4>2. pc'[p] = "declare_notify"
          BY <4>1, <2>1, <1>1 DEF Does
      <4> QED
          BY <4>2 DEF SomeoneAt
    <3>2. CASE ~terminated
      <4>1. pc'[me] = "declare_notify"
          BY <2>2, <3>2, <1>1 DEF Does
      <4> QED
          BY <4>1 DEF SomeoneAt
    <3> QED
        BY <3>1, <3>2
  <2>3. ASSUME generation' # regs'[w].gen
        PROVE  SomeoneAt({"notify"})'
    <3>1. CASE pc[me] = "signal"
      <4>1. pc'[me] = "notify"
          BY <3>1, <1>1 DEF Does
      <4> QED
          BY <4>1 DEF SomeoneAt
    <3>2. CASE pc[me] # "signal"
      <4>1. generation # regs[w].gen
          BY <2>1, <2>3, <3>2, <1>1 DEF Does
      <4>2. PICK p \in Workers : pc[p] = "notify"
          BY <4>1, <2>1, <1>0 DEF WakeInv, SomeoneAt
      <4>3. pc'[p] = "notify"
          BY <4>2, <2>1, <1>1 DEF Does
      <4> QED
          BY <4>3 DEF SomeoneAt
    <3> QED
        BY <3>1, <3>2
  <2> QED
      BY <2>2, <2>3
<1>7. ASSUME NEW w \in Workers \ {me}, Sleeping(w)', inbox'[w] # <<>>,
             generation' = regs'[w].gen
      PROVE  \E p \in Workers :
                \/ pc'[p] = "inbox_store" /\ regs'[p].target = w
                \/ pc'[p] = "signal"
  <2>1. regs'[w] = regs[w] /\ Sleeping(w)
      BY <1>1, <1>7 DEF Does, Sleeping
  <2>2. regs[w].gen <= generation
      BY <2>1, <1>0 DEF WakeInv
  <2>3. generation = regs[w].gen /\ pc[me] # "signal"
    <3>1. generation' = regs[w].gen
        BY <2>1, <1>7
    <3>2. pc[me] # "signal" => generation' = generation
        BY <1>1 DEF Does
    <3>3. pc[me] = "signal" => generation' = generation + 1
        BY <1>1 DEF Does
    <3> QED
        BY <3>1, <3>2, <3>3, <2>2, <1>2
  <2>4. CASE inbox[w] # <<>>
    <3>1. PICK p \in Workers :
              \/ pc[p] = "inbox_store" /\ regs[p].target = w
              \/ pc[p] = "signal"
        BY <2>1, <2>3, <2>4, <1>0 DEF WakeInv
    <3>2. CASE p = me
      <4>1. pc'[me] = "signal"
          BY <3>1, <3>2, <2>3, <1>1 DEF Does
      <4> QED
          BY <4>1
    <3>3. CASE p # me
      <4>1. regs'[p] = regs[p] /\ pc'[p] = pc[p]
          BY <3>1, <3>3, <1>1 DEF Does
      <4> QED
          BY <4>1, <3>1
    <3> QED
        BY <3>2, <3>3
  <2>5. CASE inbox[w] = <<>>
    <3>1. inbox'[w] # inbox[w]
        BY <2>5, <1>7
    <3>2. CASE InboxClaim(me)
      <4>1. regs'[me].target = w /\ pc'[me] = "inbox_store"
          BY <3>1, <3>2, <1>0, Typed DEF InboxClaim, Goto
      <4> QED
          BY <4>1
    <3>3. CASE InboxStore(me)
      <4>1. PICK c, cells : c = regs[me].child /\ cells = inbox[w]
          OBVIOUS
      <4>2. c \in 1..MaxTasks /\ cells \in Seq(CellType)
          BY <3>3, <4>1, <1>0, LiveFacts, Typed DEF InboxStore
      <4>3. inbox'[w] \in {cells, Filled(cells, c)}
          BY <3>3, <4>1, <1>0, Typed DEF InboxStore
      <4>4. Filled(cells, c) = <<>>
          BY <4>1, <4>2, <2>5, FilledFacts
      <4> QED
          BY <4>1, <4>3, <4>4, <2>5, <1>7
    <3>4. CASE DrainInbox(me)
        BY <3>1, <3>4, <1>0, Typed DEF DrainInbox
    <3> QED
        BY <3>1, <3>2, <3>3, <3>4, <1>1 DEF Does
  <2> QED
      BY <2>4, <2>5
<1>8. pc'[me] \in {"park_outstanding", "park_inbox"} =>
            parkLock' = me /\ ~terminated'
    BY <1>1, <1>4 DEF Goes, parkVars
<1>9. ASSUME Sleeping(me)'
      PROVE  /\ regs'[me].gen <= generation'
             /\ pc'[me] = "asleep" =>
                   ~terminated' /\ generation' = regs'[me].gen
             /\ inbox'[me] # <<>> /\ generation' = regs'[me].gen =>
                   \E p \in Workers :
                       \/ pc'[p] = "inbox_store" /\ regs'[p].target = me
                       \/ pc'[p] = "signal"
  <2>1. CASE ParkSleep(me)
    <3>1. /\ inbox' = inbox /\ inbox[me] = <<>> /\ terminated' = terminated
          /\ generation' = generation /\ pc[me] = "park_inbox"
          /\ SetReg(me, "gen", generation)
        BY <2>1 DEF ParkSleep, ParkSleepAnyway, queueVars
    <3>2. regs'[me].gen = generation /\ ~terminated
        BY <3>1, <1>0, <1>4, Notes
    <3> QED
        BY <3>1, <3>2, <1>2
  <2>2. CASE SleepOn(me) \/ SpuriousWake(me)
    <3>1. /\ inbox' = inbox /\ terminated' = terminated /\ regs' = regs
          /\ generation' = generation /\ Sleeping(me)
          /\ \A w \in Workers \ {me} : pc'[w] = pc[w]
        BY <2>2, <1>0, Typed DEF SleepOn, SpuriousWake, Goto, queueVars,
           parkVars, Sleeping
    <3>2. pc'[me] = "asleep" => ~terminated /\ generation = regs[me].gen
        BY <2>2, <1>0, Typed DEF SleepOn, SpuriousWake, StaysAsleep, Goto
    <3>3. /\ regs[me].gen <= generation
          /\ inbox[me] # <<>> /\ generation = regs[me].gen =>
                \E p \in Workers :
                    \/ pc[p] = "inbox_store" /\ regs[p].target = me
                    \/ pc[p] = "signal"
        BY <3>1, <1>0 DEF WakeInv
    <3>4. \A p \in Workers :
              pc[p] \in {"inbox_store", "signal"} => pc'[p] = pc[p]
        BY <3>1 DEF Sleeping
    <3> QED
        BY <3>1, <3>2, <3>3, <3>4
  <2> QED
      BY <2>1, <2>2, <1>1, <1>9 DEF Goes
<1>10. ASSUME NEW w \in Workers
       PROVE  /\ pc'[w] \in {"park_outstanding", "park_inbox"} =>
                    parkLock' = w /\ ~terminated'
              /\ Sleeping(w)' => regs'[w].gen <= generation'
              /\ pc'[w] = "asleep" =>
                    /\ terminated' => SomeoneAt({"declare_notify"})'
                    /\ generation' # regs'[w].gen => SomeoneAt({"notify"})'
              /\ Sleeping(w)' /\ inbox'[w] # <<>> /\ generation' = regs'[w].gen
                    => \E p \in Workers :
                          \/ pc'[p] = "inbox_store" /\ regs'[p].target = w
                          \/ pc'[p] = "signal"
  <2>1. CASE w # me
      BY <2>1, <1>5, <1>6, <1>7
  <2>2. CASE w = me
    <3>1. pc'[me] = "asleep" => Sleeping(me)'
        BY DEF Sleeping
    <3> QED
        BY <2>2, <3>1, <1>8, <1>9
  <2> QED
      BY <2>1, <2>2
<1> QED
    BY <1>10 DEF WakeInv

\* A number has one quotient and one remainder.
LEMMA OneQuotient ==
    ASSUME NEW n \in Nat, n > 0, NEW i \in Nat, NEW j \in Nat,
           NEW v \in 0..n-1, NEW w \in 0..n-1, v + i * n = w + j * n
    PROVE  i = j /\ v = w
<1>1. ASSUME NEW a \in Nat, NEW b \in Nat, a < b
      PROVE  a * n + n <= b * n
  <2>1. PICK c \in Nat : b = a + 1 + c
      BY <1>1
  <2>2. b * n = a * n + n + c * n
      BY <2>1
  <2>3. c * n >= 0 /\ c * n \in Nat /\ a * n \in Nat
      OBVIOUS
  <2> QED
      BY <2>2, <2>3
<1>2. i * n \in Nat /\ j * n \in Nat
    OBVIOUS
<1>3. ~(i < j)
    BY <1>1, <1>2
<1>4. ~(j < i)
    BY <1>1, <1>2
<1>5. i = j
    BY <1>3, <1>4
<1> QED
    BY <1>2, <1>5

\* The seeds are dealt out: each worker's are among them, and no two workers
\* or positions get the same one.
LEMMA SeedFacts ==
    ASSUME NEW me \in Workers
    PROVE  /\ SeedsOf(me) \in Seq(1..MaxTasks)
           /\ ToSet(SeedsOf(me)) \subseteq 1..NumSeeds
           /\ \A i \in DOMAIN SeedsOf(me) :
                 /\ i - 1 \in Nat
                 /\ SeedsOf(me)[i] = me + 1 + (i - 1) * NumWorkers
<1> DEFINE n == (NumSeeds + NumWorkers - 1 - me) \div NumWorkers
<1>0. /\ NumWorkers \in Nat /\ NumWorkers > 0 /\ NumSeeds \in Nat
      /\ me \in Nat /\ me <= NumWorkers - 1
    BY SchedulerAssumption DEF Workers
<1>1. PICK d \in Nat : d = NumSeeds + NumWorkers - 1 - me
    BY <1>0
<1>2. n \in Nat /\ n * NumWorkers <= d
  <2>1. n = d \div NumWorkers
      BY <1>1
  <2> HIDE DEF n
  <2>2. n \in Nat
      BY <2>1, <1>0
  <2>3. NumWorkers * n <= d /\ NumWorkers * n = n * NumWorkers
      BY <2>1, <2>2, <1>0
  <2> QED
      BY <2>2, <2>3
<1>3. SeedsOf(me) = [i \in 1..n |-> me + 1 + (i - 1) * NumWorkers]
    BY DEF SeedsOf
<1> HIDE DEF n
<1>4. ASSUME NEW i \in 1..n
      PROVE  /\ i - 1 \in Nat
             /\ me + 1 + (i - 1) * NumWorkers \in 1..NumSeeds
  <2>1. i - 1 \in Nat
      BY <1>2
  <2>2. PICK c \in Nat : n = i + c
      BY <1>2
  <2>3. n * NumWorkers = i * NumWorkers + c * NumWorkers
      BY <2>2, <1>0
  <2>4. /\ c * NumWorkers \in Nat /\ i * NumWorkers \in Nat
        /\ (i - 1) * NumWorkers \in Nat
      BY <2>1, <1>0
  <2>5. (i - 1) * NumWorkers = i * NumWorkers - NumWorkers
      BY <1>0
  <2>6. PICK p \in Nat, q \in Nat :
            p = i * NumWorkers /\ q = (i - 1) * NumWorkers
      BY <2>4
  <2>7. p <= d /\ q = p - NumWorkers
      BY <2>3, <2>4, <2>5, <2>6, <1>1, <1>2, <1>0
  <2>8. me + 1 + q \in 1..NumSeeds
      BY <2>7, <1>0, <1>1
  <2> QED
      BY <2>1, <2>6, <2>8
<1>5. SeedsOf(me) \in [1..n -> 1..NumSeeds]
    BY <1>3, <1>4
<1>6. SeedsOf(me) \in Seq(1..MaxTasks)
  <2>1. 1..NumSeeds \subseteq 1..MaxTasks
      BY SchedulerAssumption
  <2>2. SeedsOf(me) \in [1..n -> 1..MaxTasks]
      BY <2>1, <1>5
  <2> QED
      BY <2>2, <1>2, SeqDef
<1>7. ToSet(SeedsOf(me)) \subseteq 1..NumSeeds
    BY <1>5 DEF ToSet
<1> QED
    BY <1>3, <1>4, <1>6, <1>7

\* The beginning.
LEMMA InitStep ==
    ASSUME Init
    PROVE  IndInv
<1>0. /\ NumSeeds \in Nat /\ NumSeeds > 0 /\ MaxTasks \in Nat
      /\ NumSeeds <= MaxTasks /\ NumWorkers \in Nat /\ NumWorkers > 0
      /\ Workers = 0..NumWorkers-1
    BY SchedulerAssumption DEF Workers
<1>1. \A w \in Workers : /\ deque[w] = SeedsOf(w) /\ inbox[w] = <<>>
                         /\ pc[w] = "drain" /\ regs[w] = NoRegs
    BY DEF Init
<1>2. ASSUME NEW v \in Workers, NEW w \in Workers,
             NEW i \in DOMAIN SeedsOf(v), NEW j \in DOMAIN SeedsOf(w),
             SeedsOf(v)[i] = SeedsOf(w)[j]
      PROVE  i = j /\ v = w
  <2>1. /\ i - 1 \in Nat /\ SeedsOf(v)[i] = v + 1 + (i - 1) * NumWorkers
        /\ j - 1 \in Nat /\ SeedsOf(w)[j] = w + 1 + (j - 1) * NumWorkers
      BY SeedFacts
  <2>2. PICK a \in Nat, b \in Nat : a = i - 1 /\ b = j - 1
      BY <2>1
  <2>3. v + 1 + a * NumWorkers = w + 1 + b * NumWorkers
      BY <2>1, <2>2, <1>2
  <2>4. /\ v \in Nat /\ w \in Nat /\ a * NumWorkers \in Nat
        /\ b * NumWorkers \in Nat
      BY <1>0
  <2>5. v + a * NumWorkers = w + b * NumWorkers
      BY <2>3, <2>4
  <2>6. v \in 0..NumWorkers-1 /\ w \in 0..NumWorkers-1
      BY <1>0
  <2>7. a = b /\ v = w
      BY <2>5, <2>6, <1>0, OneQuotient
  <2>8. i \in Int /\ j \in Int
      BY SeedFacts
  <2> QED
      BY <2>2, <2>7, <2>8
<1>3. TypeOK
  <2>1. <<>> \in Seq(CellType)
      BY EmptySeq
  <2>2. deque \in [Workers -> Seq(1..MaxTasks)]
      BY SeedFacts DEF Init
  <2>3. regs \in [Workers -> RegsType]
      BY NoRegsFacts DEF Init
  <2>4. pc \in [Workers -> Labels] /\ inbox \in [Workers -> Seq(CellType)]
      BY <2>1 DEF Init, Labels
  <2>5. /\ requests \in [Workers -> SUBSET Workers]
        /\ generation \in 0..MaxTasks /\ outstanding \in 0..MaxTasks /\ spawned \in NumSeeds..MaxTasks
      BY <1>0 DEF Init
  <2>6. /\ terminated \in BOOLEAN /\ parkLock \in Workers \cup {Nobody}
        /\ ended \subseteq 1..spawned
      BY DEF Init
  <2> QED
      BY <2>2, <2>3, <2>4, <2>5, <2>6 DEF TypeOK
<1>4. Apart
  <2>1. \A w \in Workers : /\ Held[<<"inbox", w>>] = {}
                           /\ Held[<<"child", w>>] = {}
                           /\ Held[<<"task", w>>] = {}
    <3>1. TasksOf(<<>>) = {}
      <4>1. DOMAIN <<>> = {}
          OBVIOUS
      <4> QED
          BY <4>1, Zenon DEF TasksOf
    <3>2. \A w \in Workers : Held[<<"inbox", w>>] = {}
        BY <3>1, <1>1, HeldInbox
    <3>3. \A w \in Workers : Held[<<"child", w>>] = {}
        BY <1>1, HeldChild DEF Carries
    <3>4. \A w \in Workers : Held[<<"task", w>>] = {}
        BY <1>1, NoRegsFacts, HeldTask
    <3> QED
        BY <3>2, <3>3, <3>4
  <2>2. \A w \in Workers : Held[<<"deque", w>>] = ToSet(SeedsOf(w))
      BY <1>1, HeldDeque
  <2>3. (1..spawned) \ ended = 1..NumSeeds
      BY DEF Init
  <2>4. ASSUME NEW p \in Places
        PROVE  Held[p] \subseteq 1..NumSeeds
    <3>1. CASE \E w \in Workers : p = <<"deque", w>>
        BY <3>1, <2>2, SeedFacts
    <3>2. CASE ~\E w \in Workers : p = <<"deque", w>>
        BY <3>2, <2>1, EveryPlace
    <3> QED
        BY <3>1, <3>2
  <2>5. ASSUME NEW p \in Places, NEW q \in Places, p # q, NEW t,
               t \in Held[p], t \in Held[q]
        PROVE  FALSE
    <3>1. PICK v \in Workers : p = <<"deque", v>>
        BY <2>1, <2>5, EveryPlace
    <3>2. PICK w \in Workers : q = <<"deque", w>>
        BY <2>1, <2>5, EveryPlace
    <3>3. t \in ToSet(SeedsOf(v)) /\ t \in ToSet(SeedsOf(w)) /\ v # w
        BY <2>2, <2>5, <3>1, <3>2
    <3>4. PICK i \in DOMAIN SeedsOf(v) : SeedsOf(v)[i] = t
        BY <3>3 DEF ToSet
    <3>5. PICK j \in DOMAIN SeedsOf(w) : SeedsOf(w)[j] = t
        BY <3>3 DEF ToSet
    <3> QED
        BY <3>3, <3>4, <3>5, <1>2
  <2> QED
      BY <2>3, <2>4, <2>5 DEF Apart, Disjoint
<1>5. NoRepeats
  <2>1. InjectiveTasks(<<>>)
      BY DEF InjectiveTasks
  <2>2. \A w \in Workers : Injective(SeedsOf(w))
      BY <1>2 DEF Injective
  <2> QED
      BY <2>1, <2>2, <1>1 DEF NoRepeats
<1>6. RegsInv
    BY <1>1, NoRegsFacts DEF RegsInv, RegsOk, StoreOk, RunPc, SpawnPc, IdlePc,
       ParkPc
<1>7. CountInv
  <2>1. Announcing = {}
      BY <1>1 DEF Announcing, SpawnPc
  <2>2. Cardinality({}) = 0
      BY FS_EmptySet
  <2> QED
      BY <2>1, <2>2, <1>0 DEF Init, CountInv
<1>8. EndInv
    BY <1>0, <1>1 DEF Init, EndInv, SomeoneAt, FinishPc
<1>9. WakeInv
    BY <1>1 DEF WakeInv, Sleeping
<1> QED
    BY <1>3, <1>4, <1>5, <1>6, <1>7, <1>8, <1>9 DEF IndInv, TasksInv

\* Without a step nothing changes.
LEMMA StutterStep ==
    ASSUME IndInv, UNCHANGED vars
    PROVE  IndInv'
<1>1. /\ UNCHANGED <<deque, inbox, requests, outstanding>>
      /\ UNCHANGED <<generation, terminated, parkLock, pc, regs>>
      /\ UNCHANGED <<spawned, ended>>
    BY DEF vars, queueVars, parkVars, historyVars
<1>2. TypeOK'
    BY <1>1 DEF IndInv, TypeOK
<1>3. Apart' /\ NoRepeats'
  <2>1. Held' = Held
      BY <1>1 DEF Held, Holds
  <2> QED
      BY <2>1, <1>1 DEF IndInv, TasksInv, Apart, NoRepeats
<1>4. RegsInv'
    BY <1>1 DEF IndInv, TasksInv, RegsInv, RegsOk, StoreOk
<1>5. CountInv'
    BY <1>1 DEF IndInv, CountInv, Announcing
<1>6. EndInv' /\ WakeInv'
    BY <1>1 DEF IndInv, EndInv, WakeInv, SomeoneAt, Sleeping
<1> QED
    BY <1>2, <1>3, <1>4, <1>5, <1>6 DEF IndInv, TasksInv

\* All of it holds always.
THEOREM SchedulerInvariant == Spec => []IndInv
<1>1. ASSUME IndInv, Next PROVE IndInv'
  <2>1. RegsInv'
      BY <1>1, RegsStep, StoreStep DEF RegsInv
  <2> QED
      BY <1>1, <2>1, TypeStep, TasksStep, CountStep, EndStep, WakeStep
         DEF IndInv, TasksInv
<1> QED
    BY <1>1, InitStep, StutterStep, PTL DEF Spec

\* The state has the shape of WorkerSlot, Shared and ParkState; in particular
\* the counter of outstanding tasks never underflows.
THEOREM SchedulerTypeOK == Spec => []TypeOK
BY SchedulerInvariant, PTL DEF IndInv

\* No wake is lost: a worker asleep on the condition variable has nothing in
\* its deque, and somebody is on the way to notify if there is a reason for it
\* to get up (signal_work, declare_terminated, park_until_work_or_done).
THEOREM NoWakeIsLost == Spec => []SleeperIsOwedAWake
<1>1. ASSUME IndInv PROVE SleeperIsOwedAWake
  <2>1. TypeOK /\ RegsInv /\ EndInv /\ WakeInv
      BY <1>1 DEF IndInv, TasksInv
  <2>2. ASSUME NEW me \in Workers, pc[me] = "asleep"
        PROVE  /\ deque[me] = <<>>
               /\ terminated => SomeoneAt({"declare_notify"})
               /\ outstanding = 0 => SomeoneAt(FinishPc)
               /\ generation # regs[me].gen => SomeoneAt({"notify"})
               /\ inbox[me] # <<>> /\ generation = regs[me].gen =>
                     \E p \in Workers :
                        \/ pc[p] = "inbox_store" /\ regs[p].target = me
                        \/ pc[p] = "signal"
    <3>1. deque[me] = <<>>
        BY <2>1, <2>2 DEF RegsInv, RegsOk, IdlePc, ParkPc
    <3>2. terminated => SomeoneAt({"declare_notify"})
        BY <2>1, <2>2 DEF WakeInv
    <3>3. outstanding = 0 => SomeoneAt(FinishPc)
        BY <2>1, <3>2 DEF EndInv, SomeoneAt, FinishPc
    <3>4. /\ generation # regs[me].gen => SomeoneAt({"notify"})
          /\ inbox[me] # <<>> /\ generation = regs[me].gen =>
                \E p \in Workers :
                   \/ pc[p] = "inbox_store" /\ regs[p].target = me
                   \/ pc[p] = "signal"
        BY <2>1, <2>2 DEF WakeInv, Sleeping
    <3> QED
        BY <3>1, <3>2, <3>3, <3>4
  <2> QED
      BY <2>2 DEF SleeperIsOwedAWake
<1> QED
    BY <1>1, SchedulerInvariant, PTL

-----------------------------------------------------------------------------
(* The scheduler is a pool.                                                *)

\* The worker has the task, and it is not running.
Keeps(w, t) ==
    \/ t \in ToSet(deque[w])
    \/ t \in TasksOf(inbox[w])
    \/ regs[w].child # 0 /\ t = regs[w].child
    \/ pc[w] = "steal_more" /\ t = regs[w].task

Runs(w, t) == pc[w] \in RunPc /\ t = regs[w].task

LEMMA WaitingIs ==
    /\ \A t : t \in Waiting <=> \E w \in Workers : Keeps(w, t)
    /\ \A t : t \in Waiting' <=> \E w \in Workers : Keeps(w, t)'
    /\ \A t : t \in Running <=> \E w \in Workers : Runs(w, t)
    /\ \A t : t \in Running' <=> \E w \in Workers : Runs(w, t)'
<1>1. ASSUME NEW t
      PROVE  t \in Waiting <=> \E w \in Workers : Keeps(w, t)
  <2>1. PICK a, b, c :
            /\ a = UNION {ToSet(deque[me]) \cup TasksOf(inbox[me]) :
                             me \in Workers}
            /\ b = {regs[me].child :
                        me \in {w \in Workers : regs[w].child # 0}}
            /\ c = {regs[me].task :
                        me \in {w \in Workers : pc[w] = "steal_more"}}
      OBVIOUS
  <2>2. t \in Waiting <=> t \in a \/ t \in b \/ t \in c
    <3>1. Waiting = b \cup c \cup a
        BY <2>1 DEF Waiting, TasksOf
    <3> QED
        BY <3>1
  <2>3. t \in a <=> \E w \in Workers : \/ t \in ToSet(deque[w])
                                       \/ t \in TasksOf(inbox[w])
      BY <2>1
  <2>4. t \in b <=> \E w \in Workers : /\ regs[w].child # 0
                                       /\ t = regs[w].child
      BY <2>1
  <2>5. t \in c <=> \E w \in Workers : /\ pc[w] = "steal_more"
                                       /\ t = regs[w].task
      BY <2>1
  <2> QED
      BY <2>2, <2>3, <2>4, <2>5 DEF Keeps
<1>2. ASSUME NEW t
      PROVE  t \in Waiting' <=> \E w \in Workers : Keeps(w, t)'
  <2>1. PICK a, b, c :
            /\ a = UNION {ToSet(deque'[me]) \cup TasksOf(inbox'[me]) :
                             me \in Workers}
            /\ b = {regs'[me].child :
                        me \in {w \in Workers : regs'[w].child # 0}}
            /\ c = {regs'[me].task :
                        me \in {w \in Workers : pc'[w] = "steal_more"}}
      OBVIOUS
  <2>2. t \in Waiting' <=> t \in a \/ t \in b \/ t \in c
    <3>1. Waiting' = b \cup c \cup a
        BY <2>1 DEF Waiting, TasksOf
    <3> QED
        BY <3>1
  <2>3. t \in a <=> \E w \in Workers : \/ t \in ToSet(deque'[w])
                                       \/ t \in TasksOf(inbox'[w])
      BY <2>1
  <2>4. t \in b <=> \E w \in Workers : /\ regs'[w].child # 0
                                       /\ t = regs'[w].child
      BY <2>1
  <2>5. t \in c <=> \E w \in Workers : /\ pc'[w] = "steal_more"
                                       /\ t = regs'[w].task
      BY <2>1
  <2> QED
      BY <2>2, <2>3, <2>4, <2>5 DEF Keeps
<1>3. \A t : t \in Running <=> \E w \in Workers : Runs(w, t)
    BY Zenon DEF Running, Runs
<1>4. \A t : t \in Running' <=> \E w \in Workers : Runs(w, t)'
    BY Zenon DEF Running, Runs
<1> QED
    BY <1>1, <1>2, <1>3, <1>4

\* Where a task of a deque is not, ...
LEMMA OnlyInDeque ==
    ASSUME TypeOK, TasksInv, NEW v \in Workers, NEW t \in ToSet(deque[v])
    PROVE  \A w \in Workers :
              /\ t \notin TasksOf(inbox[w])
              /\ regs[w].child # t /\ regs[w].task # t
              /\ w # v => t \notin ToSet(deque[w])
<1>0. /\ Apart /\ RegsInv /\ \A w \in Workers : RegsOk(w) /\ StoreOk(w)
      /\ \A p, q \in Places : p # q => Held[p] \cap Held[q] = {}
    BY DEF TasksInv, RegsInv, Apart, Disjoint
<1>1. t \in Held[<<"deque", v>>] /\ t # 0
  <2>1. ToSet(deque[v]) \subseteq (1..spawned) \ ended
      BY <1>0, LiveFacts
  <2>2. t \in 1..spawned
      BY <2>1
  <2> QED
      BY <2>2, HeldDeque, Typed
<1>2. ASSUME NEW w \in Workers
      PROVE  /\ t \notin Held[<<"inbox", w>>] /\ t \notin Held[<<"child", w>>]
             /\ t \notin Held[<<"task", w>>]
             /\ w # v => t \notin Held[<<"deque", w>>]
    BY <1>0, <1>1, APlace
<1>3. \A w \in Workers : t \notin TasksOf(inbox[w])
    BY <1>2, HeldInbox
<1>4. ASSUME NEW w \in Workers
      PROVE  regs[w].child # t
  <2>1. CASE Carries(pc[w])
      BY <2>1, <1>2, HeldChild
  <2>2. CASE pc[w] = "inbox_store"
    <3>1. /\ regs[w].target \in Workers
          /\ regs[w].child \in TasksOf(inbox[regs[w].target])
        BY <2>2, <1>0, Typed DEF StoreOk, TasksOf
    <3> QED
        BY <3>1, <1>3
  <2>3. CASE ~Carries(pc[w]) /\ pc[w] # "inbox_store"
      BY <2>3, <1>0, <1>1 DEF RegsOk, Carries
  <2> QED
      BY <2>1, <2>2, <2>3
<1>5. \A w \in Workers : regs[w].task # t
    BY <1>1, <1>2, HeldTask
<1>6. \A w \in Workers : w # v => t \notin ToSet(deque[w])
    BY <1>2, HeldDeque
<1> QED
    BY <1>3, <1>4, <1>5, <1>6

\* ... and where one that has begun is not.
LEMMA OnlyBegun ==
    ASSUME TypeOK, TasksInv, NEW v \in Workers,
           pc[v] \in RunPc \cup {"steal_more"}
    PROVE  \A w \in Workers :
              /\ regs[v].task \notin ToSet(deque[w])
              /\ regs[v].task \notin TasksOf(inbox[w])
              /\ regs[w].child # regs[v].task
              /\ w # v => regs[w].task # regs[v].task
<1>0. /\ Apart /\ RegsInv /\ \A w \in Workers : RegsOk(w) /\ StoreOk(w)
      /\ \A p, q \in Places : p # q => Held[p] \cap Held[q] = {}
    BY DEF TasksInv, RegsInv, Apart, Disjoint
<1>1. PICK t : t = regs[v].task
    OBVIOUS
<1>2. t \in Held[<<"task", v>>] /\ t # 0
    BY <1>0, <1>1, HeldTask DEF RegsOk
<1>3. ASSUME NEW w \in Workers
      PROVE  /\ t \notin Held[<<"inbox", w>>] /\ t \notin Held[<<"child", w>>]
             /\ t \notin Held[<<"deque", w>>]
             /\ w # v => t \notin Held[<<"task", w>>]
    BY <1>0, <1>2, APlace
<1>4. \A w \in Workers : t \notin TasksOf(inbox[w])
    BY <1>3, HeldInbox
<1>5. ASSUME NEW w \in Workers
      PROVE  regs[w].child # t
  <2>1. CASE Carries(pc[w])
      BY <2>1, <1>3, HeldChild
  <2>2. CASE pc[w] = "inbox_store"
    <3>1. /\ regs[w].target \in Workers
          /\ regs[w].child \in TasksOf(inbox[regs[w].target])
        BY <2>2, <1>0, Typed DEF StoreOk, TasksOf
    <3> QED
        BY <3>1, <1>4
  <2>3. CASE ~Carries(pc[w]) /\ pc[w] # "inbox_store"
      BY <2>3, <1>0, <1>2 DEF RegsOk, Carries
  <2> QED
      BY <2>1, <2>2, <2>3
<1>6. \A w \in Workers : w # v => regs[w].task # t
    BY <1>2, <1>3, HeldTask
<1>7. \A w \in Workers : t \notin ToSet(deque[w])
    BY <1>3, HeldDeque
<1> QED
    BY <1>1, <1>4, <1>5, <1>6, <1>7

\* What waits or runs has been spawned and has not ended, and nothing does
\* both; when nothing is outstanding there is nothing left.
LEMMA PoolFacts ==
    ASSUME IndInv
    PROVE  /\ Waiting \cup Running \subseteq (1..spawned) \ ended
           /\ outstanding = 0 => Waiting \cup Running = {}
<1>0. /\ TypeOK /\ Apart /\ RegsInv /\ CountInv
      /\ \A w \in Workers : RegsOk(w)
    BY DEF IndInv, TasksInv, RegsInv
<1>1. ASSUME NEW w \in Workers, NEW t, Keeps(w, t) \/ Runs(w, t)
      PROVE  t \in (1..spawned) \ ended
  <2>1. regs[w].child # 0 => regs[w].child \in (1..spawned) \ ended
      BY <1>0, LiveFacts DEF RegsOk
  <2> QED
      BY <2>1, <1>0, <1>1, LiveFacts DEF Keeps, Runs
<1>2. Waiting \cup Running \subseteq (1..spawned) \ ended
    BY <1>1, WaitingIs
<1>3. outstanding = 0 => (1..spawned) \ ended = {}
    BY <1>0, CountFacts
<1> QED
    BY <1>2, <1>3

\* The steps that move no task, ...
Rests(me) ==
    \/ DrainDone(me) \/ PopNone(me) \/ SpawnClear(me) \/ SignalWork(me)
    \/ SignalNotify(me) \/ TaskPanics(me) \/ Declare(me) \/ DeclareNotify(me)
    \/ StealNoLuck(me) \/ StealBuddy(me) \/ StealBuddyEmpty(me)
    \/ StealGiveUp(me) \/ StealFirstFails(me) \/ CheckDone(me)
    \/ CheckRegister(me) \/ ParkTerminated(me) \/ ParkLock(me)
    \/ ParkOutstanding(me) \/ ParkInbox(me) \/ ParkSleep(me)
    \/ SpuriousWake(me)
    \/ SleepOn(me) \/ WakeUp(me)
    \/ \E v \in Workers : StealRandom(me, v)

\* ... and those that do.
Moves(me) ==
    \/ DrainInbox(me) \/ PopTask(me) \/ SpawnCount(me) \/ SpawnPush(me)
    \/ InboxClaim(me) \/ InboxStore(me) \/ FinishTask(me)
    \/ StealFirst(me) \/ StealMore(me) \/ StealDone(me)
    \/ \E target \in Workers : SpawnAtCount(me, target)

LEMMA RestsOrMoves ==
    ASSUME NEW me, WorkerStep(me) \/ TaskPanics(me) \/ SpuriousWake(me)
    PROVE  Rests(me) \/ Moves(me)
BY DEF WorkerStep, Loop, Spawn, Finish, Steal, Park, Rests, Moves

\* Everything stays where it is.
Still ==
    /\ UNCHANGED <<deque, inbox, ended>>
    /\ \A w \in Workers :
          /\ regs'[w].task = regs[w].task
          /\ regs'[w].child = regs[w].child
          /\ pc'[w] = "steal_more" <=> pc[w] = "steal_more"
          /\ pc'[w] \in RunPc <=> pc[w] \in RunPc

LEMMA RestsStill ==
    ASSUME TypeOK, \A w \in Workers : RegsOk(w), NEW me \in Workers, Rests(me)
    PROVE  Still
<1> USE DEF RunPc, SpawnPc
<1>1. CASE DrainDone(me)
    BY <1>1, Typed, NoRegsFacts DEF RegsOk, Still, DrainDone, Goto, queueVars,
       historyVars
<1>2. CASE PopNone(me)
    BY <1>2, Typed, NoRegsFacts DEF RegsOk, Still, PopNone, GotoFresh, Goto,
       queueVars, historyVars
<1>3. CASE SpawnClear(me)
    BY <1>3, Typed, NoRegsFacts DEF RegsOk, Still, SpawnClear, Goto, queueVars,
       historyVars
<1>4. CASE SignalWork(me)
    BY <1>4, Typed, NoRegsFacts DEF RegsOk, Still, SignalWork, Goto, queueVars,
       historyVars
<1>5. CASE SignalNotify(me)
    BY <1>5, Typed, NoRegsFacts DEF RegsOk, Still, SignalNotify, WakeAll, Goto,
       queueVars, historyVars
<1>6. CASE TaskPanics(me)
    BY <1>6, Typed, NoRegsFacts DEF RegsOk, Still, TaskPanics, Goto, queueVars,
       historyVars
<1>7. CASE Declare(me)
    BY <1>7, Typed, NoRegsFacts DEF RegsOk, Still, Declare, Goto, queueVars,
       historyVars
<1>8. CASE DeclareNotify(me)
  <2>1. \A w \in Workers : /\ regs'[w].task = regs[w].task
                           /\ regs'[w].child = regs[w].child
      BY <1>8, Notes DEF DeclareNotify
  <2>2. UNCHANGED <<deque, inbox, ended>>
      BY <1>8 DEF DeclareNotify, queueVars, historyVars
  <2>3. \A w \in Workers :
            /\ pc'[w] = "steal_more" <=> pc[w] = "steal_more"
            /\ pc'[w] \in RunPc <=> pc[w] \in RunPc
      BY <1>8, Typed DEF DeclareNotify, WakeAll, AfterRun, Goto
  <2> QED
      BY <2>1, <2>2, <2>3 DEF Still
<1>9. CASE \E v \in Workers : StealRandom(me, v)
  <2>1. \A w \in Workers : /\ regs'[w].task = regs[w].task
                           /\ regs'[w].child = regs[w].child
      BY <1>9, StealNotes DEF StealRandom
  <2>2. UNCHANGED <<deque, inbox, ended>>
      BY <1>9 DEF StealRandom, queueVars, historyVars
  <2>3. \A w \in Workers :
            /\ pc'[w] = "steal_more" <=> pc[w] = "steal_more"
            /\ pc'[w] \in RunPc <=> pc[w] \in RunPc
      BY <1>9, Typed DEF StealRandom, Estimate, Goto
  <2> QED
      BY <2>1, <2>2, <2>3 DEF Still
<1>10. CASE StealNoLuck(me)
  <2>1. \A w \in Workers : /\ regs'[w].task = regs[w].task
                           /\ regs'[w].child = regs[w].child
      BY <1>10, Notes DEF StealNoLuck
  <2>2. UNCHANGED <<deque, inbox, ended>>
      BY <1>10 DEF StealNoLuck, queueVars, historyVars
  <2>3. \A w \in Workers :
            /\ pc'[w] = "steal_more" <=> pc[w] = "steal_more"
            /\ pc'[w] \in RunPc <=> pc[w] \in RunPc
      BY <1>10, Typed DEF StealNoLuck, Goto
  <2> QED
      BY <2>1, <2>2, <2>3 DEF Still
<1>11. CASE StealBuddy(me)
  <2>1. \A w \in Workers : /\ regs'[w].task = regs[w].task
                           /\ regs'[w].child = regs[w].child
      BY <1>11, StealNotes DEF StealBuddy
  <2>2. UNCHANGED <<deque, inbox, ended>>
      BY <1>11 DEF StealBuddy, queueVars, historyVars
  <2>3. \A w \in Workers :
            /\ pc'[w] = "steal_more" <=> pc[w] = "steal_more"
            /\ pc'[w] \in RunPc <=> pc[w] \in RunPc
      BY <1>11, Typed DEF StealBuddy, Estimate, Goto
  <2> QED
      BY <2>1, <2>2, <2>3 DEF Still
<1>12. CASE StealBuddyEmpty(me)
  <2>1. \A w \in Workers : /\ regs'[w].task = regs[w].task
                           /\ regs'[w].child = regs[w].child
      BY <1>12, Notes DEF StealBuddyEmpty
  <2>2. UNCHANGED <<deque, inbox, ended>>
      BY <1>12 DEF StealBuddyEmpty, queueVars, historyVars
  <2>3. \A w \in Workers :
            /\ pc'[w] = "steal_more" <=> pc[w] = "steal_more"
            /\ pc'[w] \in RunPc <=> pc[w] \in RunPc
      BY <1>12, Typed DEF StealBuddyEmpty, Goto
  <2> QED
      BY <2>1, <2>2, <2>3 DEF Still
<1>13. CASE StealGiveUp(me)
    BY <1>13, Typed, NoRegsFacts DEF RegsOk, Still, StealGiveUp, GotoFresh,
       Goto, queueVars, historyVars
<1>14. CASE StealFirstFails(me)
  <2>1. \A w \in Workers : /\ regs'[w].task = regs[w].task
                           /\ regs'[w].child = regs[w].child
      BY <1>14, StealNotes DEF StealFirstFails
  <2>2. UNCHANGED <<deque, inbox, ended>>
      BY <1>14 DEF StealFirstFails, queueVars, historyVars
  <2>3. \A w \in Workers :
            /\ pc'[w] = "steal_more" <=> pc[w] = "steal_more"
            /\ pc'[w] \in RunPc <=> pc[w] \in RunPc
      BY <1>14, Typed DEF StealFirstFails, Goto
  <2> QED
      BY <2>1, <2>2, <2>3 DEF Still
<1>15. CASE CheckDone(me)
  <2>1. \A w \in Workers : /\ regs'[w].task = regs[w].task
                           /\ regs'[w].child = regs[w].child
      BY <1>15, Notes DEF CheckDone, CheckDoneNothingFound
  <2>2. UNCHANGED <<deque, inbox, ended>>
      BY <1>15 DEF CheckDone, CheckDoneNothingFound, queueVars, historyVars
  <2>3. \A w \in Workers :
            /\ pc'[w] = "steal_more" <=> pc[w] = "steal_more"
            /\ pc'[w] \in RunPc <=> pc[w] \in RunPc
      BY <1>15, Typed DEF CheckDone, CheckDoneNothingFound, Goto
  <2> QED
      BY <2>1, <2>2, <2>3 DEF Still
<1>16. CASE CheckRegister(me)
    BY <1>16, Typed, NoRegsFacts DEF RegsOk, Still, CheckRegister, Goto,
       queueVars, historyVars
<1>17. CASE ParkTerminated(me)
    BY <1>17, Typed, NoRegsFacts DEF RegsOk, Still, ParkTerminated, Goto,
       queueVars, historyVars
<1>18. CASE ParkLock(me)
    BY <1>18, Typed, NoRegsFacts DEF RegsOk, Still, ParkLock, Goto, queueVars,
       historyVars
<1>19. CASE ParkOutstanding(me)
    BY <1>19, Typed, NoRegsFacts DEF RegsOk, Still, ParkOutstanding, Goto,
       queueVars, historyVars
<1>20. CASE ParkInbox(me)
    BY <1>20, Typed, NoRegsFacts DEF RegsOk, Still, ParkInbox, Goto, queueVars,
       historyVars
<1>21. CASE ParkSleep(me)
  <2>1. \A w \in Workers : /\ regs'[w].task = regs[w].task
                           /\ regs'[w].child = regs[w].child
      BY <1>21, Notes DEF ParkSleep, ParkSleepAnyway
  <2>2. UNCHANGED <<deque, inbox, ended>>
      BY <1>21 DEF ParkSleep, ParkSleepAnyway, queueVars, historyVars
  <2>3. \A w \in Workers :
            /\ pc'[w] = "steal_more" <=> pc[w] = "steal_more"
            /\ pc'[w] \in RunPc <=> pc[w] \in RunPc
      BY <1>21, Typed DEF ParkSleep, ParkSleepAnyway, Goto
  <2> QED
      BY <2>1, <2>2, <2>3 DEF Still
<1>22. CASE SpuriousWake(me)
    BY <1>22, Typed, NoRegsFacts DEF RegsOk, Still, SpuriousWake, Goto,
       queueVars, historyVars
<1>23. CASE SleepOn(me)
    BY <1>23, Typed, NoRegsFacts DEF RegsOk, Still, SleepOn, Goto, queueVars,
       historyVars
<1>24. CASE WakeUp(me)
    BY <1>24, Typed, NoRegsFacts DEF RegsOk, Still, WakeUp, GotoFresh, Goto,
       queueVars, historyVars
<1> QED
    BY <1>1, <1>2, <1>3, <1>4, <1>5, <1>6, <1>7, <1>8, <1>9, <1>10, <1>11,
       <1>12, <1>13, <1>14, <1>15, <1>16, <1>17, <1>18, <1>19, <1>20, <1>21,
       <1>22, <1>23, <1>24 DEF Rests

\* What a worker keeps and runs depends on this only.
LEMMA SameKeeps ==
    ASSUME NEW w \in Workers,
           ToSet(deque'[w]) = ToSet(deque[w]),
           TasksOf(inbox'[w]) = TasksOf(inbox[w]),
           regs'[w].task = regs[w].task, regs'[w].child = regs[w].child,
           pc'[w] = "steal_more" <=> pc[w] = "steal_more",
           pc'[w] \in RunPc <=> pc[w] \in RunPc
    PROVE  \A t : /\ Keeps(w, t)' <=> Keeps(w, t)
                  /\ Runs(w, t)' <=> Runs(w, t)
BY DEF Keeps, Runs

\* The others are as they were.
LEMMA OthersStill ==
    ASSUME NEW me \in Workers, Does(me), NEW w \in Workers \ {me}
    PROVE  /\ regs'[w] = regs[w]
           /\ pc'[w] = "steal_more" <=> pc[w] = "steal_more"
           /\ pc'[w] \in RunPc <=> pc[w] \in RunPc
           /\ pc'[w] = "exited" <=> pc[w] = "exited"
           /\ deque'[w] = deque[w] /\ inbox'[w] = inbox[w] =>
                 \A t : Keeps(w, t)' <=> Keeps(w, t)
           /\ \A t : Runs(w, t)' <=> Runs(w, t)
<1>1. /\ regs'[w] = regs[w]
      /\ \/ pc'[w] = pc[w]
         \/ pc[w] = "asleep" /\ pc'[w] = "woken"
    BY DEF Does
<1>2. /\ pc'[w] = "steal_more" <=> pc[w] = "steal_more"
      /\ pc'[w] \in RunPc <=> pc[w] \in RunPc
      /\ pc'[w] = "exited" <=> pc[w] = "exited"
    BY <1>1 DEF RunPc, SpawnPc
<1>3. ASSUME deque'[w] = deque[w], inbox'[w] = inbox[w]
      PROVE  \A t : Keeps(w, t)' <=> Keeps(w, t)
  <2>1. /\ ToSet(deque'[w]) = ToSet(deque[w])
        /\ TasksOf(inbox'[w]) = TasksOf(inbox[w])
      BY <1>3
  <2> QED
      BY <2>1, <1>1, <1>2, SameKeeps
<1>4. \A t : Runs(w, t)' <=> Runs(w, t)
    BY <1>1, <1>2 DEF Runs
<1> QED
    BY <1>1, <1>2, <1>3, <1>4

\* A task that one worker takes over from another still waits; nobody notices.
LEMMA NothingBegins ==
    ASSUME NEW x,
           \E w \in Workers : Keeps(w, x), \E w \in Workers : Keeps(w, x)',
           \A w \in Workers : \A t : t # x => (Keeps(w, t)' <=> Keeps(w, t)),
           \A w \in Workers : \A t : Runs(w, t)' <=> Runs(w, t)
    PROVE  Waiting' = Waiting /\ Running' = Running
<1>1. ASSUME NEW t
      PROVE  t \in Waiting' <=> t \in Waiting
  <2>1. CASE t = x
      BY <2>1, WaitingIs
  <2>2. CASE t # x
    <3>1. \A w \in Workers : Keeps(w, t)' <=> Keeps(w, t)
        BY <2>2
    <3> QED
        BY <3>1, WaitingIs
  <2> QED
      BY <2>1, <2>2
<1>2. \A t : t \in Running' <=> t \in Running
    BY WaitingIs
<1> QED
    BY <1>1, <1>2 DEF Waiting, Running

\* Without a move this is so all the more.
LEMMA NothingMoves ==
    ASSUME \A w \in Workers : \A t : /\ Keeps(w, t)' <=> Keeps(w, t)
                                     /\ Runs(w, t)' <=> Runs(w, t)
    PROVE  Waiting' = Waiting /\ Running' = Running
<1>1. \A t : t \in Waiting' <=> t \in Waiting
    BY WaitingIs
<1>2. \A t : t \in Running' <=> t \in Running
    BY WaitingIs
<1> QED
    BY <1>1, <1>2 DEF Waiting, Running

LEMMA DequeGrows ==
    ASSUME NEW s \in Seq(1..MaxTasks), NEW t \in 1..MaxTasks
    PROVE  ToSet(Append(s, t)) = ToSet(s) \cup {t}
<1>1. PICK S : S = 1..MaxTasks
    OBVIOUS
<1>2. s \in Seq(S) /\ t \in S
    BY <1>1
<1> QED
    BY <1>2, AppendFacts

\* Handing a task over, or carrying it to another deque, begins nothing.
LEMMA HandOver ==
    ASSUME IndInv, NEW me \in Workers, Does(me),
           \/ DrainInbox(me) \/ SpawnPush(me)
           \/ InboxClaim(me) \/ InboxStore(me)
           \/ StealFirst(me) \/ StealMore(me)
    PROVE  Waiting' = Waiting /\ Running' = Running /\ ended' = ended
<1>0. /\ TypeOK /\ TasksInv /\ Apart /\ NoRepeats /\ RegsInv
      /\ \A w \in Workers : RegsOk(w) /\ StoreOk(w)
    BY DEF IndInv, TasksInv, RegsInv
<1>1. CASE DrainInbox(me)
  <2>1. PICK h, cells : cells = inbox[me] /\ h = Head(cells).task
      OBVIOUS
  <2>2. /\ cells \in Seq(CellType) /\ cells # <<>> /\ InjectiveTasks(cells)
        /\ deque[me] \in Seq(1..MaxTasks)
      BY <1>0, <1>1, <2>1, Typed DEF DrainInbox, Ready, NoRepeats
  <2>3. /\ h \in TasksOf(cells) /\ h \in 1..MaxTasks
        /\ TasksOf(Tail(cells)) = TasksOf(cells) \ {h}
      BY <2>1, <2>2, CellTailFacts DEF CellType
  <2>4. /\ deque'[me] = Append(deque[me], h) /\ inbox'[me] = Tail(cells)
        /\ \A w \in Workers \ {me} : /\ deque'[w] = deque[w]
                                     /\ inbox'[w] = inbox[w]
        /\ regs' = regs /\ pc' = pc /\ ended' = ended
      BY <1>0, <1>1, <2>1, Typed DEF DrainInbox, historyVars
  <2>5. ToSet(deque'[me]) = ToSet(deque[me]) \cup {h}
    <3>1. ToSet(Append(deque[me], h)) = ToSet(deque[me]) \cup {h}
        BY <2>2, <2>3, DequeGrows
    <3> QED
        BY <3>1, <2>4
  <2>6. \A t : Keeps(me, t)' <=> Keeps(me, t)
      BY <2>1, <2>3, <2>4, <2>5 DEF Keeps
  <2>7. \A w \in Workers : \A t : /\ Keeps(w, t)' <=> Keeps(w, t)
                                  /\ Runs(w, t)' <=> Runs(w, t)
      BY <2>4, <2>6, OthersStill DEF Runs
  <2> QED
      BY <2>4, <2>7, NothingMoves
<1>2. CASE SpawnPush(me)
  <2>1. PICK c : c = regs[me].child
      OBVIOUS
  <2>2. c \in 1..MaxTasks /\ c # 0 /\ deque[me] \in Seq(1..MaxTasks)
      BY <1>0, <1>2, <2>1, LiveFacts, Typed DEF SpawnPush, RegsOk
  <2>3. /\ deque'[me] = Append(deque[me], c)
        /\ \A w \in Workers \ {me} : deque'[w] = deque[w]
        /\ inbox' = inbox /\ ended' = ended
        /\ pc[me] = "spawn_push" /\ pc'[me] = "spawn_clear"
      BY <1>0, <1>2, <2>1, Typed DEF SpawnPush, Goto, historyVars
  <2>4. regs'[me].child = 0 /\ regs'[me].task = regs[me].task
      BY <1>0, <1>2, <2>3, ChildRegs
  <2>5. ToSet(deque'[me]) = ToSet(deque[me]) \cup {c}
    <3>1. ToSet(Append(deque[me], c)) = ToSet(deque[me]) \cup {c}
        BY <2>2, DequeGrows
    <3> QED
        BY <3>1, <2>3
  <2>6. \A t : /\ Keeps(me, t)' <=> Keeps(me, t)
               /\ Runs(me, t)' <=> Runs(me, t)
      BY <2>1, <2>2, <2>3, <2>4, <2>5 DEF Keeps, Runs, RunPc, SpawnPc
  <2>7. \A w \in Workers : \A t : /\ Keeps(w, t)' <=> Keeps(w, t)
                                  /\ Runs(w, t)' <=> Runs(w, t)
      BY <2>3, <2>6, OthersStill
  <2> QED
      BY <2>3, <2>7, NothingMoves
<1>3. CASE InboxClaim(me)
  <2>1. PICK c, target : c = regs[me].child /\ target = regs[me].target
      OBVIOUS
  <2>2. c \in 1..MaxTasks /\ c # 0 /\ target \in Workers
      BY <1>0, <1>3, <2>1, LiveFacts, Typed DEF InboxClaim, RegsOk
  <2>3. /\ inbox'[target] = Claimed(inbox[target], c)
        /\ \A w \in Workers \ {target} : inbox'[w] = inbox[w]
        /\ deque' = deque /\ ended' = ended /\ regs' = regs
        /\ pc[me] = "inbox_claim" /\ pc'[me] = "inbox_store"
        /\ \A w \in Workers \ {me} : pc'[w] = pc[w]
      BY <1>0, <1>3, <2>1, <2>2, Typed DEF InboxClaim, Goto, historyVars
  <2>4. TasksOf(inbox'[target]) = TasksOf(inbox[target]) \cup {c}
    <3>1. inbox[target] \in Seq(CellType)
        BY <1>0, <2>2, Typed
    <3>2. TasksOf(Claimed(inbox[target], c)) = TasksOf(inbox[target]) \cup {c}
        BY <2>2, <3>1, ClaimedFacts
    <3> QED
        BY <3>2, <2>3
  <2>5. /\ \A w \in Workers \ {target} : \A t : Keeps(w, t)' <=> Keeps(w, t)
        /\ \A t : Keeps(target, t)' <=> Keeps(target, t) \/ t = c
        /\ \A w \in Workers : \A t : Runs(w, t)' <=> Runs(w, t)
        /\ Keeps(me, c)
      BY <2>1, <2>2, <2>3, <2>4 DEF Keeps, Runs, RunPc, SpawnPc
  <2>6. \A w \in Workers : \A t : t # c => (Keeps(w, t)' <=> Keeps(w, t))
      BY <2>5
  <2>7. Keeps(target, c)'
      BY <2>2, <2>5
  <2> QED
      BY <2>2, <2>3, <2>5, <2>6, <2>7, NothingBegins
<1>4. CASE InboxStore(me)
  <2>1. PICK c, target : c = regs[me].child /\ target = regs[me].target
      OBVIOUS
  <2>2. c \in 1..MaxTasks /\ c # 0 /\ target \in Workers
      BY <1>0, <1>4, <2>1, LiveFacts, Typed DEF InboxStore, RegsOk
  <2>3. /\ inbox'[target] = Filled(inbox[target], c)
        /\ \A w \in Workers \ {target} : inbox'[w] = inbox[w]
        /\ deque' = deque /\ ended' = ended
        /\ pc[me] = "inbox_store" /\ pc'[me] = "signal"
        /\ \A w \in Workers \ {me} : pc'[w] = pc[w]
      BY <1>0, <1>4, <2>1, <2>2, Typed DEF InboxStore, Goto, historyVars
  <2>4. TasksOf(inbox'[target]) = TasksOf(inbox[target])
      BY <1>0, <2>2, <2>3, Typed, FilledFacts
  <2>5. /\ regs'[me].child = 0 /\ regs'[me].task = regs[me].task
        /\ \A w \in Workers \ {me} : regs'[w] = regs[w]
      BY <1>0, <1>4, <2>3, ChildRegs
  <2>6. c \in TasksOf(inbox[target])
      BY <1>0, <2>1, <2>3 DEF StoreOk, TasksOf
  <2>7. \A w \in Workers : TasksOf(inbox'[w]) = TasksOf(inbox[w])
      BY <2>3, <2>4
  <2>8. /\ \A w \in Workers \ {me} : \A t : Keeps(w, t)' <=> Keeps(w, t)
        /\ \A t : t # c => (Keeps(me, t)' <=> Keeps(me, t))
        /\ Keeps(me, c)
        /\ \A w \in Workers : \A t : Runs(w, t)' <=> Runs(w, t)
      BY <2>1, <2>2, <2>3, <2>5, <2>7 DEF Keeps, Runs, RunPc, SpawnPc
  <2>9. Keeps(target, c)'
      BY <2>6, <2>7, <2>2 DEF Keeps
  <2>10. \A w \in Workers : \A t : t # c => (Keeps(w, t)' <=> Keeps(w, t))
      BY <2>8
  <2> QED
      BY <2>2, <2>3, <2>8, <2>9, <2>10, NothingBegins
<1>5. CASE StealFirst(me)
  <2>1. PICK h, v : v = regs[me].victim /\ h = Head(deque[v])
      OBVIOUS
  <2>2. /\ v \in Workers /\ v # me /\ deque[v] # <<>> /\ Injective(deque[v])
        /\ deque[v] \in Seq(1..MaxTasks) /\ pc[me] = "steal_first"
        /\ regs[me].child = 0 /\ regs[me].task = 0
      BY <1>0, <1>5, <2>1, Typed DEF StealFirst, RegsOk, NoRepeats, RunPc,
         SpawnPc
  <2>3. /\ h \in ToSet(deque[v]) /\ h \in 1..MaxTasks
        /\ ToSet(Tail(deque[v])) = ToSet(deque[v]) \ {h}
      BY <2>1, <2>2, TailFacts
  <2>4. /\ deque'[v] = Tail(deque[v])
        /\ \A w \in Workers \ {v} : deque'[w] = deque[w]
        /\ inbox' = inbox /\ ended' = ended /\ pc'[me] = "steal_more"
        /\ \A w \in Workers \ {me} : pc'[w] = pc[w]
    <3>1. PICK rest : rest = Tail(deque[v])
        OBVIOUS
    <3>2. deque' = [deque EXCEPT ![v] = rest]
        BY <1>5, <2>1, <3>1 DEF StealFirst
    <3>3. /\ inbox' = inbox /\ ended' = ended
          /\ pc' = [pc EXCEPT ![me] = "steal_more"]
        BY <1>5 DEF StealFirst, Goto, historyVars
    <3> QED
        BY <3>1, <3>2, <3>3, <2>2, <1>0, Typed
  <2>5. /\ regs'[me].child = 0 /\ regs'[me].task = h
        /\ \A w \in Workers \ {me} : regs'[w] = regs[w]
      BY <1>0, <1>5, <2>1, <2>2, TaskRegs
  <2>6. \A w \in Workers :
            /\ h \notin TasksOf(inbox[w]) /\ regs[w].child # h
            /\ regs[w].task # h
            /\ w # v => h \notin ToSet(deque[w])
      BY <1>0, <2>2, <2>3, OnlyInDeque
  <2>7. \A w \in Workers \ {me} : \A t : Runs(w, t)' <=> Runs(w, t)
      BY <2>4, <2>5 DEF Runs
  <2>8. \A t : Runs(me, t)' <=> Runs(me, t)
      BY <2>2, <2>4 DEF Runs, RunPc, SpawnPc
  <2>9. \A w \in Workers \ {me, v} : \A t : Keeps(w, t)' <=> Keeps(w, t)
      BY <2>4, <2>5 DEF Keeps
  <2>10. \A t : Keeps(v, t)' <=> Keeps(v, t) /\ t # h
    <3>1. \A t : t \in ToSet(deque'[v]) <=> t \in ToSet(deque[v]) /\ t # h
        BY <2>3, <2>4
    <3>2. /\ h \notin TasksOf(inbox[v]) /\ regs[v].child # h
          /\ regs[v].task # h
        BY <2>2, <2>6
    <3>3. inbox'[v] = inbox[v] /\ pc'[v] = pc[v] /\ regs'[v] = regs[v]
        BY <2>2, <2>4, <2>5
    <3> QED
        BY <3>1, <3>2, <3>3 DEF Keeps
  <2>11. \A t : Keeps(me, t)' <=> Keeps(me, t) \/ t = h
      BY <2>2, <2>4, <2>5 DEF Keeps
  <2>12. Keeps(v, h)
      BY <2>3 DEF Keeps
  <2>13. \A w \in Workers : \A t : t # h => (Keeps(w, t)' <=> Keeps(w, t))
      BY <2>9, <2>10, <2>11
  <2>14. Keeps(me, h)'
      BY <2>11
  <2>15. \A w \in Workers : \A t : Runs(w, t)' <=> Runs(w, t)
      BY <2>7, <2>8
  <2> QED
      BY <2>2, <2>4, <2>12, <2>13, <2>14, <2>15, NothingBegins
<1>6. CASE StealMore(me)
  <2>1. PICK h, v : v = regs[me].victim /\ h = Head(deque[v])
      OBVIOUS
  <2>2. /\ v \in Workers /\ v # me /\ deque[v] # <<>> /\ Injective(deque[v])
        /\ deque[v] \in Seq(1..MaxTasks) /\ deque[me] \in Seq(1..MaxTasks)
        /\ pc[me] = "steal_more"
      BY <1>0, <1>6, <2>1, Typed DEF StealMore, RegsOk, NoRepeats
  <2>3. /\ h \in ToSet(deque[v]) /\ h \in 1..MaxTasks
        /\ ToSet(Tail(deque[v])) = ToSet(deque[v]) \ {h}
        /\ ToSet(Append(deque[me], h)) = ToSet(deque[me]) \cup {h}
    <3>1. /\ h \in ToSet(deque[v]) /\ h \in 1..MaxTasks
          /\ ToSet(Tail(deque[v])) = ToSet(deque[v]) \ {h}
        BY <2>1, <2>2, TailFacts
    <3> QED
        BY <3>1, <2>2, DequeGrows
  <2>4. /\ deque'[v] = Tail(deque[v]) /\ deque'[me] = Append(deque[me], h)
        /\ \A w \in Workers \ {me, v} : deque'[w] = deque[w]
        /\ inbox' = inbox /\ ended' = ended /\ pc' = pc
    <3>1. PICK rest, more :
              rest = Tail(deque[v]) /\ more = Append(deque[me], h)
        OBVIOUS
    <3>2. deque' = [deque EXCEPT ![v] = rest, ![me] = more]
        BY <1>6, <2>1, <2>2, <3>1, <1>0, Typed DEF StealMore
    <3>3. inbox' = inbox /\ ended' = ended /\ pc' = pc
        BY <1>6 DEF StealMore, historyVars
    <3> QED
        BY <3>1, <3>2, <3>3, <2>2, <1>0, Typed
  <2>5. \A w \in Workers : /\ regs'[w].child = regs[w].child
                           /\ regs'[w].task = regs[w].task
    <3>1. PICK n : regs' = [regs EXCEPT ![me].want = n]
        BY <1>6 DEF StealMore, SetReg
    <3> QED
        BY <3>1, <1>0, Typed DEF RegsType
  <2>6. \A w \in Workers :
            /\ h \notin TasksOf(inbox[w]) /\ regs[w].child # h
            /\ regs[w].task # h
      BY <1>0, <2>2, <2>3, OnlyInDeque
  <2>7. \A w \in Workers : \A t : Runs(w, t)' <=> Runs(w, t)
      BY <2>4, <2>5 DEF Runs
  <2>9. \A w \in Workers \ {me, v} : \A t : Keeps(w, t)' <=> Keeps(w, t)
      BY <2>4, <2>5 DEF Keeps
  <2>10. \A t : Keeps(v, t)' <=> Keeps(v, t) /\ t # h
    <3>1. \A t : t \in ToSet(deque'[v]) <=> t \in ToSet(deque[v]) /\ t # h
        BY <2>3, <2>4
    <3>2. /\ h \notin TasksOf(inbox[v]) /\ regs[v].child # h
          /\ regs[v].task # h /\ inbox'[v] = inbox[v] /\ pc'[v] = pc[v]
          /\ regs'[v].child = regs[v].child /\ regs'[v].task = regs[v].task
        BY <2>2, <2>4, <2>5, <2>6
    <3> QED
        BY <3>1, <3>2 DEF Keeps
  <2>11. \A t : Keeps(me, t)' <=> Keeps(me, t) \/ t = h
      BY <2>2, <2>3, <2>4, <2>5 DEF Keeps
  <2>12. Keeps(v, h)
      BY <2>3 DEF Keeps
  <2>13. \A w \in Workers : \A t : t # h => (Keeps(w, t)' <=> Keeps(w, t))
      BY <2>9, <2>10, <2>11
  <2>14. Keeps(me, h)'
      BY <2>11
  <2> QED
      BY <2>2, <2>4, <2>7, <2>12, <2>13, <2>14, NothingBegins
<1> QED
    BY <1>1, <1>2, <1>3, <1>4, <1>5, <1>6

\* The steps of the pool itself, for a worker that does not return.
LEMMA PoolStep ==
    ASSUME IndInv, NEW me \in Workers, Does(me), Exited' = Exited,
           \/ PopTask(me) \/ StealDone(me) \/ FinishTask(me) \/ SpawnCount(me)
           \/ \E target \in Workers : SpawnAtCount(me, target)
    PROVE  \E t \in 1..MaxTasks :
               Pool!SpawnTask(t) \/ Pool!BeginTask(t) \/ Pool!EndTask(t)
<1>0. /\ TypeOK /\ TasksInv /\ Apart /\ NoRepeats /\ RegsInv
      /\ \A w \in Workers : RegsOk(w) /\ StoreOk(w)
    BY DEF IndInv, TasksInv, RegsInv
<1>x. Workers \ Exited' = Workers \ Exited
    OBVIOUS
<1>1. CASE PopTask(me)
  <2>1. PICK h : h = Last(deque[me])
      OBVIOUS
  <2>2. /\ deque[me] \in Seq(1..MaxTasks) /\ deque[me] # <<>>
        /\ Injective(deque[me]) /\ pc[me] = "pop"
        /\ regs[me].child = 0 /\ regs[me].task = 0
      BY <1>0, <1>1, Typed DEF PopTask, NoRepeats, RegsOk, RunPc, SpawnPc
  <2>3. /\ h \in ToSet(deque[me]) /\ h \in 1..MaxTasks
        /\ ToSet(Front(deque[me])) = ToSet(deque[me]) \ {h}
      BY <2>1, <2>2, FrontFacts
  <2>4. /\ deque'[me] = Front(deque[me])
        /\ \A w \in Workers \ {me} : deque'[w] = deque[w]
        /\ inbox' = inbox /\ ended' = ended /\ pc'[me] = "run"
    <3>1. PICK rest : rest = Front(deque[me])
        OBVIOUS
    <3>2. deque' = [deque EXCEPT ![me] = rest]
        BY <1>1, <3>1 DEF PopTask
    <3>3. /\ inbox' = inbox /\ ended' = ended
          /\ pc' = [pc EXCEPT ![me] = "run"]
        BY <1>1 DEF PopTask, Goto, historyVars
    <3> QED
        BY <3>1, <3>2, <3>3, <1>0, Typed
  <2>5. regs'[me].child = 0 /\ regs'[me].task = h
      BY <1>0, <1>1, <2>1, <2>2, TaskRegs
  <2>6. \A w \in Workers :
            /\ h \notin TasksOf(inbox[w]) /\ regs[w].child # h
            /\ regs[w].task # h
            /\ w # me => h \notin ToSet(deque[w])
      BY <1>0, <2>2, <2>3, OnlyInDeque
  <2>7. \A w \in Workers \ {me} : \A t : /\ Keeps(w, t)' <=> Keeps(w, t)
                                         /\ Runs(w, t)' <=> Runs(w, t)
      BY <2>4, OthersStill
  <2>8. \A w \in Workers \ {me} : ~Keeps(w, h)
      BY <2>6 DEF Keeps
  <2>9. \A t : Keeps(me, t)' <=> Keeps(me, t) /\ t # h
    <3>1. \A t : t \in ToSet(deque'[me]) <=> t \in ToSet(deque[me]) /\ t # h
        BY <2>3, <2>4
    <3>2. h \notin TasksOf(inbox[me])
        BY <2>6
    <3> QED
        BY <2>2, <2>4, <2>5, <3>1, <3>2 DEF Keeps
  <2>10. \A t : /\ ~Runs(me, t)
                /\ Runs(me, t)' <=> t = h
      BY <2>2, <2>4, <2>5 DEF Runs, RunPc, SpawnPc
  <2>11. Keeps(me, h)
      BY <2>3 DEF Keeps
  <2>12. ASSUME NEW t
         PROVE  /\ t \in Waiting' <=> t \in Waiting /\ t # h
                /\ t \in Running' <=> t \in Running \/ t = h
    <3>1. t \in Waiting' <=> t \in Waiting /\ t # h
        BY <2>7, <2>8, <2>9, WaitingIs
    <3>2. t \in Running' <=> t \in Running \/ t = h
        BY <2>7, <2>10, WaitingIs
    <3> QED
        BY <3>1, <3>2
  <2>13. h \in Waiting
      BY <2>11, WaitingIs
  <2>14. Waiting' = Waiting \ {h} /\ Running' = Running \cup {h}
      BY <2>12 DEF Waiting, Running
  <2> QED
      BY <2>3, <2>4, <2>13, <2>14, <1>x DEF Pool!BeginTask
<1>2. CASE StealDone(me)
  <2>1. PICK h : h = regs[me].task
      OBVIOUS
  <2>2. /\ pc[me] = "steal_more" /\ pc'[me] = "run" /\ deque' = deque
        /\ inbox' = inbox /\ ended' = ended
        /\ regs'[me].task = h /\ regs'[me].child = 0
      BY <1>0, <1>2, <2>1, Typed DEF StealDone, Goto, NoRegs, queueVars,
         historyVars
  <2>3. h \in 1..MaxTasks /\ regs[me].child = 0
      BY ZenonT(40), <1>0, <2>1, <2>2, LiveFacts DEF RegsOk
  <2>4. \A w \in Workers :
            /\ h \notin ToSet(deque[w]) /\ h \notin TasksOf(inbox[w])
            /\ regs[w].child # h
            /\ w # me => regs[w].task # h
      BY <1>0, <2>1, <2>2, OnlyBegun
  <2>5. \A w \in Workers \ {me} : \A t : /\ Keeps(w, t)' <=> Keeps(w, t)
                                         /\ Runs(w, t)' <=> Runs(w, t)
      BY <2>2, OthersStill
  <2>6. \A w \in Workers \ {me} : ~Keeps(w, h)
      BY <2>4 DEF Keeps
  <2>7. \A t : Keeps(me, t)' <=> Keeps(me, t) /\ t # h
    <3>1. h \notin ToSet(deque[me]) /\ h \notin TasksOf(inbox[me])
        BY <2>4
    <3> QED
        BY <2>1, <2>2, <2>3, <3>1 DEF Keeps
  <2>8. \A t : /\ ~Runs(me, t)
               /\ Runs(me, t)' <=> t = h
      BY <2>2 DEF Runs, RunPc, SpawnPc
  <2>9. Keeps(me, h)
      BY <2>1, <2>2 DEF Keeps
  <2>10. ASSUME NEW t
         PROVE  /\ t \in Waiting' <=> t \in Waiting /\ t # h
                /\ t \in Running' <=> t \in Running \/ t = h
    <3>1. t \in Waiting' <=> t \in Waiting /\ t # h
        BY <2>5, <2>6, <2>7, WaitingIs
    <3>2. t \in Running' <=> t \in Running \/ t = h
        BY <2>5, <2>8, WaitingIs
    <3> QED
        BY <3>1, <3>2
  <2>11. h \in Waiting
      BY <2>9, WaitingIs
  <2>12. Waiting' = Waiting \ {h} /\ Running' = Running \cup {h}
      BY <2>10 DEF Waiting, Running
  <2> QED
      BY <2>2, <2>3, <2>11, <2>12, <1>x DEF Pool!BeginTask
<1>3. CASE FinishTask(me)
  <2>1. PICK h : h = regs[me].task
      OBVIOUS
  <2>2. /\ pc[me] = "run" /\ pc'[me] \notin RunPc \cup {"steal_more"}
        /\ deque' = deque /\ inbox' = inbox /\ ended' = ended \cup {h}
      BY <1>0, <1>3, <2>1, Typed DEF FinishTask, AfterRun, Goto, queueVars,
         RunPc, SpawnPc
  <2>3. /\ h \in 1..MaxTasks /\ regs[me].child = 0
        /\ regs'[me].child = 0 /\ regs'[me].task = 0
    <3>1. regs[me].child = 0 /\ h \in (1..spawned) \ ended
        BY <1>0, <2>1, <2>2, LiveFacts DEF RegsOk, RunPc, SpawnPc
    <3>2. regs'[me].child = 0 /\ regs'[me].task = 0
        BY <3>1, <1>0, <1>3, TaskRegs
    <3>3. h \in 1..MaxTasks
        BY <3>1, <1>0, LiveFacts
    <3> QED
        BY <3>1, <3>2, <3>3
  <2>4. \A w \in Workers \ {me} : regs[w].task # h
      BY <1>0, <2>1, <2>2, OnlyBegun DEF RunPc
  <2>5. \A w \in Workers \ {me} : \A t : /\ Keeps(w, t)' <=> Keeps(w, t)
                                         /\ Runs(w, t)' <=> Runs(w, t)
      BY <2>2, OthersStill
  <2>6. \A w \in Workers \ {me} : ~Runs(w, h)
      BY <2>4 DEF Runs
  <2>7. \A t : /\ Keeps(me, t)' <=> Keeps(me, t)
               /\ Runs(me, t) <=> t = h
               /\ ~Runs(me, t)'
      BY <2>1, <2>2, <2>3 DEF Keeps, Runs, RunPc
  <2>8. ASSUME NEW t
        PROVE  /\ t \in Waiting' <=> t \in Waiting
               /\ t \in Running' <=> t \in Running /\ t # h
    <3>1. t \in Waiting' <=> t \in Waiting
        BY <2>5, <2>7, WaitingIs
    <3>2. t \in Running' <=> t \in Running /\ t # h
        BY <2>5, <2>6, <2>7, WaitingIs
    <3> QED
        BY <3>1, <3>2
  <2>9. h \in Running
      BY <2>7, WaitingIs
  <2>10. Waiting' = Waiting /\ Running' = Running \ {h}
      BY <2>8 DEF Waiting, Running
  <2> QED
      BY <2>2, <2>3, <2>9, <2>10, <1>x DEF Pool!EndTask
<1>4. CASE SpawnCount(me) \/ \E target \in Workers : SpawnAtCount(me, target)
  <2>1. PICK n : n = spawned + 1
      OBVIOUS
  <2>2. /\ pc[me] = "run" /\ pc'[me] \in RunPc /\ pc'[me] # "steal_more"
        /\ deque' = deque /\ inbox' = inbox /\ ended' = ended
        /\ spawned < MaxTasks
      BY <1>0, <1>4, Typed DEF SpawnCount, SpawnAtCount, SpawnAt, MaySpawn,
         Goto, queueVars, RunPc, SpawnPc
  <2>3. /\ n \in 1..MaxTasks /\ n # 0 /\ n \notin 1..spawned
        /\ n \notin ended
      BY <1>0, <2>1, <2>2, Typed, SchedulerAssumption
  <2>4. /\ regs[me].child = 0 /\ regs'[me].child = n
        /\ regs'[me].task = regs[me].task
    <3>1. regs[me].child = 0
        BY <1>0, <2>2 DEF RegsOk
    <3> QED
        BY <3>1, <1>0, <1>4, <2>1, <2>2, ChildRegs
  <2>5. \A w \in Workers \ {me} : \A t : /\ Keeps(w, t)' <=> Keeps(w, t)
                                         /\ Runs(w, t)' <=> Runs(w, t)
      BY <2>2, OthersStill
  <2>6. \A t : /\ Keeps(me, t)' <=> Keeps(me, t) \/ t = n
               /\ Runs(me, t)' <=> Runs(me, t)
      BY <2>2, <2>3, <2>4 DEF Keeps, Runs, RunPc, SpawnPc
  <2>7. ASSUME NEW t
        PROVE  /\ t \in Waiting' <=> t \in Waiting \/ t = n
               /\ t \in Running' <=> t \in Running
    <3>1. t \in Waiting' <=> t \in Waiting \/ t = n
        BY <2>5, <2>6, WaitingIs
    <3>2. t \in Running' <=> t \in Running
        BY <2>5, <2>6, WaitingIs
    <3> QED
        BY <3>1, <3>2
  <2>8. Waiting' = Waiting \cup {n} /\ Running' = Running
      BY <2>7 DEF Waiting, Running
  <2>9. Running # {}
    <3>1. Runs(me, regs[me].task)
        BY <2>2 DEF Runs, RunPc
    <3> QED
        BY <3>1, WaitingIs
  <2>10. n \notin Waiting \cup Running \cup ended
      BY <2>3, PoolFacts
  <2> QED
      BY <2>2, <2>3, <2>8, <2>9, <2>10, <1>x DEF Pool!SpawnTask, Pool!Known
<1> QED
    BY <1>1, <1>2, <1>3, <1>4

\* At the start every seed waits in the deque it was dealt to.
LEMMA SeedsDealt ==
    ASSUME NEW t \in 1..NumSeeds
    PROVE  \E w \in Workers : t \in ToSet(SeedsOf(w))
<1>0. /\ NumWorkers \in Nat /\ NumWorkers > 0 /\ NumSeeds \in Nat
      /\ Workers = 0..NumWorkers-1
    BY SchedulerAssumption DEF Workers
<1>1. PICK d \in Nat : d = t - 1
    OBVIOUS
<1>2. PICK q \in Nat, p \in Nat : q = d \div NumWorkers /\ p = NumWorkers * q
    BY <1>0
<1>3. p <= d /\ d < p + NumWorkers
  <2>1. /\ NumWorkers * (d \div NumWorkers) <= d
        /\ d < NumWorkers * (d \div NumWorkers) + NumWorkers
      BY <1>0
  <2> QED
      BY <2>1, <1>2
<1>4. PICK w \in Workers : w = d - p
    BY <1>0, <1>2, <1>3
<1>5. w \in Nat /\ w <= NumWorkers - 1
    BY <1>0
<1>6. PICK e \in Nat : e = NumSeeds + NumWorkers - 1 - w
    BY <1>0, <1>5
<1>7. PICK n \in Nat : n = e \div NumWorkers
    BY <1>0
<1>8. e < NumWorkers * n + NumWorkers
    BY <1>0, <1>7
<1>9. p + NumWorkers <= e
    BY <1>0, <1>1, <1>3, <1>4, <1>6
<1>10. q + 1 <= n
  <2>1. ASSUME ~(q + 1 <= n)
        PROVE  FALSE
    <3>1. PICK c \in Nat : q = n + c
        BY <2>1
    <3>2. NumWorkers * q = NumWorkers * n + NumWorkers * c
        BY <3>1, <1>0
    <3>3. PICK a \in Nat, b \in Nat :
              a = NumWorkers * n /\ b = NumWorkers * c
        BY <1>0
    <3>4. p = a + b /\ e < a + NumWorkers
        BY <3>2, <3>3, <1>2, <1>8
    <3> QED
        BY <3>3, <3>4, <1>0, <1>9
  <2> QED
      BY <2>1
<1>11. /\ q + 1 \in 1..n
       /\ SeedsOf(w) = [i \in 1..n |-> w + 1 + (i - 1) * NumWorkers]
    BY <1>6, <1>7, <1>10 DEF SeedsOf
<1>12. w + 1 + ((q + 1) - 1) * NumWorkers = t
  <2>1. (q + 1) - 1 = q
      OBVIOUS
  <2>2. q * NumWorkers = p
      BY <1>0, <1>2
  <2> QED
      BY <2>1, <2>2, <1>1, <1>2, <1>4
<1>13. q + 1 \in DOMAIN SeedsOf(w) /\ SeedsOf(w)[q + 1] = t
    BY <1>11, <1>12
<1> QED
    BY <1>13 DEF ToSet

LEMMA PoolStarts ==
    ASSUME Init
    PROVE  Pool!PoolInit
<1>1. \A w \in Workers : /\ deque[w] = SeedsOf(w) /\ inbox[w] = <<>>
                         /\ pc[w] = "drain" /\ regs[w] = NoRegs
    BY DEF Init
<1>2. \A w \in Workers : TasksOf(inbox[w]) = {}
  <2>1. DOMAIN <<>> = {}
      OBVIOUS
  <2>2. TasksOf(<<>>) = {}
      BY <2>1, Zenon DEF TasksOf
  <2> QED
      BY <2>2, <1>1
<1>3. \A w \in Workers : \A t : /\ Keeps(w, t) <=> t \in ToSet(SeedsOf(w))
                                /\ ~Runs(w, t)
    BY <1>1, <1>2, NoRegsFacts DEF Keeps, Runs, RunPc, SpawnPc
<1>4. Waiting = 1..NumSeeds
  <2>1. ASSUME NEW t \in Waiting
        PROVE  t \in 1..NumSeeds
      BY <1>3, WaitingIs, SeedFacts
  <2>2. ASSUME NEW t \in 1..NumSeeds
        PROVE  t \in Waiting
      BY <1>3, WaitingIs, SeedsDealt
  <2> QED
      BY <2>1, <2>2
<1>5. Running = {}
    BY <1>3, WaitingIs
<1>6. Exited = {}
    BY <1>1 DEF Exited
<1>7. ended = {}
    BY DEF Init
<1> QED
    BY <1>4, <1>5, <1>6, <1>7 DEF Pool!PoolInit

\* A step that moves a task lets no worker return.
LEMMA NobodyLeaves ==
    ASSUME TypeOK, NEW me \in Workers, Does(me), pc'[me] # "exited",
           pc[me] # "exited"
    PROVE  Exited' = Exited
<1>1. \A w \in Workers : pc'[w] = "exited" <=> pc[w] = "exited"
    BY OthersStill
<1> QED
    BY <1>1 DEF Exited

LEMMA MoversStay ==
    ASSUME TypeOK, NEW me \in Workers, Moves(me)
    PROVE  pc'[me] # "exited"
<1>1. CASE DrainInbox(me)
    BY <1>1, Typed DEF DrainInbox
<1>2. CASE PopTask(me)
    BY <1>2, Typed DEF PopTask, Goto
<1>3. CASE SpawnCount(me)
    BY <1>3, Typed DEF SpawnCount, Goto
<1>4. CASE SpawnPush(me)
    BY <1>4, Typed DEF SpawnPush, Goto
<1>5. CASE InboxClaim(me)
    BY <1>5, Typed DEF InboxClaim, Goto
<1>6. CASE InboxStore(me)
    BY <1>6, Typed DEF InboxStore, Goto
<1>7. CASE FinishTask(me)
    BY <1>7, Typed DEF FinishTask, AfterRun, Goto
<1>8. CASE StealFirst(me)
    BY <1>8, Typed DEF StealFirst, Goto
<1>9. CASE StealMore(me)
    BY <1>9, Typed DEF StealMore
<1>10. CASE StealDone(me)
    BY <1>10, Typed DEF StealDone, Goto
<1>11. CASE \E target \in Workers : SpawnAtCount(me, target)
    BY <1>11, Typed DEF SpawnAtCount, SpawnAt, Goto
<1> QED
    BY <1>1, <1>2, <1>3, <1>4, <1>5, <1>6, <1>7, <1>8, <1>9, <1>10, <1>11
       DEF Moves

\* A step that moves no task is one that nobody sees, or a worker returns,
\* and then there is nothing left.
LEMMA RestStep ==
    ASSUME IndInv, NEW me \in Workers, Does(me), Goes(me), Rests(me),
           outstanding' = outstanding
    PROVE  Pool!Leave(me) \/ UNCHANGED Pool!poolVars
<1>0. TypeOK /\ EndInv /\ \A w \in Workers : RegsOk(w)
    BY DEF IndInv, TasksInv, RegsInv
<1>1. Still
    BY <1>0, RestsStill
<1>2. Waiting' = Waiting /\ Running' = Running /\ ended' = ended
  <2>1. \A w \in Workers : \A t : /\ Keeps(w, t)' <=> Keeps(w, t)
                                  /\ Runs(w, t)' <=> Runs(w, t)
      BY <1>1, SameKeeps DEF Still
  <2> QED
      BY <2>1, <1>1, NothingMoves DEF Still
<1>3. pc[me] # "exited"
    BY DEF Goes
<1>4. CASE pc'[me] # "exited"
  <2>1. Exited' = Exited
      BY <1>0, <1>3, <1>4, NobodyLeaves
  <2> QED
      BY <2>1, <1>2 DEF Pool!poolVars
<1>5. CASE pc'[me] = "exited"
  <2>1. outstanding = 0
    <3>1. pc[me] \in FinishPc \/ terminated \/ outstanding = 0
        BY <1>5 DEF Goes
    <3> QED
        BY <3>1, <1>0 DEF EndInv, SomeoneAt
  <2>2. Waiting \cup Running = {}
      BY <2>1, PoolFacts
  <2>3. \A w \in Workers : pc'[w] = "exited" <=> pc[w] = "exited" \/ w = me
      BY <1>5, OthersStill
  <2>4. Exited' = Exited \cup {me}
      BY <2>3 DEF Exited
  <2>5. (Workers \ Exited)' = (Workers \ Exited) \ {me}
      BY <2>4
  <2> QED
      BY <2>2, <2>5, <1>2 DEF Pool!Leave
<1> QED
    BY <1>4, <1>5

\* Every step of the scheduler is a step of the pool, or none.
LEMMA SchedulerStep ==
    ASSUME IndInv, Next
    PROVE  Pool!PoolNext \/ UNCHANGED Pool!poolVars
<1>0. TypeOK
    BY DEF IndInv
<1>1. PICK me \in Workers :
          WorkerStep(me) \/ TaskPanics(me) \/ SpuriousWake(me)
    BY DEF Next
<1>2. Does(me) /\ Goes(me)
    BY <1>0, <1>1, Doing, Going DEF IndInv, TasksInv, RegsInv
<1>3. Rests(me) \/ Moves(me)
    BY <1>1, RestsOrMoves
<1>4. CASE Rests(me)
  <2>1. outstanding' = outstanding
      BY <1>4 DEF Rests, DrainDone, PopNone, SpawnClear, SignalWork,
         SignalNotify, TaskPanics, Declare, DeclareNotify, StealNoLuck,
         StealBuddy, StealBuddyEmpty, StealGiveUp, StealFirstFails, CheckDone,
         CheckDoneNothingFound, CheckRegister, ParkTerminated, ParkLock,
         ParkOutstanding, ParkInbox, ParkSleep, ParkSleepAnyway, SpuriousWake,
         SleepOn, WakeUp, StealRandom
  <2>2. Pool!Leave(me) \/ UNCHANGED Pool!poolVars
      BY <2>1, <1>2, <1>4, RestStep
  <2> QED
      BY <2>2 DEF Pool!PoolNext
<1>5. CASE Moves(me)
  <2>1. Exited' = Exited
      BY <1>0, <1>2, <1>5, MoversStay, NobodyLeaves DEF Goes
  <2>2. CASE \/ DrainInbox(me) \/ SpawnPush(me)
             \/ InboxClaim(me) \/ InboxStore(me)
             \/ StealFirst(me) \/ StealMore(me)
    <3>1. Waiting' = Waiting /\ Running' = Running /\ ended' = ended
        BY <2>2, <1>2, HandOver
    <3> QED
        BY <3>1, <2>1 DEF Pool!poolVars
  <2>3. CASE \/ PopTask(me) \/ StealDone(me) \/ FinishTask(me)
             \/ SpawnCount(me)
             \/ \E target \in Workers : SpawnAtCount(me, target)
    <3>1. \E t \in 1..MaxTasks :
              Pool!SpawnTask(t) \/ Pool!BeginTask(t) \/ Pool!EndTask(t)
        BY <2>1, <2>3, <1>2, PoolStep
    <3> QED
        BY <3>1 DEF Pool!PoolNext
  <2> QED
      BY <1>5, <2>2, <2>3 DEF Moves
<1> QED
    BY <1>3, <1>4, <1>5

\* However a task travels between spawn and finish_task, one worker runs it
\* and runs it once, only a running task spawns, and no worker returns from
\* its loop while a task waits or runs.
THEOREM SchedulerImplementsPool == Spec => ImplementsPool
<1>1. Init => Pool!PoolInit
    BY PoolStarts
<1>2. IndInv /\ [Next]_vars => [Pool!PoolNext]_(Pool!poolVars)
  <2>1. ASSUME IndInv, Next
        PROVE  Pool!PoolNext \/ UNCHANGED Pool!poolVars
      BY <2>1, SchedulerStep
  <2>2. ASSUME UNCHANGED vars
        PROVE  UNCHANGED Pool!poolVars
      BY <2>2 DEF vars, queueVars, parkVars, historyVars, Pool!poolVars,
         Waiting, Running, Exited
  <2> QED
      BY <2>1, <2>2
<1> QED
    BY <1>1, <1>2, SchedulerInvariant, PTL DEF Spec, ImplementsPool,
       Pool!PoolSpec
==============================================================================
