------------------------------- MODULE Priority -------------------------------
(***************************************************************************)
(* The pool of tasks with priorities of src/src/priority.rs: a Chase-Lev   *)
(* deque per level, 0 the highest, which pop and steal scan in that order, *)
(* while the other threads go on.                                          *)
(*                                                                         *)
(* A level is a sequence, as TaskDeque has it, with what an operation on a *)
(* Chase-Lev deque shows of not being atomic: a thief looks at the oldest  *)
(* task and claims it later, if nobody was faster; and a level of which    *)
(* the owner is about to take the only task looks empty.  A task is the    *)
(* number of its push.  A definition marked "Fault" is the one after it    *)
(* with a plausible mistake.                                               *)
(***************************************************************************)
EXTENDS Integers, Sequences, SequencesExt

CONSTANTS
    Stealers,    \* the threads that hold a PriorityStealer
    NumLevels,   \* K
    MaxPrio      \* bound of the model: how many tasks are pushed

Levels == 0..NumLevels - 1

PriorityAssumption == NumLevels \in Nat \ {0} /\ MaxPrio \in Nat

VARIABLES
    levels,    \* per level: its tasks, oldest first
    pushed,    \* the number of tasks pushed so far
    popAt,     \* the level the owner's pop has come to; NoLevel outside it
    reaching,  \* the owner has begun to pop that level
    scanAt,    \* per thief: the level its steal has come to, or NoLevel
    claim,     \* per thief: the task it is about to claim, or NoTask
    retries,   \* per thief: the levels where it lost; saw_retry if any
    since      \* history, per thief: the tasks there all through its call

prioVars == <<levels, pushed, popAt, reaching, scanAt, claim, retries, since>>
ownerVars == <<pushed, popAt, reaching>>
thiefVars == <<scanAt, claim, retries>>

NoLevel == -1
NoTask == 0

PrioInit ==
    /\ levels = [l \in Levels |-> <<>>]
    /\ pushed = 0
    /\ popAt = NoLevel /\ reaching = FALSE
    /\ scanAt = [p \in Stealers |-> NoLevel]
    /\ claim = [p \in Stealers |-> NoTask]
    /\ retries = [p \in Stealers |-> {}]
    /\ since = [p \in Stealers |-> {}]

InLevel(l) == ToSet(levels[l])

Taken(t) == since' = [p \in Stealers |-> since[p] \ {t}]

-----------------------------------------------------------------------------
(* push and pop                                                            *)

\* A level that does not exist counts as the lowest.
PushAt(level) ==
    LET l == IF level < NumLevels THEN level ELSE NumLevels - 1
    IN  /\ popAt = NoLevel
        /\ pushed < MaxPrio
        /\ pushed' = pushed + 1
        /\ levels' = [levels EXCEPT ![l] = Append(@, pushed + 1)]
        /\ UNCHANGED <<popAt, reaching, thiefVars, since>>

PopScan ==
    /\ popAt = NoLevel
    /\ popAt' = 0
    /\ UNCHANGED <<levels, pushed, reaching, thiefVars, since>>

PopReach ==
    /\ popAt # NoLevel /\ ~reaching
    /\ reaching' = TRUE
    /\ UNCHANGED <<levels, pushed, popAt, thiefVars, since>>

PopTakes ==
    /\ reaching
    /\ levels[popAt] # <<>>
    /\ Taken(Last(levels[popAt]))
    /\ levels' = [levels EXCEPT ![popAt] = Front(@)]
    /\ popAt' = NoLevel /\ reaching' = FALSE
    /\ UNCHANGED <<pushed, thiefVars>>

\* Fault: the scan ends at the first level that has none.
PopStops ==
    /\ reaching
    /\ levels[popAt] = <<>>
    /\ popAt' = NoLevel
    /\ reaching' = FALSE
    /\ UNCHANGED <<levels, pushed, thiefVars, since>>

\* None at this level: on to the next one, or return None.
PopPasses ==
    /\ reaching
    /\ levels[popAt] = <<>>
    /\ popAt' = IF popAt + 1 < NumLevels THEN popAt + 1 ELSE NoLevel
    /\ reaching' = FALSE
    /\ UNCHANGED <<levels, pushed, thiefVars, since>>

-----------------------------------------------------------------------------
(* steal                                                                   *)

ScanBegin(p) ==
    /\ scanAt[p] = NoLevel
    /\ scanAt' = [scanAt EXCEPT ![p] = 0]
    /\ retries' = [retries EXCEPT ![p] = {}]
    /\ since' = [since EXCEPT ![p] = UNION {InLevel(l) : l \in Levels}]
    /\ UNCHANGED <<levels, ownerVars, claim>>

\* Success ends the scan, and so does the last level.
Onward(p) ==
    scanAt' = [scanAt EXCEPT
                 ![p] = IF @ + 1 < NumLevels THEN @ + 1 ELSE NoLevel]

AboutToGo(l) == reaching /\ popAt = l /\ Len(levels[l]) = 1

ScanEmpty(p) ==
    /\ scanAt[p] # NoLevel /\ claim[p] = NoTask
    /\ levels[scanAt[p]] = <<>> \/ AboutToGo(scanAt[p])
    /\ Onward(p)
    /\ UNCHANGED <<levels, ownerVars, claim, retries, since>>

ScanLook(p) ==
    /\ scanAt[p] # NoLevel /\ claim[p] = NoTask
    /\ levels[scanAt[p]] # <<>>
    /\ claim' = [claim EXCEPT ![p] = Head(levels[scanAt[p]])]
    /\ UNCHANGED <<levels, ownerVars, scanAt, retries, since>>

StillOldest(p) ==
    /\ scanAt[p] # NoLevel /\ claim[p] # NoTask
    /\ levels[scanAt[p]] # <<>> /\ Head(levels[scanAt[p]]) = claim[p]

ScanTake(p) ==
    /\ StillOldest(p)
    /\ Taken(claim[p])
    /\ levels' = [levels EXCEPT ![scanAt[p]] = Tail(@)]
    /\ scanAt' = [scanAt EXCEPT ![p] = NoLevel]
    /\ claim' = [claim EXCEPT ![p] = NoTask]
    /\ UNCHANGED <<ownerVars, retries>>

\* Fault: a lost race counts as an empty level.
ScanRetryAsEmpty(p) ==
    /\ scanAt[p] # NoLevel /\ claim[p] # NoTask
    /\ ~StillOldest(p)
    /\ claim' = [claim EXCEPT ![p] = NoTask]
    /\ Onward(p)
    /\ UNCHANGED <<levels, ownerVars, retries, since>>

\* Retry at this level: go on with the next, but remember.
ScanRetry(p) ==
    /\ scanAt[p] # NoLevel /\ claim[p] # NoTask
    /\ ~StillOldest(p)
    /\ claim' = [claim EXCEPT ![p] = NoTask]
    /\ retries' = [retries EXCEPT ![p] = @ \cup {scanAt[p]}]
    /\ Onward(p)
    /\ UNCHANGED <<levels, ownerVars, since>>

PrioNext ==
    \/ \E level \in 0..NumLevels : PushAt(level)
    \/ PopScan \/ PopReach \/ PopTakes \/ PopPasses
    \/ \E p \in Stealers : ScanBegin(p) \/ ScanEmpty(p) \/ ScanLook(p)
                              \/ ScanTake(p) \/ ScanRetry(p)

-----------------------------------------------------------------------------
(* What must hold.                                                         *)

\* priority.rs 75-83: the owner gets a task only if there is none of a higher
\* priority, and None only if there is none at all.
PopsHighest ==
    /\ PopTakes => \A l \in 0..popAt - 1 : levels[l] = <<>>
    /\ reaching /\ popAt' = NoLevel /\ levels' = levels =>
          \A l \in Levels : levels[l] = <<>>

\* A task that was there all through p's call and is not about to be popped.
Overlooked(p, l) ==
    (since[p] \cap InLevel(l)) # {} /\ ~AboutToGo(l)

EndsEmpty(p) ==
    /\ scanAt[p] # NoLevel /\ scanAt'[p] = NoLevel
    /\ ~ScanTake(p)
    /\ retries'[p] = {}

\* priority.rs 101-118: a thief overlooks a task that was there all through
\* its call only at a level where another was faster: then it gets a task of a
\* lower priority, or is told Retry, and never Empty.
StealsHighest ==
    \A p \in Stealers :
        /\ EndsEmpty(p) => \A l \in Levels : ~Overlooked(p, l)
        /\ ScanTake(p) =>
              \A l \in 0..scanAt[p] - 1 : Overlooked(p, l) => l \in retries[p]

-----------------------------------------------------------------------------
(* Why it holds.                                                           *)

PrioTypeOK ==
    /\ levels \in [Levels -> Seq(Nat)]
    /\ pushed \in Nat
    /\ popAt \in Levels \cup {NoLevel}
    /\ reaching \in BOOLEAN
    /\ scanAt \in [Stealers -> Levels \cup {NoLevel}]
    /\ claim \in [Stealers -> Nat]
    /\ retries \in [Stealers -> SUBSET Levels]
    /\ since \in [Stealers -> SUBSET Nat]

\* What was there at some time has been pushed.
PushedBefore ==
    /\ \A l \in Levels : InLevel(l) \subseteq 1..pushed
    /\ \A p \in Stealers : since[p] \subseteq 1..pushed

\* The owner, who alone pushes, has found the levels above empty.
PopScanned ==
    /\ reaching => popAt # NoLevel
    /\ popAt # NoLevel => \A l \in 0..popAt - 1 : levels[l] = <<>>

\* So has a thief, but for what came since and where it lost a race.
StealScanned ==
    \A p \in Stealers : scanAt[p] # NoLevel =>
        \A l \in 0..scanAt[p] - 1 : Overlooked(p, l) => l \in retries[p]

PrioInv == PrioTypeOK /\ PushedBefore /\ PopScanned /\ StealScanned
==============================================================================
