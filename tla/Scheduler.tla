------------------------------ MODULE Scheduler ------------------------------
(***************************************************************************)
(* The lifeline scheduler of src/src/scheduler.rs: a team of workers, each *)
(* with a deque and an inbox, that runs seed tasks and whatever they       *)
(* spawn.  A worker with nothing to do tries to steal, registers with its  *)
(* neighbours and sleeps on a condition variable; the run is over when the *)
(* count of outstanding tasks reaches zero.                                *)
(*                                                                         *)
(* The deques are those of TaskDeque (ChaseLev shows that the code's are): *)
(* put, take last and take first are atomic, and a steal may also fail     *)
(* without cause (Retry).  An inbox is a row of cells that are claimed in  *)
(* one step and filled in another (CellQueue; Jiffy shows it).  The park   *)
(* mutex is held over several steps only in park_until_work_or_done, which *)
(* reads shared state under it.  A task is its number in the order of      *)
(* spawning.  A definition marked "Fault" is the one after it with a       *)
(* plausible mistake.                                                      *)
(***************************************************************************)
EXTENDS Integers, Sequences, FiniteSets, SequencesExt, CellQueue

CONSTANTS
    NumWorkers,  \* threads of the team
    NumSeeds,    \* tasks given to run_with_config
    MaxTasks,    \* bound of the model: seeds and spawned tasks
    MaxPanics    \* bound of the model: tasks that panic

ASSUME SchedulerAssumption ==
    /\ NumWorkers \in Nat \ {0}
    /\ NumSeeds \in Nat \ {0}
    /\ MaxTasks \in Nat /\ NumSeeds <= MaxTasks
    /\ MaxPanics \in Nat

Workers == 0..NumWorkers-1
Nobody == -1

VARIABLES
    deque,        \* per worker: its tasks, oldest first
    inbox,        \* per worker: cells claimed by spawn_at, oldest first
    requests,     \* per worker: lifeline_requests, who registered with it
    outstanding,  \* tasks spawned and not finished
    generation,   \* ParkState: bumped when work is published
    terminated,   \* ParkState: the run is over
    parkLock,     \* who holds the park mutex across steps
    pc,           \* where each worker is
    regs,         \* its locals
    spawned,      \* history: how many tasks there have been
    ended         \* history: the tasks that have run to their end

queueVars == <<deque, inbox, requests>>
parkVars == <<generation, terminated, parkLock>>
historyVars == <<spawned, ended>>
vars == <<queueVars, outstanding, parkVars, pc, regs, historyVars>>

\* task: the one being run; child, target: of a spawn; victim, want: of a
\* steal; bit: the lifeline to try next; did: did_work; leave: whether to
\* return after declaring the end; gen: the generation slept on.
NoRegs == [task |-> 0, child |-> 0, target |-> 0, victim |-> 0, want |-> 0,
           bit |-> 0, did |-> FALSE, leave |-> FALSE, gen |-> 0]

SpawnPc == {"spawn_push", "spawn_clear", "inbox_claim", "inbox_store",
            "signal", "notify"}
RunPc == SpawnPc \cup {"run", "panicked"}
StealPc == {"steal", "steal_first", "steal_more", "buddy"}
FinishPc == {"declare", "declare_notify"}
ParkPc == {"check", "park", "park_outstanding", "park_inbox",
           "asleep", "woken"}
Labels == {"drain", "pop", "exited"}
            \cup RunPc \cup StealPc \cup FinishPc \cup ParkPc

Goto(me, label) == pc' = [pc EXCEPT ![me] = label]
SetReg(me, field, value) == regs' = [regs EXCEPT ![me][field] = value]
GotoFresh(me, label) ==
    /\ Goto(me, label)
    /\ regs' = [regs EXCEPT ![me] = NoRegs]

\* Counted from 0, seed i goes to worker i % workers: worker me has the seeds
\* me, me + workers, and so on.
SeedsOf(me) == [i \in 1..((NumSeeds + NumWorkers - 1 - me) \div NumWorkers) |->
                   me + 1 + (i - 1) * NumWorkers]

Init ==
    /\ deque = [me \in Workers |-> SeedsOf(me)]
    /\ inbox = [me \in Workers |-> <<>>]
    /\ requests = [me \in Workers |-> {}]
    /\ outstanding = NumSeeds
    /\ generation = 0
    /\ terminated = FALSE
    /\ parkLock = Nobody
    /\ pc = [me \in Workers |-> "drain"]
    /\ regs = [me \in Workers |-> NoRegs]
    /\ spawned = NumSeeds
    /\ ended = {}

-----------------------------------------------------------------------------
(* The main loop: the inbox, then the own deque                            *)

\* dequeue() gives nothing while the oldest cell is claimed and not filled.
DrainInbox(me) ==
    /\ pc[me] = "drain"
    /\ Ready(inbox[me])
    /\ deque' = [deque EXCEPT ![me] = Append(@, Head(inbox[me]).task)]
    /\ inbox' = [inbox EXCEPT ![me] = Tail(@)]
    /\ UNCHANGED <<requests, outstanding, parkVars, pc, regs, historyVars>>

DrainDone(me) ==
    /\ pc[me] = "drain"
    /\ ~Ready(inbox[me])
    /\ Goto(me, "pop")
    /\ UNCHANGED <<queueVars, outstanding, parkVars, regs, historyVars>>

PopTask(me) ==
    /\ pc[me] = "pop"
    /\ deque[me] # <<>>
    /\ deque' = [deque EXCEPT ![me] = Front(@)]
    /\ regs' = [regs EXCEPT ![me].task = Last(deque[me]), ![me].did = TRUE]
    /\ Goto(me, "run")
    /\ UNCHANGED <<inbox, requests, outstanding, parkVars, historyVars>>

\* After some work the loop starts again; a single worker never steals.
PopNone(me) ==
    /\ pc[me] = "pop"
    /\ deque[me] = <<>>
    /\ GotoFresh(me, IF regs[me].did THEN "drain"
                     ELSE IF NumWorkers = 1 THEN "check" ELSE "steal")
    /\ UNCHANGED <<queueVars, outstanding, parkVars, historyVars>>

-----------------------------------------------------------------------------
(* What a running task does                                                *)

MaySpawn(me) == pc[me] = "run" /\ spawned < MaxTasks

\* spawn, or spawn_at(me): the new task is counted before it can be seen.
SpawnCount(me) ==
    /\ MaySpawn(me)
    /\ outstanding' = outstanding + 1
    /\ spawned' = spawned + 1
    /\ SetReg(me, "child", spawned + 1)
    /\ Goto(me, "spawn_push")
    /\ UNCHANGED <<queueVars, parkVars, ended>>

SpawnPush(me) ==
    /\ pc[me] = "spawn_push"
    /\ deque' = [deque EXCEPT ![me] = Append(@, regs[me].child)]
    /\ SetReg(me, "child", 0)
    /\ Goto(me, "spawn_clear")
    /\ UNCHANGED <<inbox, requests, outstanding, parkVars, historyVars>>

\* clear_lifelines
SpawnClear(me) ==
    /\ pc[me] = "spawn_clear"
    /\ requests' = [requests EXCEPT ![me] = {}]
    /\ Goto(me, "signal")
    /\ UNCHANGED <<deque, inbox, outstanding, parkVars, regs, historyVars>>

SpawnAt(me, target) ==
    /\ MaySpawn(me)
    /\ target # me
    /\ spawned' = spawned + 1
    /\ regs' = [regs EXCEPT ![me].child = spawned + 1, ![me].target = target]
    /\ Goto(me, "inbox_claim")
    /\ UNCHANGED <<queueVars, parkVars, ended>>

\* Fault: a task handed to another worker is not counted.
SpawnAtUncounted(me, target) ==
    SpawnAt(me, target) /\ UNCHANGED outstanding

\* spawn_at another worker
SpawnAtCount(me, target) ==
    SpawnAt(me, target) /\ outstanding' = outstanding + 1

InboxClaim(me) ==
    /\ pc[me] = "inbox_claim"
    /\ inbox' = [inbox EXCEPT ![regs[me].target] = Claimed(@, regs[me].child)]
    /\ Goto(me, "inbox_store")
    /\ UNCHANGED <<deque, requests, outstanding, parkVars, regs, historyVars>>

InboxStore(me) ==
    /\ pc[me] = "inbox_store"
    /\ inbox' = [inbox EXCEPT ![regs[me].target] = Filled(@, regs[me].child)]
    /\ Goto(me, "signal")
    /\ regs' = [regs EXCEPT ![me].child = 0, ![me].target = 0]
    /\ UNCHANGED <<deque, requests, outstanding, parkVars, historyVars>>

\* signal_work: bump the generation under the mutex, then notify without it.
SignalWork(me) ==
    /\ pc[me] = "signal"
    /\ parkLock = Nobody
    /\ generation' = generation + 1
    /\ Goto(me, "notify")
    /\ UNCHANGED <<queueVars, outstanding, terminated, parkLock, regs,
                   historyVars>>

\* notify_all: every sleeper wakes, me goes on at the given label.
WakeAll(me, label) ==
    pc' = [w \in Workers |-> IF w = me THEN label
                             ELSE IF pc[w] = "asleep" THEN "woken" ELSE pc[w]]

SignalNotify(me) ==
    /\ pc[me] = "notify"
    /\ WakeAll(me, "run")
    /\ UNCHANGED <<queueVars, outstanding, parkVars, regs, historyVars>>

\* The task panics and takes its thread along; its deque can still be robbed.
TaskPanics(me) ==
    /\ pc[me] = "run"
    /\ Cardinality({w \in Workers : pc[w] = "panicked"}) < MaxPanics
    /\ Goto(me, "panicked")
    /\ UNCHANGED <<queueVars, outstanding, parkVars, regs, historyVars>>

AfterRun(me) == IF regs[me].did THEN "pop" ELSE "drain"

\* The task returns, and finish_task counts it off.
FinishTask(me) ==
    /\ pc[me] = "run"
    /\ outstanding' = outstanding - 1
    /\ ended' = ended \cup {regs[me].task}
    /\ SetReg(me, "task", 0)
    /\ Goto(me, IF outstanding = 1 THEN "declare" ELSE AfterRun(me))
    /\ UNCHANGED <<queueVars, parkVars, spawned>>

-----------------------------------------------------------------------------
(* Termination                                                             *)

\* declare_terminated, by the last finish_task or by a worker that sees zero.
Declare(me) ==
    /\ pc[me] = "declare"
    /\ parkLock = Nobody
    /\ terminated' = TRUE
    /\ Goto(me, "declare_notify")
    /\ UNCHANGED <<queueVars, outstanding, generation, parkLock, regs,
                   historyVars>>

\* Fault: the sleepers are not told.
DeclareNotifyNobody(me) ==
    /\ pc[me] = "declare_notify"
    /\ Goto(me, IF regs[me].leave THEN "exited" ELSE AfterRun(me))
    /\ SetReg(me, "leave", FALSE)
    /\ UNCHANGED <<queueVars, outstanding, parkVars, historyVars>>

DeclareNotify(me) ==
    /\ pc[me] = "declare_notify"
    /\ WakeAll(me, IF regs[me].leave THEN "exited" ELSE AfterRun(me))
    /\ SetReg(me, "leave", FALSE)
    /\ UNCHANGED <<queueVars, outstanding, parkVars, historyVars>>

-----------------------------------------------------------------------------
(* try_steal                                                               *)

\* steal_batch_and_pop sizes the batch: half of what it sees, rounded up.
\* bit is the lifeline to go on with should it fail.  The code loads top and
\* bottom one after the other; want is only where the loop of steals stops, and
\* they stop before if the victim is empty.
Estimate(me, v, bit) ==
    /\ deque[v] # <<>>
    /\ regs' = [regs EXCEPT ![me].victim = v, ![me].bit = bit,
                            ![me].want = (Len(deque[v]) + 1) \div 2]
    /\ Goto(me, "steal_first")

\* Round 1.  An attempt that fails changes nothing and one that succeeds is
\* the last, so that the w attempts are one, at any victim, or none.
StealRandom(me, v) ==
    /\ pc[me] = "steal"
    /\ v # me
    /\ Estimate(me, v, 1)
    /\ UNCHANGED <<queueVars, outstanding, parkVars, historyVars>>

StealNoLuck(me) ==
    /\ pc[me] = "steal"
    /\ SetReg(me, "bit", 1)
    /\ Goto(me, "buddy")
    /\ UNCHANGED <<queueVars, outstanding, parkVars, historyVars>>

\* hypercube_neighbours: me with one bit flipped, if there is such a worker.
FlipBit(me, bit) == IF (me \div bit) % 2 = 0 THEN me + bit ELSE me - bit
LifelineBits(me) ==
    {bit \in 1..NumWorkers-1 : (\E k \in 0..bit : bit = 2^k)
                               /\ FlipBit(me, bit) < NumWorkers}
Lifelines(me) == {FlipBit(me, bit) : bit \in LifelineBits(me)}

\* Round 2: the lifelines, one after the other.
MoreLifelines(me) == \E bit \in LifelineBits(me) : bit >= regs[me].bit
NextLifeline(me) == CHOOSE bit \in LifelineBits(me) :
    /\ bit >= regs[me].bit
    /\ \A other \in LifelineBits(me) : other >= regs[me].bit => bit <= other

StealBuddy(me) ==
    /\ pc[me] = "buddy"
    /\ MoreLifelines(me)
    /\ LET bit == NextLifeline(me)
       IN  Estimate(me, FlipBit(me, bit), bit + 1)
    /\ UNCHANGED <<queueVars, outstanding, parkVars, historyVars>>

StealBuddyEmpty(me) ==
    /\ pc[me] = "buddy"
    /\ MoreLifelines(me)
    /\ deque[FlipBit(me, NextLifeline(me))] = <<>>
    /\ SetReg(me, "bit", NextLifeline(me) + 1)
    /\ UNCHANGED <<queueVars, outstanding, parkVars, pc, historyVars>>

StealGiveUp(me) ==
    /\ pc[me] = "buddy"
    /\ ~MoreLifelines(me)
    /\ GotoFresh(me, "check")
    /\ UNCHANGED <<queueVars, outstanding, parkVars, historyVars>>

\* The first task of the batch is the one to run.
StealFirst(me) ==
    LET v == regs[me].victim
    IN  /\ pc[me] = "steal_first"
        /\ deque[v] # <<>>
        /\ deque' = [deque EXCEPT ![v] = Tail(@)]
        /\ regs' = [regs EXCEPT ![me].task = Head(deque[v]),
                                ![me].want = @ - 1]
        /\ Goto(me, "steal_more")
        /\ UNCHANGED <<inbox, requests, outstanding, parkVars, historyVars>>

\* Empty by now, or Retry.
StealFirstFails(me) ==
    /\ pc[me] = "steal_first"
    /\ regs' = [regs EXCEPT ![me].victim = 0, ![me].want = 0]
    /\ Goto(me, "buddy")
    /\ UNCHANGED <<queueVars, outstanding, parkVars, historyVars>>

\* The others go to the thief's own deque, and nobody is told.
StealMore(me) ==
    LET v == regs[me].victim
    IN  /\ pc[me] = "steal_more"
        /\ regs[me].want > 0
        /\ deque[v] # <<>>
        /\ deque' = [deque EXCEPT ![v] = Tail(@),
                                  ![me] = Append(@, Head(deque[v]))]
        /\ SetReg(me, "want", regs[me].want - 1)
        /\ UNCHANGED <<inbox, requests, outstanding, parkVars, pc,
                       historyVars>>

\* The batch is complete, or cut short by Empty or Retry.
StealDone(me) ==
    /\ pc[me] = "steal_more"
    /\ regs' = [regs EXCEPT ![me] = [NoRegs EXCEPT !.task = regs[me].task]]
    /\ Goto(me, "run")
    /\ UNCHANGED <<queueVars, outstanding, parkVars, historyVars>>

-----------------------------------------------------------------------------
(* Parking                                                                 *)

\* Fault: having found nothing to steal counts as the end.
CheckDoneNothingFound(me) ==
    /\ pc[me] = "check"
    /\ SetReg(me, "leave", TRUE)
    /\ Goto(me, "declare")
    /\ UNCHANGED <<queueVars, outstanding, parkVars, historyVars>>

CheckDone(me) == outstanding = 0 /\ CheckDoneNothingFound(me)

\* register_lifelines.  Only clear_lifelines looks at the lists, so that the
\* registrations can be one step.
CheckRegister(me) ==
    /\ pc[me] = "check"
    /\ outstanding # 0
    /\ requests' = [w \in Workers |-> IF w \in Lifelines(me)
                                      THEN requests[w] \cup {me}
                                      ELSE requests[w]]
    /\ Goto(me, "park")
    /\ UNCHANGED <<deque, inbox, outstanding, parkVars, regs, historyVars>>

\* park_until_work_or_done takes the mutex and looks at terminated, ...
ParkTerminated(me) ==
    /\ pc[me] = "park"
    /\ parkLock = Nobody
    /\ terminated
    /\ Goto(me, "exited")
    /\ UNCHANGED <<queueVars, outstanding, parkVars, regs, historyVars>>

ParkLock(me) ==
    /\ pc[me] = "park"
    /\ parkLock = Nobody
    /\ ~terminated
    /\ parkLock' = me
    /\ Goto(me, "park_outstanding")
    /\ UNCHANGED <<queueVars, outstanding, generation, terminated, regs,
                   historyVars>>

\* ... at the outstanding tasks, ...
ParkOutstanding(me) ==
    /\ pc[me] = "park_outstanding"
    /\ IF outstanding = 0
       THEN parkLock' = Nobody /\ Goto(me, "exited")
       ELSE UNCHANGED parkLock /\ Goto(me, "park_inbox")
    /\ UNCHANGED <<queueVars, outstanding, generation, terminated, regs,
                   historyVars>>

\* ... and at the inbox, where a claimed cell is enough to stay awake; then
\* the generation is noted and wait_while gives the mutex back.
ParkInbox(me) ==
    /\ pc[me] = "park_inbox"
    /\ inbox[me] # <<>>
    /\ parkLock' = Nobody
    /\ Goto(me, "drain")
    /\ UNCHANGED <<queueVars, outstanding, generation, terminated, regs,
                   historyVars>>

\* Fault: the inbox is not looked at again.
ParkSleepAnyway(me) ==
    /\ pc[me] = "park_inbox"
    /\ SetReg(me, "gen", generation)
    /\ parkLock' = Nobody
    /\ Goto(me, "asleep")
    /\ UNCHANGED <<queueVars, outstanding, generation, terminated,
                   historyVars>>

ParkSleep(me) == inbox[me] = <<>> /\ ParkSleepAnyway(me)

\* A condition variable may also wake its waiters for no reason.
SpuriousWake(me) ==
    /\ pc[me] = "asleep"
    /\ Goto(me, "woken")
    /\ UNCHANGED <<queueVars, outstanding, parkVars, regs, historyVars>>

StaysAsleep(me) == generation = regs[me].gen /\ ~terminated

\* wait_while looks at its condition with the mutex held.
SleepOn(me) ==
    /\ pc[me] = "woken"
    /\ parkLock = Nobody
    /\ StaysAsleep(me)
    /\ Goto(me, "asleep")
    /\ UNCHANGED <<queueVars, outstanding, parkVars, regs, historyVars>>

WakeUp(me) ==
    /\ pc[me] = "woken"
    /\ parkLock = Nobody
    /\ ~StaysAsleep(me)
    /\ GotoFresh(me, IF terminated THEN "exited" ELSE "drain")
    /\ UNCHANGED <<queueVars, outstanding, parkVars, historyVars>>

-----------------------------------------------------------------------------
Loop(me) == DrainInbox(me) \/ DrainDone(me) \/ PopTask(me) \/ PopNone(me)

Spawn(me) ==
    \/ SpawnCount(me) \/ SpawnPush(me) \/ SpawnClear(me)
    \/ \E target \in Workers : SpawnAtCount(me, target)
    \/ InboxClaim(me) \/ InboxStore(me)
    \/ SignalWork(me) \/ SignalNotify(me)

Finish(me) == FinishTask(me) \/ Declare(me) \/ DeclareNotify(me)

Steal(me) ==
    \/ \E v \in Workers : StealRandom(me, v)
    \/ StealNoLuck(me)
    \/ StealBuddy(me) \/ StealBuddyEmpty(me) \/ StealGiveUp(me)
    \/ StealFirst(me) \/ StealFirstFails(me)
    \/ StealMore(me) \/ StealDone(me)

Park(me) ==
    \/ CheckDone(me) \/ CheckRegister(me)
    \/ ParkTerminated(me) \/ ParkLock(me) \/ ParkOutstanding(me)
    \/ ParkInbox(me) \/ ParkSleep(me)
    \/ SleepOn(me) \/ WakeUp(me)

\* What a worker does of itself.
WorkerStep(me) == Loop(me) \/ Spawn(me) \/ Finish(me) \/ Steal(me) \/ Park(me)

Next == \E me \in Workers :
            WorkerStep(me) \/ TaskPanics(me) \/ SpuriousWake(me)

Spec == Init /\ [][Next]_vars

\* A thread that can go on does; a task ends, since MaxTasks bounds what it
\* can spawn.  Nothing is assumed of panics and spurious wakes.
FairSpec == Spec /\ \A me \in Workers : WF_vars(WorkerStep(me))

-----------------------------------------------------------------------------
(* Properties                                                              *)

CellType == [task : 1..MaxTasks, filled : BOOLEAN]
RegsType == [task : 0..MaxTasks, child : 0..MaxTasks, target : Workers,
             victim : Workers, want : 0..MaxTasks, bit : 0..NumWorkers,
             did : BOOLEAN, leave : BOOLEAN, gen : 0..MaxTasks]

\* The state has the shape of WorkerSlot, Shared and ParkState.
TypeOK ==
    /\ deque \in [Workers -> Seq(1..MaxTasks)]
    /\ inbox \in [Workers -> Seq(CellType)]
    /\ requests \in [Workers -> SUBSET Workers]
    /\ outstanding \in 0..MaxTasks
    /\ generation \in 0..MaxTasks
    /\ terminated \in BOOLEAN
    /\ parkLock \in Workers \cup {Nobody}
    /\ pc \in [Workers -> Labels]
    /\ regs \in [Workers -> RegsType]
    /\ spawned \in NumSeeds..MaxTasks
    /\ ended \subseteq 1..spawned

\* Where the tasks are: waiting somewhere, or on some worker's stack.
Waiting ==
    {regs[me].child : me \in {w \in Workers : regs[w].child # 0}}
    \cup {regs[me].task : me \in {w \in Workers : pc[w] = "steal_more"}}
    \cup UNION {ToSet(deque[me])
                   \cup {inbox[me][i].task : i \in DOMAIN inbox[me]}
               : me \in Workers}
Running == {regs[me].task : me \in {w \in Workers : pc[w] \in RunPc}}
Exited == {me \in Workers : pc[me] = "exited"}

Pool == INSTANCE TaskPool WITH Tasks   <- 1..MaxTasks,
                               Seeds   <- 1..NumSeeds,
                               pending <- Waiting,
                               running <- Running,
                               done    <- ended,
                               present <- Workers \ Exited

\* Every task is run by one worker, once, wherever it travels, and no worker
\* returns while a task waits or runs: the work is drained when run returns.
ImplementsPool == Pool!PoolSpec

\* Some worker is at one of the labels.
SomeoneAt(labels) == \E p \in Workers : pc[p] \in labels

\* The argument that no wake is lost.  A worker asleep has nothing in its
\* deque, and if there is a reason for it to get up, or something in its
\* inbox, somebody is on the way to notify.
SleeperIsOwedAWake == \A me \in Workers : pc[me] = "asleep" =>
    /\ deque[me] = <<>>
    /\ terminated => SomeoneAt({"declare_notify"})
    /\ outstanding = 0 => SomeoneAt(FinishPc)
    /\ generation # regs[me].gen => SomeoneAt({"notify"})
    /\ inbox[me] # <<>> /\ generation = regs[me].gen =>
          \E p \in Workers : \/ pc[p] = "inbox_store" /\ regs[p].target = me
                             \/ pc[p] = "signal"

\* If no task panics the workers all return, whatever they found to steal
\* and whenever they went to sleep.
Terminates ==
    [](\A me \in Workers : pc[me] # "panicked")
        => <>(\A me \in Workers : pc[me] = "exited")

\* The module's documentation: when no worker is active and the deques are
\* empty, every worker is woken to exit (scheduler.rs 25-26).
IdleTeamExits ==
    (\A me \in Workers : /\ pc[me] \in {"asleep", "exited", "panicked"}
                         /\ deque[me] = <<>>)
        ~> (\A me \in Workers : pc[me] # "asleep")
==============================================================================
