# ws-deque in TLA+

A verification development for the crate `ws-deque` (`src/`): the work-stealing
deques of a task scheduler, as state machines that TLC checks on small
instances, with theorems about them that TLAPS proves for every size.

Read in this order: `TaskDeque.tla` (what a deque promises), `ChaseLev.tla` (how
the root module keeps the promise), `ChaseLevRefinement.tla` (that it does),
`ChaseLevProofs.tla` (why), `Inline.tla` (the same promise kept with wrapping
indices and another way to keep buffers), `Bwos.tla` and `BwosUnbounded.tla`
(the block-based queues); then `RelaxedQueue.tla` (what a queue with
multiplicity promises), `Idempotent.tla` and `Linked.tla` (two that keep it);
then `TaskPool.tla` (what a scheduler promises), `Scheduler.tla` and
`Distributed.tla` (two that keep it), and `Inbox.tla`, `Jiffy.tla` for the queue
the inboxes are; last the small parts `Persistent.tla` with `DurableQueue.tla`,
`Priority.tla`, `Race.tla`.

## The system

One thread, the *owner*, puts tasks into a deque and takes them out again; any
number of *thieves* take tasks from the other end. The crate has one module per
algorithm; they share no state with each other, except that the scheduler and
the priority deque are built from `Worker`s and the scheduler has Jiffy inboxes.

| Component | Source | State | Operations | Hard because of | Correct when |
|---|---|---|---|---|---|
| Chase-Lev deque | `src/lib.rs` | `top`, `bottom`, active buffer, retire list, `in_flight`, owner's `cached_top` | push, pop (LIFO, FIFO), steal, steal_batch, steal_batch_and_pop, drop | owner and thieves race for the last task; buffers are replaced and freed under running steals | each task to exactly one consumer, ends respected, no freed buffer touched, no buffer leaked |
| BWoS, bounded | `src/bwos.rs` | per block `committed`, `stolen`, slots; `produced_blocks`; owner's block | put, pop, steal | owner moves between blocks in both directions while thieves scan | as above, in each block; the block row is traversed without losing values |
| BWoS, unbounded | `src/bwos.rs` (`unbounded`) | the same, blocks in a linked list; a cursor per thief | put, pop, steal, drop | a put after a step back relinks the list | every value stays reachable for every thief |
| Idempotent queue | `src/idempotent.rs` | `head` (max register), task array, claimed flags, owner's `tail` | put, take, steal, steal_exclusive, steal_weak | no CAS on `head`; growth copies the array under thieves | at least once; duplicates only where the variant allows |
| Linked idempotent queue | `src/linked.rs` | `head`, `tail`, node list, thief's cached node | put, take, steal | link is published after `tail` | as above |
| Inline deque | `src/inline.rs` | as Chase-Lev, values in the slots, no `in_flight` | push, pop, steal | as Chase-Lev; buffers kept until drop | as Chase-Lev |
| Jiffy | `src/jiffy.rs` | `head`, `tail`, buffer list, slot flags | enqueue (many), dequeue (one) | claim and store are separate steps | FIFO per producer, nothing lost or doubled |
| Scheduler | `src/scheduler.rs` | deques, inboxes, lifelines, `outstanding`, generation, terminated | run, spawn, spawn_at, worker loop, park, signal | park/wake race, termination | every task runs once, all workers exit |
| Distributed | `src/distributed.rs` | mailboxes, local pools, `outstanding` | node loop, steal request, reply | replies late, victims gone | every task runs once, all nodes exit |
| Persistent queue | `src/persistent.rs` | durable log, staged records, volatile copy | enqueue, dequeue, crash, recover | a crash between any two steps | recovery yields what completed operations promised |
| Priority deque | `src/priority.rs` | K deques | push, pop, steal | scan is not atomic | nothing lost; `Retry` not hidden |
| Race detector | `src/race.rs` | none (pure) | detect_races | two traversal orders | reports a pair iff parallel and conflicting |

`PROJECT.json` lists the components with their status, and under `hazards`
what is hard to test in this code, at its line, with the property that would
notice it going wrong, or the reason why none does yet.

## What is modelled

| Module | Models | Role |
|---|---|---|
| `TaskDeque` | what every exactly-once deque of the crate promises (README "Guarantees") | abstract specification: put, take first, take last, close, each one atomic step |
| `ChaseLev` | `Worker`, `Stealer`, `Inner`, `Buffer` of `src/lib.rs` | the algorithm, one action per access to shared memory |
| `ChaseLevRefinement` | - | the refinement mapping to `TaskDeque`; the liveness property |
| `ChaseLevProofs` | - | proofs: types and buffer reclamation; indices, contents, exactly-once; that the deque is atomic |
| `MCChaseLev` | - | instances for TLC |
| `Inline`, `MCInline` | `InlineWorker`, `InlineStealer` of `src/inline.rs` | the deque of `Copy` values, with w-bit indices; implements `TaskDeque` |
| `InlineProofs` | - | proofs: every buffer is freed once, and none early; the deque is atomic, whatever its indices wrap to |
| `Bwos` | `BwosWorker`, `BwosStealer` of `src/bwos.rs` | the bounded block-based queue |
| `BwosUnbounded` | `UnboundedBwosWorker`, `UnboundedBwosStealer` | linked blocks and cursors; within a block, the actions of `Bwos` |
| `MCBwos` | - | instances of both |
| `BwosProofs` | - | proofs about both: no value twice, what can be lost, the list stays linked |
| `RelaxedQueue` | what a queue with multiplicity promises | abstract specification: put, deliver, again if the variant allows, close |
| `Idempotent` | `src/idempotent.rs` | plain, exclusive and weak thieves on one array; implements `RelaxedQueue` |
| `Linked`, `LinkedParameters` | `src/linked.rs` | the same promise on a list of nodes; implements `RelaxedQueue` |
| `MCRelaxed` | - | instances of both |
| `RelaxedProofs` | - | proofs about both: multiplicity in order, honest Empty, boxes freed once |
| `TaskPool` | what `run` promises ("Blocks until all work is drained") | abstract specification: spawn, begin, end a task, leave |
| `Scheduler` | `src/scheduler.rs`; `steal_batch_and_pop` of `src/lib.rs` | the worker loop; implements `TaskPool` |
| `SchedulerProofs` | - | proofs: types, no wake lost, and the refinement of `TaskPool` |
| `CellQueue` | what a Jiffy queue looks like from outside | operators on a row of cells, used by `Scheduler` and `Inbox` |
| `Inbox` | the promise of a multi-producer single-consumer queue | abstract specification |
| `Jiffy` | `Producer`, `Consumer`, `Inner` of `src/jiffy.rs` | the algorithm; implements `Inbox` |
| `JiffyProofs` | - | proofs: types, that a producer finds its buffer, that it implements `Inbox`, honest None |
| `Distributed` | `src/distributed.rs` | nodes with mailboxes; implements `TaskPool` |
| `DurableQueue` | what the persistent queue promises over a crash | abstract specification |
| `Persistent` | `src/persistent.rs` | log, staged records, crash, recovery; implements `DurableQueue` |
| `Priority` | `src/priority.rs` | scans over the levels of atomic deques |
| `Race` | `src/race.rs` | the builder; the walks as functions on its nodes, the detector as an operator |
| `RaceProofs` | - | proofs: the detector finds exactly the races of the definition |
| `Parts` | - | the sum of `Distributed`, `Persistent` and `Priority` |
| `PartsProofs` | - | proofs: pops and steals take the highest priority, the log is a durable queue, the nodes are one pool of tasks |
| `MCParts` | - | instances of `Parts` and `Race` |

An MC module that covers several parts is a sum: its first state chooses the
part, each step is one of that part, and the variables of the others stay as
they are. No behaviour mixes two parts, so that what holds in the sum holds in
each of them. Where two parts are two stores for one promise (`MCBwos`,
`MCRelaxed`) they share the state they have in common and are checked against
the same properties.

### ChaseLev

State: `top`, `bottom`, `buffer`, `inFlight` and `cachedTop` are the fields of
`Inner` and `Worker`. Buffers are numbered in the order of allocation; `bufs`
holds their cells for ever, `retired` and `freed` say which of them are on the
retire list and which were given back, so that reading a freed buffer is a state
and not undefined. `pc` and `regs` hold where a thread is and the locals it has
loaded. `recipients` is history: for each push that took effect, who became the
owner of its box. It is what the properties are about; no action reads it,
except that its length numbers the tasks and bounds the model.

Actions: `push` is `PushBegin` (bottom, buffer, cached top), `PushLoadTop`
(refresh), `PushGrow` (copy, store `buffer`, retire), `PushReclaim` (load
`in_flight`), `PushFree`, `PushWrite`, `PushPublish`; `pop_lifo` is `PopBegin`
(store the lowered bottom), then by the load of top one of `PopFindEmpty`,
`PopTake`, `PopFindLast`, and the steps that follow; `steal_from` is
`StealLoadTop` to `StealCas`. A FIFO owner runs `steal_from` as its pop and
starts again where a thief would return `Retry`. `Drop` is `Inner::drop`, by
whichever process lets go last.

What is abstracted, and why that is faithful:

* *A private computation is merged with the shared access it follows or
  precedes.* `Install` does the copy, the store of `buffer` and the push onto the
  retire list in one step: the cells of a buffer that is not yet published and
  the retire list are touched by the owner only, and the cells of the old buffer
  are written by nobody else. `FreeRetired` frees the whole list in one step; a
  thief that would read a buffer freed later in the loop would also read one
  freed at its start, since what thieves hold does not depend on the list.
* *Indices are integers* where the code has wrapping `isize`. The code compares
  only differences (`wrapping_sub`), which are bounded by the capacity; that the
  differences survive wrapping is proved for the same protocol in `Inline`, for
  fewer than 2^63 - 2 pushes. The mask
  `index & (cap - 1)` is `%`, for a capacity that is a power of two
  (`PowerOfTwoAssumption`).
* *Memory is sequentially consistent.* The orderings and fences are the code's
  argument that this is a fair picture (two `SeqCst` fences between the owner's
  bottom/top and the thieves' top/bottom, `SeqCst` on `in_flight`, release and
  acquire elsewhere). What would happen without a fence cannot be seen here.
* *A task is the number of its push*, and a box is never reused: freeing a box
  twice shows up as two recipients.

### Bwos

`committed`, `stolen` and `slots` are functions over the blocks, `produced` is
`produced_blocks`, `ownerBlock` the owner's `Cell`. `put` is `PutInBlock` or
`PutAdvance`, then `PutWrite`, `PutCommit`; a `put` that returns false changes
nothing (`PutRefused`). `pop` loops over `PopStepBack` and the attempt
`PopFind`, `PopDecrement`, and by the second load of `stolen` one of `PopTake`,
`PopFindLast` ... `PopRestore`, `PopBehind`, `PopUndo`. A thief reads the
frontier once and scans (`StealBegin` ... `StealCas`). `buried` is history: the
values that `put` has written below the `stolen` of a block it re-entered.

### BwosUnbounded

A block is the order of its allocation; `next`, `prev` and `cursor` are the
pointers, `produced` counts the blocks allocated. Within a block the code is that
of the bounded queue line by line, and so are the actions, which are taken from
`Bwos`. `PutFresh` is the allocation, the store of `next` and the owner's step;
between the last two nobody else can tell the difference. A thief that finds a
block drained loads `next` in a step of its own (`StealFindDrained`, then
`StealFollowNext`): what happens between the two loads is the subject of
`BwosStranded`. `From(b)` is the walk over `next`, the one of `Drop` and of a
thief. A clone of a handle is a thief that starts at the head again (`Clone`).

### Inline

`ChaseLev` without `in_flight` and with retired buffers kept until `Drop`; the
slots hold the values. Indices have `Width` bits and all their arithmetic is
`Wrap`; the history numbers the pushes, so that a slot mistaken for another is
seen. `Starts` are the values `top` and `bottom` may have at first. A run begins
at 0 or just below the wrap; the latter stands for the state after many pushes
and pops, with an empty deque and the cached top up to date. The code gets there:
with two slots every push refreshes the cached top.

### Idempotent and Linked

`head`, the owner's `tail` and the threads' locals are as in the code. `arrays`
holds every array ever allocated, the last is the active one; `claimed` are the
flags (a bounded queue has one array, hence one set). `PutGrow` copies, publishes
and retires in one step, as the cells are written by the owner only and no thief
writes any. `PutStore` is where a thief can see the task; `PutMark` writes the
empty cell behind it. What a thief calls is its `kind`, chosen at first; exclusive
thieves only on a bounded queue, as `steal_exclusive` asserts. `takers` is
history, per task the set of those that got it, and `lull` holds the running
operations during which at some moment everything put was delivered: only these
may answer Empty (`EmptyIsHonest`), the loser of a claim excepted, whom the code
answers Empty whatever there is. The owner's Empty changes nothing that a step
could show, so `EmptyIsHonest` is an invariant: it is about the states in which a
thief or `take` would answer Empty (`StealSeesNone`, `TakeSeesNone`); for `take`,
everything put is delivered then.

In `Linked` a node is its place in the list, and `linked`, the last place,
stands for all `next` pointers, each of which is set once. A step of the walk is
an action; the owner's walk in `take` reads only its own writes and takes none.

### Scheduler

The modules compose by what is shown of the parts: a deque in `Scheduler` is the
sequence of `TaskDeque`, which `ChaseLev` implements, with atomic put, take last
and take first, and an inbox is the row of cells of `Inbox`, which `Jiffy`
implements, claimed and filled in two steps. So the model is about what
`scheduler.rs` adds. `outstanding`, `generation`, `terminated` are its fields;
`parkLock` is the holder of the mutex `park`, recorded where it is held over more
than one access to shared state. `spawned` numbers the tasks and bounds the
model; `ended` is history.

`worker_main` is `DrainInbox`/`DrainDone`, `PopTask`/`PopNone`, the steal, and
`CheckDone`/`CheckRegister`. A task that runs (label `run`) may call `spawn`
(`SpawnCount`, `SpawnPush`, `SpawnClear`, `SignalWork`, `SignalNotify`) or
`spawn_at` (`SpawnAtCount`, `InboxClaim`, `InboxStore`, and the signal), may
panic (`TaskPanics`) or return (`FinishTask`, then, for the last one, `Declare`,
`DeclareNotify`). A steal sizes its batch, takes the first task and moves the
others one by one (`StealFirst`, `StealMore`, `StealDone`). Going to sleep is
`ParkLock`, `ParkOutstanding`, `ParkInbox` or `ParkSleep`; a sleeper woken by a
`notify_all`, or for no reason, looks at its condition in `WakeUp` or `SleepOn`.

Abstractions: a steal may fail with a task in sight (`Retry`), at any time and
not only after a lost race; random victims are any victims, so that the w
attempts of round 1 count as one (a failed attempt changes nothing); the
registrations of one worker are one step, since only `clear_lifelines` and the
test for a double entry read the lists; heartbeat, locality and statistics are
left out. A panicked worker keeps its task and its deque can be robbed, as the
slot's `Stealer` keeps it alive.

### Jiffy

A buffer is its place in the chain, so `linked`, the last place, stands for all
`next` pointers: a `next` is only ever set by a CAS from null and never changed.
A loser of that CAS frees a buffer nobody else has seen. `slots` is indexed by
the global index. The locals of a `dequeue` that only the consumer writes
(`head`, `headBuf`) need no step of their own, and a `dequeue` that finds nothing
claimed changes nothing.

### Distributed

`local`, `inbox`, `waiting` (pending_request) per node and the shared
`outstanding`. `drain_mailbox` is `Answer`, `Absorb` and `DrainEnds`; the loop
goes on with `RunTask`, `LeaveDone` or `Starve` and `Ask`. A task may spawn, end
or panic. A channel delivers in order and a send to a node that is gone fails; the
batch is then lost, and so are the pool and the mailbox of a node that panics
(`lost`). The two loads and the send of `Ask` need no more steps: nobody else
writes `waiting`, and a victim that leaves after the send drops the request with
its mailbox. The victim is any node; oneself is drawn, too, and then nobody is
asked in this round. `SeedsOf` says in closed form what dealing the seeds out in
turn gives each node. `Owed(n)` is what is under way on behalf of a node that
waits: its request, in whatever mailbox, or the answer in its own.

### Persistent, Priority, Race

`Persistent` is sequential and one action is one call, the staging and the sync
included, since the program crashes only where `crash_now` is called. A client
recovers before it goes on; a `recover` in normal operation is in the model when
nothing is staged, as otherwise the code would forget values it has accepted
without crashing. `Priority` composes atomic deques: what a scan adds is that it
visits level after level while the levels change, so a visit of a thief is a look
and a claim, with `Retry` if the task has gone in between, and the owner's pop at
a level hides a last task for a moment, as `ChaseLev` does. `since` is history:
the tasks that were there all through a thief's call.

In `Race` the actions are the calls that build a program, the closure's beginning
and end apart. A node is a number, in the order of completion, and a composition
lists the numbers of its children: that makes each recursive walk of the code
(`count_strands`, `assign_english`, `hebrew_walk`) a function on numbers, whose
value at a node is given by those at smaller numbers. The counters that the walks
carry along are replaced by what they come to: the sums of the counts of the
children (`Bases`), from the left or, in Hebrew order at a parallel node, from the
right (`HebrewBase`). `FindsAllRaces` compares, at every finished program, the
races found from the two orders with the definition by lowest common ancestors,
which is a walk of its own (`PairsOf`). Several reports of one race by repeated
accesses count as one.

## What the runs show

| Run | Instance | Shows |
|---|---|---|
| `ChaseLevLifo` | LIFO, 2 thieves, 2 slots, 4 pushes | the safety properties, `ImplementsDeque`, `EmptyIsHonest` |
| `ChaseLevFifo` | FIFO, 2 thieves, 1 slot, 3 pushes | `ImplementsDeque` for the retrying owner; `Drained` |
| `Inline` | 2 thieves, 2 slots, 4 pushes, 4-bit indices from 0 and from 6 | `ImplementsDeque` across the wrap, `BuffersKept`, `Drained` with an owner that pops |
| `Bwos` | bounded and unbounded, 3 blocks of 2, 2 thieves, 4 puts | no value twice; none lost except by re-entry; `ListKept`; `Drained` |
| `BwosLoss` | bounded, 2 blocks of 2, 1 thief | *violated*: every value can be consumed |
| `BwosStranded` | unbounded, 3 blocks of 1, 1 thief | *violated*: a cursor is at or behind the front |
| `Scheduler` | 2 workers, 2 seeds, 5 tasks, 1 panic | `ImplementsPool`: each task run once, nobody leaves early; `SleeperIsOwedAWake` |
| `SchedulerTeam` | 3 workers, 2 seeds, 3 tasks | `Terminates`: all workers return |
| `SchedulerPanic` | 2 workers, 3 tasks, 1 panic | *violated*: an idle team exits |
| `Jiffy` | 3 producers, 5 values, buffers of 2 | `ImplementsInbox`, `FindsItsBuffer`, `NoneIsHonest`, `EnqueueEnds`, `Delivered` |
| `Relaxed` | array: bounded with 2 places or growing from 1, all kinds of thieves; list: nodes of 2; 2 thieves each | `ImplementsRelaxed`, `EmptyIsHonest`, `FreedOnce`, `WalkInv`, `Delivered` |
| `Parts` | 3 nodes, 1 seed, 6 tasks; 6 records, 2 values; 2 levels, 4 tasks, 2 thieves; 4 strands, 3 compositions | `ImplementsPool`, `OneAnswerOwed`, `Terminates`; `ImplementsDurable`; `PopsHighest`, `StealsHighest`; `FindsAllRaces` |

Why these bounds. With two slots and four pushes the ring grows from 2 to 4 to 8
slots, wraps, and shrinks again when pops leave one task (`8 div 3 > 1`), each
of them with two thieves anywhere inside a steal; a stale thief can hold any of
the four generations of buffers. Two thieves give thief against thief, thief
against owner, and one stalled thief while another works. In `ChaseLevFifo` the
first buffer has a single slot, which the code allows
(`with_log_capacity(0)`) and in which every push grows. `MinCapacity` is 2 or 1
instead of 16 so that shrinking is within reach; the code uses the constant only
in the two comparisons of `perhaps_shrink`. In `Bwos` two blocks are the least
the constructor accepts, and the third one lets the owner step back twice and,
unbounded, relink a block; with two slots each the second value of a block is
popped without, the first with a race; four puts fill two blocks, or fill, empty
and enter again. In `Inline` a width of 4 bits leaves the largest difference (the
capacity, 8) on the edge of what the sign can tell, and the start at 6 puts the
wrap in the middle of four pushes. In `Relaxed` an array of one grows twice in
three puts; `Capacity` 2 is refused a third task; nodes of two are passed, with
four puts, by a thief that has stayed in the first one. In `Parts` six tasks of
one seed let a node have three or more when it is asked, which is what it takes
for tasks to migrate; task 3 may panic. Two levels are enough for a scan to be overtaken
above and below; six records hold a log that stages, syncs and takes; four strands
in three compositions are all programs with a parallel node below one of the
other kind, and empty ones.
`MaxPush` and `MaxPut` only bound how often the owner
inserts; the proofs do without the bound's value.

`Scheduler` needs five tasks so that a deque can hold three while one runs: only
then does a batch move a second task. Two workers give every race between one
sleeper and one waker; the third, in `SchedulerTeam`, gives thieves of thieves, a
sleeper whose waker is not its neighbour in the hypercube, and neighbourhoods of
different size. In `Jiffy` three producers and five values let one producer stall
in the first buffer while the tail moves on to the third, so that it, or another,
has to walk; with buffers of two slots the first slot of each is the one that
links ahead.

Deadlock is checked for `Bwos`, which never stops. `ChaseLev`, `Inline`, `Jiffy`
and the queues of `Relaxed` stop when the queue has been dropped, the schedulers
when all have returned, a program of `Race` when it is as large as the bounds
allow, so their configurations switch the check off; `Terminates` says that the
schedulers stop nowhere else.

Fairness. `Drained` says that one thief that keeps calling `steal` gets hold of
every task that nobody else takes. It assumes weak fairness of that thief, and
of the owner only for operations it has begun (a thread runs on; the code has no
lock or unbounded wait in `push` or `pop`); an owner that never calls again and
other thieves that stall anywhere, also between `fetch_add` and `fetch_sub`, are
among the behaviours. For a FIFO owner nothing is assumed of its pop.

`Drained` of `Bwos` is the same for the values that the thief can reach: not those
buried by a re-entry, nor, unbounded, those its cursor has left behind.
`Delivered` of `Relaxed` assumes one diligent thief of any kind and an owner that
ends the puts it begins; the other thief may stall with a claim won. In the runs
where only so many tasks are put, "each is delivered in the end" is stated as
`[]<>` all are, which is the same there and cheaper to check.

`Terminates` of `Distributed` assumes that each node goes on with its loop and
that tasks end. It exempts a team of which a member has panicked, and a node that
is for ever kept at its mailbox: TLC shows that weak fairness of the nodes alone
does not exclude it, as `drain_mailbox` answers until the mailbox is empty, and
thieves that get an empty batch may ask again before it looks (`distributed.rs`
210-237).

`Terminates` of `Scheduler` assumes that a worker that can take a step does (threads are
scheduled, a mutex that is free is acquired in the end), nothing of spurious
wakes, and that no task panics; a task ends because `MaxTasks` bounds what it can
spawn. In `Jiffy` the premises are part of the properties: `EnqueueEnds` assumes
that this producer goes on and nothing of anyone else, which is what wait-free
means; `Delivered` that the consumer keeps calling and the producers finish.

Findings. `NothingLost` in `Bwos`: `put` restarts a block it has been in before at
position 0 although `stolen` is above 0 (`bwos.rs` 216); the shortest loss takes
no thief at all: with blocks of two, three puts, two pops, two puts.
`LostOnlyByReentry` shows that this is the only way in which the queue loses a
value, and the run `Bwos` that nothing is delivered twice even then.
`AtOrBehindFront` in `BwosUnbounded`: a thief loads `committed`, then `next`; if
the owner fills the block and goes on to a new one in between, the thief follows
the link past values it has not seen, for good (`bwos.rs` 860). A put after a step
back strands values the same way. They are not lost: the owner, other thieves and
fresh clones can get them. `IdleTeamExits`: a task that panics is never counted
off, and `run` hangs instead of passing the panic on.

Further places where the documentation and the code part, which modelling
brought up and which need no run to be seen:

* The crate documentation (`lib.rs` 37-43, and the comment at 443-444) has
  retired buffers freed only on drop; `try_reclaim` (271-283) frees them as soon
  as it reads `in_flight` = 0. That scheme is what is proved correct here.
* `steal_batch_and_pop` claims the batch "with a single `compare_exchange`"
  (`lib.rs` 705-707); it loops over single steals (730-739), and the note below
  (711-716) says why. `Scheduler` has the loop.
* `produced_blocks` "Monotonically increases" (`bwos.rs` 135-136), but `put` after
  two steps back stores a smaller value (219); thieves then skip blocks that hold
  nothing. A bounded put may also refuse while blocks behind the owner's are empty.
* "A buddy that later obtains work checks its lifeline requests" (`scheduler.rs`
  22-23): the lists are written and never read; what wakes a sleeper is the
  broadcast of `spawn` and `spawn_at`, and work that moves by stealing is not
  announced. `Terminates` holds all the same, since every task lies in the deque
  of a worker that is awake. Likewise 471-473: the generation is noted after the
  failed steals, so work published in between does not keep a worker awake;
  `SleeperIsOwedAWake` shows that its own deque and inbox never hold that work.
* `head` of the idempotent queue "only ever moves forward" (`idempotent.rs` 106):
  not with weak thieves, whose store may move it back (454); `ImplementsRelaxed`
  says what is still in order then.
* `Drop` of the unbounded BWoS walks `next` (`bwos.rs` 626-630) and does not free
  the blocks that relinking has taken out of the list.
* The `is_null` branch of the walk in `linked.rs` 223 is never taken: `WalkInv`.

## What is proved

`ChaseLevProofs` is about `ChaseLev`'s `Spec` for arbitrary constants: any
number of thieves, any initial and minimal capacity, any shrink factor of at
least 3, either pop discipline, any number of pushes. It assumes
`ProcsAssumption` (the owner is no thief, the thieves are finitely many) and
`ParameterAssumption`. Powers of two are not needed: the proofs are about `%`,
and `PowerOfTwoAssumption` only says when `%` is what the code computes.

1. `ReclamationCorrect`: `TypeOK /\ ReclaimInv` is inductive. `NoUseAfterFree`
   alone is not: one needs that `inFlight` is the exact number of thieves in the
   critical section, and that between a zero read by the owner and the freeing,
   whoever enters loads the active buffer. The counting argument is a lemma on
   the cardinality of the set of thieves in the section. From it `TypeCorrect`,
   `ReclamationSafe`, `NoBufferLeaked`.
2. `InductiveInvariant` adds `IndexInv` and `ExactlyOnceInv`. `IndexInv` says
   where `top`, `bottom` and the loaded values can be; its last conjunct is the
   heart of the algorithm: a thief that is past its load of bottom and whose CAS
   would still succeed is after a task that is really there. `ContentInv` says
   that the live cells hold the untaken tasks in push order; `ClaimInv`, that
   what a process will claim if its CAS succeeds is the oldest task, although it
   may have read it in a buffer since replaced. The lemmas on the way are about
   the ring (`%` separates indices less than a capacity apart), about what
   writing a slot and resizing leave in place, and about handing over one task.
   From it `NoTaskTwice`, `NoTaskLost`, `ResizesFit`.

`JiffyProofs` is about `Jiffy`'s `Spec`, for any number of producers and values
and buffers of any size; it assumes `JiffyAssumption` (the consumer is not among
the producers, a buffer has a slot).

3. `SearchInvariant`: `TypeOK /\ SearchInv` is inductive. `FindsItsBuffer` alone
   is not: that a walk from `head_buf` starts no later than the buffer it looks
   for rests on `SlotsInv`, by which the index of a producer that still searches
   is its own, claimed and not stored, while the consumer has passed only stored
   slots; that the walk ends before the chain does rests on `ChainInv`, by which
   it is looking for an index before `tail_buf`, and `tail_buf` is linked. From it
   `JiffyTypeCorrect`, `SearchFindsItsBuffer`. `CellsInvariant` adds `CellsInv`: a
   claimed slot holds its own value, or nothing and then a producer is on the way
   to it. With it a claim, a store, a delivery and the drop are steps of `Inbox`,
   and all else changes nothing there (`JiffyIsAnInbox`): a store cannot come
   behind the consumer, which has passed only stored slots. `NoneMeansNotStored`
   rests on the other half of `CellsInv`, that nothing is stored beyond the last
   linked buffer: the consumer that stops at the end of the chain has missed
   nothing.

`RelaxedProofs` is about `MCRelaxed`'s `LiveSpec`, that is about both queues with
multiplicity: any number of thieves of any kinds, any first length, capacity and
node size, any number of puts. It assumes `LinkedAssumption` and
`RelaxedAssumption`, whose `MaxArray <= MaxPut` only relates two bounds of the
model.

4. `RelaxedInvariant`. A queue that delivers by reading, without a race for the
   task, is correct for reasons that no single variable shows. For the array they
   are: whatever a process has loaded of `head` is *given out*, every task before
   it has a taker (`HeadsOK`); a process that is served in order has nothing
   beyond its reach, which is `head`, or for a weak thief its private maximum,
   since `head` itself may go back (`OrderOK`); a claimed cell has a taker, and
   what an exclusive thief has got is claimed (`ClaimsOK`, `ClaimsKept`); and a
   thief that began when something was undelivered has a task in sight, in
   whatever array it has loaded, retired or not (`LullOK`, with `ArrayCells`). For
   the list: the node of a walk is not behind its head, the head was below `tail`
   when it looked, and the list is as long as `tail` needs it but for the link the
   owner is about to set (`WalkInv`). From it `WalksEnd`, `EachBoxFreedOnce`,
   `EmptyMeansDelivered`, and step by step `RelaxedQueueImplemented`.

`BwosProofs` is about `Bwos`'s `Spec`, `BwosUnbounded`'s `SpecLinked` and the sum
of the two in `MCBwos`, for any number of thieves, blocks and slots
(`BlockAssumption`).

5. `RowInvariant`, `ListInvariant`, `EitherInvariant`. `AtMostOnce` rests on
   `ContentInv`, that the untaken values are those in the live slots, each in one,
   and that on `ThiefInv`: a thief whose CAS would still succeed is after a slot
   that is live, although it read `committed` long before. Both fail in a block
   that is re-entered, where `stolen` is above `committed`; there the invariant
   says that nothing is live, and that what is put meets `buried`. From it
   `RowAtMostOnce`, `RowLosesOnlyByReentry`, and for the list, which enters no
   block twice, `ListNothingLost`. `ListKeepsItsBlocks` needs one more, `SpineInv`:
   the blocks from the first to the owner's are doubly linked in the order of
   allocation, and the others are empty. Which blocks those are is left
   existential; no variable of the code says it.

`SchedulerProofs` is about `Scheduler`'s `Spec`, for a team of any size, any number
of seeds, tasks and panics (`SchedulerAssumption`).

6. `SchedulerInvariant`: a task is in one place (`TasksInv`); `outstanding` is the
   number of tasks spawned and not ended, and `generation` lags the number of
   spawns by the workers about to bump it (`CountInv`); nobody declares the end
   before that number is 0 (`EndInv`); and of a worker between the load of
   `generation` and its wake, that a reason to get up comes with somebody on the
   way to notify (`WakeInv`). From it `SchedulerTypeOK` (the counter does not
   underflow), `NoWakeIsLost`, and `SchedulerImplementsPool`: each task runs once,
   and no worker returns while one waits or runs.

`ChaseLevProofs` also proves the refinement.

7. `DequeIsAtomic`: under `InductiveInvariant` and `ModeKept` (an owner pops from
   one end) each action of `ChaseLev` is one of `TaskDeque`, under the mapping of
   `ChaseLevRefinement`, or changes nothing there: the deque is linearizable.
   `EmptyMeansEmpty`: who is told Empty loaded its last index at a moment when
   nothing was there but, for a thief, the task a pop is taking.

`InlineProofs` is about `Inline`'s `Spec`, for any thieves, capacities, index width
and number of pushes (`InlineAssumption`; `PowersOfTwo` only spells out the powers
of two, of which the provers know nothing).

8. `EveryBufferFreedOnce`: at all times the retire list holds the buffers before
   the active one, newest first; nothing about the indices is needed, and so it
   holds whatever they wrap to.
9. `InlineDequeIsAtomic`: the refinement of `TaskDeque`, from any starting index.
   It has the hypothesis `FewPuts`, `MaxPush + 2 <= 2^(Width - 1)`: in 64 bits, fewer
   than 2^63 - 2 puts. Something of the kind is needed, since a thief that sleeps
   while the indices go once round finds the top it remembers and succeeds with a
   value long gone. The run's instance satisfies it (4 + 2 <= 8). The arithmetic
   comes first: `Wrap` picks, from the numbers that differ by whole rounds, the one
   that is an index (`WrapFacts`), so that sums and differences may be wrapped inside
   or not (`WrapInside`, `IndexArithmetic`); and every capacity is a power of two no
   larger than a round and divides it (`CapacityDivides`), so that a wrapped index
   selects the cell of the one it stands for (`WrapCell`). Then `IndexInv`, about
   distances: how many values there are, and for every top that a process still
   remembers, how far the real one has come since. The sum of the two is at most the
   number of puts and one, so that no comparison is misled (`Distances`); the last
   conjunct is again that a thief whose CAS would succeed is after a value that is
   there. `ClaimInv` says what that value is, and `ValuesStay` that neither growing
   nor shrinking nor a put changes it, in the active buffer or an older one.

`PartsProofs` is about `Parts`' `PartsSpec`, the sum of three small parts, to which
`MCParts` adds the race detector for TLC (`PartsAssumption`).

10. `PriorityInvariant`: `PopScanned`, that the levels the owner's scan is past are
   empty and stay so, as the owner alone pushes and does not while it scans; and
   `StealScanned`, that what a thief has overlooked on a level it is past it lost
   a race for. The latter is inductive because a thief counts as overlooking only
   what was there when it began: what comes later has another number
   (`PushedBefore`). From it `PopTakesTheHighest`, `StealTakesTheHighest`.
11. `LogInvariant`: `live = Replay(durable) \o volatile`. The refinement,
   `QueueRecovers`, rests on two facts about recovery: it redoes a log record by
   record (`ReplayNext`), and values behind a log end up behind its contents
   (`ReplayStaged`).
12. `NodesInvariant`: `TasksInv`, that a task is in one place, a pool, a batch in a
   mailbox, a node that runs it, or `lost`, and there once; `CountInv`, that
   `outstanding` is the number of tasks spawned and not ended, so that when a node
   finds it 0 every place is empty; and `MailInv`, that at most one message is owed
   to a node. `TasksInv` needs the last, as it does not tell two batches in one
   mailbox apart: there are never two. `MailInv` is inductive because nobody asks
   itself, so that an answer takes the place of its request, and because a node
   asks only while it does not wait. From it `AnswerIsOwed`, and step by step
   `NodesImplementPool`: an answer moves a batch from a pool to a mailbox, or to
   `lost` when the one who asked has panicked; when that one has returned, there is
   nothing to send.

`RaceProofs` is about `Race`'s `DagSpec`, for programs of any size, nested to any
depth, with any accesses (`RaceAssumption` says what an access is).

13. `EveryRaceFound`. The invariant of the builder is `DagInv`: the children of a
   node are complete before it, so that the walks, which are defined by recursion
   on the nodes, exist and are what the recursion says (`Recursion`, and for each
   walk its equation). The rest is about a finished tree. `Walked` says what the
   walks of a subtree of c strands give: each strand has one list of accesses and
   one place in Hebrew order, both numbered below c, and of two strands the orders
   disagree if and only if they are a pair of `PairsOf`. If it holds of the children
   it holds of the node (`NodeWalked`): the children of a node occupy intervals of
   the English order, one behind the other (`SamePlace`), and intervals of the
   Hebrew order, in the same sequence at a series node and in the opposite one at a
   parallel node (`HebrewBases`), empty children included. That the pairs compared
   at a location are the conflicting accesses is then a matter of sets
   (`RacesAgree`).

Some arguments are by induction over data, which the provers do not do: the scan
that `drop` makes over the cells (`ScanFacts`), the walk along the spine of
the list, that the contents of a log of any length exist (`ContentsExist`),
`ReplayStaged`, the powers of two (`RoundFacts`, `CapacityDivides`), that sums and
walks exist (`Recursion`) and what they are (`AllWalked`). All take a least
counterexample instead (`LeastNat`), which the library gives for sets of naturals
by the well-foundedness of strict inclusion. A recursion is a function and not a
RECURSIVE operator, since TLAPS has no rule for the latter.

Only model-checked, on the instances above: every liveness property (`Drained`,
`Terminates`, `EnqueueEnds`, `Delivered`), as fairness is outside the prover's
reach.

## What is not modelled

Weak memory beyond sequential consistency; allocation failure, and panics other
than a task's; `steal_batch`, which is `steal_batch_and_pop` without the returned
task (the latter is modelled as a part of `Scheduler`, over atomic deques), and
which nothing in the crate calls; of the scheduler the heartbeat, the locality
bias, the random numbers and the statistics. Clients that do what the
documentation forbids: several owners, exclusive steals on a growing queue, an
operation of the persistent queue between crash and recovery. `len`, `is_empty`
and `capacity` only read and promise nothing under concurrency. Tests, benchmarks
and examples are clients of the crate.

## Plan

The code is modelled but for the parts named above, and of what TLC checks every
safety property is proved. Next would be `steal_batch` as a loop of its own on
`ChaseLev`'s steps instead of one over atomic deques, and what the deques keep of
their promises under weaker memory orders.
