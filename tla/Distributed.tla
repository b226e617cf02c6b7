----------------------------- MODULE Distributed -----------------------------
(***************************************************************************)
(* The message-passing scheduler of src/src/distributed.rs: each node has  *)
(* a pool of tasks of its own and a mailbox.  A starving node asks another *)
(* for work, one request at a time, and is sent a part of its pool, or an  *)
(* empty batch.  A global count of the tasks not yet done says when to     *)
(* stop.  A node that has left drops its mailbox: to send to it fails.     *)
(*                                                                         *)
(* One action is one access to a mailbox or to the count with the private  *)
(* computation around it.  A definition marked "Fault" is the one after it *)
(* with a plausible mistake.                                               *)
(***************************************************************************)
EXTENDS Integers, Sequences, SequencesExt, FiniteSetsExt

CONSTANTS
    NumNodes,  \* nodes, 0..NumNodes-1
    NumSeeds,  \* the initial tasks, 1..NumSeeds
    MaxTasks,  \* bound of the model: tasks seeded and spawned
    CanPanic   \* the tasks that may panic

Nodes == 0..NumNodes - 1
Tasks == 1..MaxTasks
Seeds == 1..NumSeeds

DistributedAssumption ==
    /\ NumNodes \in Nat \ {0}
    /\ NumSeeds \in Nat \ {0} /\ MaxTasks \in Nat /\ NumSeeds <= MaxTasks
    /\ CanPanic \subseteq Tasks

VARIABLES
    local,        \* per node: its pool, the end of which it works on
    inbox,        \* per node: the messages sent and not received
    waiting,      \* per node: pending_request
    outstanding,  \* the global count of tasks not yet done
    at,           \* where each node is in its loop
    task,         \* per node: the task it runs; 0 when none
    spawned,      \* the number of tasks there have been
    ended,        \* history: the tasks that were run to their end
    lost          \* history: the tasks a panic took with it

distVars == <<local, inbox, waiting, outstanding, at, task, spawned, ended,
              lost>>

Request(n) == [type |-> "request", from |-> n]
Work(batch) == [type |-> "work", batch |-> batch]

Goto(n, label) == at' = [at EXCEPT ![n] = label]

Gone(n) == at[n] \in {"left", "panicked"}

\* The seeds are dealt out in turn: node n gets every NumNodes-th.
SeedsOf(n) == [i \in 1..((NumSeeds + NumNodes - 1 - n) \div NumNodes) |->
                  n + 1 + (i - 1) * NumNodes]

DistInit ==
    /\ local = [n \in Nodes |-> SeedsOf(n)]
    /\ inbox = [n \in Nodes |-> <<>>]
    /\ waiting = [n \in Nodes |-> FALSE]
    /\ outstanding = NumSeeds
    /\ at = [n \in Nodes |-> "drain"]
    /\ task = [n \in Nodes |-> 0]
    /\ spawned = NumSeeds
    /\ ended = {}
    /\ lost = {}

-----------------------------------------------------------------------------
(* drain_mailbox                                                           *)

Next1(n) == Head(inbox[n])

\* Fault: the batch that is sent stays in the pool.
AnswerKeep(n) ==
    LET pool == local[n]
        give == (Len(pool) - (IF pool = <<>> THEN 0 ELSE 1)) \div 2
    IN  /\ at[n] = "drain" /\ inbox[n] # <<>>
        /\ Next1(n).type = "request"
        /\ inbox' = [inbox EXCEPT
                       ![n] = Tail(@),
                       ![Next1(n).from] =
                          IF Gone(Next1(n).from) THEN @
                          ELSE Append(@, Work(SubSeq(pool,
                                      Len(pool) - give + 1, Len(pool))))]
        /\ UNCHANGED <<local, waiting, outstanding, at, task, spawned, ended,
                       lost>>

\* Half of what is left beside one task goes to the one who asks, from the
\* end of the pool.  Should it be gone, the send fails and the batch is lost.
Answer(n) ==
    LET pool == local[n]
        give == (Len(pool) - (IF pool = <<>> THEN 0 ELSE 1)) \div 2
        batch == SubSeq(pool, Len(pool) - give + 1, Len(pool))
        to == Next1(n).from
    IN  /\ at[n] = "drain" /\ inbox[n] # <<>>
        /\ Next1(n).type = "request"
        /\ local' = [local EXCEPT ![n] = SubSeq(@, 1, Len(@) - give)]
        /\ inbox' = [inbox EXCEPT
                       ![n] = Tail(@),
                       ![to] = IF Gone(to) THEN @ ELSE Append(@, Work(batch))]
        /\ lost' = IF at[to] = "panicked" THEN lost \cup ToSet(batch) ELSE lost
        /\ UNCHANGED <<waiting, outstanding, at, task, spawned, ended>>

Absorb(n) ==
    /\ at[n] = "drain" /\ inbox[n] # <<>>
    /\ Next1(n).type = "work"
    /\ local' = [local EXCEPT ![n] = @ \o Next1(n).batch]
    /\ inbox' = [inbox EXCEPT ![n] = Tail(@)]
    /\ waiting' = [waiting EXCEPT ![n] = FALSE]
    /\ UNCHANGED <<outstanding, at, task, spawned, ended, lost>>

DrainEnds(n) ==
    /\ at[n] = "drain" /\ inbox[n] = <<>>
    /\ Goto(n, "work")
    /\ UNCHANGED <<local, inbox, waiting, outstanding, task, spawned, ended,
                   lost>>

-----------------------------------------------------------------------------
(* node_main                                                               *)

RunTask(n) ==
    /\ at[n] = "work" /\ local[n] # <<>>
    /\ task' = [task EXCEPT ![n] = Last(local[n])]
    /\ local' = [local EXCEPT ![n] = Front(@)]
    /\ Goto(n, "run")
    /\ UNCHANGED <<inbox, waiting, outstanding, spawned, ended, lost>>

\* Fault: the count is not raised for a child.
SpawnUncounted(n) ==
    /\ at[n] = "run" /\ spawned < MaxTasks
    /\ spawned' = spawned + 1
    /\ local' = [local EXCEPT ![n] = Append(@, spawned + 1)]
    /\ UNCHANGED <<inbox, waiting, outstanding, at, task, ended, lost>>

\* NodeSpawner::spawn, called by the task that runs.
Spawn(n) ==
    /\ at[n] = "run" /\ spawned < MaxTasks
    /\ spawned' = spawned + 1
    /\ outstanding' = outstanding + 1
    /\ local' = [local EXCEPT ![n] = Append(@, spawned + 1)]
    /\ UNCHANGED <<inbox, waiting, at, task, ended, lost>>

FinishTask(n) ==
    /\ at[n] = "run"
    /\ outstanding' = outstanding - 1
    /\ ended' = ended \cup {task[n]}
    /\ task' = [task EXCEPT ![n] = 0]
    /\ Goto(n, "drain")
    /\ UNCHANGED <<local, inbox, waiting, spawned, lost>>

BatchesIn(box) ==
    UNION {ToSet(box[i].batch) : i \in {j \in DOMAIN box :
                                            box[j].type = "work"}}

\* The thread of a task that panics unwinds: pool and mailbox go, the task
\* stays in the count, and the others are not told.
Panic(n) ==
    /\ at[n] = "run" /\ task[n] \in CanPanic
    /\ lost' = lost \cup ToSet(local[n]) \cup BatchesIn(inbox[n])
    /\ local' = [local EXCEPT ![n] = <<>>]
    /\ inbox' = [inbox EXCEPT ![n] = <<>>]
    /\ Goto(n, "panicked")
    /\ UNCHANGED <<waiting, outstanding, task, spawned, ended>>

\* No task anywhere: return, and drop what is still in the mailbox.
LeaveDone(n) ==
    /\ at[n] = "work" /\ local[n] = <<>>
    /\ outstanding = 0
    /\ inbox' = [inbox EXCEPT ![n] = <<>>]
    /\ Goto(n, "left")
    /\ UNCHANGED <<local, waiting, outstanding, task, spawned, ended, lost>>

Starve(n) ==
    /\ at[n] = "work" /\ local[n] = <<>>
    /\ outstanding # 0
    /\ Goto(n, IF waiting[n] \/ NumNodes = 1 THEN "drain" ELSE "ask")
    /\ UNCHANGED <<local, inbox, waiting, outstanding, task, spawned, ended,
                   lost>>

\* Fault: that a request is under way is not remembered.
AskForget(n) ==
    /\ at[n] = "ask"
    /\ \E victim \in Nodes \ {n} :
          inbox' = IF Gone(victim) THEN inbox
                   ELSE [inbox EXCEPT ![victim] = Append(@, Request(n))]
    /\ Goto(n, "drain")
    /\ UNCHANGED <<local, waiting, outstanding, task, spawned, ended, lost>>

\* Any victim may be drawn; oneself is not asked, nor one who is gone.
Ask(n) ==
    /\ at[n] = "ask"
    /\ \E victim \in Nodes :
          IF victim = n \/ Gone(victim)
          THEN UNCHANGED <<inbox, waiting>>
          ELSE /\ inbox' = [inbox EXCEPT ![victim] = Append(@, Request(n))]
               /\ waiting' = [waiting EXCEPT ![n] = TRUE]
    /\ Goto(n, "drain")
    /\ UNCHANGED <<local, outstanding, task, spawned, ended, lost>>

\* What node n does by itself; whether a task spawns or panics is its own.
Step(n) == \/ Answer(n) \/ Absorb(n) \/ DrainEnds(n) \/ RunTask(n)
           \/ FinishTask(n) \/ LeaveDone(n) \/ Starve(n) \/ Ask(n)

DistNext == \E n \in Nodes : Step(n) \/ Spawn(n) \/ Panic(n)

DistSpec == DistInit /\ [][DistNext]_distVars

-----------------------------------------------------------------------------
(* What must hold.                                                         *)

Running == {task[n] : n \in Nodes} \ {0}

\* The tasks to be run, wherever they are.
Pending ==
    lost \cup UNION {ToSet(local[n]) \cup BatchesIn(inbox[n]) : n \in Nodes}

Present == {n \in Nodes : at[n] # "left"}

Pool == INSTANCE TaskPool WITH
    Workers <- Nodes, pending <- Pending, running <- Running,
    done <- ended, present <- Present

\* distributed.rs 20-25: a task is run once, on the node where it was spawned
\* or to which it migrated, none is lost on the way, and no node returns
\* before all are done.
ImplementsPool == Pool!PoolSpec

\* Where the mailboxes have what node n is waiting for: the request it sent or
\* the answer to it.
Owed(n) ==
    UNION {{<<v, i>> : i \in {j \in DOMAIN inbox[v] :
                                 \/ inbox[v][j] = Request(n)
                                 \/ v = n /\ inbox[v][j].type = "work"}}
             : v \in Nodes}

\* distributed.rs 177-193, 231: a node waits for an answer if and only if one
\* request of its own or one answer to it is under way; only when some node is
\* gone may it wait for nothing.
OneAnswerOwed ==
    \A n \in Nodes : ~Gone(n) =>
        /\ Cardinality(Owed(n)) <= IF waiting[n] THEN 1 ELSE 0
        /\ (\A v \in Nodes : ~Gone(v)) /\ waiting[n] => Owed(n) # {}

\* distributed.rs 71-74: all nodes return once the work is done, but for two
\* things that the code does not exclude: a task that panics leaves the others
\* waiting, and a node that is asked again before it has looked at its mailbox
\* again may never get to its own tasks.
AllLeave ==
    \/ \E n \in Nodes : <>[](at[n] = "drain") \/ <>(at[n] = "panicked")
    \/ <>(\A n \in Nodes : at[n] = "left")

-----------------------------------------------------------------------------
(* Why it holds.                                                           *)

Messages ==
    [type : {"request"}, from : Nodes] \cup [type : {"work"}, batch : Seq(Tasks)]

DistTypeOK ==
    /\ local \in [Nodes -> Seq(Tasks)]
    /\ inbox \in [Nodes -> Seq(Messages)]
    /\ waiting \in [Nodes -> BOOLEAN]
    /\ at \in [Nodes -> {"drain", "work", "run", "ask", "left", "panicked"}]
    /\ task \in [Nodes -> Tasks \cup {0}]
    /\ spawned \in NumSeeds..MaxTasks
    /\ ended \subseteq 1..spawned

\* Nobody asks itself or has asked twice, and who waits for nothing is owed
\* nothing.
MailInv ==
    \A n \in Nodes :
        /\ \A i \in DOMAIN inbox[n] : inbox[n][i] # Request(n)
        /\ \A here, there \in Owed(n) : here = there
        /\ Owed(n) # {} => waiting[n]
        /\ (\A v \in Nodes : ~Gone(v)) /\ waiting[n] => Owed(n) # {}
        /\ at[n] = "ask" => ~waiting[n]

\* Where a task can be.
Places == ({"local", "mail", "task"} \X Nodes) \cup {<<"lost", 0>>}

Held == [p \in Places |->
    CASE p[1] = "local" -> ToSet(local[p[2]])
      [] p[1] = "mail"  -> BatchesIn(inbox[p[2]])
      [] p[1] = "task"  -> {task[p[2]]} \ {0}
      [] p[1] = "lost"  -> lost]

\* A task is in one place, there once, and in none when it has ended.
TasksInv ==
    /\ \A p \in Places : Held[p] \subseteq (1..spawned) \ ended
    /\ \A p, q \in Places : p # q => Held[p] \cap Held[q] = {}
    /\ \A n \in Nodes : /\ IsInjective(local[n])
                        /\ \A i \in DOMAIN inbox[n] : inbox[n][i].type = "work"
                              => IsInjective(inbox[n][i].batch)
    /\ \A n \in Nodes : task[n] # 0 <=> at[n] \in {"run", "panicked"}

\* The count is that of the tasks not yet done, and who has left has seen it 0.
CountInv ==
    /\ outstanding = spawned - Cardinality(ended)
    /\ \A n \in Nodes : at[n] = "left" => outstanding = 0

DistInv == DistTypeOK /\ MailInv /\ TasksInv /\ CountInv
==============================================================================
