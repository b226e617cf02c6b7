------------------------------ MODULE Persistent ------------------------------
(***************************************************************************)
(* The crash-recoverable queue of src/src/persistent.rs: a log of records  *)
(* of which psync makes those staged by pwb durable, and a volatile copy   *)
(* of the contents that recovery rebuilds from the log.  The queue has one *)
(* user, and a crash comes between two calls (crash_now), so an action is  *)
(* a whole call.  As the module's documentation has it, the user recovers  *)
(* the queue after a crash before using it again, and not otherwise while  *)
(* records are staged.  A record is a value put or Dequeue.  A definition  *)
(* marked "Fault" is the one after it with a plausible mistake.            *)
(***************************************************************************)
EXTENDS Integers, Sequences

CONSTANTS
    Values,   \* what may be put
    MaxLog    \* bound of the model: records of the log

PersistentAssumption == Values \subseteq Nat \ {0} /\ MaxLog \in Nat

VARIABLES
    durable,    \* the records that survive a crash
    volatile,   \* the records staged since the last psync
    live,       \* the contents in memory
    recovered   \* recover has been called since the last crash

logVars == <<durable, volatile, live, recovered>>

Dequeue == 0

LogInit == durable = <<>> /\ volatile = <<>> /\ live = <<>> /\ recovered = TRUE

Room == Len(durable) + Len(volatile) < MaxLog

\* Fault: only the record itself is made durable.
SyncLastOnly(record) ==
    /\ durable' = Append(durable, record)
    /\ volatile' = volatile

\* pwb of a record, then psync: everything staged is durable.
Sync(record) ==
    /\ durable' = durable \o Append(volatile, record)
    /\ volatile' = <<>>

EnqueueValue(v) ==
    /\ recovered /\ Room
    /\ Sync(v)
    /\ live' = Append(live, v)
    /\ UNCHANGED recovered

DequeueNone ==
    /\ recovered
    /\ live = <<>>
    /\ UNCHANGED logVars

DequeueValue ==
    /\ recovered /\ Room
    /\ live # <<>>
    /\ live' = Tail(live)
    /\ Sync(Dequeue)
    /\ UNCHANGED recovered

EnqueueUnsynced(v) ==
    /\ recovered /\ Room
    /\ volatile' = Append(volatile, v)
    /\ live' = Append(live, v)
    /\ UNCHANGED <<durable, recovered>>

CrashNow ==
    /\ volatile' = <<>>
    /\ live' = <<>>
    /\ recovered' = FALSE
    /\ UNCHANGED durable

\* What a record does to the contents; nothing to dequeue is ignored.
Redo(content, record) ==
    IF record # Dequeue THEN Append(content, record)
    ELSE IF content = <<>> THEN <<>> ELSE Tail(content)

\* The contents after the records of a log.
Replay(log) ==
    LET content[n \in 0..Len(log)] ==
            IF n = 0 THEN <<>> ELSE Redo(content[n - 1], log[n])
    IN  content[Len(log)]

RecoverLog ==
    /\ ~recovered \/ volatile = <<>>
    /\ live' = Replay(durable)
    /\ recovered' = TRUE
    /\ UNCHANGED <<durable, volatile>>

LogNext ==
    \/ \E v \in Values : EnqueueValue(v) \/ EnqueueUnsynced(v)
    \/ DequeueNone \/ DequeueValue \/ CrashNow \/ RecoverLog

LogSpec == LogInit /\ [][LogNext]_logVars

-----------------------------------------------------------------------------
(* What must hold.                                                         *)

Ideal == INSTANCE DurableQueue WITH
    content <- IF recovered THEN live ELSE Replay(durable),
    staged <- Len(volatile),
    up <- recovered

\* persistent.rs 29-32, 124-127, 130-133, 155-157: whenever it crashes, what
\* recovery rebuilds is the queue as its user knows it, in order, but for the
\* values at the back that were never made durable: no acknowledged value is
\* lost and none that was taken comes back.
ImplementsDurable == Ideal!DurableSpec

\* Why it holds.  Only values are staged, behind what the durable log holds.
LogInv ==
    /\ durable \in Seq(Values \cup {Dequeue})
    /\ volatile \in Seq(Values)
    /\ live \in Seq(Values)
    /\ recovered \in BOOLEAN
    /\ IF recovered THEN live = Replay(durable) \o volatile
       ELSE volatile = <<>>
==============================================================================
