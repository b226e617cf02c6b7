----------------------------- MODULE DurableQueue -----------------------------
(***************************************************************************)
(* What a crash-recoverable FIFO queue promises (src/src/persistent.rs     *)
(* 24-32): a crash takes at most the values at the back that were put      *)
(* without being made durable, and an operation that makes its own effect  *)
(* durable does so for all before it.                                      *)
(***************************************************************************)
EXTENDS Naturals, Sequences, SequencesExt

CONSTANTS Values

VARIABLES
    content,  \* the values in the queue, oldest first
    staged,   \* how many at the back are not yet durable
    up        \* no crash since the last recovery

durableVars == <<content, staged, up>>

DurableInit == content = <<>> /\ staged = 0 /\ up = TRUE

Put(v) == up /\ content' = Append(content, v) /\ staged' = 0 /\ UNCHANGED up

PutStaged(v) ==
    up /\ content' = Append(content, v) /\ staged' = staged + 1 /\ UNCHANGED up

Take ==
    /\ up /\ content # <<>>
    /\ content' = Tail(content)
    /\ staged' = 0
    /\ UNCHANGED up

Crash ==
    /\ content' = SubSeq(content, 1, Len(content) - staged)
    /\ staged' = 0
    /\ up' = FALSE

Recover == up' = TRUE /\ UNCHANGED <<content, staged>>

DurableNext ==
    \/ \E v \in Values : Put(v) \/ PutStaged(v)
    \/ Take \/ Crash \/ Recover

DurableSpec == DurableInit /\ [][DurableNext]_durableVars
==============================================================================
