-------------------------------- MODULE Inbox --------------------------------
(***************************************************************************)
(* The specification of a multi-producer single-consumer queue: CellQueue  *)
(* as a state machine.  Values are numbered in the order of their claims.  *)
(***************************************************************************)
EXTENDS CellQueue

CONSTANT MaxClaims   \* how many values there can be

VARIABLES
    cells,      \* claimed and not yet taken, oldest first
    claims,     \* how many cells have been claimed
    delivered,  \* what the consumer has got, in order
    closed      \* the queue is gone

inboxVars == <<cells, claims, delivered, closed>>

InboxInit ==
    /\ cells = <<>>
    /\ claims = 0
    /\ delivered = <<>>
    /\ closed = FALSE

InboxClaim ==
    /\ ~closed
    /\ claims < MaxClaims
    /\ cells' = Claimed(cells, claims + 1)
    /\ claims' = claims + 1
    /\ UNCHANGED <<delivered, closed>>

InboxFill(v) ==
    /\ \E i \in DOMAIN cells : cells[i] = [task |-> v, filled |-> FALSE]
    /\ cells' = Filled(cells, v)
    /\ UNCHANGED <<claims, delivered, closed>>

InboxTake ==
    /\ Ready(cells)
    /\ delivered' = Append(delivered, Head(cells).task)
    /\ cells' = Tail(cells)
    /\ UNCHANGED <<claims, closed>>

\* The last handle is dropped, and what was not taken with it.
InboxClose ==
    /\ \A i \in DOMAIN cells : cells[i].filled
    /\ closed' = TRUE
    /\ cells' = <<>>
    /\ UNCHANGED <<claims, delivered>>

InboxNext ==
    \/ InboxClaim \/ InboxTake \/ InboxClose
    \/ \E v \in 1..MaxClaims : InboxFill(v)

InboxSpec == InboxInit /\ [][InboxNext]_inboxVars
==============================================================================
