-------------------------------- MODULE MCBwos --------------------------------
(***************************************************************************)
(* Instances of Bwos and BwosUnbounded for TLC.  The two queues share the  *)
(* actions within a block; the first state says which of the two it is.    *)
(***************************************************************************)
EXTENDS BwosUnbounded

CONSTANTS t1

VARIABLES unbounded

allVars == <<unbounded, unboundedVars>>

InRow == ~unbounded /\ UNCHANGED <<unbounded, linkVars>>
InList == unbounded /\ UNCHANGED unbounded

AnyPut == (InRow /\ Put) \/ (InList /\ PutLinked)
AnyPop == (InRow /\ Pop) \/ (InList /\ PopLinked)
AnySteal(p) == (InRow /\ Steal(p)) \/ (InList /\ StealLinked(p))

AnyInit == Init /\ LinksInit /\ unbounded \in BOOLEAN
AnyNext == (InRow /\ Next) \/ (InList /\ NextLinked)

\* An operation that has begun goes on; thief t1 is diligent, the other not.
LiveSpec == /\ AnyInit /\ [][AnyNext]_allVars
            /\ WF_allVars(AnyPut /\ pc[Owner] # "idle")
            /\ WF_allVars(AnyPop /\ pc[Owner] # "idle")
            /\ WF_allVars(AnySteal(t1))

-----------------------------------------------------------------------------
\* The unbounded queue loses no block with a value (BwosUnbounded.InTheList).
ListKept == unbounded => InTheList

\* The value is where thief t1 will not look: the unbounded queue's cursor has
\* left the block behind (see AtOrBehindFront).
OutOfReach(k) ==
    unbounded /\ \A blk \in From(cursor[t1]) : k \notin ValuesIn(blk)

\* A thief that keeps stealing gets at every value that is not buried and not
\* out of its reach, while the owner finishes the operations it begins and the
\* other thief may stall.  Only finitely many values are put, so that there is
\* always a time to come at which none is left.
Drained == []<>(\A k \in DOMAIN recipients :
                   recipients[k] # <<>> \/ k \in buried \/ OutOfReach(k))
==============================================================================
