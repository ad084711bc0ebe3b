----------------------------- MODULE CallMetrics -----------------------------
(***************************************************************************)
(* What a call with a reservation records about itself: the calls of       *)
(* _claim, _try_reserve and _try_get_cached to the metrics collector, as a *)
(* history over the steps of Coordinator.  The errors recorded once the    *)
(* action has started are left out.                                        *)
(***************************************************************************)
EXTENDS Coordinator

VARIABLE tally   \* tally[c]: what the call of c has recorded, once or more

measured == <<store, call, ren, wire, tally>>

Kinds == {"hit", "miss", "collision", "error"}

MeasuredInit == Init /\ tally = [c \in Callers |-> {}]

Counts(c, kinds) == tally' = [tally EXCEPT ![c] = @ \union kinds]

\* `read` of _claim: a read has come back and left a miss or a collision.
HasLooked(c) == tally[c] \intersect {"miss", "collision"} # {}
\* faulty: only reads record misses
OnReservationNothing(c) == {}
\* A reservation is a miss, unless a read came before it.
OnReservation(c) == IF HasLooked(c) THEN {} ELSE {"miss"}
\* faulty: a record under the key is a hit
OnUnusableHit(c) == IF call[c].seen.status = "corrupt" THEN {"error"} ELSE {"hit"}
\* Bytes that are no record fail the read; a result that cannot be decoded is a miss.
OnUnusable(c) == IF call[c].seen.status = "corrupt" THEN {"error"} ELSE {"miss"}

RecordingStep(c) ==
    \/ ReserveWins(c) /\ Counts(c, OnReservation(c))
    \/ /\ FindsNothing(c) \/ FindsLapsed(c) \/ Purge(c) \/ PurgeFails(c)
       /\ Counts(c, {"miss"})
    \/ FindsPending(c) /\ Counts(c, {"collision"})
    \/ FindsResult(c) /\ Counts(c, {"hit"})
    \/ FindsUnusable(c) /\ Counts(c, OnUnusable(c))
    \/ /\ ReserveFails(c) \/ ReserveRejected(c) \/ ReadFails(c) \/ RefusesReuse(c)
       /\ Counts(c, {"error"})

SilentStep(c) ==
    \/ Call(c) \/ ReserveCollides(c) \/ ReadStore(c) \/ FindsExpired(c) \/ Wake(c)
    \/ CancelClaim(c) \/ FinishAction(c) \/ ActionFails(c) \/ CancelAction(c)
    \/ JoinReturns(c) \/ CompleteSet(c) \/ CompleteFails(c) \/ Unstorable(c)
    \/ Release(c) \/ ReleaseFails(c) \/ CancelJoin(c) \/ CancelCleanup(c)
    \/ ServeRenewal(c) \/ RenewFails(c) \/ Crash(c)

MeasuredNext ==
    \/ \E c \in Callers : RecordingStep(c)
    \/ /\ \/ \E c \in Callers : SilentStep(c)
          \/ \E cmd \in wire : Land(cmd)
          \/ DirectSave \/ DirectDelete
          \/ Tick
       /\ UNCHANGED tally

MeasuredSpec == MeasuredInit /\ [][MeasuredNext]_measured

------------------------------------------------------------------------------
\* A hit is recorded by the calls that are told a stored result and by no other:
\* never by one that goes on to run its action (_try_get_cached).
HitsAreReplays ==
    \A c \in Callers : /\ "hit" \in tally[c] => call[c].fate = "value"
                       /\ call[c].fate = "value" =>
                             ("hit" \in tally[c] <=> call[c].ran = "no")

\* No call that got through its claim is missing from the metrics: it has
\* recorded a hit, a miss or an error, or the collision of one that waited and
\* then took the key over (_claim's `read`).
NoCallUncounted ==
    \A c \in Callers :
        \/ call[c].pc \notin ClaimPcs \union {"idle", "crashed"} /\ call[c].fate # "cancelled"
        \/ call[c].ran # "no"
        => tally[c] # {}
=============================================================================
