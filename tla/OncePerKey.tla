------------------------------ MODULE OncePerKey ------------------------------
(***************************************************************************)
(* What the coordinator promises for one key while storage is up and       *)
(* owners keep renewing: one call at a time runs its action, the first     *)
(* result to be stored is the result of the key for good, and every call   *)
(* is told that result, its own failure, or that it is refused.            *)
(***************************************************************************)
CONSTANTS Callers,  \* the calls made under the key
          Earlier,  \* the author of a result stored before them
          Nobody    \* neither of these

VARIABLES holder,   \* the call that runs its action, or Nobody
          result,   \* whose result the key holds, or Nobody
          told      \* told[c]: "nothing", "failed", "refused", or whose result

vars == <<holder, result, told>>

Init == /\ holder = Nobody
        /\ result \in {Nobody, Earlier}
        /\ told = [c \in Callers |-> "nothing"]

Tell(c, outcome) == told' = [told EXCEPT ![c] = outcome]

\* Only a key nobody holds and without a result can be taken.
Take(c) == /\ told[c] = "nothing" /\ holder = Nobody /\ result = Nobody
           /\ holder' = c
           /\ UNCHANGED <<result, told>>

\* The holder's result becomes the result of the key.
Finish(c) == /\ holder = c
             /\ holder' = Nobody /\ result' = c
             /\ Tell(c, c)

\* The holder's action failed or was cancelled: a retry may take the key.
Abandon(c) == /\ holder = c
              /\ holder' = Nobody
              /\ Tell(c, "failed")
              /\ UNCHANGED result

\* A call that did not run is given the stored result.
Answer(c) == /\ told[c] = "nothing" /\ holder # c /\ result # Nobody
             /\ Tell(c, result)
             /\ UNCHANGED <<holder, result>>

\* A call that did not run is refused: in flight, or another request's key.
Refuse(c) == /\ told[c] = "nothing" /\ holder # c
             /\ Tell(c, "refused")
             /\ UNCHANGED <<holder, result>>

Next == \E c \in Callers : Take(c) \/ Finish(c) \/ Abandon(c) \/ Answer(c) \/ Refuse(c)

Spec == Init /\ [][Next]_vars

------------------------------------------------------------------------------
\* The holder crashes, or the store does not take its result, which the call
\* itself returns all the same.
Lose(c) == /\ holder = c
           /\ holder' = Nobody
           /\ Tell(c, c) \/ UNCHANGED told
           /\ UNCHANGED result

\* A call that did not run is cancelled.
GiveUp(c) == /\ told[c] = "nothing" /\ holder # c
             /\ Tell(c, "failed")
             /\ UNCHANGED <<holder, result>>

\* The result of the key expires.
Forget == result # Nobody /\ result' = Nobody /\ UNCHANGED <<holder, told>>

LossyNext == Next \/ (\E c \in Callers : Lose(c) \/ GiveUp(c)) \/ Forget

\* What is left of it when the store may fail and callers crash: still one call
\* at a time, still one result for as long as it is kept.
LossySpec == Init /\ [][LossyNext]_vars
==============================================================================
