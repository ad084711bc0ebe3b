------------------------------ MODULE OneResult ------------------------------
(***************************************************************************)
(* What the flow without a reservation promises for one key while storage  *)
(* is up: any number of actions may run, but the first result to be        *)
(* written is the result of the key, and whoever is told a result is told  *)
(* that one.                                                               *)
(***************************************************************************)
CONSTANTS Callers,  \* the calls made under the key
          Earlier,  \* the author of a result stored before them
          Nobody    \* neither of these

VARIABLES result,   \* whose result the key holds, or Nobody
          told      \* told[c]: "nothing", "no result", or whose result

vars == <<result, told>>

Init == /\ result \in {Nobody, Earlier}
        /\ told = [c \in Callers |-> "nothing"]

\* c's result is written; c itself is told now, or never if it has given up.
Write(c) == /\ result = Nobody
            /\ result' = c
            /\ \/ told[c] = "nothing" /\ told' = [told EXCEPT ![c] = c]
               \/ UNCHANGED told

Answer(c) == /\ told[c] = "nothing" /\ result # Nobody
             /\ told' = [told EXCEPT ![c] = result]
             /\ UNCHANGED result

\* The action failed, or the call was cancelled or lost.
Fail(c) == /\ told[c] = "nothing"
           /\ told' = [told EXCEPT ![c] = "no result"]
           /\ UNCHANGED result

Next == \E c \in Callers : Write(c) \/ Answer(c) \/ Fail(c)

Spec == Init /\ [][Next]_vars
==============================================================================
