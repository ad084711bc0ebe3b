-------------------------- MODULE MCUnreservedFlow --------------------------
(***************************************************************************)
(* Instances of UnreservedFlow for TLC.                                    *)
(***************************************************************************)
EXTENDS UnreservedFlow, TLC

CONSTANTS a, b, c3, f1, f2

ThreeCallers == {a, b, c3}

AllRun == [c \in Callers |-> "run"]
OnlyARuns == [c \in Callers |-> IF c = a THEN "run" ELSE "raise"]

\* Nobody gives a fingerprint
NoFingerprints == [x \in Authors |-> NoFingerprint]
\* a and the stored result belong to one request, b to another
TwoRequests == [x \in Authors |-> CASE x = a \/ x = Earlier -> f1
                                    [] x = b -> f2
                                    [] OTHER -> NoFingerprint]

Symmetry == Permutations(Callers)
==============================================================================
