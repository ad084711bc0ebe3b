---------------------------- MODULE MCCoordinator ----------------------------
(***************************************************************************)
(* Instances of Coordinator for TLC.                                       *)
(***************************************************************************)
EXTENDS Coordinator, TLC

CONSTANTS a, b, c3, f1, f2

TwoCallers == {a, b}
ThreeCallers == {a, b, c3}

\* Every caller in the same mode
AllWait == [c \in Callers |-> "wait"]
AllRun == [c \in Callers |-> "run"]
AllRaise == [c \in Callers |-> "raise"]
\* a waits, everyone else is refused at once
OnlyAWaits == [c \in Callers |-> IF c = a THEN "wait" ELSE "raise"]
OnlyARuns == [c \in Callers |-> IF c = a THEN "run" ELSE "raise"]

\* Nobody gives a fingerprint
NoFingerprints == [x \in Authors |-> NoFingerprint]
\* a and the record left under the key belong to two requests; b does not say
TwoRequests == [x \in Authors |-> CASE x = a -> f1
                                    [] x = Earlier -> f2
                                    [] OTHER -> NoFingerprint]

Symmetry == Permutations(Callers)
==============================================================================
