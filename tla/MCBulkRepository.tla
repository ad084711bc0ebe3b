-------------------------- MODULE MCBulkRepository --------------------------
(***************************************************************************)
(* Instances of BulkRepository for TLC.                                    *)
(***************************************************************************)
EXTENDS BulkRepository

CONSTANTS k1, k2, k3, b1, b2, b3, r1, d1, s1

TwoKeys == {k1, k2}
ThreeKeys == {k1, k2, k3}

Record(k) == [key |-> k, storable |-> TRUE]
Invalid(k) == [key |-> k, storable |-> FALSE]

\* All three meet at k2; b2 names k3 twice, so its second SET NX collides with its
\* first; one record of b3 cannot be written.
Overlapping == [b \in Batches |-> CASE b = b1 -> <<Record(k1), Record(k2), Record(k3)>>
                                     [] b = b2 -> <<Record(k3), Record(k2), Record(k3)>>
                                     [] b = b3 -> <<Record(k2), Invalid(k3)>>]
\* k1 is named twice: its second SET NX collides with its first.
Repeating == [b \in Batches |-> <<Record(k1), Record(k2), Record(k1)>>]
\* Two records under two keys
Pair == [b \in Batches |-> <<Record(k1), Record(k2)>>]

AllRollBack == [b \in Batches |-> TRUE]
\* The reader names both keys, the deleter one of them.
ReadBoth == [x \in Readers \union Deleters |-> IF x = r1 THEN Keys ELSE {k2}]
Everything == [x \in Readers \union Deleters |-> Keys]
==============================================================================
