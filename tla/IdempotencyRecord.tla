-------------------------- MODULE IdempotencyRecord --------------------------
(***************************************************************************)
(* The record a key holds and the Redis commands the repository sends for  *)
(* it: core/models/entities.py, core/services/domain.py and                *)
(* infra/storage/redis/aio/repository.py of idempotency-kit.               *)
(*                                                                         *)
(* One key is modelled.  A record carries two clocks, both counted in      *)
(* ticks that are left: exp is expires_at, which the caller computes when  *)
(* it builds the record, and ttl is the EX of the Redis key, which starts  *)
(* when the SET lands.  A SET that took `age` ticks to land therefore      *)
(* leaves a record whose exp runs out `age` ticks before its ttl does: the *)
(* "TTL mismatch" the repository's get() cleans up after.                  *)
(***************************************************************************)
EXTENDS Integers

\* PENDING is a reservation, COMPLETED a stored result, "corrupt" bytes that
\* _deserialize_record cannot turn into a record.
Statuses == {"absent", "pending", "completed", "corrupt"}

\* faulty: not held at zero
MinusBelowZero(n, k) == n - k
\* What is left of n ticks after k more, never below zero.
Minus(n, k) == IF n > k THEN n - k ELSE 0

\* The empty key; nobody is its author, `nobody` only keeps the shape.
Absent(nobody) == [status |-> "absent", by |-> nobody, exp |-> 0, ttl |-> 0]

\* faulty: the SET carries no EX
WrittenForGood(status, author, life, age) ==
    [status |-> status, by |-> author, exp |-> Minus(life, age), ttl |-> 0]
\* IdempotencyRecord.create / .pending as it sits in Redis after a
\* SET ... EX that landed `age` ticks after the record was built.
Written(status, author, life, age) ==
    [status |-> status, by |-> author, exp |-> Minus(life, age), ttl |-> life]

\* IdempotencyRecord.is_expired
IsExpired(rec) == rec.exp = 0

\* SET key data EX ttl NX
SetNX(key, rec) == IF key.status = "absent" THEN rec ELSE key

\* One tick of the Redis clock: a key whose EX runs out is gone; one without
\* an EX (ttl = 0) stays.
Elapse(key, nobody) ==
    IF key.ttl = 1
        THEN Absent(nobody)
        ELSE [key EXCEPT !.exp = Minus(@, 1), !.ttl = Minus(@, 1)]

\* IdempotencyKeyReuseError: both sides carry a fingerprint and they differ
Reuse(theirs, ours, none) == theirs # none /\ ours # none /\ theirs # ours
=============================================================================
