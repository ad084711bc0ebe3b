----------------------------- MODULE Identifiers -----------------------------
(***************************************************************************)
(* Operation names and idempotency keys, and the Redis key made of them:   *)
(* core/models/entities.py and infra/storage/redis/aio/repository.py.  A   *)
(* text is a sequence of characters; of these only the blank and the colon *)
(* matter.                                                                 *)
(***************************************************************************)
EXTENDS Integers, Sequences, SequencesExt

CONSTANTS Characters, Blank, Colon,
          MaxOperationLength, MaxKeyLength

ASSUME IdentifiersAssumption ==
    /\ Blank \in Characters /\ Colon \in Characters /\ Blank # Colon
    /\ MaxOperationLength \in Nat \ {0} /\ MaxKeyLength \in Nat \ {0}

\* StringConstraints(strip_whitespace=True)
Strip(text) ==
    LET first == SelectInSeq(text, LAMBDA char : char # Blank)
        last  == SelectLastInSeq(text, LAMBDA char : char # Blank)
    IN  IF first = 0 THEN <<>> ELSE SubSeq(text, first, last)

IsPadded(text) == Strip(text) # text

ColonFree(text) == \A i \in DOMAIN text : text[i] # Colon

\* faulty: validate_no_colon is not applied
FitsAnyText(text, limit) == Len(Strip(text)) \in 1..limit
\* The constraints of one field of IdempotencyIdentifiers, on the stripped text.
Fits(text, limit) == Len(Strip(text)) \in 1..limit /\ ColonFree(Strip(text))

ValidIdentifiers(operation, key) ==
    Fits(operation, MaxOperationLength) /\ Fits(key, MaxKeyLength)

\* _make_key; the prefix is the same for every key.
RedisKey(operation, key) == operation \o <<Colon>> \o key
\* save() and replace() take the identifiers from the record, which has them stripped.
WriteKey(operation, key) == RedisKey(Strip(operation), Strip(key))
\* faulty: get() puts the key before the operation
ReadKeySwapped(operation, key) == RedisKey(key, operation)
\* get() and delete() take them as they were given.
ReadKey(operation, key) == RedisKey(operation, key)
=============================================================================
