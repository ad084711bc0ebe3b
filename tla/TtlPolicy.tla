------------------------------ MODULE TtlPolicy ------------------------------
(***************************************************************************)
(* How long a result is kept: _resolve_ttl_minutes of the coordinator,     *)
(* __init__ and create_record of the domain service, and the EX that       *)
(* _prepare_write of the repository gives the key.                         *)
(***************************************************************************)
EXTENDS Integers

CONSTANTS NoTtl,            \* a TTL that is not given
          TicksPerSecond    \* the resolution of the clock

ASSUME TtlAssumption == NoTtl \notin Int /\ TicksPerSecond \in Nat \ {0}

\* The TTL settings of an IdempotencyDomainService.
Services == [default : Int, min : Int, max : Int]

\* faulty: the default TTL is not held against the bounds
AcceptsAnyDefault(service) == service.default >= 1 /\ service.min \in 1..service.max
\* IdempotencyDomainService.__init__
AcceptsService(service) == /\ service.default >= 1
                           /\ service.min >= 1 /\ service.max >= service.min
                           /\ 60 * service.default \in service.min..service.max

\* operation_ttls.get(operation) or ttl_seconds: a zero counts as not given
EffectiveTtl(operationTtl, ttl) == IF operationTtl \in {NoTtl, 0} THEN ttl ELSE operationTtl

AtLeastOne(minutes) == IF minutes < 1 THEN 1 ELSE minutes
\* faulty: rounds up to whole minutes
ResolvedMinutesUp(operationTtl, ttl) ==
    LET effective == EffectiveTtl(operationTtl, ttl)
    IN  IF effective = NoTtl THEN NoTtl ELSE AtLeastOne((effective + 59) \div 60)
\* _resolve_ttl_minutes: whole minutes, one at least
ResolvedMinutes(operationTtl, ttl) ==
    LET effective == EffectiveTtl(operationTtl, ttl)
    IN  IF effective = NoTtl THEN NoTtl ELSE AtLeastOne(effective \div 60)

\* create_record: the TTL of the record in seconds, and whether it is accepted
ResultSeconds(service, minutes) == 60 * (IF minutes = NoTtl THEN service.default ELSE minutes)
AcceptsTtl(service, seconds) == seconds \in service.min..service.max

\* math.ceil(record.ttl_seconds), `late` ticks after the record was created
Remaining(seconds, late) == seconds * TicksPerSecond - late
ExSeconds(seconds, late) == (Remaining(seconds, late) + TicksPerSecond - 1) \div TicksPerSecond
\* faulty: a record that has expired is written all the same
WritableAlways(seconds, late) == TRUE
\* _prepare_write rejects a record that has expired.
Writable(seconds, late) == Remaining(seconds, late) > 0
=============================================================================
