------------------------------ MODULE CallSetup ------------------------------
(***************************************************************************)
(* What surrounds the flows of Coordinator and UnreservedFlow: how the     *)
(* wrapper of async_idempotent finds the key, the coordinator and the      *)
(* fingerprint of a call, what coordinate() checks before it starts, under *)
(* which Redis key the result is stored and looked for, and with which     *)
(* TTL (core/decorators/aio/idempotent.py, core/services/domain.py).       *)
(*                                                                         *)
(* The flow itself is reduced to read, run, SET NX, or, with a reservation *)
(* (setup.reserved), to SET NX, read, run, SET.  The calls are made of one *)
(* decorated function, whose operation may differ between them as if it    *)
(* had been decorated twice.                                               *)
(***************************************************************************)
EXTENDS Identifiers, TtlPolicy

CONSTANTS
    Calls,              \* the calls
    Setups,             \* settings and calls to look at, see Made
    None,               \* Python's None
    Signature,          \* the names of the parameters that may be positional, in order
    Default,            \* Default[p]: the default of parameter p, for every parameter
    KeyParam,           \* key_param
    InfraParam,         \* infra_param
    FingerprintParams,  \* fingerprint_params, or {}
    Coordinators,       \* the values that are coordinators
    Enabled,            \* those built with enabled=True
    Attributes,         \* Attributes[v]: vars(v), the attributes of value v, in order
    Offered,            \* Offered[v]: getattr(v, infra_param, None), be it a property, a
                        \* slot or an attribute of the class; None without infra_param
    Text,               \* Text[v]: the characters of operation or key v
    Delays              \* ticks from creating a record to sending it

VARIABLES
    setup,   \* the settings and the arguments of the calls; never changes
    call,    \* call[c]: how far c has come
    stored   \* the results in Redis

vars == <<setup, call, stored>>

Outcomes == {"plain", "invalid", "in_progress", "replayed", "key_reuse", "stored", "unstored"}
Pcs == {"called", "delegated", "running"} \union Outcomes

\* An operation, a TTL and arguments: args is the sequence of the positional
\* ones, kwargs that of the others, each with its name.
Made(c) == setup.made[c]
Holding(pc) == [pc |-> pc, key |-> None, coordinator |-> None, fingerprint |-> None,
                answer |-> None]

Init == /\ setup \in {s \in Setups : AcceptsService(s.service)}
        /\ call = [c \in Calls |-> Holding("called")]
        /\ stored = {}

------------------------------------------------------------------------------
(***************************************************************************)
(* The wrapper: _resolve_key, _resolve_coordinator, _fingerprint_resolver  *)
(***************************************************************************)
\* pairs is a sequence of names with their values, as of a dict.
Named(pairs, name) == SelectInSeq(pairs, LAMBDA pair : pair.name = name)
ValueOf(pairs, name, otherwise) ==
    IF Named(pairs, name) = 0 THEN otherwise ELSE pairs[Named(pairs, name)].value
Values(pairs) == [i \in DOMAIN pairs |-> pairs[i].value]

\* Where a parameter can arrive positionally, or 0 (_positional_index).
Position(name) == SelectInSeq(Signature, LAMBDA param : param = name)
PassedByPosition(made, name) == Position(name) \in DOMAIN made.args

\* The value an argument is passed with, or otherwise.
Passed(made, param, otherwise) ==
    ValueOf(made.kwargs, param,
            IF PassedByPosition(made, param) THEN made.args[Position(param)] ELSE otherwise)

\* faulty: the positional arguments are not looked at
ResolvedKeyByName(made) == ValueOf(made.kwargs, KeyParam, None)
\* _resolve_key: the default of the parameter does not count
ResolvedKey(made) == Passed(made, KeyParam, None)

FirstCoordinator(values) ==
    LET at == SelectInSeq(values, LAMBDA v : v \in Coordinators)
    IN  IF at = 0 THEN None ELSE values[at]

\* By name: a keyword argument, then an attribute of the first argument.
NamedCoordinator(made) ==
    LET passed == ValueOf(made.kwargs, InfraParam, None)
    IN  IF passed = None /\ made.args # <<>>
            THEN Offered[made.args[1]]
            ELSE passed
\* By type: a positional argument, or else one of its attributes.
Carried(arg) ==
    IF arg \in Coordinators THEN arg ELSE FirstCoordinator(Values(Attributes[arg]))
Searched(made) ==
    LET at == SelectInSeq(made.args, LAMBDA arg : Carried(arg) # None)
    IN  IF at = 0 THEN None ELSE Carried(made.args[at])
\* _resolve_coordinator
OrElse(found, next) == IF found # None THEN found ELSE next
ResolvedCoordinator(made) ==
    OrElse(NamedCoordinator(made),
           OrElse(FirstCoordinator(Values(made.kwargs)), Searched(made)))

\* signature.bind and apply_defaults
Bound(made, param) == Passed(made, param, Default[param])
\* faulty: what is left at its default is hashed as None
FingerprintAsPassed(made) ==
    IF FingerprintParams = {} THEN None
                              ELSE [p \in FingerprintParams |-> Passed(made, p, None)]
\* fingerprint_of hashes the values by name: equal for equal values only.
FingerprintOf(made) ==
    IF FingerprintParams = {} THEN None ELSE [p \in FingerprintParams |-> Bound(made, p)]

\* Arguments and attributes are values with attributes of their own.
NamedValues == Seq([name : STRING, value : DOMAIN Attributes])

\* The operation and the key of a call are texts, what is named as a coordinator
\* is one, the key is optional, and a fingerprint is not None.
ASSUME CallSetupAssumption ==
    /\ None \notin Calls \union Coordinators
    /\ \A v \in DOMAIN Attributes : Attributes[v] \in NamedValues
    /\ DOMAIN Offered = DOMAIN Attributes
    /\ \A v \in DOMAIN Text : Text[v] \in Seq(Characters)
    /\ Delays \subseteq Nat
    /\ Default[KeyParam] = None
    /\ \A s \in Setups : s.service \in Services /\ s.reserved \in BOOLEAN
    /\ \A s \in Setups, c \in Calls :
          LET made == s.made[c]
          IN  /\ made.args \in Seq(DOMAIN Attributes) /\ made.kwargs \in NamedValues
              /\ made.operation \in DOMAIN Text
              /\ ResolvedKey(made) \in DOMAIN Text \union {None}
              /\ ResolvedCoordinator(made) \in Coordinators \union {None}
              /\ FingerprintParams # {} => FingerprintOf(made) # None
              /\ {s.operationTtls[made.operation], made.ttl} \subseteq Int \union {NoTtl}

Goes(c, pc) == call' = [call EXCEPT ![c].pc = pc]

Unkeyed(c) ==
    /\ call[c].pc = "called"
    /\ ResolvedKey(Made(c)) = None
    /\ Goes(c, "plain")
    /\ UNCHANGED <<setup, stored>>

\* Logged, and run without idempotency.
Unattended(c) ==
    /\ call[c].pc = "called"
    /\ ResolvedKey(Made(c)) # None /\ ResolvedCoordinator(Made(c)) = None
    /\ Goes(c, "plain")
    /\ UNCHANGED <<setup, stored>>

Delegates(c) ==
    /\ call[c].pc = "called"
    /\ ResolvedKey(Made(c)) # None /\ ResolvedCoordinator(Made(c)) # None
    /\ call' = [call EXCEPT ![c] = [pc |-> "delegated", answer |-> None,
                                    key |-> ResolvedKey(Made(c)),
                                    coordinator |-> ResolvedCoordinator(Made(c)),
                                    fingerprint |-> FingerprintOf(Made(c))]]
    /\ UNCHANGED <<setup, stored>>

------------------------------------------------------------------------------
(***************************************************************************)
(* coordinate()                                                            *)
(***************************************************************************)
PassesThrough(c) ==
    /\ call[c].pc = "delegated"
    /\ call[c].coordinator \notin Enabled
    /\ Goes(c, "plain")
    /\ UNCHANGED <<setup, stored>>

Attended(c) == call[c].pc = "delegated" /\ call[c].coordinator \in Enabled
OperationText(c) == Text[Made(c).operation]
KeyText(c) == Text[call[c].key]
Valid(c) == ValidIdentifiers(OperationText(c), KeyText(c))

Refuses(c) ==
    /\ Attended(c) /\ ~Valid(c)
    /\ Goes(c, "invalid")
    /\ UNCHANGED <<setup, stored>>

\* The pending records of the calls that run their action (_try_reserve).
Reservations ==
    {[key |-> WriteKey(OperationText(c), KeyText(c)), by |-> c,
      fingerprint |-> call[c].fingerprint] :
        c \in {d \in Calls : setup.reserved /\ call[d].pc = "running"}}
Under(key) == {record \in stored \union Reservations : record.key = key}
Disagree(theirs, ours) == theirs # None /\ ours # None /\ theirs # ours

\* SET NX of the reservation goes through.
Reserves(c) ==
    /\ Attended(c) /\ Valid(c) /\ setup.reserved
    /\ Under(WriteKey(OperationText(c), KeyText(c))) = {}
    /\ Goes(c, "running")
    /\ UNCHANGED <<setup, stored>>

FindsNothing(c) ==
    /\ Attended(c) /\ Valid(c) /\ ~setup.reserved
    /\ Under(ReadKey(OperationText(c), KeyText(c))) = {}
    /\ Goes(c, "running")
    /\ UNCHANGED <<setup, stored>>

Finds(c, record) ==
    /\ Attended(c) /\ Valid(c)
    /\ record \in Under(ReadKey(OperationText(c), KeyText(c)))
Agrees(c, record) == ~Disagree(record.fingerprint, call[c].fingerprint)

\* SET NX collides, and what get() finds, at once or until the deadline, is another
\* call's reservation, or nothing, as for a key with padding.
FindsTaken(c) ==
    /\ Attended(c) /\ Valid(c) /\ setup.reserved
    /\ Under(WriteKey(OperationText(c), KeyText(c))) # {}
    /\ \A record \in Under(ReadKey(OperationText(c), KeyText(c))) :
          record \notin stored /\ Agrees(c, record)
    /\ Goes(c, "in_progress")
    /\ UNCHANGED <<setup, stored>>

Replays(c) == \E result \in stored :
    /\ Finds(c, result) /\ Agrees(c, result)
    /\ call' = [call EXCEPT ![c].pc = "replayed", ![c].answer = result.by]
    /\ UNCHANGED <<setup, stored>>

\* The fingerprint of a reservation is compared too.
RefusesReuse(c) == \E record \in stored \union Reservations :
    /\ Finds(c, record) /\ ~Agrees(c, record)
    /\ call' = [call EXCEPT ![c].pc = "key_reuse", ![c].answer = record.by]
    /\ UNCHANGED <<setup, stored>>

Minutes(c) == ResolvedMinutes(setup.operationTtls[Made(c).operation], Made(c).ttl)
Seconds(c) == ResultSeconds(setup.service, Minutes(c))

\* The action returns and its result is written, `late` ticks after its record was
\* made: over the reservation, or else with SET NX, so that of two results the
\* first one stays.
Stores(c, late) ==
    /\ call[c].pc = "running"
    /\ AcceptsTtl(setup.service, Seconds(c)) /\ Writable(Seconds(c), late)
    /\ LET key == WriteKey(OperationText(c), KeyText(c))
           result == [key |-> key, by |-> c, fingerprint |-> call[c].fingerprint,
                      ex |-> ExSeconds(Seconds(c), late),
                      left |-> Remaining(Seconds(c), late)]
       IN  stored' = IF ~setup.reserved /\ Under(key) # {} THEN stored
                     ELSE (stored \ Under(key)) \union {result}
    /\ Goes(c, "stored")
    /\ UNCHANGED setup

\* create_record or _prepare_write rejects the record; the result is returned.
CannotStore(c, late) ==
    /\ call[c].pc = "running"
    /\ ~(AcceptsTtl(setup.service, Seconds(c)) /\ Writable(Seconds(c), late))
    /\ Goes(c, "unstored")
    /\ UNCHANGED <<setup, stored>>

Next == \E c \in Calls :
    \/ Unkeyed(c) \/ Unattended(c) \/ Delegates(c) \/ PassesThrough(c) \/ Refuses(c)
    \/ Reserves(c) \/ FindsNothing(c) \/ FindsTaken(c) \/ Replays(c) \/ RefusesReuse(c)
    \/ \E late \in Delays : Stores(c, late) \/ CannotStore(c, late)

Spec == Init /\ [][Next]_vars

------------------------------------------------------------------------------
(***************************************************************************)
(* Properties                                                              *)
(***************************************************************************)
SameTarget(c, d) ==
    /\ Strip(OperationText(c)) = Strip(OperationText(d))
    /\ Strip(KeyText(c)) = Strip(KeyText(d))
SameArguments(c, d) ==
    \A p \in FingerprintParams : Bound(Made(c), p) = Bound(Made(d), p)

\* What a call goes on with is made of its arguments, and nothing is put into
\* Redis that would not live there for a while (wrapper, _prepare_write).
Fingerprints == {FingerprintOf(Made(c)) : c \in Calls} \union {None}
TypeOK ==
    /\ call \in [Calls -> [pc : Pcs, key : DOMAIN Text \union {None},
                           coordinator : Coordinators \union {None},
                           fingerprint : Fingerprints, answer : Calls \union {None}]]
    /\ \A result \in stored : result.by \in Calls /\ result.ex > 0 /\ result.left > 0

\* A call is only ever given, or refused because of, a result stored for the same
\* operation and the same key, blanks aside: no two pairs of identifiers meet in
\* one Redis key (validate_no_colon, _make_key).
OwnKeyOnly ==
    \A c \in Calls : call[c].answer # None => SameTarget(c, call[c].answer)

\* Two calls are one request exactly when the parameters of the fingerprint are
\* bound to the same values, however they were passed or left at their defaults:
\* one that is refused for reuse differs, one that replays does not.
SameRequest ==
    \A c \in Calls :
        /\ call[c].pc = "replayed" => SameArguments(c, call[c].answer)
        /\ call[c].pc = "key_reuse" => ~SameArguments(c, call[c].answer)

\* Whoever gives a key runs unprotected only where there is no coordinator in
\* reach of the wrapper, or one that is switched off; a key that cannot be used
\* is an error (wrapper, coordinate).
InReach(made) ==
    ({made.kwargs[i].value : i \in DOMAIN made.kwargs}
     \union {made.args[i] : i \in DOMAIN made.args}
     \union {Offered[made.args[i]] : i \in DOMAIN made.args \intersect {1}}
     \union UNION {{Attributes[made.args[i]][j].value : j \in DOMAIN Attributes[made.args[i]]}
                      : i \in DOMAIN made.args})
    \intersect Coordinators
ProtectedIfPossible ==
    \A c \in Calls : call[c].pc = "plain" =>
        \/ Bound(Made(c), KeyParam) = None
        \/ InReach(Made(c)) = {}
        \/ ~(InReach(Made(c)) \subseteq Enabled)

\* Once a result is stored for it, a retry with no padding is given it, not run
\* again and not refused as in progress; one with padding is never run again where
\* calls reserve (get() uses the identifiers as given, save() has them stripped).
RetriesFindTheResult ==
    [][\A c \in Calls :
          LET stands == \E result \in stored : SameTarget(c, result.by)
          IN  /\ Reserves(c) => ~stands
              /\ FindsNothing(c) \/ FindsTaken(c) =>
                    ~stands \/ IsPadded(OperationText(c)) \/ IsPadded(KeyText(c))]_vars

\* Only a TTL somebody asked for, or a delay of this call as long as its TTL, keeps
\* a result from being stored: the default is always within the bounds.
DefaultIsStorable ==
    [][\A c \in Calls, late \in Delays : CannotStore(c, late) =>
          \/ Minutes(c) # NoTtl
          \/ late >= 60 * setup.service.default * TicksPerSecond]_vars

\* A stored result lives as long as was asked for, down to the minute, but never
\* outside the bounds; and the key outlives the record by less than a second.
TtlHonoured ==
    \A result \in stored :
        LET asked == EffectiveTtl(setup.operationTtls[Made(result.by).operation],
                                  Made(result.by).ttl)
        IN  /\ Seconds(result.by) \in setup.service.min..setup.service.max
            /\ asked # NoTtl /\ asked >= 60 =>
                  Seconds(result.by) <= asked /\ asked < Seconds(result.by) + 60
            /\ result.ex * TicksPerSecond >= result.left
            /\ (result.ex - 1) * TicksPerSecond < result.left
=============================================================================
