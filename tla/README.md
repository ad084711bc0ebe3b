# A TLA+ verification of idempotency-kit

idempotency-kit runs an asynchronous action at most once at a time per
idempotency key, stores its result in Redis and replays it to the calls that
come later. This directory models the part of it that is hard to test: what
several callers, their renewal tasks, a store that fails and a clock do to one
key. The modules are checked with TLC on small instances; the results that
matter most are proved with TLAPS for every value of the constants.

Paths are relative to the repository; `coordinator.py` is
`idempotency_kit/core/services/aio/coordinator.py`, `repository.py` is
`idempotency_kit/infra/storage/redis/aio/repository.py`, `idempotent.py` is
`idempotency_kit/core/decorators/aio/idempotent.py`.

## 1. The system

| Component | State it keeps | Operations |
|---|---|---|
| Coordinator, reserved flow (`in_flight` = `wait`, `raise`) | per call: where the coroutine stands, its deadline, the record it read, the result of its action; per reservation: a renewal task and its stop event | `coordinate`, `_claim`, `_try_reserve`, `_try_get_cached`, `_renewing`, `_renew`, `_try_complete`, `_try_release` |
| Coordinator, unreserved flow (`in_flight` = `run`) | per call: its result | `_coordinate_unreserved`, `_try_save_result`, `_handle_collision` |
| Record and domain service | none; a record carries a status, a result, a fingerprint and `expires_at` | `create_record`, `create_pending_record`, `validate_record`, the TTL bounds |
| Redis repository, single key | Redis: per key a record and the `EX` of the key | `get` (GET, and DEL of an expired record), `save` (SET NX EX), `replace` (SET EX), `delete` (DEL) |
| Redis repository, bulk | as above | `get_many` (MGET, then DEL), `save_many` (pipeline of SET NX, then rollback), `delete_many` |
| Decorator | none | finds the key, the coordinator and the fingerprint of a call in its arguments, calls `coordinate` or runs the function unprotected |
| Metrics | counters | hit, miss, collision, error, latency |
| Adapters, fingerprint, settings, providers | none | encode and decode, hash, configuration, wiring |

How they interact: a decorated function calls `coordinate()`; the coordinator
awaits one repository method at a time, and each of these awaits one Redis
command (`get` may await two). While the action of a reserved call runs, a
second task of the same event loop renews the reservation. Calls of the same
process and of other processes share nothing but the key in Redis; the code
never compares what the key holds with what it is about to overwrite or delete.

What is hard about it, and what has to hold:

* **Reserved flow.** Two clocks bound a reservation (`expires_at` in the record,
  `EX` on the key), a periodic task has to stay ahead of both, and every write
  after the reservation is blind. It is correct when no two actions of one key
  overlap, when an owner only ever overwrites or deletes its own reservation, when
  no renewal can follow the result, when a call gets its own result or one that an
  action for the same request produced, and when waits and reservations end whatever
  the owner does.
* **Unreserved flow.** Actions may overlap; it is correct when all callers of one
  request are told the same stored result once there is one, and when a caller
  that ran its action never gets an error for it.
* **Bulk operations.** Several keys, one non-atomic pipeline: correct when a failed
  `save_many` with rollback leaves nothing of its own behind and nothing of
  anybody else's missing, and `get_many` never deletes a live record.
* **TTLs.** Seconds, minutes and bounds meet: a TTL that the domain does not accept
  means that the result is silently not stored, so the default has to be acceptable
  under any settings, and what is stored has to live as long as was asked.
* **Identifiers and arguments.** Two calls have to meet under one Redis key exactly
  when they mean the same operation and key, be one request exactly when the
  fingerprinted arguments agree, however they are passed, and never run unprotected
  for want of looking in the right place.
* **Metrics.** A call that got through its claim counts as a hit, a miss or an error,
  and a hit only if it replays a result.

`PROJECT.json` lists the hazards at their lines, and which property looks at each.

## 2. Plan

| # | Module | What | State |
|---|---|---|---|
| 1 | `IdempotencyRecord` | a record under a key, its two clocks, the Redis commands | done |
| 2 | `Coordinator`, `MCCoordinator` | the reserved flow, its renewal tasks, faults | done |
| 3 | `OncePerKey` | what the reserved flow promises for a key; refined by 2 | done |
| 4 | `CoordinatorProofs` | type correctness, mutual exclusion, renewal order | done |
| 5 | `UnreservedFlow`, `MCUnreservedFlow`, `OneResult` | `in_flight="run"`, and the write-once key it implements | done |
| 6 | `UnreservedProofs` | agreement and the refinement of `OneResult` | done |
| 7 | `BulkRepository`, `MCBulkRepository` | `get_many`, `save_many`, `delete_many` against each other and single-key writers | done |
| 8 | `BulkProofs` | rollback, all or nothing | done |
| 9 | `OncePerKeyProofs` | the refinement of `OncePerKey`, and that owners touch only their own reservation | done |
| 10 | `AnswerProofs`, more of 6 | honest answers, fingerprints, errors before the action only, under every fault | done |
| 11 | `Identifiers`, `TtlPolicy`, `CallSetup`, `MCCallSetup`, `CallSetupProofs` | the decorator, the Redis keys, the TTLs | done |
| 12 | `CallMetrics`, `MCCallMetrics`, `CallMetricsProofs` | the hits, misses, collisions and errors of a claim, on top of 2 | done |
| 13 | mixed use of a key, in 2 and 5 | a repository used directly, calls with and without a reservation under one key | done |
| 14 | `FailClosedProofs`, lossy `OncePerKey` | for callers that fail closed, with requests answered within the tick: exclusion, and what is left of the promise under outages, cancellations and crashes | done |
| 15 | more of 10 and 11 | errors before the action only (reserved flow), the search for a coordinator | done |
| 16 | more of 4 and 9 | exclusion where requests take time and may fail, as long as no reservation is left behind (`Attended`) | done |
| 17 | more of 11 | the reserved flow seen from its identifiers: who is refused, who runs again | done |

Abstract specifications: `OncePerKey` for the reserved flow (holder, result, told), with
`LossySpec` for what is left of it when the store fails and calls crash, and `OneResult` for the unreserved flow (a write-once result, told).

How the modules build on each other: `IdempotencyRecord` is extended by `Coordinator`
and `UnreservedFlow`; `CallMetrics` extends `Coordinator` with a history variable;
`CallSetup` extends `Identifiers` and `TtlPolicy` and composes the decorator, the
checks of `coordinate`, the domain service and the repository. `OncePerKeyProofs` and
`AnswerProofs` extend `CoordinatorProofs`; `FailClosedProofs` extends `OncePerKeyProofs`,
whose lemmas about single actions serve both refinements; `CallMetricsProofs` extends
`CoordinatorProofs` and `CallMetrics`.

## 3. How the modules correspond to the code

**One key, or the keys of one operation.** Nothing in the code relates two keys
except the bulk operations, so `Coordinator` and `UnreservedFlow` model one key and
any number of calls on it; `BulkRepository` models the keys of one operation.

**Steps.** A step is the code between two awaits and the Redis command that ends
it. A request and its answer are one step where nothing the caller keeps can go
stale between them (SET, DEL); the answer of a GET is a step of its own
(`ReadStore`, then `Finds...`), because `get` and `_get_and_decode` act on the
record they read after the store may have changed. What a request that fails
leaves behind is the choice of `Abandons` (`Remains` in `BulkRepository`): the
command was lost, or it lands at any later time (`Land`).

**A refused request** (`IdempotencyStorageError`) is a disjunct of its own:
`ReserveFails`, `ReadFails`, `CompleteFails`, `PipelineFails`, ... . Cancellation
and the death of the worker are steps too, at every await where they make a
difference.

### `IdempotencyRecord`

A record under the key: `status`, its author `by`, and two countdown clocks, `exp`
(`expires_at`, computed when the caller builds the record) and `ttl` (the `EX` of
the Redis key, running from when the SET lands). They differ by the time the SET
took: the "TTL mismatch" that `get` deletes. The clocks of callers and Redis are
assumed to agree.

### `Coordinator`

| State | In the code |
|---|---|
| `store` | what the key holds |
| `call[c].pc` | the await at which the coroutine of `coordinate()` stands: `reserving`, `reading`, `judging` (the GET's answer on its way), `purging`, `sleeping` in `_claim`; `running` and `joining` in `_renewing`; `completing`, `releasing`; `running_unreserved`, `completing_unreserved` when the claim failed open |
| `call[c].dl` | what is left until the `deadline` of `_claim` |
| `call[c].seen`, `.answer`, `.fate`, `.ran` | the record `get` read; whose result is returned; how the call ended; how far the action got |
| `ren[c]` | the renewal task: off, asleep (`wait_for(stop.wait(), interval)`), or with a SET on its way |
| `wire` | commands nobody waits for that may still land |

A timer is due when `due <= Latency` and may be late until `due` is 0, so a
renewal starts up to `Latency` late, and a request takes up to `Latency`; without
the fault `stall`, `Tick` waits for both. `exp` counts from when the record was
built, so a SET that takes `age` ticks leaves `Lease - age`. The fault names say
what an instance adds: `outage` (any request but a release may fail) and
`release_outage`, `late` (a failed or abandoned request may still land), where a
cancellation is delivered (`cancel_action`, `cancel_claim`, `cancel_join` in the wait
for the renewal task, `cancel_cleanup` in the completion or the release), `crash`,
`stall` (no latency bound), `results_expire`, `rejected` and `unstorable` (the record of
a reservation, of a result, is rejected before it is sent), `action_fails`, `direct_use`
(the application saves or deletes a record under the same key through the repository).
`Blips` is how many renewals of one reservation may fail in a row.

Three regimes, formulas over the constants, say what the timing properties need:

| Regime | Requests take | May go wrong | May not | Timing |
|---|---|---|---|---|
| `Healthy` | up to `Latency` | actions | anything else | `Interval + 4 * Latency < Lease` |
| `Attended` | up to `Latency` | actions; claims (failing, cancelled), `Blips` renewals in a row, completions, results that cannot be stored | anything that leaves a reservation behind; callers that fail open, if requests fail | `LongestUse + Latency < Lease` |
| `FailsClosed` | no time, or are lost | as `Attended`, and releases, crashes, cancelled cleanups, expiring results, an abandoned reservation | `cancel_join`, `rejected`, `late`, `stall`, `direct_use`, padded keys, callers that fail open | `(Blips + 1) * Interval < Lease` |

A healthy instance is an attended one (`HealthyAttended`).

`Padded` are the callers whose key has blanks around it. `save` and `replace` form the
Redis key from the record, whose identifiers are stripped; `get` and `delete` from the
identifiers as given. A padded caller therefore writes the key of all others, and reads
and deletes one that nothing is stored under (`Read`, `Deleted`; that it reads nothing is
`PaddedReadsNothing` of `CallSetupProofs`).

### `CallMetrics`

`tally[c]` is the set of kinds the call has recorded, a history over the steps of
`Coordinator`: `RecordingStep` names the steps that count and what, `SilentStep` all
others. The local `read` of `_claim` needs no variable of its own: it is true exactly
when a read has left a miss or a collision in the tally (`HasLooked`). As the tally is a
set, it says whether a kind was recorded, not how often.

### `UnreservedFlow`

`store` is whose record the key holds; `lapsed` the authors whose record is past
its `expires_at` (no timing is needed here: nothing renews). `call[c]` goes
`reading`, `judging`, `purging` (in `get`), `running`, `saving`, and after a
collision `reading` again with `ran = "ok"`, which is `_handle_collision`. The
same read ends differently before and after the action: `Misses` runs the action
or keeps the caller's own result, and only the first read may fail closed or refuse
a reused key. The fault `others` is another user of the key, in any mode: it reserves
an empty key, writes a result over anything, deletes (`OthersReserve`, `OthersComplete`,
`OthersDelete`).

### `BulkRepository`

A non-transactional pipeline, an MGET or a DEL of several keys is sent to one
or, on a cluster, several nodes. Its commands take effect key by key
(`PipelineSet`, `ReadKey`, `PurgeKey`, `DeleteKey`, `RollbackDelete`), in any
order, between those of other calls. On a single node MGET and DEL are atomic,
which is one of these interleavings. `Batch[b]` is a sequence of records, a key
may occur twice, and `storable` says which records `_prepare_records_for_batch`
lets through. A call whose pipeline raises has no results, hence no rollback;
a rollback or purge that fails is logged and the call ends as it would have.

### `Identifiers`, `TtlPolicy`, `CallSetup`

A text is a sequence of characters of which the blank and the colon matter; `Strip`,
`Fits`, `WriteKey` and `ReadKey` are the validation model and `_make_key` with its two
uses. `TtlPolicy` counts time in ticks of `1 / TicksPerSecond` second, so that the
rounding to seconds (`ExSeconds`) and to minutes (`ResolvedMinutes`) are both real.

`CallSetup` takes calls of one decorated function. `setup` holds the settings of the
domain service, `operation_ttls`, and for each call its operation, TTL and arguments:
`args` a sequence of values, `kwargs` a sequence of named values (a dict in its order).
`call[c]` is `called`, then `delegated` to `coordinate` with the key, coordinator and
fingerprint the wrapper found, or run `plain`; then `running`, and one of the outcomes.
`stored` are the results in Redis, each with its Redis key, its `EX` and what was `left`
of its life when it was written. Without a reservation the flow is reduced to read, run,
SET NX; with one (`setup.reserved`) to SET NX (`Reserves`), read, run, SET, where a
running call's pending record is under its stripped key (`Reservations`), and a call that
collides and finds no result gives up as `in_progress` (`FindsTaken`; the wait until the
deadline is one step). What concurrency and faults make of the flows is the subject of the
other modules. Nothing expires in `CallSetup`.

The wrapper looks for a coordinator by name with `getattr`, which also sees slots,
properties and class attributes (`Offered`), and by type in `vars()`, which sees only the
attributes of the object itself (`Attributes`); the two are separate constants, and the
instance has an object that offers a coordinator without carrying it.

## 4. What is checked

Runs that must pass:

| Run | Question | Bounds |
|---|---|---|
| `healthy` | Storage up, everything in time: do actions exclude each other, do owners touch only their own reservation, is no renewal left when the result is written, are all callers told one result, does the flow implement `OncePerKey`, is the invariant of the proof invariant? | 3 calls, one waiting and two refused at once, one of another request than the result that may be there; `Lease` 9, `Interval` 3, `Latency` 1 |
| `fail_closed` | With `on_storage_error="raise"`, requests that take no time, any of them failing, one renewal in a row, calls cancelled anywhere but in the wait for the renewal task, crashes, results that expire or cannot be stored, and an abandoned reservation: do actions still exclude each other, do owners still touch only their own reservation, does the flow implement the lossy `OncePerKey`, is the invariant of the proof invariant? | 3 calls; `Lease` 3, `Interval` 1, `Latency` 0, `Blips` 1 |
| `faulty` | All faults at once, and the repository used directly beside the calls: can a call get another request's result, or one nobody produced? Does an error of the library mean that the action did not run? Are only replays hits, and is every call counted? | 2 calls, 2 requests; `Lease` 1, `Interval` 1, `Blips` 1, 1 late command at a time |
| `liveness` | Does every wait and every reservation of a finished or dead call end, although actions may never return? | 2 calls, one with a padded key; stalls of any length, outages, cancellations, crashes, late commands, direct use; `Lease` 2 |
| `unreserved_healthy` | Are all callers told one result, does the flow implement `OneResult`, is the invariant of the proof invariant? | 3 calls; cancellation, crash, late commands |
| `unreserved_faulty` | All faults and other users of the key: does an error mean the action did not run, is no call given another request's result, a reservation's null or a result nobody produced? | 3 calls, 2 requests, one padded key |
| `bulk_quiet` | Three batches that overlap in every way, one with a duplicate, one with an invalid record, and a save: whole or absent, nothing of others deleted? | 3 keys, 3 batches |
| `bulk_busy` | All faults: does a rollback that went through leave nothing behind? | 2 keys, one call of each operation, the batch names one key twice |
| `call_setup` | Which calls meet under a key, which are one request, which run unprotected, which are refused, which results are not stored, and how long do the others live? | 2 calls, with and without a reservation; every way to pass the arguments, every two pairs of identifiers, TTLs on both sides of every bound |

Why the bounds are enough. Three calls are an owner, a waiter and one that arrives
later: the interference of the code is pairwise (one blind write meets one record),
and a third call is needed only to make that record. `Interval` is a third of
`Lease` as in the code. The healthy regime asks for `Interval + 4 * Latency <
Lease`: a timer that is late, a renewal that takes its time, and a read whose answer
takes its time (and is followed by the delete of a record that was found expired)
have to fit into a lease. With `Interval` 3 and `Latency` 1 the theorem covers
`Lease` from 8 on; at 7 TLC finds the owner's reservation read as expired and
deleted by a waiter while the owner is still renewing it. In the attended regime a
failed renewal costs an interval and two latencies, and a failed completion one more
latency before the release (`LongestUse`): with an interval of a third of the lease, one
failed renewal asks for `Lease > 21 * Latency`, and two never fit. With
`Interval` 1, `Latency` 1 and `Blips` 1 the theorem covers `Lease` from 10 on; TLC finds
exclusion to hold at 9 and violated at 8. `healthy` is an instance of the regime; for
those with failures, whose leases are longer, the theorems are the evidence. Where the
lease is 3 the latency is 0, or the property does not depend on timing. Ages are capped at
`Lease`, after which a record is expired whatever its age; `MaxLate` bounds the
commands on the wire, `Blips` the renewals lost in a row. A record of `results` that
do not expire is what an instance shorter than their TTL (a minute at least) sees.
In `faulty` no property depends on how long a lease is, only on that it may run out at
any point, and a lease of 1 lets it. A crash is left out of `unreserved_faulty`: without a
clock it does to the key and to the other calls what a cancellation does. In `call_setup` texts of up
to four characters over a blank, a colon and two letters, with a limit of three, contain
every case the validation tells apart; a tick is half a second, and the delays reach
past the life of a one-minute record.
`SYMMETRY` is used only where all callers have the same options and no liveness
or refinement property is checked. `CHECK_DEADLOCK` is off in `UnreservedFlow`,
`BulkRepository` and `CallSetup`: they have no clock, so nothing is left to do once every call is over.

**Fairness** (`liveness` only): weak fairness of what the event loop and Redis owe a
coroutine (`Serve`), of the renewal task (`ServeRenewal`) and of time (`Tick`).
asyncio runs every task that is ready, a request ends in an answer or a timeout,
and clocks run. There is none on the action: `FinishAction` may never happen, which
is why a waiter needs its deadline. The run has `stall`, so it assumes no latency
bound, and nearly every other fault: nothing is assumed of the store but that each
request ends, in an answer or an error. A late command need never land.

### Where code and documentation disagree

Each of these runs checks one property that a document or comment states, and TLC
finds a behaviour of the code that breaks it.

| Run | What happens |
|---|---|
| `purge_race` | `get` reads an expired result; before its DEL lands, another call has read and deleted the same record and reserved the key. The DEL removes that reservation, a third call reserves, and two actions run with storage up and owners renewing |
| `cancelled_join` | a call cancelled while it waits for its renewal task goes on to the release while the renewal's SET is still on its way, although the docs say the task is waited for on any exit |
| `save_many_outage` | a pipeline that raises leaves what it wrote: `rollback_on_error` does not cover it. The same happens without any outage when one record expires between its check and the pipeline (its `EX` is then 0, which Redis refuses) |

Met while modelling, without a run of their own:

* With `in_flight="run"` the result is written with SET NX, so it collides with a record
  nobody can read, which stays until it expires, and every call until then runs the
  action (in `UnreservedFlow`: `SaveCollides` on `Garbage`, then `KeepsOwn`).
  `docs/user_guide.md:333-335` and the comment at `coordinator.py:380-382` say that the
  result replaces the record "in both modes". What is checked is that the call is told
  its own result, not an error (`ErrorsMeanNotRun`, `HonestAnswer`).
* `docs/user_guide.md:497` says operation and key "are stripped". They are where a record
  is written; `get` and `delete` use them as given. A retry with a padded key is run
  again with `in_flight="run"`; with a reservation it collides with the result, reads
  nothing, tries again without sleeping until its deadline, and is refused as in
  progress (`RetriesFindTheResult` says which is which). A padded call does not release
  its reservation: the lease ends it (`ReservationEnds` in `liveness`).
* `docs/user_guide.md:468` calls `MIN_TTL_SECONDS` "the floor every TTL is raised to", and
  `:247` says records live for 30 minutes by default. `create_record` rejects a TTL below
  the minimum (with a minimum above a minute a requested TTL may be too short, and the
  result is not stored), and the default is 60 minutes.
* A waiter that found a reservation and then takes the key over runs its action without
  recording a miss: the comment at `coordinator.py:246` ("A read that came before us has
  counted the miss already") is true of a read that found nothing, not of one that found
  a record in flight, which records a collision. `NoCallUncounted` allows for that.

Limits that follow from the same blind writes, and that the passing runs stop short of:

* A reservation survives one failed renewal (`Blips` 1 in `fail_closed`), not two.
  The renewals of a lease come at one, two and three thirds of it, and the third is
  too late; with `Blips` 2 TLC refutes the properties of that run. `OneFailedRenewal`
  proves the arithmetic: with an interval of a third, `FailsClosed` is `Blips <= 1`. The comment at
  `coordinator.py:362` ("One failure is absorbed by the next attempt, two by the rest
  of the lease") reads as more than that.
* Where a reservation is left behind, callers exclude each other only if requests take no
  time (`Latency = 0` in `FailsClosed`). With a latency, and a record whose `expires_at`
  passes before its `EX`, `get` reads it as expired and its DEL lands on the reservation of
  the next owner: the race of `purge_race`, met by way of the record left behind instead
  of an expired result. The production setting has a latency, so this is the price of a
  dead owner; what holds with a latency is the theorem about `Attended`.
* An owner that has lost its lease renews, completes and releases over whatever the
  key holds: `OwnersTouchOwnReservation` is a property of leases that last.
* `get_many` has the race of `get`: its DEL may meet a record saved since its MGET.
* A rollback deletes keys, not records: `RollbackSparesOthers` needs that nobody else
  deletes and nothing expires while the batch runs. Readers may see a record of a
  batch that is rolled back a moment later.

The hypotheses of the regimes were tried one by one. With any one of these added, TLC
finds `ExclusiveExecution` violated, unless the table says otherwise:

| Regime | Added |
|---|---|
| `Attended` (3 calls, `Lease` 9, `Interval` 3, `Latency` 1, `Blips` 0) | `crash`; `cancel_cleanup`; `release_outage`; `results_expire`; `cancel_join`; `rejected` |
| `FailsClosed` (the instance of `fail_closed`) | `rejected`; `direct_use`; `late` (one command); `stall`; callers that fail open; `Blips` 2; `Latency` 1 (with `Lease` 9, `Interval` 3) |
| | `cancel_join`: exclusion holds, `OwnersTouchOwnReservation` and the lossy refinement are violated |

## 5. What is proved

TLAPS checks the following for every value of the constants that satisfies the
modules' assumptions. `Healthy`, `Attended`, `FailsClosed` and `Quiet` are the regimes of the modules, stated
as formulas over the constants, and are hypotheses of the theorems that need them.

| Module | Theorem | Says |
|---|---|---|
| `CoordinatorProofs` | `TypeCorrect` | `Spec => []TypeOK`, all faults |
| | `InvCorrect` | `Attended => (Spec => []IInv)` |
| | `Exclusive` | in every attended instance one action runs at a time |
| | `RenewalOver` | no renewal is left when the result is written or the key released |
| `OncePerKeyProofs` | `Refines` | in every healthy instance the flow implements `OncePerKey` |
| | `AllToldTheSame` | all calls that return a result return the same one |
| | `OwnersTouchOwn` | in every attended instance owners renew, complete and release only their own reservation |
| `FailClosedProofs` | `FInvCorrect` | `FailsClosed => (Spec => []FInv)` |
| | `ExclusiveFailingClosed` | if all callers fail closed, requests are answered within the tick or lost, and `FailsClosed` holds otherwise, one action runs at a time |
| | `OwnersTouchOwnF` | and owners renew, complete and release only their own reservation |
| | `RefinesLossy` | and the flow implements the lossy `OncePerKey` |
| `AnswerProofs` | `FingerprintsHold` | all faults: no call gets the result of a request with another fingerprint |
| | `AnswersAreHonest` | all faults: a result that is returned was produced by an action that returned |
| | `ErrorsAreSafe` | all faults: a call that ends in an error of the library has not run its action |
| `CallMetricsProofs` | `HitsReplay` | all faults: a hit is recorded by exactly the calls that are told a stored result |
| | `EveryCallCounts` | all faults: no call gets through its claim without recording something |
| `UnreservedProofs` | `TypeCorrect` | all faults |
| | `InvCorrect`, `Agree` | in every healthy instance all callers are told one result |
| | `Refines` | the flow implements `OneResult` |
| | `ErrorsAreEarly` | all faults: a library error means the action did not run |
| | `FingerprintsHold`, `AnswersAreHonest` | all faults, as above |
| `BulkProofs` | `TypeCorrect` | all faults |
| | `RollbackDone` | all faults: a rollback that went through leaves nothing of its batch |
| | `InvCorrect`, `WholeOrNothing` | in every quiet instance a batch is stored whole or not at all |
| | `SparesOthers` | and its rollback deletes only its own records |
| `CallSetupProofs` | `Typed` | type correctness; nothing stored that does not live |
| | `OnlyTheOwnKey` | a call meets only results of its own operation and key, for texts of any length |
| | `SameRequestAlways` | replayed means equal arguments, refused for reuse means different ones |
| | `ProtectedAlways` | a call with a key runs unprotected only if no coordinator is in reach of the wrapper, or one in reach is switched off |
| | `RetriesAlwaysFind` | an unpadded retry finds the stored result, and no retry runs again where calls reserve |
| | `DefaultAlwaysStorable` | a result under the default TTL is stored, unless it took that TTL itself to get there |
| | `TtlAlwaysHonoured` | stored results live as long as was asked, within the bounds |

*Mutual exclusion.* That two calls do not run at once is not inductive: it follows
from the key holding the runner's pending record (`KeyOfHolder`), and that lasts
only while the lease does. `LeaseAhead` is the quantitative part, an account of the
lease: what is left of `exp` is at least `Lease - Spent(missed)`, where each of the
renewals that failed, and the one to come, costs an interval and two latencies, plus
how far the owner is from its next renewal (`Slack`, negative once it is late). A call
past its action keeps the account of the last renewal, with one more request if its
completion fails and it has to release (`Detour`); `LongestUse` is the sum, and with one more latency
for a read that carries an older value (`SeenLive`) it has to stay below `Lease`. That is
why a waiter never takes the record for expired and never purges. `Tick` is where the
argument is used: it takes one from `exp` and one from `Slack`. `RenewalOfBody` gives
`RenewalOver`.

*Failing closed.* In an attended instance every reservation is completed or released by its
owner; `FailsClosed` has dead owners and failing releases too, and every way to be cancelled
but one (`cancel_join`, which `cancelled_join` shows to be harmful). What keeps the invariant `FInv` together is an account for each owner: a
renewal that fails costs the lease one interval, so that `exp` is at least `Lease - (missed
+ 1) * Interval` plus what is left until the next one (`Steady`), and as no more than `Blips`
fail in a row, `(Blips + 1) * Interval < Lease` keeps it positive. A request is answered
within the tick (the hypothesis `Latency = 0`), so `exp` and `ttl` run out together, no record is ever read as expired and nobody purges.
`Sincere` is what the refinement needs besides: a result in hand is the one under the key,
and a call past its action tells what became of it. In `LossySpec` a holder may `Lose` the
key (it crashes, or its result is not stored and only the call itself is told it), a call
may `GiveUp` (cancelled), and a result may be `Forget`-ten when it expires; `Take`, `Answer`
and `Finish` keep their guards, so nobody takes a key that is held or has a result.

*Agreement.* What a call has read or returned is what the key holds, and the key
never changes once it is full: no delete is ever on its way. A call that collided finds
the key full, so it never falls back on its own result. The refinement maps `told`
to how calls ended and needs the invariant for exactly one step, the answer.

*Rollback.* `AllAccounted`: what a batch owns is among the keys it wrote; while it
rolls back, among those still to delete; and after that it has nothing on the wire.
With nobody else deleting, "among" becomes "equal" (`BatchInv`), which gives all or
nothing and that every rolled back key is the batch's own.

*Refinement of `OncePerKey`.* `RInv` adds to the invariant what a call past its action is
going to tell (`Outcomes`) and that a result in hand is the one under the key
(`SeenStored`), which rests on `ResultStays`: a stored result is never replaced, since
nobody holds the key then. A reservation is `Take`, a completion `Finish`, a release
`Abandon`, a hit `Answer`, every refusal `Refuse`, and everything else stutters.
`AllToldTheSame` rests on the same lemma: `Standing` says that what a call has returned is
still the result under the key, so any two of them agree.

*Answers.* Mutual exclusion fails under faults, and a late command may put any record
anywhere; what survives is whose records these are. `Trust`: nothing that can be read,
is in a call's hand, is returned, or may still land is the result of a call whose action
has not returned. It is inductive for any `Faults`, in both flows, with the comparison
of fingerprints carried by `Sound`, and with it that a call which is told an error has
never started its action (`Refusals`): once it has, whatever fails afterwards ends it with the
outcome of its action. For the flow without a reservation `Trust` also says
that an error ends a call only before its action.

*Metrics.* `Tallied` ties a call's place to what it has recorded: nothing but the end of
the claim with a stored result records a hit, and every way out of the claim, to the
action or to an error, records something with it (`ClaimTallied`). Only a call that is
cancelled or crashes in its claim may leave without a trace.

*Keys.* `KeysApart`: of two colon-free operations and any keys, equal Redis keys have
equal parts, because the first colon is at the end of the operation. With it, and with
stripping being idempotent, a result's Redis key says what it was stored for
(`Identified` in the invariant), and a padded read finds nothing (`PaddedReadsNothing`). A call that reserves needs the
stripped key empty, so where a result stands for the same operation and key nobody
reserves, whatever the padding; a reservation's Redis key is made of its own call's
identifiers, so what refuses a call for reuse belongs to its own key.
The theorems assume of `Setups` what `CallSetupAssumption` says: operations and keys are
texts, arguments and attributes are sequences of values, what is named as a coordinator is
one.

*Protection.* `ResolvedIsInReach`: what `_resolve_coordinator` finds is among the arguments,
their attributes and what `getattr` offers of the first one, and it finds nothing only if none of these is a coordinator. The
search takes the first of each sequence (`FirstIsFound`, `SearchedIsFound`), and the least
index of a nonempty set exists (`LeastIndex`). With it, `Delegated` says that whoever
coordinates a call is the coordinator found for it.

Only model-checked: liveness (`ClaimEnds`, `ReservationEnds`), since the prover has neither
fairness nor ENABLED. Every invariant and every action property of the passing runs is
proved, in the regime of the run or a wider one.

## 6. What is not modelled

* Logging, latencies, the Prometheus adapter (one call per counter), the errors recorded
  once the action has started, the bulk counts, and the counts of the flow without a
  reservation, which are one hit, miss or error per call and one collision per collided save.
* What fails when the coordinator is constructed or the decorator applied: unknown
  modes, a repository without `replace`, unknown parameters. The modules assume valid
  options.
* Custom repositories; a driver exception they let through is handled like
  `IdempotencyStorageError`.
* Clock skew between processes and Redis; eviction of live keys by Redis, failover
  that loses writes.
* Adapters: what they decide is kept (a stored result that cannot be decoded, a result
  that cannot be stored). The fingerprint's hash: equal hashes are taken to mean equal
  values. Settings and Dishka providers: no state of their own.
