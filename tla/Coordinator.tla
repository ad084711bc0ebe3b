----------------------------- MODULE Coordinator -----------------------------
(***************************************************************************)
(* IdempotencyCoordinator.coordinate() with a reservation (in_flight       *)
(* "wait" or "raise"), for calls that share one operation and one key      *)
(* (core/services/aio/coordinator.py), over the Redis repository.          *)
(*                                                                         *)
(* A call is a coroutine: pc says at which await it stands, and every      *)
(* action is the code between two awaits together with the Redis command   *)
(* that ends the await.  A command takes effect up to Latency ticks after  *)
(* it was sent; `age` is the time since.  The renewal task of a call runs  *)
(* beside it.  A command whose caller has given up on it (a timeout, a     *)
(* cancellation, a crash) may still land later: it is then on the wire.    *)
(***************************************************************************)
EXTENDS IdempotencyRecord, FiniteSets

CONSTANTS
    Callers,         \* the calls made under the key
    Earlier,         \* the author of a record left from before the model starts
    Stranger,        \* the author of a result the adapter cannot decode
    Fingerprint,     \* Fingerprint[a]: what author a says its request is
    NoFingerprint,   \* idempotency_fingerprint=None
    InFlight,        \* InFlight[c]: "wait" or "raise"
    OnStorageError,  \* OnStorageError[c]: "run" or "raise"
    Lease,           \* in_flight_lease_seconds, in ticks
    Interval,        \* in_flight_lease_seconds / 3, in ticks
    ResultTtl,       \* the TTL of a stored result, in ticks
    Latency,         \* the longest a request takes from send to answer, in ticks
    Padded,          \* the callers who pad their key with blanks
    Blips,           \* renewals of one reservation that may fail in a row
    MaxLate,         \* bound: commands on the wire at once
    Faults,          \* what may go wrong in this instance
    Leftovers        \* what the key may hold before the first call

Authors == Callers \union {Earlier, Stranger}

AllFaults == {"action_fails", "cancel_action", "cancel_claim", "cancel_join",
              "cancel_cleanup", "outage", "release_outage", "late", "crash", "stall",
              "results_expire", "rejected", "unstorable", "direct_use"}

ASSUME CallersAssumption ==
    /\ Earlier \notin Callers /\ Stranger \notin Callers /\ Earlier # Stranger
    /\ DOMAIN Fingerprint = Authors
    /\ InFlight \in [Callers -> {"wait", "raise"}]
    /\ OnStorageError \in [Callers -> {"run", "raise"}]
    /\ Padded \subseteq Callers

ASSUME TimingAssumption ==
    /\ Lease \in Nat \ {0} /\ Interval \in Nat \ {0} /\ Interval <= Lease
    /\ Latency \in 0..Lease /\ ResultTtl \in Nat /\ ResultTtl > Latency
    /\ Blips \in Nat /\ MaxLate \in Nat

ASSUME FaultsAssumption ==
    /\ Faults \subseteq AllFaults
    /\ Leftovers \subseteq {"none", "result", "foreign", "corrupt", "abandoned"}

VARIABLES
    store,   \* what Redis holds under the key
    call,    \* call[c]: the coroutine of caller c
    ren,     \* ren[c]: the renewal task of caller c
    wire     \* commands nobody waits for that may still land

vars == <<store, call, ren, wire>>

------------------------------------------------------------------------------
(***************************************************************************)
(* The shape of the state                                                  *)
(***************************************************************************)
None == Absent(Earlier)

\* The awaits of _claim, with those of the repository's get() inside it.
ClaimPcs == {"reserving", "reading", "judging", "purging", "sleeping"}
\* From the reservation to the end of the call.
HolderPcs == {"running", "joining", "completing", "releasing"}
UnreservedPcs == {"running_unreserved", "completing_unreserved"}
Pcs == {"idle", "done", "crashed"} \union ClaimPcs \union HolderPcs \union UnreservedPcs

\* Where the coroutine waits for an answer from Redis.
RequestPcs == {"reserving", "reading", "judging", "purging", "completing",
               "releasing", "completing_unreserved"}

Fates == {"none", "value", "action_error", "cancelled",
          "in_progress", "key_reuse", "storage_error"}

Records == [status : Statuses, by : Authors,
            exp : 0..(Lease + ResultTtl), ttl : 0..(Lease + ResultTtl)]

\* seen is the record get() read; dl what is left of the claim's deadline; ran
\* how far the action got; answer whose result the call returns.
Calls == [pc : Pcs, age : 0..Lease, dl : 0..Lease, seen : Records,
          fate : Fates, answer : Authors, ran : {"no", "started", "ok"}]

\* The renewal task: asleep until `due` reaches Latency (it may be that late),
\* or with a SET on its way; `missed` counts the renewals that failed in a row.
Renewals == [st : {"off", "sleep", "write"}, due : 0..(Interval + Latency),
             age : 0..Lease, missed : 0..Blips]

Commands == [op : {"reserve", "renew", "complete", "delete"}, by : Callers,
             age : 0..Lease]

TypeOK == /\ store \in Records
          /\ call \in [Callers -> Calls]
          /\ ren \in [Callers -> Renewals]
          /\ wire \subseteq Commands

At(c, p) == [pc |-> p, age |-> 0, dl |-> 0, seen |-> None,
             fate |-> "none", answer |-> c, ran |-> "no"]
Become(c, state) == call' = [call EXCEPT ![c] = state]

\* The coroutine of c goes on to await p of its claim.
Claiming(c, p) == Become(c, [At(c, p) EXCEPT !.dl = call[c].dl])
\* It ends, or moves on to its last request, with the given outcome.
Ends(c, p, fate) ==
    Become(c, [At(c, p) EXCEPT !.fate = fate, !.ran = call[c].ran])

NoRenewal == [st |-> "off", due |-> 0, age |-> 0, missed |-> 0]
\* faulty: a renewal per lease instead of per third of a lease
AsleepALease(missed) == [st |-> "sleep", due |-> Lease + Latency, age |-> 0, missed |-> missed]
\* faulty: the renewal backs off after a failure
AsleepBackingOff(missed) ==
    [st |-> "sleep", due |-> Interval * (missed + 1) + Latency, age |-> 0, missed |-> missed]
\* asyncio.wait_for(stop.wait(), interval), entered after `missed` failures
Asleep(missed) == [st |-> "sleep", due |-> Interval + Latency, age |-> 0, missed |-> missed]
Renews(c, task) == ren' = [ren EXCEPT ![c] = task]

Executing(c) == call[c].pc \in {"running", "running_unreserved"}

Pending(c, age) == Written("pending", c, Lease, age)
Result(c, age) == Written("completed", c, ResultTtl, age)
\* save() and replace() build the Redis key from the record, whose identifiers
\* are stripped; get() and delete() from the identifiers as they were given.  A
\* padded caller therefore writes the key, and reads and deletes one that
\* nobody writes.
Read(c) == IF c \in Padded THEN None ELSE [store EXCEPT !.ttl = 0]
Deleted(key, c) == IF c \in Padded THEN key ELSE None
\* What a command makes of the key when it lands.
Apply(key, cmd) ==
    CASE cmd.op = "reserve"  -> SetNX(key, Pending(cmd.by, cmd.age))
      [] cmd.op = "renew"    -> Pending(cmd.by, cmd.age)
      [] cmd.op = "complete" -> Result(cmd.by, cmd.age)
      [] cmd.op = "delete"   -> Deleted(key, cmd.by)
Command(o, c, age) == [op |-> o, by |-> c, age |-> age]

\* The write c waits for, if any, and the one its renewal task waits for.
Outstanding(c) ==
    CASE call[c].pc = "reserving" -> {Command("reserve", c, call[c].age)}
      [] call[c].pc \in {"purging", "releasing"} -> {Command("delete", c, call[c].age)}
      [] call[c].pc \in {"completing", "completing_unreserved"} ->
             {Command("complete", c, call[c].age)}
      [] OTHER -> {}
Renewing(c) == IF ren[c].st = "write" THEN {Command("renew", c, ren[c].age)} ELSE {}

\* Nobody waits for the commands in `sent` any more: each is lost, or lands later.
Abandons(sent) ==
    \E late \in SUBSET sent :
        /\ late # {} => "late" \in Faults /\ Cardinality(wire \union late) <= MaxLate
        /\ wire' = wire \union late

Leftover(kind) ==
    CASE kind = "none"      -> {None}
      [] kind = "result"    -> {Written("completed", Earlier, ResultTtl, 0)}
      [] kind = "foreign"   -> {Written("completed", Stranger, ResultTtl, 0)}
      [] kind = "corrupt"   -> {Written("corrupt", Earlier, ResultTtl, 0)}
      [] kind = "abandoned" -> {Written("pending", Earlier, Lease, age) : age \in 0..Latency}

Init == /\ store \in UNION {Leftover(kind) : kind \in Leftovers}
        /\ call = [c \in Callers |-> At(c, "idle")]
        /\ ren = [c \in Callers |-> NoRenewal]
        /\ wire = {}

------------------------------------------------------------------------------
(***************************************************************************)
(* The claim: _claim, _try_reserve, _try_get_cached                        *)
(***************************************************************************)
Call(c) == /\ call[c].pc = "idle"
           /\ Become(c, [At(c, "reserving") EXCEPT !.dl = Lease])
           /\ UNCHANGED <<store, ren, wire>>

RunsUnreserved(c) == Become(c, [At(c, "running_unreserved") EXCEPT !.ran = "started"])
\* faulty: on_storage_error is not looked at
StorageFailsOpen(c) == RunsUnreserved(c)
\* _raise_if_failing_closed for an IdempotencyStorageError
StorageFails(c) == IF OnStorageError[c] = "raise" THEN Ends(c, "done", "storage_error")
                                                  ELSE RunsUnreserved(c)
\* ABSENT: the loop goes round unless the deadline has passed.
Again(c) == IF call[c].dl = 0 THEN Ends(c, "done", "in_progress")
                              ELSE Claiming(c, "reserving")

\* faulty: SET without NX
ReserveAlways(c) ==
    /\ call[c].pc = "reserving"
    /\ store' = Pending(c, call[c].age)
    /\ Become(c, [At(c, "running") EXCEPT !.ran = "started"])
    /\ Renews(c, Asleep(0))
    /\ UNCHANGED wire

ReserveWins(c) ==
    /\ call[c].pc = "reserving"
    /\ store.status = "absent"
    /\ store' = SetNX(store, Pending(c, call[c].age))
    /\ Become(c, [At(c, "running") EXCEPT !.ran = "started"])
    /\ Renews(c, Asleep(0))
    /\ UNCHANGED wire

ReserveCollides(c) ==
    /\ call[c].pc = "reserving"
    /\ store.status # "absent"
    /\ Claiming(c, "reading")
    /\ UNCHANGED <<store, ren, wire>>

ReserveFails(c) ==
    /\ "outage" \in Faults
    /\ call[c].pc = "reserving"
    /\ Abandons(Outstanding(c))
    /\ StorageFails(c)
    /\ UNCHANGED <<store, ren>>

\* create_pending_record or _prepare_write rejects the record: not an outage
\* either, so the action runs without a reservation.
ReserveRejected(c) ==
    /\ "rejected" \in Faults
    /\ call[c].pc = "reserving" /\ call[c].age = 0
    /\ RunsUnreserved(c)
    /\ UNCHANGED <<store, ren, wire>>

\* The GET reads the key; its answer is on the way back.
ReadStore(c) ==
    /\ call[c].pc = "reading"
    /\ call' = [call EXCEPT ![c].pc = "judging", ![c].seen = Read(c)]
    /\ UNCHANGED <<store, ren, wire>>

ReadFails(c) ==
    /\ "outage" \in Faults
    /\ call[c].pc = "reading"
    /\ StorageFails(c)
    /\ UNCHANGED <<store, ren, wire>>

FindsNothing(c) ==
    /\ call[c].pc = "judging"
    /\ call[c].seen.status = "absent"
    /\ Again(c)
    /\ UNCHANGED <<store, ren, wire>>

\* A record whose expires_at has passed: get() deletes the key, without
\* looking at what it holds by now.
FindsExpired(c) ==
    /\ call[c].pc = "judging"
    /\ call[c].seen.status \in {"pending", "completed"}
    /\ IsExpired(call[c].seen)
    /\ Claiming(c, "purging")
    /\ UNCHANGED <<store, ren, wire>>

\* It passed between the repository's look at the clock and validate_record's.
FindsLapsed(c) ==
    /\ call[c].pc = "judging"
    /\ call[c].seen.status \in {"pending", "completed"}
    /\ IsExpired(call[c].seen)
    /\ Again(c)
    /\ UNCHANGED <<store, ren, wire>>

\* faulty: is_pending is not looked at
HasFoundAny(c, status) == /\ call[c].pc = "judging"
                          /\ call[c].seen.status \in {"pending", "completed"}
                          /\ ~IsExpired(call[c].seen)
\* c has a live record of that status in hand.
HasFound(c, status) == /\ call[c].pc = "judging"
                       /\ call[c].seen.status = status
                       /\ ~IsExpired(call[c].seen)
\* faulty: only a record in flight is compared
IsReuseInFlight(c) ==
    /\ call[c].seen.status = "pending"
    /\ Reuse(Fingerprint[call[c].seen.by], Fingerprint[c], NoFingerprint)
IsReuse(c) == Reuse(Fingerprint[call[c].seen.by], Fingerprint[c], NoFingerprint)

RefusesReuse(c) ==
    /\ HasFound(c, "pending") \/ HasFound(c, "completed")
    /\ IsReuse(c)
    /\ Ends(c, "done", "key_reuse")
    /\ UNCHANGED <<store, ren, wire>>

\* faulty: a waiter has no deadline
FindsPendingForever(c) ==
    /\ HasFound(c, "pending")
    /\ ~IsReuse(c)
    /\ IF InFlight[c] = "raise" THEN Ends(c, "done", "in_progress")
                               ELSE Claiming(c, "sleeping")
    /\ UNCHANGED <<store, ren, wire>>

FindsPending(c) ==
    /\ HasFound(c, "pending")
    /\ ~IsReuse(c)
    /\ IF InFlight[c] = "raise" \/ call[c].dl = 0
          THEN Ends(c, "done", "in_progress")
          ELSE Claiming(c, "sleeping")
    /\ UNCHANGED <<store, ren, wire>>

FindsResult(c) ==
    /\ HasFound(c, "completed")
    /\ ~IsReuse(c)
    /\ call[c].seen.by # Stranger
    /\ Become(c, [At(c, "done") EXCEPT !.fate = "value", !.answer = call[c].seen.by])
    /\ UNCHANGED <<store, ren, wire>>

\* Bytes that are no record, or a result the adapter cannot decode: not an
\* outage, so the action runs whatever on_storage_error says.
FindsUnusable(c) ==
    /\ \/ call[c].pc = "judging" /\ call[c].seen.status = "corrupt"
       \/ HasFound(c, "completed") /\ ~IsReuse(c) /\ call[c].seen.by = Stranger
    /\ RunsUnreserved(c)
    /\ UNCHANGED <<store, ren, wire>>

Purge(c) ==
    /\ call[c].pc = "purging"
    /\ store' = Deleted(store, c)
    /\ Again(c)
    /\ UNCHANGED <<ren, wire>>

PurgeFails(c) ==
    /\ "outage" \in Faults
    /\ call[c].pc = "purging"
    /\ Abandons(Outstanding(c))
    /\ Again(c)
    /\ UNCHANGED <<store, ren>>

Wake(c) ==
    /\ call[c].pc = "sleeping"
    /\ Claiming(c, "reserving")
    /\ UNCHANGED <<store, ren, wire>>

CancelClaim(c) ==
    /\ "cancel_claim" \in Faults
    /\ call[c].pc \in ClaimPcs
    /\ Abandons(Outstanding(c))
    /\ Ends(c, "done", "cancelled")
    /\ UNCHANGED <<store, ren>>

------------------------------------------------------------------------------
(***************************************************************************)
(* The action and the way out of _renewing                                 *)
(***************************************************************************)
FinishAction(c) ==
    /\ Executing(c)
    /\ Become(c, [At(c, IF call[c].pc = "running" THEN "joining" ELSE "completing_unreserved")
                     EXCEPT !.fate = "value", !.ran = "ok"])
    /\ UNCHANGED <<store, ren, wire>>

\* The action raises, or is cancelled: without a reservation the call is over.
Breaks(c, fate) ==
    /\ Executing(c)
    /\ Ends(c, IF call[c].pc = "running" THEN "joining" ELSE "done", fate)
    /\ UNCHANGED <<store, ren, wire>>
ActionFails(c) == "action_fails" \in Faults /\ Breaks(c, "action_error")
CancelAction(c) == "cancel_action" \in Faults /\ Breaks(c, "cancelled")

\* faulty: the renewal task is told to stop and not waited for
JoinReturnsAtOnce(c) ==
    /\ call[c].pc = "joining"
    /\ Ends(c, IF call[c].fate = "value" THEN "completing" ELSE "releasing", call[c].fate)
    /\ UNCHANGED <<store, ren, wire>>

\* stop is set: a sleeping renewal task returns, a write is waited for.
JoinReturns(c) ==
    /\ call[c].pc = "joining"
    /\ ren[c].st = "sleep"
    /\ Ends(c, IF call[c].fate = "value" THEN "completing" ELSE "releasing", call[c].fate)
    /\ Renews(c, NoRenewal)
    /\ UNCHANGED <<store, wire>>

------------------------------------------------------------------------------
(***************************************************************************)
(* The end of the call: _try_complete, _try_release                        *)
(***************************************************************************)
Completing(c) == call[c].pc \in {"completing", "completing_unreserved"}
\* faulty: a result that is not stored is an error
NotStoredRaises(c) ==
    Ends(c, IF call[c].pc = "completing" THEN "releasing" ELSE "done", "storage_error")
\* A result that was not stored is followed by the release of the reservation.
NotStored(c) ==
    Ends(c, IF call[c].pc = "completing" THEN "releasing" ELSE "done", call[c].fate)

\* faulty: the result is written with save(), not replace()
CompleteNX(c) ==
    /\ Completing(c)
    /\ store' = SetNX(store, Result(c, call[c].age))
    /\ Ends(c, "done", call[c].fate)
    /\ UNCHANGED <<ren, wire>>

CompleteSet(c) ==
    /\ Completing(c)
    /\ store' = Result(c, call[c].age)
    /\ Ends(c, "done", call[c].fate)
    /\ UNCHANGED <<ren, wire>>

CompleteFails(c) ==
    /\ "outage" \in Faults
    /\ Completing(c)
    /\ Abandons(Outstanding(c))
    /\ NotStored(c)
    /\ UNCHANGED <<store, ren>>

\* create_record or _prepare_write rejects the record: nothing was sent.
Unstorable(c) ==
    /\ "unstorable" \in Faults
    /\ Completing(c) /\ call[c].age = 0
    /\ NotStored(c)
    /\ UNCHANGED <<store, ren, wire>>

Release(c) ==
    /\ call[c].pc = "releasing"
    /\ store' = Deleted(store, c)
    /\ Ends(c, "done", call[c].fate)
    /\ UNCHANGED <<ren, wire>>

ReleaseFails(c) ==
    /\ "release_outage" \in Faults
    /\ call[c].pc = "releasing"
    /\ Abandons(Outstanding(c))
    /\ Ends(c, "done", call[c].fate)
    /\ UNCHANGED <<store, ren>>

\* Cancelled inside asyncio.wait({renewal}): the call goes on to the release and
\* leaves a write of the renewal task behind.
CancelJoin(c) ==
    /\ "cancel_join" \in Faults
    /\ call[c].pc = "joining"
    /\ Ends(c, "releasing", "cancelled")
    /\ Renews(c, IF ren[c].st = "write" THEN ren[c] ELSE NoRenewal)
    /\ UNCHANGED <<store, wire>>

\* Cancelled while the result is written or the reservation deleted.
CancelCleanup(c) ==
    /\ "cancel_cleanup" \in Faults
    /\ Completing(c) \/ call[c].pc = "releasing"
    /\ Abandons(Outstanding(c))
    /\ Ends(c, "done", "cancelled")
    /\ UNCHANGED <<store, ren>>

------------------------------------------------------------------------------
(***************************************************************************)
(* The renewal task: _renew, _try_renew                                    *)
(***************************************************************************)
RenewalDue(c) ==
    /\ call[c].pc = "running"
    /\ ren[c].st = "sleep" /\ ren[c].due <= Latency
    /\ Renews(c, [ren[c] EXCEPT !.st = "write", !.due = 0, !.age = 0])
    /\ UNCHANGED <<store, call, wire>>

\* After a write: asleep again, unless stop was set and nobody waits any more.
AfterRenewal(c, missed) ==
    Renews(c, IF call[c].pc \in {"running", "joining"} THEN Asleep(missed) ELSE NoRenewal)

\* faulty: the record is rewritten with the expiry it had
RenewSetStale(c) ==
    /\ ren[c].st = "write"
    /\ store' = [store EXCEPT !.ttl = Lease]
    /\ AfterRenewal(c, 0)
    /\ UNCHANGED <<call, wire>>

RenewSet(c) ==
    /\ ren[c].st = "write"
    /\ store' = Pending(c, ren[c].age)
    /\ AfterRenewal(c, 0)
    /\ UNCHANGED <<call, wire>>

RenewFails(c) ==
    /\ ren[c].st = "write" /\ ren[c].missed < Blips
    /\ Abandons(Renewing(c))
    /\ AfterRenewal(c, ren[c].missed + 1)
    /\ UNCHANGED <<store, call>>

------------------------------------------------------------------------------
(***************************************************************************)
(* The environment                                                         *)
(***************************************************************************)
Crash(c) ==
    /\ "crash" \in Faults
    /\ call[c].pc \notin {"idle", "done", "crashed"}
    /\ Abandons(Outstanding(c) \union Renewing(c))
    /\ Become(c, [At(c, "crashed") EXCEPT !.ran = call[c].ran])
    /\ Renews(c, NoRenewal)
    /\ UNCHANGED store

Land(cmd) ==
    /\ store' = Apply(store, cmd)
    /\ wire' = wire \ {cmd}
    /\ UNCHANGED <<call, ren>>

\* The application uses the repository under the same key itself: it saves a
\* result of its own, or deletes the record to have the operation run again.
DirectSave ==
    /\ "direct_use" \in Faults
    /\ store' = SetNX(store, Written("completed", Earlier, ResultTtl, 0))
    /\ UNCHANGED <<call, ren, wire>>
DirectDelete ==
    /\ "direct_use" \in Faults
    /\ store' = None
    /\ UNCHANGED <<call, ren, wire>>

\* Requests are answered within Latency, timers fire when due, and a coroutine
\* that can go on does: what "stall" takes away.
OnTime(c) ==
    /\ call[c].pc \in RequestPcs => call[c].age < Latency
    /\ call[c].pc = "joining" => ren[c].st = "write"
    /\ call[c].pc = "running" /\ ren[c].st = "sleep" => ren[c].due > 0
    /\ ren[c].st = "write" => ren[c].age < Latency

\* Results outlive the horizon of an instance that does not let them expire.
Fades(rec) == rec.status = "pending" \/ "results_expire" \in Faults
\* A record in hand, and a request, a tick later.
Older(rec) == IF Fades(rec) THEN [rec EXCEPT !.exp = Minus(@, 1)] ELSE rec
Longer(age) == IF age < Lease THEN age + 1 ELSE age

Tick ==
    /\ "stall" \in Faults \/ \A c \in Callers : OnTime(c)
    /\ store' = IF Fades(store) THEN Elapse(store, Earlier) ELSE store
    /\ call' = [c \in Callers |->
          [call[c] EXCEPT
              !.age = IF call[c].pc \in RequestPcs THEN Longer(@) ELSE @,
              !.dl = Minus(@, 1),
              !.seen = Older(@)]]
    /\ ren' = [c \in Callers |->
          [ren[c] EXCEPT
              !.due = Minus(@, 1),
              !.age = IF ren[c].st = "write" THEN Longer(@) ELSE @]]
    /\ wire' = {[cmd EXCEPT !.age = Longer(@)] : cmd \in wire}

------------------------------------------------------------------------------
\* The steps the event loop and Redis owe a call.
Serve(c) ==
    \/ ReserveWins(c) \/ ReserveCollides(c) \/ ReadStore(c)
    \/ FindsNothing(c) \/ FindsExpired(c) \/ FindsLapsed(c) \/ RefusesReuse(c)
    \/ FindsPending(c) \/ FindsResult(c) \/ FindsUnusable(c)
    \/ Purge(c) \/ Wake(c)
    \/ JoinReturns(c) \/ CompleteSet(c) \/ Release(c)

\* Those they owe its renewal task.
ServeRenewal(c) == RenewalDue(c) \/ RenewSet(c)

\* What the action does, and what may go wrong.
Suffer(c) ==
    \/ FinishAction(c) \/ ActionFails(c) \/ CancelAction(c)
    \/ ReserveFails(c) \/ ReserveRejected(c) \/ ReadFails(c) \/ PurgeFails(c)
    \/ CancelClaim(c)
    \/ CompleteFails(c) \/ Unstorable(c) \/ ReleaseFails(c)
    \/ CancelJoin(c) \/ CancelCleanup(c) \/ RenewFails(c) \/ Crash(c)

Next == \/ \E c \in Callers : Call(c) \/ Serve(c) \/ ServeRenewal(c) \/ Suffer(c)
        \/ \E cmd \in wire : Land(cmd)
        \/ DirectSave \/ DirectDelete
        \/ Tick

Spec == Init /\ [][Next]_vars

\* Requests are answered and clocks run; nothing says that the action returns.
Fairness == /\ \A c \in Callers : WF_vars(Serve(c)) /\ WF_vars(ServeRenewal(c))
            /\ WF_vars(Tick)

FairSpec == Spec /\ Fairness

------------------------------------------------------------------------------
(***************************************************************************)
(* Properties                                                              *)
(***************************************************************************)
\* What the lease has lost when `missed` renewals in a row have failed and the next
\* is due: each comes up to Latency late, and takes up to Latency.
Spent(missed) == (missed + 1) * (Interval + 2 * Latency)
\* A completion that fails is followed by another request of the holder.
Detour == IF "outage" \in Faults THEN Latency ELSE 0
\* The longest a holder needs its reservation after it was last written.
LongestUse == Spent(Blips) + Latency + Detour

\* No reservation is left behind: claims, renewals and completions may fail and
\* claims be cancelled, but the owner lives to complete or release, callers fail
\* closed where the store fails, and the lease has room for the renewals that may
\* fail in a row and for the read that looks at the record last.
Attended == /\ Faults \subseteq {"action_fails", "cancel_action", "cancel_claim",
                                  "outage", "unstorable"}
            /\ "outage" \in Faults => \A c \in Callers : OnStorageError[c] = "raise"
            /\ Leftovers \subseteq {"none", "result"}
            /\ Padded = {}
            /\ LongestUse + Latency < Lease

\* Storage is up, nothing is late, keys carry no padding, and a renewal and the
\* reads around it fit into the lease: what the library's guarantee is stated for.
Healthy == /\ Faults \subseteq {"action_fails", "cancel_action"}
           /\ Leftovers \subseteq {"none", "result"}
           /\ Padded = {}
           /\ Blips = 0
           /\ Interval + 4 * Latency < Lease

\* No two calls run their actions at the same time: what the reservation and
\* its renewal are for (coordinate, _try_reserve, _renewing).
ExclusiveExecution ==
    \A c, d \in Callers : Executing(c) /\ Executing(d) => c = d

\* Why it holds while reservations are attended, as an inductive invariant.
Holds(c) == call[c].pc \in HolderPcs
OwnReservation(c) == store.status = "pending" /\ store.by = c

\* Nobody purges, crashes or runs without a reservation.
Quiet == /\ wire = {}
         /\ \A c \in Callers : call[c].pc \notin UnreservedPcs \union {"purging", "crashed"}

\* The pending record under the key is that of the one call past its reservation.
KeyOfHolder == /\ \A c \in Callers : Holds(c) => OwnReservation(c)
               /\ store.status = "pending" => \E c \in Callers : Holds(c) /\ store.by = c

\* A renewal task lives exactly as long as the body of _renewing.
RenewalOfBody == \A c \in Callers :
    ren[c].st # "off" <=> call[c].pc \in {"running", "joining"}

\* Nothing has waited for longer than Latency.
InTime == \A c \in Callers : /\ call[c].pc \in RequestPcs => call[c].age <= Latency
                             /\ ren[c].st = "write" => ren[c].age <= Latency

\* How many renewals may have failed, as far as the state tells.
Missed(c) == IF ren[c].st = "off" THEN Blips ELSE ren[c].missed
\* How far the holder is from its next renewal, or past the moment it was due.
Slack(c) == CASE ren[c].st = "sleep" -> ren[c].due
              [] ren[c].st = "write" -> 0 - ren[c].age
              [] OTHER -> IF call[c].pc = "releasing" THEN 0 - call[c].age - Detour
                                                      ELSE 0 - call[c].age

\* The lease never runs out: what is left of it covers what is left to wait.
LeaseAhead ==
    /\ \A c \in Callers : Holds(c) => store.exp >= Lease - Spent(Missed(c)) + Slack(c)
    /\ store.ttl >= store.exp

\* A record a read has in hand is live when it is looked at, and a stored result
\* stays live.
Live(rec) == /\ rec.status # "corrupt"
             /\ rec.status = "completed" => rec.exp > 0 /\ rec.by # Stranger
SeenLive == /\ Live(store)
            /\ \A c \in Callers : call[c].pc = "judging" =>
                  /\ Live(call[c].seen)
                  /\ call[c].seen.status = "pending" =>
                        call[c].seen.exp >= Lease - LongestUse - call[c].age

IInv == /\ TypeOK /\ Quiet /\ KeyOfHolder /\ RenewalOfBody
        /\ InTime /\ LeaseAhead /\ SeenLive

\* Reservations are left behind as well: releases fail, owners crash or are
\* cancelled while they complete or release, and results expire.  But a request is
\* answered within the tick, so that a record expires when its key does; every
\* caller fails closed, and no more than Blips renewals fail in a row.
FailsClosed ==
    /\ Faults \subseteq {"action_fails", "cancel_action", "cancel_claim", "cancel_cleanup",
                         "outage", "release_outage", "unstorable", "crash", "results_expire"}
    /\ \A c \in Callers : OnStorageError[c] = "raise"
    /\ Leftovers \subseteq {"none", "result", "abandoned"}
    /\ Padded = {} /\ Latency = 0
    /\ (Blips + 1) * Interval < Lease

\* A record that nobody has to purge or to pass over.
Usable(rec) == /\ rec.status # "corrupt"
               /\ rec.status # "absent" => rec.exp > 0
               /\ rec.status = "completed" => rec.by # Stranger

\* Why exclusion survives all this, for a call in state s with renewal task r
\* while the key holds rec.  Its own record is there as long as it needs it,
\* though every renewal that failed has cost the lease an interval;
Steady(c, s, r, rec) ==
    /\ s.pc \notin UnreservedPcs \union {"purging"}
    /\ s.pc \in HolderPcs => rec.status = "pending" /\ rec.by = c
    /\ r.st # "off" <=> s.pc \in {"running", "joining"}
    /\ r.st # "off" => rec.exp >= Lease - (r.missed + 1) * Interval + r.due
    /\ s.pc \in RequestPcs => s.age = 0
    /\ r.st = "write" => r.age = 0
\* what it has read holds, and it tells what became of its own action.
Sincere(s, rec) ==
    /\ s.pc = "judging" =>
          /\ Usable(s.seen)
          /\ s.seen.status = "completed" => rec.status = "completed" /\ s.seen.by = rec.by
    /\ s.pc = "joining" => s.fate \in {"value", "action_error", "cancelled"}
    /\ s.pc = "completing" => s.fate = "value"
    /\ s.pc = "releasing" => s.fate \in {"value", "action_error", "cancelled"}

FInv == /\ TypeOK /\ wire = {}
        /\ Usable(store) /\ store.exp = store.ttl
        /\ \A c \in Callers : Steady(c, call[c], ren[c], store) /\ Sincere(call[c], store)

\* A renewal, a completion and a release only ever meet the owner's own pending
\* record: replace() and delete() look at nothing before they write
\* (_try_renew, _try_complete, _try_release).
OwnersTouchOwnReservation ==
    [][\A c \in Callers :
          RenewSet(c) \/ Release(c) \/ (call[c].pc = "completing" /\ CompleteSet(c))
              => OwnReservation(c)]_vars

\* Once the result is being written or the reservation deleted, no renewal of
\* the same call is asleep or on its way (_renewing waits for its task).
RenewalOverBeforeCleanup ==
    \A c \in Callers : call[c].pc \in {"completing", "releasing"} => ren[c].st = "off"

\* A call is never given the result of a request with another fingerprint
\* (_check_fingerprint on every record a read finds).
FingerprintRespected ==
    \A c \in Callers : call[c].fate = "value" =>
        ~Reuse(Fingerprint[call[c].answer], Fingerprint[c], NoFingerprint)

\* What a call returns is a result that an action really produced: its own,
\* one stored before the model starts, or that of a call whose action returned;
\* never the empty result of a reservation (_get_and_decode).
HonestAnswer ==
    \A c \in Callers : call[c].fate = "value" =>
        \/ call[c].answer = Earlier
        \/ call[c].answer \in Callers /\ call[call[c].answer].ran = "ok"

\* An error of the library means that the action did not run and may be retried:
\* once it has run, whatever happens to its result, the caller is told how it
\* ended (coordinate, _try_complete, _try_release).
ErrorsMeanNotRun ==
    \A c \in Callers :
        call[c].fate \in {"in_progress", "key_reuse", "storage_error"} => call[c].ran = "no"

\* All calls that return a result return the same one, whichever of them ran its
\* action (_complete, _get_and_decode): a later one replays it, none runs again.
OneAnswer ==
    \A c, d \in Callers :
        call[c].pc = "done" /\ call[c].fate = "value"
            /\ call[d].pc = "done" /\ call[d].fate = "value"
                => call[c].answer = call[d].answer

\* A call that waits for another one's action ends, or runs its own, even if
\* that action never returns (the deadline of _claim).
ClaimEnds == \A c \in Callers : call[c].pc \in ClaimPcs ~> call[c].pc \notin ClaimPcs

\* The reservation of a call that is over does not stay: it was deleted or
\* replaced, or its lease runs out (_try_release, _renew's stop, EX).
ReservationEnds ==
    \A c \in Callers : (OwnReservation(c) /\ call[c].pc \in {"done", "crashed"})
                           ~> ~(OwnReservation(c) /\ call[c].pc \in {"done", "crashed"})

\* The abstract specification: the holder is the call past its reservation, the
\* result what the key holds.
Holders == {c \in Callers : call[c].pc \in HolderPcs}
Told(c) == IF call[c].pc # "done" THEN "nothing"
           ELSE CASE call[c].fate = "value" -> call[c].answer
                  [] call[c].fate \in {"action_error", "cancelled"} -> "failed"
                  [] OTHER -> "refused"

HolderNow == IF Holders = {} THEN Stranger ELSE CHOOSE c \in Holders : TRUE
StoredBy == IF store.status = "completed" THEN store.by ELSE Stranger
AllTold == [c \in Callers |-> Told(c)]

Promise == INSTANCE OncePerKey WITH
    Nobody <- Stranger, holder <- HolderNow, result <- StoredBy, told <- AllTold

\* In the healthy regime coordinate() implements OncePerKey.
ImplementsOncePerKey == Promise!Spec

\* Where callers fail closed, it implements what is left of the promise.
ImplementsLossyOncePerKey == Promise!LossySpec
=============================================================================
