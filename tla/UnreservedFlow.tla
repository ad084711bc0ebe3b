---------------------------- MODULE UnreservedFlow ----------------------------
(***************************************************************************)
(* IdempotencyCoordinator.coordinate() with in_flight="run", for calls     *)
(* that share one operation and one key: read, run the action, SET NX, and *)
(* adopt the winner's result on a collision (_coordinate_unreserved).      *)
(*                                                                         *)
(* A record is known by its author.  `lapsed` are the authors whose record *)
(* has passed its expires_at; the EX of the Redis key ends at that moment  *)
(* or later, so a lapsed record may still be read.                         *)
(***************************************************************************)
EXTENDS IdempotencyRecord

CONSTANTS
    Callers,         \* the calls made under the key
    Nobody,          \* the author of an empty key
    Earlier,         \* the author of a result stored before the model starts
    Stranger,        \* ... of a result the adapter cannot decode
    Garbage,         \* ... of bytes that are no record
    Reservation,     \* ... of a pending record: the key is also used with a reservation
    Fingerprint,     \* Fingerprint[a]: what author a says its request is
    NoFingerprint,   \* idempotency_fingerprint=None
    OnStorageError,  \* OnStorageError[c]: "run" or "raise"
    Padded,          \* the calls whose key, or operation, has blanks around it
    Faults,          \* what may go wrong in this instance
    Leftovers        \* what the key may hold before the first call

Authors == Callers \union {Earlier, Stranger, Garbage, Reservation}

ASSUME FlowAssumption ==
    /\ Callers \intersect {Nobody, Earlier, Stranger, Garbage, Reservation} = {}
    /\ Nobody \notin Authors
    /\ Earlier \notin {Stranger, Garbage, Reservation}
    /\ DOMAIN Fingerprint = Authors
    /\ OnStorageError \in [Callers -> {"run", "raise"}]
    /\ Leftovers \subseteq (Authors \ Callers) \union {Nobody}
    /\ Padded \subseteq Callers
    /\ Faults \subseteq {"action_fails", "cancel", "crash", "late", "lapse",
                         "others", "outage", "unstorable"}

VARIABLES
    store,   \* whose record the key holds, or Nobody
    lapsed,  \* the authors whose record is past its expires_at
    call,    \* call[c]: the coroutine of caller c
    wire     \* commands nobody waits for that may still land

vars == <<store, lapsed, call, wire>>

Pcs == {"idle", "reading", "judging", "purging", "running", "saving", "done", "crashed"}
Fates == {"none", "value", "action_error", "cancelled", "key_reuse", "storage_error"}

\* seen is whose record get() read; answer whose result the call returns; ran
\* how far the action got, "ok" in the read that follows a collision.
Calls == [pc : Pcs, seen : Authors \union {Nobody}, fate : Fates,
          answer : Authors, ran : {"no", "started", "ok"}]

Commands == [op : {"save", "delete"}, by : Callers]

TypeOK == /\ store \in Authors \union {Nobody}
          /\ lapsed \subseteq Authors
          /\ call \in [Callers -> Calls]
          /\ wire \subseteq Commands

Init == /\ store \in Leftovers
        /\ lapsed = {}
        /\ call = [c \in Callers |-> [pc |-> "idle", seen |-> Nobody, fate |-> "none",
                                      answer |-> c, ran |-> "no"]]
        /\ wire = {}

------------------------------------------------------------------------------
Becomes(c, state) == call' = [call EXCEPT ![c] = state]
\* The coroutine of c goes on to p, with nothing in hand.
Goes(c, p) == Becomes(c, [call[c] EXCEPT !.pc = p, !.seen = Nobody])
Ends(c, fate, answer) ==
    Becomes(c, [call[c] EXCEPT !.pc = "done", !.seen = Nobody, !.fate = fate, !.answer = answer])
Runs(c) == Becomes(c, [call[c] EXCEPT !.pc = "running", !.seen = Nobody, !.ran = "started"])
\* faulty: _handle_collision returns nothing
KeepsNothing(c) == Ends(c, "value", Nobody)
\* _handle_collision gives up on the winner's result.
KeepsOwn(c) == Ends(c, "value", c)

HasRun(c) == call[c].ran = "ok"
\* No usable result: before the action it runs, after a collision c keeps its own.
Misses(c) == IF HasRun(c) THEN KeepsOwn(c) ELSE Runs(c)

\* The write c waits for, if any.
Outstanding(c) == CASE call[c].pc = "saving"  -> {[op |-> "save", by |-> c]}
                    [] call[c].pc = "purging" -> {[op |-> "delete", by |-> c]}
                    [] OTHER -> {}
\* Nobody waits for it any more: it is lost, or lands later.
Abandons(c) == \/ UNCHANGED wire
               \/ "late" \in Faults /\ wire' = wire \union Outstanding(c)

------------------------------------------------------------------------------
(***************************************************************************)
(* The reads: _try_get_cached before the action, _handle_collision after   *)
(* a collision                                                             *)
(***************************************************************************)
Call(c) == /\ call[c].pc = "idle"
           /\ Goes(c, "reading")
           /\ UNCHANGED <<store, lapsed, wire>>

\* get() uses the key as it was given, and nothing is stored under a padded one:
\* see PaddedReadsNothing in CallSetupProofs.
Read(c) == IF c \in Padded THEN Nobody ELSE store

ReadStore(c) ==
    /\ call[c].pc = "reading"
    /\ Becomes(c, [call[c] EXCEPT !.pc = "judging", !.seen = Read(c)])
    /\ UNCHANGED <<store, lapsed, wire>>

\* faulty: the read after a collision fails closed too
ReadFailsClosed(c) ==
    /\ "outage" \in Faults
    /\ call[c].pc = "reading"
    /\ IF OnStorageError[c] = "raise" THEN Ends(c, "storage_error", c) ELSE Misses(c)
    /\ UNCHANGED <<store, lapsed, wire>>

\* Only the read before the action may fail closed.
ReadFails(c) ==
    /\ "outage" \in Faults
    /\ call[c].pc = "reading"
    /\ IF ~HasRun(c) /\ OnStorageError[c] = "raise"
          THEN Ends(c, "storage_error", c)
          ELSE Misses(c)
    /\ UNCHANGED <<store, lapsed, wire>>

\* get() deletes an expired record, without looking at what the key holds by now.
FindsExpired(c) ==
    /\ call[c].pc = "judging"
    /\ call[c].seen \in lapsed \ {Garbage}
    /\ Goes(c, "purging")
    /\ UNCHANGED <<store, lapsed, wire>>

\* Nothing, or a record that expired between the repository's look at the
\* clock and validate_record's.
FindsNothing(c) ==
    /\ call[c].pc = "judging"
    /\ call[c].seen \in (lapsed \ {Garbage}) \union {Nobody}
    /\ Misses(c)
    /\ UNCHANGED <<store, lapsed, wire>>

Purge(c) ==
    /\ call[c].pc = "purging"
    /\ store' = Nobody
    /\ Misses(c)
    /\ UNCHANGED <<lapsed, wire>>

PurgeFails(c) ==
    /\ "outage" \in Faults
    /\ call[c].pc = "purging"
    /\ Abandons(c)
    /\ Misses(c)
    /\ UNCHANGED <<store, lapsed>>

\* c has a live record in hand.
HasFound(c) == /\ call[c].pc = "judging"
               /\ call[c].seen \in Authors \ (lapsed \union {Garbage})
\* faulty: fingerprints are compared before the action only
IsReuseAtFirst(c) ==
    /\ ~HasRun(c)
    /\ Reuse(Fingerprint[call[c].seen], Fingerprint[c], NoFingerprint)
IsReuse(c) == Reuse(Fingerprint[call[c].seen], Fingerprint[c], NoFingerprint)

\* Before the action the call is refused; after it, it keeps its own result.
FindsReuse(c) ==
    /\ HasFound(c) /\ IsReuse(c)
    /\ IF HasRun(c) THEN KeepsOwn(c) ELSE Ends(c, "key_reuse", c)
    /\ UNCHANGED <<store, lapsed, wire>>

\* faulty: a reservation is replayed as a result
FindsResultOrPending(c) ==
    /\ HasFound(c) /\ ~IsReuse(c)
    /\ call[c].seen # Stranger
    /\ Ends(c, "value", call[c].seen)
    /\ UNCHANGED <<store, lapsed, wire>>
\* faulty: the winner's result is not adopted
FindsResultKeepsOwn(c) ==
    /\ HasFound(c) /\ ~IsReuse(c)
    /\ call[c].seen \notin {Stranger, Reservation}
    /\ Ends(c, "value", IF HasRun(c) THEN c ELSE call[c].seen)
    /\ UNCHANGED <<store, lapsed, wire>>
FindsResult(c) ==
    /\ HasFound(c) /\ ~IsReuse(c)
    /\ call[c].seen \notin {Stranger, Reservation}
    /\ Ends(c, "value", call[c].seen)
    /\ UNCHANGED <<store, lapsed, wire>>

\* Bytes that are no record, a result the adapter cannot decode, or a
\* reservation: no hit.
FindsUnusable(c) ==
    /\ call[c].pc = "judging"
    /\ \/ call[c].seen = Garbage
       \/ HasFound(c) /\ ~IsReuse(c) /\ call[c].seen \in {Stranger, Reservation}
    /\ Misses(c)
    /\ UNCHANGED <<store, lapsed, wire>>

------------------------------------------------------------------------------
(***************************************************************************)
(* The action and the write: _try_save_result                              *)
(***************************************************************************)
FinishAction(c) ==
    /\ call[c].pc = "running"
    /\ Becomes(c, [call[c] EXCEPT !.pc = "saving", !.ran = "ok"])
    /\ UNCHANGED <<store, lapsed, wire>>

ActionFails(c) ==
    /\ "action_fails" \in Faults
    /\ call[c].pc = "running"
    /\ Ends(c, "action_error", c)
    /\ UNCHANGED <<store, lapsed, wire>>

\* faulty: the result is written with replace()
SaveOver(c) ==
    /\ call[c].pc = "saving"
    /\ store' = c
    /\ KeepsOwn(c)
    /\ UNCHANGED <<lapsed, wire>>
SaveWins(c) ==
    /\ call[c].pc = "saving"
    /\ store = Nobody
    /\ store' = c
    /\ KeepsOwn(c)
    /\ UNCHANGED <<lapsed, wire>>

SaveCollides(c) ==
    /\ call[c].pc = "saving"
    /\ store # Nobody
    /\ Goes(c, "reading")
    /\ UNCHANGED <<store, lapsed, wire>>

SaveFails(c) ==
    /\ "outage" \in Faults
    /\ call[c].pc = "saving"
    /\ Abandons(c)
    /\ KeepsOwn(c)
    /\ UNCHANGED <<store, lapsed>>

\* create_record or _prepare_write rejects the record: nothing was sent.
Unstorable(c) ==
    /\ "unstorable" \in Faults
    /\ call[c].pc = "saving"
    /\ KeepsOwn(c)
    /\ UNCHANGED <<store, lapsed, wire>>

------------------------------------------------------------------------------
(***************************************************************************)
(* Cancellation, crashes, clocks, late commands                            *)
(***************************************************************************)
Active(c) == call[c].pc \notin {"idle", "done", "crashed"}

Cancel(c) ==
    /\ "cancel" \in Faults
    /\ Active(c)
    /\ Abandons(c)
    /\ Ends(c, "cancelled", c)
    /\ UNCHANGED <<store, lapsed>>

Crash(c) ==
    /\ "crash" \in Faults
    /\ Active(c)
    /\ Abandons(c)
    /\ Goes(c, "crashed")
    /\ UNCHANGED <<store, lapsed>>

Land(cmd) ==
    /\ store' = IF cmd.op = "delete" THEN Nobody
                ELSE IF store = Nobody THEN cmd.by ELSE store
    /\ wire' = wire \ {cmd}
    /\ UNCHANGED <<lapsed, call>>

\* The record under the key passes its expires_at; its EX runs out.
Lapse == /\ "lapse" \in Faults
         /\ store \in Authors \ lapsed
         /\ lapsed' = lapsed \union {store}
         /\ UNCHANGED <<store, call, wire>>
Evict == /\ store \in lapsed
         /\ store' = Nobody
         /\ UNCHANGED <<lapsed, call, wire>>

\* Other users of the key: a coordinator that reserves it, say one that is being
\* rolled out, or a repository used directly.
OthersReserve ==
    /\ "others" \in Faults
    /\ store = Nobody /\ store' = Reservation
    /\ lapsed' = lapsed \ {Reservation}
    /\ UNCHANGED <<call, wire>>
OthersComplete ==
    /\ "others" \in Faults
    /\ store' = Earlier /\ lapsed' = lapsed \ {Earlier}
    /\ UNCHANGED <<call, wire>>
OthersDelete ==
    /\ "others" \in Faults
    /\ store' = Nobody
    /\ UNCHANGED <<lapsed, call, wire>>

------------------------------------------------------------------------------
Step(c) ==
    \/ Call(c) \/ ReadStore(c) \/ ReadFails(c)
    \/ FindsExpired(c) \/ FindsNothing(c) \/ Purge(c) \/ PurgeFails(c)
    \/ FindsReuse(c) \/ FindsResult(c) \/ FindsUnusable(c)
    \/ FinishAction(c) \/ ActionFails(c)
    \/ SaveWins(c) \/ SaveCollides(c) \/ SaveFails(c) \/ Unstorable(c)
    \/ Cancel(c) \/ Crash(c)

Next == \/ \E c \in Callers : Step(c)
        \/ \E cmd \in wire : Land(cmd)
        \/ Lapse \/ Evict
        \/ OthersReserve \/ OthersComplete \/ OthersDelete

Spec == Init /\ [][Next]_vars

------------------------------------------------------------------------------
(***************************************************************************)
(* Properties                                                              *)
(***************************************************************************)
\* The store answers, results do not expire, and the key is used for one
\* request and in this mode only.
Healthy ==
    /\ Faults \subseteq {"action_fails", "cancel", "crash", "late"}
    /\ Leftovers \subseteq {Nobody, Earlier} /\ Padded = {}
    /\ \A a, b \in Callers \union {Earlier} :
          ~Reuse(Fingerprint[a], Fingerprint[b], NoFingerprint)

\* However many calls ran their action, all that are told a result are told the
\* same one (_handle_collision adopts the winner's).
Agreement == \A c, d \in Callers :
    call[c].fate = "value" /\ call[d].fate = "value" => call[c].answer = call[d].answer

\* Why: what a call has read or returned is what the key holds, and the key of a
\* call that collided is not empty.
AgreementInv ==
    /\ TypeOK
    /\ store \in Callers \union {Nobody, Earlier}
    /\ lapsed = {}
    /\ \A cmd \in wire : cmd.op = "save"
    /\ \A c \in Callers :
          /\ call[c].pc # "purging"
          /\ HasRun(c) => call[c].pc # "idle"
          /\ call[c].seen # Nobody => call[c].seen = store
          /\ HasRun(c) /\ call[c].pc \in {"reading", "judging"} => store # Nobody
          /\ HasRun(c) /\ call[c].pc = "judging" => call[c].seen # Nobody
          /\ call[c].fate = "value" => call[c].pc = "done" /\ call[c].answer = store

\* An error of the library means that the action did not run: once it has run,
\* the caller gets a result (_handle_collision, _report_unstorable_record).
ErrorsMeanNotRun ==
    \A c \in Callers : call[c].fate \in {"key_reuse", "storage_error"} => call[c].ran = "no"

\* A call is never given the result of a request with another fingerprint, on
\* the first read or on the one after a collision (_check_fingerprint).
FingerprintRespected ==
    \A c \in Callers : call[c].fate = "value" =>
        ~Reuse(Fingerprint[call[c].answer], Fingerprint[c], NoFingerprint)

\* What a call returns is a result that an action really produced, never a
\* reservation's null or something it could not decode (_get_and_decode).
HonestAnswer ==
    \A c \in Callers : call[c].fate = "value" =>
        \/ call[c].answer = Earlier
        \/ call[c].answer \in Callers /\ call[call[c].answer].ran = "ok"

Told(c) == CASE call[c].fate = "value" -> call[c].answer
             [] call[c].fate # "value" /\ call[c].pc \in {"done", "crashed"} -> "no result"
             [] OTHER -> "nothing"

AllTold == [c \in Callers |-> Told(c)]

Promise == INSTANCE OneResult WITH result <- store, told <- AllTold

\* In the healthy regime the flow implements OneResult.
ImplementsOneResult == Promise!Spec
=============================================================================
