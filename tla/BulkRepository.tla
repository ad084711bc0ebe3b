--------------------------- MODULE BulkRepository ---------------------------
(***************************************************************************)
(* RedisAsyncIdempotencyRepository.save_many, get_many and delete_many     *)
(* against each other and against writers of single keys                   *)
(* (infra/storage/redis/aio/repository.py), for keys of one operation.     *)
(*                                                                         *)
(* A pipeline without a transaction, an MGET or DEL split by hash slot on  *)
(* a cluster: none of them is atomic, so the commands behind one call take *)
(* effect one key at a time, in any order, between those of other calls.   *)
(* A record is known by its author and its key.                            *)
(***************************************************************************)
EXTENDS Naturals, Sequences

CONSTANTS
    Keys,        \* the keys, all in one operation
    Batches,     \* the calls of save_many
    Batch,       \* Batch[b]: its records, as [key, storable] in a sequence
    Rollback,    \* Rollback[b]: rollback_on_error
    Readers,     \* the calls of get_many
    Deleters,    \* the calls of delete_many
    Wanted,      \* Wanted[r]: the keys a reader or a deleter names
    Singles,     \* the calls of save, each for one record under any key
    Earlier,     \* the author of records stored before the model starts
    Garbage,     \* the author of bytes that are no record
    Nobody,      \* the author of an empty key
    Faults,      \* what may go wrong in this instance
    Leftovers    \* what a key may hold before the first call

Writers == Batches \union Singles \union {Earlier, Garbage}

ASSUME BulkAssumption ==
    /\ Nobody \notin Writers
    /\ Batches \intersect (Singles \union {Earlier, Garbage}) = {}
    /\ \A b \in Batches : Batch[b] \in Seq([key : Keys, storable : BOOLEAN]) \ {<<>>}
    /\ Rollback \in [Batches -> BOOLEAN]
    /\ Wanted \in [Readers \union Deleters -> SUBSET Keys]
    /\ Leftovers \subseteq {Earlier, Garbage, Nobody}
    /\ Faults \subseteq {"outage", "late", "cancel", "lapse"}

VARIABLES
    store,   \* store[k]: whose record key k holds, or Nobody
    lapsed,  \* the records <<author, key>> past their expires_at
    saver,   \* saver[b]: a call of save_many
    reader,  \* reader[r]: a call of get_many
    deleter, \* deleter[d]: a call of delete_many
    spent    \* the calls of save that are over

vars == <<store, lapsed, saver, reader, deleter, spent>>

\* _prepare_records_for_batch: the positions of the records that can be written.
Valid(b) == {i \in DOMAIN Batch[b] : Batch[b][i].storable}
Key(b, i) == Batch[b][i].key

SaverFates == {"none", "ok", "collision", "invalid", "storage_error", "cancelled"}
ReaderFates == {"none", "ok", "corrupt", "storage_error", "cancelled"}

\* todo: the SETs that have not taken effect; saved: those that wrote their
\* key; undo: the keys the rollback still has to delete; undone: the rollback
\* has deleted them all.
Savers(b) == [pc : {"idle", "piping", "rolling", "done"}, todo : SUBSET Valid(b),
              saved : SUBSET Valid(b), undo : SUBSET Keys, undone : BOOLEAN,
              fate : SaverFates]
\* todo: the keys still to be read; got: what the others held; purge: the keys
\* found expired and still to be deleted.
ReaderStates == [pc : {"idle", "reading", "purging", "done"}, todo : SUBSET Keys,
                 got : [Keys -> Writers \union {Nobody}], purge : SUBSET Keys,
                 fate : ReaderFates]
DeleterStates == [pc : {"idle", "deleting", "done"}, todo : SUBSET Keys,
                  count : Nat]

TypeOK == /\ store \in [Keys -> Writers \union {Nobody}]
          /\ lapsed \subseteq Writers \X Keys
          /\ DOMAIN saver = Batches /\ \A b \in Batches : saver[b] \in Savers(b)
          /\ reader \in [Readers -> ReaderStates]
          /\ deleter \in [Deleters -> DeleterStates]
          /\ spent \subseteq Singles

Init == /\ store \in [Keys -> Leftovers]
        /\ lapsed = {}
        /\ saver = [b \in Batches |-> [pc |-> "idle", todo |-> {}, saved |-> {}, undo |-> {},
                                       undone |-> FALSE, fate |-> "none"]]
        /\ reader = [r \in Readers |-> [pc |-> "idle", todo |-> {}, got |-> [k \in Keys |-> Nobody],
                                        purge |-> {}, fate |-> "none"]]
        /\ deleter = [d \in Deleters |-> [pc |-> "idle", todo |-> {}, count |-> 0]]
        /\ spent = {}

SaverBecomes(b, state) == saver' = [saver EXCEPT ![b] = state]
ReaderBecomes(r, state) == reader' = [reader EXCEPT ![r] = state]
DeleterBecomes(d, state) == deleter' = [deleter EXCEPT ![d] = state]
\* SET NX of the record of w, and DEL, under key k
SetNX(k, w) == store' = IF store[k] = Nobody THEN [store EXCEPT ![k] = w] ELSE store
Deletes(k) == store' = [store EXCEPT ![k] = Nobody]
\* What is left of the commands of a call nobody waits for: lost, or on its way.
Remains(commands) == IF "late" \in Faults THEN SUBSET commands ELSE {{}}

------------------------------------------------------------------------------
(***************************************************************************)
(* save_many                                                               *)
(***************************************************************************)
\* With no record to write, _raise_batch_errors raises before any command.
SaveMany(b) ==
    /\ saver[b].pc = "idle"
    /\ SaverBecomes(b, IF Valid(b) = {}
                          THEN [saver[b] EXCEPT !.pc = "done", !.fate = "invalid"]
                          ELSE [saver[b] EXCEPT !.pc = "piping", !.todo = Valid(b)])
    /\ UNCHANGED <<store, lapsed, reader, deleter, spent>>

\* SET key data EX ttl NX, of a pipeline that is waited for or not.
PipelineSet(b, i) ==
    /\ i \in saver[b].todo
    /\ SetNX(Key(b, i), b)
    /\ SaverBecomes(b, [saver[b] EXCEPT
          !.todo = saver[b].todo \ {i},
          !.saved = saver[b].saved \union (IF store[Key(b, i)] = Nobody THEN {i} ELSE {})])
    /\ UNCHANGED <<lapsed, reader, deleter, spent>>

HasInvalid(b) == Valid(b) # DOMAIN Batch[b]
Collides(b) == saver[b].saved # Valid(b)
\* faulty: a batch is told only of its collisions
FailsOnCollision(b) == Collides(b)
Fails(b) == HasInvalid(b) \/ Collides(b)
\* _process_batch_results: the keys the batch wrote
SavedKeys(b) == {Key(b, i) : i \in saver[b].saved}

\* faulty: every key of the batch is rolled back
RollbackAllKeys(b) == IF Fails(b) /\ Rollback[b] THEN {Key(b, i) : i \in Valid(b)} ELSE {}
\* faulty: a key that collided is another writer's, and spared
RollbackUncollided(b) ==
    IF Fails(b) /\ Rollback[b]
       THEN SavedKeys(b) \ {Key(b, i) : i \in Valid(b) \ saver[b].saved} ELSE {}
\* faulty: the rollback is handed positions, not keys
RollbackPositions(b) == IF Fails(b) /\ Rollback[b] THEN saver[b].saved ELSE {}
\* What the call has to delete before it raises.
RollbackKeys(b) == IF Fails(b) /\ Rollback[b] THEN SavedKeys(b) ELSE {}

\* The results are there: return, raise, or roll back first.
PipelineReturns(b) ==
    /\ saver[b].pc = "piping" /\ saver[b].todo = {}
    /\ LET fate == IF ~Fails(b) THEN "ok" ELSE IF Collides(b) THEN "collision" ELSE "invalid"
       IN  SaverBecomes(b, [saver[b] EXCEPT
              !.pc = IF RollbackKeys(b) = {} THEN "done" ELSE "rolling",
              !.undo = RollbackKeys(b), !.fate = fate])
    /\ UNCHANGED <<store, lapsed, reader, deleter, spent>>

\* pipe.execute() raises, or the call is cancelled in it: no results, so no rollback.
PipelineBreaks(b, fate) ==
    /\ saver[b].pc = "piping"
    /\ \E left \in Remains(saver[b].todo) :
          SaverBecomes(b, [saver[b] EXCEPT !.pc = "done", !.todo = left, !.fate = fate])
    /\ UNCHANGED <<store, lapsed, reader, deleter, spent>>
PipelineFails(b) == "outage" \in Faults /\ PipelineBreaks(b, "storage_error")
CancelPipeline(b) == "cancel" \in Faults /\ PipelineBreaks(b, "cancelled")

\* DEL of a key the rollback names, whatever it holds.
RollbackDelete(b, k) ==
    /\ k \in saver[b].undo
    /\ Deletes(k)
    /\ LET left == saver[b].undo \ {k}
       IN  SaverBecomes(b, [saver[b] EXCEPT
              !.undo = left,
              !.pc = IF left = {} THEN "done" ELSE saver[b].pc,
              !.undone = (left = {} /\ saver[b].pc = "rolling")])
    /\ UNCHANGED <<lapsed, reader, deleter, spent>>

\* It fails, which is logged, or the call is cancelled in it.
RollbackBreaks(b, fate) ==
    /\ saver[b].pc = "rolling"
    /\ \E left \in Remains(saver[b].undo) :
          SaverBecomes(b, [saver[b] EXCEPT !.pc = "done", !.undo = left, !.fate = fate])
    /\ UNCHANGED <<store, lapsed, reader, deleter, spent>>
RollbackFails(b) == "outage" \in Faults /\ RollbackBreaks(b, saver[b].fate)
CancelRollback(b) == "cancel" \in Faults /\ RollbackBreaks(b, "cancelled")

------------------------------------------------------------------------------
(***************************************************************************)
(* get_many                                                                *)
(***************************************************************************)
GetMany(r) ==
    /\ reader[r].pc = "idle"
    /\ ReaderBecomes(r, IF Wanted[r] = {}
                           THEN [reader[r] EXCEPT !.pc = "done", !.fate = "ok"]
                           ELSE [reader[r] EXCEPT !.pc = "reading", !.todo = Wanted[r]])
    /\ UNCHANGED <<store, lapsed, saver, deleter, spent>>

ReadKey(r, k) ==
    /\ reader[r].pc = "reading" /\ k \in reader[r].todo
    /\ ReaderBecomes(r, [reader[r] EXCEPT !.todo = reader[r].todo \ {k},
                                         !.got = [reader[r].got EXCEPT ![k] = store[k]]])
    /\ UNCHANGED <<store, lapsed, saver, deleter, spent>>

\* The keys under which an expired record was read.
ExpiredKeys(r) == {k \in Wanted[r] : <<reader[r].got[k], k>> \in lapsed}

\* The values are there.  One that is no record is raised before anything is
\* deleted; otherwise the expired keys go.
ReadsReturn(r) ==
    /\ reader[r].pc = "reading" /\ reader[r].todo = {}
    /\ ReaderBecomes(r,
          IF \E k \in Wanted[r] : reader[r].got[k] = Garbage
             THEN [reader[r] EXCEPT !.pc = "done", !.fate = "corrupt"]
          ELSE IF ExpiredKeys(r) = {} THEN [reader[r] EXCEPT !.pc = "done", !.fate = "ok"]
          ELSE [reader[r] EXCEPT !.pc = "purging", !.purge = ExpiredKeys(r)])
    /\ UNCHANGED <<store, lapsed, saver, deleter, spent>>

ReadsBreak(r, fate) ==
    /\ reader[r].pc = "reading"
    /\ ReaderBecomes(r, [reader[r] EXCEPT !.pc = "done", !.todo = {}, !.fate = fate])
    /\ UNCHANGED <<store, lapsed, saver, deleter, spent>>
ReadsFail(r) == "outage" \in Faults /\ ReadsBreak(r, "storage_error")
CancelReads(r) == "cancel" \in Faults /\ ReadsBreak(r, "cancelled")

\* DEL of a key whose record was expired when it was read, whatever it holds.
PurgeKey(r, k) ==
    /\ k \in reader[r].purge
    /\ Deletes(k)
    /\ LET left == reader[r].purge \ {k}
       IN  ReaderBecomes(r, IF reader[r].pc = "purging" /\ left = {}
                               THEN [reader[r] EXCEPT !.purge = left, !.pc = "done", !.fate = "ok"]
                               ELSE [reader[r] EXCEPT !.purge = left])
    /\ UNCHANGED <<lapsed, saver, deleter, spent>>

\* A delete that fails is logged and the records found are returned.
PurgeBreaks(r, fate) ==
    /\ reader[r].pc = "purging"
    /\ \E left \in Remains(reader[r].purge) :
          ReaderBecomes(r, [reader[r] EXCEPT !.pc = "done", !.purge = left, !.fate = fate])
    /\ UNCHANGED <<store, lapsed, saver, deleter, spent>>
PurgeFails(r) == "outage" \in Faults /\ PurgeBreaks(r, "ok")
CancelPurge(r) == "cancel" \in Faults /\ PurgeBreaks(r, "cancelled")

------------------------------------------------------------------------------
(***************************************************************************)
(* delete_many, save, and the expiry of records                            *)
(***************************************************************************)
DeleteMany(d) ==
    /\ deleter[d].pc = "idle"
    /\ DeleterBecomes(d, IF Wanted[d] = {}
                            THEN [deleter[d] EXCEPT !.pc = "done"]
                            ELSE [deleter[d] EXCEPT !.pc = "deleting", !.todo = Wanted[d]])
    /\ UNCHANGED <<store, lapsed, saver, reader, spent>>

DeleteKey(d, k) ==
    /\ k \in deleter[d].todo
    /\ Deletes(k)
    /\ LET left == deleter[d].todo \ {k}
       IN  DeleterBecomes(d, [deleter[d] EXCEPT
              !.pc = IF left = {} THEN "done" ELSE deleter[d].pc,
              !.todo = left,
              !.count = deleter[d].count + (IF store[k] = Nobody THEN 0 ELSE 1)])
    /\ UNCHANGED <<lapsed, saver, reader, spent>>

DeletesBreak(d) ==
    /\ Faults \intersect {"outage", "cancel"} # {}
    /\ deleter[d].pc = "deleting"
    /\ \E left \in Remains(deleter[d].todo) :
          DeleterBecomes(d, [deleter[d] EXCEPT !.pc = "done", !.todo = left])
    /\ UNCHANGED <<store, lapsed, saver, reader, spent>>

\* A call of save for key k: SET NX.
SaveSingle(w, k) ==
    /\ w \notin spent
    /\ spent' = spent \union {w}
    /\ SetNX(k, w)
    /\ UNCHANGED <<lapsed, saver, reader, deleter>>

\* The record under k passes its expires_at; its EX runs out.
Lapse(k) == /\ "lapse" \in Faults
            /\ store[k] # Nobody
            /\ <<store[k], k>> \notin lapsed
            /\ lapsed' = lapsed \union {<<store[k], k>>}
            /\ UNCHANGED <<store, saver, reader, deleter, spent>>
Evict(k) == /\ <<store[k], k>> \in lapsed
            /\ Deletes(k)
            /\ UNCHANGED <<lapsed, saver, reader, deleter, spent>>

------------------------------------------------------------------------------
SaverStep(b) == \/ SaveMany(b)
                \/ \E i \in Valid(b) : PipelineSet(b, i)
                \/ PipelineReturns(b) \/ PipelineFails(b) \/ CancelPipeline(b)
                \/ \E k \in Keys : RollbackDelete(b, k)
                \/ RollbackFails(b) \/ CancelRollback(b)
ReaderStep(r) == \/ GetMany(r)
                 \/ \E k \in Keys : ReadKey(r, k) \/ PurgeKey(r, k)
                 \/ ReadsReturn(r) \/ ReadsFail(r) \/ CancelReads(r)
                 \/ PurgeFails(r) \/ CancelPurge(r)
DeleterStep(d) == \/ DeleteMany(d)
                  \/ \E k \in Keys : DeleteKey(d, k)
                  \/ DeletesBreak(d)

Next == \/ \E b \in Batches : SaverStep(b)
        \/ \E r \in Readers : ReaderStep(r)
        \/ \E d \in Deleters : DeleterStep(d)
        \/ \E w \in Singles, k \in Keys : SaveSingle(w, k)
        \/ \E k \in Keys : Lapse(k) \/ Evict(k)

Spec == Init /\ [][Next]_vars

------------------------------------------------------------------------------
(***************************************************************************)
(* Properties                                                              *)
(***************************************************************************)
\* The store answers, records do not expire and nobody deletes them.
Quiet == Faults = {} /\ Deleters = {}

Over(b) == saver[b].pc = "done"

\* A batch that rolls back is stored as a whole or not at all, however it
\* collides with other batches and calls of save (rollback_on_error).
AllOrNothing ==
    \A b \in Batches : Over(b) /\ Rollback[b] =>
        IF saver[b].fate = "ok" THEN \A i \in DOMAIN Batch[b] : store[Key(b, i)] = b
                                ELSE \A k \in Keys : store[k] # b

\* Why: what a batch owns is what it has written so far, then what its rollback
\* still has to delete, then everything or nothing.
OwnedKeys(b) == {k \in Keys : store[k] = b}
BatchInv(b) ==
    /\ saver[b].pc \in {"idle", "piping"} =>
          /\ OwnedKeys(b) = SavedKeys(b)
          /\ saver[b].undo = {} /\ saver[b].fate = "none"
    /\ saver[b].pc = "idle" => saver[b].saved = {}
    /\ saver[b].pc # "piping" => saver[b].todo = {}
    /\ saver[b].pc = "rolling" =>
          OwnedKeys(b) = saver[b].undo /\ Rollback[b] /\ saver[b].fate # "ok"
    /\ saver[b].pc = "done" =>
          /\ saver[b].undo = {}
          /\ Rollback[b] /\ saver[b].fate # "ok" => OwnedKeys(b) = {}
          /\ Rollback[b] /\ saver[b].fate = "ok" =>
                saver[b].saved = DOMAIN Batch[b] /\ OwnedKeys(b) = SavedKeys(b)

RollbackInv ==
    /\ TypeOK
    /\ lapsed = {}
    /\ \A r \in Readers : reader[r].purge = {}
    /\ \A b \in Batches : BatchInv(b)

\* The rollback and the purge delete keys, not records; with nobody else deleting
\* and nothing expiring, what the rollback finds there is the batch's own record.
RollbackSparesOthers ==
    [][\A b \in Batches, k \in Keys :
          RollbackDelete(b, k) => store[k] = b]_vars

\* A rollback that went through left nothing of the batch behind, whoever else
\* wrote, deleted, read or let expire the keys meanwhile (_handle_batch_rollback).
RollbackComplete ==
    \A b \in Batches : saver[b].undone => \A k \in Keys : store[k] # b

\* save_many with rollback_on_error leaves none of its records when the store
\* fails, as its documentation says.
RolledBackOnOutage ==
    \A b \in Batches : Rollback[b] /\ saver[b].fate = "storage_error" =>
        \A k \in Keys : store[k] # b
=============================================================================
