----------------------------- MODULE BulkProofs -----------------------------
(***************************************************************************)
(* Theorems about BulkRepository, for every set of calls and keys.         *)
(***************************************************************************)
EXTENDS BulkRepository, TLAPS

------------------------------------------------------------------------------
(***************************************************************************)
(* Type correctness, whatever goes wrong                                   *)
(***************************************************************************)
LEMMA KeyTyped == \A b \in Batches : \A i \in DOMAIN Batch[b] : Key(b, i) \in Keys
<1> SUFFICES ASSUME NEW b \in Batches, NEW i \in DOMAIN Batch[b] PROVE Key(b, i) \in Keys
  OBVIOUS
<1>1. Batch[b] \in Seq([key : Keys, storable : BOOLEAN])
  BY BulkAssumption
<1>2. Batch[b][i] \in [key : Keys, storable : BOOLEAN]
  <2> DEFINE S == [key : Keys, storable : BOOLEAN]
  <2>1. Batch[b] \in Seq(S)
    BY <1>1
  <2> HIDE DEF S
  <2>2. DOMAIN Batch[b] = 1 .. Len(Batch[b])
    BY <2>1
  <2>3. Batch[b][i] \in S
    BY <2>1, <2>2
  <2>4. QED
    BY <2>3 DEF S
<1>3. QED
  BY <1>2 DEF Key

\* What one call becomes leaves the others as they are.
LEMMA SaverTyped ==
    ASSUME TypeOK, NEW b \in Batches, NEW s \in Savers(b), SaverBecomes(b, s)
    PROVE  /\ DOMAIN saver' = Batches /\ \A x \in Batches : saver'[x] \in Savers(x)
           /\ saver'[b] = s /\ \A x \in Batches \ {b} : saver'[x] = saver[x]
<1>1. DOMAIN saver' = Batches /\ saver'[b] = s /\ \A x \in Batches \ {b} : saver'[x] = saver[x]
  BY DEF TypeOK, SaverBecomes
<1>2. QED
  BY <1>1 DEF TypeOK

LEMMA StoreTyped ==
    ASSUME TypeOK, NEW k \in Keys
    PROVE  /\ \A w \in Writers : SetNX(k, w) => store' \in [Keys -> Writers \union {Nobody}]
           /\ Deletes(k) => store' \in [Keys -> Writers \union {Nobody}]
BY DEF TypeOK, SetNX, Deletes

LEMMA LeftTyped ==
    ASSUME NEW commands, NEW left \in Remains(commands)
    PROVE  left \subseteq commands
BY DEF Remains

\* A step of a batch changes its own call and the store.
LEMMA SaverStepTyped ==
    ASSUME TypeOK, NEW b \in Batches, SaverStep(b)
    PROVE  TypeOK'
<1>1. saver[b] \in Savers(b) /\ b \in Writers /\ store \in [Keys -> Writers \union {Nobody}]
  BY DEF TypeOK, Writers
<1>2. RollbackKeys(b) \subseteq Keys
  BY <1>1, KeyTyped DEF RollbackKeys, SavedKeys, Savers, Valid
<1>3. ASSUME NEW s \in Savers(b), SaverBecomes(b, s),
             store' \in [Keys -> Writers \union {Nobody}],
             UNCHANGED <<lapsed, reader, deleter, spent>>
      PROVE  TypeOK'
  <2>1. DOMAIN saver' = Batches /\ \A x \in Batches : saver'[x] \in Savers(x)
    BY <1>3, SaverTyped
  <2>2. QED
    BY <1>3, <2>1 DEF TypeOK
<1>4. CASE SaveMany(b)
  <2>1. [saver[b] EXCEPT !.pc = "done", !.fate = "invalid"] \in Savers(b)
    BY <1>1 DEF Savers, SaverFates
  <2>2. [saver[b] EXCEPT !.pc = "piping", !.todo = Valid(b)] \in Savers(b)
    BY <1>1 DEF Savers
  <2>3. QED
    BY <1>1, <1>3, <1>4, <2>1, <2>2 DEF SaveMany
<1>5. ASSUME NEW i \in Valid(b), PipelineSet(b, i) PROVE TypeOK'
  <2> DEFINE s == [saver[b] EXCEPT
                     !.todo = saver[b].todo \ {i},
                     !.saved = saver[b].saved \union (IF store[Key(b, i)] = Nobody THEN {i} ELSE {})]
  <2>1. s \in Savers(b)
    BY <1>1 DEF Savers
  <2>2. Key(b, i) \in Keys /\ store' \in [Keys -> Writers \union {Nobody}]
    BY <1>1, <1>5, KeyTyped, StoreTyped DEF PipelineSet, Valid
  <2>3. QED
    BY <1>3, <1>5, <2>1, <2>2 DEF PipelineSet
<1>6. CASE PipelineReturns(b)
  <2> DEFINE fate == IF ~Fails(b) THEN "ok" ELSE IF Collides(b) THEN "collision" ELSE "invalid"
             s == [saver[b] EXCEPT
                     !.pc = IF RollbackKeys(b) = {} THEN "done" ELSE "rolling",
                     !.undo = RollbackKeys(b), !.fate = fate]
  <2>1. s \in Savers(b)
    BY <1>1, <1>2 DEF Savers, SaverFates
  <2>2. QED
    BY <1>1, <1>3, <1>6, <2>1 DEF PipelineReturns
<1>7. ASSUME NEW f \in SaverFates, PipelineBreaks(b, f) PROVE TypeOK'
  <2>1. PICK left \in Remains(saver[b].todo) :
           SaverBecomes(b, [saver[b] EXCEPT !.pc = "done", !.todo = left, !.fate = f])
    BY <1>7 DEF PipelineBreaks
  <2>2. [saver[b] EXCEPT !.pc = "done", !.todo = left, !.fate = f] \in Savers(b)
    BY <1>1, LeftTyped DEF Savers
  <2>3. QED
    BY <1>1, <1>3, <1>7, <2>1, <2>2 DEF PipelineBreaks
<1>8. ASSUME NEW k \in Keys, RollbackDelete(b, k) PROVE TypeOK'
  <2> DEFINE left == saver[b].undo \ {k}
             s == [saver[b] EXCEPT
                     !.undo = left,
                     !.pc = IF left = {} THEN "done" ELSE saver[b].pc,
                     !.undone = (left = {} /\ saver[b].pc = "rolling")]
  <2>1. s \in Savers(b)
    BY <1>1 DEF Savers
  <2>2. store' \in [Keys -> Writers \union {Nobody}]
    BY <1>8, StoreTyped DEF RollbackDelete
  <2>3. QED
    BY <1>3, <1>8, <2>1, <2>2 DEF RollbackDelete
<1>9. ASSUME NEW f \in SaverFates, RollbackBreaks(b, f) PROVE TypeOK'
  <2>1. PICK left \in Remains(saver[b].undo) :
           SaverBecomes(b, [saver[b] EXCEPT !.pc = "done", !.undo = left, !.fate = f])
    BY <1>9 DEF RollbackBreaks
  <2>2. [saver[b] EXCEPT !.pc = "done", !.undo = left, !.fate = f] \in Savers(b)
    BY <1>1, LeftTyped DEF Savers
  <2>3. QED
    BY <1>1, <1>3, <1>9, <2>1, <2>2 DEF RollbackBreaks
<1>10. "storage_error" \in SaverFates /\ "cancelled" \in SaverFates /\ saver[b].fate \in SaverFates
  BY <1>1 DEF Savers, SaverFates
<1>11. QED
  BY <1>4, <1>5, <1>6, <1>7, <1>8, <1>9, <1>10
  DEF SaverStep, PipelineFails, CancelPipeline, RollbackFails, CancelRollback

LEMMA ReaderStepTyped ==
    ASSUME TypeOK, NEW r \in Readers, ReaderStep(r)
    PROVE  TypeOK'
<1>1. reader[r] \in ReaderStates /\ store \in [Keys -> Writers \union {Nobody}]
      /\ Wanted[r] \subseteq Keys /\ DOMAIN reader = Readers
  BY BulkAssumption DEF TypeOK
<1>2. ASSUME NEW s \in ReaderStates, ReaderBecomes(r, s),
             store' \in [Keys -> Writers \union {Nobody}],
             UNCHANGED <<lapsed, saver, deleter, spent>>
      PROVE  TypeOK'
  BY <1>2 DEF TypeOK, ReaderBecomes
<1>3. CASE GetMany(r)
  <2>1. [reader[r] EXCEPT !.pc = "done", !.fate = "ok"] \in ReaderStates
    BY <1>1 DEF ReaderStates, ReaderFates
  <2>2. [reader[r] EXCEPT !.pc = "reading", !.todo = Wanted[r]] \in ReaderStates
    BY <1>1 DEF ReaderStates
  <2>3. QED
    BY <1>1, <1>2, <1>3, <2>1, <2>2 DEF GetMany
<1>4. ASSUME NEW k \in Keys, ReadKey(r, k) PROVE TypeOK'
  <2>1. [reader[r] EXCEPT !.todo = reader[r].todo \ {k},
                         !.got = [reader[r].got EXCEPT ![k] = store[k]]] \in ReaderStates
    BY <1>1 DEF ReaderStates
  <2>2. QED
    BY <1>1, <1>2, <1>4, <2>1 DEF ReadKey
<1>5. CASE ReadsReturn(r)
  <2>1. /\ [reader[r] EXCEPT !.pc = "done", !.fate = "corrupt"] \in ReaderStates
        /\ [reader[r] EXCEPT !.pc = "done", !.fate = "ok"] \in ReaderStates
    BY <1>1 DEF ReaderStates, ReaderFates
  <2>2. ExpiredKeys(r) \subseteq Keys
    BY <1>1 DEF ExpiredKeys
  <2>3. [reader[r] EXCEPT !.pc = "purging", !.purge = ExpiredKeys(r)] \in ReaderStates
    BY <1>1, <2>2 DEF ReaderStates
  <2>4. QED
    BY <1>1, <1>2, <1>5, <2>1, <2>3 DEF ReadsReturn
<1>6. ASSUME NEW f \in ReaderFates, ReadsBreak(r, f) PROVE TypeOK'
  <2>1. [reader[r] EXCEPT !.pc = "done", !.todo = {}, !.fate = f] \in ReaderStates
    BY <1>1 DEF ReaderStates
  <2>2. QED
    BY <1>1, <1>2, <1>6, <2>1 DEF ReadsBreak
<1>7. ASSUME NEW k \in Keys, PurgeKey(r, k) PROVE TypeOK'
  <2> DEFINE left == reader[r].purge \ {k}
  <2>1. /\ [reader[r] EXCEPT !.purge = left, !.pc = "done", !.fate = "ok"] \in ReaderStates
        /\ [reader[r] EXCEPT !.purge = left] \in ReaderStates
    BY <1>1 DEF ReaderStates, ReaderFates
  <2>2. store' \in [Keys -> Writers \union {Nobody}]
    BY <1>7, StoreTyped DEF PurgeKey
  <2>3. QED
    BY <1>2, <1>7, <2>1, <2>2 DEF PurgeKey
<1>8. ASSUME NEW f \in ReaderFates, PurgeBreaks(r, f) PROVE TypeOK'
  <2>1. PICK left \in Remains(reader[r].purge) :
           ReaderBecomes(r, [reader[r] EXCEPT !.pc = "done", !.purge = left, !.fate = f])
    BY <1>8 DEF PurgeBreaks
  <2>2. [reader[r] EXCEPT !.pc = "done", !.purge = left, !.fate = f] \in ReaderStates
    BY <1>1, LeftTyped DEF ReaderStates
  <2>3. QED
    BY <1>1, <1>2, <1>8, <2>1, <2>2 DEF PurgeBreaks
<1>9. {"storage_error", "cancelled", "ok"} \subseteq ReaderFates
  BY DEF ReaderFates
<1>10. QED
  BY <1>3, <1>4, <1>5, <1>6, <1>7, <1>8, <1>9
  DEF ReaderStep, ReadsFail, CancelReads, PurgeFails, CancelPurge

LEMMA DeleterStepTyped ==
    ASSUME TypeOK, NEW d \in Deleters, DeleterStep(d)
    PROVE  TypeOK'
<1>1. deleter[d] \in DeleterStates /\ Wanted[d] \subseteq Keys /\ DOMAIN deleter = Deleters
      /\ store \in [Keys -> Writers \union {Nobody}]
  BY BulkAssumption DEF TypeOK
<1>2. ASSUME NEW s \in DeleterStates, DeleterBecomes(d, s),
             store' \in [Keys -> Writers \union {Nobody}],
             UNCHANGED <<lapsed, saver, reader, spent>>
      PROVE  TypeOK'
  BY <1>2 DEF TypeOK, DeleterBecomes
<1>3. CASE DeleteMany(d)
  <2>1. /\ [deleter[d] EXCEPT !.pc = "done"] \in DeleterStates
        /\ [deleter[d] EXCEPT !.pc = "deleting", !.todo = Wanted[d]] \in DeleterStates
    BY <1>1 DEF DeleterStates
  <2>2. QED
    BY <1>1, <1>2, <1>3, <2>1 DEF DeleteMany
<1>4. ASSUME NEW k \in Keys, DeleteKey(d, k) PROVE TypeOK'
  <2> DEFINE left == deleter[d].todo \ {k}
             n == IF store[k] = Nobody THEN 0 ELSE 1
             s == [deleter[d] EXCEPT
                     !.pc = IF left = {} THEN "done" ELSE deleter[d].pc,
                     !.todo = left,
                     !.count = deleter[d].count + n]
  <2>1. deleter[d].count + n \in Nat
    BY <1>1 DEF DeleterStates
  <2>2. s \in DeleterStates
    <3> HIDE DEF n
    <3>1. QED
      BY <1>1, <2>1 DEF DeleterStates
  <2>3. store' \in [Keys -> Writers \union {Nobody}]
    BY <1>4, StoreTyped DEF DeleteKey
  <2>4. QED
    BY <1>2, <1>4, <2>2, <2>3 DEF DeleteKey
<1>5. CASE DeletesBreak(d)
  <2>1. PICK left \in Remains(deleter[d].todo) :
           DeleterBecomes(d, [deleter[d] EXCEPT !.pc = "done", !.todo = left])
    BY <1>5 DEF DeletesBreak
  <2>2. [deleter[d] EXCEPT !.pc = "done", !.todo = left] \in DeleterStates
    BY <1>1, LeftTyped DEF DeleterStates
  <2>3. QED
    BY <1>1, <1>2, <1>5, <2>1, <2>2 DEF DeletesBreak
<1>6. QED
  BY <1>3, <1>4, <1>5 DEF DeleterStep

LEMMA NextTyped == TypeOK /\ [Next]_vars => TypeOK'
<1> SUFFICES ASSUME TypeOK, [Next]_vars PROVE TypeOK'
  OBVIOUS
<1>1. CASE UNCHANGED vars
  BY <1>1 DEF vars, TypeOK, Savers
<1>2. ASSUME NEW w \in Singles, NEW k \in Keys, SaveSingle(w, k) PROVE TypeOK'
  <2>1. w \in Writers
    BY DEF Writers
  <2>2. QED
    BY <1>2, <2>1, StoreTyped DEF SaveSingle, TypeOK
<1>3. ASSUME NEW k \in Keys, Lapse(k) PROVE TypeOK'
  BY <1>3 DEF Lapse, TypeOK
<1>4. ASSUME NEW k \in Keys, Evict(k) PROVE TypeOK'
  BY <1>4, StoreTyped DEF Evict, TypeOK
<1>5. QED
  BY <1>1, <1>2, <1>3, <1>4, SaverStepTyped, ReaderStepTyped, DeleterStepTyped DEF Next

LEMMA InitTyped == Init => TypeOK
<1> SUFFICES ASSUME Init PROVE TypeOK
  OBVIOUS
<1>1. store \in [Keys -> Writers \union {Nobody}]
  BY BulkAssumption DEF Init, Writers
<1>2. DOMAIN saver = Batches /\ \A b \in Batches : saver[b] \in Savers(b)
  BY DEF Init, Savers, SaverFates
<1>3. reader \in [Readers -> ReaderStates] /\ deleter \in [Deleters -> DeleterStates]
  BY DEF Init, ReaderStates, ReaderFates, DeleterStates
<1>4. QED
  BY <1>1, <1>2, <1>3 DEF Init, TypeOK

\* The keys and the calls keep their shape under every fault; in particular what a
\* rollback or a purge is about to delete are keys its call was given.
THEOREM TypeCorrect == Spec => []TypeOK
BY InitTyped, NextTyped, PTL DEF Spec

------------------------------------------------------------------------------
(***************************************************************************)
(* Rollback, whatever goes wrong                                           *)
(***************************************************************************)
\* Every key a batch owns is one it wrote; while it rolls back, one it still has to
\* delete; and after that it has none, and no command left that could write one.
Accounted(b) ==
    /\ OwnedKeys(b) \subseteq SavedKeys(b)
    /\ saver[b].pc = "idle" => saver[b].saved = {}
    /\ saver[b].pc \in {"idle", "rolling"} => saver[b].todo = {}
    /\ saver[b].pc \in {"idle", "piping"} => saver[b].undo = {}
    /\ saver[b].pc = "rolling" => OwnedKeys(b) \subseteq saver[b].undo
    /\ saver[b].undone =>
          saver[b].pc = "done" /\ saver[b].todo = {} /\ saver[b].undo = {} /\ OwnedKeys(b) = {}

AllAccounted == TypeOK /\ \A b \in Batches : Accounted(b)

\* Who owns what after a SET NX and after a DEL.
LEMMA OwnedAfter ==
    ASSUME TypeOK, NEW b \in Batches, NEW k \in Keys
    PROVE  /\ \A w \in Writers : SetNX(k, w) /\ w # b => OwnedKeys(b)' = OwnedKeys(b)
           /\ SetNX(k, b) => OwnedKeys(b)' =
                 OwnedKeys(b) \union (IF store[k] = Nobody THEN {k} ELSE {})
           /\ Deletes(k) => OwnedKeys(b)' = OwnedKeys(b) \ {k}
           /\ UNCHANGED store => OwnedKeys(b)' = OwnedKeys(b)
<1>1. b # Nobody /\ store \in [Keys -> Writers \union {Nobody}]
  BY BulkAssumption DEF TypeOK, Writers
<1>2. QED
  BY <1>1 DEF OwnedKeys, SetNX, Deletes

\* A call that is not touched stays accounted for if it does not gain a key.
LEMMA StaysAccounted ==
    ASSUME NEW b \in Batches, Accounted(b), saver'[b] = saver[b],
           OwnedKeys(b)' \subseteq OwnedKeys(b)
    PROVE  Accounted(b)'
BY DEF Accounted, SavedKeys

LEMMA SaverStepAccounted ==
    ASSUME AllAccounted, NEW b \in Batches, SaverStep(b)
    PROVE  \A x \in Batches : Accounted(x)'
<1>1. TypeOK /\ saver[b] \in Savers(b) /\ Accounted(b) /\ DOMAIN saver = Batches /\ b \in Writers
  BY DEF AllAccounted, TypeOK, Writers
<1>2. ASSUME NEW s, SaverBecomes(b, s)
      PROVE  saver'[b] = s /\ \A x \in Batches \ {b} : saver'[x] = saver[x]
  BY <1>1, <1>2 DEF SaverBecomes
<1>3. ASSUME NEW s, SaverBecomes(b, s), Accounted(b)',
             \/ UNCHANGED store
             \/ \E k \in Keys : SetNX(k, b) \/ Deletes(k)
      PROVE  \A x \in Batches : Accounted(x)'
  <2> SUFFICES ASSUME NEW x \in Batches, x # b PROVE Accounted(x)'
    BY <1>3
  <2>1. OwnedKeys(x)' \subseteq OwnedKeys(x)
    <3>1. CASE UNCHANGED store
      BY <3>1 DEF OwnedKeys
    <3>2. ASSUME NEW k \in Keys, SetNX(k, b) PROVE OwnedKeys(x)' = OwnedKeys(x)
      BY <1>1, <3>2, OwnedAfter
    <3>3. ASSUME NEW k \in Keys, Deletes(k) PROVE OwnedKeys(x)' = OwnedKeys(x) \ {k}
      BY <1>1, <3>3, OwnedAfter
    <3>4. QED
      BY <1>3, <3>1, <3>2, <3>3
  <2>2. QED
    BY <1>2, <1>3, <2>1, StaysAccounted DEF AllAccounted
<1>4. CASE SaveMany(b)
  <2> DEFINE s == IF Valid(b) = {}
                     THEN [saver[b] EXCEPT !.pc = "done", !.fate = "invalid"]
                     ELSE [saver[b] EXCEPT !.pc = "piping", !.todo = Valid(b)]
  <2>1. SaverBecomes(b, s) /\ UNCHANGED store /\ saver[b].pc = "idle"
    BY <1>4 DEF SaveMany
  <2>2. saver'[b] = s /\ OwnedKeys(b)' = OwnedKeys(b)
    BY <1>1, <1>2, <2>1, OwnedAfter DEF OwnedKeys
  <2>3. Accounted(b)'
    BY <1>1, <2>1, <2>2 DEF Accounted, SavedKeys, Savers
  <2>4. QED
    BY <1>3, <2>1, <2>3
<1>5. ASSUME NEW i \in Valid(b), PipelineSet(b, i) PROVE \A x \in Batches : Accounted(x)'
  <2> DEFINE s == [saver[b] EXCEPT
                     !.todo = saver[b].todo \ {i},
                     !.saved = saver[b].saved \union (IF store[Key(b, i)] = Nobody THEN {i} ELSE {})]
  <2>1. SaverBecomes(b, s) /\ SetNX(Key(b, i), b) /\ Key(b, i) \in Keys /\ i \in saver[b].todo
    BY <1>5, KeyTyped DEF PipelineSet, Valid
  <2>2. saver'[b] = s
    BY <1>2, <2>1
  <2>3. OwnedKeys(b)' = OwnedKeys(b) \union (IF store[Key(b, i)] = Nobody THEN {Key(b, i)} ELSE {})
    BY <1>1, <2>1, OwnedAfter
  <2>4. SavedKeys(b)' = SavedKeys(b) \union (IF store[Key(b, i)] = Nobody THEN {Key(b, i)} ELSE {})
    BY <1>1, <2>2 DEF SavedKeys, Savers
  <2>5. saver[b].pc \in {"piping", "done"} /\ ~saver[b].undone
    BY <1>1, <2>1 DEF Accounted, Savers
  <2>6. s.pc = saver[b].pc /\ s.undo = saver[b].undo /\ s.undone = saver[b].undone
    BY <1>1 DEF Savers
  <2>7. Accounted(b)'
    <3> HIDE DEF s
    <3>1. QED
      BY <1>1, <2>2, <2>3, <2>4, <2>5, <2>6 DEF Accounted
  <2>8. QED
    BY <1>3, <2>1, <2>7
<1>6. CASE PipelineReturns(b)
  <2> DEFINE fate == IF ~Fails(b) THEN "ok" ELSE IF Collides(b) THEN "collision" ELSE "invalid"
             s == [saver[b] EXCEPT
                     !.pc = IF RollbackKeys(b) = {} THEN "done" ELSE "rolling",
                     !.undo = RollbackKeys(b), !.fate = fate]
  <2>1. SaverBecomes(b, s) /\ UNCHANGED store /\ saver[b].pc = "piping" /\ saver[b].todo = {}
    BY <1>6 DEF PipelineReturns
  <2>2. saver'[b] = s /\ OwnedKeys(b)' = OwnedKeys(b)
    BY <1>1, <1>2, <2>1, OwnedAfter DEF OwnedKeys
  <2>3. RollbackKeys(b) # {} => OwnedKeys(b) \subseteq RollbackKeys(b)
    BY <1>1 DEF RollbackKeys, Accounted
  <2>4. SavedKeys(b)' = SavedKeys(b) /\ ~saver[b].undone
    BY <1>1, <2>1, <2>2 DEF SavedKeys, Savers, Accounted
  <2>5. Accounted(b)'
    BY <1>1, <2>1, <2>2, <2>3, <2>4 DEF Accounted, Savers
  <2>6. QED
    BY <1>3, <2>1, <2>5
<1>7. ASSUME NEW f, PipelineBreaks(b, f) PROVE \A x \in Batches : Accounted(x)'
  <2>1. PICK left \in Remains(saver[b].todo) :
           SaverBecomes(b, [saver[b] EXCEPT !.pc = "done", !.todo = left, !.fate = f])
    BY <1>7 DEF PipelineBreaks
  <2>2. saver'[b] = [saver[b] EXCEPT !.pc = "done", !.todo = left, !.fate = f]
    BY <1>2, <2>1
  <2>3. UNCHANGED store /\ saver[b].pc = "piping" /\ OwnedKeys(b)' = OwnedKeys(b)
    BY <1>1, <1>7, OwnedAfter DEF PipelineBreaks, OwnedKeys
  <2>4. Accounted(b)'
    BY <1>1, <2>2, <2>3 DEF Accounted, SavedKeys, Savers
  <2>5. QED
    BY <1>3, <2>1, <2>3, <2>4
<1>8. ASSUME NEW k \in Keys, RollbackDelete(b, k) PROVE \A x \in Batches : Accounted(x)'
  <2> DEFINE left == saver[b].undo \ {k}
             s == [saver[b] EXCEPT
                     !.undo = left,
                     !.pc = IF left = {} THEN "done" ELSE saver[b].pc,
                     !.undone = (left = {} /\ saver[b].pc = "rolling")]
  <2>1. SaverBecomes(b, s) /\ Deletes(k) /\ k \in saver[b].undo
    BY <1>8 DEF RollbackDelete
  <2>2. saver'[b] = s /\ OwnedKeys(b)' = OwnedKeys(b) \ {k}
    BY <1>1, <1>2, <2>1, OwnedAfter
  <2>3. saver[b].pc \in {"rolling", "done"}
    BY <1>1, <2>1 DEF Accounted, Savers
  <2>4. SavedKeys(b)' = SavedKeys(b)
    BY <1>1, <2>2 DEF SavedKeys, Savers
  <2>5. Accounted(b)'
    BY <1>1, <2>2, <2>3, <2>4 DEF Accounted, Savers
  <2>6. QED
    BY <1>3, <2>1, <2>5
<1>9. ASSUME NEW f, RollbackBreaks(b, f) PROVE \A x \in Batches : Accounted(x)'
  <2>1. PICK left \in Remains(saver[b].undo) :
           SaverBecomes(b, [saver[b] EXCEPT !.pc = "done", !.undo = left, !.fate = f])
    BY <1>9 DEF RollbackBreaks
  <2>2. saver'[b] = [saver[b] EXCEPT !.pc = "done", !.undo = left, !.fate = f]
    BY <1>2, <2>1
  <2>3. UNCHANGED store /\ saver[b].pc = "rolling" /\ OwnedKeys(b)' = OwnedKeys(b)
    BY <1>1, <1>9, OwnedAfter DEF RollbackBreaks, OwnedKeys
  <2>4. Accounted(b)'
    BY <1>1, <2>2, <2>3 DEF Accounted, SavedKeys, Savers
  <2>5. QED
    BY <1>3, <2>1, <2>3, <2>4
<1>10. QED
  BY <1>4, <1>5, <1>6, <1>7, <1>8, <1>9
  DEF SaverStep, PipelineFails, CancelPipeline, RollbackFails, CancelRollback

\* A step that is not one of a batch takes keys from the batches or leaves them alone.
LEMMA OthersTake ==
    ASSUME TypeOK, [Next]_vars, \A b \in Batches : ~SaverStep(b), NEW x \in Batches
    PROVE  saver'[x] = saver[x] /\ OwnedKeys(x)' \subseteq OwnedKeys(x)
<1>1. CASE UNCHANGED vars
  BY <1>1 DEF vars, OwnedKeys
<1>2. ASSUME UNCHANGED saver, UNCHANGED store \/ \E k \in Keys : Deletes(k)
      PROVE  saver'[x] = saver[x] /\ OwnedKeys(x)' \subseteq OwnedKeys(x)
  <2>1. ASSUME NEW k \in Keys, Deletes(k) PROVE OwnedKeys(x)' = OwnedKeys(x) \ {k}
    BY <2>1, OwnedAfter
  <2>2. CASE UNCHANGED store
    BY <1>2, <2>2 DEF OwnedKeys
  <2>3. QED
    BY <1>2, <2>1, <2>2
<1>3. ASSUME NEW r \in Readers, ReaderStep(r)
      PROVE  UNCHANGED saver /\ (UNCHANGED store \/ \E k \in Keys : Deletes(k))
  BY <1>3 DEF ReaderStep, GetMany, ReadKey, PurgeKey, ReadsReturn, ReadsFail, CancelReads,
     ReadsBreak, PurgeFails, CancelPurge, PurgeBreaks
<1>4. ASSUME NEW d \in Deleters, DeleterStep(d)
      PROVE  UNCHANGED saver /\ (UNCHANGED store \/ \E k \in Keys : Deletes(k))
  BY <1>4 DEF DeleterStep, DeleteMany, DeleteKey, DeletesBreak
<1>5. ASSUME NEW k \in Keys, Lapse(k) \/ Evict(k)
      PROVE  UNCHANGED saver /\ (UNCHANGED store \/ Deletes(k))
  BY <1>5 DEF Lapse, Evict
<1>6. ASSUME NEW w \in Singles, NEW k \in Keys, SaveSingle(w, k)
      PROVE  saver'[x] = saver[x] /\ OwnedKeys(x)' \subseteq OwnedKeys(x)
  <2>1. w \in Writers /\ w # x
    BY BulkAssumption DEF Writers
  <2>2. QED
    BY <1>6, <2>1, OwnedAfter DEF SaveSingle
<1>7. QED
  BY <1>1, <1>2, <1>3, <1>4, <1>5, <1>6 DEF Next

LEMMA AccountedNext == AllAccounted /\ [Next]_vars => AllAccounted'
<1> SUFFICES ASSUME AllAccounted, [Next]_vars PROVE AllAccounted'
  OBVIOUS
<1>1. TypeOK'
  BY NextTyped DEF AllAccounted
<1>2. CASE \E b \in Batches : SaverStep(b)
  BY <1>1, <1>2, SaverStepAccounted DEF AllAccounted
<1>3. CASE \A b \in Batches : ~SaverStep(b)
  BY <1>1, <1>3, OthersTake, StaysAccounted DEF AllAccounted
<1>4. QED
  BY <1>2, <1>3

LEMMA AccountedInit == Init => AllAccounted
<1> SUFFICES ASSUME Init PROVE AllAccounted
  OBVIOUS
<1>1. \A b \in Batches : OwnedKeys(b) = {}
  <2>1. \A b \in Batches : b \notin Leftovers
    BY BulkAssumption DEF Writers
  <2>2. QED
    BY <2>1 DEF Init, OwnedKeys
<1>2. QED
  BY <1>1, InitTyped DEF Init, AllAccounted, Accounted, SavedKeys

\* A rollback that went through leaves nothing of its batch behind, for any number
\* of calls and under every fault: commands that land late, cancellations, outages.
THEOREM RollbackDone == Spec => []RollbackComplete
<1>1. AllAccounted => RollbackComplete
  BY DEF AllAccounted, Accounted, RollbackComplete, OwnedKeys
<1>2. QED
  BY <1>1, AccountedInit, AccountedNext, PTL DEF Spec

------------------------------------------------------------------------------
(***************************************************************************)
(* All or nothing, in the quiet regime                                     *)
(***************************************************************************)
LEMMA InvInit == ASSUME Init PROVE RollbackInv
<1>1. \A b \in Batches : OwnedKeys(b) = {}
  BY AccountedInit DEF AllAccounted, Accounted, Init, SavedKeys
<1>2. QED
  BY <1>1, InitTyped DEF Init, RollbackInv, BatchInv, SavedKeys

LEMMA StaysInv ==
    ASSUME NEW b \in Batches, BatchInv(b), saver'[b] = saver[b], OwnedKeys(b)' = OwnedKeys(b)
    PROVE  BatchInv(b)'
BY DEF BatchInv, SavedKeys

\* The rollback of a batch deletes its own records.
LEMMA RollbackOwn ==
    ASSUME RollbackInv, NEW b \in Batches, NEW k \in Keys, RollbackDelete(b, k)
    PROVE  saver[b].pc = "rolling" /\ k \in OwnedKeys(b) /\ store[k] = b
<1>1. saver[b] \in Savers(b) /\ BatchInv(b) /\ k \in saver[b].undo
  BY DEF RollbackInv, TypeOK, RollbackDelete
<1>2. saver[b].pc = "rolling"
  BY <1>1 DEF BatchInv, Savers
<1>3. QED
  BY <1>1, <1>2 DEF BatchInv, OwnedKeys

LEMMA SaverStepInv ==
    ASSUME Quiet, RollbackInv, NEW b \in Batches, SaverStep(b)
    PROVE  \A x \in Batches : BatchInv(x)'
<1>1. TypeOK /\ saver[b] \in Savers(b) /\ BatchInv(b) /\ DOMAIN saver = Batches /\ b \in Writers
  BY DEF RollbackInv, TypeOK, Writers
<1>2. ASSUME NEW s, SaverBecomes(b, s)
      PROVE  saver'[b] = s /\ \A x \in Batches \ {b} : saver'[x] = saver[x]
  BY <1>1, <1>2 DEF SaverBecomes
<1>3. ASSUME NEW s, SaverBecomes(b, s), BatchInv(b)',
             \/ UNCHANGED store
             \/ \E k \in Keys : SetNX(k, b)
             \/ \E k \in Keys : Deletes(k) /\ store[k] = b
      PROVE  \A x \in Batches : BatchInv(x)'
  <2> SUFFICES ASSUME NEW x \in Batches, x # b PROVE BatchInv(x)'
    BY <1>3
  <2>1. OwnedKeys(x)' = OwnedKeys(x)
    <3>1. CASE UNCHANGED store
      BY <3>1 DEF OwnedKeys
    <3>2. ASSUME NEW k \in Keys, SetNX(k, b) PROVE OwnedKeys(x)' = OwnedKeys(x)
      BY <1>1, <3>2, OwnedAfter
    <3>3. ASSUME NEW k \in Keys, Deletes(k), store[k] = b PROVE OwnedKeys(x)' = OwnedKeys(x)
      <4>1. OwnedKeys(x)' = OwnedKeys(x) \ {k}
        BY <1>1, <3>3, OwnedAfter
      <4>2. k \notin OwnedKeys(x)
        BY <3>3 DEF OwnedKeys
      <4>3. QED
        BY <4>1, <4>2
    <3>4. QED
      BY <1>3, <3>1, <3>2, <3>3
  <2>2. QED
    BY <1>2, <1>3, <2>1, StaysInv DEF RollbackInv
<1>4. CASE SaveMany(b)
  <2> DEFINE s == IF Valid(b) = {}
                     THEN [saver[b] EXCEPT !.pc = "done", !.fate = "invalid"]
                     ELSE [saver[b] EXCEPT !.pc = "piping", !.todo = Valid(b)]
  <2>1. SaverBecomes(b, s) /\ UNCHANGED store /\ saver[b].pc = "idle"
    BY <1>4 DEF SaveMany
  <2>2. saver'[b] = s /\ OwnedKeys(b)' = OwnedKeys(b)
    BY <1>1, <1>2, <2>1, OwnedAfter DEF OwnedKeys
  <2>3. BatchInv(b)'
    BY <1>1, <2>1, <2>2 DEF BatchInv, SavedKeys, Savers
  <2>4. QED
    BY <1>3, <2>1, <2>3
<1>5. ASSUME NEW i \in Valid(b), PipelineSet(b, i) PROVE \A x \in Batches : BatchInv(x)'
  <2> DEFINE s == [saver[b] EXCEPT
                     !.todo = saver[b].todo \ {i},
                     !.saved = saver[b].saved \union (IF store[Key(b, i)] = Nobody THEN {i} ELSE {})]
  <2>1. SaverBecomes(b, s) /\ SetNX(Key(b, i), b) /\ Key(b, i) \in Keys /\ i \in saver[b].todo
    BY <1>5, KeyTyped DEF PipelineSet, Valid
  <2>2. saver'[b] = s
    BY <1>2, <2>1
  <2>3. OwnedKeys(b)' = OwnedKeys(b) \union (IF store[Key(b, i)] = Nobody THEN {Key(b, i)} ELSE {})
    BY <1>1, <2>1, OwnedAfter
  <2>4. SavedKeys(b)' = SavedKeys(b) \union (IF store[Key(b, i)] = Nobody THEN {Key(b, i)} ELSE {})
    BY <1>1, <2>2 DEF SavedKeys, Savers
  <2>5. saver[b].pc = "piping"
    BY <1>1, <2>1 DEF BatchInv, Savers
  <2>6. s.pc = saver[b].pc /\ s.undo = saver[b].undo /\ s.fate = saver[b].fate
    BY <1>1 DEF Savers
  <2>7. BatchInv(b)'
    <3> HIDE DEF s
    <3>1. QED
      BY <1>1, <2>2, <2>3, <2>4, <2>5, <2>6 DEF BatchInv
  <2>8. QED
    BY <1>3, <2>1, <2>7
<1>6. CASE PipelineReturns(b)
  <2> DEFINE fate == IF ~Fails(b) THEN "ok" ELSE IF Collides(b) THEN "collision" ELSE "invalid"
             s == [saver[b] EXCEPT
                     !.pc = IF RollbackKeys(b) = {} THEN "done" ELSE "rolling",
                     !.undo = RollbackKeys(b), !.fate = fate]
  <2>1. SaverBecomes(b, s) /\ UNCHANGED store /\ saver[b].pc = "piping" /\ saver[b].todo = {}
    BY <1>6 DEF PipelineReturns
  <2>2. saver'[b] = s /\ OwnedKeys(b)' = OwnedKeys(b) /\ OwnedKeys(b) = SavedKeys(b)
    BY <1>1, <1>2, <2>1, OwnedAfter DEF OwnedKeys, BatchInv
  <2>3. s.saved = saver[b].saved /\ s.todo = {} /\ s.undo = RollbackKeys(b) /\ s.fate = fate
        /\ s.pc = IF RollbackKeys(b) = {} THEN "done" ELSE "rolling"
    BY <1>1, <2>1 DEF Savers
  <2>4. SavedKeys(b)' = SavedKeys(b)
    BY <2>2, <2>3 DEF SavedKeys
  <2>5. fate = "ok" <=> ~Fails(b)
    OBVIOUS
  <2>6. ~Fails(b) => saver[b].saved = DOMAIN Batch[b]
    BY DEF Fails, HasInvalid, Collides
  <2>7. RollbackKeys(b) = IF Fails(b) /\ Rollback[b] THEN SavedKeys(b) ELSE {}
    BY DEF RollbackKeys
  <2>8. BatchInv(b)'
    <3> HIDE DEF s, fate
    <3>1. QED
      BY <2>2, <2>3, <2>4, <2>5, <2>6, <2>7 DEF BatchInv
  <2>9. QED
    BY <1>3, <2>1, <2>8
<1>7. ASSUME NEW k \in Keys, RollbackDelete(b, k) PROVE \A x \in Batches : BatchInv(x)'
  <2> DEFINE left == saver[b].undo \ {k}
             s == [saver[b] EXCEPT
                     !.undo = left,
                     !.pc = IF left = {} THEN "done" ELSE saver[b].pc,
                     !.undone = (left = {} /\ saver[b].pc = "rolling")]
  <2>1. SaverBecomes(b, s) /\ Deletes(k) /\ saver[b].pc = "rolling" /\ store[k] = b
    BY <1>7, RollbackOwn DEF RollbackDelete
  <2>2. saver'[b] = s /\ OwnedKeys(b)' = left
    BY <1>1, <1>2, <2>1, OwnedAfter DEF BatchInv
  <2>3. s.saved = saver[b].saved /\ s.todo = {} /\ s.undo = left /\ s.fate = saver[b].fate
        /\ s.pc = IF left = {} THEN "done" ELSE "rolling"
    BY <1>1, <2>1 DEF Savers, BatchInv
  <2>4. Rollback[b] /\ saver[b].fate # "ok"
    BY <1>1, <2>1 DEF BatchInv
  <2>5. BatchInv(b)'
    <3> HIDE DEF s, left
    <3>1. QED
      BY <2>2, <2>3, <2>4 DEF BatchInv
  <2>6. QED
    BY <1>3, <2>1, <2>5
<1>8. ~PipelineFails(b) /\ ~CancelPipeline(b) /\ ~RollbackFails(b) /\ ~CancelRollback(b)
  BY DEF Quiet, PipelineFails, CancelPipeline, RollbackFails, CancelRollback
<1>9. QED
  BY <1>4, <1>5, <1>6, <1>7, <1>8 DEF SaverStep

\* Nothing has expired, so no reader has anything to purge.
LEMMA ReaderStepQuiet ==
    ASSUME Quiet, RollbackInv, NEW r \in Readers, ReaderStep(r)
    PROVE  UNCHANGED <<store, lapsed, saver>> /\ \A q \in Readers : reader'[q].purge = {}
<1>1. reader \in [Readers -> ReaderStates] /\ lapsed = {} /\ \A q \in Readers : reader[q].purge = {}
  BY DEF RollbackInv, TypeOK
<1>2. /\ ~ReadsFail(r) /\ ~CancelReads(r) /\ ~PurgeFails(r) /\ ~CancelPurge(r)
      /\ \A k \in Keys : ~PurgeKey(r, k)
  BY <1>1 DEF Quiet, ReadsFail, CancelReads, PurgeFails, CancelPurge, PurgeKey
<1>3. ASSUME NEW s, ReaderBecomes(r, s), s.purge = {}
      PROVE  \A q \in Readers : reader'[q].purge = {}
  BY <1>1, <1>3 DEF ReaderBecomes
<1>4. CASE GetMany(r)
  <2> DEFINE s == IF Wanted[r] = {}
                     THEN [reader[r] EXCEPT !.pc = "done", !.fate = "ok"]
                     ELSE [reader[r] EXCEPT !.pc = "reading", !.todo = Wanted[r]]
  <2>1. s.purge = {} /\ ReaderBecomes(r, s)
    BY <1>1, <1>4 DEF GetMany, ReaderStates
  <2>2. QED
    BY <1>3, <1>4, <2>1 DEF GetMany
<1>5. ASSUME NEW k \in Keys, ReadKey(r, k)
      PROVE  UNCHANGED <<store, lapsed, saver>> /\ \A q \in Readers : reader'[q].purge = {}
  <2> DEFINE s == [reader[r] EXCEPT !.todo = reader[r].todo \ {k},
                                   !.got = [reader[r].got EXCEPT ![k] = store[k]]]
  <2>1. s.purge = {} /\ ReaderBecomes(r, s)
    BY <1>1, <1>5 DEF ReadKey, ReaderStates
  <2>2. QED
    BY <1>3, <1>5, <2>1 DEF ReadKey
<1>6. CASE ReadsReturn(r)
  <2>1. ExpiredKeys(r) = {}
    BY <1>1 DEF ExpiredKeys
  <2>2. PICK s \in {[reader[r] EXCEPT !.pc = "done", !.fate = "corrupt"],
                    [reader[r] EXCEPT !.pc = "done", !.fate = "ok"]} : ReaderBecomes(r, s)
    BY <1>6, <2>1 DEF ReadsReturn
  <2>3. s.purge = {}
    BY <1>1, <2>2 DEF ReaderStates
  <2>4. QED
    BY <1>3, <1>6, <2>2, <2>3 DEF ReadsReturn
<1>7. QED
  BY <1>2, <1>4, <1>5, <1>6 DEF ReaderStep

LEMMA InvNext == ASSUME Quiet PROVE RollbackInv /\ [Next]_vars => RollbackInv'
<1> SUFFICES ASSUME RollbackInv, [Next]_vars PROVE RollbackInv'
  OBVIOUS
<1>1. TypeOK /\ TypeOK'
  BY NextTyped DEF RollbackInv
<1>2. CASE UNCHANGED vars
  BY <1>1, <1>2 DEF vars, RollbackInv, BatchInv, OwnedKeys, SavedKeys
<1>3. ASSUME NEW b \in Batches, SaverStep(b) PROVE RollbackInv'
  <2>1. UNCHANGED <<lapsed, reader>>
    BY <1>3 DEF SaverStep, SaveMany, PipelineSet, PipelineReturns, PipelineFails, CancelPipeline,
       PipelineBreaks, RollbackDelete, RollbackFails, CancelRollback, RollbackBreaks
  <2>2. QED
    BY <1>1, <1>3, <2>1, SaverStepInv DEF RollbackInv
<1>4. ASSUME UNCHANGED <<lapsed, saver>>, \A q \in Readers : reader'[q].purge = {},
             \A x \in Batches : OwnedKeys(x)' = OwnedKeys(x)
      PROVE  RollbackInv'
  BY <1>1, <1>4, StaysInv DEF RollbackInv
<1>5. ASSUME NEW r \in Readers, ReaderStep(r) PROVE RollbackInv'
  BY <1>4, <1>5, ReaderStepQuiet DEF OwnedKeys
<1>6. ASSUME NEW w \in Singles, NEW k \in Keys, SaveSingle(w, k) PROVE RollbackInv'
  <2>1. w \in Writers /\ w \notin Batches
    BY BulkAssumption DEF Writers
  <2>2. \A x \in Batches : OwnedKeys(x)' = OwnedKeys(x)
    BY <1>1, <1>6, <2>1, OwnedAfter DEF SaveSingle
  <2>3. QED
    BY <1>4, <1>6, <2>2 DEF SaveSingle, RollbackInv
<1>7. \A k \in Keys : ~Lapse(k) /\ ~Evict(k)
  BY DEF Quiet, RollbackInv, Lapse, Evict
<1>8. QED
  BY <1>2, <1>3, <1>5, <1>6, <1>7 DEF Next, Quiet

\* The inductive invariant, for any number of calls.
THEOREM InvCorrect == ASSUME Quiet PROVE Spec => []RollbackInv
BY InvInit, InvNext, PTL DEF Spec

\* A batch that rolls back is stored as a whole or not at all, for any batches and
\* however the calls interleave.
THEOREM WholeOrNothing == ASSUME Quiet PROVE Spec => []AllOrNothing
<1>1. RollbackInv => AllOrNothing
  <2> SUFFICES ASSUME RollbackInv, NEW b \in Batches, Over(b), Rollback[b]
               PROVE  IF saver[b].fate = "ok" THEN \A i \in DOMAIN Batch[b] : store[Key(b, i)] = b
                                              ELSE \A k \in Keys : store[k] # b
    BY DEF AllOrNothing
  <2>1. BatchInv(b)
    BY DEF RollbackInv
  <2>2. QED
    BY <2>1 DEF BatchInv, Over, OwnedKeys, SavedKeys
<1>2. QED
  BY <1>1, InvCorrect, PTL

\* And its rollback deletes no record but its own.
THEOREM SparesOthers == ASSUME Quiet PROVE Spec => RollbackSparesOthers
<1>1. RollbackInv => \A b \in Batches, k \in Keys : RollbackDelete(b, k) => store[k] = b
  BY RollbackOwn
<1>2. QED
  BY <1>1, InvCorrect, PTL DEF RollbackSparesOthers
=============================================================================
