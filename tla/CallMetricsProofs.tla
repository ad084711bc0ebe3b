--------------------------- MODULE CallMetricsProofs ---------------------------
(***************************************************************************)
(* What the calls of Coordinator record about themselves under every       *)
(* fault: hits are replays, and no call that got through its claim is      *)
(* missing.                                                                *)
(***************************************************************************)
EXTENDS CallMetrics, CoordinatorProofs

\* The tally t of a coroutine in state s.
Tallied(s, t) ==
    /\ s.pc \in ClaimPcs \union {"idle"} => s.fate = "none" /\ s.ran = "no"
    /\ s.pc \in HolderPcs \union UnreservedPcs => s.ran # "no"
    /\ "hit" \in t => s.pc = "done"
    /\ "hit" \in t <=> s.fate = "value" /\ s.ran = "no"
    /\ \/ s.pc \notin ClaimPcs \union {"idle", "crashed"} /\ s.fate # "cancelled"
       \/ s.ran # "no"
       => t # {}

MInv == /\ TypeOK
        /\ tally \in [Callers -> SUBSET Kinds]
        /\ \A c \in Callers : Tallied(call[c], tally[c])

------------------------------------------------------------------------------
\* A step of one call, to the state s, that records kinds.
LEMMA OneCallTallied ==
    ASSUME MInv, TypeOK', NEW c \in Callers, NEW s, Become(c, s),
           NEW kinds \in SUBSET Kinds, Counts(c, kinds), Tallied(s, tally[c] \union kinds)
    PROVE  MInv'
<1>1. /\ call'[c] = s /\ \A d \in Callers \ {c} : call'[d] = call[d]
      /\ tally' \in [Callers -> SUBSET Kinds]
      /\ tally'[c] = tally[c] \union kinds /\ \A d \in Callers \ {c} : tally'[d] = tally[d]
  BY DEF MInv, TypeOK, Become, Counts
<1>2. ASSUME NEW d \in Callers PROVE Tallied(call'[d], tally'[d])
  BY <1>1 DEF MInv
<1>3. QED
  BY <1>1, <1>2 DEF MInv

\* Recording nothing leaves the tally as it is.
LEMMA Silence ==
    ASSUME MInv, NEW c \in Callers, UNCHANGED tally
    PROVE  Counts(c, {}) /\ {} \in SUBSET Kinds
BY DEF MInv, Counts

\* A claim that goes on, gives way to the action, or ends without an answer.
LEMMA ClaimTallied ==
    ASSUME MInv, TypeOK', NEW c \in Callers, call[c].pc \in ClaimPcs \union {"idle"},
           NEW kinds \in SUBSET (Kinds \ {"hit"}), Counts(c, kinds),
           \/ \E p \in ClaimPcs, d \in 0..Lease : Become(c, [At(c, p) EXCEPT !.dl = d])
           \/ Ends(c, "done", "cancelled")
           \/ /\ tally[c] \union kinds # {}
              /\ \/ Become(c, [At(c, "running") EXCEPT !.ran = "started"])
                 \/ Become(c, [At(c, "running_unreserved") EXCEPT !.ran = "started"])
                 \/ \E f \in {"in_progress", "key_reuse", "storage_error"} : Ends(c, "done", f)
    PROVE  MInv'
<1>1. /\ call[c].ran = "no" /\ "hit" \notin tally[c] \union kinds /\ kinds \in SUBSET Kinds
  BY DEF MInv, Tallied, ClaimPcs
<1>2. ASSUME NEW p \in ClaimPcs, NEW d \in 0..Lease, Become(c, [At(c, p) EXCEPT !.dl = d])
      PROVE  MInv'
  <2> DEFINE s == [At(c, p) EXCEPT !.dl = d]
  <2>1. s.pc = p /\ s.fate = "none" /\ s.ran = "no"
    BY DEF At
  <2>2. Tallied(s, tally[c] \union kinds)
    BY <1>1, <2>1 DEF Tallied, ClaimPcs, HolderPcs, UnreservedPcs
  <2>3. QED
    BY <1>1, <1>2, <2>2, OneCallTallied
<1>3. ASSUME NEW f \in {"cancelled", "in_progress", "key_reuse", "storage_error"},
             Ends(c, "done", f), f = "cancelled" \/ tally[c] \union kinds # {}
      PROVE  MInv'
  <2> DEFINE s == [At(c, "done") EXCEPT !.fate = f, !.ran = call[c].ran]
  <2>1. s.pc = "done" /\ s.fate = f /\ s.ran = "no"
    BY <1>1 DEF At
  <2>2. Tallied(s, tally[c] \union kinds)
    BY <1>1, <1>3, <2>1 DEF Tallied, ClaimPcs, HolderPcs, UnreservedPcs
  <2>3. QED
    BY <1>1, <1>3, <2>2, OneCallTallied DEF Ends
<1>4. ASSUME NEW p \in {"running", "running_unreserved"}, tally[c] \union kinds # {},
             Become(c, [At(c, p) EXCEPT !.ran = "started"])
      PROVE  MInv'
  <2> DEFINE s == [At(c, p) EXCEPT !.ran = "started"]
  <2>1. s.pc = p /\ s.fate = "none" /\ s.ran = "started"
    BY DEF At
  <2>2. Tallied(s, tally[c] \union kinds)
    BY <1>1, <1>4, <2>1 DEF Tallied, ClaimPcs
  <2>3. QED
    BY <1>1, <1>4, <2>2, OneCallTallied
<1>5. QED
  BY <1>2, <1>3, <1>4

\* The outcomes of a read or a write of the claim, which record something.
LEMMA OutcomeTallied ==
    ASSUME MInv, TypeOK', NEW c \in Callers, call[c].pc \in ClaimPcs,
           NEW k \in Kinds \ {"hit"}, Counts(c, {k}),
           \/ Again(c) \/ StorageFails(c) \/ RunsUnreserved(c)
           \/ \E p \in ClaimPcs : Claiming(c, p)
           \/ \E f \in {"in_progress", "key_reuse"} : Ends(c, "done", f)
    PROVE  MInv'
<1>1. /\ call[c].dl \in 0..Lease
      /\ {k} \in SUBSET (Kinds \ {"hit"}) /\ tally[c] \union {k} # {}
  <2>1. call[c] \in Calls
    BY DEF MInv, TypeOK
  <2>2. QED
    BY <2>1 DEF Calls
<1>2. ASSUME NEW p \in ClaimPcs, Claiming(c, p) PROVE MInv'
  BY <1>1, <1>2, ClaimTallied DEF Claiming
<1>3. ASSUME NEW f \in {"in_progress", "key_reuse", "storage_error"}, Ends(c, "done", f)
      PROVE  MInv'
  BY <1>1, <1>3, ClaimTallied
<1>4. CASE RunsUnreserved(c)
  BY <1>1, <1>4, ClaimTallied DEF RunsUnreserved
<1>5. QED
  BY <1>2, <1>3, <1>4 DEF Again, StorageFails, ClaimPcs

\* A call past its claim has been counted, and records nothing that matters here.
LEMMA BodyTallied ==
    ASSUME MInv, TypeOK', NEW c \in Callers, call[c].pc \in HolderPcs \union UnreservedPcs,
           UNCHANGED tally, NEW s, Become(c, s),
           s.pc \in {"done", "crashed"} \union HolderPcs \union UnreservedPcs,
           s.ran # "no"
    PROVE  MInv'
<1>1. "hit" \notin tally[c] /\ tally[c] # {}
  BY DEF MInv, Tallied, HolderPcs, UnreservedPcs
<1>2. Tallied(s, tally[c] \union {})
  BY <1>1 DEF Tallied, ClaimPcs, HolderPcs, UnreservedPcs
<1>3. QED
  BY <1>2, Silence, OneCallTallied

------------------------------------------------------------------------------
LEMMA RecordingTallied ==
    ASSUME MInv, NEW c \in Callers, RecordingStep(c)
    PROVE  MInv'
<1>1. TypeOK /\ TypeOK'
  BY ServeTyped, SufferTyped DEF MInv, RecordingStep, Serve, Suffer
<1>2. ASSUME ReserveWins(c), Counts(c, OnReservation(c)) PROVE MInv'
  <2>1. /\ OnReservation(c) \in SUBSET (Kinds \ {"hit"})
        /\ tally[c] \union OnReservation(c) # {}
    BY DEF OnReservation, HasLooked, Kinds
  <2>2. /\ call[c].pc \in ClaimPcs
        /\ Become(c, [At(c, "running") EXCEPT !.ran = "started"])
    BY <1>2 DEF ReserveWins, ClaimPcs
  <2>3. QED
    BY <1>1, <1>2, <2>1, <2>2, ClaimTallied
<1>3. ASSUME FindsResult(c), Counts(c, {"hit"}) PROVE MInv'
  <2> DEFINE s == [At(c, "done") EXCEPT !.fate = "value", !.answer = call[c].seen.by]
  <2>1. s.pc = "done" /\ s.fate = "value" /\ s.ran = "no"
    BY DEF At
  <2>2. Tallied(s, tally[c] \union {"hit"})
    BY <2>1 DEF Tallied, ClaimPcs, HolderPcs, UnreservedPcs
  <2>3. Become(c, s) /\ {"hit"} \in SUBSET Kinds
    BY <1>3 DEF FindsResult, Kinds
  <2>4. QED
    BY <1>1, <1>3, <2>2, <2>3, OneCallTallied
<1>4. ASSUME NEW k \in Kinds \ {"hit"}, Counts(c, {k}),
             \/ FindsNothing(c) \/ FindsLapsed(c) \/ Purge(c) \/ PurgeFails(c)
             \/ FindsPending(c) \/ FindsUnusable(c) \/ ReserveFails(c) \/ ReserveRejected(c)
             \/ ReadFails(c) \/ RefusesReuse(c)
      PROVE  MInv'
  <2>1. /\ call[c].pc \in ClaimPcs
        /\ \/ Again(c) \/ StorageFails(c) \/ RunsUnreserved(c)
           \/ \E p \in ClaimPcs : Claiming(c, p)
           \/ \E f \in {"in_progress", "key_reuse"} : Ends(c, "done", f)
    BY <1>4 DEF FindsNothing, FindsLapsed, Purge, PurgeFails, FindsPending, FindsUnusable,
       ReserveFails, ReserveRejected, ReadFails, RefusesReuse, HasFound, ClaimPcs
  <2>2. QED
    BY <1>1, <1>4, <2>1, OutcomeTallied
<1>5. "miss" \in Kinds \ {"hit"} /\ "collision" \in Kinds \ {"hit"} /\ "error" \in Kinds \ {"hit"}
  BY DEF Kinds
<1>6. QED
  BY <1>2, <1>3, <1>4, <1>5 DEF RecordingStep, OnUnusable

LEMMA SilentTallied ==
    ASSUME MInv, NEW c \in Callers, SilentStep(c), UNCHANGED tally
    PROVE  MInv'
<1>1. TypeOK /\ TypeOK' /\ call[c] \in Calls /\ Tallied(call[c], tally[c])
  BY ServeTyped, SufferTyped, CallStepTyped, ServeRenewalTyped
  DEF MInv, SilentStep, Serve, Suffer, TypeOK
<1>2. Counts(c, {}) /\ {} \in SUBSET (Kinds \ {"hit"}) /\ {} \in SUBSET Kinds
  BY Silence
<1>3. CASE Call(c) \/ ReserveCollides(c) \/ FindsExpired(c) \/ Wake(c) \/ CancelClaim(c)
  <2>1. Lease \in 0..Lease /\ call[c].dl \in 0..Lease
    BY <1>1, TimingAssumption DEF Calls
  <2>2. /\ call[c].pc \in ClaimPcs \union {"idle"}
        /\ \/ \E p \in ClaimPcs, d \in 0..Lease : Become(c, [At(c, p) EXCEPT !.dl = d])
           \/ Ends(c, "done", "cancelled")
    BY <1>3, <2>1 DEF Call, ReserveCollides, FindsExpired, Wake, CancelClaim, Claiming, ClaimPcs
  <2>3. QED
    BY <1>1, <1>2, <2>2, ClaimTallied
<1>4. CASE ReadStore(c)
  <2> DEFINE s == [call[c] EXCEPT !.pc = "judging", !.seen = Read(c)]
  <2>1. s.pc = "judging" /\ s.fate = call[c].fate /\ s.ran = call[c].ran /\ Become(c, s)
    BY <1>1, <1>4 DEF ReadStore, Become, TypeOK, Calls
  <2> HIDE DEF s
  <2>2. Tallied(s, tally[c] \union {})
    BY <1>1, <1>4, <2>1 DEF ReadStore, Tallied, ClaimPcs, HolderPcs, UnreservedPcs
  <2>3. QED
    BY <1>1, <1>2, <2>1, <2>2, OneCallTallied
<1>5. CASE FinishAction(c)
  <2> DEFINE s == [At(c, IF call[c].pc = "running" THEN "joining" ELSE "completing_unreserved")
                      EXCEPT !.fate = "value", !.ran = "ok"]
  <2>1. Become(c, s) /\ call[c].pc \in HolderPcs \union UnreservedPcs
    BY <1>5 DEF FinishAction, Executing, HolderPcs, UnreservedPcs
  <2>2. s.pc \in HolderPcs \union UnreservedPcs /\ s.ran # "no"
    BY DEF At, HolderPcs, UnreservedPcs
  <2> HIDE DEF s
  <2>3. QED
    BY <1>1, <2>1, <2>2, BodyTallied
<1>6. CASE \/ ActionFails(c) \/ CancelAction(c) \/ JoinReturns(c) \/ CompleteSet(c)
           \/ CompleteFails(c) \/ Unstorable(c) \/ Release(c) \/ ReleaseFails(c)
           \/ CancelJoin(c) \/ CancelCleanup(c)
  <2>1. /\ call[c].pc \in HolderPcs \union UnreservedPcs
        /\ \E p \in {"done", "joining", "completing", "releasing"}, f \in Fates : Ends(c, p, f)
    BY <1>1, <1>6 DEF ActionFails, CancelAction, Breaks, Executing, JoinReturns, CompleteSet,
       Completing, CompleteFails, Unstorable, NotStored, Release, ReleaseFails, CancelJoin,
       CancelCleanup, HolderPcs, UnreservedPcs, Calls, Fates
  <2>2. PICK p \in {"done", "joining", "completing", "releasing"}, f \in Fates : Ends(c, p, f)
    BY <2>1
  <2> DEFINE s == [At(c, p) EXCEPT !.fate = f, !.ran = call[c].ran]
  <2>3. s.pc = p /\ s.ran = call[c].ran /\ Become(c, s)
    BY <2>2 DEF At, Ends
  <2>4. call[c].ran # "no" /\ p \in {"done", "crashed"} \union HolderPcs \union UnreservedPcs
    BY <1>1, <2>1 DEF Tallied, HolderPcs
  <2> HIDE DEF s
  <2>5. QED
    BY <1>1, <2>1, <2>3, <2>4, BodyTallied
<1>7. CASE ServeRenewal(c) \/ RenewFails(c)
  BY <1>1, <1>7 DEF ServeRenewal, RenewalDue, RenewSet, RenewFails, MInv
<1>8. CASE Crash(c)
  <2> DEFINE s == [At(c, "crashed") EXCEPT !.ran = call[c].ran]
  <2>1. s.pc = "crashed" /\ s.fate = "none" /\ s.ran = call[c].ran /\ Become(c, s)
    BY <1>8 DEF Crash, At
  <2>2. "hit" \notin tally[c] /\ (call[c].ran # "no" => tally[c] # {})
    BY <1>1, <1>8 DEF Crash, Tallied
  <2> HIDE DEF s
  <2>3. Tallied(s, tally[c] \union {})
    BY <2>1, <2>2 DEF Tallied, ClaimPcs, HolderPcs, UnreservedPcs
  <2>4. QED
    BY <1>1, <1>2, <2>1, <2>3, OneCallTallied
<1>9. QED
  BY <1>3, <1>4, <1>5, <1>6, <1>7, <1>8 DEF SilentStep

\* The clock, late commands and the application's own writes touch no call.
LEMMA RestTallied ==
    ASSUME MInv, UNCHANGED tally,
           \/ \E cmd \in wire : Land(cmd)
           \/ DirectSave \/ DirectDelete \/ Tick \/ UNCHANGED vars
    PROVE  MInv'
<1>1. TypeOK /\ TypeOK'
  BY NextTyped DEF MInv, Next
<1>2. ASSUME NEW c \in Callers
      PROVE  /\ call'[c].pc = call[c].pc /\ call'[c].fate = call[c].fate
             /\ call'[c].ran = call[c].ran
  <2>1. call[c] \in Calls
    BY <1>1 DEF TypeOK
  <2>2. CASE Tick
    BY <2>1, <2>2 DEF Tick, Calls
  <2>3. CASE ~Tick
    BY <2>3 DEF Land, DirectSave, DirectDelete, vars
  <2>4. QED
    BY <2>2, <2>3
<1>3. QED
  BY <1>1, <1>2 DEF MInv, Tallied

LEMMA MInvInit == MeasuredInit => MInv
<1> SUFFICES ASSUME MeasuredInit PROVE MInv
  OBVIOUS
<1>1. TypeOK
  BY InitTyped DEF MeasuredInit
<1>2. ASSUME NEW c \in Callers PROVE Tallied(call[c], tally[c])
  BY DEF MeasuredInit, Init, At, Tallied, ClaimPcs, HolderPcs, UnreservedPcs
<1>3. QED
  BY <1>1, <1>2 DEF MInv, MeasuredInit

LEMMA MInvNext == MInv /\ [MeasuredNext]_measured => MInv'
<1> SUFFICES ASSUME MInv, [MeasuredNext]_measured PROVE MInv'
  OBVIOUS
<1>1. CASE UNCHANGED measured
  BY <1>1, RestTallied DEF measured, vars
<1>2. CASE MeasuredNext
  BY <1>2, RecordingTallied, SilentTallied, RestTallied DEF MeasuredNext
<1>3. QED
  BY <1>1, <1>2

LEMMA MInvCorrect == MeasuredSpec => []MInv
BY MInvInit, MInvNext, PTL DEF MeasuredSpec

------------------------------------------------------------------------------
\* HitsAreReplays, for every set of callers, every timing and whatever goes
\* wrong: a hit is recorded by exactly the calls that are told a stored result.
THEOREM HitsReplay == MeasuredSpec => []HitsAreReplays
<1>1. MInv => HitsAreReplays
  BY DEF MInv, Tallied, HitsAreReplays
<1>2. QED
  BY <1>1, MInvCorrect, PTL

\* NoCallUncounted, under the same conditions: every call that got through its
\* claim has recorded something there.
THEOREM EveryCallCounts == MeasuredSpec => []NoCallUncounted
<1>1. MInv => NoCallUncounted
  BY DEF MInv, Tallied, NoCallUncounted
<1>2. QED
  BY <1>1, MInvCorrect, PTL
==============================================================================
