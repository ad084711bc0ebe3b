--------------------------- MODULE OncePerKeyProofs ---------------------------
(***************************************************************************)
(* In every healthy instance Coordinator implements OncePerKey: the step   *)
(* that each action of coordinate() is in the abstract specification.      *)
(***************************************************************************)
EXTENDS CoordinatorProofs

\* What a call past its action is going to tell its caller.
Outcomes == \A c \in Callers :
    /\ call[c].pc = "joining" => call[c].fate \in {"value", "action_error", "cancelled"}
    /\ call[c].pc = "completing" => call[c].fate = "value"
    /\ call[c].pc = "releasing" => call[c].fate \in {"action_error", "cancelled"}

\* A result that a call has read is still the one under the key.
SeenStored == \A c \in Callers :
    call[c].pc = "judging" /\ call[c].seen.status = "completed" =>
        store.status = "completed" /\ call[c].seen.by = store.by

RInv == IInv /\ Outcomes /\ SeenStored

------------------------------------------------------------------------------
\* A stored result is replaced, deleted or outlived by nothing.
LEMMA ResultStays ==
    ASSUME Healthy, IInv, [Next]_vars, store.status = "completed"
    PROVE  store'.status = "completed" /\ store'.by = store.by
<1>1. \A c \in Callers : ~Holds(c)
  BY DEF IInv, KeyOfHolder, OwnReservation
<1>2. ASSUME NEW c \in Callers, Call(c) \/ Serve(c) \/ ServeRenewal(c)
      PROVE  store' = store
  <2>1. ren[c].st = "off" /\ call[c].pc \notin HolderPcs \union UnreservedPcs \union {"purging"}
    BY <1>1 DEF IInv, RenewalOfBody, Quiet, Holds, HolderPcs
  <2>2. QED
    BY <1>2, <2>1 DEF Call, Serve, ServeRenewal, ReserveWins, ReserveCollides, ReadStore,
       FindsNothing, FindsExpired, FindsLapsed, RefusesReuse, FindsPending, FindsResult,
       FindsUnusable, Purge, Wake, JoinReturns, CompleteSet, Completing, Release, RenewalDue,
       RenewSet, HolderPcs, UnreservedPcs
<1>3. ASSUME NEW c \in Callers, Suffer(c) PROVE store' = store
  BY <1>3, HealthySuffer DEF IInv, FinishAction, Breaks
<1>4. ~DirectSave /\ ~DirectDelete /\ wire = {} /\ ~Fades(store)
  BY DEF Healthy, DirectSave, DirectDelete, IInv, Quiet, Fades
<1>5. QED
  BY <1>2, <1>3, <1>4 DEF Next, Tick, vars

\* A step of one call that leaves SeenStored and Outcomes to that call.
LEMMA OneCallRInv ==
    ASSUME Healthy, RInv, [Next]_vars, IInv', NEW c \in Callers, NEW s, Become(c, s),
           s.pc = "joining" => s.fate \in {"value", "action_error", "cancelled"},
           s.pc = "completing" => s.fate = "value",
           s.pc = "releasing" => s.fate \in {"action_error", "cancelled"},
           s.pc = "judging" /\ s.seen.status = "completed" =>
               store.status = "completed" /\ s.seen.by = store.by
    PROVE  RInv'
<1>1. call'[c] = s /\ \A d \in Callers \ {c} : call'[d] = call[d]
  BY DEF Become, RInv, IInv, TypeOK
<1>2. Outcomes'
  BY <1>1 DEF RInv, Outcomes
<1>3. SeenStored'
  BY <1>1, ResultStays DEF RInv, SeenStored
<1>4. QED
  BY <1>2, <1>3 DEF RInv

LEMMA ServeRInv ==
    ASSUME Healthy, RInv, [Next]_vars, IInv', NEW c \in Callers, Serve(c)
    PROVE  RInv'
<1>1. call[c] \in Calls /\ IInv /\ Outcomes
  BY DEF RInv, IInv, TypeOK
<1>2. ASSUME NEW p \in ClaimPcs \ {"judging"}, Claiming(c, p) PROVE RInv'
  BY <1>2, OneCallRInv DEF Claiming, At, ClaimPcs
<1>3. ASSUME NEW f, Ends(c, "done", f) PROVE RInv'
  BY <1>3, OneCallRInv DEF Ends, At
<1>4. CASE ReserveWins(c)
  BY <1>4, OneCallRInv DEF ReserveWins, At
<1>5. CASE \/ ReserveCollides(c) \/ FindsNothing(c) \/ FindsExpired(c) \/ FindsLapsed(c)
           \/ RefusesReuse(c) \/ FindsPending(c) \/ Wake(c) \/ CompleteSet(c) \/ Release(c)
  BY <1>1, <1>2, <1>3, <1>5 DEF ReserveCollides, FindsNothing, FindsExpired, FindsLapsed, RefusesReuse,
     FindsPending, Wake, CompleteSet, Release, Again, ClaimPcs
<1>6. CASE ReadStore(c)
  <2> DEFINE s == [call[c] EXCEPT !.pc = "judging", !.seen = Read(c)]
  <2>1. Become(c, s)
    BY <1>1, <1>6 DEF ReadStore, Become, IInv, TypeOK
  <2>2. s.pc = "judging" /\ s.seen = Read(c)
    BY <1>1 DEF Calls
  <2>3. Read(c) = [store EXCEPT !.ttl = 0] /\ store \in Records
    BY <1>1 DEF Healthy, Read, IInv, TypeOK
  <2>4. Read(c).status = store.status /\ Read(c).by = store.by
    BY <2>3 DEF Records
  <2> HIDE DEF s
  <2>5. QED
    BY <2>1, <2>2, <2>4, OneCallRInv
<1>7. CASE FindsResult(c)
  BY <1>7, OneCallRInv DEF FindsResult, At
<1>8. CASE FindsUnusable(c)
  BY <1>1, <1>8, Judged, HealthyAttended DEF FindsUnusable, HasFound
<1>9. CASE Purge(c)
  BY <1>1, <1>9 DEF Purge, IInv, Quiet
<1>10. CASE JoinReturns(c)
  BY <1>1, <1>10, OneCallRInv DEF JoinReturns, Ends, At, Outcomes
<1>11. QED
  BY <1>4, <1>5, <1>6, <1>7, <1>8, <1>9, <1>10 DEF Serve

LEMMA RInvNext == ASSUME Healthy PROVE RInv /\ [Next]_vars => RInv'
<1> SUFFICES ASSUME RInv, [Next]_vars PROVE RInv'
  OBVIOUS
<1>1. IInv' /\ IInv
  BY InvNext, HealthyAttended DEF RInv
<1>2. ASSUME UNCHANGED call PROVE RInv'
  <2>1. Outcomes'
    BY <1>2 DEF RInv, Outcomes
  <2>2. SeenStored'
    BY <1>1, <1>2, ResultStays DEF RInv, SeenStored
  <2>3. QED
    BY <1>1, <2>1, <2>2 DEF RInv
<1>3. CASE Tick
  <2>1. ASSUME NEW c \in Callers
        PROVE  /\ call'[c].pc = call[c].pc /\ call'[c].fate = call[c].fate
               /\ call'[c].seen.status = call[c].seen.status /\ call'[c].seen.by = call[c].seen.by
    <3>1. call[c] \in Calls /\ call[c].seen \in Records
      BY <1>1 DEF IInv, TypeOK, Calls
    <3>2. call'[c] = [call[c] EXCEPT
              !.age = IF call[c].pc \in RequestPcs THEN Longer(@) ELSE @,
              !.dl = Minus(@, 1), !.seen = Older(@)]
      BY <1>3 DEF Tick
    <3>3. /\ Older(call[c].seen).status = call[c].seen.status
          /\ Older(call[c].seen).by = call[c].seen.by
      BY <3>1 DEF Older, Records
    <3>4. QED
      BY <3>1, <3>2, <3>3 DEF Calls
  <2>2. Outcomes'
    BY <2>1 DEF RInv, Outcomes
  <2>3. SeenStored'
    BY <1>1, <2>1, ResultStays DEF RInv, SeenStored
  <2>4. QED
    BY <1>1, <2>2, <2>3 DEF RInv
<1>4. ASSUME NEW c \in Callers, Call(c) \/ Serve(c) \/ ServeRenewal(c) \/ Suffer(c)
      PROVE  RInv'
  <2>1. CASE Call(c)
    BY <1>1, <2>1, OneCallRInv DEF Call, At
  <2>2. CASE Serve(c)
    BY <1>1, <2>2, ServeRInv
  <2>3. CASE ServeRenewal(c)
    BY <1>2, <2>3 DEF ServeRenewal, RenewalDue, RenewSet
  <2>4. CASE Suffer(c)
    <3>1. call[c].pc = "running" \/ ~Executing(c)
      BY <1>1 DEF Executing, IInv, Quiet, UnreservedPcs
    <3>2. CASE FinishAction(c)
      BY <1>1, <3>1, <3>2, OneCallRInv DEF FinishAction, At
    <3>3. CASE Breaks(c, "action_error") \/ Breaks(c, "cancelled")
      BY <1>1, <3>1, <3>3, OneCallRInv DEF Breaks, Ends, At
    <3>4. QED
      BY <1>1, <2>4, <3>2, <3>3, HealthySuffer DEF IInv
  <2>5. QED
    BY <1>4, <2>1, <2>2, <2>3, <2>4
<1>5. ~DirectSave /\ ~DirectDelete /\ wire = {}
  BY <1>1 DEF Healthy, DirectSave, DirectDelete, IInv, Quiet
<1>6. QED
  BY <1>2, <1>3, <1>4, <1>5 DEF Next, vars

LEMMA RInvInit == ASSUME Healthy, Init PROVE RInv
<1>1. \A c \in Callers : call[c].pc = "idle"
  BY DEF Init, At
<1>2. QED
  BY <1>1, InvInit, HealthyAttended DEF RInv, Outcomes, SeenStored

------------------------------------------------------------------------------
(***************************************************************************)
(* The refinement                                                          *)
(***************************************************************************)
\* Whoever is past its reservation finds its own record under the key.
HoldersOwn == \A c \in Callers : Holds(c) => OwnReservation(c)

\* The abstract holder is the one call past its reservation.
LEMMA HeldBy ==
    ASSUME HoldersOwn
    PROVE  /\ \A c \in Callers : Holds(c) => Holders = {c} /\ HolderNow = c
           /\ store.status # "pending" => Holders = {} /\ HolderNow = Stranger
           /\ \A c \in Callers : ~Holds(c) => HolderNow # c
<1>1. ASSUME NEW c \in Callers, Holds(c) PROVE Holders = {c} /\ HolderNow = c
  <2>1. \A d \in Callers : Holds(d) => d = c
    BY <1>1 DEF HoldersOwn, OwnReservation
  <2>2. Holders = {c}
    BY <1>1, <2>1 DEF Holders, Holds
  <2>3. QED
    BY <2>2 DEF HolderNow
<1>2. store.status # "pending" => Holders = {} /\ HolderNow = Stranger
  BY DEF HoldersOwn, OwnReservation, Holders, Holds, HolderNow
<1>3. ASSUME NEW c \in Callers, ~Holds(c) PROVE HolderNow # c
  <2>1. CASE Holders = {}
    BY <2>1, CallersAssumption DEF HolderNow
  <2>2. CASE Holders # {}
    <3>1. PICK d \in Callers : Holds(d)
      BY <2>2 DEF Holders, Holds
    <3>2. QED
      BY <1>1, <1>3, <3>1
  <2>3. QED
    BY <2>1, <2>2
<1>4. QED
  BY <1>1, <1>2, <1>3

\* What a step of one call does to the abstract state.
LEMMA Mapped ==
    ASSUME TypeOK, NEW c \in Callers, NEW s, Become(c, s)
    PROVE  /\ s.pc \in HolderPcs => Holders' = Holders \union {c}
           /\ s.pc \notin HolderPcs => Holders' = Holders \ {c}
           /\ s.pc # "done" => AllTold' = [AllTold EXCEPT ![c] = "nothing"]
           /\ s.pc = "done" /\ s.fate = "value" => AllTold' = [AllTold EXCEPT ![c] = s.answer]
           /\ s.pc = "done" /\ s.fate \in {"action_error", "cancelled"} =>
                 AllTold' = [AllTold EXCEPT ![c] = "failed"]
           /\ s.pc = "done" /\ s.fate \in Fates \ {"value", "action_error", "cancelled"} =>
                 AllTold' = [AllTold EXCEPT ![c] = "refused"]
<1>1. call'[c] = s /\ \A d \in Callers \ {c} : call'[d] = call[d]
  BY DEF Become, TypeOK
<1>2. \A d \in Callers \ {c} : Told(d)' = Told(d)
  BY <1>1 DEF Told
<1>3. /\ s.pc \in HolderPcs => Holders' = Holders \union {c}
      /\ s.pc \notin HolderPcs => Holders' = Holders \ {c}
  BY <1>1 DEF Holders
<1>4. QED
  BY <1>1, <1>2, <1>3 DEF AllTold, Told

\* A call that is not done has been told nothing.
LEMMA NotTold ==
    ASSUME NEW c \in Callers, call[c].pc # "done"
    PROVE  AllTold[c] = "nothing" /\ AllTold = [AllTold EXCEPT ![c] = "nothing"]
BY DEF AllTold, Told

\* A step inside a claim, or inside the body of the holder.
LEMMA Stutters ==
    ASSUME TypeOK, NEW c \in Callers, NEW s, Become(c, s), s.pc # "done", call[c].pc # "done",
           s.pc \in HolderPcs <=> Holds(c), StoredBy' = StoredBy
    PROVE  UNCHANGED Promise!vars
<1>1. Holders' = Holders
  <2>1. CASE Holds(c)
    BY <2>1, Mapped DEF Holders, Holds
  <2>2. CASE ~Holds(c)
    BY <2>2, Mapped DEF Holders, Holds
  <2>3. QED
    BY <2>1, <2>2
<1>2. HolderNow' = HolderNow
  BY <1>1 DEF HolderNow
<1>3. AllTold' = AllTold
  BY Mapped, NotTold
<1>4. QED
  BY <1>2, <1>3 DEF Promise!vars

\* A claim that ends without a result is refused.
LEMMA Refused ==
    ASSUME TypeOK, HoldersOwn, NEW c \in Callers, call[c].pc \in ClaimPcs, StoredBy' = StoredBy,
           NEW f \in {"in_progress", "key_reuse", "storage_error"}, Ends(c, "done", f)
    PROVE  Promise!Refuse(c)
<1> DEFINE s == [At(c, "done") EXCEPT !.fate = f, !.ran = call[c].ran]
<1>1. Become(c, s) /\ s.pc = "done" /\ s.fate = f
  BY DEF Ends, At
<1> HIDE DEF s
<1>2. ~Holds(c) /\ call[c].pc # "done"
  BY DEF Holds, HolderPcs, ClaimPcs
<1>3. Holders' = Holders
  BY <1>1, <1>2, Mapped DEF Holders, Holds, HolderPcs
<1>4. HolderNow' = HolderNow /\ HolderNow # c
  BY <1>2, <1>3, HeldBy DEF HolderNow
<1>5. AllTold' = [AllTold EXCEPT ![c] = "refused"]
  BY <1>1, Mapped DEF Fates
<1>6. QED
  BY <1>2, <1>4, <1>5, NotTold DEF Promise!Refuse, Promise!Tell

\* A claim that goes on is no step of the promise.
LEMMA GoesOn ==
    ASSUME TypeOK, NEW c \in Callers, call[c].pc \in ClaimPcs, store' = store,
           NEW p \in ClaimPcs, Claiming(c, p)
    PROVE  UNCHANGED Promise!vars
<1> DEFINE s == [At(c, p) EXCEPT !.dl = call[c].dl]
<1>1. Become(c, s) /\ s.pc = p
  BY DEF Claiming, At
<1> HIDE DEF s
<1>2. s.pc \notin HolderPcs /\ ~Holds(c) /\ s.pc # "done" /\ call[c].pc # "done"
  BY <1>1 DEF ClaimPcs, HolderPcs, Holds
<1>3. QED
  BY <1>1, <1>2, Stutters DEF StoredBy

\* Neither is a call, a read, or the holder's way out of the body of _renewing.
LEMMA Quietly ==
    ASSUME TypeOK, NEW c \in Callers, Call(c) \/ ReadStore(c) \/ JoinReturns(c)
    PROVE  UNCHANGED Promise!vars
<1>1. call[c] \in Calls /\ call \in [Callers -> Calls]
  BY DEF TypeOK
<1>2. CASE Call(c)
  <2> DEFINE s == [At(c, "reserving") EXCEPT !.dl = Lease]
  <2>1. Become(c, s) /\ s.pc = "reserving" /\ store' = store
    BY <1>2 DEF Call, At
  <2> HIDE DEF s
  <2>2. s.pc \notin HolderPcs /\ ~Holds(c) /\ call[c].pc # "done"
    BY <1>2, <2>1 DEF Call, HolderPcs, Holds
  <2>3. QED
    BY <2>1, <2>2, Stutters DEF StoredBy
<1>3. CASE ReadStore(c)
  <2> DEFINE s == [call[c] EXCEPT !.pc = "judging", !.seen = Read(c)]
  <2>1. Become(c, s) /\ s.pc = "judging"
    BY <1>1, <1>3 DEF ReadStore, Become, Calls
  <2> HIDE DEF s
  <2>2. s.pc \notin HolderPcs /\ ~Holds(c) /\ s.pc # "done" /\ call[c].pc # "done"
    BY <1>3, <2>1 DEF ReadStore, HolderPcs, Holds
  <2>3. QED
    BY <1>3, <2>1, <2>2, Stutters DEF ReadStore, StoredBy
<1>4. CASE JoinReturns(c)
  <2> DEFINE p == IF call[c].fate = "value" THEN "completing" ELSE "releasing"
             s == [At(c, p) EXCEPT !.fate = call[c].fate, !.ran = call[c].ran]
  <2>1. Become(c, s) /\ s.pc = p /\ p \in HolderPcs /\ p # "done"
    BY <1>4 DEF JoinReturns, Ends, At, HolderPcs
  <2> HIDE DEF s, p
  <2>2. Holds(c) /\ call[c].pc # "done" /\ store' = store
    BY <1>4 DEF JoinReturns, Holds, HolderPcs
  <2>3. QED
    BY <2>1, <2>2, Stutters DEF StoredBy
<1>5. QED
  BY <1>2, <1>3, <1>4

\* Winning the reservation takes the key.
LEMMA Takes ==
    ASSUME TypeOK, HoldersOwn, NEW c \in Callers, ReserveWins(c)
    PROVE  Promise!Take(c)
<1> DEFINE s == [At(c, "running") EXCEPT !.ran = "started"]
<1>1. Become(c, s) /\ s.pc = "running"
  BY DEF ReserveWins, At
<1> HIDE DEF s
<1>2. Holders = {} /\ HolderNow = Stranger /\ StoredBy = Stranger /\ StoredBy' = Stranger
  BY HeldBy DEF ReserveWins, StoredBy, SetNX, Pending, Written
<1>3. Holders' = {c}
  BY <1>1, <1>2, Mapped DEF HolderPcs
<1>4. HolderNow' = c
  BY <1>3 DEF HolderNow
<1>5. call[c].pc # "done"
  BY DEF ReserveWins
<1>6. AllTold' = AllTold /\ AllTold[c] = "nothing"
  BY <1>1, <1>5, Mapped, NotTold
<1>7. QED
  BY <1>2, <1>4, <1>6 DEF Promise!Take

\* A call that reads a result is answered with the one under the key.
LEMMA Answers ==
    ASSUME TypeOK, HoldersOwn, NEW c \in Callers, FindsResult(c),
           store.status = "completed", call[c].seen.by = store.by
    PROVE  Promise!Answer(c)
<1> DEFINE s == [At(c, "done") EXCEPT !.fate = "value", !.answer = call[c].seen.by]
<1>1. Become(c, s) /\ s.pc = "done" /\ s.fate = "value" /\ s.answer = call[c].seen.by
  BY DEF FindsResult, At
<1> HIDE DEF s
<1>2. call[c].pc = "judging" /\ store' = store /\ store.by # Stranger
  BY DEF FindsResult, HasFound
<1>3. StoredBy = s.answer /\ StoredBy' = StoredBy /\ StoredBy # Stranger
  BY <1>1, <1>2 DEF StoredBy
<1>4. Holders = {} /\ HolderNow = Stranger /\ Holders' = Holders
  BY <1>1, <1>2, HeldBy, Mapped DEF HolderPcs
<1>5. AllTold' = [AllTold EXCEPT ![c] = StoredBy] /\ AllTold[c] = "nothing"
  BY <1>1, <1>2, <1>3, Mapped, NotTold
<1>6. HolderNow' = HolderNow /\ HolderNow # c
  BY <1>4, CallersAssumption DEF HolderNow
<1>7. QED
  BY <1>3, <1>5, <1>6 DEF Promise!Answer, Promise!Tell

\* A holder's call ends: the key is free, and the caller told the outcome.
LEMMA Ended ==
    ASSUME TypeOK, HoldersOwn, NEW c \in Callers, Holds(c),
           NEW f \in {"value", "action_error", "cancelled"}, Ends(c, "done", f)
    PROVE  /\ HolderNow = c /\ HolderNow' = Stranger
           /\ f = "value" => AllTold' = [AllTold EXCEPT ![c] = c]
           /\ f # "value" => AllTold' = [AllTold EXCEPT ![c] = "failed"]
<1> DEFINE s == [At(c, "done") EXCEPT !.fate = f, !.ran = call[c].ran]
<1>1. Become(c, s) /\ s.pc = "done" /\ s.fate = f /\ s.answer = c
  BY DEF Ends, At
<1> HIDE DEF s
<1>2. Holders = {c} /\ HolderNow = c
  BY HeldBy
<1>3. Holders' = {}
  BY <1>1, <1>2, Mapped DEF HolderPcs
<1>4. QED
  BY <1>1, <1>2, <1>3, Mapped DEF HolderNow

\* A result that is stored finishes the key.
LEMMA Finishes ==
    ASSUME TypeOK, HoldersOwn, NEW c \in Callers, call[c].pc = "completing",
           call[c].fate = "value", CompleteSet(c)
    PROVE  Promise!Finish(c)
<1>1. Holds(c) /\ Ends(c, "done", "value")
  BY DEF Holds, HolderPcs, CompleteSet
<1>2. StoredBy' = c
  BY DEF CompleteSet, StoredBy, Result, Written
<1>3. QED
  BY <1>1, <1>2, Ended DEF Promise!Finish, Promise!Tell

\* A reservation that is deleted, or left to its lease, after an action without
\* a result gives the key back.
LEMMA GivesBack ==
    ASSUME TypeOK, HoldersOwn, NEW c \in Callers, Holds(c), StoredBy' = StoredBy,
           NEW f \in {"action_error", "cancelled"}, Ends(c, "done", f)
    PROVE  Promise!Abandon(c)
BY Ended DEF Promise!Abandon, Promise!Tell

LEMMA RefinesServe ==
    ASSUME Healthy, RInv, NEW c \in Callers, Serve(c)
    PROVE  Promise!Next \/ UNCHANGED Promise!vars
<1>1. call[c] \in Calls /\ IInv /\ TypeOK /\ HoldersOwn /\ store \in Records
  BY DEF RInv, IInv, TypeOK, KeyOfHolder, HoldersOwn
<1>2. CASE \/ ReserveCollides(c) \/ FindsNothing(c) \/ FindsExpired(c) \/ FindsLapsed(c)
           \/ RefusesReuse(c) \/ FindsPending(c) \/ Wake(c)
  <2>1. /\ call[c].pc \in ClaimPcs /\ store' = store
        /\ \/ \E p \in ClaimPcs : Claiming(c, p)
           \/ \E f \in {"in_progress", "key_reuse"} : Ends(c, "done", f)
    BY <1>2 DEF ReserveCollides, FindsNothing, FindsExpired, FindsLapsed, RefusesReuse,
       FindsPending, Wake, HasFound, Again, ClaimPcs
  <2>2. CASE \E p \in ClaimPcs : Claiming(c, p)
    BY <1>1, <2>1, <2>2, GoesOn
  <2>3. CASE \E f \in {"in_progress", "key_reuse"} : Ends(c, "done", f)
    BY <1>1, <2>1, <2>3, Refused DEF StoredBy, Promise!Next
  <2>4. QED
    BY <2>1, <2>2, <2>3
<1>3. CASE ReserveWins(c)
  BY <1>1, <1>3, Takes DEF Promise!Next
<1>4. CASE ReadStore(c) \/ JoinReturns(c)
  BY <1>1, <1>4, Quietly
<1>5. CASE FindsResult(c)
  <2>1. store.status = "completed" /\ call[c].seen.by = store.by
    BY <1>5 DEF FindsResult, HasFound, RInv, SeenStored
  <2>2. QED
    BY <1>1, <1>5, <2>1, Answers DEF Promise!Next
<1>6. CASE FindsUnusable(c)
  BY <1>1, <1>6, Judged, HealthyAttended DEF FindsUnusable, HasFound
<1>7. CASE Purge(c)
  BY <1>1, <1>7 DEF Purge, IInv, Quiet
<1>8. CASE CompleteSet(c)
  <2>1. call[c].pc = "completing" /\ call[c].fate = "value"
    BY <1>1, <1>8 DEF CompleteSet, Completing, RInv, Outcomes, IInv, Quiet, UnreservedPcs
  <2>2. QED
    BY <1>1, <1>8, <2>1, Finishes DEF Promise!Next
<1>9. CASE Release(c)
  <2>1. /\ call[c].fate \in {"action_error", "cancelled"} /\ Ends(c, "done", call[c].fate)
        /\ Holds(c)
    BY <1>9 DEF Release, RInv, Outcomes, Holds, HolderPcs
  <2>2. store.status = "pending"
    BY <1>1, <2>1 DEF HoldersOwn, OwnReservation
  <2>3. StoredBy' = StoredBy
    BY <1>9, <2>2 DEF Release, Deleted, StoredBy, None, Absent
  <2>4. QED
    BY <1>1, <2>1, <2>3, GivesBack DEF Promise!Next
<1>10. QED
  BY <1>2, <1>3, <1>4, <1>5, <1>6, <1>7, <1>8, <1>9 DEF Serve

\* The renewals, the action itself and the clock are no steps of the promise.
LEMMA RefinesRest ==
    ASSUME Healthy, RInv, NEW c \in Callers, Call(c) \/ ServeRenewal(c) \/ Suffer(c)
    PROVE  UNCHANGED Promise!vars
<1>1. call[c] \in Calls /\ IInv /\ TypeOK
  BY DEF RInv, IInv, TypeOK
<1>2. CASE Call(c)
  BY <1>1, <1>2, Quietly
<1>3. CASE ServeRenewal(c)
  <2>1. call' = call
    BY <1>3 DEF ServeRenewal, RenewalDue, RenewSet
  <2>2. StoredBy' = StoredBy
    <3>1. CASE RenewalDue(c)
      BY <3>1 DEF RenewalDue, StoredBy
    <3>2. CASE RenewSet(c)
      <4>1. store.status = "pending"
        BY <1>1, <3>2 DEF RenewSet, IInv, RenewalOfBody, KeyOfHolder, Holds, HolderPcs, OwnReservation
      <4>2. QED
        BY <3>2, <4>1 DEF RenewSet, StoredBy, Pending, Written
    <3>3. QED
      BY <1>3, <3>1, <3>2 DEF ServeRenewal
  <2>3. QED
    BY <2>1, <2>2 DEF Promise!vars, HolderNow, Holders, AllTold, Told
<1>4. CASE Suffer(c)
  <2>1. /\ FinishAction(c) \/ Breaks(c, "action_error") \/ Breaks(c, "cancelled")
        /\ call[c].pc = "running"
    BY <1>1, <1>4, HealthySuffer DEF IInv, Quiet, UnreservedPcs, FinishAction, Breaks, Executing
  <2>2. PICK s : Become(c, s) /\ s.pc = "joining" /\ store' = store
    BY <2>1 DEF FinishAction, Breaks, Ends, At
  <2>3. s.pc \in HolderPcs /\ Holds(c)
    BY <2>1, <2>2 DEF Holds, HolderPcs
  <2>4. QED
    BY <1>1, <2>1, <2>2, <2>3, Stutters DEF StoredBy
<1>5. QED
  BY <1>2, <1>3, <1>4

LEMMA RefinesTick ==
    ASSUME Healthy, RInv, Tick
    PROVE  UNCHANGED Promise!vars
<1>1. \A c \in Callers : /\ call'[c].pc = call[c].pc /\ call'[c].fate = call[c].fate
                         /\ call'[c].answer = call[c].answer
  BY DEF Tick, RInv, IInv, TypeOK, Calls
<1>2. StoredBy' = StoredBy
  BY DEF Healthy, Tick, Fades, StoredBy, Elapse, Absent, RInv, IInv, TypeOK, Records
<1>3. Holders' = Holders
  BY <1>1 DEF Holders
<1>4. AllTold' = AllTold
  BY <1>1 DEF AllTold, Told
<1>5. QED
  BY <1>2, <1>3, <1>4 DEF Promise!vars, HolderNow

LEMMA RefinesNext ==
    ASSUME Healthy PROVE RInv /\ [Next]_vars => [Promise!Next]_(Promise!vars)
<1> SUFFICES ASSUME RInv, [Next]_vars PROVE Promise!Next \/ UNCHANGED Promise!vars
  OBVIOUS
<1>1. CASE UNCHANGED vars
  BY <1>1 DEF vars, Promise!vars, HolderNow, Holders, StoredBy, AllTold, Told
<1>2. ~DirectSave /\ ~DirectDelete /\ wire = {}
  BY DEF Healthy, DirectSave, DirectDelete, RInv, IInv, Quiet
<1>3. QED
  BY <1>1, <1>2, RefinesServe, RefinesRest, RefinesTick DEF Next

LEMMA RefinesInit == ASSUME Healthy, Init PROVE Promise!Init
<1>1. IInv
  BY InvInit, HealthyAttended
<1>2. \A c \in Callers : call[c].pc = "idle"
  BY DEF Init, At
<1>3. Holders = {} /\ AllTold = [c \in Callers |-> "nothing"]
  BY <1>2 DEF Holders, HolderPcs, AllTold, Told
<1>4. PICK kind \in {"none", "result"} : store \in Leftover(kind)
  BY DEF Healthy, Init
<1>5. StoredBy \in {Stranger, Earlier}
  BY <1>4 DEF Leftover, StoredBy, None, Absent, Written
<1>6. QED
  BY <1>3, <1>5 DEF Promise!Init, HolderNow

\* In every healthy instance, for any callers and any timing it allows,
\* coordinate() implements OncePerKey: a call takes the key only when nobody holds
\* it and no result is stored, and all that are told a result are told the first.
THEOREM Refines == ASSUME Healthy PROVE Spec => ImplementsOncePerKey
BY RInvInit, RInvNext, RefinesInit, RefinesNext, PTL DEF Spec, ImplementsOncePerKey, Promise!Spec

\* OwnersTouchOwnReservation while reservations are attended: what a renewal, a
\* completion and a release write over without looking is their own call's
\* reservation, though renewals may have failed before.
THEOREM OwnersTouchOwn == ASSUME Attended PROVE Spec => OwnersTouchOwnReservation
<1>1. ASSUME IInv, NEW c \in Callers,
             RenewSet(c) \/ Release(c) \/ (call[c].pc = "completing" /\ CompleteSet(c))
      PROVE  OwnReservation(c)
  <2>1. Holds(c)
    BY <1>1 DEF IInv, RenewalOfBody, RenewSet, Release, Holds, HolderPcs
  <2>2. QED
    BY <1>1, <2>1 DEF IInv, KeyOfHolder
<1>2. IInv => [\A c \in Callers :
                  RenewSet(c) \/ Release(c) \/ (call[c].pc = "completing" /\ CompleteSet(c))
                      => OwnReservation(c)]_vars
  BY <1>1
<1>3. QED
  BY <1>2, InvCorrect, PTL DEF OwnersTouchOwnReservation

------------------------------------------------------------------------------
(***************************************************************************)
(* One answer                                                              *)
(***************************************************************************)
\* Whoever has returned a result has returned the one under the key.
Standing == \A c \in Callers : call[c].pc = "done" /\ call[c].fate = "value" =>
    store.status = "completed" /\ store.by = call[c].answer

LEMMA StandingNext ==
    ASSUME Healthy, RInv, RInv', Standing, [Next]_vars
    PROVE  Standing'
<1>1. call \in [Callers -> Calls] /\ IInv /\ Outcomes /\ SeenStored
  BY DEF RInv, IInv, TypeOK
<1>2. ASSUME \A c \in Callers : /\ call'[c].pc = call[c].pc /\ call'[c].fate = call[c].fate
                                /\ call'[c].answer = call[c].answer
      PROVE  Standing'
  BY <1>1, <1>2, ResultStays DEF Standing
\* What c is now, if it has returned a result, is the one under the key.
<1>3. ASSUME NEW c \in Callers, NEW s, Become(c, s),
             s.pc = "done" /\ s.fate = "value" =>
                 store'.status = "completed" /\ store'.by = s.answer
      PROVE  Standing'
  <2>1. call'[c] = s /\ \A d \in Callers \ {c} : call'[d] = call[d]
    BY <1>1, <1>3 DEF Become
  <2>2. QED
    BY <1>1, <1>3, <2>1, ResultStays DEF Standing
<1>4. ASSUME NEW c \in Callers, NEW p, NEW f, Ends(c, p, f), p # "done" \/ f # "value"
      PROVE  Standing'
  BY <1>3, <1>4 DEF Ends, At
<1>5. ASSUME NEW c \in Callers, NEW p, Claiming(c, p), p # "done"
      PROVE  Standing'
  BY <1>1, <1>3, <1>5 DEF Claiming, At
<1>6. ASSUME NEW c \in Callers, Serve(c) PROVE Standing'
  <2>1. CASE ReserveWins(c)
    BY <1>3, <2>1 DEF ReserveWins, At
  <2>2. CASE \/ ReserveCollides(c) \/ FindsNothing(c) \/ FindsExpired(c) \/ FindsLapsed(c)
             \/ RefusesReuse(c) \/ FindsPending(c) \/ Wake(c)
    BY <1>4, <1>5, <2>2 DEF ReserveCollides, FindsNothing, FindsExpired, FindsLapsed,
       RefusesReuse, FindsPending, Wake, Again
  <2>3. CASE ReadStore(c)
    <3>1. call[c] \in Calls
      BY <1>1
    <3>2. Become(c, [call[c] EXCEPT !.pc = "judging", !.seen = Read(c)])
      BY <1>1, <2>3 DEF ReadStore, Become
    <3>3. QED
      BY <1>3, <3>1, <3>2 DEF Calls
  <2>4. CASE FindsResult(c)
    BY <1>1, <1>3, <2>4 DEF FindsResult, HasFound, SeenStored, At
  <2>5. CASE FindsUnusable(c)
    BY <1>1, <2>5, Judged, HealthyAttended DEF FindsUnusable, HasFound
  <2>6. CASE Purge(c)
    BY <1>1, <2>6 DEF Purge, IInv, Quiet
  <2>7. CASE JoinReturns(c)
    BY <1>4, <2>7 DEF JoinReturns
  <2>8. CASE CompleteSet(c)
    BY <1>1, <1>3, <2>8 DEF CompleteSet, Completing, IInv, Quiet, UnreservedPcs, Ends, At,
       Result, Written
  <2>9. CASE Release(c)
    BY <1>1, <1>4, <2>9 DEF Release, Outcomes
  <2>10. QED
    BY <1>6, <2>1, <2>2, <2>3, <2>4, <2>5, <2>6, <2>7, <2>8, <2>9 DEF Serve
<1>7. ASSUME NEW c \in Callers, Suffer(c) PROVE Standing'
  <2>1. call[c].pc = "running" \/ ~Executing(c)
    BY <1>1 DEF Executing, IInv, Quiet, UnreservedPcs
  <2>2. CASE FinishAction(c)
    BY <1>1, <1>3, <2>1, <2>2 DEF FinishAction, At
  <2>3. CASE Breaks(c, "action_error") \/ Breaks(c, "cancelled")
    BY <1>4, <2>3 DEF Breaks
  <2>4. QED
    BY <1>1, <1>7, <2>2, <2>3, HealthySuffer DEF IInv
<1>8. CASE Tick
  <2>1. ASSUME NEW c \in Callers
        PROVE  /\ call'[c].pc = call[c].pc /\ call'[c].fate = call[c].fate
               /\ call'[c].answer = call[c].answer
    <3>1. call[c] \in Calls
      BY <1>1
    <3>2. call'[c] = [call[c] EXCEPT
              !.age = IF call[c].pc \in RequestPcs THEN Longer(@) ELSE @,
              !.dl = Minus(@, 1), !.seen = Older(@)]
      BY <1>8 DEF Tick
    <3>3. QED
      BY <3>1, <3>2 DEF Calls
  <2>2. QED
    BY <1>2, <2>1
<1>9. ASSUME NEW c \in Callers, Call(c) PROVE Standing'
  BY <1>3, <1>9 DEF Call, At
<1>10. ASSUME NEW c \in Callers, ServeRenewal(c) PROVE Standing'
  BY <1>2, <1>10 DEF ServeRenewal, RenewalDue, RenewSet
<1>11. CASE UNCHANGED vars
  BY <1>2, <1>11 DEF vars
<1>12. ~DirectSave /\ ~DirectDelete /\ wire = {}
  BY <1>1 DEF Healthy, DirectSave, DirectDelete, IInv, Quiet
<1>13. QED
  BY <1>6, <1>7, <1>8, <1>9, <1>10, <1>11, <1>12 DEF Next

\* OneAnswer in every healthy instance, for any number of calls: a result is stored
\* before it is returned, stays, and is what everybody else reads.
THEOREM AllToldTheSame == ASSUME Healthy PROVE Spec => []OneAnswer
<1>1. Init => Standing
  BY DEF Init, At, Standing
<1>2. RInv /\ RInv' /\ Standing /\ [Next]_vars => Standing'
  BY StandingNext
<1>3. Standing => OneAnswer
  BY DEF Standing, OneAnswer
<1>4. QED
  BY <1>1, <1>2, <1>3, RInvInit, RInvNext, PTL DEF Spec
==============================================================================
