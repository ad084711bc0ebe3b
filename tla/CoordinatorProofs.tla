-------------------------- MODULE CoordinatorProofs --------------------------
(***************************************************************************)
(* Theorems about Coordinator, for every set of callers and every lease,   *)
(* interval, latency and TTL its assumptions allow.                        *)
(***************************************************************************)
EXTENDS Coordinator, TLAPS

------------------------------------------------------------------------------
(***************************************************************************)
(* Type correctness                                                        *)
(***************************************************************************)
\* Minus never leaves the range it starts from (it is what every clock uses).
LEMMA MinusRange ==
    ASSUME NEW n \in Nat, NEW k \in Nat
    PROVE  Minus(n, k) \in 0..n
BY DEF Minus

\* What a SET leaves under the key is a record, whoever sent it and however late.
LEMMA WrittenTyped ==
    ASSUME NEW s \in Statuses, NEW x \in Authors,
           NEW life \in {Lease, ResultTtl}, NEW age \in 0..Lease
    PROVE  Written(s, x, life, age) \in Records
<1>1. life \in Nat /\ age \in Nat
  BY TimingAssumption
<1>2. Minus(life, age) \in 0..life
  BY <1>1, MinusRange
<1>3. life <= Lease + ResultTtl
  BY TimingAssumption
<1>4. QED
  BY <1>1, <1>2, <1>3, TimingAssumption DEF Written, Records

LEMMA NoneTyped == None \in Records
BY TimingAssumption DEF None, Absent, Records, Statuses, Authors

\* The states a coroutine is put in by the steps of the model.
LEMMA CallTyped ==
    ASSUME NEW c \in Callers, NEW p \in Pcs, NEW d \in 0..Lease, NEW f \in Fates,
           NEW r \in {"no", "started", "ok"}, NEW x \in Authors
    PROVE  /\ At(c, p) \in Calls
           /\ [At(c, p) EXCEPT !.dl = d] \in Calls
           /\ [At(c, p) EXCEPT !.ran = r] \in Calls
           /\ [At(c, p) EXCEPT !.fate = f, !.ran = r] \in Calls
           /\ [At(c, p) EXCEPT !.fate = f, !.answer = x] \in Calls
<1>1. c \in Authors
  BY DEF Authors
<1>2. 0 \in 0..Lease
  BY TimingAssumption
<1>3. QED
  BY <1>1, <1>2, NoneTyped DEF At, Calls, Fates

LEMMA BecomeTyped ==
    ASSUME TypeOK, NEW c \in Callers, NEW s \in Calls, Become(c, s)
    PROVE  call' \in [Callers -> Calls]
BY DEF TypeOK, Become

LEMMA AsleepTyped ==
    ASSUME NEW m \in 0..Blips
    PROVE  Asleep(m) \in Renewals /\ NoRenewal \in Renewals
BY TimingAssumption DEF Asleep, NoRenewal, Renewals

LEMMA RenewsTyped ==
    ASSUME TypeOK, NEW c \in Callers, NEW s \in Renewals, Renews(c, s)
    PROVE  ren' \in [Callers -> Renewals]
BY DEF TypeOK, Renews

\* Commands left behind are those of a caller that had sent them.
LEMMA AbandonsTyped ==
    ASSUME TypeOK, NEW c \in Callers,
           NEW S \in SUBSET (Outstanding(c) \union Renewing(c)), Abandons(S)
    PROVE  wire' \subseteq Commands
<1>1. call[c] \in Calls /\ ren[c] \in Renewals
  BY DEF TypeOK
<1>2. call[c].age \in 0..Lease /\ ren[c].age \in 0..Lease
  BY <1>1 DEF Calls, Renewals
<1>3. Outstanding(c) \subseteq Commands
  BY <1>2 DEF Outstanding, Command, Commands
<1>4. Renewing(c) \subseteq Commands
  BY <1>2 DEF Renewing, Command, Commands
<1>5. QED
  BY <1>3, <1>4 DEF Abandons, TypeOK

LEMMA InitTyped == Init => TypeOK
<1> SUFFICES ASSUME Init PROVE TypeOK
  OBVIOUS
<1>1. store \in Records
  <2>1. PICK kind \in Leftovers : store \in Leftover(kind)
    BY DEF Init
  <2>2. CASE kind = "none"
    BY <2>1, <2>2, NoneTyped DEF Leftover
  <2>3. CASE kind = "result"
    BY <2>1, <2>3, WrittenTyped, TimingAssumption DEF Leftover, Statuses, Authors
  <2>4. CASE kind = "foreign"
    <3>1. store = Written("completed", Stranger, ResultTtl, 0)
      BY <2>1, <2>4 DEF Leftover
    <3>2. 0 \in 0..Lease /\ Stranger \in Authors
      BY TimingAssumption DEF Authors
    <3>3. QED
      BY <3>1, <3>2, WrittenTyped DEF Statuses
  <2>5. CASE kind = "corrupt"
    BY <2>1, <2>5, WrittenTyped, TimingAssumption DEF Leftover, Statuses, Authors
  <2>6. CASE kind = "abandoned"
    <3>1. PICK age \in 0..Latency : store = Written("pending", Earlier, Lease, age)
      BY <2>1, <2>6 DEF Leftover
    <3>2. age \in 0..Lease
      BY TimingAssumption
    <3>3. QED
      BY <3>1, <3>2, WrittenTyped DEF Statuses, Authors
  <2>7. QED
    BY <2>2, <2>3, <2>4, <2>5, <2>6, FaultsAssumption
<1>2. call \in [Callers -> Calls]
  <2>1. \A c \in Callers : At(c, "idle") \in Calls
    BY CallTyped, TimingAssumption DEF Pcs, Fates, Authors
  <2>2. QED
    BY <2>1 DEF Init
<1>3. ren \in [Callers -> Renewals]
  BY AsleepTyped, TimingAssumption DEF Init
<1>4. wire \subseteq Commands
  BY DEF Init
<1>5. QED
  BY <1>1, <1>2, <1>3, <1>4 DEF TypeOK

\* The outcomes of a claim that goes round, fails or runs without a reservation.
LEMMA ClaimTyped ==
    ASSUME TypeOK, NEW c \in Callers,
           \/ Again(c) \/ StorageFails(c) \/ RunsUnreserved(c)
           \/ \E p \in Pcs : Claiming(c, p)
           \/ \E p \in Pcs, f \in Fates : Ends(c, p, f)
    PROVE  call' \in [Callers -> Calls]
<1>1. call[c].dl \in 0..Lease /\ call[c].ran \in {"no", "started", "ok"}
  BY DEF TypeOK, Calls
<1>2. {"done", "reserving", "running_unreserved"} \subseteq Pcs
  BY DEF Pcs, ClaimPcs, UnreservedPcs
<1>3. {"in_progress", "storage_error"} \subseteq Fates /\ c \in Authors
  BY DEF Fates, Authors
<1>4. \A p \in Pcs : Claiming(c, p) => call' \in [Callers -> Calls]
  <2> TAKE p \in Pcs
  <2>1. [At(c, p) EXCEPT !.dl = call[c].dl] \in Calls
    BY <1>1, <1>3, CallTyped DEF Fates
  <2>2. QED
    BY <2>1, BecomeTyped DEF Claiming
<1>5. \A p \in Pcs, f \in Fates : Ends(c, p, f) => call' \in [Callers -> Calls]
  <2> TAKE p \in Pcs, f \in Fates
  <2>1. [At(c, p) EXCEPT !.fate = f, !.ran = call[c].ran] \in Calls
    BY <1>1, <1>3, CallTyped
  <2>2. QED
    BY <2>1, BecomeTyped DEF Ends
<1>6. RunsUnreserved(c) => call' \in [Callers -> Calls]
  <2>1. [At(c, "running_unreserved") EXCEPT !.ran = "started"] \in Calls
    BY <1>1, <1>2, <1>3, CallTyped
  <2>2. QED
    BY <2>1, BecomeTyped DEF RunsUnreserved
<1>7. QED
  BY <1>2, <1>3, <1>4, <1>5, <1>6 DEF Again, StorageFails

\* The renewal task after a write, and after its owner is done with it.
LEMMA AfterRenewalTyped ==
    ASSUME TypeOK, NEW c \in Callers, NEW m \in 0..Blips, AfterRenewal(c, m)
    PROVE  ren' \in [Callers -> Renewals]
BY AsleepTyped, RenewsTyped DEF AfterRenewal

LEMMA ServeTyped ==
    ASSUME TypeOK, NEW c \in Callers, Serve(c)
    PROVE  TypeOK'
<1>1. /\ store \in Records /\ call[c] \in Calls /\ wire \subseteq Commands
      /\ ren \in [Callers -> Renewals] /\ c \in Authors
  BY DEF TypeOK, Authors
<1>2. call[c].age \in 0..Lease /\ call[c].fate \in Fates /\ call[c].seen \in Records
  BY <1>1 DEF Calls
<1>3. NoRenewal \in Renewals /\ Asleep(0) \in Renewals
  BY AsleepTyped, TimingAssumption
<1>4. CASE ReserveWins(c)
  <2>1. Pending(c, call[c].age) \in Records
    BY <1>1, <1>2, WrittenTyped DEF Pending, Statuses
  <2>2. store' \in Records
    BY <1>4, <1>1, <2>1 DEF ReserveWins, SetNX
  <2>3. [At(c, "running") EXCEPT !.ran = "started"] \in Calls
    BY <1>1, <1>2, CallTyped, TimingAssumption DEF Pcs, HolderPcs
  <2>4. QED
    BY <1>4, <1>1, <1>3, <2>2, <2>3, BecomeTyped, RenewsTyped DEF ReserveWins, TypeOK
<1>5. CASE ReserveCollides(c)
  BY <1>5, <1>1, ClaimTyped DEF ReserveCollides, TypeOK, Pcs, ClaimPcs
<1>6. CASE ReadStore(c)
  <2>1. Read(c) \in Records
    <3>1. [store EXCEPT !.ttl = 0] \in Records
      BY <1>1, TimingAssumption DEF Records
    <3>2. QED
      BY <3>1, NoneTyped DEF Read
  <2>2. [call[c] EXCEPT !.pc = "judging", !.seen = Read(c)] \in Calls
    BY <1>1, <2>1 DEF Calls, Pcs, ClaimPcs
  <2>3. call' \in [Callers -> Calls]
    BY <1>6, <2>2 DEF ReadStore, TypeOK
  <2>4. QED
    BY <1>6, <1>1, <2>3 DEF ReadStore, TypeOK
<1>7. CASE FindsNothing(c)
  BY <1>7, <1>1, ClaimTyped DEF FindsNothing, TypeOK
<1>8. CASE FindsExpired(c)
  BY <1>8, <1>1, ClaimTyped DEF FindsExpired, TypeOK, Pcs, ClaimPcs
<1>9. CASE FindsLapsed(c)
  BY <1>9, <1>1, ClaimTyped DEF FindsLapsed, TypeOK
<1>10. CASE RefusesReuse(c)
  BY <1>10, <1>1, ClaimTyped DEF RefusesReuse, TypeOK, Pcs, Fates
<1>11. CASE FindsPending(c)
  BY <1>11, <1>1, ClaimTyped DEF FindsPending, TypeOK, Pcs, ClaimPcs, Fates
<1>12. CASE FindsResult(c)
  <2>1. call[c].seen.by \in Authors
    BY <1>2 DEF Records
  <2>2. [At(c, "done") EXCEPT !.fate = "value", !.answer = call[c].seen.by] \in Calls
    BY <2>1, CallTyped, TimingAssumption DEF Pcs, Fates
  <2>3. QED
    BY <1>12, <1>1, <2>2, BecomeTyped DEF FindsResult, TypeOK
<1>13. CASE FindsUnusable(c)
  BY <1>13, <1>1, ClaimTyped DEF FindsUnusable, TypeOK
<1>14. CASE Purge(c)
  BY <1>14, <1>1, ClaimTyped, NoneTyped DEF Purge, Deleted, TypeOK
<1>15. CASE Wake(c)
  BY <1>15, <1>1, ClaimTyped DEF Wake, TypeOK, Pcs, ClaimPcs
<1>16. CASE JoinReturns(c)
  <2>1. call' \in [Callers -> Calls]
    BY <1>16, <1>2, ClaimTyped DEF JoinReturns, Pcs, HolderPcs
  <2>2. QED
    BY <1>16, <1>1, <1>3, <2>1, RenewsTyped DEF JoinReturns, TypeOK
<1>17. CASE CompleteSet(c)
  <2>1. Result(c, call[c].age) \in Records
    BY <1>1, <1>2, WrittenTyped DEF Result, Statuses
  <2>2. call' \in [Callers -> Calls]
    BY <1>17, <1>2, ClaimTyped DEF CompleteSet, Pcs
  <2>3. QED
    BY <1>17, <1>1, <2>1, <2>2 DEF CompleteSet, TypeOK
<1>18. CASE Release(c)
  <2>1. call' \in [Callers -> Calls]
    BY <1>18, <1>2, ClaimTyped DEF Release, Pcs
  <2>2. QED
    BY <1>18, <1>1, <2>1, NoneTyped DEF Release, Deleted, TypeOK
<1>19. QED
  BY <1>4, <1>5, <1>6, <1>7, <1>8, <1>9, <1>10, <1>11, <1>12, <1>13, <1>14,
     <1>15, <1>16, <1>17, <1>18 DEF Serve

LEMMA ServeRenewalTyped ==
    ASSUME TypeOK, NEW c \in Callers, ServeRenewal(c)
    PROVE  TypeOK'
<1>1. /\ store \in Records /\ call \in [Callers -> Calls] /\ wire \subseteq Commands
      /\ ren[c] \in Renewals /\ c \in Authors
  BY DEF TypeOK, Authors
<1>2. CASE RenewalDue(c)
  <2>0. 0 \in 0..(Interval + Latency) /\ 0 \in 0..Lease
    BY TimingAssumption
  <2>1. [ren[c] EXCEPT !.st = "write", !.due = 0, !.age = 0] \in Renewals
    BY <1>1, <2>0 DEF Renewals
  <2>2. QED
    BY <1>2, <1>1, <2>1, RenewsTyped DEF RenewalDue, TypeOK
<1>3. CASE RenewSet(c)
  <2>1. ren[c].age \in 0..Lease
    BY <1>1 DEF Renewals
  <2>2. Pending(c, ren[c].age) \in Records
    BY <1>1, <2>1, WrittenTyped DEF Pending, Statuses
  <2>3. ren' \in [Callers -> Renewals]
    BY <1>3, AfterRenewalTyped, TimingAssumption DEF RenewSet
  <2>4. QED
    BY <1>3, <1>1, <2>2, <2>3 DEF RenewSet, TypeOK
<1>4. QED
  BY <1>2, <1>3 DEF ServeRenewal

LEMMA SufferTyped ==
    ASSUME TypeOK, NEW c \in Callers, Suffer(c)
    PROVE  TypeOK'
<1>1. /\ store \in Records /\ call[c] \in Calls /\ wire \subseteq Commands
      /\ call \in [Callers -> Calls] /\ ren \in [Callers -> Renewals]
      /\ ren[c] \in Renewals /\ c \in Authors
  BY DEF TypeOK, Authors
<1>2. call[c].fate \in Fates /\ call[c].ran \in {"no", "started", "ok"}
  BY <1>1 DEF Calls
<1>3. NoRenewal \in Renewals
  BY AsleepTyped, TimingAssumption
<1>4. Abandons(Outstanding(c)) => wire' \subseteq Commands
  BY AbandonsTyped
<1>5. CASE FinishAction(c)
  <2> DEFINE p == IF call[c].pc = "running" THEN "joining" ELSE "completing_unreserved"
  <2>1. p \in Pcs
    BY DEF Pcs, HolderPcs, UnreservedPcs
  <2> HIDE DEF p
  <2>2. [At(c, p) EXCEPT !.fate = "value", !.ran = "ok"] \in Calls
    BY <2>1, <1>1, CallTyped, TimingAssumption DEF Fates
  <2>3. Become(c, [At(c, p) EXCEPT !.fate = "value", !.ran = "ok"])
    BY <1>5 DEF FinishAction, p
  <2>4. QED
    BY <1>5, <1>1, <2>2, <2>3, BecomeTyped DEF FinishAction, TypeOK
<1>6. ASSUME NEW f \in Fates, Breaks(c, f) PROVE TypeOK'
  <2>1. call' \in [Callers -> Calls]
    BY <1>6, ClaimTyped DEF Breaks, Pcs, HolderPcs
  <2>2. QED
    BY <1>6, <1>1, <2>1 DEF Breaks, TypeOK
<1>7. CASE ActionFails(c) \/ CancelAction(c)
  BY <1>6, <1>7 DEF ActionFails, CancelAction, Fates
<1>8. CASE ReserveFails(c)
  BY <1>8, <1>1, <1>4, ClaimTyped DEF ReserveFails, TypeOK
<1>9. CASE ReserveRejected(c) \/ ReadFails(c)
  BY <1>9, <1>1, ClaimTyped DEF ReserveRejected, ReadFails, TypeOK
<1>10. CASE PurgeFails(c)
  BY <1>10, <1>1, <1>4, ClaimTyped DEF PurgeFails, TypeOK
<1>11. CASE CancelClaim(c)
  <2>1. call' \in [Callers -> Calls]
    BY <1>11, ClaimTyped DEF CancelClaim, Pcs, Fates
  <2>2. QED
    BY <1>11, <1>1, <1>4, <2>1 DEF CancelClaim, TypeOK
<1>12. ASSUME NotStored(c) PROVE call' \in [Callers -> Calls]
  BY <1>12, <1>2, ClaimTyped DEF NotStored, Pcs, HolderPcs
<1>13. CASE CompleteFails(c)
  BY <1>13, <1>1, <1>4, <1>12 DEF CompleteFails, TypeOK
<1>14. CASE Unstorable(c)
  BY <1>14, <1>1, <1>12 DEF Unstorable, TypeOK
<1>15. CASE ReleaseFails(c)
  <2>1. call' \in [Callers -> Calls]
    BY <1>15, <1>2, ClaimTyped DEF ReleaseFails, Pcs
  <2>2. QED
    BY <1>15, <1>1, <1>4, <2>1 DEF ReleaseFails, TypeOK
<1>16. CASE CancelJoin(c)
  <2>1. call' \in [Callers -> Calls]
    BY <1>16, ClaimTyped DEF CancelJoin, Pcs, HolderPcs, Fates
  <2>2. ren' \in [Callers -> Renewals]
    BY <1>16, <1>1, <1>3, RenewsTyped DEF CancelJoin
  <2>3. QED
    BY <1>16, <1>1, <2>1, <2>2 DEF CancelJoin, TypeOK
<1>17. CASE CancelCleanup(c)
  <2>1. call' \in [Callers -> Calls]
    BY <1>17, ClaimTyped DEF CancelCleanup, Pcs, Fates
  <2>2. QED
    BY <1>17, <1>1, <1>4, <2>1 DEF CancelCleanup, TypeOK
<1>18. CASE RenewFails(c)
  <2>1. ren[c].missed + 1 \in 0..Blips
    BY <1>18, <1>1, TimingAssumption DEF RenewFails, Renewals
  <2>2. ren' \in [Callers -> Renewals]
    BY <1>18, <2>1, AfterRenewalTyped DEF RenewFails
  <2>3. wire' \subseteq Commands
    BY <1>18, AbandonsTyped DEF RenewFails
  <2>4. QED
    BY <1>18, <1>1, <2>2, <2>3 DEF RenewFails, TypeOK
<1>19. CASE Crash(c)
  <2>1. [At(c, "crashed") EXCEPT !.ran = call[c].ran] \in Calls
    BY <1>1, <1>2, CallTyped, TimingAssumption DEF Pcs, Fates
  <2>2. wire' \subseteq Commands
    BY <1>19, AbandonsTyped DEF Crash
  <2>3. QED
    BY <1>19, <1>1, <1>3, <2>1, <2>2, BecomeTyped, RenewsTyped DEF Crash, TypeOK
<1>20. QED
  BY <1>5, <1>7, <1>8, <1>9, <1>10, <1>11, <1>13, <1>14, <1>15, <1>16, <1>17,
     <1>18, <1>19 DEF Suffer

LEMMA CallStepTyped ==
    ASSUME TypeOK, NEW c \in Callers, Call(c)
    PROVE  TypeOK'
<1>1. Lease \in 0..Lease /\ c \in Authors
  BY TimingAssumption DEF Authors
<1>2. [At(c, "reserving") EXCEPT !.dl = Lease] \in Calls
  BY <1>1, CallTyped DEF Pcs, ClaimPcs, Fates
<1>3. QED
  BY <1>2, BecomeTyped DEF Call, TypeOK

LEMMA LandTyped ==
    ASSUME TypeOK, NEW cmd \in wire, Land(cmd)
    PROVE  TypeOK'
<1>1. /\ cmd.op \in {"reserve", "renew", "complete", "delete"}
      /\ cmd.by \in Authors /\ cmd.age \in 0..Lease /\ store \in Records
  BY DEF TypeOK, Commands, Authors
<1>2. Pending(cmd.by, cmd.age) \in Records /\ Result(cmd.by, cmd.age) \in Records
  BY <1>1, WrittenTyped DEF Pending, Result, Statuses
<1>3. Apply(store, cmd) \in Records
  BY <1>1, <1>2, NoneTyped DEF Apply, SetNX, Deleted
<1>4. QED
  BY <1>3 DEF Land, TypeOK

\* What the application writes under the key is a record, or nothing.
LEMMA DirectUseTyped ==
    ASSUME TypeOK, DirectSave \/ DirectDelete
    PROVE  TypeOK'
<1>0. 0 \in 0..Lease /\ Earlier \in Authors /\ "completed" \in Statuses
  BY TimingAssumption DEF Authors, Statuses
<1>1. Written("completed", Earlier, ResultTtl, 0) \in Records
  BY <1>0, WrittenTyped
<1>2. store' \in Records
  BY <1>1, NoneTyped DEF DirectSave, DirectDelete, SetNX, TypeOK
<1>3. QED
  BY <1>2 DEF DirectSave, DirectDelete, TypeOK

\* A tick makes everything a tick older and leaves the rest alone.
LEMMA LongerRange ==
    ASSUME NEW age \in 0..Lease
    PROVE  Longer(age) \in 0..Lease
BY TimingAssumption DEF Longer

LEMMA ElapseTyped ==
    ASSUME NEW rec \in Records
    PROVE  Elapse(rec, Earlier) \in Records
<1>1. rec.exp \in Nat /\ rec.ttl \in Nat
  BY TimingAssumption DEF Records
<1>2. Minus(rec.exp, 1) \in 0..(Lease + ResultTtl)
  BY <1>1, TimingAssumption DEF Records, Minus
<1>3. Minus(rec.ttl, 1) \in 0..(Lease + ResultTtl)
  BY <1>1, TimingAssumption DEF Records, Minus
<1>4. Absent(Earlier) \in Records
  BY NoneTyped DEF None
<1>5. QED
  BY <1>2, <1>3, <1>4 DEF Elapse, Records

LEMMA TickTyped ==
    ASSUME TypeOK, Tick
    PROVE  TypeOK'
<1>1. store' \in Records
  BY ElapseTyped DEF Tick, TypeOK
<1>2. ASSUME NEW c \in Callers PROVE call'[c] \in Calls
  <2>1. call[c] \in Calls
    BY DEF TypeOK
  <2>2. /\ call[c].age \in 0..Lease /\ call[c].dl \in 0..Lease
        /\ call[c].seen \in Records /\ call[c].seen.exp \in 0..(Lease + ResultTtl)
    BY <2>1 DEF Calls, Records
  <2>3. Longer(call[c].age) \in 0..Lease
    BY <2>2, LongerRange
  <2>4. Minus(call[c].dl, 1) \in 0..Lease
    BY <2>2, TimingAssumption DEF Minus
  <2>5. Minus(call[c].seen.exp, 1) \in 0..(Lease + ResultTtl)
    BY <2>2, TimingAssumption DEF Minus
  <2>6. [call[c].seen EXCEPT !.exp = Minus(@, 1)] \in Records
    BY <2>2, <2>5 DEF Records
  <2>7. Older(call[c].seen) \in Records
    BY <2>2, <2>6 DEF Older
  <2>8. call'[c] = [call[c] EXCEPT
              !.age = IF call[c].pc \in RequestPcs THEN Longer(@) ELSE @,
              !.dl = Minus(@, 1), !.seen = Older(@)]
    BY DEF Tick
  <2>9. QED
    BY <2>1, <2>2, <2>3, <2>4, <2>7, <2>8 DEF Calls
<1>3. ASSUME NEW c \in Callers PROVE ren'[c] \in Renewals
  <2>1. ren[c] \in Renewals
    BY DEF TypeOK
  <2>2. ren[c].age \in 0..Lease /\ ren[c].due \in 0..(Interval + Latency)
    BY <2>1 DEF Renewals
  <2>3. Longer(ren[c].age) \in 0..Lease
    BY <2>2, LongerRange
  <2>4. Minus(ren[c].due, 1) \in 0..(Interval + Latency)
    BY <2>2, TimingAssumption DEF Minus
  <2>5. ren'[c] = [ren[c] EXCEPT
              !.due = Minus(@, 1),
              !.age = IF ren[c].st = "write" THEN Longer(@) ELSE @]
    BY DEF Tick
  <2>6. QED
    BY <2>1, <2>2, <2>3, <2>4, <2>5 DEF Renewals
<1>4. ASSUME NEW cmd \in wire PROVE [cmd EXCEPT !.age = Longer(@)] \in Commands
  <2>1. cmd \in Commands
    BY DEF TypeOK
  <2>2. Longer(cmd.age) \in 0..Lease
    BY <2>1, LongerRange DEF Commands
  <2>3. QED
    BY <2>1, <2>2 DEF Commands
<1>5. call' \in [Callers -> Calls] /\ ren' \in [Callers -> Renewals]
  BY <1>2, <1>3 DEF Tick
<1>6. wire' \subseteq Commands
  BY <1>4 DEF Tick
<1>7. QED
  BY <1>1, <1>5, <1>6 DEF TypeOK

LEMMA NextTyped == TypeOK /\ [Next]_vars => TypeOK'
<1> SUFFICES ASSUME TypeOK, [Next]_vars PROVE TypeOK'
  OBVIOUS
<1>1. CASE UNCHANGED vars
  BY <1>1 DEF vars, TypeOK
<1>2. CASE Tick
  BY <1>2, TickTyped
<1>3. ASSUME NEW cmd \in wire, Land(cmd) PROVE TypeOK'
  BY <1>3, LandTyped
<1>4. ASSUME NEW c \in Callers, Call(c) \/ Serve(c) \/ ServeRenewal(c) \/ Suffer(c)
      PROVE  TypeOK'
  BY <1>4, CallStepTyped, ServeTyped, ServeRenewalTyped, SufferTyped
<1>5. CASE DirectSave \/ DirectDelete
  BY <1>5, DirectUseTyped
<1>6. QED
  BY <1>1, <1>2, <1>3, <1>4, <1>5 DEF Next

\* Whatever goes wrong, the state keeps its shape: records, calls, renewal tasks
\* and commands on the wire stay what coordinate() and the repository make of them.
THEOREM TypeCorrect == Spec => []TypeOK
BY InitTyped, NextTyped, PTL DEF Spec

------------------------------------------------------------------------------
(***************************************************************************)
(* One execution at a time, while reservations are attended                *)
(***************************************************************************)
\* What the lease loses to failed renewals: a delay and an interval for each.
LEMMA SpentGrows ==
    ASSUME NEW m \in 0..Blips
    PROVE  /\ Spent(m) \in Nat /\ Spent(m) <= Spent(Blips)
           /\ Spent(m + 1) = Spent(m) + Interval + 2 * Latency
<1> DEFINE D == Interval + 2 * Latency
<1>1. D \in Nat /\ m \in Nat /\ Blips \in Nat /\ m <= Blips
  BY TimingAssumption
<1>2. Interval \in Nat /\ Latency \in Nat
  BY TimingAssumption
<1>3. /\ Spent(m) = (m + 1) * D /\ Spent(Blips) = (Blips + 1) * D
      /\ Spent(m + 1) = (m + 1 + 1) * D
  BY DEF Spent
<1>4. (m + 1 + 1) * D = (m + 1) * D + Interval + 2 * Latency
  <2>1. (m + 1 + 1) * D = (m + 1) * D + D
    BY <1>1
  <2>2. (m + 1) * D \in Nat
    BY <1>1
  <2>3. QED
    BY <1>2, <2>1, <2>2
<1> HIDE DEF D
<1>5. (m + 1) * D \in Nat /\ (m + 1) * D <= (Blips + 1) * D
  BY <1>1
<1>6. QED
  BY <1>3, <1>4, <1>5

\* The lease leaves room for the renewals that may fail and for the reads around
\* them.
LEMMA Margin ==
    ASSUME Attended
    PROVE  /\ Lease \in Nat /\ Interval \in Nat /\ Latency \in Nat /\ ResultTtl \in Nat
           /\ Lease > 0 /\ Latency < ResultTtl /\ Blips \in Nat
           /\ Detour \in Nat /\ Spent(0) = Interval + 2 * Latency
           /\ Spent(Blips) \in Nat /\ LongestUse = Spent(Blips) + Latency + Detour
           /\ Spent(Blips) + 2 * Latency + Detour < Lease
<1>1. /\ Lease \in Nat /\ Interval \in Nat /\ Latency \in Nat /\ ResultTtl \in Nat
      /\ Lease > 0 /\ Latency < ResultTtl /\ Blips \in Nat
  BY TimingAssumption
<1>2. Spent(Blips) \in Nat
  BY <1>1, SpentGrows
<1>3. Spent(0) = Interval + 2 * Latency
  BY <1>1 DEF Spent
<1>4. Detour \in Nat
  BY <1>1 DEF Detour
<1>5. QED
  BY <1>1, <1>2, <1>3, <1>4 DEF Attended, LongestUse

\* How long a call has needed its key for, whatever became of its renewals.
LEMMA MissedRange ==
    ASSUME Attended, NEW c \in Callers, ren[c] \in Renewals
    PROVE  /\ Missed(c) \in 0..Blips
           /\ Spent(Missed(c)) \in Nat /\ Spent(Missed(c)) <= Spent(Blips)
<1>1. Missed(c) \in 0..Blips
  BY Margin DEF Missed, Renewals
<1>2. QED
  BY <1>1, SpentGrows

\* The healthy regime is the one where no renewal and no completion fails.
LEMMA HealthyAttended == Healthy => Attended
<1> SUFFICES ASSUME Healthy PROVE Attended
  OBVIOUS
<1>1. Interval \in Nat /\ Latency \in Nat /\ Lease \in Nat /\ Blips = 0
  BY TimingAssumption DEF Healthy
<1>2. LongestUse + Latency < Lease
  BY <1>1 DEF Healthy, LongestUse, Spent, Detour
<1>3. QED
  BY <1>2 DEF Healthy, Attended

\* In the healthy regime what cannot go wrong does not.
LEMMA HealthySuffer ==
    ASSUME Healthy, TypeOK, Quiet, NEW c \in Callers, Suffer(c)
    PROVE  FinishAction(c) \/ Breaks(c, "action_error") \/ Breaks(c, "cancelled")
<1>1. \A f \in {"cancel_claim", "cancel_join", "cancel_cleanup", "outage", "release_outage",
               "crash", "rejected", "unstorable"} :
         f \notin Faults
  BY DEF Healthy
<1>2. ~RenewFails(c)
  BY DEF Healthy, RenewFails, TypeOK, Renewals
<1>3. QED
  BY <1>1, <1>2 DEF Suffer, ActionFails, CancelAction, ReserveFails, ReserveRejected, ReadFails,
     PurgeFails, CancelClaim, CompleteFails, Unstorable, ReleaseFails, CancelJoin, CancelCleanup, Crash

LEMMA InvInit == ASSUME Attended, Init PROVE IInv
<1>1. TypeOK
  BY InitTyped
<1>2. \A c \in Callers : call[c] = At(c, "idle") /\ ren[c] = NoRenewal
  BY DEF Init
<1>3. \A c \in Callers : call[c].pc = "idle" /\ ren[c].st = "off"
  <2> TAKE c \in Callers
  <2>1. call[c].pc = "idle"
    <3>1. At(c, "idle").pc = "idle"
      BY DEF At
    <3>2. QED
      BY <1>2, <3>1
  <2>2. ren[c].st = "off"
    BY <1>2 DEF NoRenewal
  <2>3. QED
    BY <2>1, <2>2
<1>4. store = None \/ store = Written("completed", Earlier, ResultTtl, 0)
  <2>1. PICK kind \in Leftovers : store \in Leftover(kind)
    BY DEF Init
  <2>2. kind = "none" \/ kind = "result"
    BY <2>1 DEF Attended
  <2>3. QED
    BY <2>1, <2>2 DEF Leftover
<1>5. /\ store.status \in {"absent", "completed"} /\ store.ttl >= store.exp
      /\ store.status = "completed" => store.exp > 0 /\ store.by = Earlier
  BY <1>4, Margin DEF None, Absent, Written, Minus
<1>6. Quiet
  BY <1>3 DEF Init, Quiet, UnreservedPcs
<1>7. KeyOfHolder
  BY <1>3, <1>5 DEF KeyOfHolder, Holds, HolderPcs
<1>8. RenewalOfBody /\ InTime
  BY <1>3 DEF RenewalOfBody, InTime, RequestPcs
<1>9. LeaseAhead
  BY <1>3, <1>5 DEF LeaseAhead, Holds, HolderPcs
<1>10. SeenLive
  BY <1>3, <1>5, CallersAssumption DEF SeenLive, Live
<1>11. QED
  BY <1>1, <1>6, <1>7, <1>8, <1>9, <1>10 DEF IInv

\* Where a call stands after the steps that end an await.
LEMMA Moves ==
    ASSUME TypeOK, NEW c \in Callers, NEW p, NEW f, Claiming(c, p) \/ Ends(c, p, f)
    PROVE  /\ call'[c].pc = p /\ call'[c].age = 0
           /\ \A d \in Callers : d # c => call'[d] = call[d]
<1>1. CASE Claiming(c, p)
  BY <1>1 DEF Claiming, Become, At, TypeOK
<1>2. CASE Ends(c, p, f)
  BY <1>2 DEF Ends, Become, At, TypeOK
<1>3. QED
  BY <1>1, <1>2

\* A step of a claim that neither wins the reservation nor reads.
LEMMA ClaimStepInv ==
    ASSUME IInv, TypeOK', NEW c \in Callers, UNCHANGED <<store, ren, wire>>,
           \A d \in Callers : d # c => call'[d] = call[d], ~Holds(c),
           call'[c].pc \in {"reserving", "reading", "sleeping", "done"}, call'[c].age = 0
    PROVE  IInv'
<1>1. \A d \in Callers : d # c => call'[d] = call[d]
  OBVIOUS
<1>2. \A d \in Callers : Holds(d)' <=> Holds(d)
  BY <1>1 DEF Holds, HolderPcs
<1>3. Quiet'
  BY <1>1 DEF IInv, Quiet, UnreservedPcs
<1>4. KeyOfHolder'
  BY <1>2 DEF IInv, KeyOfHolder, OwnReservation
<1>5. RenewalOfBody'
  BY <1>1 DEF IInv, RenewalOfBody, Holds, HolderPcs
<1>6. InTime'
  BY <1>1, TimingAssumption DEF IInv, InTime
<1>7. LeaseAhead'
  <2>1. \A d \in Callers : Holds(d) => Slack(d)' = Slack(d) /\ Missed(d)' = Missed(d)
    BY <1>1 DEF Slack, Missed
  <2>2. QED
    BY <1>2, <2>1 DEF IInv, LeaseAhead
<1>8. SeenLive'
  BY <1>1 DEF IInv, SeenLive, Live
<1>9. QED
  BY <1>3, <1>4, <1>5, <1>6, <1>7, <1>8 DEF IInv

\* What a judged record is, while reservations are attended: never expired, never
\* unusable.
LEMMA Judged ==
    ASSUME Attended, IInv, NEW c \in Callers, call[c].pc = "judging"
    PROVE  /\ call[c].seen.status \in {"absent", "pending", "completed"}
           /\ call[c].seen.status \in {"pending", "completed"} => ~IsExpired(call[c].seen)
           /\ call[c].seen.status = "completed" => call[c].seen.by # Stranger
<1>1. call[c].seen \in Records /\ call[c].age \in Nat
  BY TimingAssumption DEF IInv, TypeOK, Calls
<1>2. call[c].age <= Latency
  BY DEF IInv, InTime, RequestPcs
<1>3. call[c].seen.exp \in Int /\ call[c].seen.status \in Statuses
  BY <1>1 DEF Records
<1>4. /\ Live(call[c].seen)
      /\ call[c].seen.status = "pending" =>
            call[c].seen.exp >= Lease - LongestUse - call[c].age
  BY DEF IInv, SeenLive
<1>5. call[c].seen.status = "pending" => call[c].seen.exp > 0
  BY <1>1, <1>2, <1>3, <1>4, Margin
<1>6. QED
  BY <1>3, <1>4, <1>5 DEF Live, IsExpired, Statuses

\* At every moment the holder's lease covers one more latency, and the requests
\* it may still have to send.
LEMMA HolderExp ==
    ASSUME Attended, IInv, NEW c \in Callers, Holds(c)
    PROVE  /\ store.status = "pending" /\ store.by = c
           /\ Slack(c) \in Int /\ Slack(c) >= 0 - Latency - Detour
           /\ Missed(c) \in 0..Blips
           /\ Spent(Missed(c)) \in Nat /\ Spent(Missed(c)) <= Spent(Blips)
           /\ store.exp >= Lease - LongestUse
           /\ store.exp > Latency
<1>1. call[c] \in Calls /\ ren[c] \in Renewals /\ store \in Records
  BY DEF IInv, TypeOK
<1>2. /\ call[c].age \in Int /\ ren[c].age \in Int /\ ren[c].due \in Nat
      /\ ren[c].st \in {"off", "sleep", "write"} /\ store.exp \in Int
  BY <1>1, TimingAssumption DEF Calls, Renewals, Records
<1>3. ren[c].st = "off" => call[c].age <= Latency
  BY DEF IInv, RenewalOfBody, InTime, RequestPcs, Holds, HolderPcs
<1>4. ren[c].st = "write" => ren[c].age <= Latency
  BY DEF IInv, InTime
<1>5. Slack(c) \in Int /\ Slack(c) >= 0 - Latency - Detour
  BY <1>2, <1>3, <1>4, Margin DEF Slack
<1>6. store.exp >= Lease - Spent(Missed(c)) + Slack(c)
  BY DEF IInv, LeaseAhead
<1>7. store.status = "pending" /\ store.by = c
  BY DEF IInv, KeyOfHolder, OwnReservation
<1>8. /\ Missed(c) \in 0..Blips
      /\ Spent(Missed(c)) \in Nat /\ Spent(Missed(c)) <= Spent(Blips)
  BY <1>1, MissedRange
<1>9. QED
  BY <1>2, <1>5, <1>6, <1>7, <1>8, Margin

LEMMA ReserveWinsInv ==
    ASSUME Attended, IInv, TypeOK', NEW c \in Callers, ReserveWins(c)
    PROVE  IInv'
<1> DEFINE s == [At(c, "running") EXCEPT !.ran = "started"]
<1>1. /\ s.pc = "running" /\ s.age = 0
      /\ call'[c] = s /\ \A d \in Callers : d # c => call'[d] = call[d]
      /\ ren'[c] = Asleep(0) /\ \A d \in Callers : d # c => ren'[d] = ren[d]
  BY DEF ReserveWins, Become, Renews, At, IInv, TypeOK
<1>2. /\ Asleep(0).st = "sleep" /\ Asleep(0).due = Interval + Latency
  BY DEF Asleep
<1> HIDE DEF s
<1>3. call[c].age \in Nat /\ call[c].age <= Latency
  BY TimingAssumption DEF ReserveWins, IInv, TypeOK, Calls, InTime, RequestPcs
<1>4. /\ store'.status = "pending" /\ store'.by = c
      /\ store'.exp = Lease - call[c].age /\ store'.ttl = Lease
  BY <1>3, Margin DEF ReserveWins, SetNX, Pending, Written, Minus
<1>5. \A d \in Callers : ~Holds(d)
  BY DEF ReserveWins, IInv, KeyOfHolder, OwnReservation
<1>6. \A d \in Callers : Holds(d)' <=> d = c
  BY <1>1, <1>5 DEF Holds, HolderPcs
<1>7. Quiet'
  BY <1>1 DEF ReserveWins, IInv, Quiet, UnreservedPcs
<1>8. KeyOfHolder'
  BY <1>4, <1>6 DEF KeyOfHolder, OwnReservation
<1>9. RenewalOfBody'
  BY <1>1, <1>2 DEF IInv, RenewalOfBody
<1>10. InTime'
  BY <1>1, <1>2 DEF IInv, InTime, RequestPcs
<1>11. Slack(c)' = Interval + Latency /\ Missed(c)' = 0
  BY <1>1, <1>2 DEF Slack, Missed, Asleep
<1>12. LeaseAhead'
  BY <1>3, <1>4, <1>6, <1>11, Margin DEF LeaseAhead
<1>13. SeenLive'
  BY <1>1, <1>4 DEF IInv, SeenLive, Live
<1>14. QED
  BY <1>7, <1>8, <1>9, <1>10, <1>12, <1>13 DEF IInv

LEMMA ReadStoreInv ==
    ASSUME Attended, IInv, TypeOK', NEW c \in Callers, ReadStore(c)
    PROVE  IInv'
<1>1. /\ call[c].pc = "reading" /\ call[c] \in Calls /\ store \in Records
  BY DEF ReadStore, IInv, TypeOK
<1>2. /\ call'[c].pc = "judging" /\ call'[c].age = call[c].age
      /\ call'[c].seen = [store EXCEPT !.ttl = 0]
      /\ \A d \in Callers : d # c => call'[d] = call[d]
      /\ ren' = ren
  BY <1>1 DEF ReadStore, Read, Attended, IInv, TypeOK, Calls
<1>3. /\ call'[c].seen.status = store.status /\ call'[c].seen.by = store.by
      /\ call'[c].seen.exp = store.exp
  BY <1>1, <1>2 DEF Records
<1>4. \A d \in Callers : /\ Holds(d)' <=> Holds(d)
                         /\ Holds(d) => Slack(d)' = Slack(d) /\ Missed(d)' = Missed(d)
  <2> TAKE d \in Callers
  <2>1. Holds(d)' <=> Holds(d)
    BY <1>1, <1>2 DEF Holds, HolderPcs
  <2>2. Holds(d) => d # c
    BY <1>1 DEF Holds, HolderPcs
  <2>3. Holds(d) => Slack(d)' = Slack(d) /\ Missed(d)' = Missed(d)
    BY <1>2, <2>2 DEF Slack, Missed
  <2>4. QED
    BY <2>1, <2>3
<1>5. Quiet'
  BY <1>2 DEF ReadStore, IInv, Quiet, UnreservedPcs
<1>6. KeyOfHolder'
  BY <1>4 DEF ReadStore, IInv, KeyOfHolder, OwnReservation
<1>7. RenewalOfBody'
  BY <1>1, <1>2 DEF ReadStore, IInv, RenewalOfBody
<1>8. InTime'
  BY <1>1, <1>2 DEF ReadStore, IInv, InTime, RequestPcs
<1>9. LeaseAhead'
  BY <1>4 DEF ReadStore, IInv, LeaseAhead
<1>10. SeenLive'
  <2>1. Live(store)' /\ Live(call'[c].seen)
    BY <1>3 DEF ReadStore, IInv, SeenLive, Live
  <2>2. store.status = "pending" =>
           store.exp >= Lease - LongestUse - call[c].age
    <3>1. call[c].age \in Nat /\ store.exp \in Int
      BY <1>1, TimingAssumption DEF Calls, Records
    <3>2. store.status = "pending" => store.exp >= Lease - LongestUse
      BY HolderExp DEF IInv, KeyOfHolder
    <3>3. QED
      BY <3>1, <3>2, Margin
  <2>3. store' = store /\ SeenLive
    BY DEF ReadStore, IInv
  <2>4. ASSUME NEW d \in Callers, call'[d].pc = "judging"
        PROVE  /\ Live(call'[d].seen)
               /\ call'[d].seen.status = "pending" =>
                     call'[d].seen.exp >= Lease - LongestUse - call'[d].age
    <3>1. CASE d = c
      BY <1>2, <1>3, <2>1, <2>2, <3>1
    <3>2. CASE d # c
      BY <1>2, <2>3, <2>4, <3>2 DEF SeenLive
    <3>3. QED
      BY <3>1, <3>2
  <2>5. QED
    BY <2>1, <2>4 DEF SeenLive, Live
<1>11. QED
  BY <1>5, <1>6, <1>7, <1>8, <1>9, <1>10 DEF IInv

\* The steps of a holder that touch neither the key nor another call.
LEMMA HolderStepInv ==
    ASSUME Attended, IInv, TypeOK', NEW c \in Callers, UNCHANGED <<store, wire>>,
           NEW m \in 0..Blips, Missed(c)' = m,
           \A d \in Callers : d # c => call'[d] = call[d] /\ ren'[d] = ren[d],
           Holds(c), Holds(c)',
           (ren[c].st # "off" <=> call[c].pc \in {"running", "joining"})',
           (call[c].pc \in RequestPcs => call[c].age <= Latency)',
           (ren[c].st = "write" => ren[c].age <= Latency)',
           Slack(c)' \in Int, Slack(c)' - Spent(m) <= Slack(c) - Spent(Missed(c))
    PROVE  IInv'
<1>1. \A d \in Callers : Holds(d)' <=> Holds(d)
  BY DEF Holds
<1>2. Quiet'
  BY DEF IInv, Quiet, Holds, UnreservedPcs, HolderPcs
<1>3. KeyOfHolder'
  BY <1>1 DEF IInv, KeyOfHolder, OwnReservation
<1>4. RenewalOfBody'
  BY DEF IInv, RenewalOfBody
<1>5. InTime'
  BY DEF IInv, InTime
<1>6. SeenLive'
  BY DEF IInv, SeenLive, Live, Holds, HolderPcs
<1>7. LeaseAhead'
  <2>1. \A d \in Callers : d # c => Slack(d)' = Slack(d) /\ Missed(d)' = Missed(d)
    BY DEF Slack, Missed
  <2>2. store.exp \in Int
    BY TimingAssumption DEF IInv, TypeOK, Records
  <2>3. store.exp >= Lease - Spent(m) + Slack(c)'
    BY <2>2, HolderExp, SpentGrows, Margin DEF IInv, LeaseAhead
  <2>4. QED
    BY <1>1, <2>1, <2>3 DEF IInv, LeaseAhead
<1>8. QED
  BY <1>2, <1>3, <1>4, <1>5, <1>6, <1>7 DEF IInv

\* The holder gives the key up: its result replaces the reservation, or the
\* reservation is deleted.
LEMMA HolderEndsInv ==
    ASSUME Attended, IInv, TypeOK', NEW c \in Callers, UNCHANGED <<ren, wire>>,
           \A d \in Callers : d # c => call'[d] = call[d],
           call[c].pc \in {"completing", "releasing"},
           call'[c].pc = "done", call'[c].age = 0,
           store'.status \in {"absent", "completed"}, Live(store)', (store.ttl >= store.exp)'
    PROVE  IInv'
<1>1. \A d \in Callers : d # c => call'[d] = call[d]
  OBVIOUS
<1>2. Holds(c)
  BY DEF Holds, HolderPcs
<1>3. \A d \in Callers : Holds(d) => d = c
  BY <1>2 DEF IInv, KeyOfHolder, OwnReservation
<1>4. \A d \in Callers : ~Holds(d)'
  BY <1>1, <1>3 DEF Holds, HolderPcs
<1>5. Quiet'
  BY <1>1 DEF IInv, Quiet, UnreservedPcs
<1>6. KeyOfHolder'
  BY <1>4 DEF KeyOfHolder
<1>7. RenewalOfBody'
  BY <1>1 DEF IInv, RenewalOfBody
<1>8. InTime'
  BY <1>1, Margin DEF IInv, InTime
<1>9. LeaseAhead'
  BY <1>4 DEF LeaseAhead
<1>10. SeenLive'
  BY <1>1 DEF IInv, SeenLive, Live
<1>11. QED
  BY <1>5, <1>6, <1>7, <1>8, <1>9, <1>10 DEF IInv

LEMMA ServeInv ==
    ASSUME Attended, IInv, TypeOK', NEW c \in Callers, Serve(c)
    PROVE  IInv'
<1>1. /\ call[c] \in Calls /\ call'[c] \in Calls /\ ren[c] \in Renewals
      /\ store \in Records /\ store' \in Records /\ c \in Authors /\ c # Stranger
  BY CallersAssumption DEF IInv, TypeOK, Authors
<1>2. TypeOK
  BY DEF IInv
<1>3. ASSUME NEW p \in {"reserving", "reading", "sleeping"}, Claiming(c, p),
             UNCHANGED <<store, ren, wire>>, ~Holds(c)
      PROVE  IInv'
  BY <1>2, <1>3, Moves, ClaimStepInv
<1>4. ASSUME NEW f, Ends(c, "done", f), UNCHANGED <<store, ren, wire>>, ~Holds(c)
      PROVE  IInv'
  BY <1>2, <1>4, Moves, ClaimStepInv
<1>7. call[c].pc \in {"reserving", "reading", "judging", "sleeping"} => ~Holds(c)
  BY DEF Holds, HolderPcs
<1>8. CASE ReserveWins(c)
  BY <1>8, ReserveWinsInv
<1>9. CASE ReserveCollides(c)
  BY <1>9, <1>3, <1>7 DEF ReserveCollides
<1>10. CASE ReadStore(c)
  BY <1>10, ReadStoreInv
<1>11. CASE FindsNothing(c)
  BY <1>11, <1>3, <1>4, <1>7 DEF FindsNothing, Again
<1>12. ~FindsExpired(c) /\ ~FindsLapsed(c) /\ ~FindsUnusable(c)
  BY Judged DEF FindsExpired, FindsLapsed, FindsUnusable, HasFound
<1>13. CASE RefusesReuse(c)
  BY <1>13, <1>4, <1>7 DEF RefusesReuse, HasFound
<1>14. CASE FindsPending(c)
  BY <1>14, <1>3, <1>4, <1>7 DEF FindsPending, HasFound
<1>15. CASE FindsResult(c)
  <2>1. /\ call'[c].pc = "done" /\ call'[c].age = 0
        /\ \A d \in Callers : d # c => call'[d] = call[d]
    BY <1>15, <1>2 DEF FindsResult, Become, At, TypeOK
  <2>2. QED
    BY <1>15, <1>7, <2>1, ClaimStepInv DEF FindsResult, HasFound
<1>16. ~Purge(c)
  BY DEF Purge, IInv, Quiet
<1>17. CASE Wake(c)
  BY <1>17, <1>3, <1>7 DEF Wake
<1>18. CASE JoinReturns(c)
  <2>1. /\ call'[c].pc \in {"completing", "releasing"} /\ call'[c].age = 0
        /\ ren'[c].st = "off" /\ Holds(c) /\ Holds(c)'
        /\ \A d \in Callers : d # c => call'[d] = call[d] /\ ren'[d] = ren[d]
    <3>1. \A d \in Callers : d # c => call'[d] = call[d] /\ ren'[d] = ren[d]
      BY <1>18 DEF JoinReturns, Ends, Become, Renews, IInv, TypeOK
    <3>2. ren'[c].st = "off"
      BY <1>18 DEF JoinReturns, Renews, NoRenewal, IInv, TypeOK
    <3>3. call'[c].pc \in {"completing", "releasing"} /\ call'[c].age = 0
      BY <1>18 DEF JoinReturns, Ends, Become, At, IInv, TypeOK
    <3>4. QED
      BY <1>18, <3>1, <3>2, <3>3 DEF Holds, HolderPcs, JoinReturns
  <2>2. Slack(c)' \in Int /\ Slack(c)' <= 0 /\ Missed(c)' = Blips
    BY <2>1, Margin DEF Slack, Missed
  <2>3. Slack(c) >= 0 /\ Slack(c) \in Int
    BY <1>1, <1>18, TimingAssumption DEF Slack, JoinReturns, Renewals
  <2>4. Slack(c)' - Spent(Blips) <= Slack(c) - Spent(Missed(c))
    BY <1>1, <2>2, <2>3, MissedRange, Margin
  <2>5. Blips \in 0..Blips
    BY Margin
  <2>6. QED
    BY <1>18, <2>1, <2>2, <2>4, <2>5, HolderStepInv, Margin DEF JoinReturns
<1>19. CASE CompleteSet(c)
  <2>1. call[c].pc = "completing"
    BY <1>19 DEF CompleteSet, Completing, IInv, Quiet, UnreservedPcs
  <2>2. call[c].age \in Nat /\ call[c].age <= Latency
    BY <1>1, <2>1, TimingAssumption DEF IInv, InTime, RequestPcs, Calls
  <2>3. /\ store'.status = "completed" /\ store'.by = c
        /\ store'.exp > 0 /\ store'.ttl >= store'.exp
    BY <1>19, <2>2, Margin DEF CompleteSet, Result, Written, Minus
  <2>4. /\ call'[c].pc = "done" /\ call'[c].age = 0
        /\ \A d \in Callers : d # c => call'[d] = call[d]
    BY <1>19, <1>2, Moves DEF CompleteSet
  <2>5. Live(store)'
    BY <2>3, <1>1 DEF Live
  <2>6. QED
    BY <1>19, <2>1, <2>3, <2>4, <2>5, HolderEndsInv DEF CompleteSet
<1>20. CASE Release(c)
  <2>1. /\ call'[c].pc = "done" /\ call'[c].age = 0
        /\ \A d \in Callers : d # c => call'[d] = call[d]
    BY <1>20, <1>2, Moves DEF Release
  <2>2. store'.status = "absent" /\ (store.ttl >= store.exp)' /\ Live(store)'
    BY <1>20 DEF Release, Deleted, Attended, None, Absent, Live
  <2>3. QED
    BY <1>20, <2>1, <2>2, HolderEndsInv DEF Release
<1>21. QED
  BY <1>8, <1>9, <1>10, <1>11, <1>12, <1>13, <1>14, <1>15, <1>16, <1>17, <1>18,
     <1>19, <1>20 DEF Serve

LEMMA CallStepInv ==
    ASSUME Attended, IInv, TypeOK', NEW c \in Callers, Call(c)
    PROVE  IInv'
<1>1. /\ call'[c].pc = "reserving" /\ call'[c].age = 0
      /\ \A d \in Callers : d # c => call'[d] = call[d]
  BY DEF Call, Become, At, IInv, TypeOK
<1>2. ~Holds(c)
  BY DEF Call, Holds, HolderPcs
<1>3. QED
  BY <1>1, <1>2, ClaimStepInv DEF Call

\* The action ends, by a result, an exception or a cancellation.
LEMMA ActionEndsInv ==
    ASSUME Attended, IInv, TypeOK', NEW c \in Callers,
           FinishAction(c) \/ Breaks(c, "action_error") \/ Breaks(c, "cancelled")
    PROVE  IInv'
<1>1. call[c].pc = "running"
  BY DEF FinishAction, Breaks, Executing, IInv, Quiet, UnreservedPcs
<1>2. /\ call'[c].pc = "joining"
      /\ \A d \in Callers : d # c => call'[d] = call[d]
      /\ UNCHANGED <<store, ren, wire>>
  <2>1. CASE FinishAction(c)
    BY <2>1, <1>1 DEF FinishAction, Become, At, IInv, TypeOK
  <2>2. ASSUME NEW f, Breaks(c, f)
        PROVE  /\ call'[c].pc = "joining"
               /\ \A d \in Callers : d # c => call'[d] = call[d]
               /\ UNCHANGED <<store, ren, wire>>
    <3>1. Ends(c, "joining", f)
      BY <2>2, <1>1 DEF Breaks
    <3>2. QED
      BY <2>2, <3>1, Moves DEF Breaks, IInv
  <2>3. QED
    BY <2>1, <2>2
<1>3. ren[c].st \in {"sleep", "write"}
  BY <1>1 DEF IInv, RenewalOfBody, TypeOK, Renewals
<1>4. Slack(c)' = Slack(c) /\ Missed(c)' = Missed(c)
  BY <1>2, <1>3 DEF Slack, Missed
<1>5. Holds(c) /\ Holds(c)'
  BY <1>1, <1>2 DEF Holds, HolderPcs
<1>6. Slack(c) \in Int /\ Missed(c) \in 0..Blips /\ Spent(Missed(c)) \in Nat
  BY <1>5, HolderExp
<1>7. QED
  BY <1>2, <1>3, <1>4, <1>5, <1>6, HolderStepInv DEF RequestPcs, IInv, InTime

\* A request nobody waits for any more is lost, not late.
LEMMA NothingLate ==
    ASSUME Attended, NEW sent, Abandons(sent)
    PROVE  wire' = wire
<1>1. "late" \notin Faults
  BY DEF Attended
<1>2. QED
  BY <1>1 DEF Abandons

\* A claim that fails or is cancelled is over: callers fail closed.
LEMMA ClaimFailsInv ==
    ASSUME Attended, IInv, TypeOK', NEW c \in Callers,
           ReserveFails(c) \/ ReadFails(c) \/ CancelClaim(c)
    PROVE  IInv'
<1>1. call[c].pc \in ClaimPcs /\ ~Holds(c)
  BY DEF ReserveFails, ReadFails, CancelClaim, ClaimPcs, Holds, HolderPcs
<1>2. UNCHANGED <<store, ren, wire>>
  BY NothingLate DEF ReserveFails, ReadFails, CancelClaim
<1>3. \E f \in Fates : Ends(c, "done", f)
  BY DEF ReserveFails, ReadFails, CancelClaim, StorageFails, Attended, Fates
<1>4. QED
  BY <1>1, <1>2, <1>3, Moves, ClaimStepInv DEF IInv

\* A result that is not stored leaves the holder its reservation to release.
LEMMA NotStoredInv ==
    ASSUME Attended, IInv, TypeOK', NEW c \in Callers, CompleteFails(c) \/ Unstorable(c)
    PROVE  IInv'
<1>1. /\ call[c].pc = "completing" /\ call[c] \in Calls /\ TypeOK
      /\ call[c].age \in Nat /\ call[c].age <= Latency
  BY TimingAssumption DEF CompleteFails, Unstorable, Completing, IInv, Quiet, UnreservedPcs,
     TypeOK, Calls, InTime, RequestPcs
<1>2. UNCHANGED <<store, ren, wire>> /\ Ends(c, "releasing", call[c].fate)
  BY <1>1, NothingLate DEF CompleteFails, Unstorable, NotStored
<1>3. /\ call'[c].pc = "releasing" /\ call'[c].age = 0
      /\ \A d \in Callers : d # c => call'[d] = call[d]
  BY <1>1, <1>2, Moves
<1>4. ren[c].st = "off" /\ Holds(c) /\ Holds(c)'
  BY <1>1, <1>3 DEF IInv, RenewalOfBody, TypeOK, Renewals, Holds, HolderPcs
<1>5. Slack(c) = 0 - call[c].age /\ Slack(c)' = 0 - Detour
  BY <1>1, <1>2, <1>3, <1>4, Margin DEF Slack
<1>6. call[c].age <= Detour
  BY <1>1, Margin DEF CompleteFails, Unstorable, Detour
<1>7. Missed(c) = Blips /\ Missed(c)' = Blips /\ Blips \in 0..Blips
  BY <1>2, <1>4, Margin DEF Missed
<1>8. Slack(c)' \in Int /\ Slack(c)' - Spent(Blips) <= Slack(c) - Spent(Missed(c))
  BY <1>1, <1>5, <1>6, <1>7, Margin
<1>9. /\ (ren[c].st # "off" <=> call[c].pc \in {"running", "joining"})'
      /\ (call[c].pc \in RequestPcs => call[c].age <= Latency)'
      /\ (ren[c].st = "write" => ren[c].age <= Latency)'
  BY <1>2, <1>3, <1>4, Margin
<1>10. \A d \in Callers : d # c => call'[d] = call[d] /\ ren'[d] = ren[d]
  BY <1>2, <1>3
<1>11. QED
  BY <1>2, <1>4, <1>7, <1>8, <1>9, <1>10, HolderStepInv

\* A renewal that fails costs the lease an interval and what it came late and took.
LEMMA RenewFailsInv ==
    ASSUME Attended, IInv, TypeOK', NEW c \in Callers, RenewFails(c)
    PROVE  IInv'
<1> DEFINE m == ren[c].missed
<1>1. /\ call[c] \in Calls /\ ren[c] \in Renewals /\ TypeOK
      /\ ren[c].st = "write" /\ call[c].pc \in {"running", "joining"}
  BY DEF RenewFails, IInv, TypeOK, RenewalOfBody
<1>2. /\ m \in 0..Blips /\ m < Blips /\ m + 1 \in 0..Blips
      /\ ren[c].age \in Nat /\ ren[c].age <= Latency
  BY <1>1, Margin DEF RenewFails, Renewals, IInv, InTime
<1>3. Spent(m) \in Nat /\ Spent(m + 1) = Spent(m) + Interval + 2 * Latency
  BY <1>2, SpentGrows
<1>4. /\ ren'[c] = Asleep(m + 1) /\ \A d \in Callers : d # c => ren'[d] = ren[d]
      /\ UNCHANGED <<store, call, wire>>
  BY <1>1, NothingLate DEF RenewFails, AfterRenewal, Renews, TypeOK
<1>5. /\ ren'[c].st = "sleep" /\ ren'[c].due = Interval + Latency
      /\ ren'[c].missed = m + 1
  BY <1>4 DEF Asleep
<1>6. /\ Slack(c) = 0 - ren[c].age /\ Slack(c)' = Interval + Latency
      /\ Missed(c) = m /\ Missed(c)' = m + 1
  BY <1>1, <1>5 DEF Slack, Missed
<1> HIDE DEF m
<1>7. /\ Slack(c)' \in Int
      /\ Slack(c)' - Spent(m + 1) <= Slack(c) - Spent(Missed(c))
  BY <1>2, <1>3, <1>6, Margin
<1>8. Holds(c) /\ Holds(c)'
  BY <1>1, <1>4 DEF Holds, HolderPcs
<1>9. /\ (ren[c].st # "off" <=> call[c].pc \in {"running", "joining"})'
      /\ (call[c].pc \in RequestPcs => call[c].age <= Latency)'
      /\ (ren[c].st = "write" => ren[c].age <= Latency)'
  BY <1>1, <1>4, <1>5 DEF RequestPcs
<1>10. \A d \in Callers : d # c => call'[d] = call[d] /\ ren'[d] = ren[d]
  BY <1>4
<1>11. QED
  BY <1>2, <1>4, <1>6, <1>7, <1>8, <1>9, <1>10, HolderStepInv

LEMMA SufferInv ==
    ASSUME Attended, IInv, TypeOK', NEW c \in Callers, Suffer(c)
    PROVE  IInv'
<1>1. \A f \in {"cancel_join", "cancel_cleanup", "release_outage", "crash", "rejected"} :
         f \notin Faults
  BY DEF Attended
<1>2. ~PurgeFails(c)
  BY DEF PurgeFails, IInv, Quiet
<1>3. QED
  BY <1>1, <1>2, ActionEndsInv, ClaimFailsInv, NotStoredInv, RenewFailsInv
     DEF Suffer, ActionFails, CancelAction, ReserveRejected, ReleaseFails, CancelJoin,
         CancelCleanup, Crash

LEMMA ServeRenewalInv ==
    ASSUME Attended, IInv, TypeOK', NEW c \in Callers, ServeRenewal(c)
    PROVE  IInv'
<1>1. call[c] \in Calls /\ ren[c] \in Renewals
  BY DEF IInv, TypeOK
<1>2. ren[c].st # "off" /\ call[c].pc \in {"running", "joining"}
  BY DEF ServeRenewal, RenewalDue, RenewSet, IInv, RenewalOfBody
<1>3. Holds(c)
  BY <1>2 DEF Holds, HolderPcs
<1>4. CASE RenewalDue(c)
  <2>1. /\ ren'[c] = [ren[c] EXCEPT !.st = "write", !.due = 0, !.age = 0]
        /\ \A d \in Callers : d # c => ren'[d] = ren[d]
        /\ UNCHANGED <<store, call, wire>>
    BY <1>4 DEF RenewalDue, Renews, IInv, TypeOK
  <2>2. ren'[c].st = "write" /\ ren'[c].age = 0
    BY <2>1, <1>1 DEF Renewals
  <2>3. Slack(c)' = 0 /\ Slack(c) >= 0 /\ Slack(c) \in Int
    <3>1. Slack(c)' = 0
      BY <2>2 DEF Slack
    <3>2. ren[c].st = "sleep" /\ ren[c].due \in Nat
      BY <1>1, <1>4, TimingAssumption DEF RenewalDue, Renewals
    <3>3. QED
      BY <3>1, <3>2 DEF Slack
  <2>4. Holds(c)'
    BY <1>3, <2>1 DEF Holds
  <2>5. /\ (ren[c].st # "off" <=> call[c].pc \in {"running", "joining"})'
        /\ (call[c].pc \in RequestPcs => call[c].age <= Latency)'
        /\ (ren[c].st = "write" => ren[c].age <= Latency)'
    BY <1>2, <2>1, <2>2, Margin DEF RequestPcs
  <2>6. Missed(c)' = Missed(c)
    BY <1>1, <1>2, <2>1, <2>2 DEF Missed, Renewals
  <2>9. Slack(c)' \in Int /\ Slack(c)' - Spent(Missed(c)) <= Slack(c) - Spent(Missed(c))
    BY <1>3, <2>3, HolderExp
  <2>7. \A d \in Callers : d # c => call'[d] = call[d] /\ ren'[d] = ren[d]
    BY <2>1
  <2>8. QED
    BY <1>3, <2>1, <2>4, <2>5, <2>6, <2>7, <2>9, HolderStepInv, HolderExp
<1>5. CASE RenewSet(c)
  <2>1. ren[c].age \in Nat /\ ren[c].age <= Latency
    BY <1>1, <1>5, TimingAssumption DEF RenewSet, IInv, InTime, Renewals
  <2>2. /\ store'.status = "pending" /\ store'.by = c
        /\ store'.exp = Lease - ren[c].age /\ store'.ttl = Lease
    BY <1>5, <2>1, Margin DEF RenewSet, Pending, Written, Minus
  <2>3. ren'[c] = Asleep(0) /\ \A d \in Callers : d # c => ren'[d] = ren[d]
    BY <1>2, <1>5 DEF RenewSet, AfterRenewal, Renews, IInv, TypeOK
  <2>4. ren'[c].st = "sleep" /\ ren'[c].due = Interval + Latency
    BY <2>3 DEF Asleep
  <2>5. UNCHANGED <<call, wire>>
    BY <1>5 DEF RenewSet
  <2>6. \A d \in Callers : Holds(d) <=> d = c
    BY <1>3 DEF IInv, KeyOfHolder, OwnReservation
  <2>7. \A d \in Callers : Holds(d)' <=> d = c
    BY <2>5, <2>6 DEF Holds
  <2>8. Quiet'
    BY <2>5 DEF IInv, Quiet
  <2>9. KeyOfHolder'
    BY <2>2, <2>7 DEF KeyOfHolder, OwnReservation
  <2>10. RenewalOfBody'
    BY <1>2, <2>3, <2>4, <2>5 DEF IInv, RenewalOfBody
  <2>11. InTime'
    BY <2>3, <2>4, <2>5 DEF IInv, InTime
  <2>12. Slack(c)' = Interval + Latency /\ Missed(c)' = 0
    BY <2>3, <2>4 DEF Slack, Missed, Asleep
  <2>13. LeaseAhead'
    BY <2>1, <2>2, <2>7, <2>12, Margin DEF LeaseAhead
  <2>14. SeenLive'
    BY <2>2, <2>5 DEF IInv, SeenLive, Live
  <2>15. QED
    BY <2>8, <2>9, <2>10, <2>11, <2>13, <2>14 DEF IInv
<1>6. QED
  BY <1>4, <1>5 DEF ServeRenewal

\* A tick: nobody's patience runs out, and the holder's lease loses no more than
\* its slack.
LEMMA TickInv ==
    ASSUME Attended, IInv, TypeOK', Tick
    PROVE  IInv'
<1>1. \A c \in Callers : OnTime(c)
  BY DEF Tick, Attended
<1>2. ASSUME NEW c \in Callers
      PROVE  /\ call[c] \in Calls /\ ren[c] \in Renewals
             /\ call[c].age \in Nat /\ ren[c].age \in Nat /\ ren[c].due \in Nat
             /\ call[c].seen \in Records /\ call[c].seen.exp \in Nat
  BY TimingAssumption DEF IInv, TypeOK, Calls, Renewals, Records
<1>3. ASSUME NEW c \in Callers
      PROVE  /\ call'[c].pc = call[c].pc
             /\ call'[c].seen = Older(call[c].seen)
             /\ call'[c].age = IF call[c].pc \in RequestPcs THEN Longer(call[c].age)
                                                            ELSE call[c].age
  BY <1>2 DEF Tick, Calls
<1>4. ASSUME NEW c \in Callers
      PROVE  /\ ren'[c].st = ren[c].st
             /\ ren'[c].due = Minus(ren[c].due, 1)
             /\ ren'[c].age = IF ren[c].st = "write" THEN Longer(ren[c].age)
                                                     ELSE ren[c].age
  BY <1>2 DEF Tick, Renewals
<1>5. \A age \in Nat : age < Latency => Longer(age) = age + 1
  BY Margin DEF Longer
<1>6. \A c \in Callers : Holds(c)' <=> Holds(c)
  BY <1>3 DEF Holds
<1>7. ASSUME NEW c \in Callers, Holds(c)
       PROVE  /\ Slack(c) \in Int /\ Slack(c) > 0 - Latency - Detour
              /\ Slack(c)' = Slack(c) - 1 /\ Missed(c)' = Missed(c)
  <2>0. Missed(c)' = Missed(c)
    BY <1>2 DEF Missed, Tick, Renewals
  <2>1. CASE ren[c].st = "sleep"
    <3>1. call[c].pc = "running" /\ ren[c].due > 0
      BY <1>1, <1>7, <2>1 DEF OnTime, IInv, RenewalOfBody
    <3>2. Minus(ren[c].due, 1) = ren[c].due - 1
      BY <1>2, <3>1 DEF Minus
    <3>3. QED
      BY <1>2, <1>4, <2>0, <2>1, <3>1, <3>2, Margin DEF Slack
  <2>2. CASE ren[c].st = "write"
    <3>1. ren[c].age < Latency
      BY <1>1, <2>2 DEF OnTime
    <3>2. ren'[c].age = ren[c].age + 1
      BY <1>2, <1>4, <1>5, <2>2, <3>1
    <3>3. QED
      BY <1>2, <1>4, <2>0, <2>2, <3>1, <3>2, Margin DEF Slack
  <2>3. CASE ren[c].st = "off"
    <3>1. call[c].pc \in {"completing", "releasing"}
      BY <1>7, <2>3 DEF Holds, HolderPcs, IInv, RenewalOfBody
    <3>2. call[c].age < Latency
      BY <1>1, <3>1 DEF OnTime, RequestPcs
    <3>3. call'[c].age = call[c].age + 1
      BY <1>2, <1>3, <1>5, <3>1, <3>2 DEF RequestPcs
    <3>4. QED
      BY <1>2, <1>3, <1>4, <2>0, <2>3, <3>1, <3>2, <3>3, Margin DEF Slack
  <2>4. QED
    BY <1>2, <2>1, <2>2, <2>3 DEF Renewals
<1>8. /\ store.status = "pending" =>
           /\ store'.status = "pending" /\ store'.by = store.by
           /\ store'.exp = store.exp - 1 /\ store'.ttl = store.ttl - 1
      /\ store.status # "pending" => store' = store
  <2>1. Fades(store) <=> store.status = "pending"
    BY DEF Fades, Attended
  <2>2. ASSUME store.status = "pending" PROVE store.exp > 1 /\ store.ttl > 1
    <3>1. PICK c \in Callers : Holds(c)
      BY <2>2 DEF IInv, KeyOfHolder
    <3>2. store.exp \in Int /\ store.ttl \in Int /\ store.ttl >= store.exp
      BY TimingAssumption DEF IInv, TypeOK, Records, LeaseAhead
    <3>3. /\ Slack(c) \in Int /\ Slack(c) > 0 - Latency - Detour
          /\ Spent(Missed(c)) \in Nat /\ Spent(Missed(c)) <= Spent(Blips)
      BY <3>1, <1>7, HolderExp
    <3>4. store.exp >= Lease - Spent(Missed(c)) + Slack(c)
      BY <3>1 DEF IInv, LeaseAhead
    <3>5. QED
      BY <3>2, <3>3, <3>4, Margin
  <2>3. store.exp \in Int /\ store \in Records
    BY TimingAssumption DEF IInv, TypeOK, Records
  <2>4. CASE store.status = "pending"
    <3>1. store' = [store EXCEPT !.exp = Minus(@, 1), !.ttl = Minus(@, 1)]
      <4>1. store.ttl # 1
        BY <2>2, <2>3, <2>4 DEF Records
      <4>2. store' = Elapse(store, Earlier)
        BY <2>1, <2>4 DEF Tick
      <4>3. QED
        BY <4>1, <4>2 DEF Elapse
    <3>2. Minus(store.exp, 1) = store.exp - 1 /\ Minus(store.ttl, 1) = store.ttl - 1
      BY <2>2, <2>3, <2>4 DEF Minus
    <3>3. QED
      BY <2>3, <2>4, <3>1, <3>2 DEF Records
  <2>5. CASE store.status # "pending"
    BY <2>1, <2>5 DEF Tick
  <2>6. QED
    BY <2>4, <2>5
<1>9. Quiet'
  BY <1>3 DEF IInv, Quiet, Tick
<1>10. KeyOfHolder'
  BY <1>6, <1>8 DEF IInv, KeyOfHolder, OwnReservation
<1>11. RenewalOfBody'
  BY <1>3, <1>4 DEF IInv, RenewalOfBody
<1>12. InTime'
  BY <1>1, <1>2, <1>3, <1>4, <1>5, Margin DEF InTime, OnTime
<1>13. LeaseAhead'
  <2>1. store.exp \in Int /\ store.ttl \in Int
    BY TimingAssumption DEF IInv, TypeOK, Records
  <2>2. (store.ttl >= store.exp)'
    BY <1>8, <2>1 DEF IInv, LeaseAhead
  <2>3. ASSUME NEW c \in Callers, Holds(c)'
        PROVE  store'.exp >= Lease - Spent(Missed(c)') + Slack(c)'
    <3>1. /\ Holds(c) /\ store.status = "pending" /\ Spent(Missed(c)) \in Nat
      BY <1>6, <2>3, HolderExp
    <3>2. store.exp >= Lease - Spent(Missed(c)) + Slack(c)
      BY <3>1 DEF IInv, LeaseAhead
    <3>3. QED
      BY <1>8, <1>7, <2>1, <3>1, <3>2, Margin
  <2>4. QED
    BY <2>2, <2>3 DEF LeaseAhead
<1>14. SeenLive'
  <2>1. Live(store)'
    BY <1>8 DEF IInv, SeenLive, Live
  <2>2. ASSUME NEW c \in Callers, (call[c].pc = "judging")'
        PROVE  /\ Live(call[c].seen)'
               /\ (call[c].seen.status = "pending" => call[c].seen.exp >=
                      Lease - LongestUse - call[c].age)'
    <3>1. call[c].pc = "judging"
      BY <1>3, <2>2
    <3>2. call[c].age < Latency /\ call'[c].age = call[c].age + 1
      BY <1>1, <1>2, <1>3, <1>5, <3>1 DEF OnTime, RequestPcs
    <3>3. /\ Live(call[c].seen)
          /\ call[c].seen.status = "pending" => call[c].seen.exp >=
                Lease - LongestUse - call[c].age
      BY <3>1 DEF IInv, SeenLive
    <3>4. CASE call[c].seen.status = "pending"
      <4>1. call'[c].seen = [call[c].seen EXCEPT !.exp = Minus(@, 1)]
        BY <1>3, <3>4 DEF Older, Fades
      <4>2. /\ call'[c].seen.status = "pending"
            /\ call'[c].seen.exp = Minus(call[c].seen.exp, 1)
        BY <1>2, <3>4, <4>1 DEF Records
      <4>3. Minus(call[c].seen.exp, 1) >= call[c].seen.exp - 1
        BY <1>2 DEF Minus
      <4>4. QED
        BY <1>2, <3>2, <3>3, <3>4, <4>2, <4>3, Margin DEF Live, Minus
    <3>5. CASE call[c].seen.status # "pending"
      <4>1. call'[c].seen = call[c].seen
        BY <1>3, <3>5 DEF Older, Fades, Attended
      <4>2. QED
        BY <3>3, <3>5, <4>1 DEF Live
    <3>6. QED
      BY <3>4, <3>5
  <2>3. QED
    BY <2>1, <2>2 DEF SeenLive
<1>15. QED
  BY <1>9, <1>10, <1>11, <1>12, <1>13, <1>14 DEF IInv

LEMMA InvNext == ASSUME Attended PROVE IInv /\ [Next]_vars => IInv'
<1> SUFFICES ASSUME IInv, [Next]_vars PROVE IInv'
  OBVIOUS
<1>1. TypeOK'
  BY NextTyped DEF IInv
<1>2. CASE UNCHANGED vars
  <2>1. \A c \in Callers : /\ Holds(c)' <=> Holds(c)
                           /\ Slack(c)' = Slack(c) /\ Missed(c)' = Missed(c)
    BY <1>2 DEF vars, Holds, Slack, Missed
  <2>2. ASSUME NEW c \in Callers, Holds(c)'
        PROVE  store'.exp >= Lease - Spent(Missed(c)') + Slack(c)'
    BY <1>2, <2>1, <2>2 DEF vars, IInv, LeaseAhead
  <2>3. LeaseAhead'
    BY <1>2, <2>2 DEF vars, IInv, LeaseAhead
  <2>4. QED
    BY <1>1, <1>2, <2>1, <2>3 DEF vars, IInv, Quiet, KeyOfHolder, OwnReservation,
       RenewalOfBody, InTime, SeenLive, Live
<1>3. CASE Tick
  BY <1>1, <1>3, TickInv
<1>4. ASSUME NEW cmd \in wire, Land(cmd) PROVE IInv'
  BY <1>4 DEF IInv, Quiet
<1>5. ASSUME NEW c \in Callers, Call(c) \/ Serve(c) \/ ServeRenewal(c) \/ Suffer(c)
      PROVE  IInv'
  BY <1>1, <1>5, CallStepInv, ServeInv, ServeRenewalInv, SufferInv
<1>6. ~DirectSave /\ ~DirectDelete
  BY DEF Attended, DirectSave, DirectDelete
<1>7. QED
  BY <1>2, <1>3, <1>4, <1>5, <1>6 DEF Next

LEMMA InvExclusive == IInv => ExclusiveExecution
<1> SUFFICES ASSUME IInv, NEW c \in Callers, NEW d \in Callers,
                    Executing(c), Executing(d)
             PROVE  c = d
  BY DEF ExclusiveExecution
<1>1. Holds(c) /\ Holds(d)
  BY DEF Executing, Holds, HolderPcs, IInv, Quiet, UnreservedPcs
<1>2. QED
  BY <1>1 DEF IInv, KeyOfHolder, OwnReservation

\* The inductive invariant holds in every attended instance: any number of calls,
\* any lease that leaves room for the renewals that may fail and the reads around
\* them.
THEOREM InvCorrect == ASSUME Attended PROVE Spec => []IInv
BY InvInit, InvNext, PTL DEF Spec

\* Requests that take up to Latency, renewals that fail up to Blips times in a row,
\* claims and completions that fail or are cancelled: never two actions at a time,
\* as long as no owner leaves its reservation behind and the lease has room.
THEOREM Exclusive == ASSUME Attended PROVE Spec => []ExclusiveExecution
BY InvCorrect, InvExclusive, PTL

\* Then no renewal outlives the body it renews for, either.
THEOREM RenewalOver == ASSUME Attended PROVE Spec => []RenewalOverBeforeCleanup
<1>1. IInv => RenewalOverBeforeCleanup
  BY DEF IInv, RenewalOfBody, RenewalOverBeforeCleanup
<1>2. QED
  BY <1>1, InvCorrect, PTL
==============================================================================
