--------------------------- MODULE FailClosedProofs ---------------------------
(***************************************************************************)
(* What survives of the guarantee when the store fails, calls are          *)
(* cancelled or crash and results expire, as long as every caller fails    *)
(* closed: theorems about Coordinator for every set of callers, lease and  *)
(* interval, and every number of renewals that may fail in a row for which *)
(* the lease has room.                                                     *)
(***************************************************************************)
EXTENDS OncePerKeyProofs

------------------------------------------------------------------------------
(***************************************************************************)
(* The regime                                                              *)
(***************************************************************************)
\* Latency 0, a lease in ticks, and nothing a caller could do without the key.
LEMMA Regime ==
    ASSUME FailsClosed
    PROVE  /\ Lease \in Nat /\ Lease > 0 /\ Interval \in Nat /\ Blips \in Nat
           /\ Latency = 0 /\ ResultTtl \in Nat /\ ResultTtl > 0 /\ Padded = {}
           /\ \A f \in {"cancel_join", "late", "stall", "rejected", "direct_use"} :
                 f \notin Faults
           /\ \A c \in Callers : OnStorageError[c] = "raise"
BY TimingAssumption DEF FailsClosed

\* What missed renewals have cost of the lease leaves some of it.
LEMMA Room ==
    ASSUME FailsClosed, NEW m \in 0..Blips
    PROVE  /\ (m + 1) * Interval \in Nat /\ (m + 1) * Interval < Lease
           /\ m < Blips => (m + 1 + 1) * Interval = (m + 1) * Interval + Interval
<1>1. Interval \in Nat /\ Blips \in Nat /\ m \in Nat /\ m <= Blips /\ Lease \in Nat
  BY Regime
<1>2. (m + 1) * Interval \in Nat
  BY <1>1
<1>3. (m + 1) * Interval <= (Blips + 1) * Interval
  BY <1>1
<1>4. (m + 1 + 1) * Interval = (m + 1) * Interval + Interval
  BY <1>1
<1>5. (Blips + 1) * Interval \in Nat
  BY <1>1
<1>6. QED
  BY <1>1, <1>2, <1>3, <1>4, <1>5 DEF FailsClosed

\* A request that nobody waits for any more is lost, never late.
LEMMA Dropped ==
    ASSUME FailsClosed, wire = {}, NEW sent, Abandons(sent)
    PROVE  wire' = {}
BY Regime DEF Abandons

LEMMA FInvInit == ASSUME FailsClosed, Init PROVE FInv
<1>1. TypeOK /\ wire = {}
  BY InitTyped DEF Init
<1>2. PICK kind \in {"none", "result", "abandoned"} : store \in Leftover(kind)
  BY DEF Init, FailsClosed
<1>3. Usable(store) /\ store.exp = store.ttl
  <2>1. \/ store = None \/ store = Written("completed", Earlier, ResultTtl, 0)
        \/ store = Written("pending", Earlier, Lease, 0)
    BY <1>2, Regime DEF Leftover
  <2>2. QED
    BY <2>1, Regime, CallersAssumption DEF Usable, None, Absent, Written, Minus
<1>4. ASSUME NEW c \in Callers PROVE Steady(c, call[c], ren[c], store) /\ Sincere(call[c], store)
  <2>1. call[c].pc = "idle" /\ ren[c].st = "off"
    BY DEF Init, At, NoRenewal
  <2>2. QED
    BY <2>1 DEF Steady, Sincere, UnreservedPcs, HolderPcs, RequestPcs
<1>5. QED
  BY <1>1, <1>3, <1>4 DEF FInv

\* A step of one call keeps the invariant if it leaves that call and the key in
\* order, and touches the key only when nothing is stored and nobody else holds it.
LEMMA OneCallFInv ==
    ASSUME FInv, TypeOK', NEW c \in Callers, NEW s, NEW r, Become(c, s), Renews(c, r),
           wire' = {}, Steady(c, s, r, store'), Sincere(s, store'),
           \/ store' = store
           \/ /\ store.status # "completed" /\ \A d \in Callers \ {c} : ~Holds(d)
              /\ Usable(store') /\ store'.exp = store'.ttl
    PROVE  FInv'
<1>1. /\ call'[c] = s /\ \A d \in Callers \ {c} : call'[d] = call[d]
      /\ ren'[c] = r /\ \A d \in Callers \ {c} : ren'[d] = ren[d]
  BY DEF Become, Renews, FInv, TypeOK
<1>2. Usable(store') /\ store'.exp = store'.ttl
  BY DEF FInv
<1>3. ASSUME NEW d \in Callers \ {c}
      PROVE  Steady(d, call[d], ren[d], store') /\ Sincere(call[d], store')
  <2>1. Steady(d, call[d], ren[d], store) /\ Sincere(call[d], store)
    BY DEF FInv
  <2>2. CASE store' = store
    BY <2>1, <2>2
  <2>3. CASE store.status # "completed" /\ ~Holds(d)
    BY <2>1, <2>3 DEF Steady, Sincere, Holds, HolderPcs
  <2>4. QED
    BY <2>2, <2>3
<1>4. \A d \in Callers : Steady(d, call'[d], ren'[d], store') /\ Sincere(call'[d], store')
  BY <1>1, <1>3
<1>5. QED
  BY <1>2, <1>4 DEF FInv, Usable

\* Whoever is past its reservation finds its own record under the key.
LEMMA HoldersOwnF == FInv => HoldersOwn
BY DEF FInv, Steady, HoldersOwn, Holds, OwnReservation

LEMMA SoleHolder ==
    ASSUME FInv, NEW c \in Callers, Holds(c)
    PROVE  store.status = "pending" /\ store.by = c /\ \A d \in Callers \ {c} : ~Holds(d)
BY HoldersOwnF DEF HoldersOwn, OwnReservation

\* A claim that goes on, and a call that ends without having touched the key.
LEMMA ClaimStepF ==
    ASSUME FInv, TypeOK', NEW c \in Callers, ~Holds(c), NEW s, Become(c, s), s.age = 0,
           s.pc \in {"reserving", "reading", "sleeping", "done", "crashed"},
           store' = store, ren' = ren, wire' = {}
    PROVE  FInv'
<1>1. Renews(c, ren[c])
  BY DEF Renews, FInv, TypeOK
<1>2. ren[c].st = "off"
  BY DEF FInv, Steady, Holds, HolderPcs
<1>3. Steady(c, s, ren[c], store') /\ Sincere(s, store')
  BY <1>2 DEF Steady, Sincere, UnreservedPcs, HolderPcs
<1>4. QED
  BY <1>1, <1>3, OneCallFInv

\* The ways on and out of a claim.
LEMMA ClaimMoves ==
    ASSUME FInv, TypeOK', NEW c \in Callers, ~Holds(c), store' = store, ren' = ren, wire' = {},
           \/ \E p \in {"reserving", "reading", "sleeping"} : Claiming(c, p)
           \/ \E f \in Fates : Ends(c, "done", f)
    PROVE  FInv'
<1>1. ASSUME NEW p \in {"reserving", "reading", "sleeping"}, Claiming(c, p) PROVE FInv'
  BY <1>1, ClaimStepF DEF Claiming, At
<1>2. ASSUME NEW f \in Fates, Ends(c, "done", f) PROVE FInv'
  BY <1>2, ClaimStepF DEF Ends, At
<1>3. QED
  BY <1>1, <1>2

\* A record that a read has found holds still, and can be used.
LEMMA JudgedF ==
    ASSUME FInv, NEW c \in Callers, call[c].pc = "judging"
    PROVE  /\ call[c].seen.status \in {"absent", "pending", "completed"}
           /\ call[c].seen.status \in {"pending", "completed"} => ~IsExpired(call[c].seen)
           /\ call[c].seen.status = "completed" =>
                 /\ call[c].seen.by # Stranger
                 /\ store.status = "completed" /\ call[c].seen.by = store.by
<1>1. Usable(call[c].seen) /\ call[c].seen \in Records
  BY DEF FInv, Sincere, TypeOK, Calls
<1>2. QED
  BY <1>1 DEF Usable, IsExpired, Records, Statuses, FInv, Sincere

------------------------------------------------------------------------------
(***************************************************************************)
(* Each step keeps the invariant                                           *)
(***************************************************************************)
\* A fresh reservation, or a renewed one: the whole lease is ahead, and an
\* interval till the next renewal.
LEMMA Renewed ==
    ASSUME FailsClosed, NEW c \in Callers
    PROVE  /\ Pending(c, 0).status = "pending" /\ Pending(c, 0).by = c
           /\ Pending(c, 0).exp = Lease /\ Pending(c, 0).ttl = Lease
           /\ Usable(Pending(c, 0))
           /\ Asleep(0).st = "sleep" /\ Asleep(0).age = 0
           /\ Pending(c, 0).exp >= Lease - (Asleep(0).missed + 1) * Interval + Asleep(0).due
<1>1. Pending(c, 0) = [status |-> "pending", by |-> c, exp |-> Lease, ttl |-> Lease]
  BY Regime DEF Pending, Written, Minus
<1>2. Asleep(0) = [st |-> "sleep", due |-> Interval, age |-> 0, missed |-> 0]
  BY Regime DEF Asleep
<1>3. Pending(c, 0).exp >= Lease - (Asleep(0).missed + 1) * Interval + Asleep(0).due
  <2>1. Pending(c, 0).exp = Lease /\ Asleep(0).missed = 0 /\ Asleep(0).due = Interval
    BY <1>1, <1>2
  <2>2. Lease >= Lease - (0 + 1) * Interval + Interval
    BY Regime
  <2>3. QED
    BY <2>1, <2>2
<1>4. QED
  BY <1>1, <1>2, <1>3, Regime DEF Usable

LEMMA ReserveWinsF ==
    ASSUME FailsClosed, FInv, TypeOK', NEW c \in Callers, ReserveWins(c)
    PROVE  FInv'
<1> DEFINE s == [At(c, "running") EXCEPT !.ran = "started"]
<1>1. Become(c, s) /\ Renews(c, Asleep(0)) /\ s.pc = "running"
  BY DEF ReserveWins, At
<1> HIDE DEF s
<1>2. store.status = "absent" /\ wire' = {} /\ call[c].age = 0
  BY DEF ReserveWins, FInv, Steady, RequestPcs
<1>3. store' = Pending(c, 0)
  BY <1>2 DEF ReserveWins, SetNX
<1>4. \A d \in Callers : ~Holds(d)
  BY <1>2, SoleHolder
<1>5. Steady(c, s, Asleep(0), store') /\ Sincere(s, store')
  BY <1>1, <1>3, Renewed DEF Steady, Sincere, UnreservedPcs, HolderPcs, RequestPcs
<1>6. Usable(store') /\ store'.exp = store'.ttl
  BY <1>3, Renewed
<1>7. QED
  BY <1>1, <1>2, <1>4, <1>5, <1>6, OneCallFInv

LEMMA ReadStoreF ==
    ASSUME FailsClosed, FInv, TypeOK', NEW c \in Callers, ReadStore(c)
    PROVE  FInv'
<1> DEFINE s == [call[c] EXCEPT !.pc = "judging", !.seen = Read(c)]
<1>1. call[c] \in Calls /\ store \in Records /\ call[c].age = 0 /\ ren[c].st = "off"
  BY DEF ReadStore, FInv, TypeOK, Steady, RequestPcs
<1>2. /\ Become(c, s) /\ Renews(c, ren[c]) /\ s.pc = "judging" /\ s.age = 0
      /\ s.seen = [store EXCEPT !.ttl = 0]
  BY <1>1, Regime DEF ReadStore, Become, Renews, FInv, TypeOK, Calls, Read
<1> HIDE DEF s
<1>3. s.seen.status = store.status /\ s.seen.by = store.by /\ s.seen.exp = store.exp
  BY <1>1, <1>2 DEF Records
<1>4. store' = store /\ wire' = {} /\ Usable(store)
  BY DEF ReadStore, FInv
<1>5. Steady(c, s, ren[c], store') /\ Sincere(s, store')
  BY <1>1, <1>2, <1>3, <1>4 DEF Steady, Sincere, Usable, UnreservedPcs, HolderPcs
<1>6. QED
  BY <1>2, <1>4, <1>5, OneCallFInv

\* The holder goes on, its key and its renewal task untouched.
LEMMA HolderGoesOn ==
    ASSUME FInv, TypeOK', NEW c \in Callers, Holds(c), NEW s, NEW r, Become(c, s), Renews(c, r),
           store' = store, wire' = {},
           \/ call[c].pc = "running" /\ s.pc = "joining" /\ r = ren[c]
           \/ s.pc \in {"completing", "releasing"} /\ r.st = "off" /\ s.age = 0,
           s.pc = "completing" => s.fate = "value",
           s.fate \in {"value", "action_error", "cancelled"}
    PROVE  FInv'
<1>1. Steady(c, call[c], ren[c], store)
  BY DEF FInv
<1>2. Steady(c, s, r, store')
  BY <1>1 DEF Steady, Holds, UnreservedPcs, HolderPcs, RequestPcs
<1>3. Sincere(s, store')
  BY DEF Sincere
<1>4. QED
  BY <1>2, <1>3, OneCallFInv

\* The holder's call ends, with the key as it was, a result under it, or none.
LEMMA HolderEndsF ==
    ASSUME FInv, TypeOK', NEW c \in Callers, Holds(c), NEW s, NEW r, Become(c, s), Renews(c, r),
           wire' = {}, s.pc \in {"done", "crashed"}, r.st = "off",
           Usable(store'), store'.exp = store'.ttl
    PROVE  FInv'
<1>1. store.status # "completed" /\ \A d \in Callers \ {c} : ~Holds(d)
  BY SoleHolder
<1>2. Steady(c, s, r, store') /\ Sincere(s, store')
  BY DEF Steady, Sincere, UnreservedPcs, HolderPcs, RequestPcs
<1>3. QED
  BY <1>1, <1>2, OneCallFInv

LEMMA ServeF ==
    ASSUME FailsClosed, FInv, TypeOK', NEW c \in Callers, Serve(c)
    PROVE  FInv'
<1>1. /\ Steady(c, call[c], ren[c], store) /\ Sincere(call[c], store)
      /\ call[c] \in Calls /\ wire = {} /\ (Renews(c, ren[c]) <=> ren' = ren)
  BY DEF FInv, TypeOK, Renews
<1>2. call[c].pc \in {"reserving", "reading", "judging", "sleeping"} => ~Holds(c)
  BY DEF Holds, HolderPcs
<1>3. CASE \/ ReserveCollides(c) \/ FindsNothing(c) \/ RefusesReuse(c)
           \/ FindsPending(c) \/ Wake(c)
  BY <1>1, <1>2, <1>3, ClaimMoves DEF ReserveCollides, FindsNothing, RefusesReuse, FindsPending,
     Wake, HasFound, Again, Fates
<1>4. CASE ReserveWins(c)
  BY <1>4, ReserveWinsF
<1>5. CASE ReadStore(c)
  BY <1>5, ReadStoreF
<1>6. ~FindsExpired(c) /\ ~FindsLapsed(c) /\ ~FindsUnusable(c)
  BY JudgedF DEF FindsExpired, FindsLapsed, FindsUnusable, HasFound
<1>7. CASE FindsResult(c)
  <2> DEFINE s == [At(c, "done") EXCEPT !.fate = "value", !.answer = call[c].seen.by]
  <2>1. Become(c, s) /\ s.pc = "done" /\ s.age = 0
    BY <1>7 DEF FindsResult, At
  <2> HIDE DEF s
  <2>2. QED
    BY <1>1, <1>2, <1>7, <2>1, ClaimStepF DEF FindsResult, HasFound
<1>8. ~Purge(c)
  BY <1>1 DEF Purge, Steady
<1>9. CASE JoinReturns(c)
  <2> DEFINE p == IF call[c].fate = "value" THEN "completing" ELSE "releasing"
             s == [At(c, p) EXCEPT !.fate = call[c].fate, !.ran = call[c].ran]
  <2>1. Become(c, s) /\ s.pc = p /\ s.fate = call[c].fate /\ s.age = 0
    BY <1>9 DEF JoinReturns, Ends, At
  <2>2. p \in {"completing", "releasing"} /\ (p = "completing" => call[c].fate = "value")
    OBVIOUS
  <2> HIDE DEF s, p
  <2>3. /\ Renews(c, NoRenewal) /\ NoRenewal.st = "off" /\ Holds(c)
        /\ call[c].fate \in {"value", "action_error", "cancelled"} /\ store' = store /\ wire' = {}
    BY <1>1, <1>9 DEF JoinReturns, NoRenewal, Holds, HolderPcs, Sincere
  <2>4. QED
    BY <2>1, <2>2, <2>3, HolderGoesOn
<1>10. ASSUME Holds(c), ren[c].st = "off", NEW f, Ends(c, "done", f), ren' = ren, wire' = wire,
              Usable(store'), store'.exp = store'.ttl
       PROVE  FInv'
  <2> DEFINE s == [At(c, "done") EXCEPT !.fate = f, !.ran = call[c].ran]
  <2>1. Become(c, s) /\ s.pc = "done"
    BY <1>10 DEF Ends, At
  <2> HIDE DEF s
  <2>2. QED
    BY <1>1, <1>10, <2>1, HolderEndsF
<1>11. CASE CompleteSet(c)
  <2>1. call[c].pc = "completing" /\ call[c].age = 0
    BY <1>1, <1>11 DEF CompleteSet, Completing, Steady, UnreservedPcs, RequestPcs
  <2>2. store' = [status |-> "completed", by |-> c, exp |-> ResultTtl, ttl |-> ResultTtl]
    BY <1>11, <2>1, Regime DEF CompleteSet, Result, Written, Minus
  <2>3. Usable(store') /\ store'.exp = store'.ttl
    BY <2>2, Regime, CallersAssumption DEF Usable
  <2>4. QED
    BY <1>1, <1>10, <1>11, <2>1, <2>3 DEF CompleteSet, Holds, HolderPcs, Steady
<1>12. CASE Release(c)
  <2>1. store' = None
    BY <1>12, Regime DEF Release, Deleted
  <2>2. Usable(store') /\ store'.exp = store'.ttl
    BY <2>1 DEF None, Absent, Usable
  <2>3. QED
    BY <1>1, <1>10, <1>12, <2>2 DEF Release, Holds, HolderPcs, Steady
<1>13. QED
  BY <1>3, <1>4, <1>5, <1>6, <1>7, <1>8, <1>9, <1>11, <1>12 DEF Serve

LEMMA ServeRenewalF ==
    ASSUME FailsClosed, FInv, TypeOK', NEW c \in Callers, ServeRenewal(c)
    PROVE  FInv'
<1>1. /\ Steady(c, call[c], ren[c], store) /\ Sincere(call[c], store)
      /\ ren[c] \in Renewals /\ store \in Records
      /\ wire' = {} /\ Become(c, call[c])
  BY DEF FInv, TypeOK, ServeRenewal, RenewalDue, RenewSet, Become
<1>2. ren[c].st # "off" /\ call[c].pc \in {"running", "joining"} /\ Holds(c)
  BY <1>1 DEF ServeRenewal, RenewalDue, RenewSet, Steady, Holds, HolderPcs
<1>3. CASE RenewalDue(c)
  <2> DEFINE r == [ren[c] EXCEPT !.st = "write", !.due = 0, !.age = 0]
  <2>1. /\ Renews(c, r) /\ store' = store
        /\ r.st = "write" /\ r.due = 0 /\ r.age = 0 /\ r.missed = ren[c].missed
    BY <1>1, <1>3 DEF RenewalDue, Renewals
  <2>2. ren[c].due = 0
    BY <1>1, <1>3, Regime DEF RenewalDue, Renewals
  <2> HIDE DEF r
  <2>3. Steady(c, call[c], r, store')
    BY <1>1, <1>2, <2>1, <2>2 DEF Steady
  <2>4. QED
    BY <1>1, <2>1, <2>3, OneCallFInv
<1>4. CASE RenewSet(c)
  <2>1. ren[c].age = 0 /\ store' = Pending(c, 0)
    BY <1>1, <1>4 DEF RenewSet, Steady
  <2>2. Renews(c, Asleep(0))
    BY <1>2, <1>4 DEF RenewSet, AfterRenewal
  <2>3. Steady(c, call[c], Asleep(0), store') /\ Usable(store') /\ store'.exp = store'.ttl
    BY <1>1, <1>2, <2>1, Renewed DEF Steady
  <2>4. Sincere(call[c], store')
    BY <1>1, <1>2 DEF Sincere
  <2>5. store.status # "completed" /\ \A d \in Callers \ {c} : ~Holds(d)
    BY <1>2, SoleHolder
  <2>6. QED
    BY <1>1, <2>2, <2>3, <2>4, <2>5, OneCallFInv
<1>5. QED
  BY <1>3, <1>4 DEF ServeRenewal

\* A renewal that fails costs the lease one interval, and there is one left.
LEMMA RenewFailsF ==
    ASSUME FailsClosed, FInv, TypeOK', NEW c \in Callers, RenewFails(c)
    PROVE  FInv'
<1> DEFINE m == ren[c].missed
<1>1. /\ Steady(c, call[c], ren[c], store) /\ Sincere(call[c], store)
      /\ ren[c] \in Renewals /\ store \in Records
      /\ store' = store /\ wire = {} /\ Become(c, call[c])
  BY DEF FInv, TypeOK, RenewFails, Become
<1>2. ren[c].st = "write" /\ call[c].pc \in {"running", "joining"}
  BY <1>1 DEF RenewFails, Steady
<1>3. m \in 0..Blips /\ m < Blips /\ ren[c].due \in Nat /\ store.exp \in Nat
  BY <1>1, Regime DEF RenewFails, Renewals, Records
<1>4. store.exp >= Lease - (m + 1) * Interval + ren[c].due
  BY <1>1, <1>2 DEF Steady
<1>5. (m + 1) * Interval \in Nat /\ (m + 1 + 1) * Interval = (m + 1) * Interval + Interval
  BY <1>3, Room
<1>6. Renews(c, Asleep(m + 1))
  BY <1>2 DEF RenewFails, AfterRenewal
<1>7. /\ Asleep(m + 1).st = "sleep" /\ Asleep(m + 1).missed = m + 1
      /\ Asleep(m + 1).due = Interval
  BY Regime DEF Asleep
<1> HIDE DEF m
<1>8. store.exp >= Lease - (m + 1 + 1) * Interval + Interval
  BY <1>3, <1>4, <1>5, Regime
<1>9. Steady(c, call[c], Asleep(m + 1), store')
  BY <1>1, <1>2, <1>7, <1>8 DEF Steady
<1>10. wire' = {}
  BY <1>1, Dropped DEF RenewFails
<1>11. QED
  BY <1>1, <1>6, <1>9, <1>10, OneCallFInv

LEMMA CrashF ==
    ASSUME FailsClosed, FInv, TypeOK', NEW c \in Callers, Crash(c)
    PROVE  FInv'
<1> DEFINE s == [At(c, "crashed") EXCEPT !.ran = call[c].ran]
<1>1. Become(c, s) /\ s.pc = "crashed" /\ s.age = 0
  BY DEF Crash, At
<1> HIDE DEF s
<1>2. Renews(c, NoRenewal) /\ NoRenewal.st = "off" /\ store' = store
  BY DEF Crash, NoRenewal
<1>3. wire' = {} /\ Usable(store) /\ store.exp = store.ttl
  BY Dropped DEF Crash, FInv
<1>4. Steady(c, s, NoRenewal, store') /\ Sincere(s, store')
  BY <1>1, <1>2 DEF Steady, Sincere, UnreservedPcs, HolderPcs, RequestPcs
<1>5. QED
  BY <1>1, <1>2, <1>3, <1>4, OneCallFInv

LEMMA SufferF ==
    ASSUME FailsClosed, FInv, TypeOK', NEW c \in Callers, Suffer(c)
    PROVE  FInv'
<1>1. /\ Steady(c, call[c], ren[c], store) /\ Sincere(call[c], store)
      /\ (Renews(c, ren[c]) <=> ren' = ren)
  BY DEF FInv, TypeOK, Renews
<1>2. wire = {} /\ Usable(store) /\ store.exp = store.ttl /\ OnStorageError[c] = "raise"
  BY Regime DEF FInv
<1>3. \A S : Abandons(S) => wire' = {}
  BY <1>2, Dropped
<1>4. call[c].pc \in ClaimPcs => ~Holds(c) /\ call[c].pc # "purging"
  BY <1>1 DEF ClaimPcs, Holds, HolderPcs, Steady
<1>5. ASSUME Holds(c), call[c].pc = "running", NEW s, Become(c, s), s.pc = "joining",
             s.fate \in {"value", "action_error", "cancelled"}, UNCHANGED <<store, ren, wire>>
      PROVE  FInv'
  BY <1>1, <1>2, <1>5, HolderGoesOn
<1>6. CASE FinishAction(c)
  <2> DEFINE s == [At(c, "joining") EXCEPT !.fate = "value", !.ran = "ok"]
  <2>1. call[c].pc = "running" /\ Holds(c)
    BY <1>1, <1>6 DEF FinishAction, Executing, Steady, UnreservedPcs, Holds, HolderPcs
  <2>2. Become(c, s) /\ s.pc = "joining" /\ s.fate = "value"
    BY <1>6, <2>1 DEF FinishAction, At
  <2> HIDE DEF s
  <2>3. QED
    BY <1>5, <1>6, <2>1, <2>2 DEF FinishAction
<1>7. ASSUME NEW f \in {"action_error", "cancelled"}, Breaks(c, f) PROVE FInv'
  <2> DEFINE s == [At(c, "joining") EXCEPT !.fate = f, !.ran = call[c].ran]
  <2>1. call[c].pc = "running" /\ Holds(c)
    BY <1>1, <1>7 DEF Breaks, Executing, Steady, UnreservedPcs, Holds, HolderPcs
  <2>2. Become(c, s) /\ s.pc = "joining" /\ s.fate = f
    BY <1>7, <2>1 DEF Breaks, Ends, At
  <2> HIDE DEF s
  <2>3. QED
    BY <1>5, <1>7, <2>1, <2>2 DEF Breaks
<1>8. CASE ReserveFails(c) \/ ReadFails(c) \/ PurgeFails(c) \/ CancelClaim(c)
  <2>1. ~Holds(c) /\ call[c].pc # "purging"
    BY <1>4, <1>8 DEF ReserveFails, ReadFails, PurgeFails, CancelClaim, ClaimPcs
  <2>2. wire' = {} /\ store' = store /\ ren' = ren
    BY <1>2, <1>3, <1>8 DEF ReserveFails, ReadFails, PurgeFails, CancelClaim
  <2>3. \E f \in Fates : Ends(c, "done", f)
    BY <1>2, <1>8, <2>1 DEF ReserveFails, ReadFails, PurgeFails, CancelClaim, StorageFails, Fates
  <2>4. QED
    BY <2>1, <2>2, <2>3, ClaimMoves
<1>9. CASE CompleteFails(c) \/ Unstorable(c)
  <2> DEFINE s == [At(c, "releasing") EXCEPT !.fate = call[c].fate, !.ran = call[c].ran]
  <2>1. call[c].pc = "completing"
    BY <1>1, <1>9 DEF CompleteFails, Unstorable, Completing, Steady, UnreservedPcs
  <2>2. Become(c, s) /\ s.pc = "releasing" /\ s.fate = call[c].fate /\ s.age = 0
    BY <1>9, <2>1 DEF CompleteFails, Unstorable, NotStored, Ends, At
  <2> HIDE DEF s
  <2>3. Holds(c) /\ ren[c].st = "off" /\ call[c].fate = "value"
    BY <1>1, <2>1 DEF Steady, Sincere, Holds, HolderPcs
  <2>4. Renews(c, ren[c]) /\ store' = store /\ wire' = {}
    BY <1>1, <1>2, <1>3, <1>9 DEF CompleteFails, Unstorable
  <2>5. QED
    BY <2>2, <2>3, <2>4, HolderGoesOn
<1>10. CASE ReleaseFails(c) \/ CancelCleanup(c)
  <2> DEFINE f == IF ReleaseFails(c) THEN call[c].fate ELSE "cancelled"
             s == [At(c, "done") EXCEPT !.fate = f, !.ran = call[c].ran]
  <2>1. Become(c, s) /\ s.pc = "done"
    BY <1>10 DEF ReleaseFails, CancelCleanup, Ends, At
  <2> HIDE DEF f, s
  <2>2. Holds(c) /\ ren[c].st = "off"
    BY <1>1, <1>10 DEF ReleaseFails, CancelCleanup, Completing, Steady, Holds, HolderPcs,
       UnreservedPcs
  <2>3. Renews(c, ren[c]) /\ store' = store /\ wire' = {}
    BY <1>1, <1>3, <1>10 DEF ReleaseFails, CancelCleanup
  <2>4. QED
    BY <1>2, <2>1, <2>2, <2>3, HolderEndsF
<1>11. ~ReserveRejected(c) /\ ~CancelJoin(c)
  BY Regime DEF ReserveRejected, CancelJoin
<1>12. QED
  BY <1>6, <1>7, <1>8, <1>9, <1>10, <1>11, RenewFailsF, CrashF
     DEF Suffer, ActionFails, CancelAction

\* What a tick makes of the key: its two clocks stay together, a result is kept
\* or forgotten, and a lease that had more than one tick left goes on.
LEMMA TickKey ==
    ASSUME FInv, Tick
    PROVE  /\ Usable(store') /\ store'.exp = store'.ttl
           /\ \/ store'.status = "absent"
              \/ store'.status = store.status /\ store'.by = store.by
           /\ store.status = "pending" /\ store.exp > 1 =>
                 store'.status = "pending" /\ store'.by = store.by /\ store'.exp = store.exp - 1
<1>1. /\ store \in Records /\ store.exp \in Nat /\ Usable(store) /\ store.exp = store.ttl
  BY TimingAssumption DEF FInv, TypeOK, Records
<1>2. CASE ~Fades(store)
  BY <1>1, <1>2 DEF Tick, Fades
<1>3. CASE Fades(store) /\ store.ttl = 1
  <2>1. store' = Absent(Earlier)
    BY <1>3 DEF Tick, Elapse
  <2>2. store'.status = "absent" /\ store'.exp = 0 /\ store'.ttl = 0
    BY <2>1 DEF Absent
  <2>3. ~(store.exp > 1)
    BY <1>1, <1>3
  <2>4. QED
    BY <2>2, <2>3 DEF Usable
<1>4. CASE Fades(store) /\ store.ttl # 1
  <2>1. store' = [store EXCEPT !.exp = Minus(@, 1), !.ttl = Minus(@, 1)]
    BY <1>4 DEF Tick, Elapse
  <2>2. /\ store'.status = store.status /\ store'.by = store.by
        /\ store'.exp = Minus(store.exp, 1) /\ store'.ttl = Minus(store.exp, 1)
    BY <1>1, <2>1 DEF Records
  <2>3. store.exp > 1 => Minus(store.exp, 1) = store.exp - 1
    BY <1>1 DEF Minus
  <2>4. store.status # "absent" => store.exp > 1
    BY <1>1, <1>4 DEF Usable
  <2>5. QED
    BY <1>1, <2>2, <2>3, <2>4 DEF Usable
<1>5. QED
  BY <1>2, <1>3, <1>4

\* Nobody waits for the store while the clock ticks: with a request answered
\* within the tick there are only bodies that run and claims that sleep.
LEMMA TickIdle ==
    ASSUME FailsClosed, FInv, Tick, NEW c \in Callers
    PROVE  /\ call[c].pc \notin RequestPcs \union {"joining"} /\ ren[c].st # "write"
           /\ ren[c].st # "off" => ren[c].due > 0
           /\ Holds(c) => call[c].pc = "running" /\ ren[c].st = "sleep"
<1>1. OnTime(c) /\ Latency = 0
  BY Regime DEF Tick
<1>2. /\ call[c].age \in Nat /\ ren[c].age \in Nat /\ ren[c].st \in {"off", "sleep", "write"}
      /\ Steady(c, call[c], ren[c], store)
  BY TimingAssumption DEF FInv, TypeOK, Calls, Renewals
<1>3. QED
  BY <1>1, <1>2 DEF OnTime, Steady, RequestPcs, Holds, HolderPcs

LEMMA TickF ==
    ASSUME FailsClosed, FInv, TypeOK', Tick
    PROVE  FInv'
<1>1. wire' = {} /\ Usable(store') /\ store'.exp = store'.ttl
  BY TickKey DEF FInv, Tick
<1>2. ASSUME NEW c \in Callers
      PROVE  Steady(c, call'[c], ren'[c], store') /\ Sincere(call'[c], store')
  <2>1. /\ Steady(c, call[c], ren[c], store) /\ Sincere(call[c], store)
        /\ call[c] \in Calls /\ ren[c] \in Renewals /\ store \in Records
    BY DEF FInv, TypeOK
  <2>2. call'[c].pc = call[c].pc
    BY <2>1 DEF Tick, Calls
  <2>3. /\ ren'[c].st = ren[c].st /\ ren'[c].missed = ren[c].missed
        /\ ren'[c].due = Minus(ren[c].due, 1)
    BY <2>1 DEF Tick, Renewals
  <2>4. call[c].pc \notin RequestPcs \union {"joining"} /\ ren[c].st # "write"
    BY TickIdle
  <2>5. Sincere(call'[c], store')
    BY <2>2, <2>4 DEF Sincere, RequestPcs
  <2>6. CASE Holds(c)
    <3>1. /\ call[c].pc = "running" /\ ren[c].st = "sleep" /\ ren[c].due > 0
          /\ ren[c].due \in Nat /\ ren[c].missed \in 0..Blips /\ store.exp \in Nat
      BY <2>1, <2>6, TickIdle, Regime DEF Renewals, Records
    <3> DEFINE cost == (ren[c].missed + 1) * Interval
    <3>2. cost \in Nat /\ cost < Lease
      BY <3>1, Room
    <3>3. store.status = "pending" /\ store.by = c /\ store.exp >= Lease - cost + ren[c].due
      BY <2>1, <2>6, <3>1 DEF Steady, Holds
    <3> HIDE DEF cost
    <3>4. store.exp > 1 /\ Minus(ren[c].due, 1) = ren[c].due - 1
      BY <3>1, <3>2, <3>3, Regime DEF Minus
    <3>5. store'.status = "pending" /\ store'.by = c /\ store'.exp = store.exp - 1
      BY <3>3, <3>4, TickKey
    <3>6. store'.exp >= Lease - cost + ren'[c].due
      BY <2>3, <3>1, <3>2, <3>3, <3>4, <3>5, Regime
    <3>7. store'.exp >= Lease - (ren'[c].missed + 1) * Interval + ren'[c].due
      BY <2>3, <3>6 DEF cost
    <3>8. QED
      BY <2>1, <2>2, <2>3, <2>4, <2>5, <3>1, <3>5, <3>7 DEF Steady
  <2>7. CASE ~Holds(c)
    BY <2>1, <2>2, <2>3, <2>4, <2>5, <2>7 DEF Steady, Holds, HolderPcs
  <2>8. QED
    BY <2>6, <2>7
<1>3. QED
  BY <1>1, <1>2 DEF FInv

LEMMA FInvNext == ASSUME FailsClosed PROVE FInv /\ [Next]_vars => FInv'
<1> SUFFICES ASSUME FInv, [Next]_vars PROVE FInv'
  OBVIOUS
<1>1. TypeOK'
  BY NextTyped DEF FInv
<1>2. CASE UNCHANGED vars
  BY <1>1, <1>2 DEF vars, FInv
<1>3. CASE Tick
  BY <1>1, <1>3, TickF
<1>4. ASSUME NEW c \in Callers, Call(c) PROVE FInv'
  <2> DEFINE s == [At(c, "reserving") EXCEPT !.dl = Lease]
  <2>1. Become(c, s) /\ s.pc = "reserving" /\ s.age = 0
    BY <1>4 DEF Call, At
  <2> HIDE DEF s
  <2>2. QED
    BY <1>1, <1>4, <2>1, ClaimStepF DEF Call, FInv, Holds, HolderPcs
<1>5. ASSUME NEW c \in Callers, Serve(c) \/ ServeRenewal(c) \/ Suffer(c) PROVE FInv'
  BY <1>1, <1>5, ServeF, ServeRenewalF, SufferF
<1>6. wire = {} /\ ~DirectSave /\ ~DirectDelete
  BY Regime DEF FInv, DirectSave, DirectDelete
<1>7. QED
  BY <1>2, <1>3, <1>4, <1>5, <1>6 DEF Next

\* With a renewal every third of the lease, as _renew_lease has it, the lease has
\* room for one renewal that fails, and for no second one in a row.
LEMMA OneFailedRenewal ==
    ASSUME 3 * Interval = Lease
    PROVE  (Blips + 1) * Interval < Lease <=> Blips <= 1
<1>1. Blips \in Nat /\ Interval \in Nat \ {0}
  BY TimingAssumption
<1>2. CASE Blips <= 1
  <2>1. Blips = 0 \/ Blips = 1
    BY <1>1, <1>2
  <2> QED
    BY <1>1, <1>2, <2>1
<1>3. CASE Blips >= 2
  <2>1. (Blips + 1) * Interval = Blips * Interval + Interval
    BY <1>1
  <2>2. Blips * Interval = 2 * Interval + (Blips - 2) * Interval
    BY <1>1
  <2>3. (Blips - 2) * Interval \in Nat
    BY <1>1, <1>3
  <2> QED
    BY <1>1, <1>3, <2>1, <2>2, <2>3
<1>4. QED
  BY <1>1, <1>2, <1>3

\* The inductive invariant holds in every instance that fails closed, however
\* often the store fails and whichever calls crash or are cancelled, except at the
\* join with the renewal task.
THEOREM FInvCorrect == ASSUME FailsClosed PROVE Spec => []FInv
BY FInvInit, FInvNext, PTL DEF Spec

\* What is left when owners leave their reservations behind: they crash, are
\* cancelled while they complete or release, or their release fails, and results
\* expire.  If every caller fails closed, if the lease has room for the renewals
\* that fail in a row, if a request is answered within the tick or lost, if nobody
\* is cancelled while it waits for its renewal task, and if no reservation is
\* rejected and nobody else writes the key, then still no two actions run at the
\* same time.
THEOREM ExclusiveFailingClosed == ASSUME FailsClosed PROVE Spec => []ExclusiveExecution
<1>1. ASSUME FInv, NEW c \in Callers, NEW d \in Callers, Executing(c), Executing(d)
      PROVE  c = d
  <2>1. Holds(c) /\ Holds(d)
    BY <1>1 DEF FInv, Steady, Executing, UnreservedPcs, Holds, HolderPcs
  <2>2. QED
    BY <1>1, <2>1, SoleHolder
<1>2. FInv => ExclusiveExecution
  BY <1>1 DEF ExclusiveExecution
<1>3. QED
  BY <1>2, FInvCorrect, PTL

\* There, too, a renewal, a completion and a release only meet the reservation of
\* the call they belong to, though none of them looks before it writes.
THEOREM OwnersTouchOwnF == ASSUME FailsClosed PROVE Spec => OwnersTouchOwnReservation
<1>1. ASSUME FInv, NEW c \in Callers,
             RenewSet(c) \/ Release(c) \/ (call[c].pc = "completing" /\ CompleteSet(c))
      PROVE  OwnReservation(c)
  <2>1. Holds(c)
    BY <1>1 DEF FInv, Steady, RenewSet, Release, Holds, HolderPcs
  <2>2. QED
    BY <1>1, <2>1, HoldersOwnF DEF HoldersOwn
<1>2. FInv => [\A c \in Callers :
                  RenewSet(c) \/ Release(c) \/ (call[c].pc = "completing" /\ CompleteSet(c))
                      => OwnReservation(c)]_vars
  BY <1>1
<1>3. QED
  BY <1>2, FInvCorrect, PTL DEF OwnersTouchOwnReservation

------------------------------------------------------------------------------
(***************************************************************************)
(* The refinement                                                          *)
(***************************************************************************)
\* A holder's call that ends without storing a result loses it, if there is one,
\* and gives the key back.
LEMMA LosesOrGivesBack ==
    ASSUME TypeOK, HoldersOwn, NEW c \in Callers, Holds(c), StoredBy' = StoredBy,
           NEW f \in {"value", "action_error", "cancelled"}, Ends(c, "done", f)
    PROVE  Promise!LossyNext
<1>1. CASE f = "value"
  BY <1>1, Ended DEF Promise!LossyNext, Promise!Lose, Promise!Tell
<1>2. CASE f # "value"
  BY <1>2, GivesBack DEF Promise!LossyNext, Promise!Next
<1>3. QED
  BY <1>1, <1>2

LEMMA LossyServe ==
    ASSUME FailsClosed, FInv, NEW c \in Callers, Serve(c)
    PROVE  Promise!LossyNext \/ UNCHANGED Promise!vars
<1>1. /\ Steady(c, call[c], ren[c], store) /\ Sincere(call[c], store)
      /\ TypeOK /\ HoldersOwn
  BY HoldersOwnF DEF FInv
<1>2. CASE \/ ReserveCollides(c) \/ FindsNothing(c) \/ RefusesReuse(c)
           \/ FindsPending(c) \/ Wake(c)
  <2>1. /\ call[c].pc \in ClaimPcs /\ store' = store
        /\ \/ \E p \in ClaimPcs : Claiming(c, p)
           \/ \E f \in {"in_progress", "key_reuse"} : Ends(c, "done", f)
    BY <1>2 DEF ReserveCollides, FindsNothing, RefusesReuse, FindsPending, Wake, HasFound,
       Again, ClaimPcs
  <2>2. CASE \E p \in ClaimPcs : Claiming(c, p)
    BY <1>1, <2>1, <2>2, GoesOn
  <2>3. CASE \E f \in {"in_progress", "key_reuse"} : Ends(c, "done", f)
    BY <1>1, <2>1, <2>3, Refused DEF StoredBy, Promise!LossyNext, Promise!Next
  <2>4. QED
    BY <2>1, <2>2, <2>3
<1>3. CASE ReserveWins(c)
  BY <1>1, <1>3, Takes DEF Promise!LossyNext, Promise!Next
<1>4. CASE ReadStore(c) \/ JoinReturns(c)
  BY <1>1, <1>4, Quietly
<1>5. CASE FindsResult(c)
  <2>1. store.status = "completed" /\ call[c].seen.by = store.by
    BY <1>5, JudgedF DEF FindsResult, HasFound
  <2>2. QED
    BY <1>1, <1>5, <2>1, Answers DEF Promise!LossyNext, Promise!Next
<1>6. ~FindsExpired(c) /\ ~FindsLapsed(c) /\ ~FindsUnusable(c) /\ ~Purge(c)
  BY <1>1, JudgedF DEF FindsExpired, FindsLapsed, FindsUnusable, HasFound, Purge, Steady
<1>7. CASE CompleteSet(c)
  <2>1. call[c].pc = "completing" /\ call[c].fate = "value"
    BY <1>1, <1>7 DEF CompleteSet, Completing, Steady, Sincere, UnreservedPcs
  <2>2. QED
    BY <1>1, <1>7, <2>1, Finishes DEF Promise!LossyNext, Promise!Next
<1>8. CASE Release(c)
  <2>1. /\ Holds(c) /\ Ends(c, "done", call[c].fate)
        /\ call[c].fate \in {"value", "action_error", "cancelled"}
    BY <1>1, <1>8 DEF Release, Holds, HolderPcs, Sincere
  <2>2. StoredBy' = StoredBy
    BY <1>1, <1>8, <2>1 DEF Release, Deleted, StoredBy, None, Absent, HoldersOwn, OwnReservation
  <2>3. QED
    BY <1>1, <2>1, <2>2, LosesOrGivesBack
<1>9. QED
  BY <1>2, <1>3, <1>4, <1>5, <1>6, <1>7, <1>8 DEF Serve

LEMMA LossySuffer ==
    ASSUME FailsClosed, FInv, NEW c \in Callers, Suffer(c)
    PROVE  Promise!LossyNext \/ UNCHANGED Promise!vars
<1>1. /\ Steady(c, call[c], ren[c], store) /\ Sincere(call[c], store)
      /\ TypeOK /\ HoldersOwn /\ OnStorageError[c] = "raise"
  BY HoldersOwnF, Regime DEF FInv
<1>2. StoredBy' = StoredBy /\ store' = store
  BY DEF Suffer, FinishAction, ActionFails, CancelAction, Breaks, ReserveFails, ReserveRejected,
     ReadFails, PurgeFails, CancelClaim, CompleteFails, Unstorable, ReleaseFails, CancelJoin,
     CancelCleanup, RenewFails, Crash, StoredBy
<1>3. CASE FinishAction(c) \/ Breaks(c, "action_error") \/ Breaks(c, "cancelled")
  <2>1. call[c].pc = "running"
    BY <1>1, <1>3 DEF FinishAction, Breaks, Executing, Steady, UnreservedPcs
  <2>2. ASSUME NEW s, Become(c, s), s.pc = "joining" PROVE UNCHANGED Promise!vars
    <3>1. s.pc \in HolderPcs /\ Holds(c)
      BY <2>1, <2>2 DEF Holds, HolderPcs
    <3>2. QED
      BY <1>1, <1>2, <2>1, <2>2, <3>1, Stutters
  <2>3. ASSUME NEW f, Breaks(c, f) PROVE UNCHANGED Promise!vars
    BY <2>1, <2>2, <2>3 DEF Breaks, Ends, At
  <2>4. CASE FinishAction(c)
    BY <2>1, <2>2, <2>4 DEF FinishAction, At
  <2>5. QED
    BY <1>3, <2>3, <2>4
<1>4. CASE ReserveFails(c) \/ ReadFails(c)
  <2>1. call[c].pc \in ClaimPcs /\ Ends(c, "done", "storage_error")
    BY <1>1, <1>4 DEF ReserveFails, ReadFails, ClaimPcs, StorageFails
  <2>2. QED
    BY <1>1, <1>2, <2>1, Refused DEF Promise!LossyNext, Promise!Next
<1>5. CASE CancelClaim(c)
  <2> DEFINE s == [At(c, "done") EXCEPT !.fate = "cancelled", !.ran = call[c].ran]
  <2>1. Become(c, s) /\ s.pc = "done" /\ s.fate = "cancelled"
    BY <1>5 DEF CancelClaim, Ends, At
  <2> HIDE DEF s
  <2>2. ~Holds(c) /\ call[c].pc # "done"
    BY <1>5 DEF CancelClaim, Holds, HolderPcs, ClaimPcs
  <2>3. Holders' = Holders
    BY <1>1, <2>1, <2>2, Mapped DEF Holders, Holds, HolderPcs
  <2>4. HolderNow' = HolderNow /\ HolderNow # c
    BY <1>1, <2>2, <2>3, HeldBy DEF HolderNow
  <2>5. AllTold' = [AllTold EXCEPT ![c] = "failed"] /\ AllTold[c] = "nothing"
    BY <1>1, <2>1, <2>2, Mapped, NotTold
  <2>6. QED
    BY <1>2, <2>4, <2>5 DEF Promise!LossyNext, Promise!GiveUp, Promise!Tell
<1>6. CASE CompleteFails(c) \/ Unstorable(c)
  <2> DEFINE s == [At(c, "releasing") EXCEPT !.fate = call[c].fate, !.ran = call[c].ran]
  <2>1. call[c].pc = "completing"
    BY <1>1, <1>6 DEF CompleteFails, Unstorable, Completing, Steady, UnreservedPcs
  <2>2. Become(c, s) /\ s.pc = "releasing"
    BY <1>6, <2>1 DEF CompleteFails, Unstorable, NotStored, Ends, At
  <2> HIDE DEF s
  <2>3. s.pc \in HolderPcs /\ Holds(c)
    BY <2>1, <2>2 DEF Holds, HolderPcs
  <2>4. QED
    BY <1>1, <1>2, <2>1, <2>2, <2>3, Stutters
<1>7. CASE ReleaseFails(c) \/ CancelCleanup(c)
  <2>1. /\ Holds(c)
        /\ \E f \in {"value", "action_error", "cancelled"} : Ends(c, "done", f)
    BY <1>1, <1>7 DEF ReleaseFails, CancelCleanup, Completing, Steady, Holds, HolderPcs,
       UnreservedPcs, Sincere
  <2>2. QED
    BY <1>1, <1>2, <2>1, LosesOrGivesBack
<1>8. CASE RenewFails(c)
  BY <1>8 DEF RenewFails, Promise!vars, HolderNow, Holders, StoredBy, AllTold, Told
<1>9. CASE Crash(c)
  <2> DEFINE s == [At(c, "crashed") EXCEPT !.ran = call[c].ran]
  <2>1. Become(c, s) /\ s.pc = "crashed" /\ call[c].pc # "done"
    BY <1>9 DEF Crash, At
  <2> HIDE DEF s
  <2>2. CASE Holds(c)
    <3>1. Holders = {c} /\ HolderNow = c
      BY <1>1, <2>2, HeldBy
    <3>2. Holders' = {} /\ AllTold' = AllTold
      BY <1>1, <2>1, <3>1, Mapped, NotTold DEF HolderPcs
    <3>3. HolderNow' = Stranger
      BY <3>2 DEF HolderNow
    <3>4. QED
      BY <1>2, <3>1, <3>2, <3>3 DEF Promise!LossyNext, Promise!Lose
  <2>3. CASE ~Holds(c)
    BY <1>1, <1>2, <2>1, <2>3, Stutters DEF HolderPcs
  <2>4. QED
    BY <2>2, <2>3
<1>10. ~ReserveRejected(c) /\ ~PurgeFails(c) /\ ~CancelJoin(c)
  BY <1>1, Regime DEF ReserveRejected, PurgeFails, Steady, CancelJoin
<1>11. QED
  BY <1>3, <1>4, <1>5, <1>6, <1>7, <1>8, <1>9, <1>10 DEF Suffer, ActionFails, CancelAction

LEMMA LossyTick ==
    ASSUME FInv, Tick
    PROVE  Promise!Forget \/ UNCHANGED Promise!vars
<1>1. \A c \in Callers : /\ call'[c].pc = call[c].pc /\ call'[c].fate = call[c].fate
                         /\ call'[c].answer = call[c].answer
  BY DEF Tick, FInv, TypeOK, Calls
<1>2. Holders' = Holders /\ AllTold' = AllTold
  BY <1>1 DEF Holders, AllTold, Told
<1>3. HolderNow' = HolderNow
  BY <1>2 DEF HolderNow
<1>4. CASE store'.status = "absent" /\ store.status = "completed"
  <2>1. StoredBy # Stranger /\ StoredBy' = Stranger
    BY <1>4 DEF StoredBy, FInv, Usable
  <2>2. QED
    BY <1>2, <1>3, <2>1 DEF Promise!Forget
<1>5. CASE ~(store'.status = "absent" /\ store.status = "completed")
  <2>1. StoredBy' = StoredBy
    BY <1>5, TickKey DEF StoredBy
  <2>2. QED
    BY <1>2, <1>3, <2>1 DEF Promise!vars
<1>6. QED
  BY <1>4, <1>5

LEMMA LossyStep ==
    ASSUME FailsClosed PROVE FInv /\ [Next]_vars => [Promise!LossyNext]_(Promise!vars)
<1> SUFFICES ASSUME FInv, [Next]_vars PROVE Promise!LossyNext \/ UNCHANGED Promise!vars
  OBVIOUS
<1>1. CASE UNCHANGED vars
  BY <1>1 DEF vars, Promise!vars, HolderNow, Holders, StoredBy, AllTold, Told
<1>2. CASE Tick
  BY <1>2, LossyTick DEF Promise!LossyNext
<1>3. ASSUME NEW c \in Callers, Call(c) PROVE UNCHANGED Promise!vars
  BY <1>3, Quietly DEF FInv
<1>4. ASSUME NEW c \in Callers, ServeRenewal(c) PROVE UNCHANGED Promise!vars
  <2>1. Holds(c)
    BY <1>4 DEF ServeRenewal, RenewalDue, RenewSet, FInv, Steady, Holds, HolderPcs
  <2>2. store.status = "pending" /\ call' = call
    BY <1>4, <2>1, SoleHolder DEF ServeRenewal, RenewalDue, RenewSet
  <2>3. StoredBy' = StoredBy
    BY <1>4, <2>2 DEF ServeRenewal, RenewalDue, RenewSet, StoredBy, Pending, Written
  <2>4. QED
    BY <2>2, <2>3 DEF Promise!vars, HolderNow, Holders, AllTold, Told
<1>5. wire = {} /\ ~DirectSave /\ ~DirectDelete
  BY Regime DEF FInv, DirectSave, DirectDelete
<1>6. QED
  BY <1>1, <1>2, <1>3, <1>4, <1>5, LossyServe, LossySuffer DEF Next

LEMMA LossyInit == ASSUME FailsClosed, Init PROVE Promise!Init
<1>1. \A c \in Callers : call[c].pc = "idle"
  BY DEF Init, At
<1>2. Holders = {} /\ AllTold = [c \in Callers |-> "nothing"]
  BY <1>1 DEF Holders, HolderPcs, AllTold, Told
<1>3. PICK kind \in {"none", "result", "abandoned"} : store \in Leftover(kind)
  BY DEF FailsClosed, Init
<1>4. StoredBy \in {Stranger, Earlier}
  BY <1>3 DEF Leftover, StoredBy, None, Absent, Written
<1>5. QED
  BY <1>2, <1>4 DEF Promise!Init, HolderNow

\* On the same conditions coordinate() implements the lossy promise: an outage, a
\* cancellation or a crash may cost the result of an action or refuse a call, but
\* every call is still told one of its own outcome, a refusal, or the one result the
\* key holds, and nobody takes a key that is held or has a result.
THEOREM RefinesLossy == ASSUME FailsClosed PROVE Spec => ImplementsLossyOncePerKey
BY FInvInit, FInvNext, LossyInit, LossyStep, PTL
   DEF Spec, ImplementsLossyOncePerKey, Promise!LossySpec
==============================================================================
