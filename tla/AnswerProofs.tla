----------------------------- MODULE AnswerProofs -----------------------------
(***************************************************************************)
(* What Coordinator keeps under every fault: the results that can be read, *)
(* returned or still land are those of calls whose action has returned,    *)
(* none is told to a call with another fingerprint, and no call whose      *)
(* action has run is told one of the library's own errors.                 *)
(***************************************************************************)
EXTENDS CoordinatorProofs

Unreturned == {c \in Callers : call[c].ran # "ok"}

\* Whose results can be met under the key, and in the hand of a call.
Stored == IF store.status = "completed" THEN {store.by} ELSE {}
InHand(s) == IF s.seen.status = "completed" THEN {s.seen.by} ELSE {}
Sent(cmd) == IF cmd.op = "complete" THEN {cmd.by} ELSE {}

\* The errors of the library itself.
Refusals == {"in_progress", "key_reuse", "storage_error"}

\* The state s of the coroutine of c.
Sound(s, c) ==
    /\ s.pc \in ClaimPcs \union {"idle"} => s.ran = "no" /\ s.fate = "none"
    /\ s.pc \in {"completing", "completing_unreserved"} => s.ran = "ok"
    /\ s.pc # "done" /\ s.fate = "value" => s.ran = "ok"
    /\ s.fate \in Refusals => s.pc = "done" /\ s.ran = "no"
    /\ s.fate = "value" =>
          /\ s.answer \in Callers \union {Earlier}
          /\ ~Reuse(Fingerprint[s.answer], Fingerprint[c], NoFingerprint)

Trust ==
    /\ TypeOK
    /\ Stored \intersect Unreturned = {}
    /\ \A cmd \in wire : Sent(cmd) \intersect Unreturned = {}
    /\ \A c \in Callers :
          /\ Sound(call[c], c)
          /\ InHand(call[c]) \intersect Unreturned = {}
          /\ call[c].fate = "value" => call[c].answer \notin Unreturned

------------------------------------------------------------------------------
\* A step of one call, to the state s.
LEMMA OneCallTrust ==
    ASSUME Trust, NEW c \in Callers, NEW s \in Calls, Become(c, s), TypeOK',
           call[c].ran = "ok" => s.ran = "ok", Sound(s, c),
           Stored' \subseteq Stored \union (IF s.ran = "ok" THEN {c} ELSE {}),
           \A cmd \in wire' : cmd \in wire \/ Sent(cmd) \subseteq (IF s.ran = "ok" THEN {c} ELSE {}),
           InHand(s) \subseteq InHand(call[c]) \union Stored,
           s.fate = "value" => \/ s.answer \in InHand(call[c])
                               \/ s.answer = c /\ s.ran = "ok"
    PROVE  Trust'
<1>1. call'[c] = s /\ \A d \in Callers \ {c} : call'[d] = call[d]
  BY DEF Become, Trust, TypeOK
<1>2. Unreturned' \subseteq Unreturned /\ (s.ran = "ok" => c \notin Unreturned')
  BY <1>1 DEF Unreturned
<1>3. Stored' \intersect Unreturned' = {}
  BY <1>2 DEF Trust
<1>4. \A cmd \in wire' : Sent(cmd) \intersect Unreturned' = {}
  BY <1>2 DEF Trust
<1>5. ASSUME NEW d \in Callers
      PROVE  /\ Sound(call'[d], d)
             /\ InHand(call'[d]) \intersect Unreturned' = {}
             /\ call'[d].fate = "value" => call'[d].answer \notin Unreturned'
  <2>1. CASE d # c
    BY <1>1, <1>2, <2>1 DEF Trust
  <2>2. CASE d = c
    <3>1. InHand(s) \intersect Unreturned' = {}
      BY <1>2 DEF Trust
    <3>2. s.fate = "value" => s.answer \notin Unreturned'
      BY <1>2 DEF Trust
    <3>3. QED
      BY <1>1, <2>2, <3>1, <3>2
  <2>3. QED
    BY <2>1, <2>2
<1>6. QED
  BY <1>3, <1>4, <1>5 DEF Trust, Sent

\* The commands a call leaves behind carry a result only if its action returned.
LEMMA SentOwn ==
    ASSUME Trust, NEW c \in Callers, NEW S \in SUBSET (Outstanding(c) \union Renewing(c)),
           Abandons(S)
    PROVE  \A cmd \in wire' : \/ cmd \in wire
                              \/ Sent(cmd) \subseteq (IF call[c].ran = "ok" THEN {c} ELSE {})
<1> SUFFICES ASSUME NEW cmd \in wire', cmd \notin wire
             PROVE  Sent(cmd) \subseteq (IF call[c].ran = "ok" THEN {c} ELSE {})
  OBVIOUS
<1>1. cmd \in Outstanding(c) \/ cmd \in Renewing(c)
  BY DEF Abandons
<1>2. CASE cmd \in Renewing(c)
  BY <1>2 DEF Renewing, Command, Sent
<1>3. CASE cmd \in Outstanding(c)
  <2>1. CASE call[c].pc \in {"completing", "completing_unreserved"}
    <3>1. call[c].ran = "ok"
      BY <2>1 DEF Trust, Sound
    <3>2. cmd.by = c
      BY <1>3, <2>1 DEF Outstanding, Command
    <3>3. QED
      BY <3>1, <3>2 DEF Sent
  <2>2. CASE call[c].pc \notin {"completing", "completing_unreserved"}
    BY <1>3, <2>2 DEF Outstanding, Command, Sent
  <2>3. QED
    BY <2>1, <2>2
<1>4. QED
  BY <1>1, <1>2, <1>3

\* What a coroutine has in hand after a step that hands it nothing.
LEMMA FreshState ==
    ASSUME TypeOK, NEW c \in Callers, NEW p \in Pcs, NEW d \in 0..Lease,
           NEW f \in Fates, NEW r \in {"no", "started", "ok"}, NEW x \in Authors
    PROVE  /\ [At(c, p) EXCEPT !.dl = d] \in Calls /\ [At(c, p) EXCEPT !.ran = r] \in Calls
           /\ [At(c, p) EXCEPT !.fate = f, !.ran = r] \in Calls
           /\ [At(c, p) EXCEPT !.fate = f, !.answer = x] \in Calls
           /\ InHand([At(c, p) EXCEPT !.dl = d]) = {}
           /\ InHand([At(c, p) EXCEPT !.ran = r]) = {}
           /\ InHand([At(c, p) EXCEPT !.fate = f, !.ran = r]) = {}
           /\ InHand([At(c, p) EXCEPT !.fate = f, !.answer = x]) = {}
BY CallTyped DEF InHand, At, None, Absent

\* A claim that goes on, or gives way to the action.
LEMMA ClaimTrust ==
    ASSUME Trust, NEW c \in Callers, TypeOK', call[c].pc \in ClaimPcs \union {"idle"},
           NEW p \in ClaimPcs \union {"running", "running_unreserved"},
           \/ p \in ClaimPcs /\ \E d \in 0..Lease : Become(c, [At(c, p) EXCEPT !.dl = d])
           \/ p \notin ClaimPcs /\ Become(c, [At(c, p) EXCEPT !.ran = "started"]),
           Stored' \subseteq Stored,
           \A cmd \in wire' : cmd \in wire \/ Sent(cmd) = {}
    PROVE  Trust'
<1>1. /\ call[c].ran = "no" /\ TypeOK /\ p \in Pcs /\ c \in Authors /\ "none" \in Fates
      /\ 0 \in 0..Lease
  BY TimingAssumption DEF Trust, Sound, Pcs, HolderPcs, UnreservedPcs, Authors, Fates
<1>2. ASSUME p \in ClaimPcs, NEW d \in 0..Lease, Become(c, [At(c, p) EXCEPT !.dl = d])
      PROVE  Trust'
  <2> DEFINE s == [At(c, p) EXCEPT !.dl = d]
  <2>1. s \in Calls /\ InHand(s) = {} /\ s.ran = "no" /\ s.fate = "none" /\ s.pc = p
    BY <1>1, FreshState DEF At
  <2> HIDE DEF s
  <2>2. Sound(s, c)
    BY <2>1, <1>2 DEF Sound, Refusals, ClaimPcs
  <2>3. Become(c, s)
    BY <1>2 DEF s
  <2>4. QED
    BY <1>1, <2>1, <2>2, <2>3, OneCallTrust
<1>3. ASSUME p \notin ClaimPcs, Become(c, [At(c, p) EXCEPT !.ran = "started"])
      PROVE  Trust'
  <2> DEFINE s == [At(c, p) EXCEPT !.ran = "started"]
  <2>1. s \in Calls /\ InHand(s) = {} /\ s.ran = "started" /\ s.fate = "none" /\ s.pc = p
    BY <1>1, FreshState DEF At
  <2> HIDE DEF s
  <2>2. Sound(s, c)
    BY <2>1, <1>3 DEF Sound, Refusals, ClaimPcs
  <2>3. Become(c, s)
    BY <1>3 DEF s
  <2>4. QED
    BY <1>1, <2>1, <2>2, <2>3, OneCallTrust
<1>4. QED
  BY <1>2, <1>3

\* A call that ends, or goes on to its last requests, with the outcome f.
LEMMA EndsTrust ==
    ASSUME Trust, NEW c \in Callers, TypeOK',
           NEW p \in {"done", "joining", "completing", "releasing"}, NEW f \in Fates,
           Ends(c, p, f), f = "value" \/ p = "completing" => call[c].ran = "ok",
           f \in Refusals => p = "done" /\ call[c].ran = "no",
           Stored' \subseteq Stored \union (IF call[c].ran = "ok" THEN {c} ELSE {}),
           \A cmd \in wire' : \/ cmd \in wire
                              \/ Sent(cmd) \subseteq (IF call[c].ran = "ok" THEN {c} ELSE {})
    PROVE  Trust'
<1> DEFINE s == [At(c, p) EXCEPT !.fate = f, !.ran = call[c].ran]
<1>1. /\ TypeOK /\ p \in Pcs /\ c \in Authors /\ call[c].ran \in {"no", "started", "ok"}
      /\ 0 \in 0..Lease
  BY TimingAssumption DEF Trust, TypeOK, Calls, Pcs, HolderPcs, Authors
<1>2. /\ s \in Calls /\ InHand(s) = {} /\ s.pc = p /\ s.fate = f /\ s.ran = call[c].ran
      /\ s.answer = c
  BY <1>1, FreshState DEF At
<1>3. Become(c, s)
  BY DEF Ends
<1> HIDE DEF s
<1>4. Sound(s, c)
  BY <1>2 DEF Sound, ClaimPcs, Reuse
<1>5. QED
  BY <1>2, <1>3, <1>4, OneCallTrust

\* The outcomes of a read or a write of the claim.
LEMMA OutcomeTrust ==
    ASSUME Trust, NEW c \in Callers, TypeOK', call[c].pc \in ClaimPcs,
           \/ Again(c) \/ StorageFails(c) \/ RunsUnreserved(c)
           \/ \E p \in ClaimPcs : Claiming(c, p)
           \/ \E f \in Fates \ {"value"} : Ends(c, "done", f),
           Stored' \subseteq Stored,
           \A cmd \in wire' : cmd \in wire \/ Sent(cmd) = {}
    PROVE  Trust'
<1>1. call[c].dl \in 0..Lease
  BY DEF Trust, TypeOK, Calls
<1>2. ASSUME NEW p \in ClaimPcs, Claiming(c, p) PROVE Trust'
  BY <1>1, <1>2, ClaimTrust DEF Claiming
<1>3. ASSUME NEW f \in Fates \ {"value"}, Ends(c, "done", f) PROVE Trust'
  BY <1>3, EndsTrust DEF Trust, Sound
<1>4. CASE RunsUnreserved(c)
  BY <1>4, ClaimTrust DEF RunsUnreserved, ClaimPcs
<1>5. QED
  BY <1>2, <1>3, <1>4 DEF Again, StorageFails, ClaimPcs, Fates

\* Writes that leave no result of a call behind.
LEMMA NoResult ==
    ASSUME TypeOK, NEW c \in Callers, NEW age \in 0..Lease
    PROVE  /\ store' = Pending(c, age) => Stored' = {}
           /\ store' = SetNX(store, Pending(c, age)) => Stored' \subseteq Stored
           /\ store' = Deleted(store, c) => Stored' \subseteq Stored
           /\ store' = store => Stored' = Stored
           /\ store' = Result(c, age) => Stored' = {c}
BY DEF Stored, Pending, Result, Written, SetNX, Deleted, None, Absent

\* An abandoned command of the claim carries no result.
LEMMA ClaimSends ==
    ASSUME Trust, NEW c \in Callers, call[c].pc \in ClaimPcs, Abandons(Outstanding(c))
    PROVE  \A cmd \in wire' : cmd \in wire \/ Sent(cmd) = {}
<1>1. call[c].ran # "ok"
  BY DEF Trust, Sound
<1>2. QED
  BY <1>1, SentOwn

LEMMA ServeTrust ==
    ASSUME Trust, NEW c \in Callers, Serve(c)
    PROVE  Trust'
<1>1. /\ TypeOK /\ TypeOK' /\ call[c] \in Calls /\ c \in Authors /\ Sound(call[c], c)
      /\ call[c].age \in 0..Lease
  BY ServeTyped DEF Trust, TypeOK, Authors, Calls
<1>2. CASE ReserveWins(c)
  <2>1. Stored' \subseteq Stored
    BY <1>1, <1>2, NoResult DEF ReserveWins
  <2>2. QED
    BY <1>1, <1>2, <2>1, ClaimTrust DEF ReserveWins, ClaimPcs
<1>3. CASE \/ ReserveCollides(c) \/ FindsNothing(c) \/ FindsExpired(c) \/ FindsLapsed(c)
           \/ RefusesReuse(c) \/ FindsPending(c) \/ FindsUnusable(c) \/ Wake(c)
  <2>1. /\ call[c].pc \in ClaimPcs /\ store' = store /\ wire' = wire
        /\ \/ Again(c) \/ RunsUnreserved(c) \/ \E p \in ClaimPcs : Claiming(c, p)
           \/ \E f \in Fates \ {"value"} : Ends(c, "done", f)
    BY <1>3 DEF ReserveCollides, FindsNothing, FindsExpired, FindsLapsed, RefusesReuse,
       FindsPending, FindsUnusable, Wake, HasFound, ClaimPcs, Fates
  <2>2. Stored' \subseteq Stored
    BY <1>1, <2>1, NoResult
  <2>3. QED
    BY <1>1, <2>1, <2>2, OutcomeTrust
<1>4. CASE Purge(c)
  <2>1. Stored' \subseteq Stored
    BY <1>1, <1>4, NoResult DEF Purge
  <2>2. QED
    BY <1>1, <1>4, <2>1, OutcomeTrust DEF Purge, ClaimPcs
<1>5. CASE ReadStore(c)
  <2> DEFINE s == [call[c] EXCEPT !.pc = "judging", !.seen = Read(c)]
  <2>1. Read(c) \in Records
    <3>1. [store EXCEPT !.ttl = 0] \in Records
      BY <1>1, TimingAssumption DEF Records, TypeOK
    <3>2. QED
      BY <3>1, NoneTyped DEF Read
  <2>2. /\ s \in Calls /\ s.pc = "judging" /\ s.ran = call[c].ran /\ s.fate = call[c].fate
        /\ s.answer = call[c].answer /\ s.seen = Read(c)
    BY <1>1, <2>1 DEF Calls, Pcs, ClaimPcs
  <2>3. call[c].ran = "no" /\ call[c].fate = "none"
    BY <1>1, <1>5 DEF ReadStore, Sound, ClaimPcs
  <2>4. Become(c, s)
    BY <1>1, <1>5 DEF ReadStore, Become, TypeOK
  <2>5. Stored' = Stored /\ wire' = wire
    BY <1>5 DEF ReadStore, Stored
  <2> HIDE DEF s
  <2>6. InHand(s) \subseteq Stored
    BY <1>1, <2>2 DEF InHand, Read, Stored, TypeOK, Records, None, Absent
  <2>7. Sound(s, c)
    BY <2>2, <2>3 DEF Sound, Refusals
  <2>8. QED
    BY <1>1, <2>2, <2>3, <2>4, <2>5, <2>6, <2>7, OneCallTrust
<1>6. CASE FindsResult(c)
  <2> DEFINE x == call[c].seen.by
             s == [At(c, "done") EXCEPT !.fate = "value", !.answer = x]
  <2>1. x \in Callers \union {Earlier} /\ x \in InHand(call[c])
    BY <1>1, <1>6 DEF FindsResult, HasFound, Calls, Records, Authors, InHand
  <2>2. "done" \in Pcs /\ "value" \in Fates /\ x \in Authors /\ 0 \in 0..Lease
    BY <2>1, TimingAssumption DEF Pcs, Fates, Authors
  <2>3. call[c].ran = "no" /\ ~Reuse(Fingerprint[x], Fingerprint[c], NoFingerprint)
    BY <1>1, <1>6 DEF FindsResult, HasFound, Sound, ClaimPcs, IsReuse
  <2>4. Become(c, s) /\ Stored' = Stored /\ wire' = wire
    BY <1>6 DEF FindsResult, Stored
  <2> HIDE DEF x
  <2>5. /\ s \in Calls /\ InHand(s) = {} /\ s.pc = "done" /\ s.fate = "value" /\ s.answer = x
        /\ s.ran = "no"
    BY <1>1, <2>2, FreshState DEF At
  <2> HIDE DEF s
  <2>6. Sound(s, c)
    BY <2>1, <2>3, <2>5 DEF Sound, ClaimPcs
  <2>7. QED
    BY <1>1, <2>1, <2>3, <2>4, <2>5, <2>6, OneCallTrust
<1>7. CASE JoinReturns(c)
  <2>1. call[c].fate \in Fates /\ (call[c].fate = "value" => call[c].ran = "ok")
    BY <1>1, <1>7 DEF JoinReturns, Sound, Calls
  <2>2. Stored' = Stored /\ wire' = wire
    BY <1>7 DEF JoinReturns, Stored
  <2>3. QED
    BY <1>1, <1>7, <2>1, <2>2, EndsTrust DEF JoinReturns, Sound, Refusals
<1>8. CASE CompleteSet(c)
  <2>1. call[c].fate \in Fates /\ call[c].ran = "ok"
    BY <1>1, <1>8 DEF CompleteSet, Completing, Sound, Calls
  <2>2. Stored' = {c} /\ wire' = wire
    BY <1>1, <1>8, NoResult DEF CompleteSet
  <2>3. QED
    BY <1>1, <1>8, <2>1, <2>2, EndsTrust DEF CompleteSet, Completing, Sound, Refusals
<1>9. CASE Release(c)
  <2>1. call[c].fate \in Fates /\ (call[c].fate = "value" => call[c].ran = "ok")
    BY <1>1, <1>9 DEF Release, Sound, Calls
  <2>2. Stored' \subseteq Stored /\ wire' = wire
    BY <1>1, <1>9, NoResult DEF Release
  <2>3. QED
    BY <1>1, <1>9, <2>1, <2>2, EndsTrust DEF Release, Sound, Refusals
<1>10. QED
  BY <1>2, <1>3, <1>4, <1>5, <1>6, <1>7, <1>8, <1>9 DEF Serve

LEMMA SufferTrust ==
    ASSUME Trust, NEW c \in Callers, Suffer(c)
    PROVE  Trust'
<1>1. /\ TypeOK /\ TypeOK' /\ call[c] \in Calls /\ c \in Authors /\ Sound(call[c], c)
      /\ call[c].fate \in Fates
  BY SufferTyped DEF Trust, TypeOK, Authors, Calls
<1>2. store' = store
  BY DEF Suffer, FinishAction, ActionFails, CancelAction, Breaks, ReserveFails, ReserveRejected,
     ReadFails, PurgeFails, CancelClaim, CompleteFails, Unstorable, ReleaseFails, CancelJoin,
     CancelCleanup, RenewFails, Crash
<1>3. Stored' = Stored
  BY <1>2 DEF Stored
<1>4. CASE FinishAction(c)
  <2> DEFINE p == IF call[c].pc = "running" THEN "joining" ELSE "completing_unreserved"
             s == [At(c, p) EXCEPT !.fate = "value", !.ran = "ok"]
  <2>1. p \in Pcs /\ p \notin ClaimPcs \union {"idle"} /\ 0 \in 0..Lease /\ "value" \in Fates
    BY TimingAssumption DEF Pcs, HolderPcs, UnreservedPcs, ClaimPcs, Fates
  <2>2. Become(c, s) /\ wire' = wire
    BY <1>4 DEF FinishAction
  <2> HIDE DEF p
  <2>3. /\ s \in Calls /\ InHand(s) = {} /\ s.pc = p /\ s.fate = "value" /\ s.answer = c
        /\ s.ran = "ok"
    BY <1>1, <2>1, FreshState DEF At
  <2> HIDE DEF s
  <2>4. Sound(s, c)
    BY <2>1, <2>3 DEF Sound, Refusals, Reuse
  <2>5. QED
    BY <1>1, <1>3, <2>2, <2>3, <2>4, OneCallTrust
<1>5. CASE ActionFails(c) \/ CancelAction(c)
  <2>1. /\ Ends(c, "joining", "action_error") \/ Ends(c, "done", "action_error")
           \/ Ends(c, "joining", "cancelled") \/ Ends(c, "done", "cancelled")
        /\ wire' = wire
    BY <1>5 DEF ActionFails, CancelAction, Breaks
  <2>2. QED
    BY <1>1, <1>3, <2>1, EndsTrust DEF Fates, Refusals
<1>6. CASE ReserveFails(c) \/ ReserveRejected(c) \/ ReadFails(c) \/ PurgeFails(c) \/ CancelClaim(c)
  <2>1. /\ call[c].pc \in ClaimPcs
        /\ wire' = wire \/ Abandons(Outstanding(c))
        /\ \/ Again(c) \/ StorageFails(c) \/ RunsUnreserved(c) \/ Ends(c, "done", "cancelled")
    BY <1>6 DEF ReserveFails, ReserveRejected, ReadFails, PurgeFails, CancelClaim, ClaimPcs
  <2>2. \A cmd \in wire' : cmd \in wire \/ Sent(cmd) = {}
    BY <2>1, ClaimSends
  <2>3. "cancelled" \in Fates \ {"value"}
    BY DEF Fates
  <2>4. QED
    BY <1>1, <1>3, <2>1, <2>2, <2>3, OutcomeTrust
<1>7. CASE CompleteFails(c) \/ Unstorable(c) \/ ReleaseFails(c) \/ CancelJoin(c) \/ CancelCleanup(c)
  <2>1. (call[c].fate = "value" => call[c].ran = "ok") /\ call[c].fate \notin Refusals
    BY <1>1, <1>7 DEF Sound, CompleteFails, Unstorable, ReleaseFails, CancelJoin, CancelCleanup,
       Completing
  <2>2. \/ \E p \in {"done", "releasing"} : Ends(c, p, call[c].fate)
        \/ \E p \in {"done", "releasing"} : Ends(c, p, "cancelled")
    BY <1>7 DEF CompleteFails, Unstorable, ReleaseFails, CancelJoin, CancelCleanup, NotStored
  <2>3. wire' = wire \/ Abandons(Outstanding(c))
    BY <1>7 DEF CompleteFails, Unstorable, ReleaseFails, CancelJoin, CancelCleanup
  <2>4. \A cmd \in wire' : \/ cmd \in wire
                           \/ Sent(cmd) \subseteq (IF call[c].ran = "ok" THEN {c} ELSE {})
    BY <2>3, SentOwn
  <2>5. QED
    BY <1>1, <1>3, <2>1, <2>2, <2>4, EndsTrust DEF Fates, Refusals
<1>8. CASE RenewFails(c)
  <2>1. call' = call /\ Abandons(Renewing(c))
    BY <1>8 DEF RenewFails
  <2>2. \A cmd \in wire' : cmd \in wire \/ Sent(cmd) = {}
    BY <2>1 DEF Abandons, Renewing, Command, Sent
  <2>3. QED
    BY <1>1, <1>3, <2>1, <2>2 DEF Trust, Unreturned
<1>9. CASE Crash(c)
  <2> DEFINE s == [At(c, "crashed") EXCEPT !.ran = call[c].ran]
  <2>1. Become(c, s) /\ Abandons(Outstanding(c) \union Renewing(c))
    BY <1>9 DEF Crash
  <2>2. /\ s \in Calls /\ InHand(s) = {} /\ s.pc = "crashed" /\ s.fate = "none"
        /\ s.ran = call[c].ran
    <3>1. /\ "crashed" \in Pcs /\ 0 \in 0..Lease
          /\ call[c].ran \in {"no", "started", "ok"}
      BY <1>1, TimingAssumption DEF Pcs, Calls
    <3>2. QED
      BY <1>1, <3>1, FreshState DEF At
  <2> HIDE DEF s
  <2>3. Sound(s, c)
    BY <2>2 DEF Sound, Refusals, ClaimPcs
  <2>4. QED
    BY <1>1, <1>3, <2>1, <2>2, <2>3, SentOwn, OneCallTrust
<1>10. QED
  BY <1>4, <1>5, <1>6, <1>7, <1>8, <1>9 DEF Suffer

\* A command that lands late brings the result of an action that has returned.
LEMMA LandTrust ==
    ASSUME Trust, NEW cmd \in wire, Land(cmd)
    PROVE  Trust'
<1>1. /\ TypeOK' /\ TypeOK /\ call' = call /\ wire' \subseteq wire
      /\ cmd.op \in {"reserve", "renew", "complete", "delete"}
      /\ cmd.by \in Callers /\ cmd.age \in 0..Lease
  BY LandTyped DEF Trust, TypeOK, Land, Commands
<1>2. Unreturned' = Unreturned
  BY <1>1 DEF Unreturned
<1>3. Stored' \subseteq Stored \union Sent(cmd)
  BY <1>1, NoResult DEF Land, Apply, Sent
<1>4. Stored' \intersect Unreturned = {}
  BY <1>3 DEF Trust
<1>5. QED
  BY <1>1, <1>2, <1>4 DEF Trust

\* The clock and the application's own writes bring no result of a call.
LEMMA TickTrust ==
    ASSUME Trust, Tick
    PROVE  Trust'
<1>1. TypeOK /\ TypeOK'
  BY TickTyped DEF Trust
<1>2. Stored' \subseteq Stored
  BY <1>1 DEF Tick, Stored, Elapse, Absent, TypeOK, Records
<1>3. ASSUME NEW c \in Callers
      PROVE  /\ call'[c].ran = call[c].ran /\ call'[c].pc = call[c].pc
             /\ call'[c].fate = call[c].fate /\ call'[c].answer = call[c].answer
             /\ InHand(call'[c]) = InHand(call[c])
  <2>1. call[c] \in Calls /\ call[c].seen \in Records
    BY <1>1 DEF TypeOK, Calls
  <2>2. call'[c] = [call[c] EXCEPT
              !.age = IF call[c].pc \in RequestPcs THEN Longer(@) ELSE @,
              !.dl = Minus(@, 1), !.seen = Older(@)]
    BY DEF Tick
  <2>3. /\ Older(call[c].seen).status = call[c].seen.status
        /\ Older(call[c].seen).by = call[c].seen.by
    BY <2>1 DEF Older, Records
  <2>4. QED
    BY <2>1, <2>2, <2>3 DEF Calls, InHand
<1>4. Unreturned' = Unreturned
  BY <1>3 DEF Unreturned
<1>5. \A cmd \in wire' : Sent(cmd) \intersect Unreturned' = {}
  <2> SUFFICES ASSUME NEW cmd \in wire PROVE Sent([cmd EXCEPT !.age = Longer(@)]) \subseteq Sent(cmd)
    BY <1>4 DEF Tick, Trust
  <2>1. cmd \in Commands
    BY <1>1 DEF TypeOK
  <2>2. QED
    BY <2>1 DEF Sent, Commands
<1>6. ASSUME NEW c \in Callers
      PROVE  /\ Sound(call'[c], c)
             /\ InHand(call'[c]) \intersect Unreturned' = {}
             /\ call'[c].fate = "value" => call'[c].answer \notin Unreturned'
  BY <1>3, <1>4 DEF Trust, Sound
<1>7. QED
  BY <1>1, <1>2, <1>4, <1>5, <1>6 DEF Trust

LEMMA OthersTrust ==
    ASSUME Trust, UNCHANGED vars \/ DirectSave \/ DirectDelete
    PROVE  Trust'
<1>1. TypeOK' /\ Earlier \notin Unreturned
  BY NextTyped, CallersAssumption DEF Trust, Next, Unreturned
<1>2. Stored' \subseteq Stored \union {Earlier}
  BY DEF vars, DirectSave, DirectDelete, Stored, SetNX, Written, None, Absent
<1>3. call' = call /\ wire' = wire
  BY DEF vars, DirectSave, DirectDelete
<1>4. QED
  BY <1>1, <1>2, <1>3 DEF Trust, Unreturned

LEMMA CallTrust ==
    ASSUME Trust, NEW c \in Callers, Call(c) \/ ServeRenewal(c)
    PROVE  Trust'
<1>1. TypeOK /\ TypeOK'
  BY CallStepTyped, ServeRenewalTyped DEF Trust
<1>2. CASE Call(c)
  <2>1. "reserving" \in ClaimPcs /\ Lease \in 0..Lease
    BY TimingAssumption DEF ClaimPcs
  <2>2. Stored' = Stored
    BY <1>2 DEF Call, Stored
  <2>3. QED
    BY <1>1, <1>2, <2>1, <2>2, ClaimTrust DEF Call
<1>3. CASE ServeRenewal(c)
  <2>1. call' = call /\ wire' = wire
    BY <1>3 DEF ServeRenewal, RenewalDue, RenewSet
  <2>2. ren[c].age \in 0..Lease
    BY <1>1 DEF TypeOK, Renewals
  <2>3. Stored' \subseteq Stored
    BY <1>1, <1>3, <2>2, NoResult DEF ServeRenewal, RenewalDue, RenewSet
  <2>4. QED
    BY <1>1, <2>1, <2>3 DEF Trust, Unreturned
<1>4. QED
  BY <1>2, <1>3

LEMMA TrustInit == Init => Trust
<1> SUFFICES ASSUME Init PROVE Trust
  OBVIOUS
<1>1. TypeOK
  BY InitTyped
<1>2. Stored \intersect Callers = {}
  BY CallersAssumption, FaultsAssumption
  DEF Init, Stored, Leftover, Written, None, Absent
<1>3. ASSUME NEW c \in Callers
      PROVE  Sound(call[c], c) /\ InHand(call[c]) = {} /\ call[c].fate = "none"
  BY DEF Init, At, Sound, Refusals, InHand, None, Absent
<1>4. QED
  BY <1>1, <1>2, <1>3 DEF Trust, Init, Unreturned

LEMMA TrustNext == Trust /\ [Next]_vars => Trust'
BY CallTrust, ServeTrust, SufferTrust, LandTrust, TickTrust, OthersTrust DEF Next

LEMMA TrustCorrect == Spec => []Trust
BY TrustInit, TrustNext, PTL DEF Spec

------------------------------------------------------------------------------
\* FingerprintRespected, for every set of callers, every timing and whatever
\* goes wrong: no call is told the result of a request with another fingerprint.
THEOREM FingerprintsHold == Spec => []FingerprintRespected
<1>1. Trust => FingerprintRespected
  BY DEF Trust, Sound, FingerprintRespected
<1>2. QED
  BY <1>1, TrustCorrect, PTL

\* HonestAnswer, under the same conditions: every result told is one that an
\* action returned, however late, lost or repeated the writes are.
THEOREM AnswersAreHonest == Spec => []HonestAnswer
<1>1. Trust => HonestAnswer
  BY DEF Trust, Sound, HonestAnswer, Unreturned
<1>2. QED
  BY <1>1, TrustCorrect, PTL

\* ErrorsMeanNotRun, under the same conditions: a caller that is refused or told
\* that the store is down may try again, its action has not run.
THEOREM ErrorsAreSafe == Spec => []ErrorsMeanNotRun
<1>1. Trust => ErrorsMeanNotRun
  BY DEF Trust, Sound, Refusals, ErrorsMeanNotRun
<1>2. QED
  BY <1>1, TrustCorrect, PTL
==============================================================================
