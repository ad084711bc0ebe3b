--------------------------- MODULE UnreservedProofs ---------------------------
(***************************************************************************)
(* Theorems about UnreservedFlow, for every set of callers.                *)
(***************************************************************************)
EXTENDS UnreservedFlow, TLAPS

------------------------------------------------------------------------------
(***************************************************************************)
(* Type correctness, whatever goes wrong                                   *)
(***************************************************************************)
LEMMA BecomesTyped ==
    ASSUME TypeOK, NEW c \in Callers, NEW s \in Calls, Becomes(c, s)
    PROVE  call' \in [Callers -> Calls]
BY DEF TypeOK, Becomes

\* The states the steps of c put its coroutine in.
LEMMA StatesTyped ==
    ASSUME TypeOK, NEW c \in Callers
    PROVE  /\ call[c] \in Calls /\ c \in Authors
           /\ \A p \in Pcs : Goes(c, p) => call' \in [Callers -> Calls]
           /\ \A f \in Fates, x \in Authors : Ends(c, f, x) => call' \in [Callers -> Calls]
           /\ KeepsOwn(c) => call' \in [Callers -> Calls]
           /\ Misses(c) => call' \in [Callers -> Calls]
<1>1. call[c] \in Calls /\ c \in Authors
  BY DEF TypeOK, Authors
<1>2. ASSUME NEW p \in Pcs, Goes(c, p) PROVE call' \in [Callers -> Calls]
  BY <1>1, <1>2, BecomesTyped DEF Goes, Calls
<1>3. ASSUME NEW f \in Fates, NEW x \in Authors, Ends(c, f, x)
      PROVE  call' \in [Callers -> Calls]
  <2>1. [call[c] EXCEPT !.pc = "done", !.seen = Nobody, !.fate = f, !.answer = x] \in Calls
    BY <1>1 DEF Calls, Pcs
  <2>2. QED
    BY <1>3, <2>1, BecomesTyped DEF Ends
<1>4. KeepsOwn(c) => call' \in [Callers -> Calls]
  BY <1>1, <1>3 DEF KeepsOwn, Fates
<1>5. Runs(c) => call' \in [Callers -> Calls]
  <2>1. [call[c] EXCEPT !.pc = "running", !.seen = Nobody, !.ran = "started"] \in Calls
    BY <1>1 DEF Calls, Pcs
  <2>2. QED
    BY <2>1, BecomesTyped DEF Runs
<1>6. QED
  BY <1>1, <1>2, <1>3, <1>4, <1>5 DEF Misses

LEMMA AbandonsTyped ==
    ASSUME TypeOK, NEW c \in Callers, Abandons(c)
    PROVE  wire' \subseteq Commands
<1>1. Outstanding(c) \subseteq Commands
  BY DEF Outstanding, Commands
<1>2. QED
  BY <1>1 DEF TypeOK, Abandons

LEMMA StepTyped ==
    ASSUME TypeOK, NEW c \in Callers, Step(c)
    PROVE  TypeOK'
<1> USE StatesTyped, AbandonsTyped
<1>1. CASE Call(c) \/ FindsExpired(c) \/ SaveCollides(c) \/ Crash(c)
  BY <1>1 DEF TypeOK, Call, FindsExpired, SaveCollides, Crash, Pcs
<1>2. CASE ReadStore(c)
  <2>1. [call[c] EXCEPT !.pc = "judging", !.seen = Read(c)] \in Calls
    BY DEF TypeOK, Calls, Pcs, Read
  <2>2. QED
    BY <1>2, <2>1, BecomesTyped DEF ReadStore, TypeOK
<1>3. CASE FinishAction(c)
  <2>1. [call[c] EXCEPT !.pc = "saving", !.ran = "ok"] \in Calls
    BY DEF TypeOK, Calls, Pcs
  <2>2. QED
    BY <1>3, <2>1, BecomesTyped DEF FinishAction, TypeOK
<1>4. CASE FindsNothing(c) \/ Purge(c) \/ PurgeFails(c) \/ FindsUnusable(c)
  BY <1>4 DEF TypeOK, FindsNothing, Purge, PurgeFails, FindsUnusable
<1>5. CASE ReadFails(c) \/ FindsReuse(c)
  BY <1>5 DEF TypeOK, ReadFails, FindsReuse, Fates
<1>6. CASE FindsResult(c)
  BY <1>6 DEF TypeOK, FindsResult, HasFound, Fates
<1>7. CASE ActionFails(c) \/ Cancel(c)
  BY <1>7 DEF TypeOK, ActionFails, Cancel, Fates
<1>8. CASE SaveWins(c) \/ SaveFails(c) \/ Unstorable(c)
  BY <1>8 DEF TypeOK, SaveWins, SaveFails, Unstorable
<1>9. QED
  BY <1>1, <1>2, <1>3, <1>4, <1>5, <1>6, <1>7, <1>8 DEF Step

LEMMA LandTyped ==
    ASSUME TypeOK, NEW cmd \in wire, Land(cmd)
    PROVE  TypeOK'
<1>1. cmd.by \in Callers
  BY DEF TypeOK, Commands
<1>2. QED
  BY <1>1 DEF TypeOK, Land, Authors

LEMMA OthersTyped ==
    ASSUME TypeOK, OthersReserve \/ OthersComplete \/ OthersDelete
    PROVE  TypeOK'
BY DEF TypeOK, OthersReserve, OthersComplete, OthersDelete, Authors

LEMMA NextTyped == TypeOK /\ [Next]_vars => TypeOK'
<1> SUFFICES ASSUME TypeOK, [Next]_vars PROVE TypeOK'
  OBVIOUS
<1>1. CASE UNCHANGED vars
  BY <1>1 DEF vars, TypeOK
<1>2. CASE Lapse \/ Evict
  BY <1>2 DEF TypeOK, Lapse, Evict
<1>3. QED
  BY <1>1, <1>2, StepTyped, LandTyped, OthersTyped DEF Next

LEMMA InitTyped == Init => TypeOK
<1> SUFFICES ASSUME Init PROVE TypeOK
  OBVIOUS
<1>1. store \in Authors \union {Nobody}
  BY FlowAssumption DEF Init
<1>2. ASSUME NEW c \in Callers
      PROVE  [pc |-> "idle", seen |-> Nobody, fate |-> "none", answer |-> c, ran |-> "no"] \in Calls
  BY DEF Calls, Pcs, Fates, Authors
<1>3. QED
  BY <1>1, <1>2 DEF Init, TypeOK

\* The key, the calls and the commands on the wire keep their shape under every fault.
THEOREM TypeCorrect == Spec => []TypeOK
BY InitTyped, NextTyped, PTL DEF Spec

------------------------------------------------------------------------------
(***************************************************************************)
(* Agreement: in the healthy regime what a call has read or returned is    *)
(* what the key holds, and the key never changes again                     *)
(***************************************************************************)
LEMMA InvInit == ASSUME Healthy, Init PROVE AgreementInv
<1>1. TypeOK
  BY InitTyped
<1>2. QED
  BY <1>1 DEF Healthy, Init, AgreementInv, HasRun

\* The part of the invariant about one call, for the state s of its coroutine
\* and the key k.
CallInv(s, k) ==
    /\ s.pc # "purging"
    /\ s.ran = "ok" => s.pc # "idle"
    /\ s.seen # Nobody => s.seen = k
    /\ s.ran = "ok" /\ s.pc \in {"reading", "judging"} => k # Nobody
    /\ s.ran = "ok" /\ s.pc = "judging" => s.seen # Nobody
    /\ s.fate = "value" => s.pc = "done" /\ s.answer = k

\* A step of one call that leaves the key alone, or fills an empty one, has only
\* that call to answer for.
LEMMA OneCallInv ==
    ASSUME AgreementInv, NEW c \in Callers, NEW s \in Calls, Becomes(c, s), TypeOK',
           store' = store \/ (store = Nobody /\ store' \in Callers),
           lapsed' = lapsed, \A cmd \in wire' : cmd.op = "save",
           CallInv(s, store')
    PROVE  AgreementInv'
<1>1. \A d \in Callers : CallInv(call[d], store)
  BY DEF AgreementInv, CallInv, HasRun
<1>2. ASSUME NEW d \in Callers PROVE CallInv(call'[d], store')
  <2>1. CASE d = c
    BY <2>1 DEF Becomes, AgreementInv, TypeOK
  <2>2. CASE d # c
    <3>1. call'[d] = call[d]
      BY <2>2 DEF Becomes, AgreementInv, TypeOK
    <3>2. call[d] \in Calls /\ Nobody \notin Authors
      BY FlowAssumption DEF AgreementInv, TypeOK
    <3>3. QED
      BY <1>1, <3>1, <3>2 DEF CallInv, Calls
  <2>3. QED
    BY <2>1, <2>2
<1>3. store' \in Callers \union {Nobody, Earlier} /\ lapsed' = {}
  BY DEF AgreementInv
<1>4. QED
  BY <1>2, <1>3 DEF AgreementInv, CallInv, HasRun

LEMMA AbandonsSave ==
    ASSUME AgreementInv, NEW c \in Callers, Abandons(c)
    PROVE  \A cmd \in wire' : cmd.op = "save"
<1>1. call[c].pc # "purging"
  BY DEF AgreementInv
<1>2. \A cmd \in Outstanding(c) : cmd.op = "save"
  BY <1>1 DEF Outstanding
<1>3. QED
  BY <1>2 DEF AgreementInv, Abandons

\* The steps the healthy regime has no use for.
LEMMA Unreached ==
    ASSUME Healthy, AgreementInv, NEW c \in Callers
    PROVE  /\ ~ReadFails(c) /\ ~FindsExpired(c) /\ ~Purge(c) /\ ~PurgeFails(c)
           /\ ~FindsReuse(c) /\ ~FindsUnusable(c) /\ ~SaveFails(c) /\ ~Unstorable(c)
           /\ ~Lapse /\ ~Evict
           /\ FindsNothing(c) => ~HasRun(c)
<1>1. ~ReadFails(c) /\ ~PurgeFails(c) /\ ~SaveFails(c) /\ ~Unstorable(c) /\ ~Lapse
  BY DEF Healthy, ReadFails, PurgeFails, SaveFails, Unstorable, Lapse
<1>2. ~FindsExpired(c) /\ ~Purge(c) /\ ~Evict
  BY DEF AgreementInv, FindsExpired, Purge, Evict
<1>3. call[c].seen \in Callers \union {Nobody, Earlier}
  BY DEF AgreementInv
<1>4. ~FindsReuse(c) /\ ~FindsUnusable(c)
  BY <1>3, FlowAssumption DEF Healthy, FindsReuse, FindsUnusable, HasFound, IsReuse, Authors
<1>5. FindsNothing(c) => ~HasRun(c)
  BY DEF AgreementInv, FindsNothing, HasRun
<1>6. QED
  BY <1>1, <1>2, <1>4, <1>5

LEMMA StepInv ==
    ASSUME Healthy, AgreementInv, NEW c \in Callers, Step(c)
    PROVE  AgreementInv'
<1>1. TypeOK' /\ call[c] \in Calls /\ c \in Authors /\ Nobody \notin Authors
  BY StepTyped, StatesTyped, FlowAssumption DEF AgreementInv
<1>2. CallInv(call[c], store) /\ \A cmd \in wire : cmd.op = "save"
  BY DEF AgreementInv, CallInv, HasRun
<1>3. CASE Call(c) \/ SaveCollides(c)
  <2> DEFINE s == [call[c] EXCEPT !.pc = "reading", !.seen = Nobody]
  <2>1. s \in Calls /\ Becomes(c, s)
    BY <1>1, <1>3 DEF Call, SaveCollides, Goes, Calls, Pcs
  <2>2. s.ran = "ok" => store # Nobody
    <3>1. CASE SaveCollides(c)
      BY <3>1 DEF SaveCollides
    <3>2. CASE Call(c)
      <4>1. call[c].ran # "ok"
        BY <1>2, <3>2 DEF Call, CallInv
      <4>2. QED
        BY <4>1, <1>1 DEF Calls
    <3>3. QED
      BY <1>3, <3>1, <3>2
  <2>3. CallInv(s, store)
    BY <1>1, <1>2, <1>3, <2>2 DEF CallInv, Call, SaveCollides, Calls
  <2>4. QED
    BY <1>1, <1>2, <1>3, <2>1, <2>3, OneCallInv DEF Call, SaveCollides
<1>4. CASE ReadStore(c)
  <2> DEFINE s == [call[c] EXCEPT !.pc = "judging", !.seen = store]
  <2>1. s \in Calls /\ Becomes(c, s)
    BY <1>1, <1>4 DEF Healthy, ReadStore, Read, Calls, Pcs, AgreementInv, TypeOK
  <2>2. CallInv(s, store)
    BY <1>1, <1>2, <1>4 DEF CallInv, ReadStore, Calls
  <2>3. QED
    BY <1>1, <1>2, <1>4, <2>1, <2>2, OneCallInv DEF ReadStore
<1>5. CASE FindsNothing(c)
  <2> DEFINE s == [call[c] EXCEPT !.pc = "running", !.seen = Nobody, !.ran = "started"]
  <2>1. s \in Calls /\ Becomes(c, s)
    BY <1>1, <1>5, Unreached DEF FindsNothing, Misses, Runs, Calls, Pcs
  <2>2. CallInv(s, store)
    BY <1>1, <1>2, <1>5 DEF CallInv, FindsNothing, Calls
  <2>3. QED
    BY <1>1, <1>2, <1>5, <2>1, <2>2, OneCallInv DEF FindsNothing
<1>6. CASE FinishAction(c)
  <2> DEFINE s == [call[c] EXCEPT !.pc = "saving", !.ran = "ok"]
  <2>1. s \in Calls /\ Becomes(c, s)
    BY <1>1, <1>6 DEF FinishAction, Calls, Pcs
  <2>2. CallInv(s, store)
    BY <1>1, <1>2, <1>6 DEF CallInv, FinishAction, Calls
  <2>3. QED
    BY <1>1, <1>2, <1>6, <2>1, <2>2, OneCallInv DEF FinishAction
<1>7. ASSUME NEW f \in Fates, NEW x \in Authors, Ends(c, f, x),
             f = "value" => x = store',
             store' = store \/ (store = Nobody /\ store' \in Callers),
             lapsed' = lapsed, \A cmd \in wire' : cmd.op = "save"
      PROVE  AgreementInv'
  <2> DEFINE s == [call[c] EXCEPT !.pc = "done", !.seen = Nobody, !.fate = f, !.answer = x]
  <2>1. s \in Calls /\ Becomes(c, s)
    BY <1>1, <1>7 DEF Ends, Calls, Pcs
  <2>2. CallInv(s, store')
    BY <1>1, <1>7 DEF CallInv, Calls
  <2>3. QED
    BY <1>1, <1>7, <2>1, <2>2, OneCallInv
<1>8. CASE FindsResult(c)
  <2>1. call[c].seen = store /\ call[c].seen \in Authors
    BY <1>1, <1>2, <1>8 DEF FindsResult, HasFound, CallInv
  <2>2. QED
    BY <1>2, <1>7, <1>8, <2>1 DEF FindsResult, Fates
<1>9. CASE SaveWins(c)
  BY <1>1, <1>2, <1>7, <1>9 DEF SaveWins, KeepsOwn, Fates
<1>10. CASE ActionFails(c)
  BY <1>1, <1>2, <1>7, <1>10 DEF ActionFails, Fates
<1>11. CASE Cancel(c)
  BY <1>1, <1>7, <1>11, AbandonsSave DEF Cancel, Fates
<1>12. CASE Crash(c)
  <2> DEFINE s == [call[c] EXCEPT !.pc = "crashed", !.seen = Nobody]
  <2>1. s \in Calls /\ Becomes(c, s)
    BY <1>1, <1>12 DEF Crash, Goes, Calls, Pcs
  <2>2. CallInv(s, store)
    BY <1>1, <1>2, <1>12 DEF CallInv, Crash, Active, Calls
  <2>3. QED
    BY <1>1, <1>12, <2>1, <2>2, OneCallInv, AbandonsSave DEF Crash
<1>13. QED
  BY <1>3, <1>4, <1>5, <1>6, <1>8, <1>9, <1>10, <1>11, <1>12, Unreached DEF Step

\* A save that lands late fills the key or finds it taken.
LEMMA LandInv ==
    ASSUME AgreementInv, NEW cmd \in wire, Land(cmd)
    PROVE  AgreementInv'
<1>1. TypeOK' /\ cmd.by \in Callers /\ cmd.op = "save"
  BY LandTyped DEF AgreementInv, TypeOK, Commands
<1>2. store' = store \/ (store = Nobody /\ store' \in Callers)
  BY <1>1 DEF Land
<1>3. Nobody \notin Authors /\ \A c \in Callers : call[c] \in Calls
  BY FlowAssumption DEF AgreementInv, TypeOK
<1>4. QED
  BY <1>1, <1>2, <1>3 DEF AgreementInv, Land, HasRun, Calls

LEMMA InvNext == ASSUME Healthy PROVE AgreementInv /\ [Next]_vars => AgreementInv'
<1> SUFFICES ASSUME AgreementInv, [Next]_vars PROVE AgreementInv'
  OBVIOUS
<1>1. CASE UNCHANGED vars
  BY <1>1 DEF vars, AgreementInv, TypeOK, HasRun
<1>2. ASSUME Lapse \/ Evict \/ OthersReserve \/ OthersComplete \/ OthersDelete PROVE FALSE
  BY <1>2 DEF Healthy, AgreementInv, Lapse, Evict, OthersReserve, OthersComplete, OthersDelete
<1>3. QED
  BY <1>1, <1>2, StepInv, LandInv DEF Next

\* The inductive invariant, for any number of calls.
THEOREM InvCorrect == ASSUME Healthy PROVE Spec => []AgreementInv
BY InvInit, InvNext, PTL DEF Spec

\* All calls that are told a result are told the same one, for any number of them,
\* with crashes, cancellations and writes that land late.
THEOREM Agree == ASSUME Healthy PROVE Spec => []Agreement
<1>1. AgreementInv => Agreement
  BY DEF AgreementInv, Agreement
<1>2. QED
  BY <1>1, InvCorrect, PTL

------------------------------------------------------------------------------
(***************************************************************************)
(* UnreservedFlow implements OneResult                                     *)
(***************************************************************************)
\* A step of one call changes what that call is told, and nothing else.
LEMMA ToldOfOne ==
    ASSUME AgreementInv, NEW c \in Callers, NEW s, Becomes(c, s)
    PROVE  /\ s.fate = "value" => AllTold' = [AllTold EXCEPT ![c] = s.answer]
           /\ s.fate # "value" /\ s.pc \in {"done", "crashed"} =>
                 AllTold' = [AllTold EXCEPT ![c] = "no result"]
           /\ s.fate # "value" /\ s.pc \notin {"done", "crashed"} =>
                 AllTold' = [AllTold EXCEPT ![c] = "nothing"]
<1>1. call'[c] = s /\ \A d \in Callers \ {c} : call'[d] = call[d]
  BY DEF Becomes, AgreementInv, TypeOK
<1>2. \A d \in Callers \ {c} : Told(d)' = Told(d)
  BY <1>1 DEF Told
<1>3. QED
  BY <1>1, <1>2 DEF AllTold, Told

LEMMA RefinesInit == ASSUME Healthy, Init PROVE Promise!Init
BY DEF Healthy, Init, Promise!Init, AllTold, Told

LEMMA RefinesStep ==
    ASSUME Healthy, AgreementInv, NEW c \in Callers, Step(c)
    PROVE  Promise!Next \/ UNCHANGED Promise!vars
<1>1. call[c] \in Calls /\ c \in Authors /\ store \in Authors \union {Nobody}
  BY StatesTyped DEF AgreementInv, TypeOK
<1>2. AllTold = [d \in Callers |-> AllTold[d]] /\ AllTold[c] = Told(c)
  BY DEF AllTold
<1>3. ASSUME NEW s, Becomes(c, s), s.fate = call[c].fate, store' = store,
             call[c].pc \notin {"done", "crashed"}, s.pc \notin {"done", "crashed"}
      PROVE  UNCHANGED Promise!vars
  <2>1. s.fate # "value" /\ AllTold[c] = "nothing"
    BY <1>2, <1>3 DEF Told, AgreementInv
  <2>2. AllTold' = [AllTold EXCEPT ![c] = "nothing"]
    BY <1>3, <2>1, ToldOfOne
  <2>3. AllTold' = AllTold
    BY <1>2, <2>1, <2>2
  <2>4. QED
    BY <1>3, <2>3 DEF Promise!vars
<1>4. ASSUME call[c].pc \notin {"done", "crashed"} PROVE AllTold[c] = "nothing"
  BY <1>2, <1>4 DEF Told, AgreementInv
<1>5. CASE \/ Call(c) \/ SaveCollides(c) \/ ReadStore(c) \/ FinishAction(c)
           \/ FindsNothing(c)
  BY <1>1, <1>3, <1>5, Unreached DEF Call, SaveCollides, ReadStore, FinishAction,
     FindsNothing, Misses, Runs, Goes, Calls
<1>6. CASE FindsResult(c)
  <2>1. call[c].seen = store /\ store # Nobody /\ Ends(c, "value", store) /\ store' = store
    BY <1>1, <1>6, FlowAssumption DEF FindsResult, HasFound, AgreementInv
  <2>2. AllTold' = [AllTold EXCEPT ![c] = store]
    <3> DEFINE s == [call[c] EXCEPT !.pc = "done", !.seen = Nobody, !.fate = "value", !.answer = store]
    <3>1. Becomes(c, s) /\ s.fate = "value" /\ s.answer = store
      BY <1>1, <2>1 DEF Ends, Calls
    <3> HIDE DEF s
    <3>2. QED
      BY <3>1, ToldOfOne
  <2>3. AllTold[c] = "nothing"
    BY <1>4, <1>6 DEF FindsResult, HasFound
  <2>4. QED
    BY <2>1, <2>2, <2>3 DEF Promise!Next, Promise!Answer
<1>7. CASE SaveWins(c)
  <2>1. store = Nobody /\ store' = c /\ Ends(c, "value", c)
    BY <1>7 DEF SaveWins, KeepsOwn
  <2>2. AllTold' = [AllTold EXCEPT ![c] = c]
    <3> DEFINE s == [call[c] EXCEPT !.pc = "done", !.seen = Nobody, !.fate = "value", !.answer = c]
    <3>1. Becomes(c, s) /\ s.fate = "value" /\ s.answer = c
      BY <1>1, <2>1 DEF Ends, Calls
    <3> HIDE DEF s
    <3>2. QED
      BY <3>1, ToldOfOne
  <2>3. AllTold[c] = "nothing"
    BY <1>4, <1>7 DEF SaveWins
  <2>4. QED
    BY <2>1, <2>2, <2>3 DEF Promise!Next, Promise!Write
<1>8. CASE ActionFails(c) \/ Cancel(c) \/ Crash(c)
  <2>1. call[c].pc \notin {"done", "crashed"} /\ store' = store
    BY <1>8 DEF ActionFails, Cancel, Crash, Active
  <2>2. call[c].fate # "value"
    BY <2>1 DEF AgreementInv
  <2>3. AllTold' = [AllTold EXCEPT ![c] = "no result"]
    <3>1. ASSUME NEW f \in {"action_error", "cancelled"}, Ends(c, f, c)
          PROVE  AllTold' = [AllTold EXCEPT ![c] = "no result"]
      <4> DEFINE s == [call[c] EXCEPT !.pc = "done", !.seen = Nobody, !.fate = f, !.answer = c]
      <4>1. Becomes(c, s) /\ s.fate # "value" /\ s.pc = "done"
        BY <1>1, <3>1 DEF Ends, Calls
      <4> HIDE DEF s
      <4>2. QED
        BY <4>1, ToldOfOne
    <3>2. ASSUME Goes(c, "crashed")
          PROVE  AllTold' = [AllTold EXCEPT ![c] = "no result"]
      <4> DEFINE s == [call[c] EXCEPT !.pc = "crashed", !.seen = Nobody]
      <4>1. Becomes(c, s) /\ s.fate # "value" /\ s.pc = "crashed"
        BY <1>1, <2>2, <3>2 DEF Goes, Calls
      <4> HIDE DEF s
      <4>2. QED
        BY <4>1, ToldOfOne
    <3>3. QED
      BY <1>8, <3>1, <3>2 DEF ActionFails, Cancel, Crash
  <2>4. QED
    BY <1>4, <2>1, <2>3 DEF Promise!Next, Promise!Fail
<1>9. QED
  BY <1>5, <1>6, <1>7, <1>8, Unreached DEF Step

LEMMA RefinesLand ==
    ASSUME AgreementInv, NEW cmd \in wire, Land(cmd)
    PROVE  Promise!Next \/ UNCHANGED Promise!vars
<1>1. cmd.by \in Callers /\ cmd.op = "save" /\ call' = call
  BY DEF AgreementInv, TypeOK, Commands, Land
<1>2. AllTold' = AllTold
  BY <1>1 DEF AllTold, Told
<1>3. QED
  BY <1>1, <1>2 DEF Land, Promise!Next, Promise!Write, Promise!vars

LEMMA RefinesNext ==
    ASSUME Healthy PROVE AgreementInv /\ [Next]_vars => [Promise!Next]_(Promise!vars)
<1> SUFFICES ASSUME AgreementInv, [Next]_vars PROVE Promise!Next \/ UNCHANGED Promise!vars
  OBVIOUS
<1>1. CASE UNCHANGED vars
  BY <1>1 DEF vars, Promise!vars, AllTold, Told
<1>2. ASSUME Lapse \/ Evict \/ OthersReserve \/ OthersComplete \/ OthersDelete PROVE FALSE
  BY <1>2 DEF Healthy, AgreementInv, Lapse, Evict, OthersReserve, OthersComplete, OthersDelete
<1>3. QED
  BY <1>1, <1>2, RefinesStep, RefinesLand DEF Next

\* In the healthy regime the flow without a reservation implements OneResult: the
\* first result to be written is the one everybody is told.
THEOREM Refines == ASSUME Healthy PROVE Spec => ImplementsOneResult
BY InvCorrect, RefinesInit, RefinesNext, PTL DEF Spec, ImplementsOneResult, Promise!Spec

------------------------------------------------------------------------------
(***************************************************************************)
(* What holds whatever goes wrong: the results that can be read, or that   *)
(* are still on their way, are those of calls whose action has returned    *)
(***************************************************************************)
Unreturned == {c \in Callers : call[c].ran # "ok"}

\* The state s of the coroutine of c.
Sound(s, c) ==
    /\ s.pc = "saving" => s.ran = "ok"
    /\ s.pc = "idle" => s.ran = "no"
    /\ s.pc = "running" => s.ran # "ok"
    /\ s.pc \in {"reading", "judging", "purging"} => s.ran # "started"
    /\ s.fate = "value" =>
          /\ s.answer \in Callers \union {Earlier}
          /\ ~Reuse(Fingerprint[s.answer], Fingerprint[c], NoFingerprint)
    /\ s.fate \in {"key_reuse", "storage_error"} => s.ran = "no"
    /\ s.fate # "none" => s.pc = "done"

Trust ==
    /\ TypeOK
    /\ store \notin Unreturned
    /\ \A cmd \in wire : cmd.op = "save" => cmd.by \notin Unreturned
    /\ \A c \in Callers : /\ Sound(call[c], c)
                          /\ call[c].seen \notin Unreturned
                          /\ call[c].fate = "value" => call[c].answer \notin Unreturned

\* A step of one call, to the state s.
LEMMA OneCallTrust ==
    ASSUME Trust, NEW c \in Callers, NEW s \in Calls, Becomes(c, s), TypeOK',
           call[c].ran = "ok" => s.ran = "ok", Sound(s, c),
           store' \in {store, Nobody} \/ (store' = c /\ s.ran = "ok"),
           wire' \subseteq wire \union Outstanding(c),
           s.seen \in {store, Nobody, call[c].seen},
           s.fate = "value" => \/ s.answer = call[c].seen
                               \/ s.answer = c /\ s.ran = "ok"
    PROVE  Trust'
<1>1. call'[c] = s /\ \A d \in Callers \ {c} : call'[d] = call[d]
  BY DEF Becomes, Trust, TypeOK
<1>2. Unreturned' \subseteq Unreturned /\ (s.ran = "ok" => c \notin Unreturned')
  BY <1>1 DEF Unreturned
<1>3. Nobody \notin Unreturned
  BY FlowAssumption DEF Unreturned, Authors
<1>4. store' \notin Unreturned'
  BY <1>2, <1>3 DEF Trust
<1>5. \A cmd \in wire' : cmd.op = "save" => cmd.by \notin Unreturned'
  <2> SUFFICES ASSUME NEW cmd \in wire', cmd.op = "save" PROVE cmd.by \notin Unreturned'
    OBVIOUS
  <2>1. CASE cmd \in wire
    BY <1>2, <2>1 DEF Trust
  <2>2. CASE cmd \in Outstanding(c)
    <3>1. call[c].pc = "saving" /\ cmd.by = c
      BY <2>2 DEF Outstanding
    <3>2. s.ran = "ok"
      BY <3>1 DEF Trust, Sound
    <3>3. QED
      BY <1>2, <3>1, <3>2
  <2>3. QED
    BY <2>1, <2>2
<1>6. ASSUME NEW d \in Callers
      PROVE  /\ Sound(call'[d], d)
             /\ call'[d].seen \notin Unreturned'
             /\ call'[d].fate = "value" => call'[d].answer \notin Unreturned'
  <2>1. CASE d # c
    BY <1>1, <1>2, <2>1 DEF Trust
  <2>2. CASE d = c
    <3>1. s.seen \notin Unreturned'
      BY <1>2, <1>3 DEF Trust
    <3>2. s.fate = "value" => s.answer \notin Unreturned'
      BY <1>2 DEF Trust
    <3>3. QED
      BY <1>1, <2>2, <3>1, <3>2
  <2>3. QED
    BY <2>1, <2>2
<1>7. QED
  BY <1>4, <1>5, <1>6 DEF Trust

\* An end of c, with its own result or with the one it has in hand.
LEMMA EndTrust ==
    ASSUME Trust, NEW c \in Callers, TypeOK',
           NEW f \in Fates, NEW x \in Authors, Ends(c, f, x),
           f = "value" => /\ x = call[c].seen \/ (x = c /\ HasRun(c))
                          /\ x \in Callers \union {Earlier}
                          /\ ~Reuse(Fingerprint[x], Fingerprint[c], NoFingerprint),
           f \in {"key_reuse", "storage_error"} => call[c].ran = "no",
           store' \in {store, Nobody} \/ (store' = c /\ HasRun(c)),
           wire' \subseteq wire \union Outstanding(c)
    PROVE  Trust'
<1> DEFINE s == [call[c] EXCEPT !.pc = "done", !.seen = Nobody, !.fate = f, !.answer = x]
<1>1. call[c] \in Calls
  BY DEF Trust, TypeOK
<1>2. /\ s.pc = "done" /\ s.seen = Nobody /\ s.fate = f /\ s.answer = x
      /\ s.ran = call[c].ran /\ s \in Calls
  BY <1>1 DEF Calls, Pcs
<1>3. Becomes(c, s)
  BY DEF Ends
<1> HIDE DEF s
<1>4. Sound(s, c)
  BY <1>2 DEF Sound
<1>5. QED
  BY <1>2, <1>3, <1>4, OneCallTrust DEF HasRun

\* No usable result: c runs its action, or keeps the result of it.
LEMMA MissTrust ==
    ASSUME Trust, NEW c \in Callers, TypeOK', Misses(c),
           call[c].pc \in {"reading", "judging", "purging"},
           store' \in {store, Nobody}, wire' \subseteq wire \union Outstanding(c)
    PROVE  Trust'
<1>1. c \in Authors /\ "value" \in Fates
      /\ ~Reuse(Fingerprint[c], Fingerprint[c], NoFingerprint)
  BY DEF Authors, Fates, Reuse
<1>2. CASE HasRun(c)
  BY <1>1, <1>2, EndTrust DEF Misses, KeepsOwn
<1>3. CASE ~HasRun(c)
  <2> DEFINE s == [call[c] EXCEPT !.pc = "running", !.seen = Nobody, !.ran = "started"]
  <2>1. call[c] \in Calls /\ Sound(call[c], c)
    BY DEF Trust, TypeOK
  <2>2. /\ s.pc = "running" /\ s.seen = Nobody /\ s.ran = "started"
        /\ s.fate = call[c].fate /\ s.answer = call[c].answer /\ s \in Calls
    BY <2>1 DEF Calls, Pcs
  <2>3. Becomes(c, s)
    BY <1>3 DEF Misses, Runs
  <2>4. call[c].fate = "none"
    BY <2>1 DEF Sound
  <2> HIDE DEF s
  <2>5. Sound(s, c)
    BY <2>1, <2>2 DEF Sound
  <2>6. QED
    BY <1>3, <2>2, <2>3, <2>4, <2>5, OneCallTrust DEF HasRun
<1>4. QED
  BY <1>2, <1>3

\* The other steps of c that leave its fate alone.
LEMMA GoesTrust ==
    ASSUME Trust, NEW c \in Callers, NEW s \in Calls, Becomes(c, s), TypeOK', Active(c) \/ Call(c),
           s.fate = call[c].fate, s.seen \in {store, Nobody},
           s.pc = "crashed" \/ Sound([s EXCEPT !.fate = "none"], c),
           s.ran = call[c].ran \/ s.ran = "ok",
           store' \in {store, Nobody}, wire' \subseteq wire \union Outstanding(c)
    PROVE  Trust'
<1>1. call[c] \in Calls /\ Sound(call[c], c)
  BY DEF Trust, TypeOK
<1>2. s.fate = "none"
  BY <1>1 DEF Sound, Active, Call
<1>3. Sound(s, c)
  BY <1>2 DEF Sound, Calls
<1>4. QED
  BY <1>2, <1>3, OneCallTrust

LEMMA StepTrust ==
    ASSUME Trust, NEW c \in Callers, Step(c)
    PROVE  Trust'
<1>1. /\ TypeOK' /\ TypeOK /\ call[c] \in Calls /\ c \in Authors /\ Nobody \notin Authors
      /\ store \in Authors \union {Nobody} /\ Sound(call[c], c)
  BY StepTyped, StatesTyped, FlowAssumption DEF Trust, TypeOK
<1>2. {"value", "key_reuse", "storage_error", "action_error", "cancelled"} \subseteq Fates
      /\ ~Reuse(Fingerprint[c], Fingerprint[c], NoFingerprint)
  BY DEF Fates, Reuse
<1>3. Abandons(c) => wire' \subseteq wire \union Outstanding(c)
  BY DEF Abandons
<1>4. CASE Call(c) \/ SaveCollides(c) \/ FindsExpired(c) \/ ReadStore(c) \/ FinishAction(c) \/ Crash(c)
  <2>1. ASSUME NEW s \in Calls, Becomes(c, s), s.fate = call[c].fate, s.seen \in {store, Nobody},
               s.ran = call[c].ran \/ s.ran = "ok", store' = store,
               s.pc = "crashed" \/ (/\ s.pc = "saving" => s.ran = "ok"
                                    /\ s.pc \notin {"idle", "running"}
                                    /\ s.pc \in {"reading", "judging", "purging"} => s.ran # "started"),
               wire' \subseteq wire \union Outstanding(c), Active(c) \/ Call(c)
        PROVE  Trust'
    <3>1. s.pc = "crashed" \/ Sound([s EXCEPT !.fate = "none"], c)
      BY <2>1 DEF Sound, Calls
    <3>2. QED
      BY <1>1, <2>1, <3>1, GoesTrust
  <2>2. CASE Call(c)
    <3> DEFINE s == [call[c] EXCEPT !.pc = "reading", !.seen = Nobody]
    <3>1. s \in Calls /\ s.pc = "reading" /\ s.fate = call[c].fate /\ s.seen = Nobody /\ s.ran = call[c].ran
      BY <1>1 DEF Calls, Pcs
    <3>2. Becomes(c, s) /\ s.ran # "started"
      BY <1>1, <2>2 DEF Call, Goes, Sound
    <3>3. QED
      BY <2>1, <2>2, <3>1, <3>2 DEF Call
  <2>3. CASE SaveCollides(c)
    <3> DEFINE s == [call[c] EXCEPT !.pc = "reading", !.seen = Nobody]
    <3>1. s \in Calls /\ s.pc = "reading" /\ s.fate = call[c].fate /\ s.seen = Nobody /\ s.ran = call[c].ran
      BY <1>1 DEF Calls, Pcs
    <3>2. Becomes(c, s) /\ s.ran # "started"
      BY <1>1, <2>3 DEF SaveCollides, Goes, Sound
    <3>3. QED
      BY <2>1, <2>3, <3>1, <3>2 DEF SaveCollides, Active
  <2>4. CASE FindsExpired(c)
    <3> DEFINE s == [call[c] EXCEPT !.pc = "purging", !.seen = Nobody]
    <3>1. s \in Calls /\ s.pc = "purging" /\ s.fate = call[c].fate /\ s.seen = Nobody /\ s.ran = call[c].ran
      BY <1>1 DEF Calls, Pcs
    <3>2. Becomes(c, s) /\ s.ran # "started"
      BY <1>1, <2>4 DEF FindsExpired, Goes, Sound
    <3>3. QED
      BY <2>1, <2>4, <3>1, <3>2 DEF FindsExpired, Active
  <2>5. CASE ReadStore(c)
    <3> DEFINE s == [call[c] EXCEPT !.pc = "judging", !.seen = Read(c)]
    <3>1. s \in Calls /\ s.pc = "judging" /\ s.fate = call[c].fate /\ s.seen \in {store, Nobody} /\ s.ran = call[c].ran
      BY <1>1 DEF Calls, Pcs, Read
    <3>2. Becomes(c, s) /\ s.ran # "started"
      BY <1>1, <2>5 DEF ReadStore, Sound
    <3>3. QED
      BY <2>1, <2>5, <3>1, <3>2 DEF ReadStore, Active
  <2>6. CASE FinishAction(c)
    <3> DEFINE s == [call[c] EXCEPT !.pc = "saving", !.ran = "ok"]
    <3>1. s \in Calls /\ s.pc = "saving" /\ s.fate = call[c].fate /\ s.seen = call[c].seen /\ s.ran = "ok"
      BY <1>1 DEF Calls, Pcs
    <3>2. Becomes(c, s) /\ call[c].fate = "none" /\ Sound(s, c)
      BY <1>1, <2>6, <3>1 DEF FinishAction, Sound
    <3> HIDE DEF s
    <3>3. QED
      BY <1>1, <2>6, <3>1, <3>2, OneCallTrust DEF FinishAction
  <2>7. CASE Crash(c)
    <3> DEFINE s == [call[c] EXCEPT !.pc = "crashed", !.seen = Nobody]
    <3>1. s \in Calls /\ s.pc = "crashed" /\ s.fate = call[c].fate /\ s.seen = Nobody /\ s.ran = call[c].ran
      BY <1>1 DEF Calls, Pcs
    <3>2. Becomes(c, s)
      BY <2>7 DEF Crash, Goes
    <3>3. QED
      BY <1>3, <2>1, <2>7, <3>1, <3>2 DEF Crash
  <2>8. QED
    BY <1>4, <2>2, <2>3, <2>4, <2>5, <2>6, <2>7
<1>5. CASE FindsNothing(c) \/ Purge(c) \/ PurgeFails(c) \/ FindsUnusable(c)
  <2>1. /\ Misses(c) /\ call[c].pc \in {"reading", "judging", "purging"}
        /\ store' \in {store, Nobody} /\ wire' \subseteq wire \union Outstanding(c)
    BY <1>3, <1>5 DEF FindsNothing, Purge, PurgeFails, FindsUnusable, HasFound
  <2>2. QED
    BY <1>1, <2>1, MissTrust
<1>6. CASE ReadFails(c)
  <2>1. CASE Misses(c)
    BY <1>1, <1>6, <2>1, MissTrust DEF ReadFails
  <2>2. CASE ~Misses(c)
    <3>1. Ends(c, "storage_error", c) /\ call[c].ran = "no"
      BY <1>1, <1>6, <2>2 DEF ReadFails, HasRun, Sound, Calls
    <3>2. QED
      BY <1>1, <1>2, <1>6, <3>1, EndTrust DEF ReadFails
  <2>3. QED
    BY <2>1, <2>2
<1>7. CASE FindsReuse(c)
  <2>1. CASE HasRun(c)
    BY <1>1, <1>2, <1>7, <2>1, EndTrust DEF FindsReuse, KeepsOwn
  <2>2. CASE ~HasRun(c)
    <3>1. Ends(c, "key_reuse", c) /\ call[c].ran = "no"
      BY <1>1, <1>7, <2>2 DEF FindsReuse, HasFound, HasRun, Sound, Calls
    <3>2. QED
      BY <1>1, <1>2, <1>7, <3>1, EndTrust DEF FindsReuse
  <2>3. QED
    BY <2>1, <2>2
<1>8. CASE FindsResult(c)
  <2>1. /\ call[c].seen \in Callers \union {Earlier} /\ call[c].seen \in Authors
        /\ ~Reuse(Fingerprint[call[c].seen], Fingerprint[c], NoFingerprint)
        /\ Ends(c, "value", call[c].seen) /\ store' = store /\ wire' = wire
    BY <1>8 DEF FindsResult, HasFound, IsReuse, Authors
  <2>2. QED
    BY <1>1, <1>2, <2>1, EndTrust
<1>9. CASE ActionFails(c) \/ Cancel(c)
  <2>1. /\ Ends(c, "action_error", c) \/ Ends(c, "cancelled", c)
        /\ store' = store /\ wire' \subseteq wire \union Outstanding(c)
    BY <1>3, <1>9 DEF ActionFails, Cancel
  <2>2. QED
    BY <1>1, <1>2, <2>1, EndTrust
<1>10. CASE SaveWins(c) \/ SaveFails(c) \/ Unstorable(c)
  <2>1. /\ Ends(c, "value", c) /\ HasRun(c)
        /\ store' \in {store, c} /\ wire' \subseteq wire \union Outstanding(c)
    BY <1>1, <1>3, <1>10 DEF SaveWins, SaveFails, Unstorable, KeepsOwn, HasRun, Sound
  <2>2. QED
    BY <1>1, <1>2, <2>1, EndTrust
<1>11. QED
  BY <1>4, <1>5, <1>6, <1>7, <1>8, <1>9, <1>10 DEF Step

\* A command that lands late brings the result of an action that has returned.
LEMMA LandTrust ==
    ASSUME Trust, NEW cmd \in wire, Land(cmd)
    PROVE  Trust'
<1>1. TypeOK' /\ call' = call /\ wire' \subseteq wire /\ cmd \in Commands
  BY LandTyped DEF Trust, TypeOK, Land
<1>2. Unreturned' = Unreturned /\ Nobody \notin Unreturned
  BY <1>1, FlowAssumption DEF Unreturned, Authors
<1>3. store' \notin Unreturned'
  <2>1. CASE cmd.op = "delete"
    BY <1>2, <2>1 DEF Land
  <2>2. CASE cmd.op = "save"
    BY <1>2, <2>2 DEF Land, Trust
  <2>3. QED
    BY <1>1, <2>1, <2>2 DEF Commands
<1>4. QED
  BY <1>1, <1>2, <1>3 DEF Trust

\* The clocks and the other users of the key write no result of a call.
LEMMA OthersTrust ==
    ASSUME Trust,
           UNCHANGED vars \/ Lapse \/ Evict \/ OthersReserve \/ OthersComplete \/ OthersDelete
    PROVE  Trust'
<1>1. TypeOK'
  BY NextTyped DEF Trust, Next
<1>2. call' = call /\ wire' = wire /\ store' \in {store, Nobody, Reservation, Earlier}
  BY DEF vars, Lapse, Evict, OthersReserve, OthersComplete, OthersDelete
<1>3. Unreturned' = Unreturned /\ {Nobody, Reservation, Earlier} \intersect Unreturned = {}
  BY <1>2, FlowAssumption DEF Unreturned, Authors
<1>4. QED
  BY <1>1, <1>2, <1>3 DEF Trust

LEMMA TrustInit == Init => Trust
<1> SUFFICES ASSUME Init PROVE Trust
  OBVIOUS
<1>1. TypeOK
  BY InitTyped
<1>2. Leftovers \intersect Callers = {} /\ Nobody \notin Callers
  BY FlowAssumption
<1>3. ASSUME NEW c \in Callers
      PROVE  Sound(call[c], c) /\ call[c].seen = Nobody /\ call[c].fate = "none"
  BY <1>3 DEF Init, Sound
<1>4. QED
  BY <1>1, <1>2, <1>3 DEF Trust, Init, Unreturned

LEMMA TrustNext == Trust /\ [Next]_vars => Trust'
BY StepTrust, LandTrust, OthersTrust DEF Next

LEMMA TrustCorrect == Spec => []Trust
BY TrustInit, TrustNext, PTL DEF Spec

\* ErrorsMeanNotRun, for every set of callers and whatever goes wrong: no error
\* of the library is raised at a caller whose action has run.
THEOREM ErrorsAreEarly == Spec => []ErrorsMeanNotRun
<1>1. Trust => ErrorsMeanNotRun
  BY DEF Trust, Sound, ErrorsMeanNotRun
<1>2. QED
  BY <1>1, TrustCorrect, PTL

\* FingerprintRespected, whatever goes wrong: no call is told the result of a
\* request with another fingerprint.
THEOREM FingerprintsHold == Spec => []FingerprintRespected
<1>1. Trust => FingerprintRespected
  BY DEF Trust, Sound, FingerprintRespected
<1>2. QED
  BY <1>1, TrustCorrect, PTL

\* HonestAnswer, whatever goes wrong: every result told is one that an action returned.
THEOREM AnswersAreHonest == Spec => []HonestAnswer
<1>1. Trust => HonestAnswer
  BY DEF Trust, Sound, HonestAnswer, Unreturned
<1>2. QED
  BY <1>1, TrustCorrect, PTL
=============================================================================
