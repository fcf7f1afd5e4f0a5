------------------------ MODULE ProviderBudgetProofs ------------------------
(***************************************************************************)
(* Theorems about ProviderBudget, for any runs, chains, limits, retries    *)
(* and days, in four parts.  IInv: that a counter never exceeds its limit  *)
(* by reservations is inductive only together with the lock discipline (a  *)
(* session writes the counters it owns, an unowned counter has no draft).  *)
(* SInv: a counter is the sum of its committed claims, its owner's draft   *)
(* the sum of the claims as the owner sees them.  DInv: the two claims of  *)
(* a dispatch move together, and what lies ahead of a chain is unclaimed.  *)
(* LInv: the counters that a session holds are above those it waits for.   *)
(***************************************************************************)
EXTENDS ProviderBudget, SumTheorems, SequenceTheorems, TLAPS

(* A reconciled claim of the scope cost more than was reserved for it.     *)
Over(cl, s) ==
  \E k \in Keys :
    /\ cl[k].status = "reconciled"
    /\ ScopeOf(k, cl[k].period) = s
    /\ cl[k].cost > Estimate

InQueue(s, q) == \E i \in 1..Len(q) : q[i] = s

OpenScope(r) == {ScopeOf(k, drafted[r][k].period) : k \in Open(r)}

DraftsOwned == \A s \in Scopes : owner[s] = NoRun => draft[s] = counter[s]

SettledForGood ==
  \A r \in Runs, k \in Keys :
    claims[r][k].status = "reconciled" => drafted[r][k] = claims[r][k]

CountersWithin ==
  \A s \in Scopes :
    counter[s] <= Limit(s) \/ \E q \in Runs : Over(claims[q], s)

DraftsWithin ==
  \A s \in Scopes : \A r \in Runs :
    owner[s] = r => \/ draft[s] <= Limit(s)
                    \/ Over(drafted[r], s)
                    \/ \E q \in Runs : Over(claims[q], s)

Prepared(r) ==
  /\ session[r].pc \in {"claimed", "calling", "settling"} =>
       session[r].receipt \subseteq DispatchKeys(r)
  /\ session[r].pc = "locking" =>
       /\ \A k \in DispatchKeys(r) : drafted[r][k].status = "none"
       /\ \A s \in ClaimScopes(r) : owner[s] = r \/ InQueue(s, session[r].want)
  /\ session[r].pc = "settling" =>
       /\ \A s \in OpenScope(r) : owner[s] = r \/ InQueue(s, session[r].want)
       /\ session[r].next = "retry" => session[r].retry < MaxRetries
       /\ session[r].next = "fallback" => session[r].candidate < Len(Chain[r])

Books == DraftsOwned /\ SettledForGood /\ CountersWithin /\ DraftsWithin

IInv ==
  /\ TypeOK
  /\ Books
  /\ \A r \in Runs : Prepared(r)

-----------------------------------------------------------------------------
(* Lemmas about the operators.                                             *)

(* A run's candidate is a model, its dispatch keys are keys.               *)
LEMMA DispatchKeysType ==
  ASSUME TypeOK, NEW r \in Runs
  PROVE  /\ Model(r) \in Models
         /\ DispatchKeys(r) \subseteq Keys
  <1>1. Chain[r] \in Seq(Models) /\ session[r].candidate \in 1..Len(Chain[r])
    BY BudgetAssumption DEF TypeOK
  <1>2. Model(r) \in Models
    BY <1>1 DEF Model
  <1>3. session[r].retry \in 0..MaxRetries
    BY DEF TypeOK, Sessions
  <1> QED BY <1>2, <1>3 DEF DispatchKeys, Keys

(* A claim is for a scope.                                                 *)
LEMMA ScopeOfType ==
  ASSUME NEW k \in Keys, NEW p \in Periods
  PROVE  ScopeOf(k, p) \in Scopes
  <1>1. Provider[k.model] \in Providers /\ k.kind \in Kinds
    BY BudgetAssumption DEF Keys
  <1> QED BY <1>1 DEF ScopeOf, Scopes, Periods

(* The periods of a claim are days of the clock.                           *)
LEMMA PeriodOfType ==
  ASSUME TypeOK
  PROVE  PeriodOf("day") \in Periods /\ PeriodOf("month") \in Periods
  BY BudgetAssumption DEF TypeOK, PeriodOf, Periods

(* The scopes a run claims in are scopes.                                  *)
LEMMA ClaimScopesType ==
  ASSUME TypeOK, NEW r \in Runs
  PROVE  ClaimScopes(r) \subseteq Scopes
  <1>1. \A kind : ClaimPeriod(r, kind) \in Periods
    BY DEF TypeOK, Sessions, ClaimPeriod
  <1>2. \A k \in DispatchKeys(r) : ScopeOf(k, ClaimPeriod(r, k.kind)) \in Scopes
    BY <1>1, DispatchKeysType, ScopeOfType
  <1> QED BY <1>2 DEF ClaimScopes

(* The scopes of a run's open claims are scopes.                           *)
LEMMA OpenScopeType ==
  ASSUME TypeOK, NEW r \in Runs
  PROVE  OpenScope(r) \subseteq Scopes
  <1>1. \A k \in Open(r) : k \in Keys /\ drafted[r][k].period \in Periods
    BY DEF TypeOK, Sessions, Open, Claims
  <1>2. \A k \in Open(r) : ScopeOf(k, drafted[r][k].period) \in Scopes
    BY <1>1, ScopeOfType
  <1> QED BY <1>2 DEF OpenScope

(* A limit is a number.                                                    *)
LEMMA LimitType ==
  ASSUME NEW s \in Scopes
  PROVE  Limit(s) \in Nat
  BY BudgetAssumption DEF Limit, Scopes

(* What is queued is at the head or queued behind it.                      *)
LEMMA QueueHead ==
  ASSUME NEW S, NEW q \in Seq(S), q # <<>>, NEW s, InQueue(s, q)
  PROVE  s = Head(q) \/ InQueue(s, Tail(q))
  <1>1. PICK i \in 1..Len(q) : q[i] = s
    BY DEF InQueue
  <1>2. CASE i = 1
    BY <1>1, <1>2
  <1>3. CASE i # 1
    <2>1. i - 1 \in 1..Len(Tail(q)) /\ Tail(q)[i - 1] = q[i]
      BY <1>1, <1>3
    <2> QED BY <1>1, <2>1 DEF InQueue
  <1> QED BY <1>2, <1>3

(* The queue of a reconciliation holds the scopes of all open claims, if   *)
(* they belong to one dispatch.                                            *)
LEMMA SettleOrderQueues ==
  ASSUME TypeOK, NEW r \in Runs,
         session[r].receipt \subseteq DispatchKeys(r)
  PROVE  /\ SettleOrder(r) \in Seq(Scopes)
         /\ \A s \in OpenScope(r) : InQueue(s, SettleOrder(r))
  <1>1. ASSUME NEW k \in Open(r), NEW j \in Open(r), k.kind = j.kind PROVE k = j
    BY <1>1 DEF Open, DispatchKeys
  <1>2. \A k \in Open(r) : k.kind \in {"day", "month"}
    BY DEF Open, DispatchKeys, Kinds
  <1>3. \A k \in Open(r) : ScopeOf(k, drafted[r][k].period) \in Scopes
    BY OpenScopeType DEF OpenScope
  <1>4. ASSUME NEW k \in Open(r)
        PROVE  OpenScopes(r, k.kind) = <<ScopeOf(k, drafted[r][k].period)>>
    <2> DEFINE open == {j \in Open(r) : j.kind = k.kind}
    <2>1. open = {k}
      BY <1>1
    <2>2. (CHOOSE j \in open : TRUE) = k
      BY <2>1
    <2> QED BY <2>1, <2>2 DEF OpenScopes
  <1>5. ASSUME NEW kind \in {"day", "month"},
               {k \in Open(r) : k.kind = kind} = {}
        PROVE  OpenScopes(r, kind) = <<>>
    BY <1>5 DEF OpenScopes
  <1>6. \A kind \in {"day", "month"} :
          /\ OpenScopes(r, kind) \in Seq(Scopes)
          /\ Len(OpenScopes(r, kind)) \in {0, 1}
    <2> SUFFICES ASSUME NEW kind \in {"day", "month"}
                 PROVE  /\ OpenScopes(r, kind) \in Seq(Scopes)
                        /\ Len(OpenScopes(r, kind)) \in {0, 1}
      OBVIOUS
    <2>1. CASE {k \in Open(r) : k.kind = kind} = {}
      <3>1. OpenScopes(r, kind) = <<>>
        BY <1>5, <2>1
      <3> QED BY <3>1
    <2>2. CASE {k \in Open(r) : k.kind = kind} # {}
      <3>1. PICK k \in Open(r) : k.kind = kind
        BY <2>2
      <3>2. OpenScopes(r, kind) = <<ScopeOf(k, drafted[r][k].period)>>
        BY <1>4, <3>1
      <3> QED BY <1>3, <3>2
    <2> QED BY <2>1, <2>2
  <1>7. SettleOrder(r) \in Seq(Scopes)
    BY <1>6 DEF SettleOrder
  <1>8. ASSUME NEW s \in OpenScope(r) PROVE InQueue(s, SettleOrder(r))
    <2>1. PICK k \in Open(r) : s = ScopeOf(k, drafted[r][k].period)
      BY DEF OpenScope
    <2>2. OpenScopes(r, k.kind) = <<s>>
      BY <1>4, <2>1
    <2>3. CASE k.kind = "day"
      <3>1. SettleOrder(r)[1] = s /\ Len(SettleOrder(r)) >= 1
        BY <1>6, <2>2, <2>3 DEF SettleOrder
      <3>2. Len(SettleOrder(r)) \in Nat
        BY <1>7
      <3> QED BY <3>1, <3>2 DEF InQueue
    <2>4. CASE k.kind = "month"
      <3> DEFINE a == OpenScopes(r, "day")
                 b == <<s>>
      <3>1. SettleOrder(r) = a \o b
        BY <2>2, <2>4 DEF SettleOrder
      <3>2. a \in Seq(Scopes) /\ Len(a) \in {0, 1} /\ b \in Seq(Scopes) /\ Len(b) = 1
        BY <1>3, <1>6, <2>1
      <3> HIDE DEF a
      <3>3. Len(a) + 1 \in 1..Len(a \o b) /\ (a \o b)[Len(a) + 1] = s
        BY <3>2
      <3> QED BY <3>1, <3>3 DEF InQueue
    <2> QED BY <1>2, <2>3, <2>4
  <1> QED BY <1>7, <1>8

-----------------------------------------------------------------------------
(* The books, step by step.                                                *)

(* A drafted claim overspends if the committed one did.                    *)
LEMMA OverDrafted ==
  ASSUME SettledForGood, NEW r \in Runs, NEW s, Over(claims[r], s)
  PROVE  Over(drafted[r], s)
  BY DEF SettledForGood, Over

(* Committing moves the owner's drafts and claims together.                *)
LEMMA CommitBooks ==
  ASSUME TypeOK, Books, NEW r \in Runs, Commit(r)
  PROVE  Books'
  <1>1. DraftsOwned'
    BY BudgetAssumption DEF Books, DraftsOwned, Commit
  <1>2. claims' = [claims EXCEPT ![r] = drafted[r]] /\ drafted' = drafted
        /\ \A q \in Runs : claims'[q] = IF q = r THEN drafted[r] ELSE claims[q]
    BY DEF TypeOK, Commit
  <1>3. SettledForGood'
    BY <1>2 DEF Books, SettledForGood
  <1>4. \A s : (\E q \in Runs : Over(claims[q], s)) =>
                \E q \in Runs : Over(claims'[q], s)
    BY <1>2, OverDrafted DEF Books
  <1>5. CountersWithin'
    <2> SUFFICES ASSUME NEW s \in Scopes
                 PROVE  counter'[s] <= Limit(s)
                        \/ \E q \in Runs : Over(claims'[q], s)
      BY DEF CountersWithin
    <2>1. CASE owner[s] = r
      <3>1. counter'[s] = draft[s]
        BY <2>1 DEF Commit
      <3>2. Over(drafted[r], s) => Over(claims'[r], s)
        BY <1>2
      <3> QED BY <1>4, <2>1, <3>1, <3>2 DEF Books, DraftsWithin
    <2>2. CASE owner[s] # r
      <3>1. counter'[s] = counter[s]
        BY <2>2 DEF Commit
      <3> QED BY <1>4, <3>1 DEF Books, CountersWithin
    <2> QED BY <2>1, <2>2
  <1>6. DraftsWithin'
    <2> SUFFICES ASSUME NEW s \in Scopes, NEW q \in Runs, owner'[s] = q
                 PROVE  \/ draft'[s] <= Limit(s)
                        \/ Over(drafted'[q], s)
                        \/ \E p \in Runs : Over(claims'[p], s)
      BY DEF DraftsWithin
    <2>1. owner[s] = q /\ draft'[s] = draft[s]
      BY BudgetAssumption DEF Commit
    <2> QED BY <1>2, <1>4, <2>1 DEF Books, DraftsWithin
  <1> QED BY <1>1, <1>3, <1>5, <1>6 DEF Books

(* Rolling back forgets the owner's drafts and claims together.            *)
LEMMA RollbackBooks ==
  ASSUME TypeOK, Books, NEW r \in Runs, Rollback(r)
  PROVE  Books'
  <1>1. DraftsOwned'
    BY BudgetAssumption DEF Books, DraftsOwned, Rollback
  <1>2. claims' = claims
        /\ \A q \in Runs : drafted'[q] = IF q = r THEN claims[r] ELSE drafted[q]
    BY DEF TypeOK, Rollback
  <1>3. SettledForGood'
    BY <1>2 DEF Books, SettledForGood
  <1>4. CountersWithin'
    BY <1>2 DEF Books, CountersWithin, Rollback
  <1>5. DraftsWithin'
    <2> SUFFICES ASSUME NEW s \in Scopes, NEW q \in Runs, owner'[s] = q
                 PROVE  \/ draft'[s] <= Limit(s)
                        \/ Over(drafted'[q], s)
                        \/ \E p \in Runs : Over(claims'[p], s)
      BY DEF DraftsWithin
    <2>1. owner[s] = q /\ q # r /\ draft'[s] = draft[s]
      BY BudgetAssumption DEF Rollback
    <2> QED BY <1>2, <2>1 DEF Books, DraftsWithin
  <1> QED BY <1>1, <1>3, <1>4, <1>5 DEF Books

(* A lock taken on a free counter starts from what is committed.           *)
LEMMA AcquireBooks ==
  ASSUME TypeOK, Books, NEW r \in Runs, Acquire(r),
         Head(session[r].want) \in Scopes
  PROVE  Books'
  <1> DEFINE h == Head(session[r].want)
  <1>1. /\ owner[h] \in {NoRun, r} /\ owner' = [owner EXCEPT ![h] = r]
        /\ UNCHANGED <<counter, draft, claims, drafted>>
        /\ \A s \in Scopes : owner'[s] = IF s = h THEN r ELSE owner[s]
    BY DEF Acquire, TypeOK
  <1>2. DraftsOwned'
    BY <1>1, BudgetAssumption DEF Books, DraftsOwned
  <1>3. SettledForGood' /\ CountersWithin'
    BY <1>1 DEF Books, SettledForGood, CountersWithin
  <1>4. DraftsWithin'
    <2> SUFFICES ASSUME NEW s \in Scopes, NEW q \in Runs, owner'[s] = q
                 PROVE  \/ draft[s] <= Limit(s)
                        \/ Over(drafted[q], s)
                        \/ \E p \in Runs : Over(claims[p], s)
      BY <1>1 DEF DraftsWithin
    <2>1. CASE owner[s] = q
      BY <2>1 DEF Books, DraftsWithin
    <2>2. CASE owner[s] # q
      <3>1. owner[s] = NoRun
        BY <1>1, <2>2
      <3>2. draft[s] = counter[s]
        BY <3>1 DEF Books, DraftsOwned
      <3> QED BY <3>2 DEF Books, CountersWithin
    <2> QED BY <2>1, <2>2
  <1> QED BY <1>2, <1>3, <1>4 DEF Books

(* Writing drafts of owned counters and one's own claims.                  *)
LEMMA DraftBooks ==
  ASSUME TypeOK, Books, NEW r \in Runs,
         UNCHANGED <<counter, owner, claims>>,
         \A s \in Scopes : owner[s] # r => draft'[s] = draft[s],
         \A q \in Runs : q # r => drafted'[q] = drafted[q],
         \A k \in Keys : drafted[r][k].status = "reconciled" =>
                           drafted'[r][k] = drafted[r][k],
         \A s \in Scopes : owner[s] = r => \/ draft'[s] <= Limit(s)
                                          \/ draft'[s] <= draft[s]
                                          \/ Over(drafted'[r], s),
         draft' \in [Scopes -> Nat]
  PROVE  Books'
  <1>1. DraftsOwned'
    BY BudgetAssumption DEF Books, DraftsOwned
  <1>2. SettledForGood'
    <2> SUFFICES ASSUME NEW q \in Runs, NEW k \in Keys,
                        claims[q][k].status = "reconciled"
                 PROVE  drafted'[q][k] = claims[q][k]
      BY DEF SettledForGood
    <2>1. drafted[q][k] = claims[q][k]
      BY DEF Books, SettledForGood
    <2> QED BY <2>1
  <1>3. CountersWithin'
    BY DEF Books, CountersWithin
  <1>4. DraftsWithin'
    <2> SUFFICES ASSUME NEW s \in Scopes, NEW q \in Runs, owner[s] = q
                 PROVE  \/ draft'[s] <= Limit(s)
                        \/ Over(drafted'[q], s)
                        \/ \E p \in Runs : Over(claims[p], s)
      BY DEF DraftsWithin
    <2>1. \/ draft[s] <= Limit(s)
          \/ Over(drafted[q], s)
          \/ \E p \in Runs : Over(claims[p], s)
      BY DEF Books, DraftsWithin
    <2>2. CASE q # r
      BY <2>1, <2>2
    <2>3. CASE q = r
      <3>1. Over(drafted[r], s) => Over(drafted'[r], s)
        BY DEF Over
      <3>2. draft[s] \in Nat /\ draft'[s] \in Nat /\ Limit(s) \in Nat
        BY LimitType DEF TypeOK
      <3> QED BY <2>1, <2>3, <3>1, <3>2
    <2> QED BY <2>2, <2>3
  <1> QED BY <1>1, <1>2, <1>3, <1>4 DEF Books

(* What a session has prepared survives the steps of the others.           *)
LEMMA OthersPrepared ==
  ASSUME TypeOK, NEW q \in Runs, Prepared(q),
         session'[q] = session[q], drafted'[q] = drafted[q],
         \A s \in Scopes : owner[s] = q => owner'[s] = q
  PROVE  Prepared(q)'
  <1>1. ClaimScopes(q) \subseteq Scopes /\ OpenScope(q) \subseteq Scopes
    BY ClaimScopesType, OpenScopeType
  <1>2. /\ DispatchKeys(q)' = DispatchKeys(q)
        /\ ClaimScopes(q)' = ClaimScopes(q)
        /\ OpenScope(q)' = OpenScope(q)
    BY DEF DispatchKeys, Model, ClaimScopes, ClaimPeriod, OpenScope, Open
  <1> QED BY <1>1, <1>2 DEF Prepared

(* What one session prepared survives a step of its own, if it prepares    *)
(* again; what the others prepared survives if their locks do.             *)
LEMMA AllPrepared ==
  ASSUME TypeOK, \A q \in Runs : Prepared(q), NEW r \in Runs, Prepared(r)',
         \A q \in Runs : q # r => /\ session'[q] = session[q]
                                  /\ drafted'[q] = drafted[q],
         \A s \in Scopes : owner[s] \in {NoRun, r} \/ owner'[s] = owner[s]
  PROVE  \A q \in Runs : Prepared(q)'
  <1> SUFFICES ASSUME NEW q \in Runs, q # r PROVE Prepared(q)'
    OBVIOUS
  <1>1. \A s \in Scopes : owner[s] = q => owner'[s] = q
    BY BudgetAssumption
  <1> QED BY <1>1, OthersPrepared

(* A session replaced by a session.                                        *)
LEMMA SessionType ==
  ASSUME TypeOK, NEW r \in Runs, NEW t \in Sessions,
         t.candidate \in 1..Len(Chain[r]),
         session' = [session EXCEPT ![r] = t]
  PROVE  /\ session' \in [Runs -> Sessions]
         /\ session'[r] = t
         /\ \A q \in Runs : session'[q].candidate \in 1..Len(Chain[q])
         /\ \A q \in Runs : q # r => session'[q] = session[q]
  BY DEF TypeOK

(* The steps that only move the session.                                   *)
LEMMA MovedSession ==
  ASSUME IInv, NEW r \in Runs, NEW t \in Sessions,
         t.candidate \in 1..Len(Chain[r]),
         session' = [session EXCEPT ![r] = t],
         Prepared(r)',
         UNCHANGED <<counter, draft, owner, claims, drafted, today>>
  PROVE  IInv'
  <1>1. /\ session' \in [Runs -> Sessions]
        /\ \A q \in Runs : session'[q].candidate \in 1..Len(Chain[q])
        /\ \A q \in Runs : q # r => session'[q] = session[q]
    BY SessionType DEF IInv
  <1>2. TypeOK'
    BY <1>1 DEF IInv, TypeOK
  <1>3. Books'
    BY DEF IInv, Books, DraftsOwned, SettledForGood, CountersWithin, DraftsWithin
  <1>4. \A q \in Runs : Prepared(q)'
    BY <1>1, AllPrepared DEF IInv
  <1> QED BY <1>2, <1>3, <1>4 DEF IInv

(* A session that neither locks, holds a receipt nor settles is prepared.  *)
LEMMA NothingToPrepare ==
  ASSUME NEW r \in Runs,
         session'[r].pc \notin {"locking", "claimed", "calling", "settling"}
  PROVE  Prepared(r)'
  BY DEF Prepared

(* The next candidate is one of the chain.                                 *)
LEMMA NextCandidateType ==
  ASSUME TypeOK, NEW r \in Runs, session[r].candidate < Len(Chain[r])
  PROVE  /\ NextCandidate(r) \in Sessions
         /\ NextCandidate(r).candidate \in 1..Len(Chain[r])
         /\ NextCandidate(r).pc = "claiming"
  <1>1. /\ session[r] \in Sessions /\ 0 \in 0..MaxRetries
        /\ session[r].candidate \in 1..Len(Chain[r]) /\ Len(Chain[r]) \in Nat
    BY BudgetAssumption DEF TypeOK
  <1>2. NextCandidate(r) = [session[r] EXCEPT !.pc = "claiming", !.retry = 0,
                    !.candidate = session[r].candidate + 1, !.receipt = {}]
    BY DEF NextCandidate
  <1>3. session[r].candidate + 1 \in 1..Len(Chain[r])
    BY <1>1
  <1>4. NextCandidate(r).candidate = session[r].candidate + 1
        /\ NextCandidate(r).pc = "claiming"
    BY <1>1, <1>2 DEF Sessions
  <1>5. NextCandidate(r) \in Sessions
    <2> DEFINE c == session[r].candidate + 1
    <2>1. c \in Nat /\ {} \in SUBSET Keys
      BY <1>1
    <2>2. session[r] \in Sessions /\ 0 \in 0..MaxRetries
      BY <1>1
    <2> HIDE DEF c
    <2>3. [session[r] EXCEPT !.pc = "claiming", !.retry = 0, !.candidate = c,
                             !.receipt = {}] \in Sessions
      BY <2>1, <2>2 DEF Sessions
    <2> QED BY <1>2, <2>3 DEF c
  <1> QED BY <1>3, <1>4, <1>5

-----------------------------------------------------------------------------
(* The initial states and the steps.                                       *)

LEMMA InitIInv == Init => IInv
  <1> SUFFICES ASSUME Init PROVE IInv
    OBVIOUS
  <1>1. \A r \in Runs : Len(Chain[r]) \in Nat \ {0}
    BY BudgetAssumption
  <1>2. 0 \in Periods
    BY BudgetAssumption DEF Periods
  <1>3. NoClaim \in Claims
    BY <1>2 DEF NoClaim, Claims
  <1>4. \A r \in Runs : session[r] \in Sessions
    BY <1>2, BudgetAssumption DEF Init, Sessions, Stopped
  <1>5. session \in [Runs -> Sessions]
    BY <1>4 DEF Init
  <1>6. TypeOK
    BY <1>1, <1>2, <1>3, <1>5 DEF Init, TypeOK
  <1>7. \A s \in Scopes : counter[s] <= Limit(s)
    BY LimitType DEF Init
  <1>8. Books
    BY <1>7, BudgetAssumption
       DEF Init, Books, DraftsOwned, SettledForGood, CountersWithin,
           DraftsWithin, NoClaim
  <1>9. \A r \in Runs : Prepared(r)
    BY DEF Init, Prepared
  <1> QED BY <1>6, <1>8, <1>9 DEF IInv

LEMMA ClaimAgainIInv ==
  ASSUME IInv, NEW r \in Runs, ClaimAgain(r)
  PROVE  IInv'
  <1> DEFINE existing == {k \in DispatchKeys(r) : drafted[r][k].status # "none"}
             t == [session[r] EXCEPT !.pc = "claimed", !.receipt = existing]
  <1>1. existing \subseteq Keys
    BY DispatchKeysType DEF IInv
  <1>2. t \in Sessions /\ t.candidate \in 1..Len(Chain[r])
    BY <1>1 DEF IInv, TypeOK, Sessions
  <1>3. session' = [session EXCEPT ![r] = t]
    BY DEF ClaimAgain
  <1>4. session'[r] = t
    BY <1>2, <1>3, SessionType DEF IInv
  <1>5. session[r] \in Sessions
    BY DEF IInv, TypeOK
  <1>6. /\ session'[r].candidate = session[r].candidate
        /\ session'[r].retry = session[r].retry
        /\ session'[r].receipt = existing
        /\ session'[r].pc = "claimed"
    BY <1>4, <1>5 DEF Sessions
  <1>7. DispatchKeys(r)' = DispatchKeys(r)
    BY <1>6 DEF DispatchKeys, Model
  <1>8. Prepared(r)'
    BY <1>6, <1>7 DEF Prepared
  <1> QED BY <1>2, <1>3, <1>8, MovedSession DEF ClaimAgain

LEMMA UnconfiguredIInv ==
  ASSUME IInv, NEW r \in Runs, Unconfigured(r)
  PROVE  IInv'
  <1> DEFINE t == [session[r] EXCEPT !.pc = "closing"]
  <1>1. session[r] \in Sessions /\ session[r].candidate \in 1..Len(Chain[r])
    BY DEF IInv, TypeOK
  <1>2. t \in Sessions /\ t.candidate \in 1..Len(Chain[r]) /\ t.pc = "closing"
    BY <1>1 DEF Sessions
  <1>3. session' = [session EXCEPT ![r] = t]
    BY DEF Unconfigured
  <1>4. session'[r] = t
    BY <1>2, <1>3, SessionType DEF IInv
  <1>5. Prepared(r)'
    BY <1>2, <1>4, NothingToPrepare
  <1> QED BY <1>2, <1>3, <1>5, MovedSession DEF Unconfigured

LEMMA StartClaimIInv ==
  ASSUME IInv, NEW r \in Runs, StartClaim(r)
  PROVE  IInv'
  <1> DEFINE scope(kind) == [provider |-> Provider[Model(r)], kind |-> kind,
                             period |-> PeriodOf(kind)]
             t == [session[r] EXCEPT !.pc = "locking",
                     !.want = <<scope("day"), scope("month")>>,
                     !.day = PeriodOf("day"), !.month = PeriodOf("month")]
  <1>1. session[r] \in Sessions /\ session[r].candidate \in 1..Len(Chain[r])
    BY DEF IInv, TypeOK
  <1>2. PeriodOf("day") \in Periods /\ PeriodOf("month") \in Periods
    BY PeriodOfType DEF IInv
  <1>3. Model(r) \in Models /\ Provider[Model(r)] \in Providers
    BY DispatchKeysType, BudgetAssumption DEF IInv
  <1>4. scope("day") \in Scopes /\ scope("month") \in Scopes
    BY <1>2, <1>3 DEF Scopes, Kinds, Periods
  <1>5. <<scope("day"), scope("month")>> \in Seq(Scopes)
    BY <1>4
  <1> HIDE DEF scope
  <1>6. /\ t \in Sessions /\ t.candidate \in 1..Len(Chain[r])
        /\ t.pc = "locking" /\ t.candidate = session[r].candidate
        /\ t.retry = session[r].retry
        /\ t.day = PeriodOf("day") /\ t.month = PeriodOf("month")
        /\ t.want = <<scope("day"), scope("month")>>
    BY <1>1, <1>2, <1>5 DEF Sessions
  <1>7. session' = [session EXCEPT ![r] = t]
    BY DEF StartClaim, scope
  <1> HIDE DEF t
  <1>8. session'[r] = t
    BY <1>6, <1>7, SessionType DEF IInv
  <1>9. DispatchKeys(r)' = DispatchKeys(r)
    BY <1>6, <1>8 DEF DispatchKeys, Model
  <1>10. ASSUME NEW s \in ClaimScopes(r)' PROVE InQueue(s, t.want)
    <2>1. PICK k \in DispatchKeys(r) : s = ScopeOf(k, ClaimPeriod(r, k.kind)')
      BY <1>9, <1>10 DEF ClaimScopes
    <2>2. k.model = Model(r) /\ k.kind \in {"day", "month"}
      BY DEF DispatchKeys, Kinds
    <2>3. s = scope("day") \/ s = scope("month")
      BY <1>6, <1>8, <2>1, <2>2 DEF ScopeOf, ClaimPeriod, scope
    <2>4. InQueue(s, <<scope("day"), scope("month")>>)
      BY <2>3 DEF InQueue
    <2> QED BY <1>6, <2>4
  <1>11. \A k \in DispatchKeys(r) : drafted'[r][k].status = "none"
    BY DEF StartClaim
  <1>12. Prepared(r)'
    BY <1>6, <1>8, <1>9, <1>10, <1>11 DEF Prepared
  <1> QED BY <1>6, <1>7, <1>12, MovedSession DEF StartClaim

LEMMA ExceededIInv ==
  ASSUME IInv, NEW r \in Runs, Exceeded(r)
  PROVE  IInv'
  <1>1. session[r] \in Sessions /\ session[r].candidate \in 1..Len(Chain[r])
    BY DEF IInv, TypeOK
  <1>2. CASE session' = [session EXCEPT ![r].pc = "closing"]
    <2> DEFINE t == [session[r] EXCEPT !.pc = "closing"]
    <2>1. t \in Sessions /\ t.candidate \in 1..Len(Chain[r]) /\ t.pc = "closing"
      BY <1>1 DEF Sessions
    <2>2. session' = [session EXCEPT ![r] = t]
      BY <1>2
    <2>3. session'[r] = t
      BY <2>1, <2>2, SessionType DEF IInv
    <2>4. Prepared(r)'
      BY <2>1, <2>3, NothingToPrepare
    <2> QED BY <2>1, <2>2, <2>4, MovedSession DEF Exceeded
  <1>3. CASE /\ session[r].candidate < Len(Chain[r])
             /\ session' = [session EXCEPT ![r] = NextCandidate(r)]
    <2>1. /\ NextCandidate(r) \in Sessions
          /\ NextCandidate(r).candidate \in 1..Len(Chain[r])
          /\ NextCandidate(r).pc = "claiming"
      BY <1>1, <1>3, NextCandidateType DEF IInv
    <2>2. session'[r] = NextCandidate(r)
      BY <1>3, <2>1, SessionType DEF IInv
    <2>3. Prepared(r)'
      BY <2>1, <2>2, NothingToPrepare
    <2> QED BY <1>3, <2>1, <2>3, MovedSession DEF Exceeded
  <1> QED BY <1>2, <1>3 DEF Exceeded, StopOrFallBack

LEMMA AttemptedIInv ==
  ASSUME IInv, NEW r \in Runs, Attempted(r)
  PROVE  IInv'
  <1>1. session[r] \in Sessions /\ session[r].candidate \in 1..Len(Chain[r])
    BY DEF IInv, TypeOK
  <1>2. PICK next \in {"close", "retry", "fallback"}, cost \in Actuals \cup {Estimate} :
          /\ session' = [session EXCEPT ![r].pc = "settling", ![r].next = next,
                           ![r].cost = cost, ![r].want = SettleOrder(r)]
          /\ next = "retry" => session[r].retry < MaxRetries
          /\ next = "fallback" => session[r].candidate < Len(Chain[r])
    BY DEF Attempted
  <1> DEFINE t == [session[r] EXCEPT !.pc = "settling", !.next = next,
                     !.cost = cost, !.want = SettleOrder(r)]
  <1>3. session[r].receipt \subseteq DispatchKeys(r)
    BY DEF IInv, Prepared, Attempted
  <1>4. /\ SettleOrder(r) \in Seq(Scopes)
        /\ \A s \in OpenScope(r) : InQueue(s, SettleOrder(r))
    BY <1>3, SettleOrderQueues DEF IInv
  <1>5. cost \in Nat
    BY BudgetAssumption
  <1>6. /\ t \in Sessions /\ t.candidate \in 1..Len(Chain[r])
        /\ t.pc = "settling" /\ t.candidate = session[r].candidate
        /\ t.retry = session[r].retry /\ t.receipt = session[r].receipt
        /\ t.want = SettleOrder(r) /\ t.next = next
    BY <1>1, <1>4, <1>5 DEF Sessions
  <1>7. session' = [session EXCEPT ![r] = t]
    BY <1>2
  <1> HIDE DEF t
  <1>8. session'[r] = t
    BY <1>6, <1>7, SessionType DEF IInv
  <1>9. /\ DispatchKeys(r)' = DispatchKeys(r)
        /\ OpenScope(r)' = OpenScope(r)
    BY <1>6, <1>8 DEF DispatchKeys, Model, OpenScope, Open, Attempted
  <1>10. Prepared(r)'
    BY <1>2, <1>3, <1>4, <1>6, <1>8, <1>9 DEF Prepared
  <1> QED BY <1>6, <1>7, <1>10, MovedSession DEF Attempted

LEMMA AcquireIInv ==
  ASSUME IInv, NEW r \in Runs, Acquire(r)
  PROVE  IInv'
  <1> DEFINE h == Head(session[r].want)
             t == [session[r] EXCEPT !.want = Tail(@)]
  <1>1. session[r] \in Sessions /\ session[r].candidate \in 1..Len(Chain[r])
    BY DEF IInv, TypeOK
  <1>2. session[r].want \in Seq(Scopes) /\ session[r].want # <<>>
    BY <1>1 DEF Sessions, Acquire
  <1>3. h \in Scopes /\ Tail(session[r].want) \in Seq(Scopes)
    BY <1>2
  <1>4. /\ t \in Sessions /\ t.candidate \in 1..Len(Chain[r])
        /\ t.pc = session[r].pc /\ t.candidate = session[r].candidate
        /\ t.retry = session[r].retry /\ t.receipt = session[r].receipt
        /\ t.day = session[r].day /\ t.month = session[r].month
        /\ t.next = session[r].next
        /\ t.want = Tail(session[r].want)
    BY <1>1, <1>3 DEF Sessions
  <1>5. session' = [session EXCEPT ![r] = t]
    BY DEF Acquire
  <1> HIDE DEF t
  <1>6. /\ session' \in [Runs -> Sessions] /\ session'[r] = t
        /\ \A q \in Runs : session'[q].candidate \in 1..Len(Chain[q])
        /\ \A q \in Runs : q # r => session'[q] = session[q]
    BY <1>4, <1>5, SessionType DEF IInv
  <1>7. /\ owner' \in [Scopes -> Runs \cup {NoRun}]
        /\ \A s \in Scopes : owner'[s] = IF s = h THEN r ELSE owner[s]
    BY <1>3 DEF IInv, TypeOK, Acquire
  <1>8. TypeOK'
    BY <1>6, <1>7 DEF IInv, TypeOK, Acquire
  <1>9. Books'
    BY <1>3, AcquireBooks DEF IInv
  <1>10. Prepared(r)'
    <2>1. /\ DispatchKeys(r)' = DispatchKeys(r)
          /\ ClaimScopes(r)' = ClaimScopes(r)
          /\ OpenScope(r)' = OpenScope(r)
      <3>1. DispatchKeys(r)' = DispatchKeys(r)
        BY <1>4, <1>6 DEF DispatchKeys, Model
      <3>2. \A kind : ClaimPeriod(r, kind)' = ClaimPeriod(r, kind)
        BY <1>4, <1>6 DEF ClaimPeriod
      <3>3. ClaimScopes(r)' = ClaimScopes(r)
        BY <3>1, <3>2 DEF ClaimScopes
      <3>4. OpenScope(r)' = OpenScope(r)
        BY <1>4, <1>6 DEF OpenScope, Open, Acquire
      <3> QED BY <3>1, <3>3, <3>4
    <2>2. ASSUME NEW s \in Scopes, owner[s] = r \/ InQueue(s, session[r].want)
          PROVE  owner'[s] = r \/ InQueue(s, t.want)
      <3>1. CASE owner[s] = r
        BY <1>7, <3>1
      <3>2. CASE InQueue(s, session[r].want)
        <4>1. s = h \/ InQueue(s, Tail(session[r].want))
          BY <1>2, <3>2, QueueHead
        <4> QED BY <1>4, <1>7, <4>1
      <3> QED BY <2>2, <3>1, <3>2
    <2>3. ClaimScopes(r) \subseteq Scopes /\ OpenScope(r) \subseteq Scopes
      BY ClaimScopesType, OpenScopeType DEF IInv
    <2>4. drafted' = drafted /\ Prepared(r)
      BY DEF Acquire, IInv
    <2> QED BY <1>4, <1>6, <2>1, <2>2, <2>3, <2>4 DEF Prepared
  <1>11. \A s \in Scopes : owner[s] \in {NoRun, r} \/ owner'[s] = owner[s]
    BY <1>7 DEF Acquire
  <1>12. \A q \in Runs : Prepared(q)'
    BY <1>6, <1>10, <1>11, AllPrepared DEF IInv, Acquire
  <1> QED BY <1>8, <1>9, <1>12 DEF IInv

(* A commit or a rollback gives up the session's locks, no others.         *)
LEMMA EndOfTransaction ==
  ASSUME TypeOK, NEW r \in Runs, Commit(r) \/ Rollback(r)
  PROVE  /\ counter' \in [Scopes -> Nat] /\ draft' \in [Scopes -> Nat]
         /\ owner' \in [Scopes -> Runs \cup {NoRun}]
         /\ claims' \in [Runs -> [Keys -> Claims]]
         /\ drafted' \in [Runs -> [Keys -> Claims]]
         /\ \A s \in Scopes : owner[s] \in {NoRun, r} \/ owner'[s] = owner[s]
         /\ \A q \in Runs : q # r => drafted'[q] = drafted[q]
  <1>1. CASE Commit(r)
    BY <1>1 DEF Commit, TypeOK
  <1>2. CASE Rollback(r)
    BY <1>2 DEF Rollback, TypeOK
  <1> QED BY <1>1, <1>2

(* The steps that end a transaction.                                       *)
LEMMA EndedTransaction ==
  ASSUME IInv, NEW r \in Runs, NEW t \in Sessions,
         t.candidate \in 1..Len(Chain[r]),
         session' = [session EXCEPT ![r] = t],
         Commit(r) \/ Rollback(r), Prepared(r)', UNCHANGED today
  PROVE  IInv'
  <1>1. /\ session' \in [Runs -> Sessions]
        /\ \A q \in Runs : session'[q].candidate \in 1..Len(Chain[q])
        /\ \A q \in Runs : q # r => session'[q] = session[q]
    BY SessionType DEF IInv
  <1>2. TypeOK'
    BY <1>1, EndOfTransaction DEF IInv, TypeOK
  <1>3. Books'
    BY CommitBooks, RollbackBooks DEF IInv
  <1>4. \A q \in Runs : Prepared(q)'
    BY <1>1, EndOfTransaction, AllPrepared DEF IInv
  <1> QED BY <1>2, <1>3, <1>4 DEF IInv

LEMMA CheckpointIInv ==
  ASSUME IInv, NEW r \in Runs, Checkpoint(r)
  PROVE  IInv'
  <1> DEFINE t == [session[r] EXCEPT !.pc = "calling"]
  <1>1. session[r] \in Sessions /\ session[r].candidate \in 1..Len(Chain[r])
    BY DEF IInv, TypeOK
  <1>2. /\ t \in Sessions /\ t.candidate \in 1..Len(Chain[r])
        /\ t.pc = "calling" /\ t.candidate = session[r].candidate
        /\ t.retry = session[r].retry /\ t.receipt = session[r].receipt
    BY <1>1 DEF Sessions
  <1>3. session' = [session EXCEPT ![r] = t]
    BY DEF Checkpoint
  <1> HIDE DEF t
  <1>4. session'[r] = t
    BY <1>2, <1>3, SessionType DEF IInv
  <1>5. session[r].receipt \subseteq DispatchKeys(r)
    BY DEF IInv, Prepared, Checkpoint
  <1>6. DispatchKeys(r)' = DispatchKeys(r)
    BY <1>2, <1>4 DEF DispatchKeys, Model
  <1>7. Prepared(r)'
    BY <1>2, <1>4, <1>5, <1>6 DEF Prepared
  <1> QED BY <1>2, <1>3, <1>7, EndedTransaction DEF Checkpoint

LEMMA CloseIInv ==
  ASSUME IInv, NEW r \in Runs, Close(r)
  PROVE  IInv'
  <1> DEFINE t == [session[r] EXCEPT !.pc = "done"]
  <1>1. session[r] \in Sessions /\ session[r].candidate \in 1..Len(Chain[r])
    BY DEF IInv, TypeOK
  <1>2. t \in Sessions /\ t.candidate \in 1..Len(Chain[r]) /\ t.pc = "done"
    BY <1>1 DEF Sessions, Stopped
  <1>3. session' = [session EXCEPT ![r] = t]
    BY DEF Close
  <1>4. session'[r] = t
    BY <1>2, <1>3, SessionType DEF IInv
  <1>5. Prepared(r)'
    BY <1>2, <1>4, NothingToPrepare
  <1> QED BY <1>2, <1>3, <1>5, EndedTransaction DEF Close

LEMMA InterruptedIInv ==
  ASSUME IInv, NEW r \in Runs, Victim(r) \/ Crash(r)
  PROVE  IInv'
  <1>1. PICK pc \in {"aborted", "lost"} :
          session' = [session EXCEPT ![r].pc = pc, ![r].want = <<>>]
    BY DEF Victim, Crash
  <1> DEFINE t == [session[r] EXCEPT !.pc = pc, !.want = <<>>]
  <1>2. session[r] \in Sessions /\ session[r].candidate \in 1..Len(Chain[r])
    BY DEF IInv, TypeOK
  <1>3. t \in Sessions /\ t.candidate \in 1..Len(Chain[r]) /\ t.pc = pc
    <2>1. <<>> \in Seq(Scopes) /\ pc \in Stopped
      BY DEF Stopped
    <2> QED BY <1>2, <2>1 DEF Sessions
  <1>4. session' = [session EXCEPT ![r] = t]
    BY <1>1
  <1>5. session'[r] = t
    BY <1>3, <1>4, SessionType DEF IInv
  <1>6. Prepared(r)'
    BY <1>3, <1>5, NothingToPrepare
  <1>7. Rollback(r) /\ UNCHANGED today
    BY DEF Victim, Crash
  <1> QED BY <1>3, <1>4, <1>6, <1>7, EndedTransaction

LEMMA NextDayIInv ==
  ASSUME IInv, NextDay
  PROVE  IInv'
  <1>1. TypeOK'
    BY BudgetAssumption DEF IInv, TypeOK, NextDay, Periods
  <1>2. Books'
    BY DEF IInv, NextDay, Books, DraftsOwned, SettledForGood, CountersWithin,
           DraftsWithin
  <1>3. \A q \in Runs : Prepared(q)'
    BY OthersPrepared DEF IInv, NextDay
  <1> QED BY <1>1, <1>2, <1>3 DEF IInv

(* The steps that write drafts.                                            *)
LEMMA DraftedStep ==
  ASSUME IInv, NEW r \in Runs, NEW t \in Sessions,
         t.candidate \in 1..Len(Chain[r]),
         session' = [session EXCEPT ![r] = t], Prepared(r)',
         drafted' = [drafted EXCEPT ![r] = drafted'[r]],
         drafted'[r] \in [Keys -> Claims], draft' \in [Scopes -> Nat],
         Books', UNCHANGED <<counter, owner, claims, today>>
  PROVE  IInv'
  <1>1. /\ session' \in [Runs -> Sessions]
        /\ \A q \in Runs : session'[q].candidate \in 1..Len(Chain[q])
        /\ \A q \in Runs : q # r => session'[q] = session[q]
    BY SessionType DEF IInv
  <1>2. drafted' \in [Runs -> [Keys -> Claims]]
        /\ \A q \in Runs : q # r => drafted'[q] = drafted[q]
    BY DEF IInv, TypeOK
  <1>3. TypeOK'
    BY <1>1, <1>2 DEF IInv, TypeOK
  <1>4. \A q \in Runs : Prepared(q)'
    BY <1>1, <1>2, AllPrepared DEF IInv
  <1> QED BY <1>3, <1>4 DEF IInv

LEMMA ReserveIInv ==
  ASSUME IInv, NEW r \in Runs, Reserve(r)
  PROVE  IInv'
  <1> DEFINE t == [session[r] EXCEPT !.pc = "claimed", !.receipt = DispatchKeys(r)]
             claim(k) == [status |-> "claimed", period |-> ClaimPeriod(r, k.kind),
                          cost |-> Estimate]
  <1>1. session[r] \in Sessions /\ session[r].candidate \in 1..Len(Chain[r])
    BY DEF IInv, TypeOK
  <1>2. DispatchKeys(r) \subseteq Keys /\ ClaimScopes(r) \subseteq Scopes
    BY DispatchKeysType, ClaimScopesType DEF IInv
  <1>3. /\ t \in Sessions /\ t.candidate \in 1..Len(Chain[r])
        /\ t.pc = "claimed" /\ t.candidate = session[r].candidate
        /\ t.retry = session[r].retry /\ t.receipt = DispatchKeys(r)
    BY <1>1, <1>2 DEF Sessions
  <1>4. session' = [session EXCEPT ![r] = t]
    BY DEF Reserve
  <1> HIDE DEF t
  <1>5. session'[r] = t
    BY <1>3, <1>4, SessionType DEF IInv
  <1>6. \A k \in Keys : claim(k) \in Claims
    BY <1>1, BudgetAssumption DEF Claims, ClaimPeriod, Sessions
  <1>7. /\ drafted'[r] = [k \in Keys |-> IF k \in DispatchKeys(r) THEN claim(k)
                                                                ELSE drafted[r][k]]
        /\ drafted' = [drafted EXCEPT ![r] = drafted'[r]]
    BY DEF Reserve, IInv, TypeOK
  <1> HIDE DEF claim
  <1>8. drafted'[r] \in [Keys -> Claims]
    BY <1>6, <1>7 DEF IInv, TypeOK
  <1>9. draft' \in [Scopes -> Nat]
    BY BudgetAssumption DEF IInv, TypeOK, Reserve
  <1>10. DispatchKeys(r)' = DispatchKeys(r)
    BY <1>3, <1>5 DEF DispatchKeys, Model
  <1>11. Prepared(r)'
    BY <1>3, <1>5, <1>10 DEF Prepared
  <1>12. \A s \in ClaimScopes(r) : owner[s] = r
    BY DEF IInv, Prepared, Reserve, InQueue
  <1>13. \A k \in DispatchKeys(r) : drafted[r][k].status = "none"
    BY DEF IInv, Prepared, Reserve
  <1>14. Books'
    <2>1. \A s \in Scopes : owner[s] # r => draft'[s] = draft[s]
      BY <1>12 DEF Reserve
    <2>2. \A q \in Runs : q # r => drafted'[q] = drafted[q]
      BY DEF Reserve, IInv, TypeOK
    <2>3. \A k \in Keys : drafted[r][k].status = "reconciled" =>
                            drafted'[r][k] = drafted[r][k]
      BY <1>7, <1>13
    <2>4. ASSUME NEW s \in Scopes
          PROVE  draft'[s] <= Limit(s) \/ draft'[s] <= draft[s]
      <3>1. CASE s \in ClaimScopes(r)
        BY <3>1 DEF Reserve, Fits
      <3>2. CASE s \notin ClaimScopes(r)
        BY <3>2 DEF Reserve, IInv, TypeOK
      <3> QED BY <3>1, <3>2
    <2> QED BY <1>9, <2>1, <2>2, <2>3, <2>4, DraftBooks DEF IInv, Reserve
  <1> QED BY <1>3, <1>4, <1>7, <1>8, <1>9, <1>11, <1>14, DraftedStep DEF Reserve

(* The session after a reconciliation.                                     *)
LEMMA SettledSession ==
  ASSUME IInv, NEW r \in Runs, Settle(r)
  PROVE  \E t \in Sessions : /\ t.candidate \in 1..Len(Chain[r])
                             /\ t.pc \in {"claiming", "closing"}
                             /\ session' = [session EXCEPT ![r] = t]
  <1>1. session[r] \in Sessions /\ session[r].candidate \in 1..Len(Chain[r])
    BY DEF IInv, TypeOK
  <1>2. CASE /\ session[r].next = "retry"
             /\ session' = [session EXCEPT ![r] = NextRetry(r)]
    <2>1. session[r].retry < MaxRetries
      BY <1>2 DEF IInv, Prepared, Settle
    <2>2. session[r].retry + 1 \in 0..MaxRetries
      <3>1. session[r].retry \in 0..MaxRetries /\ MaxRetries \in Nat
        BY <1>1, BudgetAssumption DEF Sessions
      <3> QED BY <2>1, <3>1
    <2>3. /\ NextRetry(r) \in Sessions /\ NextRetry(r).pc = "claiming"
          /\ NextRetry(r).candidate = session[r].candidate
      BY <1>1, <2>2 DEF NextRetry, Sessions
    <2> QED BY <1>1, <1>2, <2>3
  <1>3. CASE /\ session[r].next = "fallback"
             /\ session' = [session EXCEPT ![r] = NextCandidate(r)]
    <2>1. session[r].candidate < Len(Chain[r])
      BY <1>3 DEF IInv, Prepared, Settle
    <2> QED BY <1>3, <2>1, NextCandidateType DEF IInv
  <1>4. CASE session' = [session EXCEPT ![r].pc = "closing"]
    <2> DEFINE t == [session[r] EXCEPT !.pc = "closing"]
    <2>1. t \in Sessions /\ t.candidate = session[r].candidate /\ t.pc = "closing"
      BY <1>1 DEF Sessions
    <2> QED BY <1>1, <1>4, <2>1
  <1> QED BY <1>2, <1>3, <1>4 DEF Settle

LEMMA SettleIInv ==
  ASSUME IInv, NEW r \in Runs, Settle(r)
  PROVE  IInv'
  <1>1. PICK t \in Sessions : /\ t.candidate \in 1..Len(Chain[r])
                              /\ t.pc \in {"claiming", "closing"}
                              /\ session' = [session EXCEPT ![r] = t]
    BY SettledSession
  <1>2. session'[r] = t
    BY <1>1, SessionType DEF IInv
  <1>3. Prepared(r)'
    BY <1>1, <1>2, NothingToPrepare
  <1>4. session[r].cost \in Nat /\ Estimate \in Nat
    BY BudgetAssumption DEF IInv, TypeOK, Sessions
  <1> DEFINE claim(k) == [drafted[r][k] EXCEPT !.status = "reconciled",
                                               !.cost = session[r].cost]
  <1>5. /\ drafted'[r] = [k \in Keys |-> IF k \in Open(r) THEN claim(k)
                                                        ELSE drafted[r][k]]
        /\ drafted' = [drafted EXCEPT ![r] = drafted'[r]]
    BY DEF Settle, IInv, TypeOK
  <1>6. \A k \in Keys : /\ claim(k) \in Claims
                        /\ claim(k).status = "reconciled"
                        /\ claim(k).cost = session[r].cost
                        /\ claim(k).period = drafted[r][k].period
    <2> SUFFICES ASSUME NEW k \in Keys
                 PROVE  /\ claim(k) \in Claims
                        /\ claim(k).status = "reconciled"
                        /\ claim(k).cost = session[r].cost
                        /\ claim(k).period = drafted[r][k].period
      OBVIOUS
    <2>1. drafted[r][k] \in Claims
      BY DEF IInv, TypeOK
    <2> QED BY <1>4, <2>1 DEF Claims
  <1> HIDE DEF claim
  <1>7. drafted'[r] \in [Keys -> Claims]
    BY <1>5, <1>6 DEF IInv, TypeOK
  <1>8. draft' = [s \in Scopes |-> IF s \in OpenScope(r) THEN Reconciled(s, r)
                                                      ELSE draft[s]]
    BY DEF Settle, OpenScope
  <1>9. \A s \in Scopes : /\ Reconciled(s, r) \in Nat
                          /\ \/ Reconciled(s, r) <= draft[s]
                             \/ session[r].cost > Estimate
    <2> SUFFICES ASSUME NEW s \in Scopes
                 PROVE  /\ Reconciled(s, r) \in Nat
                        /\ \/ Reconciled(s, r) <= draft[s]
                           \/ session[r].cost > Estimate
      OBVIOUS
    <2>1. draft[s] \in Nat
      BY DEF IInv, TypeOK
    <2> QED BY <1>4, <2>1 DEF Reconciled
  <1>10. draft' \in [Scopes -> Nat]
    BY <1>8, <1>9 DEF IInv, TypeOK
  <1>11. \A s \in OpenScope(r) : owner[s] = r
    <2>1. \A s \in OpenScope(r) : owner[s] = r \/ InQueue(s, session[r].want)
      BY DEF IInv, Prepared, Settle
    <2>2. session[r].want = <<>>
      BY DEF Settle
    <2> QED BY <2>1, <2>2 DEF InQueue
  <1>12. Open(r) \subseteq Keys
         /\ \A k \in Open(r) : drafted[r][k].status = "claimed"
    BY DEF IInv, TypeOK, Sessions, Open
  <1>13. Books'
    <2>1. \A s \in Scopes : owner[s] # r => draft'[s] = draft[s]
      BY <1>8, <1>11
    <2>2. \A q \in Runs : q # r => drafted'[q] = drafted[q]
      BY DEF Settle, IInv, TypeOK
    <2>3. \A k \in Keys : drafted[r][k].status = "reconciled" =>
                            drafted'[r][k] = drafted[r][k]
      BY <1>5, <1>12
    <2>4. ASSUME NEW s \in Scopes
          PROVE  draft'[s] <= draft[s] \/ Over(drafted'[r], s)
      <3>1. CASE s \notin OpenScope(r)
        BY <1>8, <3>1 DEF IInv, TypeOK
      <3>2. CASE s \in OpenScope(r) /\ session[r].cost > Estimate
        <4>1. PICK k \in Open(r) : s = ScopeOf(k, drafted[r][k].period)
          BY <3>2 DEF OpenScope
        <4>2. k \in Keys /\ drafted'[r][k] = claim(k)
          BY <1>5, <1>12
        <4> QED BY <1>6, <3>2, <4>1, <4>2 DEF Over
      <3>3. CASE s \in OpenScope(r) /\ ~(session[r].cost > Estimate)
        BY <1>8, <1>9, <3>3
      <3> QED BY <3>1, <3>2, <3>3
    <2> QED BY <1>10, <2>1, <2>2, <2>3, <2>4, DraftBooks DEF IInv, Settle
  <1> QED BY <1>1, <1>3, <1>5, <1>7, <1>10, <1>13, DraftedStep DEF Settle

(* Every step keeps the invariant.                                         *)
LEMMA NextIInv == IInv /\ [Next]_vars => IInv'
  <1> SUFFICES ASSUME IInv, [Next]_vars PROVE IInv'
    OBVIOUS
  <1>1. CASE \E r \in Runs : ChainStep(r) \/ Crash(r)
    <2>1. PICK r \in Runs : ChainStep(r) \/ Crash(r)
      BY <1>1
    <2> QED BY <2>1, ClaimAgainIInv, UnconfiguredIInv, StartClaimIInv,
               AcquireIInv, ReserveIInv, ExceededIInv, CheckpointIInv,
               AttemptedIInv, SettleIInv, CloseIInv, InterruptedIInv
            DEF ChainStep
  <1>2. CASE NextDay
    BY <1>2, NextDayIInv
  <1>3. CASE UNCHANGED vars
    <2>1. TypeOK' /\ Books'
      BY <1>3 DEF vars, IInv, TypeOK, Books, DraftsOwned, SettledForGood,
                  CountersWithin, DraftsWithin
    <2>2. \A q \in Runs : Prepared(q)'
      BY <1>3, OthersPrepared DEF vars, IInv
    <2> QED BY <2>1, <2>2 DEF IInv
  <1> QED BY <1>1, <1>2, <1>3 DEF Next

-----------------------------------------------------------------------------
(* The theorems.                                                           *)

(* The books balance, and sessions write only what they locked.            *)
THEOREM Invariance == Spec => []IInv
  BY InitIInv, NextIInv, PTL DEF Spec

(* Counters, claims and sessions keep their types.                         *)
THEOREM BudgetTypes == Spec => []TypeOK
  <1>1. IInv => TypeOK
    BY DEF IInv
  <1> QED BY <1>1, Invariance, PTL

(* Concurrent chains never reserve beyond a limit, through retries,        *)
(* fallbacks, midnight and crashes: claim_before_dispatch and reconcile.   *)
THEOREM NeverOverReserved == Spec => []ReservedWithinLimit
  <1>1. IInv => ReservedWithinLimit
    BY DEF IInv, Books, CountersWithin, Over, ReservedWithinLimit
  <1> QED BY <1>1, Invariance, PTL

-----------------------------------------------------------------------------
(* The counters as sums.  A session sees its own drafts and what the       *)
(* others committed; the draft of a counter that it owns is the sum of the *)
(* claims as it sees them.                                                 *)

IsAt(claim, k, s) == claim.status # "none" /\ ScopeOf(k, claim.period) = s

ClaimsAt(cl, s) == {c \in Runs \X Keys : IsAt(cl[c[1]][c[2]], c[2], s)}

Costs(cl) == [c \in Runs \X Keys |-> cl[c[1]][c[2]].cost]

Summed(cl, s, n) == IsFiniteSet(ClaimsAt(cl, s)) /\ n = Sum(Costs(cl), ClaimsAt(cl, s))

Seen(r) == [claims EXCEPT ![r] = drafted[r]]

(* A session writes claims of the counters that it owns only, and never    *)
(* moves a claim to another period.                                        *)
WritesOwned ==
  \A r \in Runs, k \in Keys :
    drafted[r][k] # claims[r][k] =>
      /\ drafted[r][k].status # "none"
      /\ owner[ScopeOf(k, drafted[r][k].period)] = r
      /\ claims[r][k].status # "none" => claims[r][k].period = drafted[r][k].period

(* An open claim reserves the estimate.                                    *)
OpenAtEstimate ==
  \A r \in Runs, k \in Keys :
    /\ claims[r][k].status = "claimed" => claims[r][k].cost = Estimate
    /\ drafted[r][k].status = "claimed" => drafted[r][k].cost = Estimate

CountersSummed == \A s \in Scopes : Summed(claims, s, counter[s])

DraftsSummed ==
  \A s \in Scopes : \A r \in Runs : owner[s] = r => Summed(Seen(r), s, draft[s])

SInv == WritesOwned /\ OpenAtEstimate /\ CountersSummed /\ DraftsSummed

Tables == [Runs -> [Keys -> Claims]]

(* What a session sees are claims.                                         *)
LEMMA SeenType ==
  ASSUME TypeOK, NEW r \in Runs
  PROVE  /\ claims \in Tables /\ drafted \in Tables /\ Seen(r) \in Tables
         /\ Seen(r)[r] = drafted[r]
         /\ \A q \in Runs \ {r} : Seen(r)[q] = claims[q]
  BY DEF TypeOK, Tables, Seen

(* Claims cost numbers.                                                    *)
LEMMA CostsType ==
  ASSUME NEW cl \in Tables
  PROVE  \A c \in Runs \X Keys : Costs(cl)[c] \in Nat
  BY DEF Tables, Costs, Claims

(* Tables that agree in a scope have the same sum there.                   *)
LEMMA SameSum ==
  ASSUME NEW cl \in Tables, NEW nl \in Tables, NEW s, NEW n, Summed(cl, s, n),
         \A q \in Runs, j \in Keys :
           \/ nl[q][j] = cl[q][j]
           \/ ~IsAt(cl[q][j], j, s) /\ ~IsAt(nl[q][j], j, s)
  PROVE  Summed(nl, s, n)
  <1>1. ClaimsAt(nl, s) = ClaimsAt(cl, s)
    BY DEF ClaimsAt
  <1>2. \A c \in ClaimsAt(cl, s) : Costs(cl)[c] = Costs(nl)[c]
    BY DEF ClaimsAt, Costs
  <1>3. IsFiniteSet(ClaimsAt(cl, s))
    BY DEF Summed
  <1>4. Sum(Costs(cl), ClaimsAt(cl, s)) = Sum(Costs(nl), ClaimsAt(cl, s))
    BY <1>2, <1>3, SumEqual
  <1> QED BY <1>1, <1>4 DEF Summed

(* One claim more adds its cost.                                           *)
LEMMA AddedClaim ==
  ASSUME NEW cl \in Tables, NEW nl \in Tables, NEW s, NEW n, Summed(cl, s, n),
         NEW r \in Runs, NEW k \in Keys,
         ~IsAt(cl[r][k], k, s), IsAt(nl[r][k], k, s),
         \A q \in Runs, j \in Keys :
           \/ q = r /\ j = k
           \/ nl[q][j] = cl[q][j]
           \/ ~IsAt(cl[q][j], j, s) /\ ~IsAt(nl[q][j], j, s)
  PROVE  Summed(nl, s, n + nl[r][k].cost)
  <1> DEFINE S == ClaimsAt(cl, s)
             e == <<r, k>>
             f == Costs(nl)
  <1>1. e \in Runs \X Keys /\ e \notin S /\ ClaimsAt(nl, s) = S \cup {e}
    BY DEF ClaimsAt
  <1>2. \A c \in S : Costs(cl)[c] = f[c]
    BY <1>1 DEF ClaimsAt, Costs
  <1>3. IsFiniteSet(S) /\ n = Sum(Costs(cl), S)
    BY DEF Summed
  <1>4. f[e] = nl[r][k].cost
    BY <1>1 DEF Costs
  <1>5. \A c \in S \cup {e} : f[c] \in Nat
    BY <1>1, CostsType DEF ClaimsAt
  <1> HIDE DEF S, e, f
  <1>6. Sum(Costs(cl), S) = Sum(f, S)
    BY <1>2, <1>3, SumEqual
  <1>7. Sum(f, S \cup {e}) = Sum(f, S) + f[e]
    BY <1>1, <1>3, <1>5, SumAdd
  <1>8. IsFiniteSet(S \cup {e})
    BY <1>3, FS_AddElement
  <1> QED BY <1>1, <1>3, <1>4, <1>6, <1>7, <1>8 DEF Summed, f

(* A claim that costs something else changes the sum by the difference.    *)
LEMMA ChangedClaim ==
  ASSUME NEW cl \in Tables, NEW nl \in Tables, NEW s, NEW n, Summed(cl, s, n),
         NEW r \in Runs, NEW k \in Keys,
         IsAt(cl[r][k], k, s), IsAt(nl[r][k], k, s),
         \A q \in Runs, j \in Keys :
           \/ q = r /\ j = k
           \/ nl[q][j] = cl[q][j]
           \/ ~IsAt(cl[q][j], j, s) /\ ~IsAt(nl[q][j], j, s)
  PROVE  \E m \in Nat : Summed(nl, s, m) /\ m + cl[r][k].cost = n + nl[r][k].cost
  <1> DEFINE S == ClaimsAt(cl, s)
             e == <<r, k>>
             f == Costs(cl)
             g == Costs(nl)
  <1>1. e \in S /\ ClaimsAt(nl, s) = S
    BY DEF ClaimsAt
  <1>2. \A c \in S \ {e} : g[c] = f[c]
    BY DEF ClaimsAt, Costs
  <1>3. IsFiniteSet(S) /\ n = Sum(f, S)
    BY DEF Summed
  <1>4. f[e] = cl[r][k].cost /\ g[e] = nl[r][k].cost
    BY <1>1 DEF Costs
  <1>5. \A c \in S : f[c] \in Nat /\ g[c] \in Nat
    BY CostsType DEF ClaimsAt
  <1> HIDE DEF S, e, f, g
  <1>6. Sum(g, S) + f[e] = Sum(f, S) + g[e]
    BY <1>1, <1>2, <1>3, <1>5, SumChange
  <1>7. Sum(g, S) \in Nat
    BY <1>3, <1>5, SumType
  <1>8. Summed(nl, s, Sum(g, S))
    BY <1>1, <1>3 DEF Summed, g
  <1> QED BY <1>3, <1>4, <1>6, <1>7, <1>8

(* What a session has not locked looks to it as it is committed.           *)
LEMMA UnownedAsCommitted ==
  ASSUME TypeOK, WritesOwned, NEW r \in Runs, NEW s \in Scopes, owner[s] # r
  PROVE  \A k \in Keys : \/ drafted[r][k] = claims[r][k]
                         \/ ~IsAt(claims[r][k], k, s) /\ ~IsAt(drafted[r][k], k, s)
  <1> SUFFICES ASSUME NEW k \in Keys, drafted[r][k] # claims[r][k]
               PROVE  ~IsAt(claims[r][k], k, s) /\ ~IsAt(drafted[r][k], k, s)
    OBVIOUS
  <1>1. /\ ScopeOf(k, drafted[r][k].period) # s
        /\ claims[r][k].status # "none" => claims[r][k].period = drafted[r][k].period
    BY DEF WritesOwned
  <1> QED BY <1>1 DEF IsAt

(* A commit makes the drafts of a session the counters.                    *)
LEMMA CommitSums ==
  ASSUME TypeOK, TypeOK', SInv, NEW r \in Runs, Commit(r)
  PROVE  SInv'
  <1>1. /\ claims' = Seen(r) /\ drafted' = drafted /\ draft' = draft
        /\ \A s \in Scopes : /\ counter'[s] = IF owner[s] = r THEN draft[s] ELSE counter[s]
                             /\ owner'[s] = IF owner[s] = r THEN NoRun ELSE owner[s]
    BY DEF Commit, Seen
  <1>2. claims \in Tables /\ claims' \in Tables /\ drafted' \in Tables
    BY SeenType DEF TypeOK, Tables
  <1>3. claims'[r] = drafted[r] /\ \A q \in Runs \ {r} : claims'[q] = claims[q]
    BY <1>1, SeenType
  <1>4. WritesOwned'
    <2> SUFFICES ASSUME NEW q \in Runs, NEW k \in Keys, drafted[q][k] # claims'[q][k]
                 PROVE  /\ drafted[q][k].status # "none"
                        /\ owner'[ScopeOf(k, drafted[q][k].period)] = q
                        /\ claims'[q][k].status # "none" =>
                             claims'[q][k].period = drafted[q][k].period
      BY <1>1 DEF WritesOwned
    <2>1. q # r /\ claims'[q] = claims[q]
      BY <1>3
    <2>2. ScopeOf(k, drafted[q][k].period) \in Scopes
      BY ScopeOfType DEF TypeOK, Claims
    <2> QED BY <1>1, <2>1, <2>2 DEF SInv, WritesOwned
  <1>5. OpenAtEstimate'
    BY <1>1, <1>3 DEF SInv, OpenAtEstimate
  <1>6. ASSUME NEW s \in Scopes, owner[s] # r
        PROVE  \A q \in Runs, j \in Keys :
                 \/ claims'[q][j] = claims[q][j]
                 \/ ~IsAt(claims[q][j], j, s) /\ ~IsAt(claims'[q][j], j, s)
    BY <1>3, <1>6, UnownedAsCommitted DEF SInv
  <1>7. CountersSummed'
    <2> SUFFICES ASSUME NEW s \in Scopes PROVE Summed(claims', s, counter'[s])
      BY DEF CountersSummed, Summed, ClaimsAt, Costs
    <2>1. CASE owner[s] = r
      BY <1>1, <2>1 DEF SInv, DraftsSummed
    <2>2. CASE owner[s] # r
      <3>1. Summed(claims, s, counter[s]) /\ counter'[s] = counter[s]
        BY <1>1, <2>2 DEF SInv, CountersSummed
      <3> QED BY <1>2, <1>6, <2>2, <3>1, SameSum
    <2> QED BY <2>1, <2>2
  <1>8. DraftsSummed'
    <2> SUFFICES ASSUME NEW s \in Scopes, NEW q \in Runs, owner'[s] = q
                 PROVE  Summed(Seen(q)', s, draft[s])
      BY <1>1 DEF DraftsSummed, Summed, ClaimsAt, Costs
    <2>1. owner[s] = q /\ q # r
      BY <1>1, BudgetAssumption
    <2>2. Summed(Seen(q), s, draft[s])
      BY <2>1 DEF SInv, DraftsSummed
    <2>3. Seen(q) \in Tables /\ Seen(q)' \in Tables
      BY <1>1, <1>2, SeenType DEF Seen, Tables
    <2>4. \A p \in Runs, j \in Keys :
            \/ Seen(q)'[p][j] = Seen(q)[p][j]
            \/ ~IsAt(Seen(q)[p][j], j, s) /\ ~IsAt(Seen(q)'[p][j], j, s)
      <3>1. Seen(q)'[q] = drafted[q] /\ \A p \in Runs \ {q} : Seen(q)'[p] = claims'[p]
        BY <1>1, <1>2 DEF Seen, Tables
      <3>2. Seen(q)[q] = drafted[q] /\ \A p \in Runs \ {q} : Seen(q)[p] = claims[p]
        BY SeenType
      <3> QED BY <1>6, <2>1, <3>1, <3>2
    <2> QED BY <2>2, <2>3, <2>4, SameSum
  <1> QED BY <1>4, <1>5, <1>7, <1>8 DEF SInv

(* A rollback makes them forgotten.                                        *)
LEMMA RollbackSums ==
  ASSUME TypeOK, SInv, NEW r \in Runs, Rollback(r)
  PROVE  SInv'
  <1>1. /\ claims' = claims /\ counter' = counter
        /\ \A s \in Scopes : /\ owner[s] # r => draft'[s] = draft[s]
                             /\ owner'[s] = IF owner[s] = r THEN NoRun ELSE owner[s]
        /\ drafted'[r] = claims[r] /\ \A q \in Runs \ {r} : drafted'[q] = drafted[q]
    BY DEF Rollback, TypeOK
  <1>2. WritesOwned'
    <2> SUFFICES ASSUME NEW q \in Runs, NEW k \in Keys, drafted'[q][k] # claims[q][k]
                 PROVE  /\ drafted'[q][k].status # "none"
                        /\ owner'[ScopeOf(k, drafted'[q][k].period)] = q
                        /\ claims[q][k].status # "none" =>
                             claims[q][k].period = drafted'[q][k].period
      BY <1>1 DEF WritesOwned
    <2>1. q # r /\ drafted'[q] = drafted[q]
      BY <1>1
    <2>2. ScopeOf(k, drafted[q][k].period) \in Scopes
      BY ScopeOfType DEF TypeOK, Claims
    <2> QED BY <1>1, <2>1, <2>2 DEF SInv, WritesOwned
  <1>3. OpenAtEstimate'
    BY <1>1 DEF SInv, OpenAtEstimate
  <1>4. CountersSummed'
    BY <1>1 DEF SInv, CountersSummed, Summed, ClaimsAt, Costs
  <1>5. DraftsSummed'
    <2> SUFFICES ASSUME NEW s \in Scopes, NEW q \in Runs, owner'[s] = q
                 PROVE  Summed(Seen(q)', s, draft'[s])
      BY DEF DraftsSummed, Summed, ClaimsAt, Costs
    <2>1. owner[s] = q /\ q # r /\ draft'[s] = draft[s]
      BY <1>1, BudgetAssumption
    <2>2. Seen(q)' = Seen(q)
      BY <1>1, <2>1 DEF Seen
    <2> QED BY <2>1, <2>2 DEF SInv, DraftsSummed
  <1> QED BY <1>2, <1>3, <1>4, <1>5 DEF SInv

(* A counter that is locked is drafted as committed.                       *)
LEMMA AcquireSums ==
  ASSUME TypeOK, Books, SInv, NEW r \in Runs, Acquire(r),
         Head(session[r].want) \in Scopes
  PROVE  SInv'
  <1> DEFINE h == Head(session[r].want)
  <1>1. /\ owner[h] \in {NoRun, r}
        /\ UNCHANGED <<counter, draft, claims, drafted>>
        /\ \A s \in Scopes : owner'[s] = IF s = h THEN r ELSE owner[s]
    BY DEF Acquire, TypeOK
  <1>2. WritesOwned'
    <2> SUFFICES ASSUME NEW q \in Runs, NEW k \in Keys, drafted[q][k] # claims[q][k]
                 PROVE  owner'[ScopeOf(k, drafted[q][k].period)] = q
      BY <1>1 DEF SInv, WritesOwned
    <2>1. ScopeOf(k, drafted[q][k].period) \in Scopes
      BY ScopeOfType DEF TypeOK, Claims
    <2>2. owner[ScopeOf(k, drafted[q][k].period)] = q
      BY DEF SInv, WritesOwned
    <2> QED BY <1>1, <2>1, <2>2, BudgetAssumption
  <1>3. OpenAtEstimate' /\ CountersSummed'
    BY <1>1 DEF SInv, OpenAtEstimate, CountersSummed, Summed, ClaimsAt, Costs
  <1>4. DraftsSummed'
    <2> SUFFICES ASSUME NEW s \in Scopes, NEW q \in Runs, owner'[s] = q
                 PROVE  Summed(Seen(q)', s, draft[s])
      BY <1>1 DEF DraftsSummed, Summed, ClaimsAt, Costs
    <2>1. Seen(q)' = Seen(q)
      BY <1>1 DEF Seen
    <2>2. CASE owner[s] = q
      BY <2>1, <2>2 DEF SInv, DraftsSummed
    <2>3. CASE owner[s] # q
      <3>1. owner[s] = NoRun /\ draft[s] = counter[s]
        BY <1>1, <2>3 DEF Books, DraftsOwned
      <3>2. Summed(claims, s, draft[s])
        BY <3>1 DEF SInv, CountersSummed
      <3>3. claims \in Tables /\ Seen(q) \in Tables /\ Seen(q)[q] = drafted[q]
            /\ \A p \in Runs \ {q} : Seen(q)[p] = claims[p]
        BY SeenType
      <3>4. \A k \in Keys : \/ drafted[q][k] = claims[q][k]
                            \/ ~IsAt(claims[q][k], k, s) /\ ~IsAt(drafted[q][k], k, s)
        BY <2>3, UnownedAsCommitted DEF SInv
      <3>5. \A p \in Runs, j \in Keys :
              \/ Seen(q)[p][j] = claims[p][j]
              \/ ~IsAt(claims[p][j], j, s) /\ ~IsAt(Seen(q)[p][j], j, s)
        BY <3>3, <3>4
      <3> QED BY <2>1, <3>2, <3>3, <3>5, SameSum
    <2> QED BY <2>2, <2>3
  <1> QED BY <1>2, <1>3, <1>4 DEF SInv

(* What a session writes of the counters that it owns.                     *)
LEMMA DraftSums ==
  ASSUME TypeOK, TypeOK', SInv, NEW r \in Runs,
         UNCHANGED <<counter, owner, claims>>,
         \A q \in Runs \ {r} : drafted'[q] = drafted[q],
         \A s \in Scopes : owner[s] # r => draft'[s] = draft[s],
         \A k \in Keys : drafted'[r][k] # drafted[r][k] =>
           /\ drafted'[r][k].status # "none"
           /\ owner[ScopeOf(k, drafted'[r][k].period)] = r
           /\ drafted[r][k].status # "none" => drafted'[r][k].period = drafted[r][k].period
           /\ drafted'[r][k].status = "claimed" => drafted'[r][k].cost = Estimate,
         \A s \in Scopes : owner[s] = r => Summed(Seen(r)', s, draft'[s])
  PROVE  SInv'
  <1>1. WritesOwned'
    <2> SUFFICES ASSUME NEW q \in Runs, NEW k \in Keys, drafted'[q][k] # claims[q][k]
                 PROVE  /\ drafted'[q][k].status # "none"
                        /\ owner[ScopeOf(k, drafted'[q][k].period)] = q
                        /\ claims[q][k].status # "none" =>
                             claims[q][k].period = drafted'[q][k].period
      BY DEF WritesOwned
    <2>1. CASE drafted'[q][k] = drafted[q][k]
      BY <2>1 DEF SInv, WritesOwned
    <2>2. CASE drafted'[q][k] # drafted[q][k]
      <3>1. q = r
        BY <2>2
      <3>2. \/ drafted[q][k] = claims[q][k]
            \/ /\ drafted[q][k].status # "none"
               /\ claims[q][k].status # "none" => claims[q][k].period = drafted[q][k].period
        BY DEF SInv, WritesOwned
      <3> QED BY <2>2, <3>1, <3>2
    <2> QED BY <2>1, <2>2
  <1>2. OpenAtEstimate'
    <2> SUFFICES ASSUME NEW q \in Runs, NEW k \in Keys
                 PROVE  drafted'[q][k].status = "claimed" => drafted'[q][k].cost = Estimate
      BY DEF SInv, OpenAtEstimate
    <2> QED BY DEF SInv, OpenAtEstimate
  <1>3. CountersSummed'
    BY DEF SInv, CountersSummed, Summed, ClaimsAt, Costs
  <1>4. DraftsSummed'
    <2> SUFFICES ASSUME NEW s \in Scopes, NEW q \in Runs, owner[s] = q
                 PROVE  Summed(Seen(q)', s, draft'[s])
      BY DEF DraftsSummed, Summed, ClaimsAt, Costs
    <2>1. CASE q # r
      <3>1. Seen(q)' = Seen(q) /\ draft'[s] = draft[s]
        BY <2>1 DEF Seen
      <3> QED BY <3>1 DEF SInv, DraftsSummed
    <2> QED BY <2>1
  <1> QED BY <1>1, <1>2, <1>3, <1>4 DEF SInv

(* A reservation adds one claim to the day and one to the month.           *)
LEMMA ReserveSums ==
  ASSUME IInv, TypeOK', SInv, NEW r \in Runs, Reserve(r)
  PROVE  SInv'
  <1> DEFINE claim(k) == [status |-> "claimed", period |-> ClaimPeriod(r, k.kind),
                          cost |-> Estimate]
             nl == Seen(r)'
  <1>1. TypeOK /\ DispatchKeys(r) \subseteq Keys /\ ClaimScopes(r) \subseteq Scopes
    BY DispatchKeysType, ClaimScopesType DEF IInv
  <1>2. \A k \in Keys : drafted'[r][k] = IF k \in DispatchKeys(r) THEN claim(k)
                                                                 ELSE drafted[r][k]
    BY <1>1 DEF Reserve, TypeOK
  <1>3. \A k \in DispatchKeys(r) : drafted[r][k].status = "none"
    BY DEF IInv, Prepared, Reserve
  <1>4. \A s \in ClaimScopes(r) : owner[s] = r
    BY DEF IInv, Prepared, Reserve, InQueue
  <1>5. \A k \in DispatchKeys(r) : ScopeOf(k, ClaimPeriod(r, k.kind)) \in ClaimScopes(r)
    BY DEF ClaimScopes
  <1>6. \A k \in Keys : /\ claim(k).status = "claimed" /\ claim(k).cost = Estimate
                        /\ claim(k).period = ClaimPeriod(r, k.kind)
    OBVIOUS
  <1> HIDE DEF claim
  <1>7. /\ UNCHANGED <<counter, owner, claims>>
        /\ \A q \in Runs \ {r} : drafted'[q] = drafted[q]
        /\ \A s \in Scopes : draft'[s] = IF s \in ClaimScopes(r) THEN draft[s] + Estimate
                                                               ELSE draft[s]
    BY <1>1 DEF Reserve, TypeOK
  <1>8. \A s \in Scopes : owner[s] # r => draft'[s] = draft[s]
    BY <1>4, <1>7
  <1>9. \A k \in Keys : drafted'[r][k] # drafted[r][k] =>
           /\ drafted'[r][k].status # "none"
           /\ owner[ScopeOf(k, drafted'[r][k].period)] = r
           /\ drafted[r][k].status # "none" => drafted'[r][k].period = drafted[r][k].period
           /\ drafted'[r][k].status = "claimed" => drafted'[r][k].cost = Estimate
    BY <1>2, <1>3, <1>4, <1>5, <1>6
  <1>10. /\ Seen(r) \in Tables /\ nl \in Tables
         /\ Seen(r)[r] = drafted[r] /\ \A q \in Runs \ {r} : Seen(r)[q] = claims[q]
         /\ nl[r] = drafted'[r] /\ \A q \in Runs \ {r} : nl[q] = claims[q]
    <2>1. claims \in Tables /\ drafted' \in [Runs -> [Keys -> Claims]]
      BY <1>1, SeenType DEF TypeOK
    <2> QED BY <1>1, <1>7, <2>1, SeenType DEF Seen, Tables
  <1> HIDE DEF nl
  <1>11. ASSUME NEW s \in Scopes, owner[s] = r
         PROVE  Summed(nl, s, draft'[s])
    <2>1. Summed(Seen(r), s, draft[s])
      BY <1>11 DEF SInv, DraftsSummed
    <2>2. CASE s \notin ClaimScopes(r)
      <3>1. \A q \in Runs, j \in Keys :
              \/ nl[q][j] = Seen(r)[q][j]
              \/ ~IsAt(Seen(r)[q][j], j, s) /\ ~IsAt(nl[q][j], j, s)
        BY <1>2, <1>3, <1>5, <1>6, <1>10, <2>2 DEF IsAt
      <3> QED BY <1>7, <1>10, <2>1, <2>2, <3>1, SameSum
    <2>3. CASE s \in ClaimScopes(r)
      <3>1. PICK k \in DispatchKeys(r) : s = ScopeOf(k, ClaimPeriod(r, k.kind))
        BY <2>3 DEF ClaimScopes
      <3>2. \A j \in DispatchKeys(r) : j # k => j.kind # k.kind
        BY DEF DispatchKeys
      <3>3. \A j \in Keys : \A p : ScopeOf(j, p) = s => j.kind = k.kind
        BY <3>1 DEF ScopeOf
      <3>4. k \in Keys /\ ~IsAt(Seen(r)[r][k], k, s) /\ IsAt(nl[r][k], k, s)
            /\ nl[r][k].cost = Estimate
        BY <1>1, <1>2, <1>3, <1>6, <1>10, <3>1 DEF IsAt
      <3>5. \A q \in Runs, j \in Keys :
              \/ q = r /\ j = k
              \/ nl[q][j] = Seen(r)[q][j]
              \/ ~IsAt(Seen(r)[q][j], j, s) /\ ~IsAt(nl[q][j], j, s)
        BY <1>2, <1>3, <1>10, <3>2, <3>3 DEF IsAt
      <3>6. Summed(nl, s, draft[s] + nl[r][k].cost)
        BY <1>10, <2>1, <3>4, <3>5, AddedClaim
      <3> QED BY <1>7, <2>3, <3>4, <3>6
    <2> QED BY <2>2, <2>3
  <1> QED BY <1>1, <1>7, <1>8, <1>9, <1>11, DraftSums DEF nl

(* A reconciliation replaces an estimate by what the call cost; the floor  *)
(* at zero is never needed.                                                *)
LEMMA SettleSums ==
  ASSUME IInv, TypeOK', SInv, NEW r \in Runs, Settle(r)
  PROVE  SInv'
  <1> DEFINE claim(k) == [drafted[r][k] EXCEPT !.status = "reconciled",
                                               !.cost = session[r].cost]
             nl == Seen(r)'
  <1>1. TypeOK /\ OpenScope(r) \subseteq Scopes
    BY OpenScopeType DEF IInv
  <1>2. \A k \in Keys : drafted'[r][k] = IF k \in Open(r) THEN claim(k) ELSE drafted[r][k]
    BY <1>1 DEF Settle, TypeOK
  <1>3. Open(r) \subseteq Keys /\ \A k \in Open(r) : drafted[r][k].status = "claimed"
    BY <1>1 DEF TypeOK, Sessions, Open
  <1>4. \A s \in OpenScope(r) : owner[s] = r
    <2>1. \A s \in OpenScope(r) : owner[s] = r \/ InQueue(s, session[r].want)
      BY DEF IInv, Prepared, Settle
    <2>2. session[r].want = <<>>
      BY DEF Settle
    <2> QED BY <2>1, <2>2 DEF InQueue
  <1>5. \A k \in Open(r) : ScopeOf(k, drafted[r][k].period) \in OpenScope(r)
    BY DEF OpenScope
  <1>6. ASSUME NEW k \in Keys
        PROVE  /\ claim(k).status = "reconciled" /\ claim(k).cost = session[r].cost
               /\ claim(k).period = drafted[r][k].period
    <2>1. drafted[r][k] \in Claims
      BY <1>1 DEF TypeOK
    <2> QED BY <2>1 DEF Claims
  <1> HIDE DEF claim
  <1>7. /\ UNCHANGED <<counter, owner, claims>>
        /\ \A q \in Runs \ {r} : drafted'[q] = drafted[q]
        /\ \A s \in Scopes : draft'[s] = IF s \in OpenScope(r) THEN Reconciled(s, r)
                                                             ELSE draft[s]
    BY <1>1 DEF Settle, TypeOK, OpenScope
  <1>8. \A s \in Scopes : owner[s] # r => draft'[s] = draft[s]
    BY <1>4, <1>7
  <1>9. \A k \in Keys : drafted'[r][k] # drafted[r][k] =>
           /\ drafted'[r][k].status # "none"
           /\ owner[ScopeOf(k, drafted'[r][k].period)] = r
           /\ drafted[r][k].status # "none" => drafted'[r][k].period = drafted[r][k].period
           /\ drafted'[r][k].status = "claimed" => drafted'[r][k].cost = Estimate
    BY <1>2, <1>4, <1>5, <1>6
  <1>10. /\ Seen(r) \in Tables /\ nl \in Tables
         /\ Seen(r)[r] = drafted[r] /\ \A q \in Runs \ {r} : Seen(r)[q] = claims[q]
         /\ nl[r] = drafted'[r] /\ \A q \in Runs \ {r} : nl[q] = claims[q]
    <2>1. claims \in Tables /\ drafted' \in [Runs -> [Keys -> Claims]]
      BY <1>1, SeenType DEF TypeOK
    <2> QED BY <1>1, <1>7, <2>1, SeenType DEF Seen, Tables
  <1> HIDE DEF nl
  <1>11. ASSUME NEW s \in Scopes, owner[s] = r
         PROVE  Summed(nl, s, draft'[s])
    <2>1. Summed(Seen(r), s, draft[s])
      BY <1>11 DEF SInv, DraftsSummed
    <2>2. CASE s \notin OpenScope(r)
      <3>1. \A q \in Runs, j \in Keys :
              \/ nl[q][j] = Seen(r)[q][j]
              \/ ~IsAt(Seen(r)[q][j], j, s) /\ ~IsAt(nl[q][j], j, s)
        BY <1>2, <1>5, <1>6, <1>10, <2>2 DEF IsAt
      <3> QED BY <1>7, <1>10, <2>1, <2>2, <3>1, SameSum
    <2>3. CASE s \in OpenScope(r)
      <3>1. PICK k \in Open(r) : s = ScopeOf(k, drafted[r][k].period)
        BY <2>3 DEF OpenScope
      <3>2. \A j \in Open(r) : j # k => j.kind # k.kind
        <4>1. Open(r) \subseteq DispatchKeys(r)
          BY DEF IInv, Prepared, Settle, Open
        <4> QED BY <4>1 DEF DispatchKeys
      <3>3. \A j \in Keys : \A p : ScopeOf(j, p) = s => j.kind = k.kind
        BY <3>1 DEF ScopeOf
      <3>4. /\ k \in Keys /\ IsAt(Seen(r)[r][k], k, s) /\ IsAt(nl[r][k], k, s)
            /\ Seen(r)[r][k].cost = Estimate /\ nl[r][k].cost = session[r].cost
        BY <1>2, <1>3, <1>6, <1>10, <3>1 DEF IsAt, SInv, OpenAtEstimate
      <3>5. \A q \in Runs, j \in Keys :
              \/ q = r /\ j = k
              \/ nl[q][j] = Seen(r)[q][j]
              \/ ~IsAt(Seen(r)[q][j], j, s) /\ ~IsAt(nl[q][j], j, s)
        BY <1>2, <1>3, <1>6, <1>10, <3>2, <3>3 DEF IsAt
      <3>6. PICK m \in Nat : Summed(nl, s, m) /\ m + Estimate = draft[s] + session[r].cost
        BY <1>10, <2>1, <3>4, <3>5, ChangedClaim
      <3>7. Reconciled(s, r) = m
        <4>1. draft[s] \in Nat /\ session[r].cost \in Nat /\ Estimate \in Nat
          BY <1>1, BudgetAssumption DEF TypeOK, Sessions
        <4> QED BY <3>6, <4>1 DEF Reconciled
      <3> QED BY <1>7, <2>3, <3>6, <3>7
    <2> QED BY <2>2, <2>3
  <1> QED BY <1>1, <1>7, <1>8, <1>9, <1>11, DraftSums DEF nl

(* No claim is made yet.                                                   *)
LEMMA InitSInv == Init => SInv
  <1> SUFFICES ASSUME Init PROVE SInv
    OBVIOUS
  <1>1. WritesOwned /\ OpenAtEstimate
    BY DEF Init, NoClaim, WritesOwned, OpenAtEstimate
  <1>2. \A s \in Scopes : Summed(claims, s, counter[s])
    <2> SUFFICES ASSUME NEW s \in Scopes PROVE Summed(claims, s, counter[s])
      OBVIOUS
    <2>1. ClaimsAt(claims, s) = {}
      BY DEF Init, NoClaim, ClaimsAt, IsAt
    <2>2. IsFiniteSet(ClaimsAt(claims, s)) /\ Sum(Costs(claims), ClaimsAt(claims, s)) = 0
      BY <2>1, FS_EmptySet, SumEmpty
    <2> QED BY <2>2 DEF Init, Summed
  <1>3. DraftsSummed
    BY BudgetAssumption DEF Init, DraftsSummed
  <1> QED BY <1>1, <1>2, <1>3 DEF SInv, CountersSummed

(* Steps that touch neither counters nor claims.                           *)
LEMMA SumsKept ==
  ASSUME SInv, UNCHANGED <<counter, draft, owner, claims, drafted>>
  PROVE  SInv'
  <1>1. WritesOwned' /\ OpenAtEstimate'
    BY DEF SInv, WritesOwned, OpenAtEstimate
  <1>2. CountersSummed'
    BY DEF SInv, CountersSummed, Summed, ClaimsAt, Costs
  <1>3. DraftsSummed'
    <2>1. \A r \in Runs : Seen(r)' = Seen(r)
      BY DEF Seen
    <2> QED BY <2>1 DEF SInv, DraftsSummed, Summed, ClaimsAt, Costs
  <1> QED BY <1>1, <1>2, <1>3 DEF SInv

(* Every step keeps the sums.                                              *)
LEMMA NextSInv == IInv /\ IInv' /\ SInv /\ [Next]_vars => SInv'
  <1> SUFFICES ASSUME IInv, IInv', SInv, [Next]_vars PROVE SInv'
    OBVIOUS
  <1>1. TypeOK /\ TypeOK' /\ Books
    BY DEF IInv
  <1>2. ASSUME NEW r \in Runs,
               \/ ClaimAgain(r) \/ Unconfigured(r) \/ StartClaim(r) \/ Exceeded(r)
               \/ Attempted(r)
        PROVE  SInv'
    BY <1>2, SumsKept DEF ClaimAgain, Unconfigured, StartClaim, Exceeded, Attempted
  <1>3. ASSUME NEW r \in Runs, Acquire(r) PROVE SInv'
    <2>1. Head(session[r].want) \in Scopes
      <3>1. session[r].want \in Seq(Scopes) /\ session[r].want # <<>>
        BY <1>1, <1>3 DEF Acquire, TypeOK, Sessions
      <3> QED BY <3>1
    <2> QED BY <1>1, <1>3, <2>1, AcquireSums
  <1>4. ASSUME NEW r \in Runs, Checkpoint(r) \/ Close(r) PROVE SInv'
    BY <1>1, <1>4, CommitSums DEF Checkpoint, Close
  <1>5. ASSUME NEW r \in Runs, Victim(r) \/ Crash(r) PROVE SInv'
    BY <1>1, <1>5, RollbackSums DEF Victim, Crash
  <1>6. ASSUME NEW r \in Runs, Reserve(r) \/ Settle(r) PROVE SInv'
    BY <1>1, <1>6, ReserveSums, SettleSums
  <1>7. CASE NextDay \/ UNCHANGED vars
    BY <1>7, SumsKept DEF NextDay, vars
  <1> QED BY <1>2, <1>3, <1>4, <1>5, <1>6, <1>7 DEF Next, ChainStep

(* The sums hold: see SInv.                                                *)
THEOREM SumsInvariance == Spec => []SInv
  BY InitSInv, NextSInv, Invariance, PTL DEF Spec

(* A counter is what its claims amount to, whatever was rolled back,       *)
(* reconciled or claimed at midnight: the floor at zero in reconcile hides *)
(* no loss.                                                                *)
THEOREM CountersAreSums == Spec => []CounterIsSum
  <1>1. SInv => CounterIsSum
    <2> SUFFICES ASSUME SInv, NEW s \in Scopes
                 PROVE  counter[s] =
                          MapThenSumSet(LAMBDA c : claims[c[1]][c[2]].cost,
                            {c \in Runs \X Keys :
                               /\ claims[c[1]][c[2]].status # "none"
                               /\ ScopeOf(c[2], claims[c[1]][c[2]].period) = s})
      BY DEF CounterIsSum
    <2>1. MapThenSumSet(LAMBDA c : claims[c[1]][c[2]].cost, ClaimsAt(claims, s))
            = Sum(Costs(claims), ClaimsAt(claims, s))
      <3> DEFINE S == ClaimsAt(claims, s)
      <3>1. S \subseteq Runs \X Keys
        BY DEF ClaimsAt
      <3> HIDE DEF S
      <3>2. MapThenSumSet(LAMBDA c : claims[c[1]][c[2]].cost, S) = Sum(Costs(claims), S)
        BY <3>1 DEF Sum, MapThenSumSet, MapThenFoldSet, Costs
      <3> QED BY <3>2 DEF S
    <2>2. counter[s] = Sum(Costs(claims), ClaimsAt(claims, s))
      BY DEF SInv, CountersSummed, Summed
    <2>3. ClaimsAt(claims, s) = {c \in Runs \X Keys :
                                   /\ claims[c[1]][c[2]].status # "none"
                                   /\ ScopeOf(c[2], claims[c[1]][c[2]].period) = s}
      BY DEF ClaimsAt, IsAt
    <2> QED BY <2>1, <2>2, <2>3
  <1> QED BY <1>1, SumsInvariance, PTL

-----------------------------------------------------------------------------
(* Dispatches.  The day's and the month's claim of a dispatch are always   *)
(* in the same state; and if a chain names no model twice, what lies ahead *)
(* of it is not claimed, so that every call is made on claims of its own.  *)

Twinned(row) ==
  \A k, j \in Keys :
    k.model = j.model /\ k.retry = j.retry => row[k].status = row[j].status

DistinctCandidates ==
  \A r \in Runs : \A i, j \in 1..Len(Chain[r]) : Chain[r][i] = Chain[r][j] => i = j

(* Attempt t at candidate i is still to come.                              *)
Ahead(r, i, t) ==
  \/ i > session[r].candidate
  \/ i = session[r].candidate /\ t > session[r].retry
  \/ /\ i = session[r].candidate /\ t = session[r].retry
     /\ session[r].pc \in {"claiming", "locking"}

Fresh(r) ==
  session[r].pc \notin Stopped =>
    \A i \in 1..Len(Chain[r]), k \in Keys :
      k.model = Chain[r][i] /\ Ahead(r, i, k.retry) => drafted[r][k].status = "none"

InForce(r) ==
  /\ session[r].pc = "claimed" => \A k \in session[r].receipt : drafted[r][k].status = "claimed"
  /\ session[r].pc = "calling" => \A k \in session[r].receipt : claims[r][k].status = "claimed"

Dispatched(r) ==
  /\ Twinned(claims[r]) /\ Twinned(drafted[r])
  /\ session[r].pc \in {"claimed", "calling", "settling"} =>
       session[r].receipt = DispatchKeys(r)
  /\ DistinctCandidates => Fresh(r) /\ InForce(r)

DInv == \A r \in Runs : Dispatched(r)

(* A dispatch has a claim of each kind.                                    *)
LEMMA DispatchKinds ==
  ASSUME NEW r \in Runs
  PROVE  /\ \A k \in DispatchKeys(r) : k.model = Model(r) /\ k.retry = session[r].retry
         /\ {k.kind : k \in DispatchKeys(r)} = Kinds
  <1>1. \A kind \in Kinds :
          [model |-> Model(r), retry |-> session[r].retry, kind |-> kind] \in DispatchKeys(r)
    BY DEF DispatchKeys
  <1>2. \A k \in DispatchKeys(r) : /\ k.model = Model(r) /\ k.retry = session[r].retry
                                   /\ k.kind \in Kinds
    BY DEF DispatchKeys
  <1>3. \A kind \in Kinds : \E k \in DispatchKeys(r) : k.kind = kind
    BY <1>1
  <1> QED BY <1>2, <1>3

(* Which keys are of the dispatch.                                         *)
LEMMA OfDispatch ==
  ASSUME NEW r \in Runs, NEW k \in Keys
  PROVE  k \in DispatchKeys(r) <=> k.model = Model(r) /\ k.retry = session[r].retry
  BY DEF DispatchKeys, Keys

(* The steps of a session leave the others alone.                          *)
LEMMA OthersAlone ==
  ASSUME TypeOK, NEW r \in Runs, ChainStep(r) \/ Crash(r), NEW q \in Runs, q # r
  PROVE  session'[q] = session[q] /\ drafted'[q] = drafted[q] /\ claims'[q] = claims[q]
  <1>1. session'[q] = session[q]
    BY DEF TypeOK, ChainStep, Crash, ClaimAgain, Unconfigured, StartClaim, Acquire, Reserve,
           Exceeded, StopOrFallBack, Checkpoint, Attempted, Settle, Close, Victim
  <1>2. drafted'[q] = drafted[q] /\ claims'[q] = claims[q]
    BY DEF TypeOK, ChainStep, Crash, ClaimAgain, Unconfigured, StartClaim, Acquire, Reserve,
           Exceeded, Checkpoint, Attempted, Settle, Close, Victim, Commit, Rollback
  <1> QED BY <1>1, <1>2

LEMMA DispatchedKept ==
  ASSUME NEW q \in Runs, Dispatched(q), session'[q] = session[q],
         drafted'[q] = drafted[q], claims'[q] = claims[q]
  PROVE  Dispatched(q)'
  <1>1. DispatchKeys(q)' = DispatchKeys(q) /\ Fresh(q)' = Fresh(q) /\ InForce(q)' = InForce(q)
    BY DEF DispatchKeys, Model, Fresh, Ahead, InForce
  <1> QED BY <1>1 DEF Dispatched, Twinned

(* What is ahead of a chain that moves on was ahead of it.                 *)
LEMMA FreshKept ==
  ASSUME NEW r \in Runs, Fresh(r), session[r].pc \notin Stopped,
         \A i \in 1..Len(Chain[r]), t \in 0..MaxRetries : Ahead(r, i, t)' => Ahead(r, i, t),
         \A i \in 1..Len(Chain[r]), k \in Keys :
           /\ k.model = Chain[r][i] /\ Ahead(r, i, k.retry)' /\ drafted[r][k].status = "none"
           => drafted'[r][k].status = "none"
  PROVE  Fresh(r)'
  <1>1. \A k \in Keys : k.retry \in 0..MaxRetries
    BY DEF Keys
  <1> QED BY <1>1 DEF Fresh

(* The steps of a chain that claim nothing and end no transaction.         *)
LEMMA MovedDispatched ==
  ASSUME IInv, NEW r \in Runs, Dispatched(r),
         \/ ClaimAgain(r) \/ Unconfigured(r) \/ StartClaim(r) \/ Acquire(r)
         \/ Exceeded(r) \/ Attempted(r)
  PROVE  Dispatched(r)'
  <1>1. /\ session[r] \in Sessions /\ session[r].candidate \in 1..Len(Chain[r])
        /\ Len(Chain[r]) \in Nat
    BY BudgetAssumption DEF IInv, TypeOK
  <1>2. claims' = claims /\ drafted' = drafted
    BY DEF ClaimAgain, Unconfigured, StartClaim, Acquire, Exceeded, Attempted
  <1>3. CASE ClaimAgain(r)
    <2>1. /\ session'[r] = [session[r] EXCEPT !.pc = "claimed",
                              !.receipt = {k \in DispatchKeys(r) : drafted[r][k].status # "none"}]
          /\ session[r].pc = "claiming"
      BY <1>3 DEF IInv, TypeOK, ClaimAgain
    <2>2. /\ session'[r].pc = "claimed" /\ session'[r].candidate = session[r].candidate
          /\ session'[r].retry = session[r].retry
          /\ session'[r].receipt = {k \in DispatchKeys(r) : drafted[r][k].status # "none"}
      BY <1>1, <2>1 DEF Sessions
    <2>3. PICK j \in DispatchKeys(r) : drafted[r][j].status # "none"
      BY <1>3 DEF ClaimAgain
    <2>4. DispatchKeys(r) \subseteq Keys
      BY DispatchKeysType DEF IInv
    <2>5. \A k \in DispatchKeys(r) : drafted[r][k].status = drafted[r][j].status
      BY <2>4, DispatchKinds DEF Dispatched, Twinned
    <2>6. session'[r].receipt = DispatchKeys(r)'
      <3>1. DispatchKeys(r)' = DispatchKeys(r)
        BY <2>2 DEF DispatchKeys, Model
      <3> QED BY <2>2, <2>3, <2>5, <3>1
    <2>7. ~DistinctCandidates
      <3>1. Ahead(r, session[r].candidate, j.retry) /\ j.model = Chain[r][session[r].candidate]
        BY <2>1, DispatchKinds DEF Ahead, Model
      <3> QED BY <1>1, <2>1, <2>3, <2>4, <3>1 DEF Dispatched, Fresh, Stopped
    <2> QED BY <1>2, <2>6, <2>7 DEF Dispatched
  <1>4. CASE Unconfigured(r) \/ StartClaim(r) \/ Acquire(r) \/ Attempted(r)
             \/ (Exceeded(r) /\ session' = [session EXCEPT ![r].pc = "closing"])
    <2>1. /\ session'[r].candidate = session[r].candidate
          /\ session'[r].retry = session[r].retry
          /\ session'[r].receipt = session[r].receipt
          /\ \/ session'[r].pc = session[r].pc
             \/ session[r].pc = "claiming" /\ session'[r].pc = "locking"
             \/ session[r].pc \in {"claiming", "locking"} /\ session'[r].pc = "closing"
             \/ session[r].pc \in {"calling", "claimed"} /\ session'[r].pc = "settling"
      <3>1. CASE Unconfigured(r) \/ (Exceeded(r) /\ session' = [session EXCEPT ![r].pc = "closing"])
        BY <1>1, <3>1 DEF IInv, TypeOK, Unconfigured, Exceeded, Sessions
      <3>2. CASE StartClaim(r)
        BY <1>1, <3>2 DEF IInv, TypeOK, StartClaim, Sessions
      <3>3. CASE Acquire(r)
        BY <1>1, <3>3 DEF IInv, TypeOK, Acquire, Sessions
      <3>4. CASE Attempted(r)
        <4>1. PICK next \in {"close", "retry", "fallback"}, cost \in Actuals \cup {Estimate} :
                session' = [session EXCEPT ![r].pc = "settling", ![r].next = next,
                              ![r].cost = cost, ![r].want = SettleOrder(r)]
          BY <3>4 DEF Attempted
        <4>2. session[r].pc \in {"calling", "claimed"}
          BY <3>4 DEF Attempted
        <4> QED BY <1>1, <4>1, <4>2 DEF IInv, TypeOK, Sessions
      <3> QED BY <1>4, <3>1, <3>2, <3>3, <3>4
    <2>2. session'[r].pc \in Stopped \/ session[r].pc \in Stopped =>
            session'[r].pc = session[r].pc
      BY <2>1 DEF Stopped
    <2>3. DispatchKeys(r)' = DispatchKeys(r)
      BY <2>1 DEF DispatchKeys, Model
    <2>4. DistinctCandidates => InForce(r)'
      BY <1>2, <2>1 DEF Dispatched, InForce
    <2>5. ASSUME DistinctCandidates PROVE Fresh(r)'
      <3>1. \A i, t : Ahead(r, i, t)' => Ahead(r, i, t)
        BY <2>1 DEF Ahead
      <3>2. CASE session[r].pc \notin Stopped
        BY <1>2, <2>5, <3>1, <3>2, FreshKept DEF Dispatched
      <3>3. CASE session[r].pc \in Stopped
        BY <2>2, <3>3 DEF Fresh, Stopped
      <3> QED BY <3>2, <3>3
    <2> QED BY <1>2, <2>1, <2>2, <2>3, <2>4, <2>5 DEF Dispatched
  <1>5. CASE /\ Exceeded(r) /\ session[r].candidate < Len(Chain[r])
             /\ session' = [session EXCEPT ![r] = NextCandidate(r)]
    <2>1. /\ session'[r].pc = "claiming" /\ session[r].pc = "locking"
          /\ session'[r].candidate = session[r].candidate + 1
      BY <1>1, <1>5 DEF IInv, TypeOK, Exceeded, NextCandidate, Sessions
    <2>2. ASSUME DistinctCandidates PROVE Fresh(r)'
      <3>1. \A i \in 1..Len(Chain[r]) : \A t : Ahead(r, i, t)' => Ahead(r, i, t)
        BY <1>1, <2>1 DEF Ahead
      <3> QED BY <1>2, <2>1, <2>2, <3>1, FreshKept DEF Dispatched, Stopped
    <2> QED BY <1>2, <2>1, <2>2 DEF Dispatched, InForce
  <1> QED BY <1>3, <1>4, <1>5 DEF Exceeded, StopOrFallBack

(* A reservation is of the present attempt.                                *)
LEMMA ReserveDispatched ==
  ASSUME IInv, NEW r \in Runs, Dispatched(r), Reserve(r)
  PROVE  Dispatched(r)'
  <1>1. /\ session[r] \in Sessions /\ session[r].candidate \in 1..Len(Chain[r])
        /\ Len(Chain[r]) \in Nat
    BY BudgetAssumption DEF IInv, TypeOK
  <1>2. /\ session'[r].pc = "claimed" /\ session'[r].candidate = session[r].candidate
        /\ session'[r].retry = session[r].retry
        /\ session'[r].receipt = DispatchKeys(r)
        /\ session[r].pc = "locking"
    BY <1>1 DEF IInv, TypeOK, Reserve, Sessions
  <1>3. \A k \in Keys : /\ k \in DispatchKeys(r) => drafted'[r][k].status = "claimed"
                        /\ k \notin DispatchKeys(r) => drafted'[r][k] = drafted[r][k]
    BY DEF IInv, TypeOK, Reserve
  <1>4. claims' = claims /\ DispatchKeys(r) \subseteq Keys
    BY DispatchKeysType DEF Reserve, IInv
  <1>5. DispatchKeys(r)' = DispatchKeys(r)
    BY <1>2 DEF DispatchKeys, Model
  <1>6. Twinned(drafted'[r])
    BY <1>3, OfDispatch DEF Dispatched, Twinned
  <1>7. InForce(r)'
    BY <1>2, <1>3, <1>4 DEF InForce
  <1>8. ASSUME DistinctCandidates PROVE Fresh(r)'
    <2>1. \A i, t : Ahead(r, i, t)' => Ahead(r, i, t)
      BY <1>2 DEF Ahead
    <2>2. ASSUME NEW i \in 1..Len(Chain[r]), NEW k \in Keys,
                 k.model = Chain[r][i], Ahead(r, i, k.retry)'
          PROVE  k \notin DispatchKeys(r)
      <3>1. k.retry \in Nat /\ session[r].retry \in Nat
        BY <1>1 DEF Keys, Sessions
      <3>2. i = session[r].candidate => k.retry # session[r].retry
        BY <1>1, <1>2, <2>2, <3>1 DEF Ahead
      <3>3. i # session[r].candidate => k.model # Model(r)
        BY <1>1, <1>8, <2>2 DEF DistinctCandidates, Model
      <3> QED BY <3>2, <3>3, OfDispatch
    <2> QED BY <1>2, <1>3, <1>8, <2>1, <2>2, FreshKept DEF Dispatched, Stopped
  <1> QED BY <1>2, <1>4, <1>5, <1>6, <1>7, <1>8 DEF Dispatched

(* A checkpoint commits the claims of the call; a chain that ended makes   *)
(* no call.                                                                *)
LEMMA EndedDispatched ==
  ASSUME IInv, NEW r \in Runs, Dispatched(r),
         Checkpoint(r) \/ Close(r) \/ Victim(r) \/ Crash(r)
  PROVE  Dispatched(r)'
  <1>1. session[r] \in Sessions
    BY DEF IInv, TypeOK
  <1>2. CASE Checkpoint(r)
    <2>1. /\ session[r].pc = "claimed" /\ session'[r].pc = "calling"
          /\ session'[r].candidate = session[r].candidate
          /\ session'[r].retry = session[r].retry
          /\ session'[r].receipt = session[r].receipt
      BY <1>1, <1>2 DEF IInv, TypeOK, Checkpoint, Sessions
    <2>2. claims'[r] = drafted[r] /\ drafted' = drafted
      BY <1>2 DEF IInv, TypeOK, Checkpoint, Commit
    <2>3. DispatchKeys(r)' = DispatchKeys(r)
      BY <2>1 DEF DispatchKeys, Model
    <2>4. DistinctCandidates => InForce(r)'
      BY <2>1, <2>2 DEF Dispatched, InForce
    <2>5. ASSUME DistinctCandidates PROVE Fresh(r)'
      <3>1. \A i, t : Ahead(r, i, t)' => Ahead(r, i, t)
        BY <2>1 DEF Ahead
      <3> QED BY <2>1, <2>2, <2>5, <3>1, FreshKept DEF Dispatched, Stopped
    <2> QED BY <2>1, <2>2, <2>3, <2>4, <2>5 DEF Dispatched
  <1>3. CASE Close(r) \/ Victim(r) \/ Crash(r)
    <2>1. session'[r].pc \in Stopped
      BY <1>1, <1>3 DEF IInv, TypeOK, Close, Victim, Crash, Sessions, Stopped
    <2>2. /\ claims'[r] \in {claims[r], drafted[r]}
          /\ drafted'[r] \in {claims[r], drafted[r]}
      BY <1>3 DEF IInv, TypeOK, Close, Victim, Crash, Commit, Rollback
    <2> QED BY <2>1, <2>2 DEF Dispatched, Twinned, Fresh, InForce, Stopped
  <1> QED BY <1>2, <1>3

(* A reconciliation closes both claims of a dispatch.                      *)
LEMMA SettleDispatched ==
  ASSUME IInv, NEW r \in Runs, Dispatched(r), Settle(r)
  PROVE  Dispatched(r)'
  <1>1. /\ session[r] \in Sessions /\ session[r].candidate \in 1..Len(Chain[r])
        /\ Len(Chain[r]) \in Nat /\ session[r].pc = "settling"
    <2>1. session[r].pc = "settling"
      BY DEF Settle
    <2> QED BY <2>1, BudgetAssumption DEF IInv, TypeOK
  <1>2. claims' = claims
    BY DEF Settle
  <1>3. ASSUME NEW k \in Keys
        PROVE  drafted'[r][k].status = IF k \in Open(r) THEN "reconciled"
                                                       ELSE drafted[r][k].status
    <2>1. drafted[r][k] \in Claims
      BY DEF IInv, TypeOK
    <2>2. drafted'[r][k] = IF k \in Open(r)
                           THEN [drafted[r][k] EXCEPT !.status = "reconciled",
                                                      !.cost = session[r].cost]
                           ELSE drafted[r][k]
      BY DEF IInv, TypeOK, Settle
    <2> QED BY <2>1, <2>2 DEF Claims
  <1>4. \A k \in Keys : k \in Open(r) <=> /\ k.model = Model(r) /\ k.retry = session[r].retry
                                         /\ drafted[r][k].status = "claimed"
    BY <1>1, OfDispatch DEF Dispatched, Open
  <1>5. Twinned(drafted'[r])
    BY <1>3, <1>4 DEF Dispatched, Twinned
  <1>6. /\ session'[r].pc \in {"claiming", "closing"}
        /\ \/ session'[r].candidate = session[r].candidate + 1
           \/ /\ session'[r].candidate = session[r].candidate
              /\ \/ session'[r].retry = session[r].retry + 1
                 \/ session'[r].retry = session[r].retry /\ session'[r].pc = "closing"
    <2>1. CASE session' = [session EXCEPT ![r] = NextRetry(r)]
      BY <1>1, <2>1 DEF IInv, TypeOK, NextRetry, Sessions
    <2>2. CASE session' = [session EXCEPT ![r] = NextCandidate(r)]
      BY <1>1, <2>2 DEF IInv, TypeOK, NextCandidate, Sessions
    <2>3. CASE session' = [session EXCEPT ![r].pc = "closing"]
      BY <1>1, <2>3 DEF IInv, TypeOK, Sessions
    <2> QED BY <2>1, <2>2, <2>3 DEF Settle
  <1>7. ASSUME DistinctCandidates PROVE Fresh(r)'
    <2>1. \A i \in 1..Len(Chain[r]), t \in 0..MaxRetries : Ahead(r, i, t)' => Ahead(r, i, t)
      <3>1. session[r].retry \in 0..MaxRetries /\ MaxRetries \in Nat
        BY <1>1, BudgetAssumption DEF Sessions
      <3> QED BY <1>1, <1>6, <3>1 DEF Ahead
    <2>2. \A k \in Keys : drafted[r][k].status = "none" => drafted'[r][k].status = "none"
      BY <1>3, <1>4
    <2> QED BY <1>1, <1>7, <2>1, <2>2, FreshKept DEF Dispatched, Stopped
  <1> QED BY <1>2, <1>5, <1>6, <1>7 DEF Dispatched, InForce

(* Nothing is claimed yet.                                                 *)
LEMMA InitDInv == Init => DInv
  BY DEF Init, DInv, NoClaim, Dispatched, Twinned, Fresh, InForce

(* Every step keeps the dispatches.                                        *)
LEMMA NextDInv == IInv /\ DInv /\ [Next]_vars => DInv'
  <1> SUFFICES ASSUME IInv, \A r \in Runs : Dispatched(r), [Next]_vars, NEW q \in Runs
               PROVE  Dispatched(q)'
    BY DEF DInv
  <1>1. CASE \E r \in Runs : ChainStep(r) \/ Crash(r)
    <2>1. PICK r \in Runs : ChainStep(r) \/ Crash(r)
      BY <1>1
    <2>2. CASE q = r
      BY <2>1, <2>2, MovedDispatched, ReserveDispatched, EndedDispatched, SettleDispatched
         DEF ChainStep
    <2>3. CASE q # r
      BY <2>1, <2>3, OthersAlone, DispatchedKept DEF IInv
    <2> QED BY <2>2, <2>3
  <1>2. CASE NextDay \/ UNCHANGED vars
    BY <1>2, DispatchedKept DEF NextDay, vars
  <1> QED BY <1>1, <1>2 DEF Next

(* Dispatches stay paired and fresh: see Dispatched.                       *)
THEOREM DispatchInvariance == Spec => []DInv
  BY InitDInv, NextDInv, Invariance, PTL DEF Spec

(* If no chain names a model twice, every provider call has two committed, *)
(* open claims of its own when it starts.                                  *)
THEOREM EveryCallIsReserved ==
  ASSUME DistinctCandidates
  PROVE  Spec => []CallsAreReserved
  <1>1. DInv => CallsAreReserved
    BY DispatchKinds DEF DInv, Dispatched, InForce, CallsAreReserved
  <1> QED BY <1>1, DispatchInvariance, PTL

-----------------------------------------------------------------------------
(* Lock order.  Within a day, if the providers have an order that every    *)
(* chain goes down, a session only waits for counters below all those that *)
(* it holds: it locks the day before the month, a provider's two counters  *)
(* together, and higher providers first.                                   *)

GoesDown(rank) ==
  /\ rank \in [Providers -> Nat]
  /\ \A p, q \in Providers : rank[p] = rank[q] => p = q
  /\ \A r \in Runs : \A i, j \in 1..Len(Chain[r]) :
       i <= j => rank[Provider[Chain[r][j]]] <= rank[Provider[Chain[r][i]]]

CounterOf(p, kind) == [provider |-> p, kind |-> kind, period |-> 0]

Level(rank, s) == 2 * rank[s.provider] + (IF s.kind = "day" THEN 1 ELSE 0)

Here(r) == Provider[Model(r)]

Pair(p) == <<CounterOf(p, "day"), CounterOf(p, "month")>>

Locks(rank, r) ==
  /\ \A s \in Scopes : owner[s] = r => rank[Here(r)] <= rank[s.provider]
  /\ \A p \in Providers :
       /\ owner[CounterOf(p, "month")] = r => owner[CounterOf(p, "day")] = r
       /\ owner[CounterOf(p, "day")] = r =>
            \/ owner[CounterOf(p, "month")] = r
            \/ session[r].want = <<CounterOf(p, "month")>>
  /\ session[r].want \in {<<>>, <<CounterOf(Here(r), "month")>>, Pair(Here(r))}
  /\ session[r].want = <<CounterOf(Here(r), "month")>> => owner[CounterOf(Here(r), "day")] = r
  /\ session[r].want # <<>> => session[r].pc \in {"locking", "settling"}

LInv(rank) == \A r \in Runs : Locks(rank, r)

(* Queues of one or two counters.                                          *)
LEMMA ShortQueues ==
  ASSUME NEW a, NEW b, NEW c
  PROVE  /\ <<>> # <<a>> /\ <<a>> # <<b, c>> /\ <<>> # <<b, c>>
         /\ Head(<<a>>) = a /\ Tail(<<a>>) = <<>>
         /\ Head(<<b, c>>) = b /\ Tail(<<b, c>>) = <<c>>
         /\ <<>> \o <<>> = <<>> /\ <<b>> \o <<c>> = <<b, c>>
  <1>1. <<>> # <<a>> /\ <<a>> # <<b, c>> /\ <<>> # <<b, c>>
    <2>1. Len(<<>>) = 0 /\ Len(<<a>>) = 1 /\ Len(<<b, c>>) = 2
      OBVIOUS
    <2> QED BY <2>1
  <1>2. Head(<<a>>) = a /\ Head(<<b, c>>) = b
    OBVIOUS
  <1>3. Tail(<<a>>) = <<>>
    OBVIOUS
  <1>4. Tail(<<b, c>>) = <<c>>
    OBVIOUS
  <1>5. <<>> \o <<>> = <<>>
    OBVIOUS
  <1>6. <<b>> \o <<c>> = <<b, c>>
    <2> DEFINE T == {b, c}
               x == <<b>>
               y == <<c>>
    <2>1. x \in Seq(T) /\ y \in Seq(T) /\ <<b, c>> \in Seq(T)
      OBVIOUS
    <2>2. Len(x) = 1 /\ Len(y) = 1 /\ x[1] = b /\ y[1] = c
      OBVIOUS
    <2> HIDE DEF x, y
    <2>3. /\ x \o y \in Seq(T) /\ Len(x \o y) = 2
          /\ \A i \in 1..2 : (x \o y)[i] = IF i <= 1 THEN x[i] ELSE y[i - 1]
      BY <2>1, <2>2, ConcatProperties
    <2>4. \A i \in 1..2 : (x \o y)[i] = <<b, c>>[i]
      <3>1. \A i \in 1..2 : i = 1 \/ i = 2
        OBVIOUS
      <3>2. (x \o y)[1] = x[1]
        BY <2>3
      <3>3. (x \o y)[2] = y[2 - 1]
        BY <2>3
      <3>4. 2 - 1 = 1 /\ <<b, c>>[1] = b /\ <<b, c>>[2] = c
        OBVIOUS
      <3> QED BY <2>2, <3>1, <3>2, <3>3, <3>4
    <2>5. Len(<<b, c>>) = 2
      OBVIOUS
    <2>6. x \o y = <<b, c>>
      BY <2>1, <2>3, <2>4, <2>5, SeqEqual
    <2> QED BY <2>6 DEF x, y
  <1> QED BY <1>1, <1>2, <1>3, <1>4, <1>5, <1>6

(* In one day there are two counters of each provider.                     *)
LEMMA OneDay ==
  ASSUME LastDay = 0
  PROVE  /\ Periods = {0}
         /\ \A p \in Providers, kind \in Kinds : CounterOf(p, kind) \in Scopes
         /\ \A s \in Scopes : s = CounterOf(s.provider, s.kind) /\ s.provider \in Providers
                              /\ s.kind \in {"day", "month"}
         /\ \A p, q, kind, other : CounterOf(p, kind) = CounterOf(q, other) =>
                                     p = q /\ kind = other
  <1>1. Periods = {0}
    BY DEF Periods
  <1> QED BY <1>1 DEF Scopes, CounterOf, Kinds, Periods

(* The provider of a candidate.                                            *)
LEMMA HereType ==
  ASSUME TypeOK, NEW r \in Runs
  PROVE  Here(r) \in Providers
  BY DispatchKeysType, BudgetAssumption DEF Here

(* What a session waits for is below what it holds.                        *)
LEMMA WaitsBelow ==
  ASSUME LastDay = 0, NEW rank, GoesDown(rank), TypeOK, NEW r \in Runs, Locks(rank, r),
         Waits(r), NEW s \in Scopes, owner[s] = r
  PROVE  Level(rank, Head(session[r].want)) < Level(rank, s)
  <1> DEFINE p == Here(r)
             h == Head(session[r].want)
  <1>1. p \in Providers /\ s.provider \in Providers /\ s = CounterOf(s.provider, s.kind)
        /\ s.kind \in {"day", "month"}
    BY HereType, OneDay
  <1>2. rank[p] \in Nat /\ rank[s.provider] \in Nat /\ rank[p] <= rank[s.provider]
    BY <1>1 DEF GoesDown, Locks
  <1>3. owner[h] # r
    BY DEF Waits
  <1>4. h \in {CounterOf(p, "month"), CounterOf(p, "day")}
        /\ (h = CounterOf(p, "day") => session[r].want = Pair(p))
    BY OneDay DEF Locks, Waits, Pair
  <1>5. Level(rank, h) = 2 * rank[p] + (IF h = CounterOf(p, "day") THEN 1 ELSE 0)
    BY <1>4 DEF Level, CounterOf
  <1>6. Level(rank, s) = 2 * rank[s.provider] + (IF s.kind = "day" THEN 1 ELSE 0)
    BY DEF Level
  <1>7. CASE s.provider # p
    <2>1. rank[p] # rank[s.provider]
      BY <1>1, <1>7 DEF GoesDown
    <2> QED BY <1>2, <1>5, <1>6, <2>1
  <1>8. CASE s.provider = p
    <2>1. h = CounterOf(p, "month") /\ s.kind = "day"
      BY <1>1, <1>3, <1>4, <1>8 DEF Locks
    <2>2. h # CounterOf(p, "day")
      BY <2>1 DEF CounterOf
    <2> QED BY <1>2, <1>5, <1>6, <1>8, <2>1, <2>2
  <1> QED BY <1>7, <1>8

(* So nobody waits in a circle: somebody waits for the lowest counter.     *)
LEMMA NoLockCycle ==
  ASSUME LastDay = 0, NEW rank, GoesDown(rank), TypeOK, LInv(rank), NEW r \in Runs
  PROVE  ~Deadlocked(r)
  <1> SUFFICES ASSUME NEW S \in SUBSET Runs, r \in S,
                      \A q \in S : Waits(q) /\ owner[Head(session[q].want)] \in S
               PROVE  FALSE
    BY DEF Deadlocked
  <1> DEFINE level(q) == Level(rank, Head(session[q].want))
             T == {level(q) : q \in S}
  <1>1. \A q \in S : Head(session[q].want) \in Scopes
    <2> SUFFICES ASSUME NEW q \in S PROVE Head(session[q].want) \in Scopes
      OBVIOUS
    <2>1. session[q].want \in Seq(Scopes) /\ session[q].want # <<>>
      BY DEF TypeOK, Sessions, Waits
    <2> QED BY <2>1
  <1>2. T \subseteq Nat /\ T # {}
    <2>1. \A s \in Scopes : Level(rank, s) \in Nat
      <3> SUFFICES ASSUME NEW s \in Scopes PROVE Level(rank, s) \in Nat
        OBVIOUS
      <3>1. rank[s.provider] \in Nat
        BY OneDay DEF GoesDown
      <3> QED BY <3>1 DEF Level
    <2> QED BY <1>1, <2>1
  <1>3. PICK low \in T : \A m \in T : ~(m < low)
    <2>1. IsWellFoundedOn(OpToRel(<, Nat), Nat)
      BY NatLessThanWellFounded
    <2> HIDE DEF T
    <2>2. PICK low \in T : \A m \in T : ~(<<m, low>> \in OpToRel(<, Nat))
      BY <1>2, <2>1, WFMin
    <2> QED BY <1>2, <2>2 DEF OpToRel
  <1>4. PICK q \in S : low = level(q)
    OBVIOUS
  <1> DEFINE o == owner[Head(session[q].want)]
  <1>5. o \in S /\ Waits(o) /\ Locks(rank, o)
    BY DEF LInv
  <1>6. level(o) < level(q)
    BY <1>1, <1>5, WaitsBelow
  <1> QED BY <1>3, <1>4, <1>5, <1>6

(* A session's locks and its queue, while others move.                     *)
LEMMA LocksKept ==
  ASSUME LastDay = 0, NEW rank, NEW q \in Runs, Locks(rank, q), session'[q] = session[q],
         \A s \in Scopes : owner'[s] = q <=> owner[s] = q, TypeOK
  PROVE  Locks(rank, q)'
  <1>1. Here(q)' = Here(q) /\ Here(q) \in Providers
    BY HereType DEF Here, Model
  <1> QED BY <1>1, OneDay DEF Locks, Kinds

(* A session that waits for nothing moves on, also to lock a pair.         *)
LEMMA LocksMoved ==
  ASSUME LastDay = 0, NEW rank, GoesDown(rank), TypeOK, TypeOK', NEW r \in Runs,
         Locks(rank, r), UNCHANGED owner, session[r].want = <<>>,
         session[r].candidate <= session'[r].candidate,
         session'[r].want \in {<<>>, Pair(Here(r)')},
         session'[r].want # <<>> => session'[r].pc \in {"locking", "settling"}
  PROVE  Locks(rank, r)'
  <1>1. /\ Here(r) = Provider[Chain[r][session[r].candidate]]
        /\ Here(r)' = Provider[Chain[r][session'[r].candidate]]
        /\ Here(r) \in Providers /\ Here(r)' \in Providers
    BY HereType, BudgetAssumption DEF Here, Model, TypeOK
  <1>2. session[r].candidate \in 1..Len(Chain[r]) /\ session'[r].candidate \in 1..Len(Chain[r])
    BY DEF TypeOK
  <1>3. rank[Here(r)'] <= rank[Here(r)]
    BY <1>1, <1>2 DEF GoesDown
  <1>4. \A s \in Scopes : owner[s] = r => rank[Here(r)'] <= rank[s.provider]
    <2> SUFFICES ASSUME NEW s \in Scopes, owner[s] = r
                 PROVE  rank[Here(r)'] <= rank[s.provider]
      OBVIOUS
    <2>1. rank[Here(r)] <= rank[s.provider] /\ s.provider \in Providers
      BY OneDay DEF Locks
    <2>2. rank[Here(r)] \in Nat /\ rank[Here(r)'] \in Nat /\ rank[s.provider] \in Nat
      BY <1>1, <2>1 DEF GoesDown
    <2> QED BY <1>3, <2>1, <2>2
  <1>5. \A p \in Providers : owner[CounterOf(p, "day")] = r => owner[CounterOf(p, "month")] = r
    BY DEF Locks
  <1>6. session'[r].want # <<CounterOf(Here(r)', "month")>>
    <2>1. <<CounterOf(Here(r)', "month")>> # <<>>
          /\ <<CounterOf(Here(r)', "month")>> # Pair(Here(r)')
      BY ShortQueues DEF Pair
    <2> QED BY <2>1
  <1>7. \A p \in Providers : owner[CounterOf(p, "month")] = r => owner[CounterOf(p, "day")] = r
    BY DEF Locks
  <1> QED BY <1>4, <1>5, <1>6, <1>7 DEF Locks

(* A transaction that ends gives up its locks.                             *)
LEMMA LocksReleased ==
  ASSUME LastDay = 0, NEW rank, NEW r \in Runs, \A s \in Scopes : owner'[s] # r,
         session'[r].want = <<>>
  PROVE  Locks(rank, r)'
  BY OneDay DEF Locks, Kinds, Pair

(* A counter is locked.                                                    *)
LEMMA AcquireLocks ==
  ASSUME LastDay = 0, NEW rank, GoesDown(rank), TypeOK, NEW r \in Runs, Locks(rank, r), Acquire(r)
  PROVE  Locks(rank, r)'
  <1> DEFINE p == Here(r)
             day == CounterOf(p, "day")
             month == CounterOf(p, "month")
             h == Head(session[r].want)
  <1>1. session[r] \in Sessions /\ p \in Providers
    BY HereType DEF TypeOK
  <1>2. /\ session'[r].want = Tail(session[r].want) /\ session'[r].pc = session[r].pc
        /\ session'[r].candidate = session[r].candidate
    BY <1>1 DEF TypeOK, Acquire, Sessions
  <1>3. Here(r)' = p
    BY <1>2 DEF Here, Model
  <1>4. day \in Scopes /\ month \in Scopes /\ day # month
    BY <1>1, OneDay DEF Kinds, CounterOf
  <1>5. \/ session[r].want = <<month>> /\ session'[r].want = <<>> /\ h = month
           /\ owner[day] = r
        \/ session[r].want = <<day, month>> /\ session'[r].want = <<month>> /\ h = day
    <2>1. session[r].want # <<>>
      BY DEF Acquire
    <2>2. CASE session[r].want = <<month>>
      BY <1>2, <2>2, ShortQueues DEF Locks
    <2>3. CASE session[r].want = <<day, month>>
      BY <1>2, <2>3, ShortQueues
    <2> QED BY <2>1, <2>2, <2>3 DEF Locks, Pair
  <1>6. \A s \in Scopes : owner'[s] = IF s = h THEN r ELSE owner[s]
    BY DEF Acquire, TypeOK
  <1>7. \A s \in Scopes : owner'[s] = r => rank[p] <= rank[s.provider]
    <2> SUFFICES ASSUME NEW s \in Scopes, owner'[s] = r
                 PROVE  rank[p] <= rank[s.provider]
      OBVIOUS
    <2>1. CASE s = h
      <3>1. s.provider = p /\ rank[p] \in Nat
        BY <1>1, <1>5, <2>1 DEF CounterOf, GoesDown
      <3> QED BY <3>1
    <2>2. CASE s # h
      BY <1>6, <2>2 DEF Locks
    <2> QED BY <2>1, <2>2
  <1>8. ASSUME NEW q \in Providers, q # p
        PROVE  /\ owner'[CounterOf(q, "month")] = owner[CounterOf(q, "month")]
               /\ owner'[CounterOf(q, "day")] = owner[CounterOf(q, "day")]
               /\ <<CounterOf(q, "month")>> # <<month>>
    <2>1. CounterOf(q, "month") \in Scopes /\ CounterOf(q, "day") \in Scopes
      BY OneDay DEF Kinds
    <2>2. CounterOf(q, "month") # h /\ CounterOf(q, "day") # h /\ CounterOf(q, "month") # month
      BY <1>5, <1>8 DEF CounterOf
    <2> QED BY <1>6, <2>1, <2>2
  <1>9. ASSUME NEW q \in Providers
        PROVE  /\ owner'[CounterOf(q, "month")] = r => owner'[CounterOf(q, "day")] = r
               /\ owner'[CounterOf(q, "day")] = r =>
                    \/ owner'[CounterOf(q, "month")] = r
                    \/ session'[r].want = <<CounterOf(q, "month")>>
    <2>1. CASE q = p
      BY <1>4, <1>5, <1>6, <2>1
    <2>2. CASE q # p
      <3>1. session[r].want # <<CounterOf(q, "month")>>
        BY <1>5, <1>8, <2>2
      <3> QED BY <1>8, <2>2, <3>1 DEF Locks
    <2> QED BY <2>1, <2>2
  <1>10. session'[r].want = <<month>> => owner'[day] = r
    BY <1>4, <1>5, <1>6
  <1>11. session'[r].pc \in {"locking", "settling"}
    BY <1>2 DEF Locks, Acquire
  <1> QED BY <1>3, <1>5, <1>7, <1>9, <1>10, <1>11 DEF Locks, Pair

(* A reconciliation locks both counters of the provider or none.           *)
LEMMA SettleOrderPair ==
  ASSUME LastDay = 0, TypeOK, NEW r \in Runs, Dispatched(r),
         session[r].pc \in {"claimed", "calling"}
  PROVE  SettleOrder(r) \in {<<>>, Pair(Here(r))}
  <1>1. session[r].receipt = DispatchKeys(r) /\ DispatchKeys(r) \subseteq Keys
    BY DispatchKeysType DEF Dispatched
  <1>2. \A k, j \in DispatchKeys(r) : drafted[r][k].status = drafted[r][j].status
    BY <1>1, DispatchKinds DEF Dispatched, Twinned
  <1>3. CASE Open(r) = {}
    <2>1. OpenScopes(r, "day") = <<>> /\ OpenScopes(r, "month") = <<>>
      BY <1>3 DEF OpenScopes
    <2> QED BY <2>1, ShortQueues DEF SettleOrder
  <1>4. CASE Open(r) # {}
    <2>1. Open(r) = DispatchKeys(r)
      BY <1>1, <1>2, <1>4 DEF Open
    <2>2. ASSUME NEW kind \in Kinds
          PROVE  OpenScopes(r, kind) = <<CounterOf(Here(r), kind)>>
      <3> DEFINE open == {k \in Open(r) : k.kind = kind}
                 k == CHOOSE k \in open : TRUE
      <3>1. open # {}
        BY <2>1, DispatchKinds
      <3>2. k \in open
        BY <3>1
      <3>3. drafted[r][k].period = 0
        BY <1>1, <2>1, <3>2, OneDay DEF TypeOK, Claims
      <3>4. k.model = Model(r) /\ k.kind = kind
        BY <2>1, <3>2, DispatchKinds
      <3>5. OpenScopes(r, kind) = <<ScopeOf(k, drafted[r][k].period)>>
        BY <3>1 DEF OpenScopes
      <3>6. ScopeOf(k, drafted[r][k].period) = CounterOf(Here(r), kind)
        BY <3>3, <3>4 DEF ScopeOf, CounterOf, Here
      <3> QED BY <3>5, <3>6
    <2>3. OpenScopes(r, "day") = <<CounterOf(Here(r), "day")>>
          /\ OpenScopes(r, "month") = <<CounterOf(Here(r), "month")>>
      BY <2>2 DEF Kinds
    <2> QED BY <2>3, ShortQueues DEF SettleOrder, Pair
  <1> QED BY <1>3, <1>4

(* The steps of a session that waits for nothing and keeps its locks.      *)
LEMMA MovedLocks ==
  ASSUME LastDay = 0, NEW rank, GoesDown(rank), IInv, TypeOK', NEW r \in Runs,
         Dispatched(r), Locks(rank, r),
         \/ ClaimAgain(r) \/ Unconfigured(r) \/ StartClaim(r) \/ Reserve(r)
         \/ Exceeded(r) \/ Attempted(r) \/ Settle(r)
  PROVE  Locks(rank, r)'
  <1>1. /\ session[r] \in Sessions /\ TypeOK /\ session[r].candidate \in Nat
    BY DEF IInv, TypeOK, Sessions
  <1>2. UNCHANGED owner
    BY DEF ClaimAgain, Unconfigured, StartClaim, Reserve, Exceeded, Attempted, Settle
  <1>3. session[r].want = <<>>
    BY DEF Locks, ClaimAgain, Unconfigured, StartClaim, Reserve, Exceeded, Attempted, Settle
  <1>4. CASE StartClaim(r)
    <2>1. /\ session'[r].candidate = session[r].candidate /\ session'[r].pc = "locking"
          /\ session'[r].want = <<[provider |-> Provider[Model(r)], kind |-> "day",
                                  period |-> PeriodOf("day")],
                                 [provider |-> Provider[Model(r)], kind |-> "month",
                                  period |-> PeriodOf("month")]>>
      BY <1>1, <1>4 DEF TypeOK, StartClaim, Sessions
    <2>2. PeriodOf("day") = 0 /\ PeriodOf("month") = 0
      BY <1>1, PeriodOfType, OneDay
    <2>3. Here(r)' = Provider[Model(r)]
      BY <2>1 DEF Here, Model
    <2>4. session'[r].want = Pair(Here(r)')
      BY <2>1, <2>2, <2>3 DEF Pair, CounterOf
    <2> QED BY <1>1, <1>2, <1>3, <2>1, <2>4, LocksMoved
  <1>5. CASE Attempted(r)
    <2>1. session[r].pc \in {"claimed", "calling"}
      BY <1>5 DEF Attempted
    <2>2. PICK next \in {"close", "retry", "fallback"}, cost \in Actuals \cup {Estimate} :
            session' = [session EXCEPT ![r].pc = "settling", ![r].next = next,
                          ![r].cost = cost, ![r].want = SettleOrder(r)]
      BY <1>5 DEF Attempted
    <2>3. /\ session'[r].candidate = session[r].candidate /\ session'[r].pc = "settling"
          /\ session'[r].want = SettleOrder(r)
      BY <1>1, <2>2 DEF TypeOK, Sessions
    <2>4. Here(r)' = Here(r)
      BY <2>3 DEF Here, Model
    <2>5. session'[r].want \in {<<>>, Pair(Here(r)')}
      BY <1>1, <2>1, <2>3, <2>4, SettleOrderPair
    <2> QED BY <1>1, <1>2, <1>3, <2>3, <2>5, LocksMoved
  <1>6. CASE ClaimAgain(r) \/ Unconfigured(r) \/ Reserve(r) \/ Exceeded(r) \/ Settle(r)
    <2>1. session'[r].want = <<>> /\ session[r].candidate <= session'[r].candidate
      <3>1. CASE ClaimAgain(r)
        <4>1. \E existing : session'[r] = [session[r] EXCEPT !.pc = "claimed",
                                                             !.receipt = existing]
          BY <3>1 DEF IInv, TypeOK, ClaimAgain
        <4> QED BY <1>1, <1>3, <4>1 DEF Sessions
      <3>2. CASE Reserve(r)
        BY <1>1, <1>3, <3>2 DEF TypeOK, Sessions, Reserve
      <3>3. CASE session' = [session EXCEPT ![r].pc = "closing"]
        BY <1>1, <1>3, <3>3 DEF TypeOK, Sessions
      <3>4. CASE session' = [session EXCEPT ![r] = NextCandidate(r)]
        BY <1>1, <1>3, <3>4 DEF TypeOK, Sessions, NextCandidate
      <3>5. CASE session' = [session EXCEPT ![r] = NextRetry(r)]
        BY <1>1, <1>3, <3>5 DEF TypeOK, Sessions, NextRetry
      <3> QED BY <1>6, <3>1, <3>2, <3>3, <3>4, <3>5 DEF Unconfigured, Exceeded,
              StopOrFallBack, Settle
    <2> QED BY <1>1, <1>2, <1>3, <2>1, LocksMoved
  <1> QED BY <1>4, <1>5, <1>6

(* The end of a transaction or of a session.                               *)
LEMMA EndedLocks ==
  ASSUME LastDay = 0, NEW rank, TypeOK, NEW r \in Runs, Locks(rank, r),
         Checkpoint(r) \/ Close(r) \/ Victim(r) \/ Crash(r)
  PROVE  Locks(rank, r)'
  <1>1. session[r] \in Sessions
    BY DEF TypeOK
  <1>2. \A s \in Scopes : owner'[s] # r
    BY BudgetAssumption DEF Checkpoint, Close, Victim, Crash, Commit, Rollback
  <1>3. session'[r].want = <<>>
    <2>1. CASE Checkpoint(r) \/ Close(r)
      BY <1>1, <2>1 DEF TypeOK, Sessions, Checkpoint, Close, Locks
    <2>2. CASE Victim(r) \/ Crash(r)
      BY <1>1, <2>2 DEF TypeOK, Sessions, Victim, Crash
    <2> QED BY <2>1, <2>2
  <1> QED BY <1>2, <1>3, LocksReleased

(* The others' locks do not change hands.                                  *)
LEMMA OthersLocks ==
  ASSUME TypeOK, NEW r \in Runs, ChainStep(r) \/ Crash(r), NEW q \in Runs, q # r
  PROVE  \A s \in Scopes : owner'[s] = q <=> owner[s] = q
  <1>1. CASE UNCHANGED owner
    BY <1>1
  <1>2. CASE Acquire(r)
    <2>1. \A s \in Scopes : owner'[s] = IF s = Head(session[r].want) THEN r ELSE owner[s]
      BY <1>2 DEF TypeOK, Acquire
    <2>2. owner[Head(session[r].want)] \in {NoRun, r}
      BY <1>2 DEF Acquire
    <2> QED BY <2>1, <2>2, BudgetAssumption
  <1>3. CASE Commit(r) \/ Rollback(r)
    BY <1>3, BudgetAssumption DEF Commit, Rollback
  <1> QED BY <1>1, <1>2, <1>3 DEF ChainStep, Crash, ClaimAgain, Unconfigured, StartClaim,
             Reserve, Exceeded, Checkpoint, Attempted, Settle, Close, Victim

(* Only a victim is aborted.                                               *)
LEMMA NotAborting ==
  ASSUME TypeOK, NEW r \in Runs, ChainStep(r) \/ Crash(r), ~Victim(r),
         session[r].pc # "aborted"
  PROVE  session'[r].pc # "aborted"
  <1>1. session[r] \in Sessions
    BY DEF TypeOK
  <1>2. CASE ClaimAgain(r) \/ Unconfigured(r) \/ StartClaim(r) \/ Acquire(r) \/ Reserve(r)
    BY <1>1, <1>2 DEF TypeOK, Sessions, ClaimAgain, Unconfigured, StartClaim, Acquire, Reserve
  <1>3. CASE Checkpoint(r) \/ Close(r) \/ Crash(r)
    BY <1>1, <1>3 DEF TypeOK, Sessions, Checkpoint, Close, Crash
  <1>4. CASE Attempted(r)
    <2>1. PICK next \in {"close", "retry", "fallback"}, cost \in Actuals \cup {Estimate} :
            session' = [session EXCEPT ![r].pc = "settling", ![r].next = next,
                          ![r].cost = cost, ![r].want = SettleOrder(r)]
      BY <1>4 DEF Attempted
    <2> QED BY <1>1, <2>1 DEF TypeOK, Sessions
  <1>5. CASE session' = [session EXCEPT ![r].pc = "closing"]
    BY <1>1, <1>5 DEF TypeOK, Sessions
  <1>6. CASE session' = [session EXCEPT ![r] = NextCandidate(r)]
    BY <1>1, <1>6 DEF TypeOK, Sessions, NextCandidate
  <1>7. CASE session' = [session EXCEPT ![r] = NextRetry(r)]
    BY <1>1, <1>7 DEF TypeOK, Sessions, NextRetry
  <1> QED BY <1>2, <1>3, <1>4, <1>5, <1>6, <1>7
          DEF ChainStep, Exceeded, StopOrFallBack, Settle

(* Nothing is locked yet.                                                  *)
LEMMA InitLInv ==
  ASSUME LastDay = 0, NEW rank
  PROVE  Init => LInv(rank) /\ NeverAborted
  <1> SUFFICES ASSUME Init PROVE LInv(rank) /\ NeverAborted
    OBVIOUS
  <1>1. \A r \in Runs : \A s \in Scopes : owner[s] # r
    BY BudgetAssumption DEF Init
  <1>2. \A r \in Runs : session[r].want = <<>> /\ session[r].pc = "claiming"
    BY DEF Init
  <1>3. \A r \in Runs, p \in Providers :
          owner[CounterOf(p, "day")] # r /\ owner[CounterOf(p, "month")] # r
    BY <1>1, OneDay DEF Kinds
  <1> QED BY <1>1, <1>2, <1>3, ShortQueues DEF LInv, Locks, NeverAborted

(* Every step keeps the order of locks, and aborts nobody.                 *)
LEMMA NextLInv ==
  ASSUME LastDay = 0, NEW rank, GoesDown(rank)
  PROVE  IInv /\ IInv' /\ DInv /\ LInv(rank) /\ NeverAborted /\ [Next]_vars
           => LInv(rank)' /\ NeverAborted'
  <1> SUFFICES ASSUME IInv, IInv', DInv, LInv(rank), NeverAborted, [Next]_vars
               PROVE  LInv(rank)' /\ NeverAborted'
    OBVIOUS
  <1>1. TypeOK /\ TypeOK' /\ \A r \in Runs : Locks(rank, r) /\ Dispatched(r)
    BY DEF IInv, LInv, DInv
  <1>2. ASSUME NEW r \in Runs, ChainStep(r) \/ Crash(r)
        PROVE  LInv(rank)' /\ NeverAborted'
    <2>1. Locks(rank, r)'
      BY <1>1, <1>2, MovedLocks, EndedLocks, AcquireLocks DEF ChainStep
    <2>2. \A q \in Runs \ {r} : Locks(rank, q)' /\ session'[q] = session[q]
      BY <1>1, <1>2, OthersAlone, OthersLocks, LocksKept
    <2>3. ~Victim(r)
      BY <1>1, NoLockCycle DEF Victim
    <2>4. session'[r].pc # "aborted"
      BY <1>1, <1>2, <2>3, NotAborting DEF NeverAborted
    <2> QED BY <2>1, <2>2, <2>4 DEF LInv, NeverAborted
  <1>3. CASE NextDay
    BY <1>1, <1>3, OneDay DEF NextDay, TypeOK
  <1>4. CASE UNCHANGED vars
    BY <1>1, <1>4, LocksKept DEF vars, LInv, NeverAborted
  <1> QED BY <1>2, <1>3, <1>4 DEF Next

(* Within a day, chains that all go down one order of providers never      *)
(* lose a transaction to a lock cycle, though a retry or a fallback claims *)
(* with the last attempt's counters still locked.                          *)
THEOREM NobodyAborted ==
  ASSUME LastDay = 0, NEW CONSTANT rank, GoesDown(rank)
  PROVE  Spec => []NeverAborted
  <1>1. Init => LInv(rank) /\ NeverAborted
    BY InitLInv
  <1>2. IInv /\ IInv' /\ DInv /\ (LInv(rank) /\ NeverAborted) /\ [Next]_vars
          => (LInv(rank) /\ NeverAborted)'
    BY NextLInv
  <1> QED BY <1>1, <1>2, Invariance, DispatchInvariance, PTL DEF Spec
=============================================================================
