--------------------------- MODULE ProviderBudget ---------------------------
(***************************************************************************)
(* The spend fuse in front of every hosted provider call: day and month    *)
(* counters per provider, one claim per dispatch and period, and the       *)
(* candidate chain that claims, checkpoints, calls, reconciles and falls   *)
(* back.                                                                   *)
(*                                                                         *)
(* A chain works in one session.  Counters are read FOR UPDATE, so a       *)
(* transaction owns the counters it touched until its next commit; `draft' *)
(* is what the owner sees of a counter, `counter' what is committed.  The  *)
(* checkpoint before a call commits; reconciling after a call does not, so *)
(* a retry or a fallback claims while the last attempt's counters are      *)
(* still locked.  Amounts are whole units (the code rounds to 1e-6 USD).   *)
(***************************************************************************)
EXTENDS Naturals, Sequences, FiniteSetsExt

CONSTANTS
  Runs,       \* runs with a candidate chain, each in a session of its own
  Models,     \* (provider, model) pairs
  Providers,
  Provider,   \* the provider of each model
  Chain,      \* the candidates of each run, in order
  Daily,      \* daily_usd and monthly_usd of each provider's paid account
  Monthly,
  Estimate,   \* _estimate_dispatch_cost
  Actuals,    \* bound: what a call may turn out to have cost
  MaxRetries, \* max_retries of the policy
  LastDay,    \* bound on the clock, in days
  Month,      \* the month each day is in
  NoRun       \* the owner of an unlocked counter

ASSUME BudgetAssumption ==
  /\ Provider \in [Models -> Providers]
  /\ Chain \in [Runs -> Seq(Models) \ {<<>>}]
  /\ Daily \in [Providers -> Nat] /\ Monthly \in [Providers -> Nat]
  /\ Estimate \in Nat \ {0} /\ Actuals \subseteq Nat
  /\ MaxRetries \in Nat /\ LastDay \in Nat
  /\ Month \in [0..LastDay -> 0..LastDay]
  /\ NoRun \notin Runs

VARIABLES
  counter,   \* reserved_cost_usd of each scope, as committed
  draft,     \* the same, as its owner has changed it
  owner,     \* whose transaction holds the counter's row lock
  claims,    \* each run's claims, as committed
  drafted,   \* the same, as the run's session has changed them
  session,   \* each run's candidate chain
  today

vars == <<counter, draft, owner, claims, drafted, session, today>>

Kinds == {"day", "month"}

Scopes == [provider : Providers, kind : Kinds, period : 0..LastDay]

Keys == [model : Models, retry : 0..MaxRetries, kind : Kinds]

Periods == 0..LastDay

Limit(s) == IF s.kind = "day" THEN Daily[s.provider] ELSE Monthly[s.provider]

NoClaim == [status |-> "none", period |-> 0, cost |-> 0]

Claims == [status : {"none", "claimed", "reconciled"}, period : Periods,
           cost : Nat]  \* the estimate, then what the call cost

Stopped == {"done", "aborted", "lost"}

Sessions == [pc : {"claiming", "locking", "claimed", "calling", "settling",
                   "closing"} \cup Stopped,
             candidate : Nat, retry : 0..MaxRetries,
             want : Seq(Scopes),                \* counters still to lock
             day : Periods, month : Periods,    \* the periods of the claim
             receipt : SUBSET Keys,             \* its claims
             next : {"close", "retry", "fallback"},
             cost : Nat]                        \* what the call cost

ScopeOf(k, period) ==
  [provider |-> Provider[k.model], kind |-> k.kind, period |-> period]

PeriodOf(kind) == IF kind = "day" THEN today ELSE Month[today]

Model(r) == Chain[r][session[r].candidate]

\* Mutated: the retry is left out of the dispatch key.
DispatchKeysUnnumbered(r) == [model : {Model(r)}, retry : {0}, kind : Kinds]

DispatchKeys(r) ==
  [model : {Model(r)}, retry : {session[r].retry}, kind : Kinds]

-----------------------------------------------------------------------------
(* Transactions.                                                           *)

Commit(r) ==
  /\ counter' = [s \in Scopes |-> IF owner[s] = r THEN draft[s] ELSE counter[s]]
  /\ owner' = [s \in Scopes |-> IF owner[s] = r THEN NoRun ELSE owner[s]]
  /\ claims' = [claims EXCEPT ![r] = drafted[r]]
  /\ UNCHANGED <<draft, drafted>>

\* Mutated: a crashed session's counters survive, its claims do not.
RollbackClaims(r) ==
  /\ counter' = [s \in Scopes |-> IF owner[s] = r THEN draft[s] ELSE counter[s]]
  /\ owner' = [s \in Scopes |-> IF owner[s] = r THEN NoRun ELSE owner[s]]
  /\ drafted' = [drafted EXCEPT ![r] = claims[r]]
  /\ UNCHANGED <<draft, claims>>

Rollback(r) ==
  /\ draft' = [s \in Scopes |-> IF owner[s] = r THEN counter[s] ELSE draft[s]]
  /\ owner' = [s \in Scopes |-> IF owner[s] = r THEN NoRun ELSE owner[s]]
  /\ drafted' = [drafted EXCEPT ![r] = claims[r]]
  /\ UNCHANGED <<counter, claims>>

\* SELECT ... FOR UPDATE of the next counter the session needs.
Acquire(r) ==
  LET s == Head(session[r].want) IN
  /\ session[r].want # <<>>
  /\ owner[s] \in {NoRun, r}
  /\ owner' = [owner EXCEPT ![s] = r]
  /\ session' = [session EXCEPT ![r].want = Tail(@)]
  /\ UNCHANGED <<counter, draft, claims, drafted, today>>

-----------------------------------------------------------------------------
(* Claiming.                                                               *)

NextRetry(r) ==
  [session[r] EXCEPT !.pc = "claiming", !.retry = @ + 1, !.receipt = {}]

NextCandidate(r) ==
  [session[r] EXCEPT !.pc = "claiming", !.candidate = @ + 1, !.retry = 0,
                     !.receipt = {}]

\* The chain stops, or falls back if there is a candidate left.
StopOrFallBack(r) ==
  \/ session' = [session EXCEPT ![r].pc = "closing"]
  \/ /\ session[r].candidate < Len(Chain[r])
     /\ session' = [session EXCEPT ![r] = NextCandidate(r)]

\* A dispatch that has claims already keeps them.
ClaimAgain(r) ==
  LET existing == {k \in DispatchKeys(r) : drafted[r][k].status # "none"} IN
  /\ session[r].pc = "claiming"
  /\ existing # {}
  /\ session' = [session EXCEPT ![r].pc = "claimed", ![r].receipt = existing]
  /\ UNCHANGED <<counter, draft, owner, claims, drafted, today>>

\* A paid account without both limits ends the chain.
Unconfigured(r) ==
  LET p == Provider[Model(r)] IN
  /\ session[r].pc = "claiming"
  /\ \A k \in DispatchKeys(r) : drafted[r][k].status = "none"
  /\ Daily[p] = 0 \/ Monthly[p] = 0
  /\ session' = [session EXCEPT ![r].pc = "closing"]
  /\ UNCHANGED <<counter, draft, owner, claims, drafted, today>>

\* The day's counter is locked first, then the month's.
StartClaim(r) ==
  LET p == Provider[Model(r)]
      scope(kind) == [provider |-> p, kind |-> kind, period |-> PeriodOf(kind)]
  IN
  /\ session[r].pc = "claiming"
  /\ \A k \in DispatchKeys(r) : drafted[r][k].status = "none"
  /\ Daily[p] > 0 /\ Monthly[p] > 0
  /\ session' = [session EXCEPT ![r].pc = "locking",
                   ![r].want = <<scope("day"), scope("month")>>,
                   ![r].day = PeriodOf("day"),
                   ![r].month = PeriodOf("month")]
  /\ UNCHANGED <<counter, draft, owner, claims, drafted, today>>

ClaimPeriod(r, kind) == IF kind = "day" THEN session[r].day ELSE session[r].month

ClaimScopes(r) ==
  {ScopeOf(k, ClaimPeriod(r, k.kind)) : k \in DispatchKeys(r)}

\* Mutated: the estimate is not counted in.
FitsBarely(s) == draft[s] <= Limit(s)

Fits(s) == draft[s] + Estimate <= Limit(s)

Reserve(r) ==
  /\ session[r].pc = "locking" /\ session[r].want = <<>>
  /\ \A s \in ClaimScopes(r) : Fits(s)
  /\ draft' = [s \in Scopes |-> IF s \in ClaimScopes(r) THEN draft[s] + Estimate
                                                       ELSE draft[s]]
  /\ drafted' = [drafted EXCEPT ![r] = [k \in Keys |->
                   IF k \in DispatchKeys(r)
                   THEN [status |-> "claimed", period |-> ClaimPeriod(r, k.kind),
                         cost |-> Estimate]
                   ELSE @[k]]]
  /\ session' = [session EXCEPT ![r].pc = "claimed",
                                ![r].receipt = DispatchKeys(r)]
  /\ UNCHANGED <<counter, owner, claims, today>>

\* provider.budget_exceeded may fall back; the counters stay locked.
Exceeded(r) ==
  /\ session[r].pc = "locking" /\ session[r].want = <<>>
  /\ \E s \in ClaimScopes(r) : ~Fits(s)
  /\ StopOrFallBack(r)
  /\ UNCHANGED <<counter, draft, owner, claims, drafted, today>>

-----------------------------------------------------------------------------
(* Calling and reconciling.                                                *)

\* The commit before provider I/O.
Checkpoint(r) ==
  /\ session[r].pc = "claimed"
  /\ Commit(r)
  /\ session' = [session EXCEPT ![r].pc = "calling"]
  /\ UNCHANGED today

Open(r) == {k \in session[r].receipt : drafted[r][k].status = "claimed"}

OpenScopes(r, kind) ==
  LET open == {k \in Open(r) : k.kind = kind} IN
  IF open = {} THEN <<>>
  ELSE LET k == CHOOSE k \in open : TRUE IN
       <<ScopeOf(k, drafted[r][k].period)>>

\* Mutated: the month's claim is reconciled first.
SettleOrderReversed(r) == OpenScopes(r, "month") \o OpenScopes(r, "day")

\* reconcile locks the counters in the order of the receipt.
SettleOrder(r) == OpenScopes(r, "day") \o OpenScopes(r, "month")

\* Mutated: one retry too many.
AttemptedOnceMore(r) ==
  /\ session[r].pc \in {"calling", "claimed"}
  /\ \E next \in {"close", "retry", "fallback"}, cost \in Actuals \cup {Estimate} :
       /\ next = "retry" => session[r].pc = "calling"
                            /\ session[r].retry <= MaxRetries
       /\ next = "fallback" => session[r].candidate < Len(Chain[r])
       /\ session[r].pc = "claimed" => cost = Estimate
       /\ session' = [session EXCEPT ![r].pc = "settling", ![r].next = next,
                        ![r].cost = cost, ![r].want = SettleOrder(r)]
  /\ UNCHANGED <<counter, draft, owner, claims, drafted, today>>

\* The provider answered, failed with a known error, or timed out; or the
\* preflight found that the context does not fit, before the checkpoint.  An
\* unknown cost is reconciled as the estimate.
Attempted(r) ==
  /\ session[r].pc \in {"calling", "claimed"}
  /\ \E next \in {"close", "retry", "fallback"}, cost \in Actuals \cup {Estimate} :
       /\ next = "retry" => session[r].pc = "calling"
                            /\ session[r].retry < MaxRetries
       /\ next = "fallback" => session[r].candidate < Len(Chain[r])
       /\ session[r].pc = "claimed" => cost = Estimate
       /\ session' = [session EXCEPT ![r].pc = "settling", ![r].next = next,
                        ![r].cost = cost, ![r].want = SettleOrder(r)]
  /\ UNCHANGED <<counter, draft, owner, claims, drafted, today>>

Reconciled(s, r) ==
  IF draft[s] + session[r].cost > Estimate
  THEN draft[s] + session[r].cost - Estimate ELSE 0

\* Nothing is committed before the next checkpoint or the end of the chain.
Settle(r) ==
  LET scopes == {ScopeOf(k, drafted[r][k].period) : k \in Open(r)} IN
  /\ session[r].pc = "settling" /\ session[r].want = <<>>
  /\ draft' = [s \in Scopes |-> IF s \in scopes THEN Reconciled(s, r)
                                               ELSE draft[s]]
  /\ drafted' = [drafted EXCEPT ![r] = [k \in Keys |->
                   IF k \in Open(r)
                   THEN [@[k] EXCEPT !.status = "reconciled",
                                     !.cost = session[r].cost]
                   ELSE @[k]]]
  /\ \/ /\ session[r].next = "retry"
        /\ session' = [session EXCEPT ![r] = NextRetry(r)]
     \/ /\ session[r].next = "fallback"
        /\ session' = [session EXCEPT ![r] = NextCandidate(r)]
     \/ /\ session[r].next = "close"
        /\ session' = [session EXCEPT ![r].pc = "closing"]
  /\ UNCHANGED <<counter, owner, claims, today>>

\* Mutated: the counters stay locked.
CloseLocked(r) ==
  /\ session[r].pc \in {"closing", "claiming"}
  /\ counter' = [s \in Scopes |-> IF owner[s] = r THEN draft[s] ELSE counter[s]]
  /\ claims' = [claims EXCEPT ![r] = drafted[r]]
  /\ session' = [session EXCEPT ![r].pc = "done"]
  /\ UNCHANGED <<draft, owner, drafted, today>>

\* The terminal state, a cancellation seen between two attempts included.
Close(r) ==
  /\ session[r].pc \in {"closing", "claiming"}
  /\ Commit(r)
  /\ session' = [session EXCEPT ![r].pc = "done"]
  /\ UNCHANGED today

-----------------------------------------------------------------------------
(* What interrupts a chain.                                                *)

Waits(r) == session[r].want # <<>> /\ owner[Head(session[r].want)] \notin {NoRun, r}

Deadlocked(r) ==
  \E S \in SUBSET Runs :
    /\ r \in S
    /\ \A q \in S : Waits(q) /\ owner[Head(session[q].want)] \in S

\* The database ends a lock cycle by failing one of its transactions.
Victim(r) ==
  /\ Deadlocked(r)
  /\ Rollback(r)
  /\ session' = [session EXCEPT ![r].pc = "aborted", ![r].want = <<>>]
  /\ UNCHANGED today

Crash(r) ==
  /\ session[r].pc \notin Stopped
  /\ Rollback(r)
  /\ session' = [session EXCEPT ![r].pc = "lost", ![r].want = <<>>]
  /\ UNCHANGED today

NextDay ==
  /\ today < LastDay
  /\ today' = today + 1
  /\ UNCHANGED <<counter, draft, owner, claims, drafted, session>>

-----------------------------------------------------------------------------
Init ==
  /\ counter = [s \in Scopes |-> 0]
  /\ draft = counter
  /\ owner = [s \in Scopes |-> NoRun]
  /\ claims = [r \in Runs |-> [k \in Keys |-> NoClaim]]
  /\ drafted = claims
  /\ session = [r \in Runs |->
       [pc |-> "claiming", candidate |-> 1, retry |-> 0, want |-> <<>>,
        day |-> 0, month |-> 0, receipt |-> {}, next |-> "close", cost |-> 0]]
  /\ today = 0

ChainStep(r) ==
  \/ ClaimAgain(r)
  \/ Unconfigured(r)
  \/ StartClaim(r)
  \/ Acquire(r)
  \/ Reserve(r)
  \/ Exceeded(r)
  \/ Checkpoint(r)
  \/ Attempted(r)
  \/ Settle(r)
  \/ Close(r)
  \/ Victim(r)

Next ==
  \/ \E r \in Runs : ChainStep(r) \/ Crash(r)
  \/ NextDay

Spec == Init /\ [][Next]_vars

(* Sessions go on, and a provider call ends at its timeout.                *)
FairSpec == Spec /\ \A r \in Runs : WF_vars(ChainStep(r))

-----------------------------------------------------------------------------
(* Type correctness of the counters, the claims and the sessions.          *)
TypeOK ==
  /\ counter \in [Scopes -> Nat]
  /\ draft \in [Scopes -> Nat]
  /\ owner \in [Scopes -> Runs \cup {NoRun}]
  /\ claims \in [Runs -> [Keys -> Claims]]
  /\ drafted \in [Runs -> [Keys -> Claims]]
  /\ today \in Periods
  /\ session \in [Runs -> Sessions]
  /\ \A r \in Runs : session[r].candidate \in 1..Len(Chain[r])

(* A counter is the sum of its claims: what open ones reserve and what     *)
(* reconciled ones cost, through crashes, fallbacks and midnight.          *)
CounterIsSum ==
  \A s \in Scopes :
    LET claim(c) == claims[c[1]][c[2]]
        here == {c \in Runs \X Keys :
                   /\ claim(c).status # "none"
                   /\ ScopeOf(c[2], claim(c).period) = s} IN
    counter[s] = MapThenSumSet(LAMBDA c : claim(c).cost, here)

(* Concurrent chains never reserve beyond a limit: a counter over it has a *)
(* claim whose call cost more than was reserved for it.                    *)
ReservedWithinLimit ==
  \A s \in Scopes :
    \/ counter[s] <= Limit(s)
    \/ \E r \in Runs, k \in Keys :
         /\ claims[r][k].status = "reconciled"
         /\ ScopeOf(k, claims[r][k].period) = s
         /\ claims[r][k].cost > Estimate

(* Every provider call in flight has committed, open reservations of its   *)
(* own in the day's and in the month's counter.                            *)
CallsAreReserved ==
  \A r \in Runs :
    session[r].pc = "calling" =>
      /\ {k.kind : k \in session[r].receipt} = Kinds
      /\ \A k \in session[r].receipt : claims[r][k].status = "claimed"

(* No chain loses its transaction to a lock cycle with another chain.      *)
NeverAborted == \A r \in Runs : session[r].pc # "aborted"

(* Every chain ends: nobody waits for a counter for ever.                  *)
ChainEnds == \A r \in Runs : <>(session[r].pc \in Stopped)
=============================================================================
