-------------------------- MODULE PortalIdempotency --------------------------
(***************************************************************************)
(* Mutations of the customer portal under one Idempotency-Key of one        *)
(* principal: a request claims the receipt of the key, executes, and its    *)
(* response is recorded in the receipt before the client gets it. The       *)
(* effect and the receipt are two transactions                              *)
(* (app/domain/portal_idempotency.py, app/api/portal_idempotency_middleware *)
(* .py, app/api/portal_session.py), so a receipt can be left without a      *)
(* response; only the routes that place orders can then find the effect     *)
(* again, by a business key that the order carries                          *)
(* (app/domain/commercial/mixins/_payment_mixin.py).                        *)
(***************************************************************************)
EXTENDS Naturals

CONSTANTS
  Requests,     \* requests with this key: the first, retries, other ones
  Bodies,       \* what they ask for: the fingerprint of method, path and body
  OrderBodies,  \* those for the routes that place orders
  NoOne,
  Lease,        \* portal_idempotency_processing_lease_seconds, in ticks
  Retention,    \* portal_idempotency_ttl_seconds, in ticks
  Horizon       \* bound on the clock

VARIABLES
  clock,
  receipt,      \* the row of the key
  order,        \* the payment order that carries the business key
  pc,           \* pc[q]: where request q stands
  body,         \* body[q]: what it asks for
  now,          \* now[q]: the time it works with, taken when it arrived
  doomed,       \* doomed[q]: the receipt its cleanup has selected, or NoOne
  outcome,      \* outcome[q]: the request whose effect the response of q reports
  answer,       \* answer[q]: what the client of q got
  effects,      \* history: requests that had an effect
  recorded      \* history: when the response of q was recorded, 0 if never

requestVars == <<pc, body, now, doomed, outcome, answer>>
vars == <<clock, receipt, order, requestVars, effects, recorded>>

ASSUME PortalAssumption ==
  /\ NoOne \notin Requests \union Bodies
  /\ OrderBodies \subseteq Bodies
  /\ Lease \in Nat \ {0} /\ Retention \in Nat /\ Retention > Lease
  /\ Horizon \in Nat \ {0}

\* "by" stands for the identifier and the claim token of the row: both are minted
\* (uuid4) by the request that inserts it.
Response == {"none", "original", "fallback"}
Receipt == [state: {"none", "processing", "completed"}, by: Requests \union {NoOne},
            body: Bodies \union {NoOne}, lease: Nat, expires: Nat, response: Response]
NoReceipt == [state |-> "none", by |-> NoOne, body |-> NoOne, lease |-> 0, expires |-> 0,
              response |-> "none"]
Order == [by: Requests \union {NoOne}, body: Bodies \union {NoOne}]
NoOrder == [by |-> NoOne, body |-> NoOne]

\* "of" names the request whose response, or whose order, the client was told.
Answer == [kind: Response \union {"order", "refused", "lost"}, of: Requests \union {NoOne}]
NoAnswer == [kind |-> "none", of |-> NoOne]

Executing == {"claimed", "performed"}
Stage == {"idle", "cleaning", "claiming", "reconciling", "done"} \union Executing

TypeOK ==
  /\ clock \in 1..Horizon
  /\ receipt \in Receipt
  /\ order \in Order
  /\ pc \in [Requests -> Stage]
  /\ body \in [Requests -> Bodies \union {NoOne}]
  /\ now \in [Requests -> 0..Horizon]
  /\ doomed \in [Requests -> Requests \union {NoOne}]
  /\ outcome \in [Requests -> Requests \union {NoOne}]
  /\ answer \in [Requests -> Answer]
  /\ effects \in SUBSET Requests
  /\ recorded \in [Requests -> 0..Horizon]

Init ==
  /\ clock = 1
  /\ receipt = NoReceipt
  /\ order = NoOrder
  /\ pc = [q \in Requests |-> "idle"]
  /\ body = [q \in Requests |-> NoOne]
  /\ now = [q \in Requests |-> 0]
  /\ doomed = [q \in Requests |-> NoOne]
  /\ outcome = [q \in Requests |-> NoOne]
  /\ answer = [q \in Requests |-> NoAnswer]
  /\ effects = {}
  /\ recorded = [q \in Requests |-> 0]

Goes(q, stage) == pc' = [pc EXCEPT ![q] = stage]

Answered(q, kind, of) ==
  /\ Goes(q, "done")
  /\ answer' = [answer EXCEPT ![q] = [kind |-> kind, of |-> of]]

-----------------------------------------------------------------------------
(* Arrival and the claim of the receipt.                                     *)

\* Mutated: a processing receipt is not told from a completed one.
SpentInAnyState(t) == receipt.state # "none" /\ receipt.expires <= t

Spent(t) == receipt.state = "completed" /\ receipt.expires <= t

\* claim_portal_mutation fixes the time; the cleanup selects spent receipts, at most a
\* hundred of all keys ...
Arrive(q, b) ==
  /\ pc[q] = "idle"
  /\ body' = [body EXCEPT ![q] = b]
  /\ now' = [now EXCEPT ![q] = clock]
  /\ \E found \in {NoOne} \union (IF Spent(clock) THEN {receipt.by} ELSE {}) :
       doomed' = [doomed EXCEPT ![q] = found]
  /\ Goes(q, "cleaning")
  /\ UNCHANGED <<clock, receipt, order, outcome, answer, effects, recorded>>

\* Mutated: they are marked, and never deleted.
CleanupMarks(q) ==
  /\ pc[q] = "cleaning"
  /\ receipt' = IF doomed[q] # NoOne /\ receipt.by = doomed[q]
                  THEN [receipt EXCEPT !.state = "expired"] ELSE receipt
  /\ Goes(q, "claiming")
  /\ UNCHANGED <<clock, order, body, now, doomed, outcome, answer, effects, recorded>>

\* ... and deletes them by their identifiers, without looking again.
Cleanup(q) ==
  /\ pc[q] = "cleaning"
  /\ receipt' = IF doomed[q] # NoOne /\ receipt.by = doomed[q] THEN NoReceipt ELSE receipt
  /\ Goes(q, "claiming")
  /\ UNCHANGED <<clock, order, body, now, doomed, outcome, answer, effects, recorded>>

Matches(q) == receipt.state # "none" /\ receipt.body = body[q]
Lapsed(q) == receipt.state = "processing" /\ receipt.lease <= now[q]

\* What _claim_portal_mutation_once finds, in one transaction: no receipt (two that
\* insert are told apart by the unique key, and the second one looks again) ...
Claimed(q) ==
  /\ receipt' = [state |-> "processing", by |-> q, body |-> body[q],
                 lease |-> now[q] + Lease, expires |-> now[q] + Retention,
                 response |-> "none"]
  /\ Goes(q, "claimed")
  /\ UNCHANGED <<clock, order, body, now, doomed, outcome, answer, effects, recorded>>

\* Mutated: the claim of a request whose lease ran out is taken over.
TakeOver(q) ==
  /\ pc[q] = "claiming"
  /\ receipt.state = "none" \/ (Matches(q) /\ Lapsed(q))
  /\ Claimed(q)

Take(q) ==
  /\ pc[q] = "claiming"
  /\ receipt.state = "none"
  /\ Claimed(q)

\* ... one that is spent for this request, which deletes it and looks again ...
DropSpent(q) ==
  /\ pc[q] = "claiming"
  /\ Matches(q) /\ Spent(now[q])
  /\ receipt' = NoReceipt
  /\ UNCHANGED <<clock, order, requestVars, effects, recorded>>

\* ... a recorded response ...
Replay(q) ==
  /\ pc[q] = "claiming"
  /\ Matches(q) /\ receipt.state = "completed" /\ ~Spent(now[q])
  /\ Answered(q, receipt.response, receipt.by)
  /\ UNCHANGED <<clock, receipt, order, body, now, doomed, outcome, effects, recorded>>

\* ... one of another request (conflict), one in progress, or one whose lease ran out
\* without a response (indeterminate) ...
Refuse(q) ==
  /\ pc[q] = "claiming"
  /\ receipt.state # "none"
  /\ \/ receipt.body # body[q]
     \/ receipt.state = "processing" /\ ~(Lapsed(q) /\ body[q] \in OrderBodies)
  /\ Answered(q, "refused", NoOne)
  /\ UNCHANGED <<clock, receipt, order, body, now, doomed, outcome, effects, recorded>>

\* ... which the routes that place orders may reconcile (replay_only).
MayReconcile(q) ==
  /\ pc[q] = "claiming"
  /\ Matches(q) /\ Lapsed(q) /\ body[q] \in OrderBodies
  /\ Goes(q, "reconciling")
  /\ UNCHANGED <<clock, receipt, order, body, now, doomed, outcome, answer, effects, recorded>>

Reconcile(q) ==
  /\ pc[q] = "reconciling"
  /\ IF order.body = body[q] THEN Answered(q, "order", order.by)
                             ELSE Answered(q, "refused", NoOne)
  /\ UNCHANGED <<clock, receipt, order, body, now, doomed, outcome, effects, recorded>>

-----------------------------------------------------------------------------
(* Execution by the request that holds the claim.                            *)

Performed(q, of) ==
  /\ Goes(q, "performed")
  /\ outcome' = [outcome EXCEPT ![q] = of]

\* The business transaction of any other route commits.
Perform(q) ==
  /\ pc[q] = "claimed" /\ body[q] \notin OrderBodies
  /\ effects' = effects \union {q}
  /\ Performed(q, q)
  /\ UNCHANGED <<clock, receipt, order, body, now, doomed, answer, recorded>>

\* create_credit_pack_payment_order, create_account_subscription_payment_order: a new
\* order, or the one that carries the key since an earlier retention.
PlaceOrder(q) ==
  /\ pc[q] = "claimed" /\ body[q] \in OrderBodies
  /\ order = NoOrder
  /\ order' = [by |-> q, body |-> body[q]]
  /\ effects' = effects \union {q}
  /\ Performed(q, q)
  /\ UNCHANGED <<clock, receipt, body, now, doomed, answer, recorded>>

FindOrder(q) ==
  /\ pc[q] = "claimed" /\ body[q] \in OrderBodies
  /\ order # NoOrder
  /\ Performed(q, IF order.body = body[q] THEN order.by ELSE NoOne)
  /\ UNCHANGED <<clock, receipt, order, body, now, doomed, answer, effects, recorded>>

\* A business error: nothing is done, and the error is the response.
Reject(q) ==
  /\ pc[q] = "claimed"
  /\ Performed(q, NoOne)
  /\ UNCHANGED <<clock, receipt, order, body, now, doomed, answer, effects, recorded>>

Holds(q) == receipt.state = "processing" /\ receipt.by = q

\* release_unexecuted_portal_mutation: sales are paused or the rate limit is reached,
\* which the order routes ask before they write anything.
Release(q) ==
  /\ pc[q] = "claimed" /\ body[q] \in OrderBodies
  /\ receipt' = IF Holds(q) THEN NoReceipt ELSE receipt
  /\ Answered(q, "refused", NoOne)
  /\ UNCHANGED <<clock, order, body, now, doomed, outcome, effects, recorded>>

\* complete_portal_mutation of the captured response, or of the error that stands for
\* one that is too large or no JSON.
Stored(response) ==
  receipt' = [receipt EXCEPT !.state = "completed", !.response = response,
                             !.lease = 0, !.expires = clock + Retention]

\* Mutated: the client gets its own response although the receipt has the error.
RecordOther(q, response) ==
  /\ pc[q] = "performed"
  /\ Holds(q)
  /\ Stored(response)
  /\ recorded' = [recorded EXCEPT ![q] = clock]
  /\ Answered(q, "original", q)
  /\ UNCHANGED <<clock, order, body, now, doomed, outcome, effects>>

Record(q, response) ==
  /\ pc[q] = "performed"
  /\ Holds(q)
  /\ Stored(response)
  /\ recorded' = [recorded EXCEPT ![q] = clock]
  /\ Answered(q, response, q)
  /\ UNCHANGED <<clock, order, body, now, doomed, outcome, effects>>

\* The process dies, the handler raises, or the response cannot be recorded (503): the
\* receipt stays as it is.
Break(q) ==
  /\ pc[q] \notin {"idle", "done"}
  /\ Answered(q, "lost", NoOne)
  /\ UNCHANGED <<clock, receipt, order, body, now, doomed, outcome, effects, recorded>>

Tick ==
  /\ clock < Horizon
  /\ clock' = clock + 1
  /\ UNCHANGED <<receipt, order, requestVars, effects, recorded>>

-----------------------------------------------------------------------------
Claim(q) == \/ \E b \in Bodies : Arrive(q, b)
            \/ Cleanup(q) \/ Take(q) \/ DropSpent(q) \/ Replay(q) \/ Refuse(q)
            \/ MayReconcile(q) \/ Reconcile(q)

Execute(q) == \/ Perform(q) \/ PlaceOrder(q) \/ FindOrder(q) \/ Reject(q) \/ Release(q)
              \/ \E response \in Response \ {"none"} : Record(q, response)

Next == Tick \/ \E q \in Requests : Claim(q) \/ Execute(q) \/ Break(q)

Spec == Init /\ [][Next]_vars

-----------------------------------------------------------------------------
\* One request at a time executes under a key, however late it is and however its
\* lease ran out: duplicates wait or are refused.
OneExecutor ==
  \A p, q \in Requests : pc[p] \in Executing /\ pc[q] \in Executing => p = q

\* A request that had an effect keeps the key, through crashes and lost responses: no
\* other one gets it until the response was recorded and kept for the retention.
EffectKeepsTheKey ==
  \A q \in effects :
    \/ receipt.by = q
    \/ recorded[q] # 0 /\ clock >= recorded[q] + Retention

Told == {"original", "fallback", "order"}

\* What clients are told under a key fits together: an answer is one to what was asked,
\* a replay repeats what the first client got, and of an order everybody who is told
\* of an effect is told the same.
AnswersAgree ==
  \A p, q \in {r \in Requests : answer[r].kind \in Told} :
    LET a == answer[p] b == answer[q]
        effect(x) == IF x.kind = "order" THEN x.of ELSE outcome[x.of]
    IN  /\ body[a.of] = body[p]
        /\ a.of = b.of /\ "order" \notin {a.kind, b.kind} => a.kind = b.kind
        /\ body[p] = body[q] /\ body[p] \in OrderBodies
             /\ effect(a) # NoOne /\ effect(b) # NoOne => effect(a) = effect(b)
=============================================================================
