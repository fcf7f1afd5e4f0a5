----------------------------- MODULE CreditPacks -----------------------------
(***************************************************************************)
(* Credit packs: the payment order, the gateway's trade, the paid credit   *)
(* grant with its ledger, and the refunds of an order.  Handlers lock the  *)
(* order row, spending locks the grant rows, the refund query locks the    *)
(* refund row, and the expiry of unpaid orders locks nothing; no           *)
(* transaction but the cancellation stays open while the gateway is        *)
(* called.  A pack is worth Price units of money and Price credits: the    *)
(* credits returned with a refund are in proportion to its amount.         *)
(***************************************************************************)
EXTENDS Naturals, FiniteSetsExt

CONSTANTS
  Orders,
  Refunds,     \* refund requests, one for each idempotency key
  Sessions,    \* requests and workers at one time
  Price,
  MaxQueries,  \* payment_refund_reconciliation_max_attempts
  None

ASSUME CreditPackAssumption ==
  /\ Price \in Nat \ {0} /\ MaxQueries \in Nat
  /\ Orders \cap Refunds = {} /\ None \notin Orders \cup Refunds

VARIABLES
  order,       \* payment_orders: status and cancellation_reason
  refund,      \* payment_refunds, with their query schedule
  grant,       \* paid_credit_grants
  ledger,      \* credit_ledger_entries of purchases and refunds
  trade,       \* the gateway's side of an order
  settlement,  \* the gateway's side of a refund
  due,         \* orders whose pending time-to-live has passed
  subscribed,  \* the target subscription is active or trialing
  sess,
  spent        \* history: credits spent from each grant

vars == <<order, refund, grant, ledger, trade, settlement, due, subscribed,
          sess, spent>>

Amounts == 0..Price

OrderRows == [status : {"none", "pending", "paid", "canceled", "refunded"},
              reason : {"none", "expired", "customer"}]

RefundRows == [status : {"none", "requested", "unknown", "succeeded", "failed"},
               order : Orders \cup {None}, amount : Amounts,
               attempts : 0..MaxQueries,
               leased : BOOLEAN]

GrantRows == [original : Amounts, remaining : Amounts, refunded : Amounts]

SessionStates == [pc : {"idle", "expiring", "closing", "closed", "requesting",
                        "answering", "querying", "spending"},
                  at : Orders \cup Refunds \cup {None},
                  copy : [Orders -> Amounts]]  \* remaining credits as locked

TypeOK ==
  /\ order \in [Orders -> OrderRows]
  /\ refund \in [Refunds -> RefundRows]
  /\ grant \in [Orders -> GrantRows]
  /\ ledger \in [bought : [Orders -> Amounts], returned : [Refunds -> Amounts]]
  /\ trade \in [Orders -> {"none", "open", "paid", "late", "closed"}]
  /\ settlement \in [Refunds -> {"none", "sent", "settled", "rejected"}]
  /\ due \in SUBSET Orders /\ subscribed \in BOOLEAN
  /\ sess \in [Sessions -> SessionStates]
  /\ spent \in [Orders -> Amounts]

NoCopy == [o \in Orders |-> 0]

Idle == [pc |-> "idle", at |-> None, copy |-> NoCopy]

Init ==
  /\ order = [o \in Orders |-> [status |-> "none", reason |-> "none"]]
  /\ refund = [r \in Refunds |-> [status |-> "none", order |-> None, amount |-> 0,
                                  attempts |-> 0, leased |-> FALSE]]
  /\ grant = [o \in Orders |-> [original |-> 0, remaining |-> 0, refunded |-> 0]]
  /\ ledger = [bought |-> NoCopy, returned |-> [r \in Refunds |-> 0]]
  /\ trade = [o \in Orders |-> "none"]
  /\ settlement = [r \in Refunds |-> "none"]
  /\ due = {} /\ subscribed = TRUE
  /\ sess = [s \in Sessions |-> Idle]
  /\ spent = NoCopy

Goes(s, pc, x) == sess' = [sess EXCEPT ![s] = [pc |-> pc, at |-> x, copy |-> NoCopy]]

Ends(s) == sess' = [sess EXCEPT ![s] = Idle]

\* Row locks: a cancellation holds its order, spending holds its grants.
OrderFree(o) ==
  \A s \in Sessions : sess[s].pc \in {"closing", "closed"} => sess[s].at # o

GrantFree(o) ==
  \A s \in Sessions : sess[s].pc = "spending" => sess[s].copy[o] = 0

-----------------------------------------------------------------------------
(* The order until it is paid.                                             *)

Create(o) ==
  /\ order[o].status = "none" /\ subscribed
  /\ order' = [order EXCEPT ![o].status = "pending"]
  /\ trade' = [trade EXCEPT ![o] = "open"]
  /\ UNCHANGED <<refund, grant, ledger, settlement, due, subscribed, sess, spent>>

\* The customer pays at the gateway, which allows 30 minutes from the
\* opening of its checkout, not from the creation of the order.
Pay(o) ==
  /\ trade[o] = "open"
  /\ trade' = [trade EXCEPT ![o] = IF o \in due THEN "late" ELSE "paid"]
  /\ UNCHANGED <<order, refund, grant, ledger, settlement, due, subscribed, sess, spent>>

BecomesDue(o) ==
  /\ order[o].status # "none" /\ o \notin due
  /\ due' = due \cup {o}
  /\ UNCHANGED <<order, refund, grant, ledger, trade, settlement, subscribed, sess, spent>>

SubscriptionEnds ==
  /\ subscribed /\ subscribed' = FALSE
  /\ UNCHANGED <<order, refund, grant, ledger, trade, settlement, due, sess, spent>>

Expired == [status |-> "canceled", reason |-> "expired"]

\* Listing, reading and the expiry job read pending orders without a lock...
ExpireRead(s, o) ==
  /\ sess[s] = Idle /\ order[o].status = "pending" /\ o \in due
  /\ Goes(s, "expiring", o)
  /\ UNCHANGED <<order, refund, grant, ledger, trade, settlement, due, subscribed, spent>>

\* ... and write the status and the metadata by primary key.
ExpireWrite(s) ==
  /\ sess[s].pc = "expiring" /\ OrderFree(sess[s].at)
  /\ order' = [order EXCEPT ![sess[s].at] = Expired]
  /\ Ends(s)
  /\ UNCHANGED <<refund, grant, ledger, trade, settlement, due, subscribed, spent>>

\* cancel_account_payment_order: an order past its time is only marked ...
CancelDue(o) ==
  /\ OrderFree(o) /\ order[o].status = "pending" /\ o \in due
  /\ order' = [order EXCEPT ![o] = Expired]
  /\ UNCHANGED <<refund, grant, ledger, trade, settlement, due, subscribed, sess, spent>>

\* ... any other is locked while the gateway closes its trade.
CancelLock(s, o) ==
  /\ sess[s] = Idle /\ OrderFree(o)
  /\ order[o].status = "pending" /\ o \notin due
  /\ Goes(s, "closing", o)
  /\ UNCHANGED <<order, refund, grant, ledger, trade, settlement, due, subscribed, spent>>

CloseTrade(s) ==
  /\ sess[s].pc = "closing" /\ trade[sess[s].at] = "open"
  /\ trade' = [trade EXCEPT ![sess[s].at] = "closed"]
  /\ sess' = [sess EXCEPT ![s].pc = "closed"]
  /\ UNCHANGED <<order, refund, grant, ledger, settlement, due, subscribed, spent>>

CancelCommit(s) ==
  /\ sess[s].pc = "closed"
  /\ order' = [order EXCEPT ![sess[s].at] = [status |-> "canceled", reason |-> "customer"]]
  /\ Ends(s)
  /\ UNCHANGED <<refund, grant, ledger, trade, settlement, due, subscribed, spent>>

\* The gateway refuses or does not answer, or the process dies: rollback.
GiveUp(s) ==
  /\ sess[s] # Idle /\ Ends(s)
  /\ UNCHANGED <<order, refund, grant, ledger, trade, settlement, due, subscribed, spent>>

-----------------------------------------------------------------------------
(* mark_payment_order_paid, which the gateway's notification calls.        *)

\* Mutated: an order that expired is never restored.
RestorableNever(o) == FALSE

\* A canceled order is restored only if it expired and was paid in time.
Restorable(o) == order[o].reason = "expired" /\ trade[o] = "paid"

\* Mutated: the paid time is not compared with the deadline.
PaysForLate(o) ==
  order[o].status \in {"pending", "paid"} \/ (order[o].status = "canceled" /\ Restorable(o))

PaysFor(o) ==
  \/ order[o].status \in {"pending", "paid"} /\ ~(order[o].status = "pending" /\ trade[o] = "late")
  \/ order[o].status = "canceled" /\ Restorable(o)

\* _mark_credit_pack_payment_order_paid_in_session: the ledger entry and the grant
\* are keyed by the order, the first notification creates them, the next find them.
Credited(o) ==
  /\ subscribed
  /\ order' = [order EXCEPT ![o] = [status |-> "paid", reason |-> "none"]]
  /\ ledger' = [ledger EXCEPT !.bought[o] = Price]
  /\ grant' = IF grant[o].original > 0 THEN grant
              ELSE [grant EXCEPT ![o] = [original |-> Price, remaining |-> Price, refunded |-> 0]]

MarkPaid(o) ==
  /\ trade[o] \in {"paid", "late"} /\ OrderFree(o)
  /\ PaysFor(o) /\ Credited(o)
  /\ UNCHANGED <<refund, trade, settlement, due, subscribed, sess, spent>>

MarkLate(o) ==
  /\ trade[o] = "late" /\ OrderFree(o) /\ order[o].status = "pending"
  /\ order' = [order EXCEPT ![o] = Expired]
  /\ UNCHANGED <<refund, grant, ledger, trade, settlement, due, subscribed, sess, spent>>

-----------------------------------------------------------------------------
(* Refunds.                                                                *)

Frozen == {"requested", "unknown"}

\* Mutated: an unknown refund is not counted against the paid amount.
CommittedKnown(o) ==
  MapThenSumSet(LAMBDA r : refund[r].amount,
    {r \in Refunds : refund[r].order = o /\ refund[r].status \in {"requested", "succeeded"}})

Committed(o) ==
  MapThenSumSet(LAMBDA r : refund[r].amount,
    {r \in Refunds : refund[r].order = o /\ refund[r].status \in Frozen \cup {"succeeded"}})

Consumed(o) == grant[o].original - grant[o].remaining - grant[o].refunded

\* Mutated: the grant is checked without locking it.
RequestRefundUnlocked(s, r, o, amount) ==
  /\ sess[s] = Idle /\ refund[r].status = "none"
  /\ OrderFree(o) /\ order[o].status = "paid"
  /\ Committed(o) + amount <= Price /\ Consumed(o) = 0
  /\ refund' = [refund EXCEPT ![r] = [@ EXCEPT !.status = "requested", !.order = o,
                                               !.amount = amount]]
  /\ Goes(s, "requesting", r)
  /\ UNCHANGED <<order, grant, ledger, trade, settlement, due, subscribed, spent>>

\* request_payment_refund, up to the commit before the gateway is called.
RequestRefund(s, r, o, amount) ==
  /\ sess[s] = Idle /\ refund[r].status = "none"
  /\ OrderFree(o) /\ GrantFree(o) /\ order[o].status = "paid"
  /\ Committed(o) + amount <= Price /\ Consumed(o) = 0
  /\ refund' = [refund EXCEPT ![r] = [@ EXCEPT !.status = "requested", !.order = o,
                                               !.amount = amount]]
  /\ Goes(s, "requesting", r)
  /\ UNCHANGED <<order, grant, ledger, trade, settlement, due, subscribed, spent>>

SendRefund(s) ==
  /\ sess[s].pc = "requesting"
  /\ settlement' = [settlement EXCEPT ![sess[s].at] = "sent"]
  /\ sess' = [sess EXCEPT ![s].pc = "answering"]
  /\ UNCHANGED <<order, refund, grant, ledger, trade, due, subscribed, spent>>

\* The gateway decides in its own time, also after the caller gave up.
Decide(r, verdict) ==
  /\ settlement[r] = "sent"
  /\ settlement' = [settlement EXCEPT ![r] = verdict]
  /\ UNCHANGED <<order, refund, grant, ledger, trade, due, subscribed, sess, spent>>

Lesser(a, b) == IF a < b THEN a ELSE b

\* Mutated: the grant is reduced again by every confirmation.
SucceedEachTime(r) ==
  LET o == refund[r].order
      more == Lesser(refund[r].amount, grant[o].original - grant[o].refunded)
  IN /\ refund' = [refund EXCEPT ![r].status = "succeeded"]
     /\ order' = IF refund[r].amount >= Price THEN [order EXCEPT ![o].status = "refunded"]
                 ELSE order
     /\ ledger' = [ledger EXCEPT !.returned[r] = refund[r].amount]
     /\ grant' = [grant EXCEPT ![o].refunded = @ + more,
                               ![o].remaining = @ - Lesser(@, more)]

\* mark_payment_refund_succeeded: row, order, ledger entry and, the first time,
\* the grant.
Succeed(r) ==
  LET o == refund[r].order
      more == Lesser(refund[r].amount, grant[o].original - grant[o].refunded)
  IN /\ OrderFree(o) /\ GrantFree(o)
     /\ refund' = [refund EXCEPT ![r].status = "succeeded"]
     /\ order' = IF refund[r].amount >= Price THEN [order EXCEPT ![o].status = "refunded"]
                 ELSE order
     /\ ledger' = [ledger EXCEPT !.returned[r] = refund[r].amount]
     /\ grant' = IF refund[r].status = "succeeded" THEN grant
                 ELSE [grant EXCEPT ![o].refunded = @ + more,
                                    ![o].remaining = @ - Lesser(@, more)]

\* Mutated: the outcome of the call is written whatever the row has become.
OutcomeUnchecked(r, status) ==
  OrderFree(refund[r].order) /\ refund' = [refund EXCEPT ![r].status = status]

\* _record_payment_refund_gateway_outcome
Outcome(r, status) ==
  /\ OrderFree(refund[r].order)
  /\ refund' = IF refund[r].status = "succeeded" THEN refund
               ELSE [refund EXCEPT ![r].status = status]

RefundConfirmed(s) ==
  /\ sess[s].pc = "answering" /\ settlement[sess[s].at] = "settled"
  /\ Succeed(sess[s].at) /\ Ends(s)
  /\ UNCHANGED <<trade, settlement, due, subscribed, spent>>

RefundRejected(s) ==
  /\ sess[s].pc = "answering" /\ settlement[sess[s].at] = "rejected"
  /\ Outcome(sess[s].at, "failed") /\ Ends(s)
  /\ UNCHANGED <<order, grant, ledger, trade, settlement, due, subscribed, spent>>

RefundUnanswered(s) ==
  /\ sess[s].pc \in {"requesting", "answering"}
  /\ Outcome(sess[s].at, "unknown") /\ Ends(s)
  /\ UNCHANGED <<order, grant, ledger, trade, settlement, due, subscribed, spent>>

\* process_payment_gateway_refund_callback, at any time and any number of times, or
\* never: no notification is asked for when the refund is sent. One without a success
\* status, of an unknown refund or of another amount changes nothing.
RefundNotified(r) ==
  /\ settlement[r] = "settled"
  /\ Succeed(r)
  /\ UNCHANGED <<trade, settlement, due, subscribed, sess, spent>>

-----------------------------------------------------------------------------
(* Reconciliation: a bounded number of queries, each under a lease.  The   *)
(* delay before the next one is time, which any step may take.             *)

\* Mutated: the number of queries is not bounded.
QueryAgain(s, r) ==
  /\ sess[s] = Idle /\ refund[r].status \in Frozen /\ ~refund[r].leased
  /\ refund' = [refund EXCEPT ![r].attempts = @ + 1, ![r].leased = TRUE]
  /\ Goes(s, "querying", r)
  /\ UNCHANGED <<order, grant, ledger, trade, settlement, due, subscribed, spent>>

\* Mutated: only refunds whose call was not answered at all are queried.
QueryRequested(s, r) ==
  /\ sess[s] = Idle /\ refund[r].status = "requested"
  /\ ~refund[r].leased /\ refund[r].attempts < MaxQueries
  /\ refund' = [refund EXCEPT ![r].attempts = @ + 1, ![r].leased = TRUE]
  /\ Goes(s, "querying", r)
  /\ UNCHANGED <<order, grant, ledger, trade, settlement, due, subscribed, spent>>

Query(s, r) ==
  /\ sess[s] = Idle /\ refund[r].status \in Frozen
  /\ ~refund[r].leased /\ refund[r].attempts < MaxQueries
  /\ refund' = [refund EXCEPT ![r].attempts = @ + 1, ![r].leased = TRUE]
  /\ Goes(s, "querying", r)
  /\ UNCHANGED <<order, grant, ledger, trade, settlement, due, subscribed, spent>>

QueryConfirmed(s) ==
  /\ sess[s].pc = "querying" /\ settlement[sess[s].at] = "settled"
  /\ Succeed(sess[s].at) /\ Ends(s)
  /\ UNCHANGED <<trade, settlement, due, subscribed, spent>>

\* _record_payment_refund_query_unknown spares a succeeded refund, not a failed one.
QueryUnanswered(s) ==
  LET r == sess[s].at
  IN /\ sess[s].pc = "querying"
     /\ refund' = IF refund[r].status = "succeeded" THEN refund
                  ELSE [refund EXCEPT ![r].status = "unknown", ![r].leased = FALSE]
     /\ Ends(s)
     /\ UNCHANGED <<order, grant, ledger, trade, settlement, due, subscribed, spent>>

\* The 10-minute lease of a query that died runs out (a query lasts at most 10 s).
QueryDue(r) ==
  /\ refund[r].leased
  /\ \A s \in Sessions : sess[s].pc = "querying" => sess[s].at # r
  /\ refund' = [refund EXCEPT ![r].leased = FALSE]
  /\ UNCHANGED <<order, grant, ledger, trade, settlement, due, subscribed, sess, spent>>

-----------------------------------------------------------------------------
(* Spending, when a run's usage exceeds the package.                       *)

FrozenOrder(o) == \E r \in Refunds : refund[r].order = o /\ refund[r].status \in Frozen

\* Mutated: pending refunds are not looked at.
SpendReadFrozen(s) ==
  /\ sess[s] = Idle
  /\ \E o \in Orders : grant[o].remaining > 0
  /\ \A o \in Orders : GrantFree(o)
  /\ sess' = [sess EXCEPT ![s] = [pc |-> "spending", at |-> None,
                copy |-> [o \in Orders |-> grant[o].remaining]]]
  /\ UNCHANGED <<order, refund, grant, ledger, trade, settlement, due, subscribed, spent>>

\* The grants are locked, then the pending refunds read.  Expiry only takes a
\* grant out of the set: a session need not spend what it locked.
SpendRead(s) ==
  /\ sess[s] = Idle
  /\ \E o \in Orders : grant[o].remaining > 0 /\ ~FrozenOrder(o)
  /\ \A o \in Orders : grant[o].remaining > 0 => GrantFree(o)
  /\ sess' = [sess EXCEPT ![s] = [pc |-> "spending", at |-> None,
                copy |-> [o \in Orders |-> IF FrozenOrder(o) THEN 0
                                          ELSE grant[o].remaining]]]
  /\ UNCHANGED <<order, refund, grant, ledger, trade, settlement, due, subscribed, spent>>

\* The run's credits come from the locked grants; what it needs, and which
\* grant expires first, are left open.
SpendCommit(s, take) ==
  /\ sess[s].pc = "spending"
  /\ \A o \in Orders : take[o] <= sess[s].copy[o]
  /\ grant' = [o \in Orders |-> IF take[o] = 0 THEN grant[o]
                 ELSE [grant[o] EXCEPT !.remaining = sess[s].copy[o] - take[o]]]
  /\ spent' = [o \in Orders |-> spent[o] + take[o]]
  /\ Ends(s)
  /\ UNCHANGED <<order, refund, ledger, trade, settlement, due, subscribed>>

-----------------------------------------------------------------------------
Step(s) ==
  \/ ExpireWrite(s) \/ CloseTrade(s) \/ CancelCommit(s) \/ GiveUp(s)
  \/ SendRefund(s) \/ RefundConfirmed(s) \/ RefundRejected(s) \/ RefundUnanswered(s)
  \/ QueryConfirmed(s) \/ QueryUnanswered(s)
  \/ SpendRead(s) \/ \E take \in [Orders -> Amounts] : SpendCommit(s, take)

Next ==
  \/ SubscriptionEnds
  \/ \E o \in Orders : \/ Create(o) \/ Pay(o) \/ BecomesDue(o) \/ CancelDue(o)
                       \/ MarkPaid(o) \/ MarkLate(o)
                       \/ \E s \in Sessions : ExpireRead(s, o) \/ CancelLock(s, o)
  \/ \E r \in Refunds : \/ \E verdict \in {"settled", "rejected"} : Decide(r, verdict)
                        \/ RefundNotified(r) \/ QueryDue(r)
                        \/ \E s \in Sessions : Query(s, r)
  \/ \E s \in Sessions, r \in Refunds, o \in Orders, amount \in 1..Price :
       RequestRefund(s, r, o, amount)
  \/ \E s \in Sessions : Step(s)

Spec == Init /\ [][Next]_vars

\* The gateway repeats the notification of a payment until it is taken (any other
\* answer is "fail"); of refunds no notification is assumed. Each refund that is due is
\* queried in the end: those with no query left are not selected, and the others leave
\* the front of the batch with each query. A session ends, by its gateway's timeout at
\* the latest, and so does the lease of one that died.
FairSpec ==
  /\ Spec
  /\ \A o \in Orders : SF_vars(MarkPaid(o))
  /\ \A r \in Refunds : SF_vars(\E s \in Sessions : Query(s, r)) /\ WF_vars(QueryDue(r))
  /\ \A s \in Sessions : WF_vars(GiveUp(s))

-----------------------------------------------------------------------------
\* Every credit of a pack is still there, spent, or returned with a refund: no
\* credit is both spent and refunded, none is lost, whatever payments, refunds,
\* queries and spending interleave (the balance check of paid_credit_grants).
CreditsConserved ==
  \A o \in Orders :
    grant[o].original = grant[o].remaining + grant[o].refunded + spent[o]

\* The two books agree: the ledger's purchase is the grant's original amount, its
\* refund adjustments are what was taken back from the grant.
BooksAgree ==
  \A o \in Orders :
    /\ ledger.bought[o] = grant[o].original
    /\ grant[o].refunded =
         MapThenSumSet(LAMBDA r : ledger.returned[r],
                       {r \in Refunds : refund[r].order = o})

\* The gateway is never asked to give back more than the customer paid.
NeverOverRefunded ==
  \A o \in Orders :
    MapThenSumSet(LAMBDA r : refund[r].amount,
      {r \in Refunds : refund[r].order = o /\ settlement[r] \in {"sent", "settled"}})
    <= IF trade[o] = "paid" THEN Price ELSE 0

\* Credits exist only for a trade that was paid in time, whatever happened to
\* the order before.
CreditsArePaidFor == \A o \in Orders : grant[o].original > 0 => trade[o] = "paid"

\* Nobody is about to spend credits of an order whose refund the gateway may
\* still settle: the pending refunds are read after the grants are locked.
NoSpendingUnderRefund ==
  \A s \in Sessions, r \in Refunds :
    /\ sess[s].pc = "spending" /\ refund[r].status \in Frozen
    /\ sess[s].copy[refund[r].order] > 0
    => settlement[r] = "rejected"

\* A confirmed refund stays confirmed: no late failure of the call, no late
\* answer of a query takes it back.
ConfirmedRefundStays ==
  [][\A r \in Refunds : refund[r].status = "succeeded" => refund'[r].status = "succeeded"]_vars

\* A customer who paid in time gets the credits, also if the order was canceled
\* as expired before the notification came, unless the subscription ended.
TimelyPaymentIsCredited ==
  \A o \in Orders : trade[o] = "paid" ~> (grant[o].original > 0 \/ ~subscribed)

\* Money the gateway gave back is pursued, though the call, the queries and their
\* workers die or are not answered: in the end it is recorded, or the refund was queried
\* as often as configured and stays frozen for manual review.
SettledRefundIsPursued ==
  \A r \in Refunds :
    settlement[r] = "settled"
      ~> \/ refund[r].status = "succeeded"
         \/ refund[r].status \in Frozen /\ refund[r].attempts = MaxQueries

\* A paid order is never shown as expired again.
PaidOrderStays ==
  [][\A o \in Orders : order[o].status = "paid" => order'[o].status \in {"paid", "refunded"}]_vars
=============================================================================
