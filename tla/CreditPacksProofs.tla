-------------------------- MODULE CreditPacksProofs --------------------------
(***************************************************************************)
(* Theorems about CreditPacks, for any orders, refunds, sessions and       *)
(* prices.  IInv is what is said of one row or one session at a time and   *)
(* is inductive by itself; BInv is the balance of an order's books, whose  *)
(* sums over the refunds of the order are those of SumTheorems.            *)
(***************************************************************************)
EXTENDS CreditPacks, SumTheorems

Held(s, o) == sess[s].pc = "spending" /\ sess[s].copy[o] > 0

(* What is left and what is spent of a pack never exceeds it.              *)
Bounded ==
  \A o \in Orders :
    /\ grant[o].refunded <= grant[o].original
    /\ grant[o].remaining + spent[o] <= grant[o].original

(* A paid order, and any order with credits, has a trade paid in time.     *)
PaidInTime ==
  \A o \in Orders :
    /\ order[o].status = "paid" => trade[o] = "paid"
    /\ grant[o].original > 0 => order[o].status # "none" /\ trade[o] = "paid"

(* A refund that was not requested was not sent, one that failed was       *)
(* rejected.                                                               *)
Underway ==
  \A r \in Refunds :
    /\ refund[r].status = "none" => settlement[r] = "none"
    /\ refund[r].status # "none" => refund[r].order \in Orders
    /\ refund[r].status = "failed" => settlement[r] = "rejected"

(* What a session works on; while the gateway is called for a refund, the  *)
(* refund has not failed.                                                  *)
Working(s) ==
  /\ sess[s].pc \in {"expiring", "closing", "closed"} => sess[s].at \in Orders
  /\ sess[s].pc \in {"requesting", "answering", "querying"} =>
       sess[s].at \in Refunds /\ refund[sess[s].at].status # "none"
  /\ sess[s].pc \in {"requesting", "answering"} => refund[sess[s].at].status # "failed"
  /\ sess[s].pc = "requesting" => settlement[sess[s].at] = "none"

(* One session at most calls the gateway for a refund.                     *)
Alone ==
  \A s, t \in Sessions :
    /\ sess[s].pc \in {"requesting", "answering"}
    /\ sess[t].pc \in {"requesting", "answering"}
    /\ sess[s].at = sess[t].at
    => s = t

(* A session that may spend from a grant holds its row, which is still as  *)
(* it was read.                                                            *)
Locked ==
  \A s \in Sessions, o \in Orders :
    Held(s, o) => /\ sess[s].copy[o] = grant[o].remaining
                  /\ \A t \in Sessions : Held(t, o) => t = s

IInv ==
  /\ TypeOK
  /\ Bounded
  /\ PaidInTime
  /\ Underway
  /\ \A s \in Sessions : Working(s)
  /\ Alone
  /\ Locked
  /\ NoSpendingUnderRefund

-----------------------------------------------------------------------------
(* Lemmas about sessions.                                                  *)

(* The idle session is a session.                                          *)
LEMMA IdleType == Idle \in SessionStates /\ Idle.pc = "idle"
  BY CreditPackAssumption DEF Idle, NoCopy, SessionStates, Amounts

(* A session that ends keeps the sessions' types and what is said of them. *)
LEMMA EndsSessions ==
  ASSUME IInv, NEW s \in Sessions, Ends(s)
  PROVE  /\ sess' \in [Sessions -> SessionStates]
         /\ sess'[s].pc = "idle"
         /\ \A t \in Sessions \ {s} : sess'[t] = sess[t]
  BY IdleType DEF IInv, TypeOK, Ends

(* The same for a session that goes on to work on something.               *)
LEMMA GoesSessions ==
  ASSUME IInv, NEW s \in Sessions, NEW x \in Orders \cup Refunds,
         NEW pc \in {"expiring", "closing", "requesting", "querying"}, Goes(s, pc, x)
  PROVE  /\ sess' \in [Sessions -> SessionStates]
         /\ sess'[s].pc = pc /\ sess'[s].at = x
         /\ \A t \in Sessions \ {s} : sess'[t] = sess[t]
  <1>1. NoCopy \in [Orders -> Amounts]
    BY CreditPackAssumption DEF NoCopy, Amounts
  <1>2. [pc |-> pc, at |-> x, copy |-> NoCopy] \in SessionStates
    BY <1>1 DEF SessionStates
  <1> QED BY <1>2 DEF IInv, TypeOK, Goes

(* Grants stay locked as they were when a session that does not spend      *)
(* moves.                                                                  *)
LEMMA LocksKept ==
  ASSUME Locked, NEW s \in Sessions, sess'[s].pc # "spending",
         \A t \in Sessions \ {s} : sess'[t] = sess[t], UNCHANGED grant
  PROVE  Locked'
  BY DEF Locked, Held

(* A session that ends disturbs no other.                                  *)
LEMMA OthersWorking ==
  ASSUME IInv, NEW s \in Sessions, sess'[s].pc = "idle",
         \A t \in Sessions \ {s} : sess'[t] = sess[t],
         UNCHANGED <<refund, settlement>>
  PROVE  (\A t \in Sessions : Working(t)') /\ Alone'
  <1>1. \A t \in Sessions : Working(t)'
    BY DEF IInv, Working
  <1>2. Alone'
    BY DEF IInv, Alone
  <1> QED BY <1>1, <1>2

(* An order is created.                                                    *)
LEMMA CreateIInv ==
  ASSUME IInv, NEW o \in Orders, Create(o)
  PROVE  IInv'
  <1>1. TypeOK'
    BY DEF IInv, TypeOK, Create, OrderRows
  <1>2. /\ Bounded'
        /\ PaidInTime'
        /\ Underway'
        /\ \A t \in Sessions : Working(t)'
        /\ Alone'
        /\ Locked'
        /\ NoSpendingUnderRefund'
    BY DEF IInv, Bounded, PaidInTime, Underway, Working, Alone, Locked, Held,
       NoSpendingUnderRefund, Create
  <1> QED BY <1>1, <1>2 DEF IInv

(* The customer pays.                                                      *)
LEMMA PayIInv ==
  ASSUME IInv, NEW o \in Orders, Pay(o)
  PROVE  IInv'
  <1>1. TypeOK'
    BY DEF IInv, TypeOK, Pay
  <1>2. /\ Bounded'
        /\ PaidInTime'
        /\ Underway'
        /\ \A t \in Sessions : Working(t)'
        /\ Alone'
        /\ Locked'
        /\ NoSpendingUnderRefund'
    BY DEF IInv, Bounded, PaidInTime, Underway, Working, Alone, Locked, Held,
       NoSpendingUnderRefund, Pay
  <1> QED BY <1>1, <1>2 DEF IInv

(* An order becomes due.                                                   *)
LEMMA BecomesDueIInv ==
  ASSUME IInv, NEW o \in Orders, BecomesDue(o)
  PROVE  IInv'
  <1>1. TypeOK'
    BY DEF IInv, TypeOK, BecomesDue
  <1>2. /\ Bounded'
        /\ PaidInTime'
        /\ Underway'
        /\ \A t \in Sessions : Working(t)'
        /\ Alone'
        /\ Locked'
        /\ NoSpendingUnderRefund'
    BY DEF IInv, Bounded, PaidInTime, Underway, Working, Alone, Locked, Held,
       NoSpendingUnderRefund, BecomesDue
  <1> QED BY <1>1, <1>2 DEF IInv

(* The subscription ends.                                                  *)
LEMMA SubscriptionEndsIInv ==
  ASSUME IInv, SubscriptionEnds
  PROVE  IInv'
  <1>1. TypeOK'
    BY DEF IInv, TypeOK, SubscriptionEnds
  <1>2. /\ Bounded'
        /\ PaidInTime'
        /\ Underway'
        /\ \A t \in Sessions : Working(t)'
        /\ Alone'
        /\ Locked'
        /\ NoSpendingUnderRefund'
    BY DEF IInv, Bounded, PaidInTime, Underway, Working, Alone, Locked, Held,
       NoSpendingUnderRefund, SubscriptionEnds
  <1> QED BY <1>1, <1>2 DEF IInv

(* A due order is canceled.                                                *)
LEMMA CancelDueIInv ==
  ASSUME IInv, NEW o \in Orders, CancelDue(o)
  PROVE  IInv'
  <1>1. TypeOK'
    BY DEF IInv, TypeOK, CancelDue, Expired, OrderRows
  <1>2. /\ Bounded'
        /\ Underway'
        /\ \A t \in Sessions : Working(t)'
        /\ Alone'
        /\ Locked'
        /\ NoSpendingUnderRefund'
    BY DEF IInv, Bounded, Underway, Working, Alone, Locked, Held,
       NoSpendingUnderRefund, CancelDue
  <1>3. PaidInTime'
    BY DEF IInv, PaidInTime, CancelDue, Expired
  <1> QED BY <1>1, <1>2, <1>3 DEF IInv

(* A notification of payment.                                              *)
LEMMA MarkPaidIInv ==
  ASSUME IInv, NEW o \in Orders, MarkPaid(o)
  PROVE  IInv'
  <1>1. order' \in [Orders -> OrderRows]
    BY DEF IInv, TypeOK, MarkPaid, Credited, OrderRows
  <1>2. grant' \in [Orders -> GrantRows]
    BY CreditPackAssumption DEF IInv, TypeOK, MarkPaid, Credited, GrantRows, Amounts
  <1>3. ledger' \in [bought : [Orders -> Amounts], returned : [Refunds -> Amounts]]
    BY CreditPackAssumption DEF IInv, TypeOK, MarkPaid, Credited, Amounts
  <1>4. \A p \in Orders : grant'[p] = grant[p] \/ (p = o /\ ~(grant[o].original > 0))
    BY DEF IInv, MarkPaid, Credited
  <1>5. \A t \in Sessions, p \in Orders : Held(t, p) => grant'[p] = grant[p]
    BY <1>4 DEF IInv, TypeOK, Bounded, Locked, Held, GrantRows, Amounts
  <1>6. TypeOK'
    BY <1>1, <1>2, <1>3 DEF IInv, TypeOK, MarkPaid, Credited
  <1>7. Bounded'
    BY <1>3 DEF IInv, TypeOK, Bounded, MarkPaid, Credited, GrantRows, Amounts
  <1>8. PaidInTime'
    BY DEF IInv, PaidInTime, MarkPaid, Credited, PaysFor, Restorable
  <1>9. /\ Underway'
        /\ \A t \in Sessions : Working(t)'
        /\ Alone'
        /\ NoSpendingUnderRefund'
    BY DEF IInv, Underway, Working, Alone, NoSpendingUnderRefund, MarkPaid, Credited
  <1>10. Locked'
    BY <1>5 DEF IInv, Locked, Held, MarkPaid, Credited
  <1> QED BY <1>6, <1>7, <1>8, <1>9, <1>10 DEF IInv

(* A late payment.                                                         *)
LEMMA MarkLateIInv ==
  ASSUME IInv, NEW o \in Orders, MarkLate(o)
  PROVE  IInv'
  <1>1. TypeOK'
    BY DEF IInv, TypeOK, MarkLate, Expired, OrderRows
  <1>2. /\ Bounded'
        /\ Underway'
        /\ \A t \in Sessions : Working(t)'
        /\ Alone'
        /\ Locked'
        /\ NoSpendingUnderRefund'
    BY DEF IInv, Bounded, Underway, Working, Alone, Locked, Held,
       NoSpendingUnderRefund, MarkLate
  <1>3. PaidInTime'
    BY DEF IInv, PaidInTime, MarkLate, Expired
  <1> QED BY <1>1, <1>2, <1>3 DEF IInv

(* An expiry reads an order.                                               *)
LEMMA ExpireReadIInv ==
  ASSUME IInv, NEW s \in Sessions, NEW o \in Orders, ExpireRead(s, o)
  PROVE  IInv'
  <1>1. /\ sess' \in [Sessions -> SessionStates]
        /\ sess'[s].pc = "expiring" /\ sess'[s].at = o
        /\ \A t \in Sessions \ {s} : sess'[t] = sess[t]
    BY GoesSessions DEF ExpireRead
  <1>2. TypeOK'
    BY <1>1 DEF IInv, TypeOK, ExpireRead
  <1>3. /\ Bounded'
        /\ PaidInTime'
        /\ Underway'
    BY DEF IInv, Bounded, PaidInTime, Underway, ExpireRead
  <1>4. \A t \in Sessions : Working(t)'
    BY <1>1 DEF IInv, Working, ExpireRead
  <1>5. Alone'
    BY <1>1 DEF IInv, Alone, ExpireRead
  <1>6. Locked'
    BY <1>1, LocksKept DEF IInv, ExpireRead
  <1>7. NoSpendingUnderRefund'
    BY <1>1 DEF IInv, NoSpendingUnderRefund, ExpireRead
  <1> QED BY <1>2, <1>3, <1>4, <1>5, <1>6, <1>7 DEF IInv

(* An expiry writes it.                                                    *)
LEMMA ExpireWriteIInv ==
  ASSUME IInv, NEW s \in Sessions, ExpireWrite(s)
  PROVE  IInv'
  <1>1. /\ sess' \in [Sessions -> SessionStates]
        /\ sess'[s].pc = "idle"
        /\ \A t \in Sessions \ {s} : sess'[t] = sess[t]
    BY EndsSessions DEF ExpireWrite
  <1>2. TypeOK'
    BY <1>1 DEF IInv, TypeOK, ExpireWrite, Expired, OrderRows
  <1>3. /\ Bounded'
        /\ Underway'
    BY DEF IInv, Bounded, Underway, ExpireWrite
  <1>4. PaidInTime'
    BY DEF IInv, PaidInTime, ExpireWrite, Expired
  <1>5. \A t \in Sessions : Working(t)'
    BY <1>1, OthersWorking DEF ExpireWrite
  <1>6. Alone'
    BY <1>1, OthersWorking DEF ExpireWrite
  <1>7. Locked'
    BY <1>1, LocksKept DEF IInv, ExpireWrite
  <1>8. NoSpendingUnderRefund'
    BY <1>1 DEF IInv, NoSpendingUnderRefund, ExpireWrite
  <1> QED BY <1>2, <1>3, <1>4, <1>5, <1>6, <1>7, <1>8 DEF IInv

(* A cancellation locks an order.                                          *)
LEMMA CancelLockIInv ==
  ASSUME IInv, NEW s \in Sessions, NEW o \in Orders, CancelLock(s, o)
  PROVE  IInv'
  <1>1. /\ sess' \in [Sessions -> SessionStates]
        /\ sess'[s].pc = "closing" /\ sess'[s].at = o
        /\ \A t \in Sessions \ {s} : sess'[t] = sess[t]
    BY GoesSessions DEF CancelLock
  <1>2. TypeOK'
    BY <1>1 DEF IInv, TypeOK, CancelLock
  <1>3. /\ Bounded'
        /\ PaidInTime'
        /\ Underway'
    BY DEF IInv, Bounded, PaidInTime, Underway, CancelLock
  <1>4. \A t \in Sessions : Working(t)'
    BY <1>1 DEF IInv, Working, CancelLock
  <1>5. Alone'
    BY <1>1 DEF IInv, Alone, CancelLock
  <1>6. Locked'
    BY <1>1, LocksKept DEF IInv, CancelLock
  <1>7. NoSpendingUnderRefund'
    BY <1>1 DEF IInv, NoSpendingUnderRefund, CancelLock
  <1> QED BY <1>2, <1>3, <1>4, <1>5, <1>6, <1>7 DEF IInv

(* Its trade is closed.                                                    *)
LEMMA CloseTradeIInv ==
  ASSUME IInv, NEW s \in Sessions, CloseTrade(s)
  PROVE  IInv'
  <1>1. /\ sess[s].at \in Orders
        /\ sess'[s].pc = "closed" /\ sess'[s].at = sess[s].at
        /\ \A t \in Sessions \ {s} : sess'[t] = sess[t]
    BY DEF IInv, TypeOK, Working, CloseTrade
  <1>2. sess' \in [Sessions -> SessionStates]
    BY DEF IInv, TypeOK, SessionStates, CloseTrade
  <1>3. TypeOK'
    BY <1>2 DEF IInv, TypeOK, CloseTrade
  <1>4. /\ Bounded'
        /\ PaidInTime'
        /\ Underway'
        /\ \A t \in Sessions : Working(t)'
        /\ Alone'
        /\ NoSpendingUnderRefund'
    BY DEF IInv, Bounded, PaidInTime, Underway, Working, Alone, NoSpendingUnderRefund,
       CloseTrade
  <1>5. Locked'
    BY LocksKept DEF IInv, CloseTrade
  <1> QED BY <1>3, <1>4, <1>5 DEF IInv

(* The cancellation is committed.                                          *)
LEMMA CancelCommitIInv ==
  ASSUME IInv, NEW s \in Sessions, CancelCommit(s)
  PROVE  IInv'
  <1>1. /\ sess' \in [Sessions -> SessionStates]
        /\ sess'[s].pc = "idle"
        /\ \A t \in Sessions \ {s} : sess'[t] = sess[t]
    BY EndsSessions DEF CancelCommit
  <1>2. TypeOK'
    BY <1>1 DEF IInv, TypeOK, CancelCommit, OrderRows
  <1>3. /\ Bounded'
        /\ PaidInTime'
        /\ Underway'
    BY DEF IInv, Bounded, PaidInTime, Underway, CancelCommit
  <1>4. \A t \in Sessions : Working(t)'
    BY <1>1, OthersWorking DEF CancelCommit
  <1>5. Alone'
    BY <1>1, OthersWorking DEF CancelCommit
  <1>6. Locked'
    BY <1>1, LocksKept DEF IInv, CancelCommit
  <1>7. NoSpendingUnderRefund'
    BY <1>1 DEF IInv, NoSpendingUnderRefund, CancelCommit
  <1> QED BY <1>2, <1>3, <1>4, <1>5, <1>6, <1>7 DEF IInv

(* A session gives up.                                                     *)
LEMMA GiveUpIInv ==
  ASSUME IInv, NEW s \in Sessions, GiveUp(s)
  PROVE  IInv'
  <1>1. /\ sess' \in [Sessions -> SessionStates]
        /\ sess'[s].pc = "idle"
        /\ \A t \in Sessions \ {s} : sess'[t] = sess[t]
    BY EndsSessions DEF GiveUp
  <1>2. TypeOK'
    BY <1>1 DEF IInv, TypeOK, GiveUp
  <1>3. /\ Bounded'
        /\ PaidInTime'
        /\ Underway'
    BY DEF IInv, Bounded, PaidInTime, Underway, GiveUp
  <1>4. \A t \in Sessions : Working(t)'
    BY <1>1, OthersWorking DEF GiveUp
  <1>5. Alone'
    BY <1>1, OthersWorking DEF GiveUp
  <1>6. Locked'
    BY <1>1, LocksKept DEF IInv, GiveUp
  <1>7. NoSpendingUnderRefund'
    BY <1>1 DEF IInv, NoSpendingUnderRefund, GiveUp
  <1> QED BY <1>2, <1>3, <1>4, <1>5, <1>6, <1>7 DEF IInv

(* A refund is requested.                                                  *)
LEMMA RequestRefundIInv ==
  ASSUME IInv, NEW s \in Sessions, NEW r \in Refunds, NEW o \in Orders,
         NEW amount \in 1..Price, RequestRefund(s, r, o, amount)
  PROVE  IInv'
  <1>1. /\ sess' \in [Sessions -> SessionStates]
        /\ sess'[s].pc = "requesting" /\ sess'[s].at = r
        /\ \A t \in Sessions \ {s} : sess'[t] = sess[t]
    BY GoesSessions DEF RequestRefund
  <1>2. amount \in Amounts
    BY CreditPackAssumption DEF Amounts
  <1>3. /\ refund' \in [Refunds -> RefundRows]
        /\ refund[r].status = "none" /\ refund'[r].status = "requested"
        /\ refund'[r].order = o
        /\ \A q \in Refunds \ {r} : refund'[q] = refund[q]
    BY <1>2 DEF IInv, TypeOK, RequestRefund, RefundRows
  <1>4. \A t \in Sessions : t = s \/ ~(sess[t].pc \in {"requesting", "answering"} /\ sess[t].at = r)
    BY <1>3 DEF IInv, Working
  <1>5. \A t \in Sessions : ~Held(t, o)
    BY DEF IInv, RequestRefund, GrantFree, Held
  <1>6. TypeOK'
    BY <1>1, <1>3 DEF IInv, TypeOK, RequestRefund
  <1>7. /\ Bounded'
        /\ PaidInTime'
        /\ Underway'
    BY DEF IInv, Bounded, PaidInTime, Underway, RequestRefund
  <1>8. \A t \in Sessions : Working(t)'
    BY <1>1, <1>3 DEF IInv, Working, Underway, RequestRefund
  <1>9. Alone'
    BY <1>1, <1>4 DEF IInv, Alone
  <1>10. Locked'
    BY <1>1, LocksKept DEF IInv, RequestRefund
  <1>11. NoSpendingUnderRefund'
    BY <1>1, <1>5 DEF IInv, NoSpendingUnderRefund, Held, RequestRefund
  <1> QED BY <1>6, <1>7, <1>8, <1>9, <1>10, <1>11 DEF IInv

(* The refund is sent.                                                     *)
LEMMA SendRefundIInv ==
  ASSUME IInv, NEW s \in Sessions, SendRefund(s)
  PROVE  IInv'
  <1>1. /\ sess[s].at \in Refunds
        /\ sess'[s].pc = "answering" /\ sess'[s].at = sess[s].at
        /\ \A t \in Sessions \ {s} : sess'[t] = sess[t]
    BY DEF IInv, TypeOK, Working, SendRefund
  <1>2. sess' \in [Sessions -> SessionStates]
    BY DEF IInv, TypeOK, SessionStates, SendRefund
  <1>3. /\ settlement[sess[s].at] = "none" /\ refund[sess[s].at].status # "failed" /\ refund[sess[s].at].status # "none"
        /\ Bounded'
        /\ PaidInTime'
        /\ Alone'
    BY DEF IInv, Working, Bounded, PaidInTime, Alone, SendRefund
  <1>4. TypeOK'
    BY <1>2 DEF IInv, TypeOK, SendRefund
  <1>5. Underway'
    BY <1>3 DEF IInv, Underway, SendRefund
  <1>6. \A t \in Sessions : Working(t)'
    BY DEF IInv, TypeOK, Working, Alone, SendRefund
  <1>7. Locked'
    BY LocksKept DEF IInv, SendRefund
  <1>8. NoSpendingUnderRefund'
    BY <1>3 DEF IInv, NoSpendingUnderRefund, SendRefund
  <1> QED BY <1>4, <1>3, <1>5, <1>6, <1>7, <1>8 DEF IInv

(* The gateway decides.                                                    *)
LEMMA DecideIInv ==
  ASSUME IInv, NEW r \in Refunds, NEW verdict \in {"settled", "rejected"}, Decide(r,
         verdict)
  PROVE  IInv'
  <1>1. TypeOK'
    BY DEF IInv, TypeOK, Decide
  <1>2. /\ Bounded'
        /\ PaidInTime'
        /\ Underway'
        /\ \A t \in Sessions : Working(t)'
        /\ Alone'
        /\ Locked'
        /\ NoSpendingUnderRefund'
    BY DEF IInv, Bounded, PaidInTime, Underway, Working, Alone, Locked, Held,
       NoSpendingUnderRefund, Decide
  <1> QED BY <1>1, <1>2 DEF IInv

(* A query takes its lease.                                                *)
LEMMA QueryIInv ==
  ASSUME IInv, NEW s \in Sessions, NEW r \in Refunds, Query(s, r)
  PROVE  IInv'
  <1>1. /\ sess' \in [Sessions -> SessionStates]
        /\ sess'[s].pc = "querying" /\ sess'[s].at = r
        /\ \A t \in Sessions \ {s} : sess'[t] = sess[t]
    BY GoesSessions DEF Query
  <1>2. TypeOK'
    BY DEF IInv, TypeOK, Query, RefundRows
  <1>3. /\ Bounded'
        /\ PaidInTime'
    BY DEF IInv, Bounded, PaidInTime, Query
  <1>4. Underway'
    BY DEF IInv, TypeOK, Underway, Query
  <1>5. \A t \in Sessions : Working(t)'
    BY <1>1 DEF IInv, TypeOK, Working, Query, Frozen
  <1>6. Alone'
    BY <1>1 DEF IInv, Alone, Query
  <1>7. Locked'
    BY <1>1, LocksKept DEF IInv, Query
  <1>8. NoSpendingUnderRefund'
    BY <1>1 DEF IInv, TypeOK, NoSpendingUnderRefund, Query
  <1> QED BY <1>2, <1>3, <1>4, <1>5, <1>6, <1>7, <1>8 DEF IInv

(* A lease runs out.                                                       *)
LEMMA QueryDueIInv ==
  ASSUME IInv, NEW r \in Refunds, QueryDue(r)
  PROVE  IInv'
  <1>1. /\ refund' \in [Refunds -> RefundRows]
        /\ \A q \in Refunds : refund'[q].status = refund[q].status /\ refund'[q].order = refund[q].order
    BY DEF IInv, TypeOK, QueryDue, RefundRows
  <1>2. TypeOK'
    BY <1>1 DEF IInv, TypeOK, QueryDue
  <1>3. /\ Bounded'
        /\ PaidInTime'
        /\ Underway'
        /\ \A t \in Sessions : Working(t)'
        /\ Alone'
        /\ Locked'
        /\ NoSpendingUnderRefund'
    BY DEF IInv, Bounded, PaidInTime, Underway, Working, Alone, Locked, Held,
       NoSpendingUnderRefund, QueryDue
  <1> QED BY <1>2, <1>3 DEF IInv

(* A refund that does not succeed is recorded as unknown or failed.        *)
LEMMA RecordedIInv ==
  ASSUME IInv, NEW s \in Sessions, Ends(s),
         NEW r \in Refunds, NEW row \in RefundRows,
         refund' = [refund EXCEPT ![r] = row],
         row.order = refund[r].order, refund[r].status # "none",
         \/ /\ row.status = "unknown"
            /\ refund[r].status \in Frozen \/ settlement[r] = "rejected"
         \/ /\ row.status = "failed" /\ settlement[r] = "rejected"
            /\ sess[s].pc = "answering" /\ sess[s].at = r,
         UNCHANGED <<order, grant, ledger, trade, settlement, due, subscribed, spent>>
  PROVE  IInv'
  <1>1. /\ sess' \in [Sessions -> SessionStates]
        /\ sess'[s].pc = "idle"
        /\ \A t \in Sessions \ {s} : sess'[t] = sess[t]
    BY EndsSessions
  <1>2. /\ refund'[r] = row
        /\ \A q \in Refunds \ {r} : refund'[q] = refund[q]
    BY DEF IInv, TypeOK
  <1>3. \A q \in Refunds : refund'[q].order = refund[q].order
    BY <1>2
  <1>4. TypeOK'
    BY <1>1 DEF IInv, TypeOK
  <1>5. Bounded' /\ PaidInTime'
    BY DEF IInv, Bounded, PaidInTime
  <1>6. Underway'
    BY <1>2 DEF IInv, Underway
  <1>7. \A t \in Sessions : Working(t)'
    BY <1>1, <1>2 DEF IInv, Working, Alone
  <1>8. Alone'
    BY <1>1 DEF IInv, Alone
  <1>9. Locked'
    BY <1>1, LocksKept DEF IInv
  <1>10. NoSpendingUnderRefund'
    BY <1>1, <1>2 DEF IInv, NoSpendingUnderRefund, Frozen
  <1> QED BY <1>4, <1>5, <1>6, <1>7, <1>8, <1>9, <1>10 DEF IInv

(* The rejection and the loss of an answer are recorded.                   *)
LEMMA OutcomeIInv ==
  ASSUME IInv, NEW s \in Sessions, RefundRejected(s) \/ RefundUnanswered(s)
  PROVE  IInv'
  <1> DEFINE r == sess[s].at
  <1>1. r \in Refunds /\ refund[r].status \notin {"none", "failed"}
    BY DEF IInv, Working, RefundRejected, RefundUnanswered
  <1>2. refund[r] \in RefundRows
    BY <1>1 DEF IInv, TypeOK
  <1>3. CASE refund[r].status = "succeeded"
    <2>1. UNCHANGED refund
      BY <1>3 DEF RefundRejected, RefundUnanswered, Outcome
    <2>2. GiveUp(s)
      BY <2>1, IdleType DEF GiveUp, RefundRejected, RefundUnanswered
    <2> QED BY <2>2, GiveUpIInv
  <1>4. ASSUME NEW status \in {"unknown", "failed"}, Outcome(r, status),
               refund[r].status # "succeeded"
        PROVE  LET row == [refund[r] EXCEPT !.status = status]
               IN /\ row \in RefundRows /\ row.order = refund[r].order
                  /\ row.status = status
                  /\ refund' = [refund EXCEPT ![r] = row]
    BY <1>1, <1>2, <1>4 DEF Outcome, RefundRows
  <1>5. CASE RefundRejected(s) /\ refund[r].status # "succeeded"
    <2>1. Outcome(r, "failed") /\ Ends(s) /\ sess[s].pc = "answering"
          /\ settlement[r] = "rejected"
          /\ UNCHANGED <<order, grant, ledger, trade, settlement, due, subscribed, spent>>
      BY <1>5 DEF RefundRejected
    <2> QED BY <1>1, <1>4, <1>5, <2>1, RecordedIInv
  <1>6. CASE RefundUnanswered(s) /\ refund[r].status # "succeeded"
    <2>1. Outcome(r, "unknown") /\ Ends(s)
          /\ UNCHANGED <<order, grant, ledger, trade, settlement, due, subscribed, spent>>
      BY <1>6 DEF RefundUnanswered
    <2>2. refund[r].status \in Frozen
      BY <1>1, <1>2, <1>6 DEF RefundRows, Frozen
    <2> QED BY <1>1, <1>4, <1>6, <2>1, <2>2, RecordedIInv
  <1> QED BY <1>3, <1>5, <1>6

(* A query without an answer is recorded.                                  *)
LEMMA QueryUnansweredIInv ==
  ASSUME IInv, NEW s \in Sessions, QueryUnanswered(s)
  PROVE  IInv'
  <1> DEFINE r == sess[s].at
             row == [refund[r] EXCEPT !.status = "unknown", !.leased = FALSE]
  <1>1. r \in Refunds /\ refund[r].status # "none"
    BY DEF IInv, Working, QueryUnanswered
  <1>2. refund[r] \in RefundRows
    BY <1>1 DEF IInv, TypeOK
  <1>3. CASE refund[r].status = "succeeded"
    <2>1. UNCHANGED refund
      BY <1>3 DEF QueryUnanswered
    <2>2. GiveUp(s)
      BY <2>1, IdleType DEF GiveUp, QueryUnanswered
    <2> QED BY <2>2, GiveUpIInv
  <1>4. CASE refund[r].status # "succeeded"
    <2>1. row \in RefundRows /\ row.order = refund[r].order /\ row.status = "unknown"
      BY <1>2 DEF RefundRows
    <2>2. refund' = [refund EXCEPT ![r] = row]
      BY <1>1, <1>4 DEF QueryUnanswered
    <2>3. refund[r].status \in Frozen \/ settlement[r] = "rejected"
      BY <1>1, <1>2, <1>4 DEF IInv, Underway, RefundRows, Frozen
    <2>4. Ends(s) /\ UNCHANGED <<order, grant, ledger, trade, settlement, due, subscribed, spent>>
      BY DEF QueryUnanswered
    <2> QED BY <1>1, <2>1, <2>2, <2>3, <2>4, RecordedIInv
  <1> QED BY <1>3, <1>4

-----------------------------------------------------------------------------
(* Confirmed refunds.                                                      *)

(* A confirmation takes no more from a grant than there is.                *)
LEMMA SucceedBooks ==
  ASSUME IInv, NEW r \in Refunds, refund[r].status # "none", Succeed(r)
  PROVE  /\ refund' \in [Refunds -> RefundRows]
         /\ order' \in [Orders -> OrderRows]
         /\ ledger' \in [bought : [Orders -> Amounts], returned : [Refunds -> Amounts]]
         /\ grant' \in [Orders -> GrantRows]
         /\ \A o \in Orders : /\ grant'[o].original = grant[o].original
                              /\ grant'[o].refunded <= grant'[o].original
                              /\ grant'[o].remaining <= grant[o].remaining
                              /\ order'[o].status \in {order[o].status, "refunded"}
         /\ \A q \in Refunds : \/ refund'[q] = refund[q]
                               \/ (q = r /\ refund'[q].order = refund[q].order)
         /\ refund'[r].status = "succeeded"
  <1> DEFINE o == refund[r].order
             more == Lesser(refund[r].amount, grant[o].original - grant[o].refunded)
  <1>1. o \in Orders /\ refund[r] \in RefundRows
    BY DEF IInv, TypeOK, Underway
  <1>2. refund[r].amount \in Amounts
    BY <1>1 DEF RefundRows
  <1>3. grant[o] \in GrantRows /\ grant[o].refunded <= grant[o].original
    BY <1>1 DEF IInv, TypeOK, Bounded
  <1>4. more \in Nat /\ more <= grant[o].original - grant[o].refunded
    BY <1>2, <1>3, CreditPackAssumption DEF Lesser, GrantRows, Amounts
  <1>5. refund' \in [Refunds -> RefundRows] /\ refund'[r].status = "succeeded"
        /\ \A q \in Refunds : \/ refund'[q] = refund[q]
                              \/ (q = r /\ refund'[q].order = refund[q].order)
    BY DEF IInv, TypeOK, Succeed, RefundRows
  <1>6. order' \in [Orders -> OrderRows]
        /\ \A p \in Orders : order'[p].status \in {order[p].status, "refunded"}
    <2>1. [order EXCEPT ![o].status = "refunded"] \in [Orders -> OrderRows]
      BY DEF IInv, TypeOK, OrderRows
    <2>2. order' = order \/ order' = [order EXCEPT ![o].status = "refunded"]
      BY DEF Succeed
    <2>3. order \in [Orders -> OrderRows]
      BY DEF IInv, TypeOK
    <2> QED BY <2>1, <2>2, <2>3 DEF OrderRows
  <1>7. ledger' \in [bought : [Orders -> Amounts], returned : [Refunds -> Amounts]]
    BY <1>2 DEF IInv, TypeOK, Succeed
  <1>8. CASE refund[r].status = "succeeded"
    <2>1. UNCHANGED grant
      BY <1>8 DEF Succeed
    <2>2. \A p \in Orders : grant[p].remaining \in Nat
      BY CreditPackAssumption DEF IInv, TypeOK, GrantRows, Amounts
    <2> QED BY <1>5, <1>6, <1>7, <2>1, <2>2 DEF IInv, TypeOK, Bounded
  <1>9. CASE refund[r].status # "succeeded"
    <2> DEFINE row == [grant[o] EXCEPT !.refunded = @ + more,
                                       !.remaining = @ - Lesser(@, more)]
    <2>1. grant' = [grant EXCEPT ![o] = row]
      BY <1>1, <1>3, <1>9 DEF IInv, TypeOK, Succeed, GrantRows
    <2>2. row.original = grant[o].original /\ row.refunded = grant[o].refunded + more
          /\ row.remaining = grant[o].remaining - Lesser(grant[o].remaining, more)
      BY <1>3 DEF GrantRows
    <2>3. /\ row.refunded \in Amounts /\ row.refunded <= row.original
          /\ row.remaining \in Amounts /\ row.remaining <= grant[o].remaining
      BY <1>3, <1>4, <2>2, CreditPackAssumption DEF Lesser, GrantRows, Amounts
    <2>4. row \in GrantRows
      BY <1>3, <2>3 DEF GrantRows
    <2> HIDE DEF row
    <2>5. \A p \in Orders : grant[p].remaining \in Nat /\ grant[p].refunded <= grant[p].original
      BY CreditPackAssumption DEF IInv, TypeOK, Bounded, GrantRows, Amounts
    <2>6. grant' \in [Orders -> GrantRows]
          /\ \A p \in Orders : grant'[p] = IF p = o THEN row ELSE grant[p]
      BY <1>1, <2>1, <2>4 DEF IInv, TypeOK
    <2> QED BY <1>5, <1>6, <1>7, <2>2, <2>3, <2>5, <2>6
  <1> QED BY <1>8, <1>9

(* A confirmation keeps the invariant, whoever brings it.                  *)
LEMMA SucceedIInv ==
  ASSUME IInv, NEW r \in Refunds, refund[r].status # "none", Succeed(r),
         UNCHANGED sess \/ \E s \in Sessions : Ends(s),
         UNCHANGED <<trade, settlement, due, subscribed, spent>>
  PROVE  IInv'
  <1>1. /\ sess' \in [Sessions -> SessionStates]
        /\ \A t \in Sessions : sess'[t] = sess[t] \/ sess'[t].pc = "idle"
    <2>1. CASE UNCHANGED sess
      BY <2>1 DEF IInv, TypeOK
    <2>2. CASE \E s \in Sessions : Ends(s)
      BY <2>2, EndsSessions
    <2> QED BY <2>1, <2>2
  <1>2. TypeOK'
    BY <1>1, SucceedBooks DEF IInv, TypeOK
  <1>3. Bounded'
    <2>1. \A o \in Orders : /\ grant'[o].remaining \in Nat /\ grant[o].remaining \in Nat
                            /\ grant[o].original \in Nat /\ spent[o] \in Nat
      BY SucceedBooks, CreditPackAssumption DEF IInv, TypeOK, GrantRows, Amounts
    <2> QED BY <2>1, SucceedBooks DEF IInv, Bounded
  <1>4. PaidInTime'
    BY SucceedBooks DEF IInv, PaidInTime
  <1>5. Underway'
    BY SucceedBooks DEF IInv, Underway
  <1>6. \A t \in Sessions : Working(t)'
    BY <1>1, SucceedBooks DEF IInv, Working
  <1>7. Alone'
    BY <1>1 DEF IInv, Alone
  <1>8. Locked'
    <2>1. \A t \in Sessions : ~Held(t, refund[r].order)
      BY DEF IInv, TypeOK, Underway, Succeed, GrantFree, Held, SessionStates, Amounts
    <2>2. \A o \in Orders : o = refund[r].order \/ grant'[o] = grant[o]
      BY DEF IInv, TypeOK, Succeed
    <2> QED BY <1>1, <2>1, <2>2 DEF IInv, Locked, Held
  <1>9. NoSpendingUnderRefund'
    BY <1>1, SucceedBooks DEF IInv, NoSpendingUnderRefund, Frozen
  <1> QED BY <1>2, <1>3, <1>4, <1>5, <1>6, <1>7, <1>8, <1>9 DEF IInv

(* The call, a notification or a query confirms a refund.                  *)
LEMMA ConfirmedIInv ==
  ASSUME IInv, \/ \E s \in Sessions : RefundConfirmed(s) \/ QueryConfirmed(s)
               \/ \E r \in Refunds : RefundNotified(r)
  PROVE  IInv'
  <1>1. CASE \E s \in Sessions : RefundConfirmed(s) \/ QueryConfirmed(s)
    <2>1. PICK s \in Sessions : RefundConfirmed(s) \/ QueryConfirmed(s)
      BY <1>1
    <2>2. sess[s].at \in Refunds /\ refund[sess[s].at].status # "none"
      BY <2>1 DEF IInv, Working, RefundConfirmed, QueryConfirmed
    <2> QED BY <2>1, <2>2, SucceedIInv DEF RefundConfirmed, QueryConfirmed
  <1>2. CASE \E r \in Refunds : RefundNotified(r)
    <2>1. PICK r \in Refunds : RefundNotified(r)
      BY <1>2
    <2>2. refund[r].status # "none"
      BY <2>1 DEF IInv, Underway, RefundNotified
    <2> QED BY <2>1, <2>2, SucceedIInv DEF RefundNotified
  <1> QED BY <1>1, <1>2

-----------------------------------------------------------------------------
(* Spending.                                                               *)

(* Grants are locked, then the pending refunds are read.                   *)
LEMMA SpendReadIInv ==
  ASSUME IInv, NEW s \in Sessions, SpendRead(s)
  PROVE  IInv'
  <1> DEFINE copy == [o \in Orders |-> IF FrozenOrder(o) THEN 0 ELSE grant[o].remaining]
  <1>1. copy \in [Orders -> Amounts]
    BY CreditPackAssumption DEF IInv, TypeOK, GrantRows, Amounts
  <1>2. /\ sess' = [sess EXCEPT ![s] = [pc |-> "spending", at |-> None, copy |-> copy]]
        /\ UNCHANGED <<order, refund, grant, ledger, trade, settlement, due, subscribed, spent>>
    BY DEF SpendRead
  <1>3. [pc |-> "spending", at |-> None, copy |-> copy] \in SessionStates
    BY <1>1 DEF SessionStates
  <1>4. /\ sess' \in [Sessions -> SessionStates]
        /\ sess'[s].pc = "spending" /\ sess'[s].copy = copy
        /\ \A t \in Sessions \ {s} : sess'[t] = sess[t]
    BY <1>2, <1>3 DEF IInv, TypeOK
  <1>5. TypeOK'
    BY <1>2, <1>4 DEF IInv, TypeOK
  <1>6. Bounded' /\ PaidInTime' /\ Underway'
    BY <1>2 DEF IInv, Bounded, PaidInTime, Underway
  <1>7. \A t \in Sessions : Working(t)'
    BY <1>2, <1>4 DEF IInv, Working
  <1>8. Alone'
    BY <1>4 DEF IInv, Alone
  <1>9. Locked'
    <2>1. \A o \in Orders : copy[o] > 0 =>
            copy[o] = grant[o].remaining /\ \A t \in Sessions : ~Held(t, o)
      BY DEF IInv, TypeOK, SpendRead, GrantFree, Held, SessionStates, GrantRows, Amounts
    <2> QED BY <1>2, <1>4, <2>1 DEF IInv, Locked, Held
  <1>10. NoSpendingUnderRefund'
    <2>1. \A r \in Refunds : refund[r].status \in Frozen =>
            refund[r].order \in Orders /\ FrozenOrder(refund[r].order)
      BY DEF IInv, Underway, Frozen, FrozenOrder
    <2>2. \A r \in Refunds : refund[r].status \in Frozen => copy[refund[r].order] = 0
      BY <2>1
    <2> QED BY <1>2, <1>4, <2>2 DEF IInv, NoSpendingUnderRefund
  <1> QED BY <1>5, <1>6, <1>7, <1>8, <1>9, <1>10 DEF IInv

(* The credits are taken from the locked grants.                           *)
LEMMA SpendCommitIInv ==
  ASSUME IInv, NEW s \in Sessions, NEW take \in [Orders -> Amounts], SpendCommit(s,
         take)
  PROVE  IInv'
  <1>1. /\ sess' \in [Sessions -> SessionStates]
        /\ sess'[s].pc = "idle"
        /\ \A t \in Sessions \ {s} : sess'[t] = sess[t]
    BY EndsSessions DEF SpendCommit
  <1>2. \A o \in Orders :
          /\ grant[o].original \in Amounts /\ grant[o].remaining \in Amounts
          /\ grant[o].refunded \in Amounts /\ spent[o] \in Amounts
          /\ take[o] \in Amounts /\ sess[s].copy[o] \in Amounts
    BY DEF IInv, TypeOK, GrantRows, SessionStates
  <1>3. \A o \in Orders : take[o] # 0 => Held(s, o) /\ sess[s].copy[o] = grant[o].remaining
    BY <1>2, CreditPackAssumption DEF IInv, Locked, Held, SpendCommit, Amounts
  <1>4. \A o \in Orders :
          /\ grant[o].remaining - take[o] \in Amounts
          /\ spent[o] + take[o] \in Amounts
          /\ (grant[o].remaining - take[o]) + (spent[o] + take[o]) <= grant[o].original
    <2>1. \A o \in Orders : take[o] <= grant[o].remaining
      BY <1>2, <1>3, CreditPackAssumption DEF SpendCommit, Amounts
    <2> QED BY <1>2, <2>1, CreditPackAssumption DEF IInv, Bounded, Amounts
  <1>5. \A o \in Orders :
          grant'[o] = IF take[o] = 0 THEN grant[o]
                      ELSE [grant[o] EXCEPT !.remaining = grant[o].remaining - take[o]]
    BY <1>3 DEF SpendCommit
  <1>6. \A o \in Orders :
          /\ grant'[o] \in GrantRows /\ grant'[o].original = grant[o].original
          /\ grant'[o].refunded = grant[o].refunded
          /\ grant'[o].remaining = grant[o].remaining - take[o]
    <2>1. \A o \in Orders : grant[o] \in GrantRows
      BY DEF IInv, TypeOK
    <2>2. \A o \in Orders : take[o] = 0 => grant[o].remaining - take[o] = grant[o].remaining
      BY <1>2, CreditPackAssumption DEF Amounts
    <2> QED BY <1>4, <1>5, <2>1, <2>2 DEF GrantRows
  <1>7. grant' \in [Orders -> GrantRows]
    BY <1>6 DEF SpendCommit
  <1>8. spent' \in [Orders -> Amounts] /\ \A o \in Orders : spent'[o] = spent[o] + take[o]
    BY <1>4 DEF SpendCommit
  <1>9. UNCHANGED <<order, refund, ledger, trade, settlement, due, subscribed>>
    BY DEF SpendCommit
  <1>10. TypeOK'
    BY <1>1, <1>7, <1>8, <1>9 DEF IInv, TypeOK
  <1>11. Bounded'
    BY <1>4, <1>6, <1>8 DEF IInv, Bounded
  <1>12. PaidInTime' /\ Underway'
    BY <1>6, <1>9 DEF IInv, PaidInTime, Underway
  <1>13. (\A t \in Sessions : Working(t)') /\ Alone'
    BY <1>1, <1>9, OthersWorking
  <1>14. Locked'
    <2>1. ASSUME NEW t \in Sessions, NEW o \in Orders, Held(t, o)'
          PROVE  t # s /\ Held(t, o) /\ sess'[t] = sess[t]
      BY <1>1, <2>1 DEF Held
    <2>2. ASSUME NEW t \in Sessions, NEW o \in Orders, Held(t, o)'
          PROVE  take[o] = 0
      BY <1>3, <2>1, <2>2 DEF IInv, Locked
    <2>3. ASSUME NEW t \in Sessions, NEW o \in Orders, Held(t, o)'
          PROVE  grant'[o] = grant[o]
      BY <1>5, <2>2, <2>3
    <2> QED BY <2>1, <2>3 DEF IInv, Locked
  <1>15. NoSpendingUnderRefund'
    BY <1>1, <1>9 DEF IInv, NoSpendingUnderRefund
  <1> QED BY <1>10, <1>11, <1>12, <1>13, <1>14, <1>15 DEF IInv

-----------------------------------------------------------------------------
(* The invariant.                                                          *)

(* The initial state has no orders.                                        *)
LEMMA InitIInv == Init => IInv
  <1> SUFFICES ASSUME Init PROVE IInv
    OBVIOUS
  <1>1. NoCopy \in [Orders -> Amounts]
    BY CreditPackAssumption DEF NoCopy, Amounts
  <1>2. sess \in [Sessions -> SessionStates] /\ \A s \in Sessions : sess[s].pc = "idle"
    BY IdleType DEF Init
  <1>3. TypeOK
    BY <1>1, <1>2, CreditPackAssumption
       DEF Init, TypeOK, OrderRows, RefundRows, GrantRows, Amounts
  <1>4. Bounded /\ PaidInTime /\ Underway
    BY DEF Init, NoCopy, Bounded, PaidInTime, Underway
  <1>5. (\A s \in Sessions : Working(s)) /\ Alone /\ Locked /\ NoSpendingUnderRefund
    BY <1>2 DEF Working, Alone, Locked, Held, NoSpendingUnderRefund
  <1> QED BY <1>3, <1>4, <1>5 DEF IInv

(* Every step keeps the invariant.                                         *)
LEMMA NextIInv == IInv /\ [Next]_vars => IInv'
  <1> SUFFICES ASSUME IInv, [Next]_vars PROVE IInv'
    OBVIOUS
  <1>1. CASE SubscriptionEnds
    BY <1>1, SubscriptionEndsIInv
  <1>2. ASSUME NEW o \in Orders, NEW s \in Sessions,
               \/ Create(o) \/ Pay(o) \/ BecomesDue(o) \/ CancelDue(o)
               \/ MarkPaid(o) \/ MarkLate(o) \/ ExpireRead(s, o) \/ CancelLock(s, o)
        PROVE  IInv'
    BY <1>2, CreateIInv, PayIInv, BecomesDueIInv, CancelDueIInv, MarkPaidIInv,
       MarkLateIInv, ExpireReadIInv, CancelLockIInv
  <1>3. ASSUME NEW o \in Orders,
               \/ Create(o) \/ Pay(o) \/ BecomesDue(o) \/ CancelDue(o)
               \/ MarkPaid(o) \/ MarkLate(o)
        PROVE  IInv'
    BY <1>3, CreateIInv, PayIInv, BecomesDueIInv, CancelDueIInv, MarkPaidIInv,
       MarkLateIInv
  <1>4. ASSUME NEW r \in Refunds,
               \/ \E verdict \in {"settled", "rejected"} : Decide(r, verdict)
               \/ RefundNotified(r) \/ QueryDue(r) \/ \E s \in Sessions : Query(s, r)
        PROVE  IInv'
    BY <1>4, DecideIInv, ConfirmedIInv, QueryDueIInv, QueryIInv
  <1>5. ASSUME NEW s \in Sessions, NEW r \in Refunds, NEW o \in Orders,
               NEW amount \in 1..Price, RequestRefund(s, r, o, amount)
        PROVE  IInv'
    BY <1>5, RequestRefundIInv
  <1>6. ASSUME NEW s \in Sessions, Step(s)
        PROVE  IInv'
    BY <1>6, ExpireWriteIInv, CloseTradeIInv, CancelCommitIInv, GiveUpIInv,
       SendRefundIInv, ConfirmedIInv, OutcomeIInv, QueryUnansweredIInv,
       SpendReadIInv, SpendCommitIInv DEF Step
  <1>7. CASE UNCHANGED vars
    BY <1>7 DEF vars, IInv, TypeOK, Bounded, PaidInTime, Underway, Working, Alone,
                Locked, Held, NoSpendingUnderRefund
  <1> QED BY <1>1, <1>2, <1>3, <1>4, <1>5, <1>6, <1>7 DEF Next

-----------------------------------------------------------------------------
(* The books.  What the gateway may still give back, or has given back,    *)
(* never exceeds the price; as long as nothing of the pack is spent under  *)
(* a refund that may still succeed, a confirmation therefore finds all the *)
(* credits that it takes back.                                             *)

RefundsOf(o) == {r \in Refunds : refund[r].order = o}

(* What a refund costs, unless the gateway rejected it.                    *)
Live == [r \in Refunds |-> IF settlement[r] = "rejected" THEN 0 ELSE refund[r].amount]

(* The ledger has an adjustment for every confirmed refund and no other.   *)
Recorded ==
  \A r \in Refunds :
    /\ refund[r].status = "none" => refund[r].order = None
    /\ refund[r].status = "succeeded" => settlement[r] = "settled"
    /\ ledger.returned[r] = IF refund[r].status = "succeeded" THEN refund[r].amount ELSE 0

(* A pack is granted whole, and before any of it is refunded.              *)
Granted ==
  /\ \A o \in Orders : /\ grant[o].original \in {0, Price}
                       /\ ledger.bought[o] = grant[o].original
                       /\ order[o].status = "paid" => grant[o].original = Price
  /\ \A r \in Refunds : refund[r].status # "none" => grant[refund[r].order].original = Price

(* Nothing is spent of a pack whose refund may still succeed.              *)
Unspent ==
  \A r \in Refunds :
    refund[r].status \in Frozen /\ settlement[r] # "rejected" => spent[refund[r].order] = 0

(* The refunds of an order are covered by its price.                       *)
Covered ==
  \A o \in Orders : /\ IsFiniteSet(RefundsOf(o))
                    /\ Sum(Live, RefundsOf(o)) <= Price
                    /\ grant[o].refunded = Sum(ledger.returned, RefundsOf(o))

BInv == Recorded /\ Granted /\ Unspent /\ Covered /\ CreditsConserved

(* What a refund costs is a number.                                        *)
LEMMA LiveType ==
  ASSUME IInv
  PROVE  /\ \A r \in Refunds : Live[r] \in Nat
         /\ \A r \in Refunds : refund[r].amount \in Nat /\ refund[r].amount <= Price
         /\ \A r \in Refunds : ledger.returned[r] \in Nat
         /\ \A o \in Orders : /\ grant[o].original \in Nat /\ grant[o].remaining \in Nat
                              /\ grant[o].refunded \in Nat /\ spent[o] \in Nat
         /\ Price \in Nat
  BY CreditPackAssumption DEF IInv, TypeOK, RefundRows, GrantRows, Amounts, Live

(* Steps that move no credits and request nothing keep the books.          *)
LEMMA BooksKept ==
  ASSUME IInv, IInv', BInv, UNCHANGED <<grant, ledger, spent>>,
         \A o \in Orders : order'[o].status = "paid" => order[o].status = "paid",
         \A r \in Refunds :
           /\ refund'[r].order = refund[r].order /\ refund'[r].amount = refund[r].amount
           /\ refund'[r].status = "none" <=> refund[r].status = "none"
           /\ refund'[r].status = "succeeded" <=> refund[r].status = "succeeded"
           /\ settlement[r] \in {"settled", "rejected"} => settlement'[r] = settlement[r]
           /\ refund'[r].status \in Frozen /\ settlement'[r] # "rejected"
              => refund[r].status \in Frozen
  PROVE  BInv'
  <1>1. Recorded'
    BY DEF BInv, Recorded
  <1>2. Granted'
    BY DEF BInv, Granted
  <1>3. Unspent'
    BY DEF BInv, Unspent
  <1>4. Covered'
    <2> SUFFICES ASSUME NEW o \in Orders
                 PROVE  /\ IsFiniteSet(RefundsOf(o)')
                        /\ Sum(Live', RefundsOf(o)') <= Price
                        /\ grant'[o].refunded = Sum(ledger'.returned, RefundsOf(o)')
      BY DEF Covered
    <2>1. RefundsOf(o)' = RefundsOf(o)
      BY DEF RefundsOf
    <2>2. IsFiniteSet(RefundsOf(o)) /\ Sum(Live, RefundsOf(o)) <= Price
          /\ grant[o].refunded = Sum(ledger.returned, RefundsOf(o))
      BY DEF BInv, Covered
    <2>3. \A r \in RefundsOf(o) : Live[r] \in Nat /\ Live'[r] \in Nat /\ Live'[r] <= Live[r]
      <3>1. \A r \in Refunds : Live'[r] = Live[r] \/ Live'[r] = 0
        BY DEF Live
      <3>2. \A r \in Refunds : Live[r] \in Nat /\ Live'[r] \in Nat
        BY LiveType DEF Live
      <3> QED BY <3>1, <3>2 DEF RefundsOf
    <2>4. Sum(Live', RefundsOf(o)) <= Sum(Live, RefundsOf(o))
      BY <2>2, <2>3, SumMonotonic
    <2>5. Sum(Live, RefundsOf(o)) \in Nat
      BY <2>2, <2>3, SumType
    <2>6. Sum(Live', RefundsOf(o)) \in Nat
      BY <2>2, <2>3, SumType
    <2>7. Price \in Nat
      BY LiveType
    <2>8. Sum(Live', RefundsOf(o)) <= Price
      BY <2>2, <2>4, <2>5, <2>6, <2>7
    <2> QED BY <2>1, <2>2, <2>8
  <1>5. CreditsConserved'
    BY DEF BInv, CreditsConserved
  <1> QED BY <1>1, <1>2, <1>3, <1>4, <1>5 DEF BInv

(* A notification of payment grants the pack once.                         *)
LEMMA MarkPaidBooks ==
  ASSUME IInv, IInv', BInv, NEW o \in Orders, MarkPaid(o)
  PROVE  BInv'
  <1>1. /\ UNCHANGED <<refund, settlement, spent>>
        /\ ledger'.returned = ledger.returned
        /\ \A p \in Orders : order'[p] = IF p = o THEN [status |-> "paid", reason |-> "none"]
                                                  ELSE order[p]
        /\ \A p \in Orders : ledger'.bought[p] = IF p = o THEN Price ELSE ledger.bought[p]
    BY DEF IInv, TypeOK, MarkPaid, Credited
  <1>2. \A p \in Orders :
          \/ grant'[p] = grant[p] /\ (p = o => grant[p].original = Price)
          \/ /\ p = o /\ grant[p].original = 0
             /\ grant'[p] = [original |-> Price, remaining |-> Price, refunded |-> 0]
    BY CreditPackAssumption DEF IInv, TypeOK, MarkPaid, Credited, BInv, Granted
  <1>3. ASSUME NEW p \in Orders, grant[p].original = 0
        PROVE  grant[p].refunded = 0 /\ spent[p] = 0
    <2>1. grant[p].original = grant[p].remaining + grant[p].refunded + spent[p]
      BY DEF BInv, CreditsConserved
    <2>2. grant[p].remaining \in Nat /\ grant[p].refunded \in Nat /\ spent[p] \in Nat
      BY LiveType
    <2> QED BY <1>3, <2>1, <2>2
  <1>4. Recorded' /\ Unspent'
    BY <1>1 DEF BInv, Recorded, Unspent
  <1>5. Granted'
    BY <1>1, <1>2, CreditPackAssumption DEF IInv, Underway, BInv, Granted
  <1>6. Covered'
    <2>1. Live' = Live /\ \A p \in Orders : RefundsOf(p)' = RefundsOf(p)
      BY <1>1 DEF Live, RefundsOf
    <2>2. \A p \in Orders : grant'[p].refunded = grant[p].refunded
      BY <1>2, <1>3
    <2> QED BY <1>1, <2>1, <2>2 DEF BInv, Covered
  <1>7. CreditsConserved'
    BY <1>1, <1>2, <1>3, LiveType DEF BInv, CreditsConserved
  <1> QED BY <1>4, <1>5, <1>6, <1>7 DEF BInv

(* The amounts of the refunds that may still succeed are among those that  *)
(* a request counts against the price.                                     *)
LEMMA LiveIsCommitted ==
  ASSUME IInv, BInv, NEW o \in Orders
  PROVE  /\ Sum(Live, RefundsOf(o)) <= Committed(o)
         /\ Sum(Live, RefundsOf(o)) \in Nat /\ Committed(o) \in Nat
  <1> DEFINE C == {r \in Refunds : /\ refund[r].order = o
                                   /\ refund[r].status \in Frozen \cup {"succeeded"}}
             f == [r \in Refunds |-> refund[r].amount]
  <1>1. Committed(o) = Sum(f, C)
    BY DEF Committed, Sum, MapThenSumSet, MapThenFoldSet
  <1>2. IsFiniteSet(RefundsOf(o)) /\ C \in SUBSET RefundsOf(o)
    BY DEF BInv, Covered, RefundsOf
  <1>3. IsFiniteSet(C)
    BY <1>2, FS_Subset
  <1>4. /\ \A r \in RefundsOf(o) : Live[r] \in Nat
        /\ \A r \in C : Live[r] \in Nat /\ f[r] \in Nat /\ Live[r] <= f[r]
    BY LiveType DEF RefundsOf, Live
  <1>5. \A r \in RefundsOf(o) \ C : Live[r] = 0
    BY CreditPackAssumption
       DEF IInv, TypeOK, Underway, RefundRows, BInv, Recorded, RefundsOf, Live, Frozen
  <1> HIDE DEF C, f
  <1>6. Sum(Live, RefundsOf(o)) = Sum(Live, C)
    BY <1>2, <1>4, <1>5, SumOfSupport
  <1>7. Sum(Live, C) <= Sum(f, C)
    BY <1>3, <1>4, SumMonotonic
  <1>8. Sum(Live, C) \in Nat
    BY <1>3, <1>4, SumType
  <1>9. Sum(f, C) \in Nat
    BY <1>3, <1>4, SumType
  <1> QED BY <1>1, <1>6, <1>7, <1>8, <1>9

(* A request counts against the price what it may give back.               *)
LEMMA RequestRefundBooks ==
  ASSUME IInv, IInv', BInv, NEW s \in Sessions, NEW r \in Refunds, NEW o \in Orders,
         NEW amount \in 1..Price, RequestRefund(s, r, o, amount)
  PROVE  BInv'
  <1>1. /\ refund[r].status = "none" /\ refund'[r].status = "requested"
        /\ refund'[r].order = o /\ refund'[r].amount = amount
        /\ \A q \in Refunds \ {r} : refund'[q] = refund[q]
        /\ UNCHANGED <<order, grant, ledger, settlement, spent>>
        /\ order[o].status = "paid" /\ Committed(o) + amount <= Price /\ Consumed(o) = 0
    BY DEF IInv, TypeOK, RequestRefund, RefundRows
  <1>2. refund[r].order = None /\ settlement[r] = "none" /\ ledger.returned[r] = 0
    BY <1>1 DEF IInv, Underway, BInv, Recorded
  <1>3. Recorded'
    BY <1>1, <1>2 DEF BInv, Recorded
  <1>4. Granted'
    BY <1>1 DEF BInv, Granted
  <1>5. Unspent'
    <2>1. spent[o] = 0
      BY <1>1, LiveType DEF BInv, CreditsConserved, Consumed
    <2> QED BY <1>1, <2>1 DEF BInv, Unspent
  <1>6. Covered'
    <2> SUFFICES ASSUME NEW p \in Orders
                 PROVE  /\ IsFiniteSet(RefundsOf(p)')
                        /\ Sum(Live', RefundsOf(p)') <= Price
                        /\ grant[p].refunded = Sum(ledger.returned, RefundsOf(p)')
      BY <1>1 DEF Covered
    <2> DEFINE R == RefundsOf(p)
    <2>1. /\ IsFiniteSet(R) /\ Sum(Live, R) <= Price
          /\ grant[p].refunded = Sum(ledger.returned, R)
      BY DEF BInv, Covered
    <2>2. r \notin R
      BY <1>2, CreditPackAssumption DEF RefundsOf
    <2>3. /\ \A q \in R : Live'[q] = Live[q] /\ Live[q] \in Nat /\ ledger.returned[q] \in Nat
          /\ Live'[r] = amount /\ amount \in Nat
      BY <1>1, <1>2, <2>2, LiveType DEF RefundsOf, Live
    <2>4. Sum(Live', R) = Sum(Live, R)
      BY <2>1, <2>3, SumEqual
    <2>5. CASE p # o
      <3>1. RefundsOf(p)' = R
        BY <1>1, <1>2, <2>5, CreditPackAssumption DEF RefundsOf
      <3> QED BY <2>1, <2>4, <3>1
    <2>6. CASE p = o
      <3>1. RefundsOf(p)' = R \cup {r}
        BY <1>1, <2>6 DEF RefundsOf
      <3> HIDE DEF R
      <3>2. IsFiniteSet(R \cup {r})
        BY <2>1, FS_AddElement
      <3>3. Sum(Live', R \cup {r}) = Sum(Live', R) + Live'[r]
        BY <2>1, <2>2, <2>3, SumAdd
      <3>4. Sum(ledger.returned, R \cup {r}) = Sum(ledger.returned, R) + ledger.returned[r]
        <4> DEFINE f == ledger.returned
        <4>1. \A q \in R \cup {r} : f[q] \in Nat
          BY <1>2, <2>3
        <4> HIDE DEF f
        <4>2. IsFiniteSet(R)
          BY <2>1
        <4>3. Sum(f, R \cup {r}) = Sum(f, R) + f[r]
          BY ONLY <2>2, <4>1, <4>2, SumAdd
        <4> QED BY <4>3 DEF f
      <3>5. Sum(ledger.returned, R) \in Nat
        BY <2>1, <2>3, SumType
      <3>6. Sum(Live, R) + amount <= Price
        BY <1>1, <2>3, <2>6, LiveIsCommitted, LiveType DEF R
      <3> QED BY <1>2, <2>1, <2>3, <2>4, <3>1, <3>2, <3>3, <3>4, <3>5, <3>6
    <2> QED BY <2>5, <2>6
  <1>7. CreditsConserved'
    BY <1>1 DEF BInv, CreditsConserved
  <1> QED BY <1>3, <1>4, <1>5, <1>6, <1>7 DEF BInv

(* The first confirmation of a refund finds all the credits it takes back. *)
LEMMA ConfirmationCovered ==
  ASSUME IInv, BInv, NEW r \in Refunds, settlement[r] = "settled",
         refund[r].status \notin {"none", "succeeded"}
  PROVE  LET o == refund[r].order IN
         /\ o \in Orders /\ spent[o] = 0
         /\ grant[o].refunded + refund[r].amount <= grant[o].original
         /\ Sum([ledger.returned EXCEPT ![r] = refund[r].amount], RefundsOf(o)) =
              grant[o].refunded + refund[r].amount
  <1> DEFINE o == refund[r].order
             R == RefundsOf(o)
             f == ledger.returned
             g == [f EXCEPT ![r] = refund[r].amount]
  <1>1. o \in Orders /\ r \in R
    BY DEF IInv, Underway, RefundsOf
  <1>2. spent[o] = 0
    BY DEF IInv, TypeOK, Underway, RefundRows, BInv, Unspent, Frozen
  <1>3. IsFiniteSet(R) /\ Sum(Live, R) <= Price /\ grant[o].refunded = Sum(f, R)
        /\ grant[o].original = Price
    BY <1>1 DEF BInv, Covered, Granted
  <1>4. f \in [Refunds -> Nat] /\ f[r] = 0
    BY CreditPackAssumption DEF IInv, TypeOK, Amounts, BInv, Recorded
  <1>5. \A q \in R : f[q] \in Nat /\ g[q] \in Nat /\ Live[q] \in Nat
    BY <1>4, LiveType DEF RefundsOf
  <1>6. (\A q \in R \ {r} : g[q] = f[q]) /\ g[r] = refund[r].amount
    BY <1>4 DEF RefundsOf
  <1>7. \A q \in R : g[q] <= Live[q]
    <2> SUFFICES ASSUME NEW q \in R PROVE g[q] <= Live[q]
      OBVIOUS
    <2>1. CASE q = r
      <3>1. g[r] = Live[r] /\ g[r] \in Nat
        BY <1>1, <1>5, <1>6 DEF Live
      <3> HIDE DEF g
      <3> QED BY <2>1, <3>1
    <2>2. CASE q # r
      <3>1. f[q] = 0 \/ f[q] = Live[q]
        BY DEF BInv, Recorded, Live, RefundsOf
      <3> QED BY <1>5, <1>6, <2>2, <3>1
    <2> QED BY <2>1, <2>2
  <1>8. refund[r].amount \in Nat
    BY LiveType
  <1> HIDE DEF f, g, R
  <1>9. Sum(g, R) + f[r] = Sum(f, R) + g[r]
    BY <1>1, <1>3, <1>5, <1>6, SumChange
  <1>10. Sum(g, R) <= Sum(Live, R)
    BY <1>3, <1>5, <1>7, SumMonotonic
  <1>11. Sum(f, R) \in Nat
    BY <1>3, <1>5, SumType
  <1>12. Sum(g, R) \in Nat
    BY <1>3, <1>5, SumType
  <1>13. Sum(Live, R) \in Nat
    BY <1>3, <1>5, SumType
  <1>14. Sum(g, R) = grant[o].refunded + refund[r].amount
    BY <1>3, <1>4, <1>6, <1>8, <1>9, <1>11, <1>12
  <1>15. grant[o].refunded + refund[r].amount <= grant[o].original
    BY <1>3, <1>10, <1>12, <1>13, <1>14, LiveType
  <1> QED BY <1>1, <1>2, <1>14, <1>15 DEF f, g, R

(* What a confirmation writes.                                             *)
LEMMA SucceedRows ==
  ASSUME IInv, BInv, NEW r \in Refunds, settlement[r] = "settled",
         refund[r].status # "none", Succeed(r)
  PROVE  LET o == refund[r].order IN
         /\ o \in Orders
         /\ refund' = [refund EXCEPT ![r].status = "succeeded"]
         /\ \A p \in Orders : order'[p].status \in {order[p].status, "refunded"}
         /\ ledger'.bought = ledger.bought
         /\ ledger'.returned = [ledger.returned EXCEPT ![r] = refund[r].amount]
         /\ refund[r].status = "succeeded" =>
              grant' = grant /\ ledger'.returned = ledger.returned
         /\ refund[r].status # "succeeded" =>
              /\ \A p \in Orders \ {o} : grant'[p] = grant[p]
              /\ grant'[o].original = grant[o].original
              /\ grant'[o].refunded = grant[o].refunded + refund[r].amount
              /\ grant'[o].remaining = grant[o].remaining - refund[r].amount
  <1> DEFINE o == refund[r].order
             a == refund[r].amount
             more == Lesser(a, grant[o].original - grant[o].refunded)
  <1>1. /\ o \in Orders
        /\ refund' = [refund EXCEPT ![r].status = "succeeded"]
        /\ \A p \in Orders : order'[p].status \in {order[p].status, "refunded"}
    BY SucceedBooks DEF IInv, Underway, Succeed
  <1>2. /\ ledger'.bought = ledger.bought
        /\ ledger'.returned = [ledger.returned EXCEPT ![r] = a]
    BY DEF IInv, TypeOK, Succeed
  <1>3. CASE refund[r].status = "succeeded"
    <2>1. UNCHANGED grant
      BY <1>3 DEF Succeed
    <2>2. ledger.returned[r] = a /\ ledger.returned \in [Refunds -> Amounts]
      BY <1>3 DEF IInv, TypeOK, BInv, Recorded
    <2> QED BY <1>1, <1>2, <1>3, <2>1, <2>2
  <1>4. CASE refund[r].status # "succeeded"
    <2>1. grant[o].refunded + a <= grant[o].original /\ spent[o] = 0
      BY <1>4, ConfirmationCovered
    <2>2. /\ grant[o].original \in Nat /\ grant[o].remaining \in Nat
          /\ grant[o].refunded \in Nat /\ a \in Nat
      BY <1>1, LiveType
    <2>3. grant[o].original = grant[o].remaining + grant[o].refunded
      BY <1>1, <2>1, <2>2 DEF BInv, CreditsConserved
    <2>4. more = a /\ Lesser(grant[o].remaining, a) = a
      BY <2>1, <2>2, <2>3 DEF Lesser
    <2>5. grant[o] \in GrantRows /\ grant \in [Orders -> GrantRows]
      BY <1>1 DEF IInv, TypeOK
    <2> DEFINE row == [grant[o] EXCEPT !.refunded = @ + more,
                                       !.remaining = @ - Lesser(@, more)]
    <2>6. grant' = [grant EXCEPT ![o] = row]
      BY <1>1, <1>4, <2>5 DEF Succeed, GrantRows
    <2>7. /\ row.original = grant[o].original
          /\ row.refunded = grant[o].refunded + a
          /\ row.remaining = grant[o].remaining - a
      BY <2>4, <2>5 DEF GrantRows
    <2> HIDE DEF row
    <2>8. grant'[o] = row /\ \A p \in Orders \ {o} : grant'[p] = grant[p]
      BY <1>1, <2>5, <2>6
    <2> QED BY <1>1, <1>2, <1>4, <2>7, <2>8
  <1> QED BY <1>3, <1>4

(* A confirmation keeps the books, whoever brings it.                      *)
LEMMA SucceedBalances ==
  ASSUME IInv, IInv', BInv, NEW r \in Refunds, settlement[r] = "settled",
         refund[r].status # "none", Succeed(r), UNCHANGED <<settlement, spent>>
  PROVE  BInv'
  <1> DEFINE o == refund[r].order
             a == refund[r].amount
  <1>1. /\ o \in Orders
        /\ \A p \in Orders : order'[p].status \in {order[p].status, "refunded"}
        /\ ledger'.bought = ledger.bought
        /\ ledger'.returned = [ledger.returned EXCEPT ![r] = a]
    BY SucceedRows
  <1>2. refund' = [refund EXCEPT ![r].status = "succeeded"]
    BY SucceedRows
  <1>3. /\ refund'[r].status = "succeeded"
        /\ refund'[r].order = o /\ refund'[r].amount = a
        /\ \A q \in Refunds \ {r} : refund'[q] = refund[q]
    BY <1>2 DEF IInv, TypeOK, RefundRows
  <1>4. CASE refund[r].status = "succeeded"
    <2>1. grant' = grant /\ ledger'.returned = ledger.returned
      BY <1>4, SucceedRows
    <2>2. ledger' = ledger
      BY <1>1, <2>1 DEF IInv, TypeOK
    <2> QED BY <1>1, <1>3, <1>4, <2>1, <2>2, BooksKept
  <1>5. CASE refund[r].status # "succeeded"
    <2>1. /\ \A p \in Orders \ {o} : grant'[p] = grant[p]
          /\ grant'[o].original = grant[o].original
          /\ grant'[o].refunded = grant[o].refunded + a
          /\ grant'[o].remaining = grant[o].remaining - a
      BY <1>5, SucceedRows
    <2>2. ledger.returned \in [Refunds -> Amounts]
      BY DEF IInv, TypeOK
    <2>3. Recorded'
      BY <1>1, <1>3, <2>2 DEF BInv, Recorded
    <2>4. Granted'
      BY <1>1, <1>3, <2>1 DEF BInv, Granted, IInv, Underway
    <2>5. Unspent'
      BY <1>3 DEF BInv, Unspent, Frozen
    <2>6. Live' = Live /\ \A p \in Orders : RefundsOf(p)' = RefundsOf(p)
      BY <1>3 DEF Live, RefundsOf
    <2>7. Covered'
      <3> SUFFICES ASSUME NEW p \in Orders
                   PROVE  grant'[p].refunded = Sum(ledger'.returned, RefundsOf(p))
        BY <2>6 DEF BInv, Covered
      <3>1. IsFiniteSet(RefundsOf(p)) /\ grant[p].refunded = Sum(ledger.returned, RefundsOf(p))
        BY DEF BInv, Covered
      <3>2. CASE p = o
        BY <1>1, <1>5, <2>1, <3>2, ConfirmationCovered
      <3>3. CASE p # o
        <4>1. \A q \in RefundsOf(p) : ledger.returned[q] = ledger'.returned[q]
          BY <1>1, <2>2, <3>3 DEF RefundsOf
        <4>2. Sum(ledger.returned, RefundsOf(p)) = Sum(ledger'.returned, RefundsOf(p))
          BY <3>1, <4>1, SumEqual
        <4> QED BY <2>1, <3>1, <3>3, <4>2
      <3> QED BY <3>2, <3>3
    <2>8. CreditsConserved'
      <3> SUFFICES ASSUME NEW p \in Orders
                   PROVE  grant'[p].original = grant'[p].remaining + grant'[p].refunded + spent[p]
        BY DEF CreditsConserved
      <3>1. grant[p].original = grant[p].remaining + grant[p].refunded + spent[p]
        BY DEF BInv, CreditsConserved
      <3>2. /\ grant[p].remaining \in Nat /\ grant[p].refunded \in Nat
            /\ spent[p] \in Nat /\ a \in Nat
        BY LiveType
      <3>3. p = o \/ grant'[p] = grant[p]
        BY <2>1
      <3> QED BY <2>1, <3>1, <3>2, <3>3
    <2> QED BY <2>3, <2>4, <2>5, <2>7, <2>8 DEF BInv
  <1> QED BY <1>4, <1>5

(* What is taken from a grant is spent.                                    *)
LEMMA SpendCommitBooks ==
  ASSUME IInv, IInv', BInv, NEW s \in Sessions, NEW take \in [Orders -> Amounts],
         SpendCommit(s, take)
  PROVE  BInv'
  <1>1. \A o \in Orders : take[o] \in Nat /\ sess[s].copy[o] \in Nat
    BY CreditPackAssumption DEF IInv, TypeOK, SessionStates, Amounts
  <1>2. \A o \in Orders : take[o] # 0 => Held(s, o) /\ sess[s].copy[o] = grant[o].remaining
    BY <1>1 DEF IInv, Locked, Held, SpendCommit
  <1>3. /\ \A o \in Orders :
             grant'[o] = IF take[o] = 0 THEN grant[o]
                         ELSE [grant[o] EXCEPT !.remaining = grant[o].remaining - take[o]]
        /\ \A o \in Orders : spent'[o] = spent[o] + take[o]
        /\ UNCHANGED <<order, refund, ledger, settlement>>
    BY <1>2 DEF SpendCommit
  <1>4. \A o \in Orders : /\ grant'[o].original = grant[o].original
                          /\ grant'[o].refunded = grant[o].refunded
                          /\ grant'[o].remaining = grant[o].remaining - take[o]
    <2> SUFFICES ASSUME NEW o \in Orders
                 PROVE  /\ grant'[o].original = grant[o].original
                        /\ grant'[o].refunded = grant[o].refunded
                        /\ grant'[o].remaining = grant[o].remaining - take[o]
      OBVIOUS
    <2>1. grant[o] \in GrantRows
      BY DEF IInv, TypeOK
    <2>2. grant[o].remaining \in Nat
      BY LiveType
    <2>3. CASE take[o] = 0
      <3>1. grant'[o] = grant[o]
        BY <1>3, <2>3
      <3>2. grant[o].remaining - take[o] = grant[o].remaining
        BY <2>2, <2>3
      <3> QED BY <3>1, <3>2
    <2>4. CASE take[o] # 0
      BY <1>3, <2>1, <2>4 DEF GrantRows
    <2> QED BY <2>3, <2>4
  <1>5. Recorded'
    BY <1>3 DEF BInv, Recorded
  <1>6. Granted'
    BY <1>3, <1>4 DEF BInv, Granted, IInv, Underway
  <1>7. Unspent'
    <2> SUFFICES ASSUME NEW r \in Refunds, refund[r].status \in Frozen,
                        settlement[r] # "rejected"
                 PROVE  spent'[refund[r].order] = 0
      BY <1>3 DEF Unspent
    <2>1. refund[r].order \in Orders /\ spent[refund[r].order] = 0
      BY DEF IInv, Underway, BInv, Unspent, Frozen
    <2>2. ~Held(s, refund[r].order)
      BY DEF IInv, NoSpendingUnderRefund, Held
    <2>3. take[refund[r].order] = 0
      BY <1>2, <2>1, <2>2
    <2> QED BY <1>3, <2>1, <2>3
  <1>8. Covered'
    <2>1. Live' = Live /\ \A p \in Orders : RefundsOf(p)' = RefundsOf(p)
      BY <1>3 DEF Live, RefundsOf
    <2> QED BY <1>3, <1>4, <2>1 DEF BInv, Covered
  <1>9. CreditsConserved'
    <2> SUFFICES ASSUME NEW o \in Orders
                 PROVE  grant'[o].original = grant'[o].remaining + grant'[o].refunded + spent'[o]
      BY DEF CreditsConserved
    <2>1. grant[o].original = grant[o].remaining + grant[o].refunded + spent[o]
      BY DEF BInv, CreditsConserved
    <2>2. grant[o].remaining \in Nat /\ grant[o].refunded \in Nat /\ spent[o] \in Nat
      BY LiveType
    <2> QED BY <1>1, <1>3, <1>4, <2>1, <2>2
  <1> QED BY <1>5, <1>6, <1>7, <1>8, <1>9 DEF BInv

(* The initial books are empty.                                            *)
LEMMA InitBInv == Init => BInv
  <1> SUFFICES ASSUME Init PROVE BInv
    OBVIOUS
  <1>1. Recorded /\ Granted /\ Unspent /\ CreditsConserved
    BY DEF Init, NoCopy, Recorded, Granted, Unspent, Frozen, CreditsConserved
  <1>2. Covered
    <2> SUFFICES ASSUME NEW o \in Orders
                 PROVE  /\ IsFiniteSet(RefundsOf(o))
                        /\ Sum(Live, RefundsOf(o)) <= Price
                        /\ grant[o].refunded = Sum(ledger.returned, RefundsOf(o))
      BY DEF Covered
    <2>1. RefundsOf(o) = {}
      BY CreditPackAssumption DEF Init, RefundsOf
    <2>2. IsFiniteSet(RefundsOf(o))
      BY <2>1, FS_EmptySet
    <2>3. Sum(Live, RefundsOf(o)) = 0 /\ Sum(ledger.returned, RefundsOf(o)) = 0
      BY <2>1, SumEmpty
    <2>4. grant[o].refunded = 0
      BY DEF Init
    <2> QED BY <2>2, <2>3, <2>4, CreditPackAssumption
  <1> QED BY <1>1, <1>2 DEF BInv

(* An order's way to its payment or its cancellation moves no credits.     *)
LEMMA OrderBooks ==
  ASSUME IInv, IInv', BInv,
         \/ SubscriptionEnds
         \/ \E o \in Orders :
              \/ Create(o) \/ Pay(o) \/ BecomesDue(o) \/ CancelDue(o) \/ MarkLate(o)
              \/ \E s \in Sessions : ExpireRead(s, o) \/ CancelLock(s, o)
         \/ \E s \in Sessions : ExpireWrite(s) \/ CloseTrade(s) \/ CancelCommit(s) \/ GiveUp(s)
  PROVE  BInv'
  <1>1. UNCHANGED <<refund, grant, ledger, settlement, spent>>
    BY DEF SubscriptionEnds, Create, Pay, BecomesDue, CancelDue, MarkLate, ExpireRead,
       CancelLock, ExpireWrite, CloseTrade, CancelCommit, GiveUp
  <1>2. \A o \in Orders : order'[o].status = "paid" => order[o].status = "paid"
    BY DEF IInv, TypeOK, OrderRows, SubscriptionEnds, Create, Pay, BecomesDue, CancelDue,
       MarkLate, ExpireRead, CancelLock, ExpireWrite, CloseTrade, CancelCommit, GiveUp, Expired
  <1> QED BY <1>1, <1>2, BooksKept

(* Neither do the steps of a refund before its confirmation.               *)
LEMMA RefundBooks ==
  ASSUME IInv, IInv', BInv,
         \/ \E r \in Refunds : \/ \E verdict \in {"settled", "rejected"} : Decide(r, verdict)
                               \/ QueryDue(r) \/ \E s \in Sessions : Query(s, r)
         \/ \E s \in Sessions : \/ SendRefund(s) \/ RefundRejected(s) \/ RefundUnanswered(s)
                                \/ QueryUnanswered(s) \/ SpendRead(s)
  PROVE  BInv'
  <1>1. UNCHANGED <<order, grant, ledger, spent>>
    BY DEF Decide, QueryDue, Query, SendRefund, RefundRejected, RefundUnanswered,
       QueryUnanswered, SpendRead
  <1> USE DEF IInv, TypeOK, RefundRows
  <1>2. CASE \E r \in Refunds, verdict \in {"settled", "rejected"} : Decide(r, verdict)
    BY <1>1, <1>2, BooksKept DEF Decide
  <1>3. CASE \E r \in Refunds : QueryDue(r)
    BY <1>1, <1>3, BooksKept DEF QueryDue
  <1>4. CASE \E r \in Refunds, s \in Sessions : Query(s, r)
    BY <1>1, <1>4, BooksKept DEF Query
  <1>5. CASE \E s \in Sessions : SendRefund(s)
    BY <1>1, <1>5, BooksKept DEF SendRefund, Working
  <1>6. CASE \E s \in Sessions : RefundRejected(s)
    BY <1>1, <1>6, BooksKept DEF RefundRejected, Outcome, Working, Frozen
  <1>7. CASE \E s \in Sessions : RefundUnanswered(s)
    BY <1>1, <1>7, BooksKept DEF RefundUnanswered, Outcome, Working, Frozen
  <1>8. CASE \E s \in Sessions : QueryUnanswered(s)
    <2>1. PICK s \in Sessions : QueryUnanswered(s)
      BY <1>8
    <2>2. /\ sess[s].at \in Refunds /\ refund[sess[s].at].status # "none"
          /\ refund[sess[s].at].status = "failed" => settlement[sess[s].at] = "rejected"
      BY <2>1 DEF QueryUnanswered, Working, Underway
    <2>3. UNCHANGED settlement
      BY <2>1 DEF QueryUnanswered
    <2>4. \A r \in Refunds :
            /\ refund'[r].order = refund[r].order /\ refund'[r].amount = refund[r].amount
            /\ refund'[r].status = "none" <=> refund[r].status = "none"
            /\ refund'[r].status = "succeeded" <=> refund[r].status = "succeeded"
            /\ refund'[r].status = refund[r].status \/ r = sess[s].at
      BY <2>1, <2>2 DEF QueryUnanswered
    <2>5. \A r \in Refunds : refund[r].status \in {"none", "requested", "unknown", "succeeded", "failed"}
      OBVIOUS
    <2>6. \A r \in Refunds : refund'[r].status \in Frozen /\ settlement'[r] # "rejected"
                           => refund[r].status \in Frozen
      BY <2>2, <2>3, <2>4, <2>5 DEF Frozen
    <2> QED BY <1>1, <2>3, <2>4, <2>6, BooksKept
  <1>9. CASE \E s \in Sessions : SpendRead(s)
    BY <1>1, <1>9, BooksKept DEF SpendRead
  <1> QED BY <1>2, <1>3, <1>4, <1>5, <1>6, <1>7, <1>8, <1>9

(* A confirmation reaches mark_payment_refund_succeeded from the call, the *)
(* query or the notification.                                              *)
LEMMA ConfirmedBooks ==
  ASSUME IInv, IInv', BInv,
         \/ \E r \in Refunds : RefundNotified(r)
         \/ \E s \in Sessions : RefundConfirmed(s) \/ QueryConfirmed(s)
  PROVE  BInv'
  <1>1. PICK r \in Refunds :
          settlement[r] = "settled" /\ Succeed(r) /\ UNCHANGED <<settlement, spent>>
    BY DEF IInv, Working, RefundNotified, RefundConfirmed, QueryConfirmed
  <1>2. refund[r].status # "none"
    BY <1>1 DEF IInv, Underway
  <1> QED BY <1>1, <1>2, SucceedBalances

(* Every step keeps the books.                                             *)
LEMMA NextBInv == IInv /\ IInv' /\ BInv /\ [Next]_vars => BInv'
  <1> SUFFICES ASSUME IInv, IInv', BInv, [Next]_vars PROVE BInv'
    OBVIOUS
  <1>1. CASE UNCHANGED vars
    BY <1>1, BooksKept DEF vars
  <1>2. CASE Next
    BY <1>2, OrderBooks, RefundBooks, ConfirmedBooks, MarkPaidBooks, RequestRefundBooks,
       SpendCommitBooks DEF Next, Step
  <1> QED BY <1>1, <1>2

(* What the gateway was asked to give back, and did not refuse, is paid.   *)
LEMMA RefundedWithinPrice ==
  ASSUME IInv, BInv
  PROVE  NeverOverRefunded
  <1> SUFFICES ASSUME NEW o \in Orders
               PROVE  MapThenSumSet(LAMBDA r : refund[r].amount,
                        {r \in Refunds : /\ refund[r].order = o
                                         /\ settlement[r] \in {"sent", "settled"}})
                      <= IF trade[o] = "paid" THEN Price ELSE 0
    BY DEF NeverOverRefunded
  <1> DEFINE A == {r \in Refunds : /\ refund[r].order = o
                                   /\ settlement[r] \in {"sent", "settled"}}
             f == [r \in Refunds |-> refund[r].amount]
  <1>1. MapThenSumSet(LAMBDA r : refund[r].amount, A) = Sum(f, A)
    BY DEF Sum, MapThenSumSet, MapThenFoldSet
  <1>2. IsFiniteSet(RefundsOf(o)) /\ A \in SUBSET RefundsOf(o) /\ Sum(Live, RefundsOf(o)) <= Price
    BY DEF BInv, Covered, RefundsOf
  <1>3. \A r \in RefundsOf(o) : Live[r] \in Nat
    BY LiveType DEF RefundsOf
  <1>4. IsFiniteSet(A)
    BY <1>2, FS_Subset
  <1>5. \A r \in A : f[r] \in Nat /\ Live[r] \in Nat /\ f[r] = Live[r]
    BY LiveType DEF Live
  <1>6. trade[o] # "paid" => A = {}
    <2> SUFFICES ASSUME trade[o] # "paid", NEW r \in A PROVE FALSE
      OBVIOUS
    <2>1. refund[r].status # "none" /\ refund[r].order = o
      BY DEF IInv, Underway
    <2>2. grant[o].original = Price
      BY <2>1 DEF BInv, Granted
    <2> QED BY <2>2, CreditPackAssumption DEF IInv, PaidInTime
  <1> HIDE DEF A, f
  <1>7. Sum(f, A) = Sum(Live, A)
    BY <1>4, <1>5, SumEqual
  <1>8. CASE trade[o] = "paid"
    <2>1. Sum(Live, A) <= Sum(Live, RefundsOf(o))
      BY <1>2, <1>3, SumOfPart
    <2>2. Sum(Live, A) \in Nat
      BY <1>4, <1>5, SumType
    <2>3. Sum(Live, RefundsOf(o)) \in Nat
      BY <1>2, <1>3, SumType
    <2>4. Sum(f, A) <= Price
      BY <1>2, <1>7, <2>1, <2>2, <2>3, LiveType
    <2> QED BY <1>1, <1>8, <2>4 DEF A
  <1>9. CASE trade[o] # "paid"
    <2>1. Sum(f, A) = 0
      BY <1>6, <1>9, SumEmpty
    <2> QED BY <1>1, <1>9, <2>1 DEF A
  <1> QED BY <1>8, <1>9

-----------------------------------------------------------------------------
(* The theorems.                                                           *)

(* Rows stay what they are read and locked for.                            *)
THEOREM Invariance == Spec => []IInv
  BY InitIInv, NextIInv, PTL DEF Spec

(* Orders, refunds, grants and sessions keep their types: no amount leaves *)
(* the range of the price, no refund is queried too often.                 *)
THEOREM CreditPackTypes == Spec => []TypeOK
  <1>1. IInv => TypeOK
    BY DEF IInv
  <1> QED BY <1>1, Invariance, PTL

(* mark_payment_order_paid grants credits only for a trade paid in time,   *)
(* whatever expiry wrote over the order.                                   *)
THEOREM GrantsArePaid == Spec => []CreditsArePaidFor
  <1>1. IInv => CreditsArePaidFor
    BY DEF IInv, PaidInTime, CreditsArePaidFor
  <1> QED BY <1>1, Invariance, PTL

(* consume_paid_credit_grants never takes credits whose refund the gateway *)
(* may still settle.                                                       *)
THEOREM RefundFreezesGrant == Spec => []NoSpendingUnderRefund
  <1>1. IInv => NoSpendingUnderRefund
    BY DEF IInv
  <1> QED BY <1>1, Invariance, PTL

(* The books stay balanced: see BInv.                                      *)
THEOREM Balance == Spec => []BInv
  BY InitBInv, NextBInv, Invariance, PTL DEF Spec

(* Every credit of a pack is left, spent or returned, however payments,    *)
(* confirmations, queries and spending interleave: neither                 *)
(* mark_payment_refund_succeeded nor consume_paid_credit_grants meets the  *)
(* floor that its clamping would put under a balance.                      *)
THEOREM CreditsAreConserved == Spec => []CreditsConserved
  <1>1. BInv => CreditsConserved
    BY DEF BInv
  <1> QED BY <1>1, Balance, PTL

(* The ledger and the grants tell the same story of every order: one       *)
(* purchase, and one adjustment for each confirmed refund.                 *)
THEOREM BooksAlwaysAgree == Spec => []BooksAgree
  <1>1. BInv => BooksAgree
    <2> SUFFICES ASSUME BInv, NEW o \in Orders
                 PROVE  /\ ledger.bought[o] = grant[o].original
                        /\ grant[o].refunded =
                             MapThenSumSet(LAMBDA r : ledger.returned[r],
                                           {r \in Refunds : refund[r].order = o})
      BY DEF BooksAgree
    <2>1. MapThenSumSet(LAMBDA r : ledger.returned[r], {r \in Refunds : refund[r].order = o})
            = Sum(ledger.returned, RefundsOf(o))
      BY DEF Sum, MapThenSumSet, MapThenFoldSet, RefundsOf
    <2> QED BY <2>1 DEF BInv, Granted, Covered
  <1> QED BY <1>1, Balance, PTL

(* The refunds that request_payment_refund sends, those without an answer  *)
(* included, never exceed what the customer paid.                          *)
THEOREM NoOverRefund == Spec => []NeverOverRefunded
  <1>1. IInv /\ BInv => NeverOverRefunded
    BY RefundedWithinPrice
  <1> QED BY <1>1, Invariance, Balance, PTL

(* No handler takes back a confirmed refund.                               *)
THEOREM RefundIsFinal == Spec => ConfirmedRefundStays
  <1>1. IInv /\ [Next]_vars =>
          [\A r \in Refunds : refund[r].status = "succeeded" => refund'[r].status = "succeeded"]_vars
    <2> SUFFICES ASSUME IInv, [Next]_vars, NEW r \in Refunds, refund[r].status = "succeeded"
                 PROVE  refund'[r].status = "succeeded"
      OBVIOUS
    <2>1. CASE UNCHANGED refund
      BY <2>1
    <2>2. CASE \E q \in Refunds : Succeed(q)
      BY <2>2 DEF IInv, TypeOK, Succeed
    <2>3. CASE \E q \in Refunds, s \in Sessions : Query(s, q)
      BY <2>3 DEF IInv, TypeOK, Query, Frozen, RefundRows
    <2>4. CASE \E q \in Refunds : QueryDue(q)
      BY <2>4 DEF IInv, TypeOK, QueryDue, RefundRows
    <2>5. CASE \E s \in Sessions, q \in Refunds, o \in Orders, amount \in 1..Price :
                 RequestRefund(s, q, o, amount)
      BY <2>5 DEF IInv, TypeOK, RequestRefund
    <2>6. CASE \E s \in Sessions : RefundRejected(s) \/ RefundUnanswered(s)
      BY <2>6 DEF IInv, TypeOK, RefundRejected, RefundUnanswered, Outcome
    <2>7. CASE \E s \in Sessions : QueryUnanswered(s)
      BY <2>7 DEF IInv, TypeOK, QueryUnanswered
    <2>8. CASE \E s \in Sessions : RefundConfirmed(s) \/ QueryConfirmed(s)
      <3>1. PICK s \in Sessions : RefundConfirmed(s) \/ QueryConfirmed(s)
        BY <2>8
      <3>2. sess[s].at \in Refunds
        BY <3>1 DEF IInv, Working, RefundConfirmed, QueryConfirmed
      <3> QED BY <2>2, <3>1, <3>2 DEF RefundConfirmed, QueryConfirmed
    <2>9. CASE \E q \in Refunds : RefundNotified(q)
      BY <2>2, <2>9 DEF RefundNotified
    <2>10. ASSUME NEW o \in Orders,
                  \/ Create(o) \/ Pay(o) \/ BecomesDue(o) \/ CancelDue(o)
                  \/ MarkPaid(o) \/ MarkLate(o)
                  \/ \E s \in Sessions : ExpireRead(s, o) \/ CancelLock(s, o)
           PROVE  UNCHANGED refund
      BY <2>10 DEF Create, Pay, BecomesDue, CancelDue, MarkPaid, Credited, MarkLate, ExpireRead,
         CancelLock
    <2>11. ASSUME NEW s \in Sessions,
                  \/ ExpireWrite(s) \/ CloseTrade(s) \/ CancelCommit(s) \/ GiveUp(s)
                  \/ SendRefund(s) \/ SpendRead(s)
                  \/ \E take \in [Orders -> Amounts] : SpendCommit(s, take)
           PROVE  UNCHANGED refund
      BY <2>11 DEF ExpireWrite, CloseTrade, CancelCommit, GiveUp, SendRefund,
         SpendRead, SpendCommit
    <2>12. ASSUME SubscriptionEnds \/ \E q \in Refunds, verdict \in {"settled", "rejected"} : Decide(q, verdict)
           PROVE  UNCHANGED refund
      BY <2>12 DEF SubscriptionEnds, Decide
    <2> QED BY <2>1, <2>2, <2>3, <2>4, <2>5, <2>6, <2>7, <2>8, <2>9, <2>10, <2>11, <2>12
            DEF Next, Step, vars
  <1> QED BY <1>1, Invariance, PTL DEF Spec, ConfirmedRefundStays
=============================================================================
