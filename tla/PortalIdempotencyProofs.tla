----------------------- MODULE PortalIdempotencyProofs -----------------------
(***************************************************************************)
(* Theorems about PortalIdempotency, for any requests, bodies, lease,      *)
(* retention and horizon.  The argument is about one row: whoever executes *)
(* holds it as processing, only its holder turns it into a completed one,  *)
(* and only a completed and spent one, or one whose holder did nothing, is *)
(* deleted.  What clients are told is backed by the answer of the request  *)
(* that recorded it, or by the order, neither of which changes any more.   *)
(***************************************************************************)
EXTENDS PortalIdempotency, TLAPS

Recorded == {"original", "fallback"}

(* What is known of a request from where it stands.                        *)
RequestKnows(q) ==
  /\ pc[q] # "idle" => body[q] \in Bodies
  /\ now[q] <= clock
  /\ pc[q] # "done" => recorded[q] = 0 /\ answer[q] = NoAnswer
  /\ pc[q] \notin {"performed", "done"} => q \notin effects /\ outcome[q] = NoOne
  /\ pc[q] \in Executing => Holds(q)
  /\ doomed[q] # NoOne =>
       recorded[doomed[q]] # 0 /\ clock >= recorded[doomed[q]] + Retention

RequestsKnow == \A q \in Requests : RequestKnows(q)

ReceiptIsOwned ==
  /\ receipt.state = "none" => receipt.by = NoOne
  /\ receipt.state # "none" =>
       /\ receipt.by \in Requests
       /\ pc[receipt.by] \in Executing \union {"done"}
       /\ receipt.body = body[receipt.by]
  /\ receipt.state = "completed" =>
       /\ recorded[receipt.by] # 0
       /\ receipt.expires = recorded[receipt.by] + Retention
       /\ receipt.response \in Recorded
       /\ answer[receipt.by] = [kind |-> receipt.response, of |-> receipt.by]

OrderIsOwned ==
  order # NoOrder =>
    /\ order.by \in Requests
    /\ pc[order.by] \in {"performed", "done"}
    /\ order.body = body[order.by]

(* An answer repeats the one of the request that recorded it, or names the *)
(* order.                                                                  *)
AnswerIsBacked(q) ==
  LET a == answer[q] IN
  /\ a.kind \in Recorded =>
       /\ a.of \in Requests
       /\ pc[a.of] = "done"
       /\ body[a.of] = body[q]
       /\ answer[a.of] = a
  /\ a.kind = "order" =>
       order # NoOrder /\ a.of = order.by /\ order.body = body[q]

OutcomeIsOrder(q) ==
  body[q] \in OrderBodies /\ outcome[q] # NoOne =>
    order # NoOrder /\ outcome[q] = order.by

ToldIsTrue == \A q \in Requests : AnswerIsBacked(q) /\ OutcomeIsOrder(q)

IInv ==
  /\ TypeOK
  /\ RequestsKnow
  /\ ReceiptIsOwned
  /\ EffectKeepsTheKey
  /\ OrderIsOwned
  /\ ToldIsTrue

-----------------------------------------------------------------------------
(* Lemmas.                                                                 *)

LEMMA InitIInv == Init => IInv
  <1> SUFFICES ASSUME Init PROVE IInv
    OBVIOUS
  <1>1. TypeOK
    BY PortalAssumption DEF Init, TypeOK, Receipt, NoReceipt, Order, NoOrder, Answer,
       NoAnswer, Response, Stage, Executing
  <1>2. RequestsKnow
    <2> SUFFICES ASSUME NEW q \in Requests PROVE RequestKnows(q)
      BY DEF RequestsKnow
    <2>1. /\ clock = 1 /\ pc[q] = "idle" /\ now[q] = 0 /\ doomed[q] = NoOne
          /\ outcome[q] = NoOne /\ answer[q] = NoAnswer /\ effects = {} /\ recorded[q] = 0
      BY DEF Init
    <2> QED BY <2>1 DEF RequestKnows, Executing
  <1>3. ReceiptIsOwned /\ EffectKeepsTheKey /\ OrderIsOwned
    BY DEF Init, ReceiptIsOwned, EffectKeepsTheKey, OrderIsOwned, NoReceipt
  <1>4. ToldIsTrue
    BY DEF Init, ToldIsTrue, AnswerIsBacked, OutcomeIsOrder, NoAnswer, Recorded
  <1> QED BY <1>1, <1>2, <1>3, <1>4 DEF IInv

(* An answer given to a request that had none.                             *)
LEMMA AnsweredType ==
  ASSUME TypeOK, NEW q \in Requests, NEW k \in Response \union {"order", "refused", "lost"},
         NEW o \in Requests \union {NoOne}, Answered(q, k, o)
  PROVE  /\ pc' \in [Requests -> Stage]
         /\ answer' \in [Requests -> Answer]
         /\ pc'[q] = "done" /\ answer'[q] = [kind |-> k, of |-> o]
         /\ \A p \in Requests \ {q} : pc'[p] = pc[p] /\ answer'[p] = answer[p]
  BY DEF TypeOK, Answered, Goes, Stage, Answer

(* The same of a step forward.                                             *)
LEMMA GoesType ==
  ASSUME TypeOK, NEW q \in Requests, NEW stage \in Stage, Goes(q, stage)
  PROVE  /\ pc' \in [Requests -> Stage]
         /\ pc'[q] = stage
         /\ \A p \in Requests \ {q} : pc'[p] = pc[p]
  BY DEF TypeOK, Goes

(* A request that is refused or lost ends without a trace.                 *)
LEMMA RefusedIInv ==
  ASSUME IInv, NEW q \in Requests, pc[q] \notin {"idle", "done"},
         NEW k \in {"refused", "lost"}, Answered(q, k, NoOne),
         UNCHANGED <<clock, receipt, order, body, now, doomed, outcome, effects, recorded>>
  PROVE  IInv'
  <1>1. /\ pc' \in [Requests -> Stage]
        /\ answer' \in [Requests -> Answer]
        /\ pc'[q] = "done" /\ answer'[q] = [kind |-> k, of |-> NoOne]
        /\ \A p \in Requests \ {q} : pc'[p] = pc[p] /\ answer'[p] = answer[p]
    BY AnsweredType DEF IInv
  <1>2. TypeOK'
    BY <1>1 DEF IInv, TypeOK
  <1>3. RequestsKnow'
    BY <1>1 DEF IInv, RequestsKnow, RequestKnows, Executing, Holds
  <1>4. ReceiptIsOwned'
    <2>1. receipt.state = "completed" => receipt.by # q
      BY DEF IInv, RequestsKnow, RequestKnows, ReceiptIsOwned
    <2> QED BY <1>1, <2>1 DEF IInv, ReceiptIsOwned
  <1>5. EffectKeepsTheKey' /\ OrderIsOwned'
    BY <1>1 DEF IInv, EffectKeepsTheKey, OrderIsOwned
  <1>6. ToldIsTrue'
    BY <1>1 DEF IInv, ToldIsTrue, AnswerIsBacked, OutcomeIsOrder, Recorded
  <1> QED BY <1>2, <1>3, <1>4, <1>5, <1>6 DEF IInv

-----------------------------------------------------------------------------
(* The claim of the receipt.                                               *)

LEMMA ArriveIInv ==
  ASSUME IInv, NEW q \in Requests, NEW b \in Bodies, Arrive(q, b)
  PROVE  IInv'
  <1>1. /\ pc[q] = "idle"
        /\ body' = [body EXCEPT ![q] = b]
        /\ now' = [now EXCEPT ![q] = clock]
        /\ UNCHANGED <<clock, receipt, order, outcome, answer, effects, recorded>>
    BY DEF Arrive
  <1>2. PICK found \in {NoOne} \union (IF Spent(clock) THEN {receipt.by} ELSE {}) :
          doomed' = [doomed EXCEPT ![q] = found]
    BY DEF Arrive
  <1>3. found \in Requests \union {NoOne}
        /\ (found # NoOne => recorded[found] # 0 /\ clock >= recorded[found] + Retention)
    BY <1>2 DEF IInv, ReceiptIsOwned, Spent
  <1>4. /\ pc' \in [Requests -> Stage]
        /\ pc'[q] = "cleaning"
        /\ \A p \in Requests \ {q} : pc'[p] = pc[p]
    BY GoesType DEF IInv, Arrive, Stage
  <1>5. TypeOK'
    <2>1. clock \in 0..Horizon
      BY DEF IInv, TypeOK
    <2>2. /\ body' \in [Requests -> Bodies \union {NoOne}]
          /\ now' \in [Requests -> 0..Horizon]
          /\ doomed' \in [Requests -> Requests \union {NoOne}]
      BY <1>1, <1>2, <1>3, <2>1 DEF IInv, TypeOK
    <2> QED BY <1>1, <1>4, <2>2 DEF IInv, TypeOK
  <1>6. RequestsKnow'
    <2> SUFFICES ASSUME NEW p \in Requests PROVE RequestKnows(p)'
      BY DEF RequestsKnow
    <2>1. CASE p = q
      BY <1>1, <1>2, <1>3, <1>4, <2>1
      DEF IInv, TypeOK, RequestsKnow, RequestKnows, Executing
    <2>2. CASE p # q
      BY <1>1, <1>2, <1>4, <2>2
      DEF IInv, TypeOK, RequestsKnow, RequestKnows, Executing, Holds
    <2> QED BY <2>1, <2>2
  <1>7. ReceiptIsOwned' /\ EffectKeepsTheKey' /\ OrderIsOwned'
    BY <1>1, <1>4 DEF IInv, TypeOK, ReceiptIsOwned, EffectKeepsTheKey, OrderIsOwned, Executing
  <1>8. ToldIsTrue'
    <2>1. answer[q] = NoAnswer /\ outcome[q] = NoOne
      BY <1>1 DEF IInv, RequestsKnow, RequestKnows
    <2> QED BY <1>1, <1>4, <2>1 DEF IInv, TypeOK, ToldIsTrue, AnswerIsBacked,
               OutcomeIsOrder, NoAnswer, Recorded
  <1> QED BY <1>5, <1>6, <1>7, <1>8 DEF IInv

(* Deleting a receipt that nobody executes under and whose effect, if any, *)
(* has been recorded and kept.                                             *)
LEMMA DeletedIInv ==
  ASSUME IInv, NEW q \in Requests, NEW stage \in {"claiming", "done"},
         receipt.state # "none", receipt' = NoReceipt,
         \A p \in Requests \ {q} : pc[p] \notin Executing,
         receipt.by \in effects =>
           recorded[receipt.by] # 0 /\ clock >= recorded[receipt.by] + Retention,
         pc[q] \in {"cleaning", "claiming", "claimed"},
         \/ stage = "claiming" /\ pc[q] # "claimed" /\ Goes(q, stage) /\ UNCHANGED answer
         \/ stage = "done" /\ Answered(q, "refused", NoOne),
         UNCHANGED <<clock, order, body, now, doomed, outcome, effects, recorded>>
  PROVE  IInv'
  <1>1. /\ pc' \in [Requests -> Stage]
        /\ answer' \in [Requests -> Answer]
        /\ pc'[q] = stage /\ answer'[q] \in {NoAnswer, [kind |-> "refused", of |-> NoOne]}
        /\ stage = "claiming" => answer'[q] = NoAnswer
        /\ \A p \in Requests \ {q} : pc'[p] = pc[p] /\ answer'[p] = answer[p]
    <2>1. answer[q] = NoAnswer
      BY DEF IInv, RequestsKnow, RequestKnows
    <2>2. CASE stage = "claiming"
      BY <2>1, <2>2, GoesType DEF IInv, TypeOK, Stage
    <2>3. CASE stage = "done"
      BY <2>3, AnsweredType DEF IInv
    <2> QED BY <2>2, <2>3
  <1>2. TypeOK'
    BY <1>1 DEF IInv, TypeOK, Receipt, NoReceipt, Response
  <1>3. RequestsKnow'
    BY <1>1 DEF IInv, RequestsKnow, RequestKnows, Executing
  <1>4. ReceiptIsOwned'
    BY DEF ReceiptIsOwned, NoReceipt
  <1>5. EffectKeepsTheKey'
    BY DEF IInv, EffectKeepsTheKey
  <1>6. OrderIsOwned'
    BY <1>1 DEF IInv, OrderIsOwned
  <1>7. ToldIsTrue'
    BY <1>1 DEF IInv, ToldIsTrue, AnswerIsBacked, OutcomeIsOrder, Recorded, NoAnswer
  <1> QED BY <1>2, <1>3, <1>4, <1>5, <1>6, <1>7 DEF IInv

(* Going one stage further without an effect.                              *)
LEMMA OnwardsIInv ==
  ASSUME IInv, NEW q \in Requests, NEW stage \in {"claiming", "reconciling"},
         pc[q] \in {"cleaning", "claiming"}, Goes(q, stage),
         UNCHANGED <<clock, receipt, order, body, now, doomed, outcome, answer, effects,
                     recorded>>
  PROVE  IInv'
  <1>1. /\ pc' \in [Requests -> Stage]
        /\ pc'[q] = stage
        /\ \A p \in Requests \ {q} : pc'[p] = pc[p]
    BY GoesType DEF IInv, Stage
  <1>2. TypeOK'
    BY <1>1 DEF IInv, TypeOK
  <1>3. RequestsKnow'
    BY <1>1 DEF IInv, RequestsKnow, RequestKnows, Executing, Holds
  <1>4. ReceiptIsOwned' /\ EffectKeepsTheKey' /\ OrderIsOwned'
    BY <1>1 DEF IInv, ReceiptIsOwned, EffectKeepsTheKey, OrderIsOwned, Executing
  <1>5. ToldIsTrue'
    BY <1>1 DEF IInv, ToldIsTrue, AnswerIsBacked, OutcomeIsOrder
  <1> QED BY <1>2, <1>3, <1>4, <1>5 DEF IInv

(* Who executes holds the receipt, so nobody does when it is not           *)
(* processing, and nobody else when somebody does.                         *)
LEMMA ExecutorHolds ==
  ASSUME IInv, NEW q \in Requests, pc[q] \in Executing
  PROVE  receipt.state = "processing" /\ receipt.by = q
  BY DEF IInv, RequestsKnow, RequestKnows, Holds

LEMMA CleanupIInv ==
  ASSUME IInv, NEW q \in Requests, Cleanup(q)
  PROVE  IInv'
  <1>1. /\ pc[q] = "cleaning"
        /\ Goes(q, "claiming")
        /\ UNCHANGED <<clock, order, body, now, doomed, outcome, answer, effects, recorded>>
    BY DEF Cleanup
  <1>2. CASE doomed[q] # NoOne /\ receipt.by = doomed[q]
    <2>1. recorded[receipt.by] # 0 /\ clock >= recorded[receipt.by] + Retention
      BY <1>2 DEF IInv, RequestsKnow, RequestKnows
    <2>2. receipt.state # "none"
      BY <1>2 DEF IInv, ReceiptIsOwned
    <2>3. \A p \in Requests : pc[p] \notin Executing
      BY <2>1, ExecutorHolds DEF IInv, RequestsKnow, RequestKnows, Executing
    <2>4. receipt' = NoReceipt
      BY <1>2 DEF Cleanup
    <2> QED BY <1>1, <2>1, <2>2, <2>3, <2>4, DeletedIInv
  <1>3. CASE ~(doomed[q] # NoOne /\ receipt.by = doomed[q])
    <2>1. UNCHANGED receipt
      BY <1>3 DEF Cleanup
    <2> QED BY <1>1, <2>1, OnwardsIInv
  <1> QED BY <1>2, <1>3

LEMMA TakeIInv ==
  ASSUME IInv, NEW q \in Requests, Take(q)
  PROVE  IInv'
  <1> DEFINE new == [state |-> "processing", by |-> q, body |-> body[q],
                     lease |-> now[q] + Lease, expires |-> now[q] + Retention,
                     response |-> "none"]
  <1>1. /\ pc[q] = "claiming" /\ receipt.state = "none"
        /\ receipt' = new
        /\ UNCHANGED <<clock, order, body, now, doomed, outcome, answer, effects, recorded>>
    BY DEF Take, Claimed
  <1>2. /\ pc' \in [Requests -> Stage]
        /\ pc'[q] = "claimed"
        /\ \A p \in Requests \ {q} : pc'[p] = pc[p]
    BY GoesType DEF IInv, Take, Claimed, Stage, Executing
  <1>3. receipt' \in Receipt
    BY <1>1, PortalAssumption DEF IInv, TypeOK, Receipt, Response
  <1>4. TypeOK'
    BY <1>1, <1>2, <1>3 DEF IInv, TypeOK
  <1>5. \A p \in Requests : pc[p] \notin Executing
    BY <1>1, ExecutorHolds
  <1>6. RequestsKnow'
    BY <1>1, <1>2, <1>5 DEF IInv, RequestsKnow, RequestKnows, Executing, Holds
  <1>7. ReceiptIsOwned'
    BY <1>1, <1>2 DEF ReceiptIsOwned, Executing
  <1>8. EffectKeepsTheKey'
    BY <1>1, PortalAssumption DEF IInv, TypeOK, ReceiptIsOwned, EffectKeepsTheKey
  <1>9. OrderIsOwned' /\ ToldIsTrue'
    BY <1>1, <1>2 DEF IInv, OrderIsOwned, ToldIsTrue, AnswerIsBacked, OutcomeIsOrder
  <1> QED BY <1>4, <1>6, <1>7, <1>8, <1>9 DEF IInv

LEMMA DropSpentIInv ==
  ASSUME IInv, NEW q \in Requests, DropSpent(q)
  PROVE  IInv'
  <1>1. /\ pc[q] = "claiming" /\ Spent(now[q])
        /\ receipt' = NoReceipt
        /\ UNCHANGED <<clock, order, pc, body, now, doomed, outcome, answer, effects, recorded>>
    BY DEF DropSpent, requestVars
  <1>2. Goes(q, "claiming")
    BY <1>1 DEF IInv, TypeOK, Goes
  <1>3. recorded[receipt.by] # 0 /\ clock >= recorded[receipt.by] + Retention
    BY <1>1 DEF IInv, TypeOK, Spent, ReceiptIsOwned, RequestsKnow, RequestKnows, Receipt
  <1>4. \A p \in Requests : pc[p] \notin Executing
    BY <1>1, ExecutorHolds DEF Spent
  <1> QED BY <1>1, <1>2, <1>3, <1>4, DeletedIInv DEF Spent

(* A replay repeats the answer of the request that recorded the response.  *)
LEMMA ToldIInv ==
  ASSUME IInv, NEW q \in Requests, pc[q] \in {"claiming", "reconciling"},
         NEW k \in Recorded \union {"order"}, NEW o \in Requests,
         Answered(q, k, o),
         k \in Recorded => pc[o] = "done" /\ body[o] = body[q] /\
                           answer[o] = [kind |-> k, of |-> o],
         k = "order" => order # NoOrder /\ o = order.by /\ order.body = body[q],
         UNCHANGED <<clock, receipt, order, body, now, doomed, outcome, effects, recorded>>
  PROVE  IInv'
  <1>1. /\ pc' \in [Requests -> Stage]
        /\ answer' \in [Requests -> Answer]
        /\ pc'[q] = "done" /\ answer'[q] = [kind |-> k, of |-> o]
        /\ \A p \in Requests \ {q} : pc'[p] = pc[p] /\ answer'[p] = answer[p]
    BY AnsweredType DEF IInv, Recorded, Response
  <1>2. TypeOK'
    BY <1>1 DEF IInv, TypeOK
  <1>3. RequestsKnow'
    BY <1>1 DEF IInv, RequestsKnow, RequestKnows, Executing, Holds
  <1>4. ReceiptIsOwned'
    BY <1>1 DEF IInv, ReceiptIsOwned, Executing
  <1>5. EffectKeepsTheKey' /\ OrderIsOwned'
    BY <1>1 DEF IInv, EffectKeepsTheKey, OrderIsOwned
  <1>6. ToldIsTrue'
    BY <1>1 DEF IInv, ToldIsTrue, AnswerIsBacked, OutcomeIsOrder, Recorded
  <1> QED BY <1>2, <1>3, <1>4, <1>5, <1>6 DEF IInv

LEMMA ReplayIInv ==
  ASSUME IInv, NEW q \in Requests, Replay(q)
  PROVE  IInv'
  <1>1. /\ receipt.by \in Requests /\ receipt.response \in Recorded
        /\ body[receipt.by] = body[q]
        /\ answer[receipt.by] = [kind |-> receipt.response, of |-> receipt.by]
    BY DEF IInv, Replay, Matches, ReceiptIsOwned
  <1>2. pc[receipt.by] = "done"
    BY <1>1 DEF IInv, RequestsKnow, RequestKnows, NoAnswer, Recorded
  <1>3. receipt.response # "order"
    BY <1>1 DEF Recorded
  <1> QED BY <1>1, <1>2, <1>3, ToldIInv DEF Replay

LEMMA ReconcileIInv ==
  ASSUME IInv, NEW q \in Requests, Reconcile(q)
  PROVE  IInv'
  <1>1. CASE order.body = body[q]
    <2>1. order # NoOrder
      BY <1>1, PortalAssumption DEF IInv, Reconcile, RequestsKnow, RequestKnows, NoOrder
    <2>2. order.by \in Requests
      BY <2>1 DEF IInv, OrderIsOwned
    <2> QED BY <1>1, <2>1, <2>2, ToldIInv DEF Reconcile, Recorded
  <1>2. CASE order.body # body[q]
    BY <1>2, RefusedIInv DEF Reconcile
  <1> QED BY <1>1, <1>2

LEMMA ClaimIInv ==
  ASSUME IInv, NEW q \in Requests, Claim(q)
  PROVE  IInv'
  <1>1. CASE Refuse(q)
    BY <1>1, RefusedIInv DEF Refuse
  <1>2. CASE MayReconcile(q)
    BY <1>2, OnwardsIInv DEF MayReconcile
  <1> QED BY <1>1, <1>2, ArriveIInv, CleanupIInv, TakeIInv, DropSpentIInv, ReplayIInv,
             ReconcileIInv DEF Claim

-----------------------------------------------------------------------------
(* Execution.                                                              *)

LEMMA PerformedIInv ==
  ASSUME IInv, NEW q \in Requests,
         Perform(q) \/ PlaceOrder(q) \/ FindOrder(q) \/ Reject(q)
  PROVE  IInv'
  <1>1. /\ pc[q] = "claimed"
        /\ UNCHANGED <<clock, receipt, body, now, doomed, answer, recorded>>
    BY DEF Perform, PlaceOrder, FindOrder, Reject
  <1>2. Goes(q, "performed")
    BY DEF Perform, PlaceOrder, FindOrder, Reject, Performed
  <1>3. /\ pc' \in [Requests -> Stage]
        /\ pc'[q] = "performed"
        /\ \A p \in Requests \ {q} : pc'[p] = pc[p]
    BY <1>2, GoesType DEF IInv, Stage, Executing
  <1>4. receipt.by = q /\ body[q] \in Bodies
    BY <1>1, ExecutorHolds DEF IInv, RequestsKnow, RequestKnows, Executing
  <1>5. \/ order' = order
        \/ order = NoOrder /\ order' = [by |-> q, body |-> body[q]]
    BY DEF Perform, PlaceOrder, FindOrder, Reject
  <1>6. effects' \in {effects, effects \union {q}}
    BY DEF Perform, PlaceOrder, FindOrder, Reject
  <1>7. PICK of \in Requests \union {NoOne} :
          /\ outcome' = [outcome EXCEPT ![q] = of]
          /\ body[q] \in OrderBodies /\ of # NoOne => order' # NoOrder /\ of = order'.by
    <2>1. CASE Perform(q)
      BY <2>1 DEF Perform, Performed
    <2>2. CASE PlaceOrder(q)
      BY <2>2, PortalAssumption DEF PlaceOrder, Performed, NoOrder
    <2>3. CASE FindOrder(q)
      BY <2>3 DEF FindOrder, Performed, IInv, OrderIsOwned
    <2>4. CASE Reject(q)
      BY <2>4 DEF Reject, Performed
    <2> QED BY <2>1, <2>2, <2>3, <2>4
  <1>8. TypeOK'
    BY <1>1, <1>3, <1>4, <1>5, <1>6, <1>7 DEF IInv, TypeOK, Order
  <1>9. RequestsKnow'
    BY <1>1, <1>3, <1>6, <1>7 DEF IInv, TypeOK, RequestsKnow, RequestKnows, Executing, Holds
  <1>10. ReceiptIsOwned'
    BY <1>1, <1>3 DEF IInv, ReceiptIsOwned, Executing
  <1>11. EffectKeepsTheKey'
    BY <1>1, <1>4, <1>6 DEF IInv, EffectKeepsTheKey
  <1>12. OrderIsOwned'
    BY <1>1, <1>3, <1>5 DEF IInv, OrderIsOwned
  <1>13. ToldIsTrue'
    BY <1>1, <1>3, <1>5, <1>7
    DEF IInv, TypeOK, ToldIsTrue, AnswerIsBacked, OutcomeIsOrder, Recorded
  <1> QED BY <1>8, <1>9, <1>10, <1>11, <1>12, <1>13 DEF IInv

(* What is released is the request's own claim, and it has done nothing.   *)
LEMMA ReleaseIInv ==
  ASSUME IInv, NEW q \in Requests, Release(q)
  PROVE  IInv'
  <1>1. receipt.state = "processing" /\ receipt.by = q
    BY ExecutorHolds DEF Release, Executing
  <1>2. \A p \in Requests \ {q} : pc[p] \notin Executing
    BY <1>1, ExecutorHolds
  <1>3. q \notin effects
    BY DEF IInv, RequestsKnow, RequestKnows, Release
  <1>4. receipt' = NoReceipt
    BY <1>1 DEF Release, Holds
  <1> QED BY <1>1, <1>2, <1>3, <1>4, DeletedIInv DEF Release

LEMMA RecordIInv ==
  ASSUME IInv, NEW q \in Requests, NEW response \in Response \ {"none"},
         Record(q, response)
  PROVE  IInv'
  <1>0. response \in Recorded
    BY DEF Response, Recorded
  <1>1. /\ pc[q] = "performed" /\ receipt.state = "processing" /\ receipt.by = q
        /\ receipt' = [receipt EXCEPT !.state = "completed", !.response = response,
                                      !.lease = 0, !.expires = clock + Retention]
        /\ recorded' = [recorded EXCEPT ![q] = clock]
        /\ Answered(q, response, q)
        /\ UNCHANGED <<clock, order, body, now, doomed, outcome, effects>>
    BY DEF Record, Holds, Stored
  <1>2. /\ pc' \in [Requests -> Stage]
        /\ answer' \in [Requests -> Answer]
        /\ pc'[q] = "done" /\ answer'[q] = [kind |-> response, of |-> q]
        /\ \A p \in Requests \ {q} : pc'[p] = pc[p] /\ answer'[p] = answer[p]
    BY <1>1, AnsweredType DEF IInv
  <1>3. /\ receipt' \in Receipt
        /\ receipt'.state = "completed" /\ receipt'.by = q /\ receipt'.body = receipt.body
        /\ receipt'.expires = clock + Retention /\ receipt'.response = response
    <2>1. clock + Retention \in Nat
      BY PortalAssumption DEF IInv, TypeOK
    <2> QED BY <1>1, <2>1 DEF IInv, TypeOK, Receipt
  <1>4. TypeOK'
    <2>1. clock \in 0..Horizon
      BY DEF IInv, TypeOK
    <2>2. recorded' \in [Requests -> 0..Horizon]
      BY <1>1, <2>1 DEF IInv, TypeOK
    <2> QED BY <1>1, <1>2, <1>3, <2>2 DEF IInv, TypeOK
  <1>5. recorded[q] = 0 /\ clock # 0 /\ recorded'[q] = clock
        /\ \A p \in Requests \ {q} : recorded'[p] = recorded[p]
    BY <1>1 DEF IInv, TypeOK, RequestsKnow, RequestKnows
  <1>6. \A p \in Requests \ {q} : pc[p] \notin Executing
    BY <1>1, ExecutorHolds
  <1>7. RequestsKnow'
    <2>1. \A p \in Requests : doomed[p] # q
      BY <1>5, PortalAssumption DEF IInv, TypeOK, RequestsKnow, RequestKnows
    <2>2. ASSUME NEW p \in Requests, p # q PROVE RequestKnows(p)'
      BY <1>1, <1>2, <1>5, <1>6, <2>1, <2>2
      DEF IInv, TypeOK, RequestsKnow, RequestKnows, Executing
    <2>3. RequestKnows(q)'
      BY <1>1, <1>2, <1>5, <2>1 DEF IInv, TypeOK, RequestsKnow, RequestKnows, Executing
    <2> QED BY <2>2, <2>3 DEF RequestsKnow
  <1>8. ReceiptIsOwned'
    BY <1>0, <1>1, <1>2, <1>3, <1>5 DEF IInv, ReceiptIsOwned
  <1>9. EffectKeepsTheKey'
    BY <1>1, <1>3, <1>5 DEF IInv, TypeOK, EffectKeepsTheKey
  <1>10. OrderIsOwned' /\ ToldIsTrue'
    BY <1>0, <1>1, <1>2
    DEF IInv, OrderIsOwned, ToldIsTrue, AnswerIsBacked, OutcomeIsOrder, Recorded
  <1> QED BY <1>4, <1>7, <1>8, <1>9, <1>10 DEF IInv

LEMMA ExecuteIInv ==
  ASSUME IInv, NEW q \in Requests, Execute(q)
  PROVE  IInv'
  BY PerformedIInv, ReleaseIInv, RecordIInv DEF Execute

LEMMA TickIInv ==
  ASSUME IInv, Tick
  PROVE  IInv'
  <1>1. /\ clock < Horizon /\ clock' = clock + 1
        /\ UNCHANGED <<receipt, order, pc, body, now, doomed, outcome, answer, effects, recorded>>
    BY DEF Tick, requestVars
  <1>2. TypeOK'
    BY <1>1, PortalAssumption DEF IInv, TypeOK
  <1>3. RequestsKnow'
    BY <1>1, PortalAssumption DEF IInv, TypeOK, RequestsKnow, RequestKnows, Holds
  <1>4. EffectKeepsTheKey'
    BY <1>1, PortalAssumption DEF IInv, TypeOK, EffectKeepsTheKey
  <1>5. ReceiptIsOwned' /\ OrderIsOwned' /\ ToldIsTrue'
    BY <1>1 DEF IInv, ReceiptIsOwned, OrderIsOwned, ToldIsTrue, AnswerIsBacked, OutcomeIsOrder
  <1> QED BY <1>2, <1>3, <1>4, <1>5 DEF IInv

(* Every step keeps the invariant.                                         *)
LEMMA NextIInv == IInv /\ [Next]_vars => IInv'
  <1> SUFFICES ASSUME IInv, [Next]_vars PROVE IInv'
    OBVIOUS
  <1>1. ASSUME NEW q \in Requests, Break(q) PROVE IInv'
    BY <1>1, RefusedIInv DEF Break
  <1>2. CASE UNCHANGED vars
    BY <1>2 DEF vars, requestVars, IInv, TypeOK, RequestsKnow, RequestKnows, Holds,
       ReceiptIsOwned, EffectKeepsTheKey, OrderIsOwned, ToldIsTrue, AnswerIsBacked,
       OutcomeIsOrder
  <1> QED BY <1>1, <1>2, ClaimIInv, ExecuteIInv, TickIInv DEF Next

-----------------------------------------------------------------------------
(* IInv is an invariant of the requests under a key.                       *)
THEOREM Invariance == Spec => []IInv
  BY InitIInv, NextIInv, PTL DEF Spec

(* The receipt, the order, the requests and their history keep their types.*)
THEOREM PortalTypes == Spec => []TypeOK
  <1>1. IInv => TypeOK
    BY DEF IInv
  <1> QED BY <1>1, Invariance, PTL

(* No two requests execute under a key at the same time.                   *)
THEOREM ExecutesAlone == Spec => []OneExecutor
  <1>1. IInv => OneExecutor
    BY ExecutorHolds DEF OneExecutor
  <1> QED BY <1>1, Invariance, PTL

(* An effect keeps its key until its response was retained.                *)
THEOREM EffectIsKept == Spec => []EffectKeepsTheKey
  <1>1. IInv => EffectKeepsTheKey
    BY DEF IInv
  <1> QED BY <1>1, Invariance, PTL

(* What clients are told under a key fits together.                        *)
THEOREM ClientsAgree == Spec => []AnswersAgree
  <1>1. ASSUME IInv PROVE AnswersAgree
    <2> SUFFICES ASSUME NEW p \in Requests, NEW q \in Requests,
                        answer[p].kind \in Told, answer[q].kind \in Told
                 PROVE  LET a == answer[p] b == answer[q]
                            effect(x) == IF x.kind = "order" THEN x.of ELSE outcome[x.of]
                        IN  /\ body[a.of] = body[p]
                            /\ a.of = b.of /\ "order" \notin {a.kind, b.kind}
                                 => a.kind = b.kind
                            /\ body[p] = body[q] /\ body[p] \in OrderBodies
                                 /\ effect(a) # NoOne /\ effect(b) # NoOne
                                 => effect(a) = effect(b)
      BY DEF AnswersAgree
    <2>1. \A r \in {p, q} :
            /\ answer[r].of \in Requests
            /\ body[answer[r].of] = body[r]
            /\ answer[r].kind = "order" => answer[r].of = order.by
            /\ answer[r].kind # "order" => answer[answer[r].of] = answer[r]
      BY <1>1 DEF IInv, ToldIsTrue, AnswerIsBacked, OrderIsOwned, Told, Recorded
    <2>2. \A r \in Requests : body[r] \in OrderBodies /\ outcome[r] # NoOne =>
                                outcome[r] = order.by
      BY <1>1 DEF IInv, ToldIsTrue, OutcomeIsOrder
    <2> QED BY <2>1, <2>2
  <1> QED BY <1>1, Invariance, PTL
=============================================================================
