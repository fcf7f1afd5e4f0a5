------------------------ MODULE RunLifecycleProofs --------------------------
(***************************************************************************)
(* Theorems about RunLifecycle, for any runs, processes and number of      *)
(* attempts.  IInv is the inductive invariant: the history `executed' is   *)
(* tied to the status (a run that is absent or queued was never executed)  *)
(* and to the sessions (one that talks to a provider executes its run), so *)
(* that the claim and the insert can only be a run's first execution.      *)
(***************************************************************************)
EXTENDS RunLifecycle, TLAPS

Errors == {"none", "canceled"} \cup Failures

Session == [pc : Pcs, run : Runs \cup {NoRun}, loaded : Row,
            attempt : 0..MaxAttempts]

NotYetExecuted ==
  \A r \in Runs : row[r].status \in {"none", "queued"} => executed[r] = 0

SessionsExecute ==
  \A s \in Sessions :
    /\ sess[s].pc # "idle" => sess[s].run \in Runs
    /\ sess[s].pc \in {"calling", "retrying"} => executed[sess[s].run] = 1

IInv ==
  /\ TypeOK
  /\ AtMostOneExecution
  /\ NotYetExecuted
  /\ SessionsExecute
  /\ NoManufacturedSuccess

-----------------------------------------------------------------------------
(* Lemmas about the writes.                                                *)

(* The UPDATE of changed columns leaves a row in the table.                *)
LEMMA FlushType ==
  ASSUME NEW db \in Row, NEW l \in Row, NEW n \in Row
  PROVE  Flush(db, l, n) \in Row
  BY DEF Flush, Column, Row

(* Every column of a flushed row is the database's or the session's.       *)
LEMMA FlushColumns ==
  ASSUME NEW db \in Row, NEW l \in Row, NEW n \in Row
  PROVE  /\ Flush(db, l, n).status =
              IF n.status = l.status THEN db.status ELSE n.status
         /\ Flush(db, l, n).result =
              IF n.result = l.result THEN db.result ELSE n.result
  BY DEF Flush, Column, Row

(* Closing a copy in memory keeps it a row.                                *)
LEMMA CloseType ==
  ASSUME NEW r, NEW l \in Row, NEW st \in Statuses, NEW e \in Errors
  PROVE  /\ Close(r, l, st, e) \in Row
         /\ Close(r, l, st, e).status = st
         /\ Close(r, l, st, e).result = l.result
  <1>1. Scheduled(r) \in Callback
    BY DEF Scheduled, Callback
  <1>2. (r \in TtlRuns) \in BOOLEAN
    OBVIOUS
  <1> QED BY <1>1, <1>2 DEF Close, Row, Errors

(* The three terminal writes, and what each says of status and result.     *)
LEMMA MarkTypes ==
  ASSUME NEW r, NEW l \in Row
  PROVE  /\ MarkSucceeded(r, l) \in Row
         /\ MarkSucceeded(r, l).status = "succeeded"
         /\ MarkCanceled(r, l) \in Row
         /\ MarkCanceled(r, l).status = "canceled"
         /\ MarkCanceled(r, l).result = l.result
         /\ \A e \in Errors : /\ MarkFailed(r, l, e) \in Row
                              /\ MarkFailed(r, l, e).status = "failed"
                              /\ MarkFailed(r, l, e).result = l.result
  <1>1. /\ Close(r, l, "succeeded", "none") \in Row
        /\ Close(r, l, "succeeded", "none").status = "succeeded"
    BY CloseType DEF Statuses, Terminal, Errors
  <1>2. /\ Close(r, l, "canceled", "canceled") \in Row
        /\ Close(r, l, "canceled", "canceled").status = "canceled"
        /\ Close(r, l, "canceled", "canceled").result = l.result
    BY CloseType DEF Statuses, Terminal, Errors
  <1>3. MarkSucceeded(r, l) \in Row /\ MarkSucceeded(r, l).status = "succeeded"
    BY <1>1 DEF MarkSucceeded, Row
  <1>4. /\ MarkCanceled(r, l) \in Row
        /\ MarkCanceled(r, l).status = "canceled"
        /\ MarkCanceled(r, l).result = l.result
    BY <1>2 DEF MarkCanceled, Row
  <1>5. \A e \in Errors : /\ MarkFailed(r, l, e) \in Row
                          /\ MarkFailed(r, l, e).status = "failed"
                          /\ MarkFailed(r, l, e).result = l.result
    BY CloseType DEF MarkFailed, Statuses, Terminal
  <1> QED BY <1>3, <1>4, <1>5

(* A row no run has yet, and the row create_run inserts.                   *)
LEMMA NewRowType ==
  ASSUME NEW r
  PROVE  /\ NoRow \in Row
         /\ NewRow(r) \in Row
         /\ NewRow(r).status \in {"queued", "running"}
         /\ r \notin QueueRuns => NewRow(r).status = "running"
         /\ NewRow(r).result = FALSE
  <1>1. NoRow \in Row
    BY DEF NoRow, Row, Statuses, Callback
  <1>2. (r \in QueueRuns) \in BOOLEAN
    OBVIOUS
  <1> QED BY <1>1, <1>2 DEF NewRow, NoRow, Row, Statuses, Callback

-----------------------------------------------------------------------------
(* What a flushed write and a change of one session preserve.              *)

\* The columns a write may change: a status it sets is terminal, and it
\* shows a success or a result only for an executed run.
Closing(r, l, n) ==
  /\ n.status = l.status \/ n.status \in Terminal
  /\ n.status # l.status /\ n.status = "succeeded" => executed[r] = 1
  /\ n.result # l.result /\ n.result => executed[r] = 1

RowsKept ==
  /\ row' \in [Runs -> Row]
  /\ NotYetExecuted'
  /\ NoManufacturedSuccess'
  /\ \A q \in Runs : row[q].status \in Terminal => row'[q].status \in Terminal

SessionsKept ==
  /\ sess' \in [Sessions -> Session]
  /\ SessionsExecute'

(* A write that is Closing keeps the row part of IInv.                     *)
LEMMA WriteKeepsRows ==
  ASSUME IInv, NEW r \in Runs, NEW l \in Row, NEW n \in Row,
         Closing(r, l, n), Write(r, l, n), executed' = executed
  PROVE  RowsKept
  <1> DEFINE f == Flush(row[r], l, n)
  <1>1. row \in [Runs -> Row]
    BY DEF IInv, TypeOK
  <1>2. /\ f \in Row
        /\ f.status = IF n.status = l.status THEN row[r].status ELSE n.status
        /\ f.result = IF n.result = l.result THEN row[r].result ELSE n.result
    BY <1>1, FlushType, FlushColumns
  <1>3. row' = [row EXCEPT ![r] = f]
    BY DEF Write
  <1> HIDE DEF f
  <1>4. \A q \in Runs : row'[q] = IF q = r THEN f ELSE row[q]
    BY <1>1, <1>3
  <1>5. row' \in [Runs -> Row]
    BY <1>1, <1>2, <1>3
  <1>6. NotYetExecuted'
    BY <1>2, <1>4 DEF NotYetExecuted, IInv, Closing, Terminal
  <1>7. NoManufacturedSuccess'
    <2> SUFFICES ASSUME NEW q \in Runs,
                        row'[q].status = "succeeded" \/ row'[q].result
                 PROVE  executed[q] = 1
      BY DEF NoManufacturedSuccess
    <2>1. CASE q # r
      BY <2>1, <1>4 DEF IInv, NoManufacturedSuccess
    <2>2. CASE q = r
      BY <2>2, <1>2, <1>4 DEF IInv, NoManufacturedSuccess, Closing
    <2> QED BY <2>1, <2>2
  <1>8. \A q \in Runs : row[q].status \in Terminal
                          => row'[q].status \in Terminal
    BY <1>2, <1>4 DEF Closing
  <1> QED BY <1>5, <1>6, <1>7, <1>8 DEF RowsKept

(* So does a step that leaves the rows alone.                              *)
LEMMA SameRowsKept ==
  ASSUME IInv, UNCHANGED <<row, executed>>
  PROVE  RowsKept
  BY DEF RowsKept, IInv, TypeOK, NotYetExecuted, NoManufacturedSuccess

(* A session that ends, or that does not move, keeps the session part.     *)
LEMMA LeaveKeepsSessions ==
  ASSUME IInv, NEW s \in Sessions, Leave(s), executed' = executed
  PROVE  SessionsKept
  <1>1. Idle \in Session
    <2>1. NoRow \in Row
      BY NewRowType
    <2> QED BY <2>1, ConstantsAssumption DEF Idle, Session, Pcs, ConstantsAssumption
  <1>2. sess \in [Sessions -> Session]
    BY DEF IInv, TypeOK, Session
  <1>3. sess' \in [Sessions -> Session]
    BY <1>1, <1>2 DEF Leave
  <1>4. SessionsExecute'
    BY <1>2 DEF IInv, SessionsExecute, Leave, Idle
  <1> QED BY <1>3, <1>4 DEF SessionsKept

LEMMA SameSessionsKept ==
  ASSUME IInv, UNCHANGED <<sess, executed>>
  PROVE  SessionsKept
  BY DEF SessionsKept, IInv, TypeOK, Session, SessionsExecute

(* So does one that moves on, if it only talks to a provider for a run     *)
(* that counts as executed.                                                *)
LEMMA BecomeKeepsSessions ==
  ASSUME IInv, NEW s \in Sessions, NEW pc \in Pcs, NEW r \in Runs,
         NEW l \in Row, NEW k \in 0..MaxAttempts,
         Become(s, pc, r, l, k),
         executed' \in [Runs -> Nat],
         \A q \in Runs : executed[q] = 1 => executed'[q] = 1,
         pc \in {"calling", "retrying"} => executed'[r] = 1
  PROVE  SessionsKept
  <1>1. sess \in [Sessions -> Session]
    BY DEF IInv, TypeOK, Session
  <1>2. [pc |-> pc, run |-> r, loaded |-> l, attempt |-> k] \in Session
    BY DEF Session
  <1>3. sess' \in [Sessions -> Session]
    BY <1>1, <1>2 DEF Become
  <1>4. SessionsExecute'
    BY <1>1 DEF IInv, SessionsExecute, Become
  <1> QED BY <1>3, <1>4 DEF SessionsKept

-----------------------------------------------------------------------------
(* Every action keeps rows, sessions, the history and the clocks.          *)

HistoryKept ==
  /\ executed' \in [Runs -> Nat]
  /\ AtMostOneExecution'
  /\ age' \in [Runs -> 0..AgeAutoFail]
  /\ eligible' \in [Runs -> BOOLEAN]

Kept == RowsKept /\ SessionsKept /\ HistoryKept

(* Only the insert and the claim touch more than the rows and a session.   *)
LEMMA SameHistoryKept ==
  ASSUME IInv, UNCHANGED <<age, eligible, executed>>
  PROVE  HistoryKept
  BY DEF HistoryKept, IInv, TypeOK, AtMostOneExecution

(* An insert or a claim replaces the row of an absent or queued run.       *)
LEMMA FirstRowKept ==
  ASSUME IInv, NEW r \in Runs, NEW n \in Row, NEW d \in {0, 1},
         row[r].status \in {"none", "queued"},
         row' = [row EXCEPT ![r] = n],
         executed' = [executed EXCEPT ![r] = @ + d],
         n.status # "succeeded", ~n.result,
         n.status \in {"none", "queued"} => d = 0
  PROVE  /\ RowsKept
         /\ executed' \in [Runs -> Nat]
         /\ AtMostOneExecution'
         /\ executed'[r] = d
         /\ \A q \in Runs : executed[q] = 1 => executed'[q] = 1
  <1>1. /\ row \in [Runs -> Row] /\ executed \in [Runs -> Nat]
        /\ executed[r] = 0
    BY DEF IInv, TypeOK, NotYetExecuted
  <1>2. /\ \A q \in Runs : row'[q] = IF q = r THEN n ELSE row[q]
        /\ \A q \in Runs : executed'[q] = IF q = r THEN d ELSE executed[q]
        /\ row' \in [Runs -> Row] /\ executed' \in [Runs -> Nat]
    BY <1>1
  <1>3. NotYetExecuted'
    BY <1>1, <1>2 DEF NotYetExecuted, IInv
  <1>4. NoManufacturedSuccess'
    BY <1>1, <1>2 DEF NoManufacturedSuccess, IInv
  <1>5. AtMostOneExecution'
    BY <1>1, <1>2 DEF AtMostOneExecution, IInv
  <1>6. \A q \in Runs : row[q].status \in Terminal
                          => row'[q].status \in Terminal
    BY <1>1, <1>2 DEF Terminal
  <1> QED BY <1>1, <1>2, <1>3, <1>4, <1>5, <1>6 DEF RowsKept

LEMMA ApiStepKept ==
  ASSUME IInv, NEW a \in Apis, ApiStep(a)
  PROVE  Kept
  <1> DEFINE r == sess[a].run
  <1>s. a \in Sessions /\ executed \in [Runs -> Nat]
    BY DEF Sessions, Executors, IInv, TypeOK
  <1>z. NoRow \in Row /\ 0 \in 0..MaxAttempts /\ 1 \in 0..MaxAttempts
    <2>1. NoRow \in Row
      BY NewRowType
    <2> QED BY <2>1, ConstantsAssumption DEF ConstantsAssumption
  <1>e. \A q \in Runs : executed = [executed EXCEPT ![q] = @ + 0]
    BY <1>s
  <1>1. CASE \E q \in Runs : Admit(a, q)
    <2>1. PICK q \in Runs : Admit(a, q)
      BY <1>1
    <2>2. RowsKept /\ HistoryKept
      BY <2>1, SameRowsKept, SameHistoryKept DEF Admit
    <2>3. SessionsKept
      <3>1. Become(a, "admitted", q, NoRow, 0) /\ executed' = executed
        BY <2>1 DEF Admit
      <3>2. "admitted" \in Pcs /\ "admitted" \notin {"calling", "retrying"}
        BY DEF Pcs
      <3> HIDE DEF r
      <3> QED BY <1>s, <1>z, <3>1, <3>2, BecomeKeepsSessions
    <2> QED BY <2>2, <2>3 DEF Kept
  <1>2. CASE CreateConflict(a)
    BY <1>2, <1>s, SameRowsKept, SameHistoryKept, LeaveKeepsSessions
       DEF CreateConflict, Kept
  <1>3. ASSUME sess[a].pc = "admitted" PROVE r \in Runs
    BY <1>3, <1>s DEF IInv, SessionsExecute
  <1>4. CASE CreateQueued(a)
    <2>1. r \in Runs
      BY <1>3, <1>4 DEF CreateQueued
    <2>2. RowsKept
      <3>1. /\ row' = [row EXCEPT ![r] = NewRow(r)]
            /\ executed' = executed
            /\ row[r].status \in {"none", "queued"}
        BY <1>4 DEF CreateQueued
      <3>2. NewRow(r) \in Row /\ NewRow(r).status # "succeeded" /\ ~NewRow(r).result
        BY NewRowType
      <3> HIDE DEF r
      <3> QED BY <1>e, <2>1, <3>1, <3>2, FirstRowKept
    <2>3. HistoryKept
      BY <1>4 DEF CreateQueued, HistoryKept, IInv, TypeOK, AtMostOneExecution
    <2> QED BY <2>2, <2>3, <1>4, <1>s, LeaveKeepsSessions
            DEF CreateQueued, Kept
  <1>5. CASE CreateInline(a)
    <2>1. r \in Runs
      BY <1>3, <1>5 DEF CreateInline
    <2>2. NewRow(r) \in Row /\ NewRow(r).status = "running" /\ ~NewRow(r).result
      BY <1>5, NewRowType DEF CreateInline
    <2>3. /\ RowsKept
          /\ executed' \in [Runs -> Nat]
          /\ AtMostOneExecution'
          /\ executed'[r] = 1
          /\ \A q \in Runs : executed[q] = 1 => executed'[q] = 1
      <3>1. /\ row' = [row EXCEPT ![r] = NewRow(r)]
            /\ executed' = [executed EXCEPT ![r] = @ + 1]
            /\ row[r].status \in {"none", "queued"}
        BY <1>5 DEF CreateInline
      <3> HIDE DEF r
      <3> QED BY <2>1, <2>2, <3>1, FirstRowKept
    <2>4. HistoryKept
      BY <1>5, <2>3 DEF CreateInline, HistoryKept, IInv, TypeOK
    <2>5. SessionsKept
      <3>1. Become(a, "calling", r, NewRow(r), 1)
        BY <1>5 DEF CreateInline
      <3>2. "calling" \in Pcs
        BY DEF Pcs
      <3> HIDE DEF r
      <3> QED BY <1>s, <1>z, <2>1, <2>2, <2>3, <3>1, <3>2, BecomeKeepsSessions
    <2> QED BY <2>3, <2>4, <2>5 DEF Kept
  <1>6. CASE CreateFailed(a)
    <2>1. r \in Runs
      BY <1>3, <1>6 DEF CreateFailed
    <2>2. /\ MarkFailed(r, NewRow(r), "provider_failed") \in Row
          /\ MarkFailed(r, NewRow(r), "provider_failed").status = "failed"
          /\ ~MarkFailed(r, NewRow(r), "provider_failed").result
      <3>1. NewRow(r) \in Row /\ NewRow(r).result = FALSE
        BY NewRowType
      <3>2. "provider_failed" \in Errors
        BY DEF Errors, Failures
      <3> HIDE DEF r
      <3> QED BY <3>1, <3>2, MarkTypes
    <2>3. RowsKept
      <3>1. /\ row' = [row EXCEPT ![r] = MarkFailed(r, NewRow(r), "provider_failed")]
            /\ executed' = executed
            /\ row[r].status \in {"none", "queued"}
        BY <1>6 DEF CreateFailed
      <3> HIDE DEF r
      <3> QED BY <1>e, <2>1, <2>2, <3>1, FirstRowKept
    <2> QED BY <2>3, <1>6, <1>s, SameHistoryKept, LeaveKeepsSessions
            DEF CreateFailed, Kept
  <1> QED BY <1>1, <1>2, <1>4, <1>5, <1>6 DEF ApiStep

LEMMA ClaimStepKept ==
  ASSUME IInv, NEW w \in Workers, NEW r \in Runs, ClaimStep(w, r)
  PROVE  Kept
  <1>s. /\ w \in Sessions /\ executed \in [Runs -> Nat]
        /\ row[r] \in Row /\ 1 \in 0..MaxAttempts /\ "calling" \in Pcs
    BY ConstantsAssumption
       DEF ConstantsAssumption, Sessions, Executors, IInv, TypeOK, Pcs
  <1>q. row[r].status = "queued" /\ executed[r] = 0 /\ ~row[r].result
    <2>1. row[r].status = "queued"
      BY DEF ClaimStep, ClaimAndCall, ClaimAndFail, ClaimAndDefer, Claimable
    <2> QED BY <2>1, <1>s DEF IInv, NotYetExecuted, NoManufacturedSuccess, Row
  <1>c. /\ Claimed(r) \in Row
        /\ Claimed(r).status = "running"
        /\ ~Claimed(r).result
    BY <1>s, <1>q DEF Claimed, Row, Statuses
  <1>a. [age EXCEPT ![r] = 0] \in [Runs -> 0..AgeAutoFail]
    BY DEF IInv, TypeOK, AgeAutoFail
  <1>1. CASE ClaimAndCall(w, r)
    <2>1. /\ RowsKept
          /\ executed' \in [Runs -> Nat]
          /\ AtMostOneExecution'
          /\ executed'[r] = 1
          /\ \A q \in Runs : executed[q] = 1 => executed'[q] = 1
      <3>1. /\ row' = [row EXCEPT ![r] = Claimed(r)]
            /\ executed' = [executed EXCEPT ![r] = @ + 1]
        BY <1>1 DEF ClaimAndCall
      <3> QED BY <1>q, <1>c, <3>1, FirstRowKept
    <2>2. HistoryKept
      BY <1>1, <1>a, <2>1 DEF ClaimAndCall, HistoryKept, IInv, TypeOK
    <2>3. SessionsKept
      <3>1. Become(w, "calling", r, Claimed(r), 1)
        BY <1>1 DEF ClaimAndCall
      <3> QED BY <1>s, <1>c, <2>1, <3>1, BecomeKeepsSessions
    <2> QED BY <2>1, <2>2, <2>3 DEF Kept
  <1>2. CASE ClaimAndFail(w, r)
    <2> DEFINE n == MarkFailed(r, Claimed(r), "provider_failed")
    <2>1. n \in Row /\ n.status = "failed" /\ ~n.result
      BY <1>c, MarkTypes DEF Errors, Failures
    <2>2. /\ row' = [row EXCEPT ![r] = n]
          /\ executed' = [executed EXCEPT ![r] = @ + 0]
      BY <1>2, <1>s DEF ClaimAndFail
    <2>3. RowsKept
      <3> HIDE DEF n
      <3> QED BY <1>q, <2>1, <2>2, FirstRowKept
    <2>4. SessionsKept
      BY <1>2, SameSessionsKept DEF ClaimAndFail
    <2>5. HistoryKept
      BY <1>2, <1>a DEF ClaimAndFail, HistoryKept, IInv, TypeOK,
                        AtMostOneExecution
    <2> QED BY <2>3, <2>4, <2>5 DEF Kept
  <1>3. CASE ClaimAndDefer(w, r)
    BY <1>3, SameRowsKept, SameSessionsKept
       DEF ClaimAndDefer, Kept, HistoryKept, IInv, TypeOK, AtMostOneExecution
  <1> QED BY <1>1, <1>2, <1>3 DEF ClaimStep

(* A session that writes its run and ends.                                 *)
LEMMA WriteAndLeaveKept ==
  ASSUME IInv, NEW s \in Sessions, NEW n \in Row, sess[s].pc # "idle",
         Closing(sess[s].run, sess[s].loaded, n),
         Write(sess[s].run, sess[s].loaded, n),
         Leave(s), UNCHANGED <<age, eligible, executed>>
  PROVE  Kept
  <1>1. sess[s].run \in Runs /\ sess[s].loaded \in Row
    BY DEF IInv, TypeOK, SessionsExecute
  <1>2. RowsKept
    BY <1>1, WriteKeepsRows
  <1> QED BY <1>2, LeaveKeepsSessions, SameHistoryKept DEF Kept

LEMMA ExecutorStepKept ==
  ASSUME IInv, NEW p \in Executors, ExecutorStep(p)
  PROVE  Kept
  <1> DEFINE r == sess[p].run
             l == sess[p].loaded
  <1>s. /\ p \in Sessions
        /\ l \in Row /\ sess[p].attempt \in 0..MaxAttempts
        /\ sess[p].pc # "idle" => r \in Runs
        /\ sess[p].pc \in {"calling", "retrying"} => executed[r] = 1
    BY DEF Sessions, IInv, TypeOK, SessionsExecute
  <1>t. /\ MarkSucceeded(r, l) \in Row
        /\ MarkSucceeded(r, l).status = "succeeded"
        /\ MarkCanceled(r, l) \in Row
        /\ MarkCanceled(r, l).status = "canceled"
        /\ MarkCanceled(r, l).result = l.result
        /\ MarkFailed(r, l, "provider_failed") \in Row
        /\ MarkFailed(r, l, "provider_failed").status = "failed"
        /\ MarkFailed(r, l, "provider_failed").result = l.result
    <2>1. "provider_failed" \in Errors
      BY DEF Errors, Failures
    <2> HIDE DEF r, l
    <2> QED BY <1>s, <2>1, MarkTypes
  <1>1. CASE Succeed(p)
    <2>1. sess[p].pc # "idle" /\ Closing(r, l, MarkSucceeded(r, l))
      BY <1>1, <1>s, <1>t DEF Succeed, Closing, Terminal
    <2> QED BY <1>1, <1>s, <1>t, <2>1, WriteAndLeaveKept DEF Succeed
  <1>2. CASE Fail(p)
    <2>1. /\ sess[p].pc # "idle"
          /\ Closing(r, l, MarkFailed(r, l, "provider_failed"))
      BY <1>2, <1>s, <1>t DEF Fail, Closing, Terminal
    <2> QED BY <1>2, <1>s, <1>t, <2>1, WriteAndLeaveKept DEF Fail
  <1>3. CASE NextAttempt(p)
    <2>1. /\ r \in Runs /\ executed[r] = 1 /\ row[r] \in Row
          /\ sess[p].attempt + 1 \in 0..MaxAttempts /\ "retrying" \in Pcs
      BY <1>3, <1>s, ConstantsAssumption
         DEF NextAttempt, IInv, TypeOK, Pcs, ConstantsAssumption
    <2>2. SessionsKept
      <3>1. /\ Become(p, "retrying", r, row[r], sess[p].attempt + 1)
            /\ executed' = executed /\ executed \in [Runs -> Nat]
        BY <1>3 DEF NextAttempt, IInv, TypeOK
      <3> HIDE DEF r, l
      <3> QED BY <1>s, <2>1, <3>1, BecomeKeepsSessions
    <2> QED BY <1>3, <2>2, SameRowsKept, SameHistoryKept DEF NextAttempt, Kept
  <1>4. CASE StopCanceled(p)
    <2>1. sess[p].pc # "idle" /\ Closing(r, l, MarkCanceled(r, l))
      BY <1>4, <1>s, <1>t DEF StopCanceled, Closing, Terminal
    <2> QED BY <1>4, <1>s, <1>t, <2>1, WriteAndLeaveKept DEF StopCanceled
  <1>5. CASE CallAgain(p)
    <2>1. r \in Runs /\ executed[r] = 1 /\ "calling" \in Pcs
      BY <1>5, <1>s DEF CallAgain, Pcs
    <2>2. SessionsKept
      <3>1. /\ Become(p, "calling", r, l, sess[p].attempt)
            /\ executed' = executed /\ executed \in [Runs -> Nat]
        BY <1>5 DEF CallAgain, IInv, TypeOK
      <3> HIDE DEF r, l
      <3> QED BY <1>s, <2>1, <3>1, BecomeKeepsSessions
    <2> QED BY <1>5, <2>2, SameRowsKept, SameHistoryKept DEF CallAgain, Kept
  <1>6. CASE Crash(p)
    BY <1>6, <1>s, SameRowsKept, SameHistoryKept, LeaveKeepsSessions
       DEF Crash, Kept
  <1> QED BY <1>1, <1>2, <1>3, <1>4, <1>5, <1>6 DEF ExecutorStep

LEMMA LoadKept ==
  ASSUME IInv, NEW c \in Consoles, NEW r \in Runs,
         NEW op \in {"cancel", "mark", "purge"}, Load(c, op, r)
  PROVE  Kept
  <1>1. /\ c \in Sessions /\ row[r] \in Row /\ op \in Pcs
        /\ op \notin {"calling", "retrying"} /\ 0 \in 0..MaxAttempts
    BY ConstantsAssumption DEF ConstantsAssumption, Sessions, IInv, TypeOK, Pcs
  <1>2. /\ Become(c, op, r, row[r], 0)
        /\ executed' = executed /\ executed \in [Runs -> Nat]
    BY DEF Load, IInv, TypeOK
  <1>3. SessionsKept
    BY <1>1, <1>2, BecomeKeepsSessions
  <1> QED BY <1>3, SameRowsKept, SameHistoryKept DEF Load, Kept

LEMMA ConsoleStepKept ==
  ASSUME IInv, NEW c \in Consoles, ConsoleStep(c)
  PROVE  Kept
  <1> DEFINE r == sess[c].run
             l == sess[c].loaded
             purge == [l EXCEPT !.result = FALSE, !.cipher = FALSE,
                                !.purged = TRUE]
  <1>s. c \in Sessions /\ l \in Row
    BY DEF Sessions, IInv, TypeOK
  <1>1. CASE \E q \in Runs : CancelRead(c, q) \/ MarkRead(c, q) \/ PurgeRead(c, q)
    BY <1>1, LoadKept DEF CancelRead, MarkRead, PurgeRead
  <1>2. CASE CancelWrite(c)
    <2>1. CASE l.status = "queued" /\ Write(r, l, MarkCanceled(r, l))
      <3>1. /\ MarkCanceled(r, l) \in Row
            /\ Closing(r, l, MarkCanceled(r, l))
        <4> HIDE DEF r, l
        <4> QED BY <1>s, MarkTypes DEF Closing, Terminal
      <3> QED BY <1>2, <1>s, <2>1, <3>1, WriteAndLeaveKept DEF CancelWrite
    <2>2. CASE Write(r, l, [l EXCEPT !.cancel = TRUE])
      <3>1. /\ [l EXCEPT !.cancel = TRUE] \in Row
            /\ Closing(r, l, [l EXCEPT !.cancel = TRUE])
        <4> HIDE DEF r, l
        <4> QED BY <1>s DEF Closing, Row
      <3> QED BY <1>2, <1>s, <2>2, <3>1, WriteAndLeaveKept DEF CancelWrite
    <2> QED BY <1>2, <2>1, <2>2 DEF CancelWrite
  <1>3. CASE MarkWrite(c)
    <2> DEFINE n == MarkFailed(r, l, "operator_stale_running_failed")
    <2>1. n \in Row /\ Closing(r, l, n)
      <3>1. "operator_stale_running_failed" \in Errors
        BY DEF Errors, Failures
      <3> HIDE DEF r, l
      <3> QED BY <1>s, <3>1, MarkTypes DEF Closing, Terminal
    <2> QED BY <1>3, <1>s, <2>1, WriteAndLeaveKept DEF MarkWrite
  <1>4. CASE PurgeWrite(c)
    <2>1. purge \in Row /\ Closing(r, l, purge)
      <3> HIDE DEF r, l
      <3> QED BY <1>s DEF Closing, Row
    <2> QED BY <1>4, <1>s, <2>1, WriteAndLeaveKept DEF PurgeWrite
  <1>5. CASE Crash(c)
    BY <1>5, <1>s, SameRowsKept, SameHistoryKept, LeaveKeepsSessions
       DEF Crash, Kept
  <1> QED BY <1>1, <1>2, <1>3, <1>4, <1>5 DEF ConsoleStep, ConsoleEnd

LEMMA RunStepKept ==
  ASSUME IInv, NEW r \in Runs, RunStep(r)
  PROVE  Kept
  <1>t. row \in [Runs -> Row] /\ row[r] \in Row
    BY DEF IInv, TypeOK
  <1>1. CASE AutoFail(r)
    <2> DEFINE n == MarkFailed(r, row[r], "stale_running_auto_failed")
    <2>1. n \in Row /\ Closing(r, row[r], n)
      BY <1>t, MarkTypes DEF Errors, Failures, Closing, Terminal
    <2>2. RowsKept
      <3>1. Write(r, row[r], n) /\ executed' = executed
        BY <1>1 DEF AutoFail
      <3> HIDE DEF n
      <3> QED BY <1>t, <2>1, <3>1, WriteKeepsRows
    <2> QED BY <1>1, <2>2, SameSessionsKept, SameHistoryKept DEF AutoFail, Kept
  <1>2. CASE DeliverCallback(r)
    <2> PICK told \in {"pending", "delivered"} : row' = [row EXCEPT ![r].cb = told]
      BY <1>2 DEF DeliverCallback
    <2> DEFINE n == [row[r] EXCEPT !.cb = told]
    <2>1. n \in Row /\ n.status = row[r].status /\ n.result = row[r].result
      BY <1>t DEF Row, Callback
    <2>2. row' = [row EXCEPT ![r] = n] /\ executed' = executed
      BY <1>2 DEF DeliverCallback
    <2>3. RowsKept
      <3> HIDE DEF n
      <3> QED BY <1>t, <2>1, <2>2
              DEF RowsKept, IInv, NotYetExecuted, NoManufacturedSuccess
    <2>4. HistoryKept
      BY <1>2, <1>t DEF DeliverCallback, HistoryKept, IInv, TypeOK, Row,
                        AtMostOneExecution
    <2> QED BY <1>2, <2>3, <2>4, SameSessionsKept DEF DeliverCallback, Kept
  <1>3. CASE GrowOld(r)
    <2>1. HistoryKept
      BY <1>3 DEF GrowOld, HistoryKept, IInv, TypeOK, AgeAutoFail,
                  AtMostOneExecution
    <2> QED BY <1>3, <2>1, SameRowsKept, SameSessionsKept DEF GrowOld, Kept
  <1>4. CASE WindowOpens(r)
    <2>1. HistoryKept
      BY <1>4 DEF WindowOpens, HistoryKept, IInv, TypeOK, AtMostOneExecution
    <2> QED BY <1>4, <2>1, SameRowsKept, SameSessionsKept DEF WindowOpens, Kept
  <1> QED BY <1>1, <1>2, <1>3, <1>4 DEF RunStep

-----------------------------------------------------------------------------
LEMMA InitIInv == Init => IInv
  <1> SUFFICES ASSUME Init PROVE IInv
    OBVIOUS
  <1>1. Idle \in Session /\ NoRow \in Row
    <2>1. NoRow \in Row
      BY NewRowType
    <2> QED BY <2>1, ConstantsAssumption
            DEF Idle, Session, Pcs, ConstantsAssumption
  <1>2. TypeOK
    BY <1>1 DEF Init, TypeOK, Session, AgeAutoFail, Statuses
  <1> QED BY <1>2 DEF Init, IInv, AtMostOneExecution, NotYetExecuted,
                      SessionsExecute, NoManufacturedSuccess, Idle, NoRow

(* One step keeps the invariant, and keeps a closed run closed.            *)
LEMMA StepKept == IInv /\ [Next]_vars => Kept
  <1> SUFFICES ASSUME IInv, [Next]_vars PROVE Kept
    OBVIOUS
  <1>1. CASE UNCHANGED vars
    BY <1>1, SameRowsKept, SameSessionsKept, SameHistoryKept DEF vars, Kept
  <1>2. CASE \E a \in Apis : ApiStep(a)
    BY <1>2, ApiStepKept
  <1>3. CASE \E w \in Workers, r \in Runs : ClaimStep(w, r)
    BY <1>3, ClaimStepKept
  <1>4. CASE \E p \in Executors : ExecutorStep(p)
    BY <1>4, ExecutorStepKept
  <1>5. CASE \E c \in Consoles : ConsoleStep(c)
    BY <1>5, ConsoleStepKept
  <1>6. CASE \E r \in Runs : RunStep(r)
    BY <1>6, RunStepKept
  <1> QED BY <1>1, <1>2, <1>3, <1>4, <1>5, <1>6 DEF Next

LEMMA KeptIsIInv == Kept => IInv'
  BY DEF Kept, RowsKept, SessionsKept, HistoryKept, IInv, TypeOK, Session

THEOREM Invariance == Spec => []IInv
  <1>1. IInv /\ [Next]_vars => IInv'
    BY StepKept, KeptIsIInv
  <1> QED BY <1>1, InitIInv, PTL DEF Spec

(* Rows, sessions and history keep their types in every behaviour.         *)
THEOREM TypeCorrect == Spec => []TypeOK
  <1>1. IInv => TypeOK
    BY DEF IInv
  <1> QED BY <1>1, Invariance, PTL

(* No idempotency key is ever executed twice (run creation, queue claim,   *)
(* deferral, repair and crash taken together).                             *)
THEOREM ExecutedAtMostOnce == Spec => []AtMostOneExecution
  <1>1. IInv => AtMostOneExecution
    BY DEF IInv
  <1> QED BY <1>1, Invariance, PTL

(* Only an executed run succeeds or holds a result, whatever the writers   *)
(* racing on its row.                                                      *)
THEOREM SuccessIsExecuted == Spec => []NoManufacturedSuccess
  <1>1. IInv => NoManufacturedSuccess
    BY DEF IInv
  <1> QED BY <1>1, Invariance, PTL

(* A run that was closed is never queued or started again.                 *)
THEOREM ClosedForGood == Spec => ClosedStaysClosed
  <1>1. IInv /\ [Next]_vars
          => [\A r \in Runs : row[r].status \in Terminal
                                => row'[r].status \in Terminal]_vars
    BY StepKept DEF Kept, RowsKept
  <1> QED BY <1>1, Invariance, PTL DEF Spec, ClosedStaysClosed

-----------------------------------------------------------------------------
(* The contract.  A step moves the status of a run only along Moves, which *)
(* needs one more invariant: a session that may yet set a status has a row *)
(* (a purge leaves the status alone).                                      *)

SessionsHaveRows ==
  \A s \in Sessions :
    sess[s].pc \notin {"idle", "admitted", "purge"} =>
      row[sess[s].run].status # "none"

CInv == IInv /\ SessionsHaveRows

Moves(r) ==
  /\ row[r].status # "none" => row'[r].status # "none"
  /\ row[r].status = "none" =>
       row'[r].status \in {"none", "queued", "running", "failed"}
  /\ \/ executed'[r] = executed[r]
     \/ row'[r].status = "running" /\ executed[r] = 0 /\ executed'[r] = 1

AllMove == \A r \in Runs : Moves(r)

(* A flushed write over an existing row is a move; so is one that leaves   *)
(* the status alone.                                                       *)
LEMMA WriteMoves ==
  ASSUME IInv, NEW r \in Runs, NEW l \in Row, NEW n \in Row,
         row[r].status # "none" \/ n.status = l.status, Closing(r, l, n),
         Write(r, l, n), executed' = executed
  PROVE  AllMove
  <1> DEFINE f == Flush(row[r], l, n)
  <1>1. row \in [Runs -> Row]
    BY DEF IInv, TypeOK
  <1>2. \/ f.status = row[r].status
        \/ row[r].status # "none" /\ f.status # "none"
    BY <1>1, FlushColumns DEF Closing, Terminal
  <1>3. row' = [row EXCEPT ![r] = f]
    BY DEF Write
  <1> HIDE DEF f
  <1> QED BY <1>1, <1>2, <1>3 DEF AllMove, Moves

(* So is a step that leaves rows and history alone.                        *)
LEMMA StillMoves ==
  ASSUME UNCHANGED <<row, executed>> PROVE AllMove
  BY DEF AllMove, Moves

(* A session keeps its row when rows are only moved.                       *)
LEMMA LeaveHasRows ==
  ASSUME CInv, AllMove, NEW s \in Sessions, Leave(s)
  PROVE  SessionsHaveRows'
  BY DEF CInv, IInv, TypeOK, SessionsExecute, SessionsHaveRows, AllMove,
         Moves, Leave, Idle

LEMMA SameHasRows ==
  ASSUME CInv, AllMove, sess' = sess
  PROVE  SessionsHaveRows'
  BY DEF CInv, IInv, SessionsExecute, SessionsHaveRows, AllMove, Moves

LEMMA BecomeHasRows ==
  ASSUME CInv, AllMove, NEW s \in Sessions, NEW pc, NEW r \in Runs, NEW l,
         NEW k, Become(s, pc, r, l, k),
         pc \in {"admitted", "purge"} \/ row'[r].status # "none"
  PROVE  SessionsHaveRows'
  BY DEF CInv, IInv, TypeOK, SessionsExecute, SessionsHaveRows, AllMove,
         Moves, Become

LEMMA ApiStepMoves ==
  ASSUME CInv, NEW a \in Apis, ApiStep(a)
  PROVE  AllMove /\ SessionsHaveRows'
  <1> DEFINE r == sess[a].run
  <1>s. /\ a \in Sessions /\ row \in [Runs -> Row] /\ executed \in [Runs -> Nat]
        /\ sess[a].pc = "admitted" => r \in Runs
    BY DEF Sessions, Executors, CInv, IInv, TypeOK, SessionsExecute
  <1>1. CASE \E q \in Runs : Admit(a, q)
    <2>1. PICK q \in Runs : Admit(a, q)
      BY <1>1
    <2>2. AllMove /\ Become(a, "admitted", q, NoRow, 0)
      BY <2>1, StillMoves DEF Admit
    <2> QED BY <1>s, <2>2, BecomeHasRows
  <1>2. CASE CreateConflict(a)
    BY <1>2, <1>s, StillMoves, LeaveHasRows DEF CreateConflict
  <1>3. CASE CreateQueued(a)
    <2>1. r \in Runs /\ NewRow(r).status \in {"queued", "running"}
      BY <1>3, <1>s, NewRowType DEF CreateQueued
    <2>2. AllMove
      BY <1>3, <1>s, <2>1 DEF CreateQueued, AllMove, Moves
    <2> QED BY <1>3, <1>s, <2>2, LeaveHasRows DEF CreateQueued
  <1>4. CASE CreateInline(a)
    <2>1. r \in Runs /\ NewRow(r).status = "running" /\ executed[r] = 0
      BY <1>4, <1>s, NewRowType DEF CreateInline, CInv, IInv, NotYetExecuted
    <2>2. AllMove /\ row'[r].status # "none"
      BY <1>4, <1>s, <2>1 DEF CreateInline, AllMove, Moves
    <2>3. Become(a, "calling", r, NewRow(r), 1)
      BY <1>4 DEF CreateInline
    <2> HIDE DEF r
    <2> QED BY <1>s, <2>1, <2>2, <2>3, BecomeHasRows
  <1>5. CASE CreateFailed(a)
    <2>1. /\ r \in Runs
          /\ MarkFailed(r, NewRow(r), "provider_failed").status = "failed"
      <3>1. r \in Runs /\ NewRow(r) \in Row /\ "provider_failed" \in Errors
        BY <1>5, <1>s, NewRowType DEF CreateFailed, Errors, Failures
      <3> HIDE DEF r
      <3> QED BY <3>1, MarkTypes
    <2>2. AllMove
      BY <1>5, <1>s, <2>1 DEF CreateFailed, AllMove, Moves
    <2> QED BY <1>5, <1>s, <2>2, LeaveHasRows DEF CreateFailed
  <1> QED BY <1>1, <1>2, <1>3, <1>4, <1>5 DEF ApiStep

LEMMA ClaimStepMoves ==
  ASSUME CInv, NEW w \in Workers, NEW r \in Runs, ClaimStep(w, r)
  PROVE  AllMove /\ SessionsHaveRows'
  <1>s. /\ w \in Sessions /\ row \in [Runs -> Row] /\ row[r] \in Row
        /\ executed \in [Runs -> Nat]
    BY DEF Sessions, Executors, CInv, IInv, TypeOK
  <1>c. Claimed(r) \in Row /\ Claimed(r).status = "running"
    BY <1>s DEF Claimed, Row, Statuses
  <1>1. CASE ClaimAndCall(w, r)
    <2>1. executed[r] = 0
      BY <1>1 DEF ClaimAndCall, Claimable, CInv, IInv, NotYetExecuted
    <2>2. AllMove /\ row'[r].status # "none"
      BY <1>1, <1>s, <1>c, <2>1 DEF ClaimAndCall, Claimable, AllMove, Moves
    <2> QED BY <1>1, <1>s, <2>2, BecomeHasRows DEF ClaimAndCall
  <1>2. CASE ClaimAndFail(w, r)
    <2>1. MarkFailed(r, Claimed(r), "provider_failed").status = "failed"
      BY <1>c, MarkTypes DEF Errors, Failures
    <2>2. AllMove
      BY <1>2, <1>s, <2>1 DEF ClaimAndFail, Claimable, AllMove, Moves
    <2> QED BY <1>2, <2>2, SameHasRows DEF ClaimAndFail
  <1>3. CASE ClaimAndDefer(w, r)
    BY <1>3, StillMoves, SameHasRows DEF ClaimAndDefer
  <1> QED BY <1>1, <1>2, <1>3 DEF ClaimStep

(* A session that writes its run and ends.                                 *)
LEMMA WriteAndLeaveMoves ==
  ASSUME CInv, NEW s \in Sessions, NEW n \in Row,
         sess[s].pc \notin {"idle", "admitted"},
         sess[s].pc # "purge" \/ n.status = sess[s].loaded.status,
         Closing(sess[s].run, sess[s].loaded, n),
         Write(sess[s].run, sess[s].loaded, n),
         Leave(s), executed' = executed
  PROVE  AllMove /\ SessionsHaveRows'
  <1>1. /\ sess[s].run \in Runs /\ sess[s].loaded \in Row
        /\ \/ row[sess[s].run].status # "none"
           \/ n.status = sess[s].loaded.status
    BY DEF CInv, IInv, TypeOK, SessionsExecute, SessionsHaveRows
  <1>2. AllMove
    BY <1>1, WriteMoves DEF CInv
  <1> QED BY <1>2, LeaveHasRows

(* The terminal writes are Closing for a session that executes its run.    *)
LEMMA MarksAreClosing ==
  ASSUME NEW r, NEW l \in Row, NEW e \in Failures
  PROVE  /\ MarkFailed(r, l, e) \in Row /\ Closing(r, l, MarkFailed(r, l, e))
         /\ MarkCanceled(r, l) \in Row /\ Closing(r, l, MarkCanceled(r, l))
         /\ MarkSucceeded(r, l) \in Row
         /\ executed[r] = 1 => Closing(r, l, MarkSucceeded(r, l))
  <1>1. e \in Errors
    BY DEF Errors
  <1>2. /\ MarkFailed(r, l, e) \in Row
        /\ MarkFailed(r, l, e).status = "failed"
        /\ MarkFailed(r, l, e).result = l.result
    BY <1>1, MarkTypes
  <1>3. /\ MarkCanceled(r, l) \in Row
        /\ MarkCanceled(r, l).status = "canceled"
        /\ MarkCanceled(r, l).result = l.result
        /\ MarkSucceeded(r, l) \in Row
        /\ MarkSucceeded(r, l).status = "succeeded"
    BY MarkTypes
  <1> QED BY <1>2, <1>3 DEF Closing, Terminal

LEMMA ExecutorStepMoves ==
  ASSUME CInv, NEW p \in Executors, ExecutorStep(p)
  PROVE  AllMove /\ SessionsHaveRows'
  <1> DEFINE r == sess[p].run
             l == sess[p].loaded
  <1>s. /\ p \in Sessions /\ l \in Row
        /\ sess[p].pc \in {"calling", "retrying"} =>
             r \in Runs /\ executed[r] = 1 /\ row[r].status # "none"
    BY DEF Sessions, CInv, IInv, TypeOK, SessionsExecute, SessionsHaveRows
  <1>m. /\ MarkFailed(r, l, "provider_failed") \in Row
        /\ Closing(r, l, MarkFailed(r, l, "provider_failed"))
        /\ MarkCanceled(r, l) \in Row /\ Closing(r, l, MarkCanceled(r, l))
        /\ MarkSucceeded(r, l) \in Row
        /\ executed[r] = 1 => Closing(r, l, MarkSucceeded(r, l))
    <2>1. "provider_failed" \in Failures
      BY DEF Failures
    <2> HIDE DEF r, l
    <2> QED BY <1>s, <2>1, MarksAreClosing
  <1>1. CASE Succeed(p)
    BY <1>1, <1>s, <1>m, WriteAndLeaveMoves DEF Succeed
  <1>2. CASE Fail(p)
    BY <1>2, <1>s, <1>m, WriteAndLeaveMoves DEF Fail
  <1>3. CASE NextAttempt(p)
    <2>1. AllMove
      BY <1>3, StillMoves DEF NextAttempt
    <2>2. /\ r \in Runs /\ row'[r].status # "none"
          /\ Become(p, "retrying", r, row[r], sess[p].attempt + 1)
      BY <1>3, <1>s DEF NextAttempt
    <2> HIDE DEF r
    <2> QED BY <1>s, <2>1, <2>2, BecomeHasRows
  <1>4. CASE StopCanceled(p)
    BY <1>4, <1>s, <1>m, WriteAndLeaveMoves DEF StopCanceled
  <1>5. CASE CallAgain(p)
    <2>1. AllMove
      BY <1>5, StillMoves DEF CallAgain
    <2>2. /\ r \in Runs /\ row'[r].status # "none"
          /\ Become(p, "calling", r, l, sess[p].attempt)
      BY <1>5, <1>s DEF CallAgain
    <2> HIDE DEF r, l
    <2> QED BY <1>s, <2>1, <2>2, BecomeHasRows
  <1>6. CASE Crash(p)
    BY <1>6, <1>s, StillMoves, LeaveHasRows DEF Crash
  <1> QED BY <1>1, <1>2, <1>3, <1>4, <1>5, <1>6 DEF ExecutorStep

LEMMA LoadMoves ==
  ASSUME CInv, NEW c \in Consoles, NEW r \in Runs, NEW op,
         op = "purge" \/ row[r].status # "none", Load(c, op, r)
  PROVE  AllMove /\ SessionsHaveRows'
  <1>1. /\ AllMove /\ c \in Sessions
        /\ op \in {"admitted", "purge"} \/ row'[r].status # "none"
    BY StillMoves DEF Load, Sessions
  <1>2. Become(c, op, r, row[r], 0)
    BY DEF Load
  <1> QED BY <1>1, <1>2, BecomeHasRows

LEMMA ConsoleStepMoves ==
  ASSUME CInv, NEW c \in Consoles, ConsoleStep(c)
  PROVE  AllMove /\ SessionsHaveRows'
  <1> DEFINE r == sess[c].run
             l == sess[c].loaded
             purge == [l EXCEPT !.result = FALSE, !.cipher = FALSE,
                                !.purged = TRUE]
  <1>s. c \in Sessions /\ l \in Row
    BY DEF Sessions, CInv, IInv, TypeOK
  <1>m. /\ MarkFailed(r, l, "operator_stale_running_failed") \in Row
        /\ Closing(r, l, MarkFailed(r, l, "operator_stale_running_failed"))
        /\ MarkCanceled(r, l) \in Row /\ Closing(r, l, MarkCanceled(r, l))
    <2>1. "operator_stale_running_failed" \in Failures
      BY DEF Failures
    <2> HIDE DEF r, l
    <2> QED BY <1>s, <2>1, MarksAreClosing
  <1>k. /\ purge \in Row /\ Closing(r, l, purge) /\ purge.status = l.status
        /\ [l EXCEPT !.cancel = TRUE] \in Row
        /\ Closing(r, l, [l EXCEPT !.cancel = TRUE])
    <2> HIDE DEF r, l
    <2> QED BY <1>s DEF Closing, Row
  <1>1. CASE \E q \in Runs : CancelRead(c, q)
    BY <1>1, LoadMoves DEF CancelRead
  <1>2. CASE \E q \in Runs : MarkRead(c, q)
    BY <1>2, LoadMoves DEF MarkRead
  <1>3. CASE \E q \in Runs : PurgeRead(c, q)
    BY <1>3, LoadMoves DEF PurgeRead
  <1>4. CASE CancelWrite(c)
    BY <1>4, <1>s, <1>m, <1>k, WriteAndLeaveMoves DEF CancelWrite
  <1>5. CASE MarkWrite(c)
    BY <1>5, <1>s, <1>m, WriteAndLeaveMoves DEF MarkWrite
  <1>6. CASE PurgeWrite(c)
    BY <1>6, <1>s, <1>k, WriteAndLeaveMoves DEF PurgeWrite
  <1>7. CASE Crash(c)
    BY <1>7, <1>s, StillMoves, LeaveHasRows DEF Crash
  <1> QED BY <1>1, <1>2, <1>3, <1>4, <1>5, <1>6, <1>7
          DEF ConsoleStep, ConsoleEnd

LEMMA RunStepMoves ==
  ASSUME CInv, NEW r \in Runs, RunStep(r)
  PROVE  AllMove /\ SessionsHaveRows'
  <1>t. /\ row \in [Runs -> Row] /\ row[r] \in Row
        /\ sess' = sess /\ executed' = executed
    BY DEF CInv, IInv, TypeOK, RunStep, AutoFail, DeliverCallback, GrowOld,
           WindowOpens
  <1>1. CASE AutoFail(r)
    <2>1. /\ MarkFailed(r, row[r], "stale_running_auto_failed") \in Row
          /\ Closing(r, row[r],
                     MarkFailed(r, row[r], "stale_running_auto_failed"))
      BY <1>t, MarksAreClosing DEF Failures
    <2> QED BY <1>1, <1>t, <2>1, WriteMoves, SameHasRows DEF AutoFail, CInv
  <1>2. CASE DeliverCallback(r)
    <2>1. AllMove
      BY <1>2, <1>t DEF DeliverCallback, AllMove, Moves, Terminal, Row
    <2> QED BY <1>t, <2>1, SameHasRows
  <1>3. CASE GrowOld(r) \/ WindowOpens(r)
    BY <1>3, <1>t, StillMoves, SameHasRows DEF GrowOld, WindowOpens
  <1> QED BY <1>1, <1>2, <1>3 DEF RunStep

LEMMA StepMoves == CInv /\ [Next]_vars => AllMove /\ SessionsHaveRows'
  <1> SUFFICES ASSUME CInv, [Next]_vars PROVE AllMove /\ SessionsHaveRows'
    OBVIOUS
  <1>1. CASE UNCHANGED vars
    BY <1>1, StillMoves, SameHasRows DEF vars
  <1>2. CASE \E a \in Apis : ApiStep(a)
    BY <1>2, ApiStepMoves
  <1>3. CASE \E w \in Workers, r \in Runs : ClaimStep(w, r)
    BY <1>3, ClaimStepMoves
  <1>4. CASE \E p \in Executors : ExecutorStep(p)
    BY <1>4, ExecutorStepMoves
  <1>5. CASE \E c \in Consoles : ConsoleStep(c)
    BY <1>5, ConsoleStepMoves
  <1>6. CASE \E r \in Runs : RunStep(r)
    BY <1>6, RunStepMoves
  <1> QED BY <1>1, <1>2, <1>3, <1>4, <1>5, <1>6 DEF Next

(* What polling shows of each status.                                      *)
LEMMA ShownStatus ==
  ASSUME NEW r
  PROVE  /\ row[r].status = "none" => Shown(r) = "absent"
         /\ row[r].status \in {"queued", "running"} => Shown(r) = "open"
         /\ row[r].status \in Terminal => Shown(r) = row[r].status
  BY DEF Shown, Terminal

(* A move that keeps the invariant is a step of the contract, or none.     *)
LEMMA MoveIsContractStep ==
  ASSUME CInv, Kept, AllMove, NEW r \in Runs
  PROVE  \/ Contract!Step(r)
         \/ UNCHANGED <<[q \in Runs |-> Shown(q)][r], executed[r]>>
  <1>1. /\ row[r].status \in Statuses /\ row'[r].status \in Statuses
        /\ executed[r] \in {0, 1} /\ executed'[r] \in {0, 1}
        /\ row[r].status \in {"none", "queued"} => executed[r] = 0
        /\ row'[r].status \in {"none", "queued"} => executed'[r] = 0
        /\ row'[r].status = "succeeded" => executed'[r] = 1
        /\ row[r].status \in Terminal => row'[r].status \in Terminal
        /\ Moves(r)
    <2>1. /\ row[r] \in Row /\ row'[r] \in Row
          /\ executed[r] \in Nat /\ executed'[r] \in Nat
          /\ executed[r] <= 1 /\ executed'[r] <= 1
      BY DEF CInv, IInv, TypeOK, Kept, RowsKept, HistoryKept,
             AtMostOneExecution
    <2>2. /\ row[r].status \in {"none", "queued"} => executed[r] = 0
          /\ row'[r].status \in {"none", "queued"} => executed'[r] = 0
      BY DEF CInv, IInv, NotYetExecuted, Kept, RowsKept
    <2>3. row'[r].status = "succeeded" => executed'[r] = 1
      BY DEF Kept, RowsKept, NoManufacturedSuccess
    <2>4. /\ row[r].status \in Terminal => row'[r].status \in Terminal
          /\ Moves(r)
      BY DEF Kept, RowsKept, AllMove
    <2>5. row[r].status \in Statuses /\ row'[r].status \in Statuses
      BY <2>1 DEF Row
    <2> HIDE DEF Statuses, Terminal
    <2> QED BY <2>1, <2>2, <2>3, <2>4, <2>5
  <1>2. /\ Statuses = {"none", "queued", "running"} \cup Terminal
        /\ Terminal = {"succeeded", "failed", "canceled"}
        /\ Contract!Outcomes = Terminal
    BY DEF Statuses, Terminal, Contract!Outcomes
  <1>3. /\ row[r].status = "none" => Shown(r) = "absent"
        /\ row[r].status \in {"queued", "running"} => Shown(r) = "open"
        /\ row[r].status \in Terminal => Shown(r) = row[r].status
    BY ShownStatus
  <1>4. /\ row'[r].status = "none" => Shown(r)' = "absent"
        /\ row'[r].status \in {"queued", "running"} => Shown(r)' = "open"
        /\ row'[r].status \in Terminal => Shown(r)' = row'[r].status
    BY DEF Shown, Terminal
  <1>5. /\ [q \in Runs |-> Shown(q)][r] = Shown(r)
        /\ ([q \in Runs |-> Shown(q)])'[r] = Shown(r)'
        /\ ([q \in Runs |-> Shown(q)][r])' = Shown(r)'
    OBVIOUS
  <1>6. CASE row[r].status = "none" /\ row'[r].status # "none"
    <2>1. Shown(r) = "absent" /\ executed[r] = 0
      BY <1>1, <1>3, <1>6
    <2>2. CASE row'[r].status = "failed"
      <3>1. Shown(r)' = "failed" /\ executed'[r] = executed[r]
        BY <1>1, <1>2, <1>4, <2>2 DEF Moves
      <3> QED BY <1>5, <2>1, <3>1 DEF Contract!Step, Contract!Refuse
    <2>3. CASE row'[r].status \in {"queued", "running"}
      <3>1. Shown(r)' = "open" /\ executed'[r] \in {0, 1}
        BY <1>1, <1>4, <2>3
      <3> QED BY <1>5, <2>1, <3>1 DEF Contract!Step, Contract!Accept
    <2> QED BY <1>1, <1>6, <2>2, <2>3 DEF Moves
  <1>7. CASE row[r].status # "none" /\ row'[r].status \in Terminal
    <2>1. /\ Shown(r) # "absent"
          /\ Shown(r)' \in Contract!Outcomes
          /\ Shown(r)' = row'[r].status
          /\ executed'[r] = executed[r]
      BY <1>1, <1>2, <1>3, <1>4, <1>7 DEF Moves
    <2> QED BY <1>1, <1>5, <2>1 DEF Contract!Step, Contract!Close
  <1>8. CASE /\ row[r].status \in {"queued", "running"}
             /\ row'[r].status \in {"queued", "running"}
    <2>1. Shown(r) = "open" /\ Shown(r)' = "open"
      BY <1>3, <1>4, <1>8
    <2>2. CASE executed'[r] = executed[r]
      BY <1>5, <2>1, <2>2
    <2>3. CASE executed[r] = 0 /\ executed'[r] = 1
      BY <1>5, <2>1, <2>3 DEF Contract!Step, Contract!Start
    <2> QED BY <1>1, <2>2, <2>3 DEF Moves
  <1>9. CASE row[r].status = "none" /\ row'[r].status = "none"
    <2>1. Shown(r) = Shown(r)' /\ executed'[r] = executed[r]
      BY <1>1, <1>3, <1>4, <1>9
    <2> QED BY <1>5, <2>1
  <1>10. \/ row[r].status \in Terminal /\ row'[r].status \in Terminal
         \/ row[r].status \in {"none", "queued", "running"}
    BY <1>1, <1>2
  <1> QED BY <1>1, <1>2, <1>6, <1>7, <1>8, <1>9, <1>10 DEF Moves

(* Every run of this module keeps the promises of RunContract, whatever    *)
(* the other runs, requests, workers and consoles do.                      *)
THEOREM ContractKept == Spec => KeepsContract
  <1>1. Init => CInv
    BY InitIInv DEF Init, CInv, SessionsHaveRows, Idle
  <1>2. CInv /\ [Next]_vars => CInv'
    BY StepKept, KeptIsIInv, StepMoves DEF CInv
  <1>3. Init => Contract!Init
    BY DEF Init, Contract!Init, Contract!Absent, Shown, NoRow
  <1>4. CInv /\ [Next]_vars => [Contract!Next]_Contract!vars
    BY StepKept, StepMoves, MoveIsContractStep DEF CInv, Contract!Next
  <1> QED BY <1>1, <1>2, <1>3, <1>4, PTL
          DEF Spec, KeepsContract, Contract!Spec

-----------------------------------------------------------------------------
(* The outcome of a closed run.  Concurrent terminal writes mix their      *)
(* columns in one row, so the inductive invariant ColumnInv relates the    *)
(* copy that each session has loaded with the row: what a session does not *)
(* write because its copy had it already, the row has as well (Behind),    *)
(* and what may have become of the row under a session depends on the kind *)
(* of session (Knows).                                                     *)

Open == {"none", "queued", "running"}
Executing == {"calling", "retrying"}
Attached(x) == x.pc \notin {"idle", "admitted"}

\* A row by itself, with its age a.
RowFits(r, d, a) ==
  /\ d.status \in Open => d.error = "none"
  /\ d.status \in {"none", "queued"} => a = 0
  /\ d.status = "none" => ~d.retain
  /\ d.status = "failed" => d.error \in Failures
  /\ d.status = "canceled" => d.error = "canceled" /\ d.cancel
  /\ d.status \in Terminal => /\ ~d.cipher
                              /\ r \in TtlRuns => d.retain
                              /\ r \in CallbackRuns => d.cb # "not_requested"
  /\ d.status = "succeeded" => d.result \/ d.purged

\* These columns of the row d only move one way, from the copy l on.
Behind(r, l, d) ==
  /\ ~l.cipher => ~d.cipher
  /\ l.cancel => d.cancel
  /\ r \in TtlRuns /\ l.retain => d.retain
  /\ r \in CallbackRuns /\ l.cb # "not_requested" => d.cb # "not_requested"

\* Under an executor its run may be failed by a repair or canceled by a request that
\* read it in the queue, but not by both: the repair waits until the run is old.
ExecutorKnows(l, d, a) ==
  /\ l.status \in {"running", "failed", "canceled"} /\ ~l.result
  /\ d.status \in {"running", "failed", "canceled"} /\ ~d.result
  /\ l.status = "canceled" => l.error = "canceled"
  /\ l.status # "running" => d.status = l.status
  /\ d.status = "failed" => a >= 1
  /\ d.status = "canceled" => a = 0

Knows(x, d, a) ==
  /\ Behind(x.run, x.loaded, d)
  /\ d.status # "none"
  /\ x.loaded.status \in Open => x.loaded.error = "none"
  /\ x.pc \in Executing => ExecutorKnows(x.loaded, d, a)
  /\ x.pc = "mark" => x.loaded.status = "running" /\ a >= 1 /\ d.status # "queued"
  /\ x.pc = "cancel" => /\ x.loaded.status \in {"queued", "running"}
                        /\ x.loaded.status = "queued" => a = 0
  /\ x.pc = "purge" => ~x.loaded.purged

RowsFit == \A r \in Runs : RowFits(r, row[r], age[r])

SessionsKnow ==
  \A s \in Sessions :
    Attached(sess[s]) => Knows(sess[s], row[sess[s].run], age[sess[s].run])

ExecutorsAlone ==
  \A s, t \in Sessions :
    /\ sess[s].pc \in Executing /\ sess[t].pc \in Executing
    /\ sess[s].run = sess[t].run
    => s = t

ConsolesOnly ==
  \A s \in Sessions : sess[s].pc \in {"cancel", "mark", "purge"} => s \in Consoles

ColumnInv == RowsFit /\ SessionsKnow /\ ExecutorsAlone /\ ConsolesOnly

-----------------------------------------------------------------------------
(* The writes, column by column.                                           *)

(* Every column of a flushed row is the database's, or the session's.      *)
LEMMA FlushEach ==
  ASSUME NEW db, NEW l, NEW n, NEW f, f = Flush(db, l, n)
  PROVE  /\ f.status = IF n.status = l.status THEN db.status ELSE n.status
         /\ f.error  = IF n.error  = l.error  THEN db.error  ELSE n.error
         /\ f.result = IF n.result = l.result THEN db.result ELSE n.result
         /\ f.cipher = IF n.cipher = l.cipher THEN db.cipher ELSE n.cipher
         /\ f.cancel = IF n.cancel = l.cancel THEN db.cancel ELSE n.cancel
         /\ f.retain = IF n.retain = l.retain THEN db.retain ELSE n.retain
         /\ f.purged = IF n.purged = l.purged THEN db.purged ELSE n.purged
         /\ f.cb     = IF n.cb     = l.cb     THEN db.cb     ELSE n.cb
  BY DEF Flush, Column

\* What every close does to the copy l.
Closes(r, l, n) ==
  /\ n.status \in Terminal
  /\ n.cipher = FALSE /\ n.retain = (r \in TtlRuns) /\ n.purged = l.purged
  /\ r \in CallbackRuns => n.cb = "pending"
  /\ n.cancel = l.cancel \/ n.cancel = TRUE

(* The three terminal writes close, each with its outcome.                 *)
LEMMA SuccessCloses ==
  ASSUME NEW r, NEW l \in Row, NEW n, n = MarkSucceeded(r, l)
  PROVE  /\ Closes(r, l, n) /\ n \in Row
         /\ n.status = "succeeded" /\ n.error = "none" /\ n.result = TRUE
  BY MarkTypes
     DEF Closes, MarkSucceeded, Close, Scheduled, Row, Terminal

LEMMA FailureCloses ==
  ASSUME NEW r, NEW l \in Row, NEW e \in Failures, NEW n, n = MarkFailed(r, l, e)
  PROVE  /\ Closes(r, l, n) /\ n \in Row
         /\ n.status = "failed" /\ n.error = e /\ n.result = l.result
  <1>1. n \in Row
    BY MarkTypes DEF Errors
  <1> QED BY <1>1 DEF Closes, MarkFailed, Close, Scheduled, Row, Terminal

LEMMA CancelCloses ==
  ASSUME NEW r, NEW l \in Row, NEW n, n = MarkCanceled(r, l)
  PROVE  /\ Closes(r, l, n) /\ n \in Row
         /\ n.status = "canceled" /\ n.error = "canceled"
         /\ n.result = l.result /\ n.cancel = TRUE
  BY MarkTypes
     DEF Closes, MarkCanceled, Close, Scheduled, Row, Terminal

\* What the others know of a row d stays true of e.
Advances(r, d, e) ==
  /\ ~d.cipher => ~e.cipher
  /\ d.cancel => e.cancel
  /\ r \in TtlRuns /\ d.retain => e.retain
  /\ r \in CallbackRuns /\ d.cb # "not_requested" => e.cb # "not_requested"
  /\ e.status = d.status \/ e.status \notin {"none", "queued"}

(* A close owes the row nothing, whatever the copy it was computed from.   *)
LEMMA CloseCompletes ==
  ASSUME NEW r, NEW d \in Row, NEW l \in Row, NEW n \in Row,
         Behind(r, l, d), Closes(r, l, n),
         NEW f, f = Flush(d, l, n)
  PROVE  /\ Advances(r, d, f)
         /\ ~f.cipher
         /\ r \in TtlRuns => f.retain
         /\ r \in CallbackRuns => f.cb # "not_requested"
         /\ n.cancel => f.cancel
  <1>1. /\ f.status = IF n.status = l.status THEN d.status ELSE n.status
        /\ f.cipher = IF n.cipher = l.cipher THEN d.cipher ELSE n.cipher
        /\ f.cancel = IF n.cancel = l.cancel THEN d.cancel ELSE n.cancel
        /\ f.retain = IF n.retain = l.retain THEN d.retain ELSE n.retain
        /\ f.cb     = IF n.cb = l.cb THEN d.cb ELSE n.cb
    BY FlushEach
  <1>2. /\ n.cancel \in BOOLEAN /\ l.cancel \in BOOLEAN /\ d.cancel \in BOOLEAN
        /\ n.retain \in BOOLEAN /\ l.retain \in BOOLEAN /\ d.retain \in BOOLEAN
        /\ l.cipher \in BOOLEAN /\ d.cipher \in BOOLEAN
    BY DEF Row
  <1> QED BY <1>1, <1>2 DEF Advances, Closes, Behind, Terminal

(* Knowledge survives a write of somebody else; what an executor knows is  *)
(* shown for each write.                                                   *)
LEMMA OthersKnow ==
  ASSUME NEW x, NEW d, NEW e, NEW a,
         Knows(x, d, a), Advances(x.run, d, e),
         x.pc \in Executing => ExecutorKnows(x.loaded, e, a)
  PROVE  Knows(x, e, a)
  <1>1. Behind(x.run, x.loaded, e)
    BY DEF Knows, Behind, Advances
  <1> QED BY <1>1 DEF Knows, Advances

-----------------------------------------------------------------------------
(* What each kind of session writes.                                       *)

(* The executor's own terminal writes.                                     *)
LEMMA ExecutorWrites ==
  ASSUME NEW r, NEW l \in Row, NEW d \in Row, NEW a \in Nat,
         Behind(r, l, d), ExecutorKnows(l, d, a),
         l.status \in Open => l.error = "none", RowFits(r, d, a),
         NEW n, \/ n = MarkSucceeded(r, l)
                \/ n = MarkFailed(r, l, "provider_failed")
                \/ n = MarkCanceled(r, l) /\ CancelSeen(l),
         NEW f, f = Flush(d, l, n)
  PROVE  RowFits(r, f, a) /\ Advances(r, d, f)
  <1>l. "provider_failed" \in Errors /\ "provider_failed" \in Failures
    BY DEF Errors, Failures
  <1>b. /\ l.result \in BOOLEAN /\ l.cancel \in BOOLEAN
        /\ d.result \in BOOLEAN /\ d.cancel \in BOOLEAN
    BY <1>l DEF Row
  <1>e. /\ f.status = IF n.status = l.status THEN d.status ELSE n.status
        /\ f.error  = IF n.error  = l.error  THEN d.error  ELSE n.error
        /\ f.result = IF n.result = l.result THEN d.result ELSE n.result
        /\ f.cancel = IF n.cancel = l.cancel THEN d.cancel ELSE n.cancel
    BY FlushEach
  <1>1. CASE n = MarkSucceeded(r, l)
    <2>1. /\ Closes(r, l, n) /\ n \in Row
          /\ n.status = "succeeded" /\ n.error = "none" /\ n.result = TRUE
      BY <1>1, SuccessCloses
    <2>2. /\ Advances(r, d, f) /\ ~f.cipher
          /\ r \in TtlRuns => f.retain
          /\ r \in CallbackRuns => f.cb # "not_requested"
      BY <2>1, CloseCompletes
    <2>3. f.status = "succeeded" /\ f.result
      BY <1>e, <1>b, <2>1 DEF ExecutorKnows
    <2> QED BY <2>2, <2>3 DEF RowFits, Open
  <1>2. CASE n = MarkFailed(r, l, "provider_failed")
    <2>1. /\ Closes(r, l, n) /\ n \in Row
          /\ n.status = "failed" /\ n.error = "provider_failed"
          /\ n.result = l.result
      BY <1>2, <1>l, FailureCloses
    <2>2. /\ Advances(r, d, f) /\ ~f.cipher
          /\ r \in TtlRuns => f.retain
          /\ r \in CallbackRuns => f.cb # "not_requested"
      BY <2>1, CloseCompletes
    <2>3. f.status = "failed"
      BY <1>e, <2>1 DEF ExecutorKnows
    <2>4. f.error \in Failures
      <3>1. CASE l.status = "failed"
        BY <3>1, <1>e, <1>l, <2>1 DEF ExecutorKnows, RowFits
      <3>2. CASE l.status # "failed"
        <4>1. l.error # "provider_failed"
          BY <3>2 DEF ExecutorKnows, Open
        <4> QED BY <4>1, <1>e, <1>l, <2>1
      <3> QED BY <3>1, <3>2
    <2> QED BY <2>2, <2>3, <2>4 DEF RowFits, Open
  <1>3. CASE n = MarkCanceled(r, l) /\ CancelSeen(l)
    <2>1. /\ Closes(r, l, n) /\ n \in Row
          /\ n.status = "canceled" /\ n.error = "canceled"
          /\ n.result = l.result /\ n.cancel = TRUE
      BY <1>3, CancelCloses
    <2>2. /\ Advances(r, d, f) /\ ~f.cipher
          /\ r \in TtlRuns => f.retain
          /\ r \in CallbackRuns => f.cb # "not_requested"
          /\ f.cancel
      BY <2>1, CloseCompletes
    <2>3. l.status = "running" /\ l.error = "none"
      BY <1>3 DEF CancelSeen, Open
    <2>4. f.status = "canceled" /\ f.error = "canceled"
      BY <1>e, <2>1, <2>3
    <2> QED BY <2>2, <2>4 DEF RowFits, Open
  <1> QED BY <1>1, <1>2, <1>3

\* A write of a console also leaves an executor of the run what it knows.
ExecutorStillKnows(d, e, a) ==
  \A l \in Row : ExecutorKnows(l, d, a) => ExecutorKnows(l, e, a)

(* A cancel request: of a queued copy it closes, of a running one it asks. *)
LEMMA CancelWrites ==
  ASSUME NEW r, NEW l \in Row, NEW d \in Row, NEW a \in Nat,
         Behind(r, l, d), l.error = "none", l.status = "queued" => a = 0,
         RowFits(r, d, a),
         NEW n, \/ l.status = "queued" /\ n = MarkCanceled(r, l)
                \/ l.status = "running" /\ n = [l EXCEPT !.cancel = TRUE],
         NEW f, f = Flush(d, l, n)
  PROVE  /\ RowFits(r, f, a) /\ Advances(r, d, f)
         /\ ExecutorStillKnows(d, f, a)
  <1>e. /\ f.status = IF n.status = l.status THEN d.status ELSE n.status
        /\ f.error  = IF n.error  = l.error  THEN d.error  ELSE n.error
        /\ f.result = IF n.result = l.result THEN d.result ELSE n.result
        /\ f.cipher = IF n.cipher = l.cipher THEN d.cipher ELSE n.cipher
        /\ f.cancel = IF n.cancel = l.cancel THEN d.cancel ELSE n.cancel
        /\ f.retain = IF n.retain = l.retain THEN d.retain ELSE n.retain
        /\ f.purged = IF n.purged = l.purged THEN d.purged ELSE n.purged
        /\ f.cb     = IF n.cb     = l.cb     THEN d.cb     ELSE n.cb
    BY FlushEach
  <1>1. CASE l.status = "queued" /\ n = MarkCanceled(r, l)
    <2>1. /\ Closes(r, l, n) /\ n \in Row
          /\ n.status = "canceled" /\ n.error = "canceled"
          /\ n.result = l.result /\ n.cancel = TRUE
      BY <1>1, CancelCloses
    <2>2. /\ Advances(r, d, f) /\ ~f.cipher
          /\ r \in TtlRuns => f.retain
          /\ r \in CallbackRuns => f.cb # "not_requested"
          /\ f.cancel
      BY <2>1, CloseCompletes
    <2>3. f.status = "canceled" /\ f.error = "canceled" /\ f.result = d.result
      BY <1>1, <1>e, <2>1
    <2>4. a = 0
      BY <1>1
    <2>5. ExecutorStillKnows(d, f, a)
      BY <2>3, <2>4 DEF ExecutorStillKnows, ExecutorKnows
    <2> QED BY <2>2, <2>3, <2>5 DEF RowFits, Open
  <1>2. CASE l.status = "running" /\ n = [l EXCEPT !.cancel = TRUE]
    <2>1. /\ n.status = l.status /\ n.error = l.error /\ n.result = l.result
          /\ n.cipher = l.cipher /\ n.cancel = TRUE /\ n.retain = l.retain
          /\ n.purged = l.purged /\ n.cb = l.cb
      BY <1>2 DEF Row
    <2>2. /\ f.status = d.status /\ f.error = d.error /\ f.result = d.result
          /\ f.cipher = d.cipher /\ f.retain = d.retain
          /\ f.purged = d.purged /\ f.cb = d.cb
      BY <1>e, <2>1
    <2>3. f.cancel
      BY <1>e, <2>1 DEF Behind
    <2> QED BY <2>2, <2>3 DEF RowFits, Advances, ExecutorStillKnows, ExecutorKnows
  <1> QED BY <1>1, <1>2

(* A repair, by an operator's request or by the auto-fail.                 *)
LEMMA RepairWrites ==
  ASSUME NEW r, NEW l \in Row, NEW d \in Row, NEW a \in Nat, NEW e \in Failures,
         Behind(r, l, d), l.status = "running", l.error = "none", a >= 1,
         NEW n, n = MarkFailed(r, l, e),
         NEW f, f = Flush(d, l, n)
  PROVE  /\ RowFits(r, f, a) /\ Advances(r, d, f)
         /\ ExecutorStillKnows(d, f, a)
  <1>l. e \in Errors /\ e # "none"
    BY DEF Errors, Failures
  <1>1. /\ Closes(r, l, n) /\ n \in Row
        /\ n.status = "failed" /\ n.error = e /\ n.result = l.result
    BY FailureCloses
  <1>2. /\ Advances(r, d, f) /\ ~f.cipher
        /\ r \in TtlRuns => f.retain
        /\ r \in CallbackRuns => f.cb # "not_requested"
    BY <1>1, CloseCompletes
  <1>3. f.status = "failed" /\ f.error = e /\ f.result = d.result
    BY <1>l, <1>1, FlushEach
  <1>4. ExecutorStillKnows(d, f, a)
    BY <1>3 DEF ExecutorStillKnows, ExecutorKnows
  <1> QED BY <1>2, <1>3, <1>4 DEF RowFits, Open

\* What the purge does to the copy l.
Purges(l, n) ==
  /\ n.status = l.status /\ n.error = l.error /\ n.cancel = l.cancel
  /\ n.retain = l.retain /\ n.cb = l.cb
  /\ n.result = FALSE /\ n.cipher = FALSE /\ n.purged = TRUE

(* The retention cleanup, which read a row it had not purged.              *)
LEMMA PurgeWrites ==
  ASSUME NEW r, NEW l \in Row, NEW d \in Row, NEW a \in Nat,
         Behind(r, l, d), ~l.purged, RowFits(r, d, a),
         NEW n, Purges(l, n),
         NEW f, f = Flush(d, l, n)
  PROVE  /\ RowFits(r, f, a) /\ Advances(r, d, f)
         /\ ExecutorStillKnows(d, f, a)
  <1>1. /\ f.status = IF n.status = l.status THEN d.status ELSE n.status
        /\ f.error  = IF n.error  = l.error  THEN d.error  ELSE n.error
        /\ f.result = IF n.result = l.result THEN d.result ELSE n.result
        /\ f.cipher = IF n.cipher = l.cipher THEN d.cipher ELSE n.cipher
        /\ f.cancel = IF n.cancel = l.cancel THEN d.cancel ELSE n.cancel
        /\ f.retain = IF n.retain = l.retain THEN d.retain ELSE n.retain
        /\ f.purged = IF n.purged = l.purged THEN d.purged ELSE n.purged
        /\ f.cb     = IF n.cb     = l.cb     THEN d.cb     ELSE n.cb
    BY FlushEach
  <1>2. /\ f.status = d.status /\ f.error = d.error /\ f.cancel = d.cancel
        /\ f.retain = d.retain /\ f.cb = d.cb /\ f.purged
        /\ f.result = d.result \/ f.result = FALSE
        /\ f.cipher = d.cipher \/ f.cipher = FALSE
    BY <1>1 DEF Purges
  <1> QED BY <1>2 DEF RowFits, Advances, ExecutorStillKnows, ExecutorKnows

-----------------------------------------------------------------------------
(* The system.                                                             *)

\* In a step that leaves the row e of r, the sessions in M move, to r if they
\* stay attached, and the others do not.
OthersStay(M, r, e) ==
  \A t \in Sessions \ M :
    /\ sess'[t] = sess[t]
    /\ sess[t].pc \in Executing /\ sess[t].run = r
         => ExecutorKnows(sess[t].loaded, e, age[r])

MoversKnow(M, r, e) ==
  \A s \in M :
    /\ \A t \in M : s = t
    /\ Attached(sess'[s]) => /\ sess'[s].run = r
                             /\ Knows(sess'[s], e, age[r])
    /\ sess'[s].pc \in Executing =>
         \A t \in Sessions \ M : ~(sess[t].pc \in Executing /\ sess[t].run = r)
    /\ sess'[s].pc \in {"cancel", "mark", "purge"} => s \in Consoles

(* Such a step keeps the invariant.                                        *)
LEMMA RowStep ==
  ASSUME IInv, ColumnInv, NEW r \in Runs, NEW e \in Row, NEW M \in SUBSET Sessions,
         row' = [row EXCEPT ![r] = e], age' = age,
         RowFits(r, e, age[r]),
         row[r].status = "none" \/ Advances(r, row[r], e),
         OthersStay(M, r, e), MoversKnow(M, r, e)
  PROVE  ColumnInv'
  <1>1. /\ row \in [Runs -> Row]
        /\ \A q \in Runs : row'[q] = IF q = r THEN e ELSE row[q]
        /\ \A q \in Runs : age'[q] = age[q]
    BY DEF IInv, TypeOK
  <1>2. RowsFit'
    BY <1>1 DEF ColumnInv, RowsFit
  <1>3. SessionsKnow'
    <2> SUFFICES ASSUME NEW t \in Sessions, Attached(sess'[t])
                 PROVE  Knows(sess'[t], row'[sess'[t].run], age'[sess'[t].run])
      BY DEF SessionsKnow, Attached
    <2>1. CASE t \in M
      BY <1>1, <2>1 DEF MoversKnow
    <2>2. CASE t \notin M
      <3>1. /\ sess'[t] = sess[t] /\ Attached(sess[t]) /\ sess[t].run \in Runs
            /\ Knows(sess[t], row[sess[t].run], age[sess[t].run])
        BY <2>2 DEF OthersStay, ColumnInv, SessionsKnow, IInv, SessionsExecute, Attached
      <3>2. CASE sess[t].run # r
        BY <1>1, <3>1, <3>2
      <3>3. CASE sess[t].run = r
        <4>1. row[r].status # "none"
          BY <3>1, <3>3 DEF Knows
        <4>2. Knows(sess[t], e, age[r])
          BY <2>2, <3>1, <3>3, <4>1, OthersKnow DEF OthersStay
        <4> QED BY <1>1, <3>1, <3>3, <4>2
      <3> QED BY <3>2, <3>3
    <2> QED BY <2>1, <2>2
  <1>4. ExecutorsAlone'
    <2> SUFFICES ASSUME NEW s \in Sessions, NEW t \in Sessions,
                        sess'[s].pc \in Executing, sess'[t].pc \in Executing,
                        sess'[s].run = sess'[t].run
                 PROVE  s = t
      BY DEF ExecutorsAlone
    <2>1. \A u \in M : sess'[u].pc \in Executing => sess'[u].run = r
      BY DEF MoversKnow, Attached, Executing
    <2>2. CASE s \in M /\ t \in M
      BY <2>2 DEF MoversKnow
    <2>3. CASE s \in M /\ t \notin M
      BY <2>1, <2>3 DEF MoversKnow, OthersStay
    <2>4. CASE s \notin M /\ t \in M
      BY <2>1, <2>4 DEF MoversKnow, OthersStay
    <2>5. CASE s \notin M /\ t \notin M
      BY <2>5 DEF OthersStay, ColumnInv, ExecutorsAlone
    <2> QED BY <2>2, <2>3, <2>4, <2>5
  <1>5. ConsolesOnly'
    BY DEF OthersStay, MoversKnow, ColumnInv, ConsolesOnly
  <1> QED BY <1>2, <1>3, <1>4, <1>5 DEF ColumnInv

(* A row that a session leaves as it is.                                   *)
LEMMA RowStays ==
  ASSUME NEW r, NEW d
  PROVE  Advances(r, d, d) /\ Behind(r, d, d)
  BY DEF Advances, Behind

(* A session that ends after its write, or without one.                    *)
LEMMA LeaveAfterWrite ==
  ASSUME IInv, ColumnInv, NEW s \in Sessions, Attached(sess[s]),
         NEW r, r = sess[s].run, NEW l, l = sess[s].loaded, NEW n \in Row,
         Write(r, l, n), Leave(s), age' = age,
         NEW f, f = Flush(row[r], l, n),
         RowFits(r, f, age[r]),
         Advances(r, row[r], f),
         \/ sess[s].pc \in Executing
         \/ ExecutorStillKnows(row[r], f, age[r])
  PROVE  ColumnInv'
  <1>1. /\ r \in Runs /\ l \in Row /\ row[r] \in Row
        /\ \A t \in Sessions : sess[t].loaded \in Row
        /\ sess'[s] = Idle /\ \A t \in Sessions \ {s} : sess'[t] = sess[t]
    BY DEF IInv, TypeOK, SessionsExecute, Attached, Leave
  <1>2. f \in Row /\ row' = [row EXCEPT ![r] = f]
    BY <1>1, FlushType DEF Write
  <1>3. \A t \in Sessions \ {s} : sess[t].pc \in Executing /\ sess[t].run = r
           => ExecutorKnows(sess[t].loaded, f, age[r])
    <2> SUFFICES ASSUME NEW t \in Sessions \ {s},
                        sess[t].pc \in Executing, sess[t].run = r
                 PROVE  ExecutorKnows(sess[t].loaded, f, age[r])
      OBVIOUS
    <2>1. sess[s].pc \notin Executing
      BY DEF ColumnInv, ExecutorsAlone
    <2>2. ExecutorKnows(sess[t].loaded, row[r], age[r])
      BY DEF ColumnInv, SessionsKnow, Knows, Attached, Executing
    <2> QED BY <1>1, <2>1, <2>2 DEF ExecutorStillKnows
  <1>4. ~Attached(Idle) /\ Idle.pc \notin Executing
        /\ Idle.pc \notin {"cancel", "mark", "purge"}
    BY DEF Attached, Idle, Executing
  <1>5. OthersStay({s}, r, f) /\ MoversKnow({s}, r, f)
    BY <1>1, <1>3, <1>4 DEF OthersStay, MoversKnow
  <1> QED BY <1>1, <1>2, <1>5, RowStep

(* A session that ends and writes nothing.                                 *)
LEMMA LeaveAlone ==
  ASSUME IInv, ColumnInv, NEW s \in Sessions, Leave(s), UNCHANGED <<row, age>>
  PROVE  ColumnInv'
  <1>1. /\ sess'[s] = Idle /\ \A t \in Sessions \ {s} : sess'[t] = sess[t]
        /\ ~Attached(Idle) /\ Idle.pc \notin Executing
        /\ Idle.pc \notin {"cancel", "mark", "purge"}
    BY DEF IInv, TypeOK, Leave, Attached, Idle, Executing
  <1>2. RowsFit'
    BY DEF ColumnInv, RowsFit
  <1>3. SessionsKnow'
    BY <1>1 DEF ColumnInv, SessionsKnow
  <1>4. ExecutorsAlone'
    BY <1>1 DEF ColumnInv, ExecutorsAlone
  <1>5. ConsolesOnly'
    BY <1>1 DEF ColumnInv, ConsolesOnly
  <1> QED BY <1>2, <1>3, <1>4, <1>5 DEF ColumnInv

(* A session that moves and writes nothing.                                *)
LEMMA MoveAlone ==
  ASSUME IInv, ColumnInv, NEW s \in Sessions, NEW pc \in Pcs, NEW r \in Runs,
         NEW l \in Row, NEW k \in 0..MaxAttempts,
         Become(s, pc, r, l, k), UNCHANGED <<row, age>>,
         pc \notin {"idle", "admitted"} =>
           Knows([pc |-> pc, run |-> r, loaded |-> l, attempt |-> k], row[r], age[r]),
         pc \in Executing => sess[s].pc \in Executing /\ sess[s].run = r,
         pc \in {"cancel", "mark", "purge"} => s \in Consoles
  PROVE  ColumnInv'
  <1>1. /\ sess'[s] = [pc |-> pc, run |-> r, loaded |-> l, attempt |-> k]
        /\ \A t \in Sessions \ {s} : sess'[t] = sess[t]
    BY DEF IInv, TypeOK, Become
  <1>2. RowsFit'
    BY DEF ColumnInv, RowsFit
  <1>3. SessionsKnow'
    BY <1>1 DEF ColumnInv, SessionsKnow, Attached
  <1>4. ExecutorsAlone'
    BY <1>1 DEF ColumnInv, ExecutorsAlone
  <1>5. ConsolesOnly'
    BY <1>1 DEF ColumnInv, ConsolesOnly
  <1> QED BY <1>2, <1>3, <1>4, <1>5 DEF ColumnInv

(* What the invariant says of a session that is attached to its run.       *)
LEMMA AttachedKnows ==
  ASSUME IInv, ColumnInv, NEW s \in Sessions, Attached(sess[s]),
         NEW r, r = sess[s].run, NEW l, l = sess[s].loaded
  PROVE  /\ r \in Runs /\ l \in Row /\ row[r] \in Row /\ age[r] \in Nat
         /\ Behind(r, l, row[r])
         /\ RowFits(r, row[r], age[r])
         /\ l.status \in Open => l.error = "none"
         /\ sess[s].pc \in Executing => ExecutorKnows(l, row[r], age[r])
         /\ sess[s].pc = "mark" => l.status = "running" /\ age[r] >= 1
         /\ sess[s].pc = "cancel" => (l.status = "queued" => age[r] = 0)
         /\ sess[s].pc = "purge" => ~l.purged
  <1>1. /\ r \in Runs /\ l \in Row /\ row[r] \in Row /\ age[r] \in Nat
    BY DEF IInv, TypeOK, SessionsExecute, Attached, AgeAutoFail
  <1>2. Knows(sess[s], row[r], age[r]) /\ RowFits(r, row[r], age[r])
    BY <1>1 DEF ColumnInv, SessionsKnow, RowsFit
  <1> QED BY <1>1, <1>2 DEF Knows

(* The candidate chain, from the provider's answer to the terminal write.  *)
LEMMA ExecutorStepFits ==
  ASSUME IInv, ColumnInv, NEW p \in Executors, ExecutorStep(p)
  PROVE  ColumnInv'
  <1>s. p \in Sessions
    BY DEF Sessions
  <1>p. "calling" \in Executing /\ "retrying" \in Executing
    BY DEF Executing
  <1>0. PICK r, l : r = sess[p].run /\ l = sess[p].loaded
    OBVIOUS
  <1>w. ASSUME sess[p].pc \in Executing,
               NEW n \in Row, Write(r, l, n), Leave(p), age' = age,
               \/ n = MarkSucceeded(r, l)
               \/ n = MarkFailed(r, l, "provider_failed")
               \/ n = MarkCanceled(r, l) /\ CancelSeen(l)
        PROVE  ColumnInv'
    <2>1. Attached(sess[p])
      BY <1>w DEF Attached, Executing
    <2>2. /\ r \in Runs /\ l \in Row /\ row[r] \in Row /\ age[r] \in Nat
          /\ Behind(r, l, row[r]) /\ RowFits(r, row[r], age[r])
          /\ l.status \in Open => l.error = "none"
          /\ ExecutorKnows(l, row[r], age[r])
      BY <1>s, <1>0, <1>w, <2>1, AttachedKnows
    <2>3. PICK f : f = Flush(row[r], l, n)
      OBVIOUS
    <2>4. RowFits(r, f, age[r]) /\ Advances(r, row[r], f)
      BY <1>w, <2>2, <2>3, ExecutorWrites
    <2> QED BY <1>s, <1>0, <1>w, <2>1, <2>3, <2>4, LeaveAfterWrite
  <1>k. ASSUME sess[p].pc \in Executing
        PROVE  /\ r \in Runs /\ l \in Row /\ row[r] \in Row /\ age[r] \in Nat
               /\ RowFits(r, row[r], age[r])
               /\ Knows(sess[p], row[r], age[r])
               /\ sess[p].attempt \in 0..MaxAttempts
               /\ MarkSucceeded(r, l) \in Row /\ MarkCanceled(r, l) \in Row
               /\ MarkFailed(r, l, "provider_failed") \in Row
    <2>1. Attached(sess[p])
      BY <1>k DEF Attached, Executing
    <2>2. /\ r \in Runs /\ l \in Row /\ row[r] \in Row /\ age[r] \in Nat
          /\ RowFits(r, row[r], age[r])
      BY <1>s, <1>0, <2>1, AttachedKnows
    <2>3. Knows(sess[p], row[r], age[r]) /\ sess[p].attempt \in 0..MaxAttempts
      BY <1>s, <1>0, <2>1 DEF ColumnInv, SessionsKnow, IInv, TypeOK
    <2>4. "provider_failed" \in Errors
      BY DEF Errors, Failures
    <2> QED BY <2>2, <2>3, <2>4, MarkTypes
  <1>1. CASE Succeed(p)
    BY <1>0, <1>1, <1>p, <1>w, <1>k DEF Succeed
  <1>2. CASE Fail(p)
    BY <1>0, <1>2, <1>p, <1>w, <1>k DEF Fail
  <1>3. CASE NextAttempt(p)
    <2>1. /\ sess[p].pc \in Executing
          /\ Become(p, "retrying", r, row[r], sess[p].attempt + 1)
          /\ sess[p].attempt + 1 \in 0..MaxAttempts
          /\ UNCHANGED <<row, age>>
      BY <1>0, <1>3, <1>p, <1>k, ConstantsAssumption DEF NextAttempt, ConstantsAssumption
    <2>2. Knows([pc |-> "retrying", run |-> r, loaded |-> row[r],
                 attempt |-> sess[p].attempt + 1], row[r], age[r])
      <3>1. ExecutorKnows(sess[p].loaded, row[r], age[r]) /\ row[r].status # "none"
        BY <1>k, <2>1 DEF Knows
      <3>2. ExecutorKnows(row[r], row[r], age[r])
        BY <1>k, <2>1, <3>1 DEF ExecutorKnows, RowFits
      <3> QED BY <1>k, <2>1, <3>1, <3>2, RowStays DEF Knows, RowFits
    <2>3. "retrying" \in Pcs
      BY DEF Pcs
    <2> QED BY <1>s, <1>0, <1>k, <2>1, <2>2, <2>3, MoveAlone
  <1>4. CASE StopCanceled(p)
    BY <1>0, <1>4, <1>p, <1>w, <1>k DEF StopCanceled
  <1>5. CASE CallAgain(p)
    <2>1. /\ sess[p].pc \in Executing
          /\ Become(p, "calling", r, l, sess[p].attempt)
          /\ UNCHANGED <<row, age>>
      BY <1>0, <1>5, <1>p DEF CallAgain
    <2>2. Knows([pc |-> "calling", run |-> r, loaded |-> l,
                 attempt |-> sess[p].attempt], row[r], age[r])
      BY <1>0, <1>k, <2>1 DEF Knows
    <2>3. "calling" \in Pcs
      BY DEF Pcs
    <2> QED BY <1>s, <1>0, <1>k, <2>1, <2>2, <2>3, MoveAlone
  <1>6. CASE Crash(p)
    BY <1>s, <1>6, LeaveAlone DEF Crash
  <1> QED BY <1>1, <1>2, <1>3, <1>4, <1>5, <1>6 DEF ExecutorStep

(* A console's read.                                                       *)
LEMMA LoadFits ==
  ASSUME IInv, ColumnInv, NEW c \in Consoles, NEW op \in {"cancel", "mark", "purge"},
         NEW r \in Runs, Load(c, op, r),
         row[r].status # "none",
         op = "mark" => row[r].status = "running" /\ age[r] >= 1,
         op = "cancel" => row[r].status \in {"queued", "running"},
         op = "purge" => ~row[r].purged
  PROVE  ColumnInv'
  <1>1. /\ c \in Sessions /\ op \in Pcs /\ op \notin Executing /\ row[r] \in Row
        /\ 0 \in 0..MaxAttempts /\ RowFits(r, row[r], age[r])
    BY ConstantsAssumption
       DEF Sessions, Pcs, Executing, IInv, TypeOK, ColumnInv, RowsFit,
           ConstantsAssumption
  <1>2. Become(c, op, r, row[r], 0) /\ UNCHANGED <<row, age>>
    BY DEF Load
  <1>3. Knows([pc |-> op, run |-> r, loaded |-> row[r], attempt |-> 0],
              row[r], age[r])
    BY <1>1, RowStays DEF Knows, RowFits
  <1> QED BY <1>1, <1>2, <1>3, MoveAlone

(* Cancel requests, operator repairs and retention cleanups.               *)
LEMMA ConsoleStepFits ==
  ASSUME IInv, ColumnInv, NEW c \in Consoles, ConsoleStep(c)
  PROVE  ColumnInv'
  <1>s. c \in Sessions
    BY DEF Sessions
  <1>r. ASSUME NEW r \in Runs
        PROVE  RowFits(r, row[r], age[r])
    BY DEF ColumnInv, RowsFit
  <1>0. PICK r, l : r = sess[c].run /\ l = sess[c].loaded
    OBVIOUS
  <1>k. ASSUME Attached(sess[c])
        PROVE  /\ r \in Runs /\ l \in Row /\ row[r] \in Row /\ age[r] \in Nat
               /\ Behind(r, l, row[r]) /\ RowFits(r, row[r], age[r])
               /\ l.status \in Open => l.error = "none"
               /\ sess[c].pc = "mark" => l.status = "running" /\ age[r] >= 1
               /\ sess[c].pc = "cancel" => (l.status = "queued" => age[r] = 0)
               /\ sess[c].pc = "purge" => ~l.purged
    BY <1>s, <1>0, <1>k, AttachedKnows
  <1>1. CASE \E q \in Runs : CancelRead(c, q)
    <2>1. PICK q \in Runs : CancelRead(c, q)
      BY <1>1
    <2>2. row[q].status \in {"queued", "running"} /\ Load(c, "cancel", q)
      BY <2>1 DEF CancelRead
    <2> QED BY <2>2, LoadFits
  <1>2. CASE \E q \in Runs : MarkRead(c, q)
    <2>1. PICK q \in Runs : MarkRead(c, q)
      BY <1>2
    <2>2. row[q].status = "running" /\ age[q] >= 1 /\ Load(c, "mark", q)
      BY <2>1 DEF MarkRead, AgeOperator
    <2> QED BY <2>2, LoadFits
  <1>3. CASE \E q \in Runs : PurgeRead(c, q)
    <2>1. PICK q \in Runs : PurgeRead(c, q)
      BY <1>3
    <2>2. ~row[q].purged /\ row[q].retain /\ Load(c, "purge", q)
      BY <2>1 DEF PurgeRead
    <2>3. row[q].status # "none"
      BY <2>2 DEF ColumnInv, RowsFit, RowFits
    <2> QED BY <2>2, <2>3, LoadFits
  <1>4. CASE CancelWrite(c)
    <2>1. Attached(sess[c]) /\ Leave(c) /\ age' = age
      BY <1>4 DEF CancelWrite, Attached
    <2>2. PICK n \in Row :
            /\ \/ l.status = "queued" /\ n = MarkCanceled(r, l)
               \/ l.status = "running" /\ n = [l EXCEPT !.cancel = TRUE]
            /\ Write(r, l, n)
      <3>1. MarkCanceled(r, l) \in Row /\ [l EXCEPT !.cancel = TRUE] \in Row
        BY <1>k, <2>1, MarkTypes DEF Row
      <3> QED BY <1>0, <1>4, <3>1 DEF CancelWrite
    <2>3. PICK f : f = Flush(row[r], l, n)
      OBVIOUS
    <2>4. /\ RowFits(r, f, age[r]) /\ Advances(r, row[r], f)
          /\ ExecutorStillKnows(row[r], f, age[r])
      <3>1. /\ l.error = "none"
            /\ l.status = "queued" => age[r] = 0
        BY <1>4, <1>k, <2>1, <2>2 DEF CancelWrite, Open
      <3> QED BY <1>k, <2>1, <2>2, <2>3, <3>1, CancelWrites
    <2> QED BY <1>s, <1>0, <2>1, <2>2, <2>3, <2>4, LeaveAfterWrite
  <1>5. CASE MarkWrite(c)
    <2>1. Attached(sess[c]) /\ Leave(c) /\ age' = age /\ sess[c].pc = "mark"
      BY <1>5 DEF MarkWrite, Attached
    <2>2. PICK n : n = MarkFailed(r, l, "operator_stale_running_failed")
      OBVIOUS
    <2>3. Write(r, l, n)
      BY <1>0, <1>5, <2>2 DEF MarkWrite
    <2>4. n \in Row /\ "operator_stale_running_failed" \in Failures
      BY <1>k, <2>1, <2>2, MarkTypes DEF Errors, Failures
    <2>5. PICK f : f = Flush(row[r], l, n)
      OBVIOUS
    <2>6. /\ RowFits(r, f, age[r]) /\ Advances(r, row[r], f)
          /\ ExecutorStillKnows(row[r], f, age[r])
      <3>1. l.status = "running" /\ l.error = "none" /\ age[r] >= 1
        BY <1>k, <2>1 DEF Open
      <3> QED BY <1>k, <2>1, <2>2, <2>4, <2>5, <3>1, RepairWrites
    <2> QED BY <1>s, <1>0, <2>1, <2>3, <2>4, <2>5, <2>6, LeaveAfterWrite
  <1>6. CASE PurgeWrite(c)
    <2>1. Attached(sess[c]) /\ Leave(c) /\ age' = age /\ sess[c].pc = "purge"
      BY <1>6 DEF PurgeWrite, Attached
    <2>2. PICK n : n = [l EXCEPT !.result = FALSE, !.cipher = FALSE,
                                 !.purged = TRUE]
      OBVIOUS
    <2>3. Write(r, l, n)
      BY <1>0, <1>6, <2>2 DEF PurgeWrite
    <2>4. n \in Row /\ Purges(l, n)
      BY <1>k, <2>1, <2>2 DEF Row, Purges
    <2>5. PICK f : f = Flush(row[r], l, n)
      OBVIOUS
    <2>6. /\ RowFits(r, f, age[r]) /\ Advances(r, row[r], f)
          /\ ExecutorStillKnows(row[r], f, age[r])
      BY <1>k, <2>1, <2>4, <2>5, PurgeWrites
    <2> QED BY <1>s, <1>0, <2>1, <2>3, <2>4, <2>5, <2>6, LeaveAfterWrite
  <1>7. CASE Crash(c)
    BY <1>s, <1>7, LeaveAlone DEF Crash
  <1> QED BY <1>1, <1>2, <1>3, <1>4, <1>5, <1>6, <1>7
          DEF ConsoleStep, ConsoleEnd

(* The first row of a run: nobody is attached to a run without one.        *)
LEMMA NewRowFits ==
  ASSUME NEW r, NEW n, n = NewRow(r)
  PROVE  n \in Row /\ RowFits(r, n, 0) /\ n.error = "none"
  BY NewRowType DEF NewRow, NoRow, RowFits, Open, Terminal

(* The insert of the first row.                                            *)
LEMMA ApiStepFits ==
  ASSUME IInv, ColumnInv, NEW a \in Apis, ApiStep(a)
  PROVE  ColumnInv'
  <1>s. a \in Sessions /\ row \in [Runs -> Row]
    BY DEF Sessions, Executors, IInv, TypeOK
  <1>0. PICK r : r = sess[a].run
    OBVIOUS
  <1>n. ASSUME sess[a].pc = "admitted", row[r].status = "none"
        PROVE  r \in Runs /\ age[r] = 0
    BY <1>0, <1>n, <1>s DEF IInv, SessionsExecute, ColumnInv, RowsFit, RowFits
  <1>o. ASSUME row[r].status = "none", r \in Runs
        PROVE  \A t \in Sessions : Attached(sess[t]) => sess[t].run # r
    BY <1>o DEF ColumnInv, SessionsKnow, Knows
  <1>i. ~Attached(Idle) /\ Idle.pc \notin Executing
        /\ Idle.pc \notin {"cancel", "mark", "purge"}
    BY DEF Attached, Idle, Executing
  <1>w. ASSUME sess[a].pc = "admitted", row[r].status = "none",
               NEW n \in Row, RowFits(r, n, 0), row' = [row EXCEPT ![r] = n],
               age' = age, Leave(a)
        PROVE  ColumnInv'
    <2>1. \A t \in Sessions \ {a} : sess'[t] = sess[t]
      BY <1>w DEF IInv, TypeOK, Leave
    <2>2. sess'[a] = Idle
      BY <1>s, <1>w DEF IInv, TypeOK, Leave
    <2>3. OthersStay({a}, r, n) /\ MoversKnow({a}, r, n)
      BY <1>n, <1>o, <1>w, <1>i, <2>1, <2>2
         DEF OthersStay, MoversKnow, Attached, Executing
    <2> QED BY <1>s, <1>n, <1>w, <2>3, RowStep
  <1>1. CASE \E q \in Runs : Admit(a, q)
    <2>1. PICK q \in Runs : Admit(a, q)
      BY <1>1
    <2>2. /\ Become(a, "admitted", q, NoRow, 0) /\ UNCHANGED <<row, age>>
          /\ "admitted" \in Pcs /\ "admitted" \notin Executing
      BY <2>1 DEF Admit, Pcs, Executing
    <2>3. NoRow \in Row
      BY NewRowType
    <2>4. 0 \in 0..MaxAttempts
      BY ConstantsAssumption DEF ConstantsAssumption
    <2> QED BY <1>s, <2>2, <2>3, <2>4, MoveAlone
  <1>2. CASE CreateConflict(a)
    BY <1>s, <1>2, LeaveAlone DEF CreateConflict
  <1>3. CASE CreateQueued(a)
    <2>1. NewRow(r) \in Row /\ RowFits(r, NewRow(r), 0)
      BY NewRowFits
    <2> QED BY <1>0, <1>3, <1>w, <2>1 DEF CreateQueued
  <1>4. CASE CreateInline(a)
    <2>1. PICK n : n = NewRow(r)
      OBVIOUS
    <2>2. /\ sess[a].pc = "admitted" /\ row[r].status = "none"
          /\ r \notin QueueRuns /\ row' = [row EXCEPT ![r] = n]
          /\ age' = age /\ Become(a, "calling", r, n, 1)
      BY <1>0, <1>4, <2>1 DEF CreateInline
    <2>3. r \in Runs /\ age[r] = 0 /\ n \in Row /\ RowFits(r, n, 0)
          /\ n.error = "none" /\ n.status = "running" /\ ~n.result
      BY <1>n, <2>1, <2>2, NewRowFits, NewRowType
    <2>4. /\ \A t \in Sessions \ {a} : sess'[t] = sess[t]
          /\ sess'[a] = [pc |-> "calling", run |-> r, loaded |-> n, attempt |-> 1]
      BY <1>s, <2>2 DEF IInv, TypeOK, Become
    <2>5. Knows(sess'[a], n, age[r])
      BY <2>3, <2>4, RowStays DEF Knows, ExecutorKnows, Executing
    <2>6. OthersStay({a}, r, n) /\ MoversKnow({a}, r, n)
      BY <1>o, <2>2, <2>3, <2>4, <2>5
         DEF OthersStay, MoversKnow, Attached, Executing
    <2> QED BY <1>s, <2>2, <2>3, <2>6, RowStep
  <1>5. CASE CreateFailed(a)
    <2>1. PICK n : n = MarkFailed(r, NewRow(r), "provider_failed")
      OBVIOUS
    <2>2. /\ Closes(r, NewRow(r), n) /\ n \in Row
          /\ n.status = "failed" /\ n.error \in Failures
      <3>1. NewRow(r) \in Row /\ "provider_failed" \in Failures
        BY NewRowType DEF Failures
      <3> QED BY <2>1, <3>1, FailureCloses
    <2>3. RowFits(r, n, 0)
      BY <2>2 DEF Closes, RowFits, Open
    <2> QED BY <1>0, <1>5, <1>w, <2>1, <2>2, <2>3 DEF CreateFailed
  <1> QED BY <1>1, <1>2, <1>3, <1>4, <1>5 DEF ApiStep

(* The claim: nobody is attached to a queued run as an executor.           *)
LEMMA ClaimFits ==
  ASSUME IInv, ColumnInv, NEW w \in Workers, NEW r \in Runs, ClaimStep(w, r)
  PROVE  ColumnInv'
  <1>s. /\ w \in Sessions /\ row \in [Runs -> Row] /\ row[r] \in Row
        /\ age \in [Runs -> 0..AgeAutoFail]
    BY DEF Sessions, Executors, IInv, TypeOK
  <1>q. /\ row[r].status = "queued" /\ age[r] = 0 /\ row[r].error = "none"
        /\ ~row[r].result
    <2>1. row[r].status = "queued"
      BY DEF ClaimStep, ClaimAndCall, ClaimAndFail, ClaimAndDefer, Claimable
    <2>2. ~row[r].result
      BY <2>1 DEF IInv, NotYetExecuted, NoManufacturedSuccess
    <2> QED BY <2>1, <2>2 DEF ColumnInv, RowsFit, RowFits, Open
  <1>a. [age EXCEPT ![r] = 0] = age
    BY <1>s, <1>q
  <1>o. \A t \in Sessions : ~(sess[t].pc \in Executing /\ sess[t].run = r)
    <2> SUFFICES ASSUME NEW t \in Sessions, sess[t].pc \in Executing, sess[t].run = r
                 PROVE  FALSE
      OBVIOUS
    <2>1. Knows(sess[t], row[r], age[r])
      BY DEF ColumnInv, SessionsKnow, Attached, Executing
    <2> QED BY <1>q, <2>1 DEF Knows, ExecutorKnows
  <1>c. PICK d : d = Claimed(r)
    OBVIOUS
  <1>d. /\ d \in Row /\ d.status = "running" /\ d.error = "none" /\ ~d.result
        /\ d.cipher = row[r].cipher /\ d.cancel = row[r].cancel
        /\ d.retain = row[r].retain /\ d.cb = row[r].cb
    BY <1>s, <1>q, <1>c DEF Claimed, Row, Statuses
  <1>1. CASE ClaimAndCall(w, r)
    <2>1. /\ row' = [row EXCEPT ![r] = d] /\ age' = age
          /\ Become(w, "calling", r, d, 1)
      BY <1>1, <1>a, <1>c DEF ClaimAndCall
    <2>2. /\ \A t \in Sessions \ {w} : sess'[t] = sess[t]
          /\ sess'[w] = [pc |-> "calling", run |-> r, loaded |-> d, attempt |-> 1]
      BY <1>s, <2>1 DEF IInv, TypeOK, Become
    <2>3. RowFits(r, d, age[r]) /\ Advances(r, row[r], d)
      BY <1>d DEF RowFits, Advances, Open, Terminal
    <2>4. Knows(sess'[w], d, age[r])
      BY <1>d, <2>2, RowStays DEF Knows, ExecutorKnows, Executing
    <2>5. OthersStay({w}, r, d) /\ MoversKnow({w}, r, d)
      BY <1>o, <2>2, <2>4 DEF OthersStay, MoversKnow, Attached, Executing
    <2> QED BY <1>s, <1>d, <2>1, <2>3, <2>5, RowStep
  <1>2. CASE ClaimAndFail(w, r)
    <2>1. PICK n : n = MarkFailed(r, d, "provider_failed")
      OBVIOUS
    <2>2. row' = [row EXCEPT ![r] = n] /\ age' = age /\ sess' = sess
      BY <1>2, <1>a, <1>c, <2>1 DEF ClaimAndFail
    <2>3. /\ Closes(r, d, n) /\ n \in Row
          /\ n.status = "failed" /\ n.error \in Failures
      <3>1. "provider_failed" \in Failures
        BY DEF Failures
      <3> QED BY <1>d, <2>1, <3>1, FailureCloses
    <2>4. RowFits(r, n, age[r]) /\ Advances(r, row[r], n)
      BY <1>d, <2>3 DEF Closes, RowFits, Advances, Open
    <2>5. OthersStay({}, r, n) /\ MoversKnow({}, r, n)
      BY <1>o, <2>2 DEF OthersStay, MoversKnow
    <2> QED BY <2>2, <2>3, <2>4, <2>5, RowStep
  <1>3. CASE ClaimAndDefer(w, r)
    BY <1>3 DEF ClaimAndDefer, ColumnInv, RowsFit, SessionsKnow, ExecutorsAlone,
                ConsolesOnly
  <1> QED BY <1>1, <1>2, <1>3 DEF ClaimStep

(* The auto-fail, the callback and time.                                   *)
LEMMA RunStepFits ==
  ASSUME IInv, ColumnInv, NEW r \in Runs, RunStep(r)
  PROVE  ColumnInv'
  <1>s. /\ row[r] \in Row /\ age[r] \in Nat /\ age \in [Runs -> 0..AgeAutoFail]
        /\ \A t \in Sessions : sess[t].loaded \in Row /\ sess[t].pc \in Pcs
        /\ RowFits(r, row[r], age[r])
    BY DEF IInv, TypeOK, AgeAutoFail, ColumnInv, RowsFit
  <1>e. ASSUME NEW t \in Sessions, sess[t].pc \in Executing, sess[t].run = r
        PROVE  ExecutorKnows(sess[t].loaded, row[r], age[r])
    BY <1>e DEF ColumnInv, SessionsKnow, Knows, Attached, Executing
  <1>1. CASE AutoFail(r)
    <2>1. PICK n : n = MarkFailed(r, row[r], "stale_running_auto_failed")
      OBVIOUS
    <2>2. PICK f : f = Flush(row[r], row[r], n)
      OBVIOUS
    <2>3. /\ row' = [row EXCEPT ![r] = f] /\ age' = age /\ sess' = sess
          /\ row[r].status = "running" /\ age[r] >= 1
      BY <1>s, <1>1, <2>1, <2>2 DEF AutoFail, Write, AgeAutoFail
    <2>4. "stale_running_auto_failed" \in Failures /\ row[r].error = "none"
      BY <1>s, <2>3 DEF Failures, RowFits, Open
    <2>5. f \in Row
      <3>1. n \in Row
        BY <1>s, <2>1, <2>4, FailureCloses
      <3> QED BY <1>s, <2>2, <3>1, FlushType
    <2>6. /\ RowFits(r, f, age[r]) /\ Advances(r, row[r], f)
          /\ ExecutorStillKnows(row[r], f, age[r])
      BY <1>s, <2>1, <2>2, <2>3, <2>4, RowStays, RepairWrites
    <2>7. OthersStay({}, r, f) /\ MoversKnow({}, r, f)
      BY <1>s, <1>e, <2>3, <2>6 DEF OthersStay, MoversKnow, ExecutorStillKnows
    <2> QED BY <2>3, <2>5, <2>6, <2>7, RowStep
  <1>2. CASE DeliverCallback(r)
    <2> PICK told \in {"pending", "delivered"} : row' = [row EXCEPT ![r].cb = told]
      BY <1>2 DEF DeliverCallback
    <2>1. PICK n : n = [row[r] EXCEPT !.cb = told]
      OBVIOUS
    <2>2. /\ row' = [row EXCEPT ![r] = n] /\ age' = age /\ sess' = sess
          /\ row[r].status \in Terminal
      BY <1>2, <2>1 DEF DeliverCallback
    <2>3. /\ n \in Row /\ n.status = row[r].status /\ n.error = row[r].error
          /\ n.result = row[r].result /\ n.cipher = row[r].cipher
          /\ n.cancel = row[r].cancel /\ n.retain = row[r].retain
          /\ n.purged = row[r].purged /\ n.cb # "not_requested"
      BY <1>s, <2>1 DEF Row, Callback
    <2>4. RowFits(r, n, age[r]) /\ Advances(r, row[r], n)
      BY <1>s, <2>2, <2>3 DEF RowFits, Advances
    <2>5. \A l : ExecutorKnows(l, row[r], age[r]) => ExecutorKnows(l, n, age[r])
      BY <2>3 DEF ExecutorKnows
    <2>6. OthersStay({}, r, n) /\ MoversKnow({}, r, n)
      BY <1>e, <2>2, <2>5 DEF OthersStay, MoversKnow
    <2> QED BY <2>2, <2>3, <2>4, <2>6, RowStep
  <1>3. CASE GrowOld(r)
    <2>1. /\ row' = row /\ sess' = sess /\ row[r].status = "running"
          /\ \A q \in Runs \ {r} : age'[q] = age[q]
          /\ age'[r] = age[r] + 1
          /\ \A c \in Consoles : sess[c].pc = "idle"
      BY <1>s, <1>3 DEF GrowOld
    <2>2. RowsFit'
      <3>1. RowFits(r, row[r], age'[r])
        BY <1>s, <2>1 DEF RowFits
      <3> QED BY <2>1, <3>1 DEF ColumnInv, RowsFit
    <2>3. SessionsKnow'
      <3> SUFFICES ASSUME NEW t \in Sessions, Attached(sess[t]), sess[t].run = r
                   PROVE  Knows(sess[t], row[r], age'[r])
        BY <2>1 DEF ColumnInv, SessionsKnow, Attached, IInv, SessionsExecute
      <3>1. sess[t].pc \in Executing
        BY <1>s, <2>1 DEF ColumnInv, ConsolesOnly, Attached, Pcs, Executing
      <3>2. Knows(sess[t], row[r], age[r])
        BY DEF ColumnInv, SessionsKnow
      <3> QED BY <2>1, <3>1, <3>2 DEF Knows, ExecutorKnows, Executing
    <2>4. ExecutorsAlone' /\ ConsolesOnly'
      BY <2>1 DEF ColumnInv, ExecutorsAlone, ConsolesOnly
    <2> QED BY <2>2, <2>3, <2>4 DEF ColumnInv
  <1>4. CASE WindowOpens(r)
    BY <1>4 DEF WindowOpens, ColumnInv, RowsFit, SessionsKnow, ExecutorsAlone,
                ConsolesOnly
  <1> QED BY <1>1, <1>2, <1>3, <1>4 DEF RunStep

-----------------------------------------------------------------------------
(* The whole specification.                                                *)
LEMMA InitFits == Init => ColumnInv
  <1> SUFFICES ASSUME Init PROVE ColumnInv
    OBVIOUS
  <1>1. /\ \A r \in Runs : row[r] = NoRow /\ age[r] = 0
        /\ \A s \in Sessions : sess[s] = Idle
    BY DEF Init
  <1>2. RowsFit
    BY <1>1 DEF RowsFit, RowFits, NoRow, Open, Terminal
  <1>3. SessionsKnow /\ ExecutorsAlone /\ ConsolesOnly
    BY <1>1 DEF SessionsKnow, ExecutorsAlone, ConsolesOnly, Attached, Executing, Idle
  <1> QED BY <1>2, <1>3 DEF ColumnInv

LEMMA StepFits == IInv /\ ColumnInv /\ [Next]_vars => ColumnInv'
  <1> SUFFICES ASSUME IInv, ColumnInv, [Next]_vars PROVE ColumnInv'
    OBVIOUS
  <1>1. CASE UNCHANGED vars
    BY <1>1 DEF vars, ColumnInv, RowsFit, SessionsKnow, ExecutorsAlone, ConsolesOnly
  <1>2. CASE \E a \in Apis : ApiStep(a)
    BY <1>2, ApiStepFits
  <1>3. CASE \E w \in Workers, r \in Runs : ClaimStep(w, r)
    BY <1>3, ClaimFits
  <1>4. CASE \E p \in Executors : ExecutorStep(p)
    BY <1>4, ExecutorStepFits
  <1>5. CASE \E c \in Consoles : ConsoleStep(c)
    BY <1>5, ConsoleStepFits
  <1>6. CASE \E r \in Runs : RunStep(r)
    BY <1>6, RunStepFits
  <1> QED BY <1>1, <1>2, <1>3, <1>4, <1>5, <1>6 DEF Next

LEMMA FitsIsCoherent == ColumnInv => ClosedRowIsCoherent
  BY DEF ColumnInv, RowsFit, RowFits, ClosedRowIsCoherent, OutcomeMatchesCode,
         ClosedRowIsComplete, SucceededHasResult

(* However the terminal writes of executors, cancel requests, repairs and  *)
(* purges interleave column by column, the row of a closed run fits        *)
(* together, for any runs, processes and number of attempts.               *)
THEOREM OutcomeCoherent == Spec => []ClosedRowIsCoherent
  <1>1. Init => IInv /\ ColumnInv
    BY InitIInv, InitFits
  <1>2. IInv /\ ColumnInv /\ [Next]_vars => (IInv /\ ColumnInv)'
    BY StepKept, KeptIsIInv, StepFits
  <1> QED BY <1>1, <1>2, FitsIsCoherent, PTL DEF Spec

-----------------------------------------------------------------------------
(* The contract with the callback workers.  Only a close asks for a        *)
(* callback, and a session whose copy is closed works on a closed row.     *)

AskedOfClosed ==
  \A r \in Runs :
    row[r].cb # "not_requested" => row[r].status \in Terminal /\ r \in CallbackRuns

CopiesClosed ==
  \A s \in Sessions :
    Attached(sess[s]) /\ sess[s].loaded.status \in Terminal
      => row[sess[s].run].status \in Terminal

AskInv == AskedOfClosed /\ CopiesClosed

\* A write leaves the callback alone, or closes the copy and schedules it.
Asks(r, l, n) == n.cb = l.cb \/ (n.status \in Terminal /\ n.cb = Scheduled(r))

\* What a step makes of the callbacks: a first close delivers nothing.
AllAsked ==
  /\ AskedOfClosed'
  /\ \A r \in Runs :
       row[r].status \notin Terminal /\ row'[r].status \in Terminal
         => row'[r].cb # "delivered"

(* Terminal writes ask.                                                    *)
LEMMA MarksAsk ==
  ASSUME NEW r, NEW l \in Row
  PROVE  /\ Asks(r, l, MarkSucceeded(r, l)) /\ Asks(r, l, MarkCanceled(r, l))
         /\ \A e : Asks(r, l, MarkFailed(r, l, e))
  BY DEF Asks, MarkSucceeded, MarkCanceled, MarkFailed, Close, Row, Terminal

(* A flushed write asks for the callback if it closes the row.             *)
LEMMA WriteAsks ==
  ASSUME IInv, AskedOfClosed, RowsKept, NEW r \in Runs, NEW l \in Row, NEW n \in Row,
         Closing(r, l, n), Asks(r, l, n), Write(r, l, n),
         l.status \in Terminal => row[r].status \in Terminal
  PROVE  AllAsked
  <1>1. PICK f : f = Flush(row[r], l, n)
    OBVIOUS
  <1>2. /\ f.status = IF n.status = l.status THEN row[r].status ELSE n.status
        /\ f.cb     = IF n.cb     = l.cb     THEN row[r].cb     ELSE n.cb
    BY <1>1, FlushEach
  <1>3. \A q \in Runs : row'[q] = IF q = r THEN f ELSE row[q]
    BY <1>1 DEF Write, IInv, TypeOK
  <1>4. row[r].status \in Terminal => f.status \in Terminal
    BY <1>3 DEF RowsKept
  <1>5. CASE f.cb = row[r].cb
    BY <1>3, <1>4, <1>5 DEF AllAsked, AskedOfClosed
  <1>6. CASE f.cb # row[r].cb
    <2>1. f.cb = Scheduled(r) /\ f.status \in Terminal
      BY <1>2, <1>4, <1>6 DEF Asks
    <2> QED BY <1>3, <2>1 DEF AllAsked, AskedOfClosed, Scheduled
  <1> QED BY <1>5, <1>6

(* A step that leaves the rows alone asks nothing.                         *)
LEMMA SameAsks ==
  ASSUME AskedOfClosed, row' = row PROVE AllAsked
  BY DEF AllAsked, AskedOfClosed

(* One row inserted or claimed.                                            *)
LEMMA RowAsks ==
  ASSUME IInv, AskedOfClosed, NEW r \in Runs, row[r].status \in {"none", "queued"},
         NEW n, row' = [row EXCEPT ![r] = n],
         n.cb = "not_requested" \/ (n.status \in Terminal /\ n.cb = Scheduled(r))
  PROVE  AllAsked
  <1>1. \A q \in Runs : row'[q] = IF q = r THEN n ELSE row[q]
    BY DEF IInv, TypeOK
  <1> QED BY <1>1 DEF AllAsked, AskedOfClosed, Scheduled

(* A session that leaves, and one whose new copy is open or is the row.    *)
LEMMA LeaveCopies ==
  ASSUME IInv, CopiesClosed, RowsKept, NEW s \in Sessions, Leave(s) \/ sess' = sess
  PROVE  CopiesClosed'
  <1>1. \A q \in Sessions :
          sess'[q] = sess[q] \/ ~Attached(sess'[q])
    BY DEF IInv, TypeOK, Leave, Idle, Attached
  <1>2. \A q \in Sessions : Attached(sess[q]) => sess[q].run \in Runs
    BY DEF IInv, SessionsExecute, Attached
  <1> QED BY <1>1, <1>2 DEF CopiesClosed, RowsKept

LEMMA BecomeCopies ==
  ASSUME IInv, CopiesClosed, RowsKept, NEW s \in Sessions, NEW pc, NEW r \in Runs, NEW l,
         NEW k, Become(s, pc, r, l, k),
         l.status \in Terminal => row[r].status \in Terminal
  PROVE  CopiesClosed'
  <1>1. \A q \in Sessions :
          sess'[q] = IF q = s THEN [pc |-> pc, run |-> r, loaded |-> l, attempt |-> k]
                              ELSE sess[q]
    BY DEF IInv, TypeOK, Become
  <1>2. \A q \in Sessions : Attached(sess[q]) => sess[q].run \in Runs
    BY DEF IInv, SessionsExecute, Attached
  <1> QED BY <1>1, <1>2 DEF CopiesClosed, RowsKept

(* A session that writes its run and ends.                                 *)
LEMMA WriteAndLeaveAsks ==
  ASSUME IInv, AskInv, RowsKept, NEW s \in Sessions, NEW n \in Row,
         sess[s].pc \notin {"idle", "admitted"},
         Closing(sess[s].run, sess[s].loaded, n), Asks(sess[s].run, sess[s].loaded, n),
         Write(sess[s].run, sess[s].loaded, n), Leave(s)
  PROVE  AllAsked /\ CopiesClosed'
  <1>1. /\ sess[s].run \in Runs /\ sess[s].loaded \in Row
        /\ sess[s].loaded.status \in Terminal => row[sess[s].run].status \in Terminal
    BY DEF IInv, TypeOK, SessionsExecute, AskInv, CopiesClosed, Attached
  <1> QED BY <1>1, WriteAsks, LeaveCopies DEF AskInv

LEMMA ApiStepAsks ==
  ASSUME IInv, AskInv, RowsKept, NEW a \in Apis, ApiStep(a)
  PROVE  AllAsked /\ CopiesClosed'
  <1> DEFINE r == sess[a].run
  <1>s. /\ a \in Sessions /\ AskedOfClosed /\ CopiesClosed
        /\ sess[a].pc = "admitted" => r \in Runs
    BY DEF Sessions, Executors, IInv, SessionsExecute, AskInv
  <1>n. /\ NewRow(r).cb = "not_requested" /\ NewRow(r).status \notin Terminal
        /\ NewRow(r) \in Row
    BY NewRowType DEF NewRow, NoRow, Terminal
  <1>1. ASSUME NEW q \in Runs, Admit(a, q) PROVE AllAsked /\ CopiesClosed'
    <2>1. NoRow.status \notin Terminal
      BY DEF NoRow, Terminal
    <2>2. Become(a, "admitted", q, NoRow, 0) /\ row' = row
      BY <1>1 DEF Admit
    <2> QED BY <1>s, <2>1, <2>2, SameAsks, BecomeCopies
  <1>2. CASE CreateConflict(a)
    BY <1>2, <1>s, SameAsks, LeaveCopies DEF CreateConflict
  <1>3. CASE CreateQueued(a)
    <2>1. /\ r \in Runs /\ row[r].status = "none" /\ row' = [row EXCEPT ![r] = NewRow(r)]
          /\ Leave(a)
      BY <1>3, <1>s DEF CreateQueued
    <2> HIDE DEF r
    <2>2. AllAsked
      BY <1>s, <1>n, <2>1, RowAsks
    <2> QED BY <1>s, <2>1, <2>2, LeaveCopies
  <1>4. CASE CreateInline(a)
    <2>1. /\ r \in Runs /\ row[r].status = "none" /\ row' = [row EXCEPT ![r] = NewRow(r)]
          /\ Become(a, "calling", r, NewRow(r), 1)
      BY <1>4, <1>s DEF CreateInline
    <2> HIDE DEF r
    <2>2. AllAsked
      BY <1>s, <1>n, <2>1, RowAsks
    <2>3. CopiesClosed'
      BY <1>s, <1>n, <2>1, BecomeCopies
    <2> QED BY <2>2, <2>3
  <1>5. CASE CreateFailed(a)
    <2>1. PICK n : n = MarkFailed(r, NewRow(r), "provider_failed")
      OBVIOUS
    <2>2. n.cb = "not_requested" \/ (n.status \in Terminal /\ n.cb = Scheduled(r))
      BY <1>n, <2>1, MarksAsk DEF Asks
    <2>3. /\ r \in Runs /\ row[r].status = "none" /\ row' = [row EXCEPT ![r] = n]
          /\ Leave(a)
      BY <1>5, <1>s, <2>1 DEF CreateFailed
    <2> HIDE DEF r
    <2> QED BY <1>s, <2>2, <2>3, RowAsks, LeaveCopies
  <1> QED BY <1>1, <1>2, <1>3, <1>4, <1>5 DEF ApiStep

LEMMA ClaimStepAsks ==
  ASSUME IInv, AskInv, RowsKept, NEW w \in Workers, NEW r \in Runs, ClaimStep(w, r)
  PROVE  AllAsked /\ CopiesClosed'
  <1>s. /\ w \in Sessions /\ AskedOfClosed /\ CopiesClosed /\ row[r] \in Row
    BY DEF Sessions, Executors, IInv, TypeOK, AskInv
  <1>c. row[r].status = "queued" =>
          /\ Claimed(r) \in Row /\ Claimed(r).status \notin Terminal
          /\ Claimed(r).cb = "not_requested"
    BY <1>s DEF Claimed, Row, Statuses, Terminal, AskedOfClosed
  <1>1. CASE ClaimAndCall(w, r)
    <2>1. /\ row[r].status = "queued" /\ row' = [row EXCEPT ![r] = Claimed(r)]
          /\ Become(w, "calling", r, Claimed(r), 1)
      BY <1>1 DEF ClaimAndCall, Claimable
    <2>2. AllAsked
      BY <1>s, <1>c, <2>1, RowAsks
    <2>3. CopiesClosed'
      BY <1>s, <1>c, <2>1, BecomeCopies
    <2> QED BY <2>2, <2>3
  <1>2. CASE ClaimAndFail(w, r)
    <2>1. PICK n : n = MarkFailed(r, Claimed(r), "provider_failed")
      OBVIOUS
    <2>2. /\ row[r].status = "queued" /\ row' = [row EXCEPT ![r] = n]
          /\ sess' = sess
      BY <1>2, <2>1 DEF ClaimAndFail, Claimable
    <2>3. n.cb = "not_requested" \/ (n.status \in Terminal /\ n.cb = Scheduled(r))
      BY <1>c, <2>1, <2>2, MarksAsk DEF Asks
    <2> QED BY <1>s, <2>2, <2>3, RowAsks, LeaveCopies
  <1>3. CASE ClaimAndDefer(w, r)
    BY <1>3, <1>s, SameAsks, LeaveCopies DEF ClaimAndDefer
  <1> QED BY <1>1, <1>2, <1>3 DEF ClaimStep

LEMMA ExecutorStepAsks ==
  ASSUME IInv, AskInv, RowsKept, NEW p \in Executors, ExecutorStep(p)
  PROVE  AllAsked /\ CopiesClosed'
  <1> DEFINE r == sess[p].run
             l == sess[p].loaded
  <1>s. /\ p \in Sessions /\ AskedOfClosed /\ CopiesClosed /\ l \in Row
        /\ sess[p].pc \in Executing =>
             /\ r \in Runs /\ executed[r] = 1
             /\ l.status \in Terminal => row[r].status \in Terminal
    BY DEF Sessions, IInv, TypeOK, SessionsExecute, AskInv, CopiesClosed, Attached, Executing
  <1>m. /\ MarkFailed(r, l, "provider_failed") \in Row
        /\ Closing(r, l, MarkFailed(r, l, "provider_failed"))
        /\ MarkCanceled(r, l) \in Row /\ Closing(r, l, MarkCanceled(r, l))
        /\ MarkSucceeded(r, l) \in Row
        /\ executed[r] = 1 => Closing(r, l, MarkSucceeded(r, l))
        /\ Asks(r, l, MarkFailed(r, l, "provider_failed"))
        /\ Asks(r, l, MarkCanceled(r, l)) /\ Asks(r, l, MarkSucceeded(r, l))
    <2>1. "provider_failed" \in Failures
      BY DEF Failures
    <2> HIDE DEF r, l
    <2> QED BY <1>s, <2>1, MarksAreClosing, MarksAsk
  <1>1. CASE Succeed(p)
    BY <1>1, <1>s, <1>m, WriteAndLeaveAsks DEF Succeed, Executing
  <1>2. CASE Fail(p)
    BY <1>2, <1>s, <1>m, WriteAndLeaveAsks DEF Fail, Executing
  <1>3. CASE NextAttempt(p)
    <2>1. r \in Runs /\ row' = row /\ Become(p, "retrying", r, row[r], sess[p].attempt + 1)
      BY <1>3, <1>s DEF NextAttempt, Executing
    <2> HIDE DEF r
    <2> QED BY <1>s, <2>1, SameAsks, BecomeCopies
  <1>4. CASE StopCanceled(p)
    BY <1>4, <1>s, <1>m, WriteAndLeaveAsks DEF StopCanceled, Executing
  <1>5. CASE CallAgain(p)
    <2>1. /\ r \in Runs /\ row' = row /\ Become(p, "calling", r, l, sess[p].attempt)
          /\ l.status \in Terminal => row[r].status \in Terminal
      BY <1>5, <1>s DEF CallAgain, Executing
    <2> HIDE DEF r, l
    <2> QED BY <1>s, <2>1, SameAsks, BecomeCopies
  <1>6. CASE Crash(p)
    BY <1>6, <1>s, SameAsks, LeaveCopies DEF Crash
  <1> QED BY <1>1, <1>2, <1>3, <1>4, <1>5, <1>6 DEF ExecutorStep

LEMMA ConsoleStepAsks ==
  ASSUME IInv, AskInv, RowsKept, NEW c \in Consoles, ConsoleStep(c)
  PROVE  AllAsked /\ CopiesClosed'
  <1> DEFINE r == sess[c].run
             l == sess[c].loaded
             purge == [l EXCEPT !.result = FALSE, !.cipher = FALSE,
                                !.purged = TRUE]
             asked == [l EXCEPT !.cancel = TRUE]
  <1>s. c \in Sessions /\ l \in Row /\ AskedOfClosed /\ CopiesClosed
    BY DEF Sessions, IInv, TypeOK, AskInv
  <1>m. /\ MarkFailed(r, l, "operator_stale_running_failed") \in Row
        /\ Closing(r, l, MarkFailed(r, l, "operator_stale_running_failed"))
        /\ MarkCanceled(r, l) \in Row /\ Closing(r, l, MarkCanceled(r, l))
        /\ Asks(r, l, MarkFailed(r, l, "operator_stale_running_failed"))
        /\ Asks(r, l, MarkCanceled(r, l))
    <2>1. "operator_stale_running_failed" \in Failures
      BY DEF Failures
    <2> HIDE DEF r, l
    <2> QED BY <1>s, <2>1, MarksAreClosing, MarksAsk
  <1>k. /\ purge \in Row /\ Closing(r, l, purge) /\ Asks(r, l, purge)
        /\ asked \in Row
        /\ Closing(r, l, asked)
        /\ Asks(r, l, asked)
    <2> HIDE DEF r, l
    <2>1. /\ purge \in Row /\ Closing(r, l, purge)
          /\ asked \in Row
          /\ Closing(r, l, asked)
      BY <1>s DEF Closing, Row
    <2>2. /\ purge.status = l.status /\ purge.cb = l.cb
          /\ asked.status = l.status
          /\ asked.cb = l.cb
      BY <1>s DEF Row
    <2> HIDE DEF purge, asked
    <2> QED BY <2>1, <2>2 DEF Asks
  <1>1. ASSUME NEW q \in Runs, NEW op, Load(c, op, q) PROVE AllAsked /\ CopiesClosed'
    BY <1>1, <1>s, SameAsks, BecomeCopies DEF Load
  <1>2. CASE \E q \in Runs : CancelRead(c, q) \/ MarkRead(c, q) \/ PurgeRead(c, q)
    BY <1>1, <1>2 DEF CancelRead, MarkRead, PurgeRead
  <1>3. CASE CancelWrite(c)
    BY <1>3, <1>s, <1>m, <1>k, WriteAndLeaveAsks DEF CancelWrite
  <1>4. CASE MarkWrite(c)
    BY <1>4, <1>s, <1>m, WriteAndLeaveAsks DEF MarkWrite
  <1>5. CASE PurgeWrite(c)
    BY <1>5, <1>s, <1>k, WriteAndLeaveAsks DEF PurgeWrite
  <1>6. CASE Crash(c)
    BY <1>6, <1>s, SameAsks, LeaveCopies DEF Crash
  <1> QED BY <1>2, <1>3, <1>4, <1>5, <1>6 DEF ConsoleStep, ConsoleEnd

LEMMA RunStepAsks ==
  ASSUME IInv, AskInv, RowsKept, NEW r \in Runs, RunStep(r)
  PROVE  AllAsked /\ CopiesClosed'
  <1>s. /\ row \in [Runs -> Row] /\ row[r] \in Row /\ AskedOfClosed
        /\ sess' = sess
    BY DEF IInv, TypeOK, AskInv, RunStep, AutoFail, DeliverCallback, GrowOld, WindowOpens
  <1>c. CopiesClosed'
    <2>1. \A q \in Sessions : Attached(sess[q]) => sess[q].run \in Runs
      BY DEF IInv, SessionsExecute, Attached
    <2> QED BY <1>s, <2>1 DEF AskInv, CopiesClosed, RowsKept
  <1>1. CASE AutoFail(r)
    <2>1. /\ MarkFailed(r, row[r], "stale_running_auto_failed") \in Row
          /\ Closing(r, row[r], MarkFailed(r, row[r], "stale_running_auto_failed"))
          /\ Asks(r, row[r], MarkFailed(r, row[r], "stale_running_auto_failed"))
      BY <1>s, MarksAreClosing, MarksAsk DEF Failures
    <2> QED BY <1>1, <1>s, <1>c, <2>1, WriteAsks DEF AutoFail
  <1>2. CASE DeliverCallback(r)
    BY <1>2, <1>s, <1>c DEF DeliverCallback, Row, AllAsked, AskedOfClosed
  <1>3. CASE GrowOld(r) \/ WindowOpens(r)
    BY <1>3, <1>s, <1>c, SameAsks DEF GrowOld, WindowOpens
  <1> QED BY <1>1, <1>2, <1>3 DEF RunStep

LEMMA StepAsks == IInv /\ AskInv /\ [Next]_vars => AllAsked /\ CopiesClosed'
  <1> SUFFICES ASSUME IInv, AskInv, [Next]_vars PROVE AllAsked /\ CopiesClosed'
    OBVIOUS
  <1>1. RowsKept
    BY StepKept DEF Kept
  <1>2. CASE UNCHANGED vars
    BY <1>2, SameAsks DEF vars, AskInv, CopiesClosed
  <1>3. CASE Next
    BY <1>1, <1>3, ApiStepAsks, ClaimStepAsks, ExecutorStepAsks, ConsoleStepAsks,
       RunStepAsks DEF Next
  <1> QED BY <1>2, <1>3

(* What the contract sees of one run, before and after a step.             *)
LEMMA ClosedOf ==
  ASSUME NEW r \in Runs
  PROVE  /\ [q \in Runs |-> row[q].status \in Terminal][r] <=> row[r].status \in Terminal
         /\ [q \in Runs |-> row[q].status \in Terminal]'[r] <=> row'[r].status \in Terminal
         /\ [q \in Runs |-> row[q].cb][r] = row[r].cb
         /\ [q \in Runs |-> row[q].cb]'[r] = row'[r].cb
  OBVIOUS

(* A step of the run is one of the contract, or none.                      *)
LEMMA StepIsContractStep ==
  ASSUME IInv, IInv', AskInv, AllAsked, RowsFit, RowsFit', RowsKept, NEW r \in Runs
  PROVE  \/ Callbacks!Close(r) \/ Callbacks!Deliver(r)
         \/ UNCHANGED <<[q \in Runs |-> row[q].status \in Terminal][r],
                        [q \in Runs |-> row[q].cb][r]>>
  <1>1. /\ row[r].cb \in Callback /\ row'[r].cb \in Callback
        /\ row[r].cb # "not_requested" <=> row[r].status \in Terminal /\ r \in CallbackRuns
        /\ row'[r].cb # "not_requested" <=> row'[r].status \in Terminal /\ r \in CallbackRuns
        /\ row[r].status \in Terminal => row'[r].status \in Terminal
    BY DEF IInv, TypeOK, Row, AskInv, AllAsked, AskedOfClosed, RowsFit, RowFits, RowsKept
  <1>2. CASE row[r].status \in Terminal /\ r \in CallbackRuns
    <2>1. row'[r].cb \in {"pending", "delivered"} /\ row'[r].status \in Terminal
      BY <1>1, <1>2 DEF Callback
    <2>2. Callbacks!Deliver(r)
      BY <1>2, <2>1, ClosedOf, Zenon DEF Callbacks!Deliver
    <2> QED BY <2>2
  <1>3. CASE row[r].status \notin Terminal /\ row'[r].status \in Terminal
    <2>1. row'[r].cb = Callbacks!Requested(r)
      BY <1>1, <1>3 DEF AllAsked, Callback, Callbacks!Requested
    <2>2. Callbacks!Close(r)
      BY <1>3, <2>1, ClosedOf, Zenon DEF Callbacks!Close
    <2> QED BY <2>2
  <1>4. CASE /\ row[r].status \in Terminal <=> row'[r].status \in Terminal
             /\ row'[r].cb = row[r].cb
    BY <1>4
  <1> QED BY <1>1, <1>2, <1>3, <1>4

(* The writers of a run keep the contract with the callback workers, for   *)
(* any runs, processes and attempts: the first close asks for the callback *)
(* of a run that has a target, whichever session makes it, and no stale    *)
(* copy, purge or repair takes the request back.                           *)
THEOREM CallbacksKept == Spec => KeepsCallbacks
  <1> DEFINE All == IInv /\ ColumnInv /\ AskInv
  <1>1. Init => All
    BY InitIInv, InitFits DEF Init, AskInv, AskedOfClosed, CopiesClosed, NoRow, Idle,
       Attached
  <1>2. All /\ [Next]_vars => All'
    BY StepKept, KeptIsIInv, StepFits, StepAsks DEF AskInv, AllAsked
  <1>3. Init => Callbacks!Init
    <2>1. ASSUME Init, NEW r \in Runs PROVE Callbacks!Open(r)
      <3>1. row[r].status \notin Terminal /\ row[r].cb = "not_requested"
        BY <2>1 DEF Init, NoRow, Terminal
      <3> QED BY <3>1, ClosedOf, Zenon DEF Callbacks!Open
    <2> QED BY <2>1 DEF Callbacks!Init
  <1>4. All /\ All' /\ [Next]_vars => [Callbacks!Next]_Callbacks!vars
    BY StepAsks, StepKept, StepIsContractStep DEF ColumnInv, Kept, Callbacks!Next
  <1> QED BY <1>1, <1>2, <1>3, <1>4, PTL
          DEF Spec, KeepsCallbacks, Callbacks!Spec
=============================================================================
