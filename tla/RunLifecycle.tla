---------------------------- MODULE RunLifecycle ----------------------------
(***************************************************************************)
(* The durable life of a hosted run: one row of run_records, written by    *)
(* the API request that creates it, by the queue worker that claims it, by *)
(* a cancel request, by an operator's repair, by the stale-run auto-fail   *)
(* and by the retention cleanup.                                           *)
(*                                                                         *)
(* All of them but the claim and the auto-fail work the way the ORM does:  *)
(* they load a row, decide on the loaded copy and later write back only    *)
(* the columns whose value differs from that copy (UPDATE ... WHERE run_id *)
(* with no version column, autoflush off, expire_on_commit off).  Flush is *)
(* that write.  What happens inside one transaction that holds the row     *)
(* lock is one step; what happens around a provider call, or between a     *)
(* plain read and its write, is several.                                   *)
(*                                                                         *)
(* A run stands for one (site_id, idempotency_key).  Clocks are abstract:  *)
(* age[r] counts the stale thresholds that processing_started_at has       *)
(* passed, and a retention period may be over any time after it started.   *)
(***************************************************************************)
EXTENDS Naturals, FiniteSets

CONSTANTS
  Runs,            \* (site, idempotency key) pairs
  QueueRuns,       \* those with whole_run_offload and a task backend: queued
  InlineRuns,      \* those with execution_pattern "inline"
  BackgroundRuns,  \* queued ones a worker may defer to a later window
  CallbackRuns,    \* those with a registered terminal callback target
  TtlRuns,         \* those whose policy carries a positive retention_ttl
  Apis,            \* API processes serving execute requests
  Workers,         \* runtime queue workers
  Consoles,        \* cancel requests, operator repairs, retention cleanups
  MaxAttempts,     \* provider attempts of one execution, all candidates
  NoRun            \* the run of an idle session

ASSUME ConstantsAssumption ==
  /\ QueueRuns \subseteq Runs /\ InlineRuns \subseteq Runs \ QueueRuns
  /\ BackgroundRuns \subseteq QueueRuns
  /\ CallbackRuns \subseteq Runs /\ TtlRuns \subseteq Runs
  /\ Apis \cap Workers = {} /\ Consoles \cap (Apis \cup Workers) = {}
  /\ MaxAttempts \in Nat \ {0}
  /\ NoRun \notin Runs

VARIABLES
  row,       \* the committed row of each run
  age,       \* stale thresholds passed since processing_started_at (0, 1, 2)
  eligible,  \* worker_eligible_at is unset or past
  sess,      \* what each process holds in memory between two steps
  executed   \* how many executions of the run reached a provider (history)

vars == <<row, age, eligible, sess, executed>>

Executors == Apis \cup Workers
Sessions  == Executors \cup Consoles

Terminal == {"succeeded", "failed", "canceled"}
Statuses == {"none", "queued", "running"} \cup Terminal
Failures == {"provider_failed", "operator_stale_running_failed",
             "stale_running_auto_failed"}
Callback == {"not_requested", "pending", "delivered"}

\* AgeOperator: RUNTIME_DIAGNOSTIC_RUNNING_STALE_AFTER_SECONDS has passed;
\* AgeAutoFail: the longer per-run auto-fail budget has passed as well.
AgeOperator == 1
AgeAutoFail == 2

Row == [status : Statuses,
        error  : {"none", "canceled"} \cup Failures,
        result : BOOLEAN,       \* result_json is present
        cipher : BOOLEAN,       \* execution_input_ciphertext is present
        cancel : BOOLEAN,       \* cancel_requested_at is set
        retain : BOOLEAN,       \* retention_expires_at is set
        purged : BOOLEAN,       \* result_purged_at is set
        cb     : Callback]

NoRow == [status |-> "none", error |-> "none", result |-> FALSE,
          cipher |-> FALSE, cancel |-> FALSE, retain |-> FALSE,
          purged |-> FALSE, cb |-> "not_requested"]

Idle == [pc |-> "idle", run |-> NoRun, loaded |-> NoRow, attempt |-> 0]

Pcs == {"idle", "admitted", "calling", "retrying", "cancel", "mark", "purge"}

-----------------------------------------------------------------------------
(* The writes.  Each Mark takes the copy a session holds.                  *)

\* A column is part of the UPDATE only if it changed in memory.
Column(db, loaded, new) == IF new = loaded THEN db ELSE new

\* Mutated: every column is written, as a bulk UPDATE of the entity would.
FlushWholeRow(db, l, n) == n

Flush(db, l, n) ==
  [status |-> Column(db.status, l.status, n.status),
   error  |-> Column(db.error,  l.error,  n.error),
   result |-> Column(db.result, l.result, n.result),
   cipher |-> Column(db.cipher, l.cipher, n.cipher),
   cancel |-> Column(db.cancel, l.cancel, n.cancel),
   retain |-> Column(db.retain, l.retain, n.retain),
   purged |-> Column(db.purged, l.purged, n.purged),
   cb     |-> Column(db.cb,     l.cb,     n.cb)]

Write(r, l, n) == row' = [row EXCEPT ![r] = Flush(@, l, n)]

Scheduled(r) == IF r \in CallbackRuns THEN "pending" ELSE "not_requested"

\* Mutated: the close leaves the callback to somebody else.
CloseUnscheduled(r, l, status, error) ==
  [l EXCEPT !.status = status, !.error = error, !.cipher = FALSE,
            !.retain = (r \in TtlRuns)]

\* What mark_run_succeeded, mark_run_failed and mark_run_canceled share.
Close(r, l, status, error) ==
  [l EXCEPT !.status = status, !.error = error, !.cipher = FALSE,
            !.retain = (r \in TtlRuns), !.cb = Scheduled(r)]

MarkSucceeded(r, l) ==
  [Close(r, l, "succeeded", "none") EXCEPT !.result = TRUE]

\* Mutated: a failure stores a degraded result.
MarkFailedDegraded(r, l, error) ==
  [Close(r, l, "failed", error) EXCEPT !.result = TRUE]

MarkFailed(r, l, error) == Close(r, l, "failed", error)

MarkCanceled(r, l) ==
  [Close(r, l, "canceled", "canceled") EXCEPT !.cancel = TRUE]

\* create_run inserts a queued row, or a running one the request executes.
NewRow(r) ==
  [NoRow EXCEPT !.status = IF r \in QueueRuns THEN "queued" ELSE "running",
                !.cipher = (r \in QueueRuns)]

Become(s, pc, r, l, n) ==
  sess' = [sess EXCEPT ![s] = [pc |-> pc, run |-> r, loaded |-> l,
                               attempt |-> n]]

Leave(s) == sess' = [sess EXCEPT ![s] = Idle]

-----------------------------------------------------------------------------
(* execute: replay lookup, insert, and for inline runs the execution.      *)

\* No run has this idempotency key yet, so the request will insert one.  A
\* request that finds the run returns it and changes nothing.
Admit(a, r) ==
  /\ sess[a].pc = "idle"
  /\ row[r].status = "none"
  /\ Become(a, "admitted", r, NoRow, 0)
  /\ UNCHANGED <<row, age, eligible, executed>>

\* Two requests may both have missed: (site_id, idempotency_key) is unique,
\* the second INSERT fails and its transaction is rolled back.
CreateConflict(a) ==
  /\ sess[a].pc = "admitted"
  /\ row[sess[a].run].status # "none"
  /\ Leave(a)
  /\ UNCHANGED <<row, age, eligible, executed>>

CreateQueued(a) ==
  LET r == sess[a].run IN
  /\ sess[a].pc = "admitted"
  /\ r \in QueueRuns
  /\ row[r].status = "none"
  /\ row' = [row EXCEPT ![r] = NewRow(r)]
  /\ eligible' = [eligible EXCEPT ![r] = r \notin BackgroundRuns]
  /\ Leave(a)
  /\ UNCHANGED <<age, executed>>

\* The row becomes visible with the first checkpoint before a provider call.
CreateInline(a) ==
  LET r == sess[a].run IN
  /\ sess[a].pc = "admitted"
  /\ r \notin QueueRuns
  /\ row[r].status = "none"
  /\ row' = [row EXCEPT ![r] = NewRow(r)]
  /\ executed' = [executed EXCEPT ![r] = @ + 1]
  /\ Become(a, "calling", r, NewRow(r), 1)
  /\ UNCHANGED <<age, eligible>>

\* Preparing the input or the first candidate fails: inserted as failed.
CreateFailed(a) ==
  LET r == sess[a].run IN
  /\ sess[a].pc = "admitted"
  /\ r \notin QueueRuns
  /\ row[r].status = "none"
  /\ row' = [row EXCEPT ![r] = MarkFailed(r, NewRow(r), "provider_failed")]
  /\ Leave(a)
  /\ UNCHANGED <<age, eligible, executed>>

-----------------------------------------------------------------------------
(* The queue worker.  The claim is UPDATE ... WHERE status = 'queued', and *)
(* its row lock is held until the first commit.                            *)

\* Mutated: a running row may be claimed again, as if its lease had ended.
ClaimableAgain(r) == row[r].status \in {"queued", "running"} /\ eligible[r]

Claimable(r) == row[r].status = "queued" /\ eligible[r]

Claimed(r) == [row[r] EXCEPT !.status = "running"]

ClaimAndCall(w, r) ==
  /\ sess[w].pc = "idle"
  /\ Claimable(r)
  /\ row' = [row EXCEPT ![r] = Claimed(r)]
  /\ age' = [age EXCEPT ![r] = 0]
  /\ executed' = [executed EXCEPT ![r] = @ + 1]
  /\ Become(w, "calling", r, Claimed(r), 1)
  /\ UNCHANGED eligible

\* Paused feature, undecodable input or no usable candidate.
ClaimAndFail(w, r) ==
  /\ sess[w].pc = "idle"
  /\ Claimable(r)
  /\ row' = [row EXCEPT ![r] = MarkFailed(r, Claimed(r), "provider_failed")]
  /\ age' = [age EXCEPT ![r] = 0]
  /\ UNCHANGED <<eligible, sess, executed>>

\* defer_run_until: back to queued, not claimable before the window.
ClaimAndDefer(w, r) ==
  /\ sess[w].pc = "idle"
  /\ Claimable(r)
  /\ r \in BackgroundRuns
  /\ eligible' = [eligible EXCEPT ![r] = FALSE]
  /\ UNCHANGED <<row, age, sess, executed>>

-----------------------------------------------------------------------------
(* The candidate chain, in a worker or in an inline request.  Nothing      *)
(* re-reads the row between the provider's answer and the terminal write.  *)

Succeed(p) ==
  LET r == sess[p].run l == sess[p].loaded IN
  /\ sess[p].pc = "calling"
  /\ Write(r, l, MarkSucceeded(r, l))
  /\ Leave(p)
  /\ UNCHANGED <<age, eligible, executed>>

\* A final provider error, a rejected output, or a missing provider or an
\* exhausted budget found at the start of a later attempt.
Fail(p) ==
  LET r == sess[p].run l == sess[p].loaded IN
  /\ sess[p].pc \in {"calling", "retrying"}
  /\ Write(r, l, MarkFailed(r, l, "provider_failed"))
  /\ Leave(p)
  /\ UNCHANGED <<age, eligible, executed>>

\* Mutated: the retry loop has lost its bound.
NextAttemptUnbounded(p) ==
  /\ sess[p].pc = "calling"
  /\ Become(p, "retrying", sess[p].run, row[sess[p].run], sess[p].attempt + 1)
  /\ UNCHANGED <<row, age, eligible, executed>>

\* Retry or fall back to the next candidate: cancel_if_requested reloads.
NextAttempt(p) ==
  /\ sess[p].pc = "calling"
  /\ sess[p].attempt < MaxAttempts
  /\ Become(p, "retrying", sess[p].run, row[sess[p].run], sess[p].attempt + 1)
  /\ UNCHANGED <<row, age, eligible, executed>>

CancelSeen(l) == l.cancel /\ l.status = "running"

StopCanceled(p) ==
  LET r == sess[p].run l == sess[p].loaded IN
  /\ sess[p].pc = "retrying"
  /\ CancelSeen(l)
  /\ Write(r, l, MarkCanceled(r, l))
  /\ Leave(p)
  /\ UNCHANGED <<age, eligible, executed>>

CallAgain(p) ==
  /\ sess[p].pc = "retrying"
  /\ ~CancelSeen(sess[p].loaded)
  /\ Become(p, "calling", sess[p].run, sess[p].loaded, sess[p].attempt)
  /\ UNCHANGED <<row, age, eligible, executed>>

\* The process dies, or an unexpected exception rolls its session back.
Crash(p) ==
  /\ sess[p].pc # "idle"
  /\ Leave(p)
  /\ UNCHANGED <<row, age, eligible, executed>>

-----------------------------------------------------------------------------
(* Cancel requests, operator repair, retention: a plain read, then a write *)
(* that does not check that the row is still the one that was read.        *)

Load(c, op, r) ==
  /\ sess[c].pc = "idle"
  /\ Become(c, op, r, row[r], 0)
  /\ UNCHANGED <<row, age, eligible, executed>>

CancelRead(c, r) ==
  /\ r \in QueueRuns
  /\ row[r].status \in {"queued", "running"}
  /\ Load(c, "cancel", r)

CancelWrite(c) ==
  LET r == sess[c].run l == sess[c].loaded IN
  /\ sess[c].pc = "cancel"
  /\ \/ l.status = "queued"  /\ Write(r, l, MarkCanceled(r, l))
     \/ l.status = "running" /\ Write(r, l, [l EXCEPT !.cancel = TRUE])
  /\ Leave(c)
  /\ UNCHANGED <<age, eligible, executed>>

MarkRead(c, r) ==
  /\ row[r].status = "running"
  /\ age[r] >= AgeOperator
  /\ Load(c, "mark", r)

MarkWrite(c) ==
  LET r == sess[c].run l == sess[c].loaded IN
  /\ sess[c].pc = "mark"
  /\ Write(r, l, MarkFailed(r, l, "operator_stale_running_failed"))
  /\ Leave(c)
  /\ UNCHANGED <<age, eligible, executed>>

PurgeRead(c, r) ==
  /\ row[r].retain /\ ~row[r].purged
  /\ Load(c, "purge", r)

\* Mutated: the purge does not record that it ran.
PurgeWriteUnrecorded(c) ==
  LET r == sess[c].run l == sess[c].loaded IN
  /\ sess[c].pc = "purge"
  /\ Write(r, l, [l EXCEPT !.result = FALSE, !.cipher = FALSE])
  /\ Leave(c)
  /\ UNCHANGED <<age, eligible, executed>>

PurgeWrite(c) ==
  LET r == sess[c].run l == sess[c].loaded IN
  /\ sess[c].pc = "purge"
  /\ Write(r, l, [l EXCEPT !.result = FALSE, !.cipher = FALSE,
                           !.purged = TRUE])
  /\ Leave(c)
  /\ UNCHANGED <<age, eligible, executed>>

-----------------------------------------------------------------------------
(* Auto-fail of stale inline runs: SELECT ... FOR UPDATE, then re-check.   *)

\* Mutated: the re-check under the lock asks for an expired lease as well.
AutoFailWhenPurged(r) ==
  /\ r \in InlineRuns
  /\ row[r].status = "running"
  /\ row[r].retain
  /\ age[r] >= AgeAutoFail
  /\ Write(r, row[r], MarkFailed(r, row[r], "stale_running_auto_failed"))
  /\ UNCHANGED <<age, eligible, sess, executed>>

AutoFail(r) ==
  /\ r \in InlineRuns
  /\ row[r].status = "running"
  /\ age[r] >= AgeAutoFail
  /\ Write(r, row[r], MarkFailed(r, row[r], "stale_running_auto_failed"))
  /\ UNCHANGED <<age, eligible, sess, executed>>

\* The callback workers and redelivery, in one step; a late mark or a redelivery
\* takes back a delivery.  CallbackDelivery has the detail: see CallbackContract.
DeliverCallback(r) ==
  /\ row[r].status \in Terminal
  /\ row[r].cb # "not_requested"
  /\ \E told \in {"pending", "delivered"} : row' = [row EXCEPT ![r].cb = told]
  /\ UNCHANGED <<age, eligible, sess, executed>>

\* Time.  A running row passes its next threshold: a quarter of an hour and
\* more, in which no console is between its read and its write.
GrowOld(r) ==
  /\ \A c \in Consoles : sess[c].pc = "idle"
  /\ row[r].status = "running"
  /\ age[r] < AgeAutoFail
  /\ age' = [age EXCEPT ![r] = @ + 1]
  /\ UNCHANGED <<row, eligible, sess, executed>>

WindowOpens(r) ==
  /\ row[r].status = "queued"
  /\ ~eligible[r]
  /\ eligible' = [eligible EXCEPT ![r] = TRUE]
  /\ UNCHANGED <<row, age, sess, executed>>

-----------------------------------------------------------------------------
Init ==
  /\ row = [r \in Runs |-> NoRow]
  /\ age = [r \in Runs |-> 0]
  /\ eligible = [r \in Runs |-> TRUE]
  /\ sess = [s \in Sessions |-> Idle]
  /\ executed = [r \in Runs |-> 0]

ApiStep(a) ==
  \/ \E r \in Runs : Admit(a, r)
  \/ CreateConflict(a)
  \/ CreateQueued(a)
  \/ CreateInline(a)
  \/ CreateFailed(a)

ClaimStep(w, r) ==
  \/ ClaimAndCall(w, r)
  \/ ClaimAndFail(w, r)
  \/ ClaimAndDefer(w, r)

ExecutorStep(p) ==
  \/ Succeed(p)
  \/ Fail(p)
  \/ NextAttempt(p)
  \/ StopCanceled(p)
  \/ CallAgain(p)
  \/ Crash(p)

ConsoleEnd(c) ==
  \/ CancelWrite(c)
  \/ MarkWrite(c)
  \/ PurgeWrite(c)
  \/ Crash(c)

ConsoleStep(c) ==
  \/ \E r \in Runs : CancelRead(c, r) \/ MarkRead(c, r) \/ PurgeRead(c, r)
  \/ ConsoleEnd(c)

RunStep(r) ==
  \/ AutoFail(r)
  \/ DeliverCallback(r)
  \/ GrowOld(r)
  \/ WindowOpens(r)

Next ==
  \/ \E a \in Apis : ApiStep(a)
  \/ \E w \in Workers, r \in Runs : ClaimStep(w, r)
  \/ \E p \in Executors : ExecutorStep(p)
  \/ \E c \in Consoles : ConsoleStep(c)
  \/ \E r \in Runs : RunStep(r)

Spec == Init /\ [][Next]_vars

(* Fair are the repair loop of the runtime queue worker, that a console    *)
(* request writes or dies, and time, which passes however often consoles   *)
(* come and go; no executor is assumed to answer or to survive.            *)
FairSpec ==
  /\ Spec
  /\ \A r \in Runs : WF_vars(AutoFail(r)) /\ SF_vars(GrowOld(r))
  /\ \A c \in Consoles : WF_vars(ConsoleEnd(c))

-----------------------------------------------------------------------------
(* Type correctness of the rows, the sessions and the history.             *)
TypeOK ==
  /\ row \in [Runs -> Row]
  /\ age \in [Runs -> 0..AgeAutoFail]
  /\ eligible \in [Runs -> BOOLEAN]
  /\ sess \in [Sessions -> [pc : Pcs, run : Runs \cup {NoRun}, loaded : Row,
                            attempt : 0..MaxAttempts]]
  /\ executed \in [Runs -> Nat]

(* An idempotency key reaches the providers through at most one execution: *)
(* replays, racing inserts, racing claims, deferral, repair and the orphan *)
(* left by a crash never start a second one.                               *)
AtMostOneExecution == \A r \in Runs : executed[r] <= 1

(* A success is never manufactured: only a run that was executed is shown  *)
(* as succeeded or holds a result, whichever writer came last.             *)
NoManufacturedSuccess ==
  \A r \in Runs :
    row[r].status = "succeeded" \/ row[r].result => executed[r] = 1

(* A failed or canceled row carries the code of such an outcome, whichever *)
(* session wrote which column.                                             *)
OutcomeMatchesCode ==
  \A r \in Runs :
    /\ row[r].status = "failed" => row[r].error \in Failures
    /\ row[r].status = "canceled" => row[r].error = "canceled" /\ row[r].cancel

(* Every terminal row has dropped its execution input, has its retention   *)
(* period and has had its callback scheduled, whoever closed it.           *)
ClosedRowIsComplete ==
  \A r \in Runs : row[r].status \in Terminal =>
    /\ ~row[r].cipher
    /\ r \in TtlRuns => row[r].retain
    /\ r \in CallbackRuns => row[r].cb # "not_requested"

(* A succeeded run has a result until retention purges it: no stale writer *)
(* takes the result from under the status.                                 *)
SucceededHasResult ==
  \A r \in Runs :
    row[r].status = "succeeded" => row[r].result \/ row[r].purged

(* However the terminal writes of racing sessions interleave column by     *)
(* column, the row of a closed run fits together: its code fits its status,*)
(* nothing a close owes is missing, and a success has its result.          *)
ClosedRowIsCoherent == OutcomeMatchesCode /\ ClosedRowIsComplete /\ SucceededHasResult

(* A closed run is never queued or started again: no stale session, worker *)
(* or repair puts a terminal row back into an active status.               *)
ClosedStaysClosed ==
  [][\A r \in Runs :
       row[r].status \in Terminal => row'[r].status \in Terminal]_vars

(* An inline run whose process crashed or whose provider never answers is  *)
(* closed all the same, by the auto-fail of the queue worker.              *)
InlineRunResolves ==
  \A r \in InlineRuns :
    row[r].status = "running" ~> row[r].status \in Terminal

-----------------------------------------------------------------------------
(* The contract: a run is open while its row is queued or running.         *)

Shown(r) ==
  CASE row[r].status = "none" -> "absent"
    [] row[r].status \in {"queued", "running"} -> "open"
    [] OTHER -> row[r].status

Contract == INSTANCE RunContract
              WITH shown <- [r \in Runs |-> Shown(r)], starts <- executed

(* The rows and processes of this module keep the promises of RunContract  *)
(* to every run, whatever the other runs and processes do.                 *)
KeepsContract == Contract!Spec

Callbacks == INSTANCE CallbackContract
               WITH Targeted <- CallbackRuns,
                    closed <- [r \in Runs |-> row[r].status \in Terminal],
                    told <- [r \in Runs |-> row[r].cb]

(* Whoever closes a run first schedules its callback, whatever its session *)
(* had loaded; no later writer unschedules it, and nobody schedules the    *)
(* callback of an open run: what CallbackDelivery takes for granted.       *)
KeepsCallbacks == Callbacks!Spec

=============================================================================
