-------------------------- MODULE CallbackDelivery --------------------------
(***************************************************************************)
(* Delivery of terminal callbacks: the callback columns of run_records,    *)
(* the callback workers that list, claim, send and mark, the recovery of   *)
(* expired dispatch leases, and redelivery by an operator or a worker.     *)
(*                                                                         *)
(* A worker lists the due callbacks and claims the first one in a session, *)
(* sends the request outside any transaction, and marks the row in another *)
(* session.  The claim and the lease recovery are guarded UPDATEs, the     *)
(* marks are unconditional, redelivery decides on a plain read.            *)
(*                                                                         *)
(* Clocks are abstract: `due' places callback_next_attempt_at relative to  *)
(* now, `expired' tells that callback_last_attempt_at is older than the    *)
(* lease.  A slow endpoint can outlast the lease: the HTTP timeout bounds  *)
(* each read, not the whole response.                                      *)
(***************************************************************************)
EXTENDS Naturals, FiniteSets

CONSTANTS
  Targeted,     \* runs with a site-registered callback target
  Silent,       \* runs without one
  Workers,      \* callback workers
  Consoles,     \* operators, and the workers' redelivery of overdue callbacks
  Window,       \* finished runs one listing looks at: max(5, 5 * limit)
  MaxAttempts,  \* runtime_callback_max_attempts
  MaxOutcomes,  \* bound: how often a run is closed (late terminal writes)
  MaxCrashes,   \* bound on worker crashes
  NoRun         \* the run of an idle worker

ASSUME ConstantsAssumption ==
  /\ Targeted \cap Silent = {} /\ NoRun \notin Targeted \cup Silent
  /\ Window \in Nat \ {0} /\ MaxAttempts \in Nat \ {0}
  /\ MaxOutcomes \in Nat \ {0} /\ MaxCrashes \in Nat

VARIABLES
  cb,        \* the callback columns of each run
  older,     \* the finished runs with an earlier finished_at, of each run
  outcome,   \* how often the run was closed; 0 while it is open
  worker,    \* what each worker holds between two transactions
  console,   \* what each console read
  crashes,   \* worker crashes so far
  accepted,  \* outcomes the endpoint answered with 2xx (history)
  refused    \* a permanent refusal or an invalid registration (history)

vars == <<cb, older, outcome, worker, console, crashes, accepted, refused>>

Runs == Targeted \cup Silent

Statuses == {"not_requested", "pending", "dispatching", "delivered", "failed"}

Columns == [status : Statuses,
            attempts : 0..MaxAttempts,  \* saturating: only >= is ever asked
            due : {"none", "later", "now", "overdue"},
            expired : BOOLEAN]

Verdicts == {"none", "ok", "retryable", "permanent", "again", "give_up"}

IdleWorker == [pc |-> "idle", run |-> NoRun, payload |-> 0, verdict |-> "none"]

IdleConsole == [run |-> NoRun, status |-> "not_requested"]

Unlisted == {"dispatching", "delivered", "failed"}

-----------------------------------------------------------------------------
(* Closing a run schedules its callback and stamps finished_at.            *)

Scheduled(r) ==
  IF r \in Targeted
  THEN [cb[r] EXCEPT !.status = "pending", !.due = "now"]
  ELSE [cb[r] EXCEPT !.status = "not_requested", !.due = "none"]

\* A late terminal write of an executor that reloaded the row when its callback
\* was pending: of the schedule only the due time is a change.
Rescheduled(r) ==
  IF r \in Targeted THEN [cb[r] EXCEPT !.due = "now"] ELSE cb[r]

\* The first close, or the late terminal write of a stale executor.
CloseRun(r) ==
  /\ outcome[r] < MaxOutcomes
  /\ outcome' = [outcome EXCEPT ![r] = @ + 1]
  /\ \/ cb' = [cb EXCEPT ![r] = Scheduled(r)]
     \/ outcome[r] > 0 /\ cb' = [cb EXCEPT ![r] = Rescheduled(r)]
  /\ older' = [q \in Runs |->
                IF q = r THEN {p \in Runs \ {r} : outcome[p] > 0}
                         ELSE older[q] \ {r}]
  /\ UNCHANGED <<worker, console, crashes, accepted, refused>>

-----------------------------------------------------------------------------
(* list_due_callback_run_ids: the window is cut before its rows are        *)
(* filtered by target and due time.                                        *)

\* Mutated: finished_at is not looked at.
ListableOpen(r) == cb[r].status \notin Unlisted

Listable(r) == outcome[r] > 0 /\ cb[r].status \notin Unlisted

Listed ==
  {r \in Runs :
     Listable(r) /\ Cardinality({q \in older[r] : Listable(q)}) < Window}

Due(r) == r \in Targeted /\ cb[r].due # "later"

DueRuns == {r \in Listed : Due(r)}

\* The oldest due run; the payload is built from the row as it was listed.
ListDue(w) ==
  /\ worker[w].pc = "idle"
  /\ \E r \in DueRuns :
       /\ older[r] \cap DueRuns = {}
       /\ worker' = [worker EXCEPT ![w] =
                       [pc |-> "listed", run |-> r, payload |-> outcome[r],
                        verdict |-> "none"]]
  /\ UNCHANGED <<cb, older, outcome, console, crashes, accepted, refused>>

\* Mutated: the counter does not saturate.
AttemptedUncapped(r) == cb[r].attempts + 1

Attempted(r) ==
  IF cb[r].attempts < MaxAttempts THEN cb[r].attempts + 1 ELSE MaxAttempts

\* claim_callback_dispatch: UPDATE ... WHERE status IN (not_requested, pending).
Claim(w) ==
  LET r == worker[w].run IN
  /\ worker[w].pc = "listed"
  /\ cb[r].status \notin Unlisted
  /\ cb' = [cb EXCEPT ![r] = [status |-> "dispatching", due |-> "none",
                              attempts |-> Attempted(r), expired |-> FALSE]]
  /\ worker' = [worker EXCEPT ![w].pc = "sending"]
  /\ UNCHANGED <<older, outcome, console, crashes, accepted, refused>>

\* Another worker has it: the batch of this worker ends.
ClaimLost(w) ==
  /\ worker[w].pc = "listed"
  /\ cb[worker[w].run].status \in Unlisted
  /\ worker' = [worker EXCEPT ![w] = IdleWorker]
  /\ UNCHANGED <<cb, older, outcome, console, crashes, accepted, refused>>

\* The site's registration is gone, disabled or no longer the persisted one:
\* claimed and failed in one transaction.
ClaimInvalid(w) ==
  LET r == worker[w].run IN
  /\ worker[w].pc = "listed"
  /\ cb[r].status \notin Unlisted
  /\ cb' = [cb EXCEPT ![r] = [status |-> "failed", due |-> "none",
                              attempts |-> Attempted(r), expired |-> FALSE]]
  /\ refused' = [refused EXCEPT ![r] = TRUE]
  /\ worker' = [worker EXCEPT ![w] = IdleWorker]
  /\ UNCHANGED <<older, outcome, console, crashes, accepted>>

-----------------------------------------------------------------------------
(* Sending, and marking what came of it.                                   *)

Accept(w) ==
  LET r == worker[w].run IN
  /\ worker[w].pc = "sending"
  /\ accepted' = [accepted EXCEPT ![r] = @ \cup {worker[w].payload}]
  /\ worker' = [worker EXCEPT ![w].pc = "answered", ![w].verdict = "ok"]
  /\ UNCHANGED <<cb, older, outcome, console, crashes, refused>>

\* A timeout, a transport error or a status the dispatcher retries, or not.
Refuse(w) ==
  /\ worker[w].pc = "sending"
  /\ \E v \in {"retryable", "permanent"} :
       /\ worker' = [worker EXCEPT ![w].pc = "refused", ![w].verdict = v]
       /\ refused' = [refused EXCEPT ![worker[w].run] =
                        @ \/ v = "permanent"]
  /\ UNCHANGED <<cb, older, outcome, console, crashes, accepted>>

\* Mutated: the last attempt is never made.
ResolveRetryEarly(w) ==
  LET retry == /\ worker[w].verdict = "retryable"
               /\ cb[worker[w].run].attempts + 1 < MaxAttempts IN
  /\ worker[w].pc = "refused"
  /\ worker' = [worker EXCEPT ![w].pc = "answered",
                              ![w].verdict = IF retry THEN "again"
                                                      ELSE "give_up"]
  /\ UNCHANGED <<cb, older, outcome, console, crashes, accepted, refused>>

\* _resolve_callback_retry_at, in a session of its own.
ResolveRetry(w) ==
  LET retry == /\ worker[w].verdict = "retryable"
               /\ cb[worker[w].run].attempts < MaxAttempts IN
  /\ worker[w].pc = "refused"
  /\ worker' = [worker EXCEPT ![w].pc = "answered",
                              ![w].verdict = IF retry THEN "again"
                                                      ELSE "give_up"]
  /\ UNCHANGED <<cb, older, outcome, console, crashes, accepted, refused>>

MarkStatus == [ok |-> "delivered", again |-> "pending", give_up |-> "failed"]

MarkedAs(r, verdict) ==
  [cb[r] EXCEPT !.status = MarkStatus[verdict],
                !.due = IF verdict = "again" THEN "later" ELSE "none"]

\* Mutated: a refusal that will not be retried counts as settled.
MarkUnchecked(w) ==
  LET r == worker[w].run
      v == worker[w].verdict IN
  /\ worker[w].pc = "answered"
  /\ cb' = [cb EXCEPT ![r] = MarkedAs(r, IF v = "give_up" THEN "ok" ELSE v)]
  /\ worker' = [worker EXCEPT ![w] = IdleWorker]
  /\ UNCHANGED <<older, outcome, console, crashes, accepted, refused>>

\* mark_callback_delivered and mark_callback_delivery_failed: whatever has
\* become of the row in the meantime.
Mark(w) ==
  LET r == worker[w].run IN
  /\ worker[w].pc = "answered"
  /\ cb' = [cb EXCEPT ![r] = MarkedAs(r, worker[w].verdict)]
  /\ worker' = [worker EXCEPT ![w] = IdleWorker]
  /\ UNCHANGED <<older, outcome, console, crashes, accepted, refused>>

Crash(w) ==
  /\ worker[w].pc # "idle"
  /\ crashes < MaxCrashes
  /\ crashes' = crashes + 1
  /\ worker' = [worker EXCEPT ![w] = IdleWorker]
  /\ UNCHANGED <<cb, older, outcome, console, accepted, refused>>

-----------------------------------------------------------------------------
(* Recovery and redelivery.                                                *)

\* Mutated: the recovery leaves next_attempt_at and status as the claim set
\* them and only renews the lease.
ReclaimRenewed(r) ==
  /\ cb[r].status = "dispatching" /\ cb[r].expired
  /\ cb' = [cb EXCEPT ![r].expired = FALSE]
  /\ UNCHANGED <<older, outcome, worker, console, crashes, accepted, refused>>

\* reclaim_stale_callback_dispatches, at the start of a worker's cycle.
Reclaim(r) ==
  /\ \E w \in Workers : worker[w].pc = "idle"
  /\ cb[r].status = "dispatching" /\ cb[r].expired
  /\ cb' = [cb EXCEPT ![r].status = "pending", ![r].due = "now"]
  /\ UNCHANGED <<older, outcome, worker, console, crashes, accepted, refused>>

CanRedeliver(r) ==
  /\ r \in Targeted
  /\ \/ cb[r].status = "failed"
     \/ cb[r].status = "pending" /\ cb[r].due = "overdue"

RedeliverRead(c, r) ==
  /\ console[c] = IdleConsole
  /\ CanRedeliver(r)
  /\ console' = [console EXCEPT ![c] = [run |-> r, status |-> cb[r].status]]
  /\ UNCHANGED <<cb, older, outcome, worker, crashes, accepted, refused>>

\* The status column is written only if it was read as something else.
RedeliverWrite(c) ==
  LET r == console[c].run IN
  /\ r # NoRun
  /\ cb' = [cb EXCEPT ![r].due = "now",
                      ![r].status = IF console[c].status = "pending"
                                    THEN @ ELSE "pending"]
  /\ console' = [console EXCEPT ![c] = IdleConsole]
  /\ UNCHANGED <<older, outcome, worker, crashes, accepted, refused>>

-----------------------------------------------------------------------------
(* Time.                                                                   *)

LeaseExpires(r) ==
  /\ cb[r].status = "dispatching" /\ ~cb[r].expired
  /\ cb' = [cb EXCEPT ![r].expired = TRUE]
  /\ UNCHANGED <<older, outcome, worker, console, crashes, accepted, refused>>

BecomesDue(r) ==
  /\ cb[r].status = "pending"
  /\ \/ cb[r].due = "later" /\ cb' = [cb EXCEPT ![r].due = "now"]
     \/ cb[r].due = "now"   /\ cb' = [cb EXCEPT ![r].due = "overdue"]
  /\ UNCHANGED <<older, outcome, worker, console, crashes, accepted, refused>>

-----------------------------------------------------------------------------
Init ==
  /\ cb = [r \in Runs |-> [status |-> "not_requested", attempts |-> 0,
                           due |-> "none", expired |-> FALSE]]
  /\ older = [r \in Runs |-> {}]
  /\ outcome = [r \in Runs |-> 0]
  /\ worker = [w \in Workers |-> IdleWorker]
  /\ console = [c \in Consoles |-> IdleConsole]
  /\ crashes = 0
  /\ accepted = [r \in Runs |-> {}]
  /\ refused = [r \in Runs |-> FALSE]

WorkerStep(w) ==
  \/ ListDue(w)
  \/ Claim(w)
  \/ ClaimLost(w)
  \/ ClaimInvalid(w)
  \/ Accept(w)
  \/ Refuse(w)
  \/ ResolveRetry(w)
  \/ Mark(w)

ConsoleStep(c) ==
  \/ \E r \in Runs : RedeliverRead(c, r)
  \/ RedeliverWrite(c)

RunStep(r) ==
  \/ CloseRun(r)
  \/ Reclaim(r)
  \/ LeaseExpires(r)
  \/ BecomesDue(r)

Next ==
  \/ \E w \in Workers : WorkerStep(w) \/ Crash(w)
  \/ \E c \in Consoles : ConsoleStep(c)
  \/ \E r \in Runs : RunStep(r)

Spec == Init /\ [][Next]_vars

(* The workers' loop runs, its HTTP client gives up, leases and back-offs  *)
(* run out.  Runs need not finish, consoles need not act, endpoints need   *)
(* not accept.                                                             *)
FairSpec ==
  /\ Spec
  /\ \A w \in Workers : WF_vars(WorkerStep(w))
  /\ \A r \in Runs :
       WF_vars(Reclaim(r)) /\ WF_vars(LeaseExpires(r)) /\ WF_vars(BecomesDue(r))

-----------------------------------------------------------------------------
(* Type correctness of the columns, the sessions and the history.          *)
TypeOK ==
  /\ cb \in [Runs -> Columns]
  /\ older \in [Runs -> SUBSET Runs]
  /\ outcome \in [Runs -> 0..MaxOutcomes]
  /\ worker \in [Workers ->
       [pc : {"idle", "listed", "sending", "refused", "answered"},
        run : Runs \cup {NoRun}, payload : 0..MaxOutcomes,
        verdict : Verdicts]]
  /\ console \in [Consoles -> [run : Runs \cup {NoRun}, status : Statuses]]
  /\ crashes \in 0..MaxCrashes
  /\ accepted \in [Runs -> SUBSET (0..MaxOutcomes)]
  /\ refused \in [Runs -> BOOLEAN]

(* A callback is shown as delivered only if its endpoint answered 2xx to   *)
(* it: not because a lease was recovered, a claim lost, a retry used up or *)
(* an operator asked for it again.                                         *)
DeliveredIsAccepted ==
  \A r \in Runs : cb[r].status = "delivered" => accepted[r] # {}

(* A callback is given up only for cause: the endpoint or the registration *)
(* refused it for good, or all its attempts were claimed, crashed and      *)
(* reclaimed ones included.                                                *)
GivenUpForCause ==
  \A r \in Runs :
    cb[r].status = "failed" => refused[r] \/ cb[r].attempts = MaxAttempts

(* A scheduled callback settles, through crashes, expired leases, lost     *)
(* claims and retries.                                                     *)
CallbackSettles ==
  \A r \in Targeted :
    cb[r].status = "pending" ~> cb[r].status \in {"delivered", "failed"}

-----------------------------------------------------------------------------
(* What RunLifecycle sees of a callback.                                   *)

Told(r) ==
  CASE cb[r].status = "not_requested" -> "not_requested"
    [] cb[r].status = "delivered" -> "delivered"
    [] OTHER -> "pending"

Callbacks == INSTANCE CallbackContract
               WITH closed <- [r \in Runs |-> outcome[r] > 0],
                    told <- [r \in Runs |-> Told(r)]

(* Workers, recovery and redelivery touch the callback of closed runs with *)
(* a target only, and never forget that it was requested: what             *)
(* RunLifecycle takes for granted.  Only the listing sees to it; the claim *)
(* itself would take an open run, or one without a target.                 *)
KeepsCallbacks == Callbacks!Spec
=============================================================================
