---------------------- MODULE CallbackDeliveryProofs -----------------------
(***************************************************************************)
(* Theorems about CallbackDelivery, for any runs, workers, consoles,       *)
(* window and number of attempts.  The properties speak of the rows; what  *)
(* makes them inductive is what a worker knows of its row although it      *)
(* holds no lock on it: an answer, a permanent refusal and a used-up       *)
(* counter stay true of the row, whoever else claims, reclaims, reschedules*)
(* or marks it in the meantime.                                            *)
(***************************************************************************)
EXTENDS CallbackDelivery, TLAPS

Session == [pc : {"idle", "listed", "sending", "refused", "answered"},
            run : Runs \cup {NoRun}, payload : 0..MaxOutcomes,
            verdict : Verdicts]

WorkerKnows(w) ==
  LET r == worker[w].run IN
  /\ worker[w].pc # "idle" => r \in Targeted
  /\ worker[w].pc = "refused" =>
       /\ worker[w].verdict \in {"retryable", "permanent"}
       /\ worker[w].verdict = "permanent" => refused[r]
  /\ worker[w].pc = "answered" =>
       /\ worker[w].verdict \in {"ok", "again", "give_up"}
       /\ worker[w].verdict = "ok" => accepted[r] # {}
       /\ worker[w].verdict = "give_up" =>
            refused[r] \/ cb[r].attempts = MaxAttempts

WorkersKnow == \A w \in Workers : WorkerKnows(w)

ConsolesKnow ==
  \A c \in Consoles : console[c].run # NoRun => console[c].run \in Targeted

(* Nothing is ever sent for a run without a registered target, although    *)
(* the claim itself would take one: only the listing filters them.         *)
SilentRunsStaySilent ==
  \A r \in Silent : cb[r].status = "not_requested" /\ accepted[r] = {}

IInv ==
  /\ TypeOK
  /\ DeliveredIsAccepted
  /\ GivenUpForCause
  /\ SilentRunsStaySilent
  /\ WorkersKnow
  /\ ConsolesKnow

(* What no step takes back: attempts are not uncounted, answers and        *)
(* refusals not forgotten.                                                 *)
NothingTakenBack ==
  \A r \in Runs :
    /\ cb[r].attempts = MaxAttempts => cb'[r].attempts = MaxAttempts
    /\ accepted[r] \subseteq accepted'[r]
    /\ refused[r] => refused'[r]

-----------------------------------------------------------------------------
(* Lemmas.                                                                 *)

(* The saturating counter stays in its range, and at its maximum.          *)
LEMMA AttemptedType ==
  ASSUME TypeOK, NEW r \in Runs
  PROVE  /\ Attempted(r) \in 0..MaxAttempts
         /\ cb[r].attempts = MaxAttempts => Attempted(r) = MaxAttempts
  BY ConstantsAssumption DEF TypeOK, Columns, Attempted

(* Closing a run keeps its callback columns and its counter.               *)
LEMMA ScheduledType ==
  ASSUME TypeOK, NEW r \in Runs
  PROVE  /\ Scheduled(r) \in Columns
         /\ Scheduled(r).attempts = cb[r].attempts
         /\ Scheduled(r).status \notin {"delivered", "failed"}
         /\ r \notin Targeted => Scheduled(r).status = "not_requested"
  <1>1. cb[r] \in Columns
    BY DEF TypeOK
  <1> QED BY <1>1 DEF Columns, Scheduled, Statuses

(* A late close of a run that was pending keeps its status and counter.    *)
LEMMA RescheduledType ==
  ASSUME TypeOK, NEW r \in Runs
  PROVE  /\ Rescheduled(r) \in Columns
         /\ Rescheduled(r).attempts = cb[r].attempts
         /\ Rescheduled(r).status = cb[r].status
  <1>1. cb[r] \in Columns
    BY DEF TypeOK
  <1> QED BY <1>1 DEF Columns, Rescheduled

(* A mark changes the status to the one of its verdict, not the counter.   *)
LEMMA MarkedAsType ==
  ASSUME TypeOK, NEW r \in Runs, NEW v \in {"ok", "again", "give_up"}
  PROVE  /\ MarkedAs(r, v) \in Columns
         /\ MarkedAs(r, v).attempts = cb[r].attempts
         /\ MarkedAs(r, v).status = "delivered" => v = "ok"
         /\ MarkedAs(r, v).status = "failed" => v = "give_up"
  <1>1. cb[r] \in Columns
    BY DEF TypeOK
  <1>2. /\ MarkStatus[v] \in {"delivered", "pending", "failed"}
        /\ MarkStatus[v] = "delivered" => v = "ok"
        /\ MarkStatus[v] = "failed" => v = "give_up"
    BY DEF MarkStatus
  <1> QED BY <1>1, <1>2 DEF Columns, MarkedAs, Statuses

(* A step that leaves a worker alone leaves what it knows true.            *)
LEMMA KnowledgeKept ==
  ASSUME TypeOK, WorkersKnow, NothingTakenBack,
         NEW w \in Workers, worker'[w] = worker[w]
  PROVE  WorkerKnows(w)'
  <1>1. WorkerKnows(w)
    BY DEF WorkersKnow
  <1>2. worker[w].run \in Targeted => worker[w].run \in Runs
    BY DEF Runs
  <1> QED BY <1>1, <1>2 DEF WorkerKnows, NothingTakenBack

(* A step that changes one worker's session for another keeps the types.   *)
LEMMA SessionWritten ==
  ASSUME TypeOK, NEW w \in Workers, NEW new \in Session,
         worker' = [worker EXCEPT ![w] = new]
  PROVE  worker' \in [Workers -> Session]
  BY DEF TypeOK, Session

(* An idle session is one.                                                 *)
LEMMA IdleSession == IdleWorker \in Session
  BY ConstantsAssumption DEF IdleWorker, Session, Verdicts

(* An idle worker knows nothing.                                           *)
LEMMA IdleKnows ==
  ASSUME NEW w \in Workers, worker'[w] = IdleWorker
  PROVE  WorkerKnows(w)'
  BY DEF WorkerKnows, IdleWorker

(* A step that changes no worker keeps the workers' knowledge.             *)
LEMMA WorkersKeepKnowing ==
  ASSUME TypeOK, WorkersKnow, NothingTakenBack, UNCHANGED worker
  PROVE  WorkersKnow'
  BY KnowledgeKept DEF WorkersKnow

(* A step that changes one worker, which knows what it should, does too.   *)
LEMMA OthersKeepKnowing ==
  ASSUME TypeOK, WorkersKnow, NothingTakenBack, NEW w \in Workers,
         NEW new, worker' = [worker EXCEPT ![w] = new],
         WorkerKnows(w)'
  PROVE  WorkersKnow'
  <1>1. ASSUME NEW o \in Workers, o # w PROVE WorkerKnows(o)'
    <2>1. worker'[o] = worker[o]
      BY <1>1 DEF TypeOK
    <2> QED BY <2>1, KnowledgeKept
  <1> QED BY <1>1 DEF WorkersKnow

RowsAsPromised ==
  DeliveredIsAccepted /\ GivenUpForCause /\ SilentRunsStaySilent

(* A step that touches no row, and forgets nothing, keeps the rows.        *)
LEMMA RowsUntouched ==
  ASSUME TypeOK, RowsAsPromised, NothingTakenBack, UNCHANGED cb,
         \A r \in Silent : accepted'[r] = accepted[r]
  PROVE  RowsAsPromised'
  BY DEF RowsAsPromised, DeliveredIsAccepted, GivenUpForCause,
         SilentRunsStaySilent, NothingTakenBack

(* A step that rewrites one row keeps them all if that row is right.       *)
LEMMA OneRowWritten ==
  ASSUME TypeOK, RowsAsPromised, NothingTakenBack,
         NEW r \in Runs, NEW new \in Columns, cb' = [cb EXCEPT ![r] = new],
         new.status = "delivered" => accepted[r] # {},
         new.status = "failed" => refused'[r] \/ new.attempts = MaxAttempts,
         r \in Silent => new.status = "not_requested",
         UNCHANGED accepted
  PROVE  RowsAsPromised'
  <1>1. \A q \in Runs : cb'[q] = IF q = r THEN new ELSE cb[q]
    BY DEF TypeOK
  <1>2. \A q \in Silent : q \in Runs
    BY DEF Runs
  <1> QED BY <1>1, <1>2 DEF RowsAsPromised, DeliveredIsAccepted,
            GivenUpForCause, SilentRunsStaySilent, NothingTakenBack

(* Rewriting one row without uncounting an attempt takes nothing back.     *)
LEMMA WriteTakesNothingBack ==
  ASSUME TypeOK, NEW r \in Runs, NEW new, cb' = [cb EXCEPT ![r] = new],
         cb[r].attempts = MaxAttempts => new.attempts = MaxAttempts,
         \A q \in Runs : accepted[q] \subseteq accepted'[q]
                         /\ (refused[q] => refused'[q])
  PROVE  NothingTakenBack
  BY DEF TypeOK, NothingTakenBack

(* Nor does leaving the rows alone.                                        *)
LEMMA ReadTakesNothingBack ==
  ASSUME UNCHANGED cb,
         \A q \in Runs : accepted[q] \subseteq accepted'[q]
                         /\ (refused[q] => refused'[q])
  PROVE  NothingTakenBack
  BY DEF NothingTakenBack

-----------------------------------------------------------------------------
(* The initial states satisfy the invariant.                               *)
LEMMA InitIInv == Init => IInv
  <1> SUFFICES ASSUME Init PROVE IInv
    OBVIOUS
  <1>1. TypeOK
    BY ConstantsAssumption
    DEF Init, TypeOK, Columns, Statuses, IdleWorker, IdleConsole, Verdicts
  <1>2. RowsAsPromised
    BY DEF Init, RowsAsPromised, DeliveredIsAccepted, GivenUpForCause,
           SilentRunsStaySilent, Runs
  <1>3. WorkersKnow
    BY DEF Init, WorkersKnow, WorkerKnows, IdleWorker
  <1>4. ConsolesKnow
    BY DEF Init, ConsolesKnow, IdleConsole
  <1> QED BY <1>1, <1>2, <1>3, <1>4 DEF IInv, RowsAsPromised

(* A worker's listing, claim, request, decision or mark keeps it.          *)
LEMMA WorkerStepIInv ==
  ASSUME IInv, NEW w \in Workers, WorkerStep(w)
  PROVE  IInv'
  <1> DEFINE r == worker[w].run
  <1>0. /\ TypeOK /\ RowsAsPromised /\ WorkersKnow /\ ConsolesKnow
        /\ WorkerKnows(w)
        /\ worker[w].pc # "idle" => r \in Runs /\ r \in Targeted /\ r \notin Silent
    BY ConstantsAssumption
    DEF IInv, RowsAsPromised, WorkersKnow, WorkerKnows, Runs
  <1>1. CASE ListDue(w)
    <2>1. PICK q \in DueRuns :
            worker' = [worker EXCEPT ![w] =
                         [pc |-> "listed", run |-> q, payload |-> outcome[q],
                          verdict |-> "none"]]
      BY <1>1 DEF ListDue
    <2>2. q \in Runs /\ q \in Targeted
      BY DEF DueRuns, Listed, Due
    <2>3. NothingTakenBack
      BY <1>1, ReadTakesNothingBack DEF ListDue
    <2>4. TypeOK'
      BY <1>0, <1>1, <2>1, <2>2 DEF ListDue, TypeOK, Verdicts
    <2>5. RowsAsPromised'
      BY <1>0, <1>1, <2>3, RowsUntouched DEF ListDue
    <2>6. WorkerKnows(w)'
      BY <1>0, <2>1, <2>2 DEF TypeOK, WorkerKnows
    <2>7. WorkersKnow'
      BY <1>0, <2>1, <2>3, <2>6, OthersKeepKnowing
    <2>8. ConsolesKnow'
      BY <1>0, <1>1 DEF ListDue, ConsolesKnow
    <2> QED BY <2>4, <2>5, <2>7, <2>8 DEF IInv, RowsAsPromised
  <1>2. CASE Claim(w)
    <2> DEFINE new == [status |-> "dispatching", due |-> "none",
                       attempts |-> Attempted(r), expired |-> FALSE]
    <2>1. /\ cb' = [cb EXCEPT ![r] = new]
          /\ worker' = [worker EXCEPT ![w] = [worker[w] EXCEPT !.pc = "sending"]]
          /\ r \in Runs /\ r \in Targeted /\ r \notin Silent
      BY <1>0, <1>2 DEF Claim, TypeOK
    <2>2. new \in Columns /\ (cb[r].attempts = MaxAttempts => new.attempts = MaxAttempts)
      BY <1>0, <2>1, AttemptedType DEF Columns, Statuses
    <2>3. NothingTakenBack
      BY <1>0, <1>2, <2>1, <2>2, WriteTakesNothingBack DEF Claim
    <2>4. TypeOK'
      BY <1>0, <1>2, <2>1, <2>2 DEF Claim, TypeOK
    <2>5. RowsAsPromised'
      BY <1>0, <1>2, <2>1, <2>2, <2>3, OneRowWritten DEF Claim
    <2>6. WorkerKnows(w)'
      BY <1>0, <2>1 DEF TypeOK, WorkerKnows
    <2>7. WorkersKnow'
      BY <1>0, <2>1, <2>3, <2>6, OthersKeepKnowing
    <2>8. ConsolesKnow'
      BY <1>0, <1>2 DEF Claim, ConsolesKnow
    <2> QED BY <2>4, <2>5, <2>7, <2>8 DEF IInv, RowsAsPromised
  <1>3. CASE ClaimLost(w)
    <2>1. worker' = [worker EXCEPT ![w] = IdleWorker] /\ worker'[w] = IdleWorker
      BY <1>0, <1>3 DEF ClaimLost, TypeOK
    <2>2. NothingTakenBack
      BY <1>3, ReadTakesNothingBack DEF ClaimLost
    <2>3. TypeOK'
      BY <1>0, <1>3, <2>1, IdleSession, SessionWritten
      DEF ClaimLost, TypeOK, Session
    <2>4. RowsAsPromised'
      BY <1>0, <1>3, <2>2, RowsUntouched DEF ClaimLost
    <2>5. WorkersKnow'
      BY <1>0, <2>1, <2>2, IdleKnows, OthersKeepKnowing
    <2>6. ConsolesKnow'
      BY <1>0, <1>3 DEF ClaimLost, ConsolesKnow
    <2> QED BY <2>3, <2>4, <2>5, <2>6 DEF IInv, RowsAsPromised
  <1>4. CASE ClaimInvalid(w)
    <2> DEFINE new == [status |-> "failed", due |-> "none",
                       attempts |-> Attempted(r), expired |-> FALSE]
    <2>1. /\ cb' = [cb EXCEPT ![r] = new]
          /\ worker' = [worker EXCEPT ![w] = IdleWorker] /\ worker'[w] = IdleWorker
          /\ r \in Runs /\ r \in Targeted /\ r \notin Silent
          /\ refused' \in [Runs -> BOOLEAN] /\ refused'[r]
          /\ \A q \in Runs : refused[q] => refused'[q]
      BY <1>0, <1>4 DEF ClaimInvalid, TypeOK
    <2>2. new \in Columns /\ (cb[r].attempts = MaxAttempts => new.attempts = MaxAttempts)
      BY <1>0, <2>1, AttemptedType DEF Columns, Statuses
    <2>3. NothingTakenBack
      BY <1>0, <1>4, <2>1, <2>2, WriteTakesNothingBack DEF ClaimInvalid
    <2>4. TypeOK'
      BY <1>0, <1>4, <2>1, <2>2, IdleSession, SessionWritten
      DEF ClaimInvalid, TypeOK, Session
    <2>5. RowsAsPromised'
      BY <1>0, <1>4, <2>1, <2>2, <2>3, OneRowWritten DEF ClaimInvalid
    <2>6. WorkersKnow'
      BY <1>0, <2>1, <2>3, IdleKnows, OthersKeepKnowing
    <2>7. ConsolesKnow'
      BY <1>0, <1>4 DEF ClaimInvalid, ConsolesKnow
    <2> QED BY <2>4, <2>5, <2>6, <2>7 DEF IInv, RowsAsPromised
  <1>5. CASE Accept(w)
    <2>1. /\ worker' = [worker EXCEPT ![w] =
                         [worker[w] EXCEPT !.pc = "answered", !.verdict = "ok"]]
          /\ r \in Runs /\ r \notin Silent
          /\ accepted' \in [Runs -> SUBSET (0..MaxOutcomes)]
          /\ accepted'[r] # {}
          /\ \A q \in Runs : accepted[q] \subseteq accepted'[q]
          /\ \A q \in Runs : q # r => accepted'[q] = accepted[q]
      BY <1>0, <1>5 DEF Accept, TypeOK
    <2>2. NothingTakenBack
      BY <1>5, <2>1, ReadTakesNothingBack DEF Accept
    <2>3. TypeOK'
      BY <1>0, <1>5, <2>1 DEF Accept, TypeOK, Verdicts
    <2>4. RowsAsPromised'
      BY <1>0, <1>5, <2>1, <2>2, RowsUntouched DEF Accept, Runs
    <2>5. WorkerKnows(w)'
      BY <1>0, <1>5, <2>1 DEF Accept, TypeOK, WorkerKnows
    <2>6. WorkersKnow'
      BY <1>0, <2>1, <2>2, <2>5, OthersKeepKnowing
    <2>7. ConsolesKnow'
      BY <1>0, <1>5 DEF Accept, ConsolesKnow
    <2> QED BY <2>3, <2>4, <2>6, <2>7 DEF IInv, RowsAsPromised
  <1>6. CASE Refuse(w)
    <2>1. PICK v \in {"retryable", "permanent"} :
            /\ worker' = [worker EXCEPT ![w] =
                            [worker[w] EXCEPT !.pc = "refused", !.verdict = v]]
            /\ refused' = [refused EXCEPT ![r] = @ \/ v = "permanent"]
      BY <1>0, <1>6 DEF Refuse, TypeOK
    <2>2. /\ r \in Runs /\ r \in Targeted
          /\ refused' \in [Runs -> BOOLEAN]
          /\ v = "permanent" => refused'[r]
          /\ \A q \in Runs : refused[q] => refused'[q]
      BY <1>0, <1>6, <2>1 DEF Refuse, TypeOK
    <2>3. NothingTakenBack
      BY <1>6, <2>2, ReadTakesNothingBack DEF Refuse
    <2>4. TypeOK'
      <3>1. [worker[w] EXCEPT !.pc = "refused", !.verdict = v] \in Session
        BY <1>0 DEF TypeOK, Session, Verdicts
      <3>2. worker' \in [Workers -> Session]
        BY <1>0, <2>1, <3>1, SessionWritten
      <3> QED BY <1>0, <1>6, <2>2, <3>2 DEF Refuse, TypeOK, Session
    <2>5. RowsAsPromised'
      BY <1>0, <1>6, <2>3, RowsUntouched DEF Refuse
    <2>6. WorkerKnows(w)'
      BY <1>0, <2>1, <2>2 DEF TypeOK, WorkerKnows
    <2>7. WorkersKnow'
      BY <1>0, <2>1, <2>3, <2>6, OthersKeepKnowing
    <2>8. ConsolesKnow'
      BY <1>0, <1>6 DEF Refuse, ConsolesKnow
    <2> QED BY <2>4, <2>5, <2>7, <2>8 DEF IInv, RowsAsPromised
  <1>7. CASE ResolveRetry(w)
    <2> DEFINE retry == /\ worker[w].verdict = "retryable"
                        /\ cb[r].attempts < MaxAttempts
               v == IF retry THEN "again" ELSE "give_up"
    <2>1. /\ worker' = [worker EXCEPT ![w] =
                         [worker[w] EXCEPT !.pc = "answered", !.verdict = v]]
          /\ r \in Runs /\ r \in Targeted
      BY <1>0, <1>7 DEF ResolveRetry, TypeOK
    <2>2. ~retry => refused[r] \/ cb[r].attempts = MaxAttempts
      <3>1. worker[w].verdict \in {"retryable", "permanent"}
            /\ (worker[w].verdict = "permanent" => refused[r])
        BY <1>0, <1>7 DEF ResolveRetry, WorkerKnows
      <3>2. cb[r].attempts \in 0..MaxAttempts
        BY <1>0, <2>1 DEF TypeOK, Columns
      <3> QED BY <3>1, <3>2, ConstantsAssumption
    <2>3. NothingTakenBack
      BY <1>7, ReadTakesNothingBack DEF ResolveRetry
    <2>4. TypeOK'
      BY <1>0, <1>7, <2>1 DEF ResolveRetry, TypeOK, Verdicts
    <2>5. RowsAsPromised'
      BY <1>0, <1>7, <2>3, RowsUntouched DEF ResolveRetry
    <2>6. WorkerKnows(w)'
      BY <1>0, <1>7, <2>1, <2>2 DEF ResolveRetry, TypeOK, WorkerKnows
    <2>7. WorkersKnow'
      BY <1>0, <2>1, <2>3, <2>6, OthersKeepKnowing
    <2>8. ConsolesKnow'
      BY <1>0, <1>7 DEF ResolveRetry, ConsolesKnow
    <2> QED BY <2>4, <2>5, <2>7, <2>8 DEF IInv, RowsAsPromised
  <1>8. CASE Mark(w)
    <2> DEFINE v == worker[w].verdict
               new == MarkedAs(r, v)
    <2>1. /\ cb' = [cb EXCEPT ![r] = new]
          /\ worker' = [worker EXCEPT ![w] = IdleWorker] /\ worker'[w] = IdleWorker
          /\ r \in Runs /\ r \in Targeted /\ r \notin Silent
          /\ v \in {"ok", "again", "give_up"}
          /\ v = "ok" => accepted[r] # {}
          /\ v = "give_up" => refused[r] \/ cb[r].attempts = MaxAttempts
          /\ UNCHANGED <<accepted, refused>>
      BY <1>0, <1>8 DEF Mark, TypeOK, WorkerKnows
    <2>2. /\ new \in Columns /\ new.attempts = cb[r].attempts
          /\ new.status = "delivered" => v = "ok"
          /\ new.status = "failed" => v = "give_up"
      BY <1>0, <2>1, MarkedAsType
    <2> HIDE DEF new
    <2>3. NothingTakenBack
      BY <1>0, <2>1, <2>2, WriteTakesNothingBack
    <2>4. TypeOK'
      BY <1>0, <1>8, <2>1, <2>2, IdleSession, SessionWritten
      DEF Mark, TypeOK, Session
    <2>5. RowsAsPromised'
      BY <1>0, <2>1, <2>2, <2>3, OneRowWritten
    <2>6. WorkersKnow'
      BY <1>0, <2>1, <2>3, IdleKnows, OthersKeepKnowing
    <2>7. ConsolesKnow'
      BY <1>0, <1>8 DEF Mark, ConsolesKnow
    <2> QED BY <2>4, <2>5, <2>6, <2>7 DEF IInv, RowsAsPromised
  <1> QED BY <1>1, <1>2, <1>3, <1>4, <1>5, <1>6, <1>7, <1>8 DEF WorkerStep

(* A crash forgets what the worker knew, and nothing of the rows.          *)
LEMMA CrashIInv ==
  ASSUME IInv, NEW w \in Workers, Crash(w)
  PROVE  IInv'
  <1>0. TypeOK /\ RowsAsPromised /\ WorkersKnow /\ ConsolesKnow
    BY DEF IInv, RowsAsPromised
  <1>1. worker' = [worker EXCEPT ![w] = IdleWorker] /\ worker'[w] = IdleWorker
    BY <1>0 DEF Crash, TypeOK
  <1>2. NothingTakenBack
    BY ReadTakesNothingBack DEF Crash
  <1>3. TypeOK'
    BY <1>0, <1>1, ConstantsAssumption
    DEF Crash, TypeOK, IdleWorker, Verdicts
  <1>4. RowsAsPromised'
    BY <1>0, <1>2, RowsUntouched DEF Crash
  <1>5. WorkersKnow'
    BY <1>0, <1>1, <1>2, IdleKnows, OthersKeepKnowing
  <1>6. ConsolesKnow'
    BY <1>0 DEF Crash, ConsolesKnow
  <1> QED BY <1>3, <1>4, <1>5, <1>6 DEF IInv, RowsAsPromised

(* A redelivery only ever reads and writes runs that have a target.        *)
LEMMA ConsoleStepIInv ==
  ASSUME IInv, NEW c \in Consoles, ConsoleStep(c)
  PROVE  IInv'
  <1>0. TypeOK /\ RowsAsPromised /\ WorkersKnow /\ ConsolesKnow
    BY DEF IInv, RowsAsPromised
  <1>1. ASSUME NEW r \in Runs, RedeliverRead(c, r) PROVE IInv'
    <2>1. console' = [console EXCEPT ![c] = [run |-> r, status |-> cb[r].status]]
          /\ cb[r].status \in Statuses /\ r \in Targeted
      BY <1>0, <1>1 DEF RedeliverRead, CanRedeliver, TypeOK, Columns
    <2>2. NothingTakenBack
      BY <1>1, ReadTakesNothingBack DEF RedeliverRead
    <2>3. TypeOK'
      BY <1>0, <1>1, <2>1 DEF RedeliverRead, TypeOK
    <2>4. RowsAsPromised'
      BY <1>0, <1>1, <2>2, RowsUntouched DEF RedeliverRead
    <2>5. WorkersKnow'
      BY <1>0, <1>1, <2>2, WorkersKeepKnowing DEF RedeliverRead
    <2>6. ConsolesKnow'
      BY <1>0, <2>1 DEF TypeOK, ConsolesKnow
    <2> QED BY <2>3, <2>4, <2>5, <2>6 DEF IInv, RowsAsPromised
  <1>2. ASSUME RedeliverWrite(c) PROVE IInv'
    <2> DEFINE r == console[c].run
               new == [cb[r] EXCEPT !.due = "now",
                         !.status = IF console[c].status = "pending"
                                    THEN cb[r].status ELSE "pending"]
    <2>1. r \in Runs /\ r \in Targeted /\ r \notin Silent /\ cb[r] \in Columns
      BY <1>0, <1>2, ConstantsAssumption
      DEF RedeliverWrite, ConsolesKnow, TypeOK, Runs
    <2>2. /\ cb' = [cb EXCEPT ![r] = new]
          /\ console' = [console EXCEPT ![c] = IdleConsole]
      BY <2>1, <1>2 DEF RedeliverWrite, Columns
    <2>3. /\ new \in Columns /\ new.attempts = cb[r].attempts
          /\ new.status \in {cb[r].status, "pending"}
      BY <2>1 DEF Columns, Statuses
    <2>4. NothingTakenBack
      BY <1>0, <1>2, <2>1, <2>2, <2>3, WriteTakesNothingBack DEF RedeliverWrite
    <2>5. TypeOK'
      BY <1>0, <1>2, <2>1, <2>2, <2>3
      DEF RedeliverWrite, TypeOK, IdleConsole, Statuses
    <2>6. /\ new.status = "delivered" => accepted[r] # {}
          /\ new.status = "failed" => refused[r] \/ new.attempts = MaxAttempts
      BY <1>0, <2>1, <2>3
      DEF RowsAsPromised, DeliveredIsAccepted, GivenUpForCause
    <2> HIDE DEF new
    <2>7. RowsAsPromised'
      BY <1>0, <1>2, <2>1, <2>2, <2>3, <2>4, <2>6, OneRowWritten
      DEF RedeliverWrite
    <2>8. WorkersKnow'
      BY <1>0, <1>2, <2>4, WorkersKeepKnowing DEF RedeliverWrite
    <2>9. ConsolesKnow'
      BY <1>0, <2>2 DEF TypeOK, ConsolesKnow, IdleConsole
    <2> QED BY <2>5, <2>7, <2>8, <2>9 DEF IInv, RowsAsPromised
  <1> QED BY <1>1, <1>2 DEF ConsoleStep

(* Closing a run, recovering a lease and the passing of time keep it.      *)
LEMMA RunStepIInv ==
  ASSUME IInv, NEW r \in Runs, RunStep(r)
  PROVE  IInv'
  <1>0. /\ TypeOK /\ RowsAsPromised /\ WorkersKnow /\ ConsolesKnow
        /\ cb[r] \in Columns
        /\ r \in Silent => r \notin Targeted /\ cb[r].status = "not_requested"
    BY ConstantsAssumption
    DEF IInv, RowsAsPromised, SilentRunsStaySilent, TypeOK
  <1>1. CASE CloseRun(r)
    <2>1. PICK new \in {Scheduled(r), Rescheduled(r)} : cb' = [cb EXCEPT ![r] = new]
      BY <1>1 DEF CloseRun
    <2>2. /\ new \in Columns /\ new.attempts = cb[r].attempts
          /\ new.status \in {cb[r].status, "pending", "not_requested"}
          /\ r \in Silent => new.status = "not_requested"
      <3>1. CASE new = Scheduled(r)
        BY <1>0, <3>1, ScheduledType DEF Scheduled, Columns
      <3>2. CASE new = Rescheduled(r)
        BY <1>0, <3>2, RescheduledType
      <3> QED BY <3>1, <3>2
    <2>3. NothingTakenBack
      BY <1>0, <1>1, <2>1, <2>2, WriteTakesNothingBack DEF CloseRun
    <2>4. TypeOK'
      <3>1. outcome' \in [Runs -> 0..MaxOutcomes]
        BY <1>0, <1>1, ConstantsAssumption DEF CloseRun, TypeOK
      <3>2. older' \in [Runs -> SUBSET Runs]
        BY <1>0, <1>1 DEF CloseRun, TypeOK
      <3>3. cb' \in [Runs -> Columns]
        BY <1>0, <2>1, <2>2 DEF TypeOK
      <3> QED BY <1>0, <1>1, <3>1, <3>2, <3>3 DEF CloseRun, TypeOK
    <2>5. /\ new.status = "delivered" => accepted[r] # {}
          /\ new.status = "failed" => refused[r] \/ new.attempts = MaxAttempts
      BY <1>0, <2>2 DEF RowsAsPromised, DeliveredIsAccepted, GivenUpForCause
    <2>6. RowsAsPromised'
      BY <1>0, <1>1, <2>1, <2>2, <2>3, <2>5, OneRowWritten DEF CloseRun
    <2>7. WorkersKnow'
      BY <1>0, <1>1, <2>3, WorkersKeepKnowing DEF CloseRun
    <2>8. ConsolesKnow'
      BY <1>0, <1>1 DEF CloseRun, ConsolesKnow
    <2> QED BY <2>4, <2>6, <2>7, <2>8 DEF IInv, RowsAsPromised
  <1>2. ASSUME NEW new \in Columns,
               cb' = [cb EXCEPT ![r] = new], new.attempts = cb[r].attempts,
               new.status \in {cb[r].status, "pending"},
               r \in Silent => new.status = "not_requested",
               UNCHANGED <<older, outcome, worker, console, crashes,
                           accepted, refused>>
        PROVE  IInv'
    <2>1. NothingTakenBack
      BY <1>0, <1>2, WriteTakesNothingBack
    <2>2. TypeOK'
      BY <1>0, <1>2 DEF TypeOK
    <2>3. /\ new.status = "delivered" => accepted[r] # {}
          /\ new.status = "failed" => refused[r] \/ new.attempts = MaxAttempts
      BY <1>0, <1>2 DEF RowsAsPromised, DeliveredIsAccepted, GivenUpForCause
    <2>4. RowsAsPromised'
      BY <1>0, <1>2, <2>1, <2>3, OneRowWritten
    <2>5. WorkersKnow'
      BY <1>0, <1>2, <2>1, WorkersKeepKnowing
    <2>6. ConsolesKnow'
      BY <1>0, <1>2 DEF ConsolesKnow
    <2> QED BY <2>2, <2>4, <2>5, <2>6 DEF IInv, RowsAsPromised
  <1>3. CASE Reclaim(r)
    <2> DEFINE new == [cb[r] EXCEPT !.status = "pending", !.due = "now"]
    <2>1. cb' = [cb EXCEPT ![r] = new] /\ r \notin Silent
      BY <1>0, <1>3 DEF Reclaim
    <2>2. /\ new \in Columns /\ new.attempts = cb[r].attempts
          /\ new.status = "pending"
      BY <1>0 DEF Columns, Statuses
    <2> QED BY <1>2, <1>3, <2>1, <2>2 DEF Reclaim
  <1>4. CASE LeaseExpires(r)
    <2> DEFINE new == [cb[r] EXCEPT !.expired = TRUE]
    <2>1. cb' = [cb EXCEPT ![r] = new]
      BY <1>4 DEF LeaseExpires
    <2>2. /\ new \in Columns /\ new.attempts = cb[r].attempts
          /\ new.status = cb[r].status
      BY <1>0 DEF Columns
    <2> QED BY <1>0, <1>2, <1>4, <2>1, <2>2 DEF LeaseExpires
  <1>5. CASE BecomesDue(r)
    <2>1. PICK d \in {"now", "overdue"} :
            cb' = [cb EXCEPT ![r] = [cb[r] EXCEPT !.due = d]]
      BY <1>5 DEF BecomesDue
    <2> DEFINE new == [cb[r] EXCEPT !.due = d]
    <2>2. /\ new \in Columns /\ new.attempts = cb[r].attempts
          /\ new.status = cb[r].status
      BY <1>0 DEF Columns
    <2> QED BY <1>0, <1>2, <1>5, <2>1, <2>2 DEF BecomesDue
  <1> QED BY <1>1, <1>3, <1>4, <1>5 DEF RunStep

(* Every step keeps the invariant.                                         *)
LEMMA NextIInv == IInv /\ [Next]_vars => IInv'
  <1> SUFFICES ASSUME IInv, [Next]_vars PROVE IInv'
    OBVIOUS
  <1>1. CASE Next
    BY <1>1, WorkerStepIInv, CrashIInv, ConsoleStepIInv, RunStepIInv DEF Next
  <1>2. CASE UNCHANGED vars
    BY <1>2
    DEF vars, IInv, TypeOK, DeliveredIsAccepted, GivenUpForCause,
        SilentRunsStaySilent, WorkersKnow, WorkerKnows, ConsolesKnow
  <1> QED BY <1>1, <1>2

-----------------------------------------------------------------------------
(* IInv is an invariant of the deliveries.                                 *)
THEOREM Invariance == Spec => []IInv
  BY InitIInv, NextIInv, PTL DEF Spec

(* The callback columns, the workers' and the consoles' sessions and the   *)
(* history keep their types.                                               *)
THEOREM CallbackTypes == Spec => []TypeOK
  <1>1. IInv => TypeOK
    BY DEF IInv
  <1> QED BY <1>1, Invariance, PTL

(* Only an accepted callback is ever shown as delivered.                   *)
THEOREM DeliveredWasAccepted == Spec => []DeliveredIsAccepted
  <1>1. IInv => DeliveredIsAccepted
    BY DEF IInv
  <1> QED BY <1>1, Invariance, PTL

(* A failed callback was refused for good or has used all its attempts.    *)
THEOREM GivenUpWithCause == Spec => []GivenUpForCause
  <1>1. IInv => GivenUpForCause
    BY DEF IInv
  <1> QED BY <1>1, Invariance, PTL

(* A run without a registered target is never claimed or sent.             *)
THEOREM SilentNeverSent == Spec => []SilentRunsStaySilent
  <1>1. IInv => SilentRunsStaySilent
    BY DEF IInv
  <1> QED BY <1>1, Invariance, PTL

-----------------------------------------------------------------------------
(* The contract with the writers of the run.  A callback is requested of   *)
(* the closed runs that have a target; workers and consoles only ever hold *)
(* such runs, so none of their late writes forgets a request or makes one. *)

RequestedWhenClosed ==
  \A r \in Runs :
    cb[r].status # "not_requested" <=> outcome[r] > 0 /\ r \in Targeted

SessionsHoldClosed ==
  /\ \A w \in Workers : worker[w].pc # "idle" => outcome[worker[w].run] > 0
  /\ \A c \in Consoles : console[c].run # NoRun => outcome[console[c].run] > 0

AskedInv == RequestedWhenClosed /\ SessionsHoldClosed

(* What the contract sees of one run, before and after a step.             *)
LEMMA ToldOf ==
  ASSUME NEW r \in Runs
  PROVE  /\ [q \in Runs |-> outcome[q] > 0][r] <=> outcome[r] > 0
         /\ [q \in Runs |-> outcome[q] > 0]'[r] <=> outcome'[r] > 0
         /\ [q \in Runs |-> Told(q)][r] = Told(r)
         /\ [q \in Runs |-> Told(q)]'[r] = Told(r)'
  OBVIOUS

(* A step that writes no row is none of the contract.                      *)
LEMMA NothingTold ==
  ASSUME AskedInv, UNCHANGED <<cb, outcome>>
  PROVE  RequestedWhenClosed' /\ Callbacks!Next
  BY DEF AskedInv, RequestedWhenClosed, Callbacks!Next, Told

(* A step that writes the row of a requested callback delivers.            *)
LEMMA RequestedTold ==
  ASSUME TypeOK, AskedInv, UNCHANGED outcome,
         NEW r \in Runs, r \in Targeted, outcome[r] > 0,
         NEW new, new.status # "not_requested", cb' = [cb EXCEPT ![r] = new]
  PROVE  RequestedWhenClosed' /\ Callbacks!Next
  <1>1. \A q \in Runs : cb'[q] = IF q = r THEN new ELSE cb[q]
    BY DEF TypeOK
  <1>2. RequestedWhenClosed'
    BY <1>1 DEF AskedInv, RequestedWhenClosed
  <1>3. \A q \in Runs \ {r} : Told(q)' = Told(q)
    BY <1>1 DEF Told
  <1>4. Told(r)' \in {"pending", "delivered"}
    BY <1>1 DEF Told
  <1>5. Callbacks!Next
    BY <1>3, <1>4 DEF Callbacks!Next, Callbacks!Deliver
  <1> QED BY <1>2, <1>5

(* A worker writes the row that it holds.                                  *)
LEMMA WorkerStepTold ==
  ASSUME IInv, AskedInv, NEW w \in Workers, WorkerStep(w) \/ Crash(w)
  PROVE  AskedInv' /\ Callbacks!Next
  <1> DEFINE r == worker[w].run
  <1>1. /\ TypeOK /\ WorkerKnows(w)
        /\ worker[w].pc # "idle" => r \in Runs /\ r \in Targeted /\ outcome[r] > 0
    BY DEF IInv, WorkersKnow, WorkerKnows, Runs, AskedInv, SessionsHoldClosed
  <1>2. RequestedWhenClosed' /\ Callbacks!Next
    <2>1. CASE UNCHANGED <<cb, outcome>>
      BY <2>1, NothingTold
    <2>2. CASE Claim(w) \/ ClaimInvalid(w)
      BY <1>1, <2>2, RequestedTold DEF Claim, ClaimInvalid
    <2>3. CASE Mark(w)
      <3>1. /\ worker[w].verdict \in {"ok", "again", "give_up"}
            /\ cb' = [cb EXCEPT ![r] = MarkedAs(r, worker[w].verdict)]
            /\ outcome' = outcome /\ worker[w].pc # "idle"
        BY <1>1, <2>3 DEF Mark, WorkerKnows
      <3>2. MarkedAs(r, worker[w].verdict).status # "not_requested"
        BY <1>1, <3>1 DEF TypeOK, Columns, MarkedAs, MarkStatus
      <3> HIDE DEF r
      <3> QED BY <1>1, <3>1, <3>2, RequestedTold
    <2> QED BY <2>1, <2>2, <2>3
            DEF WorkerStep, ListDue, ClaimLost, Accept, Refuse, ResolveRetry, Crash
  <1>3. SessionsHoldClosed'
    <2>1. outcome' = outcome /\ console' = console
      BY DEF WorkerStep, Crash, ListDue, Claim, ClaimLost, ClaimInvalid, Accept,
             Refuse, ResolveRetry, Mark
    <2>2. \A v \in Workers \ {w} : worker'[v] = worker[v]
      BY <1>1 DEF TypeOK, WorkerStep, Crash, ListDue, Claim, ClaimLost, ClaimInvalid,
                  Accept, Refuse, ResolveRetry, Mark
    <2>3. worker'[w].pc # "idle" => outcome[worker'[w].run] > 0
      <3>1. CASE ListDue(w)
        BY <1>1, <3>1 DEF ListDue, TypeOK, DueRuns, Listed, Listable
      <3>2. CASE (WorkerStep(w) /\ ~ListDue(w)) \/ Crash(w)
        <4>1. worker[w].pc # "idle"
              /\ (worker'[w].pc = "idle" \/ worker'[w].run = r)
          BY <1>1, <3>2 DEF TypeOK, WorkerStep, Crash, Claim, ClaimLost, ClaimInvalid,
                            Accept, Refuse, ResolveRetry, Mark, IdleWorker
        <4> QED BY <1>1, <4>1
      <3> QED BY <3>1, <3>2
    <2> QED BY <2>1, <2>2, <2>3 DEF AskedInv, SessionsHoldClosed
  <1> QED BY <1>2, <1>3 DEF AskedInv

(* So does a console.                                                      *)
LEMMA ConsoleStepTold ==
  ASSUME IInv, AskedInv, NEW c \in Consoles, ConsoleStep(c)
  PROVE  AskedInv' /\ Callbacks!Next
  <1>1. TypeOK /\ ConsolesKnow
    BY DEF IInv
  <1>2. ASSUME NEW r \in Runs, RedeliverRead(c, r)
        PROVE  AskedInv' /\ Callbacks!Next
    <2>1. outcome[r] > 0
      BY <1>2 DEF RedeliverRead, CanRedeliver, AskedInv, RequestedWhenClosed
    <2>2. SessionsHoldClosed'
      BY <1>1, <1>2, <2>1 DEF RedeliverRead, TypeOK, AskedInv, SessionsHoldClosed
    <2> QED BY <1>2, <2>2, NothingTold DEF RedeliverRead, AskedInv
  <1>3. CASE RedeliverWrite(c)
    <2> DEFINE r == console[c].run
               new == [cb[r] EXCEPT !.due = "now",
                         !.status = IF console[c].status = "pending"
                                    THEN cb[r].status ELSE "pending"]
    <2>1. /\ r \in Runs /\ r \in Targeted /\ cb[r] \in Columns /\ outcome[r] > 0
          /\ cb[r].status # "not_requested"
      BY <1>1, <1>3 DEF RedeliverWrite, ConsolesKnow, TypeOK, Runs, AskedInv,
                        SessionsHoldClosed, RequestedWhenClosed
    <2>2. cb' = [cb EXCEPT ![r] = new] /\ new.status # "not_requested"
      BY <2>1, <1>3 DEF RedeliverWrite, Columns
    <2>3. SessionsHoldClosed'
      BY <1>1, <1>3 DEF RedeliverWrite, TypeOK, IdleConsole, AskedInv, SessionsHoldClosed
    <2> HIDE DEF new, r
    <2> QED BY <1>1, <1>3, <2>1, <2>2, <2>3, RequestedTold DEF RedeliverWrite, AskedInv
  <1> QED BY <1>2, <1>3 DEF ConsoleStep

(* The first close requests, a late one delivers; recovery and time write  *)
(* requested callbacks only.                                               *)
LEMMA RunStepTold ==
  ASSUME IInv, AskedInv, NEW r \in Runs, RunStep(r)
  PROVE  AskedInv' /\ Callbacks!Next
  <1>1. TypeOK /\ cb[r] \in Columns
    BY DEF IInv, TypeOK
  <1>2. CASE CloseRun(r)
    <2>1. PICK new : /\ cb' = [cb EXCEPT ![r] = new]
                     /\ \/ new = Scheduled(r)
                        \/ outcome[r] > 0 /\ new = Rescheduled(r)
      BY <1>2 DEF CloseRun
    <2>2. /\ outcome[r] \in Nat /\ outcome'[r] = outcome[r] + 1
          /\ \A q \in Runs \ {r} : outcome'[q] = outcome[q] /\ cb'[q] = cb[q]
          /\ cb'[r] = new
      BY <1>1, <1>2, <2>1, ConstantsAssumption DEF CloseRun, TypeOK
    <2>3. new.status = "not_requested" <=> r \notin Targeted
      BY <1>1, <2>1 DEF Scheduled, Rescheduled, Columns, AskedInv, RequestedWhenClosed
    <2>4. RequestedWhenClosed' /\ outcome'[r] > 0
      BY <2>2, <2>3 DEF AskedInv, RequestedWhenClosed
    <2>5. SessionsHoldClosed'
      <3>1. \A q \in Runs : outcome[q] > 0 => outcome'[q] > 0
        BY <2>2, <2>4
      <3>2. \A w \in Workers : worker[w].pc # "idle" => worker[w].run \in Runs
        BY DEF IInv, WorkersKnow, WorkerKnows, Runs
      <3>3. \A c \in Consoles : console[c].run # NoRun => console[c].run \in Runs
        BY DEF IInv, ConsolesKnow, Runs
      <3> QED BY <1>2, <3>1, <3>2, <3>3 DEF CloseRun, AskedInv, SessionsHoldClosed
    <2>6. \A q \in Runs \ {r} :
            UNCHANGED <<[p \in Runs |-> outcome[p] > 0][q], [p \in Runs |-> Told(p)][q]>>
      BY <2>2 DEF Told
    <2>7. CASE outcome[r] = 0
      <3>1. new = Scheduled(r)
        BY <2>1, <2>7
      <3>2. Told(r)' = Callbacks!Requested(r)
        BY <1>1, <2>2, <3>1 DEF Told, Scheduled, Columns, Callbacks!Requested
      <3>3. ~(outcome[r] > 0)
        BY <2>7
      <3>4. Callbacks!Close(r)
        BY <2>4, <3>2, <3>3, ToldOf, Zenon DEF Callbacks!Close
      <3> QED BY <2>4, <2>5, <2>6, <3>4 DEF AskedInv, Callbacks!Next
    <2>8. CASE outcome[r] > 0 /\ r \in Targeted
      <3>1. Told(r)' \in {"pending", "delivered"}
        BY <2>2, <2>3, <2>8 DEF Told
      <3>2. Callbacks!Deliver(r)
        BY <2>4, <2>8, <3>1 DEF Callbacks!Deliver
      <3> QED BY <2>4, <2>5, <2>6, <3>2 DEF AskedInv, Callbacks!Next
    <2>9. CASE outcome[r] > 0 /\ r \notin Targeted
      <3>1. Told(r)' = "not_requested" /\ Told(r) = "not_requested"
        BY <2>2, <2>3, <2>9 DEF Told, AskedInv, RequestedWhenClosed
      <3> QED BY <2>2, <2>4, <2>5, <2>6, <2>9, <3>1 DEF AskedInv, Callbacks!Next
    <2> QED BY <2>2, <2>7, <2>8, <2>9
  <1>3. CASE Reclaim(r) \/ LeaseExpires(r) \/ BecomesDue(r)
    <2>1. PICK new : /\ cb' = [cb EXCEPT ![r] = new] /\ new.status # "not_requested"
                     /\ cb[r].status # "not_requested"
      BY <1>1, <1>3 DEF Reclaim, LeaseExpires, BecomesDue, Columns
    <2>2. outcome[r] > 0 /\ r \in Targeted
      BY <2>1 DEF AskedInv, RequestedWhenClosed
    <2>3. UNCHANGED <<outcome, worker, console>>
      BY <1>3 DEF Reclaim, LeaseExpires, BecomesDue
    <2>4. SessionsHoldClosed'
      BY <2>3 DEF AskedInv, SessionsHoldClosed
    <2> QED BY <1>1, <2>1, <2>2, <2>3, <2>4, RequestedTold DEF AskedInv
  <1> QED BY <1>2, <1>3 DEF RunStep

(* Callback workers keep the contract with the writers of the run, for any *)
(* runs, workers, consoles, crashes and late outcomes: callbacks are       *)
(* requested by terminal transitions only, and stay requested.             *)
THEOREM CallbacksKept == Spec => KeepsCallbacks
  <1>1. Init => AskedInv /\ Callbacks!Init
    <2>1. Init => AskedInv
      BY DEF Init, AskedInv, RequestedWhenClosed, SessionsHoldClosed, IdleWorker,
             IdleConsole
    <2>2. ASSUME Init, NEW r \in Runs PROVE Callbacks!Open(r)
      <3>1. ~(outcome[r] > 0) /\ Told(r) = "not_requested"
        BY <2>2 DEF Init, Told
      <3> QED BY <3>1, ToldOf, Zenon DEF Callbacks!Open
    <2> QED BY <2>1, <2>2 DEF Callbacks!Init
  <1>2. IInv /\ AskedInv /\ [Next]_vars => AskedInv' /\ [Callbacks!Next]_Callbacks!vars
    <2> SUFFICES ASSUME IInv, AskedInv, [Next]_vars
                 PROVE  AskedInv' /\ [Callbacks!Next]_Callbacks!vars
      OBVIOUS
    <2>1. CASE Next
      BY <2>1, WorkerStepTold, ConsoleStepTold, RunStepTold DEF Next
    <2>2. CASE UNCHANGED vars
      BY <2>2 DEF vars, AskedInv, RequestedWhenClosed, SessionsHoldClosed,
                  Callbacks!vars, Told
    <2> QED BY <2>1, <2>2
  <1> QED BY <1>1, <1>2, Invariance, PTL
          DEF Spec, KeepsCallbacks, Callbacks!Spec
=============================================================================
