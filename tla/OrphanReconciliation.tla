------------------------- MODULE OrphanReconciliation -------------------------
(***************************************************************************)
(* Removal of orphaned objects: reconcilers (the operations cadence, in     *)
(* every replica) list the whole store in passes, remember objects without  *)
(* a row as candidates, and delete a candidate that two complete passes a   *)
(* safety window apart have seen, under the exclusive lock of the store     *)
(* (app/domain/media_artifacts/orphan_reconciliation.py).                   *)
(*                                                                         *)
(* Time is what the code asks of it. The cutoff of a pass lies one safety   *)
(* window (at least an hour) before its start; "aged" says that a window    *)
(* has passed, "ripe" that it had passed when the running pass started.     *)
(***************************************************************************)
EXTENDS ArtifactPublication, FiniteSets

CONSTANTS
  Reconcilers,
  NoOne,
  CleanupEnabled, \* artifact_orphan_cleanup_enabled, FALSE unless an operator sets it
  BatchSize,      \* artifact_orphan_cleanup_batch_size
  MaxFaults       \* bound on crashes, failed deletions and leases outlasted alive

VARIABLES
  age,         \* age[k]: of the object, against the cutoff
  active,      \* the reconciler that owns the running pass (scan_claim_id), or NoOne
  passLapsed,  \* has the lease of the running pass run out?
  scanned,     \* keys the running pass has been through
  cand,        \* cand[k]: the orphan candidate row of k
  step,        \* step[c]: where reconciler c stands
  batch,       \* batch[c]: selected candidates that c has not finished with
  target,      \* target[c]: the key c has claimed
  faults

passVars == <<active, passLapsed, scanned>>
workVars == <<step, batch, target>>
vars == <<publicationVars, age, passVars, cand, workVars, faults>>

Age == {"young", "aged", "ripe"}

\* A candidate refers to its first and its last pass by identifier. What is ever
\* asked of them: whether the last is the running pass or the newest completed one
\* (head_slot), and whether the first was completed before the cutoff.
First == {"active", "recent", "aged", "ripe", "void"}   \* "void": abandoned
Last == {"active", "head", "past"}
CandidateState ==
  {"none", "observed", "eligible", "claimed", "retry_wait", "deleted", "invalidated"}
Candidate == [state: CandidateState, first: First, last: Last,
              owner: Reconcilers \union {NoOne}, lapsed: BOOLEAN]

\* "idle", "scanning", "cleaning" before the batch is selected, "selected" between its
\* candidates, and three steps with one of them, which hold the exclusive lock.
Fenced == {"claimed", "checked", "deleted"}
Step == {"idle", "scanning", "cleaning", "selected"} \union Fenced

\* Keys are numbered in the order of the database.
ASSUME ConstantsAssumption ==
  /\ Keys \subseteq Nat
  /\ NoOne \notin Reconcilers
  /\ CleanupEnabled \in BOOLEAN
  /\ BatchSize \in Nat \ {0}
  /\ MaxFaults \in Nat

TypeOK ==
  /\ PublicationTypeOK
  /\ age \in [Keys -> Age]
  /\ active \in Reconcilers \union {NoOne}
  /\ passLapsed \in BOOLEAN
  /\ scanned \in SUBSET Keys
  /\ cand \in [Keys -> Candidate]
  /\ step \in [Reconcilers -> Step]
  /\ batch \in [Reconcilers -> SUBSET Keys]
  /\ target \in [Reconcilers -> Keys \union {NoOne}]
  /\ faults \in 0..MaxFaults

NoCandidate ==
  [state |-> "none", first |-> "void", last |-> "past", owner |-> NoOne, lapsed |-> FALSE]

Init ==
  /\ PublicationInit
  /\ age = [k \in Keys |-> "young"]
  /\ active = NoOne
  /\ passLapsed = FALSE
  /\ scanned = {}
  /\ cand = [k \in Keys |-> NoCandidate]
  /\ step = [c \in Reconcilers |-> "idle"]
  /\ batch = [c \in Reconcilers |-> {}]
  /\ target = [c \in Reconcilers |-> NoOne]
  /\ faults = 0

-----------------------------------------------------------------------------
(* The store's lock: publications hold it shared and wait for it, a reconciler
   takes it exclusively or not at all (LOCK_EX | LOCK_NB).                     *)

FenceHeld == \E c \in Reconcilers : step[c] \in Fenced

\* Mutated: publications in progress are not waited for.
FenceFreeOfReconcilers == ~FenceHeld

FenceFree == ~FenceHeld /\ Publishing = {}

Publish(k) == ~FenceHeld /\ Put(k)

\* A commit the database still has to decide is one of an object younger than the
\* safety window; later losses are decided at once (Commit, LoseTrack).
LoseAnswer(k) == age[k] = "young" /\ CommitUnanswered(k)

EndTransaction(k) ==
  /\ Commit(k) \/ LoseAnswer(k) \/ Decided(k) \/ RollBack(k) \/ LoseTrack(k)
  /\ UNCHANGED <<age, passVars, cand, workVars, faults>>

BeginTransaction(k) ==
  /\ Publish(k)
  /\ UNCHANGED <<age, passVars, cand, workVars, faults>>

-----------------------------------------------------------------------------
(* Time.                                                                     *)

ObjectAges(k) ==
  /\ phase[k] \in {"open", "ended"}
  /\ age[k] = "young"
  /\ age' = [age EXCEPT ![k] = "aged"]
  /\ UNCHANGED <<publicationVars, passVars, cand, workVars, faults>>

\* A safety window has passed since the first pass of the candidate was completed.
EvidenceAges(k) ==
  /\ cand[k].first = "recent"
  /\ cand' = [cand EXCEPT ![k].first = "aged"]
  /\ UNCHANGED <<publicationVars, age, passVars, workVars, faults>>

Fault == faults < MaxFaults /\ faults' = faults + 1

\* Leases run out: of a dead holder for certain, of a slow one now and then.
PassLapses ==
  /\ active # NoOne /\ ~passLapsed
  /\ IF step[active] = "scanning" THEN Fault ELSE UNCHANGED faults
  /\ passLapsed' = TRUE
  /\ UNCHANGED <<publicationVars, age, active, scanned, cand, workVars>>

ClaimLapses(k) ==
  /\ cand[k].state = "claimed" /\ ~cand[k].lapsed
  /\ IF \E c \in Reconcilers : step[c] \in Fenced /\ target[c] = k
       THEN Fault ELSE UNCHANGED faults
  /\ cand' = [cand EXCEPT ![k].lapsed = TRUE]
  /\ UNCHANGED <<publicationVars, age, passVars, workVars>>

-----------------------------------------------------------------------------
(* Passes.                                                                   *)

\* What the end of the running pass means for a candidate that refers to it.
Abandoned(d) == [d EXCEPT !.first = IF @ = "active" THEN "void" ELSE @,
                          !.last = IF @ = "active" THEN "past" ELSE @]

\* Complete evidence: seen by this pass and by one completed before its cutoff.
Proven(d) == d.state = "observed" /\ d.last = "active" /\ d.first = "ripe"

Completed(d) ==
  [d EXCEPT !.state = IF Proven(d) THEN "eligible" ELSE @,
            !.first = IF @ = "active" THEN "recent" ELSE @,
            !.last = CASE @ = "active" -> "head" [] OTHER -> "past"]

\* _acquire_pass: takes the slot of no or an expired pass, and fixes the cutoff.
Started(d) == [d EXCEPT !.first = IF @ = "aged" THEN "ripe" ELSE @]

StartPass(c) ==
  /\ step[c] = "idle"
  /\ active = NoOne \/ passLapsed
  /\ cand' = [k \in Keys |->
                Started(IF active = NoOne THEN cand[k] ELSE Abandoned(cand[k]))]
  /\ age' = [k \in Keys |-> IF age[k] = "aged" THEN "ripe" ELSE age[k]]
  /\ active' = c
  /\ passLapsed' = FALSE
  /\ scanned' = {}
  /\ step' = [step EXCEPT ![c] = "scanning"]
  /\ UNCHANGED <<publicationVars, batch, target, faults>>

Held(d) == d.state = "claimed" /\ ~d.lapsed
Continuous(d) == d.state \notin {"none", "deleted", "invalidated"} /\ d.last = "head"
Invalidated(d) == [d EXCEPT !.state = "invalidated", !.owner = NoOne, !.lapsed = FALSE]
Referenced(k) == row[k] # "none"

\* Mutated: the scan does not advance a candidate that waits for its deletion.
ObservedAnew(k) ==
  LET d == cand[k]
  IN  CASE Referenced(k) \/ age[k] # "ripe" ->
             IF d.state = "none" \/ Held(d) THEN d ELSE Invalidated(d)
        [] Held(d) -> d
        [] OTHER -> [state |-> "observed", first |-> "active",
                     last |-> "active", owner |-> NoOne, lapsed |-> FALSE]

\* _persist_page for one listed object. A decision that is still open (eligible,
\* claimed, waiting) is carried over to this pass while the passes are continuous,
\* and a claim in use is never replaced.
Observed(k) ==
  LET d == cand[k]
      watched == Continuous(d) /\ d.state = "observed"
  IN  CASE Referenced(k) \/ age[k] # "ripe" ->
             IF d.state = "none" \/ Held(d) THEN d ELSE Invalidated(d)
        [] Continuous(d) /\ ~watched -> [d EXCEPT !.last = "active"]
        [] Held(d) /\ ~Continuous(d) -> d
        [] OTHER -> [state |-> "observed",
                     first |-> IF watched THEN d.first ELSE "active",
                     last |-> "active", owner |-> NoOne, lapsed |-> FALSE]

\* The active slot and what belongs to the pass in it.
EndPass ==
  /\ active' = NoOne
  /\ passLapsed' = FALSE
  /\ scanned' = {}

OwnsPass(c) == step[c] = "scanning" /\ active = c /\ ~passLapsed

\* One key: not in the store, or listed and judged in the transaction that renews
\* the lease of the pass.
Scan(c, k) ==
  /\ OwnsPass(c)
  /\ k \notin scanned
  /\ scanned' = scanned \union {k}
  /\ cand' = IF k \in bytes THEN [cand EXCEPT ![k] = Observed(k)] ELSE cand
  /\ UNCHANGED <<publicationVars, age, active, passLapsed, workVars, faults>>

\* The pass becomes the head, also where nothing is cleaned up.
CompletePass(c) ==
  /\ OwnsPass(c)
  /\ scanned = Keys
  /\ cand' = [k \in Keys |-> Completed(cand[k])]
  /\ EndPass
  /\ step' = [step EXCEPT ![c] = IF CleanupEnabled THEN "cleaning" ELSE "idle"]
  /\ UNCHANGED <<publicationVars, age, batch, target, faults>>

\* The pass was taken over, its lease has run out, or the listing failed:
\* _abandon_pass ends it if it is still this reconciler's.
StopPass(c) ==
  /\ step[c] = "scanning"
  /\ IF OwnsPass(c) THEN Fault ELSE UNCHANGED faults
  /\ step' = [step EXCEPT ![c] = "idle"]
  /\ IF active = c
       THEN /\ EndPass
            /\ cand' = [k \in Keys |-> Abandoned(cand[k])]
       ELSE UNCHANGED <<passVars, cand>>
  /\ UNCHANGED <<publicationVars, age, batch, target>>

-----------------------------------------------------------------------------
(* Cleanup, candidate by candidate, each under the exclusive lock.           *)

Due(d) ==
  /\ d.last = "head"
  /\ \/ d.state \in {"eligible", "retry_wait"}
     \/ d.state = "claimed" /\ d.lapsed

Cleanable == {k \in Keys : Due(cand[k])}

Foremost(S) == {k \in S : Cardinality({j \in S : j < k}) < BatchSize}

\* _select_cleanup_candidates: the first due keys, read once.
Select(c) ==
  /\ step[c] = "cleaning"
  /\ Cleanable # {}
  /\ batch' = [batch EXCEPT ![c] = Foremost(Cleanable)]
  /\ step' = [step EXCEPT ![c] = "selected"]
  /\ UNCHANGED <<publicationVars, age, passVars, cand, target, faults>>

Stops(c) ==
  /\ step' = [step EXCEPT ![c] = "idle"]
  /\ batch' = [batch EXCEPT ![c] = {}]
  /\ target' = [target EXCEPT ![c] = NoOne]

NothingDue(c) ==
  /\ step[c] = "cleaning"
  /\ Cleanable = {}
  /\ Stops(c)
  /\ UNCHANGED <<publicationVars, age, passVars, cand, faults>>

\* Another holds the lock: the rest of the batch is left ("cleanup_fence_busy").
FenceBusy(c) ==
  /\ step[c] = "selected"
  /\ ~FenceFree
  /\ Stops(c)
  /\ UNCHANGED <<publicationVars, age, passVars, cand, faults>>

\* The lock is released with k, and the next key of the batch taken.
MovesOn(c, k) ==
  /\ step' = [step EXCEPT ![c] = IF batch[c] = {k} THEN "idle" ELSE "selected"]
  /\ batch' = [batch EXCEPT ![c] = @ \ {k}]
  /\ target' = [target EXCEPT ![c] = NoOne]

\* The lock is won for k, the first of the keys that are left.
Turn(c, k) ==
  /\ step[c] = "selected"
  /\ k \in batch[c] /\ \A j \in batch[c] : k <= j
  /\ FenceFree

\* _claim_one_candidate: k was dealt with, or a pass went over it, since the select ...
Skip(c, k) ==
  /\ Turn(c, k)
  /\ ~Due(cand[k])
  /\ MovesOn(c, k)
  /\ UNCHANGED <<publicationVars, age, passVars, cand, faults>>

\* ... or has a row ...
Dismiss(c, k) ==
  /\ Turn(c, k)
  /\ Due(cand[k]) /\ Referenced(k)
  /\ cand' = [cand EXCEPT ![k] = Invalidated(@)]
  /\ MovesOn(c, k)
  /\ UNCHANGED <<publicationVars, age, passVars, faults>>

\* ... or is claimed.
Claim(c, k) ==
  /\ Turn(c, k)
  /\ Due(cand[k]) /\ ~Referenced(k)
  /\ cand' = [cand EXCEPT ![k].state = "claimed", ![k].owner = c, ![k].lapsed = FALSE]
  /\ step' = [step EXCEPT ![c] = "claimed"]
  /\ target' = [target EXCEPT ![c] = k]
  /\ UNCHANGED <<publicationVars, age, passVars, batch, faults>>

Claimed(c) == cand[target[c]].state = "claimed" /\ cand[target[c]].owner = c

\* _refresh_and_recheck_claim: the last look at the row, and a fresh lease.
Recheck(c) ==
  /\ step[c] = "claimed"
  /\ IF Claimed(c) /\ ~Referenced(target[c])
       THEN /\ cand' = [cand EXCEPT ![target[c]].lapsed = FALSE]
            /\ step' = [step EXCEPT ![c] = "checked"]
            /\ UNCHANGED <<batch, target>>
       ELSE /\ cand' = IF Claimed(c)
                         THEN [cand EXCEPT ![target[c]] = Invalidated(@)] ELSE cand
            /\ MovesOn(c, target[c])
  /\ UNCHANGED <<publicationVars, age, passVars, faults>>

\* delete_if_unchanged: deleted now or found absent, durably.
Delete(c) ==
  /\ step[c] = "checked"
  /\ bytes' = bytes \ {target[c]}
  /\ step' = [step EXCEPT ![c] = "deleted"]
  /\ UNCHANGED <<phase, row, age, passVars, cand, batch, target, faults>>

\* Every outcome is recorded only over this reconciler's own claim.
Record(c, state) ==
  /\ cand' = IF Claimed(c)
               THEN [cand EXCEPT ![target[c]].state = state,
                                 ![target[c]].owner = NoOne,
                                 ![target[c]].lapsed = FALSE]
               ELSE cand
  /\ MovesOn(c, target[c])

\* Mutated: recorded under a name nobody reads.
RecordRemoved(c) ==
  /\ step[c] = "deleted"
  /\ Record(c, "removed")
  /\ UNCHANGED <<publicationVars, age, passVars, faults>>

RecordDeleted(c) ==
  /\ step[c] = "deleted"
  /\ Record(c, "deleted")
  /\ UNCHANGED <<publicationVars, age, passVars, faults>>

\* The recheck or the deletion raised, or the layout was not safe. A deletion may
\* raise when the object is unlinked already (its fsync, the last validation).
CleanupFails(c) ==
  /\ step[c] \in {"claimed", "checked"}
  /\ bytes' \in IF step[c] = "checked" THEN {bytes, bytes \ {target[c]}} ELSE {bytes}
  /\ Fault
  /\ Record(c, "retry_wait")
  /\ UNCHANGED <<phase, row, age, passVars>>

\* The process dies, or the recording of an outcome raises and ends the cleanup:
\* the lock is released, leases and the claim stay.
Crash(c) ==
  /\ step[c] # "idle"
  /\ Fault
  /\ Stops(c)
  /\ UNCHANGED <<publicationVars, age, passVars, cand>>

-----------------------------------------------------------------------------
Work(c) ==
  \/ StartPass(c) \/ CompletePass(c) \/ StopPass(c)
  \/ Select(c) \/ NothingDue(c) \/ FenceBusy(c)
  \/ Recheck(c) \/ Delete(c) \/ RecordDeleted(c) \/ CleanupFails(c)
  \/ \E k \in Keys : Scan(c, k) \/ Skip(c, k) \/ Dismiss(c, k) \/ Claim(c, k)

Time == PassLapses \/ \E k \in Keys : ObjectAges(k) \/ EvidenceAges(k) \/ ClaimLapses(k)

Publication == \E k \in Keys : BeginTransaction(k) \/ EndTransaction(k)

Next == Publication \/ Time \/ \E c \in Reconcilers : Work(c) \/ Crash(c)

Spec == Init /\ [][Next]_vars

\* The cadence keeps running its reconcilers, time passes and leases end, and every
\* transaction ends and is decided. Nothing is assumed of the lock, nor of the key a
\* cleanup comes to.
Fairness ==
  /\ WF_vars(PassLapses)
  /\ \A c \in Reconcilers : WF_vars(Work(c))
  /\ \A k \in Keys :
       /\ WF_vars(ObjectAges(k)) /\ WF_vars(EvidenceAges(k)) /\ WF_vars(ClaimLapses(k))
       /\ WF_vars(EndTransaction(k))

FairSpec == Spec /\ Fairness

-----------------------------------------------------------------------------
\* In the end one process reconciles, as in production (docker-compose.prod.yml). Two can
\* starve each other's cleanup in lockstep: each scans a key between the other's pass and
\* its select.
OneReconciles ==
  \E c \in Reconcilers : <>[](\A d \in Reconcilers \ {c} : step[d] = "idle")

\* Where cleanup is enabled - it is not by default, nor in production (ADR-015) - and one
\* process reconciles, an object whose publication ended without a row is deleted in the
\* end, whatever passes were abandoned, claims lost and deletions refused in between: as
\* long as these are finitely many. Deletions of BatchSize lower keys that fail for ever,
\* or publications that hold the lock at every cleanup, can keep a key waiting.
OrphanIsRemoved ==
  CleanupEnabled /\ OneReconciles => \A k \in Keys : Orphan(k) ~> k \notin bytes

\* ADR-015: "If unlink succeeds but finalize is lost, the next stale claim converges
\* through the durable-absence path." It does not hold, and no run checks it (README): the
\* pass before the next cleanup no longer lists the object, so its claim is never selected.
UnlinkedIsRecorded ==
  \A k \in Keys : (\E c \in Reconcilers : step[c] = "deleted" /\ target[c] = k)
                    ~> cand[k].state = "deleted"
=============================================================================
