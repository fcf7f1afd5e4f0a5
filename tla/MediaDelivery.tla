---------------------------- MODULE MediaDelivery ----------------------------
(***************************************************************************)
(* The life of a published media artifact: sites pull it in deliveries they *)
(* acknowledge, and after its retention the cadence purges it: it claims    *)
(* the row, which revokes what is not acknowledged, deletes the bytes       *)
(* outside of any transaction, and records the outcome over its claim       *)
(* (app/domain/media_artifacts/delivery.py, lifecycle.py;                   *)
(* app/api/routes/media_derivatives.py).                                    *)
(***************************************************************************)
EXTENDS ArtifactPublication

CONSTANTS
  Deliveries,  \* pulls of artifacts, by a site's connector
  Purgers,     \* runs of the cleanup, in the replicas of the cadence
  NoOne,
  MaxFaults    \* bound on crashes, failed deletions and leases outlasted alive

VARIABLES
  life,        \* life[k]: retention left
  claim,       \* claim[k]: the purger whose claim the row carries, or NoOne
  lapsed,      \* lapsed[k]: has the lease of that claim run out?
  delivery,    \* delivery[d]: the delivery row
  reader,      \* reader[d]: where the request that serves d stands
  purger,      \* purger[p]: where purger p stands
  work,        \* work[p]: the artifact it has claimed
  faults

purgeVars == <<claim, lapsed, purger, work>>
pullVars == <<delivery, reader>>
vars == <<publicationVars, life, purgeVars, pullVars, faults>>

\* "closing": less than the five minutes a pull needs are left.
Life == {"fresh", "closing", "expired"}
Delivery == [key: Keys \union {NoOne}, completed: BOOLEAN, acked: BOOLEAN,
             revoked: BOOLEAN, late: BOOLEAN]
NoDelivery == [key |-> NoOne, completed |-> FALSE, acked |-> FALSE,
               revoked |-> FALSE, late |-> FALSE]

ASSUME DeliveryAssumption ==
  /\ NoOne \notin Purgers \union Keys
  /\ MaxFaults \in Nat

TypeOK ==
  /\ PublicationTypeOK
  /\ life \in [Keys -> Life]
  /\ claim \in [Keys -> Purgers \union {NoOne}]
  /\ lapsed \in [Keys -> BOOLEAN]
  /\ delivery \in [Deliveries -> Delivery]
  /\ reader \in [Deliveries -> {"idle", "prepared", "streaming", "ended"}]
  /\ purger \in [Purgers -> {"idle", "claimed", "deleted", "failed"}]
  /\ work \in [Purgers -> Keys \union {NoOne}]
  /\ faults \in 0..MaxFaults

Init ==
  /\ PublicationInit
  /\ life = [k \in Keys |-> "fresh"]
  /\ claim = [k \in Keys |-> NoOne]
  /\ lapsed = [k \in Keys |-> FALSE]
  /\ delivery = [d \in Deliveries |-> NoDelivery]
  /\ reader = [d \in Deliveries |-> "idle"]
  /\ purger = [p \in Purgers |-> "idle"]
  /\ work = [p \in Purgers |-> NoOne]
  /\ faults = 0

Publication ==
  /\ \E k \in Keys : \/ Put(k) \/ Commit(k) \/ CommitUnanswered(k) \/ Decided(k)
                     \/ RollBack(k) \/ LoseTrack(k)
  /\ UNCHANGED <<life, purgeVars, pullVars, faults>>

Of(k) == {d \in Deliveries : delivery[d].key = k}
Fault == faults < MaxFaults /\ faults' = faults + 1

-----------------------------------------------------------------------------
(* Time. The deadline of an acknowledgement is never after the expiry.       *)

Closes(k) ==
  /\ phase[k] # "unborn"
  /\ life[k] = "fresh"
  /\ life' = [life EXCEPT ![k] = "closing"]
  /\ UNCHANGED <<publicationVars, purgeVars, pullVars, faults>>

Expires(k) ==
  /\ life[k] = "closing"
  /\ life' = [life EXCEPT ![k] = "expired"]
  /\ delivery' = [d \in Deliveries |->
                    IF d \in Of(k) THEN [delivery[d] EXCEPT !.late = TRUE]
                                   ELSE delivery[d]]
  /\ UNCHANGED <<publicationVars, purgeVars, reader, faults>>

\* Of a delivery that is not exposed yet, this is the moment five minutes earlier.
DeadlinePasses(d) ==
  /\ delivery[d].key # NoOne /\ ~delivery[d].late
  /\ delivery' = [delivery EXCEPT ![d].late = TRUE]
  /\ UNCHANGED <<publicationVars, life, purgeVars, reader, faults>>

ClaimLapses(k) ==
  /\ claim[k] # NoOne /\ ~lapsed[k]
  /\ IF work[claim[k]] = k THEN Fault ELSE UNCHANGED faults
  /\ lapsed' = [lapsed EXCEPT ![k] = TRUE]
  /\ UNCHANGED <<publicationVars, life, claim, purger, work, pullVars>>

-----------------------------------------------------------------------------
(* Pulling. Every step but the reading itself locks the artifact row.        *)

\* prepare_media_artifact_delivery and the commit of its caller.
Prepare(d, k) ==
  /\ reader[d] = "idle"
  /\ row[k] = "available" /\ life[k] = "fresh" /\ k \in bytes
  /\ delivery' = [delivery EXCEPT ![d] = [NoDelivery EXCEPT !.key = k]]
  /\ reader' = [reader EXCEPT ![d] = "prepared"]
  /\ UNCHANGED <<publicationVars, life, purgeVars, faults>>

Exposable(d) ==
  LET k == delivery[d].key
  IN  /\ row[k] = "available" /\ life[k] = "fresh"
      /\ ~delivery[d].revoked /\ ~delivery[d].late

\* revalidate_committed_media_artifact_delivery: the site gets its stream ...
Expose(d) ==
  /\ reader[d] = "prepared"
  /\ Exposable(d)
  /\ reader' = [reader EXCEPT ![d] = "streaming"]
  /\ UNCHANGED <<publicationVars, life, purgeVars, delivery, faults>>

\* ... or an error, and the pristine delivery row is removed.
Discard(d) ==
  /\ reader[d] = "prepared"
  /\ ~Exposable(d)
  /\ reader' = [reader EXCEPT ![d] = "ended"]
  /\ delivery' = IF delivery[d].revoked THEN delivery
                 ELSE [delivery EXCEPT ![d] = NoDelivery]
  /\ UNCHANGED <<publicationVars, life, purgeVars, faults>>

\* iter_verified_delivery_chunks reached the end with the expected checksum. (An
\* object deleted meanwhile stays readable through the open stream.)
Complete(d) ==
  /\ reader[d] = "streaming"
  /\ reader' = [reader EXCEPT ![d] = "ended"]
  /\ delivery' = IF ~delivery[d].revoked /\ row[delivery[d].key] = "available"
                   THEN [delivery EXCEPT ![d].completed = TRUE] ELSE delivery
  /\ UNCHANGED <<publicationVars, life, purgeVars, faults>>

\* The client goes away, the process dies, or the bytes differ.
BreakOff(d) ==
  /\ reader[d] \in {"prepared", "streaming"}
  /\ reader' = [reader EXCEPT ![d] = "ended"]
  /\ UNCHANGED <<publicationVars, life, purgeVars, delivery, faults>>

\* Mutated: whether the delivery was revoked or completed is not asked.
AcknowledgeableInTime(d) ==
  LET r == delivery[d]
  IN  /\ r.key # NoOne
      /\ ~r.acked /\ ~r.late
      /\ row[r.key] = "available" /\ life[r.key] # "expired"

Acknowledgeable(d) ==
  LET r == delivery[d]
  IN  /\ r.key # NoOne
      /\ r.completed /\ ~r.acked /\ ~r.revoked /\ ~r.late
      /\ row[r.key] = "available" /\ life[r.key] # "expired"

\* acknowledge_media_artifact_delivery, by a connector that received the bytes; a
\* repeated request finds the acknowledgement and changes nothing.
Acknowledge(d) ==
  /\ Acknowledgeable(d)
  /\ delivery' = [delivery EXCEPT ![d].acked = TRUE]
  /\ UNCHANGED <<publicationVars, life, purgeVars, reader, faults>>

-----------------------------------------------------------------------------
(* Purging.                                                                  *)

\* Mutated: what the site has received completely is spared.
RevocableInFlight(k) == {d \in Of(k) : ~delivery[d].acked /\ ~delivery[d].completed}

\* Deliveries that a purge revokes: completed or not, unless acknowledged.
Revocable(k) == {d \in Of(k) : ~delivery[d].acked}

\* An earlier claim must have run out or been given back.
Unclaimed(k) == claim[k] = NoOne \/ lapsed[k]

\* Mutated: only the first attempt finds the row.
PurgeableOnce(k) == life[k] = "expired" /\ row[k] = "available" /\ Unclaimed(k)

Purgeable(k) ==
  life[k] = "expired" /\ row[k] \in {"available", "purge_pending"} /\ Unclaimed(k)

\* _claim_batch, for one artifact of the batch (FOR UPDATE SKIP LOCKED and a guarded
\* UPDATE).
ClaimPurge(p, k) ==
  /\ purger[p] = "idle"
  /\ Purgeable(k)
  /\ row' = [row EXCEPT ![k] = "purge_pending"]
  /\ claim' = [claim EXCEPT ![k] = p]
  /\ lapsed' = [lapsed EXCEPT ![k] = FALSE]
  /\ delivery' = [d \in Deliveries |->
                    IF d \in Revocable(k) THEN [delivery[d] EXCEPT !.revoked = TRUE]
                                          ELSE delivery[d]]
  /\ purger' = [purger EXCEPT ![p] = "claimed"]
  /\ work' = [work EXCEPT ![p] = k]
  /\ UNCHANGED <<phase, bytes, life, reader, faults>>

DeleteBytes(p) ==
  /\ purger[p] = "claimed"
  /\ bytes' = bytes \ {work[p]}
  /\ purger' = [purger EXCEPT ![p] = "deleted"]
  /\ UNCHANGED <<phase, row, life, claim, lapsed, work, pullVars, faults>>

DeleteFails(p) ==
  /\ purger[p] = "claimed"
  /\ Fault
  /\ purger' = [purger EXCEPT ![p] = "failed"]
  /\ UNCHANGED <<publicationVars, life, claim, lapsed, work, pullVars>>

\* Both outcomes are written only where the row still carries this claim.
Own(p) == claim[work[p]] = p /\ row[work[p]] = "purge_pending"

\* Mutated: the purger does not become free again.
FinishedForEver(p) ==
  /\ purger' = [purger EXCEPT ![p] = "done"]
  /\ work' = [work EXCEPT ![p] = NoOne]

Finished(p) ==
  /\ purger' = [purger EXCEPT ![p] = "idle"]
  /\ work' = [work EXCEPT ![p] = NoOne]

GiveBack(k) ==
  /\ claim' = [claim EXCEPT ![k] = NoOne]
  /\ lapsed' = [lapsed EXCEPT ![k] = FALSE]

FinalizeSuccess(p) ==
  /\ purger[p] = "deleted"
  /\ IF Own(p) THEN row' = [row EXCEPT ![work[p]] = "purged"] /\ GiveBack(work[p])
               ELSE UNCHANGED <<row, claim, lapsed>>
  /\ Finished(p)
  /\ UNCHANGED <<phase, bytes, life, pullVars, faults>>

\* Mutated: the failure is recorded whoever owns the claim by now.
FinalizeAnyFailure(p) ==
  /\ purger[p] = "failed"
  /\ row' = [row EXCEPT ![work[p]] = "purge_pending"]
  /\ GiveBack(work[p])
  /\ Finished(p)
  /\ UNCHANGED <<phase, bytes, life, pullVars, faults>>

\* The row stays purge_pending, for a later attempt.
FinalizeFailure(p) ==
  /\ purger[p] = "failed"
  /\ IF Own(p) THEN GiveBack(work[p]) ELSE UNCHANGED <<claim, lapsed>>
  /\ Finished(p)
  /\ UNCHANGED <<publicationVars, life, pullVars, faults>>

PurgerCrash(p) ==
  /\ purger[p] # "idle"
  /\ Fault
  /\ Finished(p)
  /\ UNCHANGED <<publicationVars, life, claim, lapsed, pullVars>>

-----------------------------------------------------------------------------
Time == \/ \E k \in Keys : Closes(k) \/ Expires(k) \/ ClaimLapses(k)
        \/ \E d \in Deliveries : DeadlinePasses(d)

Pull(d) == \/ \E k \in Keys : Prepare(d, k)
           \/ Expose(d) \/ Discard(d) \/ Complete(d) \/ BreakOff(d) \/ Acknowledge(d)

Purge(p) == \/ \E k \in Keys : ClaimPurge(p, k)
            \/ DeleteBytes(p) \/ DeleteFails(p) \/ FinalizeSuccess(p) \/ FinalizeFailure(p)

Next ==
  \/ Publication \/ Time
  \/ \E d \in Deliveries : Pull(d)
  \/ \E p \in Purgers : Purge(p) \/ PurgerCrash(p)

Spec == Init /\ [][Next]_vars

\* The cadence keeps running the cleanup, and leases end.
FairSpec ==
  /\ Spec
  /\ \A p \in Purgers : WF_vars(Purge(p))
  /\ \A k \in Keys : WF_vars(ClaimLapses(k))

-----------------------------------------------------------------------------
\* From the moment an artifact is claimed for its purge, no delivery of it is open:
\* each was acknowledged before or is revoked, also one that was being read.
NoOpenDeliveryOfPurged ==
  \A k \in Keys : row[k] \in {"purge_pending", "purged"} =>
    \A d \in Of(k) : delivery[d].acked \/ delivery[d].revoked

\* An acknowledgement is proof of a transfer: of a delivery that was completed and
\* that no purge has revoked, before or since.
AckIsProof ==
  \A d \in Deliveries : delivery[d].acked => delivery[d].completed /\ ~delivery[d].revoked

\* A purge is recorded once the bytes are gone, and for good: a purger that was
\* overtaken does not bring the row back with what it learned too late.
PurgedForGood ==
  [][\A k \in Keys : row'[k] = "purged" \/ row[k] = "purged" =>
       row'[k] = "purged" /\ k \notin bytes']_vars

\* An artifact past its retention is purged in the end, through crashes, failed
\* deletions and lost claims.
ExpiredIsPurged ==
  \A k \in Keys : (row[k] # "none" /\ life[k] = "expired") ~> row[k] = "purged"
=============================================================================
