------------------------- MODULE MediaDeliveryProofs -------------------------
(***************************************************************************)
(* Theorems about MediaDelivery, for any keys, deliveries, purgers and     *)
(* number of faults.  A purger works without a lock on the row it claimed, *)
(* and may be overtaken.  What makes the properties inductive is what stays*)
(* true of that row nevertheless: it never becomes available again, and    *)
(* bytes once deleted are not written again.                               *)
(***************************************************************************)
EXTENDS MediaDelivery, TLAPS

Retired == {"purge_pending", "purged"}

(* A row exists only once its transaction has been decided, and until then *)
(* the bytes are kept for it.                                              *)
RowsAreDecided ==
  \A k \in Keys :
    /\ phase[k] # "ended" => row[k] = "none"
    /\ phase[k] \in {"open", "limbo"} => k \in bytes

PurgedIsGone == \A k \in Keys : row[k] = "purged" => k \notin bytes

(* What a purger knows of the artifact it works on, its own claim or not.  *)
PurgerKnows(p) ==
  purger[p] # "idle" =>
    /\ work[p] \in Keys
    /\ row[work[p]] \in Retired
    /\ purger[p] = "deleted" => work[p] \notin bytes

PurgersKnow == \A p \in Purgers : PurgerKnows(p)

IInv ==
  /\ TypeOK
  /\ RowsAreDecided
  /\ AvailableHasBytes
  /\ PurgedIsGone
  /\ PurgersKnow
  /\ NoOpenDeliveryOfPurged
  /\ AckIsProof

(* A purge that is recorded is one of bytes that are gone, and stays so.   *)
GoneForGood ==
  \A k \in Keys : row'[k] = "purged" \/ row[k] = "purged" =>
    row'[k] = "purged" /\ k \notin bytes'

-----------------------------------------------------------------------------
(* Lemmas.                                                                 *)

(* Every way in which a delivery row is written.                           *)
LEMMA DeliveryWritten ==
  /\ NoDelivery \in Delivery
  /\ \A k \in Keys : [NoDelivery EXCEPT !.key = k] \in Delivery
  /\ \A r \in Delivery : /\ [r EXCEPT !.completed = TRUE] \in Delivery
                         /\ [r EXCEPT !.acked = TRUE] \in Delivery
                         /\ [r EXCEPT !.revoked = TRUE] \in Delivery
                         /\ [r EXCEPT !.late = TRUE] \in Delivery
  BY DEF Delivery, NoDelivery

LEMMA FaultCounted ==
  ASSUME faults \in 0..MaxFaults, Fault
  PROVE  faults' \in 0..MaxFaults
  BY DeliveryAssumption DEF Fault

LEMMA InitIInv == Init => IInv
  <1> SUFFICES ASSUME Init PROVE IInv
    OBVIOUS
  <1>1. TypeOK
    <2>1. lapsed \in [Keys -> BOOLEAN] /\ delivery \in [Deliveries -> Delivery]
      BY DeliveryWritten DEF Init
    <2>2. faults \in 0..MaxFaults
      BY DeliveryAssumption DEF Init
    <2> QED BY <2>1, <2>2 DEF Init, PublicationInit, TypeOK, PublicationTypeOK, Phase,
                              RowStatus, Life
  <1>2. RowsAreDecided /\ AvailableHasBytes /\ PurgedIsGone /\ PurgersKnow
    BY DEF Init, PublicationInit, RowsAreDecided, AvailableHasBytes, PurgedIsGone,
       PurgersKnow, PurgerKnows
  <1>3. NoOpenDeliveryOfPurged /\ AckIsProof
    BY DEF Init, PublicationInit, NoOpenDeliveryOfPurged, AckIsProof, NoDelivery
  <1> QED BY <1>1, <1>2, <1>3 DEF IInv

(* A step that retires no row and writes no bytes of a retired one keeps   *)
(* what the purgers know.                                                  *)
LEMMA PurgersKeepKnowing ==
  ASSUME TypeOK, PurgersKnow, UNCHANGED <<purger, work>>,
         \A k \in Keys : row[k] \in Retired =>
           row'[k] \in Retired /\ (k \in bytes' => k \in bytes)
  PROVE  PurgersKnow'
  BY DEF PurgersKnow, PurgerKnows

(* The same for a step of one purger, which knows what it should.          *)
LEMMA OthersKeepKnowing ==
  ASSUME TypeOK, PurgersKnow, NEW p \in Purgers, NEW pc, NEW k0,
         purger' = [purger EXCEPT ![p] = pc], work' = [work EXCEPT ![p] = k0],
         \A k \in Keys : row[k] \in Retired =>
           row'[k] \in Retired /\ (k \in bytes' => k \in bytes),
         PurgerKnows(p)'
  PROVE  PurgersKnow'
  <1>1. ASSUME NEW o \in Purgers, o # p PROVE PurgerKnows(o)'
    <2>1. purger'[o] = purger[o] /\ work'[o] = work[o]
      BY <1>1 DEF TypeOK
    <2> QED BY <2>1 DEF PurgersKnow, PurgerKnows
  <1> QED BY <1>1 DEF PurgersKnow

(* A purger that is free again knows nothing.                              *)
LEMMA FinishedKnows ==
  ASSUME TypeOK, NEW p \in Purgers, Finished(p)
  PROVE  /\ PurgerKnows(p)'
         /\ purger' \in [Purgers -> {"idle", "claimed", "deleted", "failed"}]
         /\ work' \in [Purgers -> Keys \union {NoOne}]
  BY DEF TypeOK, Finished, PurgerKnows

(* Deliveries that keep their artifact, their revocation and their         *)
(* acknowledgement stay closed on the artifacts that were retired.         *)
LEMMA DeliveriesStayClosed ==
  ASSUME TypeOK, NoOpenDeliveryOfPurged, AckIsProof,
         \A k \in Keys : row'[k] \in Retired => row[k] \in Retired,
         \A d \in Deliveries :
           /\ delivery'[d].key = delivery[d].key
           /\ delivery'[d].acked = delivery[d].acked
           /\ delivery'[d].revoked = delivery[d].revoked
           /\ delivery[d].completed => delivery'[d].completed
  PROVE  NoOpenDeliveryOfPurged' /\ AckIsProof'
  BY DEF NoOpenDeliveryOfPurged, AckIsProof, Of, Retired

-----------------------------------------------------------------------------
(* One lemma per group of actions.                                         *)

LEMMA PublicationIInv ==
  ASSUME IInv, Publication
  PROVE  IInv' /\ GoneForGood
  <1>1. PICK k \in Keys : \/ Put(k) \/ Commit(k) \/ CommitUnanswered(k)
                          \/ LimboCommitted(k) \/ LimboAborted(k)
                          \/ RollBack(k) \/ LoseTrack(k)
    BY DEF Publication, Decided
  <1>2. UNCHANGED <<life, claim, lapsed, purger, work, delivery, reader, faults>>
    BY DEF Publication, purgeVars, pullVars
  <1>3. PublicationTypeOK'
    BY <1>1 DEF IInv, TypeOK, PublicationTypeOK, Phase, RowStatus,
       Put, Commit, CommitUnanswered, LimboCommitted, LimboAborted, RollBack, LoseTrack
  <1>4. row[k] = "none" /\ \A j \in Keys \ {k} :
          row'[j] = row[j] /\ phase'[j] = phase[j] /\ (j \in bytes' <=> j \in bytes)
    BY <1>1 DEF IInv, TypeOK, PublicationTypeOK, RowsAreDecided,
       Put, Commit, CommitUnanswered, LimboCommitted, LimboAborted, RollBack, LoseTrack
  <1>5. /\ row'[k] \in {"none", "available"}
        /\ row'[k] = "available" => k \in bytes'
        /\ phase'[k] # "ended" => row'[k] = "none"
        /\ phase'[k] \in {"open", "limbo"} => k \in bytes'
    BY <1>1, <1>4 DEF IInv, TypeOK, PublicationTypeOK, RowsAreDecided,
       Put, Commit, CommitUnanswered, LimboCommitted, LimboAborted, RollBack, LoseTrack
  <1>6. TypeOK'
    BY <1>2, <1>3 DEF IInv, TypeOK
  <1>7. RowsAreDecided' /\ AvailableHasBytes' /\ PurgedIsGone' /\ GoneForGood
    BY <1>4, <1>5 DEF IInv, RowsAreDecided, AvailableHasBytes, PurgedIsGone, GoneForGood
  <1>8. PurgersKnow'
    BY <1>2, <1>4, PurgersKeepKnowing DEF IInv, Retired
  <1>9. NoOpenDeliveryOfPurged' /\ AckIsProof'
    BY <1>2, <1>4, <1>5, DeliveriesStayClosed DEF IInv, Retired
  <1> QED BY <1>6, <1>7, <1>8, <1>9 DEF IInv

(* Steps that leave rows and bytes alone and purgers at their work.        *)
LEMMA RowsUntouched ==
  ASSUME IInv, UNCHANGED <<publicationVars, purger, work>>
  PROVE  /\ RowsAreDecided' /\ AvailableHasBytes' /\ PurgedIsGone'
         /\ PurgersKnow' /\ GoneForGood
  <1>1. UNCHANGED <<phase, bytes, row>>
    BY DEF publicationVars
  <1>2. RowsAreDecided' /\ AvailableHasBytes' /\ PurgedIsGone' /\ GoneForGood
    BY <1>1 DEF IInv, RowsAreDecided, AvailableHasBytes, PurgedIsGone, GoneForGood
  <1> QED BY <1>1, <1>2, PurgersKeepKnowing DEF IInv

LEMMA TimeIInv ==
  ASSUME IInv, Time
  PROVE  IInv' /\ GoneForGood
  <1>1. UNCHANGED <<publicationVars, purger, work>>
    BY DEF Time, Closes, Expires, ClaimLapses, DeadlinePasses, purgeVars
  <1>2. TypeOK'
    <2>1. CASE \E k \in Keys : Closes(k)
      BY <2>1 DEF IInv, TypeOK, PublicationTypeOK, Closes, publicationVars, purgeVars,
         pullVars, Life
    <2>2. CASE \E k \in Keys : Expires(k)
      <3>1. delivery' \in [Deliveries -> Delivery]
        <4>1. \A e \in Deliveries : delivery'[e] \in Delivery
          BY <2>2, DeliveryWritten DEF IInv, TypeOK, Expires
        <4> QED BY <2>2, <4>1 DEF Expires
      <3> QED BY <2>2, <3>1 DEF IInv, TypeOK, PublicationTypeOK, Expires,
                                publicationVars, purgeVars, Life
    <2>3. CASE \E k \in Keys : ClaimLapses(k)
      <3>1. faults' \in 0..MaxFaults
        BY <2>3, FaultCounted DEF IInv, TypeOK, ClaimLapses
      <3>2. lapsed' \in [Keys -> BOOLEAN]
        BY <2>3 DEF IInv, TypeOK, ClaimLapses
      <3> QED BY <2>3, <3>1, <3>2 DEF IInv, TypeOK, PublicationTypeOK, ClaimLapses,
                                       publicationVars, pullVars
    <2>4. CASE \E d \in Deliveries : DeadlinePasses(d)
      <3>1. delivery' \in [Deliveries -> Delivery]
        <4>1. PICK d \in Deliveries :
                delivery' = [delivery EXCEPT ![d] = [delivery[d] EXCEPT !.late = TRUE]]
          BY <2>4 DEF DeadlinePasses
        <4>2. [delivery[d] EXCEPT !.late = TRUE] \in Delivery
          BY DeliveryWritten DEF IInv, TypeOK
        <4> QED BY <4>1, <4>2 DEF IInv, TypeOK
      <3> QED BY <2>4, <3>1 DEF IInv, TypeOK, PublicationTypeOK, DeadlinePasses,
                                publicationVars, purgeVars
    <2> QED BY <2>1, <2>2, <2>3, <2>4 DEF Time
  <1>3. \A d \in Deliveries :
          /\ delivery'[d].key = delivery[d].key
          /\ delivery'[d].acked = delivery[d].acked
          /\ delivery'[d].revoked = delivery[d].revoked
          /\ delivery[d].completed => delivery'[d].completed
    BY DEF IInv, TypeOK, Delivery, Time, Closes, Expires, ClaimLapses, DeadlinePasses,
       pullVars
  <1>4. UNCHANGED row
    BY <1>1 DEF publicationVars
  <1>5. NoOpenDeliveryOfPurged' /\ AckIsProof'
    BY <1>3, <1>4, DeliveriesStayClosed DEF IInv
  <1> QED BY <1>1, <1>2, <1>5, RowsUntouched DEF IInv

LEMMA PullIInv ==
  ASSUME IInv, NEW d \in Deliveries, Pull(d)
  PROVE  IInv' /\ GoneForGood
  <1>1. UNCHANGED <<phase, bytes, row, life, claim, lapsed, purger, work, faults>>
    BY DEF Pull, Prepare, Expose, Discard, Complete, BreakOff, Acknowledge,
       publicationVars, purgeVars
  <1>2. \A e \in Deliveries \ {d} : delivery'[e] = delivery[e]
    BY DEF IInv, TypeOK, Pull, Prepare, Expose, Discard, Complete, BreakOff, Acknowledge
  <1>3. delivery[d] \in Delivery
    BY DEF IInv, TypeOK
  <1>4. /\ delivery' \in [Deliveries -> Delivery]
        /\ reader' \in [Deliveries -> {"idle", "prepared", "streaming", "ended"}]
    BY <1>3, DeliveryWritten DEF IInv, TypeOK, Pull, Prepare, Expose, Discard, Complete,
       BreakOff, Acknowledge
  <1>5. TypeOK'
    BY <1>1, <1>4 DEF IInv, TypeOK, PublicationTypeOK
  <1>6. \/ delivery'[d].key = NoOne
        \/ delivery'[d].key \in Keys /\ row[delivery'[d].key] = "available"
        \/ /\ delivery'[d].key = delivery[d].key
           /\ delivery'[d].acked = delivery[d].acked
           /\ delivery'[d].revoked = delivery[d].revoked
    <2>1. CASE \E k \in Keys : Prepare(d, k)
      BY <2>1 DEF IInv, TypeOK, Prepare, NoDelivery
    <2>2. CASE Discard(d)
      BY <2>2 DEF IInv, TypeOK, Discard, NoDelivery
    <2>3. CASE Expose(d) \/ Complete(d) \/ BreakOff(d)
      BY <1>3, <2>3 DEF IInv, TypeOK, Delivery, Expose, Complete, BreakOff
    <2>4. CASE Acknowledge(d)
      BY <1>3, <2>4 DEF IInv, TypeOK, Delivery, Acknowledge, Acknowledgeable
    <2> QED BY <2>1, <2>2, <2>3, <2>4 DEF Pull
  <1>7. NoOpenDeliveryOfPurged'
    <2> SUFFICES ASSUME NEW k \in Keys, row[k] \in {"purge_pending", "purged"},
                        NEW e \in Deliveries, delivery'[e].key = k
                 PROVE  delivery'[e].acked \/ delivery'[e].revoked
      BY <1>1 DEF NoOpenDeliveryOfPurged, Of
    <2>1. CASE e # d
      BY <1>2, <2>1 DEF IInv, NoOpenDeliveryOfPurged, Of
    <2>2. CASE e = d
      BY <1>6, <2>2, DeliveryAssumption DEF IInv, NoOpenDeliveryOfPurged, Of
    <2> QED BY <2>1, <2>2
  <1>8. delivery'[d].acked => delivery'[d].completed /\ ~delivery'[d].revoked
    BY <1>3 DEF IInv, TypeOK, AckIsProof, Delivery, NoDelivery, Pull, Prepare, Expose,
       Discard, Complete, BreakOff, Acknowledge, Acknowledgeable
  <1>9. AckIsProof'
    BY <1>2, <1>8 DEF IInv, AckIsProof
  <1> QED BY <1>1, <1>5, <1>7, <1>9, RowsUntouched DEF IInv, publicationVars

-----------------------------------------------------------------------------
(* Purging, action by action.                                              *)

LEMMA ClaimPurgeIInv ==
  ASSUME IInv, NEW p \in Purgers, NEW k \in Keys, ClaimPurge(p, k)
  PROVE  IInv' /\ GoneForGood
  <1>1. /\ row[k] \in {"available", "purge_pending"}
        /\ row' = [row EXCEPT ![k] = "purge_pending"]
        /\ UNCHANGED <<phase, bytes, life, reader, faults>>
    BY DEF ClaimPurge, Purgeable
  <1>2. TypeOK'
    <2>1. delivery' \in [Deliveries -> Delivery]
      BY DeliveryWritten DEF ClaimPurge, IInv, TypeOK
    <2>2. lapsed' \in [Keys -> BOOLEAN]
      BY DEF ClaimPurge, IInv, TypeOK
    <2> QED BY <1>1, <2>1, <2>2
            DEF ClaimPurge, IInv, TypeOK, PublicationTypeOK, RowStatus
  <1>3. RowsAreDecided' /\ AvailableHasBytes' /\ PurgedIsGone' /\ GoneForGood
    BY <1>1 DEF IInv, TypeOK, PublicationTypeOK, RowsAreDecided, AvailableHasBytes,
       PurgedIsGone, GoneForGood
  <1>4. \A j \in Keys : row[j] \in Retired => row'[j] \in Retired
    BY <1>1 DEF IInv, TypeOK, PublicationTypeOK, Retired
  <1>5. PurgerKnows(p)'
    BY <1>1 DEF ClaimPurge, IInv, TypeOK, PublicationTypeOK, PurgerKnows, Retired
  <1>6. PurgersKnow'
    <2>1. /\ purger' = [purger EXCEPT ![p] = "claimed"]
          /\ work' = [work EXCEPT ![p] = k]
      BY DEF ClaimPurge
    <2> QED BY <1>1, <1>4, <1>5, <2>1, OthersKeepKnowing DEF IInv
  <1>7. \A d \in Deliveries :
          /\ delivery'[d].key = delivery[d].key
          /\ delivery'[d].acked = delivery[d].acked
          /\ delivery'[d].completed = delivery[d].completed
          /\ delivery[d].revoked => delivery'[d].revoked
          /\ delivery[d].key = k => delivery[d].acked \/ delivery'[d].revoked
          /\ delivery[d].acked => delivery'[d].revoked = delivery[d].revoked
    BY DEF ClaimPurge, Revocable, Of, IInv, TypeOK, Delivery
  <1>8. NoOpenDeliveryOfPurged' /\ AckIsProof'
    BY <1>1, <1>7 DEF IInv, TypeOK, PublicationTypeOK, NoOpenDeliveryOfPurged, AckIsProof, Of
  <1> QED BY <1>2, <1>3, <1>6, <1>8 DEF IInv

(* The steps of a purger on the artifact it has claimed.                   *)
LEMMA PurgerStepIInv ==
  ASSUME IInv, NEW p \in Purgers,
         \/ DeleteBytes(p) \/ DeleteFails(p) \/ FinalizeSuccess(p) \/ FinalizeFailure(p)
         \/ PurgerCrash(p)
  PROVE  IInv' /\ GoneForGood
  <1>1. purger[p] # "idle" /\ work[p] \in Keys /\ row[work[p]] \in Retired
        /\ (purger[p] = "deleted" => work[p] \notin bytes)
    BY DEF IInv, PurgersKnow, PurgerKnows, DeleteBytes, DeleteFails, FinalizeSuccess,
       FinalizeFailure, PurgerCrash
  <1>2. UNCHANGED <<phase, life, delivery, reader>>
    BY DEF DeleteBytes, DeleteFails, FinalizeSuccess, FinalizeFailure, PurgerCrash,
       publicationVars, pullVars
  <1>3. /\ bytes' \in {bytes, bytes \ {work[p]}}
        /\ \/ row' = row
           \/ /\ purger[p] = "deleted" /\ bytes' = bytes
              /\ row' = [row EXCEPT ![work[p]] = "purged"]
    BY DEF DeleteBytes, DeleteFails, FinalizeSuccess, FinalizeFailure, PurgerCrash,
       publicationVars, pullVars
  <1>4. /\ \A j \in Keys : row'[j] # row[j] =>
             row[j] \in Retired /\ row'[j] = "purged" /\ j \notin bytes'
        /\ \A j \in Keys : row[j] \in Retired => row'[j] \in Retired
        /\ \A j \in Keys : row[j] \notin Retired => (j \in bytes' <=> j \in bytes)
        /\ bytes' \subseteq bytes
    BY <1>1, <1>3 DEF IInv, TypeOK, PublicationTypeOK, Retired
  <1>5. RowsAreDecided' /\ AvailableHasBytes' /\ PurgedIsGone' /\ GoneForGood
    BY <1>2, <1>4 DEF IInv, TypeOK, PublicationTypeOK, RowsAreDecided, AvailableHasBytes,
       PurgedIsGone, GoneForGood, Retired
  <1>6. NoOpenDeliveryOfPurged' /\ AckIsProof'
    BY <1>2, <1>4, DeliveriesStayClosed DEF IInv, Retired
  <1>7. row' \in [Keys -> RowStatus] /\ bytes' \in SUBSET Keys
    BY <1>3 DEF IInv, TypeOK, PublicationTypeOK, RowStatus
  <1>8. /\ claim' \in [Keys -> Purgers \union {NoOne}]
        /\ lapsed' \in [Keys -> BOOLEAN]
        /\ faults' \in 0..MaxFaults
    <2>1. \/ UNCHANGED <<claim, lapsed>>
          \/ GiveBack(work[p])
      BY DEF DeleteBytes, DeleteFails, FinalizeSuccess, FinalizeFailure, PurgerCrash
    <2>2. faults' = faults \/ Fault
      BY DEF DeleteBytes, DeleteFails, FinalizeSuccess, FinalizeFailure, PurgerCrash
    <2>3. claim' \in [Keys -> Purgers \union {NoOne}]
      BY <1>1, <2>1 DEF IInv, TypeOK, GiveBack
    <2>4. lapsed' \in [Keys -> BOOLEAN]
      BY <1>1, <2>1 DEF IInv, TypeOK, GiveBack
    <2> QED BY <2>2, <2>3, <2>4, FaultCounted DEF IInv, TypeOK
  <1>9. /\ purger' \in [Purgers -> {"idle", "claimed", "deleted", "failed"}]
        /\ work' \in [Purgers -> Keys \union {NoOne}]
        /\ PurgersKnow'
    <2>1. CASE DeleteBytes(p) \/ DeleteFails(p)
      <3>1. PICK pc \in {"deleted", "failed"} :
              /\ purger' = [purger EXCEPT ![p] = pc]
              /\ work' = work
              /\ pc = "deleted" => work[p] \notin bytes'
        BY <2>1 DEF DeleteBytes, DeleteFails
      <3>2. work' = [work EXCEPT ![p] = work[p]]
        BY <3>1 DEF IInv, TypeOK
      <3>3. PurgerKnows(p)'
        BY <1>1, <1>4, <3>1 DEF IInv, TypeOK, PurgerKnows
      <3> QED BY <1>4, <3>1, <3>2, <3>3, OthersKeepKnowing DEF IInv, TypeOK
    <2>2. CASE Finished(p)
      <3>1. /\ purger' = [purger EXCEPT ![p] = "idle"]
            /\ work' = [work EXCEPT ![p] = NoOne]
        BY <2>2 DEF Finished
      <3> QED BY <1>4, <2>2, <3>1, FinishedKnows, OthersKeepKnowing DEF IInv
    <2> QED BY <2>1, <2>2 DEF FinalizeSuccess, FinalizeFailure, PurgerCrash
  <1>10. TypeOK'
    BY <1>2, <1>7, <1>8, <1>9 DEF IInv, TypeOK, PublicationTypeOK
  <1> QED BY <1>5, <1>6, <1>9, <1>10 DEF IInv

(* Every step keeps the invariant, and what was purged stays purged.       *)
LEMMA NextIInv == IInv /\ [Next]_vars => IInv' /\ GoneForGood
  <1> SUFFICES ASSUME IInv, [Next]_vars PROVE IInv' /\ GoneForGood
    OBVIOUS
  <1>1. CASE Next
    BY <1>1, PublicationIInv, TimeIInv, PullIInv, ClaimPurgeIInv, PurgerStepIInv
    DEF Next, Purge
  <1>2. CASE UNCHANGED vars
    <2>1. UNCHANGED <<phase, bytes, row, life, claim, lapsed, purger, work, delivery,
                      reader, faults>>
      BY <1>2 DEF vars, publicationVars, purgeVars, pullVars
    <2>2. TypeOK'
      BY <2>1 DEF IInv, TypeOK, PublicationTypeOK
    <2>3. NoOpenDeliveryOfPurged' /\ AckIsProof'
      BY <2>1, DeliveriesStayClosed DEF IInv
    <2> QED BY <2>1, <2>2, <2>3, RowsUntouched DEF IInv, publicationVars
  <1> QED BY <1>1, <1>2

-----------------------------------------------------------------------------
(* IInv is an invariant of deliveries and purges.                          *)
THEOREM Invariance == Spec => []IInv
  <1>1. IInv /\ [Next]_vars => IInv'
    BY NextIInv
  <1> QED BY <1>1, InitIInv, PTL DEF Spec

(* Rows, claims, deliveries and purgers keep their types.                  *)
THEOREM DeliveryTypes == Spec => []TypeOK
  <1>1. IInv => TypeOK
    BY DEF IInv
  <1> QED BY <1>1, Invariance, PTL

(* An available artifact has its bytes, however its commit was answered.   *)
THEOREM AvailableCanBeRead == Spec => []AvailableHasBytes
  <1>1. IInv => AvailableHasBytes
    BY DEF IInv
  <1> QED BY <1>1, Invariance, PTL

(* A claim of a purge leaves no delivery of the artifact open.             *)
THEOREM PurgeClosesDeliveries == Spec => []NoOpenDeliveryOfPurged
  <1>1. IInv => NoOpenDeliveryOfPurged
    BY DEF IInv
  <1> QED BY <1>1, Invariance, PTL

(* Acknowledgement and revocation exclude each other, for ever.            *)
THEOREM AcknowledgedWasDelivered == Spec => []AckIsProof
  <1>1. IInv => AckIsProof
    BY DEF IInv
  <1> QED BY <1>1, Invariance, PTL

(* A purge is recorded once the bytes are gone, and for good.              *)
THEOREM PurgeIsFinal == Spec => PurgedForGood
  <1>1. IInv /\ [Next]_vars =>
          [\A k \in Keys : row'[k] = "purged" \/ row[k] = "purged" =>
             row'[k] = "purged" /\ k \notin bytes']_vars
    BY NextIInv DEF GoneForGood
  <1> QED BY <1>1, Invariance, PTL DEF Spec, PurgedForGood
=============================================================================
