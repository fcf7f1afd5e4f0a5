--------------------- MODULE OrphanReconciliationProofs ---------------------
(***************************************************************************)
(* Theorems about OrphanReconciliation, for any keys, reconcilers and      *)
(* number of faults.  Why no reconciler ever deletes the bytes of an       *)
(* artifact: a candidate is an object older than the safety window, so its *)
(* publication is running or decided; the exclusive lock excludes that it  *)
(* runs; and a decided publication without a row never gets one.           *)
(***************************************************************************)
EXTENDS OrphanReconciliation, TLAPS

(* A row exists only once its transaction has been decided, and until then *)
(* the bytes are kept for it.                                              *)
RowsAreDecided ==
  \A k \in Keys :
    /\ phase[k] # "ended" => row[k] = "none"
    /\ phase[k] \in {"open", "limbo"} => k \in bytes

(* An object older than the window does not wait for an unanswered commit. *)
OldIsSettled == \A k \in Keys : age[k] # "young" => phase[k] \in {"open", "ended"}

Watched == {"observed", "eligible", "claimed", "retry_wait"}

CandidatesAreOld == \A k \in Keys : cand[k].state \in Watched => age[k] # "young"

(* What a reconciler knows while it holds the exclusive lock.              *)
HolderKnows(c) ==
  step[c] \in Fenced =>
    /\ target[c] \in Keys
    /\ phase[target[c]] = "ended"
    /\ step[c] = "checked" => row[target[c]] = "none"

HoldersKnow == \A c \in Reconcilers : HolderKnows(c)

IInv ==
  /\ TypeOK
  /\ RowsAreDecided
  /\ AvailableHasBytes
  /\ OldIsSettled
  /\ CandidatesAreOld
  /\ HoldersKnow

-----------------------------------------------------------------------------
(* Lemmas about candidates: their type, and whether they are watched.      *)

LEMMA NoCandidateType == NoCandidate \in Candidate /\ NoCandidate.state \notin Watched
  BY DEF NoCandidate, Candidate, CandidateState, First, Last, Watched

LEMMA AbandonedType ==
  ASSUME NEW d \in Candidate
  PROVE  Abandoned(d) \in Candidate /\ Abandoned(d).state = d.state
  BY DEF Abandoned, Candidate, First, Last

LEMMA StartedType ==
  ASSUME NEW d \in Candidate
  PROVE  Started(d) \in Candidate /\ Started(d).state = d.state
  BY DEF Started, Candidate, First

LEMMA CompletedType ==
  ASSUME NEW d \in Candidate
  PROVE  Completed(d) \in Candidate /\ (Completed(d).state \in Watched => d.state \in Watched)
  BY DEF Completed, Proven, Candidate, CandidateState, First, Last, Watched

LEMMA InvalidatedType ==
  ASSUME NEW d \in Candidate
  PROVE  Invalidated(d) \in Candidate /\ Invalidated(d).state \notin Watched
  BY DEF Invalidated, Candidate, CandidateState, Watched

(* A claim, its renewal and its outcome.                                   *)
LEMMA ClaimType ==
  ASSUME NEW d \in Candidate, NEW s \in CandidateState,
         NEW o \in Reconcilers \union {NoOne}, NEW b \in BOOLEAN
  PROVE  /\ [d EXCEPT !.state = s, !.owner = o, !.lapsed = b] \in Candidate
         /\ [d EXCEPT !.lapsed = b] \in Candidate
         /\ [d EXCEPT !.lapsed = b].state = d.state
         /\ [d EXCEPT !.state = s, !.owner = o, !.lapsed = b].state = s
  BY DEF Candidate, First

(* Whatever a scan makes of a listed object, it watches only old ones.     *)
LEMMA ObservedType ==
  ASSUME TypeOK, CandidatesAreOld, NEW k \in Keys
  PROVE  /\ Observed(k) \in Candidate
         /\ Observed(k).state \in Watched => age[k] # "young"
  <1> DEFINE d == cand[k]
             watched == Continuous(d) /\ d.state = "observed"
             anew == [state |-> "observed",
                      first |-> IF watched THEN d.first ELSE "active",
                      last |-> "active", owner |-> NoOne, lapsed |-> FALSE]
             carried == [d EXCEPT !.last = "active"]
  <1>1. d \in Candidate
    BY DEF TypeOK
  <1>2. anew \in Candidate /\ carried \in Candidate /\ carried.state = d.state
    BY <1>1 DEF Candidate, CandidateState, First, Last
  <1>3. /\ Observed(k) \in {d, Invalidated(d), carried, anew}
        /\ Observed(k) = anew => age[k] = "ripe" \/ anew \in {d, Invalidated(d), carried}
    BY DEF Observed
  <1>4. d.state \in Watched => age[k] # "young"
    BY DEF CandidatesAreOld
  <1> HIDE DEF anew, carried, d
  <1> QED BY <1>1, <1>2, <1>3, <1>4, InvalidatedType

-----------------------------------------------------------------------------
(* Lemmas about the parts of the invariant.                                *)

LEMMA FaultCounted ==
  ASSUME faults \in 0..MaxFaults, Fault \/ UNCHANGED faults
  PROVE  faults' \in 0..MaxFaults
  BY ConstantsAssumption DEF Fault

(* A step of one reconciler leaves what the others know.                   *)
LEMMA OthersKeepKnowing ==
  ASSUME TypeOK, HoldersKnow, UNCHANGED <<phase, row>>,
         NEW c \in Reconcilers, HolderKnows(c)',
         \A o \in Reconcilers \ {c} : step'[o] = step[o] /\ target'[o] = target[o]
  PROVE  HoldersKnow'
  BY DEF HoldersKnow, HolderKnows

(* A step that changes one candidate, which is watched only if old.        *)
LEMMA OneCandidate ==
  ASSUME TypeOK, CandidatesAreOld, UNCHANGED age, NEW k \in Keys, NEW new \in Candidate,
         cand' = [cand EXCEPT ![k] = new],
         new.state \in Watched => age[k] # "young"
  PROVE  cand' \in [Keys -> Candidate] /\ CandidatesAreOld'
  BY DEF TypeOK, CandidatesAreOld

(* A step that replaces all candidates and watches no new one.             *)
LEMMA AllCandidates ==
  ASSUME TypeOK, CandidatesAreOld,
         \A k \in Keys : age[k] # "young" => age'[k] # "young",
         cand' = [k \in Keys |-> cand'[k]],
         \A k \in Keys : cand'[k] \in Candidate /\
                         (cand'[k].state \in Watched => cand[k].state \in Watched)
  PROVE  cand' \in [Keys -> Candidate] /\ CandidatesAreOld'
  BY DEF TypeOK, CandidatesAreOld

(* Without news from the publications and their clock, three parts stay.   *)
LEMMA RowsUntouched ==
  ASSUME RowsAreDecided, AvailableHasBytes, OldIsSettled, UNCHANGED <<phase, bytes, row, age>>
  PROVE  RowsAreDecided' /\ AvailableHasBytes' /\ OldIsSettled'
  BY DEF RowsAreDecided, AvailableHasBytes, OldIsSettled

LEMMA InitIInv == Init => IInv
  <1> SUFFICES ASSUME Init PROVE IInv
    OBVIOUS
  <1>1. cand \in [Keys -> Candidate] /\ CandidatesAreOld
    BY NoCandidateType DEF Init, CandidatesAreOld
  <1>2. faults \in 0..MaxFaults
    BY ConstantsAssumption DEF Init
  <1>3. TypeOK
    BY <1>1, <1>2 DEF Init, PublicationInit, TypeOK, PublicationTypeOK, Phase, RowStatus,
       Age, Step
  <1>4. RowsAreDecided /\ AvailableHasBytes /\ OldIsSettled /\ HoldersKnow
    BY DEF Init, PublicationInit, RowsAreDecided, AvailableHasBytes, OldIsSettled,
       HoldersKnow, HolderKnows, Fenced
  <1> QED BY <1>1, <1>3, <1>4 DEF IInv

-----------------------------------------------------------------------------
(* Publications and time.                                                  *)

LEMMA PublicationIInv ==
  ASSUME IInv, Publication
  PROVE  IInv'
  <1>1. PICK k \in Keys : BeginTransaction(k) \/ EndTransaction(k)
    BY DEF Publication
  <1>2. UNCHANGED <<age, active, passLapsed, scanned, cand, step, batch, target, faults>>
    BY <1>1 DEF BeginTransaction, EndTransaction, passVars, workVars
  <1>3. \/ Put(k) \/ Commit(k) \/ LoseAnswer(k) \/ LimboCommitted(k) \/ LimboAborted(k)
        \/ RollBack(k) \/ LoseTrack(k)
    BY <1>1 DEF BeginTransaction, EndTransaction, Publish, Decided
  <1>4. PublicationTypeOK'
    BY <1>3 DEF IInv, TypeOK, PublicationTypeOK, Phase, RowStatus, Put, Commit, LoseAnswer,
       CommitUnanswered, LimboCommitted, LimboAborted, RollBack, LoseTrack
  <1>5. phase[k] # "ended" /\ \A j \in Keys \ {k} :
          row'[j] = row[j] /\ phase'[j] = phase[j] /\ (j \in bytes' <=> j \in bytes)
    BY <1>3 DEF IInv, TypeOK, PublicationTypeOK, Put, Commit, LoseAnswer,
       CommitUnanswered, LimboCommitted, LimboAborted, RollBack, LoseTrack
  <1>6. /\ row'[k] = "available" => k \in bytes'
        /\ phase'[k] # "ended" => row'[k] = "none"
        /\ phase'[k] \in {"open", "limbo"} => k \in bytes'
        /\ age[k] # "young" => phase'[k] \in {"open", "ended"}
    BY <1>3 DEF IInv, TypeOK, PublicationTypeOK, RowsAreDecided, OldIsSettled, Put, Commit,
       LoseAnswer, CommitUnanswered, LimboCommitted, LimboAborted, RollBack, LoseTrack
  <1>7. TypeOK' /\ CandidatesAreOld'
    BY <1>2, <1>4 DEF IInv, TypeOK, CandidatesAreOld
  <1>8. RowsAreDecided' /\ AvailableHasBytes' /\ OldIsSettled'
    BY <1>2, <1>5, <1>6 DEF IInv, RowsAreDecided, AvailableHasBytes, OldIsSettled
  <1>9. HoldersKnow'
    BY <1>2, <1>5 DEF IInv, HoldersKnow, HolderKnows
  <1> QED BY <1>7, <1>8, <1>9 DEF IInv

LEMMA TimeIInv ==
  ASSUME IInv, Time
  PROVE  IInv'
  <1>1. UNCHANGED <<phase, bytes, row, active, scanned, step, batch, target>>
    BY DEF Time, PassLapses, ObjectAges, EvidenceAges, ClaimLapses, publicationVars,
       passVars, workVars
  <1>2. HoldersKnow' /\ RowsAreDecided' /\ AvailableHasBytes'
    BY <1>1 DEF IInv, HoldersKnow, HolderKnows, RowsAreDecided, AvailableHasBytes
  <1>3. faults' \in 0..MaxFaults
    BY FaultCounted DEF IInv, TypeOK, Time, PassLapses, ObjectAges, EvidenceAges, ClaimLapses
  <1>4. passLapsed' \in BOOLEAN
    BY DEF IInv, TypeOK, Time, PassLapses, ObjectAges, EvidenceAges, ClaimLapses, passVars
  <1>5. age' \in [Keys -> Age] /\ OldIsSettled'
        /\ cand' \in [Keys -> Candidate] /\ CandidatesAreOld'
    <2>1. CASE PassLapses
      BY <1>1, <2>1 DEF IInv, TypeOK, PassLapses, OldIsSettled, CandidatesAreOld
    <2>2. CASE \E k \in Keys : ObjectAges(k)
      BY <1>1, <2>2 DEF IInv, TypeOK, ObjectAges, Age, OldIsSettled, CandidatesAreOld
    <2>3. CASE \E k \in Keys : EvidenceAges(k) \/ ClaimLapses(k)
      <3>1. PICK k \in Keys : EvidenceAges(k) \/ ClaimLapses(k)
        BY <2>3
      <3>2. UNCHANGED age
        BY <3>1 DEF EvidenceAges, ClaimLapses
      <3>3. cand[k] \in Candidate
        BY DEF IInv, TypeOK
      <3>4. PICK new \in {[cand[k] EXCEPT !.first = "aged"], [cand[k] EXCEPT !.lapsed = TRUE]} :
              cand' = [cand EXCEPT ![k] = new]
        BY <3>1 DEF EvidenceAges, ClaimLapses
      <3>5. new \in Candidate /\ new.state = cand[k].state
        BY <3>3, <3>4 DEF Candidate, First
      <3>6. cand' \in [Keys -> Candidate] /\ CandidatesAreOld'
        BY <3>2, <3>4, <3>5, OneCandidate DEF IInv, CandidatesAreOld
      <3> QED BY <1>1, <3>2, <3>6 DEF IInv, TypeOK, OldIsSettled
    <2> QED BY <2>1, <2>2, <2>3 DEF Time
  <1> QED BY <1>1, <1>2, <1>3, <1>4, <1>5 DEF IInv, TypeOK, PublicationTypeOK

-----------------------------------------------------------------------------
(* Passes.                                                                 *)

LEMMA PassIInv ==
  ASSUME IInv, NEW c \in Reconcilers, StartPass(c) \/ CompletePass(c) \/ StopPass(c)
  PROVE  IInv'
  <1>1. UNCHANGED <<phase, bytes, row, batch, target>>
    BY DEF StartPass, CompletePass, StopPass, publicationVars
  <1>2. \A k \in Keys : cand[k] \in Candidate
    BY DEF IInv, TypeOK
  <1>3. /\ age' \in [Keys -> Age]
        /\ \A k \in Keys : age'[k] # "young" <=> age[k] # "young"
    BY DEF IInv, TypeOK, Age, StartPass, CompletePass, StopPass
  <1>4. PICK s \in {"idle", "scanning", "cleaning"} : step' = [step EXCEPT ![c] = s]
    BY DEF StartPass, CompletePass, StopPass
  <1>5. step' \in [Reconcilers -> Step] /\ HolderKnows(c)'
    BY <1>4 DEF IInv, TypeOK, Step, Fenced, HolderKnows
  <1>6. HoldersKnow'
    BY <1>1, <1>4, <1>5, OthersKeepKnowing DEF IInv, TypeOK
  <1>7. /\ active' \in Reconcilers \union {NoOne}
        /\ passLapsed' \in BOOLEAN
        /\ scanned' \in SUBSET Keys
    BY DEF IInv, TypeOK, StartPass, CompletePass, StopPass, EndPass, passVars
  <1>8. faults' \in 0..MaxFaults
    BY FaultCounted DEF IInv, TypeOK, StartPass, CompletePass, StopPass
  <1>9. cand' \in [Keys -> Candidate] /\ CandidatesAreOld'
    <2>1. \/ UNCHANGED cand
          \/ cand' = [k \in Keys |-> Started(cand[k])]
          \/ cand' = [k \in Keys |-> Started(Abandoned(cand[k]))]
          \/ cand' = [k \in Keys |-> Completed(cand[k])]
          \/ cand' = [k \in Keys |-> Abandoned(cand[k])]
      <3>1. CASE StartPass(c)
        <4>1. CASE active = NoOne
          BY <3>1, <4>1 DEF StartPass
        <4>2. CASE active # NoOne
          BY <3>1, <4>2 DEF StartPass
        <4> QED BY <4>1, <4>2
      <3>2. CASE CompletePass(c)
        BY <3>2 DEF CompletePass
      <3>3. CASE StopPass(c)
        BY <3>3 DEF StopPass
      <3> QED BY <3>1, <3>2, <3>3
    <2>2. CASE UNCHANGED cand
      BY <1>3, <2>2 DEF IInv, TypeOK, CandidatesAreOld
    <2>3. CASE ~UNCHANGED cand
      <3>1. cand' = [k \in Keys |-> cand'[k]]
        BY <2>1, <2>3
      <3>2. \A k \in Keys : cand'[k] \in Candidate /\
                            (cand'[k].state \in Watched => cand[k].state \in Watched)
        BY <1>2, <2>1, <2>3, StartedType, AbandonedType, CompletedType
      <3> QED BY <1>3, <3>1, <3>2, AllCandidates DEF IInv
    <2> QED BY <2>2, <2>3
  <1>10. RowsAreDecided' /\ AvailableHasBytes' /\ OldIsSettled'
    BY <1>1, <1>3 DEF IInv, RowsAreDecided, AvailableHasBytes, OldIsSettled
  <1> QED BY <1>1, <1>3, <1>5, <1>6, <1>7, <1>8, <1>9, <1>10
          DEF IInv, TypeOK, PublicationTypeOK

LEMMA ScanIInv ==
  ASSUME IInv, NEW c \in Reconcilers, NEW k \in Keys, Scan(c, k)
  PROVE  IInv'
  <1>1. /\ UNCHANGED <<phase, bytes, row, age, active, passLapsed, step, batch, target, faults>>
        /\ scanned' = scanned \union {k}
    BY DEF Scan, publicationVars, workVars
  <1>2. cand' \in [Keys -> Candidate] /\ CandidatesAreOld'
    <2>1. CASE k \in bytes
      <3>1. cand' = [cand EXCEPT ![k] = Observed(k)]
        BY <2>1 DEF Scan
      <3> QED BY <1>1, <3>1, ObservedType, OneCandidate DEF IInv
    <2>2. CASE k \notin bytes
      BY <1>1, <2>2 DEF Scan, IInv, TypeOK, CandidatesAreOld
    <2> QED BY <2>1, <2>2
  <1>3. HoldersKnow'
    BY <1>1 DEF IInv, HoldersKnow, HolderKnows
  <1> QED BY <1>1, <1>2, <1>3, RowsUntouched DEF IInv, TypeOK, PublicationTypeOK

-----------------------------------------------------------------------------
(* Cleanup.                                                                *)

LEMMA SelectIInv ==
  ASSUME IInv, NEW c \in Reconcilers, Select(c)
  PROVE  IInv'
  <1>1. UNCHANGED <<phase, bytes, row, age, active, passLapsed, scanned, cand, target, faults>>
    BY DEF Select, publicationVars, passVars
  <1>2. Foremost(Cleanable) \in SUBSET Keys
    BY DEF Foremost, Cleanable
  <1>3. batch' \in [Reconcilers -> SUBSET Keys]
    BY <1>2 DEF IInv, TypeOK, Select
  <1>4. step' \in [Reconcilers -> Step] /\ HolderKnows(c)'
    BY DEF IInv, TypeOK, Select, Step, Fenced, HolderKnows
  <1>5. HoldersKnow'
    BY <1>1, <1>4, OthersKeepKnowing DEF IInv, TypeOK, Select
  <1>6. CandidatesAreOld'
    BY <1>1 DEF IInv, CandidatesAreOld
  <1> QED BY <1>1, <1>3, <1>4, <1>5, <1>6, RowsUntouched DEF IInv, TypeOK, PublicationTypeOK

(* What one reconciler's own variables are after a step that ends its      *)
(* cleanup, or its work on one key.                                        *)
Freed(c) ==
  /\ HolderKnows(c)'
  /\ step' \in [Reconcilers -> Step]
  /\ batch' \in [Reconcilers -> SUBSET Keys]
  /\ target' \in [Reconcilers -> Keys \union {NoOne}]
  /\ \A o \in Reconcilers \ {c} : step'[o] = step[o] /\ target'[o] = target[o]

LEMMA FreedKnows ==
  ASSUME TypeOK, NEW c \in Reconcilers, Stops(c) \/ \E k \in Keys : MovesOn(c, k)
  PROVE  Freed(c)
  <1>1. CASE Stops(c)
    BY <1>1 DEF TypeOK, Stops, HolderKnows, Step, Fenced, Freed
  <1>2. CASE \E k \in Keys : MovesOn(c, k)
    <2>1. PICK k \in Keys : MovesOn(c, k)
      BY <1>2
    <2>2. PICK s \in {"idle", "selected"} : step' = [step EXCEPT ![c] = s]
      BY <2>1 DEF MovesOn
    <2> QED BY <2>1, <2>2 DEF TypeOK, MovesOn, HolderKnows, Step, Fenced, Freed
  <1> QED BY <1>1, <1>2

(* The rest of the batch goes with the lock, or a key that needs no claim. *)
LEMMA WithoutClaimIInv ==
  ASSUME IInv, NEW c \in Reconcilers,
         NothingDue(c) \/ FenceBusy(c) \/ \E k \in Keys : Skip(c, k) \/ Dismiss(c, k)
  PROVE  IInv'
  <1>1. UNCHANGED <<phase, bytes, row, age, active, passLapsed, scanned, faults>>
    BY DEF NothingDue, FenceBusy, Skip, Dismiss, publicationVars, passVars
  <1>2. Freed(c)
    BY FreedKnows DEF IInv, NothingDue, FenceBusy, Skip, Dismiss
  <1>3. HoldersKnow'
    BY <1>1, <1>2, OthersKeepKnowing DEF IInv, Freed
  <1>4. cand' \in [Keys -> Candidate] /\ CandidatesAreOld'
    <2>1. CASE UNCHANGED cand
      BY <1>1, <2>1 DEF IInv, TypeOK, CandidatesAreOld
    <2>2. CASE \E k \in Keys : Dismiss(c, k)
      <3>1. PICK k \in Keys : cand' = [cand EXCEPT ![k] = Invalidated(cand[k])]
        BY <2>2 DEF Dismiss
      <3>2. cand[k] \in Candidate
        BY DEF IInv, TypeOK
      <3> QED BY <1>1, <3>1, <3>2, InvalidatedType, OneCandidate DEF IInv
    <2> QED BY <2>1, <2>2 DEF NothingDue, FenceBusy, Skip
  <1> QED BY <1>1, <1>2, <1>3, <1>4, RowsUntouched DEF IInv, TypeOK, PublicationTypeOK, Freed

(* The argument: an old object whose publication does not run is decided.  *)
LEMMA ClaimIInv ==
  ASSUME IInv, NEW c \in Reconcilers, NEW k \in Keys, Claim(c, k)
  PROVE  IInv'
  <1> DEFINE new == [cand[k] EXCEPT !.state = "claimed", !.owner = c, !.lapsed = FALSE]
  <1>1. /\ UNCHANGED <<phase, bytes, row, age, active, passLapsed, scanned, batch, faults>>
        /\ cand' = [cand EXCEPT ![k] = new]
        /\ step' = [step EXCEPT ![c] = "claimed"]
        /\ target' = [target EXCEPT ![c] = k]
    BY DEF Claim, publicationVars, passVars
  <1>2. cand[k] \in Candidate /\ cand[k].state \in Watched
    BY DEF IInv, TypeOK, Claim, Due, Watched
  <1>3. age[k] # "young"
    BY <1>2 DEF IInv, CandidatesAreOld
  <1>4. phase[k] = "ended"
    BY <1>3 DEF IInv, OldIsSettled, Claim, Turn, FenceFree, Publishing
  <1>5. new \in Candidate
    BY <1>2, ClaimType DEF CandidateState
  <1>6. cand' \in [Keys -> Candidate] /\ CandidatesAreOld'
    <2> HIDE DEF new
    <2> QED BY <1>1, <1>3, <1>5, OneCandidate DEF IInv
  <1>7. /\ step' \in [Reconcilers -> Step]
        /\ target' \in [Reconcilers -> Keys \union {NoOne}]
    BY <1>1 DEF IInv, TypeOK, Step, Fenced
  <1>8. HolderKnows(c)'
    BY <1>1, <1>4 DEF IInv, TypeOK, HolderKnows
  <1>9. HoldersKnow'
    BY <1>1, <1>8, OthersKeepKnowing DEF IInv, TypeOK
  <1> QED BY <1>1, <1>6, <1>7, <1>9, RowsUntouched DEF IInv, TypeOK, PublicationTypeOK

(* Candidates are left alone, or the claimed one is settled.               *)
LEMMA ClaimSettled ==
  ASSUME IInv, UNCHANGED age, NEW c \in Reconcilers, step[c] \in Fenced,
         NEW s \in {"retry_wait", "deleted"},
         \/ UNCHANGED cand
         \/ Claimed(c) /\ cand' = [cand EXCEPT ![target[c]] = Invalidated(cand[target[c]])]
         \/ Claimed(c) /\ cand' = [cand EXCEPT ![target[c]].lapsed = FALSE]
         \/ Claimed(c) /\ cand' = [cand EXCEPT ![target[c]].state = s,
                                               ![target[c]].owner = NoOne,
                                               ![target[c]].lapsed = FALSE]
  PROVE  cand' \in [Keys -> Candidate] /\ CandidatesAreOld'
  <1> DEFINE k == target[c]
             d == cand[k]
  <1>1. k \in Keys
    BY DEF IInv, HoldersKnow, HolderKnows
  <1>2. d \in Candidate
    BY <1>1 DEF IInv, TypeOK
  <1>3. CASE UNCHANGED cand
    BY <1>3 DEF IInv, TypeOK, CandidatesAreOld
  <1>4. ASSUME Claimed(c) PROVE age[k] # "young"
    BY <1>1, <1>4 DEF IInv, CandidatesAreOld, Claimed, Watched
  <1>5. CASE Claimed(c) /\ cand' = [cand EXCEPT ![k] = Invalidated(d)]
    BY <1>1, <1>2, <1>5, InvalidatedType, OneCandidate DEF IInv
  <1>6. CASE Claimed(c) /\ cand' = [cand EXCEPT ![k].lapsed = FALSE]
    <2> DEFINE new == [d EXCEPT !.lapsed = FALSE]
    <2>1. new \in Candidate
      BY <1>2, ClaimType DEF Candidate
    <2>2. cand' = [cand EXCEPT ![k] = new]
      BY <1>6
    <2> HIDE DEF new, d, k
    <2> QED BY <1>1, <1>4, <1>6, <2>1, <2>2, OneCandidate DEF IInv
  <1>7. CASE Claimed(c) /\ cand' = [cand EXCEPT ![k].state = s, ![k].owner = NoOne,
                                                ![k].lapsed = FALSE]
    <2> DEFINE new == [d EXCEPT !.state = s, !.owner = NoOne, !.lapsed = FALSE]
    <2>1. new \in Candidate
      BY <1>2, ClaimType DEF CandidateState
    <2>2. cand' = [cand EXCEPT ![k] = new]
      BY <1>1, <1>7 DEF IInv, TypeOK
    <2> HIDE DEF new, d, k
    <2> QED BY <1>1, <1>4, <1>7, <2>1, <2>2, OneCandidate DEF IInv
  <1> QED BY <1>3, <1>5, <1>6, <1>7

LEMMA RecheckIInv ==
  ASSUME IInv, NEW c \in Reconcilers, Recheck(c)
  PROVE  IInv'
  <1>1. /\ step[c] = "claimed" /\ step[c] \in Fenced
        /\ UNCHANGED <<phase, bytes, row, age, active, passLapsed, scanned, faults>>
    BY DEF Recheck, Fenced, publicationVars, passVars
  <1>2. cand' \in [Keys -> Candidate] /\ CandidatesAreOld'
    <2>1. \/ UNCHANGED cand
          \/ Claimed(c) /\ cand' = [cand EXCEPT ![target[c]] = Invalidated(cand[target[c]])]
          \/ Claimed(c) /\ cand' = [cand EXCEPT ![target[c]].lapsed = FALSE]
      BY DEF Recheck
    <2> QED BY <1>1, <2>1, ClaimSettled
  <1>3. Freed(c)
    <2>1. CASE MovesOn(c, target[c])
      BY <1>1, <2>1, FreedKnows DEF IInv, HoldersKnow, HolderKnows
    <2>2. CASE /\ step' = [step EXCEPT ![c] = "checked"] /\ UNCHANGED <<batch, target>>
               /\ ~Referenced(target[c])
      BY <1>1, <2>2 DEF IInv, TypeOK, HoldersKnow, HolderKnows, Referenced, Step, Fenced, Freed
    <2> QED BY <2>1, <2>2 DEF Recheck
  <1>4. HoldersKnow'
    BY <1>1, <1>3, OthersKeepKnowing DEF IInv, Freed
  <1> QED BY <1>1, <1>2, <1>3, <1>4, RowsUntouched DEF IInv, TypeOK, PublicationTypeOK, Freed

(* The step all this is for: what is deleted has no row.                   *)
LEMMA DeleteIInv ==
  ASSUME IInv, NEW c \in Reconcilers, Delete(c)
  PROVE  IInv'
  <1>1. /\ target[c] \in Keys
        /\ phase[target[c]] = "ended"
        /\ row[target[c]] = "none"
    BY DEF IInv, HoldersKnow, HolderKnows, Delete, Fenced
  <1>2. /\ bytes' = bytes \ {target[c]}
        /\ step' = [step EXCEPT ![c] = "deleted"]
        /\ UNCHANGED <<phase, row, age, active, passLapsed, scanned, cand, batch, target, faults>>
    BY DEF Delete, passVars
  <1>3. RowsAreDecided' /\ AvailableHasBytes' /\ OldIsSettled' /\ CandidatesAreOld'
    BY <1>1, <1>2 DEF IInv, RowsAreDecided, AvailableHasBytes, OldIsSettled, CandidatesAreOld
  <1>4. step' \in [Reconcilers -> Step] /\ HolderKnows(c)'
    BY <1>1, <1>2 DEF IInv, TypeOK, Step, Fenced, HolderKnows
  <1>5. HoldersKnow'
    BY <1>2, <1>4, OthersKeepKnowing DEF IInv, TypeOK
  <1> QED BY <1>2, <1>3, <1>4, <1>5 DEF IInv, TypeOK, PublicationTypeOK

LEMMA OutcomeIInv ==
  ASSUME IInv, NEW c \in Reconcilers, RecordDeleted(c) \/ CleanupFails(c) \/ Crash(c)
  PROVE  IInv'
  <1>1. UNCHANGED <<phase, row, age, active, passLapsed, scanned>>
    BY DEF RecordDeleted, CleanupFails, Crash, publicationVars, passVars
  <1>2. faults' \in 0..MaxFaults
    BY FaultCounted DEF IInv, TypeOK, RecordDeleted, CleanupFails, Crash
  <1>3. (step[c] \in Fenced /\ target[c] \in Keys) \/ UNCHANGED <<cand, bytes>>
    BY DEF IInv, HoldersKnow, HolderKnows, RecordDeleted, CleanupFails, Crash, Fenced,
       publicationVars
  <1>4. cand' \in [Keys -> Candidate] /\ CandidatesAreOld'
    <2>1. CASE UNCHANGED cand
      BY <1>1, <2>1 DEF IInv, TypeOK, CandidatesAreOld
    <2>2. CASE ~UNCHANGED cand
      <3>1. PICK s \in {"retry_wait", "deleted"} : Record(c, s)
        BY <2>2 DEF RecordDeleted, CleanupFails, Crash
      <3> QED BY <1>1, <1>3, <2>2, <3>1, ClaimSettled DEF Record
    <2> QED BY <2>1, <2>2
  <1>5. Freed(c)
    <2>1. CASE Crash(c)
      BY <2>1, FreedKnows DEF Crash, IInv
    <2>2. CASE RecordDeleted(c) \/ CleanupFails(c)
      <3>1. target[c] \in Keys /\ MovesOn(c, target[c])
        BY <2>2 DEF RecordDeleted, CleanupFails, Record, IInv, HoldersKnow, HolderKnows, Fenced
      <3> QED BY <3>1, FreedKnows DEF IInv
    <2> QED BY <2>1, <2>2
  <1>6. HoldersKnow'
    BY <1>1, <1>5, OthersKeepKnowing DEF IInv, Freed
  <1>7. /\ bytes' \in SUBSET Keys
        /\ \A k \in Keys : phase[k] # "ended" \/ row[k] # "none" => (k \in bytes' <=> k \in bytes)
    <2>1. CASE UNCHANGED bytes
      BY <2>1 DEF IInv, TypeOK, PublicationTypeOK
    <2>2. CASE step[c] = "checked" /\ bytes' = bytes \ {target[c]}
      BY <2>2 DEF IInv, TypeOK, PublicationTypeOK, HoldersKnow, HolderKnows, Fenced
    <2> QED BY <2>1, <2>2 DEF RecordDeleted, CleanupFails, Crash, publicationVars
  <1>8. RowsAreDecided' /\ AvailableHasBytes' /\ OldIsSettled'
    BY <1>1, <1>7 DEF IInv, RowsAreDecided, AvailableHasBytes, OldIsSettled
  <1> QED BY <1>1, <1>2, <1>4, <1>5, <1>6, <1>7, <1>8
          DEF IInv, TypeOK, PublicationTypeOK, Freed

(* Every step keeps the invariant.                                         *)
LEMMA NextIInv == IInv /\ [Next]_vars => IInv'
  <1> SUFFICES ASSUME IInv, [Next]_vars PROVE IInv'
    OBVIOUS
  <1>1. CASE Publication \/ Time
    BY <1>1, PublicationIInv, TimeIInv
  <1>2. ASSUME NEW c \in Reconcilers, Work(c) \/ Crash(c) PROVE IInv'
    BY <1>2, PassIInv, ScanIInv, SelectIInv, WithoutClaimIInv, ClaimIInv, RecheckIInv, DeleteIInv,
       OutcomeIInv DEF Work
  <1>3. CASE UNCHANGED vars
    <2>1. UNCHANGED <<phase, bytes, row, age, active, passLapsed, scanned, cand, step,
                      batch, target, faults>>
      BY <1>3 DEF vars, publicationVars, passVars, workVars
    <2>2. TypeOK'
      BY <2>1 DEF IInv, TypeOK, PublicationTypeOK
    <2>3. CandidatesAreOld' /\ HoldersKnow'
      BY <2>1 DEF IInv, CandidatesAreOld, HoldersKnow, HolderKnows
    <2> QED BY <2>1, <2>2, <2>3, RowsUntouched DEF IInv
  <1> QED BY <1>1, <1>2, <1>3 DEF Next

-----------------------------------------------------------------------------
(* IInv is an invariant of publications and reconcilers.                   *)
THEOREM Invariance == Spec => []IInv
  BY InitIInv, NextIInv, PTL DEF Spec

(* Publications, candidates and reconcilers keep their types.              *)
THEOREM ReconciliationTypes == Spec => []TypeOK
  <1>1. IInv => TypeOK
    BY DEF IInv
  <1> QED BY <1>1, Invariance, PTL

(* No reconciler deletes the bytes of an artifact, or of one whose commit  *)
(* may still be decided.                                                   *)
THEOREM AvailableIsNeverReconciledAway == Spec => []AvailableHasBytes
  <1>1. IInv => AvailableHasBytes
    BY DEF IInv
  <1> QED BY <1>1, Invariance, PTL
=============================================================================
