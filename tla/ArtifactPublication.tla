------------------------- MODULE ArtifactPublication -------------------------
(***************************************************************************)
(* Publication of media artifacts: the bytes go to the artifact store       *)
(* first, the row that refers to them is committed by the surrounding       *)
(* database transaction afterwards, and session listeners undo or keep the  *)
(* bytes by the outcome of that transaction                                 *)
(* (app/domain/media_artifacts/publication.py, store.py).                   *)
(*                                                                         *)
(* The module is extended by OrphanReconciliation, which looks after bytes  *)
(* that lost their row, and by MediaDelivery, which serves and purges the   *)
(* artifacts that have one.                                                 *)
(***************************************************************************)
EXTENDS Naturals

CONSTANTS Keys   \* storage keys; every publication takes a fresh one (uuid4)

VARIABLES
  phase,   \* phase[k]: where the transaction that publishes k stands
  bytes,   \* keys whose object is in the store
  row      \* row[k]: status of the media_artifacts row that refers to k

publicationVars == <<phase, bytes, row>>

\* "unborn": not published yet.
\* "open":   the bytes are written, the transaction runs; its session holds the
\*           shared lock of the store until the transaction has ended.
\* "limbo":  COMMIT was sent and its answer was lost; the publisher has put the
\*           key in quarantine and released the lock, and the database has yet to
\*           decide.
\* "ended":  decided, whether or not the publisher learned it.
Phase == {"unborn", "open", "limbo", "ended"}

RowStatus == {"none", "available", "purge_pending", "purged"}

PublicationTypeOK ==
  /\ phase \in [Keys -> Phase]
  /\ bytes \in SUBSET Keys
  /\ row \in [Keys -> RowStatus]

PublicationInit ==
  /\ phase = [k \in Keys |-> "unborn"]
  /\ bytes = {}
  /\ row = [k \in Keys |-> "none"]

\* The transactions whose sessions hold the store's lock in shared mode.
Publishing == {k \in Keys : phase[k] = "open"}

-----------------------------------------------------------------------------
\* publish_and_track_artifact: opens a publication session (shared lock), writes
\* the object and has the listeners track it. A write that raises "uncertain"
\* is tracked as well; its transaction can then only end without a row.
Put(k) ==
  /\ phase[k] = "unborn"
  /\ phase' = [phase EXCEPT ![k] = "open"]
  /\ bytes' = bytes \union {k}
  /\ UNCHANGED row

\* The commit is answered: the key is forgotten, the lock released.
Commit(k) ==
  /\ phase[k] = "open"
  /\ phase' = [phase EXCEPT ![k] = "ended"]
  /\ row' = [row EXCEPT ![k] = "available"]
  /\ UNCHANGED bytes


\* Mutated: an unanswered commit is taken for a rollback, and the bytes deleted.
CommitUnansweredCleansUp(k) ==
  /\ phase[k] = "open"
  /\ phase' = [phase EXCEPT ![k] = "limbo"]
  /\ bytes' = bytes \ {k}
  /\ UNCHANGED row

\* The driver began COMMIT and no outcome was observed ("commit_started" in
\* _after_transaction_end): the bytes are kept, the lock is released. A process
\* that dies in its COMMIT leaves the same state.
CommitUnanswered(k) ==
  /\ phase[k] = "open"
  /\ phase' = [phase EXCEPT ![k] = "limbo"]
  /\ UNCHANGED <<bytes, row>>

\* What the database decides about that commit, by itself.
LimboCommitted(k) ==
  /\ phase[k] = "limbo"
  /\ phase' = [phase EXCEPT ![k] = "ended"]
  /\ row' = [row EXCEPT ![k] = "available"]
  /\ UNCHANGED bytes

LimboAborted(k) ==
  /\ phase[k] = "limbo"
  /\ phase' = [phase EXCEPT ![k] = "ended"]
  /\ UNCHANGED <<bytes, row>>

\* The transaction certainly did not commit: the listener deletes the bytes while
\* it still holds the lock. (A savepoint that rolls back deletes its keys the same
\* way, delete_tracked_artifact_publication.)
RollBack(k) ==
  /\ phase[k] = "open"
  /\ phase' = [phase EXCEPT ![k] = "ended"]
  /\ bytes' = bytes \ {k}
  /\ UNCHANGED row

\* The same when that deletion fails (quarantine), or the process dies before it:
\* no row, but bytes - an orphan.
LoseTrack(k) ==
  /\ phase[k] = "open"
  /\ phase' = [phase EXCEPT ![k] = "ended"]
  /\ UNCHANGED <<bytes, row>>

Decided(k) == LimboCommitted(k) \/ LimboAborted(k)

-----------------------------------------------------------------------------
\* Every available artifact has its bytes, however the commit of its row went and
\* whoever cleans up: a client that was given the artifact can fetch it.
AvailableHasBytes == \A k \in Keys : row[k] = "available" => k \in bytes

\* Bytes without a row, and nobody who could still commit one.
Orphan(k) == k \in bytes /\ phase[k] = "ended" /\ row[k] = "none"
=============================================================================
