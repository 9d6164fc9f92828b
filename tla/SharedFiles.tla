------------------------------ MODULE SharedFiles ------------------------------
(***************************************************************************)
(* Files shared in a conversation, from the row that names a storage key   *)
(* to the removal of the object behind it, and the character images of an  *)
(* earlier release that only await removal.                                *)
(*                                                                         *)
(* The row and the bucket are two stores: completing an upload looks into  *)
(* the bucket first and takes the lock of the row afterwards; the cleanup  *)
(* worker deletes in the bucket first and writes the row afterwards.  A    *)
(* handler is dropped with its client, a worker dies with its process.     *)
(***************************************************************************)
EXTENDS Naturals, FiniteSets

CONSTANTS
    Files,      \* shared files
    Pictures,   \* those whose type is image/*, which are reviewed
    OldAssets,     \* rows of social_persona_assets
    Uploads,    \* handlers of POST .../complete in flight
    Cleaners,   \* cleanup workers, one in each process
    MaxDropped  \* bound: handlers dropped, crashes, refused DELETEs

ASSUME FilesAssumption ==
    /\ Pictures \subseteq Files /\ Files \cap OldAssets = {}
    /\ "none" \notin Files \cup OldAssets
    /\ MaxDropped \in Nat

VARIABLES
    row,       \* chat_shared_objects and social_persona_assets
    bucket,    \* the storage keys that hold an object
    upload,    \* where each completion stands
    cleaner,   \* the claims of each worker, and what became of the one in hand
    dropped

fileVars == <<row, bucket, upload, cleaner, dropped>>

-----------------------------------------------------------------------------
Objects == Files \cup OldAssets
NoFile   == [status |-> "none", verified |-> FALSE, job |-> "none", cleanup |-> "none"]
NoUpload == [stage |-> "idle", file |-> "none"]
AtRest   == [claims |-> {}, key |-> "none", result |-> "none"]

\* Migration 0080 has revoked what was left of the legacy images.
FileInit ==
    /\ row = [k \in Objects |-> IF k \in Files THEN NoFile
                             ELSE [NoFile EXCEPT !.status = "revoked", !.cleanup = "due"]]
    /\ bucket = OldAssets
    /\ upload = [u \in Uploads |-> NoUpload]
    /\ cleaner = [w \in Cleaners |-> AtRest]
    /\ dropped = 0

\* A stand-in for the conversation's own checks: some open one allows it.
CreateFile(f) ==
    /\ row[f].status = "none"
    /\ row' = [row EXCEPT ![f].status = "pending_upload"]
    /\ UNCHANGED <<bucket, upload, cleaner, dropped>>

\* The client's PUT, with credentials for the whole bucket that last an hour.
PutObject(f) ==
    /\ row[f].status # "none"
    /\ bucket' = bucket \cup {f}
    /\ UNCHANGED <<row, upload, cleaner, dropped>>

-----------------------------------------------------------------------------
(* Completing an upload.                                                   *)

AwaitsUpload(f) ==
    \/ row[f].status = "pending_upload"
    \/ row[f].status = "pending_review" /\ ~row[f].verified

\* Anything already verified is answered from the row.
Probe(u, f) ==
    /\ upload[u] = NoUpload
    /\ AwaitsUpload(f) /\ f \in bucket
    /\ upload' = [upload EXCEPT ![u] = [stage |-> "probed", file |-> f]]
    /\ UNCHANGED <<row, bucket, cleaner, dropped>>

Completed(f) ==
    [row EXCEPT ![f].verified = TRUE,
                ![f].status = IF f \in Pictures THEN "pending_review" ELSE "active"]

\* Bug: the status is not read again under the lock.
CompleteAsProbed(u) ==
    /\ upload[u].stage = "probed"
    /\ row' = Completed(upload[u].file)
    /\ upload' = [upload EXCEPT ![u].stage = "completed"]
    /\ UNCHANGED <<bucket, cleaner, dropped>>

\* Under the lock of the row, whose status decides once more.  A revoked row
\* is refused, a completed one is returned as it is.
Complete(u) ==
    /\ upload[u].stage = "probed"
    /\ LET f == upload[u].file IN
        /\ row' = IF AwaitsUpload(f) THEN Completed(f) ELSE row
        /\ upload' = [upload EXCEPT ![u] =
               IF row'[f].status = "pending_review" THEN [@ EXCEPT !.stage = "completed"]
               ELSE NoUpload]
    /\ UNCHANGED <<bucket, cleaner, dropped>>

\* A transaction of its own; one job at a time.
EnsureJob(u) ==
    /\ upload[u].stage = "completed"
    /\ LET f == upload[u].file IN
        row' = IF row[f].status = "pending_review" /\ row[f].job # "pending"
               THEN [row EXCEPT ![f].job = "pending"] ELSE row
    /\ upload' = [upload EXCEPT ![u] = NoUpload]
    /\ UNCHANGED <<bucket, cleaner, dropped>>

DropUpload(u) ==
    /\ dropped < MaxDropped /\ upload[u] # NoUpload
    /\ dropped' = dropped + 1
    /\ upload' = [upload EXCEPT ![u] = NoUpload]
    /\ UNCHANGED <<row, bucket, cleaner>>

\* The verdict of the job, or of an admin who restores what it rejected; a
\* revoked row keeps its status.  After the last retry the job fails and the
\* row stays where it is.
Judge(f) ==
    /\ \/ row[f].job = "pending"
       \/ row[f].status = "rejected"
    /\ \E verdict \in {"active", "rejected", "failed"} :
        row' = [row EXCEPT ![f].job = "settled",
                           ![f].status = IF @ = "revoked" \/ verdict = "failed" THEN @ ELSE verdict]
    /\ UNCHANGED <<bucket, upload, cleaner, dropped>>

-----------------------------------------------------------------------------
(* Revoking and cleaning up.                                               *)

Revoke(f) ==
    /\ row[f].status \notin {"none", "revoked"}
    /\ row' = [row EXCEPT ![f].status = "revoked", ![f].cleanup = "due"]
    /\ UNCHANGED <<bucket, upload, cleaner, dropped>>

CleanupDue == {k \in Objects : row[k].status = "revoked" /\ row[k].cleanup = "due"}

\* The claim moves the next attempt CLAIM_LEASE_SECS ahead.
ClaimCleanup(w) ==
    /\ cleaner[w] = AtRest /\ CleanupDue # {}
    /\ cleaner' = [cleaner EXCEPT ![w].claims = CleanupDue]
    /\ row' = [k \in Objects |-> IF k \in CleanupDue THEN [row[k] EXCEPT !.cleanup = "later"]
                              ELSE row[k]]
    /\ UNCHANGED <<bucket, upload, dropped>>

\* delete_remote_object accepts keys of the form chat/campus/object only, and
\* a key that is not in the bucket counts as deleted.
AcceptsKey(k) == k \in Files

DeleteRemote(w) ==
    /\ cleaner[w].result = "none"
    /\ \E k \in cleaner[w].claims :
        \/ /\ AcceptsKey(k)
           /\ bucket' = bucket \ {k}
           /\ cleaner' = [cleaner EXCEPT ![w] = [claims |-> @.claims \ {k}, key |-> k, result |-> "ok"]]
           /\ UNCHANGED dropped
        \/ /\ ~AcceptsKey(k)
           /\ cleaner' = [cleaner EXCEPT ![w] = [claims |-> @.claims \ {k}, key |-> k, result |-> "error"]]
           /\ UNCHANGED <<bucket, dropped>>
        \/ /\ dropped < MaxDropped /\ dropped' = dropped + 1
           /\ cleaner' = [cleaner EXCEPT ![w] = [claims |-> @.claims \ {k}, key |-> k, result |-> "error"]]
           /\ UNCHANGED bucket
    /\ UNCHANGED <<row, upload>>

\* Bug: a refused DELETE is final.
RecordAsFailed(w) ==
    /\ cleaner[w].result # "none"
    /\ row' = [row EXCEPT ![cleaner[w].key].cleanup = IF cleaner[w].result = "ok" THEN "done" ELSE "failed"]
    /\ cleaner' = [cleaner EXCEPT ![w].key = "none", ![w].result = "none"]
    /\ UNCHANGED <<bucket, upload, dropped>>

RecordCleanup(w) ==
    /\ cleaner[w].result # "none"
    /\ LET k == cleaner[w].key IN
        row' = IF row[k].cleanup = "done" THEN row
               ELSE [row EXCEPT ![k].cleanup = IF cleaner[w].result = "ok" THEN "done" ELSE "later"]
    /\ cleaner' = [cleaner EXCEPT ![w].key = "none", ![w].result = "none"]
    /\ UNCHANGED <<bucket, upload, dropped>>

CleanerDies(w) ==
    /\ dropped < MaxDropped /\ cleaner[w] # AtRest
    /\ dropped' = dropped + 1
    /\ cleaner' = [cleaner EXCEPT ![w] = AtRest]
    /\ UNCHANGED <<row, bucket, upload>>

\* The lease or the backoff is over, be the worker done or not.
RetryIsDue(k) ==
    /\ row[k].cleanup = "later"
    /\ row' = [row EXCEPT ![k].cleanup = "due"]
    /\ UNCHANGED <<bucket, upload, cleaner, dropped>>

-----------------------------------------------------------------------------
FileNext ==
    \/ \E f \in Files : CreateFile(f) \/ PutObject(f) \/ Judge(f) \/ Revoke(f)
    \/ \E u \in Uploads, f \in Files : Probe(u, f)
    \/ \E u \in Uploads : Complete(u) \/ EnsureJob(u) \/ DropUpload(u)
    \/ \E w \in Cleaners : ClaimCleanup(w) \/ DeleteRemote(w) \/ RecordCleanup(w) \/ CleanerDies(w)
    \/ \E k \in Objects : RetryIsDue(k)

FileSpec == FileInit /\ [][FileNext]_fileVars

\* The worker polls for ever; a lease or backoff of a row nobody works on ends.
FileFairness ==
    /\ \A w \in Cleaners : WF_fileVars(ClaimCleanup(w)) /\ WF_fileVars(DeleteRemote(w))
                           /\ WF_fileVars(RecordCleanup(w))
    /\ \A k \in Objects : WF_fileVars(RetryIsDue(k))

FileFairSpec == FileSpec /\ FileFairness

-----------------------------------------------------------------------------
(* Properties.                                                             *)

\* What can be quoted or opened, or is being reviewed for it, is in the
\* bucket: neither a completion that looked before a revocation and a cleanup,
\* nor a worker that was taken for dead, leaves a row without its object.
OfferedIsStored == \A f \in Files :
    row[f].status \in {"active", "pending_review", "rejected"} => f \in bucket

\* A revoked file is removed in the end, whatever dies on the way.
RevokedIsCleaned == \A f \in Files :
    row[f].status = "revoked" ~> row[f].cleanup = "done"

\* docs/operations.md: completing an upload writes the review status and the
\* job of the review atomically.
ReviewHasJob == \A f \in Files :
    row[f].status = "pending_review" => row[f].job # "none"

\* docs/operations.md: the legacy images are handed to the cleanup worker.
LegacyIsCleaned == \A k \in OldAssets : <>(row[k].cleanup = "done")
=============================================================================
