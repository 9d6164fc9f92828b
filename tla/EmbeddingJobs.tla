---------------------------- MODULE EmbeddingJobs ----------------------------
(***************************************************************************)
(* The projection of listings into `documents` (vectors for retrieval).    *)
(*                                                                         *)
(* Triggers number every change of a listing (content_revision) and ask    *)
(* for its projection in the same transaction; `embedding_jobs` has one    *)
(* row per listing with the newest revision wanted.  Workers lease rows,   *)
(* read the listing without a lock, call the provider, write the document  *)
(* and settle the job in separate steps, while listings change, leases run *)
(* out, workers die and calls fail.                                        *)
(***************************************************************************)
EXTENDS Integers, FiniteSets

CONSTANTS
    Listings, Workers,
    ClaimLimit,    \* jobs of one batch
    MaxAttempts,   \* failures until a job is dead-lettered
    MaxRevision    \* bound: content_revision of a listing

ASSUME WorkerAssumption == {"nobody", "gone"} \cap Workers = {}
ASSUME LimitAssumption  == ClaimLimit \in Nat \ {0} /\ MaxAttempts \in Nat \ {0}
ASSUME RevAssumption    == MaxRevision \in Nat \ {0}

VARIABLES
    listing,    \* inventory, and listing_has_active_restriction
    job,        \* the embedding_jobs table
    document,   \* the documents table
    work        \* what each worker has in hand

vars == <<listing, job, document, work>>

-----------------------------------------------------------------------------
\* `text` names the canonical text by the revision that brought it; 0 is none.
Listing == [status : {"active", "inactive", "purged"}, restricted : BOOLEAN,
            revision : Nat \ {0}, text : Nat \ {0}]

\* `due`: available_at has come; `leased`: locked_until has not.  Workers have
\* a fresh id per process: "gone" is the id of one that has died.
Job == [status : {"pending", "processing", "completed", "dead_lettered"},
        desired : Nat \ {0}, attempts : 0..MaxAttempts, due : BOOLEAN,
        owner : Workers \cup {"nobody", "gone"}, leased : BOOLEAN]

NoDocument == [revision |-> 0, text |-> 0]
Legacy     == [revision |-> 0, text |-> 1]   \* source_revision IS NULL
Document   == [revision : Nat, text : Nat]

\* A claimed job on its way: the listing's row is read ("claimed"), then its
\* restriction ("read"), the provider is called ("embedding"), the projection
\* is to be written ("ready"), and the job settled ("done", "failed").
Idle == [stage |-> "idle", revision |-> 0, text |-> 0]
Task == [stage : {"idle", "claimed", "read", "embedding", "ready", "done", "failed"},
         revision : Nat, text : Nat]

TypeOK ==
    /\ listing \in [Listings -> Listing]
    /\ job \in [Listings -> Job]
    /\ document \in [Listings -> Document]
    /\ work \in [Workers -> [Listings -> Task]]

\* Restricted, sold, deleted and purged listings have no document.
Visible(l) == listing[l].status = "active" /\ ~listing[l].restricted
Projection(l) ==
    IF Visible(l) THEN [revision |-> listing[l].revision, text |-> listing[l].text]
    ELSE NoDocument

Requested(revision) ==
    [status |-> "pending", desired |-> revision, attempts |-> 0, due |-> TRUE,
     owner |-> "nobody", leased |-> FALSE]

\* Every listing has been inserted, or was there before 0057 with a document.
Init ==
    /\ listing \in [Listings -> [status : {"active", "inactive"}, restricted : {FALSE},
                               revision : {1}, text : {1}]]
    /\ job = [l \in Listings |-> Requested(1)]
    /\ document \in [Listings -> {NoDocument, Legacy}]
    /\ work = [w \in Workers |-> [l \in Listings |-> Idle]]

-----------------------------------------------------------------------------
(* Listings change, and the triggers of 0057 follow.                       *)

\* request_listing_embedding: a leased job is not taken from its worker.
Merged(l, revision) ==
    LET newest == IF revision > job[l].desired THEN revision ELSE job[l].desired
    IN IF job[l].status = "processing" THEN [job[l] EXCEPT !.desired = newest]
       ELSE Requested(newest)

\* maintain_inventory_content_revision.  Bug: what restrictions do to
\* the listing is left out.
AdvancedByContent(l, new) ==
    IF new.status # listing[l].status \/ new.text # listing[l].text
    THEN listing[l].revision + 1 ELSE listing[l].revision
Advanced(l, new) == listing[l].revision + 1

Change(l, new) ==
    /\ listing[l].status # "purged"
    /\ listing[l].revision < MaxRevision
    /\ LET revision == Advanced(l, new) IN
       /\ listing' = [listing EXCEPT ![l] = [new EXCEPT !.revision = revision]]
       /\ job' = IF revision # listing[l].revision
                 THEN [job EXCEPT ![l] = Merged(l, revision)] ELSE job

\* Only a visible listing may be edited.
Edit(l) ==
    /\ Visible(l)
    /\ Change(l, [listing[l] EXCEPT !.text = listing[l].revision + 1])
    /\ UNCHANGED <<document, work>>

\* Sold, deleted, relisted.
SetStatus(l, status) ==
    /\ status # listing[l].status
    /\ Change(l, [listing[l] EXCEPT !.status = status])
    /\ UNCHANGED <<document, work>>

\* The trigger of listing_restriction_effects.
Restrict(l) ==
    /\ Change(l, [listing[l] EXCEPT !.restricted = ~@])
    /\ UNCHANGED <<document, work>>

\* Undoing a publication removes the document as well.
UndoCreate(l) ==
    /\ listing[l].status = "active"
    /\ Change(l, [listing[l] EXCEPT !.status = "inactive"])
    /\ document' = [document EXCEPT ![l] = NoDocument]
    /\ UNCHANGED work

\* DELETE FROM inventory asks for the revision after the last.
Purge(l) ==
    /\ listing[l].status # "purged"
    /\ listing' = [listing EXCEPT ![l].status = "purged"]
    /\ job' = [job EXCEPT ![l] = Merged(l, listing[l].revision + 1)]
    /\ UNCHANGED <<document, work>>

-----------------------------------------------------------------------------
(* The worker's loop: claim_batch, then join_all over process_claimed_job.  *)

Claimable(l) ==
    /\ job[l].due
    /\ job[l].status = "pending" \/ (job[l].status = "processing" /\ ~job[l].leased)

\* LIMIT, and SKIP LOCKED, leave any part of what is due.
Claim(w, batch) ==
    /\ \A l \in Listings : work[w][l] = Idle
    /\ batch # {} /\ Cardinality(batch) <= ClaimLimit
    /\ \A l \in batch : Claimable(l)
    /\ job' = [l \in Listings |->
           IF l \in batch
           THEN [job[l] EXCEPT !.status = "processing", !.owner = w, !.leased = TRUE]
           ELSE job[l]]
    /\ work' = [work EXCEPT ![w] = [l \in Listings |->
           IF l \in batch
           THEN [stage |-> "claimed", revision |-> job[l].desired, text |-> 0] ELSE Idle]]
    /\ UNCHANGED <<listing, document>>

At(w, l, stage) == work[w][l].stage = stage
Put(w, l, stage, text) ==
    work' = [work EXCEPT ![w][l] = [stage |-> stage, revision |-> @.revision, text |-> text]]

\* load_listing reads the row, then the restriction, and locks neither.
ReadRow(w, l) ==
    /\ At(w, l, "claimed")
    /\ IF listing[l].status = "active" THEN Put(w, l, "read", listing[l].text)
       ELSE Put(w, l, "ready", 0)
    /\ UNCHANGED <<listing, job, document>>

ReadRestriction(w, l) ==
    /\ At(w, l, "read")
    /\ IF listing[l].restricted THEN Put(w, l, "ready", 0)
       ELSE Put(w, l, "embedding", work[w][l].text)
    /\ UNCHANGED <<listing, job, document>>

Embed(w, l) ==
    /\ At(w, l, "embedding")
    /\ Put(w, l, "ready", work[w][l].text)
    /\ UNCHANGED <<listing, job, document>>

\* The claimed revision still is the listing's.
IsCurrent(w, l) == work[w][l].revision = listing[l].revision

\* Otherwise finalize_projection's checks fail: nothing may be written.
HasText(w, l) == Visible(l) => work[w][l].text = listing[l].text

\* What finalize_projection finds on the locked row.  Bug: it only looks at
\* what became of the listing, and takes the vector in hand for its.
VerdictByStatus(w, l) == IF Visible(l) THEN "write" ELSE "remove"
Verdict(w, l) ==
    CASE listing[l].status = "purged" -> "remove"
      [] listing[l].status # "purged" /\ ~IsCurrent(w, l) -> "leave"
      [] listing[l].status # "purged" /\ IsCurrent(w, l) ->
             IF ~Visible(l) THEN "remove" ELSE IF HasText(w, l) THEN "write" ELSE "refuse"

\* ON CONFLICT ... WHERE source_revision IS NULL OR source_revision <= new.
Upserted(l, new) ==
    IF document[l].revision <= new.revision THEN new ELSE document[l]

\* One transaction.
Finalize(w, l) ==
    /\ At(w, l, "ready")
    /\ LET verdict == Verdict(w, l) IN
       /\ document' = [document EXCEPT ![l] =
              CASE verdict = "remove" -> NoDocument
                [] verdict = "write"  ->
                       Upserted(l, [revision |-> listing[l].revision, text |-> work[w][l].text])
                [] verdict \in {"leave", "refuse"} -> @]
       /\ Put(w, l, IF verdict = "refuse" THEN "failed" ELSE "done", 0)
    /\ UNCHANGED <<listing, job>>

\* A provider error, a timeout or a failed statement.
Fail(w, l) ==
    /\ work[w][l].stage \in {"claimed", "read", "embedding", "ready"}
    /\ Put(w, l, "failed", 0)
    /\ UNCHANGED <<listing, job, document>>

-----------------------------------------------------------------------------
(* mark_succeeded and mark_failed.                                         *)

Leases(w, l) == job[l].status = "processing" /\ job[l].owner = w

\* The compare-and-set on the claimed revision.  Bugs: left out; made against
\* the listing, which has no revision any more once it is purged.
IsWantedAny(w, l) == TRUE
IsWantedByListing(w, l) == listing[l].revision = work[w][l].revision
IsWanted(w, l) == job[l].desired = work[w][l].revision

Settled(l, status, attempts, due) ==
    [job EXCEPT ![l] = [status |-> status, desired |-> job[l].desired, attempts |-> attempts,
                        due |-> due, owner |-> "nobody", leased |-> FALSE]]

MarkSucceeded(w, l) ==
    /\ At(w, l, "done")
    /\ job' = IF ~Leases(w, l) THEN job
              ELSE IF IsWanted(w, l) THEN Settled(l, "completed", job[l].attempts, TRUE)
              ELSE Settled(l, "pending", 0, TRUE)
    /\ work' = [work EXCEPT ![w][l] = Idle]
    /\ UNCHANGED <<listing, document>>

\* Bug: one attempt too many.
ExhaustedLater(attempts) == attempts > MaxAttempts
Exhausted(attempts) == attempts >= MaxAttempts

MarkFailed(w, l) ==
    /\ At(w, l, "failed")
    /\ job' = IF ~Leases(w, l) THEN job
              ELSE IF ~IsWanted(w, l) THEN Settled(l, "pending", 0, TRUE)
              ELSE IF Exhausted(job[l].attempts + 1)
              THEN Settled(l, "dead_lettered", job[l].attempts + 1, TRUE)
              ELSE Settled(l, "pending", job[l].attempts + 1, FALSE)
    /\ work' = [work EXCEPT ![w][l] = Idle]
    /\ UNCHANGED <<listing, document>>

\* The statement that settles the job fails: the job stays `processing`.
LoseMark(w, l) ==
    /\ work[w][l].stage \in {"done", "failed"}
    /\ work' = [work EXCEPT ![w][l] = Idle]
    /\ UNCHANGED <<listing, job, document>>

\* The process dies; the next one has another id.
Crash(w) ==
    /\ \E l \in Listings : work[w][l] # Idle
    /\ work' = [work EXCEPT ![w] = [l \in Listings |-> Idle]]
    /\ job' = [l \in Listings |->
           IF job[l].owner = w THEN [job[l] EXCEPT !.owner = "gone"] ELSE job[l]]
    /\ UNCHANGED <<listing, document>>

-----------------------------------------------------------------------------
(* Time passes; operators replay.                                          *)

LeaseExpires(l) ==
    /\ job[l].leased
    /\ job' = [job EXCEPT ![l].leased = FALSE]
    /\ UNCHANGED <<listing, document, work>>

BackoffEnds(l) ==
    /\ ~job[l].due
    /\ job' = [job EXCEPT ![l].due = TRUE]
    /\ UNCHANGED <<listing, document, work>>

ReplayDeadLettered(l) ==
    /\ job[l].status = "dead_lettered"
    /\ job' = [job EXCEPT ![l] = Requested(@.desired)]
    /\ UNCHANGED <<listing, document, work>>

-----------------------------------------------------------------------------
Step(w, l) ==
    \/ ReadRow(w, l) \/ ReadRestriction(w, l) \/ Embed(w, l) \/ Finalize(w, l) \/ Fail(w, l)
    \/ MarkSucceeded(w, l) \/ MarkFailed(w, l) \/ LoseMark(w, l)

Next ==
    \/ \E l \in Listings : \/ Edit(l) \/ Restrict(l) \/ UndoCreate(l) \/ Purge(l)
                           \/ \E s \in {"active", "inactive"} : SetStatus(l, s)
                           \/ LeaseExpires(l) \/ BackoffEnds(l) \/ ReplayDeadLettered(l)
    \/ \E w \in Workers : \/ \E batch \in SUBSET Listings : Claim(w, batch)
                          \/ Crash(w)
                          \/ \E l \in Listings : Step(w, l)

Spec == Init /\ [][Next]_vars

\* What any worker, or the statement it is in, can do to a job it leases.
Proceed(w, l) ==
    \/ ReadRow(w, l) \/ ReadRestriction(w, l) \/ Embed(w, l) \/ Finalize(w, l)
    \/ MarkSucceeded(w, l) \/ MarkFailed(w, l)

\* The environment's mishaps: deaths, failed bookkeeping, and a lease of
\* LEASE_SECONDS that ends before the work (whose calls have timeouts) does.
Mishap(w, l) ==
    Crash(w) \/ LoseMark(w, l) \/ (LeaseExpires(l) /\ job[l].owner = w /\ work[w][l] # Idle)

\* Clocks advance, workers poll and take the oldest first, and calls end.
\* Mishaps are not for ever; the provider may fail for ever.
EmbedFairness ==
    /\ \A l \in Listings : WF_vars(LeaseExpires(l)) /\ WF_vars(BackoffEnds(l))
    /\ \A l \in Listings : SF_vars(\E w \in Workers, b \in SUBSET Listings : l \in b /\ Claim(w, b))
    /\ \A w \in Workers, l \in Listings : WF_vars(Proceed(w, l))
    /\ <>[][\A w \in Workers, l \in Listings : ~Mishap(w, l)]_vars

FairSpec == Spec /\ EmbedFairness

-----------------------------------------------------------------------------
(* Properties.                                                             *)

\* A job is `completed` only while the document is exactly what the listing
\* calls for: its current text under its current revision, or nothing if the
\* listing is not to be found.  Nothing in a worker's hands can undo that.
CompletedIsCurrent ==
    \A l \in Listings : job[l].status = "completed" => document[l] = Projection(l)

\* Whoever writes or removes a document, however long ago he claimed the job
\* and read the listing, leaves what the listing calls for at that moment.
WritesAreCurrent ==
    [][\A l \in Listings : document'[l] # document[l] => document'[l] = Projection(l)']_vars

\* The checks of finalize_projection on text and vector never fail: a worker that
\* finds his revision unchanged has in hand the text to be projected.
NeverEmptyHanded ==
    \A w \in Workers, l \in Listings :
        At(w, l, "ready") /\ listing[l].status # "purged" /\ IsCurrent(w, l) => HasText(w, l)

\* No change is forgotten: once a listing stops changing, its job does not
\* stay open for ever; it completes or is put before an operator.
EverySettles ==
    \A l \in Listings : []<>(job[l].status \in {"completed", "dead_lettered"})
=============================================================================
