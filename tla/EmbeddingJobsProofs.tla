------------------------- MODULE EmbeddingJobsProofs -------------------------
(***************************************************************************)
(* Theorems about EmbeddingJobs, for every set of listings and workers.    *)
(*                                                                         *)
(* The inductive invariant rests on the revision.  The job wants the       *)
(* newest one (Newest), and no worker has a newer one in hand (Behind); so *)
(* every change of a listing puts all that workers hold about it out of    *)
(* date, and what a worker holds under the current revision is current:    *)
(* the text he read (Reads) and the document he leaves (Leaves).           *)
(***************************************************************************)
EXTENDS EmbeddingJobs, TLAPS

\* The job of a listing wants its newest revision; the purge counts as one.
Newest ==
    \A l \in Listings :
        job[l].desired = IF listing[l].status = "purged" THEN listing[l].revision + 1
                         ELSE listing[l].revision

\* Nothing in hand, and no document, is ahead of the listing.
Behind ==
    /\ \A w \in Workers, l \in Listings : work[w][l].revision <= job[l].desired
    /\ \A l \in Listings : document[l].revision <= listing[l].revision

\* What was read for the current revision still is so.
Reads ==
    \A w \in Workers, l \in Listings :
        listing[l].status # "purged" /\ IsCurrent(w, l) =>
            /\ At(w, l, "read") => listing[l].status = "active" /\ work[w][l].text = listing[l].text
            /\ At(w, l, "embedding") => Visible(l) /\ work[w][l].text = listing[l].text
            /\ At(w, l, "ready") => HasText(w, l)

\* A projection made for the revision wanted is the one in the table.
Leaves ==
    \A w \in Workers, l \in Listings :
        At(w, l, "done") /\ IsWanted(w, l) => document[l] = Projection(l)

\* A job that can still be tried has an attempt left.
Spare == \A l \in Listings : job[l].status # "dead_lettered" => job[l].attempts < MaxAttempts

IInv == TypeOK /\ Newest /\ Behind /\ Reads /\ Leaves /\ Spare /\ CompletedIsCurrent

USE WorkerAssumption, LimitAssumption, RevAssumption

-----------------------------------------------------------------------------
(* Changes of a listing. *)

\* The trigger's request, for a revision newer than any.
LEMMA MergedJob ==
    ASSUME IInv, NEW l \in Listings, NEW revision \in Nat \ {0}, job[l].desired < revision
    PROVE  /\ Merged(l, revision) \in Job
           /\ Merged(l, revision).desired = revision
           /\ Merged(l, revision).status \in {"pending", "processing"}
           /\ Merged(l, revision).attempts < MaxAttempts
<1>1. job[l] \in Job /\ job[l].desired \in Nat
  BY DEF IInv, TypeOK, Job
<1>2. job[l].status = "processing" => job[l].attempts < MaxAttempts
  BY DEF IInv, Spare
<1> DEFINE newest == IF revision > job[l].desired THEN revision ELSE job[l].desired
<1>3. newest = revision
  BY <1>1
<1>4. CASE job[l].status = "processing"
  <2>1. Merged(l, revision) = [job[l] EXCEPT !.desired = revision]
    BY <1>3, <1>4 DEF Merged
  <2> QED BY <1>1, <1>2, <1>4, <2>1 DEF Job
<1>5. CASE job[l].status # "processing"
  <2>1. Merged(l, revision) = Requested(revision)
    BY <1>3, <1>5 DEF Merged
  <2> QED BY <2>1 DEF Requested, Job
<1> QED BY <1>4, <1>5

\* A new version of a listing, under a revision that nobody has in hand: what
\* is held about it is out of date, and what is held about others is not.
LEMMA NewVersion ==
    ASSUME IInv, NEW l \in Listings, NEW new \in Listing, NEW revision \in Nat \ {0},
           job[l].desired < revision,
           revision = IF new.status = "purged" THEN new.revision + 1 ELSE new.revision,
           listing[l].revision <= new.revision,
           listing' = [listing EXCEPT ![l] = new],
           job' = [job EXCEPT ![l] = Merged(l, revision)],
           \/ document' = document
           \/ document' = [document EXCEPT ![l] = NoDocument],
           UNCHANGED work
    PROVE  IInv'
<1>1. TypeOK
  BY DEF IInv
<1>2. /\ listing'[l] = new
      /\ \A k \in Listings : k # l => /\ listing'[k] = listing[k] /\ job'[k] = job[k]
                                      /\ document'[k] = document[k]
  BY <1>1 DEF TypeOK
<1>3. /\ job'[l] \in Job /\ job'[l].desired = revision
      /\ job'[l].status \in {"pending", "processing"} /\ job'[l].attempts < MaxAttempts
  BY MergedJob, <1>1 DEF TypeOK
<1>4. document'[l].revision <= document[l].revision /\ document' \in [Listings -> Document]
  <2>1. document[l] \in Document /\ NoDocument \in Document /\ NoDocument.revision = 0
    BY <1>1 DEF TypeOK, Document, NoDocument
  <2>2. document'[l] \in {document[l], NoDocument} /\ document' \in [Listings -> Document]
    BY <1>1, <2>1 DEF TypeOK
  <2>3. document[l].revision \in Nat
    BY <2>1 DEF Document
  <2> QED BY <2>1, <2>2, <2>3
<1>5. TypeOK'
  BY <1>1, <1>3, <1>4 DEF TypeOK
<1>6. Newest'
  BY <1>2, <1>3 DEF Newest, IInv
<1>7. Behind'
  <2>1. \A w \in Workers : work'[w][l].revision <= job'[l].desired
    <3> TAKE w \in Workers
    <3>1. work[w][l].revision \in Nat /\ work[w][l].revision <= job[l].desired
              /\ job[l].desired \in Nat
      BY <1>1 DEF TypeOK, Task, Job, IInv, Behind
    <3> QED BY <3>1, <1>3
  <2>2. document'[l].revision <= listing'[l].revision
    <3>1. document[l].revision <= listing[l].revision
      BY DEF IInv, Behind
    <3>2. document[l].revision \in Nat /\ document'[l].revision \in Nat
          /\ listing[l].revision \in Nat /\ new.revision \in Nat
      BY <1>1, <1>4 DEF TypeOK, Document, Listing
    <3> QED BY <3>1, <3>2, <1>2, <1>4
  <2> QED BY <1>2, <2>1, <2>2 DEF IInv, Behind
<1>8. \A w \in Workers : work[w][l].revision < revision
  <2> TAKE w \in Workers
  <2>1. work[w][l].revision \in Nat /\ work[w][l].revision <= job[l].desired
            /\ job[l].desired \in Nat
    BY <1>1 DEF TypeOK, Task, Job, IInv, Behind
  <2> QED BY <2>1
<1>9. Reads'
  <2> SUFFICES ASSUME NEW w \in Workers, NEW k \in Listings,
                      listing'[k].status # "purged", IsCurrent(w, k)'
               PROVE  /\ At(w, k, "read")' => listing'[k].status = "active"
                                              /\ work'[w][k].text = listing'[k].text
                      /\ At(w, k, "embedding")' => Visible(k)' /\ work'[w][k].text = listing'[k].text
                      /\ At(w, k, "ready")' => HasText(w, k)'
    BY DEF Reads
  <2>1. k # l
    <3> SUFFICES ASSUME k = l PROVE FALSE OBVIOUS
    <3>1. work[w][l].revision = new.revision /\ new.status # "purged"
      BY <1>2 DEF IsCurrent
    <3>2. work[w][l].revision < revision /\ work[w][l].revision \in Nat
      BY <1>8, <1>1 DEF TypeOK, Task
    <3> QED BY <3>1, <3>2
  <2>2. listing'[k] = listing[k]
    BY <2>1, <1>2
  <2> QED BY <2>2 DEF IInv, Reads, IsCurrent, At, Visible, HasText
<1>10. Leaves'
  <2> SUFFICES ASSUME NEW w \in Workers, NEW k \in Listings, At(w, k, "done")', IsWanted(w, k)'
               PROVE  document'[k] = Projection(k)'
    BY DEF Leaves
  <2>1. k # l
    <3> SUFFICES ASSUME k = l PROVE FALSE OBVIOUS
    <3>1. work[w][l].revision = revision
      BY <1>3 DEF IsWanted
    <3>2. work[w][l].revision < revision /\ work[w][l].revision \in Nat
      BY <1>8, <1>1 DEF TypeOK, Task
    <3> QED BY <3>1, <3>2
  <2> QED BY <2>1, <1>2 DEF IInv, Leaves, At, IsWanted, Projection, Visible
<1>11. Spare' /\ CompletedIsCurrent'
  BY <1>2, <1>3 DEF IInv, Spare, CompletedIsCurrent, Projection, Visible
<1> QED BY <1>5, <1>6, <1>7, <1>9, <1>10, <1>11 DEF IInv

\* An update of a row advances its revision.
LEMMA ChangeKeeps ==
    ASSUME IInv, NEW l \in Listings, NEW new \in Listing, new.status # "purged",
           Change(l, new),
           \/ document' = document
           \/ document' = [document EXCEPT ![l] = NoDocument],
           UNCHANGED work
    PROVE  IInv'
<1> DEFINE revision == listing[l].revision + 1
           row      == [new EXCEPT !.revision = revision]
<1>1. listing[l] \in Listing /\ listing[l].revision \in Nat \ {0} /\ revision \in Nat \ {0}
  BY DEF IInv, TypeOK, Listing
<1>2. job[l].desired = listing[l].revision /\ job[l].desired < revision
  BY <1>1 DEF Change, IInv, Newest
<1>3. row \in Listing /\ row.revision = revision /\ row.status = new.status
  BY <1>1 DEF Listing
<1>4. listing' = [listing EXCEPT ![l] = row] /\ job' = [job EXCEPT ![l] = Merged(l, revision)]
  BY <1>1 DEF Change, Advanced
<1>5. listing[l].revision <= row.revision
  BY <1>1, <1>3
<1> HIDE DEF revision, row
<1>6. revision = IF row.status = "purged" THEN row.revision + 1 ELSE row.revision
  BY <1>3
<1> QED BY <1>1, <1>2, <1>3, <1>4, <1>5, <1>6, NewVersion

LEMMA PurgeKeeps ==
    ASSUME IInv, NEW l \in Listings, Purge(l)
    PROVE  IInv'
<1> DEFINE new == [listing[l] EXCEPT !.status = "purged"]
           revision == listing[l].revision + 1
<1>1. listing[l] \in Listing /\ listing[l].revision \in Nat \ {0} /\ revision \in Nat \ {0}
  BY DEF IInv, TypeOK, Listing
<1>2. job[l].desired = listing[l].revision /\ job[l].desired < revision
  BY <1>1 DEF Purge, IInv, Newest
<1>3. new \in Listing /\ new.status = "purged" /\ new.revision = listing[l].revision
  BY <1>1 DEF Listing
<1>4. listing' = [listing EXCEPT ![l] = new] /\ job' = [job EXCEPT ![l] = Merged(l, revision)]
      /\ document' = document /\ UNCHANGED work
  BY DEF Purge
<1>5. revision = IF new.status = "purged" THEN new.revision + 1 ELSE new.revision
  BY <1>3
<1>6. listing[l].revision <= new.revision
  BY <1>1, <1>3
<1> HIDE DEF revision, new
<1> QED BY <1>1, <1>2, <1>3, <1>4, <1>5, <1>6, NewVersion

-----------------------------------------------------------------------------
(* Steps of the job alone, and of a worker with the job. *)

\* Nothing but the job's bookkeeping: it is `completed` only if it was, or if
\* the worker that settles it leaves the projection wanted.
LEMMA JobKeeps ==
    ASSUME IInv, UNCHANGED <<listing, document>>,
           job' \in [Listings -> Job], work' \in [Workers -> [Listings -> Task]],
           \A l \in Listings :
               /\ job'[l].desired = job[l].desired
               /\ job'[l].status # "dead_lettered" => job'[l].attempts < MaxAttempts
               /\ job'[l].status = "completed" =>
                      job[l].status = "completed" \/ document[l] = Projection(l),
           \A w \in Workers, l \in Listings :
               \/ work'[w][l] = work[w][l]
               \/ work'[w][l] = Idle
               \/ work'[w][l] = [stage |-> "claimed", revision |-> job[l].desired, text |-> 0]
    PROVE  IInv'
<1>1. TypeOK' /\ Newest' /\ Spare'
  BY DEF IInv, TypeOK, Newest, Spare
<1>2. \A l \in Listings : job[l].desired \in Nat
  BY DEF IInv, TypeOK, Job
<1>4. \A w \in Workers, l \in Listings :
          \/ work'[w][l] = work[w][l]
          \/ work'[w][l].stage = "idle" /\ work'[w][l].revision = 0
          \/ work'[w][l].stage = "claimed" /\ work'[w][l].revision = job[l].desired
  <2> TAKE w \in Workers, l \in Listings
  <2>1. CASE work'[w][l] = work[w][l]
    BY <2>1
  <2>2. CASE work'[w][l] = Idle
    BY <2>2 DEF Idle
  <2>3. CASE work'[w][l] = [stage |-> "claimed", revision |-> job[l].desired, text |-> 0]
    BY <2>3
  <2> QED BY <2>1, <2>2, <2>3
<1>3. Behind'
  <2> SUFFICES ASSUME NEW w \in Workers, NEW l \in Listings
               PROVE  work'[w][l].revision <= job'[l].desired
    BY DEF IInv, Behind
  <2>1. work[w][l].revision <= job[l].desired
    BY DEF IInv, Behind
  <2>2. work'[w][l].revision \in {work[w][l].revision, 0, job[l].desired}
    BY <1>4
  <2> QED BY <1>2, <2>1, <2>2
<1>5. Reads'
  <2> SUFFICES ASSUME NEW w \in Workers, NEW l \in Listings,
                      listing[l].status # "purged", IsCurrent(w, l)'
               PROVE  /\ At(w, l, "read")' => listing[l].status = "active"
                                              /\ work'[w][l].text = listing[l].text
                      /\ At(w, l, "embedding")' => Visible(l) /\ work'[w][l].text = listing[l].text
                      /\ At(w, l, "ready")' => HasText(w, l)'
    BY DEF Reads, Visible
  <2>1. CASE work'[w][l] = work[w][l]
    BY <2>1 DEF IInv, Reads, At, IsCurrent, HasText, Visible
  <2>2. CASE work'[w][l].stage \in {"idle", "claimed"}
    BY <2>2 DEF At
  <2> QED BY <1>4, <2>1, <2>2
<1>6. Leaves'
  <2> SUFFICES ASSUME NEW w \in Workers, NEW l \in Listings, At(w, l, "done")', IsWanted(w, l)'
               PROVE  document[l] = Projection(l)
    BY DEF Leaves, Projection, Visible
  <2>1. CASE work'[w][l] = work[w][l]
    BY <2>1 DEF IInv, Leaves, At, IsWanted
  <2>2. CASE work'[w][l].stage \in {"idle", "claimed"}
    BY <2>2 DEF At
  <2> QED BY <1>4, <2>1, <2>2
<1>7. CompletedIsCurrent'
  BY DEF IInv, CompletedIsCurrent, Projection, Visible
<1> QED BY <1>1, <1>3, <1>5, <1>6, <1>7 DEF IInv

LEMMA ClaimKeeps ==
    ASSUME IInv, NEW w \in Workers, NEW batch \in SUBSET Listings, Claim(w, batch)
    PROVE  IInv'
<1>1. \A l \in Listings : job[l] \in Job
  BY DEF IInv, TypeOK
<1>2. \A l \in batch : job[l].status \in {"pending", "processing"}
  BY DEF Claim, Claimable
<1>3. \A l \in Listings :
          /\ job'[l] \in Job
          /\ job'[l].desired = job[l].desired
          /\ job'[l].attempts = job[l].attempts
          /\ l \in batch => job'[l].status = "processing"
          /\ l \notin batch => job'[l].status = job[l].status
  <2> SUFFICES ASSUME NEW l \in Listings
               PROVE  /\ job'[l] \in Job
                      /\ job'[l].desired = job[l].desired
                      /\ job'[l].attempts = job[l].attempts
                      /\ l \in batch => job'[l].status = "processing"
                      /\ l \notin batch => job'[l].status = job[l].status
    OBVIOUS
  <2>1. job'[l] = IF l \in batch
                  THEN [job[l] EXCEPT !.status = "processing", !.owner = w, !.leased = TRUE]
                  ELSE job[l]
    BY DEF Claim
  <2>2. CASE l \in batch
    <3>1. job'[l] = [job[l] EXCEPT !.status = "processing", !.owner = w, !.leased = TRUE]
      BY <2>1, <2>2
    <3>2. job[l] \in Job
      BY <1>1
    <3>3. w \in Workers \cup {"nobody", "gone"}
      OBVIOUS
    <3>4. /\ job'[l].desired = job[l].desired
          /\ job'[l].attempts = job[l].attempts
          /\ job'[l].status = "processing"
      BY <3>1, <3>2 DEF Job
    <3>5. job'[l] \in Job
      BY <3>1, <3>2, <3>3 DEF Job
    <3> QED BY <2>2, <3>4, <3>5
  <2>3. CASE l \notin batch
    BY <1>1, <2>1, <2>3
  <2> QED BY <2>2, <2>3
<1>4. job' \in [Listings -> Job]
  BY <1>3 DEF Claim
<1> DEFINE fresh == [l \in Listings |->
               IF l \in batch
               THEN [stage |-> "claimed", revision |-> job[l].desired, text |-> 0] ELSE Idle]
<1>5. fresh \in [Listings -> Task]
  BY <1>1 DEF Task, Idle, Job
<1>6. work' = [work EXCEPT ![w] = fresh]
  BY DEF Claim
<1>7. work' \in [Workers -> [Listings -> Task]]
  BY <1>5, <1>6 DEF IInv, TypeOK
<1>8. \A v \in Workers, l \in Listings :
          \/ work'[v][l] = work[v][l]
          \/ work'[v][l] = Idle
          \/ work'[v][l] = [stage |-> "claimed", revision |-> job[l].desired, text |-> 0]
  BY <1>6 DEF IInv, TypeOK
<1>9. \A l \in Listings :
          /\ job'[l].desired = job[l].desired
          /\ job'[l].status # "dead_lettered" => job'[l].attempts < MaxAttempts
          /\ job'[l].status = "completed" => job[l].status = "completed"
  BY <1>2, <1>3 DEF IInv, Spare
<1>10. UNCHANGED <<listing, document>>
  BY DEF Claim
<1> HIDE DEF fresh
<1> QED BY <1>4, <1>7, <1>8, <1>9, <1>10, JobKeeps

\* Settling a job, or finding it taken.
LEMMA SettleKeeps ==
    ASSUME IInv, NEW w \in Workers, NEW l \in Listings,
           NEW status \in {"pending", "completed", "dead_lettered"},
           NEW attempts \in 0..MaxAttempts, NEW due \in BOOLEAN,
           status = "completed" => document[l] = Projection(l),
           status # "dead_lettered" => attempts < MaxAttempts,
           job' \in {job, Settled(l, status, attempts, due)},
           work' = [work EXCEPT ![w][l] = Idle],
           UNCHANGED <<listing, document>>
    PROVE  IInv'
<1> DEFINE new == [status |-> status, desired |-> job[l].desired, attempts |-> attempts,
                   due |-> due, owner |-> "nobody", leased |-> FALSE]
<1>1. job[l] \in Job /\ job \in [Listings -> Job]
  BY DEF IInv, TypeOK
<1>2. new \in Job /\ new.desired = job[l].desired /\ new.status = status /\ new.attempts = attempts
  BY <1>1 DEF Job
<1>3. Settled(l, status, attempts, due) = [job EXCEPT ![l] = new]
  BY DEF Settled
<1> HIDE DEF new
<1>4. job' \in [Listings -> Job]
      /\ \A k \in Listings : job'[k] = job[k] \/ (k = l /\ job'[k] = new)
  BY <1>1, <1>2, <1>3
<1>5. \A k \in Listings :
          /\ job'[k].desired = job[k].desired
          /\ job'[k].status # "dead_lettered" => job'[k].attempts < MaxAttempts
          /\ job'[k].status = "completed" =>
                 job[k].status = "completed" \/ document[k] = Projection(k)
  BY <1>2, <1>4 DEF IInv, Spare
<1>6. work' \in [Workers -> [Listings -> Task]]
      /\ \A v \in Workers, k \in Listings : work'[v][k] \in {work[v][k], Idle}
  BY DEF IInv, TypeOK, Task, Idle
<1> QED BY <1>4, <1>5, <1>6, JobKeeps

\* A step of a worker that leaves the tables alone.
LEMMA PutKeeps ==
    ASSUME IInv, NEW w \in Workers, NEW l \in Listings, NEW text \in Nat,
           NEW stage \in {"read", "embedding", "ready", "done", "failed"},
           Put(w, l, stage, text),
           UNCHANGED <<listing, job, document>>,
           listing[l].status # "purged" /\ IsCurrent(w, l) =>
               /\ stage = "read" => listing[l].status = "active" /\ text = listing[l].text
               /\ stage = "embedding" => Visible(l) /\ text = listing[l].text
               /\ stage = "ready" => (Visible(l) => text = listing[l].text),
           stage = "done" /\ IsWanted(w, l) => document[l] = Projection(l)
    PROVE  IInv'
<1>1. /\ work' \in [Workers -> [Listings -> Task]]
      /\ work'[w][l].stage = stage /\ work'[w][l].text = text
      /\ work'[w][l].revision = work[w][l].revision
      /\ \A v \in Workers, k \in Listings : <<v, k>> # <<w, l>> => work'[v][k] = work[v][k]
  <2>1. work \in [Workers -> [Listings -> Task]] /\ work[w][l] \in Task
    BY DEF IInv, TypeOK
  <2> DEFINE new == [stage |-> stage, revision |-> work[w][l].revision, text |-> text]
  <2>2. new \in Task /\ new.stage = stage /\ new.text = text
        /\ new.revision = work[w][l].revision
    BY <2>1 DEF Task
  <2>3. work' = [work EXCEPT ![w][l] = new]
    BY <2>1 DEF Put
  <2> HIDE DEF new
  <2> QED BY <2>1, <2>2, <2>3
<1>2. TypeOK' /\ Newest' /\ Spare' /\ CompletedIsCurrent'
  BY <1>1 DEF IInv, TypeOK, Newest, Spare, CompletedIsCurrent, Projection, Visible
<1>3. Behind'
  BY <1>1 DEF IInv, Behind
<1>4. Reads'
  <2> SUFFICES ASSUME NEW v \in Workers, NEW k \in Listings,
                      listing[k].status # "purged", IsCurrent(v, k)'
               PROVE  /\ At(v, k, "read")' => listing[k].status = "active"
                                              /\ work'[v][k].text = listing[k].text
                      /\ At(v, k, "embedding")' => Visible(k) /\ work'[v][k].text = listing[k].text
                      /\ At(v, k, "ready")' => HasText(v, k)'
    BY DEF Reads, Visible
  <2>1. CASE <<v, k>> # <<w, l>>
    BY <1>1, <2>1 DEF IInv, Reads, At, IsCurrent, HasText, Visible
  <2>2. CASE v = w /\ k = l
    <3>1. IsCurrent(w, l)
      BY <1>1, <2>2 DEF IsCurrent
    <3> QED BY <1>1, <2>2, <3>1 DEF At, HasText, Visible
  <2> QED BY <2>1, <2>2
<1>5. Leaves'
  <2> SUFFICES ASSUME NEW v \in Workers, NEW k \in Listings, At(v, k, "done")', IsWanted(v, k)'
               PROVE  document[k] = Projection(k)
    BY DEF Leaves, Projection, Visible
  <2>1. CASE <<v, k>> # <<w, l>>
    BY <1>1, <2>1 DEF IInv, Leaves, At, IsWanted
  <2>2. CASE v = w /\ k = l
    BY <1>1, <2>2 DEF At, IsWanted
  <2> QED BY <2>1, <2>2
<1> QED BY <1>2, <1>3, <1>4, <1>5 DEF IInv

\* What finalize_projection writes is what the listing calls for.
LEMMA FinalizeWrites ==
    ASSUME IInv, NEW w \in Workers, NEW l \in Listings, Finalize(w, l)
    PROVE  /\ document' \in [Listings -> Document]
           /\ \A k \in Listings : k # l => document'[k] = document[k]
           /\ \/ document'[l] = document[l] /\ Verdict(w, l) \in {"leave", "refuse"}
              \/ document'[l] = Projection(l) /\ Verdict(w, l) \in {"remove", "write"}
<1>1. document \in [Listings -> Document] /\ document[l] \in Document /\ NoDocument \in Document
      /\ listing[l] \in Listing /\ work[w][l] \in Task
  BY DEF IInv, TypeOK, Document, NoDocument
<1> DEFINE new == [revision |-> listing[l].revision, text |-> work[w][l].text]
           left == CASE Verdict(w, l) = "remove" -> NoDocument
                     [] Verdict(w, l) = "write"  -> Upserted(l, new)
                     [] Verdict(w, l) \in {"leave", "refuse"} -> document[l]
<1>2. document' = [document EXCEPT ![l] = left]
  BY <1>1 DEF Finalize
<1>3. Verdict(w, l) \in {"remove", "write", "leave", "refuse"}
  BY DEF Verdict
<1>4. CASE Verdict(w, l) \in {"leave", "refuse"}
  <2>1. left = document[l]
    BY <1>4
  <2> QED BY <1>1, <1>2, <1>4, <2>1
<1>5. CASE Verdict(w, l) = "remove"
  <2>1. left = NoDocument
    BY <1>5
  <2>2. ~Visible(l)
    <3>1. CASE listing[l].status = "purged"
      BY <3>1 DEF Visible
    <3>2. CASE listing[l].status # "purged"
      BY <1>5, <3>2 DEF Verdict
    <3> QED BY <3>1, <3>2
  <2> QED BY <1>1, <1>2, <1>5, <2>1, <2>2 DEF Projection
<1>6. CASE Verdict(w, l) = "write"
  <2>1. left = Upserted(l, new)
    BY <1>6
  <2>2. Visible(l) /\ HasText(w, l)
    <3>1. listing[l].status # "purged" /\ IsCurrent(w, l)
      BY <1>6 DEF Verdict
    <3> QED BY <1>6, <3>1 DEF Verdict
  <2>3. new = Projection(l)
    BY <2>2 DEF HasText, Projection
  <2>4. new \in Document /\ new.revision = listing[l].revision
    BY <1>1 DEF Document, Listing, Task
  <2>5. document[l].revision <= listing[l].revision
    BY DEF IInv, Behind
  <2>6. left = new
    BY <2>1, <2>4, <2>5 DEF Upserted
  <2> QED BY <1>1, <1>2, <1>6, <2>3, <2>4, <2>6
<1> QED BY <1>3, <1>4, <1>5, <1>6

LEMMA FinalizeKeeps ==
    ASSUME IInv, NEW w \in Workers, NEW l \in Listings, Finalize(w, l)
    PROVE  IInv'
<1> DEFINE stage == IF Verdict(w, l) = "refuse" THEN "failed" ELSE "done"
<1>1. /\ work' \in [Workers -> [Listings -> Task]]
      /\ work'[w][l].stage = stage /\ work'[w][l].revision = work[w][l].revision
      /\ \A v \in Workers, k \in Listings : <<v, k>> # <<w, l>> => work'[v][k] = work[v][k]
  <2>1. work \in [Workers -> [Listings -> Task]] /\ work[w][l] \in Task
    BY DEF IInv, TypeOK
  <2> DEFINE new == [stage |-> stage, revision |-> work[w][l].revision, text |-> 0]
  <2>2. new \in Task /\ new.stage = stage /\ new.revision = work[w][l].revision
    BY <2>1 DEF Task
  <2>3. work' = [work EXCEPT ![w][l] = new]
    BY <2>1 DEF Finalize, Put
  <2> HIDE DEF new
  <2> QED BY <2>1, <2>2, <2>3
<1>2. UNCHANGED <<listing, job>>
  BY DEF Finalize
<1>3. listing \in [Listings -> Listing] /\ job \in [Listings -> Job]
      /\ document \in [Listings -> Document]
  BY DEF IInv, TypeOK
<1>4. TypeOK' /\ Newest' /\ Spare'
  BY <1>1, <1>2, <1>3, FinalizeWrites DEF TypeOK, Newest, Spare, IInv
<1>5. \A k \in Listings : document'[k] \in {document[k], Projection(k)}
  BY FinalizeWrites
<1>6. Behind'
  <2>1. \A v \in Workers, k \in Listings : work'[v][k].revision = work[v][k].revision
    BY <1>1
  <2>2. ASSUME NEW k \in Listings
        PROVE  document'[k].revision <= listing[k].revision
    <3>1. document[k].revision <= listing[k].revision
      BY DEF IInv, Behind
    <3>2. Projection(k).revision \in {listing[k].revision, 0} /\ listing[k].revision \in Nat
      BY <1>3 DEF Projection, NoDocument, Listing
    <3> QED BY <1>5, <3>1, <3>2
  <2> QED BY <1>2, <2>1, <2>2 DEF IInv, Behind
<1>7. Reads'
  BY <1>1, <1>2 DEF IInv, Reads, At, IsCurrent, HasText, Visible
<1>8. Leaves'
  <2> SUFFICES ASSUME NEW v \in Workers, NEW k \in Listings, At(v, k, "done")', IsWanted(v, k)'
               PROVE  document'[k] = Projection(k)
    BY <1>2 DEF Leaves, Projection, Visible
  <2>1. CASE <<v, k>> # <<w, l>>
    <3>1. document[k] = Projection(k)
      BY <1>1, <1>2, <2>1 DEF IInv, Leaves, At, IsWanted
    <3> QED BY <1>5, <3>1
  <2>2. CASE v = w /\ k = l
    <3>1. Verdict(w, l) # "refuse"
      BY <1>1, <2>2 DEF At
    <3>2. Verdict(w, l) # "leave"
      <4> SUFFICES ASSUME listing[l].status # "purged", ~IsCurrent(w, l) PROVE FALSE
        BY DEF Verdict
      <4>1. job[l].desired = listing[l].revision
        BY DEF IInv, Newest
      <4>2. job[l].desired = work[w][l].revision
        BY <1>1, <1>2, <2>2 DEF IsWanted
      <4> QED BY <4>1, <4>2 DEF IsCurrent
    <3> QED BY <2>2, <3>1, <3>2, FinalizeWrites
  <2> QED BY <2>1, <2>2
<1>9. CompletedIsCurrent'
  BY <1>2, <1>5 DEF IInv, CompletedIsCurrent, Projection, Visible
<1> QED BY <1>4, <1>6, <1>7, <1>8, <1>9 DEF IInv

LEMMA MarkKeeps ==
    ASSUME IInv, NEW w \in Workers, NEW l \in Listings,
           MarkSucceeded(w, l) \/ MarkFailed(w, l)
    PROVE  IInv'
<1>1. job[l] \in Job /\ job[l].attempts \in 0..MaxAttempts
  BY DEF IInv, TypeOK, Job
<1>2. work' = [work EXCEPT ![w][l] = Idle] /\ UNCHANGED <<listing, document>>
  BY DEF MarkSucceeded, MarkFailed
<1>3. Leases(w, l) => job[l].attempts < MaxAttempts
  BY DEF Leases, IInv, Spare
<1>4. 0 \in 0..MaxAttempts /\ 0 < MaxAttempts
  OBVIOUS
<1>5. CASE ~Leases(w, l)
  <2>1. job' = job
    BY <1>5 DEF MarkSucceeded, MarkFailed
  <2> QED BY <1>2, <1>4, <2>1, SettleKeeps
<1>6. CASE Leases(w, l) /\ ~IsWanted(w, l)
  <2>1. job' = Settled(l, "pending", 0, TRUE)
    BY <1>6 DEF MarkSucceeded, MarkFailed
  <2> QED BY <1>2, <1>4, <2>1, SettleKeeps
<1>7. CASE MarkSucceeded(w, l) /\ Leases(w, l) /\ IsWanted(w, l)
  <2>1. job' = Settled(l, "completed", job[l].attempts, TRUE)
    BY <1>7 DEF MarkSucceeded
  <2>2. document[l] = Projection(l)
    BY <1>7 DEF MarkSucceeded, IInv, Leaves
  <2> QED BY <1>1, <1>2, <1>3, <1>7, <2>1, <2>2, SettleKeeps
<1>8. CASE MarkFailed(w, l) /\ Leases(w, l) /\ IsWanted(w, l)
  <2> DEFINE n == job[l].attempts + 1
  <2>1. n \in 0..MaxAttempts
    BY <1>1, <1>3, <1>8
  <2>2. CASE Exhausted(n)
    <3>1. job' = Settled(l, "dead_lettered", n, TRUE)
      BY <1>8, <2>2 DEF MarkFailed
    <3> HIDE DEF n
    <3> QED BY <1>2, <2>1, <3>1, SettleKeeps
  <2>3. CASE ~Exhausted(n)
    <3>1. job' = Settled(l, "pending", n, FALSE)
      BY <1>8, <2>3 DEF MarkFailed
    <3>2. n < MaxAttempts
      BY <2>1, <2>3 DEF Exhausted
    <3> HIDE DEF n
    <3> QED BY <1>2, <2>1, <3>1, <3>2, SettleKeeps
  <2> QED BY <2>2, <2>3
<1> QED BY <1>5, <1>6, <1>7, <1>8

LEMMA StepKeeps ==
    ASSUME IInv, NEW w \in Workers, NEW l \in Listings, Step(w, l)
    PROVE  IInv'
<1>1. work[w][l] \in Task /\ work[w][l].text \in Nat /\ listing[l] \in Listing
      /\ listing[l].text \in Nat /\ 0 \in Nat
  BY DEF IInv, TypeOK, Task, Listing
<1>2. CASE ReadRow(w, l)
  <2>1. CASE listing[l].status = "active"
    <3>1. Put(w, l, "read", listing[l].text) /\ UNCHANGED <<listing, job, document>>
      BY <1>2, <2>1 DEF ReadRow
    <3> QED BY <1>1, <2>1, <3>1, PutKeeps
  <2>2. CASE listing[l].status # "active"
    <3>1. Put(w, l, "ready", 0) /\ UNCHANGED <<listing, job, document>>
      BY <1>2, <2>2 DEF ReadRow
    <3>2. ~Visible(l)
      BY <2>2 DEF Visible
    <3> QED BY <1>1, <3>1, <3>2, PutKeeps
  <2> QED BY <2>1, <2>2
<1>3. CASE ReadRestriction(w, l)
  <2>1. CASE listing[l].restricted
    <3>1. Put(w, l, "ready", 0) /\ UNCHANGED <<listing, job, document>>
      BY <1>3, <2>1 DEF ReadRestriction
    <3>2. ~Visible(l)
      BY <2>1 DEF Visible
    <3> QED BY <1>1, <3>1, <3>2, PutKeeps
  <2>2. CASE ~listing[l].restricted
    <3>1. Put(w, l, "embedding", work[w][l].text) /\ UNCHANGED <<listing, job, document>>
      BY <1>3, <2>2 DEF ReadRestriction
    <3>2. listing[l].status # "purged" /\ IsCurrent(w, l) =>
              Visible(l) /\ work[w][l].text = listing[l].text
      BY <1>3, <2>2 DEF ReadRestriction, IInv, Reads, Visible
    <3> QED BY <1>1, <3>1, <3>2, PutKeeps
  <2> QED BY <2>1, <2>2
<1>4. CASE Embed(w, l)
  <2>1. Put(w, l, "ready", work[w][l].text) /\ UNCHANGED <<listing, job, document>>
    BY <1>4 DEF Embed
  <2>2. listing[l].status # "purged" /\ IsCurrent(w, l) => work[w][l].text = listing[l].text
    BY <1>4 DEF Embed, IInv, Reads
  <2> QED BY <1>1, <2>1, <2>2, PutKeeps
<1>5. CASE Fail(w, l)
  <2>1. Put(w, l, "failed", 0) /\ UNCHANGED <<listing, job, document>>
    BY <1>5 DEF Fail
  <2> QED BY <1>1, <2>1, PutKeeps
<1>6. CASE LoseMark(w, l)
  <2>1. job' = job /\ work' = [work EXCEPT ![w][l] = Idle] /\ UNCHANGED <<listing, document>>
    BY <1>6 DEF LoseMark
  <2>2. 0 \in 0..MaxAttempts /\ 0 < MaxAttempts
    OBVIOUS
  <2>3. job' \in {job, Settled(l, "pending", 0, TRUE)}
    BY <2>1
  <2> QED BY <2>1, <2>2, <2>3, SettleKeeps
<1> QED BY <1>2, <1>3, <1>4, <1>5, <1>6, FinalizeKeeps, MarkKeeps DEF Step

LEMMA CrashKeeps ==
    ASSUME IInv, NEW w \in Workers, Crash(w)
    PROVE  IInv'
<1>1. job \in [Listings -> Job] /\ work \in [Workers -> [Listings -> Task]]
  BY DEF IInv, TypeOK
<1>2. \A l \in Listings :
          job'[l] \in Job /\ job'[l].desired = job[l].desired
          /\ job'[l].status = job[l].status /\ job'[l].attempts = job[l].attempts
  <2> TAKE l \in Listings
  <2>1. job'[l] = IF job[l].owner = w THEN [job[l] EXCEPT !.owner = "gone"] ELSE job[l]
    BY DEF Crash
  <2>2. CASE job[l].owner = w
    BY <1>1, <2>1, <2>2 DEF Job
  <2>3. CASE job[l].owner # w
    BY <1>1, <2>1, <2>3
  <2> QED BY <2>2, <2>3
<1>3. job' \in [Listings -> Job]
  BY <1>2 DEF Crash
<1>4. Idle \in Task
  BY DEF Idle, Task
<1>5. work' \in [Workers -> [Listings -> Task]]
      /\ \A v \in Workers, l \in Listings : work'[v][l] \in {work[v][l], Idle}
  BY <1>1, <1>4 DEF Crash
<1>6. UNCHANGED <<listing, document>>
  BY DEF Crash
<1>7. \A l \in Listings : job'[l].status # "dead_lettered" => job'[l].attempts < MaxAttempts
  BY <1>2 DEF IInv, Spare
<1> QED BY <1>2, <1>3, <1>5, <1>6, <1>7, JobKeeps

\* Clocks and operators.
LEMMA ClockKeeps ==
    ASSUME IInv, NEW l \in Listings,
           LeaseExpires(l) \/ BackoffEnds(l) \/ ReplayDeadLettered(l)
    PROVE  IInv'
<1>1. job \in [Listings -> Job] /\ job[l] \in Job
  BY DEF IInv, TypeOK
<1>2. UNCHANGED <<listing, document, work>> /\ work \in [Workers -> [Listings -> Task]]
  BY DEF LeaseExpires, BackoffEnds, ReplayDeadLettered, IInv, TypeOK
<1>3. PICK new \in Job : /\ job' = [job EXCEPT ![l] = new]
                         /\ new.desired = job[l].desired
                         /\ \/ new.status = job[l].status /\ new.attempts = job[l].attempts
                            \/ new.status = "pending" /\ new.attempts = 0
  <2>1. CASE LeaseExpires(l)
    <3> DEFINE new == [job[l] EXCEPT !.leased = FALSE]
    <3>1. new \in Job /\ new.desired = job[l].desired /\ new.status = job[l].status
          /\ new.attempts = job[l].attempts
      BY <1>1 DEF Job
    <3>2. job' = [job EXCEPT ![l] = new]
      BY <1>1, <2>1 DEF LeaseExpires
    <3> HIDE DEF new
    <3> QED BY <3>1, <3>2
  <2>2. CASE BackoffEnds(l)
    <3> DEFINE new == [job[l] EXCEPT !.due = TRUE]
    <3>1. new \in Job /\ new.desired = job[l].desired /\ new.status = job[l].status
          /\ new.attempts = job[l].attempts
      BY <1>1 DEF Job
    <3>2. job' = [job EXCEPT ![l] = new]
      BY <1>1, <2>2 DEF BackoffEnds
    <3> HIDE DEF new
    <3> QED BY <3>1, <3>2
  <2>3. CASE ReplayDeadLettered(l)
    <3> DEFINE new == Requested(job[l].desired)
    <3>1. new \in Job /\ new.desired = job[l].desired /\ new.status = "pending"
          /\ new.attempts = 0
      BY <1>1 DEF Requested, Job
    <3>2. job' = [job EXCEPT ![l] = new]
      BY <1>1, <2>3 DEF ReplayDeadLettered
    <3> HIDE DEF new
    <3> QED BY <3>1, <3>2
  <2> QED BY <2>1, <2>2, <2>3
<1>4. job' \in [Listings -> Job]
  BY <1>1, <1>3
<1>5. \A k \in Listings :
          /\ job'[k].desired = job[k].desired
          /\ job'[k].status # "dead_lettered" => job'[k].attempts < MaxAttempts
          /\ job'[k].status = "completed" => job[k].status = "completed"
  BY <1>1, <1>3 DEF IInv, Spare
<1> QED BY <1>2, <1>4, <1>5, JobKeeps

LEMMA ListingKeeps ==
    ASSUME IInv, NEW l \in Listings,
           \/ Edit(l) \/ Restrict(l) \/ UndoCreate(l) \/ Purge(l)
           \/ \E s \in {"active", "inactive"} : SetStatus(l, s)
    PROVE  IInv'
<1>1. listing[l] \in Listing /\ listing[l].revision + 1 \in Nat \ {0}
  BY DEF IInv, TypeOK, Listing
<1>2. CASE Edit(l)
  <2> DEFINE new == [listing[l] EXCEPT !.text = listing[l].revision + 1]
  <2>1. new \in Listing /\ new.status = listing[l].status
    BY <1>1 DEF Listing
  <2>2. Change(l, new) /\ listing[l].status # "purged" /\ UNCHANGED <<document, work>>
    BY <1>2 DEF Edit, Change
  <2> HIDE DEF new
  <2> QED BY <2>1, <2>2, ChangeKeeps
<1>3. CASE Restrict(l)
  <2> DEFINE new == [listing[l] EXCEPT !.restricted = ~@]
  <2>1. new \in Listing /\ new.status = listing[l].status
    BY <1>1 DEF Listing
  <2>2. Change(l, new) /\ listing[l].status # "purged" /\ UNCHANGED <<document, work>>
    BY <1>3 DEF Restrict, Change
  <2> HIDE DEF new
  <2> QED BY <2>1, <2>2, ChangeKeeps
<1>4. CASE UndoCreate(l)
  <2> DEFINE new == [listing[l] EXCEPT !.status = "inactive"]
  <2>1. new \in Listing /\ new.status = "inactive"
    BY <1>1 DEF Listing
  <2>2. Change(l, new) /\ document' = [document EXCEPT ![l] = NoDocument] /\ UNCHANGED work
    BY <1>4 DEF UndoCreate
  <2> HIDE DEF new
  <2> QED BY <2>1, <2>2, ChangeKeeps
<1>5. ASSUME NEW s \in {"active", "inactive"}, SetStatus(l, s) PROVE IInv'
  <2> DEFINE new == [listing[l] EXCEPT !.status = s]
  <2>1. new \in Listing /\ new.status = s
    BY <1>1 DEF Listing
  <2>2. Change(l, new) /\ UNCHANGED <<document, work>>
    BY <1>5 DEF SetStatus
  <2> HIDE DEF new
  <2> QED BY <2>1, <2>2, ChangeKeeps
<1> QED BY <1>2, <1>3, <1>4, <1>5, PurgeKeeps

-----------------------------------------------------------------------------
(* The theorems. *)

\* The invariant holds initially and every action preserves it.
LEMMA Invariance == Spec => []IInv
<1>1. Init => IInv
  <2> SUFFICES ASSUME Init PROVE IInv
    OBVIOUS
  <2>1. \A l \in Listings : Requested(1) \in Job /\ job[l] = Requested(1)
    BY DEF Init, Requested, Job
  <2>2. \A l \in Listings : listing[l] \in Listing /\ listing[l].status # "purged"
                             /\ listing[l].revision = 1
    <3> TAKE l \in Listings
    <3>1. listing[l] \in [status : {"active", "inactive"}, restricted : {FALSE},
                          revision : {1}, text : {1}]
      BY DEF Init
    <3>2. listing[l].status \in {"active", "inactive"} /\ listing[l].restricted = FALSE
          /\ listing[l].revision = 1 /\ listing[l].text = 1
      BY <3>1
    <3>3. listing[l] = [status |-> listing[l].status, restricted |-> FALSE,
                        revision |-> 1, text |-> 1]
      BY <3>1
    <3>4. 1 \in Nat \ {0} /\ FALSE \in BOOLEAN
      OBVIOUS
    <3>5. listing[l] \in Listing
      BY <3>2, <3>3, <3>4, Zenon DEF Listing
    <3> QED BY <3>2, <3>5
  <2>3. \A l \in Listings : document[l] \in Document /\ document[l].revision = 0
    <3>1. NoDocument \in Document /\ NoDocument.revision = 0
      BY DEF Document, NoDocument
    <3>2. Legacy \in Document /\ Legacy.revision = 0
      BY DEF Document, Legacy
    <3>3. \A l \in Listings : document[l] \in {NoDocument, Legacy}
      BY DEF Init
    <3> QED BY <3>1, <3>2, <3>3
  <2>4. \A w \in Workers, l \in Listings : work[w][l] = Idle /\ Idle \in Task
                                           /\ Idle.stage = "idle" /\ Idle.revision = 0
    BY DEF Init, Idle, Task
  <2>5. TypeOK
    BY <2>1, <2>2, <2>3, <2>4 DEF Init, TypeOK
  <2>6. \A l \in Listings : job[l].desired = 1 /\ job[l].status = "pending" /\ job[l].attempts = 0
    BY <2>1 DEF Requested
  <2>7. Newest /\ Behind /\ Spare /\ CompletedIsCurrent
    BY <2>2, <2>3, <2>4, <2>6 DEF Newest, Behind, Spare, CompletedIsCurrent
  <2>8. Reads /\ Leaves
    BY <2>4 DEF Reads, Leaves, At
  <2> QED BY <2>5, <2>7, <2>8 DEF IInv
<1>2. IInv /\ [Next]_vars => IInv'
  <2> SUFFICES ASSUME IInv, [Next]_vars PROVE IInv'
    OBVIOUS
  <2>1. CASE UNCHANGED vars
    <3>1. listing' = listing /\ job' = job /\ document' = document /\ work' = work
      BY <2>1 DEF vars
    <3> QED BY <3>1 DEF IInv, TypeOK, Newest, Behind, Reads, Leaves, Spare, CompletedIsCurrent,
                At, IsCurrent, IsWanted, HasText, Visible, Projection
  <2>2. CASE Next
    BY <2>2, ListingKeeps, ClockKeeps, ClaimKeeps, CrashKeeps, StepKeeps DEF Next
  <2> QED BY <2>1, <2>2
<1> QED BY <1>1, <1>2, PTL DEF Spec

\* Every value stays in its type: no job fails more often than it may.
THEOREM TypeCorrect == Spec => []TypeOK
BY Invariance, PTL DEF IInv

\* A completed job means that the document is what the listing calls for.
THEOREM CompletedMeansCurrent == Spec => []CompletedIsCurrent
BY Invariance, PTL DEF IInv

\* The worker's checks on text and vector never refuse a current revision.
THEOREM ChecksNeverRefuse == Spec => []NeverEmptyHanded
<1>1. IInv => NeverEmptyHanded
  BY DEF IInv, Reads, NeverEmptyHanded
<1> QED BY <1>1, Invariance, PTL

\* However late, a write to `documents` leaves what the listing calls for.
THEOREM NoStaleWrite == Spec => WritesAreCurrent
<1>1. IInv /\ [Next]_vars =>
          [\A l \in Listings : document'[l] # document[l] => document'[l] = Projection(l)']_vars
  <2> SUFFICES ASSUME IInv, Next, NEW l \in Listings, document'[l] # document[l]
               PROVE  document'[l] = Projection(l)'
    OBVIOUS
  <2>1. document \in [Listings -> Document] /\ listing \in [Listings -> Listing]
    BY DEF IInv, TypeOK
  <2>2. CASE \E k \in Listings : UndoCreate(k)
    <3>1. PICK k \in Listings : UndoCreate(k)
      BY <2>2
    <3>2. document' = [document EXCEPT ![k] = NoDocument]
          /\ listing'[k].status = "inactive"
      <4>1. listing[k] \in Listing
        BY <2>1
      <4>2. [[listing[k] EXCEPT !.status = "inactive"] EXCEPT
                 !.revision = Advanced(k, [listing[k] EXCEPT !.status = "inactive"])].status
              = "inactive"
        BY <4>1 DEF Listing
      <4> QED BY <2>1, <3>1, <4>2 DEF UndoCreate, Change
    <3> QED BY <2>1, <3>2 DEF Projection, Visible
  <2>3. CASE \E w \in Workers, k \in Listings : Finalize(w, k)
    <3>1. PICK w \in Workers, k \in Listings : Finalize(w, k)
      BY <2>3
    <3>2. document'[l] = Projection(l) /\ listing' = listing
      BY <3>1, FinalizeWrites DEF Finalize
    <3> QED BY <3>2 DEF Projection, Visible
  <2> QED BY <2>2, <2>3 DEF Next, Step, Edit, Restrict, Purge, SetStatus, LeaseExpires, BackoffEnds,
             ReplayDeadLettered, Claim, Crash, ReadRow, ReadRestriction, Embed, Fail,
             MarkSucceeded, MarkFailed, LoseMark
<1> QED BY <1>1, Invariance, PTL DEF Spec, WritesAreCurrent
=============================================================================
