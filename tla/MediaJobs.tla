------------------------------ MODULE MediaJobs ------------------------------
(***************************************************************************)
(* The review of images: `moderation_jobs`, the workers that lease its     *)
(* rows, and the status column of the resource that shows the image.       *)
(*                                                                         *)
(* A status belongs to a resource and a job to a resource too: nothing     *)
(* ties a verdict to the image it was given for.  Posts and listings get   *)
(* image and job in one transaction, messages the image first, avatars the *)
(* job first.  Reviewers claim a batch, ask the provider without a lock, and *)
(* settle each job in a transaction that fails when the lease has gone.    *)
(* Moderators write the same column when they decide a case, that of a     *)
(* rejected job or of a reported message, and look at no job.              *)
(***************************************************************************)
EXTENDS Naturals, FiniteSets

CONSTANTS
    Entries,       \* posts and listings, published with their image
    Messages,    \* chat messages
    Avatars,     \* users
    Images, Unfit,   \* Unfit: images the provider rejects
    Jobs, Reviewers,
    Reports,     \* reports of messages, by the members of their conversations
    MaxRetries,  \* MAX_RETRIES
    MaxFaults    \* bound: crashes, and leases that a live worker outlives

ASSUME MediaAssumption ==
    /\ Unfit \subseteq Images
    /\ "none" \notin Images \cup Reviewers
    /\ Reports \cap Jobs = {}
    /\ MaxRetries \in Nat \ {0} /\ MaxFaults \in Nat

\* A job names the type of its resource beside its id.
ASSUME ResourceAssumption ==
    /\ Entries \cap Messages = {} /\ Avatars \cap (Entries \cup Messages) = {}
    /\ "none" \notin Entries \cup Messages \cup Avatars

VARIABLES
    media,     \* what each resource shows, and its moderation status
    jobs,      \* the moderation_jobs table
    taken,     \* the jobs a worker has claimed, with their retry_count then
    answer,    \* what the provider said of the job in hand
    handler,   \* handlers between their two transactions
    cases,     \* moderation_cases, by the rejected job or report they come from
    ruling,    \* history: what moderators last said of a resource, unless a
               \* submission or a reviewer with the lease has written since
    faults

mediaVars == <<media, jobs, taken, answer, handler, cases, ruling, faults>>

-----------------------------------------------------------------------------
Shown == Entries \cup Messages \cup Avatars
Verdicts  == {"approved", "rejected", "failed"}

NoMedia(r) == [image |-> "none", status |-> IF r \in Messages THEN "approved" ELSE "pending"]
NoJob    == [resource |-> "none", image |-> "none", status |-> "none",
             retries |-> 0, owner |-> "none", leased |-> FALSE]
NoAnswer == [job |-> "none", retries |-> 0, says |-> "none"]
NoCase   == [about |-> "none", status |-> "none"]

MediaInit ==
    /\ media = [r \in Shown |-> NoMedia(r)]
    /\ jobs = [j \in Jobs |-> NoJob]
    /\ taken = [w \in Reviewers |-> {}]
    /\ answer = [w \in Reviewers |-> NoAnswer]
    /\ handler = [r \in Messages \cup Avatars |-> "none"]
    /\ cases = [k \in Jobs \cup Reports |-> NoCase]
    /\ ruling = [r \in Shown |-> "none"]
    /\ faults = 0

Fresh == {j \in Jobs : jobs[j] = NoJob}
NewJob(r, i) == [NoJob EXCEPT !.resource = r, !.image = i, !.status = "pending"]

\* Job submission quarantines the resource in the same transaction.
Submit(j, r, i) ==
    /\ j \in Fresh
    /\ jobs' = [jobs EXCEPT ![j] = NewJob(r, i)]
    /\ media' = [media EXCEPT ![r].status = "pending"]
    /\ ruling' = [ruling EXCEPT ![r] = "none"]

-----------------------------------------------------------------------------
(* Uploads.                                                                *)

PublishMedia(p, i) ==
    /\ media[p].image = "none"
    /\ \E j \in Fresh :
        /\ jobs' = [jobs EXCEPT ![j] = NewJob(p, i)]
        /\ media' = [media EXCEPT ![p] = [image |-> i, status |-> "pending"]]
    /\ ruling' = [ruling EXCEPT ![p] = "none"]
    /\ UNCHANGED <<taken, answer, handler, cases, faults>>

\* The message is committed, and readable, before its job exists.
SendImage(m, i) ==
    /\ media[m].image = "none"
    /\ media' = [media EXCEPT ![m].image = i]
    /\ handler' = [handler EXCEPT ![m] = i]
    /\ UNCHANGED <<jobs, taken, answer, cases, ruling, faults>>

\* A failure to enqueue is logged and forgotten; so is a crash before it.
EnqueueMessage(m) ==
    /\ handler[m] # "none"
    /\ \/ \E j \in Fresh : Submit(j, m, handler[m])
       \/ UNCHANGED <<jobs, media, ruling>>
    /\ handler' = [handler EXCEPT ![m] = "none"]
    /\ UNCHANGED <<taken, answer, cases, faults>>

\* update_profile: the job of the new avatar, in a transaction of its own
\* whose failure is ignored ...
SubmitAvatar(u, i) ==
    /\ handler[u] = "none"
    /\ \/ \E j \in Fresh : Submit(j, u, i)
       \/ UNCHANGED <<jobs, media, ruling>>
    /\ handler' = [handler EXCEPT ![u] = i]
    /\ UNCHANGED <<taken, answer, cases, faults>>

\* ... and then the new URL, under whatever status the account has by then.
SetAvatar(u) ==
    /\ handler[u] # "none"
    /\ media' = [media EXCEPT ![u].image = handler[u]]
    /\ handler' = [handler EXCEPT ![u] = "none"]
    /\ UNCHANGED <<jobs, taken, answer, cases, ruling, faults>>

-----------------------------------------------------------------------------
(* The worker.                                                             *)

\* Bug: A claim that takes pending rows only.
ReviewablePending(j) == jobs[j].status = "pending"

Reviewable(j) ==
    \/ jobs[j].status = "pending"
    \/ jobs[j].status = "processing" /\ ~jobs[j].leased

\* A batch takes all that can be claimed: MAX_JOBS_PER_CYCLE is out of reach.
ClaimImages(w) ==
    LET claimed == {j \in Jobs : Reviewable(j)} IN
    /\ taken[w] = {} /\ claimed # {}
    /\ jobs' = [j \in Jobs |->
        IF j \in claimed
        THEN [jobs[j] EXCEPT !.status = "processing", !.owner = w, !.leased = TRUE]
        ELSE jobs[j]]
    /\ taken' = [taken EXCEPT ![w] = {<<j, jobs[j].retries>> : j \in claimed}]
    /\ UNCHANGED <<media, answer, handler, cases, ruling, faults>>

\* The provider answers for the image of the job, or the call fails.
Review(w) ==
    /\ answer[w] = NoAnswer
    /\ \E item \in taken[w] :
        /\ \E says \in {IF jobs[item[1]].image \in Unfit THEN "rejected" ELSE "approved",
                        "error"} :
            answer' = [answer EXCEPT ![w] = [job |-> item[1], retries |-> item[2], says |-> says]]
        /\ taken' = [taken EXCEPT ![w] = @ \ {item}]
    /\ UNCHANGED <<media, jobs, handler, cases, ruling, faults>>

Holds(w, j) == jobs[j].status = "processing" /\ jobs[j].owner = w /\ jobs[j].leased

MayRetry(w) == answer[w].says = "error" /\ answer[w].retries + 1 < MaxRetries

Requeue(w) ==
    /\ MayRetry(w)
    /\ LET j == answer[w].job IN
       IF Holds(w, j)
       THEN jobs' = [jobs EXCEPT ![j].status = "pending", ![j].owner = "none",
                                 ![j].leased = FALSE, ![j].retries = @ + 1]
       ELSE UNCHANGED jobs
    /\ answer' = [answer EXCEPT ![w] = NoAnswer]
    /\ UNCHANGED <<media, taken, handler, cases, ruling, faults>>

VerdictOf(w) == IF answer[w].says = "error" THEN "failed" ELSE answer[w].says

SettledAs(j, v) == [jobs EXCEPT ![j] = [@ EXCEPT !.status = v, !.owner = "none", !.leased = FALSE]]

\* create_case_for_rejected_job: the machine's case begins as `actioned`.
Rejects(j, v) ==
    IF v = "rejected"
    THEN [cases EXCEPT ![j] = [about |-> jobs[j].resource, status |-> "actioned"]]
    ELSE cases

\* Bug: finalize_job that logs a lost lease and commits all the same.
SettleAnyway(w) ==
    /\ answer[w] # NoAnswer /\ ~MayRetry(w)
    /\ media' = [media EXCEPT ![jobs[answer[w].job].resource].status = VerdictOf(w)]
    /\ jobs' = IF Holds(w, answer[w].job) THEN SettledAs(answer[w].job, VerdictOf(w)) ELSE jobs
    /\ answer' = [answer EXCEPT ![w] = NoAnswer]
    /\ IF Holds(w, answer[w].job)
       THEN /\ cases' = Rejects(answer[w].job, VerdictOf(w))
            /\ ruling' = [ruling EXCEPT ![jobs[answer[w].job].resource] = "none"]
       ELSE UNCHANGED <<cases, ruling>>
    /\ UNCHANGED <<taken, handler, faults>>

\* The resource is written first, whatever stands there; without the lease it
\* is all rolled back.
SettleReview(w) ==
    /\ answer[w] # NoAnswer /\ ~MayRetry(w)
    /\ LET j == answer[w].job IN
       IF Holds(w, j)
       THEN /\ jobs' = SettledAs(j, VerdictOf(w))
            /\ media' = [media EXCEPT ![jobs[j].resource].status = VerdictOf(w)]
            /\ ruling' = [ruling EXCEPT ![jobs[j].resource] = "none"]
            /\ cases' = Rejects(j, VerdictOf(w))
       ELSE UNCHANGED <<jobs, media, ruling, cases>>
    /\ answer' = [answer EXCEPT ![w] = NoAnswer]
    /\ UNCHANGED <<taken, handler, faults>>

\* A process that dies leaves its leases behind.
WorkerDies(w) ==
    /\ faults < MaxFaults /\ (taken[w] # {} \/ answer[w] # NoAnswer)
    /\ faults' = faults + 1
    /\ taken' = [taken EXCEPT ![w] = {}]
    /\ answer' = [answer EXCEPT ![w] = NoAnswer]
    /\ UNCHANGED <<media, jobs, handler, cases, ruling>>

InHand(j) == \E w \in Reviewers : answer[w].job = j \/ \E item \in taken[w] : item[1] = j

\* LEASE_SECS pass: at once for a job nobody works on any more, by a fault
\* of its own (a slow provider, a paused process) for one in hand.
LeaseEnds(j) ==
    /\ jobs[j].status = "processing" /\ jobs[j].leased
    /\ IF InHand(j) THEN faults < MaxFaults /\ faults' = faults + 1 ELSE UNCHANGED faults
    /\ jobs' = [jobs EXCEPT ![j].leased = FALSE]
    /\ UNCHANGED <<media, taken, answer, handler, cases, ruling>>

-----------------------------------------------------------------------------
(* The moderators.                                                         *)

\* report_message: a member of the conversation reports what it sees.
Report(k, m) ==
    /\ cases[k] = NoCase /\ media[m].image # "none"
    /\ cases' = [cases EXCEPT ![k] = [about |-> m, status |-> "open"]]
    /\ UNCHANGED <<media, jobs, taken, answer, handler, ruling, faults>>

\* What a decision makes of the case: an open one is restricted or dismissed;
\* a restriction is lifted, by a moderator or on appeal, or upheld.
CaseAfter(status, says) ==
    IF status = "open" /\ says = "rejected" THEN "actioned" ELSE "closed"

\* decide, review_appeal: the status is written, whatever job is under way.
Rule(k, says) ==
    LET r == cases[k].about IN
    /\ cases[k].status \in {"open", "actioned"}
    /\ cases' = [cases EXCEPT ![k].status = CaseAfter(@, says)]
    /\ media' = [media EXCEPT ![r].status = says]
    /\ ruling' = [ruling EXCEPT ![r] = says]
    /\ UNCHANGED <<jobs, taken, answer, handler, faults>>

-----------------------------------------------------------------------------
MediaNext ==
    \/ \E p \in Entries, i \in Images : PublishMedia(p, i)
    \/ \E m \in Messages, i \in Images : SendImage(m, i)
    \/ \E m \in Messages : EnqueueMessage(m)
    \/ \E u \in Avatars, i \in Images : SubmitAvatar(u, i)
    \/ \E u \in Avatars : SetAvatar(u)
    \/ \E w \in Reviewers : ClaimImages(w) \/ Review(w) \/ Requeue(w) \/ SettleReview(w) \/ WorkerDies(w)
    \/ \E j \in Jobs : LeaseEnds(j)
    \/ \E k \in Reports, m \in Messages : Report(k, m)
    \/ \E k \in Jobs \cup Reports, says \in {"approved", "rejected"} : Rule(k, says)

MediaSpec == MediaInit /\ [][MediaNext]_mediaVars

\* Each worker polls for ever and every provider call ends (it has a timeout
\* of 8 s); time passes.
MediaFairness ==
    /\ \A w \in Reviewers : WF_mediaVars(ClaimImages(w)) /\ WF_mediaVars(Review(w))
                          /\ WF_mediaVars(Requeue(w)) /\ WF_mediaVars(SettleReview(w))
    /\ \A j \in Jobs : WF_mediaVars(LeaseEnds(j) /\ ~InHand(j))

-----------------------------------------------------------------------------
(* Properties.                                                             *)

\* What stands at a post, listing or message is the last word on its image:
\* what its one job came to, or what moderators have said since.  An attempt
\* whose lease was taken over leaves no trace and undoes no decision, although
\* finalize_job writes the resource before it looks at the lease.
LastWordStands == \A j \in Jobs :
    LET r == jobs[j].resource IN r \in Entries \cup Messages =>
        media[r].status = IF ruling[r] # "none" THEN ruling[r]
                          ELSE IF jobs[j].status \in Verdicts THEN jobs[j].status
                          ELSE "pending"

\* Every job is settled in the end: after MAX_RETRIES errors it is `failed`,
\* and one whose worker died is claimed again when its lease is over.
EveryJobIsSettled == \A j \in Jobs :
    jobs[j] # NoJob ~> jobs[j].status \in Verdicts

\* Refuted.  What a case has taken down stays down until the case lifts it
\* ("content_restricted"): the reviewer whose job is still under way, the
\* submission that comes late, or a second case writes the same column.
RestrictedStaysDown == \A k \in Jobs \cup Reports :
    cases[k].status = "actioned" => media[cases[k].about].status = "rejected"

\* What migration 0041 and docs/trust-safety.md promise of every image the
\* public sees: it was reviewed and passed.
PublicMediaPassed == \A r \in Entries \cup Avatars :
    media[r].status = "approved" /\ media[r].image # "none" => media[r].image \notin Unfit

=============================================================================
