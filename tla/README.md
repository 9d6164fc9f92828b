# Goods4ncu: formal models

TLA+ models of the campus market's backend (Rust, axum, sqlx over PostgreSQL), the TLC
instances that check them, and TLAPS proofs of what they promise. Paths are relative to the
repository (`src/services/...` is the Rust crate, `migrations/...` its schema).

1. [The system](#1-the-system) - components, state, interaction, what is hard
2. [The modules](#2-the-modules) - what each models and how it corresponds to the code
3. [What TLC checks](#3-what-tlc-checks) - runs, bounds, fairness
4. [What is proved](#4-what-is-proved) - theorems, assumptions, inductive invariants
5. [Where the code and its documents differ](#5-where-the-code-and-its-documents-differ)
6. [What is not modelled](#6-what-is-not-modelled)
7. [Plan](#7-plan)

## 1. The system

Students of one campus post offers and wanted posts, open deal intents, negotiate, answer
wanted posts, chat, and let an assistant (an LLM with tools) do these things for them.
Several replicas of one process share a PostgreSQL database; each runs the HTTP and WebSocket
API and the same background workers. **Nearly all coordination is through the database**: row
locks (`SELECT ... FOR UPDATE`), advisory locks, unique indexes, triggers, and leases written
into rows. The exceptions are stores of another kind: Redis (the stream between replicas),
object storage, and the memory of a process (denied tokens, caches, turns that can be
cancelled, the WebSocket hub), of which every replica has its own. So the state of the models is tables and a few such stores, and their
steps are transactions, or the statements between which something else can happen.

### Components

| component | state | operations | what makes it correct |
|---|---|---|---|
| deal records, `services/order.rs` | `orders` | create intent, confirm (keyed, with or without delisting), cancel | one sale per term on sale; one open intent per buyer and listing; replays acknowledge what happened |
| negotiations, `negotiate.rs`, `hitl_expire.rs` | `hitl_requests`, system messages | open, approve, counter, reject, answer a counter, expire | the seller agreed; one outcome, the one that was told; overdue requests end |
| wanted posts, `wanted_response.rs` | `wanted_responses`, `inventory.lifecycle_epoch` | respond, accept, dismiss, withdraw, fulfil, relist | one answer per offer and round; closed rounds are frozen; keys mean one request; who settles or offers an offer is in no circle of waiting |
| action plans, `agent_plan.rs` | `agent_action_plans` | propose, confirm (one or two steps), cancel, expire, execute | at most one fact per plan; two steps are two; answers stay true; effects on what was seen |
| embedding jobs, `embedding_jobs.rs`, `embedding_worker.rs` | `embedding_jobs`, `documents` | trigger, claim, read, embed, finalise, settle | no stale projection; no change forgotten |
| moderation, `moderation_case.rs`, `content_report.rs` | cases, effects, reports, appeals | report, claim, decide, restore, appeal | case, effect and report agree; one takedown stands at most, and a restore finds it unless it was overtaken |
| image review, `moderation_worker.rs`, `moderation.rs` | `moderation_jobs`, status columns | submit, claim, ask, settle, retry; decide | an image shows what its one job came to, or moderators said since |
| sessions, `api/auth.rs`, `token_denylist.rs` | `refresh_tokens`, denylist, caches | login, rotate, revoke, ban | one live token per chain; trust in a revoked token only shrinks |
| campus membership, `campus.rs` | memberships, challenges | ask for a code, deliver, type, change the address | verified only by the last code sent; guesses are bounded |
| accounts and administration, `admin_mfa.rs`, `totp.rs`, `api/admin.rs` | secrets, roles, audit log | enrol, log in, ban, promote, demote | a code lets in once |
| persona, `social_persona.rs` | `social_personas`, pictures | save, publish, archive, select, revoke | what others see is what was published last |
| interruptions, `interruption.rs` | settings, ledger | ask for permission, notify, change settings | the budget of 24 hours is never overspent |
| agent memory, `agent_memory.rs`, `api/agent_skills.rs` | profile, session, notes, skills | search, remember, forget, tell the model | only what was allowed is told |
| posts and undo, `post.rs`, `undo.rs` | topics, replies, `undo_log` | publish (keyed), reply, delete, undo | a retried key finds its post |
| conversations, `chat_conversation.rs` | `chat_conversations`, blocks, messages, interactions | invite, answer, confirm, write, mark, read by pages, close, block, expire | both have agreed; blocks hold; times may be out of order |
| groups and calls, `chat_space.rs`, `api/user_chat/telegram.rs` | members, lines, calls | write, reply, change roles, ring, answer | keys name one line; a call is answered once |
| agreements, `agreement.rs`, `price_discovery.rs` | terms, consents, limits | state, adopt, withdraw, settle | no name beside words it did not agree to |
| intents, `services/intent`, `api/intents.rs` | `intents`, matches, mirrors | create, confirm, match, answer, mirror, withdraw, expire | nothing inferred acts before its author agrees |
| shared files, `shared_object.rs`, `shared_object_cleanup.rs` | rows and the bucket | presign, upload, complete, revoke, clean up | what is offered is stored; what is revoked goes |
| agent runs, `agent_run.rs`, `agent_run_reconciler.rs` | `agent_runs`, each replica's registry of turns | start, stream, cancel, watch, reconcile | one end per run; cancelling reaches the replica's turn |
| outbox and fan-out, `outbox.rs`, `ws_fanout.rs` | `outbox_events`, hubs, the Redis stream | enqueue, claim, push, publish, mark | what is pushed twice or dropped is known; every event ends |
| LLM clients, companion, watchlist, HTTP layer, Flutter client | - | - | see section 6 |

### How they interact

* **One inventory row in the middle.** Deals, wanted posts, plans, moderation and embedding
  all decide on it: status, price, `lifecycle_epoch` (rounds of a wanted post),
  `content_revision` (advanced by triggers) and `listing_has_active_restriction`.
  Whoever decides locks the row first. Each module carries the part of it that it decides on
  and takes the other components' writes to it as environment actions.
* **Plans write deals.** A confirmed plan runs `execute_purchase_item_in_tx` or
  `execute_negotiate_item_in_tx` in its transaction: `PurchaseItem` and `NegotiateItem` in
  *Deals*, `Execute` in *ActionPlan*.
* **Restrictions freeze.** `moderation_case.rs` imposes and releases effects; a trigger bumps
  the revision, by which plans and projections notice them.
* **Triggers ask, workers follow.** Every revision asks for a projection; a notification asks
  for a push, an image for a review, a revoked file for its removal. The asking is a row of
  the same transaction; the worker leases it and does the slow part outside any transaction.
* **A conversation carries the rest**: groups, calls, files and the agreement card name it and
  look at its state before they write.

### What is hard to test here

`PROJECT.json` lists the hazards at their lines. In short: checks that count only because of
where a lock is taken; reads made before a lock, before a provider call or before a
transaction; idempotency keys looked up before and compared after; lost responses followed by
retries of a two-step confirmation; leases that run out under a slow worker; times taken when a
transaction began and rows committed in another order; caches that are filled while what they
cache is changed; two stores written one after the other with a crash in between; rounds of a
post that closes and opens again; overlapping restrictions.

## 2. The modules

Actions carry the name of the function they model, guards are in the code's order of checks,
history variables (not in the program) are marked as such and never occur in a guard. An
operator whose comment begins with "Bug:" is a plausible mistake at that place; the operator
below it is the code. Each was substituted in turn to see that the property named for it
notices. Bounds (`Max...`) are constants, named at the guard where they cut.

| module | models | abstracts |
|---|---|---|
| `Deals` | every writer of `orders` and `hitl_requests`, one transaction per action but for a settlement | text, names, amounts beyond a few prices, order of locks |
| `WantedRounds` | answers to wanted posts, one row lock per step | other users than posters and responders |
| `Rounds` | abstract specification of the same: rounds and answers, no rows or locks | - |
| `ActionPlan` | plans from proposal to final answer, over a changing market | arguments other than price; several fields of an edit |
| `EmbeddingJobs` | triggers, jobs, leases and the worker's statements | text and vectors, named by the revision that brought them |
| `Moderation` | reports, machine rejections, decisions, restores, appeals, takedowns by hand | reasons, notes, evidence |
| `Sessions` | refresh tokens of one account, statement by statement | token values |
| `AccessChecks` | the lookups of every authenticated request, two caches per replica | one token of one user |
| `Memberships` | codes asked for, sent, lost, guessed and typed | code digits: a guess is right or wrong |
| `Administration` | second factor; operations on accounts: admit, check, write, record | TOTP arithmetic: a code belongs to a period |
| `Personas` | saves, publication, pictures and their review | text of a presentation |
| `Interruptions` | permission under a budget, ledger, settings | scoring to answered or not |
| `Memories` | profile, session, notes, prompt context, skills | embeddings, wording; a skill has a length |
| `Posts` | publication under a key, replies and their count, deletion, undo | feed |
| `Conversations` | one action per locked operation; creation in its unlocked steps | text, quotes, media, the day's quota |
| `Handshake` | abstract specification of it: two people, who has agreed | keys, blocks, deadlines, rows |
| `Messages` | messages, interactions, marks and pages inside one conversation | texts, quotes, broadcasts |
| `Spaces` | groups (roles, lines, replies) and calls | media, moderation provider |
| `Agreements` | the card's terms (words and an amount) and consents; price discovery | wording of a term |
| `Intents` | intents from text to match, answer and mirror | reading a sentence: a statement is given |
| `MediaJobs` | review jobs, leases, status columns | pictures: fit or unfit |
| `SharedFiles` | upload, review status, revocation and cleanup over row and bucket | file contents |
| `AgentTurns` | runs, turns, cancellation, watchdog, reconciler | what the model says |
| `Outbox` | event, lease, hub, publisher task, stream, delivery | one recipient; payloads |
| `MC*` | constants, symmetry and compositions for TLC | |
| `*Proofs` | theorems | |

### Deals

State: `listing` (status and price), `effects` (unreleased restrictions by case), `order`,
`hitl`, `timeline` (system messages written in the same transaction), `intent` (a POST
/api/orders request between its checks and its transaction). Almost every service call locks
the rows it decides on before reading their status, so one transaction is one action:
`ConfirmOrder`, `ReplayConfirm`, `CancelOrder`, `NegotiateItem`, `Approve`, `Counter`,
`Reject`, `AcceptCounter`, `RejectCounter`, `ExpirePending`. Three things are not one action.
Two are not one transaction: the handler's preliminary read (`SubmitIntent`, then `CreateOrder`
or `EndIntentCall`), and the deadline, which passes (`DeadlinePasses`) long before the worker's
scan meets it (`ExpirePending` takes any batch, as LIMIT and SKIP LOCKED do). The third is a
transaction that holds too few locks: whoever settles a negotiation locks listing and request,
reads the buyer's open intent without a lock (`order.rs:143-161`) and confirms it by a later
UPDATE whose count nobody reads (`negotiate.rs:91-107`). So `Approve` and `AcceptCounter` end at
once only if there is no open intent (`ConfirmedOfflineOrder` inserts the record, which nobody
else sees before the commit); else they set `settling`, which keeps every writer of the listing
and the request away (`Locked`), while `CancelOrder` and a `ConfirmOrder` that does not delist
may still move the record, until `Settle` marks the listing sold, approves the request, and
confirms the record if it is still open (`ConfirmedIfOpen`). The owner's and
moderators' writes (`UpdatePrice`, `DeleteListing`, `Relist`, `ImposeRestriction`,
`ReleaseRestriction`) complete it.
History: `term` (how often a listing was put on sale), `sales`, `acks`, and `deal` in a
negotiation.

### WantedRounds and Rounds

A request that answers a post or settles an answer locks the wanted row, then the offer row.
Each of these is a step: `Respond` (the lookup of the key, before any lock),
`LockWantedToRespond` / `RefuseToRespond`, `InsertResponse`; `Settle` (an unlocked read of the
answer's links), `LockWantedToSettle`, `FinishSettling`; `Abort` at any point. Whoever answers names any listing as his
offer; the row he names is locked before it is judged (`MayOffer`), so two who name each other's
wanted posts wait crosswise until the database cuts one off. `lock` says which
request holds which row; transactions that touch a single row (`Fulfill`, `SellInDeal`,
`Delete`, `Relist`, `Restrict`, `Unrestrict`) are one step, taken while nobody holds it. The
triggers of 0055 and 0056 are in `TriggersAccept` and `NextEpoch`, the unique indexes in
`RoundRows` and `KeyRows`. `Init` allows a legacy answer without a round.

`Rounds` says what this is for: a post is answered in rounds; a closed round never opens again;
an offer answers a round at most once, and an answer is settled once, in its own open round.
`WantedRounds` implements it under the mapping given at `R == INSTANCE Rounds WITH ...`.

### ActionPlan

A proposal reads the listing's revision (`Propose`) and stores the plan in a later transaction
(`InsertPlan`, or `ReplayProposal` if its key is taken). A confirmation starts its transaction
(`Ask`: NOW() is fixed here, so lateness is), waits for the plan's row, and then is `Reject`
(wrong token), `Repeat` (the plan has ended), `Expire`, `Challenge` (first step of an L3 plan:
purchase, negotiation) or `StartExecution` followed by `Execute`, which locks the listing,
compares the revision, runs the action in a savepoint and commits it with the plan's status.
Responses may be lost (`delivered`), and a request may be cut off before its commit (`Abort`).
`Outcome` gives the result of each of the four tools: *done* (a business fact), *reused*,
*nothing* (a message, still `executed`) or an error. Around it the market goes on.
History: `known` (tokens the user has seen), `facts`, `told`, `acks`, and in a listing `edits`,
which counts what the trigger should count, independently of it.

### EmbeddingJobs

`Change` is the trigger pair of 0057: a new revision and a request for it, merged into a job
that is being processed. A worker claims a batch (`Claim`, any part of what is due), and for
each job reads the row (`ReadRow`), then its restriction (`ReadRestriction`), calls the
provider (`Embed`, or `Fail`), writes or removes the document under a lock (`Finalize`), and
settles the job (`MarkSucceeded`, `MarkFailed`), each a step of its own between which the
listing changes, the lease ends (`LeaseExpires`), the worker dies (`Crash`), or the settling
statement fails (`LoseMark`). A batch's jobs run concurrently (`join_all`), so a worker's tasks
are independent. Operators replay dead letters.

### Accounts: Moderation, Sessions, AccessChecks, Memberships, Administration, Personas, Interruptions, Memories

* *Moderation*: each operation is one transaction that locks listing, case, then appeal or
  effect. A takedown by hand is dated by its begin (`BeginTakedown`) and then waits for the
  listing (`Takedown`, `FindTakedown`); a restore looks for the `Newest` by that date. History:
  `overtaken`, those committed after one that had begun later. A listing is restricted by effects that belong to cases and may overlap; pictures and
  messages have one status column that every decision overwrites.
* *Sessions*: a rotation is four statements (`FindToken`, `RevokeOld`, `ReadAccount`, `StoreNew`)
  and may fail between any of them; logout, ban and the alarm of a replay revoke "all tokens
  there are" in between.
* *AccessChecks*: a request looks into the replica's denylist, caches and tables one after the
  other and fills caches from what it read; `RevokeAccess`, `DenyHere` and `ChangeStanding` write
  meanwhile, replicas restart, and the token expires (`life`: until exp, 60 s of leeway, over).
* *Memberships*: asking for a code reads the address (`BeginRequest`), waits for the row
  (`Issue`, `Refuse`), and delivers after the commit (`Deliver`, perhaps `lost`); typing one
  locks the challenge first and writes the membership last (`TypeCode`, `Verify`).
* *Administration*: the factor is read (`ReadFactor`) and the code consumed by a conditional
  update (`Consume`); an operation is `Admit`, `CheckTarget`, `WriteAccount`, `RecordAudit`.
* *Personas*: a row lock per transaction, except that a first save finds no row to lock
  (`FindNoPersona`, `UpsertDraft`). *Interruptions*: `AskPermission` fixes the time, `Permit`
  decides under the lock, `CreateBudgeted` notifies later. *Memories*: a prompt reads profile,
  session and notes in statements of their own, each of which may see other settings.

### People who deal with each other: Posts, Conversations, Handshake, Messages, Spaces, Agreements, Intents

* *Posts*: `BeginPublish` looks for the key, `InsertPost` inserts or meets the unique index; a
  reply's count is that of its snapshot (`BeginReply`, `CommitReply`).
* *Conversations*: operations lock the row and are one action; a creation checks key and blocks,
  takes the pair's advisory lock and looks for a live conversation, and inserts, in steps. A
  block locks the conversations that its second statement sees (`BeginBlock`) and commits
  (`EndBlock`); what is inserted in between it has missed (history `crossed`).
  *Handshake* is what it implements under the mapping `H == INSTANCE Handshake WITH ...`: per
  pair, a phase and who has said so.
* *Messages*: a row's time is NOW() of its transaction (`Begin`), which then waits for the lock
  (`TakeLine`) and commits (`SendText`, `SendInteraction`, `GiveUp`), so rows appear out of the
  order of their times. Marks look (`BeginMark`) and write later (`FinishMark`); a reader follows
  the cursor page by page (`StartWalk`, `ReadPage`).
* *Spaces*: a role is read in one statement and used in a later one (`AskRole`, `WriteRole`;
  `AskToSpeak`, `CheckTopic`, `SendSpaceMessage`).
* *Agreements*: a request to adopt or settle carries what its sender saw; `SendLimit`,
  `LockSession`, `StateLimit` are the statements of stating a limit.
* *Intents*: creating and mirroring are two transactions; an answer reads (`ReadAuthor`), opens a
  conversation and is recorded. Matching is a pure definition (`Matches`) over statements.

### Workers: MediaJobs, SharedFiles, AgentTurns, Outbox

* *MediaJobs*: `ClaimImages`, `Review` and `Requeue` or `SettleReview`; the settling transaction
  fails when the lease has passed to another (`LeaseEnds`, `WorkerDies`). Moderators write the
  same status when they decide the case of a rejected job or of a report (`Report`, `Rule`), and
  look at no job. History: `ruling`, what they said last, until a reviewer or a submission writes.
* *SharedFiles*: row and bucket are two stores. Completing looks into the bucket (`Probe`), locks
  the row (`Complete`) and asks for the review (`EnsureJob`); the worker deletes in the bucket
  (`DeleteRemote`) and then writes the row (`RecordCleanup`). Either may be cut off in between.
* *AgentTurns*: a run, a row that all replicas share, is ended by its stream, by the watchdog of
  its replica or by `ReconcileRuns` of any. Turns are in the memory of the replica that serves
  them: a new one cancels the one before it in the same conversation and registry, a request to
  cancel looks into one registry, and an `Outage` ends the turns of one replica. A turn may go on
  without a run (`Began`); an end that the database refuses is left to the watchdog (`Finished`).
* *Outbox*: claim under a lease, hand over to the hub, mark; the hub queues in memory for a
  publisher task, the stream delivers to every node that listens. The worker of a node claims
  from the start, before the node has a publisher (`Plug`); the subscriber may end for good
  (`SubscriberEnds`). Nodes die, are drained and replaced. History: `lost`, the pushes that some
  step dropped, and `again`, those whose lease lapsed, that were replayed, or whose publishing
  was reported as failed.

## 3. What TLC checks

Runs are few: one for each question. The eight modules about accounts, the seven about dealings
and the five with workers share no state within their run, so the product of their behaviours
would show nothing that each alone does not: a behaviour of `handlers`, `dealings` or
`background` *follows* one component, chosen in its initial state, while the others rest.

| run | instance | distinct states | what it shows |
|---|---|---|---|
| `deals_safe` | 1 listing, seller and 2 buyers, 2 records, 2 negotiations, 1 key, 2 terms | 862 k | one sale per term; sold iff a sale of this term stands, with its cause for good; one open intent and negotiation; replays true; the seller agreed; the timeline tells the outcome |
| `deals_live` | 2 prices, 2 cases, 1 record, 1 negotiation, 2 buyers | 733 k | records move forward; restrictions freeze, overlapping or not; overdue requests settle |
| `wanted_rounds` | 2 posts (one rests but for the third turn), 1 offer, 2 rows, 2 requests, 1 key, 2 texts, rounds up to 2 | 793 k | one answer per round; frozen rounds; a key means one request; a circle of waiting is of misnamed posts only; implements `Rounds` |
| `plan_races` | 1 plan; 2 requests of a purchase, or 1 of any action at 2 prices; 1 key | 833 k | executed once; two steps; verdicts agree; replays exact; effects on what was seen, at the confirmed price |
| `plan_live` | 1 plan, 2 requests, purchase | 21 k | an answer comes |
| `embed_jobs` | 1 listing, 2 workers, 3 revisions, 2 attempts | 211 k | completed is current; writes are current; every job settles |
| `handlers` | 3 cases, 2 takedowns, 3 tokens, 2 of each kind of request, 2 replicas, 2 campuses, 2 challenges | 1.28 M | `CasesAgree`, `SessionsAreChains`, `DeniedStaysDenied`, `VerificationIsEarned`; `CodesAreGuarded` (guesses bounded, codes single-use); `WillIsRespected` (persona as published, budget, opt-out, short session) |
| `dealings` | 2 people, 2 conversations, 2 requests of each kind, pages of 2 of at most 5 rows, 1 block under way | 505 k | `KeysAreHonoured` (posts, conversations, groups), `PairIsGuarded`, `TimesAreReliable` (spacing, pages), `TermsAreHonoured`, `WishesAreRespected`, `ImplementsHandshake` |
| `background` | 2 workers, 2 nodes, 2 turns at 2 replicas, 2 events, 1 report, 2 failures of a node | 163 k | `ReviewsAreHonoured`, `TurnsEndOnce`, `PushesAreAccountedFor`, `BackgroundWorkEnds` |
| `deals_find_price`, `files_find_legacy`, `posts_find_undo` | smallest that shows it | - | see section 5 |

Why these bounds: two requests are enough for every pairwise race, two ids per table for reuse
and for uniqueness to fail. `deals_safe` has a second term because only relisting makes "sold
twice" possible, a third user because two buyers must compete, and two records and two
negotiations since a settlement and a confirmation must meet; moderation is left to `deals_live`.
`deals_live` has two prices because settling on an intent, updating a price and negotiating can
disagree only then, and two cases because one release must not free what another holds.
`wanted_rounds` needs a second round
for a stale answer and two rows for a duplicate; keys, rounds and rows named at will are looked at
in three turns, the last with a second post, since it takes two to wait crosswise. `embed_jobs` needs three revisions for a change
during the work on a change, and two workers for a lease that passes from one to the other.
`handlers` has three cases since a restore must find the standing takedown among two others, two
takedowns since one may overtake the other, and three tokens for a chain with a replayed link. `dealings` follows *Messages* three times under
different bounds (`Interacting`, `Reading`, `Marking`): a window of three ticks with two
interactions and a waiting third; pages of two over rows of equal times with commits between the
pages; marks on a message that is edited, hidden and closed over. `background` has two workers
for a lease that is taken over, a buffer of one that overflows, and two failures so that one can
follow a retry. It follows one post, message or avatar at a time, since no step of a review
looks at two, and calls the first turn and its replica by their names (`Named`), since turns and
replicas are alike. Listings, accounts, pairs and events are otherwise independent (no action reads
two of them, but for those named), so one is enough; the proofs are for any number.

Symmetry is used only in the runs without liveness, over ids that nothing tells apart
(`MCSymmetry`, `Alike`). Deadlock is checked except where the bounded system comes to rest:
`deals_safe` (without moderation nothing is left to do when records and terms are used up),
`embed_jobs`, `handlers`, `dealings`, `background`, `posts_find_undo`.

### Fairness

* *Deals*: `WF(Expire)`. The worker scans every ten minutes for as long as a replica runs
  (`hitl_expire.rs:23-38`). `WF(Settle(h))`: a transaction goes on to its end and does not hold
  its locks for ever. Users, moderators and clocks owe nothing.
* *ActionPlan*: a request ends, if only by a timeout (`WF(Abort)`); a user who wants an answer
  asks again with each token he has (`SF(AskAgain)`), and not every attempt is cut off or loses
  its response (`SF(Served)`, `SF(Done)`). The property asks in addition that memberships are
  verified again and again: the code refuses to answer anyone else.
* *EmbeddingJobs*: clocks advance, workers poll (`embedding_worker.rs:262-299`), HTTP calls have
  timeouts (connect 10 s, read 60 s) below the lease of 120 s, and deaths, failed bookkeeping
  and overtaken leases are not for ever. The provider may fail for ever: then jobs end as dead
  letters. Claiming is strongly fair per listing since the oldest job is taken first.
* *MediaJobs*, *SharedFiles*, *Outbox*: each worker goes on with what it has begun and polls for
  ever, weakly fair per worker, node and event; backoffs and the leases of rows nobody works on
  end; a terminated process is replaced. Deaths and faults are bounded (`MaxFaults`,
  `MaxDropped`, `MaxFailures`), which is what makes "not for ever" checkable.
* *AgentTurns*: an untouched run gets old and the reconciler ticks. *Intents*: the hourly sweep.

## 4. What is proved

Every safety invariant and every action property that a passing run checks, and both
refinements (`ImplementsRounds`, `ImplementsHandshake`), are stated by a theorem: TLC checks them
on the instances above, TLAPS for every value of the constants. Assumptions are only the named
`ASSUME`s of the modules (owners are users; ids do not contain the null value; wanted posts are
not offers; tables are disjoint; limits, bounds and paces are natural numbers, positive where
the code has a positive constant), which TLC evaluates in the runs. The set of attempts to
interrupt a user is assumed finite, for `BudgetHolds` counts them.

An invariant is seldom inductive as it stands. The table names, for each component, the
strengthening under which it is, and why it is needed.

| module | theorems | inductive invariant and argument |
|---|---|---|
| `DealsProofs` | `TypeCorrect`, `OneIsOpen`, `RecordsCorrect`, `RestrictionsHold` | `HeldInv`: a settlement in hand is of an unanswered request, on a record of its parties, and the only one on its listing; every settlement `Begins`, and `Ends` with the record confirmed or, if it had closed, untouched |
| | `SoldOnce`, `SalesHaveCauses` | `SalesInv`: both together, with "no sale is of a later term", "what is being settled on has sold nothing" (else a record could sell twice) and "an approved negotiation's record has sold"; a sale is new because an active listing has none in its term |
| | `AcksStayTrue` | `AckInv`: a record that stands as delisting has sold its listing, without which a replay could be answered falsely |
| | `DealsStayAgreed` | `AgreedInv`: nobody deals with himself; and by `SalesInv` the record a negotiation settled on has sold, so no second one settles on it |
| | `StoriesAgree` | `Story` of each negotiation: its messages, step by step of its status |
| `WantedRoundsProofs` | `TypeCorrect`, `RoundsAnsweredOnce`, `KeysAreSound`, `FrozenForGood`, `AcceptedWasOnOffer` | `IInv`: the two indexes, and acknowledgements that name rows; the UPDATE's WHERE clause looks again, so no lock is needed for safety |
| | `LocksCircleMisnamed` | `LocksHeld`: between steps only wanted rows are held, so whoever holds one and waits for a held row has named a wanted post as his offer |
| | `RoundsImplemented` | refinement of `Rounds`: every step maps to a step or a stutter under `IInv` |
| `ActionPlanProofs` | `TypeCorrect`, `PlansExecuteOnce`, `L3TakesTwoSteps`, `AnswersStayTrue`, `EndsAreFinal` | `IInv`: a request carries only shown tokens (`Carried`), and who holds an open plan's row is alone and past all steps (`Locked`) |
| | `EffectsAreOnWhatWasSeen` | `Counted`: revision and edits advance together |
| | `PurchasesKeepTheirPrice` | `OneIntent`: a user has one open intent on a listing |
| | `RepliesAreExact` | `AnswersInv`: an answer names a stored plan |
| `EmbeddingJobsProofs` | `TypeCorrect`, `CompletedMeansCurrent`, `ChecksNeverRefuse`, `NoStaleWrite` | `IInv`: the job wants the newest revision, nothing in hand is ahead of it, and what is in hand under the current one is current |
| `HandlersProofs` | `SessionsStayChains` | `SessionInv`: one rotation at most has revoked a token that has no successor yet (`RevokedIsMine`), and what has a successor is revoked (`FromIsRevoked`) |
| | `CasesStayAgreed` | `CaseInv`: status tells resolution, a fresh case has no effect; what is found stays found while no takedown is added (`FoundStays`), and one is added only when none stands |
| | `DenialIsFinal` | `TrustShrinks`, one case per action: a replica comes to trust a token only through a request that looked it up, and under a revocation lookups find it; types are enough |
| | `VerificationStaysEarned`, `CodesStayGuarded` | `MemberInv`: one challenge of a campus is open and it is the latest; a row is locked once. `FactorInv`: a code that let someone in is used |
| | `WillStaysRespected` | `PersonaInv`: a published row was published last. `AttentionInv`: `Budgeted`, the bound for a day that begins at any integer; the times of admissions need not be in order, and what is spent is counted from the time of the one that asks. `MemoryInv`: what is told was allowed when it was read, later parts only after earlier ones |
| `DealingsProofs` | `TermsStayHonoured`, `WishesStayRespected`, `SpacesStayOrderly` | `CardInv` (an adoption on its way says yes to the value it carries), `DiscoveryInv` (one statement holds the session), `WishInv` (whoever is being answered has confirmed), `GroupInv`, `CallInv` |
| | `TimesStayReliable` | `LineInv`: the history is sound; interactions are spaced because the limits are checked under the lock against all rows that are there, earlier or later; `WalkInv`: what has been shown ends with the cursor, and what is owed is shown or comes after it |
| `ConversationsProofs` | `PairStaysGuarded` | `ChatInv`: rows are of two people, one request holds a pair's lock, an offer has its initiator's consent only, and a block has every live row of its pair that was not inserted since |
| | `ChatShakesHands` | refinement of `Handshake`: one lemma per operation |
| | `KeysStayHonoured` | `PostInv`, `ChatInv` and `GroupInv`: the indexes, and answers that name rows |
| | `DealingsKeepTheirWord` | all of the above for the composition that `dealings` explores |
| `BackgroundProofs` | `PushesStayAccountedFor` | `OutboxInv`: what was handed over is delivered, queued or known as lost (`Kept`); an event left in peace is held by whoever has claimed it, is in one place, and is nowhere while it can still be dispatched (`Once`) |
| | `RunsEndOnce` | `TurnInv`: who is registered runs there, and an idle turn has no run |
| | `ReviewsStayHonoured` | `MediaInv`: a lasting resource has one job, work in hand is of a job there is, and cases are about resources. `FileInv`: cleaners hold revoked rows only, and a probed file that is not revoked is in the bucket |
| | `WorkKeepsItsWord` | all of the above for the composition that `background` explores |
| `HandlersProofs` | `HandlersKeepTheirWord` | the same for `handlers` |

A composition takes a step of one component and leaves the variables of the others unchanged, so
its theorem is one case per component, each the theorem above.

Only model-checked: liveness (`OverdueSettles`, `EverySettles`, `ConfirmationEnds`,
`BackgroundWorkEnds`), which rests on fairness and so on ENABLED, out of this prover's reach.
Induction over recursive data is too; no module uses a RECURSIVE operator. The three
properties that the code refutes have no theorem.

Proving also corrected the models: `AccessChecks!FirstLookup` and `Interruptions!Verdict` had
been CASEs whose guards overlap, which TLC reads from the top and the logic does not; pages of
*Messages* are sets between two rows, not positions of a sequence; and constants carry the
assumptions that instances had satisfied unspoken (ids that are not "none", two different
parties, tables without common ids).

## 5. Where the code and its documents differ

Three runs end in a counterexample to what a comment or document says.

* `deals_find_price` (`AnnouncedPriceIsRecorded`): settling a negotiation takes over the buyer's
  open intent whatever its price (`negotiate.rs:72`) and announces the negotiated one. The
  comment at `agents/tools/trade.rs:189-191` gives this very disagreement as the reason for
  which the assistant's purchase refuses such an intent.
* `files_find_legacy` (`LegacyIsCleaned`): `docs/operations.md:461` hands historical persona
  assets to the cleanup worker; `delete_remote_object` (`shared_object_cleanup.rs:324`) accepts
  shared file keys only and refuses them for ever.
* `posts_find_undo` (`UndoSparesChanges`): undo takes back an edited listing, since the inverse
  compares the status only (`undo.rs:293`, against `undo.rs:9-14`).

The modules also state the following, each refuted by a trace of its model, without a run of
their own. The operator is named in brackets.

* Trade. Settling a negotiation does not always leave a confirmed record
  (`docs/domain-flows.md:343`, `:348`): the buyer's open intent is read without a lock and
  confirmed only if it is still open, so it may be cancelled, or confirmed without delisting,
  under the settlement, and the listing is sold all the same (`ApprovedIsConfirmed`).
  The order wanted, offer, response (`docs/integration-testing.md:379`) is not kept by who
  names another wanted post as the offer, `wanted_response.rs:488` and `518` (`NoDeadlock`).
  Countered requests never time out, `docs/domain-flows.md:347-350` (`CounteredTimesOut`).
  The revision that a plan compares does not advance with the price, migration 0057 and
  `agents/tools/common.rs:239-243` (`ActsOnPriceSeen`).
* Moderation. A takedown that waited for its listing while a later one came and went is not the
  newest by date, and a restore answers Ok without lifting it, `moderation_case.rs:923` and
  `956-962` against `docs/api-reference.md:1022` (`EveryTakedownIsFound`). An appeal may wait on a case that `review_appeal` (`moderation_case.rs:438`) will
  not take, `docs/trust-safety.md:104` (`AppealAwaitsReview`). A picture can be public before its
  review, migration 0041 and `docs/trust-safety.md:88` (`PublicMediaPassed`), and a message taken
  down on a report is up again when the review of its image ends well, for `finalize_job` writes
  whatever stands there, `moderation_worker.rs:331` (`RestrictedStaysDown`); a completed upload
  can lack its job, `docs/operations.md:461` (`ReviewHasJob`).
* Accounts. A replay revokes all tokens there are, and the rotation under way then stores one
  more, `docs/api-reference.md:116` (`EndedStayEnded`). Denials end at exp and signatures 60 s
  later, `token_denylist.rs:87` and `auth.rs:828`: a revoked token is verified anew for that long
  (`RevokedIsRefused`). A code verifies after the address has
  changed, `docs/api-reference.md:185` (`VerifiedForCurrentEmail`). A second factor can be
  confirmed by a code of the secret before it (`ConfirmedIsProven`). Two administrators can
  demote each other (`AnAdminRemains`), a banned account can be promoted (`AdminsAreNotBanned`),
  and the audit log need not follow the accounts (`RecordsFollow`).
* The user's will. Skill limits can be exceeded, `api/agent_skills.rs:34-38`
  (`SkillsFitThePrompt`); a search in flight writes a cleared session back (`ClearedIsGone`), and
  a failed read of the profile lets the session through (`SessionIsSuppressed`). Two first saves
  are both recorded as a creation (`CreatedOnce`); a rejected picture stays selected
  (`SelectedIsApproved`). An interruption that fails between permission and notification is
  found nowhere, `interruption.rs:24` (`EveryAnswerIsFound`).
* Conversations. A block put up during a creation leaves a live conversation,
  `docs/api-reference.md:737` (`BlockedPairIsNotLive`), and one that is also answered before the
  block commits is connected by its acknowledgement (`BlockedPairIsNotAnswered`,
  `chat_conversation.rs:2463`, `:3174`); who is asked is told that he can close,
  `docs/api-reference.md:490` (`CloseIsAccurate`); a hidden message is still previewed,
  `docs/api-reference.md:686` (`HiddenIsNotPreviewed`); an acknowledgement outlives an edit
  (`AcknowledgedStands`). Concurrent replies lose a count, `docs/posts-api.md:245`
  (`ReplyCountIsTrue`).
* Groups, calls. Who is banned while his message is checked still speaks (`BannedIsSilent`); who
  leaves while being banned is not (`BansAreLiftedByOwners`); a call may ring in a conversation
  that has closed (`CallsNeedLiveTalk`).
* Terms and intents. An adoption compares the words of a term and not the amount sent beside
  them, `agreement.rs:249` against `233-236` (`ConsentIsToTheAmount`); a budget or a window that
  runs backwards is stored and matches what leaves the figure open, `slots.rs:15-16`
  (`EveryMatchIsPossible`). A term may change while the card settles (`SettledIsAgreed`). A mirror may
  appear after the withdrawal (`MirrorsAreLive`), or of a private intent
  (`PrivateStaysPrivate`); roles matter between people after all, `api/intents.rs:732-734`
  (`PeopleMatchMutually`).
* Workers. A processed event may sit in a memory that dies, `outbox.rs:3-12`
  (`ProcessedIsDelivered`); the worker of a node that has no publisher yet (`main.rs:195` against
  `337`) delivers to its own sockets and marks the event, so that a push is dropped without any
  failure (`DroppedOnlyByFailure`); a slow turn can be ended by the reconciler,
  `agent_run_reconciler.rs:11-13` (`SlowTurnsComplete`). "One active turn per conversation",
  `agents/runtime/mod.rs:77`, holds in one replica: a second turn at another one does not cancel
  the first, and a request to cancel that arrives there does not find it (`OneTurnPerTalk`).

Noticed while modelling, not stated: a confirmation with `auto_delist = false` does not look at
the listing (`order.rs:255-279`); POST /api/orders checks the price bound on a read before its
transaction (`api/orders.rs:215`); a keyed retry that overlaps its original is refused, not
replayed, when the wanted post closes in between (`wanted_response.rs:398-460`); the list of
answers hides a withdrawal that the action accepts (`api/wanted_responses.rs:92`); a planned
action that finds nothing to act on is `executed` (`agents/tools/listing.rs:624`); either side may
accept a price discovery, though only the one who did not propose should
(`price_discovery.rs:157`).

## 6. What is not modelled

`PROJECT.json` gives the status of each component with the reason.

* Not at all: the legacy transcript of the assistant, companion and reputation aggregates (single
  queries), prompt assembly (wording), wanted matching and watchlist (scoring, bookmarks), the
  HTTP layer with rate limits and lifecycle, and the Flutter client.
* In part: similarity search (floating point), feed ranking and lists of conversations (queries),
  listing images and avatars in storage (no row to agree with), registration and profiles, what
  single tools of the assistant say, and migrations whose tables no module uses.
* Inside modelled components: audit rows (but for administration), notifications after the
  commit (but for the outbox), text and its moderation provider.
* The circuit breaker of the LLM clients: a provider's failure is an action wherever it matters.
* *Deals* leaves out the order in which transactions lock rows, and an abort; two of them lock the same rows
  in opposite orders (accepting a counter against approving it, `negotiate.rs:392`; confirming
  against settling on the same record), which PostgreSQL resolves by aborting one. It is the one
  hazard in `PROJECT.json` without a property.

## 7. Plan

Done: the core (`Deals`, `WantedRounds` with `Rounds`, `ActionPlan`, `EmbeddingJobs`), then
accounts, dealings and workers, each with its theorems; all safety properties that runs check.

Next:

1. `DealLocks`: the interior of the transactions of `Deals`, one lock per step, shown to
   implement `Deals`; which pairs can deadlock, and that an abort changes nothing.
2. An abstract specification for `Outbox` (an event is owed, then pushed at least once) and one
   for `Sessions` (a chain with one end), with their refinements proved.
3. Theorems about single components of the compositions under names of their own, where a reader
   would look for them first: `BudgetHolds`, `PagesAreComplete`, `OfferedIsStored`.
4. The lists and previews of conversations, as pure definitions over the tables of *Messages*.
5. The circuit breaker and the client's single-flight refresh: small modules.
