------------------------------- MODULE Intents -------------------------------
(***************************************************************************)
(* Intents (services/intent, api/intents.rs): what somebody wants, in his  *)
(* own words, with what was read out of them.  An intent that was inferred *)
(* from a longer sentence or a photo is a draft until its author confirms  *)
(* it.  An active one is shown to the campus, matched against its          *)
(* counterparts, answered, and, when it offers goods at a price, mirrored  *)
(* into the listings.                                                      *)
(*                                                                         *)
(* Creating and mirroring are two transactions of one request; answering   *)
(* reads the intent, opens a conversation, and notes the answer.  Any of   *)
(* these requests may be cut off in between: nothing obliges it to go on.  *)
(* Each intent is of another author, for one's own are never matched.      *)
(***************************************************************************)
EXTENDS Integers, FiniteSets

CONSTANTS
    Wishes,        \* ids of intents
    Answerers,     \* users who answer, none of them an author
    Statements,    \* what clients send or a sentence is read as
    MaxAmount      \* cents and points in time that statements name

Unstated == -1
Window   == [from : -1..MaxAmount, to : -1..MaxAmount]
Anything == [from |-> Unstated, to |-> Unstated]

\* Prices: exact (free is exactly 0), a range, or "whatever", a range without
\* ends.  The server takes windows as they are sent, those that run backwards
\* as well (validate_for_kind looks at lengths of texts only).
Statement == [kind : {"offer", "seek", "people"}, exact : BOOLEAN, price : Window,
              time : Window, ends : BOOLEAN, shown : BOOLEAN]
ASSUME StatementsAssumption ==
    /\ MaxAmount \in Nat
    /\ Statements \subseteq Statement
    /\ \A s \in Statements : s.exact => s.price.from = s.price.to

VARIABLES
    wish,          \* the intents table
    moment,        \* ids whose valid_until has passed
    mirroring,     \* create requests that have yet to project the intent
    mirrored,      \* ids with a projected_listing_id
    answering,     \* what each answer has done so far
    answers,       \* intent_responses
    opened,        \* history: <<answerer, id>> of the conversations opened
    confirmed      \* history: ids whose author wrote or confirmed them himself

wishVars == <<wish, moment, mirroring, mirrored, answering, answers, opened, confirmed>>

-----------------------------------------------------------------------------
(* What was read.                                                          *)

\* nominal_cents: the middle of a range, or the end that was stated.
Nominal(price) ==
    IF price.from # -1 /\ price.to # -1 THEN (price.from + price.to) \div 2
    ELSE IF price.from # -1 THEN price.from ELSE price.to

\* Bug: what is said to be wanted at least is not enforced.
AdmitsUpTo(s, cents) == s.price.to = -1 \/ cents <= s.price.to

\* admits: an exact budget is a ceiling, of a range both ends count.
AdmitsPrice(s, cents) ==
    /\ s.price.to = -1 \/ cents <= s.price.to
    /\ s.exact \/ s.price.from = -1 \/ cents >= s.price.from

\* overlaps
Meet(a, b) ==
    /\ a.from = -1 \/ b.to = -1 \/ a.from <= b.to
    /\ a.to = -1 \/ b.from = -1 \/ a.to >= b.from

\* compatible_with; condition and category are compared in the same manner.
CompatibleWith(s, offer) ==
    /\ Nominal(offer.price) = -1 \/ AdmitsPrice(s, Nominal(offer.price))
    /\ Meet(s.time, offer.time)

Counterpart(kind) ==
    CASE kind = "offer" -> "seek" [] kind = "seek" -> "offer" [] OTHER -> kind

-----------------------------------------------------------------------------
NoWish     == [status |-> "none", said |-> CHOOSE s \in Statements : TRUE]
NoResponse == [stage |-> "idle", wish |-> "none"]

WishInit ==
    /\ wish = [i \in Wishes |-> NoWish]
    /\ moment = {} /\ mirroring = {} /\ mirrored = {}
    /\ answering = [u \in Answerers |-> NoResponse]
    /\ answers = {} /\ opened = {} /\ confirmed = {}

Unborn(i) == wish[i].status = "none"

\* create, which leaves the mirroring to the handlers that do it.
CreateActive(i, s) ==
    /\ Unborn(i)
    /\ wish' = [wish EXCEPT ![i] = [status |-> "active", said |-> s]]
    /\ confirmed' = confirmed \cup {i}
    /\ UNCHANGED <<moment, mirrored, answering, answers, opened>>

CreateIntent(i, s) == CreateActive(i, s) /\ mirroring' = mirroring \cup {i}

\* Bug: what was inferred goes live.
BornActive == "active"
Born       == "draft"

\* create_draft_batch: one transaction for all.
CreateDraftBatch(batch, s) ==
    /\ batch # {} /\ \A i \in batch : Unborn(i)
    /\ wish' = [i \in Wishes |-> IF i \in batch THEN [status |-> Born, said |-> s] ELSE wish[i]]
    /\ UNCHANGED <<moment, mirroring, mirrored, answering, answers, opened, confirmed>>

\* Drafts are meant for the campus and have no end.
Drafted(s)    == [s EXCEPT !.ends = FALSE, !.shown = TRUE]
AsTyped(kind) == [kind |-> kind, exact |-> FALSE, price |-> Anything, time |-> Anything,
                  ends |-> FALSE, shown |-> TRUE]

\* decompose_intent: a list, by its separators or by the model, or one thing.
DecomposeIntent(batch, s) ==
    \/ Cardinality(batch) >= 2 /\ CreateDraftBatch(batch, Drafted([s EXCEPT !.time = Anything]))
    \/ \E i \in batch : batch = {i} /\ CreateIntent(i, AsTyped(s.kind))

\* decompose_photo: even one thing that is only seen is a draft, without a
\* price; nothing that can be read is what was typed.
DecomposePhoto(batch) ==
    \/ CreateDraftBatch(batch, AsTyped("offer"))
    \/ \E i \in batch : batch = {i} /\ CreateActive(i, AsTyped("offer")) /\ UNCHANGED mirroring

\* A look at the row, then the listing, in a transaction of its own.
ProjectToListing(i) ==
    /\ i \in mirroring
    /\ mirroring' = mirroring \ {i}
    /\ mirrored' = IF wish[i].said.kind = "offer" /\ Nominal(wish[i].said.price) # -1
                   THEN mirrored \cup {i} ELSE mirrored
    /\ UNCHANGED <<wish, moment, answering, answers, opened, confirmed>>

Becomes(i, before, status) ==
    /\ wish[i].status \in before
    /\ wish' = [wish EXCEPT ![i].status = status]
    /\ UNCHANGED <<moment, mirroring, mirrored, answering, answers, opened>>

Confirm(i)  == Becomes(i, {"draft"}, "active") /\ confirmed' = confirmed \cup {i}
Fulfil(i)   == Becomes(i, {"active"}, "fulfilled") /\ UNCHANGED confirmed
Withdraw(i) == Becomes(i, {"draft", "active"}, "withdrawn") /\ UNCHANGED confirmed

MomentPasses(i) ==
    /\ ~Unborn(i) /\ wish[i].said.ends /\ i \notin moment
    /\ moment' = moment \cup {i}
    /\ UNCHANGED <<wish, mirroring, mirrored, answering, answers, opened, confirmed>>

\* Bug: the sweep takes drafts for what it is looking for.
OverdueDrafts == {i \in moment : wish[i].status = "draft"}
OverdueWishes == {i \in moment : wish[i].status = "active"}

\* run_expiry_worker
ExpireDue ==
    /\ OverdueWishes # {}
    /\ wish' = [i \in Wishes |-> IF i \in OverdueWishes THEN [wish[i] EXCEPT !.status = "expired"]
                                 ELSE wish[i]]
    /\ UNCHANGED <<moment, mirroring, mirrored, answering, answers, opened, confirmed>>

-----------------------------------------------------------------------------
(* What the campus sees.                                                   *)

\* pool, campus_feed and answerable_author ask for the same.
Answerable(i) == wish[i].status = "active" /\ wish[i].said.shown /\ i \notin moment

\* match_roles: the seeker's statement is the constraint, and between people
\* that of the other one.
Constraint(i, j) == IF wish[i].said.kind = "seek" THEN wish[i].said ELSE wish[j].said
Offered(i, j)    == IF wish[i].said.kind = "seek" THEN wish[j].said ELSE wish[i].said

\* What others have made public of the kind asked for.
Pool(i) == {j \in Wishes \ {i} : Answerable(j) /\ wish[j].said.kind = Counterpart(wish[i].said.kind)}

\* intent_matches
Matches(i) == {j \in Pool(i) : ~Unborn(i) /\ CompatibleWith(Constraint(i, j), Offered(i, j))}

\* respond_to_intent, in three parts.
ReadAuthor(u, i) ==
    /\ answering[u] = NoResponse /\ Answerable(i)
    /\ answering' = [answering EXCEPT ![u] = [stage |-> "read", wish |-> i]]
    /\ UNCHANGED <<wish, moment, mirroring, mirrored, answers, opened, confirmed>>

OpenConversation(u) ==
    /\ answering[u].stage = "read"
    /\ answering' = [answering EXCEPT ![u].stage = "opened"]
    /\ opened' = opened \cup {<<u, answering[u].wish>>}
    /\ UNCHANGED <<wish, moment, mirroring, mirrored, answers, confirmed>>

\* ON CONFLICT DO NOTHING; its failure does not fail the request.
RecordResponse(u) ==
    /\ answering[u].stage = "opened"
    /\ answering' = [answering EXCEPT ![u] = NoResponse]
    /\ \/ answers' = answers \cup {<<u, answering[u].wish>>}
       \/ UNCHANGED answers
    /\ UNCHANGED <<wish, moment, mirroring, mirrored, opened, confirmed>>

WishNext ==
    \/ ExpireDue
    \/ \E i \in Wishes :
          \/ Confirm(i) \/ Fulfil(i) \/ Withdraw(i) \/ MomentPasses(i) \/ ProjectToListing(i)
          \/ \E s \in Statements : CreateIntent(i, s)
          \/ \E u \in Answerers : ReadAuthor(u, i)
    \/ \E batch \in SUBSET Wishes :
          \/ DecomposePhoto(batch)
          \/ \E s \in Statements : CreateDraftBatch(batch, Drafted(s)) \/ DecomposeIntent(batch, s)
    \/ \E u \in Answerers : OpenConversation(u) \/ RecordResponse(u)

\* The worker sweeps every hour.
WishFairness == WF_wishVars(ExpireDue)
WishSpec == WishInit /\ [][WishNext]_wishVars /\ WishFairness

-----------------------------------------------------------------------------
\* Nothing that was only inferred reaches anybody before its author has said
\* so: no match shows it, no listing mirrors it, no conversation is about it.
InferredNeedsConsent ==
    \A i \in Wishes \ confirmed :
       /\ i \notin mirrored /\ \A u \in Answerers : <<u, i>> \notin opened \cup answers
       /\ \A j \in Wishes : i \notin Matches(j)

Within(x, w) == (w.from = -1 \/ w.from <= x) /\ (w.to = -1 \/ x <= w.to)
Forwards(w)  == w.from = -1 \/ w.to = -1 \/ w.from <= w.to

PriceIsPossible(mine, other) ==
    LET budget == IF mine.exact THEN [mine.price EXCEPT !.from = -1] ELSE mine.price
    IN  \E cents \in 0..MaxAmount : Within(cents, budget) /\ Within(cents, other.price)
TimeIsPossible(mine, other) ==
    \E hour \in 0..MaxAmount : Within(hour, mine.time) /\ Within(hour, other.time)

\* A match breaks nothing that either side has stated: there are a price and
\* a time for which both have left room, unless one of them has left none
\* himself.  The other dimension of such a statement counts all the same.
MatchesArePossible ==
    \A i \in Wishes : \A j \in Matches(i) :
       LET mine == Constraint(i, j)
           other == Offered(i, j)
       IN /\ Forwards(mine.price) /\ Forwards(other.price) => PriceIsPossible(mine, other)
          /\ Forwards(mine.time) /\ Forwards(other.time) => TimeIsPossible(mine, other)

\* Refuted: every match is possible.  A range or a window that runs backwards
\* is stored and meets whatever leaves the figure open (slots.rs:72-87, 115-130),
\* though slots.rs:15-16 promises to be strict on statements.
EveryMatchIsPossible ==
    \A i \in Wishes : \A j \in Matches(i) :
       /\ PriceIsPossible(Constraint(i, j), Offered(i, j))
       /\ TimeIsPossible(Constraint(i, j), Offered(i, j))

\* An intent whose moment has passed does not stay active.
MomentsPass ==
    \A i \in Wishes : (i \in moment /\ wish[i].status = "active") ~> wish[i].status # "active"

\* Not so: the author may withdraw before the listing is inserted, and nothing
\* takes it down when he withdraws later.
MirrorsAreLive == \A i \in mirrored : wish[i].status = "active"

\* Not so: project_to_listing does not look at the visibility.
PrivateStaysPrivate == \A i \in mirrored : wish[i].said.shown

\* Not so, although api/intents.rs:732-734 says that the order of the roles
\* does not matter between people: a budget is a ceiling for the other's only.
PeopleMatchMutually ==
    \A i, j \in Wishes :
       /\ Answerable(i) /\ Answerable(j) /\ wish[i].said.kind = "people"
       /\ j \in Matches(i)
       => i \in Matches(j)
==============================================================================
