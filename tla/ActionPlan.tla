------------------------------ MODULE ActionPlan ------------------------------
(***************************************************************************)
(* Agent action plans (`agent_action_plans`): the model proposes, the user *)
(* confirms, and only a confirmed plan changes the market.                 *)
(*                                                                         *)
(* A proposal reads the listing's content_revision and then stores the     *)
(* plan.  A confirmation is one transaction: it locks the plan row, checks *)
(* token and status, runs the action on the locked listing and commits     *)
(* both together; requests wait, are cut off and lose their responses      *)
(* while the listing, memberships and older deals go on changing.          *)
(***************************************************************************)
EXTENDS Integers, FiniteSets

CONSTANTS
    Listings, Users,
    Owner,            \* [Listings -> Users]
    Plans,            \* ids agent_action_plans may use
    Calls,            \* requests in flight
    Actions,          \* tools the model may propose
    Keys,             \* Idempotency-Key values
    Prices,
    None,             \* SQL NULL
    MaxRevision       \* bound: content_revision of a listing

ASSUME OwnerAssumption  == Owner \in [Listings -> Users]
ASSUME ActionAssumption == Actions \subseteq {"purchase", "negotiate", "update", "delete"}
ASSUME PriceAssumption  == Prices \subseteq Nat
ASSUME NoneAssumption   == None \notin Plans \cup Keys \cup Nat \cup {"done", "reused", "nothing"}
ASSUME RevAssumption    == MaxRevision \in Nat \ {0}

VARIABLES
    listing,     \* inventory: [Listings -> [status, revision, price, edits]]
    restricted,  \* listings with an unreleased restriction effect
    verified,    \* users whose campus membership is verified
    intents,     \* orders that are intent_pending
    talks,       \* hitl_requests that are pending
    plan,        \* the agent_action_plans table
    elapsed,     \* plans whose expires_at has passed
    call,        \* requests in flight
    known,       \* history: tokens the user has been shown
    facts,       \* history: business facts each plan has committed
    told,        \* history: final answers users have received
    acks         \* history: answers to keyed proposals

market  == <<listing, restricted, verified, intents, talks>>
history == <<known, facts, told, acks>>
vars    == <<market, plan, elapsed, call, history>>

-----------------------------------------------------------------------------
NoRow  == [status |-> "absent"]
NoCall == [op |-> "none"]

Tokens   == {"primary", "second"}
Results  == {"done", "reused", "nothing", None}
Terminal == {"executed", "failed", "cancelled", "expired"}

\* The tools' arguments: a price, or None to edit the content or to delete.
Amounts(action) ==
    CASE action \in {"purchase", "negotiate"} -> Prices
      [] action = "update"                    -> Prices \cup {None}
      [] action = "delete"                    -> {None}

\* What a proposal asks for.
Request ==
    {q \in [user : Users, action : Actions, listing : Listings,
            amount : Prices \cup {None}, key : Keys \cup {None}] :
        q.amount \in Amounts(q.action)}
\* `edits` counts, independently of the trigger-owned revision, the changes
\* of content, status and restriction; `seen` is what the proposal was
\* looking at.  Both are history.
Listing == [status : {"active", "sold", "deleted"}, revision : Nat, price : Prices, edits : Nat]
Intent  == [listing : Listings, user : Users, price : Prices]
View    == [edits : Nat, price : Prices]
Draft   == [op : {"propose"}, request : Request, snapshot : Nat \cup {None}, seen : View]
Confirm == [op : {"confirm"}, plan : Plans, token : Tokens \cup {"wrong"}, late : BOOLEAN,
            executing : BOOLEAN]
PlanRow == [status : {"pending", "confirmed_once"} \cup Terminal, request : Request,
            snapshot : Nat \cup {None}, seen : View, result : Results]

TypeOK ==
    /\ listing \in [Listings -> Listing]
    /\ restricted \subseteq Listings
    /\ verified \subseteq Users
    /\ intents \subseteq Intent
    /\ talks \subseteq [listing : Listings, user : Users]
    /\ plan \in [Plans -> PlanRow \cup {NoRow}]
    /\ elapsed \subseteq Plans
    /\ call \in [Calls -> Draft \cup Confirm \cup {NoCall}]
    /\ known \in [Plans -> SUBSET Tokens]
    /\ facts \in [Plans -> Nat]
    /\ told \subseteq [plan : Plans, status : Terminal, result : Results]
    /\ acks \subseteq [request : Request, plan : Plans, ok : BOOLEAN]

Rows    == {p \in Plans : plan[p] # NoRow}
L3(p)   == plan[p].request.action \in {"purchase", "negotiate"}
Open(p) == plan[p].status \in {"pending", "confirmed_once"}

\* The confirmation that holds the lock of the plan's row.
Executing(c) == call[c].op = "confirm" /\ call[c].executing
Held(p)      == \E c \in Calls : Executing(c) /\ call[c].plan = p

\* maintain_inventory_content_revision and the restriction trigger.  Bug: as
\* in 0056, a restriction does not touch the revision.
RevisedByContent(what) == what \in {"content", "status"}
Revised(what) == what \in {"content", "status", "restriction"}

Touch(l, what) ==
    [listing[l] EXCEPT !.revision = IF Revised(what) THEN @ + 1 ELSE @,
                       !.edits    = IF what = "price" THEN @ ELSE @ + 1]
CanTouch(l) == listing[l].revision < MaxRevision

\* Half to one and a half times the listed price, both rounded down.
InBounds(offer, price) == offer \in (price \div 2) .. ((price * 3) \div 2)

Init ==
    /\ \E price \in Prices :
           listing = [l \in Listings |->
               [status |-> "active", revision |-> 1, price |-> price, edits |-> 0]]
    /\ restricted = {} /\ intents = {} /\ talks = {}
    /\ verified = Users
    /\ plan = [p \in Plans |-> NoRow]
    /\ elapsed = {}
    /\ call = [c \in Calls |-> NoCall]
    /\ known = [p \in Plans |-> {}]
    /\ facts = [p \in Plans |-> 0]
    /\ told = {} /\ acks = {}

-----------------------------------------------------------------------------
(* Proposing: propose_action_plan and AgentPlanService::create_plan.       *)

\* proposal_request_hash.  Bugs: the hash is not compared; it covers the
\* revision snapshot, so that a retry after an edit is a conflict.
SameRequestAny(p, c)      == TRUE
SameRequestSnapshot(p, c) ==
    plan[p].request = call[c].request /\ plan[p].snapshot = call[c].snapshot
SameRequest(p, c) == plan[p].request = call[c].request

KeyRows(request) ==
    {p \in Rows : request.key # None /\ plan[p].request.key = request.key
                  /\ plan[p].request.user = request.user}

\* attach_listing_revision_snapshot: an unlocked read, of one's own listing
\* only when the plan is to change it.
Snapshot(request) ==
    IF request.action \in {"update", "delete"} /\ Owner[request.listing] # request.user
    THEN None ELSE listing[request.listing].revision

Propose(c, request) ==
    /\ call[c] = NoCall
    /\ request.user \in verified
    /\ Rows # Plans \/ KeyRows(request) # {}   \* bound: ids left
    /\ call' = [call EXCEPT ![c] =
           [op |-> "propose", request |-> request, snapshot |-> Snapshot(request),
            seen |-> [edits |-> listing[request.listing].edits,
                      price |-> listing[request.listing].price]]]
    /\ UNCHANGED <<market, plan, elapsed, history>>

Answered(c, p, ok) ==
    /\ acks' = IF call[c].request.key = None THEN acks
               ELSE acks \cup {[request |-> call[c].request, plan |-> p, ok |-> ok]}
    /\ call' = [call EXCEPT ![c] = NoCall]

InsertPlan(c, p) ==
    /\ call[c].op = "propose"
    /\ KeyRows(call[c].request) = {}
    /\ p \notin Rows
    /\ plan' = [plan EXCEPT ![p] =
           [status |-> "pending", request |-> call[c].request,
            snapshot |-> call[c].snapshot, seen |-> call[c].seen, result |-> None]]
    /\ Answered(c, p, TRUE)
    /\ UNCHANGED <<market, elapsed, known, facts, told>>

\* ON CONFLICT DO NOTHING, then SELECT ... FOR UPDATE of the row with the key.
ReplayProposal(c, p) ==
    /\ call[c].op = "propose"
    /\ p \in KeyRows(call[c].request)
    /\ ~Held(p)
    /\ Answered(c, p, SameRequest(p, c))
    /\ UNCHANGED <<market, plan, elapsed, known, facts, told>>

-----------------------------------------------------------------------------
(* GET /api/agent/plans and POST /api/agent/plans/{id}/cancel.             *)

\* The capability of the plan's current step.  Bug: an L3 plan shows both.
ShownBoth(p) == IF L3(p) THEN Tokens ELSE {"primary"}
Shown(p) == IF L3(p) /\ plan[p].status = "confirmed_once" THEN {"second"} ELSE {"primary"}

ListPlan(p) ==
    /\ p \in Rows \ elapsed /\ Open(p)
    /\ plan[p].request.user \in verified
    /\ known' = [known EXCEPT ![p] = @ \cup Shown(p)]
    /\ UNCHANGED <<market, plan, elapsed, call, facts, told, acks>>

\* Bug: whatever has not been cancelled can be.
CancellableAny(p) == plan[p].status # "cancelled"
Cancellable(p) == Open(p)

Cancel(p) ==
    /\ p \in Rows /\ ~Held(p)
    /\ plan[p].request.user \in verified
    /\ Cancellable(p)
    /\ plan' = [plan EXCEPT ![p].status = "cancelled"]
    /\ UNCHANGED <<market, elapsed, call, history>>

-----------------------------------------------------------------------------
(* POST /api/agent/plans/{id}/confirm: AgentPlanService::confirm.          *)

\* BEGIN fixes NOW(): whether the plan is late is decided here, however long
\* the request then waits for the row.
Ask(c, p, token) ==
    /\ call[c] = NoCall
    /\ p \in Rows
    /\ plan[p].request.user \in verified
    /\ token \in known[p] \cup {"wrong"}
    /\ call' = [call EXCEPT ![c] = [op |-> "confirm", plan |-> p, token |-> token,
                                    late |-> p \in elapsed, executing |-> FALSE]]
    /\ UNCHANGED <<market, plan, elapsed, history>>

Waiting(c) == call[c].op = "confirm" /\ ~call[c].executing /\ ~Held(call[c].plan)

\* Bug: an armed plan accepts the second token only.
TokenIsValidSecond(c) ==
    LET p == call[c].plan IN
    call[c].token = IF L3(p) /\ plan[p].status # "pending" THEN "second" ELSE "primary"
TokenIsValid(c) ==
    LET p == call[c].plan IN
    IF plan[p].status = "pending" THEN call[c].token = "primary"
    ELSE call[c].token = "primary" \/ (L3(p) /\ call[c].token = "second")

\* Bugs: an executed plan is confirmable; expiry is looked at before status.
ConfirmableExecuted(p) == Open(p) \/ plan[p].status = "executed"
Confirmable(p) == Open(p)
ExpiresAny(c)  == call[c].late
Expires(c)     == Confirmable(call[c].plan) /\ call[c].late

\* Whether the token only earns the second step's challenge.  Bug: the primary
\* token submitted twice counts as two steps.
ChallengesOnce(c) == L3(call[c].plan) /\ plan[call[c].plan].status = "pending"
Challenges(c)     == L3(call[c].plan) /\ call[c].token = "primary"

\* The response reaches the user, or is lost on the way.
Reply(c, delivered, p, status, result) ==
    /\ told' = IF delivered
               THEN told \cup {[plan |-> p, status |-> status, result |-> result]} ELSE told
    /\ call' = [call EXCEPT ![c] = NoCall]

\* Not found: the token is wrong.
Reject(c) ==
    /\ Waiting(c) /\ ~TokenIsValid(c)
    /\ call' = [call EXCEPT ![c] = NoCall]
    /\ UNCHANGED <<market, plan, elapsed, history>>

\* AlreadyExecuted, Expired, NotConfirmable: the recorded end is reported.
Repeat(c, delivered) ==
    LET p == call[c].plan IN
    /\ Waiting(c) /\ TokenIsValid(c)
    /\ ~Confirmable(p) /\ ~Expires(c)
    /\ Reply(c, delivered, p, plan[p].status, plan[p].result)
    /\ UNCHANGED <<market, plan, elapsed, known, facts, acks>>

Expire(c, delivered) ==
    LET p == call[c].plan IN
    /\ Waiting(c) /\ TokenIsValid(c)
    /\ Expires(c)
    /\ plan' = [plan EXCEPT ![p].status = "expired"]
    /\ Reply(c, delivered, p, "expired", plan[p].result)
    /\ UNCHANGED <<market, elapsed, known, facts, acks>>

Challenge(c, delivered) ==
    LET p == call[c].plan IN
    /\ Waiting(c) /\ TokenIsValid(c)
    /\ Confirmable(p) /\ ~Expires(c) /\ Challenges(c)
    /\ plan' = [plan EXCEPT ![p].status = "confirmed_once"]
    /\ known' = IF delivered THEN [known EXCEPT ![p] = @ \cup {"second"}] ELSE known
    /\ call' = [call EXCEPT ![c] = NoCall]
    /\ UNCHANGED <<market, elapsed, facts, told, acks>>

\* The row stays locked, and so does the membership.
StartExecution(c) ==
    LET p == call[c].plan IN
    /\ Waiting(c) /\ TokenIsValid(c)
    /\ Confirmable(p) /\ ~Expires(c) /\ ~Challenges(c)
    /\ call' = [call EXCEPT ![c].executing = TRUE]
    /\ UNCHANGED <<market, plan, elapsed, history>>

-----------------------------------------------------------------------------
(* The actions, on the locked listing: execute_planned_action_in_tx.       *)

\* Bug: the revision the model was looking at is not compared.
IsCurrentAny(p) == TRUE
IsCurrent(p) == plan[p].snapshot \in {None, listing[plan[p].request.listing].revision}

\* The pending intent a purchase is taken to repeat.  Bug: whatever its price.
RepeatsAny(i, amount) == TRUE
Repeats(i, amount) == i.price = amount

\* execute_purchase_item_in_tx, from the revision check on.
PurchaseOutcome(u, l, amount) ==
    LET open == {i \in intents : i.listing = l /\ i.user = u} IN
    IF l \in restricted                                           THEN "nothing"
    ELSE IF Owner[l] \notin verified                              THEN "error"
    ELSE IF listing[l].status # "active"                          THEN "nothing"
    ELSE IF u = Owner[l] \/ ~InBounds(amount, listing[l].price)   THEN "error"
    ELSE IF open = {}                                             THEN "done"
    ELSE IF \E i \in open : Repeats(i, amount)                     THEN "reused"
    ELSE "error"

\* execute_negotiate_item_in_tx, likewise.
NegotiateOutcome(u, l, amount) ==
    IF u = Owner[l] \/ Owner[l] \notin verified \/ l \in restricted THEN "error"
    ELSE IF listing[l].status # "active"                            THEN "nothing"
    ELSE IF ~InBounds(amount, listing[l].price)                     THEN "error"
    ELSE IF [listing |-> l, user |-> u] \in talks                   THEN "nothing"
    ELSE "done"

\* execute_update_listing_in_tx: owned rows only, and only active ones.
UpdateOutcome(u, l) ==
    IF u # Owner[l]                        THEN "nothing"
    ELSE IF l \in restricted               THEN "error"
    ELSE IF listing[l].status # "active"   THEN "nothing"
    ELSE "done"

\* execute_delete_listing_in_tx: a restricted listing may be deleted.
DeleteOutcome(u, l) ==
    IF u # Owner[l] \/ listing[l].status = "sold" THEN "nothing"
    ELSE IF listing[l].status = "deleted"         THEN "reused"
    ELSE "done"

Outcome(p) ==
    LET q == plan[p].request IN
    IF q.user \notin verified THEN "error"
    ELSE IF ~IsCurrent(p)     THEN "error"
    ELSE CASE q.action = "purchase"  -> PurchaseOutcome(q.user, q.listing, q.amount)
           [] q.action = "negotiate" -> NegotiateOutcome(q.user, q.listing, q.amount)
           [] q.action = "update"    -> UpdateOutcome(q.user, q.listing)
           [] q.action = "delete"    -> DeleteOutcome(q.user, q.listing)

\* The fact an action leaves when its outcome is "done".
Apply(q) ==
    LET l == q.listing IN
    CASE q.action = "purchase" ->
           /\ intents' = intents \cup {[listing |-> l, user |-> q.user, price |-> q.amount]}
           /\ UNCHANGED <<listing, talks>>
      [] q.action = "negotiate" ->
           /\ talks' = talks \cup {[listing |-> l, user |-> q.user]}
           /\ UNCHANGED <<listing, intents>>
      [] q.action = "update" ->
           /\ q.amount = None => CanTouch(l)
           /\ listing' = [listing EXCEPT ![l] =
                  IF q.amount = None THEN Touch(l, "content")
                  ELSE [Touch(l, "price") EXCEPT !.price = q.amount]]
           /\ UNCHANGED <<intents, talks>>
      [] q.action = "delete" ->
           /\ CanTouch(l)
           /\ listing' = [listing EXCEPT ![l] = [Touch(l, "status") EXCEPT !.status = "deleted"]]
           /\ UNCHANGED <<intents, talks>>

\* Ok commits savepoint and status together.  Bugs, as before 0058: the process
\* stops after the action and before the status, which is as it was or has
\* been committed as `executing`.
RecordedLater(p, result)     == plan
RecordedExecuting(p, result) == [plan EXCEPT ![p].status = "executing"]
Recorded(p, result) ==
    [plan EXCEPT ![p].status = IF result = "error" THEN "failed" ELSE "executed",
                 ![p].result = IF result = "error" THEN None ELSE result]

\* Err rolls the savepoint back; a refused text or a failed statement is one.
Execute(c, delivered, outcome) ==
    LET p == call[c].plan
    IN /\ Executing(c)
       /\ outcome \in {Outcome(p), "error"}
       /\ IF outcome = "done" THEN Apply(plan[p].request)
          ELSE UNCHANGED <<listing, intents, talks>>
       /\ facts' = IF outcome = "done" THEN [facts EXCEPT ![p] = @ + 1] ELSE facts
       /\ plan' = Recorded(p, outcome)
       /\ Reply(c, delivered, p, IF outcome = "error" THEN "failed" ELSE "executed",
                IF outcome = "error" THEN None ELSE outcome)
       /\ UNCHANGED <<restricted, verified, elapsed, known, acks>>

\* A crash, a timeout or a cut connection before COMMIT: nothing happened.
Abort(c) ==
    /\ call[c] # NoCall
    /\ call' = [call EXCEPT ![c] = NoCall]
    /\ UNCHANGED <<market, plan, elapsed, history>>

-----------------------------------------------------------------------------
(* The rest of the market, one committed transaction per step.             *)

Others == UNCHANGED <<verified, intents, talks, plan, elapsed, call, history>>

Edit(l) ==
    /\ listing[l].status = "active" /\ l \notin restricted /\ CanTouch(l)
    /\ listing' = [listing EXCEPT ![l] = Touch(l, "content")]
    /\ UNCHANGED restricted /\ Others

\* suggested_price_cny is not among the columns the trigger compares.
Reprice(l, price) ==
    /\ listing[l].status = "active" /\ l \notin restricted
    /\ price # listing[l].price
    /\ listing' = [listing EXCEPT ![l] = [Touch(l, "price") EXCEPT !.price = price]]
    /\ UNCHANGED restricted /\ Others

\* A confirmed deal, an owner's deletion, a relisting.
SetStatus(l, status) ==
    /\ CanTouch(l)
    /\ listing[l].status = "active" <=> status # "active"
    /\ status = "deleted" \/ l \notin restricted
    /\ listing' = [listing EXCEPT ![l] = [Touch(l, "status") EXCEPT !.status = status]]
    /\ UNCHANGED restricted /\ Others

Restriction(l) ==
    /\ CanTouch(l)
    /\ restricted' = IF l \in restricted THEN restricted \ {l} ELSE restricted \cup {l}
    /\ listing' = [listing EXCEPT ![l] = Touch(l, "restriction")]
    /\ Others

\* A membership a confirmation has locked FOR SHARE waits for its end.
Membership(u) ==
    /\ \A c \in Calls : Executing(c) => plan[call[c].plan].request.user # u
    /\ verified' = IF u \in verified THEN verified \ {u} ELSE verified \cup {u}
    /\ UNCHANGED <<listing, restricted, intents, talks, plan, elapsed, call, history>>

\* POST /api/orders: the buyer opens an intent by hand, his only one, at a price
\* that was in bounds when he asked.
OpenIntent(i) ==
    /\ listing[i.listing].status = "active" /\ i.listing \notin restricted
    /\ i.user # Owner[i.listing]
    /\ ~\E j \in intents : j.listing = i.listing /\ j.user = i.user
    /\ intents' = intents \cup {i}
    /\ UNCHANGED <<listing, restricted, verified, talks, plan, elapsed, call, history>>

\* The deals and negotiations of Deals come to an end.
EndIntent(i) ==
    /\ i \in intents
    /\ intents' = intents \ {i}
    /\ UNCHANGED <<listing, restricted, verified, talks, plan, elapsed, call, history>>

EndTalk(t) ==
    /\ t \in talks
    /\ talks' = talks \ {t}
    /\ UNCHANGED <<listing, restricted, verified, intents, plan, elapsed, call, history>>

Elapse(p) ==
    /\ p \in Rows \ elapsed
    /\ elapsed' = elapsed \cup {p}
    /\ UNCHANGED <<market, plan, call, history>>

-----------------------------------------------------------------------------
Confirmation(c) ==
    \/ Reject(c) \/ StartExecution(c)
    \/ \E delivered \in BOOLEAN : \/ Repeat(c, delivered) \/ Expire(c, delivered)
                                  \/ Challenge(c, delivered)
                                  \/ \E outcome \in Results \cup {"error"} :
                                         Execute(c, delivered, outcome)

Market ==
    \/ \E l \in Listings : \/ Edit(l) \/ Restriction(l)
                           \/ \E price \in Prices : Reprice(l, price)
                           \/ \E s \in {"active", "sold", "deleted"} : SetStatus(l, s)
    \/ \E u \in Users : Membership(u)
    \/ \E i \in Intent : OpenIntent(i)
    \/ \E i \in intents : EndIntent(i)
    \/ \E t \in talks : EndTalk(t)

Next ==
    \/ \E c \in Calls :
        \/ \E request \in Request : Propose(c, request)
        \/ \E p \in Plans : InsertPlan(c, p) \/ ReplayProposal(c, p)
        \/ \E p \in Plans, token \in Tokens \cup {"wrong"} : Ask(c, p, token)
        \/ Confirmation(c)
        \/ Abort(c)
    \/ \E p \in Plans : ListPlan(p) \/ Cancel(p) \/ Elapse(p)
    \/ Market

Spec == Init /\ [][Next]_vars

-----------------------------------------------------------------------------
(* Fairness: a user who has a token keeps asking while the membership lets  *)
(* him, a request that gets nowhere is cut off, but not every request is,  *)
(* and not every response is lost.                                         *)

Asked(p, token, c) ==
    call[c].op = "confirm" /\ call[c].plan = p /\ call[c].token = token

AskAgain(p, token) == \E c \in Calls : Ask(c, p, token)
Served(p, token) ==
    \E c \in Calls : /\ Asked(p, token, c)
                     /\ \/ Repeat(c, TRUE) \/ Expire(c, TRUE)
                        \/ Challenge(c, TRUE) \/ StartExecution(c)
Done(p, token) ==
    \E c \in Calls, outcome \in Results \cup {"error"} :
        Asked(p, token, c) /\ Execute(c, TRUE, outcome)

PlanFairness ==
    /\ \A c \in Calls : WF_vars(Abort(c))
    /\ \A p \in Plans, token \in Tokens :
           /\ SF_vars(AskAgain(p, token))
           /\ SF_vars(Served(p, token))
           /\ SF_vars(Done(p, token))

FairSpec == Spec /\ PlanFairness

-----------------------------------------------------------------------------
(* Properties.                                                             *)

\* A plan leaves at most one business fact, however often it is confirmed and
\* wherever the confirmation is cut off, and then it is `executed`.
ExecutedOnce ==
    \A p \in Plans :
        /\ facts[p] <= 1
        /\ facts[p] = 1 <=> p \in Rows /\ plan[p].status = "executed" /\ plan[p].result = "done"

\* The second token of an L3 plan is out only after a first confirmation, and
\* the action has run only if it was: two primary tokens are never two steps.
TwoSteps ==
    \A p \in Rows :
        /\ "second" \in known[p] => L3(p) /\ plan[p].status # "pending"
        /\ L3(p) /\ plan[p].status \in {"executed", "failed"} => "second" \in known[p]

\* Whatever final answer a user has received for a plan stays true of it:
\* retries over lost responses and a cancellation from another device never
\* contradict each other.
VerdictsAgree ==
    \A v \in told : plan[v.plan].status = v.status /\ plan[v.plan].result = v.result

\* A keyed proposal is answered with a plan for exactly this request, and is
\* refused only when the key belongs to another one, even if the listing has
\* changed between the two.
ReplaysAreExact ==
    \A a \in acks : a.ok <=> plan[a.plan].request = a.request

\* A plan that has ended neither comes back nor leaves another fact.
TerminalIsFinal ==
    [][\A p \in Rows : plan[p].status \in Terminal =>
            plan'[p] = plan[p] /\ facts'[p] = facts[p]]_vars

\* An action takes effect only on the listing the proposal was looking at:
\* no edit, no change of status and no restriction, released or not, has come
\* in between.
ActsOnWhatWasSeen ==
    [][\A p \in Rows : facts'[p] # facts[p] =>
            listing[plan[p].request.listing].edits = plan[p].seen.edits]_vars

\* A purchase that ends as executed has left a pending intent of exactly the
\* price the user confirmed, his only one for the listing, whether it made
\* the intent or found it there.
IntentIsAtConfirmedPrice ==
    [][\A p \in Rows :
          LET q == plan[p].request IN
          /\ q.action = "purchase" /\ plan[p].status # "executed"
          /\ plan'[p].status = "executed" /\ plan'[p].result # "nothing"
          => {i \in intents' : i.listing = q.listing /\ i.user = q.user} =
                 {[listing |-> q.listing, user |-> q.user, price |-> q.amount]}]_vars

\* A user who has a plan's token gets a final answer, whatever responses are
\* lost on the way, unless his membership is gone for good.
ConfirmationEnds ==
    (\A u \in Users : []<>(u \in verified)) =>
        \A p \in Plans : "primary" \in known[p] ~> \E v \in told : v.plan = p

\* What the snapshot is said to protect: the price the user was shown.
\* (attach_listing_revision_snapshot: "cannot silently act on a newer price")
ActsOnPriceSeen ==
    [][\A p \in Rows : facts'[p] # facts[p] =>
            listing[plan[p].request.listing].price = plan[p].seen.price]_vars
=============================================================================
