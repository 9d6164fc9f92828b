---------------------------- MODULE WantedRounds ----------------------------
(***************************************************************************)
(* Answers to wanted posts (`wanted_responses`) at the grain of row locks. *)
(*                                                                         *)
(* Creating an answer and settling one are transactions that lock the      *)
(* wanted row, then the offer row, and commit; each lock is a step, so     *)
(* requests interleave and wait for each other.  Transactions that lock    *)
(* one inventory row only (fulfil, delete, relist, a confirmed deal,       *)
(* moderation) are one step, taken while no request holds that row.        *)
(*                                                                         *)
(* Rounds is what the whole is meant to implement.                         *)
(***************************************************************************)
EXTENDS Integers, FiniteSets

CONSTANTS
    Wanteds, Offers,  \* rows of `inventory` by direction
    Users,
    Poster,           \* [Wanteds \cup Offers -> Users]: inventory.owner_id
    Responses,        \* ids wanted_responses may use
    Calls,            \* requests in flight (one database connection each)
    Keys,             \* Idempotency-Key values
    Texts,            \* normalised messages
    None,             \* SQL NULL
    MaxEpoch          \* bound: rounds of one wanted post

Listings == Wanteds \cup Offers

ASSUME PosterAssumption == Poster \in [Listings -> Users]
ASSUME KindAssumption   == Wanteds \cap Offers = {}
ASSUME NoneAssumption   == None \notin Listings \cup Calls \cup Keys \cup Nat
ASSUME EpochAssumption  == MaxEpoch \in Nat

VARIABLES
    listing,    \* [Listings -> [status, epoch]]
    restricted, \* listings with an unreleased restriction effect
    verified,   \* users whose campus membership is verified
    response,   \* the wanted_responses table
    call,       \* requests in flight
    lock,       \* row locks: [Listings -> the call that holds the row]
    acks        \* history: keyed creations answered with success

vars == <<listing, restricted, verified, response, call, lock, acks>>

-----------------------------------------------------------------------------
NoRow  == [status |-> "absent"]
NoCall == [op |-> "none"]

ListingRow  == [status : {"active", "sold", "deleted", "fulfilled"}, epoch : Nat]
ResponseRow == [status : {"pending", "accepted", "dismissed", "withdrawn"},
                wanted : Wanteds, offer : Offers, text : Texts,
                epoch  : Nat \cup {None},        \* None: history before rounds
                key    : Keys \cup {None}]
Creation    == [op : {"respond"}, wanted : Wanteds, by : Users,
                offer : Listings,                \* whatever the client names
                text : Texts, key : Keys \cup {None},
                holds : BOOLEAN, epoch : Nat \cup {None}]
Settlement  == [op : {"accept", "dismiss", "withdraw"}, response : Responses,
                wanted : Wanteds, offer : Offers,
                holds : BOOLEAN, epoch : Nat \cup {None}, open : BOOLEAN]
Ack         == [key : Keys, response : Responses,
                wanted : Wanteds, offer : Offers, text : Texts]

TypeOK ==
    /\ listing \in [Listings -> ListingRow]
    /\ restricted \subseteq Listings
    /\ verified \subseteq Users
    /\ response \in [Responses -> ResponseRow \cup {NoRow}]
    /\ call \in [Calls -> Creation \cup Settlement \cup {NoCall}]
    /\ lock \in [Listings -> Calls \cup {None}]
    /\ acks \subseteq Ack

Active(l) == listing[l].status = "active"
Open(l)   == Active(l) /\ l \notin restricted

Rows == {r \in Responses : response[r] # NoRow}

\* wanted_responses_round_offer_uq.  Bug: as before 0055, only rows that are
\* still pending count.
RoundRowsPending(w, e, o) ==
    {r \in Rows : /\ response[r].wanted = w /\ response[r].offer = o
                  /\ response[r].epoch = e /\ response[r].status = "pending"}
RoundRows(w, e, o) ==
    {r \in Rows : /\ response[r].wanted = w /\ response[r].offer = o
                  /\ response[r].epoch = e}

\* wanted_responses_responder_idempotency_uq.
KeyRows(u, key) ==
    {r \in Rows : key # None /\ response[r].key = key /\ Poster[response[r].offer] = u}

\* Equal request hashes.  Bug: the hash is not compared.
SameContentAny(r, w, o, text) == TRUE
SameContent(r, w, o, text) ==
    response[r].wanted = w /\ response[r].offer = o /\ response[r].text = text

\* Whether a row belongs to round e.  Bugs: any row does, so that a pending
\* row of an old round comes back to life; a row without a round does.
RowInRoundAny(r, e)     == TRUE
RowInRoundUnknown(r, e) == response[r].epoch \in {e, None}
RowInRound(r, e)        == response[r].epoch = e

\* require_offer_active.  Bug: no action asks for it.
NeedsOfferNever(op) == FALSE
NeedsOffer(op) == op = "accept"

\* The order in which a request locks its two rows.  Bug: settling an answer
\* starts with the offer.
LockOrderMixed(k) ==
    IF k.op = "respond" THEN <<k.wanted, k.offer>> ELSE <<k.offer, k.wanted>>
LockOrder(k) == <<k.wanted, k.offer>>

\* The epoch a listing has after it is put back.  Bugs: the round goes on; the
\* CASE has no ELSE, so that an offer's epoch becomes NULL.
NextEpochSame(l) == listing[l].epoch
NextEpochNull(l) == IF l \in Wanteds THEN listing[l].epoch + 1 ELSE None
NextEpoch(l) == IF l \in Wanteds THEN listing[l].epoch + 1 ELSE listing[l].epoch

\* Legacy rows are those 0055 could not give a round.
Init ==
    /\ listing = [l \in Listings |-> [status |-> "active", epoch |-> 1]]
    /\ restricted = {}
    /\ verified = Users
    /\ response \in
           {[r \in Responses |-> NoRow]} \cup
           {[r \in Responses |-> IF r # x THEN NoRow ELSE
                [status |-> "pending", wanted |-> pair[1], offer |-> pair[2], text |-> text,
                 epoch |-> None, key |-> None]] :
            x \in Responses, text \in Texts,
            pair \in {p \in Wanteds \X Offers : Poster[p[1]] # Poster[p[2]]}}
    /\ call = [c \in Calls |-> NoCall]
    /\ lock = [l \in Listings |-> None]
    /\ acks = {}

-----------------------------------------------------------------------------
(* Creating an answer: POST /api/listings/{id}/responses.                  *)

Creating(c) == call[c].op = "respond"
Settling(c) == call[c].op \in {"accept", "dismiss", "withdraw"}
Takes(c, i) == lock[LockOrder(call[c])[i]] \in {None, c}

AckOf(key, r, w, o, text) ==
    IF key = None THEN {}
    ELSE {[key |-> key, response |-> r, wanted |-> w, offer |-> o, text |-> text]}

\* The end of a transaction gives its locks back; a refused one changed
\* nothing else.
Release(c) ==
    /\ call' = [call EXCEPT ![c] = NoCall]
    /\ lock' = [l \in Listings |-> IF lock[l] = c THEN None ELSE lock[l]]

\* Before it locks anything the request looks its key up: a row with the same
\* content is the answer, a row with another content is a conflict.  (Whoever
\* names an offer as the wanted post is refused as soon as it is locked.)
\* Bound: ids left for the creations under way.
Respond(c, u, w, o, text, key) ==
    /\ call[c] = NoCall
    /\ u \in verified
    /\ IF KeyRows(u, key) # {}
       THEN \E r \in KeyRows(u, key) :
                /\ SameContent(r, w, o, text)
                /\ acks' = acks \cup AckOf(key, r, w, o, text)
                /\ UNCHANGED call
       ELSE /\ Cardinality(Responses \ Rows) > Cardinality({d \in Calls : Creating(d)})
            /\ call' = [call EXCEPT ![c] =
                   [op |-> "respond", wanted |-> w, by |-> u, offer |-> o, text |-> text,
                    key |-> key, holds |-> FALSE, epoch |-> None]]
            /\ UNCHANGED acks
    /\ UNCHANGED <<listing, restricted, verified, response, lock>>

MayRespond(w, u) == Open(w) /\ Poster[w] # u /\ Poster[w] \in verified

\* The wanted row is locked and judged; its epoch is the one the answer gets.
LockWantedToRespond(c) ==
    /\ Creating(c) /\ ~call[c].holds /\ Takes(c, 1)
    /\ MayRespond(call[c].wanted, call[c].by)
    /\ call' = [call EXCEPT ![c].holds = TRUE,
                            ![c].epoch = listing[call[c].wanted].epoch]
    /\ lock' = [lock EXCEPT ![LockOrder(call[c])[1]] = c]
    /\ UNCHANGED <<listing, restricted, verified, response, acks>>

RefuseToRespond(c) ==
    /\ Creating(c) /\ ~call[c].holds /\ Takes(c, 1)
    /\ ~MayRespond(call[c].wanted, call[c].by)
    /\ Release(c)
    /\ UNCHANGED <<listing, restricted, verified, response, acks>>

\* The insert triggers of 0055 and 0056 look at both parents once more.
TriggersAccept(k) ==
    Open(k.wanted) /\ Open(k.offer) /\ k.epoch = listing[k.wanted].epoch

\* What is named as the offer: only here, under its lock, does the code see
\* whether it is one at all, and the caller's.
MayOffer(k) == Open(k.offer) /\ k.offer \in Offers /\ Poster[k.offer] = k.by

\* The offer row is locked and judged, and the row inserted unless a unique
\* index has one already; then the key decides whether that is a replay.
InsertResponse(c) ==
    LET k    == call[c]
        same == RoundRows(k.wanted, k.epoch, k.offer) \cup KeyRows(k.by, k.key)
    IN
    /\ Creating(c) /\ k.holds /\ Takes(c, 2)
    /\ \/ /\ MayOffer(k) /\ TriggersAccept(k) /\ same = {}
          /\ \E r \in Responses \ Rows :
                /\ response' = [response EXCEPT ![r] =
                       [status |-> "pending", wanted |-> k.wanted, offer |-> k.offer,
                        text |-> k.text, epoch |-> k.epoch, key |-> k.key]]
                /\ acks' = acks \cup AckOf(k.key, r, k.wanted, k.offer, k.text)
       \/ /\ MayOffer(k) /\ TriggersAccept(k) /\ same # {}
          /\ acks' = acks \cup UNION {AckOf(k.key, r, k.wanted, k.offer, k.text) :
                 r \in {x \in KeyRows(k.by, k.key) : SameContent(x, k.wanted, k.offer, k.text)}}
          /\ UNCHANGED response
       \/ ~(MayOffer(k) /\ TriggersAccept(k)) /\ UNCHANGED <<response, acks>>
    /\ Release(c)
    /\ UNCHANGED <<listing, restricted, verified>>

-----------------------------------------------------------------------------
(* Settling an answer: accept, dismiss (its requester), withdraw (its      *)
(* responder).                                                             *)

Actor(r, op) == IF op = "withdraw" THEN Poster[response[r].offer]
                                   ELSE Poster[response[r].wanted]

\* The links of the row are read before anything is locked.
Settle(c, r, op) ==
    /\ call[c] = NoCall
    /\ r \in Rows
    /\ Actor(r, op) \in verified
    /\ call' = [call EXCEPT ![c] =
           [op |-> op, response |-> r, wanted |-> response[r].wanted,
            offer |-> response[r].offer, holds |-> FALSE, epoch |-> None, open |-> FALSE]]
    /\ UNCHANGED <<listing, restricted, verified, response, lock, acks>>

LockWantedToSettle(c) ==
    /\ Settling(c) /\ ~call[c].holds /\ Takes(c, 1)
    /\ call' = [call EXCEPT ![c].holds = TRUE,
                            ![c].epoch = listing[call[c].wanted].epoch,
                            ![c].open  = Open(call[c].wanted)]
    /\ lock' = [lock EXCEPT ![LockOrder(call[c])[1]] = c]
    /\ UNCHANGED <<listing, restricted, verified, response, acks>>

\* ineligible_reason, from what was read under the locks.
Eligible(k) ==
    /\ response[k.response].status = "pending"
    /\ RowInRound(k.response, k.epoch) /\ k.open
    /\ k.op # "dismiss" => k.offer \notin restricted
    /\ NeedsOffer(k.op) => Active(k.offer)

\* The WHERE clause of the UPDATE, from the rows as they are.
Applies(k) ==
    /\ response[k.response].status = "pending"
    /\ RowInRound(k.response, listing[k.wanted].epoch) /\ Open(k.wanted)
    /\ NeedsOffer(k.op) => Open(k.offer)

Verdict(op) == CASE op = "accept"   -> "accepted"
                 [] op = "dismiss"  -> "dismissed"
                 [] op = "withdraw" -> "withdrawn"

FinishSettling(c) ==
    /\ Settling(c) /\ call[c].holds /\ Takes(c, 2)
    /\ IF Eligible(call[c]) /\ Applies(call[c])
       THEN response' = [response EXCEPT ![call[c].response].status = Verdict(call[c].op)]
       ELSE UNCHANGED response
    /\ Release(c)
    /\ UNCHANGED <<listing, restricted, verified, acks>>

\* The client goes away or the connection breaks: the transaction rolls back.
Abort(c) ==
    /\ call[c] # NoCall
    /\ Release(c)
    /\ UNCHANGED <<listing, restricted, verified, response, acks>>

-----------------------------------------------------------------------------
(* Everybody else who writes an inventory row.                             *)

SetStatus(l, status, epoch) ==
    /\ lock[l] = None
    /\ listing' = [listing EXCEPT ![l] = [status |-> status, epoch |-> epoch]]
    /\ UNCHANGED <<restricted, verified, response, call, lock, acks>>

Fulfill(w) ==
    /\ w \in Wanteds /\ Open(w) /\ Poster[w] \in verified
    /\ SetStatus(w, "fulfilled", listing[w].epoch)

\* A deal record may name a wanted post as well as an offer.
SellInDeal(l) == Open(l) /\ SetStatus(l, "sold", listing[l].epoch)

Delete(l) ==
    /\ listing[l].status \in {"active", "fulfilled"} /\ Poster[l] \in verified
    /\ SetStatus(l, "deleted", listing[l].epoch)

Relist(l) ==
    /\ ~Active(l) /\ l \notin restricted /\ Poster[l] \in verified
    /\ l \in Wanteds => listing[l].epoch < MaxEpoch     \* bound
    /\ SetStatus(l, "active", NextEpoch(l))

\* Moderation locks the listing before it imposes or releases an effect.
Moderate(l, to) ==
    /\ lock[l] = None
    /\ restricted' = to
    /\ UNCHANGED <<listing, verified, response, call, lock, acks>>
Restrict(l)   == l \notin restricted /\ Moderate(l, restricted \cup {l})
Unrestrict(l) == l \in restricted /\ Moderate(l, restricted \ {l})

\* A changed email address withdraws the verification, a campus code gives it.
Membership(u) ==
    /\ verified' \in {verified \ {u}, verified \cup {u}}
    /\ UNCHANGED <<listing, restricted, response, call, lock, acks>>

-----------------------------------------------------------------------------
Proceed(c) ==
    \/ LockWantedToRespond(c) \/ RefuseToRespond(c) \/ InsertResponse(c)
    \/ LockWantedToSettle(c) \/ FinishSettling(c)

Next ==
    \/ \E c \in Calls : Proceed(c) \/ Abort(c)
    \/ \E c \in Calls, u \in Users, w \in Wanteds, o \in Listings, text \in Texts,
          key \in Keys \cup {None} : Respond(c, u, w, o, text, key)
    \/ \E c \in Calls, r \in Responses, op \in {"accept", "dismiss", "withdraw"} :
           Settle(c, r, op)
    \/ \E w \in Wanteds : Fulfill(w)
    \/ \E l \in Listings : SellInDeal(l) \/ Delete(l) \/ Relist(l) \/ Restrict(l) \/ Unrestrict(l)
    \/ \E u \in Users : Membership(u)

Spec == Init /\ [][Next]_vars

-----------------------------------------------------------------------------
(* Properties.                                                             *)

\* Every round of a wanted post has at most one answer per offer, whatever
\* became of it (rows from before rounds existed aside).
OneResponsePerRound ==
    \A r, x \in Rows :
        /\ response[r].wanted = response[x].wanted
        /\ response[r].offer = response[x].offer
        /\ response[r].epoch = response[x].epoch
        /\ response[r].epoch # None
        => r = x

\* A responder's key stands for one creation: every success answered under it
\* names the same row, and that row says what the request said.
KeyMeansOneRequest ==
    \A a, b \in acks :
        /\ response[a.response].wanted = a.wanted
        /\ response[a.response].offer = a.offer
        /\ response[a.response].text = a.text
        /\ a.key = b.key /\ Poster[a.offer] = Poster[b.offer] => a.response = b.response

\* An answer changes only while its round is the current one of an active,
\* unrestricted post; history from before rounds existed never changes.
ClosedRoundsAreFrozen ==
    [][\A r \in Rows : response'[r] # response[r] =>
           /\ response[r].status = "pending"
           /\ response[r].epoch = listing[response[r].wanted].epoch
           /\ Open(response[r].wanted)]_vars

\* What is accepted can still be had: the offer is active and unrestricted in
\* the very step that accepts it.
AcceptedIsAvailable ==
    [][\A r \in Rows : /\ response[r].status # "accepted"
                       /\ response'[r].status = "accepted"
                       => Open(response[r].offer)]_vars

\* The requests implement Rounds, however they interleave.
Phase(w) == IF ~Active(w) THEN "closed"
            ELSE IF w \in restricted THEN "suspended" ELSE "open"
AnswerOf(r) == [wanted |-> response[r].wanted, epoch |-> response[r].epoch,
                offer |-> response[r].offer, status |-> response[r].status]
InRounds == {r \in Rows : response[r].epoch # None}

R == INSTANCE Rounds WITH
         phase   <- [w \in Wanteds |-> Phase(w)],
         epoch   <- [w \in Wanteds |-> listing[w].epoch],
         answers <- {AnswerOf(r) : r \in InRounds}
ImplementsRounds == R!Spec

\* The row a request locks next.
NextRow(c) == LockOrder(call[c])[IF call[c].holds THEN 2 ELSE 1]
WaitsFor(c, d) == c # d /\ call[c] # NoCall /\ lock[NextRow(c)] = d

\* Requests that wait for each other, none of which can go on by itself.
Circle(S) == /\ S # {}
             /\ \A c \in S : (\E d \in S : WaitsFor(c, d)) /\ (\E d \in S : WaitsFor(d, c))

\* The order wanted, offer, response (docs/integration-testing.md:379) keeps
\* requests that settle, and those that answer with an offer, out of every
\* circle of waiting: those that name another wanted post as their offer are
\* by themselves in it.  (PostgreSQL cuts one of them off: Abort.)
CirclesAreMisnamed ==
    \A S \in SUBSET Calls : Circle(S) =>
        \A c \in S : Creating(c) /\ call[c].offer \in Wanteds

\* Refuted.  The order does not keep everybody out: a request locks the row it
\* names before it looks at its direction (wanted_response.rs:488, :518), so
\* two that name each other's wanted posts lock two wanted rows crosswise.
NoDeadlock == \A S \in SUBSET Calls : ~Circle(S)
=============================================================================
