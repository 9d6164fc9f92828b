------------------------------- MODULE Deals -------------------------------
(***************************************************************************)
(* Offer listings, deal records (`orders`) and price negotiations          *)
(* (`hitl_requests`).                                                      *)
(*                                                                         *)
(* A service call is one PostgreSQL transaction that locks the rows it     *)
(* decides on (SELECT ... FOR UPDATE) before it reads their status, so it  *)
(* is one action here.  Three things are not:                              *)
(*  - the HTTP handler that opens an intent checks the listing in a read   *)
(*    of its own (SubmitIntent) before the transaction that inserts the    *)
(*    row (CreateOrder);                                                   *)
(*  - settling a negotiation reads the buyer's open intent without a lock, *)
(*    under the locks of the listing and of the negotiation, and confirms  *)
(*    it in a later statement (Approve or AcceptCounter, then Settle);     *)
(*  - the expiry of a negotiation is a scan that may meet an overdue row   *)
(*    long after its deadline.                                             *)
(* The order in which a transaction takes its locks is left out; one that  *)
(* is rolled back has changed nothing and is not told from none.           *)
(***************************************************************************)
EXTENDS Integers, FiniteSets

CONSTANTS
    Listings,   \* rows of `inventory`
    Users,      \* sellers and buyers
    Admin,      \* the platform administrator, as an actor
    Owner,      \* [Listings -> Users]: inventory.owner_id, never updated
    Orders,     \* ids the orders table may use
    Hitls,      \* ids the hitl_requests table may use
    Cases,      \* moderation cases that may restrict a listing
    Keys,       \* Idempotency-Key values of confirmations
    Prices,     \* prices anybody may name, in cents
    None,       \* SQL NULL
    MaxTerm     \* bound: how often a listing is put back on sale

ASSUME OwnerAssumption == Owner \in [Listings -> Users]
ASSUME PriceAssumption == Prices \subseteq Nat
ASSUME ActorAssumption == Admin \notin Users /\ None \notin Users \cup {Admin}
ASSUME NullAssumption  == None \notin Orders \cup Keys \cup Prices \cup Listings
ASSUME TermAssumption  == MaxTerm \in Nat

VARIABLES
    listing,    \* [Listings -> [status, price]]
    effects,    \* unreleased rows of listing_restriction_effects
    order,      \* the orders table
    hitl,       \* the hitl_requests table
    timeline,   \* system messages of negotiations (chat_messages)
    intent,     \* POST /api/orders requests past their checks, by buyer
    settling,   \* the open intent that a negotiation is being settled on
    \* history: not in the program, only for stating properties
    term,       \* how often each listing was put on sale
    sales,      \* every time a confirmation marked a listing sold
    acks        \* confirmations answered with success

vars == <<listing, effects, order, hitl, timeline, intent, settling, term, sales, acks>>

-----------------------------------------------------------------------------
NoRow   == [status |-> "absent"]
NoCall  == [listing |-> None]

ListingRow == [status : {"active", "sold", "deleted"}, price : Prices]
OrderRow   == [status  : {"intent_pending", "confirmed", "cancelled"},
               listing : Listings, buyer : Users, price : Prices,
               by      : Users \cup {Admin, None},
               delist  : BOOLEAN,
               key     : Keys \cup {None}]
HitlRow    == [status  : {"pending", "countered", "approved", "rejected", "expired"},
               listing : Listings, buyer : Users, price : Prices,
               counter : Prices \cup {None},
               due     : BOOLEAN,               \* expires_at < NOW()
               deal    : Orders \cup {None}]    \* history: the order it confirmed
Message    == [hitl : Hitls,
               says : {"countered", "approved", "rejected", "accepted", "declined", "expired"},
               price : Prices \cup {None}]
Sale       == [listing : Listings, term : Nat, order : Orders]
Ack        == [order : Orders, delist : BOOLEAN]

\* Rows of these tables are never removed.
TypeOK ==
    /\ listing \in [Listings -> ListingRow]
    /\ effects \subseteq Listings \X Cases
    /\ order \in [Orders -> OrderRow \cup {NoRow}]
    /\ hitl \in [Hitls -> HitlRow \cup {NoRow}]
    /\ timeline \subseteq Message
    /\ intent \in [Users -> [listing : Listings, price : Prices] \cup {NoCall}]
    /\ settling \in [Hitls -> Orders \cup {None}]
    /\ term \in [Listings -> Nat]
    /\ sales \subseteq Sale
    /\ acks \subseteq Ack

Restricted(l) == \E c \in Cases : <<l, c>> \in effects

\* Bugs: the status check or the restriction check is missing.
TradableAnyStatus(l)  == ~Restricted(l)
TradableRestricted(l) == listing[l].status = "active"

Tradable(l) == listing[l].status = "active" /\ ~Restricted(l)

\* Half to one and a half times the listed price, both rounded down.
InBounds(offer, price) == offer \in (price \div 2) .. ((price * 3) \div 2)

\* The inventory row is held by the transaction that settles a negotiation:
\* whoever writes the row, or restricts it, waits.
Locked(l) == \E h \in Hitls : settling[h] # None /\ hitl[h].listing = l

OpenIntents(l, u) ==
    {o \in Orders : /\ order[o].status = "intent_pending"
                    /\ order[o].listing = l /\ order[o].buyer = u}
OpenHitls(l, u) ==
    {h \in Hitls : /\ hitl[h].status = "pending"
                   /\ hitl[h].listing = l /\ hitl[h].buyer = u}

\* Bug: intents are opened, or negotiations started, without looking for one.
Unchecked(l, u) == TRUE

MayOpenIntent(l, u) == OpenIntents(l, u) = {}
MayNegotiate(l, u)  == OpenHitls(l, u) = {}

\* Bug: any deal of the buyer is taken for the open intent.
ReusableWithDeals(l, u) ==
    {o \in Orders : /\ order[o].status \in {"intent_pending", "confirmed"}
                    /\ order[o].listing = l /\ order[o].buyer = u}

\* The record create_order_in_tx returns instead of inserting one.
Reusable(l, u) == OpenIntents(l, u)

\* can_transition_to.  Bug: a cancelled record may be confirmed.
CanConfirmCancelled(status) == status # "confirmed"
CanConfirm(status) == status = "intent_pending"
CanCancel(status)  == status \in {"intent_pending", "confirmed"}

\* The checks of a seller's answer.  Bug: an expired request may still be
\* answered.
MayAnswer(h, actor)      == actor = Owner[hitl[h].listing]
UnansweredExpired(h)     == hitl[h].status \in {"pending", "expired"}
Unanswered(h)            == hitl[h].status = "pending"

PendingOrder(l, u, p) ==
    [status |-> "intent_pending", listing |-> l, buyer |-> u, price |-> p,
     by |-> None, delist |-> TRUE, key |-> None]

Init ==
    /\ listing \in [Listings -> [status : {"active"}, price : Prices]]
    /\ effects = {}
    /\ order = [o \in Orders |-> NoRow]
    /\ hitl = [h \in Hitls |-> NoRow]
    /\ timeline = {}
    /\ intent = [u \in Users |-> NoCall]
    /\ settling = [h \in Hitls |-> None]
    /\ term = [l \in Listings |-> 0]
    /\ sales = {}
    /\ acks = {}
-----------------------------------------------------------------------------
(* Opening an intent over HTTP: the handler's own read, then the transaction. *)

SubmitIntent(u, l, p) ==
    /\ intent[u] = NoCall
    /\ u # Owner[l]
    /\ Tradable(l)
    /\ InBounds(p, listing[l].price)
    /\ intent' = [intent EXCEPT ![u] = [listing |-> l, price |-> p]]
    /\ UNCHANGED <<listing, effects, order, hitl, timeline, settling, term, sales, acks>>

CreateOrder(u, o) ==
    /\ intent[u] # NoCall
    /\ ~Locked(intent[u].listing) /\ Tradable(intent[u].listing)
    /\ MayOpenIntent(intent[u].listing, u)
    /\ order[o] = NoRow
    /\ order' = [order EXCEPT ![o] = PendingOrder(intent[u].listing, u, intent[u].price)]
    /\ intent' = [intent EXCEPT ![u] = NoCall]
    /\ UNCHANGED <<listing, effects, hitl, timeline, settling, term, sales, acks>>

\* The id of the intent that is already open is returned, or the listing is
\* no longer on sale, or the connection is lost: nothing is written.
EndIntentCall(u) ==
    /\ intent[u] # NoCall
    /\ intent' = [intent EXCEPT ![u] = NoCall]
    /\ UNCHANGED <<listing, effects, order, hitl, timeline, settling, term, sales, acks>>

\* The assistant's confirmed purchase: one transaction, listing locked first.
PurchaseItem(u, l, p, o) ==
    /\ ~Locked(l) /\ Tradable(l)
    /\ u # Owner[l]
    /\ InBounds(p, listing[l].price)
    /\ MayOpenIntent(l, u)
    /\ order[o] = NoRow
    /\ order' = [order EXCEPT ![o] = PendingOrder(l, u, p)]
    /\ UNCHANGED <<listing, effects, hitl, timeline, intent, settling, term, sales, acks>>
-----------------------------------------------------------------------------
(* Confirming and cancelling a deal record. *)

KeyUsedElsewhere(o, k) ==
    \E q \in Orders \ {o} :
        /\ order[q].status # "absent"
        /\ Owner[order[q].listing] = Owner[order[o].listing]
        /\ order[q].key = k

MarkSold(l, o) ==
    /\ listing' = [listing EXCEPT ![l].status = "sold"]
    /\ sales' = sales \cup {[listing |-> l, term |-> term[l], order |-> o]}

ConfirmOrder(o, actor, delist, key) ==
    /\ order[o].status # "absent"
    /\ \/ actor = Owner[order[o].listing]
       \/ actor = Admin /\ key = None
    /\ key # None => order[o].key # key /\ ~KeyUsedElsewhere(o, key)
    /\ CanConfirm(order[o].status)
    /\ IF delist
       THEN /\ ~Locked(order[o].listing) /\ Tradable(order[o].listing)
            /\ MarkSold(order[o].listing, o)
       ELSE UNCHANGED <<listing, sales>>
    /\ order' = [order EXCEPT ![o].status = "confirmed", ![o].by = actor,
                              ![o].delist = delist, ![o].key = key]
    /\ acks' = acks \cup {[order |-> o, delist |-> delist]}
    /\ UNCHANGED <<effects, hitl, timeline, intent, settling, term>>

\* The stored hash covers the order and the auto_delist choice.
\* Bug: the hashes are not compared.
SameKeySuffices(o, delist) == TRUE
SameRequest(o, delist) == order[o].delist = delist

\* The same key and request again, after a lost answer: only the answer.
ReplayConfirm(o, key, delist) ==
    /\ order[o].status # "absent"
    /\ key # None /\ order[o].key = key
    /\ SameRequest(o, delist)
    /\ order[o].status = "confirmed"
    /\ acks' = acks \cup {[order |-> o, delist |-> delist]}
    /\ UNCHANGED <<listing, effects, order, hitl, timeline, intent, settling, term, sales>>

\* Bug: cancelling a deal puts its listing back on sale.
CancelReactivates(o, actor) ==
    /\ order[o].status # "absent"
    /\ actor \in {order[o].buyer, Owner[order[o].listing], Admin}
    /\ CanCancel(order[o].status)
    /\ order[o].status = "confirmed" => actor = Admin
    /\ order' = [order EXCEPT ![o].status = "cancelled"]
    /\ listing' = [listing EXCEPT ![order[o].listing].status =
                     IF @ = "sold" THEN "active" ELSE @]
    /\ UNCHANGED <<effects, hitl, timeline, intent, settling, term, sales, acks>>

\* Buyer or seller may only cancel an open intent, an administrator also a deal.
CancelOrder(o, actor) ==
    /\ order[o].status # "absent"
    /\ actor \in {order[o].buyer, Owner[order[o].listing], Admin}
    /\ CanCancel(order[o].status)
    /\ order[o].status = "confirmed" => actor = Admin
    /\ order' = [order EXCEPT ![o].status = "cancelled"]
    /\ UNCHANGED <<listing, effects, hitl, timeline, intent, settling, term, sales, acks>>
-----------------------------------------------------------------------------
(* Negotiation. *)

NegotiateItem(u, l, p, h) ==
    /\ ~Locked(l) /\ Tradable(l)
    /\ u # Owner[l]
    /\ InBounds(p, listing[l].price)
    /\ MayNegotiate(l, u)
    /\ hitl[h] = NoRow
    /\ hitl' = [hitl EXCEPT ![h] =
                  [status |-> "pending", listing |-> l, buyer |-> u, price |-> p,
                   counter |-> None, due |-> FALSE, deal |-> None]]
    /\ UNCHANGED <<listing, effects, order, timeline, intent, settling, term, sales, acks>>

Say(h, what, p) ==
    timeline' = timeline \cup {[hitl |-> h, says |-> what, price |-> p]}

\* Who settles a request, and at which price.
Answerer(h)  == IF hitl[h].status = "countered" THEN hitl[h].buyer ELSE Owner[hitl[h].listing]
DealPrice(h) == IF hitl[h].status = "countered" THEN hitl[h].counter ELSE hitl[h].price

\* The end of the transaction: the listing is sold, the request is approved
\* with the record's id, the conversation told.
SettleOn(h, o) ==
    /\ Tradable(hitl[h].listing) /\ MarkSold(hitl[h].listing, o)
    /\ hitl' = [hitl EXCEPT ![h].status = "approved", ![h].deal = o]
    /\ Say(h, IF hitl[h].status = "countered" THEN "accepted" ELSE "approved", DealPrice(h))

ConfirmedBy(row, by) == [row EXCEPT !.status = "confirmed", !.by = by, !.delist = TRUE]

\* Bug: the later statement confirms the record whatever became of it.
ConfirmedAnyway(row, by) == ConfirmedBy(row, by)

\* The record is confirmed if it is still open.  If it is not, no row is
\* updated, and nobody looks at that.
ConfirmedIfOpen(row, by) ==
    IF row.status = "intent_pending" THEN ConfirmedBy(row, by) ELSE row

\* create_confirmed_offline_order_in_tx.  With no open intent of the buyer a
\* record is inserted at the agreed price, and nobody else can see it before
\* it is confirmed.  An open intent is taken over at its own price: its row
\* is read and not locked, so the record may move before it is confirmed.
ConfirmedOfflineOrder(h, o) ==
    LET l    == hitl[h].listing
        open == Reusable(l, hitl[h].buyer)
    IN  /\ ~Locked(l) /\ Tradable(l)
        /\ \/ /\ open = {} /\ order[o] = NoRow
              /\ order' = [order EXCEPT ![o] =
                    ConfirmedBy(PendingOrder(l, hitl[h].buyer, DealPrice(h)), Answerer(h))]
              /\ SettleOn(h, o)
              /\ UNCHANGED settling
           \/ /\ o \in open
              /\ settling' = [settling EXCEPT ![h] = o]
              /\ UNCHANGED <<listing, order, hitl, timeline, sales>>

Approve(h, actor, o) ==
    /\ Unanswered(h) /\ MayAnswer(h, actor)
    /\ ConfirmedOfflineOrder(h, o)
    /\ UNCHANGED <<effects, intent, term, acks>>

\* The statements after the read of the open intent.
Settle(h) ==
    /\ settling[h] # None
    /\ order' = [order EXCEPT ![settling[h]] = ConfirmedIfOpen(@, Answerer(h))]
    /\ SettleOn(h, settling[h])
    /\ settling' = [settling EXCEPT ![h] = None]
    /\ UNCHANGED <<effects, intent, term, acks>>

Counter(h, actor, p) ==
    /\ Unanswered(h) /\ MayAnswer(h, actor)
    /\ ~Locked(hitl[h].listing) /\ Tradable(hitl[h].listing)
    /\ hitl' = [hitl EXCEPT ![h].status = "countered", ![h].counter = p]
    /\ Say(h, "countered", p)
    /\ UNCHANGED <<listing, effects, order, intent, settling, term, sales, acks>>

Reject(h, actor) ==
    /\ Unanswered(h) /\ MayAnswer(h, actor) /\ settling[h] = None
    /\ hitl' = [hitl EXCEPT ![h].status = "rejected"]
    /\ Say(h, "rejected", None)
    /\ UNCHANGED <<listing, effects, order, intent, settling, term, sales, acks>>

AcceptCounter(h, actor, o) ==
    /\ hitl[h].status = "countered"
    /\ actor = hitl[h].buyer
    /\ hitl[h].counter # None
    /\ ConfirmedOfflineOrder(h, o)
    /\ UNCHANGED <<effects, intent, term, acks>>

RejectCounter(h, actor) ==
    /\ hitl[h].status = "countered"
    /\ actor = hitl[h].buyer /\ settling[h] = None
    /\ hitl' = [hitl EXCEPT ![h].status = "rejected"]
    /\ Say(h, "declined", None)
    /\ UNCHANGED <<listing, effects, order, intent, settling, term, sales, acks>>

\* 48 hours pass.  A countered request keeps its expires_at.
DeadlinePasses(h) ==
    /\ hitl[h].status \in {"pending", "countered"}
    /\ ~hitl[h].due
    /\ hitl' = [hitl EXCEPT ![h].due = TRUE]
    /\ UNCHANGED <<listing, effects, order, timeline, intent, settling, term, sales, acks>>

\* Bug: the comparison with NOW() is the wrong way round.
OverdueEarly ==
    {h \in Hitls : hitl[h].status = "pending" /\ ~hitl[h].due /\ settling[h] = None}
Overdue ==
    {h \in Hitls : hitl[h].status = "pending" /\ hitl[h].due /\ settling[h] = None}

\* One scan of the worker.  SKIP LOCKED: rows another transaction holds are
\* left for a later scan, so any non-empty part of the overdue rows expires.
ExpirePending(batch) ==
    /\ batch # {} /\ batch \subseteq Overdue
    /\ hitl' = [h \in Hitls |-> IF h \in batch
                                THEN [hitl[h] EXCEPT !.status = "expired"] ELSE hitl[h]]
    /\ timeline' = timeline \cup
                     {[hitl |-> h, says |-> "expired", price |-> None] : h \in batch}
    /\ UNCHANGED <<listing, effects, order, intent, settling, term, sales, acks>>
-----------------------------------------------------------------------------
(* The owner's commands on the listing, and moderation. *)

UpdatePrice(l, p) ==
    /\ ~Locked(l) /\ Tradable(l)
    /\ listing' = [listing EXCEPT ![l].price = p]
    /\ UNCHANGED <<effects, order, hitl, timeline, intent, settling, term, sales, acks>>

DeleteListing(l) ==
    /\ ~Locked(l)
    /\ listing[l].status \notin {"sold", "deleted"}
    /\ listing' = [listing EXCEPT ![l].status = "deleted"]
    /\ UNCHANGED <<effects, order, hitl, timeline, intent, settling, term, sales, acks>>

Relist(l) ==
    /\ ~Locked(l) /\ ~Restricted(l)
    /\ listing[l].status \in {"sold", "deleted"}
    /\ term[l] < MaxTerm
    /\ listing' = [listing EXCEPT ![l].status = "active"]
    /\ term' = [term EXCEPT ![l] = @ + 1]
    /\ UNCHANGED <<effects, order, hitl, timeline, intent, settling, sales, acks>>

ImposeRestriction(l, c) ==
    /\ ~Locked(l) /\ <<l, c>> \notin effects
    /\ effects' = effects \cup {<<l, c>>}
    /\ UNCHANGED <<listing, order, hitl, timeline, intent, settling, term, sales, acks>>

\* Bug: restoring a case restores the listing.
ReleaseReactivates(l, c) ==
    /\ ~Locked(l) /\ <<l, c>> \in effects
    /\ effects' = effects \ {<<l, c>>}
    /\ listing' = [listing EXCEPT ![l].status = "active"]
    /\ UNCHANGED <<order, hitl, timeline, intent, settling, term, sales, acks>>

ReleaseRestriction(l, c) ==
    /\ ~Locked(l) /\ <<l, c>> \in effects
    /\ effects' = effects \ {<<l, c>>}
    /\ UNCHANGED <<listing, order, hitl, timeline, intent, settling, term, sales, acks>>
-----------------------------------------------------------------------------
Actors == Users \cup {Admin}

IntentStep ==
    \E u \in Users :
        \/ \E l \in Listings, p \in Prices : SubmitIntent(u, l, p)
        \/ \E o \in Orders : CreateOrder(u, o)
        \/ EndIntentCall(u)
        \/ \E l \in Listings, p \in Prices, o \in Orders : PurchaseItem(u, l, p, o)

OrderStep ==
    \E o \in Orders :
        \/ \E a \in Actors, d \in BOOLEAN, k \in Keys \cup {None} : ConfirmOrder(o, a, d, k)
        \/ \E k \in Keys, d \in BOOLEAN : ReplayConfirm(o, k, d)
        \/ \E a \in Actors : CancelOrder(o, a)

HitlStep ==
    \E h \in Hitls, u \in Users :
        \/ \E l \in Listings, p \in Prices : NegotiateItem(u, l, p, h)
        \/ \E o \in Orders : Approve(h, u, o)
        \/ \E p \in Prices : Counter(h, u, p)
        \/ Reject(h, u)
        \/ \E o \in Orders : AcceptCounter(h, u, o)
        \/ RejectCounter(h, u)

SettleStep == \E h \in Hitls : Settle(h)

Expire == \E batch \in SUBSET Hitls : ExpirePending(batch)

ListingStep ==
    \E l \in Listings :
        \/ \E p \in Prices : UpdatePrice(l, p)
        \/ DeleteListing(l)
        \/ Relist(l)
        \/ \E c \in Cases : ImposeRestriction(l, c)
        \/ \E c \in Cases : ReleaseRestriction(l, c)

Next ==
    \/ IntentStep
    \/ OrderStep
    \/ HitlStep
    \/ SettleStep
    \/ \E h \in Hitls : DeadlinePasses(h)
    \/ Expire
    \/ ListingStep

Spec == Init /\ [][Next]_vars

\* The expiry worker scans every ten minutes for as long as a replica runs.
\* A transaction that holds its locks goes on to its end.
\* Users, moderators and clocks owe nothing.
FairSpec == Spec /\ WF_vars(Expire) /\ \A h \in Hitls : WF_vars(Settle(h))
-----------------------------------------------------------------------------
(* Safety. *)

\* While a listing stays on sale it is sold at most once, whichever of the
\* four paths (seller, administrator, approval, accepted counter) sells it,
\* and one deal record never sells its listing in two terms: neither a late
\* duplicate of a confirmation nor a second negotiation takes a relisted
\* item off sale again (order.rs:255-286, negotiate.rs:77-89).
SoldOncePerTerm ==
    \A s, t \in sales :
        \/ s.listing = t.listing /\ s.term = t.term
        \/ s.order = t.order
        => s = t

\* A listing is sold exactly while a sale of this term stands behind it, and a
\* sale has its cause for good: either its record was confirmed with
\* delisting, or a negotiation was settled on a record that is closed by now
\* (the record itself may have been cancelled, or confirmed without
\* delisting, between the two statements of the settling transaction:
\* order.rs:143-161, negotiate.rs:91-107).  Cancelling a confirmed record
\* leaves the listing sold (order.rs:369-377).
SoldOn(s) ==
    LET o == order[s.order]
    IN  /\ o.status \in {"confirmed", "cancelled"} /\ o.listing = s.listing
        /\ \/ o.by # None /\ o.delist
           \/ \E h \in Hitls : hitl[h].status = "approved" /\ hitl[h].deal = s.order

SoldIffSettledThisTerm ==
    /\ \A l \in Listings :
          listing[l].status = "sold" <=>
              \E s \in sales : s.listing = l /\ s.term = term[l]
    /\ \A s \in sales : SoldOn(s)

\* A buyer has one open intent per listing, whether it came over HTTP, from
\* the assistant or both at once (order.rs:143-161, trade.rs:192-223).
OneOpenIntent ==
    \A l \in Listings, u \in Users :
        \A o, q \in OpenIntents(l, u) : o = q

\* A buyer waits for one answer per listing (trade.rs:407-418).
OneOpenNegotiation ==
    \A l \in Listings, u \in Users :
        \A g, h \in OpenHitls(l, u) : g = h

\* What a buyer has open on a listing, intents and negotiations, is one of each.
OneOpenEach == OneOpenIntent /\ OneOpenNegotiation

\* No two negotiations settle on one deal record, although settling reuses
\* whatever intent of the buyer is open (negotiate.rs:72-107).
DealSettlesOneNegotiation ==
    \A g, h \in Hitls :
        /\ hitl[g].status = "approved" /\ hitl[h].status = "approved"
        /\ hitl[g].deal = hitl[h].deal
        => g = h

\* A deal that the buyer's own action confirmed is one whose price the seller
\* put forward: an approved negotiation with a counter stands behind it.
SellerConsented ==
    \A o \in Orders :
        order[o].status = "confirmed" /\ order[o].by = order[o].buyer
        => \E h \in Hitls : /\ hitl[h].status = "approved"
                            /\ hitl[h].deal = o
                            /\ hitl[h].counter # None

\* A negotiated deal rests on one negotiation, and on the consent of both.
DealsAreAgreed == DealSettlesOneNegotiation /\ SellerConsented

\* What a confirmation was answered with stays true of the record: it left
\* `intent_pending` for good with that auto_delist choice, and if the answer
\* said delisted, this record is the one that sold the listing
\* (order.rs:226-232: a replay must not acknowledge another choice).
AckIsTrue ==
    \A a \in acks :
        /\ order[a.order].status \in {"confirmed", "cancelled"}
        /\ order[a.order].delist = a.delist
        /\ a.delist => \E s \in sales : s.order = a.order

Closing == {"rejected", "approved", "accepted", "declined", "expired"}

\* The conversation and the request tell one story: a request is closed if
\* and only if one closing message says so, and the message fits the status;
\* the expiry scan and the seller's late answer never both speak.
TimelineTellsOutcome ==
    \A h \in Hitls :
        LET last == {m \in timeline : m.hitl = h /\ m.says \in Closing}
        IN  /\ (last # {}) <=> hitl[h].status \in {"approved", "rejected", "expired"}
            /\ \A m, n \in last : m = n
            /\ \A m \in last :
                  CASE hitl[h].status = "approved" -> m.says \in {"approved", "accepted"}
                    [] hitl[h].status = "rejected" -> m.says \in {"rejected", "declined"}
                    [] OTHER -> m.says = "expired"

(* What a step may not do. *)

\* While any case restricts a listing nothing is opened, settled, sold or
\* relisted on it; only its owner may delete it and open records may close.
RestrictionFreezes ==
    \A l \in Listings : Restricted(l) =>
        /\ listing'[l].status \in {listing[l].status, "deleted"}
        /\ listing'[l].price = listing[l].price
        /\ \A o \in Orders :
              order[o].status = "absent" /\ order'[o].status # "absent"
              => order'[o].listing # l
        /\ \A h \in Hitls :
              hitl'[h].status \in {"pending", "countered", "approved"}
              /\ hitl'[h].status # hitl[h].status => hitl'[h].listing # l

\* Releasing one case's effect never puts a listing back on sale by itself,
\* and a listing comes back on sale only when no case restricts it.
RelistOnlyUnrestricted ==
    \A l \in Listings :
        listing[l].status # "active" /\ listing'[l].status = "active"
        => ~Restricted(l) /\ effects' = effects

\* A restriction holds until it is lifted, and then it is up to the owner.
RestrictionFreezesListing == [][RestrictionFreezes /\ RelistOnlyUnrestricted]_vars

\* Records only move forward: intent_pending to confirmed or cancelled,
\* confirmed to cancelled; who dealt, over what and at which price stays.
RecordsMoveForward ==
    [][\A o \in Orders : order[o].status # "absent" /\ order'[o] # order[o] =>
          /\ <<order[o].status, order'[o].status>> \in
                {<<"intent_pending", "confirmed">>, <<"intent_pending", "cancelled">>,
                 <<"confirmed", "cancelled">>}
          /\ order'[o].listing = order[o].listing
          /\ order'[o].buyer = order[o].buyer
          /\ order'[o].price = order[o].price]_vars

(* Liveness. *)

\* A seller who never answers does not keep a request open for ever.
OverdueSettles ==
    \A h \in Hitls :
        hitl[h].status = "pending" /\ hitl[h].due ~> hitl[h].status # "pending"

-----------------------------------------------------------------------------
(* What the documentation says and the code does not do. *)

\* trade.rs:189-191: an open intent stands for one price, lest the confirmed
\* amount that is announced differ from the amount in the database.
AnnouncedPriceIsRecorded ==
    \A m \in timeline :
        m.says \in {"approved", "accepted"} => order[hitl[m.hitl].deal].price = m.price

\* docs/domain-flows.md:343, :348: who settles gets a confirmed record.
ApprovedIsConfirmed ==
    \A h \in Hitls :
        hitl[h].status = "approved" =>
            order[hitl[h].deal].by # None /\ order[hitl[h].deal].delist

\* docs/domain-flows.md:347-350: a countered request that times out expires.
CounteredTimesOut ==
    \A h \in Hitls :
        hitl[h].status = "countered" /\ hitl[h].due ~> hitl[h].status # "countered"
=============================================================================
