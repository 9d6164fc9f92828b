---------------------------- MODULE DealsProofs ----------------------------
(* Deals, for every number of listings, users, orders and negotiations.     *)
EXTENDS Deals, TLAPS

LEMMA MessageType ==
    ASSUME TypeOK, NEW h \in Hitls, NEW p \in Prices \cup {None},
           NEW what \in {"countered", "approved", "rejected", "accepted", "declined"},
           Say(h, what, p)
    PROVE  timeline' \subseteq Message
BY DEF TypeOK, Say, Message

LEMMA SaleType ==
    ASSUME TypeOK, NEW l \in Listings, NEW o \in Orders, MarkSold(l, o)
    PROVE  /\ listing' \in [Listings -> ListingRow]
           /\ sales' \subseteq Sale
<1>1. listing[l].price \in Prices /\ term[l] \in Nat
  BY DEF TypeOK, ListingRow
<1>2. [listing |-> l, term |-> term[l], order |-> o] \in Sale
  BY <1>1 DEF Sale
<1> QED
  BY <1>1, <1>2 DEF TypeOK, MarkSold, ListingRow

\* A row that is not absent is a row.
LEMMA LiveOrder ==
    ASSUME TypeOK, NEW o \in Orders, order[o].status # "absent"
    PROVE  order[o] \in OrderRow
BY DEF TypeOK, NoRow

LEMMA LiveHitl ==
    ASSUME TypeOK, NEW h \in Hitls, hitl[h].status # "absent"
    PROVE  hitl[h] \in HitlRow
BY DEF TypeOK, NoRow

LEMMA PendingOrderType ==
    ASSUME NEW l \in Listings, NEW u \in Users, NEW p \in Prices
    PROVE  PendingOrder(l, u, p) \in OrderRow
BY DEF PendingOrder, OrderRow

-----------------------------------------------------------------------------
(* Settling a negotiation: it takes over an open intent of the buyer, and   *)
(* ends later (Begins, then Ends); or there is none, and it ends at once.    *)

Closed == {"confirmed", "cancelled"}

\* A settlement in hand is of a request that is not closed, on a record of its
\* parties, and the only one on its listing.
Held(h) ==
    settling[h] # None =>
        /\ hitl[h].status \in {"pending", "countered"}
        /\ hitl[h].status = "countered" => hitl[h].counter # None
        /\ order[settling[h]].status # "absent"
        /\ order[settling[h]].listing = hitl[h].listing
        /\ order[settling[h]].buyer = hitl[h].buyer
        /\ \A g \in Hitls : settling[g] # None /\ hitl[g].listing = hitl[h].listing => g = h
HeldInv == \A h \in Hitls : Held(h)

Settleable(h) ==
    /\ hitl[h] \in HitlRow /\ hitl[h].status \in {"pending", "countered"}
    /\ hitl[h].status = "countered" => hitl[h].counter # None

Begins(h, o) ==
    /\ Settleable(h)
    /\ ~Locked(hitl[h].listing) /\ o \in OpenIntents(hitl[h].listing, hitl[h].buyer)
    /\ settling' = [settling EXCEPT ![h] = o]
    /\ UNCHANGED <<listing, effects, order, hitl, timeline, intent, term, sales, acks>>

Ends(h, o) ==
    /\ Settleable(h) /\ SettleOn(h, o)
    /\ order[o] = NoRow \/ settling[h] = o
    /\ \E row \in OrderRow :
          /\ order' = [order EXCEPT ![o] = row]
          /\ row.listing = hitl[h].listing /\ row.buyer = hitl[h].buyer
          /\ \/ /\ row.status = "confirmed" /\ row.by = Answerer(h) /\ row.delist = TRUE
                /\ \/ order[o] = NoRow
                   \/ /\ order[o].status = "intent_pending"
                      /\ order[o].listing = row.listing /\ order[o].buyer = row.buyer
                      /\ order[o].price = row.price
             \/ row = order[o] /\ row.status \in Closed
    /\ settling' = [settling EXCEPT ![h] = None]
    /\ UNCHANGED <<effects, intent, term, acks>>

LEMMA ConfirmedType ==
    ASSUME NEW row \in OrderRow, NEW by \in Users
    PROVE  /\ ConfirmedBy(row, by) \in OrderRow
           /\ ConfirmedBy(row, by).status = "confirmed" /\ ConfirmedBy(row, by).by = by
           /\ ConfirmedBy(row, by).delist = TRUE
           /\ ConfirmedBy(row, by).listing = row.listing
           /\ ConfirmedBy(row, by).buyer = row.buyer /\ ConfirmedBy(row, by).price = row.price
BY DEF ConfirmedBy, OrderRow

LEMMA SettleableType ==
    ASSUME NEW h \in Hitls, Settleable(h)
    PROVE  /\ hitl[h].listing \in Listings /\ hitl[h].buyer \in Users
           /\ Answerer(h) \in Users /\ DealPrice(h) \in Prices
BY OwnerAssumption DEF Settleable, Answerer, DealPrice, HitlRow

LEMMA AnswerSteps ==
    ASSUME TypeOK, NEW h \in Hitls, NEW u \in Users, NEW o \in Orders,
           Approve(h, u, o) \/ AcceptCounter(h, u, o)
    PROVE  Begins(h, o) \/ Ends(h, o)
<1>1. Settleable(h)
  BY LiveHitl DEF Approve, AcceptCounter, Unanswered, Settleable
<1>2. ConfirmedOfflineOrder(h, o) /\ UNCHANGED <<effects, intent, term, acks>>
  BY DEF Approve, AcceptCounter
<1> DEFINE l == hitl[h].listing
<1>3. ~Locked(l) /\ settling[h] = None
  BY <1>2 DEF ConfirmedOfflineOrder, Locked
<1>4. CASE o \in Reusable(l, hitl[h].buyer) /\ settling' = [settling EXCEPT ![h] = o]
           /\ UNCHANGED <<listing, order, hitl, timeline, sales>>
  BY <1>1, <1>2, <1>3, <1>4 DEF Begins, Reusable
<1>5. CASE /\ order[o] = NoRow /\ SettleOn(h, o) /\ UNCHANGED settling
           /\ order' = [order EXCEPT ![o] =
                 ConfirmedBy(PendingOrder(l, hitl[h].buyer, DealPrice(h)), Answerer(h))]
  <2> DEFINE new == PendingOrder(l, hitl[h].buyer, DealPrice(h))
             row == ConfirmedBy(new, Answerer(h))
  <2>1. new \in OrderRow /\ new.listing = l /\ new.buyer = hitl[h].buyer
    BY <1>1, SettleableType, PendingOrderType DEF PendingOrder
  <2>2. /\ row \in OrderRow /\ row.status = "confirmed" /\ row.by = Answerer(h)
        /\ row.delist = TRUE /\ row.listing = l /\ row.buyer = hitl[h].buyer
    BY <1>1, <2>1, SettleableType, ConfirmedType
  <2>3. order' = [order EXCEPT ![o] = row]
    BY <1>5
  <2>4. settling' = [settling EXCEPT ![h] = None]
    BY <1>3, <1>5 DEF TypeOK
  <2> HIDE DEF row
  <2>5. PICK r \in OrderRow :
          /\ order' = [order EXCEPT ![o] = r]
          /\ r.listing = l /\ r.buyer = hitl[h].buyer
          /\ r.status = "confirmed" /\ r.by = Answerer(h) /\ r.delist = TRUE
    BY <2>2, <2>3
  <2> QED
    BY <1>1, <1>2, <1>5, <2>4, <2>5 DEF Ends
<1> QED
  BY <1>2, <1>4, <1>5 DEF ConfirmedOfflineOrder

LEMMA SettleEnds ==
    ASSUME TypeOK, HeldInv, NEW h \in Hitls, Settle(h)
    PROVE  settling[h] \in Orders /\ Ends(h, settling[h])
<1> DEFINE o == settling[h]
<1>1. o \in Orders /\ Held(h) /\ o # None
  BY DEF Settle, HeldInv, TypeOK
<1>2. Settleable(h)
  BY <1>1, LiveHitl DEF Held, Settleable
<1>3. order[o] \in OrderRow /\ order[o].listing = hitl[h].listing /\ order[o].buyer = hitl[h].buyer
  BY <1>1, LiveOrder DEF Held
<1> DEFINE row == ConfirmedIfOpen(order[o], Answerer(h))
<1>4. /\ order' = [order EXCEPT ![o] = row] /\ SettleOn(h, o)
      /\ settling' = [settling EXCEPT ![h] = None]
      /\ UNCHANGED <<effects, intent, term, acks>>
  BY <1>1 DEF Settle, TypeOK
<1>5. CASE order[o].status = "intent_pending"
  <2>1. row = ConfirmedBy(order[o], Answerer(h))
    BY <1>5 DEF ConfirmedIfOpen
  <2>2. /\ row \in OrderRow /\ row.status = "confirmed" /\ row.by = Answerer(h)
        /\ row.delist = TRUE /\ row.listing = order[o].listing
        /\ row.buyer = order[o].buyer /\ row.price = order[o].price
    <3>1. Answerer(h) \in Users
      BY <1>2, SettleableType
    <3> HIDE DEF row
    <3> QED
      BY <1>3, <2>1, <3>1, ConfirmedType
  <2> HIDE DEF row
  <2> QED
    BY <1>1, <1>2, <1>3, <1>4, <1>5, <2>2 DEF Ends
<1>6. CASE order[o].status # "intent_pending"
  <2>1. row = order[o] /\ order[o].status \in Closed
    BY <1>3, <1>6 DEF ConfirmedIfOpen, Closed, OrderRow
  <2> HIDE DEF row
  <2> QED
    BY <1>1, <1>2, <1>3, <1>4, <2>1 DEF Ends
<1> QED
  BY <1>5, <1>6

\* Ending a settlement keeps the tables it writes well-formed.
LEMMA EndsType ==
    ASSUME TypeOK, NEW h \in Hitls, NEW o \in Orders, Ends(h, o)
    PROVE  TypeOK'
<1>1. /\ hitl[h] \in HitlRow /\ hitl[h].listing \in Listings /\ DealPrice(h) \in Prices
  BY SettleableType DEF Ends, Settleable
<1>2. listing' \in [Listings -> ListingRow] /\ sales' \subseteq Sale
  BY <1>1, SaleType DEF Ends, SettleOn
<1>3. order' \in [Orders -> OrderRow \cup {NoRow}]
  BY DEF Ends, TypeOK
<1>4. hitl' \in [Hitls -> HitlRow \cup {NoRow}]
  <2>1. [hitl[h] EXCEPT !.status = "approved", !.deal = o] \in HitlRow
    BY <1>1 DEF HitlRow
  <2>2. hitl' = [hitl EXCEPT ![h] = [hitl[h] EXCEPT !.status = "approved", !.deal = o]]
    BY DEF Ends, SettleOn, TypeOK
  <2> QED
    BY <2>1, <2>2 DEF TypeOK
<1>5. timeline' \subseteq Message
  <2>1. PICK what \in {"accepted", "approved"} : Say(h, what, DealPrice(h))
    BY DEF Ends, SettleOn
  <2> QED
    BY <1>1, <2>1, MessageType
<1>6. settling' \in [Hitls -> Orders \cup {None}]
  BY DEF Ends, TypeOK
<1> QED
  BY <1>2, <1>3, <1>4, <1>5, <1>6 DEF Ends, TypeOK

LEMMA InitType == Init => TypeOK
<1> SUFFICES ASSUME Init PROVE TypeOK
  OBVIOUS
<1>1. listing \in [Listings -> ListingRow]
  BY DEF Init, ListingRow
<1>2. order \in [Orders -> OrderRow \cup {NoRow}] /\ hitl \in [Hitls -> HitlRow \cup {NoRow}]
  BY DEF Init
<1> QED
  BY <1>1, <1>2 DEF Init, TypeOK

LEMMA NextType == TypeOK /\ HeldInv /\ [Next]_vars => TypeOK'
<1> SUFFICES ASSUME TypeOK, HeldInv, [Next]_vars PROVE TypeOK'
  OBVIOUS
<1>1. CASE IntentStep
  <2> PICK u \in Users :
        \/ \E l \in Listings, p \in Prices : SubmitIntent(u, l, p)
        \/ \E o \in Orders : CreateOrder(u, o)
        \/ EndIntentCall(u)
        \/ \E l \in Listings, p \in Prices, o \in Orders : PurchaseItem(u, l, p, o)
    BY <1>1 DEF IntentStep
  <2>1. ASSUME NEW l \in Listings, NEW p \in Prices, SubmitIntent(u, l, p) PROVE TypeOK'
    BY <2>1 DEF SubmitIntent, TypeOK
  <2>2. ASSUME NEW o \in Orders, CreateOrder(u, o) PROVE TypeOK'
    <3>1. intent[u] \in [listing : Listings, price : Prices]
      BY <2>2 DEF CreateOrder, TypeOK
    <3>2. PendingOrder(intent[u].listing, u, intent[u].price) \in OrderRow
      BY <3>1, PendingOrderType
    <3> QED
      BY <2>2, <3>2 DEF CreateOrder, TypeOK
  <2>3. ASSUME EndIntentCall(u) PROVE TypeOK'
    BY <2>3 DEF EndIntentCall, TypeOK
  <2>4. ASSUME NEW l \in Listings, NEW p \in Prices, NEW o \in Orders,
               PurchaseItem(u, l, p, o)
        PROVE  TypeOK'
    <3>1. PendingOrder(l, u, p) \in OrderRow
      BY PendingOrderType
    <3> QED
      BY <2>4, <3>1 DEF PurchaseItem, TypeOK
  <2> QED
    BY <2>1, <2>2, <2>3, <2>4
<1>2. CASE OrderStep
  <2> PICK o \in Orders :
        \/ \E a \in Actors, d \in BOOLEAN, k \in Keys \cup {None} : ConfirmOrder(o, a, d, k)
        \/ \E k \in Keys, d \in BOOLEAN : ReplayConfirm(o, k, d)
        \/ \E a \in Actors : CancelOrder(o, a)
    BY <1>2 DEF OrderStep
  <2>1. ASSUME NEW a \in Actors, NEW d \in BOOLEAN, NEW k \in Keys \cup {None},
               ConfirmOrder(o, a, d, k)
        PROVE  TypeOK'
    <3>1. order[o] \in OrderRow
      BY <2>1, LiveOrder DEF ConfirmOrder
    <3>2. order[o].listing \in Listings
      BY <3>1 DEF OrderRow
    <3>3. listing' \in [Listings -> ListingRow] /\ sales' \subseteq Sale
      BY <2>1, <3>2, SaleType DEF ConfirmOrder, TypeOK
    <3>4. [order[o] EXCEPT !.status = "confirmed", !.by = a, !.delist = d, !.key = k]
            \in OrderRow
      BY <3>1 DEF OrderRow, Actors
    <3>5. order' = [order EXCEPT ![o] = [order[o] EXCEPT !.status = "confirmed", !.by = a,
                                                        !.delist = d, !.key = k]]
      BY <2>1, <3>1 DEF ConfirmOrder, TypeOK
    <3>6. [order |-> o, delist |-> d] \in Ack
      BY DEF Ack
    <3>7. order' \in [Orders -> OrderRow \cup {NoRow}]
      BY <3>4, <3>5 DEF TypeOK
    <3>8. acks' \subseteq Ack
      BY <2>1, <3>6 DEF ConfirmOrder, TypeOK
    <3> QED
      BY <2>1, <3>3, <3>7, <3>8 DEF ConfirmOrder, TypeOK
  <2>2. ASSUME NEW k \in Keys, NEW d \in BOOLEAN, ReplayConfirm(o, k, d) PROVE TypeOK'
    BY <2>2 DEF ReplayConfirm, TypeOK, Ack
  <2>3. ASSUME NEW a \in Actors, CancelOrder(o, a) PROVE TypeOK'
    <3>1. order[o] \in OrderRow
      BY <2>3, LiveOrder DEF CancelOrder
    <3>2. [order[o] EXCEPT !.status = "cancelled"] \in OrderRow
      BY <3>1 DEF OrderRow
    <3> QED
      BY <2>3, <3>2 DEF CancelOrder, TypeOK
  <2> QED
    BY <2>1, <2>2, <2>3
<1>3. CASE HitlStep
  <2> PICK h \in Hitls, u \in Users :
        \/ \E l \in Listings, p \in Prices : NegotiateItem(u, l, p, h)
        \/ \E o \in Orders : Approve(h, u, o)
        \/ \E p \in Prices : Counter(h, u, p)
        \/ Reject(h, u)
        \/ \E o \in Orders : AcceptCounter(h, u, o)
        \/ RejectCounter(h, u)
    BY <1>3 DEF HitlStep
  <2>1. ASSUME NEW l \in Listings, NEW p \in Prices, NegotiateItem(u, l, p, h) PROVE TypeOK'
    BY <2>1 DEF NegotiateItem, TypeOK, HitlRow
  <2>2. ASSUME NEW o \in Orders, Approve(h, u, o) \/ AcceptCounter(h, u, o) PROVE TypeOK'
    <3>1. CASE Begins(h, o)
      BY <3>1 DEF Begins, TypeOK
    <3> QED
      BY <2>2, <3>1, AnswerSteps, EndsType
  <2>3. ASSUME NEW p \in Prices, Counter(h, u, p) PROVE TypeOK'
    <3>1. hitl[h] \in HitlRow
      BY <2>3, LiveHitl DEF Counter, Unanswered
    <3>2. [hitl[h] EXCEPT !.status = "countered", !.counter = p] \in HitlRow
      BY <3>1 DEF HitlRow
    <3>3. timeline' \subseteq Message
      BY <2>3, MessageType DEF Counter
    <3> QED
      BY <2>3, <3>2, <3>3 DEF Counter, TypeOK
  <2>4. ASSUME Reject(h, u) PROVE TypeOK'
    <3>1. hitl[h] \in HitlRow
      BY <2>4, LiveHitl DEF Reject, Unanswered
    <3>2. [hitl[h] EXCEPT !.status = "rejected"] \in HitlRow
      BY <3>1 DEF HitlRow
    <3>3. timeline' \subseteq Message
      BY <2>4, MessageType DEF Reject
    <3> QED
      BY <2>4, <3>2, <3>3 DEF Reject, TypeOK
  <2>6. ASSUME RejectCounter(h, u) PROVE TypeOK'
    <3>1. hitl[h] \in HitlRow
      BY <2>6, LiveHitl DEF RejectCounter
    <3>2. [hitl[h] EXCEPT !.status = "rejected"] \in HitlRow
      BY <3>1 DEF HitlRow
    <3>3. timeline' \subseteq Message
      BY <2>6, MessageType DEF RejectCounter
    <3> QED
      BY <2>6, <3>2, <3>3 DEF RejectCounter, TypeOK
  <2> QED
    BY <2>1, <2>2, <2>3, <2>4, <2>6
<1>4. ASSUME NEW h \in Hitls, DeadlinePasses(h) PROVE TypeOK'
  <2>1. hitl[h] \in HitlRow
    BY <1>4, LiveHitl DEF DeadlinePasses
  <2>2. [hitl[h] EXCEPT !.due = TRUE] \in HitlRow
    BY <2>1 DEF HitlRow
  <2> QED
    BY <1>4, <2>2 DEF DeadlinePasses, TypeOK
<1>5. ASSUME NEW batch \in SUBSET Hitls, ExpirePending(batch) PROVE TypeOK'
  <2>1. ASSUME NEW h \in batch PROVE [hitl[h] EXCEPT !.status = "expired"] \in HitlRow
    <3>1. hitl[h] \in HitlRow
      BY <1>5, <2>1, LiveHitl DEF ExpirePending, Overdue
    <3> QED
      BY <3>1 DEF HitlRow
  <2>2. hitl' \in [Hitls -> HitlRow \cup {NoRow}]
    BY <1>5, <2>1 DEF ExpirePending, TypeOK
  <2>3. timeline' \subseteq Message
    BY <1>5 DEF ExpirePending, TypeOK, Message
  <2> QED
    BY <1>5, <2>2, <2>3 DEF ExpirePending, TypeOK
<1>6. CASE ListingStep
  <2> PICK l \in Listings :
        \/ \E p \in Prices : UpdatePrice(l, p)
        \/ DeleteListing(l)
        \/ Relist(l)
        \/ \E c \in Cases : ImposeRestriction(l, c)
        \/ \E c \in Cases : ReleaseRestriction(l, c)
    BY <1>6 DEF ListingStep
  <2>1. ASSUME NEW p \in Prices, UpdatePrice(l, p) PROVE TypeOK'
    BY <2>1 DEF UpdatePrice, TypeOK, ListingRow
  <2>2. CASE DeleteListing(l)
    BY <2>2 DEF DeleteListing, TypeOK, ListingRow
  <2>3. CASE Relist(l)
    BY <2>3 DEF Relist, TypeOK, ListingRow
  <2>4. ASSUME NEW c \in Cases, ImposeRestriction(l, c) PROVE TypeOK'
    BY <2>4 DEF ImposeRestriction, TypeOK
  <2>5. ASSUME NEW c \in Cases, ReleaseRestriction(l, c) PROVE TypeOK'
    BY <2>5 DEF ReleaseRestriction, TypeOK
  <2> QED
    BY <2>1, <2>2, <2>3, <2>4, <2>5
<1>7. CASE UNCHANGED vars
  BY <1>7 DEF vars, TypeOK
<1>8. CASE SettleStep
  BY <1>8, SettleEnds, EndsType DEF SettleStep
<1> QED
  BY <1>1, <1>2, <1>3, <1>4, <1>5, <1>6, <1>7, <1>8 DEF Next, Expire

-----------------------------------------------------------------------------
(* How a record changes in one step. *)

MovesForward(o) ==
    order[o].status # "absent" /\ order'[o] # order[o] =>
      /\ <<order[o].status, order'[o].status>> \in
            {<<"intent_pending", "confirmed">>, <<"intent_pending", "cancelled">>,
             <<"confirmed", "cancelled">>}
      /\ order'[o].listing = order[o].listing
      /\ order'[o].buyer = order[o].buyer
      /\ order'[o].price = order[o].price

LEMMA RecordsStep ==
    ASSUME TypeOK, HeldInv, [Next]_vars, NEW q \in Orders
    PROVE  MovesForward(q)
<1>1. CASE UNCHANGED order
  BY <1>1 DEF MovesForward
<1>2. ASSUME NEW u \in Users, NEW o \in Orders, CreateOrder(u, o) PROVE MovesForward(q)
  BY <1>2 DEF CreateOrder, MovesForward, TypeOK, NoRow
<1>3. ASSUME NEW u \in Users, NEW l \in Listings, NEW p \in Prices, NEW o \in Orders,
             PurchaseItem(u, l, p, o)
      PROVE  MovesForward(q)
  BY <1>3 DEF PurchaseItem, MovesForward, TypeOK, NoRow
<1>4. ASSUME NEW o \in Orders, NEW a \in Actors, NEW d \in BOOLEAN,
             NEW k \in Keys \cup {None}, ConfirmOrder(o, a, d, k)
      PROVE  MovesForward(q)
  <2>1. order[o] \in OrderRow /\ order[o].status = "intent_pending"
    BY <1>4, LiveOrder DEF ConfirmOrder, CanConfirm
  <2> QED
    BY <1>4, <2>1 DEF ConfirmOrder, MovesForward, TypeOK, OrderRow
<1>5. ASSUME NEW o \in Orders, NEW a \in Actors, CancelOrder(o, a) PROVE MovesForward(q)
  <2>1. order[o] \in OrderRow /\ order[o].status \in {"intent_pending", "confirmed"}
    BY <1>5, LiveOrder DEF CancelOrder, CanCancel
  <2> QED
    BY <1>5, <2>1 DEF CancelOrder, MovesForward, TypeOK, OrderRow
<1>6. ASSUME NEW h \in Hitls, NEW o \in Orders, Ends(h, o) PROVE MovesForward(q)
  <2>1. PICK row \in OrderRow :
          /\ order' = [order EXCEPT ![o] = row]
          /\ \/ /\ row.status = "confirmed"
                /\ \/ order[o] = NoRow
                   \/ /\ order[o].status = "intent_pending"
                      /\ order[o].listing = row.listing /\ order[o].buyer = row.buyer
                      /\ order[o].price = row.price
             \/ row = order[o]
    BY <1>6 DEF Ends
  <2>2. order'[o] = row /\ \A p \in Orders \ {o} : order'[p] = order[p]
    BY <2>1 DEF TypeOK
  <2> QED
    BY <2>1, <2>2 DEF MovesForward, NoRow
<1>7. HitlStep => MovesForward(q)
  <2>1. ASSUME NEW h \in Hitls, NEW u \in Users, NEW o \in Orders,
               Approve(h, u, o) \/ AcceptCounter(h, u, o)
        PROVE  MovesForward(q)
    BY <1>1, <1>6, <2>1, AnswerSteps DEF Begins
  <2> QED
    BY <1>1, <2>1 DEF HitlStep, NegotiateItem, Counter, Reject, RejectCounter
<1>8. SettleStep => MovesForward(q)
  BY <1>6, SettleEnds DEF SettleStep
<1> QED
  BY <1>1, <1>2, <1>3, <1>4, <1>5, <1>7, <1>8
  DEF Next, IntentStep, OrderStep, ListingStep, Expire, vars,
      SubmitIntent, EndIntentCall, ReplayConfirm, DeadlinePasses, ExpirePending,
      UpdatePrice, DeleteListing, Relist, ImposeRestriction, ReleaseRestriction
-----------------------------------------------------------------------------
(* How a negotiation changes in one step. *)

\* A negotiation starts when the buyer waits for no answer, and from then on
\* keeps its parties; a closed one does not change, and none is reopened.
NegotiationMoves(h) ==
    hitl'[h] # hitl[h] =>
      \/ /\ hitl[h] = NoRow
         /\ hitl'[h].status = "pending"
         /\ hitl'[h].buyer # Owner[hitl'[h].listing]
         /\ OpenHitls(hitl'[h].listing, hitl'[h].buyer) = {}
         /\ \A g \in Hitls \ {h} : hitl'[g] = hitl[g]
      \/ /\ hitl[h].status \in {"pending", "countered"}
         /\ hitl'[h].listing = hitl[h].listing
         /\ hitl'[h].buyer = hitl[h].buyer
         /\ hitl'[h].status # "absent"
         /\ hitl'[h].status = "pending" => hitl[h].status = "pending"

LEMMA NegotiationStep ==
    ASSUME TypeOK, HeldInv, [Next]_vars, NEW g \in Hitls
    PROVE  NegotiationMoves(g)
<1>1. CASE UNCHANGED hitl
  BY <1>1 DEF NegotiationMoves
<1>2. ASSUME NEW h \in Hitls, NEW u \in Users, NEW l \in Listings, NEW p \in Prices,
             NegotiateItem(u, l, p, h)
      PROVE  NegotiationMoves(g)
  BY <1>2 DEF NegotiateItem, MayNegotiate, NegotiationMoves, TypeOK
<1>3. ASSUME NEW h \in Hitls, hitl[h].status \in {"pending", "countered"},
             NEW row \in HitlRow, hitl' = [hitl EXCEPT ![h] = row],
             row.listing = hitl[h].listing, row.buyer = hitl[h].buyer,
             row.status = "pending" => hitl[h].status = "pending"
      PROVE  NegotiationMoves(g)
  BY <1>3 DEF NegotiationMoves, TypeOK, HitlRow
<1>4. ASSUME NEW h \in Hitls, NEW o \in Orders, Ends(h, o) PROVE NegotiationMoves(g)
  <2>1. hitl[h] \in HitlRow /\ hitl[h].status \in {"pending", "countered"}
    BY <1>4 DEF Ends, Settleable
  <2>2. hitl' = [hitl EXCEPT ![h] = [hitl[h] EXCEPT !.status = "approved", !.deal = o]]
    BY <1>4 DEF Ends, SettleOn, TypeOK
  <2> QED
    BY <1>3, <2>1, <2>2 DEF HitlRow
<1>5. ASSUME NEW h \in Hitls, NEW u \in Users, NEW p \in Prices, Counter(h, u, p)
      PROVE  NegotiationMoves(g)
  <2>1. hitl[h] \in HitlRow /\ hitl[h].status = "pending"
    BY <1>5, LiveHitl DEF Counter, Unanswered
  <2>2. hitl' = [hitl EXCEPT ![h] = [hitl[h] EXCEPT !.status = "countered", !.counter = p]]
    BY <1>5 DEF Counter, TypeOK
  <2> QED
    BY <1>3, <2>1, <2>2 DEF HitlRow
<1>6. ASSUME NEW h \in Hitls, NEW u \in Users, Reject(h, u) \/ RejectCounter(h, u)
      PROVE  NegotiationMoves(g)
  <2>1. hitl[h] \in HitlRow /\ hitl[h].status \in {"pending", "countered"}
    BY <1>6, LiveHitl DEF Reject, RejectCounter, Unanswered
  <2>2. hitl' = [hitl EXCEPT ![h] = [hitl[h] EXCEPT !.status = "rejected"]]
    BY <1>6 DEF Reject, RejectCounter, TypeOK
  <2> QED
    BY <1>3, <2>1, <2>2 DEF HitlRow
<1>7. ASSUME NEW h \in Hitls, DeadlinePasses(h) PROVE NegotiationMoves(g)
  <2>1. hitl[h] \in HitlRow /\ hitl[h].status \in {"pending", "countered"}
    BY <1>7, LiveHitl DEF DeadlinePasses
  <2>2. hitl' = [hitl EXCEPT ![h] = [hitl[h] EXCEPT !.due = TRUE]]
    BY <1>7 DEF DeadlinePasses, TypeOK
  <2> QED
    BY <1>3, <2>1, <2>2 DEF HitlRow
<1>8. ASSUME NEW batch \in SUBSET Hitls, ExpirePending(batch) PROVE NegotiationMoves(g)
  <2>1. CASE g \in batch
    <3>1. hitl[g].status = "pending" /\ hitl[g] \in HitlRow
      BY <1>8, <2>1, LiveHitl DEF ExpirePending, Overdue
    <3>2. hitl'[g] = [hitl[g] EXCEPT !.status = "expired"]
      BY <1>8, <2>1 DEF ExpirePending
    <3> QED
      BY <3>1, <3>2 DEF NegotiationMoves, HitlRow
  <2>2. CASE g \notin batch
    BY <1>8, <2>2 DEF ExpirePending, NegotiationMoves
  <2> QED
    BY <2>1, <2>2
<1>9. IntentStep \/ OrderStep \/ ListingStep => UNCHANGED hitl
  <2>1. IntentStep => UNCHANGED hitl
    BY DEF IntentStep, SubmitIntent, CreateOrder, EndIntentCall, PurchaseItem
  <2>2. OrderStep => UNCHANGED hitl
    <3>1. ASSUME NEW o \in Orders, NEW a \in Actors, NEW d \in BOOLEAN,
                 NEW k \in Keys \cup {None}, ConfirmOrder(o, a, d, k)
          PROVE  UNCHANGED hitl
      BY <3>1 DEF ConfirmOrder
    <3> QED
      BY <3>1 DEF OrderStep, ReplayConfirm, CancelOrder
  <2>3. ListingStep => UNCHANGED hitl
    BY DEF ListingStep, UpdatePrice, DeleteListing, Relist, ImposeRestriction,
           ReleaseRestriction
  <2> QED
    BY <2>1, <2>2, <2>3
<1>10. HitlStep => NegotiationMoves(g)
  <2>1. ASSUME NEW h \in Hitls, NEW u \in Users, NEW o \in Orders,
               Approve(h, u, o) \/ AcceptCounter(h, u, o)
        PROVE  NegotiationMoves(g)
    BY <1>1, <1>4, <2>1, AnswerSteps DEF Begins
  <2> QED
    BY <1>2, <1>5, <1>6, <2>1 DEF HitlStep
<1>11. SettleStep => NegotiationMoves(g)
  BY <1>4, SettleEnds DEF SettleStep
<1> QED
  BY <1>1, <1>7, <1>8, <1>9, <1>10, <1>11 DEF Next, Expire, vars
-----------------------------------------------------------------------------
(* What is being settled is left alone, but for its record. *)

\* The request and who waits for it stay as they are.
Rests(h) ==
    /\ settling'[h] = settling[h]
    /\ hitl'[h].status = hitl[h].status /\ hitl'[h].counter = hitl[h].counter
    /\ hitl'[h].listing = hitl[h].listing /\ hitl'[h].buyer = hitl[h].buyer

LEMMA SettlingMoves ==
    ASSUME TypeOK, HeldInv, [Next]_vars, NEW h \in Hitls, settling'[h] # None
    PROVE  Rests(h) \/ \E o \in Orders : Begins(h, o) /\ settling'[h] = o
<1> DEFINE Goal == Rests(h) \/ \E o \in Orders : Begins(h, o) /\ settling'[h] = o
<1>1. CASE UNCHANGED <<hitl, settling>>
  BY <1>1 DEF Rests
<1>2. ASSUME NEW g \in Hitls, g # h, \A f \in Hitls \ {g} : hitl'[f] = hitl[f],
             settling'[h] = settling[h]
      PROVE  Goal
  BY <1>2 DEF Rests
<1>3. ASSUME NEW u \in Users, NEW l \in Listings, NEW p \in Prices, NEW g \in Hitls,
             NegotiateItem(u, l, p, g)
      PROVE  Goal
  <2>1. hitl[g] = NoRow /\ UNCHANGED settling /\ \A f \in Hitls \ {g} : hitl'[f] = hitl[f]
    BY <1>3 DEF NegotiateItem, TypeOK
  <2>2. g # h
    BY <2>1 DEF HeldInv, Held, NoRow
  <2> QED
    BY <1>2, <2>1, <2>2
<1>4. ASSUME NEW g \in Hitls, NEW o \in Orders, Begins(g, o) PROVE Goal
  <2>1. settling' = [settling EXCEPT ![g] = o] /\ UNCHANGED hitl
    BY <1>4 DEF Begins
  <2>2. CASE g = h
    BY <1>4, <2>1, <2>2 DEF TypeOK
  <2>3. CASE g # h
    BY <2>1, <2>3 DEF TypeOK, Rests
  <2> QED
    BY <2>2, <2>3
<1>5. ASSUME NEW g \in Hitls, NEW o \in Orders, Ends(g, o) PROVE Goal
  <2>1. /\ settling' = [settling EXCEPT ![g] = None]
        /\ \A f \in Hitls \ {g} : hitl'[f] = hitl[f]
    BY <1>5 DEF Ends, SettleOn, TypeOK
  <2>2. g # h /\ settling'[h] = settling[h]
    BY <2>1 DEF TypeOK
  <2> QED
    BY <1>2, <2>1, <2>2
<1>6. ASSUME NEW g \in Hitls, NEW u \in Users, NEW p \in Prices, Counter(g, u, p) PROVE Goal
  <2>1. UNCHANGED settling /\ settling[g] = None /\ \A f \in Hitls \ {g} : hitl'[f] = hitl[f]
    BY <1>6 DEF Counter, Locked, TypeOK
  <2> QED
    BY <1>2, <2>1
<1>7. ASSUME NEW g \in Hitls, NEW u \in Users, Reject(g, u) \/ RejectCounter(g, u) PROVE Goal
  <2>1. UNCHANGED settling /\ settling[g] = None /\ \A f \in Hitls \ {g} : hitl'[f] = hitl[f]
    BY <1>7 DEF Reject, RejectCounter, TypeOK
  <2> QED
    BY <1>2, <2>1
<1>8. ASSUME NEW g \in Hitls, DeadlinePasses(g) PROVE Goal
  <2>1. hitl[g] \in HitlRow
    BY <1>8, LiveHitl DEF DeadlinePasses
  <2> QED
    BY <1>8, <2>1 DEF DeadlinePasses, Rests, TypeOK, HitlRow
<1>9. ASSUME NEW batch \in SUBSET Hitls, ExpirePending(batch) PROVE Goal
  <2>1. UNCHANGED settling /\ hitl'[h] = IF h \in batch
          THEN [hitl[h] EXCEPT !.status = "expired"] ELSE hitl[h]
    BY <1>9 DEF ExpirePending
  <2>2. h \notin batch
    BY <1>9, <2>1 DEF ExpirePending, Overdue
  <2> QED
    BY <2>1, <2>2 DEF Rests
<1>10. IntentStep \/ ListingStep => UNCHANGED <<hitl, settling>>
  <2>1. IntentStep => UNCHANGED <<hitl, settling>>
    BY DEF IntentStep, SubmitIntent, CreateOrder, EndIntentCall, PurchaseItem
  <2>2. ListingStep => UNCHANGED <<hitl, settling>>
    BY DEF ListingStep, UpdatePrice, DeleteListing, Relist, ImposeRestriction,
           ReleaseRestriction
  <2> QED
    BY <2>1, <2>2
<1>11. OrderStep => UNCHANGED <<hitl, settling>>
  <2>1. ASSUME NEW o \in Orders, NEW a \in Actors, NEW d \in BOOLEAN,
               NEW k \in Keys \cup {None}, ConfirmOrder(o, a, d, k)
        PROVE  UNCHANGED <<hitl, settling>>
    BY <2>1 DEF ConfirmOrder
  <2> QED
    BY <2>1 DEF OrderStep, ReplayConfirm, CancelOrder
<1>12. HitlStep => Goal
  <2>1. ASSUME NEW g \in Hitls, NEW u \in Users, NEW o \in Orders,
               Approve(g, u, o) \/ AcceptCounter(g, u, o)
        PROVE  Goal
    BY <1>4, <1>5, <2>1, AnswerSteps
  <2> QED
    BY <1>3, <1>6, <1>7, <2>1 DEF HitlStep
<1>13. SettleStep => Goal
  BY <1>5, SettleEnds DEF SettleStep
<1> QED
  BY <1>1, <1>8, <1>9, <1>10, <1>11, <1>12, <1>13 DEF Next, Expire, vars

LEMMA HeldStep == TypeOK /\ HeldInv /\ [Next]_vars => HeldInv'
<1> SUFFICES ASSUME TypeOK, HeldInv, [Next]_vars, NEW h \in Hitls, settling'[h] # None
             PROVE  Held(h)'
  BY DEF HeldInv, Held
\* A request that others were settling when h began is on another listing.
<1>1. ASSUME NEW g \in Hitls, NEW f \in Hitls, NEW o \in Orders, Begins(g, o),
             settling[f] # None
      PROVE  hitl[f].listing # hitl[g].listing
  BY <1>1 DEF Begins, Locked
<1>2. CASE Rests(h)
  <2>1. settling[h] # None /\ settling[h] \in Orders /\ Held(h)
    BY <1>2 DEF Rests, HeldInv, TypeOK
  <2>2. MovesForward(settling[h])
    BY <2>1, RecordsStep
  <2>3. /\ order'[settling[h]].status # "absent"
        /\ order'[settling[h]].listing = hitl[h].listing
        /\ order'[settling[h]].buyer = hitl[h].buyer
    BY <2>1, <2>2 DEF MovesForward, Held
  <2>4. ASSUME NEW g \in Hitls, settling'[g] # None, hitl'[g].listing = hitl'[h].listing
        PROVE  g = h
    <3>1. CASE Rests(g)
      BY <1>2, <2>1, <2>4, <3>1 DEF Rests, Held
    <3>2. ASSUME NEW o \in Orders, Begins(g, o) PROVE g = h
      <4>1. UNCHANGED hitl
        BY <3>2 DEF Begins
      <4> QED
        BY <1>1, <2>1, <2>4, <3>2, <4>1
    <3> QED
      BY <2>4, <3>1, <3>2, SettlingMoves
  <2> QED
    BY <1>2, <2>1, <2>3, <2>4 DEF Rests, Held
<1>3. ASSUME NEW o \in Orders, Begins(h, o), settling'[h] = o PROVE Held(h)'
  <2>1. /\ hitl[h].status \in {"pending", "countered"}
        /\ hitl[h].status = "countered" => hitl[h].counter # None
        /\ order[o].status # "absent"
        /\ order[o].listing = hitl[h].listing /\ order[o].buyer = hitl[h].buyer
        /\ UNCHANGED <<order, hitl>>
    BY <1>3 DEF Begins, Settleable, OpenIntents
  <2>2. ASSUME NEW g \in Hitls, settling'[g] # None, hitl'[g].listing = hitl'[h].listing
        PROVE  g = h
    <3>1. CASE g # h
      <4>1. settling[g] # None
        BY <1>3, <2>2, <3>1 DEF Begins, TypeOK
      <4> QED
        BY <1>1, <1>3, <2>1, <2>2, <4>1
    <3> QED
      BY <3>1
  <2> QED
    BY <1>3, <2>1, <2>2 DEF Held
<1> QED
  BY <1>2, <1>3, SettlingMoves

LEMMA InitHeld == Init => HeldInv
BY DEF Init, HeldInv, Held

LEMMA Sound == Spec => [](TypeOK /\ HeldInv)
BY InitType, InitHeld, NextType, HeldStep, PTL DEF Spec

\* The tables keep their shape: statuses of the enums, prices from what was
\* offered, and no row refers to anything outside the tables.
THEOREM TypeCorrect == Spec => []TypeOK
BY Sound, PTL
\* Deal records only move forward and keep what they are about
\* (order.rs:41-48), whatever path touches them.
THEOREM RecordsCorrect == Spec => RecordsMoveForward
<1>1. TypeOK /\ HeldInv /\ [Next]_vars =>
        \A o \in Orders : order[o].status # "absent" /\ order'[o] # order[o] =>
          /\ <<order[o].status, order'[o].status>> \in
                {<<"intent_pending", "confirmed">>, <<"intent_pending", "cancelled">>,
                 <<"confirmed", "cancelled">>}
          /\ order'[o].listing = order[o].listing
          /\ order'[o].buyer = order[o].buyer
          /\ order'[o].price = order[o].price
  BY RecordsStep DEF MovesForward
<1> QED
  BY <1>1, Sound, PTL DEF Spec, RecordsMoveForward
-----------------------------------------------------------------------------
(* A listing is sold once per term. *)

\* A closed record keeps what was settled on it.
LEMMA ClosedStep ==
    ASSUME TypeOK, HeldInv, [Next]_vars, NEW q \in Orders, order[q].status \in Closed
    PROVE  /\ order'[q].status \in Closed /\ order'[q].listing = order[q].listing
           /\ order'[q].by = order[q].by /\ order'[q].delist = order[q].delist
<1> DEFINE Goal == /\ order'[q].status \in Closed /\ order'[q].listing = order[q].listing
                   /\ order'[q].by = order[q].by /\ order'[q].delist = order[q].delist
<1>1. CASE order'[q] = order[q]
  BY <1>1
<1>2. ASSUME NEW u \in Users, NEW o \in Orders, CreateOrder(u, o) PROVE Goal
  BY <1>1, <1>2 DEF CreateOrder, TypeOK, NoRow, Closed
<1>3. ASSUME NEW u \in Users, NEW l \in Listings, NEW p \in Prices, NEW o \in Orders,
             PurchaseItem(u, l, p, o)
      PROVE  Goal
  BY <1>1, <1>3 DEF PurchaseItem, TypeOK, NoRow, Closed
<1>4. ASSUME NEW o \in Orders, NEW a \in Actors, NEW d \in BOOLEAN,
             NEW k \in Keys \cup {None}, ConfirmOrder(o, a, d, k)
      PROVE  Goal
  <2>1. q # o
    BY <1>4 DEF ConfirmOrder, CanConfirm, Closed
  <2> QED
    BY <1>1, <1>4, <2>1 DEF ConfirmOrder, TypeOK
<1>5. ASSUME NEW o \in Orders, NEW a \in Actors, CancelOrder(o, a) PROVE Goal
  <2>1. order[q] \in OrderRow
    BY LiveOrder DEF Closed
  <2>2. order' = [order EXCEPT ![o].status = "cancelled"]
    BY <1>5 DEF CancelOrder
  <2>3. CASE q = o
    BY <2>1, <2>2, <2>3 DEF TypeOK, OrderRow, Closed
  <2>4. CASE q # o
    BY <1>1, <2>2, <2>4 DEF TypeOK
  <2> QED
    BY <2>3, <2>4
<1>6. ASSUME NEW h \in Hitls, NEW o \in Orders, Ends(h, o) PROVE Goal
  <2>1. CASE q = o
    <3>1. PICK row \in OrderRow :
            /\ order' = [order EXCEPT ![o] = row]
            /\ row = order[o] \/ order[o] = NoRow \/ order[o].status = "intent_pending"
      BY <1>6 DEF Ends
    <3>2. order'[q] = order[q]
      BY <2>1, <3>1 DEF TypeOK, NoRow, Closed
    <3> QED
      BY <1>1, <3>2
  <2>2. CASE q # o
    BY <1>1, <1>6, <2>2 DEF Ends, TypeOK
  <2> QED
    BY <2>1, <2>2
<1>7. HitlStep => Goal
  <2>1. ASSUME NEW h \in Hitls, NEW u \in Users, NEW o \in Orders,
               Approve(h, u, o) \/ AcceptCounter(h, u, o)
        PROVE  Goal
    BY <1>1, <1>6, <2>1, AnswerSteps DEF Begins
  <2> QED
    BY <1>1, <2>1 DEF HitlStep, NegotiateItem, Counter, Reject, RejectCounter
<1>8. SettleStep => Goal
  BY <1>6, SettleEnds DEF SettleStep
<1> QED
  BY <1>1, <1>2, <1>3, <1>4, <1>5, <1>7, <1>8
  DEF Next, IntentStep, OrderStep, ListingStep, Expire, vars,
      SubmitIntent, EndIntentCall, ReplayConfirm, DeadlinePasses, ExpirePending,
      UpdatePrice, DeleteListing, Relist, ImposeRestriction, ReleaseRestriction

\* A sale lies in a past term or this one.  What is being settled on has sold
\* nothing so far, without which a record could sell in two terms; and the
\* record of an approved negotiation has, without which two could share it.
SalesInv ==
    /\ \A s \in sales : s.term <= term[s.listing]
    /\ SoldOncePerTerm
    /\ SoldIffSettledThisTerm
    /\ \A h \in Hitls : settling[h] # None => \A s \in sales : s.order # settling[h]
    /\ \A h \in Hitls : hitl[h].status = "approved" => \E s \in sales : s.order = hitl[h].deal

LEMMA SaleIsClosed ==
    ASSUME TypeOK, SalesInv, NEW s \in sales
    PROVE  /\ s.order \in Orders /\ s.listing \in Listings /\ s.term \in Nat
           /\ order[s.order].status \in Closed
BY DEF SalesInv, SoldIffSettledThisTerm, SoldOn, Closed, TypeOK, Sale

\* An approved negotiation stays as it is.
LEMMA ApprovedStays ==
    ASSUME TypeOK, HeldInv, [Next]_vars, NEW h \in Hitls, hitl[h].status = "approved"
    PROVE  hitl'[h] = hitl[h]
BY NegotiationStep DEF NegotiationMoves, NoRow

\* The cause of a sale lasts.
LEMMA CausesLast ==
    ASSUME TypeOK, HeldInv, SalesInv, [Next]_vars, NEW s \in sales
    PROVE  SoldOn(s)'
<1>1. SoldOn(s) /\ s.order \in Orders /\ order[s.order].status \in Closed
  BY SaleIsClosed DEF SalesInv, SoldIffSettledThisTerm
<1>2. /\ order'[s.order].status \in Closed /\ order'[s.order].listing = order[s.order].listing
      /\ order'[s.order].by = order[s.order].by
      /\ order'[s.order].delist = order[s.order].delist
  BY <1>1, ClosedStep
<1>3. CASE order[s.order].by # None /\ order[s.order].delist
  BY <1>1, <1>2, <1>3 DEF SoldOn, Closed
<1>4. ASSUME NEW h \in Hitls, hitl[h].status = "approved", hitl[h].deal = s.order
      PROVE  SoldOn(s)'
  BY <1>1, <1>2, <1>4, ApprovedStays DEF SoldOn, Closed
<1> QED
  BY <1>1, <1>3, <1>4 DEF SoldOn

\* A step that marks a listing sold: it was on sale, so this term has no sale
\* yet, and the record has sold nothing yet.
LEMMA SellingStep ==
    ASSUME TypeOK, TypeOK', HeldInv, SalesInv, [Next]_vars,
           NEW l \in Listings, NEW o \in Orders,
           Tradable(l), MarkSold(l, o), UNCHANGED term,
           \A s \in sales : s.order # o,
           order'[o].status \in Closed, order'[o].listing = l,
           \/ order'[o].by # None /\ order'[o].delist
           \/ \E h \in Hitls : hitl'[h].status = "approved" /\ hitl'[h].deal = o,
           \A h \in Hitls : hitl'[h].status = "approved" => hitl'[h] = hitl[h] \/ hitl'[h].deal = o,
           \A h \in Hitls : settling'[h] # None => settling'[h] = settling[h] /\ settling[h] # o
    PROVE  SalesInv'
<1> DEFINE new == [listing |-> l, term |-> term[l], order |-> o]
<1>1. sales' = sales \cup {new} /\ sales \subseteq Sale
  BY DEF MarkSold, TypeOK
<1>2. ASSUME NEW s \in sales
      PROVE  s.order \in Orders \ {o} /\ s.listing \in Listings /\ s.term \in Nat
  BY SaleIsClosed
<1>3. ASSUME NEW s \in sales PROVE ~(s.listing = l /\ s.term = term[l])
  BY <1>3 DEF SalesInv, SoldIffSettledThisTerm, Tradable
<1>4. \A s \in sales' : s.term <= term'[s.listing]
  <2>1. new.term <= term[new.listing]
    BY DEF TypeOK
  <2>2. ASSUME NEW s \in sales PROVE s.term <= term[s.listing]
    BY DEF SalesInv
  <2> QED
    BY <1>1, <2>1, <2>2
<1>5. SoldOncePerTerm'
  BY <1>1, <1>2, <1>3 DEF SoldOncePerTerm, SalesInv
<1>6. SoldIffSettledThisTerm'
  <2>1. ASSUME NEW m \in Listings
        PROVE  listing'[m].status = "sold" <=>
                 \E s \in sales' : s.listing = m /\ s.term = term'[m]
    <3>1. CASE m = l
      <4>1. new \in sales' /\ new.listing = m /\ new.term = term'[m]
        BY <1>1, <3>1
      <4>2. listing'[m].status = "sold"
        BY <3>1 DEF MarkSold, TypeOK, ListingRow
      <4> QED
        BY <4>1, <4>2
    <3>2. CASE m # l
      <4>1. listing'[m] = listing[m]
        BY <3>2 DEF MarkSold, TypeOK
      <4>2. listing[m].status = "sold" <=> \E s \in sales : s.listing = m /\ s.term = term[m]
        BY DEF SalesInv, SoldIffSettledThisTerm
      <4> QED
        BY <1>1, <3>2, <4>1, <4>2
    <3> QED
      BY <3>1, <3>2
  <2>2. ASSUME NEW s \in sales' PROVE SoldOn(s)'
    <3>1. CASE s = new
      <4>1. s.order = o /\ s.listing = l
        BY <3>1
      <4>2. CASE order'[o].by # None /\ order'[o].delist
        BY <4>1, <4>2 DEF SoldOn, Closed
      <4>3. ASSUME NEW h \in Hitls, hitl'[h].status = "approved", hitl'[h].deal = o
            PROVE  SoldOn(s)'
        BY <4>1, <4>3 DEF SoldOn, Closed
      <4> QED
        BY <4>2, <4>3
    <3> QED
      BY <1>1, <2>2, <3>1, CausesLast
  <2> QED
    BY <2>1, <2>2 DEF SoldIffSettledThisTerm
<1>7. ASSUME NEW h \in Hitls, settling'[h] # None, NEW s \in sales' PROVE s.order # settling'[h]
  BY <1>1, <1>7 DEF SalesInv
<1>8. ASSUME NEW h \in Hitls, hitl'[h].status = "approved"
      PROVE  \E s \in sales' : s.order = hitl'[h].deal
  <2>1. CASE hitl'[h].deal = o
    <3>1. new \in sales' /\ new.order = o
      BY <1>1
    <3> HIDE DEF new
    <3> QED
      BY <2>1, <3>1
  <2>2. CASE hitl'[h] = hitl[h]
    <3>1. PICK s \in sales : s.order = hitl[h].deal
      BY <1>8, <2>2 DEF SalesInv
    <3> QED
      BY <1>1, <2>2, <3>1
  <2> QED
    BY <1>8, <2>1, <2>2
<1> QED
  BY <1>4, <1>5, <1>6, <1>7, <1>8 DEF SalesInv

\* A step that sells nothing and approves nothing.
LEMMA UnsoldStep ==
    ASSUME TypeOK, HeldInv, SalesInv, [Next]_vars, UNCHANGED sales,
           \A h \in Hitls : hitl'[h].status = "approved" => hitl'[h] = hitl[h]
    PROVE  /\ \A s \in sales' : SoldOn(s)'
           /\ \A h \in Hitls : settling'[h] # None => \A s \in sales' : s.order # settling'[h]
           /\ \A h \in Hitls : hitl'[h].status = "approved" =>
                \E s \in sales' : s.order = hitl'[h].deal
           /\ SoldOncePerTerm'
<1>1. ASSUME NEW h \in Hitls, settling'[h] # None, NEW s \in sales PROVE s.order # settling'[h]
  <2>1. CASE settling'[h] = settling[h]
    BY <1>1, <2>1 DEF SalesInv
  <2>2. ASSUME NEW o \in Orders, Begins(h, o), settling'[h] = o PROVE s.order # settling'[h]
    <3>1. order[o].status = "intent_pending"
      BY <2>2 DEF Begins, OpenIntents
    <3> QED
      BY <2>2, <3>1, SaleIsClosed DEF Closed
  <2> QED
    BY <1>1, <2>1, <2>2, SettlingMoves DEF Rests
<1>2. ASSUME NEW h \in Hitls, hitl'[h].status = "approved"
      PROVE  \E s \in sales : s.order = hitl'[h].deal
  BY <1>2 DEF SalesInv
<1> QED
  BY <1>1, <1>2, CausesLast DEF SalesInv, SoldOncePerTerm

LEMMA QuietStep ==
    ASSUME TypeOK, HeldInv, SalesInv, [Next]_vars, UNCHANGED <<sales, term>>,
           \A l \in Listings : listing'[l].status = "sold" <=> listing[l].status = "sold",
           \A h \in Hitls : hitl'[h].status = "approved" => hitl'[h] = hitl[h]
    PROVE  SalesInv'
<1>1. \A s \in sales' : s.term <= term'[s.listing]
  BY DEF SalesInv
<1>2. \A l \in Listings : listing'[l].status = "sold" <=>
         \E s \in sales' : s.listing = l /\ s.term = term'[l]
  BY DEF SalesInv, SoldIffSettledThisTerm
<1> QED
  BY <1>1, <1>2, UnsoldStep DEF SalesInv, SoldIffSettledThisTerm

LEMMA RelistStep ==
    ASSUME TypeOK, HeldInv, SalesInv, [Next]_vars, NEW l \in Listings, Relist(l)
    PROVE  SalesInv'
<1>1. /\ term'[l] = term[l] + 1 /\ listing'[l].status = "active"
      /\ \A m \in Listings \ {l} : term'[m] = term[m] /\ listing'[m] = listing[m]
      /\ UNCHANGED <<sales, hitl>>
  BY DEF Relist, TypeOK, ListingRow
<1>2. ASSUME NEW s \in sales
      PROVE  /\ s.listing \in Listings /\ s.term \in Nat
             /\ s.term <= term[s.listing] /\ s.term <= term'[s.listing]
             /\ s.listing = l => s.term # term'[l]
  <2>1. /\ s.listing \in Listings /\ s.term \in Nat /\ s.term <= term[s.listing]
    BY DEF SalesInv, TypeOK, Sale
  <2>2. term[s.listing] \in Nat
    BY <2>1 DEF TypeOK
  <2> QED
    BY <1>1, <2>1, <2>2
<1>3. \A m \in Listings : listing'[m].status = "sold" <=>
         \E s \in sales' : s.listing = m /\ s.term = term'[m]
  BY <1>1, <1>2 DEF SalesInv, SoldIffSettledThisTerm
<1> QED
  BY <1>1, <1>2, <1>3, UnsoldStep DEF SalesInv, SoldIffSettledThisTerm

LEMMA SalesStep == TypeOK /\ TypeOK' /\ HeldInv /\ SalesInv /\ [Next]_vars => SalesInv'
<1> SUFFICES ASSUME TypeOK, TypeOK', HeldInv, SalesInv, [Next]_vars PROVE SalesInv'
  OBVIOUS
<1>1. ASSUME UNCHANGED <<listing, sales, term>>,
             \A h \in Hitls : hitl'[h].status = "approved" => hitl'[h] = hitl[h]
      PROVE  SalesInv'
  BY <1>1, QuietStep
<1>2. ASSUME NEW o \in Orders, NEW a \in Actors, NEW k \in Keys \cup {None},
             NEW d \in BOOLEAN, ConfirmOrder(o, a, d, k)
      PROVE  SalesInv'
  <2>1. order[o] \in OrderRow /\ order[o].status = "intent_pending"
    BY <1>2, LiveOrder DEF ConfirmOrder, CanConfirm
  <2>2. order[o].listing \in Listings /\ UNCHANGED <<hitl, settling, term>>
    BY <1>2, <2>1 DEF ConfirmOrder, OrderRow
  <2>3. CASE d
    <3>1. /\ Tradable(order[o].listing) /\ MarkSold(order[o].listing, o)
          /\ ~Locked(order[o].listing)
      BY <1>2, <2>3 DEF ConfirmOrder
    <3>2. /\ order'[o].status = "confirmed" /\ order'[o].listing = order[o].listing
          /\ order'[o].by = a /\ order'[o].delist = d
      BY <1>2, <2>1 DEF ConfirmOrder, TypeOK, OrderRow
    <3>3. a # None
      BY ActorAssumption DEF Actors
    <3>4. ASSUME NEW h \in Hitls, settling[h] # None PROVE settling[h] # o
      BY <3>1, <3>4 DEF HeldInv, Held, Locked
    <3>5. \A s \in sales : s.order # o
      BY <2>1, SaleIsClosed DEF Closed
    <3>6. order'[o].status \in Closed
      BY <3>2 DEF Closed
    <3> QED
      BY <2>2, <2>3, <3>1, <3>2, <3>3, <3>4, <3>5, <3>6, SellingStep
  <2>4. CASE ~d
    BY <1>2, <2>2, <2>4, QuietStep DEF ConfirmOrder
  <2> QED
    BY <2>3, <2>4
<1>3. ASSUME NEW h \in Hitls, NEW o \in Orders, Ends(h, o) PROVE SalesInv'
  <2>1. /\ hitl[h] \in HitlRow /\ hitl[h].listing \in Listings
        /\ Tradable(hitl[h].listing) /\ MarkSold(hitl[h].listing, o) /\ UNCHANGED term
    BY <1>3, SettleableType DEF Ends, Settleable, SettleOn
  <2>2. /\ hitl'[h].status = "approved" /\ hitl'[h].deal = o
        /\ \A g \in Hitls \ {h} : hitl'[g] = hitl[g]
    BY <1>3, <2>1 DEF Ends, SettleOn, TypeOK, HitlRow
  <2>3. PICK row \in OrderRow : /\ order' = [order EXCEPT ![o] = row]
                                /\ row.listing = hitl[h].listing /\ row.status \in Closed
    BY <1>3 DEF Ends, Closed
  <2>4. order'[o].status \in Closed /\ order'[o].listing = hitl[h].listing
    BY <2>3 DEF TypeOK
  <2>5. order[o] = NoRow \/ settling[h] = o
    BY <1>3 DEF Ends
  <2>6. ASSUME NEW s \in sales PROVE s.order # o
    <3>1. CASE order[o] = NoRow
      BY <3>1, SaleIsClosed DEF NoRow, Closed
    <3>2. CASE settling[h] = o
      BY <3>2, NullAssumption DEF SalesInv
    <3> QED
      BY <2>5, <3>1, <3>2
  <2>7. settling' = [settling EXCEPT ![h] = None]
    BY <1>3 DEF Ends
  <2>8. ASSUME NEW g \in Hitls, settling'[g] # None
        PROVE  settling'[g] = settling[g] /\ settling[g] # o
    <3>1. g # h /\ settling'[g] = settling[g]
      BY <2>7, <2>8 DEF TypeOK
    <3>2. Held(g) /\ Held(h)
      BY DEF HeldInv
    <3>3. CASE order[o] = NoRow
      BY <2>8, <3>1, <3>2, <3>3 DEF Held, NoRow
    <3>4. CASE settling[h] = o
      <4>1. settling[h] # None
        BY <3>4, NullAssumption
      <4> QED
        BY <2>8, <3>1, <3>2, <3>4, <4>1 DEF Held
    <3> QED
      BY <2>5, <3>1, <3>3, <3>4
  <2> QED
    BY <2>1, <2>2, <2>4, <2>6, <2>8, SellingStep
<1>4. ASSUME NEW l \in Listings, NEW p \in Prices, UpdatePrice(l, p) PROVE SalesInv'
  <2>1. UNCHANGED <<sales, term, hitl>> /\
        \A m \in Listings : listing'[m].status = listing[m].status
    BY <1>4 DEF UpdatePrice, TypeOK, ListingRow
  <2> QED
    BY <2>1, QuietStep
<1>5. ASSUME NEW l \in Listings, DeleteListing(l) PROVE SalesInv'
  <2>1. /\ UNCHANGED <<sales, term, hitl>>
        /\ \A m \in Listings : listing'[m].status = "sold" <=> listing[m].status = "sold"
    BY <1>5 DEF DeleteListing, TypeOK, ListingRow
  <2> QED
    BY <2>1, QuietStep
<1>6. ASSUME NEW l \in Listings, Relist(l) PROVE SalesInv'
  BY <1>6, RelistStep
\* Every other step leaves listings and sales alone, and approves nothing.
<1>7. ASSUME NEW h \in Hitls, NEW u \in Users, NEW o \in Orders,
             Approve(h, u, o) \/ AcceptCounter(h, u, o)
      PROVE  SalesInv'
  BY <1>1, <1>3, <1>7, AnswerSteps DEF Begins
<1>8. ASSUME NEW h \in Hitls, NEW row \in HitlRow \cup {NoRow}, row.status # "approved",
             hitl' = [hitl EXCEPT ![h] = row], UNCHANGED <<listing, sales, term>>
      PROVE  SalesInv'
  BY <1>1, <1>8 DEF TypeOK
<1>9. ASSUME NEW h \in Hitls, NEW u \in Users, NEW l \in Listings, NEW p \in Prices,
             NegotiateItem(u, l, p, h)
      PROVE  SalesInv'
  BY <1>1, <1>9 DEF NegotiateItem, TypeOK
<1>10. ASSUME NEW h \in Hitls, NEW u \in Users, NEW p \in Prices, Counter(h, u, p)
       PROVE  SalesInv'
  <2>1. [hitl[h] EXCEPT !.status = "countered", !.counter = p].status = "countered"
    BY <1>10, LiveHitl DEF Counter, Unanswered, HitlRow
  <2>2. hitl' = [hitl EXCEPT ![h] = [hitl[h] EXCEPT !.status = "countered", !.counter = p]]
        /\ UNCHANGED <<listing, sales, term>>
    BY <1>10 DEF Counter, TypeOK
  <2> QED
    BY <1>1, <2>1, <2>2 DEF TypeOK
<1>11. ASSUME NEW h \in Hitls, NEW u \in Users, Reject(h, u) \/ RejectCounter(h, u)
       PROVE  SalesInv'
  <2>1. [hitl[h] EXCEPT !.status = "rejected"].status = "rejected"
    BY <1>11, LiveHitl DEF Reject, RejectCounter, Unanswered, HitlRow
  <2>2. hitl' = [hitl EXCEPT ![h] = [hitl[h] EXCEPT !.status = "rejected"]]
        /\ UNCHANGED <<listing, sales, term>>
    BY <1>11 DEF Reject, RejectCounter, TypeOK
  <2> QED
    BY <1>1, <2>1, <2>2 DEF TypeOK
<1>12. HitlStep => SalesInv'
  BY <1>7, <1>9, <1>10, <1>11 DEF HitlStep
<1>13. SettleStep => SalesInv'
  BY <1>3, SettleEnds DEF SettleStep
<1>14. ASSUME NEW h \in Hitls, DeadlinePasses(h) PROVE SalesInv'
  <2>1. /\ hitl[h] \in HitlRow /\ hitl[h].status \in {"pending", "countered"}
        /\ UNCHANGED <<listing, sales, term>>
    BY <1>14, LiveHitl DEF DeadlinePasses
  <2>2. hitl'[h].status = hitl[h].status /\ \A g \in Hitls \ {h} : hitl'[g] = hitl[g]
    BY <1>14, <2>1 DEF DeadlinePasses, TypeOK, HitlRow
  <2> QED
    BY <1>1, <2>1, <2>2
<1>15. ASSUME NEW batch \in SUBSET Hitls, ExpirePending(batch) PROVE SalesInv'
  <2>1. ASSUME NEW h \in Hitls, hitl'[h].status = "approved" PROVE hitl'[h] = hitl[h]
    <3>1. CASE h \in batch
      <4>1. hitl[h] \in HitlRow
        BY <1>15, <3>1, LiveHitl DEF ExpirePending, Overdue
      <4>2. hitl'[h].status = "expired"
        BY <1>15, <3>1, <4>1 DEF ExpirePending, HitlRow
      <4> QED
        BY <2>1, <4>2
    <3> QED
      BY <1>15, <3>1 DEF ExpirePending
  <2> QED
    BY <1>1, <1>15, <2>1 DEF ExpirePending
<1>16. IntentStep => SalesInv'
  BY <1>1 DEF IntentStep, SubmitIntent, CreateOrder, EndIntentCall, PurchaseItem
<1>17. OrderStep => SalesInv'
  BY <1>1, <1>2 DEF OrderStep, ReplayConfirm, CancelOrder
<1>18. ListingStep => SalesInv'
  BY <1>1, <1>4, <1>5, <1>6 DEF ListingStep, ImposeRestriction, ReleaseRestriction
<1>19. UNCHANGED vars => SalesInv'
  BY <1>1 DEF vars
<1> QED
  BY <1>12, <1>13, <1>14, <1>15, <1>16, <1>17, <1>18, <1>19 DEF Next, Expire

LEMMA InitSales == Init => SalesInv
BY DEF Init, SalesInv, SoldOncePerTerm, SoldIffSettledThisTerm, NoRow

LEMMA SalesAlways == Spec => []SalesInv
BY InitSales, SalesStep, Sound, PTL DEF Spec

\* Whatever the interleaving of buyers, seller, administrator and moderators,
\* a listing is sold at most once while it stays on sale, and one record
\* sells at most once (order.rs:255-286, negotiate.rs:77-89).
THEOREM SoldOnce == Spec => []SoldOncePerTerm
<1>1. SalesInv => SoldOncePerTerm
  BY DEF SalesInv
<1> QED
  BY <1>1, SalesAlways, PTL

\* A listing is sold exactly while a sale of this very term stands behind it,
\* and the sale keeps its cause: a record confirmed with delisting, or a
\* negotiation settled on a record that has closed by whatever way
\* (negotiate.rs:77-107).
THEOREM SalesHaveCauses == Spec => []SoldIffSettledThisTerm
<1>1. SalesInv => SoldIffSettledThisTerm
  BY DEF SalesInv
<1> QED
  BY <1>1, SalesAlways, PTL
-----------------------------------------------------------------------------
(* What ending a settlement does to the rows. *)

LEMMA EndsMoves ==
    ASSUME TypeOK, NEW h \in Hitls, NEW o \in Orders, Ends(h, o)
    PROVE  /\ hitl[h] \in HitlRow /\ hitl[h].listing \in Listings
           /\ hitl[h].status \in {"pending", "countered"}
           /\ Tradable(hitl[h].listing) /\ MarkSold(hitl[h].listing, o)
           /\ hitl'[h].status = "approved" /\ hitl'[h].deal = o
           /\ hitl'[h].listing = hitl[h].listing /\ hitl'[h].buyer = hitl[h].buyer
           /\ hitl'[h].counter = hitl[h].counter
           /\ \A g \in Hitls \ {h} : hitl'[g] = hitl[g]
<1>1. /\ hitl[h] \in HitlRow /\ hitl[h].listing \in Listings
      /\ hitl[h].status \in {"pending", "countered"}
      /\ Tradable(hitl[h].listing) /\ MarkSold(hitl[h].listing, o)
  BY SettleableType DEF Ends, Settleable, SettleOn
<1>2. hitl' = [hitl EXCEPT ![h].status = "approved", ![h].deal = o]
  BY DEF Ends, SettleOn
<1> QED
  BY <1>1, <1>2 DEF TypeOK, HitlRow

\* The record is confirmed, or it had closed before and stays as it was.
LEMMA EndsRecord ==
    ASSUME TypeOK, NEW h \in Hitls, NEW o \in Orders, Ends(h, o)
    PROVE  /\ order'[o].listing = hitl[h].listing /\ order'[o].buyer = hitl[h].buyer
           /\ order'[o].status \in Closed
           /\ \/ /\ order[o].status \in {"absent", "intent_pending"}
                 /\ order'[o].status = "confirmed" /\ order'[o].by = Answerer(h)
                 /\ order'[o].delist = TRUE
              \/ order'[o] = order[o]
           /\ \A q \in Orders \ {o} : order'[q] = order[q]
<1>1. PICK row \in OrderRow :
        /\ order' = [order EXCEPT ![o] = row]
        /\ row.listing = hitl[h].listing /\ row.buyer = hitl[h].buyer
        /\ \/ /\ row.status = "confirmed" /\ row.by = Answerer(h) /\ row.delist = TRUE
              /\ order[o] = NoRow \/ order[o].status = "intent_pending"
           \/ row = order[o] /\ row.status \in Closed
  BY DEF Ends
<1>2. order'[o] = row /\ \A q \in Orders \ {o} : order'[q] = order[q]
  BY <1>1 DEF TypeOK
<1>3. order[o] = NoRow => order[o].status = "absent"
  BY DEF NoRow
<1>4. row.status \in Closed
  BY <1>1 DEF Closed
<1> QED
  BY <1>1, <1>2, <1>3, <1>4
-----------------------------------------------------------------------------
(* One open intent and one open negotiation. *)

\* An intent is opened only where the buyer has none.
LEMMA OpeningStep ==
    ASSUME TypeOK, HeldInv, [Next]_vars, NEW q \in Orders,
           order[q].status = "absent", order'[q].status = "intent_pending"
    PROVE  /\ OpenIntents(order'[q].listing, order'[q].buyer) = {}
           /\ \A o \in Orders \ {q} : order'[o] = order[o]
<1> DEFINE Goal == /\ OpenIntents(order'[q].listing, order'[q].buyer) = {}
                   /\ \A o \in Orders \ {q} : order'[o] = order[o]
<1>1. CASE UNCHANGED order
  BY <1>1
<1>2. ASSUME NEW u \in Users, NEW o \in Orders, CreateOrder(u, o) PROVE Goal
  BY <1>2 DEF CreateOrder, MayOpenIntent, PendingOrder, TypeOK
<1>3. ASSUME NEW u \in Users, NEW l \in Listings, NEW p \in Prices, NEW o \in Orders,
             PurchaseItem(u, l, p, o)
      PROVE  Goal
  BY <1>3 DEF PurchaseItem, MayOpenIntent, PendingOrder, TypeOK
<1>4. ASSUME NEW o \in Orders, NEW a \in Actors, NEW d \in BOOLEAN,
             NEW k \in Keys \cup {None}, ConfirmOrder(o, a, d, k)
      PROVE  Goal
  <2>1. q # o
    BY <1>4 DEF ConfirmOrder
  <2> QED
    BY <1>4, <2>1 DEF ConfirmOrder, TypeOK
<1>5. ASSUME NEW o \in Orders, NEW a \in Actors, CancelOrder(o, a) PROVE Goal
  <2>1. q # o
    BY <1>5 DEF CancelOrder
  <2> QED
    BY <1>5, <2>1 DEF CancelOrder, TypeOK
<1>6. ASSUME NEW h \in Hitls, NEW o \in Orders, Ends(h, o) PROVE Goal
  <2>1. order'[o].status \in Closed /\ \A x \in Orders \ {o} : order'[x] = order[x]
    BY <1>6, EndsRecord
  <2> QED
    BY <2>1 DEF Closed
<1>7. HitlStep => Goal
  <2>1. ASSUME NEW h \in Hitls, NEW u \in Users, NEW o \in Orders,
               Approve(h, u, o) \/ AcceptCounter(h, u, o)
        PROVE  Goal
    BY <1>1, <1>6, <2>1, AnswerSteps DEF Begins
  <2> QED
    BY <1>1, <2>1 DEF HitlStep, NegotiateItem, Counter, Reject, RejectCounter
<1>8. SettleStep => Goal
  BY <1>6, SettleEnds DEF SettleStep
<1> QED
  BY <1>1, <1>2, <1>3, <1>4, <1>5, <1>7, <1>8
  DEF Next, IntentStep, OrderStep, ListingStep, Expire, vars,
      SubmitIntent, EndIntentCall, ReplayConfirm, DeadlinePasses, ExpirePending,
      UpdatePrice, DeleteListing, Relist, ImposeRestriction, ReleaseRestriction

LEMMA OneOpenStep == TypeOK /\ HeldInv /\ OneOpenEach /\ [Next]_vars => OneOpenEach'
<1> SUFFICES ASSUME TypeOK, HeldInv, OneOpenEach, [Next]_vars PROVE OneOpenEach'
  OBVIOUS
<1>1. OneOpenIntent'
  <2> SUFFICES ASSUME NEW l \in Listings, NEW u \in Users, NEW o \in Orders, NEW q \in Orders,
                      order'[o].status = "intent_pending", order'[q].status = "intent_pending",
                      order'[o].listing = l, order'[q].listing = l,
                      order'[o].buyer = u, order'[q].buyer = u
               PROVE  o = q
    BY DEF OneOpenIntent, OpenIntents
  <2>1. MovesForward(o) /\ MovesForward(q)
    BY RecordsStep
  <2>2. CASE order[o].status = "absent"
    <3>1. OpenIntents(l, u) = {} /\ \A x \in Orders \ {o} : order'[x] = order[x]
      BY <2>2, OpeningStep
    <3> QED
      BY <3>1 DEF OpenIntents
  <2>3. CASE order[q].status = "absent"
    <3>1. OpenIntents(l, u) = {} /\ \A x \in Orders \ {q} : order'[x] = order[x]
      BY <2>3, OpeningStep
    <3> QED
      BY <3>1 DEF OpenIntents
  <2>4. CASE order[o].status # "absent" /\ order[q].status # "absent"
    <3>1. order'[o] = order[o] /\ order'[q] = order[q]
      BY <2>1, <2>4 DEF MovesForward
    <3> QED
      BY <3>1 DEF OneOpenEach, OneOpenIntent, OpenIntents
  <2> QED
    BY <2>2, <2>3, <2>4
<1>2. OneOpenNegotiation'
  <2> SUFFICES ASSUME NEW l \in Listings, NEW u \in Users, NEW g \in Hitls, NEW h \in Hitls,
                      hitl'[g].status = "pending", hitl'[h].status = "pending",
                      hitl'[g].listing = l, hitl'[h].listing = l,
                      hitl'[g].buyer = u, hitl'[h].buyer = u
               PROVE  g = h
    BY DEF OneOpenNegotiation, OpenHitls
  <2>1. NegotiationMoves(g) /\ NegotiationMoves(h)
    BY NegotiationStep
  <2>2. CASE hitl[g] = NoRow
    BY <2>1, <2>2 DEF NegotiationMoves, OpenHitls, NoRow
  <2>3. CASE hitl[h] = NoRow
    BY <2>1, <2>3 DEF NegotiationMoves, OpenHitls, NoRow
  <2>4. CASE hitl[g] # NoRow /\ hitl[h] # NoRow
    <3>1. g \in OpenHitls(l, u) /\ h \in OpenHitls(l, u)
      BY <2>1, <2>4 DEF NegotiationMoves, OpenHitls
    <3> QED
      BY <3>1 DEF OneOpenEach, OneOpenNegotiation
  <2> QED
    BY <2>2, <2>3, <2>4
<1> QED
  BY <1>1, <1>2 DEF OneOpenEach

LEMMA InitOpen == Init => OneOpenEach
BY DEF Init, NoRow, OneOpenEach, OneOpenIntent, OneOpenNegotiation, OpenIntents, OpenHitls

\* However HTTP calls, the assistant and the seller interleave, a buyer has
\* one open intent and one open negotiation per listing
\* (order.rs:143-161, trade.rs:192-223 and 407-418).
THEOREM OneIsOpen == Spec => []OneOpenEach
BY InitOpen, OneOpenStep, Sound, PTL DEF Spec
-----------------------------------------------------------------------------
(* What a confirmation was answered with stays true. *)

\* Besides the property: a record that stands as delisting has sold its
\* listing, without which the answer to a repeated confirmation could be false.
AckInv ==
    /\ AckIsTrue
    /\ \A o \in Orders : order[o].status = "confirmed" /\ order[o].delist
                           => \E s \in sales : s.order = o

\* A record that is confirmed, with what it says of its listing.
LEMMA ConfirmingStep ==
    ASSUME TypeOK, AckInv, NEW o \in Orders, NEW d \in BOOLEAN,
           order[o].status \in {"absent", "intent_pending"},
           order'[o].status = "confirmed", order'[o].delist = d,
           \A q \in Orders \ {o} : order'[q] = order[q],
           sales \subseteq sales', d => \E s \in sales' : s.order = o,
           acks' \subseteq acks \cup {[order |-> o, delist |-> d]}
    PROVE  AckInv'
<1>1. ASSUME NEW a \in acks PROVE a.order \in Orders \ {o}
  BY DEF AckInv, AckIsTrue, TypeOK, Ack
<1>2. AckIsTrue'
  <2> SUFFICES ASSUME NEW a \in acks'
               PROVE  /\ order'[a.order].status \in {"confirmed", "cancelled"}
                      /\ order'[a.order].delist = a.delist
                      /\ a.delist => \E s \in sales' : s.order = a.order
    BY DEF AckIsTrue
  <2>1. CASE a \in acks
    <3>1. order'[a.order] = order[a.order]
      BY <1>1, <2>1
    <3> QED
      BY <2>1, <3>1 DEF AckInv, AckIsTrue
  <2>2. CASE a = [order |-> o, delist |-> d]
    BY <2>2
  <2> QED
    BY <2>1, <2>2
<1>3. ASSUME NEW q \in Orders, order'[q].status = "confirmed", order'[q].delist
      PROVE  \E s \in sales' : s.order = q
  <2>1. CASE q = o
    BY <1>3, <2>1
  <2>2. CASE q # o
    <3>1. order[q].status = "confirmed" /\ order[q].delist
      BY <1>3, <2>2
    <3> QED
      BY <3>1 DEF AckInv
  <2> QED
    BY <2>1, <2>2
<1> QED
  BY <1>2, <1>3 DEF AckInv

LEMMA SellingIsKept ==
    ASSUME NEW l \in Listings, NEW o \in Orders, MarkSold(l, o)
    PROVE  sales \subseteq sales' /\ \E s \in sales' : s.order = o
<1> DEFINE new == [listing |-> l, term |-> term[l], order |-> o]
<1>1. sales' = sales \cup {new} /\ new.order = o
  BY DEF MarkSold
<1> HIDE DEF new
<1> QED
  BY <1>1

LEMMA AckStep == TypeOK /\ HeldInv /\ AckInv /\ [Next]_vars => AckInv'
<1> SUFFICES ASSUME TypeOK, HeldInv, AckInv, [Next]_vars PROVE AckInv'
  OBVIOUS
<1>1. CASE UNCHANGED <<order, sales, acks>>
  BY <1>1 DEF AckInv, AckIsTrue
<1>2. ASSUME NEW u \in Users, NEW o \in Orders, NEW l \in Listings, NEW p \in Prices,
             order[o] = NoRow, order' = [order EXCEPT ![o] = PendingOrder(l, u, p)],
             UNCHANGED <<sales, acks>>
      PROVE  AckInv'
  <2>1. order'[o].status = "intent_pending" /\ \A q \in Orders \ {o} : order'[q] = order[q]
    BY <1>2 DEF TypeOK, PendingOrder
  <2>2. \A a \in acks : a.order \in Orders \ {o}
    BY <1>2 DEF AckInv, AckIsTrue, TypeOK, Ack, NoRow
  <2>3. \A q \in Orders : order'[q].status = "confirmed" => order'[q] = order[q]
    BY <2>1
  <2> QED
    BY <1>2, <2>1, <2>2, <2>3 DEF AckInv, AckIsTrue
<1>3. ASSUME NEW u \in Users, NEW o \in Orders, CreateOrder(u, o) PROVE AckInv'
  <2>1. intent[u].listing \in Listings /\ intent[u].price \in Prices
    BY <1>3 DEF CreateOrder, TypeOK
  <2> QED
    BY <1>2, <1>3, <2>1 DEF CreateOrder
<1>4. ASSUME NEW o \in Orders, NEW a \in Actors, NEW k \in Keys \cup {None},
             NEW d \in BOOLEAN, ConfirmOrder(o, a, d, k)
      PROVE  AckInv'
  <2>1. order[o] \in OrderRow /\ order[o].status = "intent_pending"
    BY <1>4, LiveOrder DEF ConfirmOrder, CanConfirm
  <2>2. PICK row \in OrderRow : /\ row.status = "confirmed" /\ row.delist = d
                                /\ order' = [order EXCEPT ![o] = row]
    <3>1. [order[o] EXCEPT !.status = "confirmed", !.by = a, !.delist = d, !.key = k]
            \in OrderRow
      BY <2>1 DEF OrderRow, Actors
    <3>2. order' = [order EXCEPT ![o] = [order[o] EXCEPT !.status = "confirmed", !.by = a,
                                                        !.delist = d, !.key = k]]
      BY <1>4, <2>1 DEF ConfirmOrder, TypeOK
    <3>3. /\ [order[o] EXCEPT !.status = "confirmed", !.by = a, !.delist = d, !.key = k].status
               = "confirmed"
          /\ [order[o] EXCEPT !.status = "confirmed", !.by = a, !.delist = d, !.key = k].delist = d
      BY <2>1 DEF OrderRow
    <3> QED
      BY <3>1, <3>2, <3>3
  <2>3. /\ order'[o].status = "confirmed" /\ order'[o].delist = d
        /\ \A q \in Orders \ {o} : order'[q] = order[q]
    BY <2>2 DEF TypeOK
  <2>4. acks' = acks \cup {[order |-> o, delist |-> d]}
    BY <1>4 DEF ConfirmOrder
  <2>5. CASE d
    <3>1. order[o].listing \in Listings /\ MarkSold(order[o].listing, o)
      BY <1>4, <2>1, <2>5 DEF ConfirmOrder, OrderRow
    <3>2. sales \subseteq sales' /\ \E s \in sales' : s.order = o
      BY <3>1, SellingIsKept
    <3> QED
      BY <2>1, <2>3, <2>4, <3>2, ConfirmingStep
  <2>6. CASE ~d
    <3>1. UNCHANGED sales
      BY <1>4, <2>6 DEF ConfirmOrder
    <3> QED
      BY <2>1, <2>3, <2>4, <2>6, <3>1, ConfirmingStep
  <2> QED
    BY <2>5, <2>6
<1>5. ASSUME NEW o \in Orders, NEW k \in Keys, NEW d \in BOOLEAN, ReplayConfirm(o, k, d)
      PROVE  AckInv'
  <2>1. /\ order[o].status = "confirmed" /\ order[o].delist = d
        /\ UNCHANGED <<order, sales>> /\ acks' = acks \cup {[order |-> o, delist |-> d]}
    BY <1>5 DEF ReplayConfirm, SameRequest
  <2>2. d => \E s \in sales : s.order = o
    BY <2>1 DEF AckInv
  <2> QED
    BY <2>1, <2>2 DEF AckInv, AckIsTrue
<1>6. ASSUME NEW o \in Orders, NEW a \in Actors, CancelOrder(o, a) PROVE AckInv'
  <2>1. order[o] \in OrderRow
    BY <1>6, LiveOrder DEF CancelOrder
  <2>2. /\ order'[o].status = "cancelled" /\ order'[o].delist = order[o].delist
        /\ \A q \in Orders \ {o} : order'[q] = order[q]
        /\ UNCHANGED <<sales, acks>>
    BY <1>6, <2>1 DEF CancelOrder, TypeOK, OrderRow
  <2>3. \A q \in Orders : order'[q].status = "confirmed" => order'[q] = order[q]
    BY <2>2
  <2>4. \A b \in acks : /\ b.order \in Orders
                        /\ order'[b.order].status \in {"confirmed", "cancelled"}
                        /\ order'[b.order].delist = order[b.order].delist
    BY <2>2 DEF AckInv, AckIsTrue, TypeOK, Ack
  <2> QED
    BY <2>2, <2>3, <2>4 DEF AckInv, AckIsTrue
<1>7. ASSUME NEW h \in Hitls, NEW o \in Orders, Ends(h, o) PROVE AckInv'
  <2>1. sales \subseteq sales' /\ \E s \in sales' : s.order = o
    BY <1>7, EndsMoves, SellingIsKept
  <2>2. UNCHANGED acks
    BY <1>7 DEF Ends
  <2>3. CASE order'[o] = order[o]
    <3>1. \A q \in Orders : order'[q] = order[q]
      BY <1>7, <2>3, EndsRecord
    <3>2. \A a \in acks : a.order \in Orders
      BY DEF TypeOK, Ack
    <3> QED
      BY <2>1, <2>2, <3>1, <3>2 DEF AckInv, AckIsTrue
  <2>4. CASE order'[o] # order[o]
    <3>1. /\ order[o].status \in {"absent", "intent_pending"}
          /\ order'[o].status = "confirmed" /\ order'[o].delist = TRUE
          /\ \A q \in Orders \ {o} : order'[q] = order[q]
      BY <1>7, <2>4, EndsRecord
    <3> QED
      BY <2>1, <2>2, <3>1, ConfirmingStep
  <2> QED
    BY <2>3, <2>4
<1>8. IntentStep => AckInv'
  <2>1. ASSUME NEW u \in Users, NEW l \in Listings, NEW p \in Prices, NEW o \in Orders,
               PurchaseItem(u, l, p, o)
        PROVE  AckInv'
    BY <1>2, <2>1 DEF PurchaseItem
  <2>2. ASSUME NEW u \in Users, NEW l \in Listings, NEW p \in Prices, SubmitIntent(u, l, p)
        PROVE  AckInv'
    BY <1>1, <2>2 DEF SubmitIntent
  <2>3. ASSUME NEW u \in Users, EndIntentCall(u) PROVE AckInv'
    BY <1>1, <2>3 DEF EndIntentCall
  <2> QED
    BY <1>3, <2>1, <2>2, <2>3 DEF IntentStep
<1>9. OrderStep => AckInv'
  BY <1>4, <1>5, <1>6 DEF OrderStep
<1>10. HitlStep => AckInv'
  <2>1. ASSUME NEW h \in Hitls, NEW u \in Users, NEW o \in Orders,
               Approve(h, u, o) \/ AcceptCounter(h, u, o)
        PROVE  AckInv'
    BY <1>1, <1>7, <2>1, AnswerSteps DEF Begins
  <2> QED
    BY <1>1, <2>1 DEF HitlStep, NegotiateItem, Counter, Reject, RejectCounter
<1>11. SettleStep => AckInv'
  BY <1>7, SettleEnds DEF SettleStep
<1>12. ListingStep => UNCHANGED <<order, sales, acks>>
  BY DEF ListingStep, UpdatePrice, DeleteListing, Relist, ImposeRestriction, ReleaseRestriction
<1> QED
  BY <1>1, <1>8, <1>9, <1>10, <1>11, <1>12 DEF Next, Expire, ExpirePending, DeadlinePasses, vars

LEMMA InitAcks == Init => AckInv
BY DEF Init, AckInv, AckIsTrue, NoRow

\* An acknowledged confirmation is never contradicted by the record: neither
\* a replay nor a later cancellation changes the choice it was answered with,
\* and "delisted" means this record sold the listing (order.rs:226-232).
THEOREM AcksStayTrue == Spec => []AckIsTrue
<1>1. AckInv => AckIsTrue
  BY DEF AckInv
<1> QED
  BY <1>1, InitAcks, AckStep, Sound, PTL DEF Spec
-----------------------------------------------------------------------------
(* A negotiated deal rests on one negotiation and on the consent of both. *)

\* Nobody deals with himself, without which the owner's confirmation would
\* pass for the buyer's; and the record a negotiation settled on is closed,
\* without which a second one could settle on it.
AgreedInv ==
    /\ DealsAreAgreed
    /\ \A u \in Users : intent[u] # NoCall => u # Owner[intent[u].listing]
    /\ \A o \in Orders : order[o].status # "absent" => order[o].buyer # Owner[order[o].listing]
    /\ \A h \in Hitls : hitl[h].status # "absent" => hitl[h].buyer # Owner[hitl[h].listing]
    /\ \A h \in Hitls : hitl[h].status = "approved" =>
          hitl[h].deal \in Orders /\ order[hitl[h].deal].status \in Closed

\* A step that settles no negotiation and confirms nothing for a buyer.
LEMMA UnsettledStep ==
    ASSUME TypeOK, HeldInv, AgreedInv, [Next]_vars,
           \A h \in Hitls : hitl'[h].status = "approved" \/ hitl[h].status = "approved"
                              => hitl'[h] = hitl[h],
           \A o \in Orders : order'[o].status = "confirmed" /\ order'[o].by = order'[o].buyer
                               => order'[o] = order[o],
           \A u \in Users : intent'[u] # NoCall /\ intent'[u] # intent[u]
                               => u # Owner[intent'[u].listing],
           \A o \in Orders : order[o].status = "absent" /\ order'[o].status # "absent"
                               => order'[o].buyer # Owner[order'[o].listing]
    PROVE  AgreedInv'
<1>1. \A o \in Orders : MovesForward(o)
  BY RecordsStep
<1>2. \A h \in Hitls : NegotiationMoves(h)
  BY NegotiationStep
<1>3. \A h \in Hitls : hitl'[h].status = "approved" =>
          hitl'[h].deal \in Orders /\ order'[hitl'[h].deal].status \in Closed
  BY <1>1 DEF AgreedInv, MovesForward, Closed
<1>4. \A o \in Orders : order'[o].status # "absent" => order'[o].buyer # Owner[order'[o].listing]
  <2> SUFFICES ASSUME NEW o \in Orders, order'[o].status # "absent", order[o].status # "absent"
               PROVE  order'[o].buyer # Owner[order'[o].listing]
    OBVIOUS
  <2>1. order'[o].buyer = order[o].buyer /\ order'[o].listing = order[o].listing
    BY <1>1 DEF MovesForward
  <2> QED
    BY <2>1 DEF AgreedInv
<1>5. \A h \in Hitls : hitl'[h].status # "absent" => hitl'[h].buyer # Owner[hitl'[h].listing]
  <2> SUFFICES ASSUME NEW h \in Hitls, hitl'[h].status # "absent"
               PROVE  hitl'[h].buyer # Owner[hitl'[h].listing]
    OBVIOUS
  <2>1. CASE hitl'[h] = hitl[h]
    BY <2>1 DEF AgreedInv
  <2>2. CASE hitl'[h] # hitl[h] /\ hitl[h].status \in {"pending", "countered"}
    BY <1>2, <2>2 DEF AgreedInv, NegotiationMoves, NoRow
  <2>3. CASE hitl'[h] # hitl[h] /\ hitl[h] = NoRow
    BY <1>2, <2>3 DEF NegotiationMoves, NoRow
  <2> QED
    BY <1>2, <2>1, <2>2, <2>3 DEF NegotiationMoves
<1>6. DealSettlesOneNegotiation'
  BY DEF AgreedInv, DealsAreAgreed, DealSettlesOneNegotiation
<1>7. SellerConsented'
  BY DEF AgreedInv, DealsAreAgreed, SellerConsented
<1>8. \A u \in Users : intent'[u] # NoCall => u # Owner[intent'[u].listing]
  BY DEF AgreedInv
<1> QED
  BY <1>3, <1>4, <1>5, <1>6, <1>7, <1>8 DEF AgreedInv, DealsAreAgreed

\* A step that settles a negotiation h on record o, for a price of the seller's.
LEMMA SettlingStep ==
    ASSUME TypeOK, SalesInv, AgreedInv, NEW h \in Hitls, NEW o \in Orders, Ends(h, o)
    PROVE  AgreedInv'
<1>1. /\ hitl[h].status \in {"pending", "countered"}
      /\ hitl[h].status = "countered" => hitl[h].counter # None
  BY DEF Ends, Settleable
<1>2. /\ order'[o].listing = hitl[h].listing /\ order'[o].buyer = hitl[h].buyer
      /\ order'[o].status \in Closed
      /\ \/ order'[o].by = Answerer(h)
         \/ order'[o] = order[o]
      /\ \A q \in Orders \ {o} : order'[q] = order[q]
      /\ UNCHANGED intent
  <2>1. UNCHANGED intent
    BY DEF Ends
  <2> QED
    BY <2>1, EndsRecord
<1>3. /\ hitl'[h].status = "approved" /\ hitl'[h].deal = o
      /\ hitl'[h].listing = hitl[h].listing /\ hitl'[h].buyer = hitl[h].buyer
      /\ hitl'[h].counter = hitl[h].counter
      /\ \A g \in Hitls \ {h} : hitl'[g] = hitl[g]
  BY EndsMoves
\* No approved negotiation has the record: it would have sold its listing.
<1>4. ASSUME NEW g \in Hitls, hitl[g].status = "approved" PROVE hitl[g].deal \in Orders \ {o}
  <2>1. hitl[g].deal \in Orders /\ \E s \in sales : s.order = hitl[g].deal
    BY <1>4 DEF AgreedInv, SalesInv
  <2>2. order[o] = NoRow \/ settling[h] = o
    BY DEF Ends
  <2>3. CASE order[o] = NoRow
    BY <2>1, <2>3, SaleIsClosed DEF NoRow, Closed
  <2>4. CASE settling[h] = o
    BY <2>1, <2>4, NullAssumption DEF SalesInv
  <2> QED
    BY <2>2, <2>3, <2>4
<1>5. DealSettlesOneNegotiation'
  <2> SUFFICES ASSUME NEW f \in Hitls, NEW g \in Hitls,
                      hitl'[f].status = "approved", hitl'[g].status = "approved",
                      hitl'[f].deal = hitl'[g].deal
               PROVE  f = g
    BY DEF DealSettlesOneNegotiation
  <2>1. CASE f # h /\ g # h
    <3>1. hitl'[f] = hitl[f] /\ hitl'[g] = hitl[g]
      BY <1>3, <2>1
    <3> QED
      BY <3>1 DEF AgreedInv, DealsAreAgreed, DealSettlesOneNegotiation
  <2>2. CASE f = h /\ g # h
    <3>1. hitl'[g] = hitl[g]
      BY <1>3, <2>2
    <3> QED
      BY <1>3, <1>4, <2>2, <3>1
  <2>3. CASE f # h /\ g = h
    <3>1. hitl'[f] = hitl[f]
      BY <1>3, <2>3
    <3> QED
      BY <1>3, <1>4, <2>3, <3>1
  <2> QED
    BY <2>1, <2>2, <2>3
<1>6. SellerConsented'
  <2> SUFFICES ASSUME NEW q \in Orders, order'[q].status = "confirmed",
                      order'[q].by = order'[q].buyer
               PROVE  \E g \in Hitls : /\ hitl'[g].status = "approved"
                                       /\ hitl'[g].deal = q
                                       /\ hitl'[g].counter # None
    BY DEF SellerConsented
  <2>1. CASE q = o /\ order'[o].by = Answerer(h)
    <3>1. Answerer(h) = hitl[h].buyer
      BY <1>2, <2>1
    <3>2. hitl[h].buyer # Owner[hitl[h].listing]
      BY <1>1 DEF AgreedInv
    <3>3. hitl[h].status = "countered"
      BY <3>1, <3>2 DEF Answerer
    <3> QED
      BY <1>1, <1>3, <2>1, <3>3
  <2>2. CASE order'[q] = order[q]
    <3>1. order[q].status = "confirmed" /\ order[q].by = order[q].buyer
      BY <2>2
    <3>2. PICK g \in Hitls : /\ hitl[g].status = "approved"
                             /\ hitl[g].deal = q /\ hitl[g].counter # None
      BY <3>1 DEF AgreedInv, DealsAreAgreed, SellerConsented
    <3>3. g # h
      BY <1>1, <3>2
    <3> QED
      BY <1>3, <3>2, <3>3
  <2> QED
    BY <1>2, <2>1, <2>2
<1>7. \A g \in Hitls : hitl'[g].status # "absent" => hitl'[g].buyer # Owner[hitl'[g].listing]
  <2> SUFFICES ASSUME NEW g \in Hitls, hitl'[g].status # "absent"
               PROVE  hitl'[g].buyer # Owner[hitl'[g].listing]
    OBVIOUS
  <2>1. CASE g = h
    BY <1>1, <1>3, <2>1 DEF AgreedInv
  <2>2. CASE g # h
    <3>1. hitl'[g] = hitl[g]
      BY <1>3, <2>2
    <3> QED
      BY <3>1 DEF AgreedInv
  <2> QED
    BY <2>1, <2>2
<1>8. \A q \in Orders : order'[q].status # "absent" => order'[q].buyer # Owner[order'[q].listing]
  BY <1>1, <1>2 DEF AgreedInv
<1>9. \A g \in Hitls : hitl'[g].status = "approved" =>
          hitl'[g].deal \in Orders /\ order'[hitl'[g].deal].status \in Closed
  <2> SUFFICES ASSUME NEW g \in Hitls, hitl'[g].status = "approved"
               PROVE  hitl'[g].deal \in Orders /\ order'[hitl'[g].deal].status \in Closed
    OBVIOUS
  <2>1. CASE g = h
    BY <1>2, <1>3, <2>1 DEF Closed
  <2>2. CASE g # h
    <3>1. hitl'[g] = hitl[g]
      BY <1>3, <2>2
    <3>2. hitl[g].deal \in Orders \ {o} /\ order[hitl[g].deal].status \in Closed
      BY <1>4, <3>1 DEF AgreedInv
    <3> QED
      BY <1>2, <3>1, <3>2
  <2> QED
    BY <2>1, <2>2
<1>10. \A u \in Users : intent'[u] # NoCall => u # Owner[intent'[u].listing]
  BY <1>2 DEF AgreedInv
<1> QED
  BY <1>5, <1>6, <1>7, <1>8, <1>9, <1>10 DEF AgreedInv, DealsAreAgreed

LEMMA AgreedStep == TypeOK /\ HeldInv /\ SalesInv /\ AgreedInv /\ [Next]_vars => AgreedInv'
<1> SUFFICES ASSUME TypeOK, HeldInv, SalesInv, AgreedInv, [Next]_vars PROVE AgreedInv'
  OBVIOUS
<1>1. CASE UNCHANGED <<order, hitl, intent>>
  BY <1>1, UnsettledStep
<1>2. ASSUME NEW u \in Users, NEW l \in Listings, NEW p \in Prices, SubmitIntent(u, l, p)
      PROVE  AgreedInv'
  <2>1. /\ intent'[u].listing = l /\ \A v \in Users \ {u} : intent'[v] = intent[v]
        /\ u # Owner[l] /\ UNCHANGED <<order, hitl>>
    BY <1>2 DEF SubmitIntent, TypeOK
  <2> QED
    BY <2>1, UnsettledStep
<1>3. ASSUME NEW u \in Users, NEW o \in Orders, CreateOrder(u, o) PROVE AgreedInv'
  <2>1. /\ intent[u] # NoCall /\ order[o] = NoRow /\ intent' = [intent EXCEPT ![u] = NoCall]
        /\ order' = [order EXCEPT ![o] = PendingOrder(intent[u].listing, u, intent[u].price)]
        /\ UNCHANGED hitl
    BY <1>3 DEF CreateOrder
  <2>2. /\ order'[o].status = "intent_pending" /\ order'[o].buyer = u
        /\ order'[o].listing = intent[u].listing
        /\ \A q \in Orders \ {o} : order'[q] = order[q]
    BY <2>1 DEF TypeOK, PendingOrder
  <2>3. u # Owner[intent[u].listing]
    BY <2>1 DEF AgreedInv
  <2>4. \A v \in Users : intent'[v] # NoCall => intent'[v] = intent[v]
    BY <2>1 DEF TypeOK
  <2> QED
    BY <2>1, <2>2, <2>3, <2>4, UnsettledStep
<1>4. ASSUME NEW u \in Users, EndIntentCall(u) PROVE AgreedInv'
  <2>1. \A v \in Users : intent'[v] # NoCall => intent'[v] = intent[v]
    BY <1>4 DEF EndIntentCall, TypeOK
  <2> QED
    BY <1>4, <2>1, UnsettledStep DEF EndIntentCall
<1>5. ASSUME NEW u \in Users, NEW l \in Listings, NEW p \in Prices, NEW o \in Orders,
             PurchaseItem(u, l, p, o)
      PROVE  AgreedInv'
  <2>1. /\ order'[o].status = "intent_pending" /\ order'[o].buyer = u
        /\ order'[o].listing = l /\ u # Owner[l]
        /\ \A q \in Orders \ {o} : order'[q] = order[q]
        /\ UNCHANGED <<hitl, intent>>
    BY <1>5 DEF PurchaseItem, TypeOK, PendingOrder
  <2> QED
    BY <2>1, UnsettledStep
<1>6. ASSUME NEW o \in Orders, NEW a \in Actors, NEW d \in BOOLEAN,
             NEW k \in Keys \cup {None}, ConfirmOrder(o, a, d, k)
      PROVE  AgreedInv'
  <2>1. order[o] \in OrderRow /\ order[o].status = "intent_pending"
    BY <1>6, LiveOrder DEF ConfirmOrder, CanConfirm
  <2>2. a # order[o].buyer
    <3>1. order[o].buyer # Owner[order[o].listing] /\ order[o].buyer \in Users
      BY <2>1 DEF AgreedInv, OrderRow
    <3>2. a = Owner[order[o].listing] \/ a = Admin
      BY <1>6 DEF ConfirmOrder
    <3> QED
      BY <3>1, <3>2, ActorAssumption
  <2>3. PICK row \in OrderRow : /\ row.by = a /\ row.buyer = order[o].buyer
                                /\ order' = [order EXCEPT ![o] = row]
    <3>1. [order[o] EXCEPT !.status = "confirmed", !.by = a, !.delist = d, !.key = k]
            \in OrderRow
      BY <2>1 DEF OrderRow, Actors
    <3>2. order' = [order EXCEPT ![o] = [order[o] EXCEPT !.status = "confirmed", !.by = a,
                                                        !.delist = d, !.key = k]]
      BY <1>6, <2>1 DEF ConfirmOrder, TypeOK
    <3>3. /\ [order[o] EXCEPT !.status = "confirmed", !.by = a, !.delist = d, !.key = k].by = a
          /\ [order[o] EXCEPT !.status = "confirmed", !.by = a, !.delist = d, !.key = k].buyer
               = order[o].buyer
      BY <2>1 DEF OrderRow
    <3> QED
      BY <3>1, <3>2, <3>3
  <2>4. /\ order'[o].by = a /\ order'[o].buyer = order[o].buyer
        /\ \A q \in Orders \ {o} : order'[q] = order[q]
    BY <2>3 DEF TypeOK
  <2>5. UNCHANGED <<hitl, intent>>
    BY <1>6 DEF ConfirmOrder
  <2> QED
    BY <2>1, <2>2, <2>4, <2>5, UnsettledStep
<1>7. ASSUME NEW o \in Orders, NEW a \in Actors, CancelOrder(o, a) PROVE AgreedInv'
  <2>1. order[o] \in OrderRow /\ order[o].status # "absent"
    BY <1>7, LiveOrder DEF CancelOrder
  <2>2. /\ order'[o].status = "cancelled"
        /\ \A q \in Orders \ {o} : order'[q] = order[q]
        /\ UNCHANGED <<hitl, intent>>
    BY <1>7, <2>1 DEF CancelOrder, TypeOK, OrderRow
  <2> QED
    BY <2>1, <2>2, UnsettledStep
<1>8. ASSUME NEW h \in Hitls, NEW u \in Users, NEW o \in Orders,
             Approve(h, u, o) \/ AcceptCounter(h, u, o)
      PROVE  AgreedInv'
  BY <1>1, <1>8, AnswerSteps, SettlingStep DEF Begins
<1>9. SettleStep => AgreedInv'
  BY SettleEnds, SettlingStep DEF SettleStep
<1>10. ASSUME UNCHANGED <<order, intent>>,
              \A h \in Hitls : hitl'[h].status = "approved" \/ hitl[h].status = "approved"
                                 => hitl'[h] = hitl[h]
       PROVE  AgreedInv'
  BY <1>10, UnsettledStep
<1>11. ASSUME NEW h \in Hitls, NEW u \in Users,
              \/ \E l \in Listings, p \in Prices : NegotiateItem(u, l, p, h)
              \/ \E p \in Prices : Counter(h, u, p)
              \/ Reject(h, u) \/ RejectCounter(h, u) \/ DeadlinePasses(h)
       PROVE  AgreedInv'
  <2>1. /\ UNCHANGED <<order, intent>>
        /\ \A g \in Hitls \ {h} : hitl'[g] = hitl[g]
    BY <1>11 DEF NegotiateItem, Counter, Reject, RejectCounter, DeadlinePasses, TypeOK
  <2>2. hitl[h].status \in {"absent", "pending", "countered"}
    BY <1>11 DEF NegotiateItem, Counter, Reject, RejectCounter, DeadlinePasses, Unanswered, NoRow
  <2>3. CASE hitl[h] = NoRow
    BY <1>10, <2>1, <2>3, NegotiationStep DEF NegotiationMoves, NoRow
  <2>4. CASE hitl[h] # NoRow
    <3>1. hitl[h] \in HitlRow
      BY <2>4 DEF TypeOK
    <3>2. hitl'[h].status # "approved"
      BY <1>11, <2>4, <3>1
      DEF NegotiateItem, Counter, Reject, RejectCounter, DeadlinePasses, TypeOK, HitlRow
    <3> QED
      BY <1>10, <2>1, <2>2, <3>2
  <2> QED
    BY <2>3, <2>4
<1>12. ASSUME NEW batch \in SUBSET Hitls, ExpirePending(batch) PROVE AgreedInv'
  <2>1. UNCHANGED <<order, intent>>
    BY <1>12 DEF ExpirePending
  <2>2. ASSUME NEW h \in Hitls
        PROVE  hitl'[h].status = "approved" \/ hitl[h].status = "approved" => hitl'[h] = hitl[h]
    <3>1. CASE h \in batch
      <4>1. hitl[h].status = "pending" /\ hitl[h] \in HitlRow
        BY <1>12, <3>1, LiveHitl DEF ExpirePending, Overdue
      <4>2. hitl'[h].status = "expired"
        BY <1>12, <3>1, <4>1 DEF ExpirePending, HitlRow
      <4> QED
        BY <4>1, <4>2
    <3>2. CASE h \notin batch
      BY <1>12, <3>2 DEF ExpirePending
    <3> QED
      BY <3>1, <3>2
  <2> QED
    BY <1>10, <2>1, <2>2
<1>13. IntentStep => AgreedInv'
  BY <1>2, <1>3, <1>4, <1>5 DEF IntentStep
<1>14. OrderStep => AgreedInv'
  BY <1>1, <1>6, <1>7 DEF OrderStep, ReplayConfirm
<1>15. HitlStep => AgreedInv'
  BY <1>8, <1>11 DEF HitlStep
<1>16. ListingStep => UNCHANGED <<order, hitl, intent>>
  BY DEF ListingStep, UpdatePrice, DeleteListing, Relist, ImposeRestriction, ReleaseRestriction
<1>17. ASSUME NEW h \in Hitls, DeadlinePasses(h) PROVE AgreedInv'
  <2>1. \E u \in Users : TRUE
    <3>1. hitl[h] \in HitlRow
      BY <1>17, LiveHitl DEF DeadlinePasses
    <3> QED
      BY <3>1 DEF HitlRow
  <2> QED
    BY <1>11, <1>17, <2>1
<1> QED
  BY <1>1, <1>9, <1>12, <1>13, <1>14, <1>15, <1>16, <1>17 DEF Next, Expire, vars

LEMMA InitAgreed == Init => AgreedInv
BY DEF Init, NoRow, NoCall, AgreedInv, DealsAreAgreed, DealSettlesOneNegotiation, SellerConsented

\* Two negotiations never settle on one record, although settling reuses any
\* open intent of the buyer, and a deal the buyer's own action closed is one
\* whose price the seller put forward (negotiate.rs:72-107).
THEOREM DealsStayAgreed == Spec => []DealsAreAgreed
<1>1. AgreedInv => DealsAreAgreed
  BY DEF AgreedInv
<1> QED
  BY <1>1, InitAgreed, AgreedStep, SalesAlways, Sound, PTL DEF Spec
-----------------------------------------------------------------------------
(* The conversation and the request tell one story. *)

Last(h) == {m \in timeline : m.hitl = h /\ m.says \in Closing}

Fits(status, says) ==
    \/ status = "approved" /\ says \in {"approved", "accepted"}
    \/ status = "rejected" /\ says \in {"rejected", "declined"}
    \/ status = "expired" /\ says = "expired"

\* A request has one closing message, of its status, if it is closed, and none
\* if it is not.
Story(h) ==
    /\ hitl[h].status \in {"approved", "rejected", "expired"} =>
          \E m \in timeline : Last(h) = {m} /\ Fits(hitl[h].status, m.says)
    /\ hitl[h].status \in {"absent", "pending", "countered"} => Last(h) = {}

LEMMA StoriesTellOutcome ==
    ASSUME TypeOK, \A h \in Hitls : Story(h)
    PROVE  TimelineTellsOutcome
<1> SUFFICES ASSUME NEW h \in Hitls
             PROVE  /\ (Last(h) # {}) <=> hitl[h].status \in {"approved", "rejected", "expired"}
                    /\ \A m, n \in Last(h) : m = n
                    /\ \A m \in Last(h) :
                         CASE hitl[h].status = "approved" -> m.says \in {"approved", "accepted"}
                           [] hitl[h].status = "rejected" -> m.says \in {"rejected", "declined"}
                           [] OTHER -> m.says = "expired"
  BY DEF TimelineTellsOutcome, Last
<1>1. hitl[h].status \in {"absent", "pending", "countered", "approved", "rejected", "expired"}
  BY DEF TypeOK, HitlRow, NoRow
<1>2. CASE hitl[h].status \in {"absent", "pending", "countered"}
  BY <1>2 DEF Story
<1>3. CASE hitl[h].status \in {"approved", "rejected", "expired"}
  <2>1. PICK m \in timeline : Last(h) = {m} /\ Fits(hitl[h].status, m.says)
    BY <1>3 DEF Story
  <2> QED
    BY <1>3, <2>1 DEF Fits
<1> QED
  BY <1>1, <1>2, <1>3

\* A request another one's message does not touch.
LEMMA SameStory ==
    ASSUME NEW h \in Hitls, Story(h), hitl'[h].status = hitl[h].status,
           timeline \subseteq timeline',
           \A m \in timeline' \ timeline : m.hitl = h => m.says \notin Closing
    PROVE  Story(h)'
<1>1. Last(h)' = Last(h)
  BY DEF Last
<1> QED
  BY <1>1 DEF Story

\* A request that closes says so, once.
LEMMA ClosingStory ==
    ASSUME NEW h \in Hitls, Story(h), hitl[h].status \in {"pending", "countered"},
           NEW says \in Closing, NEW p, Fits(hitl'[h].status, says),
           timeline \subseteq timeline',
           [hitl |-> h, says |-> says, price |-> p] \in timeline',
           \A m \in timeline' \ timeline :
               m.hitl = h => m = [hitl |-> h, says |-> says, price |-> p]
    PROVE  Story(h)'
<1>1. PICK m \in timeline' :
        /\ m = [hitl |-> h, says |-> says, price |-> p] /\ m.hitl = h /\ m.says = says
  OBVIOUS
<1>2. Last(h) = {}
  BY DEF Story
<1>3. Last(h)' = {m}
  BY <1>1, <1>2 DEF Last
<1> QED
  BY <1>1, <1>3 DEF Story, Fits

LEMMA StoryStep ==
    ASSUME TypeOK, HeldInv, \A h \in Hitls : Story(h), [Next]_vars
    PROVE  \A h \in Hitls : Story(h)'
<1> SUFFICES ASSUME NEW g \in Hitls PROVE Story(g)'
  OBVIOUS
<1>0. Story(g)
  OBVIOUS
<1>1. CASE UNCHANGED <<hitl, timeline>>
  BY <1>0, <1>1, SameStory
\* One request answered: the others keep their story.
<1>2. ASSUME NEW h \in Hitls, NEW row \in HitlRow, hitl' = [hitl EXCEPT ![h] = row],
             hitl[h].status \in {"pending", "countered"},
             NEW says \in Closing, NEW p \in Prices \cup {None}, Fits(row.status, says),
             Say(h, says, p)
      PROVE  Story(g)'
  <2>1. timeline' = timeline \cup {[hitl |-> h, says |-> says, price |-> p]}
    BY <1>2 DEF Say
  <2>2. CASE g = h
    <3>1. Fits(hitl'[g].status, says)
      BY <1>2, <2>2 DEF TypeOK
    <3> QED
      BY <1>0, <1>2, <2>1, <2>2, <3>1, ClosingStory
  <2>3. CASE g # h
    <3>1. hitl'[g] = hitl[g]
      BY <1>2, <2>3 DEF TypeOK
    <3>2. \A m \in timeline' \ timeline : m.hitl # g
      BY <2>1, <2>3
    <3> QED
      BY <1>0, <2>1, <3>1, <3>2, SameStory
  <2> QED
    BY <2>2, <2>3
<1>3. ASSUME NEW h \in Hitls, NEW u \in Users, NEW l \in Listings, NEW p \in Prices,
             NegotiateItem(u, l, p, h)
      PROVE  Story(g)'
  <2>1. CASE g = h
    <3>1. hitl[g].status = "absent" /\ hitl'[g].status = "pending"
      BY <1>3, <2>1 DEF NegotiateItem, NoRow, TypeOK
    <3>2. UNCHANGED timeline
      BY <1>3 DEF NegotiateItem
    <3>3. Last(g) = {} /\ Last(g)' = Last(g)
      BY <1>0, <3>1, <3>2 DEF Story, Last
    <3> QED
      BY <3>1, <3>3 DEF Story
  <2>2. CASE g # h
    <3>1. hitl'[g] = hitl[g] /\ UNCHANGED timeline
      BY <1>3, <2>2 DEF NegotiateItem, TypeOK
    <3> QED
      BY <1>0, <3>1, SameStory
  <2> QED
    BY <2>1, <2>2
<1>4. ASSUME NEW h \in Hitls, NEW o \in Orders, Ends(h, o) PROVE Story(g)'
  <2>1. hitl[h] \in HitlRow /\ hitl[h].status \in {"pending", "countered"}
    BY <1>4 DEF Ends, Settleable
  <2>2. PICK row \in HitlRow : row.status = "approved" /\ hitl' = [hitl EXCEPT ![h] = row]
    <3>1. hitl' = [hitl EXCEPT ![h] = [hitl[h] EXCEPT !.status = "approved", !.deal = o]]
      BY <1>4 DEF Ends, SettleOn, TypeOK
    <3> QED
      BY <2>1, <3>1 DEF HitlRow
  <2>3. PICK says \in {"approved", "accepted"} : Say(h, says, DealPrice(h))
    BY <1>4 DEF Ends, SettleOn
  <2>4. DealPrice(h) \in Prices \cup {None}
    BY <1>4, SettleableType DEF Ends
  <2>5. says \in Closing /\ Fits(row.status, says)
    BY <2>2 DEF Closing, Fits
  <2> QED
    BY <1>2, <2>1, <2>2, <2>3, <2>4, <2>5
<1>5. ASSUME NEW h \in Hitls, NEW u \in Users, NEW o \in Orders,
             Approve(h, u, o) \/ AcceptCounter(h, u, o)
      PROVE  Story(g)'
  BY <1>1, <1>4, <1>5, AnswerSteps DEF Begins
<1>6. ASSUME NEW h \in Hitls, NEW u \in Users, NEW says \in {"rejected", "declined"},
             \/ Reject(h, u) /\ says = "rejected"
             \/ RejectCounter(h, u) /\ says = "declined"
      PROVE  Story(g)'
  <2>1. hitl[h] \in HitlRow /\ hitl[h].status \in {"pending", "countered"}
    BY <1>6, LiveHitl DEF Reject, RejectCounter, Unanswered
  <2>2. PICK row \in HitlRow : row.status = "rejected" /\ hitl' = [hitl EXCEPT ![h] = row]
    <3>1. hitl' = [hitl EXCEPT ![h] = [hitl[h] EXCEPT !.status = "rejected"]]
      BY <1>6 DEF Reject, RejectCounter, TypeOK
    <3> QED
      BY <2>1, <3>1 DEF HitlRow
  <2>3. Say(h, says, None)
    BY <1>6 DEF Reject, RejectCounter
  <2>4. says \in Closing /\ Fits(row.status, says)
    BY <1>6, <2>2 DEF Closing, Fits
  <2> QED
    BY <1>2, <2>1, <2>2, <2>3, <2>4
<1>7. ASSUME NEW h \in Hitls, NEW u \in Users, NEW p \in Prices, Counter(h, u, p)
      PROVE  Story(g)'
  <2>1. hitl[h] \in HitlRow /\ hitl[h].status = "pending"
    BY <1>7, LiveHitl DEF Counter, Unanswered
  <2>2. /\ hitl'[h].status = "countered" /\ \A f \in Hitls \ {h} : hitl'[f] = hitl[f]
        /\ timeline' = timeline \cup {[hitl |-> h, says |-> "countered", price |-> p]}
    BY <1>7, <2>1 DEF Counter, TypeOK, HitlRow, Say
  <2>3. Last(g)' = Last(g)
    BY <2>2 DEF Last, Closing
  <2>4. CASE g = h
    BY <1>0, <2>1, <2>2, <2>3, <2>4 DEF Story
  <2>5. CASE g # h
    BY <1>0, <2>2, <2>3, <2>5 DEF Story
  <2> QED
    BY <2>4, <2>5
<1>8. ASSUME NEW h \in Hitls, DeadlinePasses(h) PROVE Story(g)'
  <2>1. hitl[h] \in HitlRow
    BY <1>8, LiveHitl DEF DeadlinePasses
  <2>2. hitl'[g].status = hitl[g].status /\ UNCHANGED timeline
    BY <1>8, <2>1 DEF DeadlinePasses, TypeOK, HitlRow
  <2> QED
    BY <1>0, <2>2, SameStory
<1>9. ASSUME NEW batch \in SUBSET Hitls, ExpirePending(batch) PROVE Story(g)'
  <2>1. timeline' = timeline \cup {[hitl |-> h, says |-> "expired", price |-> None] : h \in batch}
    BY <1>9 DEF ExpirePending
  <2>2. CASE g \in batch
    <3>1. hitl[g].status = "pending" /\ hitl[g] \in HitlRow
      BY <1>9, <2>2, LiveHitl DEF ExpirePending, Overdue
    <3>2. hitl'[g].status = "expired"
      BY <1>9, <2>2, <3>1 DEF ExpirePending, HitlRow
    <3>3. "expired" \in Closing /\ Fits(hitl'[g].status, "expired")
      BY <3>2 DEF Closing, Fits
    <3>4. /\ [hitl |-> g, says |-> "expired", price |-> None] \in timeline'
          /\ \A m \in timeline' \ timeline :
                m.hitl = g => m = [hitl |-> g, says |-> "expired", price |-> None]
      BY <2>1, <2>2
    <3> QED
      BY <1>0, <2>1, <3>1, <3>3, <3>4, ClosingStory
  <2>3. CASE g \notin batch
    <3>1. hitl'[g] = hitl[g]
      BY <1>9, <2>3 DEF ExpirePending
    <3>2. \A m \in timeline' \ timeline : m.hitl # g
      BY <2>1, <2>3
    <3> QED
      BY <1>0, <2>1, <3>1, <3>2, SameStory
  <2> QED
    BY <2>2, <2>3
<1>10. IntentStep \/ OrderStep \/ ListingStep => UNCHANGED <<hitl, timeline>>
  <2>1. IntentStep => UNCHANGED <<hitl, timeline>>
    BY DEF IntentStep, SubmitIntent, CreateOrder, EndIntentCall, PurchaseItem
  <2>2. ASSUME NEW o \in Orders, NEW a \in Actors, NEW d \in BOOLEAN,
               NEW k \in Keys \cup {None}, ConfirmOrder(o, a, d, k)
        PROVE  UNCHANGED <<hitl, timeline>>
    BY <2>2 DEF ConfirmOrder
  <2>3. OrderStep => UNCHANGED <<hitl, timeline>>
    BY <2>2 DEF OrderStep, ReplayConfirm, CancelOrder
  <2>4. ListingStep => UNCHANGED <<hitl, timeline>>
    BY DEF ListingStep, UpdatePrice, DeleteListing, Relist, ImposeRestriction,
           ReleaseRestriction
  <2> QED
    BY <2>1, <2>3, <2>4
<1>11. HitlStep => Story(g)'
  <2>1. ASSUME NEW h \in Hitls, NEW u \in Users, Reject(h, u) PROVE Story(g)'
    BY <1>6, <2>1
  <2>2. ASSUME NEW h \in Hitls, NEW u \in Users, RejectCounter(h, u) PROVE Story(g)'
    BY <1>6, <2>2
  <2> QED
    BY <1>3, <1>5, <1>7, <2>1, <2>2 DEF HitlStep
<1>12. IntentStep \/ OrderStep \/ ListingStep \/ UNCHANGED vars => Story(g)'
  BY <1>1, <1>10 DEF vars
<1>13. Expire => Story(g)'
  BY <1>9 DEF Expire
<1>14. SettleStep => Story(g)'
  BY <1>4, SettleEnds DEF SettleStep
<1> QED
  BY <1>8, <1>11, <1>12, <1>13, <1>14 DEF Next

\* The expiry scan and a late answer never both speak: a negotiation is
\* closed exactly when one message says so, and it says what the status says
\* (negotiate.rs:72-107, and the expiry worker).
THEOREM StoriesAgree == Spec => []TimelineTellsOutcome
<1>1. Init => \A h \in Hitls : Story(h)
  <2> SUFFICES ASSUME Init, NEW h \in Hitls PROVE Story(h)
    OBVIOUS
  <2>1. hitl[h].status = "absent" /\ timeline = {}
    BY DEF Init, NoRow
  <2> QED
    BY <2>1 DEF Story, Last
<1>2. TypeOK /\ HeldInv /\ (\A h \in Hitls : Story(h)) /\ [Next]_vars => (\A h \in Hitls : Story(h))'
  BY StoryStep
<1>3. TypeOK /\ (\A h \in Hitls : Story(h)) => TimelineTellsOutcome
  BY StoriesTellOutcome
<1> QED
  BY <1>1, <1>2, <1>3, Sound, PTL DEF Spec
-----------------------------------------------------------------------------
(* While a case restricts a listing, trade in it stands still. *)

\* What a step does to a listing that is not its owner's to trade.
ListingFrozen(l) ==
    /\ listing'[l].status \in {listing[l].status, "deleted"}
    /\ listing'[l].price = listing[l].price

OpensNothing(l) ==
    /\ \A o \in Orders : order[o].status = "absent" /\ order'[o].status # "absent"
                           => order'[o].listing # l
    /\ \A h \in Hitls : hitl'[h].status \in {"pending", "countered", "approved"}
                        /\ hitl'[h].status # hitl[h].status => hitl'[h].listing # l

LEMMA SoldIsTradable ==
    ASSUME TypeOK, NEW l \in Listings, Restricted(l), NEW m \in Listings, NEW o \in Orders,
           Tradable(m), MarkSold(m, o)
    PROVE  listing'[l] = listing[l]
BY DEF Tradable, MarkSold, TypeOK

LEMMA FrozenStep ==
    ASSUME TypeOK, HeldInv, [Next]_vars, NEW l \in Listings, Restricted(l)
    PROVE  ListingFrozen(l)
<1>1. CASE listing'[l] = listing[l]
  BY <1>1 DEF ListingFrozen
<1>2. ASSUME NEW o \in Orders, NEW a \in Actors, NEW d \in BOOLEAN,
             NEW k \in Keys \cup {None}, ConfirmOrder(o, a, d, k)
      PROVE  ListingFrozen(l)
  <2>1. order[o].listing \in Listings
    BY <1>2, LiveOrder DEF ConfirmOrder, OrderRow
  <2>2. CASE d
    BY <1>1, <1>2, <2>1, <2>2, SoldIsTradable DEF ConfirmOrder
  <2>3. CASE ~d
    BY <1>1, <1>2, <2>3 DEF ConfirmOrder
  <2> QED
    BY <2>2, <2>3
<1>3. ASSUME NEW h \in Hitls, NEW o \in Orders, Ends(h, o) PROVE ListingFrozen(l)
  BY <1>1, <1>3, EndsMoves, SoldIsTradable
<1>4. ASSUME NEW m \in Listings, NEW p \in Prices, UpdatePrice(m, p) PROVE ListingFrozen(l)
  BY <1>1, <1>4 DEF UpdatePrice, Tradable, TypeOK
<1>5. ASSUME NEW m \in Listings, DeleteListing(m) PROVE ListingFrozen(l)
  BY <1>5 DEF DeleteListing, TypeOK, ListingRow, ListingFrozen
<1>6. ASSUME NEW m \in Listings, Relist(m) PROVE ListingFrozen(l)
  BY <1>1, <1>6 DEF Relist, TypeOK
<1>7. IntentStep => UNCHANGED listing
  BY DEF IntentStep, SubmitIntent, CreateOrder, EndIntentCall, PurchaseItem
<1>8. OrderStep => ListingFrozen(l)
  BY <1>1, <1>2 DEF OrderStep, ReplayConfirm, CancelOrder
<1>9. HitlStep => ListingFrozen(l)
  <2>1. ASSUME NEW h \in Hitls, NEW u \in Users, NEW o \in Orders,
               Approve(h, u, o) \/ AcceptCounter(h, u, o)
        PROVE  ListingFrozen(l)
    BY <1>1, <1>3, <2>1, AnswerSteps DEF Begins
  <2> QED
    BY <1>1, <2>1 DEF HitlStep, NegotiateItem, Counter, Reject, RejectCounter
<1>10. SettleStep => ListingFrozen(l)
  BY <1>3, SettleEnds DEF SettleStep
<1>11. ListingStep => ListingFrozen(l)
  BY <1>1, <1>4, <1>5, <1>6 DEF ListingStep, ImposeRestriction, ReleaseRestriction
<1> QED
  BY <1>1, <1>7, <1>8, <1>9, <1>10, <1>11
  DEF Next, Expire, ExpirePending, DeadlinePasses, vars

LEMMA OpensStep ==
    ASSUME TypeOK, HeldInv, [Next]_vars, NEW l \in Listings, Restricted(l)
    PROVE  OpensNothing(l)
<1>1. CASE UNCHANGED <<order, hitl>>
  BY <1>1 DEF OpensNothing
<1>2. ASSUME NEW m \in Listings, Tradable(m), NEW o \in Orders, NEW u \in Users, NEW p \in Prices,
             order' = [order EXCEPT ![o] = PendingOrder(m, u, p)], UNCHANGED hitl
      PROVE  OpensNothing(l)
  <2>1. /\ order'[o].listing = m /\ \A q \in Orders \ {o} : order'[q] = order[q]
        /\ m # l
    BY <1>2 DEF TypeOK, PendingOrder, Tradable
  <2> QED
    BY <1>2, <2>1 DEF OpensNothing
<1>3. ASSUME NEW u \in Users, NEW o \in Orders, CreateOrder(u, o) PROVE OpensNothing(l)
  <2>1. intent[u].listing \in Listings /\ intent[u].price \in Prices
    BY <1>3 DEF CreateOrder, TypeOK
  <2> QED
    BY <1>2, <1>3, <2>1 DEF CreateOrder
\* A record that was there, and nothing else changes.
<1>4. ASSUME NEW o \in Orders, order[o].status # "absent",
             \A q \in Orders \ {o} : order'[q] = order[q], UNCHANGED hitl
      PROVE  OpensNothing(l)
  BY <1>4 DEF OpensNothing
<1>5. ASSUME NEW o \in Orders, NEW a \in Actors, NEW d \in BOOLEAN,
             NEW k \in Keys \cup {None}, ConfirmOrder(o, a, d, k)
      PROVE  OpensNothing(l)
  <2>1. /\ order[o].status # "absent" /\ UNCHANGED hitl
        /\ \A q \in Orders \ {o} : order'[q] = order[q]
    BY <1>5 DEF ConfirmOrder, TypeOK
  <2> QED
    BY <1>4, <2>1
<1>6. ASSUME NEW o \in Orders, NEW a \in Actors, CancelOrder(o, a) PROVE OpensNothing(l)
  <2>1. /\ order[o].status # "absent" /\ UNCHANGED hitl
        /\ \A q \in Orders \ {o} : order'[q] = order[q]
    BY <1>6 DEF CancelOrder, TypeOK
  <2> QED
    BY <1>4, <2>1
\* A negotiation over a listing that is on sale, or one that closes.
<1>7. ASSUME NEW h \in Hitls, \A g \in Hitls \ {h} : hitl'[g] = hitl[g],
             \/ hitl'[h].status = hitl[h].status
             \/ hitl'[h].status \notin {"pending", "countered", "approved"}
             \/ hitl'[h].listing # l
      PROVE  \A g \in Hitls : hitl'[g].status \in {"pending", "countered", "approved"}
                              /\ hitl'[g].status # hitl[g].status => hitl'[g].listing # l
  BY <1>7
<1>8. ASSUME NEW h \in Hitls, NEW u \in Users, NEW m \in Listings, NEW p \in Prices,
             NegotiateItem(u, m, p, h)
      PROVE  OpensNothing(l)
  <2>1. /\ hitl'[h].listing = m /\ \A g \in Hitls \ {h} : hitl'[g] = hitl[g]
        /\ m # l /\ UNCHANGED order
    BY <1>8 DEF NegotiateItem, TypeOK, Tradable
  <2> QED
    BY <1>7, <2>1 DEF OpensNothing
<1>9. ASSUME NEW h \in Hitls, NEW o \in Orders, Ends(h, o) PROVE OpensNothing(l)
  <2>1. hitl[h].listing # l
    BY <1>9, EndsMoves DEF Tradable
  <2>2. \A q \in Orders : order[q].status = "absent" /\ order'[q].status # "absent"
                            => order'[q].listing # l
    BY <1>9, <2>1, EndsRecord
  <2>3. /\ hitl'[h].listing = hitl[h].listing
        /\ \A g \in Hitls \ {h} : hitl'[g] = hitl[g]
    BY <1>9, EndsMoves
  <2>4. \A g \in Hitls : hitl'[g].status \in {"pending", "countered", "approved"}
                         /\ hitl'[g].status # hitl[g].status => hitl'[g].listing # l
    BY <1>7, <2>1, <2>3
  <2> QED
    BY <2>2, <2>4 DEF OpensNothing
<1>10. ASSUME NEW h \in Hitls, NEW u \in Users, NEW p \in Prices, Counter(h, u, p)
       PROVE  OpensNothing(l)
  <2>1. hitl[h] \in HitlRow
    BY <1>10, LiveHitl DEF Counter, Unanswered
  <2>2. /\ hitl'[h].listing = hitl[h].listing /\ hitl[h].listing # l /\ UNCHANGED order
        /\ \A g \in Hitls \ {h} : hitl'[g] = hitl[g]
    BY <1>10, <2>1 DEF Counter, TypeOK, HitlRow, Tradable
  <2> QED
    BY <1>7, <2>2 DEF OpensNothing
<1>11. ASSUME NEW h \in Hitls, NEW u \in Users, Reject(h, u) \/ RejectCounter(h, u)
       PROVE  OpensNothing(l)
  <2>1. hitl[h] \in HitlRow
    BY <1>11, LiveHitl DEF Reject, RejectCounter, Unanswered
  <2>2. /\ hitl'[h].status = "rejected" /\ UNCHANGED order
        /\ \A g \in Hitls \ {h} : hitl'[g] = hitl[g]
    BY <1>11, <2>1 DEF Reject, RejectCounter, TypeOK, HitlRow
  <2> QED
    BY <1>7, <2>2 DEF OpensNothing
<1>12. ASSUME NEW h \in Hitls, DeadlinePasses(h) PROVE OpensNothing(l)
  <2>1. hitl[h] \in HitlRow
    BY <1>12, LiveHitl DEF DeadlinePasses
  <2>2. /\ hitl'[h].status = hitl[h].status /\ UNCHANGED order
        /\ \A g \in Hitls \ {h} : hitl'[g] = hitl[g]
    BY <1>12, <2>1 DEF DeadlinePasses, TypeOK, HitlRow
  <2> QED
    BY <1>7, <2>2 DEF OpensNothing
<1>13. ASSUME NEW batch \in SUBSET Hitls, ExpirePending(batch) PROVE OpensNothing(l)
  <2>1. ASSUME NEW h \in Hitls
        PROVE  hitl'[h].status = hitl[h].status \/ hitl'[h].status = "expired"
    <3>1. CASE h \in batch
      <4>1. hitl[h] \in HitlRow
        BY <1>13, <3>1, LiveHitl DEF ExpirePending, Overdue
      <4> QED
        BY <1>13, <3>1, <4>1 DEF ExpirePending, HitlRow
    <3>2. CASE h \notin batch
      BY <1>13, <3>2 DEF ExpirePending
    <3> QED
      BY <3>1, <3>2
  <2>2. UNCHANGED order
    BY <1>13 DEF ExpirePending
  <2> QED
    BY <2>1, <2>2 DEF OpensNothing
<1>14. IntentStep => OpensNothing(l)
  <2>1. ASSUME NEW u \in Users, NEW m \in Listings, NEW p \in Prices, NEW o \in Orders,
               PurchaseItem(u, m, p, o)
        PROVE  OpensNothing(l)
    BY <1>2, <2>1 DEF PurchaseItem
  <2> QED
    BY <1>1, <1>3, <2>1 DEF IntentStep, SubmitIntent, EndIntentCall
<1>15. OrderStep => OpensNothing(l)
  BY <1>1, <1>5, <1>6 DEF OrderStep, ReplayConfirm
<1>16. HitlStep => OpensNothing(l)
  <2>1. ASSUME NEW h \in Hitls, NEW u \in Users, NEW o \in Orders,
               Approve(h, u, o) \/ AcceptCounter(h, u, o)
        PROVE  OpensNothing(l)
    BY <1>1, <1>9, <2>1, AnswerSteps DEF Begins
  <2> QED
    BY <1>8, <1>10, <1>11, <2>1 DEF HitlStep
<1>18. SettleStep => OpensNothing(l)
  BY <1>9, SettleEnds DEF SettleStep
<1>17. ListingStep => UNCHANGED <<order, hitl>>
  BY DEF ListingStep, UpdatePrice, DeleteListing, Relist, ImposeRestriction, ReleaseRestriction
<1> QED
  BY <1>1, <1>12, <1>13, <1>14, <1>15, <1>16, <1>17, <1>18 DEF Next, Expire, vars

\* A listing comes back on sale by its owner's act alone, never by a release.
LEMMA RelistingStep ==
    ASSUME TypeOK, HeldInv, [Next]_vars
    PROVE  RelistOnlyUnrestricted
<1> SUFFICES ASSUME NEW l \in Listings,
                    listing[l].status # "active", listing'[l].status = "active"
             PROVE  ~Restricted(l) /\ effects' = effects
  BY DEF RelistOnlyUnrestricted
<1>1. ~Restricted(l)
  BY FrozenStep DEF ListingFrozen
<1>2. ASSUME NEW c \in Cases, NEW m \in Listings,
             ImposeRestriction(m, c) \/ ReleaseRestriction(m, c)
      PROVE  FALSE
  BY <1>2 DEF ImposeRestriction, ReleaseRestriction
<1>3. IntentStep => UNCHANGED effects
  BY DEF IntentStep, SubmitIntent, CreateOrder, EndIntentCall, PurchaseItem
<1>4. OrderStep => UNCHANGED effects
  <2>1. ASSUME NEW o \in Orders, NEW a \in Actors, NEW d \in BOOLEAN,
               NEW k \in Keys \cup {None}, ConfirmOrder(o, a, d, k)
        PROVE  UNCHANGED effects
    BY <2>1 DEF ConfirmOrder
  <2> QED
    BY <2>1 DEF OrderStep, ReplayConfirm, CancelOrder
<1>5. HitlStep \/ SettleStep => UNCHANGED effects
  BY DEF HitlStep, SettleStep, NegotiateItem, Approve, Counter, Reject, AcceptCounter,
         RejectCounter, Settle
<1>6. ListingStep => UNCHANGED effects
  BY <1>2 DEF ListingStep, UpdatePrice, DeleteListing, Relist
<1> QED
  BY <1>1, <1>3, <1>4, <1>5, <1>6 DEF Next, Expire, ExpirePending, DeadlinePasses, vars

\* While any case restricts a listing nothing is opened, settled, sold or
\* relisted on it, and lifting one of several restrictions puts nothing back
\* on sale (listing restriction effects, migrations/0056).
THEOREM RestrictionsHold == Spec => RestrictionFreezesListing
<1>1. TypeOK /\ HeldInv /\ [Next]_vars => RestrictionFreezes /\ RelistOnlyUnrestricted
  BY FrozenStep, OpensStep, RelistingStep
  DEF RestrictionFreezes, ListingFrozen, OpensNothing
<1> QED
  BY <1>1, Sound, PTL DEF Spec, RestrictionFreezesListing
=============================================================================
