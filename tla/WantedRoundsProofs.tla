-------------------------- MODULE WantedRoundsProofs --------------------------
(***************************************************************************)
(* Theorems about WantedRounds, for every set of posts, users, ids and     *)
(* requests.                                                               *)
(*                                                                         *)
(* The inductive invariant is TypeOK with two uniqueness facts the         *)
(* database keeps (one row per round and offer, one row per key of a       *)
(* responder) and the acknowledgements that rest on them.  No fact about   *)
(* locks is in it: the inserting trigger and the WHERE clause of the       *)
(* settling UPDATE look at the rows once more, so safety survives a        *)
(* transaction that read too early.  CirclesAreMisnamed has an invariant   *)
(* of its own, LocksHeld.                                                  *)
(***************************************************************************)
EXTENDS WantedRounds, TLAPS

\* A responder never has two rows under one key.
OneRowPerKey ==
    \A r, x \in Rows :
        /\ response[r].key = response[x].key /\ response[r].key # None
        /\ Poster[response[r].offer] = Poster[response[x].offer]
        => r = x

\* An acknowledgement names a row that carries its key and its content.
AcksAreRows ==
    \A a \in acks : /\ a.response \in Rows
                    /\ response[a.response].key = a.key
                    /\ SameContent(a.response, a.wanted, a.offer, a.text)

\* A request that settles an answer works on the row and the wanted post the
\* row belongs to: links never change.
Linked ==
    \A c \in Calls : Settling(c) =>
        LET k == call[c] IN
        /\ k.response \in Rows
        /\ k.wanted = response[k.response].wanted
        /\ k.offer = response[k.response].offer

IInv == TypeOK /\ OneResponsePerRound /\ OneRowPerKey /\ AcksAreRows /\ Linked

USE PosterAssumption, NoneAssumption

-----------------------------------------------------------------------------
(* Facts about the table. *)

\* A row of the table has the fields of a ResponseRow.
LEMMA LiveRow ==
    ASSUME TypeOK, NEW r \in Rows
    PROVE  r \in Responses /\ response[r] \in ResponseRow
BY DEF TypeOK, Rows, NoRow, ResponseRow

\* Two steps of a request change its record in place.
LEMMA HeldCall ==
    ASSUME TypeOK, NEW c \in Calls, NEW e \in Nat, NEW b \in BOOLEAN
    PROVE  /\ Creating(c) => call[c] \in Creation
           /\ Settling(c) => call[c] \in Settlement
           /\ Creating(c) => [call[c] EXCEPT !.holds = TRUE, !.epoch = e] \in Creation
           /\ Settling(c) => [call[c] EXCEPT !.holds = TRUE, !.epoch = e, !.open = b]
                             \in Settlement
<1>1. call[c] \in Creation \cup Settlement \cup {NoCall}
  BY DEF TypeOK
<1>2. Creating(c) => call[c] \in Creation
  BY <1>1 DEF Creating, Creation, Settlement, NoCall
<1>3. Settling(c) => call[c] \in Settlement
  BY <1>1 DEF Settling, Creation, Settlement, NoCall
<1>4. Creating(c) => [call[c] EXCEPT !.holds = TRUE, !.epoch = e] \in Creation
  BY <1>2 DEF Creation
<1>5. Settling(c) => [call[c] EXCEPT !.holds = TRUE, !.epoch = e, !.open = b] \in Settlement
  BY <1>3 DEF Settlement
<1> QED BY <1>2, <1>3, <1>4, <1>5

\* Giving locks back keeps the types of requests and locks.
LEMMA ReleaseType ==
    ASSUME TypeOK, NEW c \in Calls, Release(c)
    PROVE  /\ call' \in [Calls -> Creation \cup Settlement \cup {NoCall}]
           /\ lock' \in [Listings -> Calls \cup {None}]
BY DEF TypeOK, Release
\* Whom a request takes a row from, if anybody: it is a listing of its own.
LEMMA TakenRow ==
    ASSUME TypeOK, NEW c \in Calls, Creating(c) \/ Settling(c)
    PROVE  /\ call[c].wanted \in Wanteds
           /\ LockOrder(call[c])[1] \in Listings
           /\ listing[call[c].wanted].epoch \in Nat
<1>1. call[c] \in Creation \cup Settlement
  BY DEF TypeOK, Creating, Settling, NoCall
<1>2. call[c].wanted \in Wanteds
  BY <1>1 DEF Creation, Settlement
<1>3. listing[call[c].wanted].epoch \in Nat
  BY <1>2 DEF TypeOK, Listings, ListingRow
<1> QED BY <1>2, <1>3 DEF LockOrder, Listings

-----------------------------------------------------------------------------
(* Types. *)

LEMMA AckType ==
    ASSUME NEW key \in Keys \cup {None}, NEW r \in Responses, NEW w \in Wanteds,
           NEW o \in Offers, NEW text \in Texts
    PROVE  AckOf(key, r, w, o, text) \subseteq Ack
BY DEF AckOf, Ack

\* Inserting keeps the table and the acknowledgements well-formed.
LEMMA InsertType ==
    ASSUME TypeOK, NEW c \in Calls, InsertResponse(c)
    PROVE  TypeOK'
<1> DEFINE k == call[c]
           new == [status |-> "pending", wanted |-> k.wanted, offer |-> k.offer,
                   text |-> k.text, epoch |-> k.epoch, key |-> k.key]
<1>1. k \in Creation
  BY HeldCall, 0 \in Nat, TRUE \in BOOLEAN DEF InsertResponse
<1>2. MayOffer(k) => k.offer \in Offers /\ new \in ResponseRow
  BY <1>1 DEF Creation, ResponseRow, MayOffer
<1>3. response' \in [Responses -> ResponseRow \cup {NoRow}]
  <2>1. CASE UNCHANGED response
    BY <2>1 DEF TypeOK
  <2>2. CASE MayOffer(k) /\ \E r \in Responses : response' = [response EXCEPT ![r] = new]
    BY <2>2, <1>2 DEF TypeOK
  <2> QED BY <2>1, <2>2 DEF InsertResponse
<1>4. acks' \subseteq Ack
  <2>1. ASSUME NEW r \in Responses, MayOffer(k)
        PROVE  AckOf(k.key, r, k.wanted, k.offer, k.text) \subseteq Ack
    BY <1>1, <1>2, <2>1, AckType DEF Creation
  <2>2. KeyRows(k.by, k.key) \subseteq Responses
    BY DEF KeyRows, Rows
  <2>3. CASE MayOffer(k) /\ \E r \in Responses \ Rows :
                acks' = acks \cup AckOf(k.key, r, k.wanted, k.offer, k.text)
    BY <2>1, <2>3 DEF TypeOK
  <2>4. CASE /\ MayOffer(k)
             /\ acks' = acks \cup UNION {AckOf(k.key, r, k.wanted, k.offer, k.text) :
                    r \in {x \in KeyRows(k.by, k.key) :
                             SameContent(x, k.wanted, k.offer, k.text)}}
    BY <2>1, <2>2, <2>4 DEF TypeOK
  <2>5. CASE UNCHANGED acks
    BY <2>5 DEF TypeOK
  <2> QED BY <2>3, <2>4, <2>5 DEF InsertResponse
<1> QED BY <1>3, <1>4, ReleaseType DEF InsertResponse, TypeOK

\* Locking the first row records what was read under the lock.
LEMMA LockType ==
    ASSUME TypeOK, NEW c \in Calls, LockWantedToRespond(c) \/ LockWantedToSettle(c)
    PROVE  TypeOK'
<1> DEFINE e == listing[call[c].wanted].epoch
           b == Open(call[c].wanted)
<1>1. Creating(c) \/ Settling(c)
  BY DEF LockWantedToRespond, LockWantedToSettle
<1>2. e \in Nat /\ LockOrder(call[c])[1] \in Listings
  BY <1>1, TakenRow
<1>3. b \in BOOLEAN
  BY DEF Open, Active
<1>4. CASE LockWantedToRespond(c)
  <2>1. [call[c] EXCEPT !.holds = TRUE, !.epoch = e] \in Creation
    BY <1>2, <1>3, <1>4, HeldCall DEF LockWantedToRespond
  <2>2. call' = [call EXCEPT ![c] = [call[c] EXCEPT !.holds = TRUE, !.epoch = e]]
    BY <1>4 DEF LockWantedToRespond, TypeOK
  <2> QED BY <1>2, <1>4, <2>1, <2>2 DEF LockWantedToRespond, TypeOK
<1>5. CASE LockWantedToSettle(c)
  <2>1. [call[c] EXCEPT !.holds = TRUE, !.epoch = e, !.open = b] \in Settlement
    BY <1>2, <1>3, <1>5, HeldCall DEF LockWantedToSettle
  <2>2. call' = [call EXCEPT ![c] = [call[c] EXCEPT !.holds = TRUE, !.epoch = e, !.open = b]]
    BY <1>5 DEF LockWantedToSettle, TypeOK
  <2> QED BY <1>2, <1>5, <2>1, <2>2 DEF LockWantedToSettle, TypeOK
<1> QED BY <1>4, <1>5

LEMMA FinishType ==
    ASSUME TypeOK, NEW c \in Calls, FinishSettling(c)
    PROVE  TypeOK'
<1> DEFINE x == call[c].response
           done == [response[x] EXCEPT !.status = Verdict(call[c].op)]
<1>1. response' \in [Responses -> ResponseRow \cup {NoRow}]
  <2>1. CASE UNCHANGED response
    BY <2>1 DEF TypeOK
  <2>2. CASE Applies(call[c]) /\ response' = [response EXCEPT ![x].status = Verdict(call[c].op)]
    <3>1. call[c] \in Settlement
      BY HeldCall, 0 \in Nat, TRUE \in BOOLEAN DEF FinishSettling
    <3>2. x \in Responses /\ Verdict(call[c].op) \in {"accepted", "dismissed", "withdrawn"}
      BY <3>1 DEF Settlement, Verdict
    <3>3. response[x] \in ResponseRow
      BY <2>2, <3>2 DEF Applies, TypeOK, NoRow
    <3>4. done \in ResponseRow
      BY <3>2, <3>3 DEF ResponseRow
    <3>5. response' = [response EXCEPT ![x] = done]
      BY <2>2
    <3> QED BY <3>4, <3>5 DEF TypeOK
  <2> QED BY <2>1, <2>2 DEF FinishSettling
<1> QED BY <1>1, ReleaseType DEF FinishSettling, TypeOK

LEMMA StartType ==
    ASSUME TypeOK, NEW c \in Calls,
           \/ \E u \in Users, w \in Wanteds, o \in Listings, text \in Texts,
                 key \in Keys \cup {None} : Respond(c, u, w, o, text, key)
           \/ \E r \in Responses, op \in {"accept", "dismiss", "withdraw"} : Settle(c, r, op)
    PROVE  TypeOK'
<1>1. ASSUME NEW u \in Users, NEW w \in Wanteds, NEW o \in Listings,
             NEW text \in Texts, NEW key \in Keys \cup {None}, Respond(c, u, w, o, text, key)
      PROVE  TypeOK'
  <2> DEFINE k == [op |-> "respond", wanted |-> w, by |-> u, offer |-> o, text |-> text,
                   key |-> key, holds |-> FALSE, epoch |-> None]
  <2>1. k \in Creation
    BY DEF Creation
  <2>2. call' \in [Calls -> Creation \cup Settlement \cup {NoCall}]
    BY <1>1, <2>1 DEF Respond, TypeOK
  <2>3. acks' \subseteq Ack
    <3>1. KeyRows(u, key) \subseteq Rows
      BY DEF KeyRows
    <3>2. ASSUME NEW r \in Rows, SameContent(r, w, o, text)
          PROVE  AckOf(key, r, w, o, text) \subseteq Ack
      <4>1. o \in Offers /\ r \in Responses
        BY <3>2, LiveRow DEF SameContent, ResponseRow
      <4> QED BY <4>1, AckType
    <3> QED BY <1>1, <3>1, <3>2 DEF Respond, TypeOK
  <2> QED BY <1>1, <2>2, <2>3 DEF Respond, TypeOK
<1>2. ASSUME NEW r \in Responses, NEW op \in {"accept", "dismiss", "withdraw"}, Settle(c, r, op)
      PROVE  TypeOK'
  <2> DEFINE k == [op |-> op, response |-> r, wanted |-> response[r].wanted,
                   offer |-> response[r].offer, holds |-> FALSE, epoch |-> None,
                   open |-> FALSE]
  <2>1. response[r] \in ResponseRow
    BY <1>2, LiveRow DEF Settle
  <2>2. k \in Settlement
    BY <2>1 DEF Settlement, ResponseRow
  <2>3. call' = [call EXCEPT ![c] = k]
    BY <1>2 DEF Settle
  <2> QED BY <1>2, <2>2, <2>3 DEF Settle, TypeOK
<1> QED BY <1>1, <1>2

\* Everybody else writes one inventory row, the restrictions or a membership.
Elsewhere ==
    \/ \E w \in Wanteds : Fulfill(w)
    \/ \E l \in Listings : SellInDeal(l) \/ Delete(l) \/ Relist(l) \/ Restrict(l) \/ Unrestrict(l)
    \/ \E u \in Users : Membership(u)

LEMMA ElsewhereType ==
    ASSUME TypeOK, Elsewhere
    PROVE  TypeOK'
<1>1. \A l \in Listings : listing[l].epoch \in Nat /\ NextEpoch(l) \in Nat
  BY DEF TypeOK, ListingRow, NextEpoch
<1>2. ASSUME NEW w \in Wanteds, Fulfill(w) PROVE TypeOK'
  <2>1. [status |-> "fulfilled", epoch |-> listing[w].epoch] \in ListingRow
    BY <1>1 DEF ListingRow, Listings
  <2> QED BY <1>2, <2>1 DEF Fulfill, SetStatus, TypeOK
<1>3. ASSUME NEW l \in Listings, SellInDeal(l) \/ Delete(l) \/ Relist(l) PROVE TypeOK'
  <2>1. /\ [status |-> "sold", epoch |-> listing[l].epoch] \in ListingRow
        /\ [status |-> "deleted", epoch |-> listing[l].epoch] \in ListingRow
        /\ [status |-> "active", epoch |-> NextEpoch(l)] \in ListingRow
    BY <1>1 DEF ListingRow
  <2> QED BY <1>3, <2>1 DEF SellInDeal, Delete, Relist, SetStatus, TypeOK
<1>4. ASSUME NEW l \in Listings, Restrict(l) \/ Unrestrict(l) PROVE TypeOK'
  BY <1>4 DEF Restrict, Unrestrict, Moderate, TypeOK
<1>5. ASSUME NEW u \in Users, Membership(u) PROVE TypeOK'
  BY <1>5 DEF Membership, TypeOK
<1> QED BY <1>2, <1>3, <1>4, <1>5 DEF Elsewhere

LEMMA InitType == Init => TypeOK
<1> SUFFICES ASSUME Init PROVE TypeOK
  OBVIOUS
<1>1. ASSUME NEW pair \in Wanteds \X Offers, NEW text \in Texts
      PROVE  [status |-> "pending", wanted |-> pair[1], offer |-> pair[2], text |-> text,
              epoch |-> None, key |-> None] \in ResponseRow
  BY DEF ResponseRow
<1>2. response \in [Responses -> ResponseRow \cup {NoRow}]
  BY <1>1 DEF Init
<1>3. listing \in [Listings -> ListingRow]
  BY DEF Init, ListingRow
<1> QED BY <1>2, <1>3 DEF Init, TypeOK

LEMMA NextType == TypeOK /\ [Next]_vars => TypeOK'
<1> SUFFICES ASSUME TypeOK, [Next]_vars PROVE TypeOK'
  OBVIOUS
<1>1. ASSUME NEW c \in Calls, Abort(c) \/ RefuseToRespond(c) PROVE TypeOK'
  BY <1>1, ReleaseType DEF Abort, RefuseToRespond, TypeOK
<1>2. CASE UNCHANGED vars
  BY <1>2 DEF vars, TypeOK
<1> QED
  BY <1>1, <1>2, InsertType, LockType, FinishType, StartType, ElsewhereType
     DEF Next, Proceed, Elsewhere

\* Every variable stays within its type.
THEOREM TypeCorrect == Spec => []TypeOK
BY InitType, NextType, PTL DEF Spec

-----------------------------------------------------------------------------
(* What may happen to the table in one step: a row appears that no index   *)
(* objects to, or the status of one pending row of an open round changes.  *)

Inserted(r) ==
    /\ r \in Responses \ Rows
    /\ \E k \in Creation :
          /\ response' = [response EXCEPT ![r] =
                 [status |-> "pending", wanted |-> k.wanted, offer |-> k.offer,
                  text |-> k.text, epoch |-> k.epoch, key |-> k.key]]
          /\ MayOffer(k) /\ TriggersAccept(k)
          /\ RoundRows(k.wanted, k.epoch, k.offer) = {}
          /\ KeyRows(k.by, k.key) = {}
          /\ acks' = acks \cup AckOf(k.key, r, k.wanted, k.offer, k.text)
    /\ UNCHANGED <<listing, restricted>>

Settled(r, verdict) ==
    /\ r \in Rows /\ verdict \in {"accepted", "dismissed", "withdrawn"}
    /\ response' = [response EXCEPT ![r].status = verdict]
    /\ response[r].status = "pending"
    /\ response[r].epoch = listing[response[r].wanted].epoch
    /\ Open(response[r].wanted)
    /\ verdict = "accepted" => Open(response[r].offer)
    /\ UNCHANGED <<listing, restricted, acks>>

LEMMA InsertStep ==
    ASSUME TypeOK, NEW c \in Calls, InsertResponse(c), response' # response
    PROVE  \E r \in Responses : Inserted(r)
<1>1. call[c] \in Creation
  BY HeldCall, 0 \in Nat, TRUE \in BOOLEAN DEF InsertResponse
<1> QED BY <1>1 DEF InsertResponse, Inserted

LEMMA SettleStep ==
    ASSUME TypeOK, Linked, NEW c \in Calls, FinishSettling(c), response' # response
    PROVE  \E r \in Responses : \E v \in {"accepted", "dismissed", "withdrawn"} : Settled(r, v)
<1> DEFINE k == call[c]
<1>1. k \in Settlement
  BY HeldCall, 0 \in Nat, TRUE \in BOOLEAN DEF FinishSettling
<1>2. k.response \in Rows /\ k.wanted = response[k.response].wanted
      /\ k.offer = response[k.response].offer
  BY DEF FinishSettling, Linked
<1>3. Applies(k) /\ response' = [response EXCEPT ![k.response].status = Verdict(k.op)]
  BY DEF FinishSettling
<1>4. Verdict(k.op) \in {"accepted", "dismissed", "withdrawn"}
      /\ (Verdict(k.op) = "accepted" => k.op = "accept")
  BY <1>1 DEF Settlement, Verdict
<1>5. Settled(k.response, Verdict(k.op))
  BY <1>2, <1>3, <1>4 DEF Settled, Applies, RowInRound, NeedsOffer, FinishSettling
<1> QED BY <1>2, <1>4, <1>5 DEF Rows

\* No other step writes the table.
LEMMA TableStep ==
    ASSUME TypeOK, Linked, [Next]_vars, response' # response
    PROVE  \/ \E r \in Responses : Inserted(r)
           \/ \E r \in Responses : \E v \in {"accepted", "dismissed", "withdrawn"} : Settled(r, v)
<1>1. CASE \E c \in Calls : InsertResponse(c)
  BY <1>1, InsertStep
<1>2. CASE \E c \in Calls : FinishSettling(c)
  BY <1>2, SettleStep
<1> QED
  BY <1>1, <1>2 DEF Next, vars, Proceed, LockWantedToRespond, RefuseToRespond,
     LockWantedToSettle, Abort, Respond, Settle, Fulfill, SellInDeal, Delete, Relist,
     SetStatus, Restrict, Unrestrict, Moderate, Membership

\* What a step leaves of the rows there were: all of them, with their content.
LEMMA RowsKept ==
    ASSUME TypeOK, Linked, [Next]_vars
    PROVE  \A r \in Rows : /\ r \in Rows'
                           /\ response'[r].wanted = response[r].wanted
                           /\ response'[r].offer = response[r].offer
                           /\ response'[r].text = response[r].text
                           /\ response'[r].epoch = response[r].epoch
                           /\ response'[r].key = response[r].key
<1> SUFFICES ASSUME NEW r \in Rows
             PROVE  /\ r \in Rows'
                    /\ response'[r].wanted = response[r].wanted
                    /\ response'[r].offer = response[r].offer
                    /\ response'[r].text = response[r].text
                    /\ response'[r].epoch = response[r].epoch
                    /\ response'[r].key = response[r].key
  OBVIOUS
<1>1. CASE UNCHANGED response
  BY <1>1 DEF Rows
<1>2. ASSUME NEW x \in Responses, Inserted(x)
      PROVE  response'[r] = response[r]
  BY <1>2 DEF Inserted, TypeOK
<1>3. ASSUME NEW x \in Responses, NEW v \in {"accepted", "dismissed", "withdrawn"}, Settled(x, v)
      PROVE  response'[r] = response[r] \/ response'[r] = [response[r] EXCEPT !.status = v]
  BY <1>3 DEF Settled, TypeOK
<1>4. response[r] \in ResponseRow /\ r \in Responses
  BY LiveRow
<1>5. ASSUME NEW v \in {"accepted", "dismissed", "withdrawn"},
             response'[r] = [response[r] EXCEPT !.status = v]
      PROVE  /\ r \in Rows'
             /\ response'[r].wanted = response[r].wanted
             /\ response'[r].offer = response[r].offer
             /\ response'[r].text = response[r].text
             /\ response'[r].epoch = response[r].epoch
             /\ response'[r].key = response[r].key
  BY <1>4, <1>5 DEF ResponseRow, Rows, NoRow
<1>6. CASE response'[r] = response[r]
  BY <1>4, <1>6 DEF Rows
<1> QED BY <1>1, <1>2, <1>3, <1>5, <1>6, TableStep

-----------------------------------------------------------------------------
(* The invariant. *)

LEMMA LinkedStep ==
    ASSUME TypeOK, Linked, [Next]_vars
    PROVE  Linked'
<1> SUFFICES ASSUME NEW c \in Calls, Settling(c)'
             PROVE  LET k == call'[c] IN
                    /\ k.response \in Rows'
                    /\ k.wanted = response'[k.response].wanted
                    /\ k.offer = response'[k.response].offer
  BY DEF Linked
<1>1. ASSUME /\ Settling(c)
             /\ call'[c].response = call[c].response
             /\ call'[c].wanted = call[c].wanted
             /\ call'[c].offer = call[c].offer
      PROVE  LET k == call'[c] IN
             /\ k.response \in Rows'
             /\ k.wanted = response'[k.response].wanted
             /\ k.offer = response'[k.response].offer
  BY <1>1, RowsKept DEF Linked
<1>2. CASE call'[c] = call[c]
  BY <1>1, <1>2 DEF Settling
<1>3. ASSUME NEW r \in Responses, NEW op \in {"accept", "dismiss", "withdraw"}, Settle(c, r, op)
      PROVE  LET k == call'[c] IN
             /\ k.response \in Rows'
             /\ k.wanted = response'[k.response].wanted
             /\ k.offer = response'[k.response].offer
  BY <1>3 DEF Settle, TypeOK, Rows
<1>4. ASSUME LockWantedToSettle(c)
      PROVE  LET k == call'[c] IN
             /\ k.response \in Rows'
             /\ k.wanted = response'[k.response].wanted
             /\ k.offer = response'[k.response].offer
  <2>1. call[c] \in Settlement
    BY <1>4, HeldCall, 0 \in Nat, TRUE \in BOOLEAN DEF LockWantedToSettle
  <2>2. /\ call'[c].response = call[c].response
        /\ call'[c].wanted = call[c].wanted
        /\ call'[c].offer = call[c].offer
    BY <1>4, <2>1 DEF LockWantedToSettle, Settlement, TypeOK
  <2> QED BY <1>1, <1>4, <2>2 DEF LockWantedToSettle
<1>5. ASSUME Release(c) PROVE FALSE
  BY <1>5 DEF Release, Settling, NoCall, TypeOK
<1>6. ASSUME LockWantedToRespond(c) PROVE FALSE
  <2>1. call[c] \in Creation
    BY <1>6, HeldCall, 0 \in Nat, TRUE \in BOOLEAN DEF LockWantedToRespond
  <2>2. call'[c].op = "respond"
    BY <1>6, <2>1 DEF LockWantedToRespond, Creation, TypeOK
  <2> QED BY <2>2 DEF Settling
<1>7. ASSUME NEW u \in Users, NEW w \in Wanteds, NEW o \in Listings,
             NEW text \in Texts, NEW key \in Keys \cup {None}, Respond(c, u, w, o, text, key)
      PROVE  call'[c] = call[c]
  BY <1>7 DEF Respond, Settling, TypeOK
<1>8. ASSUME NEW d \in Calls, d # c,
             \/ Proceed(d) \/ Abort(d)
             \/ \E u \in Users, w \in Wanteds, o \in Listings, text \in Texts,
                   key \in Keys \cup {None} : Respond(d, u, w, o, text, key)
             \/ \E r \in Responses, op \in {"accept", "dismiss", "withdraw"} : Settle(d, r, op)
      PROVE  call'[c] = call[c]
  BY <1>8 DEF Proceed, Abort, Respond, Settle, LockWantedToRespond, RefuseToRespond,
     InsertResponse, LockWantedToSettle, FinishSettling, Release, TypeOK
<1>9. CASE UNCHANGED call
  BY <1>2, <1>9
<1>10. CASE Proceed(c) \/ Abort(c)
  BY <1>4, <1>5, <1>6, <1>10 DEF Proceed, Abort, RefuseToRespond, InsertResponse, FinishSettling
<1> QED
  BY <1>2, <1>3, <1>7, <1>8, <1>9, <1>10 DEF Next, vars, Fulfill, SellInDeal, Delete, Relist,
     SetStatus, Restrict, Unrestrict, Moderate, Membership

\* A row that appears is the only new one.
LEMMA NewRow ==
    ASSUME TypeOK, NEW r \in Responses, Inserted(r)
    PROVE  Rows' = Rows \cup {r} /\ \A x \in Rows : response'[x] = response[x]
<1>1. ASSUME NEW k \in Creation
      PROVE  [status |-> "pending", wanted |-> k.wanted, offer |-> k.offer,
              text |-> k.text, epoch |-> k.epoch, key |-> k.key] # NoRow
  BY DEF NoRow
<1> QED BY <1>1 DEF Inserted, TypeOK, Rows

LEMMA SettledRow ==
    ASSUME TypeOK, NEW r \in Responses, NEW v \in {"accepted", "dismissed", "withdrawn"},
           Settled(r, v)
    PROVE  /\ Rows' = Rows
           /\ response' = [response EXCEPT ![r] = [response[r] EXCEPT !.status = v]]
<1>1. response[r] \in ResponseRow
  BY LiveRow DEF Settled
<1>2. [response[r] EXCEPT !.status = v] # NoRow
  BY <1>1 DEF ResponseRow, NoRow
<1> QED BY <1>1, <1>2 DEF Settled, TypeOK, Rows

LEMMA IndexStep ==
    ASSUME TypeOK, Linked, OneResponsePerRound, OneRowPerKey, [Next]_vars
    PROVE  OneResponsePerRound' /\ OneRowPerKey'
<1>1. CASE UNCHANGED response
  BY <1>1 DEF OneResponsePerRound, OneRowPerKey, Rows
<1>2. ASSUME NEW r \in Responses, Inserted(r)
      PROVE  OneResponsePerRound' /\ OneRowPerKey'
  <2>1. PICK k \in Creation :
          /\ response'[r] = [status |-> "pending", wanted |-> k.wanted, offer |-> k.offer,
                  text |-> k.text, epoch |-> k.epoch, key |-> k.key]
          /\ RoundRows(k.wanted, k.epoch, k.offer) = {}
          /\ KeyRows(Poster[k.offer], k.key) = {}
    BY <1>2 DEF Inserted, MayOffer, TypeOK
  <2>2. \A x \in Rows : ~ /\ response[x].wanted = response'[r].wanted
                          /\ response[x].offer = response'[r].offer
                          /\ response[x].epoch = response'[r].epoch
    BY <2>1 DEF RoundRows
  <2>3. \A x \in Rows : ~ /\ response[x].key = response'[r].key
                          /\ response'[r].key # None
                          /\ Poster[response[x].offer] = Poster[response'[r].offer]
    BY <2>1 DEF KeyRows
  <2>4. OneResponsePerRound'
    BY <1>2, <2>2, NewRow DEF OneResponsePerRound
  <2>5. OneRowPerKey'
    BY <1>2, <2>3, NewRow DEF OneRowPerKey
  <2> QED BY <2>4, <2>5
<1>3. ASSUME NEW r \in Responses, NEW v \in {"accepted", "dismissed", "withdrawn"}, Settled(r, v)
      PROVE  OneResponsePerRound' /\ OneRowPerKey'
  <2>1. Rows' = Rows
    BY <1>3, SettledRow
  <2> QED BY <2>1, RowsKept DEF OneResponsePerRound, OneRowPerKey
<1> QED BY <1>1, <1>2, <1>3, TableStep

LEMMA AcksStep ==
    ASSUME TypeOK, Linked, AcksAreRows, [Next]_vars
    PROVE  AcksAreRows'
<1>1. ASSUME NEW a \in acks
      PROVE  /\ a.response \in Rows'
             /\ response'[a.response].key = a.key
             /\ SameContent(a.response, a.wanted, a.offer, a.text)'
  BY RowsKept DEF AcksAreRows, SameContent
<1>2. CASE UNCHANGED acks
  BY <1>1, <1>2 DEF AcksAreRows
<1>3. ASSUME NEW u \in Users, NEW key \in Keys \cup {None}, NEW w \in Wanteds, NEW o \in Listings,
             NEW text \in Texts, NEW r \in KeyRows(u, key), SameContent(r, w, o, text),
             NEW a \in AckOf(key, r, w, o, text)
      PROVE  /\ a.response \in Rows'
             /\ response'[a.response].key = a.key
             /\ SameContent(a.response, a.wanted, a.offer, a.text)'
  <2>1. r \in Rows /\ response[r].key = key
    BY DEF KeyRows
  <2>2. a = [key |-> key, response |-> r, wanted |-> w, offer |-> o, text |-> text]
    BY DEF AckOf
  <2> QED BY <1>3, <2>1, <2>2, RowsKept DEF SameContent
<1>4. ASSUME NEW c \in Calls, InsertResponse(c) PROVE AcksAreRows'
  <2> DEFINE k == call[c]
             u == k.by
  <2>1. k \in Creation
    BY <1>4, HeldCall, 0 \in Nat, TRUE \in BOOLEAN DEF InsertResponse
  <2>2. /\ k.wanted \in Wanteds /\ k.offer \in Listings /\ k.text \in Texts
        /\ k.key \in Keys \cup {None} /\ u \in Users
    BY <2>1 DEF Creation
  <2>3. CASE \E r \in Responses \ Rows :
                /\ response' = [response EXCEPT ![r] =
                       [status |-> "pending", wanted |-> k.wanted, offer |-> k.offer,
                        text |-> k.text, epoch |-> k.epoch, key |-> k.key]]
                /\ acks' = acks \cup AckOf(k.key, r, k.wanted, k.offer, k.text)
    <3>1. PICK r \in Responses \ Rows :
                /\ response' = [response EXCEPT ![r] =
                       [status |-> "pending", wanted |-> k.wanted, offer |-> k.offer,
                        text |-> k.text, epoch |-> k.epoch, key |-> k.key]]
                /\ acks' = acks \cup AckOf(k.key, r, k.wanted, k.offer, k.text)
      BY <2>3
    <3>2. response'[r] = [status |-> "pending", wanted |-> k.wanted, offer |-> k.offer,
                          text |-> k.text, epoch |-> k.epoch, key |-> k.key]
      BY <3>1 DEF TypeOK
    <3>3. r \in Rows'
      BY <3>2 DEF Rows, NoRow
    <3>4. ASSUME NEW a \in AckOf(k.key, r, k.wanted, k.offer, k.text)
          PROVE  /\ a.response \in Rows'
                 /\ response'[a.response].key = a.key
                 /\ SameContent(a.response, a.wanted, a.offer, a.text)'
      BY <3>2, <3>3 DEF AckOf, SameContent
    <3> QED BY <1>1, <3>1, <3>4 DEF AcksAreRows
  <2>4. CASE acks' = acks \cup UNION {AckOf(k.key, r, k.wanted, k.offer, k.text) :
                 r \in {x \in KeyRows(u, k.key) : SameContent(x, k.wanted, k.offer, k.text)}}
    <3>1. ASSUME NEW a \in acks', a \notin acks
          PROVE  \E r \in KeyRows(u, k.key) : /\ SameContent(r, k.wanted, k.offer, k.text)
                                              /\ a \in AckOf(k.key, r, k.wanted, k.offer, k.text)
      BY <2>4, <3>1
    <3> QED BY <1>1, <1>3, <2>2, <3>1 DEF AcksAreRows
  <2> QED BY <1>2, <1>4, <2>3, <2>4 DEF InsertResponse
<1>5. ASSUME NEW c \in Calls, NEW u \in Users, NEW w \in Wanteds, NEW o \in Listings,
             NEW text \in Texts, NEW key \in Keys \cup {None}, Respond(c, u, w, o, text, key)
      PROVE  AcksAreRows'
  <2>2. CASE \E r \in KeyRows(u, key) :
                /\ SameContent(r, w, o, text)
                /\ acks' = acks \cup AckOf(key, r, w, o, text)
    BY <1>1, <1>3, <2>2 DEF AcksAreRows
  <2> QED BY <1>2, <1>5, <2>2 DEF Respond
<1> QED
  BY <1>2, <1>4, <1>5 DEF Next, vars, Proceed, LockWantedToRespond, RefuseToRespond,
     LockWantedToSettle, FinishSettling, Abort, Settle, Fulfill, SellInDeal, Delete, Relist,
     SetStatus, Restrict, Unrestrict, Moderate, Membership

LEMMA InitInv == Init => IInv
<1> SUFFICES ASSUME Init PROVE IInv
  OBVIOUS
<1>1. \A r, x \in Rows : r = x /\ response[r].key = None
  BY DEF Init, Rows
<1>2. Linked /\ AcksAreRows
  BY DEF Init, Linked, AcksAreRows, Settling, NoCall
<1> QED BY <1>1, <1>2, InitType DEF IInv, OneResponsePerRound, OneRowPerKey

LEMMA NextInv == IInv /\ [Next]_vars => IInv'
BY NextType, LinkedStep, IndexStep, AcksStep DEF IInv

THEOREM InvariantHolds == Spec => []IInv
BY InitInv, NextInv, PTL DEF Spec

\* One answer per offer and round.
THEOREM RoundsAnsweredOnce == Spec => []OneResponsePerRound
<1>1. IInv => OneResponsePerRound
  BY DEF IInv
<1> QED BY <1>1, InvariantHolds, PTL

\* A key stands for one creation.
THEOREM KeysAreSound == Spec => []KeyMeansOneRequest
<1>1. IInv => KeyMeansOneRequest
  <2> SUFFICES ASSUME IInv, NEW a \in acks, NEW b \in acks
               PROVE  /\ response[a.response].wanted = a.wanted
                      /\ response[a.response].offer = a.offer
                      /\ response[a.response].text = a.text
                      /\ a.key = b.key /\ Poster[a.offer] = Poster[b.offer]
                         => a.response = b.response
    BY DEF KeyMeansOneRequest
  <2>1. a.key # None
    BY DEF IInv, TypeOK, Ack
  <2> QED BY <2>1 DEF IInv, AcksAreRows, OneRowPerKey, SameContent
<1> QED BY <1>1, InvariantHolds, PTL

-----------------------------------------------------------------------------
(* What a step may do to an answer. *)

\* Answers of closed rounds, and history without a round, never change.
THEOREM FrozenForGood == Spec => ClosedRoundsAreFrozen
<1> DEFINE A == \A r \in Rows : response'[r] # response[r] =>
                    /\ response[r].status = "pending"
                    /\ response[r].epoch = listing[response[r].wanted].epoch
                    /\ Open(response[r].wanted)
<1>1. IInv /\ [Next]_vars => A
  <2> SUFFICES ASSUME IInv, [Next]_vars, NEW r \in Rows, response'[r] # response[r]
               PROVE  /\ response[r].status = "pending"
                      /\ response[r].epoch = listing[response[r].wanted].epoch
                      /\ Open(response[r].wanted)
    OBVIOUS
  <2>1. ASSUME NEW x \in Responses, Inserted(x) PROVE FALSE
    BY <2>1, NewRow DEF IInv
  <2>2. ASSUME NEW x \in Responses, NEW v \in {"accepted", "dismissed", "withdrawn"}, Settled(x, v)
        PROVE  r = x
    BY <2>2, SettledRow DEF IInv, TypeOK, Rows
  <2> QED BY <2>1, <2>2, TableStep DEF IInv, Settled
<1>2. IInv /\ [Next]_vars => [A]_vars
  BY <1>1
<1> QED BY <1>2, InvariantHolds, PTL DEF Spec, ClosedRoundsAreFrozen

\* What is accepted is on offer when it is accepted.
THEOREM AcceptedWasOnOffer == Spec => AcceptedIsAvailable
<1> DEFINE A == \A r \in Rows : /\ response[r].status # "accepted"
                                /\ response'[r].status = "accepted"
                                => Open(response[r].offer)
<1>1. IInv /\ [Next]_vars => A
  <2> SUFFICES ASSUME IInv, [Next]_vars, NEW r \in Rows,
                      response[r].status # "accepted", response'[r].status = "accepted"
               PROVE  Open(response[r].offer)
    OBVIOUS
  <2>1. ASSUME NEW x \in Responses, Inserted(x) PROVE FALSE
    BY <2>1, NewRow DEF IInv
  <2>2. ASSUME NEW x \in Responses, NEW v \in {"accepted", "dismissed", "withdrawn"}, Settled(x, v)
        PROVE  r = x /\ v = "accepted"
    <3>1. response'[x] = [response[x] EXCEPT !.status = v] /\ response[x] \in ResponseRow
      BY <2>2, SettledRow, LiveRow DEF IInv, TypeOK, Settled
    <3>2. response'[x].status = v
      BY <3>1 DEF ResponseRow
    <3> QED BY <2>2, <3>2, SettledRow DEF IInv, TypeOK, Rows
  <2>3. response' # response
    OBVIOUS
  <2> QED BY <2>1, <2>2, <2>3, TableStep DEF IInv, Settled
<1>2. IInv /\ [Next]_vars => [A]_vars
  BY <1>1
<1> QED BY <1>2, InvariantHolds, PTL DEF Spec, AcceptedIsAvailable

-----------------------------------------------------------------------------
(* The requests implement Rounds. *)

phases == [w \in Wanteds |-> Phase(w)]
epochs == [w \in Wanteds |-> listing[w].epoch]
given  == {AnswerOf(r) : r \in InRounds}

LEMMA InsertAnswers ==
    ASSUME IInv, NEW r \in Responses, Inserted(r)
    PROVE  \E w \in Wanteds, o \in Offers : R!Answer(w, o)
<1>1. PICK k \in Creation :
        /\ response'[r] = [status |-> "pending", wanted |-> k.wanted, offer |-> k.offer,
                text |-> k.text, epoch |-> k.epoch, key |-> k.key]
        /\ MayOffer(k) /\ TriggersAccept(k)
        /\ RoundRows(k.wanted, k.epoch, k.offer) = {}
  BY DEF Inserted, IInv, TypeOK
<1> DEFINE w == k.wanted
           o == k.offer
           e == listing[w].epoch
           new == [wanted |-> w, epoch |-> e, offer |-> o, status |-> "pending"]
<1>2. w \in Wanteds /\ o \in Offers /\ e \in Nat /\ k.epoch = e
  BY <1>1 DEF Creation, MayOffer, TriggersAccept, IInv, TypeOK, Listings, ListingRow
<1>3. phases[w] = "open" /\ epochs[w] = e
  BY <1>1, <1>2 DEF TriggersAccept, Open, Active, Phase, phases, epochs
<1>4. phases' = phases /\ epochs' = epochs
  BY DEF phases, epochs, Phase, Active, Inserted
<1>5. ~\E a \in given : a.wanted = w /\ a.epoch = e /\ a.offer = o
  BY <1>1, <1>2 DEF given, AnswerOf, InRounds, RoundRows
<1>6. InRounds' = InRounds \cup {r} /\ AnswerOf(r)' = new
  <2>1. response'[r].epoch # None
    BY <1>1, <1>2
  <2>2. Rows' = Rows \cup {r} /\ \A x \in Rows : response'[x] = response[x]
    BY NewRow DEF IInv
  <2> QED BY <1>1, <1>2, <2>1, <2>2 DEF InRounds, AnswerOf
<1>7. \A x \in InRounds : AnswerOf(x)' = AnswerOf(x)
  BY NewRow DEF IInv, InRounds, AnswerOf
<1>8. given' = given \cup {new}
  BY <1>6, <1>7 DEF given
<1> QED
  BY <1>2, <1>3, <1>4, <1>5, <1>8 DEF R!Answer, R!Answered, phases, epochs, given

LEMMA SettleSettles ==
    ASSUME IInv, NEW r \in Responses, NEW v \in {"accepted", "dismissed", "withdrawn"},
           Settled(r, v)
    PROVE  \E a \in given, x \in R!Verdicts : R!Settle(a, x)
<1> DEFINE a == AnswerOf(r)
           w == response[r].wanted
<1>1. response[r] \in ResponseRow /\ r \in Rows
  BY LiveRow DEF IInv, Settled
<1>2. w \in Wanteds /\ listing[w].epoch \in Nat
  BY <1>1 DEF ResponseRow, IInv, TypeOK, Listings, ListingRow
<1>3. phases[w] = "open" /\ epochs[w] = response[r].epoch
  BY <1>2 DEF Settled, Open, Active, Phase, phases, epochs
<1>4. phases' = phases /\ epochs' = epochs
  BY DEF phases, epochs, Phase, Active, Settled
<1>5. r \in InRounds
  BY <1>1, <1>2 DEF InRounds, Settled
<1>6. Rows' = Rows /\ response' = [response EXCEPT ![r] = [response[r] EXCEPT !.status = v]]
  BY SettledRow DEF IInv
<1>7. AnswerOf(r)' = [a EXCEPT !.status = v]
  <2>1. response'[r] = [response[r] EXCEPT !.status = v]
    BY <1>6 DEF IInv, TypeOK
  <2> QED BY <1>1, <2>1 DEF AnswerOf, ResponseRow
<1>8. \A x \in Rows : x # r => response'[x] = response[x]
  BY <1>6 DEF IInv, TypeOK, Rows
<1>9. InRounds' = InRounds
  <2>1. response'[r].epoch = response[r].epoch
    BY <1>1, <1>6 DEF IInv, TypeOK, ResponseRow
  <2> QED BY <1>6, <1>8, <2>1 DEF InRounds
<1>10. \A x \in InRounds : x # r => AnswerOf(x)' = AnswerOf(x) /\ AnswerOf(x) # a
  BY <1>1, <1>5, <1>8 DEF InRounds, AnswerOf, IInv, OneResponsePerRound
<1>11. given' = (given \ {a}) \cup {[a EXCEPT !.status = v]}
  BY <1>5, <1>7, <1>9, <1>10 DEF given
<1>12. a.wanted = w /\ a.epoch = response[r].epoch /\ a.status = "pending" /\ a \in given
  BY <1>5 DEF AnswerOf, Settled, given
<1>13. R!Settle(a, v)
  BY <1>3, <1>4, <1>11, <1>12 DEF R!Settle, phases, epochs, given
<1> QED BY <1>12, <1>13 DEF R!Verdicts

\* A post that changes hands with its poster, a deal or moderation turns its
\* round; the offers' changes are not seen.
LEMMA TurnSteps ==
    ASSUME IInv, Elsewhere
    PROVE  \/ \E w \in Wanteds : R!Suspend(w) \/ R!Resume(w) \/ R!Close(w) \/ R!Reopen(w)
           \/ UNCHANGED <<phases, epochs, given>>
<1>1. given' = given
  BY DEF Elsewhere, Fulfill, SellInDeal, Delete, Relist, SetStatus, Restrict, Unrestrict,
         Moderate, Membership, given, AnswerOf, InRounds, Rows
<1>2. ASSUME NEW l \in Listings, NEW st, NEW e, SetStatus(l, st, e)
      PROVE  \A w \in Wanteds : w # l => Phase(w)' = Phase(w) /\ listing'[w] = listing[w]
  BY <1>2 DEF SetStatus, Phase, Active, IInv, TypeOK, Listings
<1>3. ASSUME NEW l \in Listings, NEW st \in {"sold", "deleted", "fulfilled"},
             SetStatus(l, st, listing[l].epoch), ~Active(l) \/ Phase(l) \in {"open", "suspended"}
      PROVE  (R!Close(l) /\ l \in Wanteds) \/ UNCHANGED <<phases, epochs, given>>
  <2>1. Phase(l)' = "closed" /\ listing'[l].epoch = listing[l].epoch
    BY <1>3 DEF SetStatus, Phase, Active, IInv, TypeOK
  <2>2. epochs' = epochs
    BY <1>2, <1>3, <2>1 DEF epochs
  <2>3. CASE l \in Wanteds /\ Active(l)
    <3>1. phases[l] \in {"open", "suspended"}
      BY <1>3, <2>3 DEF phases
    <3>2. phases' = [phases EXCEPT ![l] = "closed"]
      BY <1>2, <1>3, <2>1, <2>3 DEF phases
    <3> QED BY <1>1, <2>2, <2>3, <3>1, <3>2 DEF R!Close, R!Turn, phases, epochs, given
  <2>4. CASE l \notin Wanteds
    BY <1>1, <1>2, <1>3, <2>2, <2>4 DEF phases
  <2>5. CASE l \in Wanteds /\ ~Active(l)
    <3>1. Phase(l) = "closed"
      BY <2>5 DEF Phase
    <3> QED BY <1>1, <1>2, <1>3, <2>1, <2>2, <3>1 DEF phases
  <2> QED BY <2>3, <2>4, <2>5
<1>4. ASSUME NEW w \in Wanteds, Fulfill(w)
      PROVE  R!Close(w) \/ UNCHANGED <<phases, epochs, given>>
  BY <1>3, <1>4 DEF Fulfill, Open, Phase, Listings
<1>5. ASSUME NEW l \in Listings, SellInDeal(l) \/ Delete(l)
      PROVE  (R!Close(l) /\ l \in Wanteds) \/ UNCHANGED <<phases, epochs, given>>
  BY <1>3, <1>5 DEF SellInDeal, Delete, Phase
<1>6. ASSUME NEW l \in Listings, Relist(l)
      PROVE  (R!Reopen(l) /\ l \in Wanteds) \/ UNCHANGED <<phases, epochs, given>>
  <2>1. SetStatus(l, "active", NextEpoch(l)) /\ ~Active(l) /\ l \notin restricted
    BY <1>6 DEF Relist
  <2>2. Phase(l) = "closed" /\ Phase(l)' = "open" /\ listing'[l].epoch = NextEpoch(l)
    BY <2>1 DEF SetStatus, Phase, Active, IInv, TypeOK
  <2>3. CASE l \in Wanteds
    <3>1. phases' = [phases EXCEPT ![l] = "open"] /\ phases[l] = "closed"
      BY <1>2, <2>1, <2>2, <2>3 DEF phases
    <3>2. epochs' = [epochs EXCEPT ![l] = epochs[l] + 1]
      BY <1>2, <2>1, <2>2, <2>3 DEF epochs, NextEpoch
    <3> QED BY <1>1, <2>3, <3>1, <3>2 DEF R!Reopen, R!Turn, phases, epochs, given
  <2>4. CASE l \notin Wanteds
    BY <1>1, <1>2, <2>1, <2>4 DEF phases, epochs
  <2> QED BY <2>3, <2>4
<1>7. ASSUME NEW l \in Listings, Restrict(l) \/ Unrestrict(l)
      PROVE  \/ (R!Suspend(l) \/ R!Resume(l)) /\ l \in Wanteds
             \/ UNCHANGED <<phases, epochs, given>>
  <2>1. epochs' = epochs /\ \A w \in Wanteds : w # l => Phase(w)' = Phase(w)
    BY <1>7 DEF Restrict, Unrestrict, Moderate, Phase, Active, epochs
  <2>2. CASE l \in Wanteds /\ Active(l) /\ Restrict(l)
    <3>1. phases' = [phases EXCEPT ![l] = "suspended"] /\ phases[l] = "open"
      BY <2>1, <2>2 DEF phases, Phase, Restrict, Moderate, Active
    <3> QED BY <1>1, <2>1, <2>2, <3>1 DEF R!Suspend, R!Turn, phases, epochs, given
  <2>3. CASE l \in Wanteds /\ Active(l) /\ Unrestrict(l)
    <3>1. phases' = [phases EXCEPT ![l] = "open"] /\ phases[l] = "suspended"
      BY <2>1, <2>3 DEF phases, Phase, Unrestrict, Moderate, Active
    <3> QED BY <1>1, <2>1, <2>3, <3>1 DEF R!Resume, R!Turn, phases, epochs, given
  <2>4. CASE l \notin Wanteds \/ ~Active(l)
    <3>1. \A w \in Wanteds : Phase(w)' = Phase(w)
      BY <1>7, <2>1, <2>4 DEF Restrict, Unrestrict, Moderate, Phase, Active
    <3> QED BY <1>1, <2>1, <3>1 DEF phases
  <2> QED BY <1>7, <2>2, <2>3, <2>4
<1>8. ASSUME NEW u \in Users, Membership(u) PROVE UNCHANGED <<phases, epochs, given>>
  BY <1>1, <1>8 DEF Membership, phases, epochs, Phase, Active
<1> QED BY <1>4, <1>5, <1>6, <1>7, <1>8 DEF Elsewhere

\* The steps of a request that leave the table alone are not seen.
LEMMA QuietSteps ==
    ASSUME IInv, [Next]_vars, UNCHANGED response, ~Elsewhere
    PROVE  UNCHANGED <<phases, epochs, given>>
<1>1. UNCHANGED <<listing, restricted>>
  BY DEF Next, vars, Proceed, LockWantedToRespond, RefuseToRespond, InsertResponse,
     LockWantedToSettle, FinishSettling, Abort, Respond, Settle, Elsewhere
<1> QED BY <1>1 DEF phases, epochs, given, Phase, Active, AnswerOf, InRounds, Rows

LEMMA InitMaps == Init => R!Init
<1> SUFFICES ASSUME Init PROVE R!Init
  OBVIOUS
<1>1. \A w \in Wanteds : Phase(w) = "open" /\ listing[w].epoch = 1
  BY DEF Init, Phase, Active, Listings
<1>2. \A r \in Rows : response[r].epoch = None
  BY DEF Init, Rows
<1> QED BY <1>1, <1>2 DEF R!Init, InRounds

LEMMA StepMaps == IInv /\ [Next]_vars => [R!Next]_(R!vars)
<1> SUFFICES ASSUME IInv, [Next]_vars PROVE [R!Next]_(R!vars)
  OBVIOUS
<1>1. CASE response' # response
  <2>1. CASE \E r \in Responses : Inserted(r)
    BY <2>1, InsertAnswers DEF R!Next
  <2>2. CASE \E r \in Responses : \E v \in {"accepted", "dismissed", "withdrawn"} : Settled(r, v)
    BY <2>2, SettleSettles DEF R!Next, given
  <2> QED BY <1>1, <2>1, <2>2, TableStep DEF IInv
<1>2. CASE UNCHANGED response
  <2>1. UNCHANGED <<phases, epochs, given>> => UNCHANGED R!vars
    BY DEF R!vars, phases, epochs, given
  <2> QED BY <1>2, <2>1, QuietSteps, TurnSteps DEF R!Next
<1> QED BY <1>1, <1>2

\* Requests in flight, their locks and their aborts keep the promise of Rounds.
THEOREM RoundsImplemented == Spec => ImplementsRounds
BY InitMaps, StepMaps, InvariantHolds, PTL DEF Spec, R!Spec, ImplementsRounds

-----------------------------------------------------------------------------
(* Deadlock. *)

\* What is locked between two steps of a request is its wanted row.
LocksHeld ==
    \A l \in Listings : lock[l] # None =>
        /\ l \in Wanteds
        /\ call[lock[l]] # NoCall /\ call[lock[l]].holds

\* Taking a lock puts it on a wanted row, for a request that had none.
LEMMA LockTaken ==
    ASSUME TypeOK, LocksHeld, NEW c \in Calls,
           LockWantedToRespond(c) \/ LockWantedToSettle(c)
    PROVE  LocksHeld'
<1> DEFINE w == call[c].wanted
           e == listing[w].epoch
<1>1. w \in Wanteds /\ w \in Listings /\ lock' = [lock EXCEPT ![w] = c]
  BY TakenRow DEF LockWantedToRespond, LockWantedToSettle, LockOrder, Listings
<1>2. call[c] \in Creation \cup Settlement
  BY TakenRow, HeldCall, 0 \in Nat, TRUE \in BOOLEAN DEF LockWantedToRespond, LockWantedToSettle
<1>3. call'[c].holds /\ call'[c] # NoCall
  BY <1>2 DEF LockWantedToRespond, LockWantedToSettle, Creation, Settlement, NoCall, TypeOK
<1>4. \A d \in Calls \ {c} : call'[d] = call[d]
  BY DEF LockWantedToRespond, LockWantedToSettle, TypeOK
<1>5. lock \in [Listings -> Calls \cup {None}]
  BY DEF TypeOK
<1> SUFFICES ASSUME NEW l \in Listings, lock'[l] # None
             PROVE  l \in Wanteds /\ call'[lock'[l]] # NoCall /\ call'[lock'[l]].holds
  BY DEF LocksHeld
<1>6. CASE l = w
  BY <1>1, <1>3, <1>5, <1>6
<1>7. CASE l # w
  <2>1. lock'[l] = lock[l] /\ lock[l] \in Calls
    BY <1>1, <1>5, <1>7
  <2>2. l \in Wanteds /\ call[lock[l]] # NoCall /\ call[lock[l]].holds
    BY <2>1 DEF LocksHeld
  <2>3. CASE lock[l] = c
    BY <1>3, <2>1, <2>2, <2>3
  <2>4. CASE lock[l] # c
    BY <1>4, <2>1, <2>2, <2>4
  <2> QED BY <2>3, <2>4
<1> QED BY <1>6, <1>7

\* A request that ends gives back all it holds.
LEMMA LockReturned ==
    ASSUME TypeOK, LocksHeld, NEW c \in Calls, Release(c)
    PROVE  LocksHeld'
BY DEF TypeOK, LocksHeld, Release

\* A request that starts holds nothing yet, whatever it is about.
LEMMA LockUnused ==
    ASSUME TypeOK, LocksHeld, NEW c \in Calls, call[c] = NoCall, UNCHANGED lock,
           \A d \in Calls \ {c} : call'[d] = call[d]
    PROVE  LocksHeld'
<1> SUFFICES ASSUME NEW l \in Listings, lock'[l] # None
             PROVE  l \in Wanteds /\ call'[lock'[l]] # NoCall /\ call'[lock'[l]].holds
  BY DEF LocksHeld
<1>1. lock[l] \in Calls /\ lock'[l] = lock[l]
  BY DEF TypeOK
<1>2. l \in Wanteds /\ call[lock[l]] # NoCall /\ call[lock[l]].holds
  BY <1>1 DEF LocksHeld
<1> QED BY <1>1, <1>2

LEMMA LocksStep == TypeOK /\ LocksHeld /\ [Next]_vars => LocksHeld'
<1> SUFFICES ASSUME TypeOK, LocksHeld, [Next]_vars
             PROVE  LocksHeld'
  OBVIOUS
<1>1. ASSUME NEW c \in Calls, Proceed(c) \/ Abort(c)
      PROVE  LocksHeld'
  BY <1>1, LockTaken, LockReturned
     DEF Proceed, Abort, RefuseToRespond, InsertResponse, FinishSettling
<1>2. ASSUME NEW c \in Calls, NEW u \in Users, NEW w \in Wanteds, NEW o \in Listings,
             NEW text \in Texts, NEW key \in Keys \cup {None}, Respond(c, u, w, o, text, key)
      PROVE  LocksHeld'
  <2>1. call[c] = NoCall /\ UNCHANGED lock /\ \A d \in Calls \ {c} : call'[d] = call[d]
    BY <1>2 DEF Respond, TypeOK
  <2> QED BY <2>1, LockUnused
<1>3. ASSUME NEW c \in Calls, NEW r \in Responses,
             NEW op \in {"accept", "dismiss", "withdraw"}, Settle(c, r, op)
      PROVE  LocksHeld'
  <2>1. call[c] = NoCall /\ UNCHANGED lock /\ \A d \in Calls \ {c} : call'[d] = call[d]
    BY <1>3 DEF Settle, TypeOK
  <2> QED BY <2>1, LockUnused
<1>4. CASE UNCHANGED <<call, lock>>
  BY <1>4 DEF LocksHeld
<1>5. CASE UNCHANGED vars
  BY <1>4, <1>5 DEF vars
<1> QED BY <1>1, <1>2, <1>3, <1>4, <1>5
        DEF Next, Fulfill, SellInDeal, Delete, Relist, Restrict, Unrestrict, Moderate,
            SetStatus, Membership

\* Who is waited for holds a wanted row; if he waits himself, then for another
\* one, since no offer is held between two steps, and only he who names it as
\* his offer does that.
LEMMA CirclesFollow == TypeOK /\ LocksHeld => CirclesAreMisnamed
<1> SUFFICES ASSUME TypeOK, LocksHeld, NEW S \in SUBSET Calls, Circle(S), NEW c \in S
             PROVE  Creating(c) /\ call[c].offer \in Wanteds
  BY DEF CirclesAreMisnamed
<1>1. \A d \in Calls : call[d] # NoCall => call[d] \in Creation \cup Settlement
  BY DEF TypeOK
<1>2. \A d \in Calls : call[d] # NoCall => NextRow(d) \in Listings
  BY <1>1 DEF NextRow, LockOrder, Creation, Settlement, Listings
<1>3. call[c] # NoCall /\ call[c].holds
  <2>1. PICK d \in S : WaitsFor(d, c)
    BY DEF Circle
  <2>2. NextRow(d) \in Listings /\ lock[NextRow(d)] = c
    BY <1>2, <2>1 DEF WaitsFor
  <2> QED BY <2>2 DEF LocksHeld
<1>4. NextRow(c) = call[c].offer
  BY <1>3 DEF NextRow, LockOrder
<1>5. lock[NextRow(c)] # None
  BY DEF Circle, WaitsFor
<1>6. call[c].offer \in Wanteds
  BY <1>2, <1>3, <1>4, <1>5 DEF LocksHeld
<1>7. call[c] \in Creation
  BY <1>1, <1>3, <1>6, KindAssumption DEF Settlement
<1> QED BY <1>6, <1>7 DEF Creating, Creation

\* Requests that settle, and those that answer with an offer, are in no circle
\* of waiting, however many there are.
THEOREM LocksCircleMisnamed == Spec => []CirclesAreMisnamed
<1>1. Init => LocksHeld
  BY DEF Init, LocksHeld
<1> QED BY <1>1, InitType, NextType, LocksStep, CirclesFollow, PTL DEF Spec
=============================================================================
