----------------------------- MODULE Agreements ------------------------------
(***************************************************************************)
(* Two ways in which a buyer and a seller come to terms: the card of a     *)
(* conversation, on which each term carries the names of those who agreed  *)
(* to it (services/agreement.rs), and price discovery, to which each tells *)
(* a limit that the other never sees (services/price_discovery.rs).        *)
(*                                                                         *)
(* A request to adopt or to settle carries what its sender has seen; the   *)
(* card may have changed when it arrives.  Stating a limit is one          *)
(* transaction of several statements, in which the other side's limit is   *)
(* visible once it is committed.                                           *)
(***************************************************************************)
EXTENDS Integers, FiniteSets

CONSTANTS
    Buyer, Seller,  \* the participants
    Slots,          \* terms the kind of the card has
    Terms,          \* texts of a term
    Amounts,        \* amounts a client may send beside a text, -1 for none
    Limits,         \* amounts in cents
    MaxChanges      \* bound: changes of terms

ASSUME SlotsAssumption  == Slots # {} /\ "none" \notin Terms
ASSUME AmountsAssumption == -1 \in Amounts
ASSUME LimitsAssumption == Limits \subseteq Nat
ASSUME PairAssumption   == Buyer # Seller

VARIABLES
    card,        \* agreements: none, forming or settled
    term,        \* agreement_terms: text, amount and who agreed
    adopting,    \* adopt requests under way: <<user, slot, text the user saw>>
    settling,    \* who was shown a card that was fully agreed
    changes,     \* history: number of changes so far
    yes,         \* history: <<user, slot, text, amount>> that a user has said yes to
    goods,     \* inventory: on sale or not, for whatever reason
    session,     \* price_discovery_sessions: the pair's row
    limit,       \* price_reservations, as committed
    stating      \* what each side's request to state a limit has done so far

cardVars      == <<card, term, adopting, settling, changes, yes>>
discoveryVars == <<goods, session, limit, stating>>
dealingVars   == <<cardVars, discoveryVars>>

Pair  == {Buyer, Seller}
Other(u) == CHOOSE v \in Pair : v # u

NoTerm    == [value |-> "none", cents |-> -1, agreed |-> {}]
NothingStated == [stage |-> "none", cents |-> -1]

DealingInit ==
    /\ card = "none"
    /\ term = [s \in Slots |-> NoTerm]
    /\ adopting = {} /\ settling = {} /\ changes = 0 /\ yes = {}
    /\ goods = "active"
    /\ session = [status |-> "none", cents |-> -1]
    /\ limit = [u \in Pair |-> -1]
    /\ stating = [u \in Pair |-> NothingStated]

-----------------------------------------------------------------------------
(* The card of a conversation.                                             *)

EnsureForConversation ==
    /\ card = "none" /\ card' = "forming"
    /\ UNCHANGED <<term, adopting, settling, changes, yes>>

\* Bug: names are merged, so that those who agreed to the old value stay.
Merged(s, agreed) == term[s].agreed \cup agreed
Agreed(s, agreed) == agreed

\* A person agrees to what he proposes.  The amount is what the client says
\* it is; nothing compares it with the text.
SetTerm(u, s, v, cents) ==
    /\ card # "none" /\ changes < MaxChanges
    /\ term' = [term EXCEPT ![s] = [value |-> v, cents |-> cents, agreed |-> Agreed(s, {u})]]
    /\ yes' = yes \cup {<<u, s, v, cents>>}
    /\ changes' = changes + 1
    /\ UNCHANGED <<card, adopting, settling>>

\* The assistant agrees to nothing.
SuggestTerm(s, v, cents) ==
    /\ card # "none" /\ changes < MaxChanges
    /\ term' = [term EXCEPT ![s] = [value |-> v, cents |-> cents, agreed |-> Agreed(s, {})]]
    /\ changes' = changes + 1
    /\ UNCHANGED <<card, adopting, settling, yes>>

\* Bug: the row is found by its slot alone.
ExpectsAny(s, v) == TRUE
Expects(s, v)    == term[s].value = v

SendAdoption(u, s) ==
    /\ term[s] # NoTerm
    /\ adopting' = adopting \cup {<<u, s, term[s].value>>}
    /\ yes' = yes \cup {<<u, s, term[s].value, term[s].cents>>}
    /\ UNCHANGED <<card, term, settling, changes>>

\* The text is compared, the amount is not.
AdoptTerm(request) ==
    /\ request \in adopting
    /\ adopting' = adopting \ {request}
    /\ LET s == request[2] IN
       term' = IF Expects(s, request[3]) THEN [term EXCEPT ![s].agreed = @ \cup {request[1]}]
               ELSE term
    /\ UNCHANGED <<card, settling, changes, yes>>

IsSettled(s) == Pair \subseteq term[s].agreed

\* is_fully_agreed
FullyAgreed ==
    /\ \E s \in Slots : term[s] # NoTerm
    /\ \A s \in Slots : term[s] # NoTerm => IsSettled(s)

\* settle: the card is read by one statement and written by another.
BeginSettle(u) ==
    /\ card # "none" /\ FullyAgreed
    /\ settling' = settling \cup {u}
    /\ UNCHANGED <<card, term, adopting, changes, yes>>

FinishSettle(u) ==
    /\ u \in settling
    /\ settling' = settling \ {u}
    /\ card' = "settled"
    /\ UNCHANGED <<term, adopting, changes, yes>>

CardNext ==
    \/ EnsureForConversation
    \/ \E u \in Pair :
          \/ BeginSettle(u) \/ FinishSettle(u)
          \/ \E s \in Slots : SendAdoption(u, s) \/ \E v \in Terms, cents \in Amounts : SetTerm(u, s, v, cents)
    \/ \E s \in Slots, v \in Terms, cents \in Amounts : SuggestTerm(s, v, cents)
    \/ \E request \in adopting : AdoptTerm(request)

-----------------------------------------------------------------------------
(* Price discovery.                                                        *)

\* listing_has_active_restriction counts like a status other than active.
Available == goods = "active"

\* A session that is there already is returned as it is.
Propose ==
    /\ Available /\ session.status = "none"
    /\ session' = [session EXCEPT !.status = "proposed"]
    /\ UNCHANGED <<goods, limit, stating>>

\* Either side may accept, the one who proposed as well.
Accept ==
    /\ Available /\ \A u \in Pair : stating[u].stage # "locked"
    /\ session.status = "proposed"
    /\ session' = [session EXCEPT !.status = "open"]
    /\ UNCHANGED <<goods, limit, stating>>

\* Waits for the row while a limit is being stated.
Decline ==
    /\ \A u \in Pair : stating[u].stage # "locked"
    /\ session.status \in {"proposed", "open"}
    /\ session' = [session EXCEPT !.status = "declined"]
    /\ UNCHANGED <<goods, limit, stating>>

SendLimit(u, cents) ==
    /\ stating[u] = NothingStated
    /\ stating' = [stating EXCEPT ![u] = [stage |-> "sent", cents |-> cents]]
    /\ UNCHANGED <<goods, session, limit>>

\* FOR UPDATE of the listing, then of the session.  Bug: neither is locked.
LocksNothing(u) == TRUE
MayLock(u)      == stating[Other(u)].stage # "locked"

\* clearing_price
Cleared(most, least) == IF most >= least THEN (most + least) \div 2 ELSE -1

\* Up to the insert of one's own limit, which the other side does not see yet.
LockSession(u) ==
    /\ stating[u].stage = "sent" /\ MayLock(u)
    /\ stating' = [stating EXCEPT ![u] =
           IF Available /\ session.status = "open"
           THEN [stage |-> "locked", cents |-> IF limit[u] = -1 THEN @.cents ELSE limit[u]]
           ELSE NothingStated]
    /\ UNCHANGED <<goods, session, limit>>

\* From the reading of both limits to the commit.
StateLimit(u) ==
    /\ stating[u].stage = "locked"
    /\ stating' = [stating EXCEPT ![u] = NothingStated]
    /\ limit' = [limit EXCEPT ![u] = stating[u].cents]
    /\ LET price == Cleared(limit'[Buyer], limit'[Seller]) IN
       session' = IF \E v \in Pair : limit'[v] = -1 THEN session
                  ELSE [status |-> IF price = -1 THEN "no_deal" ELSE "matched", cents |-> price]
    /\ UNCHANGED goods

\* The listing is sold, deleted, relisted, restricted or released; its row is
\* locked by whoever states a limit.
ListingChanges ==
    /\ \A u \in Pair : stating[u].stage # "locked"
    /\ goods' = IF Available THEN "gone" ELSE "active"
    /\ UNCHANGED <<session, limit, stating>>

DiscoveryNext ==
    \/ Propose \/ Accept \/ Decline \/ ListingChanges
    \/ \E u \in Pair :
          \/ LockSession(u) \/ StateLimit(u)
          \/ \E cents \in Limits : SendLimit(u, cents)

DealingNext ==
    \/ CardNext /\ UNCHANGED discoveryVars
    \/ DiscoveryNext /\ UNCHANGED cardVars

DealingSpec == DealingInit /\ [][DealingNext]_dealingVars

-----------------------------------------------------------------------------
SaidYes(u, s, v) == \E cents \in Amounts : <<u, s, v, cents>> \in yes

\* Nobody's name stands beside words that he has not said yes to, however late
\* an adoption arrives and however often the term has changed meanwhile.
ConsentIsToTheValue ==
    \A s \in Slots : \A u \in term[s].agreed : SaidYes(u, s, term[s].value)

\* Refuted: nobody stands behind an amount that he has not seen.  adopt_term
\* compares the text alone (agreement.rs:249), so a restatement of the same
\* text with another value_cents is adopted by who never saw it; 233-236 wants
\* no adoption to land on something that changed while the card was on screen.
ConsentIsToTheAmount ==
    \A s \in Slots : \A u \in term[s].agreed : <<u, s, term[s].value, term[s].cents>> \in yes

\* Two limits always come to an end, stated at once or one after the other: a
\* price that neither side would refuse, or no deal.
LimitsResolve ==
    /\ session.status = "open" => \E u \in Pair : limit[u] = -1
    /\ session.status = "matched" =>
          /\ limit[Seller] <= session.cents /\ session.cents <= limit[Buyer]
          /\ \A u \in Pair : limit[u] # -1

\* Not so: a term may change between the two statements of settle, or after
\* it (agreement.rs:26-28 says that changing one withdraws the agreement).
SettledIsAgreed == card = "settled" => FullyAgreed
==============================================================================
