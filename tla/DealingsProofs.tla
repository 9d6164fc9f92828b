--------------------------- MODULE DealingsProofs ----------------------------
(***************************************************************************)
(* Proofs about the requests of two people who deal with each other: what  *)
(* they agree on (Agreements), what they look for (Intents), what they     *)
(* publish (Posts), the groups and calls they are in (Spaces), and what    *)
(* they say to each other (Messages).  Each part states its types, the     *)
(* inductive invariant, the lemmas about the actions that matter, and the  *)
(* theorem.                                                                *)
(***************************************************************************)
EXTENDS MCDealings, SequenceTheorems, FiniteSetTheorems, WellFoundedInduction, TLAPS

-----------------------------------------------------------------------------
(* The card: names stand only beside values their owners have said yes to. *)

Values == Terms \cup {"none"}

TermRows == [value : Values, cents : Amounts, agreed : SUBSET Pair]

CardInv ==
    /\ term \in [Slots -> TermRows]
    /\ adopting \subseteq Pair \X Slots \X Values
    /\ \A u \in Pair, s \in Slots, v \in Values : <<u, s, v>> \in adopting => SaidYes(u, s, v)
    /\ ConsentIsToTheValue

\* What has been said stays said.
LEMMA SaidStays ==
    ASSUME yes \subseteq yes', NEW u, NEW s, NEW v, SaidYes(u, s, v)
    PROVE  SaidYes(u, s, v)'
BY DEF SaidYes

\* A new value comes with at most the name of whoever proposes it.
LEMMA ProposingIsSafe ==
    ASSUME CardInv, NEW s \in Slots, NEW v \in Terms, NEW cents \in Amounts, NEW names \in SUBSET Pair,
           term' = [term EXCEPT ![s] = [value |-> v, cents |-> cents, agreed |-> names]],
           adopting' = adopting, yes \subseteq yes',
           \A u \in names : <<u, s, v, cents>> \in yes'
    PROVE  CardInv'
<1> DEFINE new == [value |-> v, cents |-> cents, agreed |-> names]
<1>1. new \in TermRows /\ new.value = v /\ new.agreed = names
  BY DEF Values, TermRows
<1>2. term' = [term EXCEPT ![s] = new]
  OBVIOUS
<1> HIDE DEF new
<1>3. term' \in [Slots -> TermRows]
  BY <1>1, <1>2 DEF CardInv
<1>4. ASSUME NEW u \in Pair, NEW t \in Slots, NEW w \in Values, <<u, t, w>> \in adopting' PROVE SaidYes(u, t, w)'
  BY <1>4, SaidStays DEF CardInv
<1>5. ASSUME NEW t \in Slots, NEW u \in term'[t].agreed PROVE SaidYes(u, t, term[t].value)'
  <2>1. CASE t = s
    <3>1. term'[t].value = v /\ u \in names
      BY <1>1, <1>2, <1>5, <2>1 DEF CardInv
    <3> QED
      BY <2>1, <3>1 DEF SaidYes
  <2>2. CASE t # s
    <3>1. term'[t] = term[t]
      BY <1>2, <2>2 DEF CardInv
    <3>2. SaidYes(u, t, term[t].value)
      BY <1>5, <3>1 DEF CardInv, ConsentIsToTheValue
    <3> QED
      BY <3>1, <3>2 DEF SaidYes
  <2> QED
    BY <2>1, <2>2
<1> QED
  BY <1>3, <1>4, <1>5 DEF CardInv, ConsentIsToTheValue, SaidYes

\* The rows are as they were and nobody has taken anything back.
LEMMA SayingIsSafe ==
    ASSUME CardInv, term' = term, yes \subseteq yes', adopting' \subseteq Pair \X Slots \X Values,
           \A u \in Pair, s \in Slots, v \in Values :
               <<u, s, v>> \in adopting' => <<u, s, v>> \in adopting \/ SaidYes(u, s, v)'
    PROVE  CardInv'
<1>1. \A u \in Pair, s \in Slots, v \in Values : <<u, s, v>> \in adopting' => SaidYes(u, s, v)'
  BY SaidStays DEF CardInv
<1>2. ASSUME NEW s \in Slots, NEW u \in term[s].agreed PROVE SaidYes(u, s, term[s].value)'
  BY SaidStays, <1>2 DEF CardInv, ConsentIsToTheValue
<1> QED
  BY <1>1, <1>2 DEF CardInv, ConsentIsToTheValue, SaidYes

LEMMA CardStep ==
    ASSUME CardInv, [CardNext]_cardVars
    PROVE  CardInv'
<1>1. CASE UNCHANGED <<term, adopting, yes>>
  BY <1>1 DEF CardInv, ConsentIsToTheValue, SaidYes
<1>2. ASSUME NEW u \in Pair, NEW s \in Slots, NEW v \in Terms, NEW cents \in Amounts, SetTerm(u, s, v, cents)
      PROVE  CardInv'
  <2>1. /\ term' = [term EXCEPT ![s] = [value |-> v, cents |-> cents, agreed |-> {u}]]
        /\ yes' = yes \cup {<<u, s, v, cents>>} /\ adopting' = adopting
    BY <1>2 DEF SetTerm, Agreed
  <2>2. /\ yes \subseteq yes' /\ {u} \in SUBSET Pair
        /\ \A w \in {u} : <<w, s, v, cents>> \in yes'
    BY <2>1
  <2> QED
    BY <2>1, <2>2, ProposingIsSafe
<1>3. ASSUME NEW s \in Slots, NEW v \in Terms, NEW cents \in Amounts, SuggestTerm(s, v, cents) PROVE CardInv'
  <2>1. /\ term' = [term EXCEPT ![s] = [value |-> v, cents |-> cents, agreed |-> {}]]
        /\ UNCHANGED <<yes, adopting>>
    BY <1>3 DEF SuggestTerm, Agreed
  <2>2. /\ yes \subseteq yes' /\ {} \in SUBSET Pair
        /\ \A w \in {} : <<w, s, v, cents>> \in yes'
    BY <2>1
  <2> QED
    BY <2>1, <2>2, ProposingIsSafe
<1>4. ASSUME NEW u \in Pair, NEW s \in Slots, SendAdoption(u, s) PROVE CardInv'
  <2>1. term[s].value \in Values /\ term[s].cents \in Amounts
    BY DEF CardInv, TermRows
  <2>2. /\ term' = term /\ adopting' = adopting \cup {<<u, s, term[s].value>>}
        /\ yes' = yes \cup {<<u, s, term[s].value, term[s].cents>>}
    BY <1>4 DEF SendAdoption
  <2>3. SaidYes(u, s, term[s].value)'
    BY <2>1, <2>2 DEF SaidYes
  <2>4. adopting' \subseteq Pair \X Slots \X Values
    BY <2>1, <2>2 DEF CardInv
  <2> QED
    BY <2>2, <2>3, <2>4, SayingIsSafe
<1>5. ASSUME NEW asked \in adopting, AdoptTerm(asked) PROVE CardInv'
  <2>1. PICK u \in Pair, s \in Slots, v \in Values : asked = <<u, s, v>>
    BY DEF CardInv
  <2>2. SaidYes(u, s, v) /\ asked[1] = u /\ asked[2] = s /\ asked[3] = v
    BY <2>1 DEF CardInv
  <2>3. adopting' \subseteq adopting /\ UNCHANGED yes
    BY <1>5 DEF AdoptTerm
  <2>4. CASE term[s].value # v
    <3>1. UNCHANGED term
      BY <1>5, <2>2, <2>4 DEF AdoptTerm, Expects
    <3>2. adopting' \subseteq Pair \X Slots \X Values
      BY <2>3 DEF CardInv
    <3> QED
      BY <2>3, <3>1, <3>2, SayingIsSafe
  <2>5. CASE term[s].value = v
    <3>1. term' = [term EXCEPT ![s].agreed = @ \cup {u}]
      BY <1>5, <2>2, <2>5 DEF AdoptTerm, Expects
    <3>2. /\ term'[s].value = v /\ term'[s].agreed = term[s].agreed \cup {u}
          /\ \A t \in Slots \ {s} : term'[t] = term[t]
          /\ term' \in [Slots -> TermRows]
      BY <2>5, <3>1 DEF CardInv, TermRows
    <3>3. ASSUME NEW t \in Slots, NEW w \in term'[t].agreed PROVE SaidYes(w, t, term'[t].value)
      <4>1. CASE t = s /\ w = u
        BY <2>2, <3>2, <4>1
      <4>2. CASE t = s /\ w # u
        BY <2>5, <3>2, <3>3, <4>2 DEF CardInv, ConsentIsToTheValue
      <4>3. CASE t # s
        BY <3>2, <3>3, <4>3 DEF CardInv, ConsentIsToTheValue
      <4> QED
        BY <4>1, <4>2, <4>3
    <3>4. ConsentIsToTheValue'
      BY <2>3, <3>3 DEF ConsentIsToTheValue, SaidYes
    <3>5. \A w \in Pair, t \in Slots, x \in Values : <<w, t, x>> \in adopting' => SaidYes(w, t, x)'
      BY <2>3 DEF CardInv, SaidYes
    <3> QED
      BY <2>3, <3>2, <3>4, <3>5 DEF CardInv
  <2> QED
    BY <2>4, <2>5
<1> QED
  BY <1>1, <1>2, <1>3, <1>4, <1>5
  DEF CardNext, EnsureForConversation, BeginSettle, FinishSettle, cardVars

-----------------------------------------------------------------------------
(* Price discovery: two limits resolve under the lock of the session.      *)

Stated == Limits \cup {-1}

DiscoveryInv ==
    /\ session \in [status : {"none", "proposed", "open", "declined", "matched", "no_deal"},
                    cents : Int]
    /\ limit \in [Pair -> Stated]
    /\ stating \in [Pair -> [stage : {"none", "sent", "locked"}, cents : Stated]]
    /\ \A u \in Pair : stating[u].stage = "locked" =>
          /\ session.status = "open" /\ stating[u].cents \in Limits
          /\ \A v \in Pair \ {u} : stating[v].stage # "locked"
    /\ \A u \in Pair : stating[u].stage = "sent" => stating[u].cents \in Limits
    /\ session.status \in {"none", "proposed"} => \A u \in Pair : limit[u] = -1
    /\ LimitsResolve

LEMMA TheOther == \A u \in Pair : Other(u) \in Pair /\ Other(u) # u /\ Pair = {u, Other(u)}
<1>1. \A u \in Pair : \E v \in Pair : v # u
  BY PairAssumption DEF Pair
<1>2. \A u \in Pair : Other(u) \in Pair /\ Other(u) # u
  BY <1>1 DEF Other
<1> QED
  BY <1>2 DEF Pair

\* A price lies between two limits that meet, and -1 is no limit.
LEMMA PriceIsBetween ==
    ASSUME NEW most \in Limits, NEW least \in Limits
    PROVE  /\ most >= least => /\ Cleared(most, least) \in Nat
                               /\ least <= Cleared(most, least) /\ Cleared(most, least) <= most
           /\ most < least => Cleared(most, least) = -1
<1>1. most \in Nat /\ least \in Nat
  BY LimitsAssumption
<1>2. CASE most >= least
  <2>1. Cleared(most, least) = (most + least) \div 2
    BY <1>2 DEF Cleared
  <2>2. /\ (most + least) \div 2 \in Nat
        /\ least <= (most + least) \div 2 /\ (most + least) \div 2 <= most
    BY <1>1, <1>2
  <2> QED
    BY <1>1, <1>2, <2>1, <2>2
<1>3. CASE ~(most >= least)
  BY <1>1, <1>3 DEF Cleared
<1> QED
  BY <1>2, <1>3

LEMMA StateLimitIsSafe ==
    ASSUME DiscoveryInv, NEW u \in Pair, StateLimit(u)
    PROVE  DiscoveryInv'
<1>1. /\ stating[u].cents \in Limits /\ session.status = "open"
      /\ \A v \in Pair \ {u} : stating[v].stage # "locked"
  BY DEF StateLimit, DiscoveryInv
<1>2. /\ limit'[u] \in Limits /\ \A v \in Pair \ {u} : limit'[v] = limit[v]
      /\ limit' \in [Pair -> Stated]
  BY <1>1 DEF StateLimit, DiscoveryInv, Stated
<1>3. /\ stating' \in [Pair -> [stage : {"none", "sent", "locked"}, cents : Stated]]
      /\ stating'[u].stage = "none" /\ \A v \in Pair \ {u} : stating'[v] = stating[v]
  <2>1. NothingStated \in [stage : {"none", "sent", "locked"}, cents : Stated]
        /\ NothingStated.stage = "none"
    BY DEF NothingStated, Stated
  <2> QED
    BY <2>1 DEF StateLimit, DiscoveryInv
<1>4. \A v \in Pair : stating'[v].stage # "locked"
  BY <1>1, <1>3
<1>5. \A v \in Pair : stating'[v].stage = "sent" => stating'[v].cents \in Limits
  BY <1>3 DEF DiscoveryInv
<1>6. CASE \E v \in Pair : limit'[v] = -1
  <2>1. UNCHANGED session
    BY <1>6 DEF StateLimit
  <2> QED
    BY <1>1, <1>2, <1>3, <1>4, <1>5, <1>6, <2>1 DEF DiscoveryInv, LimitsResolve
<1>7. CASE ~\E v \in Pair : limit'[v] = -1
  <2> DEFINE price == Cleared(limit'[Buyer], limit'[Seller])
             status == IF price = -1 THEN "no_deal" ELSE "matched"
  <2>1. session' = [status |-> status, cents |-> price]
    BY <1>7 DEF StateLimit
  <2>2. limit'[Buyer] \in Limits /\ limit'[Seller] \in Limits
    BY <1>2, <1>7 DEF Pair, Stated
  <2>3. /\ price \in Int
        /\ price # -1 => limit'[Seller] <= price /\ price <= limit'[Buyer]
    <3>1. limit'[Buyer] \in Nat /\ limit'[Seller] \in Nat
      BY <2>2, LimitsAssumption
    <3>2. CASE limit'[Buyer] >= limit'[Seller]
      BY <2>2, <3>2, PriceIsBetween
    <3>3. CASE limit'[Buyer] < limit'[Seller]
      BY <2>2, <3>3, PriceIsBetween
    <3> QED
      BY <3>1, <3>2, <3>3
  <2>5. status \in {"no_deal", "matched"} /\ (status = "matched" => price # -1)
    OBVIOUS
  <2> HIDE DEF price, status
  <2>4. /\ session'.cents = price
        /\ session'.status \in {"no_deal", "matched"}
        /\ session'.status = "matched" => price # -1
        /\ session' \in [status : {"none", "proposed", "open", "declined", "matched", "no_deal"},
                         cents : Int]
    BY <2>1, <2>3, <2>5
  <2>6. LimitsResolve'
    BY <1>7, <2>3, <2>4 DEF LimitsResolve
  <2> QED
    BY <1>2, <1>3, <1>4, <1>5, <2>4, <2>6 DEF DiscoveryInv
<1> QED
  BY <1>6, <1>7

LEMMA LockSessionIsSafe ==
    ASSUME DiscoveryInv, NEW u \in Pair, LockSession(u)
    PROVE  DiscoveryInv'
<1>1. stating[u].cents \in Limits /\ limit[u] \in Stated /\ stating[Other(u)].stage # "locked"
  BY DEF LockSession, MayLock, DiscoveryInv
<1> DEFINE cents == IF limit[u] = -1 THEN stating[u].cents ELSE limit[u]
           new == IF Available /\ session.status = "open"
                  THEN [stage |-> "locked", cents |-> cents] ELSE NothingStated
<1>5. stating' = [stating EXCEPT ![u] = new]
  BY DEF LockSession, DiscoveryInv
<1>6. cents \in Limits
  BY <1>1 DEF Stated
<1> HIDE DEF cents
<1>2. /\ new \in [stage : {"none", "sent", "locked"}, cents : Stated]
      /\ new.stage \in {"none", "locked"}
      /\ new.stage = "locked" => session.status = "open" /\ new.cents \in Limits
  <2>1. CASE Available /\ session.status = "open"
    <3>1. new = [stage |-> "locked", cents |-> cents]
      BY <2>1
    <3> HIDE DEF new
    <3> QED
      BY <1>6, <2>1, <3>1 DEF Stated
  <2>2. CASE ~(Available /\ session.status = "open")
    <3>1. new = [stage |-> "none", cents |-> -1]
      BY <2>2 DEF NothingStated
    <3> HIDE DEF new
    <3> QED
      BY <3>1 DEF Stated
  <2> QED
    BY <2>1, <2>2
<1> HIDE DEF new
<1>3. /\ stating' \in [Pair -> [stage : {"none", "sent", "locked"}, cents : Stated]]
      /\ stating'[u] = new /\ \A v \in Pair \ {u} : stating'[v] = stating[v]
  BY <1>2, <1>5 DEF DiscoveryInv
<1>4. \A v \in Pair \ {u} : stating[v].stage # "locked"
  BY <1>1, TheOther
<1> QED
  BY <1>2, <1>3, <1>4 DEF LockSession, DiscoveryInv, LimitsResolve

LEMMA DiscoveryStep ==
    ASSUME DiscoveryInv, [DiscoveryNext]_discoveryVars
    PROVE  DiscoveryInv'
<1>1. CASE UNCHANGED <<session, limit, stating>>
  BY <1>1 DEF DiscoveryInv, LimitsResolve
\* The parties' words about the session, while nobody has it locked.
<1>2. ASSUME NEW s \in {"proposed", "open", "declined"}, session' = [session EXCEPT !.status = s],
             UNCHANGED <<limit, stating>>, \A u \in Pair : stating[u].stage # "locked",
             s # "declined" => session.status \in {"none", "proposed"}
      PROVE  DiscoveryInv'
  <2>1. /\ session'.status = s
        /\ session' \in [status : {"none", "proposed", "open", "declined", "matched", "no_deal"},
                         cents : Int]
    BY <1>2 DEF DiscoveryInv
  <2>2. Buyer \in Pair
    BY DEF Pair
  <2> QED
    BY <1>2, <2>1, <2>2 DEF DiscoveryInv, LimitsResolve
<1>3. CASE Propose
  <2>1. \A u \in Pair : stating[u].stage # "locked"
    BY <1>3 DEF Propose, DiscoveryInv
  <2> QED
    BY <1>2, <1>3, <2>1 DEF Propose
<1>4. CASE Accept
  BY <1>2, <1>4 DEF Accept
<1>5. CASE Decline
  BY <1>2, <1>5 DEF Decline
<1>6. ASSUME NEW u \in Pair, NEW cents \in Limits, SendLimit(u, cents) PROVE DiscoveryInv'
  <2> DEFINE new == [stage |-> "sent", cents |-> cents]
  <2>1. /\ new \in [stage : {"none", "sent", "locked"}, cents : Stated]
        /\ new.stage = "sent" /\ new.cents \in Limits
    BY DEF Stated
  <2>3. stating' = [stating EXCEPT ![u] = new]
    BY <1>6 DEF SendLimit
  <2> HIDE DEF new
  <2>2. /\ stating' \in [Pair -> [stage : {"none", "sent", "locked"}, cents : Stated]]
        /\ stating'[u] = new /\ \A v \in Pair \ {u} : stating'[v] = stating[v]
    BY <2>1, <2>3 DEF DiscoveryInv
  <2> QED
    BY <1>6, <2>1, <2>2 DEF SendLimit, DiscoveryInv, LimitsResolve
<1> QED
  BY <1>1, <1>3, <1>4, <1>5, <1>6, StateLimitIsSafe, LockSessionIsSafe
  DEF DiscoveryNext, ListingChanges, discoveryVars

LEMMA DealingInitially == DealingInit => CardInv /\ DiscoveryInv
<1> SUFFICES ASSUME DealingInit PROVE CardInv /\ DiscoveryInv
  OBVIOUS
<1>1. CardInv
  BY AmountsAssumption DEF DealingInit, CardInv, ConsentIsToTheValue, NoTerm, Values, TermRows, SaidYes
<1>2. DiscoveryInv
  BY DEF DealingInit, DiscoveryInv, LimitsResolve, NothingStated, Stated, Pair
<1> QED
  BY <1>1, <1>2

\* However late an adoption arrives and however often the terms change, nobody
\* stands behind a value he has not said yes to (agreement.rs); and two limits,
\* stated at once or one after the other, end in a price both would take or in
\* no deal (price_discovery.rs).
THEOREM TermsStayHonoured == DealingSpec => []TermsAreHonoured
<1>1. CardInv /\ DiscoveryInv /\ [DealingNext]_dealingVars => (CardInv /\ DiscoveryInv)'
  <2> SUFFICES ASSUME CardInv, DiscoveryInv, [DealingNext]_dealingVars
               PROVE  (CardInv /\ DiscoveryInv)'
    OBVIOUS
  <2>1. [CardNext]_cardVars /\ [DiscoveryNext]_discoveryVars
    BY DEF DealingNext, dealingVars
  <2> QED
    BY <2>1, CardStep, DiscoveryStep
<1>2. CardInv /\ DiscoveryInv => TermsAreHonoured
  BY DEF CardInv, DiscoveryInv, TermsAreHonoured
<1> QED
  BY <1>1, <1>2, DealingInitially, PTL DEF DealingSpec

-----------------------------------------------------------------------------
(* Intents: consent comes before anything is done, and windows that meet   *)
(* leave room for both sides.                                              *)

\* What is read out of words, whole or in part, is a statement whose exact
\* price is one amount.
Sound(s) ==
    /\ s \in Statement
    /\ s.exact => s.price.from = s.price.to

WishRow == [status : {"none", "draft", "active", "fulfilled", "withdrawn", "expired"},
            said : Statement \cup {NoWish.said}]

WishInv ==
    /\ wish \in [Wishes -> WishRow]
    /\ \A i \in Wishes : ~Unborn(i) => Sound(wish[i].said)
    /\ \A i \in Wishes : wish[i].status = "active" => i \in confirmed
    /\ mirroring \cup mirrored \subseteq confirmed
    /\ answering \in [Answerers -> [stage : {"idle", "read", "opened"}, wish : Wishes \cup {"none"}]]
    /\ \A u \in Answerers : answering[u].stage # "idle" => answering[u].wish \in confirmed
    /\ \A u \in Answerers, i \in Wishes : <<u, i>> \in opened \cup answers => i \in confirmed

LEMMA AnythingIsAWindow == Anything \in Window /\ Anything.from = Anything.to
BY StatementsAssumption DEF Anything, Window, Unstated

LEMMA StatementsAreSound == \A s \in Statements : Sound(s)
BY StatementsAssumption DEF Sound

\* What the server makes of a statement is one as well.
LEMMA DraftedIsSound == ASSUME NEW s, Sound(s) PROVE Sound(Drafted(s))
<1> DEFINE d == Drafted(s)
<1>1. s \in Statement /\ s.kind \in {"offer", "seek", "people"} /\ s.exact \in BOOLEAN
      /\ s.price \in Window /\ s.time \in Window
  BY DEF Sound, Statement
<1>2. d = [s EXCEPT !.ends = FALSE, !.shown = TRUE]
  BY DEF Drafted
<1>3. d \in Statement
  BY <1>1, <1>2 DEF Statement
<1>4. d.price = s.price /\ d.time = s.time
  BY <1>1, <1>2 DEF Statement
<1>5. d.exact = s.exact
  BY <1>1, <1>2 DEF Statement
<1> HIDE DEF d
<1>6. Sound(d)
  BY <1>3, <1>4, <1>5 DEF Sound
<1> QED
  BY <1>6 DEF d

LEMMA WithoutTimeIsSound ==
    ASSUME NEW s, Sound(s) PROVE Sound([s EXCEPT !.time = Anything])
<1> DEFINE d == [s EXCEPT !.time = Anything]
<1>1. s \in Statement
  BY DEF Sound
<1>3. d \in Statement
  BY <1>1, AnythingIsAWindow DEF Statement
<1>4. d.price = s.price /\ d.time = Anything
  BY <1>1 DEF Statement
<1>5. d.exact = s.exact
  BY <1>1 DEF Statement
<1> HIDE DEF d
<1>6. Sound(d)
  BY <1>3, <1>4, <1>5, AnythingIsAWindow DEF Sound
<1> QED
  BY <1>6 DEF d

LEMMA TypedIsSound ==
    ASSUME NEW kind \in {"offer", "seek", "people"} PROVE Sound(AsTyped(kind))
<1> DEFINE d == AsTyped(kind)
<1>1. d \in Statement
  BY AnythingIsAWindow DEF AsTyped, Statement
<1>2. d.price = Anything /\ d.time = Anything
  BY DEF AsTyped
<1> HIDE DEF d
<1>3. Sound(d)
  BY <1>1, <1>2, AnythingIsAWindow DEF Sound
<1> QED
  BY <1>3 DEF d

\* Rows may come and change as long as what is born is sound and what is live
\* has its author's word.
LEMMA RowsAreSafe ==
    ASSUME WishInv, wish' \in [Wishes -> WishRow], confirmed \subseteq confirmed',
           \A i \in Wishes : wish'[i].status # "none" => Sound(wish'[i].said),
           \A i \in Wishes : wish'[i].status = "active" => i \in confirmed',
           mirroring' \subseteq confirmed', mirrored' \subseteq mirrored \cup mirroring,
           UNCHANGED <<answering, answers, opened>>
    PROVE  WishInv'
BY DEF WishInv, Unborn

LEMMA BirthIsSafe ==
    ASSUME WishInv, NEW batch \in SUBSET Wishes, NEW s, Sound(s),
           NEW status \in {"draft", "active"}, status = "active" => batch \subseteq confirmed',
           wish' = [i \in Wishes |-> IF i \in batch THEN [status |-> status, said |-> s] ELSE wish[i]],
           confirmed \subseteq confirmed', mirroring' \subseteq confirmed',
           UNCHANGED <<mirrored, answering, answers, opened>>
    PROVE  WishInv'
<1> DEFINE new == [status |-> status, said |-> s]
<1>1. new \in WishRow /\ new.status = status /\ new.said = s
  BY DEF WishRow, Sound
<1>2. wish' = [i \in Wishes |-> IF i \in batch THEN new ELSE wish[i]]
  OBVIOUS
<1> HIDE DEF new
<1>3. wish' \in [Wishes -> WishRow]
  BY <1>1, <1>2 DEF WishInv
<1>4. \A i \in Wishes : wish'[i].status # "none" => Sound(wish'[i].said)
  BY <1>1, <1>2 DEF WishInv, Unborn
<1>5. \A i \in Wishes : wish'[i].status = "active" => i \in confirmed'
  BY <1>1, <1>2 DEF WishInv
<1> QED
  BY <1>3, <1>4, <1>5, RowsAreSafe

LEMMA CreateIsSafe ==
    ASSUME WishInv, NEW i \in Wishes, NEW s, Sound(s), CreateActive(i, s),
           mirroring' \subseteq mirroring \cup {i}
    PROVE  WishInv'
<1>1. wish' = [j \in Wishes |-> IF j \in {i} THEN [status |-> "active", said |-> s] ELSE wish[j]]
  BY DEF CreateActive, WishInv
<1>2. /\ confirmed \subseteq confirmed' /\ mirroring' \subseteq confirmed' /\ {i} \subseteq confirmed'
      /\ UNCHANGED <<mirrored, answering, answers, opened>>
  BY DEF CreateActive, WishInv
<1> QED
  BY <1>1, <1>2, BirthIsSafe

LEMMA DraftsAreSafe ==
    ASSUME WishInv, NEW batch \in SUBSET Wishes, NEW s, Sound(s), CreateDraftBatch(batch, s)
    PROVE  WishInv'
<1>1. wish' = [i \in Wishes |-> IF i \in batch THEN [status |-> "draft", said |-> s] ELSE wish[i]]
  BY DEF CreateDraftBatch, Born
<1>2. /\ confirmed \subseteq confirmed' /\ mirroring' \subseteq confirmed'
      /\ UNCHANGED <<mirrored, answering, answers, opened>>
  BY DEF CreateDraftBatch, WishInv
<1> QED
  BY <1>1, <1>2, BirthIsSafe

LEMMA BecomesIsSafe ==
    ASSUME WishInv, NEW i \in Wishes, NEW before \in SUBSET {"draft", "active"},
           NEW status \in {"active", "fulfilled", "withdrawn"}, Becomes(i, before, status),
           confirmed \subseteq confirmed', status = "active" => i \in confirmed'
    PROVE  WishInv'
<1> DEFINE new == [wish[i] EXCEPT !.status = status]
<1>1. wish[i] \in WishRow /\ wish[i].status # "none"
  BY DEF Becomes, WishInv
<1>2. new \in WishRow /\ new.status = status /\ new.said = wish[i].said
  BY <1>1 DEF WishRow
<1>3. wish' = [wish EXCEPT ![i] = new] /\ UNCHANGED <<mirroring, mirrored, answering, answers, opened>>
  BY <1>1 DEF Becomes, WishInv, WishRow
<1> HIDE DEF new
<1>4. wish' \in [Wishes -> WishRow] /\ wish'[i] = new
      /\ \A j \in Wishes \ {i} : wish'[j] = wish[j]
  BY <1>2, <1>3 DEF WishInv
<1>5. \A j \in Wishes : wish'[j].status # "none" => Sound(wish'[j].said)
  BY <1>1, <1>2, <1>4 DEF WishInv, Unborn
<1>6. \A j \in Wishes : wish'[j].status = "active" => j \in confirmed'
  BY <1>2, <1>4 DEF WishInv
<1>7. mirroring' \subseteq confirmed' /\ mirrored' \subseteq mirrored \cup mirroring
  BY <1>3 DEF WishInv
<1> QED
  BY <1>3, <1>4, <1>5, <1>6, <1>7, RowsAreSafe

LEMMA ExpiryIsSafe == ASSUME WishInv, ExpireDue PROVE WishInv'
<1> DEFINE new(i) == IF i \in OverdueWishes THEN [wish[i] EXCEPT !.status = "expired"] ELSE wish[i]
<1>1. \A i \in Wishes : new(i) \in WishRow /\ new(i).said = wish[i].said
                        /\ new(i).status \in {wish[i].status, "expired"}
                        /\ (new(i).status = "none" <=> wish[i].status = "none")
  <2> SUFFICES ASSUME NEW i \in Wishes PROVE
            new(i) \in WishRow /\ new(i).said = wish[i].said
                        /\ new(i).status \in {wish[i].status, "expired"}
                        /\ (new(i).status = "none" <=> wish[i].status = "none")
    OBVIOUS
  <2>1. wish[i] \in WishRow
    BY DEF WishInv
  <2>2. CASE i \in OverdueWishes
    <3>1. wish[i].status = "active"
      BY <2>2 DEF OverdueWishes
    <3>2. new(i) = [wish[i] EXCEPT !.status = "expired"]
      BY <2>2
    <3> HIDE DEF new
    <3> QED
      BY <2>1, <3>1, <3>2 DEF WishRow
  <2>3. CASE i \notin OverdueWishes
    BY <2>1, <2>3
  <2> QED
    BY <2>2, <2>3
<1>2. wish' = [i \in Wishes |-> new(i)]
  BY DEF ExpireDue
<1> HIDE DEF new
<1>3. wish' \in [Wishes -> WishRow]
  BY <1>1, <1>2
<1>4. \A i \in Wishes : wish'[i].status # "none" => Sound(wish'[i].said)
  BY <1>1, <1>2 DEF WishInv, Unborn
<1>5. \A i \in Wishes : wish'[i].status = "active" => i \in confirmed'
  BY <1>1, <1>2 DEF WishInv, ExpireDue
<1> QED
  BY <1>3, <1>4, <1>5, RowsAreSafe DEF ExpireDue, WishInv

\* An answer goes to an intent that was live when it was read; its author's
\* word is not taken back.
LEMMA AnsweringIsSafe ==
    ASSUME WishInv, NEW u \in Answerers,
           \/ OpenConversation(u) \/ RecordResponse(u) \/ \E i \in Wishes : ReadAuthor(u, i)
    PROVE  WishInv'
<1>1. ASSUME NEW new \in [stage : {"idle", "read", "opened"}, wish : Wishes \cup {"none"}],
             answering' = [answering EXCEPT ![u] = new],
             new.stage # "idle" => new.wish \in confirmed,
             UNCHANGED <<wish, mirroring, mirrored, confirmed>>,
             \/ UNCHANGED <<opened, answers>>
             \/ /\ answering[u].wish \in confirmed
                /\ opened' \cup answers' \subseteq opened \cup answers \cup {<<u, answering[u].wish>>}
      PROVE  WishInv'
  <2>1. /\ answering' \in [Answerers -> [stage : {"idle", "read", "opened"}, wish : Wishes \cup {"none"}]]
        /\ answering'[u] = new /\ \A v \in Answerers \ {u} : answering'[v] = answering[v]
    BY <1>1 DEF WishInv
  <2>2. \A v \in Answerers, i \in Wishes : <<v, i>> \in opened' \cup answers' => i \in confirmed
    BY <1>1 DEF WishInv
  <2>3. \A v \in Answerers : answering'[v].stage # "idle" => answering'[v].wish \in confirmed
    BY <1>1, <2>1 DEF WishInv
  <2> QED
    BY <1>1, <2>1, <2>2, <2>3 DEF WishInv, Unborn
<1>2. ASSUME NEW i \in Wishes, ReadAuthor(u, i) PROVE WishInv'
  <2> DEFINE new == [stage |-> "read", wish |-> i]
  <2>1. new \in [stage : {"idle", "read", "opened"}, wish : Wishes \cup {"none"}] /\ new.wish = i
    OBVIOUS
  <2>2. answering' = [answering EXCEPT ![u] = new] /\ i \in confirmed
        /\ UNCHANGED <<wish, mirroring, mirrored, confirmed, opened, answers>>
    BY <1>2 DEF ReadAuthor, Answerable, WishInv
  <2> HIDE DEF new
  <2> QED
    BY <1>1, <2>1, <2>2
<1>3. CASE OpenConversation(u)
  <2> DEFINE new == [answering[u] EXCEPT !.stage = "opened"]
  <2>1. answering[u] \in [stage : {"idle", "read", "opened"}, wish : Wishes \cup {"none"}]
        /\ answering[u].wish \in confirmed
    BY <1>3 DEF OpenConversation, WishInv
  <2>2. new \in [stage : {"idle", "read", "opened"}, wish : Wishes \cup {"none"}]
        /\ new.wish = answering[u].wish
    BY <2>1
  <2>3. answering' = [answering EXCEPT ![u] = new]
        /\ UNCHANGED <<wish, mirroring, mirrored, confirmed>>
        /\ opened' \cup answers' \subseteq opened \cup answers \cup {<<u, answering[u].wish>>}
    BY <1>3, <2>1 DEF OpenConversation, WishInv
  <2> HIDE DEF new
  <2> QED
    BY <1>1, <2>1, <2>2, <2>3
<1>4. CASE RecordResponse(u)
  <2>1. answering[u].wish \in confirmed
    BY <1>4 DEF RecordResponse, WishInv
  <2>2. NoResponse \in [stage : {"idle", "read", "opened"}, wish : Wishes \cup {"none"}]
        /\ NoResponse.stage = "idle"
    BY DEF NoResponse
  <2>3. answering' = [answering EXCEPT ![u] = NoResponse]
        /\ UNCHANGED <<wish, mirroring, mirrored, confirmed>>
        /\ opened' \cup answers' \subseteq opened \cup answers \cup {<<u, answering[u].wish>>}
    BY <1>4 DEF RecordResponse
  <2> QED
    BY <1>1, <2>1, <2>2, <2>3
<1> QED
  BY <1>2, <1>3, <1>4

LEMMA WishStep ==
    ASSUME WishInv, [WishNext]_wishVars
    PROVE  WishInv'
<1>1. ASSUME UNCHANGED <<wish, mirroring, mirrored, answering, answers, opened, confirmed>>
      PROVE  WishInv'
  BY <1>1 DEF WishInv, Unborn
<1>2. ASSUME NEW i \in Wishes, NEW s \in Statements, CreateIntent(i, s) PROVE WishInv'
  BY <1>2, StatementsAreSound, CreateIsSafe DEF CreateIntent
<1>3. ASSUME NEW i \in Wishes, Confirm(i) PROVE WishInv'
  <2>1. Becomes(i, {"draft"}, "active") /\ confirmed \subseteq confirmed' /\ i \in confirmed'
    BY <1>3 DEF Confirm
  <2> QED
    BY <2>1, BecomesIsSafe
<1>4. ASSUME NEW i \in Wishes, Fulfil(i) PROVE WishInv'
  BY <1>4, BecomesIsSafe DEF Fulfil
<1>5. ASSUME NEW i \in Wishes, Withdraw(i) PROVE WishInv'
  BY <1>5, BecomesIsSafe DEF Withdraw
<1>6. ASSUME NEW i \in Wishes, ProjectToListing(i) PROVE WishInv'
  <2>1. /\ UNCHANGED <<wish, answering, answers, opened, confirmed>>
        /\ mirroring' \subseteq mirroring /\ mirrored' \subseteq mirrored \cup mirroring
    BY <1>6 DEF ProjectToListing
  <2> QED
    BY <2>1 DEF WishInv, Unborn
<1>7. ASSUME NEW batch \in SUBSET Wishes, DecomposePhoto(batch) PROVE WishInv'
  <2>1. Sound(AsTyped("offer"))
    BY TypedIsSound
  <2>2. CASE CreateDraftBatch(batch, AsTyped("offer"))
    BY <2>1, <2>2, DraftsAreSafe
  <2>3. ASSUME NEW i \in batch, CreateActive(i, AsTyped("offer")), UNCHANGED mirroring
        PROVE  WishInv'
    BY <2>1, <2>3, CreateIsSafe
  <2> QED
    BY <1>7, <2>2, <2>3 DEF DecomposePhoto
<1>8. ASSUME NEW batch \in SUBSET Wishes, NEW s \in Statements, CreateDraftBatch(batch, Drafted(s))
      PROVE  WishInv'
  BY <1>8, StatementsAreSound, DraftedIsSound, DraftsAreSafe
<1>9. ASSUME NEW batch \in SUBSET Wishes, NEW s \in Statements, DecomposeIntent(batch, s)
      PROVE  WishInv'
  <2>1. Sound(Drafted([s EXCEPT !.time = Anything]))
    BY StatementsAreSound, WithoutTimeIsSound, DraftedIsSound
  <2>2. Sound(AsTyped(s.kind))
    <3>1. s.kind \in {"offer", "seek", "people"}
      BY StatementsAssumption DEF Statement
    <3> QED
      BY <3>1, TypedIsSound
  <2>3. CASE CreateDraftBatch(batch, Drafted([s EXCEPT !.time = Anything]))
    BY <2>1, <2>3, DraftsAreSafe
  <2>4. ASSUME NEW i \in batch, CreateIntent(i, AsTyped(s.kind)) PROVE WishInv'
    BY <2>2, <2>4, CreateIsSafe DEF CreateIntent
  <2> QED
    BY <1>9, <2>3, <2>4 DEF DecomposeIntent
<1> QED
  BY <1>1, <1>2, <1>3, <1>4, <1>5, <1>6, <1>7, <1>8, <1>9, ExpiryIsSafe, AnsweringIsSafe
  DEF WishNext, wishVars, MomentPasses

LEMMA WishInitially == WishInit => WishInv
<1> SUFFICES ASSUME WishInit PROVE WishInv
  OBVIOUS
<1>1. NoWish \in WishRow /\ NoWish.status = "none"
  BY DEF NoWish, WishRow
<1>2. NoResponse \in [stage : {"idle", "read", "opened"}, wish : Wishes \cup {"none"}]
      /\ NoResponse.stage = "idle"
  BY DEF NoResponse
<1> QED
  BY <1>1, <1>2 DEF WishInit, WishInv, Unborn

\* Two windows that meet have a moment in common: the later of the two
\* beginnings or, without one, the earlier of the two ends.
LEMMA MeetingWindowsShare ==
    ASSUME NEW a \in Window, NEW b \in Window, Forwards(a), Forwards(b), Meet(a, b)
    PROVE  \E hour \in 0..MaxAmount : Within(hour, a) /\ Within(hour, b)
<1>1. /\ MaxAmount \in Nat
      /\ a.from \in -1..MaxAmount /\ a.to \in -1..MaxAmount
      /\ b.from \in -1..MaxAmount /\ b.to \in -1..MaxAmount
  BY StatementsAssumption DEF Window
<1>2. CASE a.from # -1 \/ b.from # -1
  <2> DEFINE hour == IF a.from >= b.from THEN a.from ELSE b.from
  <2>1. hour \in 0..MaxAmount /\ Within(hour, a) /\ Within(hour, b)
    BY <1>1, <1>2 DEF Within, Forwards, Meet
  <2> HIDE DEF hour
  <2> QED
    BY <2>1
<1>3. CASE a.from = -1 /\ b.from = -1
  <2> DEFINE hour == IF a.to = -1 THEN IF b.to = -1 THEN 0 ELSE b.to
                     ELSE IF b.to = -1 \/ a.to <= b.to THEN a.to ELSE b.to
  <2>1. hour \in 0..MaxAmount /\ Within(hour, a) /\ Within(hour, b)
    BY <1>1, <1>3 DEF Within, Forwards, Meet
  <2> HIDE DEF hour
  <2> QED
    BY <2>1
<1> QED
  BY <1>2, <1>3

\* The nominal price lies in the window it was made from.
LEMMA NominalIsWithin ==
    ASSUME NEW p \in Window, Forwards(p)
    PROVE  /\ Nominal(p) = -1 => p.from = -1 /\ p.to = -1
           /\ Nominal(p) # -1 => Nominal(p) \in 0..MaxAmount /\ Within(Nominal(p), p)
<1>1. MaxAmount \in Nat /\ p.from \in -1..MaxAmount /\ p.to \in -1..MaxAmount
  BY StatementsAssumption DEF Window
<1>2. CASE p.from # -1 /\ p.to # -1
  <2>1. Nominal(p) = (p.from + p.to) \div 2 /\ p.from <= p.to
    BY <1>2 DEF Nominal, Forwards
  <2>2. p.from <= (p.from + p.to) \div 2 /\ (p.from + p.to) \div 2 <= p.to
        /\ (p.from + p.to) \div 2 \in Int
    BY <1>1, <2>1
  <2> QED
    BY <1>1, <1>2, <2>1, <2>2 DEF Within
<1>3. CASE ~(p.from # -1 /\ p.to # -1)
  BY <1>1, <1>3 DEF Nominal, Within
<1> QED
  BY <1>2, <1>3

\* A price that is admitted leaves room for both.
LEMMA AdmittedPricesShare ==
    ASSUME NEW mine, NEW other, Sound(mine), Sound(other),
           Nominal(other.price) = -1 \/ AdmitsPrice(mine, Nominal(other.price)),
           Forwards(mine.price), Forwards(other.price)
    PROVE  PriceIsPossible(mine, other)
<1> DEFINE budget == IF mine.exact THEN [mine.price EXCEPT !.from = -1] ELSE mine.price
<1> SUFFICES \E cents \in 0..MaxAmount : Within(cents, budget) /\ Within(cents, other.price)
  BY DEF PriceIsPossible
<1>1. mine.price \in Window /\ other.price \in Window
  BY DEF Sound, Statement
<1>2. /\ MaxAmount \in Nat
      /\ mine.price.from \in -1..MaxAmount /\ mine.price.to \in -1..MaxAmount
  BY <1>1, StatementsAssumption DEF Window
<1>3. budget.to = mine.price.to /\ budget.from \in {-1, mine.price.from}
      /\ (mine.exact => budget.from = -1) /\ (~mine.exact => budget.from = mine.price.from)
  BY <1>1 DEF Window
<1> HIDE DEF budget
<1>4. CASE Nominal(other.price) = -1
  <2>1. \A cents \in 0..MaxAmount : Within(cents, other.price)
    BY <1>1, <1>4, NominalIsWithin DEF Within
  <2>2. \E cents \in 0..MaxAmount : Within(cents, budget)
    <3>1. CASE budget.from # -1
      <4>1. budget.from \in 0..MaxAmount /\ Within(budget.from, budget)
        BY <1>1, <1>2, <1>3, <3>1 DEF Within, Forwards
      <4> QED
        BY <4>1
    <3>2. CASE budget.from = -1 /\ budget.to # -1
      <4>1. budget.to \in 0..MaxAmount /\ Within(budget.to, budget)
        BY <1>2, <1>3, <3>2 DEF Within
      <4> QED
        BY <4>1
    <3>3. CASE budget.from = -1 /\ budget.to = -1
      <4>1. 0 \in 0..MaxAmount /\ Within(0, budget)
        BY <1>2, <3>3 DEF Within
      <4> QED
        BY <4>1
    <3> QED
      BY <3>1, <3>2, <3>3
  <2> QED
    BY <2>1, <2>2
<1>5. CASE Nominal(other.price) # -1
  <2> DEFINE cents == Nominal(other.price)
  <2>1. cents \in 0..MaxAmount /\ Within(cents, other.price) /\ AdmitsPrice(mine, cents)
    BY <1>1, <1>5, NominalIsWithin
  <2> HIDE DEF cents
  <2>2. Within(cents, budget)
    BY <1>2, <1>3, <2>1 DEF Within, AdmitsPrice
  <2> QED
    BY <2>1, <2>2
<1> QED
  BY <1>4, <1>5

LEMMA MatchesLeaveRoom == WishInv => MatchesArePossible
<1> SUFFICES ASSUME WishInv, NEW i \in Wishes, NEW j \in Matches(i)
             PROVE  LET mine == Constraint(i, j)
                        other == Offered(i, j)
                    IN /\ Forwards(mine.price) /\ Forwards(other.price) => PriceIsPossible(mine, other)
                       /\ Forwards(mine.time) /\ Forwards(other.time) => TimeIsPossible(mine, other)
  BY DEF MatchesArePossible
<1> DEFINE mine == Constraint(i, j)
           other == Offered(i, j)
<1>1. j \in Wishes /\ ~Unborn(i) /\ ~Unborn(j) /\ CompatibleWith(mine, other)
  BY DEF Matches, Pool, Answerable, Unborn
<1>2. Sound(mine) /\ Sound(other)
  BY <1>1 DEF WishInv, Constraint, Offered
<1> HIDE DEF mine, other
<1>3. ASSUME Forwards(mine.price), Forwards(other.price) PROVE PriceIsPossible(mine, other)
  BY <1>1, <1>2, <1>3, AdmittedPricesShare DEF CompatibleWith
<1>4. ASSUME Forwards(mine.time), Forwards(other.time) PROVE TimeIsPossible(mine, other)
  <2>1. mine.time \in Window /\ other.time \in Window /\ Meet(mine.time, other.time)
    BY <1>1, <1>2 DEF Sound, Statement, CompatibleWith
  <2> QED
    BY <1>4, <2>1, MeetingWindowsShare DEF TimeIsPossible
<1> QED
  BY <1>3, <1>4 DEF mine, other

LEMMA ConsentComesFirst == WishInv => InferredNeedsConsent
BY DEF WishInv, InferredNeedsConsent, Matches, Pool, Answerable

\* No draft reaches anybody before its author has said so, whoever reads,
\* mirrors or answers it meanwhile, and a match leaves a price and a time that
\* both sides have room for (services/intent).
THEOREM WishesStayRespected == WishSpec => []WishesAreRespected
<1>1. WishInv => WishesAreRespected
  BY MatchesLeaveRoom, ConsentComesFirst DEF WishesAreRespected
<1> QED
  BY <1>1, WishInitially, WishStep, PTL DEF WishSpec

-----------------------------------------------------------------------------
(* Publications: a key belongs to one post, and keeps it.                  *)

PostFields == {"status", "key", "content", "replies"}
Publication == [stage : {"idle", "checked", "done"}, key : PostKeys \cup {"none"},
                content : Contents \cup {"none"}, offer : BOOLEAN, answer : Topics \cup {"none"}]

PostInv ==
    /\ DOMAIN post = Topics /\ \A p \in Topics : DOMAIN post[p] = PostFields
    /\ request \in [Requests -> Publication]
    /\ \A p, s \in Topics : post[p].key # "none" /\ post[p].key = post[s].key => p = s
    /\ \A q \in Requests : request[q].answer # "none" =>
          LET p == request[q].answer
          IN  /\ post[p].status # "none"
              /\ post[p].key = request[q].key /\ post[p].content = request[q].content

\* Posts live on under their keys, whatever becomes of them.
LEMMA PostsStay ==
    ASSUME PostInv, DOMAIN post' = Topics, UNCHANGED request,
           \A p \in Topics : /\ DOMAIN post'[p] = PostFields
                             /\ post'[p].key = post[p].key /\ post'[p].content = post[p].content
                             /\ post[p].status # "none" => post'[p].status # "none"
    PROVE  PostInv'
<1>1. \A q \in Requests : request[q].answer # "none" => request[q].answer \in Topics
  BY DEF PostInv, Publication
<1> QED
  BY <1>1 DEF PostInv

\* A request is answered, or goes on, by itself.
LEMMA RequestsGoOn ==
    ASSUME PostInv, NEW id \in Requests, NEW new \in Publication,
           request' = [request EXCEPT ![id] = new], UNCHANGED post,
           new.answer # "none" => /\ post[new.answer].status # "none"
                                  /\ post[new.answer].key = new.key
                                  /\ post[new.answer].content = new.content
    PROVE  PostInv'
BY DEF PostInv

\* Whoever repeats a request is answered with the post it made or refused.
LEMMA RepliesFit ==
    ASSUME PostInv, NEW id \in Requests, NEW k \in PostKeys \cup {"none"},
           NEW c \in Contents \cup {"none"}, NEW o \in BOOLEAN,
           Replayed([id |-> id, key |-> k, content |-> c, offer |-> o]), UNCHANGED post
    PROVE  PostInv'
<1>1. PICK p \in OfKey(k) :
        request' = [request EXCEPT ![id] =
            [stage |-> "done", key |-> k, content |-> c, offer |-> o,
             answer |-> IF post[p].content = c /\ Visible(p) THEN p ELSE "none"]]
  BY DEF Replayed
<1> DEFINE answer == IF post[p].content = c /\ Visible(p) THEN p ELSE "none"
           new == [stage |-> "done", key |-> k, content |-> c, offer |-> o, answer |-> answer]
<1>2. p \in Topics /\ post[p].key = k
  BY DEF OfKey
<1>3. answer # "none" => answer = p /\ post[p].content = c /\ post[p].status # "none"
  BY DEF Visible
<1>4. answer \in Topics \cup {"none"}
  BY <1>2
<1> HIDE DEF answer
<1>5. new \in Publication /\ new.answer = answer /\ new.key = k /\ new.content = c
  BY <1>4 DEF Publication
<1>6. request' = [request EXCEPT ![id] = new]
  BY <1>1 DEF answer
<1> HIDE DEF new
<1> QED
  BY <1>2, <1>3, <1>5, <1>6, RequestsGoOn

LEMMA BeginIsHonest ==
    ASSUME PostInv, NEW id \in Requests, NEW k \in PostKeys \cup {"none"},
           NEW c \in Contents \cup {"none"}, NEW o \in BOOLEAN, BeginPublish(id, k, c, o)
    PROVE  PostInv'
<1>1. CASE OfKey(k) # {}
  BY <1>1, RepliesFit DEF BeginPublish
<1>2. CASE OfKey(k) = {}
  <2> DEFINE new == [stage |-> "checked", key |-> k, content |-> c, offer |-> o, answer |-> "none"]
  <2>1. new \in Publication /\ new.answer = "none"
    BY DEF Publication
  <2>2. request' = [request EXCEPT ![id] = new] /\ UNCHANGED post
    BY <1>2 DEF BeginPublish
  <2> HIDE DEF new
  <2> QED
    BY <2>1, <2>2, RequestsGoOn
<1> QED
  BY <1>1, <1>2

LEMMA InsertIsHonest ==
    ASSUME PostInv, NEW id \in Requests, NEW p \in Topics, InsertPost(id, p)
    PROVE  PostInv'
<1> DEFINE q == request[id]
<1>1. q \in Publication /\ post[p] = NoPost /\ post[p].status = "none"
  BY DEF PostInv, InsertPost, NoPost
<1>2. q.key \in PostKeys \cup {"none"} /\ q.content \in Contents \cup {"none"} /\ q.offer \in BOOLEAN
  BY <1>1 DEF Publication
<1>3. CASE TakenMeanwhile(q.key)
  <2>1. Replayed([id |-> id, key |-> q.key, content |-> q.content, offer |-> q.offer])
        /\ UNCHANGED post
    BY <1>3 DEF InsertPost
  <2> QED
    BY <1>2, <2>1, RepliesFit
<1>4. CASE ~TakenMeanwhile(q.key)
  <2> DEFINE new == [NoPost EXCEPT !.status = "active", !.key = q.key, !.content = q.content]
             done == [q EXCEPT !.stage = "done", !.answer = p]
  <2>1. /\ DOMAIN new = PostFields /\ new.key = q.key /\ new.content = q.content
        /\ new.status # "none"
    BY DEF NoPost, PostFields
  <2>2. done \in Publication
    BY <1>1 DEF Publication
  <2>3. done.answer = p /\ done.key = q.key /\ done.content = q.content
    BY <1>1 DEF Publication
  <2>4. post' = [post EXCEPT ![p] = new]
    BY <1>4 DEF InsertPost
  <2>5. request' = [request EXCEPT ![id] = done]
    BY <1>4 DEF InsertPost
  <2>6. \A s \in Topics : q.key # "none" => post[s].key # q.key
    BY <1>4 DEF TakenMeanwhile, OfKey
  <2> HIDE DEF new, done, q
  <2>7. /\ DOMAIN post' = Topics /\ post'[p] = new /\ \A s \in Topics \ {p} : post'[s] = post[s]
    BY <2>4 DEF PostInv
  <2>8. request' \in [Requests -> Publication] /\ request'[id] = done
        /\ \A r \in Requests \ {id} : request'[r] = request[r]
    BY <2>2, <2>5 DEF PostInv
  <2>9. \A s \in Topics : DOMAIN post'[s] = PostFields
    BY <2>1, <2>7 DEF PostInv
  <2>10. \A s, t \in Topics : post'[s].key # "none" /\ post'[s].key = post'[t].key => s = t
    BY <2>1, <2>6, <2>7 DEF PostInv
  <2>11. ASSUME NEW r \in Requests, request'[r].answer # "none"
         PROVE  /\ post'[request'[r].answer].status # "none"
                /\ post'[request'[r].answer].key = request'[r].key
                /\ post'[request'[r].answer].content = request'[r].content
    <3>1. CASE r = id
      BY <2>1, <2>3, <2>7, <2>8, <3>1
    <3>2. CASE r # id
      <4>1. request'[r] = request[r] /\ request[r].answer \in Topics \ {p}
        BY <1>1, <2>8, <2>11, <3>2 DEF PostInv, Publication
      <4> QED
        BY <2>7, <2>11, <4>1 DEF PostInv
    <3> QED
      BY <3>1, <3>2
  <2> QED
    BY <2>7, <2>8, <2>9, <2>10, <2>11 DEF PostInv
<1> QED
  BY <1>3, <1>4

LEMMA PostStep == ASSUME PostInv, [PostNext]_postVars PROVE PostInv'
<1>1. ASSUME NEW q \in Requests, NEW k \in PostKeys, NEW c \in Contents, NEW o \in BOOLEAN,
             BeginPublish(q, k, c, o)
      PROVE  PostInv'
  BY <1>1, BeginIsHonest
<1>2. ASSUME NEW q \in Requests, NEW o \in BOOLEAN, BeginPublish(q, "none", "none", o)
      PROVE  PostInv'
  <2>1. "none" \in PostKeys \cup {"none"} /\ "none" \in Contents \cup {"none"}
    OBVIOUS
  <2> QED
    BY <1>2, <2>1, BeginIsHonest
<1>3. ASSUME UNCHANGED <<post, request>> PROVE PostInv'
  BY <1>3 DEF PostInv
\* One column of one post, but its key and its content.
<1>4. ASSUME NEW p, NEW field \in {"status", "replies"}, NEW x,
             field = "status" => x # "none",
             post' = [post EXCEPT ![p] = [@ EXCEPT ![field] = x]], UNCHANGED request
      PROVE  PostInv'
  <2>1. CASE p \in Topics
    <3> DEFINE new == [post[p] EXCEPT ![field] = x]
    <3>1. /\ DOMAIN new = PostFields /\ new.key = post[p].key /\ new.content = post[p].content
          /\ post[p].status # "none" => new.status # "none"
      BY <1>4, <2>1 DEF PostInv, PostFields
    <3>2. post' = [post EXCEPT ![p] = new]
      BY <1>4
    <3> HIDE DEF new
    <3>3. /\ DOMAIN post' = Topics /\ post'[p] = new
          /\ \A s \in Topics \ {p} : post'[s] = post[s]
      BY <2>1, <3>2 DEF PostInv
    <3> QED
      BY <1>4, <3>1, <3>3, PostsStay DEF PostInv
  <2>2. CASE p \notin Topics
    <3>1. DOMAIN post' = Topics /\ \A s \in Topics : post'[s] = post[s]
      BY <1>4, <2>2 DEF PostInv
    <3> QED
      BY <1>4, <3>1, PostsStay DEF PostInv
  <2> QED
    BY <2>1, <2>2
<1>5. ASSUME NEW p \in Topics, PublishByAgent(p) PROVE PostInv'
  BY <1>4, <1>5 DEF PublishByAgent
<1>6. ASSUME NEW p \in Topics, NEW l \in BOOLEAN, LockTopic(p, l) PROVE PostInv'
  BY <1>4, <1>6 DEF LockTopic
<1>7. ASSUME NEW p \in Topics, DeletePost(p) PROVE PostInv'
  BY <1>4, <1>7 DEF DeletePost
<1>8. ASSUME NEW r \in Replies, CommitReply(r) PROVE PostInv'
  BY <1>4, <1>8 DEF CommitReply
<1> QED
  BY <1>1, <1>2, <1>3, <1>5, <1>6, <1>7, <1>8, InsertIsHonest
  DEF PostNext, postVars, RegisterReversal, Undo, UndoWindowCloses, UpdateListing, DeleteListing,
      MarkSold, RelistItem, SetRestricted, ItemIs, BeginReply, BeginDeleteReply

LEMMA PostInitially == PostInit => PostInv
<1> SUFFICES ASSUME PostInit PROVE PostInv
  OBVIOUS
<1>1. NoRequest \in Publication /\ NoRequest.answer = "none"
  BY DEF NoRequest, Publication
<1>2. DOMAIN NoPost = PostFields /\ NoPost.key = "none"
  BY DEF NoPost, PostFields
<1> QED
  BY <1>1, <1>2 DEF PostInit, PostInv

LEMMA KeysFindPosts == PostInv => RetriesFindThePost
<1> SUFFICES ASSUME PostInv PROVE RetriesFindThePost
  OBVIOUS
<1>1. \A k \in PostKeys : \A p, s \in OfKey(k) : p = s
  BY DEF OfKey, PostInv
<1>2. ASSUME NEW q \in Requests, request[q].answer # "none"
      PROVE  /\ post[request[q].answer].key = request[q].key
             /\ post[request[q].answer].content = request[q].content
  BY <1>2 DEF PostInv
<1>3. \A q \in Requests : request[q].answer # "none" =>
         LET p == request[q].answer
         IN  post[p].key = request[q].key /\ post[p].content = request[q].content
  BY <1>2
<1> QED
  BY <1>1, <1>3 DEF RetriesFindThePost

-----------------------------------------------------------------------------
(* Groups: replies hang on roots, and a key on its line.                   *)

Line  == [group : Groups, who : Guests, key : UtteranceKeys, parent : Nat, by : Utterances]
Quiet == [step |-> "idle"]
Utterance == [step : {"admitted", "sound", "refused", "stored", "answered", "failed"},
              group : Groups, who : Guests, key : UtteranceKeys, parent : Nat, line : Nat]

Rooted(parent, s) == parent # 0 => parent \in DOMAIN lines /\ IsRootTopic(parent, s)

TopicsAreRoots ==
    \A u \in Utterances : utterances[u].step = "sound" =>
                              Rooted(utterances[u].parent, utterances[u].group)

ParentsAreNumbers ==
    \A u \in Utterances :
        /\ utterances[u].step # "idle" => utterances[u] \in Utterance
        /\ utterances[u].step = "admitted" => utterances[u].parent \in 0..Len(lines)

AnswersNameLines ==
    \A u \in Utterances : utterances[u].step \in {"stored", "answered"} =>
        utterances[u].line \in DOMAIN lines /\ SameKey(lines[utterances[u].line], utterances[u])

KeysAreOnOneLine == \A i, j \in DOMAIN lines : i # j => ~SameKey(lines[i], lines[j])

GroupInv ==
    /\ lines \in Seq(Line)
    /\ utterances \in [Utterances -> Utterance \cup {Quiet}]
    /\ ParentsAreNumbers
    /\ TopicsAreRoots
    /\ AnswersNameLines
    /\ RepliesHangOnRoots
    /\ KeysAreOnOneLine

\* One request to speak goes a step further, while the lines are as they were.
LEMMA SpeakerMoves ==
    ASSUME GroupInv, NEW u \in Utterances, NEW new \in Utterance,
           utterances' = [utterances EXCEPT ![u] = new], UNCHANGED lines,
           new.step = "admitted" => new.parent \in 0..Len(lines),
           new.step = "sound" => Rooted(new.parent, new.group),
           new.step \in {"stored", "answered"} =>
              new.line \in DOMAIN lines /\ SameKey(lines[new.line], new)
    PROVE  GroupInv'
<1>1. /\ utterances' \in [Utterances -> Utterance \cup {Quiet}] /\ utterances'[u] = new
      /\ \A v \in Utterances \ {u} : utterances'[v] = utterances[v]
  BY DEF GroupInv, ParentsAreNumbers, AnswersNameLines, KeysAreOnOneLine
<1>2. new.step # "idle"
  BY DEF Utterance
<1>3. \A v \in Utterances : utterances'[v].step = "sound" =>
                                 Rooted(utterances'[v].parent, utterances'[v].group)
  BY <1>1 DEF GroupInv, ParentsAreNumbers, AnswersNameLines, KeysAreOnOneLine, TopicsAreRoots
<1>5. TopicsAreRoots'
  <2> SUFFICES ASSUME NEW v \in Utterances, utterances'[v].step = "sound"
               PROVE  Rooted(utterances[v].parent, utterances[v].group)'
    BY DEF TopicsAreRoots
  <2>1. Rooted(utterances'[v].parent, utterances'[v].group)
    BY <1>3
  <2> QED
    BY <2>1 DEF Rooted, IsRootTopic
<1>6. \A v \in Utterances : utterances'[v].step \in {"stored", "answered"} =>
          utterances'[v].line \in DOMAIN lines' /\ SameKey(lines'[utterances'[v].line], utterances'[v])
  BY <1>1 DEF GroupInv, ParentsAreNumbers, AnswersNameLines, KeysAreOnOneLine
<1>7. \A v \in Utterances : /\ utterances'[v].step # "idle" => utterances'[v] \in Utterance
                            /\ utterances'[v].step = "admitted" => utterances'[v].parent \in 0..Len(lines')
  BY <1>1 DEF GroupInv, ParentsAreNumbers, AnswersNameLines, KeysAreOnOneLine
<1>8. lines' \in Seq(Line) /\ RepliesHangOnRoots'
      /\ \A i, j \in DOMAIN lines' : i # j => ~SameKey(lines'[i], lines'[j])
  BY DEF GroupInv, ParentsAreNumbers, AnswersNameLines, KeysAreOnOneLine, RepliesHangOnRoots
<1> QED
  BY <1>1, <1>5, <1>6, <1>7, <1>8 DEF GroupInv, ParentsAreNumbers, AnswersNameLines, KeysAreOnOneLine

LEMMA SpeakingIsOrderly ==
    ASSUME GroupInv, NEW u \in Utterances,
           \/ CheckTopic(u) \/ AnswerSpeaker(u)
           \/ \E s \in Groups, g \in Guests, key \in UtteranceKeys, parent \in Nat :
                 AskToSpeak(u, s, g, key, parent)
    PROVE  GroupInv'
<1>1. ASSUME NEW s \in Groups, NEW g \in Guests, NEW key \in UtteranceKeys, NEW parent \in Nat,
             AskToSpeak(u, s, g, key, parent)
      PROVE  GroupInv'
  <2> DEFINE new == [step |-> "admitted", group |-> s, who |-> g, key |-> key, parent |-> parent,
                     line |-> 0]
  <2>1. new \in Utterance /\ new.step = "admitted" /\ new.parent = parent
    BY DEF Utterance
  <2>2. utterances' = [utterances EXCEPT ![u] = new] /\ UNCHANGED lines /\ parent \in 0..Len(lines)
    BY <1>1 DEF AskToSpeak
  <2> HIDE DEF new
  <2> QED
    BY <2>1, <2>2, SpeakerMoves
<1>2. CASE CheckTopic(u)
  <2> DEFINE it == utterances[u]
             sound == it.parent = 0 \/ IsRootTopic(it.parent, it.group)
             step == IF sound THEN "sound" ELSE "refused"
             new == [it EXCEPT !.step = step]
  <2>1. it \in Utterance /\ it.parent \in 0..Len(lines) /\ lines \in Seq(Line)
    BY <1>2 DEF CheckTopic, GroupInv, ParentsAreNumbers, AnswersNameLines, KeysAreOnOneLine
  <2>2. step = "sound" => Rooted(it.parent, it.group)
    <3>1. DOMAIN lines = 1..Len(lines) /\ Len(lines) \in Nat
      BY <2>1
    <3>2. it.parent = 0 \/ it.parent \in DOMAIN lines
      BY <2>1, <3>1
    <3>3. step = "sound" => sound
      OBVIOUS
    <3> QED
      BY <3>2, <3>3 DEF Rooted
  <2>3. step \in {"sound", "refused"}
    OBVIOUS
  <2>4. utterances' = [utterances EXCEPT ![u] = new] /\ UNCHANGED lines
    BY <1>2 DEF CheckTopic
  <2> HIDE DEF step
  <2>5. new \in Utterance /\ new.step = step /\ new.parent = it.parent /\ new.group = it.group
    BY <2>1, <2>3 DEF Utterance
  <2> HIDE DEF new, it
  <2> QED
    BY <2>2, <2>3, <2>4, <2>5, SpeakerMoves
<1>3. CASE AnswerSpeaker(u)
  <2>1. PICK end \in {"answered", "failed"} : utterances' = [utterances EXCEPT ![u].step = end]
    BY <1>3 DEF AnswerSpeaker
  <2> DEFINE it == utterances[u]
             new == [it EXCEPT !.step = end]
  <2>2. it \in Utterance /\ it.line \in DOMAIN lines /\ SameKey(lines[it.line], it)
    BY <1>3 DEF AnswerSpeaker, GroupInv, ParentsAreNumbers, AnswersNameLines, KeysAreOnOneLine
  <2>3. utterances' = [utterances EXCEPT ![u] = new] /\ UNCHANGED lines
    BY <1>3, <2>1 DEF AnswerSpeaker
  <2>4. /\ new \in Utterance /\ new.step = end /\ new.line = it.line
        /\ new.group = it.group /\ new.who = it.who /\ new.key = it.key
    BY <2>2 DEF Utterance
  <2> HIDE DEF new, it
  <2>5. SameKey(lines[new.line], new)
    BY <2>2, <2>4 DEF SameKey
  <2> QED
    BY <2>2, <2>3, <2>4, <2>5, SpeakerMoves
<1> QED
  BY <1>1, <1>2, <1>3

\* A line is stored only where its key has none.
LEMMA SendingIsOrderly ==
    ASSUME GroupInv, NEW u \in Utterances, SendSpaceMessage(u)
    PROVE  GroupInv'
<1> DEFINE it == utterances[u]
           said == {i \in DOMAIN lines : SameKey(lines[i], it)}
<1>1. it \in Utterance /\ Rooted(it.parent, it.group)
  BY DEF SendSpaceMessage, GroupInv, ParentsAreNumbers, AnswersNameLines, KeysAreOnOneLine, TopicsAreRoots
<1>2. CASE said # {}
  <2>1. PICK i \in said : utterances' = [utterances EXCEPT ![u] = [it EXCEPT !.step = "stored", !.line = i]]
    BY <1>2 DEF SendSpaceMessage
  <2> DEFINE new == [it EXCEPT !.step = "stored", !.line = i]
  <2>2. i \in DOMAIN lines /\ SameKey(lines[i], it) /\ i \in Nat
    BY <2>1 DEF GroupInv, ParentsAreNumbers, AnswersNameLines, KeysAreOnOneLine
  <2>3. UNCHANGED lines
    BY <1>2 DEF SendSpaceMessage
  <2>4. /\ new \in Utterance /\ new.step = "stored" /\ new.line = i
        /\ new.group = it.group /\ new.who = it.who /\ new.key = it.key
    BY <1>1, <2>2 DEF Utterance
  <2>5. utterances' = [utterances EXCEPT ![u] = new]
    BY <2>1
  <2> HIDE DEF new, it
  <2>6. SameKey(lines[new.line], new)
    BY <2>2, <2>4 DEF SameKey
  <2> QED
    BY <2>2, <2>3, <2>4, <2>5, <2>6, SpeakerMoves
<1>3. CASE said = {}
  <2>0. PICK n \in Nat : n = Len(lines) + 1
    BY DEF GroupInv, ParentsAreNumbers, AnswersNameLines, KeysAreOnOneLine
  <2> DEFINE spoken == [group |-> it.group, who |-> it.who, key |-> it.key, parent |-> it.parent, by |-> u]
             new == [it EXCEPT !.step = "stored", !.line = n]
  <2>1. lines' = Append(lines, spoken)
    BY <1>3 DEF SendSpaceMessage
  <2>2. /\ spoken \in Line /\ spoken.group = it.group /\ spoken.who = it.who /\ spoken.key = it.key
        /\ spoken.parent = it.parent
    BY <1>1 DEF Utterance, Line
  <2>3. lines \in Seq(Line) /\ Len(lines) \in Nat /\ DOMAIN lines = 1..Len(lines)
    BY DEF GroupInv, ParentsAreNumbers, AnswersNameLines, KeysAreOnOneLine
  <2> HIDE DEF spoken
  <2>4. /\ lines' \in Seq(Line) /\ Len(lines') = n /\ DOMAIN lines' = 1..n
        /\ lines'[n] = spoken /\ \A i \in DOMAIN lines : lines'[i] = lines[i] /\ i \in DOMAIN lines'
    BY <2>0, <2>1, <2>2, <2>3
  <2>5. utterances' = [utterances EXCEPT ![u] = new]
    BY <1>3, <2>4 DEF SendSpaceMessage
  <2>6. /\ new \in Utterance /\ new.step = "stored" /\ new.line = n
        /\ new.group = it.group /\ new.who = it.who /\ new.key = it.key
    BY <1>1, <2>0 DEF Utterance
  <2> HIDE DEF new
  <2>7. /\ utterances' \in [Utterances -> Utterance \cup {Quiet}] /\ utterances'[u] = new
        /\ \A v \in Utterances \ {u} : utterances'[v] = utterances[v]
    BY <2>5, <2>6 DEF GroupInv, ParentsAreNumbers, AnswersNameLines, KeysAreOnOneLine
  <2>8. \A i \in DOMAIN lines : ~SameKey(lines[i], it)
    BY <1>3
  <2>9. \A i \in DOMAIN lines : ~SameKey(lines[i], spoken) /\ ~SameKey(spoken, lines[i])
    BY <2>2, <2>8 DEF SameKey
  <2>10. \A i, j \in DOMAIN lines' : i # j => ~SameKey(lines'[i], lines'[j])
    <3>1. \A i \in DOMAIN lines' : i \in DOMAIN lines \/ i = n
      BY <2>0, <2>3, <2>4
    <3> QED
      BY <2>4, <2>9, <3>1 DEF GroupInv, ParentsAreNumbers, AnswersNameLines, KeysAreOnOneLine
  <2>11. \A parent, s : parent \in DOMAIN lines /\ IsRootTopic(parent, s) =>
                           parent \in DOMAIN lines' /\ lines'[parent].group = s /\ lines'[parent].parent = 0
    BY <2>4 DEF IsRootTopic
  <2>12. RepliesHangOnRoots'
    <3> SUFFICES ASSUME NEW i \in DOMAIN lines', lines'[i].parent # 0
                 PROVE  /\ lines'[i].parent < i
                        /\ lines'[lines'[i].parent].group = lines'[i].group
                        /\ lines'[lines'[i].parent].parent = 0
      BY DEF RepliesHangOnRoots
    <3>1. CASE i \in DOMAIN lines
      <4> DEFINE p == lines[i].parent
      <4>1. p < i /\ lines[p].group = lines[i].group /\ lines[p].parent = 0 /\ lines'[i] = lines[i]
        BY <2>4, <3>1 DEF GroupInv, ParentsAreNumbers, AnswersNameLines, KeysAreOnOneLine, RepliesHangOnRoots
      <4>2. p \in Nat /\ p # 0
        <5>1. lines[i] \in Line
          BY <2>3, <3>1
        <5> QED
          BY <4>1, <5>1 DEF Line
      <4>3. p \in DOMAIN lines
        BY <2>3, <3>1, <4>1, <4>2
      <4> QED
        BY <2>4, <4>1, <4>3
    <3>2. CASE i \notin DOMAIN lines
      <4>1. i = n /\ lines'[i] = spoken
        BY <2>0, <2>3, <2>4, <3>2
      <4>2. it.parent \in DOMAIN lines /\ IsRootTopic(it.parent, it.group)
        BY <1>1, <2>2, <4>1 DEF Rooted
      <4> QED
        <5>1. it.parent < n
          BY <2>0, <2>3, <4>2
        <5> QED
          BY <2>2, <2>11, <4>1, <4>2, <5>1
    <3> QED
      BY <3>1, <3>2
  <2>13. \A v \in Utterances :
              /\ utterances'[v].step # "idle" => utterances'[v] \in Utterance
              /\ utterances'[v].step = "admitted" => utterances'[v].parent \in 0..Len(lines')
    BY <2>3, <2>4, <2>6, <2>7 DEF GroupInv, ParentsAreNumbers, AnswersNameLines, KeysAreOnOneLine
  <2>14. TopicsAreRoots'
    <3> SUFFICES ASSUME NEW v \in Utterances, utterances'[v].step = "sound"
                 PROVE  Rooted(utterances[v].parent, utterances[v].group)'
      BY DEF TopicsAreRoots
    <3>1. utterances'[v] = utterances[v] /\ Rooted(utterances[v].parent, utterances[v].group)
      BY <2>6, <2>7 DEF GroupInv, ParentsAreNumbers, AnswersNameLines, KeysAreOnOneLine, TopicsAreRoots
    <3>2. utterances[v].parent # 0 =>
             /\ lines'[utterances[v].parent] = lines[utterances[v].parent]
             /\ utterances[v].parent \in DOMAIN lines'
      BY <2>4, <3>1 DEF Rooted
    <3> QED
      BY <3>1, <3>2 DEF Rooted, IsRootTopic
  <2>15. \A v \in Utterances : utterances'[v].step \in {"stored", "answered"} =>
          utterances'[v].line \in DOMAIN lines' /\ SameKey(lines'[utterances'[v].line], utterances'[v])
    <3>1. n \in DOMAIN lines' /\ SameKey(lines'[n], new)
      BY <2>0, <2>2, <2>3, <2>4, <2>6 DEF SameKey
    <3> QED
      BY <2>4, <2>6, <2>7, <3>1 DEF GroupInv, ParentsAreNumbers, AnswersNameLines, KeysAreOnOneLine
  <2>16. Len(lines') \in Nat /\ DOMAIN lines' = 1..Len(lines')
    BY <2>4
  <2>17. ParentsAreNumbers'
    BY <2>13 DEF ParentsAreNumbers
  <2>18. AnswersNameLines'
    BY <2>15 DEF AnswersNameLines, SameKey
  <2>19. KeysAreOnOneLine'
    BY <2>10 DEF KeysAreOnOneLine, SameKey
  <2> QED
    BY <2>4, <2>7, <2>12, <2>14, <2>17, <2>18, <2>19 DEF GroupInv
<1> QED
  BY <1>2, <1>3

LEMMA GroupStep == ASSUME GroupInv, [GroupNext]_groupVars PROVE GroupInv'
<1>1. ASSUME UNCHANGED <<lines, utterances>> PROVE GroupInv'
  BY <1>1 DEF GroupInv, ParentsAreNumbers, AnswersNameLines, KeysAreOnOneLine, TopicsAreRoots, Rooted, IsRootTopic, RepliesHangOnRoots
<1>2. ASSUME NEW s \in Groups, NEW g \in Guests, NEW u \in Utterances, NEW key \in UtteranceKeys,
             NEW parent \in 0..Cardinality(Utterances), AskToSpeak(u, s, g, key, parent)
      PROVE  GroupInv'
  <2>1. parent \in 0..Len(lines) /\ Len(lines) \in Nat
    BY <1>2 DEF AskToSpeak, GroupInv, ParentsAreNumbers, AnswersNameLines, KeysAreOnOneLine
  <2>2. parent \in Nat
    BY <2>1
  <2> QED
    BY <1>2, <2>2, SpeakingIsOrderly
<1> QED
  BY <1>1, <1>2, SpeakingIsOrderly, SendingIsOrderly
  DEF GroupNext, groupVars, CreateGroup, AskRole, WriteRole

LEMMA GroupInitially == GroupInit => GroupInv
<1> SUFFICES ASSUME GroupInit PROVE GroupInv
  OBVIOUS
<1>1. lines \in Seq(Line) /\ DOMAIN lines = {}
  BY DEF GroupInit
<1> QED
  BY <1>1 DEF GroupInit, GroupInv, ParentsAreNumbers, AnswersNameLines, KeysAreOnOneLine, TopicsAreRoots, Quiet, RepliesHangOnRoots

-----------------------------------------------------------------------------
(* Calls: as long as it rings nobody has been told that he answered.       *)

CallInv ==
    /\ calls \in [Calls -> [state : {"idle", "checked", "ringing", "accepted", "ended"},
                            answer : Phones \cup {"none"}, told : SUBSET Phones]]
    /\ \A c \in Calls : calls[c].state \in {"idle", "checked", "ringing"} => calls[c].answer = "none"
    /\ CallsAreAnsweredOnce

LEMMA CallStep == ASSUME CallInv, [CallNext]_callVars PROVE CallInv'
<1> DEFINE Call == [state : {"idle", "checked", "ringing", "accepted", "ended"},
                    answer : Phones \cup {"none"}, told : SUBSET Phones]
<1>1. ASSUME NEW c \in Calls, NEW new \in Call, calls' = [calls EXCEPT ![c] = new],
             new.state \in {"idle", "checked", "ringing"} => new.answer = "none",
             new.told = IF new.answer = "none" THEN {} ELSE {new.answer}
      PROVE  CallInv'
  BY <1>1 DEF CallInv, CallsAreAnsweredOnce
\* The state of a call moves on.
<1>2. ASSUME NEW c \in Calls, NEW s \in {"checked", "ringing", "ended"},
             calls' = [calls EXCEPT ![c].state = s],
             s # "ended" => calls[c].state \in {"idle", "checked"}
      PROVE  CallInv'
  <2> DEFINE new == [calls[c] EXCEPT !.state = s]
  <2>1. calls[c] \in Call /\ calls[c].told = IF calls[c].answer = "none" THEN {} ELSE {calls[c].answer}
    BY DEF CallInv, CallsAreAnsweredOnce
  <2>2. new \in Call /\ new.state = s /\ new.answer = calls[c].answer /\ new.told = calls[c].told
    BY <2>1
  <2>3. calls' = [calls EXCEPT ![c] = new]
    BY <1>2
  <2>4. s # "ended" => calls[c].answer = "none"
    BY <1>2 DEF CallInv
  <2> HIDE DEF new
  <2> QED
    BY <1>1, <2>1, <2>2, <2>3, <2>4
<1>3. ASSUME NEW c \in Calls, NEW phone \in Phones, AnswerCall(c, phone) PROVE CallInv'
  <2> DEFINE new == [state |-> "accepted", answer |-> phone, told |-> {phone}]
  <2>1. calls[c].told = {}
    BY <1>3 DEF AnswerCall, StillRinging, CallInv, CallsAreAnsweredOnce
  <2>2. calls' = [calls EXCEPT ![c] = new]
    BY <1>3, <2>1 DEF AnswerCall
  <2>3. /\ new \in Call /\ new.state = "accepted"
        /\ new.told = IF new.answer = "none" THEN {} ELSE {new.answer}
    BY PhoneAssumption
  <2> HIDE DEF new
  <2> QED
    BY <1>1, <2>2, <2>3
<1>4. CASE UNCHANGED calls
  BY <1>4 DEF CallInv, CallsAreAnsweredOnce
<1> QED
  BY <1>2, <1>3, <1>4
  DEF CallNext, callVars, LoadActiveRealtimeConversation, CreateCall, EndCall, LeaveRealtime

LEMMA CallInitially == CallInit => CallInv
BY DEF CallInit, CallInv, CallsAreAnsweredOnce

\* The promise of the keys, for what concerns groups and calls.
THEOREM SpacesStayOrderly == GroupSpec /\ CallSpec => []SpacesAreOrderly
<1>1. GroupInv /\ CallInv => SpacesAreOrderly
  BY DEF GroupInv, KeysAreOnOneLine, AnswersNameLines, CallInv, SpacesAreOrderly, KeysNameOneLine
<1> QED
  BY <1>1, GroupInitially, GroupStep, CallInitially, CallStep, PTL DEF GroupSpec, CallSpec

-----------------------------------------------------------------------------
(* What is said in a conversation (Messages).  The history: rows are only  *)
(* added, and keep their times.                                            *)

IsRow(r) == {"kind", "by", "at", "hidden"} \subseteq DOMAIN r /\ r.at \in Nat
IsHistory(h) == (\E S : h \in Seq(S)) /\ \A i \in 1..Len(h) : IsRow(h[i])

SameRow(r, s) ==
    IsRow(s) /\ s.kind = r.kind /\ s.by = r.by /\ s.at = r.at /\ r.hidden \subseteq s.hidden

GoesOn(h, g) ==
    /\ IsHistory(g) /\ Len(h) <= Len(g)
    /\ \A i \in 1..Len(h) : SameRow(h[i], g[i])

\* What is sent and what is marked, as far as the history depends on it.
SendingInv ==
    /\ clock \in Nat
    /\ DOMAIN sending = Sendings
    /\ \A r \in Sendings : {"step", "kind", "by", "at"} \subseteq DOMAIN sending[r] /\ sending[r].at \in Nat
MarkingInv == marking \in [Talkers -> {NoMark} \cup [what : Marks, row : Nat]]

LEMMA RowsAreRows ==
    \A kind, by, key, at, dance :
       LET r == Row(kind, by, key, at, dance) IN
       /\ {"kind", "by", "at", "hidden"} \subseteq DOMAIN r
       /\ r.kind = kind /\ r.by = by /\ r.at = at
BY DEF Row

LEMMA AddingGoesOn ==
    ASSUME NEW h, IsHistory(h), NEW r, IsRow(r)
    PROVE  /\ GoesOn(h, Append(h, r))
           /\ Len(Append(h, r)) = Len(h) + 1
           /\ Append(h, r)[Len(h) + 1] = r
<1>1. PICK S : h \in Seq(S)
  BY DEF IsHistory
<1>2. h \in Seq(S \cup {r})
  BY <1>1
<1>3. /\ Append(h, r) \in Seq(S \cup {r}) /\ Len(h) \in Nat
      /\ Len(Append(h, r)) = Len(h) + 1
      /\ Append(h, r)[Len(h) + 1] = r
      /\ \A i \in 1..Len(h) : Append(h, r)[i] = h[i]
  BY <1>2
<1>4. \A i \in 1..Len(Append(h, r)) : IsRow(Append(h, r)[i])
  BY <1>3 DEF IsHistory
<1> QED
  BY <1>3, <1>4 DEF IsHistory, GoesOn, SameRow

LEMMA ChangingGoesOn ==
    ASSUME NEW h, IsHistory(h), NEW i, NEW r, i \in 1..Len(h) => SameRow(h[i], r)
    PROVE  /\ GoesOn(h, [h EXCEPT ![i] = r])
           /\ Len([h EXCEPT ![i] = r]) = Len(h)
<1> DEFINE g == [h EXCEPT ![i] = r]
<1>1. PICK S : h \in Seq(S)
  BY DEF IsHistory
<1>2. h \in Seq(S \cup {r}) /\ Len(h) \in Nat /\ DOMAIN h = 1..Len(h)
  BY <1>1
<1>3. h \in [1..Len(h) -> S \cup {r}]
  BY <1>2
<1>4. g \in [1..Len(h) -> S \cup {r}]
  BY <1>3
<1>5. g \in Seq(S \cup {r}) /\ Len(g) = Len(h)
  BY <1>2, <1>4
<1>6. \A j \in 1..Len(h) : g[j] = IF j = i THEN r ELSE h[j]
  BY <1>2
<1> HIDE DEF g
<1>7. \A j \in 1..Len(h) : SameRow(h[j], g[j])
  BY <1>6 DEF SameRow, IsHistory
<1>8. GoesOn(h, g)
  BY <1>2, <1>5, <1>7 DEF GoesOn, IsHistory, SameRow
<1> QED
  BY <1>5, <1>8 DEF g

LEMMA MarkedIsSame ==
    ASSUME NEW r, IsRow(r), NEW u, NEW what \in Marks
    PROVE  SameRow(r, Marked(r, u, what))
<1>1. what \in {"react", "unreact", "pin", "unpin", "hide", "report"}
  BY DEF Marks
<1>2. CASE what = "react"
  BY <1>2 DEF SameRow, IsRow, Marked
<1>3. CASE what = "unreact"
  BY <1>3 DEF SameRow, IsRow, Marked
<1>4. CASE what = "pin"
  BY <1>4 DEF SameRow, IsRow, Marked
<1>5. CASE what = "unpin"
  BY <1>5 DEF SameRow, IsRow, Marked
<1>6. CASE what = "hide"
  BY <1>6 DEF SameRow, IsRow, Marked
<1>7. CASE what = "report"
  BY <1>7 DEF SameRow, IsRow, Marked
<1> QED
  BY <1>1, <1>2, <1>3, <1>4, <1>5, <1>6, <1>7

-----------------------------------------------------------------------------
(* Interactions.                                                           *)

\* Rows of other kinds neither cool nor count.
Silent(h, g) ==
    /\ GoesOn(h, g)
    /\ \A i \in 1..Len(g) : i > Len(h) => g[i].kind # "avatar_interaction"

\* One interaction is added, by somebody who has waited and has room.
Speaks(h, g) ==
    /\ GoesOn(h, g) /\ Len(g) = Len(h) + 1
    /\ g[Len(h) + 1].kind = "avatar_interaction"
    /\ Cooled(g[Len(h) + 1].by, g[Len(h) + 1].at) /\ BelowLimit(g[Len(h) + 1].by, g[Len(h) + 1].at)

LEMMA HistoriesAreCounted ==
    ASSUME NEW h, IsHistory(h)
    PROVE  /\ Len(h) \in Nat /\ DOMAIN h = 1..Len(h) /\ IsFiniteSet(DOMAIN h)
           /\ \A i \in DOMAIN h : IsRow(h[i]) /\ h[i].at \in Nat
<1>1. PICK S : h \in Seq(S)
  BY DEF IsHistory
<1>2. Len(h) \in Nat /\ DOMAIN h = 1..Len(h)
  BY <1>1
<1>3. IsFiniteSet(1..Len(h))
  BY <1>2, FS_Interval
<1> QED
  BY <1>2, <1>3 DEF IsHistory, IsRow

LEMMA SilenceIsSpaced ==
    ASSUME IsHistory(history), InteractionsAreSpaced, Silent(history, history')
    PROVE  InteractionsAreSpaced'
<1>1. /\ Len(history) \in Nat /\ Rows = 1..Len(history)
      /\ Len(history') \in Nat /\ Rows' = 1..Len(history')
  BY HistoriesAreCounted DEF Silent, GoesOn, Rows
<1>2. \A u \in Talkers : Interactions(u)' = Interactions(u)
  <2> SUFFICES ASSUME NEW u \in Talkers, NEW i PROVE i \in Interactions(u)' <=> i \in Interactions(u)
    OBVIOUS
  <2> QED
    BY <1>1 DEF Silent, GoesOn, SameRow, Interactions
<1>3. \A u \in Talkers : \A i \in Interactions(u) : history'[i].at = history[i].at
  BY <1>1 DEF Silent, GoesOn, SameRow, Interactions
<1> SUFFICES ASSUME NEW u \in Talkers, NEW i \in Interactions(u)
             PROVE  /\ \A j \in Interactions(u) : i < j => history'[j].at - history'[i].at >= Cooldown
                    /\ Cardinality({j \in Interactions(u) :
                          history'[j].at \in (history'[i].at - WindowLength + 1)..history'[i].at}) <= WindowLimit
  BY <1>2 DEF InteractionsAreSpaced
<1>4. {j \in Interactions(u) : history'[j].at \in (history'[i].at - WindowLength + 1)..history'[i].at}
      = {j \in Interactions(u) : history[j].at \in (history[i].at - WindowLength + 1)..history[i].at}
  BY <1>3
<1> QED
  BY <1>3, <1>4 DEF InteractionsAreSpaced

LEMMA SpeakingIsSpaced ==
    ASSUME IsHistory(history), InteractionsAreSpaced, Speaks(history, history')
    PROVE  InteractionsAreSpaced'
<1> DEFINE n == Len(history) + 1
           who == history'[n].by
           t == history'[n].at
<1>1. /\ Len(history) \in Nat /\ Rows = 1..Len(history) /\ IsFiniteSet(Rows)
      /\ Len(history') \in Nat /\ Rows' = 1..n /\ n \in Nat
      /\ \A i \in Rows : history[i].at \in Nat
      /\ t \in Nat
  BY HistoriesAreCounted DEF Speaks, GoesOn, Rows, IsRow, IsHistory
<1>2. /\ history'[n].kind = "avatar_interaction" /\ Cooled(who, t) /\ BelowLimit(who, t)
      /\ n \notin Rows
  BY <1>1 DEF Speaks
<1>3. \A i \in Rows : /\ history'[i].at = history[i].at /\ history'[i].kind = history[i].kind
                      /\ history'[i].by = history[i].by
  BY <1>1 DEF Speaks, GoesOn, SameRow
<1> HIDE DEF n
<1> HIDE DEF who, t
<1>4. \A u \in Talkers : Interactions(u)' = IF u = who THEN Interactions(u) \cup {n} ELSE Interactions(u)
  <2>1. \A i : i \in Rows' <=> i \in Rows \/ i = n
    BY <1>1 DEF n
  <2>2. history'[n].by = who
    BY DEF who
  <2> SUFFICES ASSUME NEW u \in Talkers
               PROVE  Interactions(u)' = IF u = who THEN Interactions(u) \cup {n} ELSE Interactions(u)
    OBVIOUS
  <2>3. \A i \in Rows : i \in Interactions(u)' <=> i \in Interactions(u)
    BY <1>3, <2>1 DEF Interactions
  <2>4. n \in Interactions(u)' <=> u = who
    BY <1>2, <2>1, <2>2 DEF Interactions
  <2>5. Interactions(u) \subseteq Rows /\ Interactions(u)' \subseteq Rows'
    BY DEF Interactions
  <2> QED
    BY <2>1, <2>3, <2>4, <2>5, <1>2
<1>5. /\ Cooldown \in Nat \ {0} /\ WindowLength \in Nat \ {0} /\ WindowLimit \in Nat \ {0}
  BY PacesAssumption
<1>6. \A i \in Interactions(who) : history[i].at <= t - Cooldown
  BY <1>2 DEF Cooled
<1>7. history'[n].at = t
  BY DEF t
<1> SUFFICES ASSUME NEW u \in Talkers, NEW i \in Interactions(u)'
             PROVE  /\ \A j \in Interactions(u)' : i < j => history'[j].at - history'[i].at >= Cooldown
                    /\ Cardinality({j \in Interactions(u)' :
                          history'[j].at \in (history'[i].at - WindowLength + 1)..history'[i].at}) <= WindowLimit
  BY DEF InteractionsAreSpaced
<1>8. Interactions(u) \subseteq Rows /\ IsFiniteSet(Interactions(u))
  BY <1>1, FS_Subset DEF Interactions
<1>9. ASSUME NEW j \in Interactions(u)', i < j
      PROVE  history'[j].at - history'[i].at >= Cooldown
  <2>1. CASE j \in Interactions(u) /\ i \in Interactions(u)
    BY <1>3, <1>8, <1>9, <2>1 DEF InteractionsAreSpaced
  <2>2. CASE j = n /\ u = who /\ i \in Interactions(u)
    BY <1>1, <1>3, <1>5, <1>6, <1>7, <1>8, <2>2
  <2>3. CASE i = n
    BY <1>1, <1>4, <1>8, <1>9, <2>3 DEF n
  <2> QED
    BY <1>4, <2>1, <2>2, <2>3
<1>10. CASE i \in Interactions(u)
  <2> DEFINE old == {j \in Interactions(u) : history[j].at \in (history[i].at - WindowLength + 1)..history[i].at}
             now == {j \in Interactions(u)' : history'[j].at \in (history'[i].at - WindowLength + 1)..history'[i].at}
  <2>1. history'[i].at = history[i].at /\ history[i].at \in Nat
    BY <1>1, <1>3, <1>8, <1>10
  <2>2. u = who => n \notin now
    BY <1>1, <1>5, <1>6, <1>7, <1>10, <2>1
  <2>3. now = old
    BY <1>3, <1>4, <1>8, <2>1, <2>2
  <2> QED
    BY <1>9, <1>10, <2>3 DEF InteractionsAreSpaced
<1>11. CASE i = n /\ u = who
  <2> DEFINE late == {j \in Interactions(u) : history[j].at > t - WindowLength}
             now == {j \in Interactions(u)' : history'[j].at \in (history'[i].at - WindowLength + 1)..history'[i].at}
  <2>1. IsFiniteSet(late) /\ Cardinality(late) < WindowLimit
    BY <1>2, <1>8, <1>11, FS_Subset DEF BelowLimit
  <2>2. now \subseteq late \cup {n}
    <3> SUFFICES ASSUME NEW j \in Interactions(u), history'[j].at \in (t - WindowLength + 1)..t
                 PROVE  history[j].at > t - WindowLength
      BY <1>4, <1>7, <1>11
    <3> QED
      BY <1>1, <1>3, <1>5, <1>8
  <2>3. n \notin late
    BY <1>2, <1>8
  <2>4. IsFiniteSet(late \cup {n}) /\ Cardinality(late \cup {n}) = Cardinality(late) + 1
    BY <2>1, <2>3, FS_AddElement
  <2>5. Cardinality(now) <= Cardinality(late \cup {n})
    BY <2>2, <2>4, FS_Subset
  <2>6. Cardinality(now) \in Nat /\ Cardinality(late) \in Nat
    BY <2>1, <2>2, <2>4, FS_Subset, FS_CardinalityType
  <2> HIDE DEF now, late
  <2>7. Cardinality(now) <= WindowLimit
    BY <1>5, <2>1, <2>4, <2>5, <2>6
  <2> QED
    BY <1>9, <2>7 DEF now
<1> QED
  BY <1>4, <1>10, <1>11

-----------------------------------------------------------------------------
(* What the handlers do to the history.                                    *)

\* Sending and marking do not depend on it.
LEMMA SendingGoesOn ==
    ASSUME IsHistory(history), SendingInv, MarkingInv, [LineNext]_lineVars
    PROVE  SendingInv' /\ MarkingInv'
<1>1. ASSUME NEW r, NEW q, sending' = [sending EXCEPT ![r] = q], clock' = clock,
             {"step", "kind", "by", "at"} \subseteq DOMAIN q, q.at \in Nat
      PROVE  SendingInv'
  <2>1. DOMAIN sending' = Sendings /\ \A s \in Sendings : sending'[s] = IF s = r THEN q ELSE sending[s]
    BY <1>1 DEF SendingInv
  <2> QED
    BY <1>1, <2>1 DEF SendingInv
<1>2. {"step", "kind", "by", "at"} \subseteq DOMAIN NoSending /\ NoSending.at \in Nat
  BY DEF NoSending
<1>3. ASSUME NEW u \in Talkers, NEW m \in {NoMark} \cup [what : Marks, row : Nat],
             marking' = [marking EXCEPT ![u] = m]
      PROVE  MarkingInv'
  BY <1>3 DEF MarkingInv
<1>4. (UNCHANGED <<clock, sending>> => SendingInv') /\ (UNCHANGED marking => MarkingInv')
  BY DEF SendingInv, MarkingInv
<1>5. ASSUME NEW r \in Sendings, NEW u \in Talkers, NEW k \in LineKeys, NEW kind, Begin(r, u, k, kind)
      PROVE  SendingInv' /\ MarkingInv'
  <2> DEFINE q == [step |-> "begun", kind |-> kind, by |-> u, key |-> k, at |-> clock, policy |-> Blank]
  <2>1. {"step", "kind", "by", "at"} \subseteq DOMAIN q /\ q.at \in Nat
    BY DEF SendingInv
  <2>2. sending' = [sending EXCEPT ![r] = q] /\ UNCHANGED <<clock, marking>>
    BY <1>5 DEF Begin
  <2> HIDE DEF q
  <2> QED
    BY <1>1, <1>4, <2>1, <2>2
<1>6. ASSUME NEW r \in Sendings, SendText(r) \/ SendInteraction(r) \/ GiveUp(r)
      PROVE  SendingInv' /\ MarkingInv'
  <2>1. sending' = [sending EXCEPT ![r] = NoSending] /\ UNCHANGED <<clock, marking>>
    BY <1>6 DEF SendText, SendInteraction, GiveUp
  <2> QED
    BY <1>1, <1>2, <1>4, <2>1
<1>7. ASSUME NEW r \in Sendings, TakeLine(r)
      PROVE  SendingInv' /\ MarkingInv'
  <2> DEFINE p == policy[Peer(sending[r].by)].general
             q == [sending[r] EXCEPT !.step = "locked", !.policy = p]
  <2>1. sending' = [sending EXCEPT ![r].step = "locked", ![r].policy = p] /\ UNCHANGED <<clock, marking>>
    BY <1>7 DEF TakeLine
  <2> HIDE DEF p
  <2>2. sending' = [sending EXCEPT ![r] = q]
    BY <2>1 DEF SendingInv
  <2>3. DOMAIN q = DOMAIN sending[r] /\ q.at = sending[r].at
    BY DEF SendingInv
  <2>4. {"step", "kind", "by", "at"} \subseteq DOMAIN q /\ q.at \in Nat
    BY <2>3 DEF SendingInv
  <2> HIDE DEF q
  <2> QED
    BY <1>1, <1>4, <2>1, <2>2, <2>4
<1>8. CASE Tick
  BY <1>4, <1>8 DEF Tick, SendingInv
<1>9. ASSUME NEW u \in Talkers, NEW i \in Rows, NEW what \in Marks, BeginMark(u, i, what)
      PROVE  SendingInv' /\ MarkingInv'
  <2>1. [what |-> what, row |-> i] \in {NoMark} \cup [what : Marks, row : Nat]
    BY HistoriesAreCounted DEF Rows
  <2>2. marking' = [marking EXCEPT ![u] = [what |-> what, row |-> i]] /\ UNCHANGED <<clock, sending>>
    BY <1>9 DEF BeginMark
  <2> QED
    BY <1>3, <1>4, <2>1, <2>2
<1>10. ASSUME NEW u \in Talkers, FinishMark(u)
       PROVE  SendingInv' /\ MarkingInv'
  <2>1. marking' = [marking EXCEPT ![u] = NoMark] /\ UNCHANGED <<clock, sending>>
    BY <1>10 DEF FinishMark
  <2> QED
    BY <1>3, <1>4, <2>1
<1>11. CASE UNCHANGED <<clock, sending, marking>>
  BY <1>4, <1>11
<1>12. Exchange => SendingInv' /\ MarkingInv'
  BY <1>5, <1>6, <1>7, <1>8 DEF Exchange
<1>13. MarkNext => SendingInv' /\ MarkingInv'
  BY <1>9, <1>10, <1>11 DEF MarkNext, EditMessage, SetAcknowledgement, DeleteAcknowledgement
<1>14. PolicyNext \/ Ends \/ WalkNext \/ UNCHANGED lineVars => UNCHANGED <<clock, sending, marking>>
  BY DEF PolicyNext, SetPolicy, Ends, CloseLine, BarPeer, Unbar, WalkNext, StartWalk, SetArchived, ReadPage, lineVars
<1> QED
  BY <1>11, <1>12, <1>13, <1>14 DEF LineNext

LEMMA TextIsSilent ==
    ASSUME IsHistory(history), SendingInv, NEW r \in Sendings, SendText(r)
    PROVE  Silent(history, history')
<1> DEFINE q == sending[r]
           event == Row("event", q.by, Blank, q.at, Blank)
           text == Row("message", q.by, q.key, q.at, Blank)
<1>1. /\ IsRow(event) /\ event.kind = "event" /\ IsRow(text) /\ text.kind = "message"
  BY RowsAreRows DEF SendingInv, IsRow
<1>2. \/ history' = history \o <<>> \o <<text>>
      \/ history' = history \o <<event>> \o <<text>>
  BY DEF SendText
<1> HIDE DEF event, text
<1>3. \A h : IsHistory(h) => h \o <<>> = h /\ \A x : h \o <<x>> = Append(h, x)
  BY DEF IsHistory
<1>4. GoesOn(history, Append(history, event)) /\ Len(Append(history, event)) = Len(history) + 1
      /\ Append(history, event)[Len(history) + 1] = event
  BY <1>1, AddingGoesOn
<1>5. CASE history' = history \o <<>> \o <<text>>
  <2>1. history' = Append(history, text)
    BY <1>3, <1>5
  <2>2. /\ GoesOn(history, history') /\ Len(history') = Len(history) + 1 /\ history'[Len(history) + 1] = text
    BY <1>1, <2>1, AddingGoesOn
  <2>3. Len(history) \in Nat
    BY HistoriesAreCounted
  <2> QED
    BY <1>1, <2>2, <2>3 DEF Silent
<1>6. CASE history' = history \o <<event>> \o <<text>>
  <2> DEFINE mid == Append(history, event)
  <2>1. history' = Append(mid, text)
    BY <1>3, <1>4, <1>6 DEF GoesOn
  <2>2. IsHistory(mid) /\ GoesOn(history, mid) /\ Len(mid) = Len(history) + 1 /\ mid[Len(history) + 1] = event
    BY <1>4 DEF GoesOn
  <2> HIDE DEF mid
  <2>3. /\ GoesOn(mid, history') /\ Len(history') = Len(mid) + 1 /\ history'[Len(mid) + 1] = text
    BY <1>1, <2>1, <2>2, AddingGoesOn
  <2>4. Len(history) \in Nat
    BY HistoriesAreCounted
  <2>5. GoesOn(history, history')
    BY <2>2, <2>3, <2>4 DEF GoesOn, SameRow
  <2>6. history'[Len(history) + 1].kind = "event"
    BY <1>1, <2>2, <2>3, <2>4 DEF GoesOn, SameRow
  <2> QED
    BY <1>1, <2>2, <2>3, <2>4, <2>5, <2>6 DEF Silent
<1> QED
  BY <1>2, <1>5, <1>6

LEMMA InteractionSpeaks ==
    ASSUME IsHistory(history), SendingInv, NEW r \in Sendings, SendInteraction(r)
    PROVE  Speaks(history, history')
<1>1. PICK row : /\ row = Row("avatar_interaction", sending[r].by, sending[r].key, sending[r].at,
                              Effective(sending[r].policy, policy[Peer(sending[r].by)].contact))
                 /\ history' = Append(history, row)
  BY DEF SendInteraction
<1>2. IsRow(row) /\ row.kind = "avatar_interaction" /\ row.by = sending[r].by /\ row.at = sending[r].at
  BY <1>1, RowsAreRows DEF SendingInv, IsRow
<1>3. Cooled(sending[r].by, sending[r].at) /\ BelowLimit(sending[r].by, sending[r].at)
  BY DEF SendInteraction
<1> QED
  BY <1>1, <1>2, <1>3, AddingGoesOn DEF Speaks

LEMMA EndingIsSilent ==
    ASSUME IsHistory(history), SendingInv, NEW u, Ending(u)
    PROVE  Silent(history, history')
<1>1. PICK row : row = Row("event", u, Blank, clock, Blank) /\ history' = Append(history, row)
  BY DEF Ending
<1>2. IsRow(row) /\ row.kind = "event"
  BY <1>1, RowsAreRows DEF SendingInv, IsRow
<1>3. Len(history) \in Nat
  BY HistoriesAreCounted
<1> QED
  BY <1>1, <1>2, <1>3, AddingGoesOn DEF Silent

LEMMA ChangingIsSilent ==
    ASSUME IsHistory(history), NEW i, NEW row, i \in Rows => SameRow(history[i], row), Change(i, row)
    PROVE  Silent(history, history')
<1>1. Len(history) \in Nat /\ Rows = 1..Len(history)
  BY HistoriesAreCounted DEF Rows
<1>2. GoesOn(history, history') /\ Len(history') = Len(history)
  BY <1>1, ChangingGoesOn DEF Change
<1> QED
  BY <1>1, <1>2 DEF Silent

LEMMA RestingIsSilent == IsHistory(history) => Silent(history, history)
<1> SUFFICES ASSUME IsHistory(history) PROVE Silent(history, history)
  OBVIOUS
<1>1. Len(history) \in Nat
  BY HistoriesAreCounted
<1> QED
  BY <1>1 DEF Silent, GoesOn, SameRow, IsHistory

LEMMA HistoryGoesOn ==
    ASSUME IsHistory(history), SendingInv, MarkingInv, [LineNext]_lineVars
    PROVE  Silent(history, history') \/ Speaks(history, history')
<1>1. UNCHANGED history => Silent(history, history')
  BY RestingIsSilent
<1>2. \A i \in Rows : IsRow(history[i])
  BY HistoriesAreCounted DEF Rows
<1>3. Exchange => Silent(history, history') \/ Speaks(history, history')
  BY <1>1, TextIsSilent, InteractionSpeaks DEF Exchange, Begin, TakeLine, GiveUp, Tick
<1>4. PolicyNext \/ WalkNext \/ UNCHANGED lineVars => UNCHANGED history
  BY DEF PolicyNext, SetPolicy, WalkNext, StartWalk, SetArchived, ReadPage, lineVars
<1>5. Ends => Silent(history, history')
  BY <1>1, EndingIsSilent DEF Ends, CloseLine, BarPeer, Unbar
<1>6. ASSUME NEW u \in Talkers, NEW i \in Rows,
             EditMessage(u, i) \/ SetAcknowledgement(u, i) \/ DeleteAcknowledgement(u, i)
      PROVE  Silent(history, history')
  <2>1. PICK row : /\ Change(i, row)
                   /\ \/ row = [history[i] EXCEPT !.edited = TRUE]
                      \/ row = [history[i] EXCEPT !.ack = @ \cup {u}]
                      \/ row = [history[i] EXCEPT !.ack = @ \ {u}]
    BY <1>6 DEF EditMessage, SetAcknowledgement, DeleteAcknowledgement
  <2>2. IsRow(history[i])
    BY <1>2
  <2>3. SameRow(history[i], row)
    BY <2>1, <2>2 DEF SameRow, IsRow
  <2> QED
    BY <2>1, <2>3, ChangingIsSilent
<1>7. ASSUME NEW u \in Talkers, FinishMark(u)
      PROVE  Silent(history, history')
  <2>1. marking[u].what \in Marks
    BY <1>7 DEF FinishMark, MarkingInv
  <2>2. PICK row : /\ row = Marked(history[marking[u].row], u, marking[u].what)
                   /\ Change(marking[u].row, row)
    BY <1>7 DEF FinishMark
  <2>3. marking[u].row \in Rows => SameRow(history[marking[u].row], row)
    BY <1>2, <2>1, <2>2, MarkedIsSame
  <2> QED
    BY <2>2, <2>3, ChangingIsSilent
<1>8. MarkNext => Silent(history, history')
  BY <1>1, <1>6, <1>7 DEF MarkNext, BeginMark
<1> QED
  BY <1>1, <1>3, <1>4, <1>5, <1>8 DEF LineNext

-----------------------------------------------------------------------------
(* Pages: the rows are in one order, and every finite set of them has a    *)
(* first and a last.                                                       *)

LEMMA RowsAreOrdered ==
    ASSUME IsHistory(history)
    PROVE  /\ \A i \in Rows : ~Precedes(i, i)
           /\ \A i, j \in Rows : i # j => Precedes(i, j) \/ Precedes(j, i)
           /\ \A i, j, k \in Rows : Precedes(i, j) /\ Precedes(j, k) => Precedes(i, k)
<1>1. Rows \subseteq Nat /\ \A i \in Rows : history[i].at \in Nat /\ Source(i) \in Nat
  BY HistoriesAreCounted DEF Rows, Source
<1>2. ASSUME NEW i \in Rows PROVE ~Precedes(i, i)
  BY <1>1 DEF Precedes
<1>3. ASSUME NEW i \in Rows, NEW j \in Rows, i # j PROVE Precedes(i, j) \/ Precedes(j, i)
  <2>1. i \in Nat /\ j \in Nat /\ history[i].at \in Nat /\ history[j].at \in Nat
        /\ Source(i) \in Nat /\ Source(j) \in Nat
    BY <1>1
  <2> QED
    BY <1>3, <2>1 DEF Precedes
<1>4. ASSUME NEW i \in Rows, NEW j \in Rows, NEW k \in Rows, Precedes(i, j), Precedes(j, k)
      PROVE  Precedes(i, k)
  <2>1. i \in Nat /\ j \in Nat /\ k \in Nat
        /\ history[i].at \in Nat /\ history[j].at \in Nat /\ history[k].at \in Nat
        /\ Source(i) \in Nat /\ Source(j) \in Nat /\ Source(k) \in Nat
    BY <1>1
  <2> QED
    BY <1>4, <2>1 DEF Precedes
<1> QED
  BY <1>2, <1>3, <1>4

\* What comes before what, as sets of pairs.
Orders(R, S) ==
    /\ \A i \in S : <<i, i>> \notin R
    /\ \A i, j \in S : i # j => <<i, j>> \in R \/ <<j, i>> \in R
    /\ \A i, j, k \in S : <<i, j>> \in R /\ <<j, k>> \in R => <<i, k>> \in R

LEMMA SomeIsFirst ==
    ASSUME NEW S, IsFiniteSet(S), S # {}, NEW R, Orders(R, S)
    PROVE  \E i \in S : \A j \in S \ {i} : <<i, j>> \in R
<1> DEFINE Earlier(i) == {j \in S : <<j, i>> \in R}
           T == {Earlier(i) : i \in S}
           Less == StrictSubsetOrdering(S)
<1>1. T \subseteq SUBSET S /\ T # {}
  OBVIOUS
<1>2. IsWellFoundedOn(Less, SUBSET S)
  <2>1. IsWellFoundedOn(StrictSubsetOrdering(S), FiniteSubsetsOf(S))
    BY FS_StrictSubsetOrderingWellFounded
  <2>2. FiniteSubsetsOf(S) = SUBSET S
    BY FS_FiniteSubsetsOfFinite
  <2> QED
    BY <2>1, <2>2
<1>3. ASSUME NEW X \in SUBSET S, NEW Y \in SUBSET S, X \subseteq Y, X # Y PROVE <<X, Y>> \in Less
  BY <1>3 DEF StrictSubsetOrdering
<1> HIDE DEF T, Less
<1>4. PICK X \in T : \A Y \in T : ~(<<Y, X>> \in Less)
  BY <1>1, <1>2, WFMin
<1>5. PICK i \in S : X = Earlier(i)
  BY <1>4 DEF T
<1>6. ASSUME NEW j \in S \ {i}, <<i, j>> \notin R PROVE FALSE
  <2>1. <<j, i>> \in R
    BY <1>6 DEF Orders
  <2>2. Earlier(j) \subseteq Earlier(i) /\ j \in Earlier(i) /\ j \notin Earlier(j)
    BY <2>1 DEF Orders
  <2>3. Earlier(j) \in T
    BY DEF T
  <2>4. <<Earlier(j), X>> \in Less
    BY <1>3, <1>5, <2>2
  <2> QED
    BY <1>4, <2>3, <2>4
<1> QED
  BY <1>6

LEMMA RowsHaveEnds ==
    ASSUME IsHistory(history), NEW S \in SUBSET Rows, S # {}
    PROVE  /\ \E i \in S : \A j \in S \ {i} : Precedes(i, j)
           /\ \E i \in S : \A j \in S \ {i} : Precedes(j, i)
<1>1. IsFiniteSet(S)
  BY HistoriesAreCounted, FS_Subset DEF Rows
<1> DEFINE R == {p \in S \X S : Precedes(p[1], p[2])}
           Q == {p \in S \X S : Precedes(p[2], p[1])}
<1>2. \A i, j \in S : (<<i, j>> \in R <=> Precedes(i, j)) /\ (<<i, j>> \in Q <=> Precedes(j, i))
  OBVIOUS
<1> HIDE DEF R, Q
<1>3. Orders(R, S)
  BY <1>2, RowsAreOrdered DEF Orders
<1>4. Orders(Q, S)
  BY <1>2, RowsAreOrdered DEF Orders
<1>5. \E i \in S : \A j \in S \ {i} : <<i, j>> \in R
  BY <1>1, <1>3, SomeIsFirst
<1>6. \E i \in S : \A j \in S \ {i} : <<i, j>> \in Q
  BY <1>1, <1>4, SomeIsFirst
<1> QED
  BY <1>2, <1>5, <1>6

\* What a page is cut from, and how.
LEMMA PagesAreCut ==
    ASSUME IsHistory(history), NEW S \in SUBSET Rows, Cardinality(S) > PageSize
    PROVE  /\ FirstOf(S) \subseteq S
           /\ LastOf(FirstOf(S)) \in FirstOf(S)
           /\ \A j \in FirstOf(S) : j = LastOf(FirstOf(S)) \/ Precedes(j, LastOf(FirstOf(S)))
           /\ \A i \in S \ FirstOf(S) : Precedes(LastOf(FirstOf(S)), i)
<1>1. IsFiniteSet(S) /\ PageSize \in Nat \ {0} /\ Cardinality(S) \in Nat
  BY HistoriesAreCounted, FS_Subset, FS_CardinalityType, PacesAssumption DEF Rows
<1>2. S # {}
  BY <1>1, FS_EmptySet
<1>3. \A i : IsFiniteSet(Before(S, i)) /\ Cardinality(Before(S, i)) \in Nat
  <2> SUFFICES ASSUME NEW i PROVE IsFiniteSet(Before(S, i))
    BY FS_CardinalityType
  <2>1. Before(S, i) \subseteq S
    BY DEF Before
  <2> QED
    BY <1>1, <2>1, FS_Subset
<1>4. FirstOf(S) # {}
  <2>1. PICK i \in S : \A j \in S \ {i} : Precedes(i, j)
    BY <1>2, RowsHaveEnds
  <2>2. Before(S, i) = {}
    BY <2>1, RowsAreOrdered DEF Before
  <2>3. Cardinality(Before(S, i)) = 0
    BY <2>2, FS_EmptySet
  <2> QED
    BY <1>1, <2>3 DEF FirstOf
<1>5. FirstOf(S) \subseteq S
  BY DEF FirstOf
<1> DEFINE last == LastOf(FirstOf(S))
<1>6. last \in FirstOf(S) /\ \A j \in FirstOf(S) \ {last} : Precedes(j, last)
  <2>1. \E i \in FirstOf(S) : \A j \in FirstOf(S) \ {i} : Precedes(j, i)
    BY <1>4, <1>5, RowsHaveEnds
  <2> QED
    BY <2>1 DEF LastOf
<1> HIDE DEF last
<1>7. ASSUME NEW i \in S \ FirstOf(S), ~Precedes(last, i)
      PROVE  FALSE
  <2>1. Precedes(i, last) /\ last \in Rows /\ i \in Rows
    BY <1>5, <1>6, <1>7, RowsAreOrdered
  <2>2. Before(S, i) \subseteq Before(S, last)
    BY <2>1, RowsAreOrdered DEF Before
  <2>3. Cardinality(Before(S, i)) <= Cardinality(Before(S, last))
    BY <1>3, <2>2, FS_Subset
  <2>4. Cardinality(Before(S, last)) < PageSize
    BY <1>6 DEF FirstOf
  <2>5. Cardinality(Before(S, i)) < PageSize
    BY <1>1, <1>3, <2>3, <2>4
  <2> QED
    BY <1>7, <2>5 DEF FirstOf
<1> QED
  BY <1>5, <1>6, <1>7 DEF last

Walks == [step : {"idle", "reading", "done"}, by : Talkers \cup {Blank}, cursor : Nat,
          shown : Seq(SUBSET Nat), owed : SUBSET Nat]

\* What has been shown ends with the cursor, and the rest comes after it.
WalkInv ==
    /\ walk \in Walks
    /\ walk.owed \subseteq Rows /\ \A n \in DOMAIN walk.shown : walk.shown[n] \subseteq Rows
    /\ PagesAreComplete
    /\ walk.step = "reading" =>
         /\ walk.cursor = 0 => walk.shown = <<>>
         /\ walk.cursor # 0 =>
              /\ walk.cursor \in Rows
              /\ \A n \in DOMAIN walk.shown : \A j \in walk.shown[n] :
                    j = walk.cursor \/ Precedes(j, walk.cursor)
         /\ \A i \in walk.owed : SeenBy(walk.by, i) =>
              \/ \E n \in DOMAIN walk.shown : i \in walk.shown[n]
              \/ AfterCursor(walk.cursor, i)

\* Neither what is added nor what is hidden changes the order of the rest.
LEMMA WalksSurvive ==
    ASSUME IsHistory(history), WalkInv, GoesOn(history, history'), walk' = walk
    PROVE  WalkInv'
<1>1. /\ Rows \subseteq Rows' /\ Rows \subseteq Nat
      /\ \A i \in Rows : SameRow(history[i], history'[i])
  BY HistoriesAreCounted DEF GoesOn, Rows
<1>2. \A i, j \in Rows : Precedes(i, j)' <=> Precedes(i, j)
  BY <1>1 DEF Precedes, Source, SameRow
<1>3. \A i \in Rows : SeenBy(walk.by, i)' => SeenBy(walk.by, i)
  BY <1>1 DEF SeenBy, SameRow
<1>4. \A n \in DOMAIN walk.shown : walk.shown[n] \subseteq Rows /\ walk.shown[n] \subseteq Rows'
  BY <1>1 DEF WalkInv
<1>5. PagesAreComplete'
  BY <1>2, <1>3, <1>4 DEF WalkInv, PagesAreComplete
<1>6. walk.step = "reading" /\ walk.cursor # 0 =>
         /\ walk.cursor \in Rows'
         /\ \A n \in DOMAIN walk.shown : \A j \in walk.shown[n] :
               j = walk.cursor \/ Precedes(j, walk.cursor)'
  BY <1>1, <1>2, <1>4 DEF WalkInv
<1>7. ASSUME walk.step = "reading", NEW i \in walk.owed, SeenBy(walk.by, i)'
      PROVE  \/ \E n \in DOMAIN walk.shown : i \in walk.shown[n]
             \/ AfterCursor(walk.cursor, i)'
  BY <1>2, <1>3, <1>7 DEF WalkInv, AfterCursor
<1> QED
  BY <1>1, <1>4, <1>5, <1>6, <1>7 DEF WalkInv

LEMMA ReadingIsSafe ==
    ASSUME IsHistory(history), WalkInv, ReadPage
    PROVE  WalkInv'
<1> DEFINE rest == {i \in Shown(walk.by) : AfterCursor(walk.cursor, i)}
           hasMore == Cardinality(rest) > PageSize
           page == IF hasMore THEN FirstOf(rest) ELSE rest
           cursor == IF hasMore THEN LastOf(page) ELSE 0
           step == IF hasMore THEN "reading" ELSE "done"
<1>1. /\ history' = history /\ Rows' = Rows /\ walk.step = "reading"
      /\ \/ walk' = NoWalk
         \/ walk' = [walk EXCEPT !.step = step, !.cursor = cursor, !.shown = Append(@, page)]
  BY DEF ReadPage, Rows
<1>2. rest \subseteq Rows /\ Rows \subseteq Nat \ {0}
  BY HistoriesAreCounted DEF Shown, Rows
<1>a. \A S \in SUBSET Rows : Cardinality(S) > PageSize =>
         /\ FirstOf(S) \subseteq S
         /\ LastOf(FirstOf(S)) \in FirstOf(S)
         /\ \A j \in FirstOf(S) : j = LastOf(FirstOf(S)) \/ Precedes(j, LastOf(FirstOf(S)))
         /\ \A i \in S \ FirstOf(S) : Precedes(LastOf(FirstOf(S)), i)
  BY PagesAreCut
<1> HIDE DEF rest
<1>3. /\ page \subseteq rest /\ cursor \in Nat /\ step \in {"reading", "done"}
      /\ step = "done" => page = rest
      /\ step = "reading" => /\ cursor \in page
                             /\ \A j \in page : j = cursor \/ Precedes(j, cursor)
                             /\ \A i \in rest \ page : Precedes(cursor, i)
  <2>1. CASE hasMore
    <3>1. page = FirstOf(rest) /\ cursor = LastOf(page) /\ step = "reading"
      BY <2>1
    <3> HIDE DEF page, cursor, step
    <3> QED
      BY <1>2, <1>a, <2>1, <3>1
  <2>2. CASE ~hasMore
    BY <2>2
  <2> QED
    BY <2>1, <2>2
<1> HIDE DEF page, cursor, step, hasMore
<1>4. CASE walk' = NoWalk
  BY <1>1, <1>4 DEF WalkInv, Walks, NoWalk, PagesAreComplete
<1>5. CASE walk' = [walk EXCEPT !.step = step, !.cursor = cursor, !.shown = Append(@, page)]
  <2> DEFINE shown == walk.shown
             n == Len(shown) + 1
  <2>1. /\ shown \in Seq(SUBSET Nat) /\ Len(shown) \in Nat /\ DOMAIN shown = 1..Len(shown)
        /\ page \subseteq Nat /\ page \in SUBSET Nat
    BY <1>2, <1>3 DEF WalkInv, Walks
  <2>2. /\ Append(shown, page) \in Seq(SUBSET Nat) /\ DOMAIN Append(shown, page) = 1..n
        /\ Append(shown, page)[n] = page /\ \A m \in DOMAIN shown : Append(shown, page)[m] = shown[m]
    BY <2>1
  <2>3. PICK new : new = Append(shown, page)
    OBVIOUS
  <2>a. walk' = [walk EXCEPT !.step = step, !.cursor = cursor, !.shown = new] /\ new \in Seq(SUBSET Nat)
    BY <1>5, <2>2, <2>3
  <2> HIDE DEF shown
  <2>b. walk \in Walks /\ step \in {"idle", "reading", "done"} /\ cursor \in Nat /\ new \in Seq(SUBSET Nat)
    BY <1>3, <2>a DEF WalkInv
  <2> HIDE DEF n
  <2>4. /\ walk'.step = step /\ walk'.cursor = cursor /\ walk'.shown = new /\ walk'.by = walk.by
        /\ walk'.owed = walk.owed /\ walk' \in Walks
    BY <2>a, <2>b DEF Walks
  <2>5. /\ DOMAIN new = 1..n /\ new[n] = page /\ \A m \in DOMAIN shown : new[m] = shown[m]
        /\ DOMAIN shown = 1..(n - 1) /\ n \in Nat \ {0}
    BY <2>1, <2>2, <2>3 DEF n, shown
  <2>6. \A m \in DOMAIN new : new[m] \subseteq Rows
    <3>1. \A m \in DOMAIN shown : shown[m] \subseteq Rows
      BY DEF WalkInv, shown
    <3>2. \A m \in DOMAIN new : m = n \/ m \in DOMAIN shown
      BY <2>5
    <3> QED
      BY <1>2, <1>3, <2>5, <3>1, <3>2
  <2>7. \A m \in DOMAIN shown : \A i \in shown[m], j \in rest : Precedes(i, j)
    <3> SUFFICES ASSUME NEW m \in DOMAIN shown, NEW i \in shown[m], NEW j \in rest PROVE Precedes(i, j)
      OBVIOUS
    <3>1. shown # <<>>
      BY <2>5
    <3>2. /\ walk.cursor # 0 /\ walk.cursor \in Rows
          /\ (i = walk.cursor \/ Precedes(i, walk.cursor))
      BY <1>1, <3>1 DEF WalkInv, shown
    <3>3. Precedes(walk.cursor, j) /\ j \in Rows /\ i \in Rows
      BY <1>2, <3>2 DEF rest, AfterCursor, WalkInv, shown
    <3> QED
      BY <3>2, <3>3, RowsAreOrdered
  <2>8. \A k, m \in DOMAIN new : k < m => \A i \in new[k], j \in new[m] : Precedes(i, j)
    <3> SUFFICES ASSUME NEW k \in DOMAIN new, NEW m \in DOMAIN new, k < m
                 PROVE  \A i \in new[k], j \in new[m] : Precedes(i, j)
      OBVIOUS
    <3>1. CASE m = n
      <4>1. k \in DOMAIN shown
        BY <2>5, <3>1
      <4> QED
        BY <1>3, <2>5, <2>7, <3>1, <4>1
    <3>2. CASE m # n
      <4>1. k \in DOMAIN shown /\ m \in DOMAIN shown
        BY <2>5, <3>2
      <4> QED
        BY <2>5, <4>1 DEF WalkInv, PagesAreComplete, shown
    <3> QED
      BY <3>1, <3>2
  <2>9. ASSUME NEW i \in walk.owed, SeenBy(walk.by, i)
        PROVE  (\E m \in DOMAIN new : i \in new[m]) \/ i \in rest
    <3>1. (\E m \in DOMAIN shown : i \in shown[m]) \/ AfterCursor(walk.cursor, i)
      BY <1>1, <2>9 DEF WalkInv, shown
    <3>2. CASE AfterCursor(walk.cursor, i)
      BY <2>9, <3>2 DEF rest, Shown, WalkInv
    <3>3. CASE \E m \in DOMAIN shown : i \in shown[m]
      BY <2>5, <3>3
    <3> QED
      BY <3>1, <3>2, <3>3
  <2>10. ASSUME NEW i \in walk.owed, SeenBy(walk.by, i)
         PROVE  \/ \E m \in DOMAIN new : i \in new[m]
                \/ step = "reading" /\ AfterCursor(cursor, i)
    BY <1>3, <2>5, <2>9, <2>10 DEF AfterCursor
  <2>11. \A i \in Rows : SeenBy(walk.by, i)' <=> SeenBy(walk.by, i)
    BY <1>1, <2>4 DEF SeenBy
  <2>12. \A i, j : Precedes(i, j)' <=> Precedes(i, j)
    BY <1>1 DEF Precedes, Source
  <2>13. PagesAreComplete'
    BY <1>1, <2>4, <2>8, <2>10, <2>11, <2>12 DEF PagesAreComplete, SeenBy, WalkInv
  <2>14. step = "reading" =>
           /\ cursor # 0 /\ cursor \in Rows
           /\ \A m \in DOMAIN new : \A j \in new[m] : j = cursor \/ Precedes(j, cursor)
    <3> SUFFICES ASSUME step = "reading"
                 PROVE  /\ cursor # 0 /\ cursor \in Rows
                        /\ \A m \in DOMAIN new : \A j \in new[m] : j = cursor \/ Precedes(j, cursor)
      OBVIOUS
    <3>1. cursor \in rest /\ cursor # 0 /\ cursor \in Rows
      BY <1>2, <1>3
    <3>2. ASSUME NEW m \in DOMAIN new, NEW j \in new[m]
          PROVE  j = cursor \/ Precedes(j, cursor)
      <4>1. CASE m = n
        BY <1>3, <2>5, <3>2, <4>1
      <4>2. CASE m # n
        BY <2>5, <2>7, <3>1, <3>2, <4>2
      <4> QED
        BY <4>1, <4>2
    <3> QED
      BY <3>1, <3>2
  <2>15. \A c, i : AfterCursor(c, i)' <=> AfterCursor(c, i)
    BY <2>12 DEF AfterCursor
  <2> QED
    BY <1>1, <2>4, <2>6, <2>10, <2>11, <2>12, <2>13, <2>14, <2>15 DEF WalkInv, SeenBy
<1> QED
  BY <1>1, <1>4, <1>5

LEMMA StartingIsSafe ==
    ASSUME IsHistory(history), WalkInv, NEW u \in Talkers, StartWalk(u)
    PROVE  WalkInv'
<1>1. PICK owed, none : /\ owed = Shown(u) /\ none = <<>>
                       /\ walk' = [step |-> "reading", by |-> u, cursor |-> 0, shown |-> none, owed |-> owed]
  BY DEF StartWalk
<1>2. owed \subseteq Rows /\ owed \in SUBSET Nat /\ none \in Seq(SUBSET Nat) /\ DOMAIN none = {}
  BY <1>1, HistoriesAreCounted DEF Shown, Rows
<1>3. history' = history /\ Rows' = Rows
  BY DEF StartWalk, Rows
<1>4. /\ walk'.step = "reading" /\ walk'.cursor = 0 /\ walk'.shown = none /\ walk'.owed = owed
      /\ walk' \in Walks
  BY <1>1, <1>2 DEF Walks
<1>5. \A i : AfterCursor(walk.cursor, i)'
  BY <1>4 DEF AfterCursor
<1> QED
  BY <1>1, <1>2, <1>3, <1>4, <1>5 DEF WalkInv, PagesAreComplete

-----------------------------------------------------------------------------
LineInv ==
    /\ IsHistory(history) /\ SendingInv /\ MarkingInv
    /\ InteractionsAreSpaced /\ WalkInv

LEMMA LineStep == ASSUME LineInv, [LineNext]_lineVars PROVE LineInv'
<1>1. SendingInv' /\ MarkingInv'
  BY SendingGoesOn DEF LineInv
<1>2. Silent(history, history') \/ Speaks(history, history')
  BY HistoryGoesOn DEF LineInv
<1>3. GoesOn(history, history') /\ IsHistory(history')
  BY <1>2 DEF Silent, Speaks, GoesOn
<1>4. InteractionsAreSpaced'
  BY <1>2, SilenceIsSpaced, SpeakingIsSpaced DEF LineInv
<1>5. walk' = walk => WalkInv'
  BY <1>3, WalksSurvive DEF LineInv
<1>6. Exchange \/ PolicyNext \/ Ends \/ MarkNext \/ UNCHANGED lineVars => walk' = walk
  BY DEF Exchange, Begin, SendText, TakeLine, SendInteraction, GiveUp, Tick, PolicyNext, SetPolicy, Ends, CloseLine,
         BarPeer, Unbar, MarkNext, EditMessage, SetAcknowledgement, DeleteAcknowledgement, BeginMark, FinishMark, lineVars
<1>7. WalkNext => WalkInv'
  BY <1>5, ReadingIsSafe, StartingIsSafe DEF WalkNext, SetArchived, LineInv
<1> QED
  BY <1>1, <1>3, <1>4, <1>5, <1>6, <1>7 DEF LineNext, LineInv

LEMMA LineInitially == LineInit => LineInv
<1> SUFFICES ASSUME LineInit PROVE LineInv
  OBVIOUS
<1>1. PICK a, b : /\ a = Row("event", line.initiator, Blank, 0, Blank)
                  /\ b = Row("opening", line.initiator, Blank, 0, Blank)
                  /\ history = <<a, b>>
  BY DEF LineInit
<1>2. IsRow(a) /\ IsRow(b) /\ a.kind = "event" /\ b.kind = "opening"
  BY <1>1, RowsAreRows DEF IsRow
<1>3. history \in Seq({a, b}) /\ Len(history) = 2 /\ history[1] = a /\ history[2] = b /\ Rows = 1..2
  BY <1>1 DEF Rows
<1>4. IsHistory(history)
  BY <1>2, <1>3 DEF IsHistory
<1>5. \A u : Interactions(u) = {}
  BY <1>2, <1>3 DEF Interactions
<1>6. InteractionsAreSpaced
  BY <1>5 DEF InteractionsAreSpaced
<1>7. SendingInv
  BY DEF LineInit, SendingInv, NoSending
<1>8. MarkingInv
  BY DEF LineInit, MarkingInv
<1>9. WalkInv
  <2>1. walk = NoWalk /\ <<>> \in Seq(SUBSET Nat) /\ DOMAIN <<>> = {}
    BY DEF LineInit
  <2> QED
    BY <2>1 DEF WalkInv, NoWalk, Walks, PagesAreComplete
<1> QED
  BY <1>4, <1>6, <1>7, <1>8, <1>9 DEF LineInv

\* A time that a transaction took when it began, before it had its lock, does
\* not mislead whoever compares times: neither the cooldown and the number of
\* interactions in any window (enforce_avatar_interaction_rate_limit,
\* chat_conversation.rs:3503), nor a reader who follows next_cursor page by
\* page (get_relationship_space, chat_conversation.rs:1545).
THEOREM TimesStayReliable == LineSpec => []TimesAreReliable
<1>1. LineInit => LineInv
  BY LineInitially
<1>2. LineInv /\ [LineNext]_lineVars => LineInv'
  BY LineStep
<1>3. LineInv => TimesAreReliable
  BY DEF LineInv, WalkInv, TimesAreReliable
<1> QED
  BY <1>1, <1>2, <1>3, PTL DEF LineSpec
=============================================================================
