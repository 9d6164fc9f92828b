----------------------------- MODULE MCDealings -----------------------------
(***************************************************************************)
(* Requests of two people who deal with each other: publications, direct   *)
(* conversations and what is said in them, groups and calls, agreements, price limits and    *)
(* intents.  As in MCRequestHandlers each behaviour follows one of the     *)
(* components, which share no state, while the others rest.                *)
(***************************************************************************)
EXTENDS Posts, Conversations, Messages, Spaces, Agreements, Intents, TLC

CONSTANTS buyer, seller, d3

\* Things to trade, of which one is not for everybody to see and one is sought
\* at a price and a time that run backwards, and people who look for company.
Said(kind, exact, price, time) ==
    [kind |-> kind, exact |-> exact, price |-> price, time |-> time, ends |-> TRUE, shown |-> TRUE]
Between(a, b) == [from |-> a, to |-> b]
MCAmounts == {-1, 1}
MCStatements ==
    {Said("offer", TRUE, Between(2, 2), Anything),
     [Said("offer", FALSE, Between(3, 4), Between(1, 1)) EXCEPT !.shown = FALSE],
     [Said("seek", FALSE, Between(3, -1), Between(2, -1)) EXCEPT !.ends = FALSE],
     Said("seek", FALSE, Between(3, 2), Between(3, 1)),
     Said("people", TRUE, Between(1, 1), Between(2, 3)),
     [Said("people", TRUE, Between(2, 2), Between(-1, 2)) EXCEPT !.ends = FALSE]}

\* The same model values stand for ids of several modules, so that these
\* permutations are all there are; no definition tells the values apart.
MCSymmetry == Permutations(Topics) \cup Permutations(Requests) \cup Permutations(Contents)

VARIABLE focus

dealingsVars == <<focus, postVars, chatVars, lineVars, groupVars, callVars, dealingVars, wishVars>>

\* Three of the behaviours are about one conversation: what is sent at once,
\* what a reader sees of it, and what is done to its messages.
Talking == {"interactions", "space", "marks"}

DealingsInit ==
    /\ focus \in {"posts", "chat", "groups", "calls", "card", "price", "wishes"} \cup Talking
    /\ PostInit /\ ChatInit /\ LineInit /\ GroupInit /\ CallInit /\ DealingInit /\ WishInit
    /\ line.initiator = buyer
    /\ line.state = "syn_ack" => focus \in {"space", "marks"}

\* Blocks get in the way of others at any moment, of each other never.
OneBlock == Cardinality(blocking') <= 1

\* Their bounds.  The limits of interactions are for each sender alone, pages
\* for each reader; marks do not depend on each other.
OnlyTexts ==
    /\ \A r \in Sendings : sending'[r].by \in {buyer, Blank} /\ sending'[r].kind = "message"
                          /\ sending'[r].key # d3
    /\ \E r \in Sendings : \A q \in Sendings \ {r} : sending'[q].step = "idle"
Interacting ==
    /\ \A r \in Sendings : sending'[r].step # "idle" =>
          sending'[r].by = buyer /\ sending'[r].kind = "avatar_interaction"
    /\ UNCHANGED <<policy[buyer], policy[seller].general>>
Reading ==
    /\ OnlyTexts
    /\ clock' <= 1 /\ Len(history') <= 4
    /\ walk'.by # seller /\ seller \notin line'.archived /\ marking'[seller] = NoMark
MarksOn(row) ==
    {"ack"} \X row.ack \cup {"react"} \X row.reacted \cup {"pin"} \X row.pinned
        \cup {"hide"} \X row.hidden \cup {"report"} \X row.reported
Marking ==
    /\ OnlyTexts
    /\ clock' = 0 /\ Len(history') <= 3
    /\ \E u \in Talkers : marking'[u] = NoMark
    /\ \E i \in DOMAIN history' : /\ Cardinality(MarksOn(history'[i])) <= 1
                                /\ \A j \in DOMAIN history' \ {i} : MarksOn(history'[j]) = {}


Rests(component, its) == IF focus = component THEN TRUE ELSE UNCHANGED its

\* Nothing but the component that is followed moves.
Follow(component) ==
    /\ focus = component /\ UNCHANGED focus
    /\ Rests("posts", postVars) /\ Rests("chat", chatVars)
    /\ IF focus \in Talking THEN TRUE ELSE UNCHANGED lineVars
    /\ Rests("groups", groupVars) /\ Rests("calls", callVars)
    /\ Rests("card", cardVars) /\ Rests("price", discoveryVars)
    /\ Rests("wishes", wishVars)

DealingsNext ==
    \/ Follow("posts") /\ PostNext
    \/ Follow("chat") /\ ChatNext /\ OneBlock
    \/ Follow("interactions") /\ (Exchange \/ PolicyNext) /\ Interacting
    \/ Follow("space") /\ (Exchange \/ Hiding \/ WalkNext) /\ Reading
    \/ Follow("marks") /\ (Exchange \/ Ends \/ MarkNext) /\ Marking
    \/ Follow("groups") /\ GroupNext
    \/ Follow("calls") /\ CallNext
    \/ Follow("card") /\ CardNext
    \/ Follow("price") /\ DiscoveryNext
    \/ Follow("wishes") /\ WishNext

DealingsSpec == DealingsInit /\ [][DealingsNext]_dealingsVars

-----------------------------------------------------------------------------
\* What a retry finds: under one key one post, of what was asked for, the one
\* conversation that the key's message is in, and the one line of a group.
KeysAreHonoured == RetriesFindThePost /\ KeyMeansOneConversation /\ SpacesAreOrderly

\* What the pair's lock and its blocks are relied on for: an answered request
\* needs no second look at the blocks, a fresh one no look at the index, and
\* what a participant is offered is what he may do.
PairIsGuarded == AnsweredIsNotBlocked /\ LockSparesIndex /\ OffersAreAccurate

\* Times that transactions took when they began, in order or not, mislead
\* neither the limits of interactions nor the pages of the space.
TimesAreReliable == InteractionsAreSpaced /\ PagesAreComplete

\* Nobody is held to a value he has not said yes to, and two limits resolve to
\* a price that neither side would refuse.
TermsAreHonoured == ConsentIsToTheValue /\ LimitsResolve

\* Nothing inferred is acted upon before its author agrees, and a match breaks
\* nothing that either side has stated.
WishesAreRespected == InferredNeedsConsent /\ MatchesArePossible
=============================================================================
