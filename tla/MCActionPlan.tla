---------------------------- MODULE MCActionPlan ----------------------------
(***************************************************************************)
(* Instances of ActionPlan for TLC.  In the first, requests race each      *)
(* other or the market moves: either two requests at a time, under a key,  *)
(* are about one purchase, or one request at a time, without a key, is     *)
(* about any action, while the price and the listing change.               *)
(***************************************************************************)
EXTENDS ActionPlan, FiniteSets, TLC

CONSTANTS seller, buyer  \* two users: one posts every listing

MCOwner == [l \in Listings |-> seller]

\* Ids and requests are interchangeable.
MCSymmetry == Permutations(Plans) \cup Permutations(Calls) \cup Permutations(Listings)

VARIABLE racing

Busy      == {c \in Calls : call[c] # NoCall}
Requested == {call[c].request : c \in {b \in Busy : call[b].op = "propose"}}

OnePurchase ==
    /\ \A q \in Requested : q.action = "purchase" /\ q.amount = 4 /\ q.key # None
    /\ \A l \in Listings : listing[l].price = 4 /\ listing[l].revision <= 2
OneRequest ==
    /\ Cardinality(Busy) <= 1
    /\ \A q \in Requested : q.key = None

Within == IF racing THEN OnePurchase ELSE OneRequest

MCInit == Init /\ racing \in BOOLEAN /\ Within
MCNext == Next /\ UNCHANGED racing /\ Within'
MCSpec == MCInit /\ [][MCNext]_<<vars, racing>>

\* The instance that looks for liveness is smaller and has no such bounds.
MCFairInit == Init /\ racing = TRUE
MCFairSpec ==
    /\ MCFairInit
    /\ [][Next /\ UNCHANGED racing]_<<vars, racing>>
    /\ PlanFairness
=============================================================================
