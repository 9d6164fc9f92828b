--------------------------- MODULE MCWantedRounds ---------------------------
(***************************************************************************)
(* An instance of WantedRounds for TLC.  Keys, rounds and row locks are    *)
(* looked at in turns: requests may carry a key, and the post is not put   *)
(* back; or they carry none and all answers say the same, in two rounds;   *)
(* or anybody names any listing as his offer, and all posts stay as they   *)
(* are.                                                                    *)
(***************************************************************************)
EXTENDS WantedRounds, TLC

CONSTANTS asker, giver, \* two users: one posts what is wanted, one the offers
          w1            \* and something that he wants himself

MCPoster == [l \in Wanteds \cup Offers |-> IF l = w1 THEN asker ELSE giver]

\* Offers, ids and requests are interchangeable.
MCSymmetry == Permutations(Offers) \cup Permutations(Responses) \cup Permutations(Calls)

VARIABLE turn

MCInit == Init /\ turn \in {"keys", "rounds", "rows"} /\ (turn # "rounds" => Rows = {})

Creations == {call[c] : c \in {d \in Calls : Creating(d)}}
OneRound == \A l \in Wanteds : listing[l].epoch = 1
AllAlike == \A k \in Creations : k.key = None /\ k.text = CHOOSE text \in Texts : TRUE
OwnOffers ==
    /\ \A k \in Creations : k.offer \in Offers /\ k.by = Poster[k.offer] /\ k.wanted = w1
    /\ \A l \in Wanteds \ {w1} : Open(l) /\ listing[l].epoch = 1

MCNext ==
    /\ Next /\ UNCHANGED turn
    /\ CASE turn = "keys"   -> OwnOffers' /\ OneRound'
         [] turn = "rounds" -> OwnOffers' /\ AllAlike'
         [] turn = "rows"   -> AllAlike' /\ UNCHANGED <<listing, restricted, verified>>
MCSpec == MCInit /\ [][MCNext]_<<vars, turn>>
=============================================================================
