------------------------------ MODULE MCDeals ------------------------------
(* Small instances of Deals: every listing belongs to the seller `s`.       *)
EXTENDS Deals, TLC

CONSTANT s
MCOwner == [l \in Listings |-> s]
MCSymmetry == Permutations(Orders) \cup Permutations(Hitls)
              \cup Permutations(Users \ {s}) \cup Permutations(Cases)
=============================================================================
