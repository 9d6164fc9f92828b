--------------------------- MODULE MCEmbeddingJobs ---------------------------
(***************************************************************************)
(* Instances of EmbeddingJobs for TLC.                                     *)
(***************************************************************************)
EXTENDS EmbeddingJobs, TLC

\* Workers are interchangeable, and so are listings.
MCSymmetry == Permutations(Workers) \cup Permutations(Listings)
=============================================================================
