----------------------------- MODULE MCShareLinks -----------------------------
(* ShareLinks on small instances. *)
EXTENDS ShareLinks, TLC

\* Links are interchangeable and so are requests.
Symmetry == Permutations(Links) \union Permutations(Asks)

==============================================================================
