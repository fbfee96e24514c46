--------------------------- MODULE CategoryTreeMC ---------------------------
(***************************************************************************)
(* Instances of CategoryTree for TLC.                                      *)
(***************************************************************************)
EXTENDS CategoryTree, TLC

\* Ids are generated and requests are alike.
Alike == Permutations(CategoryIds) \cup Permutations(Requests)
=============================================================================
