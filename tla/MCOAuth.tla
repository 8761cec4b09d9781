------------------------------ MODULE MCOAuth ------------------------------
(***************************************************************************)
(* OAuth for TLC: every feed is one of Reddit.                             *)
(***************************************************************************)
EXTENDS OAuth, TLC

OfReddit(f) == "reddit"
Symmetry == Permutations(Requests) \cup Permutations(Users)
=============================================================================
