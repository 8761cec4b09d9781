---------------------------- MODULE MCCategories ----------------------------
(***************************************************************************)
(* Categories for TLC: one name in two cases, one source under two         *)
(* schemes, and another source.                                            *)
(***************************************************************************)
EXTENDS Categories, TLC

MCFold(name) == IF name = "NEWS" THEN "news" ELSE name
MCSource(url) == IF url = "http://a" THEN "https://a" ELSE url
MCStarter == {[url |-> "https://b", name |-> "NEWS", was |-> "NEWS"]}
RequestSymmetry == Permutations(Requests)
=============================================================================
