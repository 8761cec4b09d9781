------------------------------ MODULE MCItems -------------------------------
(***************************************************************************)
(* Items for TLC: two items with a date, and one without.                  *)
(***************************************************************************)
EXTENDS Items, TLC

MCDates == "a" :> {-1} @@ "b" :> {0} @@ "c" :> {}
MCFirstLimits == {<<0, 0, 0>>, <<1, 1, 0>>}
RequestSymmetry == Permutations(Requests)
=============================================================================
