---------------------------- MODULE MCProviders -----------------------------
(***************************************************************************)
(* Providers for TLC, by itself: two requests of admins at a time.         *)
(***************************************************************************)
EXTENDS Providers

MCFirstProviders == <<>>
MCFirstRouting ==
  [textMode |-> "single", textIds |-> Unset, videoMode |-> "single", videoIds |-> <<>>]
MCCreations == [gemini : BOOLEAN, model : {"m"}]
MCPuts ==
  {[textIds |-> ids] : ids \in {<<>>, <<1>>, <<1, 2>>}}
  \cup {[videoIds |-> ids] : ids \in {<<>>, <<2>>, <<2, 1>>}}
  \cup {[textMode |-> "ordered", videoMode |-> "ordered"], [textIds |-> <<1>>, videoIds |-> <<2>>]}
AdminSymmetry == Permutations(Admins)
=============================================================================
