---------------------------- MODULE MCSummaries -----------------------------
(***************************************************************************)
(* Summaries for TLC: a Gemini provider that may watch videos, and another *)
(* one for the text.                                                       *)
(***************************************************************************)
EXTENDS Summaries

MCFirstProviders ==
  <<[gemini |-> TRUE, model |-> "m", active |-> TRUE],
    [gemini |-> FALSE, model |-> "m", active |-> FALSE]>>
MCFirstRouting ==
  [textMode |-> "ordered", textIds |-> <<1>>, videoMode |-> "single", videoIds |-> <<>>]
MCCreations == {[gemini |-> TRUE, model |-> "m"]}
MCPuts == {[videoIds |-> <<1>>, textIds |-> <<2>>], [textIds |-> <<1, 2>>]}
=============================================================================
