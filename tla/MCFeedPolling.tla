--------------------------- MODULE MCFeedPolling ---------------------------
(***************************************************************************)
(* Instances of FeedPolling for TLC: all feeds are served by one host, so  *)
(* that their polls compete for the host lock as well as for permits.      *)
(***************************************************************************)
EXTENDS FeedPolling, TLC

CONSTANT h1

FeedsAlike == Permutations(Feeds)

SameHost == [f \in Feeds |-> h1]
=============================================================================
