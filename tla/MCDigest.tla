------------------------------ MODULE MCDigest ------------------------------
(***************************************************************************)
(* Digest for TLC.  Items are interchangeable, and the run checks          *)
(* invariants only, so symmetry is sound.                                  *)
(***************************************************************************)
EXTENDS Digest, TLC

ItemSymmetry == Permutations(Items)
=============================================================================
