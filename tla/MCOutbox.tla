------------------------------ MODULE MCOutbox ------------------------------
(***************************************************************************)
(* Outbox for TLC.  Keys and flushes are interchangeable, and the run      *)
(* checks invariants only, so symmetry is sound.                           *)
(***************************************************************************)
EXTENDS Outbox, TLC

KeyAndFlushSymmetry == Permutations(Keys) \cup Permutations(Flushes)
=============================================================================
