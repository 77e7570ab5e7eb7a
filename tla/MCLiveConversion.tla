-------------------------- MODULE MCLiveConversion --------------------------
(* Small instances of LiveConversion for TLC. *)
EXTENDS LiveConversion, TLC

\* Inputs differ only by identity; sound for the invariants checked with it.
Symmetry == Permutations(Requests)
=============================================================================
