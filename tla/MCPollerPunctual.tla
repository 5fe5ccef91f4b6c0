-------------------------- MODULE MCPollerPunctual --------------------------
(* Small instances of PollerPunctual.                                        *)
EXTENDS PollerPunctual, TLC

Symmetry == Permutations(Pollers) \cup Permutations(Ticks)
=============================================================================
