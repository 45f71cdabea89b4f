-------------------------- MODULE MCInformationUse --------------------------
(* Two sources, a trace of two entries, checks of at most two bases.       *)
EXTENDS InformationUse, TLC
CONSTANTS s1, s2, o1, o2
Symmetry == Permutations(Sources) \cup Permutations(Slots)
=============================================================================
