-------------------------- MODULE MCForgetPipeline --------------------------
(* Instances of ForgetPipeline for TLC. *)
EXTENDS ForgetPipeline, TLC
CONSTANTS f1, f2, r1, r2, k1, k2

Interchangeable ==
    Permutations(Forget) \cup Permutations(Reader) \cup Permutations(Copy)
=============================================================================
