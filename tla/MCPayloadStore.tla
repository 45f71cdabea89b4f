--------------------------- MODULE MCPayloadStore ---------------------------
(* Model values for the payload store; identities are interchangeable.     *)
EXTENDS PayloadStore, TLC

Identities == Permutations(Payload) \cup Permutations(Asset) \cup Permutations(Session)
=============================================================================
