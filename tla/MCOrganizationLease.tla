------------------------- MODULE MCOrganizationLease -------------------------
EXTENDS OrganizationLease, TLC

\* Every request is for any asset, as the background executor's are.
AnyAsset == [r \in Attempts |-> Assets]

Interchangeable == Permutations(Attempts) \cup Permutations(Calls)
=============================================================================
