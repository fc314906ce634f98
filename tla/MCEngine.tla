------------------------------ MODULE MCEngine ------------------------------
(* Instance of Engine for TLC: two of the requests share a fingerprint. *)
EXTENDS Engine

MCRequests == 1 .. 4
MCFp == [r \in MCRequests |-> IF r = 2 THEN 1 ELSE r]
MCDontFilter == {4}

\* A smaller instance with replaced requests: 1 and 2 are duplicates, 3 is not filtered.
MCFewRequests == 1 .. 3
MCFewDontFilter == {3}
=============================================================================
