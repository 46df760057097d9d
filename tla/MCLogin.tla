------------------------------ MODULE MCLogin ------------------------------
(* Login for TLC: accounts, nonces, approvals and slots are interchangeable. *)
EXTENDS Login, TLC

Symmetry ==
    Permutations(Accounts) \cup Permutations(Nonces) \cup Permutations(Approvals)
        \cup Permutations(Requests)
=============================================================================
