----------------------------- MODULE MCQrSignin -----------------------------
(* QrSignin for TLC: ids, accounts, addresses and request slots are         *)
(* interchangeable.                                                          *)
EXTENDS QrSignin, TLC

Symmetry ==
    Permutations(Challenges) \cup Permutations(Users) \cup Permutations(Requests)
=============================================================================
