------------------------------ MODULE MCWallet ------------------------------
(* A small instance of Wallet for TLC. *)
EXTENDS Wallet, TLC

MCEconomies == {[fee |-> 2, payout |-> 3]}

MCAdjustments == {-2, 2}

(* Users, and matches, are interchangeable. *)
Symmetry == Permutations(Users) \cup Permutations(Matches)

=============================================================================
