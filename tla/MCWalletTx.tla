----------------------------- MODULE MCWalletTx -----------------------------
(* A small instance of WalletTx for TLC. *)
EXTENDS WalletTx

CONSTANTS u1, u2, m1, m2

MCEconomies == {[fee |-> 2, payout |-> 3]}

MCRank == [u \in Users |-> IF u = u1 THEN 1 ELSE 2]

(* The two users meet in both matches, in opposite seats; or one of them   *)
(* plays the second match with a bot.                                      *)
MCSeatPlans ==
  {[m \in Matches |-> IF m = m1 THEN [A |-> u1, B |-> u2] ELSE [A |-> v, B |-> u1]] :
     v \in {u2, Bot}}

MCContracts == [m \in Matches |-> [fee |-> 2, payout |-> 3]]

MCBuyer == [p \in Purchases |-> u1]

MCAdjustments == {-2}

=============================================================================
