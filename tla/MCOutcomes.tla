----------------------------- MODULE MCOutcomes -----------------------------
(* A small instance of Outcomes for TLC. *)
EXTENDS Outcomes, TLC

CONSTANTS u1, u2, m0, m1, m2

Fixture(a, b, g) == [A |-> a, B |-> b, game |-> g]

(* m0 cannot be read.  Two users who play m1 meet again in m2, in opposite *)
(* seats, in either game; or one of them plays m2 with a bot.              *)
MCFixtures ==
  {(m0 :> Fixture(u1, Bot, "penalty-duel")) @@ (m1 :> Fixture(u1, u2, "penalty-duel"))
     @@ (m2 :> f) : f \in {Fixture(u2, u1, "penalty-duel"), Fixture(u2, u1, "rps"),
                           Fixture(u2, Bot, "penalty-duel")}}

MCCreated == (m0 :> 0) @@ (m1 :> 1) @@ (m2 :> 2)

MCRank == (u1 :> 1) @@ (u2 :> 2)

=============================================================================
