------------------------------ MODULE RpsRules ------------------------------
(* The pure rules of Rock Paper Scissors: packages/contracts/src/rps.ts.   *)
EXTENDS Integers

CONSTANT BestOf  \* rounds a match is the best of

ASSUME BestOfAssumption == BestOf \in Nat \ {0}

Slots   == {"PLAYER1", "PLAYER2"}
Choices == {"ROCK", "PAPER", "SCISSORS"}
None    == "none"

Beats == [ROCK |-> "SCISSORS", PAPER |-> "ROCK", SCISSORS |-> "PAPER"]

ResolveRpsRound(c1, c2) ==
  CASE c1 = c2                        -> "DRAW"
    [] c1 # c2 /\ Beats[c1] = c2      -> "PLAYER1"
    [] OTHER                          -> "PLAYER2"

RequiredWins == (BestOf + 1) \div 2

(* The player who has the required wins, "none" while nobody has.          *)
IsMatchComplete(score) ==
  CASE score["PLAYER1"] >= RequiredWins -> "PLAYER1"
    [] score["PLAYER1"] < RequiredWins /\ score["PLAYER2"] >= RequiredWins -> "PLAYER2"
    [] OTHER -> None

=============================================================================
