---------------------------- MODULE PenaltyRules ----------------------------
(* The pure rules of Penalty Duel: packages/game-penalty/src/index.ts.     *)
EXTENDS Integers

CONSTANT RegulationKicks  \* config.regulationKicksPerPlayer

ASSUME RegulationAssumption == RegulationKicks \in Nat \ {0}

Seats      == {"A", "B"}
Roles      == {"KICKER", "GOALKEEPER"}
Directions == {"LEFT", "RIGHT"}
None       == "none"

OppositeSeat(s) == IF s = "A" THEN "B" ELSE "A"

(* The kicker alternates every turn, starting with firstKicker at turn 1. *)
KickerOf(firstKicker, sequence) ==
  IF sequence % 2 = 1 THEN firstKicker ELSE OppositeSeat(firstKicker)

RoleOf(s, firstKicker, sequence) ==
  IF s = KickerOf(firstKicker, sequence) THEN "KICKER" ELSE "GOALKEEPER"

(* An action still missing when the turn resolves has timed out; a missing *)
(* shot is a MISS whatever the goalkeeper did.                             *)
TurnOutcome(shot, dive) ==
  CASE shot = None                  -> "MISS"
    [] shot # None /\ dive = None   -> "GOAL"
    [] shot # None /\ dive = shot   -> "SAVE"
    [] OTHER                        -> "GOAL"

TurnScore(score, kicker, outcome) ==
  IF outcome = "GOAL" THEN [score EXCEPT ![kicker] = @ + 1] ELSE score

Leader(score) == IF score["A"] > score["B"] THEN "A" ELSE "B"

BothTook(kicksTaken, n) == \A s \in Seats : kicksTaken[s] >= n

(* Seeded bug: sudden death ends on the first lead, mid-pair. *)
DecideFirstLead(kicksTaken, score, suddenDeathPair, inSuddenDeath) ==
  CASE ~BothTook(kicksTaken, RegulationKicks) -> "CONTINUE_REGULATION"
    [] OTHER -> IF score["A"] # score["B"] THEN "FINISHED"
                ELSE IF inSuddenDeath THEN "CONTINUE_SUDDEN_DEATH"
                                      ELSE "ENTER_SUDDEN_DEATH"

(* What follows a completed turn.  Sudden death ends only after a complete *)
(* pair with different scores.                                             *)
DecideMatchProgress(kicksTaken, score, suddenDeathPair, inSuddenDeath) ==
  LET level == score["A"] = score["B"]
  IN  IF inSuddenDeath
      THEN IF BothTook(kicksTaken, RegulationKicks + suddenDeathPair) /\ ~level
           THEN "FINISHED" ELSE "CONTINUE_SUDDEN_DEATH"
      ELSE IF ~BothTook(kicksTaken, RegulationKicks) THEN "CONTINUE_REGULATION"
           ELSE IF level THEN "ENTER_SUDDEN_DEATH" ELSE "FINISHED"

=============================================================================
