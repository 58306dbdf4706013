-------------------------- MODULE RpsRoomProperties --------------------------
(* What a Rock Paper Scissors room must do, over the room and its tables.  *)
EXTENDS RpsRoom

Players == DB!Humans(Match)

-----------------------------------------------------------------------------
(* Safety. *)

(* The prize goes to the player the room declared, who has the wins for    *)
(* it, and the statistics name the same player.  A match the room aborts   *)
(* is never paid and one it finishes is never refunded, whichever stale    *)
(* timers run after the end.                                               *)
SettlementFollowsVerdict ==
  /\ \A u \in Players : DB!Holds(u, DB!PayoutKey(Match)) =>
       /\ rstatus = "FINISHED"
       /\ Occupant(winnerSlot) = u
       /\ score[winnerSlot] = RequiredWins
  /\ results # None => status[Match] = "FINISHED" /\ results = winnerSlot
  /\ rstatus = "ABORTED" => status[Match] # "FINISHED"
  /\ rstatus # "ABORTED" => status[Match] # "ABORTED"

(* Every step of the room is a step of the wallet tables as Wallet allows  *)
(* them; in particular its activation, which does not look at the row.     *)
ImplementsWallet == [][DB!Next]_walletVars

-----------------------------------------------------------------------------
(* Liveness. *)

(* Every round ends, even if nobody chooses: the match goes on to the last *)
(* round of the instance, or ends before it.                               *)
RoundsEnd ==
  rstatus = "ACTIVE" ~> (rstatus # "ACTIVE" \/ round = MaxRounds \/ crashed)

(* docs/architecture.md: the winner is paid.  As long as no call failed    *)
(* every verdict reaches the match row, whichever stale timer comes in     *)
(* between.                                                                *)
Decided == rstatus \in {"FINISHED", "ABORTED"}
VerdictSettles ==
  Decided ~> (status[Match] \in DB!Terminal \/ crashed \/ faults < MaxFaults)

-----------------------------------------------------------------------------
(* Claims of the documentation that the code does not meet. *)

(* README.md: play best-of-three.  Whoever wins the match has won the      *)
(* required number of its rounds.                                          *)
WinnerWonRequiredRounds ==
  rstatus = "FINISHED" =>
    Cardinality({r \in 1..round : outcomes[r] = winnerSlot}) >= RequiredWins

(* docs/demo-readiness-2026-09-09.md: a failed write of the reconnect      *)
(* event cannot cost a restored player the match.  A match that was being  *)
(* played is aborted only when somebody is gone.                           *)
AbortNeedsAbsentee ==
  [][rstatus = "ACTIVE" /\ rstatus' = "ABORTED" => \E s \in Slots : conn'[s] = "gone"]_vars

(* docs/security-review-2026-09-08.md: temporary failures of a payout or   *)
(* refund are retried.  Every verdict is settled, whatever call fails.     *)
FailuresAreRetried ==
  Decided ~> (status[Match] \in DB!Terminal \/ crashed)

-----------------------------------------------------------------------------
(* The inductive invariant RpsRoomProofs proves: what each part of the     *)
(* room knows of the others, whatever ran while it awaited the database.   *)

TypeOK ==
  /\ DB!TypeOK
  /\ results \in Slots \cup {None}
  /\ rstatus \in {"WAITING", "ACTIVE", "FINISHED", "ABORTED"}
  /\ round \in Nat
  /\ outcomes \in Seq({"DRAW", None} \cup Slots)
  /\ choice \in [Slots -> Choices \cup {None}]
  /\ score \in [Slots -> Nat]
  /\ winnerSlot \in Slots \cup {None}
  /\ conn \in [Slots -> {"away", "online", "grace", "gone", "bot"}]
  /\ audits \subseteq Slots
  /\ roundTimer \in BOOLEAN
  /\ starts \in Nat
  /\ bots \in Nat
  /\ activation \in {"deduct", "activate", "done"}
  /\ settle \in {"idle", "finishEvent", "pay", "keep", "stats", "refund",
                 "abortEvent", "failed", "done"}
  /\ finalized \in BOOLEAN
  /\ crashed \in BOOLEAN
  /\ faults \in 0..MaxFaults

(* The row of the match is what the lobby made it. *)
RowInv ==
  /\ terms[Match] = [fee |-> Fee, payout |-> Payout]
  /\ seats[Match]["A"] = UserA /\ seats[Match]["B"] \in {UserB, Bot}

(* The match waits while activateMatch runs, and the row waits with it.    *)
ActivationInv ==
  /\ activation = "done" <=> rstatus # "WAITING"
  /\ activation = "activate" => DB!Staked(Match)
  /\ rstatus = "WAITING" => status[Match] = "WAITING"
  /\ rstatus = "ACTIVE" => status[Match] = "ACTIVE"

(* The match ends with the round that gives somebody the required wins,    *)
(* and the settlement is of that end.                                      *)
VerdictInv ==
  /\ rstatus = "FINISHED" <=> winnerSlot # None
  /\ IF rstatus = "FINISHED" THEN score[winnerSlot] = RequiredWins
                             ELSE \A s \in Slots : score[s] < RequiredWins
  /\ settle = "idle" <=> rstatus \in {"WAITING", "ACTIVE"}
  /\ finalized => settle # "idle"
  /\ settle \in {"finishEvent", "pay", "keep", "stats"} => rstatus = "FINISHED"
  /\ settle \in {"refund", "abortEvent"} => rstatus = "ABORTED"
  /\ settle = "keep" => ~IsHuman(winnerSlot)

(* The row is settled as the verdict says, after the steps before it.      *)
SettledInv ==
  /\ status[Match] = "FINISHED" => rstatus = "FINISHED"
  /\ status[Match] = "ABORTED" => rstatus = "ABORTED"
  /\ settle \in {"finishEvent", "pay", "keep"} => status[Match] = "ACTIVE"
  /\ settle = "stats" => status[Match] = "FINISHED"
  /\ winner[Match] # Bot => rstatus = "FINISHED" /\ winner[Match] = Occupant(winnerSlot)
  /\ results # None => results = winnerSlot /\ status[Match] = "FINISHED"

(* The types, the invariant of the tables, and all of the above. *)
RpsInv ==
  /\ TypeOK
  /\ DB!IInv
  /\ RowInv
  /\ ActivationInv
  /\ VerdictInv
  /\ SettledInv

=============================================================================
