------------------------ MODULE PenaltyRoomProperties ------------------------
(* What a Penalty Duel room must do, stated over the room and its tables.  *)
EXTENDS PenaltyRoom

-----------------------------------------------------------------------------
(* Safety. *)

Entered(u) == DB!Holds(u, DB!EntryKey(Match, u))
Players    == DB!Humans(Match)

(* No late callback can act on a turn that is over: while a turn is        *)
(* played only its own timers are live, while a result is shown there is   *)
(* exactly one reveal, of that turn, and a finished duel has only the      *)
(* timers of its settlement.  Nor does a delayed command or a bot's timer  *)
(* of an earlier turn lock in a later one: what a turn is resolved with    *)
(* was chosen for that very turn.                                          *)
TurnsAreIsolated ==
  /\ \A r \in Roles : pending[r] # NoIntent => pending[r].turn = sequence
  /\ alive = "open" =>
       /\ \A t \in timers : t.turn = sequence
       /\ IsTerminal => \A t \in timers : t.kind \in {"retry", "disconnect"}
       /\ phase = "REVEALING_RESULT" => {t \in timers : t.kind = "reveal"} = {Timer("reveal")}
       /\ phase = "AWAITING_ACTIONS" =>
            Timer("turn") \in timers /\ \A t \in timers : t.kind \in {"turn", "bot"}

(* A duel is forfeited only to a player who is there, by one who is not.   *)
ForfeitToConnected ==
  [][finishReason' = "FORFEIT" /\ finishReason = None =>
       /\ conn'[winnerSeat'] \in {"online", "bot"}
       /\ conn'[OppositeSeat(winnerSeat')] = "gone"]_vars

(* No turn is played for free, and none after a cancellation: while turns  *)
(* are played the match row is ACTIVE and every human has paid.            *)
PlayIsPaidFor ==
  phase \in {"AWAITING_ACTIONS", "REVEALING_RESULT"} =>
    /\ status[Match] = "ACTIVE"
    /\ \A u \in Players : Entered(u)

(* The prize goes to the player the room declared, who is also the one the *)
(* statistics name, and only for a duel the room finished.  A duel the     *)
(* room aborts is never paid, and one it finishes is never refunded,       *)
(* whatever was in flight when it ended.                                   *)
SettlementFollowsVerdict ==
  /\ \A u \in Players : DB!Holds(u, DB!PayoutKey(Match)) =>
       phase = "FINISHED" /\ seats[Match][winnerSeat] = u
  /\ results # None =>
       /\ phase = "FINISHED" /\ results = winnerSeat /\ status[Match] = "FINISHED"
       /\ IsHuman(results) => winner[Match] = seats[Match][results]
  /\ phase = "ABORTED" => status[Match] # "FINISHED"
  /\ phase # "ABORTED" => status[Match] # "ABORTED"

(* What is announced has happened: a result is published only after the    *)
(* prize and the statistics were recorded, an abort only after every       *)
(* charged player was refunded.                                            *)
PublishedMeansSettled ==
  published =>
    /\ phase = "FINISHED" =>
         /\ status[Match] = "FINISHED"
         /\ results = winnerSeat
         /\ IsHuman(winnerSeat) =>
              DB!Holds(seats[Match][winnerSeat], DB!PayoutKey(Match))
    /\ phase = "ABORTED" =>
         /\ status[Match] = "ABORTED"
         /\ \A u \in Players : Entered(u) /\ Fee > 0 => DB!Holds(u, DB!RefundKey(Match, u))

(* Every step of the room is a step of the wallet tables as Wallet allows  *)
(* them: the room's own unguarded updates break none of its rules.         *)
ImplementsWallet == [][DB!Next]_walletVars

(* The room plays a shoot-out. *)
Duel == INSTANCE Shootout WITH
  taken   <- kicksTaken,
  goals   <- score,
  opener  <- IF \A s \in Seats : kicksTaken[s] = 0 THEN "none" ELSE firstKicker,
  verdict <- [winner |-> winnerSeat, reason |-> finishReason]

(* Timers, commands, locks and phases implement the rules of the game: the *)
(* sides kick in turn, each turn counts once, and a winner leads after     *)
(* equal kicks, unless the other side forfeits.                            *)
ImplementsShootout == Duel!Spec

-----------------------------------------------------------------------------
(* Liveness. *)

Down == alive = "crashed"

(* Nobody can hold the room up: again and again it is neither waiting for  *)
(* players, who may not show up, nor for the actions of a turn, even if    *)
(* nobody acts.                                                            *)
RoomMovesOn ==
  []<>(phase \notin {"WAITING_FOR_PLAYERS", "AWAITING_ACTIONS"} \/ Down)

(* A cancelled duel is refunded, and a duel that was played is paid out,   *)
(* and the room then says so and closes, in spite of failing calls.        *)
VerdictsSettle ==
  (phase = "ABORTED" \/ (phase = "FINISHED" /\ sequence > 0)) ~> (published \/ Down)

-----------------------------------------------------------------------------
(* Claims of the documentation that the code does not meet. *)

(* docs/penalty-duel.md: grace expiry or a leave is a forfeit for the      *)
(* connected opponent, settled once.                                       *)
ForfeitsSettle == (finishReason = "FORFEIT") ~> (published \/ Down)

(* docs/security-review-2026-09-08.md: a final result is not published     *)
(* unpaid.  A seated client can ask for a snapshot at any time.            *)
NoUnpaidResultShown ==
  (alive = "open" /\ (\E s \in Seats : conn[s] = "online") /\ BuildSnapshot.winnerSeat # None)
    => status[Match] = "FINISHED"

-----------------------------------------------------------------------------
(* The inductive invariant PenaltyRoomProofs proves: what each part of the *)
(* room knows of the others, whatever ran while it awaited the database.   *)

(* The row of the match is what the lobby made it. *)
RowInv ==
  /\ terms[Match] = [fee |-> Fee, payout |-> Payout]
  /\ seats[Match]["A"] = UserA /\ seats[Match]["B"] \in {UserB, Bot}

(* startMatch runs once, beside the phase STARTING unless the duel ends    *)
(* meanwhile; until then the row follows it.                               *)
StartInv ==
  /\ phase = "WAITING_FOR_PLAYERS" => start = "idle"
  /\ phase = "STARTING" => start \notin {"idle", "notWaiting", "done"}
  /\ phase \in {"AWAITING_ACTIONS", "REVEALING_RESULT"} => start = "done"
  /\ start \in {"deducted", "activate"} => \A u \in Players : Entered(u)
  /\ ~IsTerminal =>
       /\ start \in {"idle", "deduct", "deducted", "deductFailed", "activate"} =>
            status[Match] = "WAITING"
       /\ start = "activateFailed" => status[Match] \in {"WAITING", "ACTIVE"}
       /\ start \in {"activated", "announce", "done"} => status[Match] = "ACTIVE"

(* The verdict is the end of the duel, and the settlement is of it. *)
VerdictInv ==
  /\ winnerSeat # None <=> phase = "FINISHED"
  /\ finishReason = None <=> ~IsTerminal
  /\ finishReason = "ABORT" <=> phase = "ABORTED"
  /\ settle = "idle" <=> ~IsTerminal
  /\ settle \in {"finishEvent", "pay", "keep", "stats"} => phase = "FINISHED"
  /\ settle \in {"refund", "abortEvent"} => phase = "ABORTED"
  /\ settle = "pay" => IsHuman(winnerSeat)
  /\ settle = "keep" => ~IsHuman(winnerSeat)
  /\ outcomeEvent # None => outcomeEvent = winnerSeat

(* The row is settled as the verdict says, and each step of complete()     *)
(* comes after what the ones before it did to the tables.                  *)
SettledInv ==
  /\ status[Match] = "FINISHED" => phase = "FINISHED"
  /\ status[Match] = "ABORTED" => phase = "ABORTED"
  /\ status[Match] = "FINISHED" /\ IsHuman(winnerSeat) =>
       winner[Match] = seats[Match][winnerSeat]
  /\ winner[Match] # Bot =>
       /\ phase = "FINISHED" /\ winner[Match] = seats[Match][winnerSeat]
       /\ DB!Holds(winner[Match], DB!PayoutKey(Match))
  /\ settle \in {"stats", "abortEvent"} \/ finalized \/ published =>
       status[Match] \in {"FINISHED", "ABORTED"}
  /\ results # None => results = winnerSeat /\ status[Match] = "FINISHED"
  /\ published => IsTerminal /\ settle = "done" /\ (phase = "FINISHED" => results = winnerSeat)

(* Which timers there are, by phase and settlement. *)
TimerInv ==
  /\ alive # "open" => timers = {}
  /\ alive = "disposed" => settle = "done"
  /\ \A t \in timers :
       /\ t.turn = sequence
       /\ t.kind = "retry" => settle = "retry"
       /\ t.kind = "disconnect" => settle = "done" /\ published
       /\ IsTerminal => t.kind \in {"retry", "disconnect"}
       /\ phase = "WAITING_FOR_PLAYERS" => t.kind = "connect"
       /\ phase # "STARTING"
       /\ phase = "REVEALING_RESULT" => t.kind \in {"reveal", "bot"}
       /\ phase = "AWAITING_ACTIONS" => t.kind \in {"turn", "bot"}
  /\ alive = "open" =>
       /\ phase = "REVEALING_RESULT" => Timer("reveal") \in timers
       /\ phase = "AWAITING_ACTIONS" => Timer("turn") \in timers

(* What is locked was meant for this turn. *)
PendingInv == \A r \in Roles : pending[r] # NoIntent => pending[r].turn = sequence

(* The sides have kicked in turn, n times together; in sudden death they   *)
(* are in its suddenDeathPair-th pair.                                     *)
InTurn(n) ==
  LET kf == kicksTaken[firstKicker]
      ko == kicksTaken[OppositeSeat(firstKicker)]
  IN  /\ kf + ko = n /\ kf \in {ko, ko + 1}
      /\ IF inSuddenDeath
         THEN /\ suddenDeathPair > 0 /\ kf <= RegulationKicks + suddenDeathPair
              /\ ko >= RegulationKicks + suddenDeathPair - 1
         ELSE suddenDeathPair = 0 /\ kf <= RegulationKicks

(* While a turn is awaited the duel is not decided. *)
KickInv ==
  /\ phase \in {"WAITING_FOR_PLAYERS", "STARTING"} =>
       /\ sequence = 0 /\ suddenDeathPair = 0 /\ ~inSuddenDeath
       /\ \A s \in Seats : kicksTaken[s] = 0 /\ score[s] = 0
  /\ phase = "AWAITING_ACTIONS" =>
       /\ sequence > 0 /\ InTurn(sequence - 1)
       /\ IF inSuddenDeath
          THEN /\ ~BothTook(kicksTaken, RegulationKicks + suddenDeathPair)
               /\ kicksTaken["A"] = kicksTaken["B"] => score["A"] = score["B"]
          ELSE ~BothTook(kicksTaken, RegulationKicks)
  /\ phase = "REVEALING_RESULT" =>
       /\ sequence > 0 /\ InTurn(sequence)
       /\ inSuddenDeath =>
            kicksTaken[firstKicker] = RegulationKicks + suddenDeathPair

(* The types, the invariant of the tables, and all of the above. *)
RoomInv ==
  /\ TypeOK
  /\ DB!IInv
  /\ RowInv
  /\ StartInv
  /\ VerdictInv
  /\ SettledInv
  /\ TimerInv
  /\ PendingInv
  /\ KickInv

=============================================================================
