----------------------------- MODULE PenaltyRoom -----------------------------
(***************************************************************************)
(* One Penalty Duel room: apps/realtime/src/rooms/penalty-room.ts with the *)
(* DeadlineScheduler and SettlementCoordinator of packages/game-sdk, over  *)
(* the tables of Wallet.                                                   *)
(*                                                                         *)
(* The room is single-threaded: an action is what runs between two awaits. *)
(* An await on the database is a request in flight, so that timers,        *)
(* messages, joins and leaves of the same room run before its answer.  A   *)
(* call can fail before it commits, commit and lose its answer, or never   *)
(* come back because the process died.                                     *)
(***************************************************************************)
EXTENDS PenaltyRules, FiniteSets, Sequences

CONSTANTS
  UserA, UserB,  \* the users the lobby paired
  Bot,           \* occupant of seat B in a bot-filled match
  Match,         \* the match of this room
  Fee, Payout,   \* options.economy, the terms of the match row
  Wealth,        \* balances a player may come with
  MaxTurns,      \* bound: turns begun
  MaxFaults      \* bound: database calls that fail or lose their answer

ASSUME RoomAssumption ==
  /\ UserA # UserB
  /\ Bot \notin {UserA, UserB}
  /\ {Fee, Payout} \cup Wealth \subseteq Nat
  /\ MaxTurns \in Nat
  /\ MaxFaults \in Nat

VARIABLES
  (* the tables *)
  balance, ledger, status, terms, seats, refunded, winner, purchase, completing,
  outcomeEvent,   \* winnerSeat of the MATCH_FINISHED event, "none" before it
  results,        \* winner slot recorded in MatchPlayer.result and statistics
  (* the room *)
  phase, firstKicker, sequence, kicksTaken, score, suddenDeathPair, inSuddenDeath,
  pending,        \* [KICKER, GOALKEEPER -> intent], this.pending
  expired,        \* Date.now() >= activeDeadlineAt
  timers,         \* live timers of the DeadlineScheduler
  conn,           \* each seat: away, online, grace or gone; a bot is "bot"
  winnerSeat, finishReason,
  start,          \* how far startMatch is
  settle,         \* how far complete() of finish or abort is
  finalized,      \* SettlementCoordinator.finalized
  published,      \* terminalPublished
  (* the surroundings *)
  alive,          \* open, disposed or crashed
  shutdown,       \* a planned shutdown has begun
  faults          \* database faults still to come

walletVars == <<balance, ledger, status, terms, seats, refunded, winner,
                purchase, completing>>
recordVars == <<outcomeEvent, results>>
turnVars   == <<firstKicker, sequence, kicksTaken, score, suddenDeathPair,
                inSuddenDeath, pending, expired>>
endVars    == <<winnerSeat, finishReason, settle, finalized, published>>
envVars    == <<alive, shutdown, faults>>
vars == <<walletVars, recordVars, phase, turnVars, timers, conn, endVars, start, envVars>>

DB == INSTANCE Wallet WITH
  Users <- {UserA, UserB}, Matches <- {Match}, Purchases <- {}, Commands <- {},
  Economies <- {[fee |-> Fee, payout |-> Payout]}, StartingChips <- 0,
  Adjustments <- {}, Packs <- {}, MaxCompleters <- 0

-----------------------------------------------------------------------------
Phases == {"WAITING_FOR_PLAYERS", "STARTING", "AWAITING_ACTIONS",
           "REVEALING_RESULT", "FINISHED", "ABORTED"}

IsTerminal == phase \in {"FINISHED", "ABORTED"}

IsHuman(s)   == seats[Match][s] # Bot
Connected(s) == conn[s] \in {"online", "bot"}

(* An intent remembers the turn it was meant for: command.turnId of a      *)
(* client, the scheduling turn of a bot.                                   *)
NoIntent   == [dir |-> None, turn |-> 0]
NoIntents  == [r \in Roles |-> NoIntent]
Timer(k)   == [kind |-> k, turn |-> sequence]
Fault      == faults > 0 /\ faults' = faults - 1

TypeOK ==
  /\ DB!TypeOK
  /\ outcomeEvent \in Seats \cup {None}
  /\ results \in Seats \cup {None}
  /\ phase \in Phases
  /\ firstKicker \in Seats
  /\ sequence \in Nat
  /\ kicksTaken \in [Seats -> Nat]
  /\ score \in [Seats -> Nat]
  /\ suddenDeathPair \in Nat
  /\ inSuddenDeath \in BOOLEAN
  /\ pending \in [Roles -> [dir : Directions \cup {None}, turn : Nat]]
  /\ expired \in BOOLEAN
  /\ timers \subseteq [kind : {"connect", "turn", "bot", "reveal", "retry", "disconnect"},
                       turn : Nat]
  /\ conn \in [Seats -> {"away", "online", "grace", "gone", "bot"}]
  /\ winnerSeat \in Seats \cup {None}
  /\ finishReason \in {None, "REGULATION", "SUDDEN_DEATH", "FORFEIT", "ABORT"}
  /\ start \in {"idle", "deduct", "deducted", "deductFailed", "activate",
                "activated", "notWaiting", "activateFailed", "announce", "done"}
  /\ settle \in {"idle", "finishEvent", "pay", "keep", "stats", "refund",
                 "abortEvent", "retry", "done"}
  /\ finalized \in BOOLEAN
  /\ published \in BOOLEAN
  /\ alive \in {"open", "disposed", "crashed"}
  /\ shutdown \in BOOLEAN
  /\ faults \in 0..MaxFaults

(* The match row was just created and the room opened; nobody has joined.  *)
(* Each player comes with an account as provisionPlayer left it.           *)
Init ==
  /\ \E wealth \in [{UserA, UserB} -> Wealth] :
       /\ balance = wealth
       /\ ledger = [u \in {UserA, UserB} |-> <<[key          |-> DB!StartingKey(u),
                                                amount       |-> wealth[u],
                                                balanceAfter |-> wealth[u]]>>]
  /\ status = [m \in {Match} |-> "WAITING"]
  /\ terms = [m \in {Match} |-> [fee |-> Fee, payout |-> Payout]]
  /\ \E b \in {UserB, Bot} :
       /\ seats = [m \in {Match} |-> [s \in Seats |-> IF s = "A" THEN UserA ELSE b]]
       /\ conn = [s \in Seats |-> IF s = "B" /\ b = Bot THEN "bot" ELSE "away"]
  /\ refunded = [m \in {Match} |-> FALSE]
  /\ winner = [m \in {Match} |-> Bot]
  /\ purchase = [p \in {} |-> DB!NoPurchase]
  /\ completing = [p \in {} |-> 0]
  /\ outcomeEvent = None
  /\ results = None
  /\ phase = "WAITING_FOR_PLAYERS"
  /\ firstKicker = "A"
  /\ sequence = 0
  /\ kicksTaken = [s \in Seats |-> 0]
  /\ score = [s \in Seats |-> 0]
  /\ suddenDeathPair = 0
  /\ inSuddenDeath = FALSE
  /\ pending = NoIntents
  /\ expired = FALSE
  /\ timers = {[kind |-> "connect", turn |-> 0]}
  /\ winnerSeat = None
  /\ finishReason = None
  /\ start = "idle"
  /\ settle = "idle"
  /\ finalized = FALSE
  /\ published = FALSE
  /\ alive = "open"
  /\ shutdown = FALSE
  /\ faults = MaxFaults

-----------------------------------------------------------------------------
(* Ending the duel: the parts of finish and abort before their first await.*)

Finish(s, reason) ==
  /\ phase' = "FINISHED"
  /\ winnerSeat' = s
  /\ finishReason' = reason
  /\ timers' = {}
  /\ settle' = "finishEvent"
  /\ UNCHANGED <<finalized, published>>

Abort ==
  /\ phase' = "ABORTED"
  /\ finishReason' = "ABORT"
  /\ timers' = {}
  /\ settle' = "refund"
  /\ UNCHANGED <<winnerSeat, finalized, published>>

AbortUnlessTerminal ==
  IF IsTerminal THEN UNCHANGED <<phase, timers, endVars>> ELSE Abort

-----------------------------------------------------------------------------
(* Joining and leaving. *)

(* Seeded bug: every join clears the deadlines, the connect deadline too. *)
JoinClearsDeadlines(s) ==
  /\ alive = "open"
  /\ conn[s] = "away"
  /\ conn' = [conn EXCEPT ![s] = "online"]
  /\ timers' = {}
  /\ IF phase = "WAITING_FOR_PLAYERS" /\ Connected(OppositeSeat(s))
     THEN phase' = "STARTING" /\ start' = "deduct"
     ELSE UNCHANGED <<phase, start>>
  /\ UNCHANGED <<walletVars, recordVars, turnVars, endVars, envVars>>

(* onJoin of the authenticated owner of seat s; the last one starts the    *)
(* match.                                                                  *)
Join(s) ==
  /\ alive = "open"
  /\ conn[s] = "away"
  /\ conn' = [conn EXCEPT ![s] = "online"]
  /\ IF phase = "WAITING_FOR_PLAYERS" /\ Connected(OppositeSeat(s))
     THEN /\ phase' = "STARTING"
          /\ timers' = {}
          /\ start' = "deduct"
     ELSE UNCHANGED <<phase, timers, start>>
  /\ UNCHANGED <<walletVars, recordVars, turnVars, endVars, envVars>>

(* Seeded bug: the one who stayed is not looked at. *)
DepartAlwaysForfeits(s) ==
  CASE IsTerminal -> UNCHANGED <<phase, timers, endVars>>
    [] phase = "WAITING_FOR_PLAYERS" -> Abort
    [] OTHER -> Finish(OppositeSeat(s), "FORFEIT")

(* The catch block of onLeave: the seat is given up. *)
Depart(s) ==
  CASE IsTerminal -> UNCHANGED <<phase, timers, endVars>>
    [] phase = "WAITING_FOR_PLAYERS" -> Abort
    [] OTHER -> IF Connected(OppositeSeat(s))
                THEN Finish(OppositeSeat(s), "FORFEIT")
                ELSE Abort

LeaveConsented(s) ==
  /\ alive = "open"
  /\ conn[s] = "online"
  /\ conn' = [conn EXCEPT ![s] = "gone"]
  /\ Depart(s)
  /\ UNCHANGED <<walletVars, recordVars, turnVars, start, envVars>>

(* A dropped connection holds the seat, unless the duel is over. *)
Drop(s) ==
  /\ alive = "open"
  /\ conn[s] = "online"
  /\ conn' = [conn EXCEPT ![s] = IF IsTerminal THEN "gone" ELSE "grace"]
  /\ UNCHANGED <<walletVars, recordVars, phase, turnVars, timers, endVars, start, envVars>>

(* allowReconnection resolves.  The match is not started from here. *)
Reconnect(s) ==
  /\ alive = "open"
  /\ conn[s] = "grace"
  /\ conn' = [conn EXCEPT ![s] = "online"]
  /\ UNCHANGED <<walletVars, recordVars, phase, turnVars, timers, endVars, start, envVars>>

(* allowReconnection rejects. *)
GraceExpires(s) ==
  /\ alive = "open"
  /\ conn[s] = "grace"
  /\ conn' = [conn EXCEPT ![s] = "gone"]
  /\ Depart(s)
  /\ UNCHANGED <<walletVars, recordVars, turnVars, start, envVars>>

-----------------------------------------------------------------------------
(* Turns. *)

(* Seeded bug: the timers of the turn before are left running. *)
BeginTurnKeepingTimers(rest) ==
  /\ sequence' = sequence + 1
  /\ pending' = NoIntents
  /\ expired' = FALSE
  /\ phase' = "AWAITING_ACTIONS"
  /\ timers' = rest \cup {[kind |-> k, turn |-> sequence + 1] :
       k \in {"turn"} \cup (IF IsHuman("B") THEN {} ELSE {"bot"})}

(* beginNextTurn: rest are the timers alive when it is called. *)
BeginNextTurn(rest) ==
  /\ sequence' = sequence + 1
  /\ pending' = NoIntents
  /\ expired' = FALSE
  /\ phase' = "AWAITING_ACTIONS"
  /\ timers' = {[kind |-> k, turn |-> sequence + 1] :
       k \in {"turn"} \cup (IF IsHuman("B") THEN {} ELSE {"bot"})}

(* resolveTurn with the intents p; the turn timer is cleared, the bot's is *)
(* not.                                                                    *)
ResolveTurn(p, rest) ==
  LET kicker  == KickerOf(firstKicker, sequence)
      outcome == TurnOutcome(p["KICKER"].dir, p["GOALKEEPER"].dir)
  IN  /\ phase' = "REVEALING_RESULT"
      /\ pending' = p
      /\ score' = TurnScore(score, kicker, outcome)
      /\ kicksTaken' = [kicksTaken EXCEPT ![kicker] = @ + 1]
      /\ timers' = {t \in rest : t.kind # "turn"} \cup {Timer("reveal")}
      /\ UNCHANGED <<firstKicker, sequence, suddenDeathPair, inSuddenDeath, expired>>

(* applyAction in time: the first action of a role locks, the second lock  *)
(* resolves the turn.                                                      *)
Lock(role, intent, rest) ==
  LET p == [pending EXCEPT ![role] = intent]
  IN  /\ ~expired
      /\ pending[role] = NoIntent
      /\ IF \A r \in Roles : p[r] # NoIntent
         THEN ResolveTurn(p, rest)
         ELSE /\ pending' = p
              /\ timers' = rest
              /\ UNCHANGED <<phase, firstKicker, sequence, kicksTaken, score,
                             suddenDeathPair, inSuddenDeath, expired>>

(* handleSubmitAction for a command of seat s naming a turn, a role and a  *)
(* direction.  Every other command is answered with an error and changes   *)
(* nothing.                                                                *)
SubmitAction(s, turn, role, dir) ==
  /\ alive = "open"
  /\ conn[s] = "online"
  /\ phase = "AWAITING_ACTIONS"
  /\ turn = sequence
  /\ \/ expired /\ ResolveTurn(pending, timers)
     \/ /\ role = RoleOf(s, firstKicker, sequence)
        /\ Lock(role, [dir |-> dir, turn |-> turn], timers)
  /\ UNCHANGED <<walletVars, recordVars, conn, endVars, start, envVars>>

(* The clock passes activeDeadlineAt; no callback has run yet. *)
DeadlinePasses ==
  /\ phase = "AWAITING_ACTIONS"
  /\ ~expired
  /\ alive # "crashed"
  /\ expired' = TRUE
  /\ UNCHANGED <<walletVars, recordVars, phase, firstKicker, sequence, kicksTaken,
                 score, suddenDeathPair, inSuddenDeath, pending, timers, conn,
                 endVars, start, envVars>>

-----------------------------------------------------------------------------
(* Timer callbacks. *)

Fires(t) == alive # "crashed" /\ t \in timers

ConnectTimer(t) ==
  /\ Fires(t) /\ t.kind = "connect"
  /\ phase = "WAITING_FOR_PLAYERS"
  /\ Abort
  /\ UNCHANGED <<walletVars, recordVars, turnVars, conn, start, envVars>>

TurnTimer(t) ==
  /\ Fires(t) /\ t.kind = "turn"
  /\ IF t.turn = sequence /\ phase = "AWAITING_ACTIONS"
     THEN expired /\ ResolveTurn(pending, timers \ {t})
     ELSE timers' = timers \ {t} /\ UNCHANGED <<phase, turnVars>>
  /\ UNCHANGED <<walletVars, recordVars, conn, endVars, start, envVars>>

(* The bot acts in the role it had when the timer was set, without looking *)
(* at activeTurnId.                                                        *)
BotTimer(t, dir) ==
  LET role == RoleOf("B", firstKicker, t.turn)
      rest == timers \ {t}
  IN  /\ Fires(t) /\ t.kind = "bot"
      /\ CASE phase # "AWAITING_ACTIONS" ->
                timers' = rest /\ UNCHANGED <<phase, turnVars>>
           [] phase = "AWAITING_ACTIONS" /\ expired ->
                ResolveTurn(pending, rest)
           [] OTHER ->
                IF pending[role] = NoIntent
                THEN Lock(role, [dir |-> dir, turn |-> t.turn], rest)
                ELSE timers' = rest /\ UNCHANGED <<phase, turnVars>>
      /\ UNCHANGED <<walletVars, recordVars, conn, endVars, start, envVars>>

(* The decision the callback captured: nothing it depends on changes while *)
(* the result is shown.                                                    *)
Decision == DecideMatchProgress(kicksTaken, score, suddenDeathPair, inSuddenDeath)

RevealTimer(t) ==
  LET rest == timers \ {t}
      nextPair == CASE Decision = "ENTER_SUDDEN_DEATH" -> 1
                    [] Decision = "CONTINUE_SUDDEN_DEATH"
                       /\ BothTook(kicksTaken, RegulationKicks + suddenDeathPair)
                         -> suddenDeathPair + 1
                    [] OTHER -> suddenDeathPair
  IN  /\ Fires(t) /\ t.kind = "reveal"
      /\ phase = "REVEALING_RESULT"
      /\ IF Decision = "FINISHED"
         THEN /\ Finish(Leader(score), IF inSuddenDeath THEN "SUDDEN_DEATH" ELSE "REGULATION")
              /\ UNCHANGED turnVars
         ELSE /\ sequence < MaxTurns
              /\ suddenDeathPair' = nextPair
              /\ inSuddenDeath' = (inSuddenDeath \/ Decision = "ENTER_SUDDEN_DEATH")
              /\ BeginNextTurn(rest)
              /\ UNCHANGED <<firstKicker, kicksTaken, score, endVars>>
      /\ UNCHANGED <<walletVars, recordVars, conn, start, envVars>>

-----------------------------------------------------------------------------
(* startMatch after its synchronous part: deductEntries, the activation,   *)
(* the ROUND_STARTED event, the first turn.                                *)

DeductReply ==
  /\ start = "deduct" /\ alive # "crashed"
  /\ \/ /\ DB!DeductEntryFees(Match, Fee)
        /\ \/ start' = "deducted" /\ UNCHANGED faults
           \/ start' = "deductFailed" /\ Fault
     \/ /\ start' = "deductFailed"
        /\ \/ ~DB!CanDeductEntryFees(Match, Fee) /\ UNCHANGED faults
           \/ Fault
        /\ UNCHANGED walletVars
  /\ UNCHANGED <<recordVars, phase, turnVars, timers, conn, endVars, alive, shutdown>>

(* Seeded bug: the activation does not look at the status. *)
ActivateUnguarded ==
  /\ start = "activate" /\ alive # "crashed"
  /\ status' = [status EXCEPT ![Match] = "ACTIVE"]
  /\ start' = "activated"
  /\ UNCHANGED <<balance, ledger, terms, seats, refunded, winner, purchase, completing,
                 recordVars, phase, turnVars, timers, conn, endVars, envVars>>

ActivateReply ==
  /\ start = "activate" /\ alive # "crashed"
  /\ \/ /\ status[Match] = "WAITING"
        /\ status' = [status EXCEPT ![Match] = "ACTIVE"]
        /\ \/ start' = "activated" /\ UNCHANGED faults
           \/ start' = "activateFailed" /\ Fault
     \/ /\ start' = "notWaiting" /\ UNCHANGED faults
        /\ status[Match] # "WAITING"
        /\ UNCHANGED status
     \/ /\ start' = "activateFailed" /\ Fault
        /\ UNCHANGED status
  /\ UNCHANGED <<balance, ledger, terms, seats, refunded, winner, purchase, completing,
                 recordVars, phase, turnVars, timers, conn, endVars, alive, shutdown>>

(* startMatch resumes after the deduction. *)
StartAfterDeduction ==
  /\ alive # "crashed"
  /\ start = "deducted"
  /\ start' = IF IsTerminal THEN "done" ELSE "activate"
  /\ UNCHANGED <<walletVars, recordVars, phase, turnVars, timers, conn, endVars, envVars>>

(* startMatch resumes after the activation with one row updated. *)
StartAfterActivation ==
  /\ alive # "crashed"
  /\ start = "activated"
  /\ IF IsTerminal
     THEN start' = "done" /\ UNCHANGED firstKicker
     ELSE start' = "announce" /\ firstKicker' \in Seats
  /\ UNCHANGED <<walletVars, recordVars, phase, sequence, kicksTaken, score,
                 suddenDeathPair, inSuddenDeath, pending, expired, timers, conn,
                 endVars, envVars>>

(* The catch block of startMatch, or its return after an activation that   *)
(* found the duel over.                                                    *)
StartFails ==
  /\ alive # "crashed"
  /\ start \in {"deductFailed", "notWaiting", "activateFailed"}
  /\ start' = "done"
  /\ AbortUnlessTerminal
  /\ UNCHANGED <<walletVars, recordVars, turnVars, conn, envVars>>

(* Seeded bug: the first turn begins without asking whether the duel ended. *)
AnnounceRegardless ==
  /\ alive # "crashed"
  /\ start = "announce"
  /\ start' = "done"
  /\ BeginNextTurn(timers)
  /\ UNCHANGED <<firstKicker, kicksTaken, score, suddenDeathPair, inSuddenDeath>>
  /\ UNCHANGED <<walletVars, recordVars, conn, endVars, envVars>>

(* The ROUND_STARTED event is written, or is not. *)
AnnounceReply ==
  /\ alive # "crashed"
  /\ start = "announce"
  /\ start' = "done"
  /\ \/ /\ UNCHANGED <<faults, endVars>>
        /\ IF IsTerminal
           THEN UNCHANGED <<phase, turnVars, timers>>
           ELSE /\ BeginNextTurn(timers)
                /\ UNCHANGED <<firstKicker, kicksTaken, score, suddenDeathPair, inSuddenDeath>>
     \/ Fault /\ AbortUnlessTerminal /\ UNCHANGED turnVars
  /\ UNCHANGED <<walletVars, recordVars, conn, alive, shutdown>>

-----------------------------------------------------------------------------
(* complete() of finish and of abort.  Each step is one awaited call and   *)
(* the code after it; a call that throws schedules the retry.              *)

unsettledVars == <<winnerSeat, finishReason, published>>

(* Seeded bug: finalized is set in the finally block. *)
RetryLaterFinalized ==
  /\ Fault
  /\ settle' = "retry"
  /\ timers' = timers \cup {Timer("retry")}
  /\ finalized' = TRUE

(* Seeded bug: the failure is logged, and that is all. *)
RetryNever ==
  /\ Fault
  /\ settle' = "retry"
  /\ UNCHANGED <<timers, finalized>>

(* The call of this step throws. *)
RetryLater ==
  /\ Fault
  /\ settle' = "retry"
  /\ timers' = timers \cup {Timer("retry")}
  /\ UNCHANGED finalized

Goes(next) == settle' = next /\ UNCHANGED <<timers, faults>>

FinishEventReply ==
  /\ settle = "finishEvent" /\ alive # "crashed"
  /\ \/ /\ outcomeEvent' = winnerSeat
        /\ \/ Goes(IF IsHuman(winnerSeat) THEN "pay" ELSE "keep") /\ UNCHANGED finalized
           \/ RetryLater
     \/ RetryLater /\ UNCHANGED outcomeEvent
  /\ UNCHANGED <<walletVars, results, phase, turnVars, conn, unsettledVars,
                 start, alive, shutdown>>

(* payWinner.  The coordinator skips a duel it has already finalized; the  *)
(* database reports one already FINISHED as not paid again.                *)
PayReply ==
  LET w == seats[Match][winnerSeat]
  IN  /\ settle = "pay" /\ alive # "crashed"
      /\ CASE finalized ->
                Goes("stats") /\ UNCHANGED <<finalized, walletVars>>
           [] ~finalized /\ status[Match] = "FINISHED" ->
                /\ \/ Goes("stats") /\ finalized' = TRUE
                   \/ RetryLater
                /\ UNCHANGED walletVars
           [] ~finalized /\ DB!CanFinalizeMatchPayout(Match, w, Payout) ->
                \/ /\ DB!FinalizeMatchPayout(Match, w, Payout)
                   /\ \/ Goes("stats") /\ finalized' = TRUE
                      \/ RetryLater
                \/ RetryLater /\ UNCHANGED walletVars
           [] OTHER ->
                /\ settle' = "retry"
                /\ timers' = timers \cup {Timer("retry")}
                /\ UNCHANGED <<walletVars, finalized, faults>>
      /\ UNCHANGED <<recordVars, phase, turnVars, conn, unsettledVars, start, alive, shutdown>>

(* The update for a bot's win, whatever the status is. *)
KeepReply ==
  /\ settle = "keep" /\ alive # "crashed"
  /\ \/ /\ status' = [status EXCEPT ![Match] = "FINISHED"]
        /\ \/ Goes("stats") /\ finalized' = TRUE
           \/ RetryLater
     \/ RetryLater /\ UNCHANGED status
  /\ UNCHANGED <<balance, ledger, terms, seats, refunded, winner, purchase, completing,
                 recordVars, phase, turnVars, conn, unsettledVars, start, alive, shutdown>>

(* recordMatchOutcome under the lock of the match row: only a FINISHED     *)
(* match, and only once.                                                   *)
RecordOutcome(s) ==
  results' = IF status[Match] = "FINISHED" /\ results = None THEN s ELSE results

StatsReply ==
  /\ settle = "stats" /\ alive # "crashed"
  /\ \/ /\ RecordOutcome(winnerSeat)
        /\ \/ /\ settle' = "done"
              /\ published' = TRUE
              /\ timers' = timers \cup {Timer("disconnect")}
              /\ UNCHANGED <<faults, finalized>>
           \/ RetryLater /\ UNCHANGED published
     \/ RetryLater /\ UNCHANGED <<results, published>>
  /\ UNCHANGED <<walletVars, outcomeEvent, phase, turnVars, conn, winnerSeat,
                 finishReason, start, alive, shutdown>>

RefundReply ==
  /\ settle = "refund" /\ alive # "crashed"
  /\ CASE finalized ->
            Goes("abortEvent") /\ UNCHANGED <<finalized, walletVars>>
       [] ~finalized /\ refunded[Match] ->
            /\ \/ Goes("abortEvent") /\ finalized' = TRUE
               \/ RetryLater
            /\ UNCHANGED walletVars
       [] ~finalized /\ DB!CanRefundAbortedMatch(Match) ->
            \/ /\ DB!RefundAbortedMatch(Match)
               /\ \/ Goes("abortEvent") /\ finalized' = TRUE
                  \/ RetryLater
            \/ RetryLater /\ UNCHANGED walletVars
       [] OTHER ->
            /\ settle' = "retry"
            /\ timers' = timers \cup {Timer("retry")}
            /\ UNCHANGED <<walletVars, finalized, faults>>
  /\ UNCHANGED <<recordVars, phase, turnVars, conn, unsettledVars, start, alive, shutdown>>

AbortEventReply ==
  /\ settle = "abortEvent" /\ alive # "crashed"
  /\ \/ /\ settle' = "done"
        /\ published' = TRUE
        /\ timers' = timers \cup {Timer("disconnect")}
        /\ UNCHANGED <<faults, finalized>>
     \/ RetryLater /\ UNCHANGED published
  /\ UNCHANGED <<walletVars, recordVars, phase, turnVars, conn, winnerSeat,
                 finishReason, start, alive, shutdown>>

RetryTimer(t) ==
  /\ Fires(t) /\ t.kind = "retry"
  /\ settle' = IF phase = "FINISHED" THEN "finishEvent" ELSE "refund"
  /\ timers' = timers \ {t}
  /\ UNCHANGED <<walletVars, recordVars, phase, turnVars, conn, winnerSeat,
                 finishReason, finalized, published, start, envVars>>

-----------------------------------------------------------------------------
(* The end of the room, of the process, and the repair after it. *)

Dispose ==
  /\ alive' = "disposed"
  /\ timers' = {}
  /\ UNCHANGED <<walletVars, recordVars, phase, turnVars, conn, endVars, start>>

DisconnectTimer(t) ==
  /\ Fires(t) /\ t.kind = "disconnect"
  /\ Dispose
  /\ UNCHANGED <<shutdown, faults>>

(* Seeded bug: a shutdown aborts finished duels too. *)
ShutdownAborts ==
  /\ alive = "open" /\ ~shutdown
  /\ shutdown' = TRUE
  /\ Abort
  /\ UNCHANGED <<walletVars, recordVars, turnVars, conn, start, alive, faults>>

(* onBeforeShutdown. *)
BeforeShutdown ==
  /\ alive = "open" /\ ~shutdown
  /\ shutdown' = TRUE
  /\ UNCHANGED faults
  /\ CASE ~IsTerminal ->
            /\ Abort
            /\ UNCHANGED <<walletVars, recordVars, turnVars, conn, start, alive>>
       [] IsTerminal /\ published -> Dispose
       [] OTHER ->
            UNCHANGED <<walletVars, recordVars, phase, turnVars, timers, conn,
                        endVars, start, alive>>

Crash ==
  /\ alive = "open"
  /\ alive' = "crashed"
  /\ timers' = {}
  /\ UNCHANGED <<walletVars, recordVars, phase, turnVars, conn, endVars, start,
                 shutdown, faults>>

(* recoverPenaltyOutcomes, of this process or of the one that follows it.  *)
RecoverOutcome ==
  /\ status[Match] = "FINISHED"
  /\ results = None
  /\ outcomeEvent # None
  /\ RecordOutcome(outcomeEvent)
  /\ UNCHANGED <<walletVars, outcomeEvent, phase, turnVars, timers, conn, endVars,
                 start, envVars>>

-----------------------------------------------------------------------------
PlayerStep ==
  \/ \E s \in Seats : Join(s) \/ LeaveConsented(s) \/ Drop(s) \/ Reconnect(s)
  \/ \E s \in Seats, turn \in 1..MaxTurns, role \in Roles, dir \in Directions :
       SubmitAction(s, turn, role, dir)

StartStep ==
  \/ DeductReply \/ ActivateReply \/ StartAfterDeduction \/ StartAfterActivation
  \/ StartFails \/ AnnounceReply

SettleStep ==
  \/ FinishEventReply \/ PayReply \/ KeepReply \/ StatsReply
  \/ RefundReply \/ AbortEventReply

TimerStep ==
  \/ \E t \in timers :
       \/ ConnectTimer(t) \/ TurnTimer(t) \/ RevealTimer(t) \/ RetryTimer(t)
       \/ DisconnectTimer(t)
       \/ \E dir \in Directions : BotTimer(t, dir)
  \/ \E s \in Seats : GraceExpires(s)
  \/ DeadlinePasses

Next == PlayerStep \/ StartStep \/ SettleStep \/ TimerStep
        \/ BeforeShutdown \/ Crash \/ RecoverOutcome

Spec == Init /\ [][Next]_vars

(* The database answers, the event loop runs what is due, and the recovery *)
(* loop runs again and again.  Nothing is assumed of the players.          *)
Fairness ==
  /\ WF_vars(StartStep)
  /\ WF_vars(SettleStep)
  /\ WF_vars(TimerStep)
  /\ WF_vars(RecoverOutcome)

FairSpec == Spec /\ Fairness

-----------------------------------------------------------------------------
(* What a seated client is sent: the part of buildSnapshot that tells how   *)
(* far the duel is and who won it.  It is sent on request at any time.     *)
BuildSnapshot ==
  [phase        |-> IF IsTerminal /\ ~published THEN "NEXT_TURN" ELSE phase,
   scores       |-> score,
   sequence     |-> sequence,
   locked       |-> [r \in Roles |-> pending[r] # NoIntent],
   winnerSeat   |-> winnerSeat,
   finishReason |-> finishReason]

=============================================================================
