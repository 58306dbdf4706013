------------------------------- MODULE RpsRoom -------------------------------
(***************************************************************************)
(* One Rock Paper Scissors room: apps/realtime/src/rooms/rps-room.ts over  *)
(* the tables of Wallet.  An action is what runs between two awaits, as in *)
(* PenaltyRoom.  Disposal is not an action: it refuses joins, which a      *)
(* player may never attempt anyway, and cancels none of the room's timers. *)
(***************************************************************************)
EXTENDS RpsRules, FiniteSets, Sequences

CONSTANTS
  UserA, UserB,  \* the users the lobby paired
  Bot,           \* occupant of PLAYER2 in a bot-filled match
  Match,         \* the match of this room
  Fee, Payout,   \* the terms of the match row, from the game's configuration
  EnvPayout,     \* economy.rpsWinnerPayout, from the environment
  Wealth,        \* balances a player may come with
  MaxRounds,     \* bound: rounds started
  MaxFaults      \* bound: database calls that fail or lose their answer

ASSUME RpsAssumption ==
  /\ UserA # UserB
  /\ Bot \notin {UserA, UserB}
  /\ {Fee, Payout, EnvPayout} \cup Wealth \subseteq Nat
  /\ MaxRounds \in Nat
  /\ MaxFaults \in Nat

VARIABLES
  (* the tables *)
  balance, ledger, status, terms, seats, refunded, winner, purchase, completing,
  results,      \* winner recorded in MatchPlayer.result and the statistics
  (* the room *)
  rstatus,      \* state.status (RESOLVING does not outlive its callback)
  round,        \* state.currentRound
  outcomes,     \* state.rounds[..].outcome
  choice,       \* each player's choice; locked unless "none"
  score,
  winnerSlot,
  conn,         \* away, online, grace or gone; a bot is "bot"
  audits,       \* players whose RECONNECT event is being written
  roundTimer,   \* this.roundTimer is running
  starts,       \* setTimeout(startRound, 1500) still to run
  bots,         \* bot timers still to run
  activation,   \* how far activateMatch is
  settle,       \* how far finishMatch or abortMatch is
  finalized,    \* SettlementCoordinator.finalized
  (* the surroundings *)
  crashed, faults

walletVars == <<balance, ledger, status, terms, seats, refunded, winner,
                purchase, completing>>
playVars   == <<round, outcomes, choice, score, roundTimer, starts, bots>>
seatVars   == <<conn, audits>>
endVars    == <<rstatus, winnerSlot, settle, finalized>>
envVars    == <<crashed, faults>>
vars == <<walletVars, results, playVars, seatVars, activation, endVars, envVars>>

DB == INSTANCE Wallet WITH
  Users <- {UserA, UserB}, Matches <- {Match}, Purchases <- {}, Commands <- {},
  Economies <- {[fee |-> Fee, payout |-> Payout]}, StartingChips <- 0,
  Adjustments <- {}, Packs <- {}, MaxCompleters <- 0

Occupant(slot) == seats[Match][IF slot = "PLAYER1" THEN "A" ELSE "B"]
IsHuman(slot)  == Occupant(slot) # Bot
Fault          == faults > 0 /\ faults' = faults - 1
NoChoices      == [s \in Slots |-> None]

(* Both players have accounts; the room is created and activateMatch has   *)
(* asked for the entry fees.  Nobody has joined.                           *)
Init ==
  /\ \E wealth \in [{UserA, UserB} -> Wealth] :
       /\ balance = wealth
       /\ ledger = [u \in {UserA, UserB} |-> <<[key          |-> DB!StartingKey(u),
                                                amount       |-> wealth[u],
                                                balanceAfter |-> wealth[u]]>>]
  /\ status = [m \in {Match} |-> "WAITING"]
  /\ terms = [m \in {Match} |-> [fee |-> Fee, payout |-> Payout]]
  /\ \E b \in {UserB, Bot} :
       /\ seats = [m \in {Match} |-> [s \in {"A", "B"} |-> IF s = "A" THEN UserA ELSE b]]
       /\ conn = [s \in Slots |-> IF s = "PLAYER2" /\ b = Bot THEN "bot" ELSE "away"]
  /\ refunded = [m \in {Match} |-> FALSE]
  /\ winner = [m \in {Match} |-> Bot]
  /\ purchase = [p \in {} |-> DB!NoPurchase]
  /\ completing = [p \in {} |-> 0]
  /\ audits = {}
  /\ results = None
  /\ rstatus = "WAITING"
  /\ round = 0
  /\ outcomes = <<>>
  /\ choice = NoChoices
  /\ score = [s \in Slots |-> 0]
  /\ winnerSlot = None
  /\ roundTimer = FALSE
  /\ starts = 0
  /\ bots = 0
  /\ activation = "deduct"
  /\ settle = "idle"
  /\ finalized = FALSE
  /\ crashed = FALSE
  /\ faults = MaxFaults

-----------------------------------------------------------------------------
(* Rounds. *)

(* Seeded bug: the deadline of the round is not set. *)
StartRoundWithoutTimer ==
  /\ round < MaxRounds
  /\ round' = round + 1
  /\ outcomes' = Append(outcomes, None)
  /\ choice' = NoChoices
  /\ roundTimer' = FALSE
  /\ bots' = IF ~IsHuman("PLAYER2") /\ rstatus' = "ACTIVE" THEN bots + 1 ELSE bots
  /\ UNCHANGED score

(* startRound: it does not look at the status. *)
StartRound ==
  /\ round < MaxRounds
  /\ round' = round + 1
  /\ outcomes' = Append(outcomes, None)
  /\ choice' = NoChoices
  /\ roundTimer' = TRUE
  /\ bots' = IF ~IsHuman("PLAYER2") /\ rstatus' = "ACTIVE" THEN bots + 1 ELSE bots
  /\ UNCHANGED score

(* The outcome with choices c; whoever did not choose loses to who did.    *)
RoundOutcome(c) ==
  CASE c["PLAYER1"] # None /\ c["PLAYER2"] # None ->
         ResolveRpsRound(c["PLAYER1"], c["PLAYER2"])
    [] c["PLAYER1"] # None /\ c["PLAYER2"] = None -> "PLAYER1"
    [] c["PLAYER1"] = None /\ c["PLAYER2"] # None -> "PLAYER2"
    [] OTHER -> "DRAW"

(* resolveCurrentRound of an ACTIVE room with choices c, and the part of   *)
(* finishMatch before its first await.  Otherwise the room stays ACTIVE,   *)
(* choices and all, until the timer starts the next round.                 *)
ResolveCurrentRound(c) ==
  LET outcome == RoundOutcome(c)
      over    == IsMatchComplete(score')
  IN  /\ choice' = c
      /\ outcomes' = [outcomes EXCEPT ![round] = outcome]
      /\ score' = [s \in Slots |-> IF s = outcome THEN score[s] + 1 ELSE score[s]]
      /\ roundTimer' = FALSE
      /\ IF over # None
         THEN /\ starts' = starts
              /\ IF finalized
                 THEN UNCHANGED endVars
                 ELSE /\ rstatus' = "FINISHED"
                      /\ winnerSlot' = over
                      /\ settle' = "finishEvent"
                      /\ UNCHANGED finalized
         ELSE /\ starts' = starts + 1
              /\ UNCHANGED endVars
      /\ UNCHANGED round

(* handleChoice, for a human and for the bot: the first choice locks, the  *)
(* second lock resolves the round.                                         *)
HandleChoice(slot, c) ==
  LET new == [choice EXCEPT ![slot] = c]
  IN  /\ rstatus = "ACTIVE"
      /\ choice[slot] = None
      /\ IF \A s \in Slots : new[s] # None
         THEN ResolveCurrentRound(new)
         ELSE /\ choice' = new
              /\ UNCHANGED <<round, outcomes, score, roundTimer, starts, endVars>>

SubmitChoice(slot, c) ==
  /\ ~crashed
  /\ conn[slot] = "online"
  /\ HandleChoice(slot, c)
  /\ UNCHANGED <<walletVars, results, bots, seatVars, activation, envVars>>

(* The timer of some round of the bot: it acts in whatever round it meets. *)
BotTimer(c) ==
  /\ ~crashed
  /\ bots > 0
  /\ bots' = bots - 1
  /\ IF choice["PLAYER2"] = None /\ rstatus = "ACTIVE"
     THEN HandleChoice("PLAYER2", c)
     ELSE UNCHANGED <<round, outcomes, choice, score, roundTimer, starts, endVars>>
  /\ UNCHANGED <<walletVars, results, seatVars, activation, envVars>>

(* The deadline is 15 s after startRound; the bot acts within 2 s and the  *)
(* next startRound comes within 1.5 s, so theirs are due before it.        *)
RoundTimer ==
  /\ ~crashed
  /\ roundTimer /\ bots = 0 /\ starts = 0
  /\ IF rstatus = "ACTIVE"
     THEN ResolveCurrentRound(choice)
     ELSE /\ roundTimer' = FALSE
          /\ UNCHANGED <<round, outcomes, choice, score, starts, endVars>>
  /\ UNCHANGED <<walletVars, results, bots, seatVars, activation, envVars>>

(* setTimeout(() => this.startRound(), 1500): never cancelled. *)
StartTimer ==
  /\ ~crashed
  /\ starts > 0
  /\ starts' = starts - 1
  /\ UNCHANGED endVars
  /\ StartRound
  /\ UNCHANGED <<walletVars, results, seatVars, activation, envVars>>

-----------------------------------------------------------------------------
(* activateMatch, called by onCreate. *)

(* The part of abortMatch before its first await. *)
AbortMatch ==
  IF finalized THEN UNCHANGED endVars
  ELSE /\ rstatus' = "ABORTED"
       /\ settle' = "refund"
       /\ UNCHANGED <<winnerSlot, finalized>>

DeductReply ==
  /\ ~crashed
  /\ activation = "deduct"
  /\ \/ /\ DB!DeductEntryFees(Match, Fee)
        /\ \/ activation' = "activate" /\ UNCHANGED <<endVars, faults>>
           \/ activation' = "done" /\ AbortMatch /\ Fault
     \/ /\ activation' = "done" /\ AbortMatch
        /\ \/ ~DB!CanDeductEntryFees(Match, Fee) /\ UNCHANGED faults
           \/ Fault
        /\ UNCHANGED walletVars
  /\ UNCHANGED <<results, playVars, seatVars, crashed>>

(* Seeded bug: the match is activated beside the deduction. *)
ActivateEarly ==
  /\ ~crashed
  /\ activation \in {"deduct", "activate"}
  /\ activation' = "done"
  /\ status' = [status EXCEPT ![Match] = "ACTIVE"]
  /\ rstatus' = "ACTIVE"
  /\ UNCHANGED <<winnerSlot, settle, finalized, starts, faults>>
  /\ StartRound
  /\ UNCHANGED <<balance, ledger, terms, seats, refunded, winner, purchase,
                 completing, results, seatVars, crashed>>

(* The update to ACTIVE, which does not look at the status of the row.     *)
ActivateReply ==
  /\ ~crashed
  /\ activation = "activate"
  /\ activation' = "done"
  /\ \/ /\ status' = [status EXCEPT ![Match] = "ACTIVE"]
        /\ rstatus' = "ACTIVE"
        /\ UNCHANGED <<winnerSlot, settle, finalized, starts, faults>>
        /\ StartRound
     \/ /\ status' \in {status, [status EXCEPT ![Match] = "ACTIVE"]}
        /\ AbortMatch
        /\ Fault
        /\ UNCHANGED playVars
  /\ UNCHANGED <<balance, ledger, terms, seats, refunded, winner, purchase,
                 completing, results, seatVars, crashed>>

-----------------------------------------------------------------------------
(* Joining and leaving. *)

Join(slot) ==
  /\ ~crashed
  /\ conn[slot] = "away"
  /\ conn' = [conn EXCEPT ![slot] = "online"]
  /\ UNCHANGED <<walletVars, results, playVars, audits, activation, endVars, envVars>>

(* The catch block of onLeave. *)
Depart == IF rstatus = "ACTIVE" THEN AbortMatch ELSE UNCHANGED endVars

LeaveConsented(slot) ==
  /\ ~crashed
  /\ conn[slot] = "online"
  /\ conn' = [conn EXCEPT ![slot] = "gone"]
  /\ Depart
  /\ UNCHANGED <<walletVars, results, playVars, audits, activation, envVars>>

Drop(slot) ==
  /\ ~crashed
  /\ conn[slot] = "online"
  /\ conn' = [conn EXCEPT ![slot] =
                IF rstatus \in {"FINISHED", "ABORTED"} THEN "gone" ELSE "grace"]
  /\ UNCHANGED <<walletVars, results, playVars, audits, activation, endVars, envVars>>

(* allowReconnection resolves, and the RECONNECT event is being written.   *)
Reconnect(slot) ==
  /\ ~crashed
  /\ conn[slot] = "grace"
  /\ conn' = [conn EXCEPT ![slot] = "online"]
  /\ audits' = audits \cup {slot}
  /\ UNCHANGED <<walletVars, results, playVars, activation, endVars, envVars>>

(* The write is in the same try block: if it fails, the player is treated  *)
(* as gone.                                                                *)
AuditReply(slot) ==
  /\ ~crashed
  /\ slot \in audits
  /\ audits' = audits \ {slot}
  /\ \/ UNCHANGED <<endVars, faults>>
     \/ Fault /\ Depart
  /\ UNCHANGED <<walletVars, results, playVars, conn, activation, crashed>>

GraceExpires(slot) ==
  /\ ~crashed
  /\ conn[slot] = "grace"
  /\ conn' = [conn EXCEPT ![slot] = "gone"]
  /\ Depart
  /\ UNCHANGED <<walletVars, results, playVars, audits, activation, envVars>>

-----------------------------------------------------------------------------
(* finishMatch and abortMatch after their first await.  A call that throws *)
(* rejects a promise nobody awaits: nothing is tried again.                *)

Fails == settle' = "failed" /\ Fault

(* Seeded bug: only a human winner is settled. *)
FinishEventReplyForgetsBot ==
  /\ settle = "finishEvent" /\ ~crashed
  /\ \/ /\ settle' = IF IsHuman(winnerSlot) THEN "pay" ELSE "stats"
        /\ finalized' = ~IsHuman(winnerSlot)
        /\ UNCHANGED faults
     \/ Fails /\ UNCHANGED finalized
  /\ UNCHANGED <<walletVars, results, playVars, seatVars, activation, rstatus,
                 winnerSlot, crashed>>

FinishEventReply ==
  /\ settle = "finishEvent" /\ ~crashed
  /\ \/ /\ settle' = IF IsHuman(winnerSlot) THEN "pay" ELSE "keep"
        /\ finalized' = ~IsHuman(winnerSlot)
        /\ UNCHANGED faults
     \/ Fails /\ UNCHANGED finalized
  /\ UNCHANGED <<walletVars, results, playVars, seatVars, activation, rstatus,
                 winnerSlot, crashed>>

PayReply ==
  LET w == Occupant(winnerSlot)
  IN  /\ settle = "pay" /\ ~crashed
      /\ \/ /\ DB!FinalizeMatchPayout(Match, w, EnvPayout)
            /\ \/ settle' = "stats" /\ finalized' = TRUE /\ UNCHANGED faults
               \/ Fails /\ UNCHANGED finalized
         \/ /\ ~DB!CanFinalizeMatchPayout(Match, w, EnvPayout)
            /\ settle' = "failed"
            /\ UNCHANGED <<walletVars, finalized, faults>>
         \/ Fails /\ UNCHANGED <<walletVars, finalized>>
      /\ UNCHANGED <<results, playVars, seatVars, activation, rstatus, winnerSlot, crashed>>

KeepReply ==
  /\ settle = "keep" /\ ~crashed
  /\ \/ /\ status' = [status EXCEPT ![Match] = "FINISHED"]
        /\ \/ settle' = "stats" /\ UNCHANGED faults
           \/ Fails
     \/ Fails /\ UNCHANGED status
  /\ UNCHANGED <<balance, ledger, terms, seats, refunded, winner, purchase,
                 completing, results, playVars, seatVars, activation, rstatus,
                 winnerSlot, finalized, crashed>>

(* Seeded bug: the slots are swapped. *)
RecordOutcomeSwapped(slot) ==
  results' = IF status[Match] = "FINISHED" /\ results = None
             THEN CHOOSE s \in Slots : s # slot ELSE results

(* recordMatchOutcome: only of a FINISHED match, and only once.            *)
RecordOutcome(slot) ==
  results' = IF status[Match] = "FINISHED" /\ results = None THEN slot ELSE results

(* A failure to record the statistics is logged and ignored.               *)
StatsReply ==
  /\ settle = "stats" /\ ~crashed
  /\ settle' = "done"
  /\ \/ RecordOutcome(winnerSlot) /\ UNCHANGED faults
     \/ Fault /\ UNCHANGED results
  /\ UNCHANGED <<walletVars, playVars, seatVars, activation, rstatus, winnerSlot,
                 finalized, crashed>>

RefundReply ==
  /\ settle = "refund" /\ ~crashed
  /\ \/ /\ DB!RefundAbortedMatch(Match)
        /\ \/ settle' = "abortEvent" /\ finalized' = TRUE /\ UNCHANGED faults
           \/ Fails /\ UNCHANGED finalized
     \/ Fails /\ UNCHANGED <<walletVars, finalized>>
  /\ UNCHANGED <<results, playVars, seatVars, activation, rstatus, winnerSlot, crashed>>

AbortEventReply ==
  /\ settle = "abortEvent" /\ ~crashed
  /\ \/ settle' = "done" /\ UNCHANGED faults
     \/ Fails
  /\ UNCHANGED <<walletVars, results, playVars, seatVars, activation, rstatus,
                 winnerSlot, finalized, crashed>>

Crash ==
  /\ ~crashed
  /\ crashed' = TRUE
  /\ UNCHANGED <<walletVars, results, playVars, seatVars, activation, endVars, faults>>

-----------------------------------------------------------------------------
PlayerStep ==
  \E s \in Slots :
    \/ Join(s) \/ LeaveConsented(s) \/ Drop(s) \/ Reconnect(s) \/ AuditReply(s)
    \/ \E c \in Choices : SubmitChoice(s, c)

TimerStep ==
  \/ RoundTimer
  \/ StartTimer
  \/ \E c \in Choices : BotTimer(c)
  \/ \E s \in Slots : GraceExpires(s)

ActivationStep == DeductReply \/ ActivateReply

SettleStep ==
  \/ FinishEventReply \/ PayReply \/ KeepReply \/ StatsReply
  \/ RefundReply \/ AbortEventReply

Next == PlayerStep \/ TimerStep \/ ActivationStep \/ SettleStep \/ Crash

Spec == Init /\ [][Next]_vars

(* The database answers and timers fire, each of them sooner or later.     *)
Fairness ==
  /\ WF_vars(RoundTimer)
  /\ WF_vars(StartTimer)
  /\ WF_vars(\E c \in Choices : BotTimer(c))
  /\ WF_vars(ActivationStep)
  /\ WF_vars(SettleStep)

FairSpec == Spec /\ Fairness

=============================================================================
