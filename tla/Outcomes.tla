------------------------------ MODULE Outcomes ------------------------------
(***************************************************************************)
(* Recording the outcome of finished matches: recordMatchOutcome of        *)
(* packages/domain/src/progression.ts, statement by statement, called by   *)
(* the room of each match and by the recovery loop of the realtime server  *)
(* (games/recover-outcomes.ts, index.ts).                                  *)
(*                                                                         *)
(* Progression and leaderboard rows are read, added to and written back;   *)
(* the locks on the match and on its users are what keeps concurrent       *)
(* recordings from losing or repeating a result.  Calls fail before or     *)
(* after their commit, and the server crashes, at any point.               *)
(***************************************************************************)
EXTENDS Integers, FiniteSets

CONSTANTS
  Users, Matches,
  Bot,        \* the player without a user
  Recovery,   \* the recovery loop
  Fixtures,   \* what the players and games of the matches may be
  Created,    \* creation order of the matches
  Rank,       \* the order of user ids
  Legacy,     \* matches finished before, whose event cannot be parsed
  BatchSize,  \* matches of one run of the recovery (100)
  MaxWeek,    \* bound: weeks
  MaxFaults   \* bound: failing calls and crashes

Seat     == {"A", "B"}
Games    == {"penalty-duel", "rps"}
Weeks    == 1..MaxWeek
AllTime  == 0
Periods  == {AllTime} \cup Weeks

ASSUME OutcomesAssumption ==
  /\ Bot \notin Users
  /\ Recovery \notin Matches
  /\ Fixtures \subseteq
       [Matches -> [A : Users, B : Users \cup {Bot}, game : Games]]
  /\ \A f \in Fixtures, m \in Matches : f[m].A # f[m].B
  /\ Created \in [Matches -> Nat] /\ Rank \in [Users -> Nat]
  /\ \A u, v \in Users : Rank[u] = Rank[v] => u = v
  /\ \A m, n \in Matches : Created[m] = Created[n] => m = n
  /\ Legacy \subseteq Matches
  /\ {BatchSize, MaxWeek, MaxFaults} \subseteq Nat

VARIABLES
  fixture,     \* players and game of each match
  winner,      \* winning seat of each FINISHED match, "none" before
  finalizedAt, \* week in which the match was finalized
  result,      \* MatchPlayer.result of each seat
  audits,      \* MATCH_FINALIZED entries of each match
  progression, \* PlayerProgression of each user and game
  board,       \* LeaderboardEntry.score of each user, game and period
  now,         \* the current week
  room,        \* what the room of each match does
  batch,       \* matches the recovery loop has still to look at
  call,        \* the recordMatchOutcome call of each caller
  held,        \* rows each caller has locked
  faults

matchVars == <<fixture, winner, finalizedAt>>
statVars  == <<result, audits, progression, board>>
callVars  == <<call, held>>
vars == <<matchVars, statVars, now, room, batch, callVars, faults>>

Callers == Matches \cup {Recovery}

Finished(m) == winner[m] # "none"
Recorded(m) == \A s \in Seat : result[m][s] # "none"
GameOf(m)   == fixture[m].game
Humans(m)   == {fixture[m][s] : s \in Seat} \ {Bot}
SeatOf(m, u) == IF fixture[m].A = u THEN "A" ELSE "B"

-----------------------------------------------------------------------------
(* XP, levels and results. *)

XpForResult(r) == IF r = "WIN" THEN 50 ELSE 15
LevelFromXp(xp) == 1 + xp \div 100

ResultOf(m, s) == IF s = winner[m] THEN "WIN" ELSE "LOSS"

ApplyProgression(p, r) ==
  LET xp == p.xp + XpForResult(r)
  IN  [wins   |-> p.wins + (IF r = "WIN" THEN 1 ELSE 0),
       losses |-> p.losses + (IF r = "LOSS" THEN 1 ELSE 0),
       xp     |-> xp,
       level  |-> LevelFromXp(xp)]

(* Seeded bug: the week in which the outcome is recorded. *)
CurrentWeek(m) == now

WeekOf(m) == finalizedAt[m]

(* A user's scores after this match: those of its week and of all time.    *)
ApplyLeaderboard(scores, m, u) ==
  [p \in Periods |-> IF p \in {AllTime, WeekOf(m)} /\ SeatOf(m, u) = winner[m]
                     THEN scores[p] + 1 ELSE scores[p]]

-----------------------------------------------------------------------------
(* A call: its match, how far it is, the users it has not locked, and what *)
(* it has computed for the users it has applied (not committed).           *)
None == [match |-> Bot, step |-> "none", toLock |-> {}, stats |-> <<>>, scores |-> <<>>]

(* recordMatchOutcome(m), called by r for a FINISHED match: the read       *)
(* before the transaction.                                                 *)
Call(r, m) ==
  call' = [call EXCEPT ![r] = IF Recorded(m) THEN None
                              ELSE [None EXCEPT !.match = m, !.step = "match"]]

At(r, step) == call[r].step = step

Held(row, r) == \E q \in Callers \ {r} : row \in held[q]

(* What a caller does when its call ends: a room closes; after a failure   *)
(* the room of a Penalty Duel settles again, that of the other game has    *)
(* the error logged and closes, and a batch is given up.                   *)
Return(r, ok) ==
  /\ call' = [call EXCEPT ![r] = None]
  /\ held' = [held EXCEPT ![r] = {}]
  /\ room' = IF r = Recovery THEN room
             ELSE [room EXCEPT ![r] = IF ok \/ GameOf(r) = "rps" THEN "closed"
                                      ELSE "retrying"]
  /\ batch' = IF r = Recovery /\ ~ok THEN {} ELSE batch

(* Lock the match, and read it again. *)
LockMatch(r) ==
  LET m == call[r].match
  IN  /\ At(r, "match")
      /\ ~Held(m, r)
      /\ \/ /\ Recorded(m)
            /\ Return(r, TRUE)
         \/ /\ ~Recorded(m)
            /\ call' = [call EXCEPT ![r].step = "users", ![r].toLock = Humans(m)]
            /\ held' = [held EXCEPT ![r] = {m}]
            /\ UNCHANGED <<room, batch>>
      /\ UNCHANGED <<matchVars, statVars, now, faults>>

NextUser(r) ==
  CHOOSE u \in call[r].toLock : \A v \in call[r].toLock : Rank[u] <= Rank[v]

(* Seeded bug: the users are not locked. *)
PassUser(r) ==
  /\ At(r, "users")
  /\ call[r].toLock # {}
  /\ call' = [call EXCEPT ![r].toLock = @ \ {NextUser(r)}]
  /\ UNCHANGED <<held, matchVars, statVars, now, room, batch, faults>>

LockUser(r) ==
  /\ At(r, "users")
  /\ call[r].toLock # {}
  /\ ~Held(NextUser(r), r)
  /\ held' = [held EXCEPT ![r] = @ \cup {NextUser(r)}]
  /\ call' = [call EXCEPT ![r].toLock = @ \ {NextUser(r)}]
  /\ UNCHANGED <<matchVars, statVars, now, room, batch, faults>>

Applied(r) == DOMAIN call[r].stats

Put(f, u, x) == [v \in DOMAIN f \cup {u} |-> IF v = u THEN x ELSE f[v]]

(* One player's rows are read and written, in the order of seats; a bot    *)
(* has none.                                                               *)
ApplyPlayer(r, u) ==
  LET m == call[r].match
      g == GameOf(m)
  IN  /\ At(r, "users")
      /\ call[r].toLock = {}
      /\ u \in Humans(m) \ Applied(r)
      /\ fixture[m].A \in Applied(r) \cup {u, Bot}
      /\ call' = [call EXCEPT
           ![r].stats  = Put(@, u, ApplyProgression(progression[u][g], ResultOf(m, SeatOf(m, u)))),
           ![r].scores = Put(@, u, ApplyLeaderboard(board[u][g], m, u))]
      /\ UNCHANGED <<held, matchVars, statVars, now, room, batch, faults>>

(* The commit; its answer may be lost. *)
Commit(r, ok) ==
  LET m == call[r].match
      c == call[r]
      g == GameOf(m)
  IN  /\ At(r, "users")
      /\ c.toLock = {}
      /\ Applied(r) = Humans(m)
      /\ result' = [result EXCEPT ![m] = [s \in Seat |-> ResultOf(m, s)]]
      /\ audits' = [audits EXCEPT ![m] = @ + 1]
      /\ progression' = [u \in Users |-> IF u \in Humans(m)
           THEN [progression[u] EXCEPT ![g] = c.stats[u]] ELSE progression[u]]
      /\ board' = [u \in Users |-> IF u \in Humans(m)
           THEN [board[u] EXCEPT ![g] = c.scores[u]] ELSE board[u]]
      /\ Return(r, ok)
      /\ UNCHANGED <<matchVars, now>>

-----------------------------------------------------------------------------
(* The rooms. *)

(* MATCH_FINISHED is written and the match settled.                        *)
Finish(m, s) ==
  /\ room[m] = "playing"
  /\ winner' = [winner EXCEPT ![m] = s]
  /\ finalizedAt' = [finalizedAt EXCEPT ![m] = now]
  /\ room' = [room EXCEPT ![m] = "settled"]
  /\ UNCHANGED <<fixture, statVars, now, batch, callVars, faults>>

(* persistMatchOutcome. *)
RoomRecords(m) ==
  /\ room[m] = "settled"
  /\ Call(m, m)
  /\ room' = [room EXCEPT ![m] = IF Recorded(m) THEN "closed" ELSE "recording"]
  /\ UNCHANGED <<held, matchVars, statVars, now, batch, faults>>

(* The settlement runs again after two seconds.  The payout is a           *)
(* duplicate; a win of the bot is written once more, with a new date.      *)
Retry(m) ==
  /\ room[m] = "retrying"
  /\ room' = [room EXCEPT ![m] = "settled"]
  /\ finalizedAt' = [finalizedAt EXCEPT ![m] =
       IF fixture[m][winner[m]] = Bot THEN now ELSE @]
  /\ UNCHANGED <<fixture, winner, statVars, now, batch, callVars, faults>>

(* The recovery loop.  Every 15 seconds, unless a run is still going on,   *)
(* it takes the oldest Penalty Duels with a missing result.                *)

Missing == {m \in Matches : GameOf(m) = "penalty-duel" /\ Finished(m) /\ ~Recorded(m)}

Oldest(S) == {m \in S : Cardinality({n \in S : Created[n] < Created[m]}) < BatchSize}

Recovering == batch # {} \/ call[Recovery] # None

(* The batch is gone through from the oldest match to the newest. *)
IsNext(m) == m \in batch /\ \A n \in batch : Created[m] <= Created[n]

Recover ==
  /\ ~Recovering
  /\ batch' = Oldest(Missing)
  /\ UNCHANGED <<matchVars, statVars, now, room, callVars, faults>>

(* Seeded bug: a match whose event cannot be parsed ends the run. *)
StopAtUnreadable(m) ==
  /\ IsNext(m)
  /\ call[Recovery] = None
  /\ m \in Legacy
  /\ batch' = {}
  /\ UNCHANGED <<matchVars, statVars, now, room, callVars, faults>>

SkipUnreadable(m) ==
  /\ IsNext(m)
  /\ call[Recovery] = None
  /\ m \in Legacy
  /\ batch' = batch \ {m}
  /\ UNCHANGED <<matchVars, statVars, now, room, callVars, faults>>

RecoverMatch(m) ==
  /\ IsNext(m)
  /\ call[Recovery] = None
  /\ m \notin Legacy
  /\ Call(Recovery, m)
  /\ batch' = batch \ {m}
  /\ UNCHANGED <<held, matchVars, statVars, now, room, faults>>

-----------------------------------------------------------------------------
(* Faults and time. *)

Fault ==
  /\ faults < MaxFaults
  /\ faults' = faults + 1

(* A statement of the call fails, and its transaction is rolled back.      *)
Fail(r) ==
  /\ call[r] # None
  /\ Fault
  /\ Return(r, FALSE)
  /\ UNCHANGED <<matchVars, statVars, now>>

CommitUnanswered(r) == Fault /\ Commit(r, FALSE)

(* The server stops and starts: its rooms are gone, transactions under way *)
(* are rolled back, and the recovery loop begins.                          *)
Crash ==
  /\ Fault
  /\ room' = [m \in Matches |-> "closed"]
  /\ batch' = {}
  /\ call' = [r \in Callers |-> None]
  /\ held' = [r \in Callers |-> {}]
  /\ UNCHANGED <<matchVars, statVars, now>>

NextWeek ==
  /\ now < MaxWeek
  /\ now' = now + 1
  /\ UNCHANGED <<matchVars, statVars, room, batch, callVars, faults>>

-----------------------------------------------------------------------------
NewPlayer == [wins |-> 0, losses |-> 0, xp |-> 0, level |-> 1]

Init ==
  /\ fixture \in Fixtures
  /\ winner      = [m \in Matches |-> IF m \in Legacy THEN "A" ELSE "none"]
  /\ finalizedAt = [m \in Matches |-> 1]
  /\ result      = [m \in Matches |-> [s \in Seat |-> "none"]]
  /\ audits      = [m \in Matches |-> 0]
  /\ progression = [u \in Users |-> [g \in Games |-> NewPlayer]]
  /\ board       = [u \in Users |-> [g \in Games |-> [p \in Periods |-> 0]]]
  /\ now    = 1
  /\ room   = [m \in Matches |-> IF m \in Legacy THEN "closed" ELSE "playing"]
  /\ batch  = {}
  /\ call   = [r \in Callers |-> None]
  /\ held   = [r \in Callers |-> {}]
  /\ faults = 0

Statement(r) ==
  \/ LockMatch(r)
  \/ LockUser(r)
  \/ \E u \in Users : ApplyPlayer(r, u)
  \/ Commit(r, TRUE) /\ UNCHANGED faults

RecoveryStep == Recover \/ \E m \in Matches : SkipUnreadable(m) \/ RecoverMatch(m)

RoomStep(m) == RoomRecords(m) \/ Retry(m)

Next ==
  \/ \E r \in Callers : Statement(r)
  \/ \E m \in Matches, s \in Seat : Finish(m, s)
  \/ \E m \in Matches : RoomStep(m)
  \/ RecoveryStep
  \/ \E r \in Callers : Fail(r)
  \/ \E r \in Callers : CommitUnanswered(r)
  \/ Crash
  \/ NextWeek

Spec == Init /\ [][Next]_vars

(* Calls get on, a failed settlement is run again by its timer, and the    *)
(* recovery loop by its interval.                                          *)
FairSpec ==
  /\ Spec
  /\ \A r \in Callers : WF_vars(Statement(r))
  /\ \A m \in Matches : WF_vars(RoomStep(m))
  /\ WF_vars(RecoveryStep)

-----------------------------------------------------------------------------
(* Matches of game g in which u has this recorded result.                  *)
With(u, g, r) ==
  {m \in Matches : GameOf(m) = g /\ u \in Humans(m) /\ result[m][SeatOf(m, u)] = r}

(* "Serialize outcome processing on match and player rows": whichever      *)
(* rooms and recovery runs record whichever matches of a player at the     *)
(* same time, fail and repeat, the player's counters, XP and level are     *)
(* those of the results recorded, each counted once.                       *)
StatsMatchResults ==
  /\ \A u \in Users, g \in Games :
       LET wins   == Cardinality(With(u, g, "WIN"))
           losses == Cardinality(With(u, g, "LOSS"))
           xp     == 50 * wins + 15 * losses
       IN  progression[u][g] =
             [wins |-> wins, losses |-> losses, xp |-> xp, level |-> 1 + xp \div 100]
  /\ \A m \in Matches : audits[m] = IF Recorded(m) THEN 1 ELSE 0

(* "Weekly credit uses the match's completion date": a win counts on the   *)
(* board of the week in which the match was finalized, however late it is  *)
(* recorded, and on the all-time board.                                    *)
BoardsMatchResults ==
  \A u \in Users, g \in Games, p \in Periods :
    board[u][g][p] =
      Cardinality({m \in With(u, g, "WIN") : p \in {AllTime, finalizedAt[m]}})

(* "A background job repairs missing stats for finished penalty matches,   *)
(* including after process restarts": the outcome of every Penalty Duel    *)
(* whose event can be read is recorded, whatever calls fail and although   *)
(* matches that cannot be read stay in every batch.                        *)
RecordedEventually ==
  \A m \in Matches \ Legacy :
    (GameOf(m) = "penalty-duel" /\ Finished(m)) ~> Recorded(m)

-----------------------------------------------------------------------------
(* The inductive invariant OutcomesProofs proves. *)

TypeOK ==
  /\ fixture \in Fixtures
  /\ winner \in [Matches -> Seat \cup {"none"}]
  /\ finalizedAt \in [Matches -> Nat]
  /\ result \in [Matches -> [Seat -> {"none", "WIN", "LOSS"}]]
  /\ audits \in [Matches -> Nat]
  /\ progression \in [Users -> [Games -> [wins : Nat, losses : Nat, xp : Nat, level : Nat]]]
  /\ board \in [Users -> [Games -> [Periods -> Nat]]]
  /\ now \in Nat
  /\ room \in [Matches -> {"playing", "settled", "recording", "retrying", "closed"}]
  /\ batch \subseteq Matches
  /\ DOMAIN call = Callers
  /\ held \in [Callers -> SUBSET (Matches \cup Users)]
  /\ faults \in Nat

(* A result, once recorded, is that of the winner of the match. *)
ResultInv ==
  \A m \in Matches :
    (\E s \in Seat : result[m][s] # "none") =>
      Finished(m) /\ \A s \in Seat : result[m][s] = ResultOf(m, s)

(* So far finitely many matches have been recorded. *)
FiniteInv == IsFiniteSet({m \in Matches : Recorded(m)})

(* Matches are over when their rooms settle them or the recovery takes     *)
(* them up.                                                                *)
RoomInv ==
  /\ \A m \in Matches : /\ room[m] = "playing" => ~Finished(m)
                        /\ room[m] \in {"settled", "retrying"} => Finished(m)
  /\ \A m \in batch : Finished(m)

(* No row is locked twice. *)
LockInv == \A q, r \in Callers : q # r => held[q] \cap held[r] = {}

(* A call under way has locked its match, which is not recorded, and the   *)
(* users it has passed; once all are locked, what it has computed follows  *)
(* from the rows as they are.                                              *)
CallInv(r) ==
  LET c == call[r]
      m == c.match
      g == GameOf(m)
  IN  /\ c = [match |-> m, step |-> c.step, toLock |-> c.toLock,
              stats |-> c.stats, scores |-> c.scores]
      /\ c.step \in {"none", "match", "users"}
      /\ c.step = "none" => c = None
      /\ c.step = "match" => c.toLock = {} /\ c.stats = <<>> /\ c.scores = <<>>
      /\ c.step # "none" => m \in Matches /\ Finished(m) /\ r \in {m, Recovery}
      /\ c.step = "users" =>
           /\ ~Recorded(m) /\ m \in held[r]
           /\ c.toLock \subseteq Humans(m) /\ Humans(m) \ c.toLock \subseteq held[r]
           /\ DOMAIN c.stats \subseteq Humans(m) /\ DOMAIN c.scores = DOMAIN c.stats
           /\ DOMAIN c.stats # {} => c.toLock = {}
           /\ \A u \in DOMAIN c.stats :
                /\ c.stats[u] = ApplyProgression(progression[u][g], ResultOf(m, SeatOf(m, u)))
                /\ c.scores[u] = ApplyLeaderboard(board[u][g], m, u)

(* The types, all of the above, and the statistics themselves. *)
OutcomesInv ==
  /\ TypeOK
  /\ ResultInv
  /\ FiniteInv
  /\ RoomInv
  /\ LockInv
  /\ \A r \in Callers : CallInv(r)
  /\ StatsMatchResults
  /\ BoardsMatchResults

=============================================================================
