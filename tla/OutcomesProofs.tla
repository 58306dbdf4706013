---------------------------- MODULE OutcomesProofs ----------------------------
(***************************************************************************)
(* The statistics and boards of the recorded results, for any users and    *)
(* matches, any order of recordings by rooms and recovery, and any number  *)
(* of failures and crashes.                                                *)
(*                                                                         *)
(* A recording computes from rows it has read, so the invariant says that  *)
(* what it has computed follows from the rows as they are (CallInv): they  *)
(* are locked, and a lock has one holder.  Of a match the tables know, it  *)
(* says that its result is recorded whole, and the counters count it once. *)
(***************************************************************************)
EXTENDS Outcomes, FiniteSetTheorems, TLAPS

-----------------------------------------------------------------------------
(* The data. *)

(* Two distinct players, of which the first is a user. *)
LEMMA FixtureFacts ==
  ASSUME TypeOK, NEW m \in Matches
  PROVE  /\ fixture[m].A \in Users /\ fixture[m].B \in Users \cup {Bot}
         /\ fixture[m].A # fixture[m].B /\ GameOf(m) \in Games
         /\ fixture[m]["A"] = fixture[m].A /\ fixture[m]["B"] = fixture[m].B
         /\ Humans(m) = {fixture[m].A, fixture[m].B} \ {Bot}
         /\ Humans(m) \subseteq Users /\ fixture[m].A \in Humans(m)
         /\ Bot \notin Users
<1>1. fixture \in [Matches -> [A : Users, B : Users \cup {Bot}, game : Games]]
  BY OutcomesAssumption DEF TypeOK
<1>2. fixture[m] \in [A : Users, B : Users \cup {Bot}, game : Games] /\ fixture[m].A # fixture[m].B
  BY <1>1, OutcomesAssumption DEF TypeOK
<1>3. /\ fixture[m].A \in Users /\ fixture[m].B \in Users \cup {Bot} /\ GameOf(m) \in Games
      /\ fixture[m]["A"] = fixture[m].A /\ fixture[m]["B"] = fixture[m].B
  BY <1>2 DEF GameOf
<1>4. Humans(m) = {fixture[m].A, fixture[m].B} \ {Bot}
  BY <1>3 DEF Humans, Seat
<1> QED
  BY <1>2, <1>3, <1>4, OutcomesAssumption

(* The seat of a player is theirs. *)
LEMMA SeatFacts ==
  ASSUME TypeOK, NEW m \in Matches, NEW u \in Humans(m)
  PROVE  SeatOf(m, u) \in Seat /\ fixture[m][SeatOf(m, u)] = u /\ u \in Users /\ u # Bot
BY FixtureFacts DEF SeatOf, Seat

(* The counters of w wins and l losses. *)
Tally(w, l) == [wins |-> w, losses |-> l, xp |-> 50 * w + 15 * l,
                level |-> 1 + (50 * w + 15 * l) \div 100]

(* One more result is counted in all of them. *)
LEMMA TallyGrows ==
  ASSUME NEW w \in Nat, NEW l \in Nat
  PROVE  /\ ApplyProgression(Tally(w, l), "WIN") = Tally(w + 1, l)
         /\ ApplyProgression(Tally(w, l), "LOSS") = Tally(w, l + 1)
<1>1. ASSUME NEW a \in Nat, NEW b \in Nat, NEW n \in Nat, 50 * a + 15 * b = n
      PROVE  Tally(a, b) = [wins |-> a, losses |-> b, xp |-> n, level |-> LevelFromXp(n)]
  BY <1>1 DEF Tally, LevelFromXp
<1>2. 50 * (w + 1) + 15 * l = 50 * w + 15 * l + 50 /\ 50 * w + 15 * (l + 1) = 50 * w + 15 * l + 15
  OBVIOUS
<1>3. 50 * w + 15 * l \in Nat
  OBVIOUS
<1> DEFINE n == 50 * w + 15 * l
<1>4. Tally(w, l).xp = n /\ Tally(w, l).wins = w /\ Tally(w, l).losses = l
  BY DEF Tally
<1>5. Tally(w + 1, l) = [wins |-> w + 1, losses |-> l, xp |-> n + 50, level |-> LevelFromXp(n + 50)]
  BY <1>1, <1>2, <1>3
<1>6. Tally(w, l + 1) = [wins |-> w, losses |-> l + 1, xp |-> n + 15, level |-> LevelFromXp(n + 15)]
  BY <1>1, <1>2, <1>3
<1> HIDE DEF n
<1>7. ApplyProgression(Tally(w, l), "WIN") = Tally(w + 1, l)
  BY <1>4, <1>5 DEF ApplyProgression, XpForResult
<1>8. ApplyProgression(Tally(w, l), "LOSS") = Tally(w, l + 1)
  BY <1>4, <1>6 DEF ApplyProgression, XpForResult
<1> QED
  BY <1>7, <1>8

(* A tally is a row of the table. *)
LEMMA TallyTyped ==
  ASSUME NEW w \in Nat, NEW l \in Nat
  PROVE  Tally(w, l) \in [wins : Nat, losses : Nat, xp : Nat, level : Nat]
BY DEF Tally

-----------------------------------------------------------------------------
(* What is recorded. *)

(* The results of a match that is not recorded are all missing. *)
LEMMA Unrecorded ==
  ASSUME TypeOK, ResultInv, NEW m \in Matches, ~Recorded(m)
  PROVE  \A s \in Seat : result[m][s] = "none"
<1>1. ASSUME NEW s \in Seat, result[m][s] # "none" PROVE FALSE
  <2>1. Finished(m) /\ \A t \in Seat : result[m][t] = ResultOf(m, t)
    BY <1>1 DEF ResultInv
  <2> QED
    BY <2>1 DEF Recorded, ResultOf
<1> QED
  BY <1>1

(* Finitely many matches count for a player. *)
LEMMA WithFinite ==
  ASSUME TypeOK, ResultInv, FiniteInv, NEW u \in Users, NEW g, NEW r \in {"WIN", "LOSS"}
  PROVE  /\ IsFiniteSet(With(u, g, r)) /\ Cardinality(With(u, g, r)) \in Nat
         /\ With(u, g, r) \subseteq {m \in Matches : Recorded(m)}
<1>1. ASSUME NEW m \in With(u, g, r) PROVE m \in Matches /\ Recorded(m)
  <2>1. m \in Matches /\ result[m][SeatOf(m, u)] # "none"
    BY DEF With
  <2>2. SeatOf(m, u) \in Seat
    BY DEF SeatOf, Seat
  <2> QED
    BY <2>1, <2>2, Unrecorded
<1>2. With(u, g, r) \subseteq {m \in Matches : Recorded(m)}
  BY <1>1
<1> QED
  BY <1>2, FS_Subset, FS_CardinalityType DEF FiniteInv

(* The wins of u in g that count for period p. *)
Won(u, g, p) == {m \in With(u, g, "WIN") : p \in {AllTime, finalizedAt[m]}}

(* The properties in these terms. *)
StatsOk  == \A u \in Users, g \in Games : progression[u][g] =
              Tally(Cardinality(With(u, g, "WIN")), Cardinality(With(u, g, "LOSS")))
AuditsOk == \A m \in Matches : audits[m] = IF Recorded(m) THEN 1 ELSE 0
BoardsOk == \A u \in Users, g \in Games, p \in Periods :
              board[u][g][p] = Cardinality(Won(u, g, p))

(* They say the same. *)
LEMMA InOtherWords ==
  /\ StatsMatchResults <=> StatsOk /\ AuditsOk
  /\ BoardsMatchResults <=> BoardsOk
<1>1. StatsMatchResults <=> StatsOk /\ AuditsOk
  BY DEF StatsMatchResults, StatsOk, AuditsOk, Tally
<1>2. BoardsMatchResults <=> BoardsOk
  BY DEF BoardsMatchResults, BoardsOk, Won
<1> QED
  BY <1>1, <1>2

(* What the invariant says of the tables, and of what works on them. *)
Tables == ResultInv /\ FiniteInv /\ StatsOk /\ AuditsOk /\ BoardsOk
Work   == RoomInv /\ LockInv /\ \A r \in Callers : CallInv(r)

(* The invariant by its parts. *)
LEMMA InvParts == OutcomesInv <=> TypeOK /\ Tables /\ Work
BY InOtherWords DEF OutcomesInv, Tables, Work

(* The same of the next state. *)
LEMMA InvPartsNext == OutcomesInv' <=> TypeOK' /\ Tables' /\ Work'
BY InvParts, PTL

(* Winners stay, and so do dates that count for somebody. *)
DatesStay ==
  /\ UNCHANGED fixture
  /\ \A m \in Matches : Finished(m) => winner'[m] = winner[m]
  /\ \A m \in Matches : Finished(m) =>
       finalizedAt'[m] = finalizedAt[m] \/ fixture[m][winner[m]] = Bot

(* A step that leaves results and counters alone keeps what is said of     *)
(* them, although a win of the bot may get a new date.                     *)
LEMMA TablesStay ==
  ASSUME TypeOK, Tables, UNCHANGED statVars, DatesStay
  PROVE  Tables'
<1>1. /\ result' = result /\ audits' = audits /\ progression' = progression
      /\ board' = board /\ fixture' = fixture
  BY DEF statVars, DatesStay
<1>2. ResultInv'
  <2>1. ASSUME NEW m \in Matches, NEW t \in Seat, result'[m][t] # "none"
        PROVE  Finished(m)' /\ \A s \in Seat : result'[m][s] = ResultOf(m, s)'
    <3>1. Finished(m) /\ \A s \in Seat : result[m][s] = ResultOf(m, s)
      BY <1>1, <2>1 DEF Tables, ResultInv
    <3> QED
      BY <1>1, <3>1 DEF Finished, ResultOf, DatesStay
  <2> QED
    BY <2>1 DEF ResultInv
<1>3. \A m : Recorded(m)' <=> Recorded(m)
  BY <1>1 DEF Recorded
<1>4. FiniteInv' /\ AuditsOk'
  BY <1>1, <1>3 DEF Tables, FiniteInv, AuditsOk
<1>5. \A u, g, r : With(u, g, r)' = With(u, g, r)
  BY <1>1 DEF With, GameOf, Humans, SeatOf
<1>6. StatsOk'
  BY <1>1, <1>5 DEF Tables, StatsOk
<1>7. ASSUME NEW u \in Users, NEW g \in Games, NEW p \in Periods
      PROVE  Won(u, g, p)' = Won(u, g, p)
  <2>1. ASSUME NEW m \in With(u, g, "WIN")
        PROVE  finalizedAt'[m] = finalizedAt[m]
    <3>1. m \in Matches /\ u \in Humans(m) /\ result[m][SeatOf(m, u)] = "WIN"
      BY DEF With
    <3>2. SeatOf(m, u) \in Seat /\ fixture[m][SeatOf(m, u)] = u /\ u # Bot
      BY <3>1, SeatFacts
    <3>3. Finished(m) /\ ResultOf(m, SeatOf(m, u)) = "WIN"
      BY <3>1, <3>2 DEF Tables, ResultInv
    <3>4. SeatOf(m, u) = winner[m]
      BY <3>3 DEF ResultOf
    <3> QED
      BY <3>1, <3>2, <3>3, <3>4 DEF DatesStay
  <2> QED
    BY <1>5, <2>1 DEF Won
<1>8. BoardsOk'
  BY <1>1, <1>7 DEF Tables, BoardsOk
<1> QED
  BY <1>2, <1>4, <1>6, <1>8 DEF Tables

-----------------------------------------------------------------------------
(* A result is recorded. *)

(* What Commit writes: the results of m, and for its users the counters    *)
(* and boards that follow from what is there.                              *)
Records(m) ==
  /\ ~Recorded(m) /\ Finished(m)
  /\ UNCHANGED <<fixture, winner, finalizedAt>>
  /\ result' = [result EXCEPT ![m] = [s \in Seat |-> ResultOf(m, s)]]
  /\ audits' = [audits EXCEPT ![m] = @ + 1]
  /\ \A u \in Users, g \in Games :
       /\ progression'[u][g] =
            IF u \in Humans(m) /\ g = GameOf(m)
            THEN ApplyProgression(progression[u][g], ResultOf(m, SeatOf(m, u)))
            ELSE progression[u][g]
       /\ board'[u][g] = IF u \in Humans(m) /\ g = GameOf(m)
                         THEN ApplyLeaderboard(board[u][g], m, u) ELSE board[u][g]

(* The recorded matches are one more. *)
LEMMA RecordsAdds ==
  ASSUME TypeOK, ResultInv, FiniteInv, NEW m \in Matches, Records(m)
  PROVE  /\ \A n \in Matches : Recorded(n)' <=> (Recorded(n) \/ n = m)
         /\ ResultInv' /\ FiniteInv'
<1>1. /\ \A n \in Matches : n # m => result'[n] = result[n]
      /\ result'[m] = [s \in Seat |-> ResultOf(m, s)]
  BY DEF Records, TypeOK
<1>2. \A n \in Matches : Recorded(n)' <=> (Recorded(n) \/ n = m)
  BY <1>1 DEF Recorded, ResultOf
<1>3. UNCHANGED <<fixture, winner, finalizedAt>> /\ Finished(m)
  BY DEF Records
<1>4. ResultInv'
  <2>1. ASSUME NEW n \in Matches, NEW t \in Seat, result'[n][t] # "none"
        PROVE  Finished(n)' /\ \A s \in Seat : result'[n][s] = ResultOf(n, s)'
    <3>1. CASE n = m
      BY <1>1, <1>3, <3>1 DEF Finished, ResultOf
    <3>2. CASE n # m
      <4>1. Finished(n) /\ \A s \in Seat : result[n][s] = ResultOf(n, s)
        BY <1>1, <2>1, <3>2 DEF ResultInv
      <4> QED
        BY <1>1, <1>3, <3>2, <4>1 DEF Finished, ResultOf
    <3> QED
      BY <3>1, <3>2
  <2> QED
    BY <2>1 DEF ResultInv
<1>5. FiniteInv'
  <2>1. {n \in Matches : Recorded(n)'} = {n \in Matches : Recorded(n)} \cup {m}
    BY <1>2
  <2>2. IsFiniteSet({n \in Matches : Recorded(n)} \cup {m})
    BY FS_AddElement DEF FiniteInv
  <2> QED
    BY <2>1, <2>2 DEF FiniteInv
<1> QED
  BY <1>2, <1>4, <1>5

(* It counts for its players, once. *)
LEMMA WithGrows ==
  ASSUME TypeOK, ResultInv, FiniteInv, NEW m \in Matches, Records(m),
         NEW u \in Users, NEW g \in Games, NEW r \in {"WIN", "LOSS"}
  PROVE  /\ m \notin With(u, g, r)
         /\ With(u, g, r)' =
              IF u \in Humans(m) /\ g = GameOf(m) /\ ResultOf(m, SeatOf(m, u)) = r
              THEN With(u, g, r) \cup {m} ELSE With(u, g, r)
         /\ Cardinality(With(u, g, r))' =
              IF u \in Humans(m) /\ g = GameOf(m) /\ ResultOf(m, SeatOf(m, u)) = r
              THEN Cardinality(With(u, g, r)) + 1 ELSE Cardinality(With(u, g, r))
<1>1. /\ \A n \in Matches : n # m => result'[n] = result[n]
      /\ result'[m] = [s \in Seat |-> ResultOf(m, s)] /\ fixture' = fixture
  BY DEF Records, TypeOK
<1>2. IsFiniteSet(With(u, g, r)) /\ m \notin With(u, g, r)
  BY WithFinite DEF Records
<1>3. \A n : SeatOf(n, u)' = SeatOf(n, u) /\ GameOf(n)' = GameOf(n) /\ Humans(n)' = Humans(n)
  BY <1>1 DEF SeatOf, GameOf, Humans
<1>4. SeatOf(m, u) \in Seat
  BY DEF SeatOf, Seat
<1>5. \A n \in Matches : n \in With(u, g, r)' <=>
        IF n = m THEN u \in Humans(m) /\ g = GameOf(m) /\ ResultOf(m, SeatOf(m, u)) = r
                 ELSE n \in With(u, g, r)
  BY <1>1, <1>3, <1>4 DEF With
<1>6. With(u, g, r)' \subseteq Matches /\ With(u, g, r) \subseteq Matches
  BY DEF With
<1>7. With(u, g, r)' =
        IF u \in Humans(m) /\ g = GameOf(m) /\ ResultOf(m, SeatOf(m, u)) = r
        THEN With(u, g, r) \cup {m} ELSE With(u, g, r)
  BY <1>2, <1>5, <1>6
<1>8. Cardinality(With(u, g, r) \cup {m}) = Cardinality(With(u, g, r)) + 1
  BY <1>2, FS_AddElement
<1> QED
  BY <1>2, <1>7, <1>8

(* A recording keeps what is said of the tables. *)
LEMMA RecordsKeep ==
  ASSUME TypeOK, Tables, NEW m \in Matches, Records(m)
  PROVE  Tables'
<1>1. ResultInv /\ FiniteInv /\ StatsOk /\ AuditsOk /\ BoardsOk
  BY DEF Tables
<1>2. /\ ResultInv' /\ FiniteInv'
      /\ \A n \in Matches : Recorded(n)' <=> (Recorded(n) \/ n = m)
  BY <1>1, RecordsAdds
<1>3. AuditsOk'
  <2>1. audits' = [audits EXCEPT ![m] = audits[m] + 1] /\ ~Recorded(m)
    BY DEF Records
  <2>2. audits \in [Matches -> Nat]
    BY DEF TypeOK
  <2>3. audits[m] = 0
    BY <1>1, <2>1 DEF AuditsOk
  <2> QED
    BY <1>1, <1>2, <2>1, <2>2, <2>3 DEF AuditsOk
<1>4. StatsOk'
  <2> SUFFICES ASSUME NEW u \in Users, NEW g \in Games
               PROVE  progression'[u][g] = Tally(Cardinality(With(u, g, "WIN"))',
                                                 Cardinality(With(u, g, "LOSS"))')
    BY DEF StatsOk, Tally
  <2> DEFINE w == Cardinality(With(u, g, "WIN"))
             l == Cardinality(With(u, g, "LOSS"))
             x == ResultOf(m, SeatOf(m, u))
  <2>1. w \in Nat /\ l \in Nat
    BY <1>1, WithFinite
  <2>2. progression[u][g] = Tally(w, l)
    BY <1>1 DEF StatsOk
  <2>3. x \in {"WIN", "LOSS"}
    BY DEF ResultOf
  <2>4. Cardinality(With(u, g, "WIN"))' =
          IF u \in Humans(m) /\ g = GameOf(m) /\ x = "WIN" THEN w + 1 ELSE w
    BY <1>1, WithGrows
  <2>5. Cardinality(With(u, g, "LOSS"))' =
          IF u \in Humans(m) /\ g = GameOf(m) /\ x = "LOSS" THEN l + 1 ELSE l
    BY <1>1, WithGrows
  <2>6. progression'[u][g] = IF u \in Humans(m) /\ g = GameOf(m)
                             THEN ApplyProgression(Tally(w, l), x) ELSE Tally(w, l)
    BY <2>2 DEF Records
  <2> HIDE DEF w, l, x
  <2>7. CASE u \in Humans(m) /\ g = GameOf(m) /\ x = "WIN"
    BY <2>1, <2>4, <2>5, <2>6, <2>7, TallyGrows
  <2>8. CASE u \in Humans(m) /\ g = GameOf(m) /\ x = "LOSS"
    BY <2>1, <2>4, <2>5, <2>6, <2>8, TallyGrows
  <2>9. CASE ~(u \in Humans(m) /\ g = GameOf(m))
    BY <2>4, <2>5, <2>6, <2>9
  <2> QED
    BY <2>3, <2>7, <2>8, <2>9
<1>5. BoardsOk'
  <2> SUFFICES ASSUME NEW u \in Users, NEW g \in Games, NEW p \in Periods
               PROVE  board'[u][g][p] = Cardinality(Won(u, g, p))'
    BY DEF BoardsOk
  <2> DEFINE counts == /\ u \in Humans(m) /\ g = GameOf(m) /\ SeatOf(m, u) = winner[m]
                       /\ p \in {AllTime, finalizedAt[m]}
  <2>1. finalizedAt' = finalizedAt
    BY DEF Records
  <2>2. ResultOf(m, SeatOf(m, u)) = "WIN" <=> SeatOf(m, u) = winner[m]
    BY DEF ResultOf
  <2>3. /\ m \notin With(u, g, "WIN")
        /\ With(u, g, "WIN")' = IF u \in Humans(m) /\ g = GameOf(m) /\ SeatOf(m, u) = winner[m]
                                THEN With(u, g, "WIN") \cup {m} ELSE With(u, g, "WIN")
    BY <1>1, <2>2, WithGrows
  <2>4. Won(u, g, p)' = IF counts THEN Won(u, g, p) \cup {m} ELSE Won(u, g, p)
    BY <2>1, <2>3 DEF Won
  <2>5. Won(u, g, p) \subseteq With(u, g, "WIN")
    BY DEF Won
  <2>6. IsFiniteSet(Won(u, g, p)) /\ m \notin Won(u, g, p)
    BY <1>1, <2>3, <2>5, WithFinite, FS_Subset
  <2>7. Cardinality(Won(u, g, p) \cup {m}) = Cardinality(Won(u, g, p)) + 1
    BY <2>6, FS_AddElement
  <2>8. board[u][g][p] = Cardinality(Won(u, g, p))
    BY <1>1 DEF BoardsOk
  <2>9. board'[u][g][p] = IF counts THEN board[u][g][p] + 1 ELSE board[u][g][p]
    <3>1. CASE u \in Humans(m) /\ g = GameOf(m)
      <4>1. board'[u][g] = ApplyLeaderboard(board[u][g], m, u)
        BY <3>1 DEF Records
      <4> QED
        BY <3>1, <4>1 DEF ApplyLeaderboard, WeekOf
    <3>2. CASE ~(u \in Humans(m) /\ g = GameOf(m))
      BY <3>2 DEF Records
    <3> QED
      BY <3>1, <3>2
  <2> QED
    BY <2>4, <2>7, <2>8, <2>9
<1> QED
  BY <1>2, <1>3, <1>4, <1>5 DEF Tables

-----------------------------------------------------------------------------
(* What works on the tables. *)

(* The rows r has read, and computed from, are as they were. *)
RowsStay(r) ==
  call[r].step = "users" =>
    /\ result'[call[r].match] = result[call[r].match]
    /\ \A u \in DOMAIN call[r].stats :
         progression'[u] = progression[u] /\ board'[u] = board[u]

(* A board does not depend on the date of a match the bot won. *)
LEMMA BoardStays ==
  ASSUME TypeOK, DatesStay, NEW m \in Matches, Finished(m), NEW u \in Humans(m), NEW scores
  PROVE  [p \in Periods |-> IF p \in {AllTime, finalizedAt'[m]} /\ SeatOf(m, u) = winner[m]
                            THEN scores[p] + 1 ELSE scores[p]]
           = ApplyLeaderboard(scores, m, u)
<1>1. finalizedAt'[m] = finalizedAt[m] \/ SeatOf(m, u) # winner[m]
  BY SeatFacts DEF DatesStay
<1> QED
  BY <1>1 DEF ApplyLeaderboard, WeekOf

(* A call whose rows and locks stay is as good as before. *)
LEMMA CallStays ==
  ASSUME TypeOK, TypeOK', NEW r \in Callers, CallInv(r), DatesStay, RowsStay(r),
         call'[r] = call[r], held'[r] = held[r]
  PROVE  CallInv(r)'
<1> DEFINE c == call[r]
           m == c.match
           g == GameOf(m)
<1>1. fixture' = fixture
  BY DEF DatesStay
<1>2. /\ \A n, u : SeatOf(n, u)' = SeatOf(n, u) /\ GameOf(n)' = GameOf(n)
      /\ \A n : Humans(n)' = Humans(n)
  BY <1>1 DEF SeatOf, GameOf, Humans
<1>3. CASE c.step # "users"
  <2>1. c.step = "match" => m \in Matches /\ Finished(m) /\ Finished(m)'
    BY <1>3 DEF CallInv, Finished, DatesStay
  <2> QED
    BY <1>3, <2>1 DEF CallInv, Finished
<1>4. CASE c.step = "users"
  <2>1. m \in Matches /\ Finished(m) /\ winner'[m] = winner[m] /\ Finished(m)' /\ r \in {m, Recovery}
    BY <1>4 DEF CallInv, Finished, DatesStay
  <2>2. ~Recorded(m)'
    BY <1>4 DEF CallInv, RowsStay, Recorded
  <2>3. \A s : ResultOf(m, s)' = ResultOf(m, s)
    BY <2>1 DEF ResultOf
  <2>4. ASSUME NEW u \in DOMAIN c.stats
        PROVE  /\ c.stats[u] = ApplyProgression(progression'[u][g], ResultOf(m, SeatOf(m, u)))
               /\ c.scores[u] = [p \in Periods |->
                     IF p \in {AllTime, finalizedAt'[m]} /\ SeatOf(m, u) = winner[m]
                     THEN board'[u][g][p] + 1 ELSE board'[u][g][p]]
    <3>1. u \in Humans(m)
      BY <1>4 DEF CallInv
    <3>2. progression'[u] = progression[u] /\ board'[u] = board[u]
      BY <1>4 DEF RowsStay
    <3>3. /\ c.stats[u] = ApplyProgression(progression[u][g], ResultOf(m, SeatOf(m, u)))
          /\ c.scores[u] = ApplyLeaderboard(board[u][g], m, u)
      BY <1>4 DEF CallInv
    <3> QED
      BY <2>1, <3>1, <3>2, <3>3, BoardStays
  <2> QED
    BY <1>2, <1>4, <2>1, <2>2, <2>3, <2>4
       DEF CallInv, ApplyLeaderboard, WeekOf
<1> QED
  BY <1>3, <1>4

-----------------------------------------------------------------------------
(* The steps. *)

(* The parts of the type invariant. *)
RowsTyped ==
  /\ fixture \in Fixtures
  /\ winner \in [Matches -> Seat \cup {"none"}]
  /\ finalizedAt \in [Matches -> Nat]
  /\ result \in [Matches -> [Seat -> {"none", "WIN", "LOSS"}]]
  /\ audits \in [Matches -> Nat]
  /\ progression \in [Users -> [Games -> [wins : Nat, losses : Nat, xp : Nat, level : Nat]]]
  /\ board \in [Users -> [Games -> [Periods -> Nat]]]
  /\ now \in Nat

WorkTyped ==
  /\ room \in [Matches -> {"playing", "settled", "recording", "retrying", "closed"}]
  /\ batch \subseteq Matches
  /\ DOMAIN call = Callers
  /\ held \in [Callers -> SUBSET (Matches \cup Users)]
  /\ faults \in Nat

(* TypeOK by its parts. *)
LEMMA TypeParts == TypeOK <=> RowsTyped /\ WorkTyped
BY DEF TypeOK, RowsTyped, WorkTyped

(* The rows keep their types when nothing is written. *)
LEMMA RowsRest ==
  ASSUME RowsTyped, UNCHANGED <<matchVars, statVars, now>>
  PROVE  RowsTyped' /\ DatesStay /\ \A r : RowsStay(r)
BY DEF RowsTyped, matchVars, statVars, DatesStay, RowsStay

(* An idle caller. *)
LEMMA IdleCall ==
  ASSUME NEW r, call'[r] = None
  PROVE  CallInv(r)'
<1>1. /\ None = [match |-> Bot, step |-> "none", toLock |-> {}, stats |-> <<>>, scores |-> <<>>]
      /\ None.step = "none"
  BY DEF None
<1> QED
  BY <1>1 DEF CallInv

(* A step of one caller leaves what the others do as it is. *)
LEMMA WorkKeeps ==
  ASSUME TypeOK, TypeOK', Work, NEW r \in Callers, DatesStay,
         \A q \in Callers \ {r} : call'[q] = call[q] /\ held'[q] = held[q] /\ RowsStay(q),
         \A q \in Callers \ {r} : held'[r] \cap held[q] = {},
         CallInv(r)', RoomInv'
  PROVE  Work'
<1>1. \A q \in Callers : CallInv(q)'
  BY CallStays DEF Work
<1>2. LockInv'
  BY DEF Work, LockInv
<1> QED
  BY <1>1, <1>2 DEF Work

(* A step of no caller does too. *)
LEMMA WorkRests ==
  ASSUME TypeOK, TypeOK', Work, DatesStay, UNCHANGED callVars,
         \A q \in Callers : RowsStay(q), RoomInv'
  PROVE  Work'
<1>1. \A q \in Callers : CallInv(q)'
  BY CallStays DEF Work, callVars
<1>2. LockInv'
  BY DEF Work, LockInv, callVars
<1> QED
  BY <1>1, <1>2 DEF Work

(* The end of a call. *)
LEMMA ReturnFrees ==
  ASSUME TypeOK, RoomInv, NEW r \in Callers, NEW ok, Return(r, ok),
         call[r].step # "none", CallInv(r), UNCHANGED winner, faults' \in Nat
  PROVE  /\ WorkTyped' /\ RoomInv' /\ CallInv(r)' /\ held'[r] = {}
         /\ \A q \in Callers \ {r} : call'[q] = call[q] /\ held'[q] = held[q]
<1>1. /\ call' = [call EXCEPT ![r] = None] /\ held' = [held EXCEPT ![r] = {}]
      /\ batch' \in {batch, {}}
      /\ room' = IF r = Recovery THEN room
                 ELSE [room EXCEPT ![r] = IF ok \/ GameOf(r) = "rps" THEN "closed" ELSE "retrying"]
  BY DEF Return
<1>2. /\ call'[r] = None /\ held'[r] = {} /\ DOMAIN call' = Callers
      /\ \A q \in Callers \ {r} : call'[q] = call[q] /\ held'[q] = held[q]
      /\ held' \in [Callers -> SUBSET (Matches \cup Users)]
  BY <1>1 DEF TypeOK
<1>3. CallInv(r)'
  BY <1>2, IdleCall
<1>4. r # Recovery => r \in Matches /\ Finished(r)
  BY DEF CallInv, Callers
<1>5. room' \in [Matches -> {"playing", "settled", "recording", "retrying", "closed"}]
  BY <1>1, <1>4 DEF TypeOK
<1>6. RoomInv'
  <2>1. \A m : Finished(m)' <=> Finished(m)
    BY DEF Finished
  <2>2. ASSUME NEW m \in Matches
        PROVE  /\ room'[m] = "playing" => ~Finished(m)
               /\ room'[m] \in {"settled", "retrying"} => Finished(m)
    <3>1. CASE r = Recovery \/ m # r
      <4>1. room'[m] = room[m]
        BY <1>1, <3>1 DEF TypeOK
      <4> QED
        BY <4>1 DEF RoomInv
    <3>2. CASE r # Recovery /\ m = r
      <4>1. room'[m] \in {"closed", "retrying"}
        BY <1>1, <3>2 DEF TypeOK
      <4> QED
        BY <1>4, <3>2, <4>1
    <3> QED
      BY <3>1, <3>2
  <2> QED
    BY <1>1, <2>1, <2>2 DEF RoomInv
<1>7. WorkTyped'
  BY <1>1, <1>2, <1>5 DEF WorkTyped, TypeOK
<1> QED
  BY <1>2, <1>3, <1>6, <1>7

(* A call that ends without a commit leaves everything else alone. *)
LEMMA GivesUp ==
  ASSUME OutcomesInv, NEW r \in Callers, NEW ok, Return(r, ok),
         call[r].step # "none", UNCHANGED <<matchVars, statVars, now>>, faults' \in Nat
  PROVE  OutcomesInv'
<1>1. TypeOK /\ Tables /\ Work
  BY InvParts
<1>2. RowsTyped' /\ DatesStay /\ \A q : RowsStay(q)
  BY <1>1, TypeParts, RowsRest
<1>3. /\ WorkTyped' /\ RoomInv' /\ CallInv(r)' /\ held'[r] = {}
      /\ \A q \in Callers \ {r} : call'[q] = call[q] /\ held'[q] = held[q]
  BY <1>1, ReturnFrees DEF Work, matchVars
<1>4. TypeOK'
  BY <1>2, <1>3, TypeParts, PTL
<1>5. Tables'
  BY <1>1, <1>2, TablesStay
<1>6. Work'
  BY <1>1, <1>2, <1>3, <1>4, WorkKeeps
<1> QED
  BY <1>4, <1>5, <1>6, InvPartsNext

(* A call by its fields. *)
CallOf(m, s, l, x, y) == [match |-> m, step |-> s, toLock |-> l, stats |-> x, scores |-> y]

(* Its step moves on. *)
LEMMA UpdateStep ==
  ASSUME NEW m, NEW s, NEW l, NEW x, NEW y, NEW t
  PROVE  [CallOf(m, s, l, x, y) EXCEPT !.step = t] = CallOf(m, t, l, x, y)
BY DEF CallOf

(* What it has to lock changes. *)
LEMMA UpdateToLock ==
  ASSUME NEW m, NEW s, NEW l, NEW x, NEW y, NEW t
  PROVE  [CallOf(m, s, l, x, y) EXCEPT !.toLock = t] = CallOf(m, s, t, x, y)
BY DEF CallOf

(* It computes counters. *)
LEMMA UpdateStats ==
  ASSUME NEW m, NEW s, NEW l, NEW x, NEW y, NEW t
  PROVE  [CallOf(m, s, l, x, y) EXCEPT !.stats = t] = CallOf(m, s, l, t, y)
BY DEF CallOf

(* It computes scores. *)
LEMMA UpdateScores ==
  ASSUME NEW m, NEW s, NEW l, NEW x, NEW y, NEW t
  PROVE  [CallOf(m, s, l, x, y) EXCEPT !.scores = t] = CallOf(m, s, l, x, t)
BY DEF CallOf

(* A step of r that writes no row and leaves its room alone. *)
LEMMA CallGoesOn ==
  ASSUME OutcomesInv, NEW r \in Callers, NEW e, NEW locked \in SUBSET (Matches \cup Users),
         call' = [call EXCEPT ![r] = e], held' = [held EXCEPT ![r] = locked],
         UNCHANGED <<matchVars, statVars, now, faults, room, batch>>,
         \A q \in Callers \ {r} : locked \cap held[q] = {},
         CallInv(r)'
  PROVE  OutcomesInv'
<1>1. TypeOK /\ Tables /\ Work
  BY InvParts
<1>2. RowsTyped' /\ DatesStay /\ \A q : RowsStay(q)
  BY <1>1, TypeParts, RowsRest
<1>3. /\ \A q \in Callers \ {r} : call'[q] = call[q] /\ held'[q] = held[q]
      /\ held'[r] = locked
  BY <1>1 DEF TypeOK
<1>4. WorkTyped'
  BY <1>1 DEF TypeOK, WorkTyped
<1>5. TypeOK'
  BY <1>2, <1>4, TypeParts, PTL
<1>6. Tables'
  BY <1>1, <1>2, TablesStay
<1>7. RoomInv'
  BY <1>1 DEF Work, RoomInv, Finished, matchVars
<1>8. Work'
  BY <1>1, <1>2, <1>3, <1>5, <1>7, WorkKeeps
<1> QED
  BY <1>5, <1>6, <1>8, InvPartsNext

(* The invariant of the call of r, in words of its own. *)
LEMMA CallFacts ==
  ASSUME OutcomesInv, NEW r \in Callers
  PROVE  CallInv(r) /\ TypeOK /\ Tables /\ Work
BY InvParts DEF Work

(* The match is locked, or has been recorded by somebody else. *)
LEMMA MatchLocked ==
  ASSUME OutcomesInv, NEW r \in Callers, LockMatch(r)
  PROVE  OutcomesInv'
<1> DEFINE m == call[r].match
<1>1. CallInv(r) /\ TypeOK
  BY CallFacts
<1>2. /\ call[r].step = "match" /\ ~Held(m, r)
      /\ UNCHANGED <<matchVars, statVars, now, faults>>
  BY DEF LockMatch, At
<1>3. /\ call[r] = CallOf(m, "match", {}, <<>>, <<>>)
      /\ m \in Matches /\ Finished(m) /\ r \in {m, Recovery}
  BY <1>1, <1>2 DEF CallInv, CallOf
<1>4. CASE Recorded(m)
  <2>1. Return(r, TRUE)
    BY <1>4 DEF LockMatch
  <2>2. faults' \in Nat
    BY <1>1, <1>2 DEF TypeOK
  <2> QED
    BY <1>2, <2>1, <2>2, GivesUp
<1>5. CASE ~Recorded(m)
  <2> DEFINE e == CallOf(m, "users", Humans(m), <<>>, <<>>)
  <2>1. /\ call' = [call EXCEPT ![r].step = "users", ![r].toLock = Humans(m)]
        /\ held' = [held EXCEPT ![r] = {m}] /\ UNCHANGED <<room, batch>>
    BY <1>5 DEF LockMatch
  <2>2. call' = [call EXCEPT ![r] = e]
    <3>1. [call[r] EXCEPT !.step = "users", !.toLock = Humans(m)] = e
      <4>1. [call[r] EXCEPT !.step = "users", !.toLock = Humans(m)] =
              [[call[r] EXCEPT !.step = "users"] EXCEPT !.toLock = Humans(m)]
        OBVIOUS
      <4>2. [call[r] EXCEPT !.step = "users"] = CallOf(m, "users", {}, <<>>, <<>>)
        BY <1>3, UpdateStep
      <4>3. [CallOf(m, "users", {}, <<>>, <<>>) EXCEPT !.toLock = Humans(m)] = e
        BY UpdateToLock
      <4> QED
        BY <4>1, <4>2, <4>3
    <3>2. call' = [call EXCEPT ![r] = [call[r] EXCEPT !.step = "users", !.toLock = Humans(m)]]
      BY <2>1
    <3> QED
      BY <3>1, <3>2
  <2>3. call'[r] = e /\ held'[r] = {m}
    BY <1>1, <2>1, <2>2 DEF TypeOK
  <2>4. \A q \in Callers \ {r} : {m} \cap held[q] = {}
    BY <1>2 DEF Held
  <2>5. Humans(m)' = Humans(m) /\ Finished(m)' /\ ~Recorded(m)'
    <3>1. fixture' = fixture /\ winner' = winner /\ result' = result
      BY <1>2 DEF matchVars, statVars
    <3>2. m' = m
      BY <2>3 DEF CallOf
    <3> HIDE DEF m
    <3> QED
      BY <1>3, <1>5, <3>1, <3>2 DEF Humans, Finished, Recorded
  <2>6. CallInv(r)'
    BY <1>3, <2>3, <2>5 DEF CallInv, CallOf
  <2>7. {m} \in SUBSET (Matches \cup Users)
    BY <1>3
  <2> HIDE DEF e
  <2> QED
    BY <1>2, <2>1, <2>2, <2>4, <2>6, <2>7, CallGoesOn
<1> QED
  BY <1>4, <1>5

(* The user to lock next is one of those to lock. *)
LEMMA NextUserFacts ==
  ASSUME OutcomesInv, NEW r \in Callers, call[r].step = "users", call[r].toLock # {}
  PROVE  NextUser(r) \in call[r].toLock
<1> DEFINE m == call[r].match
           S == call[r].toLock
<1>1. CallInv(r) /\ TypeOK
  BY CallFacts
<1>2. m \in Matches /\ S \subseteq Humans(m)
  BY <1>1 DEF CallInv
<1>3. PICK a, b : a \in Users /\ S \subseteq {a, b} /\ S \subseteq Users
  BY <1>1, <1>2, FixtureFacts
<1>4. Rank \in [Users -> Nat]
  BY OutcomesAssumption
<1>5. \E u \in S : \A v \in S : Rank[u] <= Rank[v]
  BY <1>3, <1>4
<1> HIDE DEF S
<1>6. (CHOOSE u \in S : \A v \in S : Rank[u] <= Rank[v]) \in S
  BY <1>5
<1> QED
  BY <1>6 DEF NextUser, S

(* A user is locked. *)
LEMMA UserLocked ==
  ASSUME OutcomesInv, NEW r \in Callers, LockUser(r)
  PROVE  OutcomesInv'
<1> DEFINE c == call[r]
           m == c.match
           u == NextUser(r)
<1>1. CallInv(r) /\ TypeOK /\ Work
  BY CallFacts
<1>2. /\ c.step = "users" /\ c.toLock # {} /\ ~Held(u, r)
      /\ held' = [held EXCEPT ![r] = held[r] \cup {u}]
      /\ call' = [call EXCEPT ![r].toLock = c.toLock \ {u}]
      /\ UNCHANGED <<matchVars, statVars, now, room, batch, faults>>
  BY <1>1 DEF LockUser, At, TypeOK
<1>3. u \in c.toLock
  BY <1>2, NextUserFacts
<1>4. /\ c = CallOf(m, "users", c.toLock, c.stats, c.scores)
      /\ m \in Matches /\ Finished(m) /\ r \in {m, Recovery} /\ ~Recorded(m) /\ m \in held[r]
      /\ c.toLock \subseteq Humans(m) /\ Humans(m) \ c.toLock \subseteq held[r]
      /\ DOMAIN c.stats = {} /\ DOMAIN c.scores = {}
  BY <1>1, <1>2 DEF CallInv, CallOf
<1> DEFINE e == CallOf(m, "users", c.toLock \ {u}, c.stats, c.scores)
           L == held[r] \cup {u}
<1>5. call' = [call EXCEPT ![r] = e]
  <2>1. [call[r] EXCEPT !.toLock = c.toLock \ {u}] = e
    <3>1. PICK n, l, x, y, k : n = m /\ l = c.toLock /\ x = c.stats /\ y = c.scores /\ k = l \ {u}
      OBVIOUS
    <3>2. c = CallOf(n, "users", l, x, y)
      BY <1>4, <3>1
    <3>3. [CallOf(n, "users", l, x, y) EXCEPT !.toLock = k] = CallOf(n, "users", k, x, y)
      BY UpdateToLock
    <3>4. [call[r] EXCEPT !.toLock = k] = CallOf(n, "users", k, x, y)
      BY <3>2, <3>3
    <3> QED
      BY <3>1, <3>4
  <2>2. call' = [call EXCEPT ![r] = [call[r] EXCEPT !.toLock = c.toLock \ {u}]]
    BY <1>2
  <2> QED
    BY <2>1, <2>2
<1>6. call'[r] = e /\ held'[r] = L
  BY <1>1, <1>2, <1>5 DEF TypeOK
<1>7. Humans(m)' = Humans(m) /\ Finished(m)' /\ ~Recorded(m)'
  BY <1>2, <1>4 DEF matchVars, statVars, Humans, Finished, Recorded
<1>8. CallInv(r)'
  BY <1>4, <1>6, <1>7 DEF CallInv, CallOf
<1>9. u \in Users
  BY <1>1, <1>3, <1>4, FixtureFacts
<1>10. L \in SUBSET (Matches \cup Users)
  BY <1>1, <1>9 DEF TypeOK
<1>11. \A q \in Callers \ {r} : L \cap held[q] = {}
  BY <1>1, <1>2 DEF Held, Work, LockInv
<1>12. held' = [held EXCEPT ![r] = L]
  BY <1>2
<1> HIDE DEF e, L
<1> QED
  BY <1>2, <1>5, <1>8, <1>10, <1>11, <1>12, CallGoesOn

(* What is computed for u is the rows as they are with this result.        *)
LEMMA PlayerApplied ==
  ASSUME OutcomesInv, NEW r \in Callers, NEW u \in Users, ApplyPlayer(r, u)
  PROVE  OutcomesInv'
<1> DEFINE c == call[r]
           m == c.match
           g == GameOf(m)
           x == ApplyProgression(progression[u][g], ResultOf(m, SeatOf(m, u)))
           y == ApplyLeaderboard(board[u][g], m, u)
           f == Put(c.stats, u, x)
           b == Put(c.scores, u, y)
           e == CallOf(m, "users", {}, f, b)
<1>1. CallInv(r) /\ TypeOK /\ Work
  BY CallFacts
<1>2. /\ c.step = "users" /\ c.toLock = {} /\ u \in Humans(m)
      /\ call' = [call EXCEPT ![r].stats = f, ![r].scores = b]
      /\ UNCHANGED <<held, matchVars, statVars, now, room, batch, faults>>
  BY DEF ApplyPlayer, At, Applied
<1>3. /\ c = CallOf(m, "users", {}, c.stats, c.scores)
      /\ m \in Matches /\ Finished(m) /\ r \in {m, Recovery} /\ ~Recorded(m) /\ m \in held[r]
      /\ Humans(m) \subseteq held[r]
      /\ DOMAIN c.stats \subseteq Humans(m) /\ DOMAIN c.scores = DOMAIN c.stats
  BY <1>1, <1>2 DEF CallInv, CallOf
<1>4. \A v \in DOMAIN c.stats :
        /\ c.stats[v] = ApplyProgression(progression[v][g], ResultOf(m, SeatOf(m, v)))
        /\ c.scores[v] = ApplyLeaderboard(board[v][g], m, v)
  BY <1>1, <1>2 DEF CallInv
<1>5. /\ DOMAIN f = DOMAIN c.stats \cup {u} /\ DOMAIN b = DOMAIN f
      /\ f[u] = x /\ b[u] = y
      /\ \A v \in DOMAIN c.stats : v # u => f[v] = c.stats[v] /\ b[v] = c.scores[v]
  <2>1. PICK p, q, k, l : p = c.stats /\ q = c.scores /\ k = x /\ l = y
    OBVIOUS
  <2>2. /\ DOMAIN Put(p, u, k) = DOMAIN p \cup {u} /\ Put(p, u, k)[u] = k
        /\ \A v \in DOMAIN p : v # u => Put(p, u, k)[v] = p[v]
    BY DEF Put
  <2>3. /\ DOMAIN Put(q, u, l) = DOMAIN q \cup {u} /\ Put(q, u, l)[u] = l
        /\ \A v \in DOMAIN q : v # u => Put(q, u, l)[v] = q[v]
    BY DEF Put
  <2> HIDE DEF x, y
  <2> QED
    BY <1>3, <2>1, <2>2, <2>3
<1>6. call' = [call EXCEPT ![r] = e]
  <2>1. PICK n, p, q, k, l : n = m /\ p = c.stats /\ q = c.scores /\ k = f /\ l = b
    OBVIOUS
  <2>2. [call[r] EXCEPT !.stats = k, !.scores = l] = [[call[r] EXCEPT !.stats = k] EXCEPT !.scores = l]
    OBVIOUS
  <2>3. call[r] = CallOf(n, "users", {}, p, q)
    BY <1>3, <2>1
  <2>4. [CallOf(n, "users", {}, p, q) EXCEPT !.stats = k] = CallOf(n, "users", {}, k, q)
    BY UpdateStats
  <2>5. [CallOf(n, "users", {}, k, q) EXCEPT !.scores = l] = CallOf(n, "users", {}, k, l)
    BY UpdateScores
  <2>6. [call[r] EXCEPT !.stats = k, !.scores = l] = CallOf(n, "users", {}, k, l)
    BY <2>2, <2>3, <2>4, <2>5
  <2>7. call' = [call EXCEPT ![r] = [call[r] EXCEPT !.stats = k, !.scores = l]]
    BY <1>2, <2>1
  <2> QED
    BY <2>1, <2>6, <2>7
<1>7. \A v \in DOMAIN f :
        /\ f[v] = ApplyProgression(progression[v][g], ResultOf(m, SeatOf(m, v)))
        /\ b[v] = ApplyLeaderboard(board[v][g], m, v)
  <2> HIDE DEF f, b
  <2> QED
    BY <1>4, <1>5
<1> HIDE DEF f, b
<1>8. call'[r] = e /\ held'[r] = held[r]
  BY <1>1, <1>2, <1>6 DEF TypeOK
<1>9. /\ fixture' = fixture /\ winner' = winner /\ result' = result /\ m' = m
      /\ finalizedAt' = finalizedAt /\ progression' = progression /\ board' = board
  BY <1>2, <1>8 DEF matchVars, statVars, CallOf
<1>10. CallInv(r)'
  <2>1. /\ call'[r].match = m /\ call'[r].step = "users" /\ call'[r].toLock = {}
        /\ call'[r].stats = f /\ call'[r].scores = b
        /\ call'[r] = [match |-> m, step |-> "users", toLock |-> {}, stats |-> f, scores |-> b]
    BY <1>8 DEF CallOf
  <2> HIDE DEF m
  <2>2. /\ Humans(m)' = Humans(m) /\ Finished(m)' /\ ~Recorded(m)' /\ GameOf(m)' = GameOf(m)
        /\ \A v : SeatOf(m, v)' = SeatOf(m, v)
        /\ \A s : ResultOf(m, s)' = ResultOf(m, s)
    BY <1>3, <1>9 DEF Humans, Finished, Recorded, GameOf, SeatOf, ResultOf
  <2>3. \A v : ApplyLeaderboard(board[v][GameOf(m)], m, v)' = ApplyLeaderboard(board[v][GameOf(m)], m, v)
    BY <1>9, <2>2 DEF ApplyLeaderboard, WeekOf
  <2>4. ASSUME NEW v \in DOMAIN f
        PROVE  /\ f[v] = ApplyProgression(progression[v][GameOf(m)], ResultOf(m, SeatOf(m, v)))'
               /\ b[v] = ApplyLeaderboard(board[v][GameOf(m)], m, v)'
    <3>1. /\ f[v] = ApplyProgression(progression[v][GameOf(m)], ResultOf(m, SeatOf(m, v)))
          /\ b[v] = ApplyLeaderboard(board[v][GameOf(m)], m, v)
      BY <1>7
    <3>2. ApplyProgression(progression[v][GameOf(m)], ResultOf(m, SeatOf(m, v)))'
            = ApplyProgression(progression[v][GameOf(m)], ResultOf(m, SeatOf(m, v)))
      BY <1>9, <2>2 DEF ApplyProgression
    <3> QED
      BY <2>3, <3>1, <3>2
  <2>5. /\ ~Recorded(m)' /\ m \in held'[r] /\ Humans(m)' \subseteq held'[r]
        /\ DOMAIN f \subseteq Humans(m)' /\ DOMAIN b = DOMAIN f
    BY <1>2, <1>3, <1>5, <1>8, <2>2
  <2> QED
    BY <1>3, <1>9, <2>1, <2>2, <2>4, <2>5, SMTT(30) DEF CallInv
<1>11. held' = [held EXCEPT ![r] = held[r]]
  BY <1>1, <1>2 DEF TypeOK
<1>12. held[r] \in SUBSET (Matches \cup Users)
  BY <1>1 DEF TypeOK
<1>13. \A q \in Callers \ {r} : held[r] \cap held[q] = {}
  BY <1>1 DEF Work, LockInv
<1> HIDE DEF e
<1> QED
  BY <1>2, <1>6, <1>10, <1>11, <1>12, <1>13, CallGoesOn

(* A commit writes what follows from the rows as they are. *)
LEMMA CommitRecords ==
  ASSUME OutcomesInv, NEW r \in Callers, NEW ok, Commit(r, ok)
  PROVE  /\ call[r].step = "users" /\ call[r].match \in Matches
         /\ Records(call[r].match) /\ call[r].match \in held[r]
         /\ Humans(call[r].match) \subseteq held[r]
<1> DEFINE c == call[r]
           m == c.match
           g == GameOf(m)
<1>1. CallInv(r) /\ TypeOK
  BY CallFacts
<1>2. /\ c.step = "users" /\ c.toLock = {} /\ DOMAIN c.stats = Humans(m)
      /\ result' = [result EXCEPT ![m] = [s \in Seat |-> ResultOf(m, s)]]
      /\ audits' = [audits EXCEPT ![m] = @ + 1]
      /\ progression' = [u \in Users |-> IF u \in Humans(m)
           THEN [progression[u] EXCEPT ![g] = c.stats[u]] ELSE progression[u]]
      /\ board' = [u \in Users |-> IF u \in Humans(m)
           THEN [board[u] EXCEPT ![g] = c.scores[u]] ELSE board[u]]
      /\ UNCHANGED <<fixture, winner, finalizedAt>>
  BY DEF Commit, At, Applied, matchVars
<1>3. /\ m \in Matches /\ Finished(m) /\ ~Recorded(m) /\ m \in held[r]
      /\ Humans(m) \subseteq held[r]
  BY <1>1, <1>2 DEF CallInv
<1>4. \A u \in Humans(m) :
        /\ c.stats[u] = ApplyProgression(progression[u][g], ResultOf(m, SeatOf(m, u)))
        /\ c.scores[u] = ApplyLeaderboard(board[u][g], m, u)
  BY <1>1, <1>2 DEF CallInv
<1>5. ASSUME NEW u \in Users, NEW h \in Games
      PROVE  /\ progression'[u][h] =
                  IF u \in Humans(m) /\ h = g
                  THEN ApplyProgression(progression[u][h], ResultOf(m, SeatOf(m, u)))
                  ELSE progression[u][h]
             /\ board'[u][h] = IF u \in Humans(m) /\ h = g
                               THEN ApplyLeaderboard(board[u][h], m, u) ELSE board[u][h]
  <2>1. DOMAIN progression[u] = Games /\ DOMAIN board[u] = Games
    BY <1>1 DEF TypeOK
  <2>2. CASE u \in Humans(m)
    <3>1. /\ progression'[u] = [progression[u] EXCEPT ![g] = c.stats[u]]
          /\ board'[u] = [board[u] EXCEPT ![g] = c.scores[u]]
      BY <1>2, <2>2
    <3> HIDE DEF c, m, g
    <3> QED
      BY <1>4, <2>1, <2>2, <3>1
  <2>3. CASE u \notin Humans(m)
    BY <1>2, <2>3
  <2> QED
    BY <2>2, <2>3
<1>6. Records(m)
  BY <1>2, <1>3, <1>5 DEF Records
<1> QED
  BY <1>2, <1>3, <1>6

(* Rows stay rows. *)
LEMMA AppliedTyped ==
  ASSUME NEW p \in [wins : Nat, losses : Nat, xp : Nat, level : Nat], NEW x
  PROVE  ApplyProgression(p, x) \in [wins : Nat, losses : Nat, xp : Nat, level : Nat]
<1>1. p.wins \in Nat /\ p.losses \in Nat /\ p.xp \in Nat
  OBVIOUS
<1>2. XpForResult(x) \in Nat
  BY DEF XpForResult
<1>3. \A n \in Nat : LevelFromXp(n) \in Nat
  BY DEF LevelFromXp
<1>4. p.xp + XpForResult(x) \in Nat
  BY <1>1, <1>2
<1>5. LevelFromXp(p.xp + XpForResult(x)) \in Nat
  BY <1>3, <1>4
<1> QED
  BY <1>1, <1>4, <1>5 DEF ApplyProgression

(* What is recorded has its types. *)
LEMMA RecordsTyped ==
  ASSUME RowsTyped, NEW m \in Matches, Records(m), UNCHANGED now,
         progression' = [u \in Users |-> [g \in Games |-> progression'[u][g]]],
         board' = [u \in Users |-> [g \in Games |-> board'[u][g]]]
  PROVE  RowsTyped'
<1> DEFINE Row == [wins : Nat, losses : Nat, xp : Nat, level : Nat]
<1>1. /\ UNCHANGED <<fixture, winner, finalizedAt>>
      /\ result' = [result EXCEPT ![m] = [s \in Seat |-> ResultOf(m, s)]]
      /\ audits' = [audits EXCEPT ![m] = audits[m] + 1]
  BY DEF Records
<1>2. result' \in [Matches -> [Seat -> {"none", "WIN", "LOSS"}]]
  <2>1. [s \in Seat |-> ResultOf(m, s)] \in [Seat -> {"none", "WIN", "LOSS"}]
    BY DEF ResultOf
  <2> QED
    BY <1>1, <2>1 DEF RowsTyped
<1>3. audits' \in [Matches -> Nat]
  BY <1>1 DEF RowsTyped
<1>4. ASSUME NEW u \in Users, NEW g \in Games
      PROVE  progression'[u][g] \in Row /\ board'[u][g] \in [Periods -> Nat]
  <2>1. progression[u][g] \in Row /\ board[u][g] \in [Periods -> Nat]
    BY DEF RowsTyped
  <2>2. ApplyProgression(progression[u][g], ResultOf(m, SeatOf(m, u))) \in Row
    BY <2>1, AppliedTyped
  <2>3. ApplyLeaderboard(board[u][g], m, u) \in [Periods -> Nat]
    BY <2>1 DEF ApplyLeaderboard
  <2>4. /\ progression'[u][g] \in {progression[u][g],
             ApplyProgression(progression[u][g], ResultOf(m, SeatOf(m, u)))}
        /\ board'[u][g] \in {board[u][g], ApplyLeaderboard(board[u][g], m, u)}
    BY DEF Records
  <2> QED
    BY <2>1, <2>2, <2>3, <2>4
<1>5. progression' \in [Users -> [Games -> Row]] /\ board' \in [Users -> [Games -> [Periods -> Nat]]]
  BY <1>4
<1> QED
  BY <1>1, <1>2, <1>3, <1>5 DEF RowsTyped

(* A commit leaves tables. *)
LEMMA CommitTables ==
  ASSUME TypeOK, NEW r \in Callers, NEW ok, Commit(r, ok)
  PROVE  /\ progression' = [u \in Users |-> [g \in Games |-> progression'[u][g]]]
         /\ board' = [u \in Users |-> [g \in Games |-> board'[u][g]]]
<1> DEFINE c == call[r]
           m == c.match
           h == GameOf(m)
<1>1. /\ progression' = [u \in Users |-> IF u \in Humans(m)
           THEN [progression[u] EXCEPT ![h] = c.stats[u]] ELSE progression[u]]
      /\ board' = [u \in Users |-> IF u \in Humans(m)
           THEN [board[u] EXCEPT ![h] = c.scores[u]] ELSE board[u]]
  BY DEF Commit
<1> HIDE DEF c, m, h
<1>2. ASSUME NEW u \in Users
      PROVE  /\ progression'[u] = [g \in Games |-> progression'[u][g]]
             /\ board'[u] = [g \in Games |-> board'[u][g]]
  <2>1. /\ progression[u] \in [Games -> [wins : Nat, losses : Nat, xp : Nat, level : Nat]]
        /\ board[u] \in [Games -> [Periods -> Nat]]
    BY DEF TypeOK
  <2>2. CASE u \in Humans(m)
    <3>1. /\ progression'[u] = [progression[u] EXCEPT ![h] = c.stats[u]]
          /\ board'[u] = [board[u] EXCEPT ![h] = c.scores[u]]
      BY <1>1, <2>2
    <3> QED
      BY <2>1, <3>1
  <2>3. CASE u \notin Humans(m)
    <3>1. progression'[u] = progression[u] /\ board'[u] = board[u]
      BY <1>1, <2>3
    <3> QED
      BY <2>1, <3>1
  <2> QED
    BY <2>2, <2>3
<1>3. progression' = [u \in Users |-> progression'[u]] /\ board' = [u \in Users |-> board'[u]]
  BY <1>1
<1> QED
  BY <1>2, <1>3

(* A result is committed, whether or not the caller hears of it. *)
LEMMA Committed ==
  ASSUME OutcomesInv, NEW r \in Callers, NEW ok, Commit(r, ok), faults' \in Nat
  PROVE  OutcomesInv'
<1> DEFINE m == call[r].match
<1>1. CallInv(r) /\ TypeOK /\ Tables /\ Work
  BY CallFacts
<1>2. /\ call[r].step = "users" /\ m \in Matches /\ Records(m)
      /\ m \in held[r] /\ Humans(m) \subseteq held[r]
  BY CommitRecords
<1>3. Return(r, ok) /\ UNCHANGED <<fixture, winner, finalizedAt, now>>
  BY DEF Commit, matchVars
<1>4. /\ WorkTyped' /\ RoomInv' /\ CallInv(r)' /\ held'[r] = {}
      /\ \A q \in Callers \ {r} : call'[q] = call[q] /\ held'[q] = held[q]
  BY <1>1, <1>2, <1>3, ReturnFrees DEF Work
<1>5. RowsTyped'
  BY <1>1, <1>2, <1>3, TypeParts, CommitTables, RecordsTyped
<1>6. TypeOK'
  BY <1>4, <1>5, TypeParts, PTL
<1>7. Tables'
  BY <1>1, <1>2, RecordsKeep
<1>8. DatesStay
  BY <1>3 DEF DatesStay
<1>9. ASSUME NEW q \in Callers \ {r}
      PROVE  RowsStay(q)
  <2> SUFFICES ASSUME call[q].step = "users"
               PROVE  /\ result'[call[q].match] = result[call[q].match]
                      /\ \A u \in DOMAIN call[q].stats :
                           progression'[u] = progression[u] /\ board'[u] = board[u]
    BY DEF RowsStay
  <2> DEFINE n == call[q].match
  <2>1. CallInv(q) /\ held[q] \cap held[r] = {}
    BY <1>1 DEF Work, LockInv
  <2>2. /\ n \in Matches /\ n \in held[q] /\ DOMAIN call[q].stats \subseteq Humans(n)
        /\ DOMAIN call[q].stats # {} => Humans(n) \subseteq held[q]
    BY <2>1 DEF CallInv
  <2>3. result'[n] = result[n]
    <3>1. n # m
      BY <1>2, <2>1, <2>2
    <3>2. result' = [result EXCEPT ![m] = [s \in Seat |-> ResultOf(m, s)]]
      BY <1>2 DEF Records
    <3> QED
      BY <1>1, <2>2, <3>1, <3>2 DEF TypeOK
  <2>4. ASSUME NEW u \in DOMAIN call[q].stats
        PROVE  progression'[u] = progression[u] /\ board'[u] = board[u]
    <3>1. u \notin Humans(m)
      BY <1>2, <2>1, <2>2
    <3>2. u \in Users
      BY <1>1, <2>2, FixtureFacts
    <3> QED
      BY <3>1, <3>2 DEF Commit
  <2> QED
    BY <2>3, <2>4
<1>10. Work'
  BY <1>1, <1>4, <1>6, <1>8, <1>9, WorkKeeps
<1> QED
  BY <1>6, <1>7, <1>10, InvPartsNext

(* A step outside the calls. *)
LEMMA RoomMoves ==
  ASSUME OutcomesInv, UNCHANGED <<statVars, callVars>>, DatesStay,
         RowsTyped', WorkTyped', RoomInv'
  PROVE  OutcomesInv'
<1>1. TypeOK /\ Tables /\ Work
  BY InvParts
<1>2. TypeOK'
  BY TypeParts, PTL
<1>3. Tables'
  BY <1>1, TablesStay DEF statVars
<1>4. \A q : RowsStay(q)
  BY DEF RowsStay, statVars
<1>5. Work'
  BY <1>1, <1>2, <1>4, WorkRests
<1> QED
  BY <1>2, <1>3, <1>5, InvPartsNext

(* A match is over. *)
LEMMA MatchFinishes ==
  ASSUME OutcomesInv, NEW m \in Matches, NEW s \in Seat, Finish(m, s)
  PROVE  OutcomesInv'
<1>1. TypeOK /\ Work
  BY InvParts
<1>2. /\ room[m] = "playing" /\ winner' = [winner EXCEPT ![m] = s]
      /\ finalizedAt' = [finalizedAt EXCEPT ![m] = now]
      /\ room' = [room EXCEPT ![m] = "settled"]
      /\ UNCHANGED <<fixture, statVars, now, batch, callVars, faults>>
  BY DEF Finish
<1>3. ~Finished(m) /\ s # "none"
  BY <1>1, <1>2 DEF Work, RoomInv, Seat
<1>4. \A n \in Matches : n # m => winner'[n] = winner[n] /\ finalizedAt'[n] = finalizedAt[n]
  BY <1>1, <1>2 DEF TypeOK
<1>5. DatesStay
  BY <1>2, <1>3, <1>4 DEF DatesStay
<1>6. RowsTyped' /\ WorkTyped'
  BY <1>1, <1>2 DEF TypeOK, RowsTyped, WorkTyped, statVars, callVars
<1>7. winner'[m] = s /\ room'[m] = "settled" /\ \A n \in Matches : n # m => room'[n] = room[n]
  BY <1>1, <1>2 DEF TypeOK
<1>8. RoomInv'
  BY <1>1, <1>2, <1>3, <1>4, <1>7 DEF Work, RoomInv, Finished, TypeOK
<1> QED
  BY <1>2, <1>5, <1>6, <1>8, RoomMoves

(* The settlement runs again: a win of the bot has a new date, which       *)
(* counts for nobody.                                                      *)
LEMMA SettlementRetried ==
  ASSUME OutcomesInv, NEW m \in Matches, Retry(m)
  PROVE  OutcomesInv'
<1>1. TypeOK /\ Work
  BY InvParts
<1>2. /\ room[m] = "retrying" /\ room' = [room EXCEPT ![m] = "settled"]
      /\ finalizedAt' = [finalizedAt EXCEPT ![m] =
           IF fixture[m][winner[m]] = Bot THEN now ELSE finalizedAt[m]]
      /\ UNCHANGED <<fixture, winner, statVars, now, batch, callVars, faults>>
  BY DEF Retry
<1>3. DatesStay
  BY <1>1, <1>2 DEF DatesStay, TypeOK
<1>4. RowsTyped' /\ WorkTyped'
  BY <1>1, <1>2 DEF TypeOK, RowsTyped, WorkTyped, statVars, callVars
<1>5. room'[m] = "settled" /\ \A n \in Matches : n # m => room'[n] = room[n]
  BY <1>1, <1>2 DEF TypeOK
<1>6. RoomInv'
  BY <1>1, <1>2, <1>5 DEF Work, RoomInv, Finished
<1> QED
  BY <1>2, <1>3, <1>4, <1>6, RoomMoves

(* The recovery loop takes up matches that are over, and passes others by. *)
LEMMA BatchTaken ==
  ASSUME OutcomesInv, Recover \/ \E m \in Matches : SkipUnreadable(m)
  PROVE  OutcomesInv'
<1>1. TypeOK /\ Work
  BY InvParts
<1>2. UNCHANGED <<matchVars, statVars, now, room, callVars, faults>>
  BY DEF Recover, SkipUnreadable
<1>3. batch' \subseteq batch \cup Missing
  BY DEF Recover, SkipUnreadable, Oldest
<1>4. \A n \in batch' : n \in Matches /\ Finished(n)
  BY <1>1, <1>3 DEF TypeOK, Work, RoomInv, Missing
<1>5. RowsTyped' /\ DatesStay
  BY <1>1, <1>2, TypeParts, RowsRest
<1>6. WorkTyped'
  BY <1>1, <1>2, <1>4 DEF TypeOK, WorkTyped, callVars
<1>7. RoomInv'
  BY <1>1, <1>2, <1>4 DEF Work, RoomInv, Finished, matchVars
<1> QED
  BY <1>2, <1>5, <1>6, <1>7, RoomMoves

(* A call begins. *)
LEMMA CallBegins ==
  ASSUME TypeOK, Work, NEW r \in Callers, NEW m \in Matches, Finished(m), r \in {m, Recovery},
         Call(r, m), UNCHANGED <<matchVars, statVars, now>>, held' = held,
         RoomInv', WorkTyped'
  PROVE  TypeOK' /\ Work'
<1>1. /\ call' = [call EXCEPT ![r] = IF Recorded(m) THEN None
                              ELSE [None EXCEPT !.match = m, !.step = "match"]]
      /\ \A q \in Callers \ {r} : call'[q] = call[q] /\ held'[q] = held[q]
  BY DEF Call, TypeOK
<1>2. RowsTyped' /\ DatesStay /\ \A q : RowsStay(q)
  BY TypeParts, RowsRest
<1>3. TypeOK'
  BY <1>2, TypeParts, PTL
<1>4. CallInv(r)'
  <2>1. CASE Recorded(m)
    <3>1. call'[r] = None
      BY <1>1, <2>1 DEF TypeOK
    <3> QED
      BY <3>1, IdleCall
  <2>2. CASE ~Recorded(m)
    <3>1. [None EXCEPT !.match = m, !.step = "match"] = [[None EXCEPT !.match = m] EXCEPT !.step = "match"]
      OBVIOUS
    <3>2. [None EXCEPT !.match = m] = CallOf(m, "none", {}, <<>>, <<>>)
      BY DEF None, CallOf
    <3>3. [CallOf(m, "none", {}, <<>>, <<>>) EXCEPT !.step = "match"] = CallOf(m, "match", {}, <<>>, <<>>)
      BY UpdateStep
    <3>4. call'[r] = [None EXCEPT !.match = m, !.step = "match"]
      BY <1>1, <2>2 DEF TypeOK
    <3>5. call'[r] = CallOf(m, "match", {}, <<>>, <<>>)
      BY <3>1, <3>2, <3>3, <3>4
    <3>6. winner'[m] # "none"
      BY DEF Finished, matchVars
    <3> QED
      BY <3>5, <3>6 DEF CallInv, CallOf, Finished
  <2> QED
    BY <2>1, <2>2
<1>5. \A q \in Callers \ {r} : held'[r] \cap held[q] = {}
  BY DEF Work, LockInv
<1>6. Work'
  BY <1>1, <1>2, <1>3, <1>4, <1>5, WorkKeeps
<1> QED
  BY <1>3, <1>6

(* The room of a match that is over calls. *)
LEMMA RoomCalls ==
  ASSUME OutcomesInv, NEW m \in Matches, RoomRecords(m)
  PROVE  OutcomesInv'
<1>1. TypeOK /\ Tables /\ Work
  BY InvParts
<1>2. /\ room[m] = "settled" /\ Call(m, m) /\ held' = held
      /\ room' = [room EXCEPT ![m] = IF Recorded(m) THEN "closed" ELSE "recording"]
      /\ UNCHANGED <<matchVars, statVars, now, batch, faults>>
  BY DEF RoomRecords
<1>3. Finished(m) /\ m \in Callers
  BY <1>1, <1>2 DEF Work, RoomInv, Callers
<1>4. room'[m] \in {"closed", "recording"} /\ \A n \in Matches : n # m => room'[n] = room[n]
  BY <1>1, <1>2 DEF TypeOK
<1>5. RoomInv'
  <2>1. \A n : Finished(n)' <=> Finished(n)
    BY <1>2 DEF Finished, matchVars
  <2> QED
    BY <1>1, <1>2, <1>4, <2>1 DEF Work, RoomInv
<1>6. WorkTyped'
  <2>1. DOMAIN call' = Callers
    BY <1>1, <1>2 DEF Call, TypeOK
  <2> QED
    BY <1>1, <1>2, <2>1 DEF TypeOK, WorkTyped
<1>7. TypeOK' /\ Work'
  BY <1>1, <1>2, <1>3, <1>5, <1>6, CallBegins
<1>8. Tables'
  BY <1>1, <1>2, TypeParts, RowsRest, TablesStay
<1> QED
  BY <1>7, <1>8, InvPartsNext

(* The recovery loop calls. *)
LEMMA RecoveryCalls ==
  ASSUME OutcomesInv, NEW m \in Matches, RecoverMatch(m)
  PROVE  OutcomesInv'
<1>1. TypeOK /\ Tables /\ Work
  BY InvParts
<1>2. /\ m \in batch /\ Call(Recovery, m) /\ held' = held /\ batch' = batch \ {m}
      /\ UNCHANGED <<matchVars, statVars, now, room, faults>>
  BY DEF RecoverMatch, IsNext
<1>3. Finished(m) /\ Recovery \in Callers
  BY <1>1, <1>2 DEF Work, RoomInv, Callers
<1>4. RoomInv'
  <2>1. \A n : Finished(n)' <=> Finished(n)
    BY <1>2 DEF Finished, matchVars
  <2> QED
    BY <1>1, <1>2, <2>1 DEF Work, RoomInv
<1>5. WorkTyped'
  <2>1. DOMAIN call' = Callers
    BY <1>1, <1>2 DEF Call, TypeOK
  <2> QED
    BY <1>1, <1>2, <2>1 DEF TypeOK, WorkTyped
<1>6. TypeOK' /\ Work'
  BY <1>1, <1>2, <1>3, <1>4, <1>5, CallBegins
<1>7. Tables'
  BY <1>1, <1>2, TypeParts, RowsRest, TablesStay
<1> QED
  BY <1>6, <1>7, InvPartsNext

(* A statement of a call fails. *)
LEMMA CallFails ==
  ASSUME OutcomesInv, NEW r \in Callers, Fail(r)
  PROVE  OutcomesInv'
<1>1. TypeOK /\ CallInv(r)
  BY CallFacts
<1>2. /\ call[r] # None /\ faults' = faults + 1 /\ Return(r, FALSE)
      /\ UNCHANGED <<matchVars, statVars, now>>
  BY DEF Fail, Fault
<1>3. call[r].step # "none"
  BY <1>1, <1>2 DEF CallInv
<1>4. faults' \in Nat
  BY <1>1, <1>2 DEF TypeOK
<1> QED
  BY <1>2, <1>3, <1>4, GivesUp

(* After a crash nothing is under way. *)
LEMMA ServerCrashes ==
  ASSUME OutcomesInv, Crash
  PROVE  OutcomesInv'
<1>1. TypeOK /\ Tables
  BY InvParts
<1>2. /\ faults' = faults + 1 /\ room' = [m \in Matches |-> "closed"] /\ batch' = {}
      /\ call' = [r \in Callers |-> None] /\ held' = [r \in Callers |-> {}]
      /\ UNCHANGED <<matchVars, statVars, now>>
  BY DEF Crash, Fault
<1>3. RowsTyped' /\ DatesStay
  BY <1>1, <1>2, TypeParts, RowsRest
<1>4. WorkTyped'
  BY <1>1, <1>2 DEF TypeOK, WorkTyped
<1>5. TypeOK'
  BY <1>3, <1>4, TypeParts, PTL
<1>6. Tables'
  BY <1>1, <1>2, <1>3, TablesStay
<1>7. RoomInv' /\ LockInv'
  BY <1>2 DEF RoomInv, LockInv
<1>8. \A r \in Callers : CallInv(r)'
  BY <1>2, IdleCall
<1>9. Work'
  BY <1>7, <1>8 DEF Work
<1> QED
  BY <1>5, <1>6, <1>9, InvPartsNext

(* A week passes, or nothing happens. *)
LEMMA TimePasses ==
  ASSUME OutcomesInv, NextWeek \/ UNCHANGED vars
  PROVE  OutcomesInv'
<1>1. TypeOK /\ Work
  BY InvParts
<1>2. /\ UNCHANGED <<fixture, winner, finalizedAt>> /\ UNCHANGED statVars
      /\ UNCHANGED <<room, batch>> /\ UNCHANGED callVars /\ UNCHANGED faults
  BY DEF NextWeek, vars, matchVars
<1>3. now' \in Nat
  BY <1>1 DEF NextWeek, vars, TypeOK
<1>4. DatesStay
  BY <1>2 DEF DatesStay
<1>5. RowsTyped' /\ WorkTyped'
  BY <1>1, <1>2, <1>3 DEF TypeOK, RowsTyped, WorkTyped, statVars, callVars
<1>6. RoomInv'
  BY <1>1, <1>2 DEF Work, RoomInv, Finished
<1> QED
  BY <1>2, <1>4, <1>5, <1>6, RoomMoves

-----------------------------------------------------------------------------
(* At first nothing is recorded. *)

(* The tables of the initial state. *)
LEMMA InitTables == Init => Tables
<1> SUFFICES ASSUME Init PROVE Tables
  OBVIOUS
<1>1. /\ result = [m \in Matches |-> [s \in Seat |-> "none"]]
      /\ audits = [m \in Matches |-> 0]
      /\ progression = [u \in Users |-> [g \in Games |-> NewPlayer]]
      /\ board = [u \in Users |-> [g \in Games |-> [p \in Periods |-> 0]]]
  BY DEF Init
<1>2. \A m \in Matches : \A s \in Seat : result[m][s] = "none"
  BY <1>1
<1>3. \A m \in Matches : ~Recorded(m)
  BY <1>2 DEF Recorded, Seat
<1>4. Cardinality({}) = 0 /\ IsFiniteSet({})
  BY FS_EmptySet
<1>5. ResultInv
  BY <1>2 DEF ResultInv
<1>6. FiniteInv
  <2>1. {m \in Matches : Recorded(m)} = {}
    BY <1>3
  <2> QED
    BY <1>4, <2>1 DEF FiniteInv
<1>7. AuditsOk
  BY <1>1, <1>3 DEF AuditsOk
<1>8. \A u, g : \A r \in {"WIN", "LOSS"} : With(u, g, r) = {}
  <2>1. \A m, u : SeatOf(m, u) \in Seat
    BY DEF SeatOf, Seat
  <2> QED
    BY <1>2, <2>1 DEF With
<1>9. StatsOk
  <2>1. Tally(0, 0) = NewPlayer
    BY DEF Tally, NewPlayer
  <2> QED
    BY <1>1, <1>4, <1>8, <2>1 DEF StatsOk
<1>10. BoardsOk
  <2>1. \A u, g, p : Won(u, g, p) = {}
    BY <1>8 DEF Won
  <2> QED
    BY <1>1, <1>4, <2>1 DEF BoardsOk
<1> QED
  BY <1>5, <1>6, <1>7, <1>9, <1>10 DEF Tables

(* The initial state is in the invariant. *)
LEMMA InitInv == Init => OutcomesInv
<1> SUFFICES ASSUME Init PROVE OutcomesInv
  OBVIOUS
<1>1. TypeOK
  <2>1. /\ fixture \in Fixtures /\ finalizedAt = [m \in Matches |-> 1]
        /\ winner = [m \in Matches |-> IF m \in Legacy THEN "A" ELSE "none"]
        /\ result = [m \in Matches |-> [s \in Seat |-> "none"]]
        /\ audits = [m \in Matches |-> 0] /\ now = 1
    BY DEF Init
  <2>2. /\ progression = [u \in Users |-> [g \in Games |-> NewPlayer]]
        /\ board = [u \in Users |-> [g \in Games |-> [p \in Periods |-> 0]]]
    BY DEF Init
  <2>3. NewPlayer \in [wins : Nat, losses : Nat, xp : Nat, level : Nat]
    BY DEF NewPlayer
  <2>4. RowsTyped
    BY <2>1, <2>2, <2>3 DEF RowsTyped, Seat
  <2>5. WorkTyped
    BY DEF Init, WorkTyped
  <2> QED
    BY <2>4, <2>5, TypeParts
<1>2. RoomInv
  <2>1. /\ winner = [m \in Matches |-> IF m \in Legacy THEN "A" ELSE "none"]
        /\ room = [m \in Matches |-> IF m \in Legacy THEN "closed" ELSE "playing"]
        /\ batch = {}
    BY DEF Init
  <2> QED
    BY <2>1 DEF RoomInv, Finished
<1>3. /\ call = [r \in Callers |-> None] /\ held = [r \in Callers |-> {}]
  BY DEF Init
<1>4. LockInv
  BY <1>3 DEF LockInv
<1>5. \A r \in Callers : CallInv(r)
  <2>1. /\ None = [match |-> Bot, step |-> "none", toLock |-> {}, stats |-> <<>>, scores |-> <<>>]
        /\ None.step = "none"
    BY DEF None
  <2> QED
    BY <1>3, <2>1 DEF CallInv
<1> QED
  BY <1>1, <1>2, <1>4, <1>5, InitTables, InvParts DEF Work

-----------------------------------------------------------------------------
(* What holds of every recording. *)

(* Every step keeps the invariant. *)
LEMMA StepKeeps == OutcomesInv /\ [Next]_vars => OutcomesInv'
<1> SUFFICES ASSUME OutcomesInv, [Next]_vars PROVE OutcomesInv'
  OBVIOUS
<1>1. ASSUME NEW r \in Callers, Statement(r) PROVE OutcomesInv'
  <2>1. ASSUME Commit(r, TRUE), UNCHANGED faults PROVE OutcomesInv'
    <3>1. faults' \in Nat
      BY <2>1, InvParts DEF TypeOK
    <3> QED
      BY <2>1, <3>1, Committed
  <2> QED
    BY <1>1, <2>1, MatchLocked, UserLocked, PlayerApplied DEF Statement
<1>2. ASSUME NEW m \in Matches, NEW s \in Seat, Finish(m, s) PROVE OutcomesInv'
  BY <1>2, MatchFinishes
<1>3. ASSUME NEW m \in Matches, RoomStep(m) PROVE OutcomesInv'
  BY <1>3, RoomCalls, SettlementRetried DEF RoomStep
<1>4. ASSUME RecoveryStep PROVE OutcomesInv'
  BY <1>4, BatchTaken, RecoveryCalls DEF RecoveryStep
<1>5. ASSUME NEW r \in Callers, Fail(r) PROVE OutcomesInv'
  BY <1>5, CallFails
<1>6. ASSUME NEW r \in Callers, CommitUnanswered(r) PROVE OutcomesInv'
  <2>1. Commit(r, FALSE) /\ faults' = faults + 1
    BY <1>6 DEF CommitUnanswered, Fault
  <2>2. faults' \in Nat
    BY <2>1, InvParts DEF TypeOK
  <2> QED
    BY <2>1, <2>2, Committed
<1>7. CASE Crash
  BY <1>7, ServerCrashes
<1>8. CASE NextWeek \/ UNCHANGED vars
  BY <1>8, TimePasses
<1> QED
  BY <1>1, <1>2, <1>3, <1>4, <1>5, <1>6, <1>7, <1>8 DEF Next

(* The inductive invariant. *)
THEOREM OutcomesInvariance == Spec => []OutcomesInv
BY InitInv, StepKeeps, PTL DEF Spec

(* The counters, XP and level of every player are those of the recorded    *)
(* results, each counted once, and each result is audited once.            *)
THEOREM StatsTheorem == Spec => []StatsMatchResults
<1>1. OutcomesInv => StatsMatchResults
  BY DEF OutcomesInv
<1> QED
  BY <1>1, OutcomesInvariance, PTL

(* Every board shows the recorded wins of its period, by the week in which *)
(* the match was finalized.                                                *)
THEOREM BoardsTheorem == Spec => []BoardsMatchResults
<1>1. OutcomesInv => BoardsMatchResults
  BY DEF OutcomesInv
<1> QED
  BY <1>1, OutcomesInvariance, PTL

=============================================================================
