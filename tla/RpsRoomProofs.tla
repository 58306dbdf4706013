---------------------------- MODULE RpsRoomProofs ----------------------------
(***************************************************************************)
(* The safety properties of one Rock Paper Scissors room over its tables,  *)
(* for any terms, any number of rounds and any number of failing calls.    *)
(*                                                                         *)
(* RpsInv says how the activation, the verdict and the settlement of the   *)
(* room go together with the row of its match.  Most steps leave all of    *)
(* that alone (QuietKeeps); the others resolve a round, call the match     *)
(* off, activate it, or move the settlement on.                            *)
(***************************************************************************)
EXTENDS RpsRoomProperties, SequenceTheorems, TLAPS

(* What is proved of the tables holds of the tables of the room. *)
Proved == INSTANCE WalletProofs WITH
  Users <- {UserA, UserB}, Matches <- {Match}, Purchases <- {}, Commands <- {},
  Economies <- {[fee |-> Fee, payout |-> Payout]}, StartingChips <- 0,
  Adjustments <- {}, Packs <- {}, MaxCompleters <- 0

-----------------------------------------------------------------------------
(* The tables. *)

(* The room's tables satisfy the assumption of the wallet module. *)
LEMMA RoomIsWallet == Proved!WalletAssumption
BY RpsAssumption DEF Proved!WalletAssumption

(* The operators of the two instances of the wallet module are the same. *)
LEMMA SameKeys ==
  /\ \A u, m : DB!EntryKey(m, u) = Proved!EntryKey(m, u)
  /\ \A u, m : DB!RefundKey(m, u) = Proved!RefundKey(m, u)
  /\ \A m : DB!PayoutKey(m) = Proved!PayoutKey(m)
  /\ \A u, k : DB!Holds(u, k) = Proved!Holds(u, k)
  /\ \A u, k : DB!AmountOf(u, k) = Proved!AmountOf(u, k)
  /\ \A k : DB!Recorded(k) = Proved!Recorded(k)
  /\ \A m : DB!Humans(m) = Proved!Humans(m)
BY DEF DB!EntryKey, Proved!EntryKey, DB!RefundKey, Proved!RefundKey, DB!PayoutKey,
       Proved!PayoutKey, DB!Holds, Proved!Holds, DB!AmountOf, Proved!AmountOf,
       DB!Recorded, Proved!Recorded, DB!Humans, Proved!Humans, DB!Seat, Proved!Seat

(* The invariant of the tables is the same in both instances. *)
LEMMA SameInv == Proved!IInv <=> DB!IInv
<1>1. Proved!TypeOK <=> DB!TypeOK
  BY DEF Proved!TypeOK, DB!TypeOK, Proved!LedgerEntry, DB!LedgerEntry, Proved!Keys,
         DB!Keys, Proved!Statuses, DB!Statuses, Proved!Seat, DB!Seat
<1>2. Proved!LedgerExplainsBalance <=> DB!LedgerExplainsBalance
  BY DEF Proved!LedgerExplainsBalance, DB!LedgerExplainsBalance, DB!BalanceAt, Proved!BalanceAt
<1>3. Proved!KeysUnique <=> DB!KeysUnique
  BY DEF Proved!KeysUnique, DB!KeysUnique
<1>4. ASSUME NEW m PROVE Proved!MatchInv(m) <=> DB!MatchInv(m)
  BY SameKeys DEF DB!MatchInv, Proved!MatchInv, DB!Staked, Proved!Staked
<1> QED
  BY <1>1, <1>2, <1>3, <1>4 DEF Proved!IInv, DB!IInv

(* The same of the next state. *)
LEMMA SameNext ==
  /\ Proved!IInv' <=> DB!IInv'
  /\ \A u, k : DB!Holds(u, k)' = Proved!Holds(u, k)'
<1>1. Proved!IInv' <=> DB!IInv'
  BY SameInv, PTL
<1>2. \A u, k : DB!Holds(u, k)' = Proved!Holds(u, k)'
  BY DEF DB!Holds, Proved!Holds
<1> QED
  BY <1>1, <1>2

(* So is the effect of a list of mutations, and whether it is accepted. *)
LEMMA SameMutations ==
  ASSUME NEW muts
  PROVE  /\ DB!MutateWallets(muts) <=> Proved!MutateWallets(muts)
         /\ DB!Accepts(muts) <=> Proved!Accepts(muts)
<1>1. DB!MutateWallets(muts) <=> Proved!MutateWallets(muts)
  BY DEF DB!MutateWallets, Proved!MutateWallets, DB!Recorded, Proved!Recorded,
         DB!Holds, Proved!Holds
<1>2. DB!Accepts(muts) <=> Proved!Accepts(muts)
  BY SameKeys DEF DB!Accepts, Proved!Accepts
<1> QED
  BY <1>1, <1>2

(* So are the transactions the room calls. *)
LEMMA SameTransactions ==
  /\ DB!DeductEntryFees(Match, Fee) <=> Proved!DeductEntryFees(Match, Fee)
  /\ DB!ActivateMatch(Match) <=> Proved!ActivateMatch(Match)
  /\ \A w : DB!FinalizeMatchPayout(Match, w, Payout) <=> Proved!FinalizeMatchPayout(Match, w, Payout)
  /\ DB!FinishBotWin(Match) <=> Proved!FinishBotWin(Match)
  /\ DB!RefundAbortedMatch(Match) <=> Proved!RefundAbortedMatch(Match)
<1> USE SameKeys DEF DB!moneyVars, Proved!moneyVars, DB!matchVars, Proved!matchVars,
        DB!purchaseVars, Proved!purchaseVars, DB!Mutation, Proved!Mutation
<1>1. DB!DeductEntryFees(Match, Fee) <=> Proved!DeductEntryFees(Match, Fee)
  <2>1. DB!EntryDebits(Match) = Proved!EntryDebits(Match)
    BY DEF DB!EntryDebits, Proved!EntryDebits
  <2> QED
    BY <2>1, SameMutations DEF DB!DeductEntryFees, Proved!DeductEntryFees,
       DB!CanDeductEntryFees, Proved!CanDeductEntryFees
<1>2. DB!ActivateMatch(Match) <=> Proved!ActivateMatch(Match)
  BY DEF DB!ActivateMatch, Proved!ActivateMatch, DB!Staked, Proved!Staked
<1>3. ASSUME NEW w
      PROVE  DB!FinalizeMatchPayout(Match, w, Payout) <=> Proved!FinalizeMatchPayout(Match, w, Payout)
  <2>1. DB!One(w, DB!PayoutKey(Match), Payout) = Proved!One(w, Proved!PayoutKey(Match), Payout)
    BY DEF DB!One, Proved!One
  <2> QED
    BY <2>1, SameMutations DEF DB!FinalizeMatchPayout, Proved!FinalizeMatchPayout,
       DB!CanFinalizeMatchPayout, Proved!CanFinalizeMatchPayout
<1>4. DB!FinishBotWin(Match) <=> Proved!FinishBotWin(Match)
  BY DEF DB!FinishBotWin, Proved!FinishBotWin, DB!Seat, Proved!Seat
<1>5. DB!RefundAbortedMatch(Match) <=> Proved!RefundAbortedMatch(Match)
  <2>1. DB!RefundCredits(Match) = Proved!RefundCredits(Match)
    BY DEF DB!RefundCredits, Proved!RefundCredits, DB!Debited, Proved!Debited
  <2> QED
    BY <2>1, SameMutations DEF DB!RefundAbortedMatch, Proved!RefundAbortedMatch,
       DB!CanRefundAbortedMatch, Proved!CanRefundAbortedMatch
<1> QED
  BY <1>1, <1>2, <1>3, <1>4, <1>5

-----------------------------------------------------------------------------
(* What the calls of the room do to its tables. *)

Users == {UserA, UserB}
Kept  == \A u \in Users : \A k : DB!Holds(u, k) => DB!Holds(u, k)'

(* A call of the room is a transaction of wallet.ts on its match, or one   *)
(* of the two updates of the room itself.                                  *)
Pays       == \E w \in Users : DB!FinalizeMatchPayout(Match, w, Payout)
Writes     == \/ DB!DeductEntryFees(Match, Fee) \/ DB!ActivateMatch(Match) \/ Pays
              \/ DB!FinishBotWin(Match) \/ DB!RefundAbortedMatch(Match)
TableStep  == UNCHANGED walletVars \/ Writes

(* A step that leaves the tables alone leaves what they say alone. *)
LEMMA TablesRest ==
  ASSUME UNCHANGED walletVars
  PROVE  /\ DB!IInv => DB!IInv'
         /\ \A u, k : DB!Holds(u, k)' = DB!Holds(u, k)
         /\ Players' = Players
<1>1. UNCHANGED Proved!vars
  BY DEF walletVars, Proved!vars, Proved!moneyVars, Proved!matchVars, Proved!purchaseVars
<1>2. Proved!IInv => Proved!IInv'
  BY <1>1, RoomIsWallet, Proved!NextInv
<1>3. DB!IInv => DB!IInv'
  BY <1>2, SameInv, SameNext
<1>4. \A u, k : DB!Holds(u, k)' = DB!Holds(u, k)
  BY DEF walletVars, DB!Holds
<1>5. Players' = Players
  BY DEF walletVars, Players, DB!Humans
<1> QED
  BY <1>3, <1>4, <1>5

(* Every call keeps the invariant of the tables and every ledger entry. *)
LEMMA WritesKeep ==
  ASSUME DB!IInv, Writes
  PROVE  DB!IInv' /\ Kept /\ UNCHANGED <<terms, seats>>
<1>1. Proved!IInv /\ Match \in {Match}
  BY SameInv
<1> USE RoomIsWallet, SameTransactions, SameKeys, SameNext DEF Kept, Users
<1>2. CASE DB!DeductEntryFees(Match, Fee)
  <2>1. Proved!IInv' /\ Kept
    BY <1>1, <1>2, Proved!DeductEntryFeesKeeps, Proved!DeductRecords
  <2>2. UNCHANGED <<terms, seats>>
    BY <1>2 DEF DB!DeductEntryFees, DB!matchVars
  <2> QED
    BY <2>1, <2>2, SameNext
<1>3. CASE DB!ActivateMatch(Match)
  <2>1. Proved!IInv'
    BY <1>1, <1>3, Proved!ActivateMatchKeeps
  <2>2. Kept /\ UNCHANGED <<terms, seats>>
    BY <1>3 DEF DB!ActivateMatch, DB!moneyVars, DB!Holds
  <2> QED
    BY <2>1, <2>2, SameNext
<1>4. CASE Pays
  <2>1. PICK w \in Users : DB!FinalizeMatchPayout(Match, w, Payout)
    BY <1>4 DEF Pays
  <2>2. Proved!IInv' /\ Kept
    BY <1>1, <2>1, Proved!FinalizeMatchPayoutKeeps, Proved!PayoutRecords
  <2>3. UNCHANGED <<terms, seats>>
    BY <2>1 DEF DB!FinalizeMatchPayout
  <2> QED
    BY <2>2, <2>3, SameNext
<1>5. CASE DB!FinishBotWin(Match)
  <2>1. Proved!IInv'
    BY <1>1, <1>5, Proved!FinishBotWinKeeps
  <2>2. Kept /\ UNCHANGED <<terms, seats>>
    BY <1>5 DEF DB!FinishBotWin, DB!moneyVars, DB!Holds
  <2> QED
    BY <2>1, <2>2, SameNext
<1>6. CASE DB!RefundAbortedMatch(Match)
  <2>1. Proved!IInv' /\ Kept
    BY <1>1, <1>6, Proved!RefundAbortedMatchKeeps, Proved!RefundRecords
  <2>2. UNCHANGED <<terms, seats>>
    BY <1>6 DEF DB!RefundAbortedMatch
  <2> QED
    BY <2>1, <2>2, SameNext
<1> QED
  BY <1>2, <1>3, <1>4, <1>5, <1>6 DEF Writes

(* What each call does besides. *)
LEMMA DeductCharges ==
  ASSUME DB!IInv, DB!DeductEntryFees(Match, Fee)
  PROVE  /\ DB!Staked(Match)'
         /\ UNCHANGED <<status, terms, seats, refunded, winner>>
         /\ Players' = Players
<1>1. Proved!IInv /\ Match \in {Match}
  BY SameInv
<1>2. DB!Staked(Match)'
  <2>1. Proved!DeductEntryFees(Match, Fee)
    BY SameTransactions
  <2>2. \A u \in Proved!Humans(Match) : Proved!Holds(u, Proved!EntryKey(Match, u))'
    BY <1>1, <2>1, RoomIsWallet, Proved!DeductRecords
  <2>3. DB!Humans(Match)' = Proved!Humans(Match)
    BY SameKeys DEF DB!Humans, DB!DeductEntryFees, DB!matchVars
  <2> QED
    BY <2>2, <2>3, SameKeys, SameNext DEF DB!Staked, DB!EntryKey, Proved!EntryKey
<1>3. UNCHANGED <<status, terms, seats, refunded, winner>>
  BY DEF DB!DeductEntryFees, DB!matchVars
<1>4. Players' = Players
  BY <1>3 DEF Players, DB!Humans
<1> QED
  BY <1>2, <1>3, <1>4

(* The payout writes the prize of w and closes the row in the same         *)
(* transaction.                                                            *)
LEMMA PayoutPays ==
  ASSUME DB!IInv, NEW w \in Users, DB!FinalizeMatchPayout(Match, w, Payout)
  PROVE  /\ DB!Holds(w, DB!PayoutKey(Match))'
         /\ status[Match] = "ACTIVE" /\ status'[Match] = "FINISHED" /\ winner'[Match] = w
         /\ UNCHANGED <<terms, seats>>
<1>1. Proved!IInv /\ Match \in {Match}
  BY SameInv
<1>2. DB!Holds(w, DB!PayoutKey(Match))'
  BY <1>1, RoomIsWallet, SameTransactions, SameKeys, SameNext, Proved!PayoutRecords DEF Users
<1>3. /\ status[Match] = "ACTIVE" /\ status' = [status EXCEPT ![Match] = "FINISHED"]
      /\ winner' = [winner EXCEPT ![Match] = w] /\ UNCHANGED <<terms, seats>>
  BY DEF DB!FinalizeMatchPayout, DB!CanFinalizeMatchPayout
<1> QED
  BY <1>2, <1>3 DEF DB!IInv, DB!TypeOK

-----------------------------------------------------------------------------
(* The parts of the type invariant. *)

PlayTyped ==
  /\ round \in Nat
  /\ outcomes \in Seq({"DRAW", None} \cup Slots)
  /\ choice \in [Slots -> Choices \cup {None}]
  /\ score \in [Slots -> Nat]
  /\ roundTimer \in BOOLEAN
  /\ starts \in Nat
  /\ bots \in Nat

SeatTyped ==
  /\ conn \in [Slots -> {"away", "online", "grace", "gone", "bot"}]
  /\ audits \subseteq Slots

EndTyped ==
  /\ results \in Slots \cup {None}
  /\ rstatus \in {"WAITING", "ACTIVE", "FINISHED", "ABORTED"}
  /\ winnerSlot \in Slots \cup {None}
  /\ activation \in {"deduct", "activate", "done"}
  /\ settle \in {"idle", "finishEvent", "pay", "keep", "stats", "refund",
                 "abortEvent", "failed", "done"}
  /\ finalized \in BOOLEAN

EnvTyped == crashed \in BOOLEAN /\ faults \in 0..MaxFaults

(* The room's part of the invariant, beside its tables'. *)
Local == PlayTyped /\ SeatTyped /\ EndTyped /\ EnvTyped
Rules == RowInv /\ ActivationInv /\ VerdictInv /\ SettledInv

(* RpsInv by its parts: the tables, the types of the room, its rules. *)
LEMMA InvParts == RpsInv <=> DB!IInv /\ Local /\ Rules
<1>1. TypeOK <=> DB!TypeOK /\ Local
  BY DEF TypeOK, Local, PlayTyped, SeatTyped, EndTyped, EnvTyped
<1> QED
  BY <1>1 DEF RpsInv, Rules, DB!IInv

(* The same of the next state. *)
LEMMA InvPartsNext == RpsInv' <=> DB!IInv' /\ Local' /\ Rules'
BY InvParts, PTL

(* Somebody has to win a round to win the match. *)
LEMMA WinsAreRequired == RequiredWins \in Nat \ {0}
BY BestOfAssumption DEF RequiredWins

(* The types of the tables the room reads. *)
LEMMA RowTyped ==
  ASSUME DB!IInv, RowInv
  PROVE  /\ status \in [{Match} -> DB!Statuses]
         /\ winner \in [{Match} -> {UserA, UserB, Bot}]
         /\ status[Match] # "NONE"
         /\ DB!MatchInv(Match)
         /\ \A s \in Slots : Occupant(s) \in Users \cup {Bot}
         /\ \A s \in Slots : IsHuman(s) <=> Occupant(s) \in Players
<1>1. DB!MatchInv(Match) /\ DB!TypeOK
  BY DEF DB!IInv
<1>2. /\ status \in [{Match} -> DB!Statuses]
      /\ winner \in [{Match} -> {UserA, UserB, Bot}]
  BY <1>1 DEF DB!TypeOK
<1>3. Players = {seats[Match][s] : s \in {"A", "B"}} \ {Bot}
  BY DEF Players, DB!Humans, DB!Seat
<1>4. seats[Match]["A"] \in Players
  BY <1>3, RpsAssumption DEF RowInv
<1>5. status[Match] # "NONE"
  BY <1>1, <1>4 DEF DB!MatchInv, Players
<1>6. \A s \in Slots : Occupant(s) \in Users \cup {Bot}
  BY DEF Occupant, RowInv, Users
<1>7. \A s \in Slots : IsHuman(s) <=> Occupant(s) \in Players
  BY <1>3 DEF Occupant, IsHuman
<1> QED
  BY <1>1, <1>2, <1>5, <1>6, <1>7

-----------------------------------------------------------------------------
(* The steps of the room on its tables. *)

(* A step on the tables keeps their invariant, every entry and the lineup. *)
LEMMA TablesKeep ==
  ASSUME DB!IInv, RowInv, TableStep
  PROVE  /\ DB!IInv' /\ RowInv' /\ Kept
         /\ seats' = seats
         /\ DB!Staked(Match) => DB!Staked(Match)'
<1>1. DB!IInv' /\ Kept /\ UNCHANGED <<terms, seats>>
  <2>1. CASE UNCHANGED walletVars
    BY <2>1, TablesRest DEF Kept, walletVars
  <2>2. CASE Writes
    BY <2>2, WritesKeep
  <2> QED
    BY <2>1, <2>2 DEF TableStep
<1>2. RowInv'
  BY <1>1 DEF RowInv
<1>3. DB!Humans(Match)' = DB!Humans(Match) /\ DB!Humans(Match) \subseteq Users
  BY <1>1 DEF DB!Humans, DB!Seat, RowInv, Users
<1>4. DB!Staked(Match) => DB!Staked(Match)'
  BY <1>1, <1>3 DEF DB!Staked, Kept, DB!EntryKey
<1> QED
  BY <1>1, <1>2, <1>4

(* A step of the room that is one of wallet.ts's or a stutter, in the      *)
(* terms of the wallet module.                                             *)
LEMMA TableStepIsNext ==
  ASSUME TableStep
  PROVE  [DB!Next]_walletVars
<1>1. CASE DB!DeductEntryFees(Match, Fee)
  <2>1. \E e \in {[fee |-> Fee, payout |-> Payout]} : DB!DeductEntryFees(Match, e.fee)
    BY <1>1
  <2> QED
    BY <2>1 DEF DB!Next
<1>2. CASE Pays
  <2>1. PICK w \in Users : DB!FinalizeMatchPayout(Match, w, Payout)
    BY <1>2 DEF Pays
  <2>2. \E e \in {[fee |-> Fee, payout |-> Payout]} : DB!FinalizeMatchPayout(Match, w, e.payout)
    BY <2>1
  <2> QED
    BY <2>2 DEF DB!Next, Users
<1>3. CASE DB!ActivateMatch(Match) \/ DB!FinishBotWin(Match) \/ DB!RefundAbortedMatch(Match)
  BY <1>3 DEF DB!Next
<1> QED
  BY <1>1, <1>2, <1>3 DEF TableStep, Writes

-----------------------------------------------------------------------------
(* The effects of a step. *)

(* The parts of the room that money depends on. *)
coreVars == <<status, seats, winner, results, score, activation, endVars>>

(* A step that leaves those alone keeps the rules. *)
LEMMA QuietKeeps ==
  ASSUME DB!IInv, Rules, UNCHANGED walletVars, UNCHANGED coreVars
  PROVE  Rules'
<1>1. RowInv' /\ (DB!Staked(Match) => DB!Staked(Match)')
  BY TablesKeep DEF Rules, TableStep
<1>2. ActivationInv'
  BY <1>1 DEF Rules, ActivationInv, coreVars, endVars
<1>3. VerdictInv'
  BY DEF Rules, VerdictInv, coreVars, endVars, IsHuman, Occupant
<1>4. SettledInv'
  BY DEF Rules, SettledInv, coreVars, endVars, Occupant
<1> QED
  BY <1>1, <1>2, <1>3, <1>4 DEF Rules

(* The match is called off by a player's absence or by a failing call of   *)
(* activateMatch.                                                          *)
Aborts ==
  /\ rstatus \in {"WAITING", "ACTIVE"}
  /\ rstatus' = "ABORTED" /\ settle' = "refund" /\ activation' = "done"
  /\ UNCHANGED <<winnerSlot, finalized, score, results, seats, winner>>
  /\ status[Match] \in {"WAITING", "ACTIVE"} /\ status'[Match] \in {"WAITING", "ACTIVE"}

(* Calling the match off keeps the rules. *)
LEMMA AbortsKeep ==
  ASSUME DB!IInv, Local, Rules, TableStep, Aborts
  PROVE  Rules' /\ EndTyped'
<1>1. RowInv'
  BY TablesKeep DEF Rules
<1>2. ActivationInv'
  BY DEF ActivationInv, Aborts
<1>3. VerdictInv'
  BY DEF Rules, VerdictInv, Aborts
<1>4. SettledInv'
  BY DEF Rules, SettledInv, Aborts
<1>5. EndTyped'
  BY DEF Local, EndTyped, Aborts
<1> QED
  BY <1>1, <1>2, <1>3, <1>4, <1>5 DEF Rules

(* The match ends with a round, which gives slot s the wins it needs. *)
Wins(s) ==
  /\ rstatus = "ACTIVE"
  /\ rstatus' = "FINISHED" /\ winnerSlot' = s /\ settle' = "finishEvent"
  /\ score' \in [Slots -> Nat] /\ score'[s] = RequiredWins
  /\ UNCHANGED <<finalized, results, activation>>

(* The end of the match keeps the rules. *)
LEMMA WinsKeep ==
  ASSUME DB!IInv, Local, Rules, UNCHANGED walletVars, NEW s \in Slots, Wins(s)
  PROVE  Rules' /\ EndTyped'
<1>1. RowInv'
  BY TablesKeep DEF Rules, TableStep
<1>2. status' = status /\ winner' = winner /\ seats' = seats
  BY DEF walletVars
<1>3. s # None
  BY DEF Slots, None
<1>4. ActivationInv'
  BY <1>2 DEF Rules, ActivationInv, Wins
<1>5. VerdictInv'
  BY <1>3 DEF Rules, VerdictInv, Wins
<1>6. winner[Match] = Bot /\ results = None /\ status[Match] = "ACTIVE"
  BY DEF Rules, SettledInv, ActivationInv, Wins
<1>7. SettledInv'
  BY <1>2, <1>6 DEF SettledInv, Wins
<1>8. EndTyped'
  BY DEF Local, EndTyped, Wins
<1> QED
  BY <1>1, <1>4, <1>5, <1>7, <1>8 DEF Rules

(* A round that wins nobody the match. *)
Scores ==
  /\ score' \in [Slots -> Nat] /\ \A s \in Slots : score'[s] < RequiredWins
  /\ rstatus = "ACTIVE"
  /\ UNCHANGED <<results, activation, endVars>>

(* Such a round keeps the rules. *)
LEMMA ScoresKeep ==
  ASSUME DB!IInv, Local, Rules, UNCHANGED walletVars, Scores
  PROVE  Rules' /\ EndTyped'
<1>1. RowInv' /\ (DB!Staked(Match) => DB!Staked(Match)')
  BY TablesKeep DEF Rules, TableStep
<1>2. status' = status /\ winner' = winner /\ seats' = seats
  BY DEF walletVars
<1>3. ActivationInv'
  BY <1>1, <1>2 DEF Rules, ActivationInv, Scores, endVars
<1>4. VerdictInv'
  BY <1>2 DEF Rules, VerdictInv, Scores, endVars, IsHuman, Occupant
<1>5. SettledInv'
  BY <1>2 DEF Rules, SettledInv, Scores, endVars, Occupant
<1>6. EndTyped'
  BY DEF Local, EndTyped, Scores, endVars
<1> QED
  BY <1>1, <1>3, <1>4, <1>5, <1>6 DEF Rules

-----------------------------------------------------------------------------
(* Rounds. *)

(* The outcome of a round is a slot or a draw. *)
LEMMA OutcomeTyped ==
  ASSUME NEW c
  PROVE  RoundOutcome(c) \in {"DRAW"} \cup Slots
BY DEF RoundOutcome, ResolveRpsRound, Slots

(* A round that is resolved adds a win at most, so the match goes on or a  *)
(* slot has just the wins required.                                        *)
LEMMA ResolveKeeps ==
  ASSUME DB!IInv, Local, Rules, rstatus = "ACTIVE",
         NEW c \in [Slots -> Choices \cup {None}], ResolveCurrentRound(c),
         UNCHANGED <<walletVars, results, activation>>, bots' \in Nat
  PROVE  Rules' /\ EndTyped' /\ PlayTyped'
<1> DEFINE outcome == RoundOutcome(c)
           over    == IsMatchComplete(score')
<1>1. /\ choice' = c /\ outcomes' = [outcomes EXCEPT ![round] = outcome]
      /\ score' = [s \in Slots |-> IF s = outcome THEN score[s] + 1 ELSE score[s]]
      /\ roundTimer' = FALSE /\ round' = round
  BY DEF ResolveCurrentRound
<1>2. /\ over = None => starts' = starts + 1 /\ UNCHANGED endVars
      /\ over # None => /\ starts' = starts
                        /\ IF finalized THEN UNCHANGED endVars
                           ELSE /\ rstatus' = "FINISHED" /\ winnerSlot' = over
                                /\ settle' = "finishEvent" /\ UNCHANGED finalized
  BY DEF ResolveCurrentRound
<1>3. outcome \in {"DRAW"} \cup Slots
  BY OutcomeTyped
<1> HIDE DEF outcome
<1>4. /\ ~finalized /\ score \in [Slots -> Nat]
      /\ \A s \in Slots : score[s] < RequiredWins
  BY DEF Local, PlayTyped, EndTyped, Rules, VerdictInv
<1>5. /\ score' \in [Slots -> Nat]
      /\ \A s \in Slots : score'[s] <= RequiredWins
      /\ RequiredWins \in Nat
  BY <1>1, <1>4, WinsAreRequired
<1>6. PlayTyped'
  <2>1. starts' \in Nat
    BY <1>2 DEF Local, PlayTyped
  <2>2. outcomes' \in Seq({"DRAW", None} \cup Slots)
    <3>1. outcomes \in Seq({"DRAW", None} \cup Slots) /\ outcome \in {"DRAW", None} \cup Slots
      BY <1>3 DEF Local, PlayTyped
    <3> HIDE DEF None, Slots
    <3>2. ASSUME NEW S, NEW f \in Seq(S), NEW e \in S, NEW i
          PROVE  [f EXCEPT ![i] = e] \in Seq(S)
      <4>1. DOMAIN f = 1..Len(f) /\ Len(f) \in Nat /\ f \in [1..Len(f) -> S]
        BY SeqDef
      <4>2. [f EXCEPT ![i] = e] \in [1..Len(f) -> S]
        BY <4>1
      <4> QED
        BY <4>1, <4>2, SeqDef
    <3> QED
      BY <1>1, <3>1, <3>2
  <2> QED
    BY <1>1, <1>5, <2>1, <2>2 DEF Local, PlayTyped
<1>7. CASE \A s \in Slots : score'[s] < RequiredWins
  <2>1. over = None
    BY <1>5, <1>7 DEF IsMatchComplete, Slots
  <2>2. Scores
    BY <1>2, <1>5, <1>7, <2>1 DEF Scores
  <2> QED
    BY <1>6, <2>2, ScoresKeep
<1>8. CASE \E s \in Slots : score'[s] = RequiredWins
  <2>1. over \in Slots /\ score'[over] = RequiredWins
    BY <1>5, <1>8 DEF IsMatchComplete, Slots
  <2> HIDE DEF over
  <2>2. over # None
    BY <2>1 DEF Slots, None
  <2>3. Wins(over)
    BY <1>2, <1>4, <1>5, <2>1, <2>2 DEF Wins
  <2> QED
    BY <1>6, <2>1, <2>3, WinsKeep
<1> QED
  BY <1>5, <1>7, <1>8

(* What a step on the rounds keeps: everything. *)
PlayKeeps == RpsInv' /\ TableStep

(* Handling a choice keeps the rules and the types. *)
LEMMA HandleChoiceKeeps ==
  ASSUME DB!IInv, Local, Rules, NEW s \in Slots, NEW c \in Choices, HandleChoice(s, c),
         UNCHANGED <<walletVars, results, activation>>, bots' \in Nat
  PROVE  Rules' /\ EndTyped' /\ PlayTyped'
<1> DEFINE new == [choice EXCEPT ![s] = c]
<1>1. rstatus = "ACTIVE" /\ new \in [Slots -> Choices \cup {None}]
  BY DEF HandleChoice, Local, PlayTyped
<1>2. CASE \A t \in Slots : new[t] # None
  <2>1. ResolveCurrentRound(new)
    BY <1>2 DEF HandleChoice
  <2> QED
    BY <1>1, <2>1, ResolveKeeps
<1>3. CASE ~ \A t \in Slots : new[t] # None
  <2>1. choice' = new /\ UNCHANGED <<round, outcomes, score, roundTimer, starts, endVars>>
    BY <1>3 DEF HandleChoice
  <2>2. PlayTyped' /\ EndTyped'
    BY <1>1, <2>1 DEF Local, PlayTyped, EndTyped, endVars
  <2>3. Rules'
    BY <2>1, QuietKeeps DEF coreVars, walletVars
  <2> QED
    BY <2>2, <2>3
<1> QED
  BY <1>2, <1>3

(* A player's choice. *)
LEMMA SubmitChoiceKeeps ==
  ASSUME RpsInv, NEW s \in Slots, NEW c \in Choices, SubmitChoice(s, c)
  PROVE  PlayKeeps
<1>1. /\ HandleChoice(s, c) /\ UNCHANGED <<walletVars, results, activation>>
      /\ UNCHANGED <<conn, audits, bots, crashed, faults>>
  BY DEF SubmitChoice, seatVars, envVars
<1>2. DB!IInv /\ Local /\ Rules
  BY InvParts
<1>3. bots' \in Nat
  BY <1>1, <1>2 DEF Local, PlayTyped
<1>4. Rules' /\ EndTyped' /\ PlayTyped'
  BY <1>1, <1>2, <1>3, HandleChoiceKeeps
<1>5. SeatTyped' /\ EnvTyped'
  BY <1>1, <1>2 DEF Local, SeatTyped, EnvTyped
<1>6. DB!IInv'
  BY <1>1, <1>2, TablesRest
<1> QED
  BY <1>1, <1>4, <1>5, <1>6, InvPartsNext DEF Local, PlayKeeps, TableStep

(* The bot's choice, in whatever round it meets. *)
LEMMA BotTimerKeeps ==
  ASSUME RpsInv, NEW c \in Choices, BotTimer(c)
  PROVE  PlayKeeps
<1>1. /\ UNCHANGED <<walletVars, results, activation>>
      /\ UNCHANGED <<conn, audits, crashed, faults>>
      /\ bots > 0 /\ bots' = bots - 1
  BY DEF BotTimer, seatVars, envVars
<1>2. DB!IInv /\ Local /\ Rules
  BY InvParts
<1>3. bots' \in Nat /\ "PLAYER2" \in Slots
  BY <1>1, <1>2 DEF Local, PlayTyped, Slots
<1>4. Rules' /\ EndTyped' /\ PlayTyped'
  <2>1. CASE HandleChoice("PLAYER2", c)
    BY <1>1, <1>2, <1>3, <2>1, HandleChoiceKeeps
  <2>2. CASE UNCHANGED <<round, outcomes, choice, score, roundTimer, starts, endVars>>
    <3>1. Rules'
      BY <1>1, <1>2, <2>2, QuietKeeps DEF coreVars, walletVars
    <3>2. EndTyped' /\ PlayTyped'
      BY <1>1, <1>2, <1>3, <2>2 DEF Local, PlayTyped, EndTyped, endVars
    <3> QED
      BY <3>1, <3>2
  <2> QED
    BY <2>1, <2>2 DEF BotTimer
<1>5. SeatTyped' /\ EnvTyped'
  BY <1>1, <1>2 DEF Local, SeatTyped, EnvTyped
<1>6. DB!IInv'
  BY <1>1, <1>2, TablesRest
<1> QED
  BY <1>1, <1>4, <1>5, <1>6, InvPartsNext DEF Local, PlayKeeps, TableStep

(* The deadline of a round. *)
LEMMA RoundTimerKeeps ==
  ASSUME RpsInv, RoundTimer
  PROVE  PlayKeeps
<1>1. /\ UNCHANGED <<walletVars, results, activation>>
      /\ UNCHANGED <<conn, audits, bots, crashed, faults>>
  BY DEF RoundTimer, seatVars, envVars
<1>2. DB!IInv /\ Local /\ Rules
  BY InvParts
<1>3. bots' \in Nat /\ choice \in [Slots -> Choices \cup {None}]
  BY <1>1, <1>2 DEF Local, PlayTyped
<1>4. Rules' /\ EndTyped' /\ PlayTyped'
  <2>1. CASE rstatus = "ACTIVE"
    <3>1. ResolveCurrentRound(choice)
      BY <2>1 DEF RoundTimer
    <3> QED
      BY <1>1, <1>2, <1>3, <2>1, <3>1, ResolveKeeps
  <2>2. CASE rstatus # "ACTIVE"
    <3>1. roundTimer' = FALSE /\ UNCHANGED <<round, outcomes, choice, score, starts, endVars>>
      BY <2>2 DEF RoundTimer
    <3>2. Rules'
      BY <1>1, <1>2, <3>1, QuietKeeps DEF coreVars, walletVars
    <3>3. EndTyped' /\ PlayTyped'
      BY <1>1, <1>2, <3>1 DEF Local, PlayTyped, EndTyped, endVars
    <3> QED
      BY <3>2, <3>3
  <2> QED
    BY <2>1, <2>2
<1>5. SeatTyped' /\ EnvTyped'
  BY <1>1, <1>2 DEF Local, SeatTyped, EnvTyped
<1>6. DB!IInv'
  BY <1>1, <1>2, TablesRest
<1> QED
  BY <1>1, <1>4, <1>5, <1>6, InvPartsNext DEF Local, PlayKeeps, TableStep

(* A round that starts is a round, with no choices yet. *)
LEMMA StartRoundKeeps ==
  ASSUME PlayTyped, StartRound, starts' \in Nat
  PROVE  PlayTyped' /\ score' = score
<1>1. outcomes' \in Seq({"DRAW", None} \cup Slots)
  BY DEF PlayTyped, StartRound
<1>2. round' \in Nat /\ bots' \in Nat /\ roundTimer' \in BOOLEAN /\ score' = score
  BY DEF PlayTyped, StartRound
<1>3. choice' \in [Slots -> Choices \cup {None}]
  BY DEF StartRound, NoChoices
<1> QED
  BY <1>1, <1>2, <1>3 DEF PlayTyped

(* The next round, although the match may be over. *)
LEMMA StartTimerKeeps ==
  ASSUME RpsInv, StartTimer
  PROVE  PlayKeeps
<1>1. /\ UNCHANGED <<walletVars, results, activation, endVars>>
      /\ UNCHANGED <<conn, audits, crashed, faults>>
      /\ StartRound /\ starts > 0 /\ starts' = starts - 1
  BY DEF StartTimer, seatVars, envVars
<1>2. DB!IInv /\ Local /\ Rules
  BY InvParts
<1>3. PlayTyped' /\ score' = score
  <2>1. starts' \in Nat
    BY <1>1, <1>2 DEF Local, PlayTyped
  <2> QED
    BY <1>1, <1>2, <2>1, StartRoundKeeps DEF Local
<1>4. Rules'
  BY <1>1, <1>2, <1>3, QuietKeeps DEF coreVars, walletVars
<1>5. SeatTyped' /\ EnvTyped' /\ EndTyped'
  BY <1>1, <1>2 DEF Local, SeatTyped, EnvTyped, EndTyped, endVars
<1>6. DB!IInv'
  BY <1>1, <1>2, TablesRest
<1> QED
  BY <1>1, <1>3, <1>4, <1>5, <1>6, InvPartsNext DEF Local, PlayKeeps, TableStep

-----------------------------------------------------------------------------
(* Activation. *)

(* A failing call takes one from the budget of the instance. *)
LEMMA FaultTyped ==
  ASSUME EnvTyped, UNCHANGED crashed, Fault \/ UNCHANGED faults
  PROVE  EnvTyped'
BY RpsAssumption DEF EnvTyped, Fault

(* activateMatch goes on only with every stake taken; otherwise the match  *)
(* is called off.                                                          *)
LEMMA DeductKeeps ==
  ASSUME RpsInv, DeductReply
  PROVE  PlayKeeps
<1>1. DB!IInv /\ Local /\ Rules
  BY InvParts
<1>2. /\ activation = "deduct"
      /\ UNCHANGED <<results, round, outcomes, choice, score, roundTimer, starts, bots,
                     conn, audits, crashed>>
      /\ Fault \/ UNCHANGED faults
  BY DEF DeductReply, playVars, seatVars
<1>3. /\ rstatus = "WAITING" /\ status[Match] = "WAITING" /\ ~finalized
  BY <1>1, <1>2 DEF Local, EndTyped, Rules, ActivationInv, VerdictInv
<1>4. PlayTyped' /\ SeatTyped' /\ EnvTyped'
  BY <1>1, <1>2, FaultTyped DEF Local, PlayTyped, SeatTyped
<1>5. CASE DB!DeductEntryFees(Match, Fee) /\ activation' = "activate" /\ UNCHANGED endVars
  <2>1. TableStep
    BY <1>5 DEF TableStep, Writes
  <2>2. DB!Staked(Match)' /\ UNCHANGED <<status, seats, winner>>
    BY <1>1, <1>5, DeductCharges
  <2>3. DB!IInv' /\ RowInv'
    BY <1>1, <2>1, TablesKeep DEF Rules
  <2>4. ActivationInv'
    BY <1>1, <1>3, <1>5, <2>2 DEF ActivationInv, Rules, endVars
  <2>5. VerdictInv'
    BY <1>1, <1>2, <1>5, <2>2 DEF Rules, VerdictInv, endVars, IsHuman, Occupant
  <2>6. SettledInv'
    BY <1>1, <1>2, <1>5, <2>2 DEF Rules, SettledInv, endVars, Occupant
  <2>7. EndTyped'
    BY <1>1, <1>2, <1>5 DEF Local, EndTyped, endVars
  <2> QED
    BY <1>4, <2>1, <2>3, <2>4, <2>5, <2>6, <2>7, InvPartsNext DEF Local, Rules, PlayKeeps
<1>6. CASE /\ DB!DeductEntryFees(Match, Fee) \/ UNCHANGED walletVars
           /\ activation' = "done" /\ AbortMatch
  <2>1. TableStep
    BY <1>6 DEF TableStep, Writes
  <2>2. UNCHANGED <<status, seats, winner>>
    BY <1>1, <1>6, DeductCharges DEF walletVars
  <2>3. Aborts
    BY <1>2, <1>3, <1>6, <2>2 DEF Aborts, AbortMatch
  <2>4. Rules' /\ EndTyped'
    BY <1>1, <2>1, <2>3, AbortsKeep
  <2>5. DB!IInv'
    BY <1>1, <2>1, TablesKeep DEF Rules
  <2> QED
    BY <1>4, <2>1, <2>4, <2>5, InvPartsNext DEF Local, PlayKeeps
<1> QED
  BY <1>5, <1>6 DEF DeductReply

(* The room's own update of the row comes after the stakes, before any     *)
(* verdict.                                                                *)
LEMMA ActivateKeeps ==
  ASSUME RpsInv, ActivateReply
  PROVE  PlayKeeps
<1>1. DB!IInv /\ Local /\ Rules
  BY InvParts
<1>2. /\ activation = "activate" /\ activation' = "done"
      /\ UNCHANGED <<balance, ledger, terms, seats, refunded, winner, purchase, completing,
                     results, conn, audits, crashed>>
      /\ Fault \/ UNCHANGED faults
  BY DEF ActivateReply, seatVars
<1>3. /\ rstatus = "WAITING" /\ status[Match] = "WAITING" /\ ~finalized
      /\ DB!Staked(Match) /\ winner[Match] = Bot /\ results = None /\ settle = "idle"
  BY <1>1, <1>2 DEF Local, EndTyped, Rules, ActivationInv, VerdictInv, SettledInv
<1>4. SeatTyped' /\ EnvTyped'
  BY <1>1, <1>2, FaultTyped DEF Local, SeatTyped
<1>5. status \in [{Match} -> DB!Statuses]
  BY <1>1, RowTyped DEF Rules
<1>6. TableStep
  <2>1. CASE status' = status
    BY <1>2, <2>1 DEF TableStep, walletVars
  <2>2. CASE status' = [status EXCEPT ![Match] = "ACTIVE"]
    BY <1>2, <1>3, <2>2
       DEF TableStep, Writes, DB!ActivateMatch, DB!moneyVars, DB!purchaseVars
  <2> QED
    BY <2>1, <2>2 DEF ActivateReply
<1>7. DB!IInv' /\ RowInv'
  BY <1>1, <1>6, TablesKeep DEF Rules
<1>8. CASE /\ status' = [status EXCEPT ![Match] = "ACTIVE"] /\ rstatus' = "ACTIVE"
           /\ UNCHANGED <<winnerSlot, settle, finalized, starts>> /\ StartRound
  <2>1. PlayTyped' /\ score' = score
    BY <1>1, <1>8, StartRoundKeeps DEF Local, PlayTyped
  <2>2. status'[Match] = "ACTIVE"
    BY <1>5, <1>8
  <2>3. ActivationInv'
    BY <1>2, <1>8, <2>2 DEF ActivationInv
  <2>4. VerdictInv'
    BY <1>1, <1>3, <1>8, <2>1 DEF Rules, VerdictInv
  <2>5. SettledInv'
    BY <1>2, <1>3, <1>8, <2>2 DEF SettledInv
  <2>6. EndTyped'
    BY <1>1, <1>2, <1>8 DEF Local, EndTyped
  <2> QED
    BY <1>4, <1>6, <1>7, <2>1, <2>3, <2>4, <2>5, <2>6, InvPartsNext DEF Local, Rules, PlayKeeps
<1>9. CASE /\ status' \in {status, [status EXCEPT ![Match] = "ACTIVE"]}
           /\ AbortMatch /\ UNCHANGED playVars
  <2>1. status'[Match] \in {"WAITING", "ACTIVE"}
    BY <1>3, <1>5, <1>9
  <2>2. Aborts
    BY <1>2, <1>3, <1>9, <2>1 DEF Aborts, AbortMatch, playVars
  <2>3. Rules' /\ EndTyped'
    BY <1>1, <1>6, <2>2, AbortsKeep
  <2>4. PlayTyped'
    BY <1>1, <1>9 DEF Local, PlayTyped, playVars
  <2> QED
    BY <1>4, <1>6, <1>7, <2>3, <2>4, InvPartsNext DEF Local, PlayKeeps
<1> QED
  BY <1>8, <1>9 DEF ActivateReply

-----------------------------------------------------------------------------
(* Joining and leaving. *)

(* onLeave calls an active match off, and does nothing to any other. *)
LEMMA DepartKeeps ==
  ASSUME DB!IInv, Local, Rules, UNCHANGED walletVars, Depart \/ UNCHANGED endVars,
         UNCHANGED <<results, activation, score>>
  PROVE  Rules' /\ EndTyped'
<1>1. CASE UNCHANGED endVars
  <2>1. Rules'
    BY <1>1, QuietKeeps DEF coreVars, walletVars
  <2> QED
    BY <1>1, <2>1 DEF Local, EndTyped, endVars
<1>2. CASE rstatus = "ACTIVE" /\ AbortMatch
  <2>1. ~finalized /\ status[Match] = "ACTIVE" /\ activation = "done"
    BY <1>2 DEF Local, EndTyped, Rules, VerdictInv, ActivationInv
  <2>2. Aborts
    BY <1>2, <2>1 DEF Aborts, AbortMatch, walletVars
  <2> QED
    BY <2>2, AbortsKeep DEF TableStep
<1> QED
  BY <1>1, <1>2 DEF Depart

(* Joining, leaving, dropping, returning, and the failing write of a       *)
(* return.                                                                 *)
LEMMA SeatsKeep ==
  ASSUME RpsInv, NEW s \in Slots,
         \/ Join(s) \/ LeaveConsented(s) \/ Drop(s) \/ Reconnect(s) \/ AuditReply(s)
         \/ GraceExpires(s)
  PROVE  PlayKeeps
<1>1. DB!IInv /\ Local /\ Rules
  BY InvParts
<1>2. /\ UNCHANGED walletVars /\ UNCHANGED <<results, activation, crashed>>
      /\ UNCHANGED <<round, outcomes, choice, score, roundTimer, starts, bots>>
      /\ Depart \/ UNCHANGED endVars
      /\ Fault \/ UNCHANGED faults
  BY DEF Join, LeaveConsented, Drop, Reconnect, AuditReply, GraceExpires, playVars, envVars
<1>3. SeatTyped'
  <2>1. CASE Join(s) \/ LeaveConsented(s) \/ Drop(s) \/ GraceExpires(s)
    BY <1>1, <2>1 DEF Join, LeaveConsented, Drop, GraceExpires, Local, SeatTyped
  <2>2. CASE Reconnect(s) \/ AuditReply(s)
    BY <1>1, <2>2 DEF Reconnect, AuditReply, Local, SeatTyped
  <2> QED
    BY <2>1, <2>2
<1>4. Rules' /\ EndTyped'
  BY <1>1, <1>2, DepartKeeps
<1>5. PlayTyped' /\ EnvTyped'
  BY <1>1, <1>2, FaultTyped DEF Local, PlayTyped
<1>6. DB!IInv'
  BY <1>1, <1>2, TablesRest
<1> QED
  BY <1>2, <1>3, <1>4, <1>5, <1>6, InvPartsNext DEF Local, PlayKeeps, TableStep

-----------------------------------------------------------------------------
(* The settlement. *)

(* What no step of the settlement touches. *)
settleFrame == <<seats, terms, round, outcomes, choice, score, roundTimer, starts, bots,
                 conn, audits, activation, rstatus, winnerSlot, crashed>>

(* A step of the settlement keeps the parts it does not work on. *)
LEMMA SettleFrameKeeps ==
  ASSUME RpsInv, TableStep, UNCHANGED settleFrame, Fault \/ UNCHANGED faults
  PROVE  /\ DB!IInv' /\ RowInv' /\ PlayTyped' /\ SeatTyped' /\ EnvTyped'
         /\ DB!Staked(Match) => DB!Staked(Match)'
<1>1. DB!IInv /\ Local /\ Rules
  BY InvParts
<1>2. DB!IInv' /\ RowInv' /\ (DB!Staked(Match) => DB!Staked(Match)')
  BY <1>1, TablesKeep DEF Rules
<1>3. PlayTyped' /\ SeatTyped'
  BY <1>1 DEF Local, PlayTyped, SeatTyped, settleFrame
<1>4. EnvTyped'
  BY <1>1, FaultTyped DEF Local, settleFrame
<1> QED
  BY <1>2, <1>3, <1>4

(* While the room settles the match is over, activated or not. *)
Settling ==
  /\ rstatus \in {"FINISHED", "ABORTED"} /\ activation = "done" /\ settle # "idle"
  /\ settle' # "idle" /\ UNCHANGED settleFrame
  /\ settle' \in {"pay", "keep", "stats", "failed", "done", "abortEvent"}
  /\ settle' \in {"pay", "keep", "stats"} => rstatus = "FINISHED"
  /\ settle' = "abortEvent" => rstatus = "ABORTED"
  /\ settle' = "keep" => ~IsHuman(winnerSlot)
  /\ finalized' \in BOOLEAN

(* A step of the settlement keeps the verdict it settles. *)
LEMMA VerdictStays ==
  ASSUME RpsInv, Settling
  PROVE  ActivationInv' /\ VerdictInv'
<1>1. Local /\ Rules
  BY InvParts
<1>2. ActivationInv'
  BY <1>1 DEF Settling, settleFrame, Rules, ActivationInv
<1>3. VerdictInv'
  BY <1>1 DEF Settling, settleFrame, Rules, VerdictInv, IsHuman, Occupant
<1> QED
  BY <1>2, <1>3

(* The typed parts of the end after such a step. *)
LEMMA EndStaysTyped ==
  ASSUME RpsInv, Settling, results' \in Slots \cup {None}
  PROVE  EndTyped'
BY InvParts DEF Local, EndTyped, Settling, settleFrame

(* A verdict is under settlement only once the match is over. *)
LEMMA SettlesOver ==
  ASSUME RpsInv, settle # "idle"
  PROVE  /\ rstatus \in {"FINISHED", "ABORTED"} /\ activation = "done"
         /\ finalized \in BOOLEAN /\ results \in Slots \cup {None}
         /\ rstatus = "FINISHED" => winnerSlot \in Slots
         /\ settle \in {"finishEvent", "pay", "keep", "stats"} => rstatus = "FINISHED"
         /\ settle \in {"refund", "abortEvent"} => rstatus = "ABORTED"
BY InvParts DEF Local, EndTyped, Rules, VerdictInv, ActivationInv

(* The MATCH_FINISHED event: a human winner is paid, a bot's win kept. *)
LEMMA FinishEventKeeps ==
  ASSUME RpsInv, FinishEventReply
  PROVE  PlayKeeps
<1>1. DB!IInv /\ Local /\ Rules
  BY InvParts
<1>2. /\ settle = "finishEvent" /\ UNCHANGED walletVars /\ results' = results
      /\ UNCHANGED settleFrame /\ (Fault \/ UNCHANGED faults)
      /\ settle' \in {"pay", "keep", "failed"}
      /\ settle' = "keep" => ~IsHuman(winnerSlot)
      /\ finalized' \in {finalized, TRUE, FALSE}
  BY DEF FinishEventReply, Fails, settleFrame, playVars, seatVars, walletVars
<1>3. Settling
  BY <1>2, SettlesOver DEF Settling
<1>4. SettledInv'
  BY <1>1, <1>2 DEF Rules, SettledInv, settleFrame, walletVars, Occupant
<1>5. TableStep
  BY <1>2 DEF TableStep
<1>6. EndTyped'
  BY <1>2, <1>3, SettlesOver, EndStaysTyped
<1> QED
  BY <1>2, <1>3, <1>4, <1>5, <1>6, SettleFrameKeeps, VerdictStays, InvPartsNext
     DEF Local, Rules, PlayKeeps

(* finalizeMatchPayout, with the prize of the environment: it is refused   *)
(* unless that is the prize of the match.                                  *)
LEMMA PayKeeps ==
  ASSUME RpsInv, PayReply
  PROVE  PlayKeeps
<1>1. DB!IInv /\ Local /\ Rules
  BY InvParts
<1> DEFINE w == Occupant(winnerSlot)
<1>2. /\ settle = "pay" /\ results' = results
      /\ \/ /\ DB!FinalizeMatchPayout(Match, w, EnvPayout)
            /\ \/ settle' = "stats" /\ finalized' = TRUE
               \/ settle' = "failed" /\ finalized' = finalized
         \/ UNCHANGED walletVars /\ settle' = "failed" /\ finalized' = finalized
      /\ UNCHANGED <<round, outcomes, choice, score, roundTimer, starts, bots,
                     conn, audits, activation, rstatus, winnerSlot, crashed>>
      /\ Fault \/ UNCHANGED faults
  BY DEF PayReply, Fails, playVars, seatVars
<1>3. /\ rstatus = "FINISHED" /\ winnerSlot \in Slots /\ finalized \in BOOLEAN
      /\ results = None \/ (results = winnerSlot /\ status[Match] = "FINISHED")
      /\ results \in Slots \cup {None} /\ status[Match] = "ACTIVE"
  BY <1>1, <1>2, SettlesOver DEF Rules, SettledInv
<1>4. CASE DB!FinalizeMatchPayout(Match, w, EnvPayout)
  <2>1. EnvPayout = Payout /\ w \in DB!Humans(Match)
    BY <1>1, <1>4 DEF DB!FinalizeMatchPayout, DB!CanFinalizeMatchPayout, Rules, RowInv
  <2>2. w \in Users
    BY <1>1, <2>1, RpsAssumption DEF DB!Humans, DB!Seat, Rules, RowInv, Users
  <2>3. Pays /\ DB!FinalizeMatchPayout(Match, w, Payout)
    BY <1>4, <2>1, <2>2 DEF Pays
  <2>4. status'[Match] = "FINISHED" /\ winner'[Match] = w /\ UNCHANGED <<terms, seats>>
    BY <1>1, <2>2, <2>3, PayoutPays
  <2>5. TableStep
    BY <2>3 DEF TableStep, Writes
  <2>6. UNCHANGED settleFrame
    BY <1>2, <2>4 DEF settleFrame
  <2>7. Settling
    BY <1>2, <1>3, <2>6, SettlesOver DEF Settling
  <2>8. SettledInv'
    BY <1>2, <1>3, <2>4 DEF SettledInv, Occupant
  <2>9. EndTyped'
    BY <1>2, <1>3, <2>7, EndStaysTyped
  <2> QED
    BY <1>2, <2>5, <2>6, <2>7, <2>8, <2>9, SettleFrameKeeps, VerdictStays, InvPartsNext
       DEF Local, Rules, PlayKeeps
<1>5. CASE UNCHANGED walletVars /\ settle' = "failed" /\ finalized' = finalized
  <2>1. UNCHANGED settleFrame
    BY <1>2, <1>5 DEF settleFrame, walletVars
  <2>2. Settling
    BY <1>2, <1>3, <1>5, <2>1, SettlesOver DEF Settling
  <2>3. SettledInv'
    BY <1>1, <1>2, <1>5 DEF Rules, SettledInv, walletVars, Occupant
  <2>4. EndTyped' /\ TableStep
    BY <1>2, <1>3, <1>5, <2>2, EndStaysTyped DEF TableStep
  <2> QED
    BY <1>2, <2>1, <2>2, <2>3, <2>4, SettleFrameKeeps, VerdictStays, InvPartsNext
       DEF Local, Rules, PlayKeeps
<1> QED
  BY <1>2, <1>4, <1>5

(* The update for a bot's win comes before any other settlement. *)
LEMMA KeepKeeps ==
  ASSUME RpsInv, KeepReply
  PROVE  PlayKeeps
<1>1. DB!IInv /\ Local /\ Rules
  BY InvParts
<1>2. /\ settle = "keep" /\ results' = results /\ finalized' = finalized
      /\ UNCHANGED <<balance, ledger, terms, seats, refunded, winner, purchase, completing>>
      /\ \/ /\ status' = [status EXCEPT ![Match] = "FINISHED"]
            /\ settle' \in {"stats", "failed"}
         \/ UNCHANGED status /\ settle' = "failed"
      /\ UNCHANGED settleFrame
      /\ Fault \/ UNCHANGED faults
  BY DEF KeepReply, Fails, playVars, seatVars, settleFrame
<1>3. /\ rstatus = "FINISHED" /\ winnerSlot \in Slots /\ finalized \in BOOLEAN
      /\ results \in Slots \cup {None} /\ status[Match] = "ACTIVE" /\ ~IsHuman(winnerSlot)
  BY <1>1, <1>2, SettlesOver DEF Rules, SettledInv, VerdictInv
<1>4. status \in [{Match} -> DB!Statuses] /\ winner[Match] = Bot /\ results = None
  BY <1>1, <1>3, RowTyped DEF Rules, DB!MatchInv, SettledInv
<1>5. TableStep
  <2>1. CASE UNCHANGED status
    BY <1>2, <2>1 DEF TableStep, walletVars
  <2>2. CASE status' = [status EXCEPT ![Match] = "FINISHED"]
    <3>1. \E s \in DB!Seat : seats[Match][s] = Bot
      BY <1>3 DEF IsHuman, Occupant, DB!Seat
    <3> QED
      BY <1>2, <1>3, <2>2, <3>1
         DEF TableStep, Writes, DB!FinishBotWin, DB!moneyVars, DB!purchaseVars
  <2> QED
    BY <1>2, <2>1, <2>2
<1>6. Settling
  BY <1>2, <1>3, SettlesOver DEF Settling
<1>7. SettledInv'
  <2>1. \/ status'[Match] = "FINISHED" /\ settle' \in {"stats", "failed"}
        \/ status'[Match] = "ACTIVE" /\ settle' = "failed"
    BY <1>2, <1>3, <1>4
  <2> QED
    BY <1>2, <1>3, <1>4, <2>1 DEF SettledInv, settleFrame
<1>8. EndTyped'
  BY <1>2, <1>3, <1>6, EndStaysTyped
<1> QED
  BY <1>2, <1>5, <1>6, <1>7, <1>8, SettleFrameKeeps, VerdictStays, InvPartsNext
     DEF Local, Rules, PlayKeeps

(* The statistics name the winner of a FINISHED match. *)
LEMMA StatsKeep ==
  ASSUME RpsInv, StatsReply
  PROVE  PlayKeeps
<1>1. DB!IInv /\ Local /\ Rules
  BY InvParts
<1>2. /\ settle = "stats" /\ settle' = "done" /\ finalized' = finalized
      /\ UNCHANGED walletVars /\ UNCHANGED settleFrame
      /\ results' \in {results, winnerSlot}
      /\ Fault \/ UNCHANGED faults
  BY DEF StatsReply, RecordOutcome, settleFrame, playVars, seatVars, walletVars
<1>3. /\ rstatus = "FINISHED" /\ winnerSlot \in Slots /\ finalized \in BOOLEAN
      /\ results \in Slots \cup {None} /\ status[Match] = "FINISHED"
  BY <1>1, <1>2, SettlesOver DEF Rules, SettledInv
<1>4. Settling
  BY <1>2, <1>3, SettlesOver DEF Settling
<1>5. SettledInv'
  BY <1>1, <1>2, <1>3 DEF Rules, SettledInv, settleFrame, walletVars, Occupant
<1>6. EndTyped'
  BY <1>2, <1>3, <1>4, EndStaysTyped
<1>7. TableStep
  BY <1>2 DEF TableStep
<1> QED
  BY <1>2, <1>4, <1>5, <1>6, <1>7, SettleFrameKeeps, VerdictStays, InvPartsNext
     DEF Local, Rules, PlayKeeps

(* refundAbortedMatch and the event after it. *)
LEMMA RefundKeeps ==
  ASSUME RpsInv, RefundReply \/ AbortEventReply
  PROVE  PlayKeeps
<1>1. DB!IInv /\ Local /\ Rules
  BY InvParts
<1>2. /\ settle \in {"refund", "abortEvent"} /\ results' = results
      /\ settle' \in {"abortEvent", "done", "failed"} /\ finalized' \in {finalized, TRUE}
      /\ DB!RefundAbortedMatch(Match) \/ UNCHANGED walletVars
      /\ UNCHANGED <<round, outcomes, choice, score, roundTimer, starts, bots,
                     conn, audits, activation, rstatus, winnerSlot, crashed>>
      /\ Fault \/ UNCHANGED faults
  BY DEF RefundReply, AbortEventReply, Fails, playVars, seatVars
<1>3. /\ rstatus = "ABORTED" /\ finalized \in BOOLEAN /\ results \in Slots \cup {None}
      /\ status[Match] # "FINISHED" /\ winner[Match] = Bot /\ results = None
  BY <1>1, <1>2, SettlesOver DEF Rules, SettledInv
<1>4. TableStep
  BY <1>2 DEF TableStep, Writes
<1>5. /\ UNCHANGED <<terms, seats, winner>>
      /\ status'[Match] = "ABORTED" \/ status' = status
  <2>1. status \in [{Match} -> DB!Statuses]
    BY <1>1, RowTyped DEF Rules
  <2> QED
    BY <1>2, <2>1 DEF DB!RefundAbortedMatch, walletVars
<1>6. UNCHANGED settleFrame
  BY <1>2, <1>5 DEF settleFrame
<1>7. Settling
  BY <1>2, <1>3, <1>6, SettlesOver DEF Settling
<1>8. SettledInv'
  BY <1>2, <1>3, <1>5 DEF SettledInv
<1>9. EndTyped'
  BY <1>2, <1>3, <1>7, EndStaysTyped
<1> QED
  BY <1>2, <1>4, <1>6, <1>7, <1>8, <1>9, SettleFrameKeeps, VerdictStays, InvPartsNext
     DEF Local, Rules, PlayKeeps

-----------------------------------------------------------------------------
(* The invariant holds initially, and every step keeps it. *)

(* The process ends. *)
LEMMA CrashKeeps ==
  ASSUME RpsInv, Crash
  PROVE  PlayKeeps
<1>1. DB!IInv /\ Local /\ Rules
  BY InvParts
<1>2. /\ UNCHANGED walletVars /\ UNCHANGED <<results, score, activation, endVars>>
      /\ UNCHANGED <<round, outcomes, choice, roundTimer, starts, bots, conn, audits, faults>>
      /\ crashed' = TRUE
  BY DEF Crash, playVars, seatVars
<1>3. Rules'
  BY <1>1, <1>2, QuietKeeps DEF coreVars, walletVars
<1>4. Local'
  BY <1>1, <1>2 DEF Local, PlayTyped, SeatTyped, EndTyped, EnvTyped, endVars
<1> QED
  BY <1>1, <1>2, <1>3, <1>4, TablesRest, InvPartsNext DEF PlayKeeps, TableStep

(* No step at all. *)
LEMMA StutterKeeps ==
  ASSUME RpsInv, UNCHANGED vars
  PROVE  PlayKeeps
<1>1. DB!IInv /\ Local /\ Rules
  BY InvParts
<1>2. /\ UNCHANGED walletVars /\ UNCHANGED <<results, score, activation, endVars>>
      /\ UNCHANGED <<round, outcomes, choice, roundTimer, starts, bots, conn, audits,
                     crashed, faults>>
  BY DEF vars, playVars, seatVars, envVars
<1>3. Rules'
  BY <1>1, <1>2, QuietKeeps DEF coreVars, walletVars
<1>4. Local'
  BY <1>1, <1>2 DEF Local, PlayTyped, SeatTyped, EndTyped, EnvTyped, endVars
<1> QED
  BY <1>1, <1>2, <1>3, <1>4, TablesRest, InvPartsNext DEF PlayKeeps, TableStep

(* Every step keeps the invariant and is a step on the tables. *)
LEMMA StepKeeps ==
  ASSUME RpsInv, [Next]_vars
  PROVE  PlayKeeps
<1>1. CASE PlayerStep
  BY <1>1, SeatsKeep, SubmitChoiceKeeps DEF PlayerStep
<1>2. CASE TimerStep
  BY <1>2, RoundTimerKeeps, StartTimerKeeps, BotTimerKeeps, SeatsKeep DEF TimerStep
<1>3. CASE ActivationStep
  BY <1>3, DeductKeeps, ActivateKeeps DEF ActivationStep
<1>4. CASE SettleStep
  BY <1>4, FinishEventKeeps, PayKeeps, KeepKeeps, StatsKeep, RefundKeeps DEF SettleStep
<1> QED
  BY <1>1, <1>2, <1>3, <1>4, CrashKeeps, StutterKeeps DEF Next

(* The invariant of the tables holds when the lobby has created the row.   *)
LEMMA InitTables ==
  ASSUME Init
  PROVE  DB!IInv
<1>1. PICK wealth \in [Users -> Wealth] :
        /\ balance = wealth
        /\ ledger = [u \in Users |-> <<[key          |-> DB!StartingKey(u),
                                        amount       |-> wealth[u],
                                        balanceAfter |-> wealth[u]]>>]
  BY DEF Init, Users
<1>2. \A u \in Users : wealth[u] \in Nat
  BY <1>1, RpsAssumption
<1>3. \A u \in Users : /\ DOMAIN ledger[u] = {1} /\ Len(ledger[u]) = 1
                       /\ ledger[u][1].key = DB!StartingKey(u)
                       /\ ledger[u][1].amount = wealth[u]
                       /\ ledger[u][1].balanceAfter = wealth[u]
  BY <1>1
<1>4. \A u \in Users : \A k : DB!Holds(u, k) <=> k = DB!StartingKey(u)
  BY <1>3 DEF DB!Holds
<1>5. \A u, v \in Users : \A m :
        /\ DB!StartingKey(u) # DB!EntryKey(m, v) /\ DB!StartingKey(u) # DB!PayoutKey(m)
        /\ DB!StartingKey(u) # DB!RefundKey(m, v)
  BY DEF DB!StartingKey, DB!EntryKey, DB!PayoutKey, DB!RefundKey
<1>6. PICK b \in {UserB, Bot} :
        seats = [m \in {Match} |-> [s \in {"A", "B"} |-> IF s = "A" THEN UserA ELSE b]]
  BY DEF Init
<1>7. DB!TypeOK
  <2>1. balance \in [Users -> Nat]
    BY <1>1, <1>2
  <2>2. ledger \in [Users -> Seq(DB!LedgerEntry)]
    <3>1. ASSUME NEW u \in Users
          PROVE  [key |-> DB!StartingKey(u), amount |-> wealth[u], balanceAfter |-> wealth[u]]
                   \in DB!LedgerEntry
      <4>1. DB!StartingKey(u) \in DB!Keys
        BY DEF DB!StartingKey, DB!Keys, Users
      <4> QED
        BY <1>2, <4>1 DEF DB!LedgerEntry
    <3> QED
      BY <1>1, <3>1
  <2>3. /\ status \in [{Match} -> DB!Statuses]
        /\ terms \in [{Match} -> [fee : Nat, payout : Nat]]
        /\ refunded \in [{Match} -> BOOLEAN]
        /\ winner \in [{Match} -> Users \cup {Bot}]
    BY RpsAssumption DEF Init, DB!Statuses
  <2>4. seats \in [{Match} -> [DB!Seat -> Users \cup {Bot}]]
    BY <1>6 DEF DB!Seat, Users
  <2>5. /\ purchase \in [{} -> [status : {"NONE", "PENDING", "COMPLETED"},
                                user : Users \cup {Bot}, chips : Nat]]
        /\ completing \in [{} -> 0..0]
    BY DEF Init
  <2> QED
    BY <2>1, <2>2, <2>3, <2>4, <2>5 DEF DB!TypeOK, Users
<1>8. DB!LedgerExplainsBalance
  BY <1>1, <1>2, <1>3 DEF DB!LedgerExplainsBalance, DB!BalanceAt, Users
<1>9. DB!KeysUnique
  BY <1>3 DEF DB!KeysUnique, DB!StartingKey, Users
<1>10. DB!MatchInv(Match)
  <2>1. /\ status[Match] = "WAITING" /\ refunded[Match] = FALSE /\ winner[Match] = Bot
    BY DEF Init
  <2> QED
    BY <1>4, <1>5, <2>1 DEF DB!MatchInv, Users
<1> QED
  BY <1>7, <1>8, <1>9, <1>10 DEF DB!IInv

(* The invariant holds when the room is created. *)
LEMMA InitInv ==
  ASSUME Init
  PROVE  RpsInv
<1>1. PlayTyped
  <2>1. /\ round = 0 /\ outcomes = <<>> /\ choice = [s \in Slots |-> None]
        /\ score = [s \in Slots |-> 0] /\ roundTimer \in BOOLEAN /\ starts = 0 /\ bots = 0
    BY DEF Init, NoChoices
  <2> QED
    BY <2>1 DEF PlayTyped
<1>2. SeatTyped
  BY DEF Init, SeatTyped
<1>3. EndTyped
  BY DEF Init, EndTyped
<1>4. EnvTyped
  <2>1. crashed \in BOOLEAN /\ faults = MaxFaults
    BY DEF Init
  <2> QED
    BY <2>1, RpsAssumption DEF EnvTyped
<1>5. RowInv
  BY DEF Init, RowInv
<1>6. ActivationInv
  BY DEF Init, ActivationInv
<1>7. VerdictInv
  BY WinsAreRequired DEF Init, VerdictInv
<1>8. SettledInv
  BY DEF Init, SettledInv
<1> QED
  BY <1>1, <1>2, <1>3, <1>4, <1>5, <1>6, <1>7, <1>8, InitTables, InvParts DEF Local, Rules

-----------------------------------------------------------------------------
(* What holds of every room. *)

(* The inductive invariant. *)
THEOREM RpsInvariance == Spec => []RpsInv
<1>1. RpsInv /\ [Next]_vars => RpsInv'
  BY StepKeeps DEF PlayKeeps
<1> QED
  BY <1>1, InitInv, PTL DEF Spec

(* The verdict of the invariant is that of the tables. *)
LEMMA SettlementFollows == RpsInv => SettlementFollowsVerdict
<1> SUFFICES ASSUME RpsInv PROVE SettlementFollowsVerdict
  OBVIOUS
<1>1. DB!IInv /\ Local /\ Rules
  BY InvParts
<1>2. ASSUME NEW u \in Players, DB!Holds(u, DB!PayoutKey(Match))
      PROVE  /\ rstatus = "FINISHED" /\ Occupant(winnerSlot) = u
             /\ score[winnerSlot] = RequiredWins
  <2>1. u \in Users /\ u # Bot
    BY <1>1 DEF Players, DB!Humans, DB!Seat, Rules, RowInv, Users
  <2>2. winner[Match] = u
    BY <1>1, <1>2, <2>1, RowTyped DEF Rules, DB!MatchInv, Users
  <2>3. rstatus = "FINISHED" /\ winner[Match] = Occupant(winnerSlot)
    BY <1>1, <2>1, <2>2 DEF Rules, SettledInv
  <2> QED
    BY <1>1, <2>2, <2>3 DEF Rules, VerdictInv
<1>3. results # None => status[Match] = "FINISHED" /\ results = winnerSlot
  BY <1>1 DEF Rules, SettledInv
<1>4. /\ rstatus = "ABORTED" => status[Match] # "FINISHED"
      /\ rstatus # "ABORTED" => status[Match] # "ABORTED"
  BY <1>1 DEF Rules, SettledInv
<1> QED
  BY <1>2, <1>3, <1>4 DEF SettlementFollowsVerdict

(* The room and its tables keep their types. *)
THEOREM RpsTypes == Spec => []TypeOK
<1>1. RpsInv => TypeOK
  BY DEF RpsInv
<1> QED
  BY <1>1, RpsInvariance, PTL

(* Prize, statistics and row follow the verdict, which somebody has the    *)
(* required wins for.                                                      *)
THEOREM RpsSettlementTheorem == Spec => []SettlementFollowsVerdict
BY RpsInvariance, SettlementFollows, PTL

(* Every step of the room is a step of the wallet tables. *)
THEOREM RpsWalletStepsTheorem == Spec => ImplementsWallet
<1>1. RpsInv /\ [Next]_vars => [DB!Next]_walletVars
  BY StepKeeps, TableStepIsNext DEF PlayKeeps
<1> QED
  BY <1>1, RpsInvariance, PTL DEF Spec, ImplementsWallet

=============================================================================
