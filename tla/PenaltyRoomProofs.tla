-------------------------- MODULE PenaltyRoomProofs --------------------------
(***************************************************************************)
(* The invariants of one Penalty Duel room over its tables, its action     *)
(* properties, and that it plays a shoot-out, for any terms, any number of *)
(* kicks and any number of failing calls.                                  *)
(*                                                                         *)
(* RoomInv says what each part of the room knows of the others.  An action *)
(* is shown to keep it by its effect on the part it works on: it ends the  *)
(* duel (Ends), resolves or locks a turn (Resolves, Locks), begins one     *)
(* (BeginNextTurn), moves the settlement on (Settles), moves the start on, *)
(* or none of these.  Its effect on the tables is a transaction of the     *)
(* wallet module, whose own proofs say what that keeps.                    *)
(***************************************************************************)
EXTENDS PenaltyRoomProperties, TLAPS

(* What is proved of the tables holds of the tables of the room. *)
Proved == INSTANCE WalletProofs WITH
  Users <- {UserA, UserB}, Matches <- {Match}, Purchases <- {}, Commands <- {},
  Economies <- {[fee |-> Fee, payout |-> Payout]}, StartingChips <- 0,
  Adjustments <- {}, Packs <- {}, MaxCompleters <- 0

-----------------------------------------------------------------------------
(* The tables. *)

(* The room's tables satisfy the assumption of the wallet module. *)
LEMMA RoomIsWallet == Proved!WalletAssumption
BY RoomAssumption DEF Proved!WalletAssumption

(* The operators of the two instances of the wallet module are the same. *)
LEMMA SameKeys ==
  /\ \A u, m : DB!EntryKey(m, u) = Proved!EntryKey(m, u)
  /\ \A u, m : DB!RefundKey(m, u) = Proved!RefundKey(m, u)
  /\ \A m : DB!PayoutKey(m) = Proved!PayoutKey(m)
  /\ \A u, k : DB!Holds(u, k) = Proved!Holds(u, k)
  /\ \A u, k : DB!AmountOf(u, k) = Proved!AmountOf(u, k)
  /\ \A k : DB!Recorded(k) = Proved!Recorded(k)
  /\ \A m : DB!Humans(m) = Proved!Humans(m)
BY DEF DB!EntryKey, Proved!EntryKey, DB!RefundKey, Proved!RefundKey, DB!PayoutKey,
       Proved!PayoutKey, DB!Holds, Proved!Holds, DB!AmountOf, Proved!AmountOf,
       DB!Recorded, Proved!Recorded, DB!Humans, Proved!Humans, DB!Seat, Proved!Seat

(* The invariant of the tables is the same in both instances. *)
LEMMA SameInv == Proved!IInv <=> DB!IInv
<1>1. Proved!TypeOK <=> DB!TypeOK
  BY DEF Proved!TypeOK, DB!TypeOK, Proved!LedgerEntry, DB!LedgerEntry, Proved!Keys,
         DB!Keys, Proved!Statuses, DB!Statuses, Proved!Seat, DB!Seat
<1>2. Proved!LedgerExplainsBalance <=> DB!LedgerExplainsBalance
  BY DEF Proved!LedgerExplainsBalance, DB!LedgerExplainsBalance, DB!BalanceAt, Proved!BalanceAt
<1>3. Proved!KeysUnique <=> DB!KeysUnique
  BY DEF Proved!KeysUnique, DB!KeysUnique
<1>4. ASSUME NEW m PROVE Proved!MatchInv(m) <=> DB!MatchInv(m)
  BY SameKeys DEF DB!MatchInv, Proved!MatchInv, DB!Staked, Proved!Staked
<1> QED
  BY <1>1, <1>2, <1>3, <1>4 DEF Proved!IInv, DB!IInv

(* The same of the next state. *)
LEMMA SameNext ==
  /\ Proved!IInv' <=> DB!IInv'
  /\ \A u, k : DB!Holds(u, k)' = Proved!Holds(u, k)'
<1>1. Proved!IInv' <=> DB!IInv'
  BY SameInv, PTL
<1>2. \A u, k : DB!Holds(u, k)' = Proved!Holds(u, k)'
  BY DEF DB!Holds, Proved!Holds
<1> QED
  BY <1>1, <1>2

(* So is the effect of a list of mutations, and whether it is accepted. *)
LEMMA SameMutations ==
  ASSUME NEW muts
  PROVE  /\ DB!MutateWallets(muts) <=> Proved!MutateWallets(muts)
         /\ DB!Accepts(muts) <=> Proved!Accepts(muts)
<1>1. DB!MutateWallets(muts) <=> Proved!MutateWallets(muts)
  BY DEF DB!MutateWallets, Proved!MutateWallets, DB!Recorded, Proved!Recorded,
         DB!Holds, Proved!Holds
<1>2. DB!Accepts(muts) <=> Proved!Accepts(muts)
  BY SameKeys DEF DB!Accepts, Proved!Accepts
<1> QED
  BY <1>1, <1>2

(* So are the transactions the room calls. *)
LEMMA SameTransactions ==
  /\ DB!DeductEntryFees(Match, Fee) <=> Proved!DeductEntryFees(Match, Fee)
  /\ DB!ActivateMatch(Match) <=> Proved!ActivateMatch(Match)
  /\ \A w : DB!FinalizeMatchPayout(Match, w, Payout) <=> Proved!FinalizeMatchPayout(Match, w, Payout)
  /\ DB!FinishBotWin(Match) <=> Proved!FinishBotWin(Match)
  /\ DB!RefundAbortedMatch(Match) <=> Proved!RefundAbortedMatch(Match)
<1> USE SameKeys DEF DB!moneyVars, Proved!moneyVars, DB!matchVars, Proved!matchVars,
        DB!purchaseVars, Proved!purchaseVars, DB!Mutation, Proved!Mutation
<1>1. DB!DeductEntryFees(Match, Fee) <=> Proved!DeductEntryFees(Match, Fee)
  <2>1. DB!EntryDebits(Match) = Proved!EntryDebits(Match)
    BY DEF DB!EntryDebits, Proved!EntryDebits
  <2> QED
    BY <2>1, SameMutations DEF DB!DeductEntryFees, Proved!DeductEntryFees,
       DB!CanDeductEntryFees, Proved!CanDeductEntryFees
<1>2. DB!ActivateMatch(Match) <=> Proved!ActivateMatch(Match)
  BY DEF DB!ActivateMatch, Proved!ActivateMatch, DB!Staked, Proved!Staked
<1>3. ASSUME NEW w
      PROVE  DB!FinalizeMatchPayout(Match, w, Payout) <=> Proved!FinalizeMatchPayout(Match, w, Payout)
  <2>1. DB!One(w, DB!PayoutKey(Match), Payout) = Proved!One(w, Proved!PayoutKey(Match), Payout)
    BY DEF DB!One, Proved!One
  <2> QED
    BY <2>1, SameMutations DEF DB!FinalizeMatchPayout, Proved!FinalizeMatchPayout,
       DB!CanFinalizeMatchPayout, Proved!CanFinalizeMatchPayout
<1>4. DB!FinishBotWin(Match) <=> Proved!FinishBotWin(Match)
  BY DEF DB!FinishBotWin, Proved!FinishBotWin, DB!Seat, Proved!Seat
<1>5. DB!RefundAbortedMatch(Match) <=> Proved!RefundAbortedMatch(Match)
  <2>1. DB!RefundCredits(Match) = Proved!RefundCredits(Match)
    BY DEF DB!RefundCredits, Proved!RefundCredits, DB!Debited, Proved!Debited
  <2> QED
    BY <2>1, SameMutations DEF DB!RefundAbortedMatch, Proved!RefundAbortedMatch,
       DB!CanRefundAbortedMatch, Proved!CanRefundAbortedMatch
<1> QED
  BY <1>1, <1>2, <1>3, <1>4, <1>5

-----------------------------------------------------------------------------
(* What the calls of the room do to its tables. *)

Users == {UserA, UserB}
Kept  == \A u \in Users : \A k : DB!Holds(u, k) => DB!Holds(u, k)'

(* A call of the room is a transaction of wallet.ts on its match, or one   *)
(* of the two updates of the room itself.                                  *)
Pays       == \E w \in Users : DB!FinalizeMatchPayout(Match, w, Payout)
Writes     == \/ DB!DeductEntryFees(Match, Fee) \/ DB!ActivateMatch(Match) \/ Pays
              \/ DB!FinishBotWin(Match) \/ DB!RefundAbortedMatch(Match)
TableStep  == UNCHANGED walletVars \/ Writes

(* A step that leaves the tables alone leaves what they say alone. *)
LEMMA TablesRest ==
  ASSUME UNCHANGED walletVars
  PROVE  /\ DB!IInv => DB!IInv'
         /\ \A u, k : DB!Holds(u, k)' = DB!Holds(u, k)
         /\ Players' = Players
<1>1. UNCHANGED Proved!vars
  BY DEF walletVars, Proved!vars, Proved!moneyVars, Proved!matchVars, Proved!purchaseVars
<1>2. Proved!IInv => Proved!IInv'
  BY <1>1, RoomIsWallet, Proved!NextInv
<1>3. DB!IInv => DB!IInv'
  BY <1>2, SameInv, SameNext
<1>4. \A u, k : DB!Holds(u, k)' = DB!Holds(u, k)
  BY DEF walletVars, DB!Holds
<1>5. Players' = Players
  BY DEF walletVars, Players, DB!Humans
<1> QED
  BY <1>3, <1>4, <1>5

(* Every call keeps the invariant of the tables and every ledger entry. *)
LEMMA WritesKeep ==
  ASSUME DB!IInv, Writes
  PROVE  DB!IInv' /\ Kept /\ UNCHANGED <<terms, seats>>
<1>1. Proved!IInv /\ Match \in {Match}
  BY SameInv
<1> USE RoomIsWallet, SameTransactions, SameKeys, SameNext DEF Kept, Users
<1>2. CASE DB!DeductEntryFees(Match, Fee)
  <2>1. Proved!IInv' /\ Kept
    BY <1>1, <1>2, Proved!DeductEntryFeesKeeps, Proved!DeductRecords
  <2>2. UNCHANGED <<terms, seats>>
    BY <1>2 DEF DB!DeductEntryFees, DB!matchVars
  <2> QED
    BY <2>1, <2>2, SameNext
<1>3. CASE DB!ActivateMatch(Match)
  <2>1. Proved!IInv'
    BY <1>1, <1>3, Proved!ActivateMatchKeeps
  <2>2. Kept /\ UNCHANGED <<terms, seats>>
    BY <1>3 DEF DB!ActivateMatch, DB!moneyVars, DB!Holds
  <2> QED
    BY <2>1, <2>2, SameNext
<1>4. CASE Pays
  <2>1. PICK w \in Users : DB!FinalizeMatchPayout(Match, w, Payout)
    BY <1>4 DEF Pays
  <2>2. Proved!IInv' /\ Kept
    BY <1>1, <2>1, Proved!FinalizeMatchPayoutKeeps, Proved!PayoutRecords
  <2>3. UNCHANGED <<terms, seats>>
    BY <2>1 DEF DB!FinalizeMatchPayout
  <2> QED
    BY <2>2, <2>3, SameNext
<1>5. CASE DB!FinishBotWin(Match)
  <2>1. Proved!IInv'
    BY <1>1, <1>5, Proved!FinishBotWinKeeps
  <2>2. Kept /\ UNCHANGED <<terms, seats>>
    BY <1>5 DEF DB!FinishBotWin, DB!moneyVars, DB!Holds
  <2> QED
    BY <2>1, <2>2, SameNext
<1>6. CASE DB!RefundAbortedMatch(Match)
  <2>1. Proved!IInv' /\ Kept
    BY <1>1, <1>6, Proved!RefundAbortedMatchKeeps, Proved!RefundRecords
  <2>2. UNCHANGED <<terms, seats>>
    BY <1>6 DEF DB!RefundAbortedMatch
  <2> QED
    BY <2>1, <2>2, SameNext
<1> QED
  BY <1>2, <1>3, <1>4, <1>5, <1>6 DEF Writes

(* What each call does besides. *)
LEMMA DeductCharges ==
  ASSUME DB!IInv, DB!DeductEntryFees(Match, Fee)
  PROVE  /\ \A u \in Players : Entered(u)'
         /\ UNCHANGED <<status, terms, seats, refunded, winner>>
         /\ Players' = Players
<1>1. Proved!IInv /\ Match \in {Match}
  BY SameInv
<1>2. \A u \in Players : Entered(u)'
  BY <1>1, RoomIsWallet, SameTransactions, SameKeys, SameNext, Proved!DeductRecords DEF Players, Entered
<1>3. UNCHANGED <<status, terms, seats, refunded, winner>>
  BY DEF DB!DeductEntryFees, DB!matchVars
<1>4. Players' = Players
  BY <1>3 DEF Players, DB!Humans
<1> QED
  BY <1>2, <1>3, <1>4

(* The payout writes the prize of w and closes the row in the same         *)
(* transaction.                                                            *)
LEMMA PayoutPays ==
  ASSUME DB!IInv, NEW w \in Users, DB!FinalizeMatchPayout(Match, w, Payout)
  PROVE  /\ DB!Holds(w, DB!PayoutKey(Match))'
         /\ status[Match] = "ACTIVE" /\ status'[Match] = "FINISHED" /\ winner'[Match] = w
         /\ UNCHANGED <<terms, seats>>
<1>1. Proved!IInv /\ Match \in {Match}
  BY SameInv
<1>2. DB!Holds(w, DB!PayoutKey(Match))'
  BY <1>1, RoomIsWallet, SameTransactions, SameKeys, SameNext, Proved!PayoutRecords DEF Users
<1>3. /\ status[Match] = "ACTIVE" /\ status' = [status EXCEPT ![Match] = "FINISHED"]
      /\ winner' = [winner EXCEPT ![Match] = w] /\ UNCHANGED <<terms, seats>>
  BY DEF DB!FinalizeMatchPayout, DB!CanFinalizeMatchPayout
<1> QED
  BY <1>2, <1>3 DEF DB!IInv, DB!TypeOK

-----------------------------------------------------------------------------
(* The parts of the type invariant. *)

PlayTyped ==
  /\ phase \in Phases
  /\ firstKicker \in Seats
  /\ sequence \in Nat
  /\ kicksTaken \in [Seats -> Nat]
  /\ score \in [Seats -> Nat]
  /\ suddenDeathPair \in Nat
  /\ inSuddenDeath \in BOOLEAN
  /\ pending \in [Roles -> [dir : Directions \cup {None}, turn : Nat]]
  /\ expired \in BOOLEAN

TimersTyped ==
  timers \subseteq [kind : {"connect", "turn", "bot", "reveal", "retry", "disconnect"},
                    turn : Nat]

EndTyped ==
  /\ outcomeEvent \in Seats \cup {None}
  /\ results \in Seats \cup {None}
  /\ winnerSeat \in Seats \cup {None}
  /\ finishReason \in {None, "REGULATION", "SUDDEN_DEATH", "FORFEIT", "ABORT"}
  /\ settle \in {"idle", "finishEvent", "pay", "keep", "stats", "refund",
                 "abortEvent", "retry", "done"}
  /\ finalized \in BOOLEAN
  /\ published \in BOOLEAN

ConnTyped == conn \in [Seats -> {"away", "online", "grace", "gone", "bot"}]

EnvTyped ==
  /\ start \in {"idle", "deduct", "deducted", "deductFailed", "activate",
                "activated", "notWaiting", "activateFailed", "announce", "done"}
  /\ alive \in {"open", "disposed", "crashed"}
  /\ shutdown \in BOOLEAN
  /\ faults \in 0..MaxFaults

(* TypeOK is the types of the tables and the parts above. *)
LEMMA TypeParts ==
  TypeOK <=> DB!TypeOK /\ PlayTyped /\ TimersTyped /\ EndTyped /\ ConnTyped /\ EnvTyped
BY DEF TypeOK, PlayTyped, TimersTyped, EndTyped, ConnTyped, EnvTyped

(* The room's part of the invariant, beside its tables'. *)
Local == PlayTyped /\ TimersTyped /\ EndTyped /\ ConnTyped /\ EnvTyped
Rules == RowInv /\ StartInv /\ VerdictInv /\ SettledInv /\ TimerInv /\ PendingInv /\ KickInv

(* RoomInv by its parts: the tables, the types of the room, its rules. *)
LEMMA InvParts == RoomInv <=> DB!IInv /\ Local /\ Rules
BY TypeParts DEF RoomInv, Local, Rules, DB!IInv

(* The same of the next state. *)
LEMMA InvPartsNext == RoomInv' <=> DB!IInv' /\ Local' /\ Rules'
BY InvParts, PTL

(* The types of the tables the room reads. *)
LEMMA RowTyped ==
  ASSUME DB!IInv, RowInv
  PROVE  /\ status \in [{Match} -> DB!Statuses]
         /\ winner \in [{Match} -> {UserA, UserB, Bot}]
         /\ seats[Match]["A"] \in Users /\ seats[Match]["A"] # Bot
         /\ status[Match] # "NONE"
         /\ DB!MatchInv(Match)
         /\ Players = {seats[Match][s] : s \in Seats} \ {Bot}
         /\ terms[Match].fee = Fee /\ terms[Match].payout = Payout
<1>1. DB!MatchInv(Match) /\ DB!TypeOK
  BY DEF DB!IInv
<1>2. /\ status \in [{Match} -> DB!Statuses]
      /\ winner \in [{Match} -> {UserA, UserB, Bot}]
  BY <1>1 DEF DB!TypeOK
<1>3. seats[Match]["A"] \in Users /\ seats[Match]["A"] # Bot
  BY RoomAssumption DEF RowInv, Users
<1>4. Players = {seats[Match][s] : s \in Seats} \ {Bot}
  BY DEF Players, DB!Humans, DB!Seat, Seats
<1>5. seats[Match]["A"] \in Players
  BY <1>3, <1>4 DEF Seats
<1>6. status[Match] # "NONE"
  BY <1>1, <1>5 DEF DB!MatchInv, Players
<1>7. terms[Match].fee = Fee /\ terms[Match].payout = Payout
  BY DEF RowInv
<1> QED
  BY <1>1, <1>2, <1>3, <1>4, <1>6, <1>7

-----------------------------------------------------------------------------
(* The steps of the room on its tables. *)

(* A step on the tables keeps their invariant, every entry and the lineup. *)
LEMMA TablesKeep ==
  ASSUME DB!IInv, RowInv, TableStep
  PROVE  /\ DB!IInv' /\ RowInv' /\ Kept
         /\ seats' = seats /\ Players' = Players
<1>1. DB!IInv' /\ Kept /\ UNCHANGED <<terms, seats>>
  <2>1. CASE UNCHANGED walletVars
    BY <2>1, TablesRest DEF Kept, walletVars
  <2>2. CASE Writes
    BY <2>2, WritesKeep
  <2> QED
    BY <2>1, <2>2 DEF TableStep
<1>2. RowInv'
  BY <1>1 DEF RowInv
<1>3. Players' = Players
  BY <1>1 DEF Players, DB!Humans
<1> QED
  BY <1>1, <1>2, <1>3

(* A step of the room that is one of wallet.ts's or a stutter, in the      *)
(* terms of the wallet module.                                             *)
LEMMA TableStepIsNext ==
  ASSUME TableStep
  PROVE  [DB!Next]_walletVars
<1>1. CASE DB!DeductEntryFees(Match, Fee)
  <2>1. \E e \in {[fee |-> Fee, payout |-> Payout]} : DB!DeductEntryFees(Match, e.fee)
    BY <1>1
  <2> QED
    BY <2>1 DEF DB!Next
<1>2. CASE Pays
  <2>1. PICK w \in Users : DB!FinalizeMatchPayout(Match, w, Payout)
    BY <1>2 DEF Pays
  <2>2. \E e \in {[fee |-> Fee, payout |-> Payout]} : DB!FinalizeMatchPayout(Match, w, e.payout)
    BY <2>1
  <2> QED
    BY <2>2 DEF DB!Next, Users
<1>3. CASE DB!ActivateMatch(Match) \/ DB!FinishBotWin(Match) \/ DB!RefundAbortedMatch(Match)
  BY <1>3 DEF DB!Next
<1> QED
  BY <1>1, <1>2, <1>3 DEF TableStep, Writes

(* ActivateReply updates the row only once every player has paid. *)
LEMMA ActivateTables ==
  ASSUME RoomInv, ActivateReply
  PROVE  TableStep
<1>1. DB!IInv /\ RowInv /\ StartInv
  BY DEF RoomInv
<1>2. CASE /\ status[Match] = "WAITING"
           /\ status' = [status EXCEPT ![Match] = "ACTIVE"]
  <2>1. DB!Staked(Match)
    BY <1>1 DEF ActivateReply, StartInv, DB!Staked, Players, Entered
  <2>2. UNCHANGED <<balance, ledger, terms, seats, refunded, winner, purchase, completing>>
    BY DEF ActivateReply
  <2> QED
    BY <1>2, <2>1, <2>2 DEF TableStep, Writes, DB!ActivateMatch, DB!moneyVars, DB!purchaseVars
<1>3. CASE UNCHANGED status
  BY <1>3 DEF ActivateReply, TableStep, walletVars
<1> QED
  BY <1>2, <1>3 DEF ActivateReply

(* The seat that won is a seat, and its occupant a user or the bot. *)
LEMMA WinnerTyped ==
  ASSUME RoomInv, phase = "FINISHED"
  PROVE  /\ winnerSeat \in Seats
         /\ seats[Match][winnerSeat] \in Users \cup {Bot}
         /\ IsHuman(winnerSeat) => seats[Match][winnerSeat] \in Players
<1>1. Local /\ RowInv /\ VerdictInv /\ DB!IInv
  BY InvParts DEF Rules
<1>2. winnerSeat \in Seats
  BY <1>1 DEF Local, EndTyped, VerdictInv
<1>3. seats[Match][winnerSeat] \in Users \cup {Bot}
  BY <1>1, <1>2 DEF RowInv, Seats, Users
<1>4. Players = {seats[Match][s] : s \in Seats} \ {Bot}
  BY <1>1, RowTyped
<1> QED
  BY <1>2, <1>3, <1>4 DEF IsHuman

(* payWinner pays a user of the match. *)
LEMMA PayTables ==
  ASSUME RoomInv, PayReply
  PROVE  TableStep
<1>1. phase = "FINISHED" /\ IsHuman(winnerSeat)
  BY DEF RoomInv, VerdictInv, PayReply
<1>2. seats[Match][winnerSeat] \in Users
  BY <1>1, WinnerTyped DEF IsHuman
<1> QED
  BY <1>2 DEF PayReply, TableStep, Writes, Pays

(* The update of KeepReply finds the row as FinishBotWin expects it, or    *)
(* finished already.                                                       *)
LEMMA KeepTables ==
  ASSUME RoomInv, KeepReply
  PROVE  TableStep
<1>1. /\ phase = "FINISHED" /\ ~IsHuman(winnerSeat) /\ status[Match] # "ABORTED"
      /\ DB!IInv /\ RowInv
  BY DEF RoomInv, VerdictInv, SettledInv, KeepReply
<1>2. winnerSeat \in Seats
  BY <1>1, WinnerTyped
<1>3. status \in [{Match} -> DB!Statuses] /\ status[Match] # "NONE"
  BY <1>1, RowTyped
<1>4. UNCHANGED <<balance, ledger, terms, seats, refunded, winner, purchase, completing>>
  BY DEF KeepReply
<1>5. CASE UNCHANGED status
  BY <1>4, <1>5 DEF TableStep, walletVars
<1>6. CASE status' = [status EXCEPT ![Match] = "FINISHED"]
  <2>1. CASE status[Match] = "FINISHED"
    <3>1. status' = status
      BY <1>3, <1>6, <2>1
    <3> QED
      BY <1>4, <3>1 DEF TableStep, walletVars
  <2>2. CASE status[Match] # "FINISHED"
    <3>1. status[Match] \in {"WAITING", "ACTIVE"}
      BY <1>1, <1>3, <2>2 DEF DB!Statuses
    <3>2. \E s \in DB!Seat : seats[Match][s] = Bot
      BY <1>1, <1>2 DEF IsHuman, DB!Seat, Seats
    <3> QED
      BY <1>4, <1>6, <3>1, <3>2
         DEF TableStep, Writes, DB!FinishBotWin, DB!moneyVars, DB!purchaseVars
  <2> QED
    BY <2>1, <2>2
<1> QED
  BY <1>5, <1>6 DEF KeepReply

-----------------------------------------------------------------------------
(* What a step that leaves a part of the room alone leaves of the rules.   *)

(* The turns, when neither the phase nor a counter changes. *)
LEMMA PlayStays ==
  ASSUME UNCHANGED <<phase, turnVars>>, PlayTyped, KickInv, PendingInv
  PROVE  PlayTyped' /\ KickInv' /\ PendingInv'
<1> USE DEF turnVars
<1>1. PlayTyped'
  BY DEF PlayTyped
<1>2. KickInv'
  BY DEF KickInv, InTurn, BothTook
<1>3. PendingInv'
  BY DEF PendingInv
<1> QED
  BY <1>1, <1>2, <1>3

(* The verdict, when nobody declares one. *)
LEMMA VerdictStays ==
  ASSUME UNCHANGED <<phase, winnerSeat, finishReason, settle, outcomeEvent>>,
         seats' = seats, VerdictInv
  PROVE  VerdictInv'
BY DEF VerdictInv, IsHuman, IsTerminal

(* The settlement, when the row stays and no ledger entry goes. *)
LEMMA SettledStays ==
  ASSUME UNCHANGED <<phase, winnerSeat, settle, finalized, published, results>>,
         UNCHANGED <<status, winner, seats>>, Kept, SettledInv, RowInv, DB!IInv
  PROVE  SettledInv'
BY RowTyped DEF SettledInv, IsHuman, IsTerminal, Kept, Users, DB!PayoutKey

(* The start of the match, when it makes no progress. *)
LEMMA StartStays ==
  ASSUME UNCHANGED <<phase, start>>, status' = status, Kept, Players' = Players,
         DB!IInv, RowInv, StartInv
  PROVE  StartInv'
<1>1. Players \subseteq Users
  BY RowTyped DEF RowInv, Users, Seats
<1>2. \A u \in Players : Entered(u) => Entered(u)'
  BY <1>1 DEF Entered, Kept, DB!EntryKey
<1> QED
  BY <1>2 DEF StartInv, IsTerminal

(* The timers, when none is set, cleared or fires. *)
LEMMA TimersStay ==
  ASSUME UNCHANGED <<phase, sequence, settle, published, alive, timers>>, TimerInv
  PROVE  TimerInv'
BY DEF TimerInv, IsTerminal, Timer

-----------------------------------------------------------------------------
(* The verdict: finish and abort up to their first await. *)

Reasons == {"REGULATION", "SUDDEN_DEATH", "FORFEIT"}
Ends    == Abort \/ \E s \in Seats, r \in Reasons : Finish(s, r)

(* What both do. *)
LEMMA EndEffect ==
  ASSUME Ends, ~IsTerminal, VerdictInv
  PROVE  /\ ~IsTerminal /\ IsTerminal' /\ phase' \in Phases
         /\ timers' = {} /\ UNCHANGED <<finalized, published>>
         /\ \/ /\ phase' = "ABORTED" /\ winnerSeat' = None
               /\ finishReason' = "ABORT" /\ settle' = "refund"
            \/ /\ phase' = "FINISHED" /\ winnerSeat' \in Seats
               /\ finishReason' \in Reasons /\ settle' = "finishEvent"
<1>1. CASE Abort
  BY <1>1 DEF Abort, IsTerminal, Phases, VerdictInv
<1>2. ASSUME NEW s \in Seats, NEW r \in Reasons, Finish(s, r)
      PROVE  /\ phase' = "FINISHED" /\ winnerSeat' \in Seats
             /\ finishReason' \in Reasons /\ settle' = "finishEvent"
             /\ timers' = {} /\ UNCHANGED <<finalized, published>>
  BY <1>2 DEF Finish
<1> QED
  BY <1>1, <1>2 DEF Ends, IsTerminal, Phases

(* A verdict keeps the rules: nothing was settled or refunded before it,   *)
(* no timer of the play outlives it, and a start that is under way is told *)
(* by the phase.                                                           *)
LEMMA EndKeeps ==
  ASSUME RoomInv, ~IsTerminal, Ends, start' \in {start, "done"},
         UNCHANGED <<walletVars, recordVars, turnVars, alive>>
  PROVE  Rules' /\ PlayTyped' /\ TimersTyped' /\ EndTyped'
<1>1. DB!IInv /\ Local /\ Rules
  BY InvParts
<1>2. /\ IsTerminal' /\ phase' \in Phases /\ timers' = {} /\ UNCHANGED <<finalized, published>>
      /\ \/ /\ phase' = "ABORTED" /\ winnerSeat' = None
            /\ finishReason' = "ABORT" /\ settle' = "refund"
         \/ /\ phase' = "FINISHED" /\ winnerSeat' \in Seats
            /\ finishReason' \in Reasons /\ settle' = "finishEvent"
  BY <1>1, EndEffect DEF Rules
<1>3. RowInv' /\ seats' = seats /\ status' = status /\ winner' = winner
      /\ Players' = Players /\ Kept /\ results' = results /\ outcomeEvent' = outcomeEvent
  BY <1>1, TablesKeep DEF Rules, TableStep, walletVars, recordVars
<1>4. /\ winnerSeat = None /\ settle = "idle" /\ outcomeEvent = None /\ results = None
      /\ winner[Match] = Bot /\ status[Match] \notin {"FINISHED", "ABORTED"}
      /\ finalized = FALSE /\ published = FALSE
  BY <1>1 DEF Rules, Local, EndTyped, VerdictInv, SettledInv, IsTerminal, Seats, None
<1>5. StartInv'
  <2>1. start' \in {"deducted", "activate"} => \A u \in Players : Entered(u)'
    BY <1>1, <1>3, RowTyped DEF Rules, StartInv, Entered, Kept, RowInv, Users, Seats, DB!EntryKey
  <2> QED
    BY <1>2, <1>3, <2>1 DEF StartInv, IsTerminal
<1>6. VerdictInv'
  BY <1>2, <1>3, <1>4 DEF VerdictInv, IsTerminal, Seats, None, Reasons
<1>7. SettledInv'
  BY <1>2, <1>3, <1>4 DEF SettledInv
<1>8. TimerInv'
  BY <1>1, <1>2, <1>4 DEF TimerInv, IsTerminal, Rules
<1>9. PendingInv' /\ KickInv'
  BY <1>1, <1>2 DEF PendingInv, KickInv, turnVars, IsTerminal, Rules
<1>10. PlayTyped' /\ TimersTyped' /\ EndTyped'
  BY <1>1, <1>2, <1>3 DEF Local, PlayTyped, TimersTyped, EndTyped, Reasons, turnVars
<1> QED
  BY <1>3, <1>5, <1>6, <1>7, <1>8, <1>9, <1>10 DEF Rules

(* Giving up a seat ends a duel that is not over. *)
LEMMA DepartEnds ==
  ASSUME NEW s \in Seats, Depart(s), VerdictInv
  PROVE  \/ ~IsTerminal /\ Ends
         \/ UNCHANGED <<phase, timers, endVars>>
<1>1. OppositeSeat(s) \in Seats
  BY DEF OppositeSeat, Seats
<1> QED
  BY <1>1 DEF Depart, Ends, Reasons, IsTerminal

-----------------------------------------------------------------------------
(* The play: a turn is awaited, resolved, and followed by the next one.    *)

(* The parity of the turn tells who kicks, and how many kicks each has.    *)
LEMMA Parity ==
  ASSUME NEW n \in Nat, n > 0, NEW a \in Nat, NEW b \in Nat, a + b = n - 1, a \in {b, b + 1}
  PROVE  IF n % 2 = 1 THEN a = b ELSE a = b + 1
OBVIOUS

(* The steps that leave the verdict, the settlement and the tables alone.  *)
Plays == UNCHANGED <<walletVars, recordVars, conn, endVars, start, envVars>>

(* resolveTurn, whatever intents of this turn it resolves with. *)
Resolves ==
  \E p \in [Roles -> [dir : Directions \cup {None}, turn : Nat]], rest \in SUBSET timers :
    /\ \A r \in Roles : p[r] # NoIntent => p[r].turn = sequence
    /\ ResolveTurn(p, rest)

(* The first action of a role is stored. *)
Locks ==
  \E p \in [Roles -> [dir : Directions \cup {None}, turn : Nat]], rest \in SUBSET timers :
    /\ \A r \in Roles : p[r] # NoIntent => p[r].turn = sequence
    /\ pending' = p /\ timers' = rest /\ Timer("turn") \in rest
    /\ UNCHANGED <<phase, firstKicker, sequence, kicksTaken, score,
                   suddenDeathPair, inSuddenDeath, expired>>

(* A kick keeps the sides in turn, and in sudden death within its pair. *)
LEMMA KickerTakes ==
  ASSUME PlayTyped, KickInv, phase = "AWAITING_ACTIONS",
         NEW kicker, kicker = KickerOf(firstKicker, sequence),
         kicksTaken' = [kicksTaken EXCEPT ![kicker] = @ + 1],
         UNCHANGED <<firstKicker, sequence, suddenDeathPair, inSuddenDeath>>
  PROVE  /\ kicker \in Seats /\ kicksTaken' \in [Seats -> Nat]
         /\ sequence > 0 /\ InTurn(sequence)'
         /\ inSuddenDeath' =>
              kicksTaken'[firstKicker'] = RegulationKicks + suddenDeathPair'
<1>1. PICK kf, ko : kf = kicksTaken[firstKicker] /\ ko = kicksTaken[OppositeSeat(firstKicker)]
  OBVIOUS
<1>2. /\ firstKicker \in Seats /\ OppositeSeat(firstKicker) \in Seats
      /\ OppositeSeat(firstKicker) # firstKicker
      /\ Seats = {firstKicker, OppositeSeat(firstKicker)}
  BY DEF PlayTyped, Seats, OppositeSeat
<1>3. /\ kf \in Nat /\ ko \in Nat /\ sequence \in Nat /\ suddenDeathPair \in Nat
      /\ RegulationKicks \in Nat
  BY <1>1, <1>2, RegulationAssumption DEF PlayTyped
<1>4. /\ sequence > 0 /\ kf + ko = sequence - 1 /\ kf \in {ko, ko + 1}
      /\ IF inSuddenDeath
         THEN /\ suddenDeathPair > 0 /\ kf <= RegulationKicks + suddenDeathPair
              /\ ko >= RegulationKicks + suddenDeathPair - 1
         ELSE suddenDeathPair = 0 /\ kf <= RegulationKicks
  BY <1>1 DEF KickInv, InTurn
<1>5. IF inSuddenDeath
      THEN kf < RegulationKicks + suddenDeathPair \/ ko < RegulationKicks + suddenDeathPair
      ELSE kf < RegulationKicks \/ ko < RegulationKicks
  BY <1>1, <1>2, <1>3 DEF KickInv, BothTook
<1>6. IF sequence % 2 = 1 THEN kf = ko ELSE kf = ko + 1
  BY <1>3, <1>4, Parity
<1>7. CASE sequence % 2 = 1
  <2>1. /\ kicker = firstKicker /\ kicksTaken'[firstKicker] = kf + 1
        /\ kicksTaken'[OppositeSeat(firstKicker)] = ko
    BY <1>1, <1>2, <1>7 DEF KickerOf, PlayTyped
  <2>2. kf = ko
    BY <1>6, <1>7
  <2>3. InTurn(sequence)'
    BY <1>3, <1>4, <1>5, <2>1, <2>2 DEF InTurn
  <2> QED
    BY <1>2, <1>3, <1>4, <1>5, <2>1, <2>2, <2>3 DEF PlayTyped
<1>8. CASE sequence % 2 # 1
  <2>1. /\ kicker = OppositeSeat(firstKicker) /\ kicksTaken'[firstKicker] = kf
        /\ kicksTaken'[OppositeSeat(firstKicker)] = ko + 1
    BY <1>1, <1>2, <1>8 DEF KickerOf, PlayTyped
  <2>2. kf = ko + 1
    BY <1>6, <1>8
  <2>3. InTurn(sequence)'
    BY <1>3, <1>4, <1>5, <2>1, <2>2 DEF InTurn
  <2> QED
    BY <1>2, <1>3, <1>4, <1>5, <2>1, <2>2, <2>3 DEF PlayTyped
<1> QED
  BY <1>7, <1>8

(* A step of the play keeps what the tables, the start and the verdict say. *)
LEMMA PlaysFrame ==
  ASSUME RoomInv, Plays, ~IsTerminal, ~IsTerminal',
         phase \in {"AWAITING_ACTIONS", "REVEALING_RESULT"},
         phase' \in {"AWAITING_ACTIONS", "REVEALING_RESULT"}
  PROVE  RowInv' /\ StartInv' /\ VerdictInv' /\ SettledInv' /\ EndTyped'
<1>1. DB!IInv /\ Local /\ Rules
  BY InvParts
<1>2. RowInv' /\ seats' = seats /\ Players' = Players /\ Kept
  BY <1>1, TablesKeep DEF Rules, TableStep, Plays
<1>3. /\ UNCHANGED <<status, winner, winnerSeat, finishReason, settle, outcomeEvent,
                     results, finalized, published, start>>
  BY DEF Plays, walletVars, endVars, recordVars
<1>4. StartInv'
  BY <1>1, <1>2, <1>3 DEF StartInv, Rules, IsTerminal
<1>5. VerdictInv'
  BY <1>1, <1>2, <1>3 DEF VerdictInv, Rules, IsTerminal
<1>6. SettledInv'
  BY <1>1, <1>2, <1>3 DEF SettledInv, VerdictInv, Rules, IsTerminal
<1>7. EndTyped'
  BY <1>1, <1>3 DEF EndTyped, Local
<1> QED
  BY <1>2, <1>4, <1>5, <1>6, <1>7

(* resolveTurn keeps the rules: of the timers only those of the bot and    *)
(* the reveal are left.                                                    *)
LEMMA ResolvesKeeps ==
  ASSUME RoomInv, Plays, phase = "AWAITING_ACTIONS", alive = "open", Resolves
  PROVE  Rules' /\ PlayTyped' /\ TimersTyped' /\ EndTyped'
<1>1. DB!IInv /\ Local /\ Rules
  BY InvParts
<1>2. PICK p \in [Roles -> [dir : Directions \cup {None}, turn : Nat]], rest \in SUBSET timers :
           /\ \A r \in Roles : p[r] # NoIntent => p[r].turn = sequence
           /\ ResolveTurn(p, rest)
  BY DEF Resolves
<1>3. PICK kicker : kicker = KickerOf(firstKicker, sequence)
  OBVIOUS
<1>4. /\ phase' = "REVEALING_RESULT" /\ pending' = p
      /\ score' = TurnScore(score, kicker, TurnOutcome(p["KICKER"].dir, p["GOALKEEPER"].dir))
      /\ kicksTaken' = [kicksTaken EXCEPT ![kicker] = @ + 1]
      /\ timers' = {t \in rest : t.kind # "turn"} \cup {Timer("reveal")}
      /\ UNCHANGED <<firstKicker, sequence, suddenDeathPair, inSuddenDeath, expired>>
  BY <1>2, <1>3 DEF ResolveTurn
<1>5. RowInv' /\ StartInv' /\ VerdictInv' /\ SettledInv' /\ EndTyped'
  BY <1>4, PlaysFrame DEF IsTerminal
<1>6. /\ kicker \in Seats /\ kicksTaken' \in [Seats -> Nat]
      /\ sequence > 0 /\ InTurn(sequence)'
      /\ inSuddenDeath' => kicksTaken'[firstKicker'] = RegulationKicks + suddenDeathPair'
  BY <1>1, <1>3, <1>4, KickerTakes DEF Local, Rules
<1>7. KickInv'
  BY <1>4, <1>6 DEF KickInv
<1>8. PendingInv'
  BY <1>2, <1>4 DEF PendingInv
<1>9. TimerInv'
  <2>1. settle = "idle" /\ settle' = settle /\ alive' = alive /\ published' = published
    BY <1>1 DEF Rules, VerdictInv, IsTerminal, Plays, endVars, envVars
  <2>2. \A t \in timers' : t.turn = sequence /\ t.kind \in {"bot", "reveal"}
    BY <1>1, <1>2, <1>4 DEF Rules, TimerInv, Timer
  <2>3. Timer("reveal")' = Timer("reveal") /\ Timer("reveal") \in timers'
    BY <1>4 DEF Timer
  <2> QED
    BY <1>4, <2>1, <2>2, <2>3 DEF TimerInv, IsTerminal
<1>10. PlayTyped'
  <2>1. score' \in [Seats -> Nat]
    BY <1>1, <1>4, <1>6 DEF TurnScore, Local, PlayTyped
  <2> QED
    BY <1>1, <1>2, <1>4, <1>6, <2>1 DEF Local, PlayTyped, Phases
<1>11. TimersTyped'
  BY <1>1, <1>2, <1>4 DEF Local, PlayTyped, TimersTyped, Timer
<1> QED
  BY <1>5, <1>7, <1>8, <1>9, <1>10, <1>11 DEF Rules

(* The first lock of a turn keeps the rules: its turn timer goes on. *)
LEMMA LocksKeeps ==
  ASSUME RoomInv, Plays, phase = "AWAITING_ACTIONS", alive = "open", Locks
  PROVE  Rules' /\ PlayTyped' /\ TimersTyped' /\ EndTyped'
<1>1. DB!IInv /\ Local /\ Rules
  BY InvParts
<1>2. PICK p \in [Roles -> [dir : Directions \cup {None}, turn : Nat]], rest \in SUBSET timers :
           /\ \A r \in Roles : p[r] # NoIntent => p[r].turn = sequence
           /\ pending' = p /\ timers' = rest /\ Timer("turn") \in rest
           /\ UNCHANGED <<phase, firstKicker, sequence, kicksTaken, score,
                          suddenDeathPair, inSuddenDeath, expired>>
  BY DEF Locks
<1>3. RowInv' /\ StartInv' /\ VerdictInv' /\ SettledInv' /\ EndTyped'
  BY <1>2, PlaysFrame DEF IsTerminal
<1>4. KickInv'
  BY <1>1, <1>2 DEF KickInv, InTurn, BothTook, Rules
<1>5. PendingInv'
  BY <1>2 DEF PendingInv
<1>6. TimerInv'
  <2>1. settle = "idle" /\ settle' = settle /\ alive' = alive /\ published' = published
    BY <1>1 DEF Rules, VerdictInv, IsTerminal, Plays, endVars, envVars
  <2>2. \A t \in timers' : t.turn = sequence /\ t.kind \in {"bot", "turn"}
    BY <1>1, <1>2 DEF Rules, TimerInv
  <2>3. Timer("turn")' = Timer("turn") /\ Timer("turn") \in timers'
    BY <1>2 DEF Timer
  <2> QED
    BY <1>2, <2>1, <2>2, <2>3 DEF TimerInv, IsTerminal
<1>7. PlayTyped' /\ TimersTyped'
  BY <1>1, <1>2 DEF Local, PlayTyped, TimersTyped
<1> QED
  BY <1>3, <1>4, <1>5, <1>6, <1>7 DEF Rules

(* beginNextTurn, once what it counts is right. *)
LEMMA TurnBegins ==
  ASSUME RoomInv, ~IsTerminal, alive = "open", NEW rest, BeginNextTurn(rest),
         start' = "done", status[Match] = "ACTIVE",
         UNCHANGED <<walletVars, recordVars, endVars, alive, firstKicker, kicksTaken, score>>,
         suddenDeathPair' \in Nat, inSuddenDeath' \in BOOLEAN, KickInv'
  PROVE  Rules' /\ PlayTyped' /\ TimersTyped' /\ EndTyped'
<1>1. DB!IInv /\ Local /\ Rules
  BY InvParts
<1>2. /\ sequence' = sequence + 1 /\ pending' = NoIntents /\ expired' = FALSE
      /\ phase' = "AWAITING_ACTIONS"
      /\ timers' = {[kind |-> k, turn |-> sequence + 1] :
                      k \in {"turn"} \cup (IF IsHuman("B") THEN {} ELSE {"bot"})}
  BY DEF BeginNextTurn
<1>3. RowInv' /\ seats' = seats /\ Players' = Players /\ Kept
  BY <1>1, TablesKeep DEF Rules, TableStep
<1>4. UNCHANGED <<status, winner, winnerSeat, finishReason, settle, outcomeEvent,
                  results, finalized, published>>
  BY DEF walletVars, endVars, recordVars
<1>5. StartInv'
  BY <1>2, <1>4 DEF StartInv, IsTerminal
<1>6. VerdictInv'
  BY <1>1, <1>2, <1>3, <1>4 DEF VerdictInv, Rules, IsTerminal
<1>7. SettledInv'
  BY <1>1, <1>2, <1>3, <1>4 DEF SettledInv, VerdictInv, Rules, IsTerminal
<1>8. \A t \in timers' : t.turn = sequence' /\ t.kind \in {"bot", "turn"}
  BY <1>2
<1>9. TimerInv'
  <2>1. Timer("turn")' \in timers'
    BY <1>2 DEF Timer
  <2> QED
    BY <1>2, <1>8, <2>1 DEF TimerInv, IsTerminal
<1>10. PendingInv'
  BY <1>2 DEF PendingInv, NoIntents
<1>11. PlayTyped'
  <2>1. NoIntents \in [Roles -> [dir : Directions \cup {None}, turn : Nat]]
    BY DEF NoIntents, NoIntent
  <2>2. phase' \in Phases /\ sequence' \in Nat /\ expired' \in BOOLEAN
    <3>1. sequence \in Nat
      BY <1>1 DEF Local, PlayTyped
    <3>2. sequence' \in Nat
      BY <1>2, <3>1
    <3>3. phase' \in Phases
      BY <1>2 DEF Phases
    <3>4. expired' \in BOOLEAN
      BY <1>2
    <3> QED
      BY <3>2, <3>3, <3>4
  <2>3. /\ firstKicker' \in Seats /\ kicksTaken' \in [Seats -> Nat]
        /\ score' \in [Seats -> Nat]
    BY <1>1 DEF Local, PlayTyped
  <2> QED
    BY <1>2, <2>1, <2>2, <2>3 DEF PlayTyped
<1>12. TimersTyped'
  <2>1. sequence + 1 \in Nat
    BY <1>1 DEF Local, PlayTyped
  <2> QED
    BY <1>2, <2>1 DEF TimersTyped
<1>13. EndTyped'
  BY <1>1, <1>4 DEF EndTyped, Local
<1> QED
  BY <1>3, <1>5, <1>6, <1>7, <1>9, <1>10, <1>11, <1>12, <1>13 DEF Rules

(* The first turn. *)
LEMMA FirstTurnCounts ==
  ASSUME PlayTyped, KickInv, phase = "STARTING", NEW rest, BeginNextTurn(rest),
         UNCHANGED <<firstKicker, kicksTaken, score, suddenDeathPair, inSuddenDeath>>
  PROVE  KickInv'
<1>1. /\ sequence = 0 /\ suddenDeathPair = 0 /\ ~inSuddenDeath
      /\ \A s \in Seats : kicksTaken[s] = 0 /\ score[s] = 0
  BY DEF KickInv
<1>2. firstKicker \in Seats /\ OppositeSeat(firstKicker) \in Seats /\ "A" \in Seats
  BY DEF PlayTyped, Seats, OppositeSeat
<1>3. phase' = "AWAITING_ACTIONS" /\ sequence' = 1
  BY <1>1 DEF BeginNextTurn
<1>4. RegulationKicks \in Nat /\ RegulationKicks > 0
  BY RegulationAssumption
<1>5. InTurn(sequence - 1)'
  BY <1>1, <1>2, <1>3, <1>4 DEF InTurn
<1>6. ~BothTook(kicksTaken, RegulationKicks)'
  BY <1>1, <1>2, <1>4 DEF BothTook
<1> QED
  BY <1>1, <1>3, <1>5, <1>6 DEF KickInv

(* The pair that follows a completed turn. *)
NextPair ==
  CASE Decision = "ENTER_SUDDEN_DEATH" -> 1
    [] Decision = "CONTINUE_SUDDEN_DEATH"
       /\ BothTook(kicksTaken, RegulationKicks + suddenDeathPair) -> suddenDeathPair + 1
    [] OTHER -> suddenDeathPair

(* The turn after a completed one. *)
LEMMA NextTurnCounts ==
  ASSUME PlayTyped, KickInv, phase = "REVEALING_RESULT", Decision # "FINISHED",
         NEW rest, BeginNextTurn(rest), suddenDeathPair' = NextPair,
         inSuddenDeath' = (inSuddenDeath \/ Decision = "ENTER_SUDDEN_DEATH"),
         UNCHANGED <<firstKicker, kicksTaken, score>>
  PROVE  KickInv' /\ suddenDeathPair' \in Nat /\ inSuddenDeath' \in BOOLEAN
<1>1. PICK kf, ko : kf = kicksTaken[firstKicker] /\ ko = kicksTaken[OppositeSeat(firstKicker)]
  OBVIOUS
<1>2. /\ firstKicker \in Seats /\ OppositeSeat(firstKicker) \in Seats
      /\ Seats = {firstKicker, OppositeSeat(firstKicker)} /\ Seats = {"A", "B"}
  BY DEF PlayTyped, Seats, OppositeSeat
<1>3. /\ kf \in Nat /\ ko \in Nat /\ sequence \in Nat /\ suddenDeathPair \in Nat
      /\ RegulationKicks \in Nat \ {0} /\ inSuddenDeath \in BOOLEAN
  BY <1>1, <1>2, RegulationAssumption DEF PlayTyped
<1>4. /\ sequence > 0 /\ kf + ko = sequence /\ kf \in {ko, ko + 1}
      /\ IF inSuddenDeath
         THEN /\ suddenDeathPair > 0 /\ kf = RegulationKicks + suddenDeathPair
              /\ ko >= RegulationKicks + suddenDeathPair - 1
         ELSE suddenDeathPair = 0 /\ kf <= RegulationKicks
  BY <1>1 DEF KickInv, InTurn
<1>5. phase' = "AWAITING_ACTIONS" /\ sequence' = sequence + 1
  BY DEF BeginNextTurn
<1>6. \A n : BothTook(kicksTaken, n) <=> kf >= n /\ ko >= n
  BY <1>1, <1>2 DEF BothTook
<1>7. CASE inSuddenDeath
  <2>1. Decision = "CONTINUE_SUDDEN_DEATH" /\ inSuddenDeath'
    BY <1>7 DEF Decision, DecideMatchProgress
  <2>2. CASE BothTook(kicksTaken, RegulationKicks + suddenDeathPair)
    <3>1. suddenDeathPair' = suddenDeathPair + 1 /\ score["A"] = score["B"]
      BY <1>7, <2>1, <2>2 DEF NextPair, Decision, DecideMatchProgress
    <3>2. kf = ko /\ kf = RegulationKicks + suddenDeathPair
      BY <1>3, <1>4, <1>6, <1>7, <2>2
    <3>3. InTurn(sequence - 1)'
      BY <1>1, <1>3, <1>4, <1>5, <2>1, <3>1, <3>2 DEF InTurn
    <3>4. ~BothTook(kicksTaken, RegulationKicks + suddenDeathPair)'
      <4>1. ~(kicksTaken'[firstKicker] >= RegulationKicks + suddenDeathPair')
        BY <1>1, <1>3, <3>1, <3>2
      <4> QED
        BY <1>2, <4>1 DEF BothTook
    <3> QED
      BY <1>3, <1>4, <1>5, <2>1, <3>1, <3>3, <3>4 DEF KickInv
  <2>3. CASE ~BothTook(kicksTaken, RegulationKicks + suddenDeathPair)
    <3>1. suddenDeathPair' = suddenDeathPair
      BY <2>1, <2>3 DEF NextPair
    <3>2. kf = ko + 1 /\ kf = RegulationKicks + suddenDeathPair
      BY <1>3, <1>4, <1>6, <1>7, <2>3
    <3>3. kicksTaken["A"] # kicksTaken["B"]
      <4>1. kicksTaken[firstKicker] # kicksTaken[OppositeSeat(firstKicker)]
        BY <1>1, <1>3, <3>2
      <4> QED
        BY <1>2, <4>1 DEF OppositeSeat
    <3>4. InTurn(sequence - 1)'
      <4>1. sequence' - 1 = sequence
        BY <1>3, <1>5
      <4>2. /\ kicksTaken'[firstKicker'] = kf /\ kicksTaken'[OppositeSeat(firstKicker')] = ko
            /\ kf + ko = sequence /\ kf \in {ko, ko + 1}
        BY <1>1, <1>4
      <4>3. /\ suddenDeathPair' > 0 /\ kf <= RegulationKicks + suddenDeathPair'
            /\ ko >= RegulationKicks + suddenDeathPair' - 1
        BY <1>3, <1>4, <1>7, <3>1, <3>2
      <4> QED
        BY <2>1, <4>1, <4>2, <4>3 DEF InTurn
    <3>5. ~BothTook(kicksTaken, RegulationKicks + suddenDeathPair)'
      BY <1>1, <1>2, <1>3, <3>1, <3>2 DEF BothTook
    <3> QED
      BY <1>3, <1>4, <1>5, <2>1, <3>1, <3>3, <3>4, <3>5 DEF KickInv
  <2> QED
    BY <2>2, <2>3
<1>8. CASE ~inSuddenDeath /\ ~BothTook(kicksTaken, RegulationKicks)
  <2>1. Decision = "CONTINUE_REGULATION"
    BY <1>8 DEF Decision, DecideMatchProgress
  <2>2. ~inSuddenDeath' /\ suddenDeathPair' = suddenDeathPair
    BY <1>8, <2>1 DEF NextPair
  <2>3. InTurn(sequence - 1)'
    BY <1>1, <1>3, <1>4, <1>5, <1>8, <2>2 DEF InTurn
  <2>4. ~BothTook(kicksTaken, RegulationKicks)'
    BY <1>8 DEF BothTook
  <2> QED
    BY <1>3, <1>4, <1>5, <2>2, <2>3, <2>4 DEF KickInv
<1>9. CASE ~inSuddenDeath /\ BothTook(kicksTaken, RegulationKicks)
  <2>1. Decision = "ENTER_SUDDEN_DEATH" /\ score["A"] = score["B"]
    BY <1>9 DEF Decision, DecideMatchProgress
  <2>2. inSuddenDeath' /\ suddenDeathPair' = 1
    BY <2>1 DEF NextPair
  <2>3. kf = RegulationKicks /\ ko = RegulationKicks
    BY <1>3, <1>4, <1>6, <1>9
  <2>4. InTurn(sequence - 1)'
    BY <1>1, <1>3, <1>4, <1>5, <2>2, <2>3 DEF InTurn
  <2>5. ~BothTook(kicksTaken, RegulationKicks + suddenDeathPair)'
    <3>1. ~(kicksTaken'[firstKicker] >= RegulationKicks + suddenDeathPair')
      BY <1>1, <1>3, <2>2, <2>3
    <3> QED
      BY <1>2, <3>1 DEF BothTook
  <2> QED
    BY <1>3, <1>4, <1>5, <2>1, <2>2, <2>4, <2>5 DEF KickInv
<1> QED
  BY <1>7, <1>8, <1>9

-----------------------------------------------------------------------------
(* The settlement: the steps of complete(). *)

(* A step leaves the duel alone, and either goes on, or fails and sets the *)
(* retry timer, or is the last one and sets the disconnect timer.          *)
Settles ==
  /\ settle \notin {"idle", "retry", "done"} /\ alive # "crashed"
  /\ UNCHANGED <<phase, turnVars, conn, winnerSeat, finishReason, start, alive, shutdown>>
  /\ \/ settle' # "retry" /\ timers' = timers /\ published' = published
     \/ settle' = "retry" /\ timers' = timers \cup {Timer("retry")} /\ published' = published
     \/ settle' = "done" /\ timers' = timers \cup {Timer("disconnect")} /\ published' = TRUE

(* A step of complete() keeps the rules about everything but the verdict   *)
(* and the settlement, which are shown for each step below.                *)
LEMMA SettlesFrame ==
  ASSUME RoomInv, TableStep, Settles
  PROVE  /\ RowInv' /\ StartInv' /\ TimerInv' /\ PendingInv' /\ KickInv'
         /\ PlayTyped' /\ TimersTyped'
         /\ IsTerminal /\ Kept /\ seats' = seats /\ alive = "open" /\ ~published
<1>1. DB!IInv /\ Local /\ Rules
  BY InvParts
<1>2. RowInv' /\ Kept /\ seats' = seats /\ Players' = Players
  BY <1>1, TablesKeep DEF Rules
<1>3. IsTerminal /\ IsTerminal' /\ ~published
  BY <1>1 DEF Rules, VerdictInv, SettledInv, Settles, IsTerminal
<1>4. alive = "open" /\ alive' = "open"
  BY <1>1 DEF Rules, TimerInv, Settles, Local, EnvTyped
<1>5. timers = {}
  <2>1. \A t \in timers : t.kind \in {"retry", "disconnect"}
    BY <1>1, <1>3 DEF Rules, TimerInv
  <2>2. \A t \in timers : t.kind \notin {"retry", "disconnect"}
    BY <1>1 DEF Rules, TimerInv, Settles
  <2> QED
    BY <2>1, <2>2
<1>6. PlayTyped' /\ KickInv' /\ PendingInv'
  BY <1>1, PlayStays DEF Rules, Local, Settles
<1>7. StartInv'
  <2>1. start' \in {"deducted", "activate"} => \A u \in Players : Entered(u)'
    BY <1>1, <1>2, RowTyped
       DEF Rules, StartInv, Settles, Entered, Kept, RowInv, Users, Seats, DB!EntryKey
  <2> QED
    BY <1>2, <1>3, <2>1 DEF StartInv, IsTerminal
<1>8. phase' = phase /\ sequence' = sequence
  BY DEF Settles, turnVars
<1>9. TimerInv'
  <2>1. CASE timers' = timers
    BY <1>3, <1>4, <1>5, <2>1 DEF TimerInv, IsTerminal
  <2>2. CASE settle' = "retry" /\ timers' = timers \cup {Timer("retry")}
    BY <1>3, <1>4, <1>5, <1>8, <2>2 DEF TimerInv, IsTerminal, Timer
  <2>3. CASE settle' = "done" /\ timers' = timers \cup {Timer("disconnect")} /\ published' = TRUE
    BY <1>3, <1>4, <1>5, <1>8, <2>3 DEF TimerInv, IsTerminal, Timer
  <2> QED
    BY <2>1, <2>2, <2>3 DEF Settles
<1>10. TimersTyped'
  <2>1. sequence \in Nat
    BY <1>1 DEF Local, PlayTyped
  <2> QED
    BY <1>5, <2>1 DEF Settles, TimersTyped, Timer
<1> QED
  BY <1>2, <1>3, <1>4, <1>6, <1>7, <1>9, <1>10

(* A failing call. *)
LEMMA RetryMoves ==
  ASSUME RetryLater, settle \notin {"idle", "retry", "done"}, alive # "crashed", published' = published,
         UNCHANGED <<phase, turnVars, conn, winnerSeat, finishReason, start, alive, shutdown>>
  PROVE  Settles /\ settle' = "retry" /\ finalized' = finalized
BY DEF RetryLater, Settles

(* The MATCH_FINISHED event names the winner, and decides between payment  *)
(* and the house.                                                          *)
LEMMA FinishEventKeeps ==
  ASSUME RoomInv, FinishEventReply
  PROVE  Rules' /\ PlayTyped' /\ TimersTyped' /\ EndTyped'
<1>1. DB!IInv /\ Local /\ Rules /\ TableStep
  BY InvParts DEF FinishEventReply, TableStep
<1>2. /\ settle = "finishEvent" /\ alive # "crashed"
      /\ UNCHANGED <<phase, turnVars, conn, winnerSeat, finishReason, published, start,
                     alive, shutdown, results, status, winner, finalized>>
      /\ outcomeEvent' \in {winnerSeat, outcomeEvent}
      /\ \/ RetryLater
         \/ settle' = (IF IsHuman(winnerSeat) THEN "pay" ELSE "keep") /\ timers' = timers
  BY DEF FinishEventReply, unsettledVars, walletVars, Goes, RetryLater
<1>3. Settles /\ settle' \in {"retry", IF IsHuman(winnerSeat) THEN "pay" ELSE "keep"}
  BY <1>2, RetryMoves DEF Settles
<1>4. /\ RowInv' /\ StartInv' /\ TimerInv' /\ PendingInv' /\ KickInv'
      /\ PlayTyped' /\ TimersTyped'
      /\ IsTerminal /\ Kept /\ seats' = seats /\ ~published
  BY <1>1, <1>3, SettlesFrame
<1>5. phase = "FINISHED" /\ winnerSeat # None
  BY <1>1, <1>2 DEF Rules, VerdictInv
<1>6. VerdictInv'
  BY <1>1, <1>2, <1>3, <1>4, <1>5 DEF VerdictInv, Rules, IsTerminal, IsHuman
<1>7. SettledInv'
  BY <1>1, <1>2, <1>3, <1>4, <1>5, RowTyped
     DEF SettledInv, Rules, IsTerminal, IsHuman, Kept, Users, DB!PayoutKey
<1>8. EndTyped'
  BY <1>1, <1>2, <1>3 DEF Local, EndTyped
<1> QED
  BY <1>4, <1>6, <1>7, <1>8 DEF Rules

(* payWinner goes on to the statistics only with the row FINISHED, by this *)
(* call or by an earlier one whose answer was lost.                        *)
LEMMA PayKeeps ==
  ASSUME RoomInv, PayReply
  PROVE  Rules' /\ PlayTyped' /\ TimersTyped' /\ EndTyped'
<1>1. DB!IInv /\ Local /\ Rules /\ TableStep
  BY InvParts, PayTables
<1>2. PICK w : w = seats[Match][winnerSeat]
  OBVIOUS
<1>3. /\ settle = "pay" /\ alive # "crashed"
      /\ UNCHANGED <<phase, turnVars, conn, winnerSeat, finishReason, published, start,
                     alive, shutdown, results, outcomeEvent>>
  BY DEF PayReply, unsettledVars, recordVars
<1>4. phase = "FINISHED" /\ IsHuman(winnerSeat) /\ status[Match] # "ABORTED"
  BY <1>1, <1>3 DEF Rules, VerdictInv, SettledInv
<1>5. \/ /\ UNCHANGED walletVars /\ status[Match] = "FINISHED"
         /\ \/ Goes("stats") /\ finalized' \in {finalized, TRUE}
            \/ RetryLater
      \/ /\ DB!FinalizeMatchPayout(Match, w, Payout)
         /\ \/ Goes("stats") /\ finalized' = TRUE
            \/ RetryLater
      \/ /\ UNCHANGED walletVars /\ finalized' = finalized
         /\ settle' = "retry" /\ timers' = timers \cup {Timer("retry")}
  <2>1. finalized => status[Match] = "FINISHED"
    BY <1>1, <1>4 DEF Rules, SettledInv
  <2> QED
    BY <1>2, <2>1 DEF PayReply, RetryLater
<1>6. Settles /\ settle' \in {"stats", "retry"} /\ finalized' \in {finalized, TRUE}
  <2>1. \/ settle' = "stats" /\ timers' = timers
        \/ settle' = "retry" /\ timers' = timers \cup {Timer("retry")}
    BY <1>5 DEF RetryLater, Goes
  <2>2. finalized' \in {finalized, TRUE}
    BY <1>5 DEF RetryLater
  <2> QED
    BY <1>3, <2>1, <2>2 DEF Settles
<1>7. /\ RowInv' /\ StartInv' /\ TimerInv' /\ PendingInv' /\ KickInv'
      /\ PlayTyped' /\ TimersTyped'
      /\ IsTerminal /\ Kept /\ seats' = seats /\ ~published
  BY <1>1, <1>6, SettlesFrame
<1>8. VerdictInv'
  BY <1>1, <1>3, <1>4, <1>6, <1>7 DEF VerdictInv, Rules, IsTerminal, IsHuman
<1>9. SettledInv'
  <2>1. CASE /\ UNCHANGED walletVars
             /\ \/ status[Match] = "FINISHED"
                \/ settle' = "retry" /\ finalized' = finalized
    <3>1. status' = status /\ winner' = winner
      BY <2>1 DEF walletVars
    <3>2. settle' = "stats" \/ finalized' => status[Match] = "FINISHED"
      BY <1>1, <1>4, <2>1 DEF Rules, SettledInv
    <3> QED
      BY <1>1, <1>3, <1>4, <1>6, <1>7, <3>1, <3>2, RowTyped
         DEF SettledInv, Rules, IsTerminal, IsHuman, Kept, Users, DB!PayoutKey
  <2>2. CASE DB!FinalizeMatchPayout(Match, w, Payout)
    <3>1. w \in Users
      BY <1>2, <1>4, WinnerTyped DEF IsHuman
    <3>2. /\ DB!Holds(w, DB!PayoutKey(Match))'
          /\ status'[Match] = "FINISHED" /\ winner'[Match] = w
      BY <1>1, <2>2, <3>1, PayoutPays
    <3> QED
      BY <1>1, <1>2, <1>3, <1>4, <1>6, <1>7, <3>2
         DEF SettledInv, Rules, IsTerminal, IsHuman, DB!PayoutKey
  <2> QED
    BY <1>5, <2>1, <2>2
<1>10. EndTyped'
  BY <1>1, <1>3, <1>6 DEF Local, EndTyped
<1> QED
  BY <1>7, <1>8, <1>9, <1>10 DEF Rules

(* The update for the win of a bot leaves no payee. *)
LEMMA KeepKeeps ==
  ASSUME RoomInv, KeepReply
  PROVE  Rules' /\ PlayTyped' /\ TimersTyped' /\ EndTyped'
<1>1. DB!IInv /\ Local /\ Rules /\ TableStep
  BY InvParts, KeepTables
<1>2. /\ settle = "keep" /\ alive # "crashed"
      /\ UNCHANGED <<phase, turnVars, conn, winnerSeat, finishReason, published, start,
                     alive, shutdown, results, outcomeEvent, winner>>
  BY DEF KeepReply, unsettledVars, recordVars
<1>3. /\ phase = "FINISHED" /\ ~IsHuman(winnerSeat) /\ status[Match] # "ABORTED"
      /\ winner \in [{Match} -> {UserA, UserB, Bot}] /\ status \in [{Match} -> DB!Statuses]
  BY <1>1, <1>2, RowTyped DEF Rules, VerdictInv, SettledInv
<1>4. \/ /\ status' = [status EXCEPT ![Match] = "FINISHED"]
         /\ \/ Goes("stats") /\ finalized' = TRUE
            \/ RetryLater
      \/ RetryLater /\ UNCHANGED status
  BY DEF KeepReply
<1>5. Settles /\ settle' \in {"stats", "retry"} /\ finalized' \in {finalized, TRUE}
  <2>1. \/ settle' = "stats" /\ timers' = timers
        \/ settle' = "retry" /\ timers' = timers \cup {Timer("retry")}
    BY <1>4 DEF RetryLater, Goes
  <2>2. finalized' \in {finalized, TRUE}
    BY <1>4 DEF RetryLater
  <2> QED
    BY <1>2, <2>1, <2>2 DEF Settles
<1>6. /\ RowInv' /\ StartInv' /\ TimerInv' /\ PendingInv' /\ KickInv'
      /\ PlayTyped' /\ TimersTyped'
      /\ IsTerminal /\ Kept /\ seats' = seats /\ ~published
  BY <1>1, <1>5, SettlesFrame
<1>7. VerdictInv'
  BY <1>1, <1>2, <1>3, <1>5, <1>6 DEF VerdictInv, Rules, IsTerminal, IsHuman
<1>8. SettledInv'
  <2>1. \/ status'[Match] = "FINISHED"
        \/ status'[Match] = status[Match] /\ settle' = "retry" /\ finalized' = finalized
    BY <1>3, <1>4 DEF RetryLater
  <2>2. ~IsHuman(winnerSeat)'
    BY <1>2, <1>3, <1>6 DEF IsHuman
  <2>3. winner'[Match] # Bot => DB!Holds(winner[Match], DB!PayoutKey(Match))'
    BY <1>1, <1>2, <1>3, <1>6 DEF Rules, SettledInv, Kept, Users, DB!PayoutKey
  <2> QED
    BY <1>1, <1>2, <1>3, <1>5, <1>6, <2>1, <2>2, <2>3
       DEF SettledInv, Rules, IsTerminal, DB!PayoutKey
<1>9. EndTyped'
  BY <1>1, <1>2, <1>5 DEF Local, EndTyped
<1> QED
  BY <1>6, <1>7, <1>8, <1>9 DEF Rules

(* The statistics name the winner of a FINISHED row; only then the result  *)
(* is published.                                                           *)
LEMMA StatsKeeps ==
  ASSUME RoomInv, StatsReply
  PROVE  Rules' /\ PlayTyped' /\ TimersTyped' /\ EndTyped'
<1>1. DB!IInv /\ Local /\ Rules /\ TableStep
  BY InvParts DEF StatsReply, TableStep
<1>2. /\ settle = "stats" /\ alive # "crashed"
      /\ UNCHANGED <<phase, turnVars, conn, winnerSeat, finishReason, start,
                     alive, shutdown, outcomeEvent, winner, status, finalized>>
  BY DEF StatsReply, unsettledVars, recordVars, walletVars, RetryLater
<1>3. phase = "FINISHED" /\ status[Match] = "FINISHED"
  BY <1>1, <1>2 DEF Rules, VerdictInv, SettledInv
<1>4. winnerSeat \in Seats /\ winnerSeat # None
  BY <1>3, WinnerTyped DEF Seats, None
<1>5. /\ results' \in {results, winnerSeat}
      /\ \/ /\ settle' = "done" /\ published' = TRUE /\ results' = winnerSeat
            /\ timers' = timers \cup {Timer("disconnect")}
         \/ RetryLater /\ published' = published
  <2>1. results \in {None, winnerSeat}
    BY <1>1 DEF Rules, SettledInv
  <2> QED
    BY <1>3, <2>1 DEF StatsReply, RecordOutcome
<1>6. Settles /\ settle' \in {"done", "retry"}
  BY <1>2, <1>5 DEF Settles, RetryLater
<1>7. /\ RowInv' /\ StartInv' /\ TimerInv' /\ PendingInv' /\ KickInv'
      /\ PlayTyped' /\ TimersTyped'
      /\ IsTerminal /\ Kept /\ seats' = seats /\ ~published
  BY <1>1, <1>6, SettlesFrame
<1>8. VerdictInv'
  BY <1>1, <1>2, <1>3, <1>6, <1>7 DEF VerdictInv, Rules, IsTerminal, IsHuman
<1>9. SettledInv'
  BY <1>1, <1>2, <1>3, <1>4, <1>5, <1>6, <1>7, RowTyped
     DEF SettledInv, Rules, IsTerminal, IsHuman, Kept, Users, DB!PayoutKey, RetryLater
<1>10. EndTyped'
  BY <1>1, <1>2, <1>4, <1>5, <1>6 DEF Local, EndTyped
<1> QED
  BY <1>7, <1>8, <1>9, <1>10 DEF Rules

(* refundAbortedMatch goes on to the event only with the row ABORTED. *)
LEMMA RefundKeeps ==
  ASSUME RoomInv, RefundReply
  PROVE  Rules' /\ PlayTyped' /\ TimersTyped' /\ EndTyped' /\ TableStep
<1>1. DB!IInv /\ Local /\ Rules
  BY InvParts
<1>2. /\ settle = "refund" /\ alive # "crashed"
      /\ UNCHANGED <<phase, turnVars, conn, winnerSeat, finishReason, published, start,
                     alive, shutdown, results, outcomeEvent>>
  BY DEF RefundReply, unsettledVars, recordVars
<1>3. phase = "ABORTED" /\ status[Match] # "FINISHED" /\ winner[Match] = Bot
  BY <1>1, <1>2 DEF Rules, VerdictInv, SettledInv
<1>4. /\ winner \in [{Match} -> {UserA, UserB, Bot}] /\ status \in [{Match} -> DB!Statuses]
      /\ (refunded[Match] <=> status[Match] = "ABORTED")
  BY <1>1, RowTyped DEF Rules, DB!MatchInv
<1>5. \/ /\ UNCHANGED walletVars /\ status[Match] = "ABORTED"
         /\ \/ Goes("abortEvent") /\ finalized' \in {finalized, TRUE}
            \/ RetryLater
      \/ /\ DB!RefundAbortedMatch(Match)
         /\ \/ Goes("abortEvent") /\ finalized' = TRUE
            \/ RetryLater
      \/ /\ UNCHANGED walletVars /\ finalized' = finalized
         /\ settle' = "retry" /\ timers' = timers \cup {Timer("retry")}
  <2>1. finalized => status[Match] = "ABORTED"
    BY <1>1, <1>3 DEF Rules, SettledInv
  <2> QED
    BY <1>4, <2>1 DEF RefundReply, RetryLater
<1>6. TableStep
  BY <1>5 DEF TableStep, Writes
<1>7. Settles /\ settle' \in {"abortEvent", "retry"} /\ finalized' \in {finalized, TRUE}
  <2>1. \/ settle' = "abortEvent" /\ timers' = timers
        \/ settle' = "retry" /\ timers' = timers \cup {Timer("retry")}
    BY <1>5 DEF RetryLater, Goes
  <2>2. finalized' \in {finalized, TRUE}
    BY <1>5 DEF RetryLater
  <2> QED
    BY <1>2, <2>1, <2>2 DEF Settles
<1>8. /\ RowInv' /\ StartInv' /\ TimerInv' /\ PendingInv' /\ KickInv'
      /\ PlayTyped' /\ TimersTyped'
      /\ IsTerminal /\ Kept /\ seats' = seats /\ ~published
  BY <1>6, <1>7, SettlesFrame
<1>9. VerdictInv'
  BY <1>1, <1>2, <1>3, <1>7, <1>8 DEF VerdictInv, Rules, IsTerminal, IsHuman
<1>10. SettledInv'
  <2>1. /\ winner'[Match] = Bot /\ status'[Match] # "FINISHED"
        /\ settle' = "abortEvent" \/ finalized' => status'[Match] = "ABORTED"
    <3>1. CASE /\ UNCHANGED walletVars
               /\ \/ status[Match] = "ABORTED"
                  \/ settle' = "retry" /\ finalized' = finalized
      <4>1. status' = status /\ winner' = winner
        BY <3>1 DEF walletVars
      <4> QED
        BY <1>1, <1>3, <3>1, <4>1 DEF Rules, SettledInv
    <3>2. CASE DB!RefundAbortedMatch(Match)
      <4>1. status' = [status EXCEPT ![Match] = "ABORTED"] /\ winner' = winner
        BY <3>2 DEF DB!RefundAbortedMatch
      <4> QED
        BY <1>3, <1>4, <4>1
    <3> QED
      BY <1>5, <3>1, <3>2
  <2> QED
    BY <1>1, <1>2, <1>3, <1>7, <1>8, <2>1 DEF SettledInv, Rules, IsTerminal
<1>11. EndTyped'
  BY <1>1, <1>2, <1>7 DEF Local, EndTyped
<1> QED
  BY <1>6, <1>8, <1>9, <1>10, <1>11 DEF Rules

(* An abort is published once its event is written. *)
LEMMA AbortEventKeeps ==
  ASSUME RoomInv, AbortEventReply
  PROVE  Rules' /\ PlayTyped' /\ TimersTyped' /\ EndTyped'
<1>1. DB!IInv /\ Local /\ Rules /\ TableStep
  BY InvParts DEF AbortEventReply, TableStep
<1>2. /\ settle = "abortEvent" /\ alive # "crashed"
      /\ UNCHANGED <<phase, turnVars, conn, winnerSeat, finishReason, start, alive, shutdown,
                     outcomeEvent, results, winner, status, finalized>>
      /\ \/ settle' = "done" /\ published' = TRUE /\ timers' = timers \cup {Timer("disconnect")}
         \/ RetryLater /\ published' = published
  BY DEF AbortEventReply, recordVars, walletVars, RetryLater
<1>3. phase = "ABORTED" /\ status[Match] = "ABORTED"
  BY <1>1, <1>2 DEF Rules, VerdictInv, SettledInv
<1>4. Settles /\ settle' \in {"done", "retry"}
  BY <1>2 DEF Settles, RetryLater
<1>5. /\ RowInv' /\ StartInv' /\ TimerInv' /\ PendingInv' /\ KickInv'
      /\ PlayTyped' /\ TimersTyped'
      /\ IsTerminal /\ Kept /\ seats' = seats /\ ~published
  BY <1>1, <1>4, SettlesFrame
<1>6. VerdictInv'
  BY <1>1, <1>2, <1>3, <1>4, <1>5 DEF VerdictInv, Rules, IsTerminal, IsHuman
<1>7. SettledInv'
  BY <1>1, <1>2, <1>3, <1>4, <1>5, RowTyped
     DEF SettledInv, Rules, IsTerminal, RetryLater
<1>8. EndTyped'
  BY <1>1, <1>2, <1>4 DEF Local, EndTyped, RetryLater
<1> QED
  BY <1>5, <1>6, <1>7, <1>8 DEF Rules

(* The retry starts complete() again. *)
LEMMA RetryTimerKeeps ==
  ASSUME RoomInv, NEW t \in timers, RetryTimer(t)
  PROVE  Rules' /\ PlayTyped' /\ TimersTyped' /\ EndTyped'
<1>1. DB!IInv /\ Local /\ Rules /\ TableStep
  BY InvParts DEF RetryTimer, TableStep
<1>2. RowInv' /\ Kept /\ seats' = seats /\ Players' = Players
  BY <1>1, TablesKeep DEF Rules
<1>3. /\ settle = "retry" /\ timers' = timers \ {t}
      /\ settle' = (IF phase = "FINISHED" THEN "finishEvent" ELSE "refund")
      /\ UNCHANGED <<phase, turnVars, winnerSeat, finishReason, published, start, alive,
                     finalized, outcomeEvent, results, winner, status>>
  BY <1>1 DEF Rules, TimerInv, RetryTimer, Fires, recordVars, walletVars, envVars
<1>4. alive = "open"
  BY <1>1 DEF Rules, TimerInv, Local, EnvTyped
<1>5. phase \in {"FINISHED", "ABORTED"} /\ IsTerminal /\ IsTerminal' /\ ~published
  BY <1>1, <1>3 DEF Rules, VerdictInv, SettledInv, IsTerminal
<1>6. StartInv'
  BY <1>1, <1>2, <1>3, StartStays DEF Rules
<1>7. VerdictInv'
  BY <1>1, <1>2, <1>3, <1>5 DEF Rules, VerdictInv, IsTerminal
<1>8. SettledInv'
  BY <1>1, <1>2, <1>3, <1>5, RowTyped
     DEF SettledInv, Rules, IsTerminal, IsHuman, Kept, Users, DB!PayoutKey
<1>9. PlayTyped' /\ KickInv' /\ PendingInv'
  BY <1>1, <1>3, PlayStays DEF Rules, Local
<1>10. TimerInv'
  <2>1. timers' = {}
    <3>1. \A u \in timers : u = [kind |-> "retry", turn |-> sequence]
      BY <1>1, <1>3, <1>5 DEF Rules, TimerInv, Local, TimersTyped
    <3> QED
      BY <1>3, <3>1
  <2> QED
    BY <1>3, <1>4, <1>5, <2>1 DEF TimerInv, IsTerminal
<1>11. TimersTyped' /\ EndTyped'
  BY <1>1, <1>3 DEF Local, TimersTyped, EndTyped
<1> QED
  BY <1>2, <1>6, <1>7, <1>8, <1>9, <1>10, <1>11 DEF Rules

-----------------------------------------------------------------------------
(* startMatch. *)

(* A step of it changes nothing else, and at most activates the row. *)
LEMMA StartsFrame ==
  ASSUME RoomInv, TableStep, winner' = winner,
         \/ status' = status
         \/ status[Match] = "WAITING" /\ status'[Match] = "ACTIVE",
         UNCHANGED <<recordVars, phase, turnVars, timers, endVars, alive>>
  PROVE  /\ RowInv' /\ VerdictInv' /\ SettledInv' /\ TimerInv' /\ PendingInv' /\ KickInv'
         /\ PlayTyped' /\ TimersTyped' /\ EndTyped' /\ Kept /\ Players' = Players
<1>1. DB!IInv /\ Local /\ Rules
  BY InvParts
<1>2. RowInv' /\ Kept /\ seats' = seats /\ Players' = Players
  BY <1>1, TablesKeep DEF Rules
<1>3. UNCHANGED <<winnerSeat, finishReason, settle, finalized, published, outcomeEvent, results>>
  BY DEF endVars, recordVars
<1>4. VerdictInv'
  BY <1>1, <1>2, <1>3, VerdictStays DEF Rules
<1>5. SettledInv'
  <2>1. CASE status' = status
    BY <1>1, <1>2, <1>3, <2>1, SettledStays DEF Rules
  <2>2. CASE status[Match] = "WAITING" /\ status'[Match] = "ACTIVE"
    <3>1. /\ winner[Match] = Bot /\ settle \notin {"stats", "abortEvent"} /\ ~finalized
          /\ ~published /\ results = None
      BY <1>1, <2>2, RowTyped DEF Rules, SettledInv, DB!MatchInv
    <3> QED
      BY <1>2, <1>3, <2>2, <3>1 DEF SettledInv
  <2> QED
    BY <2>1, <2>2
<1>6. TimerInv'
  BY <1>1, <1>3, TimersStay DEF Rules, turnVars
<1>7. PlayTyped' /\ KickInv' /\ PendingInv'
  BY <1>1, PlayStays DEF Rules, Local
<1>8. TimersTyped' /\ EndTyped'
  BY <1>1, <1>3 DEF Local, TimersTyped, EndTyped
<1> QED
  BY <1>2, <1>4, <1>5, <1>6, <1>7, <1>8

(* startMatch goes on from the deduction only when every player was        *)
(* charged.                                                                *)
LEMMA DeductKeeps ==
  ASSUME RoomInv, DeductReply
  PROVE  Rules' /\ PlayTyped' /\ TimersTyped' /\ EndTyped' /\ TableStep
<1>1. DB!IInv /\ Local /\ Rules
  BY InvParts
<1>2. /\ start = "deduct"
      /\ UNCHANGED <<recordVars, phase, turnVars, timers, endVars, alive>>
      /\ \/ DB!DeductEntryFees(Match, Fee) /\ start' \in {"deducted", "deductFailed"}
         \/ UNCHANGED walletVars /\ start' = "deductFailed"
  BY DEF DeductReply
<1>3. /\ TableStep /\ status' = status /\ winner' = winner
      /\ start' = "deducted" => \A u \in Players : Entered(u)'
  <2>1. CASE DB!DeductEntryFees(Match, Fee)
    BY <1>1, <2>1, DeductCharges DEF TableStep, Writes
  <2>2. CASE UNCHANGED walletVars /\ start' = "deductFailed"
    BY <2>2 DEF TableStep, walletVars
  <2> QED
    BY <1>2, <2>1, <2>2
<1>4. /\ RowInv' /\ VerdictInv' /\ SettledInv' /\ TimerInv' /\ PendingInv' /\ KickInv'
      /\ PlayTyped' /\ TimersTyped' /\ EndTyped' /\ Players' = Players
  BY <1>2, <1>3, StartsFrame
<1>5. StartInv'
  BY <1>1, <1>2, <1>3, <1>4 DEF Rules, StartInv, IsTerminal
<1> QED
  BY <1>3, <1>4, <1>5 DEF Rules

(* The update that activates the row: its failure may hide that it         *)
(* happened.                                                               *)
LEMMA ActivateKeeps ==
  ASSUME RoomInv, ActivateReply
  PROVE  Rules' /\ PlayTyped' /\ TimersTyped' /\ EndTyped'
<1>1. DB!IInv /\ Local /\ Rules /\ TableStep
  BY InvParts, ActivateTables
<1>2. /\ start = "activate" /\ winner' = winner
      /\ UNCHANGED <<recordVars, phase, turnVars, timers, endVars, alive>>
      /\ \/ /\ status[Match] = "WAITING" /\ status' = [status EXCEPT ![Match] = "ACTIVE"]
            /\ start' \in {"activated", "activateFailed"}
         \/ status' = status /\ start' = "notWaiting" /\ status[Match] # "WAITING"
         \/ status' = status /\ start' = "activateFailed"
  BY DEF ActivateReply
<1>3. status \in [{Match} -> DB!Statuses]
  BY <1>1, RowTyped DEF Rules
<1>4. \/ /\ status[Match] = "WAITING" /\ status'[Match] = "ACTIVE"
         /\ start' \in {"activated", "activateFailed"}
      \/ status' = status /\ start' = "notWaiting" /\ status[Match] # "WAITING"
      \/ status' = status /\ start' = "activateFailed"
  BY <1>2, <1>3
<1>5. /\ RowInv' /\ VerdictInv' /\ SettledInv' /\ TimerInv' /\ PendingInv' /\ KickInv'
      /\ PlayTyped' /\ TimersTyped' /\ EndTyped' /\ Players' = Players
  BY <1>1, <1>2, <1>4, StartsFrame
<1>6. StartInv'
  BY <1>1, <1>2, <1>4, <1>5 DEF Rules, StartInv, IsTerminal
<1> QED
  BY <1>5, <1>6 DEF Rules

(* A duel that ended during the deduction is not activated. *)
LEMMA StartAfterDeductionKeeps ==
  ASSUME RoomInv, StartAfterDeduction
  PROVE  Rules' /\ PlayTyped' /\ TimersTyped' /\ EndTyped'
<1>1. DB!IInv /\ Local /\ Rules
  BY InvParts
<1>2. /\ start = "deducted" /\ start' = (IF IsTerminal THEN "done" ELSE "activate")
      /\ TableStep /\ winner' = winner /\ status' = status
      /\ UNCHANGED <<recordVars, phase, turnVars, timers, endVars, alive>>
  BY DEF StartAfterDeduction, TableStep, walletVars, envVars
<1>3. /\ RowInv' /\ VerdictInv' /\ SettledInv' /\ TimerInv' /\ PendingInv' /\ KickInv'
      /\ PlayTyped' /\ TimersTyped' /\ EndTyped' /\ Players' = Players /\ Kept
  BY <1>2, StartsFrame
<1>4. \A u \in Players : Entered(u)'
  BY <1>1, <1>2, <1>3, RowTyped
     DEF Rules, StartInv, Entered, Kept, RowInv, Users, Seats, DB!EntryKey
<1>5. StartInv'
  BY <1>1, <1>2, <1>3, <1>4 DEF Rules, StartInv, IsTerminal
<1> QED
  BY <1>3, <1>5 DEF Rules

(* The side that opens is drawn before the first kick. *)
LEMMA StartAfterActivationKeeps ==
  ASSUME RoomInv, StartAfterActivation
  PROVE  Rules' /\ PlayTyped' /\ TimersTyped' /\ EndTyped'
<1>1. DB!IInv /\ Local /\ Rules
  BY InvParts
<1>2. /\ start = "activated" /\ UNCHANGED walletVars
      /\ UNCHANGED <<recordVars, phase, sequence, kicksTaken, score, suddenDeathPair,
                     inSuddenDeath, pending, expired, timers, endVars, alive>>
      /\ \/ IsTerminal /\ start' = "done" /\ UNCHANGED firstKicker
         \/ ~IsTerminal /\ start' = "announce" /\ firstKicker' \in Seats
  BY DEF StartAfterActivation, envVars
<1>3. TableStep /\ winner' = winner /\ status' = status
  BY <1>2 DEF TableStep, walletVars
<1>4. CASE IsTerminal /\ UNCHANGED firstKicker
  <2>1. UNCHANGED turnVars
    BY <1>2, <1>4 DEF turnVars
  <2>2. /\ RowInv' /\ VerdictInv' /\ SettledInv' /\ TimerInv' /\ PendingInv' /\ KickInv'
        /\ PlayTyped' /\ TimersTyped' /\ EndTyped'
    BY <1>2, <1>3, <2>1, StartsFrame
  <2>3. StartInv'
    BY <1>2, <1>4 DEF StartInv, IsTerminal
  <2> QED
    BY <2>2, <2>3 DEF Rules
<1>5. CASE ~IsTerminal /\ start' = "announce" /\ firstKicker' \in Seats
  <2>1. phase = "STARTING"
    BY <1>1, <1>2, <1>5 DEF Rules, StartInv, IsTerminal, Local, PlayTyped, Phases
  <2>2. RowInv' /\ Kept /\ seats' = seats /\ Players' = Players
    BY <1>1, <1>3, TablesKeep DEF Rules
  <2>3. UNCHANGED <<winnerSeat, finishReason, settle, finalized, published, outcomeEvent, results>>
    BY <1>2 DEF endVars, recordVars
  <2>4. StartInv'
    BY <1>1, <1>2, <1>3, <1>5, <2>1, <2>2 DEF Rules, StartInv, IsTerminal
  <2>5. VerdictInv'
    BY <1>1, <1>2, <2>2, <2>3, VerdictStays DEF Rules
  <2>6. SettledInv'
    BY <1>1, <1>2, <1>3, <2>2, <2>3, SettledStays DEF Rules
  <2>7. TimerInv'
    BY <1>1, <1>2, <2>3, TimersStay DEF Rules
  <2>8. PendingInv'
    BY <1>1, <1>2 DEF Rules, PendingInv
  <2>9. KickInv'
    BY <1>1, <1>2, <2>1 DEF Rules, KickInv
  <2>10. PlayTyped'
    BY <1>1, <1>2, <1>5 DEF Local, PlayTyped
  <2>11. TimersTyped' /\ EndTyped'
    BY <1>1, <1>2, <2>3 DEF Local, TimersTyped, EndTyped
  <2> QED
    BY <2>2, <2>4, <2>5, <2>6, <2>7, <2>8, <2>9, <2>10, <2>11 DEF Rules
<1> QED
  BY <1>2, <1>4, <1>5

-----------------------------------------------------------------------------
(* The other steps. *)

(* A step that changes nothing the rules are about, except that a room     *)
(* that closes or crashes loses its timers.                                *)
LEMMA QuietKeeps ==
  ASSUME RoomInv, UNCHANGED <<walletVars, recordVars, phase, turnVars, endVars>>,
         start' = start \/ (IsTerminal /\ start' = "done"),
         \/ UNCHANGED <<timers, alive>>
         \/ timers' = {} /\ alive' = "crashed"
         \/ timers' = {} /\ alive' = "disposed" /\ settle = "done"
  PROVE  Rules' /\ PlayTyped' /\ TimersTyped' /\ EndTyped'
<1>1. DB!IInv /\ Local /\ Rules /\ TableStep
  BY InvParts DEF TableStep
<1>2. RowInv' /\ Kept /\ seats' = seats /\ Players' = Players
  BY <1>1, TablesKeep DEF Rules
<1>3. /\ status' = status /\ winner' = winner
      /\ UNCHANGED <<winnerSeat, finishReason, settle, finalized, published, outcomeEvent, results>>
  BY DEF walletVars, endVars, recordVars
<1>4. StartInv'
  <2>1. CASE start' = start
    BY <1>1, <1>2, <1>3, <2>1, StartStays DEF Rules
  <2>2. CASE IsTerminal /\ start' = "done"
    BY <2>2 DEF StartInv, IsTerminal
  <2> QED
    BY <2>1, <2>2
<1>5. VerdictInv'
  BY <1>1, <1>2, <1>3, VerdictStays DEF Rules
<1>6. SettledInv'
  BY <1>1, <1>2, <1>3, SettledStays DEF Rules
<1>7. PlayTyped' /\ KickInv' /\ PendingInv'
  BY <1>1, PlayStays DEF Rules, Local
<1>8. TimerInv'
  <2>1. CASE UNCHANGED <<timers, alive>>
    BY <1>1, <1>3, <2>1, TimersStay DEF Rules, turnVars
  <2>2. CASE timers' = {} /\ alive' # "open" /\ (alive' = "disposed" => settle = "done")
    BY <1>3, <2>2 DEF TimerInv
  <2> QED
    BY <2>1, <2>2
<1>9. TimersTyped' /\ EndTyped'
  BY <1>1, <1>3 DEF Local, TimersTyped, EndTyped
<1> QED
  BY <1>2, <1>4, <1>5, <1>6, <1>7, <1>8, <1>9 DEF Rules

(* The start of the match by the last join. *)
LEMMA JoinKeeps ==
  ASSUME RoomInv, NEW s \in Seats, Join(s)
  PROVE  Rules' /\ PlayTyped' /\ TimersTyped' /\ EndTyped'
<1>1. DB!IInv /\ Local /\ Rules /\ TableStep
  BY InvParts DEF Join, TableStep
<1>2. /\ alive = "open" /\ alive' = alive
      /\ UNCHANGED <<walletVars, recordVars, turnVars, endVars>>
      /\ \/ UNCHANGED <<phase, timers, start>>
         \/ /\ phase = "WAITING_FOR_PLAYERS" /\ phase' = "STARTING"
            /\ timers' = {} /\ start' = "deduct"
  BY DEF Join, envVars
<1>3. CASE UNCHANGED <<phase, timers, start>>
  <2>1. UNCHANGED <<walletVars, recordVars, phase, turnVars, endVars>> /\ start' = start
    BY <1>2, <1>3
  <2>2. UNCHANGED <<timers, alive>>
    BY <1>2, <1>3
  <2> QED
    BY <2>1, <2>2, QuietKeeps
<1>4. CASE /\ phase = "WAITING_FOR_PLAYERS" /\ phase' = "STARTING"
           /\ timers' = {} /\ start' = "deduct"
  <2>1. RowInv' /\ Kept /\ seats' = seats /\ Players' = Players
    BY <1>1, TablesKeep DEF Rules
  <2>2. /\ status' = status /\ winner' = winner
        /\ UNCHANGED <<winnerSeat, finishReason, settle, finalized, published, outcomeEvent, results>>
    BY <1>2 DEF walletVars, endVars, recordVars
  <2>3. StartInv'
    BY <1>1, <1>4, <2>2 DEF Rules, StartInv, IsTerminal
  <2>4. VerdictInv'
    BY <1>1, <1>4, <2>1, <2>2 DEF Rules, VerdictInv, IsTerminal
  <2>5. SettledInv'
    BY <1>1, <1>4, <2>1, <2>2 DEF Rules, VerdictInv, SettledInv, IsTerminal
  <2>6. TimerInv'
    BY <1>2, <1>4 DEF TimerInv
  <2>7. PendingInv' /\ KickInv'
    BY <1>1, <1>2, <1>4 DEF Rules, PendingInv, KickInv, turnVars
  <2>8. PlayTyped' /\ TimersTyped' /\ EndTyped'
    BY <1>1, <1>2, <1>4, <2>2 DEF Local, PlayTyped, TimersTyped, EndTyped, turnVars, Phases
  <2> QED
    BY <2>1, <2>3, <2>4, <2>5, <2>6, <2>7, <2>8 DEF Rules
<1> QED
  BY <1>2, <1>3, <1>4

(* A seat is given up, at once or after the grace period. *)
LEMMA GivesUpKeeps ==
  ASSUME RoomInv, NEW s \in Seats, LeaveConsented(s) \/ GraceExpires(s)
  PROVE  Rules' /\ PlayTyped' /\ TimersTyped' /\ EndTyped'
<1>1. VerdictInv
  BY DEF RoomInv
<1>2. Depart(s) /\ UNCHANGED <<walletVars, recordVars, turnVars, start, alive>>
  BY DEF LeaveConsented, GraceExpires, envVars
<1>3. CASE ~IsTerminal /\ Ends
  BY <1>2, <1>3, EndKeeps
<1>4. CASE UNCHANGED <<phase, timers, endVars>>
  <2>1. UNCHANGED <<walletVars, recordVars, phase, turnVars, endVars>> /\ start' = start
    BY <1>2, <1>4
  <2>2. UNCHANGED <<timers, alive>>
    BY <1>2, <1>4
  <2> QED
    BY <2>1, <2>2, QuietKeeps
<1> QED
  BY <1>1, <1>2, <1>3, <1>4, DepartEnds

(* A connection that drops or comes back changes no rule. *)
LEMMA ConnKeeps ==
  ASSUME RoomInv, NEW s \in Seats, Drop(s) \/ Reconnect(s)
  PROVE  Rules' /\ PlayTyped' /\ TimersTyped' /\ EndTyped'
<1>1. UNCHANGED <<walletVars, recordVars, phase, turnVars, endVars>> /\ start' = start
  BY DEF Drop, Reconnect
<1>2. UNCHANGED <<timers, alive>>
  BY DEF Drop, Reconnect, envVars
<1> QED
  BY <1>1, <1>2, QuietKeeps

(* The players did not come in time. *)
LEMMA ConnectTimerKeeps ==
  ASSUME RoomInv, NEW t \in timers, ConnectTimer(t)
  PROVE  Rules' /\ PlayTyped' /\ TimersTyped' /\ EndTyped'
<1>1. /\ ~IsTerminal /\ Ends
      /\ UNCHANGED <<walletVars, recordVars, turnVars, alive, start>>
  BY DEF ConnectTimer, Ends, IsTerminal, envVars
<1> QED
  BY <1>1, EndKeeps

(* A start that fails aborts a duel that is not over. *)
LEMMA StartFailsKeeps ==
  ASSUME RoomInv, StartFails
  PROVE  Rules' /\ PlayTyped' /\ TimersTyped' /\ EndTyped'
<1>1. /\ start' = "done" /\ UNCHANGED <<walletVars, recordVars, turnVars, alive>>
      /\ \/ ~IsTerminal /\ Ends
         \/ IsTerminal /\ UNCHANGED <<phase, timers, endVars>>
  BY DEF StartFails, AbortUnlessTerminal, Ends, envVars
<1>2. CASE ~IsTerminal /\ Ends
  BY <1>1, <1>2, EndKeeps
<1>3. CASE IsTerminal /\ UNCHANGED <<phase, timers, endVars>>
  BY <1>1, <1>3, QuietKeeps
<1> QED
  BY <1>1, <1>2, <1>3

(* The first turn begins, unless the duel ended or the event failed. *)
LEMMA AnnounceKeeps ==
  ASSUME RoomInv, AnnounceReply
  PROVE  Rules' /\ PlayTyped' /\ TimersTyped' /\ EndTyped'
<1>1. DB!IInv /\ Local /\ Rules
  BY InvParts
<1>2. /\ start = "announce" /\ start' = "done" /\ alive # "crashed"
      /\ UNCHANGED <<walletVars, recordVars, alive>>
      /\ \/ IsTerminal /\ UNCHANGED <<phase, turnVars, timers, endVars>>
         \/ /\ ~IsTerminal /\ BeginNextTurn(timers)
            /\ UNCHANGED <<firstKicker, kicksTaken, score, suddenDeathPair, inSuddenDeath, endVars>>
         \/ ~IsTerminal /\ Ends /\ UNCHANGED turnVars
  BY DEF AnnounceReply, AbortUnlessTerminal, Ends
<1>3. CASE IsTerminal /\ UNCHANGED <<phase, turnVars, timers, endVars>>
  BY <1>2, <1>3, QuietKeeps
<1>4. CASE ~IsTerminal /\ Ends /\ UNCHANGED turnVars
  BY <1>2, <1>4, EndKeeps
<1>5. CASE /\ ~IsTerminal /\ BeginNextTurn(timers)
           /\ UNCHANGED <<firstKicker, kicksTaken, score, suddenDeathPair, inSuddenDeath, endVars>>
  <2>1. phase = "STARTING" /\ status[Match] = "ACTIVE"
    BY <1>1, <1>2, <1>5 DEF Rules, StartInv, IsTerminal, Local, PlayTyped, Phases
  <2>2. alive = "open"
    BY <1>1, <1>2, <1>5 DEF Rules, TimerInv, VerdictInv, IsTerminal, Local, EnvTyped
  <2>3. KickInv'
    BY <1>1, <1>5, <2>1, FirstTurnCounts DEF Rules, Local
  <2>4. suddenDeathPair' \in Nat /\ inSuddenDeath' \in BOOLEAN
    BY <1>1, <1>5 DEF Local, PlayTyped
  <2> QED
    BY <1>2, <1>5, <2>1, <2>2, <2>3, <2>4, TurnBegins
<1> QED
  BY <1>2, <1>3, <1>4, <1>5

(* A duel that ends on the pitch. *)
LEMMA LeaderIsSeat == \A sc : Leader(sc) \in Seats
BY DEF Leader, Seats

(* After the reveal the next turn begins, or the duel ends. *)
LEMMA RevealTimerKeeps ==
  ASSUME RoomInv, NEW t \in timers, RevealTimer(t)
  PROVE  Rules' /\ PlayTyped' /\ TimersTyped' /\ EndTyped'
<1>1. DB!IInv /\ Local /\ Rules
  BY InvParts
<1>2. /\ phase = "REVEALING_RESULT" /\ ~IsTerminal
      /\ UNCHANGED <<walletVars, recordVars, start, alive>>
  BY DEF RevealTimer, envVars, IsTerminal
<1>3. alive = "open" /\ start' = "done" /\ status[Match] = "ACTIVE"
  BY <1>1, <1>2 DEF Rules, TimerInv, StartInv, Local, EnvTyped
<1>4. CASE Decision = "FINISHED"
  <2>1. UNCHANGED turnVars /\ Ends
    BY <1>4, LeaderIsSeat DEF RevealTimer, Ends, Reasons
  <2> QED
    BY <1>2, <2>1, EndKeeps
<1>5. CASE Decision # "FINISHED"
  <2>1. /\ BeginNextTurn(timers \ {t}) /\ suddenDeathPair' = NextPair
        /\ inSuddenDeath' = (inSuddenDeath \/ Decision = "ENTER_SUDDEN_DEATH")
        /\ UNCHANGED <<firstKicker, kicksTaken, score, endVars>>
    BY <1>5 DEF RevealTimer, NextPair
  <2>2. KickInv' /\ suddenDeathPair' \in Nat /\ inSuddenDeath' \in BOOLEAN
    BY <1>1, <1>2, <1>5, <2>1, NextTurnCounts DEF Rules, Local
  <2> QED
    BY <1>2, <1>3, <2>1, <2>2, TurnBegins
<1> QED
  BY <1>4, <1>5

(* What was locked so far is of this turn, and so are the live timers. *)
LEMMA OfThisTurn ==
  ASSUME RoomInv
  PROVE  /\ pending \in [Roles -> [dir : Directions \cup {None}, turn : Nat]]
         /\ \A r \in Roles : pending[r] # NoIntent => pending[r].turn = sequence
         /\ sequence \in Nat /\ firstKicker \in Seats
         /\ \A t \in timers : t.turn = sequence /\ alive = "open"
         /\ phase = "AWAITING_ACTIONS" /\ alive = "open" => Timer("turn") \in timers
<1>1. Local /\ Rules
  BY InvParts
<1> QED
  BY <1>1 DEF Local, Rules, PlayTyped, PendingInv, TimerInv, EnvTyped

(* A lock resolves the turn or is stored. *)
LEMMA LockPlays ==
  ASSUME RoomInv, phase = "AWAITING_ACTIONS", NEW role \in Roles, NEW dir \in Directions,
         NEW rest \in SUBSET timers, Timer("turn") \in rest,
         Lock(role, [dir |-> dir, turn |-> sequence], rest)
  PROVE  Resolves \/ Locks
<1>1. PICK p : p = [pending EXCEPT ![role] = [dir |-> dir, turn |-> sequence]]
  OBVIOUS
<1>2. p \in [Roles -> [dir : Directions \cup {None}, turn : Nat]]
  BY <1>1, OfThisTurn
<1>3. \A r \in Roles : p[r] # NoIntent => p[r].turn = sequence
  BY <1>1, OfThisTurn
<1>4. CASE ResolveTurn(p, rest)
  BY <1>2, <1>3, <1>4 DEF Resolves
<1>5. CASE /\ pending' = p /\ timers' = rest
           /\ UNCHANGED <<phase, firstKicker, sequence, kicksTaken, score,
                          suddenDeathPair, inSuddenDeath, expired>>
  BY <1>2, <1>3, <1>5 DEF Locks
<1> QED
  BY <1>1, <1>4, <1>5 DEF Lock

(* A turn may be resolved with what was locked so far. *)
LEMMA ResolveNow ==
  ASSUME RoomInv, NEW rest \in SUBSET timers, ResolveTurn(pending, rest)
  PROVE  Resolves
BY OfThisTurn DEF Resolves

(* A command of a client, in time or late. *)
LEMMA SubmitKeeps ==
  ASSUME RoomInv, NEW s \in Seats, NEW turn, NEW role \in Roles, NEW dir \in Directions,
         SubmitAction(s, turn, role, dir)
  PROVE  Rules' /\ PlayTyped' /\ TimersTyped' /\ EndTyped'
<1>1. /\ alive = "open" /\ phase = "AWAITING_ACTIONS" /\ Plays
      /\ ResolveTurn(pending, timers) \/ Lock(role, [dir |-> dir, turn |-> sequence], timers)
  BY DEF SubmitAction, Plays
<1>2. Timer("turn") \in timers
  BY <1>1, OfThisTurn
<1>3. Resolves \/ Locks
  BY <1>1, <1>2, LockPlays, ResolveNow
<1> QED
  BY <1>1, <1>3, ResolvesKeeps, LocksKeeps

(* A turn timer is the timer of the turn that is awaited. *)
LEMMA TurnTimerKeeps ==
  ASSUME RoomInv, NEW t \in timers, TurnTimer(t)
  PROVE  Rules' /\ PlayTyped' /\ TimersTyped' /\ EndTyped'
<1>1. Local /\ Rules
  BY InvParts
<1>2. t.kind = "turn" /\ Plays
  BY DEF TurnTimer, Plays
<1>3. phase = "AWAITING_ACTIONS" /\ t.turn = sequence /\ alive = "open"
  BY <1>1, <1>2, OfThisTurn DEF Rules, TimerInv, Local, PlayTyped, Phases, IsTerminal
<1>4. ResolveTurn(pending, timers \ {t})
  BY <1>3 DEF TurnTimer
<1> QED
  BY <1>2, <1>3, <1>4, ResolveNow, ResolvesKeeps

(* A bot's timer that has nothing to do goes away. *)
LEMMA IdleBotKeeps ==
  ASSUME RoomInv, Plays, NEW t \in timers, t.kind = "bot", timers' = timers \ {t},
         UNCHANGED <<phase, turnVars>>
  PROVE  Rules' /\ PlayTyped' /\ TimersTyped' /\ EndTyped'
<1>1. DB!IInv /\ Local /\ Rules
  BY InvParts
<1>2. alive = "open" /\ phase \in {"AWAITING_ACTIONS", "REVEALING_RESULT"}
  BY <1>1 DEF Rules, TimerInv, Local, PlayTyped, Phases, IsTerminal, EnvTyped
<1>3. RowInv' /\ StartInv' /\ VerdictInv' /\ SettledInv' /\ EndTyped'
  BY <1>2, PlaysFrame DEF IsTerminal
<1>4. PlayTyped' /\ KickInv' /\ PendingInv'
  BY <1>1, PlayStays DEF Rules, Local
<1>5. TimerInv'
  BY <1>1, <1>2 DEF Rules, TimerInv, Plays, endVars, envVars, turnVars, IsTerminal, Timer
<1>6. TimersTyped'
  BY <1>1 DEF Local, TimersTyped
<1> QED
  BY <1>3, <1>4, <1>5, <1>6 DEF Rules

(* The bot locks in its turn, or resolves one whose deadline has passed. *)
LEMMA BotTimerKeeps ==
  ASSUME RoomInv, NEW t \in timers, NEW dir \in Directions, BotTimer(t, dir)
  PROVE  Rules' /\ PlayTyped' /\ TimersTyped' /\ EndTyped'
<1>1. PICK role : role = RoleOf("B", firstKicker, t.turn)
  OBVIOUS
<1>2. role \in Roles
  BY <1>1 DEF RoleOf, Roles
<1>3. /\ t.kind = "bot" /\ Plays /\ t.turn = sequence /\ alive = "open"
      /\ \/ timers' = timers \ {t} /\ UNCHANGED <<phase, turnVars>>
         \/ phase = "AWAITING_ACTIONS" /\ ResolveTurn(pending, timers \ {t})
         \/ phase = "AWAITING_ACTIONS" /\ Lock(role, [dir |-> dir, turn |-> t.turn], timers \ {t})
  BY <1>1, OfThisTurn DEF BotTimer, Plays
<1>4. CASE timers' = timers \ {t} /\ UNCHANGED <<phase, turnVars>>
  BY <1>3, <1>4, IdleBotKeeps
<1>5. CASE phase = "AWAITING_ACTIONS" /\ ResolveTurn(pending, timers \ {t})
  BY <1>3, <1>5, ResolveNow, ResolvesKeeps
<1>6. CASE phase = "AWAITING_ACTIONS" /\ Lock(role, [dir |-> dir, turn |-> t.turn], timers \ {t})
  <2>1. Timer("turn") \in timers \ {t}
    BY <1>3, <1>6, OfThisTurn DEF Timer
  <2>2. Resolves \/ Locks
    BY <1>2, <1>3, <1>6, <2>1, LockPlays
  <2> QED
    BY <1>3, <1>6, <2>2, ResolvesKeeps, LocksKeeps
<1> QED
  BY <1>3, <1>4, <1>5, <1>6

(* A room closes only after its result was published. *)
LEMMA DisconnectTimerKeeps ==
  ASSUME RoomInv, NEW t \in timers, DisconnectTimer(t)
  PROVE  Rules' /\ PlayTyped' /\ TimersTyped' /\ EndTyped'
<1>1. t.kind = "disconnect" /\ settle = "done"
  BY DEF DisconnectTimer, RoomInv, TimerInv
<1>2. UNCHANGED <<walletVars, recordVars, phase, turnVars, endVars>> /\ start' = start
  BY DEF DisconnectTimer, Dispose
<1>3. timers' = {} /\ alive' = "disposed"
  BY DEF DisconnectTimer, Dispose
<1> QED
  BY <1>1, <1>2, <1>3, QuietKeeps

(* A planned shutdown aborts what is not over, and closes what is          *)
(* published.                                                              *)
LEMMA ShutdownKeeps ==
  ASSUME RoomInv, BeforeShutdown
  PROVE  Rules' /\ PlayTyped' /\ TimersTyped' /\ EndTyped'
<1>1. CASE ~IsTerminal
  <2>1. Ends /\ UNCHANGED <<walletVars, recordVars, turnVars, start, alive>>
    BY <1>1 DEF BeforeShutdown, Ends
  <2> QED
    BY <1>1, <2>1, EndKeeps
<1>2. CASE IsTerminal /\ published
  <2>1. settle = "done"
    BY <1>2 DEF RoomInv, SettledInv
  <2>2. UNCHANGED <<walletVars, recordVars, phase, turnVars, endVars>> /\ start' = start
    BY <1>2 DEF BeforeShutdown, Dispose
  <2>3. timers' = {} /\ alive' = "disposed"
    BY <1>2 DEF BeforeShutdown, Dispose
  <2> QED
    BY <2>1, <2>2, <2>3, QuietKeeps
<1>3. CASE IsTerminal /\ ~published
  <2>1. UNCHANGED <<walletVars, recordVars, phase, turnVars, endVars>> /\ start' = start
    BY <1>3 DEF BeforeShutdown
  <2>2. UNCHANGED <<timers, alive>>
    BY <1>3 DEF BeforeShutdown
  <2> QED
    BY <2>1, <2>2, QuietKeeps
<1> QED
  BY <1>1, <1>2, <1>3

(* A crash takes the timers with it. *)
LEMMA CrashKeeps ==
  ASSUME RoomInv, Crash
  PROVE  Rules' /\ PlayTyped' /\ TimersTyped' /\ EndTyped'
<1>1. UNCHANGED <<walletVars, recordVars, phase, turnVars, endVars>> /\ start' = start
  BY DEF Crash
<1>2. timers' = {} /\ alive' = "crashed"
  BY DEF Crash
<1> QED
  BY <1>1, <1>2, QuietKeeps

(* The clock passes the deadline of the turn. *)
LEMMA DeadlineKeeps ==
  ASSUME RoomInv, DeadlinePasses
  PROVE  Rules' /\ PlayTyped' /\ TimersTyped' /\ EndTyped'
<1>1. DB!IInv /\ Local /\ Rules
  BY InvParts
<1>2. /\ phase = "AWAITING_ACTIONS" /\ Plays /\ expired' = TRUE
      /\ UNCHANGED <<phase, firstKicker, sequence, kicksTaken, score, suddenDeathPair,
                     inSuddenDeath, pending, timers, endVars, alive>>
  BY DEF DeadlinePasses, Plays, envVars
<1>3. RowInv' /\ StartInv' /\ VerdictInv' /\ SettledInv' /\ EndTyped'
  BY <1>2, PlaysFrame DEF IsTerminal
<1>4. KickInv'
  BY <1>1, <1>2 DEF KickInv, InTurn, BothTook, Rules
<1>5. PendingInv'
  BY <1>1, <1>2 DEF PendingInv, Rules
<1>6. TimerInv'
  BY <1>1, <1>2, TimersStay DEF Rules, endVars
<1>7. PlayTyped' /\ TimersTyped'
  BY <1>1, <1>2 DEF Local, PlayTyped, TimersTyped
<1> QED
  BY <1>3, <1>4, <1>5, <1>6, <1>7 DEF Rules

(* The recovery writes what the room itself would. *)
LEMMA RecoverKeeps ==
  ASSUME RoomInv, RecoverOutcome
  PROVE  Rules' /\ PlayTyped' /\ TimersTyped' /\ EndTyped'
<1>1. DB!IInv /\ Local /\ Rules /\ TableStep
  BY InvParts DEF RecoverOutcome, TableStep
<1>2. /\ status[Match] = "FINISHED" /\ results' = outcomeEvent /\ outcomeEvent # None
      /\ UNCHANGED <<walletVars, outcomeEvent, phase, turnVars, timers, endVars, start, alive>>
  BY DEF RecoverOutcome, RecordOutcome, envVars
<1>3. RowInv' /\ Kept /\ seats' = seats /\ Players' = Players
  BY <1>1, TablesKeep DEF Rules
<1>4. /\ status' = status /\ winner' = winner
      /\ UNCHANGED <<winnerSeat, finishReason, settle, finalized, published>>
  BY <1>2 DEF walletVars, endVars
<1>5. outcomeEvent = winnerSeat
  BY <1>1, <1>2 DEF Rules, VerdictInv
<1>6. StartInv'
  BY <1>1, <1>2, <1>3, <1>4, StartStays DEF Rules
<1>7. VerdictInv'
  BY <1>1, <1>2, <1>3, <1>4, VerdictStays DEF Rules
<1>8. SettledInv'
  BY <1>1, <1>2, <1>3, <1>4, <1>5, RowTyped
     DEF SettledInv, Rules, IsTerminal, IsHuman, Kept, Users, DB!PayoutKey
<1>9. PlayTyped' /\ KickInv' /\ PendingInv'
  BY <1>1, <1>2, PlayStays DEF Rules, Local
<1>10. TimerInv'
  BY <1>1, <1>2, <1>4, TimersStay DEF Rules, turnVars
<1>11. TimersTyped' /\ EndTyped'
  BY <1>1, <1>2, <1>4 DEF Local, TimersTyped, EndTyped
<1> QED
  BY <1>3, <1>6, <1>7, <1>8, <1>9, <1>10, <1>11 DEF Rules

-----------------------------------------------------------------------------
(* The connections and the surroundings keep their types. *)

(* The connections keep their types. *)
LEMMA ConnTypeKeeps ==
  ASSUME ConnTyped, [Next]_vars
  PROVE  ConnTyped'
<1>1. ASSUME NEW s \in Seats, Join(s) \/ LeaveConsented(s) \/ Drop(s) \/ Reconnect(s) \/ GraceExpires(s)
      PROVE  ConnTyped'
  BY <1>1 DEF ConnTyped, Join, LeaveConsented, Drop, Reconnect, GraceExpires
<1>2. CASE UNCHANGED conn
  BY <1>2 DEF ConnTyped
<1>3. StartStep \/ SettleStep \/ BeforeShutdown \/ Crash \/ RecoverOutcome \/ DeadlinePasses => UNCHANGED conn
  BY DEF StartStep, DeductReply, ActivateReply, StartAfterDeduction, StartAfterActivation,
         StartFails, AnnounceReply, SettleStep, FinishEventReply, PayReply, KeepReply, StatsReply,
         RefundReply, AbortEventReply, BeforeShutdown, Crash, RecoverOutcome, DeadlinePasses, Dispose
<1>4. ASSUME NEW t \in timers,
             \/ ConnectTimer(t) \/ TurnTimer(t) \/ RevealTimer(t) \/ RetryTimer(t) \/ DisconnectTimer(t)
             \/ \E dir \in Directions : BotTimer(t, dir)
      PROVE  UNCHANGED conn
  BY <1>4 DEF ConnectTimer, TurnTimer, RevealTimer, RetryTimer, DisconnectTimer, BotTimer, Dispose
<1>5. ASSUME NEW s \in Seats, NEW turn, NEW role, NEW dir, SubmitAction(s, turn, role, dir)
      PROVE  UNCHANGED conn
  BY <1>5 DEF SubmitAction
<1>6. CASE UNCHANGED vars
  BY <1>2, <1>6 DEF vars
<1> QED
  BY <1>1, <1>2, <1>3, <1>4, <1>5, <1>6 DEF Next, PlayerStep, TimerStep

(* What a step does to the surroundings, as far as their types go. *)
EnvMoves ==
  /\ start' \in {start, "deduct", "deducted", "deductFailed", "activate",
                 "activated", "notWaiting", "activateFailed", "announce", "done"}
  /\ alive' \in {alive, "disposed", "crashed"}
  /\ shutdown' \in {shutdown, TRUE}
  /\ faults' = faults \/ Fault

(* The surroundings keep their types under such a step. *)
LEMMA EnvMovesKeep ==
  ASSUME EnvTyped, EnvMoves
  PROVE  EnvTyped'
<1>1. faults' \in 0..MaxFaults
  <2>1. MaxFaults \in Nat /\ faults \in 0..MaxFaults
    BY RoomAssumption DEF EnvTyped
  <2> QED
    BY <2>1 DEF EnvMoves, Fault
<1> QED
  BY <1>1 DEF EnvTyped, EnvMoves

(* Every step is such a step. *)
LEMMA EnvTypeKeeps ==
  ASSUME EnvTyped, [Next]_vars
  PROVE  EnvTyped'
<1> SUFFICES EnvMoves
  BY EnvMovesKeep
<1>1. ASSUME NEW s \in Seats, Join(s) \/ LeaveConsented(s) \/ Drop(s) \/ Reconnect(s) \/ GraceExpires(s)
      PROVE  EnvMoves
  BY <1>1 DEF EnvMoves, Join, LeaveConsented, Drop, Reconnect, GraceExpires, envVars
<1>2. ASSUME NEW s \in Seats, NEW turn, NEW role, NEW dir, SubmitAction(s, turn, role, dir)
      PROVE  EnvMoves
  BY <1>2 DEF EnvMoves, SubmitAction, envVars
<1>3. CASE StartStep
  BY <1>3 DEF EnvMoves, StartStep, DeductReply, ActivateReply, StartAfterDeduction,
     StartAfterActivation, StartFails, AnnounceReply, envVars
<1>4. CASE FinishEventReply \/ StatsReply \/ AbortEventReply \/ KeepReply
  BY <1>4 DEF EnvMoves, FinishEventReply, StatsReply, AbortEventReply, KeepReply, RetryLater, Goes
<1>5. CASE PayReply
  BY <1>5 DEF EnvMoves, PayReply, RetryLater, Goes
<1>6. CASE RefundReply
  BY <1>6 DEF EnvMoves, RefundReply, RetryLater, Goes
<1>7. ASSUME NEW t \in timers,
             \/ ConnectTimer(t) \/ TurnTimer(t) \/ RevealTimer(t) \/ RetryTimer(t) \/ DisconnectTimer(t)
             \/ \E dir \in Directions : BotTimer(t, dir)
      PROVE  EnvMoves
  BY <1>7 DEF EnvMoves, ConnectTimer, TurnTimer, RevealTimer, RetryTimer, DisconnectTimer,
     BotTimer, Dispose, envVars
<1>8. CASE BeforeShutdown \/ Crash \/ RecoverOutcome \/ DeadlinePasses
  BY <1>8 DEF EnvMoves, BeforeShutdown, Crash, RecoverOutcome, DeadlinePasses, Dispose, envVars
<1>9. CASE UNCHANGED vars
  BY <1>9 DEF EnvMoves, vars, envVars
<1> QED
  BY <1>1, <1>2, <1>3, <1>4, <1>5, <1>6, <1>7, <1>8, <1>9
     DEF Next, PlayerStep, SettleStep, TimerStep

-----------------------------------------------------------------------------
(* Every step of the room is one of its tables', and keeps the invariant.  *)

(* Every step of the room leaves the tables alone or is one of their       *)
(* transactions.                                                           *)
LEMMA RoomTables ==
  ASSUME RoomInv, [Next]_vars
  PROVE  TableStep
<1> USE DEF TableStep
<1>1. ASSUME NEW s \in Seats, Join(s) \/ LeaveConsented(s) \/ Drop(s) \/ Reconnect(s) \/ GraceExpires(s)
      PROVE  TableStep
  BY <1>1 DEF Join, LeaveConsented, Drop, Reconnect, GraceExpires
<1>2. ASSUME NEW s \in Seats, NEW turn, NEW role, NEW dir, SubmitAction(s, turn, role, dir)
      PROVE  TableStep
  BY <1>2 DEF SubmitAction
<1>3. CASE StartStep
  BY <1>3, DeductKeeps, ActivateTables
     DEF StartStep, StartAfterDeduction, StartAfterActivation, StartFails, AnnounceReply
<1>4. CASE SettleStep
  BY <1>4, PayTables, KeepTables, RefundKeeps
     DEF SettleStep, FinishEventReply, StatsReply, AbortEventReply
<1>5. ASSUME NEW t \in timers,
             \/ ConnectTimer(t) \/ TurnTimer(t) \/ RevealTimer(t) \/ RetryTimer(t) \/ DisconnectTimer(t)
             \/ \E dir \in Directions : BotTimer(t, dir)
      PROVE  TableStep
  BY <1>5 DEF ConnectTimer, TurnTimer, RevealTimer, RetryTimer, DisconnectTimer, BotTimer, Dispose
<1>6. CASE BeforeShutdown \/ Crash \/ RecoverOutcome \/ DeadlinePasses
  BY <1>6 DEF BeforeShutdown, Crash, RecoverOutcome, DeadlinePasses, Dispose
<1>7. CASE UNCHANGED vars
  BY <1>7 DEF vars
<1> QED
  BY <1>1, <1>2, <1>3, <1>4, <1>5, <1>6, <1>7 DEF Next, PlayerStep, TimerStep

(* Every step of the room keeps the invariant. *)
LEMMA RoomStepKeeps ==
  ASSUME RoomInv, [Next]_vars
  PROVE  RoomInv'
<1>1. Rules' /\ PlayTyped' /\ TimersTyped' /\ EndTyped'
  <2>1. CASE PlayerStep
    BY <2>1, JoinKeeps, GivesUpKeeps, ConnKeeps, SubmitKeeps DEF PlayerStep
  <2>2. CASE StartStep
    BY <2>2, DeductKeeps, ActivateKeeps, StartAfterDeductionKeeps, StartAfterActivationKeeps,
       StartFailsKeeps, AnnounceKeeps DEF StartStep
  <2>3. CASE SettleStep
    BY <2>3, FinishEventKeeps, PayKeeps, KeepKeeps, StatsKeeps, RefundKeeps, AbortEventKeeps
       DEF SettleStep
  <2>4. CASE TimerStep
    BY <2>4, ConnectTimerKeeps, TurnTimerKeeps, RevealTimerKeeps, RetryTimerKeeps,
       DisconnectTimerKeeps, BotTimerKeeps, GivesUpKeeps, DeadlineKeeps DEF TimerStep
  <2>5. CASE BeforeShutdown \/ Crash \/ RecoverOutcome
    BY <2>5, ShutdownKeeps, CrashKeeps, RecoverKeeps
  <2>6. CASE UNCHANGED vars
    <3>1. UNCHANGED <<walletVars, recordVars, phase, turnVars, endVars>> /\ start' = start
      BY <2>6 DEF vars
    <3>2. UNCHANGED <<timers, alive>>
      BY <2>6 DEF vars, envVars
    <3> QED
      BY <3>1, <3>2, QuietKeeps
  <2> QED
    BY <2>1, <2>2, <2>3, <2>4, <2>5, <2>6 DEF Next
<1>2. DB!IInv'
  BY RoomTables, TablesKeep DEF RoomInv
<1>3. ConnTyped' /\ EnvTyped'
  BY InvParts, ConnTypeKeeps, EnvTypeKeeps DEF Local
<1> QED
  BY <1>1, <1>2, <1>3, InvPartsNext DEF Local

-----------------------------------------------------------------------------
(* The state the lobby leaves the room in. *)

(* Each account holds its starting chips, under one entry. *)
LEMMA InitTables ==
  ASSUME Init
  PROVE  DB!IInv
<1>1. PICK wealth \in [Users -> Wealth] :
        /\ balance = wealth
        /\ ledger = [u \in Users |-> <<[key          |-> DB!StartingKey(u),
                                        amount       |-> wealth[u],
                                        balanceAfter |-> wealth[u]]>>]
  BY DEF Init, Users
<1>2. \A u \in Users : wealth[u] \in Nat
  BY <1>1, RoomAssumption
<1>3. \A u \in Users : /\ DOMAIN ledger[u] = {1} /\ Len(ledger[u]) = 1
                       /\ ledger[u][1].key = DB!StartingKey(u)
                       /\ ledger[u][1].amount = wealth[u]
                       /\ ledger[u][1].balanceAfter = wealth[u]
  BY <1>1
<1>4. \A u \in Users : \A k : DB!Holds(u, k) <=> k = DB!StartingKey(u)
  BY <1>3 DEF DB!Holds
<1>5. \A u, v \in Users : \A m :
        /\ DB!StartingKey(u) # DB!EntryKey(m, v) /\ DB!StartingKey(u) # DB!PayoutKey(m)
        /\ DB!StartingKey(u) # DB!RefundKey(m, v)
  BY DEF DB!StartingKey, DB!EntryKey, DB!PayoutKey, DB!RefundKey
<1>6. PICK b \in {UserB, Bot} :
        seats = [m \in {Match} |-> [s \in Seats |-> IF s = "A" THEN UserA ELSE b]]
  BY DEF Init
<1>7. DB!TypeOK
  <2>1. balance \in [Users -> Nat]
    BY <1>1, <1>2
  <2>2. ledger \in [Users -> Seq(DB!LedgerEntry)]
    <3>1. ASSUME NEW u \in Users
          PROVE  [key |-> DB!StartingKey(u), amount |-> wealth[u], balanceAfter |-> wealth[u]]
                   \in DB!LedgerEntry
      <4>1. DB!StartingKey(u) \in DB!Keys
        BY DEF DB!StartingKey, DB!Keys, Users
      <4> QED
        BY <1>2, <4>1 DEF DB!LedgerEntry
    <3> QED
      BY <1>1, <3>1
  <2>3. /\ status \in [{Match} -> DB!Statuses]
        /\ terms \in [{Match} -> [fee : Nat, payout : Nat]]
        /\ refunded \in [{Match} -> BOOLEAN]
        /\ winner \in [{Match} -> Users \cup {Bot}]
    BY RoomAssumption DEF Init, DB!Statuses
  <2>4. seats \in [{Match} -> [DB!Seat -> Users \cup {Bot}]]
    BY <1>6 DEF DB!Seat, Seats, Users
  <2>5. /\ purchase \in [{} -> [status : {"NONE", "PENDING", "COMPLETED"},
                                user : Users \cup {Bot}, chips : Nat]]
        /\ completing \in [{} -> 0..0]
    BY DEF Init
  <2> QED
    BY <2>1, <2>2, <2>3, <2>4, <2>5 DEF DB!TypeOK, Users
<1>8. DB!LedgerExplainsBalance
  BY <1>1, <1>2, <1>3 DEF DB!LedgerExplainsBalance, DB!BalanceAt, Users
<1>9. DB!KeysUnique
  BY <1>3 DEF DB!KeysUnique, DB!StartingKey, Users
<1>10. DB!MatchInv(Match)
  <2>1. /\ status[Match] = "WAITING" /\ refunded[Match] = FALSE /\ winner[Match] = Bot
    BY DEF Init
  <2> QED
    BY <1>4, <1>5, <2>1 DEF DB!MatchInv, Users
<1> QED
  BY <1>7, <1>8, <1>9, <1>10 DEF DB!IInv

(* The invariant holds when the room opens. *)
LEMMA InitInv ==
  ASSUME Init
  PROVE  RoomInv
<1> USE DEF Init
<1>1. PlayTyped
  BY DEF PlayTyped, NoIntents, NoIntent, Phases, Seats
<1>2. TimersTyped /\ EndTyped /\ EnvTyped
  <2>1. TimersTyped
    BY DEF TimersTyped
  <2>2. EndTyped
    BY DEF EndTyped
  <2>3. faults \in 0..MaxFaults
    BY RoomAssumption
  <2>4. EnvTyped
    BY <2>3 DEF EnvTyped
  <2> QED
    BY <2>1, <2>2, <2>4
<1>3. ConnTyped
  BY DEF ConnTyped
<1>4. RowInv
  BY DEF RowInv, Seats
<1>5. StartInv /\ VerdictInv
  <2>1. StartInv
    BY DEF StartInv, IsTerminal
  <2>2. VerdictInv
    BY DEF VerdictInv, IsTerminal, None
  <2> QED
    BY <2>1, <2>2
<1>6. SettledInv
  BY DEF SettledInv
<1>7. TimerInv /\ PendingInv
  BY DEF TimerInv, IsTerminal, PendingInv, NoIntents
<1>8. KickInv
  BY DEF KickInv
<1> QED
  BY <1>1, <1>2, <1>3, <1>4, <1>5, <1>6, <1>7, <1>8, InitTables, InvParts DEF Local, Rules

-----------------------------------------------------------------------------
(* What holds of every room. *)

(* The inductive invariant. *)
THEOREM RoomInvariance == Spec => []RoomInv
BY InitInv, RoomStepKeeps, PTL DEF Spec

(* The timers and intents of the invariant are those of the turn. *)
LEMMA IsolationFollows == RoomInv => TurnsAreIsolated
<1> SUFFICES ASSUME RoomInv PROVE TurnsAreIsolated
  OBVIOUS
<1>1. PendingInv /\ TimerInv /\ Local
  BY InvParts DEF Rules
<1>2. \A t \in timers : t = [kind |-> t.kind, turn |-> t.turn]
  BY <1>1 DEF Local, TimersTyped
<1>3. alive = "open" /\ phase = "REVEALING_RESULT" =>
        {t \in timers : t.kind = "reveal"} = {Timer("reveal")}
  BY <1>1, <1>2 DEF TimerInv, Timer
<1>4. alive = "open" /\ phase = "AWAITING_ACTIONS" =>
        Timer("turn") \in timers /\ \A t \in timers : t.kind \in {"turn", "bot"}
  BY <1>1 DEF TimerInv
<1> QED
  BY <1>1, <1>3, <1>4 DEF TurnsAreIsolated, PendingInv, TimerInv

(* While turns are played the start is done, so the row is ACTIVE, so all  *)
(* have paid.                                                              *)
LEMMA PaidFollows == RoomInv => PlayIsPaidFor
<1> SUFFICES ASSUME RoomInv, phase \in {"AWAITING_ACTIONS", "REVEALING_RESULT"}
             PROVE  status[Match] = "ACTIVE" /\ \A u \in Players : Entered(u)
  BY DEF PlayIsPaidFor
<1>1. StartInv /\ DB!IInv /\ RowInv
  BY DEF RoomInv
<1>2. status[Match] = "ACTIVE"
  BY <1>1 DEF StartInv, IsTerminal
<1>3. DB!Staked(Match)
  BY <1>1, <1>2, RowTyped DEF DB!MatchInv
<1> QED
  BY <1>2, <1>3 DEF DB!Staked, Players, Entered

(* Who holds the prize is the winner of the row, which is the winner of    *)
(* the room.                                                               *)
LEMMA SettlementFollows == RoomInv => SettlementFollowsVerdict
<1> SUFFICES ASSUME RoomInv PROVE SettlementFollowsVerdict
  OBVIOUS
<1>1. SettledInv /\ DB!IInv /\ RowInv /\ VerdictInv /\ EndTyped
  BY InvParts DEF Rules, Local
<1>2. DB!MatchInv(Match) /\ Players \subseteq Users /\ Bot \notin Players
  BY <1>1, RowTyped DEF RowInv, Users, Seats
<1>3. \A u \in Players : DB!Holds(u, DB!PayoutKey(Match)) =>
        phase = "FINISHED" /\ seats[Match][winnerSeat] = u
  BY <1>1, <1>2 DEF DB!MatchInv, SettledInv, Users
<1>4. results # None =>
       /\ phase = "FINISHED" /\ results = winnerSeat /\ status[Match] = "FINISHED"
       /\ IsHuman(results) => winner[Match] = seats[Match][results]
  BY <1>1 DEF SettledInv
<1> QED
  BY <1>1, <1>3, <1>4 DEF SettlementFollowsVerdict, SettledInv

(* What is published is settled in the row, and the row tells what the     *)
(* ledger holds.                                                           *)
LEMMA PublicationFollows == RoomInv => PublishedMeansSettled
<1> SUFFICES ASSUME RoomInv, published PROVE PublishedMeansSettled
  BY DEF PublishedMeansSettled
<1>1. SettledInv /\ DB!IInv /\ RowInv /\ VerdictInv
  BY InvParts DEF Rules
<1>2. DB!MatchInv(Match) /\ Players \subseteq Users /\ terms[Match].fee = Fee /\ Fee \in Nat
  BY <1>1, RowTyped, RoomAssumption DEF RowInv, Users, Seats
<1>3. ASSUME phase = "FINISHED"
      PROVE  /\ status[Match] = "FINISHED" /\ results = winnerSeat
             /\ IsHuman(winnerSeat) => DB!Holds(seats[Match][winnerSeat], DB!PayoutKey(Match))
  <2>1. status[Match] = "FINISHED" /\ results = winnerSeat
    BY <1>1, <1>3 DEF SettledInv, VerdictInv
  <2> QED
    BY <1>1, <2>1 DEF SettledInv, IsHuman
<1>4. ASSUME phase = "ABORTED"
      PROVE  /\ status[Match] = "ABORTED"
             /\ \A u \in Players : Entered(u) /\ Fee > 0 => DB!Holds(u, DB!RefundKey(Match, u))
  <2>1. status[Match] = "ABORTED"
    BY <1>1, <1>4 DEF SettledInv
  <2>2. ASSUME NEW u \in Players, Entered(u), Fee > 0
        PROVE  DB!Holds(u, DB!RefundKey(Match, u))
    <3>1. DB!AmountOf(u, DB!EntryKey(Match, u)) = -Fee /\ u \in Users
      BY <1>2, <2>2 DEF DB!MatchInv, Users, Entered
    <3>2. DB!AmountOf(u, DB!EntryKey(Match, u)) < 0
      BY <1>2, <2>2, <3>1
    <3> QED
      BY <1>2, <2>1, <2>2, <3>1, <3>2 DEF DB!MatchInv, Users, Entered
  <2> QED
    BY <2>1, <2>2
<1> QED
  BY <1>3, <1>4 DEF PublishedMeansSettled

(* A room keeps its types. *)
THEOREM RoomTypes == Spec => []TypeOK
<1>1. RoomInv => TypeOK
  BY DEF RoomInv
<1> QED
  BY <1>1, RoomInvariance, PTL

(* No late callback, command or bot's timer acts on a turn that is over.   *)
THEOREM IsolationTheorem == Spec => []TurnsAreIsolated
BY RoomInvariance, IsolationFollows, PTL

(* No turn is played for free, nor after a cancellation. *)
THEOREM PaidPlayTheorem == Spec => []PlayIsPaidFor
BY RoomInvariance, PaidFollows, PTL

(* Prize, statistics and row all follow the verdict of the room. *)
THEOREM SettlementTheorem == Spec => []SettlementFollowsVerdict
BY RoomInvariance, SettlementFollows, PTL

(* What is announced has happened. *)
THEOREM PublicationTheorem == Spec => []PublishedMeansSettled
BY RoomInvariance, PublicationFollows, PTL

(* Every step of the room is a step of the wallet tables. *)
THEOREM WalletStepsTheorem == Spec => ImplementsWallet
<1>1. RoomInv /\ [Next]_vars => [DB!Next]_walletVars
  BY RoomTables, TableStepIsNext
<1> QED
  BY <1>1, RoomInvariance, PTL DEF Spec, ImplementsWallet

(* A forfeit is decided by one who leaves for one who is there. *)
LEMMA ForfeitStep ==
  ASSUME RoomInv, [Next]_vars, finishReason' = "FORFEIT", finishReason = None
  PROVE  /\ conn'[winnerSeat'] \in {"online", "bot"}
         /\ conn'[OppositeSeat(winnerSeat')] = "gone"
<1>1. conn \in [Seats -> {"away", "online", "grace", "gone", "bot"}] /\ "FORFEIT" # None
  BY InvParts DEF Local, ConnTyped, None
<1>2. ASSUME NEW s \in Seats, Depart(s), conn' = [conn EXCEPT ![s] = "gone"]
      PROVE  /\ conn'[winnerSeat'] \in {"online", "bot"}
             /\ conn'[OppositeSeat(winnerSeat')] = "gone"
  <2>1. /\ OppositeSeat(s) \in Seats /\ OppositeSeat(OppositeSeat(s)) = s
        /\ OppositeSeat(s) # s
    BY DEF OppositeSeat, Seats
  <2>2. Connected(OppositeSeat(s)) /\ winnerSeat' = OppositeSeat(s)
    BY <1>1, <1>2 DEF Depart, Finish, Abort, endVars
  <2> QED
    BY <1>1, <1>2, <2>1, <2>2 DEF Connected
<1>3. finishReason' = finishReason => FALSE
  BY <1>1
<1>4. ASSUME NEW s \in Seats,
             \/ Join(s) \/ LeaveConsented(s) \/ Drop(s) \/ Reconnect(s) \/ GraceExpires(s)
             \/ \E turn, role, dir : SubmitAction(s, turn, role, dir)
      PROVE  Depart(s) /\ conn' = [conn EXCEPT ![s] = "gone"]
  BY <1>3, <1>4 DEF Join, LeaveConsented, Drop, Reconnect, GraceExpires, SubmitAction, endVars
<1>5. ASSUME NEW t \in timers,
             \/ ConnectTimer(t) \/ TurnTimer(t) \/ RevealTimer(t) \/ RetryTimer(t) \/ DisconnectTimer(t)
             \/ \E dir \in Directions : BotTimer(t, dir)
      PROVE  FALSE
  BY <1>3, <1>5 DEF ConnectTimer, TurnTimer, RevealTimer, RetryTimer, DisconnectTimer, BotTimer,
                    Dispose, Finish, Abort, endVars
<1>6. ~StartStep /\ ~SettleStep
  BY <1>3 DEF StartStep, DeductReply, ActivateReply, StartAfterDeduction, StartAfterActivation,
     StartFails, AnnounceReply, AbortUnlessTerminal, Abort, SettleStep, FinishEventReply,
     PayReply, KeepReply, StatsReply, RefundReply, AbortEventReply, unsettledVars, endVars
<1>7. ~BeforeShutdown /\ ~Crash /\ ~RecoverOutcome /\ ~DeadlinePasses
  BY <1>3 DEF BeforeShutdown, Crash, RecoverOutcome, DeadlinePasses, Dispose, Abort, endVars
<1>8. ~UNCHANGED vars
  BY <1>3 DEF vars, endVars
<1> QED
  BY <1>2, <1>4, <1>5, <1>6, <1>7, <1>8 DEF Next, PlayerStep, TimerStep

(* A duel is forfeited only to a player who is there, by one who is not.   *)
THEOREM ForfeitTheorem == Spec => ForfeitToConnected
<1>1. RoomInv /\ [Next]_vars =>
        [finishReason' = "FORFEIT" /\ finishReason = None =>
           /\ conn'[winnerSeat'] \in {"online", "bot"}
           /\ conn'[OppositeSeat(winnerSeat')] = "gone"]_vars
  BY ForfeitStep
<1> QED
  BY <1>1, RoomInvariance, PTL DEF Spec, ForfeitToConnected

-----------------------------------------------------------------------------
(* The room plays a shoot-out. *)

Opener == IF \A s \in Seats : kicksTaken[s] = 0 THEN "none" ELSE firstKicker

(* The sides of the shoot-out are the seats. *)
LEMMA DuelSides ==
  /\ Duel!Sides = Seats
  /\ \A s \in Seats : Duel!Other(s) = OppositeSeat(s) /\ OppositeSeat(s) \in Seats
  /\ \A s \in Seats : OppositeSeat(OppositeSeat(s)) = s /\ OppositeSeat(s) # s
BY DEF Duel!Sides, Seats, Duel!Other, OppositeSeat

(* The rest of the room is not part of it. *)
LEMMA DuelRests ==
  ASSUME UNCHANGED <<kicksTaken, score, winnerSeat, finishReason>>, Opener' = Opener
  PROVE  UNCHANGED Duel!vars
BY DEF Duel!vars, Opener

(* A duel without a verdict is open. *)
LEMMA DuelOpen ==
  ASSUME RoomInv, ~IsTerminal
  PROVE  [winner |-> winnerSeat, reason |-> finishReason] = Duel!Open
<1>1. VerdictInv /\ EndTyped
  BY InvParts DEF Rules, Local
<1>2. winnerSeat = "none" /\ finishReason = "none"
  BY <1>1 DEF VerdictInv, IsTerminal, None
<1> QED
  BY <1>2 DEF Duel!Open

(* An abort calls the duel off. *)
LEMMA AbortCallsOff ==
  ASSUME RoomInv, ~IsTerminal, Abort, UNCHANGED turnVars
  PROVE  Duel!CallOff
<1>1. winnerSeat = "none" /\ winnerSeat' = winnerSeat /\ finishReason' = "ABORT"
  BY DEF RoomInv, VerdictInv, Abort, IsTerminal, None
<1>2. Opener' = Opener /\ UNCHANGED <<kicksTaken, score>>
  BY DEF turnVars, Opener
<1> QED
  BY <1>1, <1>2, DuelOpen DEF Duel!CallOff, Opener

(* A forfeit is a forfeit of the seat that left. *)
LEMMA ForfeitForfeits ==
  ASSUME RoomInv, ~IsTerminal, NEW s \in Seats, Finish(OppositeSeat(s), "FORFEIT"),
         UNCHANGED turnVars
  PROVE  Duel!Forfeit(s)
<1>1. winnerSeat' = Duel!Other(s) /\ finishReason' = "FORFEIT"
  BY DuelSides DEF Finish
<1>2. Opener' = Opener /\ UNCHANGED <<kicksTaken, score>>
  BY DEF turnVars, Opener
<1> QED
  BY <1>1, <1>2, DuelOpen DEF Duel!Forfeit, Opener

(* A resolved turn is a kick of the side whose turn it is. *)
LEMMA ResolveKicks ==
  ASSUME RoomInv, phase = "AWAITING_ACTIONS", Resolves, UNCHANGED <<winnerSeat, finishReason>>
  PROVE  \E s \in Duel!Sides : Duel!Kick(s)
<1>1. PlayTyped /\ KickInv
  BY InvParts DEF Rules, Local
<1>2. PICK kicker : kicker = KickerOf(firstKicker, sequence)
  OBVIOUS
<1>3. PICK outcome :
        /\ score' = TurnScore(score, kicker, outcome)
        /\ kicksTaken' = [kicksTaken EXCEPT ![kicker] = @ + 1]
        /\ firstKicker' = firstKicker
  BY <1>2 DEF Resolves, ResolveTurn
<1>4. PICK kf, ko : kf = kicksTaken[firstKicker] /\ ko = kicksTaken[OppositeSeat(firstKicker)]
  OBVIOUS
<1>5. /\ firstKicker \in Seats /\ OppositeSeat(firstKicker) \in Seats
      /\ OppositeSeat(firstKicker) # firstKicker
      /\ Seats = {firstKicker, OppositeSeat(firstKicker)} /\ Seats = {"A", "B"}
      /\ firstKicker # "none"
  BY <1>1 DEF PlayTyped, Seats, OppositeSeat
<1>6. kf \in Nat /\ ko \in Nat /\ sequence \in Nat /\ RegulationKicks \in Nat
  BY <1>1, <1>4, <1>5, RegulationAssumption DEF PlayTyped
<1>7. sequence > 0 /\ kf + ko = sequence - 1 /\ kf \in {ko, ko + 1}
  BY <1>1, <1>4 DEF KickInv, InTurn
<1>8. IF sequence % 2 = 1 THEN kf = ko ELSE kf = ko + 1
  BY <1>6, <1>7, Parity
<1>9. ~Duel!Decided
  <2>1. SUFFICES ASSUME kicksTaken["A"] = kicksTaken["B"], kicksTaken["A"] >= RegulationKicks,
                        score["A"] # score["B"]
                 PROVE  FALSE
    BY DEF Duel!Decided, Duel!EvenKicks
  <2>2. BothTook(kicksTaken, RegulationKicks)
    BY <1>5, <2>1 DEF BothTook
  <2> QED
    BY <1>1, <2>1, <2>2 DEF KickInv
<1>10. score' \in {score, [score EXCEPT ![kicker] = @ + 1]}
  BY <1>3 DEF TurnScore
<1>11. Duel!EvenKicks <=> kf = ko
  BY <1>4, <1>5 DEF Duel!EvenKicks
<1>12. (\A s \in Seats : kicksTaken[s] = 0) <=> kf = 0 /\ ko = 0
  BY <1>4, <1>5
<1>13. kicker \in Seats /\ kicksTaken'[kicker] # 0
  <2>1. kicker \in Seats
    BY <1>2, <1>5 DEF KickerOf
  <2>2. kicksTaken[kicker] \in Nat /\ kicksTaken'[kicker] = kicksTaken[kicker] + 1
    BY <1>1, <1>3, <2>1 DEF PlayTyped
  <2> QED
    BY <2>1, <2>2
<1>14. Opener' = firstKicker
  BY <1>3, <1>13 DEF Opener
<1>15. /\ IF Duel!EvenKicks THEN Opener \in {kicker, "none"} ELSE Opener = OppositeSeat(kicker)
       /\ firstKicker = IF Opener = "none" THEN kicker ELSE Opener
  <2>1. CASE sequence % 2 = 1
    <3>1. kicker = firstKicker /\ kf = ko
      BY <1>2, <1>8, <2>1 DEF KickerOf
    <3> QED
      BY <1>5, <1>11, <3>1 DEF Opener
  <2>2. CASE sequence % 2 # 1
    <3>1. kicker = OppositeSeat(firstKicker) /\ kf = ko + 1
      BY <1>2, <1>8, <2>2 DEF KickerOf
    <3>2. ~(kf = ko) /\ ~(kf = 0 /\ ko = 0)
      BY <1>6, <3>1
    <3>3. Opener = firstKicker
      BY <1>12, <3>2 DEF Opener
    <3> QED
      BY <1>5, <1>11, <3>1, <3>2, <3>3, DuelSides
  <2> QED
    BY <2>1, <2>2
<1>16. Duel!Kick(kicker)
  BY <1>3, <1>9, <1>10, <1>13, <1>14, <1>15, DuelOpen, DuelSides
     DEF Duel!Kick, Opener, IsTerminal
<1> QED
  BY <1>13, <1>16, DuelSides

(* A duel that is over on the pitch is won by the side that leads. *)
LEMMA RevealWins ==
  ASSUME RoomInv, NEW t \in timers, RevealTimer(t), Decision = "FINISHED"
  PROVE  \E s \in Duel!Sides : Duel!Win(s)
<1>1. PlayTyped /\ KickInv
  BY InvParts DEF Rules, Local
<1>2. /\ phase = "REVEALING_RESULT"
      /\ Finish(Leader(score), IF inSuddenDeath THEN "SUDDEN_DEATH" ELSE "REGULATION")
      /\ UNCHANGED turnVars
  BY DEF RevealTimer
<1>3. PICK s \in Seats : s = Leader(score)
  BY LeaderIsSeat
<1>4. PICK kf, ko : kf = kicksTaken[firstKicker] /\ ko = kicksTaken[OppositeSeat(firstKicker)]
  OBVIOUS
<1>5. /\ firstKicker \in Seats /\ OppositeSeat(firstKicker) \in Seats
      /\ Seats = {firstKicker, OppositeSeat(firstKicker)} /\ Seats = {"A", "B"}
  BY <1>1 DEF PlayTyped, Seats, OppositeSeat
<1>6. /\ kf \in Nat /\ ko \in Nat /\ RegulationKicks \in Nat /\ suddenDeathPair \in Nat
      /\ score["A"] \in Nat /\ score["B"] \in Nat
  BY <1>1, <1>4, <1>5, RegulationAssumption DEF PlayTyped
<1>7. PICK n \in Nat : n = IF inSuddenDeath THEN RegulationKicks + suddenDeathPair ELSE RegulationKicks
  BY <1>6
<1>8. BothTook(kicksTaken, n) /\ score["A"] # score["B"]
  BY <1>7 DEF Decision, DecideMatchProgress
<1>9. kf = n /\ ko = n /\ (inSuddenDeath => suddenDeathPair > 0)
  <2>1. kf >= n /\ ko >= n
    BY <1>4, <1>5, <1>8 DEF BothTook
  <2>2. kf \in {ko, ko + 1} /\ kf <= n /\ (inSuddenDeath => suddenDeathPair > 0)
    BY <1>1, <1>2, <1>4, <1>7 DEF KickInv, InTurn
  <2> QED
    BY <1>6, <2>1, <2>2
<1>10. kicksTaken["A"] = n /\ kicksTaken["B"] = n /\ n >= RegulationKicks
  <2>1. \A side \in Seats : kicksTaken[side] = n
    BY <1>4, <1>5, <1>9
  <2>2. n >= RegulationKicks
    BY <1>6, <1>7
  <2> QED
    BY <1>5, <2>1, <2>2
<1>11. Duel!Decided
  BY <1>8, <1>10 DEF Duel!Decided, Duel!EvenKicks
<1>12. score[s] > score[OppositeSeat(s)]
  BY <1>3, <1>6, <1>8 DEF Leader, OppositeSeat, Seats
<1>13. (kicksTaken[s] = RegulationKicks) <=> ~inSuddenDeath
  <2>1. kicksTaken[s] = n
    BY <1>3, <1>5, <1>10
  <2> QED
    BY <1>6, <1>7, <1>9, <2>1
<1>14. /\ winnerSeat' = s
       /\ finishReason' = IF kicksTaken[s] = RegulationKicks THEN "REGULATION" ELSE "SUDDEN_DEATH"
  BY <1>2, <1>3, <1>13 DEF Finish
<1>15. Opener' = Opener /\ UNCHANGED <<kicksTaken, score>>
  BY <1>2 DEF turnVars, Opener
<1>16. Duel!Win(s)
  BY <1>2, <1>11, <1>12, <1>14, <1>15, DuelOpen, DuelSides DEF Duel!Win, Opener, IsTerminal
<1> QED
  BY <1>3, <1>16, DuelSides

(* A step that leaves the kicks and the verdict alone. *)
LEMMA DuelIdles ==
  ASSUME UNCHANGED <<turnVars, endVars>> \/
         UNCHANGED <<firstKicker, kicksTaken, score, winnerSeat, finishReason>>
  PROVE  UNCHANGED Duel!vars
<1>1. UNCHANGED <<firstKicker, kicksTaken, score, winnerSeat, finishReason>>
  BY DEF turnVars, endVars
<1> QED
  BY <1>1, DuelRests DEF Opener

(* Every step of the room is a step of the shoot-out or none. *)
LEMMA DuelStep ==
  ASSUME RoomInv, [Next]_vars
  PROVE  [Duel!Next]_(Duel!vars)
<1> DEFINE Moves == [Duel!Next]_(Duel!vars)
<1> HIDE DEF Moves
<1>1. ASSUME Abort, ~IsTerminal, UNCHANGED turnVars PROVE Moves
  BY <1>1, AbortCallsOff DEF Moves, Duel!Next
<1>2. ASSUME NEW s \in Seats, Depart(s), UNCHANGED turnVars PROVE Moves
  <2>1. CASE UNCHANGED <<phase, timers, endVars>>
    BY <1>2, <2>1, DuelIdles DEF Moves
  <2>2. CASE Abort /\ ~IsTerminal
    BY <1>1, <1>2, <2>2
  <2>3. CASE Finish(OppositeSeat(s), "FORFEIT") /\ ~IsTerminal
    <3>1. s \in Duel!Sides /\ Duel!Forfeit(s)
      BY <1>2, <2>3, ForfeitForfeits, DuelSides
    <3> QED
      BY <3>1 DEF Moves, Duel!Next
  <2> QED
    BY <1>2, <2>1, <2>2, <2>3 DEF Depart, IsTerminal
<1>3. ASSUME UNCHANGED <<winnerSeat, finishReason>>, phase = "AWAITING_ACTIONS", Resolves PROVE Moves
  BY <1>3, ResolveKicks DEF Moves, Duel!Next
<1>4. ASSUME UNCHANGED <<firstKicker, kicksTaken, score, winnerSeat, finishReason>> PROVE Moves
  BY <1>4, DuelIdles DEF Moves
<1>5. ASSUME UNCHANGED <<turnVars, endVars>> PROVE Moves
  BY <1>5, DuelIdles DEF Moves
<1>6. CASE PlayerStep
  <2>1. ASSUME NEW s \in Seats, Join(s) \/ Drop(s) \/ Reconnect(s) PROVE Moves
    BY <1>5, <2>1 DEF Join, Drop, Reconnect
  <2>2. ASSUME NEW s \in Seats, LeaveConsented(s) PROVE Moves
    BY <1>2, <2>2 DEF LeaveConsented
  <2>3. ASSUME NEW s \in Seats, NEW turn, NEW role \in Roles, NEW dir \in Directions,
               SubmitAction(s, turn, role, dir)
        PROVE  Moves
    <3>1. /\ alive = "open" /\ phase = "AWAITING_ACTIONS"
          /\ UNCHANGED <<winnerSeat, finishReason>>
          /\ ResolveTurn(pending, timers) \/ Lock(role, [dir |-> dir, turn |-> sequence], timers)
      BY <2>3 DEF SubmitAction, endVars
    <3>2. Resolves \/ Locks
      BY <3>1, OfThisTurn, LockPlays, ResolveNow
    <3> QED
      BY <1>3, <1>4, <3>1, <3>2 DEF Locks
  <2> QED
    BY <1>6, <2>1, <2>2, <2>3 DEF PlayerStep, Moves
<1>7. CASE StartStep
  <2>1. CASE DeductReply \/ ActivateReply \/ StartAfterDeduction
    BY <1>5, <2>1 DEF DeductReply, ActivateReply, StartAfterDeduction, Moves
  <2>2. CASE StartAfterActivation
    <3>1. /\ start = "activated" /\ UNCHANGED <<kicksTaken, score, winnerSeat, finishReason>>
          /\ firstKicker' = firstKicker \/ ~IsTerminal
      BY <2>2 DEF StartAfterActivation, endVars
    <3>2. ~IsTerminal => \A s \in Seats : kicksTaken[s] = 0
      BY <3>1, InvParts DEF Rules, StartInv, KickInv, IsTerminal, Local, PlayTyped, Phases
    <3>3. Opener' = Opener
      BY <3>1, <3>2 DEF Opener
    <3> QED
      BY <3>1, <3>3, DuelRests
  <2>3. CASE StartFails
    BY <1>1, <1>5, <2>3 DEF StartFails, AbortUnlessTerminal, Moves
  <2>4. CASE AnnounceReply
    <3>1. \/ UNCHANGED <<turnVars, endVars>>
          \/ UNCHANGED <<firstKicker, kicksTaken, score, endVars>>
          \/ Abort /\ ~IsTerminal /\ UNCHANGED turnVars
      BY <2>4 DEF AnnounceReply, AbortUnlessTerminal
    <3> QED
      BY <1>1, <1>4, <1>5, <3>1 DEF endVars, Moves
  <2> QED
    BY <1>7, <2>1, <2>2, <2>3, <2>4 DEF StartStep
<1>8. CASE SettleStep
  <2>1. UNCHANGED <<turnVars, winnerSeat, finishReason>>
    BY <1>8 DEF SettleStep, FinishEventReply, PayReply, KeepReply, StatsReply, RefundReply,
                AbortEventReply, unsettledVars
  <2> QED
    BY <1>4, <2>1 DEF turnVars, Moves
<1>9. CASE TimerStep
  <2>1. ASSUME NEW t \in timers, ConnectTimer(t) PROVE Moves
    BY <1>1, <2>1 DEF ConnectTimer, IsTerminal
  <2>2. ASSUME NEW t \in timers, TurnTimer(t) PROVE Moves
    <3>1. /\ UNCHANGED <<winnerSeat, finishReason>>
          /\ \/ phase = "AWAITING_ACTIONS" /\ ResolveTurn(pending, timers \ {t})
             \/ UNCHANGED turnVars
      BY <2>2 DEF TurnTimer, endVars
    <3> QED
      BY <1>3, <1>4, <3>1, ResolveNow DEF turnVars
  <2>3. ASSUME NEW t \in timers, RevealTimer(t) PROVE Moves
    <3>1. CASE Decision = "FINISHED"
      BY <2>3, <3>1, RevealWins DEF Moves, Duel!Next
    <3>2. CASE Decision # "FINISHED"
      BY <1>4, <2>3, <3>2 DEF RevealTimer, endVars
    <3> QED
      BY <3>1, <3>2
  <2>4. ASSUME NEW t \in timers, RetryTimer(t) \/ DisconnectTimer(t) PROVE Moves
    <3>1. UNCHANGED <<turnVars, winnerSeat, finishReason>>
      BY <2>4 DEF RetryTimer, DisconnectTimer, Dispose, endVars
    <3> QED
      BY <1>4, <3>1 DEF turnVars
  <2>5. ASSUME NEW t \in timers, NEW dir \in Directions, BotTimer(t, dir) PROVE Moves
    <3>1. PICK role : role = RoleOf("B", firstKicker, t.turn)
      OBVIOUS
    <3>2. role \in Roles
      BY <3>1 DEF RoleOf, Roles
    <3>3. /\ t.kind = "bot" /\ t.turn = sequence /\ alive = "open"
          /\ UNCHANGED <<winnerSeat, finishReason>>
          /\ \/ UNCHANGED turnVars
             \/ phase = "AWAITING_ACTIONS" /\ ResolveTurn(pending, timers \ {t})
             \/ phase = "AWAITING_ACTIONS" /\ Lock(role, [dir |-> dir, turn |-> t.turn], timers \ {t})
      BY <2>5, <3>1, OfThisTurn DEF BotTimer, endVars
    <3>4. CASE UNCHANGED turnVars
      BY <1>4, <3>3, <3>4 DEF turnVars
    <3>5. CASE phase = "AWAITING_ACTIONS" /\ ResolveTurn(pending, timers \ {t})
      BY <1>3, <3>3, <3>5, ResolveNow
    <3>6. CASE phase = "AWAITING_ACTIONS" /\ Lock(role, [dir |-> dir, turn |-> t.turn], timers \ {t})
      <4>1. Timer("turn") \in timers \ {t}
        BY <3>3, <3>6, OfThisTurn DEF Timer
      <4>2. Resolves \/ Locks
        BY <3>2, <3>3, <3>6, <4>1, LockPlays
      <4> QED
        BY <1>3, <1>4, <3>3, <3>6, <4>2 DEF Locks
    <3> QED
      BY <3>3, <3>4, <3>5, <3>6
  <2>6. ASSUME NEW s \in Seats, GraceExpires(s) PROVE Moves
    BY <1>2, <2>6 DEF GraceExpires
  <2>7. CASE DeadlinePasses
    BY <1>4, <2>7 DEF DeadlinePasses, endVars, Moves
  <2> QED
    BY <1>9, <2>1, <2>2, <2>3, <2>4, <2>5, <2>6, <2>7 DEF TimerStep, Moves
<1>10. CASE BeforeShutdown
  BY <1>1, <1>5, <1>10 DEF BeforeShutdown, Dispose, Moves
<1>11. CASE Crash \/ RecoverOutcome \/ UNCHANGED vars
  BY <1>5, <1>11 DEF Crash, RecoverOutcome, vars, Moves
<1> QED
  BY <1>6, <1>7, <1>8, <1>9, <1>10, <1>11 DEF Next

(* The room implements the rules of the game. *)
THEOREM ShootoutTheorem == Spec => ImplementsShootout
<1>1. Init => Duel!Init
  BY DuelSides DEF Init, Duel!Init, Duel!Open, None
<1>2. RoomInv /\ [Next]_vars => [Duel!Next]_(Duel!vars)
  BY DuelStep
<1> QED
  BY <1>1, <1>2, RoomInvariance, PTL DEF Spec, ImplementsShootout, Duel!Spec

=============================================================================
