------------------------------- MODULE Wallet -------------------------------
(***************************************************************************)
(* The money of the platform: packages/domain/src/wallet.ts over the       *)
(* tables Wallet, WalletLedgerEntry, Match, MatchPlayer and Purchase.      *)
(*                                                                         *)
(* One action is one committed database transaction.  A transaction that   *)
(* throws leaves the tables as they were, so a refusal is the action being *)
(* disabled; callers that react to a refusal test the Can... predicates.   *)
(* Locking (SELECT ... FOR UPDATE on the match and wallet rows) is what    *)
(* makes a whole transaction one step here.                                *)
(*                                                                         *)
(* The callers are as general as the functions allow: any number of        *)
(* matches and users, calls repeated and in any order.  What a room does   *)
(* with these functions is in PenaltyRoom and RpsRoom.                     *)
(***************************************************************************)
EXTENDS Integers, Sequences, FiniteSets

CONSTANTS
  Users,         \* user ids
  Matches,       \* match ids
  Purchases,     \* purchase ids
  Commands,      \* (actor, commandId) pairs of the admin adjustment endpoint
  Bot,           \* occupant of a seat that is not a human; also "no winner"
  Economies,     \* the [fee, payout] pairs a match can be created with
  StartingChips, \* chips given to a new player
  Adjustments,   \* amounts an administrator may add (negative: remove)
  Packs,         \* chip amounts of purchases
  MaxCompleters  \* bound: concurrent completePurchase calls per purchase

ASSUME WalletAssumption ==
  /\ Bot \notin Users
  /\ Economies \subseteq [fee : Nat, payout : Nat]
  /\ StartingChips \in Nat
  /\ Adjustments \subseteq Int
  /\ Packs \subseteq Nat
  /\ MaxCompleters \in Nat

VARIABLES
  balance,    \* Wallet.balance (0 for a wallet not created yet)
  ledger,     \* WalletLedgerEntry rows of each wallet, oldest first
  status,     \* Match.status ("NONE": no such row)
  terms,      \* Match.entryFee and Match.winnerPayout
  seats,      \* MatchPlayer.userId by slot, Bot for kind = 'BOT'
  refunded,   \* Match.abortRefundKey is set
  winner,     \* MatchPlayer named by Match.winnerPlayerId, Bot when null
  purchase,   \* Purchase rows
  completing  \* completePurchase calls past their status check

moneyVars    == <<balance, ledger>>
matchVars    == <<status, terms, seats, refunded, winner>>
purchaseVars == <<purchase, completing>>
vars         == <<moneyVars, matchVars, purchaseVars>>

Seat      == {"A", "B"}
Statuses  == {"NONE", "WAITING", "ACTIVE", "FINISHED", "ABORTED"}
Terminal  == {"FINISHED", "ABORTED"}
Humans(m) == {seats[m][s] : s \in Seat} \ {Bot}

-----------------------------------------------------------------------------
(* Idempotency keys.  The column is unique over the whole table.  The kind *)
(* of a key stands for its prefix, and determines the type, matchId and    *)
(* purchaseId that mutateWallet compares: every caller uses one prefix     *)
(* with one type.                                                          *)

StartingKey(u)  == [kind |-> "starting", ref |-> u, user |-> u]
EntryKey(m, u)  == [kind |-> "entry",    ref |-> m, user |-> u]
PayoutKey(m)    == [kind |-> "payout",   ref |-> m, user |-> Bot]
RefundKey(m, u) == [kind |-> "abort",    ref |-> m, user |-> u]
PurchaseKey(p)  == [kind |-> "purchase", ref |-> p, user |-> Bot]
AdminKey(c)     == [kind |-> "admin",    ref |-> c, user |-> Bot]

Keys == [kind : {"starting", "entry", "payout", "abort", "purchase", "admin"},
         ref  : Users \cup Matches \cup Purchases \cup Commands,
         user : Users \cup {Bot}]

LedgerEntry == [key : Keys, amount : Int, balanceAfter : Nat]

(* Wallet u holds an entry under key k. *)
Holds(u, k) == \E i \in DOMAIN ledger[u] : ledger[u][i].key = k

Recorded(k) == \E u \in Users : Holds(u, k)

(* The amount recorded in wallet u under key k. *)
AmountOf(u, k) ==
  ledger[u][CHOOSE i \in DOMAIN ledger[u] : ledger[u][i].key = k].amount

-----------------------------------------------------------------------------
(* A mutation is [key, amount]; a transaction makes at most one per user.  *)

Mutation(k, n) == [key |-> k, amount |-> n]

(* Seeded bug: the overdraft check is missing. *)
AcceptsOverdraft(muts) ==
  \A u \in DOMAIN muts :
     Recorded(muts[u].key) =>
        Holds(u, muts[u].key) /\ AmountOf(u, muts[u].key) = muts[u].amount

(* mutateWallet neither finds the key on another mutation nor overdraws. *)
Accepts(muts) ==
  \A u \in DOMAIN muts :
     IF Recorded(muts[u].key)
     THEN Holds(u, muts[u].key) /\ AmountOf(u, muts[u].key) = muts[u].amount
     ELSE balance[u] + muts[u].amount >= 0

(* Seeded bug: a duplicate writes no entry but still updates the balance. *)
MutateWalletsLateReturn(muts) ==
  LET fresh == {u \in DOMAIN muts : ~Recorded(muts[u].key)}
      after(u) == balance[u] + muts[u].amount
  IN  /\ balance' = [u \in Users |-> IF u \in DOMAIN muts THEN after(u) ELSE balance[u]]
      /\ ledger' = [u \in Users |->
           IF u \in fresh
           THEN Append(ledger[u], [key          |-> muts[u].key,
                                   amount       |-> muts[u].amount,
                                   balanceAfter |-> after(u)])
           ELSE ledger[u]]

(* The effect of mutateWallet for each user of muts: a recorded key is a   *)
(* duplicate and changes nothing.                                          *)
MutateWallets(muts) ==
  LET fresh == {u \in DOMAIN muts : ~Recorded(muts[u].key)}
      after(u) == balance[u] + muts[u].amount
  IN  /\ balance' = [u \in Users |-> IF u \in fresh THEN after(u) ELSE balance[u]]
      /\ ledger' = [u \in Users |->
           IF u \in fresh
           THEN Append(ledger[u], [key          |-> muts[u].key,
                                   amount       |-> muts[u].amount,
                                   balanceAfter |-> after(u)])
           ELSE ledger[u]]

One(u, k, n) == [v \in {u} |-> Mutation(k, n)]

-----------------------------------------------------------------------------
(* Accounts. *)

ProvisionPlayer(u) ==
  LET grant == One(u, StartingKey(u), StartingChips)
  IN  /\ Accepts(grant)
      /\ MutateWallets(grant)
      /\ UNCHANGED <<matchVars, purchaseVars>>

AdminAdjustment(c, u, n) ==
  /\ Accepts(One(u, AdminKey(c), n))
  /\ MutateWallets(One(u, AdminKey(c), n))
  /\ UNCHANGED <<matchVars, purchaseVars>>

-----------------------------------------------------------------------------
(* Matches. *)

CreateMatchRecord(m, occupants, economy) ==
  /\ status[m] = "NONE"
  /\ status' = [status EXCEPT ![m] = "WAITING"]
  /\ terms'  = [terms EXCEPT ![m] = economy]
  /\ seats'  = [seats EXCEPT ![m] = occupants]
  /\ UNCHANGED <<moneyVars, refunded, winner, purchaseVars>>

EntryDebits(m) == [u \in Humans(m) |-> Mutation(EntryKey(m, u), -terms[m].fee)]

(* Seeded bug: the status of the match is not read under its lock. *)
CanDeductEntryFeesLate(m, fee) ==
  /\ status[m] # "NONE"
  /\ fee = terms[m].fee
  /\ Accepts(EntryDebits(m))

CanDeductEntryFees(m, fee) ==
  /\ status[m] = "WAITING"
  /\ fee = terms[m].fee
  /\ Accepts(EntryDebits(m))

DeductEntryFees(m, fee) ==
  /\ CanDeductEntryFees(m, fee)
  /\ MutateWallets(EntryDebits(m))
  /\ UNCHANGED <<matchVars, purchaseVars>>

Staked(m) == \A u \in Humans(m) : Holds(u, EntryKey(m, u))

(* The rooms reach this update only after their deductEntryFees committed. *)
ActivateMatch(m) ==
  /\ status[m] = "WAITING"
  /\ Staked(m)
  /\ status' = [status EXCEPT ![m] = "ACTIVE"]
  /\ UNCHANGED <<moneyVars, terms, seats, refunded, winner, purchaseVars>>

CanFinalizeMatchPayout(m, w, payout) ==
  /\ status[m] = "ACTIVE"
  /\ payout = terms[m].payout
  /\ w \in Humans(m)
  /\ Accepts(One(w, PayoutKey(m), payout))

FinalizeMatchPayout(m, w, payout) ==
  /\ CanFinalizeMatchPayout(m, w, payout)
  /\ MutateWallets(One(w, PayoutKey(m), payout))
  /\ status' = [status EXCEPT ![m] = "FINISHED"]
  /\ winner' = [winner EXCEPT ![m] = w]
  /\ UNCHANGED <<terms, seats, refunded, purchaseVars>>

(* A bot won: the stakes, if they were taken, stay with the house.  The    *)
(* update itself has no guard; the rooms never reach it after another      *)
(* settlement (PenaltyRoom checks that), but do before the activation.     *)
FinishBotWin(m) ==
  /\ status[m] \in {"WAITING", "ACTIVE"}
  /\ \E s \in Seat : seats[m][s] = Bot
  /\ status' = [status EXCEPT ![m] = "FINISHED"]
  /\ UNCHANGED <<moneyVars, terms, seats, refunded, winner, purchaseVars>>

(* Only an actual debit of this player for this match is returned. *)
Debited(m) ==
  {u \in Humans(m) : Holds(u, EntryKey(m, u)) /\ AmountOf(u, EntryKey(m, u)) < 0}

(* Seeded bug: every player is credited, debited or not. *)
RefundCreditsBlindly(m) ==
  [u \in Humans(m) |-> Mutation(RefundKey(m, u), terms[m].fee)]

(* Seeded bug: the refund pays out the prize. *)
RefundCreditsOfPrize(m) ==
  [u \in Debited(m) |-> Mutation(RefundKey(m, u), terms[m].payout)]

RefundCredits(m) ==
  [u \in Debited(m) |-> Mutation(RefundKey(m, u), -AmountOf(u, EntryKey(m, u)))]

(* Seeded bug: a finished match can be refunded. *)
CanRefundAnyMatch(m) ==
  /\ status[m] # "NONE"
  /\ ~refunded[m]
  /\ Accepts(RefundCredits(m))

CanRefundAbortedMatch(m) ==
  /\ status[m] \notin {"NONE", "FINISHED"}
  /\ ~refunded[m]
  /\ Accepts(RefundCredits(m))

RefundAbortedMatch(m) ==
  /\ CanRefundAbortedMatch(m)
  /\ MutateWallets(RefundCredits(m))
  /\ status'   = [status EXCEPT ![m] = "ABORTED"]
  /\ refunded' = [refunded EXCEPT ![m] = TRUE]
  /\ UNCHANGED <<terms, seats, winner, purchaseVars>>

-----------------------------------------------------------------------------
(* Purchases (ManualPurchaseProvider).  completePurchase reads the status  *)
(* outside its transaction, so several calls can be past the check.        *)

NoPurchase == [status |-> "NONE", user |-> Bot, chips |-> 0]

CreatePendingPurchase(p, u, n) ==
  /\ purchase[p].status = "NONE"
  /\ purchase' = [purchase EXCEPT ![p] = [status |-> "PENDING", user |-> u, chips |-> n]]
  /\ UNCHANGED <<moneyVars, matchVars, completing>>

BeginCompletePurchase(p) ==
  /\ purchase[p].status = "PENDING"
  /\ completing[p] < MaxCompleters
  /\ completing' = [completing EXCEPT ![p] = @ + 1]
  /\ UNCHANGED <<moneyVars, matchVars, purchase>>

(* Seeded bug: every call credits under a key of its own. *)
CommitCompletePurchasePerCall(p) ==
  LET buyer  == purchase[p].user
      key    == [PurchaseKey(p) EXCEPT !.user = IF Recorded(PurchaseKey(p)) THEN buyer ELSE Bot]
      credit == One(buyer, key, purchase[p].chips)
  IN  /\ completing[p] > 0
      /\ Accepts(credit)
      /\ MutateWallets(credit)
      /\ purchase'   = [purchase EXCEPT ![p].status = "COMPLETED"]
      /\ completing' = [completing EXCEPT ![p] = @ - 1]
      /\ UNCHANGED matchVars

CommitCompletePurchase(p) ==
  LET credit == One(purchase[p].user, PurchaseKey(p), purchase[p].chips)
  IN  /\ completing[p] > 0
      /\ Accepts(credit)
      /\ MutateWallets(credit)
      /\ purchase'   = [purchase EXCEPT ![p].status = "COMPLETED"]
      /\ completing' = [completing EXCEPT ![p] = @ - 1]
      /\ UNCHANGED matchVars

(* The call dies between its check and its commit. *)
LoseCompletePurchase(p) ==
  /\ completing[p] > 0
  /\ completing' = [completing EXCEPT ![p] = @ - 1]
  /\ UNCHANGED <<moneyVars, matchVars, purchase>>

-----------------------------------------------------------------------------
(* Two seats, at least one human, and never the same human twice. *)
Lineups == {o \in [Seat -> Users \cup {Bot}] : o["A"] # o["B"]}

NoTerms  == [fee |-> 0, payout |-> 0]
NoLineup == [s \in Seat |-> Bot]

Init ==
  /\ balance    = [u \in Users |-> 0]
  /\ ledger     = [u \in Users |-> <<>>]
  /\ status     = [m \in Matches |-> "NONE"]
  /\ terms      = [m \in Matches |-> NoTerms]
  /\ seats      = [m \in Matches |-> NoLineup]
  /\ refunded   = [m \in Matches |-> FALSE]
  /\ winner     = [m \in Matches |-> Bot]
  /\ purchase   = [p \in Purchases |-> NoPurchase]
  /\ completing = [p \in Purchases |-> 0]

Next ==
  \/ \E u \in Users : ProvisionPlayer(u)
  \/ \E c \in Commands, u \in Users, n \in Adjustments : AdminAdjustment(c, u, n)
  \/ \E m \in Matches, o \in Lineups, e \in Economies : CreateMatchRecord(m, o, e)
  \/ \E m \in Matches, e \in Economies : DeductEntryFees(m, e.fee)
  \/ \E m \in Matches : ActivateMatch(m)
  \/ \E m \in Matches, w \in Users, e \in Economies : FinalizeMatchPayout(m, w, e.payout)
  \/ \E m \in Matches : FinishBotWin(m)
  \/ \E m \in Matches : RefundAbortedMatch(m)
  \/ \E p \in Purchases, u \in Users, n \in Packs : CreatePendingPurchase(p, u, n)
  \/ \E p \in Purchases : BeginCompletePurchase(p)
  \/ \E p \in Purchases : CommitCompletePurchase(p)
  \/ \E p \in Purchases : LoseCompletePurchase(p)

Spec == Init /\ [][Next]_vars


-----------------------------------------------------------------------------
(* Type invariant. *)
TypeOK ==
  /\ balance    \in [Users -> Nat]
  /\ ledger     \in [Users -> Seq(LedgerEntry)]
  /\ status     \in [Matches -> Statuses]
  /\ terms      \in [Matches -> [fee : Nat, payout : Nat]]
  /\ seats      \in [Matches -> [Seat -> Users \cup {Bot}]]
  /\ refunded   \in [Matches -> BOOLEAN]
  /\ winner     \in [Matches -> Users \cup {Bot}]
  /\ purchase   \in [Purchases -> [status : {"NONE", "PENDING", "COMPLETED"},
                                  user : Users \cup {Bot}, chips : Nat]]
  /\ completing \in [Purchases -> 0..MaxCompleters]

(* What wallet u held after its i-th entry. *)
BalanceAt(u, i) == IF i = 0 THEN 0 ELSE ledger[u][i].balanceAfter

(* The ledger accounts for every chip: each entry continues from the one   *)
(* before it, and the balance column is where the last one left off.  It   *)
(* breaks if a transaction writes one of the two tables and not the other. *)
LedgerExplainsBalance ==
  \A u \in Users :
    /\ balance[u] = BalanceAt(u, Len(ledger[u]))
    /\ \A i \in DOMAIN ledger[u] :
          BalanceAt(u, i) = BalanceAt(u, i - 1) + ledger[u][i].amount

(* No retry, replay or concurrent call records one mutation twice, in the  *)
(* same wallet or in two.                                                  *)
KeysUnique ==
  \A u, v \in Users : \A i \in DOMAIN ledger[u], j \in DOMAIN ledger[v] :
    ledger[u][i].key = ledger[v][j].key => u = v /\ i = j

(* Entry fees are charged to all the humans of a match or to none: nobody  *)
(* pays for a match whose opponent could not.                              *)
AllStakeOrNone ==
  \A m \in Matches :
    (\E u \in Users : Holds(u, EntryKey(m, u))) => Staked(m)

(* A match pays its prize or returns its stakes, never both, and the row   *)
(* agrees with the ledger on which: a prize only in a FINISHED match, to   *)
(* its recorded winner and after all stakes were taken; a refund only in   *)
(* an ABORTED one.                                                         *)
SettledOneWay ==
  \A m \in Matches : \A u \in Users :
    /\ Holds(u, PayoutKey(m)) =>
         /\ status[m] = "FINISHED"
         /\ winner[m] = u
         /\ u \in Humans(m)
         /\ Staked(m)
    /\ Holds(u, RefundKey(m, u)) => status[m] = "ABORTED"

(* In an aborted match every debit is undone by a credit of the same size, *)
(* and nobody is credited who was not debited.                             *)
RefundUndoesDebit ==
  \A m \in Matches : \A u \in Users :
    /\ Holds(u, RefundKey(m, u)) =>
         /\ Holds(u, EntryKey(m, u))
         /\ AmountOf(u, RefundKey(m, u)) = -AmountOf(u, EntryKey(m, u))
    /\ status[m] = "ABORTED" /\ Holds(u, EntryKey(m, u)) /\ AmountOf(u, EntryKey(m, u)) < 0
         => Holds(u, RefundKey(m, u))

(* The keys with which purchase p is credited have its purchaseId.         *)
Credits(k, p) == k.kind = "purchase" /\ k.ref = p

(* However many completePurchase calls read PENDING, a purchase has one    *)
(* credit if it is COMPLETED, and none before: its buyer gets the chips    *)
(* that were bought, and nobody gets them again under any key.             *)
PurchaseCreditedOnce ==
  \A p \in Purchases :
    /\ purchase[p].status = "COMPLETED" =>
         \E i \in DOMAIN ledger[purchase[p].user] : Credits(ledger[purchase[p].user][i].key, p)
    /\ \A u, v \in Users : \A i \in DOMAIN ledger[u], j \in DOMAIN ledger[v] :
         Credits(ledger[u][i].key, p) =>
           /\ purchase[p].status = "COMPLETED" /\ u = purchase[p].user
           /\ ledger[u][i].amount = purchase[p].chips
           /\ Credits(ledger[v][j].key, p) => u = v /\ i = j

(* The keys under which match m moves chips. *)
MatchKeys(m) == {PayoutKey(m)} \cup {EntryKey(m, u) : u \in Users}
                               \cup {RefundKey(m, u) : u \in Users}

(* Settlement is final: once a match is FINISHED or ABORTED its status     *)
(* never changes and no late call moves another chip in its name.          *)
SettlementIsFinal ==
  [][\A m \in Matches : status[m] \in Terminal =>
        /\ status'[m] = status[m]
        /\ \A k \in MatchKeys(m) : Recorded(k)' = Recorded(k)]_vars

-----------------------------------------------------------------------------
(* The inductive invariant: what the row of a match says of its entries in *)
(* the ledger, and the row of a purchase of its credit.                    *)
MatchInv(m) ==
  /\ status[m] = "NONE" => Humans(m) = {}
  /\ status[m] = "ACTIVE" => Staked(m)
  /\ refunded[m] <=> status[m] = "ABORTED"
  /\ winner[m] # Bot => status[m] = "FINISHED"
  /\ \A u \in Users :
       /\ Holds(u, EntryKey(m, u)) =>
            /\ u \in Humans(m)
            /\ AmountOf(u, EntryKey(m, u)) = -terms[m].fee
            /\ Staked(m)
       /\ Holds(u, PayoutKey(m)) =>
            /\ status[m] = "FINISHED"
            /\ winner[m] = u
            /\ u \in Humans(m)
            /\ Staked(m)
       /\ Holds(u, RefundKey(m, u)) =>
            /\ status[m] = "ABORTED"
            /\ Holds(u, EntryKey(m, u))
            /\ AmountOf(u, RefundKey(m, u)) = -AmountOf(u, EntryKey(m, u))
       /\ status[m] = "ABORTED" /\ Holds(u, EntryKey(m, u))
            /\ AmountOf(u, EntryKey(m, u)) < 0 => Holds(u, RefundKey(m, u))

PurchaseInv(p) ==
  /\ completing[p] > 0 => purchase[p].status # "NONE"
  /\ purchase[p].status # "NONE" => purchase[p].user \in Users
  /\ purchase[p].status = "COMPLETED" => Holds(purchase[p].user, PurchaseKey(p))
  /\ \A u \in Users, k \in Keys : Credits(k, p) /\ Holds(u, k) =>
       /\ k = PurchaseKey(p)
       /\ purchase[p].status = "COMPLETED" /\ u = purchase[p].user
       /\ AmountOf(u, k) = purchase[p].chips

(* Type correctness and all the safety invariants above, strengthened so   *)
(* that every transaction preserves them.                                  *)
IInv ==
  /\ TypeOK
  /\ LedgerExplainsBalance
  /\ KeysUnique
  /\ \A m \in Matches : MatchInv(m)
  /\ \A p \in Purchases : PurchaseInv(p)

-----------------------------------------------------------------------------
(* Refinement: the tables implement an escrow account per match. *)
EscrowPhase(m) ==
  CASE status[m] = "NONE"     -> "none"
    [] status[m] = "WAITING"  -> IF Staked(m) THEN "held" ELSE "open"
    [] status[m] = "ACTIVE"   -> "held"
    [] status[m] = "FINISHED" -> IF winner[m] # Bot THEN "paid"
                                 ELSE IF Staked(m) THEN "kept" ELSE "cancelled"
    [] status[m] = "ABORTED"  -> IF Staked(m) THEN "returned" ELSE "cancelled"

EscrowAccount == INSTANCE Escrow WITH
  chips   <- balance,
  phase   <- [m \in Matches |-> EscrowPhase(m)],
  players <- [m \in Matches |-> Humans(m)],
  terms   <- terms

(* Every transaction is one step of the escrow account or moves nothing:   *)
(* all stake, then one winner takes the prize, or the house keeps it, or   *)
(* everybody gets the stake back.                                          *)
ImplementsEscrow == EscrowAccount!Spec

=============================================================================
