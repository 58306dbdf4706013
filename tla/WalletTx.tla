------------------------------ MODULE WalletTx ------------------------------
(***************************************************************************)
(* The transactions of packages/domain/src/wallet.ts statement by          *)
(* statement, as PostgreSQL runs them at READ COMMITTED: a statement sees  *)
(* what is committed, SELECT ... FOR UPDATE and UPDATE wait for the row,   *)
(* an insert waits for an uncommitted entry with its key, and rows stay    *)
(* locked until the transaction ends.                                      *)
(*                                                                         *)
(* The variables of Wallet are the committed tables.  Wallet takes every   *)
(* transaction for one step; here that is what the locks have to bring     *)
(* about, and they must not make two transactions wait for each other.     *)
(*                                                                         *)
(* A refused statement (throw) is the action being disabled: the           *)
(* transaction then ends by Rollback, as it may at any other point, when   *)
(* its connection, its process or the five seconds Prisma gives it end.    *)
(***************************************************************************)
EXTENDS Wallet

CONSTANTS
  Workers,   \* bound: transactions at the same time
  Rank,      \* the order of user ids (localeCompare)
  SeatPlans, \* who may sit in the matches there are
  Contracts, \* terms of the matches there are
  Buyer      \* user of each purchase

ASSUME WalletTxAssumption ==
  /\ Rank \in [Users -> Nat]
  /\ \A u, v \in Users : Rank[u] = Rank[v] => u = v
  /\ SeatPlans \subseteq [Matches -> Lineups]
  /\ Contracts \in [Matches -> Economies]
  /\ Buyer \in [Purchases -> Users]
  /\ Packs # {}
  /\ IsFiniteSet(Workers)
  \* An id names one row, or no row at all.
  /\ Users \cap Matches = {} /\ Users \cap Purchases = {}
  /\ Purchases \cap (Matches \cup Commands \cup {Bot}) = {}

VARIABLES
  tx,   \* the transaction of each worker
  held  \* the rows each worker has locked

txVars == <<tx, held>>
allVars == <<vars, txVars>>

-----------------------------------------------------------------------------
(* A call: what is asked for (op), of which match, command or purchase     *)
(* (ref), with which user and amount where the caller gives them.          *)

Call(op, ref, who, n) == [op |-> op, ref |-> ref, who |-> who, n |-> n]

Calls ==
  {Call("deduct", m, Bot, e.fee) : m \in Matches, e \in Economies}
    \cup {Call("payout", m, u, e.payout) : m \in Matches, u \in Users, e \in Economies}
    \cup {Call("refund", m, Bot, 0) : m \in Matches}
    \cup {Call("adjust", c, u, n) : c \in Commands, u \in Users, n \in Adjustments}
    \cup {Call("complete", p, Bot, 0) : p \in Purchases}

(* A transaction: its call, how far it is, the users whose wallets it has  *)
(* not reached yet, the balance it read last, and its uncommitted entries. *)
Idle == [call |-> Call("none", Bot, Bot, 0), step |-> "idle", left |-> {}, seen |-> 0,
         entries |-> [u \in {} |-> 0]]

Op(w)  == tx[w].call.op
Ref(w) == tx[w].call.ref

At(w, step) == tx[w].step = step

HoldersOf(row, w) == {v \in Workers \ {w} : row \in held[v]}

(* The row a transaction locks first; an adjustment goes straight to the   *)
(* wallet.                                                                 *)
FirstRows(w) == IF Op(w) = "adjust" THEN {} ELSE {Ref(w)}

(* Wallets are visited in the order of user ids.                           *)
(* Seeded bug: in the order of seats. *)
NextPlayerBySeat(w) ==
  LET first == seats[Ref(w)]["A"]
  IN  IF Op(w) = "deduct" /\ first \in tx[w].left THEN first
      ELSE CHOOSE u \in tx[w].left : TRUE

NextPlayer(w) ==
  CHOOSE u \in tx[w].left : \A v \in tx[w].left : Rank[u] <= Rank[v]

(* What the call asks of mutateWallet, by user. *)
MutationsOf(c) ==
  CASE c.op = "deduct"   -> [u \in Humans(c.ref) |-> Mutation(EntryKey(c.ref, u), -c.n)]
    [] c.op = "payout"   -> One(c.who, PayoutKey(c.ref), c.n)
    [] c.op = "refund"   -> RefundCredits(c.ref)
    [] c.op = "adjust"   -> One(c.who, AdminKey(c.ref), c.n)
    [] c.op = "complete" -> One(purchase[c.ref].user, PurchaseKey(c.ref), purchase[c.ref].chips)

MutationOf(w, u) == MutationsOf(tx[w].call)[u]

PlayersOf(c) ==
  CASE c.op \in {"deduct", "refund"} -> Humans(c.ref)
    [] c.op \in {"payout", "adjust"} -> {c.who}
    [] c.op = "complete"             -> {purchase[c.ref].user}

(* What the transaction requires of the match row it has just locked.      *)
Permits(c) ==
  CASE c.op = "deduct" -> status[c.ref] = "WAITING" /\ c.n = terms[c.ref].fee
    [] c.op = "payout" -> /\ status[c.ref] = "ACTIVE"
                          /\ c.n = terms[c.ref].payout
                          /\ c.who \in Humans(c.ref)
    [] c.op = "refund" -> status[c.ref] # "FINISHED" /\ ~refunded[c.ref]
    [] OTHER           -> TRUE

(* completePurchase calls that read PENDING and have not begun their       *)
(* transaction.                                                            *)
Unstarted(p) == completing[p] - Cardinality({w \in Workers : Ref(w) = p})

Begin(w, c) ==
  /\ At(w, "idle")
  /\ c.op = "complete" => Unstarted(c.ref) > 0
  /\ tx' = [tx EXCEPT ![w] = [Idle EXCEPT !.call = c, !.step = "open"]]
  /\ UNCHANGED <<held, vars>>

(* Seeded bug: the row is read without FOR UPDATE. *)
OpenUnlocked(w) ==
  /\ At(w, "open")
  /\ Permits(tx[w].call)
  /\ tx' = [tx EXCEPT ![w].step = "players", ![w].left = PlayersOf(tx[w].call)]
  /\ UNCHANGED <<held, vars>>

(* lockMatch and the checks on the row, or the update of the purchase.     *)
Open(w) ==
  /\ At(w, "open")
  /\ \A r \in FirstRows(w) : HoldersOf(r, w) = {}
  /\ Permits(tx[w].call)
  /\ held' = [held EXCEPT ![w] = @ \cup FirstRows(w)]
  /\ tx' = [tx EXCEPT ![w].step = "players", ![w].left = PlayersOf(tx[w].call)]
  /\ UNCHANGED vars

(* refundAbortedMatch passes over a player who was not debited.            *)
Pass(w) ==
  /\ At(w, "players")
  /\ tx[w].left # {}
  /\ Op(w) = "refund"
  /\ NextPlayer(w) \notin Debited(Ref(w))
  /\ tx' = [tx EXCEPT ![w].left = @ \ {NextPlayer(w)}]
  /\ UNCHANGED <<held, vars>>

Visits(w) ==
  /\ At(w, "players")
  /\ tx[w].left # {}
  /\ Op(w) = "refund" => NextPlayer(w) \in Debited(Ref(w))

(* mutateWallet: lock the wallet, and then read it again.                  *)
LockWallet(w) ==
  /\ Visits(w)
  /\ HoldersOf(NextPlayer(w), w) = {}
  /\ held' = [held EXCEPT ![w] = @ \cup {NextPlayer(w)}]
  /\ tx' = [tx EXCEPT ![w].step = "locked"]
  /\ UNCHANGED vars

ReadWallet(w) ==
  /\ At(w, "locked")
  /\ tx' = [tx EXCEPT ![w].step = "read", ![w].seen = balance[NextPlayer(w)]]
  /\ UNCHANGED <<held, vars>>

(* Other transactions with an uncommitted entry under this key.            *)
Inserting(k, w) ==
  {v \in Workers \ {w} : \E u \in DOMAIN tx[v].entries : tx[v].entries[u].key = k}

Written(w, entries) ==
  /\ tx' = [tx EXCEPT ![w].step = "players", ![w].left = @ \ {NextPlayer(w)},
                      ![w].entries = entries]
  /\ UNCHANGED <<held, vars>>

(* The key is looked up; the entry is inserted and the balance updated.    *)
WriteEntry(w) ==
  LET u   == NextPlayer(w)
      mut == MutationOf(w, u)
  IN  /\ At(w, "read")
      /\ ~Recorded(mut.key)
      /\ tx[w].seen + mut.amount >= 0
      /\ Inserting(mut.key, w) = {}
      /\ Written(w, [v \in DOMAIN tx[w].entries \cup {u} |->
           IF v = u THEN [key          |-> mut.key,
                          amount       |-> mut.amount,
                          balanceAfter |-> tx[w].seen + mut.amount]
           ELSE tx[w].entries[v]])

(* The key is found on the same mutation: a duplicate.                     *)
FindEntry(w) ==
  LET u   == NextPlayer(w)
      mut == MutationOf(w, u)
  IN  /\ At(w, "read")
      /\ Holds(u, mut.key)
      /\ AmountOf(u, mut.key) = mut.amount
      /\ Written(w, tx[w].entries)

End(w) ==
  /\ tx' = [tx EXCEPT ![w] = Idle]
  /\ held' = [held EXCEPT ![w] = {}]
  /\ completing' = IF Op(w) = "complete" THEN [completing EXCEPT ![Ref(w)] = @ - 1]
                   ELSE completing

(* The updates after the wallets, and COMMIT: everything written becomes   *)
(* visible at once.                                                        *)
Commit(w) ==
  LET entries == tx[w].entries
      m       == Ref(w)
  IN  /\ At(w, "players")
      /\ tx[w].left = {}
      /\ balance' = [u \in Users |-> IF u \in DOMAIN entries THEN entries[u].balanceAfter
                                     ELSE balance[u]]
      /\ ledger' = [u \in Users |-> IF u \in DOMAIN entries THEN Append(ledger[u], entries[u])
                                    ELSE ledger[u]]
      /\ status' = CASE Op(w) = "payout" -> [status EXCEPT ![m] = "FINISHED"]
                     [] Op(w) = "refund" -> [status EXCEPT ![m] = "ABORTED"]
                     [] OTHER            -> status
      /\ winner' = IF Op(w) = "payout" THEN [winner EXCEPT ![m] = tx[w].call.who] ELSE winner
      /\ refunded' = IF Op(w) = "refund" THEN [refunded EXCEPT ![m] = TRUE] ELSE refunded
      /\ purchase' = IF Op(w) = "complete" THEN [purchase EXCEPT ![m].status = "COMPLETED"]
                     ELSE purchase
      /\ End(w)
      /\ UNCHANGED <<terms, seats>>

Rollback(w) ==
  /\ ~At(w, "idle")
  /\ End(w)
  /\ UNCHANGED <<moneyVars, matchVars, purchase>>

-----------------------------------------------------------------------------
(* Single statements.  Those of the rooms update a match row and wait for  *)
(* its lock as well.                                                       *)

UpdateMatch(m) ==
  /\ \A w \in Workers : m \notin held[w]
  /\ ActivateMatch(m) \/ FinishBotWin(m)
  /\ UNCHANGED txVars

ReadPurchase(p) == BeginCompletePurchase(p) /\ UNCHANGED txVars

(* Everybody has a wallet, the matches wait for their players, and the     *)
(* purchases are pending.                                                  *)
TxInit ==
  /\ balance    = [u \in Users |-> StartingChips]
  /\ ledger     = [u \in Users |-> <<[key |-> StartingKey(u), amount |-> StartingChips,
                                      balanceAfter |-> StartingChips]>>]
  /\ status     = [m \in Matches |-> "WAITING"]
  /\ terms      = Contracts
  /\ seats      \in SeatPlans
  /\ refunded   = [m \in Matches |-> FALSE]
  /\ winner     = [m \in Matches |-> Bot]
  /\ purchase   = [p \in Purchases |->
                     [status |-> "PENDING", user |-> Buyer[p], chips |-> CHOOSE n \in Packs : TRUE]]
  /\ completing = [p \in Purchases |-> 0]
  /\ tx         = [w \in Workers |-> Idle]
  /\ held       = [w \in Workers |-> {}]

Statement(w) ==
  \/ Open(w)
  \/ Pass(w)
  \/ LockWallet(w)
  \/ ReadWallet(w)
  \/ WriteEntry(w)
  \/ FindEntry(w)
  \/ Commit(w)

TxNext ==
  \/ \E w \in Workers, c \in Calls : Begin(w, c)
  \/ \E w \in Workers : Statement(w)
  \/ \E w \in Workers : Rollback(w)
  \/ \E m \in Matches : UpdateMatch(m)
  \/ \E p \in Purchases : ReadPurchase(p)

TxSpec == TxInit /\ [][TxNext]_allVars

-----------------------------------------------------------------------------
(* What the row and key locks are for ("Serialize on the wallet row, so    *)
(* distinct concurrent debits cannot spend the same chips"): however the   *)
(* statements of concurrent transactions interleave, each commit changes   *)
(* the tables as one transaction of Wallet run on its own would, so what   *)
(* is proved of Wallet holds of the tables here.                           *)
CommitsAreAtomic == [][Next]_vars

(* The transactions the next statement of w waits for.                     *)
WaitsFor(w) ==
  CASE At(w, "open")  -> UNION {HoldersOf(r, w) : r \in FirstRows(w)}
    [] Visits(w)      -> HoldersOf(NextPlayer(w), w)
    [] At(w, "read")  -> Inserting(MutationOf(w, NextPlayer(w)).key, w)
    [] OTHER          -> {}

(* "Stable order also prevents lock inversion between concurrent matches": *)
(* among any transactions under way one waits for none of the others, so   *)
(* they never wait for each other in a circle.                             *)
NoLockInversion ==
  \A S \in (SUBSET Workers) \ {{}} : \E w \in S : WaitsFor(w) \cap S = {}

-----------------------------------------------------------------------------
(* The inductive invariant: what the transactions under way know of the    *)
(* tables, thanks to the locks they hold.                                  *)

Steps == {"idle", "open", "players", "locked", "read"}

IsTransaction(t) ==
  \E D \in SUBSET Users :
    t \in [call : Calls \cup {Idle.call}, step : Steps, left : SUBSET Users, seen : Int,
          entries : [D -> LedgerEntry]]

TxTypeOK ==
  /\ tx = [w \in Workers |-> tx[w]]
  /\ \A w \in Workers : IsTransaction(tx[w])
  /\ held \in [Workers -> SUBSET (Users \cup Matches \cup Purchases)]

(* Past its checks: it holds its first row and works on the wallets.       *)
Working(w) == tx[w].step \in {"players", "locked", "read"}

(* What is checked and read under a lock still holds; each player visited  *)
(* so far has a new entry waiting for the commit or had one on record.     *)
WorkInv(w) ==
  LET c       == tx[w].call
      muts    == MutationsOf(c)
      entries == tx[w].entries
  IN  /\ Permits(c)
      /\ FirstRows(w) \subseteq held[w]
      /\ tx[w].left \subseteq PlayersOf(c)
      /\ DOMAIN entries \subseteq (DOMAIN muts \ tx[w].left) \cap held[w]
      /\ \A u \in DOMAIN muts \ tx[w].left :
           IF u \in DOMAIN entries
           THEN /\ ~Recorded(muts[u].key)
                /\ entries[u] = [key |-> muts[u].key, amount |-> muts[u].amount,
                                 balanceAfter |-> balance[u] + muts[u].amount]
           ELSE Holds(u, muts[u].key) /\ AmountOf(u, muts[u].key) = muts[u].amount

(* At a wallet: its row is locked, and what was read of it is current.     *)
VisitInv(w) ==
  /\ tx[w].left # {}
  /\ NextPlayer(w) \in held[w] \cap DOMAIN MutationsOf(tx[w].call)
  /\ At(w, "read") => tx[w].seen = balance[NextPlayer(w)]

(* Wallets are locked in the order of their users, the next one last.      *)
OrderInv(w) ==
  \A u \in held[w] \cap Users, v \in tx[w].left :
     /\ Rank[u] <= Rank[v]
     /\ u = v => tx[w].step \in {"locked", "read"}

WorkerInv(w) ==
  /\ ~At(w, "idle") => tx[w].call \in Calls
  /\ At(w, "idle") => tx[w].call = Idle.call
  /\ ~Working(w) => held[w] = {} /\ tx[w].left = {} /\ DOMAIN tx[w].entries = {}
  /\ Working(w) => WorkInv(w)
  /\ tx[w].step \in {"locked", "read"} => VisitInv(w)
  /\ OrderInv(w)

(* Two transactions neither hold one row nor insert under one key.         *)
Apart(v, w) ==
  /\ held[v] \cap held[w] = {}
  /\ \A u \in DOMAIN tx[v].entries, x \in DOMAIN tx[w].entries :
       tx[v].entries[u].key # tx[w].entries[x].key

TxInv ==
  /\ IInv
  /\ TxTypeOK
  /\ \A w \in Workers : WorkerInv(w)
  /\ \A v, w \in Workers : v # w => Apart(v, w)
  /\ \A m \in Matches : status[m] # "NONE"
  /\ \A p \in Purchases : purchase[p].status # "NONE" /\ Unstarted(p) >= 0

=============================================================================
