---------------------------- MODULE WalletProofs ----------------------------
(* Proofs about Wallet, for every set of users, matches and purchases: the *)
(* invariants of its tables, and that they implement Escrow.               *)
EXTENDS Wallet, TLAPS

USE WalletAssumption

(* The mutations a transaction of Wallet makes: one of a known kind for    *)
(* each of some users.                                                     *)
Wellformed(muts) ==
  /\ DOMAIN muts \subseteq Users
  /\ \A u \in DOMAIN muts : muts[u].key \in Keys /\ muts[u].amount \in Int

-----------------------------------------------------------------------------
(* Lemmas on mutateWallet. *)

(* An accepted transaction keeps balances non-negative and ledgers typed. *)
LEMMA MutateType ==
  ASSUME NEW muts, Wellformed(muts), TypeOK, Accepts(muts), MutateWallets(muts)
  PROVE  /\ balance' \in [Users -> Nat]
         /\ ledger' \in [Users -> Seq(LedgerEntry)]
<1> DEFINE fresh == {u \in DOMAIN muts : ~Recorded(muts[u].key)}
<1>1. \A u \in Users : u \in fresh => balance[u] + muts[u].amount \in Nat
  BY DEF Accepts, TypeOK, Wellformed
<1>2. balance' \in [Users -> Nat]
  BY <1>1 DEF MutateWallets, TypeOK
<1>3. \A u \in Users : u \in fresh =>
        [key |-> muts[u].key, amount |-> muts[u].amount,
         balanceAfter |-> balance[u] + muts[u].amount] \in LedgerEntry
  BY <1>1 DEF LedgerEntry, Wellformed
<1>4. ledger' \in [Users -> Seq(LedgerEntry)]
  BY <1>3 DEF MutateWallets, TypeOK
<1> QED BY <1>2, <1>4

(* A fresh mutation appends one entry to the ledger of its user, from the  *)
(* balance before to the balance after.                                    *)
LEMMA MutateAppends ==
  ASSUME NEW muts, Wellformed(muts), TypeOK, Accepts(muts), MutateWallets(muts),
         NEW u \in DOMAIN muts, ~Recorded(muts[u].key)
  PROVE  /\ balance'[u] = balance[u] + muts[u].amount
         /\ Len(ledger'[u]) = Len(ledger[u]) + 1
         /\ \A i \in 1..Len(ledger[u]) : ledger'[u][i] = ledger[u][i]
         /\ ledger'[u][Len(ledger[u]) + 1].key = muts[u].key
         /\ ledger'[u][Len(ledger[u]) + 1].amount = muts[u].amount
         /\ ledger'[u][Len(ledger[u]) + 1].balanceAfter = balance'[u]
<1> DEFINE e == [key |-> muts[u].key, amount |-> muts[u].amount,
                 balanceAfter |-> balance[u] + muts[u].amount]
<1>1. u \in Users
  BY DEF Wellformed
<1>2. ledger'[u] = Append(ledger[u], e) /\ balance'[u] = balance[u] + muts[u].amount
  BY <1>1 DEF MutateWallets
<1>3. e \in LedgerEntry
  BY <1>1 DEF LedgerEntry, Accepts, Wellformed, TypeOK
<1>4. ledger[u] \in Seq(LedgerEntry)
  BY <1>1 DEF TypeOK
<1>5. /\ Len(ledger'[u]) = Len(ledger[u]) + 1
      /\ \A i \in 1..Len(ledger[u]) : ledger'[u][i] = ledger[u][i]
      /\ ledger'[u][Len(ledger[u]) + 1] = e
  BY <1>2, <1>3, <1>4
<1> QED BY <1>2, <1>5

(* Every other wallet is left alone. *)
LEMMA MutateKeeps ==
  ASSUME NEW muts, MutateWallets(muts),
         NEW u \in Users, ~(u \in DOMAIN muts /\ ~Recorded(muts[u].key))
  PROVE  ledger'[u] = ledger[u] /\ balance'[u] = balance[u]
BY DEF MutateWallets

(* After a transaction a wallet holds the keys it held and the one the     *)
(* transaction named for it.                                               *)
LEMMA MutateHolds ==
  ASSUME NEW muts, Wellformed(muts), TypeOK, Accepts(muts), MutateWallets(muts),
         NEW u \in Users, NEW k
  PROVE  Holds(u, k)' <=> Holds(u, k) \/ (u \in DOMAIN muts /\ muts[u].key = k)
<1>1. ledger[u] \in Seq(LedgerEntry) /\ ledger'[u] \in Seq(LedgerEntry)
  BY MutateType DEF TypeOK
<1>2. DOMAIN ledger[u] = 1..Len(ledger[u]) /\ DOMAIN ledger'[u] = 1..Len(ledger'[u])
      /\ Len(ledger[u]) \in Nat
  BY <1>1
<1>3. CASE u \in DOMAIN muts /\ ~Recorded(muts[u].key)
  <2>1. /\ Len(ledger'[u]) = Len(ledger[u]) + 1
        /\ \A i \in 1..Len(ledger[u]) : ledger'[u][i] = ledger[u][i]
        /\ ledger'[u][Len(ledger[u]) + 1].key = muts[u].key
    BY <1>3, MutateAppends
  <2>2. ASSUME NEW i \in DOMAIN ledger[u], ledger[u][i].key = k
        PROVE  i \in DOMAIN ledger'[u] /\ ledger'[u][i].key = k
    BY <1>2, <2>1, <2>2
  <2>3. Len(ledger[u]) + 1 \in DOMAIN ledger'[u]
    BY <1>2, <2>1
  <2>4. ASSUME NEW i \in DOMAIN ledger'[u], ledger'[u][i].key = k
        PROVE  (i \in DOMAIN ledger[u] /\ ledger[u][i].key = k) \/ muts[u].key = k
    BY <1>2, <2>1, <2>4
  <2> QED BY <1>3, <2>1, <2>2, <2>3, <2>4 DEF Holds
<1>4. CASE ~(u \in DOMAIN muts /\ ~Recorded(muts[u].key))
  <2>1. ledger'[u] = ledger[u]
    BY <1>4, MutateKeeps
  <2>2. u \in DOMAIN muts => Holds(u, muts[u].key)
    BY <1>4 DEF Accepts
  <2>3. Holds(u, k)' <=> Holds(u, k)
    BY <2>1 DEF Holds
  <2> QED BY <2>2, <2>3
<1> QED BY <1>3, <1>4

(* No two mutations of one transaction share a key. *)
DistinctKeys(muts) ==
  \A u, v \in DOMAIN muts : muts[u].key = muts[v].key => u = v

(* A transaction keeps keys unique over the whole table.                   *)
LEMMA MutateUnique ==
  ASSUME NEW muts, Wellformed(muts), DistinctKeys(muts), TypeOK, KeysUnique,
         Accepts(muts), MutateWallets(muts)
  PROVE  KeysUnique'
<1> DEFINE new(u) == u \in DOMAIN muts /\ ~Recorded(muts[u].key)
<1>1. ASSUME NEW u \in Users
      PROVE  /\ DOMAIN ledger[u] = 1..Len(ledger[u]) /\ Len(ledger[u]) \in Nat
             /\ DOMAIN ledger'[u] = 1..Len(ledger'[u])
  <2>1. ledger[u] \in Seq(LedgerEntry) /\ ledger'[u] \in Seq(LedgerEntry)
    BY MutateType DEF TypeOK
  <2> QED BY <2>1
<1>2. ASSUME NEW u \in Users, NEW i \in DOMAIN ledger'[u]
      PROVE  \/ i \in DOMAIN ledger[u] /\ ledger'[u][i] = ledger[u][i]
             \/ /\ new(u) /\ i = Len(ledger[u]) + 1
                /\ ledger'[u][i].key = muts[u].key
  <2>1. CASE new(u)
    BY <1>1, <2>1, MutateAppends
  <2>2. CASE ~new(u)
    BY <1>1, <2>2, MutateKeeps
  <2> QED BY <2>1, <2>2
<1>3. ASSUME NEW u \in Users, NEW i \in DOMAIN ledger[u], NEW v \in Users, new(v)
      PROVE  ledger[u][i].key # muts[v].key
  BY <1>3 DEF Recorded, Holds
<1>4. ASSUME NEW u \in Users, NEW v \in Users,
             NEW i \in DOMAIN ledger'[u], NEW j \in DOMAIN ledger'[v],
             ledger'[u][i].key = ledger'[v][j].key
      PROVE  u = v /\ i = j
  <2>1. CASE new(u) /\ i = Len(ledger[u]) + 1 /\ ledger'[u][i].key = muts[u].key
    <3>1. CASE j \in DOMAIN ledger[v] /\ ledger'[v][j] = ledger[v][j]
      BY <1>3, <1>4, <2>1, <3>1
    <3>2. CASE new(v) /\ j = Len(ledger[v]) + 1 /\ ledger'[v][j].key = muts[v].key
      BY <1>4, <2>1, <3>2 DEF DistinctKeys
    <3> QED BY <1>2, <3>1, <3>2
  <2>2. CASE i \in DOMAIN ledger[u] /\ ledger'[u][i] = ledger[u][i]
    <3>1. CASE j \in DOMAIN ledger[v] /\ ledger'[v][j] = ledger[v][j]
      BY <1>4, <2>2, <3>1 DEF KeysUnique
    <3>2. CASE new(v) /\ j = Len(ledger[v]) + 1 /\ ledger'[v][j].key = muts[v].key
      BY <1>3, <1>4, <2>2, <3>2
    <3> QED BY <1>2, <3>1, <3>2
  <2> QED BY <1>2, <2>1, <2>2
<1> QED BY <1>4 DEF KeysUnique

(* A transaction extends the chain of balances of each wallet it touches.  *)
LEMMA MutateExplains ==
  ASSUME NEW muts, Wellformed(muts), TypeOK, LedgerExplainsBalance,
         Accepts(muts), MutateWallets(muts)
  PROVE  LedgerExplainsBalance'
<1> SUFFICES ASSUME NEW u \in Users
             PROVE  /\ balance'[u] = BalanceAt(u, Len(ledger[u]))'
                    /\ \A i \in DOMAIN ledger'[u] :
                         BalanceAt(u, i)' = BalanceAt(u, i - 1)' + ledger'[u][i].amount
  BY DEF LedgerExplainsBalance
<1>1. /\ balance[u] = BalanceAt(u, Len(ledger[u]))
      /\ \A i \in DOMAIN ledger[u] : BalanceAt(u, i) = BalanceAt(u, i - 1) + ledger[u][i].amount
  BY DEF LedgerExplainsBalance
<1>2. ledger[u] \in Seq(LedgerEntry) /\ ledger'[u] \in Seq(LedgerEntry)
  BY MutateType DEF TypeOK
<1>3. /\ Len(ledger[u]) \in Nat /\ DOMAIN ledger[u] = 1..Len(ledger[u])
      /\ Len(ledger'[u]) \in Nat /\ DOMAIN ledger'[u] = 1..Len(ledger'[u])
  BY <1>2
<1>4. CASE u \in DOMAIN muts /\ ~Recorded(muts[u].key)
  <2>0. PICK n \in Nat : n = Len(ledger[u])
    BY <1>3
  <2>1. /\ balance'[u] = balance[u] + muts[u].amount
        /\ Len(ledger'[u]) = n + 1
        /\ \A i \in 1..n : ledger'[u][i] = ledger[u][i]
        /\ ledger'[u][n + 1].amount = muts[u].amount
        /\ ledger'[u][n + 1].balanceAfter = balance'[u]
    BY <1>4, <2>0, MutateAppends
  <2>2. \A i \in 0..n : BalanceAt(u, i)' = BalanceAt(u, i)
    BY <1>3, <2>0, <2>1 DEF BalanceAt
  <2>3. BalanceAt(u, n + 1)' = balance'[u]
    BY <1>3, <2>0, <2>1 DEF BalanceAt
  <2>4. ASSUME NEW i \in 1..n
        PROVE  BalanceAt(u, i)' = BalanceAt(u, i - 1)' + ledger'[u][i].amount
    <3>1. i \in 0..n /\ i - 1 \in 0..n /\ i \in DOMAIN ledger[u]
      BY <1>3, <2>0
    <3>2. BalanceAt(u, i)' = BalanceAt(u, i) /\ BalanceAt(u, i - 1)' = BalanceAt(u, i - 1)
      BY <2>2, <3>1
    <3> QED BY <1>1, <2>1, <3>1, <3>2
  <2>5. BalanceAt(u, n + 1)' = BalanceAt(u, n)' + ledger'[u][n + 1].amount
    BY <1>1, <1>3, <2>0, <2>1, <2>2, <2>3
  <2>6. DOMAIN ledger'[u] = 1..(n + 1)
    BY <1>3, <2>1
  <2>7. \A i \in DOMAIN ledger'[u] : BalanceAt(u, i)' = BalanceAt(u, i - 1)' + ledger'[u][i].amount
    <3> SUFFICES ASSUME NEW i \in DOMAIN ledger'[u]
                 PROVE  BalanceAt(u, i)' = BalanceAt(u, i - 1)' + ledger'[u][i].amount
      OBVIOUS
    <3>2. i \in 1..n \/ i = n + 1
      BY <2>6
    <3>3. (n + 1) - 1 = n
      OBVIOUS
    <3> QED BY <2>4, <2>5, <3>2, <3>3
  <2>8. BalanceAt(u, Len(ledger[u]))' = BalanceAt(u, n + 1)'
    BY <2>1 DEF BalanceAt
  <2> QED BY <2>3, <2>7, <2>8
<1>5. CASE ~(u \in DOMAIN muts /\ ~Recorded(muts[u].key))
  <2>1. ledger'[u] = ledger[u] /\ balance'[u] = balance[u]
    BY <1>5, MutateKeeps
  <2> QED BY <1>1, <2>1 DEF BalanceAt
<1> QED BY <1>4, <1>5

(* Keys being unique, the amount under a key is that of its one entry.     *)
LEMMA AmountIs ==
  ASSUME KeysUnique, NEW u \in Users, NEW i \in DOMAIN ledger[u],
         NEW k, ledger[u][i].key = k
  PROVE  AmountOf(u, k) = ledger[u][i].amount
<1> DEFINE j == CHOOSE x \in DOMAIN ledger[u] : ledger[u][x].key = k
<1>1. j \in DOMAIN ledger[u] /\ ledger[u][j].key = k
  OBVIOUS
<1>2. i = j
  BY <1>1 DEF KeysUnique
<1> QED BY <1>2 DEF AmountOf

(* The same for the state after a step. *)
LEMMA AmountIsNext ==
  ASSUME KeysUnique', NEW u \in Users, NEW i \in DOMAIN ledger'[u],
         NEW k, ledger'[u][i].key = k
  PROVE  AmountOf(u, k)' = ledger'[u][i].amount
<1> DEFINE j == CHOOSE x \in DOMAIN ledger'[u] : ledger'[u][x].key = k
<1>1. j \in DOMAIN ledger'[u] /\ ledger'[u][j].key = k
  OBVIOUS
<1>2. i = j
  BY <1>1 DEF KeysUnique
<1> QED BY <1>2 DEF AmountOf

(* Recorded amounts never change, and each mutation is on record at its    *)
(* amount, be it fresh or a replay.                                        *)
LEMMA MutateAmounts ==
  ASSUME NEW muts, Wellformed(muts), DistinctKeys(muts), TypeOK, KeysUnique,
         Accepts(muts), MutateWallets(muts), NEW u \in Users
  PROVE  /\ \A k : Holds(u, k) => AmountOf(u, k)' = AmountOf(u, k)
         /\ \A k : u \in DOMAIN muts /\ muts[u].key = k => AmountOf(u, k)' = muts[u].amount
<1>1. KeysUnique'
  BY MutateUnique
<1>2. ledger[u] \in Seq(LedgerEntry) /\ ledger'[u] \in Seq(LedgerEntry)
  BY MutateType DEF TypeOK
<1>3. /\ Len(ledger[u]) \in Nat /\ DOMAIN ledger[u] = 1..Len(ledger[u])
      /\ DOMAIN ledger'[u] = 1..Len(ledger'[u])
  BY <1>2
<1>4. ASSUME NEW k, Holds(u, k)
      PROVE  AmountOf(u, k)' = AmountOf(u, k)
  <2>1. PICK i \in DOMAIN ledger[u] : ledger[u][i].key = k
    BY <1>4 DEF Holds
  <2>2. i \in DOMAIN ledger'[u] /\ ledger'[u][i] = ledger[u][i]
    <3>1. CASE u \in DOMAIN muts /\ ~Recorded(muts[u].key)
      BY <1>3, <3>1, MutateAppends
    <3>2. CASE ~(u \in DOMAIN muts /\ ~Recorded(muts[u].key))
      BY <3>2, MutateKeeps
    <3> QED BY <3>1, <3>2
  <2> QED BY <1>1, <2>1, <2>2, AmountIs, AmountIsNext
<1>5. ASSUME u \in DOMAIN muts, NEW k, muts[u].key = k
      PROVE  AmountOf(u, k)' = muts[u].amount
  <2>1. CASE Recorded(muts[u].key)
    BY <1>4, <1>5, <2>1 DEF Accepts
  <2>2. CASE ~Recorded(muts[u].key)
    <3>1. PICK n \in DOMAIN ledger'[u] :
             ledger'[u][n].key = k /\ ledger'[u][n].amount = muts[u].amount
      BY <1>3, <1>5, <2>2, MutateAppends
    <3> QED BY <1>1, <3>1, AmountIsNext
  <2> QED BY <2>1, <2>2
<1> QED BY <1>4, <1>5

-----------------------------------------------------------------------------
(* Idempotency keys of different kinds, or for different users, differ.    *)
LEMMA KeysDiffer ==
  ASSUME NEW m, NEW u, NEW v
  PROVE  /\ EntryKey(m, u) # PayoutKey(m)
         /\ EntryKey(m, u) # RefundKey(m, v)
         /\ PayoutKey(m) # RefundKey(m, u)
         /\ EntryKey(m, u) = EntryKey(m, v) => u = v
         /\ RefundKey(m, u) = RefundKey(m, v) => u = v
<1>1. "entry" # "payout" /\ "entry" # "abort" /\ "payout" # "abort"
  OBVIOUS
<1>2. /\ EntryKey(m, u).kind = "entry" /\ PayoutKey(m).kind = "payout"
      /\ RefundKey(m, v).kind = "abort" /\ RefundKey(m, u).kind = "abort"
      /\ EntryKey(m, u).user = u /\ EntryKey(m, v).user = v
      /\ RefundKey(m, u).user = u /\ RefundKey(m, v).user = v
  BY DEF EntryKey, PayoutKey, RefundKey
<1> HIDE DEF EntryKey, PayoutKey, RefundKey
<1> QED BY <1>1, <1>2

(* The keys of a match are its own, are keys, and are nothing else's. *)
LEMMA MatchKeyFacts ==
  ASSUME NEW m \in Matches, NEW u \in Users
  PROVE  /\ {EntryKey(m, u), PayoutKey(m), RefundKey(m, u)} \subseteq MatchKeys(m)
         /\ {EntryKey(m, u), PayoutKey(m), RefundKey(m, u)} \subseteq Keys
         /\ \A k \in MatchKeys(m) : k.ref = m /\ k.kind \in {"entry", "payout", "abort"}
<1>1. {EntryKey(m, u), PayoutKey(m), RefundKey(m, u)} \subseteq MatchKeys(m)
  BY DEF MatchKeys
<1>2. {EntryKey(m, u), PayoutKey(m), RefundKey(m, u)} \subseteq Keys
  BY DEF EntryKey, PayoutKey, RefundKey, Keys
<1>3. \A k \in MatchKeys(m) : k.ref = m /\ k.kind \in {"entry", "payout", "abort"}
  BY DEF MatchKeys, EntryKey, PayoutKey, RefundKey
<1> QED BY <1>1, <1>2, <1>3

-----------------------------------------------------------------------------
(* What a transaction does to the tables, put together. *)
LEMMA MutateEffect ==
  ASSUME NEW muts, Wellformed(muts), DistinctKeys(muts), IInv,
         Accepts(muts), MutateWallets(muts)
  PROVE  /\ balance' \in [Users -> Nat]
         /\ ledger' \in [Users -> Seq(LedgerEntry)]
         /\ LedgerExplainsBalance'
         /\ KeysUnique'
         /\ \A u \in Users : \A k :
              /\ Holds(u, k)' <=> Holds(u, k) \/ (u \in DOMAIN muts /\ muts[u].key = k)
              /\ Holds(u, k) => AmountOf(u, k)' = AmountOf(u, k)
              /\ u \in DOMAIN muts /\ muts[u].key = k => AmountOf(u, k)' = muts[u].amount
<1> USE DEF IInv
<1>1. balance' \in [Users -> Nat] /\ ledger' \in [Users -> Seq(LedgerEntry)]
  BY MutateType
<1>2. LedgerExplainsBalance' /\ KeysUnique'
  BY MutateExplains, MutateUnique
<1>3. \A u \in Users : \A k :
         Holds(u, k)' <=> Holds(u, k) \/ (u \in DOMAIN muts /\ muts[u].key = k)
  BY MutateHolds
<1>4. \A u \in Users : \A k :
         /\ Holds(u, k) => AmountOf(u, k)' = AmountOf(u, k)
         /\ u \in DOMAIN muts /\ muts[u].key = k => AmountOf(u, k)' = muts[u].amount
  BY MutateAmounts
<1> QED BY <1>1, <1>2, <1>3, <1>4

(* A step that leaves a match row and the entries under its keys alone     *)
(* preserves its part of the invariant.                                    *)
LEMMA MatchFrame ==
  ASSUME NEW m \in Matches, MatchInv(m),
         status'[m] = status[m], terms'[m] = terms[m], seats'[m] = seats[m],
         refunded'[m] = refunded[m], winner'[m] = winner[m], TypeOK,
         \A u \in Users : \A k \in MatchKeys(m) :
           /\ Holds(u, k)' <=> Holds(u, k)
           /\ Holds(u, k) => AmountOf(u, k)' = AmountOf(u, k)
  PROVE  MatchInv(m)'
<1>1. Humans(m)' = Humans(m) /\ Humans(m) \subseteq Users
  BY DEF Humans, TypeOK
<1>2. \A u \in Users : {PayoutKey(m), EntryKey(m, u), RefundKey(m, u)} \subseteq MatchKeys(m)
  BY DEF MatchKeys
<1>3. Staked(m)' <=> Staked(m)
  BY <1>1, <1>2 DEF Staked
<1>4. ASSUME NEW u \in Users
      PROVE  /\ Holds(u, PayoutKey(m))' <=> Holds(u, PayoutKey(m))
             /\ Holds(u, EntryKey(m, u))' <=> Holds(u, EntryKey(m, u))
             /\ Holds(u, RefundKey(m, u))' <=> Holds(u, RefundKey(m, u))
             /\ Holds(u, EntryKey(m, u)) => AmountOf(u, EntryKey(m, u))' = AmountOf(u, EntryKey(m, u))
             /\ Holds(u, RefundKey(m, u)) => AmountOf(u, RefundKey(m, u))' = AmountOf(u, RefundKey(m, u))
  BY <1>2
<1> QED BY <1>1, <1>3, <1>4 DEF MatchInv

(* The same for purchases. *)
LEMMA PurchaseFrame ==
  ASSUME NEW p \in Purchases, PurchaseInv(p),
         purchase'[p] = purchase[p], completing'[p] = completing[p],
         \A u \in Users : \A k \in Keys : Credits(k, p) =>
           /\ Holds(u, k)' <=> Holds(u, k)
           /\ Holds(u, k) => AmountOf(u, k)' = AmountOf(u, k)
  PROVE  PurchaseInv(p)'
<1>1. PurchaseKey(p) \in Keys /\ Credits(PurchaseKey(p), p)
  BY DEF PurchaseKey, Keys, Credits
<1>2. purchase[p].status = "COMPLETED" => Holds(purchase[p].user, PurchaseKey(p))'
  BY <1>1 DEF PurchaseInv
<1>3. ASSUME NEW u \in Users, NEW k \in Keys, Credits(k, p), Holds(u, k)'
      PROVE  /\ k = PurchaseKey(p)
             /\ purchase[p].status = "COMPLETED" /\ u = purchase[p].user
             /\ AmountOf(u, k)' = purchase[p].chips
  BY <1>3 DEF PurchaseInv
<1> QED BY <1>2, <1>3 DEF PurchaseInv, Credits

(* A step that moves no chips leaves every ledger fact as it was. *)
LEMMA NoMoney ==
  ASSUME UNCHANGED moneyVars
  PROVE  /\ \A u, k : Holds(u, k)' <=> Holds(u, k)
         /\ \A u, k : AmountOf(u, k)' = AmountOf(u, k)
         /\ LedgerExplainsBalance => LedgerExplainsBalance'
         /\ KeysUnique => KeysUnique'
BY DEF moneyVars, Holds, AmountOf, LedgerExplainsBalance, BalanceAt, KeysUnique

(* A transaction with a single mutation. *)
LEMMA OneMutation ==
  ASSUME NEW u \in Users, NEW k \in Keys, NEW n \in Int
  PROVE  /\ DOMAIN One(u, k, n) = {u}
         /\ One(u, k, n)[u].key = k /\ One(u, k, n)[u].amount = n
         /\ Wellformed(One(u, k, n)) /\ DistinctKeys(One(u, k, n))
BY DEF One, Mutation, Wellformed, DistinctKeys

(* Money that moves under keys no match uses disturbs no match. *)
LEMMA OtherMoney ==
  ASSUME IInv, NEW muts, Wellformed(muts), DistinctKeys(muts),
         Accepts(muts), MutateWallets(muts), UNCHANGED matchVars,
         \A u \in DOMAIN muts : muts[u].key.kind \in {"starting", "admin", "purchase"}
  PROVE  \A m \in Matches : MatchInv(m)'
<1> SUFFICES ASSUME NEW m \in Matches PROVE MatchInv(m)'
  OBVIOUS
<1>1. ASSUME NEW k \in MatchKeys(m), NEW u \in DOMAIN muts
      PROVE  muts[u].key # k
  <2>1. k.kind \in {"entry", "payout", "abort"}
    BY DEF MatchKeys, EntryKey, PayoutKey, RefundKey
  <2> QED BY <2>1
<1>2. \A u \in Users : \A k \in MatchKeys(m) :
        /\ Holds(u, k)' <=> Holds(u, k)
        /\ Holds(u, k) => AmountOf(u, k)' = AmountOf(u, k)
  BY <1>1, MutateEffect
<1> QED BY <1>2, MatchFrame DEF IInv, matchVars

(* Money that moves under no purchase key disturbs no purchase. *)
LEMMA OtherThanPurchases ==
  ASSUME IInv, NEW muts, Wellformed(muts), DistinctKeys(muts),
         Accepts(muts), MutateWallets(muts), UNCHANGED purchaseVars,
         \A u \in DOMAIN muts : muts[u].key.kind # "purchase"
  PROVE  \A p \in Purchases : PurchaseInv(p)'
<1> SUFFICES ASSUME NEW p \in Purchases PROVE PurchaseInv(p)'
  OBVIOUS
<1>1. ASSUME NEW k \in Keys, Credits(k, p), NEW u \in DOMAIN muts
      PROVE  muts[u].key # k
  BY <1>1 DEF Credits
<1>2. \A u \in Users : \A k \in Keys : Credits(k, p) =>
        /\ Holds(u, k)' <=> Holds(u, k)
        /\ Holds(u, k) => AmountOf(u, k)' = AmountOf(u, k)
  BY <1>1, MutateEffect
<1> QED BY <1>2, PurchaseFrame DEF IInv, purchaseVars

-----------------------------------------------------------------------------
(* Each action preserves the invariant. *)

(* A new player starts with one grant.                                     *)
LEMMA ProvisionPlayerKeeps ==
  ASSUME IInv, NEW u \in Users, ProvisionPlayer(u)
  PROVE  IInv'
<1> DEFINE muts == One(u, StartingKey(u), StartingChips)
<1>1. StartingKey(u) \in Keys /\ StartingChips \in Int
  BY DEF StartingKey, Keys
<1>2. /\ DOMAIN muts = {u} /\ muts[u].key = StartingKey(u)
      /\ Wellformed(muts) /\ DistinctKeys(muts)
  BY <1>1, OneMutation
<1>3. /\ Accepts(muts) /\ MutateWallets(muts)
      /\ UNCHANGED matchVars /\ UNCHANGED purchaseVars
  BY DEF ProvisionPlayer
<1>4. \A v \in DOMAIN muts : muts[v].key.kind = "starting"
  BY <1>2 DEF StartingKey
<1> HIDE DEF muts
<1>5. TypeOK'
  BY <1>2, <1>3, MutateEffect DEF IInv, TypeOK, matchVars, purchaseVars
<1> QED BY <1>2, <1>3, <1>4, <1>5, MutateEffect, OtherMoney, OtherThanPurchases DEF IInv

(* An adjustment moves chips under the key of its command.                 *)
LEMMA AdminAdjustmentKeeps ==
  ASSUME IInv, NEW c \in Commands, NEW u \in Users, NEW n \in Adjustments,
         AdminAdjustment(c, u, n)
  PROVE  IInv'
<1> DEFINE muts == One(u, AdminKey(c), n)
<1>1. AdminKey(c) \in Keys /\ n \in Int
  BY DEF AdminKey, Keys
<1>2. /\ DOMAIN muts = {u} /\ muts[u].key = AdminKey(c)
      /\ Wellformed(muts) /\ DistinctKeys(muts)
  BY <1>1, OneMutation
<1>3. /\ Accepts(muts) /\ MutateWallets(muts)
      /\ UNCHANGED matchVars /\ UNCHANGED purchaseVars
  BY DEF AdminAdjustment
<1>4. \A v \in DOMAIN muts : muts[v].key.kind = "admin"
  BY <1>2 DEF AdminKey
<1> HIDE DEF muts
<1>5. TypeOK'
  BY <1>2, <1>3, MutateEffect DEF IInv, TypeOK, matchVars, purchaseVars
<1> QED BY <1>2, <1>3, <1>4, <1>5, MutateEffect, OtherMoney, OtherThanPurchases DEF IInv

(* A new row has no entries yet.                                           *)
LEMMA CreateMatchRecordKeeps ==
  ASSUME IInv, NEW m \in Matches, NEW o \in Lineups, NEW e \in Economies,
         CreateMatchRecord(m, o, e)
  PROVE  IInv'
<1> USE DEF CreateMatchRecord
<1>1. UNCHANGED moneyVars /\ UNCHANGED purchaseVars
  OBVIOUS
<1>2. TypeOK'
  BY DEF IInv, TypeOK, moneyVars, purchaseVars, Lineups, Statuses
<1>3. \A p \in Purchases : PurchaseInv(p)'
  BY <1>1, NoMoney, PurchaseFrame DEF IInv, purchaseVars
<1>4. ASSUME NEW n \in Matches, n # m
      PROVE  MatchInv(n)'
  <2>1. /\ status'[n] = status[n] /\ terms'[n] = terms[n] /\ seats'[n] = seats[n]
        /\ refunded'[n] = refunded[n] /\ winner'[n] = winner[n]
    BY <1>4 DEF IInv, TypeOK
  <2> QED BY <1>1, <2>1, NoMoney, MatchFrame DEF IInv
<1>5. MatchInv(m)'
  <2>1. /\ status[m] = "NONE" /\ status'[m] = "WAITING" /\ MatchInv(m)
        /\ UNCHANGED <<refunded, winner>>
    BY DEF IInv, TypeOK
  <2>2. \A u \in Users : /\ ~Holds(u, EntryKey(m, u)) /\ ~Holds(u, PayoutKey(m))
                         /\ ~Holds(u, RefundKey(m, u))
    BY <2>1 DEF MatchInv
  <2>3. \A u \in Users : /\ ~Holds(u, EntryKey(m, u))' /\ ~Holds(u, PayoutKey(m))'
                         /\ ~Holds(u, RefundKey(m, u))'
    BY <1>1, <2>2, NoMoney
  <2> QED BY <2>1, <2>3 DEF MatchInv
<1> QED BY <1>1, <1>2, <1>3, <1>4, <1>5, NoMoney DEF IInv

(* Money that moves under the keys of one match disturbs no other match.   *)
LEMMA OtherMatches ==
  ASSUME IInv, NEW muts, Wellformed(muts), DistinctKeys(muts),
         Accepts(muts), MutateWallets(muts), NEW m \in Matches,
         \A u \in DOMAIN muts : muts[u].key \in MatchKeys(m),
         NEW n \in Matches, n # m,
         status'[n] = status[n], terms'[n] = terms[n], seats'[n] = seats[n],
         refunded'[n] = refunded[n], winner'[n] = winner[n]
  PROVE  MatchInv(n)'
<1>1. ASSUME NEW k \in MatchKeys(n), NEW u \in DOMAIN muts
      PROVE  muts[u].key # k
  <2>1. k.ref = n
    BY DEF MatchKeys, EntryKey, PayoutKey, RefundKey
  <2>2. \A x \in MatchKeys(m) : x.ref = m
    BY DEF MatchKeys, EntryKey, PayoutKey, RefundKey
  <2> QED BY <2>1, <2>2
<1>2. \A u \in Users : \A k \in MatchKeys(n) :
        /\ Holds(u, k)' <=> Holds(u, k)
        /\ Holds(u, k) => AmountOf(u, k)' = AmountOf(u, k)
  BY <1>1, MutateEffect
<1> QED BY <1>2, MatchFrame DEF IInv

(* The debits of entry fees form a transaction. *)
LEMMA EntryDebitsWellformed ==
  ASSUME TypeOK, NEW m \in Matches
  PROVE  /\ Wellformed(EntryDebits(m)) /\ DistinctKeys(EntryDebits(m))
         /\ DOMAIN EntryDebits(m) = Humans(m) /\ Humans(m) \subseteq Users
         /\ \A u \in Humans(m) : /\ EntryDebits(m)[u].key = EntryKey(m, u)
                                 /\ EntryDebits(m)[u].amount = -terms[m].fee
<1>1. Humans(m) \subseteq Users
  BY DEF Humans, TypeOK
<1>2. terms[m].fee \in Nat
  BY DEF TypeOK
<1>3. \A u \in Users : EntryKey(m, u) \in Keys
  BY DEF EntryKey, Keys
<1>4. \A u, v : EntryKey(m, u) = EntryKey(m, v) => u = v
  BY DEF EntryKey
<1> QED BY <1>1, <1>2, <1>3, <1>4 DEF EntryDebits, Mutation, Wellformed, DistinctKeys

(* The debits are of all humans, each of the fee.                          *)
LEMMA DeductEntryFeesKeeps ==
  ASSUME IInv, NEW m \in Matches, NEW fee, DeductEntryFees(m, fee)
  PROVE  IInv'
<1> DEFINE muts == EntryDebits(m)
<1>1. TypeOK /\ MatchInv(m)
  BY DEF IInv
<1>2. /\ Wellformed(muts) /\ DistinctKeys(muts)
      /\ DOMAIN muts = Humans(m) /\ Humans(m) \subseteq Users
      /\ \A u \in Humans(m) : /\ muts[u].key = EntryKey(m, u)
                              /\ muts[u].amount = -terms[m].fee
  BY <1>1, EntryDebitsWellformed
<1>3. /\ Accepts(muts) /\ MutateWallets(muts) /\ status[m] = "WAITING"
      /\ UNCHANGED matchVars /\ UNCHANGED purchaseVars
  BY DEF DeductEntryFees, CanDeductEntryFees
<1>4. \A u \in DOMAIN muts : muts[u].key.kind # "purchase" /\ muts[u].key \in MatchKeys(m)
  <2> SUFFICES ASSUME NEW u \in Humans(m)
               PROVE  EntryKey(m, u) \in MatchKeys(m) /\ EntryKey(m, u).kind # "purchase"
    BY <1>2
  <2> QED BY <1>2, MatchKeyFacts
<1> HIDE DEF muts
<1>5. TypeOK'
  BY <1>2, <1>3, MutateEffect DEF IInv, TypeOK, matchVars, purchaseVars
<1>6. \A p \in Purchases : PurchaseInv(p)'
  BY <1>2, <1>3, <1>4, OtherThanPurchases
<1>7. \A n \in Matches : n # m => MatchInv(n)'
  BY <1>2, <1>3, <1>4, OtherMatches DEF matchVars
<1>8. MatchInv(m)'
  <2>1. UNCHANGED <<status, terms, seats, refunded, winner>> /\ Humans(m)' = Humans(m)
    BY <1>3 DEF matchVars, Humans
  <2>2. ASSUME NEW u \in Users
        PROVE  /\ Holds(u, EntryKey(m, u))' <=> Holds(u, EntryKey(m, u)) \/ u \in Humans(m)
               /\ Holds(u, PayoutKey(m))' <=> Holds(u, PayoutKey(m))
               /\ Holds(u, RefundKey(m, u))' <=> Holds(u, RefundKey(m, u))
    <3>1. \A k : Holds(u, k)' <=> Holds(u, k) \/ (u \in Humans(m) /\ EntryKey(m, u) = k)
      BY <1>2, <1>3, MutateEffect
    <3> QED BY <3>1, KeysDiffer
  <2>3. ASSUME NEW u \in Users, Holds(u, EntryKey(m, u))'
        PROVE  u \in Humans(m) /\ AmountOf(u, EntryKey(m, u))' = -terms[m].fee
    <3>1. CASE u \in Humans(m)
      BY <1>2, <1>3, <3>1, MutateEffect
    <3>2. CASE Holds(u, EntryKey(m, u))
      BY <1>1, <1>2, <1>3, <3>2, MutateEffect DEF MatchInv
    <3> QED BY <2>2, <2>3, <3>1, <3>2
  <2>4. Staked(m)'
    BY <1>2, <2>1, <2>2 DEF Staked
  <2>5. \A u \in Users : ~Holds(u, PayoutKey(m))' /\ ~Holds(u, RefundKey(m, u))'
    BY <1>1, <1>3, <2>2 DEF MatchInv
  <2> QED BY <1>1, <1>3, <2>1, <2>3, <2>4, <2>5 DEF MatchInv
<1> QED BY <1>2, <1>3, <1>5, <1>6, <1>7, <1>8, MutateEffect DEF IInv

(* An active match is staked.                                              *)
LEMMA ActivateMatchKeeps ==
  ASSUME IInv, NEW m \in Matches, ActivateMatch(m)
  PROVE  IInv'
<1> USE DEF ActivateMatch
<1>1. UNCHANGED moneyVars /\ UNCHANGED purchaseVars
  OBVIOUS
<1>2. TypeOK'
  BY DEF IInv, TypeOK, moneyVars, purchaseVars, Statuses
<1>3. \A p \in Purchases : PurchaseInv(p)'
  BY <1>1, NoMoney, PurchaseFrame DEF IInv, purchaseVars
<1>4. ASSUME NEW n \in Matches, n # m
      PROVE  MatchInv(n)'
  BY <1>1, <1>4, NoMoney, MatchFrame DEF IInv, TypeOK
<1>5. MatchInv(m)'
  <2>1. status'[m] = "ACTIVE" /\ status[m] = "WAITING" /\ Staked(m) /\ MatchInv(m)
    BY DEF IInv, TypeOK
  <2>2. Humans(m)' = Humans(m)
    BY DEF Humans
  <2>3. Staked(m)'
    BY <1>1, <2>1, <2>2, NoMoney DEF Staked
  <2> QED BY <1>1, <2>1, <2>2, <2>3, NoMoney DEF MatchInv
<1> QED BY <1>1, <1>2, <1>3, <1>4, <1>5, NoMoney DEF IInv

(* A win of the bot pays nobody.                                           *)
LEMMA FinishBotWinKeeps ==
  ASSUME IInv, NEW m \in Matches, FinishBotWin(m)
  PROVE  IInv'
<1> USE DEF FinishBotWin
<1>1. UNCHANGED moneyVars /\ UNCHANGED purchaseVars
  OBVIOUS
<1>2. TypeOK'
  BY DEF IInv, TypeOK, moneyVars, purchaseVars, Statuses
<1>3. \A p \in Purchases : PurchaseInv(p)'
  BY <1>1, NoMoney, PurchaseFrame DEF IInv, purchaseVars
<1>4. ASSUME NEW n \in Matches, n # m
      PROVE  MatchInv(n)'
  BY <1>1, <1>4, NoMoney, MatchFrame DEF IInv, TypeOK
<1>5. MatchInv(m)'
  <2>1. status'[m] = "FINISHED" /\ status[m] \in {"WAITING", "ACTIVE"} /\ MatchInv(m)
    BY DEF IInv, TypeOK
  <2>2. Humans(m)' = Humans(m)
    BY DEF Humans
  <2>3. Staked(m)' <=> Staked(m)
    BY <1>1, <2>2, NoMoney DEF Staked
  <2> QED BY <1>1, <2>1, <2>2, <2>3, NoMoney DEF MatchInv
<1> QED BY <1>1, <1>2, <1>3, <1>4, <1>5, NoMoney DEF IInv

(* The prize is recorded with its winner.                                  *)
LEMMA FinalizeMatchPayoutKeeps ==
  ASSUME IInv, NEW m \in Matches, NEW w \in Users, NEW n, FinalizeMatchPayout(m, w, n)
  PROVE  IInv'
<1> DEFINE muts == One(w, PayoutKey(m), n)
<1>1. TypeOK /\ MatchInv(m)
  BY DEF IInv
<1>2. n \in Int /\ PayoutKey(m) \in Keys
  BY <1>1, MatchKeyFacts DEF FinalizeMatchPayout, CanFinalizeMatchPayout, TypeOK
<1>3. /\ Wellformed(muts) /\ DistinctKeys(muts) /\ DOMAIN muts = {w}
      /\ muts[w].key = PayoutKey(m)
  BY <1>2, OneMutation
<1>4. /\ Accepts(muts) /\ MutateWallets(muts)
      /\ status[m] = "ACTIVE" /\ w \in Humans(m)
      /\ status' = [status EXCEPT ![m] = "FINISHED"]
      /\ winner' = [winner EXCEPT ![m] = w]
      /\ UNCHANGED <<terms, seats, refunded>> /\ UNCHANGED purchaseVars
  BY DEF FinalizeMatchPayout, CanFinalizeMatchPayout
<1>5. \A u \in DOMAIN muts : muts[u].key.kind # "purchase" /\ muts[u].key \in MatchKeys(m)
  BY <1>3, MatchKeyFacts
<1> HIDE DEF muts
<1>6. TypeOK'
  BY <1>3, <1>4, MutateEffect DEF IInv, TypeOK, purchaseVars, Statuses
<1>7. \A p \in Purchases : PurchaseInv(p)'
  BY <1>3, <1>4, <1>5, OtherThanPurchases
<1>8. ASSUME NEW x \in Matches, x # m
      PROVE  MatchInv(x)'
  <2>1. /\ status'[x] = status[x] /\ winner'[x] = winner[x] /\ terms'[x] = terms[x]
        /\ seats'[x] = seats[x] /\ refunded'[x] = refunded[x]
    BY <1>1, <1>4, <1>8 DEF TypeOK
  <2> QED BY <1>3, <1>4, <1>5, <1>8, <2>1, OtherMatches
<1>9. MatchInv(m)'
  <2>1. /\ status'[m] = "FINISHED" /\ winner'[m] = w
        /\ Humans(m)' = Humans(m) /\ Humans(m) \subseteq Users
    BY <1>1, <1>4 DEF TypeOK, Humans
  <2>2. ASSUME NEW u \in Users
        PROVE  /\ Holds(u, PayoutKey(m))' <=> Holds(u, PayoutKey(m)) \/ u = w
               /\ Holds(u, EntryKey(m, u))' <=> Holds(u, EntryKey(m, u))
               /\ Holds(u, RefundKey(m, u))' <=> Holds(u, RefundKey(m, u))
               /\ Holds(u, EntryKey(m, u)) =>
                    AmountOf(u, EntryKey(m, u))' = AmountOf(u, EntryKey(m, u))
    <3>1. \A k : /\ Holds(u, k)' <=> Holds(u, k) \/ (u = w /\ PayoutKey(m) = k)
                 /\ Holds(u, k) => AmountOf(u, k)' = AmountOf(u, k)
      BY <1>3, <1>4, MutateEffect
    <3> QED BY <3>1, KeysDiffer
  <2>3. Staked(m) /\ Staked(m)'
    BY <1>1, <1>4, <2>1, <2>2 DEF MatchInv, Staked
  <2>4. \A u \in Users : ~Holds(u, PayoutKey(m)) /\ ~Holds(u, RefundKey(m, u))
    BY <1>1, <1>4 DEF MatchInv
  <2> QED BY <1>1, <1>4, <2>1, <2>2, <2>3, <2>4 DEF MatchInv
<1> QED BY <1>3, <1>4, <1>6, <1>7, <1>8, <1>9, MutateEffect DEF IInv

(* The credits of a refund form a transaction. *)
LEMMA RefundCreditsWellformed ==
  ASSUME TypeOK, NEW m \in Matches, MatchInv(m)
  PROVE  /\ Wellformed(RefundCredits(m)) /\ DistinctKeys(RefundCredits(m))
         /\ DOMAIN RefundCredits(m) = Debited(m) /\ Debited(m) \subseteq Users
         /\ \A u \in Debited(m) :
              /\ RefundCredits(m)[u].key = RefundKey(m, u)
              /\ RefundCredits(m)[u].amount = -AmountOf(u, EntryKey(m, u))
<1>1. Debited(m) \subseteq Users
  BY DEF Debited, Humans, TypeOK
<1>2. ASSUME NEW u \in Debited(m)
      PROVE  AmountOf(u, EntryKey(m, u)) \in Int
  BY <1>1 DEF Debited, MatchInv, TypeOK
<1>3. \A u \in Users : RefundKey(m, u) \in Keys
  BY MatchKeyFacts
<1>4. \A u, v : RefundKey(m, u) = RefundKey(m, v) => u = v
  BY KeysDiffer
<1> QED BY <1>1, <1>2, <1>3, <1>4 DEF RefundCredits, Mutation, Wellformed, DistinctKeys

(* Each debit is returned with the row aborted.                            *)
LEMMA RefundAbortedMatchKeeps ==
  ASSUME IInv, NEW m \in Matches, RefundAbortedMatch(m)
  PROVE  IInv'
<1> DEFINE muts == RefundCredits(m)
<1>1. TypeOK /\ MatchInv(m)
  BY DEF IInv
<1>2. /\ Wellformed(muts) /\ DistinctKeys(muts)
      /\ DOMAIN muts = Debited(m) /\ Debited(m) \subseteq Users
      /\ \A u \in Debited(m) : /\ muts[u].key = RefundKey(m, u)
                               /\ muts[u].amount = -AmountOf(u, EntryKey(m, u))
  BY <1>1, RefundCreditsWellformed
<1>3. /\ Accepts(muts) /\ MutateWallets(muts)
      /\ status[m] \notin {"NONE", "FINISHED"} /\ ~refunded[m]
      /\ status' = [status EXCEPT ![m] = "ABORTED"]
      /\ refunded' = [refunded EXCEPT ![m] = TRUE]
      /\ UNCHANGED <<terms, seats, winner>> /\ UNCHANGED purchaseVars
  BY DEF RefundAbortedMatch, CanRefundAbortedMatch
<1>4. \A u \in DOMAIN muts : muts[u].key.kind # "purchase" /\ muts[u].key \in MatchKeys(m)
  <2> SUFFICES ASSUME NEW u \in Debited(m)
               PROVE  RefundKey(m, u) \in MatchKeys(m) /\ RefundKey(m, u).kind # "purchase"
    BY <1>2
  <2> QED BY <1>2, MatchKeyFacts
<1> HIDE DEF muts
<1>5. TypeOK'
  BY <1>2, <1>3, MutateEffect DEF IInv, TypeOK, purchaseVars, Statuses
<1>6. \A p \in Purchases : PurchaseInv(p)'
  BY <1>2, <1>3, <1>4, OtherThanPurchases
<1>7. ASSUME NEW x \in Matches, x # m
      PROVE  MatchInv(x)'
  <2>1. /\ status'[x] = status[x] /\ winner'[x] = winner[x] /\ terms'[x] = terms[x]
        /\ seats'[x] = seats[x] /\ refunded'[x] = refunded[x]
    BY <1>1, <1>3, <1>7 DEF TypeOK
  <2> QED BY <1>2, <1>3, <1>4, <1>7, <2>1, OtherMatches
<1>8. MatchInv(m)'
  <2>1. /\ status'[m] = "ABORTED" /\ refunded'[m] = TRUE /\ winner'[m] = winner[m]
        /\ Humans(m)' = Humans(m) /\ Humans(m) \subseteq Users
    BY <1>1, <1>3 DEF TypeOK, Humans
  <2>2. /\ status[m] \notin {"ABORTED", "FINISHED"} /\ winner[m] = Bot
        /\ \A u \in Users : ~Holds(u, PayoutKey(m)) /\ ~Holds(u, RefundKey(m, u))
    BY <1>1, <1>3 DEF MatchInv
  <2>3. ASSUME NEW u \in Users
        PROVE  /\ ~Holds(u, PayoutKey(m))'
               /\ Holds(u, EntryKey(m, u))' <=> Holds(u, EntryKey(m, u))
               /\ Holds(u, RefundKey(m, u))' <=> u \in Debited(m)
               /\ Holds(u, EntryKey(m, u)) =>
                    AmountOf(u, EntryKey(m, u))' = AmountOf(u, EntryKey(m, u))
               /\ u \in Debited(m) =>
                    AmountOf(u, RefundKey(m, u))' = -AmountOf(u, EntryKey(m, u))
    <3>1. \A k : /\ Holds(u, k)' <=> Holds(u, k) \/ (u \in Debited(m) /\ RefundKey(m, u) = k)
                 /\ Holds(u, k) => AmountOf(u, k)' = AmountOf(u, k)
                 /\ u \in Debited(m) /\ RefundKey(m, u) = k => AmountOf(u, k)' = muts[u].amount
      <4>1. \A k : /\ Holds(u, k)' <=> Holds(u, k) \/ (u \in DOMAIN muts /\ muts[u].key = k)
                   /\ Holds(u, k) => AmountOf(u, k)' = AmountOf(u, k)
                   /\ u \in DOMAIN muts /\ muts[u].key = k => AmountOf(u, k)' = muts[u].amount
        BY <1>2, <1>3, MutateEffect
      <4> QED BY <1>2, <4>1
    <3>2. u \in Debited(m) => muts[u].amount = -AmountOf(u, EntryKey(m, u))
      BY <1>2
    <3> QED BY <2>2, <3>1, <3>2, KeysDiffer
  <2>4. Staked(m)' <=> Staked(m)
    BY <2>1, <2>3 DEF Staked
  <2>5. ASSUME NEW u \in Users
        PROVE  u \in Debited(m) <=> /\ Holds(u, EntryKey(m, u))
                                    /\ AmountOf(u, EntryKey(m, u)) < 0
    BY <1>1 DEF Debited, MatchInv
  <2>6. UNCHANGED terms
    BY <1>3
  <2> QED BY <1>1, <2>1, <2>2, <2>3, <2>4, <2>5, <2>6 DEF MatchInv
<1> QED BY <1>2, <1>3, <1>5, <1>6, <1>7, <1>8, MutateEffect DEF IInv

(* A new purchase has no credit.                                           *)
LEMMA CreatePendingPurchaseKeeps ==
  ASSUME IInv, NEW p \in Purchases, NEW u \in Users, NEW n \in Packs,
         CreatePendingPurchase(p, u, n)
  PROVE  IInv'
<1> USE DEF CreatePendingPurchase
<1>1. UNCHANGED moneyVars /\ UNCHANGED matchVars
  OBVIOUS
<1>2. TypeOK'
  BY DEF IInv, TypeOK, moneyVars, matchVars
<1>3. \A m \in Matches : MatchInv(m)'
  BY <1>1, NoMoney, MatchFrame DEF IInv, matchVars
<1>4. ASSUME NEW q \in Purchases
      PROVE  PurchaseInv(q)'
  <2>1. CASE q = p
    <3>1. /\ purchase'[p].status = "PENDING" /\ purchase'[p].user = u
          /\ purchase[p].status = "NONE" /\ PurchaseInv(p)
      BY DEF IInv, TypeOK
    <3>2. \A v \in Users : \A k \in Keys : Credits(k, p) => ~Holds(v, k)'
      BY <1>1, <3>1, NoMoney DEF PurchaseInv
    <3>3. purchase'[p].status # "NONE" => purchase'[p].user \in Users
      BY <3>1
    <3> QED BY <2>1, <3>1, <3>2, <3>3 DEF PurchaseInv, Credits
  <2>2. CASE q # p
    BY <1>1, <2>2, NoMoney, PurchaseFrame DEF IInv, TypeOK
  <2> QED BY <2>1, <2>2
<1> QED BY <1>1, <1>2, <1>3, <1>4, NoMoney DEF IInv

(* The status check of a completion writes nothing.                        *)
LEMMA BeginCompletePurchaseKeeps ==
  ASSUME IInv, NEW p \in Purchases, BeginCompletePurchase(p)
  PROVE  IInv'
<1> USE DEF BeginCompletePurchase
<1>1. UNCHANGED moneyVars /\ UNCHANGED matchVars
  OBVIOUS
<1>2. TypeOK'
  BY DEF IInv, TypeOK, moneyVars, matchVars
<1>3. \A m \in Matches : MatchInv(m)'
  BY <1>1, NoMoney, MatchFrame DEF IInv, matchVars
<1>4. ASSUME NEW q \in Purchases
      PROVE  PurchaseInv(q)'
  <2>1. /\ purchase'[q] = purchase[q] /\ PurchaseInv(q)
        /\ completing'[q] > 0 => purchase[q].status # "NONE"
    BY DEF IInv, TypeOK, PurchaseInv
  <2> QED BY <1>1, <2>1, NoMoney DEF PurchaseInv, Credits
<1> QED BY <1>1, <1>2, <1>3, <1>4, NoMoney DEF IInv

(* A completion that dies writes nothing.                                  *)
LEMMA LoseCompletePurchaseKeeps ==
  ASSUME IInv, NEW p \in Purchases, LoseCompletePurchase(p)
  PROVE  IInv'
<1> USE DEF LoseCompletePurchase
<1>1. UNCHANGED moneyVars /\ UNCHANGED matchVars
  OBVIOUS
<1>2. TypeOK'
  BY DEF IInv, TypeOK, moneyVars, matchVars
<1>3. \A m \in Matches : MatchInv(m)'
  BY <1>1, NoMoney, MatchFrame DEF IInv, matchVars
<1>4. ASSUME NEW q \in Purchases
      PROVE  PurchaseInv(q)'
  <2>1. /\ purchase'[q] = purchase[q] /\ PurchaseInv(q)
        /\ completing'[q] > 0 => purchase[q].status # "NONE"
    BY DEF IInv, TypeOK, PurchaseInv
  <2> QED BY <1>1, <2>1, NoMoney DEF PurchaseInv, Credits
<1> QED BY <1>1, <1>2, <1>3, <1>4, NoMoney DEF IInv

(* A completion credits the buyer, or finds the credit.                    *)
LEMMA CommitCompletePurchaseKeeps ==
  ASSUME IInv, NEW p \in Purchases, CommitCompletePurchase(p)
  PROVE  IInv'
<1>1. TypeOK /\ PurchaseInv(p) /\ completing[p] > 0
  BY DEF IInv, CommitCompletePurchase
<1>2. PICK u \in Users, n \in Int : u = purchase[p].user /\ n = purchase[p].chips
  <2>1. purchase[p].user \in Users /\ purchase[p].chips \in Int
    BY <1>1 DEF PurchaseInv, TypeOK
  <2> QED BY <2>1
<1> DEFINE muts == One(u, PurchaseKey(p), n)
<1>3. /\ Wellformed(muts) /\ DistinctKeys(muts) /\ DOMAIN muts = {u}
      /\ muts[u].key = PurchaseKey(p) /\ muts[u].amount = n
  <2>1. PurchaseKey(p) \in Keys
    BY DEF PurchaseKey, Keys
  <2>2. muts[u].amount = n
    BY DEF One, Mutation
  <2>3. /\ Wellformed(muts) /\ DistinctKeys(muts) /\ DOMAIN muts = {u}
        /\ muts[u].key = PurchaseKey(p)
    BY <2>1, OneMutation
  <2> QED BY <2>2, <2>3
<1>4. /\ Accepts(muts) /\ MutateWallets(muts) /\ UNCHANGED matchVars
      /\ purchase' = [purchase EXCEPT ![p].status = "COMPLETED"]
      /\ completing' = [completing EXCEPT ![p] = @ - 1]
  BY <1>2 DEF CommitCompletePurchase
<1>5. \A v \in DOMAIN muts : muts[v].key.kind = "purchase"
  BY <1>3 DEF PurchaseKey
<1> HIDE DEF muts
<1>6. TypeOK'
  <2>1. purchase' \in [Purchases -> [status : {"NONE", "PENDING", "COMPLETED"},
                                    user : Users \cup {Bot}, chips : Nat]]
    BY <1>1, <1>4 DEF TypeOK
  <2>2. completing' \in [Purchases -> 0..MaxCompleters]
    BY <1>1, <1>4 DEF TypeOK
  <2> QED BY <1>1, <1>3, <1>4, <2>1, <2>2, MutateEffect DEF TypeOK, matchVars
<1>7. \A m \in Matches : MatchInv(m)'
  BY <1>3, <1>4, <1>5, OtherMoney
<1>8. ASSUME NEW q \in Purchases
      PROVE  PurchaseInv(q)'
  <2>0. PurchaseInv(q)
    BY DEF IInv
  <2>1. \A v \in Users : \A k :
           /\ Holds(v, k)' <=> Holds(v, k) \/ (v = u /\ k = PurchaseKey(p))
           /\ Holds(v, k) => AmountOf(v, k)' = AmountOf(v, k)
           /\ v = u /\ k = PurchaseKey(p) => AmountOf(v, k)' = n
    <3>1. \A v \in Users : \A k :
            /\ Holds(v, k)' <=> Holds(v, k) \/ (v \in DOMAIN muts /\ muts[v].key = k)
            /\ Holds(v, k) => AmountOf(v, k)' = AmountOf(v, k)
            /\ v \in DOMAIN muts /\ muts[v].key = k => AmountOf(v, k)' = muts[v].amount
      BY <1>3, <1>4, MutateEffect
    <3> QED BY <1>3, <3>1
  <2>2. CASE q = p
    <3>1. /\ purchase'[p].status = "COMPLETED" /\ purchase'[p].user = u
          /\ purchase'[p].chips = n
      BY <1>1, <1>2, <1>4 DEF TypeOK
    <3>2. AmountOf(u, PurchaseKey(p))' = n
      BY <2>1
    <3>3. ASSUME NEW v \in Users, NEW k \in Keys, Credits(k, p), Holds(v, k)'
          PROVE  k = PurchaseKey(p) /\ v = u /\ AmountOf(v, k)' = n
      <4>1. CASE v = u /\ k = PurchaseKey(p)
        BY <3>2, <4>1
      <4>2. CASE ~(v = u /\ k = PurchaseKey(p))
        BY <1>1, <1>2, <2>1, <3>3, <4>2 DEF PurchaseInv
      <4> QED BY <4>1, <4>2
    <3>4. Holds(u, PurchaseKey(p))'
      BY <2>1
    <3> QED BY <1>2, <2>2, <3>1, <3>3, <3>4 DEF PurchaseInv, Credits
  <2>3. CASE q # p
    <3>1. ASSUME NEW k \in Keys, Credits(k, q) PROVE k # PurchaseKey(p)
      BY <2>3, <3>1 DEF PurchaseKey, Credits
    <3>2. purchase'[q] = purchase[q] /\ completing'[q] = completing[q]
      BY <1>1, <1>4, <2>3 DEF TypeOK
    <3> QED BY <2>0, <2>1, <3>1, <3>2, PurchaseFrame
  <2> QED BY <2>2, <2>3
<1> QED BY <1>3, <1>4, <1>6, <1>7, <1>8, MutateEffect DEF IInv

-----------------------------------------------------------------------------
(* What the transactions of a match record, for the modules built on the   *)
(* tables.                                                                 *)

(* deductEntryFees leaves every human of the match charged. *)
LEMMA DeductRecords ==
  ASSUME IInv, NEW m \in Matches, NEW fee, DeductEntryFees(m, fee)
  PROVE  /\ \A u \in Humans(m) : u \in Users /\ Holds(u, EntryKey(m, u))'
         /\ \A u \in Users : \A k : Holds(u, k) => Holds(u, k)'
<1> DEFINE muts == EntryDebits(m)
<1>1. /\ Wellformed(muts) /\ DOMAIN muts = Humans(m) /\ Humans(m) \subseteq Users
      /\ \A u \in Humans(m) : muts[u].key = EntryKey(m, u)
  BY EntryDebitsWellformed DEF IInv
<1>2. TypeOK /\ Accepts(muts) /\ MutateWallets(muts)
  BY DEF IInv, DeductEntryFees, CanDeductEntryFees
<1> HIDE DEF muts
<1> QED BY <1>1, <1>2, MutateHolds

(* finalizeMatchPayout leaves the prize with the winner. *)
LEMMA PayoutRecords ==
  ASSUME IInv, NEW m \in Matches, NEW w \in Users, NEW n, FinalizeMatchPayout(m, w, n)
  PROVE  /\ Holds(w, PayoutKey(m))'
         /\ \A u \in Users : \A k : Holds(u, k) => Holds(u, k)'
<1> DEFINE muts == One(w, PayoutKey(m), n)
<1>1. n \in Int /\ PayoutKey(m) \in Keys
  BY MatchKeyFacts DEF IInv, TypeOK, FinalizeMatchPayout, CanFinalizeMatchPayout
<1>2. Wellformed(muts) /\ DOMAIN muts = {w} /\ muts[w].key = PayoutKey(m)
  BY <1>1, OneMutation
<1>3. TypeOK /\ Accepts(muts) /\ MutateWallets(muts)
  BY DEF IInv, FinalizeMatchPayout, CanFinalizeMatchPayout
<1> HIDE DEF muts
<1> QED BY <1>2, <1>3, MutateHolds

(* refundAbortedMatch takes no entry back. *)
LEMMA RefundRecords ==
  ASSUME IInv, NEW m \in Matches, RefundAbortedMatch(m)
  PROVE  \A u \in Users : \A k : Holds(u, k) => Holds(u, k)'
<1> DEFINE muts == RefundCredits(m)
<1>1. Wellformed(muts)
  BY RefundCreditsWellformed DEF IInv
<1>2. TypeOK /\ Accepts(muts) /\ MutateWallets(muts)
  BY DEF IInv, RefundAbortedMatch, CanRefundAbortedMatch
<1> HIDE DEF muts
<1> QED BY <1>1, <1>2, MutateHolds

-----------------------------------------------------------------------------
(* The invariant holds initially ... *)
LEMMA InitInv == Init => IInv
<1> SUFFICES ASSUME Init PROVE IInv
  OBVIOUS
<1> USE DEF Init
<1>1. TypeOK
  BY DEF TypeOK, NoTerms, NoLineup, NoPurchase, Statuses, Seat
<1>2. \A u, k : u \in Users => ~Holds(u, k)
  BY DEF Holds
<1>3. LedgerExplainsBalance /\ KeysUnique
  BY DEF LedgerExplainsBalance, KeysUnique, BalanceAt
<1>4. \A m \in Matches : MatchInv(m)
  <2>1. \A m \in Matches : Humans(m) = {}
    BY DEF Humans, NoLineup, Seat
  <2> QED BY <1>2, <2>1 DEF MatchInv
<1>5. \A p \in Purchases : PurchaseInv(p)
  BY <1>2 DEF PurchaseInv, NoPurchase
<1> QED BY <1>1, <1>3, <1>4, <1>5 DEF IInv

(* ... and every step preserves it, one action at a time. *)
LEMMA NextInv == IInv /\ [Next]_vars => IInv'
<1> SUFFICES ASSUME IInv, [Next]_vars PROVE IInv'
  OBVIOUS
<1>1. ASSUME NEW u \in Users, ProvisionPlayer(u) PROVE IInv'
  BY <1>1, ProvisionPlayerKeeps
<1>2. ASSUME NEW c \in Commands, NEW u \in Users, NEW n \in Adjustments,
             AdminAdjustment(c, u, n)
      PROVE  IInv'
  BY <1>2, AdminAdjustmentKeeps
<1>3. ASSUME NEW m \in Matches, NEW o \in Lineups, NEW e \in Economies,
             CreateMatchRecord(m, o, e)
      PROVE  IInv'
  BY <1>3, CreateMatchRecordKeeps
<1>4. ASSUME NEW m \in Matches, NEW e \in Economies, DeductEntryFees(m, e.fee) PROVE IInv'
  BY <1>4, DeductEntryFeesKeeps
<1>5. ASSUME NEW m \in Matches, ActivateMatch(m) PROVE IInv'
  BY <1>5, ActivateMatchKeeps
<1>6. ASSUME NEW m \in Matches, NEW w \in Users, NEW e \in Economies,
             FinalizeMatchPayout(m, w, e.payout)
      PROVE  IInv'
  BY <1>6, FinalizeMatchPayoutKeeps
<1>7. ASSUME NEW m \in Matches, FinishBotWin(m) PROVE IInv'
  BY <1>7, FinishBotWinKeeps
<1>8. ASSUME NEW m \in Matches, RefundAbortedMatch(m) PROVE IInv'
  BY <1>8, RefundAbortedMatchKeeps
<1>9. ASSUME NEW p \in Purchases, NEW u \in Users, NEW n \in Packs,
             CreatePendingPurchase(p, u, n)
      PROVE  IInv'
  BY <1>9, CreatePendingPurchaseKeeps
<1>10. ASSUME NEW p \in Purchases, BeginCompletePurchase(p) PROVE IInv'
  BY <1>10, BeginCompletePurchaseKeeps
<1>11. ASSUME NEW p \in Purchases, CommitCompletePurchase(p) PROVE IInv'
  BY <1>11, CommitCompletePurchaseKeeps
<1>12. ASSUME NEW p \in Purchases, LoseCompletePurchase(p) PROVE IInv'
  BY <1>12, LoseCompletePurchaseKeeps
<1>13. CASE UNCHANGED vars
  <2>1. UNCHANGED moneyVars /\ UNCHANGED matchVars /\ UNCHANGED purchaseVars
    BY <1>13 DEF vars
  <2>2. TypeOK'
    BY <2>1 DEF IInv, TypeOK, moneyVars, matchVars, purchaseVars
  <2>3. \A m \in Matches : MatchInv(m)'
    BY <2>1, NoMoney, MatchFrame DEF IInv, matchVars
  <2>4. \A p \in Purchases : PurchaseInv(p)'
    BY <2>1, NoMoney, PurchaseFrame DEF IInv, purchaseVars
  <2> QED BY <2>1, <2>2, <2>3, <2>4, NoMoney DEF IInv
<1> QED
  BY <1>1, <1>2, <1>3, <1>4, <1>5, <1>6, <1>7, <1>8, <1>9, <1>10, <1>11, <1>12,
     <1>13 DEF Next

-----------------------------------------------------------------------------
(* The inductive invariant of the wallet tables, for any number of users,  *)
(* matches, purchases and concurrent callers.                              *)
THEOREM Invariance == Spec => []IInv
<1>1. Init => IInv
  BY InitInv
<1>2. IInv /\ [Next]_vars => IInv'
  BY NextInv
<1> QED BY <1>1, <1>2, PTL DEF Spec

(* Every table keeps its type; in particular no balance goes negative.     *)
THEOREM TypeCorrectness == Spec => []TypeOK
<1>1. IInv => TypeOK
  BY DEF IInv
<1> QED BY <1>1, Invariance, PTL

(* The ledger accounts for every balance, in every reachable state.        *)
THEOREM LedgerTheorem == Spec => [](LedgerExplainsBalance /\ KeysUnique)
<1>1. IInv => LedgerExplainsBalance /\ KeysUnique
  BY DEF IInv
<1> QED BY <1>1, Invariance, PTL

(* A match is settled one way, and its stakes are taken together.          *)
THEOREM SettlementTheorem == Spec => [](SettledOneWay /\ AllStakeOrNone)
<1>1. IInv => SettledOneWay /\ AllStakeOrNone
  BY DEF IInv, MatchInv, SettledOneWay, AllStakeOrNone
<1> QED BY <1>1, Invariance, PTL

(* A refund undoes exactly the debits of its match.                        *)
THEOREM RefundTheorem == Spec => []RefundUndoesDebit
<1>1. IInv => RefundUndoesDebit
  BY DEF IInv, MatchInv, RefundUndoesDebit
<1> QED BY <1>1, Invariance, PTL

(* The row of each purchase and unique keys leave a purchase one credit.   *)
LEMMA CreditedOnce == IInv => PurchaseCreditedOnce
<1> SUFFICES ASSUME IInv, NEW p \in Purchases, PurchaseInv(p)
             PROVE  /\ purchase[p].status = "COMPLETED" =>
                         \E i \in DOMAIN ledger[purchase[p].user] :
                            Credits(ledger[purchase[p].user][i].key, p)
                    /\ \A u, v \in Users : \A i \in DOMAIN ledger[u], j \in DOMAIN ledger[v] :
                         Credits(ledger[u][i].key, p) =>
                           /\ purchase[p].status = "COMPLETED" /\ u = purchase[p].user
                           /\ ledger[u][i].amount = purchase[p].chips
                           /\ Credits(ledger[v][j].key, p) => u = v /\ i = j
  BY DEF IInv, PurchaseCreditedOnce
<1>1. ASSUME NEW u \in Users, NEW i \in DOMAIN ledger[u], Credits(ledger[u][i].key, p)
      PROVE  /\ ledger[u][i].key = PurchaseKey(p)
             /\ purchase[p].status = "COMPLETED" /\ u = purchase[p].user
             /\ ledger[u][i].amount = purchase[p].chips
  <2>1. ledger[u][i].key \in Keys
    <3>1. ledger[u] \in Seq(LedgerEntry)
      BY DEF IInv, TypeOK
    <3>2. ledger[u][i] \in LedgerEntry
      BY <3>1
    <3> QED BY <3>2 DEF LedgerEntry
  <2>2. Holds(u, ledger[u][i].key)
    BY DEF Holds
  <2>3. AmountOf(u, ledger[u][i].key) = ledger[u][i].amount
    BY AmountIs DEF IInv
  <2> QED BY <1>1, <2>1, <2>2, <2>3 DEF PurchaseInv
<1>2. \A u, v \in Users : \A i \in DOMAIN ledger[u], j \in DOMAIN ledger[v] :
        Credits(ledger[u][i].key, p) /\ Credits(ledger[v][j].key, p) => u = v /\ i = j
  BY <1>1 DEF IInv, KeysUnique
<1>3. purchase[p].status = "COMPLETED" =>
        \E i \in DOMAIN ledger[purchase[p].user] : Credits(ledger[purchase[p].user][i].key, p)
  BY DEF PurchaseInv, Holds, Credits, PurchaseKey
<1> QED BY <1>1, <1>2, <1>3

(* However many completions run at once, a purchase is credited once and   *)
(* in full, to its buyer, when it is completed.                            *)
THEOREM PurchaseTheorem == Spec => []PurchaseCreditedOnce
<1>1. IInv => PurchaseCreditedOnce
  BY CreditedOnce
<1> QED BY <1>1, Invariance, PTL

-----------------------------------------------------------------------------
(* Finality.  Final(m) is what a step may not disturb once match m is over.*)
Final(m) == /\ status'[m] = status[m]
            /\ \A k \in MatchKeys(m) : Recorded(k)' = Recorded(k)

(* A transaction under the keys of no match, or of another one.            *)
LEMMA MoneyElsewhere ==
  ASSUME IInv, NEW muts, Wellformed(muts), DistinctKeys(muts),
         Accepts(muts), MutateWallets(muts),
         NEW m \in Matches, status'[m] = status[m],
         \A u \in DOMAIN muts : muts[u].key \notin MatchKeys(m)
  PROVE  Final(m)
<1>1. \A u \in Users : \A k \in MatchKeys(m) : Holds(u, k)' <=> Holds(u, k)
  BY MutateEffect
<1> QED BY <1>1 DEF Final, Recorded

(* A mutation under a key of another leaves a match as final as it was.          *)
LEMMA OneElsewhere ==
  ASSUME IInv, NEW u \in Users, NEW k \in Keys, NEW n \in Int,
         Accepts(One(u, k, n)), MutateWallets(One(u, k, n)),
         NEW m \in Matches, status'[m] = status[m], k \notin MatchKeys(m)
  PROVE  Final(m)
<1> DEFINE muts == One(u, k, n)
<1>1. /\ Wellformed(muts) /\ DistinctKeys(muts) /\ DOMAIN muts = {u} /\ muts[u].key = k
      /\ Accepts(muts) /\ MutateWallets(muts)
  BY OneMutation
<1> HIDE DEF muts
<1> QED BY <1>1, MoneyElsewhere

(* A step that moves no chips records nothing.                             *)
LEMMA NoMoneyAtAll ==
  ASSUME UNCHANGED moneyVars, NEW m \in Matches, status'[m] = status[m]
  PROVE  Final(m)
BY NoMoney DEF Final, Recorded

(* Keys of two matches differ, and are not the keys of anything else.      *)
LEMMA KeysOfMatches ==
  ASSUME NEW m \in Matches, NEW n \in Matches, NEW k \in MatchKeys(n)
  PROVE  /\ n # m => k \notin MatchKeys(m)
         /\ k.kind \in {"entry", "payout", "abort"}
BY DEF MatchKeys, EntryKey, PayoutKey, RefundKey

(* No step moves chips in the name of a match that is over. *)
LEMMA NextFinal ==
  ASSUME IInv, Next, NEW m \in Matches, status[m] \in Terminal
  PROVE  Final(m)
<1> USE DEF Terminal
<1>0. TypeOK /\ \A n \in Matches : MatchInv(n)
  BY DEF IInv
<1>1. ASSUME NEW u \in Users, ProvisionPlayer(u) PROVE Final(m)
  <2>1. StartingKey(u) \in Keys /\ StartingChips \in Int /\ StartingKey(u).kind = "starting"
    BY DEF StartingKey, Keys
  <2>2. StartingKey(u) \notin MatchKeys(m)
    BY <2>1, KeysOfMatches
  <2>3. /\ Accepts(One(u, StartingKey(u), StartingChips))
        /\ MutateWallets(One(u, StartingKey(u), StartingChips))
        /\ status'[m] = status[m]
    BY <1>1 DEF ProvisionPlayer, matchVars
  <2> QED BY <2>1, <2>2, <2>3, OneElsewhere
<1>2. ASSUME NEW c \in Commands, NEW u \in Users, NEW n \in Adjustments,
             AdminAdjustment(c, u, n)
      PROVE  Final(m)
  <2>1. AdminKey(c) \in Keys /\ n \in Int /\ AdminKey(c).kind = "admin"
    BY DEF AdminKey, Keys
  <2>2. AdminKey(c) \notin MatchKeys(m)
    BY <2>1, KeysOfMatches
  <2>3. /\ Accepts(One(u, AdminKey(c), n)) /\ MutateWallets(One(u, AdminKey(c), n))
        /\ status'[m] = status[m]
    BY <1>2 DEF AdminAdjustment, matchVars
  <2> QED BY <2>1, <2>2, <2>3, OneElsewhere
<1>3. ASSUME NEW n \in Matches, NEW o \in Lineups, NEW e \in Economies,
             CreateMatchRecord(n, o, e)
      PROVE  Final(m)
  <2>1. n # m /\ UNCHANGED moneyVars /\ status'[m] = status[m]
    BY <1>0, <1>3 DEF CreateMatchRecord, TypeOK
  <2> QED BY <2>1, NoMoneyAtAll
<1>4. ASSUME NEW n \in Matches, NEW fee, DeductEntryFees(n, fee) PROVE Final(m)
  <2>1. /\ n # m /\ status'[m] = status[m]
        /\ Accepts(EntryDebits(n)) /\ MutateWallets(EntryDebits(n))
    BY <1>4 DEF DeductEntryFees, CanDeductEntryFees, matchVars
  <2>2. \A u \in DOMAIN EntryDebits(n) : EntryDebits(n)[u].key \in MatchKeys(n)
    <3>1. \A u \in Humans(n) : EntryKey(n, u) \in MatchKeys(n)
      BY <1>0, EntryDebitsWellformed, MatchKeyFacts
    <3> QED BY <1>0, <3>1, EntryDebitsWellformed
  <2> QED BY <1>0, <2>1, <2>2, EntryDebitsWellformed, KeysOfMatches, MoneyElsewhere
<1>5. ASSUME NEW n \in Matches, ActivateMatch(n) PROVE Final(m)
  <2>1. n # m /\ UNCHANGED moneyVars /\ status'[m] = status[m]
    BY <1>0, <1>5 DEF ActivateMatch, TypeOK
  <2> QED BY <2>1, NoMoneyAtAll
<1>6. ASSUME NEW n \in Matches, NEW w \in Users, NEW c, FinalizeMatchPayout(n, w, c)
      PROVE  Final(m)
  <2>1. /\ n # m /\ status'[m] = status[m] /\ c \in Int
        /\ Accepts(One(w, PayoutKey(n), c)) /\ MutateWallets(One(w, PayoutKey(n), c))
    BY <1>0, <1>6 DEF FinalizeMatchPayout, CanFinalizeMatchPayout, TypeOK
  <2>2. PayoutKey(n) \in Keys /\ PayoutKey(n) \in MatchKeys(n)
    BY MatchKeyFacts
  <2>3. PayoutKey(n) \notin MatchKeys(m)
    BY <2>1, <2>2, KeysOfMatches
  <2> QED BY <2>1, <2>2, <2>3, OneElsewhere
<1>7. ASSUME NEW n \in Matches, FinishBotWin(n) PROVE Final(m)
  <2>1. n # m /\ UNCHANGED moneyVars /\ status'[m] = status[m]
    BY <1>0, <1>7 DEF FinishBotWin, TypeOK
  <2> QED BY <2>1, NoMoneyAtAll
<1>8. ASSUME NEW n \in Matches, RefundAbortedMatch(n) PROVE Final(m)
  <2>1. n # m
    BY <1>0, <1>8 DEF RefundAbortedMatch, CanRefundAbortedMatch, MatchInv
  <2>2. /\ status'[m] = status[m]
        /\ Accepts(RefundCredits(n)) /\ MutateWallets(RefundCredits(n))
    BY <1>0, <1>8, <2>1 DEF RefundAbortedMatch, CanRefundAbortedMatch, TypeOK
  <2>3. \A u \in DOMAIN RefundCredits(n) : RefundCredits(n)[u].key \in MatchKeys(n)
    <3>1. \A u \in Debited(n) : RefundKey(n, u) \in MatchKeys(n)
      BY <1>0, RefundCreditsWellformed, MatchKeyFacts
    <3> QED BY <1>0, <3>1, RefundCreditsWellformed
  <2> QED BY <1>0, <2>1, <2>2, <2>3, RefundCreditsWellformed, KeysOfMatches, MoneyElsewhere
<1>9. ASSUME NEW p \in Purchases, NEW u \in Users, NEW n \in Packs,
             CreatePendingPurchase(p, u, n)
      PROVE  Final(m)
  BY <1>9, NoMoneyAtAll DEF CreatePendingPurchase, matchVars
<1>10. ASSUME NEW p \in Purchases, BeginCompletePurchase(p) PROVE Final(m)
  BY <1>10, NoMoneyAtAll DEF BeginCompletePurchase, matchVars
<1>11. ASSUME NEW p \in Purchases, CommitCompletePurchase(p) PROVE Final(m)
  <2>1. PICK u \in Users, n \in Int : u = purchase[p].user /\ n = purchase[p].chips
    <3>1. purchase[p].user \in Users /\ purchase[p].chips \in Int
      BY <1>0, <1>11 DEF IInv, CommitCompletePurchase, PurchaseInv, TypeOK
    <3> QED BY <3>1
  <2>2. PurchaseKey(p) \in Keys /\ PurchaseKey(p).kind = "purchase"
    BY DEF PurchaseKey, Keys
  <2>3. /\ Accepts(One(u, PurchaseKey(p), n)) /\ MutateWallets(One(u, PurchaseKey(p), n))
        /\ status'[m] = status[m]
    BY <1>11, <2>1 DEF CommitCompletePurchase, matchVars
  <2>4. PurchaseKey(p) \notin MatchKeys(m)
    BY <2>2, KeysOfMatches
  <2> QED BY <2>2, <2>3, <2>4, OneElsewhere
<1>12. ASSUME NEW p \in Purchases, LoseCompletePurchase(p) PROVE Final(m)
  BY <1>12, NoMoneyAtAll DEF LoseCompletePurchase, matchVars
<1> QED
  BY <1>1, <1>2, <1>3, <1>4, <1>5, <1>6, <1>7, <1>8, <1>9, <1>10, <1>11, <1>12 DEF Next

(* Settlement is final: no late or repeated call, of any caller, changes   *)
(* the status of a finished or aborted match or moves chips in its name.   *)
THEOREM FinalityTheorem == Spec => SettlementIsFinal
<1>1. IInv /\ [Next]_vars =>
        [\A m \in Matches : status[m] \in Terminal =>
           /\ status'[m] = status[m]
           /\ \A k \in MatchKeys(m) : Recorded(k)' = Recorded(k)]_vars
  BY NextFinal DEF Final
<1> QED BY <1>1, Invariance, PTL DEF Spec, SettlementIsFinal

-----------------------------------------------------------------------------
(* The escrow accounts.  The tables implement an account per match: a step *)
(* of Wallet is one step of Escrow or moves nothing there.                 *)

HIDE WalletAssumption

(* The phase of a match, and what leaves it alone.                         *)

(* A match whose row and entry fees are untouched stays in its phase.      *)
LEMMA SamePhase ==
  ASSUME TypeOK, NEW m \in Matches,
         status'[m] = status[m], seats'[m] = seats[m], winner'[m] = winner[m],
         \A u \in Users : Holds(u, EntryKey(m, u))' <=> Holds(u, EntryKey(m, u))
  PROVE  EscrowPhase(m)' = EscrowPhase(m) /\ Humans(m)' = Humans(m)
<1>1. Humans(m)' = Humans(m) /\ Humans(m) \subseteq Users
  BY DEF Humans, TypeOK
<1>2. Staked(m)' <=> Staked(m)
  BY <1>1 DEF Staked
<1> QED BY <1>1, <1>2 DEF EscrowPhase

(* Money under the keys of others leaves a match in its phase. *)
LEMMA PhaseElsewhere ==
  ASSUME IInv, NEW muts, Wellformed(muts), DistinctKeys(muts),
         Accepts(muts), MutateWallets(muts),
         NEW m \in Matches, \A u \in DOMAIN muts : muts[u].key \notin MatchKeys(m),
         status'[m] = status[m], seats'[m] = seats[m], winner'[m] = winner[m]
  PROVE  EscrowPhase(m)' = EscrowPhase(m) /\ Humans(m)' = Humans(m)
<1>1. \A u \in Users : EntryKey(m, u) \in MatchKeys(m)
  BY DEF MatchKeys
<1>2. \A u \in Users : Holds(u, EntryKey(m, u))' <=> Holds(u, EntryKey(m, u))
  BY <1>1, MutateEffect
<1> QED BY <1>2, SamePhase DEF IInv

(* No money at all does so too. *)
LEMMA PhaseWithoutMoney ==
  ASSUME IInv, UNCHANGED moneyVars, NEW m \in Matches,
         status'[m] = status[m], seats'[m] = seats[m], winner'[m] = winner[m]
  PROVE  EscrowPhase(m)' = EscrowPhase(m) /\ Humans(m)' = Humans(m)
<1>1. \A u \in Users : Holds(u, EntryKey(m, u))' <=> Holds(u, EntryKey(m, u))
  BY NoMoney
<1> QED BY <1>1, SamePhase DEF IInv

-----------------------------------------------------------------------------
(* The shapes of the steps of Escrow. *)

(* Accounts that stay are a stuttering step.                               *)
LEMMA EscrowStutters ==
  ASSUME \A m \in Matches : EscrowPhase(m)' = EscrowPhase(m) /\ Humans(m)' = Humans(m),
         balance' = balance, terms' = terms
  PROVE  UNCHANGED EscrowAccount!vars
BY DEF EscrowAccount!vars

(* A step on one match leaves the accounts of the others.                  *)
LEMMA EscrowElsewhere ==
  ASSUME \A m \in Matches : EscrowPhase(m)' = EscrowPhase(m) /\ Humans(m)' = Humans(m),
         NEW u \in Users, balance'[u] \in Nat, balance' = [balance EXCEPT ![u] = balance'[u]],
         terms' = terms
  PROVE  EscrowAccount!Next
<1>1. EscrowAccount!Elsewhere
  BY DEF EscrowAccount!Elsewhere
<1> QED BY <1>1 DEF EscrowAccount!Next

(* An account that closes with nobody paid.                                *)
LEMMA EscrowCloses ==
  ASSUME NEW m \in Matches, NEW from, NEW to,
         EscrowPhase(m) = from, EscrowPhase(m)' = to, Humans(m)' = Humans(m),
         \A x \in Matches \ {m} : EscrowPhase(x)' = EscrowPhase(x) /\ Humans(x)' = Humans(x),
         terms' = terms
  PROVE  EscrowAccount!Close(m, from, to)
BY DEF EscrowAccount!Close

(* What a transaction under one key does to balances. *)
LEMMA OneTransfer ==
  ASSUME IInv, NEW u \in Users, NEW k \in Keys, NEW n \in Int,
         Accepts(One(u, k, n)), MutateWallets(One(u, k, n))
  PROVE  /\ balance'[u] \in Nat /\ balance' = [balance EXCEPT ![u] = balance'[u]]
         /\ ~Recorded(k) => balance'[u] = balance[u] + n
<1> DEFINE muts == One(u, k, n)
<1>2. /\ Wellformed(muts) /\ DistinctKeys(muts) /\ DOMAIN muts = {u} /\ muts[u].key = k
      /\ muts[u].amount = n /\ Accepts(muts) /\ MutateWallets(muts)
  BY OneMutation
<1> HIDE DEF muts
<1>3. balance' \in [Users -> Nat] /\ balance \in [Users -> Nat]
  BY <1>2, MutateEffect DEF IInv, TypeOK
<1>4. \A v \in Users \ {u} : balance'[v] = balance[v]
  BY <1>2, MutateKeeps
<1>5. balance' = [balance EXCEPT ![u] = balance'[u]]
  BY <1>3, <1>4
<1>6. ~Recorded(k) => balance'[u] = balance[u] + n
  BY <1>2, MutateAppends DEF IInv
<1> QED BY <1>3, <1>5, <1>6

(* Such a transaction outside the matches is income or spending elsewhere. *)
LEMMA OneIsElsewhere ==
  ASSUME IInv, NEW u \in Users, NEW k \in Keys, NEW n \in Int,
         Accepts(One(u, k, n)), MutateWallets(One(u, k, n)),
         UNCHANGED matchVars, k.kind \notin {"entry", "payout", "abort"}
  PROVE  EscrowAccount!Next
<1>1. /\ Wellformed(One(u, k, n)) /\ DistinctKeys(One(u, k, n))
      /\ DOMAIN One(u, k, n) = {u} /\ One(u, k, n)[u].key = k
  BY DEF One, Mutation, Wellformed, DistinctKeys
<1> PICK muts : muts = One(u, k, n)
  OBVIOUS
<1>2. /\ Wellformed(muts) /\ DistinctKeys(muts) /\ DOMAIN muts = {u} /\ muts[u].key = k
      /\ Accepts(muts) /\ MutateWallets(muts)
  BY <1>1, Zenon
<1>3. ASSUME NEW m \in Matches
      PROVE  EscrowPhase(m)' = EscrowPhase(m) /\ Humans(m)' = Humans(m)
  <2>1. \A v \in DOMAIN muts : muts[v].key \notin MatchKeys(m)
    BY <1>2, KeysOfMatches
  <2> QED BY <1>2, <2>1, PhaseElsewhere DEF matchVars
<1>4. balance'[u] \in Nat /\ balance' = [balance EXCEPT ![u] = balance'[u]]
  BY OneTransfer
<1> QED BY <1>3, <1>4, EscrowElsewhere DEF matchVars

-----------------------------------------------------------------------------
(* The actions on matches. *)

(* A new row opens an account.                                             *)
LEMMA CreateOpens ==
  ASSUME IInv, NEW m \in Matches, NEW o \in Lineups, NEW e \in Economies,
         CreateMatchRecord(m, o, e)
  PROVE  EscrowAccount!Next
<1>1. /\ TypeOK /\ MatchInv(m) /\ status[m] = "NONE" /\ UNCHANGED <<moneyVars, winner>>
      /\ status' = [status EXCEPT ![m] = "WAITING"] /\ terms' = [terms EXCEPT ![m] = e]
      /\ seats' = [seats EXCEPT ![m] = o]
  BY DEF IInv, CreateMatchRecord
<1>2. \A x \in Matches \ {m} : EscrowPhase(x)' = EscrowPhase(x) /\ Humans(x)' = Humans(x)
  BY <1>1, PhaseWithoutMoney DEF TypeOK
<1>3. EscrowPhase(m) = "none"
  BY <1>1 DEF EscrowPhase
<1>4. Humans(m)' = {o[s] : s \in Seat} \ {Bot}
  BY <1>1 DEF Humans, TypeOK
<1>5. o["A"] \in Users \cup {Bot} /\ o["B"] \in Users \cup {Bot} /\ o["A"] # o["B"]
  BY DEF Lineups, Seat
<1>6. Humans(m)' \in SUBSET Users /\ Humans(m)' # {}
  BY <1>4, <1>5 DEF Seat
<1>7. \A u \in Users : ~Holds(u, EntryKey(m, u))'
  BY <1>1, NoMoney DEF MatchInv
<1>8. ~Staked(m)'
  BY <1>6, <1>7 DEF Staked
<1>9. EscrowPhase(m)' = "open"
  BY <1>1, <1>8 DEF EscrowPhase, TypeOK
<1>10. EscrowAccount!Open(m)
  BY <1>1, <1>2, <1>3, <1>6, <1>9 DEF EscrowAccount!Open, moneyVars
<1> QED BY <1>10 DEF EscrowAccount!Next

(* The debits are the stake of all, or there was one.                      *)
LEMMA DeductStakes ==
  ASSUME IInv, NEW m \in Matches, NEW fee, DeductEntryFees(m, fee)
  PROVE  [EscrowAccount!Next]_EscrowAccount!vars
<1>1. PICK muts : muts = EntryDebits(m)
  OBVIOUS
<1>2. /\ TypeOK /\ MatchInv(m) /\ status[m] = "WAITING" /\ UNCHANGED matchVars
      /\ Accepts(muts) /\ MutateWallets(muts)
  BY <1>1 DEF IInv, DeductEntryFees, CanDeductEntryFees
<1>3. /\ Wellformed(muts) /\ DistinctKeys(muts)
      /\ DOMAIN muts = Humans(m) /\ Humans(m) \subseteq Users
      /\ \A u \in Humans(m) : muts[u].key = EntryKey(m, u) /\ muts[u].amount = -terms[m].fee
  BY <1>1, <1>2, EntryDebitsWellformed
<1>4. \A u \in Humans(m) : EntryKey(m, u) \in MatchKeys(m)
  BY <1>3 DEF MatchKeys
<1>5. \A x \in Matches \ {m} : EscrowPhase(x)' = EscrowPhase(x) /\ Humans(x)' = Humans(x)
  <2> SUFFICES ASSUME NEW x \in Matches \ {m}
               PROVE  EscrowPhase(x)' = EscrowPhase(x) /\ Humans(x)' = Humans(x)
    OBVIOUS
  <2>1. \A u \in DOMAIN muts : muts[u].key \notin MatchKeys(x)
    BY <1>3, <1>4, KeysOfMatches
  <2> QED BY <1>2, <1>3, <2>1, PhaseElsewhere DEF matchVars
<1>6. Humans(m)' = Humans(m)
  BY <1>2 DEF Humans, matchVars
<1>7. Staked(m)'
  BY <1>2, <1>3, <1>6, MutateHolds DEF Staked
<1>8. EscrowPhase(m)' = "held"
  BY <1>2, <1>7 DEF EscrowPhase, matchVars
<1>9. CASE Staked(m)
  <2>1. \A u \in Humans(m) : Recorded(muts[u].key)
    BY <1>3, <1>9 DEF Staked, Recorded
  <2>2. \A u \in Users : balance'[u] = balance[u]
    BY <1>2, <1>3, <2>1, MutateKeeps
  <2>3. balance' = balance
    <3>1. balance' \in [Users -> Nat]
      BY <1>2, <1>3, MutateType
    <3>2. balance \in [Users -> Nat]
      BY <1>2 DEF TypeOK
    <3> QED BY <2>2, <3>1, <3>2
  <2>4. EscrowPhase(m) = "held"
    BY <1>2, <1>9 DEF EscrowPhase
  <2>5. UNCHANGED EscrowAccount!vars
    BY <1>2, <1>5, <1>6, <1>8, <2>3, <2>4, EscrowStutters DEF matchVars
  <2> QED BY <2>5
<1>10. CASE ~Staked(m)
  <2>1. \A u \in Humans(m) : ~Recorded(muts[u].key)
    BY <1>2, <1>3, <1>10 DEF MatchInv, Accepts
  <2>2. EscrowPhase(m) = "open"
    BY <1>2, <1>10 DEF EscrowPhase
  <2>3. terms[m].fee \in Nat /\ \A u \in Users : balance[u] \in Nat
    BY <1>2 DEF TypeOK
  <2>4. \A u \in Humans(m) : balance[u] >= terms[m].fee
    BY <1>2, <1>3, <2>1, <2>3 DEF Accepts
  <2>5. \A u \in Users : balance'[u] = IF u \in Humans(m) THEN balance[u] + (-terms[m].fee)
                                       ELSE balance[u]
    BY <1>2, <1>3, <2>1, MutateKeeps, MutateAppends
  <2>6. balance' = [u \in Users |-> IF u \in Humans(m) THEN balance[u] + (-terms[m].fee)
                                    ELSE balance[u]]
    BY <1>2, <1>3, <2>5, MutateType
  <2>7. balance' = EscrowAccount!Gain(Humans(m), -terms[m].fee)
    BY <2>6 DEF EscrowAccount!Gain
  <2>8. EscrowAccount!Close(m, "open", "held")
    BY <1>2, <1>5, <1>6, <1>8, <2>2, EscrowCloses DEF matchVars
  <2>9. EscrowAccount!Stake(m)
    BY <2>4, <2>7, <2>8 DEF EscrowAccount!Stake
  <2> QED BY <2>9 DEF EscrowAccount!Next
<1> QED BY <1>9, <1>10

(* The statuses that leave a staked match held. *)
LEMMA ActivateStutters ==
  ASSUME IInv, NEW m \in Matches, ActivateMatch(m)
  PROVE  UNCHANGED EscrowAccount!vars
<1>1. /\ TypeOK /\ status[m] = "WAITING" /\ Staked(m)
      /\ status' = [status EXCEPT ![m] = "ACTIVE"]
      /\ UNCHANGED <<moneyVars, terms, seats, refunded, winner, purchaseVars>>
  BY DEF IInv, ActivateMatch
<1>2. \A x \in Matches \ {m} : EscrowPhase(x)' = EscrowPhase(x) /\ Humans(x)' = Humans(x)
  BY <1>1, PhaseWithoutMoney DEF TypeOK
<1>3. Humans(m)' = Humans(m)
  BY <1>1 DEF Humans
<1>4. EscrowPhase(m) = "held" /\ EscrowPhase(m)' = "held"
  BY <1>1 DEF EscrowPhase, TypeOK
<1> QED BY <1>1, <1>2, <1>3, <1>4, EscrowStutters DEF moneyVars

(* The payout gives the prize to one player.                               *)
LEMMA PayoutPays ==
  ASSUME IInv, NEW m \in Matches, NEW w \in Users, NEW n, FinalizeMatchPayout(m, w, n)
  PROVE  EscrowAccount!Next
<1>1. /\ TypeOK /\ MatchInv(m) /\ status[m] = "ACTIVE" /\ n = terms[m].payout /\ w \in Humans(m)
      /\ Accepts(One(w, PayoutKey(m), n)) /\ MutateWallets(One(w, PayoutKey(m), n))
      /\ status' = [status EXCEPT ![m] = "FINISHED"] /\ winner' = [winner EXCEPT ![m] = w]
      /\ UNCHANGED <<terms, seats, refunded>>
  BY DEF IInv, FinalizeMatchPayout, CanFinalizeMatchPayout
<1>2. PayoutKey(m) \in Keys /\ PayoutKey(m) \in MatchKeys(m) /\ n \in Int
  BY <1>1, MatchKeyFacts DEF TypeOK
<1> DEFINE muts == One(w, PayoutKey(m), n)
<1>3. /\ Wellformed(muts) /\ DistinctKeys(muts) /\ DOMAIN muts = {w}
      /\ muts[w].key = PayoutKey(m) /\ Accepts(muts) /\ MutateWallets(muts)
  BY <1>1, <1>2, OneMutation, ZenonT(30)
<1> HIDE DEF muts
<1>4. ASSUME NEW x \in Matches \ {m}
      PROVE  EscrowPhase(x)' = EscrowPhase(x) /\ Humans(x)' = Humans(x)
  <2>1. \A u \in DOMAIN muts : muts[u].key \notin MatchKeys(x)
    BY <1>2, <1>3, KeysOfMatches
  <2>2. status'[x] = status[x] /\ seats'[x] = seats[x] /\ winner'[x] = winner[x]
    BY <1>1 DEF TypeOK
  <2> QED BY <1>3, <2>1, <2>2, PhaseElsewhere
<1>5. Humans(m)' = Humans(m)
  BY <1>1 DEF Humans
<1>6. EscrowPhase(m) = "held"
  BY <1>1 DEF EscrowPhase
<1>7. EscrowPhase(m)' = "paid"
  <2>1. status'[m] = "FINISHED" /\ winner'[m] = w /\ w # Bot
    BY <1>1, WalletAssumption DEF TypeOK
  <2> QED BY <2>1 DEF EscrowPhase
<1>8. ~Recorded(PayoutKey(m))
  BY <1>1 DEF MatchInv, Recorded
<1>9. balance' = [balance EXCEPT ![w] = balance[w] + n]
  BY <1>1, <1>2, <1>8, OneTransfer
<1>10. balance' = EscrowAccount!Gain({w}, terms[m].payout)
  BY <1>1, <1>9 DEF EscrowAccount!Gain, TypeOK
<1>11. EscrowAccount!Close(m, "held", "paid")
  BY <1>1, <1>4, <1>5, <1>6, <1>7, EscrowCloses
<1>12. EscrowAccount!Pay(m)
  BY <1>1, <1>10, <1>11 DEF EscrowAccount!Pay
<1> QED BY <1>12 DEF EscrowAccount!Next

(* A win of the bot leaves the stakes with the house, if there are any.    *)
LEMMA BotWinKeepsOrCancels ==
  ASSUME IInv, NEW m \in Matches, FinishBotWin(m)
  PROVE  EscrowAccount!Next
<1>1. /\ TypeOK /\ MatchInv(m) /\ status[m] \in {"WAITING", "ACTIVE"}
      /\ status' = [status EXCEPT ![m] = "FINISHED"]
      /\ UNCHANGED <<moneyVars, terms, seats, refunded, winner, purchaseVars>>
  BY DEF IInv, FinishBotWin
<1>2. \A x \in Matches \ {m} : EscrowPhase(x)' = EscrowPhase(x) /\ Humans(x)' = Humans(x)
  BY <1>1, PhaseWithoutMoney DEF TypeOK
<1>3. Humans(m)' = Humans(m) /\ Humans(m) \subseteq Users
  BY <1>1 DEF Humans, TypeOK
<1>4. Staked(m)' <=> Staked(m)
  BY <1>1, <1>3, NoMoney DEF Staked
<1>5. status'[m] = "FINISHED" /\ winner'[m] = Bot
  BY <1>1 DEF MatchInv, TypeOK
<1>6. balance' = balance
  BY <1>1 DEF moneyVars
<1>7. CASE Staked(m)
  <2>1. EscrowPhase(m) = "held" /\ EscrowPhase(m)' = "kept"
    BY <1>1, <1>4, <1>5, <1>7 DEF EscrowPhase
  <2>2. EscrowAccount!Keep(m)
    BY <1>1, <1>2, <1>3, <1>6, <2>1, EscrowCloses DEF EscrowAccount!Keep
  <2> QED BY <2>2 DEF EscrowAccount!Next
<1>8. CASE ~Staked(m)
  <2>1. EscrowPhase(m) = "open" /\ EscrowPhase(m)' = "cancelled"
    BY <1>1, <1>4, <1>5, <1>8 DEF EscrowPhase, MatchInv
  <2>2. EscrowAccount!Cancel(m)
    BY <1>1, <1>2, <1>3, <1>6, <2>1, EscrowCloses DEF EscrowAccount!Cancel
  <2> QED BY <2>2 DEF EscrowAccount!Next
<1> QED BY <1>7, <1>8

(* A refund returns the stakes, if there are any.                          *)
LEMMA RefundReturnsOrCancels ==
  ASSUME IInv, NEW m \in Matches, RefundAbortedMatch(m)
  PROVE  EscrowAccount!Next
<1>1. PICK muts : muts = RefundCredits(m)
  OBVIOUS
<1>2. /\ TypeOK /\ MatchInv(m) /\ status[m] \in {"WAITING", "ACTIVE"}
      /\ Accepts(muts) /\ MutateWallets(muts)
      /\ status' = [status EXCEPT ![m] = "ABORTED"]
      /\ UNCHANGED <<terms, seats, winner>>
  BY <1>1 DEF IInv, RefundAbortedMatch, CanRefundAbortedMatch, MatchInv, TypeOK, Statuses
<1>3. /\ Wellformed(muts) /\ DistinctKeys(muts)
      /\ DOMAIN muts = Debited(m) /\ Debited(m) \subseteq Users
      /\ \A u \in Debited(m) : muts[u].key = RefundKey(m, u)
                               /\ muts[u].amount = -AmountOf(u, EntryKey(m, u))
  BY <1>1, <1>2, RefundCreditsWellformed
<1>4. \A u \in Debited(m) : RefundKey(m, u) \in MatchKeys(m)
  BY <1>3 DEF MatchKeys
<1>5. ASSUME NEW x \in Matches \ {m}
      PROVE  EscrowPhase(x)' = EscrowPhase(x) /\ Humans(x)' = Humans(x)
  <2>1. \A u \in DOMAIN muts : muts[u].key \notin MatchKeys(x)
    BY <1>3, <1>4, KeysOfMatches
  <2>2. status'[x] = status[x] /\ seats'[x] = seats[x] /\ winner'[x] = winner[x]
    BY <1>2 DEF TypeOK
  <2> QED BY <1>3, <1>2, <2>1, <2>2, PhaseElsewhere
<1>6. Humans(m)' = Humans(m) /\ Humans(m) \subseteq Users
  BY <1>2 DEF Humans, TypeOK
<1>7. \A u \in Users : Holds(u, EntryKey(m, u))' <=> Holds(u, EntryKey(m, u))
  <2>1. \A u \in Users : \A v \in DOMAIN muts : muts[v].key # EntryKey(m, u)
    BY <1>3, KeysDiffer
  <2> QED BY <1>2, <1>3, <2>1, MutateHolds
<1>8. Staked(m)' <=> Staked(m)
  BY <1>6, <1>7 DEF Staked
<1>9. status'[m] = "ABORTED"
  BY <1>2 DEF TypeOK
<1>10. terms[m].fee \in Nat /\ balance \in [Users -> Nat] /\ balance' \in [Users -> Nat]
  <2>1. balance' \in [Users -> Nat]
    BY <1>2, <1>3, MutateType
  <2> QED BY <1>2, <2>1 DEF TypeOK
<1>11. \A u \in Debited(m) : ~Recorded(muts[u].key)
  BY <1>2, <1>3 DEF MatchInv, Accepts
<1>12. \A u \in Users : balance'[u] = IF u \in Debited(m) THEN balance[u] + muts[u].amount
                                      ELSE balance[u]
  BY <1>2, <1>3, <1>11, MutateKeeps, MutateAppends
<1>13. CASE Staked(m)
  <2>1. EscrowPhase(m) = "held" /\ EscrowPhase(m)' = "returned"
    BY <1>2, <1>8, <1>9, <1>13 DEF EscrowPhase
  <2>2. \A u \in Humans(m) : Holds(u, EntryKey(m, u)) /\ AmountOf(u, EntryKey(m, u)) = -terms[m].fee
    BY <1>2, <1>6, <1>13 DEF Staked, MatchInv
  <2>3. ASSUME NEW u \in Users
        PROVE  balance'[u] = IF u \in Humans(m) THEN balance[u] + terms[m].fee ELSE balance[u]
    <3>1. CASE u \in Debited(m)
      <4>1. u \in Humans(m)
        BY <3>1 DEF Debited
      <4>2. muts[u].amount = -(-terms[m].fee)
        BY <1>3, <2>2, <3>1, <4>1
      <4> QED BY <1>10, <1>12, <3>1, <4>1, <4>2
    <3>2. CASE u \in Humans(m) /\ u \notin Debited(m)
      <4>1. ~(-terms[m].fee < 0)
        BY <2>2, <3>2 DEF Debited
      <4>2. terms[m].fee = 0
        BY <1>10, <4>1
      <4>3. balance'[u] = balance[u] /\ balance[u] \in Nat
        BY <1>10, <1>12, <3>2
      <4> QED BY <3>2, <4>2, <4>3
    <3>3. CASE u \notin Humans(m)
      <4>1. u \notin Debited(m)
        BY <3>3 DEF Debited
      <4> QED BY <1>12, <3>3, <4>1
    <3> QED BY <3>1, <3>2, <3>3
  <2>4. balance' = EscrowAccount!Gain(Humans(m), terms[m].fee)
    <3>1. balance' = [u \in Users |-> IF u \in Humans(m) THEN balance[u] + terms[m].fee
                                      ELSE balance[u]]
      BY <1>10, <2>3
    <3> QED BY <3>1 DEF EscrowAccount!Gain
  <2>5. EscrowAccount!Close(m, "held", "returned")
    BY <1>2, <1>5, <1>6, <2>1, EscrowCloses
  <2>6. EscrowAccount!Return(m)
    BY <2>4, <2>5 DEF EscrowAccount!Return
  <2> QED BY <2>6 DEF EscrowAccount!Next
<1>14. CASE ~Staked(m)
  <2>1. EscrowPhase(m) = "open" /\ EscrowPhase(m)' = "cancelled"
    BY <1>2, <1>8, <1>9, <1>14 DEF EscrowPhase, MatchInv
  <2>2. Debited(m) = {}
    BY <1>2, <1>3, <1>14 DEF Debited, MatchInv
  <2>3. balance' = balance
    BY <1>10, <1>12, <2>2
  <2>4. EscrowAccount!Close(m, "open", "cancelled")
    BY <1>2, <1>5, <1>6, <2>1, EscrowCloses
  <2>5. EscrowAccount!Cancel(m)
    BY <2>3, <2>4 DEF EscrowAccount!Cancel
  <2> QED BY <2>5 DEF EscrowAccount!Next
<1> QED BY <1>13, <1>14

-----------------------------------------------------------------------------
(* The refinement. *)

(* The initial tables are accounts nobody opened ...                       *)
LEMMA InitEscrow == Init => EscrowAccount!Init
<1> SUFFICES ASSUME Init PROVE EscrowAccount!Init
  OBVIOUS
<1>1. \A m \in Matches : Humans(m) = {} /\ EscrowPhase(m) = "none"
  BY DEF Init, Humans, NoLineup, Seat, EscrowPhase
<1> QED BY <1>1 DEF Init, NoTerms, EscrowAccount!Init

(* ... and every transaction is a step of an account, or none.             *)
LEMMA NextEscrow == IInv /\ [Next]_vars => [EscrowAccount!Next]_EscrowAccount!vars
<1> SUFFICES ASSUME IInv, [Next]_vars PROVE [EscrowAccount!Next]_EscrowAccount!vars
  OBVIOUS
<1>1. ASSUME NEW u \in Users, ProvisionPlayer(u) PROVE EscrowAccount!Next
  <2>1. StartingKey(u) \in Keys /\ StartingChips \in Int /\ StartingKey(u).kind = "starting"
    BY WalletAssumption DEF StartingKey, Keys
  <2>2. /\ Accepts(One(u, StartingKey(u), StartingChips))
        /\ MutateWallets(One(u, StartingKey(u), StartingChips)) /\ UNCHANGED matchVars
    BY <1>1 DEF ProvisionPlayer
  <2>3. StartingKey(u).kind \notin {"entry", "payout", "abort"}
    BY <2>1
  <2> QED BY <2>1, <2>2, <2>3, OneIsElsewhere
<1>2. ASSUME NEW c \in Commands, NEW u \in Users, NEW n \in Adjustments,
             AdminAdjustment(c, u, n)
      PROVE  EscrowAccount!Next
  <2>1. AdminKey(c) \in Keys /\ n \in Int /\ AdminKey(c).kind = "admin"
    BY WalletAssumption DEF AdminKey, Keys
  <2>2. /\ Accepts(One(u, AdminKey(c), n)) /\ MutateWallets(One(u, AdminKey(c), n))
        /\ UNCHANGED matchVars
    BY <1>2 DEF AdminAdjustment
  <2>3. AdminKey(c).kind \notin {"entry", "payout", "abort"}
    BY <2>1
  <2> QED BY <2>1, <2>2, <2>3, OneIsElsewhere
<1>3. ASSUME NEW m \in Matches, NEW o \in Lineups, NEW e \in Economies,
             CreateMatchRecord(m, o, e)
      PROVE  EscrowAccount!Next
  BY <1>3, CreateOpens
<1>4. ASSUME NEW m \in Matches, NEW e \in Economies, DeductEntryFees(m, e.fee)
      PROVE  [EscrowAccount!Next]_EscrowAccount!vars
  BY <1>4, DeductStakes
<1>5. ASSUME NEW m \in Matches, ActivateMatch(m) PROVE UNCHANGED EscrowAccount!vars
  BY <1>5, ActivateStutters
<1>6. ASSUME NEW m \in Matches, NEW w \in Users, NEW e \in Economies,
             FinalizeMatchPayout(m, w, e.payout)
      PROVE  EscrowAccount!Next
  BY <1>6, PayoutPays
<1>7. ASSUME NEW m \in Matches, FinishBotWin(m) PROVE EscrowAccount!Next
  BY <1>7, BotWinKeepsOrCancels
<1>8. ASSUME NEW m \in Matches, RefundAbortedMatch(m) PROVE EscrowAccount!Next
  BY <1>8, RefundReturnsOrCancels
<1>9. ASSUME NEW p \in Purchases, CommitCompletePurchase(p) PROVE EscrowAccount!Next
  <2>1. PICK u \in Users, n \in Int : u = purchase[p].user /\ n = purchase[p].chips
    <3>1. purchase[p].user \in Users /\ purchase[p].chips \in Int
      BY <1>9 DEF IInv, CommitCompletePurchase, PurchaseInv, TypeOK
    <3> QED BY <3>1
  <2>2. PurchaseKey(p) \in Keys /\ PurchaseKey(p).kind = "purchase"
    BY DEF PurchaseKey, Keys
  <2>3. /\ Accepts(One(u, PurchaseKey(p), n)) /\ MutateWallets(One(u, PurchaseKey(p), n))
        /\ UNCHANGED matchVars
    BY <1>9, <2>1 DEF CommitCompletePurchase
  <2>4. PurchaseKey(p).kind \notin {"entry", "payout", "abort"}
    BY <2>2
  <2> QED BY <2>2, <2>3, <2>4, OneIsElsewhere
<1>10. ASSUME UNCHANGED moneyVars, UNCHANGED matchVars
       PROVE  UNCHANGED EscrowAccount!vars
  BY <1>10, PhaseWithoutMoney, EscrowStutters DEF moneyVars, matchVars
<1>11. ASSUME NEW p \in Purchases,
              \/ \E u \in Users, n \in Packs : CreatePendingPurchase(p, u, n)
              \/ BeginCompletePurchase(p)
              \/ LoseCompletePurchase(p)
       PROVE  UNCHANGED EscrowAccount!vars
  BY <1>10, <1>11 DEF CreatePendingPurchase, BeginCompletePurchase, LoseCompletePurchase
<1>12. CASE UNCHANGED vars
  BY <1>10, <1>12 DEF vars
<1> QED
  BY <1>1, <1>2, <1>3, <1>4, <1>5, <1>6, <1>7, <1>8, <1>9, <1>11, <1>12 DEF Next

(* The ledger, the idempotency keys and the match rows together keep an    *)
(* escrow account: all stake, then one winner takes the prize, or the      *)
(* house keeps it, or everybody gets the stake back.                       *)
THEOREM RefinementTheorem == Spec => ImplementsEscrow
<1>1. Init => EscrowAccount!Init
  BY InitEscrow
<1>2. IInv /\ [Next]_vars => [EscrowAccount!Next]_EscrowAccount!vars
  BY NextEscrow
<1> QED BY <1>1, <1>2, Invariance, PTL DEF Spec, ImplementsEscrow, EscrowAccount!Spec

=============================================================================
