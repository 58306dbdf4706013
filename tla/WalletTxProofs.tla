--------------------------- MODULE WalletTxProofs ---------------------------
(* Proofs about WalletTx, for any number of transactions, users, matches   *)
(* and purchases: the locks make every commit one step of Wallet, and the  *)
(* transactions never wait for each other in a circle.                     *)
EXTENDS WalletTx, WalletProofs, FiniteSetTheorems

USE WalletAssumption

-----------------------------------------------------------------------------
(* The order of wallets. *)

(* A set of natural numbers has a least element. *)
LEMMA LeastNumber ==
  ASSUME NEW T \in SUBSET Nat, T # {}
  PROVE  \E n \in T : \A m \in T : n <= m
<1>1. IsWellFoundedOn(OpToRel(<, Nat), Nat)
  BY NatLessThanWellFounded
<1>2. PICK n \in T : \A m \in T : <<m, n>> \notin OpToRel(<, Nat)
  BY <1>1, WFMin
<1>3. \A m \in T : ~(m < n)
  BY <1>2 DEF OpToRel
<1> QED BY <1>3

(* The next player of a transaction is the least of those left. *)
LEMMA NextPlayerIsLeast ==
  ASSUME NEW w, tx[w].left \in SUBSET Users, tx[w].left # {}
  PROVE  /\ NextPlayer(w) \in tx[w].left
         /\ \A v \in tx[w].left : Rank[NextPlayer(w)] <= Rank[v]
<1> DEFINE ranks == {Rank[u] : u \in tx[w].left}
<1>1. ranks \in SUBSET Nat /\ ranks # {}
  BY WalletTxAssumption
<1>2. PICK n \in ranks : \A m \in ranks : n <= m
  BY <1>1, LeastNumber
<1>3. \E u \in tx[w].left : \A v \in tx[w].left : Rank[u] <= Rank[v]
  BY <1>2
<1> QED BY <1>3 DEF NextPlayer

-----------------------------------------------------------------------------
(* Calls and what they ask of the wallets. *)

(* The five kinds of calls. *)
LEMMA CallKinds ==
  ASSUME NEW c \in Calls
  PROVE  /\ \/ c.op = "deduct" /\ c.ref \in Matches
                 /\ \E e \in Economies : c.n = e.fee
            \/ c.op = "payout" /\ c.ref \in Matches /\ c.who \in Users
                 /\ \E e \in Economies : c.n = e.payout
            \/ c.op = "refund" /\ c.ref \in Matches
            \/ c.op = "adjust" /\ c.ref \in Commands /\ c.who \in Users /\ c.n \in Adjustments
            \/ c.op = "complete" /\ c.ref \in Purchases
         /\ c.n \in Int
BY DEF Calls, Call

(* The prefix of the idempotency keys of a call. *)
KindOf(op) ==
  CASE op = "deduct"   -> "entry"
    [] op = "payout"   -> "payout"
    [] op = "refund"   -> "abort"
    [] op = "adjust"   -> "admin"
    [] op = "complete" -> "purchase"

(* A call for one player. *)
LEMMA OnePlayer ==
  ASSUME NEW c, NEW u \in Users, NEW k \in Keys, NEW n \in Int,
         MutationsOf(c) = One(u, k, n), PlayersOf(c) = {u},
         k.kind = KindOf(c.op), k.ref = c.ref
  PROVE  /\ Wellformed(MutationsOf(c)) /\ DistinctKeys(MutationsOf(c))
         /\ DOMAIN MutationsOf(c) \subseteq PlayersOf(c)
         /\ PlayersOf(c) \subseteq Users
         /\ \A v \in DOMAIN MutationsOf(c) :
              /\ MutationsOf(c)[v].key.kind = KindOf(c.op)
              /\ MutationsOf(c)[v].key.ref = c.ref
<1>1. /\ DOMAIN One(u, k, n) = {u} /\ One(u, k, n)[u].key = k
      /\ Wellformed(One(u, k, n)) /\ DistinctKeys(One(u, k, n))
  BY DEF One, Mutation, Wellformed, DistinctKeys
<1> QED BY <1>1

(* What a permitted call asks of the wallets is a transaction of Wallet:   *)
(* at most one mutation of each player, under keys that name its row.      *)
LEMMA MutationsFacts ==
  ASSUME IInv, NEW c \in Calls, Permits(c),
         \A p \in Purchases : purchase[p].status # "NONE"
  PROVE  /\ Wellformed(MutationsOf(c)) /\ DistinctKeys(MutationsOf(c))
         /\ DOMAIN MutationsOf(c) \subseteq PlayersOf(c)
         /\ PlayersOf(c) \subseteq Users
         /\ \A u \in DOMAIN MutationsOf(c) :
              /\ MutationsOf(c)[u].key.kind = KindOf(c.op)
              /\ MutationsOf(c)[u].key.ref = c.ref
<1>1. CASE c.op = "deduct"
  <2>1. c.ref \in Matches /\ TypeOK /\ c.n = terms[c.ref].fee
    BY <1>1, CallKinds DEF IInv, Permits
  <2>2. MutationsOf(c) = EntryDebits(c.ref)
    BY <1>1, <2>1 DEF MutationsOf, EntryDebits
  <2>3. PlayersOf(c) = Humans(c.ref) /\ KindOf(c.op) = "entry"
    BY <1>1 DEF PlayersOf, KindOf
  <2>4. \A u : EntryKey(c.ref, u).kind = "entry" /\ EntryKey(c.ref, u).ref = c.ref
    BY DEF EntryKey
  <2> QED BY <2>1, <2>2, <2>3, <2>4, EntryDebitsWellformed
<1>2. CASE c.op = "payout"
  <2>1. PICK u \in Users, n \in Int, k \in Keys : u = c.who /\ n = c.n /\ k = PayoutKey(c.ref)
    <3>1. c.who \in Users /\ c.n \in Int
      BY <1>2, CallKinds
    <3>2. PayoutKey(c.ref) \in Keys
      BY <1>2, CallKinds DEF PayoutKey, Keys
    <3> QED BY <3>1, <3>2
  <2>2. /\ MutationsOf(c) = One(u, k, n) /\ PlayersOf(c) = {u}
        /\ KindOf(c.op) = "payout"
    BY <1>2, <2>1 DEF MutationsOf, PlayersOf, KindOf
  <2>3. k.kind = "payout" /\ k.ref = c.ref
    BY <2>1 DEF PayoutKey
  <2> QED BY <2>2, <2>3, OnePlayer
<1>3. CASE c.op = "refund"
  <2>1. c.ref \in Matches /\ TypeOK /\ MatchInv(c.ref)
    BY <1>3, CallKinds DEF IInv
  <2>2. MutationsOf(c) = RefundCredits(c.ref)
    BY <1>3 DEF MutationsOf
  <2>3. PlayersOf(c) = Humans(c.ref) /\ KindOf(c.op) = "abort"
    BY <1>3 DEF PlayersOf, KindOf
  <2>4. \A u : RefundKey(c.ref, u).kind = "abort" /\ RefundKey(c.ref, u).ref = c.ref
    BY DEF RefundKey
  <2>5. Debited(c.ref) \subseteq Humans(c.ref) /\ Humans(c.ref) \subseteq Users
    BY <2>1 DEF Debited, Humans, TypeOK
  <2> QED BY <2>1, <2>2, <2>3, <2>4, <2>5, RefundCreditsWellformed
<1>4. CASE c.op = "adjust"
  <2>1. PICK u \in Users, n \in Int, k \in Keys : u = c.who /\ n = c.n /\ k = AdminKey(c.ref)
    <3>1. c.who \in Users /\ c.n \in Int
      BY <1>4, CallKinds
    <3>2. AdminKey(c.ref) \in Keys
      BY <1>4, CallKinds DEF AdminKey, Keys
    <3> QED BY <3>1, <3>2
  <2>2. /\ MutationsOf(c) = One(u, k, n) /\ PlayersOf(c) = {u}
        /\ KindOf(c.op) = "admin"
    BY <1>4, <2>1 DEF MutationsOf, PlayersOf, KindOf
  <2>3. k.kind = "admin" /\ k.ref = c.ref
    BY <2>1 DEF AdminKey
  <2> QED BY <2>2, <2>3, OnePlayer
<1>5. CASE c.op = "complete"
  <2>1. PICK u \in Users, n \in Int, k \in Keys : u = purchase[c.ref].user /\ n = purchase[c.ref].chips /\ k = PurchaseKey(c.ref)
    <3>1. purchase[c.ref].user \in Users /\ purchase[c.ref].chips \in Int
      <4>1. c.ref \in Purchases
        BY <1>5, CallKinds
      <4>2. PurchaseInv(c.ref) /\ purchase[c.ref].status # "NONE" /\ TypeOK
        BY <4>1 DEF IInv
      <4> QED BY <4>1, <4>2 DEF TypeOK, PurchaseInv
    <3>2. PurchaseKey(c.ref) \in Keys
      BY <1>5, CallKinds DEF PurchaseKey, Keys
    <3> QED BY <3>1, <3>2
  <2>2. /\ MutationsOf(c) = One(u, k, n) /\ PlayersOf(c) = {u}
        /\ KindOf(c.op) = "purchase"
    BY <1>5, <2>1 DEF MutationsOf, PlayersOf, KindOf
  <2>3. k.kind = "purchase" /\ k.ref = c.ref
    BY <2>1 DEF PurchaseKey
  <2> QED BY <2>2, <2>3, OnePlayer
<1> QED BY <1>1, <1>2, <1>3, <1>4, <1>5, CallKinds

-----------------------------------------------------------------------------
(* A commit is one step of Wallet. *)

(* What is known of a transaction that works on the wallets. *)
LEMMA WorkerFacts ==
  ASSUME TxInv, NEW w \in Workers, Working(w)
  PROVE  /\ tx[w].call \in Calls /\ Permits(tx[w].call) /\ WorkInv(w)
         /\ Wellformed(MutationsOf(tx[w].call)) /\ DistinctKeys(MutationsOf(tx[w].call))
         /\ DOMAIN MutationsOf(tx[w].call) \subseteq Users
<1>1. /\ IInv /\ WorkerInv(w)
      /\ \A p \in Purchases : purchase[p].status # "NONE"
  BY DEF TxInv
<1>2. tx[w].call \in Calls /\ WorkInv(w)
  BY <1>1 DEF WorkerInv, Working, At
<1>3. Permits(tx[w].call)
  BY <1>2 DEF WorkInv
<1> QED BY <1>1, <1>2, <1>3, MutationsFacts

(* A transaction that has visited all its players commits its mutations,   *)
(* as mutateWallet would have made them alone.                             *)
LEMMA CommitMutates ==
  ASSUME TxInv, NEW w \in Workers, Commit(w)
  PROVE  Accepts(MutationsOf(tx[w].call)) /\ MutateWallets(MutationsOf(tx[w].call))
<1> DEFINE muts    == MutationsOf(tx[w].call)
           entries == tx[w].entries
<1>1. At(w, "players") /\ tx[w].left = {}
  BY DEF Commit
<1>2. /\ DOMAIN muts \subseteq Users /\ Wellformed(muts)
      /\ DOMAIN entries \subseteq DOMAIN muts
      /\ \A u \in DOMAIN muts :
           IF u \in DOMAIN entries
           THEN /\ ~Recorded(muts[u].key)
                /\ entries[u] = [key |-> muts[u].key, amount |-> muts[u].amount,
                                 balanceAfter |-> balance[u] + muts[u].amount]
           ELSE Holds(u, muts[u].key) /\ AmountOf(u, muts[u].key) = muts[u].amount
  BY <1>1, WorkerFacts DEF Working, At, WorkInv
<1>3. \A u \in DOMAIN entries : entries[u] \in LedgerEntry
  BY DEF TxInv, TxTypeOK, IsTransaction
<1>4. \A u \in DOMAIN muts : u \in DOMAIN entries <=> ~Recorded(muts[u].key)
  BY <1>2 DEF Recorded
<1>5. /\ balance' = [u \in Users |-> IF u \in DOMAIN entries THEN entries[u].balanceAfter
                                     ELSE balance[u]]
      /\ ledger' = [u \in Users |-> IF u \in DOMAIN entries THEN Append(ledger[u], entries[u])
                                    ELSE ledger[u]]
  BY DEF Commit
<1> HIDE DEF muts, entries
<1>6. Accepts(muts)
  <2>1. ASSUME NEW u \in DOMAIN muts, Recorded(muts[u].key)
        PROVE  Holds(u, muts[u].key) /\ AmountOf(u, muts[u].key) = muts[u].amount
    BY <1>2, <1>4, <2>1
  <2>2. ASSUME NEW u \in DOMAIN muts, ~Recorded(muts[u].key)
        PROVE  balance[u] + muts[u].amount >= 0
    BY <1>2, <1>3, <1>4, <2>2 DEF LedgerEntry
  <2> QED BY <2>1, <2>2 DEF Accepts
<1>7. MutateWallets(muts)
  <2>1. \A u \in Users : u \in {x \in DOMAIN muts : ~Recorded(muts[x].key)} <=> u \in DOMAIN entries
    BY <1>2, <1>4
  <2>2. \A u \in DOMAIN entries :
           entries[u] = [key |-> muts[u].key, amount |-> muts[u].amount,
                         balanceAfter |-> balance[u] + muts[u].amount]
    BY <1>2
  <2>3. balance' = [u \in Users |-> IF u \in {x \in DOMAIN muts : ~Recorded(muts[x].key)}
                                    THEN balance[u] + muts[u].amount ELSE balance[u]]
    BY <1>5, <2>1, <2>2
  <2>4. ledger' = [u \in Users |->
           IF u \in {x \in DOMAIN muts : ~Recorded(muts[x].key)}
           THEN Append(ledger[u], [key |-> muts[u].key, amount |-> muts[u].amount,
                                   balanceAfter |-> balance[u] + muts[u].amount])
           ELSE ledger[u]]
    BY <1>5, <2>1, <2>2
  <2> QED BY <2>3, <2>4 DEF MutateWallets
<1> QED BY <1>6, <1>7 DEF muts

(* Each transaction of completePurchase is of a call that has begun.       *)
LEMMA CompletionBegun ==
  ASSUME TxInv, NEW w \in Workers, NEW p \in Purchases, Ref(w) = p
  PROVE  completing[p] > 0
<1> DEFINE runs == {v \in Workers : Ref(v) = p}
<1>1. IsFiniteSet(runs)
  BY WalletTxAssumption, FS_Subset
<1>2. Cardinality(runs) \in Nat /\ Cardinality(runs) # 0
  <2>1. runs # {}
    OBVIOUS
  <2> QED BY <1>1, <2>1, FS_CardinalityType, FS_EmptySet
<1>3. completing[p] \in Nat /\ completing[p] - Cardinality(runs) >= 0
  BY DEF TxInv, IInv, TypeOK, Unstarted
<1> QED BY <1>2, <1>3

(* So the commit is the transaction of Wallet that was called. *)
LEMMA CommitIsTransaction ==
  ASSUME TxInv, NEW w \in Workers, Commit(w)
  PROVE  Next
<1> DEFINE c == tx[w].call
<1>1. /\ c \in Calls /\ Permits(c)
      /\ Accepts(MutationsOf(c)) /\ MutateWallets(MutationsOf(c))
  BY WorkerFacts, CommitMutates DEF Commit, Working, At
<1>2. /\ status' = CASE c.op = "payout" -> [status EXCEPT ![c.ref] = "FINISHED"]
                     [] c.op = "refund" -> [status EXCEPT ![c.ref] = "ABORTED"]
                     [] OTHER           -> status
      /\ winner' = IF c.op = "payout" THEN [winner EXCEPT ![c.ref] = c.who] ELSE winner
      /\ refunded' = IF c.op = "refund" THEN [refunded EXCEPT ![c.ref] = TRUE] ELSE refunded
      /\ purchase' = IF c.op = "complete" THEN [purchase EXCEPT ![c.ref].status = "COMPLETED"]
                     ELSE purchase
      /\ completing' = IF c.op = "complete" THEN [completing EXCEPT ![c.ref] = @ - 1]
                       ELSE completing
      /\ UNCHANGED <<terms, seats>>
  BY DEF Commit, End, Op, Ref
<1> HIDE DEF c
<1>3. CASE c.op = "deduct"
  <2>1. PICK m \in Matches, e \in Economies : m = c.ref /\ e.fee = c.n
    BY <1>1, <1>3, CallKinds
  <2>2. status[m] = "WAITING" /\ c.n = terms[m].fee
    BY <1>1, <1>3, <2>1 DEF Permits
  <2>3. MutationsOf(c) = EntryDebits(m)
    BY <1>3, <2>1, <2>2 DEF MutationsOf, EntryDebits
  <2>4. DeductEntryFees(m, e.fee)
    BY <1>1, <1>2, <1>3, <2>1, <2>2, <2>3
       DEF DeductEntryFees, CanDeductEntryFees, matchVars, purchaseVars
  <2> QED BY <2>4 DEF Next
<1>4. CASE c.op = "payout"
  <2>1. PICK m \in Matches, u \in Users, e \in Economies :
           m = c.ref /\ u = c.who /\ e.payout = c.n
    BY <1>1, <1>4, CallKinds
  <2>2. status[m] = "ACTIVE" /\ c.n = terms[m].payout /\ u \in Humans(m)
    BY <1>1, <1>4, <2>1 DEF Permits
  <2>3. MutationsOf(c) = One(u, PayoutKey(m), e.payout)
    BY <1>4, <2>1 DEF MutationsOf
  <2>4. FinalizeMatchPayout(m, u, e.payout)
    BY <1>1, <1>2, <1>4, <2>1, <2>2, <2>3
       DEF FinalizeMatchPayout, CanFinalizeMatchPayout, purchaseVars
  <2> QED BY <2>4 DEF Next
<1>5. CASE c.op = "refund"
  <2>1. PICK m \in Matches : m = c.ref
    BY <1>1, <1>5, CallKinds
  <2>2. status[m] # "NONE" /\ status[m] # "FINISHED" /\ ~refunded[m]
    BY <1>1, <1>5, <2>1 DEF Permits, TxInv
  <2>3. MutationsOf(c) = RefundCredits(m)
    BY <1>5, <2>1 DEF MutationsOf
  <2>4. RefundAbortedMatch(m)
    BY <1>1, <1>2, <1>5, <2>1, <2>2, <2>3
       DEF RefundAbortedMatch, CanRefundAbortedMatch, purchaseVars
  <2> QED BY <2>4 DEF Next
<1>6. CASE c.op = "adjust"
  <2>1. PICK x \in Commands, u \in Users, n \in Adjustments : x = c.ref /\ u = c.who /\ n = c.n
    BY <1>1, <1>6, CallKinds
  <2>2. MutationsOf(c) = One(u, AdminKey(x), n)
    BY <1>6, <2>1 DEF MutationsOf
  <2>3. AdminAdjustment(x, u, n)
    BY <1>1, <1>2, <1>6, <2>2 DEF AdminAdjustment, matchVars, purchaseVars
  <2> QED BY <2>3 DEF Next
<1>7. CASE c.op = "complete"
  <2>1. PICK p \in Purchases : p = c.ref
    BY <1>1, <1>7, CallKinds
  <2>2. MutationsOf(c) = One(purchase[p].user, PurchaseKey(p), purchase[p].chips)
    BY <1>7, <2>1 DEF MutationsOf
  <2>3. completing[p] > 0
    BY <1>7, <2>1, CompletionBegun DEF c, Ref
  <2>4. CommitCompletePurchase(p)
    BY <1>1, <1>2, <1>7, <2>1, <2>2, <2>3 DEF CommitCompletePurchase, matchVars
  <2> QED BY <2>4 DEF Next
<1> QED BY <1>1, <1>3, <1>4, <1>5, <1>6, <1>7, CallKinds

-----------------------------------------------------------------------------
(* What the steps of others leave alone. *)

(* A transaction keeps its part of the invariant in any step of others     *)
(* that respects its rows and its keys.                                    *)
LEMMA WorkerKept ==
  ASSUME NEW v \in Workers, WorkerInv(v), tx'[v] = tx[v], held'[v] = held[v],
         NEW c, c = tx[v].call,
         Working(v) =>
           /\ Permits(c)' /\ PlayersOf(c)' = PlayersOf(c) /\ MutationsOf(c)' = MutationsOf(c)
           /\ DOMAIN MutationsOf(c) \subseteq Users
           /\ \A u \in DOMAIN tx[v].entries :
                Recorded(MutationsOf(c)[u].key)' => Recorded(MutationsOf(c)[u].key),
         \A u \in held[v] \cap Users : balance'[u] = balance[u],
         \A u \in Users : \A k : Holds(u, k) => Holds(u, k)' /\ AmountOf(u, k)' = AmountOf(u, k)
  PROVE  WorkerInv(v)'
<1>1. NextPlayer(v)' = NextPlayer(v) /\ Working(v)' = Working(v) /\ FirstRows(v)' = FirstRows(v)
  BY DEF NextPlayer, Working, FirstRows, Op, Ref
<1>2. OrderInv(v)'
  BY DEF WorkerInv, OrderInv
<1>3. ASSUME Working(v) PROVE WorkInv(v)'
  <2> DEFINE muts == MutationsOf(c)
  <2>1. Permits(tx[v].call)' /\ PlayersOf(tx[v].call)' = PlayersOf(c) /\ MutationsOf(tx[v].call)' = muts
    BY <1>3
  <2>2. WorkInv(v)
    BY <1>3 DEF WorkerInv
  <2>3. \A u \in DOMAIN muts \ tx[v].left :
           IF u \in DOMAIN tx[v].entries
           THEN /\ ~Recorded(muts[u].key)'
                /\ tx[v].entries[u] = [key |-> muts[u].key, amount |-> muts[u].amount,
                                       balanceAfter |-> balance'[u] + muts[u].amount]
           ELSE Holds(u, muts[u].key)' /\ AmountOf(u, muts[u].key)' = muts[u].amount
    BY <1>3, <2>2 DEF WorkInv
  <2> QED BY <1>1, <2>1, <2>2, <2>3 DEF WorkInv
<1>4. ASSUME tx[v].step \in {"locked", "read"} PROVE VisitInv(v)'
  <2>1. Working(v) /\ VisitInv(v)
    BY <1>4 DEF WorkerInv, Working
  <2>2. MutationsOf(tx[v].call)' = MutationsOf(c)
    BY <2>1
  <2> QED BY <1>1, <2>1, <2>2 DEF VisitInv, At
<1> QED BY <1>1, <1>2, <1>3, <1>4 DEF WorkerInv, At

(* Statements before the commit change no table.                           *)
LEMMA TablesKept ==
  ASSUME UNCHANGED <<moneyVars, matchVars, purchase>>
  PROVE  /\ \A c : /\ Permits(c)' <=> Permits(c)
                   /\ PlayersOf(c)' = PlayersOf(c)
                   /\ MutationsOf(c)' = MutationsOf(c)
         /\ \A k : Recorded(k)' <=> Recorded(k)
         /\ \A u, k : Holds(u, k)' <=> Holds(u, k)
         /\ \A u, k : AmountOf(u, k)' = AmountOf(u, k)
<1> USE DEF moneyVars, matchVars
<1>1. \A u, k : (Holds(u, k)' <=> Holds(u, k)) /\ AmountOf(u, k)' = AmountOf(u, k)
  BY NoMoney
<1>2. \A m : Humans(m)' = Humans(m)
  BY DEF Humans
<1>3. \A m : Debited(m)' = Debited(m)
  BY <1>1, <1>2 DEF Debited
<1>4. \A m : RefundCredits(m)' = RefundCredits(m)
  BY <1>1, <1>3 DEF RefundCredits
<1>5. \A c : MutationsOf(c)' = MutationsOf(c)
  BY <1>2, <1>4 DEF MutationsOf
<1>6. \A c : PlayersOf(c)' = PlayersOf(c)
  BY <1>2 DEF PlayersOf
<1>7. \A c : Permits(c)' <=> Permits(c)
  BY <1>2 DEF Permits
<1>8. \A k : Recorded(k)' <=> Recorded(k)
  BY <1>1 DEF Recorded
<1> QED BY <1>1, <1>5, <1>6, <1>7, <1>8

(* Statements of others leave what a transaction knows as it was.          *)
LEMMA OthersKept ==
  ASSUME TxInv, UNCHANGED <<moneyVars, matchVars, purchase>>,
         NEW v \in Workers, tx'[v] = tx[v], held'[v] = held[v]
  PROVE  WorkerInv(v)'
<1>1. PICK c : c = tx[v].call
  OBVIOUS
<1>2. WorkerInv(v)
  BY DEF TxInv
<1>3. ASSUME Working(v)
      PROVE  /\ Permits(c)' /\ PlayersOf(c)' = PlayersOf(c) /\ MutationsOf(c)' = MutationsOf(c)
             /\ DOMAIN MutationsOf(c) \subseteq Users
             /\ \A u \in DOMAIN tx[v].entries :
                  Recorded(MutationsOf(c)[u].key)' => Recorded(MutationsOf(c)[u].key)
  <2>1. Permits(c) /\ DOMAIN MutationsOf(c) \subseteq Users
    BY <1>1, <1>3, WorkerFacts
  <2>2. Permits(c)' /\ PlayersOf(c)' = PlayersOf(c) /\ MutationsOf(c)' = MutationsOf(c)
    BY <2>1, TablesKept
  <2>3. \A k : Recorded(k)' <=> Recorded(k)
    BY TablesKept
  <2> QED BY <2>1, <2>2, <2>3
<1>4. /\ \A u \in held[v] \cap Users : balance'[u] = balance[u]
      /\ \A u \in Users : \A k : Holds(u, k) => Holds(u, k)' /\ AmountOf(u, k)' = AmountOf(u, k)
  BY TablesKept DEF moneyVars
<1> QED BY <1>1, <1>2, <1>3, <1>4, WorkerKept

(* A step that changes the state of one transaction only.                  *)
Moves(w, t, h) == tx' = [tx EXCEPT ![w] = t] /\ held' = [held EXCEPT ![w] = h]

(* It keeps the others apart.                                              *)
LEMMA OneMoves ==
  ASSUME TxInv, NEW w \in Workers, NEW t, IsTransaction(t),
         NEW h \in SUBSET (Users \cup Matches \cup Purchases), Moves(w, t, h),
         \A v \in Workers \ {w} :
           /\ h \cap held[v] = {}
           /\ \A u \in DOMAIN t.entries, x \in DOMAIN tx[v].entries :
                t.entries[u].key # tx[v].entries[x].key
  PROVE  /\ TxTypeOK'
         /\ \A v, x \in Workers : v # x => Apart(v, x)'
         /\ \A v \in Workers \ {w} : tx'[v] = tx[v] /\ held'[v] = held[v]
<1>1. TxTypeOK
  BY DEF TxInv
<1>2. /\ tx'[w] = t /\ held'[w] = h
      /\ \A v \in Workers \ {w} : tx'[v] = tx[v] /\ held'[v] = held[v]
  BY <1>1 DEF TxTypeOK, Moves
<1>3. TxTypeOK'
  <2>1. tx' = [v \in Workers |-> tx'[v]]
    BY <1>1 DEF TxTypeOK, Moves
  <2>2. \A v \in Workers : IsTransaction(tx'[v])
    BY <1>1, <1>2 DEF TxTypeOK
  <2>3. held' \in [Workers -> SUBSET (Users \cup Matches \cup Purchases)]
    BY <1>1 DEF TxTypeOK, Moves
  <2> QED BY <2>1, <2>2, <2>3 DEF TxTypeOK
<1>4. ASSUME NEW v \in Workers, NEW x \in Workers, v # x
      PROVE  Apart(v, x)'
  <2>1. Apart(v, x)
    BY <1>4 DEF TxInv
  <2>2. CASE v # w /\ x # w
    BY <1>2, <2>1, <2>2 DEF Apart
  <2>3. CASE v = w
    BY <1>2, <1>4, <2>3 DEF Apart
  <2>4. CASE x = w
    BY <1>2, <1>4, <2>4 DEF Apart
  <2> QED BY <2>2, <2>3, <2>4
<1> QED BY <1>2, <1>3, <1>4

(* If it changes no table either, the others know what they knew.          *)
LEMMA LocalStep ==
  ASSUME TxInv, NEW w \in Workers, NEW t, IsTransaction(t),
         NEW h \in SUBSET (Users \cup Matches \cup Purchases),
         tx' = [tx EXCEPT ![w] = t], held' = [held EXCEPT ![w] = h],
         UNCHANGED <<moneyVars, matchVars, purchase>>, IInv', WorkerInv(w)',
         \A v \in Workers \ {w} :
           /\ h \cap held[v] = {}
           /\ \A u \in DOMAIN t.entries, x \in DOMAIN tx[v].entries :
                t.entries[u].key # tx[v].entries[x].key,
         \A p \in Purchases : Unstarted(p)' >= 0
  PROVE  TxInv'
<1>0. Moves(w, t, h)
  BY DEF Moves
<1>1. /\ TxTypeOK'
      /\ \A v, x \in Workers : v # x => Apart(v, x)'
      /\ \A v \in Workers \ {w} : tx'[v] = tx[v] /\ held'[v] = held[v]
  BY <1>0, OneMoves
<1>2. \A v \in Workers : WorkerInv(v)'
  BY <1>1, OthersKept
<1>3. /\ \A m \in Matches : status'[m] # "NONE"
      /\ \A p \in Purchases : purchase'[p].status # "NONE"
  BY DEF TxInv, matchVars
<1> QED BY <1>1, <1>2, <1>3 DEF TxInv

(* Tables that no step changes keep their invariant.                       *)
LEMMA TablesStutter ==
  ASSUME IInv, UNCHANGED vars
  PROVE  IInv' /\ UNCHANGED <<moneyVars, matchVars, purchase>>
BY NextInv DEF vars, purchaseVars

(* The transactions of a purchase are those of the same calls as before.   *)
LEMMA SameCalls ==
  ASSUME TxInv, UNCHANGED completing, \A v \in Workers : Ref(v)' = Ref(v)
  PROVE  \A p \in Purchases : Unstarted(p)' >= 0
<1>1. \A p : {v \in Workers : Ref(v) = p}' = {v \in Workers : Ref(v) = p}
  OBVIOUS
<1>2. \A p \in Purchases : Unstarted(p)' = Unstarted(p)
  BY <1>1 DEF Unstarted
<1> QED BY <1>2 DEF TxInv

-----------------------------------------------------------------------------
(* Each statement preserves the invariant. *)

(* Before its checks a transaction has locked and written nothing.         *)
LEMMA NotWorkingYet ==
  ASSUME NEW w \in Workers, tx'[w].step \in {"idle", "open"}, held'[w] = {},
         tx'[w].left = {}, DOMAIN tx'[w].entries = {},
         tx'[w].step = "open" => tx'[w].call \in Calls,
         tx'[w].step = "idle" => tx'[w].call = Idle.call
  PROVE  WorkerInv(w)'
<1>1. ~Working(w)' /\ (At(w, "idle") <=> tx[w].step = "idle")'
  BY DEF Working, At
<1>2. OrderInv(w)'
  BY DEF OrderInv
<1> QED BY <1>1, <1>2 DEF WorkerInv

(* A worker that does nothing holds nothing.                               *)
LEMMA IdleFacts ==
  /\ Idle.call.op = "none" /\ Idle.call.ref = Bot /\ Idle.step = "idle" /\ Idle.left = {}
  /\ Idle.seen = 0 /\ DOMAIN Idle.entries = {} /\ IsTransaction(Idle)
<1>1. /\ Idle.call.op = "none" /\ Idle.call.ref = Bot /\ Idle.step = "idle" /\ Idle.left = {}
      /\ Idle.seen = 0 /\ DOMAIN Idle.entries = {}
  BY DEF Idle, Call
<1>2. Idle.entries \in [{} -> LedgerEntry]
  BY DEF Idle
<1>3. Idle = [call |-> Idle.call, step |-> "idle", left |-> {}, seen |-> 0,
              entries |-> Idle.entries]
  BY DEF Idle
<1>4. IsTransaction(Idle)
  <2>1. {} \in SUBSET Users
    OBVIOUS
  <2> QED BY <1>2, <1>3, <2>1 DEF IsTransaction, Steps
<1> QED BY <1>1, <1>4

(* Only completePurchase is called on a purchase. *)
LEMMA RefsOfPurchases ==
  ASSUME TxInv, NEW w \in Workers, Ref(w) \in Purchases
  PROVE  ~At(w, "idle") /\ Op(w) = "complete"
<1>1. WorkerInv(w)
  BY DEF TxInv
<1>2. ~At(w, "idle")
  BY <1>1, IdleFacts, WalletTxAssumption DEF WorkerInv, Ref
<1>3. tx[w].call \in Calls
  BY <1>1, <1>2 DEF WorkerInv
<1> QED BY <1>2, <1>3, CallKinds, WalletTxAssumption DEF Ref, Op

(* A transaction begins with nothing held or written.                      *)
LEMMA BeginKeeps ==
  ASSUME TxInv, NEW w \in Workers, NEW c \in Calls, Begin(w, c)
  PROVE  TxInv'
<1> DEFINE t == [Idle EXCEPT !.call = c, !.step = "open"]
<1>1. /\ At(w, "idle") /\ UNCHANGED held /\ UNCHANGED vars
      /\ c.op = "complete" => Unstarted(c.ref) > 0
      /\ tx' = [tx EXCEPT ![w] = t]
  BY DEF Begin
<1>2. /\ t.call = c /\ t.step = "open" /\ t.left = {} /\ t.seen = 0
      /\ DOMAIN t.entries = {} /\ IsTransaction(t)
  <2>1. PICK D \in SUBSET Users :
           Idle \in [call : Calls \cup {Idle.call}, step : Steps, left : SUBSET Users,
                     seen : Int, entries : [D -> LedgerEntry]]
    BY IdleFacts DEF IsTransaction
  <2>2. t \in [call : Calls \cup {Idle.call}, step : Steps, left : SUBSET Users,
               seen : Int, entries : [D -> LedgerEntry]]
    BY <2>1 DEF Steps
  <2>3. t.call = c /\ t.step = "open" /\ t.left = Idle.left /\ t.seen = Idle.seen
        /\ t.entries = Idle.entries
    BY <2>1
  <2> QED BY <2>2, <2>3, IdleFacts DEF IsTransaction
<1> HIDE DEF t
<1>3. TxTypeOK /\ IInv /\ WorkerInv(w)
  BY DEF TxInv
<1>4. /\ tx'[w] = t /\ held'[w] = {} /\ held' = [held EXCEPT ![w] = {}]
      /\ \A v \in Workers \ {w} : tx'[v] = tx[v]
  BY <1>1, <1>3 DEF TxTypeOK, WorkerInv, Working, At
<1>5. WorkerInv(w)'
  BY <1>2, <1>4, NotWorkingYet
<1>6. IInv' /\ UNCHANGED <<moneyVars, matchVars, purchase>>
  BY <1>1, <1>3, TablesStutter
<1>7. ASSUME NEW p \in Purchases
      PROVE  Unstarted(p)' >= 0
  <2> DEFINE runs == {v \in Workers : Ref(v) = p}
  <2>1. Ref(w) = Bot /\ Ref(w)' = c.ref /\ \A v \in Workers \ {w} : Ref(v)' = Ref(v)
    BY <1>1, <1>2, <1>3, <1>4, IdleFacts DEF Ref, WorkerInv
  <2>2. IsFiniteSet(runs) /\ Cardinality(runs) \in Nat
    BY WalletTxAssumption, FS_Subset, FS_CardinalityType
  <2>3. completing'[p] = completing[p] /\ completing[p] \in Nat
        /\ completing[p] - Cardinality(runs) >= 0
    BY <1>1, <1>3 DEF TxInv, IInv, TypeOK, vars, purchaseVars, Unstarted
  <2>4. CASE c.ref = p
    <3>1. c.op = "complete"
      BY <2>4, CallKinds, WalletTxAssumption
    <3>2. completing[p] - Cardinality(runs) > 0
      BY <1>1, <2>4, <3>1 DEF Unstarted
    <3>3. runs' = runs \cup {w} /\ w \notin runs
      BY <2>1, <2>4, WalletTxAssumption
    <3>4. Cardinality(runs \cup {w}) = Cardinality(runs) + 1
      BY <2>2, <3>3, FS_AddElement
    <3>5. Unstarted(p)' = completing'[p] - Cardinality(runs')
      BY DEF Unstarted
    <3> HIDE DEF runs
    <3> QED BY <2>2, <2>3, <3>2, <3>3, <3>4, <3>5
  <2>5. CASE c.ref # p
    <3>1. runs' = runs
      BY <2>1, <2>5, WalletTxAssumption
    <3> QED BY <2>3, <3>1 DEF Unstarted
  <2> QED BY <2>4, <2>5
<1> QED BY <1>1, <1>2, <1>4, <1>5, <1>6, <1>7, LocalStep, ZenonT(30)

(* A statement of a transaction that works on the wallets. *)
LEMMA OwnWork ==
  ASSUME TxInv, NEW w \in Workers, UNCHANGED <<moneyVars, matchVars, purchase>>,
         NEW c \in Calls, c = tx[w].call, tx'[w].call = c, Permits(c),
         tx'[w].step \in {"players", "locked", "read"},
         FirstRows(w) \subseteq held'[w],
         tx'[w].left \subseteq PlayersOf(c),
         DOMAIN tx'[w].entries \subseteq (DOMAIN MutationsOf(c) \ tx'[w].left) \cap held'[w],
         \A u \in DOMAIN MutationsOf(c) \ tx'[w].left :
           IF u \in DOMAIN tx'[w].entries
           THEN /\ ~Recorded(MutationsOf(c)[u].key)
                /\ tx'[w].entries[u] =
                     [key |-> MutationsOf(c)[u].key, amount |-> MutationsOf(c)[u].amount,
                      balanceAfter |-> balance[u] + MutationsOf(c)[u].amount]
           ELSE /\ Holds(u, MutationsOf(c)[u].key)
                /\ AmountOf(u, MutationsOf(c)[u].key) = MutationsOf(c)[u].amount,
         tx'[w].step \in {"locked", "read"} => VisitInv(w)',
         OrderInv(w)'
  PROVE  WorkerInv(w)'
<1>1. /\ Permits(c)' /\ PlayersOf(c)' = PlayersOf(c) /\ MutationsOf(c)' = MutationsOf(c)
      /\ \A k : Recorded(k)' <=> Recorded(k)
      /\ \A u, k : (Holds(u, k)' <=> Holds(u, k)) /\ AmountOf(u, k)' = AmountOf(u, k)
      /\ balance' = balance
  BY TablesKept DEF moneyVars
<1>2. /\ Permits(tx[w].call)' /\ PlayersOf(tx[w].call)' = PlayersOf(c)
      /\ MutationsOf(tx[w].call)' = MutationsOf(c)
  BY <1>1
<1>3. FirstRows(w)' = FirstRows(w)
  BY DEF FirstRows, Op, Ref
<1>4. \A u \in DOMAIN MutationsOf(c) \ tx'[w].left :
           IF u \in DOMAIN tx'[w].entries
           THEN /\ ~Recorded(MutationsOf(c)[u].key)'
                /\ tx'[w].entries[u] =
                     [key |-> MutationsOf(c)[u].key, amount |-> MutationsOf(c)[u].amount,
                      balanceAfter |-> balance'[u] + MutationsOf(c)[u].amount]
           ELSE /\ Holds(u, MutationsOf(c)[u].key)'
                /\ AmountOf(u, MutationsOf(c)[u].key)' = MutationsOf(c)[u].amount
  BY <1>1
<1>5. WorkInv(w)'
  BY <1>2, <1>3, <1>4 DEF WorkInv
<1>6. ~At(w, "idle")' /\ Working(w)'
  BY DEF At, Working
<1> QED BY <1>5, <1>6 DEF WorkerInv, At

(* Such a statement, put together. *)
LEMMA SameCallStep ==
  ASSUME TxInv, NEW w \in Workers, NEW t, IsTransaction(t), t.call = tx[w].call,
         NEW h \in SUBSET (Users \cup Matches \cup Purchases),
         tx' = [tx EXCEPT ![w] = t], held' = [held EXCEPT ![w] = h],
         UNCHANGED vars, WorkerInv(w)',
         \A v \in Workers \ {w} :
           /\ h \cap held[v] = {}
           /\ \A u \in DOMAIN t.entries, x \in DOMAIN tx[v].entries :
                t.entries[u].key # tx[v].entries[x].key
  PROVE  TxInv'
<1>1. IInv' /\ UNCHANGED <<moneyVars, matchVars, purchase>>
  BY TablesStutter DEF TxInv
<1>2. \A v \in Workers : Ref(v)' = Ref(v)
  BY DEF Ref, TxInv, TxTypeOK
<1>3. UNCHANGED completing
  BY DEF vars, purchaseVars
<1>4. \A p \in Purchases : Unstarted(p)' >= 0
  BY <1>2, <1>3, SameCalls
<1> QED BY <1>1, <1>4, LocalStep

(* What is known of a transaction at work, spelled out. *)
LEMMA AtWork ==
  ASSUME TxInv, NEW w \in Workers, Working(w)
  PROVE  /\ tx[w].left \in SUBSET Users /\ tx[w].seen \in Int
         /\ \A u \in DOMAIN tx[w].entries : tx[w].entries[u] \in LedgerEntry
         /\ held[w] \in SUBSET (Users \cup Matches \cup Purchases)
         /\ OrderInv(w)
         /\ tx[w].step \in {"locked", "read"} => VisitInv(w)
         /\ \A v \in Workers \ {w} :
              /\ held[w] \cap held[v] = {}
              /\ \A u \in DOMAIN tx[w].entries, x \in DOMAIN tx[v].entries :
                   tx[w].entries[u].key # tx[v].entries[x].key
BY DEF TxInv, TxTypeOK, IsTransaction, WorkerInv, Apart

(* A change of the step, the players left and the balance seen.            *)
Moved(w, s, l, n) == [tx[w] EXCEPT !.step = s, !.left = l, !.seen = n]

(* What a statement that moves one worker leaves alone.                    *)
LEMMA MovedFacts ==
  ASSUME TxInv, NEW w \in Workers, NEW s \in Steps, NEW l \in SUBSET Users, NEW n \in Int
  PROVE  /\ IsTransaction(Moved(w, s, l, n)) /\ Moved(w, s, l, n).call = tx[w].call
         /\ Moved(w, s, l, n).step = s /\ Moved(w, s, l, n).left = l
         /\ Moved(w, s, l, n).seen = n /\ Moved(w, s, l, n).entries = tx[w].entries
<1> DEFINE t == Moved(w, s, l, n)
<1>1. PICK D \in SUBSET Users :
         tx[w] \in [call : Calls \cup {Idle.call}, step : Steps, left : SUBSET Users,
                    seen : Int, entries : [D -> LedgerEntry]]
  BY DEF TxInv, TxTypeOK, IsTransaction
<1>2. /\ t.call = tx[w].call
      /\ t.step = s /\ t.left = l /\ t.seen = n /\ t.entries = tx[w].entries
  BY <1>1 DEF Moved
<1>3. t \in [call : Calls \cup {Idle.call}, step : Steps, left : SUBSET Users,
             seen : Int, entries : [D -> LedgerEntry]]
  BY <1>1 DEF Moved
<1> QED BY <1>2, <1>3 DEF IsTransaction

(* The match row is locked, and read, first.                               *)
LEMMA OpenKeeps ==
  ASSUME TxInv, NEW w \in Workers, Open(w)
  PROVE  TxInv'
<1> DEFINE c == tx[w].call
           t == Moved(w, "players", PlayersOf(c), tx[w].seen)
           h == held[w] \cup FirstRows(w)
<1>1. /\ At(w, "open") /\ UNCHANGED vars /\ Permits(c)
      /\ \A r \in FirstRows(w) : HoldersOf(r, w) = {}
      /\ held' = [held EXCEPT ![w] = h]
  BY DEF Open
<1>2. TxTypeOK /\ IInv /\ WorkerInv(w)
  BY DEF TxInv
<1>3. c \in Calls /\ held[w] = {} /\ tx[w].left = {} /\ DOMAIN tx[w].entries = {}
  BY <1>1, <1>2 DEF WorkerInv, Working, At
<1>4. tx[w].seen \in Int
  BY <1>2 DEF TxTypeOK, IsTransaction
<1>5. /\ DOMAIN MutationsOf(c) \subseteq PlayersOf(c) /\ PlayersOf(c) \subseteq Users
  BY <1>1, <1>2, <1>3, MutationsFacts DEF TxInv
<1>6. /\ IsTransaction(t) /\ t.call = c /\ t.step = "players" /\ t.left = PlayersOf(c)
      /\ t.entries = tx[w].entries
  BY <1>4, <1>5, MovedFacts DEF Steps
<1>7. tx' = [tx EXCEPT ![w] = t]
  BY <1>2, <1>4 DEF Open, TxTypeOK, IsTransaction, Moved
<1>8. FirstRows(w) \subseteq Matches \cup Purchases
  BY <1>3, CallKinds DEF FirstRows, Op, Ref
<1> HIDE DEF t
<1>9. tx'[w] = t /\ held'[w] = h
  BY <1>1, <1>2, <1>7 DEF TxTypeOK
<1>10. WorkerInv(w)'
  <2>1. OrderInv(w)'
    BY <1>3, <1>8, <1>9, WalletTxAssumption DEF OrderInv
  <2>2. UNCHANGED <<moneyVars, matchVars, purchase>>
    BY <1>1 DEF vars, purchaseVars
  <2> QED BY <1>1, <1>3, <1>5, <1>6, <1>9, <2>1, <2>2, OwnWork
<1>11. \A v \in Workers \ {w} :
         /\ h \cap held[v] = {}
         /\ \A u \in DOMAIN t.entries, x \in DOMAIN tx[v].entries :
              t.entries[u].key # tx[v].entries[x].key
  BY <1>1, <1>3, <1>6 DEF HoldersOf
<1>12. h \in SUBSET (Users \cup Matches \cup Purchases)
  BY <1>3, <1>8
<1> HIDE DEF c, h
<1> QED BY <1>1, <1>6, <1>7, <1>10, <1>11, <1>12, SameCallStep DEF c

(* Every player of a call has a mutation; of a refund, those debited.      *)
LEMMA PlayersWithMutations ==
  ASSUME NEW c \in Calls
  PROVE  DOMAIN MutationsOf(c) = IF c.op = "refund" THEN Debited(c.ref) ELSE PlayersOf(c)
<1>1. CASE c.op = "deduct"
  BY <1>1 DEF MutationsOf, PlayersOf
<1>2. CASE c.op = "payout"
  BY <1>2 DEF MutationsOf, PlayersOf, One
<1>3. CASE c.op = "refund"
  BY <1>3 DEF MutationsOf, RefundCredits
<1>4. CASE c.op = "adjust"
  BY <1>4 DEF MutationsOf, PlayersOf, One
<1>5. CASE c.op = "complete"
  BY <1>5 DEF MutationsOf, PlayersOf, One
<1> QED BY <1>1, <1>2, <1>3, <1>4, <1>5, CallKinds

(* Of the wallets it has locked, only the next player's is still to do.    *)
LEMMA OnlyNextIsLocked ==
  ASSUME TxInv, NEW w \in Workers, Working(w), NEW u \in held[w], u \in tx[w].left
  PROVE  u = NextPlayer(w)
<1>1. tx[w].left \in SUBSET Users /\ OrderInv(w)
  BY AtWork
<1>2. NextPlayer(w) \in tx[w].left /\ Rank[NextPlayer(w)] <= Rank[u]
  BY <1>1, NextPlayerIsLeast
<1>3. Rank[u] <= Rank[NextPlayer(w)]
  BY <1>1, <1>2 DEF OrderInv
<1>4. Rank[u] \in Nat /\ Rank[NextPlayer(w)] \in Nat
  BY <1>1, <1>2, WalletTxAssumption
<1> QED BY <1>1, <1>2, <1>3, <1>4, WalletTxAssumption

(* A player the transaction has no mutation for is passed.                 *)
LEMMA PassKeeps ==
  ASSUME TxInv, NEW w \in Workers, Pass(w)
  PROVE  TxInv'
<1> DEFINE c == tx[w].call
           x == NextPlayer(w)
           t == Moved(w, "players", tx[w].left \ {x}, tx[w].seen)
<1>1. /\ At(w, "players") /\ tx[w].left # {} /\ c.op = "refund" /\ x \notin Debited(c.ref)
      /\ UNCHANGED held /\ UNCHANGED vars
  BY DEF Pass, Op, Ref
<1>2. TxTypeOK /\ Working(w)
  BY <1>1 DEF TxInv, Working, At
<1>3. /\ c \in Calls /\ Permits(c) /\ WorkInv(w)
  BY <1>2, WorkerFacts
<1>4. /\ tx[w].left \in SUBSET Users /\ tx[w].seen \in Int
      /\ held[w] \in SUBSET (Users \cup Matches \cup Purchases)
      /\ OrderInv(w)
      /\ \A v \in Workers \ {w} :
           /\ held[w] \cap held[v] = {}
           /\ \A y \in DOMAIN tx[w].entries, z \in DOMAIN tx[v].entries :
                tx[w].entries[y].key # tx[v].entries[z].key
  BY <1>2, AtWork
<1>5. /\ IsTransaction(t) /\ t.call = c /\ t.step = "players" /\ t.left = tx[w].left \ {x}
      /\ t.entries = tx[w].entries
  BY <1>4, MovedFacts DEF Steps
<1>6. tx' = [tx EXCEPT ![w] = t] /\ held' = [held EXCEPT ![w] = held[w]]
  BY <1>1, <1>2, <1>4, ZenonT(30) DEF Pass, At, TxTypeOK, IsTransaction, Moved
<1> HIDE DEF t, x
<1>7. tx'[w] = t /\ held'[w] = held[w]
  BY <1>2, <1>6 DEF TxTypeOK
<1>8. WorkerInv(w)'
  <2>1. OrderInv(w)'
    BY <1>1, <1>4, <1>5, <1>7 DEF OrderInv, At
  <2>2. UNCHANGED <<moneyVars, matchVars, purchase>>
    BY <1>1 DEF vars, purchaseVars
  <2>3. DOMAIN MutationsOf(c) \ t.left = DOMAIN MutationsOf(c) \ tx[w].left
    BY <1>1, <1>3, <1>5, PlayersWithMutations
  <2> QED BY <1>3, <1>5, <1>7, <2>1, <2>2, <2>3, OwnWork DEF WorkInv
<1>9. \A v \in Workers \ {w} :
        /\ held[w] \cap held[v] = {}
        /\ \A y \in DOMAIN t.entries, z \in DOMAIN tx[v].entries :
             t.entries[y].key # tx[v].entries[z].key
  BY <1>4, <1>5
<1> QED BY <1>1, <1>4, <1>5, <1>6, <1>8, <1>9, SameCallStep, ZenonT(30)

(* The wallet of the next player is locked: the highest so far.            *)
LEMMA LockWalletKeeps ==
  ASSUME TxInv, NEW w \in Workers, LockWallet(w)
  PROVE  TxInv'
<1> DEFINE c == tx[w].call
           x == NextPlayer(w)
           t == Moved(w, "locked", tx[w].left, tx[w].seen)
           h == held[w] \cup {x}
<1>1. /\ At(w, "players") /\ tx[w].left # {}
      /\ c.op = "refund" => x \in Debited(c.ref)
      /\ HoldersOf(x, w) = {} /\ UNCHANGED vars
  BY DEF LockWallet, Visits, Op, Ref
<1>2. TxTypeOK /\ Working(w)
  BY <1>1 DEF TxInv, Working, At
<1>3. /\ c \in Calls /\ Permits(c) /\ WorkInv(w)
  BY <1>2, WorkerFacts
<1>4. /\ tx[w].left \in SUBSET Users /\ tx[w].seen \in Int
      /\ held[w] \in SUBSET (Users \cup Matches \cup Purchases)
      /\ OrderInv(w)
      /\ \A v \in Workers \ {w} :
           /\ held[w] \cap held[v] = {}
           /\ \A y \in DOMAIN tx[w].entries, z \in DOMAIN tx[v].entries :
                tx[w].entries[y].key # tx[v].entries[z].key
  BY <1>2, AtWork
<1>5. /\ IsTransaction(t) /\ t.call = c /\ t.step = "locked" /\ t.left = tx[w].left
      /\ t.entries = tx[w].entries
  BY <1>4, MovedFacts DEF Steps
<1>6. tx' = [tx EXCEPT ![w] = t] /\ held' = [held EXCEPT ![w] = h]
  BY <1>1, <1>2, <1>4 DEF LockWallet, TxTypeOK, IsTransaction, Moved
<1>7. x \in tx[w].left /\ \A v \in tx[w].left : Rank[x] <= Rank[v]
  BY <1>1, <1>4, NextPlayerIsLeast
<1> HIDE DEF t, x
<1>8. tx'[w] = t /\ held'[w] = h /\ NextPlayer(w)' = x
  BY <1>2, <1>5, <1>6 DEF TxTypeOK, NextPlayer, x
<1>9. WorkerInv(w)'
  <2>1. OrderInv(w)'
    BY <1>1, <1>4, <1>5, <1>7, <1>8 DEF OrderInv, At
  <2>2. UNCHANGED <<moneyVars, matchVars, purchase>>
    BY <1>1 DEF vars, purchaseVars
  <2>3. x \in DOMAIN MutationsOf(c)
    BY <1>1, <1>3, <1>7, PlayersWithMutations DEF WorkInv
  <2>4. MutationsOf(c)' = MutationsOf(c)
    <3>1. PICK d : d = c
      OBVIOUS
    <3>2. MutationsOf(d)' = MutationsOf(d)
      BY <2>2, TablesKept
    <3> QED BY <1>5, <1>8, <3>1, <3>2
  <2>5. VisitInv(w)'
    BY <1>5, <1>7, <1>8, <2>3, <2>4 DEF VisitInv, At
  <2> QED BY <1>3, <1>5, <1>8, <2>1, <2>2, <2>5, OwnWork DEF WorkInv
<1>10. h \in SUBSET (Users \cup Matches \cup Purchases)
  BY <1>4, <1>7
<1>11. \A v \in Workers \ {w} :
         /\ h \cap held[v] = {}
         /\ \A y \in DOMAIN t.entries, z \in DOMAIN tx[v].entries :
              t.entries[y].key # tx[v].entries[z].key
  BY <1>1, <1>4, <1>5 DEF HoldersOf
<1> HIDE DEF h
<1> QED BY <1>1, <1>5, <1>6, <1>9, <1>10, <1>11, SameCallStep

(* A balance read under the lock is the current one.                       *)
LEMMA ReadWalletKeeps ==
  ASSUME TxInv, NEW w \in Workers, ReadWallet(w)
  PROVE  TxInv'
<1> DEFINE c == tx[w].call
           x == NextPlayer(w)
           t == Moved(w, "read", tx[w].left, balance[x])
<1>1. At(w, "locked") /\ UNCHANGED held /\ UNCHANGED vars
  BY DEF ReadWallet
<1>2. TxTypeOK /\ TypeOK /\ Working(w)
  BY <1>1 DEF TxInv, IInv, Working, At
<1>3. /\ c \in Calls /\ Permits(c) /\ WorkInv(w)
  BY <1>2, WorkerFacts
<1>4. /\ tx[w].left \in SUBSET Users
      /\ held[w] \in SUBSET (Users \cup Matches \cup Purchases)
      /\ OrderInv(w) /\ VisitInv(w)
      /\ \A v \in Workers \ {w} :
           /\ held[w] \cap held[v] = {}
           /\ \A y \in DOMAIN tx[w].entries, z \in DOMAIN tx[v].entries :
                tx[w].entries[y].key # tx[v].entries[z].key
  BY <1>1, <1>2, AtWork DEF At
<1>5. /\ tx[w].left # {} /\ x \in held[w] /\ x \in DOMAIN MutationsOf(c) /\ x \in tx[w].left
  BY <1>4, NextPlayerIsLeast DEF VisitInv
<1>6. balance[x] \in Int
  BY <1>2, <1>4, <1>5 DEF TypeOK
<1>7. /\ IsTransaction(t) /\ t.call = c /\ t.step = "read" /\ t.left = tx[w].left
      /\ t.seen = balance[x] /\ t.entries = tx[w].entries
  BY <1>4, <1>6, MovedFacts DEF Steps
<1>8. tx' = [tx EXCEPT ![w] = t] /\ held' = [held EXCEPT ![w] = held[w]]
  BY <1>1, <1>2 DEF ReadWallet, TxTypeOK, IsTransaction, Moved
<1> HIDE DEF t, x
<1>9. tx'[w] = t /\ held'[w] = held[w] /\ NextPlayer(w)' = x
  BY <1>2, <1>7, <1>8 DEF TxTypeOK, NextPlayer, x
<1>10. WorkerInv(w)'
  <2>1. OrderInv(w)'
    BY <1>1, <1>4, <1>7, <1>9 DEF OrderInv, At
  <2>2. UNCHANGED <<moneyVars, matchVars, purchase>>
    BY <1>1 DEF vars, purchaseVars
  <2>3. MutationsOf(c)' = MutationsOf(c)
    <3>1. PICK d : d = c
      OBVIOUS
    <3>2. MutationsOf(d)' = MutationsOf(d)
      BY <2>2, TablesKept
    <3> QED BY <1>7, <1>9, <3>1, <3>2
  <2>4. VisitInv(w)'
    BY <1>5, <1>7, <1>9, <2>2, <2>3 DEF VisitInv, At, moneyVars
  <2> QED BY <1>3, <1>7, <1>9, <2>1, <2>2, <2>4, OwnWork DEF WorkInv
<1>11. \A v \in Workers \ {w} :
         /\ held[w] \cap held[v] = {}
         /\ \A y \in DOMAIN t.entries, z \in DOMAIN tx[v].entries :
              t.entries[y].key # tx[v].entries[z].key
  BY <1>4, <1>7
<1> QED BY <1>1, <1>4, <1>7, <1>8, <1>10, <1>11, SameCallStep, ZenonT(30)

(* The end of a visit: the player is done with, with these entries.        *)
Visited(w, e) ==
  [tx[w] EXCEPT !.step = "players", !.left = @ \ {NextPlayer(w)}, !.entries = e]

(* Who is visited has an entry, new or on record.                          *)
LEMMA VisitedFacts ==
  ASSUME TxInv, NEW w \in Workers, NEW e, DOMAIN e \subseteq Users,
         e \in [DOMAIN e -> LedgerEntry]
  PROVE  /\ IsTransaction(Visited(w, e)) /\ Visited(w, e).call = tx[w].call
         /\ Visited(w, e).step = "players" /\ Visited(w, e).left = tx[w].left \ {NextPlayer(w)}
         /\ Visited(w, e).entries = e
<1> DEFINE t == Visited(w, e)
<1>1. PICK C \in SUBSET Users :
         tx[w] \in [call : Calls \cup {Idle.call}, step : Steps, left : SUBSET Users,
                    seen : Int, entries : [C -> LedgerEntry]]
  BY DEF TxInv, TxTypeOK, IsTransaction
<1>2. /\ t.call = tx[w].call /\ t.step = "players"
      /\ t.left = tx[w].left \ {NextPlayer(w)} /\ t.entries = e
  BY <1>1 DEF Visited
<1>3. t \in [call : Calls \cup {Idle.call}, step : Steps, left : SUBSET Users,
             seen : Int, entries : [DOMAIN e -> LedgerEntry]]
  BY <1>1 DEF Visited, Steps
<1> QED BY <1>2, <1>3 DEF IsTransaction

(* A visit ends with a new entry under a key of its own, or with one found *)
(* on record.                                                              *)
EndsVisit(w, e) ==
  LET x   == NextPlayer(w)
      mut == MutationsOf(tx[w].call)[x]
  IN  /\ At(w, "read") /\ UNCHANGED vars /\ UNCHANGED held
      /\ tx' = [tx EXCEPT ![w] = Visited(w, e)]
      /\ DOMAIN e \subseteq Users /\ e \in [DOMAIN e -> LedgerEntry]
      /\ DOMAIN tx[w].entries \subseteq DOMAIN e
      /\ DOMAIN e \subseteq DOMAIN tx[w].entries \cup {x}
      /\ \A u \in DOMAIN tx[w].entries \ {x} : e[u] = tx[w].entries[u]
      /\ IF x \in DOMAIN e
         THEN /\ ~Recorded(mut.key)
              /\ e[x] = [key |-> mut.key, amount |-> mut.amount,
                         balanceAfter |-> balance[x] + mut.amount]
              /\ Inserting(mut.key, w) = {}
         ELSE Holds(x, mut.key) /\ AmountOf(x, mut.key) = mut.amount

(* The end of a visit, with the entry written or found.                    *)
LEMMA VisitKeeps ==
  ASSUME TxInv, NEW w \in Workers, NEW e, EndsVisit(w, e)
  PROVE  TxInv'
<1>0. PICK x, c, D : x = NextPlayer(w) /\ c = tx[w].call /\ D = DOMAIN e
  OBVIOUS
<1>e. /\ At(w, "read") /\ UNCHANGED vars /\ UNCHANGED held
      /\ tx' = [tx EXCEPT ![w] = Visited(w, e)]
      /\ D \subseteq Users /\ e \in [D -> LedgerEntry]
      /\ DOMAIN tx[w].entries \subseteq D
      /\ D \subseteq DOMAIN tx[w].entries \cup {x}
      /\ \A u \in DOMAIN tx[w].entries \ {x} : e[u] = tx[w].entries[u]
      /\ x \in D =>
           /\ ~Recorded(MutationsOf(c)[x].key)
           /\ e[x] = [key |-> MutationsOf(c)[x].key, amount |-> MutationsOf(c)[x].amount,
                      balanceAfter |-> balance[x] + MutationsOf(c)[x].amount]
           /\ Inserting(MutationsOf(c)[x].key, w) = {}
      /\ x \notin D => /\ Holds(x, MutationsOf(c)[x].key)
                       /\ AmountOf(x, MutationsOf(c)[x].key) = MutationsOf(c)[x].amount
  BY <1>0 DEF EndsVisit
<1> DEFINE t == Visited(w, e)
<1>1. TxTypeOK /\ Working(w)
  BY <1>e DEF TxInv, Working, At
<1>2. /\ c \in Calls /\ Permits(c) /\ WorkInv(w)
  BY <1>0, <1>1, WorkerFacts
<1>3. /\ tx[w].left \in SUBSET Users
      /\ held[w] \in SUBSET (Users \cup Matches \cup Purchases)
      /\ OrderInv(w) /\ VisitInv(w)
      /\ \A v \in Workers \ {w} :
           /\ held[w] \cap held[v] = {}
           /\ \A y \in DOMAIN tx[w].entries, z \in DOMAIN tx[v].entries :
                tx[w].entries[y].key # tx[v].entries[z].key
  BY <1>1, <1>e, AtWork DEF At
<1>4. /\ x \in held[w] /\ x \in DOMAIN MutationsOf(c) /\ x \in tx[w].left
      /\ x \notin DOMAIN tx[w].entries
  BY <1>0, <1>2, <1>3, NextPlayerIsLeast DEF VisitInv, WorkInv
<1>5. /\ IsTransaction(t) /\ t.call = c /\ t.step = "players" /\ t.left = tx[w].left \ {x}
      /\ t.entries = e /\ DOMAIN t.entries = D
  <2>1. /\ IsTransaction(t) /\ t.call = tx[w].call /\ t.step = "players"
        /\ t.left = tx[w].left \ {NextPlayer(w)} /\ t.entries = e
    BY <1>0, <1>e, VisitedFacts
  <2> QED BY <1>0, <2>1
<1>6. tx' = [tx EXCEPT ![w] = t] /\ held' = [held EXCEPT ![w] = held[w]]
  BY <1>1, <1>e DEF TxTypeOK
<1> HIDE DEF t
<1>7. tx'[w] = t /\ held'[w] = held[w]
  BY <1>1, <1>6 DEF TxTypeOK
<1>8. WorkerInv(w)'
  <2>1. OrderInv(w)'
    <3>1. ASSUME NEW u \in held[w] \cap Users, NEW v \in tx[w].left \ {x}
          PROVE  Rank[u] <= Rank[v] /\ u # v
      BY <1>0, <1>1, <1>3, OnlyNextIsLocked DEF OrderInv
    <3> QED BY <1>5, <1>7, <3>1 DEF OrderInv
  <2>2. UNCHANGED <<moneyVars, matchVars, purchase>>
    BY <1>e DEF vars, purchaseVars
  <2>3. /\ FirstRows(w) \subseteq held'[w] /\ t.left \subseteq PlayersOf(c)
        /\ DOMAIN t.entries \subseteq (DOMAIN MutationsOf(c) \ t.left) \cap held'[w]
    BY <1>0, <1>2, <1>4, <1>5, <1>7, <1>e DEF WorkInv
  <2>4. ASSUME NEW u \in DOMAIN MutationsOf(c) \ t.left
        PROVE  IF u \in DOMAIN t.entries
               THEN /\ ~Recorded(MutationsOf(c)[u].key)
                    /\ t.entries[u] =
                         [key |-> MutationsOf(c)[u].key, amount |-> MutationsOf(c)[u].amount,
                          balanceAfter |-> balance[u] + MutationsOf(c)[u].amount]
               ELSE /\ Holds(u, MutationsOf(c)[u].key)
                    /\ AmountOf(u, MutationsOf(c)[u].key) = MutationsOf(c)[u].amount
    <3>1. CASE u = x
      BY <1>5, <1>e, <3>1
    <3>2. CASE u # x
      <4>1. u \in DOMAIN MutationsOf(c) \ tx[w].left
        BY <1>5, <3>2
      <4>2. u \in DOMAIN t.entries <=> u \in DOMAIN tx[w].entries
        BY <1>5, <1>e, <3>2
      <4>3. u \in DOMAIN tx[w].entries => t.entries[u] = tx[w].entries[u]
        BY <1>5, <1>e, <3>2
      <4> QED BY <1>0, <1>2, <4>1, <4>2, <4>3 DEF WorkInv
    <3> QED BY <3>1, <3>2
  <2> QED BY <1>0, <1>2, <1>5, <1>7, <2>1, <2>2, <2>3, <2>4, OwnWork
<1>9. ASSUME NEW v \in Workers \ {w}
      PROVE  /\ held[w] \cap held[v] = {}
             /\ \A y \in DOMAIN t.entries, z \in DOMAIN tx[v].entries :
                  t.entries[y].key # tx[v].entries[z].key
  <2>1. ASSUME NEW y \in D, NEW z \in DOMAIN tx[v].entries
        PROVE  e[y].key # tx[v].entries[z].key
    <3>1. CASE y = x
      BY <1>e, <3>1 DEF Inserting
    <3>2. CASE y # x
      BY <1>3, <1>e, <3>2
    <3> QED BY <3>1, <3>2
  <2> QED BY <1>3, <1>5, <2>1
<1>10. /\ IsTransaction(t) /\ t.call = tx[w].call /\ UNCHANGED vars
       /\ held[w] \in SUBSET (Users \cup Matches \cup Purchases)
  BY <1>0, <1>3, <1>5, <1>e
<1>11. \A v \in Workers \ {w} :
         /\ held[w] \cap held[v] = {}
         /\ \A y \in DOMAIN t.entries, z \in DOMAIN tx[v].entries :
              t.entries[y].key # tx[v].entries[z].key
  BY <1>9
<1> QED BY <1>6, <1>8, <1>10, <1>11, SameCallStep

(* A new entry has a key nobody else inserts.                              *)
LEMMA WriteEntryKeeps ==
  ASSUME TxInv, NEW w \in Workers, WriteEntry(w)
  PROVE  TxInv'
<1>0. PICK x, c, mut : x = NextPlayer(w) /\ c = tx[w].call /\ mut = MutationsOf(c)[x]
  OBVIOUS
<1>1. PICK e : e = [v \in DOMAIN tx[w].entries \cup {x} |->
                      IF v = x THEN [key |-> mut.key, amount |-> mut.amount,
                                     balanceAfter |-> tx[w].seen + mut.amount]
                      ELSE tx[w].entries[v]]
  OBVIOUS
<1>2. /\ At(w, "read") /\ ~Recorded(mut.key) /\ tx[w].seen + mut.amount >= 0
      /\ Inserting(mut.key, w) = {} /\ Written(w, e)
  BY <1>0, <1>1 DEF WriteEntry, MutationOf
<1>3. TxTypeOK /\ Working(w) /\ IInv
  BY <1>2 DEF TxInv, Working, At
<1>4. c \in Calls /\ WorkInv(w) /\ Wellformed(MutationsOf(c)) /\ DOMAIN MutationsOf(c) \subseteq Users
  BY <1>0, <1>3, WorkerFacts
<1>5. /\ VisitInv(w) /\ tx[w].seen \in Int
      /\ \A u \in DOMAIN tx[w].entries : tx[w].entries[u] \in LedgerEntry
  BY <1>2, <1>3, AtWork DEF At
<1>6. x \in DOMAIN MutationsOf(c) /\ tx[w].seen = balance[x]
  BY <1>0, <1>2, <1>5 DEF VisitInv
<1>7. mut.key \in Keys /\ mut.amount \in Int
  BY <1>0, <1>4, <1>6 DEF Wellformed
<1>8. [key |-> mut.key, amount |-> mut.amount, balanceAfter |-> tx[w].seen + mut.amount]
        \in LedgerEntry
  BY <1>2, <1>5, <1>7 DEF LedgerEntry
<1>9. /\ DOMAIN e = DOMAIN tx[w].entries \cup {x}
      /\ e[x] = [key |-> mut.key, amount |-> mut.amount, balanceAfter |-> balance[x] + mut.amount]
      /\ \A u \in DOMAIN tx[w].entries \ {x} : e[u] = tx[w].entries[u]
  BY <1>1, <1>6
<1>10. e \in [DOMAIN e -> LedgerEntry]
  BY <1>1, <1>5, <1>8
<1>11. DOMAIN e \subseteq Users
  BY <1>0, <1>4, <1>6, <1>9 DEF WorkInv
<1>12. tx' = [tx EXCEPT ![w] = Visited(w, e)] /\ UNCHANGED held /\ UNCHANGED vars
  BY <1>2, <1>3 DEF Written, Visited, TxTypeOK, IsTransaction
<1>13. EndsVisit(w, e)
  BY <1>0, <1>2, <1>9, <1>10, <1>11, <1>12 DEF EndsVisit
<1> QED BY <1>13, VisitKeeps

(* A key that is found was committed with this amount.                     *)
LEMMA FindEntryKeeps ==
  ASSUME TxInv, NEW w \in Workers, FindEntry(w)
  PROVE  TxInv'
<1>0. PICK x, c, mut, e :
         x = NextPlayer(w) /\ c = tx[w].call /\ mut = MutationsOf(c)[x] /\ e = tx[w].entries
  OBVIOUS
<1>1. /\ At(w, "read") /\ Holds(x, mut.key) /\ AmountOf(x, mut.key) = mut.amount
      /\ Written(w, e)
  BY <1>0 DEF FindEntry, MutationOf
<1>2. TxTypeOK /\ Working(w)
  BY <1>1 DEF TxInv, Working, At
<1>3. WorkInv(w) /\ DOMAIN MutationsOf(c) \subseteq Users
  BY <1>0, <1>2, WorkerFacts
<1>4. /\ VisitInv(w) /\ tx[w].left \in SUBSET Users
      /\ \A u \in DOMAIN tx[w].entries : tx[w].entries[u] \in LedgerEntry
  BY <1>1, <1>2, AtWork DEF At
<1>5. x \notin DOMAIN e
  BY <1>0, <1>3, <1>4, NextPlayerIsLeast DEF VisitInv, WorkInv
<1>6. e \in [DOMAIN e -> LedgerEntry] /\ DOMAIN e \subseteq Users
  BY <1>0, <1>2, <1>3, <1>4 DEF WorkInv, TxTypeOK, IsTransaction
<1>7. tx' = [tx EXCEPT ![w] = Visited(w, e)] /\ UNCHANGED held /\ UNCHANGED vars
  BY <1>1, <1>2 DEF Written, Visited, TxTypeOK, IsTransaction
<1>8. EndsVisit(w, e)
  BY <1>0, <1>1, <1>5, <1>6, <1>7 DEF EndsVisit
<1> QED BY <1>8, VisitKeeps

-----------------------------------------------------------------------------
(* The end of a transaction. *)

(* It takes a transaction of completePurchase and its call off together.   *)
LEMMA EndCounts ==
  ASSUME TxInv, NEW w \in Workers, ~At(w, "idle"), End(w)
  PROVE  \A p \in Purchases : Unstarted(p)' >= 0
<1> SUFFICES ASSUME NEW p \in Purchases PROVE Unstarted(p)' >= 0
  OBVIOUS
<1> DEFINE runs == {v \in Workers : Ref(v) = p}
<1>1. TxTypeOK /\ WorkerInv(w) /\ completing \in [Purchases -> 0..MaxCompleters]
      /\ completing[p] - Cardinality(runs) >= 0
  BY DEF TxInv, IInv, TypeOK, Unstarted
<1>2. Ref(w)' = Bot /\ \A v \in Workers \ {w} : Ref(v)' = Ref(v)
  BY <1>1, IdleFacts DEF End, TxTypeOK, Ref
<1>3. runs' = runs \ {w}
  BY <1>2, WalletTxAssumption
<1>4. IsFiniteSet(runs) /\ Cardinality(runs) \in Nat
  BY WalletTxAssumption, FS_Subset, FS_CardinalityType
<1>5. Unstarted(p)' = completing'[p] - Cardinality(runs')
  BY DEF Unstarted
<1>6. CASE w \in runs
  <2>1. Ref(w) = p /\ Op(w) = "complete"
    BY <1>6, RefsOfPurchases
  <2>2. completing'[p] = completing[p] - 1
    BY <1>1, <2>1 DEF End
  <2>3. Cardinality(runs \ {w}) = Cardinality(runs) - 1
    BY <1>4, <1>6, FS_RemoveElement
  <2> HIDE DEF runs
  <2> QED BY <1>1, <1>3, <1>4, <1>5, <2>2, <2>3
<1>7. CASE w \notin runs
  <2>1. runs' = runs
    BY <1>3, <1>7
  <2>2. completing'[p] = completing[p]
    <3>1. CASE Op(w) = "complete"
      <4>1. Ref(w) \in Purchases /\ Ref(w) # p
        BY <1>1, <1>7, <3>1, CallKinds DEF WorkerInv, Op, Ref
      <4> QED BY <1>1, <3>1, <4>1 DEF End
    <3>2. CASE Op(w) # "complete"
      BY <3>2 DEF End
    <3> QED BY <3>1, <3>2
  <2> HIDE DEF runs
  <2> QED BY <1>1, <1>5, <2>1, <2>2
<1> QED BY <1>6, <1>7

(* Afterwards the transaction holds nothing. *)
LEMMA EndIdles ==
  ASSUME TxInv, NEW w \in Workers, End(w)
  PROVE  /\ tx' = [tx EXCEPT ![w] = Idle] /\ held' = [held EXCEPT ![w] = {}]
         /\ WorkerInv(w)'
         /\ \A v \in Workers \ {w} : tx'[v] = tx[v] /\ held'[v] = held[v]
<1>1. TxTypeOK
  BY DEF TxInv
<1>2. tx' = [tx EXCEPT ![w] = Idle] /\ held' = [held EXCEPT ![w] = {}]
  BY DEF End
<1>3. tx'[w] = Idle /\ held'[w] = {}
      /\ \A v \in Workers \ {w} : tx'[v] = tx[v] /\ held'[v] = held[v]
  BY <1>1, <1>2 DEF TxTypeOK
<1>4. WorkerInv(w)'
  BY <1>3, IdleFacts, NotWorkingYet
<1> QED BY <1>2, <1>3, <1>4

(* A rollback leaves the tables and loses the transaction.                 *)
LEMMA RollbackIsLoss ==
  ASSUME TxInv, NEW w \in Workers, Rollback(w)
  PROVE  [Next]_vars
<1>1. /\ ~At(w, "idle") /\ UNCHANGED <<moneyVars, matchVars, purchase>>
      /\ completing' = IF Op(w) = "complete" THEN [completing EXCEPT ![Ref(w)] = @ - 1]
                       ELSE completing
  BY DEF Rollback, End
<1>2. CASE Op(w) = "complete"
  <2>1. PICK p \in Purchases : p = Ref(w)
    BY <1>1, <1>2, CallKinds DEF TxInv, WorkerInv, Op, Ref
  <2>2. completing[p] > 0
    BY <2>1, CompletionBegun
  <2>3. LoseCompletePurchase(p)
    BY <1>1, <1>2, <2>1, <2>2 DEF LoseCompletePurchase
  <2> QED BY <2>3 DEF Next
<1>3. CASE Op(w) # "complete"
  BY <1>1, <1>3 DEF vars, purchaseVars
<1> QED BY <1>2, <1>3

(* It keeps the invariant.                                                 *)
LEMMA RollbackKeeps ==
  ASSUME TxInv, NEW w \in Workers, Rollback(w)
  PROVE  TxInv'
<1>0. {} \in SUBSET (Users \cup Matches \cup Purchases)
  OBVIOUS
<1>1. PICK t, h : t = Idle /\ h = {}
  OBVIOUS
<1>2. End(w) /\ UNCHANGED <<moneyVars, matchVars, purchase>> /\ ~At(w, "idle")
  BY DEF Rollback
<1>3. IInv'
  BY RollbackIsLoss, NextInv DEF TxInv
<1>4. /\ tx' = [tx EXCEPT ![w] = t] /\ held' = [held EXCEPT ![w] = h]
      /\ WorkerInv(w)'
  BY <1>1, <1>2, EndIdles
<1>5. \A p \in Purchases : Unstarted(p)' >= 0
  BY <1>2, EndCounts
<1>6. IsTransaction(t) /\ DOMAIN t.entries = {}
  BY <1>1, IdleFacts
<1>7. \A v \in Workers \ {w} :
        /\ h \cap held[v] = {}
        /\ \A u \in DOMAIN t.entries, x \in DOMAIN tx[v].entries :
             t.entries[u].key # tx[v].entries[x].key
  BY <1>1, <1>6
<1> QED BY <1>0, <1>1, <1>2, <1>3, <1>4, <1>5, <1>6, <1>7, LocalStep

(* What a commit writes to the tables, for the transactions that go on.    *)
LEMMA CommitWrites ==
  ASSUME TxInv, NEW w \in Workers, Commit(w), NEW c, c = tx[w].call
  PROVE  /\ c \in Calls /\ FirstRows(w) \subseteq held[w]
         /\ c.op # "adjust" => c.ref \in held[w]
         /\ \A u \in Users \ DOMAIN tx[w].entries : balance'[u] = balance[u]
         /\ DOMAIN tx[w].entries \subseteq held[w]
         /\ \A u \in Users : \A k :
              /\ Holds(u, k) => Holds(u, k)' /\ AmountOf(u, k)' = AmountOf(u, k)
              /\ Holds(u, k)' => \/ Holds(u, k)
                                 \/ k.kind = KindOf(c.op) /\ k.ref = c.ref
              /\ Holds(u, k)' => \/ Recorded(k)
                                 \/ \E x \in DOMAIN tx[w].entries : tx[w].entries[x].key = k
<1>1. Working(w) /\ IInv /\ \A p \in Purchases : purchase[p].status # "NONE"
  BY DEF Commit, Working, At, TxInv
<1>2. PICK muts : muts = MutationsOf(c)
  OBVIOUS
<1>3. /\ c \in Calls /\ Permits(c) /\ WorkInv(w)
      /\ Wellformed(muts) /\ DistinctKeys(muts)
  BY <1>1, <1>2, WorkerFacts
<1>4. /\ FirstRows(w) \subseteq held[w] /\ DOMAIN tx[w].entries \subseteq held[w]
      /\ c.op # "adjust" => c.ref \in held[w]
  BY <1>3 DEF WorkInv, FirstRows, Op, Ref
<1>5. Accepts(muts) /\ MutateWallets(muts)
  BY <1>2, CommitMutates
<1>6. \A u \in Users : \A k :
         /\ Holds(u, k)' <=> Holds(u, k) \/ (u \in DOMAIN muts /\ muts[u].key = k)
         /\ Holds(u, k) => AmountOf(u, k)' = AmountOf(u, k)
  BY <1>1, <1>3, <1>5, MutateEffect
<1>7. \A u \in DOMAIN muts : muts[u].key.kind = KindOf(c.op) /\ muts[u].key.ref = c.ref
  BY <1>1, <1>2, <1>3, MutationsFacts
<1>8. \A u \in DOMAIN muts : \/ Holds(u, muts[u].key)
                             \/ u \in DOMAIN tx[w].entries /\ tx[w].entries[u].key = muts[u].key
  <2>1. tx[w].left = {}
    BY DEF Commit
  <2>2. \A u \in DOMAIN muts \ tx[w].left :
           IF u \in DOMAIN tx[w].entries
           THEN /\ ~Recorded(muts[u].key)
                /\ tx[w].entries[u] = [key |-> muts[u].key, amount |-> muts[u].amount,
                                       balanceAfter |-> balance[u] + muts[u].amount]
           ELSE Holds(u, muts[u].key) /\ AmountOf(u, muts[u].key) = muts[u].amount
    BY <1>2, <1>3 DEF WorkInv
  <2>3. ASSUME NEW u \in DOMAIN muts
        PROVE  \/ Holds(u, muts[u].key)
               \/ u \in DOMAIN tx[w].entries /\ tx[w].entries[u].key = muts[u].key
    <3>1. CASE u \in DOMAIN tx[w].entries
      <4>1. tx[w].entries[u] = [key |-> muts[u].key, amount |-> muts[u].amount,
                                balanceAfter |-> balance[u] + muts[u].amount]
        BY <2>1, <2>2, <3>1
      <4> QED BY <3>1, <4>1
    <3>2. CASE u \notin DOMAIN tx[w].entries
      BY <2>1, <2>2, <3>2
    <3> QED BY <3>1, <3>2
  <2> QED BY <2>3
<1>9. \A u \in Users \ DOMAIN tx[w].entries : balance'[u] = balance[u]
  BY DEF Commit
<1>10. ASSUME NEW u \in Users, NEW k, Holds(u, k)'
       PROVE  /\ Holds(u, k) \/ (k.kind = KindOf(c.op) /\ k.ref = c.ref)
              /\ Recorded(k) \/ \E x \in DOMAIN tx[w].entries : tx[w].entries[x].key = k
  BY <1>6, <1>7, <1>8, <1>10 DEF Recorded
<1> QED BY <1>3, <1>4, <1>6, <1>9, <1>10

(* The row a transaction has locked is not the row of another's commit.    *)
LEMMA CommitRow ==
  ASSUME TxInv, NEW w \in Workers, Commit(w), NEW c, c = tx[w].call,
         NEW v \in Workers \ {w}, NEW m \in Matches, m \in held[v]
  PROVE  /\ status'[m] = status[m] /\ refunded'[m] = refunded[m]
         /\ \A u \in Users : \A k :
              k.ref = m /\ k.kind = "entry" => (Holds(u, k)' <=> Holds(u, k))
<1>1. c \in Calls /\ (c.op # "adjust" => c.ref \in held[w])
      /\ \A u \in Users : \A k :
              /\ Holds(u, k) => Holds(u, k)' /\ AmountOf(u, k)' = AmountOf(u, k)
              /\ Holds(u, k)' => \/ Holds(u, k)
                                 \/ k.kind = KindOf(c.op) /\ k.ref = c.ref
  BY CommitWrites
<1>2. held[v] \cap held[w] = {}
  BY DEF TxInv, Apart
<1>3. c.op # "adjust" => c.ref # m
  BY <1>1, <1>2
<1>4. /\ status' = CASE c.op = "payout" -> [status EXCEPT ![c.ref] = "FINISHED"]
                     [] c.op = "refund" -> [status EXCEPT ![c.ref] = "ABORTED"]
                     [] OTHER            -> status
      /\ refunded' = IF c.op = "refund" THEN [refunded EXCEPT ![c.ref] = TRUE] ELSE refunded
      /\ status \in [Matches -> Statuses] /\ refunded \in [Matches -> BOOLEAN]
  BY DEF Commit, Op, Ref, TxInv, IInv, TypeOK
<1>5. status'[m] = status[m] /\ refunded'[m] = refunded[m]
  BY <1>3, <1>4
<1>6. KindOf(c.op) = "entry" => c.op # "adjust"
  BY DEF KindOf
<1>7. ASSUME NEW u \in Users, NEW k, k.ref = m, k.kind = "entry"
      PROVE  Holds(u, k)' <=> Holds(u, k)
  BY <1>1, <1>3, <1>6, <1>7
<1> QED BY <1>5, <1>7

(* What a transaction has checked and read under its locks survives the    *)
(* commit of another.                                                      *)
LEMMA CommitSpares ==
  ASSUME TxInv, NEW w \in Workers, Commit(w), NEW v \in Workers \ {w}, Working(v),
         NEW d, d = tx[v].call
  PROVE  Permits(d)' /\ PlayersOf(d)' = PlayersOf(d) /\ MutationsOf(d)' = MutationsOf(d)
<1>1. d \in Calls /\ Permits(d) /\ WorkInv(v)
  BY WorkerFacts
<1>2. d.op # "adjust" => d.ref \in held[v]
  BY <1>1 DEF WorkInv, FirstRows, Op, Ref
<1>3. UNCHANGED <<terms, seats>>
  BY DEF Commit
<1>4. \A m : Humans(m)' = Humans(m)
  BY <1>3 DEF Humans
<1>5. \A p \in Purchases : purchase'[p].user = purchase[p].user
                          /\ purchase'[p].chips = purchase[p].chips
  BY DEF Commit, TxInv, IInv, TypeOK
<1>6. ASSUME NEW m \in Matches, m \in held[v]
      PROVE  /\ status'[m] = status[m] /\ refunded'[m] = refunded[m]
             /\ Debited(m)' = Debited(m) /\ RefundCredits(m)' = RefundCredits(m)
  <2>1. PICK c : c = tx[w].call
    OBVIOUS
  <2>2. /\ status'[m] = status[m] /\ refunded'[m] = refunded[m]
        /\ \A u \in Users : \A k :
              k.ref = m /\ k.kind = "entry" => (Holds(u, k)' <=> Holds(u, k))
    BY <1>6, <2>1, CommitRow
  <2>3. \A u \in Users : \A k : Holds(u, k) => AmountOf(u, k)' = AmountOf(u, k)
    BY <2>1, CommitWrites
  <2>4. \A u : EntryKey(m, u).ref = m /\ EntryKey(m, u).kind = "entry"
    BY DEF EntryKey
  <2>5. Humans(m) \subseteq Users
    BY DEF Humans, TxInv, IInv, TypeOK
  <2>6. \A u \in Humans(m) :
           /\ Holds(u, EntryKey(m, u))' <=> Holds(u, EntryKey(m, u))
           /\ Holds(u, EntryKey(m, u)) => AmountOf(u, EntryKey(m, u))' = AmountOf(u, EntryKey(m, u))
    BY <2>2, <2>3, <2>4, <2>5
  <2>7. Debited(m)' = Debited(m)
    BY <1>4, <2>6 DEF Debited
  <2>8. \A u \in Debited(m) : AmountOf(u, EntryKey(m, u))' = AmountOf(u, EntryKey(m, u))
    BY <2>6 DEF Debited
  <2>9. RefundCredits(m)' = RefundCredits(m)
    BY <2>7, <2>8 DEF RefundCredits
  <2> QED BY <2>2, <2>7, <2>9
<1>7. CASE d.op = "deduct"
  BY <1>1, <1>2, <1>3, <1>4, <1>6, <1>7, CallKinds DEF Permits, PlayersOf, MutationsOf
<1>8. CASE d.op = "payout"
  BY <1>1, <1>2, <1>3, <1>4, <1>6, <1>8, CallKinds DEF Permits, PlayersOf, MutationsOf
<1>9. CASE d.op = "refund"
  BY <1>1, <1>2, <1>3, <1>4, <1>6, <1>9, CallKinds DEF Permits, PlayersOf, MutationsOf
<1>10. CASE d.op = "adjust"
  BY <1>10 DEF Permits, PlayersOf, MutationsOf
<1>11. CASE d.op = "complete"
  BY <1>1, <1>5, <1>11, CallKinds DEF Permits, PlayersOf, MutationsOf
<1> QED BY <1>1, <1>7, <1>8, <1>9, <1>10, <1>11, CallKinds

(* A commit does not disturb what others have read under their locks.      *)
LEMMA CommitKeeps ==
  ASSUME TxInv, NEW w \in Workers, Commit(w)
  PROVE  TxInv'
<1>1. End(w) /\ At(w, "players") /\ ~At(w, "idle")
  BY DEF Commit, At
<1>2. IInv'
  BY CommitIsTransaction, NextInv DEF TxInv
<1>3. /\ Moves(w, Idle, {}) /\ WorkerInv(w)'
      /\ \A v \in Workers \ {w} : tx'[v] = tx[v] /\ held'[v] = held[v]
  BY <1>1, EndIdles DEF Moves
<1>4. TxTypeOK' /\ \A v, x \in Workers : v # x => Apart(v, x)'
  <2>1. {} \in SUBSET (Users \cup Matches \cup Purchases) /\ IsTransaction(Idle)
        /\ DOMAIN Idle.entries = {}
    BY IdleFacts
  <2>2. \A v \in Workers \ {w} :
           /\ {} \cap held[v] = {}
           /\ \A u \in DOMAIN Idle.entries, x \in DOMAIN tx[v].entries :
                Idle.entries[u].key # tx[v].entries[x].key
    BY <2>1
  <2> QED BY <1>3, <2>1, <2>2, OneMoves
<1>5. ASSUME NEW v \in Workers \ {w}
      PROVE  WorkerInv(v)'
  <2>1. PICK c, d : c = tx[w].call /\ d = tx[v].call
    OBVIOUS
  <2>2. /\ \A u \in Users \ DOMAIN tx[w].entries : balance'[u] = balance[u]
        /\ DOMAIN tx[w].entries \subseteq held[w]
        /\ \A u \in Users : \A k : Holds(u, k) => Holds(u, k)' /\ AmountOf(u, k)' = AmountOf(u, k)
        /\ \A u \in Users : \A k : Holds(u, k)' =>
              Recorded(k) \/ \E x \in DOMAIN tx[w].entries : tx[w].entries[x].key = k
    BY <2>1, CommitWrites
  <2>3. held[v] \cap held[w] = {}
        /\ \A u \in DOMAIN tx[v].entries, x \in DOMAIN tx[w].entries :
             tx[v].entries[u].key # tx[w].entries[x].key
    BY DEF TxInv, Apart
  <2>4. \A u \in held[v] \cap Users : balance'[u] = balance[u]
    BY <2>2, <2>3
  <2>5. ASSUME Working(v)
        PROVE  /\ Permits(d)' /\ PlayersOf(d)' = PlayersOf(d) /\ MutationsOf(d)' = MutationsOf(d)
               /\ DOMAIN MutationsOf(d) \subseteq Users
               /\ \A u \in DOMAIN tx[v].entries :
                    Recorded(MutationsOf(d)[u].key)' => Recorded(MutationsOf(d)[u].key)
    <3>1. Permits(d)' /\ PlayersOf(d)' = PlayersOf(d) /\ MutationsOf(d)' = MutationsOf(d)
      BY <2>1, <2>5, CommitSpares
    <3>2. WorkInv(v) /\ DOMAIN MutationsOf(d) \subseteq Users
      BY <2>1, <2>5, WorkerFacts
    <3>3. ASSUME NEW u \in DOMAIN tx[v].entries
          PROVE  tx[v].entries[u].key = MutationsOf(d)[u].key
      <4>1. u \in DOMAIN MutationsOf(d) \ tx[v].left
        BY <2>1, <3>2 DEF WorkInv
      <4>2. tx[v].entries[u] = [key |-> MutationsOf(d)[u].key, amount |-> MutationsOf(d)[u].amount,
                                balanceAfter |-> balance[u] + MutationsOf(d)[u].amount]
        BY <2>1, <3>2, <4>1 DEF WorkInv
      <4> QED BY <4>2
    <3>4. ASSUME NEW u \in DOMAIN tx[v].entries, Recorded(MutationsOf(d)[u].key)'
          PROVE  Recorded(MutationsOf(d)[u].key)
      <4>1. PICK k : k = MutationsOf(d)[u].key
        OBVIOUS
      <4>2. MutationsOf(d)'[u].key = k /\ tx[v].entries[u].key = k
        BY <3>1, <3>3, <4>1
      <4>3. Recorded(k)'
        BY <3>4, <4>2
      <4>4. PICK y \in Users : Holds(y, k)'
        BY <4>3 DEF Recorded
      <4> QED BY <2>2, <2>3, <4>1, <4>2, <4>4
    <3> QED BY <3>1, <3>2, <3>4
  <2>6. WorkerInv(v)
    BY DEF TxInv
  <2> QED BY <1>3, <2>1, <2>2, <2>4, <2>5, <2>6, WorkerKept
<1>6. \A p \in Purchases : Unstarted(p)' >= 0
  BY <1>1, EndCounts
<1>7. /\ \A m \in Matches : status'[m] # "NONE"
      /\ \A p \in Purchases : purchase'[p].status # "NONE"
  BY DEF Commit, TxInv, IInv, TypeOK
<1> QED BY <1>2, <1>3, <1>4, <1>5, <1>6, <1>7 DEF TxInv

-----------------------------------------------------------------------------
(* The single statements. *)

(* A step that leaves the transactions and their rows alone. *)
LEMMA NobodyMoves ==
  ASSUME TxInv, UNCHANGED txVars, IInv', \A v \in Workers : WorkerInv(v)',
         \A m \in Matches : status'[m] # "NONE",
         \A p \in Purchases : purchase'[p].status # "NONE" /\ completing'[p] >= completing[p]
  PROVE  TxInv'
<1>1. tx' = tx /\ held' = held
  BY DEF txVars
<1>2. TxTypeOK' /\ \A v, w \in Workers : v # w => Apart(v, w)'
  BY <1>1 DEF TxInv, TxTypeOK, Apart
<1>3. ASSUME NEW p \in Purchases
      PROVE  Unstarted(p)' >= 0
  <2> DEFINE runs == {v \in Workers : Ref(v) = p}
  <2>1. runs' = runs
    BY <1>1 DEF Ref
  <2>2. IsFiniteSet(runs) /\ Cardinality(runs) \in Nat
    BY WalletTxAssumption, FS_Subset, FS_CardinalityType
  <2>3. completing[p] - Cardinality(runs) >= 0 /\ completing[p] \in Nat /\ completing'[p] \in Nat
    BY DEF TxInv, IInv, TypeOK, Unstarted
  <2>4. Unstarted(p)' = completing'[p] - Cardinality(runs')
    BY DEF Unstarted
  <2> HIDE DEF runs
  <2> QED BY <2>1, <2>2, <2>3, <2>4
<1> QED BY <1>2, <1>3 DEF TxInv

(* The update of a match row nobody has locked. *)
LEMMA UpdateMatchKeeps ==
  ASSUME TxInv, NEW m \in Matches, UpdateMatch(m)
  PROVE  TxInv' /\ Next
<1>1. /\ \A w \in Workers : m \notin held[w]
      /\ ActivateMatch(m) \/ FinishBotWin(m)
      /\ UNCHANGED txVars
  BY DEF UpdateMatch
<1>2. Next
  BY <1>1 DEF Next
<1>3. IInv'
  BY <1>2, NextInv DEF TxInv
<1>4. /\ UNCHANGED <<moneyVars, terms, seats, refunded, winner, purchaseVars>>
      /\ status' = [status EXCEPT ![m] = "ACTIVE"] \/ status' = [status EXCEPT ![m] = "FINISHED"]
  BY <1>1 DEF ActivateMatch, FinishBotWin
<1>5. ASSUME NEW v \in Workers
      PROVE  WorkerInv(v)'
  <2>1. PICK d : d = tx[v].call
    OBVIOUS
  <2>2. \A u, k : (Holds(u, k)' <=> Holds(u, k)) /\ AmountOf(u, k)' = AmountOf(u, k)
    BY <1>4, NoMoney
  <2>3. ASSUME Working(v)
        PROVE  /\ Permits(d)' /\ PlayersOf(d)' = PlayersOf(d) /\ MutationsOf(d)' = MutationsOf(d)
               /\ DOMAIN MutationsOf(d) \subseteq Users
               /\ \A u \in DOMAIN tx[v].entries :
                    Recorded(MutationsOf(d)[u].key)' => Recorded(MutationsOf(d)[u].key)
    <3>1. d \in Calls /\ Permits(d) /\ WorkInv(v) /\ DOMAIN MutationsOf(d) \subseteq Users
      BY <2>1, <2>3, WorkerFacts
    <3>2. d.op # "adjust" => d.ref # m
      BY <1>1, <2>1, <3>1 DEF WorkInv, FirstRows, Op, Ref
    <3>3. \A x : Humans(x)' = Humans(x)
      BY <1>4 DEF Humans
    <3>4. \A x : Debited(x)' = Debited(x) /\ RefundCredits(x)' = RefundCredits(x)
      BY <2>2, <3>3 DEF Debited, RefundCredits
    <3>5. MutationsOf(d)' = MutationsOf(d)
      BY <1>4, <3>3, <3>4 DEF MutationsOf, purchaseVars
    <3>6. PlayersOf(d)' = PlayersOf(d)
      BY <1>4, <3>3 DEF PlayersOf, purchaseVars
    <3>7. status \in [Matches -> Statuses]
      BY DEF TxInv, IInv, TypeOK
    <3>8. d.op \in {"deduct", "payout", "refund"} => status'[d.ref] = status[d.ref]
      BY <1>4, <3>1, <3>2, <3>7, CallKinds
    <3>9. Permits(d)'
      BY <1>4, <3>1, <3>3, <3>8 DEF Permits
    <3>10. \A k : Recorded(k)' <=> Recorded(k)
      BY <2>2 DEF Recorded
    <3> QED BY <3>1, <3>5, <3>6, <3>9, <3>10
  <2>4. WorkerInv(v) /\ tx'[v] = tx[v] /\ held'[v] = held[v] /\ balance' = balance
    BY <1>1, <1>4 DEF TxInv, txVars, moneyVars
  <2> QED BY <2>1, <2>2, <2>3, <2>4, WorkerKept
<1>6. /\ \A x \in Matches : status'[x] # "NONE"
      /\ \A p \in Purchases : purchase'[p].status # "NONE" /\ completing'[p] >= completing[p]
  BY <1>4 DEF TxInv, IInv, TypeOK, purchaseVars
<1> QED BY <1>1, <1>2, <1>3, <1>5, <1>6, NobodyMoves

(* The status check of completePurchase, before its transaction. *)
LEMMA ReadPurchaseKeeps ==
  ASSUME TxInv, NEW p \in Purchases, ReadPurchase(p)
  PROVE  TxInv' /\ Next
<1>1. BeginCompletePurchase(p) /\ UNCHANGED txVars
  BY DEF ReadPurchase
<1>2. Next
  BY <1>1 DEF Next
<1>3. IInv'
  BY <1>2, NextInv DEF TxInv
<1>4. UNCHANGED <<moneyVars, matchVars, purchase>>
      /\ completing' = [completing EXCEPT ![p] = @ + 1]
  BY <1>1 DEF BeginCompletePurchase
<1>5. \A v \in Workers : WorkerInv(v)'
  BY <1>1, <1>4, OthersKept DEF txVars
<1>6. /\ \A x \in Matches : status'[x] # "NONE"
      /\ \A q \in Purchases : purchase'[q].status # "NONE" /\ completing'[q] >= completing[q]
  BY <1>4 DEF TxInv, IInv, TypeOK, matchVars
<1> QED BY <1>1, <1>2, <1>3, <1>5, <1>6, NobodyMoves

-----------------------------------------------------------------------------
(* The invariant holds initially, and every step preserves it. *)

(* The tables as the instances begin with them.                            *)
LEMMA TxInitTables ==
  ASSUME TxInit
  PROVE  IInv
<1> USE DEF TxInit
<1>1. PICK chips : chips = CHOOSE n \in Packs : TRUE
  OBVIOUS
<1>2. chips \in Nat
  BY <1>1, WalletTxAssumption
<1>3. ASSUME NEW u \in Users
      PROVE  /\ [key |-> StartingKey(u), amount |-> StartingChips, balanceAfter |-> StartingChips]
                  \in LedgerEntry
             /\ DOMAIN ledger[u] = {1} /\ Len(ledger[u]) = 1
             /\ ledger[u][1].key = StartingKey(u) /\ ledger[u][1].amount = StartingChips
             /\ ledger[u][1].balanceAfter = StartingChips /\ balance[u] = StartingChips
  <2>1. StartingKey(u) \in Keys
    BY DEF StartingKey, Keys
  <2> QED BY <2>1 DEF LedgerEntry
<1>4. TypeOK
  <2>1. balance \in [Users -> Nat]
    OBVIOUS
  <2>2. ledger \in [Users -> Seq(LedgerEntry)]
    BY <1>3
  <2>3. /\ status \in [Matches -> Statuses] /\ refunded \in [Matches -> BOOLEAN]
        /\ winner \in [Matches -> Users \cup {Bot}]
    BY DEF Statuses
  <2>4. terms \in [Matches -> [fee : Nat, payout : Nat]]
    BY WalletTxAssumption
  <2>5. seats \in [Matches -> [Seat -> Users \cup {Bot}]]
    BY WalletTxAssumption DEF Lineups
  <2>6. purchase \in [Purchases -> [status : {"NONE", "PENDING", "COMPLETED"},
                                    user : Users \cup {Bot}, chips : Nat]]
    BY <1>1, <1>2, WalletTxAssumption
  <2>7. completing \in [Purchases -> 0..MaxCompleters]
    OBVIOUS
  <2> HIDE DEF TxInit
  <2> QED BY <2>1, <2>2, <2>3, <2>4, <2>5, <2>6, <2>7 DEF TypeOK
<1>5. \A u \in Users : \A k : Holds(u, k) => k = StartingKey(u)
  BY <1>3 DEF Holds
<1>6. LedgerExplainsBalance
  BY <1>3 DEF LedgerExplainsBalance, BalanceAt
<1>7. KeysUnique
  BY <1>3 DEF KeysUnique, StartingKey
<1>8. \A u, v \in Users : \A m : /\ ~Holds(u, EntryKey(m, v)) /\ ~Holds(u, PayoutKey(m))
                                 /\ ~Holds(u, RefundKey(m, v)) /\ ~Holds(u, PurchaseKey(m))
  BY <1>5 DEF StartingKey, EntryKey, PayoutKey, RefundKey, PurchaseKey
<1>9. \A m \in Matches : MatchInv(m)
  BY <1>8 DEF MatchInv
<1>10. \A p \in Purchases : PurchaseInv(p)
  <2>1. \A u \in Users : \A k : \A p : Credits(k, p) => ~Holds(u, k)
    BY <1>5 DEF StartingKey, Credits
  <2> QED BY <1>8, <2>1, WalletTxAssumption DEF PurchaseInv
<1> QED BY <1>4, <1>6, <1>7, <1>9, <1>10 DEF IInv

(* The invariant holds initially ...                                       *)
LEMMA TxInitInv == TxInit => TxInv
<1> SUFFICES ASSUME TxInit PROVE TxInv
  OBVIOUS
<1>1. IInv
  BY TxInitTables
<1>2. /\ tx = [w \in Workers |-> tx[w]]
      /\ \A w \in Workers : tx[w] = Idle /\ held[w] = {}
      /\ held \in [Workers -> SUBSET (Users \cup Matches \cup Purchases)]
      /\ \A m \in Matches : status[m] # "NONE"
      /\ \A p \in Purchases : purchase[p].status # "NONE" /\ completing[p] = 0
  BY DEF TxInit
<1>3. TxTypeOK
  BY <1>2, IdleFacts DEF TxTypeOK
<1>4. ASSUME NEW w \in Workers
      PROVE  WorkerInv(w)
  <2>1. At(w, "idle") /\ ~Working(w) /\ tx[w].step \notin {"locked", "read"}
    BY <1>2, IdleFacts DEF At, Working
  <2>2. OrderInv(w)
    BY <1>2 DEF OrderInv
  <2> QED BY <1>2, <2>1, <2>2, IdleFacts DEF WorkerInv
<1>5. \A v, w \in Workers : Apart(v, w)
  BY <1>2, IdleFacts DEF Apart
<1>6. ASSUME NEW p \in Purchases
      PROVE  Unstarted(p) >= 0
  <2>1. {w \in Workers : Ref(w) = p} = {}
    BY <1>2, IdleFacts, WalletTxAssumption DEF Ref
  <2>2. Cardinality({}) = 0
    BY FS_EmptySet
  <2>3. Unstarted(p) = 0 - 0
    BY <1>2, <2>1, <2>2, Zenon DEF Unstarted
  <2> QED BY <2>3
<1> QED BY <1>1, <1>2, <1>3, <1>4, <1>5, <1>6 DEF TxInv

(* ... and every statement preserves it.                                   *)
LEMMA TxNextInv == TxInv /\ [TxNext]_allVars => TxInv'
<1> SUFFICES ASSUME TxInv, [TxNext]_allVars PROVE TxInv'
  OBVIOUS
<1>1. ASSUME NEW w \in Workers, NEW c \in Calls, Begin(w, c) PROVE TxInv'
  BY <1>1, BeginKeeps
<1>2. ASSUME NEW w \in Workers, Statement(w) PROVE TxInv'
  BY <1>2, OpenKeeps, PassKeeps, LockWalletKeeps, ReadWalletKeeps, WriteEntryKeeps,
     FindEntryKeeps, CommitKeeps DEF Statement
<1>3. ASSUME NEW w \in Workers, Rollback(w) PROVE TxInv'
  BY <1>3, RollbackKeeps
<1>4. ASSUME NEW m \in Matches, UpdateMatch(m) PROVE TxInv'
  BY <1>4, UpdateMatchKeeps
<1>5. ASSUME NEW p \in Purchases, ReadPurchase(p) PROVE TxInv'
  BY <1>5, ReadPurchaseKeeps
<1>6. CASE UNCHANGED allVars
  <2>1. UNCHANGED txVars /\ UNCHANGED vars
    BY <1>6 DEF allVars
  <2>2. IInv' /\ UNCHANGED <<moneyVars, matchVars, purchase>>
    BY <2>1, TablesStutter DEF TxInv
  <2>3. \A v \in Workers : WorkerInv(v)'
    BY <2>1, <2>2, OthersKept DEF txVars
  <2>4. /\ \A x \in Matches : status'[x] # "NONE"
        /\ \A q \in Purchases : purchase'[q].status # "NONE" /\ completing'[q] >= completing[q]
    BY <2>1 DEF TxInv, IInv, TypeOK, vars, matchVars, purchaseVars
  <2> QED BY <2>1, <2>2, <2>3, <2>4, NobodyMoves
<1> QED BY <1>1, <1>2, <1>3, <1>4, <1>5, <1>6 DEF TxNext

(* The invariant of the statements, for any number of transactions.        *)
THEOREM TxInvariance == TxSpec => []TxInv
<1>1. TxInit => TxInv
  BY TxInitInv
<1>2. TxInv /\ [TxNext]_allVars => TxInv'
  BY TxNextInv
<1> QED BY <1>1, <1>2, PTL DEF TxSpec

(* However the statements interleave, the ledger accounts for every        *)
(* balance, a match is settled one way and a purchase credited once.       *)
THEOREM StatementsKeepTables ==
  TxSpec => [](/\ TypeOK /\ LedgerExplainsBalance /\ KeysUnique
               /\ SettledOneWay /\ AllStakeOrNone /\ RefundUndoesDebit
               /\ PurchaseCreditedOnce)
<1>1. TxInv => IInv
  BY DEF TxInv
<1>2. IInv => TypeOK /\ LedgerExplainsBalance /\ KeysUnique
  BY DEF IInv
<1>3. IInv => SettledOneWay /\ AllStakeOrNone
  BY DEF IInv, MatchInv, SettledOneWay, AllStakeOrNone
<1>4. IInv => RefundUndoesDebit
  BY DEF IInv, MatchInv, RefundUndoesDebit
<1>5. IInv => PurchaseCreditedOnce
  BY CreditedOnce
<1> QED BY <1>1, <1>2, <1>3, <1>4, <1>5, TxInvariance, PTL

(* Every commit, and every other step, is one step of Wallet or changes no *)
(* table.                                                                  *)
LEMMA TxNextAtomic == TxInv /\ [TxNext]_allVars => [Next]_vars
<1> SUFFICES ASSUME TxInv, [TxNext]_allVars PROVE [Next]_vars
  OBVIOUS
<1>1. ASSUME NEW w \in Workers, NEW c \in Calls, Begin(w, c) PROVE UNCHANGED vars
  BY <1>1 DEF Begin
<1>2. ASSUME NEW w \in Workers, Statement(w) PROVE [Next]_vars
  <2>1. CASE Commit(w)
    BY <2>1, CommitIsTransaction
  <2>2. CASE ~Commit(w)
    BY <1>2, <2>2
       DEF Statement, Open, Pass, LockWallet, ReadWallet, WriteEntry, FindEntry, Written
  <2> QED BY <2>1, <2>2
<1>3. ASSUME NEW w \in Workers, Rollback(w) PROVE [Next]_vars
  BY <1>3, RollbackIsLoss
<1>4. ASSUME NEW m \in Matches, UpdateMatch(m) PROVE Next
  BY <1>4, UpdateMatchKeeps
<1>5. ASSUME NEW p \in Purchases, ReadPurchase(p) PROVE Next
  BY <1>5, ReadPurchaseKeeps
<1>6. CASE UNCHANGED allVars
  BY <1>6 DEF allVars
<1> QED BY <1>1, <1>2, <1>3, <1>4, <1>5, <1>6 DEF TxNext

(* The locks of wallet.ts do what they are for: concurrent transactions    *)
(* change the tables as the same transactions run one by one.              *)
THEOREM AtomicityTheorem == TxSpec => CommitsAreAtomic
<1>1. TxInv /\ [TxNext]_allVars => [Next]_vars
  BY TxNextAtomic
<1> QED BY <1>1, TxInvariance, PTL DEF TxSpec, CommitsAreAtomic

-----------------------------------------------------------------------------
(* No circle of waiting transactions. *)

(* A finite set has a member of greatest rank. *)
LEMMA Greatest ==
  ASSUME NEW T, IsFiniteSet(T), T # {}, NEW f, \A w \in T : f[w] \in Nat
  PROVE  \E w \in T : \A v \in T : f[v] <= f[w]
<1> DEFINE above(w) == {v \in T : f[v] > f[w]}
           sizes == {Cardinality(above(w)) : w \in T}
<1>1. \A w \in T : above(w) \in SUBSET T /\ IsFiniteSet(above(w)) /\ Cardinality(above(w)) \in Nat
  BY FS_Subset, FS_CardinalityType
<1>2. sizes \in SUBSET Nat /\ sizes # {}
  BY <1>1
<1>3. PICK n \in sizes : \A m \in sizes : n <= m
  BY <1>2, LeastNumber
<1>4. PICK w \in T : n = Cardinality(above(w))
  BY <1>3
<1>5. ASSUME NEW v \in T, f[v] > f[w]
      PROVE  FALSE
  <2>1. v \in above(w) /\ v \notin above(v) /\ above(v) \in SUBSET above(w)
    BY <1>5
  <2>2. above(v) # above(w)
    BY <2>1
  <2>3. n <= Cardinality(above(v))
    BY <1>3
  <2>4. IsFiniteSet(above(w)) /\ Cardinality(above(w)) \in Nat /\ Cardinality(above(v)) \in Nat
    BY <1>1
  <2> HIDE DEF above
  <2>5. /\ Cardinality(above(v)) <= Cardinality(above(w))
        /\ Cardinality(above(w)) = Cardinality(above(v)) => above(w) = above(v)
    BY <2>1, <2>4, FS_Subset
  <2> QED BY <1>4, <2>2, <2>3, <2>4, <2>5
<1> QED BY <1>5

(* Only an adjustment can have written an entry another transaction wants  *)
(* to write, and then it is done with its only wallet.                     *)
LEMMA InsertersAreDone ==
  ASSUME TxInv, NEW w \in Workers, At(w, "read"),
         NEW v \in Inserting(MutationOf(w, NextPlayer(w)).key, w)
  PROVE  At(v, "players") /\ tx[v].left = {}
<1>1. PICK c, d, x : c = tx[w].call /\ d = tx[v].call /\ x = NextPlayer(w)
  OBVIOUS
<1>2. v \in Workers \ {w}
  BY DEF Inserting
<1>3. PICK u \in DOMAIN tx[v].entries : tx[v].entries[u].key = MutationsOf(c)[x].key
  BY <1>1 DEF Inserting, MutationOf
<1>4. Working(w) /\ Working(v)
  BY <1>2, <1>3 DEF TxInv, WorkerInv, Working, At
<1>5. /\ c \in Calls /\ Permits(c) /\ WorkInv(w) /\ d \in Calls /\ Permits(d) /\ WorkInv(v)
  BY <1>1, <1>2, <1>4, WorkerFacts
<1>6. VisitInv(w)
  BY <1>4, AtWork DEF At
<1>7. x \in DOMAIN MutationsOf(c)
  BY <1>1, <1>6 DEF VisitInv
<1>8. u \in DOMAIN MutationsOf(d) \ tx[v].left
  BY <1>1, <1>5 DEF WorkInv
<1>9. tx[v].entries[u].key = MutationsOf(d)[u].key
  <2>1. tx[v].entries[u] = [key |-> MutationsOf(d)[u].key, amount |-> MutationsOf(d)[u].amount,
                            balanceAfter |-> balance[u] + MutationsOf(d)[u].amount]
    BY <1>1, <1>5, <1>8 DEF WorkInv
  <2> QED BY <2>1
<1>10. IInv /\ \A p \in Purchases : purchase[p].status # "NONE"
  BY DEF TxInv
<1>11. MutationsOf(c)[x].key.kind = KindOf(c.op) /\ MutationsOf(c)[x].key.ref = c.ref
  BY <1>5, <1>7, <1>10, MutationsFacts
<1>12. MutationsOf(d)[u].key.kind = KindOf(d.op) /\ MutationsOf(d)[u].key.ref = d.ref
       /\ DOMAIN MutationsOf(d) \subseteq PlayersOf(d)
  BY <1>5, <1>8, <1>10, MutationsFacts
<1>13. KindOf(c.op) = KindOf(d.op) /\ c.ref = d.ref
  BY <1>3, <1>9, <1>11, <1>12
<1>14. c.op = d.op
  BY <1>5, <1>13, CallKinds DEF KindOf
<1>15. c.op = "adjust"
  <2>1. held[w] \cap held[v] = {}
    BY <1>2, <1>4, AtWork
  <2>2. c.op # "adjust" => c.ref \in held[w] /\ c.ref \in held[v]
    BY <1>1, <1>5, <1>13, <1>14 DEF WorkInv, FirstRows, Op, Ref
  <2> QED BY <2>1, <2>2
<1>16. PlayersOf(d) = {d.who}
  BY <1>14, <1>15 DEF PlayersOf
<1>17. tx[v].left = {}
  BY <1>1, <1>5, <1>8, <1>12, <1>16 DEF WorkInv
<1> QED BY <1>2, <1>4, <1>17, AtWork DEF VisitInv, Working, At

(* So whoever waits for a key waits for somebody who does not wait.        *)
LEMMA KeysEndQueues ==
  ASSUME TxInv, NEW w \in Workers, At(w, "read"), NEW v \in WaitsFor(w)
  PROVE  WaitsFor(v) = {}
<1>1. v \in Inserting(MutationOf(w, NextPlayer(w)).key, w)
  BY DEF WaitsFor, Visits, At
<1>2. At(v, "players") /\ tx[v].left = {}
  BY <1>1, InsertersAreDone
<1> QED BY <1>2 DEF WaitsFor, Visits, At

(* A transaction that is waited for and waits in turn is at a wallet after *)
(* all it holds.                                                           *)
LEMMA WaitsUpwards ==
  ASSUME TxInv, NEW w \in Workers, NEW v \in WaitsFor(w),
         NEW y \in WaitsFor(v), WaitsFor(y) # {}
  PROVE  /\ v \in Workers /\ Visits(v) /\ Rank[NextPlayer(v)] \in Nat
         /\ Visits(w) => Rank[NextPlayer(w)] < Rank[NextPlayer(v)]
<1>1. ~At(w, "read")
  BY KeysEndQueues
<1>2. \E r : v \in HoldersOf(r, w) /\ (Visits(w) => r = NextPlayer(w))
  <2>1. CASE At(w, "open")
    <3>1. v \in UNION {HoldersOf(r, w) : r \in FirstRows(w)} /\ ~Visits(w)
      BY <2>1 DEF WaitsFor, Visits, At
    <3> QED BY <3>1
  <2>2. CASE Visits(w)
    <3>1. v \in HoldersOf(NextPlayer(w), w)
      BY <2>2 DEF WaitsFor, Visits, At
    <3> QED BY <3>1
  <2>3. CASE ~At(w, "open") /\ ~Visits(w)
    BY <1>1, <2>3 DEF WaitsFor
  <2> QED BY <2>1, <2>2, <2>3
<1>3. PICK r : v \in HoldersOf(r, w) /\ (Visits(w) => r = NextPlayer(w))
  BY <1>2
<1>4. v \in Workers /\ r \in held[v]
  BY <1>3 DEF HoldersOf
<1>5. Working(v)
  BY <1>4 DEF TxInv, WorkerInv
<1>6. ~At(v, "read")
  BY <1>4, KeysEndQueues
<1>7. Visits(v) /\ At(v, "players") /\ tx[v].left # {}
  BY <1>5, <1>6 DEF WaitsFor, Working, At, Visits
<1>8. tx[v].left \in SUBSET Users /\ OrderInv(v)
  BY <1>4, <1>5, AtWork
<1>9. NextPlayer(v) \in tx[v].left /\ NextPlayer(v) \in Users
  BY <1>7, <1>8, NextPlayerIsLeast
<1>10. Rank[NextPlayer(v)] \in Nat
  BY <1>9, WalletTxAssumption
<1>11. ASSUME Visits(w) PROVE Rank[NextPlayer(w)] < Rank[NextPlayer(v)]
  <2>1. Working(w) /\ tx[w].left # {}
    BY <1>11 DEF Visits, Working, At
  <2>2. tx[w].left \in SUBSET Users
    BY <2>1, AtWork
  <2>3. NextPlayer(w) \in Users
    BY <2>1, <2>2, NextPlayerIsLeast
  <2>4. r = NextPlayer(w)
    BY <1>3, <1>11
  <2>5. r \in Users /\ Rank[r] <= Rank[NextPlayer(v)] /\ r # NextPlayer(v)
    BY <1>4, <1>7, <1>8, <1>9, <2>3, <2>4 DEF OrderInv, At
  <2>6. Rank[r] \in Nat /\ Rank[r] # Rank[NextPlayer(v)]
    BY <1>9, <2>5, WalletTxAssumption
  <2> QED BY <1>10, <2>4, <2>5, <2>6
<1> QED BY <1>4, <1>7, <1>10, <1>11

(* In a circle of waiting transactions the one at the highest wallet waits *)
(* for one at a higher.                                                    *)
LEMMA NoCircle == TxInv => NoLockInversion
<1> SUFFICES ASSUME TxInv, NEW S \in SUBSET Workers, S # {},
                    \A w \in S : WaitsFor(w) \cap S # {}
             PROVE  FALSE
  BY DEF NoLockInversion
<1> DEFINE T == {v \in S : Visits(v) /\ Rank[NextPlayer(v)] \in Nat}
           f == [v \in T |-> Rank[NextPlayer(v)]]
<1>1. ASSUME NEW w \in S
      PROVE  \E v \in T : Visits(w) => Rank[NextPlayer(w)] < Rank[NextPlayer(v)]
  <2>1. PICK v \in S : v \in WaitsFor(w)
    BY <1>1
  <2>2. PICK y \in S : y \in WaitsFor(v)
    BY <2>1
  <2>3. WaitsFor(y) # {}
    BY <2>2
  <2>4. /\ Visits(v) /\ Rank[NextPlayer(v)] \in Nat
        /\ Visits(w) => Rank[NextPlayer(w)] < Rank[NextPlayer(v)]
    BY <1>1, <2>1, <2>2, <2>3, WaitsUpwards
  <2> QED BY <2>1, <2>4
<1>2. T # {} /\ T \in SUBSET Workers
  BY <1>1
<1>3. IsFiniteSet(T)
  BY <1>2, WalletTxAssumption, FS_Subset
<1>4. \A v \in T : f[v] \in Nat
  OBVIOUS
<1>5. PICK w \in T : \A v \in T : f[v] <= f[w]
  <2> HIDE DEF T, f
  <2> QED BY <1>2, <1>3, <1>4, Greatest
<1>6. PICK v \in T : Rank[NextPlayer(w)] < Rank[NextPlayer(v)]
  BY <1>1
<1>7. f[v] <= f[w] /\ f[v] = Rank[NextPlayer(v)] /\ f[w] = Rank[NextPlayer(w)]
      /\ Rank[NextPlayer(v)] \in Nat /\ Rank[NextPlayer(w)] \in Nat
  BY <1>5
<1> HIDE DEF T, f
<1> QED BY <1>6, <1>7

(* Because every transaction visits the wallets in the order of user ids,  *)
(* no set of transactions, however many, waits in a circle.                *)
THEOREM DeadlockFreedom == TxSpec => []NoLockInversion
<1>1. TxInv => NoLockInversion
  BY NoCircle
<1> QED BY <1>1, TxInvariance, PTL

=============================================================================
