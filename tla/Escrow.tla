------------------------------- MODULE Escrow -------------------------------
(***************************************************************************)
(* What the money side of a match promises, without ledger, keys or        *)
(* tables: each match is an escrow account.  All players stake together,   *)
(* and the account is then closed exactly once: the prize is paid to one   *)
(* of them, the house keeps it, or every stake is returned.                *)
(***************************************************************************)
EXTENDS Integers

CONSTANTS Users, Matches, Economies

VARIABLES
  chips,    \* chips of each user
  phase,    \* none, open, held, paid, kept, returned or cancelled
  players,  \* the humans of each match
  terms     \* [fee, payout] of each match

vars == <<chips, phase, players, terms>>

(* chips after each user in who gained n. *)
Gain(who, n) == [u \in Users |-> IF u \in who THEN chips[u] + n ELSE chips[u]]

Init ==
  /\ chips   = [u \in Users |-> 0]
  /\ phase   = [m \in Matches |-> "none"]
  /\ players = [m \in Matches |-> {}]
  /\ terms   = [m \in Matches |-> [fee |-> 0, payout |-> 0]]

(* Income and spending that has nothing to do with a match. *)
Elsewhere ==
  /\ \E u \in Users :
       chips'[u] \in Nat /\ chips' = [chips EXCEPT ![u] = chips'[u]]
  /\ UNCHANGED <<phase, players, terms>>

Open(m) ==
  /\ phase[m] = "none"
  /\ phase' = [phase EXCEPT ![m] = "open"]
  /\ \E ps \in (SUBSET Users) \ {{}} : players' = [players EXCEPT ![m] = ps]
  /\ \E e \in Economies : terms' = [terms EXCEPT ![m] = e]
  /\ UNCHANGED chips

Close(m, from, to) ==
  /\ phase[m] = from
  /\ phase' = [phase EXCEPT ![m] = to]
  /\ UNCHANGED <<players, terms>>

Stake(m) ==
  /\ Close(m, "open", "held")
  /\ \A u \in players[m] : chips[u] >= terms[m].fee
  /\ chips' = Gain(players[m], -terms[m].fee)

Pay(m) ==
  /\ Close(m, "held", "paid")
  /\ \E w \in players[m] : chips' = Gain({w}, terms[m].payout)

Keep(m) ==
  /\ Close(m, "held", "kept")
  /\ UNCHANGED chips

Return(m) ==
  /\ Close(m, "held", "returned")
  /\ chips' = Gain(players[m], terms[m].fee)

Cancel(m) ==
  /\ Close(m, "open", "cancelled")
  /\ UNCHANGED chips

Next ==
  \/ Elsewhere
  \/ \E m \in Matches :
       Open(m) \/ Stake(m) \/ Pay(m) \/ Keep(m) \/ Return(m) \/ Cancel(m)

Spec == Init /\ [][Next]_vars

=============================================================================
