------------------------------ MODULE Shootout ------------------------------
(***************************************************************************)
(* What a penalty shoot-out is, without clients, timers or phases: the two *)
(* sides kick in turn, and once both have taken RegulationKicks and the    *)
(* same number, the side that leads has won.  A side may forfeit and the   *)
(* duel may be called off at any time before the verdict.                  *)
(***************************************************************************)
EXTENDS Integers

CONSTANT RegulationKicks

VARIABLES
  taken,    \* kicks taken by each side
  goals,    \* goals of each side
  opener,   \* the side that kicked first, "none" before the first kick
  verdict   \* [winner, reason], winner "none" while undecided

vars == <<taken, goals, opener, verdict>>

Sides    == {"A", "B"}
Other(s) == IF s = "A" THEN "B" ELSE "A"
Open     == [winner |-> "none", reason |-> "none"]

EvenKicks == taken["A"] = taken["B"]
Decided   == EvenKicks /\ taken["A"] >= RegulationKicks /\ goals["A"] # goals["B"]

Init ==
  /\ taken   = [s \in Sides |-> 0]
  /\ goals   = [s \in Sides |-> 0]
  /\ opener  = "none"
  /\ verdict = Open

Kick(s) ==
  /\ verdict = Open
  /\ ~Decided
  /\ IF EvenKicks THEN opener \in {s, "none"} ELSE opener = Other(s)
  /\ opener' = IF opener = "none" THEN s ELSE opener
  /\ taken'  = [taken EXCEPT ![s] = @ + 1]
  /\ goals' \in {goals, [goals EXCEPT ![s] = @ + 1]}
  /\ UNCHANGED verdict

Win(s) ==
  /\ verdict = Open
  /\ Decided
  /\ goals[s] > goals[Other(s)]
  /\ verdict' = [winner |-> s, reason |-> IF taken[s] = RegulationKicks
                                          THEN "REGULATION" ELSE "SUDDEN_DEATH"]
  /\ UNCHANGED <<taken, goals, opener>>

Forfeit(s) ==
  /\ verdict = Open
  /\ verdict' = [winner |-> Other(s), reason |-> "FORFEIT"]
  /\ UNCHANGED <<taken, goals, opener>>

CallOff ==
  /\ verdict = Open
  /\ verdict' = [winner |-> "none", reason |-> "ABORT"]
  /\ UNCHANGED <<taken, goals, opener>>

Next == CallOff \/ \E s \in Sides : Kick(s) \/ Win(s) \/ Forfeit(s)

Spec == Init /\ [][Next]_vars

=============================================================================
