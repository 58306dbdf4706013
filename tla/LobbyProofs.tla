---------------------------- MODULE LobbyProofs ----------------------------
(***************************************************************************)
(* Proofs about the lobby, for any sockets, users, queues, invite codes    *)
(* and failing calls: a user is queued once, an entry is matched once,     *)
(* tickets tell the truth, and invites pair once where SingleHosts holds.  *)
(***************************************************************************)
EXTENDS LobbyProperties, SequenceTheorems, WellFoundedInduction, TLAPS

-----------------------------------------------------------------------------
(* Sequences of sockets. *)

(* A socket that is taken out is gone, and the others stay.                *)
LEMMA WithoutProperties ==
  ASSUME NEW S, NEW q \in Seq(S), IsInjective(q), NEW s
  PROVE  /\ Without(q, s) \in Seq(S) /\ IsInjective(Without(q, s))
         /\ Range(Without(q, s)) = Range(q) \ {s}
<1>1. Len(q) \in Nat /\ DOMAIN q = 1..Len(q) /\ \A i \in 1..Len(q) : q[i] \in S
  BY LenProperties
<1>2. CASE s \notin Range(q)
  BY <1>2 DEF Without
<1>3. CASE s \in Range(q)
  <2>1. PICK p : p = Place(q, s)
    OBVIOUS
  <2>2. p \in 1..Len(q) /\ q[p] = s
    BY <1>1, <1>3, <2>1 DEF Range, Place
  <2>3. PICK w : w = Without(q, s)
    OBVIOUS
  <2>4. w = [i \in 1..(Len(q) - 1) |-> IF i < p THEN q[i] ELSE q[i + 1]]
    BY <1>3, <2>1, <2>3 DEF Without
  <2>5. \A i \in 1..(Len(q) - 1) : w[i] = q[IF i < p THEN i ELSE i + 1]
    BY <2>4
  <2>6. DOMAIN w = 1..(Len(q) - 1) /\ Len(q) - 1 \in Nat
    BY <1>1, <2>2, <2>4
  <2>7. w \in Seq(S)
    <3>1. \A i \in 1..(Len(q) - 1) : (IF i < p THEN q[i] ELSE q[i + 1]) \in S
      BY <1>1, <2>2
    <3>2. w \in [1..(Len(q) - 1) -> S]
      BY <2>4, <3>1
    <3> QED
      BY <2>6, <3>2, SeqDef
  <2>8. IsInjective(w)
    BY <1>1, <2>2, <2>5, <2>6, SMTT(30) DEF IsInjective
  <2>9. Range(w) = Range(q) \ {s}
    <3>1. ASSUME NEW x \in Range(w) PROVE x \in Range(q) \ {s}
      <4>1. PICK i \in 1..(Len(q) - 1) : x = q[IF i < p THEN i ELSE i + 1]
        BY <2>5, <2>6 DEF Range
      <4> QED
        BY <1>1, <2>2, <4>1 DEF Range, IsInjective
    <3>2. ASSUME NEW x \in Range(q), x # s PROVE x \in Range(w)
      <4>1. PICK j \in 1..Len(q) : x = q[j]
        BY <1>1 DEF Range
      <4>2. j # p
        BY <2>2, <3>2, <4>1
      <4>3. CASE j < p
        BY <1>1, <2>2, <2>5, <2>6, <4>1, <4>3 DEF Range
      <4>4. CASE j > p
        <5>1. j - 1 \in 1..(Len(q) - 1) /\ w[j - 1] = q[j]
          BY <1>1, <2>2, <2>5, <4>4
        <5> QED
          BY <2>6, <4>1, <5>1 DEF Range
      <4> QED
        BY <1>1, <2>2, <4>2, <4>3, <4>4
    <3> QED
      BY <3>1, <3>2
  <2> QED
    BY <2>3, <2>7, <2>8, <2>9
<1> QED
  BY <1>2, <1>3

(* One more at the end.                                                    *)
LEMMA AppendProperties2 ==
  ASSUME NEW S, NEW q \in Seq(S), NEW s \in S
  PROVE  /\ Append(q, s) \in Seq(S) /\ Len(Append(q, s)) = Len(q) + 1
         /\ DOMAIN Append(q, s) = DOMAIN q \cup {Len(q) + 1}
         /\ Len(q) + 1 \notin DOMAIN q
         /\ \A i \in DOMAIN q : Append(q, s)[i] = q[i]
         /\ Append(q, s)[Len(q) + 1] = s
         /\ Range(Append(q, s)) = Range(q) \cup {s}
         /\ IsInjective(q) /\ s \notin Range(q) => IsInjective(Append(q, s))
<1>1. /\ Append(q, s) \in Seq(S) /\ Len(Append(q, s)) = Len(q) + 1
      /\ DOMAIN q = 1..Len(q) /\ Len(q) \in Nat
      /\ DOMAIN Append(q, s) = DOMAIN q \cup {Len(q) + 1}
      /\ \A i \in DOMAIN q : Append(q, s)[i] = q[i]
      /\ Append(q, s)[Len(q) + 1] = s
  OBVIOUS
<1>2. PICK a : a = Append(q, s)
  OBVIOUS
<1>3. Range(a) = Range(q) \cup {s}
  BY <1>1, <1>2 DEF Range
<1>4. IsInjective(q) /\ s \notin Range(q) => IsInjective(a)
  BY <1>1, <1>2 DEF Range, IsInjective
<1> QED
  BY <1>1, <1>2, <1>3, <1>4

(* The rest of a queue, once its first m entries are taken.                *)
LEMMA RestProperties ==
  ASSUME NEW S, NEW q \in Seq(S), IsInjective(q), NEW m \in 0..Len(q)
  PROVE  LET r == SubSeq(q, m + 1, Len(q)) IN
         /\ r \in Seq(S) /\ IsInjective(r)
         /\ Range(r) = {q[i] : i \in (m + 1)..Len(q)}
         /\ Range(r) \subseteq Range(q)
         /\ \A i \in 1..m : q[i] \in Range(q) \ Range(r)
<1>1. Len(q) \in Nat /\ DOMAIN q = 1..Len(q) /\ \A i \in 1..Len(q) : q[i] \in S
  BY LenProperties
<1>2. PICK r : r = SubSeq(q, m + 1, Len(q))
  OBVIOUS
<1>3. /\ r \in Seq(S) /\ Len(r) = Len(q) - m
      /\ \A i \in 1..(Len(q) - m) : r[i] = q[m + i]
  <2>1. \A i \in (m + 1)..Len(q) : q[i] \in S
    BY <1>1
  <2>2. m + 1 \in Int /\ Len(q) \in Int
    BY <1>1
  <2>3. /\ SubSeq(q, m + 1, Len(q)) \in Seq(S)
        /\ Len(SubSeq(q, m + 1, Len(q))) =
             IF m + 1 <= Len(q) THEN Len(q) - (m + 1) + 1 ELSE 0
        /\ \A i \in 1..(Len(q) - (m + 1) + 1) :
             SubSeq(q, m + 1, Len(q))[i] = q[m + 1 + i - 1]
    BY <2>1, <2>2
  <2>4. r \in Seq(S)
    BY <1>2, <2>3
  <2>5. Len(r) = Len(q) - m
    <3>1. m + 1 <= Len(q) => Len(q) - (m + 1) + 1 = Len(q) - m
      BY <1>1
    <3>2. ~(m + 1 <= Len(q)) => 0 = Len(q) - m
      <4>1. \A n \in Nat : \A l \in 0..n : ~(l + 1 <= n) => 0 = n - l
        OBVIOUS
      <4> QED
        BY <1>1, <4>1
    <3> QED
      BY <1>2, <2>3, <3>1, <3>2
  <2>6. ASSUME NEW i \in 1..(Len(q) - m) PROVE r[i] = q[m + i]
    <3>1. i \in 1..(Len(q) - (m + 1) + 1) /\ m + 1 + i - 1 = m + i
      BY <1>1
    <3> QED
      BY <1>2, <2>3, <3>1
  <2> QED
    BY <2>4, <2>5, <2>6
<1>4. DOMAIN r = 1..(Len(q) - m)
  BY <1>3, LenProperties
<1>5. IsInjective(r)
  <2>1. ASSUME NEW i \in 1..(Len(q) - m), NEW j \in 1..(Len(q) - m), r[i] = r[j]
        PROVE  i = j
    <3>1. m + i \in DOMAIN q /\ m + j \in DOMAIN q
      BY <1>1
    <3>2. q[m + i] = q[m + j]
      BY <1>3, <2>1
    <3>3. m + i = m + j
      BY <3>1, <3>2 DEF IsInjective
    <3> QED
      BY <1>1, <3>3
  <2> QED
    BY <1>4, <2>1 DEF IsInjective
<1>6. Range(r) = {q[i] : i \in (m + 1)..Len(q)}
  <2>1. ASSUME NEW x \in Range(r) PROVE \E i \in (m + 1)..Len(q) : x = q[i]
    <3>1. PICK i \in 1..(Len(q) - m) : x = r[i]
      BY <1>4 DEF Range
    <3> QED
      BY <1>1, <1>3, <3>1
  <2>2. ASSUME NEW i \in (m + 1)..Len(q) PROVE q[i] \in Range(r)
    <3>1. i - m \in 1..(Len(q) - m) /\ r[i - m] = q[m + (i - m)] /\ m + (i - m) = i
      BY <1>1, <1>3
    <3> QED
      BY <1>4, <3>1 DEF Range
  <2> QED
    BY <2>1, <2>2
<1>7. Range(r) \subseteq Range(q)
  BY <1>1, <1>6 DEF Range
<1>8. ASSUME NEW i \in 1..m PROVE q[i] \in Range(q) /\ q[i] \notin Range(r)
  <2>1. i \in DOMAIN q
    BY <1>1
  <2>2. \A j \in (m + 1)..Len(q) : q[i] # q[j]
    BY <1>1, <2>1 DEF IsInjective
  <2> QED
    BY <1>6, <2>1, <2>2 DEF Range
<1> QED
  BY <1>2, <1>3, <1>5, <1>6, <1>7, <1>8

-----------------------------------------------------------------------------
(* What the actions do to the queues and the clients. *)

(* The entries of R are taken out of the queues.                           *)
Removes(R) ==
  /\ queues' \in [QueueKeys -> Seq(Sockets)]
  /\ \A k \in QueueKeys : IsInjective(queues'[k]) /\ Range(queues'[k]) = Range(queues[k]) \ R

(* What the departure of s changes.                                        *)
Departs(s) ==
  /\ clients' \in Seq(Sockets) /\ IsInjective(clients') /\ Range(clients') = Range(clients) \ {s}
  /\ known' = known \ {s} /\ pairing' = pairing \ {s}
  /\ Removes({s}) /\ timers' = timers \ {s}
  /\ cancels' = IF Queued(s) THEN cancels \cup {s} ELSE cancels

(* The options of a socket are options.                                    *)
LEMMA OptionsType ==
  ASSUME LobbyTypeOK, NEW s \in Sockets
  PROVE  /\ options[s].mode \in {"PUBLIC", "PRIVATE", "ABSENT"}
         /\ Key(s) \in QueueKeys /\ options[s].asks \in Nat
<1>1. options \in [Sockets -> [mode : {"PUBLIC", "PRIVATE", "ABSENT"},
                               key : QueueKeys, asks : Nat]]
  BY LobbyAssumption DEF LobbyTypeOK
<1> QED
  BY <1>1 DEF Key

(* Queues that stay lose nobody.                                           *)
LEMMA QueuesStay ==
  ASSUME LobbyTypeOK, QueueInv, UNCHANGED queues
  PROVE  Removes({})
BY DEF LobbyTypeOK, QueueInv, Removes

(* Who is still queued.                                                    *)
LEMMA StillQueued ==
  ASSUME NEW R, Removes(R), NEW s \in Sockets
  PROVE  Queued(s)' <=> Queued(s) /\ s \notin R
BY DEF Removes, Queued

(* A departure is as Departs says.                                         *)
LEMMA Departure ==
  ASSUME LobbyTypeOK, ClientsInv, QueueInv, NEW s \in Sockets, OnLeave(s)
  PROVE  Departs(s)
<1>1. /\ clients' \in Seq(Sockets) /\ IsInjective(clients')
      /\ Range(clients') = Range(clients) \ {s}
  BY WithoutProperties DEF OnLeave, LobbyTypeOK, ClientsInv
<1>2. known' = known \ {s} /\ pairing' = pairing \ {s}
  BY DEF OnLeave
<1>3. CASE Queued(s)
  <2>1. s \in known
    BY <1>3 DEF QueueInv
  <2>2. /\ queues' = [k \in QueueKeys |-> Without(queues[k], s)]
        /\ timers' = timers \ {s} /\ cancels' = cancels \cup {s}
    BY <1>3, <2>1 DEF OnLeave
  <2>3. \A k \in QueueKeys :
          /\ Without(queues[k], s) \in Seq(Sockets) /\ IsInjective(Without(queues[k], s))
          /\ Range(Without(queues[k], s)) = Range(queues[k]) \ {s}
    BY WithoutProperties DEF LobbyTypeOK, QueueInv
  <2>4. Removes({s})
    BY <2>2, <2>3 DEF Removes
  <2> QED
    BY <1>1, <1>2, <1>3, <2>2, <2>4 DEF Departs
<1>4. CASE ~Queued(s)
  <2>1. UNCHANGED <<queues, timers, cancels>>
    BY <1>4 DEF OnLeave
  <2>2. \A k \in QueueKeys : s \notin Range(queues[k])
    BY <1>4 DEF Queued
  <2>3. Removes({s})
    BY <2>1, <2>2 DEF Removes, LobbyTypeOK, QueueInv
  <2>4. s \notin timers
    BY <1>4 DEF QueueInv
  <2> QED
    BY <1>1, <1>2, <1>4, <2>1, <2>3, <2>4 DEF Departs
<1> QED
  BY <1>3, <1>4

-----------------------------------------------------------------------------
(* The life of an entry. *)

(* No entry becomes fresh again; one that is queued, taken or cancelled    *)
(* was so before, or comes from the state before that.                     *)
LifeStep(s) ==
  /\ Fresh(s)' => Fresh(s)
  /\ Queued(s)' => Queued(s) \/ (~Fresh(s)' /\ ~Taken(s)' /\ ~Cancelled(s)')
  /\ Taken(s)' => Taken(s) \/ (Queued(s) /\ ~Queued(s)')
  /\ Cancelled(s)' => Cancelled(s) \/ (Queued(s) /\ ~Queued(s)' /\ ~Taken(s)')

(* If every entry goes on in its life, all do.                             *)
LEMMA LifeKept ==
  ASSUME LifeInv, \A s \in Sockets : LifeStep(s)
  PROVE  LifeInv'
BY DEF LifeInv, LifeStep

(* A queue that shrinks holds one entry of a user at most.                 *)
LEMMA QueueShrinks ==
  ASSUME LobbyTypeOK, QueueInv, NEW R, Removes(R), UNCHANGED options,
         \A s \in Sockets : /\ Queued(s)' => s \in known'
                            /\ s \in timers' => Queued(s)'
                            /\ Taken(s)' => Taken(s) \/ Queued(s)
  PROVE  QueueInv'
<1>1. \A k \in QueueKeys : IsInjective(queues[k])'
  BY DEF Removes
<1>2. \A k \in QueueKeys : \A s \in Range(queues'[k]) : k = Key(s)'
  BY DEF Removes, QueueInv, Key
<1>3. \A s, t \in Sockets : Queued(s)' /\ Queued(t)' /\ UserOf[s] = UserOf[t] => s = t
  BY StillQueued DEF QueueInv
<1>4. \A s \in Sockets : Queued(s)' \/ Taken(s)' => options'[s].mode = "PUBLIC"
  BY StillQueued DEF QueueInv
<1> QED
  BY <1>1, <1>2, <1>3, <1>4 DEF QueueInv

(* The queues stay as they are.                                            *)
LEMMA StayKeeps ==
  ASSUME LobbyTypeOK, LifeInv, QueueInv, UNCHANGED <<queues, options>>,
         \A s \in Sockets : /\ s \in known => s \in known'
                            /\ s \in timers' => Queued(s)
                            /\ Fresh(s)' => Fresh(s)
                            /\ Taken(s)' => Taken(s)
                            /\ Cancelled(s)' => Cancelled(s)
  PROVE  LifeInv' /\ QueueInv'
<1>1. Removes({}) /\ \A s \in Sockets : Queued(s)' <=> Queued(s)
  BY QueuesStay, StillQueued
<1>2. \A s \in Sockets : LifeStep(s)
  BY <1>1 DEF LifeStep
<1>3. \A s \in Sockets : /\ Queued(s)' => s \in known'
                         /\ s \in timers' => Queued(s)'
                         /\ Taken(s)' => Taken(s) \/ Queued(s)
  BY <1>1 DEF QueueInv
<1> QED
  BY <1>1, <1>2, <1>3, LifeKept, QueueShrinks

(* A socket departs.                                                       *)
LEMMA DepartureKeeps ==
  ASSUME LobbyTypeOK, LifeInv, QueueInv, NEW s \in Sockets, Departs(s),
         UNCHANGED <<options, matches>>,
         \A t \in Sockets : /\ Fresh(t)' => Fresh(t)
                            /\ tickets'[t] = "CANCELLED" => tickets[t] = "CANCELLED"
  PROVE  LifeInv' /\ QueueInv'
<1>1. Removes({s}) /\ \A t \in Sockets : Queued(t)' <=> Queued(t) /\ t # s
  BY StillQueued DEF Departs
<1>2. \A t \in Sockets : Taken(t)' <=> Taken(t)
  BY DEF Taken, In
<1>3. \A t \in Sockets : Cancelled(t)' => Cancelled(t) \/ (t = s /\ Queued(s))
  BY DEF Cancelled, Departs
<1>4. \A t \in Sockets : LifeStep(t)
  BY <1>1, <1>2, <1>3 DEF LifeStep, LifeInv
<1>5. \A t \in Sockets : /\ Queued(t)' => t \in known'
                         /\ t \in timers' => Queued(t)'
                         /\ Taken(t)' => Taken(t) \/ Queued(t)
  BY <1>1, <1>2 DEF QueueInv, Departs
<1> QED
  BY <1>1, <1>4, <1>5, LifeKept, QueueShrinks

(* A match takes the entries of R.                                         *)
LEMMA MatchTakes ==
  ASSUME LobbyTypeOK, LifeInv, QueueInv, NEW R, Removes(R),
         UNCHANGED <<options, known, cancels>>,
         \A t \in Sockets : /\ t \in R => Queued(t)
                            /\ t \in timers' => t \in timers /\ t \notin R
                            /\ Fresh(t)' => Fresh(t)
                            /\ Taken(t)' => Taken(t) \/ t \in R
                            /\ tickets'[t] = "CANCELLED" => tickets[t] = "CANCELLED"
  PROVE  LifeInv' /\ QueueInv'
<1>1. \A t \in Sockets : Queued(t)' <=> Queued(t) /\ t \notin R
  BY StillQueued
<1>2. \A t \in Sockets : Cancelled(t)' => Cancelled(t)
  BY DEF Cancelled
<1>3. \A t \in Sockets : LifeStep(t)
  BY <1>1, <1>2 DEF LifeStep
<1>4. \A t \in Sockets : /\ Queued(t)' => t \in known'
                         /\ t \in timers' => Queued(t)'
                         /\ Taken(t)' => Taken(t) \/ Queued(t)
  BY <1>1 DEF QueueInv
<1> QED
  BY <1>3, <1>4, LifeKept, QueueShrinks

-----------------------------------------------------------------------------
(* The matches. *)

(* New matches are made; the public ones take entries of R, and no two of  *)
(* them the same.                                                          *)
Grows(R) ==
  /\ DOMAIN matches \subseteq DOMAIN matches'
  /\ \A i \in DOMAIN matches : matches'[i] = matches[i]
  /\ \A i \in DOMAIN matches' \ DOMAIN matches :
       matches'[i].step = "check" /\ matches'[i].row = FALSE
  /\ \A i \in DOMAIN matches' \ DOMAIN matches : \A s \in Sockets : In(i, s)' => s \in R
  /\ \A i, j \in DOMAIN matches' \ DOMAIN matches : \A s \in Sockets :
       In(i, s)' /\ In(j, s)' => i = j

(* A match goes on: its sockets stay, and its row is not lost.             *)
RowOK(m) ==
  /\ m.step \in {"check", "create"} => ~m.row
  /\ m.step \in {"tickets", "room", "done"} => m.row

GoesOn ==
  /\ DOMAIN matches' = DOMAIN matches
  /\ \A i \in DOMAIN matches :
       /\ Public(matches'[i]) = Public(matches[i])
       /\ SocketsOf(matches'[i]) = SocketsOf(matches[i])
       /\ matches[i].row => matches'[i].row
       /\ RowOK(matches[i]) => RowOK(matches'[i])

(* An old match has the sockets it had.                                    *)
LEMMA OldMatch ==
  ASSUME NEW R, Grows(R), NEW i \in DOMAIN matches, NEW s
  PROVE  In(i, s)' <=> In(i, s)
BY DEF Grows, In, Public, SocketsOf

(* An entry is taken by a new match only if the match was made over it.    *)
LEMMA TakenGrows ==
  ASSUME NEW R, Grows(R), NEW s \in Sockets, Taken(s)'
  PROVE  Taken(s) \/ s \in R
<1>1. PICK i \in DOMAIN matches' : In(i, s)'
  BY DEF Taken
<1>2. CASE i \in DOMAIN matches
  BY <1>1, <1>2, OldMatch DEF Taken
<1>3. CASE i \notin DOMAIN matches
  BY <1>1, <1>3 DEF Grows
<1> QED
  BY <1>2, <1>3

(* New matches over entries that were queued keep MatchInv.                *)
LEMMA MatchesGrow ==
  ASSUME MatchInv, NEW R, Grows(R), \A s \in Sockets : s \in R => ~Taken(s),
         \A s \in Sockets : tickets'[s] = "MATCHED" => tickets[s] = "MATCHED"
  PROVE  MatchInv'
<1>1. ASSUME NEW i \in DOMAIN matches', NEW j \in DOMAIN matches', NEW s \in Sockets,
             In(i, s)', In(j, s)'
      PROVE  i = j
  <2>1. CASE i \in DOMAIN matches /\ j \in DOMAIN matches
    BY <1>1, <2>1, OldMatch DEF MatchInv
  <2>2. CASE i \in DOMAIN matches /\ j \notin DOMAIN matches
    <3>1. Taken(s) /\ s \in R
      BY <1>1, <2>2, OldMatch DEF Taken, Grows
    <3> QED
      BY <3>1
  <2>3. CASE i \notin DOMAIN matches /\ j \in DOMAIN matches
    <3>1. Taken(s) /\ s \in R
      BY <1>1, <2>3, OldMatch DEF Taken, Grows
    <3> QED
      BY <3>1
  <2>4. CASE i \notin DOMAIN matches /\ j \notin DOMAIN matches
    BY <1>1, <2>4 DEF Grows
  <2> QED
    BY <2>1, <2>2, <2>3, <2>4
<1>2. ASSUME NEW i \in DOMAIN matches'
      PROVE  /\ matches'[i].step \in {"check", "create"} => ~matches'[i].row
             /\ matches'[i].step \in {"tickets", "room", "done"} => matches'[i].row
  BY <1>2 DEF Grows, MatchInv
<1>3. ASSUME NEW s \in Sockets, tickets'[s] = "MATCHED"
      PROVE  \E i \in DOMAIN matches' : In(i, s)' /\ matches'[i].row
  <2>1. PICK i \in DOMAIN matches : In(i, s) /\ matches[i].row
    BY <1>3 DEF MatchInv
  <2>2. i \in DOMAIN matches' /\ In(i, s)' /\ matches'[i].row
    BY <2>1, OldMatch DEF Grows
  <2> QED
    BY <2>2
<1> QED
  BY <1>1, <1>2, <1>3 DEF MatchInv

(* A match that goes on keeps its players.                                 *)
LEMMA MatchesGoOn ==
  ASSUME MatchInv, GoesOn,
         \A s \in Sockets : tickets'[s] = "MATCHED" =>
           \/ tickets[s] = "MATCHED"
           \/ \E i \in DOMAIN matches : In(i, s) /\ matches[i].row
  PROVE  MatchInv' /\ \A s \in Sockets : Taken(s)' <=> Taken(s)
<1>1. \A i \in DOMAIN matches : \A s \in Sockets : In(i, s)' <=> In(i, s)
  BY DEF GoesOn, In
<1>2. \A s \in Sockets : Taken(s)' <=> Taken(s)
  BY <1>1 DEF GoesOn, Taken
<1>3. \A i, j \in DOMAIN matches' : \A s \in Sockets : In(i, s)' /\ In(j, s)' => i = j
  BY <1>1 DEF GoesOn, MatchInv
<1>4. \A i \in DOMAIN matches' :
        /\ matches'[i].step \in {"check", "create"} => ~matches'[i].row
        /\ matches'[i].step \in {"tickets", "room", "done"} => matches'[i].row
  BY DEF GoesOn, MatchInv, RowOK
<1>5. \A s \in Sockets : tickets'[s] = "MATCHED" =>
        \E i \in DOMAIN matches' : In(i, s)' /\ matches'[i].row
  <2>1. \A s \in Sockets : tickets'[s] = "MATCHED" =>
          \E i \in DOMAIN matches : In(i, s) /\ matches[i].row
    BY DEF MatchInv
  <2> QED
    BY <1>1, <2>1 DEF GoesOn
<1> QED
  BY <1>2, <1>3, <1>4, <1>5 DEF MatchInv

(* Matches and tickets that are left alone keep MatchInv.                  *)
LEMMA MatchesStay ==
  ASSUME MatchInv, UNCHANGED matches,
         \A s \in Sockets : tickets'[s] = "MATCHED" => tickets[s] = "MATCHED"
  PROVE  MatchInv' /\ \A s \in Sockets : Taken(s)' <=> Taken(s)
<1>1. GoesOn
  BY DEF GoesOn
<1> QED
  BY <1>1, MatchesGoOn

-----------------------------------------------------------------------------
(* The actions. *)

(* Nobody leaves twice: ClientsInv needs only these facts.                 *)
LEMMA ClientsKept ==
  ASSUME ClientsInv, UNCHANGED options, IsInjective(clients'),
         Range(clients') \subseteq Range(clients),
         \A s \in Sockets : stage'[s] = "out" <=> stage[s] = "out"
  PROVE  ClientsInv'
BY DEF ClientsInv, Connected

(* A socket that comes is fresh.                                           *)
LEMMA JoinKeeps ==
  ASSUME LobbyInv, NEW s \in Sockets, Join(s)
  PROVE  LobbyInv'
<1> USE DEF LobbyInv
<1>1. /\ stage[s] = "out" /\ options[s].mode # "ABSENT"
      /\ stage' = [stage EXCEPT ![s] = "auth"] /\ clients' = Append(clients, s)
      /\ UNCHANGED <<options, known, queueVars, privateVars, matches, faults>>
  BY DEF Join
<1>2. clients \in Seq(Sockets) /\ stage \in [Sockets -> Stages]
  BY DEF LobbyTypeOK
<1>3. s \notin Range(clients) /\ IsInjective(clients)
  BY <1>1 DEF ClientsInv, Connected
<1>4. /\ clients' \in Seq(Sockets) /\ Range(clients') = Range(clients) \cup {s}
      /\ IsInjective(clients')
  BY <1>1, <1>2, <1>3, AppendProperties2
<1>5. stage' \in [Sockets -> Stages] /\ \A t \in Sockets : t # s => stage'[t] = stage[t]
  BY <1>1, <1>2 DEF Stages
<1>6. LobbyTypeOK'
  BY <1>1, <1>4, <1>5 DEF LobbyTypeOK, queueVars, privateVars
<1>7. ClientsInv'
  BY <1>1, <1>2, <1>4, <1>5 DEF ClientsInv, Connected
<1>8. MatchInv' /\ \A t \in Sockets : Taken(t)' <=> Taken(t)
  BY <1>1, MatchesStay DEF queueVars
<1>9. \A t \in Sockets : Fresh(t)' => Fresh(t)
  BY <1>1, <1>2 DEF Fresh
<1>10. \A t \in Sockets : Cancelled(t)' => Cancelled(t)
  BY <1>1 DEF Cancelled, queueVars
<1>11. LifeInv' /\ QueueInv'
  BY <1>1, <1>8, <1>9, <1>10, StayKeeps DEF queueVars, QueueInv
<1> QED
  BY <1>6, <1>7, <1>8, <1>11

(* A departure keeps the invariant, whatever else the stage becomes.       *)
LEMMA DepartsKeeps ==
  ASSUME LobbyInv, NEW s \in Sockets, Departs(s), stage' \in [Sockets -> Stages],
         \A t \in Sockets : /\ stage'[t] = "out" <=> stage[t] = "out"
                            /\ Fresh(t)' => Fresh(t)
                            /\ tickets'[t] = "CANCELLED" => tickets[t] = "CANCELLED"
                            /\ tickets'[t] = "MATCHED" => tickets[t] = "MATCHED",
         tickets' \in [Sockets -> Tickets], faults' \in Nat,
         UNCHANGED <<options, request, requests, invites, matches>>
  PROVE  LobbyInv'
<1> USE DEF LobbyInv
<1>1. LobbyTypeOK'
  BY DEF LobbyTypeOK, Departs, Removes
<1>2. ClientsInv'
  BY ClientsKept DEF Departs
<1>3. MatchInv'
  BY MatchesStay
<1>4. LifeInv' /\ QueueInv'
  BY DepartureKeeps
<1> QED
  BY <1>1, <1>2, <1>3, <1>4

(* Who leaves is out of the queue, wherever their onJoin is.               *)
LEMMA LeaveKeeps ==
  ASSUME LobbyInv, NEW s \in Sockets, Leave(s)
  PROVE  LobbyInv'
<1>1. /\ OnLeave(s)
      /\ UNCHANGED <<stage, options, tickets, request, requests, invites, matches, faults>>
  BY DEF Leave
<1>2. Departs(s)
  BY <1>1, Departure DEF LobbyInv
<1>3. /\ stage' \in [Sockets -> Stages] /\ tickets' \in [Sockets -> Tickets]
      /\ faults' \in Nat /\ \A t \in Sockets : Fresh(t)' => Fresh(t)
  BY <1>1 DEF LobbyInv, LobbyTypeOK, Fresh
<1> QED
  BY <1>1, <1>2, <1>3, DepartsKeeps

(* A join that fails: the client, if it is still there, departs.           *)
LEMMA JoinFailsKeeps ==
  ASSUME LobbyInv, NEW s \in Sockets, JoinFails(s), Fault, stage[s] # "out",
         tickets' = tickets \/ tickets' = [tickets EXCEPT ![s] = "QUEUED"],
         UNCHANGED <<options, request, requests, invites, matches>>
  PROVE  LobbyInv'
<1> USE DEF LobbyInv
<1>1. stage' = [stage EXCEPT ![s] = "failed"]
  BY DEF JoinFails
<1>2. stage \in [Sockets -> Stages] /\ tickets \in [Sockets -> Tickets] /\ faults' \in Nat
  BY DEF LobbyTypeOK, Fault
<1>3. /\ stage' \in [Sockets -> Stages]
      /\ \A t \in Sockets : stage'[t] = "out" <=> stage[t] = "out"
      /\ \A t \in Sockets : Fresh(t)' => Fresh(t)
  BY <1>1, <1>2 DEF Stages, Fresh
<1>4. tickets' \in [Sockets -> Tickets]
  BY <1>2 DEF Tickets
<1>5. \A t \in Sockets : /\ tickets'[t] = "CANCELLED" => tickets[t] = "CANCELLED"
                         /\ tickets'[t] = "MATCHED" => tickets[t] = "MATCHED"
  BY <1>2
<1>6. CASE Connected(s)
  <2>1. Departs(s)
    BY <1>6, Departure DEF JoinFails
  <2> QED
    BY <1>2, <1>3, <1>4, <1>5, <2>1, DepartsKeeps
<1>7. CASE ~Connected(s)
  <2>1. UNCHANGED <<clients, known, queues, timers, cancels, pairing>>
    BY <1>7 DEF JoinFails
  <2>2. LobbyTypeOK'
    BY <1>2, <1>3, <1>4, <2>1 DEF LobbyTypeOK
  <2>3. ClientsInv'
    BY <1>3, <2>1, ClientsKept DEF ClientsInv
  <2>4. MatchInv' /\ \A t \in Sockets : Taken(t)' <=> Taken(t)
    BY <1>5, MatchesStay
  <2>5. LifeInv' /\ QueueInv'
    BY <1>3, <1>5, <2>1, <2>4, StayKeeps DEF QueueInv, Cancelled
  <2> QED
    BY <2>2, <2>3, <2>4, <2>5
<1> QED
  BY <1>6, <1>7

(* The stage of s moves on, and it is not a first step.                    *)
LEMMA StageMoves ==
  ASSUME LobbyTypeOK, NEW s \in Sockets, NEW x \in {"ticket", "config", "joined"},
         stage[s] # "out", stage' = [stage EXCEPT ![s] = x]
  PROVE  /\ stage' \in [Sockets -> Stages]
         /\ \A t \in Sockets : /\ stage'[t] = "out" <=> stage[t] = "out"
                               /\ Fresh(t)' => Fresh(t) /\ t # s
                               /\ t # s => stage'[t] = stage[t]
<1>1. stage \in [Sockets -> Stages]
  BY DEF LobbyTypeOK
<1> QED
  BY <1>1 DEF Stages, Fresh

(* A client enters its queue.                                              *)
LEMMA EnterKeeps ==
  ASSUME LobbyInv, NEW s \in Sockets, stage[s] = "auth", options[s].mode = "PUBLIC",
         ~AlreadyQueued(s), stage' = [stage EXCEPT ![s] = "ticket"],
         known' = known \cup {s}, queues' = [queues EXCEPT ![Key(s)] = Append(@, s)],
         UNCHANGED <<clients, options, timers, tickets, cancels, pairing, request,
                     requests, invites, matches, faults>>
  PROVE  LobbyInv'
<1> USE DEF LobbyInv
<1>1. /\ stage' \in [Sockets -> Stages]
      /\ \A t \in Sockets : /\ stage'[t] = "out" <=> stage[t] = "out"
                            /\ Fresh(t)' => Fresh(t) /\ t # s
  BY StageMoves
<1>2. Key(s) \in QueueKeys /\ queues \in [QueueKeys -> Seq(Sockets)]
  BY OptionsType DEF LobbyTypeOK
<1>3. Fresh(s) /\ ~Queued(s) /\ ~Taken(s) /\ ~Cancelled(s)
  BY DEF Fresh, LifeInv
<1>4. s \notin Range(queues[Key(s)]) /\ IsInjective(queues[Key(s)])
  BY <1>2, <1>3 DEF Queued, QueueInv
<1>5. /\ Append(queues[Key(s)], s) \in Seq(Sockets) /\ IsInjective(Append(queues[Key(s)], s))
      /\ Range(Append(queues[Key(s)], s)) = Range(queues[Key(s)]) \cup {s}
  BY <1>2, <1>4, AppendProperties2
<1>6. /\ queues' \in [QueueKeys -> Seq(Sockets)]
      /\ \A k \in QueueKeys :
           /\ IsInjective(queues'[k])
           /\ k # Key(s) => Range(queues'[k]) = Range(queues[k])
           /\ k = Key(s) => Range(queues'[k]) = Range(queues[k]) \cup {s}
  BY <1>2, <1>5 DEF QueueInv
<1>7. \A t \in Sockets : Queued(t)' <=> Queued(t) \/ t = s
  BY <1>2, <1>6 DEF Queued
<1>8. LobbyTypeOK'
  BY <1>1, <1>6 DEF LobbyTypeOK
<1>9. ClientsInv'
  BY <1>1, ClientsKept DEF ClientsInv
<1>10. MatchInv' /\ \A t \in Sockets : Taken(t)' <=> Taken(t)
  BY MatchesStay
<1>11. \A t \in Sockets : Cancelled(t)' <=> Cancelled(t)
  BY DEF Cancelled
<1>12. LifeInv'
  BY <1>1, <1>3, <1>7, <1>10, <1>11 DEF LifeInv
<1>13. QueueInv'
  <2>1. \A k \in QueueKeys : \A t \in Range(queues'[k]) : k = Key(t)'
    BY <1>6 DEF QueueInv, Key
  <2>2. \A t \in Sockets : Queued(t) => UserOf[t] # UserOf[s]
    BY DEF AlreadyQueued, Queued
  <2>3. \A t, u \in Sockets : Queued(t)' /\ Queued(u)' /\ UserOf[t] = UserOf[u] => t = u
    BY <1>7, <2>2 DEF QueueInv
  <2>4. \A t \in Sockets : /\ Queued(t)' => t \in known'
                           /\ t \in timers' => Queued(t)'
                           /\ Queued(t)' \/ Taken(t)' => options'[t].mode = "PUBLIC"
    BY <1>7, <1>10 DEF QueueInv
  <2> QED
    BY <1>6, <2>1, <2>3, <2>4 DEF QueueInv
<1> QED
  BY <1>8, <1>9, <1>10, <1>12, <1>13

(* A client that enters no queue.                                          *)
LEMMA NoEntryKeeps ==
  ASSUME LobbyInv, NEW s \in Sockets, stage[s] # "out",
         stage' = [stage EXCEPT ![s] = "joined"],
         clients' = clients \/ clients' = Without(clients, s),
         known' = known \/ known' = known \cup {s},
         timers' \subseteq Sockets, \A t \in timers' : Queued(t),
         UNCHANGED <<options, queues, tickets, cancels, pairing, request, requests,
                     invites, matches, faults>>
  PROVE  LobbyInv'
<1> USE DEF LobbyInv
<1>1. /\ stage' \in [Sockets -> Stages]
      /\ \A t \in Sockets : /\ stage'[t] = "out" <=> stage[t] = "out"
                            /\ Fresh(t)' => Fresh(t)
  BY StageMoves
<1>2. /\ clients' \in Seq(Sockets) /\ IsInjective(clients')
      /\ Range(clients') \subseteq Range(clients)
  BY WithoutProperties DEF LobbyTypeOK, ClientsInv
<1>3. LobbyTypeOK'
  BY <1>1, <1>2 DEF LobbyTypeOK
<1>4. ClientsInv'
  BY <1>1, <1>2, ClientsKept
<1>5. MatchInv' /\ \A t \in Sockets : Taken(t)' <=> Taken(t)
  BY MatchesStay
<1>6. LifeInv' /\ QueueInv'
  BY <1>1, <1>5, StayKeeps DEF Cancelled
<1> QED
  BY <1>3, <1>4, <1>5, <1>6

(* Authentication makes nobody queue.                                      *)
LEMMA AuthKeeps ==
  ASSUME LobbyInv, NEW s \in Sockets, AuthReply(s)
  PROVE  LobbyInv'
<1>1. stage[s] = "auth" /\ UNCHANGED <<options, tickets, request, requests, invites, matches>>
  BY DEF AuthReply
<1>2. \A t \in timers : Queued(t)
  BY DEF LobbyInv, QueueInv, LobbyTypeOK
<1>3. timers \subseteq Sockets
  BY DEF LobbyInv, LobbyTypeOK
<1>4. CASE options[s].mode = "PUBLIC" /\ ~AlreadyQueued(s) /\ ~(JoinFails(s) /\ Fault)
  BY <1>1, <1>4, EnterKeeps DEF AuthReply
<1>5. CASE options[s].mode = "PUBLIC" /\ AlreadyQueued(s) /\ ~(JoinFails(s) /\ Fault)
  <2>1. /\ stage' = [stage EXCEPT ![s] = "joined"] /\ clients' = Without(clients, s)
        /\ known' = known \/ known' = known \cup {s}
        /\ UNCHANGED <<queues, timers, cancels, pairing, faults>>
    BY <1>5 DEF AuthReply
  <2> QED
    BY <1>1, <1>2, <1>3, <2>1, NoEntryKeeps
<1>6. CASE options[s].mode # "PUBLIC" /\ ~(JoinFails(s) /\ Fault)
  <2>1. /\ stage' = [stage EXCEPT ![s] = "joined"] /\ known' = known \cup {s}
        /\ UNCHANGED <<clients, queues, timers, cancels, pairing, faults>>
    BY <1>6 DEF AuthReply
  <2> QED
    BY <1>1, <1>2, <1>3, <2>1, NoEntryKeeps
<1>7. CASE JoinFails(s) /\ Fault
  BY <1>1, <1>7, JoinFailsKeeps
<1> QED
  BY <1>4, <1>5, <1>6, <1>7

(* Queueing after the configuration is known, with the first two paired at *)
(* once.                                                                   *)
LEMMA ConfigKeeps ==
  ASSUME LobbyInv, NEW s \in Sockets, ConfigReply(s)
  PROVE  LobbyInv'
<1>1. /\ stage[s] = "config"
      /\ UNCHANGED <<options, tickets, request, requests, invites, matches>>
  BY DEF ConfigReply
<1>2. CASE JoinFails(s) /\ Fault
  BY <1>1, <1>2, JoinFailsKeeps
<1>3. CASE ~(JoinFails(s) /\ Fault)
  <2>1. /\ stage' = [stage EXCEPT ![s] = "joined"]
        /\ timers' = IF s \in Range(queues[Key(s)]) THEN timers \cup {s} ELSE timers
        /\ UNCHANGED <<clients, known, queues, cancels, pairing, faults>>
    BY <1>3 DEF ConfigReply
  <2>2. \A t \in timers : Queued(t)
    BY DEF LobbyInv, QueueInv, LobbyTypeOK
  <2>3. s \in Range(queues[Key(s)]) => Queued(s)
    BY OptionsType DEF LobbyInv, Queued
  <2>4. timers' \subseteq Sockets /\ \A t \in timers' : Queued(t)
    BY <2>1, <2>2, <2>3 DEF LobbyInv, LobbyTypeOK
  <2> QED
    BY <1>1, <2>1, <2>4, NoEntryKeeps
<1> QED
  BY <1>2, <1>3

(* Half of the entries of a queue: they fit into the queue by pairs.       *)
LEMMA Halves ==
  ASSUME NEW n \in Nat
  PROVE  /\ n \div 2 \in Nat /\ 2 * (n \div 2) \in 0..n
         /\ \A i \in 1..(n \div 2) : 2 * i - 1 \in 1..n /\ 2 * i \in 1..n
OBVIOUS

(* tryMatchRealPlayers pairs off the oldest entries.                       *)
LEMMA PairsOff ==
  ASSUME LobbyInv, NEW k \in QueueKeys, TryMatchRealPlayers(k)
  PROVE  \E R \in SUBSET Sockets :
           /\ \A t \in R : Queued(t)
           /\ timers' = timers \ R /\ Removes(R) /\ Grows(R)
           /\ matches' \in Seq(Matches)
           /\ \A i \in DOMAIN matches' \ DOMAIN matches : Public(matches'[i])
<1> USE DEF LobbyInv
<1>1. PICK q : q = queues[k]
  OBVIOUS
<1>2. PICK n : n = Len(q) \div 2
  OBVIOUS
<1>3. PICK m : m = [i \in 1..n |-> NewMatch(q[2 * i - 1], q[2 * i], "queue")]
  OBVIOUS
<1>4. PICK R : R = {q[i] : i \in 1..(2 * n)}
  OBVIOUS
<1>5. /\ matches' = matches \o m /\ timers' = timers \ R
      /\ queues' = [queues EXCEPT ![k] = SubSeq(q, 2 * n + 1, Len(q))]
  BY <1>1, <1>2, <1>3, <1>4 DEF TryMatchRealPlayers
<1>6. q \in Seq(Sockets) /\ IsInjective(q) /\ queues \in [QueueKeys -> Seq(Sockets)]
  BY <1>1 DEF LobbyTypeOK, QueueInv
<1>7. Len(q) \in Nat /\ DOMAIN q = 1..Len(q) /\ \A i \in 1..Len(q) : q[i] \in Sockets
  BY <1>6, LenProperties
<1>8. n \in Nat /\ 2 * n \in 0..Len(q)
  BY <1>2, <1>7, Halves
<1>9. R \subseteq Range(q) /\ R \subseteq Sockets /\ \A t \in R : Queued(t)
  <2>1. 1..(2 * n) \subseteq 1..Len(q)
    BY <1>7, <1>8
  <2> QED
    BY <1>1, <1>4, <1>7, <2>1 DEF Range, Queued
<1>10. Removes(R)
  <2>1. PICK r : r = SubSeq(q, 2 * n + 1, Len(q))
    OBVIOUS
  <2>2. /\ r \in Seq(Sockets) /\ IsInjective(r) /\ Range(r) \subseteq Range(q)
        /\ Range(r) = {q[i] : i \in (2 * n + 1)..Len(q)}
        /\ \A i \in 1..(2 * n) : q[i] \in Range(q) \ Range(r)
    <3>1. 2 * n \in 0..Len(q)
      BY <1>8
    <3>2. PICK d \in 0..Len(q) : d = 2 * n
      BY ONLY <3>1
    <3>3. r = SubSeq(q, d + 1, Len(q))
      BY ONLY <2>1, <3>2
    <3>4. /\ r \in Seq(Sockets) /\ IsInjective(r) /\ Range(r) \subseteq Range(q)
          /\ Range(r) = {q[i] : i \in (d + 1)..Len(q)}
          /\ \A i \in 1..d : q[i] \in Range(q) \ Range(r)
      BY ONLY <1>6, <3>2, <3>3, RestProperties
    <3> QED
      BY ONLY <3>2, <3>4
  <2>3. Range(r) = Range(q) \ R
    <3>1. ASSUME NEW x \in Range(q), x \notin R PROVE x \in Range(r)
      <4>1. PICK i \in 1..Len(q) : x = q[i]
        BY <1>7 DEF Range
      <4>2. i \notin 1..(2 * n)
        BY <1>4, <3>1, <4>1
      <4>3. i \in (2 * n + 1)..Len(q)
        BY <1>7, <1>8, <4>2
      <4> QED
        BY <2>2, <4>1, <4>3
    <3> QED
      BY <1>4, <2>2, <3>1
  <2>4. queues' = [queues EXCEPT ![k] = r]
    BY <1>5, <2>1
  <2>5. \A l \in QueueKeys : l # k => Range(queues[l]) \ R = Range(queues[l])
    <3>1. \A t \in R : k = Key(t)
      BY <1>1, <1>9 DEF QueueInv
    <3>2. \A l \in QueueKeys : \A t \in Range(queues[l]) : l = Key(t)
      BY DEF QueueInv
    <3> QED
      BY <3>1, <3>2
  <2> QED
    BY <1>1, <1>6, <2>2, <2>3, <2>4, <2>5 DEF Removes, QueueInv
<1>11. /\ DOMAIN m = 1..n
       /\ \A i \in 1..n : /\ m[i] \in Matches /\ m[i].step = "check" /\ m[i].row = FALSE
                          /\ SocketsOf(m[i]) = {q[2 * i - 1], q[2 * i]} /\ Public(m[i])
  <2>1. ASSUME NEW i \in 1..n
        PROVE  /\ m[i] \in Matches /\ m[i].step = "check" /\ m[i].row = FALSE
               /\ SocketsOf(m[i]) = {q[2 * i - 1], q[2 * i]} /\ Public(m[i])
    <3>1. q[2 * i - 1] \in Sockets /\ q[2 * i] \in Sockets
      BY <1>2, <1>7, Halves
    <3>2. m[i] = NewMatch(q[2 * i - 1], q[2 * i], "queue")
      BY <1>3
    <3> QED
      BY <3>1, <3>2, LobbyAssumption DEF NewMatch, Matches, SocketsOf, Public
  <2> QED
    BY <1>3, <2>1
<1>12. m \in Seq(Matches) /\ Len(m) = n
  <2>1. m \in [1..n -> Matches]
    <3>1. \A i \in 1..n : NewMatch(q[2 * i - 1], q[2 * i], "queue") \in Matches
      BY <1>3, <1>11
    <3> QED
      BY <1>3, <3>1
  <2> QED
    BY <1>8, <2>1, LenProperties
<1>13. matches \in Seq(Matches)
  BY DEF LobbyTypeOK
<1>14. /\ matches' \in Seq(Matches)
       /\ DOMAIN matches \subseteq DOMAIN matches'
       /\ \A i \in DOMAIN matches : matches'[i] = matches[i]
       /\ \A i \in DOMAIN matches' \ DOMAIN matches :
            i \in Nat /\ i - Len(matches) \in 1..n /\ matches'[i] = m[i - Len(matches)]
  BY <1>5, <1>8, <1>11, <1>12, <1>13
<1>15. Grows(R)
  <2>1. \A i \in DOMAIN matches' \ DOMAIN matches :
          matches'[i].step = "check" /\ matches'[i].row = FALSE
    BY <1>11, <1>14
  <2>2. ASSUME NEW i \in DOMAIN matches' \ DOMAIN matches, NEW t, In(i, t)'
        PROVE  \E a \in {2 * (i - Len(matches)) - 1, 2 * (i - Len(matches))} :
                 a \in 1..(2 * n) /\ a \in 1..Len(q) /\ t = q[a]
    <3>1. PICK j \in 1..n : j = i - Len(matches)
      BY <1>14
    <3>2. t \in {q[2 * j - 1], q[2 * j]}
      BY <1>11, <1>14, <2>2, <3>1 DEF In
    <3>3. 2 * j - 1 \in 1..(2 * n) /\ 2 * j \in 1..(2 * n)
      BY <1>8
    <3>4. 1..(2 * n) \subseteq 1..Len(q)
      BY <1>7, <1>8
    <3> QED
      BY <3>1, <3>2, <3>3, <3>4
  <2>3. ASSUME NEW i \in DOMAIN matches' \ DOMAIN matches, NEW t \in Sockets, In(i, t)'
        PROVE  t \in R
    BY <1>4, <2>2, <2>3
  <2>4. ASSUME NEW i \in DOMAIN matches' \ DOMAIN matches,
               NEW j \in DOMAIN matches' \ DOMAIN matches,
               NEW t \in Sockets, In(i, t)', In(j, t)'
        PROVE  i = j
    <3>1. PICK a \in 1..Len(q) : /\ a \in {2 * (i - Len(matches)) - 1, 2 * (i - Len(matches))}
                                 /\ t = q[a]
      BY <2>2, <2>4
    <3>2. PICK b \in 1..Len(q) : /\ b \in {2 * (j - Len(matches)) - 1, 2 * (j - Len(matches))}
                                 /\ t = q[b]
      BY <2>2, <2>4
    <3>3. a = b
      BY <1>6, <1>7, <3>1, <3>2 DEF IsInjective
    <3>4. i \in Nat /\ j \in Nat /\ Len(matches) \in Nat
      BY <1>13, <1>14, LenProperties
    <3> QED
      BY <3>1, <3>2, <3>3, <3>4
  <2> QED
    BY <1>14, <2>1, <2>3, <2>4 DEF Grows
<1>16. \A i \in DOMAIN matches' \ DOMAIN matches : Public(matches'[i])
  BY <1>11, <1>14
<1> QED
  BY <1>5, <1>9, <1>10, <1>14, <1>15, <1>16

(* A ticket that arrives late belongs to an entry that is still queued, or *)
(* is cancelled.                                                           *)
LEMMA TicketKeeps ==
  ASSUME LobbyInv, NEW s \in Sockets, TicketReply(s)
  PROVE  LobbyInv'
<1> USE DEF LobbyInv
<1>1. /\ stage[s] = "ticket" /\ UNCHANGED <<options, request, requests, invites>>
      /\ tickets \in [Sockets -> Tickets] /\ stage \in [Sockets -> Stages]
  BY DEF TicketReply, LobbyTypeOK
<1>2. CASE JoinFails(s) /\ Fault /\ UNCHANGED matches
           /\ tickets' \in {tickets, [tickets EXCEPT ![s] = "QUEUED"]}
  BY <1>1, <1>2, JoinFailsKeeps
<1>3. CASE /\ tickets' = [tickets EXCEPT ![s] = "QUEUED"]
           /\ stage' = [stage EXCEPT ![s] = "config"]
           /\ TryMatchRealPlayers(Key(s))
           /\ UNCHANGED <<clients, known, cancels, pairing, faults>>
  <2>1. PICK R \in SUBSET Sockets :
               /\ \A t \in R : Queued(t)
               /\ timers' = timers \ R /\ Removes(R) /\ Grows(R)
               /\ matches' \in Seq(Matches)
    BY <1>3, OptionsType, PairsOff
  <2>2. /\ stage' \in [Sockets -> Stages]
        /\ \A t \in Sockets : /\ stage'[t] = "out" <=> stage[t] = "out"
                              /\ Fresh(t)' => Fresh(t)
    BY <1>1, <1>3, StageMoves
  <2>3. /\ tickets' \in [Sockets -> Tickets]
        /\ \A t \in Sockets : /\ tickets'[t] = "CANCELLED" => tickets[t] = "CANCELLED"
                              /\ tickets'[t] = "MATCHED" => tickets[t] = "MATCHED"
    BY <1>1, <1>3 DEF Tickets
  <2>4. LobbyTypeOK'
    BY <1>1, <1>3, <2>1, <2>2, <2>3 DEF LobbyTypeOK, Removes
  <2>5. ClientsInv'
    BY <1>1, <1>3, <2>2, ClientsKept DEF ClientsInv
  <2>6. \A t \in Sockets : t \in R => ~Taken(t)
    BY <2>1 DEF LifeInv
  <2>7. MatchInv'
    BY <2>1, <2>3, <2>6, MatchesGrow
  <2>8. LifeInv' /\ QueueInv'
    <3>1. \A t \in Sockets : /\ t \in R => Queued(t)
                             /\ t \in timers' => t \in timers /\ t \notin R
                             /\ Fresh(t)' => Fresh(t)
                             /\ Taken(t)' => Taken(t) \/ t \in R
                             /\ tickets'[t] = "CANCELLED" => tickets[t] = "CANCELLED"
      BY <2>1, <2>2, <2>3, TakenGrows
    <3>2. UNCHANGED <<options, known, cancels>>
      BY <1>1, <1>3
    <3> QED
      BY <2>1, <3>1, <3>2, MatchTakes
  <2> QED
    BY <2>4, <2>5, <2>7, <2>8
<1> QED
  BY <1>2, <1>3 DEF TicketReply

(* One more match.                                                         *)
LEMMA OneMore ==
  ASSUME LobbyTypeOK, NEW m \in Matches, m.step = "check", m.row = FALSE,
         matches' = Append(matches, m), NEW R,
         \A s \in Sockets : Public(m) /\ s \in SocketsOf(m) => s \in R
  PROVE  /\ matches' \in Seq(Matches) /\ Grows(R)
         /\ \A i \in DOMAIN matches' \ DOMAIN matches : matches'[i] = m
<1>1. matches \in Seq(Matches)
  BY DEF LobbyTypeOK
<1>2. /\ matches' \in Seq(Matches)
      /\ DOMAIN matches' = DOMAIN matches \cup {Len(matches) + 1}
      /\ \A i \in DOMAIN matches : matches'[i] = matches[i]
      /\ matches'[Len(matches) + 1] = m
  BY <1>1, AppendProperties2
<1> QED
  BY <1>2 DEF Grows, In

(* The bot timer takes the entry it was set for.                           *)
LEMMA FillKeeps ==
  ASSUME LobbyInv, NEW s \in Sockets, FillWithBot(s)
  PROVE  LobbyInv'
<1> USE DEF LobbyInv
<1>1. /\ s \in timers /\ timers' = timers \ {s}
      /\ UNCHANGED <<clients, stage, options, known, tickets, cancels, pairing, request,
                     requests, invites, faults>>
  BY DEF FillWithBot, joinVars, privateVars
<1>2. Queued(s) /\ Key(s) \in QueueKeys
  BY <1>1, OptionsType DEF QueueInv
<1>3. \A k \in QueueKeys : s \in Range(queues[k]) => k = Key(s)
  BY DEF QueueInv
<1>4. s \in Range(queues[Key(s)])
  BY <1>2, <1>3 DEF Queued
<1>5. /\ queues' = [queues EXCEPT ![Key(s)] = Without(@, s)]
      /\ matches' = Append(matches, NewMatch(s, Bot, "bot"))
  BY <1>4 DEF FillWithBot
<1>6. /\ Without(queues[Key(s)], s) \in Seq(Sockets)
      /\ IsInjective(Without(queues[Key(s)], s))
      /\ Range(Without(queues[Key(s)], s)) = Range(queues[Key(s)]) \ {s}
  BY <1>2, WithoutProperties DEF LobbyTypeOK, QueueInv
<1>7. Removes({s})
  <2>1. queues \in [QueueKeys -> Seq(Sockets)] /\ \A k \in QueueKeys : IsInjective(queues[k])
    BY DEF LobbyTypeOK, QueueInv
  <2>2. \A k \in QueueKeys : k # Key(s) => Range(queues[k]) \ {s} = Range(queues[k])
    BY <1>3
  <2> QED
    BY <1>2, <1>5, <1>6, <2>1, <2>2 DEF Removes
<1>8. NewMatch(s, Bot, "bot") \in Matches
  BY DEF NewMatch, Matches
<1>9. matches' \in Seq(Matches) /\ Grows({s})
  <2>1. \A t \in Sockets : t \in SocketsOf(NewMatch(s, Bot, "bot")) => t \in {s}
    BY DEF NewMatch, SocketsOf
  <2>2. /\ NewMatch(s, Bot, "bot").step = "check"
        /\ NewMatch(s, Bot, "bot").row = FALSE
    BY DEF NewMatch
  <2> QED
    BY <1>5, <1>8, <2>1, <2>2, OneMore
<1>10. LobbyTypeOK'
  BY <1>1, <1>7, <1>9 DEF LobbyTypeOK, Removes
<1>11. ClientsInv'
  BY <1>1, ClientsKept DEF ClientsInv
<1>12. \A t \in Sockets : t \in {s} => ~Taken(t)
  BY <1>2 DEF LifeInv
<1>13. MatchInv'
  BY <1>1, <1>9, <1>12, MatchesGrow
<1>14. LifeInv' /\ QueueInv'
  <2>1. \A t \in Sockets : /\ t \in {s} => Queued(t)
                           /\ t \in timers' => t \in timers /\ t \notin {s}
                           /\ Fresh(t)' => Fresh(t)
                           /\ Taken(t)' => Taken(t) \/ t \in {s}
                           /\ tickets'[t] = "CANCELLED" => tickets[t] = "CANCELLED"
    BY <1>1, <1>2, <1>9, TakenGrows DEF Fresh
  <2>2. UNCHANGED <<options, known, cancels>>
    BY <1>1
  <2> QED
    BY <1>7, <2>1, <2>2, MatchTakes
<1> QED
  BY <1>10, <1>11, <1>13, <1>14

(* A set of natural numbers has a least element.                           *)
LEMMA LeastIndex ==
  ASSUME NEW T \in SUBSET Nat, T # {}
  PROVE  \E n \in T : \A m \in T : n <= m
<1>1. PICK n \in T : \A m \in T : <<m, n>> \notin OpToRel(<, Nat)
  BY NatLessThanWellFounded, WFMin
<1>2. \A m \in T : ~(m < n)
  BY <1>1 DEF OpToRel
<1> QED
  BY <1>2

(* The first client of a user is one of theirs.                            *)
LEMMA FirstClient ==
  ASSUME LobbyTypeOK, NEW u, ClientOf(u) # None
  PROVE  Connected(ClientOf(u)) /\ UserOf[ClientOf(u)] = u /\ ClientOf(u) \in Sockets
<1>1. PICK mine : mine = {i \in DOMAIN clients : clients[i] \in known /\ UserOf[clients[i]] = u}
  OBVIOUS
<1>2. clients \in Seq(Sockets)
  BY DEF LobbyTypeOK
<1>3. DOMAIN clients \subseteq Nat /\ \A i \in DOMAIN clients : clients[i] \in Sockets
  BY <1>2
<1>4. mine # {}
  BY <1>1 DEF ClientOf
<1>5. ClientOf(u) = clients[CHOOSE i \in mine : \A j \in mine : i <= j]
  BY <1>1, <1>4 DEF ClientOf
<1>6. \E i \in mine : \A j \in mine : i <= j
  BY <1>1, <1>3, <1>4, LeastIndex
<1>7. PICK i \in mine : ClientOf(u) = clients[i]
  BY <1>5, <1>6
<1> QED
  BY <1>1, <1>3, <1>7 DEF Connected, Range

(* Requests and invites touch no queue entry.                              *)
LEMMA RequestsKeep ==
  ASSUME LobbyInv, UNCHANGED <<joinVars, queueVars>>,
         UNCHANGED matches \/ Grows({}), matches' \in Seq(Matches),
         request' \in [Sockets -> Requests], requests' \in [Sockets -> Nat],
         invites' \in [Codes -> Invites], pairing' \subseteq Sockets, faults' \in Nat
  PROVE  LobbyInv'
<1> USE DEF LobbyInv
<1>1. UNCHANGED <<clients, stage, options, known, queues, timers, tickets, cancels>>
  BY DEF joinVars, queueVars
<1>2. LobbyTypeOK'
  BY <1>1 DEF LobbyTypeOK
<1>3. ClientsInv'
  BY <1>1 DEF ClientsInv, Connected
<1>4. Grows({})
  BY DEF Grows
<1>5. MatchInv'
  BY <1>1, <1>4, MatchesGrow
<1>6. LifeInv' /\ QueueInv'
  <2>1. \A s \in Sockets : /\ s \in known => s \in known'
                           /\ s \in timers' => Queued(s)
                           /\ Fresh(s)' => Fresh(s)
                           /\ Taken(s)' => Taken(s)
                           /\ Cancelled(s)' => Cancelled(s)
    BY <1>1, <1>4, TakenGrows DEF Fresh, Cancelled, QueueInv
  <2> QED
    BY <1>1, <2>1, StayKeeps
<1> QED
  BY <1>2, <1>3, <1>5, <1>6

(* What requests and invites look like, and what a fault leaves.           *)
LEMMA RequestTypes ==
  ASSUME LobbyTypeOK
  PROVE  /\ request \in [Sockets -> Requests] /\ requests \in [Sockets -> Nat]
         /\ invites \in [Codes -> Invites] /\ pairing \subseteq Sockets
         /\ matches \in Seq(Matches) /\ faults \in Nat /\ (Fault => faults' \in Nat)
         /\ NoRequest \in Requests /\ Deleted \in Invites
BY DEF LobbyTypeOK, Requests, NoRequest, Invites, Fault

(* A request that is being loaded is deleted next, and then made.          *)
LEMMA RequestTurns ==
  ASSUME NEW r \in Requests
  PROVE  /\ \A h \in Sockets : r.step = "loading" =>
              [r EXCEPT !.step = "deleting", !.peer = h] \in Requests
         /\ r.step = "deleting" =>
              [r EXCEPT !.step = "making"] \in Requests /\ r.peer \in Sockets
         /\ r.step # None => r.code \in Codes
<1>1. CASE r = NoRequest
  BY <1>1 DEF NoRequest, None
<1>2. CASE r \in [step : {"saving", "loading"}, code : Codes, peer : {None}]
  <2>1. ASSUME NEW h \in Sockets
        PROVE  [r EXCEPT !.step = "deleting", !.peer = h]
                 \in [step : {"deleting", "making"}, code : Codes, peer : Sockets]
    BY <1>2
  <2> QED
    BY <1>2, <2>1 DEF Requests
<1>3. CASE r \in [step : {"deleting", "making"}, code : Codes, peer : Sockets]
  <2>1. [r EXCEPT !.step = "making"]
          \in [step : {"deleting", "making"}, code : Codes, peer : Sockets]
    BY <1>3
  <2> QED
    BY <1>3, <2>1 DEF Requests
<1> QED
  BY <1>1, <1>2, <1>3 DEF Requests

(* A request that ends is none.                                            *)
LEMMA EndRequestType ==
  ASSUME LobbyTypeOK, NEW s \in Sockets, EndRequest(s)
  PROVE  request' \in [Sockets -> Requests]
BY RequestTypes DEF EndRequest

(* Asking for an invite touches no queue.                                  *)
LEMMA AskKeeps ==
  ASSUME LobbyInv, NEW s \in Sockets, NEW c \in Codes,
         PrivateRequest(s, "saving", c) \/ PrivateRequest(s, "loading", c)
  PROVE  LobbyInv'
<1>1. /\ UNCHANGED <<joinVars, queueVars, pairing, invites, matches, faults>>
      /\ requests' = [requests EXCEPT ![s] = @ + 1]
      /\ \/ request' = [request EXCEPT ![s] = [step |-> "saving", code |-> c, peer |-> None]]
         \/ request' = [request EXCEPT ![s] = [step |-> "loading", code |-> c, peer |-> None]]
  BY DEF PrivateRequest
<1>2. LobbyTypeOK
  BY DEF LobbyInv
<1>3. request' \in [Sockets -> Requests] /\ requests' \in [Sockets -> Nat]
  <2>1. /\ [step |-> "saving", code |-> c, peer |-> None] \in Requests
        /\ [step |-> "loading", code |-> c, peer |-> None] \in Requests
    BY DEF Requests
  <2>2. request \in [Sockets -> Requests] /\ requests \in [Sockets -> Nat]
    BY <1>2, RequestTypes
  <2> QED
    BY <1>1, <2>1, <2>2
<1> QED
  BY <1>1, <1>2, <1>3, RequestTypes, RequestsKeep

(* Nor does saving one,                                                    *)
LEMMA SaveKeeps ==
  ASSUME LobbyInv, NEW s \in Sockets, SaveReply(s)
  PROVE  LobbyInv'
<1>1. LobbyTypeOK
  BY DEF LobbyInv
<1>2. PICK i : i = [user |-> UserOf[s], key |-> Key(s)]
  OBVIOUS
<1>3. i \in Invites
  BY <1>1, <1>2, OptionsType DEF Invites
<1>4. /\ EndRequest(s) /\ UNCHANGED <<joinVars, queueVars, pairing, requests, matches>>
      /\ \/ invites' = [invites EXCEPT ![request[s].code] = i]
         \/ invites' = [invites EXCEPT ![request[s].code] = Deleted]
      /\ UNCHANGED faults \/ Fault
  BY <1>2 DEF SaveReply
<1>5. invites' \in [Codes -> Invites]
  BY <1>1, <1>3, <1>4, RequestTypes
<1> QED
  BY <1>1, <1>4, <1>5, RequestTypes, EndRequestType, RequestsKeep

(* nor its expiry,                                                         *)
LEMMA ExpireKeeps ==
  ASSUME LobbyInv, NEW c \in Codes, Expire(c)
  PROVE  LobbyInv'
<1>1. LobbyTypeOK
  BY DEF LobbyInv
<1>2. invites' \in [Codes -> Invites]
  BY <1>1, RequestTypes DEF Expire
<1> QED
  BY <1>1, <1>2, RequestTypes, RequestsKeep DEF Expire

(* nor looking it up,                                                      *)
LEMMA LoadKeeps ==
  ASSUME LobbyInv, NEW s \in Sockets, LoadReply(s)
  PROVE  LobbyInv'
<1>1. LobbyTypeOK
  BY DEF LobbyInv
<1>2. PICK h : h = ClientOf(invites[request[s].code].user)
  OBVIOUS
<1>3. UNCHANGED <<joinVars, queueVars, requests, invites, matches>>
  BY DEF LoadReply
<1>4. CASE EndRequest(s) /\ UNCHANGED pairing /\ (UNCHANGED faults \/ Fault)
  BY <1>1, <1>3, <1>4, RequestTypes, EndRequestType, RequestsKeep
<1>5. CASE /\ h # None /\ pairing' = pairing \cup {h, s} /\ UNCHANGED faults
           /\ request' = [request EXCEPT ![s].step = "deleting", ![s].peer = h]
  <2>1. h \in Sockets
    BY <1>1, <1>2, <1>5, FirstClient
  <2>2. request[s].step = "loading" /\ request \in [Sockets -> Requests]
    BY <1>1, RequestTypes DEF LoadReply
  <2>3. [request[s] EXCEPT !.step = "deleting", !.peer = h] \in Requests
    BY <2>1, <2>2, RequestTurns
  <2>4. request' \in [Sockets -> Requests]
    BY <1>5, <2>2, <2>3
  <2> QED
    BY <1>1, <1>3, <1>5, <2>1, <2>4, RequestTypes, RequestsKeep
<1> QED
  BY <1>2, <1>4, <1>5 DEF LoadReply

(* nor deleting it, which makes a private match.                           *)
LEMMA DeleteKeeps ==
  ASSUME LobbyInv, NEW s \in Sockets, DeleteReply(s)
  PROVE  LobbyInv'
<1>1. LobbyTypeOK
  BY DEF LobbyInv
<1>2. /\ request[s].step = "deleting"
      /\ UNCHANGED <<joinVars, queueVars, pairing, requests>>
  BY DEF DeleteReply
<1>3. /\ request[s] \in Requests /\ request[s].peer \in Sockets /\ request[s].code \in Codes
      /\ [request[s] EXCEPT !.step = "making"] \in Requests
  BY <1>1, <1>2, RequestTypes, RequestTurns DEF None
<1>4. PICK gone : gone = [invites EXCEPT ![request[s].code] = Deleted]
  OBVIOUS
<1>5. gone \in [Codes -> Invites]
  BY <1>1, <1>4, RequestTypes
<1>6. CASE /\ invites' = gone /\ UNCHANGED faults
           /\ matches' = Append(matches, NewMatch(request[s].peer, s, request[s].code))
           /\ request' = [request EXCEPT ![s].step = "making"]
  <2>1. PICK m : m = NewMatch(request[s].peer, s, request[s].code)
    OBVIOUS
  <2>2. m \in Matches /\ m.step = "check" /\ m.row = FALSE /\ ~Public(m)
    BY <1>3, <2>1, LobbyAssumption DEF NewMatch, Matches, Public
  <2>3. matches' \in Seq(Matches) /\ Grows({})
    BY <1>1, <1>6, <2>1, <2>2, OneMore
  <2>4. request' \in [Sockets -> Requests]
    BY <1>1, <1>3, <1>6, RequestTypes
  <2> QED
    BY <1>1, <1>2, <1>5, <1>6, <2>3, <2>4, RequestTypes, RequestsKeep
<1>7. CASE EndRequest(s) /\ (invites' = invites \/ invites' = gone) /\ Fault /\ UNCHANGED matches
  BY <1>1, <1>2, <1>5, <1>7, RequestTypes, EndRequestType, RequestsKeep
<1> QED
  BY <1>4, <1>6, <1>7 DEF DeleteReply

(* A cancellation marks the ticket of an entry that is not taken.          *)
LEMMA CancelKeeps ==
  ASSUME LobbyInv, NEW s \in Sockets, CancelReply(s)
  PROVE  LobbyInv'
<1> USE DEF LobbyInv
<1>1. /\ s \in cancels /\ cancels' = cancels \ {s}
      /\ UNCHANGED <<clients, stage, options, known, queues, timers, pairing, request,
                     requests, invites, matches>>
  BY DEF CancelReply, joinVars, privateVars
<1>2. tickets \in [Sockets -> Tickets] /\ faults \in Nat
  BY DEF LobbyTypeOK
<1>3. \/ /\ tickets' = [tickets EXCEPT ![s] = IF @ = None THEN None ELSE "CANCELLED"]
         /\ UNCHANGED faults
      \/ Fault /\ UNCHANGED tickets
  BY DEF CancelReply
<1>4. faults' \in Nat /\ tickets' \in [Sockets -> Tickets]
  BY <1>2, <1>3 DEF Tickets, Fault
<1>5. \A t \in Sockets : /\ tickets'[t] = "CANCELLED" => tickets[t] = "CANCELLED" \/ t = s
                         /\ tickets'[t] = "MATCHED" => tickets[t] = "MATCHED"
  BY <1>2, <1>3 DEF None
<1>6. LobbyTypeOK'
  BY <1>1, <1>4 DEF LobbyTypeOK
<1>7. ClientsInv'
  BY <1>1, ClientsKept DEF ClientsInv
<1>8. MatchInv' /\ \A t \in Sockets : Taken(t)' <=> Taken(t)
  BY <1>1, <1>5, MatchesStay
<1>9. \A t \in Sockets : Cancelled(t)' => Cancelled(t)
  BY <1>1, <1>5 DEF Cancelled
<1>10. LifeInv' /\ QueueInv'
  BY <1>1, <1>8, <1>9, StayKeeps DEF QueueInv, Fresh
<1> QED
  BY <1>6, <1>7, <1>8, <1>10

(* A step of the call that creates a match.                                *)
LEMMA CreationKeeps ==
  ASSUME LobbyInv, GoesOn, matches' \in Seq(Matches),
         UNCHANGED <<joinVars, queues, timers, cancels, requests, invites>>,
         request' \in [Sockets -> Requests], pairing' \subseteq Sockets, faults' \in Nat,
         tickets' \in [Sockets -> Tickets],
         \A s \in Sockets :
           /\ tickets'[s] = "CANCELLED" => tickets[s] = "CANCELLED"
           /\ tickets'[s] = "MATCHED" =>
                \/ tickets[s] = "MATCHED"
                \/ \E i \in DOMAIN matches : In(i, s) /\ matches[i].row
  PROVE  LobbyInv'
<1> USE DEF LobbyInv
<1>1. UNCHANGED <<clients, stage, options, known>>
  BY DEF joinVars
<1>2. LobbyTypeOK'
  BY <1>1 DEF LobbyTypeOK
<1>3. ClientsInv'
  BY <1>1, ClientsKept DEF ClientsInv
<1>4. MatchInv' /\ \A s \in Sockets : Taken(s)' <=> Taken(s)
  BY MatchesGoOn
<1>5. LifeInv' /\ QueueInv'
  <2>1. \A s \in Sockets : Fresh(s)' => Fresh(s)
    BY <1>1 DEF Fresh
  <2>2. \A s \in Sockets : Cancelled(s)' => Cancelled(s)
    BY DEF Cancelled
  <2> QED
    BY <1>1, <1>4, <2>1, <2>2, StayKeeps DEF QueueInv
<1> QED
  BY <1>2, <1>3, <1>4, <1>5

(* The match i goes on to another step, with its row or without.           *)
LEMMA MatchGoesOn ==
  ASSUME LobbyTypeOK, NEW i \in DOMAIN matches, NEW row \in BOOLEAN, matches[i].row => row,
         NEW x \in {"create", "tickets", "room", "done", "failed"},
         x = "create" => ~row, x \in {"tickets", "room", "done"} => row,
         \/ matches' = [matches EXCEPT ![i].step = x, ![i].row = row]
         \/ matches' = [matches EXCEPT ![i].step = x] /\ row = matches[i].row
  PROVE  /\ GoesOn /\ matches' \in Seq(Matches)
         /\ \A j \in DOMAIN matches : j # i => matches'[j] = matches[j]
         /\ matches'[i].via = matches[i].via /\ matches'[i].step = x
<1>1. matches \in Seq(Matches)
  BY DEF LobbyTypeOK
<1>2. PICK m : /\ matches' = [matches EXCEPT ![i] = m]
               /\ \/ m = [matches[i] EXCEPT !.step = x, !.row = row]
                  \/ m = [matches[i] EXCEPT !.step = x] /\ row = matches[i].row
  OBVIOUS
<1>3. matches[i] \in Matches
  BY <1>1
<1>4. /\ m \in Matches /\ m.p1 = matches[i].p1 /\ m.p2 = matches[i].p2
      /\ m.via = matches[i].via /\ m.step = x /\ m.row = row
  BY <1>2, <1>3 DEF Matches
<1>5. matches' = [matches EXCEPT ![i] = m]
  BY <1>2
<1>6. matches' \in Seq(Matches) /\ DOMAIN matches' = DOMAIN matches
  <2>1. i \in 1..Len(matches) /\ DOMAIN matches = 1..Len(matches)
    BY <1>1, LenProperties
  <2>2. [matches EXCEPT ![i] = m] \in Seq(Matches)
    BY <1>1, <1>4, <2>1, ExceptSeq
  <2> QED
    BY <1>5, <2>2
<1>7. \A j \in DOMAIN matches : j # i => matches'[j] = matches[j]
  BY <1>1, <1>5
<1>8. matches'[i] = m
  BY <1>1, <1>5
<1>9. RowOK(m)
  BY <1>4 DEF RowOK
<1>10. /\ Public(m) = Public(matches[i]) /\ SocketsOf(m) = SocketsOf(matches[i])
       /\ matches[i].row => m.row
  BY <1>4 DEF Public, SocketsOf
<1>11. GoesOn
  BY <1>6, <1>7, <1>8, <1>9, <1>10 DEF GoesOn
<1> QED
  BY <1>4, <1>6, <1>7, <1>8, <1>11

(* The end of a call forgets a request at most.                            *)
LEMMA FinishType ==
  ASSUME LobbyTypeOK, NEW i \in DOMAIN matches, Finish(i)
  PROVE  request' \in [Sockets -> Requests]
BY RequestTypes DEF Finish

(* A match creation that fails.                                            *)
LEMMA FailureKeeps ==
  ASSUME LobbyInv, NEW i \in DOMAIN matches, NEW row \in BOOLEAN, matches[i].row => row,
         CreationFails(i, row), tickets' \in [Sockets -> Tickets],
         UNCHANGED <<joinVars, queues, timers, cancels, requests, invites>>,
         \A s \in Sockets :
           /\ tickets'[s] = "CANCELLED" => tickets[s] = "CANCELLED"
           /\ tickets'[s] = "MATCHED" =>
                \/ tickets[s] = "MATCHED"
                \/ \E j \in DOMAIN matches : In(j, s) /\ matches[j].row
  PROVE  LobbyInv'
<1>1. LobbyTypeOK
  BY DEF LobbyInv
<1>2. /\ Fault /\ Finish(i) /\ pairing' = pairing \ SocketsOf(matches[i])
      /\ matches' = [matches EXCEPT ![i].step = "failed", ![i].row = row]
  BY DEF CreationFails
<1>3. GoesOn /\ matches' \in Seq(Matches)
  BY <1>1, <1>2, MatchGoesOn
<1>4. request' \in [Sockets -> Requests]
  BY <1>1, <1>2, FinishType
<1>5. pairing' \subseteq Sockets /\ faults' \in Nat
  BY <1>1, <1>2, RequestTypes
<1> QED
  BY <1>3, <1>4, <1>5, CreationKeeps

(* Each step of doCreateAndNotifyMatch advances one match.                 *)
LEMMA CreationStepKeeps ==
  ASSUME LobbyInv, NEW i \in DOMAIN matches,
         CheckReply(i) \/ CreateReply(i) \/ TicketsReply(i) \/ RoomReply(i)
  PROVE  LobbyInv'
<1>1. LobbyTypeOK /\ MatchInv
  BY DEF LobbyInv
<1>2. /\ matches[i] \in Matches /\ tickets \in [Sockets -> Tickets]
      /\ request \in [Sockets -> Requests] /\ pairing \subseteq Sockets /\ faults \in Nat
  BY <1>1 DEF LobbyTypeOK
<1>3. /\ matches[i].row \in BOOLEAN
      /\ matches[i].step \in {"check", "create"} => ~matches[i].row
      /\ matches[i].step \in {"tickets", "room", "done"} => matches[i].row
  BY <1>1, <1>2 DEF MatchInv, Matches
<1>4. ASSUME CheckReply(i) PROVE LobbyInv'
  <2>1. UNCHANGED <<joinVars, queueVars, requests, invites>> /\ matches[i].step = "check"
    BY <1>4 DEF CheckReply
  <2>2. CASE CreationFails(i, FALSE)
    BY <1>2, <1>3, <2>1, <2>2, FailureKeeps DEF queueVars
  <2>3. CASE Advance(i, "create") /\ UNCHANGED <<pairing, request, faults>>
    <3>1. GoesOn /\ matches' \in Seq(Matches)
      BY <1>1, <1>3, <2>1, <2>3, MatchGoesOn DEF Advance
    <3> QED
      BY <1>2, <2>1, <2>3, <3>1, CreationKeeps DEF queueVars
  <2> QED
    BY <1>4, <2>2, <2>3 DEF CheckReply
<1>5. ASSUME CreateReply(i) PROVE LobbyInv'
  <2>1. UNCHANGED <<joinVars, queueVars, requests, invites>> /\ matches[i].step = "create"
    BY <1>5 DEF CreateReply
  <2>2. CASE \E row \in BOOLEAN : CreationFails(i, row)
    BY <1>2, <1>3, <2>1, <2>2, FailureKeeps DEF queueVars
  <2>3. CASE /\ matches' = [matches EXCEPT ![i].step = "tickets", ![i].row = TRUE]
             /\ UNCHANGED <<pairing, request, faults>>
    <3>1. GoesOn /\ matches' \in Seq(Matches)
      BY <1>1, <1>3, <2>1, <2>3, MatchGoesOn
    <3> QED
      BY <1>2, <2>1, <2>3, <3>1, CreationKeeps DEF queueVars
  <2> QED
    BY <1>5, <2>2, <2>3 DEF CreateReply
<1>6. ASSUME TicketsReply(i) PROVE LobbyInv'
  <2>1. /\ UNCHANGED <<joinVars, queues, timers, cancels, requests, invites>>
        /\ matches[i].step = "tickets"
    BY <1>6 DEF TicketsReply
  <2>2. PICK marked : marked = [s \in Sockets |->
          IF s \in SocketsOf(matches[i]) /\ Public(matches[i]) /\ tickets[s] # None
          THEN "MATCHED" ELSE tickets[s]]
    OBVIOUS
  <2>3. /\ tickets' = tickets \/ tickets' = marked
        /\ \/ Advance(i, "room") /\ UNCHANGED <<pairing, request, faults>>
           \/ CreationFails(i, TRUE)
    BY <1>6, <2>2 DEF TicketsReply
  <2>4. marked \in [Sockets -> Tickets]
    BY <1>2, <2>2 DEF Tickets
  <2>5. \A s \in Sockets :
          /\ marked[s] = "CANCELLED" => tickets[s] = "CANCELLED"
          /\ marked[s] = "MATCHED" =>
               tickets[s] = "MATCHED" \/ (In(i, s) /\ matches[i].row)
    BY <1>3, <2>1, <2>2 DEF In
  <2>6. \A s \in Sockets :
          /\ tickets'[s] = "CANCELLED" => tickets[s] = "CANCELLED"
          /\ tickets'[s] = "MATCHED" =>
               \/ tickets[s] = "MATCHED"
               \/ \E j \in DOMAIN matches : In(j, s) /\ matches[j].row
    BY <2>3, <2>5
  <2>7. tickets' \in [Sockets -> Tickets]
    BY <1>2, <2>3, <2>4
  <2>8. CASE CreationFails(i, TRUE)
    BY <2>1, <2>6, <2>7, <2>8, FailureKeeps
  <2>9. CASE Advance(i, "room") /\ UNCHANGED <<pairing, request, faults>>
    <3>1. GoesOn /\ matches' \in Seq(Matches)
      BY <1>1, <1>3, <2>1, <2>9, MatchGoesOn DEF Advance
    <3> QED
      BY <1>2, <2>1, <2>6, <2>7, <2>9, <3>1, CreationKeeps
  <2> QED
    BY <2>3, <2>8, <2>9
<1>7. ASSUME RoomReply(i) PROVE LobbyInv'
  <2>1. UNCHANGED <<joinVars, queueVars, requests, invites>> /\ matches[i].step = "room"
    BY <1>7 DEF RoomReply
  <2>2. CASE CreationFails(i, TRUE)
    BY <1>2, <2>1, <2>2, FailureKeeps DEF queueVars
  <2>3. CASE Advance(i, "done") /\ Finish(i) /\ UNCHANGED <<pairing, faults>>
    <3>1. GoesOn /\ matches' \in Seq(Matches)
      BY <1>1, <1>3, <2>1, <2>3, MatchGoesOn DEF Advance
    <3>2. request' \in [Sockets -> Requests]
      BY <1>1, <2>3, FinishType
    <3> QED
      BY <1>2, <2>1, <2>3, <3>1, <3>2, CreationKeeps DEF queueVars
  <2> QED
    BY <1>7, <2>2, <2>3 DEF RoomReply
<1> QED
  BY <1>4, <1>5, <1>6, <1>7

-----------------------------------------------------------------------------
(* The invariant. *)

(* The invariant holds initially ...                                       *)
LEMMA InitLobby == Init => LobbyInv
<1> SUFFICES ASSUME Init PROVE LobbyInv
  OBVIOUS
<1>1. /\ clients = <<>> /\ stage = [s \in Sockets |-> "out"] /\ options \in Clienteles
      /\ known = {} /\ timers = {} /\ cancels = {} /\ pairing = {} /\ matches = <<>>
      /\ queues = [k \in QueueKeys |-> <<>>] /\ tickets = [s \in Sockets |-> None]
      /\ requests = [s \in Sockets |-> 0] /\ faults \in Nat
      /\ request = [s \in Sockets |-> NoRequest] /\ invites = [c \in Codes |-> Unused]
  BY LobbyAssumption DEF Init
<1>2. LobbyTypeOK
  BY <1>1 DEF LobbyTypeOK, Stages, Tickets, Requests, Invites
<1>3. \A s \in Sockets : ~Connected(s) /\ ~Queued(s) /\ ~Taken(s)
  BY <1>1 DEF Connected, Queued, Taken, Range
<1>4. \A s \in Sockets : ~Cancelled(s) /\ Fresh(s) /\ tickets[s] = None
  BY <1>1 DEF Cancelled, Fresh, None
<1>5. ClientsInv
  BY <1>1, <1>3 DEF ClientsInv, IsInjective
<1>6. LifeInv
  BY <1>3, <1>4 DEF LifeInv
<1>7. QueueInv
  BY <1>1, <1>3 DEF QueueInv, IsInjective, Range
<1>8. MatchInv
  BY <1>1, <1>4 DEF MatchInv, None
<1> QED
  BY <1>2, <1>5, <1>6, <1>7, <1>8 DEF LobbyInv

(* ... and every step preserves it.                                        *)
LEMMA NextLobby == LobbyInv /\ [Next]_vars => LobbyInv'
<1> SUFFICES ASSUME LobbyInv, [Next]_vars PROVE LobbyInv'
  OBVIOUS
<1>1. CASE UNCHANGED vars
  <2>1. UNCHANGED <<joinVars, queueVars, matches, pairing, request, requests, invites, faults>>
    BY <1>1 DEF vars, privateVars
  <2> QED
    BY <2>1, RequestTypes, RequestsKeep DEF LobbyInv
<1>2. CASE ClientStep
  <2>1. PICK s \in Sockets : Join(s) \/ Leave(s) \/ CreatePrivate(s) \/ JoinPrivate(s)
    BY <1>2 DEF ClientStep
  <2>2. CASE CreatePrivate(s) \/ JoinPrivate(s)
    BY <2>2, AskKeeps DEF CreatePrivate, JoinPrivate
  <2> QED
    BY <2>1, <2>2, JoinKeeps, LeaveKeeps
<1>3. CASE \E s \in Sockets : JoinStep(s) \/ RequestStep(s) \/ CancelReply(s) \/ FillWithBot(s)
  BY <1>3, AuthKeeps, TicketKeeps, ConfigKeeps, SaveKeeps, LoadKeeps, DeleteKeeps,
     CancelKeeps, FillKeeps DEF JoinStep, RequestStep
<1>4. CASE \E c \in Codes : Expire(c)
  BY <1>4, ExpireKeeps
<1>5. CASE CreationStep
  BY <1>5, CreationStepKeeps DEF CreationStep
<1> QED
  BY <1>1, <1>2, <1>3, <1>4, <1>5 DEF Next

(* Every socket goes once through the queue: fresh, queued, and then taken *)
(* by one match or cancelled.                                              *)
THEOREM LobbyInvariance == Spec => []LobbyInv
<1>1. LobbyInv /\ [Next]_vars => LobbyInv'
  BY NextLobby
<1> QED
  BY InitLobby, <1>1, PTL DEF Spec

(* onJoin: whatever the tabs of a user do, and whatever leaves or fails    *)
(* between two awaits, the user waits in one place of one queue.           *)
THEOREM QueueTheorem == Spec => []QueuedOnce
<1>1. LobbyInv => QueuedOnce
  <2> SUFFICES ASSUME LobbyInv, NEW k \in QueueKeys, NEW l \in QueueKeys,
                      NEW i \in DOMAIN queues[k], NEW j \in DOMAIN queues[l],
                      UserOf[queues[k][i]] = UserOf[queues[l][j]]
               PROVE  k = l /\ i = j
    BY DEF QueuedOnce
  <2>1. queues[k] \in Seq(Sockets) /\ queues[l] \in Seq(Sockets) /\ QueueInv
    BY DEF LobbyInv, LobbyTypeOK
  <2>2. queues[k][i] \in Sockets /\ queues[l][j] \in Sockets
    BY <2>1
  <2>3. queues[k][i] \in Range(queues[k]) /\ queues[l][j] \in Range(queues[l])
    BY DEF Range
  <2>4. queues[k][i] = queues[l][j]
    BY <2>1, <2>2, <2>3 DEF QueueInv, Queued
  <2>5. k = l
    BY <2>1, <2>3, <2>4 DEF QueueInv
  <2> QED
    BY <2>1, <2>4, <2>5 DEF QueueInv, IsInjective
<1> QED
  BY LobbyInvariance, <1>1, PTL

(* tryMatchRealPlayers and fillWithBot: an entry is in one match, and when *)
(* it is, it is out of the queue.                                          *)
THEOREM EntryTheorem == Spec => []OneMatchPerEntry
<1>1. LobbyInv => OneMatchPerEntry
  <2> SUFFICES ASSUME LobbyInv, NEW i \in DOMAIN matches, Public(matches[i]),
                      NEW s \in SocketsOf(matches[i])
               PROVE  /\ ~Queued(s)
                      /\ \A j \in DOMAIN matches \ {i} :
                           Public(matches[j]) => s \notin SocketsOf(matches[j])
    BY DEF OneMatchPerEntry
  <2>1. s \in Sockets
    <3>1. matches[i] \in Matches
      BY DEF LobbyInv, LobbyTypeOK
    <3> QED
      BY <3>1 DEF Matches, SocketsOf
  <2>2. In(i, s) /\ Taken(s)
    BY DEF In, Taken
  <2> QED
    BY <2>1, <2>2 DEF LobbyInv, LifeInv, MatchInv, In
<1> QED
  BY LobbyInvariance, <1>1, PTL

(* onLeave: who was noted and left is in no queue, and a bot timer runs    *)
(* only for who waits.                                                     *)
THEOREM LeaversTheorem == Spec => []LeaversAreOut
<1>1. LobbyInv => LeaversAreOut
  BY DEF LobbyInv, QueueInv, LeaversAreOut
<1> QED
  BY LobbyInvariance, <1>1, PTL

(* onLeave and createAndNotifyMatch: no ticket is cancelled whose entry a  *)
(* match took, though both write it, and none is matched before the row.   *)
THEOREM TicketTheorem == Spec => []TicketsTellTheTruth
<1>1. LobbyInv => TicketsTellTheTruth
  <2> SUFFICES ASSUME LobbyInv, NEW s \in Sockets
               PROVE  /\ tickets[s] = "CANCELLED" => ~Taken(s)
                      /\ tickets[s] = "MATCHED" =>
                           \E i \in DOMAIN matches : In(i, s) /\ matches[i].row
    BY DEF TicketsTellTheTruth, Taken, In
  <2> QED
    BY DEF LobbyInv, LifeInv, MatchInv, Cancelled
<1> QED
  BY LobbyInvariance, <1>1, PTL

-----------------------------------------------------------------------------
(* Invites. *)

(* Nothing new is reserved or paired: requests and matches only end, and   *)
(* who is no longer reserved has left or is held by nothing.               *)
Kept ==
  /\ UNCHANGED options
  /\ \A s \in Sockets : /\ stage[s] = "joined" => stage'[s] = "joined"
                        /\ stage[s] # "out" => stage'[s] # "out"
                        /\ Connected(s)' => Connected(s) \/ stage[s] = "out"
  /\ \A t \in Sockets : Deleting(t)' =>
       /\ Deleting(t) /\ request'[t] = request[t]
       /\ invites'[request[t].code] \in {invites[request[t].code], Deleted}
  /\ \A i \in DOMAIN matches' : ~Public(matches'[i]) =>
       /\ i \in DOMAIN matches /\ ~Public(matches[i]) /\ matches'[i].via = matches[i].via
       /\ SocketsOf(matches'[i]) = SocketsOf(matches[i])
       /\ matches'[i].step # "failed" => matches[i].step # "failed"
  /\ \A s \in Sockets : Connected(s)' /\ s \in pairing /\ s \notin pairing' =>
       /\ \A t \in Sockets : ~Reserves(t, s)'
       /\ \A i \in DOMAIN matches' : ~Pairs(i, s)'

(* What reserves a socket after a step that makes no reservation did so    *)
(* before.                                                                 *)
LEMMA HeldBefore ==
  ASSUME Kept
  PROVE  /\ \A t, s \in Sockets : Reserves(t, s)' => Reserves(t, s)
         /\ \A i \in DOMAIN matches', s \in Sockets :
              Pairs(i, s)' => i \in DOMAIN matches /\ Pairs(i, s)
<1>1. ASSUME NEW t \in Sockets, NEW s \in Sockets, Reserves(t, s)' PROVE Reserves(t, s)
  <2>1. Deleting(t)' /\ s \in {t, request'[t].peer}
    BY <1>1 DEF Reserves
  <2>2. Deleting(t) /\ request'[t] = request[t]
    BY <2>1 DEF Kept
  <2> QED
    BY <2>1, <2>2 DEF Reserves
<1>2. ASSUME NEW i \in DOMAIN matches', NEW s \in Sockets, Pairs(i, s)'
      PROVE  i \in DOMAIN matches /\ Pairs(i, s)
  <2>1. ~Public(matches'[i]) /\ matches'[i].step # "failed" /\ s \in SocketsOf(matches'[i])
    BY <1>2 DEF Pairs, Live
  <2> QED
    BY <2>1 DEF Kept, Pairs, Live
<1> QED
  BY <1>1, <1>2

(* So each socket is still reserved for one thing.                         *)
LEMMA HoldKept ==
  ASSUME InviteInv, HostInv, PairInv, HoldInv, Kept
  PROVE  HoldInv'
<1> SUFFICES ASSUME NEW s \in Sockets, Connected(s)'
             PROVE  /\ \A t \in Sockets : Reserves(t, s)' => s \in pairing'
                    /\ \A i \in DOMAIN matches' : Pairs(i, s)' => s \in pairing'
                    /\ \A t, u \in Sockets : Reserves(t, s)' /\ Reserves(u, s)' => t = u
                    /\ \A t \in Sockets, i \in DOMAIN matches' :
                         Reserves(t, s)' => ~Pairs(i, s)'
                    /\ \A i, j \in DOMAIN matches' : Pairs(i, s)' /\ Pairs(j, s)' => i = j
  BY DEF HoldInv
<1>1. CASE stage[s] = "out"
  <2>1. \A t \in Sockets : ~Reserves(t, s)
    <3>1. \A t \in Sockets : Deleting(t) => t # s /\ request[t].peer # s
      BY <1>1 DEF InviteInv, HostInv, Deleting, NoRequest, None
    <3> QED
      BY <3>1 DEF Reserves
  <2>2. \A i \in DOMAIN matches : ~Pairs(i, s)
    BY <1>1 DEF PairInv
  <2> QED
    BY <2>1, <2>2, HeldBefore
<1>2. CASE Connected(s)
  <2>1. \A t \in Sockets : Reserves(t, s)' => s \in pairing'
    BY <1>2, HeldBefore DEF HoldInv, Kept
  <2>2. \A i \in DOMAIN matches' : Pairs(i, s)' => s \in pairing'
    BY <1>2, HeldBefore DEF HoldInv, Kept
  <2> QED
    BY <1>2, <2>1, <2>2, HeldBefore DEF HoldInv
<1> QED
  BY <1>1, <1>2 DEF Kept

(* The host of an invite being deleted stays its host.                     *)
LEMMA HostKept ==
  ASSUME LobbyTypeOK, HostInv, Kept
  PROVE  HostInv'
<1> SUFFICES ASSUME NEW s \in Sockets, Deleting(s)'
             PROVE  /\ request'[s].peer \in Sockets /\ options'[request'[s].peer].asks > 0
                    /\ stage'[request'[s].peer] # "out"
                    /\ invites'[request'[s].code] # Deleted =>
                         invites'[request'[s].code].user = UserOf[request'[s].peer]
                    /\ \A t \in Sockets :
                         Deleting(t)' /\ request'[t].code = request'[s].code => s = t
                    /\ \A i \in DOMAIN matches' :
                         ~Public(matches'[i]) => matches'[i].via # request'[s].code
  BY DEF HostInv, Asks
<1>1. /\ Deleting(s) /\ request'[s] = request[s]
      /\ invites'[request[s].code] \in {invites[request[s].code], Deleted}
  BY DEF Kept
<1>2. /\ request[s].peer \in Sockets /\ Asks(request[s].peer)
      /\ stage[request[s].peer] # "out"
      /\ invites[request[s].code] # Deleted =>
           invites[request[s].code].user = UserOf[request[s].peer]
      /\ \A t \in Sockets : Deleting(t) /\ request[t].code = request[s].code => s = t
      /\ \A i \in DOMAIN matches : ~Public(matches[i]) => matches[i].via # request[s].code
  BY <1>1 DEF HostInv
<1>3. options'[request[s].peer].asks > 0 /\ stage'[request[s].peer] # "out"
  BY <1>2 DEF Kept, Asks
<1>4. \A t \in Sockets : Deleting(t)' /\ request'[t].code = request[s].code => s = t
  BY <1>2 DEF Kept
<1>5. \A i \in DOMAIN matches' : ~Public(matches'[i]) => matches'[i].via # request[s].code
  BY <1>2 DEF Kept
<1> QED
  BY <1>1, <1>2, <1>3, <1>4, <1>5

(* Private matches stay apart when none is made.                           *)
LEMMA PairKept ==
  ASSUME PairInv, Kept
  PROVE  PairInv'
<1>1. \A i \in DOMAIN matches' : \A s \in Sockets : Pairs(i, s)' => Asks(s)' /\ stage'[s] # "out"
  BY HeldBefore DEF PairInv, Kept, Asks
<1>2. \A i, j \in DOMAIN matches' :
        ~Public(matches'[i]) /\ ~Public(matches'[j]) /\ matches'[i].via = matches'[j].via => i = j
  BY DEF PairInv, Kept
<1> QED
  BY <1>1, <1>2 DEF PairInv

(* Requests end or go on, and invites are deleted; no request begins.      *)
InvitesGoOn ==
  /\ UNCHANGED options
  /\ \A s \in Sockets : stage[s] = "joined" => stage'[s] = "joined"
  /\ \A t \in Sockets : request'[t] # NoRequest =>
       /\ request[t] # NoRequest /\ request'[t].code = request[t].code
       /\ request'[t].step = "saving" <=> request[t].step = "saving"
  /\ \A c \in Codes : \/ invites'[c] = invites[c]
                      \/ invites[c] # Unused /\ invites'[c] = Deleted
  /\ \A i \in DOMAIN matches' : ~Public(matches'[i]) =>
       \/ invites'[matches'[i].via] = Deleted
       \/ i \in DOMAIN matches /\ ~Public(matches[i]) /\ matches'[i].via = matches[i].via

(* A request that is under way has a code.                                 *)
LEMMA CodeOfRequest ==
  ASSUME LobbyTypeOK, NEW s \in Sockets, request[s] # NoRequest
  PROVE  request[s].code \in Codes /\ request[s].step # None
<1>1. request[s] \in Requests
  BY DEF LobbyTypeOK
<1> QED
  BY <1>1 DEF Requests, None

(* A private match has a code.                                             *)
LEMMA CodeOfMatch ==
  ASSUME LobbyTypeOK, NEW i \in DOMAIN matches, ~Public(matches[i])
  PROVE  matches[i].via \in Codes /\ matches[i].p1 \in Sockets
<1>1. matches[i] \in Matches
  BY DEF LobbyTypeOK
<1> QED
  BY <1>1 DEF Matches, Public

(* The marks of unused, deleted and absent things differ.                  *)
LEMMA Distinct == Unused # Deleted /\ NoRequest.step = None /\ NoRequest.code = None
BY DEF Unused, Deleted, NoRequest, None

(* An invite keeps its creator.                                            *)
LEMMA InviteKept ==
  ASSUME LobbyTypeOK, InviteInv, InvitesGoOn
  PROVE  InviteInv'
<1>1. \A s \in Sockets : request'[s] # NoRequest => stage'[s] = "joined" /\ Asks(s)'
  BY DEF InviteInv, InvitesGoOn, Asks
<1>2. \A c \in Codes : invites'[c] \notin {Unused, Deleted} =>
        \E s \in Sockets : Asks(s)' /\ invites'[c].user = UserOf[s]
  BY DEF InviteInv, InvitesGoOn, Asks
<1>3. ASSUME NEW s \in Sockets, request'[s] # NoRequest
      PROVE  request'[s].step = "saving" <=> invites'[request'[s].code] = Unused
  <2>1. /\ request[s] # NoRequest /\ request'[s].code = request[s].code
        /\ request'[s].step = "saving" <=> request[s].step = "saving"
    BY <1>3 DEF InvitesGoOn
  <2>2. request[s].code \in Codes
    BY <2>1, CodeOfRequest
  <2>3. request[s].step = "saving" <=> invites[request[s].code] = Unused
    BY <2>1 DEF InviteInv
  <2>4. invites'[request[s].code] = Unused <=> invites[request[s].code] = Unused
    BY <2>2, Distinct DEF InvitesGoOn
  <2> QED
    BY <2>1, <2>3, <2>4
<1>4. ASSUME NEW s \in Sockets, NEW t \in Sockets, request'[s].step = "saving",
             request'[t] # NoRequest, request'[t].code = request'[s].code
      PROVE  s = t
  <2>1. request'[s] # NoRequest
    BY <1>4, Distinct DEF None
  <2>2. /\ request[s].step = "saving" /\ request[t] # NoRequest
        /\ request[t].code = request[s].code
    BY <1>4, <2>1 DEF InvitesGoOn
  <2> QED
    BY <2>2 DEF InviteInv
<1>5. ASSUME NEW i \in DOMAIN matches', ~Public(matches'[i])
      PROVE  invites'[matches'[i].via] = Deleted
  <2>1. CASE i \in DOMAIN matches /\ ~Public(matches[i]) /\ matches'[i].via = matches[i].via
    <3>1. matches[i].via \in Codes /\ invites[matches[i].via] = Deleted
      BY <2>1, CodeOfMatch DEF InviteInv
    <3> QED
      BY <2>1, <3>1 DEF InvitesGoOn
  <2> QED
    BY <1>5, <2>1 DEF InvitesGoOn
<1> QED
  BY <1>1, <1>2, <1>3, <1>4, <1>5 DEF InviteInv

(* An action that keeps what is held, and starts no request.               *)
LEMMA PrivateKept ==
  ASSUME LobbyTypeOK, PrivateInv, Kept, InvitesGoOn
  PROVE  PrivateInv'
BY HostKept, PairKept, HoldKept, InviteKept DEF PrivateInv

(* Whoever joins, leaves or queues.                                        *)
Stays ==
  /\ UNCHANGED <<options, request, invites>>
  /\ \A s \in Sockets : /\ stage[s] = "joined" => stage'[s] = "joined"
                        /\ stage[s] # "out" => stage'[s] # "out"
                        /\ Connected(s)' => stage[s] = "out" \/ Connected(s)
                        /\ Connected(s)' /\ s \in pairing => s \in pairing'
  /\ \A i \in DOMAIN matches' : ~Public(matches'[i]) =>
       i \in DOMAIN matches /\ matches'[i] = matches[i]

(* A step that reserves nothing and makes no private match keeps           *)
(* PrivateInv.                                                             *)
LEMMA StaysKeeps ==
  ASSUME LobbyTypeOK, PrivateInv, Stays
  PROVE  PrivateInv'
<1>1. Kept
  BY DEF Stays, Kept, Deleting, SocketsOf
<1>2. InvitesGoOn
  BY DEF Stays, InvitesGoOn
<1> QED
  BY <1>1, <1>2, PrivateKept

(* A departure keeps the others connected and reserved.                    *)
LEMMA DepartsStays ==
  ASSUME NEW s \in Sockets, Departs(s)
  PROVE  \A t \in Sockets : /\ Connected(t)' => Connected(t)
                            /\ Connected(t)' /\ t \in pairing => t \in pairing'
BY DEF Departs, Connected

(* A refused join lets go of the refused socket only.                      *)
LEMMA JoinFailsStays ==
  ASSUME LobbyInv, NEW s \in Sockets, JoinFails(s), stage[s] \notin {"out", "joined"},
         UNCHANGED <<options, request, invites, matches>>
  PROVE  Stays
<1>1. stage' = [stage EXCEPT ![s] = "failed"] /\ stage \in [Sockets -> Stages]
  BY DEF JoinFails, LobbyInv, LobbyTypeOK
<1>2. \A t \in Sockets : /\ stage[t] = "joined" => stage'[t] = "joined"
                         /\ stage[t] # "out" => stage'[t] # "out"
  BY <1>1
<1>3. CASE Connected(s)
  <2>1. Departs(s)
    BY <1>3, Departure DEF JoinFails, LobbyInv
  <2> QED
    BY <1>2, <2>1, DepartsStays DEF Stays
<1>4. CASE ~Connected(s)
  <2>1. UNCHANGED <<clients, pairing>>
    BY <1>4 DEF JoinFails
  <2> QED
    BY <1>2, <2>1 DEF Stays, Connected
<1> QED
  BY <1>3, <1>4

(* The stage of a client moves on, and clients are dropped at most.        *)
LEMMA MovesStays ==
  ASSUME LobbyInv, NEW s \in Sockets, NEW x \in {"ticket", "config", "joined"},
         stage[s] \notin {"out", "joined"}, stage' = [stage EXCEPT ![s] = x],
         clients' = clients \/ clients' = Without(clients, s),
         UNCHANGED <<options, request, invites, pairing>>,
         \A i \in DOMAIN matches' : ~Public(matches'[i]) =>
           i \in DOMAIN matches /\ matches'[i] = matches[i]
  PROVE  Stays
<1>1. stage \in [Sockets -> Stages]
  BY DEF LobbyInv, LobbyTypeOK
<1>2. \A t \in Sockets : /\ stage[t] = "joined" => stage'[t] = "joined"
                         /\ stage[t] # "out" => stage'[t] # "out"
  BY <1>1
<1>3. \A t \in Sockets : Connected(t)' => Connected(t)
  BY WithoutProperties DEF Connected, LobbyInv, LobbyTypeOK, ClientsInv
<1> QED
  BY <1>2, <1>3 DEF Stays

(* The handlers of the public queue leave reservations and invites alone.  *)
LEMMA PublicStays ==
  ASSUME LobbyInv, NEW s \in Sockets,
         \/ Join(s) \/ Leave(s) \/ JoinStep(s) \/ CancelReply(s) \/ FillWithBot(s)
  PROVE  Stays
<1>1. ASSUME Join(s) PROVE Stays
  <2>1. /\ stage[s] = "out" /\ stage' = [stage EXCEPT ![s] = "auth"]
        /\ clients' = Append(clients, s)
        /\ UNCHANGED <<options, request, invites, pairing, matches>>
    BY <1>1 DEF Join, privateVars
  <2>2. clients \in Seq(Sockets) /\ stage \in [Sockets -> Stages]
    BY DEF LobbyInv, LobbyTypeOK
  <2>3. \A t \in Sockets : Connected(t)' => stage[t] = "out" \/ Connected(t)
    BY <2>1, <2>2, AppendProperties2 DEF Connected
  <2> QED
    BY <2>1, <2>2, <2>3 DEF Stays
<1>2. ASSUME Leave(s) PROVE Stays
  <2>1. Departs(s) /\ UNCHANGED <<stage, options, request, invites, matches>>
    BY <1>2, Departure DEF Leave, LobbyInv
  <2> QED
    BY <2>1, DepartsStays DEF Stays
<1>3. ASSUME AuthReply(s) PROVE Stays
  <2>1. stage[s] = "auth" /\ UNCHANGED <<options, request, invites, matches>>
    BY <1>3 DEF AuthReply
  <2>2. CASE JoinFails(s)
    BY <2>1, <2>2, JoinFailsStays
  <2>3. CASE ~JoinFails(s)
    <3>1. PICK x \in {"ticket", "joined"} : stage' = [stage EXCEPT ![s] = x]
      BY <1>3, <2>3 DEF AuthReply
    <3>2. (clients' = clients \/ clients' = Without(clients, s)) /\ UNCHANGED pairing
      BY <1>3, <2>3 DEF AuthReply
    <3> QED
      BY <2>1, <3>1, <3>2, MovesStays
  <2> QED
    BY <2>2, <2>3
<1>4. ASSUME TicketReply(s) PROVE Stays
  <2>1. stage[s] = "ticket" /\ UNCHANGED <<options, request, invites>>
    BY <1>4 DEF TicketReply
  <2>2. CASE JoinFails(s) /\ UNCHANGED matches
    BY <2>1, <2>2, JoinFailsStays
  <2>3. CASE /\ stage' = [stage EXCEPT ![s] = "config"] /\ TryMatchRealPlayers(Key(s))
             /\ UNCHANGED <<clients, pairing>>
    <3>1. Key(s) \in QueueKeys
      BY OptionsType DEF LobbyInv
    <3>2. PICK R \in SUBSET Sockets :
            /\ Grows(R)
            /\ \A i \in DOMAIN matches' \ DOMAIN matches : Public(matches'[i])
      BY <2>3, <3>1, PairsOff
    <3>3. \A i \in DOMAIN matches' : ~Public(matches'[i]) =>
            i \in DOMAIN matches /\ matches'[i] = matches[i]
      BY <3>2 DEF Grows
    <3> QED
      BY <2>1, <2>3, <3>3, MovesStays
  <2> QED
    BY <1>4, <2>2, <2>3 DEF TicketReply
<1>5. ASSUME ConfigReply(s) PROVE Stays
  <2>1. stage[s] = "config" /\ UNCHANGED <<options, request, invites, matches>>
    BY <1>5 DEF ConfigReply
  <2>2. CASE JoinFails(s)
    BY <2>1, <2>2, JoinFailsStays
  <2>3. CASE stage' = [stage EXCEPT ![s] = "joined"] /\ UNCHANGED <<clients, pairing>>
    BY <2>1, <2>3, MovesStays
  <2> QED
    BY <1>5, <2>2, <2>3 DEF ConfigReply
<1>6. ASSUME CancelReply(s) PROVE Stays
  BY <1>6 DEF CancelReply, joinVars, privateVars, Stays, Connected
<1>7. ASSUME FillWithBot(s) PROVE Stays
  <2>1. UNCHANGED <<clients, stage, options, request, invites, pairing>>
    BY <1>7 DEF FillWithBot, joinVars, privateVars
  <2>2. CASE UNCHANGED matches
    BY <2>1, <2>2 DEF Stays, Connected
  <2>3. CASE matches' = Append(matches, NewMatch(s, Bot, "bot"))
    <3>1. /\ NewMatch(s, Bot, "bot") \in Matches /\ NewMatch(s, Bot, "bot").step = "check"
          /\ NewMatch(s, Bot, "bot").row = FALSE /\ Public(NewMatch(s, Bot, "bot"))
      BY DEF NewMatch, Matches, Public
    <3>2. \A t \in Sockets :
            Public(NewMatch(s, Bot, "bot")) /\ t \in SocketsOf(NewMatch(s, Bot, "bot")) =>
              t \in Sockets
      OBVIOUS
    <3>3. LobbyTypeOK
      BY DEF LobbyInv
    <3>4. /\ Grows(Sockets)
          /\ \A i \in DOMAIN matches' \ DOMAIN matches :
               matches'[i] = NewMatch(s, Bot, "bot")
      BY <2>3, <3>1, <3>2, <3>3, OneMore
    <3>5. \A i \in DOMAIN matches' : ~Public(matches'[i]) =>
            i \in DOMAIN matches /\ matches'[i] = matches[i]
      BY <3>1, <3>4 DEF Grows
    <3> QED
      BY <2>1, <3>5 DEF Stays, Connected
  <2> QED
    BY <1>7, <2>2, <2>3 DEF FillWithBot
<1> QED
  BY <1>1, <1>2, <1>3, <1>4, <1>5, <1>6, <1>7 DEF JoinStep

(* Private requests leave clients, stages and options alone.               *)
LEMMA RequestFrame ==
  ASSUME UNCHANGED <<joinVars, queueVars>>
  PROVE  /\ UNCHANGED <<clients, stage, options>>
         /\ \A s \in Sockets : Connected(s)' <=> Connected(s)
BY DEF joinVars, Connected

(* A request that is over: Kept and InvitesGoOn hold, if invites are       *)
(* deleted at most.                                                        *)
LEMMA EndKeeps ==
  ASSUME LobbyTypeOK, PrivateInv, NEW s \in Sockets, EndRequest(s),
         UNCHANGED <<joinVars, queueVars, pairing, matches>>,
         \A c \in Codes : \/ invites'[c] = invites[c]
                          \/ invites[c] # Unused /\ invites'[c] = Deleted
  PROVE  PrivateInv'
<1>1. request' = [request EXCEPT ![s] = NoRequest] /\ request \in [Sockets -> Requests]
  BY RequestTypes DEF EndRequest
<1>2. \A t \in Sockets : request'[t] = IF t = s THEN NoRequest ELSE request[t]
  BY <1>1
<1>3. ASSUME NEW t \in Sockets, Deleting(t)'
      PROVE  /\ Deleting(t) /\ request'[t] = request[t]
             /\ invites'[request[t].code] \in {invites[request[t].code], Deleted}
  <2>1. request'[t] = request[t] /\ Deleting(t)
    BY <1>2, <1>3, Distinct DEF Deleting, None
  <2>2. request[t].code \in Codes
    BY <2>1, CodeOfRequest, Distinct DEF Deleting, None
  <2> QED
    BY <2>1, <2>2
<1>4. Kept
  BY <1>3, RequestFrame DEF Kept
<1>5. InvitesGoOn
  BY <1>2, RequestFrame DEF InvitesGoOn
<1> QED
  BY <1>4, <1>5, PrivateKept

(* An invite that expires is nobody's.                                     *)
LEMMA ExpirePrivate ==
  ASSUME LobbyTypeOK, PrivateInv, NEW c \in Codes, Expire(c)
  PROVE  PrivateInv'
<1>1. /\ invites[c] # Unused /\ invites' = [invites EXCEPT ![c] = Deleted]
      /\ UNCHANGED <<joinVars, queueVars, pairing, request, matches>>
      /\ invites \in [Codes -> Invites]
  BY RequestTypes DEF Expire
<1>2. \A d \in Codes : \/ invites'[d] = invites[d]
                       \/ invites[d] # Unused /\ invites'[d] = Deleted
  BY <1>1
<1>3. \A t \in Sockets : Deleting(t) => request[t].code \in Codes
  BY CodeOfRequest, Distinct DEF Deleting, None
<1>4. Kept
  BY <1>1, <1>2, <1>3, RequestFrame DEF Kept, Deleting
<1>5. InvitesGoOn
  BY <1>1, <1>2, RequestFrame DEF InvitesGoOn
<1> QED
  BY <1>4, <1>5, PrivateKept

(* Who asks waits for one answer.                                          *)
LEMMA AskPrivate ==
  ASSUME LobbyTypeOK, PrivateInv, NEW s \in Sockets, NEW c \in Codes,
         NEW x \in {"saving", "loading"}, PrivateRequest(s, x, c),
         x = "saving" => invites[c] = Unused /\ \A t \in Sockets : request[t].code # c,
         x = "loading" => invites[c] # Unused
  PROVE  PrivateInv'
<1>1. /\ stage[s] = "joined" /\ request[s] = NoRequest /\ requests[s] < options[s].asks
      /\ request' = [request EXCEPT ![s] = [step |-> x, code |-> c, peer |-> None]]
      /\ UNCHANGED <<joinVars, queueVars, pairing, invites, matches>>
      /\ request \in [Sockets -> Requests]
  BY RequestTypes DEF PrivateRequest, MayRequest
<1>2. Asks(s)
  BY <1>1, OptionsType DEF Asks, LobbyTypeOK
<1>3. /\ \A t \in Sockets : t # s => request'[t] = request[t]
      /\ request'[s].step = x /\ request'[s].code = c
  BY <1>1
<1>4. UNCHANGED <<clients, stage, options>> /\ \A t \in Sockets : Connected(t)' <=> Connected(t)
  BY <1>1, RequestFrame
<1>5. Kept
  <2>1. \A t \in Sockets : Deleting(t)' => Deleting(t) /\ request'[t] = request[t]
    BY <1>3 DEF Deleting
  <2> QED
    BY <1>1, <1>4, <2>1 DEF Kept
<1>6. HostInv' /\ PairInv' /\ HoldInv'
  BY <1>5, HostKept, PairKept, HoldKept DEF PrivateInv
<1>7. InviteInv
  BY DEF PrivateInv
<1>8. \A t \in Sockets : request'[t] # NoRequest => stage'[t] = "joined" /\ Asks(t)'
  BY <1>1, <1>2, <1>3, <1>4, <1>7 DEF InviteInv, Asks
<1>9. \A d \in Codes : invites'[d] \notin {Unused, Deleted} =>
        \E t \in Sockets : Asks(t)' /\ invites'[d].user = UserOf[t]
  BY <1>1, <1>4, <1>7 DEF InviteInv, Asks
<1>10. \A t \in Sockets : request'[t] # NoRequest =>
         (request'[t].step = "saving" <=> invites'[request'[t].code] = Unused)
  BY <1>1, <1>3, <1>7 DEF InviteInv
<1>11. ASSUME NEW t \in Sockets, NEW u \in Sockets, request'[t].step = "saving",
              request'[u] # NoRequest, request'[u].code = request'[t].code
       PROVE  t = u
  <2>1. CASE t # s /\ u # s
    BY <1>3, <1>7, <1>11, <2>1 DEF InviteInv
  <2>2. CASE t = s /\ u # s
    BY <1>3, <1>11, <2>2
  <2>3. CASE t # s /\ u = s
    <3>1. request[t].step = "saving" /\ request[t].code = c
      BY <1>3, <1>11, <2>3
    <3>2. request[t] # NoRequest
      BY <3>1, Distinct DEF None
    <3>3. invites[c] = Unused
      BY <1>7, <3>1, <3>2 DEF InviteInv
    <3> QED
      BY <3>1, <3>3
  <2> QED
    BY <2>1, <2>2, <2>3
<1>12. \A i \in DOMAIN matches' : ~Public(matches'[i]) => invites'[matches'[i].via] = Deleted
  BY <1>1, <1>7 DEF InviteInv
<1>13. InviteInv'
  BY <1>8, <1>9, <1>10, <1>11, <1>12 DEF InviteInv
<1> QED
  BY <1>6, <1>13 DEF PrivateInv

(* A new invite has the code nobody else has.                              *)
LEMMA SavePrivate ==
  ASSUME LobbyTypeOK, PrivateInv, NEW s \in Sockets, SaveReply(s)
  PROVE  PrivateInv'
<1>1. PICK i : i = [user |-> UserOf[s], key |-> Key(s)]
  OBVIOUS
<1>2. PICK c : c = request[s].code
  OBVIOUS
<1>3. /\ request[s].step = "saving" /\ request' = [request EXCEPT ![s] = NoRequest]
      /\ UNCHANGED <<joinVars, queueVars, pairing, matches>>
      /\ invites' = [invites EXCEPT ![c] = i] \/ invites' = [invites EXCEPT ![c] = Deleted]
      /\ request \in [Sockets -> Requests] /\ invites \in [Codes -> Invites]
  BY <1>1, <1>2, RequestTypes DEF SaveReply, EndRequest
<1>4. request[s] # NoRequest /\ c \in Codes
  BY <1>2, <1>3, CodeOfRequest, Distinct DEF None
<1>5. InviteInv
  BY DEF PrivateInv
<1>6. invites[c] = Unused /\ Asks(s)
  BY <1>2, <1>3, <1>4, <1>5 DEF InviteInv
<1>7. i # Unused /\ i.user = UserOf[s]
  <2>1. i.key \in QueueKeys /\ Unused.key = "unused"
    BY <1>1, OptionsType DEF Unused
  <2> QED
    BY <1>1, <2>1, LobbyAssumption
<1>8. invites'[c] \in {i, Deleted} /\ \A d \in Codes : d # c => invites'[d] = invites[d]
  BY <1>3, <1>4
<1>9. \A t \in Sockets : request'[t] = IF t = s THEN NoRequest ELSE request[t]
  BY <1>3
<1>10. \A t \in Sockets : t # s /\ request[t] # NoRequest => request[t].code # c
  BY <1>2, <1>3, <1>5 DEF InviteInv
<1>11. UNCHANGED <<clients, stage, options>> /\ \A t \in Sockets : Connected(t)' <=> Connected(t)
  BY <1>3, RequestFrame
<1>12. ASSUME NEW t \in Sockets, Deleting(t)'
       PROVE  /\ Deleting(t) /\ request'[t] = request[t]
              /\ invites'[request[t].code] \in {invites[request[t].code], Deleted}
  <2>1. t # s /\ request'[t] = request[t] /\ Deleting(t)
    BY <1>9, <1>12, Distinct DEF Deleting, None
  <2>2. request[t] # NoRequest
    BY <2>1, Distinct DEF Deleting, None
  <2>3. request[t].code \in Codes /\ request[t].code # c
    BY <1>10, <2>1, <2>2, CodeOfRequest
  <2> QED
    BY <1>8, <2>1, <2>3
<1>13. Kept
  BY <1>3, <1>11, <1>12 DEF Kept
<1>14. HostInv' /\ PairInv' /\ HoldInv'
  BY <1>13, HostKept, PairKept, HoldKept DEF PrivateInv
<1>15. \A t \in Sockets : request'[t] # NoRequest => stage'[t] = "joined" /\ Asks(t)'
  BY <1>5, <1>9, <1>11 DEF InviteInv, Asks
<1>16. \A d \in Codes : invites'[d] \notin {Unused, Deleted} =>
         \E t \in Sockets : Asks(t)' /\ invites'[d].user = UserOf[t]
  BY <1>5, <1>6, <1>7, <1>8, <1>11 DEF InviteInv, Asks
<1>17. ASSUME NEW t \in Sockets, request'[t] # NoRequest
       PROVE  request'[t].step = "saving" <=> invites'[request'[t].code] = Unused
  <2>1. t # s /\ request'[t] = request[t] /\ request[t].code \in Codes /\ request[t].code # c
    BY <1>9, <1>10, <1>17, CodeOfRequest
  <2> QED
    BY <1>5, <1>8, <1>17, <2>1 DEF InviteInv
<1>18. \A t, u \in Sockets :
         /\ request'[t].step = "saving" /\ request'[u] # NoRequest
         /\ request'[u].code = request'[t].code
         => t = u
  BY <1>5, <1>9, Distinct DEF InviteInv, None
<1>19. ASSUME NEW j \in DOMAIN matches', ~Public(matches'[j])
       PROVE  invites'[matches'[j].via] = Deleted
  <2>1. /\ j \in DOMAIN matches /\ matches'[j] = matches[j] /\ ~Public(matches[j])
        /\ matches[j].via \in Codes
    BY <1>3, <1>19, CodeOfMatch
  <2>2. invites[matches[j].via] = Deleted
    BY <1>5, <2>1 DEF InviteInv
  <2> QED
    BY <1>6, <1>8, <2>1, <2>2, Distinct
<1>20. InviteInv'
  BY <1>15, <1>16, <1>17, <1>18, <1>19 DEF InviteInv
<1> QED
  BY <1>14, <1>20 DEF PrivateInv

(* The socket of a user who asks privately is the only one that came.      *)
LEMMA OneSocket ==
  ASSUME SingleHosts, LobbyTypeOK, ClientsInv, NEW s \in Sockets, NEW t \in Sockets,
         Asks(s), UserOf[t] = UserOf[s], stage[t] # "out"
  PROVE  t = s
BY DEF SingleHosts, LobbyTypeOK, ClientsInv, Asks

(* Both sockets are free when they are reserved.                           *)
LEMMA ReservePrivate ==
  ASSUME SingleHosts, LobbyTypeOK, ClientsInv, PrivateInv, NEW s \in Sockets,
         NEW h \in Sockets, NEW c \in Codes, c = request[s].code,
         request[s].step = "loading", invites[c] \notin {Unused, Deleted},
         Connected(h), UserOf[h] = invites[c].user, h \notin pairing, s \notin pairing,
         pairing' = pairing \cup {h, s},
         request' = [request EXCEPT ![s].step = "deleting", ![s].peer = h],
         UNCHANGED <<joinVars, queueVars, invites, matches>>
  PROVE  PrivateInv'
<1>1. request \in [Sockets -> Requests] /\ request[s] # NoRequest
  BY RequestTypes, Distinct DEF None
<1>2. InviteInv /\ HostInv /\ PairInv /\ HoldInv
  BY DEF PrivateInv
<1>3. PICK r : r = [request[s] EXCEPT !.step = "deleting", !.peer = h]
  OBVIOUS
<1>4. r.step = "deleting" /\ r.peer = h /\ r.code = c
  <2>1. request[s] \in [step : {"saving", "loading"}, code : Codes, peer : {None}]
    <3>1. request[s] \in Requests
      BY <1>1
    <3> QED
      BY <1>1, <3>1 DEF Requests
  <2> QED
    BY <1>3, <2>1
<1>5. \A t \in Sockets : request'[t] = IF t = s THEN r ELSE request[t]
  BY <1>1, <1>3
<1>6. UNCHANGED <<clients, stage, options>> /\ \A t \in Sockets : Connected(t)' <=> Connected(t)
  BY RequestFrame
<1>7. stage[h] # "out"
  BY DEF ClientsInv
<1>8. PICK g \in Sockets : Asks(g) /\ invites[c].user = UserOf[g]
  BY <1>2 DEF InviteInv
<1>9. g = h
  BY <1>7, <1>8, OneSocket
<1>10. ~Deleting(s) /\ \A t \in Sockets : Deleting(t) => request[t].code # c
  <2>1. ASSUME NEW t \in Sockets, Deleting(t), request[t].code = c PROVE FALSE
    <3>1. /\ request[t].peer \in Sockets /\ stage[request[t].peer] # "out"
          /\ UserOf[request[t].peer] = UserOf[h]
      BY <1>2, <2>1 DEF HostInv
    <3>2. request[t].peer = h
      BY <1>8, <1>9, <3>1, OneSocket
    <3>3. h \in pairing
      BY <1>2, <2>1, <3>2 DEF HoldInv, Reserves
    <3> QED
      BY <3>3
  <2> QED
    BY <2>1 DEF Deleting
<1>11. InvitesGoOn
  BY <1>1, <1>4, <1>5, <1>6 DEF InvitesGoOn
<1>12. InviteInv'
  BY <1>2, <1>11, InviteKept
<1>13. HostInv'
  <2> SUFFICES ASSUME NEW t \in Sockets, Deleting(t)'
               PROVE  /\ request'[t].peer \in Sockets /\ options'[request'[t].peer].asks > 0
                      /\ stage'[request'[t].peer] # "out"
                      /\ invites'[request'[t].code] # Deleted =>
                           invites'[request'[t].code].user = UserOf[request'[t].peer]
                      /\ \A u \in Sockets :
                           Deleting(u)' /\ request'[u].code = request'[t].code => t = u
                      /\ \A i \in DOMAIN matches' :
                           ~Public(matches'[i]) => matches'[i].via # request'[t].code
    BY DEF HostInv, Asks
  <2>1. \A u \in Sockets : u # s /\ Deleting(u)' =>
          Deleting(u) /\ request'[u] = request[u] /\ request[u].code # c
    BY <1>5, <1>10 DEF Deleting
  <2>2. CASE t = s
    <3>1. request'[t] = r
      BY <1>5, <2>2
    <3>2. \A u \in Sockets : Deleting(u)' /\ request'[u].code = c => t = u
      BY <2>1, <2>2
    <3>3. \A i \in DOMAIN matches : ~Public(matches[i]) => matches[i].via # c
      BY <1>2 DEF InviteInv
    <3> QED
      BY <1>4, <1>6, <1>7, <1>8, <1>9, <3>1, <3>2, <3>3 DEF Asks
  <2>3. CASE t # s
    <3>1. Deleting(t) /\ request'[t] = request[t] /\ request[t].code # c
      BY <2>1, <2>3
    <3>2. \A u \in Sockets : Deleting(u)' /\ request'[u].code = request[t].code => t = u
      BY <1>2, <1>4, <1>5, <2>1, <3>1 DEF HostInv
    <3> QED
      BY <1>2, <1>6, <3>1, <3>2, ZenonT(30) DEF HostInv, Asks
  <2> QED
    BY <2>2, <2>3
<1>14. \A i \in DOMAIN matches : \A t \in Sockets : Pairs(i, t)' <=> Pairs(i, t)
  BY DEF Pairs, Live, SocketsOf
<1>15. PairInv'
  BY <1>2, <1>6, <1>14 DEF PairInv, Asks
<1>16. HoldInv'
  <2> SUFFICES ASSUME NEW x \in Sockets, Connected(x)
               PROVE  /\ \A t \in Sockets : Reserves(t, x)' => x \in pairing'
                      /\ \A i \in DOMAIN matches' : Pairs(i, x)' => x \in pairing'
                      /\ \A t, u \in Sockets : Reserves(t, x)' /\ Reserves(u, x)' => t = u
                      /\ \A t \in Sockets, i \in DOMAIN matches' :
                           Reserves(t, x)' => ~Pairs(i, x)'
                      /\ \A i, j \in DOMAIN matches' : Pairs(i, x)' /\ Pairs(j, x)' => i = j
    BY <1>6 DEF HoldInv
  <2>1. \A t \in Sockets : t # s => (Reserves(t, x)' <=> Reserves(t, x))
    BY <1>5 DEF Reserves, Deleting
  <2>2. Reserves(s, x)' <=> x \in {s, h}
    BY <1>4, <1>5 DEF Reserves, Deleting
  <2>3. x \in {s, h} => /\ \A t \in Sockets : ~Reserves(t, x)
                        /\ \A i \in DOMAIN matches : ~Pairs(i, x)
    BY <1>2 DEF HoldInv
  <2>4. ~Reserves(s, x)
    BY <1>10 DEF Reserves
  <2>5. \A t \in Sockets : Reserves(t, x) => x \in pairing
    BY <1>2 DEF HoldInv
  <2>6. \A i \in DOMAIN matches : Pairs(i, x) => x \in pairing
    BY <1>2 DEF HoldInv
  <2>7. \A t, u \in Sockets : Reserves(t, x)' /\ Reserves(u, x)' => t = u
    BY <1>2, <2>1, <2>2, <2>3 DEF HoldInv
  <2>8. \A t \in Sockets, i \in DOMAIN matches : Reserves(t, x)' => ~Pairs(i, x)
    BY <1>2, <2>1, <2>2, <2>3 DEF HoldInv
  <2>9. \A i, j \in DOMAIN matches : Pairs(i, x) /\ Pairs(j, x) => i = j
    BY <1>2 DEF HoldInv
  <2>10. \A t \in Sockets : Reserves(t, x)' => x \in pairing'
    BY <2>1, <2>2, <2>5
  <2> QED
    BY <1>14, <2>6, <2>7, <2>8, <2>9, <2>10
<1> QED
  BY <1>12, <1>13, <1>15, <1>16 DEF PrivateInv

(* Reserving host and guest: neither was reserved before.                  *)
LEMMA LoadPrivate ==
  ASSUME SingleHosts, LobbyInv, PrivateInv, NEW s \in Sockets, LoadReply(s)
  PROVE  PrivateInv'
<1>1. LobbyTypeOK /\ ClientsInv
  BY DEF LobbyInv
<1>2. PICK h : h = ClientOf(invites[request[s].code].user)
  OBVIOUS
<1>3. /\ UNCHANGED <<joinVars, queueVars, invites, matches>>
      /\ request[s].step = "loading" /\ request[s] # NoRequest
  BY Distinct DEF LoadReply, None
<1>4. PICK c \in Codes : c = request[s].code
  BY <1>1, <1>3, CodeOfRequest
<1>5. CASE EndRequest(s) /\ UNCHANGED pairing
  BY <1>1, <1>3, <1>5, EndKeeps
<1>6. CASE ~(EndRequest(s) /\ UNCHANGED pairing)
  <2>1. /\ Acceptable(s, invites[request[s].code]) /\ h # None /\ {h, s} \cap pairing = {}
        /\ pairing' = pairing \cup {h, s}
        /\ request' = [request EXCEPT ![s].step = "deleting", ![s].peer = h]
    BY <1>2, <1>6 DEF LoadReply
  <2>2. invites[c] \notin {Unused, Deleted}
    BY <1>4, <2>1 DEF Acceptable
  <2>3. Connected(h) /\ UserOf[h] = invites[c].user /\ h \in Sockets
    BY <1>1, <1>2, <1>4, <2>1, FirstClient
  <2> QED
    BY <1>1, <1>3, <1>4, <2>1, <2>2, <2>3, ReservePrivate
<1> QED
  BY <1>5, <1>6

(* The reservation becomes the match.                                      *)
LEMMA DeletePrivate ==
  ASSUME LobbyTypeOK, PrivateInv, NEW s \in Sockets, DeleteReply(s)
  PROVE  PrivateInv'
<1>1. InviteInv /\ HostInv /\ PairInv /\ HoldInv
  BY DEF PrivateInv
<1>2. /\ Deleting(s) /\ request[s] # NoRequest
      /\ UNCHANGED <<joinVars, queueVars, pairing>>
      /\ request \in [Sockets -> Requests] /\ invites \in [Codes -> Invites]
  BY RequestTypes, Distinct DEF DeleteReply, Deleting, None
<1>3. PICK c \in Codes : c = request[s].code
  BY <1>2, CodeOfRequest
<1>4. PICK h \in Sockets : h = request[s].peer
  BY <1>1, <1>2 DEF HostInv
<1>5. invites[c] # Unused
  BY <1>1, <1>2, <1>3 DEF InviteInv, Deleting
<1>6. PICK gone : gone = [invites EXCEPT ![c] = Deleted]
  OBVIOUS
<1>7. /\ gone[c] = Deleted
      /\ \A d \in Codes : gone[d] = invites[d] \/ (invites[d] # Unused /\ gone[d] = Deleted)
  BY <1>2, <1>5, <1>6
<1>8. CASE EndRequest(s) /\ (invites' = invites \/ invites' = gone) /\ UNCHANGED matches
  BY <1>2, <1>7, <1>8, EndKeeps
<1>9. CASE /\ invites' = gone /\ matches' = Append(matches, NewMatch(h, s, c))
           /\ request' = [request EXCEPT ![s].step = "making"]
  <2>1. PICK n : n = Len(matches) + 1
    OBVIOUS
  <2>2. /\ matches \in Seq(Matches) /\ DOMAIN matches' = DOMAIN matches \cup {n}
        /\ n \notin DOMAIN matches /\ \A i \in DOMAIN matches : matches'[i] = matches[i]
        /\ matches'[n] = NewMatch(h, s, c)
    <3>1. matches \in Seq(Matches) /\ NewMatch(h, s, c) \in Matches
      BY DEF LobbyTypeOK, NewMatch, Matches
    <3> QED
      BY <1>9, <2>1, <3>1, AppendProperties2
  <2>3. /\ ~Public(matches'[n]) /\ matches'[n].via = c /\ matches'[n].step = "check"
        /\ SocketsOf(matches'[n]) = {h, s}
    BY <2>2, LobbyAssumption DEF NewMatch, Public, SocketsOf
  <2>4. PICK r : r = [request[s] EXCEPT !.step = "making"]
    OBVIOUS
  <2>5. r.step = "making" /\ r.code = c
    <3>1. request[s] \in [step : {"deleting", "making"}, code : Codes, peer : Sockets]
      <4>1. request[s] \in Requests
        BY <1>2
      <4> QED
        BY <1>2, <4>1 DEF Requests, Deleting
    <3> QED
      BY <1>3, <2>4, <3>1
  <2>6. \A t \in Sockets : request'[t] = IF t = s THEN r ELSE request[t]
    BY <1>2, <1>9, <2>4
  <2>7. UNCHANGED <<clients, stage, options>> /\ \A t \in Sockets : Connected(t)' <=> Connected(t)
    BY <1>2, RequestFrame
  <2>8. \A i \in DOMAIN matches' : ~Public(matches'[i]) =>
          \/ i = n
          \/ i \in DOMAIN matches /\ ~Public(matches[i]) /\ matches'[i].via = matches[i].via
    BY <2>2
  <2>9. InvitesGoOn
    BY <1>2, <1>3, <1>7, <1>9, <2>3, <2>5, <2>6, <2>7, <2>8 DEF InvitesGoOn, Deleting
  <2>10. InviteInv'
    BY <1>1, <2>9, InviteKept
  <2>11. \A t \in Sockets : Deleting(t)' =>
           t # s /\ Deleting(t) /\ request'[t] = request[t] /\ request[t].code # c
    BY <1>1, <1>2, <1>3, <2>5, <2>6 DEF HostInv, Deleting
  <2>12. HostInv'
    <3> SUFFICES ASSUME NEW t \in Sockets, Deleting(t)'
                 PROVE  /\ request'[t].peer \in Sockets /\ options'[request'[t].peer].asks > 0
                        /\ stage'[request'[t].peer] # "out"
                        /\ invites'[request'[t].code] # Deleted =>
                             invites'[request'[t].code].user = UserOf[request'[t].peer]
                        /\ \A u \in Sockets :
                             Deleting(u)' /\ request'[u].code = request'[t].code => t = u
                        /\ \A i \in DOMAIN matches' :
                             ~Public(matches'[i]) => matches'[i].via # request'[t].code
      BY DEF HostInv, Asks
    <3>1. Deleting(t) /\ request'[t] = request[t] /\ request[t].code # c
      BY <2>11
    <3>2. \A u \in Sockets : Deleting(u)' /\ request'[u].code = request[t].code => t = u
      BY <1>1, <2>11, <3>1 DEF HostInv
    <3>3. \A i \in DOMAIN matches' :
            ~Public(matches'[i]) => matches'[i].via # request[t].code
      BY <1>1, <2>3, <2>8, <3>1 DEF HostInv
    <3>4. invites'[request[t].code] # Deleted =>
            invites'[request[t].code].user = UserOf[request[t].peer]
      <4>1. request[t].code \in Codes
        BY <3>1, CodeOfRequest, Distinct DEF Deleting, None
      <4> QED
        BY <1>1, <1>7, <1>9, <3>1, <4>1 DEF HostInv
    <3> QED
      BY <1>1, <2>7, <3>1, <3>2, <3>3, <3>4 DEF HostInv, Asks
  <2>13. /\ \A t \in Sockets : Pairs(n, t)' <=> t \in {h, s}
         /\ \A i \in DOMAIN matches : \A t \in Sockets : Pairs(i, t)' <=> Pairs(i, t)
    BY <2>2, <2>3 DEF Pairs, Live
  <2>14. PairInv'
    <3>1. Asks(h) /\ stage[h] # "out" /\ Asks(s) /\ stage[s] # "out"
      BY <1>1, <1>2, <1>4 DEF HostInv, InviteInv
    <3>2. \A i \in DOMAIN matches' : \A t \in Sockets :
            Pairs(i, t)' => Asks(t)' /\ stage'[t] # "out"
      BY <1>1, <2>2, <2>7, <2>13, <3>1 DEF PairInv, Asks
    <3>3. \A i \in DOMAIN matches : ~Public(matches[i]) => matches[i].via # c
      BY <1>1, <1>2, <1>3 DEF HostInv
    <3>4. \A i, j \in DOMAIN matches' :
            ~Public(matches'[i]) /\ ~Public(matches'[j]) /\ matches'[i].via = matches'[j].via
            => i = j
      BY <1>1, <2>3, <2>8, <3>3 DEF PairInv
    <3> QED
      BY <3>2, <3>4 DEF PairInv
  <2>15. HoldInv'
    <3> SUFFICES ASSUME NEW x \in Sockets, Connected(x)
                 PROVE  /\ \A t \in Sockets : Reserves(t, x)' => x \in pairing'
                        /\ \A i \in DOMAIN matches' : Pairs(i, x)' => x \in pairing'
                        /\ \A t, u \in Sockets : Reserves(t, x)' /\ Reserves(u, x)' => t = u
                        /\ \A t \in Sockets, i \in DOMAIN matches' :
                             Reserves(t, x)' => ~Pairs(i, x)'
                        /\ \A i, j \in DOMAIN matches' : Pairs(i, x)' /\ Pairs(j, x)' => i = j
      BY <2>7 DEF HoldInv
    <3>1. \A t \in Sockets : Reserves(t, x)' => t # s /\ Reserves(t, x)
      BY <2>11 DEF Reserves
    <3>2. x \in {h, s} => Reserves(s, x)
      BY <1>2, <1>4 DEF Reserves
    <3>3. \A t \in Sockets : Reserves(t, x)' => x \in pairing'
      BY <1>1, <1>2, <3>1 DEF HoldInv
    <3>4. \A i \in DOMAIN matches' : Pairs(i, x)' => x \in pairing'
      BY <1>1, <1>2, <2>2, <2>13, <3>2 DEF HoldInv
    <3>5. \A t, u \in Sockets : Reserves(t, x)' /\ Reserves(u, x)' => t = u
      BY <1>1, <3>1 DEF HoldInv
    <3>6. \A t \in Sockets, i \in DOMAIN matches' : Reserves(t, x)' => ~Pairs(i, x)'
      BY <1>1, <2>2, <2>13, <3>1, <3>2 DEF HoldInv
    <3>7. \A i, j \in DOMAIN matches' : Pairs(i, x)' /\ Pairs(j, x)' => i = j
      BY <1>1, <2>2, <2>13, <3>2 DEF HoldInv
    <3> QED
      BY <3>3, <3>4, <3>5, <3>6, <3>7
  <2> QED
    BY <2>10, <2>12, <2>14, <2>15 DEF PrivateInv
<1> QED
  BY <1>3, <1>4, <1>6, <1>8, <1>9 DEF DeleteReply

(* What a step of createAndNotifyMatch does to matches and reservations.   *)
Moves(i) ==
  /\ UNCHANGED <<clients, stage, options, invites>>
  /\ GoesOn /\ matches'[i].via = matches[i].via
  /\ \A j \in DOMAIN matches : j # i => matches'[j] = matches[j]
  /\ matches[i].step # "failed"
  /\ \/ matches'[i].step # "failed" /\ UNCHANGED pairing
     \/ matches'[i].step = "failed" /\ pairing' = pairing \ SocketsOf(matches[i])
  /\ UNCHANGED request \/ Finish(i)

(* A match that advances keeps what it reserves,                           *)
LEMMA AdvanceMoves ==
  ASSUME LobbyTypeOK, NEW i \in DOMAIN matches, NEW row \in BOOLEAN, matches[i].row => row,
         NEW x \in {"create", "tickets", "room", "done"},
         x = "create" => ~row, x \in {"tickets", "room", "done"} => row,
         \/ matches' = [matches EXCEPT ![i].step = x, ![i].row = row]
         \/ matches' = [matches EXCEPT ![i].step = x] /\ row = matches[i].row,
         matches[i].step # "failed", UNCHANGED <<clients, stage, options, invites, pairing>>,
         UNCHANGED request \/ Finish(i)
  PROVE  Moves(i)
BY MatchGoesOn DEF Moves

(* one that fails lets go of it,                                           *)
LEMMA FailureMoves ==
  ASSUME LobbyTypeOK, NEW i \in DOMAIN matches, NEW row \in BOOLEAN, matches[i].row => row,
         CreationFails(i, row), matches[i].step # "failed",
         UNCHANGED <<clients, stage, options, invites>>
  PROVE  Moves(i)
<1>1. /\ Finish(i) /\ pairing' = pairing \ SocketsOf(matches[i])
      /\ matches' = [matches EXCEPT ![i].step = "failed", ![i].row = row]
  BY DEF CreationFails
<1>2. /\ GoesOn /\ matches'[i].via = matches[i].via /\ matches'[i].step = "failed"
      /\ \A j \in DOMAIN matches : j # i => matches'[j] = matches[j]
  BY <1>1, MatchGoesOn
<1> QED
  BY <1>1, <1>2 DEF Moves

(* and each step of a creation does one of the two.                        *)
LEMMA CreationMoves ==
  ASSUME LobbyInv, NEW i \in DOMAIN matches,
         CheckReply(i) \/ CreateReply(i) \/ TicketsReply(i) \/ RoomReply(i)
  PROVE  Moves(i)
<1>1. LobbyTypeOK /\ matches[i] \in Matches
  BY DEF LobbyInv, LobbyTypeOK
<1>2. /\ matches[i].row \in BOOLEAN
      /\ matches[i].step \in {"check", "create"} => ~matches[i].row
      /\ matches[i].step \in {"tickets", "room", "done"} => matches[i].row
  BY <1>1 DEF LobbyInv, MatchInv, Matches
<1>3. UNCHANGED <<clients, stage, options, invites>>
  BY DEF CheckReply, CreateReply, TicketsReply, RoomReply, joinVars
<1>4. ASSUME CheckReply(i) PROVE Moves(i)
  <2>1. matches[i].step = "check"
    BY <1>4 DEF CheckReply
  <2>2. CASE CreationFails(i, FALSE)
    BY <1>1, <1>2, <1>3, <2>1, <2>2, FailureMoves
  <2>3. CASE Advance(i, "create") /\ UNCHANGED <<pairing, request>>
    BY <1>1, <1>2, <1>3, <2>1, <2>3, AdvanceMoves DEF Advance
  <2> QED
    BY <1>4, <2>2, <2>3 DEF CheckReply
<1>5. ASSUME CreateReply(i) PROVE Moves(i)
  <2>1. matches[i].step = "create"
    BY <1>5 DEF CreateReply
  <2>2. CASE \E row \in BOOLEAN : CreationFails(i, row)
    BY <1>1, <1>2, <1>3, <2>1, <2>2, FailureMoves
  <2>3. CASE /\ matches' = [matches EXCEPT ![i].step = "tickets", ![i].row = TRUE]
             /\ UNCHANGED <<pairing, request>>
    BY <1>1, <1>2, <1>3, <2>1, <2>3, AdvanceMoves
  <2> QED
    BY <1>5, <2>2, <2>3 DEF CreateReply
<1>6. ASSUME TicketsReply(i) PROVE Moves(i)
  <2>1. matches[i].step = "tickets"
    BY <1>6 DEF TicketsReply
  <2>2. CASE CreationFails(i, TRUE)
    BY <1>1, <1>2, <1>3, <2>1, <2>2, FailureMoves
  <2>3. CASE Advance(i, "room") /\ UNCHANGED <<pairing, request>>
    BY <1>1, <1>2, <1>3, <2>1, <2>3, AdvanceMoves DEF Advance
  <2> QED
    BY <1>6, <2>2, <2>3 DEF TicketsReply
<1>7. ASSUME RoomReply(i) PROVE Moves(i)
  <2>1. matches[i].step = "room"
    BY <1>7 DEF RoomReply
  <2>2. CASE CreationFails(i, TRUE)
    BY <1>1, <1>2, <1>3, <2>1, <2>2, FailureMoves
  <2>3. CASE Advance(i, "done") /\ Finish(i) /\ UNCHANGED pairing
    BY <1>1, <1>2, <1>3, <2>1, <2>3, AdvanceMoves DEF Advance
  <2> QED
    BY <1>7, <2>2, <2>3 DEF RoomReply
<1> QED
  BY <1>4, <1>5, <1>6, <1>7

(* So the steps of a creation keep PrivateInv.                             *)
LEMMA CreationPrivate ==
  ASSUME SingleHosts, LobbyInv, PrivateInv, NEW i \in DOMAIN matches, Moves(i)
  PROVE  PrivateInv'
<1>1. LobbyTypeOK /\ QueueInv /\ InviteInv /\ HostInv /\ PairInv /\ HoldInv
  BY DEF LobbyInv, PrivateInv
<1>2. \A t \in Sockets : request'[t] = request[t] \/ request'[t] = NoRequest
  BY <1>1, RequestTypes DEF Moves, Finish
<1>3. ASSUME NEW t \in Sockets, Deleting(t)'
      PROVE  Deleting(t) /\ request'[t] = request[t]
  BY <1>2, <1>3, Distinct DEF Deleting, None
<1>4. /\ DOMAIN matches' = DOMAIN matches
      /\ \A j \in DOMAIN matches :
           /\ Public(matches'[j]) = Public(matches[j])
           /\ SocketsOf(matches'[j]) = SocketsOf(matches[j])
           /\ matches'[j].via = matches[j].via
           /\ matches'[j].step # "failed" => matches[j].step # "failed"
  BY DEF Moves, GoesOn
<1>5. ASSUME NEW s \in Sockets, Connected(s), s \in pairing, s \notin pairing'
      PROVE  /\ \A t \in Sockets : ~Reserves(t, s)'
             /\ \A j \in DOMAIN matches' : ~Pairs(j, s)'
  <2>1. s \in SocketsOf(matches[i]) /\ matches'[i].step = "failed" /\ matches[i].step # "failed"
    BY <1>5 DEF Moves
  <2>2. \A t \in Sockets : Reserves(t, s)' => Reserves(t, s)
    BY <1>3 DEF Reserves
  <2>3. \A j \in DOMAIN matches' : Pairs(j, s)' => j # i /\ Pairs(j, s)
    BY <1>4, <2>1 DEF Pairs, Live
  <2>4. CASE ~Public(matches[i])
    <3>1. Pairs(i, s)
      BY <2>1, <2>4 DEF Pairs, Live
    <3>2. \A t \in Sockets : ~Reserves(t, s)
      BY <1>1, <1>5, <3>1 DEF HoldInv
    <3>3. \A j \in DOMAIN matches : Pairs(j, s) => j = i
      BY <1>1, <1>5, <3>1 DEF HoldInv
    <3> QED
      BY <1>4, <2>2, <2>3, <3>2, <3>3
  <2>5. CASE Public(matches[i])
    <3>1. Taken(s)
      BY <2>1, <2>5 DEF Taken, In
    <3>2. options[s].mode = "PUBLIC"
      BY <1>1, <3>1 DEF QueueInv
    <3>3. ~Asks(s)
      BY <1>1, <3>2 DEF SingleHosts, Asks, LobbyTypeOK
    <3>4. \A t \in Sockets : Deleting(t) => Asks(t) /\ Asks(request[t].peer)
      BY <1>1, Distinct DEF InviteInv, HostInv, Deleting, None
    <3>5. \A t \in Sockets : ~Reserves(t, s)
      BY <3>3, <3>4 DEF Reserves
    <3>6. \A j \in DOMAIN matches : ~Pairs(j, s)
      BY <1>1, <3>3 DEF PairInv
    <3> QED
      BY <1>4, <2>2, <2>3, <3>5, <3>6
  <2> QED
    BY <2>4, <2>5
<1>6. UNCHANGED <<clients, stage, options, invites>> /\ \A s \in Sockets : Connected(s)' <=> Connected(s)
  BY DEF Moves, Connected
<1>7. Kept
  BY <1>3, <1>4, <1>5, <1>6 DEF Kept
<1>8. InvitesGoOn
  BY <1>2, <1>4, <1>6 DEF InvitesGoOn
<1> QED
  BY <1>1, <1>7, <1>8, PrivateKept

(* The invariant of invites holds initially ...                            *)
LEMMA InitPrivate == Init => PrivateInv
<1> SUFFICES ASSUME Init PROVE PrivateInv
  OBVIOUS
<1>1. /\ clients = <<>> /\ matches = <<>> /\ invites = [c \in Codes |-> Unused]
      /\ request = [s \in Sockets |-> NoRequest]
  BY DEF Init
<1>2. \A s \in Sockets : request[s] = NoRequest /\ ~Deleting(s) /\ ~Connected(s)
  BY <1>1, Distinct DEF Deleting, Connected, Range, None
<1>3. DOMAIN matches = {}
  BY <1>1
<1>4. InviteInv
  BY <1>1, <1>2, <1>3, Distinct DEF InviteInv, None
<1>5. HostInv /\ PairInv /\ HoldInv
  BY <1>2, <1>3 DEF HostInv, PairInv, HoldInv
<1> QED
  BY <1>4, <1>5 DEF PrivateInv

(* ... and every step preserves it.                                        *)
LEMMA NextPrivate ==
  ASSUME SingleHosts, LobbyInv, PrivateInv, [Next]_vars
  PROVE  PrivateInv'
<1>1. LobbyTypeOK
  BY DEF LobbyInv
<1>2. CASE UNCHANGED vars
  <2>1. UNCHANGED <<clients, stage, options, pairing, request, invites, matches>>
    BY <1>2 DEF vars, joinVars, privateVars
  <2>2. Stays
    BY <2>1 DEF Stays, Connected
  <2> QED
    BY <1>1, <2>2, StaysKeeps
<1>3. CASE ClientStep
  <2>1. PICK s \in Sockets : Join(s) \/ Leave(s) \/ CreatePrivate(s) \/ JoinPrivate(s)
    BY <1>3 DEF ClientStep
  <2>2. CASE CreatePrivate(s)
    BY <1>1, <2>2, AskPrivate DEF CreatePrivate
  <2>3. CASE JoinPrivate(s)
    BY <1>1, <2>3, AskPrivate DEF JoinPrivate
  <2>4. CASE Join(s) \/ Leave(s)
    BY <1>1, <2>4, PublicStays, StaysKeeps
  <2> QED
    BY <2>1, <2>2, <2>3, <2>4
<1>4. ASSUME NEW s \in Sockets, JoinStep(s) \/ CancelReply(s) \/ FillWithBot(s)
      PROVE  PrivateInv'
  BY <1>1, <1>4, PublicStays, StaysKeeps
<1>5. ASSUME NEW s \in Sockets, RequestStep(s)
      PROVE  PrivateInv'
  BY <1>1, <1>5, SavePrivate, LoadPrivate, DeletePrivate DEF RequestStep
<1>6. CASE \E c \in Codes : Expire(c)
  BY <1>1, <1>6, ExpirePrivate
<1>7. CASE CreationStep
  BY <1>7, CreationMoves, CreationPrivate DEF CreationStep
<1> QED
  BY <1>2, <1>3, <1>4, <1>5, <1>6, <1>7 DEF Next

(* LoadReply and DeleteReply: where those who ask privately wait in no     *)
(* public queue and come with one socket, no invite makes two matches and  *)
(* no connected client is in two, whatever races or fails in between.      *)
THEOREM InvitesTheorem ==
  ASSUME SingleHosts
  PROVE  Spec => []InvitesPairOnce
<1>1. LobbyInv /\ PrivateInv /\ [Next]_vars => PrivateInv'
  BY NextPrivate
<1>2. LobbyInv /\ PrivateInv => InvitesPairOnce
  <2> SUFFICES ASSUME LobbyInv, PrivateInv, NEW i \in DOMAIN matches, NEW j \in DOMAIN matches,
                      ~Public(matches[i]), ~Public(matches[j]), i # j
               PROVE  /\ matches[i].via # matches[j].via
                      /\ \A s \in Range(clients) :
                           /\ matches[i].step # "failed" /\ s \in SocketsOf(matches[i])
                           => matches[j].step = "failed" \/ s \notin SocketsOf(matches[j])
    BY DEF InvitesPairOnce
  <2>1. matches[i].via # matches[j].via
    BY DEF PrivateInv, PairInv
  <2>2. Range(clients) \subseteq Sockets
    BY DEF LobbyInv, LobbyTypeOK, Range
  <2> QED
    BY <2>1, <2>2 DEF PrivateInv, HoldInv, Pairs, Live, Connected
<1> QED
  BY InitPrivate, <1>1, <1>2, LobbyInvariance, PTL DEF Spec

=============================================================================
