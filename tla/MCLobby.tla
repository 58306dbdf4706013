------------------------------ MODULE MCLobby ------------------------------
(* Small instances of Lobby for TLC. *)
EXTENDS LobbyProperties

CONSTANTS s1, s2, s3, s4, u1, u2, u3, k1, k2

(* s1 and s4 are two tabs of one user. *)
MCUserOf == [s \in {s1, s2, s3, s4} \cap Sockets |->
  CASE s = s1 -> u1 [] s = s2 -> u2 [] s = s3 -> u3 [] s = s4 -> u1]

Options(mode, k, n) == [mode |-> mode, key |-> k, asks |-> n]
Absent              == Options("ABSENT", k1, 0)

(* Everybody in who joins as options tell. *)
All(who, options_) == [s \in Sockets |-> IF s \in who THEN options_ ELSE Absent]

(* Three sockets of two users in the queues of one or two games. *)
Queueing ==
  {[s \in Sockets |-> IF s = s3 THEN Absent ELSE Options("PUBLIC", k[s], 0)] :
     k \in {h \in [Sockets \ {s3} -> QueueKeys] : h[s1] = k1}}

(* Three users who create and accept invites. *)
Inviting == {All({s1, s2, s3}, Options("PRIVATE", k1, 2))}

(* A player in the public queue also hosts or accepts an invite. *)
Mixing ==
  {[s \in Sockets |-> CASE s = s1 -> Options("PUBLIC", k1, 1)
                       [] s = s2 -> Options("PRIVATE", k1, 1)
                       [] s = s3 -> Options("PUBLIC", k1, 0)
                       [] s = s4 -> Absent]}

MCSafety == Queueing \cup Inviting \cup Mixing

MCLive == {All({s1, s2}, Options("PUBLIC", k1, 0)),
           All({s1, s2, s3}, Options("PRIVATE", k1, 2))}

MCRace == {All({s1, s2, s3, s4}, Options("PRIVATE", k1, 1))}

(* The host waits in the public queue, too: with one failing call, their   *)
(* bot match lifts the reservation of the first guest.                     *)
MCLifted ==
  {[s \in Sockets |-> CASE s = s1 -> Options("PUBLIC", k1, 1)
                       [] s \in {s2, s3} -> Options("PRIVATE", k1, 1)
                       [] s = s4 -> Absent]}

MCReserved == {All({s1, s2}, Options("PRIVATE", k1, 1))}

=============================================================================
