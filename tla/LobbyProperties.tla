--------------------------- MODULE LobbyProperties ---------------------------
(* What the lobby must do. *)
EXTENDS Lobby

-----------------------------------------------------------------------------
(* Safety. *)

(* A user waits in one place of one queue, however many tabs they open.    *)
QueuedOnce ==
  \A k, l \in QueueKeys : \A i \in DOMAIN queues[k], j \in DOMAIN queues[l] :
    UserOf[queues[k][i]] = UserOf[queues[l][j]] => k = l /\ i = j

(* The second player and the bot timer never both get a queue entry: it    *)
(* is used for one match, and once it is used it is out of the queue.      *)
OneMatchPerEntry ==
  \A i \in DOMAIN matches : Public(matches[i]) =>
    \A s \in SocketsOf(matches[i]) :
      /\ ~Queued(s)
      /\ \A j \in DOMAIN matches \ {i} :
            Public(matches[j]) => s \notin SocketsOf(matches[j])

(* Who leaves after the lobby has taken note of them is in no queue any    *)
(* more, and no bot timer runs but for a queued socket: nobody is matched  *)
(* whose departure was processed.                                          *)
LeaversAreOut ==
  \A s \in Sockets :
    /\ Queued(s) => s \in known
    /\ s \in timers => Queued(s)

(* The ticket of a player tells what became of the queue entry: it is      *)
(* cancelled only if no match took the entry, and matched only by one.     *)
TicketsTellTheTruth ==
  \A s \in Sockets :
    LET taken == {i \in DOMAIN matches : Public(matches[i]) /\ s \in SocketsOf(matches[i])}
    IN  /\ tickets[s] = "CANCELLED" => taken = {}
        /\ tickets[s] = "MATCHED" => \E i \in taken : matches[i].row

(* lobby-room.ts: both sockets are reserved so that invite races cannot    *)
(* create two matches.  Two guests racing for invites never put one        *)
(* connected client in two private matches, and one invite makes one       *)
(* match.  LobbyProofs proves it if those who use invites have one socket  *)
(* and wait in no public queue (SingleHosts); it does not hold of a        *)
(* creator with two sockets (MCLobbyRace.cfg), or of one whose bot match   *)
(* fails meanwhile and lifts the reservation (MCLobbyLifted.cfg).          *)
InvitesPairOnce ==
  \A i, j \in DOMAIN matches :
    /\ ~Public(matches[i]) /\ ~Public(matches[j]) /\ i # j
    => /\ matches[i].via # matches[j].via
       /\ \A s \in Range(clients) :
            /\ matches[i].step # "failed" /\ s \in SocketsOf(matches[i])
            => matches[j].step = "failed" \/ s \notin SocketsOf(matches[j])

-----------------------------------------------------------------------------
(* What a socket is reserved for: an invite that is being deleted, and     *)
(* then a private match.                                                   *)
Deleting(t)    == request[t].step = "deleting"
Reserves(t, s) == Deleting(t) /\ s \in {t, request[t].peer}
Live(i)        == ~Public(matches[i]) /\ matches[i].step # "failed"
Pairs(i, s)    == Live(i) /\ s \in SocketsOf(matches[i])

-----------------------------------------------------------------------------
(* Liveness. *)

(* Unless a call fails nobody waits for ever: a queued player is matched   *)
(* with the next one or with a bot, or leaves.                             *)
QueueMoves == \A s \in Sockets : Queued(s) ~> (~Queued(s) \/ faults < MaxFaults)

(* privateRequest turns a player away, without an answer, while a request  *)
(* of theirs is under way or they are reserved, unless their match is made *)
(* and they have moved on to its room.                                     *)
TurnedAway(s) ==
  \/ request[s] # NoRequest
  \/ /\ Connected(s) /\ s \in pairing
     /\ \A i \in DOMAIN matches : Pairs(i, s) => matches[i].step # "done"

(* Reserved for an invite whose deletion failed: no match was begun.       *)
Stranded(s) ==
  /\ request[s] = NoRequest /\ s \in pairing
  /\ \A t \in Sockets : ~Reserves(t, s)
  /\ \A i \in DOMAIN matches : ~Public(matches[i]) => s \notin SocketsOf(matches[i])

(* Nobody is turned away for ever, neither the guest who entered a code    *)
(* nor the creator who was reserved for it: they get a match, or may ask   *)
(* again after it could not be created or whatever else went wrong.  The   *)
(* two players of an invite whose deletion failed are excepted: the code   *)
(* leaves them reserved (ReservationsEnd).                                 *)
MayAskAgain == \A s \in Sockets : TurnedAway(s) ~> (~TurnedAway(s) \/ Stranded(s))

-----------------------------------------------------------------------------
(* A claim of a message that the code does not meet. *)

(* lobby-room.ts: "Could not process invite. Please wait before retrying." *)
(* A connected player is reserved only for a match that is being made or   *)
(* was made, so that waiting helps.                                        *)
ReservationsEnd ==
  \A s \in Range(clients) \cap pairing :
    (\E t \in Sockets : Reserves(t, s)) \/ (\E i \in DOMAIN matches : Pairs(i, s))

-----------------------------------------------------------------------------
(* The inductive invariants LobbyProofs proves. *)

Stages   == {"out", "auth", "ticket", "config", "joined", "failed"}
Tickets  == {None, "QUEUED", "CANCELLED", "MATCHED"}
Requests == {NoRequest}
            \cup [step : {"saving", "loading"}, code : Codes, peer : {None}]
            \cup [step : {"deleting", "making"}, code : Codes, peer : Sockets]
Invites  == [user : {UserOf[s] : s \in Sockets}, key : QueueKeys] \cup {Unused, Deleted}
Matches  == [p1 : Sockets, p2 : Sockets \cup {Bot}, via : Codes \cup {"queue", "bot"},
             step : {"check", "create", "tickets", "room", "done", "failed"}, row : BOOLEAN]

LobbyTypeOK ==
  /\ clients \in Seq(Sockets) /\ stage \in [Sockets -> Stages] /\ options \in Clienteles
  /\ known \subseteq Sockets /\ timers \subseteq Sockets
  /\ cancels \subseteq Sockets /\ pairing \subseteq Sockets
  /\ queues \in [QueueKeys -> Seq(Sockets)] /\ tickets \in [Sockets -> Tickets]
  /\ request \in [Sockets -> Requests] /\ requests \in [Sockets -> Nat]
  /\ invites \in [Codes -> Invites] /\ matches \in Seq(Matches)
  /\ faults \in Nat

(* A socket is a client once, and only after it joined.                    *)
ClientsInv ==
  /\ IsInjective(clients)
  /\ \A s \in Sockets : /\ Connected(s) => stage[s] # "out"
                        /\ options[s].mode = "ABSENT" => stage[s] = "out"

(* The life of a queue entry: before it, in the queue, in a public match,  *)
(* or cancelled.                                                           *)
Fresh(s)     == stage[s] \in {"out", "auth"}
In(i, s)     == Public(matches[i]) /\ s \in SocketsOf(matches[i])
Taken(s)     == \E i \in DOMAIN matches : In(i, s)
Cancelled(s) == s \in cancels \/ tickets[s] = "CANCELLED"

LifeInv ==
  \A s \in Sockets :
    /\ Queued(s) => ~Fresh(s) /\ ~Taken(s) /\ ~Cancelled(s)
    /\ Taken(s) => ~Fresh(s) /\ ~Cancelled(s)
    /\ Cancelled(s) => ~Fresh(s)

(* A user has one entry, in the queue they asked for; and only a queued    *)
(* socket has a timer.                                                     *)
QueueInv ==
  /\ \A k \in QueueKeys : IsInjective(queues[k])
  /\ \A k \in QueueKeys : \A s \in Range(queues[k]) : k = Key(s)
  /\ \A s, t \in Sockets : Queued(s) /\ Queued(t) /\ UserOf[s] = UserOf[t] => s = t
  /\ \A s \in Sockets : /\ Queued(s) => s \in known
                        /\ s \in timers => Queued(s)
                        /\ Queued(s) \/ Taken(s) => options[s].mode = "PUBLIC"

(* A public match takes entries of its own; its row comes before tickets.  *)
MatchInv ==
  /\ \A i, j \in DOMAIN matches : \A s \in Sockets : In(i, s) /\ In(j, s) => i = j
  /\ \A i \in DOMAIN matches :
       /\ matches[i].step \in {"check", "create"} => ~matches[i].row
       /\ matches[i].step \in {"tickets", "room", "done"} => matches[i].row
  /\ \A s \in Sockets : tickets[s] = "MATCHED" =>
       \E i \in DOMAIN matches : In(i, s) /\ matches[i].row

LobbyInv == LobbyTypeOK /\ ClientsInv /\ LifeInv /\ QueueInv /\ MatchInv

-----------------------------------------------------------------------------
(* Invites pair once if those who make or accept them wait in no queue,    *)
(* and no other socket of such a user comes.                               *)
SingleHosts ==
  \A o \in Clienteles : \A s \in Sockets : o[s].asks > 0 =>
    /\ o[s].mode = "PRIVATE"
    /\ \A t \in Sockets : UserOf[t] = UserOf[s] => t = s \/ o[t].mode = "ABSENT"

Asks(s) == options[s].asks > 0

(* An invite is used by one creator, and is deleted for its match.         *)
InviteInv ==
  /\ \A s \in Sockets : request[s] # NoRequest => stage[s] = "joined" /\ Asks(s)
  /\ \A c \in Codes : invites[c] \notin {Unused, Deleted} =>
       \E s \in Sockets : Asks(s) /\ invites[c].user = UserOf[s]
  /\ \A s \in Sockets : request[s] # NoRequest =>
       (request[s].step = "saving" <=> invites[request[s].code] = Unused)
  /\ \A s, t \in Sockets :
       /\ request[s].step = "saving" /\ request[t] # NoRequest
       /\ request[t].code = request[s].code
       => s = t
  /\ \A i \in DOMAIN matches : ~Public(matches[i]) => invites[matches[i].via] = Deleted

(* While an invite is being deleted, its creator is the peer, and no other *)
(* guest has it.                                                           *)
HostInv ==
  \A s \in Sockets : Deleting(s) =>
    /\ request[s].peer \in Sockets /\ Asks(request[s].peer)
    /\ stage[request[s].peer] # "out"
    /\ invites[request[s].code] # Deleted =>
         invites[request[s].code].user = UserOf[request[s].peer]
    /\ \A t \in Sockets : Deleting(t) /\ request[t].code = request[s].code => s = t
    /\ \A i \in DOMAIN matches : ~Public(matches[i]) => matches[i].via # request[s].code

PairInv ==
  /\ \A i \in DOMAIN matches : \A s \in Sockets : Pairs(i, s) => Asks(s) /\ stage[s] # "out"
  /\ \A i, j \in DOMAIN matches :
       ~Public(matches[i]) /\ ~Public(matches[j]) /\ matches[i].via = matches[j].via => i = j

(* A connected socket is reserved for one thing.                           *)
HoldInv ==
  \A s \in Sockets : Connected(s) =>
    /\ \A t \in Sockets : Reserves(t, s) => s \in pairing
    /\ \A i \in DOMAIN matches : Pairs(i, s) => s \in pairing
    /\ \A t, u \in Sockets : Reserves(t, s) /\ Reserves(u, s) => t = u
    /\ \A t \in Sockets, i \in DOMAIN matches : Reserves(t, s) => ~Pairs(i, s)
    /\ \A i, j \in DOMAIN matches : Pairs(i, s) /\ Pairs(j, s) => i = j

PrivateInv == InviteInv /\ HostInv /\ PairInv /\ HoldInv

=============================================================================
