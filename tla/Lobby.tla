-------------------------------- MODULE Lobby --------------------------------
(***************************************************************************)
(* The lobby: apps/realtime/src/rooms/lobby-room.ts with the invites of    *)
(* sessions/private-invite.ts.                                             *)
(*                                                                         *)
(* The room is single-threaded: an action is what runs between two awaits. *)
(* A call to the database or to the presence takes effect with its answer. *)
(* A call can fail, before or after it took effect; a game that is paused  *)
(* or a player who is suspended while they wait counts as a failing call   *)
(* of the match creation.                                                  *)
(*                                                                         *)
(* A socket is one client session.  It joins once and queues at most once, *)
(* so that it also names its queue entry, its ticket and its bot timer.    *)
(***************************************************************************)
EXTENDS Integers, Sequences, FiniteSets, Functions

CONSTANTS
  Sockets,       \* client sessions
  UserOf,        \* the authenticated user of each socket
  Bot,           \* the opponent of a bot-filled match
  QueueKeys,     \* game, version, mode, stake and region of a public queue
  Codes,         \* invite codes; the random generator never repeats one
  Clienteles,    \* bounds: the join options sockets may come with, and how
                 \* many private requests each of them may make
  MaxFaults      \* bound: calls that fail

ASSUME LobbyAssumption ==
  /\ Bot \notin Sockets /\ "none" \notin Sockets
  /\ {"queue", "bot"} \cap Codes = {} /\ {"unused", "deleted"} \cap QueueKeys = {}
  /\ Clienteles \subseteq
       [Sockets -> [mode : {"PUBLIC", "PRIVATE", "ABSENT"}, key : QueueKeys, asks : Nat]]
  /\ MaxFaults \in Nat

VARIABLES
  clients,   \* this.clients, in the order they came
  stage,     \* how far onJoin is for each socket
  options,   \* [mode, key, asks] of each socket, one of Clienteles
  known,     \* sockets with an entry in clientMeta
  queues,    \* queue of each key, as sockets
  timers,    \* sockets whose bot timer is running
  tickets,   \* MatchmakingTicket.status of each socket
  cancels,   \* sockets whose ticket is being cancelled
  pairing,   \* sockets reserved for a private match
  request,   \* private request of each socket: [step, code, peer]
  requests,  \* private requests made by each socket
  invites,   \* invite of each code: its creator, or Unused or Deleted
  matches,   \* createAndNotifyMatch calls so far, oldest first
  faults     \* failing calls still to come

joinVars    == <<clients, stage, options, known>>
queueVars   == <<queues, timers, tickets, cancels>>
privateVars == <<pairing, request, requests, invites>>
vars        == <<joinVars, queueVars, privateVars, matches, faults>>

None      == "none"
Unused    == [user |-> None, key |-> "unused"]
Deleted   == [user |-> None, key |-> "deleted"]
NoRequest == [step |-> None, code |-> None, peer |-> None]
Fault     == faults > 0 /\ faults' = faults - 1

Key(s)       == options[s].key
Connected(s) == s \in Range(clients)
Queued(s)    == \E k \in QueueKeys : s \in Range(queues[k])

(* The sockets of a match, and its creation when it has just begun. *)
SocketsOf(m)       == {m.p1, m.p2} \ {Bot}
NewMatch(p, q, by) == [p1 |-> p, p2 |-> q, via |-> by, step |-> "check", row |-> FALSE]
Public(m)          == m.via \in {"queue", "bot"}

(* A sequence of sockets without s, which occurs at most once: findIndex,  *)
(* and then splice.                                                        *)
Place(q, s) == CHOOSE i \in DOMAIN q : q[i] = s

Without(q, s) ==
  IF s \in Range(q)
  THEN [i \in 1..(Len(q) - 1) |-> IF i < Place(q, s) THEN q[i] ELSE q[i + 1]]
  ELSE q

Init ==
  /\ clients  = <<>>
  /\ stage    = [s \in Sockets |-> "out"]
  /\ options  \in Clienteles
  /\ known    = {}
  /\ queues   = [k \in QueueKeys |-> <<>>]
  /\ timers   = {}
  /\ tickets  = [s \in Sockets |-> None]
  /\ cancels  = {}
  /\ pairing  = {}
  /\ request  = [s \in Sockets |-> NoRequest]
  /\ requests = [s \in Sockets |-> 0]
  /\ invites  = [c \in Codes |-> Unused]
  /\ matches  = <<>>
  /\ faults   = MaxFaults

-----------------------------------------------------------------------------
(* Leaving. *)

(* Seeded bug: the ticket is cancelled whether or not it is still queued.  *)
OnLeaveCancelling(s) ==
  /\ clients' = Without(clients, s)
  /\ known' = known \ {s}
  /\ pairing' = pairing \ {s}
  /\ queues' = [k \in QueueKeys |-> Without(queues[k], s)]
  /\ timers' = timers \ {s}
  /\ cancels' = IF stage[s] \in {"ticket", "config", "joined"}
                THEN cancels \cup {s} ELSE cancels

(* onLeave up to its await: a queued socket is taken out of its queue,     *)
(* with its bot timer, and its ticket is cancelled.                        *)
OnLeave(s) ==
  /\ clients' = Without(clients, s)
  /\ known' = known \ {s}
  /\ pairing' = pairing \ {s}
  /\ IF s \in known /\ Queued(s)
     THEN /\ queues' = [k \in QueueKeys |-> Without(queues[k], s)]
          /\ timers' = timers \ {s}
          /\ cancels' = cancels \cup {s}
     ELSE UNCHANGED <<queues, timers, cancels>>

(* The client leaves or its connection breaks, at any time: the framework  *)
(* runs onLeave even while onJoin awaits.                                  *)
Leave(s) ==
  /\ Connected(s)
  /\ OnLeave(s)
  /\ UNCHANGED <<stage, options, tickets, request, requests, invites, matches, faults>>

(* The ticket may not have been created yet; the update then throws.       *)
CancelReply(s) ==
  /\ s \in cancels
  /\ cancels' = cancels \ {s}
  /\ \/ /\ tickets' = [tickets EXCEPT ![s] = IF @ = None THEN None ELSE "CANCELLED"]
        /\ UNCHANGED faults
     \/ Fault /\ UNCHANGED tickets
  /\ UNCHANGED <<joinVars, queues, timers, privateVars, matches>>

-----------------------------------------------------------------------------
(* Joining, and the public queue. *)

Join(s) ==
  /\ stage[s] = "out"
  /\ options[s].mode # "ABSENT"
  /\ stage' = [stage EXCEPT ![s] = "auth"]
  /\ clients' = Append(clients, s)
  /\ UNCHANGED <<options, known, queueVars, privateVars, matches, faults>>

(* The framework disconnects a client whose onJoin threw. *)
JoinFails(s) ==
  /\ stage' = [stage EXCEPT ![s] = "failed"]
  /\ IF Connected(s) THEN OnLeave(s)
     ELSE UNCHANGED <<clients, known, queues, timers, cancels, pairing>>

(* Seeded bug: only the queue of the same game is searched. *)
AlreadyQueuedHere(s) ==
  \E t \in Range(queues[Key(s)]) : UserOf[t] = UserOf[s]

(* The user has an entry in some queue. *)
AlreadyQueued(s) ==
  \E k \in QueueKeys : \E t \in Range(queues[k]) : UserOf[t] = UserOf[s]

(* The token and the game are checked: clientMeta is set, whether or not   *)
(* the client is still there, and a public client enters its queue.        *)
AuthReply(s) ==
  /\ stage[s] = "auth"
  /\ \/ /\ options[s].mode = "PUBLIC"
        /\ ~AlreadyQueued(s)
        /\ stage' = [stage EXCEPT ![s] = "ticket"]
        /\ known' = known \cup {s}
        /\ queues' = [queues EXCEPT ![Key(s)] = Append(@, s)]
        /\ UNCHANGED <<clients, timers, cancels, pairing, faults>>
     \/ /\ options[s].mode = "PUBLIC"
        /\ AlreadyQueued(s)
        /\ stage' = [stage EXCEPT ![s] = "joined"]
        /\ clients' = Without(clients, s)
        /\ known' = IF Connected(s) THEN known ELSE known \cup {s}
        /\ UNCHANGED <<queues, timers, cancels, pairing, faults>>
     \/ /\ options[s].mode = "PRIVATE"
        /\ stage' = [stage EXCEPT ![s] = "joined"]
        /\ known' = known \cup {s}
        /\ UNCHANGED <<clients, queues, timers, cancels, pairing, faults>>
     \/ JoinFails(s) /\ Fault
  /\ UNCHANGED <<options, tickets, request, requests, invites, matches>>

(* Seeded bug: the queue is read but nothing is taken out of it. *)
TryMatchKeepingQueue(k) ==
  LET q == queues[k]
  IN  /\ matches' = matches \o [i \in 1..(Len(q) \div 2) |->
                                  NewMatch(q[2 * i - 1], q[2 * i], "queue")]
      /\ timers' = timers \ {q[i] : i \in 1..(2 * (Len(q) \div 2))}
      /\ UNCHANGED queues

(* tryMatchRealPlayers: the oldest entries are paired off. *)
TryMatchRealPlayers(k) ==
  LET q     == queues[k]
      pairs == Len(q) \div 2
  IN  /\ matches' = matches \o [i \in 1..pairs |->
                                  NewMatch(q[2 * i - 1], q[2 * i], "queue")]
      /\ timers' = timers \ {q[i] : i \in 1..(2 * pairs)}
      /\ queues' = [queues EXCEPT ![k] = SubSeq(q, 2 * pairs + 1, Len(q))]

TicketReply(s) ==
  /\ stage[s] = "ticket"
  /\ \/ /\ tickets' = [tickets EXCEPT ![s] = "QUEUED"]
        /\ stage' = [stage EXCEPT ![s] = "config"]
        /\ TryMatchRealPlayers(Key(s))
        /\ UNCHANGED <<clients, known, cancels, pairing, faults>>
     \/ /\ JoinFails(s) /\ Fault
        /\ tickets' \in {tickets, [tickets EXCEPT ![s] = "QUEUED"]}
        /\ UNCHANGED matches
  /\ UNCHANGED <<options, request, requests, invites>>

(* Seeded bug: the bot is scheduled without another look at the queue. *)
ConfigReplyScheduling(s) ==
  /\ stage[s] = "config"
  /\ \/ /\ stage' = [stage EXCEPT ![s] = "joined"]
        /\ timers' = timers \cup {s}
        /\ UNCHANGED <<clients, known, queues, cancels, pairing, faults>>
     \/ JoinFails(s) /\ Fault
  /\ UNCHANGED <<options, tickets, request, requests, invites, matches>>

(* Seeded bug: no bot is scheduled when a second player is in the queue.   *)
ConfigReplyForAlone(s) ==
  /\ stage[s] = "config"
  /\ \/ /\ stage' = [stage EXCEPT ![s] = "joined"]
        /\ timers' = IF queues[Key(s)] = <<s>> THEN timers \cup {s} ELSE timers
        /\ UNCHANGED <<clients, known, queues, cancels, pairing, faults>>
     \/ JoinFails(s) /\ Fault
  /\ UNCHANGED <<options, tickets, request, requests, invites, matches>>

(* A bot is scheduled for whoever is still queued; all games allow bots.   *)
ConfigReply(s) ==
  /\ stage[s] = "config"
  /\ \/ /\ stage' = [stage EXCEPT ![s] = "joined"]
        /\ timers' = IF s \in Range(queues[Key(s)]) THEN timers \cup {s} ELSE timers
        /\ UNCHANGED <<clients, known, queues, cancels, pairing, faults>>
     \/ JoinFails(s) /\ Fault
  /\ UNCHANGED <<options, tickets, request, requests, invites, matches>>

(* The bot timer. *)
FillWithBot(s) ==
  /\ s \in timers
  /\ timers' = timers \ {s}
  /\ IF s \in Range(queues[Key(s)])
     THEN /\ queues' = [queues EXCEPT ![Key(s)] = Without(@, s)]
          /\ matches' = Append(matches, NewMatch(s, Bot, "bot"))
     ELSE UNCHANGED <<queues, matches>>
  /\ UNCHANGED <<joinVars, tickets, cancels, privateVars, faults>>

-----------------------------------------------------------------------------
(* Private matches. *)

(* Messages are handled once onJoin is over, one request at a time; the    *)
(* request in the join options is made even if the client left meanwhile.  *)
MayRequest(s) ==
  /\ s \in known
  /\ Connected(s) \/ (options[s].mode = "PRIVATE" /\ requests[s] = 0)
  /\ stage[s] = "joined"
  /\ request[s] = NoRequest
  /\ s \notin pairing
  /\ requests[s] < options[s].asks

PrivateRequest(s, step, c) ==
  /\ MayRequest(s)
  /\ request' = [request EXCEPT ![s] = [step |-> step, code |-> c, peer |-> None]]
  /\ requests' = [requests EXCEPT ![s] = @ + 1]
  /\ UNCHANGED <<joinVars, queueVars, pairing, invites, matches, faults>>

CreatePrivate(s) ==
  \E c \in Codes :
    /\ invites[c] = Unused
    /\ \A t \in Sockets : request[t].code # c
    /\ PrivateRequest(s, "saving", c)

(* A guest has the code from its creator, so the invite was saved. *)
JoinPrivate(s) ==
  \E c \in Codes : invites[c] # Unused /\ PrivateRequest(s, "loading", c)

EndRequest(s) == request' = [request EXCEPT ![s] = NoRequest]

SaveReply(s) ==
  LET invite == [user |-> UserOf[s], key |-> Key(s)]
  IN  /\ request[s].step = "saving"
      /\ EndRequest(s)
      /\ \/ /\ invites' = [invites EXCEPT ![request[s].code] = invite]
            /\ UNCHANGED faults
         \/ /\ invites' \in {[invites EXCEPT ![request[s].code] = i] :
                               i \in {invite, Deleted}}
            /\ Fault
      /\ UNCHANGED <<joinVars, queueVars, pairing, requests, matches>>

(* The time to live of an invite is over. *)
Expire(c) ==
  /\ invites[c] \notin {Unused, Deleted}
  /\ invites' = [invites EXCEPT ![c] = Deleted]
  /\ UNCHANGED <<joinVars, queueVars, pairing, request, requests, matches, faults>>

(* The first client of a user, "none" if there is none. *)
ClientOf(user) ==
  LET mine == {i \in DOMAIN clients : clients[i] \in known /\ UserOf[clients[i]] = user}
  IN  IF mine = {} THEN None
      ELSE clients[CHOOSE i \in mine : \A j \in mine : i <= j]

(* The invite is there, for this game, and of somebody else. *)
Acceptable(s, invite) ==
  /\ invite \notin {Unused, Deleted}
  /\ invite.key = Key(s)
  /\ invite.user # UserOf[s]

(* Seeded bug: the sockets are not reserved before the invite is deleted.  *)
LoadReplyUnreserved(s) ==
  LET invite  == invites[request[s].code]
      creator == ClientOf(invite.user)
  IN  /\ request[s].step = "loading"
      /\ IF Acceptable(s, invite) /\ creator # None /\ {creator, s} \cap pairing = {}
         THEN request' = [request EXCEPT ![s].step = "deleting", ![s].peer = creator]
         ELSE EndRequest(s)
      /\ UNCHANGED <<joinVars, queueVars, pairing, requests, invites, matches, faults>>

(* loadPrivateSession answered: both sockets are reserved before the next  *)
(* await, or the guest is refused.                                         *)
LoadReply(s) ==
  LET invite  == invites[request[s].code]
      creator == ClientOf(invite.user)
  IN  /\ request[s].step = "loading"
      /\ \/ /\ IF Acceptable(s, invite) /\ creator # None /\ {creator, s} \cap pairing = {}
               THEN /\ pairing' = pairing \cup {creator, s}
                    /\ request' = [request EXCEPT ![s].step = "deleting",
                                                  ![s].peer = creator]
               ELSE EndRequest(s) /\ UNCHANGED pairing
            /\ UNCHANGED faults
         \/ EndRequest(s) /\ Fault /\ UNCHANGED pairing
      /\ UNCHANGED <<joinVars, queueVars, requests, invites, matches>>

(* deletePrivateSession answered.  If it throws, nothing ends the          *)
(* reservation.                                                            *)
DeleteReply(s) ==
  LET gone == [invites EXCEPT ![request[s].code] = Deleted]
  IN  /\ request[s].step = "deleting"
      /\ \/ /\ invites' = gone
            /\ matches' = Append(matches, NewMatch(request[s].peer, s, request[s].code))
            /\ request' = [request EXCEPT ![s].step = "making"]
            /\ UNCHANGED faults
         \/ /\ invites' \in {invites, gone}
            /\ EndRequest(s)
            /\ Fault
            /\ UNCHANGED matches
      /\ UNCHANGED <<joinVars, queueVars, pairing, requests>>

-----------------------------------------------------------------------------
(* createAndNotifyMatch. *)

(* The call goes on. *)
Advance(i, step) == matches' = [matches EXCEPT ![i].step = step]

(* The call is over, and with it the private request that awaited it. *)
Finish(i) ==
  request' = [s \in Sockets |->
    IF ~Public(matches[i]) /\ s = matches[i].p2 THEN NoRequest ELSE request[s]]

(* Seeded bug: the players of a match that could not be created stay       *)
(* reserved.                                                               *)
CreationFailsReserved(i, row) ==
  /\ Fault
  /\ matches' = [matches EXCEPT ![i].step = "failed", ![i].row = row]
  /\ UNCHANGED pairing
  /\ Finish(i)

(* The catch block: both players are told and no longer reserved.          *)
CreationFails(i, row) ==
  /\ Fault
  /\ matches' = [matches EXCEPT ![i].step = "failed", ![i].row = row]
  /\ pairing' = pairing \ SocketsOf(matches[i])
  /\ Finish(i)

(* Game and players are checked once more.  (One player would not be       *)
(* matched with themself.)                                                 *)
CheckReply(i) ==
  /\ matches[i].step = "check"
  /\ \/ /\ \/ matches[i].p2 = Bot
           \/ matches[i].p2 # Bot /\ UserOf[matches[i].p1] # UserOf[matches[i].p2]
        /\ Advance(i, "create")
        /\ UNCHANGED <<pairing, request, faults>>
     \/ CreationFails(i, FALSE)
  /\ UNCHANGED <<joinVars, queueVars, requests, invites>>

(* createMatchRecord: the row, then its events. *)
CreateReply(i) ==
  /\ matches[i].step = "create"
  /\ \/ /\ matches' = [matches EXCEPT ![i].step = "tickets", ![i].row = TRUE]
        /\ UNCHANGED <<pairing, request, faults>>
     \/ \E row \in BOOLEAN : CreationFails(i, row)
  /\ UNCHANGED <<joinVars, queueVars, requests, invites>>

(* The tickets that exist become MATCHED; a private match has none.        *)
TicketsReply(i) ==
  LET marked == [s \in Sockets |->
        IF s \in SocketsOf(matches[i]) /\ Public(matches[i]) /\ tickets[s] # None
        THEN "MATCHED" ELSE tickets[s]]
  IN  /\ matches[i].step = "tickets"
      /\ \/ /\ tickets' = marked
            /\ Advance(i, "room")
            /\ UNCHANGED <<pairing, request, faults>>
         \/ tickets' \in {tickets, marked} /\ CreationFails(i, TRUE)
      /\ UNCHANGED <<joinVars, queues, timers, cancels, requests, invites>>

(* The room is created and match_found sent. *)
RoomReply(i) ==
  /\ matches[i].step = "room"
  /\ \/ Advance(i, "done") /\ Finish(i) /\ UNCHANGED <<pairing, faults>>
     \/ CreationFails(i, TRUE)
  /\ UNCHANGED <<joinVars, queueVars, requests, invites>>

-----------------------------------------------------------------------------
ClientStep ==
  \E s \in Sockets : Join(s) \/ Leave(s) \/ CreatePrivate(s) \/ JoinPrivate(s)

JoinStep(s) == AuthReply(s) \/ TicketReply(s) \/ ConfigReply(s)

RequestStep(s) == SaveReply(s) \/ LoadReply(s) \/ DeleteReply(s)

CreationStep ==
  \E i \in DOMAIN matches :
    CheckReply(i) \/ CreateReply(i) \/ TicketsReply(i) \/ RoomReply(i)

Next ==
  \/ ClientStep
  \/ \E s \in Sockets : JoinStep(s) \/ RequestStep(s) \/ CancelReply(s) \/ FillWithBot(s)
  \/ \E c \in Codes : Expire(c)
  \/ CreationStep

Spec == Init /\ [][Next]_vars

(* Every call is answered sooner or later, and timers fire. *)
Fairness ==
  /\ \A s \in Sockets : WF_vars(JoinStep(s)) /\ WF_vars(RequestStep(s))
                        /\ WF_vars(CancelReply(s)) /\ WF_vars(FillWithBot(s))
  /\ WF_vars(CreationStep)

FairSpec == Spec /\ Fairness

=============================================================================
