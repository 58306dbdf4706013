------------------------------ MODULE DuelClient ------------------------------
(***************************************************************************)
(* The browser side of a duel: GameSessionClient of                        *)
(* packages/game-sdk/src/client/index.ts, as the page of the Penalty game  *)
(* uses it (apps/game-penalty/src/scenes/GameScene.ts).                    *)
(*                                                                         *)
(* The page makes a session object for every search and destroys it again. *)
(* A destroyed session may still have a call in flight, so all of them are *)
(* kept.  A session has at most one call at a time.  leaveQueue and        *)
(* leaveMatch, and with them generation, are only used by destroy here.    *)
(*                                                                         *)
(* Outside: connections, which the framework opens and which may break,    *)
(* and the player's seat in a duel as penalty-room.ts keeps it.  A call    *)
(* takes effect when it is answered, or its answer is lost.  A reconnection*)
(* token names the connection that got it.                                 *)
(***************************************************************************)
EXTENDS Integers, Sequences

CONSTANTS
  MaxSessions,  \* bound: session objects made
  MaxConns,     \* bound: connections opened
  MaxDuels,     \* bound: matches found
  LateFailures  \* whether the join of a cancelled search may fail

ASSUME ClientAssumption ==
  /\ MaxSessions \in Nat /\ MaxConns \in Nat /\ MaxDuels \in Nat
  /\ LateFailures \in BOOLEAN

VARIABLES
  client,    \* the sessions: [live, lobby, match, token, over, call, duel]
  conns,     \* connections: [of, duel, open]; duel 0 is the lobby
  duels,     \* the player's seat in each match: [seat, conn, stage]
  session,   \* this.session of the page, 0 if there is none
  busy,
  finished,
  shown,     \* this.snapshot is set
  saved,     \* the token in sessionStorage, 0 if there is none
  hosts,     \* session messages of the shell since the page was loaded
  restoring  \* restoreMatch calls that await the digest

outside  == <<conns, duels>>
page     == <<session, busy, finished, shown, saved>>
keyed    == <<hosts, restoring>>
vars     == <<client, outside, page, keyed>>

Sessions == 1..Len(client)
Duels    == DOMAIN duels

(* A session in the hands of the page, with its first call. *)
NewSession(call, t) == [live |-> TRUE, lobby |-> 0, match |-> 0, token |-> t,
                        over |-> FALSE, call |-> call, duel |-> 0]

Open(c)    == c # 0 /\ conns[c].open
Opened     == Len(conns) + 1
Shut(cs)   == [c \in DOMAIN conns |-> [conns[c] EXCEPT !.open = @ /\ c \notin cs]]

(* The seats of connections that end: while the duel is played a consented *)
(* leave gives the seat up, and a broken connection may come back.         *)
Vacate(cs, to) ==
  [m \in Duels |->
     IF duels[m].seat = "held" /\ duels[m].conn \in cs
     THEN [duels[m] EXCEPT !.seat = IF duels[m].stage = "playing" THEN to ELSE "gone"]
     ELSE duels[m]]

Init ==
  /\ client = <<>> /\ conns = <<>> /\ duels = <<>>
  /\ session = 0 /\ busy = FALSE /\ finished = FALSE /\ shown = FALSE /\ saved = 0
  /\ hosts = 0 /\ restoring = 0

-----------------------------------------------------------------------------
(* destroy, and the ways to it. *)

RoomsOf(n) == IF n = 0 THEN {} ELSE {client[n].lobby, client[n].match} \ {0}

(* What destroy leaves of the sessions: the call in flight, if any. *)
Destroyed(n) ==
  IF n = 0 THEN client
  ELSE [client EXCEPT ![n].live = FALSE, ![n].lobby = 0, ![n].match = 0, ![n].token = 0]

LeaveRooms(n) == conns' = Shut(RoomsOf(n)) /\ duels' = Vacate(RoomsOf(n), "gone")

(* The page lets go of session n, which it need not be holding. *)
LetGo == session' = 0 /\ busy' = FALSE

(* The cancel button.  A found match hides it, the next controls() shows it. *)
Cancel ==
  /\ busy /\ ~finished /\ ~shown
  /\ client' = Destroyed(session)
  /\ LeaveRooms(session)
  /\ LetGo
  /\ UNCHANGED <<finished, shown, saved, keyed>>

(* The error listener: without a duel to go back to the session is given   *)
(* up.  cs are connections that just broke, kept the session otherwise.    *)
OnError(n, cs, kept) ==
  IF ~shown \/ finished
  THEN /\ client' = [Destroyed(n) EXCEPT ![n].call = kept[n].call]
       /\ conns' = Shut(cs \cup RoomsOf(n))
       /\ duels' = Vacate(RoomsOf(n), "gone")
       /\ LetGo
  ELSE client' = kept /\ conns' = Shut(cs) /\ UNCHANGED <<duels, session, busy>>

-----------------------------------------------------------------------------
(* Searching: start, and the lobby. *)

Start ==
  /\ ~busy \/ finished
  /\ hosts > 0 /\ Len(client) < MaxSessions
  /\ client' = Append(Destroyed(session), NewSession("lobby", 0))
  /\ LeaveRooms(session)
  /\ session' = Len(client')
  /\ busy' = TRUE /\ finished' = FALSE /\ shown' = FALSE
  /\ UNCHANGED <<saved, keyed>>

Answered(n) == [client EXCEPT ![n].call = "none"]

(* Seeded bug: a lobby that arrives late is kept open. *)
AcceptAnyLobby(n) ==
  /\ client[n].call = "lobby" /\ Len(conns) < MaxConns
  /\ conns' = Append(conns, [of |-> n, duel |-> 0, open |-> TRUE])
  /\ client' = [Answered(n) EXCEPT ![n].lobby = Opened]
  /\ UNCHANGED <<duels, page, keyed>>

(* acceptLobby: a lobby that arrives after destroy is left at once. *)
AcceptLobby(n) ==
  /\ client[n].call = "lobby" /\ Len(conns) < MaxConns
  /\ conns' = Append(conns, [of |-> n, duel |-> 0, open |-> client[n].live])
  /\ client' = [Answered(n) EXCEPT ![n].lobby = IF client[n].live THEN Opened ELSE 0]
  /\ UNCHANGED <<duels, page, keyed>>

(* The catch of start does not look whether its session is still the       *)
(* page's.                                                                 *)
LobbyFails(n) ==
  /\ client[n].call = "lobby"
  /\ client[n].live \/ LateFailures
  /\ client' = [Destroyed(n) EXCEPT ![n].call = "none"]
  /\ LeaveRooms(n)
  /\ LetGo
  /\ UNCHANGED <<finished, shown, saved, keyed>>

(* The lobby connection breaks, or the lobby reports an error. *)
LobbyDrop(n) ==
  /\ Open(client[n].lobby)
  /\ OnError(n, {client[n].lobby}, [client EXCEPT ![n].lobby = 0])
  /\ UNCHANGED <<finished, shown, saved, keyed>>

(* match_found: the session asks for its seat. *)
MatchFound(n) ==
  /\ Open(client[n].lobby) /\ client[n].call = "none" /\ Len(duels) < MaxDuels
  /\ duels' = Append(duels, [seat |-> "reserved", conn |-> 0, stage |-> "playing"])
  /\ client' = [client EXCEPT ![n].over = FALSE, ![n].call = "match", ![n].duel = Len(duels')]
  /\ UNCHANGED <<conns, page, keyed>>

-----------------------------------------------------------------------------
(* Joining a duel and coming back to it. *)

(* rememberMatch keeps the token of the page's session, if it has one.     *)
Remembered(n, c) ==
  IF session = n THEN c
  ELSE IF session # 0 /\ client[session].token # 0 THEN client[session].token ELSE saved

(* Seeded bug: the token of the new connection is not taken over. *)
TakeSeatKeepingToken(n, m) ==
  /\ conns' = Append(Shut({client[n].lobby}), [of |-> n, duel |-> m, open |-> client[n].live])
  /\ duels' = [duels EXCEPT ![m].conn = Opened,
                            ![m].seat = IF client[n].live THEN "held" ELSE "gone"]
  /\ IF client[n].live
     THEN /\ client' = [Answered(n) EXCEPT ![n].match = Opened, ![n].lobby = 0,
                          ![n].token = IF @ = 0 THEN Opened ELSE @]
          /\ saved' = Remembered(n, client'[n].token)
     ELSE client' = Answered(n) /\ UNCHANGED saved

(* Session n gets the seat of duel m on a new connection. *)
TakeSeat(n, m) ==
  /\ conns' = Append(Shut({client[n].lobby}), [of |-> n, duel |-> m, open |-> client[n].live])
  /\ duels' = [duels EXCEPT ![m].conn = Opened,
                            ![m].seat = IF client[n].live THEN "held" ELSE "gone"]
  /\ IF client[n].live
     THEN /\ client' = [Answered(n) EXCEPT ![n].match = Opened, ![n].token = Opened, ![n].lobby = 0]
          /\ saved' = Remembered(n, Opened)
     ELSE client' = Answered(n) /\ UNCHANGED saved

(* handleMatchFound after its await. *)
JoinMatch(n) ==
  LET m == client[n].duel
  IN  /\ client[n].call = "match" /\ Len(conns) < MaxConns
      /\ duels[m].seat = "reserved" /\ duels[m].stage # "closed"
      /\ TakeSeat(n, m)
      /\ UNCHANGED <<session, busy, finished, shown, keyed>>

(* The answer is lost: the seat was taken by a connection that is broken.  *)
SeatLost(m) ==
  /\ conns' = Append(conns, [of |-> 0, duel |-> m, open |-> FALSE])
  /\ duels' = [duels EXCEPT ![m].conn = Opened,
                            ![m].seat = IF duels[m].stage = "playing" THEN "grace" ELSE "gone"]

(* joinById fails.  The lobby is still there, or its end was reported.     *)
JoinRefused(n) ==
  /\ client[n].call = "match"
  /\ IF client[n].live /\ client[n].lobby # 0
     THEN OnError(n, {}, Answered(n))
     ELSE client' = Answered(n) /\ UNCHANGED <<outside, session, busy>>
  /\ UNCHANGED <<finished, shown, saved, keyed>>

JoinLost(n) ==
  LET m == client[n].duel
  IN  /\ client[n].call = "match" /\ Len(conns) < MaxConns
      /\ duels[m].seat = "reserved" /\ duels[m].stage # "closed"
      /\ SeatLost(m)
      /\ UNCHANGED <<client, page, keyed>>

(* The seat the token of session n still opens. *)
Reserved(n, m) ==
  /\ duels[m].seat = "grace" /\ duels[m].conn = client[n].token
  /\ duels[m].stage # "closed"

(* One turn of the loop of reconnectMatch succeeds. *)
Reconnected(n) ==
  /\ client[n].call = "reconnect" /\ Len(conns) < MaxConns
  /\ \E m \in Duels : Reserved(n, m) /\ TakeSeat(n, m)
  /\ UNCHANGED <<session, busy, finished, shown, keyed>>

ReconnectLost(n) ==
  /\ client[n].call = "reconnect" /\ Len(conns) < MaxConns
  /\ \E m \in Duels : Reserved(n, m) /\ SeatLost(m)
  /\ UNCHANGED <<client, page, keyed>>

(* Seeded bug: the expiry is shown, but the duel counts as running. *)
ReconnectExpiredQuietly(n) ==
  /\ client[n].call = "reconnect"
  /\ saved' = IF client[n].live THEN 0 ELSE saved
  /\ client' = [Answered(n) EXCEPT ![n].match = 0, ![n].token = 0]
  /\ UNCHANGED <<outside, session, busy, finished, shown, keyed>>

(* The loop ends: 30 s are over, or the session was destroyed. *)
ReconnectExpired(n) ==
  /\ client[n].call = "reconnect"
  /\ client' = [Destroyed(n) EXCEPT ![n].call = "none"]
  /\ IF client[n].live
     THEN finished' = TRUE /\ saved' = 0 /\ LetGo
     ELSE UNCHANGED <<finished, saved, session, busy>>
  /\ UNCHANGED <<outside, shown, keyed>>

-----------------------------------------------------------------------------
(* The duel as the session sees it. *)

(* Messages reach the session whose current match is this connection.      *)
Listens(n) == client[n].live /\ Open(client[n].match)

(* A snapshot is rendered.  One that tells the end forgets the duel.       *)
Render(n, end) ==
  /\ client' = [client EXCEPT ![n].over = @ \/ end]
  /\ shown' = TRUE
  /\ finished' = end
  /\ saved' = IF end THEN 0 ELSE Remembered(n, client[n].token)
  /\ UNCHANGED <<session, busy>>

Snapshot(n) ==
  /\ Listens(n)
  /\ Render(n, duels[conns[client[n].match].duel].stage = "published")
  /\ UNCHANGED <<outside, keyed>>

(* The connection of the match breaks: reconnect, unless it is over. *)
MatchDrop(n) ==
  LET c == client[n].match
  IN  /\ Listens(n)
      /\ conns' = Shut({c})
      /\ duels' = Vacate({c}, "grace")
      /\ client' = IF client[n].over THEN client ELSE [client EXCEPT ![n].call = "reconnect"]
      /\ UNCHANGED <<page, keyed>>

(* The room: the duel ends or is cancelled, is settled and published, and  *)
(* the room closes.                                                        *)
Stage(m, from, to) == duels[m].stage = from /\ duels' = [duels EXCEPT ![m].stage = to]

EndDuel(m) ==
  /\ Stage(m, "playing", "over")
  /\ UNCHANGED <<client, conns, page, keyed>>

Publish(m) ==
  /\ Stage(m, "over", "published")
  /\ IF duels[m].seat = "held"
     THEN Render(conns[duels[m].conn].of, TRUE)
     ELSE UNCHANGED <<client, page>>
  /\ UNCHANGED <<conns, keyed>>

CloseRoom(m) ==
  /\ duels[m].stage = "published"
  /\ duels' = [duels EXCEPT ![m].stage = "closed", ![m].seat = "gone"]
  /\ IF duels[m].seat = "held"
     THEN LET n == conns[duels[m].conn].of
          IN  /\ conns' = Shut({duels[m].conn})
              /\ client' = IF client[n].over THEN client ELSE [client EXCEPT ![n].call = "reconnect"]
     ELSE UNCHANGED <<client, conns>>
  /\ UNCHANGED <<page, keyed>>

(* The 30 s of grace are over: the seat is given up. *)
GraceEnds(m) ==
  /\ duels[m].seat = "grace"
  /\ duels' = [duels EXCEPT ![m].seat = "gone"]
  /\ UNCHANGED <<client, conns, page, keyed>>

-----------------------------------------------------------------------------
(* Restoring a duel after the page was reloaded. *)

(* The shell sends the session when the frame is loaded and when the game  *)
(* is ready.  From then on the key of the storage is taken to be known: a  *)
(* digest is quicker than a search.                                        *)
HostSession ==
  /\ hosts < 2 /\ hosts' = hosts + 1
  /\ restoring' = IF session = 0 THEN restoring + 1 ELSE restoring
  /\ UNCHANGED <<client, outside, page>>

(* restoreMatch after the digest.  A token saved more than two minutes ago *)
(* is forgotten; that of a duel being played is saved again and again.     *)
Restore ==
  /\ restoring > 0 /\ restoring' = restoring - 1
  /\ \/ /\ saved' = 0
        /\ \A n \in Sessions : ~Listens(n)
        /\ UNCHANGED <<client, session, busy>>
     \/ /\ saved = 0 \/ session # 0
        /\ UNCHANGED <<client, session, busy, saved>>
     \/ /\ session = 0 /\ saved # 0 /\ Len(client) < MaxSessions
        /\ client' = Append(client, NewSession("reconnect", saved))
        /\ session' = Len(client') /\ busy' = TRUE
        /\ UNCHANGED saved
  /\ UNCHANGED <<outside, finished, shown, hosts>>

(* The page is reloaded or closed: its sessions and calls are gone without *)
(* a word to the server.  The storage of the tab stays.                    *)
Reload ==
  /\ LET all == DOMAIN conns
     IN  conns' = Shut(all) /\ duels' = Vacate(all, "grace")
  /\ client' = [n \in Sessions |-> [NewSession("none", 0) EXCEPT !.live = FALSE]]
  /\ session' = 0 /\ busy' = FALSE /\ finished' = FALSE /\ shown' = FALSE
  /\ hosts' = 0 /\ restoring' = 0
  /\ UNCHANGED saved

-----------------------------------------------------------------------------
SessionStep(n) ==
  \/ AcceptLobby(n) \/ LobbyFails(n) \/ LobbyDrop(n) \/ MatchFound(n)
  \/ JoinMatch(n) \/ JoinRefused(n) \/ JoinLost(n)
  \/ Reconnected(n) \/ ReconnectLost(n) \/ ReconnectExpired(n)
  \/ Snapshot(n) \/ MatchDrop(n)

RoomStep(m) == EndDuel(m) \/ Publish(m) \/ CloseRoom(m) \/ GraceEnds(m)

Next ==
  \/ Start \/ Cancel \/ HostSession \/ Restore \/ Reload
  \/ \E n \in Sessions : SessionStep(n)
  \/ \E m \in Duels : RoomStep(m)

Spec == Init /\ [][Next]_vars

-----------------------------------------------------------------------------
(* Properties. *)

(* docs/demo-readiness-2026-09-09.md: cancelled or destroyed clients       *)
(* cannot reopen a late-arriving room.  No connection outlives its session.*)
DestroyedHoldNothing ==
  \A c \in DOMAIN conns : conns[c].open => client[conns[c].of].live

(* docs/demo-readiness-2026-09-09.md: sessions can resume after a full     *)
(* page refresh.  While a session plays a duel, the token in the storage   *)
(* is the one its seat will open for.                                      *)
SavedTokenRestores ==
  \A n \in Sessions : \A m \in Duels :
    /\ Listens(n) /\ conns[client[n].match].duel = m
    /\ duels[m].seat = "held" /\ duels[m].stage = "playing"
    => saved = duels[m].conn

(* The player is never left with a page on which nothing can be done: when *)
(* neither a search nor a cancellation is offered, a duel is on, or a call *)
(* that will bring it on or free the page.                                 *)
NoDeadEnd ==
  /\ busy /\ ~finished
  /\ shown \/ (session # 0 /\ client[session].duel # 0)
  => \E n \in Sessions : client[n].live /\ (Open(client[n].match) \/ client[n].call # "none")

-----------------------------------------------------------------------------
(* The inductive invariants ClientProofs proves. *)

Calls  == {"none", "lobby", "match", "reconnect"}
Client == [live : BOOLEAN, lobby : Nat, match : Nat, token : Nat, over : BOOLEAN,
           call : Calls, duel : Nat]
Conn   == [of : Nat, duel : Nat, open : BOOLEAN]
Duel   == [seat : {"reserved", "held", "grace", "gone"}, conn : Nat,
           stage : {"playing", "over", "published", "closed"}]

TypeOK ==
  /\ client \in Seq(Client) /\ conns \in Seq(Conn) /\ duels \in Seq(Duel)
  /\ session \in 0..Len(client) /\ saved \in Nat
  /\ {busy, finished, shown} \subseteq BOOLEAN
  /\ hosts \in Nat /\ restoring \in Nat

(* The connections of a session are its own.  It has none when it is       *)
(* destroyed, and never asks for one while it has another of that kind.    *)
SessionInv(n) ==
  LET s == client[n]
  IN  /\ s.lobby # 0 => s.lobby \in DOMAIN conns /\ conns[s.lobby].of = n /\ conns[s.lobby].duel = 0
      /\ s.match # 0 => s.match \in DOMAIN conns /\ conns[s.match].of = n /\ conns[s.match].duel # 0
      /\ ~s.live => s.lobby = 0 /\ s.match = 0
      /\ s.call \in {"lobby", "match"} \/ s.lobby # 0 => s.match = 0
      /\ s.call \in {"lobby", "reconnect"} => s.lobby = 0
      /\ s.call = "reconnect" => ~Open(s.match)
      /\ s.call = "match" => s.duel \in Duels
      /\ s.call # "none" => ~s.over
      /\ Open(s.match) => s.token = s.match
      /\ s.over /\ Open(s.match) => duels[conns[s.match].duel].stage = "published"

(* An open connection is known to the session that made it, and that of a  *)
(* duel holds the seat.                                                    *)
ConnInv(c) ==
  conns[c].open =>
    LET n == conns[c].of
        m == conns[c].duel
    IN  /\ n \in Sessions /\ client[n].live
        /\ IF m = 0 THEN client[n].lobby = c
           ELSE client[n].match = c /\ m \in Duels /\ duels[m].seat = "held" /\ duels[m].conn = c

SeatInv(m) ==
  duels[m].seat = "held" =>
    LET c == duels[m].conn IN c \in DOMAIN conns /\ conns[c].open /\ conns[c].duel = m

ConnsInv ==
  /\ TypeOK
  /\ \A n \in Sessions : SessionInv(n)
  /\ \A c \in DOMAIN conns : ConnInv(c)
  /\ \A m \in Duels : SeatInv(m)

(* What the page shows is of its session n, or is over; and the session    *)
(* has something to wait for.                                              *)
HeldInv(n) ==
  LET s == client[n]
  IN  /\ s.call = "lobby" => s.duel = 0 /\ ~shown
      /\ s.lobby # 0 => ~shown /\ (s.duel # 0 => s.call = "match")
      /\ s.call = "match" => s.lobby # 0
      /\ s.over => finished
      /\ s.call = "none" => s.lobby # 0 \/ Open(s.match) \/ s.over

(* The token of the session's seat is saved while its duel is played. *)
TokenSaved(n) ==
  LET c == client[n].match
  IN  Open(c) /\ duels[conns[c].duel].stage = "playing" => saved = c

(* The page knows the one session that lives, and is busy with it. *)
PageInv ==
  /\ \A n \in Sessions : client[n].live <=> n = session
  /\ busy <=> session # 0
  /\ session = 0 => ~shown \/ finished
  /\ session # 0 => HeldInv(session) /\ TokenSaved(session)

ClientInv == ConnsInv /\ PageInv

=============================================================================
