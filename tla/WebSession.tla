------------------------------ MODULE WebSession ------------------------------
(***************************************************************************)
(* Who is playing: the session of the web shell, HomePage of               *)
(* apps/web/src/app/page.tsx, over the accounts and sessions of the API    *)
(* (apps/api/src/auth, packages/domain/src/players.ts).                    *)
(*                                                                         *)
(* An action is what one handler of the page does up to its next await.  A *)
(* request takes effect when it is answered; or its answer is lost (the    *)
(* page gives up after 8 s), with or without the effect.                   *)
(*                                                                         *)
(* The page sets its token state and tokenRef together: they are one       *)
(* variable.  The catalog, rankings and history are left out; all they     *)
(* decide about the session is whether guests are offered.                 *)
(***************************************************************************)
EXTENDS Integers, Sequences, FiniteSets

CONSTANTS
  Members,    \* users with an email address, registered or not yet
  Guests,     \* users the API creates for guests
  Visits,     \* what an earlier visit left: no session, or one
  MaxOps,     \* bound: logins, registrations, claims, guests and logouts
  MaxBoots,   \* bound: runs of bootstrap
  MaxRefreshes \* bound: refreshPlayer calls of the timers in flight at once

(* A session row.  It also says during which operation of the page it was  *)
(* asked for; a token is the number of its row.                            *)
Users     == Members \cup Guests
Row(u, e) == [user |-> u, active |-> TRUE, op |-> e]

ASSUME SessionAssumption ==
  /\ Members \cap Guests = {}
  /\ MaxOps \in Nat /\ MaxBoots \in Nat /\ MaxRefreshes \in Nat
  /\ Visits \subseteq {<<>>} \cup {<<Row(u, 0)>> : u \in Users}

VARIABLES
  account,   \* User row of each user: "none", "guest" or "member"
  sessions,  \* Session rows
  stored,    \* the token in the browser's storage, 0 if there is none
  token,     \* the token of the page, 0 if there is none
  player,    \* the player shown: [user, guest], or Nobody
  epoch,     \* sessionEpoch
  authBusy,
  op,        \* the login, claim or guest request: [kind, step, epoch, token]
  boot,      \* bootstrap, while it runs: [step, epoch, token]
  boots,     \* runs of bootstrap so far
  refreshes, \* refreshPlayer calls of the timers and of closeGame
  logouts    \* tokens whose logout is being requested

serverVars == <<account, sessions>>
pageVars   == <<stored, token, player>>
opVars     == <<authBusy, op>>
bootVars   == <<boot, boots>>
sideVars   == <<refreshes, logouts>>
webVars    == <<serverVars, pageVars, epoch, opVars, bootVars, sideVars>>

Nobody == [user |-> "nobody", guest |-> FALSE]
NoOp   == [kind |-> "none", step |-> "idle", epoch |-> 0, token |-> 0]
NoBoot == [step |-> "idle", epoch |-> 0, token |-> 0]
Newest == Len(sessions) + 1

(* AuthGuard: an active session of an active user. *)
Accepted(t) == t \in DOMAIN sessions /\ sessions[t].active

WebInit ==
  /\ sessions \in Visits
  /\ stored = Len(sessions)
  /\ account = [u \in Users |->
       IF \E t \in DOMAIN sessions : sessions[t].user = u
       THEN IF u \in Guests THEN "guest" ELSE "member"
       ELSE "none"]
  /\ token = 0 /\ player = Nobody /\ epoch = 0
  /\ authBusy = FALSE /\ op = NoOp
  /\ boot = NoBoot /\ boots = 0
  /\ refreshes = {} /\ logouts = {}

-----------------------------------------------------------------------------
(* applySession and refreshPlayer, which every way to a session ends with. *)

(* Seeded bug: the player of the previous session stays on the page.       *)
ApplySessionKeepingPlayer(t, e) ==
  IF e = epoch THEN stored' = t /\ token' = t /\ UNCHANGED player ELSE UNCHANGED pageVars

(* Seeded bug: nobody looks whether the operation is still the latest.     *)
ApplySessionAnyEpoch(t, e) ==
  /\ stored' = t /\ token' = t
  /\ player' = IF token = t THEN player ELSE Nobody

(* applySession up to its await.  It does nothing for an operation that    *)
(* was overtaken.                                                          *)
ApplySession(t, e) ==
  IF e = epoch
  THEN /\ stored' = t /\ token' = t
       /\ player' = IF token = t THEN player ELSE Nobody
  ELSE UNCHANGED pageVars

(* refreshPlayer is answered with the player of the token, and the page    *)
(* still wants that answer.                                                *)
Wanted(t, e) == Accepted(t) /\ token = t /\ epoch = e

Show(t) ==
  LET u == sessions[t].user IN player' = [user |-> u, guest |-> account[u] = "guest"]

-----------------------------------------------------------------------------
(* The API. *)

(* POST /auth/guest: a new user with a session. *)
IssueGuest(g, e) ==
  /\ account[g] = "none"
  /\ account' = [account EXCEPT ![g] = "guest"]
  /\ sessions' = Append(sessions, Row(g, e))

(* POST /auth/register and /auth/login. *)
IssueMember(u, e) ==
  /\ account' = [account EXCEPT ![u] = "member"]
  /\ sessions' = Append(sessions, Row(u, e))

(* POST /auth/claim: the guest of the token becomes a member.  Its guest   *)
(* session stays valid beside the new one.                                 *)
Claim(t, e) ==
  /\ Accepted(t)
  /\ account[sessions[t].user] = "guest"
  /\ IssueMember(sessions[t].user, e)

(* A session expires, or its user is suspended, or logs out elsewhere.     *)
Reject(t) ==
  /\ Accepted(t)
  /\ sessions' = [sessions EXCEPT ![t].active = FALSE]
  /\ UNCHANGED <<account, pageVars, epoch, opVars, bootVars, sideVars>>

(* POST /auth/logout is answered, or lost. *)
LogoutReply(t) ==
  /\ t \in logouts
  /\ logouts' = logouts \ {t}
  /\ \/ sessions' = [sessions EXCEPT ![t].active = FALSE]
     \/ UNCHANGED sessions
  /\ UNCHANGED <<account, pageVars, epoch, opVars, bootVars, refreshes>>

-----------------------------------------------------------------------------
(* bootstrap: when the page is opened, and again when the connection comes *)
(* back or the player presses retry.  bootstrapBusy is boot # NoBoot.      *)

To(step)        == boot' = [boot EXCEPT !.step = step]
BootTo(step, t) == boot' = [boot EXCEPT !.step = step, !.token = t]

Bootstrap ==
  /\ boot = NoBoot
  /\ boots < MaxBoots
  /\ boots' = boots + 1
  /\ IF stored # 0
     THEN /\ ApplySession(stored, epoch)
          /\ boot' = [step |-> "me", epoch |-> epoch, token |-> stored]
     ELSE /\ boot' = [step |-> "catalog", epoch |-> epoch, token |-> 0]
          /\ UNCHANGED pageVars
  /\ UNCHANGED <<serverVars, epoch, opVars, sideVars>>

(* The player of the saved session arrives; or it does not, and the saved  *)
(* session is dropped; or the request failed, and it is kept.              *)
BootMe ==
  /\ boot.step = "me"
  /\ \/ /\ Wanted(boot.token, boot.epoch)
        /\ Show(boot.token)
        /\ To("last")
        /\ UNCHANGED <<stored, token>>
     \/ /\ ~Wanted(boot.token, boot.epoch)
        /\ IF boot.epoch = epoch
           THEN /\ stored' = 0 /\ token' = 0 /\ player' = Nobody
                /\ To("catalog")
           ELSE To("last") /\ UNCHANGED pageVars
     \/ To("last") /\ UNCHANGED pageVars
  /\ UNCHANGED <<serverVars, epoch, opVars, boots, sideVars>>

(* The catalog says whether there is guest play, or could not be loaded.   *)
BootCatalog ==
  /\ boot.step = "catalog"
  /\ \/ boot.epoch = epoch /\ To("guest")
     \/ To("last")
  /\ UNCHANGED <<serverVars, pageVars, epoch, opVars, boots, sideVars>>

(* probeGuest. *)
BootGuest ==
  /\ boot.step = "guest"
  /\ \/ /\ \E g \in Guests : IssueGuest(g, boot.epoch)
        /\ \/ ApplySession(Newest, boot.epoch) /\ BootTo("guestMe", Newest)
           \/ To("last") /\ UNCHANGED pageVars
     \/ To("last") /\ UNCHANGED <<serverVars, pageVars>>
  /\ UNCHANGED <<epoch, opVars, boots, sideVars>>

BootGuestMe ==
  /\ boot.step = "guestMe"
  /\ \/ Wanted(boot.token, boot.epoch) /\ Show(boot.token)
     \/ UNCHANGED player
  /\ To("last")
  /\ UNCHANGED <<serverVars, stored, token, epoch, opVars, boots, sideVars>>

(* Seeded bug: bootstrap stays busy when it was overtaken. *)
BootEndUnlessStale ==
  /\ boot.step = "last" /\ boot.epoch = epoch
  /\ boot' = NoBoot
  /\ UNCHANGED <<serverVars, pageVars, epoch, opVars, boots, sideVars>>

(* The catalog request, which is awaited last, ends too. *)
BootEnd ==
  /\ boot.step = "last"
  /\ boot' = NoBoot
  /\ UNCHANGED <<serverVars, pageVars, epoch, opVars, boots, sideVars>>

-----------------------------------------------------------------------------
(* What the player does.  The buttons are disabled while authBusy, and the *)
(* page is there only once bootstrap has begun.                            *)

Begin(kind) ==
  /\ ~authBusy /\ boots > 0 /\ epoch < MaxOps
  /\ epoch' = epoch + 1
  /\ authBusy' = TRUE
  /\ op' = [kind |-> kind, step |-> "post", epoch |-> epoch', token |-> token]
  /\ UNCHANGED <<serverVars, pageVars, bootVars, sideVars>>

(* submitAuth: a guest claims the account, nobody logs in or registers.    *)
SubmitAuth  == \/ player # Nobody /\ player.guest /\ Begin("claim")
               \/ player = Nobody /\ Begin("enter")
CreateGuest == Begin("guest")

Issued ==
  CASE op.kind = "claim" -> Claim(op.token, op.epoch)
    [] op.kind = "enter" -> \E u \in Members : IssueMember(u, op.epoch)
    [] op.kind = "guest" -> \E g \in Guests : IssueGuest(g, op.epoch)

(* The request is over; a newer operation owns authBusy. *)
EndOp ==
  /\ op' = NoOp
  /\ authBusy' = IF op.epoch = epoch THEN FALSE ELSE authBusy

(* A token arrives; or the request is refused or its answer lost.          *)
OpReply ==
  /\ op.step = "post"
  /\ \/ /\ Issued
        /\ \/ /\ op.epoch = epoch
              /\ ApplySession(Newest, op.epoch)
              /\ op' = [op EXCEPT !.step = "me", !.token = Newest]
              /\ UNCHANGED authBusy
           \/ EndOp /\ UNCHANGED pageVars
     \/ EndOp /\ UNCHANGED <<serverVars, pageVars>>
  /\ UNCHANGED <<epoch, bootVars, sideVars>>

OpMe ==
  /\ op.step = "me"
  /\ \/ Wanted(op.token, op.epoch) /\ Show(op.token)
     \/ UNCHANGED player
  /\ EndOp
  /\ UNCHANGED <<serverVars, stored, token, epoch, bootVars, sideVars>>

(* logout; closeGame asks once more for the player of the old token.       *)
Logout ==
  /\ ~authBusy /\ player # Nobody /\ epoch < MaxOps
  /\ epoch' = epoch + 1
  /\ stored' = 0 /\ token' = 0 /\ player' = Nobody
  /\ refreshes' = refreshes \cup {[token |-> token, epoch |-> epoch']}
  /\ logouts' = logouts \cup {token}
  /\ UNCHANGED <<serverVars, opVars, bootVars>>

(* The player is refreshed every 15 s, when a match ends, when the tab     *)
(* comes back and when a game is closed.                                   *)
Refresh ==
  /\ token # 0
  /\ Cardinality(refreshes) < MaxRefreshes
  /\ refreshes' = refreshes \cup {[token |-> token, epoch |-> epoch]}
  /\ UNCHANGED <<serverVars, pageVars, epoch, opVars, bootVars, logouts>>

RefreshReply(r) ==
  /\ r \in refreshes
  /\ refreshes' = refreshes \ {r}
  /\ \/ Wanted(r.token, r.epoch) /\ Show(r.token)
     \/ UNCHANGED player
  /\ UNCHANGED <<serverVars, stored, token, epoch, opVars, bootVars, logouts>>

-----------------------------------------------------------------------------
BootStep == BootMe \/ BootCatalog \/ BootGuest \/ BootGuestMe \/ BootEnd
OpStep   == OpReply \/ OpMe

WebNext ==
  \/ Bootstrap \/ BootStep
  \/ SubmitAuth \/ CreateGuest \/ OpStep \/ Logout
  \/ Refresh \/ \E r \in refreshes : RefreshReply(r)
  \/ \E t \in DOMAIN sessions : Reject(t)
  \/ \E t \in logouts : LogoutReply(t)

WebSpec == WebInit /\ [][WebNext]_webVars

(* Every request is answered or given up after 8 s, and the body of an     *)
(* answer follows its headers.                                             *)
FairSpec == WebSpec /\ WF_webVars(BootStep) /\ WF_webVars(OpStep)

-----------------------------------------------------------------------------
(* Properties. *)

(* The page never shows one player while it acts for another, whichever    *)
(* answers of earlier sessions are still to come.                          *)
ShownPlayerHoldsToken ==
  player # Nobody => token # 0 /\ sessions[token].user = player.user

(* A session that arrives late never replaces that of a later login, guest *)
(* or logout: the page takes a token only for its latest operation.        *)
LatestOperationWins ==
  [][token' \notin {0, token} => sessions'[token'].op = epoch']_webVars

(* The page never stays busy: forms and retry come back whatever request   *)
(* was lost or overtaken.                                                  *)
BusyEnds == (authBusy ~> ~authBusy) /\ (boot # NoBoot ~> boot = NoBoot)

(* docs/lobby-redesign-2026-09-10.md: only explicit authorization          *)
(* rejection invalidates a saved session during bootstrap.  A saved token  *)
(* that the API accepts is removed only by an operation of the player.     *)
OnlyRejectionInvalidates ==
  [][Accepted(stored) /\ stored' = 0 => epoch' # epoch]_webVars

-----------------------------------------------------------------------------
(* The inductive invariant ClientProofs proves. *)

WebTypeOK ==
  /\ account \in [Users -> {"none", "guest", "member"}]
  /\ sessions \in Seq([user : Users, active : BOOLEAN, op : Nat])
  /\ {stored, token} \subseteq 0..Len(sessions)
  /\ player \in {Nobody} \cup [user : Users, guest : BOOLEAN]
  /\ epoch \in Nat /\ boots \in Nat /\ authBusy \in BOOLEAN
  /\ op \in {NoOp} \cup [kind : {"claim", "enter", "guest"}, step : {"post", "me"},
                        epoch : Nat, token : Nat]
  /\ boot \in {NoBoot} \cup [step : {"me", "catalog", "guest", "guestMe", "last"},
                            epoch : Nat, token : Nat]
  /\ refreshes \subseteq [token : Nat, epoch : Nat]
  /\ logouts \subseteq Nat

(* Before the first bootstrap nothing has happened, and what an earlier    *)
(* visit left is in the storage.  From then on the page and the storage    *)
(* have the same token.                                                    *)
StoredInv ==
  IF boots = 0
  THEN /\ token = 0 /\ epoch = 0 /\ op = NoOp /\ boot = NoBoot
       /\ stored # 0 => sessions[stored].op = 0
  ELSE stored = token

WebInv == WebTypeOK /\ StoredInv /\ ShownPlayerHoldsToken

=============================================================================
