---------------------------- MODULE AdminConsole ----------------------------
(***************************************************************************)
(* One administrator's page (apps/admin, AdminDashboard) and the API       *)
(* behind it (admin.controller): a list that is loaded again and again     *)
(* with the query of the moment, and dialogs that adjust chips or change a *)
(* status.  An action of the page is what runs between two awaits.         *)
(*                                                                         *)
(* Answers come in any order.  Any may be lost: the proxy gives up after   *)
(* fifteen seconds, while the API goes on with the request.  The timelines *)
(* of matches are left out, and so are the sessions of a suspended player. *)
(***************************************************************************)
EXTENDS Integers, FiniteSets, Sequences

CONSTANTS
  Queries,       \* pages and searches of the list
  Amounts,       \* chip changes the administrator may enter
  StartingChips, \* balance of the player
  Inert,         \* an open dialog keeps the administrator from the page behind
  MaxLoads,      \* bound: loads of the list
  MaxDialogs,    \* bound: dialogs opened
  MaxConfirms,   \* bound: confirmations
  MaxSessions,   \* bound: sessions of the administrator
  MaxFaults      \* bound: answers lost and sessions ended elsewhere

ASSUME AdminAssumption ==
  /\ Queries # {} /\ Amounts \subseteq Int /\ Inert \in BOOLEAN
  /\ StartingChips \in Nat
  /\ \A n \in {MaxLoads, MaxDialogs, MaxConfirms, MaxSessions, MaxFaults} : n \in Nat

VARIABLES
  (* the database *)
  balance,
  ledger,      \* ADMIN_ADJUSTMENT entries: [command, amount]
  status,      \* of the player or the game: "ACTIVE" or "STOPPED"
  audit,       \* ADMIN_ACTION entries: the confirmation and dialog of each
  valid,       \* ACTIVE sessions
  requests,    \* changes the API has not processed or not answered
  (* the page *)
  cookie,      \* session of the cookie, 0 for none
  sessions,    \* sessions so far
  authorized,  \* "checking", "yes" or "no"
  signing,     \* a login is under way
  leaving,     \* session a logout is under way for, 0 for none
  query, loadVersion,
  loads,       \* loads under way
  shown,       \* the list: its query, status, and audit entries when it was read
  error, notice, busy,
  dialog,      \* the open dialog
  dialogs,     \* dialogs so far
  confirm,     \* the confirmation submitAction waits for
  confirms,    \* confirmations so far
  saveLoad,    \* the load submitAction waits for, 0 for none
  saved,       \* the confirmations that were reported as saved
  faults

dbVars     == <<balance, ledger, status, audit>>
signVars   == <<valid, cookie, sessions, authorized, signing, leaving>>
listVars   == <<query, loadVersion, loads, shown>>
noteVars   == <<error, notice, busy>>
dialogVars == <<dialog, dialogs, confirm, confirms, saveLoad, saved>>
vars == <<dbVars, requests, signVars, listVars, noteVars, dialogVars, faults>>

NoDialog  == [id |-> 0, kind |-> "none", status |-> "none"]
NoConfirm == [id |-> 0, dialog |-> 0, kind |-> "none", value |-> 0, status |-> "none",
              query |-> "none", command |-> <<>>, session |-> 0, answer |-> "none"]
NoList    == [query |-> "none", status |-> "none", seen |-> 0]

Fault == faults < MaxFaults /\ faults' = faults + 1

(* The page can be used; the backdrop of a dialog covers it.               *)
Reachable == authorized = "yes" /\ (Inert => dialog = NoDialog)

-----------------------------------------------------------------------------
(* The list. *)

(* load(), with the query it finds: the number of the load to come, and    *)
(* the request.                                                            *)
Load(q) ==
  /\ loadVersion < MaxLoads
  /\ loadVersion' = loadVersion + 1
  /\ loads' = loads \cup {[version |-> loadVersion + 1, query |-> q, session |-> cookie,
                           status |-> "none", seen |-> 0]}

(* Refresh, or the timer of thirty seconds. *)
Refresh ==
  /\ authorized = "yes"
  /\ Load(query)
  /\ UNCHANGED <<dbVars, requests, signVars, query, shown, noteVars, dialogVars, faults>>

(* Search and paging: the effect loads again. *)
SetQuery(q) ==
  /\ Reachable
  /\ q # query
  /\ query' = q
  /\ Load(q)
  /\ UNCHANGED <<dbVars, requests, signVars, shown, noteVars, dialogVars, faults>>

(* The API reads the list for an accepted session. *)
ReadList(l) ==
  /\ l.status = "none"
  /\ l.session \in valid
  /\ loads' = (loads \ {l}) \cup {[l EXCEPT !.status = status, !.seen = Len(audit)]}
  /\ UNCHANGED <<dbVars, requests, signVars, query, loadVersion, shown, noteVars,
                 dialogVars, faults>>

(* A load is over; so is submitAction when it waited for this one.         *)
EndLoad(l) ==
  /\ loads' = loads \ {l}
  /\ saveLoad' = IF saveLoad = l.version THEN 0 ELSE saveLoad
  /\ busy' = IF saveLoad = l.version THEN FALSE ELSE busy

Display(l) == shown' = [query |-> l.query, status |-> l.status, seen |-> l.seen]

(* Seeded bug: any answer is displayed. *)
AnyLoadReply(l) ==
  /\ l.status # "none"
  /\ EndLoad(l)
  /\ Display(l) /\ error' = FALSE
  /\ UNCHANGED <<dbVars, requests, signVars, query, loadVersion, notice, dialog, dialogs,
                 confirm, confirms, saved, faults>>

(* Only the answer to the newest load is displayed. *)
LoadReply(l) ==
  /\ l.status # "none"
  /\ EndLoad(l)
  /\ IF l.version = loadVersion THEN Display(l) /\ error' = FALSE
     ELSE UNCHANGED <<shown, error>>
  /\ UNCHANGED <<dbVars, requests, signVars, query, loadVersion, notice, dialog, dialogs,
                 confirm, confirms, saved, faults>>

(* A refusal (401, 403) or a failure is taken note of whichever load it    *)
(* answers.                                                                *)
LoadFails(l) ==
  /\ EndLoad(l)
  /\ error' = TRUE
  /\ \/ /\ l.session \notin valid
        /\ authorized' = "no"
        /\ UNCHANGED faults
     \/ /\ Fault
        /\ UNCHANGED authorized
  /\ UNCHANGED <<dbVars, requests, valid, cookie, sessions, signing, leaving, query, loadVersion,
                 shown, notice, dialog, dialogs, confirm, confirms, saved>>

-----------------------------------------------------------------------------
(* Dialogs. *)

(* Seeded bug: a command id for every confirmation. *)
CommandPerConfirm(d) == <<d.id, confirms>>

(* setAction gives the dialog its command id. *)
CommandId(d) == <<d.id>>

(* A status dialog asks for the opposite of what the list shows. *)
OpenDialog(kind) ==
  /\ Reachable
  /\ shown # NoList
  /\ dialogs < MaxDialogs
  /\ dialogs' = dialogs + 1
  /\ dialog' = [id |-> dialogs + 1, kind |-> kind,
                status |-> IF shown.status = "ACTIVE" THEN "STOPPED" ELSE "ACTIVE"]
  /\ UNCHANGED <<dbVars, requests, signVars, listVars, noteVars, confirm, confirms,
                 saveLoad, saved, faults>>

Cancel ==
  /\ authorized = "yes"
  /\ dialog # NoDialog
  /\ ~busy
  /\ dialog' = NoDialog
  /\ UNCHANGED <<dbVars, requests, signVars, listVars, noteVars, dialogs, confirm, confirms,
                 saveLoad, saved, faults>>

(* submitAction *)
Confirm(n) ==
  /\ authorized = "yes"
  /\ dialog # NoDialog
  /\ ~busy
  /\ confirms < MaxConfirms
  /\ confirms' = confirms + 1
  /\ confirm' = [id |-> confirms + 1, dialog |-> dialog.id, kind |-> dialog.kind,
                 value |-> IF dialog.kind = "adjust" THEN n ELSE 0,
                 status |-> dialog.status, query |-> query, command |-> CommandId(dialog),
                 session |-> cookie, answer |-> "none"]
  /\ requests' = requests \cup {confirm'}
  /\ busy' = TRUE /\ error' = FALSE /\ notice' = FALSE
  /\ UNCHANGED <<dbVars, signVars, listVars, dialog, dialogs, saveLoad, saved, faults>>

Answer(r, a) == requests' = (requests \ {r}) \cup {[r EXCEPT !.answer = a]}

EntriesOf(command) == {i \in DOMAIN ledger : ledger[i].command = command}

(* POST players/:id/adjustment: the wallet and its audit entry change      *)
(* together; a repeated command changes neither, and one repeated with     *)
(* another amount is refused, as is an overdraft.                          *)
Adjustment(r) ==
  /\ r.kind = "adjust" /\ r.answer = "none"
  /\ r.session \in valid
  /\ \/ /\ EntriesOf(r.command) = {}
        /\ balance + r.value >= 0
        /\ balance' = balance + r.value
        /\ ledger' = Append(ledger, [command |-> r.command, amount |-> r.value])
        /\ audit' = Append(audit, [confirm |-> r.id, dialog |-> r.dialog])
        /\ Answer(r, "ok")
     \/ /\ \E i \in EntriesOf(r.command) : ledger[i].amount = r.value
        /\ Answer(r, "ok")
        /\ UNCHANGED <<balance, ledger, audit>>
     \/ /\ \/ \E i \in EntriesOf(r.command) : ledger[i].amount # r.value
           \/ EntriesOf(r.command) = {} /\ balance + r.value < 0
        /\ Answer(r, "error")
        /\ UNCHANGED <<balance, ledger, audit>>
  /\ UNCHANGED <<status, signVars, listVars, noteVars, dialogVars, faults>>

(* POST players/:id/status and games/:id/status. *)
StatusChange(r) ==
  /\ r.kind = "status" /\ r.answer = "none"
  /\ r.session \in valid
  /\ status' = r.status
  /\ audit' = Append(audit, [confirm |-> r.id, dialog |-> r.dialog])
  /\ Answer(r, "ok")
  /\ UNCHANGED <<balance, ledger, signVars, listVars, noteVars, dialogVars, faults>>

RefuseSession(r) ==
  /\ r.answer = "none"
  /\ r.session \notin valid
  /\ Answer(r, "error")
  /\ UNCHANGED <<dbVars, signVars, listVars, noteVars, dialogVars, faults>>

Waiting(r) == r.id = confirm.id

(* The change is saved: the dialog closes, and the list is loaded, with    *)
(* the query there was at the confirmation, before the page is free again. *)
SavedReply(r) ==
  /\ Waiting(r)
  /\ r.answer = "ok"
  /\ requests' = requests \ {r}
  /\ saved' = saved \cup {[confirm EXCEPT !.answer = "ok"]}
  /\ confirm' = NoConfirm
  /\ dialog' = NoDialog
  /\ notice' = TRUE
  /\ Load(confirm.query)
  /\ saveLoad' = loadVersion + 1
  /\ UNCHANGED <<dbVars, signVars, query, shown, error, busy, dialogs, confirms, faults>>

SaveFails ==
  /\ confirm' = NoConfirm
  /\ error' = TRUE /\ busy' = FALSE
  /\ UNCHANGED <<dbVars, signVars, listVars, notice, dialog, dialogs, confirms, saveLoad, saved>>

ErrorReply(r) ==
  /\ Waiting(r)
  /\ r.answer = "error"
  /\ requests' = requests \ {r}
  /\ SaveFails
  /\ UNCHANGED faults

(* The proxy gives up, or the answer is lost; the API still has the        *)
(* request.                                                                *)
GiveUp ==
  /\ confirm # NoConfirm
  /\ Fault
  /\ SaveFails
  /\ UNCHANGED requests

(* The answer to a request that was given up reaches nobody.               *)
Unheard(r) ==
  /\ ~Waiting(r)
  /\ r.answer # "none"
  /\ requests' = requests \ {r}
  /\ UNCHANGED <<dbVars, signVars, listVars, noteVars, dialogVars, faults>>

-----------------------------------------------------------------------------
(* Signing in and out. *)

(* The first render asks who is signed in; then the effect loads.          *)
CheckReply ==
  /\ authorized = "checking"
  /\ \/ cookie \in valid /\ authorized' = "yes" /\ Load(query) /\ UNCHANGED faults
     \/ cookie \notin valid /\ authorized' = "no" /\ UNCHANGED <<loadVersion, loads, faults>>
     \/ Fault /\ authorized' = "no" /\ UNCHANGED <<loadVersion, loads>>
  /\ UNCHANGED <<dbVars, requests, valid, cookie, sessions, signing, leaving, query, shown, noteVars,
                 dialogVars>>

Login ==
  /\ authorized = "no"
  /\ ~busy
  /\ sessions < MaxSessions
  /\ signing' = TRUE
  /\ busy' = TRUE /\ error' = FALSE
  /\ UNCHANGED <<dbVars, requests, valid, cookie, sessions, authorized, leaving, listVars,
                 notice, dialogVars, faults>>

(* The session is stored in the cookie, and then "me" answers or fails;    *)
(* or there is no session.                                                 *)
LoginReply ==
  /\ signing
  /\ signing' = FALSE
  /\ busy' = FALSE
  /\ \/ /\ sessions' = sessions + 1 /\ cookie' = sessions + 1
        /\ valid' = valid \cup {sessions + 1}
        /\ \/ /\ authorized' = "yes"
              /\ loadVersion < MaxLoads
              /\ loadVersion' = loadVersion + 1
              /\ loads' = loads \cup {[version |-> loadVersion + 1, query |-> query,
                                       session |-> cookie', status |-> "none", seen |-> 0]}
              /\ UNCHANGED <<error, faults>>
           \/ Fault /\ error' = TRUE /\ UNCHANGED <<authorized, loadVersion, loads>>
     \/ Fault /\ error' = TRUE
        /\ UNCHANGED <<valid, cookie, sessions, authorized, loadVersion, loads>>
  /\ UNCHANGED <<dbVars, requests, leaving, query, shown, notice, dialogVars>>

(* The API revokes the session if it can, and the answer deletes the       *)
(* cookie, whichever session it holds by then.  Without an answer the page *)
(* stays as it is.                                                         *)
SignOut ==
  /\ Reachable
  /\ leaving = 0
  /\ leaving' = cookie
  /\ UNCHANGED <<dbVars, requests, valid, cookie, sessions, authorized, signing, listVars,
                 noteVars, dialogVars, faults>>

SignOutReply ==
  /\ leaving # 0
  /\ leaving' = 0
  /\ \/ /\ \/ valid' = valid \ {leaving} /\ UNCHANGED faults
           \/ valid' = valid /\ Fault
        /\ cookie' = 0
        /\ authorized' = "no"
        /\ shown' = NoList
     \/ /\ Fault
        /\ valid' \in {valid, valid \ {leaving}}
        /\ UNCHANGED <<cookie, authorized, shown>>
  /\ UNCHANGED <<dbVars, requests, sessions, signing, query, loadVersion, loads, noteVars,
                 dialogVars>>

(* The session expires or is revoked elsewhere. *)
Expire ==
  /\ cookie \in valid
  /\ Fault
  /\ valid' = valid \ {cookie}
  /\ UNCHANGED <<dbVars, requests, cookie, sessions, authorized, signing, leaving, listVars,
                 noteVars, dialogVars>>
-----------------------------------------------------------------------------
(* The page is opened with the session of an earlier visit, or without.    *)
Init ==
  /\ balance = StartingChips /\ ledger = <<>> /\ status = "ACTIVE" /\ audit = <<>>
  /\ sessions = 1 /\ cookie = 1 /\ valid \in {{}, {1}}
  /\ requests = {} /\ authorized = "checking" /\ signing = FALSE /\ leaving = 0
  /\ query = CHOOSE q \in Queries : TRUE
  /\ loadVersion = 0 /\ loads = {} /\ shown = NoList
  /\ error = FALSE /\ notice = FALSE /\ busy = FALSE
  /\ dialog = NoDialog /\ dialogs = 0
  /\ confirm = NoConfirm /\ confirms = 0
  /\ saveLoad = 0 /\ saved = {}
  /\ faults = 0

ListStep ==
  \/ Refresh
  \/ \E q \in Queries : SetQuery(q)
  \/ \E l \in loads : ReadList(l) \/ LoadReply(l) \/ LoadFails(l)

DialogStep ==
  \/ \E kind \in {"adjust", "status"} : OpenDialog(kind)
  \/ Cancel
  \/ \E n \in Amounts : Confirm(n)
  \/ \E r \in requests : SavedReply(r) \/ ErrorReply(r) \/ Unheard(r)
  \/ GiveUp

ApiStep == \E r \in requests : Adjustment(r) \/ StatusChange(r) \/ RefuseSession(r)

SignStep == CheckReply \/ Login \/ LoginReply \/ SignOut \/ SignOutReply \/ Expire

Next == ListStep \/ DialogStep \/ ApiStep \/ SignStep

Spec == Init /\ [][Next]_vars

-----------------------------------------------------------------------------
AdjustmentsOf(d) == {i \in DOMAIN ledger : Head(ledger[i].command) = d}
AuditsOf(d)      == {i \in DOMAIN audit : audit[i].dialog = d}

(* "Retries do not double-credit", and "audit records commit with the      *)
(* change": however often a dialog is confirmed after lost answers, also   *)
(* with another amount, and although earlier confirmations are still being *)
(* processed, it moves chips at most once, with one audit entry; and a     *)
(* change that was reported as saved is the one that was made.             *)
DialogAdjustsOnce ==
  /\ \A d \in 1..dialogs : Cardinality(AdjustmentsOf(d)) <= 1
  /\ \A i \in DOMAIN ledger : Cardinality(AuditsOf(Head(ledger[i].command))) = 1
  /\ \A c \in saved : c.kind = "adjust" =>
       \E i \in AdjustmentsOf(c.dialog) : ledger[i].amount = c.value

(* When nothing is under way and no error is shown, the list is that of    *)
(* the page and search on the screen, and includes every change that was   *)
(* reported as saved, whatever order the answers came in.                  *)
ListIsCurrent ==
  (authorized = "yes" /\ loads = {} /\ ~busy /\ ~error) =>
    /\ shown.query = query
    /\ \A c \in saved : \E i \in 1..shown.seen :
         /\ audit[i].dialog = c.dialog
         /\ c.kind = "status" => audit[i].confirm = c.id

-----------------------------------------------------------------------------
(* The inductive invariant AdminConsoleProofs proves. *)

Kinds    == {"adjust", "status"}
Statuses == {"ACTIVE", "STOPPED"}

Confirmations == [id : Nat, dialog : Nat, kind : Kinds, value : Int, status : Statuses,
                  query : Queries, command : Seq(Nat), session : Nat,
                  answer : {"none", "ok", "error"}]

Ledgers == Seq([command : Seq(Nat), amount : Int])
Audits  == Seq([confirm : Nat, dialog : Nat])

Loads == [version : Nat \ {0}, query : Queries, session : Nat,
          status : Statuses \cup {"none"}, seen : Nat]

DatabaseTypeOK ==
  balance \in Int /\ status \in Statuses /\ ledger \in Ledgers /\ audit \in Audits

SignTypeOK ==
  /\ valid \subseteq Nat /\ cookie \in Nat /\ sessions \in Nat /\ leaving \in Nat
  /\ authorized \in {"checking", "yes", "no"}

ListTypeOK ==
  /\ query \in Queries /\ loadVersion \in Nat /\ loads \subseteq Loads
  /\ shown \in [query : Queries, status : Statuses, seen : Nat] \cup {NoList}

FlagTypeOK ==
  /\ signing \in BOOLEAN /\ error \in BOOLEAN /\ notice \in BOOLEAN /\ busy \in BOOLEAN

DialogTypeOK ==
  /\ dialog \in [id : Nat, kind : Kinds, status : Statuses] \cup {NoDialog}
  /\ confirm \in Confirmations \cup {NoConfirm}
  /\ dialogs \in Nat /\ confirms \in Nat /\ saveLoad \in Nat
  /\ requests \subseteq Confirmations /\ saved \subseteq Confirmations

AdminTypeOK ==
  /\ DatabaseTypeOK /\ SignTypeOK /\ ListTypeOK /\ FlagTypeOK /\ DialogTypeOK
  /\ faults \in Nat

(* A confirmation belongs to a dialog there was, and carries its command.  *)
OfItsDialog(c) ==
  c.id \in 1..confirms /\ c.dialog \in 1..dialogs /\ c.command = <<c.dialog>>

Adjusted(c) == \E i \in EntriesOf(c.command) : ledger[i].amount = c.value

(* The change of c is among the first n audit entries. *)
Audited(n, c) ==
  \E i \in DOMAIN audit :
    /\ i <= n
    /\ audit[i].dialog = c.dialog
    /\ c.kind = "status" => audit[i].confirm = c.id

(* submitAction waits for the request it sent. *)
CommandInv ==
  /\ \A c \in requests \cup saved : OfItsDialog(c)
  /\ confirm # NoConfirm => OfItsDialog(confirm)
  /\ dialog # NoDialog => dialog.id \in 1..dialogs
  /\ \A r \in requests : Waiting(r) => confirm = [r EXCEPT !.answer = "none"]

(* A dialog has one kind, before and after its change is made. *)
KindInv ==
  /\ \A r \in requests : r.dialog = dialog.id => r.kind = dialog.kind
  /\ \A r, s \in requests : r.dialog = s.dialog => r.kind = s.kind
  /\ \A i \in DOMAIN ledger :
       /\ \A r \in requests : ledger[i].command = r.command => r.kind = "adjust"
       /\ ledger[i].command = <<dialog.id>> => dialog.kind = "adjust"
  /\ \A i \in DOMAIN audit : EntriesOf(<<audit[i].dialog>>) = {} =>
       /\ \A r \in requests : audit[i].dialog = r.dialog => r.kind = "status"
       /\ audit[i].dialog = dialog.id => dialog.kind = "status"

(* Every ledger entry has a dialog and an audit entry of its own. *)
LedgerInv ==
  /\ \A i \in DOMAIN ledger : \E d \in 1..dialogs : ledger[i].command = <<d>>
  /\ \A i, j \in DOMAIN ledger : ledger[i].command = ledger[j].command => i = j
  /\ \A j \in DOMAIN audit : audit[j].dialog \in 1..dialogs
  /\ \A i \in DOMAIN ledger : \E j \in DOMAIN audit : ledger[i].command = <<audit[j].dialog>>
  /\ \A j, k \in DOMAIN audit :
       /\ audit[j].dialog = audit[k].dialog
       /\ EntriesOf(<<audit[j].dialog>>) # {}
       => j = k

(* What was answered with success is in the database. *)
Done(c) == Audited(Len(audit), c) /\ (c.kind = "adjust" => Adjusted(c))

AnswerInv ==
  /\ \A r \in requests : r.answer = "ok" => Done(r)
  /\ \A c \in saved : Done(c)

(* The page is busy with one thing at a time. *)
BusyInv ==
  /\ confirm # NoConfirm => busy /\ dialog # NoDialog /\ ~signing /\ saveLoad = 0
  /\ saveLoad # 0 => busy /\ ~signing
  /\ signing => busy

(* The newest load is for the query of the page; it is under way, or       *)
(* failed, or is displayed; and a list read after a change includes it.    *)
UpToDate(n) == n <= Len(audit) /\ \A c \in saved : Audited(n, c)

LoadInv(l) ==
  /\ l.version <= loadVersion
  /\ l.version = loadVersion => l.query = query
  /\ l.version = loadVersion /\ l.status # "none" => UpToDate(l.seen)

ShownInv ==
  \/ authorized # "yes"
  \/ error = TRUE
  \/ confirm # NoConfirm
  \/ \E l \in loads : l.version = loadVersion
  \/ shown.query = query /\ UpToDate(shown.seen)

ListInv ==
  /\ confirm # NoConfirm => confirm.query = query
  /\ \A l \in loads : LoadInv(l)
  /\ ShownInv

DialogInv == AdminTypeOK /\ CommandInv /\ KindInv /\ LedgerInv /\ AnswerInv
AdminInv  == DialogInv /\ BusyInv /\ (Inert => ListInv)

=============================================================================
