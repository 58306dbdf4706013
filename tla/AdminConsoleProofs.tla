------------------------- MODULE AdminConsoleProofs -------------------------
(***************************************************************************)
(* Proofs about AdminConsole, for any lists, amounts, sessions and bounds: *)
(* the invariant AdminInv is inductive, a dialog adjusts chips once, and   *)
(* the list on the screen is current when an open dialog keeps the         *)
(* administrator from the page behind it.                                  *)
(***************************************************************************)
EXTENDS AdminConsole, FiniteSetTheorems, TLAPS

-----------------------------------------------------------------------------
(* Types. *)

(* The ledger and the audit entries are sequences that grow at their end. *)
LEMMA Entries ==
  /\ audit \in Audits => Len(audit) \in Nat
  /\ \A r \in Confirmations :
            /\ audit \in Audits =>
                 Append(audit, [confirm |-> r.id, dialog |-> r.dialog]) \in Audits
            /\ ledger \in Ledgers =>
                 Append(ledger, [command |-> r.command, amount |-> r.value]) \in Ledgers
  /\ <<>> \in Audits /\ <<>> \in Ledgers
<1>1. ASSUME audit \in Audits PROVE Len(audit) \in Nat
  BY <1>1 DEF Audits
<1>2. ASSUME NEW r \in Confirmations
      PROVE  /\ [confirm |-> r.id, dialog |-> r.dialog] \in [confirm : Nat, dialog : Nat]
             /\ [command |-> r.command, amount |-> r.value] \in [command : Seq(Nat), amount : Int]
  BY DEF Confirmations
<1> QED
  BY <1>1, <1>2 DEF Audits, Ledgers

(* The page opens with everything in its type.                             *)
LEMMA InitTyped == Init => AdminTypeOK
<1> SUFFICES ASSUME Init PROVE AdminTypeOK
  OBVIOUS
<1>1. DatabaseTypeOK
  BY AdminAssumption, Entries DEF Init, DatabaseTypeOK, Statuses
<1>2. SignTypeOK
  BY DEF Init, SignTypeOK
<1>3. FlagTypeOK /\ faults \in Nat
  BY DEF Init, FlagTypeOK
<1>4. ListTypeOK /\ DialogTypeOK
  BY AdminAssumption DEF Init, ListTypeOK, DialogTypeOK
<1> QED
  BY <1>1, <1>2, <1>3, <1>4 DEF AdminTypeOK

(* What a step leaves alone keeps its type.                                *)
LEMMA Untouched ==
  ASSUME AdminTypeOK
  PROVE  /\ UNCHANGED dbVars => DatabaseTypeOK'
         /\ UNCHANGED signVars => SignTypeOK'
         /\ UNCHANGED listVars => ListTypeOK'
         /\ UNCHANGED <<signing, noteVars>> => FlagTypeOK'
         /\ UNCHANGED <<requests, dialogVars>> => DialogTypeOK'
         /\ UNCHANGED faults => (faults \in Nat)'
BY DEF AdminTypeOK, DatabaseTypeOK, SignTypeOK, ListTypeOK, FlagTypeOK, DialogTypeOK,
       dbVars, signVars, listVars, noteVars, dialogVars

(* A load that starts has the query it was given.                          *)
LEMMA LoadTyped ==
  ASSUME AdminTypeOK, NEW q \in Queries, Load(q)
  PROVE  loadVersion' \in Nat /\ loads' \subseteq Loads
<1>1. loadVersion \in Nat /\ cookie \in Nat /\ loads \subseteq Loads
  BY DEF AdminTypeOK, ListTypeOK, SignTypeOK
<1>2. [version |-> loadVersion + 1, query |-> q, session |-> cookie,
       status |-> "none", seen |-> 0] \in Loads
  BY <1>1 DEF Loads
<1> QED
  BY <1>1, <1>2 DEF Load

(* A confirmation that is answered is the one submitAction waits for.      *)
LEMMA AwaitedTyped ==
  ASSUME AdminTypeOK, CommandInv, NEW r \in requests, Waiting(r)
  PROVE  /\ confirm \in Confirmations /\ confirm # NoConfirm
         /\ confirm = [r EXCEPT !.answer = "none"]
<1>1. r.id \in 1..confirms /\ r.id = confirm.id /\ confirms \in Nat
  BY DEF Waiting, CommandInv, OfItsDialog, AdminTypeOK, DialogTypeOK
<1>2. confirm # NoConfirm
  BY <1>1 DEF NoConfirm
<1> QED
  BY <1>2 DEF CommandInv, AdminTypeOK, DialogTypeOK

(* Every step keeps the types of the database.                             *)
LEMMA DatabaseTyped == AdminTypeOK /\ Next => DatabaseTypeOK'
<1> SUFFICES ASSUME AdminTypeOK, Next PROVE DatabaseTypeOK'
  OBVIOUS
<1>1. CASE UNCHANGED dbVars
  BY <1>1, Untouched
<1>2. ASSUME NEW r \in requests, Adjustment(r) \/ StatusChange(r) PROVE DatabaseTypeOK'
  <2>1. r \in Confirmations /\ balance \in Int /\ r.value \in Int /\ r.status \in Statuses
    BY DEF AdminTypeOK, DialogTypeOK, DatabaseTypeOK, Confirmations
  <2>2. audit' \in Audits /\ ledger' \in Ledgers
    BY <1>2, <2>1, Entries DEF Adjustment, StatusChange, AdminTypeOK, DatabaseTypeOK
  <2>3. balance' \in Int /\ status' \in Statuses
    BY <1>2, <2>1 DEF Adjustment, StatusChange, AdminTypeOK, DatabaseTypeOK
  <2> QED
    BY <2>2, <2>3 DEF DatabaseTypeOK
<1>3. CASE ListStep \/ SignStep
  BY <1>1, <1>3 DEF ListStep, SignStep, Refresh, SetQuery, ReadList, LoadReply, LoadFails,
       CheckReply, Login, LoginReply, SignOut, SignOutReply, Expire
<1>4. CASE DialogStep
  BY <1>1, <1>4 DEF DialogStep, OpenDialog, Cancel, Confirm, SavedReply, ErrorReply,
       Unheard, GiveUp, SaveFails
<1>5. CASE ApiStep
  BY <1>1, <1>2, <1>5 DEF ApiStep, RefuseSession
<1> QED
  BY <1>3, <1>4, <1>5 DEF Next

(* Every step keeps the types of the sessions, and of the counters.        *)
LEMMA SignTyped == AdminTypeOK /\ Next => SignTypeOK' /\ faults' \in Nat
<1> SUFFICES ASSUME AdminTypeOK, Next PROVE SignTypeOK' /\ faults' \in Nat
  OBVIOUS
<1>1. faults \in Nat /\ SignTypeOK
  BY DEF AdminTypeOK
<1>2. faults' \in Nat
  <2>1. Fault \/ UNCHANGED faults
    BY DEF Next, ListStep, SignStep, DialogStep, ApiStep, Refresh, SetQuery, ReadList, LoadReply,
       LoadFails, OpenDialog, Cancel, Confirm, SavedReply, ErrorReply, Unheard, GiveUp,
       Adjustment, StatusChange, RefuseSession,
       CheckReply, Login, LoginReply, SignOut, SignOutReply, Expire
  <2> QED
    BY <1>1, <2>1 DEF Fault
<1>3. CASE UNCHANGED signVars
  BY <1>2, <1>3, Untouched
<1>4. ASSUME NEW l \in loads, LoadFails(l) PROVE SignTypeOK'
  BY <1>1, <1>4 DEF LoadFails, SignTypeOK
<1>5. CASE CheckReply
  BY <1>1, <1>5 DEF CheckReply, Fault, SignTypeOK
<1>6. CASE Login
  BY <1>1, <1>6 DEF Login, SignTypeOK
<1>7. CASE LoginReply
  <2>1. \/ valid' = valid /\ cookie' = cookie /\ sessions' = sessions
        \/ /\ sessions' = sessions + 1 /\ cookie' = sessions + 1
           /\ valid' = valid \cup {sessions + 1}
    BY <1>7 DEF LoginReply, Fault
  <2>2. leaving' = leaving /\ authorized' \in {authorized, "yes"}
    BY <1>7 DEF LoginReply, Fault
  <2>3. valid' \subseteq Nat /\ cookie' \in Nat /\ sessions' \in Nat /\ leaving' \in Nat
    <3>1. sessions + 1 \in Nat /\ leaving' \in Nat
      BY <1>1, <2>2 DEF SignTypeOK
    <3> QED
      BY <1>1, <2>1, <3>1 DEF SignTypeOK
  <2>4. authorized' \in {"checking", "yes", "no"}
    BY <1>1, <2>2 DEF SignTypeOK
  <2> QED
    BY <1>2, <2>3, <2>4 DEF SignTypeOK
<1>8. CASE SignOut \/ SignOutReply
  <2>1. valid' \in {valid, valid \ {leaving}} /\ cookie' \in {cookie, 0}
    BY <1>8 DEF SignOut, SignOutReply, Fault
  <2>2. /\ leaving' \in {0, cookie} /\ sessions' = sessions
        /\ authorized' \in {authorized, "no"}
    BY <1>8 DEF SignOut, SignOutReply, Fault
  <2>3. valid' \subseteq Nat /\ cookie' \in Nat /\ sessions' \in Nat /\ leaving' \in Nat
    BY <1>1, <2>1, <2>2 DEF SignTypeOK
  <2>4. authorized' \in {"checking", "yes", "no"}
    BY <1>1, <2>2 DEF SignTypeOK
  <2> QED
    BY <1>2, <2>3, <2>4 DEF SignTypeOK
<1>9. CASE Expire
  BY <1>1, <1>9 DEF Expire, Fault, SignTypeOK
<1>10. CASE ListStep
  BY <1>2, <1>3, <1>4, <1>10 DEF ListStep, Refresh, SetQuery, ReadList, LoadReply
<1>11. CASE DialogStep \/ ApiStep
  BY <1>2, <1>3, <1>11 DEF DialogStep, ApiStep, OpenDialog, Cancel, Confirm, SavedReply, ErrorReply,
       Unheard, GiveUp, SaveFails, Adjustment, StatusChange, RefuseSession
<1> QED
  BY <1>2, <1>5, <1>6, <1>7, <1>8, <1>9, <1>10, <1>11 DEF Next, SignStep

(* Every step keeps the types of the list and of its loads.                *)
LEMMA ListTyped == AdminTypeOK /\ CommandInv /\ Next => ListTypeOK'
<1> SUFFICES ASSUME AdminTypeOK, CommandInv, Next PROVE ListTypeOK'
  OBVIOUS
<1> USE DEF listVars
<1>1. ListTypeOK /\ SignTypeOK /\ DatabaseTypeOK /\ DialogTypeOK
  BY DEF AdminTypeOK
<1>2. CASE UNCHANGED listVars
  BY <1>2, Untouched
<1>3. ASSUME NEW q \in Queries, Load(q), query' \in {query, q}, UNCHANGED shown
      PROVE  ListTypeOK'
  BY <1>1, <1>3, LoadTyped DEF ListTypeOK
<1>4. ASSUME NEW l \in loads, ReadList(l) PROVE ListTypeOK'
  <2>1. Len(audit) \in Nat /\ status \in Statuses /\ l \in Loads
    BY <1>1, Entries DEF DatabaseTypeOK, ListTypeOK
  <2>2. [l EXCEPT !.status = status, !.seen = Len(audit)] \in Loads
    BY <2>1 DEF Loads
  <2> QED
    BY <1>1, <1>4, <2>2 DEF ReadList, ListTypeOK
<1>5. ASSUME NEW l \in loads, LoadReply(l) PROVE ListTypeOK'
  <2>1. l \in Loads
    BY <1>1 DEF ListTypeOK
  <2>2. [query |-> l.query, status |-> l.status, seen |-> l.seen] \in
          [query : Queries, status : Statuses, seen : Nat]
    BY <1>5, <2>1 DEF Loads, LoadReply
  <2> QED
    BY <1>1, <1>5, <2>2 DEF LoadReply, EndLoad, Display, ListTypeOK
<1>6. ASSUME NEW l \in loads, LoadFails(l) PROVE ListTypeOK'
  BY <1>1, <1>6 DEF LoadFails, EndLoad, ListTypeOK
<1>7. CASE LoginReply
  <2>1. CASE loads' = loads /\ loadVersion' = loadVersion
    BY <1>1, <1>7, <2>1 DEF LoginReply, ListTypeOK
  <2>2. CASE /\ loadVersion' = loadVersion + 1 /\ cookie' = sessions + 1
             /\ loads' = loads \cup {[version |-> loadVersion + 1, query |-> query,
                                     session |-> cookie', status |-> "none", seen |-> 0]}
    <3>1. [version |-> loadVersion + 1, query |-> query,
           session |-> cookie', status |-> "none", seen |-> 0] \in Loads
      BY <1>1, <2>2 DEF Loads, ListTypeOK, SignTypeOK
    <3> QED
      BY <1>1, <1>7, <2>2, <3>1 DEF LoginReply, ListTypeOK
  <2> QED
    BY <1>7, <2>1, <2>2 DEF LoginReply
<1>8. CASE CheckReply
  <2>1. CASE Load(query)
    BY <1>1, <1>3, <1>8, <2>1 DEF CheckReply, ListTypeOK
  <2>2. CASE UNCHANGED <<loadVersion, loads>>
    BY <1>2, <1>8, <2>2 DEF CheckReply
  <2> QED
    BY <1>8, <2>1, <2>2 DEF CheckReply
<1>9. CASE SignOutReply
  BY <1>1, <1>9 DEF SignOutReply, ListTypeOK
<1>10. ASSUME NEW r \in requests, SavedReply(r) PROVE ListTypeOK'
  <2>1. confirm.query \in Queries
    BY <1>10, AwaitedTyped DEF SavedReply, Confirmations
  <2> QED
    BY <1>1, <1>3, <1>10, <2>1 DEF SavedReply, ListTypeOK
<1>11. CASE ListStep
  <2>1. CASE Refresh
    BY <1>1, <1>3, <2>1 DEF Refresh, ListTypeOK
  <2>2. ASSUME NEW q \in Queries, SetQuery(q) PROVE ListTypeOK'
    BY <1>3, <2>2 DEF SetQuery
  <2> QED
    BY <1>4, <1>5, <1>6, <1>11, <2>1, <2>2 DEF ListStep
<1>12. CASE DialogStep
  BY <1>2, <1>10, <1>12 DEF DialogStep, OpenDialog, Cancel, Confirm, ErrorReply,
       Unheard, GiveUp, SaveFails
<1>13. CASE ApiStep
  BY <1>2, <1>13 DEF ApiStep, Adjustment, StatusChange, RefuseSession
<1>14. CASE SignStep
  BY <1>2, <1>7, <1>8, <1>9, <1>14 DEF SignStep, Login, SignOut, Expire
<1> QED
  BY <1>11, <1>12, <1>13, <1>14 DEF Next

(* Every step keeps the types of the flags.                                *)
LEMMA FlagsTyped == AdminTypeOK /\ Next => FlagTypeOK'
<1> SUFFICES ASSUME AdminTypeOK, Next PROVE FlagTypeOK'
  OBVIOUS
<1> USE DEF noteVars
<1>1. FlagTypeOK
  BY DEF AdminTypeOK
<1>2. CASE UNCHANGED <<signing, noteVars>>
  BY <1>2, Untouched
<1>3. ASSUME NEW l \in loads, LoadReply(l) \/ LoadFails(l) PROVE FlagTypeOK'
  BY <1>1, <1>3 DEF LoadReply, LoadFails, EndLoad, FlagTypeOK, signVars
<1>4. CASE ListStep
  BY <1>2, <1>3, <1>4 DEF ListStep, Refresh, SetQuery, ReadList, signVars
<1>5. ASSUME NEW n \in Amounts, Confirm(n) PROVE FlagTypeOK'
  BY <1>1, <1>5 DEF Confirm, FlagTypeOK, signVars
<1>6. ASSUME NEW r \in requests, SavedReply(r) PROVE FlagTypeOK'
  BY <1>1, <1>6 DEF SavedReply, FlagTypeOK, signVars
<1>7. CASE SaveFails
  BY <1>1, <1>7 DEF SaveFails, FlagTypeOK, signVars
<1>8. CASE DialogStep
  BY <1>2, <1>5, <1>6, <1>7, <1>8
     DEF DialogStep, OpenDialog, Cancel, ErrorReply, Unheard, GiveUp, signVars
<1>9. CASE ApiStep
  BY <1>2, <1>9 DEF ApiStep, Adjustment, StatusChange, RefuseSession, signVars
<1>10. CASE Login \/ LoginReply
  BY <1>1, <1>10 DEF Login, LoginReply, FlagTypeOK
<1>11. CASE SignStep
  BY <1>2, <1>10, <1>11 DEF SignStep, CheckReply, SignOut, SignOutReply, Expire, signVars
<1> QED
  BY <1>4, <1>8, <1>9, <1>11 DEF Next

(* Every step keeps the types of the dialogs and their confirmations.      *)
LEMMA DialogTyped == AdminTypeOK /\ CommandInv /\ Next => DialogTypeOK'
<1> SUFFICES ASSUME AdminTypeOK, CommandInv, Next PROVE DialogTypeOK'
  OBVIOUS
<1> USE DEF dialogVars
<1>1. DialogTypeOK /\ ListTypeOK /\ SignTypeOK
  BY DEF AdminTypeOK
<1>2. CASE UNCHANGED <<requests, dialogVars>>
  BY <1>2, Untouched
<1>3. ASSUME NEW l \in loads, LoadReply(l) \/ LoadFails(l) PROVE DialogTypeOK'
  <2>1. saveLoad' \in {0, saveLoad}
    BY <1>3 DEF LoadReply, LoadFails, EndLoad
  <2> QED
    BY <1>1, <1>3, <2>1 DEF LoadReply, LoadFails, DialogTypeOK
<1>4. CASE ListStep
  BY <1>2, <1>3, <1>4 DEF ListStep, Refresh, SetQuery, ReadList
<1>5. ASSUME NEW kind \in Kinds, OpenDialog(kind) PROVE DialogTypeOK'
  <2>1. dialog' \in [id : Nat, kind : Kinds, status : Statuses]
    BY <1>1, <1>5 DEF OpenDialog, DialogTypeOK, Statuses
  <2> QED
    BY <1>1, <1>5, <2>1 DEF OpenDialog, DialogTypeOK
<1>6. CASE Cancel
  BY <1>1, <1>6 DEF Cancel, DialogTypeOK
<1>7. ASSUME NEW n \in Amounts, Confirm(n) PROVE DialogTypeOK'
  <2>1. dialog \in [id : Nat, kind : Kinds, status : Statuses]
    BY <1>1, <1>7 DEF Confirm, DialogTypeOK
  <2>2. <<dialog.id>> \in Seq(Nat)
    BY <2>1
  <2>3. confirm' \in Confirmations
    BY <1>1, <1>7, <2>1, <2>2, AdminAssumption
       DEF Confirm, CommandId, Confirmations, DialogTypeOK, ListTypeOK, SignTypeOK
  <2> QED
    BY <1>1, <1>7, <2>3 DEF Confirm, DialogTypeOK
<1>8. ASSUME NEW r \in requests, SavedReply(r) PROVE DialogTypeOK'
  <2>1. [confirm EXCEPT !.answer = "ok"] \in Confirmations
    BY <1>8, AwaitedTyped DEF SavedReply, Confirmations
  <2>2. saveLoad' \in Nat
    BY <1>1, <1>8 DEF SavedReply, ListTypeOK
  <2> QED
    BY <1>1, <1>8, <2>1, <2>2 DEF SavedReply, DialogTypeOK
<1>9. ASSUME NEW r \in requests, ErrorReply(r) \/ Unheard(r) PROVE DialogTypeOK'
  BY <1>1, <1>9 DEF ErrorReply, Unheard, SaveFails, DialogTypeOK
<1>10. CASE GiveUp
  BY <1>1, <1>10 DEF GiveUp, SaveFails, DialogTypeOK
<1>11. CASE DialogStep
  BY <1>5, <1>6, <1>7, <1>8, <1>9, <1>10, <1>11 DEF DialogStep, Kinds
<1>12. ASSUME NEW r \in requests, Adjustment(r) \/ StatusChange(r) \/ RefuseSession(r)
       PROVE  DialogTypeOK'
  <2>1. \A a \in {"ok", "error"} : Answer(r, a) => requests' \subseteq Confirmations
    BY <1>1 DEF Answer, Confirmations, DialogTypeOK
  <2>2. Answer(r, "ok") \/ Answer(r, "error")
    BY <1>12 DEF Adjustment, StatusChange, RefuseSession
  <2> QED
    BY <1>1, <1>12, <2>1, <2>2 DEF Adjustment, StatusChange, RefuseSession, DialogTypeOK
<1>13. CASE SignStep
  BY <1>2, <1>13 DEF SignStep, CheckReply, Login, LoginReply, SignOut, SignOutReply, Expire
<1> QED
  BY <1>4, <1>11, <1>12, <1>13 DEF Next, ApiStep

(* Every step keeps the types.                                             *)
LEMMA StepTyped == AdminTypeOK /\ CommandInv /\ [Next]_vars => AdminTypeOK'
<1>1. AdminTypeOK /\ UNCHANGED vars => AdminTypeOK'
  <2>1. SUFFICES ASSUME AdminTypeOK, UNCHANGED vars PROVE AdminTypeOK'
    OBVIOUS
  <2>2. /\ UNCHANGED dbVars /\ UNCHANGED signVars /\ UNCHANGED listVars
        /\ UNCHANGED noteVars /\ UNCHANGED <<requests, dialogVars>> /\ UNCHANGED faults
    BY <2>1 DEF vars
  <2>3. UNCHANGED <<signing, noteVars>>
    BY <2>2 DEF signVars
  <2> QED
    BY <2>1, <2>2, <2>3, Untouched DEF AdminTypeOK
<1> QED
  BY <1>1, DatabaseTyped, SignTyped, ListTyped, FlagsTyped, DialogTyped DEF AdminTypeOK

-----------------------------------------------------------------------------
(* Confirmations, their commands and what they changed. *)

(* The steps that leave confirmations and their changes alone.             *)
Elsewhere ==
  UNCHANGED <<ledger, audit, requests, dialog, dialogs, confirm, confirms, saved>>

(* Loads and sessions leave them alone.                                    *)
LEMMA ListAndSignElsewhere == ListStep \/ SignStep => Elsewhere
BY DEF ListStep, SignStep, Refresh, SetQuery, ReadList, LoadReply, LoadFails, EndLoad,
       CheckReply, Login, LoginReply, SignOut, SignOutReply, Expire,
       Elsewhere, dbVars, dialogVars

(* Then what is known of them stays known.                                 *)
LEMMA ElsewhereKeeps ==
  ASSUME CommandInv, KindInv, LedgerInv, AnswerInv, Elsewhere
  PROVE  CommandInv' /\ KindInv' /\ LedgerInv' /\ AnswerInv'
<1> USE DEF Elsewhere
<1>1. CommandInv'
  BY DEF CommandInv, OfItsDialog, Waiting
<1>2. KindInv'
  BY ZenonT(30) DEF KindInv, EntriesOf
<1>3. LedgerInv'
  BY DEF LedgerInv, EntriesOf
<1>4. AnswerInv'
  BY DEF AnswerInv, Done, Audited, Adjusted, EntriesOf
<1> QED
  BY <1>1, <1>2, <1>3, <1>4

(* An answer changes nothing else in a request.                            *)
LEMMA AnswerOnly ==
  ASSUME AdminTypeOK, NEW r \in requests, NEW a \in {"ok", "error"}, Answer(r, a)
  PROVE  \A s \in requests' :
           \/ s \in requests /\ s # r
           \/ /\ s.answer = a /\ s.id = r.id /\ s.dialog = r.dialog /\ s.kind = r.kind
              /\ s.value = r.value /\ s.command = r.command
              /\ [s EXCEPT !.answer = "none"] = [r EXCEPT !.answer = "none"]
BY DEF AdminTypeOK, DialogTypeOK, Confirmations, Answer

(* CommandInv is kept: a confirmation gets the command of its dialog.      *)
LEMMA CommandKept ==
  ASSUME AdminTypeOK, CommandInv, DialogStep \/ ApiStep
  PROVE  CommandInv'
<1>1. DialogTypeOK
  BY DEF AdminTypeOK
<1>2. ASSUME NEW kind \in Kinds, OpenDialog(kind) PROVE CommandInv'
  BY <1>1, <1>2 DEF OpenDialog, CommandInv, OfItsDialog, Waiting, DialogTypeOK, NoDialog
<1>3. CASE Cancel
  BY <1>3 DEF Cancel, CommandInv, OfItsDialog, Waiting
<1>4. ASSUME NEW n \in Amounts, Confirm(n) PROVE CommandInv'
  <2>1. OfItsDialog(confirm)'
    BY <1>1, <1>4 DEF Confirm, CommandId, CommandInv, OfItsDialog, DialogTypeOK
  <2>2. confirm'.id = confirms + 1 /\ confirm'.answer = "none"
    BY <1>4 DEF Confirm
  <2>3. \A r \in requests : ~Waiting(r)'
    BY <1>1, <2>2 DEF CommandInv, OfItsDialog, Waiting, DialogTypeOK
  <2>4. confirm' = [confirm' EXCEPT !.answer = "none"]
    BY <1>4 DEF Confirm
  <2>5. \A c \in requests \cup saved : OfItsDialog(c)'
    BY <1>1, <1>4 DEF Confirm, CommandInv, OfItsDialog, DialogTypeOK
  <2>6. requests' = requests \cup {confirm'} /\ saved' = saved /\ dialog' = dialog
        /\ dialogs' = dialogs
    BY <1>4 DEF Confirm
  <2> QED
    BY <2>1, <2>3, <2>4, <2>5, <2>6 DEF CommandInv
<1>5. ASSUME NEW r \in requests, SavedReply(r) PROVE CommandInv'
  <2>1. /\ requests' = requests \ {r} /\ confirm' = NoConfirm /\ dialog' = NoDialog
        /\ saved' = saved \cup {[confirm EXCEPT !.answer = "ok"]}
        /\ confirms' = confirms /\ dialogs' = dialogs
    BY <1>5 DEF SavedReply
  <2>2. confirm \in Confirmations /\ confirm # NoConfirm
    BY <1>5, AwaitedTyped DEF SavedReply
  <2>3. OfItsDialog([confirm EXCEPT !.answer = "ok"])
    BY <2>2 DEF CommandInv, OfItsDialog, Confirmations
  <2>4. \A c \in requests' \cup saved' : OfItsDialog(c)'
    BY <2>1, <2>3 DEF CommandInv, OfItsDialog
  <2>5. \A s \in requests' : ~Waiting(s)'
    BY <1>1, <2>1 DEF CommandInv, OfItsDialog, Waiting, NoConfirm, DialogTypeOK
  <2> QED
    BY <2>1, <2>4, <2>5 DEF CommandInv
<1>6. ASSUME NEW r \in requests, ErrorReply(r) PROVE CommandInv'
  BY <1>1, <1>6 DEF ErrorReply, SaveFails, CommandInv, OfItsDialog, Waiting, NoConfirm, DialogTypeOK
<1>7. ASSUME NEW r \in requests, Unheard(r) PROVE CommandInv'
  BY <1>7 DEF Unheard, CommandInv, OfItsDialog, Waiting, dialogVars
<1>8. CASE GiveUp
  BY <1>1, <1>8 DEF GiveUp, SaveFails, CommandInv, OfItsDialog, Waiting, NoConfirm, DialogTypeOK
<1>9. ASSUME NEW r \in requests, Adjustment(r) \/ StatusChange(r) \/ RefuseSession(r)
      PROVE  CommandInv'
  <2>1. Answer(r, "ok") \/ Answer(r, "error")
    BY <1>9 DEF Adjustment, StatusChange, RefuseSession
  <2>2. UNCHANGED <<dialog, dialogs, confirm, confirms, saved>>
    BY <1>9 DEF Adjustment, StatusChange, RefuseSession, dialogVars
  <2>3. \A s \in requests' : OfItsDialog(s) /\ (Waiting(s) => confirm = [s EXCEPT !.answer = "none"])
    <3> SUFFICES ASSUME NEW s \in requests'
                 PROVE  OfItsDialog(s) /\ (Waiting(s) => confirm = [s EXCEPT !.answer = "none"])
      OBVIOUS
    <3>1. PICK a \in {"ok", "error"} : Answer(r, a)
      BY <2>1
    <3>2. CASE s \in requests
      BY <3>2 DEF CommandInv
    <3>3. CASE s \notin requests
      <4>1. /\ s.id = r.id /\ s.dialog = r.dialog /\ s.command = r.command
            /\ [s EXCEPT !.answer = "none"] = [r EXCEPT !.answer = "none"]
        BY <3>1, <3>3, AnswerOnly
      <4> QED
        BY <4>1 DEF CommandInv, OfItsDialog, Waiting
    <3> QED
      BY <3>2, <3>3
  <2> QED
    BY <2>2, <2>3 DEF CommandInv, OfItsDialog, Waiting
<1> QED
  BY <1>2, <1>3, <1>4, <1>5, <1>6, <1>7, <1>8, <1>9 DEF DialogStep, ApiStep, Kinds

(* Two forms of one confirmation.                                          *)
Alike(s, t) ==
  /\ s.id = t.id /\ s.dialog = t.dialog /\ s.kind = t.kind
  /\ s.value = t.value /\ s.command = t.command

(* A command names one dialog.                                             *)
LEMMA CommandNames == \A d, e : <<d>> = <<e>> => d = e
OBVIOUS

(* A sequence that grows keeps its elements.                               *)
LEMMA Appended ==
  ASSUME NEW S, NEW q \in Seq(S), NEW e \in S
  PROVE  /\ DOMAIN q = 1..Len(q) /\ Len(q) \in Nat
         /\ DOMAIN Append(q, e) = DOMAIN q \cup {Len(q) + 1}
         /\ Len(Append(q, e)) = Len(q) + 1
         /\ Append(q, e)[Len(q) + 1] = e
         /\ \A i \in DOMAIN q : Append(q, e)[i] = q[i] /\ i # Len(q) + 1
OBVIOUS

(* The ledger gets the adjustment r asks for, as its last entry.           *)
LedgerGrows(r) ==
  LET n == Len(ledger) + 1 IN
  /\ DOMAIN ledger' = DOMAIN ledger \cup {n} /\ n \notin DOMAIN ledger
  /\ \A i \in DOMAIN ledger : ledger'[i] = ledger[i]
  /\ ledger'[n].command = r.command /\ ledger'[n].amount = r.value

(* The audit gets the entry of r, as its last.                             *)
AuditGrows(r) ==
  LET n == Len(audit) + 1 IN
  /\ DOMAIN audit = 1..(n - 1) /\ n \in Nat /\ Len(audit') = n
  /\ DOMAIN audit' = DOMAIN audit \cup {n} /\ n \notin DOMAIN audit
  /\ \A i \in DOMAIN audit : audit'[i] = audit[i]
  /\ audit'[n].confirm = r.id /\ audit'[n].dialog = r.dialog

(* What the API does with a request: it makes an adjustment that was not   *)
(* made, or a change of status, each with its audit entry, or neither.     *)
Adjusts(r) ==
  r.kind = "adjust" /\ EntriesOf(r.command) = {} /\ LedgerGrows(r) /\ AuditGrows(r)
ChangesStatus(r) == r.kind = "status" /\ UNCHANGED ledger /\ AuditGrows(r)
Repeats(r) == UNCHANGED <<ledger, audit>>

(* What the API does for one request.                                      *)
LEMMA ApiEffects ==
  ASSUME AdminTypeOK, NEW r \in requests,
         Adjustment(r) \/ StatusChange(r) \/ RefuseSession(r)
  PROVE  /\ Adjusts(r) \/ ChangesStatus(r) \/ Repeats(r)
         /\ UNCHANGED <<dialog, dialogs, confirm, confirms, saved>>
         /\ \A s \in requests' :
              /\ \E t \in requests : Alike(s, t)
              /\ s.answer = "ok" /\ s \notin requests =>
                   /\ Alike(s, r)
                   /\ \/ Adjusts(r) \/ ChangesStatus(r)
                      \/ Repeats(r) /\ r.kind = "adjust" /\ Adjusted(r)
<1>1. r \in Confirmations /\ audit \in Audits /\ ledger \in Ledgers
  BY DEF AdminTypeOK, DialogTypeOK, DatabaseTypeOK
<1>2. audit' = Append(audit, [confirm |-> r.id, dialog |-> r.dialog]) => AuditGrows(r)
  <2> DEFINE e == [confirm |-> r.id, dialog |-> r.dialog]
  <2>1. e \in [confirm : Nat, dialog : Nat]
    BY <1>1 DEF Confirmations
  <2>2. e.confirm = r.id /\ e.dialog = r.dialog
    OBVIOUS
  <2> HIDE DEF e
  <2> QED
    BY <1>1, <2>1, <2>2, Appended DEF Audits, AuditGrows, e
<1>3. ledger' = Append(ledger, [command |-> r.command, amount |-> r.value]) => LedgerGrows(r)
  <2> DEFINE e == [command |-> r.command, amount |-> r.value]
  <2>1. e \in [command : Seq(Nat), amount : Int]
    BY <1>1 DEF Confirmations
  <2>2. e.command = r.command /\ e.amount = r.value
    OBVIOUS
  <2> HIDE DEF e
  <2> QED
    BY <1>1, <2>1, <2>2, Appended DEF Ledgers, LedgerGrows, e
<1>4. Adjusts(r) \/ ChangesStatus(r) \/ Repeats(r)
  BY <1>2, <1>3 DEF Adjustment, StatusChange, RefuseSession, Adjusts, ChangesStatus, Repeats, dbVars
<1>5. UNCHANGED <<dialog, dialogs, confirm, confirms, saved>>
  BY DEF Adjustment, StatusChange, RefuseSession, dialogVars
<1>6. PICK a \in {"ok", "error"} :
        /\ Answer(r, a)
        /\ a = "ok" => \/ Adjusts(r) \/ ChangesStatus(r)
                       \/ Repeats(r) /\ r.kind = "adjust" /\ Adjusted(r)
  <2>1. CASE Answer(r, "error")
    BY <2>1
  <2>2. CASE Answer(r, "ok") /\ (Adjusts(r) \/ ChangesStatus(r))
    BY <2>2
  <2>3. CASE Answer(r, "ok") /\ Repeats(r) /\ r.kind = "adjust" /\ Adjusted(r)
    BY <2>3
  <2> QED
    BY <1>2, <1>3, <2>1, <2>2, <2>3
       DEF Adjustment, StatusChange, RefuseSession, Adjusts, ChangesStatus, Repeats, Adjusted
<1>7. ASSUME NEW s \in requests'
      PROVE  /\ \E t \in requests : Alike(s, t)
             /\ s \notin requests => Alike(s, r) /\ s.answer = a
  BY <1>6, <1>7, AnswerOnly DEF Alike
<1> QED
  BY <1>4, <1>5, <1>6, <1>7

(* KindInv is kept by the API: only an adjustment enters the ledger, and   *)
(* the requests of one dialog have one kind.                               *)
LEMMA ApiKeepsKinds ==
  ASSUME AdminTypeOK, CommandInv, KindInv, NEW r \in requests,
         Adjustment(r) \/ StatusChange(r) \/ RefuseSession(r)
  PROVE  KindInv'
<1>1. /\ Adjusts(r) \/ ChangesStatus(r) \/ Repeats(r)
      /\ dialog' = dialog
      /\ \A s \in requests' : \E t \in requests : Alike(s, t)
  BY ApiEffects
<1>2. \A t \in requests : t.command = <<t.dialog>>
  BY DEF CommandInv, OfItsDialog
<1>3. \A s \in requests' : s.dialog = dialog.id => s.kind = dialog.kind
  BY <1>1 DEF Alike, KindInv
<1>4. ASSUME NEW s \in requests', NEW u \in requests', s.dialog = u.dialog
      PROVE  s.kind = u.kind
  <2>1. PICK t \in requests : Alike(s, t)
    BY <1>1
  <2>2. PICK v \in requests : Alike(u, v)
    BY <1>1
  <2> QED
    <3>1. t.dialog = v.dialog
      BY <1>4, <2>1, <2>2 DEF Alike
    <3>2. t.kind = v.kind
      BY <3>1 DEF KindInv
    <3> QED
      BY <2>1, <2>2, <3>2 DEF Alike
<1>5. ASSUME NEW i \in DOMAIN ledger'
      PROVE  /\ \A s \in requests' : ledger'[i].command = s.command => s.kind = "adjust"
             /\ ledger'[i].command = <<dialog.id>> => dialog.kind = "adjust"
  <2>1. CASE i \in DOMAIN ledger /\ ledger'[i] = ledger[i]
    <3>1. \A t \in requests : ledger[i].command = t.command => t.kind = "adjust"
      BY <2>1 DEF KindInv
    <3> QED
      BY <1>1, <2>1, <3>1 DEF Alike, KindInv
  <2>2. CASE Adjusts(r) /\ ledger'[i].command = r.command
    <3>1. r.kind = "adjust" /\ r.command = <<r.dialog>>
      BY <1>2, <2>2 DEF Adjusts
    <3>2. \A t \in requests : r.command = t.command => t.kind = "adjust"
      BY <1>2, <3>1, CommandNames DEF KindInv
    <3>3. r.command = <<dialog.id>> => dialog.kind = "adjust"
      BY <3>1, CommandNames DEF KindInv
    <3> QED
      BY <1>1, <2>2, <3>2, <3>3 DEF Alike
  <2> QED
    BY <1>1, <1>5, <2>1, <2>2 DEF Adjusts, ChangesStatus, Repeats, LedgerGrows
<1>6. ASSUME NEW c, EntriesOf(c)' = {} PROVE EntriesOf(c) = {}
  BY <1>1, <1>6 DEF EntriesOf, Adjusts, ChangesStatus, Repeats, LedgerGrows
<1>7. ASSUME NEW i \in DOMAIN audit', EntriesOf(<<audit[i].dialog>>)' = {}
      PROVE  /\ \A s \in requests' : audit'[i].dialog = s.dialog => s.kind = "status"
             /\ audit'[i].dialog = dialog.id => dialog.kind = "status"
  <2>1. CASE i \in DOMAIN audit /\ audit'[i] = audit[i]
    <3>1. EntriesOf(<<audit[i].dialog>>) = {}
      BY <1>6, <1>7, <2>1
    <3>2. \A t \in requests : audit[i].dialog = t.dialog => t.kind = "status"
      BY <2>1, <3>1 DEF KindInv
    <3> QED
      BY <1>1, <2>1, <3>1, <3>2 DEF Alike, KindInv
  <2>2. CASE ChangesStatus(r) /\ audit'[i].dialog = r.dialog
    <3>1. \A t \in requests : r.dialog = t.dialog => t.kind = "status"
      BY <2>2 DEF ChangesStatus, KindInv
    <3>2. r.dialog = dialog.id => dialog.kind = "status"
      BY <2>2 DEF ChangesStatus, KindInv
    <3> QED
      BY <1>1, <2>2, <3>1, <3>2 DEF Alike
  <2>3. CASE Adjusts(r) /\ audit'[i].dialog = r.dialog
    <3>1. ledger'[Len(ledger) + 1].command = <<audit'[i].dialog>>
      BY <1>2, <2>3 DEF Adjusts, LedgerGrows
    <3> QED
      BY <1>7, <2>3, <3>1 DEF Adjusts, LedgerGrows, EntriesOf
  <2> QED
    BY <1>1, <1>7, <2>1, <2>2, <2>3 DEF Adjusts, ChangesStatus, Repeats, AuditGrows
<1> QED
  BY <1>1, <1>3, <1>4, <1>5, <1>7 DEF KindInv

(* LedgerInv is kept by the API.                                           *)
LEMMA ApiKeepsLedger ==
  ASSUME AdminTypeOK, CommandInv, KindInv, LedgerInv, NEW r \in requests,
         Adjustment(r) \/ StatusChange(r) \/ RefuseSession(r)
  PROVE  LedgerInv'
<1>1. /\ Adjusts(r) \/ ChangesStatus(r) \/ Repeats(r)
      /\ dialogs' = dialogs
  BY ApiEffects
<1>2. r.command = <<r.dialog>> /\ r.dialog \in 1..dialogs
  BY DEF CommandInv, OfItsDialog
<1>3. CASE Repeats(r)
  BY <1>1, <1>3 DEF Repeats, LedgerInv, EntriesOf
<1>4. CASE ChangesStatus(r)
  <2>1. /\ ledger' = ledger /\ AuditGrows(r) /\ r.kind = "status"
        /\ \A c : EntriesOf(c)' = EntriesOf(c)
    BY <1>4 DEF ChangesStatus, EntriesOf
  <2>2. EntriesOf(<<r.dialog>>) = {}
    BY <1>2, <2>1 DEF KindInv, EntriesOf
  <2>3. ASSUME NEW j \in DOMAIN audit', NEW k \in DOMAIN audit',
               audit'[j].dialog = audit'[k].dialog, EntriesOf(<<audit'[j].dialog>>) # {}
        PROVE  j = k
    <3>1. j \in DOMAIN audit /\ k \in DOMAIN audit
      BY <2>1, <2>2, <2>3 DEF AuditGrows
    <3> QED
      BY <2>1, <2>3, <3>1 DEF AuditGrows, LedgerInv
  <2>4. \A j \in DOMAIN audit' : audit'[j].dialog \in 1..dialogs
    BY <1>2, <2>1 DEF AuditGrows, LedgerInv
  <2>5. \A i \in DOMAIN ledger : \E j \in DOMAIN audit' : ledger[i].command = <<audit'[j].dialog>>
    BY <2>1 DEF AuditGrows, LedgerInv
  <2> QED
    BY <1>1, <2>1, <2>3, <2>4, <2>5 DEF LedgerInv
<1>5. CASE Adjusts(r)
  <2>1. /\ LedgerGrows(r) /\ AuditGrows(r) /\ r.kind = "adjust"
        /\ EntriesOf(<<r.dialog>>) = {}
    BY <1>2, <1>5 DEF Adjusts
  <2>2. \A i \in DOMAIN audit : audit[i].dialog # r.dialog
    BY <2>1 DEF KindInv
  <2>3. \A c : c # r.command => EntriesOf(c)' = EntriesOf(c)
    BY <2>1 DEF LedgerGrows, EntriesOf
  <2>4. \A i \in DOMAIN ledger' : \E d \in 1..dialogs : ledger'[i].command = <<d>>
    BY <1>2, <2>1 DEF LedgerGrows, LedgerInv
  <2>5. ASSUME NEW i \in DOMAIN ledger', NEW j \in DOMAIN ledger',
               ledger'[i].command = ledger'[j].command
        PROVE  i = j
    BY <1>2, <2>1, <2>5 DEF LedgerGrows, LedgerInv, EntriesOf
  <2>6. \A j \in DOMAIN audit' : audit'[j].dialog \in 1..dialogs
    BY <1>2, <2>1 DEF AuditGrows, LedgerInv
  <2>7. ASSUME NEW i \in DOMAIN ledger'
        PROVE  \E j \in DOMAIN audit' : ledger'[i].command = <<audit'[j].dialog>>
    BY <1>2, <2>1 DEF LedgerGrows, AuditGrows, LedgerInv
  <2>8. ASSUME NEW j \in DOMAIN audit', NEW k \in DOMAIN audit',
               audit'[j].dialog = audit'[k].dialog, EntriesOf(<<audit[j].dialog>>)' # {}
        PROVE  j = k
    <3>1. CASE audit'[j].dialog = r.dialog
      BY <2>1, <2>2, <2>8, <3>1 DEF AuditGrows
    <3>2. CASE audit'[j].dialog # r.dialog
      <4>1. j \in DOMAIN audit /\ k \in DOMAIN audit
        BY <2>1, <2>8, <3>2 DEF AuditGrows
      <4>2. <<audit'[j].dialog>> # r.command
        BY <1>2, <3>2, CommandNames
      <4>3. EntriesOf(<<audit[j].dialog>>) # {}
        BY <2>1, <2>3, <2>8, <4>1, <4>2 DEF AuditGrows
      <4> QED
        BY <2>1, <2>8, <4>1, <4>3 DEF AuditGrows, LedgerInv
    <3> QED
      BY <3>1, <3>2
  <2> QED
    BY <1>1, <2>4, <2>5, <2>6, <2>7, <2>8 DEF LedgerInv
<1> QED
  BY <1>1, <1>3, <1>4, <1>5

(* AnswerInv is kept by the API: what is answered with success was made    *)
(* with this request or with an earlier one of its dialog.                 *)
LEMMA ApiKeepsAnswers ==
  ASSUME AdminTypeOK, CommandInv, LedgerInv, AnswerInv, NEW r \in requests,
         Adjustment(r) \/ StatusChange(r) \/ RefuseSession(r)
  PROVE  AnswerInv'
<1>1. /\ Adjusts(r) \/ ChangesStatus(r) \/ Repeats(r)
      /\ saved' = saved
      /\ \A s \in requests' : s.answer = "ok" /\ s \notin requests =>
           /\ Alike(s, r)
           /\ \/ Adjusts(r) \/ ChangesStatus(r)
              \/ Repeats(r) /\ r.kind = "adjust" /\ Adjusted(r)
  BY ApiEffects
<1>2. r.command = <<r.dialog>> /\ r.kind \in Kinds
  BY DEF CommandInv, OfItsDialog, AdminTypeOK, DialogTypeOK, Confirmations
<1>3. Len(audit) \in Nat /\ DOMAIN audit = 1..Len(audit)
  BY DEF AdminTypeOK, DatabaseTypeOK, Audits
<1>4. ASSUME NEW c, Done(c) PROVE Done(c)'
  <2>1. Audited(Len(audit), c)'
    BY <1>1, <1>3, <1>4 DEF Done, Audited, Adjusts, ChangesStatus, Repeats, AuditGrows
  <2>2. Adjusted(c) => Adjusted(c)'
    BY <1>1 DEF Adjusted, EntriesOf, Adjusts, ChangesStatus, Repeats, LedgerGrows
  <2> QED
    BY <1>4, <2>1, <2>2 DEF Done
<1>5. AuditGrows(r) => Audited(Len(audit), r)'
  BY DEF AuditGrows, Audited
<1>6. Adjusts(r) => Done(r)'
  BY <1>5 DEF Adjusts, Done, Adjusted, EntriesOf, LedgerGrows
<1>7. ChangesStatus(r) => Done(r)'
  BY <1>5 DEF ChangesStatus, Done
<1>8. r.kind = "adjust" /\ Adjusted(r) => Done(r)
  <2> SUFFICES ASSUME r.kind = "adjust", Adjusted(r) PROVE Done(r)
    OBVIOUS
  <2>1. PICK i \in DOMAIN ledger : ledger[i].command = <<r.dialog>>
    BY <1>2 DEF Adjusted, EntriesOf
  <2>2. PICK j \in DOMAIN audit : <<r.dialog>> = <<audit[j].dialog>>
    BY <2>1 DEF LedgerInv
  <2>3. audit[j].dialog = r.dialog /\ j <= Len(audit)
    BY <1>3, <2>2, CommandNames
  <2> QED
    BY <2>3 DEF Done, Audited
<1>9. ASSUME NEW s \in requests', s.answer = "ok" PROVE Done(s)'
  <2>1. CASE s \in requests
    BY <1>4, <1>9, <2>1 DEF AnswerInv
  <2>2. CASE s \notin requests
    <3>1. Done(r)' /\ Alike(s, r)
      BY <1>1, <1>4, <1>6, <1>7, <1>8, <1>9, <2>2
    <3> QED
      BY <3>1 DEF Alike, Done, Audited, Adjusted, EntriesOf
  <2> QED
    BY <2>1, <2>2
<1> QED
  BY <1>1, <1>4, <1>9 DEF AnswerInv

(* Dialogs of the page change neither ledger nor audit.                    *)
LEMMA DialogKeepsDatabase == DialogStep => UNCHANGED <<ledger, audit>>
BY DEF DialogStep, OpenDialog, Cancel, Confirm, SavedReply, ErrorReply, Unheard, GiveUp,
       SaveFails, dbVars

(* KindInv is kept by the page: a dialog that opens is new, and a          *)
(* confirmation has the kind of its dialog.                                *)
LEMMA DialogKeepsKinds ==
  ASSUME AdminTypeOK, CommandInv, KindInv, LedgerInv, DialogStep
  PROVE  KindInv'
<1>1. UNCHANGED <<ledger, audit>> /\ dialogs \in Nat /\ \A c : EntriesOf(c)' = EntriesOf(c)
  BY DialogKeepsDatabase DEF EntriesOf, AdminTypeOK, DialogTypeOK
<1>2. /\ \A r \in requests : r.dialog \in 1..dialogs /\ r.command = <<r.dialog>>
      /\ \A i \in DOMAIN ledger : \E d \in 1..dialogs : ledger[i].command = <<d>>
      /\ \A j \in DOMAIN audit : audit[j].dialog \in 1..dialogs
  BY DEF CommandInv, OfItsDialog, LedgerInv
<1>3. ASSUME requests' \subseteq requests, dialog'.id \notin 1..dialogs \/ dialog' = dialog
      PROVE  KindInv'
  <2>1. \A r \in requests' : r.dialog = dialog'.id => r.kind = dialog'.kind
    BY <1>2, <1>3 DEF KindInv
  <2>2. \A r, s \in requests' : r.dialog = s.dialog => r.kind = s.kind
    BY <1>3 DEF KindInv
  <2>3. ASSUME NEW i \in DOMAIN ledger
        PROVE  /\ \A r \in requests' : ledger[i].command = r.command => r.kind = "adjust"
               /\ ledger[i].command = <<dialog'.id>> => dialog'.kind = "adjust"
    <3>1. PICK d \in 1..dialogs : ledger[i].command = <<d>>
      BY <1>2
    <3>2. <<d>> = <<dialog'.id>> => d = dialog'.id
      BY CommandNames
    <3> QED
      BY <1>3, <3>1, <3>2 DEF KindInv
  <2>4. ASSUME NEW i \in DOMAIN audit, EntriesOf(<<audit[i].dialog>>) = {}
        PROVE  /\ \A r \in requests' : audit[i].dialog = r.dialog => r.kind = "status"
               /\ audit[i].dialog = dialog'.id => dialog'.kind = "status"
    BY <1>2, <1>3, <2>4 DEF KindInv
  <2> QED
    BY <1>1, <2>1, <2>2, <2>3, <2>4 DEF KindInv
<1>4. ASSUME NEW kind \in Kinds, OpenDialog(kind) PROVE KindInv'
  BY <1>1, <1>3, <1>4 DEF OpenDialog
<1>5. CASE Cancel
  BY <1>3, <1>5 DEF Cancel, NoDialog
<1>6. ASSUME NEW n \in Amounts, Confirm(n) PROVE KindInv'
  <2>1. /\ requests' = requests \cup {confirm'} /\ dialog' = dialog
        /\ confirm'.dialog = dialog.id /\ confirm'.kind = dialog.kind
        /\ confirm'.command = <<dialog.id>>
    BY <1>6 DEF Confirm, CommandId
  <2>2. \A r \in requests' : r.dialog = dialog.id => r.kind = dialog.kind
    BY <2>1 DEF KindInv
  <2>3. \A r, s \in requests' : r.dialog = s.dialog => r.kind = s.kind
    BY <2>1, <2>2 DEF KindInv
  <2>4. \A i \in DOMAIN ledger, r \in requests' : ledger[i].command = r.command => r.kind = "adjust"
    BY <2>1 DEF KindInv
  <2>5. ASSUME NEW i \in DOMAIN audit, EntriesOf(<<audit[i].dialog>>) = {}
        PROVE  \A r \in requests' : audit[i].dialog = r.dialog => r.kind = "status"
    BY <2>1, <2>5 DEF KindInv
  <2> QED
    BY <1>1, <2>1, <2>2, <2>3, <2>4, <2>5 DEF KindInv
<1>7. ASSUME NEW r \in requests, SavedReply(r) \/ ErrorReply(r) \/ Unheard(r) PROVE KindInv'
  BY <1>3, <1>7 DEF SavedReply, ErrorReply, Unheard, SaveFails, NoDialog, dialogVars
<1>8. CASE GiveUp
  BY <1>3, <1>8 DEF GiveUp, SaveFails
<1> QED
  BY <1>4, <1>5, <1>6, <1>7, <1>8 DEF DialogStep, Kinds

(* LedgerInv is kept by the page: there are only more dialogs.             *)
LEMMA DialogKeepsLedger == AdminTypeOK /\ LedgerInv /\ DialogStep => LedgerInv'
<1> SUFFICES ASSUME AdminTypeOK, LedgerInv, DialogStep PROVE LedgerInv'
  OBVIOUS
<1>1. UNCHANGED <<ledger, audit>> /\ \A c : EntriesOf(c)' = EntriesOf(c)
  BY DialogKeepsDatabase DEF EntriesOf
<1>2. dialogs \in Nat /\ dialogs' \in {dialogs, dialogs + 1}
  BY DEF AdminTypeOK, DialogTypeOK, DialogStep, OpenDialog, Cancel, Confirm, SavedReply,
         ErrorReply, Unheard, GiveUp, SaveFails, dialogVars
<1>3. 1..dialogs \subseteq 1..dialogs'
  BY <1>2
<1> QED
  BY <1>1, <1>3 DEF LedgerInv

(* AnswerInv is kept by the page: what it takes for saved was answered.    *)
LEMMA DialogKeepsAnswers == 
  ASSUME AdminTypeOK, CommandInv, AnswerInv, DialogStep
  PROVE  AnswerInv'
<1>1. \A c : Done(c)' <=> Done(c)
  BY DialogKeepsDatabase DEF Done, Audited, Adjusted, EntriesOf
<1>2. ASSUME requests' \subseteq requests, saved' = saved PROVE AnswerInv'
  BY <1>1, <1>2 DEF AnswerInv
<1>3. ASSUME NEW n \in Amounts, Confirm(n) PROVE AnswerInv'
  <2>1. requests' = requests \cup {confirm'} /\ saved' = saved /\ confirm'.answer = "none"
    BY <1>3 DEF Confirm
  <2> QED
    BY <1>1, <2>1 DEF AnswerInv
<1>4. ASSUME NEW r \in requests, SavedReply(r) PROVE AnswerInv'
  <2>1. /\ requests' \subseteq requests /\ r.answer = "ok" /\ Waiting(r)
        /\ saved' = saved \cup {[confirm EXCEPT !.answer = "ok"]}
    BY <1>4 DEF SavedReply
  <2>2. confirm = [r EXCEPT !.answer = "none"] /\ r \in Confirmations
    BY <2>1, AwaitedTyped DEF AdminTypeOK, DialogTypeOK
  <2>3. Alike([confirm EXCEPT !.answer = "ok"], r)
    BY <2>2 DEF Alike, Confirmations
  <2>4. Done(r)
    BY <2>1 DEF AnswerInv
  <2>5. Done([confirm EXCEPT !.answer = "ok"])
    BY <2>3, <2>4 DEF Alike, Done, Audited, Adjusted, EntriesOf
  <2> QED
    BY <1>1, <2>1, <2>5 DEF AnswerInv
<1>5. ASSUME NEW r \in requests, ErrorReply(r) \/ Unheard(r) PROVE AnswerInv'
  BY <1>2, <1>5 DEF ErrorReply, Unheard, SaveFails, dialogVars
<1>6. ASSUME NEW kind \in Kinds, OpenDialog(kind) PROVE AnswerInv'
  BY <1>2, <1>6 DEF OpenDialog
<1>7. CASE Cancel \/ GiveUp
  BY <1>2, <1>7 DEF Cancel, GiveUp, SaveFails
<1> QED
  BY <1>3, <1>4, <1>5, <1>6, <1>7 DEF DialogStep, Kinds

-----------------------------------------------------------------------------
(* The page is busy with one thing at a time, and its list is current. *)

(* BusyInv is kept: a page that is busy starts nothing else.               *)
LEMMA BusyKept == AdminTypeOK /\ CommandInv /\ BusyInv /\ Next => BusyInv'
<1> SUFFICES ASSUME AdminTypeOK, CommandInv, BusyInv, Next PROVE BusyInv'
  OBVIOUS
<1> USE DEF noteVars, dialogVars, signVars
<1>1. CASE UNCHANGED <<confirm, busy, dialog, signing, saveLoad>>
  BY <1>1 DEF BusyInv
<1>2. ASSUME NEW l \in loads, LoadReply(l) \/ LoadFails(l) PROVE BusyInv'
  <2>1. /\ saveLoad' = IF saveLoad = l.version THEN 0 ELSE saveLoad
        /\ busy' = IF saveLoad = l.version THEN FALSE ELSE busy
        /\ UNCHANGED <<confirm, dialog, signing>>
    BY <1>2 DEF LoadReply, LoadFails, EndLoad
  <2>2. l.version # 0
    BY DEF AdminTypeOK, ListTypeOK, Loads
  <2> QED
    BY <2>1, <2>2 DEF BusyInv
<1>3. CASE ListStep
  BY <1>1, <1>2, <1>3 DEF ListStep, Refresh, SetQuery, ReadList
<1>4. ASSUME NEW kind \in Kinds, OpenDialog(kind) PROVE BusyInv'
  BY <1>4 DEF OpenDialog, BusyInv, NoDialog, AdminTypeOK, DialogTypeOK
<1>5. CASE Cancel
  BY <1>5 DEF Cancel, BusyInv
<1>6. ASSUME NEW n \in Amounts, Confirm(n) PROVE BusyInv'
  BY <1>6 DEF Confirm, BusyInv
<1>7. ASSUME NEW r \in requests, SavedReply(r) PROVE BusyInv'
  <2>1. confirm # NoConfirm
    BY <1>7, AwaitedTyped DEF SavedReply
  <2> QED
    BY <1>7, <2>1 DEF SavedReply, BusyInv
<1>8. ASSUME NEW r \in requests, ErrorReply(r) PROVE BusyInv'
  <2>1. confirm # NoConfirm
    BY <1>8, AwaitedTyped DEF ErrorReply
  <2> QED
    BY <1>8, <2>1 DEF ErrorReply, SaveFails, BusyInv
<1>9. CASE GiveUp
  BY <1>9 DEF GiveUp, SaveFails, BusyInv
<1>10. CASE DialogStep
  BY <1>1, <1>4, <1>5, <1>6, <1>7, <1>8, <1>9, <1>10 DEF DialogStep, Unheard, Kinds
<1>11. CASE ApiStep
  BY <1>1, <1>11 DEF ApiStep, Adjustment, StatusChange, RefuseSession
<1>12. CASE Login \/ LoginReply
  BY <1>12 DEF Login, LoginReply, BusyInv
<1>13. CASE SignStep
  BY <1>1, <1>12, <1>13 DEF SignStep, CheckReply, SignOut, SignOutReply, Expire
<1> QED
  BY <1>3, <1>10, <1>11, <1>13 DEF Next

(* A load that starts is the newest, and was not read yet.                 *)
LEMMA NewestLoad ==
  ASSUME AdminTypeOK, ListInv, NEW q, NEW s, NEW l,
         l = [version |-> loadVersion + 1, query |-> q, session |-> s,
              status |-> "none", seen |-> 0],
         loads' = loads \cup {l}, loadVersion' = loadVersion + 1
  PROVE  /\ \A k \in loads' : /\ k.version <= loadVersion'
                              /\ k.version = loadVersion' => k.query = q /\ k.status = "none"
         /\ \E k \in loads' : k.version = loadVersion'
<1>1. loadVersion \in Nat /\ \A k \in loads : k.version \in Nat /\ k.version <= loadVersion
  BY DEF AdminTypeOK, ListTypeOK, Loads, ListInv, LoadInv
<1> QED
  BY <1>1

(* A load that starts, for the query of the page, keeps ListInv.           *)
LEMMA LoadKeepsList ==
  ASSUME AdminTypeOK, ListInv, NEW s,
         loads' = loads \cup {[version |-> loadVersion + 1, query |-> query', session |-> s,
                              status |-> "none", seen |-> 0]},
         loadVersion' = loadVersion + 1,
         confirm' = NoConfirm \/ (confirm' = confirm /\ query' = query)
  PROVE  ListInv'
<1>1. /\ \A k \in loads' : /\ k.version <= loadVersion'
                           /\ k.version = loadVersion' => k.query = query' /\ k.status = "none"
      /\ \E k \in loads' : k.version = loadVersion'
  BY NewestLoad
<1>2. confirm' # NoConfirm => confirm'.query = query'
  BY DEF ListInv
<1> QED
  <2>1. ASSUME NEW k \in loads' PROVE LoadInv(k)'
    <3>1. /\ k.version <= loadVersion'
          /\ k.version = loadVersion' => k.query = query' /\ k.status = "none"
      BY <1>1
    <3> QED
      BY <3>1 DEF LoadInv
  <2>2. ShownInv'
    BY <1>1 DEF ShownInv
  <2> QED
    BY <1>2, <2>1, <2>2 DEF ListInv

(* A list that was up to date stays so while nothing else is saved.        *)
LEMMA UpToDateKept ==
  ASSUME AdminTypeOK, NEW n \in Nat, UpToDate(n), saved' = saved,
         audit' = audit \/ \E r : AuditGrows(r)
  PROVE  UpToDate(n)'
<1>1. CASE audit' = audit
  BY <1>1 DEF UpToDate, Audited
<1>2. ASSUME NEW r, AuditGrows(r) PROVE UpToDate(n)'
  <2>1. Len(audit) \in Nat /\ Len(audit') = Len(audit) + 1
    BY <1>2 DEF AuditGrows, AdminTypeOK, DatabaseTypeOK, Audits
  <2>2. DOMAIN audit \subseteq DOMAIN audit' /\ \A i \in DOMAIN audit : audit'[i] = audit[i]
    BY <1>2 DEF AuditGrows
  <2>3. \A c : Audited(n, c) => Audited(n, c)'
    BY <2>2 DEF Audited
  <2>4. n <= Len(audit')
    BY <2>1 DEF UpToDate
  <2> QED
    BY <2>3, <2>4 DEF UpToDate
<1> QED
  BY <1>1, <1>2

(* Loads keep ListInv.                                                     *)
LEMMA ListKeepsList ==
  ASSUME AdminTypeOK, Inert, BusyInv, AnswerInv, ListInv, ListStep
  PROVE  ListInv'
<1> USE DEF dbVars, dialogVars, signVars, noteVars
<1>1. /\ UNCHANGED <<confirm, audit, saved>>
      /\ \A n : UpToDate(n)' <=> UpToDate(n)
  BY DEF ListStep, Refresh, SetQuery, ReadList, LoadReply, LoadFails, EndLoad, UpToDate, Audited
<1>2. CASE Refresh
  BY <1>1, <1>2, LoadKeepsList DEF Refresh, Load
<1>3. ASSUME NEW q \in Queries, SetQuery(q) PROVE ListInv'
  <2>1. dialog = NoDialog
    BY <1>3 DEF SetQuery, Reachable
  <2>2. confirm = NoConfirm
    BY <2>1 DEF BusyInv
  <2> QED
    <3>1. /\ query' = q /\ loadVersion' = loadVersion + 1 /\ confirm' = NoConfirm
          /\ loads' = loads \cup {[version |-> loadVersion + 1, query |-> q, session |-> cookie,
                                  status |-> "none", seen |-> 0]}
      BY <1>1, <1>3, <2>2 DEF SetQuery, Load
    <3>2. loads' = loads \cup {[version |-> loadVersion + 1, query |-> query', session |-> cookie,
                               status |-> "none", seen |-> 0]}
      BY <3>1
    <3> QED
      BY <3>1, <3>2, LoadKeepsList
<1>4. ASSUME NEW l \in loads, ReadList(l) PROVE ListInv'
  <2>0. PICK k : k = [l EXCEPT !.status = status, !.seen = Len(audit)]
    OBVIOUS
  <2>1. /\ loads' = (loads \ {l}) \cup {k}
        /\ UNCHANGED <<query, loadVersion, shown, error, authorized>>
    BY <1>4, <2>0 DEF ReadList
  <2>2. k.version = l.version /\ k.query = l.query /\ k.seen = Len(audit)
    BY <2>0 DEF AdminTypeOK, ListTypeOK, Loads
  <2>3. UpToDate(Len(audit))
    BY Entries DEF UpToDate, AnswerInv, Done, AdminTypeOK, DatabaseTypeOK
  <2>4. LoadInv(k)'
    BY <1>1, <2>1, <2>2, <2>3 DEF ListInv, LoadInv
  <2>5. \A m \in loads : LoadInv(m)'
    BY <1>1, <2>1 DEF ListInv, LoadInv
  <2>6. (\E m \in loads : m.version = loadVersion) => \E m \in loads' : m.version = loadVersion
    BY <2>1, <2>2
  <2>7. ShownInv'
    BY <1>1, <2>1, <2>6 DEF ListInv, ShownInv
  <2> QED
    BY <1>1, <2>1, <2>4, <2>5, <2>7 DEF ListInv
<1>5. ASSUME NEW l \in loads, LoadReply(l), l.version = loadVersion PROVE ListInv'
  <2>1. /\ loads' = loads \ {l} /\ UNCHANGED <<query, loadVersion, authorized>>
        /\ shown'.query = l.query /\ shown'.seen = l.seen
    BY <1>5 DEF LoadReply, EndLoad, Display
  <2>2. l.query = query /\ UpToDate(l.seen)
    BY <1>5 DEF LoadReply, ListInv, LoadInv
  <2>3. \A m \in loads' : LoadInv(m)'
    BY <1>1, <2>1 DEF ListInv, LoadInv
  <2> QED
    BY <1>1, <2>1, <2>2, <2>3 DEF ListInv, ShownInv
<1>6. ASSUME NEW l \in loads, LoadReply(l), l.version # loadVersion PROVE ListInv'
  <2>1. /\ loads' = loads \ {l} /\ UNCHANGED <<query, loadVersion, authorized, shown, error>>
    BY <1>6 DEF LoadReply, EndLoad
  <2>2. (\E m \in loads : m.version = loadVersion) => \E m \in loads' : m.version = loadVersion
    BY <1>6, <2>1
  <2>3. \A m \in loads' : LoadInv(m)'
    BY <1>1, <2>1 DEF ListInv, LoadInv
  <2> QED
    BY <1>1, <2>1, <2>2, <2>3 DEF ListInv, ShownInv
<1>7. ASSUME NEW l \in loads, LoadFails(l) PROVE ListInv'
  <2>1. /\ loads' = loads \ {l} /\ UNCHANGED <<query, loadVersion>> /\ error' = TRUE
    BY <1>7 DEF LoadFails, EndLoad
  <2>2. \A m \in loads' : LoadInv(m)'
    BY <1>1, <2>1 DEF ListInv, LoadInv
  <2> QED
    BY <1>1, <2>1, <2>2 DEF ListInv, ShownInv
<1> QED
  BY <1>2, <1>3, <1>4, <1>5, <1>6, <1>7 DEF ListStep

(* So do dialogs: a change that is saved starts a load before the page is  *)
(* free, with the query of the confirmation, which is still that of the    *)
(* page.                                                                   *)
LEMMA DialogKeepsList ==
  ASSUME AdminTypeOK, CommandInv, ListInv, DialogStep
  PROVE  ListInv'
<1> USE DEF dbVars, signVars, listVars, dialogVars
<1>1. ASSUME UNCHANGED <<query, loads, loadVersion, shown, authorized, audit, saved>>,
             confirm' # NoConfirm \/ error' = TRUE \/ UNCHANGED <<confirm, error>>,
             confirm' # NoConfirm => confirm'.query = query
      PROVE  ListInv'
  <2>1. \A n : UpToDate(n)' <=> UpToDate(n)
    BY <1>1 DEF UpToDate, Audited
  <2>2. \A l \in loads' : LoadInv(l)'
    BY <1>1, <2>1 DEF ListInv, LoadInv
  <2>3. ShownInv'
    BY <1>1, <2>1 DEF ListInv, ShownInv
  <2> QED
    BY <1>1, <2>2, <2>3 DEF ListInv
<1>2. confirm # NoConfirm => confirm.query = query
  BY DEF ListInv
<1>3. ASSUME NEW kind \in Kinds, OpenDialog(kind) PROVE ListInv'
  BY <1>1, <1>2, <1>3 DEF OpenDialog, noteVars
<1>4. CASE Cancel
  BY <1>1, <1>2, <1>4 DEF Cancel, noteVars
<1>5. ASSUME NEW n \in Amounts, Confirm(n) PROVE ListInv'
  <2>1. confirm'.id = confirms + 1 /\ confirm'.query = query /\ confirms \in Nat
    BY <1>5 DEF Confirm, AdminTypeOK, DialogTypeOK
  <2>2. confirm' # NoConfirm
    BY <2>1 DEF NoConfirm
  <2> QED
    BY <1>1, <1>5, <2>1, <2>2 DEF Confirm
<1>6. ASSUME NEW r \in requests, SavedReply(r) PROVE ListInv'
  <2>1. confirm.query = query
    BY <1>2, <1>6, AwaitedTyped DEF SavedReply
  <2>2. loads' = loads \cup {[version |-> loadVersion + 1, query |-> query', session |-> cookie,
                             status |-> "none", seen |-> 0]}
    BY <1>6, <2>1 DEF SavedReply, Load
  <2> QED
    BY <1>6, <2>2, LoadKeepsList DEF SavedReply, Load
<1>7. ASSUME NEW r \in requests, ErrorReply(r) PROVE ListInv'
  BY <1>1, <1>7 DEF ErrorReply, SaveFails
<1>8. ASSUME NEW r \in requests, Unheard(r) PROVE ListInv'
  BY <1>1, <1>2, <1>8 DEF Unheard, noteVars
<1>9. CASE GiveUp
  BY <1>1, <1>9 DEF GiveUp, SaveFails
<1> QED
  BY <1>3, <1>4, <1>5, <1>6, <1>7, <1>8, <1>9 DEF DialogStep, Kinds

(* So does the API, whose changes come after what was read.                *)
LEMMA ApiKeepsList ==
  ASSUME AdminTypeOK, ListInv, ApiStep
  PROVE  ListInv'
<1>1. PICK r \in requests : Adjustment(r) \/ StatusChange(r) \/ RefuseSession(r)
  BY DEF ApiStep
<1>2. UNCHANGED <<query, loads, loadVersion, shown, authorized, confirm, error, saved>>
  BY <1>1 DEF Adjustment, StatusChange, RefuseSession, signVars, listVars, noteVars, dialogVars
<1>3. audit' = audit \/ AuditGrows(r)
  BY <1>1, ApiEffects DEF Adjusts, ChangesStatus, Repeats
<1>4. \A n \in Nat : UpToDate(n) => UpToDate(n)'
  BY <1>2, <1>3, UpToDateKept
<1>5. shown.seen \in Nat /\ \A l \in loads : l.seen \in Nat
  BY DEF AdminTypeOK, ListTypeOK, NoList, Loads
<1>6. \A l \in loads' : LoadInv(l)'
  BY <1>2, <1>4, <1>5 DEF ListInv, LoadInv
<1>7. ShownInv'
  BY <1>2, <1>4, <1>5 DEF ListInv, ShownInv
<1> QED
  BY <1>2, <1>6, <1>7 DEF ListInv

(* And so does signing in, which loads the list, and signing out.          *)
LEMMA SignKeepsList ==
  ASSUME AdminTypeOK, ListInv, SignStep
  PROVE  ListInv'
<1> USE DEF dbVars, signVars, listVars, noteVars, dialogVars
<1>1. UNCHANGED <<query, confirm, audit, saved>> /\ \A n : UpToDate(n)' <=> UpToDate(n)
  BY DEF SignStep, CheckReply, Login, LoginReply, SignOut, SignOutReply, Expire, UpToDate, Audited
<1>2. ASSUME UNCHANGED <<loads, loadVersion>>,
             authorized' = "no" \/ error' = TRUE \/ UNCHANGED <<authorized, error, shown>>
      PROVE  ListInv'
  <2>1. \A l \in loads' : LoadInv(l)'
    BY <1>1, <1>2 DEF ListInv, LoadInv
  <2>2. ShownInv'
    BY <1>1, <1>2 DEF ListInv, ShownInv
  <2> QED
    BY <1>1, <2>1, <2>2 DEF ListInv
<1>3. ASSUME NEW s, loadVersion' = loadVersion + 1,
             loads' = loads \cup {[version |-> loadVersion + 1, query |-> query, session |-> s,
                                  status |-> "none", seen |-> 0]}
      PROVE  ListInv'
  <2>1. loads' = loads \cup {[version |-> loadVersion + 1, query |-> query', session |-> s,
                             status |-> "none", seen |-> 0]}
    BY <1>1, <1>3
  <2> QED
    BY <1>1, <1>3, <2>1, LoadKeepsList
<1>4. CASE CheckReply
  BY <1>2, <1>3, <1>4 DEF CheckReply, Load
<1>5. CASE Login
  BY <1>2, <1>5 DEF Login
<1>6. CASE LoginReply
  BY <1>2, <1>3, <1>6 DEF LoginReply
<1>7. CASE SignOut \/ SignOutReply \/ Expire
  BY <1>2, <1>7 DEF SignOut, SignOutReply, Expire
<1> QED
  BY <1>4, <1>5, <1>6, <1>7 DEF SignStep

-----------------------------------------------------------------------------
(* The theorems. *)

(* The page opens with the invariant.                                      *)
LEMMA InitInvariant == Init => AdminInv
<1> SUFFICES ASSUME Init PROVE AdminInv
  OBVIOUS
<1>1. AdminTypeOK
  BY InitTyped
<1>2. CommandInv
  BY DEF Init, CommandInv
<1>3. KindInv /\ LedgerInv
  BY DEF Init, KindInv, LedgerInv
<1>4. AnswerInv
  BY DEF Init, AnswerInv
<1>5. BusyInv
  BY DEF Init, BusyInv
<1>6. ListInv
  BY DEF Init, ListInv, ShownInv
<1> QED
  BY <1>1, <1>2, <1>3, <1>4, <1>5, <1>6 DEF AdminInv, DialogInv

(* Every step keeps it.                                                    *)
LEMMA StepInvariant == AdminInv /\ [Next]_vars => AdminInv'
<1> SUFFICES ASSUME AdminInv, [Next]_vars PROVE AdminInv'
  OBVIOUS
<1>1. AdminTypeOK /\ CommandInv /\ KindInv /\ LedgerInv /\ AnswerInv /\ BusyInv
  BY DEF AdminInv, DialogInv
<1>2. Inert => ListInv
  BY DEF AdminInv
<1>3. AdminTypeOK'
  BY <1>1, StepTyped
<1>4. CASE ListStep \/ SignStep
  <2>1. Elsewhere
    BY <1>4, ListAndSignElsewhere
  <2>2. CommandInv' /\ KindInv' /\ LedgerInv' /\ AnswerInv'
    BY <1>1, <2>1, ElsewhereKeeps
  <2>3. BusyInv'
    BY <1>1, <1>4, BusyKept DEF Next
  <2>4. Inert => ListInv'
    BY <1>1, <1>2, <1>4, ListKeepsList, SignKeepsList
  <2> QED
    BY <1>3, <2>2, <2>3, <2>4 DEF AdminInv, DialogInv
<1>5. CASE DialogStep
  <2>1. CommandInv' /\ KindInv' /\ LedgerInv' /\ AnswerInv'
    BY <1>1, <1>5, CommandKept, DialogKeepsKinds, DialogKeepsLedger, DialogKeepsAnswers
  <2>2. BusyInv' /\ (Inert => ListInv')
    BY <1>1, <1>2, <1>5, BusyKept, DialogKeepsList DEF Next
  <2> QED
    BY <1>3, <2>1, <2>2 DEF AdminInv, DialogInv
<1>6. CASE ApiStep
  <2>1. PICK r \in requests : Adjustment(r) \/ StatusChange(r) \/ RefuseSession(r)
    BY <1>6 DEF ApiStep
  <2>2. CommandInv' /\ KindInv' /\ LedgerInv' /\ AnswerInv'
    BY <1>1, <1>6, <2>1, CommandKept, ApiKeepsKinds, ApiKeepsLedger, ApiKeepsAnswers
  <2>3. BusyInv' /\ (Inert => ListInv')
    BY <1>1, <1>2, <1>6, BusyKept, ApiKeepsList DEF Next
  <2> QED
    BY <1>3, <2>2, <2>3 DEF AdminInv, DialogInv
<1>7. CASE UNCHANGED vars
  <2>1. UNCHANGED <<dbVars, requests, signVars, listVars, noteVars, dialogVars>>
    BY <1>7 DEF vars
  <2>2. Elsewhere
    BY <2>1 DEF Elsewhere, dbVars, dialogVars
  <2>3. CommandInv' /\ KindInv' /\ LedgerInv' /\ AnswerInv'
    BY <1>1, <2>2, ElsewhereKeeps
  <2>4. BusyInv'
    BY <1>1, <2>1 DEF BusyInv, signVars, noteVars, dialogVars
  <2>5. ListInv => ListInv'
    BY <2>1 DEF ListInv, LoadInv, ShownInv, UpToDate, Audited,
         dbVars, signVars, listVars, noteVars, dialogVars
  <2> QED
    BY <1>2, <1>3, <2>3, <2>4, <2>5 DEF AdminInv, DialogInv
<1> QED
  BY <1>4, <1>5, <1>6, <1>7 DEF Next

(* The inductive invariant of the administrator's page and the API behind  *)
(* it holds for any lists, amounts, sessions, dialogs and faults.          *)
THEOREM AdminInvariance == Spec => []AdminInv
<1>1. Init => AdminInv
  BY InitInvariant
<1>2. AdminInv /\ [Next]_vars => AdminInv'
  BY StepInvariant
<1> QED
  BY <1>1, <1>2, PTL DEF Spec

(* A dialog, however often it is confirmed and whatever answers are lost,  *)
(* adjusts chips once, with one audit entry, and what was reported as      *)
(* saved is what was done (submitAction, POST players/:id/adjustment).     *)
THEOREM DialogTheorem == Spec => []DialogAdjustsOnce
<1>1. AdminInv => DialogAdjustsOnce
  <2> SUFFICES ASSUME AdminInv PROVE DialogAdjustsOnce
    OBVIOUS
  <2>1. CommandInv /\ LedgerInv /\ AnswerInv
    BY DEF AdminInv, DialogInv
  <2>2. ASSUME NEW i \in DOMAIN ledger
        PROVE  \E d \in 1..dialogs : ledger[i].command = <<d>> /\ Head(ledger[i].command) = d
    BY <2>1 DEF LedgerInv
  <2>3. ASSUME NEW d \in 1..dialogs PROVE Cardinality(AdjustmentsOf(d)) <= 1
    <3>1. ASSUME NEW i \in AdjustmentsOf(d), NEW j \in AdjustmentsOf(d) PROVE i = j
      BY <2>1, <2>2 DEF AdjustmentsOf, LedgerInv
    <3>2. CASE AdjustmentsOf(d) = {}
      BY <3>2, FS_EmptySet
    <3>3. ASSUME NEW i \in AdjustmentsOf(d) PROVE Cardinality(AdjustmentsOf(d)) <= 1
      <4>1. AdjustmentsOf(d) = {i}
        BY <3>1
      <4> QED
        BY <4>1, FS_Singleton
    <3> QED
      BY <3>2, <3>3
  <2>4. ASSUME NEW i \in DOMAIN ledger
        PROVE  Cardinality(AuditsOf(Head(ledger[i].command))) = 1
    <3>1. PICK d \in 1..dialogs : ledger[i].command = <<d>> /\ Head(ledger[i].command) = d
      BY <2>2
    <3>2. PICK j \in DOMAIN audit : <<d>> = <<audit[j].dialog>>
      BY <2>1, <3>1 DEF LedgerInv
    <3>3. audit[j].dialog = d /\ EntriesOf(<<audit[j].dialog>>) # {}
      BY <3>1, <3>2, CommandNames DEF EntriesOf
    <3>4. AuditsOf(d) = {j}
      BY <2>1, <3>3 DEF AuditsOf, LedgerInv
    <3> QED
      BY <3>1, <3>4, FS_Singleton
  <2>5. ASSUME NEW c \in saved, c.kind = "adjust"
        PROVE  \E i \in AdjustmentsOf(c.dialog) : ledger[i].amount = c.value
    <3>1. c.command = <<c.dialog>> /\ Adjusted(c)
      BY <2>1, <2>5 DEF CommandInv, OfItsDialog, AnswerInv, Done
    <3> QED
      BY <3>1 DEF Adjusted, EntriesOf, AdjustmentsOf
  <2> QED
    BY <2>3, <2>4, <2>5 DEF DialogAdjustsOnce
<1> QED
  BY <1>1, AdminInvariance, PTL

(* When an open dialog keeps the administrator from the page behind it,    *)
(* the list on an idle page is that of the page and search on the screen   *)
(* and includes every change that was saved (load, submitAction).          *)
THEOREM ListTheorem == ASSUME Inert PROVE Spec => []ListIsCurrent
<1>1. AdminInv => ListIsCurrent
  <2> SUFFICES ASSUME AdminInv, authorized = "yes", loads = {}, ~busy, ~error
               PROVE  /\ shown.query = query
                      /\ \A c \in saved : \E i \in 1..shown.seen :
                           /\ audit[i].dialog = c.dialog
                           /\ c.kind = "status" => audit[i].confirm = c.id
    BY DEF ListIsCurrent
  <2>1. confirm = NoConfirm
    BY DEF AdminInv, BusyInv
  <2>2. shown.query = query /\ UpToDate(shown.seen)
    BY <2>1 DEF AdminInv, ListInv, ShownInv
  <2>3. DOMAIN audit = 1..Len(audit) /\ Len(audit) \in Nat /\ shown.seen \in Nat
    BY DEF AdminInv, DialogInv, AdminTypeOK, DatabaseTypeOK, ListTypeOK, Audits, NoList
  <2> QED
    BY <2>2, <2>3 DEF UpToDate, Audited
<1> QED
  BY <1>1, AdminInvariance, PTL

=============================================================================
