----------------------------- MODULE ClientProofs -----------------------------
(***************************************************************************)
(* The clients in the browser, with any number of calls in flight whose    *)
(* answers come late, are lost, or refuse: the web shell (WebSession), and *)
(* the sessions of the Penalty page (DuelClient).                          *)
(***************************************************************************)
EXTENDS WebSession, DuelClient, SequenceTheorems, TLAPS

-----------------------------------------------------------------------------
(* The web shell: sessions and the page. *)

SessionRow == [user : Users, active : BOOLEAN, op : Nat]

(* Rows of sessions are added and lose their validity; nothing else of     *)
(* them changes.                                                           *)
RowsKept ==
  /\ sessions' \in Seq(SessionRow) /\ Len(sessions') >= Len(sessions)
  /\ \A t \in 1..Len(sessions) :
       sessions'[t].user = sessions[t].user /\ sessions'[t].op = sessions[t].op

(* The page may take a token of a row asked for during its latest          *)
(* operation, or let go of its token.                                      *)
TakesLatest == token' \notin {0, token} => sessions'[token'].op = epoch'

(* What a step does to the page. *)
PageKept ==
  /\ {stored', token'} \subseteq 0..Len(sessions')
  /\ player' \in {Nobody} \cup [user : Users, guest : BOOLEAN]
  /\ ShownPlayerHoldsToken'
  /\ TakesLatest

(* A session is issued. *)
LEMMA RowIssued ==
  ASSUME WebTypeOK, NEW u \in Users, NEW e \in Nat,
         sessions' = Append(sessions, Row(u, e))
  PROVE  /\ RowsKept /\ Newest = Len(sessions') /\ Newest \in 1..Len(sessions')
         /\ sessions'[Newest].op = e
<1>1. sessions \in Seq(SessionRow) /\ Row(u, e) \in SessionRow
  BY DEF WebTypeOK, SessionRow, Row
<1>2. /\ sessions' \in Seq(SessionRow) /\ Len(sessions') = Len(sessions) + 1
      /\ \A t \in 1..Len(sessions) : sessions'[t] = sessions[t]
      /\ sessions'[Len(sessions) + 1] = Row(u, e)
  BY <1>1, AppendProperties
<1>3. Len(sessions) \in Nat
  BY <1>1, LenProperties
<1> QED
  BY <1>2, <1>3 DEF RowsKept, Newest, Row

(* A session ends, or nothing happens. *)
LEMMA RowsRemain ==
  ASSUME WebTypeOK,
         sessions' = sessions \/ \E t \in DOMAIN sessions : sessions' = [sessions EXCEPT ![t].active = FALSE]
  PROVE  RowsKept /\ Len(sessions') = Len(sessions)
<1>1. sessions \in Seq(SessionRow) /\ Len(sessions) \in Nat /\ DOMAIN sessions = 1..Len(sessions)
  BY LenProperties DEF WebTypeOK, SessionRow
<1>2. CASE sessions' = sessions
  BY <1>1, <1>2 DEF RowsKept
<1>3. ASSUME NEW t \in DOMAIN sessions, sessions' = [sessions EXCEPT ![t].active = FALSE]
      PROVE  RowsKept /\ Len(sessions') = Len(sessions)
  <2>1. sessions[t] \in SessionRow
    BY <1>1, ElementOfSeq
  <2>2. [sessions[t] EXCEPT !.active = FALSE] \in SessionRow
    BY <2>1 DEF SessionRow
  <2>3. sessions' = [sessions EXCEPT ![t] = [sessions[t] EXCEPT !.active = FALSE]]
    BY <1>3
  <2>4. sessions' \in Seq(SessionRow) /\ Len(sessions') = Len(sessions)
    BY <1>1, <2>2, <2>3, ExceptSeq
  <2>5. /\ ([sessions[t] EXCEPT !.active = FALSE]).user = sessions[t].user
        /\ ([sessions[t] EXCEPT !.active = FALSE]).op = sessions[t].op
    BY <2>1 DEF SessionRow
  <2>6. \A k \in 1..Len(sessions) : sessions'[k].user = sessions[k].user /\ sessions'[k].op = sessions[k].op
    BY <1>1, <2>3, <2>5
  <2> QED
    BY <1>1, <2>4, <2>6 DEF RowsKept
<1> QED
  BY <1>2, <1>3

(* The page is left alone. *)
LEMMA PageRests ==
  ASSUME WebInv, RowsKept, UNCHANGED <<stored, token, player>>
  PROVE  PageKept
<1>1. /\ {stored, token} \subseteq 0..Len(sessions) /\ Len(sessions) \in Nat
      /\ Len(sessions') \in Nat /\ Len(sessions') >= Len(sessions)
      /\ player \in {Nobody} \cup [user : Users, guest : BOOLEAN]
  BY LenProperties DEF WebInv, WebTypeOK, RowsKept
<1>2. token # 0 => sessions'[token].user = sessions[token].user
  BY <1>1 DEF RowsKept
<1>3. ShownPlayerHoldsToken'
  BY <1>2 DEF WebInv, ShownPlayerHoldsToken
<1> QED
  BY <1>1, <1>3 DEF PageKept, TakesLatest

(* The page shows the player of its token. *)
LEMMA PageShows ==
  ASSUME WebInv, NEW t, NEW e, Wanted(t, e), Show(t),
         UNCHANGED <<stored, token, sessions>>
  PROVE  PageKept
<1>1. /\ {stored, token} \subseteq 0..Len(sessions) /\ Len(sessions) \in Nat
      /\ sessions \in Seq(SessionRow)
  BY LenProperties DEF WebInv, WebTypeOK, SessionRow
<1>2. t \in 1..Len(sessions) /\ token = t
  BY <1>1, LenProperties DEF Wanted, Accepted
<1>3. sessions[t] \in SessionRow
  BY <1>1, <1>2, ElementOfSeq
<1>4. sessions[t].user \in Users
  BY <1>3 DEF SessionRow
<1>5. PICK b \in BOOLEAN : player' = [user |-> sessions[t].user, guest |-> b]
  BY DEF Show
<1>6. player' \in [user : Users, guest : BOOLEAN] /\ player'.user = sessions[t].user
  BY <1>4, <1>5
<1>7. ShownPlayerHoldsToken'
  BY <1>2, <1>6 DEF ShownPlayerHoldsToken
<1> QED
  BY <1>1, <1>6, <1>7 DEF PageKept, TakesLatest

(* The page lets go of its session. *)
LEMMA PageEmpties ==
  ASSUME RowsKept, stored' = 0, token' = 0, player' = Nobody
  PROVE  PageKept
<1>1. Len(sessions') \in Nat
  BY LenProperties DEF RowsKept
<1> QED
  BY <1>1 DEF PageKept, TakesLatest, ShownPlayerHoldsToken

(* The page takes a token, unless its operation was overtaken. *)
LEMMA PageApplies ==
  ASSUME WebInv, RowsKept, NEW t \in 1..Len(sessions'), NEW e, ApplySession(t, e),
         epoch' = epoch, e = epoch => t = token \/ sessions'[t].op = e
  PROVE  PageKept /\ (stored' = token' \/ UNCHANGED <<stored, token>>)
<1>1. CASE e # epoch
  <2>1. UNCHANGED <<stored, token, player>>
    BY <1>1 DEF ApplySession, pageVars
  <2> QED
    BY <2>1, PageRests
<1>2. CASE e = epoch
  <2>1. /\ stored' = t /\ token' = t /\ player' = IF token = t THEN player ELSE Nobody
    BY <1>2 DEF ApplySession
  <2>2. /\ {stored, token} \subseteq 0..Len(sessions) /\ Len(sessions) \in Nat /\ Len(sessions') \in Nat
        /\ player \in {Nobody} \cup [user : Users, guest : BOOLEAN]
    BY LenProperties DEF WebInv, WebTypeOK, RowsKept
  <2>3. ShownPlayerHoldsToken'
    <3>1. CASE player' = Nobody
      BY <3>1 DEF ShownPlayerHoldsToken
    <3>2. CASE player' # Nobody
      <4>1. player' = player /\ token = t
        BY <2>1, <3>2
      <4>2. sessions'[t].user = sessions[t].user
        BY <2>2, <4>1 DEF RowsKept
      <4> QED
        BY <2>1, <2>2, <4>1, <4>2 DEF WebInv, ShownPlayerHoldsToken
    <3> QED
      BY <3>1, <3>2
  <2> QED
    BY <1>2, <2>1, <2>2, <2>3 DEF PageKept, TakesLatest
<1> QED
  BY <1>1, <1>2

(* The rest of the state is of its types. *)
RestTyped ==
  /\ account \in [Users -> {"none", "guest", "member"}]
  /\ epoch \in Nat /\ boots \in Nat /\ authBusy \in BOOLEAN
  /\ op \in {NoOp} \cup [kind : {"claim", "enter", "guest"}, step : {"post", "me"},
                        epoch : Nat, token : Nat]
  /\ boot \in {NoBoot} \cup [step : {"me", "catalog", "guest", "guestMe", "last"},
                            epoch : Nat, token : Nat]
  /\ refreshes \subseteq [token : Nat, epoch : Nat]
  /\ logouts \subseteq Nat

(* What has to be shown of a step of the web shell. *)
LEMMA WebStep ==
  ASSUME RowsKept, PageKept, RestTyped', StoredInv'
  PROVE  WebInv'
<1>1. WebTypeOK'
  BY DEF RowsKept, PageKept, RestTyped, WebTypeOK, SessionRow
<1> QED
  BY <1>1 DEF WebInv, PageKept

(* The same before the first bootstrap, and from then on. *)
LEMMA StoredBefore ==
  ASSUME WebInv, RowsKept, UNCHANGED <<stored, token, epoch, op, boot, boots>>
  PROVE  StoredInv'
<1>1. {stored, token} \subseteq 0..Len(sessions) /\ Len(sessions) \in Nat
  BY LenProperties DEF WebInv, WebTypeOK
<1>2. stored # 0 => sessions'[stored].op = sessions[stored].op
  BY <1>1 DEF RowsKept
<1> QED
  BY <1>2 DEF WebInv, StoredInv, NoOp, NoBoot

LEMMA StoredAfter ==
  ASSUME WebInv, boots # 0, boots' = boots, stored' = token' \/ UNCHANGED <<stored, token>>
  PROVE  StoredInv'
BY DEF WebInv, StoredInv

(* An operation or a bootstrap under way began after the first bootstrap. *)
LEMMA BootBegan ==
  ASSUME WebInv, boot.step # "idle" \/ op.step # "idle" \/ player # Nobody
  PROVE  boots # 0
BY DEF WebInv, StoredInv, NoOp, NoBoot, ShownPlayerHoldsToken

(* The API issues sessions to guests and to members. *)
LEMMA GuestIssued ==
  ASSUME WebInv, NEW g \in Guests, NEW e \in Nat, IssueGuest(g, e)
  PROVE  /\ RowsKept /\ Newest = Len(sessions') /\ Newest \in 1..Len(sessions')
         /\ sessions'[Newest].op = e
         /\ account' \in [Users -> {"none", "guest", "member"}]
<1>1. g \in Users
  BY DEF Users
<1> QED
  BY <1>1, RowIssued DEF IssueGuest, WebInv, WebTypeOK

LEMMA MemberIssued ==
  ASSUME WebInv, NEW u \in Users, NEW e \in Nat, IssueMember(u, e)
  PROVE  /\ RowsKept /\ Newest = Len(sessions') /\ Newest \in 1..Len(sessions')
         /\ sessions'[Newest].op = e
         /\ account' \in [Users -> {"none", "guest", "member"}]
BY RowIssued DEF IssueMember, WebInv, WebTypeOK

(* A request of the player is answered with a session. *)
LEMMA OperationIssued ==
  ASSUME WebInv, op.step = "post", Issued
  PROVE  /\ RowsKept /\ Newest = Len(sessions') /\ Newest \in 1..Len(sessions')
         /\ sessions'[Newest].op = op.epoch
         /\ account' \in [Users -> {"none", "guest", "member"}]
<1>1. op.epoch \in Nat /\ op.kind \in {"claim", "enter", "guest"}
  BY DEF WebInv, WebTypeOK, NoOp
<1>2. CASE op.kind = "claim"
  <2>1. Accepted(op.token) /\ IssueMember(sessions[op.token].user, op.epoch)
    BY <1>2 DEF Issued, Claim
  <2>2. sessions \in Seq(SessionRow)
    BY DEF WebInv, WebTypeOK, SessionRow
  <2>3. sessions[op.token] \in SessionRow
    BY <2>1, <2>2, LenProperties, ElementOfSeq DEF Accepted
  <2>4. sessions[op.token].user \in Users
    BY <2>3 DEF SessionRow
  <2> QED
    BY <1>1, <2>1, <2>4, MemberIssued
<1>3. CASE op.kind = "enter"
  <2>1. PICK u \in Members : IssueMember(u, op.epoch)
    BY <1>3 DEF Issued
  <2>2. u \in Users
    BY DEF Users
  <2> QED
    BY <1>1, <2>1, <2>2, MemberIssued
<1>4. CASE op.kind = "guest"
  <2>1. PICK g \in Guests : IssueGuest(g, op.epoch)
    BY <1>4 DEF Issued
  <2> QED
    BY <1>1, <2>1, GuestIssued
<1> QED
  BY <1>1, <1>2, <1>3, <1>4

-----------------------------------------------------------------------------
(* The web shell: its actions. *)

(* bootstrap, whichever operation overtakes it. *)
LEMMA WebBootstrap ==
  ASSUME WebInv, Bootstrap
  PROVE  WebInv' /\ TakesLatest
<1>1. /\ UNCHANGED <<account, sessions, epoch, authBusy, op, refreshes, logouts>>
      /\ boots \in Nat /\ boots' = boots + 1 /\ epoch \in Nat
      /\ sessions \in Seq(SessionRow) /\ Len(sessions) \in Nat
      /\ {stored, token} \subseteq 0..Len(sessions)
  BY LenProperties DEF Bootstrap, serverVars, opVars, sideVars, WebInv, WebTypeOK,
                       SessionRow
<1>2. RowsKept
  BY <1>1 DEF RowsKept
<1>3. CASE stored # 0
  <2>1. ApplySession(stored, epoch) /\ boot' = [step |-> "me", epoch |-> epoch, token |-> stored]
    BY <1>3 DEF Bootstrap
  <2>2. stored = token \/ sessions'[stored].op = epoch
    BY <1>1, <1>3 DEF WebInv, StoredInv
  <2>3. PageKept
    BY <1>1, <1>2, <1>3, <2>1, <2>2, PageApplies
  <2>4. stored' = token'
    BY <1>1, <2>1 DEF ApplySession
  <2>5. RestTyped'
    BY <1>1, <2>1 DEF RestTyped, WebInv, WebTypeOK
  <2>6. StoredInv'
    BY <1>1, <2>4 DEF StoredInv
  <2> QED
    BY <1>2, <2>3, <2>5, <2>6, WebStep DEF PageKept
<1>4. CASE stored = 0
  <2>1. UNCHANGED <<stored, token, player>> /\ boot' = [step |-> "catalog", epoch |-> epoch, token |-> 0]
    BY <1>4 DEF Bootstrap, pageVars
  <2>2. PageKept
    BY <1>2, <2>1, PageRests
  <2>3. stored' = token'
    BY <1>4, <2>1 DEF WebInv, StoredInv
  <2>4. RestTyped'
    BY <1>1, <2>1 DEF RestTyped, WebInv, WebTypeOK
  <2>5. StoredInv'
    BY <1>1, <2>3 DEF StoredInv
  <2> QED
    BY <1>2, <2>2, <2>4, <2>5, WebStep DEF PageKept
<1> QED
  BY <1>3, <1>4

(* A step of boot, typed. *)
LEMMA BootTyped ==
  ASSUME WebInv, boot.step # "idle",
         NEW s \in {"me", "catalog", "guest", "guestMe", "last"}, NEW t \in Nat,
         To(s) \/ BootTo(s, t) \/ boot' = NoBoot
  PROVE  boot' \in {NoBoot} \cup [step : {"me", "catalog", "guest", "guestMe", "last"},
                                      epoch : Nat, token : Nat]
<1>1. boot \in [step : {"me", "catalog", "guest", "guestMe", "last"}, epoch : Nat, token : Nat]
  BY DEF WebInv, WebTypeOK, NoBoot
<1> QED
  BY <1>1 DEF To, BootTo

LEMMA WebBootStep ==
  ASSUME WebInv, BootStep
  PROVE  WebInv' /\ TakesLatest
<1>1. boot.step # "idle" /\ boots # 0 /\ boot.epoch \in Nat
  BY BootBegan DEF BootStep, BootMe, BootCatalog, BootGuest, BootGuestMe,
                   BootEnd, WebInv, WebTypeOK, NoBoot
<1>2. UNCHANGED <<epoch, authBusy, op, boots, refreshes, logouts>>
  BY DEF BootStep, BootMe, BootCatalog, BootGuest, BootGuestMe, BootEnd,
         opVars, sideVars
<1>3. sessions \in Seq(SessionRow) /\ Len(sessions) \in Nat /\ 0 \in Nat
  BY LenProperties DEF WebInv, WebTypeOK, SessionRow
(* The server is left alone, and the page shows a player, rests or empties. *)
<1>4. ASSUME UNCHANGED <<account, sessions>>,
             \/ UNCHANGED <<stored, token, player>>
             \/ UNCHANGED <<stored, token>> /\ Wanted(boot.token, boot.epoch) /\ Show(boot.token)
             \/ stored' = 0 /\ token' = 0 /\ player' = Nobody,
             To("last") \/ To("catalog") \/ To("guest") \/ boot' = NoBoot
      PROVE  WebInv' /\ TakesLatest
  <2>1. RowsKept
    BY <1>3, <1>4 DEF RowsKept
  <2>2. PageKept
    BY <1>4, <2>1, PageRests, PageShows, PageEmpties
  <2>3. boot' \in {NoBoot} \cup [step : {"me", "catalog", "guest", "guestMe", "last"},
                                     epoch : Nat, token : Nat]
    BY <1>1, <1>3, <1>4, BootTyped
  <2>4. RestTyped'
    BY <1>2, <1>4, <2>3 DEF RestTyped, WebInv, WebTypeOK
  <2>5. StoredInv'
    BY <1>1, <1>2, <1>4, StoredAfter
  <2> QED
    BY <2>1, <2>2, <2>4, <2>5, WebStep DEF PageKept
<1>5. CASE BootMe
  <2>1. UNCHANGED <<account, sessions>> /\ (To("last") \/ To("catalog"))
    BY <1>5 DEF BootMe, serverVars
  <2>2. \/ UNCHANGED <<stored, token, player>>
        \/ UNCHANGED <<stored, token>> /\ Wanted(boot.token, boot.epoch) /\ Show(boot.token)
        \/ stored' = 0 /\ token' = 0 /\ player' = Nobody
    BY <1>5 DEF BootMe, pageVars
  <2> QED
    BY <1>4, <2>1, <2>2
<1>6. CASE BootCatalog
  <2>1. /\ UNCHANGED <<account, sessions, stored, token, player>>
        /\ To("last") \/ To("guest")
    BY <1>6 DEF BootCatalog, serverVars, pageVars
  <2> QED
    BY <1>4, <2>1
<1>7. CASE BootEnd
  <2>1. UNCHANGED <<account, sessions, stored, token, player>> /\ boot' = NoBoot
    BY <1>7 DEF BootEnd, serverVars, pageVars
  <2> QED
    BY <1>4, <2>1
<1>8. CASE BootGuestMe
  <2>1. /\ UNCHANGED <<account, sessions, stored, token>> /\ To("last")
        /\ \/ Wanted(boot.token, boot.epoch) /\ Show(boot.token)
           \/ UNCHANGED player
    BY <1>8 DEF BootGuestMe, serverVars
  <2> QED
    BY <1>4, <2>1
<1>9. CASE BootGuest
  <2>1. CASE UNCHANGED <<account, sessions, stored, token, player>> /\ To("last")
    BY <1>4, <2>1
  <2>2. CASE \E g \in Guests : IssueGuest(g, boot.epoch)
    <3>1. PICK g \in Guests : IssueGuest(g, boot.epoch)
      BY <2>2
    <3>2. /\ RowsKept /\ Newest = Len(sessions') /\ Newest \in 1..Len(sessions')
          /\ sessions'[Newest].op = boot.epoch
          /\ account' \in [Users -> {"none", "guest", "member"}]
      BY <1>1, <3>1, GuestIssued
    <3>3. \/ ApplySession(Newest, boot.epoch) /\ BootTo("guestMe", Newest)
          \/ To("last") /\ UNCHANGED <<stored, token, player>>
          \/ To("last") /\ UNCHANGED <<account, sessions, stored, token, player>>
      BY <1>9 DEF BootGuest, serverVars, pageVars
    <3>4. PageKept /\ (stored' = token' \/ UNCHANGED <<stored, token>>)
      BY <1>2, <3>2, <3>3, PageRests, PageApplies
    <3>5. boot' \in {NoBoot} \cup [step : {"me", "catalog", "guest", "guestMe", "last"},
                                       epoch : Nat, token : Nat]
      <4>1. Newest \in Nat
        BY <1>3 DEF Newest
      <4> QED
        BY <1>1, <3>3, <4>1, BootTyped
    <3>6. RestTyped'
      BY <1>2, <3>2, <3>5 DEF RestTyped, WebInv, WebTypeOK
    <3>7. StoredInv'
      BY <1>1, <1>2, <3>4, StoredAfter
    <3> QED
      BY <3>2, <3>4, <3>6, <3>7, WebStep DEF PageKept
  <2> QED
    BY <1>9, <2>1, <2>2 DEF BootGuest, serverVars, pageVars
<1> QED
  BY <1>5, <1>6, <1>7, <1>8, <1>9 DEF BootStep

(* The player begins a login, a claim or a guest request. *)
LEMMA WebBegin ==
  ASSUME WebInv, NEW kind \in {"claim", "enter", "guest"}, Begin(kind)
  PROVE  WebInv' /\ TakesLatest
<1>1. /\ UNCHANGED <<account, sessions, stored, token, player, boot, boots, refreshes, logouts>>
      /\ epoch \in Nat /\ epoch' = epoch + 1 /\ authBusy' = TRUE /\ boots \in Nat /\ boots > 0
      /\ op' = [kind |-> kind, step |-> "post", epoch |-> epoch', token |-> token]
      /\ sessions \in Seq(SessionRow) /\ Len(sessions) \in Nat /\ token \in 0..Len(sessions)
  BY LenProperties DEF Begin, serverVars, pageVars, bootVars, sideVars, WebInv,
                       WebTypeOK, SessionRow
<1>2. RowsKept
  BY <1>1 DEF RowsKept
<1>3. PageKept
  BY <1>1, <1>2, PageRests
<1>4. RestTyped'
  BY <1>1 DEF RestTyped, WebInv, WebTypeOK
<1>5. StoredInv'
  BY <1>1, StoredAfter
<1> QED
  BY <1>2, <1>3, <1>4, <1>5, WebStep DEF PageKept

(* Its request is answered. *)
LEMMA WebOpReply ==
  ASSUME WebInv, OpReply
  PROVE  WebInv' /\ TakesLatest
<1>1. /\ op \in [kind : {"claim", "enter", "guest"}, step : {"post", "me"}, epoch : Nat, token : Nat]
      /\ op.step = "post" /\ boots # 0 /\ epoch \in Nat
      /\ UNCHANGED <<epoch, boot, boots, refreshes, logouts>>
      /\ sessions \in Seq(SessionRow) /\ Len(sessions) \in Nat
  BY BootBegan, LenProperties DEF OpReply, bootVars, sideVars, WebInv, WebTypeOK, NoOp,
                                  SessionRow
<1>2. ASSUME EndOp
      PROVE  op' = NoOp /\ authBusy' \in BOOLEAN
  BY <1>2 DEF EndOp, WebInv, WebTypeOK
<1>3. CASE EndOp /\ UNCHANGED <<account, sessions, stored, token, player>>
  <2>1. RowsKept
    BY <1>1, <1>3 DEF RowsKept
  <2>2. PageKept
    BY <1>3, <2>1, PageRests
  <2>3. RestTyped'
    BY <1>1, <1>2, <1>3 DEF RestTyped, WebInv, WebTypeOK
  <2>4. StoredInv'
    BY <1>1, <1>3, StoredAfter
  <2> QED
    BY <2>1, <2>2, <2>3, <2>4, WebStep DEF PageKept
<1>4. CASE Issued
  <2>1. /\ RowsKept /\ Newest = Len(sessions') /\ Newest \in 1..Len(sessions')
        /\ sessions'[Newest].op = op.epoch
        /\ account' \in [Users -> {"none", "guest", "member"}]
    BY <1>1, <1>4, OperationIssued
  <2>2. \/ /\ ApplySession(Newest, op.epoch)
           /\ op' = [op EXCEPT !.step = "me", !.token = Newest]
           /\ UNCHANGED authBusy
        \/ EndOp /\ UNCHANGED <<stored, token, player>>
    BY <1>3, <1>4 DEF OpReply, serverVars, pageVars
  <2>3. PageKept /\ (stored' = token' \/ UNCHANGED <<stored, token>>)
    BY <1>1, <2>1, <2>2, PageRests, PageApplies
  <2>4. /\ op' \in {NoOp} \cup [kind : {"claim", "enter", "guest"}, step : {"post", "me"},
                                     epoch : Nat, token : Nat]
        /\ authBusy' \in BOOLEAN
    <3>1. Newest \in Nat
      BY <1>1 DEF Newest
    <3>2. authBusy \in BOOLEAN
      BY DEF WebInv, WebTypeOK
    <3> QED
      BY <1>1, <1>2, <2>2, <3>1, <3>2
  <2>5. RestTyped'
    BY <1>1, <2>1, <2>4 DEF RestTyped, WebInv, WebTypeOK
  <2>6. StoredInv'
    BY <1>1, <2>3, StoredAfter
  <2> QED
    BY <2>1, <2>3, <2>5, <2>6, WebStep DEF PageKept
<1> QED
  BY <1>3, <1>4 DEF OpReply, serverVars, pageVars

LEMMA WebOpMe ==
  ASSUME WebInv, OpMe
  PROVE  WebInv' /\ TakesLatest
<1>1. /\ op' = NoOp /\ authBusy' \in BOOLEAN /\ boots # 0
      /\ UNCHANGED <<account, sessions, stored, token, epoch, boot, boots, refreshes, logouts>>
      /\ sessions \in Seq(SessionRow) /\ Len(sessions) \in Nat
  BY BootBegan, LenProperties DEF OpMe, EndOp, serverVars, bootVars, sideVars,
                                  WebInv, WebTypeOK, SessionRow
<1>2. \/ Wanted(op.token, op.epoch) /\ Show(op.token)
      \/ UNCHANGED player
  BY DEF OpMe
<1>3. RowsKept
  BY <1>1 DEF RowsKept
<1>4. PageKept
  BY <1>1, <1>2, <1>3, PageRests, PageShows
<1>5. RestTyped'
  BY <1>1 DEF RestTyped, WebInv, WebTypeOK
<1>6. StoredInv'
  BY <1>1, StoredAfter
<1> QED
  BY <1>3, <1>4, <1>5, <1>6, WebStep DEF PageKept

(* The player logs out. *)
LEMMA WebLogout ==
  ASSUME WebInv, Logout
  PROVE  WebInv' /\ TakesLatest
<1>1. /\ UNCHANGED <<account, sessions, authBusy, op, boot, boots>> /\ boots # 0
      /\ stored' = 0 /\ token' = 0 /\ player' = Nobody
      /\ epoch \in Nat /\ epoch' = epoch + 1 /\ token \in Nat
      /\ refreshes' = refreshes \cup {[token |-> token, epoch |-> epoch']}
      /\ logouts' = logouts \cup {token}
      /\ sessions \in Seq(SessionRow) /\ Len(sessions) \in Nat
  BY BootBegan, LenProperties DEF Logout, serverVars, opVars, bootVars, WebInv,
                                  WebTypeOK, SessionRow
<1>2. RowsKept
  BY <1>1 DEF RowsKept
<1>3. PageKept
  BY <1>1, <1>2, PageEmpties
<1>4. RestTyped'
  BY <1>1 DEF RestTyped, WebInv, WebTypeOK
<1>5. StoredInv'
  BY <1>1, StoredAfter
<1> QED
  BY <1>2, <1>3, <1>4, <1>5, WebStep DEF PageKept

(* The refreshes of the timers, and what ends a session behind the page's  *)
(* back.                                                                   *)
LEMMA WebAside ==
  ASSUME WebInv,
         \/ Refresh \/ \E r \in refreshes : RefreshReply(r)
         \/ \E t \in DOMAIN sessions : Reject(t)
         \/ \E t \in logouts : LogoutReply(t)
  PROVE  WebInv' /\ TakesLatest
<1>1. /\ UNCHANGED <<account, stored, token, epoch, authBusy, op, boot, boots>>
      /\ epoch \in Nat /\ token \in Nat
      /\ sessions \in Seq(SessionRow) /\ Len(sessions) \in Nat
  BY LenProperties DEF Refresh, RefreshReply, Reject, LogoutReply, serverVars,
                       pageVars, opVars, bootVars, sideVars, WebInv, WebTypeOK, SessionRow
<1>2. refreshes' \subseteq [token : Nat, epoch : Nat] /\ logouts' \subseteq Nat
  BY <1>1 DEF Refresh, RefreshReply, Reject, LogoutReply, sideVars, WebInv, WebTypeOK
<1>3. RowsKept /\ PageKept
  <2>1. CASE \E r \in refreshes : RefreshReply(r)
    <3>1. PICK r \in refreshes : RefreshReply(r)
      BY <2>1
    <3>2. /\ UNCHANGED sessions
          /\ \/ Wanted(r.token, r.epoch) /\ Show(r.token)
             \/ UNCHANGED player
      BY <3>1 DEF RefreshReply, serverVars
    <3>3. RowsKept
      BY <1>1, <3>2 DEF RowsKept
    <3> QED
      BY <1>1, <3>2, <3>3, PageRests, PageShows
  <2>2. CASE Refresh \/ (\E t \in DOMAIN sessions : Reject(t)) \/ \E t \in logouts : LogoutReply(t)
    <3>1. UNCHANGED player
      BY <2>2 DEF Refresh, Reject, LogoutReply, pageVars
    <3>2. sessions' = sessions \/ \E t \in DOMAIN sessions : sessions' = [sessions EXCEPT ![t].active = FALSE]
      <4>1. ASSUME NEW t, t \notin DOMAIN sessions, sessions' = [sessions EXCEPT ![t].active = FALSE]
            PROVE  sessions' = sessions
        BY <1>1, <4>1
      <4> QED
        BY <2>2, <4>1 DEF Refresh, Reject, LogoutReply, serverVars
    <3>3. RowsKept
      BY <3>2, RowsRemain DEF WebInv
    <3> QED
      BY <1>1, <3>1, <3>3, PageRests
  <2> QED
    BY <2>1, <2>2
<1>4. RestTyped'
  BY <1>1, <1>2 DEF RestTyped, WebInv, WebTypeOK
<1>5. StoredInv'
  BY <1>1, <1>3, StoredBefore
<1> QED
  BY <1>3, <1>4, <1>5, WebStep DEF PageKept

(* Every step keeps the invariant and takes a token only for the latest    *)
(* operation.                                                              *)
LEMMA WebNextInv ==
  ASSUME WebInv, [WebNext]_webVars
  PROVE  WebInv' /\ TakesLatest
<1>1. CASE UNCHANGED webVars
  <2>1. UNCHANGED <<account, sessions, stored, token, player, epoch, authBusy, op, boot, boots, refreshes, logouts>>
    BY <1>1 DEF webVars, serverVars, pageVars, opVars, bootVars, sideVars
  <2>2. WebInv'
    BY <2>1 DEF WebInv, WebTypeOK, StoredInv, ShownPlayerHoldsToken
  <2>3. sessions \in Seq(SessionRow) /\ Len(sessions) \in Nat
    BY LenProperties DEF WebInv, WebTypeOK, SessionRow
  <2>4. RowsKept
    BY <2>1, <2>3 DEF RowsKept
  <2>5. PageKept
    BY <2>1, <2>4, PageRests
  <2> QED
    BY <2>2, <2>5 DEF PageKept
<1>2. CASE SubmitAuth \/ CreateGuest
  BY <1>2, WebBegin DEF SubmitAuth, CreateGuest
<1> QED
  BY <1>1, <1>2, WebBootstrap, WebBootStep, WebOpReply, WebOpMe, WebLogout, WebAside
     DEF WebNext, OpStep

LEMMA WebBegins ==
  ASSUME SessionAssumption, WebInit
  PROVE  WebInv
<1>1. sessions = <<>> \/ \E u \in Users : sessions = <<Row(u, 0)>>
  BY DEF SessionAssumption, WebInit
<1>2. /\ sessions \in Seq(SessionRow) /\ Len(sessions) \in Nat
      /\ Len(sessions) # 0 => sessions[Len(sessions)].op = 0
  <2>1. CASE sessions = <<>>
    BY <2>1, EmptySeq
  <2>2. CASE \E u \in Users : sessions = <<Row(u, 0)>>
    <3>1. PICK u \in Users : sessions = <<Row(u, 0)>>
      BY <2>2
    <3>2. Row(u, 0) \in SessionRow /\ Row(u, 0).op = 0
      BY DEF Row, SessionRow
    <3> QED
      BY <3>1, <3>2
  <2> QED
    BY <1>1, <2>1, <2>2
<1>3. account \in [Users -> {"none", "guest", "member"}]
  BY DEF WebInit
<1>4. /\ stored = Len(sessions) /\ token = 0 /\ player = Nobody /\ epoch = 0 /\ boots = 0
      /\ authBusy \in BOOLEAN /\ op = NoOp /\ boot = NoBoot
      /\ refreshes = {} /\ logouts = {}
  BY DEF WebInit
<1>5. WebTypeOK
  BY <1>2, <1>3, <1>4 DEF WebTypeOK, SessionRow
<1>6. StoredInv /\ ShownPlayerHoldsToken
  BY <1>2, <1>4 DEF StoredInv, ShownPlayerHoldsToken
<1> QED
  BY <1>5, <1>6 DEF WebInv

(* The web shell: with any number of members, guests, operations and       *)
(* requests in flight the inductive invariant holds.                       *)
THEOREM WebInvariance ==
  ASSUME SessionAssumption
  PROVE  WebSpec => []WebInv
<1>1. WebInit => WebInv
  BY WebBegins
<1>2. WebInv /\ [WebNext]_webVars => WebInv'
  BY WebNextInv
<1> QED
  BY <1>1, <1>2, PTL DEF WebSpec

(* The page never shows one player while it acts with the session of       *)
(* another, whichever answers of refreshPlayer, of a login or of bootstrap *)
(* are still to come.                                                      *)
THEOREM ShownPlayerTheorem ==
  ASSUME SessionAssumption
  PROVE  WebSpec => []ShownPlayerHoldsToken
<1>1. WebInv => ShownPlayerHoldsToken
  BY DEF WebInv
<1> QED
  BY <1>1, WebInvariance, PTL

(* applySession takes a session only for the operation sessionEpoch stands *)
(* at: one that arrives late never replaces that of a later login, guest   *)
(* or logout.                                                              *)
THEOREM LatestOperationTheorem ==
  ASSUME SessionAssumption
  PROVE  WebSpec => LatestOperationWins
<1>1. WebInv /\ [WebNext]_webVars
      => [token' \notin {0, token} => sessions'[token'].op = epoch']_webVars
  BY WebNextInv DEF TakesLatest
<1> QED
  BY <1>1, WebInvariance, PTL DEF WebSpec, LatestOperationWins

-----------------------------------------------------------------------------
(* The sessions of the Penalty page: what the operators of DuelClient do.  *)

(* A sequence with one element replaced, or one element more.              *)
LEMMA PutEffect ==
  ASSUME NEW S, NEW q \in Seq(S), NEW n \in 1..Len(q), NEW r \in S
  PROVE  /\ [q EXCEPT ![n] = r] \in Seq(S) /\ Len([q EXCEPT ![n] = r]) = Len(q)
         /\ [q EXCEPT ![n] = r][n] = r
         /\ \A k \in 1..Len(q) : k # n => [q EXCEPT ![n] = r][k] = q[k]
BY ExceptSeq, LenProperties

LEMMA AppendEffect ==
  ASSUME NEW S, NEW q \in Seq(S), NEW r \in S
  PROVE  /\ Append(q, r) \in Seq(S) /\ Len(Append(q, r)) = Len(q) + 1
         /\ Append(q, r)[Len(q) + 1] = r
         /\ \A k \in 1..Len(q) : Append(q, r)[k] = q[k]
         /\ Len(q) \in Nat
BY AppendProperties, LenProperties

LEMMA ShutEffect ==
  ASSUME conns \in Seq(Conn), NEW cs
  PROVE  /\ Shut(cs) \in Seq(Conn) /\ Len(Shut(cs)) = Len(conns)
         /\ \A c \in 1..Len(conns) :
              /\ Shut(cs)[c].of = conns[c].of /\ Shut(cs)[c].duel = conns[c].duel
              /\ Shut(cs)[c].open <=> conns[c].open /\ c \notin cs
<1>1. Len(conns) \in Nat /\ DOMAIN conns = 1..Len(conns) /\ \A c \in 1..Len(conns) : conns[c] \in Conn
  BY LenProperties, ElementOfSeq
<1>2. \A c \in 1..Len(conns) : [conns[c] EXCEPT !.open = @ /\ c \notin cs] \in Conn
  BY <1>1 DEF Conn
<1>3. Shut(cs) = [c \in 1..Len(conns) |-> [conns[c] EXCEPT !.open = @ /\ c \notin cs]]
  BY <1>1 DEF Shut
<1>4. Shut(cs) \in Seq(Conn) /\ Len(Shut(cs)) = Len(conns)
  BY <1>1, <1>2, <1>3, SeqDef, LenProperties
<1>5. ASSUME NEW c \in 1..Len(conns)
      PROVE  /\ Shut(cs)[c].of = conns[c].of /\ Shut(cs)[c].duel = conns[c].duel
             /\ Shut(cs)[c].open <=> conns[c].open /\ c \notin cs
  BY <1>1, <1>3 DEF Conn
<1> QED
  BY <1>4, <1>5

LEMMA VacateEffect ==
  ASSUME duels \in Seq(Duel), NEW cs, NEW to \in {"grace", "gone"}
  PROVE  /\ Vacate(cs, to) \in Seq(Duel) /\ Len(Vacate(cs, to)) = Len(duels)
         /\ \A m \in 1..Len(duels) :
              /\ Vacate(cs, to)[m].conn = duels[m].conn /\ Vacate(cs, to)[m].stage = duels[m].stage
              /\ IF duels[m].seat = "held" /\ duels[m].conn \in cs
                 THEN Vacate(cs, to)[m].seat \in {"grace", "gone"}
                 ELSE Vacate(cs, to)[m].seat = duels[m].seat
<1>1. Len(duels) \in Nat /\ DOMAIN duels = 1..Len(duels) /\ \A m \in 1..Len(duels) : duels[m] \in Duel
  BY LenProperties, ElementOfSeq
<1> DEFINE New(m) == IF duels[m].seat = "held" /\ duels[m].conn \in cs
                     THEN [duels[m] EXCEPT !.seat = IF duels[m].stage = "playing" THEN to ELSE "gone"]
                     ELSE duels[m]
<1>2. ASSUME NEW m \in 1..Len(duels)
      PROVE  /\ New(m) \in Duel /\ New(m).conn = duels[m].conn /\ New(m).stage = duels[m].stage
             /\ IF duels[m].seat = "held" /\ duels[m].conn \in cs
                THEN New(m).seat \in {"grace", "gone"} ELSE New(m).seat = duels[m].seat
  BY <1>1 DEF Duel
<1>3. Vacate(cs, to) = [m \in 1..Len(duels) |-> New(m)]
  BY <1>1 DEF Vacate, Duels
<1> HIDE DEF New
<1>4. Vacate(cs, to) \in Seq(Duel) /\ Len(Vacate(cs, to)) = Len(duels)
  BY <1>1, <1>2, <1>3, SeqDef, LenProperties
<1> QED
  BY <1>2, <1>3, <1>4

LEMMA DestroyedEffect ==
  ASSUME client \in Seq(Client), NEW n \in 0..Len(client)
  PROVE  /\ Destroyed(n) \in Seq(Client) /\ Len(Destroyed(n)) = Len(client)
         /\ \A k \in 1..Len(client) : k # n => Destroyed(n)[k] = client[k]
         /\ n # 0 => /\ ~Destroyed(n)[n].live /\ Destroyed(n)[n].lobby = 0 /\ Destroyed(n)[n].match = 0
                     /\ Destroyed(n)[n].token = 0 /\ Destroyed(n)[n].over = client[n].over
                     /\ Destroyed(n)[n].call = client[n].call /\ Destroyed(n)[n].duel = client[n].duel
<1>1. Len(client) \in Nat /\ DOMAIN client = 1..Len(client) /\ \A k \in 1..Len(client) : client[k] \in Client
  BY LenProperties, ElementOfSeq
<1>2. CASE n = 0
  BY <1>1, <1>2 DEF Destroyed
<1>3. CASE n # 0
  <2> DEFINE r == [live |-> FALSE, lobby |-> 0, match |-> 0, token |-> 0, over |-> client[n].over,
                   call |-> client[n].call, duel |-> client[n].duel]
  <2>1. Destroyed(n) = [client EXCEPT ![n] = r]
    <3>1. Destroyed(n) = [[[[client EXCEPT ![n].live = FALSE] EXCEPT ![n].lobby = 0] EXCEPT ![n].match = 0] EXCEPT ![n].token = 0]
      BY <1>3 DEF Destroyed
    <3> QED
      BY <1>1, <1>3, <3>1 DEF Client
  <2>2. r \in Client
    BY <1>1, <1>3 DEF Client
  <2> QED
    BY <1>1, <1>3, <2>1, <2>2, PutEffect
<1> QED
  BY <1>2, <1>3

-----------------------------------------------------------------------------
(* What a step does to connections and seats, and what follows for the     *)
(* sessions.                                                               *)

(* Connections are added and end; they never change hands or come back.    *)
ConnsKept ==
  /\ conns' \in Seq(Conn) /\ Len(conns') >= Len(conns)
  /\ \A c \in 1..Len(conns) :
       /\ conns'[c].of = conns[c].of /\ conns'[c].duel = conns[c].duel
       /\ conns'[c].open => conns[c].open

(* A published duel stays published as long as it has a connection.        *)
StagesKept ==
  \A m \in 1..Len(duels) :
    duels[m].stage = "published"
    => \/ duels'[m].stage = "published"
       \/ \A c \in 1..Len(conns) : conns[c].duel = m => ~conns'[c].open

(* The connections that stay open keep their seats.                        *)
RoomsFollow ==
  /\ ConnsKept /\ StagesKept
  /\ duels' \in Seq(Duel) /\ Len(duels') >= Len(duels)
  /\ \A m \in 1..Len(duels') : SeatInv(m)'
  /\ \A c \in 1..Len(conns) :
       conns'[c].open /\ conns[c].duel # 0
       => duels'[conns[c].duel].seat = "held" /\ duels'[conns[c].duel].conn = c

PageTyped ==
  /\ session \in 0..Len(client) /\ saved \in Nat
  /\ {busy, finished, shown} \subseteq BOOLEAN
  /\ hosts \in Nat /\ restoring \in Nat

(* The sequences and their elements. *)
LEMMA Rows ==
  ASSUME TypeOK
  PROVE  /\ Len(client) \in Nat /\ DOMAIN client = 1..Len(client) /\ Sessions = 1..Len(client)
         /\ Len(conns) \in Nat /\ DOMAIN conns = 1..Len(conns)
         /\ Len(duels) \in Nat /\ DOMAIN duels = 1..Len(duels) /\ Duels = 1..Len(duels)
         /\ \A n \in 1..Len(client) : client[n] \in Client
         /\ \A c \in 1..Len(conns) : conns[c] \in Conn
         /\ \A m \in 1..Len(duels) : duels[m] \in Duel
BY LenProperties, ElementOfSeq DEF TypeOK, Sessions, Duels

LEMMA DuelsGrow ==
  ASSUME TypeOK, RoomsFollow
  PROVE  Duels \subseteq Duels'
BY LenProperties DEF TypeOK, Duels, RoomsFollow

(* A session that is left alone. *)
LEMMA SessionStays ==
  ASSUME ConnsInv, RoomsFollow, NEW n \in 1..Len(client), client'[n] = client[n]
  PROVE  SessionInv(n)'
<1>1. /\ SessionInv(n) /\ client[n] \in Client
      /\ Len(conns) \in Nat /\ DOMAIN conns = 1..Len(conns) /\ Duels = 1..Len(duels)
      /\ Len(conns') \in Nat /\ DOMAIN conns' = 1..Len(conns') /\ Len(conns') >= Len(conns)
  BY Rows, LenProperties DEF ConnsInv, RoomsFollow, ConnsKept
<1> DEFINE s == client[n]
<1>2. \A c \in 1..Len(conns) : /\ conns'[c].of = conns[c].of /\ conns'[c].duel = conns[c].duel
                               /\ conns'[c].open => conns[c].open
  BY DEF RoomsFollow, ConnsKept
<1>3. s.over /\ Open(s.match)' => duels'[conns'[s.match].duel].stage = "published"
  <2> SUFFICES ASSUME s.over, s.match # 0, conns'[s.match].open
               PROVE  duels'[conns'[s.match].duel].stage = "published"
    BY DEF Open
  <2>1. /\ s.match \in 1..Len(conns) /\ conns[s.match].open /\ conns'[s.match].duel = conns[s.match].duel
        /\ conns[s.match].duel # 0
    BY <1>1, <1>2 DEF SessionInv
  <2>2. ConnInv(s.match) /\ duels[conns[s.match].duel].stage = "published"
    BY <1>1, <2>1 DEF ConnsInv, SessionInv, Open
  <2>3. conns[s.match].duel \in 1..Len(duels)
    BY <1>1, <2>1, <2>2 DEF ConnInv
  <2> QED
    BY <2>1, <2>2, <2>3 DEF RoomsFollow, StagesKept
<1> QED
  BY <1>1, <1>2, <1>3, DuelsGrow DEF SessionInv, Open, ConnsInv

(* What has to be shown of a step of the page. *)
LEMMA ConnsStep ==
  ASSUME ConnsInv, RoomsFollow, PageTyped',
         client' \in Seq(Client), Len(client') >= Len(client),
         \A k \in 1..Len(client') :
           (k \in 1..Len(client) /\ client'[k] = client[k]) \/ SessionInv(k)',
         \A c \in 1..Len(conns) :
           conns'[c].open =>
             /\ client'[conns[c].of].live
             /\ IF conns[c].duel = 0 THEN client'[conns[c].of].lobby = client[conns[c].of].lobby
                ELSE client'[conns[c].of].match = client[conns[c].of].match,
         \A c \in 1..Len(conns') : c > Len(conns) => ConnInv(c)'
  PROVE  ConnsInv'
<1>1. /\ Len(client) \in Nat /\ Len(client') \in Nat /\ Sessions = 1..Len(client) /\ Sessions' = 1..Len(client')
      /\ Len(conns) \in Nat /\ Len(conns') \in Nat /\ DOMAIN conns = 1..Len(conns)
      /\ DOMAIN conns' = 1..Len(conns')
      /\ Len(duels) \in Nat /\ Len(duels') \in Nat /\ Duels = 1..Len(duels) /\ Duels' = 1..Len(duels')
  BY Rows, LenProperties DEF ConnsInv, RoomsFollow, ConnsKept, Sessions, Duels
<1>2. TypeOK'
  BY DEF TypeOK, PageTyped, RoomsFollow, ConnsKept
<1>3. \A k \in Sessions' : SessionInv(k)'
  BY <1>1, SessionStays
<1>4. ASSUME NEW c \in 1..Len(conns') PROVE ConnInv(c)'
  <2>1. CASE c > Len(conns)
    BY <2>1
  <2>2. CASE c <= Len(conns)
    <3>1. c \in 1..Len(conns)
      BY <1>1, <2>2
    <3>2. /\ ConnInv(c) /\ conns'[c].of = conns[c].of /\ conns'[c].duel = conns[c].duel
          /\ conns'[c].open => conns[c].open
      BY <1>1, <3>1 DEF ConnsInv, RoomsFollow, ConnsKept
    <3>3. SUFFICES ASSUME conns'[c].open PROVE ConnInv(c)'
      BY DEF ConnInv
    <3>4. /\ conns[c].of \in Sessions /\ conns[c].of \in Sessions'
          /\ client'[conns[c].of].live
          /\ conns[c].duel = 0 => client'[conns[c].of].lobby = c
          /\ conns[c].duel # 0 => client'[conns[c].of].match = c /\ conns[c].duel \in Duels'
      BY <1>1, <3>1, <3>2, <3>3 DEF ConnInv, RoomsFollow
    <3>5. conns[c].duel # 0 => duels'[conns[c].duel].seat = "held" /\ duels'[conns[c].duel].conn = c
      BY <3>1, <3>3 DEF RoomsFollow
    <3> QED
      BY <3>2, <3>4, <3>5 DEF ConnInv
  <2> QED
    BY <1>1, <2>1, <2>2
<1>5. \A m \in Duels' : SeatInv(m)'
  BY <1>1 DEF RoomsFollow
<1> QED
  BY <1>1, <1>2, <1>3, <1>4, <1>5 DEF ConnsInv

(* Connections and seats are left alone. *)
LEMMA RoomsRest ==
  ASSUME ConnsInv, UNCHANGED <<conns, duels>>
  PROVE  RoomsFollow
<1>1. /\ conns \in Seq(Conn) /\ duels \in Seq(Duel) /\ DOMAIN conns = 1..Len(conns) /\ Duels = 1..Len(duels)
      /\ Len(conns) \in Nat /\ Len(duels) \in Nat
  BY Rows DEF ConnsInv, TypeOK
<1>2. ConnsKept /\ StagesKept
  BY <1>1 DEF ConnsKept, StagesKept
<1>3. \A m \in 1..Len(duels') : SeatInv(m)'
  BY <1>1 DEF ConnsInv, SeatInv
<1>4. \A c \in 1..Len(conns) : conns'[c].open /\ conns[c].duel # 0
        => duels'[conns[c].duel].seat = "held" /\ duels'[conns[c].duel].conn = c
  BY <1>1 DEF ConnsInv, ConnInv
<1> QED
  BY <1>1, <1>2, <1>3, <1>4 DEF RoomsFollow

(* Connections end, and the seats they held are given up or kept for a     *)
(* reconnection.                                                           *)
LEMMA RoomsVacated ==
  ASSUME ConnsInv, NEW cs, NEW to \in {"grace", "gone"}, conns' = Shut(cs), duels' = Vacate(cs, to)
  PROVE  /\ RoomsFollow /\ Len(conns') = Len(conns) /\ Len(duels') = Len(duels)
         /\ \A c \in 1..Len(conns) : conns'[c].open <=> conns[c].open /\ c \notin cs
<1>1. /\ conns \in Seq(Conn) /\ duels \in Seq(Duel) /\ DOMAIN conns = 1..Len(conns) /\ Duels = 1..Len(duels)
      /\ Len(conns) \in Nat /\ Len(duels) \in Nat
  BY Rows DEF ConnsInv, TypeOK
<1>2. /\ conns' \in Seq(Conn) /\ Len(conns') = Len(conns)
      /\ \A c \in 1..Len(conns) :
           /\ conns'[c].of = conns[c].of /\ conns'[c].duel = conns[c].duel
           /\ conns'[c].open <=> conns[c].open /\ c \notin cs
  BY <1>1, ShutEffect
<1>3. /\ duels' \in Seq(Duel) /\ Len(duels') = Len(duels)
      /\ \A m \in 1..Len(duels) :
           /\ duels'[m].conn = duels[m].conn /\ duels'[m].stage = duels[m].stage
           /\ IF duels[m].seat = "held" /\ duels[m].conn \in cs
              THEN duels'[m].seat \in {"grace", "gone"} ELSE duels'[m].seat = duels[m].seat
  BY <1>1, VacateEffect
<1>4. ConnsKept /\ StagesKept
  <2>1. ConnsKept
    BY <1>1, <1>2 DEF ConnsKept
  <2>2. StagesKept
    BY <1>3 DEF StagesKept
  <2> QED
    BY <2>1, <2>2
<1>5. ASSUME NEW m \in 1..Len(duels') PROVE SeatInv(m)'
  <2> SUFFICES ASSUME duels'[m].seat = "held"
               PROVE  /\ duels'[m].conn \in DOMAIN conns' /\ conns'[duels'[m].conn].open
                      /\ conns'[duels'[m].conn].duel = m
    BY DEF SeatInv
  <2>1. duels[m].seat = "held" /\ duels[m].conn \notin cs /\ duels'[m].conn = duels[m].conn
    BY <1>3
  <2>2. duels[m].conn \in DOMAIN conns /\ conns[duels[m].conn].open /\ conns[duels[m].conn].duel = m
    BY <1>1, <1>3, <2>1 DEF ConnsInv, SeatInv
  <2>3. DOMAIN conns' = DOMAIN conns
    BY <1>1, <1>2, LenProperties
  <2> QED
    BY <1>1, <1>2, <2>1, <2>2, <2>3
<1>6. ASSUME NEW c \in 1..Len(conns), conns'[c].open, conns[c].duel # 0
      PROVE  duels'[conns[c].duel].seat = "held" /\ duels'[conns[c].duel].conn = c
  <2>1. conns[c].open /\ c \notin cs
    BY <1>2, <1>6
  <2>2. conns[c].duel \in 1..Len(duels) /\ duels[conns[c].duel].seat = "held" /\ duels[conns[c].duel].conn = c
    BY <1>1, <1>6, <2>1 DEF ConnsInv, ConnInv
  <2> QED
    BY <1>3, <2>1, <2>2
<1> QED
  BY <1>1, <1>2, <1>3, <1>4, <1>5, <1>6 DEF RoomsFollow

(* The end of lobby connections vacates no seat, and that of connections   *)
(* that are closed changes nothing.                                        *)
LEMMA NothingVacated ==
  ASSUME ConnsInv, NEW cs, \A c \in cs : c \in 1..Len(conns) => conns[c].duel = 0 \/ ~conns[c].open
  PROVE  Vacate(cs, "gone") = duels
<1>1. \A m \in Duels : ~(duels[m].seat = "held" /\ duels[m].conn \in cs)
  BY Rows DEF ConnsInv, SeatInv
<1>2. duels = [m \in Duels |-> duels[m]]
  BY DEF ConnsInv, TypeOK, Duels
<1> QED
  BY <1>1, <1>2 DEF Vacate

LEMMA NothingShut ==
  ASSUME ConnsInv, NEW cs, \A c \in cs : c \in 1..Len(conns) => ~conns[c].open
  PROVE  Shut(cs) = conns
<1>1. \A c \in DOMAIN conns : [conns[c] EXCEPT !.open = @ /\ c \notin cs] = conns[c]
  BY Rows DEF ConnsInv, Conn
<1>2. conns = [c \in DOMAIN conns |-> conns[c]]
  BY DEF ConnsInv, TypeOK
<1> QED
  BY <1>1, <1>2 DEF Shut

(* The seat of a duel is kept while its stage changes, or is given up      *)
(* after the grace period.                                                 *)
LEMMA RoomsAdvance ==
  ASSUME ConnsInv, NEW m \in 1..Len(duels), NEW d \in Duel,
         UNCHANGED conns, duels' = [duels EXCEPT ![m] = d],
         d.seat = duels[m].seat \/ (duels[m].seat # "held" /\ d.seat # "held"), d.conn = duels[m].conn,
         duels[m].stage = "published" => d.stage = "published" \/ duels[m].seat # "held"
  PROVE  RoomsFollow /\ Len(duels') = Len(duels)
<1>1. /\ conns \in Seq(Conn) /\ duels \in Seq(Duel) /\ DOMAIN conns = 1..Len(conns) /\ Duels = 1..Len(duels)
      /\ Len(conns) \in Nat /\ Len(duels) \in Nat
  BY Rows DEF ConnsInv, TypeOK
<1>2. /\ duels' \in Seq(Duel) /\ Len(duels') = Len(duels) /\ duels'[m] = d
      /\ \A k \in 1..Len(duels) : k # m => duels'[k] = duels[k]
  BY <1>1, PutEffect
<1>3. ASSUME NEW c \in 1..Len(conns), conns[c].open, conns[c].duel # 0
      PROVE  /\ conns[c].duel \in 1..Len(duels)
             /\ duels[conns[c].duel].seat = "held" /\ duels[conns[c].duel].conn = c
  BY <1>1, <1>3 DEF ConnsInv, ConnInv
<1>4. ConnsKept
  BY <1>1 DEF ConnsKept
<1>5. StagesKept
  <2> SUFFICES ASSUME NEW k \in 1..Len(duels), duels[k].stage = "published", duels'[k].stage # "published"
               PROVE  \A c \in 1..Len(conns) : conns[c].duel = k => ~conns'[c].open
    BY DEF StagesKept
  <2>1. k = m /\ duels[m].seat # "held"
    BY <1>2
  <2> QED
    BY <1>1, <1>3, <2>1
<1>6. \A k \in 1..Len(duels') : SeatInv(k)'
  BY <1>1, <1>2 DEF ConnsInv, SeatInv
<1>7. \A c \in 1..Len(conns) : conns'[c].open /\ conns[c].duel # 0
        => duels'[conns[c].duel].seat = "held" /\ duels'[conns[c].duel].conn = c
  BY <1>1, <1>2, <1>3
<1> QED
  BY <1>1, <1>2, <1>4, <1>5, <1>6, <1>7 DEF RoomsFollow

(* The open connections that are not the session's belong to others.       *)
LEMMA OthersRooms ==
  ASSUME ConnsInv, NEW n, NEW c \in 1..Len(conns), conns[c].open, c \notin RoomsOf(n), n \in 0..Len(client)
  PROVE  conns[c].of \in 1..Len(client) /\ conns[c].of # n /\ client[conns[c].of].live
<1>1. ConnInv(c) /\ c # 0 /\ conns[c].of \in 1..Len(client)
  BY Rows DEF ConnsInv, ConnInv
<1> QED
  BY <1>1 DEF ConnInv, RoomsOf

(* A session has been destroyed: all it has left is the call in flight. *)
Gone(n) ==
  /\ ~client'[n].live /\ client'[n].lobby = 0 /\ client'[n].match = 0 /\ client'[n].token = 0
  /\ client'[n].over = client[n].over /\ client'[n].call \in {client[n].call, "none"}
  /\ client'[n].duel = client[n].duel

LEMMA GoneInv ==
  ASSUME ConnsInv, RoomsFollow, NEW n \in 1..Len(client), Gone(n)
  PROVE  SessionInv(n)'
<1>1. SessionInv(n)
  BY Rows DEF ConnsInv
<1> QED
  BY <1>1, DuelsGrow DEF Gone, SessionInv, Open, ConnsInv

(* destroy, with whatever the page does then. *)
LEMMA Destroys ==
  ASSUME ConnsInv, NEW n \in 0..Len(client), LeaveRooms(n), PageTyped',
         client' \in Seq(Client), Len(client') >= Len(client),
         n # 0 => Gone(n),
         \A k \in 1..Len(client') :
           (k \in 1..Len(client) /\ (client'[k] = client[k] \/ k = n))
           \/ (k \notin 1..Len(client) /\ SessionInv(k)')
  PROVE  ConnsInv'
<1>1. /\ RoomsFollow /\ Len(conns') = Len(conns) /\ Len(client) \in Nat /\ Len(client') \in Nat
      /\ \A c \in 1..Len(conns) : conns'[c].open <=> conns[c].open /\ c \notin RoomsOf(n)
  BY RoomsVacated, Rows, LenProperties DEF LeaveRooms, ConnsInv
<1>2. \A k \in 1..Len(client') : (k \in 1..Len(client) /\ client'[k] = client[k]) \/ SessionInv(k)'
  BY <1>1, GoneInv
<1>3. ASSUME NEW c \in 1..Len(conns), conns'[c].open
      PROVE  client'[conns[c].of].live /\ client'[conns[c].of] = client[conns[c].of]
  <2>1. conns[c].of \in 1..Len(client) /\ conns[c].of # n /\ client[conns[c].of].live
    BY <1>1, <1>3, OthersRooms
  <2>2. conns[c].of \in 1..Len(client')
    BY <1>1, <2>1
  <2> QED
    BY <2>1, <2>2
<1>4. \A c \in 1..Len(conns') : ~(c > Len(conns))
  BY <1>1, Rows DEF ConnsInv
<1> QED
  BY <1>1, <1>2, <1>3, <1>4, ConnsStep

-----------------------------------------------------------------------------
(* The actions of the Penalty page, with or without late failures. *)

(* Cancel: the session is destroyed. *)
LEMMA ConnsCancel ==
  ASSUME ConnsInv, Cancel
  PROVE  ConnsInv'
<1>1. /\ session \in 0..Len(client) /\ client \in Seq(Client) /\ Len(client) \in Nat
      /\ client' = Destroyed(session) /\ LeaveRooms(session)
  BY Rows DEF ConnsInv, TypeOK, Cancel
<1>2. /\ client' \in Seq(Client) /\ Len(client') = Len(client)
      /\ \A k \in 1..Len(client) : k # session => client'[k] = client[k]
      /\ session # 0 => Gone(session)
  BY <1>1, DestroyedEffect DEF Gone
<1>3. session' = 0 /\ busy' \in BOOLEAN /\ UNCHANGED <<finished, shown, saved, hosts, restoring>>
  BY DEF Cancel, LetGo, keyed
<1>4. PageTyped'
  BY <1>1, <1>2, <1>3 DEF PageTyped, ConnsInv, TypeOK
<1> QED
  BY <1>1, <1>2, <1>4, Destroys

(* A search begins with a session of its own. *)
LEMMA NewSessionInv ==
  ASSUME NEW n, NEW call \in {"none", "lobby", "reconnect"}, NEW t \in Nat,
         client'[n] = NewSession(call, t)
  PROVE  SessionInv(n)' /\ NewSession(call, t) \in Client
BY DEF NewSession, SessionInv, Open, Client, Calls

LEMMA ConnsStart ==
  ASSUME ConnsInv, Start
  PROVE  ConnsInv'
<1>1. /\ session \in 0..Len(client) /\ client \in Seq(Client) /\ Len(client) \in Nat
      /\ client' = Append(Destroyed(session), NewSession("lobby", 0)) /\ LeaveRooms(session)
  BY Rows DEF ConnsInv, TypeOK, Start
<1>2. NewSession("lobby", 0) \in Client
  BY DEF NewSession, Client, Calls
<1>3. /\ client' \in Seq(Client) /\ Len(client') = Len(client) + 1
      /\ \A k \in 1..Len(client) : client'[k] = Destroyed(session)[k]
      /\ client'[Len(client) + 1] = NewSession("lobby", 0)
  BY <1>1, <1>2, DestroyedEffect, AppendEffect
<1>4. /\ \A k \in 1..Len(client) : k # session => client'[k] = client[k]
      /\ session # 0 => Gone(session)
  BY <1>1, <1>3, DestroyedEffect DEF Gone
<1>5. PageTyped'
  <2>1. /\ session' = Len(client') /\ {busy', finished', shown'} \subseteq BOOLEAN
        /\ UNCHANGED <<saved, hosts, restoring>>
    BY DEF Start, keyed
  <2> QED
    BY <1>1, <1>3, <2>1 DEF PageTyped, ConnsInv, TypeOK
<1>6. PICK k : k = Len(client) + 1
  OBVIOUS
<1>7. SessionInv(k)' /\ k \notin 1..Len(client)
  BY <1>1, <1>3, <1>6, NewSessionInv
<1>8. \A i \in 1..Len(client') : i \in 1..Len(client) \/ i = k
  BY <1>1, <1>3, <1>6
<1>9. \A i \in 1..Len(client) : client'[i] = client[i] \/ i = session
  BY <1>4
<1>10. Len(client') >= Len(client)
  BY <1>1, <1>3
<1> QED
  BY <1>1, <1>3, <1>4, <1>5, <1>7, <1>8, <1>9, <1>10, Destroys

(* A step of one session, that keeps the session and may lose connections. *)
LEMMA Alone ==
  ASSUME ConnsInv, RoomsFollow, PageTyped', NEW n \in 1..Len(client),
         client' \in Seq(Client), Len(client') = Len(client),
         \A k \in 1..Len(client) : k # n => client'[k] = client[k],
         SessionInv(n)', client'[n].live = client[n].live,
         client'[n].lobby = client[n].lobby \/ client[n].lobby = 0 \/ ~conns'[client[n].lobby].open,
         client'[n].match = client[n].match \/ client[n].match = 0 \/ ~conns'[client[n].match].open,
         \A c \in 1..Len(conns') : c > Len(conns) => ConnInv(c)'
  PROVE  ConnsInv'
<1>1. ASSUME NEW c \in 1..Len(conns), conns'[c].open
      PROVE  /\ client'[conns[c].of].live
             /\ IF conns[c].duel = 0 THEN client'[conns[c].of].lobby = client[conns[c].of].lobby
                ELSE client'[conns[c].of].match = client[conns[c].of].match
  <2>1. conns[c].open /\ ConnInv(c) /\ c # 0
    BY <1>1, Rows DEF ConnsInv, RoomsFollow, ConnsKept
  <2>2. /\ conns[c].of \in 1..Len(client) /\ client[conns[c].of].live
        /\ IF conns[c].duel = 0 THEN client[conns[c].of].lobby = c ELSE client[conns[c].of].match = c
    BY <2>1, Rows DEF ConnInv, ConnsInv
  <2> QED
    BY <1>1, <2>1, <2>2
<1>2. \A k \in 1..Len(client') : (k \in 1..Len(client) /\ client'[k] = client[k]) \/ SessionInv(k)'
  OBVIOUS
<1>3. Len(client') >= Len(client)
  BY Rows DEF ConnsInv
<1> QED
  BY <1>1, <1>2, <1>3, ConnsStep

(* A step that leaves all sessions alone. *)
LEMMA NoSession ==
  ASSUME ConnsInv, RoomsFollow, PageTyped', UNCHANGED client,
         \A c \in 1..Len(conns') : c > Len(conns) => ConnInv(c)'
  PROVE  ConnsInv'
<1>1. \A c \in 1..Len(conns) : conns'[c].open => client'[conns[c].of].live
  BY Rows DEF ConnsInv, RoomsFollow, ConnsKept, ConnInv
<1>2. Len(client') >= Len(client) /\ client' \in Seq(Client)
  BY Rows DEF ConnsInv, TypeOK
<1> QED
  BY <1>1, <1>2, ConnsStep

(* The sessions with one field, or two, of session n set. *)
LEMMA CallSet ==
  ASSUME NEW q \in Seq(Client), NEW n \in 1..Len(q), NEW x \in Calls
  PROVE  /\ [q EXCEPT ![n].call = x] \in Seq(Client) /\ Len([q EXCEPT ![n].call = x]) = Len(q)
         /\ \A k \in 1..Len(q) : k # n => [q EXCEPT ![n].call = x][k] = q[k]
         /\ [q EXCEPT ![n].call = x][n] = [q[n] EXCEPT !.call = x]
<1>1. q[n] \in Client
  BY ElementOfSeq
<1>2. [q[n] EXCEPT !.call = x] \in Client
  BY <1>1 DEF Client
<1>3. [q EXCEPT ![n].call = x] = [q EXCEPT ![n] = [q[n] EXCEPT !.call = x]]
  OBVIOUS
<1> QED
  BY <1>2, <1>3, PutEffect

LEMMA CallOnly ==
  ASSUME NEW r \in Client, NEW x \in Calls
  PROVE  LET s == [r EXCEPT !.call = x]
         IN  /\ s.live = r.live /\ s.lobby = r.lobby /\ s.match = r.match /\ s.token = r.token
             /\ s.over = r.over /\ s.call = x /\ s.duel = r.duel
BY DEF Client

LEMMA LobbySet ==
  ASSUME NEW q \in Seq(Client), NEW n \in 1..Len(q), NEW x \in Nat
  PROVE  /\ [q EXCEPT ![n].lobby = x] \in Seq(Client) /\ Len([q EXCEPT ![n].lobby = x]) = Len(q)
         /\ \A k \in 1..Len(q) : k # n => [q EXCEPT ![n].lobby = x][k] = q[k]
         /\ [q EXCEPT ![n].lobby = x][n] = [q[n] EXCEPT !.lobby = x]
<1>1. q[n] \in Client
  BY ElementOfSeq
<1>2. [q[n] EXCEPT !.lobby = x] \in Client
  BY <1>1 DEF Client
<1>3. [q EXCEPT ![n].lobby = x] = [q EXCEPT ![n] = [q[n] EXCEPT !.lobby = x]]
  OBVIOUS
<1> QED
  BY <1>2, <1>3, PutEffect

LEMMA LobbyOnly ==
  ASSUME NEW r \in Client, NEW x \in Nat
  PROVE  LET s == [r EXCEPT !.lobby = x]
         IN  /\ s.live = r.live /\ s.lobby = x /\ s.match = r.match /\ s.token = r.token
             /\ s.over = r.over /\ s.call = r.call /\ s.duel = r.duel
BY DEF Client

(* The session after its call was answered, or began another one. *)
LEMMA AnsweredEffect ==
  ASSUME ConnsInv, NEW n \in 1..Len(client)
  PROVE  /\ Answered(n) \in Seq(Client) /\ Len(Answered(n)) = Len(client)
         /\ \A k \in 1..Len(client) : k # n => Answered(n)[k] = client[k]
         /\ Answered(n)[n].live = client[n].live /\ Answered(n)[n].lobby = client[n].lobby
         /\ Answered(n)[n].match = client[n].match /\ Answered(n)[n].token = client[n].token
         /\ Answered(n)[n].over = client[n].over /\ Answered(n)[n].call = "none"
         /\ Answered(n)[n].duel = client[n].duel
<1>1. client \in Seq(Client) /\ client[n] \in Client /\ "none" \in Calls
  BY Rows DEF ConnsInv, TypeOK, Calls
<1> QED
  BY <1>1, CallSet, CallOnly DEF Answered

(* The catch of start: the session is destroyed and its call is over. *)
LEMMA DestroyedCall ==
  ASSUME ConnsInv, NEW n \in 1..Len(client), NEW x \in {client[n].call, "none"},
         client' = [Destroyed(n) EXCEPT ![n].call = x]
  PROVE  /\ client' \in Seq(Client) /\ Len(client') = Len(client) /\ Gone(n) /\ client'[n].call = x
         /\ \A k \in 1..Len(client) : k # n => client'[k] = client[k]
<1>1. client \in Seq(Client) /\ x \in Calls /\ Len(client) \in Nat
  BY Rows DEF ConnsInv, TypeOK, Calls, Client
<1>2. Destroyed(n) \in Seq(Client) /\ Len(Destroyed(n)) = Len(client) /\ Destroyed(n)[n] \in Client
  BY <1>1, DestroyedEffect, ElementOfSeq
<1>3. /\ client' \in Seq(Client) /\ Len(client') = Len(client)
      /\ \A k \in 1..Len(client) : k # n => client'[k] = Destroyed(n)[k]
      /\ client'[n] = [Destroyed(n)[n] EXCEPT !.call = x]
  BY <1>1, <1>2, CallSet
<1>4. /\ client'[n].live = Destroyed(n)[n].live /\ client'[n].lobby = Destroyed(n)[n].lobby
      /\ client'[n].match = Destroyed(n)[n].match /\ client'[n].token = Destroyed(n)[n].token
      /\ client'[n].over = Destroyed(n)[n].over /\ client'[n].call = x
      /\ client'[n].duel = Destroyed(n)[n].duel
  BY <1>1, <1>2, <1>3, CallOnly
<1>5. /\ \A k \in 1..Len(client) : k # n => Destroyed(n)[k] = client[k]
      /\ ~Destroyed(n)[n].live /\ Destroyed(n)[n].lobby = 0 /\ Destroyed(n)[n].match = 0
      /\ Destroyed(n)[n].token = 0 /\ Destroyed(n)[n].over = client[n].over
      /\ Destroyed(n)[n].duel = client[n].duel
  BY <1>1, DestroyedEffect
<1> QED
  BY <1>3, <1>4, <1>5 DEF Gone

LEMMA ConnsLobbyFails ==
  ASSUME ConnsInv, NEW n \in 1..Len(client), LobbyFails(n)
  PROVE  ConnsInv'
<1>1. /\ client' = [Destroyed(n) EXCEPT ![n].call = "none"] /\ LeaveRooms(n)
      /\ session' = 0 /\ busy' \in BOOLEAN /\ UNCHANGED <<finished, shown, saved, hosts, restoring>>
  BY DEF LobbyFails, LetGo, keyed
<1>2. /\ client' \in Seq(Client) /\ Len(client') = Len(client) /\ Gone(n)
      /\ \A k \in 1..Len(client) : k # n => client'[k] = client[k]
      /\ Len(client) \in Nat
  BY <1>1, DestroyedCall, Rows DEF ConnsInv
<1>3. PageTyped'
  BY <1>1, <1>2 DEF PageTyped, ConnsInv, TypeOK
<1> QED
  BY <1>1, <1>2, <1>3, Destroys

(* An error reported to session n, which gives it up or goes on: the       *)
(* lobby, if that is what broke, was its own.                              *)
LEMMA ConnsOnError ==
  ASSUME ConnsInv, NEW n \in 1..Len(client), NEW cs \in {{}, {client[n].lobby}}, NEW kept,
         client[n].lobby # 0, OnError(n, cs, kept), UNCHANGED <<finished, shown, saved, keyed>>,
         kept \in Seq(Client), Len(kept) = Len(client),
         \A k \in 1..Len(client) : k # n => kept[k] = client[k],
         kept[n].live = client[n].live, kept[n].match = client[n].match, kept[n].token = client[n].token,
         kept[n].over = client[n].over, kept[n].duel = client[n].duel,
         kept[n].call \in {client[n].call, "none"},
         kept[n].lobby = client[n].lobby \/ (kept[n].lobby = 0 /\ cs # {})
  PROVE  ConnsInv'
<1>1. Len(client) \in Nat /\ UNCHANGED <<finished, shown, saved, hosts, restoring>>
  BY Rows DEF ConnsInv, keyed
<1>2. SessionInv(n)
  BY Rows DEF ConnsInv
<1>3. CASE ~shown \/ finished
  <2>1. cs \cup RoomsOf(n) = RoomsOf(n)
    BY DEF RoomsOf
  <2>2. /\ client' = [Destroyed(n) EXCEPT ![n].call = kept[n].call] /\ LeaveRooms(n)
        /\ session' = 0 /\ busy' \in BOOLEAN
    BY <1>3, <2>1 DEF OnError, LetGo, LeaveRooms
  <2>3. /\ client' \in Seq(Client) /\ Len(client') = Len(client) /\ Gone(n)
        /\ \A k \in 1..Len(client) : k # n => client'[k] = client[k]
    BY <2>2, DestroyedCall
  <2>4. PageTyped'
    BY <1>1, <2>2, <2>3 DEF PageTyped, ConnsInv, TypeOK
  <2>5. \A k \in 1..Len(client') : k \in 1..Len(client) /\ (client'[k] = client[k] \/ k = n)
    BY <2>3
  <2>6. n \in 0..Len(client) /\ Len(client') >= Len(client)
    BY <1>1, <2>3
  <2> QED
    BY <2>2, <2>3, <2>4, <2>5, <2>6, Destroys
<1>4. CASE shown /\ ~finished
  <2>1. client' = kept /\ conns' = Shut(cs) /\ UNCHANGED <<duels, session, busy>>
    BY <1>4 DEF OnError
  <2>2. Vacate(cs, "gone") = duels
    <3>1. client[n].lobby \in 1..Len(conns) => conns[client[n].lobby].duel = 0
      BY <1>2 DEF SessionInv
    <3> QED
      BY <3>1, NothingVacated
  <2>3. /\ RoomsFollow /\ Len(conns') = Len(conns) /\ Len(conns) \in Nat
        /\ \A c \in 1..Len(conns) : conns'[c].open <=> conns[c].open /\ c \notin cs
    BY <2>1, <2>2, RoomsVacated, Rows DEF ConnsInv
  <2>4. PageTyped'
    BY <1>1, <2>1 DEF PageTyped, ConnsInv, TypeOK
  <2>5. client[n].lobby \in 1..Len(conns) /\ (kept[n].lobby = 0 => ~conns'[client[n].lobby].open)
    BY <1>2, <2>3, Rows DEF SessionInv, ConnsInv
  <2>6. SessionInv(n)'
    <3>1. client[n].match = 0
      BY <1>2 DEF SessionInv
    <3>2. DOMAIN conns' = 1..Len(conns) /\ conns'[client[n].lobby].of = conns[client[n].lobby].of
          /\ conns'[client[n].lobby].duel = conns[client[n].lobby].duel
      BY <2>3, <2>5, LenProperties DEF RoomsFollow, ConnsKept
    <3> QED
      BY <1>2, <2>1, <3>1, <3>2 DEF SessionInv, Open, Duels
  <2>7. \A c \in 1..Len(conns') : ~(c > Len(conns))
    BY <2>3
  <2> QED
    BY <2>1, <2>3, <2>4, <2>5, <2>6, <2>7, Alone
<1> QED
  BY <1>3, <1>4 DEF ConnsInv, TypeOK

LEMMA ConnsLobbyDrop ==
  ASSUME ConnsInv, NEW n \in 1..Len(client), LobbyDrop(n)
  PROVE  ConnsInv'
<1> DEFINE kept == [client EXCEPT ![n].lobby = 0]
<1>1. /\ client[n].lobby # 0 /\ OnError(n, {client[n].lobby}, kept)
      /\ UNCHANGED <<finished, shown, saved, keyed>>
  BY DEF LobbyDrop, Open
<1>2. client \in Seq(Client) /\ client[n] \in Client
  BY Rows DEF ConnsInv, TypeOK
<1>3. /\ kept \in Seq(Client) /\ Len(kept) = Len(client)
      /\ \A k \in 1..Len(client) : k # n => kept[k] = client[k]
      /\ kept[n] = [client[n] EXCEPT !.lobby = 0]
  BY <1>2, LobbySet
<1>4. /\ kept[n].live = client[n].live /\ kept[n].match = client[n].match /\ kept[n].token = client[n].token
      /\ kept[n].over = client[n].over /\ kept[n].duel = client[n].duel /\ kept[n].call = client[n].call
      /\ kept[n].lobby = 0
  BY <1>2, <1>3, LobbyOnly
<1> HIDE DEF kept
<1> QED
  BY <1>1, <1>3, <1>4, ConnsOnError

(* The call of session n is over, and nothing else has changed. *)
LEMMA ConnsAnswered ==
  ASSUME ConnsInv, NEW n \in 1..Len(client), client' = Answered(n), UNCHANGED <<conns, duels>>, PageTyped'
  PROVE  ConnsInv'
<1>1. SessionInv(n) /\ Len(conns) \in Nat
  BY Rows DEF ConnsInv
<1>2. SessionInv(n)'
  BY <1>1, AnsweredEffect DEF SessionInv, Open
<1>3. \A c \in 1..Len(conns') : ~(c > Len(conns))
  BY <1>1
<1> QED
  BY <1>2, <1>3, RoomsRest, AnsweredEffect, Alone

LEMMA ConnsJoinRefused ==
  ASSUME ConnsInv, NEW n \in 1..Len(client), JoinRefused(n)
  PROVE  ConnsInv'
<1>1. UNCHANGED <<finished, shown, saved, keyed>>
  BY DEF JoinRefused
<1>2. CASE client[n].live /\ client[n].lobby # 0
  <2>1. OnError(n, {}, Answered(n))
    BY <1>2 DEF JoinRefused
  <2> QED
    BY <1>1, <1>2, <2>1, AnsweredEffect, ConnsOnError
<1>3. CASE ~(client[n].live /\ client[n].lobby # 0)
  <2>1. client' = Answered(n) /\ UNCHANGED <<conns, duels, session, busy>>
    BY <1>3 DEF JoinRefused, outside
  <2>2. PageTyped'
    BY <1>1, <2>1, AnsweredEffect DEF PageTyped, ConnsInv, TypeOK, keyed
  <2> QED
    BY <2>1, <2>2, ConnsAnswered
<1> QED
  BY <1>2, <1>3

(* The loop of reconnectMatch ends.  No connection of the session is open. *)
LEMMA ConnsReconnectExpired ==
  ASSUME ConnsInv, NEW n \in 1..Len(client), ReconnectExpired(n)
  PROVE  ConnsInv'
<1>1. /\ client[n].call = "reconnect" /\ client' = [Destroyed(n) EXCEPT ![n].call = "none"]
      /\ UNCHANGED <<conns, duels, shown, hosts, restoring>>
  BY DEF ReconnectExpired, outside, keyed
<1>2. /\ client' \in Seq(Client) /\ Len(client') = Len(client) /\ Gone(n) /\ Len(client) \in Nat
      /\ \A k \in 1..Len(client) : k # n => client'[k] = client[k]
  BY <1>1, DestroyedCall, Rows DEF ConnsInv
<1>3. PageTyped'
  <2>1. session' \in {0, session} /\ saved' \in {0, saved} /\ {busy', finished'} \subseteq BOOLEAN
    BY DEF ReconnectExpired, LetGo, ConnsInv, TypeOK
  <2> QED
    BY <1>1, <1>2, <2>1 DEF PageTyped, ConnsInv, TypeOK
<1>4. \A c \in RoomsOf(n) : c \in 1..Len(conns) => ~conns[c].open
  BY <1>1, Rows DEF ConnsInv, SessionInv, RoomsOf, Open
<1>5. LeaveRooms(n)
  BY <1>1, <1>4, NothingShut, NothingVacated DEF LeaveRooms
<1> QED
  BY <1>2, <1>3, <1>5, Destroys

(* A lobby connection is opened, for a session that lives or one that is   *)
(* gone.                                                                   *)
LEMMA AcceptLobbyEffect ==
  ASSUME ConnsInv, NEW n \in 1..Len(client), AcceptLobby(n), NEW c \in Nat, c = Len(conns) + 1
  PROVE  /\ conns' \in Seq(Conn) /\ Len(conns') = c
         /\ conns'[c].of = n /\ conns'[c].duel = 0 /\ (conns'[c].open <=> client[n].live)
         /\ \A k \in 1..Len(conns) : conns'[k] = conns[k]
         /\ client' \in Seq(Client) /\ Len(client') = Len(client)
         /\ \A k \in 1..Len(client) : k # n => client'[k] = client[k]
         /\ client'[n].live = client[n].live /\ client'[n].lobby = (IF client[n].live THEN c ELSE 0)
         /\ client'[n].match = client[n].match /\ client'[n].over = client[n].over
         /\ client'[n].call = "none" /\ client'[n].duel = client[n].duel
         /\ client'[n].token = client[n].token
<1>1. /\ client[n].call = "lobby" /\ UNCHANGED <<duels, session, busy, finished, shown, saved, hosts, restoring>>
      /\ conns' = Append(conns, [of |-> n, duel |-> 0, open |-> client[n].live])
      /\ client' = [Answered(n) EXCEPT ![n].lobby = IF client[n].live THEN Opened ELSE 0]
  BY DEF AcceptLobby, page, keyed
<1>2. /\ Len(conns) \in Nat /\ conns \in Seq(Conn) /\ client[n].live \in BOOLEAN /\ Len(client) \in Nat
      /\ duels \in Seq(Duel) /\ Duels = 1..Len(duels) /\ Len(duels) \in Nat /\ DOMAIN conns = 1..Len(conns)
  BY Rows DEF ConnsInv, TypeOK, Client
<1>3. c = Len(conns) + 1
  OBVIOUS
<1>4. /\ conns' \in Seq(Conn) /\ Len(conns') = c
      /\ conns'[c] = [of |-> n, duel |-> 0, open |-> client[n].live]
      /\ \A k \in 1..Len(conns) : conns'[k] = conns[k]
  <2>1. [of |-> n, duel |-> 0, open |-> client[n].live] \in Conn
    BY <1>2 DEF Conn
  <2> QED
    BY <1>1, <1>2, <1>3, <2>1, AppendEffect
<1>5. PICK x \in {0, c} : x = IF client[n].live THEN c ELSE 0
  OBVIOUS
<1>6. client' = [Answered(n) EXCEPT ![n].lobby = x]
  BY <1>1, <1>3, <1>5 DEF Opened
<1>7. /\ client' \in Seq(Client) /\ Len(client') = Len(client)
      /\ \A k \in 1..Len(client) : k # n => client'[k] = client[k]
      /\ client'[n] = [Answered(n)[n] EXCEPT !.lobby = x]
      /\ Answered(n)[n] \in Client
  <2>1. /\ Answered(n) \in Seq(Client) /\ Len(Answered(n)) = Len(client) /\ x \in Nat
        /\ \A k \in 1..Len(client) : k # n => Answered(n)[k] = client[k]
    BY <1>3, AnsweredEffect
  <2>2. Answered(n)[n] \in Client
    BY <2>1, ElementOfSeq
  <2> QED
    BY <1>6, <2>1, <2>2, LobbySet
<1>8. /\ client'[n].live = client[n].live /\ client'[n].lobby = x /\ client'[n].match = client[n].match
      /\ client'[n].over = client[n].over /\ client'[n].call = "none" /\ client'[n].duel = client[n].duel
      /\ client'[n].token = client[n].token
  BY <1>3, <1>7, AnsweredEffect, LobbyOnly
<1> QED
  BY <1>4, <1>5, <1>7, <1>8

LEMMA ConnsAcceptLobby ==
  ASSUME ConnsInv, NEW n \in 1..Len(client), AcceptLobby(n)
  PROVE  ConnsInv'
<1>1. client[n].call = "lobby" /\ UNCHANGED <<duels, session, busy, finished, shown, saved, hosts, restoring>>
  BY DEF AcceptLobby, page, keyed
<1>2. /\ Len(conns) \in Nat /\ conns \in Seq(Conn) /\ client[n].live \in BOOLEAN /\ Len(client) \in Nat
      /\ duels \in Seq(Duel) /\ Duels = 1..Len(duels) /\ Len(duels) \in Nat /\ DOMAIN conns = 1..Len(conns)
  BY Rows DEF ConnsInv, TypeOK, Client
<1>3. PICK c \in Nat : c = Len(conns) + 1
  BY <1>2
<1>4. /\ conns' \in Seq(Conn) /\ Len(conns') = c
      /\ conns'[c].of = n /\ conns'[c].duel = 0 /\ (conns'[c].open <=> client[n].live)
      /\ \A k \in 1..Len(conns) : conns'[k] = conns[k]
  BY <1>3, AcceptLobbyEffect
<1>5. PICK x \in {0, c} : x = IF client[n].live THEN c ELSE 0
  OBVIOUS
<1>6. /\ client' \in Seq(Client) /\ Len(client') = Len(client)
      /\ \A k \in 1..Len(client) : k # n => client'[k] = client[k]
  BY <1>3, AcceptLobbyEffect
<1>7. /\ client'[n].live = client[n].live /\ client'[n].lobby = x /\ client'[n].match = client[n].match
      /\ client'[n].over = client[n].over /\ client'[n].call = "none" /\ client'[n].duel = client[n].duel
      /\ client'[n].token = client[n].token
  BY <1>3, <1>5, AcceptLobbyEffect
<1>8. SessionInv(n) /\ client[n].match = 0 /\ client[n].lobby = 0
  BY <1>1, Rows DEF ConnsInv, SessionInv
<1>9. DOMAIN conns' = 1..c
  BY <1>4, LenProperties
<1>10. SessionInv(n)'
  BY <1>3, <1>4, <1>5, <1>7, <1>8, <1>9 DEF SessionInv, Open
<1>11. RoomsFollow
  <2>1. ConnsKept /\ StagesKept
    BY <1>1, <1>2, <1>3, <1>4 DEF ConnsKept, StagesKept
  <2>2. \A m \in 1..Len(duels') : SeatInv(m)'
    BY <1>1, <1>2, <1>3, <1>4, <1>9 DEF ConnsInv, SeatInv
  <2>3. \A k \in 1..Len(conns) : conns'[k].open /\ conns[k].duel # 0
          => duels'[conns[k].duel].seat = "held" /\ duels'[conns[k].duel].conn = k
    BY <1>1, <1>2, <1>4 DEF ConnsInv, ConnInv
  <2> QED
    BY <1>1, <1>2, <2>1, <2>2, <2>3 DEF RoomsFollow
<1>12. ASSUME NEW k \in 1..Len(conns'), k > Len(conns)
       PROVE  ConnInv(k)'
  <2>1. k = c
    BY <1>2, <1>3, <1>4, <1>12
  <2>2. n \in Sessions'
    BY <1>6 DEF Sessions
  <2> QED
    BY <1>4, <1>5, <1>7, <2>1, <2>2 DEF ConnInv
<1>13. PageTyped'
  BY <1>1, <1>6 DEF PageTyped, ConnsInv, TypeOK
<1> QED
  BY <1>6, <1>7, <1>8, <1>10, <1>11, <1>12, <1>13, Alone

(* match_found: a seat is reserved, which nobody holds yet. *)
WithDuel(r, d) == [[[r EXCEPT !.over = FALSE] EXCEPT !.call = "match"] EXCEPT !.duel = d]

LEMMA DuelSet ==
  ASSUME NEW r \in Client, NEW d \in Nat
  PROVE  /\ WithDuel(r, d) \in Client /\ WithDuel(r, d).live = r.live /\ WithDuel(r, d).lobby = r.lobby
         /\ WithDuel(r, d).match = r.match /\ WithDuel(r, d).token = r.token
         /\ WithDuel(r, d).over = FALSE /\ WithDuel(r, d).call = "match" /\ WithDuel(r, d).duel = d
BY DEF Client, Calls, WithDuel

LEMMA MatchFoundEffect ==
  ASSUME ConnsInv, NEW n \in 1..Len(client), MatchFound(n), NEW m \in Nat, m = Len(duels) + 1
  PROVE  /\ duels' \in Seq(Duel) /\ Len(duels') = m
         /\ duels'[m].seat = "reserved" /\ duels'[m].stage = "playing"
         /\ \A k \in 1..Len(duels) : duels'[k] = duels[k]
         /\ client' \in Seq(Client) /\ Len(client') = Len(client)
         /\ \A k \in 1..Len(client) : k # n => client'[k] = client[k]
         /\ client'[n].live = client[n].live /\ client'[n].lobby = client[n].lobby
         /\ client'[n].match = client[n].match /\ client'[n].token = client[n].token
         /\ ~client'[n].over /\ client'[n].call = "match" /\ client'[n].duel = m
<1>1. /\ Open(client[n].lobby) /\ client[n].call = "none"
      /\ UNCHANGED <<conns, session, busy, finished, shown, saved, hosts, restoring>>
      /\ duels' = Append(duels, [seat |-> "reserved", conn |-> 0, stage |-> "playing"])
      /\ client' = [client EXCEPT ![n].over = FALSE, ![n].call = "match", ![n].duel = Len(duels')]
  BY DEF MatchFound, page, keyed
<1>2. /\ Len(conns) \in Nat /\ Len(client) \in Nat /\ client \in Seq(Client) /\ client[n] \in Client
      /\ conns \in Seq(Conn) /\ duels \in Seq(Duel) /\ Duels = 1..Len(duels) /\ Len(duels) \in Nat
      /\ DOMAIN conns = 1..Len(conns)
  BY Rows DEF ConnsInv, TypeOK
<1>3. m = Len(duels) + 1
  OBVIOUS
<1>4. /\ duels' \in Seq(Duel) /\ Len(duels') = m
      /\ duels'[m] = [seat |-> "reserved", conn |-> 0, stage |-> "playing"]
      /\ \A k \in 1..Len(duels) : duels'[k] = duels[k]
  <2>1. [seat |-> "reserved", conn |-> 0, stage |-> "playing"] \in Duel
    BY DEF Duel
  <2> QED
    BY <1>1, <1>2, <1>3, <2>1, AppendEffect
<1>5. client' = [client EXCEPT ![n] = WithDuel(client[n], m)]
  <2>1. client' = [[[client EXCEPT ![n].over = FALSE] EXCEPT ![n].call = "match"] EXCEPT ![n].duel = m]
    BY <1>1, <1>4
  <2> QED
    BY <1>2, <2>1 DEF WithDuel
<1>6. /\ client' \in Seq(Client) /\ Len(client') = Len(client)
      /\ \A k \in 1..Len(client) : k # n => client'[k] = client[k]
      /\ client'[n].live = client[n].live /\ client'[n].lobby = client[n].lobby
      /\ client'[n].match = client[n].match /\ client'[n].token = client[n].token
      /\ client'[n].over = FALSE /\ client'[n].call = "match" /\ client'[n].duel = m
  <2>1. PICK r \in Client : r = WithDuel(client[n], m)
    BY <1>2, DuelSet
  <2>2. /\ r.live = client[n].live /\ r.lobby = client[n].lobby
        /\ r.match = client[n].match /\ r.token = client[n].token
        /\ r.over = FALSE /\ r.call = "match" /\ r.duel = m
    BY <1>2, <2>1, DuelSet
  <2>3. client' = [client EXCEPT ![n] = r]
    BY <1>5, <2>1
  <2> QED
    BY <1>2, <2>2, <2>3, PutEffect
<1> QED
  BY <1>4, <1>6

LEMMA ConnsMatchFound ==
  ASSUME ConnsInv, NEW n \in 1..Len(client), MatchFound(n)
  PROVE  ConnsInv'
<1>1. /\ Open(client[n].lobby) /\ client[n].call = "none"
      /\ UNCHANGED <<conns, session, busy, finished, shown, saved, hosts, restoring>>
  BY DEF MatchFound, page, keyed
<1>2. /\ Len(conns) \in Nat /\ Len(client) \in Nat
      /\ conns \in Seq(Conn) /\ duels \in Seq(Duel) /\ Duels = 1..Len(duels) /\ Len(duels) \in Nat
      /\ DOMAIN conns = 1..Len(conns)
  BY Rows DEF ConnsInv, TypeOK
<1>3. PICK m \in Nat : m = Len(duels) + 1
  BY <1>2
<1>4. /\ duels' \in Seq(Duel) /\ Len(duels') = m /\ duels'[m].seat = "reserved"
      /\ \A k \in 1..Len(duels) : duels'[k] = duels[k]
  BY <1>3, MatchFoundEffect
<1>5. /\ client' \in Seq(Client) /\ Len(client') = Len(client)
      /\ \A k \in 1..Len(client) : k # n => client'[k] = client[k]
      /\ client'[n].live = client[n].live /\ client'[n].lobby = client[n].lobby
      /\ client'[n].match = client[n].match /\ client'[n].token = client[n].token
      /\ ~client'[n].over /\ client'[n].call = "match" /\ client'[n].duel = m
  BY <1>3, MatchFoundEffect
<1>6. SessionInv(n) /\ client[n].match = 0
  BY <1>1, Rows DEF ConnsInv, SessionInv, Open
<1>7. RoomsFollow
  <2>1. ConnsKept /\ StagesKept
    BY <1>1, <1>2, <1>4 DEF ConnsKept, StagesKept
  <2>2. \A k \in 1..Len(duels') : SeatInv(k)'
    BY <1>1, <1>2, <1>3, <1>4 DEF ConnsInv, SeatInv
  <2>3. \A k \in 1..Len(conns) : conns'[k].open /\ conns[k].duel # 0
          => duels'[conns[k].duel].seat = "held" /\ duels'[conns[k].duel].conn = k
    BY <1>1, <1>2, <1>4 DEF ConnsInv, ConnInv
  <2> QED
    BY <1>2, <1>3, <1>4, <2>1, <2>2, <2>3 DEF RoomsFollow
<1>8. SessionInv(n)'
  <2>1. m \in Duels'
    BY <1>3, <1>4, LenProperties DEF Duels
  <2> QED
    BY <1>1, <1>5, <1>6, <2>1 DEF SessionInv, Open
<1>9. \A k \in 1..Len(conns') : ~(k > Len(conns))
  BY <1>1, <1>2
<1>10. PageTyped'
  BY <1>1, <1>5 DEF PageTyped, ConnsInv, TypeOK
<1> QED
  BY <1>5, <1>6, <1>7, <1>8, <1>9, <1>10, Alone

(* A seat nobody holds is taken on a new connection, and a lobby may end. *)
SeatOn(d, c, s) == [[d EXCEPT !.conn = c] EXCEPT !.seat = s]

LEMMA SeatOnEffect ==
  ASSUME NEW d \in Duel, NEW c \in Nat, NEW s, s = "held" \/ s = "grace" \/ s = "gone"
  PROVE  /\ SeatOn(d, c, s) \in Duel /\ SeatOn(d, c, s).conn = c /\ SeatOn(d, c, s).seat = s
         /\ SeatOn(d, c, s).stage = d.stage
BY DEF Duel, SeatOn

SeatMoved(m, s) == duels' = [duels EXCEPT ![m].conn = Opened, ![m].seat = s]
SeatPut(m, d)   == duels' = [duels EXCEPT ![m] = d]

LEMMA SeatMoves ==
  ASSUME ConnsInv, NEW m \in 1..Len(duels), NEW s, s = "held" \/ s = "grace" \/ s = "gone",
         SeatMoved(m, s)
  PROVE  \E d \in Duel : /\ SeatPut(m, d)
                         /\ d.conn = Len(conns) + 1 /\ d.seat = s /\ d.stage = duels[m].stage
<1>1. /\ duels[m] \in Duel /\ DOMAIN duels = 1..Len(duels) /\ Len(conns) \in Nat
  BY Rows DEF ConnsInv
<1>2. PICK r \in Duel, x \in Nat : r = duels[m] /\ x = Opened /\ x = Len(conns) + 1
  BY <1>1 DEF Opened
<1>3. /\ SeatOn(r, x, s) \in Duel /\ SeatOn(r, x, s).conn = x /\ SeatOn(r, x, s).seat = s
      /\ SeatOn(r, x, s).stage = r.stage
  BY SeatOnEffect
<1>4. duels' = [duels EXCEPT ![m] = SeatOn(r, x, s)]
  <2>1. duels' = [[duels EXCEPT ![m].conn = x] EXCEPT ![m].seat = s]
    BY <1>2 DEF SeatMoved
  <2> QED
    BY <1>1, <1>2, <2>1 DEF SeatOn
<1> QED
  BY <1>2, <1>3, <1>4 DEF SeatPut

SeatTaken(m, e, d, k) ==
  /\ m \in 1..Len(duels) /\ duels[m].seat # "held"
  /\ e \in Conn /\ e.duel = m
  /\ d \in Duel /\ d.conn = Len(conns) + 1 /\ d.seat # "reserved" /\ d.stage = duels[m].stage
  /\ IF e.open THEN d.seat = "held" ELSE d.seat # "held"
  /\ k \in 0..Len(conns) /\ (k # 0 => conns[k].duel = 0)
  /\ conns' = Append(Shut({k}), e)
  /\ SeatPut(m, d)

LEMMA RoomsSeat ==
  ASSUME ConnsInv, NEW m, NEW e, NEW d, NEW k, SeatTaken(m, e, d, k)
  PROVE  /\ RoomsFollow /\ Len(conns') = Len(conns) + 1 /\ conns'[Len(conns) + 1] = e
         /\ Len(duels') = Len(duels) /\ duels'[m] = d
         /\ \A c \in 1..Len(conns) : conns'[c].open <=> conns[c].open /\ c # k
         /\ \A i \in 1..Len(duels) : i # m => duels'[i] = duels[i]
<1>1. /\ conns \in Seq(Conn) /\ duels \in Seq(Duel) /\ DOMAIN conns = 1..Len(conns) /\ Duels = 1..Len(duels)
      /\ Len(conns) \in Nat /\ Len(duels) \in Nat
  BY Rows DEF ConnsInv, TypeOK
<1> DEFINE x == Len(conns) + 1
<1>2. /\ m \in 1..Len(duels) /\ duels[m].seat # "held"
      /\ e \in Conn /\ e.duel = m
      /\ d \in Duel /\ d.conn = x /\ d.stage = duels[m].stage
      /\ IF e.open THEN d.seat = "held" ELSE d.seat # "held"
      /\ k \in 0..Len(conns) /\ (k # 0 => conns[k].duel = 0)
  BY DEF SeatTaken
<1>3. PICK q \in Seq(Conn) :
        /\ conns' = Append(q, e) /\ Len(q) = Len(conns)
        /\ \A c \in 1..Len(conns) : /\ q[c].of = conns[c].of /\ q[c].duel = conns[c].duel
                                    /\ q[c].open <=> conns[c].open /\ c \notin {k}
  BY <1>1, ShutEffect DEF SeatTaken
<1>4. /\ conns' \in Seq(Conn) /\ Len(conns') = x /\ conns'[x] = e
      /\ \A c \in 1..Len(conns) : conns'[c] = q[c]
  BY <1>2, <1>3, AppendEffect
<1>5. /\ duels' \in Seq(Duel) /\ Len(duels') = Len(duels) /\ duels'[m] = d
      /\ \A i \in 1..Len(duels) : i # m => duels'[i] = duels[i]
  BY <1>1, <1>2, PutEffect DEF SeatTaken, SeatPut
<1>6. ConnsKept
  BY <1>1, <1>3, <1>4 DEF ConnsKept
<1>7. StagesKept
  BY <1>2, <1>5 DEF StagesKept
<1>8. ASSUME NEW i \in 1..Len(duels') PROVE SeatInv(i)'
  <2>1. DOMAIN conns' = 1..x
    BY <1>4, LenProperties
  <2>2. CASE i = m
    BY <1>1, <1>2, <1>4, <1>5, <2>1, <2>2 DEF SeatInv
  <2>3. CASE i # m
    <3>1. i \in 1..Len(duels) /\ duels'[i] = duels[i] /\ SeatInv(i)
      BY <1>1, <1>5, <2>3 DEF ConnsInv
    <3>2. SUFFICES ASSUME duels[i].seat = "held"
                   PROVE  /\ duels[i].conn \in DOMAIN conns' /\ conns'[duels[i].conn].open
                          /\ conns'[duels[i].conn].duel = i
      BY <3>1 DEF SeatInv
    <3>3. duels[i].conn \in 1..Len(conns) /\ conns[duels[i].conn].open /\ conns[duels[i].conn].duel = i /\ i # 0
      BY <1>1, <3>1, <3>2 DEF SeatInv
    <3>4. duels[i].conn # k
      BY <1>2, <3>3
    <3>5. PICK c \in 1..Len(conns) : c = duels[i].conn
      BY <3>3
    <3>6. conns'[c] = q[c] /\ q[c].open /\ q[c].duel = i /\ c \in 1..x
      BY <1>1, <1>3, <1>4, <3>3, <3>4, <3>5
    <3> QED
      BY <2>1, <3>5, <3>6
  <2> QED
    BY <2>2, <2>3
<1>9. ASSUME NEW c \in 1..Len(conns), conns'[c].open, conns[c].duel # 0
       PROVE  duels'[conns[c].duel].seat = "held" /\ duels'[conns[c].duel].conn = c
  <2>1. conns[c].open /\ ConnInv(c)
    BY <1>1, <1>3, <1>4, <1>9 DEF ConnsInv
  <2>2. /\ conns[c].duel \in 1..Len(duels) /\ duels[conns[c].duel].seat = "held"
        /\ duels[conns[c].duel].conn = c
    BY <1>1, <1>9, <2>1 DEF ConnInv
  <2> QED
    BY <1>2, <1>5, <2>2
<1>10. RoomsFollow
  <2>1. \A i \in 1..Len(duels') : SeatInv(i)'
    BY <1>8
  <2>2. \A c \in 1..Len(conns) : conns'[c].open /\ conns[c].duel # 0
          => duels'[conns[c].duel].seat = "held" /\ duels'[conns[c].duel].conn = c
    BY <1>9
  <2>3. duels' \in Seq(Duel) /\ Len(duels') >= Len(duels)
    BY <1>1, <1>5
  <2> QED
    BY <1>6, <1>7, <2>1, <2>2, <2>3, Zenon DEF RoomsFollow
<1> QED
  BY <1>3, <1>4, <1>5, <1>10

(* The seat is taken, but the answer is lost. *)
LEMMA SeatLostEffect ==
  ASSUME ConnsInv, NEW m \in 1..Len(duels), duels[m].seat # "held", SeatLost(m)
  PROVE  /\ RoomsFollow /\ Len(conns') = Len(conns) + 1 /\ ~conns'[Len(conns) + 1].open
         /\ \A c \in 1..Len(conns) : conns'[c].open <=> conns[c].open
         /\ \A k \in 1..Len(duels) : duels'[k].stage = duels[k].stage
<1>1. Len(conns) \in Nat
  BY Rows DEF ConnsInv
<1>2. Shut({0}) = conns
  BY <1>1, NothingShut
<1>3. PICK e \in Conn : e = [of |-> 0, duel |-> m, open |-> FALSE]
  <2>1. m \in Nat
    BY Rows DEF ConnsInv
  <2> QED
    BY <2>1 DEF Conn
<1>4. PICK d \in Duel : /\ SeatPut(m, d) /\ d.conn = Len(conns) + 1
                       /\ d.seat \in {"grace", "gone"} /\ d.stage = duels[m].stage
  <2>1. PICK s \in {"grace", "gone"} : s = IF duels[m].stage = "playing" THEN "grace" ELSE "gone"
    OBVIOUS
  <2>2. SeatMoved(m, s)
    BY <2>1 DEF SeatLost, SeatMoved
  <2> QED
    BY <2>2, SeatMoves
<1>5. /\ RoomsFollow /\ Len(conns') = Len(conns) + 1
      /\ conns'[Len(conns) + 1] = e /\ duels'[m] = d
      /\ \A c \in 1..Len(conns) : conns'[c].open <=> conns[c].open /\ c # 0
      /\ \A k \in 1..Len(duels) : k # m => duels'[k] = duels[k]
  <2>1. conns' = Append(Shut({0}), e)
    BY <1>2, <1>3 DEF SeatLost
  <2>2. e.duel = m /\ d.seat # "reserved" /\ IF e.open THEN d.seat = "held" ELSE d.seat # "held"
    BY <1>3, <1>4
  <2>3. SeatTaken(m, e, d, 0)
    BY <1>1, <1>2, <1>4, <2>1, <2>2 DEF SeatTaken
  <2> QED
    BY <2>3, RoomsSeat
<1> QED
  BY <1>1, <1>3, <1>4, <1>5

LEMMA ConnsSeatLost ==
  ASSUME ConnsInv, NEW m \in 1..Len(duels), duels[m].seat # "held", SeatLost(m), UNCHANGED client, PageTyped'
  PROVE  ConnsInv'
<1>1. Len(conns) \in Nat
  BY Rows DEF ConnsInv
<1>2. RoomsFollow /\ Len(conns') = Len(conns) + 1 /\ ~conns'[Len(conns) + 1].open
  BY SeatLostEffect
<1>3. ASSUME NEW c \in 1..Len(conns'), c > Len(conns)
      PROVE  ConnInv(c)'
  <2>1. c = Len(conns) + 1
    BY <1>1, <1>2, <1>3
  <2>2. ~conns'[c].open
    BY <1>2, <2>1
  <2> QED
    BY <2>2 DEF ConnInv
<1> QED
  BY <1>2, <1>3, NoSession

(* The session with its seat. *)
WithSeat(r, x) ==
  [[[[r EXCEPT !.call = "none"] EXCEPT !.match = x] EXCEPT !.token = x] EXCEPT !.lobby = 0]

LEMMA WithSeatEffect ==
  ASSUME NEW r \in Client, NEW x \in Nat
  PROVE  /\ WithSeat(r, x) \in Client /\ WithSeat(r, x).live = r.live /\ WithSeat(r, x).lobby = 0
         /\ WithSeat(r, x).match = x /\ WithSeat(r, x).token = x /\ WithSeat(r, x).over = r.over
         /\ WithSeat(r, x).call = "none" /\ WithSeat(r, x).duel = r.duel
BY DEF Client, Calls, WithSeat

LEMMA TakeSeatEffect ==
  ASSUME ConnsInv, NEW n \in 1..Len(client), NEW m \in 1..Len(duels), duels[m].seat # "held",
         TakeSeat(n, m), NEW l \in BOOLEAN, l <=> client[n].live, NEW x \in Nat, x = Len(conns) + 1
  PROVE  /\ RoomsFollow /\ Len(conns') = x
         /\ conns'[x].of = n /\ conns'[x].duel = m /\ (conns'[x].open <=> l)
         /\ \A c \in 1..Len(conns) : conns'[c].open <=> conns[c].open /\ c # client[n].lobby
         /\ Len(duels') = Len(duels) /\ duels'[m].conn = x /\ (l => duels'[m].seat = "held")
         /\ \A k \in 1..Len(duels) : duels'[k].stage = duels[k].stage
         /\ client' \in Seq(Client) /\ Len(client') = Len(client)
         /\ \A k \in 1..Len(client) : k # n => client'[k] = client[k]
         /\ client'[n].live = client[n].live /\ client'[n].over = client[n].over
         /\ client'[n].call = "none" /\ client'[n].duel = client[n].duel
         /\ IF l THEN client'[n].lobby = 0 /\ client'[n].match = x /\ client'[n].token = x
            ELSE /\ client'[n].lobby = client[n].lobby /\ client'[n].match = client[n].match
                 /\ client'[n].token = client[n].token
<1>1. /\ Len(conns) \in Nat /\ Len(client) \in Nat /\ client \in Seq(Client) /\ client[n] \in Client
      /\ DOMAIN conns = 1..Len(conns) /\ duels[m] \in Duel /\ m \in Nat /\ n \in Nat /\ SessionInv(n)
      /\ DOMAIN duels = 1..Len(duels) /\ Sessions = 1..Len(client)
  BY Rows DEF ConnsInv, TypeOK
<1>2. x = Opened
  BY DEF Opened
<1>3. PICK e \in Conn : e = [of |-> n, duel |-> m, open |-> client[n].live]
  BY <1>1 DEF Conn, Client
<1>4. PICK s \in {"held", "gone"} : s = IF l THEN "held" ELSE "gone"
  OBVIOUS
<1>5. PICK d \in Duel : /\ SeatPut(m, d)
                       /\ d.conn = Len(conns) + 1 /\ d.seat = s /\ d.stage = duels[m].stage
  <2>1. SeatMoved(m, s)
    BY <1>2, <1>4 DEF TakeSeat, SeatMoved
  <2> QED
    BY <2>1, SeatMoves
<1>6. /\ RoomsFollow /\ Len(conns') = x /\ conns'[x] = e /\ Len(duels') = Len(duels) /\ duels'[m] = d
      /\ \A c \in 1..Len(conns) : conns'[c].open <=> conns[c].open /\ c # client[n].lobby
      /\ \A k \in 1..Len(duels) : k # m => duels'[k] = duels[k]
  <2>1. conns' = Append(Shut({client[n].lobby}), e)
    BY <1>2, <1>3 DEF TakeSeat
  <2>2. e.duel = m /\ d.seat # "reserved" /\ IF e.open THEN d.seat = "held" ELSE d.seat # "held"
    BY <1>3, <1>4, <1>5
  <2>3. client[n].lobby \in 0..Len(conns) /\ (client[n].lobby # 0 => conns[client[n].lobby].duel = 0)
    BY <1>1 DEF SessionInv
  <2>4. SeatTaken(m, e, d, client[n].lobby)
    BY <1>2, <1>5, <2>1, <2>2, <2>3 DEF SeatTaken
  <2> QED
    BY <1>2, <2>4, RoomsSeat
<1>7. /\ client' \in Seq(Client) /\ Len(client') = Len(client)
      /\ \A k \in 1..Len(client) : k # n => client'[k] = client[k]
      /\ client'[n].live = client[n].live /\ client'[n].over = client[n].over
      /\ client'[n].call = "none" /\ client'[n].duel = client[n].duel
      /\ IF l THEN client'[n].lobby = 0 /\ client'[n].match = x /\ client'[n].token = x
         ELSE /\ client'[n].lobby = client[n].lobby /\ client'[n].match = client[n].match
              /\ client'[n].token = client[n].token
  <2>1. CASE ~l
    BY <1>1, <1>2, <2>1, AnsweredEffect DEF TakeSeat
  <2>2. CASE l
    <3>1. client' = [[[Answered(n) EXCEPT ![n].match = x] EXCEPT ![n].token = x] EXCEPT ![n].lobby = 0]
      BY <1>2, <2>2 DEF TakeSeat
    <3>2. client' = [client EXCEPT ![n] = WithSeat(client[n], x)]
      BY <1>1, <3>1 DEF Answered, WithSeat
    <3>3. PICK r \in Client : r = WithSeat(client[n], x)
      BY <1>1, WithSeatEffect
    <3>4. /\ r.live = client[n].live /\ r.over = client[n].over /\ r.call = "none" /\ r.duel = client[n].duel
          /\ r.lobby = 0 /\ r.match = x /\ r.token = x
      BY <1>1, <3>3, WithSeatEffect
    <3>5. client' = [client EXCEPT ![n] = r]
      BY <3>2, <3>3
    <3> QED
      BY <1>1, <2>2, <3>4, <3>5, PutEffect
  <2> QED
    BY <2>1, <2>2
<1>8. conns'[x].of = n /\ conns'[x].duel = m /\ (conns'[x].open <=> l)
  BY <1>3, <1>6
<1>9. /\ duels'[m].conn = x /\ (l => duels'[m].seat = "held")
      /\ \A k \in 1..Len(duels) : duels'[k].stage = duels[k].stage
  BY <1>2, <1>4, <1>5, <1>6
<1> QED
  BY <1>6, <1>7, <1>8, <1>9

LEMMA ConnsTakeSeat ==
  ASSUME ConnsInv, NEW n \in 1..Len(client), NEW m \in 1..Len(duels), duels[m].seat # "held",
         client[n].call = "match" \/ client[n].call = "reconnect", TakeSeat(n, m),
         UNCHANGED <<session, busy, finished, shown, keyed>>
  PROVE  ConnsInv'
<1>1. /\ Len(conns) \in Nat /\ SessionInv(n) /\ client[n] \in Client /\ m # 0
      /\ DOMAIN conns = 1..Len(conns) /\ Duels = 1..Len(duels)
  BY Rows DEF ConnsInv
<1>2. PICK l \in BOOLEAN, x \in Nat : (l <=> client[n].live) /\ x = Len(conns) + 1
  BY <1>1 DEF Client
<1>3. /\ RoomsFollow /\ Len(conns') = x
      /\ conns'[x].of = n /\ conns'[x].duel = m /\ (conns'[x].open <=> l)
      /\ \A c \in 1..Len(conns) : conns'[c].open <=> conns[c].open /\ c # client[n].lobby
      /\ Len(duels') = Len(duels) /\ duels'[m].conn = x /\ (l => duels'[m].seat = "held")
  BY <1>2, TakeSeatEffect
<1>4. /\ client' \in Seq(Client) /\ Len(client') = Len(client)
      /\ \A k \in 1..Len(client) : k # n => client'[k] = client[k]
      /\ client'[n].live = client[n].live /\ client'[n].over = client[n].over
      /\ client'[n].call = "none" /\ client'[n].duel = client[n].duel
      /\ IF l THEN client'[n].lobby = 0 /\ client'[n].match = x /\ client'[n].token = x
         ELSE /\ client'[n].lobby = client[n].lobby /\ client'[n].match = client[n].match
              /\ client'[n].token = client[n].token
  BY <1>2, TakeSeatEffect
<1>5. DOMAIN conns' = 1..x /\ Duels' = Duels
  BY <1>1, <1>3, LenProperties DEF RoomsFollow, ConnsKept, Duels
<1>6. ~client[n].over /\ (client[n].match # 0 => ~conns[client[n].match].open /\ client[n].match \in 1..Len(conns))
  BY <1>1 DEF SessionInv, Open
<1>7. SessionInv(n)'
  <2>1. CASE l
    <3>1. conns'[x].of = n /\ conns'[x].duel = m /\ m # 0 /\ x \in DOMAIN conns'
      BY <1>1, <1>2, <1>3, <1>5
    <3>2. /\ client'[n].lobby = 0 /\ client'[n].match = x /\ client'[n].token = x /\ client'[n].call = "none"
          /\ client'[n].live /\ ~client'[n].over
      BY <1>2, <1>4, <1>6, <2>1
    <3> QED
      BY <3>1, <3>2 DEF SessionInv
  <2>2. CASE ~l
    <3>1. client[n].lobby = 0 /\ client[n].match = 0
      BY <1>1, <1>2, <2>2 DEF SessionInv
    <3> QED
      BY <1>4, <1>6, <2>2, <3>1, <1>2 DEF SessionInv, Open
  <2> QED
    BY <2>1, <2>2
<1>8. /\ client'[n].lobby = client[n].lobby \/ client[n].lobby = 0 \/ ~conns'[client[n].lobby].open
      /\ client'[n].match = client[n].match \/ client[n].match = 0 \/ ~conns'[client[n].match].open
  <2>1. client[n].lobby = 0 \/ ~conns'[client[n].lobby].open
    BY <1>1, <1>3 DEF SessionInv
  <2> QED
    BY <1>3, <1>6, <2>1
<1>9. ASSUME NEW c \in 1..Len(conns'), c > Len(conns)
      PROVE  ConnInv(c)'
  <2>1. c = x
    BY <1>1, <1>2, <1>3, <1>9
  <2>2. n \in Sessions' /\ m \in Duels'
    BY <1>1, <1>5, <1>4 DEF Sessions, Duels
  <2> QED
    BY <1>1, <1>2, <1>3, <1>4, <2>1, <2>2 DEF ConnInv
<1>10. PageTyped'
  <2>1. saved' \in Nat
    <3>1. saved \in Nat /\ session \in 0..Len(client) /\ (session # 0 => client[session].token \in Nat)
      BY Rows DEF ConnsInv, TypeOK, Client
    <3>2. saved' \in {saved, x} \/ (session # 0 /\ saved' = client[session].token)
      BY <1>2 DEF TakeSeat, Remembered, Opened
    <3> QED
      BY <3>1, <3>2
  <2> QED
    BY <1>4, <2>1 DEF keyed, PageTyped, ConnsInv, TypeOK
<1>11. RoomsFollow
  BY <1>3
<1>12. /\ client' \in Seq(Client) /\ Len(client') = Len(client) /\ client'[n].live = client[n].live
       /\ \A k \in 1..Len(client) : k # n => client'[k] = client[k]
  BY <1>4
<1> QED
  BY <1>7, <1>8, <1>9, <1>10, <1>11, <1>12, Alone

(* The four answers that concern a seat. *)
LEMMA ConnsJoins ==
  ASSUME ConnsInv, NEW n \in 1..Len(client),
         JoinMatch(n) \/ JoinLost(n) \/ Reconnected(n) \/ ReconnectLost(n)
  PROVE  ConnsInv'
<1>1. SessionInv(n) /\ Duels = 1..Len(duels)
  BY Rows DEF ConnsInv
<1>2. CASE JoinMatch(n) \/ JoinLost(n)
  <2>1. PICK m \in 1..Len(duels) : m = client[n].duel
    BY <1>1, <1>2 DEF SessionInv, JoinMatch, JoinLost
  <2>2. duels[m].seat # "held" /\ client[n].call = "match"
    BY <1>2, <2>1 DEF JoinMatch, JoinLost
  <2>3. CASE JoinMatch(n)
    <3>1. TakeSeat(n, m) /\ UNCHANGED <<session, busy, finished, shown, keyed>>
      BY <2>1, <2>3 DEF JoinMatch
    <3> QED
      BY <2>2, <3>1, ConnsTakeSeat
  <2>4. CASE JoinLost(n)
    <3>1. SeatLost(m) /\ UNCHANGED <<client, page, keyed>>
      BY <2>1, <2>4 DEF JoinLost
    <3>2. PageTyped' /\ UNCHANGED client
      BY <3>1 DEF page, keyed, PageTyped, ConnsInv, TypeOK
    <3> QED
      BY <2>2, <3>1, <3>2, ConnsSeatLost
  <2> QED
    BY <1>2, <2>3, <2>4
<1>3. CASE Reconnected(n)
  <2>1. PICK m \in 1..Len(duels) : Reserved(n, m) /\ TakeSeat(n, m)
    BY <1>1, <1>3 DEF Reconnected
  <2>2. duels[m].seat # "held" /\ client[n].call = "reconnect" /\ UNCHANGED <<session, busy, finished, shown, keyed>>
    BY <1>3, <2>1 DEF Reconnected, Reserved
  <2> QED
    BY <2>1, <2>2, ConnsTakeSeat
<1>4. CASE ReconnectLost(n)
  <2>1. PICK m \in 1..Len(duels) : Reserved(n, m) /\ SeatLost(m)
    BY <1>1, <1>4 DEF ReconnectLost
  <2>2. duels[m].seat # "held" /\ UNCHANGED <<client, page, keyed>>
    BY <1>4, <2>1 DEF ReconnectLost, Reserved
  <2>3. PageTyped' /\ UNCHANGED client
    BY <2>2 DEF page, keyed, PageTyped, ConnsInv, TypeOK
  <2> QED
    BY <2>1, <2>2, <2>3, ConnsSeatLost
<1> QED
  BY <1>2, <1>3, <1>4

(* A snapshot is rendered. *)
WithOver(r, b) == [r EXCEPT !.over = @ \/ b]

LEMMA WithOverEffect ==
  ASSUME NEW r \in Client, NEW b \in BOOLEAN
  PROVE  /\ WithOver(r, b) \in Client /\ WithOver(r, b).live = r.live /\ WithOver(r, b).lobby = r.lobby
         /\ WithOver(r, b).match = r.match /\ WithOver(r, b).token = r.token
         /\ WithOver(r, b).over <=> (r.over \/ b)
         /\ WithOver(r, b).call = r.call /\ WithOver(r, b).duel = r.duel
BY DEF Client, WithOver

LEMMA RenderEffect ==
  ASSUME ConnsInv, NEW n \in 1..Len(client), NEW end \in BOOLEAN, Render(n, end)
  PROVE  /\ client' \in Seq(Client) /\ Len(client') = Len(client)
         /\ \A k \in 1..Len(client) : k # n => client'[k] = client[k]
         /\ client'[n].live = client[n].live /\ client'[n].lobby = client[n].lobby
         /\ client'[n].match = client[n].match /\ client'[n].token = client[n].token
         /\ client'[n].over <=> (client[n].over \/ end)
         /\ client'[n].call = client[n].call /\ client'[n].duel = client[n].duel
<1>1. client \in Seq(Client) /\ client[n] \in Client
  BY Rows DEF ConnsInv, TypeOK
<1>2. client' = [client EXCEPT ![n] = WithOver(client[n], end)]
  BY <1>1 DEF Render, WithOver
<1>3. PICK r \in Client : r = WithOver(client[n], end)
  BY <1>1, WithOverEffect
<1>4. /\ r.live = client[n].live /\ r.lobby = client[n].lobby /\ r.match = client[n].match
      /\ r.token = client[n].token
      /\ r.over <=> (client[n].over \/ end)
      /\ r.call = client[n].call /\ r.duel = client[n].duel
  BY <1>1, <1>3, WithOverEffect
<1>5. client' = [client EXCEPT ![n] = r]
  BY <1>2, <1>3
<1>6. /\ client' \in Seq(Client) /\ Len(client') = Len(client) /\ client'[n] = r
      /\ \A k \in 1..Len(client) : k # n => client'[k] = client[k]
  BY <1>1, <1>5, PutEffect
<1> QED
  BY <1>4, <1>6

LEMMA ConnsRender ==
  ASSUME ConnsInv, NEW n \in 1..Len(client), NEW end \in BOOLEAN, Render(n, end),
         RoomsFollow, UNCHANGED <<conns, keyed>>, Open(client[n].match),
         end => duels'[conns[client[n].match].duel].stage = "published"
  PROVE  ConnsInv'
<1>1. /\ SessionInv(n) /\ Len(conns) \in Nat /\ DOMAIN conns = 1..Len(conns) /\ Duels = 1..Len(duels)
      /\ DOMAIN conns' = 1..Len(conns')
  BY Rows DEF ConnsInv
<1>2. client[n].call = "none" /\ client[n].match \in 1..Len(conns) /\ client[n].match # 0
  <2>1. client[n].call \in Calls
    BY Rows DEF ConnsInv, Client
  <2> QED
    BY <1>1, <2>1 DEF SessionInv, Open, Calls
<1>3. ConnInv(client[n].match) /\ conns[client[n].match].open /\ conns[client[n].match].duel # 0
  BY <1>1, <1>2 DEF ConnsInv, Open, SessionInv
<1>4. conns[client[n].match].duel \in 1..Len(duels)
  BY <1>1, <1>2, <1>3 DEF ConnInv
<1>5. client'[n].over => duels'[conns[client[n].match].duel].stage = "published"
  <2>1. CASE end
    BY <2>1
  <2>2. CASE client[n].over
    <3>1. duels[conns[client[n].match].duel].stage = "published"
      BY <1>1, <2>2 DEF SessionInv
    <3> QED
      BY <1>2, <1>3, <1>4, <3>1 DEF RoomsFollow, StagesKept
  <2> QED
    BY <2>1, <2>2, RenderEffect
<1>6. SessionInv(n)'
  <2>1. Duels \subseteq Duels'
    BY DuelsGrow DEF ConnsInv
  <2> QED
    BY <1>1, <1>2, <1>5, <2>1, RenderEffect DEF SessionInv, Open
<1>7. PageTyped'
  <2>1. saved' \in Nat
    <3>1. saved \in Nat /\ session \in 0..Len(client) /\ (session # 0 => client[session].token \in Nat)
          /\ client[n].token \in Nat
      BY Rows DEF ConnsInv, TypeOK, Client
    <3>2. saved' \in {0, saved, client[n].token} \/ (session # 0 /\ saved' = client[session].token)
      BY DEF Render, Remembered
    <3> QED
      BY <3>1, <3>2
  <2>2. {finished', shown'} \subseteq BOOLEAN /\ UNCHANGED <<session, busy, hosts, restoring>>
    BY DEF Render, keyed
  <2> QED
    BY <2>1, <2>2, RenderEffect DEF PageTyped, ConnsInv, TypeOK
<1>8. \A c \in 1..Len(conns') : ~(c > Len(conns))
  BY <1>1
<1> QED
  BY <1>6, <1>7, <1>8, RenderEffect, Alone

LEMMA ConnsSnapshot ==
  ASSUME ConnsInv, NEW n \in 1..Len(client), Snapshot(n)
  PROVE  ConnsInv'
<1>1. PICK end \in BOOLEAN : end <=> duels[conns[client[n].match].duel].stage = "published"
  OBVIOUS
<1>2. /\ Render(n, end) /\ Open(client[n].match) /\ UNCHANGED <<conns, duels, keyed>>
  BY <1>1 DEF Snapshot, Listens, outside, Render
<1>3. end => duels'[conns[client[n].match].duel].stage = "published"
  BY <1>1, <1>2
<1> QED
  BY <1>2, <1>3, RoomsRest, ConnsRender

(* Publish: the room tells the connection that holds the seat, which is    *)
(* the current match of its session.                                       *)
LEMMA SeatOwner ==
  ASSUME ConnsInv, NEW m \in 1..Len(duels), duels[m].seat = "held"
  PROVE  LET c == duels[m].conn
             n == conns[c].of
         IN  /\ c \in 1..Len(conns) /\ conns[c].open /\ conns[c].duel = m /\ m # 0
             /\ n \in 1..Len(client) /\ client[n].live /\ client[n].match = c
<1>1. SeatInv(m) /\ DOMAIN conns = 1..Len(conns) /\ Sessions = 1..Len(client) /\ m # 0
  BY Rows DEF ConnsInv
<1>2. duels[m].conn \in 1..Len(conns) /\ conns[duels[m].conn].open /\ conns[duels[m].conn].duel = m
  BY <1>1 DEF SeatInv
<1>3. ConnInv(duels[m].conn)
  BY <1>1, <1>2 DEF ConnsInv
<1> QED
  BY <1>1, <1>2, <1>3 DEF ConnInv

(* A duel moves on. *)
WithStage(d, s) == [d EXCEPT !.stage = s]

LEMMA WithStageEffect ==
  ASSUME NEW d \in Duel, NEW s, s = "over" \/ s = "published"
  PROVE  /\ WithStage(d, s) \in Duel /\ WithStage(d, s).seat = d.seat
         /\ WithStage(d, s).conn = d.conn /\ WithStage(d, s).stage = s
BY DEF Duel, WithStage

LEMMA RoomsStage ==
  ASSUME ConnsInv, NEW m \in 1..Len(duels), UNCHANGED conns,
         Stage(m, "playing", "over") \/ Stage(m, "over", "published")
  PROVE  /\ RoomsFollow /\ Len(duels') = Len(duels)
         /\ duels'[m].seat = duels[m].seat /\ duels'[m].conn = duels[m].conn
         /\ duels'[m].stage = IF duels[m].stage = "playing" THEN "over" ELSE "published"
         /\ \A k \in 1..Len(duels) : k # m => duels'[k] = duels[k]
<1>1. duels \in Seq(Duel) /\ duels[m] \in Duel /\ DOMAIN duels = 1..Len(duels)
  BY Rows DEF ConnsInv, TypeOK
<1>2. PICK s : s = IF duels[m].stage = "playing" THEN "over" ELSE "published"
  OBVIOUS
<1>3. duels' = [duels EXCEPT ![m] = WithStage(duels[m], s)] /\ duels[m].stage # "published"
  BY <1>1, <1>2 DEF Stage, WithStage
<1>4. PICK d \in Duel : /\ d = WithStage(duels[m], s) /\ d.seat = duels[m].seat
                        /\ d.conn = duels[m].conn /\ d.stage = s
  BY <1>1, <1>2, WithStageEffect
<1>5. duels' = [duels EXCEPT ![m] = d]
  BY <1>3, <1>4
<1>6. RoomsFollow /\ Len(duels') = Len(duels)
  BY <1>3, <1>4, <1>5, RoomsAdvance
<1>7. duels'[m] = d /\ \A k \in 1..Len(duels) : k # m => duels'[k] = duels[k]
  BY <1>1, <1>5, PutEffect
<1> QED
  BY <1>2, <1>4, <1>6, <1>7

LEMMA ConnsPublish ==
  ASSUME ConnsInv, NEW m \in 1..Len(duels), Publish(m)
  PROVE  ConnsInv'
<1>1. /\ UNCHANGED <<conns, keyed>> /\ Stage(m, "over", "published") /\ duels[m].stage = "over"
      /\ Len(conns) \in Nat
  BY Rows DEF Publish, Stage, ConnsInv
<1>2. RoomsFollow /\ duels'[m].stage = "published"
  BY <1>1, RoomsStage
<1>3. CASE duels[m].seat = "held"
  <2>1. PICK n \in 1..Len(client) : /\ n = conns[duels[m].conn].of /\ client[n].match = duels[m].conn
                                    /\ Open(client[n].match) /\ conns[client[n].match].duel = m
    BY <1>3, SeatOwner DEF Open
  <2>2. Render(n, TRUE)
    BY <1>3, <2>1 DEF Publish
  <2> QED
    BY <1>1, <1>2, <2>1, <2>2, ConnsRender
<1>4. CASE duels[m].seat # "held"
  <2>1. UNCHANGED client /\ PageTyped'
    BY <1>1, <1>4 DEF Publish, page, keyed, PageTyped, ConnsInv, TypeOK
  <2>2. \A c \in 1..Len(conns') : ~(c > Len(conns))
    BY <1>1
  <2> QED
    BY <1>2, <2>1, <2>2, NoSession
<1> QED
  BY <1>3, <1>4

LEMMA ConnsEndDuel ==
  ASSUME ConnsInv, NEW m \in 1..Len(duels), EndDuel(m)
  PROVE  ConnsInv'
<1>1. UNCHANGED <<client, conns>> /\ Stage(m, "playing", "over") /\ PageTyped' /\ Len(conns) \in Nat
  BY Rows DEF EndDuel, page, keyed, PageTyped, ConnsInv, TypeOK
<1>2. \A c \in 1..Len(conns') : ~(c > Len(conns))
  BY <1>1
<1> QED
  BY <1>1, <1>2, RoomsStage, NoSession

(* A seat is given up. *)
GoneSeat(d) == [d EXCEPT !.seat = "gone"]

LEMMA GoneSeatEffect ==
  ASSUME NEW d \in Duel
  PROVE  /\ GoneSeat(d) \in Duel /\ GoneSeat(d).seat = "gone" /\ GoneSeat(d).conn = d.conn
         /\ GoneSeat(d).stage = d.stage
BY DEF Duel, GoneSeat

LEMMA ConnsGraceEnds ==
  ASSUME ConnsInv, NEW m \in 1..Len(duels), GraceEnds(m)
  PROVE  ConnsInv'
<1>1. UNCHANGED <<client, conns>> /\ PageTyped' /\ Len(conns) \in Nat /\ duels[m].seat = "grace"
  BY Rows DEF GraceEnds, page, keyed, PageTyped, ConnsInv, TypeOK
<1>2. \A c \in 1..Len(conns') : ~(c > Len(conns))
  BY <1>1
<1>3. duels[m] \in Duel /\ DOMAIN duels = 1..Len(duels)
  BY Rows DEF ConnsInv
<1>4. duels' = [duels EXCEPT ![m] = GoneSeat(duels[m])]
  BY <1>3 DEF GraceEnds, GoneSeat
<1>5. PICK d \in Duel : d = GoneSeat(duels[m]) /\ d.seat = "gone" /\ d.conn = duels[m].conn /\ d.stage = duels[m].stage
  BY <1>3, GoneSeatEffect
<1>6. duels' = [duels EXCEPT ![m] = d]
  BY <1>4, <1>5
<1>7. RoomsFollow
  BY <1>1, <1>5, <1>6, RoomsAdvance
<1> QED
  BY <1>1, <1>2, <1>7, NoSession

(* The session that comes back to its duel. *)
Reconnecting(r) == [r EXCEPT !.call = "reconnect"]

LEMMA ReconnectingEffect ==
  ASSUME NEW r \in Client
  PROVE  /\ Reconnecting(r) \in Client /\ Reconnecting(r).call = "reconnect"
         /\ Reconnecting(r).live = r.live /\ Reconnecting(r).lobby = r.lobby
         /\ Reconnecting(r).match = r.match /\ Reconnecting(r).token = r.token
         /\ Reconnecting(r).over = r.over /\ Reconnecting(r).duel = r.duel
BY DEF Client, Calls, Reconnecting

(* The connection c of the match of session n has ended: it reconnects     *)
(* unless the duel is over for it.                                         *)
LEMMA ConnsMatchEnds ==
  ASSUME ConnsInv, NEW n \in 1..Len(client), Open(client[n].match), RoomsFollow, PageTyped',
         Len(conns') = Len(conns), ~conns'[client[n].match].open,
         client' = IF client[n].over THEN client ELSE [client EXCEPT ![n].call = "reconnect"]
  PROVE  ConnsInv'
<1>1. /\ client \in Seq(Client) /\ client[n] \in Client /\ Len(conns) \in Nat /\ SessionInv(n)
      /\ DOMAIN conns = 1..Len(conns) /\ DOMAIN conns' = 1..Len(conns')
  BY Rows, LenProperties DEF ConnsInv, TypeOK, RoomsFollow, ConnsKept
<1>2. \A c \in 1..Len(conns') : ~(c > Len(conns))
  BY <1>1
<1>3. CASE client[n].over
  BY <1>2, <1>3, NoSession
<1>4. CASE ~client[n].over
  <2>1. PICK r \in Client : r = Reconnecting(client[n])
    BY <1>1, ReconnectingEffect
  <2>2. client' = [client EXCEPT ![n] = r]
    BY <1>1, <1>4, <2>1 DEF Reconnecting
  <2>3. /\ client' \in Seq(Client) /\ Len(client') = Len(client) /\ client'[n] = r
        /\ \A k \in 1..Len(client) : k # n => client'[k] = client[k]
    BY <1>1, <2>2, PutEffect
  <2>4. /\ client'[n].live = client[n].live /\ client'[n].lobby = client[n].lobby
        /\ client'[n].match = client[n].match /\ client'[n].token = client[n].token
        /\ client'[n].over = client[n].over /\ client'[n].call = "reconnect"
        /\ client'[n].duel = client[n].duel
    BY <1>1, <2>1, <2>3, ReconnectingEffect
  <2>5. client[n].match # 0 /\ client[n].match \in 1..Len(conns) /\ client[n].lobby = 0
    BY <1>1 DEF SessionInv, Open
  <2>6. conns'[client[n].match].of = n /\ conns'[client[n].match].duel # 0
    BY <1>1, <2>5 DEF SessionInv, RoomsFollow, ConnsKept
  <2>7. SessionInv(n)'
    BY <1>1, <1>4, <2>4, <2>5, <2>6 DEF SessionInv, Open
  <2> QED
    BY <1>2, <2>3, <2>4, <2>7, Alone
<1> QED
  BY <1>3, <1>4

LEMMA ConnsMatchDrop ==
  ASSUME ConnsInv, NEW n \in 1..Len(client), MatchDrop(n)
  PROVE  ConnsInv'
<1>1. /\ Open(client[n].match) /\ conns' = Shut({client[n].match}) /\ duels' = Vacate({client[n].match}, "grace")
      /\ client' = IF client[n].over THEN client ELSE [client EXCEPT ![n].call = "reconnect"]
      /\ UNCHANGED <<page, keyed>>
  BY DEF MatchDrop, Listens
<1>2. client[n].match \in 1..Len(conns)
  BY <1>1, Rows DEF ConnsInv, SessionInv, Open
<1>3. /\ RoomsFollow /\ Len(conns') = Len(conns)
      /\ \A c \in 1..Len(conns) : conns'[c].open <=> conns[c].open /\ c \notin {client[n].match}
  BY <1>1, RoomsVacated
<1>4. Len(client') = Len(client)
  BY <1>1, CallSet DEF ConnsInv, TypeOK, Calls
<1>5. PageTyped'
  BY <1>1, <1>4 DEF page, keyed, PageTyped, ConnsInv, TypeOK
<1>6. ~conns'[client[n].match].open
  BY <1>2, <1>3
<1> QED
  BY <1>1, <1>3, <1>5, <1>6, ConnsMatchEnds

(* The room closes. *)
Closed(d) == [[d EXCEPT !.stage = "closed"] EXCEPT !.seat = "gone"]

LEMMA ClosedEffect ==
  ASSUME NEW d \in Duel
  PROVE  /\ Closed(d) \in Duel /\ Closed(d).seat = "gone" /\ Closed(d).conn = d.conn
         /\ Closed(d).stage = "closed"
BY DEF Duel, Closed

LEMMA ConnsCloseRoom ==
  ASSUME ConnsInv, NEW m \in 1..Len(duels), CloseRoom(m)
  PROVE  ConnsInv'
<1>1. /\ UNCHANGED <<page, keyed>> /\ duels[m].stage = "published"
      /\ conns \in Seq(Conn) /\ duels \in Seq(Duel) /\ DOMAIN conns = 1..Len(conns) /\ Duels = 1..Len(duels)
      /\ Len(conns) \in Nat /\ Len(duels) \in Nat /\ duels[m] \in Duel /\ DOMAIN duels = 1..Len(duels)
  BY Rows DEF ConnsInv, TypeOK, CloseRoom
<1>2. duels' = [duels EXCEPT ![m] = Closed(duels[m])]
  <2>1. duels' = [[duels EXCEPT ![m].stage = "closed"] EXCEPT ![m].seat = "gone"]
    BY DEF CloseRoom
  <2> QED
    BY <1>1, <2>1 DEF Closed
<1>3. PICK d \in Duel : d = Closed(duels[m]) /\ d.seat = "gone" /\ d.conn = duels[m].conn /\ d.stage = "closed"
  BY <1>1, ClosedEffect
<1>4. duels' = [duels EXCEPT ![m] = d]
  BY <1>2, <1>3
<1>5. /\ duels' \in Seq(Duel) /\ Len(duels') = Len(duels) /\ duels'[m] = d
      /\ \A k \in 1..Len(duels) : k # m => duels'[k] = duels[k]
  BY <1>1, <1>4, PutEffect
<1>6. CASE duels[m].seat = "held"
  <2>1. PICK c \in 1..Len(conns), n \in 1..Len(client) :
          c = duels[m].conn /\ n = conns[c].of /\ client[n].match = c /\ Open(c) /\ conns[c].duel = m
    BY <1>6, SeatOwner DEF Open
  <2>2. /\ conns' = Shut({duels[m].conn})
        /\ client' = IF client[n].over THEN client ELSE [client EXCEPT ![n].call = "reconnect"]
    BY <1>6, <2>1 DEF CloseRoom
  <2>3. /\ conns' \in Seq(Conn) /\ Len(conns') = Len(conns)
        /\ \A k \in 1..Len(conns) :
             /\ conns'[k].of = conns[k].of /\ conns'[k].duel = conns[k].duel
             /\ conns'[k].open <=> conns[k].open /\ k # c
    <3>1. PICK cs : cs = {duels[m].conn}
      OBVIOUS
    <3>2. /\ conns' \in Seq(Conn) /\ Len(conns') = Len(conns)
          /\ \A k \in 1..Len(conns) :
               /\ conns'[k].of = conns[k].of /\ conns'[k].duel = conns[k].duel
               /\ conns'[k].open <=> conns[k].open /\ k \notin cs
      BY <1>1, <2>2, <3>1, ShutEffect
    <3> QED
      BY <2>1, <3>1, <3>2
  <2>4. ASSUME NEW k \in 1..Len(conns), conns'[k].open, conns[k].duel # 0
        PROVE  /\ conns[k].duel \in 1..Len(duels) /\ conns[k].duel # m
               /\ duels[conns[k].duel].seat = "held" /\ duels[conns[k].duel].conn = k
    <3>1. conns[k].open /\ k # c /\ ConnInv(k)
      BY <1>1, <2>3, <2>4 DEF ConnsInv
    <3> QED
      BY <1>1, <2>1, <2>4, <3>1 DEF ConnInv
  <2>5. ConnsKept
    BY <1>1, <2>3 DEF ConnsKept
  <2>6. StagesKept
    <3>1. \A k \in 1..Len(conns) : conns[k].duel = m => ~conns'[k].open
      BY <2>4
    <3> QED
      BY <1>5, <3>1 DEF StagesKept
  <2>7. ASSUME NEW i \in 1..Len(duels'), duels'[i].seat = "held"
        PROVE  duels'[i].conn \in DOMAIN conns' /\ conns'[duels'[i].conn].open /\ conns'[duels'[i].conn].duel = i
    <3>1. i # m /\ duels'[i] = duels[i] /\ i \in 1..Len(duels)
      BY <1>3, <1>5, <2>7
    <3>2. SeatInv(i) /\ duels[i].seat = "held"
      BY <1>1, <2>7, <3>1 DEF ConnsInv
    <3>3. PICK k \in 1..Len(conns) : k = duels[i].conn /\ conns[k].open /\ conns[k].duel = i
      BY <1>1, <3>2 DEF SeatInv
    <3>4. k # c
      BY <2>1, <3>1, <3>3
    <3>5. conns'[k].open /\ conns'[k].duel = i /\ k \in DOMAIN conns'
      BY <1>1, <2>3, <3>3, <3>4, LenProperties
    <3> QED
      BY <3>1, <3>3, <3>5
  <2>8. \A i \in 1..Len(duels') : SeatInv(i)'
    BY <2>7 DEF SeatInv
  <2>9. RoomsFollow
    <3>1. \A k \in 1..Len(conns) : conns'[k].open /\ conns[k].duel # 0
            => duels'[conns[k].duel].seat = "held" /\ duels'[conns[k].duel].conn = k
      BY <1>5, <2>4
    <3>2. Len(duels') >= Len(duels)
      BY <1>1, <1>5
    <3> QED
      BY <1>5, <2>5, <2>6, <2>8, <3>1, <3>2, Zenon DEF RoomsFollow
  <2>10. Len(client') = Len(client)
    BY <2>2, CallSet DEF ConnsInv, TypeOK, Calls
  <2>11. PageTyped'
    BY <1>1, <2>10 DEF page, keyed, PageTyped, ConnsInv, TypeOK
  <2>12. ~conns'[client[n].match].open
    BY <2>1, <2>3
  <2> QED
    BY <2>1, <2>2, <2>3, <2>9, <2>11, <2>12, ConnsMatchEnds
<1>7. CASE duels[m].seat # "held"
  <2>1. UNCHANGED <<client, conns>>
    BY <1>7 DEF CloseRoom
  <2>2. RoomsFollow
    BY <1>3, <1>4, <1>7, <2>1, RoomsAdvance
  <2>3. PageTyped'
    BY <1>1, <2>1 DEF page, keyed, PageTyped, ConnsInv, TypeOK
  <2>4. \A c \in 1..Len(conns') : ~(c > Len(conns))
    BY <1>1, <2>1
  <2> QED
    BY <2>1, <2>2, <2>3, <2>4, NoSession
<1> QED
  BY <1>6, <1>7

(* The shell's messages, and what restoreMatch does with the saved token.  *)
LEMMA ConnsHostSession ==
  ASSUME ConnsInv, HostSession
  PROVE  ConnsInv'
<1>1. UNCHANGED <<client, conns, duels>> /\ PageTyped' /\ Len(conns) \in Nat
  <2>1. UNCHANGED <<client, conns, duels, session, busy, finished, shown, saved>>
    BY DEF HostSession, outside, page
  <2>2. hosts' \in Nat /\ restoring' \in Nat
    BY DEF HostSession, ConnsInv, TypeOK
  <2> QED
    BY <2>1, <2>2, Rows DEF PageTyped, ConnsInv, TypeOK
<1>2. \A c \in 1..Len(conns') : ~(c > Len(conns))
  BY <1>1
<1> QED
  BY <1>1, <1>2, RoomsRest, NoSession

LEMMA ConnsRestore ==
  ASSUME ConnsInv, Restore
  PROVE  ConnsInv'
<1>1. /\ UNCHANGED <<conns, duels, finished, shown, hosts>> /\ restoring' \in Nat /\ Len(conns) \in Nat
      /\ Len(client) \in Nat /\ client \in Seq(Client) /\ saved \in Nat
  BY Rows DEF Restore, outside, ConnsInv, TypeOK
<1>2. RoomsFollow /\ \A c \in 1..Len(conns') : ~(c > Len(conns))
  BY <1>1, RoomsRest
<1>3. CASE UNCHANGED <<client, session, busy>> /\ saved' \in {0, saved}
  <2>1. PageTyped'
    BY <1>1, <1>3 DEF PageTyped, ConnsInv, TypeOK
  <2> QED
    BY <1>2, <1>3, <2>1, NoSession
<1>4. CASE /\ client' = Append(client, NewSession("reconnect", saved))
           /\ session' = Len(client') /\ busy' = TRUE /\ UNCHANGED saved
  <2>1. PICK e \in Client : e = NewSession("reconnect", saved)
    BY <1>1 DEF NewSession, Client, Calls
  <2>2. PICK k \in Nat : k = Len(client) + 1
    BY <1>1
  <2>3. /\ client' \in Seq(Client) /\ Len(client') = k /\ client'[k] = e
        /\ \A i \in 1..Len(client) : client'[i] = client[i]
    BY <1>1, <1>4, <2>1, <2>2, AppendEffect
  <2>4. SessionInv(k)'
    <3>1. PICK t \in Nat : t = saved
      BY <1>1
    <3>2. client'[k] = NewSession("reconnect", t)
      BY <2>1, <2>3, <3>1
    <3> QED
      BY <3>2, NewSessionInv
  <2>5. PageTyped'
    BY <1>1, <1>4, <2>2, <2>3 DEF PageTyped, ConnsInv, TypeOK
  <2>6. \A i \in 1..Len(client') : (i \in 1..Len(client) /\ client'[i] = client[i]) \/ SessionInv(i)'
    <3> SUFFICES ASSUME NEW i \in 1..Len(client')
                 PROVE  (i \in 1..Len(client) /\ client'[i] = client[i]) \/ SessionInv(i)'
      OBVIOUS
    <3>1. i \in 1..Len(client) \/ i = k
      BY <1>1, <2>2, <2>3
    <3> QED
      BY <2>3, <2>4, <3>1
  <2>7. \A c \in 1..Len(conns) : conns'[c].open =>
          client'[conns[c].of].live /\ client'[conns[c].of] = client[conns[c].of]
    BY <1>1, <2>3, Rows DEF ConnsInv, ConnInv
  <2>8. Len(client') >= Len(client)
    BY <1>1, <2>2, <2>3
  <2> QED
    BY <1>2, <2>3, <2>5, <2>6, <2>7, <2>8, ConnsStep
<1> QED
  BY <1>3, <1>4 DEF Restore

(* The page is loaded again: every connection is gone. *)
LEMMA ConnsReload ==
  ASSUME ConnsInv, Reload
  PROVE  ConnsInv'
<1>1. PICK all : all = DOMAIN conns /\ conns' = Shut(all) /\ duels' = Vacate(all, "grace")
  BY DEF Reload
<1>2. /\ RoomsFollow /\ Len(conns') = Len(conns) /\ DOMAIN conns = 1..Len(conns) /\ Len(conns) \in Nat
      /\ \A c \in 1..Len(conns) : conns'[c].open <=> conns[c].open /\ c \notin all
  BY <1>1, RoomsVacated, Rows DEF ConnsInv
<1> DEFINE r == [NewSession("none", 0) EXCEPT !.live = FALSE]
<1>3. /\ r \in Client /\ ~r.live /\ r.lobby = 0 /\ r.match = 0 /\ r.token = 0 /\ ~r.over /\ r.call = "none"
  BY DEF NewSession, Client, Calls
<1>4. client' = [n \in 1..Len(client) |-> r] /\ Len(client) \in Nat
  BY Rows DEF Reload, ConnsInv
<1> HIDE DEF r
<1>5. client' \in Seq(Client) /\ Len(client') = Len(client) /\ \A n \in 1..Len(client) : client'[n] = r
  BY <1>3, <1>4, SeqDef, LenProperties
<1>6. \A n \in 1..Len(client') : SessionInv(n)'
  BY <1>3, <1>5 DEF SessionInv, Open
<1>7. PageTyped'
  <2>1. /\ session' = 0 /\ UNCHANGED saved /\ hosts' \in Nat /\ restoring' \in Nat
        /\ {busy', finished', shown'} \subseteq BOOLEAN
    BY DEF Reload
  <2> QED
    BY <1>4, <1>5, <2>1 DEF PageTyped, ConnsInv, TypeOK
<1>8. \A c \in 1..Len(conns) : ~conns'[c].open
  BY <1>1, <1>2
<1>9. \A c \in 1..Len(conns') : ~(c > Len(conns))
  BY <1>2
<1> QED
  BY <1>2, <1>4, <1>5, <1>6, <1>7, <1>8, <1>9, ConnsStep

(* Every step keeps the connections, the seats and their sessions in       *)
(* order, whatever calls fail late.                                        *)
LEMMA ConnsNext ==
  ASSUME ConnsInv, [Next]_vars
  PROVE  ConnsInv'
<1>1. Sessions = 1..Len(client) /\ Duels = 1..Len(duels)
  BY Rows DEF ConnsInv
<1>2. CASE UNCHANGED vars
  <2>1. /\ UNCHANGED <<client, conns, duels>> /\ Len(conns) \in Nat
        /\ UNCHANGED <<session, busy, finished, shown, saved, hosts, restoring>>
    BY <1>2, Rows DEF vars, outside, page, keyed, ConnsInv
  <2>2. PageTyped'
    BY <2>1 DEF PageTyped, ConnsInv, TypeOK
  <2>3. \A c \in 1..Len(conns') : ~(c > Len(conns))
    BY <2>1
  <2> QED
    BY <2>1, <2>2, <2>3, RoomsRest, NoSession
<1>3. ASSUME NEW n \in 1..Len(client), SessionStep(n)
      PROVE  ConnsInv'
  BY <1>3, ConnsAcceptLobby, ConnsLobbyFails, ConnsLobbyDrop, ConnsMatchFound, ConnsJoins, ConnsJoinRefused,
     ConnsReconnectExpired, ConnsSnapshot, ConnsMatchDrop
     DEF SessionStep
<1>4. ASSUME NEW m \in 1..Len(duels), RoomStep(m)
      PROVE  ConnsInv'
  BY <1>4, ConnsEndDuel, ConnsPublish, ConnsCloseRoom, ConnsGraceEnds DEF RoomStep
<1> QED
  BY <1>1, <1>2, <1>3, <1>4, ConnsStart, ConnsCancel, ConnsHostSession, ConnsRestore, ConnsReload DEF Next

LEMMA ConnsBegin ==
  ASSUME Init
  PROVE  ConnsInv
<1>1. /\ client = <<>> /\ conns = <<>> /\ duels = <<>> /\ Len(client) = 0 /\ Len(conns) = 0 /\ Len(duels) = 0
      /\ client \in Seq(Client) /\ conns \in Seq(Conn) /\ duels \in Seq(Duel)
  BY EmptySeq DEF Init
<1>2. DOMAIN client = {} /\ DOMAIN conns = {} /\ DOMAIN duels = {}
  BY <1>1
<1>3. TypeOK
  <2>1. {busy, finished, shown} \subseteq BOOLEAN
    BY DEF Init
  <2>2. session = 0 /\ saved = 0 /\ hosts = 0 /\ restoring = 0
    BY DEF Init
  <2> QED
    BY <1>1, <2>1, <2>2 DEF TypeOK
<1>4. Sessions = {} /\ Duels = {}
  BY <1>1, <1>2 DEF Sessions, Duels
<1> QED
  BY <1>2, <1>3, <1>4 DEF ConnsInv

(* The sessions of the page, with any number of sessions, connections and  *)
(* duels: every connection is known to the session it belongs to, and the  *)
(* seat of a duel to its connection.                                       *)
THEOREM ConnsInvariance == Spec => []ConnsInv
<1>1. Init => ConnsInv
  BY ConnsBegin
<1>2. ConnsInv /\ [Next]_vars => ConnsInv'
  BY ConnsNext
<1> QED
  BY <1>1, <1>2, PTL DEF Spec

(* destroy leaves nothing open: a room that a cancelled or destroyed       *)
(* session gets late is left at once, whether or not the join of a         *)
(* cancelled search may also fail late.                                    *)
THEOREM DestroyedTheorem == Spec => []DestroyedHoldNothing
<1>1. ConnsInv => DestroyedHoldNothing
  BY DEF ConnsInv, ConnInv, DestroyedHoldNothing
<1> QED
  BY <1>1, ConnsInvariance, PTL

-----------------------------------------------------------------------------
(* The page and its session, when the join of a cancelled search does not  *)
(* fail late.                                                              *)

(* What has to be shown of a step of the page. *)
LEMMA PageStep ==
  ASSUME NEW n, session' = n,
         \A k \in 1..Len(client') : client'[k].live <=> k = n,
         busy' <=> n # 0,
         n = 0 => ~shown' \/ finished',
         n # 0 => HeldInv(n)' /\ TokenSaved(n)'
  PROVE  PageInv'
<1>1. session' # 0 => HeldInv(session)' /\ TokenSaved(session)'
  BY DEF HeldInv, TokenSaved, Open
<1> QED
  BY <1>1 DEF PageInv, Sessions

(* The page lets go of its session. *)
LEMMA LetsGo ==
  ASSUME ConnsInv, PageInv, Len(client') = Len(client),
         \A k \in 1..Len(client) : k # session => client'[k] = client[k],
         session # 0 => ~client'[session].live,
         LetGo, ~shown' \/ finished'
  PROVE  PageInv'
<1>1. Sessions = 1..Len(client) /\ session' = 0
  BY Rows DEF ConnsInv, LetGo
<1>2. busy' <=> session' # 0
  BY <1>1 DEF LetGo
<1>3. ASSUME NEW k \in 1..Len(client')
      PROVE  client'[k].live <=> k = session'
  <2>1. k # 0 /\ k \in 1..Len(client)
    BY <1>3, Rows DEF ConnsInv
  <2>2. ~client'[k].live
    BY <2>1, <1>1 DEF PageInv
  <2> QED
    BY <1>1, <2>1, <2>2
<1> QED
  BY <1>1, <1>2, <1>3, PageStep

(* The page keeps its session. *)
LEMMA Keeps ==
  ASSUME ConnsInv, PageInv, NEW n, n = session, n # 0, UNCHANGED <<session, busy>>,
         Len(client') = Len(client), \A k \in 1..Len(client) : k # n => client'[k].live = client[k].live,
         client'[n].live, HeldInv(n)', TokenSaved(n)'
  PROVE  PageInv'
<1>1. Sessions = 1..Len(client) /\ session' = session
  BY Rows DEF ConnsInv
<1>2. busy' <=> session' # 0
  BY DEF PageInv
<1>3. \A k \in 1..Len(client') : client'[k].live <=> k = session'
  BY <1>1 DEF PageInv
<1> QED
  BY <1>1, <1>2, <1>3, PageStep

(* The page and its session are left alone, and with it its duel. *)
LEMMA PageStays ==
  ASSUME ConnsInv, PageInv, UNCHANGED <<session, busy, finished, shown, saved>>,
         Len(client') = Len(client), \A k \in 1..Len(client) : client'[k].live = client[k].live,
         session # 0 => client'[session] = client[session],
         \A c \in 1..Len(conns) : conns'[c].duel = conns[c].duel /\ (conns'[c].open <=> conns[c].open),
         \A m \in 1..Len(duels) : duels'[m].stage = "playing" => duels[m].stage = "playing"
  PROVE  PageInv'
<1>1. Sessions = 1..Len(client) /\ DOMAIN conns = 1..Len(conns) /\ Duels = 1..Len(duels)
  BY Rows DEF ConnsInv
<1>2. CASE session = 0
  <2>1. \A k \in 1..Len(client') : client'[k].live <=> k = 0
    BY <1>1, <1>2 DEF PageInv
  <2>2. busy' <=> 0 # 0
    BY <1>2 DEF PageInv
  <2>3. session' = 0 /\ (~shown' \/ finished')
    BY <1>2 DEF PageInv
  <2> QED
    BY <2>1, <2>2, <2>3, PageStep
<1>3. CASE session # 0
  <2>1. PICK n \in 1..Len(client) : n = session
    BY <1>3, Rows DEF ConnsInv, TypeOK
  <2>2. SessionInv(n) /\ HeldInv(n) /\ TokenSaved(n) /\ client'[n] = client[n] /\ n # 0 /\ client[n].live
    BY <1>1, <1>3, <2>1 DEF ConnsInv, PageInv
  <2>3. Open(client[n].match)' <=> Open(client[n].match)
    BY <1>1, <2>2 DEF SessionInv, Open
  <2>4. HeldInv(n)'
    BY <2>2, <2>3 DEF HeldInv, Open
  <2>5. TokenSaved(n)'
    <3> DEFINE c == client[n].match
    <3>1. SUFFICES ASSUME Open(c), duels'[conns'[c].duel].stage = "playing"
                   PROVE  saved = c
      BY <2>2, <2>3 DEF TokenSaved
    <3>2. c \in 1..Len(conns) /\ conns[c].open /\ conns[c].duel # 0 /\ ConnInv(c)
      BY <1>1, <2>2, <3>1 DEF SessionInv, Open, ConnsInv
    <3>3. conns[c].duel \in 1..Len(duels)
      BY <1>1, <3>2 DEF ConnInv
    <3> QED
      BY <2>2, <3>1, <3>2, <3>3 DEF TokenSaved
  <2>6. /\ UNCHANGED <<session, busy>> /\ client'[n].live
        /\ \A k \in 1..Len(client) : k # n => client'[k].live = client[k].live
    BY <2>2
  <2> QED
    BY <2>1, <2>2, <2>4, <2>5, <2>6, Keeps
<1> QED
  BY <1>2, <1>3

(* The session of the page is the only one that lives. *)
LEMMA OnlySession ==
  ASSUME ConnsInv, PageInv, NEW n \in 1..Len(client)
  PROVE  /\ client[n].live => n = session /\ n # 0 /\ HeldInv(n) /\ TokenSaved(n)
         /\ ~client[n].live => n # session /\ client[n].lobby = 0 /\ client[n].match = 0
         /\ SessionInv(n)
BY Rows DEF ConnsInv, PageInv, SessionInv

LEMMA PageCancel ==
  ASSUME ConnsInv, PageInv, Cancel
  PROVE  PageInv'
<1>1. session \in 0..Len(client) /\ client' = Destroyed(session) /\ client \in Seq(Client) /\ LetGo /\ ~shown'
  BY DEF Cancel, ConnsInv, TypeOK
<1> QED
  BY <1>1, DestroyedEffect, LetsGo

LEMMA PageLobbyFails ==
  ASSUME ConnsInv, PageInv, ~LateFailures, NEW n \in 1..Len(client), LobbyFails(n)
  PROVE  PageInv'
<1>1. /\ client[n].call = "lobby" /\ client[n].live /\ LetGo /\ UNCHANGED shown
      /\ client' = [Destroyed(n) EXCEPT ![n].call = "none"]
  BY DEF LobbyFails
<1>2. n = session /\ ~shown
  BY <1>1, OnlySession DEF HeldInv
<1>3. /\ Len(client') = Len(client) /\ ~client'[n].live
      /\ \A k \in 1..Len(client) : k # n => client'[k] = client[k]
  BY <1>1, DestroyedCall DEF Gone
<1> QED
  BY <1>1, <1>2, <1>3, LetsGo

(* An error while the page shows no duel: the session is given up. *)
LEMMA PageError ==
  ASSUME ConnsInv, PageInv, NEW n \in 1..Len(client), NEW cs, NEW kept,
         client[n].live, client[n].lobby # 0, OnError(n, cs, kept), UNCHANGED shown,
         kept[n].call \in {client[n].call, "none"}
  PROVE  PageInv'
<1>1. n = session /\ ~shown
  BY OnlySession DEF HeldInv
<1>2. client' = [Destroyed(n) EXCEPT ![n].call = kept[n].call] /\ LetGo
  BY <1>1 DEF OnError
<1>3. /\ Len(client') = Len(client) /\ ~client'[n].live
      /\ \A k \in 1..Len(client) : k # n => client'[k] = client[k]
  BY <1>2, DestroyedCall DEF Gone
<1> QED
  BY <1>1, <1>2, <1>3, LetsGo

LEMMA PageLobbyDrop ==
  ASSUME ConnsInv, PageInv, NEW n \in 1..Len(client), LobbyDrop(n)
  PROVE  PageInv'
<1> DEFINE kept == [client EXCEPT ![n].lobby = 0]
<1>1. client[n].lobby # 0 /\ OnError(n, {client[n].lobby}, kept) /\ UNCHANGED shown
  BY DEF LobbyDrop, Open
<1>2. client \in Seq(Client) /\ client[n] \in Client /\ client[n].live
  BY <1>1, Rows, OnlySession DEF ConnsInv, TypeOK
<1>3. kept[n] = [client[n] EXCEPT !.lobby = 0]
  BY <1>2, LobbySet
<1>4. kept[n].call = client[n].call
  BY <1>2, <1>3, LobbyOnly
<1> HIDE DEF kept
<1> QED
  BY <1>1, <1>2, <1>4, PageError

(* A search begins: the session before it, if there is one, is destroyed.  *)
LEMMA PageStart ==
  ASSUME ConnsInv, PageInv, Start
  PROVE  PageInv'
<1>1. /\ session \in 0..Len(client) /\ client \in Seq(Client) /\ Len(client) \in Nat /\ Sessions = 1..Len(client)
      /\ client' = Append(Destroyed(session), NewSession("lobby", 0)) /\ ~shown' /\ busy'
      /\ session' = Len(client')
  BY Rows DEF ConnsInv, TypeOK, Start
<1>2. NewSession("lobby", 0) \in Client
  BY DEF NewSession, Client, Calls
<1>3. PICK n \in Nat : n = Len(client) + 1
  BY <1>1
<1>4. /\ Len(client') = n /\ client'[n] = NewSession("lobby", 0)
      /\ \A k \in 1..Len(client) : client'[k] = Destroyed(session)[k]
  BY <1>1, <1>2, <1>3, DestroyedEffect, AppendEffect
<1>5. ASSUME NEW k \in 1..Len(client')
      PROVE  client'[k].live <=> k = n
  <2>1. CASE k = n
    BY <1>4, <2>1 DEF NewSession
  <2>2. CASE k # n
    <3>1. k \in 1..Len(client) /\ client'[k] = Destroyed(session)[k]
      BY <1>1, <1>3, <1>4, <2>2
    <3>2. CASE k = session
      BY <1>1, <2>2, <3>1, <3>2, DestroyedEffect
    <3>3. CASE k # session
      <4>1. client'[k] = client[k]
        BY <1>1, <3>1, <3>3, DestroyedEffect
      <4> QED
        BY <1>1, <2>2, <3>1, <3>3, <4>1 DEF PageInv
    <3> QED
      BY <3>2, <3>3
  <2> QED
    BY <2>1, <2>2
<1>6. HeldInv(n)' /\ TokenSaved(n)'
  <2>1. /\ client'[n].call = "lobby" /\ client'[n].duel = 0 /\ client'[n].lobby = 0 /\ client'[n].match = 0
        /\ ~client'[n].over
    BY <1>4 DEF NewSession
  <2> QED
    BY <1>1, <2>1 DEF HeldInv, TokenSaved, Open
<1>7. n # 0 /\ session' = n /\ (busy' <=> n # 0)
  BY <1>1, <1>3, <1>4
<1> QED
  BY <1>5, <1>6, <1>7, PageStep

LEMMA PageAcceptLobby ==
  ASSUME ConnsInv, PageInv, NEW n \in 1..Len(client), AcceptLobby(n)
  PROVE  PageInv'
<1>1. client[n].call = "lobby" /\ UNCHANGED <<duels, session, busy, finished, shown, saved>>
  BY DEF AcceptLobby, page
<1>2. PICK c \in Nat : c = Len(conns) + 1 /\ c # 0
  BY Rows DEF ConnsInv
<1>3. /\ \A k \in 1..Len(conns) : conns'[k] = conns[k]
      /\ Len(client') = Len(client) /\ client'[n].live = client[n].live
      /\ \A k \in 1..Len(client) : k # n => client'[k] = client[k]
  BY <1>2, AcceptLobbyEffect
<1>4. CASE client[n].live
  <2>1. /\ client'[n].live /\ client'[n].lobby = c /\ client'[n].match = client[n].match
        /\ client'[n].over = client[n].over /\ client'[n].call = "none" /\ client'[n].duel = client[n].duel
    BY <1>2, <1>4, AcceptLobbyEffect
  <2>2. n = session /\ n # 0 /\ HeldInv(n) /\ SessionInv(n)
    BY <1>4, OnlySession
  <2>3. client[n].match = 0 /\ ~client[n].over /\ client[n].duel = 0 /\ ~shown
    BY <1>1, <2>2 DEF SessionInv, HeldInv
  <2>4. HeldInv(n)' /\ TokenSaved(n)'
    BY <1>1, <1>2, <2>1, <2>3 DEF HeldInv, TokenSaved, Open
  <2>5. UNCHANGED <<session, busy>> /\ \A k \in 1..Len(client) : k # n => client'[k].live = client[k].live
    BY <1>1, <1>3
  <2> QED
    BY <1>3, <2>1, <2>2, <2>4, <2>5, Keeps
<1>5. CASE ~client[n].live
  <2>1. session # 0 => client'[session] = client[session]
    BY <1>3, <1>5, OnlySession DEF ConnsInv, TypeOK
  <2>2. \A k \in 1..Len(client) : client'[k].live = client[k].live
    BY <1>3
  <2> QED
    BY <1>1, <1>3, <2>1, <2>2, PageStays
<1> QED
  BY <1>4, <1>5

LEMMA PageMatchFound ==
  ASSUME ConnsInv, PageInv, NEW n \in 1..Len(client), MatchFound(n)
  PROVE  PageInv'
<1>1. client[n].lobby # 0 /\ UNCHANGED <<conns, session, busy, finished, shown, saved>>
  BY DEF MatchFound, Open, page
<1>2. n = session /\ n # 0 /\ HeldInv(n) /\ SessionInv(n) /\ client[n].live
  BY <1>1, OnlySession
<1>3. PICK m \in Nat : m = Len(duels) + 1
  BY Rows DEF ConnsInv
<1>4. /\ Len(client') = Len(client) /\ \A k \in 1..Len(client) : k # n => client'[k] = client[k]
      /\ client'[n].live = client[n].live /\ client'[n].lobby = client[n].lobby
      /\ client'[n].match = client[n].match
      /\ ~client'[n].over /\ client'[n].call = "match" /\ client'[n].duel = m
  BY <1>3, MatchFoundEffect
<1>5. client[n].match = 0 /\ ~shown
  BY <1>1, <1>2 DEF SessionInv, HeldInv
<1>6. HeldInv(n)' /\ TokenSaved(n)'
  BY <1>1, <1>4, <1>5 DEF HeldInv, TokenSaved, Open
<1>7. UNCHANGED <<session, busy>> /\ \A k \in 1..Len(client) : k # n => client'[k].live = client[k].live
  BY <1>1, <1>4
<1> QED
  BY <1>2, <1>4, <1>6, <1>7, Keeps

(* The session gets its seat, and its token is saved. *)
LEMMA PageTakeSeat ==
  ASSUME ConnsInv, PageInv, NEW n \in 1..Len(client), NEW m \in 1..Len(duels), duels[m].seat # "held",
         client[n].call # "none", TakeSeat(n, m), UNCHANGED <<session, busy, finished, shown>>
  PROVE  PageInv'
<1>1. PICK l \in BOOLEAN, x \in Nat : (l <=> client[n].live) /\ x = Len(conns) + 1 /\ x # 0 /\ x = Opened
  BY Rows DEF ConnsInv, Client, Opened
<1>2. /\ RoomsFollow /\ (conns'[x].open <=> l)
      /\ \A c \in 1..Len(conns) : conns'[c].open <=> conns[c].open /\ c # client[n].lobby
      /\ \A k \in 1..Len(duels) : duels'[k].stage = duels[k].stage
      /\ Len(client') = Len(client) /\ \A k \in 1..Len(client) : k # n => client'[k] = client[k]
      /\ client'[n].live = client[n].live /\ client'[n].over = client[n].over /\ client'[n].call = "none"
  BY <1>1, TakeSeatEffect
<1>3. CASE client[n].live
  <2>1. client'[n].lobby = 0 /\ client'[n].match = x
    <3>1. l
      BY <1>1, <1>3
    <3>2. IF l THEN client'[n].lobby = 0 /\ client'[n].match = x /\ client'[n].token = x
          ELSE /\ client'[n].lobby = client[n].lobby /\ client'[n].match = client[n].match
               /\ client'[n].token = client[n].token
      BY <1>1, TakeSeatEffect
    <3> QED
      BY <3>1, <3>2
  <2>2. n = session /\ n # 0 /\ SessionInv(n)
    BY <1>3, OnlySession
  <2>3. saved' = x /\ ~client[n].over
    <3>1. saved' = x
      BY <1>1, <1>3, <2>2 DEF TakeSeat, Remembered
    <3> QED
      BY <2>2, <3>1 DEF SessionInv
  <2>4. HeldInv(n)' /\ TokenSaved(n)'
    BY <1>1, <1>2, <1>3, <2>1, <2>3 DEF HeldInv, TokenSaved, Open
  <2>5. /\ UNCHANGED <<session, busy>> /\ client'[n].live
        /\ \A k \in 1..Len(client) : k # n => client'[k].live = client[k].live
    BY <1>2, <1>3
  <2> QED
    BY <1>2, <2>2, <2>4, <2>5, Keeps
<1>4. CASE ~client[n].live
  <2>1. n # session /\ client[n].lobby = 0
    BY <1>4, OnlySession
  <2>2. session # 0 => client'[session] = client[session]
    BY <1>2, <2>1 DEF ConnsInv, TypeOK
  <2>3. \A c \in 1..Len(conns) : conns'[c].duel = conns[c].duel /\ (conns'[c].open <=> conns[c].open)
    BY <1>2, <2>1, Rows DEF RoomsFollow, ConnsKept, ConnsInv
  <2>4. UNCHANGED saved
    BY <1>4 DEF TakeSeat
  <2>5. \A k \in 1..Len(client) : client'[k].live = client[k].live
    BY <1>2
  <2> QED
    BY <1>2, <2>2, <2>3, <2>4, <2>5, PageStays
<1> QED
  BY <1>3, <1>4

LEMMA PageSeatLost ==
  ASSUME ConnsInv, PageInv, NEW m \in 1..Len(duels), duels[m].seat # "held", SeatLost(m),
         UNCHANGED <<client, page, keyed>>
  PROVE  PageInv'
<1>1. UNCHANGED <<client, session, busy, finished, shown, saved>>
  BY DEF page
<1>2. /\ \A c \in 1..Len(conns) : conns'[c].duel = conns[c].duel /\ (conns'[c].open <=> conns[c].open)
      /\ \A k \in 1..Len(duels) : duels'[k].stage = duels[k].stage
  BY SeatLostEffect DEF RoomsFollow, ConnsKept
<1> QED
  BY <1>1, <1>2, PageStays

LEMMA PageJoins ==
  ASSUME ConnsInv, PageInv, NEW n \in 1..Len(client),
         JoinMatch(n) \/ JoinLost(n) \/ Reconnected(n) \/ ReconnectLost(n)
  PROVE  PageInv'
<1>1. SessionInv(n) /\ Duels = 1..Len(duels)
  BY Rows DEF ConnsInv
<1>2. CASE JoinMatch(n) \/ JoinLost(n)
  <2>1. PICK m \in 1..Len(duels) : m = client[n].duel
    BY <1>1, <1>2 DEF SessionInv, JoinMatch, JoinLost
  <2>2. duels[m].seat # "held" /\ client[n].call = "match"
    BY <1>2, <2>1 DEF JoinMatch, JoinLost
  <2>3. CASE JoinMatch(n)
    <3>1. TakeSeat(n, m) /\ UNCHANGED <<session, busy, finished, shown>>
      BY <2>1, <2>3 DEF JoinMatch
    <3> QED
      BY <2>2, <3>1, PageTakeSeat
  <2>4. CASE JoinLost(n)
    <3>1. SeatLost(m) /\ UNCHANGED <<client, page, keyed>>
      BY <2>1, <2>4 DEF JoinLost
    <3> QED
      BY <2>2, <3>1, PageSeatLost
  <2> QED
    BY <1>2, <2>3, <2>4
<1>3. CASE Reconnected(n)
  <2>1. PICK m \in 1..Len(duels) : Reserved(n, m) /\ TakeSeat(n, m)
    BY <1>1, <1>3 DEF Reconnected
  <2>2. duels[m].seat # "held" /\ client[n].call = "reconnect" /\ UNCHANGED <<session, busy, finished, shown>>
    BY <1>3, <2>1 DEF Reconnected, Reserved
  <2> QED
    BY <2>1, <2>2, PageTakeSeat
<1>4. CASE ReconnectLost(n)
  <2>1. PICK m \in 1..Len(duels) : Reserved(n, m) /\ SeatLost(m)
    BY <1>1, <1>4 DEF ReconnectLost
  <2>2. duels[m].seat # "held" /\ UNCHANGED <<client, page, keyed>>
    BY <1>4, <2>1 DEF ReconnectLost, Reserved
  <2> QED
    BY <2>1, <2>2, PageSeatLost
<1> QED
  BY <1>2, <1>3, <1>4

LEMMA PageJoinRefused ==
  ASSUME ConnsInv, PageInv, NEW n \in 1..Len(client), JoinRefused(n)
  PROVE  PageInv'
<1>1. client[n].call = "match" /\ UNCHANGED <<finished, shown, saved>>
  BY DEF JoinRefused
<1>2. CASE client[n].live
  <2>1. client[n].lobby # 0
    BY <1>1, <1>2, OnlySession DEF HeldInv
  <2>2. OnError(n, {}, Answered(n))
    BY <1>2, <2>1 DEF JoinRefused
  <2> QED
    BY <1>1, <1>2, <2>1, <2>2, AnsweredEffect, PageError
<1>3. CASE ~client[n].live
  <2>1. client' = Answered(n) /\ UNCHANGED <<conns, duels, session, busy>>
    BY <1>3 DEF JoinRefused, outside
  <2>2. session # 0 => client'[session] = client[session]
    <3>1. n # session /\ session \in 0..Len(client)
      BY <1>3, OnlySession DEF ConnsInv, TypeOK
    <3>2. \A k \in 1..Len(client) : k # n => client'[k] = client[k]
      BY <2>1, AnsweredEffect
    <3> QED
      BY <3>1, <3>2
  <2>3. Len(client') = Len(client) /\ \A k \in 1..Len(client) : client'[k].live = client[k].live
    BY <2>1, AnsweredEffect
  <2> QED
    BY <1>1, <2>1, <2>2, <2>3, PageStays
<1> QED
  BY <1>2, <1>3

(* The loop of reconnectMatch ends: the page's session is given up for     *)
(* good, another one is forgotten.                                         *)
LEMMA PageReconnectExpired ==
  ASSUME ConnsInv, PageInv, NEW n \in 1..Len(client), ReconnectExpired(n)
  PROVE  PageInv'
<1>1. client' = [Destroyed(n) EXCEPT ![n].call = "none"] /\ UNCHANGED <<conns, duels, shown>>
  BY DEF ReconnectExpired, outside
<1>2. /\ Len(client') = Len(client) /\ ~client'[n].live
      /\ \A k \in 1..Len(client) : k # n => client'[k] = client[k]
  BY <1>1, DestroyedCall DEF Gone
<1>3. CASE client[n].live
  <2>1. finished' /\ LetGo /\ n = session
    BY <1>3, OnlySession DEF ReconnectExpired
  <2> QED
    BY <1>2, <2>1, LetsGo
<1>4. CASE ~client[n].live
  <2>1. UNCHANGED <<finished, saved, session, busy>> /\ n # session
    BY <1>4, OnlySession DEF ReconnectExpired
  <2>2. session # 0 => client'[session] = client[session]
    BY <1>2, <2>1 DEF ConnsInv, TypeOK
  <2>3. \A k \in 1..Len(client) : client'[k].live = client[k].live
    <3>1. client[n].live \in BOOLEAN /\ client'[n].live \in BOOLEAN
      <4>1. client' \in Seq(Client) /\ client[n] \in Client
        BY <1>1, DestroyedCall, Rows DEF ConnsInv
      <4>2. client'[n] \in Client
        BY <1>2, <4>1, ElementOfSeq
      <4> QED
        BY <4>1, <4>2 DEF Client
    <3> QED
      BY <1>2, <1>4, <3>1
  <2> QED
    BY <1>1, <1>2, <2>1, <2>2, <2>3, PageStays
<1> QED
  BY <1>3, <1>4

(* What is rendered is the page's own duel; a duel that is over stays so.  *)
LEMMA PageRender ==
  ASSUME ConnsInv, PageInv, NEW n \in 1..Len(client), Open(client[n].match),
         NEW end \in BOOLEAN, Render(n, end), UNCHANGED conns, client[n].over => end,
         end => duels'[conns[client[n].match].duel].stage # "playing"
  PROVE  PageInv'
<1>1. client[n].match # 0 /\ client[n].call \in Calls
  BY Rows DEF Open, ConnsInv, Client
<1>2. n = session /\ n # 0 /\ SessionInv(n) /\ client[n].live
  BY <1>1, OnlySession
<1>3. /\ client[n].lobby = 0 /\ client[n].call = "none" /\ client[n].token = client[n].match
  BY <1>1, <1>2 DEF SessionInv, Calls
<1>4. /\ Len(client') = Len(client) /\ \A k \in 1..Len(client) : k # n => client'[k] = client[k]
      /\ client'[n].live = client[n].live /\ client'[n].lobby = client[n].lobby
      /\ client'[n].match = client[n].match /\ (client'[n].over <=> (client[n].over \/ end))
      /\ client'[n].call = client[n].call
  BY RenderEffect
<1>5. (finished' <=> end) /\ UNCHANGED <<session, busy>>
  BY DEF Render
<1>6. ~end => saved' = client[n].match
  BY <1>2, <1>3 DEF Render, Remembered
<1>7. HeldInv(n)'
  BY <1>1, <1>3, <1>4, <1>5 DEF HeldInv, Open
<1>8. TokenSaved(n)'
  BY <1>1, <1>4, <1>6 DEF TokenSaved, Open
<1>9. client'[n].live /\ \A k \in 1..Len(client) : k # n => client'[k].live = client[k].live
  BY <1>2, <1>4
<1> QED
  BY <1>2, <1>4, <1>5, <1>7, <1>8, <1>9, Keeps

LEMMA PageSnapshot ==
  ASSUME ConnsInv, PageInv, NEW n \in 1..Len(client), Snapshot(n)
  PROVE  PageInv'
<1>1. PICK end \in BOOLEAN : end <=> duels[conns[client[n].match].duel].stage = "published"
  OBVIOUS
<1>2. /\ Render(n, end) /\ Open(client[n].match) /\ UNCHANGED <<conns, duels>>
  BY <1>1 DEF Snapshot, Listens, outside, Render
<1>3. client[n].over => end
  BY <1>1, <1>2, OnlySession DEF SessionInv
<1>4. end => duels'[conns[client[n].match].duel].stage # "playing"
  BY <1>1, <1>2
<1> QED
  BY <1>2, <1>3, <1>4, PageRender

(* The connection of the page's match ends: the session reconnects, unless *)
(* the duel is over for it.                                                *)
LEMMA PageMatchEnds ==
  ASSUME ConnsInv, PageInv, NEW n \in 1..Len(client), Open(client[n].match),
         ~conns'[client[n].match].open, UNCHANGED page,
         client' = IF client[n].over THEN client ELSE [client EXCEPT ![n].call = "reconnect"]
  PROVE  PageInv'
<1>1. client[n].match # 0 /\ client \in Seq(Client) /\ client[n] \in Client /\ DOMAIN client = 1..Len(client)
  BY Rows DEF Open, ConnsInv, TypeOK
<1>2. n = session /\ n # 0 /\ SessionInv(n) /\ HeldInv(n) /\ client[n].live
  BY <1>1, OnlySession
<1>3. client[n].lobby = 0 /\ client[n].call \notin {"lobby", "match"} /\ UNCHANGED <<session, busy, finished, shown>>
  BY <1>1, <1>2 DEF SessionInv, page
<1>4. /\ Len(client') = Len(client) /\ \A k \in 1..Len(client) : k # n => client'[k] = client[k]
      /\ client'[n].live = client[n].live /\ client'[n].lobby = client[n].lobby
      /\ client'[n].match = client[n].match /\ client'[n].over = client[n].over
      /\ client'[n].call = IF client[n].over THEN client[n].call ELSE "reconnect"
  <2>1. CASE client[n].over
    BY <2>1
  <2>2. CASE ~client[n].over
    <3>1. PICK r \in Client : r = Reconnecting(client[n])
      BY <1>1, ReconnectingEffect
    <3>2. client' = [client EXCEPT ![n] = r]
      BY <1>1, <2>2, <3>1 DEF Reconnecting
    <3> QED
      BY <1>1, <2>2, <3>1, <3>2, ReconnectingEffect, PutEffect
  <2> QED
    BY <2>1, <2>2
<1>5. HeldInv(n)'
  BY <1>2, <1>3, <1>4 DEF HeldInv
<1>6. TokenSaved(n)'
  BY <1>4 DEF TokenSaved, Open
<1>7. client'[n].live /\ \A k \in 1..Len(client) : k # n => client'[k].live = client[k].live
  BY <1>2, <1>4
<1> QED
  BY <1>2, <1>3, <1>4, <1>5, <1>6, <1>7, Keeps

LEMMA PageMatchDrop ==
  ASSUME ConnsInv, PageInv, NEW n \in 1..Len(client), MatchDrop(n)
  PROVE  PageInv'
<1>1. /\ Open(client[n].match) /\ UNCHANGED page
      /\ client' = IF client[n].over THEN client ELSE [client EXCEPT ![n].call = "reconnect"]
  BY DEF MatchDrop, Listens
<1>2. PICK cs : cs = {client[n].match} /\ conns' = Shut(cs)
  BY DEF MatchDrop
<1>3. client[n].match \in 1..Len(conns) /\ conns \in Seq(Conn)
  BY <1>1, Rows, OnlySession DEF SessionInv, Open, ConnsInv, TypeOK
<1>4. ~conns'[client[n].match].open
  BY <1>2, <1>3, ShutEffect
<1> QED
  BY <1>1, <1>4, PageMatchEnds

(* A step of a room of which no session learns. *)
LEMMA PageRoom ==
  ASSUME ConnsInv, PageInv, UNCHANGED <<client, conns, page>>,
         \A k \in 1..Len(duels) : duels'[k].stage = "playing" => duels[k].stage = "playing"
  PROVE  PageInv'
<1>1. UNCHANGED <<client, conns, session, busy, finished, shown, saved>>
  BY DEF page
<1> QED
  BY <1>1, PageStays

LEMMA PageEndDuel ==
  ASSUME ConnsInv, PageInv, NEW m \in 1..Len(duels), EndDuel(m)
  PROVE  PageInv'
<1>1. UNCHANGED <<client, conns, page>> /\ Stage(m, "playing", "over")
  BY DEF EndDuel
<1>2. \A k \in 1..Len(duels) : duels'[k].stage = "playing" => duels[k].stage = "playing"
  BY <1>1, RoomsStage
<1> QED
  BY <1>1, <1>2, PageRoom

LEMMA PagePublish ==
  ASSUME ConnsInv, PageInv, NEW m \in 1..Len(duels), Publish(m)
  PROVE  PageInv'
<1>1. UNCHANGED conns /\ Stage(m, "over", "published") /\ duels[m].stage = "over"
  BY DEF Publish, Stage
<1>2. duels'[m].stage = "published"
  BY <1>1, RoomsStage
<1>3. CASE duels[m].seat = "held"
  <2>1. PICK n \in 1..Len(client) : /\ n = conns[duels[m].conn].of /\ client[n].match = duels[m].conn
                                    /\ Open(client[n].match) /\ conns[client[n].match].duel = m
    BY <1>3, SeatOwner DEF Open
  <2>2. Render(n, TRUE)
    BY <1>3, <2>1 DEF Publish
  <2>3. duels'[conns[client[n].match].duel].stage # "playing"
    BY <1>2, <2>1
  <2> QED
    BY <1>1, <2>1, <2>2, <2>3, PageRender
<1>4. CASE duels[m].seat # "held"
  <2>1. UNCHANGED <<client, conns, page>>
    BY <1>1, <1>4 DEF Publish
  <2>2. \A k \in 1..Len(duels) : duels'[k].stage = "playing" => duels[k].stage = "playing"
    BY <1>1, RoomsStage
  <2> QED
    BY <2>1, <2>2, PageRoom
<1> QED
  BY <1>3, <1>4

LEMMA PageGraceEnds ==
  ASSUME ConnsInv, PageInv, NEW m \in 1..Len(duels), GraceEnds(m)
  PROVE  PageInv'
<1>1. /\ UNCHANGED <<client, conns, page>> /\ duels \in Seq(Duel) /\ duels[m] \in Duel
      /\ duels' = [duels EXCEPT ![m] = GoneSeat(duels[m])]
  BY Rows DEF GraceEnds, ConnsInv, TypeOK, GoneSeat
<1>2. PICK d \in Duel : d = GoneSeat(duels[m]) /\ d.stage = duels[m].stage
  BY <1>1, GoneSeatEffect
<1>3. duels' = [duels EXCEPT ![m] = d]
  BY <1>1, <1>2
<1>4. \A k \in 1..Len(duels) : duels'[k].stage = duels[k].stage
  BY <1>1, <1>2, <1>3, PutEffect
<1> QED
  BY <1>1, <1>4, PageRoom

LEMMA PageCloseRoom ==
  ASSUME ConnsInv, PageInv, NEW m \in 1..Len(duels), CloseRoom(m)
  PROVE  PageInv'
<1>1. UNCHANGED page /\ conns \in Seq(Conn) /\ duels \in Seq(Duel) /\ duels[m] \in Duel /\ DOMAIN duels = 1..Len(duels)
  BY Rows DEF ConnsInv, TypeOK, CloseRoom
<1>2. CASE duels[m].seat = "held"
  <2>1. PICK c \in 1..Len(conns), n \in 1..Len(client) :
          c = duels[m].conn /\ n = conns[c].of /\ client[n].match = c /\ Open(c)
    BY <1>2, SeatOwner DEF Open
  <2>2. PICK cs : cs = {duels[m].conn} /\ conns' = Shut(cs)
    BY <1>2 DEF CloseRoom
  <2>3. client' = IF client[n].over THEN client ELSE [client EXCEPT ![n].call = "reconnect"]
    BY <1>2, <2>1 DEF CloseRoom
  <2>4. ~conns'[client[n].match].open
    BY <1>1, <2>1, <2>2, ShutEffect
  <2> QED
    BY <1>1, <2>1, <2>3, <2>4, PageMatchEnds
<1>3. CASE duels[m].seat # "held"
  <2>1. UNCHANGED <<client, conns, page>>
    BY <1>1, <1>3 DEF CloseRoom
  <2>2. duels' = [duels EXCEPT ![m] = Closed(duels[m])]
    <3>1. duels' = [[duels EXCEPT ![m].stage = "closed"] EXCEPT ![m].seat = "gone"]
      BY DEF CloseRoom
    <3> QED
      BY <1>1, <3>1 DEF Closed
  <2>3. PICK d \in Duel : d = Closed(duels[m]) /\ d.stage = "closed"
    BY <1>1, ClosedEffect
  <2>4. duels' = [duels EXCEPT ![m] = d]
    BY <2>2, <2>3
  <2>5. \A k \in 1..Len(duels) : duels'[k].stage = "playing" => duels[k].stage = "playing"
    BY <1>1, <2>3, <2>4, PutEffect
  <2> QED
    BY <2>1, <2>5, PageRoom
<1> QED
  BY <1>2, <1>3

LEMMA PageHostSession ==
  ASSUME ConnsInv, PageInv, HostSession
  PROVE  PageInv'
<1>1. UNCHANGED <<client, conns, duels, page>>
  BY DEF HostSession, outside
<1> QED
  BY <1>1, PageRoom

(* restoreMatch: a saved token is only forgotten when no duel is on, and   *)
(* only tried when the page has no session.                                *)
LEMMA PageRestore ==
  ASSUME ConnsInv, PageInv, Restore
  PROVE  PageInv'
<1>1. UNCHANGED <<conns, duels, finished, shown>> /\ client \in Seq(Client) /\ Sessions = 1..Len(client)
  BY Rows DEF Restore, outside, ConnsInv, TypeOK
<1>2. CASE saved' = 0 /\ (\A n \in Sessions : ~Listens(n)) /\ UNCHANGED <<client, session, busy>>
  <2>1. CASE session = 0
    <3>1. \A k \in 1..Len(client') : client'[k].live <=> k = 0
      BY <1>1, <1>2, <2>1 DEF PageInv
    <3>2. (busy' <=> 0 # 0) /\ session' = 0 /\ (~shown' \/ finished')
      BY <1>1, <1>2, <2>1 DEF PageInv
    <3> QED
      BY <3>1, <3>2, PageStep
  <2>2. CASE session # 0
    <3>1. PICK n \in 1..Len(client) : n = session /\ n # 0
      BY <2>2, Rows DEF ConnsInv, TypeOK
    <3>2. HeldInv(n) /\ client[n].live /\ ~Open(client[n].match)
      BY <1>1, <1>2, <3>1, <2>2 DEF PageInv, Listens
    <3>3. HeldInv(n)' /\ TokenSaved(n)'
      BY <1>1, <1>2, <3>2 DEF HeldInv, TokenSaved, Open
    <3> QED
      BY <1>1, <1>2, <3>1, <3>2, <3>3, Keeps
  <2> QED
    BY <2>1, <2>2
<1>3. CASE UNCHANGED <<client, session, busy, saved>>
  BY <1>1, <1>3, PageStays
<1>4. CASE session = 0 /\ client' = Append(client, NewSession("reconnect", saved)) /\ session' = Len(client') /\ busy'
  <2>1. PICK e \in Client : e = NewSession("reconnect", saved)
    BY DEF NewSession, Client, Calls, ConnsInv, TypeOK
  <2>2. PICK n \in Nat : n = Len(client) + 1 /\ n # 0
    BY Rows DEF ConnsInv
  <2>3. Len(client') = n /\ client'[n] = e /\ \A k \in 1..Len(client) : client'[k] = client[k]
    BY <1>1, <1>4, <2>1, <2>2, AppendEffect
  <2>4. /\ client'[n].live /\ client'[n].lobby = 0 /\ client'[n].match = 0 /\ ~client'[n].over
        /\ client'[n].call = "reconnect"
    BY <2>1, <2>3 DEF NewSession
  <2>5. ASSUME NEW k \in 1..Len(client')
        PROVE  client'[k].live <=> k = n
    <3>1. k = n \/ (k # n /\ k \in 1..Len(client) /\ k # 0)
      BY <2>2, <2>3, Rows DEF ConnsInv
    <3> QED
      BY <1>1, <1>4, <2>3, <2>4, <3>1 DEF PageInv
  <2>6. HeldInv(n)' /\ TokenSaved(n)'
    BY <2>4 DEF HeldInv, TokenSaved, Open
  <2>7. session' = n /\ (busy' <=> n # 0)
    BY <1>4, <2>2, <2>3
  <2> QED
    BY <2>2, <2>5, <2>6, <2>7, PageStep
<1> QED
  BY <1>2, <1>3, <1>4 DEF Restore

LEMMA PageReload ==
  ASSUME ConnsInv, PageInv, Reload
  PROVE  PageInv'
<1> DEFINE r == [NewSession("none", 0) EXCEPT !.live = FALSE]
<1>1. r \in Client /\ ~r.live
  BY DEF NewSession, Client, Calls
<1>2. client' = [n \in 1..Len(client) |-> r] /\ Len(client) \in Nat /\ LetGo /\ ~shown'
  BY Rows DEF Reload, LetGo, ConnsInv
<1> HIDE DEF r
<1>3. Len(client') = Len(client) /\ \A n \in 1..Len(client) : client'[n] = r
  BY <1>1, <1>2, SeqDef, LenProperties
<1>4. ASSUME NEW k \in 1..Len(client')
      PROVE  client'[k].live <=> k = 0
  BY <1>1, <1>2, <1>3
<1>5. session' = 0 /\ (busy' <=> 0 # 0)
  BY <1>2 DEF LetGo
<1> QED
  BY <1>2, <1>4, <1>5, PageStep

LEMMA PageNext ==
  ASSUME ConnsInv, PageInv, ~LateFailures, [Next]_vars
  PROVE  PageInv'
<1>1. Sessions = 1..Len(client) /\ Duels = 1..Len(duels)
  BY Rows DEF ConnsInv
<1>2. CASE UNCHANGED vars
  <2>1. UNCHANGED <<client, conns, duels, page>>
    BY <1>2 DEF vars, outside
  <2> QED
    BY <2>1, PageRoom
<1>3. ASSUME NEW n \in 1..Len(client), SessionStep(n)
      PROVE  PageInv'
  BY <1>3, PageAcceptLobby, PageLobbyFails, PageLobbyDrop, PageMatchFound, PageJoins, PageJoinRefused,
     PageReconnectExpired, PageSnapshot, PageMatchDrop
     DEF SessionStep
<1>4. ASSUME NEW m \in 1..Len(duels), RoomStep(m)
      PROVE  PageInv'
  BY <1>4, PageEndDuel, PagePublish, PageCloseRoom, PageGraceEnds DEF RoomStep
<1> QED
  BY <1>1, <1>2, <1>3, <1>4, PageStart, PageCancel, PageHostSession, PageRestore, PageReload DEF Next

(* The page and its session, with any number of sessions, connections and  *)
(* duels: the page knows the one session that lives, shows what is of that *)
(* session, and keeps the token of its seat.  The join of a cancelled      *)
(* search must not fail late.                                              *)
THEOREM ClientInvariance ==
  ASSUME ~LateFailures
  PROVE  Spec => []ClientInv
<1>1. Init => ClientInv
  <2> SUFFICES ASSUME Init
               PROVE  ClientInv
    OBVIOUS
  <2>1. client = <<>> /\ session = 0 /\ ~shown /\ (busy <=> session # 0) /\ Sessions = {}
    <3>1. client = <<>> /\ session = 0 /\ ~shown /\ ~busy
      BY DEF Init
    <3>2. Len(client) = 0
      BY <3>1, EmptySeq
    <3> QED
      BY <3>1, <3>2 DEF Sessions
  <2>2. PageInv
    BY <2>1 DEF PageInv
  <2> QED
    BY <2>2, ConnsBegin DEF ClientInv
<1>2. ClientInv /\ [Next]_vars => ClientInv'
  BY ConnsNext, PageNext DEF ClientInv
<1> QED
  BY <1>1, <1>2, PTL DEF Spec

(* A session that plays a duel can be resumed after a full page refresh:   *)
(* the token in the storage is the one its seat will open for.             *)
THEOREM SavedTokenTheorem ==
  ASSUME ~LateFailures
  PROVE  Spec => []SavedTokenRestores
<1>1. ClientInv => SavedTokenRestores
  <2> SUFFICES ASSUME ClientInv, NEW n \in Sessions, NEW m \in Duels, Listens(n),
                      conns[client[n].match].duel = m,
                      duels[m].seat = "held", duels[m].stage = "playing"
               PROVE  saved = duels[m].conn
    BY DEF SavedTokenRestores
  <2>1. /\ n \in 1..Len(client) /\ m # 0 /\ DOMAIN conns = 1..Len(conns) /\ client[n].live
        /\ ConnsInv /\ PageInv
    BY Rows DEF ClientInv, ConnsInv, Listens
  <2>2. TokenSaved(n) /\ SessionInv(n)
    BY <2>1, OnlySession
  <2>3. saved = client[n].match
    BY <2>2 DEF TokenSaved, Listens
  <2>4. client[n].match \in 1..Len(conns) /\ conns[client[n].match].open
    BY <2>1, <2>2 DEF SessionInv, Listens, Open
  <2>5. ConnInv(client[n].match)
    BY <2>1, <2>4 DEF ConnsInv
  <2> QED
    BY <2>1, <2>3, <2>4, <2>5 DEF ConnInv
<1> QED
  BY <1>1, ClientInvariance, PTL

(* The player is never left with a page on which nothing can be done.      *)
THEOREM NoDeadEndTheorem ==
  ASSUME ~LateFailures
  PROVE  Spec => []NoDeadEnd
<1>1. ClientInv => NoDeadEnd
  <2> SUFFICES ASSUME ClientInv, busy, ~finished,
                      shown \/ (session # 0 /\ client[session].duel # 0)
               PROVE  \E n \in Sessions : client[n].live /\ (Open(client[n].match) \/ client[n].call # "none")
    BY DEF NoDeadEnd
  <2>1. ConnsInv /\ PageInv /\ Sessions = 1..Len(client) /\ session \in 0..Len(client)
    BY Rows DEF ClientInv, ConnsInv, TypeOK
  <2>2. session # 0 /\ session \in Sessions /\ HeldInv(session) /\ client[session].live
    BY <2>1 DEF PageInv
  <2>3. Open(client[session].match) \/ client[session].call # "none"
    BY <2>2 DEF HeldInv
  <2> QED
    BY <2>2, <2>3
<1> QED
  BY <1>1, ClientInvariance, PTL

=============================================================================
