--------------------------- MODULE AccountProofs ----------------------------
(***************************************************************************)
(* What one account has.  Sessions, for any number of devices, tokens and  *)
(* ticks: a revoked token stays out and the newest login works.  Tasks, at *)
(* the end, for any users, threads, changes and hours: rows are sound and  *)
(* stay gone, titles are kept and reminder lists are true.                 *)
(***************************************************************************)
EXTENDS SessionsMC, TasksMC, TLAPS

(* A token belongs to one session: those generated later have greater      *)
(* numbers, and a login under way is the only one to know its token.       *)
Numbered ==
    /\ issued \in 1..MaxTokens
    /\ slot1.token <= issued /\ slot2.token <= issued
    /\ \A d \in Devices : holds[d].token <= issued
    /\ \A d \in Devices : login[d].pc # "idle" => login[d].session.token \in 1..issued

Pending(d) == login[d].pc # "idle"
Unknown(t) ==
    /\ t \notin revoked /\ t # slot1.token /\ t # slot2.token
    /\ \A e \in Devices : holds[e].token # t

TokensApart ==
    /\ slot1.token = slot2.token => slot1.token = 0
    /\ \A d \in Devices : Pending(d) => Unknown(login[d].session.token)
    /\ \A d, e \in Devices :
          Pending(d) /\ Pending(e) /\ d # e
          => login[d].session.token # login[e].session.token

(* A revoked token is in no slot. *)
RevokedIsGone ==
    /\ revoked \subseteq 1..issued
    /\ slot1.token \notin revoked /\ slot2.token \notin revoked

(* The session written last stays in its slot until it is logged out. *)
LatestInSlot ==
    /\ latest.token # 0
    /\ latest \in {slot1, slot2} \/ latest.token \in revoked \/ latest.expires <= clock

Inv == TypeOK /\ Numbered /\ TokensApart /\ RevokedIsGone /\ LatestInSlot

-----------------------------------------------------------------------------

LEMMA InvInit == Init => Inv
<1> SUFFICES ASSUME Init PROVE Inv
  OBVIOUS
<1> USE ConstantsOK DEF Init, Empty, NoLogin, Sessions, Logins
<1>1. /\ slot1 \in Sessions /\ slot2 \in Sessions /\ slot1.token = 1 /\ slot2.token = 0
  OBVIOUS
<1>2. PICK d \in Devices : holds = [e \in Devices |-> IF e = d THEN slot1 ELSE Empty]
  OBVIOUS
<1>3. TypeOK
  BY <1>1, <1>2 DEF TypeOK
<1>4. Numbered
  BY <1>1, <1>2 DEF Numbered
<1>5. TokensApart /\ RevokedIsGone /\ LatestInSlot
  BY <1>1, <1>2 DEF TokensApart, Pending, RevokedIsGone, LatestInSlot
<1> QED
  BY <1>3, <1>4, <1>5 DEF Inv

LEMMA InvStep == Inv /\ [Next]_vars => Inv'
<1> SUFFICES ASSUME Inv, [Next]_vars PROVE Inv'
  OBVIOUS
<1> USE ConstantsOK DEF Inv
<1>1. ASSUME NEW d \in Devices, LoginRead(d) PROVE Inv'
  <2> DEFINE new == NewSession
  <2>1. /\ issued' = issued + 1 /\ issued' \in 1..MaxTokens
        /\ new \in Sessions /\ new.token = issued'
    BY <1>1 DEF LoginRead, NewSession, Sessions, TypeOK, Numbered
  <2>2. \A e \in Devices : login'[e] = IF e = d THEN [pc |-> SlotToUse, session |-> new]
                                       ELSE login[e]
    BY <1>1 DEF LoginRead, TypeOK
  <2>3. TypeOK'
    BY <1>1, <2>1 DEF LoginRead, TypeOK, Logins, SlotToUse
  <2> HIDE DEF new
  <2>4. Numbered'
    BY <1>1, <2>1, <2>2 DEF LoginRead, Numbered, TypeOK, Sessions
  <2>5. Unknown(new.token)
    BY <2>1 DEF Unknown, Numbered, RevokedIsGone, TypeOK, Sessions
  <2>6. \A e \in Devices : Pending(e) => login[e].session.token # new.token
    BY <2>1 DEF Pending, Numbered
  <2>7. TokensApart'
    BY <1>1, <2>2, <2>5, <2>6 DEF LoginRead, TokensApart, Pending, Unknown
  <2>8. RevokedIsGone' /\ LatestInSlot'
    BY <1>1, <2>1 DEF LoginRead, RevokedIsGone, LatestInSlot, Numbered
  <2> QED
    BY <2>3, <2>4, <2>7, <2>8
<1>2. ASSUME NEW d \in Devices, LoginWrite(d) PROVE Inv'
  <2> DEFINE s == login[d].session
  <2>1. /\ s \in Sessions /\ Pending(d) /\ s.token \in 1..issued /\ Unknown(s.token)
        /\ Empty \in Sessions /\ Empty.token = 0 /\ NoLogin \in Logins
    BY <1>2 DEF LoginWrite, TypeOK, Logins, Pending, Numbered, TokensApart, Sessions,
                Empty, NoLogin
  <2>2. /\ \/ slot2' = s /\ slot1' = slot1
           \/ slot1' = s /\ slot2' = Empty
        /\ latest' = s
        /\ UNCHANGED <<issued, revoked, clock>>
    BY <1>2 DEF LoginWrite
  <2>3. /\ holds' \in [Devices -> Sessions]
        /\ \A e \in Devices : holds'[e] = IF e = d THEN s ELSE holds[e]
    BY <1>2, <2>1 DEF LoginWrite, TypeOK
  <2>4. /\ login' \in [Devices -> Logins]
        /\ \A e \in Devices : login'[e] = IF e = d THEN NoLogin ELSE login[e]
    BY <1>2, <2>1 DEF LoginWrite, TypeOK
  <2> HIDE DEF s
  <2>5. TypeOK'
    BY <2>1, <2>2, <2>3, <2>4 DEF TypeOK
  <2>6. NoLogin.pc = "idle"
    BY DEF NoLogin
  <2>7. Numbered'
    BY <2>1, <2>2, <2>3, <2>4, <2>6 DEF Numbered
  <2>8. \A e \in Devices : e # d /\ Pending(e) => login[e].session.token # s.token
    BY <2>1 DEF TokensApart, s
  <2>9. TokensApart'
    <3>1. (slot1.token = slot2.token => slot1.token = 0)'
      BY <2>1, <2>2 DEF Unknown
    <3>2. ASSUME NEW e \in Devices, Pending(e)' PROVE Unknown(login[e].session.token)'
      <4>1. e # d /\ Pending(e) /\ login'[e] = login[e]
        BY <3>2, <2>4, <2>6 DEF Pending
      <4>2. Unknown(login[e].session.token) /\ login[e].session.token # 0
        BY <4>1 DEF TokensApart, Numbered, Pending
      <4> QED
        BY <4>1, <4>2, <2>1, <2>2, <2>3, <2>8 DEF Unknown
    <3>3. (\A e, f \in Devices : Pending(e) /\ Pending(f) /\ e # f
              => login[e].session.token # login[f].session.token)'
      BY <2>4, <2>6 DEF TokensApart, Pending
    <3> QED
      BY <3>1, <3>2, <3>3 DEF TokensApart
  <2>10. RevokedIsGone' /\ LatestInSlot'
    BY <2>1, <2>2 DEF RevokedIsGone, LatestInSlot, Unknown
  <2> QED
    BY <2>5, <2>7, <2>9, <2>10
<1>3. ASSUME NEW d \in Devices, LoginRaises(d) PROVE Inv'
  <2>1. /\ login' \in [Devices -> Logins]
        /\ \A e \in Devices : login'[e] = IF e = d THEN NoLogin ELSE login[e]
    BY <1>3 DEF LoginRaises, TypeOK, NoLogin, Logins, Empty, Sessions
  <2>2. NoLogin.pc = "idle"
    BY DEF NoLogin
  <2>3. TypeOK'
    BY <1>3, <2>1 DEF LoginRaises, TypeOK
  <2>4. Numbered' /\ RevokedIsGone' /\ LatestInSlot'
    BY <1>3, <2>1, <2>2 DEF LoginRaises, Numbered, RevokedIsGone, LatestInSlot
  <2>5. TokensApart'
    BY <1>3, <2>1, <2>2 DEF LoginRaises, TokensApart, Pending, Unknown
  <2> QED
    BY <2>3, <2>4, <2>5
<1>4. ASSUME NEW d \in Devices, Logout(d) PROVE Inv'
  <2> DEFINE t == holds[d].token
  <2>1. /\ t # 0 /\ t \in 1..MaxTokens /\ t <= issued /\ t \in {slot1.token, slot2.token}
        /\ Empty \in Sessions /\ Empty.token = 0
    BY <1>4 DEF Logout, TypeOK, Numbered, Sessions, Empty
  <2>2. /\ \/ slot1.token = t /\ slot1' = Empty /\ slot2' = slot2
           \/ slot1.token # t /\ slot2' = Empty /\ slot1' = slot1
        /\ revoked' = revoked \cup {t}
        /\ UNCHANGED <<login, issued, latest, clock>>
    BY <1>4 DEF Logout
  <2>3. /\ holds' \in [Devices -> Sessions]
        /\ \A e \in Devices : holds'[e] = IF e = d THEN Empty ELSE holds[e]
    BY <1>4, <2>1 DEF Logout, TypeOK
  <2>4. \A e \in Devices : Pending(e) => login[e].session.token # t
    BY DEF TokensApart, Unknown
  <2> HIDE DEF t
  <2>5. TypeOK'
    BY <2>1, <2>2, <2>3 DEF TypeOK
  <2>6. Numbered'
    BY <2>1, <2>2, <2>3 DEF Numbered
  <2>7. TokensApart'
    <3>1. (slot1.token = slot2.token => slot1.token = 0)'
      BY <2>1, <2>2
    <3>2. ASSUME NEW e \in Devices, Pending(e)' PROVE Unknown(login[e].session.token)'
      <4>1. /\ Pending(e) /\ login'[e] = login[e]
            /\ Unknown(login[e].session.token) /\ login[e].session.token # 0
        BY <3>2, <2>2 DEF Pending, TokensApart, Numbered
      <4> QED
        BY <4>1, <2>1, <2>2, <2>3, <2>4 DEF Unknown
    <3> QED
      BY <3>1, <3>2, <2>2 DEF TokensApart, Pending
  <2>8. RevokedIsGone'
    BY <2>1, <2>2 DEF RevokedIsGone, TokensApart
  <2>9. LatestInSlot'
    BY <2>1, <2>2 DEF LatestInSlot
  <2> QED
    BY <2>5, <2>6, <2>7, <2>8, <2>9
<1>5. CASE Tick
  <2>1. /\ clock' = clock + 1 /\ clock' \in 0..MaxTime
        /\ UNCHANGED <<slot1, slot2, holds, login, issued, revoked, latest>>
    BY <1>5 DEF Tick, TypeOK
  <2>2. latest.expires <= clock => latest.expires <= clock'
    BY <2>1 DEF TypeOK, Sessions
  <2> QED
    BY <2>1, <2>2 DEF TypeOK, Numbered, TokensApart, Pending, Unknown, RevokedIsGone,
                      LatestInSlot
<1>6. CASE UNCHANGED vars
  BY <1>6 DEF vars, TypeOK, Numbered, TokensApart, Pending, Unknown, RevokedIsGone,
              LatestInSlot
<1> QED
  BY <1>1, <1>2, <1>3, <1>4, <1>5, <1>6 DEF Next, Quiet

LEMMA InvHolds == Spec => []Inv
  BY InvInit, InvStep, PTL DEF Spec

-----------------------------------------------------------------------------
(* Every variable of Sessions has its type, whatever logins overlap. *)
THEOREM TypeCorrect == Spec => []TypeOK
  BY InvHolds, PTL DEF Inv

(* A login under way when a token is logged out writes a token of its own, *)
(* so nothing puts a revoked token back (login and logout of user_routes). *)
THEOREM RevokedForGood == Spec => []RevokedStaysOut
<1>1. Inv => RevokedStaysOut
  BY DEF Inv, RevokedIsGone, RevokedStaysOut, Authenticates
<1> QED
  BY <1>1, InvHolds, PTL

(* However logins and logouts overlap, the session of the login that       *)
(* committed last is the one thing no later step takes away silently.      *)
THEOREM LatestWorks == Spec => []LatestLoginWorks
<1>1. Inv => LatestLoginWorks
  BY DEF Inv, LatestInSlot, LatestLoginWorks, Authenticates, Valid, TypeOK, Sessions
<1> QED
  BY <1>1, InvHolds, PTL

-----------------------------------------------------------------------------
(* A login that found the primary slot free finds it taken at its UPDATE   *)
(* only by a login that was under way with it.                             *)
PrimaryRaced ==
    \A d \in Devices :
        login[d].pc = "primary" /\ Valid(slot1)
        => <<slot1.token, login[d].session.token>> \in overlapped

HInv == Inv /\ UnderWay \X UnderWay \subseteq overlapped /\ PrimaryRaced

LEMMA HInvInit == HInit => HInv
<1> SUFFICES ASSUME HInit PROVE HInv
  OBVIOUS
<1>1. \A d \in Devices : login[d].pc = "idle"
  BY DEF HInit, Init, NoLogin
<1> QED
  BY <1>1, InvInit DEF HInit, HInv, UnderWay, PrimaryRaced

LEMMA HInvStep == HInv /\ [HNext]_hvars => HInv'
<1> SUFFICES ASSUME HInv, [HNext]_hvars PROVE HInv'
  OBVIOUS
<1>1. Inv'
  BY InvStep DEF HInv, HNext, hvars
<1>2. CASE UNCHANGED hvars
  BY <1>1, <1>2 DEF HInv, hvars, vars, UnderWay, PrimaryRaced, Valid
<1>3. CASE HNext
  <2>1. (UnderWay \X UnderWay \subseteq overlapped)' /\ overlapped \subseteq overlapped'
    BY <1>3 DEF HNext
  <2>2. PrimaryRaced'
    <3> SUFFICES ASSUME NEW d \in Devices, (login[d].pc = "primary" /\ Valid(slot1))'
                 PROVE  (<<slot1.token, login[d].session.token>> \in overlapped)'
      BY DEF PrimaryRaced
    <3> DEFINE Kept == /\ login'[d] = login[d] /\ slot1' = slot1
                       /\ clock <= clock'
    <3>1. CASE Kept
      <4>1. login[d].pc = "primary" /\ Valid(slot1)
        BY <1>1, <3>1 DEF Valid, HInv, Inv, TypeOK, Sessions
      <4> QED
        BY <2>1, <3>1, <4>1 DEF HInv, PrimaryRaced
    <3>2. ASSUME NEW e \in Devices, LoginRead(e)
          PROVE  Kept
      <4>1. e # d
        BY <3>2 DEF LoginRead, SlotToUse, Valid, HInv, Inv, TypeOK
      <4> QED
        BY <3>2, <4>1 DEF LoginRead, HInv, Inv, TypeOK
    <3>3. ASSUME NEW e \in Devices, LoginWrite(e), login[e].pc = "secondary"
          PROVE  Kept
      BY <3>3 DEF LoginWrite, NoLogin, HInv, Inv, TypeOK
    <3>4. ASSUME NEW e \in Devices, LoginWrite(e), login[e].pc # "secondary"
          PROVE  {slot1'.token, login'[d].session.token} \subseteq UnderWay
      <4>1. e # d /\ login'[d] = login[d] /\ slot1' = login[e].session
        BY <3>4 DEF LoginWrite, NoLogin, HInv, Inv, TypeOK
      <4> QED
        BY <3>4, <4>1 DEF LoginWrite, UnderWay
    <3>5. ASSUME NEW e \in Devices, LoginRaises(e)
          PROVE  Kept
      BY <3>5 DEF LoginRaises, NoLogin, HInv, Inv, TypeOK
    <3>6. ASSUME NEW e \in Devices, Logout(e)
          PROVE  Kept
      BY <3>6 DEF Logout, Valid, Empty, HInv, Inv, TypeOK
    <3>7. Tick \/ Quiet => Kept
      BY DEF Tick, Quiet, vars, HInv, Inv, TypeOK
    <3> QED
      BY <1>3, <2>1, <3>1, <3>2, <3>3, <3>4, <3>5, <3>6, <3>7 DEF HNext, Next, HInv
  <2> QED
    BY <1>1, <2>1, <2>2 DEF HInv
<1> QED
  BY <1>2, <1>3

(* The valid session of the primary slot ends by its logout, or by a login *)
(* that was under way together with its own (login reads the row, then     *)
(* updates it, and nothing locks it in between).                           *)
THEOREM PrimaryStands == HSpec => PrimaryUndisturbed
<1> DEFINE Step == Valid(slot1) /\ slot1'.token # slot1.token
                   => \/ slot1.token \in revoked'
                      \/ <<slot1.token, slot1'.token>> \in overlapped
<1>1. HInv /\ [HNext]_hvars => [Step]_hvars
  <2> SUFFICES ASSUME HInv, HNext, Valid(slot1), slot1'.token # slot1.token
               PROVE  \/ slot1.token \in revoked'
                      \/ <<slot1.token, slot1'.token>> \in overlapped
    OBVIOUS
  <2>1. ASSUME NEW d \in Devices, LoginWrite(d)
        PROVE  <<slot1.token, slot1'.token>> \in overlapped
    <3>1. login[d].pc = "primary" /\ slot1' = login[d].session
      BY <2>1 DEF LoginWrite, HInv, Inv, TypeOK, Logins
    <3> QED
      BY <3>1 DEF HInv, PrimaryRaced
  <2>2. ASSUME NEW d \in Devices, Logout(d)
        PROVE  slot1.token \in revoked'
    BY <2>2 DEF Logout
  <2> QED
    BY <2>1, <2>2 DEF HNext, Next, LoginRead, LoginRaises, Tick, Quiet, vars
<1>2. HSpec => []HInv
  BY HInvInit, HInvStep, PTL DEF HSpec
<1> QED
  BY <1>1, <1>2, PTL DEF HSpec, PrimaryUndisturbed

-----------------------------------------------------------------------------
(* The tasks and appointments, and the requests that change and list them. *)

(* Requests and rows are numbered: a number is of one request under way,   *)
(* and the row an insertion is to make is not there yet, nor named by a    *)
(* change.                                                                 *)
Changing(s) == req[s].pc \in {"select", "update"}
Numbering ==
    /\ \A s \in Slots : ~At(s, "idle") => req[s].n <= asked
    /\ \A s, t \in Slots : ~At(s, "idle") /\ ~At(t, "idle") /\ req[s].n = req[t].n => s = t
    /\ \A r \in rows : r.id <= asked
    /\ \A s \in Slots, r \in rows : At(s, "post") => req[s].n # r.id
    /\ \A t \in Slots : Changing(t) => req[t].id <= asked
    /\ \A s, t \in Slots : At(s, "post") /\ Changing(t) => req[t].id # req[s].n

(* What a change is about to write: the row it read, filled in. *)
Reading ==
    \A s \in Slots : At(s, "update") =>
        \A old \in req[s].seen :
            /\ old.kind = req[s].kind /\ old.id = req[s].id /\ old.owner = req[s].user
            /\ Timed(Filled(req[s], old))

Sound == TasksTypeOK /\ RowsSound
RowsInv == Sound /\ Numbering /\ Reading

-----------------------------------------------------------------------------
(* How a thread moves. *)

LEMMA Replaced ==
    ASSUME Sound, NEW s \in Slots, NEW r, req' = [req EXCEPT ![s] = r]
    PROVE  req'[s] = r /\ \A t \in Slots : t # s => req'[t] = req[t]
BY DEF Sound, TasksTypeOK, RowsSound

LEMMA ReplacedType ==
    ASSUME Sound, NEW s \in Slots, NEW r \in Requests \cup {Idle},
           req' = [req EXCEPT ![s] = r]
    PROVE  req' \in [Slots -> Requests \cup {Idle}]
BY DEF Sound, TasksTypeOK, RowsSound

LEMMA ActiveIsRequest ==
    ASSUME Sound, NEW s \in Slots, ~At(s, "idle")
    PROVE  req[s] \in Requests
BY DEF Sound, TasksTypeOK, RowsSound, At, Idle

Asks == {"post", "select", "delete", "tasks", "clear"}
Fresh(r) ==
    /\ r.pc \in Asks /\ r.n = asked + 1
    /\ r.pc = "select" => \E q \in rows : q.id = r.id
LEMMA Asking ==
    ASSUME Sound, NEW s \in Slots, AskSomething(s)
    PROVE  \E r \in Requests : Fresh(r) /\ Start(s, r)
<1>0. /\ MaxRequests \in Nat /\ LastHour \in Nat /\ Window \in Nat /\ asked \in Nat
      /\ asked < MaxRequests => asked + 1 \in Numbers
      /\ now \in 0..LastHour /\ Wanted \subseteq Changes
      /\ \A r \in rows : r \in Rows
      /\ users \subseteq Users
  BY TasksConstants DEF Sound, TasksTypeOK, RowsSound, Numbers
<1>1. Nothing \in Changes
  BY <1>0 DEF Nothing, Changes, Keep, Times
<1>2. ASSUME NEW pc \in Asks, NEW u \in users, NEW kind \in Kinds, NEW id \in Numbers,
             NEW c \in Changes, pc = "select" => \E q \in rows : q.id = id,
             Start(s, Request(pc, u, kind, id, c))
      PROVE  \E r \in Requests : Fresh(r) /\ Start(s, r)
  <2>1. asked < MaxRequests
    BY <1>2 DEF Start
  <2>2. Request(pc, u, kind, id, c) \in Requests /\ Fresh(Request(pc, u, kind, id, c))
    BY <1>0, <1>2, <2>1 DEF Request, Requests, Asks, Steps, Fresh
  <2> QED
    BY <1>2, <2>2
<1>3. CASE AskPost(s)
  <2>1. PICK u \in users, kind \in Kinds, c \in Wanted :
             Start(s, Request("post", u, kind, asked + 1, c))
    BY <1>3 DEF AskPost
  <2>2. asked + 1 \in Numbers /\ c \in Changes
    BY <1>0, <2>1 DEF Start
  <2> QED
    BY <2>1, <2>2, <1>2 DEF Asks
<1>4. CASE AskPut(s)
  <2>1. PICK u \in users, r \in rows, c \in Wanted :
             Start(s, Request("select", u, r.kind, r.id, c))
    BY <1>4 DEF AskPut
  <2>2. r.kind \in Kinds /\ r.id \in Numbers /\ c \in Changes
    BY <1>0 DEF Rows
  <2> QED
    BY <2>1, <2>2, <1>2 DEF Asks
<1>5. CASE AskDelete(s)
  <2>1. PICK u \in users, r \in rows :
             Start(s, Request("delete", u, r.kind, r.id, Nothing))
    BY <1>5 DEF AskDelete
  <2>2. r.kind \in Kinds /\ r.id \in Numbers
    BY <1>0 DEF Rows
  <2> QED
    BY <2>1, <2>2, <1>1, <1>2 DEF Asks
<1>6. CASE AskReminders(s)
  <2>1. PICK u \in users : Start(s, Request("tasks", u, "task", asked + 1, Nothing))
    BY <1>6 DEF AskReminders
  <2>2. asked + 1 \in Numbers
    BY <1>0, <2>1 DEF Start
  <2> QED
    BY <2>1, <2>2, <1>1, <1>2 DEF Asks, Kinds
<1>7. CASE AskDeleteAccount(s)
  <2>1. PICK u \in users : Start(s, Request("clear", u, "task", asked + 1, Nothing))
    BY <1>7 DEF AskDeleteAccount
  <2>2. asked + 1 \in Numbers
    BY <1>0, <2>1 DEF Start
  <2> QED
    BY <2>1, <2>2, <1>1, <1>2 DEF Asks, Kinds
<1> QED
  BY <1>3, <1>4, <1>5, <1>6, <1>7 DEF AskSomething

-----------------------------------------------------------------------------
(* What a request makes of a row. *)

LEMMA NewRowTyped ==
    ASSUME NEW r \in Requests
    PROVE  NewRow(r) \in Rows /\ NewRow(r).id = r.n /\ NewRow(r).owner = r.user
           /\ NewRow(r).title = r.n
BY DEF NewRow, Requests, Rows, Changes, Normalized, TimeAsked,
       Statuses, Keep, NoTime

LEMMA FilledTyped ==
    ASSUME NEW r \in Requests, NEW old \in Rows
    PROVE  /\ Filled(r, old) \in Rows
           /\ Filled(r, old).id = old.id /\ Filled(r, old).kind = old.kind
           /\ Filled(r, old).owner = old.owner
           /\ Filled(r, old).title = IF r.change.title = Keep THEN old.title ELSE r.n
<1>1. r.n \in Numbers /\ r.change \in Changes
  BY DEF Requests
<1>2. (IF r.change.title = Keep THEN old.title ELSE r.n) \in Numbers
  BY <1>1 DEF Rows
<1>3. (IF r.change.status = Keep THEN old.status ELSE Normalized(r.change.status)) \in Statuses
  BY <1>1 DEF Rows, Changes, Normalized, Statuses, Keep
<1>4. (IF r.change.at = Keep THEN old.at ELSE TimeAsked(r.change)) \in Times \cup {NoTime}
  BY <1>1 DEF Rows, Changes, TimeAsked, Keep
<1> QED
  BY <1>2, <1>3, <1>4 DEF Filled, Rows
-----------------------------------------------------------------------------
(* The rows: each step keeps what is known of them. *)

LEMMA RowsInit == ASSUME TasksInit PROVE RowsInv
<1>1. Sound
  BY TasksConstants DEF TasksInit, Sound, TasksTypeOK, RowsSound
<1>2. \A s \in Slots : req[s].pc = "idle"
  BY DEF TasksInit, Idle
<1> QED
  BY <1>1, <1>2 DEF RowsInv, Numbering, Reading, At, Changing, TasksInit

(* A request that ends, leaving no new row. *)
LEMMA Ending ==
    ASSUME RowsInv, NEW s \in Slots, Answer(s), rows' \subseteq rows, UNCHANGED <<asked, now>>,
           users' \subseteq users, \A r \in rows' : r.owner \in users'
    PROVE  RowsInv'
<1>1. req'[s] = Idle /\ \A t \in Slots : t # s => req'[t] = req[t]
  BY Replaced DEF Answer, RowsInv
<1>2. Sound'
  BY ReplacedType DEF Answer, RowsInv, Sound, TasksTypeOK, RowsSound
<1>3. Numbering'
  BY <1>1 DEF RowsInv, Numbering, At, Changing, Idle
<1>4. Reading'
  BY <1>1 DEF RowsInv, Reading, At, Idle
<1> QED
  BY <1>2, <1>3, <1>4 DEF RowsInv

LEMMA AskRows ==
    ASSUME RowsInv, NEW s \in Slots, AskSomething(s)
    PROVE  RowsInv'
<1>1. PICK r \in Requests : Fresh(r) /\ Start(s, r)
  BY Asking DEF RowsInv
<1>2. /\ req'[s] = r /\ \A t \in Slots : t # s => req'[t] = req[t]
      /\ req' \in [Slots -> Requests \cup {Idle}]
  BY <1>1, Replaced, ReplacedType DEF Start, RowsInv
<1>3. Sound'
  BY <1>1, <1>2, TasksConstants DEF RowsInv, Sound, TasksTypeOK, RowsSound, Start
<1>4. \A t \in Slots : ~At(t, "idle") => req[t].n \in Nat /\ asked \in Nat
  BY ActiveIsRequest DEF Requests, Numbers, RowsInv, Sound, TasksTypeOK, RowsSound
<1>5. Numbering'
  <2>1. /\ r.n = asked + 1 /\ asked' = asked + 1 /\ UNCHANGED rows /\ asked \in Nat
        /\ r.pc # "idle" /\ r.pc # "update" /\ (r.pc = "select" => r.id <= asked)
        /\ r.pc = "select" => \A t \in Slots : At(t, "post") => req[t].n # r.id
        /\ r.id \in Nat
    BY <1>1 DEF RowsInv, Numbering, Start, Fresh, Asks, Sound, TasksTypeOK, RowsSound, Requests, Numbers
  <2>2. \A q \in rows : q.id \in Nat /\ q.id <= asked
    BY DEF RowsInv, Sound, TasksTypeOK, RowsSound, Rows, Numbers, Numbering
  <2>3. \A t \in Slots : Changing(t) => req[t].id \in Nat /\ req[t].id <= asked
    BY ActiveIsRequest DEF Changing, At, RowsInv, Requests, Numbers, Numbering
  <2>4. \A t \in Slots : ~At(t, "idle") => req[t].n <= asked
    BY DEF RowsInv, Numbering
  <2>5. (\A t \in Slots : ~At(t, "idle") => req[t].n <= asked)'
    BY <1>2, <1>4, <2>1, <2>4 DEF At
  <2>6. (\A t, u \in Slots : ~At(t, "idle") /\ ~At(u, "idle") /\ req[t].n = req[u].n => t = u)'
    BY <1>2, <1>4, <2>1, <2>4 DEF RowsInv, Numbering, At
  <2>7. (\A t \in Slots, q \in rows : At(t, "post") => req[t].n # q.id)'
    BY <1>2, <2>1, <2>2 DEF RowsInv, Numbering, At
  <2>8. (\A t \in Slots : Changing(t) => req[t].id <= asked)'
    BY <1>2, <2>1, <2>3 DEF Changing
  <2>9. (\A t, u \in Slots : At(t, "post") /\ Changing(u) => req[u].id # req[t].n)'
    BY <1>2, <2>1, <2>3 DEF RowsInv, Numbering, At, Changing
  <2>10. (\A q \in rows : q.id <= asked)'
    BY <2>1, <2>2
  <2> QED
    BY <2>5, <2>6, <2>7, <2>8, <2>9, <2>10 DEF Numbering
<1>6. Reading'
  BY <1>1, <1>2 DEF RowsInv, Reading, At, Start, Fresh, Asks
<1> QED
  BY <1>3, <1>5, <1>6 DEF RowsInv

LEMMA PostRows ==
    ASSUME RowsInv, NEW s \in Slots, Post(s)
    PROVE  RowsInv'
<1>1. CASE UNCHANGED rows
  BY <1>1, Ending DEF Post, RowsInv, Sound, TasksTypeOK, RowsSound
<1>2. CASE /\ Timed(NewRow(req[s])) /\ req[s].user \in users
           /\ rows' = rows \cup {NewRow(req[s])}
  <2>1. PICK new : new = NewRow(req[s])
    OBVIOUS
  <2>2. req[s] \in Requests /\ ~At(s, "idle")
    BY ActiveIsRequest DEF Post, At, RowsInv
  <2>3. new \in Rows /\ new.id = req[s].n /\ new.owner \in users /\ req[s].n <= asked
        /\ (new.kind = "appointment" => new.at # NoTime) /\ rows' = rows \cup {new}
    BY <1>2, <2>1, <2>2, NewRowTyped DEF RowsInv, Numbering, Timed
  <2>4. req'[s] = Idle /\ \A t \in Slots : t # s => req'[t] = req[t]
    BY Replaced DEF Post, Answer, RowsInv
  <2>5. \A r \in rows : r.id # new.id
    BY <2>3 DEF RowsInv, Numbering, Post
  <2>6. Sound'
    BY <2>3, <2>5, ReplacedType DEF Post, Answer, RowsInv, Sound, TasksTypeOK, RowsSound
  <2>7. Numbering'
    BY <2>2, <2>3, <2>4 DEF RowsInv, Numbering, At, Changing, Idle, Post
  <2>8. Reading'
    BY <2>4 DEF RowsInv, Reading, At, Idle
  <2> QED
    BY <2>6, <2>7, <2>8 DEF RowsInv
<1> QED
  BY <1>1, <1>2 DEF Post

LEMMA SelectRows ==
    ASSUME RowsInv, NEW s \in Slots, Select(s)
    PROVE  RowsInv'
<1>1. CASE Answer(s)
  BY <1>1, Ending DEF Select, RowsInv, Sound, TasksTypeOK, RowsSound
<1>2. ASSUME NEW r \in Mine(s), Timed(Filled(req[s], r)),
             req' = [req EXCEPT ![s].pc = "update", ![s].seen = {r}]
      PROVE  RowsInv'
  <2>1. PICK q : q = [req[s] EXCEPT !.pc = "update", !.seen = {r}]
    OBVIOUS
  <2>2. req[s] \in Requests /\ r \in rows /\ r \in Rows
    BY ActiveIsRequest DEF Select, At, RowsInv, Mine, Named, Sound, TasksTypeOK, RowsSound
  <2>3. /\ q \in Requests /\ q.n = req[s].n /\ q.pc = "update" /\ q.id = req[s].id
        /\ q.seen = {r} /\ q.kind = req[s].kind /\ q.user = req[s].user
        /\ q.change = req[s].change
    BY <2>1, <2>2 DEF Requests, Steps
  <2>4. req' = [req EXCEPT ![s] = q]
    BY <1>2, <2>1 DEF RowsInv, Sound, TasksTypeOK, RowsSound
  <2>5. req'[s] = q /\ \A t \in Slots : t # s => req'[t] = req[t]
    BY <2>4, Replaced DEF RowsInv
  <2>6. Sound'
    BY <2>3, <2>4, ReplacedType DEF Select, RowsInv, Sound, TasksTypeOK, RowsSound
  <2>7. Numbering'
    BY <2>3, <2>5 DEF RowsInv, Numbering, At, Changing, Select
  <2>8. Timed(Filled(q, r)) /\ r.kind = q.kind /\ r.id = q.id /\ r.owner = q.user
    BY <1>2, <2>2, <2>3 DEF Timed, Filled, Mine, Named, Requests
  <2>9. Reading'
    BY <2>3, <2>5, <2>8 DEF RowsInv, Reading, At
  <2> QED
    BY <2>6, <2>7, <2>9 DEF RowsInv
<1> QED
  BY <1>1, <1>2 DEF Select

(* The row that an update writes over one, as it was read. *)
LEMMA Written ==
    ASSUME RowsInv, NEW s \in Slots, At(s, "update"), NEW r \in Mine(s), NEW old \in req[s].seen
    PROVE  /\ Filled(req[s], old) \in Rows
           /\ Filled(req[s], old).id = r.id /\ Filled(req[s], old).owner = r.owner
           /\ r.id = req[s].id
           /\ Filled(req[s], old).kind = "appointment" => Filled(req[s], old).at # NoTime
           /\ Filled(req[s], old).title = IF req[s].change.title = Keep THEN old.title
                                          ELSE req[s].n
<1>1. req[s] \in Requests /\ old \in Rows
  BY ActiveIsRequest DEF At, RowsInv, Requests
<1>2. old.id = req[s].id /\ old.owner = req[s].user /\ Timed(Filled(req[s], old))
  BY DEF RowsInv, Reading
<1> QED
  BY <1>1, <1>2, FilledTyped DEF Timed, Mine, Named

LEMMA UpdateRows ==
    ASSUME RowsInv, NEW s \in Slots, Update(s)
    PROVE  RowsInv'
<1>1. CASE UNCHANGED rows
  BY <1>1, Ending DEF Update, RowsInv, Sound, TasksTypeOK, RowsSound
<1>2. ASSUME NEW r \in Mine(s), NEW old \in req[s].seen,
             rows' = (rows \ {r}) \cup {Filled(req[s], old)}
      PROVE  RowsInv'
  <2>1. PICK new : new = Filled(req[s], old)
    OBVIOUS
  <2>2. new \in Rows /\ new.id = r.id /\ new.owner = r.owner /\ r \in rows
        /\ (new.kind = "appointment" => new.at # NoTime) /\ rows' = (rows \ {r}) \cup {new}
    BY <1>2, <2>1, Written DEF Update, Mine, Named
  <2>3. req'[s] = Idle /\ \A t \in Slots : t # s => req'[t] = req[t]
    BY Replaced DEF Update, Answer, RowsInv
  <2>4. Sound'
    BY <2>2, ReplacedType DEF Update, Answer, RowsInv, Sound, TasksTypeOK, RowsSound
  <2>5. Numbering'
    BY <2>2, <2>3 DEF RowsInv, Numbering, At, Changing, Idle, Update
  <2>6. Reading'
    BY <2>3 DEF RowsInv, Reading, At, Idle
  <2> QED
    BY <2>4, <2>5, <2>6 DEF RowsInv
<1> QED
  BY <1>1, <1>2 DEF Update

LEMMA EndRows ==
    ASSUME RowsInv, NEW s \in Slots, Delete(s) \/ DeleteAccount(s) \/ Crash(s)
    PROVE  RowsInv'
<1>1. CASE Delete(s)
  BY <1>1, Ending DEF Delete, RowsInv, Sound, TasksTypeOK, RowsSound
<1>2. CASE DeleteAccount(s)
  BY <1>2, Ending DEF DeleteAccount, RowsInv, Sound, TasksTypeOK, RowsSound
<1>3. CASE Crash(s)
  BY <1>3, Ending DEF Crash, RowsInv, Sound, TasksTypeOK, RowsSound
<1> QED
  BY <1>1, <1>2, <1>3

LEMMA ReadRows ==
    ASSUME RowsInv, NEW s \in Slots, ReadTasks(s) \/ ReadAppointments(s)
    PROVE  RowsInv'
<1>1. req[s] \in Requests /\ ~At(s, "idle")
  BY ActiveIsRequest DEF At, RowsInv, ReadTasks, ReadAppointments
<1>2. PICK seen, pc : /\ seen \subseteq Rows /\ pc \in {"appointments", "shown"}
                      /\ req' = [req EXCEPT ![s].pc = pc, ![s].seen = seen]
  <2>1. CASE ReadTasks(s)
    BY <2>1 DEF ReadTasks, Due, RowsInv, Sound, TasksTypeOK, RowsSound
  <2>2. CASE ReadAppointments(s)
    BY <2>2, <1>1 DEF ReadAppointments, Due, RowsInv, Sound, TasksTypeOK, RowsSound, Requests
  <2> QED
    BY <2>1, <2>2
<1>3. PICK q : q = [req[s] EXCEPT !.pc = pc, !.seen = seen]
  OBVIOUS
<1>4. /\ q \in Requests /\ q.n = req[s].n /\ q.pc = pc
  BY <1>1, <1>2, <1>3 DEF Requests, Steps
<1>5. req' = [req EXCEPT ![s] = q]
  BY <1>2, <1>3 DEF RowsInv, Sound, TasksTypeOK, RowsSound
<1>6. req'[s] = q /\ \A t \in Slots : t # s => req'[t] = req[t]
  BY <1>5, Replaced DEF RowsInv
<1>7. UNCHANGED <<users, rows, asked, now>>
  BY DEF ReadTasks, ReadAppointments
<1>8. Sound'
  BY <1>4, <1>5, <1>7, ReplacedType DEF RowsInv, Sound, TasksTypeOK, RowsSound
<1>9. Numbering'
  <2>1. \A t \in Slots : /\ req'[t].pc = "idle" <=> req[t].pc = "idle"
                         /\ req'[t].pc # "idle" => req'[t].n = req[t].n
                         /\ req'[t].pc = "post" => req[t].pc = "post"
                         /\ req'[t].pc \in {"select", "update"} => req'[t] = req[t]
    BY <1>1, <1>2, <1>4, <1>6 DEF At
  <2> QED
    BY <1>7, <2>1 DEF RowsInv, Numbering, At, Changing
<1>10. Reading'
  BY <1>2, <1>4, <1>6 DEF RowsInv, Reading, At
<1> QED
  BY <1>8, <1>9, <1>10 DEF RowsInv

LEMMA RowsStep ==
    ASSUME RowsInv, [TasksNext]_tasksVars
    PROVE  RowsInv'
<1>1. CASE HourPasses
  BY <1>1, TasksConstants DEF HourPasses, RowsInv, Sound, TasksTypeOK, RowsSound, Numbering, Reading, At, Changing
<1>2. CASE UNCHANGED tasksVars
  BY <1>2 DEF tasksVars, RowsInv, Sound, TasksTypeOK, RowsSound, Numbering, Reading, At, Changing
<1> QED
  BY <1>1, <1>2, AskRows, PostRows, SelectRows, UpdateRows, EndRows, ReadRows
  DEF TasksNext, Serve, NobodyAsks

-----------------------------------------------------------------------------
(* Rows and requests from one state to the next. *)

(* What becomes of a request: it is as it was, or ended, or went on. *)
LEMMA Moves ==
    ASSUME RowsInv, [TasksNext]_tasksVars, NEW t \in Slots
    PROVE  \/ req'[t] = req[t]
           \/ req'[t] = Idle
           \/ /\ req'[t].pc \in Asks /\ req'[t].n = asked + 1 /\ asked + 1 \in Numbers
              /\ UNCHANGED rows
              /\ ~At(t, "idle") => req'[t].n # req[t].n
           \/ /\ req'[t].pc = "update"
              /\ \E r \in rows : req'[t].seen = {r} /\ r.id = req'[t].id
           \/ ReadTasks(t) \/ ReadAppointments(t)
<1>1. ASSUME NEW s \in Slots, AskSomething(s)
      PROVE  \/ req'[t] = req[t]
             \/ /\ req'[t].pc \in Asks /\ req'[t].n = asked + 1 /\ asked + 1 \in Numbers
                /\ UNCHANGED rows
                /\ ~At(t, "idle") => req'[t].n # req[t].n
  <2>1. PICK r \in Requests : Fresh(r) /\ Start(s, r)
    BY <1>1, Asking DEF RowsInv
  <2>2. req'[s] = r /\ (t # s => req'[t] = req[t])
    BY <2>1, Replaced DEF Start, RowsInv
  <2>3. ~At(s, "idle") => req[s].n \in Nat /\ req[s].n <= asked /\ asked \in Nat
    BY ActiveIsRequest DEF Requests, Numbers, RowsInv, Sound, TasksTypeOK, RowsSound, Numbering
  <2>4. asked + 1 \in Numbers /\ UNCHANGED rows
    BY <2>1, TasksConstants DEF Start, Numbers, RowsInv, Sound, TasksTypeOK, RowsSound
  <2> QED
    BY <2>1, <2>2, <2>3, <2>4 DEF Fresh
<1>2. ASSUME NEW s \in Slots, Answer(s)
      PROVE  req'[t] = req[t] \/ req'[t] = Idle
  BY <1>2, Replaced DEF Answer, RowsInv
<1>3. ASSUME NEW s \in Slots, Select(s)
      PROVE  \/ req'[t] = req[t] \/ req'[t] = Idle
             \/ /\ req'[t].pc = "update"
                /\ \E r \in rows : req'[t].seen = {r} /\ r.id = req'[t].id
  <2>1. CASE Answer(s)
    BY <2>1, <1>2
  <2>2. ASSUME NEW r \in Mine(s), req' = [req EXCEPT ![s].pc = "update", ![s].seen = {r}]
        PROVE  \/ req'[t] = req[t]
               \/ /\ req'[t].pc = "update"
                  /\ \E q \in rows : req'[t].seen = {q} /\ q.id = req'[t].id
    <3>1. req[s] \in Requests
      BY <1>3, ActiveIsRequest DEF Select, At, RowsInv
    <3>2. PICK q : q = [req[s] EXCEPT !.pc = "update", !.seen = {r}]
      OBVIOUS
    <3>3. req' = [req EXCEPT ![s] = q]
      BY <2>2, <3>2 DEF RowsInv, Sound, TasksTypeOK, RowsSound
    <3>4. req'[s] = q /\ (t # s => req'[t] = req[t])
      BY <3>3, Replaced DEF RowsInv
    <3>5. q.pc = "update" /\ q.seen = {r} /\ q.id = r.id /\ r \in rows
      BY <3>1, <3>2 DEF Requests, Mine, Named
    <3> QED
      BY <3>4, <3>5
  <2> QED
    BY <1>3, <2>1, <2>2 DEF Select
<1>4. ASSUME NEW s \in Slots, ReadTasks(s) \/ ReadAppointments(s)
      PROVE  req'[t] = req[t] \/ ReadTasks(t) \/ ReadAppointments(t)
  BY <1>4 DEF ReadTasks, ReadAppointments, RowsInv, Sound, TasksTypeOK, RowsSound
<1>5. CASE HourPasses \/ UNCHANGED tasksVars
  BY <1>5 DEF HourPasses, tasksVars
<1> QED
  BY <1>1, <1>2, <1>3, <1>4, <1>5
  DEF TasksNext, Serve, NobodyAsks, Post, Update, Delete, DeleteAccount, Crash

LEMMA ReadingOn ==
    ASSUME Sound, NEW s \in Slots
    PROVE  /\ ReadTasks(s)
              => req'[s] = [req[s] EXCEPT !.pc = "appointments", !.seen = Due(s, "task")]
           /\ ReadAppointments(s)
              => req'[s] = [req[s] EXCEPT !.pc = "shown", !.seen = @ \cup Due(s, "appointment")]
           /\ ReadTasks(s) \/ ReadAppointments(s)
              => req[s] \in Requests /\ req'[s].pc \in {"appointments", "shown"}
<1>1. ReadTasks(s) \/ ReadAppointments(s) => req[s] \in Requests
  BY ActiveIsRequest DEF ReadTasks, ReadAppointments, At
<1>2. /\ ReadTasks(s)
         => req'[s] = [req[s] EXCEPT !.pc = "appointments", !.seen = Due(s, "task")]
      /\ ReadAppointments(s)
         => req'[s] = [req[s] EXCEPT !.pc = "shown", !.seen = @ \cup Due(s, "appointment")]
  BY DEF ReadTasks, ReadAppointments, Sound, TasksTypeOK, RowsSound
<1> QED
  BY <1>1, <1>2 DEF Requests

(* A step that is no update adds a row when an insertion does; an update   *)
(* leaves the rows or writes one over.                                     *)
LEMMA NewRows ==
    ASSUME RowsInv, [TasksNext]_tasksVars
    PROVE  \/ \A r \in rows' : \/ r \in rows
                               \/ \E s \in Slots : /\ At(s, "post") /\ r.id = req[s].n
                                                   /\ r.title = req[s].n
           \/ \E s \in Slots : Update(s) /\ rows' # rows
<1>1. ASSUME NEW s \in Slots, AskSomething(s) PROVE UNCHANGED rows
  BY <1>1, Asking DEF Start, RowsInv
<1>2. ASSUME NEW s \in Slots, Post(s)
      PROVE  \A r \in rows' : r \in rows \/ (At(s, "post") /\ r.id = req[s].n /\ r.title = req[s].n)
  <2>1. req[s] \in Requests
    BY <1>2, ActiveIsRequest DEF Post, At, RowsInv
  <2> QED
    BY <1>2, <2>1, NewRowTyped DEF Post
<1>3. ASSUME NEW s \in Slots, Delete(s) \/ DeleteAccount(s) \/ Crash(s) \/ Select(s)
                              \/ ReadTasks(s) \/ ReadAppointments(s)
      PROVE  rows' \subseteq rows
  BY <1>3 DEF Delete, DeleteAccount, Crash, Select, ReadTasks,
        ReadAppointments
<1>4. CASE HourPasses \/ UNCHANGED tasksVars
  BY <1>4 DEF HourPasses, tasksVars
<1> QED
  BY <1>1, <1>2, <1>3, <1>4 DEF TasksNext, Serve, NobodyAsks

LEMMA GoneStep ==
    ASSUME RowsInv, [TasksNext]_tasksVars
    PROVE  \A r \in rows' : \/ \E q \in rows : q.id = r.id
                            \/ \E s \in Slots : At(s, "post") /\ req[s].n = r.id
<1>1. ASSUME NEW s \in Slots, Update(s)
      PROVE  \A r \in rows' : \E q \in rows : q.id = r.id
  <2>1. CASE UNCHANGED rows
    BY <2>1
  <2>2. ASSUME NEW r \in Mine(s), NEW old \in req[s].seen,
               rows' = (rows \ {r}) \cup {Filled(req[s], old)}
        PROVE  \A p \in rows' : \E q \in rows : q.id = p.id
    BY <1>1, <2>2, Written DEF Update, Mine, Named
  <2> QED
    BY <1>1, <2>1, <2>2 DEF Update
<1> QED
  BY <1>1, NewRows

-----------------------------------------------------------------------------
(* The titles. *)

(* A change that read its row before another one of the row was written    *)
(* crosses it.                                                             *)
Titles ==
    /\ TitlesKept
    /\ Crossing \subseteq crossed
    /\ \A n \in Numbers : n > asked => wanted[n] = n
    /\ \A s \in Slots : At(s, "post") => wanted[req[s].n] = req[s].n
    /\ \A s \in Slots : At(s, "update") =>
           \A old \in req[s].seen :
               old.title = wanted[req[s].id] \/ wanted[req[s].id] \in crossed

LEMMA WriterUpdates ==
    ASSUME RowsInv, [TasksNext]_tasksVars
    PROVE  /\ \A s \in Writer : Update(s) /\ rows' # rows
           /\ \A s \in Slots : Update(s) /\ rows' # rows => Writer = {s}
<1>1. ASSUME NEW s \in Writer PROVE Update(s) /\ rows' # rows
  <2>1. s \in Slots /\ At(s, "update") /\ req'[s] = Idle /\ rows' # rows
    BY <1>1 DEF Writer
  <2>2. ASSUME NEW t \in Slots, t # s, req'[s] = req[s] PROVE FALSE
    BY <2>1, <2>2 DEF At, Idle
  <2>3. ASSUME NEW t \in Slots, AskSomething(t) PROVE FALSE
    BY <2>1, <2>3, Asking DEF Start, RowsInv
  <2>4. ASSUME NEW t \in Slots, Post(t) \/ Delete(t) \/ DeleteAccount(t) PROVE FALSE
    BY <2>1, <2>4, Replaced DEF Post, Delete, DeleteAccount, Answer, At, Idle, RowsInv
  <2>5. ASSUME NEW t \in Slots, Update(t) PROVE t = s
    BY <2>1, <2>5, Replaced DEF Update, Answer, At, Idle, RowsInv
  <2> QED
    BY <2>1, <2>3, <2>4, <2>5
    DEF TasksNext, Serve, NobodyAsks, tasksVars, HourPasses, Crash, Select, ReadTasks,
        ReadAppointments
<1>2. ASSUME NEW s \in Slots, Update(s), rows' # rows PROVE Writer = {s}
  <2>1. req'[s] = Idle /\ \A t \in Slots : t # s => req'[t] = req[t]
    BY <1>2, Replaced DEF Update, Answer, RowsInv
  <2>2. \A t \in Slots : t # s => t \notin Writer
    BY <2>1 DEF Writer, At, Idle
  <2> QED
    BY <1>2, <2>1, <2>2 DEF Writer, Update
<1> QED
  BY <1>1, <1>2

LEMMA WantedStays ==
    ASSUME TracedNext, Writer = {}, NEW n \in Numbers
    PROVE  wanted'[n] = wanted[n]
BY DEF TracedNext

LEMMA WantedMoves ==
    ASSUME TracedNext, NEW s \in Slots, Writer = {s}, NEW n \in Numbers
    PROVE  wanted'[n] = IF req[s].id = n /\ req[s].change.title = "set"
                        THEN req[s].n ELSE wanted[n]
<1>1. (CHOOSE t \in Writer : TRUE) = s
  OBVIOUS
<1> QED
  BY <1>1 DEF TracedNext

LEMMA TitlesInit == ASSUME TracedInit PROVE Titles
<1>1. \A s \in Slots : req[s].pc = "idle"
  BY DEF TracedInit, TasksInit, Idle
<1>2. Crossing = {}
  BY <1>1 DEF Crossing, ChangesUnderWay
<1> QED
  BY <1>1, <1>2 DEF TracedInit, TasksInit, Titles, TitlesKept, At

(* No row is written over. *)
LEMMA TitlesStay ==
    ASSUME RowsInv, Titles, TasksNext, TracedNext, Writer = {}
    PROVE  Titles'
<1>0. asked \in Nat /\ asked' \in Nat /\ asked <= asked' /\ Numbers \subseteq Nat
  <2>1. asked \in Nat
    BY DEF RowsInv, Sound, TasksTypeOK, RowsSound
  <2>2. asked' = asked \/ asked' = asked + 1
    BY Asking
    DEF TasksNext, Serve, NobodyAsks, tasksVars, HourPasses, Crash, Select, ReadTasks,
        ReadAppointments, Start,
        Post, Update, Delete, DeleteAccount, RowsInv
  <2> QED
    BY <2>1, <2>2 DEF Numbers
<1>1. \A n \in Numbers : wanted'[n] = wanted[n]
  BY WantedStays
<1>2. crossed \subseteq crossed' /\ Crossing' \subseteq crossed'
  BY DEF TracedNext
<1>3. \A r \in rows : r.id \in Numbers
  BY DEF RowsInv, Sound, TasksTypeOK, RowsSound, Rows
<1>3a. [TasksNext]_tasksVars
  OBVIOUS
<1>4. TitlesKept'
  <2>1. ASSUME NEW s \in Slots, Update(s), rows' # rows PROVE FALSE
    BY <2>1, WriterUpdates
  <2>2. ASSUME NEW r \in rows', r \notin rows
        PROVE  r.title = wanted'[r.id]
    <3>1. PICK s \in Slots : At(s, "post") /\ r.id = req[s].n /\ r.title = req[s].n
      BY <2>1, <2>2, NewRows
    <3>2. req[s].n \in Numbers
      BY <3>1, ActiveIsRequest DEF At, RowsInv, Requests
    <3> QED
      BY <1>1, <3>1, <3>2 DEF Titles
  <2> QED
    BY <1>1, <1>2, <1>3, <2>2 DEF Titles, TitlesKept
<1>5. (\A n \in Numbers : n > asked => wanted[n] = n)'
  BY <1>0, <1>1 DEF Titles
<1>6. (\A s \in Slots : At(s, "post") => wanted[req[s].n] = req[s].n)'
  <2>1. ASSUME NEW s \in Slots, req'[s].pc = "post"
        PROVE  wanted'[req'[s].n] = req'[s].n
    <3>1. CASE req'[s] = req[s]
      BY <1>1, <2>1, <3>1, ActiveIsRequest DEF Titles, At, RowsInv, Requests
    <3>2. CASE req'[s].n = asked + 1 /\ asked + 1 \in Numbers
      BY <1>0, <1>1, <3>2 DEF Titles
    <3>3. Idle.pc = "idle" /\ ~ReadTasks(s) /\ ~ReadAppointments(s)
      BY <2>1, ReadingOn DEF Idle, RowsInv
    <3> QED
      BY <1>3a, <2>1, <3>1, <3>2, <3>3, Moves
  <2> QED
    BY <2>1 DEF At
<1>7. (\A s \in Slots : At(s, "update") =>
         \A old \in req[s].seen :
             old.title = wanted[req[s].id] \/ wanted[req[s].id] \in crossed)'
  <2>1. ASSUME NEW s \in Slots, req'[s].pc = "update", NEW old \in req'[s].seen
        PROVE  old.title = wanted'[req'[s].id] \/ wanted'[req'[s].id] \in crossed'
    <3>1. CASE req'[s] = req[s]
      BY <1>1, <1>2, <2>1, <3>1, ActiveIsRequest DEF Titles, At, RowsInv, Requests
    <3>2. CASE \E r \in rows : req'[s].seen = {r} /\ r.id = req'[s].id
      BY <1>1, <1>2, <1>3, <2>1, <3>2 DEF Titles, TitlesKept
    <3>3. Idle.pc = "idle" /\ ~ReadTasks(s) /\ ~ReadAppointments(s) /\ req'[s].pc \notin Asks
      BY <2>1, ReadingOn DEF Idle, RowsInv, Asks
    <3> QED
      BY <1>3a, <2>1, <3>1, <3>2, <3>3, Moves
  <2> QED
    BY <2>1 DEF At
<1> QED
  BY <1>2, <1>4, <1>5, <1>6, <1>7 DEF Titles

(* An update writes a row over. *)
LEMMA TitlesMove ==
    ASSUME RowsInv, Titles, TracedNext, NEW s \in Slots, Writer = {s}, Update(s)
    PROVE  Titles'
<1>0. req[s] \in Requests /\ req[s].id \in Numbers /\ UNCHANGED asked
  BY ActiveIsRequest DEF Update, At, RowsInv, Requests
<1>1. \A n \in Numbers :
         wanted'[n] = IF req[s].id = n /\ req[s].change.title = "set"
                      THEN req[s].n ELSE wanted[n]
  BY WantedMoves
<1>2. crossed \subseteq crossed' /\ Crossing' \subseteq crossed'
  BY DEF TracedNext
<1>3. req'[s] = Idle /\ \A t \in Slots : t # s => req'[t] = req[t]
  BY Replaced DEF Update, Answer, RowsInv
<1>4. \A r \in rows : r.id \in Numbers
  BY DEF RowsInv, Sound, TasksTypeOK, RowsSound, Rows
<1>5. TitlesKept'
  <2>0. s \in Writer
    OBVIOUS
  <2>1. PICK r \in Mine(s), old \in req[s].seen :
             rows' = (rows \ {r}) \cup {Filled(req[s], old)}
    BY <2>0 DEF Update, Writer
  <2>2. PICK new : new = Filled(req[s], old)
    OBVIOUS
  <2>3. /\ new.id = r.id /\ r.id = req[s].id /\ r \in rows
        /\ new.title = IF req[s].change.title = Keep THEN old.title ELSE req[s].n
    BY <2>1, <2>2, Written DEF Update, Mine, Named
  <2>4. \A q \in rows : q # r => q.id # req[s].id
    BY <2>3 DEF RowsInv, Sound, TasksTypeOK, RowsSound
  <2>5. ASSUME NEW q \in rows, q # r
        PROVE  q.title = wanted'[q.id] \/ wanted'[q.id] \in crossed'
    BY <1>1, <1>2, <1>4, <2>4, <2>5 DEF Titles, TitlesKept
  <2>6. new.title = wanted'[new.id] \/ wanted'[new.id] \in crossed'
    <3>1. CASE req[s].change.title = "set"
      BY <1>0, <1>1, <2>3, <3>1 DEF Keep
    <3>2. CASE req[s].change.title = Keep
      BY <1>0, <1>1, <1>2, <2>3, <3>2 DEF Keep, Titles, Update
    <3> QED
      BY <1>0, <3>1, <3>2 DEF Requests, Changes
  <2>7. \A q \in rows' : q = new \/ (q \in rows /\ q # r)
    BY <2>1, <2>2
  <2> QED
    BY <2>5, <2>6, <2>7 DEF TitlesKept
<1>6. (\A n \in Numbers : n > asked => wanted[n] = n)'
  BY <1>0, <1>1 DEF Titles, RowsInv, Numbering, Changing, Update, At, Numbers, Sound, TasksTypeOK, RowsSound
<1>7. (\A t \in Slots : At(t, "post") => wanted[req[t].n] = req[t].n)'
  <2>1. ASSUME NEW t \in Slots, req'[t].pc = "post"
        PROVE  wanted'[req'[t].n] = req'[t].n
    <3>1. t # s /\ req'[t] = req[t]
      BY <1>3, <2>1 DEF Idle
    <3>2. req[s].id # req[t].n /\ req[t].n \in Numbers
      BY <2>1, <3>1, ActiveIsRequest DEF RowsInv, Numbering, Changing, Update, At, Requests
    <3> QED
      BY <1>1, <2>1, <3>1, <3>2 DEF Titles, At
  <2> QED
    BY <2>1 DEF At
<1>8. (\A t \in Slots : At(t, "update") =>
         \A old \in req[t].seen :
             old.title = wanted[req[t].id] \/ wanted[req[t].id] \in crossed)'
  <2>1. ASSUME NEW t \in Slots, req'[t].pc = "update", NEW old \in req'[t].seen
        PROVE  old.title = wanted'[req'[t].id] \/ wanted'[req'[t].id] \in crossed'
    <3>1. t # s /\ req'[t] = req[t]
      BY <1>3, <2>1 DEF Idle
    <3>2. req[t].id \in Numbers
      BY <2>1, <3>1, ActiveIsRequest DEF At, RowsInv, Requests
    <3>3. CASE req[t].id = req[s].id
      <4>1. req[s].n \in Crossing
        BY <2>1, <3>1, <3>3 DEF Crossing, ChangesUnderWay, Update, At
      <4> QED
        BY <1>1, <1>2, <2>1, <3>1, <3>2, <4>1 DEF Titles, At
    <3>4. CASE req[t].id # req[s].id
      BY <1>1, <1>2, <2>1, <3>1, <3>2, <3>4 DEF Titles, At
    <3> QED
      BY <3>3, <3>4
  <2> QED
    BY <2>1 DEF At
<1> QED
  BY <1>2, <1>5, <1>6, <1>7, <1>8 DEF Titles

LEMMA TitlesStep ==
    ASSUME RowsInv, Titles, [TracedNext]_tracedVars
    PROVE  Titles'
<1>1. CASE TracedNext
  <2>1. TasksNext /\ [TasksNext]_tasksVars
    BY <1>1 DEF TracedNext
  <2>2. CASE Writer = {}
    BY <1>1, <2>1, <2>2, TitlesStay
  <2>3. ASSUME NEW s \in Writer PROVE Titles'
    <3>1. s \in Slots /\ Update(s) /\ rows' # rows /\ Writer = {s}
      BY <2>1, <2>3, WriterUpdates DEF Writer
    <3> QED
      BY <1>1, <3>1, TitlesMove
  <2> QED
    BY <2>2, <2>3
<1>2. CASE UNCHANGED tracedVars
  BY <1>2 DEF tracedVars, tasksVars, Titles, TitlesKept, Crossing, ChangesUnderWay, At
<1> QED
  BY <1>1, <1>2

-----------------------------------------------------------------------------
(* The reminders. *)

(* What a list under way has seen, and what there was meanwhile. *)
Listing ==
    \A s \in Slots :
        /\ req[s].pc \in {"tasks", "appointments"} => always[s] \subseteq rows /\ rows \subseteq ever[s]
        /\ At(s, "appointments") =>
              /\ {q \in DueIn(always[s], req[s]) : q.kind = "task"} \subseteq req[s].seen
              /\ req[s].seen \subseteq DueIn(ever[s], req[s])

LEMMA ListingInit == ASSUME TracedInit PROVE Listing /\ RemindersTrue
BY DEF TracedInit, TasksInit, Idle, Listing, RemindersTrue, At

(* What the history keeps of a list, in the terms of its request. *)
LEMMA Followed ==
    ASSUME TracedNext, NEW s \in Slots, Lists(s)'
    PROVE  /\ ~Lists(s) \/ req'[s].n # req[s].n => always'[s] = rows' /\ ever'[s] = rows'
           /\ Lists(s) /\ req'[s].n = req[s].n /\ At(s, "shown")
              => always'[s] = always[s] /\ ever'[s] = ever[s]
           /\ Lists(s) /\ req'[s].n = req[s].n /\ ~At(s, "shown")
              => always'[s] = always[s] \cap rows' /\ ever'[s] = ever[s] \cup rows'
<1>1. always'[s] = IF ~Lists(s) \/ req'[s].n # req[s].n THEN rows'
                   ELSE IF At(s, "shown") THEN always[s] ELSE always[s] \cap rows'
  BY DEF TracedNext
<1>2. ever'[s] = IF ~Lists(s) \/ req'[s].n # req[s].n THEN rows'
                 ELSE IF At(s, "shown") THEN ever[s] ELSE ever[s] \cup rows'
  BY DEF TracedNext
<1> QED
  BY <1>1, <1>2

ListOf(r, a, e, there) ==
    /\ r.pc \in {"tasks", "appointments"} => a \subseteq there /\ there \subseteq e
    /\ r.pc = "appointments" => /\ {q \in DueIn(a, r) : q.kind = "task"} \subseteq r.seen
                                /\ r.seen \subseteq DueIn(e, r)
    /\ r.pc = "shown" => DueIn(a, r) \subseteq r.seen /\ r.seen \subseteq DueIn(e, r)

LEMMA ListingIs ==
    Listing /\ RemindersTrue <=> \A s \in Slots : ListOf(req[s], always[s], ever[s], rows)
BY DEF Listing, RemindersTrue, ListOf, At

LEMMA ListStep ==
    ASSUME RowsInv, Listing, RemindersTrue, TracedNext, NEW s \in Slots
    PROVE  ListOf(req'[s], always'[s], ever'[s], rows')
<1>0. ListOf(req[s], always[s], ever[s], rows) /\ [TasksNext]_tasksVars
  BY ListingIs DEF TracedNext
<1>1. CASE req'[s] = req[s]
  <2>1. CASE ~Lists(s)
    BY <1>1, <2>1 DEF ListOf, Lists
  <2>2. CASE Lists(s)
    <3>1. Lists(s)'
      BY <1>1, <2>2 DEF Lists
    <3>2. CASE At(s, "shown")
      BY <1>0, <1>1, <2>2, <3>1, <3>2, Followed DEF ListOf, At
    <3>3. CASE ~At(s, "shown")
      <4>1. always'[s] = always[s] \cap rows' /\ ever'[s] = ever[s] \cup rows'
        BY <1>1, <2>2, <3>1, <3>3, Followed
      <4> QED
        BY <1>0, <1>1, <3>3, <4>1 DEF ListOf, At, DueIn
    <3> QED
      BY <3>2, <3>3
  <2> QED
    BY <2>1, <2>2
<1>2. CASE req'[s] = Idle
  BY <1>2 DEF Idle, ListOf
<1>3. CASE req'[s].pc \in Asks /\ (~At(s, "idle") => req'[s].n # req[s].n)
  <2>1. CASE req'[s].pc = "tasks"
    <3>1. Lists(s)' /\ (Lists(s) => req'[s].n # req[s].n)
      BY <1>3, <2>1 DEF Lists, At
    <3>2. always'[s] = rows' /\ ever'[s] = rows'
      BY <3>1, Followed
    <3> QED
      BY <2>1, <3>2 DEF ListOf
  <2> QED
    BY <1>3, <2>1 DEF ListOf, Asks
<1>4. CASE req'[s].pc = "update"
  BY <1>4 DEF ListOf
<1>5. CASE ReadTasks(s)
  <2>1. PICK q : q = [req[s] EXCEPT !.pc = "appointments", !.seen = Due(s, "task")]
    OBVIOUS
  <2>2. /\ req'[s] = q /\ req[s] \in Requests /\ q.pc = "appointments" /\ q.n = req[s].n
        /\ q.seen = Due(s, "task") /\ q.user = req[s].user /\ q.from = req[s].from
        /\ At(s, "tasks") /\ rows' = rows
    BY <1>5, <2>1, ReadingOn DEF RowsInv, Requests, ReadTasks
  <2>3. always'[s] = always[s] \cap rows /\ ever'[s] = ever[s] \cup rows
    BY <2>2, Followed DEF Lists, At
  <2> QED
    BY <1>0, <2>2, <2>3 DEF ListOf, At, DueIn, Due
<1>6. CASE ReadAppointments(s)
  <2>1. PICK q : q = [req[s] EXCEPT !.pc = "shown", !.seen = @ \cup Due(s, "appointment")]
    OBVIOUS
  <2>2. /\ req'[s] = q /\ req[s] \in Requests /\ q.pc = "shown" /\ q.n = req[s].n
        /\ q.seen = req[s].seen \cup Due(s, "appointment")
        /\ q.user = req[s].user /\ q.from = req[s].from
        /\ At(s, "appointments") /\ rows' = rows
    BY <1>6, <2>1, ReadingOn DEF RowsInv, Requests, ReadAppointments
  <2>3. always'[s] = always[s] \cap rows /\ ever'[s] = ever[s] \cup rows
    BY <2>2, Followed DEF Lists, At
  <2>4. \A r \in rows : r.kind \in {"task", "appointment"}
    BY DEF RowsInv, Sound, TasksTypeOK, RowsSound, Rows, Kinds
  <2> QED
    BY <1>0, <2>2, <2>3, <2>4 DEF ListOf, At, DueIn, Due
<1> QED
  BY <1>0, <1>1, <1>2, <1>3, <1>4, <1>5, <1>6, Moves

LEMMA ListingStep ==
    ASSUME RowsInv, Listing, RemindersTrue, [TracedNext]_tracedVars
    PROVE  Listing' /\ RemindersTrue'
<1>1. CASE TracedNext
  <2>1. \A s \in Slots : ListOf(req'[s], always'[s], ever'[s], rows')
    BY <1>1, ListStep
  <2> QED
    BY <2>1 DEF Listing, RemindersTrue, ListOf, At
<1>2. CASE UNCHANGED tracedVars
  BY <1>2 DEF tracedVars, tasksVars, Listing, RemindersTrue, At
<1> QED
  BY <1>1, <1>2

-----------------------------------------------------------------------------
(* What holds of every behaviour. *)

LEMMA TasksAlways == TracedSpec => [](RowsInv /\ Titles /\ Listing /\ RemindersTrue)
<1>1. TracedInit => RowsInv /\ Titles /\ Listing /\ RemindersTrue
  BY RowsInit, TitlesInit, ListingInit DEF TracedInit
<1>2. RowsInv /\ Titles /\ Listing /\ RemindersTrue /\ [TracedNext]_tracedVars
      => (RowsInv /\ Titles /\ Listing /\ RemindersTrue)'
  <2>1. [TracedNext]_tracedVars => [TasksNext]_tasksVars
    BY DEF TracedNext, tracedVars
  <2> QED
    BY <2>1, RowsStep, TitlesStep, ListingStep
<1> QED
  BY <1>1, <1>2, PTL DEF TracedSpec

LEMMA RowsAlways == TasksSpec => []RowsInv
<1>1. RowsInv /\ [TasksNext]_tasksVars => RowsInv'
  BY RowsStep
<1>2. TasksInit => RowsInv
  BY RowsInit
<1> QED
  BY <1>1, <1>2, PTL DEF TasksSpec

(* Every variable of Tasks has its type. *)
THEOREM RowsTyped == TasksSpec => []TasksTypeOK
<1>1. RowsInv => TasksTypeOK
  BY DEF RowsInv, Sound
<1> QED
  BY <1>1, RowsAlways, PTL

(* However changes, deletions and account deletions overlap, an id names   *)
(* one row, of a user who exists, and an appointment has a time.           *)
THEOREM RowsAreSound == TasksSpec => []RowsSound
<1>1. RowsInv => RowsSound
  BY DEF RowsInv, Sound
<1> QED
  BY <1>1, RowsAlways, PTL

(* No step brings a row back: an id is in the tables after a step only if  *)
(* it was before, or if the request of that number has just inserted it.   *)
THEOREM GoneRowsStay == TasksSpec => GoneStaysGone
<1>1. RowsInv /\ [TasksNext]_tasksVars
      => [\A r \in rows' : \/ \E q \in rows : q.id = r.id
                           \/ \E s \in Slots : At(s, "post") /\ req[s].n = r.id]_tasksVars
  BY GoneStep
<1> QED
  BY <1>1, RowsAlways, PTL DEF TasksSpec, GoneStaysGone

(* A title is the last one asked for, unless the change that asked for it  *)
(* was under way together with another one of its row.                     *)
THEOREM TitlesAreKept == TracedSpec => []TitlesKept
<1>1. Titles => TitlesKept
  BY DEF Titles
<1> QED
  BY <1>1, TasksAlways, PTL

(* A reminder list has everything that was due all the while it was made,  *)
(* and nothing that was due at no moment of it.                            *)
THEOREM RemindersAreTrue == TracedSpec => []RemindersTrue
BY TasksAlways, PTL
=============================================================================
