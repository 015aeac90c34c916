---------------------------- MODULE AccountsProofs ----------------------------
(***************************************************************************)
(* Accounts for any number of requests, tabs, browsers, sessions, links    *)
(* and failures: the type invariant, and every invariant of the runs.      *)
(*                                                                         *)
(* The frame of all proofs is RequestMoves: a step belongs to one request, *)
(* which is sent, works, is answered or loses its client, or to the clock. *)
(***************************************************************************)
EXTENDS Accounts, TLAPS

Working ==
    {"find", "refuse", "issue", "revokeOld", "load", "revoke", "revokeAll", "lockout",
     "password", "incr", "expire", "lock", "restart", "clear", "user", "newUser", "dropLinks",
     "newLink", "link", "setPassword", "useLink", "setVerified", "pending", "newInvite", "invitation",
     "withdraw"}

(* Where a request starts. *)
Entrances == {"find", "refuse", "lockout", "user", "link", "pending", "invitation"}

(* The request was sent by this step. *)
Sends(r) ==
    /\ at[r] = "idle" /\ at'[r] \in Entrances
    /\ req'[r].answer = None /\ req'[r].heard = TRUE
    /\ req'[r].kind = "refresh" =>
           /\ ~Waits(req'[r].tab, "refresh") /\ at'[r] \in {"find", "refuse"}
    /\ req'[r].kind \in {"invite", "withdraw"} \/ req'[r].tab \in Tabs
    /\ req'[r].kind \in {"refresh", "logout"} => req'[r].sent = cookie[BrowserOf[req'[r].tab]]
    /\ req'[r].kind \notin {"refresh", "logout"} => req'[r].sent = None
    /\ at'[r] = "find" => req'[r].kind \in {"refresh", "logout"} /\ req'[r].sent # None
    /\ at'[r] = "lockout" <=> req'[r].kind = "login"
    /\ at'[r] = "refuse" => req'[r].kind \in {"refresh", "logout"}
    /\ at'[r] = "user" => req'[r].kind \in {"register", "resend", "forgot"}
    /\ at'[r] = "link" => req'[r].kind \in {"verify", "reset", "accept"}
    /\ req'[r].kind = "invite" <=> at'[r] = "pending"
    /\ req'[r].kind = "withdraw" <=> at'[r] = "invitation"
    /\ UNCHANGED <<rows, redis, browser, cuts>>

(* One statement of its handler. *)
Works(r) ==
    /\ at[r] \in Working
    /\ req'[r].kind = req[r].kind /\ req'[r].tab = req[r].tab /\ req'[r].sent = req[r].sent
    /\ req'[r].link = req[r].link /\ req'[r].heard = req[r].heard
    /\ at[r] # "find" => req'[r].beside = req[r].beside
    /\ \/ at'[r] \in Working /\ req'[r].answer = req[r].answer
       \/ at'[r] = "answer" /\ req'[r].answer \in Answers
    /\ UNCHANGED browser

(* Its answer arrives. *)
Arrives(r) ==
    /\ at[r] = "answer" /\ at'[r] = "done" /\ req'[r] = req[r]
    /\ UNCHANGED <<rows, redis, cuts>>

Hangs(r) ==
    /\ at'[r] = at[r] /\ req'[r] = [req[r] EXCEPT !.heard = FALSE]
    /\ UNCHANGED <<rows, redis, cookie, cuts>>

Alone(r) ==
    /\ at' \in [Requests -> {"idle", "answer", "done"} \cup Working]
    /\ req' \in [Requests -> Request]
    /\ \A q \in Requests \ {r} : at'[q] = at[q] /\ req'[q] = req[q]

RequestStep(r) ==
    \/ \E t \in Tabs :
           \/ SendRefresh(r, t) \/ SendLogout(r, t) \/ SendLogin(r, t)
           \/ \E k \in AllKinds : SendEmail(r, t, k)
           \/ \E l \in Links : OpenLink(r, t, l)
    \/ SendInvite(r) \/ \E l \in Links : SendWithdraw(r, l)

HandlerStep(r) == SessionStep(r) \/ LoginStep(r) \/ LinkStep(r) \/ HandlerFails(r)

LEMMA StepCases ==
    ASSUME [Next]_vars
    PROVE  \/ \E r \in Requests :
                  \/ RequestStep(r) \/ HandlerStep(r)
                  \/ Answer(r) \/ AnswerUnheard(r) \/ Hangup(r)
           \/ WindowEnds \/ LockoutEnds
           \/ UNCHANGED vars
BY DEF Next, Ask, Invite, RequestStep, HandlerStep

LEMMA ReqTyped ==
    ASSUME TypeOK, NEW r \in Requests
    PROVE  /\ req[r] \in Request /\ req \in [Requests -> Request]
           /\ at \in [Requests -> {"idle", "answer", "done"} \cup Working]
BY DEF TypeOK, Working

-----------------------------------------------------------------------------
LEMMA SendMoves ==
    ASSUME TypeOK, NEW r \in Requests, RequestStep(r)
    PROVE  Sends(r) /\ Alone(r)
<1> USE AccountsAssumption, ReqTyped DEF Sends, Alone, Send, Asks, Idle, Goto, Entrances, Request
<1>0. cookie \in [Browsers -> Sessions \cup {None}] /\ None \notin AllKinds
  BY DEF TypeOK
<1>1. ASSUME NEW t \in Tabs, SendRefresh(r, t) PROVE Sends(r) /\ Alone(r)
  <2>1. cookie[BrowserOf[t]] \in Sessions \cup {None}
    BY <1>0 DEF Browsers
  <2> QED BY <1>1, <2>1, ZenonT(30) DEF SendRefresh, AllKinds, Working
<1>2. ASSUME NEW t \in Tabs, SendLogout(r, t) PROVE Sends(r) /\ Alone(r)
  <2>1. cookie[BrowserOf[t]] \in Sessions \cup {None}
    BY <1>0 DEF Browsers
  <2> QED BY <1>2, <2>1, ZenonT(30) DEF SendLogout, AllKinds, Working
<1>3. ASSUME NEW t \in Tabs, SendLogin(r, t) PROVE Sends(r) /\ Alone(r)
  BY <1>3, ZenonT(30) DEF SendLogin, AllKinds, Working
<1>4. ASSUME NEW t \in Tabs, NEW k \in AllKinds, SendEmail(r, t, k) PROVE Sends(r) /\ Alone(r)
  BY <1>4, ZenonT(30) DEF SendEmail, AllKinds, Working
<1>5. ASSUME NEW t \in Tabs, NEW l \in Links, OpenLink(r, t, l) PROVE Sends(r) /\ Alone(r)
  <2>1. Purpose(l) \in Purposes
    BY DEF Links, Purpose, Purposes
  <2> QED BY <1>5, <2>1, ZenonT(30) DEF OpenLink, AllKinds, Working, Purposes
<1>6. ASSUME SendInvite(r) PROVE Sends(r) /\ Alone(r)
  BY <1>6, ZenonT(30) DEF SendInvite, AllKinds, Working
<1>7. ASSUME NEW l \in Links, SendWithdraw(r, l) PROVE Sends(r) /\ Alone(r)
  BY <1>7, ZenonT(30) DEF SendWithdraw, AllKinds, Working
<1> QED BY <1>1, <1>2, <1>3, <1>4, <1>5, <1>6, <1>7 DEF RequestStep

LEMMA GotoMoves ==
    ASSUME TypeOK, NEW r \in Requests, at[r] \in Working, NEW where \in Working,
           Goto(r, where), UNCHANGED <<req, browser>>
    PROVE  Works(r) /\ Alone(r)
BY ReqTyped DEF Goto, Works, Alone

LEMMA ReplyMoves ==
    ASSUME TypeOK, NEW r \in Requests, at[r] \in Working, NEW answer \in Answers,
           Reply(r, answer), UNCHANGED browser
    PROVE  Works(r) /\ Alone(r)
BY ReqTyped DEF Goto, Reply, Works, Alone, Request, Answers

(* A refresh that may rotate notes the rotations it meets.                 *)
LEMMA FindMoves ==
    ASSUME TypeOK, NEW r \in Requests, FindSession(r)
    PROVE  /\ at[r] = "find" /\ UNCHANGED <<rows, redis, browser, cuts>>
           /\ \/ at'[r] \in {"revoke", "revokeAll"} /\ Goto(r, at'[r]) /\ req' = req
              \/ \E a \in {"ok", "refused"} : Reply(r, a) /\ at'[r] = "answer"
              \/ /\ at'[r] = "issue" /\ Goto(r, "issue")
                 /\ req' = [req EXCEPT ![r].beside = Rotating(req[r].sent)]
<1>1. at \in [Requests -> {"idle", "answer", "done"} \cup Working]
  BY ReqTyped
<1> QED BY <1>1 DEF FindSession, Goto, Reply

LEMMA HandlerMoves ==
    ASSUME TypeOK, NEW r \in Requests, HandlerStep(r)
    PROVE  Works(r) /\ Alone(r)
<1> USE GotoMoves, ReplyMoves DEF Working, Answers
<1>1. CASE SessionStep(r)
  <2>1. CASE FindSession(r)
    <3>1. CASE /\ Goto(r, "issue")
               /\ req' = [req EXCEPT ![r].beside = Rotating(req[r].sent)]
      <4>1. [req[r] EXCEPT !.beside = Rotating(req[r].sent)] \in Request
        <5>1. Rotating(req[r].sent) \in SUBSET Requests
          BY DEF Rotating
        <5> QED BY <5>1, ReqTyped DEF Request
      <4>2. req' \in [Requests -> Request]
        BY <3>1, <4>1, ReqTyped
      <4>3. /\ \A q \in Requests \ {r} : req'[q] = req[q]
            /\ req'[r] = [req[r] EXCEPT !.beside = Rotating(req[r].sent)]
        BY <3>1, ReqTyped
      <4>4. /\ req'[r].kind = req[r].kind /\ req'[r].tab = req[r].tab
            /\ req'[r].sent = req[r].sent /\ req'[r].link = req[r].link
            /\ req'[r].heard = req[r].heard /\ req'[r].answer = req[r].answer
        BY <4>3, ReqTyped DEF Request
      <4>5. at[r] = "find" /\ UNCHANGED browser
        BY <2>1, FindMoves
      <4>6. /\ at' \in [Requests -> {"idle", "answer", "done"} \cup Working] /\ at'[r] = "issue"
            /\ \A q \in Requests \ {r} : at'[q] = at[q]
        BY <3>1, ReqTyped DEF Goto
      <4>7. Works(r)
        BY <4>4, <4>5, <4>6 DEF Works
      <4> QED BY <4>2, <4>3, <4>6, <4>7 DEF Alone
    <3> QED BY <2>1, <3>1, FindMoves
  <2>2. CASE Refuse(r)
    BY <2>2 DEF Refuse
  <2>3. CASE IssueSession(r)
    BY <2>3 DEF IssueSession
  <2>4. CASE RevokeOld(r) \/ LoadUser(r)
    BY <2>4 DEF RevokeOld, LoadUser
  <2>5. CASE RevokeLoggedOut(r)
    BY <2>5 DEF RevokeLoggedOut
  <2>6. CASE RevokeAllForUser(r)
    BY <2>6 DEF RevokeAllForUser
  <2> QED BY <1>1, <2>1, <2>2, <2>3, <2>4, <2>5, <2>6 DEF SessionStep
<1>2. CASE LoginStep(r)
  <2>1. CASE GetLockoutStatus(r)
    BY <2>1 DEF GetLockoutStatus
  <2>2. CASE CheckPassword(r)
    BY <2>2 DEF CheckPassword
  <2>3. CASE CountFailure(r)
    BY <2>3 DEF CountFailure
  <2>4. CASE StartWindow(r)
    BY <2>4 DEF StartWindow
  <2>5. CASE Lock(r) \/ RestartCounter(r) \/ RecordSuccess(r)
    BY <2>5 DEF Lock, RestartCounter, RecordSuccess
  <2> QED BY <1>2, <2>1, <2>2, <2>3, <2>4, <2>5 DEF LoginStep
<1>3. CASE LinkStep(r)
  <2>1. CASE FindUser(r)
    BY <2>1 DEF FindUser
  <2>2. CASE CreateUser(r)
    BY <2>2 DEF CreateUser
  <2>3. CASE DropLinks(r) \/ CreateLink(r)
    BY <2>3 DEF DropLinks, CreateLink
  <2>4. CASE FindLink(r)
    BY <2>4 DEF FindLink
  <2>5. CASE UpdatePassword(r) \/ MarkEmailVerified(r)
    BY <2>5 DEF UpdatePassword, MarkEmailVerified
  <2>6. CASE UseLink(r)
    BY <2>6 DEF UseLink
  <2>7. CASE FindPending(r) \/ FindInvitation(r)
    BY <2>7 DEF FindPending, FindInvitation
  <2>8. CASE CreateInvitation(r)
    BY <2>8 DEF CreateInvitation
  <2>9. CASE RevokeInvitation(r)
    BY <2>9 DEF RevokeInvitation
  <2> QED
    BY <1>3, <2>1, <2>2, <2>3, <2>4, <2>5, <2>6, <2>7, <2>8, <2>9 DEF LinkStep
<1>4. CASE HandlerFails(r)
  <2>1. at[r] \in Working
    BY <1>4, ReqTyped DEF HandlerFails, Busy
  <2> QED BY <1>4, <2>1 DEF HandlerFails
<1> QED BY <1>1, <1>2, <1>3, <1>4 DEF HandlerStep

LEMMA AnswerMoves ==
    ASSUME TypeOK, NEW r \in Requests, Answer(r) \/ AnswerUnheard(r)
    PROVE  Arrives(r) /\ Alone(r)
BY ReqTyped DEF Answer, AnswerUnheard, Arrives, Alone, Goto

LEMMA HangupMoves ==
    ASSUME TypeOK, NEW r \in Requests, Hangup(r)
    PROVE  Hangs(r) /\ Alone(r)
<1>1. req' = [req EXCEPT ![r].heard = FALSE] /\ at' = at /\ UNCHANGED <<rows, redis, cookie, cuts>>
  BY DEF Hangup
<1>2. [req[r] EXCEPT !.heard = FALSE] \in Request
  BY ReqTyped DEF Request
<1>3. /\ req' \in [Requests -> Request] /\ req'[r] = [req[r] EXCEPT !.heard = FALSE]
      /\ \A q \in Requests \ {r} : req'[q] = req[q]
  BY <1>1, <1>2, ReqTyped
<1> QED BY <1>1, <1>3, ReqTyped DEF Hangs, Alone

-----------------------------------------------------------------------------
(* Type correctness *)

DataTyped ==
    /\ session \in [Sessions -> {"none", "live", "revoked"}]
    /\ heir \in [Sessions -> Requests \cup {None}]
    /\ exists \in BOOLEAN /\ verified \in BOOLEAN
    /\ mark \in [Links -> SUBSET Marks]
    /\ attempts \in Nat /\ window \in BOOLEAN /\ locked \in BOOLEAN
    /\ cuts \subseteq [old: SUBSET Sessions, busy: SUBSET Requests]

LEMMA HandlerKeepsType ==
    ASSUME TypeOK, NEW r \in Requests, HandlerStep(r)
    PROVE  DataTyped'
<1> USE DEF DataTyped, rows, redis
<1>0. DataTyped
  BY DEF TypeOK
<1>1. CASE SessionStep(r)
  <2>1. CASE FindSession(r) \/ Refuse(r) \/ LoadUser(r)
    BY <1>0, <2>1 DEF FindSession, Refuse, LoadUser
  <2>2. CASE IssueSession(r)
    BY <1>0, <2>2 DEF IssueSession
  <2>3. CASE RevokeOld(r) \/ RevokeLoggedOut(r)
    BY <1>0, <2>3 DEF RevokeOld, RevokeLoggedOut
  <2>4. CASE RevokeAllForUser(r)
    BY <1>0, <2>4 DEF RevokeAllForUser, Busy
  <2> QED BY <1>1, <2>1, <2>2, <2>3, <2>4 DEF SessionStep
<1>2. CASE LoginStep(r)
  <2>1. CASE GetLockoutStatus(r) \/ CheckPassword(r)
    BY <1>0, <2>1 DEF GetLockoutStatus, CheckPassword
  <2>2. CASE CountFailure(r)
    BY <1>0, <2>2 DEF CountFailure
  <2>3. CASE StartWindow(r)
    BY <1>0, <2>3 DEF StartWindow
  <2>4. CASE Lock(r)
    BY <1>0, <2>4 DEF Lock
  <2>5. CASE RestartCounter(r)
    BY <1>0, <2>5 DEF RestartCounter, DropCounter
  <2>6. CASE RecordSuccess(r)
    BY <1>0, <2>6 DEF RecordSuccess, DropCounter
  <2> QED BY <1>2, <2>1, <2>2, <2>3, <2>4, <2>5, <2>6 DEF LoginStep
<1>3. CASE LinkStep(r)
  <2>1. CASE FindUser(r) \/ FindLink(r) \/ UpdatePassword(r) \/ FindPending(r) \/ FindInvitation(r)
    BY <1>0, <2>1 DEF FindUser, FindLink, UpdatePassword, FindPending, FindInvitation
  <2>2. CASE CreateUser(r) \/ MarkEmailVerified(r)
    BY <1>0, <2>2 DEF CreateUser, MarkEmailVerified
  <2>3. CASE DropLinks(r)
    <3>1. \A l \in Links : mark[l] \cup {"deleted"} \in SUBSET Marks
      BY <1>0 DEF Marks
    <3> QED BY <1>0, <2>3, <3>1 DEF DropLinks
  <2>4. CASE CreateLink(r) \/ CreateInvitation(r)
    BY <1>0, <2>4 DEF CreateLink, CreateInvitation, Marks
  <2>5. CASE UseLink(r) \/ RevokeInvitation(r)
    BY <1>0, <2>5 DEF UseLink, RevokeInvitation, Marks
  <2> QED BY <1>3, <2>1, <2>2, <2>3, <2>4, <2>5 DEF LinkStep
<1>4. CASE HandlerFails(r)
  BY <1>0, <1>4 DEF HandlerFails
<1> QED BY <1>1, <1>2, <1>3, <1>4 DEF HandlerStep

(* Whoever gets a session has a tab. *)
HasTab(r) == Kind(r) \in {"refresh", "logout", "login", "accept"} => req[r].tab \in Tabs

TypeInv == TypeOK /\ \A r \in Requests : HasTab(r)

LEMMA BrowserTyped ==
    ASSUME TypeOK, NEW r \in Requests, HasTab(r), Answer(r) \/ AnswerUnheard(r) \/ Hangup(r)
    PROVE  cookie' \in [Browsers -> Sessions \cup {None}] /\ access' \subseteq Tabs
<1>1. req[r].tab \in Tabs \cup {None}
  BY ReqTyped DEF Request
<1>2. req[r].tab = None \/ BrowserOf[req[r].tab] \in Browsers
  BY <1>1 DEF Browsers
<1>3. cookie \in [Browsers -> Sessions \cup {None}] /\ access \subseteq Tabs
  BY DEF TypeOK
<1>4. CASE AnswerUnheard(r) \/ Hangup(r)
  BY <1>3, <1>4 DEF AnswerUnheard, Hangup, SignOut, browser
<1>5. ASSUME NEW s \in Sessions \cup {None}, SetCookie(r, s)
      PROVE  cookie' \in [Browsers -> Sessions \cup {None}]
  BY <1>3, <1>5 DEF SetCookie
<1>6. CASE Answer(r)
  <2>1. cookie' \in [Browsers -> Sessions \cup {None}]
    BY <1>3, <1>5, <1>6 DEF Answer, Sessions, browser
  <2>2. access' \subseteq Tabs
    BY <1>3, <1>6 DEF Answer, SignOut, HasTab, browser
  <2> QED BY <2>1, <2>2
<1> QED BY <1>4, <1>6

BrowserTypes == cookie \in [Browsers -> Sessions \cup {None}] /\ access \subseteq Tabs

RequestTypes == at \in [Requests -> {"idle", "answer", "done"} \cup Working]
                /\ req \in [Requests -> Request]

LEMMA TypeParts ==
    /\ TypeOK => DataTyped /\ BrowserTypes /\ RequestTypes
    /\ DataTyped' /\ BrowserTypes' /\ RequestTypes' => TypeOK'
BY DEF TypeOK, DataTyped, BrowserTypes, RequestTypes, Working

LEMMA DataStays == DataTyped /\ UNCHANGED <<rows, redis, cuts>> => DataTyped'
BY DEF DataTyped, rows, redis

LEMMA TabStays ==
    ASSUME NEW r \in Requests, HasTab(r), req'[r].kind = req[r].kind, req'[r].tab = req[r].tab
    PROVE  HasTab(r)'
BY DEF HasTab, Kind

LEMMA TypeStep == TypeInv /\ [Next]_vars => TypeInv'
<1> SUFFICES ASSUME TypeInv, [Next]_vars PROVE TypeInv'
  OBVIOUS
<1> USE TypeParts DEF TypeInv
<1>0. DataTyped /\ BrowserTypes /\ RequestTypes
  OBVIOUS
<1>1. ASSUME NEW r \in Requests, HandlerStep(r) PROVE TypeInv'
  <2>1. Works(r) /\ Alone(r)
    BY <1>1, HandlerMoves
  <2>2. BrowserTypes' /\ RequestTypes'
    BY <1>0, <2>1 DEF Alone, Works, browser, BrowserTypes, RequestTypes
  <2>3. ASSUME NEW q \in Requests PROVE HasTab(q)'
    BY <2>1, TabStays DEF Alone, Works
  <2> QED BY <1>1, <2>2, <2>3, HandlerKeepsType
<1>2. ASSUME NEW r \in Requests, RequestStep(r) PROVE TypeInv'
  <2>1. Sends(r) /\ Alone(r)
    BY <1>2, SendMoves
  <2>2. BrowserTypes' /\ RequestTypes'
    BY <1>0, <2>1 DEF Alone, Sends, browser, BrowserTypes, RequestTypes
  <2>3. ASSUME NEW q \in Requests PROVE HasTab(q)'
    BY <2>1, TabStays DEF Alone, Sends, HasTab, Kind
  <2>4. DataTyped'
    BY <1>0, <2>1, DataStays DEF Sends
  <2> QED BY <2>2, <2>3, <2>4
<1>3. ASSUME NEW r \in Requests, Answer(r) \/ AnswerUnheard(r) PROVE TypeInv'
  <2>1. Arrives(r) /\ Alone(r)
    BY <1>3, AnswerMoves
  <2>2. BrowserTypes' /\ RequestTypes'
    BY <1>3, <2>1, BrowserTyped DEF Alone, BrowserTypes, RequestTypes
  <2>3. ASSUME NEW q \in Requests PROVE HasTab(q)'
    BY <2>1, TabStays DEF Alone, Arrives
  <2>4. DataTyped'
    BY <1>0, <2>1, DataStays DEF Arrives
  <2> QED BY <2>2, <2>3, <2>4
<1>4. ASSUME NEW r \in Requests, Hangup(r) PROVE TypeInv'
  <2>1. Hangs(r) /\ Alone(r)
    BY <1>4, HangupMoves
  <2>2. BrowserTypes' /\ RequestTypes'
    BY <1>4, <2>1, BrowserTyped DEF Alone, BrowserTypes, RequestTypes
  <2>3. ASSUME NEW q \in Requests PROVE HasTab(q)'
    <3>1. req[q] \in Request
      BY <1>0 DEF RequestTypes
    <3> QED BY <2>1, <3>1, TabStays DEF Alone, Hangs, Request
  <2>4. DataTyped'
    BY <1>0, <2>1, DataStays DEF Hangs
  <2> QED BY <2>2, <2>3, <2>4
<1>5. CASE WindowEnds \/ LockoutEnds
  <2>1. ASSUME WindowEnds PROVE DataTyped'
    BY <1>0, <2>1 DEF DataTyped, WindowEnds, DropCounter, rows
  <2>2. ASSUME LockoutEnds PROVE DataTyped'
    BY <1>0, <2>2 DEF DataTyped, LockoutEnds, rows
  <2>3. BrowserTypes' /\ RequestTypes' /\ \A q \in Requests : HasTab(q)'
    BY <1>0, <1>5, TabStays
    DEF WindowEnds, LockoutEnds, browser, BrowserTypes, RequestTypes
  <2> QED BY <1>5, <2>1, <2>2, <2>3
<1>6. CASE UNCHANGED vars
  <2>1. BrowserTypes' /\ RequestTypes' /\ \A q \in Requests : HasTab(q)'
    BY <1>0, <1>6, TabStays DEF vars, browser, BrowserTypes, RequestTypes
  <2>2. DataTyped'
    BY <1>0, <1>6, DataStays DEF vars
  <2> QED BY <2>1, <2>2
<1> QED BY <1>1, <1>2, <1>3, <1>4, <1>5, <1>6, StepCases

LEMMA TypeInit == Init => TypeInv
<1> SUFFICES ASSUME Init PROVE TypeInv
  OBVIOUS
<1>1. session \in [Sessions -> {"none", "live", "revoked"}] /\ mark \in [Links -> SUBSET Marks]
  BY DEF Init, Marks
<1>2. cookie \in [Browsers -> Sessions \cup {None}] /\ access \subseteq Tabs
  BY DEF Init, Sessions
<1>3. exists \in BOOLEAN /\ verified \in BOOLEAN
  BY DEF Init
<1>4. Idle \in Request /\ Idle.kind = None
  BY DEF Idle, Request
<1>5. \A r \in Requests : HasTab(r)
  BY <1>4, AccountsAssumption DEF Init, HasTab, Kind, AllKinds
<1> QED BY <1>1, <1>2, <1>3, <1>4, <1>5 DEF Init, TypeOK, TypeInv

(* Every variable of Accounts keeps its type: in particular a session is   *)
(* only ever succeeded by the session of a request.                        *)
THEOREM AccountsTypeCorrect == Spec => []TypeOK
<1>1. TypeInv => TypeOK
  BY DEF TypeInv
<1> QED BY <1>1, TypeInit, TypeStep, PTL DEF Spec

-----------------------------------------------------------------------------
(* Which requests run which statements *)

Stage(r) ==
    /\ at[r] \in {"idle"} \cup Working <=> req[r].answer = None
    /\ at[r] = "idle" => Kind(r) = None
    /\ at[r] \in {"find", "refuse"} => Kind(r) \in {"refresh", "logout"}
    /\ at[r] \in {"revokeOld", "load"} => Kind(r) = "refresh"
    /\ at[r] = "revoke" => Kind(r) = "logout"
    /\ at[r] = "issue" => Kind(r) \in {"refresh", "login", "accept"}
    /\ at[r] = "revokeAll" => Kind(r) \in {"refresh", "reset"}
    /\ at[r] \in {"lockout", "password", "incr", "expire", "lock", "restart", "clear"} =>
           Kind(r) = "login"
    /\ at[r] = "user" => Kind(r) \in {"register", "resend", "forgot", "accept"}
    /\ at[r] = "newUser" => Kind(r) \in {"register", "accept"}
    /\ at[r] \in {"dropLinks", "newLink"} => Kind(r) \in {"register", "resend", "forgot"}
    /\ at[r] \in {"link", "useLink"} => Kind(r) \in {"verify", "reset", "accept"}
    /\ at[r] = "setPassword" => Kind(r) = "reset"
    /\ at[r] = "setVerified" => Kind(r) = "verify"
    /\ at[r] \in {"pending", "newInvite"} => Kind(r) = "invite"
    /\ at[r] \in {"invitation", "withdraw"} => Kind(r) = "withdraw"

StageInv == TypeInv /\ \A r \in Requests : Stage(r)

LEMMA StageStays ==
    ASSUME NEW r \in Requests, Stage(r), at'[r] = at[r],
           req'[r].kind = req[r].kind, req'[r].answer = req[r].answer
    PROVE  Stage(r)'
BY DEF Stage, Kind

LEMMA GotoStage ==
    ASSUME TypeOK, NEW r \in Requests, Stage(r), at[r] \in Working,
           NEW where, Goto(r, where), UNCHANGED req
    PROVE  at'[r] = where /\ Kind(r)' = Kind(r) /\ req'[r].answer = None
BY ReqTyped DEF Goto, Stage, Kind

LEMMA ReplyStage ==
    ASSUME TypeOK, NEW r \in Requests, NEW answer \in Answers, Reply(r, answer)
    PROVE  Stage(r)'
BY ReqTyped, AccountsAssumption DEF Reply, Goto, Stage, Kind, Request, Answers, Working

LEMMA HandlerStage ==
    ASSUME StageInv, NEW r \in Requests, HandlerStep(r)
    PROVE  Stage(r)'
<1> USE GotoStage, ReplyStage DEF Working, Answers, Stage, StageInv, TypeInv
<1>1. CASE SessionStep(r)
  <2>1. CASE FindSession(r)
    <3>1. CASE /\ Goto(r, "issue")
               /\ req' = [req EXCEPT ![r].beside = Rotating(req[r].sent)]
      <4>1. /\ at'[r] = "issue" /\ at[r] = "find"
            /\ req'[r] = [req[r] EXCEPT !.beside = Rotating(req[r].sent)]
        BY <2>1, <3>1, ReqTyped DEF FindSession, Goto
      <4>2. req'[r].kind = req[r].kind /\ req'[r].answer = req[r].answer
        BY <4>1, ReqTyped DEF Request
      <4>3. req[r].kind = "refresh"
        BY <2>1, <4>1, ReqTyped DEF FindSession, Goto, Reply, Kind
      <4> QED BY <4>1, <4>2, <4>3 DEF Kind
    <3> QED BY <2>1, <3>1, FindMoves DEF FindSession
  <2>2. CASE IssueSession(r)
    BY <2>2 DEF IssueSession
  <2>3. CASE Refuse(r) \/ RevokeOld(r) \/ LoadUser(r) \/ RevokeLoggedOut(r)
    BY <2>3 DEF Refuse, RevokeOld, LoadUser, RevokeLoggedOut
  <2>4. CASE RevokeAllForUser(r)
    BY <2>4 DEF RevokeAllForUser
  <2> QED BY <1>1, <2>1, <2>2, <2>3, <2>4 DEF SessionStep
<1>2. CASE LoginStep(r)
  <2>1. CASE GetLockoutStatus(r)
    BY <2>1 DEF GetLockoutStatus
  <2>2. CASE CheckPassword(r)
    BY <2>2 DEF CheckPassword
  <2>3. CASE CountFailure(r)
    BY <2>3 DEF CountFailure
  <2>4. CASE StartWindow(r)
    BY <2>4 DEF StartWindow
  <2>5. CASE Lock(r) \/ RestartCounter(r) \/ RecordSuccess(r)
    BY <2>5 DEF Lock, RestartCounter, RecordSuccess
  <2> QED BY <1>2, <2>1, <2>2, <2>3, <2>4, <2>5 DEF LoginStep
<1>3. CASE LinkStep(r)
  <2>1. CASE FindUser(r)
    BY <2>1 DEF FindUser
  <2>2. CASE CreateUser(r)
    BY <2>2 DEF CreateUser
  <2>3. CASE DropLinks(r) \/ CreateLink(r)
    BY <2>3 DEF DropLinks, CreateLink
  <2>4. CASE FindLink(r)
    BY <2>4 DEF FindLink
  <2>5. CASE UpdatePassword(r) \/ MarkEmailVerified(r)
    BY <2>5 DEF UpdatePassword, MarkEmailVerified
  <2>6. CASE UseLink(r)
    BY <2>6 DEF UseLink
  <2>7. CASE FindPending(r) \/ FindInvitation(r)
    BY <2>7 DEF FindPending, FindInvitation
  <2>8. CASE CreateInvitation(r) \/ RevokeInvitation(r)
    BY <2>8 DEF CreateInvitation, RevokeInvitation
  <2> QED BY <1>3, <2>1, <2>2, <2>3, <2>4, <2>5, <2>6, <2>7, <2>8 DEF LinkStep
<1>4. CASE HandlerFails(r)
  BY <1>4 DEF HandlerFails
<1> QED BY <1>1, <1>2, <1>3, <1>4 DEF HandlerStep

LEMMA StageStep == StageInv /\ [Next]_vars => StageInv'
<1> SUFFICES ASSUME StageInv, [Next]_vars PROVE \A q \in Requests : Stage(q)'
  BY TypeStep DEF StageInv
<1> USE DEF StageInv, TypeInv
<1>1. ASSUME NEW r \in Requests, HandlerStep(r), NEW q \in Requests PROVE Stage(q)'
  BY <1>1, HandlerStage, HandlerMoves, StageStays DEF Alone
<1>2. ASSUME NEW r \in Requests, RequestStep(r), NEW q \in Requests PROVE Stage(q)'
  <2>1. Sends(r) /\ Alone(r)
    BY <1>2, SendMoves
  <2>2. CASE q = r
    BY <2>1, <2>2 DEF Sends, Stage, Kind, Working, Entrances
  <2> QED BY <2>1, <2>2, StageStays DEF Alone
<1>3. ASSUME NEW r \in Requests, Answer(r) \/ AnswerUnheard(r), NEW q \in Requests
      PROVE  Stage(q)'
  <2>1. Arrives(r) /\ Alone(r)
    BY <1>3, AnswerMoves
  <2>2. CASE q = r
    BY <2>1, <2>2 DEF Arrives, Stage, Kind, Working
  <2> QED BY <2>1, <2>2, StageStays DEF Alone
<1>4. ASSUME NEW r \in Requests, Hangup(r), NEW q \in Requests PROVE Stage(q)'
  <2>1. Hangs(r) /\ Alone(r) /\ req[r] \in Request
    BY <1>4, HangupMoves, ReqTyped
  <2> QED BY <2>1, StageStays DEF Alone, Hangs, Request
<1>5. CASE WindowEnds \/ LockoutEnds \/ UNCHANGED vars
  BY <1>5, StageStays DEF WindowEnds, LockoutEnds, vars
<1> QED BY <1>1, <1>2, <1>3, <1>4, <1>5, StepCases

LEMMA StageInit == Init => StageInv
<1> SUFFICES ASSUME Init PROVE \A r \in Requests : Stage(r)
  BY TypeInit DEF StageInv
<1> QED BY AccountsAssumption DEF Init, Idle, Stage, Kind, Working

-----------------------------------------------------------------------------
(* Sessions *)

(* A session appears as its request issues it, and lives only once; the    *)
(* requests know sessions that have appeared.                              *)
Known(r) ==
    /\ session[r] # "none" => at[r] \in {"revokeOld", "load", "answer", "done"}
    /\ at[r] \in {"revokeOld", "load"} => session[r] # "none"
    /\ Kind(r) \in {"refresh", "login", "accept"} /\ req[r].answer = "ok" => session[r] # "none"
    /\ Kind(r) = "refresh" /\ at[r] \in {"find", "issue", "revokeOld", "load", "revokeAll"} =>
           req[r].sent # None
    /\ Kind(r) = "refresh" /\ session[r] # "none" => req[r].sent # None
    /\ req[r].sent # None => session[req[r].sent] # "none"

Presented == \A b \in Browsers : cookie[b] # None => session[cookie[b]] # "none"

SessionInv ==
    /\ StageInv
    /\ \A r \in Requests : Known(r)
    /\ Presented

(* A statement of a request that leaves the sessions alone. *)
Elsewhere(r) ==
    /\ Works(r)
    /\ UNCHANGED <<session, heir, cuts>>
    /\ at'[r] \notin {"revokeOld", "load"}
    /\ at[r] = "revokeOld" => req'[r].answer = "error"
    /\ Kind(r) = "refresh" =>
           /\ at'[r] = "answer" /\ req'[r].answer \in {"ok", "refused", "error"}
           /\ req'[r].answer = "ok" => at[r] = "load"
    /\ Kind(r) \in {"login", "accept"} => req'[r].answer \in {None, "refused", "error"}
    /\ req'[r].answer # "reuse"

LEMMA SessionCases ==
    ASSUME StageInv, NEW r \in Requests, HandlerStep(r)
    PROVE  \/ Kind(r) = "refresh" /\ FindSession(r)
           \/ IssueSession(r) \/ RevokeOld(r)
           \/ RevokeLoggedOut(r) \/ RevokeAllForUser(r) \/ Elsewhere(r)
<1> USE HandlerMoves, ReqTyped, AccountsAssumption
    DEF StageInv, TypeInv, Stage, Elsewhere, Working, Answers, Goto, Reply, rows
<1>0. Works(r) /\ Alone(r) /\ Stage(r) /\ req[r] \in Request
  OBVIOUS
<1>1. CASE SessionStep(r)
  <2>1. CASE FindSession(r) /\ Kind(r) # "refresh"
    BY <1>0, <2>1 DEF FindSession, Request
  <2>2. CASE Refuse(r) \/ LoadUser(r)
    BY <1>0, <2>2 DEF Refuse, LoadUser, Request
  <2> QED BY <1>1, <2>1, <2>2 DEF SessionStep
<1>2. CASE LoginStep(r)
  <2>1. CASE GetLockoutStatus(r) \/ CheckPassword(r)
    BY <1>0, <2>1 DEF GetLockoutStatus, CheckPassword, Request
  <2>2. CASE CountFailure(r) \/ StartWindow(r)
    BY <1>0, <2>2 DEF CountFailure, StartWindow, Request
  <2>3. CASE Lock(r) \/ RestartCounter(r) \/ RecordSuccess(r)
    BY <1>0, <2>3 DEF Lock, RestartCounter, RecordSuccess, Request
  <2> QED BY <1>2, <2>1, <2>2, <2>3 DEF LoginStep
<1>3. CASE LinkStep(r)
  <2>1. CASE FindUser(r)
    BY <1>0, <2>1 DEF FindUser, Request
  <2>2. CASE CreateUser(r)
    BY <1>0, <2>2 DEF CreateUser, Request
  <2>3. CASE DropLinks(r) \/ CreateLink(r)
    BY <1>0, <2>3 DEF DropLinks, CreateLink, Request
  <2>4. CASE FindLink(r) \/ UpdatePassword(r) \/ MarkEmailVerified(r)
    BY <1>0, <2>4 DEF FindLink, UpdatePassword, MarkEmailVerified, Request
  <2>5. CASE UseLink(r)
    BY <1>0, <2>5 DEF UseLink, Request
  <2>6. CASE FindPending(r) \/ FindInvitation(r)
    BY <1>0, <2>6 DEF FindPending, FindInvitation, Request
  <2>7. CASE CreateInvitation(r) \/ RevokeInvitation(r)
    BY <1>0, <2>7 DEF CreateInvitation, RevokeInvitation, Request
  <2> QED BY <1>3, <2>1, <2>2, <2>3, <2>4, <2>5, <2>6, <2>7 DEF LinkStep
<1>4. CASE HandlerFails(r)
  BY <1>0, <1>4 DEF HandlerFails, Request
<1> QED BY <1>1, <1>2, <1>3, <1>4 DEF HandlerStep

(* What a step may do to a session. *)
LEMMA SessionMoves ==
    ASSUME SessionInv, NEW r \in Requests, HandlerStep(r), NEW s \in Sessions
    PROVE  /\ session[s] # "none" => session'[s] # "none"
           /\ session[s] = "none" /\ session'[s] # "none" => s = r /\ at[r] = "issue"
           /\ session'[s] = "live" => session[s] = "live" \/ (s = r /\ at[r] = "issue")
<1> USE DEF SessionInv, StageInv, TypeInv, Stage
<1>0. session \in [Sessions -> {"none", "live", "revoked"}] /\ r \in Sessions
  BY DEF TypeOK, Sessions
<1>1. CASE IssueSession(r)
  BY <1>0, <1>1 DEF IssueSession
<1>2. CASE RevokeOld(r)
  <2>1. session[req[r].sent] # "none"
    BY <1>2 DEF RevokeOld, Known
  <2> QED BY <1>0, <1>2, <2>1 DEF RevokeOld
<1>3. CASE RevokeLoggedOut(r)
  <2>1. req[r].sent = None \/ session[req[r].sent] # "none"
    BY DEF Known
  <2> QED BY <1>0, <1>3, <2>1, AccountsAssumption DEF RevokeLoggedOut
<1>4. CASE RevokeAllForUser(r)
  BY <1>0, <1>4 DEF RevokeAllForUser, Live
<1> QED
  BY <1>0, <1>1, <1>2, <1>3, <1>4, SessionCases DEF Elsewhere, FindSession, rows

LEMMA KnownStays ==
    ASSUME TypeInv, NEW q \in Requests, Known(q),
           \A s \in Sessions : session[s] # "none" => session'[s] # "none",
           session[q] = "none" => session'[q] = "none",
           at'[q] = at[q], req'[q].kind = req[q].kind, req'[q].sent = req[q].sent,
           req'[q].answer = req[q].answer
    PROVE  Known(q)'
<1>1. q \in Sessions /\ req[q].sent \in Sessions \cup {None}
  BY ReqTyped DEF TypeInv, Sessions, Request
<1> QED BY <1>1 DEF Known, Kind

LEMMA HandlerKnown ==
    ASSUME SessionInv, NEW r \in Requests, HandlerStep(r)
    PROVE  Known(r)'
<1> USE DEF SessionInv, StageInv, TypeInv
<1>0. /\ Works(r) /\ Alone(r) /\ Stage(r) /\ Known(r)
      /\ req[r] \in Request /\ r \in Sessions /\ req[r].sent \in Sessions \cup {None}
  BY HandlerMoves, ReqTyped DEF Sessions, Request
<1>1. req[r].sent # None => session'[req[r].sent] # "none"
  BY <1>0, SessionMoves DEF Known
<1>2. session[r] # "none" => at[r] \in {"revokeOld", "load"}
  BY <1>0 DEF Known, Works, Working
<1>3. CASE Kind(r) = "refresh" /\ FindSession(r)
  <2>1. session' = session /\ at[r] = "find" /\ session[r] = "none"
    BY <1>0, <1>3 DEF FindSession, Known, rows
  <2>2. \/ at'[r] \in {"revokeAll", "issue"} /\ req'[r].answer = req[r].answer
        \/ at'[r] = "answer" /\ req'[r].answer = "refused"
    BY <1>0, <1>3, ReqTyped DEF FindSession, Goto, Reply, Request
  <2>3. req'[r].answer # "ok"
    BY <1>0, <2>1, <2>2, AccountsAssumption DEF Stage, Working, Answers
  <2> QED BY <1>0, <1>1, <2>1, <2>2, <2>3 DEF Known, Kind, Works
<1>4. CASE IssueSession(r)
  <2>1. session'[r] = "live"
    BY <1>0, <1>4 DEF IssueSession, TypeOK
  <2>2. \/ at'[r] = "revokeOld" /\ req' = req
        \/ at'[r] = "answer" /\ Kind(r) # "refresh"
    <3>1. CASE Kind(r) = "refresh"
      BY <1>4, <3>1, ReqTyped DEF IssueSession, Goto
    <3>2. CASE Kind(r) # "refresh"
      BY <1>0, <1>4, <3>2, ReqTyped DEF IssueSession, Goto, Reply
    <3> QED BY <3>1, <3>2
  <2> QED BY <1>0, <1>1, <1>4, <2>1, <2>2 DEF Known, Kind, Works, IssueSession
<1>5. CASE RevokeOld(r)
  <2>1. at'[r] = "load" /\ session'[r] # "none" /\ at[r] = "revokeOld"
    BY <1>0, <1>5, SessionMoves DEF RevokeOld, Goto, Known, TypeOK
  <2> QED BY <1>0, <1>1, <2>1 DEF Known, Works, Kind, Stage
<1>6. CASE RevokeLoggedOut(r)
  <2>1. at'[r] = "answer" /\ at[r] = "revoke"
    BY <1>0, <1>6 DEF RevokeLoggedOut, Reply, Goto, TypeOK
  <2> QED BY <1>0, <1>1, <2>1 DEF Known, Works, Kind, Stage
<1>7. CASE RevokeAllForUser(r)
  <2>1. at'[r] = "answer" /\ at[r] = "revokeAll"
    BY <1>0, <1>7 DEF RevokeAllForUser, Reply, Goto, TypeOK
  <2>2. Kind(r) = "refresh" => req'[r].answer = "reuse"
    BY <1>0, <1>7, ReqTyped DEF RevokeAllForUser, Reply, Request, Kind
  <2> QED BY <1>0, <1>1, <2>1, <2>2 DEF Known, Works, Kind, Stage
<1>8. CASE Elsewhere(r)
  BY <1>0, <1>1, <1>2, <1>8, AccountsAssumption DEF Elsewhere, Known, Works, Kind, Answers, Stage
<1> QED BY <1>3, <1>4, <1>5, <1>6, <1>7, <1>8, SessionCases

LEMMA SessionsStep == SessionInv /\ [Next]_vars => SessionInv'
<1> SUFFICES ASSUME SessionInv, [Next]_vars
             PROVE  (\A q \in Requests : Known(q)') /\ Presented'
  BY StageStep DEF SessionInv
<1> USE DEF SessionInv, StageInv, TypeInv
<1>0. \A b \in Browsers : cookie[b] \in Sessions \cup {None}
  BY DEF TypeOK
<1>1. ASSUME NEW r \in Requests, HandlerStep(r)
      PROVE  (\A q \in Requests : Known(q)') /\ Presented'
  <2>1. Works(r) /\ Alone(r)
    BY <1>1, HandlerMoves
  <2>2. \A s \in Sessions : session[s] # "none" => session'[s] # "none"
    BY <1>1, SessionMoves
  <2>3. ASSUME NEW q \in Requests, q # r PROVE Known(q)'
    <3>1. session[q] = "none" => session'[q] = "none"
      BY <1>1, <2>3, SessionMoves DEF Sessions
    <3> QED BY <2>1, <2>2, <2>3, <3>1, KnownStays DEF Alone
  <2>4. Presented'
    BY <1>0, <2>1, <2>2 DEF Presented, Works, browser
  <2> QED BY <1>1, <2>3, <2>4, HandlerKnown
<1>2. ASSUME NEW r \in Requests, RequestStep(r)
      PROVE  (\A q \in Requests : Known(q)') /\ Presented'
  <2>1. Sends(r) /\ Alone(r)
    BY <1>2, SendMoves
  <2>2. ASSUME NEW q \in Requests, q # r PROVE Known(q)'
    BY <2>1, <2>2, KnownStays DEF Alone, Sends, rows
  <2>3. Known(r)'
    <3>1. session[r] = "none"
      BY <2>1 DEF Known, Sends
    <3>2. req'[r].sent # None => session[req'[r].sent] # "none"
      <4>1. CASE req'[r].kind \in {"refresh", "logout"}
        <5>1. BrowserOf[req'[r].tab] \in Browsers
          BY <2>1, <4>1 DEF Sends, Browsers
        <5> QED BY <2>1, <4>1, <5>1 DEF Sends, Presented
      <4>2. CASE req'[r].kind \notin {"refresh", "logout"}
        BY <2>1, <4>2 DEF Sends
      <4> QED BY <4>1, <4>2
    <3> QED BY <2>1, <3>1, <3>2, AccountsAssumption DEF Sends, Known, Kind, Answers, rows, Entrances
  <2>4. Presented'
    BY <2>1 DEF Sends, Presented, rows, browser
  <2> QED BY <2>2, <2>3, <2>4
<1>3. ASSUME NEW r \in Requests, Answer(r) \/ AnswerUnheard(r)
      PROVE  (\A q \in Requests : Known(q)') /\ Presented'
  <2>1. Arrives(r) /\ Alone(r)
    BY <1>3, AnswerMoves
  <2>2. ASSUME NEW q \in Requests PROVE Known(q)'
    <3>1. CASE q = r
      BY <2>1, <3>1 DEF Arrives, Known, Kind, rows
    <3> QED BY <2>1, <3>1, KnownStays DEF Alone, Arrives, rows
  <2>3. Presented'
    <3>1. CASE UNCHANGED cookie
      BY <2>1, <3>1 DEF Arrives, Presented, rows
    <3>2. CASE SetCookie(r, None)
      BY <2>1, <3>2 DEF SetCookie, Arrives, Presented, rows, TypeOK
    <3>3. CASE SetCookie(r, r) /\ session[r] # "none"
      BY <2>1, <3>3 DEF SetCookie, Arrives, Presented, rows, TypeOK
    <3> QED BY <1>3, <3>1, <3>2, <3>3 DEF Answer, AnswerUnheard, Known, browser
  <2> QED BY <2>2, <2>3
<1>4. ASSUME NEW r \in Requests, Hangup(r)
      PROVE  (\A q \in Requests : Known(q)') /\ Presented'
  <2>1. Hangs(r) /\ Alone(r) /\ req[r] \in Request
    BY <1>4, HangupMoves, ReqTyped
  <2>2. ASSUME NEW q \in Requests PROVE Known(q)'
    BY <2>1, KnownStays DEF Alone, Hangs, rows, Request
  <2> QED BY <2>1, <2>2 DEF Presented, Hangs, rows
<1>5. CASE WindowEnds \/ LockoutEnds \/ UNCHANGED vars
  BY <1>5, KnownStays DEF WindowEnds, LockoutEnds, vars, rows, browser, Presented
<1> QED BY <1>1, <1>2, <1>3, <1>4, <1>5, StepCases

LEMMA SessionsInit == Init => SessionInv
<1> SUFFICES ASSUME Init PROVE (\A r \in Requests : Known(r)) /\ Presented
  BY StageInit DEF SessionInv
<1>1. \A r \in Requests : r \in Sessions /\ session[r] = "none"
  BY AccountsAssumption DEF Init, Sessions
<1>2. \A r \in Requests : Known(r)
  BY <1>1, AccountsAssumption DEF Init, Idle, Known, Kind, AllKinds
<1> QED BY <1>2 DEF Init, Presented

(* Session s comes to life only as its own request issues it.              *)
LEMMA AwakesOnce ==
    ASSUME SessionInv, NEW r \in Requests, HandlerStep(r), NEW s \in Sessions,
           session[s] # "none", session'[s] = "live"
    PROVE  session[s] = "live"
BY SessionMoves DEF SessionInv, Known

(* A row of RefreshToken is never deleted. *)
LEMMA SessionsLast ==
    ASSUME SessionInv, [Next]_vars, NEW s \in Sessions, session[s] # "none"
    PROVE  session'[s] # "none"
<1> USE DEF SessionInv, StageInv, TypeInv
<1>1. ASSUME NEW r \in Requests, HandlerStep(r) PROVE session'[s] # "none"
  BY <1>1, SessionMoves
<1>2. ASSUME NEW r \in Requests,
             RequestStep(r) \/ Answer(r) \/ AnswerUnheard(r) \/ Hangup(r)
      PROVE  session' = session
  BY <1>2, SendMoves, AnswerMoves, HangupMoves DEF Sends, Arrives, Hangs, rows
<1>3. CASE WindowEnds \/ LockoutEnds \/ UNCHANGED vars
  BY <1>3 DEF WindowEnds, LockoutEnds, vars, rows
<1> QED BY <1>1, <1>2, <1>3, StepCases

-----------------------------------------------------------------------------
(* Rotation *)

(* What every step leaves of a request. *)
Lasts(q) ==
    /\ at[q] # "idle" =>
           /\ Kind(q)' = Kind(q) /\ req'[q].tab = req[q].tab /\ req'[q].sent = req[q].sent
           /\ req'[q].heard => req[q].heard
    /\ req[q].answer # None => req'[q].answer = req[q].answer
    /\ at[q] = "done" => at'[q] = "done"
    /\ at[q] \notin {"idle", "find"} => req'[q].beside = req[q].beside

LEMMA EveryRequestLasts ==
    ASSUME StageInv, [Next]_vars, NEW q \in Requests
    PROVE  Lasts(q)
<1> USE DEF StageInv, TypeInv
<1>0. Stage(q) /\ req[q] \in Request
  BY ReqTyped
<1>1. ASSUME NEW r \in Requests, HandlerStep(r) PROVE Lasts(q)
  <2>1. Works(r) /\ Alone(r)
    BY <1>1, HandlerMoves
  <2>2. CASE q = r
    <3>1. req[r].answer = None /\ at[r] \notin {"idle", "done"}
      BY <1>0, <2>1, <2>2 DEF Works, Stage, Working
    <3>2. /\ req'[r].kind = req[r].kind /\ req'[r].tab = req[r].tab
          /\ req'[r].sent = req[r].sent /\ req'[r].heard = req[r].heard
          /\ at[r] # "find" => req'[r].beside = req[r].beside
      BY <2>1 DEF Works
    <3> QED BY <2>2, <3>1, <3>2 DEF Lasts, Kind
  <2> QED BY <2>1, <2>2 DEF Alone, Lasts, Kind
<1>2. ASSUME NEW r \in Requests, RequestStep(r) PROVE Lasts(q)
  <2>1. Sends(r) /\ Alone(r)
    BY <1>2, SendMoves
  <2>2. CASE q = r
    BY <1>0, <2>1, <2>2 DEF Sends, Lasts, Stage
  <2> QED BY <2>1, <2>2 DEF Alone, Lasts, Kind
<1>3. ASSUME NEW r \in Requests, Answer(r) \/ AnswerUnheard(r) PROVE Lasts(q)
  BY <1>3, AnswerMoves DEF Arrives, Alone, Lasts, Kind
<1>4. ASSUME NEW r \in Requests, Hangup(r) PROVE Lasts(q)
  <2>1. Hangs(r) /\ Alone(r) /\ req[r] \in Request
    BY <1>4, HangupMoves, ReqTyped
  <2>2. /\ req'[q].kind = req[q].kind /\ req'[q].tab = req[q].tab
        /\ req'[q].sent = req[q].sent /\ req'[q].answer = req[q].answer
        /\ req'[q].beside = req[q].beside /\ (req'[q].heard => req[q].heard)
        /\ at'[q] = at[q]
    BY <2>1 DEF Hangs, Alone, Request
  <2> QED BY <2>2 DEF Lasts, Kind
<1>5. CASE WindowEnds \/ LockoutEnds \/ UNCHANGED vars
  BY <1>5 DEF WindowEnds, LockoutEnds, vars, Lasts, Kind
<1> QED BY <1>1, <1>2, <1>3, <1>4, <1>5, StepCases

Rotates(r) ==
    Kind(r) = "refresh" /\ session[r] = "live" /\ session[req[r].sent] = "live"
        => at[r] = "revokeOld" \/ req[r].answer = "error"

LEMMA RotatesStep ==
    ASSUME SessionInv, [Next]_vars, NEW r \in Requests, Rotates(r)
    PROVE  Rotates(r)'
<1> USE DEF SessionInv, StageInv, TypeInv
<1>0. /\ r \in Sessions /\ req[r] \in Request /\ Known(r) /\ Stage(r)
      /\ req[r].sent \in Sessions \cup {None}
  BY ReqTyped DEF Sessions, Request
<1>1. CASE HandlerStep(r)
  <2>0. Works(r)
    BY <1>1, HandlerMoves
  <2> SUFFICES ASSUME Kind(r) = "refresh", session'[r] = "live", session'[req[r].sent] = "live"
               PROVE  at'[r] = "revokeOld" \/ req'[r].answer = "error"
    BY <2>0 DEF Rotates, Kind, Works
  <2>1. CASE FindSession(r)
    BY <1>0, <2>1 DEF FindSession, Known, rows
  <2>2. CASE IssueSession(r)
    BY <2>2, ReqTyped DEF IssueSession, Goto
  <2>3. CASE RevokeOld(r)
    <3>1. req[r].sent \in Sessions
      BY <1>0, <2>3 DEF RevokeOld, Known
    <3> QED BY <2>3, <3>1 DEF RevokeOld, TypeOK
  <2>4. CASE RevokeLoggedOut(r)
    BY <1>0, <2>4 DEF RevokeLoggedOut, Stage
  <2>5. CASE RevokeAllForUser(r)
    BY <1>0, <2>5 DEF RevokeAllForUser, Live, TypeOK
  <2>6. CASE Elsewhere(r)
    <3>1. session' = session /\ at[r] \in {"revokeOld", "load"}
      BY <1>0, <2>0, <2>6 DEF Elsewhere, Works, Known, Working
    <3>2. req[r].answer = None
      BY <1>0, <3>1 DEF Stage, Working
    <3> QED BY <2>6, <3>1, <3>2, AccountsAssumption DEF Elsewhere, Rotates, Answers
  <2> QED BY <1>1, <2>1, <2>2, <2>3, <2>4, <2>5, <2>6, SessionCases
<1>2. ASSUME NEW q \in Requests, q # r, HandlerStep(q) PROVE Rotates(r)'
  <2>1. Alone(q)
    BY <1>2, HandlerMoves
  <2>2. session'[r] = "live" => session[r] = "live"
    BY <1>0, <1>2, SessionMoves
  <2>3. req[r].sent # None /\ session'[req[r].sent] = "live" => session[req[r].sent] = "live"
    BY <1>0, <1>2, AwakesOnce DEF Known
  <2>5. Kind(r)' = Kind(r) /\ req'[r] = req[r] /\ at'[r] = at[r]
    BY <1>2, <2>1 DEF Alone, Kind
  <2>4. Kind(r) = "refresh" /\ session[r] = "live" => req[r].sent # None
    BY <1>0 DEF Known
  <2> QED BY <2>2, <2>3, <2>4, <2>5 DEF Rotates
<1>3. ASSUME NEW q \in Requests, RequestStep(q) PROVE Rotates(r)'
  <2>1. Sends(q) /\ Alone(q)
    BY <1>3, SendMoves
  <2>2. CASE q = r
    BY <1>0, <2>1, <2>2 DEF Rotates, Sends, Known, rows
  <2> QED BY <2>1, <2>2 DEF Rotates, Alone, Sends, Kind, rows
<1>4. ASSUME NEW q \in Requests, Answer(q) \/ AnswerUnheard(q) PROVE Rotates(r)'
  BY <1>4, AnswerMoves DEF Arrives, Alone, Rotates, Kind, rows
<1>5. ASSUME NEW q \in Requests, Hangup(q) PROVE Rotates(r)'
  <2>1. Hangs(q) /\ Alone(q) /\ req[q] \in Request
    BY <1>5, HangupMoves, ReqTyped
  <2>2. /\ req'[r].kind = req[r].kind /\ req'[r].sent = req[r].sent
        /\ req'[r].answer = req[r].answer /\ at'[r] = at[r]
    BY <2>1 DEF Hangs, Alone, Request
  <2> QED BY <2>1, <2>2 DEF Hangs, Rotates, Kind, rows
<1>6. CASE WindowEnds \/ LockoutEnds \/ UNCHANGED vars
  BY <1>6 DEF WindowEnds, LockoutEnds, vars, rows, Rotates, Kind
<1> QED BY <1>1, <1>2, <1>3, <1>4, <1>5, <1>6, StepCases

(* A rotated token and its successor are never both live once rotate has   *)
(* returned, whatever other requests do in between.                        *)
THEOREM RotationIsExclusive == Spec => []RotationLeavesOneLive
<1> DEFINE I == SessionInv /\ \A r \in Requests : Rotates(r)
<1>1. Init => I
  <2>1. ASSUME Init, NEW r \in Requests PROVE Rotates(r)
    BY <2>1, AccountsAssumption DEF Init, Rotates, Sessions
  <2> QED BY <2>1, SessionsInit
<1>2. I /\ [Next]_vars => I'
  BY SessionsStep, RotatesStep
<1>3. I => RotationLeavesOneLive
  BY DEF RotationLeavesOneLive, Rotates
<1> QED BY <1>1, <1>2, <1>3, PTL DEF Spec

-----------------------------------------------------------------------------
(* Everything revoked *)

(* What a "revoke everything" found stays dead, and only requests that     *)
(* were under way may still succeed it.                                    *)
Severed(c) ==
    /\ \A s \in c.old : session[s] = "revoked"
    /\ \A r \in Requests :
           Kind(r) = "refresh" /\ req[r].sent \in c.old =>
               /\ at[r] \in {"issue", "revokeOld"} => r \in c.busy
               /\ session[r] # "none" => r \in c.old \cup c.busy

SeveredInv == SessionInv /\ \A c \in cuts : Severed(c)

LEMMA SeveredStays ==
    ASSUME SessionInv, NEW c \in cuts, Severed(c),
           \A s \in Sessions : session[s] = "revoked" => session'[s] = "revoked",
           \A r \in Requests :
               /\ Kind(r)' = "refresh" /\ session'[r] # "none" => session[r] # "none"
               /\ Kind(r)' = "refresh" /\ at'[r] \in {"issue", "revokeOld"} => at'[r] = at[r]
               /\ at[r] # "idle" => Kind(r)' = Kind(r) /\ req'[r].sent = req[r].sent
    PROVE  Severed(c)'
<1>1. c.old \subseteq Sessions
  BY DEF SessionInv, StageInv, TypeInv, TypeOK
<1>2. \A r \in Requests : at[r] = "idle" => session[r] = "none"
  BY DEF SessionInv, Known
<1> QED BY <1>1, <1>2 DEF Severed

LEMMA RevokedStays ==
    ASSUME SessionInv, NEW r \in Requests, HandlerStep(r), NEW s \in Sessions,
           session[s] = "revoked"
    PROVE  session'[s] = "revoked"
<1>1. session' \in [Sessions -> {"none", "live", "revoked"}]
  BY HandlerKeepsType DEF SessionInv, StageInv, TypeInv, DataTyped
<1> QED BY <1>1, AwakesOnce, SessionMoves

LEMMA SeveredHandler ==
    ASSUME SeveredInv, NEW r \in Requests, HandlerStep(r), NEW c \in cuts'
    PROVE  Severed(c)'
<1> USE DEF SeveredInv, SessionInv, StageInv, TypeInv
<1>0. /\ Works(r) /\ Alone(r) /\ Known(r) /\ Stage(r) /\ r \in Sessions
      /\ \A s \in Sessions : session[s] = "revoked" => session'[s] = "revoked"
  BY HandlerMoves, RevokedStays DEF Sessions
<1>1. ASSUME NEW q \in Requests, q # r
      PROVE  /\ Kind(q)' = Kind(q) /\ req'[q].sent = req[q].sent /\ at'[q] = at[q]
             /\ session'[q] # "none" => session[q] # "none"
  BY <1>0, <1>1, SessionMoves DEF Alone, Kind, Sessions
<1>2. Kind(r)' = Kind(r) /\ req'[r].sent = req[r].sent
  BY <1>0 DEF Works, Kind
<1>3. CASE Kind(r) = "refresh" /\ FindSession(r)
  <2>1. c \in cuts /\ Severed(c) /\ session' = session
    BY <1>3 DEF FindSession, rows
  <2>2. at'[r] = "issue" => session[req[r].sent] = "live"
    BY <1>3, ReqTyped DEF FindSession, Goto, Reply
  <2>3. at'[r] # "revokeOld"
    BY <1>3, ReqTyped DEF FindSession, Goto, Reply
  <2> QED BY <1>0, <1>1, <1>2, <2>1, <2>2, <2>3 DEF Severed
<1>4. CASE IssueSession(r)
  <2>1. c \in cuts /\ Severed(c) /\ at[r] = "issue"
    BY <1>4 DEF IssueSession
  <2>2. c.old \subseteq Sessions
    BY <2>1 DEF TypeOK
  <2> QED BY <1>0, <1>1, <1>2, <2>1, <2>2 DEF Severed
<1>5. CASE RevokeOld(r) \/ RevokeLoggedOut(r) \/ Elsewhere(r)
  <2>1. c \in cuts
    BY <1>5 DEF RevokeOld, RevokeLoggedOut, Elsewhere
  <2>2. session'[r] # "none" => session[r] # "none" \/ at[r] = "issue"
    BY <1>0, SessionMoves
  <2>3. at'[r] \in {"load", "answer"} \/ Kind(r) # "refresh"
    BY <1>5, ReqTyped DEF RevokeOld, RevokeLoggedOut, Elsewhere, Reply, Goto
  <2>4. at[r] = "issue" /\ Kind(r) = "refresh" => session' = session
    BY <1>5 DEF RevokeOld, RevokeLoggedOut, Elsewhere
  <2> QED BY <1>0, <1>1, <1>2, <2>1, <2>2, <2>3, <2>4, SeveredStays
<1>6. CASE RevokeAllForUser(r)
  <2>1. at[r] = "revokeAll" /\ at'[r] = "answer"
    BY <1>6, ReqTyped DEF RevokeAllForUser, Reply, Goto
  <2>2. \A s \in Sessions : session'[s] # "none" => session[s] # "none"
    BY <2>1, SessionMoves
  <2>3. CASE c \in cuts
    BY <1>0, <1>1, <1>2, <2>1, <2>2, <2>3, SeveredStays
  <2>4. CASE c \notin cuts
    <3> DEFINE old == {s \in Sessions : session[s] # "none"}
    <3>1. c = [old |-> old, busy |-> Busy]
      BY <1>6, <2>4 DEF RevokeAllForUser
    <3>2. \A s \in Sessions : session'[s] # "live"
      BY <1>6 DEF RevokeAllForUser, Live, TypeOK
    <3>3. session' \in [Sessions -> {"none", "live", "revoked"}]
      BY HandlerKeepsType DEF DataTyped
    <3>4. \A s \in c.old : session'[s] = "revoked"
      BY <3>1, <3>2, <3>3, SessionMoves
    <3>5. \A q \in Requests :
              /\ at'[q] \in {"issue", "revokeOld"} => q \in c.busy
              /\ session'[q] # "none" => q \in c.old
      BY <1>1, <2>1, <2>2, <3>1 DEF Busy, Sessions
    <3> QED BY <3>4, <3>5 DEF Severed
  <2> QED BY <2>3, <2>4
<1> QED BY <1>3, <1>4, <1>5, <1>6, SessionCases

LEMMA SeveredStep == SeveredInv /\ [Next]_vars => SeveredInv'
<1> SUFFICES ASSUME SeveredInv, [Next]_vars PROVE \A c \in cuts' : Severed(c)'
  BY SessionsStep DEF SeveredInv
<1> USE DEF SeveredInv
<1>0. StageInv /\ TypeInv /\ TypeOK
  BY DEF SessionInv, StageInv, TypeInv
<1>1. ASSUME NEW r \in Requests, HandlerStep(r) PROVE \A c \in cuts' : Severed(c)'
  BY <1>1, SeveredHandler
<1>2. ASSUME NEW r \in Requests, RequestStep(r) PROVE \A c \in cuts' : Severed(c)'
  <2>1. Sends(r) /\ Alone(r)
    BY <1>0, <1>2, SendMoves
  <2> QED BY <2>1, SeveredStays DEF Sends, Alone, Entrances, Kind, rows
<1>3. ASSUME NEW r \in Requests, Answer(r) \/ AnswerUnheard(r)
      PROVE  \A c \in cuts' : Severed(c)'
  <2>1. Arrives(r) /\ Alone(r)
    BY <1>0, <1>3, AnswerMoves
  <2> QED BY <2>1, SeveredStays DEF Arrives, Alone, Kind, rows
<1>4. ASSUME NEW r \in Requests, Hangup(r) PROVE \A c \in cuts' : Severed(c)'
  <2>1. Hangs(r) /\ Alone(r) /\ req[r] \in Request
    BY <1>0, <1>4, HangupMoves, ReqTyped
  <2>2. \A q \in Requests : Kind(q)' = Kind(q) /\ req'[q].sent = req[q].sent /\ at'[q] = at[q]
    BY <2>1 DEF Hangs, Alone, Kind, Request
  <2> QED BY <2>1, <2>2, SeveredStays DEF Hangs, rows
<1>5. CASE WindowEnds \/ LockoutEnds \/ UNCHANGED vars
  BY <1>5, SeveredStays DEF WindowEnds, LockoutEnds, vars, rows, Kind
<1> QED BY <1>1, <1>2, <1>3, <1>4, <1>5, StepCases

(* After a reset of the password, or after a detected reuse, no later      *)
(* refresh continues a session from before it.                             *)
THEOREM RevocationIsFinal == Spec => []NoLateRotation
<1>1. Init => SeveredInv
  BY SessionsInit DEF SeveredInv, Init
<1>2. SeveredInv => NoLateRotation
  BY DEF SeveredInv, Severed, NoLateRotation
<1> QED BY <1>1, <1>2, SeveredStep, PTL DEF Spec

-----------------------------------------------------------------------------
(* Forks *)

(* A refresh that has read its token as live, and was not cut short before *)
(* it issued the next.                                                     *)
Begun(r) == at[r] \in {"issue", "revokeOld"} \/ session[r] # "none"

(* Once rotate has returned, the old token is dead. *)
Buried(r) ==
    Kind(r) = "refresh" /\ session[r] # "none" /\ at[r] # "revokeOld" =>
        req[r].answer = "error" \/ session[req[r].sent] = "revoked"

Overlap(q, r) ==
    \/ q \in req[r].beside \/ r \in req[q].beside
    \/ req[q].answer = "error" \/ req[r].answer = "error"

Forked(q, r) ==
    /\ Kind(q) = "refresh" /\ Kind(r) = "refresh" /\ req[q].sent = req[r].sent
    /\ Begun(q) /\ Begun(r)
    => Overlap(q, r)

ForkInv ==
    /\ SessionInv
    /\ \A r \in Requests : Buried(r)
    /\ \A q, r \in Requests : q # r => Forked(q, r)

(* What is revoked stays so, and a session appears after it was begun.     *)
LEMMA SessionsAge ==
    ASSUME SessionInv, [Next]_vars
    PROVE  /\ \A s \in Sessions : session[s] = "revoked" => session'[s] = "revoked"
           /\ \A r \in Requests : session[r] = "none" /\ session'[r] # "none" => at[r] = "issue"
<1> USE DEF SessionInv, StageInv, TypeInv
<1>1. ASSUME NEW r \in Requests, HandlerStep(r)
      PROVE  /\ \A s \in Sessions : session[s] = "revoked" => session'[s] = "revoked"
             /\ \A q \in Requests : session[q] = "none" /\ session'[q] # "none" => at[q] = "issue"
  BY <1>1, SessionMoves, RevokedStays DEF Sessions
<1>2. ASSUME NEW r \in Requests,
             RequestStep(r) \/ Answer(r) \/ AnswerUnheard(r) \/ Hangup(r)
      PROVE  session' = session
  BY <1>2, SendMoves, AnswerMoves, HangupMoves DEF Sends, Arrives, Hangs, rows
<1>3. CASE WindowEnds \/ LockoutEnds \/ UNCHANGED vars
  BY <1>3 DEF WindowEnds, LockoutEnds, vars, rows
<1> QED BY <1>1, <1>2, <1>3, StepCases

(* A request begins where FindSession reads its token as live.             *)
LEMMA BeginsOnce ==
    ASSUME SessionInv, [Next]_vars, NEW r \in Requests, ~Begun(r), Begun(r)',
           Kind(r)' = "refresh"
    PROVE  FindSession(r) /\ Kind(r) = "refresh" /\ at'[r] = "issue" /\ session' = session
<1> USE DEF SessionInv, StageInv, TypeInv
<1>0. /\ session[r] = "none" /\ session'[r] = "none" /\ at[r] \notin {"issue", "revokeOld"}
      /\ at'[r] \in {"issue", "revokeOld"}
  BY SessionsAge DEF Begun
<1>1. ASSUME NEW q \in Requests,
             RequestStep(q) \/ Answer(q) \/ AnswerUnheard(q) \/ Hangup(q)
      PROVE  FALSE
  <2>1. Alone(q) /\ (Sends(q) \/ Arrives(q) \/ Hangs(q))
    BY <1>1, SendMoves, AnswerMoves, HangupMoves
  <2> QED BY <1>0, <2>1 DEF Alone, Sends, Arrives, Hangs, Entrances
<1>2. ASSUME WindowEnds \/ LockoutEnds \/ UNCHANGED vars PROVE FALSE
  BY <1>0, <1>2 DEF WindowEnds, LockoutEnds, vars
<1>3. ASSUME NEW q \in Requests, q # r, HandlerStep(q) PROVE FALSE
  BY <1>0, <1>3, HandlerMoves DEF Alone
<1>4. HandlerStep(r)
  BY <1>1, <1>2, <1>3, StepCases
<1>5. Kind(r) = "refresh"
  BY <1>4, HandlerMoves DEF Works, Kind
<1>6. CASE Elsewhere(r)
  BY <1>0, <1>5, <1>6 DEF Elsewhere
<1>7. CASE RevokeLoggedOut(r) \/ RevokeAllForUser(r)
  BY <1>0, <1>7, ReqTyped DEF RevokeLoggedOut, RevokeAllForUser, Reply, Goto
<1>8. CASE IssueSession(r) \/ RevokeOld(r)
  BY <1>0, <1>8 DEF IssueSession, RevokeOld
<1>9. CASE FindSession(r)
  BY <1>0, <1>5, <1>9, FindMoves, ReqTyped DEF Goto, Reply, rows
<1> QED BY <1>4, <1>6, <1>7, <1>8, <1>9, SessionCases

LEMMA BuriedStep ==
    ASSUME ForkInv, [Next]_vars, NEW r \in Requests
    PROVE  Buried(r)'
<1> USE DEF ForkInv, SessionInv, StageInv, TypeInv
<1>0. /\ Lasts(r) /\ Stage(r) /\ Known(r) /\ Buried(r) /\ req[r] \in Request
      /\ r \in Sessions /\ req[r].sent \in Sessions \cup {None}
  BY EveryRequestLasts, ReqTyped DEF Sessions, Request
<1> SUFFICES ASSUME Kind(r)' = "refresh", session'[r] # "none", at'[r] # "revokeOld"
             PROVE  req'[r].answer = "error" \/ session'[req'[r].sent] = "revoked"
  BY DEF Buried
<1>1. CASE session[r] = "none"
  <2>1. at[r] = "issue"
    BY <1>1, SessionsAge
  <2>2. HandlerStep(r)
    <3>1. ASSUME NEW q \in Requests,
                 RequestStep(q) \/ Answer(q) \/ AnswerUnheard(q) \/ Hangup(q)
          PROVE  session' = session
      BY <3>1, SendMoves, AnswerMoves, HangupMoves DEF Sends, Arrives, Hangs, rows
    <3>2. WindowEnds \/ LockoutEnds \/ UNCHANGED vars => session' = session
      BY DEF WindowEnds, LockoutEnds, vars, rows
    <3>3. ASSUME NEW q \in Requests, q # r, HandlerStep(q) PROVE session'[r] = "none"
      BY <1>0, <1>1, <3>3, SessionMoves
    <3> QED BY <1>1, <3>1, <3>2, <3>3, StepCases
  <2>3. Kind(r) = "refresh"
    BY <1>0, <2>1 DEF Lasts
  <2>4. session' # session
    BY <1>1
  <2>5. IssueSession(r)
    BY <2>1, <2>2, <2>3, <2>4, SessionCases
    DEF Elsewhere, FindSession, RevokeOld, RevokeLoggedOut, RevokeAllForUser
  <2> QED BY <2>3, <2>5, ReqTyped DEF IssueSession, Goto
<1>2. CASE session[r] # "none" /\ at[r] # "revokeOld"
  <2>1. Kind(r) = "refresh" /\ req'[r].sent = req[r].sent
    BY <1>0, <1>2 DEF Known, Lasts
  <2>2. req[r].answer = "error" \/ session[req[r].sent] = "revoked"
    BY <1>0, <1>2, <2>1 DEF Buried
  <2>3. req[r].sent \in Sessions
    BY <1>0, <1>2, <2>1 DEF Known
  <2> QED BY <1>0, <2>1, <2>2, <2>3, SessionsAge, AccountsAssumption DEF Lasts, Answers
<1>3. CASE session[r] # "none" /\ at[r] = "revokeOld"
  <2>1. Kind(r) = "refresh" /\ req'[r].sent = req[r].sent /\ req[r].sent \in Sessions
    BY <1>0, <1>3 DEF Known, Lasts, Stage
  <2>2. HandlerStep(r)
    <3>1. ASSUME NEW q \in Requests,
                 RequestStep(q) \/ Answer(q) \/ AnswerUnheard(q) \/ Hangup(q)
          PROVE  at'[r] = at[r]
      <4>1. Alone(q) /\ (Sends(q) \/ Arrives(q) \/ Hangs(q))
        BY <3>1, SendMoves, AnswerMoves, HangupMoves
      <4> QED BY <1>3, <4>1 DEF Alone, Sends, Arrives, Hangs
    <3>2. WindowEnds \/ LockoutEnds \/ UNCHANGED vars => at' = at
      BY DEF WindowEnds, LockoutEnds, vars
    <3>3. ASSUME NEW q \in Requests, q # r, HandlerStep(q) PROVE at'[r] = at[r]
      BY <3>3, HandlerMoves DEF Alone
    <3> QED BY <1>3, <3>1, <3>2, <3>3, StepCases
  <2>3. RevokeOld(r) \/ Elsewhere(r)
    BY <1>3, <2>1, <2>2, SessionCases
    DEF FindSession, IssueSession, RevokeLoggedOut, RevokeAllForUser
  <2>4. CASE RevokeOld(r)
    BY <2>1, <2>4 DEF RevokeOld, TypeOK
  <2>5. CASE Elsewhere(r)
    BY <1>3, <2>5 DEF Elsewhere
  <2> QED BY <2>3, <2>4, <2>5
<1> QED BY <1>1, <1>2, <1>3

LEMMA ForkStep ==
    ASSUME ForkInv, [Next]_vars, NEW q \in Requests, NEW r \in Requests, q # r
    PROVE  Forked(q, r)'
<1> USE DEF ForkInv, SessionInv, StageInv, TypeInv
<1>0. \A p \in Requests : Lasts(p) /\ Stage(p) /\ Known(p) /\ req[p] \in Request
  BY EveryRequestLasts, ReqTyped
<1> SUFFICES ASSUME Kind(q)' = "refresh", Kind(r)' = "refresh", req'[q].sent = req'[r].sent,
                    Begun(q)', Begun(r)'
             PROVE  Overlap(q, r)'
  BY DEF Forked
(* Where both had begun, they remember it. *)
<1>1. ASSUME NEW p \in Requests, Begun(p)
      PROVE  /\ Kind(p)' = Kind(p) /\ req'[p].sent = req[p].sent
             /\ req'[p].beside = req[p].beside
             /\ req[p].answer = "error" => req'[p].answer = "error"
  <2>1. at[p] \notin {"idle", "find"}
    BY <1>0, <1>1 DEF Begun, Known
  <2> QED BY <1>0, <2>1, AccountsAssumption DEF Lasts, Answers
<1>2. CASE Begun(q) /\ Begun(r)
  <2>1. Overlap(q, r)
    BY <1>1, <1>2 DEF Forked
  <2> QED BY <1>1, <1>2, <2>1 DEF Overlap
(* The second of them, x, begins: y is under way, was cut short, or has    *)
(* left x no live token.                                                   *)
<1>3. ASSUME NEW x \in Requests, NEW y \in Requests, x # y, ~Begun(x), Begun(x)', Begun(y)',
             Kind(x)' = "refresh", Kind(y)' = "refresh", req'[x].sent = req'[y].sent
      PROVE  y \in req'[x].beside \/ req'[y].answer = "error"
  <2>1. FindSession(x) /\ Kind(x) = "refresh" /\ at'[x] = "issue" /\ session' = session
    BY <1>3, BeginsOnce
  <2>2. Works(x) /\ Alone(x)
    BY <2>1, HandlerMoves DEF HandlerStep, SessionStep
  <2>3. /\ Kind(y) = "refresh" /\ req'[y] = req[y] /\ at'[y] = at[y] /\ Begun(y)
        /\ req[x].sent = req[y].sent
    BY <1>3, <2>1, <2>2 DEF Alone, Works, Begun, Kind
  <2>4. /\ req'[x].beside = Rotating(req[x].sent)
        /\ session[req[x].sent] = "live"
    <3>1. at'[x] \notin {"answer", "revoke", "revokeAll"}
      BY <2>1
    <3>2. req' = [req EXCEPT ![x].beside = Rotating(req[x].sent)]
      BY <2>1, <3>1, FindMoves
    <3>3. session[req[x].sent] = "live"
      BY <2>1, <3>1, ReqTyped DEF FindSession, Goto, Reply
    <3> QED BY <1>0, <3>2, <3>3, ReqTyped DEF Request
  <2>5. CASE at[y] \in {"issue", "revokeOld"}
    BY <2>3, <2>4, <2>5 DEF Rotating
  <2>6. CASE at[y] \notin {"issue", "revokeOld"}
    <3>1. session[y] # "none" /\ Buried(y)
      BY <2>3, <2>6 DEF Begun
    <3> QED BY <2>3, <2>4, <2>6, <3>1 DEF Buried
  <2> QED BY <2>5, <2>6
<1> QED BY <1>2, <1>3 DEF Overlap

(* Two tokens continue the same one only where their rotations overlapped, *)
(* or one of them was cut short.                                           *)
THEOREM ForksAreOverlaps == Spec => []ForksOverlap
<1>1. Init => ForkInv
  <2> SUFFICES ASSUME Init PROVE (\A r \in Requests : Buried(r))
                                 /\ \A q, r \in Requests : Forked(q, r)
    BY SessionsInit DEF ForkInv
  <2>1. \A r \in Requests : Kind(r) # "refresh"
    BY AccountsAssumption DEF Init, Idle, Kind, AllKinds
  <2> QED BY <2>1 DEF Buried, Forked
<1>2. ForkInv /\ [Next]_vars => ForkInv'
  BY SessionsStep, BuriedStep, ForkStep DEF ForkInv
<1>3. ForkInv => ForksOverlap
  BY DEF ForkInv, Forked, Begun, Overlap, ForksOverlap
<1> QED BY <1>1, <1>2, <1>3, PTL DEF Spec

(* All three together: what the rotation of refresh tokens promises. *)
THEOREM ChainsSound == Spec => []ChainsAreSound
<1>1. RotationLeavesOneLive /\ ForksOverlap /\ NoLateRotation => ChainsAreSound
  BY DEF ChainsAreSound
<1> QED BY <1>1, RotationIsExclusive, ForksAreOverlaps, RevocationIsFinal, PTL

-----------------------------------------------------------------------------
(* Reuse *)

(* A successor is the refresh that rotated the token, whatever it came to. *)
Succeeds(s) ==
    heir[s] # None =>
        /\ heir[s] \in Requests
        /\ Kind(heir[s]) = "refresh" /\ req[heir[s]].sent = s
        /\ session[heir[s]] # "none"

(* A request that is about to revoke everything has seen a successor. *)
Detects(r) == Kind(r) = "refresh" /\ at[r] = "revokeAll" => heir[req[r].sent] # None

HeirInv ==
    /\ SessionInv
    /\ \A s \in Sessions : Succeeds(s)
    /\ \A r \in Requests : Detects(r)

LEMMA HeirMoves ==
    ASSUME HeirInv, NEW r \in Requests, HandlerStep(r)
    PROVE  /\ \A s \in Sessions : heir'[s] # heir[s] =>
                  /\ heir'[s] = r /\ s = req[r].sent
                  /\ Kind(r)' = "refresh" /\ session[r] # "none"
           /\ Detects(r)'
<1> USE DEF HeirInv, SessionInv, StageInv, TypeInv
<1>0. /\ Works(r) /\ Stage(r) /\ heir \in [Sessions -> Requests \cup {None}]
      /\ req[r] \in Request
  BY HandlerMoves, ReqTyped DEF TypeOK
<1>1. CASE Kind(r) = "refresh" /\ FindSession(r)
  <2>1. heir' = heir /\ req'[r].sent = req[r].sent
    BY <1>0, <1>1 DEF FindSession, Works, rows
  <2>2. at'[r] = "revokeAll" => heir[req[r].sent] # None
    BY <1>1, ReqTyped DEF FindSession, Goto, Reply
  <2> QED BY <2>1, <2>2 DEF Detects
<1>2. CASE IssueSession(r)
  <2>1. heir' = heir /\ at'[r] # "revokeAll"
    BY <1>2, ReqTyped DEF IssueSession, Goto, Reply
  <2> QED BY <2>1 DEF Detects
<1>3. CASE RevokeOld(r)
  <2>1. at[r] = "revokeOld" /\ at'[r] = "load" /\ session[r] # "none"
    BY <1>0, <1>3, ReqTyped DEF RevokeOld, Goto, Known
  <2>2. Kind(r)' = "refresh"
    BY <1>0, <2>1 DEF Works, Stage, Kind
  <2> QED BY <1>0, <1>3, <2>1, <2>2 DEF RevokeOld, Detects
<1>4. CASE RevokeLoggedOut(r) \/ RevokeAllForUser(r)
  <2>1. heir' = heir /\ at'[r] # "revokeAll"
    BY <1>4, ReqTyped DEF RevokeLoggedOut, RevokeAllForUser, Goto, Reply
  <2> QED BY <2>1 DEF Detects
<1>5. CASE Elsewhere(r)
  <2>1. heir' = heir /\ (Kind(r)' = "refresh" => at'[r] = "answer")
    BY <1>5 DEF Elsewhere, Works, Kind
  <2> QED BY <2>1 DEF Detects
<1> QED BY <1>1, <1>2, <1>3, <1>4, <1>5, SessionCases

LEMMA HeirStep == HeirInv /\ [Next]_vars => HeirInv'
<1> SUFFICES ASSUME HeirInv, [Next]_vars
             PROVE  (\A s \in Sessions : Succeeds(s)') /\ (\A q \in Requests : Detects(q)')
  BY SessionsStep DEF HeirInv
<1> USE DEF HeirInv, SessionInv, StageInv, TypeInv
<1>0. /\ heir \in [Sessions -> Requests \cup {None}]
      /\ \A q \in Requests : Stage(q) /\ Lasts(q)
  BY EveryRequestLasts DEF TypeOK
<1>1. ASSUME NEW s \in Sessions, heir'[s] = heir[s] PROVE Succeeds(s)'
  <2> SUFFICES ASSUME heir[s] # None PROVE Succeeds(s)'
    BY <1>1 DEF Succeeds
  <2>1. heir[s] \in Requests /\ Kind(heir[s]) = "refresh" /\ session[heir[s]] # "none"
    BY DEF Succeeds
  <2>2. at[heir[s]] # "idle"
    BY <2>1 DEF Known
  <2>3. session'[heir[s]] # "none"
    BY <2>1, SessionsLast DEF Sessions
  <2> QED BY <1>0, <1>1, <2>1, <2>2, <2>3 DEF Succeeds, Lasts, Kind
<1>2. ASSUME NEW q \in Requests, heir' = heir, at'[q] = at[q] PROVE Detects(q)'
  BY <1>0, <1>2 DEF Detects, Lasts
<1>3. ASSUME NEW r \in Requests, HandlerStep(r)
      PROVE  (\A s \in Sessions : Succeeds(s)') /\ (\A q \in Requests : Detects(q)')
  <2>1. Works(r) /\ Alone(r) /\ Detects(r)'
    BY <1>3, HandlerMoves, HeirMoves
  <2>2. ASSUME NEW s \in Sessions, heir'[s] # heir[s] PROVE Succeeds(s)'
    <3>1. heir'[s] = r /\ s = req[r].sent /\ Kind(r)' = "refresh" /\ session[r] # "none"
      BY <1>3, <2>2, HeirMoves
    <3>2. session'[r] # "none"
      BY <3>1, SessionsLast DEF Sessions
    <3> QED BY <2>1, <3>1, <3>2 DEF Succeeds, Works, Kind
  <2>3. ASSUME NEW q \in Requests, q # r PROVE Detects(q)'
    <3>1. at'[q] = at[q] /\ req'[q] = req[q]
      BY <2>1, <2>3 DEF Alone
    <3>2. \A s \in Sessions : heir[s] # None => heir'[s] # None
      BY <1>3, HeirMoves, AccountsAssumption DEF Sessions
    <3>3. at[q] = "revokeAll" /\ Kind(q) = "refresh" => req[q].sent \in Sessions
      BY ReqTyped DEF Known, Request
    <3> QED BY <3>1, <3>2, <3>3 DEF Detects, Kind
  <2> QED BY <1>1, <2>1, <2>2, <2>3
<1>4. ASSUME NEW r \in Requests,
             RequestStep(r) \/ Answer(r) \/ AnswerUnheard(r) \/ Hangup(r)
      PROVE  (\A s \in Sessions : Succeeds(s)') /\ (\A q \in Requests : Detects(q)')
  <2>1. Alone(r) /\ (Sends(r) \/ Arrives(r) \/ Hangs(r))
    BY <1>4, SendMoves, AnswerMoves, HangupMoves
  <2>2. heir' = heir
    BY <2>1 DEF Sends, Arrives, Hangs, rows
  <2>3. at'[r] = at[r] \/ at'[r] # "revokeAll"
    BY <2>1 DEF Sends, Arrives, Hangs, Entrances
  <2>4. \A q \in Requests : Detects(q)'
    BY <1>2, <2>1, <2>2, <2>3 DEF Alone, Detects
  <2> QED BY <1>1, <2>2, <2>4
<1>5. CASE WindowEnds \/ LockoutEnds \/ UNCHANGED vars
  BY <1>1, <1>2, <1>5 DEF WindowEnds, LockoutEnds, vars, rows
<1> QED BY <1>3, <1>4, <1>5, StepCases

(* A token of a request is out only once the request is over.              *)
TokenOut(s) == s \in Requests => at[s] = "done"

(* The browser that a successor reached no longer holds the old token.     *)
Replaced(q) ==
    Kind(q) = "refresh" /\ at[q] = "done" /\ req[q].heard /\ req[q].answer = "ok"
        => cookie[BrowserOf[req[q].tab]] # req[q].sent

CookieInv ==
    /\ HeirInv
    /\ \A q \in Requests : TokenOut(req[q].sent) /\ Replaced(q)
    /\ \A b \in Browsers : TokenOut(cookie[b])

LEMMA SentToken ==
    ASSUME CookieInv, [Next]_vars, NEW q \in Requests, at[q] # "idle"
    PROVE  TokenOut(req[q].sent)'
<1>1. req'[q].sent = req[q].sent /\ TokenOut(req[q].sent)
  BY EveryRequestLasts DEF CookieInv, HeirInv, SessionInv, Lasts
<1>2. req[q].sent \in Requests => Lasts(req[q].sent)
  BY EveryRequestLasts DEF CookieInv, HeirInv, SessionInv
<1> QED BY <1>1, <1>2 DEF TokenOut, Lasts

LEMMA CookieStep == CookieInv /\ [Next]_vars => CookieInv'
<1> SUFFICES ASSUME CookieInv, [Next]_vars
             PROVE  /\ \A q \in Requests : TokenOut(req[q].sent)' /\ Replaced(q)'
                    /\ \A b \in Browsers : TokenOut(cookie[b])'
  BY HeirStep DEF CookieInv
<1> USE DEF CookieInv, HeirInv, SessionInv, StageInv, TypeInv
<1>0. \A q \in Requests : Stage(q) /\ Lasts(q) /\ Known(q) /\ HasTab(q)
  BY EveryRequestLasts
<1>1. ASSUME NEW b \in Browsers, cookie'[b] = cookie[b] PROVE TokenOut(cookie[b])'
  BY <1>0, <1>1 DEF TokenOut, Lasts
<1>2. ASSUME NEW q \in Requests, cookie' = cookie, at[q] # "idle", at'[q] = at[q]
      PROVE  Replaced(q)'
  <2>1. Kind(q)' = Kind(q) /\ req'[q].tab = req[q].tab /\ req'[q].sent = req[q].sent
        /\ (req'[q].heard => req[q].heard)
    BY <1>0, <1>2 DEF Lasts
  <2>2. at[q] = "done" => req'[q].answer = req[q].answer
    BY <1>0 DEF Lasts, Stage, Working
  <2> QED BY <1>2, <2>1, <2>2 DEF Replaced
<1>3. ASSUME NEW r \in Requests, HandlerStep(r)
      PROVE  /\ \A q \in Requests : TokenOut(req[q].sent)' /\ Replaced(q)'
             /\ \A b \in Browsers : TokenOut(cookie[b])'
  <2>1. Works(r) /\ Alone(r) /\ cookie' = cookie /\ at[r] # "idle" /\ at'[r] # "done"
    BY <1>3, HandlerMoves DEF Works, browser, Working
  <2>2. ASSUME NEW q \in Requests, at[q] = "idle"
        PROVE  TokenOut(req[q].sent)' /\ Replaced(q)'
    <3>1. at'[q] = "idle" /\ req'[q] = req[q]
      BY <2>1, <2>2 DEF Alone
    <3> QED BY <1>0, <2>2, <3>1 DEF TokenOut, Replaced, Lasts
  <2> QED BY <1>1, <1>2, <2>1, <2>2, SentToken DEF Alone, Replaced
<1>4. ASSUME NEW r \in Requests, RequestStep(r)
      PROVE  /\ \A q \in Requests : TokenOut(req[q].sent)' /\ Replaced(q)'
             /\ \A b \in Browsers : TokenOut(cookie[b])'
  <2>1. Sends(r) /\ Alone(r) /\ cookie' = cookie
    BY <1>4, SendMoves DEF Sends, browser
  <2>2. ASSUME NEW q \in Requests, q # r, at[q] = "idle"
        PROVE  TokenOut(req[q].sent)' /\ Replaced(q)'
    <3>1. at'[q] = "idle" /\ req'[q] = req[q]
      BY <2>1, <2>2 DEF Alone
    <3> QED BY <1>0, <2>2, <3>1 DEF TokenOut, Replaced, Lasts
  <2>3. TokenOut(req[r].sent)' /\ Replaced(r)'
    <3>1. at'[r] # "done"
      BY <2>1 DEF Sends, Entrances
    <3>2. CASE req'[r].kind \in {"refresh", "logout"}
      <4>1. BrowserOf[req'[r].tab] \in Browsers /\ req'[r].sent = cookie[BrowserOf[req'[r].tab]]
        BY <2>1, <3>2 DEF Sends, Browsers
      <4> QED BY <1>1, <2>1, <3>1, <4>1 DEF Replaced
    <3>3. CASE req'[r].kind \notin {"refresh", "logout"}
      BY <2>1, <3>1, <3>3, AccountsAssumption DEF Sends, TokenOut, Replaced, Sessions
    <3> QED BY <3>2, <3>3
  <2> QED BY <1>1, <1>2, <2>1, <2>2, <2>3, SentToken DEF Alone
<1>5. ASSUME NEW r \in Requests, Answer(r) \/ AnswerUnheard(r)
      PROVE  /\ \A q \in Requests : TokenOut(req[q].sent)' /\ Replaced(q)'
             /\ \A b \in Browsers : TokenOut(cookie[b])'
  <2>1. Arrives(r) /\ Alone(r)
    BY <1>5, AnswerMoves
  <2>2. ASSUME NEW q \in Requests PROVE TokenOut(req[q].sent)'
    <3>1. req'[q].sent = req[q].sent
      BY <2>1 DEF Arrives, Alone
    <3> QED BY <1>0, <3>1 DEF TokenOut, Lasts
  <2>3. ASSUME NEW b \in Browsers PROVE TokenOut(cookie[b])'
    <3>1. cookie'[b] \in {cookie[b], None, r}
      BY <1>5 DEF Answer, AnswerUnheard, SetCookie, TypeOK, browser
    <3> QED BY <1>1, <2>1, <3>1, AccountsAssumption DEF TokenOut, Arrives, Sessions
  <2>4. ASSUME NEW q \in Requests PROVE Replaced(q)'
    <3> DEFINE b == BrowserOf[req[q].tab]
    <3>0. req'[q] = req[q] /\ Kind(q)' = Kind(q)
      BY <2>1 DEF Arrives, Alone, Kind
    <3> SUFFICES ASSUME Kind(q) = "refresh", at'[q] = "done", req[q].heard, req[q].answer = "ok"
                 PROVE  cookie'[b] # req[q].sent
      BY <3>0 DEF Replaced
    <3>1. b \in Browsers /\ req[q].sent # None
      BY <1>0 DEF HasTab, Browsers, Known
    <3>2. CASE q = r
      <4>1. cookie'[b] = r
        BY <1>5, <3>1, <3>2 DEF Answer, AnswerUnheard, SetCookie, TypeOK
      <4> QED BY <2>1, <3>2, <4>1 DEF TokenOut, Arrives
    <3>3. CASE q # r
      <4>1. at[q] = "done" /\ cookie[b] # req[q].sent
        BY <2>1, <3>3 DEF Alone, Replaced
      <4>2. cookie'[b] \in {cookie[b], None, r}
        BY <1>5, <3>1 DEF Answer, AnswerUnheard, SetCookie, TypeOK, browser
      <4>3. req[q].sent # r
        BY <2>1 DEF TokenOut, Arrives
      <4> QED BY <3>1, <4>1, <4>2, <4>3
    <3> QED BY <3>2, <3>3
  <2> QED BY <2>2, <2>3, <2>4
<1>6. ASSUME NEW r \in Requests, Hangup(r)
      PROVE  /\ \A q \in Requests : TokenOut(req[q].sent)' /\ Replaced(q)'
             /\ \A b \in Browsers : TokenOut(cookie[b])'
  <2>1. Hangs(r) /\ Alone(r) /\ cookie' = cookie /\ at' = at /\ at[r] # "idle"
    BY <1>6, HangupMoves DEF Hangs, Hangup, Busy
  <2>2. ASSUME NEW q \in Requests, at[q] = "idle"
        PROVE  TokenOut(req[q].sent)' /\ Replaced(q)'
    <3>1. at'[q] = "idle" /\ req'[q] = req[q]
      BY <2>1, <2>2 DEF Alone
    <3> QED BY <1>0, <2>2, <3>1 DEF TokenOut, Replaced, Lasts
  <2> QED BY <1>1, <1>2, <2>1, <2>2, SentToken
<1>7. CASE WindowEnds \/ LockoutEnds \/ UNCHANGED vars
  BY <1>7 DEF WindowEnds, LockoutEnds, vars, browser, TokenOut, Replaced, Kind
<1> QED BY <1>3, <1>4, <1>5, <1>6, <1>7, StepCases

(* Two refreshes of one tab with one token, both still heard: one of them  *)
(* is over, and did not succeed.                                           *)
Failed(q) == at[q] = "done" /\ req[q].answer # "ok"

Apart(q, r) ==
    /\ Kind(q) = "refresh" /\ Kind(r) = "refresh" /\ req[q].tab = req[r].tab
    /\ req[q].sent = req[r].sent /\ req[q].heard /\ req[r].heard
    => Failed(q) \/ Failed(r)

Caused(r) ==
    req[r].answer = "reuse" =>
        \E q \in Requests \ {r} :
            /\ Kind(q) = "refresh" /\ req[q].sent = req[r].sent
            /\ \/ req[q].tab # req[r].tab \/ ~req[q].heard \/ ~req[r].heard
               \/ FailedLate(q)

ReuseInv ==
    /\ CookieInv
    /\ \A r \in Requests : Caused(r)
    /\ \A q, r \in Requests : q # r => Apart(q, r)

LEMMA ApartStep ==
    ASSUME ReuseInv, [Next]_vars, NEW q \in Requests, NEW r \in Requests, q # r
    PROVE  Apart(q, r)'
<1> USE DEF ReuseInv, CookieInv, HeirInv, SessionInv, StageInv, TypeInv
<1>0. \A p \in Requests : Stage(p) /\ Lasts(p)
  BY EveryRequestLasts
<1>1. CASE at[q] # "idle" /\ at[r] # "idle"
  <2>1. Apart(q, r) /\ Lasts(q) /\ Lasts(r)
    BY <1>0
  <2>2. \A p \in {q, r} : Failed(p) => Failed(p)'
    BY <1>0, AccountsAssumption DEF Failed, Lasts, Stage, Working
  <2> QED BY <1>1, <2>1, <2>2 DEF Apart, Lasts
(* The second of them is sent. *)
<1>2. ASSUME NEW p \in Requests, NEW s \in Requests, p # s, at[s] = "idle", Apart(p, s)
      PROVE  Apart(p, s)'
  <2>1. CASE at'[s] = "idle"
    <3>1. Stage(s)'
      BY StageStep
    <3> QED BY <2>1, <3>1, AccountsAssumption DEF Apart, Stage, AllKinds
  <2>2. CASE at'[s] # "idle"
    <3>1. Sends(s) /\ Alone(s)
      BY <1>2, <2>2, StepCases, HandlerMoves, SendMoves, AnswerMoves, HangupMoves
      DEF Alone, Works, Arrives, Hangs, Working, WindowEnds, LockoutEnds, vars
    <3>2. at'[p] = at[p] /\ req'[p] = req[p] /\ Kind(p)' = Kind(p)
      BY <1>2, <3>1 DEF Alone, Kind
    <3> SUFFICES ASSUME Kind(p) = "refresh", Kind(s)' = "refresh", req[p].tab = req'[s].tab,
                        req[p].sent = req'[s].sent, req[p].heard
                 PROVE  Failed(p)'
      BY <3>2 DEF Apart
    <3>3. at[p] = "done"
      <4>1. ~Waits(req[p].tab, "refresh")
        BY <3>1 DEF Sends, Kind
      <4>2. at[p] # "idle"
        BY <1>0, AccountsAssumption DEF Stage, AllKinds
      <4> QED BY <4>1, <4>2 DEF Waits, Busy
    <3>4. req[p].answer # "ok"
      BY <3>1, <3>3 DEF Sends, Replaced, Kind
    <3> QED BY <3>2, <3>3, <3>4 DEF Failed
  <2> QED BY <2>1, <2>2
<1>3. Apart(q, r) /\ Apart(r, q)
  OBVIOUS
<1>4. Apart(r, q)' => Apart(q, r)'
  BY DEF Apart
<1> QED BY <1>1, <1>2, <1>3, <1>4

(* What was answered stays so when it arrives, is lost or is not awaited.  *)
LEMMA ArrivalsKeepAnswers ==
    ASSUME TypeOK, NEW p \in Requests, NEW r \in Requests,
           Answer(p) \/ AnswerUnheard(p) \/ Hangup(p)
    PROVE  req'[r].answer = req[r].answer
<1>1. req[p] \in Request
  BY ReqTyped
<1>2. CASE Answer(p) \/ AnswerUnheard(p)
  <2>1. Arrives(p) /\ Alone(p)
    BY <1>2, AnswerMoves
  <2> QED BY <2>1 DEF Arrives, Alone
<1>3. CASE Hangup(p)
  <2>1. Hangs(p) /\ Alone(p)
    BY <1>3, HangupMoves
  <2> QED BY <1>1, <2>1 DEF Hangs, Alone, Request
<1> QED BY <1>2, <1>3

LEMMA CausedStep ==
    ASSUME ReuseInv, [Next]_vars, NEW r \in Requests
    PROVE  Caused(r)'
<1> USE DEF ReuseInv, CookieInv, HeirInv, SessionInv, StageInv, TypeInv
<1>0. \A p \in Requests : Stage(p) /\ Lasts(p)
  BY EveryRequestLasts
<1>1. CASE req[r].answer = "reuse"
  <2>1. at[r] # "idle"
    BY <1>0, <1>1, AccountsAssumption DEF Stage, Answers
  <2>2. PICK q \in Requests \ {r} :
            /\ Kind(q) = "refresh" /\ req[q].sent = req[r].sent
            /\ \/ req[q].tab # req[r].tab \/ ~req[q].heard \/ ~req[r].heard
               \/ FailedLate(q)
    BY <1>1 DEF Caused
  <2>3. at[q] # "idle"
    BY <1>0, <2>2, AccountsAssumption DEF Stage, AllKinds
  <2>4. FailedLate(q) => FailedLate(q)'
    BY <1>0, SessionsLast, AccountsAssumption DEF FailedLate, Lasts, Sessions
  <2> QED BY <1>0, <2>1, <2>2, <2>3, <2>4 DEF Caused, Lasts
<1>2. CASE req[r].answer # "reuse" /\ req'[r].answer = "reuse"
  <2>1. at[r] = "revokeAll" /\ Kind(r) = "refresh" /\ Works(r)
    <3>1. HandlerStep(r)
      <4>1. ASSUME NEW p \in Requests, RequestStep(p) PROVE req'[r].answer \in {req[r].answer, None}
        BY <4>1, SendMoves DEF Alone, Sends
      <4>2. ASSUME NEW p \in Requests, Answer(p) \/ AnswerUnheard(p) \/ Hangup(p)
            PROVE  req'[r].answer = req[r].answer
        BY <4>2, ArrivalsKeepAnswers
      <4>3. ASSUME NEW p \in Requests, p # r, HandlerStep(p) PROVE req'[r].answer = req[r].answer
        BY <4>3, HandlerMoves DEF Alone
      <4>4. WindowEnds \/ LockoutEnds \/ UNCHANGED vars => req' = req
        BY DEF WindowEnds, LockoutEnds, vars
      <4> QED BY <1>2, <4>1, <4>2, <4>3, <4>4, StepCases, AccountsAssumption DEF Answers
    <3>2. Works(r)
      BY <3>1, HandlerMoves
    <3> QED
      BY <1>0, <1>2, <3>1, <3>2, SessionCases, ReqTyped
      DEF FindSession, IssueSession, RevokeOld, RevokeLoggedOut, RevokeAllForUser, Elsewhere,
          Reply, Goto, Request, Stage, Kind
  <2> DEFINE s == req[r].sent
  <2>2. s \in Sessions /\ heir[s] # None
    BY <2>1, ReqTyped DEF Known, Detects, Request
  <2>3. PICK q \in Requests :
            Kind(q) = "refresh" /\ req[q].sent = s /\ session[q] # "none"
    BY <2>2 DEF Succeeds
  <2>4. q # r
    BY <2>1, <2>3 DEF Known
  <2>5. \/ req[q].tab # req[r].tab \/ ~req[q].heard \/ ~req[r].heard
        \/ FailedLate(q)
    <3>1. ~Failed(r)
      BY <2>1 DEF Failed
    <3>2. Failed(q) => FailedLate(q)
      BY <1>0, <2>3 DEF Failed, FailedLate, Stage, Working
    <3> QED BY <2>1, <2>3, <2>4, <3>1, <3>2 DEF Apart
  <2>6. at[q] # "idle" /\ at[r] # "idle"
    BY <1>0, <2>1, <2>3, AccountsAssumption DEF Stage, AllKinds
  <2>7. FailedLate(q) => FailedLate(q)'
    BY <1>0, <2>3, SessionsLast, AccountsAssumption DEF FailedLate, Lasts, Sessions
  <2> HIDE DEF s
  <2> QED BY <1>0, <2>3, <2>4, <2>5, <2>6, <2>7 DEF Caused, Lasts, s
<1> QED BY <1>1, <1>2 DEF Caused

(* Whoever is thrown out for reusing a token has a second tab, lost an     *)
(* answer, or got an error from a refresh that had issued the next token,  *)
(* as far as this system and its own clients are concerned.                *)
THEOREM ReuseIsExplained == Spec => []ReuseHasCause
<1>1. Init => ReuseInv
  <2> SUFFICES ASSUME Init PROVE ReuseInv
    OBVIOUS
  <2>1. \A r \in Requests : at[r] = "idle" /\ req[r] = Idle
    BY DEF Init
  <2>2. \A b \in Browsers : cookie[b] \notin Requests
    BY AccountsAssumption DEF Init, Sessions
  <2>3. \A s \in Sessions : heir[s] = None
    BY DEF Init
  <2> QED
    BY <2>1, <2>2, <2>3, SessionsInit, AccountsAssumption
    DEF ReuseInv, CookieInv, HeirInv, Caused, Apart, TokenOut, Replaced, Succeeds, Detects,
        Kind, Idle, AllKinds, Answers, Sessions
<1>2. ReuseInv /\ [Next]_vars => ReuseInv'
  BY CookieStep, ApartStep, CausedStep DEF ReuseInv
<1>3. ReuseInv => ReuseHasCause
  BY DEF ReuseInv, Caused, ReuseHasCause
<1> QED BY <1>1, <1>2, <1>3, PTL DEF Spec

-----------------------------------------------------------------------------
(* The counter of failed logins *)

(* A login that is at one of the places, or was cut short. *)
LoginAt(places) ==
    \E r \in Requests : Kind(r) = "login" /\ (at[r] \in places \/ req[r].answer = "error")

CounterInv ==
    /\ StageInv
    /\ attempts > 0 /\ ~window => LoginAt({"expire"})
    /\ attempts >= MaxFailures => LoginAt({"lock", "restart"})

(* Only the login itself leaves its place. *)
LEMMA LoginStays ==
    ASSUME StageInv, [Next]_vars, NEW q \in Requests, NEW places \in SUBSET Working,
           Kind(q) = "login", at[q] \in places \/ req[q].answer = "error",
           at'[q] = at[q] \/ at'[q] \in places \/ req'[q].answer = "error"
                \/ req[q].answer = "error"
    PROVE  LoginAt(places)'
<1>1. Lasts(q) /\ Stage(q)
  BY EveryRequestLasts DEF StageInv
<1>2. at[q] # "idle"
  BY <1>1, AccountsAssumption DEF Stage, Answers, AllKinds
<1>3. Kind(q)' = "login" /\ (req[q].answer = "error" => req'[q].answer = "error")
  BY <1>1, <1>2, AccountsAssumption DEF Lasts, Answers
<1> QED BY <1>3 DEF LoginAt

LEMMA CounterStays ==
    ASSUME CounterInv, [Next]_vars, UNCHANGED <<attempts, window>>,
           \A q \in Requests : Kind(q) = "login" /\ at[q] \in {"expire", "lock", "restart"} =>
               \/ at'[q] = at[q] \/ req'[q].answer = "error"
               \/ at[q] = "lock" /\ at'[q] = "restart"
    PROVE  CounterInv'
<1> USE DEF CounterInv
<1>1. LoginAt({"expire"}) => LoginAt({"expire"})'
  BY LoginStays DEF LoginAt, Working
<1>2. LoginAt({"lock", "restart"}) => LoginAt({"lock", "restart"})'
  BY LoginStays DEF LoginAt, Working
<1> QED BY <1>1, <1>2, StageStep

LEMMA CounterStep == CounterInv /\ [Next]_vars => CounterInv'
<1> SUFFICES ASSUME CounterInv, [Next]_vars PROVE CounterInv'
  OBVIOUS
<1> USE DEF CounterInv, StageInv, TypeInv
<1>0. /\ attempts \in Nat /\ MaxFailures \in Nat /\ MaxFailures > 1
      /\ \A q \in Requests : Stage(q)
  BY AccountsAssumption DEF TypeOK
<1>1. ASSUME NEW r \in Requests, HandlerStep(r) PROVE CounterInv'
  <2>0. Works(r) /\ Alone(r)
    BY <1>1, HandlerMoves
  <2>1. CASE CountFailure(r)
    <3>1. at[r] = "incr" /\ attempts' = attempts + 1 /\ window' = window /\ req[r].answer = None
      BY <1>0, <2>1 DEF CountFailure, Stage, Working
    <3>2. Kind(r) = "login" /\ Kind(r)' = "login"
      BY <1>0, <2>0, <3>1 DEF Stage, Works, Kind
    <3>3. attempts = 0 => at'[r] = "expire"
      BY <2>1, ReqTyped DEF CountFailure, Goto
    <3>4. attempts + 1 >= MaxFailures => at'[r] = "lock"
      BY <1>0, <2>1, ReqTyped DEF CountFailure, Goto
    <3>5. LoginAt({"expire"}) => LoginAt({"expire"})'
      <4> SUFFICES ASSUME NEW q \in Requests, Kind(q) = "login",
                          at[q] = "expire" \/ req[q].answer = "error"
                   PROVE  LoginAt({"expire"})'
        BY DEF LoginAt
      <4>1. q # r
        BY <3>1, AccountsAssumption DEF Answers
      <4> QED BY <2>0, <4>1 DEF Alone, LoginAt, Kind
    <3> QED BY <1>0, <3>1, <3>2, <3>3, <3>4, <3>5, StageStep DEF LoginAt
  <2>2. CASE StartWindow(r)
    <3>1. at[r] = "expire" /\ at'[r] = "answer" /\ attempts' = attempts
      BY <2>2, ReqTyped DEF StartWindow, Reply, Goto
    <3>2. attempts > 0 => window'
      BY <2>2 DEF StartWindow
    <3>3. LoginAt({"lock", "restart"}) => LoginAt({"lock", "restart"})'
      <4> SUFFICES ASSUME NEW q \in Requests, Kind(q) = "login",
                          at[q] \in {"lock", "restart"} \/ req[q].answer = "error"
                   PROVE  LoginAt({"lock", "restart"})'
        BY DEF LoginAt
      <4>1. q # r
        BY <1>0, <3>1, AccountsAssumption DEF Stage, Working, Answers
      <4> QED BY <2>0, <4>1 DEF Alone, LoginAt, Kind
    <3> QED BY <3>1, <3>2, <3>3, StageStep
  <2>3. CASE RestartCounter(r) \/ RecordSuccess(r)
    <3>1. attempts' = 0
      BY <2>3 DEF RestartCounter, RecordSuccess, DropCounter
    <3> QED BY <1>0, <3>1, StageStep
  <2>4. CASE Lock(r)
    <3>1. attempts' = attempts /\ window' = window /\ at'[r] = "restart" /\ at[r] = "lock"
      BY <2>4, ReqTyped DEF Lock, Goto
    <3> QED BY <2>0, <3>1, CounterStays DEF Alone
  <2>5. CASE HandlerFails(r)
    <3>1. attempts' = attempts /\ window' = window /\ req'[r].answer = "error"
      BY <2>5, ReqTyped DEF HandlerFails, Reply, Request, redis
    <3> QED BY <2>0, <3>1, CounterStays DEF Alone
  <2>6. CASE SessionStep(r) \/ LinkStep(r) \/ GetLockoutStatus(r) \/ CheckPassword(r)
    <3>1. UNCHANGED redis
      BY <2>6
      DEF SessionStep, FindSession, Refuse, IssueSession, RevokeOld, LoadUser,
          RevokeLoggedOut, RevokeAllForUser, LinkStep, FindUser, CreateUser, DropLinks, CreateLink, FindLink,
          UpdatePassword, UseLink, MarkEmailVerified, FindPending, CreateInvitation,
          FindInvitation, RevokeInvitation, GetLockoutStatus, CheckPassword
    <3>2. at[r] \notin {"expire", "lock", "restart"}
      BY <2>6
      DEF SessionStep, FindSession, Refuse, IssueSession, RevokeOld, LoadUser,
          RevokeLoggedOut, RevokeAllForUser, LinkStep, FindUser, CreateUser, DropLinks, CreateLink, FindLink,
          UpdatePassword, UseLink, MarkEmailVerified, FindPending, CreateInvitation,
          FindInvitation, RevokeInvitation, GetLockoutStatus, CheckPassword
    <3>3. attempts' = attempts /\ window' = window
      BY <3>1 DEF redis
    <3> QED BY <2>0, <3>2, <3>3, CounterStays DEF Alone
  <2> QED BY <1>1, <2>1, <2>2, <2>3, <2>4, <2>5, <2>6 DEF HandlerStep, LoginStep
<1>2. ASSUME NEW r \in Requests, RequestStep(r) \/ Answer(r) \/ AnswerUnheard(r) \/ Hangup(r)
      PROVE  CounterInv'
  <2>1. Alone(r) /\ (Sends(r) \/ Arrives(r) \/ Hangs(r))
    BY <1>2, SendMoves, AnswerMoves, HangupMoves
  <2>2. attempts' = attempts /\ window' = window
    BY <2>1 DEF Sends, Arrives, Hangs, redis
  <2>3. at[r] \in {"expire", "lock", "restart"} => at'[r] = at[r]
    BY <2>1 DEF Sends, Arrives, Hangs
  <2> QED BY <2>1, <2>2, <2>3, CounterStays DEF Alone
<1>3. CASE WindowEnds
  BY <1>0, <1>3, StageStep DEF WindowEnds, DropCounter
<1>4. CASE LockoutEnds \/ UNCHANGED vars
  <2>1. attempts' = attempts /\ window' = window /\ at' = at
    BY <1>4 DEF LockoutEnds, vars, redis
  <2> QED BY <2>1, CounterStays
<1> QED BY <1>1, <1>2, <1>3, <1>4, StepCases

LEMMA CounterInit == Init => CounterInv
<1> SUFFICES ASSUME Init PROVE CounterInv
  OBVIOUS
<1>1. StageInv
  BY StageInit
<1>2. attempts = 0
  BY DEF Init
<1>3. ~ (attempts > 0) /\ ~ (attempts >= MaxFailures)
  BY <1>2, AccountsAssumption
<1> QED BY <1>1, <1>3 DEF CounterInv

(* Failed logins are forgotten after a while, and as many of them as are   *)
(* allowed lock the account, whatever logins run at once, unless a handler *)
(* was cut short.                                                          *)
THEOREM LockoutHolds == Spec => []LockoutWorks
<1>1. CounterInv => CounterHasWindow
  BY DEF CounterInv, CounterHasWindow, LoginAt
<1>2. CounterInv => FullCounterLocks
  BY DEF CounterInv, FullCounterLocks, LoginAt
<1>3. CounterInv => LockoutWorks
  BY <1>1, <1>2 DEF LockoutWorks
<1> QED BY <1>3, CounterInit, CounterStep, PTL DEF Spec
-----------------------------------------------------------------------------
(* Invitations *)

(* A link is mailed by the last statement of its request, and whoever      *)
(* names a link names one that was mailed.                                 *)
Mailed(r) ==
    /\ mark[r] # {} => at[r] \in {"answer", "done"}
    /\ Kind(r) \in {"verify", "reset", "accept", "withdraw"} =>
           req[r].link \in Links /\ mark[req[r].link] # {}

MailInv == StageInv /\ \A r \in Requests : Mailed(r)

(* What a step does to the marks of the links: r is the request whose link *)
(* appears, and no link becomes pending again.                             *)
Aged == \A l \in Links : mark[l] # {} => mark'[l] # {} /\ (Fresh(l)' => Fresh(l))

Appears(r) ==
    /\ at[r] \in {"newLink", "newInvite"} /\ at'[r] = "answer"
    /\ at[r] = "newInvite" => Pending("accept") = {}

MarksMove ==
    \/ UNCHANGED mark
    \/ Aged /\ \A l \in Links : mark[l] = {} => mark'[l] = {}
    \/ Aged /\ \E r \in Requests :
                   Appears(r) /\ \A l \in Links \ {r} : mark[l] = {} => mark'[l] = {}

LEMMA LinkStepMarks ==
    ASSUME MailInv, NEW r \in Requests, LinkStep(r)
    PROVE  MarksMove
<1> USE DEF MailInv, StageInv, TypeInv
<1>0. mark \in [Links -> SUBSET Marks] /\ r \in Links /\ at \in [Requests -> {"idle", "answer", "done"} \cup Working]
  BY ReqTyped DEF TypeOK, Links
<1>1. CASE \/ FindUser(r) \/ CreateUser(r) \/ FindLink(r) \/ UpdatePassword(r)
           \/ MarkEmailVerified(r) \/ FindPending(r) \/ FindInvitation(r)
  BY <1>1
  DEF FindUser, CreateUser, FindLink, UpdatePassword, MarkEmailVerified, FindPending,
      FindInvitation, MarksMove, rows
<1>2. CASE DropLinks(r)
  <2>1. \A l \in Links : mark'[l] = mark[l] \/ (Fresh(l) /\ mark'[l] = mark[l] \cup {"deleted"})
    BY <1>0, <1>2 DEF DropLinks, Pending
  <2> QED BY <2>1 DEF MarksMove, Aged, Fresh
<1>3. ASSUME CreateLink(r) \/ CreateInvitation(r), mark' # mark PROVE MarksMove
  <2>1. mark' = [mark EXCEPT ![r] = {"mailed"}] /\ Appears(r)
    BY <1>0, <1>3 DEF CreateLink, CreateInvitation, Appears, Reply, Goto
  <2>2. mark[r] = {}
    BY <2>1 DEF Mailed, Appears
  <2>3. \A l \in Links \ {r} : mark'[l] = mark[l]
    BY <1>0, <2>1
  <2>4. Aged
    BY <2>2, <2>3 DEF Aged, Fresh
  <2> QED BY <2>1, <2>3, <2>4 DEF MarksMove
<1>4. ASSUME UseLink(r) \/ RevokeInvitation(r), mark' # mark PROVE MarksMove
  <2>1. PICK m \in {"used", "withdrawn"} :
           mark' = [mark EXCEPT ![req[r].link] = @ \cup {m}]
    BY <1>4 DEF UseLink, RevokeInvitation
  <2>2. Kind(r) \in {"verify", "reset", "accept", "withdraw"}
    BY <1>4 DEF UseLink, RevokeInvitation, Stage
  <2>3. mark[req[r].link] # {}
    BY <2>2 DEF Mailed
  <2>4. \A l \in Links : mark'[l] = mark[l] \/ (mark[l] # {} /\ mark'[l] = mark[l] \cup {m})
    BY <1>0, <2>1, <2>3
  <2> QED BY <2>1, <2>4 DEF MarksMove, Aged, Fresh
<1>5. UNCHANGED mark => MarksMove
  BY DEF MarksMove
<1> QED BY <1>1, <1>2, <1>3, <1>4, <1>5 DEF LinkStep

LEMMA MarksStep == MailInv /\ [Next]_vars => MarksMove
<1> SUFFICES ASSUME MailInv, [Next]_vars PROVE MarksMove
  OBVIOUS
<1> USE DEF MailInv, StageInv, TypeInv
<1>1. ASSUME NEW r \in Requests, SessionStep(r) \/ LoginStep(r) \/ HandlerFails(r)
      PROVE  UNCHANGED mark
  BY <1>1
  DEF SessionStep, FindSession, Refuse, IssueSession, RevokeOld, LoadUser, RevokeLoggedOut,
      RevokeAllForUser, LoginStep, GetLockoutStatus, CheckPassword, CountFailure,
      StartWindow, Lock, RestartCounter, RecordSuccess, HandlerFails, rows
<1>2. ASSUME NEW r \in Requests,
             RequestStep(r) \/ Answer(r) \/ AnswerUnheard(r) \/ Hangup(r)
      PROVE  UNCHANGED mark
  BY <1>2, SendMoves, AnswerMoves, HangupMoves DEF Sends, Arrives, Hangs, rows
<1>3. CASE WindowEnds \/ LockoutEnds \/ UNCHANGED vars
  BY <1>3 DEF WindowEnds, LockoutEnds, vars, rows, MarksMove
<1>4. UNCHANGED mark => MarksMove
  BY DEF MarksMove
<1> QED BY <1>1, <1>2, <1>3, <1>4, LinkStepMarks, StepCases DEF HandlerStep

LEMMA MailStep == MailInv /\ [Next]_vars => MailInv' /\ MarksMove
<1> SUFFICES ASSUME MailInv, [Next]_vars PROVE \A r \in Requests : Mailed(r)'
  BY MarksStep, StageStep DEF MailInv
<1> USE DEF MailInv, StageInv, TypeInv
<1>0. MarksMove /\ \A l \in Links : mark[l] # {} => mark'[l] # {}
  BY MarksStep DEF MarksMove, Aged
<1>1. ASSUME NEW q \in Requests, at'[q] = at[q], req'[q].kind = req[q].kind,
             req'[q].link = req[q].link
      PROVE  Mailed(q)'
  <2>1. mark[q] = {} => mark'[q] = {} \/ at'[q] \in {"answer", "done"}
    BY <1>0, <1>1 DEF MarksMove, Appears, Links
  <2> QED BY <1>0, <1>1, <2>1 DEF Mailed, Kind
<1>2. ASSUME NEW r \in Requests, HandlerStep(r) PROVE \A q \in Requests : Mailed(q)'
  <2>1. Works(r) /\ Alone(r)
    BY <1>2, HandlerMoves
  <2>2. at[r] \in Working /\ req'[r].kind = req[r].kind /\ req'[r].link = req[r].link
    BY <2>1 DEF Works
  <2>3. mark[r] = {}
    BY <2>2 DEF Mailed, Working
  <2>4. mark'[r] # {} => at'[r] \in {"answer", "done"}
    BY <1>0, <2>3 DEF MarksMove, Appears, Links
  <2>5. Mailed(r)'
    BY <1>0, <2>2, <2>4 DEF Mailed, Kind
  <2> QED BY <1>1, <2>1, <2>5 DEF Alone
<1>3. ASSUME NEW r \in Requests, RequestStep(r) PROVE \A q \in Requests : Mailed(q)'
  <2>1. Sends(r) /\ Alone(r)
    BY <1>3, SendMoves
  <2>2. UNCHANGED mark /\ mark[r] = {}
    BY <2>1 DEF Sends, rows, Mailed
  <2>3. req'[r].kind \in {"verify", "reset", "accept", "withdraw"} =>
            req'[r].link \in Links /\ mark[req'[r].link] # {}
    <3>0. ASSUME NEW q, NEW where, Send(r, q, where) PROVE req'[r] = q
      BY <3>0, ReqTyped DEF Send
    <3>1. ASSUME NEW k \in AllKinds \ {"verify", "reset", "accept", "withdraw"}, NEW t, NEW s
          PROVE  /\ Asks(k, t).kind = k
                 /\ [Asks(k, t) EXCEPT !.sent = s].kind = k
      BY DEF Asks, Idle
    <3>2. ASSUME NEW k, NEW t, NEW l
          PROVE  LET q == [Asks(k, t) EXCEPT !.link = l] IN q.link = l
      BY DEF Asks, Idle
    <3>3. ASSUME NEW t \in Tabs,
                 \/ SendRefresh(r, t) \/ SendLogout(r, t) \/ SendLogin(r, t)
                 \/ \E k \in AllKinds : SendEmail(r, t, k)
          PROVE  req'[r].kind \notin {"verify", "reset", "accept", "withdraw"}
      <4>1. ASSUME NEW k \in {"refresh", "logout"}, NEW s, NEW where,
                   Send(r, [Asks(k, t) EXCEPT !.sent = s], where)
            PROVE  req'[r].kind = k
        <5>1. req'[r] = [Asks(k, t) EXCEPT !.sent = s]
          BY <3>0, <4>1
        <5> QED BY <5>1 DEF Asks, Idle
      <4>2. CASE SendLogin(r, t)
        BY <3>0, <3>1, <4>2 DEF SendLogin, AllKinds
      <4>3. ASSUME NEW k \in AllKinds, SendEmail(r, t, k)
            PROVE  req'[r].kind \notin {"verify", "reset", "accept", "withdraw"}
        BY <3>0, <3>1, <4>3 DEF SendEmail, AllKinds
      <4>4. CASE SendRefresh(r, t) \/ SendLogout(r, t)
        BY <4>1, <4>4 DEF SendRefresh, SendLogout
      <4> QED BY <3>3, <4>2, <4>3, <4>4
    <3>4. CASE SendInvite(r)
      BY <3>1, <3>4, ReqTyped DEF SendInvite, Send, AllKinds
    <3>5. ASSUME NEW l \in Links, SendWithdraw(r, l) \/ \E t \in Tabs : OpenLink(r, t, l)
          PROVE  req'[r].link = l /\ mark[l] # {}
      <4>1. ASSUME NEW k, NEW t, NEW where, Send(r, [Asks(k, t) EXCEPT !.link = l], where)
            PROVE  req'[r].link = l
        <5>1. req'[r] = [Asks(k, t) EXCEPT !.link = l]
          BY <3>0, <4>1
        <5> QED BY <3>2, <5>1
      <4> QED BY <3>5, <4>1 DEF SendWithdraw, OpenLink
    <3> QED BY <1>3, <3>3, <3>4, <3>5 DEF RequestStep
  <2>4. Mailed(r)'
    BY <2>2, <2>3 DEF Mailed, Kind
  <2> QED BY <1>1, <2>1, <2>4 DEF Alone
<1>4. ASSUME NEW r \in Requests, Answer(r) \/ AnswerUnheard(r)
      PROVE  \A q \in Requests : Mailed(q)'
  <2>1. Arrives(r) /\ Alone(r)
    BY <1>4, AnswerMoves
  <2>2. Mailed(r)'
    BY <1>0, <2>1 DEF Arrives, Mailed, Kind
  <2> QED BY <1>1, <2>1, <2>2 DEF Alone
<1>5. ASSUME NEW r \in Requests, Hangup(r) PROVE \A q \in Requests : Mailed(q)'
  <2>1. Hangs(r) /\ Alone(r) /\ req[r] \in Request
    BY <1>5, HangupMoves, ReqTyped
  <2>2. req'[r].kind = req[r].kind /\ req'[r].link = req[r].link /\ at'[r] = at[r]
    BY <2>1 DEF Hangs, Request
  <2> QED BY <1>1, <2>1, <2>2 DEF Alone
<1>6. CASE WindowEnds \/ LockoutEnds \/ UNCHANGED vars
  BY <1>1, <1>6 DEF WindowEnds, LockoutEnds, vars
<1> QED BY <1>2, <1>3, <1>4, <1>5, <1>6, StepCases

(* A request that was sent remains what it is. *)
LEMMA KindStays ==
    ASSUME TypeInv, [Next]_vars, NEW l \in Requests, at[l] # "idle"
    PROVE  Kind(l)' = Kind(l)
<1> USE DEF TypeInv
<1>1. ASSUME NEW r \in Requests, Alone(r),
             Works(r) \/ Sends(r) \/ Arrives(r) \/ Hangs(r), req[r] \in Request
      PROVE  req'[l].kind = req[l].kind
  <2>1. l # r => req'[l] = req[l]
    BY <1>1 DEF Alone
  <2>2. l = r => req'[l].kind = req[l].kind
    BY <1>1 DEF Works, Sends, Arrives, Hangs, Request
  <2> QED BY <2>1, <2>2
<1>2. CASE WindowEnds \/ LockoutEnds \/ UNCHANGED vars
  BY <1>2 DEF WindowEnds, LockoutEnds, vars, Kind
<1> QED
  BY <1>1, <1>2, StepCases, ReqTyped, SendMoves, HandlerMoves, AnswerMoves, HangupMoves
  DEF Kind

(* The purpose of a mailed link does not change any more. *)
LEMMA PurposeStays ==
    ASSUME MailInv, [Next]_vars, NEW l \in Links, mark[l] # {} \/ l \notin Requests
    PROVE  Purpose(l)' = Purpose(l)
<1>1. CASE l \notin Requests
  BY <1>1 DEF Purpose
<1>2. CASE l \in Requests
  <2>1. at[l] # "idle"
    BY <1>2 DEF MailInv, Mailed
  <2>2. Kind(l)' = Kind(l)
    BY <1>2, <2>1, KindStays DEF MailInv, StageInv
  <2> QED BY <1>2, <2>2 DEF Purpose
<1> QED BY <1>1, <1>2

InviteInv == MailInv /\ OnePendingInvitation

LEMMA InviteStep == InviteInv /\ [Next]_vars => InviteInv'
<1> SUFFICES ASSUME InviteInv, [Next]_vars PROVE OnePendingInvitation'
  BY MailStep DEF InviteInv
<1> USE DEF InviteInv
<1>1. MailInv' /\ MarksMove
  BY MailStep
<1>2. ASSUME NEW l \in Links, (Fresh(l) /\ Purpose(l) = "accept")', mark[l] # {}
      PROVE  l \in Pending("accept")
  <2>1. Fresh(l)
    BY <1>1, <1>2 DEF MarksMove, Aged, Fresh
  <2>2. Purpose(l) = "accept"
    BY <1>2, PurposeStays
  <2> QED BY <2>1, <2>2 DEF Pending
<1>3. ASSUME NEW l \in Links, (Fresh(l) /\ Purpose(l) = "accept")', mark[l] = {}
      PROVE  /\ Pending("accept") = {}
             /\ \A m \in Links : mark[m] = {} /\ mark'[m] # {} => m = l
  <2>1. mark'[l] # {}
    BY <1>3 DEF Fresh
  <2>2. l \in Requests /\ Appears(l) /\ \A m \in Links \ {l} : mark[m] = {} => mark'[m] = {}
    BY <1>1, <1>3, <2>1 DEF MarksMove
  <2>3. Kind(l)' = Kind(l)
    BY <2>2, KindStays DEF Appears, InviteInv, MailInv, StageInv
  <2>4. Kind(l) \in {"register", "resend", "forgot", "invite"}
    BY <2>2 DEF Appears, MailInv, StageInv, Stage
  <2>5. Kind(l) = "invite"
    BY <1>3, <2>2, <2>3, <2>4 DEF Purpose
  <2>6. at[l] = "newInvite"
    BY <2>2, <2>5 DEF Appears, MailInv, StageInv, Stage
  <2> QED BY <2>2, <2>6 DEF Appears
<1> QED BY <1>2, <1>3 DEF OnePendingInvitation, Pending, Fresh

LEMMA InviteInit == Init => InviteInv
<1> SUFFICES ASSUME Init PROVE InviteInv
  OBVIOUS
<1>1. \A r \in Requests : Mailed(r)
  BY AccountsAssumption DEF Init, Mailed, Kind, Idle, Links, AllKinds
<1>2. \A l \in Pending("accept") : l \in DOMAIN FirstLinks /\ FirstLinks[l] = "accept"
  BY DEF Init, Pending, Fresh, Purpose, Links
<1> QED BY <1>1, <1>2, StageInit, AccountsAssumption DEF InviteInv, MailInv, OnePendingInvitation

(* Whoever looks for a pending invitation while another one is on its way  *)
(* finds none and inserts a second: the partial unique index refuses it,   *)
(* and the person never has two invitations that could be accepted.        *)
THEOREM InvitationIsUnique == Spec => []OnePendingInvitation
<1>1. InviteInv => OnePendingInvitation
  BY DEF InviteInv
<1> QED BY <1>1, InviteInit, InviteStep, PTL DEF Spec
=============================================================================
