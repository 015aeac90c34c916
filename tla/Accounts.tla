------------------------------- MODULE Accounts -------------------------------
(***************************************************************************)
(* One person's account and sessions: AuthService, SessionService,         *)
(* LoginAttemptService and TenantInvitationService behind AuthController,  *)
(* and the person's browsers in front of it, where the tabs of one browser *)
(* share the refresh cookie and each tab keeps its access token in memory. *)
(*                                                                         *)
(* A request is made once and runs statement by statement between the      *)
(* statements of the others.  What it creates is named after it: request r *)
(* opens session r and mails link r.                                       *)
(***************************************************************************)
EXTENDS Naturals

CONSTANTS
    Requests,     \* the HTTP requests to /auth and /tenant/invitations
    Kinds,        \* Kinds[r]: what request r may be
    Tabs,         \* the tabs the person has open
    BrowserOf,    \* the browser a tab belongs to
    Opened,       \* the sessions that are open at the start
    Expired,      \* those of them whose refresh token is past its time
    FirstLinks,   \* links mailed before the start: [link -> purpose]
    MaxFailures,  \* loginSecurity.maxAttempts
    Faults,       \* "lost": answers that never arrive, "crash": cut handlers
    None

AllKinds ==
    {"refresh", "logout", "login", "register", "resend", "verify",
     "forgot", "reset", "invite", "withdraw", "accept"}

Purposes == {"verify", "reset", "accept"}
Browsers == {BrowserOf[t] : t \in Tabs}
Sessions == Opened \cup Requests
Links == DOMAIN FirstLinks \cup Requests
Answers == {"ok", "refused", "reuse", "error"}
Marks == {"mailed", "used", "withdrawn", "deleted"}

ASSUME AccountsAssumption ==
    /\ Kinds \in [Requests -> SUBSET AllKinds]
    /\ Expired \subseteq Opened
    /\ FirstLinks \in [DOMAIN FirstLinks -> Purposes]
    /\ \A l, m \in DOMAIN FirstLinks :
           FirstLinks[l] = "accept" /\ FirstLinks[m] = "accept" => l = m
    /\ MaxFailures \in Nat /\ MaxFailures > 1
    /\ Faults \subseteq {"lost", "crash"}
    /\ None \notin Sessions \cup Links \cup Tabs \cup AllKinds
    /\ None \notin Answers
    /\ Opened \cap Requests = {}
    /\ DOMAIN FirstLinks \cap Requests = {}

VARIABLES
    session,   \* session[s]: "none", "live" or "revoked" (RefreshToken.revokedAt)
    heir,      \* heir[s]: RefreshToken.replacedBySessionId
    exists,    \* the person's User row exists
    verified,  \* User.isEmailVerified
    mark,      \* mark[l]: what has happened to the row behind a link
    attempts,  \* the counter of failed logins in Redis
    window,    \* that counter has a TTL
    locked,    \* the lockout key exists
    cookie,    \* cookie[b]: the refresh token browser b holds
    access,    \* the tabs that hold an access token
    at,        \* at[r]: the statement r runs next
    req,       \* req[r]: what r asks for, its answer, and (history) the rotations
               \* of the same token that r found under way, in field beside
    cuts       \* history: what each "revoke everything" found

rows == <<session, heir, exists, verified, mark>>
redis == <<attempts, window, locked>>
browser == <<cookie, access>>
vars == <<rows, redis, browser, at, req, cuts>>

Request == [kind: AllKinds \cup {None}, tab: Tabs \cup {None},
            sent: Sessions \cup {None}, link: Links \cup {None},
            answer: Answers \cup {None}, heard: BOOLEAN,
            beside: SUBSET Requests]

Idle == [kind |-> None, tab |-> None, sent |-> None, link |-> None,
         answer |-> None, heard |-> TRUE, beside |-> {}]

(* A person with a verified account and open sessions, with an unverified  *)
(* one and no session yet, or without one but perhaps invited.             *)
Init ==
    /\ exists \in BOOLEAN
    /\ verified \in {exists, FALSE}
    /\ session = [s \in Sessions |-> IF verified /\ s \in Opened THEN "live" ELSE "none"]
    /\ heir = [s \in Sessions |-> None]
    /\ mark = [l \in Links |->
                 IF l \notin Requests
                    /\ FirstLinks[l] \in CASE ~exists -> {"accept"}
                                            [] exists /\ verified -> {"reset"}
                                            [] OTHER -> {"reset", "verify"}
                 THEN {"mailed"} ELSE {}]
    /\ attempts = 0 /\ window = FALSE /\ locked = FALSE
    /\ cookie \in [Browsers -> {s \in Opened : session[s] = "live"} \cup {None}]
    /\ \A b, c \in Browsers : b # c /\ cookie[b] # None => cookie[b] # cookie[c]
    /\ access \in SUBSET {t \in Tabs : cookie[BrowserOf[t]] # None}
    /\ at = [r \in Requests |-> "idle"]
    /\ req = [r \in Requests |-> Idle]
    /\ cuts = {}

Live == {s \in Sessions : session[s] = "live"}
Kind(r) == req[r].kind
Busy == {r \in Requests : at[r] \notin {"idle", "done"}}

(* The tab waits for a request of kind k. *)
Waits(t, k) == \E r \in Busy : req[r].tab = t /\ Kind(r) = k /\ req[r].heard

Purpose(l) == IF l \in Requests
              THEN CASE Kind(l) = "forgot" -> "reset"
                     [] Kind(l) = "invite" -> "accept"
                     [] OTHER -> "verify"
              ELSE FirstLinks[l]

Fresh(l) == mark[l] = {"mailed"}

(* The links of this purpose that are neither used nor withdrawn. *)
Pending(purpose) == {l \in Links : Fresh(l) /\ Purpose(l) = purpose}

Goto(r, where) == at' = [at EXCEPT ![r] = where]

Reply(r, answer) ==
    /\ req' = [req EXCEPT ![r].answer = answer]
    /\ Goto(r, "answer")

-----------------------------------------------------------------------------
(* Browsers *)

Send(r, q, where) ==
    /\ at[r] = "idle"
    /\ q.kind \in Kinds[r]
    /\ req' = [req EXCEPT ![r] = q]
    /\ Goto(r, where)
    /\ UNCHANGED <<rows, redis, browser, cuts>>

Asks(k, t) == [Idle EXCEPT !.kind = k, !.tab = t]

(* Faulty variant: every 401 starts a refresh of its own. *)
SendRefreshEach(r, t) ==
    LET c == cookie[BrowserOf[t]]
    IN  Send(r, [Asks("refresh", t) EXCEPT !.sent = c], IF c = None THEN "refuse" ELSE "find")

(* A tab starts, or one of its calls met a 401: it refreshes its access    *)
(* token, unless it is already doing so.                                   *)
SendRefresh(r, t) ==
    LET c == cookie[BrowserOf[t]]
    IN  /\ ~Waits(t, "refresh")
        /\ Send(r, [Asks("refresh", t) EXCEPT !.sent = c], IF c = None THEN "refuse" ELSE "find")

SendLogout(r, t) ==
    LET c == cookie[BrowserOf[t]]
    IN  /\ t \in access /\ ~Waits(t, "logout")
        /\ Send(r, [Asks("logout", t) EXCEPT !.sent = c], IF c = None THEN "refuse" ELSE "find")

(* The forms of the guest pages, each submitted once at a time. *)
SendLogin(r, t) ==
    /\ t \notin access /\ ~Waits(t, "login")
    /\ Send(r, Asks("login", t), "lockout")

SendEmail(r, t, k) ==
    /\ k \in {"register", "resend", "forgot"} /\ t \notin access /\ ~Waits(t, k)
    /\ Send(r, Asks(k, t), "user")

(* A mailed link is opened, the first time or again. *)
OpenLink(r, t, l) ==
    /\ mark[l] # {} /\ ~Waits(t, Purpose(l))
    /\ Send(r, [Asks(Purpose(l), t) EXCEPT !.link = l], "link")

(* The owner of a salon invites the person, or withdraws the invitation. *)
SendInvite(r) == Send(r, Asks("invite", None), "pending")

SendWithdraw(r, l) ==
    /\ mark[l] # {} /\ Purpose(l) = "accept"
    /\ Send(r, [Asks("withdraw", None) EXCEPT !.link = l], "invitation")

-----------------------------------------------------------------------------
(* SessionService.rotate, revoke and revokeAllForUser *)

(* The other refreshes that have read this token as live and not yet       *)
(* revoked it.                                                             *)
Rotating(s) ==
    {q \in Requests : Kind(q) = "refresh" /\ req[q].sent = s /\ at[q] \in {"issue", "revokeOld"}}

(* Faulty variant: a token that was rotated is taken for a live one. *)
FindSessionBlind(r) ==
    LET s == req[r].sent
    IN  /\ at[r] = "find"
        /\ IF s \in Expired THEN Reply(r, "refused")
           ELSE /\ Goto(r, IF Kind(r) = "logout" THEN "revoke" ELSE "issue")
                /\ req' = [req EXCEPT ![r].beside = Rotating(s)]
        /\ UNCHANGED <<rows, redis, browser, cuts>>

FindSession(r) ==
    LET s == req[r].sent
    IN  /\ at[r] = "find"
        /\ CASE Kind(r) = "logout" /\ session[s] = "live" -> Goto(r, "revoke") /\ UNCHANGED req
             [] Kind(r) = "logout" /\ session[s] # "live" -> Reply(r, "ok")
             [] Kind(r) = "refresh" /\ session[s] # "live" /\ heir[s] # None ->
                    Goto(r, "revokeAll") /\ UNCHANGED req
             [] Kind(r) = "refresh" /\ session[s] # "live" /\ heir[s] = None -> Reply(r, "refused")
             [] Kind(r) = "refresh" /\ session[s] = "live" /\ s \in Expired -> Reply(r, "refused")
             [] OTHER -> Goto(r, "issue") /\ req' = [req EXCEPT ![r].beside = Rotating(s)]
        /\ UNCHANGED <<rows, redis, browser, cuts>>

Refuse(r) ==
    /\ at[r] = "refuse"
    /\ Reply(r, "refused")
    /\ UNCHANGED <<rows, redis, browser, cuts>>

(* issueSession: the end of a login and of an accepted invitation, the     *)
(* first of the two statements of a rotation.                              *)
IssueSession(r) ==
    /\ at[r] = "issue"
    /\ session' = [session EXCEPT ![r] = "live"]
    /\ IF Kind(r) = "refresh" THEN Goto(r, "revokeOld") /\ UNCHANGED req
       ELSE Reply(r, "ok")
    /\ UNCHANGED <<heir, exists, verified, mark, redis, browser, cuts>>

(* The second statement of a rotation: the old token is dead and names its *)
(* successor, whatever becomes of the rest of the refresh.                 *)
RevokeOld(r) ==
    /\ at[r] = "revokeOld"
    /\ session' = [session EXCEPT ![req[r].sent] = "revoked"]
    /\ heir' = [heir EXCEPT ![req[r].sent] = r]
    /\ Goto(r, "load")
    /\ UNCHANGED <<exists, verified, mark, redis, browser, req, cuts>>

(* AuthService.refresh reads the user once the rotation is committed: the  *)
(* cookie with the new token is set only after it.                         *)
LoadUser(r) ==
    /\ at[r] = "load"
    /\ Reply(r, IF exists THEN "ok" ELSE "refused")
    /\ UNCHANGED <<rows, redis, browser, cuts>>

RevokeLoggedOut(r) ==
    /\ at[r] = "revoke"
    /\ session' = [session EXCEPT ![req[r].sent] = "revoked"]
    /\ Reply(r, "ok")
    /\ UNCHANGED <<heir, exists, verified, mark, redis, browser, cuts>>

(* After a reuse is detected, and as the last statement of a reset. *)
RevokeAllForUser(r) ==
    /\ at[r] = "revokeAll"
    /\ session' = [s \in Sessions |-> IF s \in Live THEN "revoked" ELSE session[s]]
    /\ cuts' = cuts \cup {[old |-> {s \in Sessions : session[s] # "none"}, busy |-> Busy]}
    /\ Reply(r, IF Kind(r) = "reset" THEN "ok" ELSE "reuse")
    /\ UNCHANGED <<heir, exists, verified, mark, redis, browser>>

-----------------------------------------------------------------------------
(* AuthService.login, LoginAttemptService *)

GetLockoutStatus(r) ==
    /\ at[r] = "lockout"
    /\ IF locked THEN Reply(r, "refused")
       ELSE Goto(r, "password") /\ UNCHANGED req
    /\ UNCHANGED <<rows, redis, browser, cuts>>

(* The password is right, or it is not. *)
CheckPassword(r) ==
    /\ at[r] = "password"
    /\ \/ Goto(r, "incr") /\ UNCHANGED req
       \/ /\ exists
          /\ IF verified THEN Goto(r, "clear") /\ UNCHANGED req
             ELSE Reply(r, "refused")
    /\ UNCHANGED <<rows, redis, browser, cuts>>

(* Faulty variant: one failure more than configured is let through. *)
CountFailureOffByOne(r) ==
    LET n == attempts + 1
    IN  /\ at[r] = "incr"
        /\ attempts' = n
        /\ CASE n = 1 -> Goto(r, "expire") /\ UNCHANGED req
             [] n > 1 /\ n > MaxFailures -> Goto(r, "lock") /\ UNCHANGED req
             [] OTHER -> Reply(r, "refused")
        /\ UNCHANGED <<rows, window, locked, browser, cuts>>

(* recordFailure *)
CountFailure(r) ==
    LET n == attempts + 1
    IN  /\ at[r] = "incr"
        /\ attempts' = n
        /\ CASE n = 1 -> Goto(r, "expire") /\ UNCHANGED req
             [] n > 1 /\ n >= MaxFailures -> Goto(r, "lock") /\ UNCHANGED req
             [] OTHER -> Reply(r, "refused")
        /\ UNCHANGED <<rows, window, locked, browser, cuts>>

(* EXPIRE of a key that is gone does nothing. *)
StartWindow(r) ==
    /\ at[r] = "expire"
    /\ IF attempts > 0 THEN window' = TRUE ELSE UNCHANGED window
    /\ Reply(r, "refused")
    /\ UNCHANGED <<rows, attempts, locked, browser, cuts>>

Lock(r) ==
    /\ at[r] = "lock"
    /\ locked' = TRUE
    /\ Goto(r, "restart")
    /\ UNCHANGED <<rows, attempts, window, browser, req, cuts>>

DropCounter == attempts' = 0 /\ window' = FALSE

RestartCounter(r) ==
    /\ at[r] = "restart"
    /\ DropCounter
    /\ Reply(r, "refused")
    /\ UNCHANGED <<rows, locked, browser, cuts>>

(* recordSuccess deletes both keys in one command. *)
RecordSuccess(r) ==
    /\ at[r] = "clear"
    /\ DropCounter
    /\ locked' = FALSE
    /\ Goto(r, "issue")
    /\ UNCHANGED <<rows, browser, req, cuts>>

(* Redis drops a key whose TTL is over. *)
WindowEnds ==
    /\ window
    /\ DropCounter
    /\ UNCHANGED <<rows, locked, browser, at, req, cuts>>

LockoutEnds ==
    /\ locked
    /\ locked' = FALSE
    /\ UNCHANGED <<rows, attempts, window, browser, at, req, cuts>>

-----------------------------------------------------------------------------
(* Registration, and the links that are mailed *)

FindUser(r) ==
    /\ at[r] = "user"
    /\ CASE Kind(r) \in {"register", "accept"} ->
                IF exists THEN Reply(r, "refused") ELSE Goto(r, "newUser") /\ UNCHANGED req
         [] Kind(r) = "resend" ->
                IF exists /\ ~verified THEN Goto(r, "dropLinks") /\ UNCHANGED req
                ELSE Reply(r, "ok")
         [] OTHER -> IF exists THEN Goto(r, "dropLinks") /\ UNCHANGED req ELSE Reply(r, "ok")
    /\ UNCHANGED <<rows, redis, browser, cuts>>

(* registerTenantOwner, registerInvitedUser: emails are unique. *)
CreateUser(r) ==
    /\ at[r] = "newUser"
    /\ IF exists
       THEN Reply(r, "error") /\ UNCHANGED <<exists, verified>>
       ELSE /\ exists' = TRUE
            /\ verified' = (Kind(r) = "accept")
            /\ Goto(r, IF Kind(r) = "accept" THEN "useLink" ELSE "dropLinks")
            /\ UNCHANGED req
    /\ UNCHANGED <<session, heir, mark, redis, browser, cuts>>

(* invalidateActiveForUser deletes the unused links of the account. *)
DropLinks(r) ==
    LET purpose == IF Kind(r) = "forgot" THEN "reset" ELSE "verify"
    IN  /\ at[r] = "dropLinks"
        /\ mark' = [l \in Links |-> IF l \in Pending(purpose)
                                    THEN mark[l] \cup {"deleted"} ELSE mark[l]]
        /\ Goto(r, "newLink")
        /\ UNCHANGED <<session, heir, exists, verified, redis, browser, req, cuts>>

CreateLink(r) ==
    /\ at[r] = "newLink"
    /\ mark' = [mark EXCEPT ![r] = {"mailed"}]
    /\ Reply(r, "ok")
    /\ UNCHANGED <<session, heir, exists, verified, redis, browser, cuts>>

(* verifyEmail, resetPassword and validateAndConsume read the row of the   *)
(* link, which may also be past its time.                                  *)
FindLink(r) ==
    /\ at[r] = "link"
    /\ \/ /\ Fresh(req[r].link)
          /\ Goto(r, CASE Kind(r) = "reset" -> "setPassword"
                       [] Kind(r) = "verify" -> "useLink"
                       [] OTHER -> "user")
          /\ UNCHANGED req
       \/ Reply(r, "refused")
    /\ UNCHANGED <<rows, redis, browser, cuts>>

UpdatePassword(r) ==
    /\ at[r] = "setPassword"
    /\ Goto(r, "useLink")
    /\ UNCHANGED <<rows, redis, browser, req, cuts>>

(* markUsed, markVerified, markAccepted: an update by id, which fails when *)
(* the row was deleted in the meantime.                                    *)
UseLink(r) ==
    LET l == req[r].link
    IN  /\ at[r] = "useLink"
        /\ IF "deleted" \in mark[l] THEN Reply(r, "error") /\ UNCHANGED mark
           ELSE /\ mark' = [mark EXCEPT ![l] = @ \cup {"used"}]
                /\ Goto(r, CASE Kind(r) = "reset" -> "revokeAll"
                             [] Kind(r) = "verify" -> "setVerified"
                             [] OTHER -> "issue")
                /\ UNCHANGED req
        /\ UNCHANGED <<session, heir, exists, verified, redis, browser, cuts>>

MarkEmailVerified(r) ==
    /\ at[r] = "setVerified"
    /\ verified' = TRUE
    /\ Reply(r, "ok")
    /\ UNCHANGED <<session, heir, exists, mark, redis, browser, cuts>>

-----------------------------------------------------------------------------
(* TenantInvitationService *)

FindPending(r) ==
    /\ at[r] = "pending"
    /\ IF Pending("accept") # {} THEN Reply(r, "refused")
       ELSE Goto(r, "newInvite") /\ UNCHANGED req
    /\ UNCHANGED <<rows, redis, browser, cuts>>

(* Faulty variant: without uq_tenant_invitations_tenant_email_pending. *)
CreateInvitationUnchecked(r) ==
    /\ at[r] = "newInvite"
    /\ mark' = [mark EXCEPT ![r] = {"mailed"}] /\ Reply(r, "ok")
    /\ UNCHANGED <<session, heir, exists, verified, redis, browser, cuts>>

(* A partial unique index allows one pending invitation of an email. *)
CreateInvitation(r) ==
    /\ at[r] = "newInvite"
    /\ IF Pending("accept") # {} THEN Reply(r, "error") /\ UNCHANGED mark
       ELSE mark' = [mark EXCEPT ![r] = {"mailed"}] /\ Reply(r, "ok")
    /\ UNCHANGED <<session, heir, exists, verified, redis, browser, cuts>>

FindInvitation(r) ==
    /\ at[r] = "invitation"
    /\ IF Fresh(req[r].link) THEN Goto(r, "withdraw") /\ UNCHANGED req ELSE Reply(r, "ok")
    /\ UNCHANGED <<rows, redis, browser, cuts>>

RevokeInvitation(r) ==
    /\ at[r] = "withdraw"
    /\ mark' = [mark EXCEPT ![req[r].link] = @ \cup {"withdrawn"}]
    /\ Reply(r, "ok")
    /\ UNCHANGED <<session, heir, exists, verified, redis, browser, cuts>>

-----------------------------------------------------------------------------
(* Answers *)

SetCookie(r, s) == cookie' = [cookie EXCEPT ![BrowserOf[req[r].tab]] = s]

SignOut(t) == access' = access \ {t}

(* The answer reaches the tab: AuthState keeps the token, or is cleared.   *)
Answer(r) ==
    LET t == req[r].tab
    IN  /\ at[r] = "answer" /\ req[r].heard
        /\ CASE Kind(r) \in {"refresh", "login", "accept"} /\ req[r].answer = "ok" ->
                    SetCookie(r, r) /\ access' = access \cup {t}
             [] Kind(r) = "refresh" /\ req[r].answer # "ok" -> SignOut(t) /\ UNCHANGED cookie
             [] Kind(r) = "logout" ->
                    /\ SignOut(t)
                    /\ IF req[r].answer = "ok" THEN SetCookie(r, None) ELSE UNCHANGED cookie
             [] OTHER -> UNCHANGED browser
        /\ Goto(r, "done")
        /\ UNCHANGED <<rows, redis, req, cuts>>

(* Nobody is waiting for it any more. *)
AnswerUnheard(r) ==
    /\ at[r] = "answer" /\ ~req[r].heard
    /\ Goto(r, "done")
    /\ UNCHANGED <<rows, redis, browser, req, cuts>>

(* The connection breaks, or the tab is reloaded, while the server works on *)
(* a request that would have changed the session.                          *)
Hangup(r) ==
    /\ "lost" \in Faults
    /\ r \in Busy /\ req[r].heard
    /\ Kind(r) \in {"refresh", "logout"}
    /\ req' = [req EXCEPT ![r].heard = FALSE]
    /\ SignOut(req[r].tab)
    /\ UNCHANGED <<rows, redis, cookie, at, cuts>>

(* A statement fails, or the process dies: the answer is an error. *)
HandlerFails(r) ==
    /\ "crash" \in Faults
    /\ r \in Busy /\ at[r] # "answer"
    /\ Reply(r, "error")
    /\ UNCHANGED <<rows, redis, browser, cuts>>

-----------------------------------------------------------------------------
Ask(r) ==
    \E t \in Tabs :
        \/ SendRefresh(r, t) \/ SendLogout(r, t)
        \/ SendLogin(r, t)
        \/ \E k \in AllKinds : SendEmail(r, t, k)
        \/ \E l \in Links : OpenLink(r, t, l)

Invite(r) == SendInvite(r) \/ \E l \in Links : SendWithdraw(r, l)

SessionStep(r) ==
    \/ FindSession(r) \/ Refuse(r) \/ IssueSession(r) \/ RevokeOld(r) \/ LoadUser(r)
    \/ RevokeLoggedOut(r) \/ RevokeAllForUser(r)

LoginStep(r) ==
    \/ GetLockoutStatus(r) \/ CheckPassword(r) \/ CountFailure(r) \/ StartWindow(r)
    \/ Lock(r) \/ RestartCounter(r) \/ RecordSuccess(r)

LinkStep(r) ==
    \/ FindUser(r) \/ CreateUser(r) \/ DropLinks(r) \/ CreateLink(r)
    \/ FindLink(r) \/ UpdatePassword(r) \/ UseLink(r) \/ MarkEmailVerified(r)
    \/ FindPending(r) \/ CreateInvitation(r) \/ FindInvitation(r) \/ RevokeInvitation(r)

Next ==
    \/ \E r \in Requests :
           \/ Ask(r) \/ Invite(r) \/ SessionStep(r) \/ LoginStep(r) \/ LinkStep(r)
           \/ Answer(r) \/ AnswerUnheard(r) \/ Hangup(r) \/ HandlerFails(r)
    \/ WindowEnds \/ LockoutEnds

Spec == Init /\ [][Next]_vars

-----------------------------------------------------------------------------
TypeOK ==
    /\ session \in [Sessions -> {"none", "live", "revoked"}]
    /\ heir \in [Sessions -> Requests \cup {None}]
    /\ exists \in BOOLEAN /\ verified \in BOOLEAN
    /\ mark \in [Links -> SUBSET Marks]
    /\ attempts \in Nat /\ window \in BOOLEAN /\ locked \in BOOLEAN
    /\ cookie \in [Browsers -> Sessions \cup {None}]
    /\ access \subseteq Tabs
    /\ at \in [Requests -> {"idle", "find", "refuse", "issue", "revokeOld", "load", "revoke",
                            "revokeAll", "lockout", "password", "incr", "expire", "lock",
                            "restart", "clear", "user", "newUser", "dropLinks", "newLink",
                            "link", "setPassword", "useLink", "setVerified", "pending",
                            "newInvite", "invitation", "withdraw", "answer", "done"}]
    /\ req \in [Requests -> Request]
    /\ cuts \subseteq [old: SUBSET Sessions, busy: SUBSET Requests]

(* A rotation takes the old token out as it brings the new one in: both    *)
(* are live only while rotate is between its two statements, or where it   *)
(* was cut short there.                                                    *)
RotationLeavesOneLive ==
    \A r \in Requests :
        /\ Kind(r) = "refresh" /\ session[r] = "live"
        /\ session[req[r].sent] = "live"
        => at[r] = "revokeOld" \/ req[r].answer = "error"

(* When a password reset, or a detected reuse, has revoked everything, no  *)
(* refresh that comes after it can continue one of the old sessions; only  *)
(* a rotation that was under way at that moment may.                       *)
NoLateRotation ==
    \A c \in cuts, r \in Requests :
        Kind(r) = "refresh" /\ session[r] # "none" /\ req[r].sent \in c.old
        => r \in c.old \cup c.busy

(* Two tokens continue the same one only where their refreshes overlapped  *)
(* in rotate, between its look-up and its revocation of the old token, or  *)
(* one of them was cut short: rotate does not lock the row it reads.       *)
ForksOverlap ==
    \A q, r \in Requests :
        /\ q # r /\ Kind(q) = "refresh" /\ Kind(r) = "refresh"
        /\ session[q] # "none" /\ session[r] # "none"
        /\ req[q].sent = req[r].sent
        => \/ q \in req[r].beside \/ r \in req[q].beside
           \/ req[q].answer = "error" \/ req[r].answer = "error"

(* What rotate promises of the chain of refresh tokens without a lock or a *)
(* transaction: a token and its successor are not both live once rotate    *)
(* has returned, the chain forks only where two rotations overlapped or    *)
(* one was cut short, and nothing continues it after it has been cut off.  *)
ChainsAreSound == RotationLeavesOneLive /\ ForksOverlap /\ NoLateRotation

(* "The single newest, unrevoked token in a chain": of two tokens that     *)
(* continue the same one, at most one is live (SessionService.rotate).     *)
(* Not so: two tabs of a browser that refresh at once both find it live.   *)
OneLiveEnd ==
    \A q, r \in Requests :
        /\ Kind(q) = "refresh" /\ Kind(r) = "refresh"
        /\ session[q] = "live" /\ session[r] = "live"
        /\ req[q].sent = req[r].sent
        => q = r

(* The refresh failed after it had issued a new token. *)
FailedLate(q) == session[q] # "none" /\ req[q].answer \notin {None, "ok"}

(* Reuse is never detected of a user with one tab whose answers arrive and *)
(* none of whose refreshes failed behind its first statement: the tab      *)
(* shares one refresh among its calls, so the same token is sent twice     *)
(* only by a second tab, after an answer that was lost, or after an error  *)
(* that came too late to take the rotation back.                           *)
ReuseHasCause ==
    \A r \in Requests :
        req[r].answer = "reuse" =>
            \E q \in Requests \ {r} :
                /\ Kind(q) = "refresh" /\ req[q].sent = req[r].sent
                /\ \/ req[q].tab # req[r].tab \/ ~req[q].heard \/ ~req[r].heard
                   \/ FailedLate(q)

(* A token that is presented after it was rotated proves theft, because    *)
(* "the legitimate client already received and is using the new token"     *)
(* (SessionService.rotate).  Not so: refresh loads the user after the old  *)
(* token is revoked, and when that fails the only tab there is has no      *)
(* token but the old one.                                                  *)
ReuseMeansTheft ==
    \A r \in Requests :
        req[r].answer = "reuse" =>
            \E q \in Requests \ {r} :
                /\ Kind(q) = "refresh" /\ req[q].sent = req[r].sent
                /\ at[q] = "done" /\ req[q].answer = "ok" /\ req[q].heard

(* The person has at most one invitation that could still be accepted,     *)
(* however the look-up and the insert of two invitations interleave.       *)
OnePendingInvitation == \A l, m \in Pending("accept") : l = m

(* Failed logins are forgotten after a while: a counter has its TTL, but   *)
(* for the moment between INCR and EXPIRE, or when the handler ends there. *)
CounterHasWindow ==
    attempts > 0 /\ ~window =>
        \E r \in Requests :
            Kind(r) = "login" /\ (at[r] = "expire" \/ req[r].answer = "error")

(* A counter that is full locks the account: whoever filled it is about to *)
(* set the lock or to drop the counter, or was cut short there.            *)
FullCounterLocks ==
    attempts >= MaxFailures =>
        \E r \in Requests :
            Kind(r) = "login" /\ (at[r] \in {"lock", "restart"} \/ req[r].answer = "error")

(* Guessing is bounded and an honest user is let in again: no interleaving *)
(* of failing and succeeding logins leaves a counter that never ends, or   *)
(* one that is full without a lock.                                        *)
LockoutWorks == CounterHasWindow /\ FullCounterLocks
=============================================================================
