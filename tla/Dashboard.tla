------------------------------- MODULE Dashboard -------------------------------
(***************************************************************************)
(* The Angular application in one browser: the pages behind app.routes.ts, *)
(* the signals each keeps, the requests they send through ApiClient and    *)
(* authInterceptor, and the callbacks that run when answers arrive, in any *)
(* order, late, failed, or after the page that asked is gone.  The backend *)
(* is as much of the stored data as tells true screens from wrong ones; it *)
(* handles a request in one step.                                          *)
(*                                                                         *)
(* A page is a set of parts, each with its own load and its own controls:  *)
(* lists of rows, forms that are saved whole, and a few of its own kind.   *)
(***************************************************************************)
EXTENDS Naturals, Sequences, FiniteSets, SequencesExt

CONSTANTS
    Roles,      \* who may sign in
    Things,     \* rows, conversations, customers, appointments, plans
    Days,       \* the days of the calendar
    MaxClicks,  \* bound: what the user does
    MaxFaults,  \* bound: refusals, lost messages and expired tokens
    Nil

ASSUME DashboardAssumption ==
    /\ Roles \subseteq {"STAFF", "MANAGER", "OWNER", "SUPER_ADMIN"}
    /\ Things # {} /\ Days # {} /\ Nil \notin Things /\ Nil \notin Roles
    /\ MaxClicks \in Nat /\ MaxFaults \in Nat

VARIABLES
    session,   \* AuthStateService: the access token, the user's role, whether the
               \* cached tenant is SUSPENDED or CANCELLED; and the refresh cookie
    screen,    \* the component of the open route and its signals
    inflight,  \* the requests under way, in the order they were sent
    server,    \* what the backend stores
    clicks, faults,
    failed     \* history: the parts some page failed to load, and "suspend" once a
               \* tenant could not be suspended or reactivated

dashboardVars == <<session, screen, inflight, server, clicks, faults, failed>>

-----------------------------------------------------------------------------
(* Routes and guards *)

StaffPages == {"salon", "hours", "holidays", "employees", "employee", "services",
               "categories", "customers", "calendar", "booking", "appointment",
               "inbox", "thread"}
ManagerPages == {"settings", "billing"}
AdminPages == {"tenants", "tenantBilling", "plans"}
Pages == StaffPages \cup ManagerPages \cup AdminPages \cup {"home"}
ById == {"employee", "appointment", "thread", "tenantBilling"}

ASSUME NilAssumption == Nil \notin ById

Rank == [STAFF |-> 10, MANAGER |-> 20, OWNER |-> 30, SUPER_ADMIN |-> 100]

(* roleGuard: otherwise it redirects to /403, which is no route, so that the
   navigation fails and the page stays. *)
HasRole(s, role) == s.user # Nil /\ Rank[s.user] >= Rank[role]

RoleGuard(s, p) ==
    \/ p = "home"
    \/ p \in StaffPages /\ HasRole(s, "STAFF")
    \/ p \in ManagerPages /\ HasRole(s, "MANAGER")
    \/ p \in AdminPages /\ HasRole(s, "SUPER_ADMIN")

TenantActiveGuard(s, p) == p = "settings" => ~s.blocked

(* Where a navigation to p ends with session s; authGuard looks at the token only. *)
Destination(s, p) ==
    IF s.token = "none" THEN "login"
    ELSE LET q == IF TenantActiveGuard(s, p) THEN p ELSE "billing"
         IN  IF RoleGuard(s, q) THEN q ELSE "nowhere"

(* PermissionService.can: the controls of a part are shown to these roles. *)
Can(part) ==
    CASE part = "subscription" -> HasRole(session, "OWNER")
      [] part \in {"threads", "messages", "visits", "visit"} -> HasRole(session, "STAFF")
      [] OTHER -> HasRole(session, "MANAGER")

-----------------------------------------------------------------------------
(* Parts of pages, and what the backend has for them *)

Lists == {"employees", "services", "categories", "customers", "holidays", "plans",
          "tenants", "timeOff", "invitations", "whatsapp", "threads"}
Wholes == {"salon", "hours", "profile", "workingHours", "assigned",
           "tenant", "settings", "ai"}
Reports == {"billingPlans", "tenantBilling"}
Parts == Lists \cup Wholes \cup Reports
         \cup {"messages", "visits", "visit", "candidates", "subscription"}

(* What the constructor of each page asks for, one request each; the lists of
   invoices, payments and prompts, which are only shown, are left out. *)
Asked(p) ==
    CASE p = "employee" -> <<"employeePage">>
      [] p = "settings" -> <<"tenant", "settingsAndAi", "invitations", "whatsapp">>
      [] p = "billing" -> <<"subscription", "billingPlans">>
      [] p = "inbox" -> <<"threads">>
      [] p = "thread" -> <<"threads", "messages">>
      [] p = "calendar" -> <<"visits">>
      [] p = "appointment" -> <<"visit">>
      [] p \in {"booking", "home", "login", "stripe"} -> << >>
      [] OTHER -> <<p>>

(* forkJoin, and the one request whose answer fills two forms. *)
Group(part) ==
    CASE part = "employeePage" -> {"profile", "workingHours", "timeOff", "assigned"}
      [] part = "settingsAndAi" -> {"settings", "ai"}
      [] OTHER -> {part}

PartsOf(p) == (UNION {Group(Asked(p)[i]) : i \in DOMAIN Asked(p)})
              \cup (IF p = "booking" THEN {"candidates"} ELSE {})
              \cup (IF p = "inbox" THEN {"messages"} ELSE {})

NoVisit == [day |-> Nil, status |-> "none"]
NoRows == [t \in Things |-> "none"]

(* The initial value of a page's signals. *)
Blank(part) ==
    CASE part \in Lists \cup {"candidates"} -> NoRows
      [] part \in Wholes -> "default"
      [] part = "messages" -> [t \in Things |-> 0]
      [] part = "visits" -> [t \in Things |-> NoVisit]
      [] part = "visit" -> NoVisit
      [] OTHER -> Nil

(* The rows of a list that its filter or search term asks for. *)
Matches(part, which, row, t) ==
    /\ row # "none"
    /\ part \in {"customers", "candidates"} => which \in {Nil, t}
    /\ part = "threads" => which = Nil \/ row \in {"ESCALATED", "TAKEN"}

Filtered(part, which, rows) ==
    [t \in Things |-> IF Matches(part, which, rows[t], t) THEN rows[t] ELSE "none"]

Stored(part, which) ==
    CASE part \in Lists -> Filtered(part, which, server.rows[part])
      [] part = "candidates" -> Filtered(part, which, server.rows["customers"])
      [] part \in Wholes -> server.whole[part]
      [] part = "messages" -> [t \in Things |-> IF t = which THEN server.sent[t] ELSE 0]
      [] part = "visits" -> [t \in Things |-> IF server.visits[t].day \in which
                                              THEN server.visits[t] ELSE NoVisit]
      [] part = "visit" -> server.visits[which]
      [] part = "subscription" -> server.sub
      [] OTHER -> "shown"

-----------------------------------------------------------------------------
(* Requests: ApiClient and authInterceptor *)

Request(op, part, arg, value) ==
    [op |-> op, part |-> part, arg |-> arg, value |-> value, state |-> "sent",
     reply |-> Nil, again |-> FALSE, resent |-> FALSE, here |-> TRUE]

(* What the load of a part of screen s depends on. *)
Criterion(s, part) ==
    CASE part \in {"threads", "customers", "visits", "candidates"} -> s.filter
      [] part = "messages" -> s.sel
      [] part = "visit" -> s.id
      [] OTHER -> Nil

Load(s, part) == Request("load", part, Criterion(s, part), Nil)

Subject(part) ==
    CASE part = "visit" -> "visits" [] part = "candidates" -> "customers" [] OTHER -> part
Touches(r) == {Subject(q) : q \in Group(r.part)}
Overlap(r, q) == Touches(r) \cap Touches(q) # {}

(* A component created by the router, for the id in the URL. *)
Fresh(p, id) ==
    LET s == [page |-> p, id |-> id, sel |-> IF p = "booking" THEN Nil ELSE id,
              filter |-> IF p = "calendar" THEN Days ELSE Nil,
              loading |-> PartsOf(p) \ {"candidates"}, busy |-> {}, editing |-> Nil,
              timer |-> FALSE, hidden |-> FALSE, hitch |-> FALSE,
              held |-> [part \in PartsOf(p) |-> Blank(part)]]
    IN  IF p = "inbox" THEN [s EXCEPT !.loading = {"threads"}] ELSE s

Constructor(s) == [i \in DOMAIN Asked(s.page) |-> Load(s, Asked(s.page)[i])]

(* Requests outlive their page: nothing unsubscribes.  Those that only read
   are left out from there on. *)
Orphaned(reqs) ==
    LET writes[n \in 0..Len(reqs)] ==
            IF n = 0 THEN << >>
            ELSE IF reqs[n].op = "load" THEN writes[n - 1]
            ELSE Append(writes[n - 1], [reqs[n] EXCEPT !.here = FALSE])
    IN  writes[Len(reqs)]

(* The router, under session s, with reqs under way.  The same route with
   another id keeps its component, which has read the id once: the URL names
   another employee, appointment or tenant (sel) than the page is about (id),
   and the inbox stays on the conversation selected. *)
Navigate(s, p, id, reqs) ==
    LET dest == Destination(s, p)
    IN  IF \/ dest = "nowhere"
           \/ dest = screen.page /\ (dest \in ById \ {"thread"} => id = screen.sel)
        THEN UNCHANGED screen /\ inflight' = reqs
        ELSE IF dest = screen.page
        THEN screen' = [screen EXCEPT !.sel = id] /\ inflight' = reqs
        ELSE LET new == Fresh(dest, IF dest = "login" THEN p
                                    ELSE IF dest \in ById THEN id ELSE Nil)
             IN  screen' = new /\ inflight' = Orphaned(reqs) \o Constructor(new)

(* AuthStateService.clear, and the way to the login page with its returnUrl. *)
SignOut(cookie, reqs) ==
    /\ session' = [token |-> "none", user |-> Nil, blocked |-> FALSE, cookie |-> cookie]
    /\ IF screen.page = "login" THEN UNCHANGED screen /\ inflight' = reqs
       ELSE /\ screen' = [Fresh("login", screen.page) EXCEPT !.sel = screen.sel]
            /\ inflight' = Orphaned(reqs)

(* Who has signed in: an administrator, who has no salon and acts as one, is
   never blocked. *)
Sessions ==
    {s \in [token : {"valid"}, user : Roles, blocked : BOOLEAN, cookie : {TRUE}] :
        s.user = "SUPER_ADMIN" => ~s.blocked}

(* A salon on its trial, or one suspended because its payments are overdue. *)
DashboardInit ==
    \E s \in Sessions, p \in Pages, t \in Things :
        LET one == CHOOSE x \in Things : TRUE
            day == CHOOSE d \in Days : TRUE
        IN  /\ session = s
            /\ Destination(session, p) = p
            /\ screen = Fresh(p, IF p \in ById THEN t ELSE Nil)
            /\ inflight = Constructor(screen)
            /\ server = [rows |-> [l \in Lists |-> [x \in Things |->
                                   IF l = "threads" THEN IF x = one THEN "ESCALATED" ELSE "OPEN"
                                   ELSE IF x = one THEN "on" ELSE "none"]],
                         whole |-> [w \in Wholes |-> "own"],
                         sent |-> [x \in Things |-> 1],
                         visits |-> [x \in Things |-> IF x = one
                                       THEN [day |-> day, status |-> "live"] ELSE NoVisit],
                         sub |-> [plan |-> one, status |-> IF s.blocked THEN "live" ELSE "trial"]]
            /\ clicks = 0 /\ faults = 0 /\ failed = {}

-----------------------------------------------------------------------------
(* The backend handles a request *)

Unused == {t \in Things : server.visits[t] = NoVisit}
NewVisit == CHOOSE t \in Unused : TRUE

(* TenantActiveGuard of the backend: a blocked salon reads, and settles its bills. *)
Active(r) ==
    session.blocked \/ (server.sub.status = "over" /\ session.user # "SUPER_ADMIN")
    => \/ r.op \in {"load", "test"}
       \/ r.part \in {"subscription", "session", "login", "plans", "tenants"}

(* What it refuses for a reason that does not go away: a row that is there
   already or not any more, a tenant reactivated twice, a visit that is over. *)
Possible(r) ==
    /\ Active(r)
    /\ r.op = "set" /\ r.part = "tenants" /\ r.value = "on" => server.rows["tenants"][r.arg] = "off"
    /\ CASE r.op = "create" -> server.rows[r.part][r.arg] = "none"
         [] r.op \in {"edit", "set", "assign", "delete"} -> server.rows[r.part][r.arg] # "none"
         [] r.op = "load" /\ r.part = "visit" -> server.visits[r.arg] # NoVisit
         [] r.op \in {"move", "drop"} -> server.visits[r.arg].status = "live" /\ Unused # {}
         [] r.op = "cancel" -> server.visits[r.arg].status = "live"
         [] r.op = "remove" -> server.visits[r.arg] # NoVisit
         [] r.op = "book" -> Unused # {}
         [] r.op = "changePlan" -> server.sub.status \in {"live", "ending"}
         [] r.op = "cancelPlan" -> server.sub.status # "over"
         [] r.op = "resume" -> server.sub.status = "ending"
         [] OTHER -> TRUE

Live(day) == [day |-> day, status |-> "live"]

(* PATCH /tenant refuses an empty address, city or country, which a form that
   was never read has unless the user fills them in. *)
LeftEmpty(r) == r.op = "save" /\ r.part = "tenant" /\ r.value = "default"

(* PATCH /tenant/settings merges by key, and a form that was never read has no
   key.  The other unread forms carry initial values: a week of closed days, the
   behaviour of the assistant, a currency and a locale. *)
Kept(part, value) ==
    IF part = "settings" /\ value = "default" THEN server.whole[part] ELSE value

Applied(r) ==
    CASE r.op = "create" -> [server EXCEPT !.rows[r.part][r.arg] = "on"]
      [] r.op = "set" -> [server EXCEPT !.rows[r.part][r.arg] = r.value]
      [] r.op = "assign" -> [server EXCEPT !.rows[r.part][r.arg] =
                               IF @ \in {"ESCALATED", "TAKEN"} THEN r.value ELSE @]
      [] r.op = "delete" -> [server EXCEPT !.rows[r.part][r.arg] = "none"]
      [] r.op = "save" -> [server EXCEPT !.whole[r.part] = Kept(r.part, r.value)]
      [] r.op = "send" -> [server EXCEPT !.sent[r.arg] = @ + 1]
      [] r.op \in {"move", "drop"} -> [server EXCEPT !.visits[r.arg].status = "moved",
                                                    !.visits[NewVisit] = Live(r.value)]
      [] r.op = "cancel" -> [server EXCEPT !.visits[r.arg].status = "over"]
      [] r.op = "remove" -> [server EXCEPT !.visits[r.arg] = NoVisit]
      [] r.op = "book" -> [server EXCEPT !.visits[NewVisit] = Live(r.value)]
      [] r.op = "changePlan" -> [server EXCEPT !.sub.plan = r.arg]
      [] r.op = "cancelPlan" -> [server EXCEPT !.sub.status = IF @ = "trial" THEN "over" ELSE "ending"]
      [] r.op = "resume" -> [server EXCEPT !.sub.status = "live"]
      [] OTHER -> server

Reply(r) ==
    CASE r.op = "load" -> [q \in Group(r.part) |-> Stored(q, r.arg)]
      [] r.op \in {"edit", "set", "assign"} -> Applied(r).rows[r.part][r.arg]
      [] r.op \in {"move", "drop"} -> NewVisit
      [] r.op = "cancel" -> Applied(r).visits[r.arg]
      [] r.op \in {"changePlan", "cancelPlan", "resume"} -> Applied(r).sub
      [] OTHER -> Nil

Hitch == screen' = [screen EXCEPT !.hitch = TRUE]

(* The backend carries out one request; another one sent earlier may still be
   on its way. *)
Serve(i) ==
    LET r == inflight[i]
        overtakes == \E k \in 1..(i - 1) : inflight[k].state = "sent" /\ Overlap(inflight[k], r)
    IN  /\ r.state = "sent" /\ Possible(r)
        /\ server' = Applied(r)
        /\ inflight' = [inflight EXCEPT ![i].state = "done", ![i].reply = Reply(r)]
        /\ IF overtakes THEN Hitch ELSE UNCHANGED screen
        /\ UNCHANGED <<session, clicks, faults, failed>>

-----------------------------------------------------------------------------
(* Callbacks *)

Flag(op, part, arg) == [op |-> op, part |-> part, arg |-> arg]
Freed(s, r) == [s EXCEPT !.busy = {f \in @ : f.op # r.op \/ f.part # r.part}]

(* rows.map((row) => (row.id === updated.id ? updated : row)) *)
Replaced(rows, t, row) == [rows EXCEPT ![t] = IF @ = "none" THEN @ ELSE row]

(* What next: does to the signals of the page. *)
Answered(s, r) ==
    LET f == Freed(s, r)
    IN  CASE r.op = "load" ->
               [f EXCEPT !.loading = @ \ Group(r.part),
                         !.held = [q \in DOMAIN @ |-> IF q \in Group(r.part) THEN r.reply[q]
                                                      ELSE @[q]]]
          [] r.op = "create" -> [f EXCEPT !.held[r.part][r.arg] = "on"]
          [] r.op = "edit" -> [f EXCEPT !.held[r.part] = Replaced(@, r.arg, r.reply),
                                        !.editing = Nil]
          [] r.op \in {"set", "assign"} ->
               [f EXCEPT !.held[r.part] = Replaced(@, r.arg, r.reply)]
          [] r.op = "delete" -> [f EXCEPT !.held[r.part][r.arg] = "none"]
          [] r.op = "send" -> [f EXCEPT !.held["messages"][r.arg] = @ + 1]
          [] r.op = "drop" -> [f EXCEPT !.held["visits"] =
                                 [@ EXCEPT ![r.arg] = NoVisit, ![r.reply] = Live(r.value)]]
          [] r.op = "cancel" -> [f EXCEPT !.held["visit"] = r.reply]
          [] r.op \in {"changePlan", "cancelPlan", "resume"} ->
               [f EXCEPT !.held["subscription"] = r.reply]
          [] OTHER -> f

(* Faulty variant: an error frees no control. *)
FailedBusy(s, r) ==
    IF r.op = "load" THEN [s EXCEPT !.loading = @ \ Group(r.part), !.hitch = TRUE,
                                    !.hidden = @ \/ r.part = "employeePage"]
    ELSE s

(* Faulty variant: the forms of an employee are shown though they failed to load. *)
FailedShown(s, r) ==
    CASE r.op = "load" -> [s EXCEPT !.loading = @ \ Group(r.part), !.hitch = TRUE]
      [] r.op = "set" /\ r.part = "tenants" -> s
      [] OTHER -> Freed(s, r)

(* What error: does.  AdminTenantsPage resets its flag in complete: only. *)
Failed(s, r) ==
    CASE r.op = "load" -> [s EXCEPT !.loading = @ \ Group(r.part), !.hitch = TRUE,
                                    !.hidden = @ \/ r.part = "employeePage"]
      [] r.op = "set" /\ r.part = "tenants" -> s
      [] OTHER -> Freed(s, r)

(* Callbacks that take the browser to another page, the user's or not. *)
Leaving == {"book", "move", "remove", "checkout", "portal", "logout", "login"}

AnswerArrives(i) ==
    LET r == inflight[i]
        overtakes == \E k \in 1..(i - 1) : inflight[k].here /\ Overlap(inflight[k], r)
    IN  /\ r.state = "done" /\ r.op \notin Leaving
        /\ inflight' = RemoveAt(inflight, i)
        /\ IF r.here THEN screen' = [Answered(screen, r) EXCEPT !.hitch = @ \/ overtakes]
           ELSE UNCHANGED screen
        /\ UNCHANGED <<session, server, clicks, faults, failed>>

AnswerLeads(i) ==
    LET r == inflight[i]
        rest == RemoveAt(inflight, i)
    IN  /\ r.state = "done" /\ r.op \in Leaving
        /\ CASE r.op \in {"book", "remove"} ->
                   Navigate(session, "calendar", Nil, rest) /\ UNCHANGED session
             [] r.op = "move" ->
                   Navigate(session, "appointment", r.reply, rest) /\ UNCHANGED session
             [] r.op \in {"checkout", "portal"} ->
                   screen' = Fresh("stripe", Nil) /\ inflight' = << >> /\ UNCHANGED session
             [] r.op = "logout" -> SignOut(FALSE, rest)
             [] r.op = "login" ->
                   /\ session' = r.value
                   /\ Navigate(r.value, screen.id, screen.sel, rest)
        /\ UNCHANGED <<server, clicks, faults, failed>>

(* A request ends without an answer for its page.  The interceptor signs out
   when a refresh fails, and when the request it sends again fails. *)
Fails(i) ==
    LET r == inflight[i]
        rest == RemoveAt(inflight, i)
        executed == r.state = "done" /\ r.op # "load"
    IN  /\ failed' = failed \cup (CASE r.op = "load" -> Group(r.part)
                                   [] r.op = "set" /\ r.part = "tenants" -> {"suspend"}
                                   [] OTHER -> {})
        /\ IF r.resent \/ r.op = "logout" THEN SignOut(session.cookie, rest)
           ELSE /\ UNCHANGED session
                /\ IF ~r.here THEN UNCHANGED screen /\ inflight' = rest
                   ELSE IF r.op = "drop"
                   THEN /\ screen' = [screen EXCEPT !.loading = @ \cup {"visits"}]
                        /\ inflight' = Append(rest, Load(screen, "visits"))
                   ELSE /\ screen' = [Failed(screen, r) EXCEPT !.hitch = @ \/ executed]
                        /\ inflight' = rest

Fault(free) == (free \/ faults < MaxFaults) /\ faults' = faults + (IF free THEN 0 ELSE 1)

(* An error status: a refusal, or a fault of the backend. *)
Refused(i) ==
    /\ inflight[i].state = "sent"
    /\ Fault(~Possible(inflight[i]) \/ LeftEmpty(inflight[i]))
    /\ Fails(i)
    /\ UNCHANGED <<server, clicks>>

(* A request sent anew comes after the ones sent since. *)
SendAgain(i, again, resent) ==
    /\ inflight' = Append(RemoveAt(inflight, i),
                         [inflight[i] EXCEPT !.state = "sent", !.reply = Nil,
                                             !.again = @ \/ again, !.resent = resent])
    /\ IF \E k \in (i + 1)..Len(inflight) : Overlap(inflight[k], inflight[i])
       THEN Hitch ELSE UNCHANGED screen

(* The network fails before or after the request was handled: status 0.  A GET
   is tried once more. *)
Lost(i) ==
    LET r == inflight[i]
    IN  /\ r.state \in {"sent", "done"}
        /\ Fault(FALSE)
        /\ \/ /\ r.op = "load" /\ ~r.again
              /\ IF r.resent THEN SignOut(session.cookie, RemoveAt(inflight, i))
                 ELSE SendAgain(i, TRUE, FALSE) /\ UNCHANGED session
              /\ UNCHANGED failed
           \/ (r.op # "load" \/ r.again) /\ Fails(i)
        /\ UNCHANGED <<server, clicks>>

(* authInterceptor on a 401, the access token having expired: one refresh, which
   Accounts models, and the request again with the new token. *)
Expired(i) ==
    LET r == inflight[i]
    IN  /\ r.state = "sent" /\ r.op \notin {"login", "logout"}
        /\ Fault(FALSE)
        /\ \/ /\ session.cookie /\ ~r.resent
              /\ session' = [session EXCEPT !.token = "valid"]
              /\ SendAgain(i, FALSE, TRUE)
           \/ SignOut(session.cookie, RemoveAt(inflight, i))
        /\ UNCHANGED <<server, clicks, failed>>

-----------------------------------------------------------------------------
(* What a user does *)

Click == clicks < MaxClicks /\ clicks' = clicks + 1
Aside == UNCHANGED <<session, server, faults, failed>>

Press(op, part, arg, value, flagged) ==
    /\ Click
    /\ inflight' = Append(inflight, Request(op, part, arg, value))
    /\ screen' = IF flagged THEN [screen EXCEPT !.busy = @ \cup {Flag(op, part, arg)}] ELSE screen
    /\ Aside

Change(new) == screen' = new /\ screen' # screen /\ UNCHANGED <<inflight, clicks>> /\ Aside

Free(op, part) == \A f \in screen.busy : f.op # op \/ f.part # part

(* Most parts are hidden while they load. *)
Ready(part) == part \notin screen.loading /\ ~screen.hidden

Row(part) == {t \in Things : Ready(part) /\ screen.held[part][t] # "none"}

CreateRow(part) ==
    /\ Can(part) /\ Free("create", part) /\ ~screen.hidden
    /\ \E t \in Things \ Row(part) : Press("create", part, t, Nil, TRUE)

EditRow(part) ==
    \/ \E t \in Row(part) \cup {Nil} : Change([screen EXCEPT !.editing = t])
    \/ /\ screen.editing \in Row(part) /\ Free("edit", part)
       /\ Press("edit", part, screen.editing, Nil, TRUE)

ToggleRow(part) ==
    /\ Can(part)
    /\ \E t \in Row(part) :
          Press("set", part, t, IF screen.held[part][t] = "on" THEN "off" ELSE "on", FALSE)

DeleteRow(part) ==
    Can(part) /\ \E t \in Row(part) : Press("delete", part, t, Nil, FALSE)

SaveWhole(part) ==
    /\ Can(part) /\ Ready(part) /\ Free("save", part)
    /\ Press("save", part, Nil, screen.held[part], TRUE)

-----------------------------------------------------------------------------
(* The pages *)

ServicesListPage ==
    /\ screen.page = "services"
    /\ \/ CreateRow("services")
       \/ Can("services") /\ EditRow("services")
       \/ ToggleRow("services")
       \/ DeleteRow("services")

ServiceCategoriesPage ==
    /\ screen.page = "categories"
    /\ \/ CreateRow("categories")
       \/ Can("categories") /\ EditRow("categories")
       \/ DeleteRow("categories")

HolidaysPage ==
    /\ screen.page = "holidays"
    /\ \/ CreateRow("holidays")
       \/ Can("holidays") /\ EditRow("holidays")
       \/ DeleteRow("holidays")

EmployeesListPage ==
    /\ screen.page = "employees"
    /\ CreateRow("employees") \/ DeleteRow("employees")

AdminPlansPage ==
    /\ screen.page = "plans"
    /\ EditRow("plans") \/ ToggleRow("plans")

(* A search waits 300 ms for the next key. *)
Search(term) ==
    /\ Click
    /\ screen' = [screen EXCEPT !.filter = term, !.timer = TRUE]
    /\ UNCHANGED inflight /\ Aside

(* Saving an edit has no flag here, and every role sees the editor. *)
CustomersListPage ==
    /\ screen.page = "customers"
    /\ \/ CreateRow("customers")
       \/ DeleteRow("customers")
       \/ \E term \in Things \cup {Nil} : Search(term)
       \/ EditRow("customers")

SearchFires ==
    /\ screen.timer
    /\ LET part == IF screen.page = "booking" THEN "candidates" ELSE "customers"
       IN  /\ screen' = [screen EXCEPT !.timer = FALSE, !.loading = @ \cup
                           (IF part = "customers" THEN {part} ELSE {})]
           /\ inflight' = Append(inflight, Load(screen, part))
    /\ UNCHANGED clicks /\ Aside

(* suspend and reactivate: the flag is the one tenant acted on last. *)
AdminTenantsPage ==
    /\ screen.page = "tenants" /\ Click
    /\ \E t \in Row("tenants") :
          /\ Flag("set", "tenants", t) \notin screen.busy
          /\ screen' = [screen EXCEPT !.busy = {Flag("set", "tenants", t)}]
          /\ inflight' = Append(inflight, Request("set", "tenants", t,
                             IF screen.held["tenants"][t] = "on" THEN "off" ELSE "on"))
    /\ Aside

SalonProfilePage == screen.page = "salon" /\ SaveWhole("salon")
BusinessHoursPage == screen.page = "hours" /\ SaveWhole("hours")

EmployeeForms ==
    /\ screen.page = "employee"
    /\ SaveWhole("profile") \/ SaveWhole("workingHours") \/ SaveWhole("assigned")

EmployeeTimeOff ==
    /\ screen.page = "employee"
    /\ CreateRow("timeOff") \/ DeleteRow("timeOff")

SettingsForms ==
    /\ screen.page = "settings"
    /\ SaveWhole("tenant") \/ SaveWhole("settings") \/ SaveWhole("ai")

Invitations ==
    /\ screen.page = "settings"
    /\ CreateRow("invitations") \/ DeleteRow("invitations")

(* The form is there while no account is, and the account stays once it is known. *)
WhatsAppConnection ==
    /\ screen.page = "settings" /\ Ready("whatsapp")
    /\ \/ Row("whatsapp") = {} /\ CreateRow("whatsapp")
       \/ \E t \in Row("whatsapp") : Press("set", "whatsapp", t, "off", FALSE)

SendTestMessage ==
    /\ screen.page = "settings" /\ Free("test", "ai")
    /\ Press("test", "ai", Nil, Nil, TRUE)

Ours == screen.held["subscription"]
Paying == Ours.status \in {"live", "ending"}

BillingControls ==
    /\ screen.page = "billing" /\ Can("subscription") /\ Ours # Nil
    /\ Ready("subscription")

SelectPlan ==
    /\ BillingControls /\ Ready("billingPlans") /\ screen.held["billingPlans"] # Nil
    /\ Free("changePlan", "subscription") /\ Free("checkout", "subscription")
    /\ Free("portal", "subscription")
    /\ \E t \in Things \ {Ours.plan} :
          Press(IF Paying THEN "changePlan" ELSE "checkout", "subscription", t, Nil, TRUE)

OpenCustomerPortal ==
    /\ BillingControls /\ Paying /\ Free("portal", "subscription")
    /\ Press("portal", "subscription", Nil, Nil, TRUE)

CancelSubscription ==
    /\ BillingControls /\ Ours.status \notin {"ending", "over"}
    /\ Free("cancelPlan", "subscription")
    /\ Press("cancelPlan", "subscription", Nil, Nil, TRUE)

ReactivateSubscription ==
    /\ BillingControls /\ Ours.status = "ending" /\ Free("resume", "subscription")
    /\ Press("resume", "subscription", Nil, Nil, TRUE)

InAThread == screen.page \in {"inbox", "thread"} /\ screen.sel \in Row("threads")

(* The first selection leads to the other route, and to a new component. *)
Select ==
    \E t \in IF screen.page \in {"inbox", "thread"} THEN Row("threads") ELSE {} :
        /\ Click
        /\ IF screen.page = "inbox"
           THEN Navigate(session, "thread", t, Append(inflight, Request("load", "messages", t, Nil)))
           ELSE LET s == [screen EXCEPT !.sel = t, !.loading = @ \cup {"messages"}]
                IN  screen' = s /\ inflight' = Append(inflight, Load(s, "messages"))
        /\ Aside

SetStatusFilter ==
    /\ screen.page \in {"inbox", "thread"} /\ Click
    /\ \E status \in {Nil, "ESCALATED"} :
          LET s == [screen EXCEPT !.filter = status, !.loading = @ \cup {"threads"}]
          IN  screen' = s /\ inflight' = Append(inflight, Load(s, "threads"))
    /\ Aside

SendMessage ==
    /\ InAThread /\ Free("send", "messages")
    /\ Press("send", "messages", screen.sel, Nil, TRUE)

UpdateStatus ==
    /\ InAThread
    /\ \E status \in {"RESOLVED", "OPEN"} \ {screen.held["threads"][screen.sel]} :
          Press("set", "threads", screen.sel, status, FALSE)

(* takeOver, unassign *)
Assign ==
    /\ InAThread /\ screen.held["threads"][screen.sel] \in {"ESCALATED", "TAKEN"}
    /\ Press("assign", "threads", screen.sel,
             IF screen.held["threads"][screen.sel] = "TAKEN" THEN "ESCALATED" ELSE "TAKEN", FALSE)

(* Faulty variant: what is loaded is the view the user comes from. *)
ShowDaysBefore ==
    /\ screen.page = "calendar" /\ Click
    /\ \E range \in {Days} \cup {{d} : d \in Days} :
          screen' = [screen EXCEPT !.filter = range, !.loading = {"visits"}]
    /\ inflight' = Append(inflight, Load(screen, "visits"))
    /\ Aside

(* setViewMode, goToToday, goPrevious, goNext *)
ShowDays ==
    /\ screen.page = "calendar" /\ Click
    /\ \E range \in {Days} \cup {{d} : d \in Days} :
          LET s == [screen EXCEPT !.filter = range, !.loading = {"visits"}]
          IN  screen' = s /\ inflight' = Append(inflight, Load(s, "visits"))
    /\ Aside

OnDrop ==
    /\ screen.page = "calendar" /\ Ready("visits")
    /\ \E t \in Things, d \in screen.filter :
          /\ screen.held["visits"][t].status = "live"
          /\ screen.held["visits"][t].day \in screen.filter \ {d}
          /\ Press("drop", "visits", t, d, FALSE)

(* Every action of the page is about the id it was created with. *)
AppointmentDetailPage ==
    /\ screen.page = "appointment" /\ Ready("visit")
    /\ screen.held["visit"] # NoVisit
    /\ \/ /\ screen.held["visit"].status = "live"
          /\ \/ Press("cancel", "visit", screen.id, Nil, FALSE)
             \/ Change([screen EXCEPT !.editing = screen.id])
       \/ /\ screen.editing # Nil
          /\ \E d \in Days : Press("move", "visit", screen.id, d, FALSE)
       \/ Can("profile") /\ Press("remove", "visit", screen.id, Nil, FALSE)

(* An emptied search clears the results, though a search may be under way. *)
FindCustomer ==
    /\ screen.page = "booking" /\ screen.sel = Nil
    /\ \/ \E term \in Things : Search(term)
       \/ Change([screen EXCEPT !.filter = Nil, !.timer = FALSE,
                    !.held["candidates"] = NoRows, !.hitch = @ \/ inflight # << >>])

SelectCustomer ==
    /\ screen.page = "booking"
    /\ IF screen.sel # Nil THEN Change([screen EXCEPT !.sel = Nil])
       ELSE \E t \in Row("candidates") :
              Change([screen EXCEPT !.sel = t, !.held["candidates"] = NoRows])

SubmitBooking ==
    /\ screen.page = "booking" /\ screen.sel # Nil /\ Free("book", "visits")
    /\ \E d \in Days : Press("book", "visits", screen.sel, d, TRUE)

Logout ==
    /\ screen.page \notin {"login", "stripe"}
    /\ Press("logout", "session", Nil, Nil, FALSE)

LoginPage ==
    /\ screen.page = "login" /\ Free("login", "login")
    /\ \E s \in Sessions : Press("login", "login", Nil, s, TRUE)

(* A link of the page, or a step back or forward in the history. *)
Open ==
    /\ screen.page # "stripe" /\ Click
    /\ \E p \in Pages :
          \E t \in IF p \in ById THEN Things ELSE {Nil} : Navigate(session, p, t, inflight)
    /\ Aside

User ==
    \/ ServicesListPage \/ ServiceCategoriesPage \/ HolidaysPage \/ EmployeesListPage
    \/ AdminPlansPage \/ CustomersListPage \/ SearchFires \/ AdminTenantsPage
    \/ SalonProfilePage \/ BusinessHoursPage \/ EmployeeForms \/ EmployeeTimeOff
    \/ SettingsForms \/ Invitations \/ WhatsAppConnection \/ SendTestMessage
    \/ SelectPlan \/ OpenCustomerPortal \/ CancelSubscription \/ ReactivateSubscription
    \/ Select \/ SetStatusFilter \/ SendMessage \/ UpdateStatus \/ Assign
    \/ ShowDays \/ OnDrop \/ AppointmentDetailPage
    \/ FindCustomer \/ SelectCustomer \/ SubmitBooking
    \/ Logout \/ LoginPage \/ Open

DashboardNext ==
    \/ User
    \/ \E i \in DOMAIN inflight :
          Serve(i) \/ AnswerArrives(i) \/ AnswerLeads(i) \/ Refused(i) \/ Lost(i) \/ Expired(i)

DashboardSpec == DashboardInit /\ [][DashboardNext]_dashboardVars

-----------------------------------------------------------------------------
(* Properties *)

(* The rows shown are the stored ones, and none that was asked for is missing. *)
RowsAgree(part) ==
    \A t \in Things :
        LET row == server.rows[part][t]
        IN  IF screen.held[part][t] = "none" THEN ~Matches(part, screen.filter, row, t)
            ELSE screen.held[part][t] = row

Agrees(part) ==
    LET held == screen.held[part]
    IN  CASE part \in Lists -> RowsAgree(part)
          [] part = "candidates" ->
               \A t \in Things : held[t] # "none" => screen.filter = t
          [] part = "visits" ->
               \A t \in Things :
                   LET visit == server.visits[t]
                   IN  /\ held[t].status = "live" => held[t] = visit
                       /\ visit.status = "live" /\ visit.day \in screen.filter => held[t] = visit
          [] part = "visit" ->
               server.visits[screen.id].status = "moved" \/ held = Stored(part, screen.id)
          [] part = "messages" /\ screen.page = "inbox" -> TRUE
          [] OTHER -> held = Stored(part, Criterion(screen, part))

(* Of everything a page shows: once nothing it asked is under way, it shows
   what is stored, for the conversation, the days or the term now chosen,
   unless an answer overtook one asked before, a load failed or the answer of
   a write was lost.  A page that the router keeps for another id goes on
   showing the one it was created for, as after a reschedule. *)
ScreenIsTrue ==
    (/\ \A i \in DOMAIN inflight : ~inflight[i].here
     /\ ~screen.hitch /\ ~screen.timer)
    => \A part \in DOMAIN screen.held : Agrees(part)

(* The initial values of a form overwrite what is stored only if its load has
   failed, never while it is under way, and only of the four forms that are
   shown all the same and whose initial values are not blank: the week of the
   business hours, the behaviour of the assistant, and the currency or locale
   of the salon's profile and of the tenant's.  Never of an employee's three
   forms, which stay hidden, nor of the raw settings, which are merged by key. *)
UnreadFormsAreKept ==
    {w \in Wholes : server.whole[w] = "default"}
        \subseteq failed \cap {"hours", "ai", "salon", "tenant"}

(* A control never waits for nothing: whatever fails, is refused, retried or
   answered out of order, a disabled button or a spinner has a request under
   way that will free it.  Two do not: the tenant whose suspension failed, and
   the login whose returnUrl is a page the user who signs in may not open. *)
ControlsAreFreed ==
    /\ \A f \in screen.busy :
          \/ \E i \in DOMAIN inflight : /\ inflight[i].here
                                        /\ inflight[i].op = f.op /\ inflight[i].part = f.part
          \/ screen.page = "tenants" /\ "suspend" \in failed
          \/ /\ screen.page = "login"
             /\ \E role \in Roles : ~RoleGuard([session EXCEPT !.user = role], screen.id)
    /\ \A part \in screen.loading :
          \E i \in DOMAIN inflight : /\ inflight[i].here /\ inflight[i].op = "load"
                                     /\ part \in Group(inflight[i].part)
=============================================================================
