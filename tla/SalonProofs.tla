------------------------------ MODULE SalonProofs ------------------------------
(***************************************************************************)
(* Salon for any number of requests, employees, services and dates: the    *)
(* type invariant, what only overlapping requests can hurt, the settings   *)
(* that a save must keep, and the slots that can be booked.                *)
(***************************************************************************)
EXTENDS Salon, FiniteSetTheorems, TLAPS

Answers == Replies \cup {None}
Shapes == {FirstCatalog[s] : s \in DOMAIN FirstCatalog}

Places ==
    {"idle", "count", "employee", "linkable", "services", "insert", "update", "delete",
     "assignable", "clearSkills", "skills", "clearHours", "hours", "leave", "findLeave",
     "removeLeave", "week", "holiday", "date", "setDate", "removeHoliday", "service",
     "category", "saveService", "removeService", "phone", "newCustomer", "conflict",
     "customer", "removeCustomer", "settings", "merge", "done"}

Request ==
    [kind: AllKinds \cup {None},
     target: Staff \cup Services \cup Customers \cup Categories \cup {None},
     user: Users \cup {None}, unlink: BOOLEAN, active: BOOLEAN,
     services: {None} \cup SUBSET Services,
     plan: SUBSET Entries, dates: SUBSET (Dates \cup Requests),
     week: BusinessWeeks \cup {None}, phone: Phones \cup {None}, keys: SUBSET Keys,
     category: Categories \cup {None}, shape: Shapes \cup {None}, answer: Answers]

CreatesService == {"createService", "updateService"}
OnHoliday == {"addHoliday", "moveHoliday"}
NewClient == {"createCustomer", "message"}
OnStaff == {"updateEmployee", "deleteEmployee", "assign", "hours", "addLeave", "removeLeave"}

(* What a request of each kind carries, and the rows its path names. *)
Carries(r, q) ==
    /\ q.kind \in {"createEmployee", "addHoliday", "createService"} \cup NewClient => q.target = r
    /\ q.kind \in OnStaff => q.target \in Staff /\ employee[q.target].state # "none"
    /\ q.kind \in {"createEmployee", "assign"} => q.services \in SUBSET Services
    /\ q.kind = "addLeave" => q.dates \in SUBSET Dates
    /\ q.kind = "removeLeave" => \E l \in Requests : q.dates = {l}
    /\ q.kind = "business" => q.week \in BusinessWeeks
    /\ q.kind \in OnHoliday => \E d \in Dates : q.dates = {d}
    /\ q.kind \in {"moveHoliday", "removeHoliday"} => q.target \in Requests
    /\ q.kind \in CreatesService => q.shape \in Shapes
    /\ q.kind \in {"updateService", "deleteService"} => q.target \in Services
    /\ q.kind = "deleteCategory" => q.target \in Categories
    /\ q.kind \in NewClient => q.phone \in Phones
    /\ q.kind = "deleteCustomer" => q.target \in Customers

(* The kinds of request that come to a statement. *)
Fits(place, k) ==
    /\ place \in {"count", "services", "insert"} => k = "createEmployee"
    /\ place = "employee" => k \in OnStaff
    /\ place = "linkable" => k \in {"createEmployee", "updateEmployee"}
    /\ place = "update" => k = "updateEmployee"
    /\ place = "delete" => k = "deleteEmployee"
    /\ place \in {"assignable", "clearSkills", "skills"} =>
           k \in {"createEmployee", "updateEmployee", "assign"}
    /\ place \in {"clearHours", "hours"} => k = "hours"
    /\ place = "leave" => k = "addLeave"
    /\ place \in {"findLeave", "removeLeave"} => k = "removeLeave"
    /\ place = "week" => k = "business"
    /\ place \in {"date", "setDate"} => k \in OnHoliday
    /\ place = "holiday" => k \in {"moveHoliday", "removeHoliday"}
    /\ place = "removeHoliday" => k = "removeHoliday"
    /\ place \in {"category", "saveService"} => k \in CreatesService
    /\ place = "service" => k \in {"updateService", "deleteService", "deleteCategory"}
    /\ place = "removeService" => k \in {"deleteService", "deleteCategory"}
    /\ place \in {"phone", "newCustomer", "conflict"} => k \in NewClient
    /\ place \in {"customer", "removeCustomer"} => k = "deleteCustomer"
    /\ place \in {"settings", "merge"} => k = "settings"

Placed(r) ==
    /\ at[r] = "idle" => req[r] = Idle
    /\ at[r] # "idle" => req[r].kind \in Kinds[r]
    /\ at[r] # "done" => req[r].answer = None
    /\ Fits(at[r], req[r].kind)

Local ==
    /\ at \in [Requests -> Places] /\ req \in [Requests -> Request]
    /\ \A r \in Requests : Placed(r) /\ Carries(r, req[r])

Skill == [employee: Staff, service: Services, by: Requests \cup {None}]
Shift == [employee: Staff, entry: Entries, by: Requests \cup {None}]

(* What a request has read. *)
HasRead(r) ==
    at[r] = "merge" =>
        \E f \in [Keys -> Requests \cup {None}] :
            seen[r] = {[key |-> k, value |-> f[k]] : k \in Keys}

(* Who replaces the services of an employee has a list of them. *)
Listed(r) ==
    at[r] \in {"assignable", "clearSkills", "skills"} => req[r].services \in SUBSET Services

TypeInv ==
    /\ TypeOK /\ Local
    /\ DOMAIN seen = Requests /\ seen = [r \in Requests |-> seen[r]]
    /\ \A r \in Requests : HasRead(r)
    /\ \A r \in Requests : Listed(r)

-----------------------------------------------------------------------------
(* Sending a request *)

Meeting(r) ==
    met' = [o \in Requests |-> CASE o = r -> Busy
                                 [] o \in Busy -> met[o] \cup {r}
                                 [] OTHER -> met[o]]

First == {"count", "employee", "week", "date", "holiday", "category", "service", "phone",
          "customer", "settings"}

Sends(r) ==
    /\ at[r] = "idle" /\ at'[r] \in First
    /\ at' = [at EXCEPT ![r] = at'[r]] /\ req' = [req EXCEPT ![r] = req'[r]]
    /\ req'[r] \in Request /\ req'[r].answer = None
    /\ Placed(r)' /\ Carries(r, req'[r])
    /\ Meeting(r) /\ UNCHANGED <<rows, seen>>

Sending(r) ==
    \/ SendCreateEmployee(r)
    \/ \E e \in Staff :
           /\ employee[e].state # "none"
           /\ \/ SendUpdateEmployee(r, e) \/ SendDeleteEmployee(r, e)
              \/ SendAssign(r, e) \/ SendHours(r, e) \/ SendLeave(r, e)
    \/ SendBusinessHours(r) \/ SendHoliday(r) \/ SendService(r) \/ SendDeleteService(r)
    \/ SendDeleteCategory(r) \/ SendSettings(r) \/ SendAiBehavior(r) \/ SendCustomer(r)

LEMMA IdleIsRequest == Idle \in Request /\ Idle.answer = None
BY DEF Idle, Request, Answers, Replies

LEMMA SendIt ==
    ASSUME TypeInv, NEW r \in Requests, NEW q \in Request, NEW where \in First,
           Send(r, q, where), q.answer = None, Carries(r, q), Fits(where, q.kind)
    PROVE  Sends(r)
<1>1. req'[r] = q /\ at'[r] = where /\ at[r] = "idle"
  BY DEF Send, Goto, TypeInv, Local
<1>2. q.kind \in Kinds[r]
  BY DEF Send
<1>3. Placed(r)'
  BY <1>1, <1>2 DEF Placed, First
<1> QED BY <1>1, <1>3 DEF Send, Goto, Sends, Meeting, TypeInv, Local

LEMMA SendMoves ==
    ASSUME TypeInv, NEW r \in Requests, Sending(r)
    PROVE  Sends(r)
<1>1. CASE SendCreateEmployee(r)
  <2>1. PICK u \in Users \cup {None}, some \in SUBSET Catalog :
            Send(r, [Asks("createEmployee", r) EXCEPT !.user = u, !.services = some], "count")
    BY <1>1 DEF SendCreateEmployee
  <2>2. PICK q : q = [Asks("createEmployee", r) EXCEPT !.user = u, !.services = some]
    OBVIOUS
  <2>3. q \in Request
    BY <2>2, SalonAssumption DEF Asks, Idle, Request, AllKinds, Answers, Replies, Catalog, Staff
  <2>4. Carries(r, q)
    BY <2>2, SalonAssumption DEF Asks, Idle, Carries, Fits, First, OnStaff, OnHoliday,
       NewClient, CreatesService, Catalog, Shapes
  <2>5. Fits("count", q.kind) /\ q.answer = None /\ "count" \in First
    BY <2>2, SalonAssumption DEF Asks, Idle, Carries, Fits, First, OnStaff, OnHoliday,
       NewClient, CreatesService
  <2> QED BY <2>1, <2>2, <2>3, <2>4, <2>5, SendIt
<1>2. ASSUME NEW e \in Staff, employee[e].state # "none", SendUpdateEmployee(r, e) PROVE Sends(r)
  <2>1. PICK u \in Users \cup {None}, null \in BOOLEAN, a \in BOOLEAN, some \in {None} \cup SUBSET Catalog :
            Send(r, [Asks("updateEmployee", e) EXCEPT
                         !.user = u, !.unlink = null, !.active = a, !.services = some], "employee")
    BY <1>2 DEF SendUpdateEmployee
  <2>2. PICK q : q = [Asks("updateEmployee", e) EXCEPT
                         !.user = u, !.unlink = null, !.active = a, !.services = some]
    OBVIOUS
  <2>3. q \in Request
    <3>1. some \in {None} \cup SUBSET Services /\ e \in Staff
      BY <1>2 DEF Catalog
    <3>2. q = [kind |-> "updateEmployee", target |-> e, user |-> u, unlink |-> null, active |-> a,
               services |-> some, plan |-> {}, dates |-> {}, week |-> None, phone |-> None,
               keys |-> {}, category |-> None, shape |-> None, answer |-> None]
      BY <2>2 DEF Asks, Idle
    <3> QED BY <3>1, <3>2 DEF Request, AllKinds, Answers
  <2>4. Carries(r, q)
    BY <1>2, <2>2, SalonAssumption DEF Asks, Idle, Carries, Fits, First, OnStaff, OnHoliday,
       NewClient, CreatesService, Catalog, Shapes
  <2>5. Fits("employee", q.kind) /\ q.answer = None /\ "employee" \in First
    BY <1>2, <2>2, SalonAssumption DEF Asks, Idle, Carries, Fits, First, OnStaff, OnHoliday,
       NewClient, CreatesService
  <2> QED BY <2>1, <2>2, <2>3, <2>4, <2>5, SendIt
<1>3. ASSUME NEW e \in Staff, employee[e].state # "none", SendDeleteEmployee(r, e) PROVE Sends(r)
  <2>1. Send(r, Asks("deleteEmployee", e), "employee")
    BY <1>3 DEF SendDeleteEmployee
  <2>2. PICK q : q = Asks("deleteEmployee", e)
    OBVIOUS
  <2>3. q \in Request
    BY <1>3, <2>2, SalonAssumption DEF Asks, Idle, Request, AllKinds, Answers, Replies,
       Catalog, Staff
  <2>4. Carries(r, q)
    BY <1>3, <2>2, SalonAssumption DEF Asks, Idle, Carries, Fits, First, OnStaff, OnHoliday,
       NewClient, CreatesService, Catalog, Shapes
  <2>5. Fits("employee", q.kind) /\ q.answer = None /\ "employee" \in First
    BY <1>3, <2>2, SalonAssumption DEF Asks, Idle, Carries, Fits, First, OnStaff, OnHoliday,
       NewClient, CreatesService
  <2> QED BY <2>1, <2>2, <2>3, <2>4, <2>5, SendIt
<1>4. ASSUME NEW e \in Staff, employee[e].state # "none", SendAssign(r, e) PROVE Sends(r)
  <2>1. PICK some \in SUBSET Catalog :
            Send(r, [Asks("assign", e) EXCEPT !.services = some], "employee")
    BY <1>4 DEF SendAssign
  <2>2. PICK q : q = [Asks("assign", e) EXCEPT !.services = some]
    OBVIOUS
  <2>3. q \in Request
    BY <1>4, <2>2, SalonAssumption DEF Asks, Idle, Request, AllKinds, Answers, Replies,
       Catalog, Staff
  <2>4. Carries(r, q)
    BY <1>4, <2>2, SalonAssumption DEF Asks, Idle, Carries, Fits, First, OnStaff, OnHoliday,
       NewClient, CreatesService, Catalog, Shapes
  <2>5. Fits("employee", q.kind) /\ q.answer = None /\ "employee" \in First
    BY <1>4, <2>2, SalonAssumption DEF Asks, Idle, Carries, Fits, First, OnStaff, OnHoliday,
       NewClient, CreatesService
  <2> QED BY <2>1, <2>2, <2>3, <2>4, <2>5, SendIt
<1>5. ASSUME NEW e \in Staff, employee[e].state # "none", SendHours(r, e) PROVE Sends(r)
  <2>1. PICK plan \in WeekPlans :
            Send(r, [Asks("hours", e) EXCEPT !.plan = plan], "employee")
    BY <1>5 DEF SendHours
  <2>2. PICK q : q = [Asks("hours", e) EXCEPT !.plan = plan]
    OBVIOUS
  <2>3. q \in Request
    BY <1>5, <2>2, SalonAssumption DEF Asks, Idle, Request, AllKinds, Answers, Replies,
       Catalog, Staff
  <2>4. Carries(r, q)
    BY <1>5, <2>2, SalonAssumption DEF Asks, Idle, Carries, Fits, First, OnStaff, OnHoliday,
       NewClient, CreatesService, Catalog, Shapes
  <2>5. Fits("employee", q.kind) /\ q.answer = None /\ "employee" \in First
    BY <1>5, <2>2, SalonAssumption DEF Asks, Idle, Carries, Fits, First, OnStaff, OnHoliday,
       NewClient, CreatesService
  <2> QED BY <2>1, <2>2, <2>3, <2>4, <2>5, SendIt
<1>6. CASE SendBusinessHours(r)
  <2>1. PICK week \in BusinessWeeks :
            Send(r, [Asks("business", None) EXCEPT !.week = week], "week")
    BY <1>6 DEF SendBusinessHours
  <2>2. PICK q : q = [Asks("business", None) EXCEPT !.week = week]
    OBVIOUS
  <2>3. q \in Request
    BY <2>2, SalonAssumption DEF Asks, Idle, Request, AllKinds, Answers, Replies, Catalog, Staff
  <2>4. Carries(r, q)
    BY <2>2, SalonAssumption DEF Asks, Idle, Carries, Fits, First, OnStaff, OnHoliday,
       NewClient, CreatesService, Catalog, Shapes
  <2>5. Fits("week", q.kind) /\ q.answer = None /\ "week" \in First
    BY <2>2, SalonAssumption DEF Asks, Idle, Carries, Fits, First, OnStaff, OnHoliday,
       NewClient, CreatesService
  <2> QED BY <2>1, <2>2, <2>3, <2>4, <2>5, SendIt
<1>7. CASE SendDeleteService(r)
  <2>1. PICK s \in Catalog :
            Send(r, Asks("deleteService", s), "service")
    BY <1>7 DEF SendDeleteService
  <2>2. PICK q : q = Asks("deleteService", s)
    OBVIOUS
  <2>3. q \in Request
    BY <2>2, SalonAssumption DEF Asks, Idle, Request, AllKinds, Answers, Replies, Catalog, Staff
  <2>4. Carries(r, q)
    BY <2>2, SalonAssumption DEF Asks, Idle, Carries, Fits, First, OnStaff, OnHoliday,
       NewClient, CreatesService, Catalog, Shapes
  <2>5. Fits("service", q.kind) /\ q.answer = None /\ "service" \in First
    BY <2>2, SalonAssumption DEF Asks, Idle, Carries, Fits, First, OnStaff, OnHoliday,
       NewClient, CreatesService
  <2> QED BY <2>1, <2>2, <2>3, <2>4, <2>5, SendIt
<1>8. CASE SendDeleteCategory(r)
  <2>1. PICK c \in Categories :
            Send(r, Asks("deleteCategory", c), "service")
    BY <1>8 DEF SendDeleteCategory
  <2>2. PICK q : q = Asks("deleteCategory", c)
    OBVIOUS
  <2>3. q \in Request
    BY <2>2, SalonAssumption DEF Asks, Idle, Request, AllKinds, Answers, Replies, Catalog, Staff
  <2>4. Carries(r, q)
    BY <2>2, SalonAssumption DEF Asks, Idle, Carries, Fits, First, OnStaff, OnHoliday,
       NewClient, CreatesService, Catalog, Shapes
  <2>5. Fits("service", q.kind) /\ q.answer = None /\ "service" \in First
    BY <2>2, SalonAssumption DEF Asks, Idle, Carries, Fits, First, OnStaff, OnHoliday,
       NewClient, CreatesService
  <2> QED BY <2>1, <2>2, <2>3, <2>4, <2>5, SendIt
<1>9. CASE SendSettings(r)
  <2>1. Send(r, [Asks("settings", None) EXCEPT !.keys = RawForm], "settings")
    BY <1>9 DEF SendSettings
  <2>2. PICK q : q = [Asks("settings", None) EXCEPT !.keys = RawForm]
    OBVIOUS
  <2>3. q \in Request
    BY <2>2, SalonAssumption DEF Asks, Idle, Request, AllKinds, Answers, Replies, Catalog, Staff
  <2>4. Carries(r, q)
    BY <2>2, SalonAssumption DEF Asks, Idle, Carries, Fits, First, OnStaff, OnHoliday,
       NewClient, CreatesService, Catalog, Shapes
  <2>5. Fits("settings", q.kind) /\ q.answer = None /\ "settings" \in First
    BY <2>2, SalonAssumption DEF Asks, Idle, Carries, Fits, First, OnStaff, OnHoliday,
       NewClient, CreatesService
  <2> QED BY <2>1, <2>2, <2>3, <2>4, <2>5, SendIt
<1>10. CASE SendAiBehavior(r)
  <2>1. Send(r, [Asks("settings", None) EXCEPT !.keys = AiForm], "settings")
    BY <1>10 DEF SendAiBehavior
  <2>2. PICK q : q = [Asks("settings", None) EXCEPT !.keys = AiForm]
    OBVIOUS
  <2>3. q \in Request
    BY <2>2, SalonAssumption DEF Asks, Idle, Request, AllKinds, Answers, Replies, Catalog, Staff
  <2>4. Carries(r, q)
    BY <2>2, SalonAssumption DEF Asks, Idle, Carries, Fits, First, OnStaff, OnHoliday,
       NewClient, CreatesService, Catalog, Shapes
  <2>5. Fits("settings", q.kind) /\ q.answer = None /\ "settings" \in First
    BY <2>2, SalonAssumption DEF Asks, Idle, Carries, Fits, First, OnStaff, OnHoliday,
       NewClient, CreatesService
  <2> QED BY <2>1, <2>2, <2>3, <2>4, <2>5, SendIt
<1>11. ASSUME NEW e \in Staff, employee[e].state # "none", SendLeave(r, e) PROVE Sends(r)
  <2>1. ASSUME NEW from \in Dates, NEW to \in Dates,
               Send(r, [Asks("addLeave", e) EXCEPT !.dates = from .. to], "employee")
        PROVE  Sends(r)
    <3>1. PICK q : q = [Asks("addLeave", e) EXCEPT !.dates = from .. to]
      OBVIOUS
    <3>2. q \in Request
      BY <1>11, <3>1, SalonAssumption DEF Asks, Idle, Request, AllKinds, Answers, Replies,
         Catalog, Staff
    <3>3. Carries(r, q)
      BY <1>11, <3>1, SalonAssumption DEF Asks, Idle, Carries, Fits, First, OnStaff,
         OnHoliday, NewClient, CreatesService, Catalog, Shapes
    <3>4. Fits("employee", q.kind) /\ q.answer = None /\ "employee" \in First
      BY <1>11, <3>1, SalonAssumption DEF Asks, Idle, Carries, Fits, First, OnStaff,
         OnHoliday, NewClient, CreatesService
    <3> QED BY <2>1, <3>1, <3>2, <3>3, <3>4, SendIt
  <2>2. ASSUME NEW l \in Requests,
               Send(r, [Asks("removeLeave", e) EXCEPT !.dates = {l}], "employee")
        PROVE  Sends(r)
    <3>1. PICK q : q = [Asks("removeLeave", e) EXCEPT !.dates = {l}]
      OBVIOUS
    <3>2. q \in Request
      <4>1. {l} \in SUBSET (Dates \cup Requests)
        OBVIOUS
      <4> QED BY <1>11, <3>1, <4>1, SalonAssumption
        DEF Asks, Idle, Request, AllKinds, Answers, Replies
    <3>3. Carries(r, q)
      BY <1>11, <3>1, SalonAssumption DEF Asks, Idle, Carries, Fits, First, OnStaff,
         OnHoliday, NewClient, CreatesService, Catalog, Shapes
    <3>4. Fits("employee", q.kind) /\ q.answer = None /\ "employee" \in First
      BY <1>11, <3>1, SalonAssumption DEF Asks, Idle, Carries, Fits, First, OnStaff,
         OnHoliday, NewClient, CreatesService
    <3> QED BY <2>2, <3>1, <3>2, <3>3, <3>4, SendIt
  <2> QED BY <1>11, <2>1, <2>2 DEF SendLeave, Shapes
<1>12. CASE SendHoliday(r)
  <2>1. ASSUME NEW d \in Dates,
               Send(r, [Asks("addHoliday", r) EXCEPT !.dates = {d}], "date")
        PROVE  Sends(r)
    <3>1. PICK q : q = [Asks("addHoliday", r) EXCEPT !.dates = {d}]
      OBVIOUS
    <3>2. q \in Request
      <4>1. {d} \in SUBSET (Dates \cup Requests)
        OBVIOUS
      <4> QED BY <3>1, <4>1 DEF Asks, Idle, Request, AllKinds, Answers, Replies, Staff, Customers
    <3>3. Carries(r, q)
      BY <3>1, SalonAssumption DEF Asks, Idle, Carries, Fits, First, OnStaff, OnHoliday,
         NewClient, CreatesService, Catalog, Shapes
    <3>4. Fits("date", q.kind) /\ q.answer = None /\ "date" \in First
      BY <3>1, SalonAssumption DEF Asks, Idle, Carries, Fits, First, OnStaff, OnHoliday,
         NewClient, CreatesService
    <3> QED BY <2>1, <3>1, <3>2, <3>3, <3>4, SendIt
  <2>2. ASSUME NEW h \in Requests, NEW d \in Dates,
               Send(r, [Asks("moveHoliday", h) EXCEPT !.dates = {d}], "holiday")
        PROVE  Sends(r)
    <3>1. PICK q : q = [Asks("moveHoliday", h) EXCEPT !.dates = {d}]
      OBVIOUS
    <3>2. q \in Request
      <4>1. {d} \in SUBSET (Dates \cup Requests)
        OBVIOUS
      <4> QED BY <3>1, <4>1 DEF Asks, Idle, Request, AllKinds, Answers, Replies, Staff, Customers
    <3>3. Carries(r, q)
      BY <3>1, SalonAssumption DEF Asks, Idle, Carries, Fits, First, OnStaff, OnHoliday,
         NewClient, CreatesService, Catalog, Shapes
    <3>4. Fits("holiday", q.kind) /\ q.answer = None /\ "holiday" \in First
      BY <3>1, SalonAssumption DEF Asks, Idle, Carries, Fits, First, OnStaff, OnHoliday,
         NewClient, CreatesService
    <3> QED BY <2>2, <3>1, <3>2, <3>3, <3>4, SendIt
  <2>3. ASSUME NEW h \in Requests,
               Send(r, Asks("removeHoliday", h), "holiday")
        PROVE  Sends(r)
    <3>1. PICK q : q = Asks("removeHoliday", h)
      OBVIOUS
    <3>2. q \in Request
      BY <3>1, SalonAssumption DEF Asks, Idle, Request, AllKinds, Answers, Replies, Catalog, Staff
    <3>3. Carries(r, q)
      BY <3>1, SalonAssumption DEF Asks, Idle, Carries, Fits, First, OnStaff, OnHoliday,
         NewClient, CreatesService, Catalog, Shapes
    <3>4. Fits("holiday", q.kind) /\ q.answer = None /\ "holiday" \in First
      BY <3>1, SalonAssumption DEF Asks, Idle, Carries, Fits, First, OnStaff, OnHoliday,
         NewClient, CreatesService
    <3> QED BY <2>3, <3>1, <3>2, <3>3, <3>4, SendIt
  <2> QED BY <1>12, <2>1, <2>2, <2>3 DEF SendHoliday, Shapes
<1>13. CASE SendService(r)
  <2>1. ASSUME NEW c \in Categories \cup {None}, NEW shape \in Shapes,
               Send(r, [Asks("createService", r) EXCEPT !.category = c, !.shape = shape], "category")
        PROVE  Sends(r)
    <3>1. PICK q : q = [Asks("createService", r) EXCEPT !.category = c, !.shape = shape]
      OBVIOUS
    <3>2. q \in Request
      BY <3>1, SalonAssumption DEF Asks, Idle, Request, AllKinds, Answers, Replies, Catalog, Staff
    <3>3. Carries(r, q)
      BY <3>1, SalonAssumption DEF Asks, Idle, Carries, Fits, First, OnStaff, OnHoliday,
         NewClient, CreatesService, Catalog, Shapes
    <3>4. Fits("category", q.kind) /\ q.answer = None /\ "category" \in First
      BY <3>1, SalonAssumption DEF Asks, Idle, Carries, Fits, First, OnStaff, OnHoliday,
         NewClient, CreatesService
    <3> QED BY <2>1, <3>1, <3>2, <3>3, <3>4, SendIt
  <2>2. ASSUME NEW c \in Categories \cup {None}, NEW shape \in Shapes, NEW s \in Catalog,
               Send(r, [Asks("updateService", s) EXCEPT !.category = c, !.shape = shape], "service")
        PROVE  Sends(r)
    <3>1. PICK q : q = [Asks("updateService", s) EXCEPT !.category = c, !.shape = shape]
      OBVIOUS
    <3>2. q \in Request
      BY <3>1, SalonAssumption DEF Asks, Idle, Request, AllKinds, Answers, Replies, Catalog, Staff
    <3>3. Carries(r, q)
      BY <3>1, SalonAssumption DEF Asks, Idle, Carries, Fits, First, OnStaff, OnHoliday,
         NewClient, CreatesService, Catalog, Shapes
    <3>4. Fits("service", q.kind) /\ q.answer = None /\ "service" \in First
      BY <3>1, SalonAssumption DEF Asks, Idle, Carries, Fits, First, OnStaff, OnHoliday,
         NewClient, CreatesService
    <3> QED BY <2>2, <3>1, <3>2, <3>3, <3>4, SendIt
  <2> QED BY <1>13, <2>1, <2>2 DEF SendService, Shapes
<1>14. CASE SendCustomer(r)
  <2>1. ASSUME NEW k \in {"createCustomer", "message"}, NEW p \in Phones,
               Send(r, [Asks(k, r) EXCEPT !.phone = p], "phone")
        PROVE  Sends(r)
    <3>1. PICK q : q = [Asks(k, r) EXCEPT !.phone = p]
      OBVIOUS
    <3>2. q \in Request
      BY <3>1, SalonAssumption DEF Asks, Idle, Request, AllKinds, Answers, Replies, Catalog, Staff
    <3>3. Carries(r, q)
      BY <3>1, SalonAssumption DEF Asks, Idle, Carries, Fits, First, OnStaff, OnHoliday,
         NewClient, CreatesService, Catalog, Shapes
    <3>4. Fits("phone", q.kind) /\ q.answer = None /\ "phone" \in First
      BY <3>1, SalonAssumption DEF Asks, Idle, Carries, Fits, First, OnStaff, OnHoliday,
         NewClient, CreatesService
    <3> QED BY <2>1, <3>1, <3>2, <3>3, <3>4, SendIt
  <2>2. ASSUME NEW c \in Customers,
               Send(r, Asks("deleteCustomer", c), "customer")
        PROVE  Sends(r)
    <3>1. PICK q : q = Asks("deleteCustomer", c)
      OBVIOUS
    <3>2. q \in Request
      BY <3>1, SalonAssumption DEF Asks, Idle, Request, AllKinds, Answers, Replies, Catalog, Staff
    <3>3. Carries(r, q)
      BY <3>1, SalonAssumption DEF Asks, Idle, Carries, Fits, First, OnStaff, OnHoliday,
         NewClient, CreatesService, Catalog, Shapes
    <3>4. Fits("customer", q.kind) /\ q.answer = None /\ "customer" \in First
      BY <3>1, SalonAssumption DEF Asks, Idle, Carries, Fits, First, OnStaff, OnHoliday,
         NewClient, CreatesService
    <3> QED BY <2>2, <3>1, <3>2, <3>3, <3>4, SendIt
  <2> QED BY <1>14, <2>1, <2>2 DEF SendCustomer, Shapes
<1> QED BY <1>1, <1>2, <1>3, <1>4, <1>5, <1>6, <1>7, <1>8, <1>9, <1>10, <1>11, <1>12, <1>13,
  <1>14 DEF Sending

-----------------------------------------------------------------------------
(* The statements of a request under way *)

Statement(r) ==
    \/ CountStaff(r) \/ FindEmployee(r) \/ CheckUserLinkable(r) \/ ValidateServices(r)
    \/ InsertEmployee(r) \/ UpdateEmployee(r) \/ DeleteEmployee(r) \/ ValidateAssigned(r)
    \/ ClearSkills(r) \/ ReplaceSkills(r) \/ ClearHours(r) \/ ReplaceHours(r)
    \/ CreateTimeOff(r) \/ FindTimeOff(r) \/ DeleteTimeOff(r) \/ ReplaceBusinessHours(r)
    \/ FindHoliday(r) \/ CheckDate(r) \/ SetDate(r) \/ DeleteHoliday(r)
    \/ FindService(r) \/ CheckCategory(r) \/ SaveService(r) \/ DeleteService(r)
    \/ ReadSettings(r) \/ UpdateCategories(r)
    \/ FindByPhone(r) \/ CreateCustomer(r) \/ FindConflicting(r)
    \/ FindCustomer(r) \/ DeleteCustomer(r) \/ HandlerFails(r)

LEMMA StepCases ==
    ASSUME Next
    PROVE  \E r \in Requests : Sending(r) \/ Statement(r)
BY DEF Next, Team, House, Clients, Sending, Statement

(* What a statement does to its own request. *)
Works(r) ==
    /\ at[r] \notin {"idle", "done"} /\ at'[r] \in Places \ {"idle"}
    /\ at' = [at EXCEPT ![r] = at'[r]]
    /\ \E a \in Answers : req' = [req EXCEPT ![r].answer = a] /\ (at'[r] # "done" => a = None)
    /\ Fits(at'[r], req[r].kind)
    /\ met' = met

Moves(r, where) ==
    \/ Goto(r, where) /\ req' = req
    \/ \E a \in Answers : Reply(r, a)

LEMMA ReplyIt ==
    ASSUME TypeInv, NEW r \in Requests, at[r] \notin {"idle", "done"}, met' = met,
           NEW a \in Answers, Reply(r, a)
    PROVE  Works(r)
<1>1. at'[r] = "done" /\ at' = [at EXCEPT ![r] = "done"] /\ req' = [req EXCEPT ![r].answer = a]
  BY DEF Reply, Goto, TypeInv, Local
<1>2. Fits("done", req[r].kind)
  BY DEF Fits
<1> QED BY <1>1, <1>2 DEF Works, Places

LEMMA MoveIt ==
    ASSUME TypeInv, NEW r \in Requests, at[r] \notin {"idle", "done"}, met' = met,
           NEW where \in Places \ {"idle", "done"}, Fits(where, req[r].kind), Moves(r, where)
    PROVE  Works(r)
<1>1. CASE Goto(r, where) /\ req' = req
  <2>1. at'[r] = where /\ at' = [at EXCEPT ![r] = where]
    BY <1>1 DEF Goto, TypeInv, Local
  <2>2. req[r] \in Request /\ req[r].answer = None
    BY DEF TypeInv, Local, Placed
  <2>3. req' = [req EXCEPT ![r].answer = None]
    BY <1>1, <2>2 DEF TypeInv, Local, Request
  <2> QED BY <2>1, <2>3 DEF Works, Answers, Replies
<1>2. ASSUME NEW a \in Answers, Reply(r, a) PROVE Works(r)
  BY <1>2, ReplyIt
<1> QED BY <1>1, <1>2 DEF Moves

LEMMA StatementWorks ==
    ASSUME TypeInv, NEW r \in Requests, Statement(r)
    PROVE  Works(r)
<1>0. Fits(at[r], req[r].kind) /\ req[r].kind \in AllKinds \cup {None}
  BY DEF TypeInv, Local, Placed, Request
<1>1. CASE CountStaff(r)
  <2>1. at[r] \notin {"idle", "done"} /\ met' = met /\ Moves(r, "linkable")
    BY <1>1 DEF CountStaff, Proceed, Moves, Answers, Replies
  <2>2. Fits("linkable", req[r].kind) /\ "linkable" \in Places \ {"idle", "done"}
    BY <1>0, <1>1 DEF CountStaff, Fits, Places, OnStaff, OnHoliday, NewClient, CreatesService
  <2> QED BY <2>1, <2>2, MoveIt
<1>2. CASE FindEmployee(r)
  <2>1. at[r] \notin {"idle", "done"} /\ met' = met
    BY <1>2 DEF FindEmployee
  <2>2. PICK where \in {"linkable", "delete", "assignable", "clearHours", "leave", "findLeave"} :
           Moves(r, where) /\ Fits(where, req[r].kind)
    BY <1>0, <1>2 DEF FindEmployee, Proceed, Moves, Answers, Replies, Fits, Kind, OnStaff,
       OnHoliday, NewClient, CreatesService
  <2> QED BY <2>1, <2>2, MoveIt DEF Places
<1>3. CASE CheckUserLinkable(r)
  <2>1. at[r] \notin {"idle", "done"} /\ met' = met
    BY <1>3 DEF CheckUserLinkable
  <2>2. PICK where \in {"services", "update"} : Moves(r, where) /\ Fits(where, req[r].kind)
    BY <1>0, <1>3 DEF CheckUserLinkable, Proceed, Moves, Answers, Replies, Fits, Kind,
       OnStaff, OnHoliday, NewClient, CreatesService
  <2> QED BY <2>1, <2>2, MoveIt DEF Places
<1>4. CASE ValidateServices(r)
  <2>1. at[r] \notin {"idle", "done"} /\ met' = met /\ Moves(r, "insert")
    BY <1>4 DEF ValidateServices, Proceed, Moves, Answers, Replies
  <2>2. Fits("insert", req[r].kind) /\ "insert" \in Places \ {"idle", "done"}
    BY <1>0, <1>4 DEF ValidateServices, Fits, Places, OnStaff, OnHoliday, NewClient, CreatesService
  <2> QED BY <2>1, <2>2, MoveIt
<1>5. CASE InsertEmployee(r)
  <2>1. at[r] \notin {"idle", "done"} /\ met' = met /\ Moves(r, "assignable")
    BY <1>5 DEF InsertEmployee, Proceed, Moves, Answers, Replies
  <2>2. Fits("assignable", req[r].kind) /\ "assignable" \in Places \ {"idle", "done"}
    BY <1>0, <1>5 DEF InsertEmployee, Fits, Places, OnStaff, OnHoliday, NewClient, CreatesService
  <2> QED BY <2>1, <2>2, MoveIt
<1>6. CASE UpdateEmployee(r)
  <2>1. at[r] \notin {"idle", "done"} /\ met' = met /\ Moves(r, "assignable")
    BY <1>6 DEF UpdateEmployee, Moves, Answers, Replies
  <2>2. Fits("assignable", req[r].kind) /\ "assignable" \in Places \ {"idle", "done"}
    BY <1>0, <1>6 DEF UpdateEmployee, Fits, Places, OnStaff, OnHoliday, NewClient, CreatesService
  <2> QED BY <2>1, <2>2, MoveIt
<1>7. CASE DeleteEmployee(r)
  <2>1. at[r] \notin {"idle", "done"} /\ met' = met /\ \E a \in Answers : Reply(r, a)
    BY <1>7 DEF DeleteEmployee, Answers, Replies
  <2> QED BY <2>1, ReplyIt
<1>8. CASE ValidateAssigned(r)
  <2>1. at[r] \notin {"idle", "done"} /\ met' = met /\ Moves(r, "clearSkills")
    BY <1>8 DEF ValidateAssigned, Proceed, Moves, Answers, Replies
  <2>2. Fits("clearSkills", req[r].kind) /\ "clearSkills" \in Places \ {"idle", "done"}
    BY <1>0, <1>8 DEF ValidateAssigned, Fits, Places, OnStaff, OnHoliday, NewClient, CreatesService
  <2> QED BY <2>1, <2>2, MoveIt
<1>9. CASE ClearSkills(r)
  <2>1. at[r] \notin {"idle", "done"} /\ met' = met /\ Moves(r, "skills")
    BY <1>9 DEF ClearSkills, Proceed, Moves, Answers, Replies
  <2>2. Fits("skills", req[r].kind) /\ "skills" \in Places \ {"idle", "done"}
    BY <1>0, <1>9 DEF ClearSkills, Fits, Places, OnStaff, OnHoliday, NewClient, CreatesService
  <2> QED BY <2>1, <2>2, MoveIt
<1>10. CASE ReplaceSkills(r)
  <2>1. at[r] \notin {"idle", "done"} /\ met' = met /\ \E a \in Answers : Reply(r, a)
    BY <1>10 DEF ReplaceSkills, Answers, Replies
  <2> QED BY <2>1, ReplyIt
<1>11. CASE ClearHours(r)
  <2>1. at[r] \notin {"idle", "done"} /\ met' = met /\ Moves(r, "hours")
    BY <1>11 DEF ClearHours, Proceed, Moves, Answers, Replies
  <2>2. Fits("hours", req[r].kind) /\ "hours" \in Places \ {"idle", "done"}
    BY <1>0, <1>11 DEF ClearHours, Fits, Places, OnStaff, OnHoliday, NewClient, CreatesService
  <2> QED BY <2>1, <2>2, MoveIt
<1>12. CASE ReplaceHours(r)
  <2>1. at[r] \notin {"idle", "done"} /\ met' = met /\ \E a \in Answers : Reply(r, a)
    BY <1>12 DEF ReplaceHours, Answers, Replies
  <2> QED BY <2>1, ReplyIt
<1>13. CASE CreateTimeOff(r)
  <2>1. at[r] \notin {"idle", "done"} /\ met' = met /\ \E a \in Answers : Reply(r, a)
    BY <1>13 DEF CreateTimeOff, Answers, Replies
  <2> QED BY <2>1, ReplyIt
<1>14. CASE FindTimeOff(r)
  <2>1. at[r] \notin {"idle", "done"} /\ met' = met /\ Moves(r, "removeLeave")
    BY <1>14 DEF FindTimeOff, Proceed, Moves, Answers, Replies
  <2>2. Fits("removeLeave", req[r].kind) /\ "removeLeave" \in Places \ {"idle", "done"}
    BY <1>0, <1>14 DEF FindTimeOff, Fits, Places, OnStaff, OnHoliday, NewClient, CreatesService
  <2> QED BY <2>1, <2>2, MoveIt
<1>15. CASE DeleteTimeOff(r)
  <2>1. at[r] \notin {"idle", "done"} /\ met' = met /\ \E a \in Answers : Reply(r, a)
    BY <1>15 DEF DeleteTimeOff, Answers, Replies
  <2> QED BY <2>1, ReplyIt
<1>16. CASE ReplaceBusinessHours(r)
  <2>1. at[r] \notin {"idle", "done"} /\ met' = met /\ \E a \in Answers : Reply(r, a)
    BY <1>16 DEF ReplaceBusinessHours, Answers, Replies
  <2> QED BY <2>1, ReplyIt
<1>17. CASE FindHoliday(r)
  <2>1. at[r] \notin {"idle", "done"} /\ met' = met
    BY <1>17 DEF FindHoliday
  <2>2. PICK where \in {"removeHoliday", "setDate", "date"} : Moves(r, where) /\ Fits(where, req[r].kind)
    BY <1>0, <1>17 DEF FindHoliday, Proceed, Moves, Answers, Replies, Fits, Kind, OnStaff,
       OnHoliday, NewClient, CreatesService
  <2> QED BY <2>1, <2>2, MoveIt DEF Places
<1>18. CASE CheckDate(r)
  <2>1. at[r] \notin {"idle", "done"} /\ met' = met /\ Moves(r, "setDate")
    BY <1>18 DEF CheckDate, Proceed, Moves, Answers, Replies
  <2>2. Fits("setDate", req[r].kind) /\ "setDate" \in Places \ {"idle", "done"}
    BY <1>0, <1>18 DEF CheckDate, Fits, Places, OnStaff, OnHoliday, NewClient, CreatesService
  <2> QED BY <2>1, <2>2, MoveIt
<1>19. CASE SetDate(r)
  <2>1. at[r] \notin {"idle", "done"} /\ met' = met /\ \E a \in Answers : Reply(r, a)
    BY <1>19 DEF SetDate, Answers, Replies
  <2> QED BY <2>1, ReplyIt
<1>20. CASE DeleteHoliday(r)
  <2>1. at[r] \notin {"idle", "done"} /\ met' = met /\ \E a \in Answers : Reply(r, a)
    BY <1>20 DEF DeleteHoliday, Answers, Replies
  <2> QED BY <2>1, ReplyIt
<1>21. CASE FindService(r)
  <2>1. at[r] \notin {"idle", "done"} /\ met' = met
    BY <1>21 DEF FindService
  <2>2. PICK where \in {"removeService", "category"} : Moves(r, where) /\ Fits(where, req[r].kind)
    BY <1>0, <1>21 DEF FindService, Proceed, Moves, Answers, Replies, Fits, Kind, OnStaff,
       OnHoliday, NewClient, CreatesService
  <2> QED BY <2>1, <2>2, MoveIt DEF Places
<1>22. CASE CheckCategory(r)
  <2>1. at[r] \notin {"idle", "done"} /\ met' = met /\ Moves(r, "saveService")
    BY <1>22 DEF CheckCategory, Proceed, Moves, Answers, Replies
  <2>2. Fits("saveService", req[r].kind) /\ "saveService" \in Places \ {"idle", "done"}
    BY <1>0, <1>22 DEF CheckCategory, Fits, Places, OnStaff, OnHoliday, NewClient, CreatesService
  <2> QED BY <2>1, <2>2, MoveIt
<1>23. CASE SaveService(r)
  <2>1. at[r] \notin {"idle", "done"} /\ met' = met /\ \E a \in Answers : Reply(r, a)
    BY <1>23 DEF SaveService, Answers, Replies
  <2> QED BY <2>1, ReplyIt
<1>24. CASE DeleteService(r)
  <2>1. at[r] \notin {"idle", "done"} /\ met' = met /\ \E a \in Answers : Reply(r, a)
    BY <1>24 DEF DeleteService, Answers, Replies
  <2> QED BY <2>1, ReplyIt
<1>25. CASE ReadSettings(r)
  <2>1. at[r] \notin {"idle", "done"} /\ met' = met /\ Moves(r, "merge")
    BY <1>25 DEF ReadSettings, Proceed, Moves, Answers, Replies
  <2>2. Fits("merge", req[r].kind) /\ "merge" \in Places \ {"idle", "done"}
    BY <1>0, <1>25 DEF ReadSettings, Fits, Places, OnStaff, OnHoliday, NewClient, CreatesService
  <2> QED BY <2>1, <2>2, MoveIt
<1>26. CASE UpdateCategories(r)
  <2>1. at[r] \notin {"idle", "done"} /\ met' = met /\ \E a \in Answers : Reply(r, a)
    BY <1>26 DEF UpdateCategories, Answers, Replies
  <2> QED BY <2>1, ReplyIt
<1>27. CASE FindByPhone(r)
  <2>1. at[r] \notin {"idle", "done"} /\ met' = met /\ Moves(r, "newCustomer")
    BY <1>27 DEF FindByPhone, Proceed, Moves, Answers, Replies
  <2>2. Fits("newCustomer", req[r].kind) /\ "newCustomer" \in Places \ {"idle", "done"}
    BY <1>0, <1>27 DEF FindByPhone, Fits, Places, OnStaff, OnHoliday, NewClient, CreatesService
  <2> QED BY <2>1, <2>2, MoveIt
<1>28. CASE CreateCustomer(r)
  <2>1. at[r] \notin {"idle", "done"} /\ met' = met /\ Moves(r, "conflict")
    BY <1>28 DEF CreateCustomer, Proceed, Moves, Answers, Replies
  <2>2. Fits("conflict", req[r].kind) /\ "conflict" \in Places \ {"idle", "done"}
    BY <1>0, <1>28 DEF CreateCustomer, Fits, Places, OnStaff, OnHoliday, NewClient, CreatesService
  <2> QED BY <2>1, <2>2, MoveIt
<1>29. CASE FindConflicting(r)
  <2>1. at[r] \notin {"idle", "done"} /\ met' = met /\ \E a \in Answers : Reply(r, a)
    BY <1>29 DEF FindConflicting, Answers, Replies
  <2> QED BY <2>1, ReplyIt
<1>30. CASE FindCustomer(r)
  <2>1. at[r] \notin {"idle", "done"} /\ met' = met /\ Moves(r, "removeCustomer")
    BY <1>30 DEF FindCustomer, Proceed, Moves, Answers, Replies
  <2>2. Fits("removeCustomer", req[r].kind) /\ "removeCustomer" \in Places \ {"idle", "done"}
    BY <1>0, <1>30 DEF FindCustomer, Fits, Places, OnStaff, OnHoliday, NewClient, CreatesService
  <2> QED BY <2>1, <2>2, MoveIt
<1>31. CASE DeleteCustomer(r)
  <2>1. at[r] \notin {"idle", "done"} /\ met' = met /\ \E a \in Answers : Reply(r, a)
    BY <1>31 DEF DeleteCustomer, Answers, Replies
  <2> QED BY <2>1, ReplyIt
<1>32. CASE HandlerFails(r)
  <2>1. at[r] \notin {"idle", "done"} /\ met' = met /\ \E a \in Answers : Reply(r, a)
    BY <1>32 DEF HandlerFails, Answers, Replies, Busy
  <2> QED BY <2>1, ReplyIt
<1> QED BY <1>1, <1>2, <1>3, <1>4, <1>5, <1>6, <1>7, <1>8, <1>9, <1>10, <1>11, <1>12, <1>13,
  <1>14, <1>15, <1>16, <1>17, <1>18, <1>19, <1>20, <1>21, <1>22, <1>23, <1>24, <1>25, <1>26,
  <1>27, <1>28, <1>29, <1>30, <1>31, <1>32 DEF Statement

(* The rows each statement may write; it reads for itself only. *)
Writes(r) ==
    /\ employee' = employee \/ InsertEmployee(r) \/ UpdateEmployee(r) \/ DeleteEmployee(r)
    /\ skills' = skills \/ ReplaceSkills(r)
    /\ shifts' = shifts \/ ReplaceHours(r)
    /\ leaves' = leaves \/ CreateTimeOff(r) \/ DeleteTimeOff(r)
    /\ business' = business \/ ReplaceBusinessHours(r)
    /\ holiday' = holiday \/ SetDate(r) \/ DeleteHoliday(r)
    /\ service' = service \/ SaveService(r) \/ DeleteService(r)
    /\ category' = category \/ DeleteService(r)
    /\ customer' = customer \/ CreateCustomer(r) \/ DeleteCustomer(r)
    /\ settings' = settings \/ UpdateCategories(r)
    /\ \A o \in Requests \ {r} : seen'[o] = seen[o]
    /\ DOMAIN seen' = Requests /\ seen' = [o \in Requests |-> seen'[o]]

LEMMA StatementWrites ==
    ASSUME TypeInv, NEW r \in Requests, Statement(r)
    PROVE  Writes(r)
<1>0. DOMAIN seen = Requests /\ seen = [o \in Requests |-> seen[o]]
  BY DEF TypeInv
<1>1. CASE CountStaff(r)
  BY <1>0, <1>1 DEF CountStaff, Writes, rows, team, salon, catalog
<1>2. CASE FindEmployee(r)
  BY <1>0, <1>2 DEF FindEmployee, Writes, rows, team, salon, catalog
<1>3. CASE CheckUserLinkable(r)
  BY <1>0, <1>3 DEF CheckUserLinkable, Writes, rows, team, salon, catalog
<1>4. CASE ValidateServices(r)
  BY <1>0, <1>4 DEF ValidateServices, Writes, rows, team, salon, catalog
<1>5. CASE InsertEmployee(r)
  BY <1>0, <1>5 DEF InsertEmployee, Writes, rows, team, salon, catalog
<1>6. CASE UpdateEmployee(r)
  BY <1>0, <1>6 DEF UpdateEmployee, Writes, rows, team, salon, catalog
<1>7. CASE DeleteEmployee(r)
  BY <1>0, <1>7 DEF DeleteEmployee, Writes, rows, team, salon, catalog
<1>8. CASE ValidateAssigned(r)
  BY <1>0, <1>8 DEF ValidateAssigned, Writes, rows, team, salon, catalog
<1>9. CASE ClearSkills(r)
  BY <1>0, <1>9 DEF ClearSkills, Writes, rows, team, salon, catalog
<1>10. CASE ReplaceSkills(r)
  BY <1>0, <1>10 DEF ReplaceSkills, Writes, rows, team, salon, catalog
<1>11. CASE ClearHours(r)
  BY <1>0, <1>11 DEF ClearHours, Writes, rows, team, salon, catalog
<1>12. CASE ReplaceHours(r)
  BY <1>0, <1>12 DEF ReplaceHours, Writes, rows, team, salon, catalog
<1>13. CASE CreateTimeOff(r)
  BY <1>0, <1>13 DEF CreateTimeOff, Writes, rows, team, salon, catalog
<1>14. CASE FindTimeOff(r)
  BY <1>0, <1>14 DEF FindTimeOff, Writes, rows, team, salon, catalog
<1>15. CASE DeleteTimeOff(r)
  BY <1>0, <1>15 DEF DeleteTimeOff, Writes, rows, team, salon, catalog
<1>16. CASE ReplaceBusinessHours(r)
  BY <1>0, <1>16 DEF ReplaceBusinessHours, Writes, rows, team, salon, catalog
<1>17. CASE FindHoliday(r)
  BY <1>0, <1>17 DEF FindHoliday, Writes, rows, team, salon, catalog
<1>18. CASE CheckDate(r)
  BY <1>0, <1>18 DEF CheckDate, Writes, rows, team, salon, catalog
<1>19. CASE SetDate(r)
  BY <1>0, <1>19 DEF SetDate, Writes, rows, team, salon, catalog
<1>20. CASE DeleteHoliday(r)
  BY <1>0, <1>20 DEF DeleteHoliday, Writes, rows, team, salon, catalog
<1>21. CASE FindService(r)
  BY <1>0, <1>21 DEF FindService, Writes, rows, team, salon, catalog
<1>22. CASE CheckCategory(r)
  BY <1>0, <1>22 DEF CheckCategory, Writes, rows, team, salon, catalog
<1>23. CASE SaveService(r)
  BY <1>0, <1>23 DEF SaveService, Writes, rows, team, salon, catalog
<1>24. CASE DeleteService(r)
  BY <1>0, <1>24 DEF DeleteService, Writes, rows, team, salon, catalog
<1>25. CASE ReadSettings(r)
  BY <1>0, <1>25 DEF ReadSettings, Writes, rows, team, salon, catalog
<1>26. CASE UpdateCategories(r)
  BY <1>0, <1>26 DEF UpdateCategories, Writes, rows, team, salon, catalog
<1>27. CASE FindByPhone(r)
  BY <1>0, <1>27 DEF FindByPhone, Writes, rows, team, salon, catalog
<1>28. CASE CreateCustomer(r)
  BY <1>0, <1>28 DEF CreateCustomer, Writes, rows, team, salon, catalog
<1>29. CASE FindConflicting(r)
  BY <1>0, <1>29 DEF FindConflicting, Writes, rows, team, salon, catalog
<1>30. CASE FindCustomer(r)
  BY <1>0, <1>30 DEF FindCustomer, Writes, rows, team, salon, catalog
<1>31. CASE DeleteCustomer(r)
  BY <1>0, <1>31 DEF DeleteCustomer, Writes, rows, team, salon, catalog
<1>32. CASE HandlerFails(r)
  BY <1>0, <1>32 DEF HandlerFails, Writes, rows, team, salon, catalog
<1> QED BY <1>1, <1>2, <1>3, <1>4, <1>5, <1>6, <1>7, <1>8, <1>9, <1>10, <1>11, <1>12, <1>13,
  <1>14, <1>15, <1>16, <1>17, <1>18, <1>19, <1>20, <1>21, <1>22, <1>23, <1>24, <1>25, <1>26,
  <1>27, <1>28, <1>29, <1>30, <1>31, <1>32 DEF Statement

(* Where a statement comes from. *)
Arrives(r) ==
    /\ at'[r] = "linkable" => CountStaff(r) \/ FindEmployee(r)
    /\ at'[r] \in {"services", "update"} => CheckUserLinkable(r)
    /\ at'[r] = "insert" => ValidateServices(r)
    /\ at'[r] = "assignable" => FindEmployee(r) \/ InsertEmployee(r) \/ UpdateEmployee(r)
    /\ at'[r] = "clearSkills" => ValidateAssigned(r)
    /\ at'[r] = "skills" => ClearSkills(r)
    /\ at'[r] = "hours" => ClearHours(r)
    /\ at'[r] = "setDate" => FindHoliday(r) \/ CheckDate(r)
    /\ at'[r] = "newCustomer" => FindByPhone(r)
    /\ at'[r] = "conflict" => CreateCustomer(r)
    /\ at'[r] = "merge" => ReadSettings(r)
    /\ at'[r] # "count"

LEMMA StatementArrives ==
    ASSUME TypeInv, NEW r \in Requests, Statement(r)
    PROVE  Arrives(r)
<1>0. at \in [Requests -> Places]
  BY DEF TypeInv, Local
<1>1. CASE CountStaff(r)
  BY <1>0, <1>1 DEF CountStaff, Arrives, Proceed, Goto, Reply
<1>2. CASE FindEmployee(r)
  BY <1>0, <1>2 DEF FindEmployee, Arrives, Proceed, Goto, Reply
<1>3. CASE CheckUserLinkable(r)
  BY <1>0, <1>3 DEF CheckUserLinkable, Arrives, Proceed, Goto, Reply
<1>4. CASE ValidateServices(r)
  BY <1>0, <1>4 DEF ValidateServices, Arrives, Proceed, Goto, Reply
<1>5. CASE InsertEmployee(r)
  BY <1>0, <1>5 DEF InsertEmployee, Arrives, Proceed, Goto, Reply
<1>6. CASE UpdateEmployee(r)
  BY <1>0, <1>6 DEF UpdateEmployee, Arrives, Proceed, Goto, Reply
<1>7. CASE DeleteEmployee(r)
  BY <1>0, <1>7 DEF DeleteEmployee, Arrives, Proceed, Goto, Reply
<1>8. CASE ValidateAssigned(r)
  BY <1>0, <1>8 DEF ValidateAssigned, Arrives, Proceed, Goto, Reply
<1>9. CASE ClearSkills(r)
  BY <1>0, <1>9 DEF ClearSkills, Arrives, Proceed, Goto, Reply
<1>10. CASE ReplaceSkills(r)
  BY <1>0, <1>10 DEF ReplaceSkills, Arrives, Proceed, Goto, Reply
<1>11. CASE ClearHours(r)
  BY <1>0, <1>11 DEF ClearHours, Arrives, Proceed, Goto, Reply
<1>12. CASE ReplaceHours(r)
  BY <1>0, <1>12 DEF ReplaceHours, Arrives, Proceed, Goto, Reply
<1>13. CASE CreateTimeOff(r)
  BY <1>0, <1>13 DEF CreateTimeOff, Arrives, Proceed, Goto, Reply
<1>14. CASE FindTimeOff(r)
  BY <1>0, <1>14 DEF FindTimeOff, Arrives, Proceed, Goto, Reply
<1>15. CASE DeleteTimeOff(r)
  BY <1>0, <1>15 DEF DeleteTimeOff, Arrives, Proceed, Goto, Reply
<1>16. CASE ReplaceBusinessHours(r)
  BY <1>0, <1>16 DEF ReplaceBusinessHours, Arrives, Proceed, Goto, Reply
<1>17. CASE FindHoliday(r)
  BY <1>0, <1>17 DEF FindHoliday, Arrives, Proceed, Goto, Reply
<1>18. CASE CheckDate(r)
  BY <1>0, <1>18 DEF CheckDate, Arrives, Proceed, Goto, Reply
<1>19. CASE SetDate(r)
  BY <1>0, <1>19 DEF SetDate, Arrives, Proceed, Goto, Reply
<1>20. CASE DeleteHoliday(r)
  BY <1>0, <1>20 DEF DeleteHoliday, Arrives, Proceed, Goto, Reply
<1>21. CASE FindService(r)
  BY <1>0, <1>21 DEF FindService, Arrives, Proceed, Goto, Reply
<1>22. CASE CheckCategory(r)
  BY <1>0, <1>22 DEF CheckCategory, Arrives, Proceed, Goto, Reply
<1>23. CASE SaveService(r)
  BY <1>0, <1>23 DEF SaveService, Arrives, Proceed, Goto, Reply
<1>24. CASE DeleteService(r)
  BY <1>0, <1>24 DEF DeleteService, Arrives, Proceed, Goto, Reply
<1>25. CASE ReadSettings(r)
  BY <1>0, <1>25 DEF ReadSettings, Arrives, Proceed, Goto, Reply
<1>26. CASE UpdateCategories(r)
  BY <1>0, <1>26 DEF UpdateCategories, Arrives, Proceed, Goto, Reply
<1>27. CASE FindByPhone(r)
  BY <1>0, <1>27 DEF FindByPhone, Arrives, Proceed, Goto, Reply
<1>28. CASE CreateCustomer(r)
  BY <1>0, <1>28 DEF CreateCustomer, Arrives, Proceed, Goto, Reply
<1>29. CASE FindConflicting(r)
  BY <1>0, <1>29 DEF FindConflicting, Arrives, Proceed, Goto, Reply
<1>30. CASE FindCustomer(r)
  BY <1>0, <1>30 DEF FindCustomer, Arrives, Proceed, Goto, Reply
<1>31. CASE DeleteCustomer(r)
  BY <1>0, <1>31 DEF DeleteCustomer, Arrives, Proceed, Goto, Reply
<1>32. CASE HandlerFails(r)
  BY <1>0, <1>32 DEF HandlerFails, Arrives, Proceed, Goto, Reply
<1> QED BY <1>1, <1>2, <1>3, <1>4, <1>5, <1>6, <1>7, <1>8, <1>9, <1>10, <1>11, <1>12, <1>13,
  <1>14, <1>15, <1>16, <1>17, <1>18, <1>19, <1>20, <1>21, <1>22, <1>23, <1>24, <1>25, <1>26,
  <1>27, <1>28, <1>29, <1>30, <1>31, <1>32 DEF Statement

-----------------------------------------------------------------------------
(* Types *)

SameBody(q, o) ==
    /\ o.kind = q.kind /\ o.target = q.target /\ o.user = q.user /\ o.active = q.active
    /\ o.services = q.services /\ o.plan = q.plan /\ o.dates = q.dates /\ o.week = q.week
    /\ o.phone = q.phone /\ o.keys = q.keys /\ o.category = q.category /\ o.shape = q.shape

(* A statement leaves the other requests alone and changes only the answer *)
(* of its own.                                                             *)
Alone(r) ==
    /\ at' \in [Requests -> Places] /\ req' \in [Requests -> Request]
    /\ \A o \in Requests \ {r} : at'[o] = at[o] /\ req'[o] = req[o]

LEMMA WorkBody ==
    ASSUME TypeInv, NEW r \in Requests, Works(r)
    PROVE  Alone(r) /\ SameBody(req[r], req'[r]) /\ (at'[r] # "done" => req'[r] = req[r])
<1>1. PICK a \in Answers : req' = [req EXCEPT ![r].answer = a] /\ (at'[r] # "done" => a = None)
  BY DEF Works
<1>2. req[r] \in Request /\ (at[r] # "done" => req[r].answer = None)
  BY DEF TypeInv, Local, Placed
<1>3. req'[r] = [req[r] EXCEPT !.answer = a]
  BY <1>1 DEF TypeInv, Local
<1>4. req'[r] \in Request /\ SameBody(req[r], req'[r])
  BY <1>2, <1>3 DEF Request, SameBody
<1>5. at'[r] # "done" => req'[r] = req[r]
  BY <1>1, <1>2, <1>3 DEF Request, Works
<1> QED BY <1>1, <1>4, <1>5 DEF Works, Alone, TypeInv, Local

LEMMA SendBody ==
    ASSUME TypeInv, NEW r \in Requests, Sends(r)
    PROVE  Alone(r)
BY DEF Sends, Alone, TypeInv, Local, First, Places

Rows == [state: States, active: BOOLEAN, user: Users \cup {None}]

(* No row of an employee is ever removed. *)
LEMMA EmployeesStay ==
    ASSUME TypeInv, NEW r \in Requests, Statement(r)
    PROVE  /\ employee' \in [Staff -> Rows]
           /\ \A e \in Staff : employee[e].state # "none" => employee'[e].state # "none"
<1> USE DEF Rows
<1>1. employee \in [Staff -> Rows] /\ r \in Staff
  BY DEF TypeInv, TypeOK, Staff
<1>2. req[r] \in Request /\ Carries(r, req[r]) /\ Fits(at[r], req[r].kind)
  BY DEF TypeInv, Local, Placed
<1>3. CASE employee' = employee
  BY <1>1, <1>3
<1>4. CASE InsertEmployee(r)
  <2>1. employee' = employee \/ employee' = [employee EXCEPT ![r] =
                                    [state |-> "live", active |-> TRUE, user |-> req[r].user]]
    BY <1>4 DEF InsertEmployee
  <2>2. [state |-> "live", active |-> TRUE, user |-> req[r].user] \in Rows
    BY <1>2 DEF Request, States
  <2>3. \A e \in Staff : employee'[e] = employee[e] \/ employee'[e].state = "live"
    BY <1>1, <2>1
  <2>4. employee' \in [Staff -> Rows]
    BY <1>1, <2>1, <2>2
  <2> QED BY <2>3, <2>4
<1>5. CASE UpdateEmployee(r)
  <2>1. Target(r) \in Staff
    BY <1>2, <1>5 DEF UpdateEmployee, Fits, Carries, OnStaff, Target
  <2>2. PICK a \in BOOLEAN, u \in Users \cup {None} :
            employee' = employee \/ employee' = [employee EXCEPT ![Target(r)].active = a, ![Target(r)].user = u]
    <3>1. req[r].active \in BOOLEAN /\ req[r].user \in Users \cup {None}
          /\ employee[Target(r)].user \in Users \cup {None}
      BY <1>1, <1>2, <2>1 DEF Request
    <3>2. PICK u \in Users \cup {None} :
              u = CASE req[r].unlink -> None
                    [] req[r].user = None -> employee[Target(r)].user
                    [] OTHER -> req[r].user
      BY <3>1
    <3>3. employee' = employee
          \/ employee' = [employee EXCEPT ![Target(r)].active = req[r].active, ![Target(r)].user = u]
      BY <1>1, <1>5, <2>1, <3>2 DEF UpdateEmployee
    <3> QED BY <3>1, <3>3
  <2>3. [employee[Target(r)] EXCEPT !.active = a, !.user = u] \in Rows
    BY <1>1, <2>1
  <2>4. employee' = employee
        \/ employee' = [employee EXCEPT ![Target(r)] = [employee[Target(r)] EXCEPT !.active = a, !.user = u]]
    BY <1>1, <2>1, <2>2
  <2>5. [employee[Target(r)] EXCEPT !.active = a, !.user = u].state = employee[Target(r)].state
    BY <1>1, <2>1
  <2>6. \A e \in Staff : employee'[e].state = employee[e].state
    BY <1>1, <2>1, <2>4, <2>5
  <2> QED BY <1>1, <2>1, <2>3, <2>4, <2>6
<1>6. CASE DeleteEmployee(r)
  BY <1>1, <1>2, <1>6 DEF DeleteEmployee, Fits, Carries, OnStaff, Target, States
<1> QED BY <1>3, <1>4, <1>5, <1>6, StatementWrites DEF Writes

LEMMA TeamTyped ==
    ASSUME TypeInv, NEW r \in Requests, Statement(r)
    PROVE  /\ skills' \subseteq Skill /\ shifts' \subseteq Shift
           /\ leaves' \in [Requests -> [employee: Staff, dates: SUBSET Dates] \cup {None}]
<1> USE DEF TypeInv, TypeOK, Skill, Shift
<1>1. req[r] \in Request /\ Carries(r, req[r]) /\ Fits(at[r], req[r].kind) /\ r \in Staff
  BY DEF TypeInv, Local, Placed, Staff
<1>2. CASE ReplaceSkills(r)
  <2>1. Target(r) \in Staff /\ req[r].services \in SUBSET Services
    BY <1>1, <1>2 DEF ReplaceSkills, Fits, Carries, OnStaff, Target, Listed
  <2>2. {[employee |-> Target(r), service |-> s, by |-> r] : s \in req[r].services} \subseteq Skill
    BY <2>1
  <2> QED BY <1>2, <2>2 DEF ReplaceSkills
<1>3. CASE ReplaceHours(r)
  <2>1. Target(r) \in Staff /\ req[r].plan \in SUBSET Entries
    BY <1>1, <1>3 DEF ReplaceHours, Fits, Carries, OnStaff, Target, Request
  <2>2. {[employee |-> Target(r), entry |-> x, by |-> r] : x \in req[r].plan} \subseteq Shift
    BY <2>1
  <2> QED BY <1>3, <2>2 DEF ReplaceHours
<1>4. CASE CreateTimeOff(r)
  <2>1. Target(r) \in Staff /\ req[r].dates \in SUBSET Dates
    BY <1>1, <1>4 DEF CreateTimeOff, Fits, Carries, OnStaff, Target
  <2> QED BY <1>4, <2>1 DEF CreateTimeOff
<1>5. CASE DeleteTimeOff(r)
  BY <1>5 DEF DeleteTimeOff
<1> QED BY <1>2, <1>3, <1>4, <1>5, StatementWrites DEF Writes

LEMMA HouseTyped ==
    ASSUME TypeInv, NEW r \in Requests, Statement(r)
    PROVE  /\ business' \in [Weekdays -> Windows \cup {None}]
           /\ holiday' \in [Requests -> Dates \cup {None}]
           /\ category' \in [Categories -> States]
           /\ settings' \in [Keys -> Requests \cup {None}]
<1> USE DEF TypeInv, TypeOK
<1>1. req[r] \in Request /\ Carries(r, req[r]) /\ Fits(at[r], req[r].kind)
  BY DEF Local, Placed
<1>2. ASSUME ReplaceBusinessHours(r) PROVE business' \in [Weekdays -> Windows \cup {None}]
  <2>1. req[r].week \in BusinessWeeks
    BY <1>1, <1>2 DEF ReplaceBusinessHours, Fits, Carries
  <2>2. business' = business \/ business' = req[r].week
    BY <1>2 DEF ReplaceBusinessHours
  <2> QED BY <2>1, <2>2, SalonAssumption
<1>3. ASSUME SetDate(r) PROVE holiday' \in [Requests -> Dates \cup {None}]
  <2>1. Target(r) \in Requests
    BY <1>1, <1>3 DEF SetDate, Fits, Carries, OnHoliday, Target
  <2>2. PICK d \in Dates : req[r].dates = {d}
    BY <1>1, <1>3 DEF SetDate, Fits, Carries
  <2>3. holiday' = holiday \/ holiday' = [holiday EXCEPT ![Target(r)] = d]
    BY <1>3, <2>2 DEF SetDate
  <2> QED BY <2>1, <2>3
<1>4. ASSUME DeleteHoliday(r) PROVE holiday' \in [Requests -> Dates \cup {None}]
  BY <1>4 DEF DeleteHoliday
<1>5. ASSUME DeleteService(r) PROVE category' \in [Categories -> States]
  BY <1>5 DEF DeleteService, States
<1>6. ASSUME UpdateCategories(r) PROVE settings' \in [Keys -> Requests \cup {None}]
  <2>1. PICK f \in [Keys -> Requests \cup {None}] :
            seen[r] = {[key |-> k, value |-> f[k]] : k \in Keys}
    BY <1>6 DEF UpdateCategories, HasRead
  <2>2. ASSUME NEW k \in Keys PROVE (CHOOSE x \in seen[r] : x.key = k).value = f[k]
    <3>1. [key |-> k, value |-> f[k]] \in seen[r] /\ [key |-> k, value |-> f[k]].key = k
      BY <2>1
    <3>2. PICK y : y = (CHOOSE x \in seen[r] : x.key = k)
      OBVIOUS
    <3>3. y \in seen[r] /\ y.key = k
      BY <3>1, <3>2
    <3> QED BY <2>1, <3>2, <3>3
  <2>3. \A k \in Keys : settings'[k] \in {r, f[k], settings[k]}
    BY <1>6, <2>2 DEF UpdateCategories
  <2>4. settings' = [k \in Keys |-> settings'[k]]
    BY <1>6 DEF UpdateCategories
  <2> QED BY <2>1, <2>3, <2>4
<1>7. business' \in [Weekdays -> Windows \cup {None}]
  BY <1>2, StatementWrites DEF Writes
<1>8. holiday' \in [Requests -> Dates \cup {None}]
  BY <1>3, <1>4, StatementWrites DEF Writes
<1>9. category' \in [Categories -> States]
  BY <1>5, StatementWrites DEF Writes
<1>10. settings' \in [Keys -> Requests \cup {None}]
  BY <1>6, StatementWrites DEF Writes
<1> QED BY <1>7, <1>8, <1>9, <1>10

LEMMA CatalogTyped ==
    ASSUME TypeInv, NEW r \in Requests, Statement(r)
    PROVE  /\ service' \in [Services -> [state: States, length: Nat \ {0}, buffer: Nat,
                                         category: Categories \cup {None}]]
           /\ customer' \in [Customers -> [state: States, phone: Phones \cup {None}]]
<1> DEFINE Offer == [state: States, length: Nat \ {0}, buffer: Nat, category: Categories \cup {None}]
           Client == [state: States, phone: Phones \cup {None}]
<1>1. req[r] \in Request /\ Carries(r, req[r]) /\ Fits(at[r], req[r].kind)
  BY DEF TypeInv, Local, Placed
<1>2. service \in [Services -> Offer] /\ customer \in [Customers -> Client]
  BY DEF TypeInv, TypeOK
<1>3. ASSUME SaveService(r) PROVE service' \in [Services -> Offer]
  <2>1. Target(r) \in Services /\ req[r].shape \in Shapes
    BY <1>1, <1>3 DEF SaveService, Fits, Carries, CreatesService, Target, Services
  <2>2. PICK l \in Nat \ {0}, b \in Nat : l = req[r].shape.length /\ b = req[r].shape.buffer
    BY <2>1, SalonAssumption DEF Shapes
  <2>3. PICK s \in States :
            s = IF Kind(r) = "createService" THEN "live" ELSE service[Target(r)].state
    BY <1>2, <2>1 DEF States
  <2>4. PICK c \in Categories \cup {None} : c = req[r].category
    BY <1>1 DEF Request
  <2>5. service' = [service EXCEPT ![Target(r)] = [state |-> s, length |-> l, buffer |-> b, category |-> c]]
    BY <1>2, <1>3, <2>1, <2>2, <2>3, <2>4 DEF SaveService
  <2> QED BY <1>2, <2>1, <2>5
<1>4. ASSUME DeleteService(r) PROVE service' \in [Services -> Offer]
  <2>1. service' = service \/ service' = [service EXCEPT ![Target(r)].state = "deleted"]
    BY <1>4 DEF DeleteService
  <2> QED BY <1>2, <2>1 DEF States
<1>5. ASSUME CreateCustomer(r) PROVE customer' \in [Customers -> Client]
  <2>1. req[r].phone \in Phones \cup {None}
    BY <1>1 DEF Request
  <2>2. customer' = customer
        \/ customer' = [customer EXCEPT ![r] = [state |-> "live", phone |-> req[r].phone]]
    BY <1>5 DEF CreateCustomer
  <2> QED BY <1>2, <2>1, <2>2 DEF States
<1>6. ASSUME DeleteCustomer(r) PROVE customer' \in [Customers -> Client]
  BY <1>2, <1>6 DEF DeleteCustomer, States
<1>7. service' \in [Services -> Offer]
  BY <1>2, <1>3, <1>4, StatementWrites DEF Writes
<1>8. customer' \in [Customers -> Client]
  BY <1>2, <1>5, <1>6, StatementWrites DEF Writes
<1> QED BY <1>7, <1>8

LEMMA ReadKept ==
    ASSUME TypeInv, NEW r \in Requests, Statement(r)
    PROVE  \A o \in Requests : HasRead(o)'
<1>1. \A o \in Requests \ {r} : at'[o] = at[o] /\ seen'[o] = seen[o]
  BY StatementWorks, StatementWrites, WorkBody DEF Alone, Writes
<1>2. \A o \in Requests \ {r} : HasRead(o)'
  BY <1>1 DEF TypeInv, HasRead
<1>3. ASSUME at'[r] = "merge" PROVE HasRead(r)'
  <2>1. ReadSettings(r)
    BY <1>3, StatementArrives DEF Arrives
  <2> QED BY <2>1 DEF ReadSettings, HasRead, TypeInv, TypeOK
<1> QED BY <1>2, <1>3 DEF HasRead

LEMMA ListKept ==
    ASSUME TypeInv, NEW r \in Requests, Statement(r)
    PROVE  \A o \in Requests : Listed(o)'
<1>1. /\ Works(r) /\ Alone(r) /\ SameBody(req[r], req'[r]) /\ Arrives(r)
      /\ req[r] \in Request /\ Carries(r, req[r]) /\ Fits(at[r], req[r].kind) /\ Listed(r)
      /\ at \in [Requests -> Places]
  BY StatementWorks, WorkBody, StatementArrives DEF TypeInv, Local, Placed
<1>2. \A o \in Requests \ {r} : Listed(o)'
  BY <1>1 DEF TypeInv, Listed, Alone
<1>3. ASSUME at'[r] \in {"assignable", "clearSkills", "skills"} PROVE req[r].services \in SUBSET Services
  <2>1. CASE FindEmployee(r)
    <3>1. at'[r] = "assignable"
      BY <1>1, <1>3, <2>1 DEF Arrives, FindEmployee, ValidateAssigned, ClearSkills
    <3>2. Kind(r) = "assign"
      BY <1>1, <2>1, <3>1 DEF FindEmployee, Proceed, Reply, Goto, Fits, OnStaff, Kind
    <3> QED BY <1>1, <3>2 DEF Carries, Kind
  <2>2. CASE InsertEmployee(r)
    BY <1>1, <2>2 DEF InsertEmployee, Fits, Carries
  <2>3. CASE UpdateEmployee(r)
    <3>1. req[r].services # None
      BY <1>1, <1>3, <2>3 DEF UpdateEmployee, Reply, Goto
    <3> QED BY <1>1, <3>1 DEF Request
  <2>4. CASE ValidateAssigned(r) \/ ClearSkills(r)
    BY <1>1, <2>4 DEF ValidateAssigned, ClearSkills, Listed
  <2> QED BY <1>1, <1>3, <2>1, <2>2, <2>3, <2>4 DEF Arrives
<1>4. Listed(r)'
  BY <1>1, <1>3 DEF Listed, SameBody
<1> QED BY <1>2, <1>4

LEMMA TypeStep == TypeInv /\ [Next]_vars => TypeInv'
<1> SUFFICES ASSUME TypeInv, [Next]_vars PROVE TypeInv'
  OBVIOUS
<1>1. ASSUME NEW r \in Requests, Sending(r) PROVE TypeInv'
  <2>1. Sends(r) /\ Alone(r)
    BY <1>1, SendMoves, SendBody
  <2>2. met' \in [Requests -> SUBSET Requests]
    <3>1. Busy \subseteq Requests /\ \A o \in Requests : met[o] \subseteq Requests
      BY DEF Busy, TypeInv, TypeOK
    <3>2. met' = [o \in Requests |-> met'[o]] /\ \A o \in Requests : met'[o] \subseteq Requests
      BY <2>1, <3>1 DEF Sends, Meeting
    <3> QED BY <3>2
  <2>3. TypeOK'
    BY <2>1, <2>2 DEF Sends, rows, team, salon, catalog, TypeInv, TypeOK
  <2>4. ASSUME NEW o \in Requests \ {r} PROVE Placed(o)' /\ Carries(o, req[o])'
    <3>1. at'[o] = at[o] /\ req'[o] = req[o] /\ employee' = employee
      BY <2>1 DEF Sends, Alone, rows, team
    <3>2. Placed(o) /\ Carries(o, req[o])
      BY DEF TypeInv, Local
    <3>3. Placed(o)'
      BY <3>1, <3>2 DEF Placed
    <3>4. Carries(o, req[o])'
      BY <3>1, <3>2 DEF Carries
    <3> QED BY <3>3, <3>4
  <2>5. Carries(r, req[r])'
    <3>1. Carries(r, req'[r]) /\ employee' = employee
      BY <2>1 DEF Sends, rows, team
    <3> QED BY <3>1 DEF Carries
  <2>6. Local'
    BY <2>1, <2>4, <2>5 DEF Sends, Alone, Local
  <2>7. \A o \in Requests : HasRead(o)'
    BY <2>1 DEF Sends, Alone, First, TypeInv, HasRead
  <2>8. \A o \in Requests : Listed(o)'
    BY <2>1 DEF Sends, Alone, First, TypeInv, Listed
  <2> QED BY <2>1, <2>3, <2>6, <2>7, <2>8 DEF Sends, TypeInv
<1>2. ASSUME NEW r \in Requests, Statement(r) PROVE TypeInv'
  <2>1. Works(r) /\ Alone(r) /\ SameBody(req[r], req'[r]) /\ (at'[r] # "done" => req'[r] = req[r])
    BY <1>2, StatementWorks, WorkBody
  <2>2. TypeOK'
    BY <1>2, <2>1, EmployeesStay, TeamTyped, HouseTyped, CatalogTyped
    DEF TypeOK, TypeInv, Works, Rows, Skill, Shift
  <2>3. ASSUME NEW o \in Requests PROVE Carries(o, req[o])'
    <3>1. Carries(o, req[o]) /\ SameBody(req[o], req'[o])
      BY <2>1 DEF TypeInv, Local, Alone, SameBody
    <3>2. \A e \in Staff : employee[e].state # "none" => employee'[e].state # "none"
      BY <1>2, EmployeesStay
    <3> QED BY <3>1, <3>2 DEF Carries, SameBody
  <2>4. Placed(r)'
    <3>1. at[r] # "idle" /\ at'[r] # "idle"
      BY <2>1 DEF Works
    <3>2. req'[r].kind = req[r].kind /\ (at'[r] # "done" => req'[r] = req[r])
      BY <2>1 DEF SameBody
    <3>3. at[r] # "done" /\ Fits(at'[r], req[r].kind)
      BY <2>1 DEF Works
    <3> QED BY <3>1, <3>2, <3>3 DEF Placed, TypeInv, Local
  <2>5. \A o \in Requests \ {r} : Placed(o)'
    BY <2>1 DEF Alone, Placed, TypeInv, Local
  <2>6. Local'
    BY <2>1, <2>3, <2>4, <2>5 DEF Alone, Local
  <2> QED BY <1>2, <2>2, <2>6, ReadKept, ListKept, StatementWrites DEF Writes, TypeInv
<1>3. CASE UNCHANGED vars
  <2>1. TypeOK'
    BY <1>3 DEF vars, rows, team, salon, catalog, TypeInv, TypeOK
  <2>2. ASSUME NEW o \in Requests PROVE Placed(o)' /\ Carries(o, req[o])'
    <3>1. Placed(o) /\ Carries(o, req[o])
      BY DEF TypeInv, Local
    <3> QED BY <1>3, <3>1 DEF vars, rows, team, Placed, Carries
  <2>3. Local'
    BY <1>3, <2>2 DEF vars, TypeInv, Local
  <2> QED BY <1>3, <2>1, <2>3 DEF vars, TypeInv, HasRead, Listed
<1> QED BY <1>1, <1>2, <1>3, StepCases

LEMMA TypeInit == Init => TypeInv
<1> SUFFICES ASSUME Init PROVE TypeInv
  OBVIOUS
<1>1. employee \in [Staff -> [state: States, active: BOOLEAN, user: Users \cup {None}]]
  BY DEF Init, States
<1>2. skills \subseteq Skill /\ shifts \subseteq Shift
  <2>1. \A e \in FirstStaff, s \in DOMAIN FirstCatalog : [employee |-> e, service |-> s, by |-> None] \in Skill
    BY DEF Skill, Staff, Services
  <2>2. \A e \in FirstStaff, x \in FirstPlan : [employee |-> e, entry |-> x, by |-> None] \in Shift
    BY SalonAssumption DEF Shift, Staff
  <2> QED BY <2>1, <2>2 DEF Init
<1>3. leaves \in [Requests -> [employee: Staff, dates: SUBSET Dates] \cup {None}]
  BY DEF Init
<1>4. /\ business \in [Weekdays -> Windows \cup {None}] /\ holiday \in [Requests -> Dates \cup {None}]
      /\ category \in [Categories -> States] /\ settings \in [Keys -> Requests \cup {None}]
      /\ met \in [Requests -> SUBSET Requests]
  BY SalonAssumption DEF Init, States
<1>5. service \in [Services -> [state: States, length: Nat \ {0}, buffer: Nat,
                                category: Categories \cup {None}]]
  <2>1. \A s \in DOMAIN FirstCatalog : FirstCatalog[s].length \in Nat \ {0} /\ FirstCatalog[s].buffer \in Nat
    BY SalonAssumption
  <2>2. \A s \in Services : service[s] \in [state: States, length: Nat \ {0}, buffer: Nat,
                                            category: Categories \cup {None}]
    BY <2>1 DEF Init, States
  <2> QED BY <2>2 DEF Init
<1>6. customer \in [Customers -> [state: States, phone: Phones \cup {None}]]
  <2>1. \A c \in DOMAIN FirstClients : FirstClients[c] \in Phones
    BY SalonAssumption
  <2> QED BY <2>1 DEF Init, States
<1>7. TypeOK
  BY <1>1, <1>2, <1>3, <1>4, <1>5, <1>6 DEF TypeOK, Skill, Shift
<1>8. \A r \in Requests : at[r] = "idle" /\ req[r] = Idle
  BY DEF Init
<1>9. Local
  <2>1. at \in [Requests -> Places] /\ req \in [Requests -> Request]
    BY IdleIsRequest DEF Init, Places
  <2>2. ASSUME NEW r \in Requests PROVE Placed(r)
    BY <1>8, IdleIsRequest DEF Placed, Fits
  <2>3. ASSUME NEW r \in Requests PROVE Carries(r, Idle)
    BY SalonAssumption DEF Carries, Idle, NewClient, OnStaff, OnHoliday, CreatesService, AllKinds
  <2> QED BY <1>8, <2>1, <2>2, <2>3 DEF Local
<1> QED BY <1>7, <1>8, <1>9 DEF Init, TypeInv, HasRead, Listed

(* The rows and requests of a salon have their types in every state.       *)
THEOREM SalonTypeCorrect == Spec => []TypeOK
<1>1. Init => TypeInv
  BY TypeInit
<1>2. TypeInv /\ [Next]_vars => TypeInv'
  BY TypeStep
<1>3. TypeInv => TypeOK
  BY DEF TypeInv
<1> QED BY <1>1, <1>2, <1>3, PTL DEF Spec

-----------------------------------------------------------------------------
(* Who met whom *)

Started(r) == at[r] # "idle"

(* Who has met is mutual, and of two requests that have not met one was    *)
(* done before the other was sent.                                         *)
MetSound ==
    /\ \A r, q \in Requests : q \in met[r] => r \in met[q] /\ Started(q)
    /\ \A r, q \in Requests :
           r # q /\ Started(r) /\ Started(q) /\ q \notin met[r] =>
               at[r] = "done" \/ at[q] = "done"

MetInv == TypeInv /\ MetSound

(* A request that was sent keeps all but its answer, and once it is done   *)
(* that as well; whom it met it has met for good.                          *)
LEMMA Keeps ==
    ASSUME TypeInv, [Next]_vars, NEW p \in Requests, Started(p)
    PROVE  /\ Started(p)' /\ SameBody(req[p], req'[p])
           /\ at[p] = "done" => at'[p] = "done" /\ req'[p] = req[p]
           /\ met[p] \subseteq met'[p]
<1> USE DEF Started
<1>1. ASSUME NEW r \in Requests, Sending(r)
      PROVE  at'[p] = at[p] /\ req'[p] = req[p] /\ met[p] \subseteq met'[p]
  <2>1. Sends(r) /\ Alone(r)
    BY <1>1, SendMoves, SendBody
  <2> QED BY <2>1 DEF Sends, Alone, Meeting
<1>2. ASSUME NEW r \in Requests, Statement(r)
      PROVE  /\ at'[p] # "idle" /\ SameBody(req[p], req'[p]) /\ met' = met
             /\ at[p] = "done" => at'[p] = "done" /\ req'[p] = req[p]
  <2>1. Works(r) /\ Alone(r) /\ SameBody(req[r], req'[r])
    BY <1>2, StatementWorks, WorkBody
  <2> QED BY <2>1 DEF Works, Alone, SameBody
<1>3. CASE UNCHANGED vars
  BY <1>3 DEF vars, SameBody
<1> QED BY <1>1, <1>2, <1>3, StepCases DEF SameBody

LEMMA MetStep == MetInv /\ [Next]_vars => MetInv'
<1> SUFFICES ASSUME MetInv, [Next]_vars PROVE MetSound'
  BY TypeStep DEF MetInv
<1> USE DEF MetInv, Started
<1>1. ASSUME NEW r \in Requests, Sending(r) PROVE MetSound'
  <2>1. Sends(r) /\ Alone(r)
    BY <1>1, SendMoves, SendBody
  <2>2. at'[r] \notin {"idle", "done"} /\ at[r] = "idle" /\ \A q \in Requests \ {r} : at'[q] = at[q]
    BY <2>1 DEF Sends, Alone, First
  <2>3. met'[r] = Busy /\ r \notin Busy
    BY <2>1, <2>2 DEF Sends, Meeting, Busy
  <2>4. ASSUME NEW q \in Requests \ {r}
        PROVE  /\ q \in Busy => met'[q] = met[q] \cup {r}
               /\ q \notin Busy => met'[q] = met[q]
               /\ r \notin met[q]
    BY <2>1, <2>2 DEF Sends, Meeting, MetSound
  <2>5. ASSUME NEW p \in Requests, NEW q \in Requests, q \in met'[p]
        PROVE  p \in met'[q] /\ at'[q] # "idle"
    <3>1. CASE p = r
      BY <2>2, <2>3, <2>4, <2>5, <3>1 DEF Busy
    <3>2. CASE p # r /\ q = r
      BY <2>2, <2>3, <2>4, <2>5, <3>2
    <3>3. CASE p # r /\ q # r
      <4>1. q \in met[p]
        BY <2>4, <2>5, <3>3
      <4>2. p \in met[q] /\ at[q] # "idle"
        BY <4>1 DEF MetSound
      <4> QED BY <2>2, <2>4, <3>3, <4>2
    <3> QED BY <3>1, <3>2, <3>3
  <2>6. ASSUME NEW p \in Requests, NEW q \in Requests, p # q, at'[p] # "idle", at'[q] # "idle",
               q \notin met'[p]
        PROVE  at'[p] = "done" \/ at'[q] = "done"
    <3>1. CASE p = r
      BY <2>2, <2>3, <2>6, <3>1 DEF Busy
    <3>2. CASE q = r
      BY <2>2, <2>4, <2>6, <3>2 DEF Busy
    <3>3. CASE p # r /\ q # r
      <4>1. q \notin met[p] /\ at'[p] = at[p] /\ at'[q] = at[q]
        BY <2>2, <2>4, <2>6, <3>3
      <4> QED BY <2>6, <4>1 DEF MetSound
    <3> QED BY <3>1, <3>2, <3>3
  <2> QED BY <2>5, <2>6 DEF MetSound
<1>2. ASSUME NEW r \in Requests, Statement(r) PROVE MetSound'
  <2>1. /\ met' = met /\ at[r] \notin {"idle", "done"} /\ at'[r] # "idle"
        /\ \A q \in Requests \ {r} : at'[q] = at[q]
    BY <1>2, StatementWorks, WorkBody DEF Works, Alone
  <2> QED BY <2>1 DEF MetSound
<1>3. CASE UNCHANGED vars
  BY <1>3 DEF vars, MetSound
<1> QED BY <1>1, <1>2, <1>3, StepCases

LEMMA MetInit == Init => MetInv
BY TypeInit DEF Init, MetInv, MetSound, Started

(* Two requests under way have met. *)
LEMMA BusyMeet ==
    ASSUME MetInv, NEW r \in Requests, NEW q \in Requests, r # q,
           at[r] \notin {"idle", "done"}, at[q] \notin {"idle", "done"}
    PROVE  q \in met[r] /\ r \in met[q]
BY DEF MetInv, MetSound, Started

-----------------------------------------------------------------------------
(* Working hours and skills are replaced as a whole *)

Whole(table) ==
    \A x, y \in table : x.employee = y.employee /\ x.by # y.by => x.by # None /\ y.by \in met[x.by]

(* The rows a replacement does not see to delete are of requests it met.   *)
LeftBehind(r, table) ==
    \A x \in table \ seen[r] : x.employee = Target(r) => x.by \in met[r]

WholeInv ==
    /\ MetInv
    /\ Whole(shifts) /\ Whole(skills)
    /\ \A r \in Requests : at[r] = "hours" => LeftBehind(r, shifts)
    /\ \A r \in Requests : at[r] = "skills" => LeftBehind(r, skills)

LEMMA ReplacedWhole ==
    ASSUME MetInv, NEW r \in Requests, NEW table, NEW new,
           \A x \in table : x.by \in Requests \cup {None},
           \A x \in new : x.employee = Target(r) /\ x.by = r,
           Whole(table), LeftBehind(r, table)
    PROVE  Whole((table \ seen[r]) \cup new)
<1> DEFINE T == (table \ seen[r]) \cup new
<1> SUFFICES ASSUME NEW x \in T, NEW y \in T, x.employee = y.employee, x.by # y.by
             PROVE  x.by # None /\ y.by \in met[x.by]
  BY DEF Whole
<1>1. CASE x \in table \ seen[r] /\ y \in table \ seen[r]
  BY <1>1 DEF Whole
<1>2. CASE x \in new /\ y \in table \ seen[r]
  BY <1>2, SalonAssumption DEF LeftBehind
<1>3. CASE x \in table \ seen[r] /\ y \in new
  <2>1. x.by \in met[r] /\ met[r] \subseteq Requests
    BY <1>3 DEF LeftBehind, MetInv, TypeInv, TypeOK
  <2> QED BY <1>3, <2>1, SalonAssumption DEF MetInv, MetSound
<1> QED BY <1>1, <1>2, <1>3

LEMMA WholeStep == WholeInv /\ [Next]_vars => WholeInv'
<1> SUFFICES ASSUME WholeInv, [Next]_vars PROVE WholeInv'
  OBVIOUS
<1>0. MetInv'
  BY MetStep DEF WholeInv
<1>1. /\ \A x \in shifts : x.by \in Requests \cup {None}
      /\ \A x \in skills : x.by \in Requests \cup {None}
  BY DEF WholeInv, MetInv, TypeInv, TypeOK
<1>2. ASSUME NEW r \in Requests, Sending(r) PROVE WholeInv'
  <2>1. Sends(r) /\ Alone(r)
    BY <1>2, SendMoves, SendBody DEF WholeInv, MetInv
  <2>2. shifts' = shifts /\ skills' = skills /\ seen' = seen /\ at'[r] \notin {"hours", "skills"}
    BY <2>1 DEF Sends, rows, team, First
  <2>3. ASSUME NEW o \in Requests PROVE met[o] \subseteq met'[o]
    <3>1. CASE o = r
      BY <2>1, <3>1 DEF Sends, WholeInv, MetInv, MetSound, Started, TypeInv, TypeOK
    <3>2. CASE o # r
      BY <2>1, <3>2 DEF Sends, Meeting
    <3> QED BY <3>1, <3>2
  <2>4. Whole(shifts)' /\ Whole(skills)'
    BY <1>1, <2>2, <2>3 DEF WholeInv, Whole
  <2>5. \A o \in Requests : at'[o] \in {"hours", "skills"} => at'[o] = at[o] /\ req'[o] = req[o]
    BY <2>1, <2>2 DEF Alone
  <2>6. \A o \in Requests : at'[o] = "hours" => LeftBehind(o, shifts)'
    BY <2>2, <2>3, <2>5 DEF WholeInv, LeftBehind, Target
  <2>7. \A o \in Requests : at'[o] = "skills" => LeftBehind(o, skills)'
    BY <2>2, <2>3, <2>5 DEF WholeInv, LeftBehind, Target
  <2> QED BY <1>0, <2>4, <2>6, <2>7 DEF WholeInv
<1>3. ASSUME NEW r \in Requests, Statement(r) PROVE WholeInv'
  <2>1. Works(r) /\ Alone(r) /\ SameBody(req[r], req'[r]) /\ Writes(r) /\ Arrives(r)
    BY <1>3, StatementWorks, WorkBody, StatementWrites, StatementArrives DEF WholeInv, MetInv
  <2>2. met' = met /\ at[r] \notin {"idle", "done"}
    BY <2>1 DEF Works
  <2>3. ASSUME NEW o \in Requests \ {r}
        PROVE  at'[o] = at[o] /\ req'[o] = req[o] /\ seen'[o] = seen[o]
    BY <2>1 DEF Alone, Writes
  <2>4. /\ Whole(shifts)'
        /\ \A o \in Requests : at'[o] = "hours" => LeftBehind(o, shifts)'
    <3>1. CASE ReplaceHours(r)
      <4>1. PICK new : /\ new = {[employee |-> Target(r), entry |-> x, by |-> r] : x \in req[r].plan}
                       /\ shifts' = (shifts \ seen[r]) \cup new
        BY <3>1 DEF ReplaceHours
      <4>2. \A x \in new : x.employee = Target(r) /\ x.by = r
        BY <4>1
      <4>3. at[r] = "hours" /\ at'[r] = "done"
        BY <2>1, <3>1 DEF ReplaceHours, Reply, Goto, WholeInv, MetInv, TypeInv, Local
      <4>4. Whole((shifts \ seen[r]) \cup new)
        BY <1>1, <4>2, <4>3, ReplacedWhole DEF WholeInv
      <4>5. ASSUME NEW o \in Requests, at'[o] = "hours" PROVE LeftBehind(o, shifts)'
        <5>1. o # r /\ at[o] = "hours" /\ seen'[o] = seen[o] /\ req'[o] = req[o]
          BY <2>3, <4>3, <4>5
        <5>2. r \in met[o]
          BY <2>2, <5>1, BusyMeet DEF WholeInv
        <5> QED BY <2>2, <4>1, <4>2, <5>1, <5>2 DEF WholeInv, LeftBehind, Target
      <4> QED BY <2>2, <4>1, <4>4, <4>5 DEF Whole
    <3>2. CASE shifts' = shifts
      <4>1. Whole(shifts)'
        BY <2>2, <3>2 DEF WholeInv, Whole
      <4>2. ASSUME NEW o \in Requests \ {r}, at'[o] = "hours" PROVE LeftBehind(o, shifts)'
        BY <2>2, <2>3, <3>2, <4>2 DEF WholeInv, LeftBehind, Target
      <4>3. ASSUME at'[r] = "hours" PROVE LeftBehind(r, shifts)'
        <5>1. ClearHours(r)
          BY <2>1, <4>3 DEF Arrives
        <5>2. seen'[r] = {x \in shifts : x.employee = Target(r)} /\ Target(r)' = Target(r)
          BY <2>1, <4>3, <5>1 DEF ClearHours, Reply, Goto, SameBody, Target, WholeInv,
             MetInv, TypeInv, Local
        <5> QED BY <3>2, <5>2 DEF LeftBehind
      <4> QED BY <4>1, <4>2, <4>3
    <3> QED BY <2>1, <3>1, <3>2 DEF Writes
  <2>5. /\ Whole(skills)'
        /\ \A o \in Requests : at'[o] = "skills" => LeftBehind(o, skills)'
    <3>1. CASE ReplaceSkills(r) /\ skills' # skills
      <4>1. PICK new : /\ new = {[employee |-> Target(r), service |-> s, by |-> r] : s \in req[r].services}
                       /\ skills' = (skills \ seen[r]) \cup new
        BY <3>1 DEF ReplaceSkills
      <4>2. \A x \in new : x.employee = Target(r) /\ x.by = r
        BY <4>1
      <4>3. at[r] = "skills" /\ at'[r] = "done"
        BY <2>1, <3>1 DEF ReplaceSkills, Reply, Goto, WholeInv, MetInv, TypeInv, Local
      <4>4. Whole((skills \ seen[r]) \cup new)
        BY <1>1, <4>2, <4>3, ReplacedWhole DEF WholeInv
      <4>5. ASSUME NEW o \in Requests, at'[o] = "skills" PROVE LeftBehind(o, skills)'
        <5>1. o # r /\ at[o] = "skills" /\ seen'[o] = seen[o] /\ req'[o] = req[o]
          BY <2>3, <4>3, <4>5
        <5>2. r \in met[o]
          BY <2>2, <5>1, BusyMeet DEF WholeInv
        <5> QED BY <2>2, <4>1, <4>2, <5>1, <5>2 DEF WholeInv, LeftBehind, Target
      <4> QED BY <2>2, <4>1, <4>4, <4>5 DEF Whole
    <3>2. CASE skills' = skills
      <4>1. Whole(skills)'
        BY <2>2, <3>2 DEF WholeInv, Whole
      <4>2. ASSUME NEW o \in Requests \ {r}, at'[o] = "skills" PROVE LeftBehind(o, skills)'
        BY <2>2, <2>3, <3>2, <4>2 DEF WholeInv, LeftBehind, Target
      <4>3. ASSUME at'[r] = "skills" PROVE LeftBehind(r, skills)'
        <5>1. ClearSkills(r)
          BY <2>1, <4>3 DEF Arrives
        <5>2. seen'[r] = {x \in skills : x.employee = Target(r)} /\ Target(r)' = Target(r)
          BY <2>1, <4>3, <5>1 DEF ClearSkills, SameBody, Target, WholeInv, MetInv, TypeInv
        <5> QED BY <3>2, <5>2 DEF LeftBehind
      <4> QED BY <4>1, <4>2, <4>3
    <3> QED BY <2>1, <3>1, <3>2 DEF Writes
  <2> QED BY <1>0, <2>4, <2>5 DEF WholeInv
<1>4. CASE UNCHANGED vars
  BY <1>0, <1>4 DEF vars, rows, team, WholeInv, Whole, LeftBehind, Target
<1> QED BY <1>2, <1>3, <1>4, StepCases

LEMMA WholeInit == Init => WholeInv
<1> SUFFICES ASSUME Init PROVE WholeInv
  OBVIOUS
<1>1. Whole(shifts) /\ Whole(skills)
  BY DEF Init, Whole
<1> QED BY <1>1, MetInit DEF Init, WholeInv

-----------------------------------------------------------------------------
(* The staff limit *)

(* What a statement does to the employees. *)
Hires(r) ==
    /\ at[r] = "insert" /\ at'[r] \in {"assignable", "done"}
    /\ req[r].user # None => Linked(req[r].user) = {}
    /\ employee' = [employee EXCEPT ![r] = [state |-> "live", active |-> TRUE, user |-> req[r].user]]

Edits(r) ==
    /\ at[r] = "update" /\ at'[r] \in {"assignable", "done"}
    /\ \A e \in Staff : employee'[e].state = employee[e].state
    /\ \A e \in Staff \ {Target(r)} : employee'[e] = employee[e]
    /\ employee'[Target(r)].user \in
           {None, IF req[r].user = None THEN employee[Target(r)].user ELSE req[r].user}
    /\ req[r].user # None => Linked(req[r].user) \subseteq {Target(r)}

Fires(r) ==
    /\ at[r] = "delete" /\ at'[r] = "done"
    /\ \A e \in Staff : employee'[e].user = employee[e].user
    /\ \A e \in Staff \ {Target(r)} : employee'[e] = employee[e]
    /\ employee'[Target(r)].state = "deleted"

LEMMA StaffMoves ==
    ASSUME TypeInv, NEW r \in Requests, Statement(r)
    PROVE  employee' = employee \/ Hires(r) \/ Edits(r) \/ Fires(r)
<1>0. /\ employee \in [Staff -> Rows] /\ at \in [Requests -> Places]
      /\ Carries(r, req[r]) /\ Fits(at[r], req[r].kind)
  BY DEF TypeInv, TypeOK, Local, Placed, Rows
<1>1. CASE InsertEmployee(r)
  BY <1>0, <1>1 DEF InsertEmployee, Hires, Reply, Goto
<1>2. CASE UpdateEmployee(r) /\ employee' # employee
  <2>1. Target(r) \in Staff
    BY <1>0, <1>2 DEF UpdateEmployee, Fits, Carries, OnStaff, Target
  <2>2. PICK a, u : /\ a = req[r].active
                    /\ u = CASE req[r].unlink -> None
                              [] req[r].user = None -> employee[Target(r)].user
                              [] OTHER -> req[r].user
    OBVIOUS
  <2>3. employee' = [employee EXCEPT ![Target(r)] = [employee[Target(r)] EXCEPT !.active = a, !.user = u]]
    BY <1>0, <1>2, <2>1, <2>2 DEF UpdateEmployee
  <2>4. PICK row : row = [employee[Target(r)] EXCEPT !.active = a, !.user = u]
    OBVIOUS
  <2>5. row.state = employee[Target(r)].state /\ row.user = u
    BY <1>0, <2>1, <2>4 DEF Rows
  <2>6. employee'[Target(r)] = row /\ \A e \in Staff \ {Target(r)} : employee'[e] = employee[e]
    BY <1>0, <2>1, <2>3, <2>4
  <2>7. /\ at[r] = "update" /\ at'[r] \in {"assignable", "done"}
        /\ req[r].user # None => Linked(req[r].user) \subseteq {Target(r)}
    BY <1>0, <1>2 DEF UpdateEmployee, Reply, Goto
  <2>8. \A e \in Staff : employee'[e].state = employee[e].state
    BY <2>5, <2>6
  <2> QED BY <2>2, <2>5, <2>6, <2>7, <2>8 DEF Edits
<1>3. CASE DeleteEmployee(r)
  <2>1. Target(r) \in Staff
    BY <1>0, <1>3 DEF DeleteEmployee, Fits, Carries, OnStaff, Target
  <2>2. PICK row : row = [employee[Target(r)] EXCEPT !.state = "deleted"]
    OBVIOUS
  <2>3. row.state = "deleted" /\ row.user = employee[Target(r)].user
    BY <1>0, <2>1, <2>2 DEF Rows
  <2>4. employee'[Target(r)] = row /\ \A e \in Staff \ {Target(r)} : employee'[e] = employee[e]
    BY <1>0, <1>3, <2>1, <2>2 DEF DeleteEmployee
  <2>5. at[r] = "delete" /\ at'[r] = "done"
    BY <1>0, <1>3 DEF DeleteEmployee, Reply, Goto
  <2> QED BY <2>3, <2>4, <2>5 DEF Fires
<1> QED BY <1>1, <1>2, <1>3, StatementWrites DEF Writes

Active == {e \in Staff : Employed(e)}
Apart(set) == \A r, o \in set : r \in Requests => o \notin met[r]
Counted(r) == Kind(r) = "createEmployee" /\ at[r] \in {"linkable", "services", "insert"}

(* Of employees whose creations did not overlap there are no more than the *)
(* plan allows, and whoever counted them found room for one more, those    *)
(* whom it met aside.                                                      *)
LimitInv ==
    /\ MetInv
    /\ IsFiniteSet(Active)
    /\ \A set \in SUBSET Active : Apart(set) => Cardinality(set) <= StaffLimit
    /\ \A r \in Requests : Counted(r) => Cardinality(Active \ met[r]) < StaffLimit

LEMMA Fewer ==
    ASSUME NEW S, NEW T, IsFiniteSet(S), T \subseteq S
    PROVE  /\ IsFiniteSet(T) /\ Cardinality(T) <= Cardinality(S)
           /\ Cardinality(S) \in Nat /\ Cardinality(T) \in Nat
BY FS_Subset, FS_CardinalityType

LEMMA OneLess ==
    ASSUME NEW S, IsFiniteSet(S), NEW x \in S
    PROVE  IsFiniteSet(S \ {x}) /\ Cardinality(S) = Cardinality(S \ {x}) + 1
<1>1. IsFiniteSet(S \ {x}) /\ Cardinality(S \ {x}) = Cardinality(S) - 1
  BY FS_RemoveElement
<1>2. Cardinality(S) \in Nat /\ Cardinality(S \ {x}) \in Nat
  BY <1>1, FS_CardinalityType
<1> QED BY <1>1, <1>2

LEMMA OneMore ==
    ASSUME NEW S, IsFiniteSet(S), NEW x
    PROVE  IsFiniteSet(S \cup {x})
BY FS_AddElement

(* Where nobody is hired. *)
LEMMA LimitStays ==
    ASSUME LimitInv, MetInv', Active' \subseteq Active,
           \A o \in Requests : Started(o) => met[o] \subseteq met'[o],
           NEW r \in Requests,
           \A o \in Requests \ {r} : at'[o] = at[o] /\ req'[o] = req[o],
           Counted(r)' => Counted(r) \/ Cardinality(Active \ met'[r]) < StaffLimit
    PROVE  LimitInv'
<1>0. IsFiniteSet(Active) /\ StaffLimit \in Nat /\ \A o \in Requests : ~Started(o) => met[o] = {}
  BY SalonAssumption DEF LimitInv, MetInv, MetSound, TypeInv, TypeOK
<1>1. \A o \in Requests : met[o] \subseteq met'[o]
  BY <1>0
<1>2. IsFiniteSet(Active')
  BY <1>0, Fewer
<1>3. ASSUME NEW set \in SUBSET Active', Apart(set)' PROVE Cardinality(set) <= StaffLimit
  <2>1. Apart(set) /\ set \in SUBSET Active
    BY <1>1, <1>3 DEF Apart
  <2> QED BY <2>1 DEF LimitInv
<1>4. ASSUME NEW o \in Requests, Counted(o)' PROVE Cardinality(Active' \ met'[o]) < StaffLimit
  <2>1. CASE Counted(o)
    <3>1. Active' \ met'[o] \subseteq Active \ met[o] /\ IsFiniteSet(Active \ met[o])
      BY <1>0, <1>1, Fewer
    <3>2. Cardinality(Active' \ met'[o]) <= Cardinality(Active \ met[o])
          /\ Cardinality(Active' \ met'[o]) \in Nat /\ Cardinality(Active \ met[o]) \in Nat
      BY <3>1, Fewer
    <3>3. Cardinality(Active \ met[o]) < StaffLimit
      BY <2>1 DEF LimitInv
    <3> QED BY <1>0, <3>2, <3>3
  <2>2. CASE ~Counted(o)
    <3>1. o = r /\ Cardinality(Active \ met'[o]) < StaffLimit
      BY <1>4, <2>2 DEF Counted, Kind
    <3>2. Active' \ met'[o] \subseteq Active \ met'[o] /\ IsFiniteSet(Active \ met'[o])
      BY <1>0, Fewer
    <3>3. Cardinality(Active' \ met'[o]) <= Cardinality(Active \ met'[o])
          /\ Cardinality(Active' \ met'[o]) \in Nat /\ Cardinality(Active \ met'[o]) \in Nat
      BY <3>2, Fewer
    <3> QED BY <1>0, <3>1, <3>3
  <2> QED BY <2>1, <2>2
<1> QED BY <1>2, <1>3, <1>4 DEF LimitInv

LEMMA LimitHires ==
    ASSUME LimitInv, MetInv', NEW r \in Requests, Statement(r), Hires(r)
    PROVE  LimitInv'
<1>1. /\ Works(r) /\ Alone(r) /\ met' = met /\ Fits(at[r], req[r].kind)
      /\ IsFiniteSet(Active) /\ StaffLimit \in Nat
      /\ employee \in [Staff -> Rows]
  BY SalonAssumption, StatementWorks, WorkBody
  DEF Works, LimitInv, MetInv, TypeInv, TypeOK, Local, Placed, Rows
<1>2. Active' = Active \cup {r}
  BY <1>1 DEF Hires, Active, Employed, Staff
<1>3. IsFiniteSet(Active')
  BY <1>1, <1>2, OneMore
<1>4. Cardinality(Active \ met[r]) < StaffLimit
  BY <1>1 DEF Hires, LimitInv, Counted, Fits, Kind
<1>5. ASSUME NEW set \in SUBSET Active', Apart(set)' PROVE Cardinality(set) <= StaffLimit
  <2>1. CASE r \notin set
    BY <1>1, <1>2, <1>5, <2>1 DEF LimitInv, Apart
  <2>2. CASE r \in set
    <3>1. set \ {r} \subseteq Active \ met[r]
      BY <1>1, <1>2, <1>5, <2>2 DEF Apart
    <3>2. IsFiniteSet(set) /\ IsFiniteSet(Active \ met[r])
      BY <1>1, <1>3, Fewer
    <3>3. Cardinality(set) = Cardinality(set \ {r}) + 1
      BY <2>2, <3>2, OneLess
    <3>4. Cardinality(set \ {r}) <= Cardinality(Active \ met[r])
          /\ Cardinality(set \ {r}) \in Nat /\ Cardinality(Active \ met[r]) \in Nat
      BY <3>1, <3>2, Fewer
    <3> QED BY <1>1, <1>4, <3>3, <3>4
  <2> QED BY <2>1, <2>2
<1>6. ASSUME NEW o \in Requests, Counted(o)' PROVE Cardinality(Active' \ met'[o]) < StaffLimit
  <2>1. o # r /\ Counted(o) /\ at[o] \notin {"idle", "done"}
    BY <1>1, <1>6 DEF Hires, Alone, Counted, Kind
  <2>2. r \in met[o]
    BY <1>1, <2>1, BusyMeet DEF LimitInv, Works
  <2>3. Active' \ met'[o] = Active \ met[o]
    BY <1>1, <1>2, <2>2
  <2> QED BY <2>1, <2>3 DEF LimitInv
<1> QED BY <1>3, <1>5, <1>6 DEF LimitInv

LEMMA LimitStep == LimitInv /\ [Next]_vars => LimitInv'
<1> SUFFICES ASSUME LimitInv, [Next]_vars PROVE LimitInv'
  OBVIOUS
<1>0. MetInv'
  BY MetStep DEF LimitInv
<1>1. \A o \in Requests : Started(o) => met[o] \subseteq met'[o]
  BY Keeps DEF LimitInv, MetInv
<1>2. ASSUME NEW r \in Requests, Sending(r) PROVE LimitInv'
  <2>1. Sends(r) /\ Alone(r)
    BY <1>2, SendMoves, SendBody DEF LimitInv, MetInv
  <2>2. Active' = Active /\ ~Counted(r)'
    BY <2>1 DEF Sends, First, Active, Employed, Counted, rows, team
  <2>3. \A o \in Requests \ {r} : at'[o] = at[o] /\ req'[o] = req[o]
    BY <2>1 DEF Alone
  <2> QED BY <1>0, <1>1, <2>2, <2>3, LimitStays
<1>3. ASSUME NEW r \in Requests, Statement(r) PROVE LimitInv'
  <2>1. Works(r) /\ Alone(r) /\ SameBody(req[r], req'[r]) /\ Arrives(r)
    BY <1>3, StatementWorks, WorkBody, StatementArrives DEF LimitInv, MetInv
  <2>2. CASE Hires(r)
    BY <1>0, <1>3, <2>2, LimitHires
  <2>3. CASE ~Hires(r)
    <3>1. Active' \subseteq Active
      BY <1>3, <2>3, StaffMoves DEF Edits, Fires, Active, Employed, LimitInv, MetInv
    <3>2. \A o \in Requests \ {r} : at'[o] = at[o] /\ req'[o] = req[o]
      BY <2>1 DEF Alone
    <3>3. ASSUME Counted(r)' PROVE Counted(r) \/ Cardinality(Active \ met'[r]) < StaffLimit
      <4>1. Kind(r) = "createEmployee" /\ Fits(at[r], req[r].kind)
        BY <2>1, <3>3 DEF Counted, Kind, SameBody, LimitInv, MetInv, TypeInv, Local, Placed
      <4>2. CASE CountStaff(r)
        <5>1. Cardinality(Active) < StaffLimit
          BY <3>3, <4>2 DEF CountStaff, Proceed, Reply, Goto, Active, Counted, LimitInv,
             MetInv, TypeInv, Local
        <5>2. IsFiniteSet(Active) /\ StaffLimit \in Nat
          BY SalonAssumption DEF LimitInv
        <5>3. Cardinality(Active \ met'[r]) <= Cardinality(Active)
              /\ Cardinality(Active \ met'[r]) \in Nat /\ Cardinality(Active) \in Nat
          BY <5>2, Fewer
        <5> QED BY <5>1, <5>2, <5>3
      <4>3. CASE ~CountStaff(r)
        BY <2>1, <3>3, <4>1, <4>3
        DEF Arrives, Counted, FindEmployee, CheckUserLinkable, ValidateServices, Fits, OnStaff, Kind
      <4> QED BY <4>2, <4>3
    <3> QED BY <1>0, <1>1, <3>1, <3>2, <3>3, LimitStays
  <2> QED BY <2>2, <2>3
<1>4. CASE UNCHANGED vars
  BY <1>0, <1>4 DEF vars, rows, team, LimitInv, Active, Employed, Apart, Counted, Kind
<1> QED BY <1>2, <1>3, <1>4, StepCases

LEMMA LimitInit == Init => LimitInv
<1> SUFFICES ASSUME Init PROVE LimitInv
  OBVIOUS
<1>1. Active = FirstStaff
  BY DEF Init, Active, Employed, Staff
<1>2. IsFiniteSet(FirstStaff) /\ Cardinality(FirstStaff) <= StaffLimit /\ StaffLimit \in Nat
  BY SalonAssumption
<1>3. ASSUME NEW set \in SUBSET Active PROVE Cardinality(set) <= StaffLimit
  <2>1. Cardinality(set) <= Cardinality(FirstStaff)
        /\ Cardinality(set) \in Nat /\ Cardinality(FirstStaff) \in Nat
    BY <1>1, <1>2, Fewer
  <2> QED BY <1>2, <2>1
<1>4. \A r \in Requests : ~Counted(r)
  BY DEF Init, Counted
<1> QED BY <1>1, <1>2, <1>3, <1>4, MetInit DEF LimitInv

-----------------------------------------------------------------------------
(* What a creation that is refused leaves behind *)

(* Which statements refuse the creation of an employee, and which end in   *)
(* an unforeseen error.                                                    *)
Says(r) ==
    /\ req[r].kind = "createEmployee" /\ req'[r].answer = "refused" =>
           at[r] \in {"count", "linkable", "services"} \/ ValidateAssigned(r)
    /\ req'[r].answer = "error" =>
           \/ InsertEmployee(r) \/ UpdateEmployee(r) \/ ReplaceSkills(r)
           \/ SetDate(r) \/ FindConflicting(r)

LEMMA StatementSays ==
    ASSUME TypeInv, NEW r \in Requests, Statement(r)
    PROVE  Says(r)
<1>0. /\ Fits(at[r], req[r].kind) /\ req \in [Requests -> Request]
      /\ req[r].answer \notin {"refused", "error"} /\ at[r] \notin {"idle", "done"}
  BY StatementWorks, SalonAssumption DEF TypeInv, Local, Placed, Works, Replies
<1>00. /\ \A a : Reply(r, a) => req'[r].answer = a
       /\ \A ok, place : Proceed(r, ok, place) => req' = req \/ Reply(r, "refused")
  <2>1. req[r] \in Request
    BY <1>0
  <2>2. ASSUME NEW a, Reply(r, a) PROVE req'[r].answer = a
    <3>1. req'[r] = [req[r] EXCEPT !.answer = a]
      BY <1>0, <2>2 DEF Reply
    <3> QED BY <2>1, <3>1 DEF Request
  <2> QED BY <2>2 DEF Proceed
<1>1. CASE CountStaff(r)
  BY <1>0, <1>00, <1>1 DEF CountStaff, Says
<1>2. CASE FindEmployee(r)
  BY <1>0, <1>00, <1>2 DEF FindEmployee, Says, Fits, OnStaff, OnHoliday, NewClient, CreatesService
<1>3. CASE CheckUserLinkable(r)
  BY <1>0, <1>00, <1>3 DEF CheckUserLinkable, Says
<1>4. CASE ValidateServices(r)
  BY <1>0, <1>00, <1>4 DEF ValidateServices, Says
<1>5. CASE InsertEmployee(r)
  BY <1>0, <1>00, <1>5 DEF InsertEmployee, Says, Fits, OnStaff, OnHoliday, NewClient, CreatesService
<1>6. CASE UpdateEmployee(r)
  BY <1>0, <1>00, <1>6 DEF UpdateEmployee, Says, Fits, OnStaff, OnHoliday, NewClient, CreatesService
<1>7. CASE DeleteEmployee(r)
  BY <1>0, <1>00, <1>7 DEF DeleteEmployee, Says, Fits, OnStaff, OnHoliday, NewClient, CreatesService
<1>8. CASE ValidateAssigned(r)
  BY <1>0, <1>00, <1>8 DEF ValidateAssigned, Says
<1>9. CASE ClearSkills(r)
  BY <1>0, <1>00, <1>9 DEF ClearSkills, Says, Fits, OnStaff, OnHoliday, NewClient, CreatesService
<1>10. CASE ReplaceSkills(r)
  BY <1>0, <1>00, <1>10 DEF ReplaceSkills, Says, Fits, OnStaff, OnHoliday, NewClient, CreatesService
<1>11. CASE ClearHours(r)
  BY <1>0, <1>00, <1>11 DEF ClearHours, Says, Fits, OnStaff, OnHoliday, NewClient, CreatesService
<1>12. CASE ReplaceHours(r)
  BY <1>0, <1>00, <1>12 DEF ReplaceHours, Says, Fits, OnStaff, OnHoliday, NewClient, CreatesService
<1>13. CASE CreateTimeOff(r)
  BY <1>0, <1>00, <1>13 DEF CreateTimeOff, Says, Fits, OnStaff, OnHoliday, NewClient, CreatesService
<1>14. CASE FindTimeOff(r)
  BY <1>0, <1>00, <1>14 DEF FindTimeOff, Says, Fits, OnStaff, OnHoliday, NewClient, CreatesService
<1>15. CASE DeleteTimeOff(r)
  BY <1>0, <1>00, <1>15 DEF DeleteTimeOff, Says, Fits, OnStaff, OnHoliday, NewClient, CreatesService
<1>16. CASE ReplaceBusinessHours(r)
  BY <1>0, <1>00, <1>16 DEF ReplaceBusinessHours, Says, Fits, OnStaff, OnHoliday, NewClient,
     CreatesService
<1>17. CASE FindHoliday(r)
  BY <1>0, <1>00, <1>17 DEF FindHoliday, Says, Fits, OnStaff, OnHoliday, NewClient, CreatesService
<1>18. CASE CheckDate(r)
  BY <1>0, <1>00, <1>18 DEF CheckDate, Says, Fits, OnStaff, OnHoliday, NewClient, CreatesService
<1>19. CASE SetDate(r)
  BY <1>0, <1>00, <1>19 DEF SetDate, Says, Fits, OnStaff, OnHoliday, NewClient, CreatesService
<1>20. CASE DeleteHoliday(r)
  BY <1>0, <1>00, <1>20 DEF DeleteHoliday, Says, Fits, OnStaff, OnHoliday, NewClient, CreatesService
<1>21. CASE FindService(r)
  BY <1>0, <1>00, <1>21 DEF FindService, Says, Fits, OnStaff, OnHoliday, NewClient, CreatesService
<1>22. CASE CheckCategory(r)
  BY <1>0, <1>00, <1>22 DEF CheckCategory, Says, Fits, OnStaff, OnHoliday, NewClient, CreatesService
<1>23. CASE SaveService(r)
  BY <1>0, <1>00, <1>23 DEF SaveService, Says, Fits, OnStaff, OnHoliday, NewClient, CreatesService
<1>24. CASE DeleteService(r)
  BY <1>0, <1>00, <1>24 DEF DeleteService, Says, Fits, OnStaff, OnHoliday, NewClient, CreatesService
<1>25. CASE ReadSettings(r)
  BY <1>0, <1>00, <1>25 DEF ReadSettings, Says, Fits, OnStaff, OnHoliday, NewClient, CreatesService
<1>26. CASE UpdateCategories(r)
  BY <1>0, <1>00, <1>26 DEF UpdateCategories, Says, Fits, OnStaff, OnHoliday, NewClient,
     CreatesService
<1>27. CASE FindByPhone(r)
  BY <1>0, <1>00, <1>27 DEF FindByPhone, Says, Fits, OnStaff, OnHoliday, NewClient, CreatesService
<1>28. CASE CreateCustomer(r)
  BY <1>0, <1>00, <1>28 DEF CreateCustomer, Says, Fits, OnStaff, OnHoliday, NewClient,
     CreatesService
<1>29. CASE FindConflicting(r)
  BY <1>0, <1>00, <1>29 DEF FindConflicting, Says, Fits, OnStaff, OnHoliday, NewClient,
     CreatesService
<1>30. CASE FindCustomer(r)
  BY <1>0, <1>00, <1>30 DEF FindCustomer, Says, Fits, OnStaff, OnHoliday, NewClient, CreatesService
<1>31. CASE DeleteCustomer(r)
  BY <1>0, <1>00, <1>31 DEF DeleteCustomer, Says, Fits, OnStaff, OnHoliday, NewClient,
     CreatesService
<1>32. CASE HandlerFails(r)
  BY <1>0, <1>00, <1>32 DEF HandlerFails, Says, Fits, OnStaff, OnHoliday, NewClient, CreatesService
<1> QED BY <1>1, <1>2, <1>3, <1>4, <1>5, <1>6, <1>7, <1>8, <1>9, <1>10, <1>11, <1>12, <1>13,
  <1>14, <1>15, <1>16, <1>17, <1>18, <1>19, <1>20, <1>21, <1>22, <1>23, <1>24, <1>25, <1>26,
  <1>27, <1>28, <1>29, <1>30, <1>31, <1>32 DEF Statement

(* A request that deleted a service while r ran. *)
Gone(r, s) == \E o \in met[r] : Kind(o) = "deleteService" /\ Target(o) = s

Creates(r) == Kind(r) = "createEmployee"
NotYet(r) ==
    ~Creates(r) \/ at[r] \in {"count", "linkable", "services", "insert"} => employee[r].state = "none"
Valid(r) ==
    Creates(r) /\ at[r] \in {"insert", "assignable"} =>
        \A s \in req[r].services : Offered(s) \/ Gone(r, s)
LeftNobody(r) ==
    Creates(r) /\ at[r] = "done" /\ req[r].answer = "refused" =>
        employee[r].state = "none" \/ \E s \in req[r].services : Gone(r, s)

RefusedInv ==
    /\ MetInv
    /\ \A r \in Requests : NotYet(r) /\ Valid(r) /\ LeftNobody(r)

LEMMA GoneStays ==
    ASSUME MetInv, [Next]_vars, NEW r \in Requests, NEW s, Gone(r, s)
    PROVE  Gone(r, s)'
<1>1. PICK o \in met[r] : Kind(o) = "deleteService" /\ Target(o) = s
  BY DEF Gone
<1>2. o \in Requests /\ Started(o) /\ Started(r)
  BY <1>1 DEF MetInv, MetSound, TypeInv, TypeOK
<1>3. SameBody(req[o], req'[o]) /\ met[r] \subseteq met'[r]
  BY <1>2, Keeps DEF MetInv
<1> QED BY <1>1, <1>3 DEF Gone, Kind, Target, SameBody

(* A service is withdrawn only by the request to delete it. *)
LEMMA OfferLasts ==
    ASSUME MetInv, NEW r \in Requests, Statement(r), NEW s \in Services, Offered(s), ~Offered(s)'
    PROVE  Kind(r) = "deleteService" /\ Target(r) = s /\ DeleteService(r)
<1>1. /\ Fits(at[r], req[r].kind) /\ Carries(r, req[r])
      /\ service \in [Services -> [state: States, length: Nat \ {0}, buffer: Nat,
                                   category: Categories \cup {None}]]
  BY DEF MetInv, TypeInv, TypeOK, Local, Placed
<1>2. ASSUME SaveService(r) PROVE FALSE
  <2>1. PICK state, l, b, c :
            /\ state = IF Kind(r) = "createService" THEN "live" ELSE service[Target(r)].state
            /\ service' = [service EXCEPT ![Target(r)] =
                   [state |-> state, length |-> l, buffer |-> b, category |-> c]]
    <3>1. Target(r) \in Services
      BY <1>1, <1>2 DEF SaveService, Fits, Carries, CreatesService, Target, Services
    <3> QED BY <1>1, <1>2, <3>1 DEF SaveService
  <2>2. service'[s].state = service[s].state \/ service'[s].state = "live"
    BY <1>1, <2>1
  <2> QED BY <2>2 DEF Offered
<1>3. DeleteService(r)
  BY <1>2, StatementWrites DEF Writes, Offered, MetInv
<1>4. service' # service
  BY DEF Offered
<1>5. Kind(r) # "deleteCategory" /\ service' = [service EXCEPT ![Target(r)].state = "deleted"]
  BY <1>3, <1>4 DEF DeleteService
<1>6. Kind(r) = "deleteService"
  BY <1>1, <1>3, <1>5 DEF DeleteService, Fits, Kind
<1>7. s = Target(r)
  BY <1>1, <1>5 DEF Offered
<1> QED BY <1>3, <1>6, <1>7

LEMMA NotYetStep ==
    ASSUME RefusedInv, NEW r \in Requests, Statement(r), NEW o \in Requests
    PROVE  NotYet(o)' /\ (at[o] = "done" => employee'[o] = employee[o] \/ employee[o].state # "none")
<1>1. /\ Works(r) /\ Alone(r) /\ SameBody(req[r], req'[r]) /\ Arrives(r)
      /\ Carries(r, req[r]) /\ Fits(at[r], req[r].kind)
      /\ employee \in [Staff -> Rows] /\ o \in Staff
  BY StatementWorks, WorkBody, StatementArrives
  DEF RefusedInv, MetInv, TypeInv, TypeOK, Local, Placed, Rows, Staff
<1>2. \/ employee'[o] = employee[o]
      \/ employee[o].state # "none"
      \/ o = r /\ at[r] = "insert" /\ at'[r] \in {"assignable", "done"}
  <2>1. CASE Hires(r)
    BY <1>1, <2>1 DEF Hires
  <2>2. CASE Edits(r)
    BY <1>1, <2>2 DEF Edits, Carries, Fits, OnStaff, Target
  <2>3. CASE Fires(r)
    BY <1>1, <2>3 DEF Fires, Carries, Fits, OnStaff, Target
  <2> QED BY <2>1, <2>2, <2>3, StaffMoves DEF RefusedInv, MetInv
<1>3. NotYet(o)
  BY DEF RefusedInv
<1>4. CASE o # r
  <2>1. at'[o] = at[o] /\ req'[o] = req[o]
    BY <1>1, <1>4 DEF Alone
  <2> QED BY <1>2, <1>3, <1>4, <2>1 DEF NotYet, Creates, Kind
<1>5. CASE o = r
  <2>1. at[r] \notin {"idle", "done"} /\ (Creates(r)' <=> Creates(r))
    BY <1>1 DEF Works, SameBody, Creates, Kind
  <2>2. at[r] = "insert" => Creates(r)
    BY <1>1 DEF Fits, Creates, Kind
  <2>3. ASSUME Creates(r), at'[r] \in {"count", "linkable", "services", "insert"}
        PROVE  at[r] \in {"count", "linkable", "services"}
    BY <1>1, <2>3 DEF Arrives, CountStaff, FindEmployee, CheckUserLinkable, ValidateServices,
                      Fits, OnStaff, Creates, Kind
  <2> QED BY <1>2, <1>3, <1>5, <2>1, <2>2, <2>3 DEF NotYet
<1> QED BY <1>2, <1>4, <1>5, <1>1 DEF Works

LEMMA ValidStep ==
    ASSUME RefusedInv, [Next]_vars, NEW r \in Requests, Statement(r), NEW o \in Requests
    PROVE  Valid(o)'
<1>1. /\ Works(r) /\ Alone(r) /\ SameBody(req[r], req'[r]) /\ Arrives(r)
      /\ Carries(o, req[o]) /\ Fits(at[r], req[r].kind) /\ MetInv
  BY StatementWorks, WorkBody, StatementArrives
  DEF RefusedInv, MetInv, TypeInv, Local, Placed
<1>2. req'[o].services = req[o].services /\ (Creates(o)' <=> Creates(o))
  BY <1>1 DEF Alone, SameBody, Creates, Kind
<1> SUFFICES ASSUME Creates(o), at'[o] \in {"insert", "assignable"}, NEW s \in req[o].services
             PROVE  Offered(s)' \/ Gone(o, s)'
  BY <1>2 DEF Valid
<1>3. s \in Services
  BY <1>1 DEF Carries, Creates, Kind
<1>4. Gone(o, s) => Gone(o, s)'
  BY <1>1, GoneStays
<1>5. CASE o # r
  <2>1. at[o] = at'[o] /\ (Offered(s) \/ Gone(o, s))
    BY <1>1, <1>5 DEF Alone, RefusedInv, Valid
  <2>2. ASSUME Offered(s), ~Offered(s)' PROVE Gone(o, s)'
    <3>1. Kind(r) = "deleteService" /\ Target(r) = s
      BY <1>1, <1>3, <2>2, OfferLasts
    <3>2. r \in met[o]
      BY <1>1, <1>5, <2>1, BusyMeet DEF Works
    <3>3. Gone(o, s)
      BY <3>1, <3>2 DEF Gone
    <3> QED BY <1>4, <3>3
  <2> QED BY <1>4, <2>1, <2>2
<1>6. CASE o = r /\ ValidateServices(r)
  BY <1>1, <1>6 DEF ValidateServices, Proceed, Reply, Goto, Offered, rows, catalog, MetInv,
     TypeInv, Local
<1>7. CASE o = r /\ InsertEmployee(r)
  <2>1. (Offered(s) \/ Gone(o, s)) /\ service' = service
    BY <1>7 DEF InsertEmployee, RefusedInv, Valid, catalog
  <2> QED BY <1>4, <2>1 DEF Offered
<1>8. (~FindEmployee(r) /\ ~UpdateEmployee(r)) \/ o # r
  BY <1>1 DEF FindEmployee, UpdateEmployee, Fits, OnStaff, Creates, Kind
<1> QED BY <1>1, <1>5, <1>6, <1>7, <1>8 DEF Arrives

LEMMA LeftStep ==
    ASSUME RefusedInv, [Next]_vars, NEW r \in Requests, Statement(r), NEW o \in Requests
    PROVE  LeftNobody(o)'
<1>1. /\ Works(r) /\ Alone(r) /\ SameBody(req[r], req'[r]) /\ Says(r)
      /\ MetInv /\ NotYet(o) /\ Valid(o) /\ LeftNobody(o) /\ employee \in [Staff -> Rows] /\ r \in Staff
  BY StatementWorks, WorkBody, StatementSays
  DEF RefusedInv, MetInv, TypeInv, TypeOK, Rows, Staff
<1>2. req'[o].services = req[o].services /\ (Creates(o)' <=> Creates(o))
  BY <1>1 DEF Alone, SameBody, Creates, Kind
<1> SUFFICES ASSUME Creates(o), at'[o] = "done", req'[o].answer = "refused"
             PROVE  employee'[o].state = "none" \/ \E s \in req[o].services : Gone(o, s)'
  BY <1>2 DEF LeftNobody
<1>3. \A s : Gone(o, s) => Gone(o, s)'
  BY <1>1, GoneStays
<1>4. CASE o # r
  <2>1. at[o] = "done" /\ req[o].answer = "refused"
    BY <1>1, <1>4 DEF Alone
  <2>2. employee'[o] = employee[o] \/ employee[o].state # "none"
    BY <2>1, NotYetStep
  <2> QED BY <1>1, <1>3, <2>1, <2>2 DEF LeftNobody
<1>5. CASE o = r /\ at[r] \in {"count", "linkable", "services"}
  <2>1. employee[r].state = "none" /\ Creates(r)
    BY <1>1, <1>5 DEF NotYet
  <2>2. ~Hires(r) /\ ~Edits(r) /\ ~Fires(r)
    BY <1>5 DEF Hires, Edits, Fires
  <2> QED BY <1>1, <1>5, <2>1, <2>2, StaffMoves DEF MetInv
<1>6. CASE o = r /\ ValidateAssigned(r)
  <2>1. PICK s \in req[r].services : ~Offered(s)
    BY <1>1, <1>6 DEF ValidateAssigned, Proceed, Goto, MetInv, TypeInv, Local
  <2>2. Gone(r, s)
    BY <1>1, <1>6, <2>1 DEF ValidateAssigned, Valid
  <2> QED BY <1>3, <1>6, <2>2
<1> QED BY <1>1, <1>4, <1>5, <1>6 DEF Says, Creates, Kind

LEMMA RefusedStep == RefusedInv /\ [Next]_vars => RefusedInv'
<1> SUFFICES ASSUME RefusedInv, [Next]_vars PROVE RefusedInv'
  OBVIOUS
<1>0. MetInv' /\ MetInv
  BY MetStep DEF RefusedInv
<1>1. ASSUME NEW r \in Requests, Sending(r), NEW o \in Requests
      PROVE  NotYet(o)' /\ Valid(o)' /\ LeftNobody(o)'
  <2>1. Sends(r) /\ Alone(r) /\ employee' = employee /\ service' = service
    BY <1>0, <1>1, SendMoves, SendBody DEF MetInv, Sends, rows, team, catalog
  <2>2. NotYet(o) /\ Valid(o) /\ LeftNobody(o) /\ \A s : Gone(o, s) => Gone(o, s)'
    BY <1>0, GoneStays DEF RefusedInv
  <2>3. CASE o # r
    <3>1. at'[o] = at[o] /\ req'[o] = req[o]
      BY <2>1, <2>3 DEF Alone
    <3>2. \A s : Offered(s)' <=> Offered(s)
      BY <2>1 DEF Offered
    <3> QED BY <2>1, <2>2, <3>1, <3>2 DEF NotYet, Valid, LeftNobody, Creates, Kind
  <2>4. CASE o = r
    <3>1. ~Creates(r) /\ at'[r] \in First
      BY <1>0, <2>1, SalonAssumption DEF Sends, MetInv, TypeInv, Local, Placed, Idle,
         Creates, Kind, AllKinds
    <3>2. employee'[r].state = "none"
      BY <2>1, <2>2, <2>4, <3>1 DEF NotYet
    <3> QED BY <2>4, <3>1, <3>2 DEF NotYet, Valid, LeftNobody, First
  <2> QED BY <2>3, <2>4
<1>2. ASSUME NEW r \in Requests, Statement(r) PROVE RefusedInv'
  BY <1>0, <1>2, NotYetStep, ValidStep, LeftStep DEF RefusedInv
<1>3. ASSUME UNCHANGED vars, NEW o \in Requests PROVE NotYet(o)' /\ Valid(o)' /\ LeftNobody(o)'
  <2>1. NotYet(o) /\ Valid(o) /\ LeftNobody(o) /\ \A s : Gone(o, s) => Gone(o, s)'
    BY <1>0, GoneStays DEF RefusedInv
  <2> QED BY <1>3, <2>1 DEF vars, rows, team, catalog, NotYet, Valid, LeftNobody, Creates,
    Kind, Offered
<1> QED BY <1>0, <1>1, <1>2, <1>3, StepCases DEF RefusedInv

LEMMA RefusedInit == Init => RefusedInv
<1> SUFFICES ASSUME Init PROVE RefusedInv
  OBVIOUS
<1>1. ASSUME NEW r \in Requests PROVE NotYet(r) /\ Valid(r) /\ LeftNobody(r)
  <2>1. employee[r].state = "none" /\ at[r] = "idle"
    BY SalonAssumption DEF Init, Staff
  <2> QED BY <2>1 DEF NotYet, Valid, LeftNobody
<1> QED BY <1>1, MetInit DEF RefusedInv

-----------------------------------------------------------------------------
(* Unforeseen errors *)

Exists(e) == employee[e].state # "none"

UsersUnique ==
    \A e, f \in Staff :
        Exists(e) /\ Exists(f) /\ employee[e].user # None /\ employee[e].user = employee[f].user => e = f

HolidaysUnique == \A h, g \in Requests : holiday[h] # None /\ holiday[h] = holiday[g] => h = g

NobodyOn(user) == \A e \in Linked(user) : ~Employed(e)

(* A deleted employee holds the user for good: nobody is about to give the *)
(* row another.                                                            *)
Holds(e, user) ==
    /\ e \in Linked(user) /\ employee[e].state = "deleted"
    /\ \A o \in Requests :
           Kind(o) = "updateEmployee" /\ at[o] \in {"linkable", "update"} => Target(o) # e

(* What a check found still holds when it is acted upon. *)
StillTrue(r) ==
    /\ at[r] \in {"services", "insert"} /\ req[r].user # None => NobodyOn(req[r].user)
    /\ at[r] = "update" /\ req[r].user # None =>
           employee[Target(r)].user = req[r].user \/ NobodyOn(req[r].user)
    /\ at[r] = "setDate" => \A d \in req[r].dates : HolidaysOn(d) \subseteq {Target(r)}
    /\ at[r] = "newCustomer" => OnPhone(req[r].phone) = {}
    /\ at[r] # "conflict"

Excused(r) ==
    req[r].answer = "error" =>
        /\ Kind(r) \in {"createEmployee", "updateEmployee"}
        /\ \E e \in Staff : Holds(e, req[r].user)

(* A request that met nobody can rely on what it checked, and ends in an   *)
(* error only because of a user whom a deleted employee holds.             *)
ErrorInv ==
    /\ WholeInv /\ RefusedInv
    /\ UsersUnique /\ HolidaysUnique
    /\ \A r \in Requests : met[r] = {} => StillTrue(r) /\ Excused(r)

LEMMA Undisturbed ==
    ASSUME MetInv, NEW r \in Requests, at[r] \notin {"idle", "done"},
           NEW o \in Requests, met'[r] = {}
    PROVE  ~Sending(o) /\ (Statement(o) => o = r)
<1>1. ASSUME Sending(o) PROVE FALSE
  <2>1. Sends(o)
    BY <1>1, SendMoves DEF MetInv
  <2>2. o # r
    BY <2>1 DEF Sends
  <2> QED BY <2>1, <2>2 DEF Sends, Meeting, Busy
<1>2. ASSUME Statement(o), o # r PROVE FALSE
  <2>1. Works(o)
    BY <1>2, StatementWorks DEF MetInv
  <2>2. o \in met[r] /\ met' = met
    BY <1>2, <2>1, BusyMeet DEF Works
  <2> QED BY <2>2
<1> QED BY <1>1, <1>2

LEMMA UniqueStep ==
    ASSUME ErrorInv, NEW r \in Requests, Statement(r)
    PROVE  UsersUnique' /\ HolidaysUnique'
<1>1. /\ Carries(r, req[r]) /\ Fits(at[r], req[r].kind)
      /\ employee \in [Staff -> Rows] /\ holiday \in [Requests -> Dates \cup {None}] /\ r \in Staff
      /\ UsersUnique /\ HolidaysUnique /\ TypeInv
  BY DEF ErrorInv, WholeInv, MetInv, TypeInv, TypeOK, Local, Placed, Rows, Staff
<1>2. UsersUnique'
  <2>1. CASE employee' = employee
    BY <1>1, <2>1 DEF UsersUnique, Exists
  <2>2. CASE Hires(r)
    <3>1. employee'[r].user = req[r].user /\ \A e \in Staff \ {r} : employee'[e] = employee[e]
      BY <1>1, <2>2 DEF Hires
    <3>2. req[r].user # None => \A e \in Staff : Exists(e) => employee[e].user # req[r].user
      BY <2>2 DEF Hires, Linked, Exists
    <3> QED BY <1>1, <3>1, <3>2 DEF UsersUnique, Exists
  <2>3. CASE Edits(r)
    <3>1. \A e \in Staff : Exists(e)' <=> Exists(e)
      BY <2>3 DEF Edits, Exists
    <3>2. \A e \in Staff \ {Target(r)} : employee'[e].user = employee[e].user
      BY <2>3 DEF Edits
    <3>3. CASE employee'[Target(r)].user \in {None, employee[Target(r)].user}
      <4>1. \A e \in Staff : employee'[e].user \in {None, employee[e].user}
        BY <3>2, <3>3
      <4> QED BY <1>1, <3>1, <4>1 DEF UsersUnique
    <3>4. CASE req[r].user # None /\ employee'[Target(r)].user = req[r].user
      <4>1. \A e \in Staff \ {Target(r)} : Exists(e) => employee[e].user # req[r].user
        BY <2>3, <3>4 DEF Edits, Linked, Exists
      <4> QED BY <1>1, <3>1, <3>2, <3>4, <4>1 DEF UsersUnique
    <3> QED BY <2>3, <3>3, <3>4 DEF Edits
  <2>4. CASE Fires(r)
    <3>1. \A e \in Staff : Exists(e)' <=> Exists(e)
      BY <1>1, <2>4 DEF Fires, Exists, Carries, Fits, OnStaff, Target
    <3> QED BY <1>1, <2>4, <3>1 DEF Fires, UsersUnique
  <2> QED BY <1>1, <2>1, <2>2, <2>3, <2>4, StaffMoves
<1>3. HolidaysUnique'
  <2>1. CASE SetDate(r) /\ holiday' # holiday
    <3>1. Target(r) \in Requests
      BY <1>1, <2>1 DEF SetDate, Fits, Carries, OnHoliday, Target
    <3>2. PICK d : d = CHOOSE x \in req[r].dates : TRUE
      OBVIOUS
    <3>3. holiday' = [holiday EXCEPT ![Target(r)] = d] /\ HolidaysOn(d) \subseteq {Target(r)}
      BY <2>1, <3>2 DEF SetDate
    <3> QED BY <1>1, <3>1, <3>3 DEF HolidaysUnique, HolidaysOn
  <2>2. CASE DeleteHoliday(r)
    <3>1. holiday' = [holiday EXCEPT ![Target(r)] = None]
      BY <2>2 DEF DeleteHoliday
    <3> QED BY <1>1, <3>1 DEF HolidaysUnique
  <2>3. CASE holiday' = holiday
    BY <1>1, <2>3 DEF HolidaysUnique
  <2> QED BY <1>1, <2>1, <2>2, <2>3, StatementWrites DEF Writes
<1> QED BY <1>2, <1>3

LEMMA StillTrueStep ==
    ASSUME ErrorInv, NEW r \in Requests, Statement(r), met'[r] = {}
    PROVE  StillTrue(r)'
<1>1. /\ Works(r) /\ Alone(r) /\ SameBody(req[r], req'[r]) /\ Arrives(r) /\ TypeInv
      /\ Carries(r, req[r]) /\ Fits(at[r], req[r].kind) /\ Fits(at'[r], req[r].kind)
  BY StatementWorks, WorkBody, StatementArrives
  DEF ErrorInv, WholeInv, MetInv, TypeInv, Local, Placed, Works
<1>2. StillTrue(r) /\ HolidaysUnique
  BY <1>1 DEF Works, ErrorInv
<1>3. at \in [Requests -> Places] /\ holiday \in [Requests -> Dates \cup {None}]
  BY <1>1 DEF TypeInv, TypeOK, Local
<1>4. /\ req'[r].user = req[r].user /\ req'[r].dates = req[r].dates /\ req'[r].phone = req[r].phone
      /\ Target(r)' = Target(r)
  BY <1>1 DEF SameBody, Target
<1>5. ASSUME at'[r] \in {"services", "insert"}, req[r].user # None PROVE NobodyOn(req[r].user)'
  <2>1. employee' = employee
    BY <1>1, <1>5 DEF Arrives, CheckUserLinkable, ValidateServices, rows, team
  <2>2. NobodyOn(req[r].user)
    <3>1. CASE CheckUserLinkable(r)
      <4>1. Kind(r) = "createEmployee"
        BY <1>1, <1>3, <1>5 DEF Fits, Kind
      <4> QED BY <1>3, <1>5, <3>1, <4>1 DEF CheckUserLinkable, Proceed, Reply, Goto, NobodyOn
    <3>2. CASE ValidateServices(r)
      BY <1>2, <1>5, <3>2 DEF ValidateServices, StillTrue
    <3> QED BY <1>1, <1>5, <3>1, <3>2 DEF Arrives
  <2> QED BY <1>4, <2>1, <2>2 DEF NobodyOn, Linked, Employed
<1>6. ASSUME at'[r] = "update", req[r].user # None
      PROVE  employee'[Target(r)].user = req[r].user \/ NobodyOn(req[r].user)'
  <2>1. CheckUserLinkable(r)
    BY <1>1, <1>6 DEF Arrives
  <2>2. employee' = employee
    BY <2>1 DEF CheckUserLinkable, rows, team
  <2>3. employee[Target(r)].user = req[r].user \/ NobodyOn(req[r].user)
    BY <1>3, <1>6, <2>1 DEF CheckUserLinkable, Proceed, Reply, Goto, NobodyOn
  <2> QED BY <1>4, <2>2, <2>3 DEF NobodyOn, Linked, Employed
<1>7. ASSUME at'[r] = "setDate", NEW d \in req[r].dates PROVE HolidaysOn(d)' \subseteq {Target(r)}
  <2>1. holiday' = holiday
    BY <1>1, <1>7 DEF Arrives, FindHoliday, CheckDate, rows, salon
  <2>2. HolidaysOn(d) \subseteq {Target(r)}
    <3>1. CASE CheckDate(r)
      BY <1>3, <1>7, <3>1 DEF CheckDate, Proceed, Reply, Goto
    <3>2. CASE FindHoliday(r)
      <4>1. PICK x \in Dates : req[r].dates = {x}
        BY <1>1, <1>7 DEF Carries, Fits
      <4>2. holiday[Target(r)] # None /\ holiday[Target(r)] \in req[r].dates
        BY <1>3, <1>7, <3>2 DEF FindHoliday, Proceed, Reply, Goto
      <4>3. Target(r) \in Requests
        BY <1>1, <3>2 DEF FindHoliday, Fits, Carries, Target
      <4> QED BY <1>2, <4>1, <4>2, <4>3 DEF HolidaysUnique, HolidaysOn
    <3> QED BY <1>1, <1>7, <3>1, <3>2 DEF Arrives
  <2> QED BY <2>1, <2>2 DEF HolidaysOn
<1>8. ASSUME at'[r] = "newCustomer" PROVE OnPhone(req[r].phone)' = {}
  <2>1. FindByPhone(r)
    BY <1>1, <1>8 DEF Arrives
  <2>2. customer' = customer /\ OnPhone(req[r].phone) = {}
    BY <1>3, <1>8, <2>1 DEF FindByPhone, Reply, Goto, rows
  <2> QED BY <1>4, <2>2 DEF OnPhone
<1>9. at'[r] # "conflict"
  BY <1>1, <1>2, <1>3 DEF Arrives, CreateCustomer, Reply, Goto, StillTrue
<1> QED BY <1>4, <1>5, <1>6, <1>7, <1>8, <1>9 DEF StillTrue

(* Own step: who ends in an error although it met nobody. *)
LEMMA ExcusedStep ==
    ASSUME ErrorInv, NEW r \in Requests, Statement(r), met'[r] = {}
    PROVE  Excused(r)'
<1>1. /\ Works(r) /\ Alone(r) /\ SameBody(req[r], req'[r]) /\ Says(r) /\ TypeInv /\ MetInv
      /\ Carries(r, req[r]) /\ Fits(at[r], req[r].kind) /\ req[r].answer \notin Replies
      /\ at'[r] # "done" => req'[r] = req[r]
  BY SalonAssumption, StatementWorks, WorkBody, StatementSays
  DEF ErrorInv, WholeInv, MetInv, TypeInv, Local, Placed, Works
<1>2. /\ StillTrue(r) /\ UsersUnique /\ met[r] = {} /\ at[r] \notin {"idle", "done"}
      /\ at \in [Requests -> Places] /\ employee \in [Staff -> Rows]
      /\ req \in [Requests -> Request]
  BY <1>1 DEF Works, ErrorInv, TypeInv, TypeOK, Local, Rows
<1> SUFFICES ASSUME req'[r].answer = "error" PROVE Excused(r)'
  BY DEF Excused
<1>3. PICK u : u = req[r].user
  OBVIOUS
<1>4. req'[r].user = u /\ (Kind(r)' = Kind(r))
  BY <1>1, <1>3 DEF SameBody, Kind
<1>5. \A o \in Requests \ {r} : at[o] \in {"idle", "done"} /\ at'[o] = at[o]
  BY <1>1, <1>2, BusyMeet DEF Alone
<1>6. \A a : Reply(r, a) => at'[r] = "done" /\ req'[r].answer = a
  <2>1. ASSUME NEW a, Reply(r, a) PROVE at'[r] = "done" /\ req'[r].answer = a
    <3>1. at'[r] = "done" /\ req'[r] = [req[r] EXCEPT !.answer = a]
      BY <1>2, <2>1 DEF Reply, Goto
    <3>2. req[r] \in Request
      BY <1>2
    <3> QED BY <3>1, <3>2 DEF Request
  <2> QED BY <2>1
<1>7. at'[r] = "done"
  BY <1>1 DEF Replies
<1>8. ASSUME employee' = employee, NEW e \in Linked(u), employee[e].state = "deleted"
      PROVE  Holds(e, u)' /\ e \in Staff
  <2>1. \A o \in Requests : at'[o] \notin {"linkable", "update"}
    BY <1>5, <1>7
  <2> QED BY <1>8, <2>1 DEF Holds, Linked
<1>9. ASSUME employee' = employee, u # None, NEW e \in Linked(u), ~Employed(e),
             Kind(r) \in {"createEmployee", "updateEmployee"}
      PROVE  Excused(r)'
  <2>1. employee[e].state = "deleted"
    BY <1>2, <1>9 DEF Linked, Employed, Rows, States
  <2> QED BY <1>4, <1>8, <1>9, <2>1 DEF Excused
<1>10. CASE InsertEmployee(r)
  <2>1. u # None /\ Linked(u) # {} /\ employee' = employee
    BY <1>2, <1>3, <1>6, <1>7, <1>10 DEF InsertEmployee, Goto
  <2>2. NobodyOn(u) /\ Kind(r) = "createEmployee"
    BY <1>1, <1>2, <1>3, <1>10, <2>1 DEF InsertEmployee, StillTrue, Fits, Kind
  <2> QED BY <1>9, <2>1, <2>2 DEF NobodyOn
<1>11. CASE UpdateEmployee(r)
  <2>1. u # None /\ Linked(u) \ {Target(r)} # {} /\ employee' = employee
    BY <1>2, <1>3, <1>6, <1>7, <1>11 DEF UpdateEmployee, Goto
  <2>2. Kind(r) = "updateEmployee" /\ Target(r) \in Staff /\ Exists(Target(r)) /\ at[r] = "update"
    BY <1>1, <1>11 DEF UpdateEmployee, Fits, Carries, OnStaff, Kind, Target, Exists
  <2>3. PICK e \in Linked(u) : e # Target(r)
    BY <2>1
  <2>4. employee[Target(r)].user # u
    BY <1>2, <2>1, <2>2, <2>3 DEF UsersUnique, Exists, Linked
  <2>5. NobodyOn(u)
    BY <1>2, <1>3, <2>1, <2>2, <2>4 DEF StillTrue
  <2> QED BY <1>9, <2>1, <2>2, <2>3, <2>5 DEF NobodyOn
<1>12. CASE ReplaceSkills(r)
  <2>1. LeftBehind(r, skills)
    BY <1>12 DEF ReplaceSkills, ErrorInv, WholeInv
  <2>2. \A x \in skills \ seen[r] : x.employee # Target(r)
    BY <1>2, <2>1 DEF LeftBehind
  <2> QED BY <1>6, <1>12, <2>2 DEF ReplaceSkills
<1>13. CASE SetDate(r)
  <2>1. PICK d \in Dates : req[r].dates = {d}
    BY <1>1, <1>13 DEF SetDate, Fits, Carries
  <2>2. HolidaysOn(d) \subseteq {Target(r)}
    BY <1>2, <1>13, <2>1 DEF SetDate, StillTrue
  <2>3. (CHOOSE x \in req[r].dates : TRUE) = d
    BY <2>1
  <2> QED BY <1>6, <1>13, <2>2, <2>3 DEF SetDate
<1>14. CASE FindConflicting(r)
  BY <1>2, <1>14 DEF FindConflicting, StillTrue
<1> QED BY <1>1, <1>10, <1>11, <1>12, <1>13, <1>14 DEF Says

(* A step of others after the request has ended. *)
LEMMA HoldsStays ==
    ASSUME ErrorInv, [Next]_vars, NEW e \in Staff, NEW user, Holds(e, user)
    PROVE  Holds(e, user)'
<1>0. TypeInv /\ MetInv /\ employee \in [Staff -> Rows]
  BY DEF ErrorInv, WholeInv, MetInv, TypeInv, TypeOK, Rows
<1>1. ASSUME NEW o \in Requests, Sending(o) PROVE Holds(e, user)'
  <2>1. Sends(o) /\ Alone(o) /\ employee' = employee
    BY <1>0, <1>1, SendMoves, SendBody DEF Sends, rows, team
  <2>2. at'[o] \notin {"linkable", "update"}
    BY <2>1 DEF Sends, First
  <2>3. \A q \in Requests \ {o} : at'[q] = at[q] /\ req'[q] = req[q]
    BY <2>1 DEF Alone
  <2> QED BY <2>1, <2>2, <2>3 DEF Holds, Linked, Kind, Target
<1>2. ASSUME NEW o \in Requests, Statement(o) PROVE Holds(e, user)'
  <2>1. Works(o) /\ Alone(o) /\ SameBody(req[o], req'[o]) /\ Arrives(o) /\ Fits(at[o], req[o].kind)
    BY <1>0, <1>2, StatementWorks, WorkBody, StatementArrives DEF TypeInv, Local, Placed
  <2>2. employee'[e].user = employee[e].user /\ employee'[e].state = "deleted"
    <3>1. CASE Hires(o)
      <4>1. employee[o].state = "none"
        BY <2>1, <3>1 DEF Hires, ErrorInv, RefusedInv, NotYet, Creates, Kind, Fits
      <4> QED BY <1>0, <3>1, <4>1 DEF Hires, Holds, Staff
    <3>2. CASE Edits(o)
      <4>1. Target(o) # e
        BY <2>1, <3>2 DEF Edits, Holds, Fits, Kind
      <4> QED BY <3>2, <4>1 DEF Edits, Holds
    <3>3. CASE Fires(o)
      BY <3>3 DEF Fires, Holds
    <3> QED BY <1>0, <1>2, <3>1, <3>2, <3>3, StaffMoves DEF Holds
  <2>3. ASSUME Kind(o)' = "updateEmployee", at'[o] \in {"linkable", "update"}, Target(o)' = e PROVE FALSE
    <3>1. Kind(o) = "updateEmployee" /\ Target(o) = e
      BY <2>1, <2>3 DEF SameBody, Kind, Target
    <3>2. at[o] \notin {"linkable", "update"}
      BY <3>1 DEF Holds
    <3>3. FindEmployee(o) \/ CountStaff(o)
      BY <2>1, <2>3, <3>2 DEF Arrives, CheckUserLinkable
    <3>4. ~CountStaff(o)
      BY <2>1, <3>1 DEF CountStaff, Fits, Kind
    <3>5. Employed(e)
      BY <1>0, <2>3, <3>1, <3>3, <3>4 DEF FindEmployee, Proceed, Reply, Goto, TypeInv, Local
    <3> QED BY <3>5 DEF Employed, Holds
  <2>4. \A q \in Requests \ {o} : at'[q] = at[q] /\ req'[q] = req[q]
    BY <2>1 DEF Alone
  <2>5. e \in Linked(user)'
    BY <2>2 DEF Holds, Linked
  <2> QED BY <2>2, <2>3, <2>4, <2>5 DEF Holds, Kind, Target
<1>3. CASE UNCHANGED vars
  BY <1>3 DEF vars, rows, team, Holds, Linked, Kind, Target
<1> QED BY <1>1, <1>2, <1>3, StepCases

LEMMA ErrorStep == ErrorInv /\ [Next]_vars => ErrorInv'
<1> SUFFICES ASSUME ErrorInv, [Next]_vars PROVE ErrorInv'
  OBVIOUS
<1>0. WholeInv' /\ RefusedInv' /\ TypeInv /\ MetInv
  BY WholeStep, RefusedStep DEF ErrorInv, WholeInv, MetInv
<1>1. UsersUnique' /\ HolidaysUnique'
  <2>1. ASSUME NEW r \in Requests, Sending(r) PROVE UsersUnique' /\ HolidaysUnique'
    <3>1. employee' = employee /\ holiday' = holiday
      BY <1>0, <2>1, SendMoves DEF Sends, rows, team, salon
    <3> QED BY <3>1 DEF ErrorInv, UsersUnique, HolidaysUnique, Exists
  <2>2. CASE UNCHANGED vars
    BY <2>2 DEF vars, rows, team, salon, ErrorInv, UsersUnique, HolidaysUnique, Exists
  <2> QED BY <2>1, <2>2, UniqueStep, StepCases
<1>2. ASSUME NEW r \in Requests, met'[r] = {} PROVE StillTrue(r)' /\ Excused(r)'
  <2>1. met[r] = {}
    <3>1. Started(r) => met[r] \subseteq met'[r]
      BY <1>0, Keeps
    <3> QED BY <1>0, <1>2, <3>1 DEF MetInv, MetSound, TypeInv, TypeOK
  <2>2. StillTrue(r) /\ Excused(r)
    BY <2>1 DEF ErrorInv
  <2>3. \/ Statement(r)
        \/ at'[r] \in First /\ req'[r].answer = None
        \/ at'[r] = at[r] /\ req'[r] = req[r]
    <3>1. ASSUME NEW o \in Requests, Sending(o)
          PROVE  \/ at'[r] \in First /\ req'[r].answer = None
                 \/ at'[r] = at[r] /\ req'[r] = req[r]
      <4>1. Sends(o) /\ Alone(o)
        BY <1>0, <3>1, SendMoves, SendBody
      <4> QED BY <4>1 DEF Sends, Alone
    <3>2. ASSUME NEW o \in Requests, Statement(o), o # r PROVE at'[r] = at[r] /\ req'[r] = req[r]
      BY <1>0, <3>2, StatementWorks, WorkBody DEF Alone
    <3> QED BY <3>1, <3>2, StepCases DEF vars
  <2>4. CASE Statement(r)
    BY <1>2, <2>4, StillTrueStep, ExcusedStep
  <2>5. CASE at'[r] \in First /\ req'[r].answer = None
    BY <2>5, SalonAssumption DEF StillTrue, Excused, First, Replies
  <2>6. CASE at'[r] = at[r] /\ req'[r] = req[r] /\ ~Statement(r)
    <3>1. Excused(r)'
      <4>1. SUFFICES ASSUME req[r].answer = "error" PROVE Excused(r)'
        BY <2>6 DEF Excused
      <4>2. PICK u : u = req[r].user
        OBVIOUS
      <4>3. PICK e \in Staff : Holds(e, u)
        BY <2>2, <4>1, <4>2 DEF Excused
      <4>4. Holds(e, u)'
        BY <4>3, HoldsStays
      <4> QED BY <2>2, <2>6, <4>1, <4>2, <4>4 DEF Excused, Kind
    <3>2. CASE at[r] \in {"idle", "done"}
      BY <2>6, <3>1, <3>2 DEF StillTrue
    <3>3. CASE at[r] \notin {"idle", "done"}
      <4>1. UNCHANGED vars
        BY <1>0, <1>2, <2>6, <3>3, StepCases, Undisturbed
      <4> QED BY <2>2, <3>1, <4>1
          DEF vars, rows, team, salon, StillTrue, NobodyOn, Linked, Employed, Target, HolidaysOn, OnPhone
    <3> QED BY <3>2, <3>3
  <2> QED BY <2>3, <2>4, <2>5, <2>6
<1> QED BY <1>0, <1>1, <1>2 DEF ErrorInv

LEMMA ErrorInit == Init => ErrorInv
<1> SUFFICES ASSUME Init PROVE ErrorInv
  OBVIOUS
<1>1. UsersUnique /\ HolidaysUnique
  BY DEF Init, UsersUnique, HolidaysUnique
<1>2. \A r \in Requests : StillTrue(r) /\ Excused(r)
  BY SalonAssumption DEF Init, Idle, StillTrue, Excused, Replies
<1> QED BY <1>1, <1>2, WholeInit, RefusedInit DEF ErrorInv

(* Only requests under way at the same time can mix the working hours or   *)
(* skills of two plans, exceed the staff limit, leave an employee behind   *)
(* after a refusal or run into an unforeseen error: EmployeeService,       *)
(* WorkingHoursService, HolidayService and CustomerService, whose checks   *)
(* and writes are separate statements.                                     *)
THEOREM OnlyRacesHurtSalons == Spec => []OnlyRacesHurt
<1>1. WholeInv => ReplacedAsAWhole
  BY DEF WholeInv, Whole, ReplacedAsAWhole
<1>2. LimitInv => StaffWithinLimit
  <2>1. ASSUME LimitInv, ~\E r, o \in Requests : o \in met[r] /\ Employed(r) /\ Employed(o)
        PROVE  Cardinality(Active) <= StaffLimit
    <3>1. Apart(Active)
      BY <2>1 DEF Apart, Active, LimitInv, MetInv, TypeInv, TypeOK
    <3> QED BY <2>1, <3>1 DEF LimitInv
  <2> QED BY <2>1 DEF StaffWithinLimit, Active
<1>3. RefusedInv => RefusedCreatesNobody
  BY DEF RefusedInv, LeftNobody, Gone, Creates, RefusedCreatesNobody
<1>4. ErrorInv => ErrorsHaveACause
  BY DEF ErrorInv, Excused, Holds, ErrorsHaveACause
<1>5. Init => LimitInv /\ ErrorInv
  BY LimitInit, ErrorInit
<1>6. LimitInv /\ ErrorInv /\ [Next]_vars => LimitInv' /\ ErrorInv'
  BY LimitStep, ErrorStep
<1>7. LimitInv /\ ErrorInv => OnlyRacesHurt
  BY <1>1, <1>2, <1>3, <1>4 DEF ErrorInv, OnlyRacesHurt
<1> QED BY <1>5, <1>6, <1>7, PTL DEF Spec

-----------------------------------------------------------------------------
(* Saving the settings *)

SaveMet(r) == \E o \in met[r] : Kind(o) = "settings"

(* What a save has read is what is stored, unless another save met it. *)
ReadIsTrue(r) ==
    at[r] = "merge" => SaveMet(r) \/ \A x \in seen[r] : x.key \in Keys => settings[x.key] = x.value

SettingsInv == MetInv /\ \A r \in Requests : ReadIsTrue(r)

LEMMA SaveMetStays ==
    ASSUME MetInv, [Next]_vars, NEW r \in Requests, SaveMet(r)
    PROVE  SaveMet(r)'
<1>1. PICK o \in met[r] : Kind(o) = "settings"
  BY DEF SaveMet
<1>2. o \in Requests /\ Started(o) /\ Started(r)
  BY <1>1 DEF MetInv, MetSound, TypeInv, TypeOK
<1>3. SameBody(req[o], req'[o]) /\ met[r] \subseteq met'[r]
  BY <1>2, Keeps DEF MetInv
<1> QED BY <1>1, <1>3 DEF SaveMet, Kind, SameBody

LEMMA SettingsStep == SettingsInv /\ [Next]_vars => SettingsInv'
<1> SUFFICES ASSUME SettingsInv, [Next]_vars, NEW r \in Requests PROVE ReadIsTrue(r)'
  BY MetStep DEF SettingsInv
<1>0. MetInv /\ TypeInv /\ ReadIsTrue(r)
  BY DEF SettingsInv, MetInv
<1>1. ASSUME NEW o \in Requests, Sending(o) PROVE ReadIsTrue(r)'
  <2>1. Sends(o) /\ Alone(o)
    BY <1>0, <1>1, SendMoves, SendBody
  <2>2. settings' = settings /\ seen' = seen /\ (at'[r] = "merge" => at[r] = "merge")
    BY <2>1 DEF Sends, Alone, First, rows
  <2> QED BY <1>0, <2>2, SaveMetStays DEF ReadIsTrue
<1>2. ASSUME NEW o \in Requests, Statement(o) PROVE ReadIsTrue(r)'
  <2>1. Works(o) /\ Alone(o) /\ Writes(o) /\ Arrives(o) /\ Fits(at[o], req[o].kind)
    BY <1>0, <1>2, StatementWorks, WorkBody, StatementWrites, StatementArrives
    DEF TypeInv, Local, Placed
  <2>2. CASE o = r
    <3>1. SUFFICES ASSUME ReadSettings(r) PROVE ReadIsTrue(r)'
      BY <2>1, <2>2 DEF ReadIsTrue, Arrives
    <3>2. /\ settings' = settings
          /\ seen'[r] = {[key |-> k, value |-> settings[k]] : k \in Keys}
      BY <1>0, <3>1 DEF ReadSettings, rows, TypeInv
    <3> QED BY <3>2 DEF ReadIsTrue
  <2>3. CASE o # r
    <3>1. at'[r] = at[r] /\ seen'[r] = seen[r] /\ met' = met
      BY <2>1, <2>3 DEF Alone, Writes, Works
    <3>2. ASSUME UpdateCategories(o), at[r] = "merge" PROVE SaveMet(r)
      <4>1. Kind(o) = "settings" /\ o \in met[r]
        BY <1>0, <2>1, <2>3, <3>2, BusyMeet DEF UpdateCategories, Fits, Kind, Works
      <4> QED BY <4>1 DEF SaveMet
    <3> QED BY <1>0, <2>1, <3>1, <3>2, SaveMetStays DEF ReadIsTrue, Writes
  <2> QED BY <2>2, <2>3
<1>3. CASE UNCHANGED vars
  BY <1>0, <1>3, SaveMetStays DEF vars, rows, ReadIsTrue
<1> QED BY <1>1, <1>2, <1>3, StepCases

LEMMA MergeKeeps ==
    ASSUME SettingsInv, NEW r \in Requests, UpdateCategories(r), NEW k \in Keys \ req[r].keys
    PROVE  settings'[k] = settings[k] \/ SaveMet(r)
<1>1. at[r] = "merge" /\ ReadIsTrue(r) /\ HasRead(r)
  BY DEF UpdateCategories, SettingsInv, MetInv, TypeInv
<1>2. PICK f \in [Keys -> Requests \cup {None}] : seen[r] = {[key |-> x, value |-> f[x]] : x \in Keys}
  BY <1>1 DEF HasRead
<1>3. PICK y : y = (CHOOSE x \in seen[r] : x.key = k)
  OBVIOUS
<1>4. [key |-> k, value |-> f[k]] \in seen[r] /\ [key |-> k, value |-> f[k]].key = k
  BY <1>2
<1>5. y \in seen[r] /\ y.key = k
  BY <1>3, <1>4
<1>6. settings'[k] \in {y.value, settings[k]}
  BY <1>3 DEF UpdateCategories
<1> QED BY <1>1, <1>5, <1>6 DEF ReadIsTrue

(* updateCategories writes back what it read: a key that a save does not   *)
(* carry keeps its value unless another save was under way with it.        *)
THEOREM SavesKeepTheRest == Spec => SavesKeepOthers
<1> DEFINE Kept == \A r \in Requests : Finishes(r) /\ Kind(r) = "settings" =>
               \A k \in Keys \ req[r].keys :
                   settings'[k] = settings[k] \/ \E o \in met[r] : Kind(o) = "settings"
<1>1. Init => SettingsInv
  BY MetInit DEF Init, SettingsInv, ReadIsTrue
<1>2. SettingsInv /\ [Next]_vars => SettingsInv'
  BY SettingsStep
<1>3. SettingsInv /\ [Next]_vars => [Kept]_vars
  <2> SUFFICES ASSUME SettingsInv, Next, NEW r \in Requests, Finishes(r), Kind(r) = "settings",
                      NEW k \in Keys \ req[r].keys
               PROVE  settings'[k] = settings[k] \/ SaveMet(r)
    BY DEF SaveMet
  <2>0. TypeInv
    BY DEF SettingsInv, MetInv
  <2>1. ASSUME NEW o \in Requests, Sending(o) PROVE FALSE
    BY <2>0, <2>1, SendMoves, SendBody DEF Sends, Alone, First, Finishes
  <2>2. ASSUME NEW o \in Requests, Statement(o) PROVE settings'[k] = settings[k] \/ SaveMet(r)
    <3>1. o = r
      BY <2>0, <2>2, StatementWorks, WorkBody DEF Alone, Finishes
    <3> QED BY <2>0, <2>2, <3>1, StatementWrites, MergeKeeps DEF Writes
  <2> QED BY <2>1, <2>2, StepCases
<1>4. QED BY <1>1, <1>2, <1>3, PTL DEF Spec, SavesKeepOthers

-----------------------------------------------------------------------------
(* Slots and bookings *)

LEMMA DayOf ==
    ASSUME NEW t \in Nat
    PROVE  /\ t \div Day \in Nat
           /\ (t \div Day) * Day <= t /\ t < (t \div Day + 1) * Day
<1>1. Day \in Nat /\ Day > 0
  BY SalonAssumption
<1> QED BY <1>1

LEMMA DayIs ==
    ASSUME NEW t \in Nat, NEW d \in Nat, d * Day <= t, t < (d + 1) * Day
    PROVE  t \div Day = d
<1>1. Day \in Nat /\ Day > 0
  BY SalonAssumption
<1>2. PICK q \in Nat : q = t \div Day
  BY DayOf
<1>3. q * Day <= t /\ t < (q + 1) * Day
  BY <1>2, DayOf
<1>4. ~(q < d)
  <2>1. ASSUME q < d PROVE FALSE
    <3>1. (q + 1) * Day <= d * Day
      BY <1>1, <2>1
    <3> QED BY <1>1, <1>3, <3>1
  <2> QED BY <2>1
<1>5. ~(d < q)
  <2>1. ASSUME d < q PROVE FALSE
    <3>1. (d + 1) * Day <= q * Day
      BY <1>1, <2>1
    <3> QED BY <1>1, <1>3, <3>1
  <2> QED BY <2>1
<1> QED BY <1>2, <1>4, <1>5

(* A window of a date lies within the date. *)
LEMMA WindowFits ==
    ASSUME TypeOK, NEW e \in Staff, NEW date \in Nat, NEW w \in WorkingWindows(e, date)
    PROVE  w.from \in Int /\ w.to \in Int /\ date * Day <= w.from /\ w.to < (date + 1) * Day
<1>1. Day \in Nat /\ Day > 0
  BY SalonAssumption
<1>2. PICK open : open = business[Weekday(date)]
  OBVIOUS
<1>3. open # None
  BY <1>2 DEF WorkingWindows
<1>4. Weekday(date) \in Weekdays
  BY DEF Weekday, Weekdays
<1>5. open \in Windows
  BY <1>2, <1>3, <1>4 DEF TypeOK
<1>6. PICK x \in shifts : w = [from |-> date * Day + Larger(x.entry.from, open.from),
                               to |-> date * Day + Smaller(x.entry.to, open.to)]
  BY <1>2 DEF WorkingWindows
<1>7. x.entry \in Entries
  BY <1>6 DEF TypeOK
<1>8. PICK a \in Nat, b \in Nat :
         /\ a = Larger(x.entry.from, open.from)
         /\ b = Smaller(x.entry.to, open.to) /\ b < Day
  BY <1>1, <1>5, <1>7 DEF Entries, Windows, Times, Larger, Smaller
<1>9. w.from = date * Day + a /\ w.to = date * Day + b
  BY <1>6, <1>8
<1>10. PICK start \in Nat : start = date * Day
  BY <1>1
<1>11. (date + 1) * Day = start + Day
  BY <1>1, <1>10
<1> QED BY <1>1, <1>8, <1>9, <1>10, <1>11

LEMMA BookingFits ==
    ASSUME NEW b \in Bookings
    PROVE  b.start \in Nat /\ b.until \in Nat
BY SalonAssumption

LEMMA LengthFits ==
    ASSUME TypeOK, NEW s \in Services
    PROVE  service[s].length \in Nat \ {0} /\ EffectiveBuffer(s) \in Nat
BY DEF TypeOK, EffectiveBuffer, TenantBuffer, Larger

(* What a slot is. *)
Offer(s, first, last, e, t) ==
    /\ e \in EligibleEmployees(s) /\ t \in first * Day .. (last + 1) * Day - 1
    /\ \E w \in WorkingWindows(e, t \div Day) :
           /\ t \in w.from .. w.to - service[s].length
           /\ (t - w.from) % Granularity = 0
    /\ ~Clashing(BlockingRanges(e, first * Day, (last + 1) * Day), t,
                 t + service[s].length + EffectiveBuffer(s))

LEMMA SlotIsOffer ==
    ASSUME NEW s, NEW first, NEW last, NEW slot \in Slots(s, first, last)
    PROVE  Offer(s, first, last, slot.employee, slot.start)
BY DEF Slots, Offer

LEMMA OfferIsSlot ==
    ASSUME NEW s, NEW first, NEW last, NEW e, NEW t, Offer(s, first, last, e, t)
    PROVE  [employee |-> e, start |-> t] \in Slots(s, first, last)
<1>1. PICK p : p = <<e, t>>
  OBVIOUS
<1>2. p \in EligibleEmployees(s) \X (first * Day .. (last + 1) * Day - 1) /\ p[1] = e /\ p[2] = t
  BY <1>1 DEF Offer
<1> QED BY <1>2 DEF Slots, Offer

LEMMA OffersCanBeBooked ==
    ASSUME TypeOK, NEW s \in Services, NEW first \in Dates, NEW last \in Dates,
           NEW e, NEW t, Offer(s, first, last, e, t),
           NEW end, end = t + service[s].length, NEW until, until = end + EffectiveBuffer(s)
    PROVE  /\ IsWindowAvailable(e, t, end, EffectiveBuffer(s))
           /\ \/ ~Clashing({b \in Bookings : b.employee = e}, t, until)
              \/ until > (last + 1) * Day
<1>1. PICK length \in Nat \ {0}, buffer \in Nat : length = service[s].length /\ buffer = EffectiveBuffer(s)
  BY LengthFits
<1>2. Day \in Nat /\ Day > 0 /\ first \in Nat /\ last \in Nat
  BY SalonAssumption
<1>3. PICK low \in Nat, high \in Nat : low = first * Day /\ high = (last + 1) * Day
  BY <1>2
<1>4. t \in Nat /\ low <= t /\ t < high
  BY <1>3 DEF Offer
<1>5. e \in Staff /\ Employed(e) /\ employee[e].active
  BY DEF Offer, EligibleEmployees
<1>6. PICK d \in Nat : d = t \div Day /\ d * Day <= t /\ t < (d + 1) * Day
  BY <1>4, DayOf
<1>7. PICK w \in WorkingWindows(e, d) : t \in w.from .. w.to - length
  BY <1>1, <1>6 DEF Offer
<1>8. w.from \in Int /\ w.to \in Int /\ w.to < (d + 1) * Day
  BY <1>5, <1>6, <1>7, WindowFits
<1>9. w.from <= t /\ end <= w.to /\ end \in Nat /\ until = end + buffer /\ end > t
  BY <1>1, <1>4, <1>7, <1>8
<1>10. d <= last
  <2>1. ASSUME last < d PROVE FALSE
    <3>1. (last + 1) * Day <= d * Day
      BY <1>2, <2>1
    <3> QED BY <1>2, <1>3, <1>4, <1>6, <3>1
  <2> QED BY <1>2, <2>1
<1>11. end < high
  <2>1. (d + 1) * Day <= (last + 1) * Day
    BY <1>2, <1>10
  <2> QED BY <1>2, <1>3, <1>8, <1>9, <2>1
<1>12. ASSUME NEW b \in Bookings, b.employee = e, t < b.until, b.start < until PROVE ~(b.start < high)
  <2>1. b.start \in Nat /\ b.until \in Nat
    BY BookingFits
  <2>2. ASSUME b.start < high PROVE FALSE
    <3>1. b \in BlockingRanges(e, low, high)
      BY <1>4, <1>12, <2>1, <2>2 DEF BlockingRanges
    <3>2. ~Clashing(BlockingRanges(e, low, high), t, until)
      BY <1>1, <1>3, <1>9 DEF Offer
    <3> QED BY <1>12, <3>1, <3>2 DEF Clashing
  <2> QED BY <2>2
<1>13. ~Clashing(BlockingRanges(e, t, end), t, end + buffer)
  <2>1. SUFFICES ASSUME NEW b \in BlockingRanges(e, t, end), t < b.until, b.start < end + buffer
                 PROVE  FALSE
    BY DEF Clashing
  <2>2. b \in Bookings /\ b.employee = e /\ b.start < end /\ b.start \in Nat
    BY BookingFits DEF BlockingRanges
  <2> QED BY <1>9, <1>11, <1>12, <2>1, <2>2
<1>14. \/ ~Clashing({b \in Bookings : b.employee = e}, t, until)
       \/ until > high
  <2>1. SUFFICES ASSUME ~(until > high), NEW b \in Bookings, b.employee = e, t < b.until, b.start < until
                 PROVE  FALSE
    BY DEF Clashing
  <2>2. b.start \in Nat
    BY BookingFits
  <2> QED BY <1>9, <1>12, <2>1, <2>2
<1>15. IsWindowAvailable(e, t, end, buffer)
  BY <1>5, <1>6, <1>7, <1>9, <1>13 DEF IsWindowAvailable
<1> QED BY <1>1, <1>3, <1>14, <1>15

LEMMA BookableAreOffers ==
    ASSUME TypeOK, NEW s \in Services, NEW d \in Dates, NEW e \in EligibleEmployees(s),
           NEW t \in d * Day .. (d + 1) * Day - 1, NEW end, end = t + service[s].length,
           IsWindowAvailable(e, t, end, EffectiveBuffer(s)),
           NEW w \in WorkingWindows(e, d), w.from <= t, end <= w.to, (t - w.from) % Granularity = 0,
           ~\E b \in Bookings : /\ b.employee = e
                                /\ end <= b.start /\ b.start < end + EffectiveBuffer(s)
    PROVE  Offer(s, d, d, e, t)
<1>1. PICK length \in Nat \ {0}, buffer \in Nat : length = service[s].length /\ buffer = EffectiveBuffer(s)
  BY LengthFits
<1>2. Day \in Nat /\ Day > 0 /\ d \in Nat
  BY SalonAssumption
<1>3. PICK low \in Nat, high \in Nat : low = d * Day /\ high = (d + 1) * Day
  BY <1>2
<1>4. t \in Nat /\ low <= t /\ t < high /\ end \in Nat /\ end = t + length
  BY <1>1, <1>3
<1>5. t \div Day = d
  BY <1>2, <1>3, <1>4, DayIs
<1>6. e \in Staff
  BY DEF EligibleEmployees
<1>7. w.from \in Int /\ w.to \in Int
  BY <1>2, <1>6, WindowFits
<1>8. t \in w.from .. w.to - length
  BY <1>1, <1>4, <1>7
<1>9. ~Clashing(BlockingRanges(e, low, high), t, end + buffer)
  <2>1. SUFFICES ASSUME NEW b \in BlockingRanges(e, low, high), t < b.until, b.start < end + buffer
                 PROVE  FALSE
    BY DEF Clashing
  <2>2. b \in Bookings /\ b.employee = e /\ b.start \in Nat /\ b.until \in Nat
    BY BookingFits DEF BlockingRanges
  <2>3. b.start < end
    BY <1>1, <1>4, <2>1, <2>2
  <2>4. b \in BlockingRanges(e, t, end)
    BY <1>4, <2>1, <2>2, <2>3 DEF BlockingRanges
  <2>5. ~Clashing(BlockingRanges(e, t, end), t, end + buffer)
    BY <1>1 DEF IsWindowAvailable
  <2> QED BY <2>1, <2>4, <2>5 DEF Clashing
<1>10. t \in low .. high - 1
  BY <1>4
<1> QED BY <1>1, <1>3, <1>4, <1>5, <1>8, <1>9, <1>10 DEF Offer

(* getAvailableSlots and isWindowAvailable agree in every state: what is   *)
(* offered can be booked, and what can be booked on the grid is offered.   *)
THEOREM SlotsCanBeBooked == Spec => []SlotsMatchBooking
<1>1. ASSUME TypeOK PROVE OfferedCanBeBooked
  <2>1. SUFFICES ASSUME NEW s \in Services, NEW first \in Dates, NEW last \in Dates,
                        NEW slot \in Slots(s, first, last)
                 PROVE  LET end == slot.start + service[s].length
                            until == end + EffectiveBuffer(s)
                        IN  /\ IsWindowAvailable(slot.employee, slot.start, end, EffectiveBuffer(s))
                            /\ \/ ~Clashing({b \in Bookings : b.employee = slot.employee}, slot.start, until)
                               \/ until > (last + 1) * Day
    BY DEF OfferedCanBeBooked
  <2>2. Offer(s, first, last, slot.employee, slot.start)
    BY SlotIsOffer
  <2> QED BY <1>1, <2>2, OffersCanBeBooked
<1>2. ASSUME TypeOK PROVE BookableIsOffered
  <2>1. ASSUME NEW s \in Services, NEW d \in Dates, NEW e \in EligibleEmployees(s),
               NEW t \in d * Day .. (d + 1) * Day - 1, NEW end, end = t + service[s].length,
               IsWindowAvailable(e, t, end, EffectiveBuffer(s)),
               \E w \in WorkingWindows(e, d) :
                   w.from <= t /\ end <= w.to /\ (t - w.from) % Granularity = 0,
               ~\E b \in Bookings : /\ b.employee = e
                                    /\ end <= b.start /\ b.start < end + EffectiveBuffer(s)
        PROVE  [employee |-> e, start |-> t] \in Slots(s, d, d)
    BY <1>2, <2>1, BookableAreOffers, OfferIsSlot
  <2> QED BY <2>1 DEF BookableIsOffered
<1>3. TypeOK => SlotsMatchBooking
  BY <1>1, <1>2 DEF SlotsMatchBooking
<1> QED BY <1>3, SalonTypeCorrect, PTL
=============================================================================
