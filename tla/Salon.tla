--------------------------------- MODULE Salon ---------------------------------
(***************************************************************************)
(* The records a salon is run by, and what it offers because of them: the  *)
(* requests of the back office to employees, working hours, time off,      *)
(* business hours, holidays, services, customers and tenant settings, and  *)
(* AvailabilityService, which turns them into free slots.                  *)
(*                                                                         *)
(* A request runs statement by statement between the statements of others. *)
(* The row it creates is named after it.  Time is counted in ticks; dates  *)
(* are numbers, date d being the ticks from d * Day.                       *)
(***************************************************************************)
EXTENDS Integers, FiniteSets

CONSTANTS
    Requests,     \* the HTTP requests (and, for customers, inbound messages)
    Kinds,        \* Kinds[r]: what request r may be
    FirstStaff,   \* the employees at the start
    FirstClients, \* the customers at the start, each with its phone number
    FirstCatalog, \* the services at the start, each with its length and buffer
    Categories,   \* the service categories at the start
    Users,        \* the users an employee can be linked to
    Phones,
    WeekPlans,    \* the working hours a manager may enter: sets of entries
    FirstPlan,    \* those of everybody at the start
    BusinessWeeks,\* the business hours a manager may enter: [weekday -> window]
    FirstWeek,    \* those of the start
    Dates,        \* the dates looked at
    Day,          \* the ticks of a day
    Granularity,  \* SLOT_GRANULARITY_MINUTES, in ticks
    Bookings,     \* blocking appointment lines: [employee, start, until]
    RawForm,      \* the keys of the tenant settings that the raw editor saves
    AiForm,       \* the keys that the editor of the AI's behaviour saves
    Namespace,    \* the namespace of a key of the tenant settings
    StaffLimit,   \* the plan's maxStaff
    None

AllKinds ==
    {"createEmployee", "updateEmployee", "deleteEmployee", "assign", "hours",
     "addLeave", "removeLeave", "business", "addHoliday", "moveHoliday",
     "removeHoliday", "createService", "updateService", "deleteService",
     "deleteCategory", "createCustomer", "message", "deleteCustomer", "settings"}
Replies == {"ok", "refused", "error", "lost"}

Keys == DOMAIN Namespace
Staff == FirstStaff \cup Requests
Services == DOMAIN FirstCatalog \cup Requests
Customers == DOMAIN FirstClients \cup Requests
Weekdays == 0 .. 6
Weekday(date) == date % 7
States == {"none", "live", "deleted"}
Times == 0 .. Day - 1   \* HH_MM_PATTERN: 00:00 to 23:59
Windows == [from: Times, to: Times]
Entries == [day: Weekdays, from: Times, to: Times, active: BOOLEAN]

ASSUME SalonAssumption ==
    /\ Kinds \in [Requests -> SUBSET AllKinds]
    /\ FirstClients \in [DOMAIN FirstClients -> Phones]
    /\ FirstCatalog \in [DOMAIN FirstCatalog -> [length: Nat \ {0}, buffer: Nat]]
    /\ WeekPlans \cup {FirstPlan} \subseteq SUBSET Entries
    /\ BusinessWeeks \cup {FirstWeek} \subseteq [Weekdays -> Windows \cup {None}]
    /\ Dates \subseteq Nat /\ \A d, e \in Dates : d .. e \subseteq Dates
    /\ Day \in Nat \ {0} /\ Granularity \in Nat \ {0} /\ StaffLimit \in Nat
    /\ Bookings \subseteq [employee: FirstStaff, start: Nat, until: Nat]
    /\ RawForm \subseteq Keys /\ AiForm \subseteq Keys
    /\ IsFiniteSet(FirstStaff) /\ Cardinality(FirstStaff) <= StaffLimit
    /\ Requests \cap (FirstStaff \cup DOMAIN FirstCatalog \cup DOMAIN FirstClients) = {}
    /\ None \notin Requests \cup Users \cup Dates \cup Windows \cup AllKinds \cup Replies

VARIABLES
    employee,  \* Employee rows: [state, active, user]
    skills,    \* EmployeeService rows: [employee, service, by]
    shifts,    \* WorkingHours rows: [employee, entry, by]
    leaves,    \* EmployeeTimeOff rows, by the request that made them
    business,  \* BusinessHours: a window, or None where it is closed, per weekday
    holiday,   \* holiday[h]: the date of the row request h made, or None
    service,   \* Service rows: [state, length, buffer, category]
    category,  \* category[c]: the state of the row
    customer,  \* Customer rows: [state, phone]
    settings,  \* settings[k]: the request whose value the key has, None at first
    at,        \* at[r]: the statement r runs next
    req,       \* req[r]: what r asks for, and its answer
    seen,      \* seen[r]: the rows r has read and will write over
    met        \* history: met[r], the requests under way while r was

team == <<employee, skills, shifts, leaves>>
salon == <<business, holiday>>
catalog == <<service, category>>
rows == <<team, salon, catalog, customer, settings>>
vars == <<rows, at, req, seen, met>>

Idle == [kind |-> None, target |-> None, user |-> None, unlink |-> FALSE, active |-> TRUE,
         services |-> None, plan |-> {}, dates |-> {}, week |-> None,
         phone |-> None, keys |-> {}, category |-> None, shape |-> None,
         answer |-> None]

Init ==
    /\ employee = [e \in Staff |->
           [state |-> IF e \in FirstStaff THEN "live" ELSE "none", active |-> TRUE,
            user |-> None]]
    /\ skills = {[employee |-> e, service |-> s, by |-> None] :
                    e \in FirstStaff, s \in DOMAIN FirstCatalog}
    /\ shifts = {[employee |-> e, entry |-> x, by |-> None] : e \in FirstStaff, x \in FirstPlan}
    /\ leaves = [r \in Requests |-> None]
    /\ business = FirstWeek
    /\ holiday = [r \in Requests |-> None]
    /\ service = [s \in Services |->
           IF s \in DOMAIN FirstCatalog
           THEN [state |-> "live", length |-> FirstCatalog[s].length,
                 buffer |-> FirstCatalog[s].buffer, category |-> None]
           ELSE [state |-> "none", length |-> 1, buffer |-> 0, category |-> None]]
    /\ category = [c \in Categories |-> "live"]
    /\ customer = [c \in Customers |->
           IF c \in DOMAIN FirstClients THEN [state |-> "live", phone |-> FirstClients[c]]
           ELSE [state |-> "none", phone |-> None]]
    /\ settings = [k \in Keys |-> None]
    /\ at = [r \in Requests |-> "idle"]
    /\ req = [r \in Requests |-> Idle]
    /\ seen = [r \in Requests |-> {}]
    /\ met = [r \in Requests |-> {}]

Kind(r) == req[r].kind
Target(r) == req[r].target
Busy == {r \in Requests : at[r] \notin {"idle", "done"}}

Employed(e) == employee[e].state = "live"
Linked(user) == {e \in Staff : employee[e].state # "none" /\ employee[e].user = user}
Offered(s) == service[s].state = "live"
Catalog == {s \in Services : service[s].state # "none"}
OnPhone(p) == {c \in Customers : customer[c].state = "live" /\ customer[c].phone = p}
HolidaysOn(date) == {h \in Requests : holiday[h] = date}

Goto(r, where) == at' = [at EXCEPT ![r] = where]

Reply(r, answer) ==
    /\ req' = [req EXCEPT ![r].answer = answer]
    /\ Goto(r, "done")

(* Go on if what was looked up is as it must be, else answer 4xx. *)
Proceed(r, ok, where) ==
    IF ok THEN Goto(r, where) /\ UNCHANGED req ELSE Reply(r, "refused")

Send(r, q, where) ==
    /\ at[r] = "idle"
    /\ q.kind \in Kinds[r]
    /\ req' = [req EXCEPT ![r] = q]
    /\ Goto(r, where)
    /\ met' = [o \in Requests |-> CASE o = r -> Busy
                                    [] o \in Busy -> met[o] \cup {r}
                                    [] OTHER -> met[o]]
    /\ UNCHANGED <<rows, seen>>

Asks(k, target) == [Idle EXCEPT !.kind = k, !.target = target]

-----------------------------------------------------------------------------
(* The pages of the back office, and messages from new customers *)

SendCreateEmployee(r) ==
    \E u \in Users \cup {None}, some \in SUBSET Catalog :
        Send(r, [Asks("createEmployee", r) EXCEPT !.user = u, !.services = some], "count")

(* A PATCH may name a user, or null to unlink the one there is, and may     *)
(* list services; with nothing but services it is like SendAssign.         *)
SendUpdateEmployee(r, e) ==
    \E u \in Users \cup {None}, null, a \in BOOLEAN, some \in {None} \cup SUBSET Catalog :
        /\ null => u = None
        /\ Send(r, [Asks("updateEmployee", e) EXCEPT
                       !.user = u, !.unlink = null, !.active = a, !.services = some], "employee")

SendDeleteEmployee(r, e) == Send(r, Asks("deleteEmployee", e), "employee")

SendAssign(r, e) ==
    \E some \in SUBSET Catalog :
        Send(r, [Asks("assign", e) EXCEPT !.services = some], "employee")

SendHours(r, e) ==
    \E plan \in WeekPlans : Send(r, [Asks("hours", e) EXCEPT !.plan = plan], "employee")

SendLeave(r, e) ==
    \/ \E from, to \in Dates :
           Send(r, [Asks("addLeave", e) EXCEPT !.dates = from .. to], "employee")
    \/ \E l \in Requests :
           /\ leaves[l] # None
           /\ Send(r, [Asks("removeLeave", e) EXCEPT !.dates = {l}], "employee")

SendBusinessHours(r) ==
    \E week \in BusinessWeeks : Send(r, [Asks("business", None) EXCEPT !.week = week], "week")

SendHoliday(r) ==
    \/ \E d \in Dates : Send(r, [Asks("addHoliday", r) EXCEPT !.dates = {d}], "date")
    \/ \E h \in Requests :
           /\ holiday[h] # None
           /\ \/ \E d \in Dates : Send(r, [Asks("moveHoliday", h) EXCEPT !.dates = {d}], "holiday")
              \/ Send(r, Asks("removeHoliday", h), "holiday")

SendService(r) ==
    \E c \in Categories \cup {None}, shape \in {FirstCatalog[s] : s \in DOMAIN FirstCatalog} :
        \/ Send(r, [Asks("createService", r) EXCEPT !.category = c, !.shape = shape], "category")
        \/ \E s \in Catalog :
               Send(r, [Asks("updateService", s) EXCEPT !.category = c, !.shape = shape], "service")

SendDeleteService(r) ==
    \E s \in Catalog : Send(r, Asks("deleteService", s), "service")

SendDeleteCategory(r) ==
    \E c \in Categories : Send(r, Asks("deleteCategory", c), "service")

SendCustomer(r) ==
    \/ \E k \in {"createCustomer", "message"}, p \in Phones :
           Send(r, [Asks(k, r) EXCEPT !.phone = p], "phone")
    \/ \E c \in Customers :
           customer[c].state # "none" /\ Send(r, Asks("deleteCustomer", c), "customer")

SendSettings(r) == Send(r, [Asks("settings", None) EXCEPT !.keys = RawForm], "settings")

SendAiBehavior(r) == Send(r, [Asks("settings", None) EXCEPT !.keys = AiForm], "settings")

-----------------------------------------------------------------------------
(* EmployeeService and EmployeeAssignmentService *)

(* Faulty variant: one employee more than the plan allows. *)
CountStaffOffByOne(r) ==
    /\ at[r] = "count"
    /\ Proceed(r, Cardinality({e \in Staff : Employed(e)}) <= StaffLimit, "linkable")
    /\ UNCHANGED <<rows, seen, met>>

(* countActiveForTenant counts whoever is not deleted. *)
CountStaff(r) ==
    /\ at[r] = "count"
    /\ Proceed(r, Cardinality({e \in Staff : Employed(e)}) < StaffLimit, "linkable")
    /\ UNCHANGED <<rows, seen, met>>

(* Every request about an employee begins with a look at its row. *)
FindEmployee(r) ==
    /\ at[r] = "employee"
    /\ Proceed(r, Employed(Target(r)),
               CASE Kind(r) = "updateEmployee" -> "linkable"
                 [] Kind(r) = "deleteEmployee" -> "delete"
                 [] Kind(r) = "assign" -> "assignable"
                 [] Kind(r) = "hours" -> "clearHours"
                 [] Kind(r) = "addLeave" -> "leave"
                 [] OTHER -> "findLeave")
    /\ UNCHANGED <<rows, seen, met>>

(* assertUserLinkable, which looks at employees that are not deleted only. *)
CheckUserLinkable(r) ==
    LET u == req[r].user
        same == Kind(r) = "updateEmployee" /\ employee[Target(r)].user = u
    IN  /\ at[r] = "linkable"
        /\ Proceed(r, u = None \/ same \/ ~\E e \in Linked(u) : Employed(e),
                   IF Kind(r) = "createEmployee" THEN "services" ELSE "update")
        /\ UNCHANGED <<rows, seen, met>>

(* validateServiceIds, before the employee is created. *)
ValidateServices(r) ==
    /\ at[r] = "services"
    /\ Proceed(r, \A s \in req[r].services : Offered(s), "insert")
    /\ UNCHANGED <<rows, seen, met>>

(* Employee.userId is unique among all rows, the deleted ones included. *)
InsertEmployee(r) ==
    LET u == req[r].user
    IN  /\ at[r] = "insert"
        /\ IF u # None /\ Linked(u) # {} THEN Reply(r, "error") /\ UNCHANGED employee
           ELSE /\ employee' = [employee EXCEPT ![r] =
                                    [state |-> "live", active |-> TRUE, user |-> u]]
                /\ IF req[r].services = {} THEN Reply(r, "ok")
                   ELSE Goto(r, "assignable") /\ UNCHANGED req
        /\ UNCHANGED <<skills, shifts, leaves, salon, catalog, customer, settings, seen, met>>

(* updateForTenant goes by id: it also finds a row deleted since.  The     *)
(* services come after, in a transaction of their own.                     *)
UpdateEmployee(r) ==
    LET u == req[r].user
        e == Target(r)
    IN  /\ at[r] = "update"
        /\ IF u # None /\ Linked(u) \ {e} # {} THEN Reply(r, "error") /\ UNCHANGED employee
           ELSE /\ employee' = [employee EXCEPT ![e].active = req[r].active,
                                                ![e].user = CASE req[r].unlink -> None
                                                              [] u = None -> @
                                                              [] OTHER -> u]
                /\ IF req[r].services = None THEN Reply(r, "ok")
                   ELSE Goto(r, "assignable") /\ UNCHANGED req
        /\ UNCHANGED <<skills, shifts, leaves, salon, catalog, customer, settings, seen, met>>

DeleteEmployee(r) ==
    /\ at[r] = "delete"
    /\ employee' = [employee EXCEPT ![Target(r)].state = "deleted"]
    /\ Reply(r, "ok")
    /\ UNCHANGED <<skills, shifts, leaves, salon, catalog, customer, settings, seen, met>>

(* assignServices validates (again, where an employee was just created);   *)
(* when it refuses, what was saved of the employee before stays.           *)
ValidateAssigned(r) ==
    /\ at[r] = "assignable"
    /\ Proceed(r, \A s \in req[r].services : Offered(s), "clearSkills")
    /\ UNCHANGED <<rows, seen, met>>

(* The two statements of replaceForEmployee.  The transaction is READ      *)
(* COMMITTED: its deleteMany takes the rows it can see, and those that     *)
(* another transaction commits after that stay.                            *)
ClearSkills(r) ==
    /\ at[r] = "clearSkills"
    /\ seen' = [seen EXCEPT ![r] = {x \in skills : x.employee = Target(r)}]
    /\ Goto(r, "skills")
    /\ UNCHANGED <<rows, req, met>>

ReplaceSkills(r) ==
    LET kept == skills \ seen[r]
        new == {[employee |-> Target(r), service |-> s, by |-> r] : s \in req[r].services}
        taken == \E x \in kept, y \in new : x.employee = y.employee /\ x.service = y.service
    IN  /\ at[r] = "skills"
        /\ skills' = IF taken THEN skills ELSE kept \cup new
        /\ Reply(r, IF taken THEN "error" ELSE "ok")
        /\ seen' = [seen EXCEPT ![r] = {}]
        /\ UNCHANGED <<employee, shifts, leaves, salon, catalog, customer, settings, met>>

-----------------------------------------------------------------------------
(* WorkingHoursService, EmployeeTimeOffService *)

(* validateEntries *)
ValidPlan(plan) == \A x \in plan : x.day \in Weekdays /\ (x.active => x.from < x.to)

(* Faulty variant: the inactive entries are overlooked. *)
ClearActiveHours(r) ==
    /\ at[r] = "clearHours"
    /\ IF ValidPlan(req[r].plan)
       THEN /\ seen' = [seen EXCEPT ![r] =
                           {x \in shifts : x.employee = Target(r) /\ x.entry.active}]
            /\ Goto(r, "hours") /\ UNCHANGED req
       ELSE Reply(r, "refused") /\ UNCHANGED seen
    /\ UNCHANGED <<rows, met>>

(* replaceAllForEmployee, in two statements as above; nothing is unique.   *)
ClearHours(r) ==
    /\ at[r] = "clearHours"
    /\ IF ValidPlan(req[r].plan)
       THEN /\ seen' = [seen EXCEPT ![r] = {x \in shifts : x.employee = Target(r)}]
            /\ Goto(r, "hours") /\ UNCHANGED req
       ELSE Reply(r, "refused") /\ UNCHANGED seen
    /\ UNCHANGED <<rows, met>>

ReplaceHours(r) ==
    /\ at[r] = "hours"
    /\ shifts' = (shifts \ seen[r])
                 \cup {[employee |-> Target(r), entry |-> x, by |-> r] : x \in req[r].plan}
    /\ Reply(r, "ok")
    /\ seen' = [seen EXCEPT ![r] = {}]
    /\ UNCHANGED <<employee, skills, leaves, salon, catalog, customer, settings, met>>

(* Faulty variant: the day after the last is taken off as well. *)
CreateTimeOffTooLong(r) ==
    /\ at[r] = "leave"
    /\ leaves' = [leaves EXCEPT ![r] =
           [employee |-> Target(r), dates |-> req[r].dates \cup {d + 1 : d \in req[r].dates}]]
    /\ Reply(r, "ok")
    /\ UNCHANGED <<employee, skills, shifts, salon, catalog, customer, settings, seen, met>>

(* A leave that ends before it begins, and so has no days, is refused. *)
CreateTimeOff(r) ==
    /\ at[r] = "leave"
    /\ IF req[r].dates = {} THEN Reply(r, "refused") /\ UNCHANGED leaves
       ELSE /\ leaves' = [leaves EXCEPT ![r] =
                             [employee |-> Target(r), dates |-> req[r].dates]]
            /\ Reply(r, "ok")
    /\ UNCHANGED <<employee, skills, shifts, salon, catalog, customer, settings, seen, met>>

FindTimeOff(r) ==
    LET l == CHOOSE l \in req[r].dates : TRUE
    IN  /\ at[r] = "findLeave"
        /\ Proceed(r, leaves[l] # None /\ leaves[l].employee = Target(r), "removeLeave")
        /\ UNCHANGED <<rows, seen, met>>

DeleteTimeOff(r) ==
    LET l == CHOOSE l \in req[r].dates : TRUE
    IN  /\ at[r] = "removeLeave"
        /\ leaves' = [leaves EXCEPT ![l] = None]
        /\ Reply(r, IF leaves[l] = None THEN "refused" ELSE "ok")
        /\ UNCHANGED <<employee, skills, shifts, salon, catalog, customer, settings, seen, met>>

-----------------------------------------------------------------------------
(* BusinessHoursService, HolidayService *)

(* validateDaySet; a closed day is stored as 00:00 to 00:00. *)
ValidWeek(week) == \A d \in Weekdays : week[d] # None => week[d].from < week[d].to

ReplaceBusinessHours(r) ==
    /\ at[r] = "week"
    /\ IF ValidWeek(req[r].week) THEN business' = req[r].week /\ Reply(r, "ok")
       ELSE Reply(r, "refused") /\ UNCHANGED business
    /\ UNCHANGED <<team, holiday, catalog, customer, settings, seen, met>>

FindHoliday(r) ==
    /\ at[r] = "holiday"
    /\ Proceed(r, holiday[Target(r)] # None,
               CASE Kind(r) = "removeHoliday" -> "removeHoliday"
                 [] Kind(r) # "removeHoliday" /\ holiday[Target(r)] \in req[r].dates -> "setDate"
                 [] OTHER -> "date")
    /\ UNCHANGED <<rows, seen, met>>

CheckDate(r) ==
    /\ at[r] = "date"
    /\ Proceed(r, \A d \in req[r].dates : HolidaysOn(d) = {}, "setDate")
    /\ UNCHANGED <<rows, seen, met>>

(* A date is unique among the holidays of the salon. *)
SetDate(r) ==
    LET d == CHOOSE d \in req[r].dates : TRUE
    IN  /\ at[r] = "setDate"
        /\ LET gone == Kind(r) = "moveHoliday" /\ holiday[Target(r)] = None
               taken == HolidaysOn(d) \ {Target(r)} # {}
           IN  IF gone \/ taken
               THEN Reply(r, IF gone THEN "refused" ELSE "error") /\ UNCHANGED holiday
               ELSE holiday' = [holiday EXCEPT ![Target(r)] = d] /\ Reply(r, "ok")
        /\ UNCHANGED <<team, business, catalog, customer, settings, seen, met>>

DeleteHoliday(r) ==
    /\ at[r] = "removeHoliday"
    /\ holiday' = [holiday EXCEPT ![Target(r)] = None]
    /\ Reply(r, IF holiday[Target(r)] = None THEN "refused" ELSE "ok")
    /\ UNCHANGED <<team, business, catalog, customer, settings, seen, met>>

-----------------------------------------------------------------------------
(* ServiceService, ServiceCategoryService *)

FindService(r) ==
    /\ at[r] = "service"
    /\ CASE Kind(r) = "deleteCategory" -> Proceed(r, category[Target(r)] = "live", "removeService")
         [] Kind(r) = "deleteService" -> Proceed(r, Offered(Target(r)), "removeService")
         [] OTHER -> Proceed(r, Offered(Target(r)), "category")
    /\ UNCHANGED <<rows, seen, met>>

CheckCategory(r) ==
    /\ at[r] = "category"
    /\ Proceed(r, req[r].category = None \/ category[req[r].category] = "live", "saveService")
    /\ UNCHANGED <<rows, seen, met>>

SaveService(r) ==
    /\ at[r] = "saveService"
    /\ service' = [service EXCEPT ![Target(r)] =
           [state |-> IF Kind(r) = "createService" THEN "live" ELSE @.state,
            length |-> req[r].shape.length, buffer |-> req[r].shape.buffer,
            category |-> req[r].category]]
    /\ Reply(r, "ok")
    /\ UNCHANGED <<team, salon, category, customer, settings, seen, met>>

DeleteService(r) ==
    /\ at[r] = "removeService"
    /\ IF Kind(r) = "deleteCategory"
       THEN category' = [category EXCEPT ![Target(r)] = "deleted"] /\ UNCHANGED service
       ELSE service' = [service EXCEPT ![Target(r)].state = "deleted"] /\ UNCHANGED category
    /\ Reply(r, "ok")
    /\ UNCHANGED <<team, salon, customer, settings, seen, met>>

-----------------------------------------------------------------------------
(* CustomerService *)

FindByPhone(r) ==
    LET found == OnPhone(req[r].phone)
    IN  /\ at[r] = "phone"
        /\ CASE found = {} -> Goto(r, "newCustomer") /\ UNCHANGED req
             [] found # {} /\ Kind(r) = "message" -> Reply(r, "ok")
             [] OTHER -> Reply(r, "refused")
        /\ UNCHANGED <<rows, seen, met>>

(* uq_customers_tenant_phone covers the customers that are not deleted. *)
CreateCustomer(r) ==
    LET p == req[r].phone
    IN  /\ at[r] = "newCustomer"
        /\ IF OnPhone(p) # {} THEN Goto(r, "conflict") /\ UNCHANGED <<req, customer>>
           ELSE /\ customer' = [customer EXCEPT ![r] = [state |-> "live", phone |-> p]]
                /\ Reply(r, "ok")
        /\ UNCHANGED <<team, salon, catalog, settings, seen, met>>

(* The one in the way is looked up; it may be gone by now. *)
FindConflicting(r) ==
    /\ at[r] = "conflict"
    /\ Reply(r, CASE Kind(r) = "createCustomer" -> "refused"
                  [] Kind(r) # "createCustomer" /\ OnPhone(req[r].phone) # {} -> "ok"
                  [] OTHER -> "error")
    /\ UNCHANGED <<rows, seen, met>>

FindCustomer(r) ==
    /\ at[r] = "customer"
    /\ Proceed(r, customer[Target(r)].state = "live", "removeCustomer")
    /\ UNCHANGED <<rows, seen, met>>

DeleteCustomer(r) ==
    /\ at[r] = "removeCustomer"
    /\ customer' = [customer EXCEPT ![Target(r)].state = "deleted"]
    /\ Reply(r, "ok")
    /\ UNCHANGED <<team, salon, catalog, settings, seen, met>>

-----------------------------------------------------------------------------
(* TenantSettingsService: the row is read, and every namespace that the    *)
(* request touches is written as it was read but for the request's keys.   *)
ReadSettings(r) ==
    /\ at[r] = "settings"
    /\ seen' = [seen EXCEPT ![r] = {[key |-> k, value |-> settings[k]] : k \in Keys}]
    /\ Goto(r, "merge")
    /\ UNCHANGED <<rows, req, met>>

(* Faulty variant: what is sent replaces the namespace. *)
ReplaceCategories(r) ==
    /\ at[r] = "merge"
    /\ settings' = [k \in Keys |->
           CASE k \in req[r].keys -> r
             [] k \notin req[r].keys /\ Namespace[k] \in {Namespace[o] : o \in req[r].keys} -> None
             [] OTHER -> settings[k]]
    /\ Reply(r, "ok")
    /\ seen' = [seen EXCEPT ![r] = {}]
    /\ UNCHANGED <<team, salon, catalog, customer, met>>

UpdateCategories(r) ==
    LET touched == {k \in Keys : \E own \in req[r].keys : Namespace[own] = Namespace[k]}
        read == [k \in Keys |-> (CHOOSE x \in seen[r] : x.key = k).value]
    IN  /\ at[r] = "merge"
        /\ settings' = [k \in Keys |-> CASE k \in req[r].keys -> r
                                         [] k \in touched \ req[r].keys -> read[k]
                                         [] OTHER -> settings[k]]
        /\ Reply(r, "ok")
        /\ seen' = [seen EXCEPT ![r] = {}]
        /\ UNCHANGED <<team, salon, catalog, customer, met>>

-----------------------------------------------------------------------------
(* A failing statement or a dying process; what a transaction had done is  *)
(* rolled back, and an employee already created or changed stays so.       *)
HandlerFails(r) ==
    /\ r \in Busy
    /\ Reply(r, "lost")
    /\ seen' = [seen EXCEPT ![r] = {}]
    /\ UNCHANGED <<rows, met>>

Team(r) ==
    \/ SendCreateEmployee(r) \/ CountStaff(r) \/ ValidateServices(r) \/ InsertEmployee(r)
    \/ \E e \in Staff :
           /\ employee[e].state # "none"
           /\ \/ SendUpdateEmployee(r, e) \/ SendDeleteEmployee(r, e)
              \/ SendAssign(r, e) \/ SendHours(r, e) \/ SendLeave(r, e)
    \/ FindEmployee(r) \/ CheckUserLinkable(r) \/ UpdateEmployee(r) \/ DeleteEmployee(r)
    \/ ValidateAssigned(r) \/ ClearSkills(r) \/ ReplaceSkills(r)
    \/ ClearHours(r) \/ ReplaceHours(r)
    \/ CreateTimeOff(r) \/ FindTimeOff(r) \/ DeleteTimeOff(r)

House(r) ==
    \/ SendBusinessHours(r) \/ ReplaceBusinessHours(r)
    \/ SendHoliday(r) \/ FindHoliday(r) \/ CheckDate(r) \/ SetDate(r) \/ DeleteHoliday(r)
    \/ SendService(r) \/ SendDeleteService(r) \/ SendDeleteCategory(r)
    \/ FindService(r) \/ CheckCategory(r) \/ SaveService(r) \/ DeleteService(r)
    \/ SendSettings(r) \/ SendAiBehavior(r) \/ ReadSettings(r) \/ UpdateCategories(r)

Clients(r) ==
    \/ SendCustomer(r) \/ FindByPhone(r) \/ CreateCustomer(r) \/ FindConflicting(r)
    \/ FindCustomer(r) \/ DeleteCustomer(r)

Next == \E r \in Requests : Team(r) \/ House(r) \/ Clients(r) \/ HandlerFails(r)

Spec == Init /\ [][Next]_vars

-----------------------------------------------------------------------------
(* AvailabilityService *)

Larger(m, n) == IF m > n THEN m ELSE n
Smaller(m, n) == IF m < n THEN m ELSE n

(* effectiveBufferMinutes, where the settings form asks for one tick. *)
TenantBuffer == IF "buffer" \in Keys /\ settings["buffer"] # None THEN 1 ELSE 0
EffectiveBuffer(s) == Larger(service[s].buffer, TenantBuffer)

(* getWorkingWindowsForDate *)
WorkingWindows(e, date) ==
    LET open == business[Weekday(date)]
        today == {x \in shifts : x.employee = e /\ x.entry.active /\ x.entry.day = Weekday(date)}
        away == \E l \in Requests : leaves[l] # None /\ leaves[l].employee = e /\ date \in leaves[l].dates
    IN  IF HolidaysOn(date) # {} \/ away \/ open = None THEN {}
        ELSE {w \in {[from |-> date * Day + Larger(x.entry.from, open.from),
                      to |-> date * Day + Smaller(x.entry.to, open.to)] : x \in today} :
                 w.from < w.to}

(* getBlockingRanges *)
BlockingRanges(e, from, to) ==
    {b \in Bookings : b.employee = e /\ b.start < to /\ b.until > from}

Clashing(ranges, from, to) == \E b \in ranges : from < b.until /\ b.start < to

(* getEligibleActiveEmployees *)
EligibleEmployees(s) ==
    {e \in Staff : Employed(e) /\ employee[e].active
                   /\ \E x \in skills : x.employee = e /\ x.service = s}

(* getAvailableSlots, for the dates first to last *)
Slots(s, first, last) ==
    LET length == service[s].length
        Starts(w) == {t \in w.from .. w.to - length : (t - w.from) % Granularity = 0}
        Offers == {p \in EligibleEmployees(s) \X (first * Day .. (last + 1) * Day - 1) :
                     /\ \E w \in WorkingWindows(p[1], p[2] \div Day) : p[2] \in Starts(w)
                     /\ ~Clashing(BlockingRanges(p[1], first * Day, (last + 1) * Day),
                                  p[2], p[2] + length + EffectiveBuffer(s))}
    IN  {[employee |-> p[1], start |-> p[2]] : p \in Offers}

(* Faulty variant: a visit may not end when its shift does. *)
IsWindowAvailableStrict(e, from, to, buffer) ==
    /\ Employed(e) /\ employee[e].active
    /\ \E w \in WorkingWindows(e, from \div Day) : w.from <= from /\ to < w.to
    /\ ~Clashing(BlockingRanges(e, from, to), from, to + buffer)

(* isWindowAvailable: the rows it looks at end where the visit ends. *)
IsWindowAvailable(e, from, to, buffer) ==
    /\ Employed(e) /\ employee[e].active
    /\ \E w \in WorkingWindows(e, from \div Day) : w.from <= from /\ to <= w.to
    /\ ~Clashing(BlockingRanges(e, from, to), from, to + buffer)

-----------------------------------------------------------------------------
(* Properties *)

TypeOK ==
    /\ employee \in [Staff -> [state: States, active: BOOLEAN, user: Users \cup {None}]]
    /\ skills \subseteq [employee: Staff, service: Services, by: Requests \cup {None}]
    /\ shifts \subseteq [employee: Staff, entry: Entries, by: Requests \cup {None}]
    /\ leaves \in [Requests -> [employee: Staff, dates: SUBSET Dates] \cup {None}]
    /\ business \in [Weekdays -> Windows \cup {None}]
    /\ holiday \in [Requests -> Dates \cup {None}]
    /\ service \in [Services -> [state: States, length: Nat \ {0}, buffer: Nat,
                                 category: Categories \cup {None}]]
    /\ category \in [Categories -> States]
    /\ customer \in [Customers -> [state: States, phone: Phones \cup {None}]]
    /\ settings \in [Keys -> Requests \cup {None}]
    /\ met \in [Requests -> SUBSET Requests]

Finishes(r) == at[r] # "done" /\ at'[r] = "done"

(* A save changes a key that it does not carry only if another save of the *)
(* settings was under way with it (updateCategories merges what it read).  *)
SavesKeepOthers ==
    [][\A r \in Requests : Finishes(r) /\ Kind(r) = "settings" =>
           \A k \in Keys \ req[r].keys :
               settings'[k] = settings[k] \/ \E o \in met[r] : Kind(o) = "settings"]_vars

(* The week of an employee and the list of what they do are those of one   *)
(* request: rows of two are found together only if the two overlapped.     *)
ReplacedAsAWhole ==
    /\ \A x, y \in shifts :
           x.employee = y.employee /\ x.by # y.by => x.by # None /\ y.by \in met[x.by]
    /\ \A x, y \in skills :
           x.employee = y.employee /\ x.by # y.by => x.by # None /\ y.by \in met[x.by]

(* A plan's staff limit is exceeded only by creations that overlapped.     *)
StaffWithinLimit ==
    \/ Cardinality({e \in Staff : Employed(e)}) <= StaffLimit
    \/ \E r, o \in Requests : /\ o \in met[r]
                              /\ Employed(r) /\ Employed(o)

(* A creation that is refused has left an employee behind only if somebody *)
(* deleted a service it names while it ran.                                *)
RefusedCreatesNobody ==
    \A r \in Requests :
        /\ Kind(r) = "createEmployee" /\ at[r] = "done" /\ employee[r].state # "none"
        /\ req[r].answer = "refused"
        => \E o \in met[r] : Kind(o) = "deleteService" /\ Target(o) \in req[r].services

(* An unforeseen error (500) has a cause: an overlapping request, or a     *)
(* user whom an employee deleted before still holds (userId is unique).    *)
ErrorsHaveACause ==
    \A r \in Requests : req[r].answer = "error" =>
        \/ met[r] # {}
        \/ /\ Kind(r) \in {"createEmployee", "updateEmployee"}
           /\ \E e \in Linked(req[r].user) : employee[e].state = "deleted"

(* What a check before a write, or two statements without a lock, cannot    *)
(* keep is hurt by overlaps only.                                          *)
OnlyRacesHurt == ReplacedAsAWhole /\ StaffWithinLimit /\ RefusedCreatesNobody /\ ErrorsHaveACause

(* Every slot offered can be booked: isWindowAvailable agrees, and no row  *)
(* of the calendar is hit but by a buffer that leaves the dates asked for. *)
OfferedCanBeBooked ==
    \A s \in Services, first, last \in Dates : Offered(s) /\ first <= last =>
        \A slot \in Slots(s, first, last) :
            LET end == slot.start + service[s].length
                until == end + EffectiveBuffer(s)
            IN  /\ IsWindowAvailable(slot.employee, slot.start, end, EffectiveBuffer(s))
                /\ \/ ~Clashing({b \in Bookings : b.employee = slot.employee}, slot.start, until)
                   \/ until > (last + 1) * Day

(* A window isWindowAvailable accepts is offered too, where it begins on   *)
(* the grid of its shift, its employee does the service, and nothing       *)
(* begins in the buffer after it.                                          *)
BookableIsOffered ==
    \A s \in Services, d \in Dates : Offered(s) =>
        \A e \in EligibleEmployees(s), t \in d * Day .. (d + 1) * Day - 1 :
            LET end == t + service[s].length
            IN  /\ IsWindowAvailable(e, t, end, EffectiveBuffer(s))
                /\ \E w \in WorkingWindows(e, d) :
                       w.from <= t /\ end <= w.to /\ (t - w.from) % Granularity = 0
                /\ ~\E b \in Bookings : /\ b.employee = e
                                        /\ end <= b.start /\ b.start < end + EffectiveBuffer(s)
                => [employee |-> e, start |-> t] \in Slots(s, d, d)

(* getAvailableSlots and isWindowAvailable speak of the same calendar. *)
SlotsMatchBooking == OfferedCanBeBooked /\ BookableIsOffered
=============================================================================
