-------------------------------- MODULE DemoSeed --------------------------------
(***************************************************************************)
(* The scripts that fill and empty a database: prisma/seed.ts (roles,      *)
(* permissions, plans), prisma/demo-seed.ts (one tenant with everything a  *)
(* salon has) and prisma/demo-reset.ts (which takes that tenant away).     *)
(*                                                                         *)
(* No script opens a transaction: each awaits one statement after another, *)
(* can be interrupted between any two, and may run beside another one or   *)
(* beside a backend that serves the demo tenant.  What Postgres enforces   *)
(* is part of the model: foreign keys, unique columns and the EXCLUDE      *)
(* constraint on the blocking legs of an employee.                         *)
(*                                                                         *)
(* The timeline of one employee is built and written appointment by        *)
(* appointment; a table with nothing of its own to say is "begun" by its   *)
(* first row and "filled" when the script is done with it.                 *)
(***************************************************************************)
EXTENDS Integers, Sequences, FiniteSets, SequencesExt

CONSTANTS
    Terminals,   \* where somebody can start a script
    MaxRuns,     \* bound: how many scripts are started, one beside another counting twice
    Today,       \* the weekday of now, 0 for Sunday
    Clock,       \* the minute of the day of now
    Window,      \* bound: the days of the appointment window, as offsets from now, in order
    Employee,    \* the employee whose timeline is followed
    Picks,       \* bound: the lists of services an appointment may be for
    PerDay,      \* bound: how many appointments a day may get (3 to 6 in the script)
    Gaps,        \* bound: the breaks between two appointments (0, or 15 to 45)
    Told,        \* bound: the conversation scenarios that are told, in order
    Served       \* the tables a backend may add a row of the demo tenant to

-----------------------------------------------------------------------------
(* Reference data of the script *)

(* EMPLOYEE_SPECS: skills, working weekdays with their hours, leave as day  *)
(* offsets from the moment the employee is created.                        *)
Spec8(skills, days, from, to, leave) ==
    [skills |-> skills, days |-> days, start |-> 60 * from, end |-> 60 * to, leave |-> leave]

EmployeeSpecs == [
    Sofia   |-> Spec8({"Hair"}, 1..5, 9, 17, <<12, 16>>),
    James   |-> Spec8({"Hair", "Makeup"}, 2..6, 10, 18, <<-10, -8>>),
    Aaliyah |-> Spec8({"Nails"}, 1..5, 9, 17, <<30, 33>>),
    Priya   |-> Spec8({"Nails", "Waxing"}, {0} \cup 3..6, 9, 17, <<45, 47>>),
    Lucas   |-> Spec8({"Massage", "Spa"}, {1, 3, 5, 6}, 11, 19, <<20, 22>>),
    Emma    |-> Spec8({"Facial", "Spa"}, 2..6, 9, 17, <<-5, -4>>),
    Noah    |-> Spec8({"Massage"}, 1..5, 12, 20, <<0, 21>>),
    Grace   |-> Spec8({"Facial", "Makeup", "Waxing"}, {1, 2, 4, 5, 6}, 9, 17, <<38, 40>>)]

(* SERVICES_BY_CATEGORY: what differs in length or buffer, in minutes. *)
Services == [
    Hair    |-> {<<30, 5>>, <<45, 10>>, <<60, 10>>, <<120, 15>>, <<180, 20>>},
    Nails   |-> {<<20, 0>>, <<30, 5>>, <<45, 10>>, <<60, 10>>, <<90, 10>>},
    Facial  |-> {<<30, 10>>, <<45, 15>>, <<60, 10>>, <<75, 15>>},
    Massage |-> {<<45, 10>>, <<60, 10>>, <<90, 15>>},
    Waxing  |-> {<<15, 5>>, <<30, 10>>, <<45, 10>>, <<120, 15>>},
    Makeup  |-> {<<60, 10>>, <<75, 10>>, <<90, 15>>},
    Spa     |-> {<<45, 10>>, <<60, 10>>, <<150, 20>>, <<180, 20>>}]

(* CONVERSATION_SCENARIOS: the status a thread has, and who wrote what in  *)
(* it, by turns: c the customer, a the AI, s the staff.                    *)
Chat(status, senders) == [status |-> status, senders |-> senders]
Short == <<"c", "a", "c">>
Usual == <<"c", "a", "c", "a">>
Long == <<"c", "a", "c", "a", "c", "a">>

Scenarios == <<
    Chat("RESOLVED", <<"c", "a", "a", "c", "a">>), Chat("RESOLVED", Usual),
    Chat("CLOSED", Usual), Chat("RESOLVED", Short), Chat("RESOLVED", Long),
    Chat("RESOLVED", Usual), Chat("ESCALATED", <<"c", "a", "s", "c", "s", "c">>),
    Chat("ESCALATED", <<"c", "a", "s", "c", "s">>), Chat("OPEN", Short), Chat("OPEN", Short),
    Chat("RESOLVED", Long), Chat("CLOSED", Short), Chat("RESOLVED", Usual),
    Chat("ESCALATED", <<"c", "a", "s", "s", "c">>), Chat("OPEN", Short),
    Chat("RESOLVED", Usual), Chat("RESOLVED", Usual)>>

ASSUME DemoAssumption ==
    /\ MaxRuns \in Nat /\ Clock \in 0..1439 /\ Today \in 0..6
    /\ Window \in Seq(Int) /\ \A k, j \in DOMAIN Window : k < j => Window[k] < Window[j]
    /\ Employee \in DOMAIN EmployeeSpecs
    /\ PerDay \subseteq Nat /\ Gaps \subseteq Nat
    /\ Picks \subseteq Seq(UNION {Services[skill] : skill \in EmployeeSpecs[Employee].skills})
                 \ {<< >>}
    /\ Told \in Seq(DOMAIN Scenarios)
    /\ Served \cap {"appointment", "conversation"} = {}

-----------------------------------------------------------------------------
VARIABLES
    base,       \* the parts of seed.ts that are in the database
    tenant,     \* the demo tenant, as the number of tenants made so far; 0 without one
    made,       \* how many demo tenants were made
    table,      \* table[t]: how far the rows of the tenant in t have come
    book,       \* the appointments of the employee, with their legs and history
    threads,    \* the conversations
    at,         \* at[p]: the statement the script in p runs next
    script,     \* script[p]: which script that is
    tid,        \* tid[p]: the tenant it works on
    work,       \* work[p]: its position in its loops, and the timeline it is building
    ended,      \* ended[p]: how it ended
    disturbed,  \* history: whether anything else was running meanwhile
    runs        \* how many scripts were started, for the bound

local == <<tid, work>>
rows == <<base, tenant, made, table, book, threads>>
history == <<disturbed, runs, script>>
demoVars == <<rows, at, script, tid, work, ended, disturbed, runs>>

Tables == {"user", "settings", "profile", "hours", "holiday", "employee", "workingHours",
           "timeOff", "category", "service", "employeeService", "customer", "appointment",
           "appointmentService", "statusHistory", "subscription", "invoice", "payment",
           "account", "conversation", "message", "summary", "context", "invitation", "audit"}

(* Rows that must go before the rows they name: onDelete: Restrict. *)
Restricts == [t \in Tables |->
    CASE t = "user" -> {"invitation"}
      [] t = "employee" -> {"appointment", "appointmentService"}
      [] t = "service" -> {"appointmentService"}
      [] t = "customer" -> {"appointment", "conversation"}
      [] t = "account" -> {"conversation"}
      [] OTHER -> {}]

(* Rows that go with the rows they name: onDelete: Cascade. *)
Cascades == [t \in Tables |->
    CASE t = "employee" -> {"workingHours", "timeOff", "employeeService"}
      [] t = "service" -> {"employeeService"}
      [] t = "appointment" -> {"appointmentService", "statusHistory"}
      [] t = "conversation" -> {"message", "summary", "context"}
      [] t = "subscription" -> {"invoice"}
      [] OTHER -> {}]

NoWork == [days |-> << >>, cursor |-> 0, left |-> 0, slots |-> << >>, origins |-> {}, pos |-> 1]

DemoInit ==
    /\ base \in {{}, {"roles", "permissions", "grants", "plans"}}
    /\ tenant = 0 /\ made = 0
    /\ table = [t \in Tables |-> "none"]
    /\ book = << >> /\ threads = << >>
    /\ at = [p \in Terminals |-> "idle"]
    /\ script = [p \in Terminals |-> "none"]
    /\ tid = [p \in Terminals |-> 0]
    /\ work = [p \in Terminals |-> NoWork]
    /\ ended = [p \in Terminals |-> "not"]
    /\ disturbed = [p \in Terminals |-> FALSE]
    /\ runs = 0

Goto(p, place) == at' = [at EXCEPT ![p] = place]
NextPos(p) == work' = [work EXCEPT ![p].pos = @ + 1]

(* main().catch(...).finally(...): a script ends, well or with an error. *)
End(p, how) ==
    /\ Goto(p, "ended")
    /\ ended' = [ended EXCEPT ![p] = how]
    /\ UNCHANGED <<rows, local, history>>

Running == {p \in Terminals : at[p] # "idle"}

(* Somebody starts a script; its overlap with others is put on record. *)
Cost == IF Running = {} THEN 1 ELSE 2

Start(p, which, first) ==
    /\ at[p] = "idle" /\ runs + Cost <= MaxRuns
    /\ Goto(p, first)
    /\ script' = [script EXCEPT ![p] = which]
    /\ runs' = runs + Cost
    /\ disturbed' = [q \in Terminals |-> IF q = p THEN Running # {}
                                         ELSE disturbed[q] \/ q \in Running]
    /\ UNCHANGED <<rows, local, ended>>

(* Ctrl-C, an exit, a lost connection. *)
Interrupt(p) ==
    /\ at[p] \notin {"idle", "ended"}
    /\ End(p, "interrupted")

Leave(p) ==
    /\ at[p] = "ended"
    /\ Goto(p, "idle")
    /\ ended' = [ended EXCEPT ![p] = "not"]
    /\ tid' = [tid EXCEPT ![p] = 0] /\ work' = [work EXCEPT ![p] = NoWork]
    /\ disturbed' = [disturbed EXCEPT ![p] = FALSE]
    /\ script' = [script EXCEPT ![p] = "none"]
    /\ UNCHANGED <<rows, runs>>

-----------------------------------------------------------------------------
(* seed.ts *)

BaseParts == <<"roles", "permissions", "grants", "plans">>

(* Each part is upserted by its key, so that a second run finds the first  *)
(* one's rows; the matrix needs both its sides.                            *)
SeedBase(p) ==
    /\ at[p] = "base"
    /\ IF work[p].pos > Len(BaseParts) THEN End(p, "ok")
       ELSE /\ base' = base \cup {BaseParts[work[p].pos]}
            /\ NextPos(p)
            /\ UNCHANGED <<tenant, made, table, book, threads, at, tid, ended, history>>

(* PATCH /admin/plans/:id retires the plan; the next seed.ts sells it again. *)
RetirePlan ==
    /\ "plans" \in base
    /\ base' = base \ {"plans"}
    /\ disturbed' = [q \in Terminals |-> disturbed[q] \/ q \in Running]
    /\ UNCHANGED <<tenant, made, table, book, threads, at, script, local, ended, runs>>

-----------------------------------------------------------------------------
(* demo-seed.ts *)

(* main: OWNER, an active Professional plan and no demo tenant. *)
FindRole(p) ==
    /\ at[p] = "role"
    /\ IF "roles" \in base THEN Goto(p, "plan") /\ UNCHANGED <<rows, local, ended, history>>
       ELSE End(p, "unseeded")

FindPlan(p) ==
    /\ at[p] = "plan"
    /\ IF "plans" \in base THEN Goto(p, "existing") /\ UNCHANGED <<rows, local, ended, history>>
       ELSE End(p, "unseeded")

FindTenant(p) ==
    /\ at[p] = "existing"
    /\ IF tenant = 0 THEN Goto(p, "tenant") /\ UNCHANGED <<rows, local, ended, history>>
       ELSE End(p, "exists")

CreateTenant(p) ==
    /\ at[p] = "tenant"
    /\ IF tenant # 0 THEN End(p, "constraint")
       ELSE /\ made' = made + 1 /\ tenant' = made + 1
            /\ tid' = [tid EXCEPT ![p] = made + 1]
            /\ Goto(p, "owner")
            /\ UNCHANGED <<base, table, book, threads, work, ended, history>>

(* A row of t goes in if the rows it names are there.  Rows that others    *)
(* have meddled with may be short of the very one that is named.           *)
Named(p, parents) == tid[p] = tenant /\ \A t \in parents : table[t] # "none"

Refused(p, parents) ==
    /\ ~Named(p, parents) \/ disturbed[p]
    /\ End(p, "constraint")

Grow(t) == IF table[t] = "none" THEN "begun" ELSE "filled"

(* A section that writes a row of t for each of several things: it comes   *)
(* back to it, by way of what the loop does next, until t is filled.       *)
Fill(p, here, t, parents, again, next) ==
    /\ at[p] = here
    /\ \/ /\ Named(p, parents)
          /\ table' = [table EXCEPT ![t] = Grow(t)]
          /\ Goto(p, IF Grow(t) = "begun" THEN again ELSE next)
          /\ UNCHANGED <<base, tenant, made, book, threads, local, ended, history>>
       \/ Refused(p, parents)

(* A section that is a single statement. *)
FillAtOnce(p, here, t, parents, next) ==
    /\ at[p] = here
    /\ \/ /\ Named(p, parents)
          /\ table' = [table EXCEPT ![t] = "filled"]
          /\ Goto(p, next)
          /\ UNCHANGED <<base, tenant, made, book, threads, local, ended, history>>
       \/ Refused(p, parents)

CreateOwner(p) == FillAtOnce(p, "owner", "user", {}, "settings")
CreateTenantSettings(p) == FillAtOnce(p, "settings", "settings", {}, "profile")
CreateSalonProfile(p) == FillAtOnce(p, "profile", "profile", {}, "hours")
CreateBusinessHours(p) == FillAtOnce(p, "hours", "hours", {}, "employee")

(* An employee, the working hours, the leave, and the next employee. *)
CreateEmployees(p) ==
    \/ Fill(p, "employee", "employee", {}, "workingHours", "workingHours")
    \/ Fill(p, "workingHours", "workingHours", {"employee"}, "timeOff", "timeOff")
    \/ Fill(p, "timeOff", "timeOff", {"employee"}, "employee", "category")

CreateServiceCategories(p) == Fill(p, "category", "category", {}, "category", "service")
CreateServices(p) == Fill(p, "service", "service", {"category"}, "service", "employeeService")

AssignEmployeeServices(p) ==
    FillAtOnce(p, "employeeService", "employeeService", {"employee", "service"}, "customer")

CreateCustomers(p) == Fill(p, "customer", "customer", {}, "customer", "timeline")

-----------------------------------------------------------------------------
(* The timeline of the employee, built in memory *)

Staff == EmployeeSpecs[Employee]
Weekday(day) == (Today + day) % 7
Past(slot) == slot.day < 0 \/ (slot.day = 0 /\ slot.start < Clock)

(* The days of the window are counted from the moment the section starts,  *)
(* the leave from the moment the employee was created, which is earlier by *)
(* the statements between: the window reaches a day of the leave just      *)
(* after the leave does, and the last day just after its end.  The variant *)
(* ends has it the other way round.                                        *)
IsOnTimeOffLate(day) == Staff.leave[1] < day /\ day <= Staff.leave[2]
IsOnTimeOff(day) == Staff.leave[1] <= day /\ day < Staff.leave[2]

Build(p, changed) ==
    /\ work' = [work EXCEPT ![p] = changed]
    /\ UNCHANGED <<rows, tid, ended, history>>

BeginTimeline(p) ==
    /\ at[p] = "timeline"
    /\ Goto(p, "day")
    /\ Build(p, [work[p] EXCEPT !.days = Window])

(* A day off, a day of leave, and any other day at random, get nothing. *)
BeginDay(p) ==
    LET day == Head(work[p].days)
        rest == Tail(work[p].days)
    IN  /\ at[p] = "day" /\ work[p].days # << >>
        /\ \/ /\ Goto(p, "day")
              /\ Build(p, [work[p] EXCEPT !.days = rest])
           \/ /\ Weekday(day) \in Staff.days /\ ~IsOnTimeOff(day)
              /\ Goto(p, "slot")
              /\ \E n \in PerDay :
                    Build(p, [work[p] EXCEPT !.cursor = Staff.start, !.left = n])

SumDurations(services) ==
    LET sum[n \in 0..Len(services)] == IF n = 0 THEN 0 ELSE sum[n - 1] + services[n][1]
    IN  sum[Len(services)]

EndTime(slot) == slot.start + SumDurations(slot.services)
BlockedUntil(slot) == EndTime(slot) + Last(slot.services)[2]

NextDay(p) ==
    /\ Goto(p, "day")
    /\ Build(p, [work[p] EXCEPT !.days = Tail(@)])

(* One more appointment, if it and its buffer fit the day.  The variant    *)
(* lets the next one begin when the customer leaves the chair.             *)
AddSlotAfter(p, Free(_)) ==
    /\ at[p] = "slot"
    /\ IF work[p].left = 0 THEN NextDay(p)
       ELSE \E services \in Picks, gap \in Gaps :
              LET slot == [day |-> Head(work[p].days), start |-> work[p].cursor,
                           services |-> services]
              IN  IF BlockedUntil(slot) > Staff.end THEN NextDay(p)
                  ELSE /\ Goto(p, "slot")
                       /\ Build(p, [work[p] EXCEPT !.slots = Append(@, slot), !.left = @ - 1,
                                                   !.cursor = Free(slot) + gap])

AddSlotUnbuffered(p) == AddSlotAfter(p, EndTime)
AddSlot(p) == AddSlotAfter(p, BlockedUntil)

(* Some appointments of the past were rescheduled into the next slot. *)
MarkOrigins(p) ==
    LET slots == work[p].slots
    IN  /\ at[p] = "day" /\ work[p].days = << >>
        /\ Goto(p, "appointment")
        /\ \E some \in SUBSET {k \in 1..Len(slots) - 1 : Past(slots[k])} :
              Build(p, [work[p] EXCEPT !.origins = some])

-----------------------------------------------------------------------------
(* createAppointments: the slots of the timeline, one after the other *)

BlockingStatuses == {"CONFIRMED", "COMPLETED", "NO_SHOW"}

StatusOf(p, k) ==
    IF k \in work[p].origins THEN {"RESCHEDULED"}
    ELSE IF Past(work[p].slots[k]) THEN {"COMPLETED", "NO_SHOW", "CANCELLED"}
    ELSE {"CONFIRMED", "CANCELLED", "RESCHEDULED"}

(* The legs are back to back, and only the last one carries its buffer. *)
Legs(slot, blocking) ==
    [k \in DOMAIN slot.services |->
        LET start == slot.start + SumDurations(SubSeq(slot.services, 1, k - 1))
            end == start + slot.services[k][1]
        IN  [day |-> slot.day, start |-> start, end |-> end, blocking |-> blocking,
             blockedUntil |-> IF k = Len(slot.services) THEN BlockedUntil(slot) ELSE end]]

(* lastCreatedAppointmentId, if the slot before was an origin and this one *)
(* is not.                                                                 *)
IsSuccessor(p, k) == k \notin work[p].origins /\ k - 1 \in work[p].origins
RescheduledFrom(p, k) == IF IsSuccessor(p, k) THEN Len(book) ELSE 0

(* The EXCLUDE constraint: blocking legs of an employee do not overlap. *)
Collide(a, b) ==
    /\ a.blocking /\ b.blocking /\ a.day = b.day
    /\ a.start < b.blockedUntil /\ b.start < a.blockedUntil

BookedLegs == UNION {Range(book[k].legs) : k \in DOMAIN book}

Excluded(legs) ==
    \/ \E k \in DOMAIN legs, leg \in BookedLegs : Collide(legs[k], leg)
    \/ \E k, j \in DOMAIN legs : k # j /\ Collide(legs[k], legs[j])

(* The appointment and its legs are one statement. *)
CreateAppointment(p) ==
    LET k == work[p].pos
        slot == work[p].slots[k]
        parents == {"employee", "customer", "service"}
    IN  /\ at[p] = "appointment" /\ k <= Len(work[p].slots)
        /\ \/ \E status \in StatusOf(p, k) :
              LET legs == Legs(slot, status \in BlockingStatuses)
              IN  IF Excluded(legs) THEN End(p, "constraint")
                  ELSE /\ Named(p, parents)
                       /\ IsSuccessor(p, k) => book # << >>
                       /\ book' = Append(book, [slot |-> slot, status |-> status, legs |-> legs,
                                                from |-> RescheduledFrom(p, k), past |-> << >>])
                       /\ table' = [table EXCEPT !["appointment"] = Grow("appointment"),
                                                 !["appointmentService"] = Grow("appointmentService")]
                       /\ Goto(p, "statusHistory")
                       /\ UNCHANGED <<base, tenant, made, threads, local, ended, history>>
           \/ Refused(p, parents)

(* Its history is another: created as CONFIRMED, and what became of it. *)
CreateHistory(p) ==
    /\ at[p] = "statusHistory"
    /\ \/ /\ Named(p, {"appointment"}) /\ book # << >>
          /\ book' = [book EXCEPT ![Len(book)].past =
                IF book[Len(book)].status = "CONFIRMED" THEN <<"CREATED">>
                ELSE <<"CREATED", book[Len(book)].status>>]
          /\ table' = [table EXCEPT !["statusHistory"] = Grow("statusHistory")]
          /\ Goto(p, "appointment") /\ NextPos(p)
          /\ UNCHANGED <<base, tenant, made, threads, tid, ended, history>>
       \/ Refused(p, {"appointment"})

(* The timeline is written; the other employees' go the same way. *)
AppointmentsDone(p) ==
    /\ at[p] = "appointment" /\ work[p].pos > Len(work[p].slots)
    /\ Goto(p, "subscription")
    /\ Build(p, NoWork)

-----------------------------------------------------------------------------
(* Billing, WhatsApp, conversations, prompts, audit trail *)

CreateBilling(p) ==
    \/ FillAtOnce(p, "subscription", "subscription", {}, "invoice")
    \/ Fill(p, "invoice", "invoice", {"subscription"}, "payment", "payment")
    \/ Fill(p, "payment", "payment", {"invoice"}, "invoice", "account")

(* encryptToken throws if WHATSAPP_TOKEN_ENCRYPTION_KEY is not set, with    *)
(* everything before it in the database.                                   *)
EncryptToken(p) ==
    /\ at[p] = "account"
    /\ \/ Goto(p, "connect") /\ UNCHANGED <<rows, local, ended, history>>
       \/ End(p, "keyless")

CreateWhatsAppAccount(p) == FillAtOnce(p, "connect", "account", {}, "conversation")

(* Of each scenario: the thread, its messages, when it was last written    *)
(* in, and a summary of a thread that is over or the context of another.   *)
Scenario(p) == Scenarios[Told[work[p].pos]]

Latest(positions) ==
    IF positions = {} THEN 0 ELSE CHOOSE k \in positions : \A j \in positions : j <= k

Tell(p, here, parents, t, changed, next) ==
    /\ at[p] = here
    /\ \/ /\ Named(p, parents)
          /\ threads' = changed
          /\ table' = [table EXCEPT ![t] = Grow(t)]
          /\ Goto(p, next)
          /\ UNCHANGED <<base, tenant, made, book, local, ended, history>>
       \/ Refused(p, parents)

CreateConversation(p) ==
    /\ work[p].pos <= Len(Told)
    /\ Tell(p, "conversation", {"customer", "account"}, "conversation",
            Append(threads, [chat |-> Scenario(p), last |-> 0, inbound |-> 0, kept |-> "nothing"]),
            "message")

CreateMessages(p) == Tell(p, "message", {"conversation"}, "message", threads, "touch")

TouchConversation(p) ==
    LET senders == Scenario(p).senders
    IN  Tell(p, "touch", {"conversation"}, "conversation",
             [threads EXCEPT ![Len(threads)] =
                [@ EXCEPT !.last = Len(senders),
                          !.inbound = Latest({k \in DOMAIN senders : senders[k] = "c"})]],
             "keep")

KeepConversation(p) ==
    LET kept == IF Scenario(p).status \in {"RESOLVED", "CLOSED"} THEN "summary" ELSE "context"
    IN  Tell(p, "keep", {"conversation"}, kept,
             [threads EXCEPT ![Len(threads)] = [@ EXCEPT !.kept = kept]], "told")

NextScenario(p) ==
    \/ /\ at[p] = "told" /\ Goto(p, "conversation")
       /\ Build(p, [work[p] EXCEPT !.pos = @ + 1])
    \/ /\ at[p] = "conversation" /\ work[p].pos > Len(Told) /\ Goto(p, "prompts")
       /\ Build(p, NoWork)

(* Prompt versions belong to no tenant, are upserted, and never deleted. *)
CreatePromptVersions(p) ==
    /\ at[p] = "prompts"
    /\ Goto(p, "audit")
    /\ UNCHANGED <<rows, local, ended, history>>

CreateAuditLogs(p) == FillAtOnce(p, "audit", "audit", {"user"}, "finished")

Exit(p) == at[p] = "finished" /\ End(p, "ok")

-----------------------------------------------------------------------------
(* demo-reset.ts *)

FindDemoTenant(p) ==
    /\ at[p] = "find"
    /\ IF tenant = 0 THEN End(p, "ok")
       ELSE /\ tid' = [tid EXCEPT ![p] = tenant]
            /\ Goto(p, "delete")
            /\ UNCHANGED <<rows, work, ended, history>>

ResetOrder == <<
    "appointmentService", "statusHistory", "appointment", "message", "summary", "context",
    "conversation", "account", "employeeService", "workingHours", "timeOff", "employee",
    "service", "category", "customer", "payment", "invoice", "subscription", "profile",
    "hours", "holiday", "settings", "audit", "user">>

Emptied(ts) ==
    /\ table' = [t \in Tables |-> IF t \in ts THEN "none" ELSE table[t]]
    /\ book' = IF "appointment" \in ts THEN << >>
               ELSE IF "appointmentService" \in ts
                    THEN [k \in DOMAIN book |-> [book[k] EXCEPT !.legs = << >>]]
                    ELSE book
    /\ threads' = IF "conversation" \in ts THEN << >> ELSE threads

Held(t) == \E other \in Restricts[t] : table[other] # "none"

(* deleteMany of the tenant's rows, table after table. *)
DeleteMany(p) ==
    LET t == ResetOrder[work[p].pos]
    IN  /\ at[p] = "delete" /\ work[p].pos <= Len(ResetOrder)
        /\ IF tid[p] = tenant /\ Held(t) THEN End(p, "constraint")
           ELSE /\ Emptied(IF tid[p] = tenant THEN {t} \cup Cascades[t] ELSE {})
                /\ NextPos(p)
                /\ UNCHANGED <<base, tenant, made, at, tid, ended, history>>

(* Last the tenant, with whatever has come in again and may go with it;    *)
(* if some of that holds back the rest, Postgres may refuse.               *)
DeleteTenant(p) ==
    /\ at[p] = "delete" /\ work[p].pos > Len(ResetOrder)
    /\ \/ /\ tid[p] # tenant \/ \E t \in Tables : Held(t) \/ table["user"] # "none"
          /\ End(p, "constraint")
       \/ /\ tid[p] = tenant /\ table["user"] = "none"
          /\ tenant' = 0
          /\ Emptied(Tables)
          /\ Goto(p, "finished")
          /\ UNCHANGED <<base, made, local, ended, history>>

-----------------------------------------------------------------------------
(* A backend that serves the demo tenant adds rows to it. *)
Use ==
    /\ table["user"] # "none"
    /\ \E t \in Served : /\ table[t] = "none"
                         /\ table' = [table EXCEPT ![t] = "begun"]
    /\ disturbed' = [q \in Terminals |-> disturbed[q] \/ q \in Running]
    /\ UNCHANGED <<base, tenant, made, book, threads, at, script, local, ended, runs>>

DemoSeed(p) ==
    \/ FindRole(p) \/ FindPlan(p) \/ FindTenant(p) \/ CreateTenant(p) \/ CreateOwner(p)
    \/ CreateTenantSettings(p) \/ CreateSalonProfile(p) \/ CreateBusinessHours(p)
    \/ CreateEmployees(p) \/ CreateServiceCategories(p) \/ CreateServices(p)
    \/ AssignEmployeeServices(p) \/ CreateCustomers(p)
    \/ BeginTimeline(p) \/ BeginDay(p) \/ AddSlot(p) \/ MarkOrigins(p)
    \/ CreateAppointment(p) \/ CreateHistory(p) \/ AppointmentsDone(p)
    \/ CreateBilling(p) \/ EncryptToken(p) \/ CreateWhatsAppAccount(p)
    \/ CreateConversation(p) \/ CreateMessages(p) \/ TouchConversation(p)
    \/ KeepConversation(p) \/ NextScenario(p)
    \/ CreatePromptVersions(p) \/ CreateAuditLogs(p) \/ Exit(p)

DemoReset(p) == FindDemoTenant(p) \/ DeleteMany(p) \/ DeleteTenant(p)

DemoNext ==
    \/ \E p \in Terminals :
         \/ Start(p, "seed", "base") \/ Start(p, "demo:seed", "role")
         \/ Start(p, "demo:reset", "find")
         \/ Interrupt(p) \/ Leave(p)
         \/ SeedBase(p) \/ DemoSeed(p) \/ DemoReset(p)
    \/ RetirePlan \/ Use

DemoSpec == DemoInit /\ [][DemoNext]_demoVars

-----------------------------------------------------------------------------
(* Whatever is interrupted and run again, the timeline that was built in   *)
(* memory is the one in the database: every appointment of the demo lies   *)
(* with its buffer in the working hours its employee has that day, and not *)
(* in the leave but on its last day (see IsOnTimeOff); and a successor     *)
(* comes after an appointment that was rescheduled, of which it is the     *)
(* only one.  It does not say that the application would have taken the    *)
(* appointment: the script never asks when the salon is open.              *)
BookIsClean ==
    /\ \A k \in DOMAIN book :
        LET slot == book[k].slot
            origin == book[k].from
        IN  /\ Weekday(slot.day) \in Staff.days
            /\ Staff.start <= slot.start /\ BlockedUntil(slot) <= Staff.end
            /\ ~(Staff.leave[1] <= slot.day /\ slot.day < Staff.leave[2])
            /\ origin # 0 =>
                 /\ origin < k /\ book[origin].status = "RESCHEDULED"
                 /\ \/ book[origin].slot.day < slot.day
                    \/ EndTime(book[origin].slot) <= slot.start
    /\ \A k, j \in DOMAIN book : book[k].from = book[j].from => k = j \/ book[k].from = 0

(* What a script that ran alone may say of itself.                         *)
Seeded == Tables \ {"holiday", "invitation", "appointment", "appointmentService",
                    "statusHistory", "conversation", "message", "summary", "context"}

DemoIsWhole ==
    /\ \A t \in Seeded : table[t] = "filled"
    /\ \A k \in DOMAIN book : book[k].past # << >> /\ book[k].legs # << >>
    /\ Len(threads) = Len(Told)
    /\ \A k \in DOMAIN threads :
        LET thread == threads[k]
        IN  /\ thread.chat = Scenarios[Told[k]] /\ thread.kept # "nothing"
            /\ thread.last = Len(thread.chat.senders)
            /\ thread.inbound \in 1..thread.last
            /\ thread.chat.senders[thread.inbound] = "c"
            /\ \A j \in thread.inbound + 1..thread.last : thread.chat.senders[j] # "c"

(* "npm run demo:reset && npm run demo:seed" works from wherever earlier   *)
(* runs were interrupted: a script that runs alone is never refused by a   *)
(* constraint (EXCLUDE, unique or foreign key), except a reset by an       *)
(* invitation somebody sent from the demo tenant; a reset that succeeds    *)
(* has left nothing, a seed that succeeds has left the whole salon.        *)
ScriptsRepeat ==
    \A p \in Terminals : at[p] = "ended" /\ ~disturbed[p] =>
        /\ ended[p] = "constraint" => script[p] = "demo:reset" /\ table["invitation"] # "none"
        /\ ended[p] = "exists" => tenant # 0
        /\ ended[p] = "unseeded" => ~{"roles", "plans"} \subseteq base
        /\ ended[p] = "ok" =>
             CASE script[p] = "seed" -> Range(BaseParts) \subseteq base
               [] script[p] = "demo:seed" -> tenant = tid[p] /\ DemoIsWhole
               [] script[p] = "demo:reset" -> tenant = 0 /\ \A t \in Tables : table[t] = "none"
=============================================================================
