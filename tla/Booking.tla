------------------------------- MODULE Booking -------------------------------
(***************************************************************************)
(* The booking engine of the scheduling module: AppointmentsService, the   *)
(* Redis BookingLockService it brackets its writes with, the availability  *)
(* check it makes under the lock, and the database transactions of         *)
(* PrismaAppointmentRepository with the EXCLUDE constraint on              *)
(* appointment_services underneath.                                        *)
(*                                                                         *)
(* Requests run concurrently.  A request is a process that moves from one  *)
(* await to the next: every Redis command and every database statement or  *)
(* transaction is one step, and anything may happen between two of them.   *)
(* A request creates at most one appointment, so the row it inserts is     *)
(* named by the request and a lock token by the request that drew it.  The *)
(* tools of the AI receptionist call createAppointmentForAi and its        *)
(* siblings, which take the same steps.                                    *)
(***************************************************************************)
EXTENDS Integers, FiniteSets, Sequences

CONSTANTS
    Requests,   \* the HTTP and AI requests, and the ids of the rows they insert
    Employees,  \* employee ids, ordered as the code's sort() orders them
    Starts,     \* the start times clients ask for
    Time,       \* the instants a line can start at, Starts among them
    Plans,      \* the (service, employee) lists a client can ask for
    Movable,    \* the employees whose status may change while requests run
    Hours,      \* Hours[e]: the working windows of employee e
    Limit,      \* maxAppointmentsPerMonth of the plan, all rows being of one month
    None

ASSUME EmployeesAssumption == Employees \subseteq Nat /\ IsFiniteSet(Employees)
ASSUME TimeAssumption == Starts \subseteq Time /\ Time \subseteq Nat
ASSUME LimitAssumption == Limit \in Nat
(* One line of a request: who does it, how long it takes, the buffer after. *)
PlanLine == [emp: Employees, dur: Nat \ {0}, buf: Nat]

ASSUME PlansAssumption ==
    \A p \in Plans : p \in Seq(PlanLine) /\ p # << >>

VARIABLES
    appt,     \* appt[i]: the appointments row i with its lines, or None
    lock,     \* lock[e]: the token under lock:availability:{tenant}:{e}, or None
    active,   \* active[e]: the employee's status is ACTIVE
    pc,       \* pc[r]: where request r stands
    job,      \* job[r]: what request r asks for, or None before it arrives
    lines,    \* lines[r]: the lines built for r
    held,     \* held[r]: the employees whose lock r was told it acquired
    checked,  \* checked[r]: how many of its lines r has found available
    outcome   \* outcome[r]: the reply r is heading for

vars == <<appt, lock, active, pc, job, lines, held, checked, outcome>>

-----------------------------------------------------------------------------
(* Requests and rows *)

Create == [kind: {"create"}, start: Starts, plan: Plans]
Reschedule ==
    [kind: {"reschedule"}, target: Requests, start: Starts, plan: Plans \cup {None}]
Close == [kind: {"cancel", "delete"}, target: Requests]

Line == [emp: Employees, start: Nat, end: Nat, blocked: Nat]

Status == {"CONFIRMED", "CANCELLED", "RESCHEDULED"}

Row == [status: Status, deleted: BOOLEAN, blocking: BOOLEAN,
        from: Requests \cup {None}, plan: Plans, lines: Seq(Line),
        history: Seq({"CREATED", "RESCHEDULED", "CANCELLED"})]

ASSUME NoneAssumption ==
    /\ None \notin Requests \cup Plans
    /\ None \notin Create \cup Reschedule \cup Close
    /\ None \notin Row

Exists(i) == appt[i] # None

(* Live: the row still stands for a visit that is going to happen. *)
Live(i) == Exists(i) /\ appt[i].status = "CONFIRMED" /\ ~appt[i].deleted

Blocking(i) == Exists(i) /\ appt[i].blocking

Rng(s) == {s[k] : k \in DOMAIN s}

(* tsrange("startTime","blockedUntil") WITH && and "employeeId" WITH =. *)
Overlap(l, m) ==
    /\ l.emp = m.emp
    /\ l.start < m.blocked
    /\ m.start < l.blocked

-----------------------------------------------------------------------------
(* What the handlers compute *)

(* findByIdForTenant: soft-deleted rows are invisible. *)
Found(i) == Exists(i) /\ ~appt[i].deleted

(* assertCancellableStatus: no request ever writes PENDING. *)
Cancellable(i) == Found(i) /\ appt[i].status = "CONFIRMED"

(* countForTenantInRange: a superseded original still counts. *)
MonthCount == Cardinality({i \in Requests : Found(i) /\ appt[i].status # "CANCELLED"})

(* buildLines: each line starts where the previous one ends, buffers apart. *)
IsSchedule(at, start, plan) ==
    \A k \in DOMAIN plan :
        at[k] = IF k = 1 THEN start ELSE at[k - 1] + plan[k - 1].dur

ASSUME ScheduleAssumption ==
    \A s \in Starts, p \in Plans :
        \E at \in [DOMAIN p -> Time] : IsSchedule(at, s, p)

LinesAt(at, plan) ==
    [k \in DOMAIN plan |->
        [emp     |-> plan[k].emp,
         start   |-> at[k],
         end     |-> at[k] + plan[k].dur,
         blocked |-> at[k] + plan[k].dur + plan[k].buf]]

(* getBlockingRanges is asked for [startTime, endTime), not for the range  *)
(* up to blockedUntil, so a booking that starts in the trailing buffer is  *)
(* not even fetched.                                                       *)
BlockingRanges(l) ==
    {m \in UNION {Rng(appt[i].lines) : i \in {x \in Requests : Blocking(x)}} :
        m.emp = l.emp /\ m.start < l.end /\ m.blocked > l.start}

IsWindowAvailable(l) ==
    /\ active[l.emp]
    /\ \E w \in Hours[l.emp] : w.open <= l.start /\ l.end <= w.close
    /\ \A m \in BlockingRanges(l) : ~(l.start < m.blocked /\ m.start < l.blocked)

(* Faulty variant: tsrange(startTime, endTime), the buffers forgotten. *)
ExcludeWithoutBuffer(ls) ==
    \A i \in Requests : Blocking(i) =>
        \A k \in DOMAIN ls, j \in DOMAIN appt[i].lines :
            LET m == appt[i].lines[j] IN
            ~(ls[k].emp = m.emp /\ ls[k].start < m.end /\ m.start < ls[k].end)

(* The EXCLUDE constraint, as the INSERT of the lines ls meets it. *)
ExcludeAllows(ls) ==
    /\ \A k, j \in DOMAIN ls : k # j => ~Overlap(ls[k], ls[j])
    /\ \A i \in Requests : Blocking(i) =>
          \A k \in DOMAIN ls, j \in DOMAIN appt[i].lines :
              ~Overlap(ls[k], appt[i].lines[j])

(* The locks r still has to take, and the one acquire() tries next. *)
Wanted(r) == {lines[r][k].emp : k \in DOMAIN lines[r]} \ held[r]

(* Faulty variant: keys taken in the order the request names them. *)
NextKeyAsNamed(r, e) ==
    \E k \in DOMAIN lines[r] :
        /\ lines[r][k].emp = e /\ e \in Wanted(r)
        /\ \A n \in 1..(k - 1) : lines[r][n].emp \notin Wanted(r)

NextKey(r, e) == e \in Wanted(r) /\ \A f \in Wanted(r) : e <= f

-----------------------------------------------------------------------------
Init ==
    /\ appt = [i \in Requests |-> None]
    /\ lock = [e \in Employees |-> None]
    /\ active = [e \in Employees |-> TRUE]
    /\ pc = [r \in Requests |-> "idle"]
    /\ job = [r \in Requests |-> None]
    /\ lines = [r \in Requests |-> << >>]
    /\ held = [r \in Requests |-> {}]
    /\ checked = [r \in Requests |-> 0]
    /\ outcome = [r \in Requests |-> "none"]

(* A client sends r; one that names an appointment has seen it exist. *)
Arrive(r) ==
    /\ pc[r] = "idle"
    /\ \E j \in Create \cup Reschedule \cup Close :
          /\ j.kind # "create" => Exists(j.target)
          /\ job' = [job EXCEPT ![r] = j]
    /\ pc' = [pc EXCEPT ![r] = "admit"]
    /\ UNCHANGED <<appt, lock, active, lines, held, checked, outcome>>

(* r is over: every guard that throws before anything is locked. *)
Finish(r, result) ==
    /\ pc' = [pc EXCEPT ![r] = "done"]
    /\ outcome' = [outcome EXCEPT ![r] = result]
    /\ UNCHANGED <<appt, lock, active, job, lines, held, checked>>

Advance(r, where) ==
    /\ pc' = [pc EXCEPT ![r] = where]
    /\ UNCHANGED <<appt, lock, active, lines, held, checked, outcome>>

(* createAppointment up to buildLines: the plan limit, checked unlocked. *)
AdmitCreate(r) ==
    /\ pc[r] = "admit" /\ job[r].kind = "create"
    /\ IF MonthCount < Limit
       THEN Advance(r, "build") /\ UNCHANGED job
       ELSE Finish(r, "rejected")

(* rescheduleAppointment: the original is read, its status checked, and    *)
(* its services kept when the request names none; no lock is held.         *)
AdmitReschedule(r) ==
    /\ pc[r] = "admit" /\ job[r].kind = "reschedule"
    /\ IF Cancellable(job[r].target)
       THEN /\ job' = IF job[r].plan = None
                      THEN [job EXCEPT ![r].plan = appt[job[r].target].plan]
                      ELSE job
            /\ Advance(r, "build")
       ELSE Finish(r, "rejected")

(* cancelAppointment up to repo.cancel. *)
AdmitCancel(r) ==
    /\ pc[r] = "admit" /\ job[r].kind = "cancel"
    /\ IF Cancellable(job[r].target)
       THEN Advance(r, "commit") /\ UNCHANGED job
       ELSE Finish(r, "rejected")

(* deleteAppointment up to repo.softDelete: any status will do. *)
AdmitDelete(r) ==
    /\ pc[r] = "admit" /\ job[r].kind = "delete"
    /\ IF Found(job[r].target)
       THEN Advance(r, "commit") /\ UNCHANGED job
       ELSE Finish(r, "rejected")

(* buildLines: an employee that is not ACTIVE is refused here already. *)
BuildLines(r) ==
    /\ pc[r] = "build"
    /\ IF \A k \in DOMAIN job[r].plan : active[job[r].plan[k].emp]
       THEN \E at \in [DOMAIN job[r].plan -> Time] :
              /\ IsSchedule(at, job[r].start, job[r].plan)
              /\ lines' = [lines EXCEPT ![r] = LinesAt(at, job[r].plan)]
              /\ pc' = [pc EXCEPT ![r] = "lock"]
              /\ UNCHANGED <<appt, lock, active, job, held, checked, outcome>>
       ELSE Finish(r, "rejected")

-----------------------------------------------------------------------------
(* BookingLockService *)

(* Faulty variant: looks whether a key is left before it counts this one. *)
AcquireLockTooLong(r) ==
    /\ pc[r] = "lock"
    /\ \E e \in Employees :
          /\ NextKey(r, e)
          /\ lock[e] = None
          /\ lock' = [lock EXCEPT ![e] = r]
          /\ held' = [held EXCEPT ![r] = @ \cup {e}]
          /\ pc' = [pc EXCEPT ![r] = IF Wanted(r) = {} THEN "verify" ELSE "lock"]
    /\ UNCHANGED <<appt, active, job, lines, checked, outcome>>

(* One SET NX PX: the key was free, and r goes on to the next one. *)
AcquireLock(r) ==
    /\ pc[r] = "lock"
    /\ \E e \in Employees :
          /\ NextKey(r, e)
          /\ lock[e] = None
          /\ lock' = [lock EXCEPT ![e] = r]
          /\ held' = [held EXCEPT ![r] = @ \cup {e}]
          /\ pc' = [pc EXCEPT ![r] = IF Wanted(r) = {e} THEN "verify" ELSE "lock"]
    /\ UNCHANGED <<appt, active, job, lines, checked, outcome>>

(* r gives up: the locks it holds are released before it replies. *)
BackOut(r, result) ==
    /\ pc' = [pc EXCEPT ![r] = "release"]
    /\ outcome' = [outcome EXCEPT ![r] = result]
    /\ UNCHANGED <<appt, active, job, lines, held, checked>>

(* The key is held: no waiting, the request is turned away with a 409. *)
LockBusy(r) ==
    /\ pc[r] = "lock"
    /\ \E e \in Employees : NextKey(r, e) /\ lock[e] # None
    /\ BackOut(r, "conflict")
    /\ UNCHANGED lock

(* Redis fails the command.  When only the answer was lost, the token is   *)
(* set but not among the acquired ones, and nobody will release it.        *)
LockFailure(r) ==
    /\ pc[r] = "lock"
    /\ \/ UNCHANGED lock
       \/ \E e \in Employees :
             NextKey(r, e) /\ lock[e] = None /\ lock' = [lock EXCEPT ![e] = r]
    /\ BackOut(r, "error")

(* Faulty variant: a plain DEL, without the token check of the script. *)
ReleaseWithoutToken(r) ==
    /\ pc[r] = "release" /\ held[r] # {}
    /\ \E e \in held[r] :
          /\ lock' = [lock EXCEPT ![e] = None]
          /\ held' = [held EXCEPT ![r] = @ \ {e}]
    /\ UNCHANGED <<appt, active, pc, job, lines, checked, outcome>>

(* release(), one key: deleted only when the token is still r's.  A failed *)
(* EVAL is swallowed and leaves the key to its TTL.                        *)
ReleaseLock(r) ==
    /\ pc[r] = "release" /\ held[r] # {}
    /\ \E e \in held[r] :
          /\ \A f \in held[r] : e <= f
          /\ \/ lock' = [lock EXCEPT ![e] = IF @ = r THEN None ELSE @]
             \/ UNCHANGED lock
          /\ held' = [held EXCEPT ![r] = @ \ {e}]
    /\ UNCHANGED <<appt, active, pc, job, lines, checked, outcome>>

Reply(r) ==
    /\ pc[r] = "release" /\ held[r] = {}
    /\ pc' = [pc EXCEPT ![r] = "done"]
    /\ lines' = [lines EXCEPT ![r] = << >>]
    /\ checked' = [checked EXCEPT ![r] = 0]
    /\ UNCHANGED <<appt, lock, active, job, held, outcome>>

(* Faulty variant: SET NX without PX. *)
ExpireNothing(e) == lock[e] # None /\ UNCHANGED vars

(* LOCK_TTL_MS passes, whether or not the holder is still at work. *)
ExpireLock(e) ==
    /\ lock[e] # None
    /\ lock' = [lock EXCEPT ![e] = None]
    /\ UNCHANGED <<appt, active, pc, job, lines, held, checked, outcome>>

-----------------------------------------------------------------------------
(* The work done under the locks *)

(* withEmployeeLocks asks isWindowAvailable line by line, and the first no *)
(* is the 409.                                                             *)
VerifyWindow(r) ==
    /\ pc[r] = "verify"
    /\ IF IsWindowAvailable(lines[r][checked[r] + 1])
       THEN /\ checked' = [checked EXCEPT ![r] = @ + 1]
            /\ pc' = [pc EXCEPT ![r] =
                        IF checked[r] + 1 = Len(lines[r]) THEN "commit" ELSE "verify"]
            /\ UNCHANGED <<appt, lock, active, job, lines, held, outcome>>
       ELSE BackOut(r, "conflict") /\ UNCHANGED lock

(* Faulty variant: the row starts in a status no other handler expects. *)
NewRowPending(r, origin, action) ==
    [status |-> "PENDING", deleted |-> FALSE, blocking |-> TRUE,
     from |-> origin, plan |-> job[r].plan, lines |-> lines[r],
     history |-> <<action>>]

NewRow(r, origin, action) ==
    [status |-> "CONFIRMED", deleted |-> FALSE, blocking |-> TRUE,
     from |-> origin, plan |-> job[r].plan, lines |-> lines[r],
     history |-> <<action>>]

(* Faulty variant: a transition that leaves no history. *)
ClosedSilently(row, status) ==
    [row EXCEPT !.status = status, !.blocking = FALSE]

Closed(row, status) ==
    [row EXCEPT !.status = status, !.blocking = FALSE,
                !.history = Append(@, status)]

(* A transaction commits, though the answer may be lost and leave the      *)
(* client with a 500; r still has its locks to give back.                  *)
Committed(r) ==
    /\ pc' = [pc EXCEPT ![r] = "release"]
    /\ \E result \in {"ok", "error"} : outcome' = [outcome EXCEPT ![r] = result]
    /\ UNCHANGED <<lock, active, job, lines, held, checked>>

(* repo.create *)
CommitCreate(r) ==
    /\ pc[r] = "commit" /\ job[r].kind = "create"
    /\ ExcludeAllows(lines[r])
    /\ appt' = [appt EXCEPT ![r] = NewRow(r, None, "CREATED")]
    /\ Committed(r)

(* Faulty variant: the appointment is moved in place, from the copy the     *)
(* request had read.                                                       *)
RescheduleInPlace(r) ==
    /\ pc[r] = "commit" /\ job[r].kind = "reschedule"
    /\ ExcludeAllows(lines[r])
    /\ appt' = [appt EXCEPT ![job[r].target] = NewRow(r, None, "RESCHEDULED")]
    /\ Committed(r)

(* repo.reschedule: the new row goes in first, against a calendar that     *)
(* still holds the original's slot; then the original is closed whatever   *)
(* its status has become since it was read.                                *)
CommitReschedule(r) ==
    /\ pc[r] = "commit" /\ job[r].kind = "reschedule"
    /\ ExcludeAllows(lines[r])
    /\ appt' = [appt EXCEPT ![r] = NewRow(r, job[r].target, "RESCHEDULED"),
                            ![job[r].target] = Closed(@, "RESCHEDULED")]
    /\ Committed(r)

(* Faulty variant: row and lines written without a transaction around them. *)
ViolationLeavesRow(r) ==
    /\ pc[r] = "commit" /\ job[r].kind \in {"create", "reschedule"}
    /\ ~ExcludeAllows(lines[r])
    /\ appt' = [appt EXCEPT ![r] = [NewRow(r, None, "CREATED") EXCEPT !.lines = << >>]]
    /\ pc' = [pc EXCEPT ![r] = "release"]
    /\ outcome' = [outcome EXCEPT ![r] = "conflict"]
    /\ UNCHANGED <<lock, active, job, lines, held, checked>>

(* isExclusionConstraintViolation: the transaction rolls back, 409. *)
ExclusionViolation(r) ==
    /\ pc[r] = "commit" /\ job[r].kind \in {"create", "reschedule"}
    /\ ~ExcludeAllows(lines[r])
    /\ BackOut(r, "conflict")
    /\ UNCHANGED lock

(* repo.cancel: by id alone, no status in the WHERE. *)
CommitCancel(r) ==
    /\ pc[r] = "commit" /\ job[r].kind = "cancel"
    /\ appt' = [appt EXCEPT ![job[r].target] = Closed(@, "CANCELLED")]
    /\ Committed(r)

(* Faulty variant: the deleted appointment keeps its slot. *)
DeleteKeepsSlot(r) ==
    /\ pc[r] = "commit" /\ job[r].kind = "delete"
    /\ appt' = [appt EXCEPT ![job[r].target].deleted = TRUE]
    /\ Committed(r)

(* repo.softDelete: the status stays and no history row is written. *)
CommitDelete(r) ==
    /\ pc[r] = "commit" /\ job[r].kind = "delete"
    /\ appt' = [appt EXCEPT ![job[r].target].deleted = TRUE,
                            ![job[r].target].blocking = FALSE]
    /\ Committed(r)

(* The database fails the transaction: rolled back, 500. *)
CommitFailure(r) ==
    /\ pc[r] = "commit"
    /\ BackOut(r, "error")
    /\ UNCHANGED lock

-----------------------------------------------------------------------------
(* The environment *)

(* The API process dies with r in flight: what r knew is gone, what it did *)
(* to Redis and the database stays.                                        *)
Crash(r) ==
    /\ pc[r] \notin {"idle", "done", "crashed"}
    /\ pc' = [pc EXCEPT ![r] = "crashed"]
    /\ job' = [job EXCEPT ![r] = None]
    /\ lines' = [lines EXCEPT ![r] = << >>]
    /\ held' = [held EXCEPT ![r] = {}]
    /\ checked' = [checked EXCEPT ![r] = 0]
    /\ outcome' = [outcome EXCEPT ![r] = "none"]
    /\ UNCHANGED <<appt, lock, active>>

(* updateEmployee: an employee leaves ACTIVE for ON_LEAVE or INACTIVE, or comes back. *)
SetEmployeeStatus(e) ==
    /\ e \in Movable
    /\ active' = [active EXCEPT ![e] = ~@]
    /\ UNCHANGED <<appt, lock, pc, job, lines, held, checked, outcome>>

(* The steps of a request that its code takes when nothing fails. *)
Step(r) ==
    \/ AdmitCreate(r) \/ AdmitReschedule(r) \/ AdmitCancel(r) \/ AdmitDelete(r)
    \/ BuildLines(r)
    \/ AcquireLock(r) \/ LockBusy(r)
    \/ VerifyWindow(r)
    \/ CommitCreate(r) \/ CommitReschedule(r) \/ ExclusionViolation(r)
    \/ CommitCancel(r) \/ CommitDelete(r)
    \/ ReleaseLock(r) \/ Reply(r)

Fault(r) == LockFailure(r) \/ CommitFailure(r) \/ Crash(r)

Next ==
    \/ \E r \in Requests : Arrive(r) \/ Step(r) \/ Fault(r)
    \/ \E e \in Employees : ExpireLock(e) \/ SetEmployeeStatus(e)

Spec == Init /\ [][Next]_vars

(* A request that was started runs on unless the process dies, and Redis   *)
(* deletes a key whose TTL has passed.                                     *)
Fairness ==
    /\ \A r \in Requests : WF_vars(Step(r))
    /\ \A e \in Employees : WF_vars(ExpireLock(e))

FairSpec == Spec /\ Fairness

-----------------------------------------------------------------------------
TypeOK ==
    /\ appt \in [Requests -> Row \cup {None}]
    /\ lock \in [Employees -> Requests \cup {None}]
    /\ active \in [Employees -> BOOLEAN]
    /\ pc \in [Requests -> {"idle", "admit", "build", "lock", "verify", "commit",
                            "release", "done", "crashed"}]
    /\ job \in [Requests -> Create \cup Reschedule \cup Close \cup {None}]
    /\ lines \in [Requests -> Seq(Line)]
    /\ held \in [Requests -> SUBSET Employees]
    /\ checked \in [Requests -> Nat]
    /\ outcome \in [Requests -> {"none", "ok", "conflict", "rejected", "error"}]

(* No double booking: two lines of visits that are going to happen, of two *)
(* appointments or of one, never claim the same employee at the same time, *)
(* buffers included.  Told by status, not by the isBlocking flag that the  *)
(* EXCLUDE constraint goes by, and kept when locks expire mid-request.     *)
NoDoubleBooking ==
    \A i, j \in Requests : Live(i) /\ Live(j) =>
        \A k \in DOMAIN appt[i].lines, n \in DOMAIN appt[j].lines :
            <<i, k>> # <<j, n>> => ~Overlap(appt[i].lines[k], appt[j].lines[n])

(* isBlocking follows the appointment through every race of cancel,        *)
(* reschedule and delete: a cancelled, superseded or deleted visit never   *)
(* keeps its slot, and a visit that is going to happen never loses it.     *)
BlockingIffLive == \A i \in Requests : Blocking(i) <=> Live(i)

(* A reschedule moves a visit: the appointment a row came from is never    *)
(* itself still going to happen.                                           *)
SupersededIsDead ==
    \A i \in Requests : Exists(i) /\ appt[i].from # None => ~Live(appt[i].from)

(* Every status a row has passed through has its history entry, the last   *)
(* one naming the present status, even after racing transitions.           *)
HistoryMatchesStatus ==
    \A i \in Requests : Exists(i) =>
        LET h == appt[i].history IN
        IF appt[i].status = "CONFIRMED" THEN Len(h) = 1
        ELSE Len(h) > 1 /\ h[Len(h)] = appt[i].status

(* What the rows tell of an appointment's life is true, whichever racing   *)
(* cancel, reschedule and delete came last.                                *)
RecordIsTrue == SupersededIsDead /\ HistoryMatchesStatus

(* A client told 409 or 4xx may try again: its request has inserted no     *)
(* row, whichever of the checks, locks and constraints turned it away.     *)
RefusalLeavesNothing ==
    \A r \in Requests : outcome[r] \in {"conflict", "rejected"} => ~Exists(r)

(* A dead appointment stays dead: no interleaving of requests that read it *)
(* while it was live brings it back.                                       *)
NeverRevived ==
    [][\A i \in Requests : Exists(i) /\ ~Live(i) => Exists(i)' /\ ~Live(i)']_vars

(* The token check of the unlock script: a key is taken from its holder    *)
(* only by a step of the holder itself or by its TTL, never by the late    *)
(* release of a request whose own lock had expired before.                 *)
LockRespectsHolder ==
    [][\A e \in Employees, r \in Requests :
          lock[e] = r /\ lock'[e] # r => ReleaseLock(r) \/ ExpireLock(e)]_vars

(* Every started request gets its answer, unless its process dies; no      *)
(* request ever waits for the lock of another.                             *)
EveryRequestEnds ==
    \A r \in Requests : pc[r] = "admit" ~> pc[r] \in {"done", "crashed"}

(* An employee's calendar is never closed for good by a lock whose owner   *)
(* crashed, lost the answer to its SET or failed its release.              *)
StrandedLockFreed ==
    \A e \in Employees, r \in Requests :
        lock[e] = r /\ pc[r] \in {"done", "crashed"} ~> lock[e] # r

(* A request the empty calendar can serve: in hours, and its own lines     *)
(* clear of each other.                                                    *)
Servable(j) ==
    \E at \in [DOMAIN j.plan -> Time] :
        /\ IsSchedule(at, j.start, j.plan)
        /\ LET ls == LinesAt(at, j.plan) IN
           \A k \in DOMAIN ls :
              /\ \E w \in Hours[ls[k].emp] :
                    w.open <= ls[k].start /\ ls[k].end <= w.close
              /\ \A n \in DOMAIN ls : k # n => ~Overlap(ls[k], ls[n])

(* Somebody wins: when bookings that the empty calendar could serve        *)
(* compete and no infrastructure fails, they are not all turned away, in   *)
(* whatever order each names its employees.                                *)
SomebodyWins ==
    (\A r \in Requests :
        /\ pc[r] = "done" /\ outcome[r] \notin {"error", "rejected"}
        /\ job[r].kind = "create" /\ Servable(job[r])
        /\ \A k \in DOMAIN job[r].plan : job[r].plan[k].emp \notin Movable)
    => \E r \in Requests : outcome[r] = "ok"

(* The requests, locks and transactions keep the promise of Calendar: a    *)
(* row holds its lines while it blocks, and is gone ever after.            *)
visits ==
    [i \in Requests |->
        IF Blocking(i) THEN [state |-> "held", lines |-> appt[i].lines]
        ELSE [state |-> IF Exists(i) THEN "gone" ELSE "fresh", lines |-> << >>]]

Cal == INSTANCE Calendar WITH Ids <- Requests

KeepsCalendar == Cal!Spec
=============================================================================
