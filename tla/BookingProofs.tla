---------------------------- MODULE BookingProofs ----------------------------
(***************************************************************************)
(* Theorems about Booking, for every set of requests, employees, plans and *)
(* times; and about DemoSeed, which writes appointments without asking     *)
(* Booking, for every window, choice of services and number of terminals.  *)
(***************************************************************************)
EXTENDS Booking, DemoSeed, TLAPS, WellFoundedInduction, SequenceTheorems

Working == {"admit", "build", "lock", "verify", "commit"}

(* What a request in flight may rely on: it has inserted no row yet, the   *)
(* appointment it names exists, and past admission it knows its plan.      *)
Sound(r) ==
    /\ pc[r] \in Working \cup {"idle"} => appt[r] = None
    /\ pc[r] \in Working => job[r] # None
    /\ pc[r] \in Working /\ job[r].kind # "create" => Exists(job[r].target)
    /\ pc[r] = "build" => job[r].kind \in {"create", "reschedule"}
    /\ pc[r] \in Working \ {"admit"} /\ job[r].kind = "reschedule" =>
          job[r].plan \in Plans

InFlight == \A r \in Requests : Sound(r)

(* The EXCLUDE constraint, over the rows it covers. *)
SlotsExclusive ==
    \A i, j \in Requests : Blocking(i) /\ Blocking(j) =>
        \A k \in DOMAIN appt[i].lines, n \in DOMAIN appt[j].lines :
            <<i, k>> # <<j, n>> => ~Overlap(appt[i].lines[k], appt[j].lines[n])

IInv ==
    /\ TypeOK
    /\ InFlight
    /\ BlockingIffLive
    /\ SlotsExclusive

-----------------------------------------------------------------------------
(* Kinds of requests. *)

LEMMA JobKinds ==
    ASSUME NEW j \in Create \cup Reschedule \cup Close
    PROVE  /\ j.kind = "create" => j \in Create
           /\ j.kind = "reschedule" => j \in Reschedule
           /\ j.kind \in {"cancel", "delete"} => j \in Close
           /\ j.kind # "create" => j.target \in Requests
           /\ j.kind \in {"create", "reschedule", "cancel", "delete"}
BY DEF Create, Reschedule, Close

(* The lines buildLines computes are lines. *)
LEMMA LinesAtType ==
    ASSUME NEW plan \in Plans, NEW when \in [DOMAIN plan -> Time]
    PROVE  LinesAt(when, plan) \in Seq(Line)
<1>1. plan \in Seq(PlanLine)
  BY PlansAssumption
<1>2. DOMAIN plan = 1..Len(plan) /\ Len(plan) \in Nat
  BY <1>1
<1>3. ASSUME NEW k \in DOMAIN plan
      PROVE  [emp |-> plan[k].emp, start |-> when[k], end |-> when[k] + plan[k].dur,
              blocked |-> when[k] + plan[k].dur + plan[k].buf] \in Line
  <2>1. plan[k] \in PlanLine
    BY <1>1
  <2>2. when[k] \in Nat
    BY TimeAssumption
  <2> QED BY <2>1, <2>2 DEF PlanLine, Line
<1> QED BY <1>2, <1>3 DEF LinesAt

(* A new row and a closed one are rows. *)
LEMMA NewRowType ==
    ASSUME NEW r \in Requests, NEW o \in Requests \cup {None},
           NEW a \in {"CREATED", "RESCHEDULED"},
           job[r].plan \in Plans, lines[r] \in Seq(Line)
    PROVE  NewRow(r, o, a) \in Row
BY DEF NewRow, Row, Status

LEMMA ClosedType ==
    ASSUME NEW row \in Row, NEW s \in {"CANCELLED", "RESCHEDULED"}
    PROVE  /\ Closed(row, s) \in Row
           /\ Closed(row, s).status = s
           /\ ~Closed(row, s).blocking
           /\ Closed(row, s).from = row.from
           /\ Closed(row, s).history = Append(row.history, s)
<1> DEFINE h == Append(row.history, s)
<1>1. h \in Seq({"CREATED", "RESCHEDULED", "CANCELLED"})
  BY DEF Row
<1>2. Closed(row, s) = [row EXCEPT !.status = s, !.blocking = FALSE, !.history = h]
  BY DEF Closed
<1>3. Closed(row, s).history = Append(row.history, s)
  BY <1>2 DEF Row
<1> HIDE DEF h
<1> QED BY <1>1, <1>2, <1>3 DEF Row, Status

LEMMA DeletedType ==
    ASSUME NEW row \in Row
    PROVE  LET gone == [row EXCEPT !.deleted = TRUE, !.blocking = FALSE] IN
           gone \in Row /\ gone.deleted /\ ~gone.blocking
BY DEF Row

LEMMA DeletedKeeps ==
    ASSUME NEW row \in Row
    PROVE  LET gone == [row EXCEPT !.deleted = TRUE, !.blocking = FALSE] IN
           gone.from = row.from /\ gone.status = row.status /\ gone.history = row.history
BY DEF Row

(* None is no request. *)
LEMMA NoJob == ASSUME NEW j \in Create \cup Reschedule \cup Close PROVE j # None
BY NoneAssumption

LEMMA RowIsNotNone == ASSUME NEW row \in Row PROVE row # None
BY NoneAssumption

-----------------------------------------------------------------------------
(* Type correctness. *)

LEMMA InitTypeOK == Init => TypeOK
BY DEF Init, TypeOK

LEMMA TypeStep == IInv /\ [Next]_vars => TypeOK'
<1> SUFFICES ASSUME IInv, [Next]_vars PROVE TypeOK'
  OBVIOUS
<1> USE DEF IInv
<1>1. CASE UNCHANGED vars
  BY <1>1 DEF TypeOK, vars
<1>2. ASSUME NEW r \in Requests, Arrive(r) PROVE TypeOK'
  <2>1. PICK j \in Create \cup Reschedule \cup Close : job' = [job EXCEPT ![r] = j]
    BY <1>2 DEF Arrive
  <2>2. pc' \in [Requests -> {"idle", "admit", "build", "lock", "verify", "commit",
                             "release", "done", "crashed"}]
    BY <1>2 DEF Arrive, TypeOK
  <2>3. UNCHANGED <<appt, lock, active, lines, held, checked, outcome>>
    BY <1>2 DEF Arrive
  <2>4. job' \in [Requests -> Create \cup Reschedule \cup Close \cup {None}]
    BY <2>1 DEF TypeOK
  <2> QED BY <2>2, <2>3, <2>4 DEF TypeOK
<1>3. ASSUME NEW r \in Requests,
             AdmitCreate(r) \/ AdmitCancel(r) \/ AdmitDelete(r)
      PROVE  TypeOK'
  BY <1>3 DEF AdmitCreate, AdmitCancel, AdmitDelete, Advance, Finish, TypeOK
<1>4. ASSUME NEW r \in Requests, AdmitReschedule(r) PROVE TypeOK'
  <2>1. job[r] \in Reschedule
    BY <1>4, JobKinds DEF AdmitReschedule, InFlight, Sound, Working, TypeOK
  <2>2. CASE ~Cancellable(job[r].target)
    BY <1>4, <2>2 DEF AdmitReschedule, Finish, TypeOK
  <2>3. CASE Cancellable(job[r].target)
    <3>1. appt[job[r].target].plan \in Plans
      BY <2>1, <2>3 DEF Cancellable, Found, Exists, TypeOK, Reschedule, Row
    <3>2. [job[r] EXCEPT !.plan = appt[job[r].target].plan] \in Reschedule
      BY <2>1, <3>1 DEF Reschedule
    <3>3. job' \in [Requests -> Create \cup Reschedule \cup Close \cup {None}]
      BY <1>4, <2>3, <3>2 DEF AdmitReschedule, TypeOK
    <3> QED BY <1>4, <2>3, <3>3 DEF AdmitReschedule, Advance, TypeOK
  <2> QED BY <2>2, <2>3
<1>5. ASSUME NEW r \in Requests, BuildLines(r) PROVE TypeOK'
  <2>1. job[r].plan \in Plans
    BY <1>5, JobKinds DEF BuildLines, InFlight, Sound, Working, TypeOK, Create
  <2>2. lines' \in [Requests -> Seq(Line)]
    <3>1. ASSUME NEW when \in [DOMAIN job[r].plan -> Time],
                 lines' = [lines EXCEPT ![r] = LinesAt(when, job[r].plan)]
          PROVE  lines' \in [Requests -> Seq(Line)]
      <4>1. LinesAt(when, job[r].plan) \in Seq(Line)
        BY <2>1, LinesAtType
      <4> QED BY <3>1, <4>1 DEF TypeOK
    <3> QED BY <1>5, <3>1 DEF BuildLines, Finish, TypeOK
  <2> QED BY <1>5, <2>2 DEF BuildLines, Finish, TypeOK
<1>6. ASSUME NEW r \in Requests, AcquireLock(r) PROVE TypeOK'
  BY <1>6 DEF AcquireLock, TypeOK
<1>7. ASSUME NEW r \in Requests,
             LockBusy(r) \/ LockFailure(r) \/ ExclusionViolation(r) \/ CommitFailure(r)
      PROVE  TypeOK'
  <2>1. \E result \in {"conflict", "error"} : BackOut(r, result)
    BY <1>7 DEF LockBusy, LockFailure, ExclusionViolation, CommitFailure
  <2>2. lock' \in [Employees -> Requests \cup {None}]
    BY <1>7 DEF LockBusy, LockFailure, ExclusionViolation, CommitFailure, TypeOK
  <2> QED BY <2>1, <2>2 DEF BackOut, TypeOK
<1>8. ASSUME NEW r \in Requests, VerifyWindow(r) PROVE TypeOK'
  <2>1. checked' \in [Requests -> Nat]
    BY <1>8 DEF VerifyWindow, BackOut, TypeOK
  <2>2. UNCHANGED <<appt, lock, active, job, lines, held>>
    BY <1>8 DEF VerifyWindow, BackOut
  <2>3. /\ pc' \in [Requests -> {"idle", "admit", "build", "lock", "verify", "commit",
                                 "release", "done", "crashed"}]
        /\ outcome' \in [Requests -> {"none", "ok", "conflict", "rejected", "error"}]
    BY <1>8 DEF VerifyWindow, BackOut, TypeOK
  <2> QED BY <2>1, <2>2, <2>3 DEF TypeOK
<1>9. ASSUME NEW r \in Requests, CommitCreate(r) PROVE TypeOK'
  <2>1. job[r].plan \in Plans
    BY <1>9, JobKinds DEF CommitCreate, InFlight, Sound, Working, TypeOK, Create
  <2>2. NewRow(r, None, "CREATED") \in Row
    BY <2>1, NewRowType DEF TypeOK
  <2> QED BY <1>9, <2>2 DEF CommitCreate, Committed, TypeOK
<1>10. ASSUME NEW r \in Requests, CommitReschedule(r) PROVE TypeOK'
  <2> DEFINE t == job[r].target
  <2>1. job[r].plan \in Plans /\ t \in Requests /\ Exists(t) /\ appt[r] = None
    BY <1>10, JobKinds DEF CommitReschedule, InFlight, Sound, Working, TypeOK, Reschedule
  <2>2. NewRow(r, t, "RESCHEDULED") \in Row
    BY <2>1, NewRowType DEF TypeOK
  <2>3. Closed(appt[t], "RESCHEDULED") \in Row
    BY <2>1, ClosedType DEF TypeOK, Exists
  <2>4. r # t
    BY <2>1 DEF Exists
  <2>5. appt' \in [Requests -> Row \cup {None}]
    BY <1>10, <2>1, <2>2, <2>3, <2>4 DEF CommitReschedule, TypeOK
  <2> QED BY <1>10, <2>5 DEF CommitReschedule, Committed, TypeOK
<1>11. ASSUME NEW r \in Requests, CommitCancel(r) PROVE TypeOK'
  <2> DEFINE t == job[r].target
  <2>1. t \in Requests /\ Exists(t)
    BY <1>11, JobKinds DEF CommitCancel, InFlight, Sound, Working, TypeOK
  <2>2. Closed(appt[t], "CANCELLED") \in Row
    BY <2>1, ClosedType DEF TypeOK, Exists
  <2>3. appt' \in [Requests -> Row \cup {None}]
    BY <1>11, <2>1, <2>2 DEF CommitCancel, TypeOK
  <2> QED BY <1>11, <2>3 DEF CommitCancel, Committed, TypeOK
<1>12. ASSUME NEW r \in Requests, CommitDelete(r) PROVE TypeOK'
  <2> DEFINE t == job[r].target
             gone == [appt[t] EXCEPT !.deleted = TRUE, !.blocking = FALSE]
  <2>1. t \in Requests /\ Exists(t)
    BY <1>12, JobKinds DEF CommitDelete, InFlight, Sound, Working, TypeOK
  <2>2. gone \in Row
    BY <2>1, DeletedType DEF TypeOK, Exists
  <2>3. appt' = [appt EXCEPT ![t] = gone]
    BY <1>12, <2>1 DEF CommitDelete, TypeOK
  <2>4. appt' \in [Requests -> Row \cup {None}]
    BY <2>1, <2>2, <2>3 DEF TypeOK
  <2> QED BY <1>12, <2>4 DEF CommitDelete, Committed, TypeOK
<1>13. ASSUME NEW r \in Requests, ReleaseLock(r) PROVE TypeOK'
  BY <1>13 DEF ReleaseLock, TypeOK
<1>14. ASSUME NEW r \in Requests, Reply(r) \/ Crash(r) PROVE TypeOK'
  <2>1. << >> \in Seq(Line)
    OBVIOUS
  <2>2. lines' \in [Requests -> Seq(Line)]
    <3>1. CASE Reply(r) BY <2>1, <3>1 DEF Reply, TypeOK
    <3>2. CASE Crash(r) BY <2>1, <3>2 DEF Crash, TypeOK
    <3> QED BY <1>14, <3>1, <3>2
  <2>3. UNCHANGED <<appt, lock, active>> /\ held' \in [Requests -> SUBSET Employees]
    BY <1>14 DEF Reply, Crash, TypeOK
  <2>4. /\ job' \in [Requests -> Create \cup Reschedule \cup Close \cup {None}]
        /\ checked' \in [Requests -> Nat]
    <3>1. CASE Reply(r) BY <3>1 DEF Reply, TypeOK
    <3>2. CASE Crash(r) BY <3>2 DEF Crash, TypeOK
    <3> QED BY <1>14, <3>1, <3>2
  <2>5. /\ pc' \in [Requests -> {"idle", "admit", "build", "lock", "verify", "commit",
                                 "release", "done", "crashed"}]
        /\ outcome' \in [Requests -> {"none", "ok", "conflict", "rejected", "error"}]
    BY <1>14 DEF Reply, Crash, TypeOK
  <2> QED BY <2>2, <2>3, <2>4, <2>5 DEF TypeOK
<1>15. ASSUME NEW e \in Employees, ExpireLock(e) \/ SetEmployeeStatus(e)
       PROVE  TypeOK'
  BY <1>15 DEF ExpireLock, SetEmployeeStatus, TypeOK
<1> QED
  BY <1>1, <1>2, <1>3, <1>4, <1>5, <1>6, <1>7, <1>8, <1>9, <1>10, <1>11, <1>12,
     <1>13, <1>14, <1>15
  DEF Next, Step, Fault

-----------------------------------------------------------------------------
(* What one step may do to one row. *)

Kept(i) == appt'[i] = appt[i]

(* What the row tells of its life after the step. *)
Recorded(i) ==
    /\ appt'[i].from = appt[i].from
    /\ \/ appt'[i].status = appt[i].status /\ appt'[i].history = appt[i].history
       \/ /\ appt'[i].status # "CONFIRMED"
          /\ appt'[i].history = Append(appt[i].history, appt'[i].status)

Retired(i) == Exists(i) /\ Exists(i)' /\ ~Blocking(i)' /\ ~Live(i)' /\ Recorded(i)

Inserted(i) ==
    /\ appt[i] = None
    /\ pc[i] = "commit" /\ pc'[i] = "release"
    /\ outcome'[i] \in {"ok", "error"}
    /\ Len(appt'[i].history) = 1
    /\ \A o \in Requests : appt'[i].from = o => Retired(o)
    /\ ExcludeAllows(lines[i])
    /\ Exists(i)' /\ Blocking(i)' /\ Live(i)'
    /\ appt'[i].lines = lines[i]

RowsOnlyMoveOn ==
    /\ \A i \in Requests : Kept(i) \/ Retired(i) \/ Inserted(i)
    /\ \A i, j \in Requests : Inserted(i) /\ Inserted(j) => i = j
    /\ \A i, j \in Requests :
          ~Kept(i) /\ ~Inserted(i) /\ ~Kept(j) /\ ~Inserted(j) => i = j

(* A row that exists, does not block and is closed or deleted is retired. *)
LEMMA RetiredIf ==
    ASSUME NEW i, Exists(i), appt'[i] \in Row, ~appt'[i].blocking,
           appt'[i].status # "CONFIRMED" \/ appt'[i].deleted, Recorded(i)
    PROVE  Retired(i)
<1>1. appt'[i] # None
  BY RowIsNotNone
<1>2. Exists(i)'
  BY <1>1 DEF Exists
<1>3. ~Blocking(i)'
  BY Zenon DEF Blocking
<1>4. ~Live(i)'
  BY Zenon DEF Live
<1> QED BY <1>2, <1>3, <1>4 DEF Retired

LEMMA UnchangedRows == ASSUME UNCHANGED appt PROVE RowsOnlyMoveOn
BY DEF RowsOnlyMoveOn, Kept, Inserted, Exists

LEMMA NewRowLives ==
    ASSUME NEW r \in Requests, NEW o, NEW a
    PROVE  LET row == NewRow(r, o, a) IN
           /\ row.status = "CONFIRMED" /\ ~row.deleted /\ row.blocking /\ row.lines = lines[r]
           /\ row.from = o /\ Len(row.history) = 1
BY DEF NewRow

LEMMA RowStep == IInv /\ TypeOK' /\ [Next]_vars => RowsOnlyMoveOn
<1> SUFFICES ASSUME IInv, TypeOK', [Next]_vars PROVE RowsOnlyMoveOn
  OBVIOUS
<1> USE DEF IInv
<1>1. CASE UNCHANGED appt
  BY <1>1, UnchangedRows
<1>2. ASSUME NEW r \in Requests, CommitCreate(r) PROVE RowsOnlyMoveOn
  <2>1. appt[r] = None /\ appt' = [appt EXCEPT ![r] = NewRow(r, None, "CREATED")]
    BY <1>2 DEF CommitCreate, InFlight, Sound, Working
  <2>2. appt'[r] = NewRow(r, None, "CREATED") /\ appt'[r] \in Row
    <3>1. job[r].plan \in Plans
      BY <1>2, JobKinds DEF CommitCreate, InFlight, Sound, Working, TypeOK, Create
    <3> QED BY <2>1, <3>1, NewRowType DEF TypeOK
  <2>3. Inserted(r)
    <3>1. Exists(r)' /\ Blocking(r)' /\ Live(r)'
      BY <2>2, NewRowLives, RowIsNotNone DEF Exists, Blocking, Live
    <3>2. pc[r] = "commit" /\ pc'[r] = "release" /\ outcome'[r] \in {"ok", "error"}
      BY <1>2 DEF CommitCreate, Committed, TypeOK
    <3>3. /\ appt'[r].from = None /\ Len(appt'[r].history) = 1
          /\ appt'[r].lines = lines[r]
      BY <2>2, NewRowLives
    <3>4. ExcludeAllows(lines[r])
      BY <1>2 DEF CommitCreate
    <3> QED BY <2>1, <3>1, <3>2, <3>3, <3>4, NoneAssumption DEF Inserted
  <2>4. \A i \in Requests : i # r => Kept(i)
    BY <2>1 DEF Kept, TypeOK
  <2>5. \A i \in Requests : i # r => ~Inserted(i)
    BY <2>4 DEF Kept, Inserted, Exists
  <2> QED BY <2>3, <2>4, <2>5 DEF RowsOnlyMoveOn
<1>3. ASSUME NEW r \in Requests, CommitReschedule(r) PROVE RowsOnlyMoveOn
  <2>0. /\ job[r].plan \in Plans /\ job[r].target \in Requests
        /\ Exists(job[r].target) /\ appt[r] = None
    BY <1>3, JobKinds DEF CommitReschedule, InFlight, Sound, Working, TypeOK, Reschedule
  <2> PICK t \in Requests : t = job[r].target
    BY <2>0
  <2>1. job[r].plan \in Plans /\ Exists(t) /\ appt[r] = None
    BY <2>0 DEF Exists
  <2>2. r # t
    BY <2>1 DEF Exists
  <2>3. appt'[r] = NewRow(r, t, "RESCHEDULED") /\ appt'[r] \in Row
    BY <1>3, <2>1, <2>2, NewRowType DEF CommitReschedule, TypeOK
  <2>4. appt'[t] = Closed(appt[t], "RESCHEDULED")
    BY <1>3, <2>1, <2>2 DEF CommitReschedule, TypeOK
  <2>5. Retired(t)
    <3>1. /\ appt'[t] \in Row
          /\ appt'[t].status = "RESCHEDULED"
          /\ ~appt'[t].blocking
          /\ appt'[t].from = appt[t].from
          /\ appt'[t].history = Append(appt[t].history, "RESCHEDULED")
      <4>1. appt[t] \in Row
        BY <2>1 DEF Exists, TypeOK
      <4> QED BY <2>4, <4>1, ClosedType
    <3>2. Recorded(t)
      BY <3>1 DEF Recorded
    <3> QED BY <2>1, <3>1, <3>2, RetiredIf
  <2>6. Inserted(r)
    <3>1. Exists(r)' /\ Blocking(r)' /\ Live(r)'
      BY <2>3, NewRowLives, RowIsNotNone DEF Exists, Blocking, Live
    <3>2. pc[r] = "commit" /\ pc'[r] = "release" /\ outcome'[r] \in {"ok", "error"}
      BY <1>3 DEF CommitReschedule, Committed, TypeOK
    <3>3. /\ appt'[r].from = t /\ Len(appt'[r].history) = 1
          /\ appt'[r].lines = lines[r]
      BY <2>3, NewRowLives
    <3>4. ExcludeAllows(lines[r])
      BY <1>3 DEF CommitReschedule
    <3> QED BY <2>1, <2>5, <3>1, <3>2, <3>3, <3>4 DEF Inserted
  <2>7. \A i \in Requests : i \notin {r, t} => Kept(i)
    BY <1>3, <2>1 DEF CommitReschedule, Kept, TypeOK
  <2>8. \A i \in Requests : i # r => ~Inserted(i)
    BY <2>1, <2>7 DEF Kept, Inserted, Exists
  <2> QED BY <2>5, <2>6, <2>7, <2>8 DEF RowsOnlyMoveOn
<1>4. ASSUME NEW r \in Requests, CommitCancel(r) \/ CommitDelete(r)
      PROVE  RowsOnlyMoveOn
  <2>0. job[r].target \in Requests /\ Exists(job[r].target)
    BY <1>4, JobKinds DEF CommitCancel, CommitDelete, InFlight, Sound, Working, TypeOK
  <2> PICK t \in Requests : t = job[r].target
    BY <2>0
  <2>1. Exists(t) /\ appt[t] \in Row
    BY <2>0 DEF TypeOK, Exists
  <2>2. ASSUME CommitCancel(r) PROVE Retired(t)
    <3>1. appt'[t] = Closed(appt[t], "CANCELLED")
      BY <2>1, <2>2 DEF CommitCancel, TypeOK
    <3>2. /\ appt'[t] \in Row /\ appt'[t].status = "CANCELLED" /\ ~appt'[t].blocking
          /\ appt'[t].from = appt[t].from
          /\ appt'[t].history = Append(appt[t].history, "CANCELLED")
      <4>1. appt[t] \in Row
        BY <2>1
      <4> QED BY ONLY <3>1, <4>1, ClosedType
    <3>3. Recorded(t)
      BY <3>2 DEF Recorded
    <3> QED BY <2>1, <3>2, <3>3, RetiredIf
  <2>3. ASSUME CommitDelete(r) PROVE Retired(t)
    <3>1. appt'[t] = [appt[t] EXCEPT !.deleted = TRUE, !.blocking = FALSE]
      BY <2>1, <2>3 DEF CommitDelete, TypeOK
    <3>2. appt'[t] \in Row /\ appt'[t].deleted /\ ~appt'[t].blocking /\ Recorded(t)
      BY <2>1, <3>1, DeletedType, DeletedKeeps DEF Recorded
    <3> QED BY <2>1, <3>2, RetiredIf
  <2>4. Retired(t)
    BY <1>4, <2>2, <2>3
  <2>5. \A i \in Requests : i # t => Kept(i)
    BY <1>4, <2>1 DEF CommitCancel, CommitDelete, Kept, TypeOK
  <2>6. \A i \in Requests : ~Inserted(i)
    BY <2>1, <2>5 DEF Kept, Inserted, Exists
  <2> QED BY <2>4, <2>5, <2>6 DEF RowsOnlyMoveOn
<1> QED
  <2>1. ASSUME NEW r \in Requests, Arrive(r) \/ Step(r) \/ Fault(r) PROVE RowsOnlyMoveOn
    <3>1. \/ UNCHANGED appt
          \/ CommitCreate(r) \/ CommitReschedule(r) \/ CommitCancel(r) \/ CommitDelete(r)
      BY <2>1
      DEF Arrive, Step, Fault, AdmitCreate, AdmitReschedule, AdmitCancel, AdmitDelete,
          Advance, Finish, BuildLines, AcquireLock, LockBusy, LockFailure, BackOut,
          VerifyWindow, ExclusionViolation, CommitFailure, ReleaseLock, Reply, Crash
    <3> QED BY <1>1, <1>2, <1>3, <1>4, <3>1
  <2>2. ASSUME NEW e \in Employees, ExpireLock(e) \/ SetEmployeeStatus(e)
        PROVE  RowsOnlyMoveOn
    BY <1>1, <2>2 DEF ExpireLock, SetEmployeeStatus
  <2>3. CASE UNCHANGED vars
    BY <1>1, <2>3 DEF vars
  <2> QED BY <2>1, <2>2, <2>3 DEF Next

-----------------------------------------------------------------------------
(* The other parts of the invariant. *)

LEMMA RowsStay ==
    ASSUME RowsOnlyMoveOn
    PROVE  /\ \A i \in Requests : Exists(i) => Exists(i)'
           /\ \A i \in Requests :
                 appt[i] = None /\ pc'[i] # "release" => appt'[i] = None
BY DEF RowsOnlyMoveOn, Kept, Retired, Inserted, Exists

(* What a step of r leaves to the others. *)
LEMMA OthersUntouched ==
    ASSUME TypeOK, NEW r \in Requests, Arrive(r) \/ Step(r) \/ Fault(r), NEW q \in Requests, q # r
    PROVE  /\ pc'[q] = pc[q] /\ job'[q] = job[q] /\ lines'[q] = lines[q]
           /\ held'[q] = held[q] /\ checked'[q] = checked[q] /\ outcome'[q] = outcome[q]
           /\ \A e \in Employees : lock'[e] = q => lock[e] = q
<1> DEFINE Untouched ==
             /\ pc'[q] = pc[q] /\ job'[q] = job[q] /\ lines'[q] = lines[q]
             /\ held'[q] = held[q] /\ checked'[q] = checked[q] /\ outcome'[q] = outcome[q]
             /\ \A e \in Employees : lock'[e] = q => lock[e] = q
<1>1. /\ pc = [x \in Requests |-> pc[x]] /\ job = [x \in Requests |-> job[x]]
      /\ lines = [x \in Requests |-> lines[x]] /\ held = [x \in Requests |-> held[x]]
      /\ checked = [x \in Requests |-> checked[x]] /\ outcome = [x \in Requests |-> outcome[x]]
      /\ lock = [e \in Employees |-> lock[e]]
  BY DEF TypeOK
<1>2. ASSUME NEW result, Finish(r, result) PROVE Untouched
  BY <1>1, <1>2 DEF Finish
<1>3. ASSUME NEW where, Advance(r, where), job'[q] = job[q] PROVE Untouched
  BY <1>1, <1>3 DEF Advance
<1>4. ASSUME NEW result, BackOut(r, result), UNCHANGED lock PROVE Untouched
  BY <1>1, <1>4 DEF BackOut
<1>5. CASE Committed(r)
  BY <1>1, <1>5 DEF Committed
<1>6. CASE Arrive(r)
  BY <1>1, <1>6 DEF Arrive
<1>7. CASE AdmitCreate(r) \/ AdmitCancel(r) \/ AdmitDelete(r)
  BY <1>2, <1>3, <1>7 DEF AdmitCreate, AdmitCancel, AdmitDelete
<1>8. CASE AdmitReschedule(r)
  <2>1. CASE Finish(r, "rejected")
    BY <1>2, <2>1
  <2>2. CASE Advance(r, "build") /\ ~Finish(r, "rejected")
    <3>1. job'[q] = job[q]
      BY <1>1, <1>8, <2>2 DEF AdmitReschedule
    <3> QED BY <1>3, <2>2, <3>1
  <2> QED BY <1>8, <2>1, <2>2 DEF AdmitReschedule
<1>9. CASE BuildLines(r)
  <2>1. CASE Finish(r, "rejected")
    BY <1>2, <2>1
  <2>2. CASE ~Finish(r, "rejected")
    <3>1. PICK ls, where :
              /\ lines' = [lines EXCEPT ![r] = ls] /\ pc' = [pc EXCEPT ![r] = where]
              /\ UNCHANGED <<lock, job, held, checked, outcome>>
      BY <1>9, <2>2 DEF BuildLines
    <3> QED BY <1>1, <3>1
  <2> QED BY <2>1, <2>2
<1>10. CASE AcquireLock(r)
  <2>1. PICK e, keys, where :
            /\ e \in Employees
            /\ lock' = [lock EXCEPT ![e] = r] /\ held' = [held EXCEPT ![r] = keys]
            /\ pc' = [pc EXCEPT ![r] = where]
            /\ UNCHANGED <<job, lines, checked, outcome>>
    BY <1>10 DEF AcquireLock
  <2> QED BY <1>1, <2>1
<1>11. CASE LockBusy(r)
  BY <1>4, <1>11 DEF LockBusy
<1>12. CASE LockFailure(r)
  <2>1. CASE UNCHANGED lock
    BY <1>4, <1>12, <2>1 DEF LockFailure
  <2>2. ASSUME NEW e \in Employees, lock' = [lock EXCEPT ![e] = r] PROVE Untouched
    BY <1>1, <1>12, <2>2 DEF LockFailure, BackOut
  <2> QED BY <1>12, <2>1, <2>2 DEF LockFailure
<1>13. CASE VerifyWindow(r)
  <2>1. CASE IsWindowAvailable(lines[r][checked[r] + 1])
    <3>1. PICK count, where :
              /\ checked' = [checked EXCEPT ![r] = count] /\ pc' = [pc EXCEPT ![r] = where]
              /\ UNCHANGED <<lock, job, lines, held, outcome>>
      BY <1>13, <2>1 DEF VerifyWindow
    <3> QED BY <1>1, <3>1
  <2>2. CASE ~IsWindowAvailable(lines[r][checked[r] + 1])
    BY <1>4, <1>13, <2>2 DEF VerifyWindow
  <2> QED BY <2>1, <2>2
<1>14. CASE ExclusionViolation(r) \/ CommitFailure(r)
  BY <1>4, <1>14 DEF ExclusionViolation, CommitFailure
<1>15. CASE CommitCreate(r) \/ CommitReschedule(r) \/ CommitCancel(r) \/ CommitDelete(r)
  BY <1>5, <1>15 DEF CommitCreate, CommitReschedule, CommitCancel, CommitDelete
<1>16. CASE ReleaseLock(r)
  <2>1. PICK e, keys, holder :
            /\ e \in held[r] /\ holder \in {lock[e], None}
            /\ lock' = [lock EXCEPT ![e] = holder] /\ held' = [held EXCEPT ![r] = keys]
            /\ UNCHANGED <<pc, job, lines, checked, outcome>>
    <3>1. PICK e \in held[r] :
              /\ \/ lock' = [lock EXCEPT ![e] = IF @ = r THEN None ELSE @]
                 \/ UNCHANGED lock
              /\ held' = [held EXCEPT ![r] = @ \ {e}]
      BY <1>16 DEF ReleaseLock
    <3>2. UNCHANGED <<pc, job, lines, checked, outcome>>
      BY <1>16 DEF ReleaseLock
    <3>3. lock' = [lock EXCEPT ![e] = lock[e]] \/ lock' = [lock EXCEPT ![e] = None]
      <4>1. lock = [lock EXCEPT ![e] = lock[e]]
        BY <1>1
      <4> QED BY <3>1, <4>1
    <3>4. held' = [held EXCEPT ![r] = held[r] \ {e}]
      BY <3>1
    <3> QED BY <3>2, <3>3, <3>4
  <2>2. \A f \in Employees : lock'[f] = q => lock[f] = q
    BY <1>1, <2>1, NoneAssumption
  <2> QED BY <1>1, <2>1, <2>2
<1>17. CASE Reply(r) \/ Crash(r)
  BY <1>1, <1>17 DEF Reply, Crash
<1> QED
  BY <1>6, <1>7, <1>8, <1>9, <1>10, <1>11, <1>12, <1>13, <1>14, <1>15, <1>16, <1>17
     DEF Step, Fault

LEMMA InFlightStep == IInv /\ TypeOK' /\ RowsOnlyMoveOn /\ [Next]_vars => InFlight'
<1> SUFFICES ASSUME IInv, TypeOK', RowsOnlyMoveOn, [Next]_vars PROVE InFlight'
  OBVIOUS
<1> USE DEF IInv
<1>1. ASSUME NEW x \in Requests, pc'[x] = pc[x], job'[x] = job[x]
      PROVE  Sound(x)'
  <2>1. Sound(x)
    BY DEF InFlight
  <2>2. pc[x] \in Working \cup {"idle"} => appt'[x] = None
    BY <1>1, <2>1, RowsStay DEF Sound, Working
  <2>3. pc[x] \in Working /\ job[x].kind # "create" => Exists(job[x].target)'
    <3>1. pc[x] \in Working /\ job[x].kind # "create" => job[x].target \in Requests
      BY <2>1, JobKinds DEF Sound, TypeOK
    <3>2. pc[x] \in Working /\ job[x].kind # "create" => Exists(job[x].target)
      BY <2>1 DEF Sound
    <3> QED BY <1>1, <3>1, <3>2, RowsStay DEF Exists
  <2> QED BY <1>1, <2>1, <2>2, <2>3 DEF Sound, Exists
<1>2. ASSUME NEW x \in Requests, pc'[x] \in {"release", "done", "crashed"}
      PROVE  Sound(x)'
  BY <1>2 DEF Sound, Working
<1>3. ASSUME NEW r \in Requests, Arrive(r) PROVE Sound(r)'
  <2>1. appt[r] = None /\ UNCHANGED appt
    BY <1>3 DEF Arrive, InFlight, Sound
  <2>2. PICK j \in Create \cup Reschedule \cup Close :
           /\ j.kind # "create" => Exists(j.target)
           /\ job' = [job EXCEPT ![r] = j]
    BY <1>3 DEF Arrive
  <2>3. job'[r] = j
    BY <2>2 DEF TypeOK
  <2>4. j # None
    <3>1. job'[r] \in Create \cup Reschedule \cup Close
      BY <2>3
    <3> QED BY <3>1, NoJob
  <2>5. pc'[r] = "admit"
    BY <1>3 DEF Arrive, TypeOK
  <2> QED BY <2>1, <2>2, <2>3, <2>4, <2>5 DEF Sound, Working, Exists
<1>4. ASSUME NEW r \in Requests, AdmitCreate(r) \/ AdmitCancel(r) \/ AdmitDelete(r)
      PROVE  Sound(r)'
  <2>1. UNCHANGED <<appt, job>> /\ pc[r] = "admit"
    BY <1>4 DEF AdmitCreate, AdmitCancel, AdmitDelete, Advance, Finish
  <2>2. pc'[r] \in {"build", "commit", "done"} /\ job[r].kind # "reschedule"
    BY <1>4 DEF AdmitCreate, AdmitCancel, AdmitDelete, Advance, Finish, TypeOK
  <2>3. pc'[r] = "build" => job[r].kind = "create"
    BY <1>4 DEF AdmitCreate, AdmitCancel, AdmitDelete, Advance, Finish, TypeOK
  <2> QED BY <2>1, <2>2, <2>3 DEF InFlight, Sound, Working, Exists
<1>5. ASSUME NEW r \in Requests, AdmitReschedule(r) PROVE Sound(r)'
  <2>1. job[r] \in Reschedule /\ Sound(r) /\ pc[r] = "admit"
    BY <1>5, JobKinds DEF AdmitReschedule, InFlight, Sound, Working, TypeOK
  <2>2. CASE ~Cancellable(job[r].target)
    BY <1>2, <1>5, <2>2 DEF AdmitReschedule, Finish, TypeOK
  <2>3. CASE Cancellable(job[r].target)
    <3>1. appt[job[r].target].plan \in Plans
      BY <2>1, <2>3 DEF Cancellable, Found, Exists, TypeOK, Reschedule, Row
    <3>2. /\ job'[r].kind = "reschedule"
          /\ job'[r].target = job[r].target
          /\ job'[r].plan \in Plans
      BY <1>5, <2>1, <2>3, <3>1 DEF AdmitReschedule, TypeOK, Reschedule
    <3>3. job'[r] # None
      <4>1. job'[r] = [job[r] EXCEPT !.plan = job'[r].plan]
        BY <1>5, <2>1, <2>3 DEF AdmitReschedule, TypeOK, Reschedule
      <4>2. job'[r] \in Reschedule
        BY <2>1, <3>2, <4>1 DEF Reschedule
      <4> QED BY <4>2, NoJob
    <3>4. pc'[r] = "build" /\ UNCHANGED appt
      BY <1>5, <2>3 DEF AdmitReschedule, Advance, TypeOK
    <3> QED BY <2>1, <3>2, <3>3, <3>4 DEF Sound, Working, Exists, Reschedule
  <2> QED BY <2>2, <2>3
<1>6. ASSUME NEW r \in Requests,
             BuildLines(r) \/ AcquireLock(r) \/ VerifyWindow(r)
      PROVE  Sound(r)'
  <2>1. UNCHANGED <<appt, job>> /\ Sound(r)
    BY <1>6
    DEF BuildLines, AcquireLock, VerifyWindow, Finish, BackOut, InFlight
  <2>2. pc[r] \in Working \ {"admit"} /\ pc'[r] \in {"lock", "verify", "commit", "release", "done"}
    BY <1>6 DEF BuildLines, AcquireLock, VerifyWindow, Finish, BackOut, Working, TypeOK
  <2> QED BY <2>1, <2>2 DEF Sound, Working, Exists
<1>7. ASSUME NEW r \in Requests,
             \/ LockBusy(r) \/ LockFailure(r) \/ ExclusionViolation(r)
             \/ CommitFailure(r) \/ CommitCreate(r) \/ CommitReschedule(r)
             \/ CommitCancel(r) \/ CommitDelete(r) \/ ReleaseLock(r) \/ Reply(r)
             \/ Crash(r)
      PROVE  Sound(r)'
  <2>1. pc'[r] \in {"release", "done", "crashed"}
    BY <1>7
    DEF LockBusy, LockFailure, ExclusionViolation, CommitFailure, BackOut, CommitCreate,
        CommitReschedule, CommitCancel, CommitDelete, Committed, ReleaseLock, Reply,
        Crash, TypeOK
  <2> QED BY <1>2, <2>1
<1>8. ASSUME NEW r \in Requests, Arrive(r) \/ Step(r) \/ Fault(r) PROVE InFlight'
  <2>1. Sound(r)'
    BY <1>3, <1>4, <1>5, <1>6, <1>7, <1>8 DEF Step, Fault
  <2>2. \A x \in Requests : x # r => pc'[x] = pc[x] /\ job'[x] = job[x]
    BY <1>8, OthersUntouched
  <2> QED BY <1>1, <2>1, <2>2 DEF InFlight
<1>9. ASSUME NEW e \in Employees, ExpireLock(e) \/ SetEmployeeStatus(e) PROVE InFlight'
  BY <1>1, <1>9 DEF ExpireLock, SetEmployeeStatus, InFlight
<1>10. CASE UNCHANGED vars
  BY <1>1, <1>10 DEF vars, InFlight
<1> QED BY <1>8, <1>9, <1>10 DEF Next

LEMMA BlockingStep == IInv /\ RowsOnlyMoveOn => BlockingIffLive'
<1> SUFFICES ASSUME IInv, RowsOnlyMoveOn, NEW i \in Requests
             PROVE  Blocking(i)' <=> Live(i)'
  BY DEF BlockingIffLive
<1>1. CASE Kept(i)
  BY <1>1 DEF IInv, BlockingIffLive, Kept, Blocking, Live, Exists
<1>2. CASE Retired(i) \/ Inserted(i)
  BY <1>2 DEF Retired, Inserted
<1> QED BY <1>1, <1>2 DEF RowsOnlyMoveOn

LEMMA OverlapSymmetric == ASSUME NEW l, NEW m, Overlap(l, m) PROVE Overlap(m, l)
BY DEF Overlap

(* A row that blocks after the step either did before, with the same lines, *)
(* or was inserted past the EXCLUDE constraint.                             *)
LEMMA SlotsStep == IInv /\ RowsOnlyMoveOn => SlotsExclusive'
<1> SUFFICES ASSUME IInv, RowsOnlyMoveOn,
                    NEW i \in Requests, NEW j \in Requests,
                    Blocking(i)', Blocking(j)',
                    NEW k \in DOMAIN appt'[i].lines, NEW n \in DOMAIN appt'[j].lines,
                    <<i, k>> # <<j, n>>
             PROVE  ~Overlap(appt'[i].lines[k], appt'[j].lines[n])
  BY DEF SlotsExclusive, Overlap
<1>1. ASSUME NEW x \in Requests, Blocking(x)', ~Inserted(x)
      PROVE  Kept(x) /\ Blocking(x)
  BY <1>1 DEF RowsOnlyMoveOn, Retired, Kept, Blocking, Exists
<1>2. ASSUME NEW x \in Requests, NEW y \in Requests, Inserted(x), Kept(y), Blocking(y),
             NEW a \in DOMAIN appt'[x].lines, NEW b \in DOMAIN appt'[y].lines
      PROVE  ~Overlap(appt'[x].lines[a], appt'[y].lines[b])
  BY <1>2 DEF Inserted, ExcludeAllows, Kept
<1>3. CASE ~Inserted(i) /\ ~Inserted(j)
  BY <1>1, <1>3 DEF IInv, SlotsExclusive, Kept
<1>4. CASE Inserted(i) /\ ~Inserted(j)
  BY <1>1, <1>2, <1>4
<1>5. CASE ~Inserted(i) /\ Inserted(j)
  BY <1>1, <1>2, <1>5, OverlapSymmetric
<1>6. CASE Inserted(i) /\ Inserted(j)
  <2>1. i = j /\ k # n
    BY <1>6 DEF RowsOnlyMoveOn
  <2> QED BY <1>6, <2>1 DEF Inserted, ExcludeAllows
<1> QED BY <1>3, <1>4, <1>5, <1>6

LEMMA InitIInv == Init => IInv
<1> SUFFICES ASSUME Init PROVE IInv
  OBVIOUS
<1>1. InFlight
  BY DEF Init, InFlight, Sound, Working
<1>2. BlockingIffLive /\ SlotsExclusive
  BY DEF Init, BlockingIffLive, SlotsExclusive, Blocking, Live, Exists
<1> QED BY <1>1, <1>2, InitTypeOK DEF IInv

LEMMA StepIInv == IInv /\ [Next]_vars => IInv' /\ RowsOnlyMoveOn
<1> SUFFICES ASSUME IInv, [Next]_vars PROVE IInv' /\ RowsOnlyMoveOn
  OBVIOUS
<1>1. TypeOK'
  BY TypeStep
<1>2. RowsOnlyMoveOn
  BY <1>1, RowStep
<1>3. InFlight'
  BY <1>1, <1>2, InFlightStep
<1>4. BlockingIffLive' /\ SlotsExclusive'
  BY <1>2, BlockingStep, SlotsStep
<1> QED BY <1>1, <1>2, <1>3, <1>4 DEF IInv

LEMMA Invariance == Spec => []IInv
BY InitIInv, StepIInv, PTL DEF Spec

-----------------------------------------------------------------------------
(* The theorems. *)

(* Every variable keeps its type, for any plans, times and employees. *)
THEOREM TypeCorrect == Spec => []TypeOK
<1>1. IInv => TypeOK
  BY DEF IInv
<1> QED BY <1>1, Invariance, PTL

(* The isBlocking flag follows the appointment's life through every race   *)
(* of cancel, reschedule and delete.                                       *)
THEOREM BlockingFollowsLife == Spec => []BlockingIffLive
<1>1. IInv => BlockingIffLive
  BY DEF IInv
<1> QED BY <1>1, Invariance, PTL

(* No two lines of live appointments claim one employee at one time, even  *)
(* when booking locks expire while their holders are still at work.        *)
THEOREM BookingIsExclusive == Spec => []NoDoubleBooking
<1>1. IInv => NoDoubleBooking
  BY DEF IInv, NoDoubleBooking, BlockingIffLive, SlotsExclusive
<1> QED BY <1>1, Invariance, PTL

(* A cancelled, superseded or deleted appointment is never live again. *)
THEOREM DeadStaysDead == Spec => NeverRevived
<1>1. IInv /\ [Next]_vars =>
        [\A i \in Requests : Exists(i) /\ ~Live(i) => Exists(i)' /\ ~Live(i)']_vars
  <2> SUFFICES ASSUME IInv, [Next]_vars, NEW i \in Requests, Exists(i), ~Live(i)
               PROVE  Exists(i)' /\ ~Live(i)'
    OBVIOUS
  <2>1. Kept(i) \/ Retired(i)
    BY StepIInv DEF RowsOnlyMoveOn, Inserted, Exists
  <2> QED BY <2>1 DEF Kept, Retired, Exists, Live
<1> QED BY <1>1, Invariance, PTL DEF Spec, NeverRevived

(* A lock is taken from its holder only by the holder's own release or by  *)
(* its TTL: the unlock script's token check at work.                       *)
THEOREM LocksRespectHolders == Spec => LockRespectsHolder
<1>1. IInv /\ [Next]_vars =>
        [\A e \in Employees, r \in Requests :
            lock[e] = r /\ lock'[e] # r => ReleaseLock(r) \/ ExpireLock(e)]_vars
  <2> SUFFICES ASSUME IInv, [Next]_vars, NEW e \in Employees, NEW r \in Requests,
                      lock[e] = r, lock'[e] # r
               PROVE  ReleaseLock(r) \/ ExpireLock(e)
    OBVIOUS
  <2> USE DEF IInv
  <2>1. r # None
    BY NoneAssumption
  <2>2. ASSUME NEW q \in Requests, Arrive(q) \/ Step(q) \/ Fault(q) PROVE ReleaseLock(r)
    <3>1. AcquireLock(q) \/ LockFailure(q) \/ ReleaseLock(q)
      BY <2>2
      DEF Arrive, Step, Fault, AdmitCreate, AdmitReschedule, AdmitCancel, AdmitDelete,
          Advance, Finish, BuildLines, LockBusy, BackOut, VerifyWindow,
          ExclusionViolation, CommitFailure, CommitCreate, CommitReschedule,
          CommitCancel, CommitDelete, Committed, Reply, Crash
    <3>2. ~AcquireLock(q) /\ ~LockFailure(q)
      BY <2>1 DEF AcquireLock, LockFailure, TypeOK
    <3>3. q = r
      BY <3>1, <3>2 DEF ReleaseLock, TypeOK
    <3> QED BY <3>1, <3>2, <3>3
  <2>3. ASSUME NEW f \in Employees, ExpireLock(f) \/ SetEmployeeStatus(f)
        PROVE  ExpireLock(e)
    BY <2>3 DEF ExpireLock, SetEmployeeStatus, TypeOK
  <2> QED BY <2>2, <2>3 DEF Next, vars
<1> QED BY <1>1, Invariance, PTL DEF Spec, LockRespectsHolder

-----------------------------------------------------------------------------
(* What a client is told, and what the rows tell. *)

(* Only a request at work changes its own outcome. *)
LEMMA OutcomesOfWorking ==
    ASSUME TypeOK, [Next]_vars, NEW i \in Requests,
           outcome'[i] # outcome[i], outcome'[i] \in {"conflict", "rejected"}
    PROVE  pc[i] \in Working
<1>1. PICK r \in Requests :
         \/ AdmitCreate(r) \/ AdmitReschedule(r) \/ AdmitCancel(r) \/ AdmitDelete(r)
         \/ BuildLines(r) \/ LockBusy(r) \/ LockFailure(r) \/ VerifyWindow(r)
         \/ ExclusionViolation(r) \/ CommitFailure(r) \/ CommitCreate(r)
         \/ CommitReschedule(r) \/ CommitCancel(r) \/ CommitDelete(r) \/ Crash(r)
  BY DEF Next, Arrive, Step, Fault, AcquireLock, ReleaseLock, Reply, ExpireLock,
         SetEmployeeStatus, vars
<1>2. ASSUME NEW s, outcome' = [outcome EXCEPT ![r] = s] PROVE i = r
  BY <1>2 DEF TypeOK
<1>3. CASE \/ AdmitCreate(r) \/ AdmitReschedule(r) \/ AdmitCancel(r) \/ AdmitDelete(r)
           \/ BuildLines(r)
  BY <1>2, <1>3
  DEF AdmitCreate, AdmitReschedule, AdmitCancel, AdmitDelete, BuildLines, Advance,
      Finish, Working
<1>4. CASE \/ LockBusy(r) \/ LockFailure(r) \/ VerifyWindow(r)
           \/ ExclusionViolation(r) \/ CommitFailure(r)
  BY <1>2, <1>4
  DEF LockBusy, LockFailure, VerifyWindow, ExclusionViolation, CommitFailure, BackOut,
      Working
<1>5. CASE \/ CommitCreate(r) \/ CommitReschedule(r) \/ CommitCancel(r) \/ CommitDelete(r)
  BY <1>2, <1>5
  DEF CommitCreate, CommitReschedule, CommitCancel, CommitDelete, Committed, Working
<1>6. CASE Crash(r)
  BY <1>6 DEF Crash, TypeOK
<1> QED BY <1>1, <1>3, <1>4, <1>5, <1>6

(* A request that is turned away, by a check, a busy lock or the           *)
(* constraint, has inserted nothing, so that it can be sent again.         *)
THEOREM RefusalsLeaveNothing == Spec => []RefusalLeavesNothing
<1>1. Init => RefusalLeavesNothing
  BY DEF Init, RefusalLeavesNothing
<1>2. IInv /\ RefusalLeavesNothing /\ [Next]_vars => RefusalLeavesNothing'
  <2> SUFFICES ASSUME IInv, RefusalLeavesNothing, [Next]_vars, NEW r \in Requests,
                      outcome'[r] \in {"conflict", "rejected"}
               PROVE  ~Exists(r)'
    BY DEF RefusalLeavesNothing
  <2>1. RowsOnlyMoveOn
    BY StepIInv
  <2>2. appt[r] = None => appt'[r] = None
    BY <2>1 DEF RowsOnlyMoveOn, Kept, Retired, Inserted, Exists
  <2>3. CASE outcome'[r] = outcome[r]
    BY <2>2, <2>3 DEF RefusalLeavesNothing, Exists
  <2>4. CASE outcome'[r] # outcome[r]
    <3>1. pc[r] \in Working
      BY <2>4, OutcomesOfWorking DEF IInv
    <3> QED BY <2>2, <3>1 DEF IInv, InFlight, Sound, Exists
  <2> QED BY <2>3, <2>4
<1> QED BY <1>1, <1>2, Invariance, PTL DEF Spec

(* An appointment that another one came from was once inserted. *)
OriginsExist ==
    \A i \in Requests : Exists(i) /\ appt[i].from # None =>
        appt[i].from \in Requests /\ Exists(appt[i].from)

RecordInv == OriginsExist /\ SupersededIsDead /\ HistoryMatchesStatus

LEMMA RecordStep == IInv /\ RecordInv /\ [Next]_vars => RecordInv'
<1> SUFFICES ASSUME IInv, RecordInv, [Next]_vars PROVE RecordInv'
  OBVIOUS
<1>1. IInv' /\ RowsOnlyMoveOn
  BY StepIInv
<1>2. \A i \in Requests : Exists(i) => Kept(i) \/ Retired(i)
  BY <1>1 DEF RowsOnlyMoveOn, Inserted, Exists
<1>3. ASSUME NEW i \in Requests, Exists(i)', appt'[i].from # None
      PROVE  (/\ appt[i].from \in Requests /\ Exists(appt[i].from)
              /\ ~Live(appt[i].from))'
  <2>0. appt'[i].from \in Requests
    BY <1>1, <1>3 DEF IInv, TypeOK, Exists, Row
  <2> PICK o \in Requests : appt'[i].from = o
    BY <2>0
  <2>1. CASE Inserted(i)
    <3>1. Exists(o)' /\ ~Live(o)'
      BY <2>1 DEF Inserted, Retired
    <3> QED BY <3>1 DEF Exists, Live
  <2>2. CASE ~Inserted(i)
    <3>1. Exists(i) /\ appt[i].from = o
      BY <1>1, <1>3, <2>2 DEF RowsOnlyMoveOn, Kept, Retired, Recorded, Exists
    <3>2. Exists(o) /\ ~Live(o)
      BY <1>3, <3>1 DEF RecordInv, OriginsExist, SupersededIsDead
    <3>3. Exists(o)' /\ ~Live(o)'
      BY <1>2, <3>2 DEF Kept, Retired, Exists, Live
    <3> QED BY <3>3 DEF Exists, Live
  <2> QED BY <2>1, <2>2
<1>4. ASSUME NEW i \in Requests, Exists(i)'
      PROVE  LET h == appt'[i].history IN
             IF appt'[i].status = "CONFIRMED" THEN Len(h) = 1
             ELSE Len(h) > 1 /\ h[Len(h)] = appt'[i].status
  <2>1. CASE Inserted(i)
    BY <2>1 DEF Inserted, Live
  <2>2. CASE Kept(i)
    BY <1>4, <2>2 DEF Kept, Exists, RecordInv, HistoryMatchesStatus
  <2>3. CASE Retired(i)
    <3>1. /\ appt[i] \in Row
          /\ IF appt[i].status = "CONFIRMED" THEN Len(appt[i].history) = 1
             ELSE /\ Len(appt[i].history) > 1
                  /\ appt[i].history[Len(appt[i].history)] = appt[i].status
      BY <2>3 DEF Retired, Exists, RecordInv, HistoryMatchesStatus, IInv, TypeOK
    <3>2. appt[i].history \in Seq({"CREATED", "RESCHEDULED", "CANCELLED"})
      BY <3>1 DEF Row
    <3>3. appt'[i].status \in Status
      BY <1>1, <1>4 DEF IInv, TypeOK, Exists, Row
    <3> QED BY <2>3, <3>1, <3>2, <3>3 DEF Retired, Recorded
  <2> QED BY <1>1, <2>1, <2>2, <2>3 DEF RowsOnlyMoveOn
<1> QED BY <1>3, <1>4 DEF RecordInv, OriginsExist, SupersededIsDead, HistoryMatchesStatus, Exists

(* What a row tells of an appointment's life is true after any race of     *)
(* cancel, reschedule and delete: the appointment it came from is over,    *)
(* and its history ends with its status.                                   *)
THEOREM RecordsAreTrue == Spec => []RecordIsTrue
<1>1. Init => RecordInv
  BY DEF Init, RecordInv, OriginsExist, SupersededIsDead, HistoryMatchesStatus, Exists
<1>2. RecordInv => RecordIsTrue
  BY DEF RecordInv, RecordIsTrue
<1> QED BY <1>1, <1>2, RecordStep, Invariance, PTL DEF Spec

-----------------------------------------------------------------------------
(* Somebody wins. *)

(* Every set of naturals has a least element, which stands in for the      *)
(* induction the provers cannot instantiate.                               *)
LEMMA Smallest ==
    ASSUME NEW T, T \subseteq Nat, T # {}
    PROVE  \E x \in T : \A y \in T : x <= y
<1>1. PICK R : R = OpToRel(<, Nat) /\ IsWellFoundedOn(R, Nat)
  BY NatLessThanWellFounded
<1>2. PICK x \in T : \A y \in T : ~(<<y, x>> \in R)
  BY <1>1, WFMin
<1>3. R = {ss \in Nat \X Nat : ss[1] < ss[2]}
  BY <1>1 DEF OpToRel
<1>4. \A z, y \in Nat : y < z => <<y, z>> \in R
  BY <1>3
<1>5. ASSUME NEW y \in T PROVE x <= y
  <2>1. ~(y < x)
    BY <1>2, <1>4, <1>5
  <2> QED BY <1>2, <1>5, <2>1
<1> QED BY <1>2, <1>5

(* A start time and a plan leave no choice: every line has one time. *)
LEMMA OneSchedule ==
    ASSUME NEW start, NEW plan \in Plans,
           NEW when \in [DOMAIN plan -> Time], NEW bt \in [DOMAIN plan -> Time],
           IsSchedule(when, start, plan), IsSchedule(bt, start, plan)
    PROVE  when = bt
<1> DEFINE Apart == {k \in DOMAIN plan : when[k] # bt[k]}
<1>1. DOMAIN plan = 1..Len(plan) /\ Len(plan) \in Nat
  BY PlansAssumption
<1>2. ASSUME Apart # {} PROVE FALSE
  <2>0. PICK S : S = Apart
    OBVIOUS
  <2>1. PICK k \in S : \A n \in S : k <= n
    <3>1. S \subseteq Nat /\ S # {}
      BY <1>1, <1>2, <2>0
    <3> HIDE DEF Apart
    <3> QED BY <3>1, Smallest
  <2>2. k # 1 /\ k \in DOMAIN plan /\ when[k] # bt[k]
    BY <2>0, <2>1 DEF IsSchedule
  <2>3. k - 1 \in DOMAIN plan /\ ~(k <= k - 1)
    BY <1>1, <2>2
  <2>4. when[k - 1] = bt[k - 1]
    BY <2>0, <2>1, <2>3
  <2> QED BY <2>2, <2>4 DEF IsSchedule
<1> QED BY <1>2

(* A request r that has not been answered yet holds every key that carries *)
(* its token, takes its keys in ascending order, and verifies the lines    *)
(* that its start time and its plan make.                                  *)
InHand == Working \cup {"idle"}

Orderly(r) ==
    /\ pc[r] = "idle" => job[r] = None
    /\ pc[r] \in {"idle", "admit", "build"} => held[r] = {}
    /\ pc[r] \in {"idle", "admit", "build", "lock"} => checked[r] = 0
    /\ pc[r] = "verify" => checked[r] < Len(lines[r])
    /\ pc[r] \in {"lock", "verify", "commit"} /\ job[r].kind = "create" =>
          \E when \in [DOMAIN job[r].plan -> Time] :
              /\ IsSchedule(when, job[r].start, job[r].plan)
              /\ lines[r] = LinesAt(when, job[r].plan)
    /\ pc[r] = "lock" =>
          /\ lines[r] # << >>
          /\ \A h \in held[r], w \in Wanted(r) : h < w
    /\ pc[r] \in InHand => \A e \in Employees : lock[e] = r => e \in held[r]
    /\ pc[r] \in InHand => outcome[r] = "none"
    /\ pc[r] \in {"release", "done"} => outcome[r] # "none"

StaffStays == \A e \in Employees \ Movable : active[e]

OrderInv == (\A r \in Requests : Orderly(r)) /\ StaffStays

(* What leaves a request's own state alone, and gives it no key. *)
LEMMA OrderlyStays ==
    ASSUME NEW r \in Requests, Orderly(r),
           pc'[r] = pc[r], job'[r] = job[r], lines'[r] = lines[r], held'[r] = held[r],
           checked'[r] = checked[r], outcome'[r] = outcome[r],
           \A e \in Employees : lock'[e] = r => lock[e] = r
    PROVE  Orderly(r)'
<1>1. Wanted(r)' = Wanted(r)
  BY DEF Wanted
<1> QED BY <1>1 DEF Orderly

LEMMA OrderInit == Init => OrderInv
BY NoneAssumption DEF Init, OrderInv, Orderly, StaffStays, InHand, Working

(* The admission of a request and what it builds. *)
LEMMA OrderlyAdmission ==
    ASSUME IInv, NEW r \in Requests, Orderly(r),
           \/ Arrive(r) \/ AdmitCreate(r) \/ AdmitReschedule(r) \/ AdmitCancel(r)
           \/ AdmitDelete(r) \/ BuildLines(r)
    PROVE  Orderly(r)'
<1> USE DEF IInv, TypeOK, Orderly, InHand, Working
<1>1. CASE Arrive(r)
  BY <1>1 DEF Arrive
<1>2. CASE AdmitCreate(r)
  BY <1>2 DEF AdmitCreate, Finish, Advance
<1>3. CASE AdmitReschedule(r)
  BY <1>3 DEF AdmitReschedule, Finish, Advance
<1>4. CASE AdmitCancel(r) \/ AdmitDelete(r)
  <2>1. job[r].kind # "create" /\ job' = job
    BY <1>4 DEF AdmitCancel, AdmitDelete, Finish
  <2>2. /\ pc'[r] \in {"commit", "done"} /\ lock' = lock /\ held' = held
        /\ pc'[r] = "commit" => outcome' = outcome
        /\ pc'[r] = "done" => outcome'[r] = "rejected"
        /\ pc[r] = "admit"
    BY <1>4 DEF AdmitCancel, AdmitDelete, Finish, Advance
  <2> QED BY <2>1, <2>2
<1>5. CASE BuildLines(r)
  <2>1. CASE \A k \in DOMAIN job[r].plan : active[job[r].plan[k].emp]
    <3>1. PICK when \in [DOMAIN job[r].plan -> Time] :
             /\ IsSchedule(when, job[r].start, job[r].plan)
             /\ lines' = [lines EXCEPT ![r] = LinesAt(when, job[r].plan)]
      BY <1>5, <2>1 DEF BuildLines
    <3>2. /\ pc[r] = "build" /\ pc' = [pc EXCEPT ![r] = "lock"]
          /\ UNCHANGED <<lock, job, held, checked, outcome>>
      BY <1>5, <2>1 DEF BuildLines
    <3>3. lines'[r] = LinesAt(when, job[r].plan)
      BY <3>1
    <3>4. lines'[r] # << >>
      <4>1. job[r].plan \in Plans
        <5>1. Sound(r) /\ job[r] \in Create \cup Reschedule \cup Close
          BY <3>2 DEF InFlight, Sound
        <5>2. CASE job[r].kind = "create"
          BY <5>1, <5>2, JobKinds DEF Create
        <5>3. CASE job[r].kind # "create"
          BY <3>2, <5>1, <5>3 DEF Sound
        <5> QED BY <5>2, <5>3
      <4>2. job[r].plan # << >> /\ job[r].plan \in Seq(PlanLine)
        BY <4>1, PlansAssumption
      <4>3. 1 \in DOMAIN job[r].plan
        BY <4>2
      <4>4. 1 \in DOMAIN lines'[r]
        BY <3>3, <4>3 DEF LinesAt
      <4> QED BY <4>4
    <3>5. Orderly(r)'
      <4>1. job'[r] = job[r]
        BY <3>2
      <4>2. pc'[r] = "lock" /\ checked'[r] = 0 /\ outcome'[r] = "none" /\ held'[r] = {}
        BY <3>2
      <4>3. \A e \in Employees : lock'[e] # r
        BY <3>2
      <4> QED BY <3>1, <3>3, <3>4, <4>1, <4>2, <4>3
    <3> QED BY <3>5
  <2>2. CASE ~\A k \in DOMAIN job[r].plan : active[job[r].plan[k].emp]
    BY <1>5, <2>2 DEF BuildLines, Finish
  <2> QED BY <2>1, <2>2
<1> QED BY <1>1, <1>2, <1>3, <1>4, <1>5

LEMMA WantedAreEmployees ==
    ASSUME TypeOK, NEW r \in Requests
    PROVE  Wanted(r) \subseteq Employees
<1>1. lines[r] \in Seq(Line)
  BY DEF TypeOK
<1>2. ASSUME NEW k \in DOMAIN lines[r] PROVE lines[r][k].emp \in Employees
  <2>1. lines[r][k] \in Line
    BY <1>1, <1>2
  <2> QED BY <2>1 DEF Line
<1> QED BY <1>2 DEF Wanted

(* What it does about its locks. *)
LEMMA OrderlyLocks ==
    ASSUME IInv, NEW r \in Requests, Orderly(r),
           AcquireLock(r) \/ LockBusy(r) \/ LockFailure(r) \/ ReleaseLock(r) \/ Reply(r)
    PROVE  Orderly(r)'
<1> USE EmployeesAssumption DEF IInv, TypeOK, Orderly, InHand, Working
<1>1. CASE AcquireLock(r)
  <2>1. PICK e \in Employees :
           /\ NextKey(r, e)
           /\ lock' = [lock EXCEPT ![e] = r]
           /\ held' = [held EXCEPT ![r] = @ \cup {e}]
           /\ pc' = [pc EXCEPT ![r] = IF Wanted(r) = {e} THEN "verify" ELSE "lock"]
    BY <1>1 DEF AcquireLock
  <2>2. pc[r] = "lock" /\ UNCHANGED <<job, lines, checked, outcome>>
    BY <1>1 DEF AcquireLock
  <2>3. held'[r] = held[r] \cup {e} /\ Wanted(r)' = Wanted(r) \ {e}
    BY <2>1, <2>2 DEF Wanted
  <2>4. Wanted(r) \subseteq Nat
    BY WantedAreEmployees
  <2>5. \A h \in held'[r], w \in Wanted(r)' : h < w
    <3>1. e \in Nat /\ \A w \in Wanted(r) : e <= w
      BY <2>1 DEF NextKey
    <3>2. \A w \in Wanted(r)' : w \in Wanted(r) /\ w # e /\ w \in Nat
      BY <2>3, <2>4
    <3>3. \A w \in Wanted(r)' : e < w
      BY <3>1, <3>2
    <3>4. \A h \in held[r], w \in Wanted(r)' : h < w
      BY <2>2, <3>2
    <3> QED BY <2>3, <3>3, <3>4
  <2>6. \A f \in Employees : lock'[f] = r => f \in held'[r]
    BY <2>1, <2>2, <2>3
  <2>7. checked'[r] = 0 /\ lines'[r] # << >> /\ lines'[r] \in Seq(Line)
    BY <2>2
  <2>8. checked'[r] < Len(lines'[r])
    BY <2>7
  <2>9. pc'[r] \in {"lock", "verify"}
    BY <2>1
  <2> QED BY <2>2, <2>5, <2>6, <2>7, <2>8, <2>9
<1>2. CASE LockBusy(r) \/ LockFailure(r)
  BY <1>2 DEF LockBusy, LockFailure, BackOut
<1>3. CASE ReleaseLock(r)
  BY <1>3 DEF ReleaseLock
<1>4. CASE Reply(r)
  BY <1>4 DEF Reply
<1> QED BY <1>1, <1>2, <1>3, <1>4

(* What it does under them, and how it ends. *)
LEMMA OrderlyWork ==
    ASSUME IInv, NEW r \in Requests, Orderly(r),
           \/ VerifyWindow(r) \/ CommitCreate(r) \/ CommitReschedule(r)
           \/ ExclusionViolation(r) \/ CommitCancel(r) \/ CommitDelete(r)
           \/ CommitFailure(r) \/ Crash(r)
    PROVE  Orderly(r)'
<1> USE DEF IInv, TypeOK, Orderly, InHand, Working
<1>1. CASE VerifyWindow(r) /\ IsWindowAvailable(lines[r][checked[r] + 1])
  <2>1. /\ pc[r] = "verify" /\ checked'[r] = checked[r] + 1
        /\ pc'[r] = IF checked[r] + 1 = Len(lines[r]) THEN "commit" ELSE "verify"
        /\ UNCHANGED <<lock, job, lines, held, outcome>>
    BY <1>1 DEF VerifyWindow
  <2>2. Len(lines[r]) \in Nat /\ checked[r] \in Nat
    <3>1. lines[r] \in Seq(Line)
      OBVIOUS
    <3> QED BY <3>1
  <2>3. pc'[r] = "verify" => checked'[r] < Len(lines'[r])
    BY <2>1, <2>2
  <2> QED BY <2>1, <2>3
<1>2. CASE VerifyWindow(r) /\ ~IsWindowAvailable(lines[r][checked[r] + 1])
  BY <1>2 DEF VerifyWindow, BackOut
<1>3. CASE \/ CommitCreate(r) \/ CommitReschedule(r) \/ CommitCancel(r) \/ CommitDelete(r)
  <2>1. pc'[r] = "release" /\ outcome'[r] \in {"ok", "error"}
    BY <1>3 DEF CommitCreate, CommitReschedule, CommitCancel, CommitDelete, Committed
  <2> QED BY <2>1
<1>4. CASE ExclusionViolation(r) \/ CommitFailure(r)
  BY <1>4 DEF ExclusionViolation, CommitFailure, BackOut
<1>5. CASE Crash(r)
  <2>1. pc'[r] = "crashed"
    BY <1>5 DEF Crash
  <2> QED BY <2>1
<1> QED BY <1>1, <1>2, <1>3, <1>4, <1>5

LEMMA OrderStep == IInv /\ OrderInv /\ [Next]_vars => OrderInv'
<1> SUFFICES ASSUME IInv, OrderInv, [Next]_vars PROVE OrderInv'
  OBVIOUS
<1>1. ASSUME NEW r \in Requests, Arrive(r) \/ Step(r) \/ Fault(r) PROVE OrderInv'
  <2>1. \A q \in Requests : q # r => Orderly(q)'
    BY <1>1, OthersUntouched, OrderlyStays DEF IInv, OrderInv
  <2>2. Orderly(r)'
    BY <1>1, OrderlyAdmission, OrderlyLocks, OrderlyWork DEF OrderInv, Step, Fault
  <2>3. active' = active
    BY <1>1 DEF Arrive, Step, Fault, AdmitCreate, AdmitReschedule, AdmitCancel, AdmitDelete,
       BuildLines, AcquireLock, LockBusy, VerifyWindow, CommitCreate, CommitReschedule,
       ExclusionViolation, CommitCancel, CommitDelete, ReleaseLock, Reply, LockFailure,
       CommitFailure, Crash, Finish, Advance, BackOut, Committed
  <2> QED BY <2>1, <2>2, <2>3 DEF OrderInv, StaffStays
<1>2. ASSUME NEW e \in Employees, ExpireLock(e) \/ SetEmployeeStatus(e) PROVE OrderInv'
  <2>1. /\ UNCHANGED <<pc, job, lines, held, checked, outcome>>
        /\ \A f \in Employees, q \in Requests : lock'[f] = q => lock[f] = q
    BY <1>2, NoneAssumption DEF ExpireLock, SetEmployeeStatus, IInv, TypeOK
  <2>2. \A q \in Requests : Orderly(q)'
    BY <2>1, OrderlyStays DEF OrderInv
  <2>3. \A f \in Employees \ Movable : active'[f] = active[f]
    BY <1>2 DEF ExpireLock, SetEmployeeStatus, IInv, TypeOK
  <2> QED BY <2>2, <2>3 DEF OrderInv, StaffStays
<1>3. CASE UNCHANGED vars
  <2>1. \A q \in Requests : Orderly(q)'
    BY <1>3, OrderlyStays DEF OrderInv, vars
  <2> QED BY <1>3, <2>1 DEF OrderInv, StaffStays, vars
<1> QED BY <1>1, <1>2, <1>3 DEF Next

(* Nothing has gone wrong for anybody, and nobody has won yet. *)
Fits(j) ==
    /\ j.kind = "create" /\ Servable(j)
    /\ \A k \in DOMAIN j.plan : j.plan[k].emp \notin Movable

Contest ==
    \A r \in Requests :
        /\ pc[r] # "crashed" /\ outcome[r] \in {"none", "conflict"}
        /\ job[r] # None => Fits(job[r])

Lost(r) == outcome[r] = "conflict"

(* While the contest is open somebody is still in it, and a key that a     *)
(* loser has yet to give back is lower than one of somebody who has not    *)
(* lost: keys are taken in ascending order, so that whoever loses to the   *)
(* loser's key, or to any other, is not the last one in the contest.       *)
Leader ==
    /\ \E s \in Requests : ~Lost(s)
    /\ \A q \in Requests, e \in Employees : Lost(q) /\ lock[e] = q =>
          \E s \in Requests : ~Lost(s) /\ \E f \in held[s] : e < f

ContestInv == Contest => Leader

(* Nothing that has gone wrong is made up for. *)
LEMMA ContestWasOpen ==
    ASSUME IInv, OrderInv, [Next]_vars, Contest'
    PROVE  Contest
<1> USE NoneAssumption DEF IInv, TypeOK, OrderInv, Orderly, InHand, Working, Contest
<1>1. ASSUME NEW r \in Requests, Arrive(r) \/ Step(r) \/ Fault(r) PROVE Contest
  <2>1. \A q \in Requests : q # r =>
           pc'[q] = pc[q] /\ job'[q] = job[q] /\ outcome'[q] = outcome[q]
    BY <1>1, OthersUntouched
  <2>2. pc[r] \in InHand => pc[r] # "crashed" /\ outcome[r] = "none"
    OBVIOUS
  <2>3. CASE Arrive(r)
    <3>1. job[r] = None /\ pc[r] = "idle"
      BY <2>3 DEF Arrive
    <3> QED BY <2>1, <2>2, <3>1
  <2>4. CASE AdmitCreate(r) \/ AdmitCancel(r) \/ AdmitDelete(r) \/ BuildLines(r)
    <3>1. job' = job /\ pc[r] \in InHand
      BY <2>4 DEF AdmitCreate, AdmitCancel, AdmitDelete, BuildLines, Finish
    <3> QED BY <2>1, <2>2, <3>1
  <2>5. CASE AdmitReschedule(r)
    <3>1. job[r].kind = "reschedule" /\ pc[r] = "admit"
      BY <2>5 DEF AdmitReschedule
    <3>2. job[r] \in Reschedule
      BY <3>1, JobKinds DEF InFlight, Sound
    <3>3. /\ job'[r] = job[r] \/ job'[r] = [job[r] EXCEPT !.plan = appt[job[r].target].plan]
          /\ job'[r] \in Create \cup Reschedule \cup Close \cup {None}
      <4>1. job' \in [Requests -> Create \cup Reschedule \cup Close \cup {None}]
        BY StepIInv
      <4>2. PICK plan : job' \in {job, [job EXCEPT ![r].plan = plan]}
                        /\ plan = appt[job[r].target].plan
        BY <2>5 DEF AdmitReschedule, Finish
      <4>3. job'[r] \in {job[r], [job[r] EXCEPT !.plan = plan]}
        BY <4>2
      <4> QED BY <4>1, <4>2, <4>3
    <3>4. job'[r].kind = "reschedule"
      BY <3>1, <3>2, <3>3 DEF Reschedule
    <3>5. job'[r] # None
      <4>1. (IInv)' /\ (job'[r] = job[r] \/ pc'[r] = "build")
        BY <2>5, StepIInv DEF AdmitReschedule, Finish, Advance
      <4>2. job[r] # None
        BY <3>1 DEF InFlight, Sound
      <4> QED BY <4>1, <4>2 DEF InFlight, Sound
    <3> QED BY <3>4, <3>5 DEF Fits
  <2>6. CASE \/ AcquireLock(r) \/ LockBusy(r) \/ LockFailure(r) \/ VerifyWindow(r)
             \/ ExclusionViolation(r) \/ CommitFailure(r)
             \/ CommitCreate(r) \/ CommitReschedule(r) \/ CommitCancel(r) \/ CommitDelete(r)
    <3>1. job' = job /\ pc[r] \in InHand
      BY <2>6 DEF AcquireLock, LockBusy, LockFailure, VerifyWindow, ExclusionViolation,
         CommitFailure, BackOut, CommitCreate, CommitReschedule, CommitCancel, CommitDelete,
         Committed
    <3> QED BY <2>1, <2>2, <3>1
  <2>7. CASE ReleaseLock(r) \/ Reply(r)
    <3>1. UNCHANGED <<job, outcome>> /\ pc[r] = "release"
      BY <2>7 DEF ReleaseLock, Reply
    <3> QED BY <2>1, <3>1, ZenonT(30)
  <2>8. CASE Crash(r)
    BY <2>8 DEF Crash
  <2> QED BY <1>1, <2>3, <2>4, <2>5, <2>6, <2>7, <2>8 DEF Step, Fault
<1>2. ASSUME NEW e \in Employees, ExpireLock(e) \/ SetEmployeeStatus(e) PROVE Contest
  BY <1>2 DEF ExpireLock, SetEmployeeStatus
<1>3. CASE UNCHANGED vars
  BY <1>3 DEF vars
<1> QED BY <1>1, <1>2, <1>3 DEF Next

(* As long as nobody has won the calendar is empty. *)
LEMMA ContestHasNoRows ==
    ASSUME IInv, OrderInv, RefusalLeavesNothing, Contest
    PROVE  \A i \in Requests : ~Exists(i)
<1> SUFFICES ASSUME NEW i \in Requests PROVE ~Exists(i)
  OBVIOUS
<1>1. CASE Lost(i)
  BY <1>1 DEF Lost, RefusalLeavesNothing
<1>2. CASE ~Lost(i)
  <2>1. outcome[i] = "none" /\ pc[i] # "crashed"
    BY <1>2 DEF Contest, Lost
  <2>2. pc[i] \in Working \cup {"idle"}
    BY <2>1 DEF IInv, TypeOK, OrderInv, Orderly, Working
  <2> QED BY <2>2 DEF IInv, InFlight, Sound, Exists
<1> QED BY <1>1, <1>2

(* So no check and no constraint turns a request away. *)
LEMMA NothingInTheWay ==
    ASSUME IInv, OrderInv, RefusalLeavesNothing, Contest, NEW r \in Requests
    PROVE  /\ pc[r] = "verify" => IsWindowAvailable(lines[r][checked[r] + 1])
           /\ pc[r] = "commit" => ExcludeAllows(lines[r])
<1> SUFFICES ASSUME pc[r] \in {"verify", "commit"}
             PROVE  /\ pc[r] = "verify" => IsWindowAvailable(lines[r][checked[r] + 1])
                    /\ pc[r] = "commit" => ExcludeAllows(lines[r])
  OBVIOUS
<1>1. \A i \in Requests : ~Blocking(i)
  BY ContestHasNoRows DEF Blocking
<1>2. Orderly(r) /\ job[r] # None /\ Fits(job[r])
  BY DEF IInv, InFlight, Sound, Working, OrderInv, Contest
<1>3. job[r] \in Create
  BY <1>2, JobKinds DEF IInv, TypeOK, Fits
<1> PICK start \in Starts, plan \in Plans :
      job[r].start = start /\ job[r].plan = plan
  BY <1>3 DEF Create
<1>4. PICK when \in [DOMAIN plan -> Time] :
        IsSchedule(when, start, plan) /\ lines[r] = LinesAt(when, plan)
  BY <1>2 DEF Orderly, Fits
<1>5. PICK bt \in [DOMAIN plan -> Time] :
        /\ IsSchedule(bt, start, plan)
        /\ \A k \in DOMAIN LinesAt(bt, plan) :
              /\ \E w \in Hours[LinesAt(bt, plan)[k].emp] :
                    w.open <= LinesAt(bt, plan)[k].start /\ LinesAt(bt, plan)[k].end <= w.close
              /\ \A n \in DOMAIN LinesAt(bt, plan) :
                    k # n => ~Overlap(LinesAt(bt, plan)[k], LinesAt(bt, plan)[n])
  BY <1>2 DEF Fits, Servable
<1>6. when = bt
  BY <1>4, <1>5, OneSchedule
<1>7. ExcludeAllows(lines[r])
  BY <1>1, <1>4, <1>5, <1>6 DEF ExcludeAllows
<1>8. ASSUME pc[r] = "verify" PROVE IsWindowAvailable(lines[r][checked[r] + 1])
  <2>1. checked[r] + 1 \in DOMAIN lines[r]
    <3>1. lines[r] \in Seq(Line) /\ checked[r] \in Nat /\ checked[r] < Len(lines[r])
      BY <1>2, <1>8 DEF IInv, TypeOK, Orderly
    <3> QED BY <3>1
  <2> PICK l : l = lines[r][checked[r] + 1]
    OBVIOUS
  <2>2. BlockingRanges(l) = {}
    BY <1>1 DEF BlockingRanges
  <2>3. \E w \in Hours[l.emp] : w.open <= l.start /\ l.end <= w.close
    BY <1>4, <1>5, <1>6, <2>1
  <2>4. active[l.emp]
    <3>1. DOMAIN lines[r] = DOMAIN plan /\ l.emp = plan[checked[r] + 1].emp
      BY <1>4, <2>1 DEF LinesAt
    <3>2. plan[checked[r] + 1].emp \notin Movable
      BY <1>2, <2>1, <3>1 DEF Fits
    <3>3. l.emp \in Employees
      <4>1. plan \in Seq(PlanLine)
        BY PlansAssumption
      <4>2. plan[checked[r] + 1] \in PlanLine
        BY <2>1, <3>1, <4>1
      <4> QED BY <3>1, <4>2 DEF PlanLine
    <3> QED BY <3>1, <3>2, <3>3 DEF OrderInv, StaffStays
  <2> QED BY <2>2, <2>3, <2>4 DEF IsWindowAvailable
<1> QED BY <1>7, <1>8

(* Who finds a key taken is not the last one in the contest. *)
LEMMA LoserLeavesLeader ==
    ASSUME IInv, OrderInv, Contest, Leader, NEW r \in Requests, LockBusy(r)
    PROVE  Leader'
<1> USE EmployeesAssumption, NoneAssumption DEF IInv, TypeOK
<1>1. PICK e \in Employees : NextKey(r, e) /\ lock[e] # None
  BY DEF LockBusy
<1>2. /\ pc[r] = "lock" /\ UNCHANGED <<lock, held>>
      /\ outcome' = [outcome EXCEPT ![r] = "conflict"]
  BY DEF LockBusy, BackOut
<1>3. Lost(r)' /\ \A s \in Requests \ {r} : Lost(s)' <=> Lost(s)
  BY <1>2 DEF Lost
<1>4. \A h \in held[r] : h < e
  BY <1>1, <1>2 DEF NextKey, OrderInv, Orderly
<1> PICK q \in Requests : lock[e] = q
  BY <1>1
<1>5. q # r
  BY <1>1, <1>2 DEF OrderInv, Orderly, InHand, Working, NextKey, Wanted
<1>6. \E s \in Requests \ {r} : ~Lost(s) /\ \E f \in held[s] : e <= f
  <2>1. CASE Lost(q)
    <3>1. PICK s \in Requests : ~Lost(s) /\ \E f \in held[s] : e < f
      BY <2>1 DEF Leader
    <3>2. PICK f \in held[s] : e < f
      BY <3>1
    <3>3. s # r
      <4>1. ASSUME s = r PROVE FALSE
        <5>1. f < e
          BY <1>4, <3>2, <4>1
        <5>2. f \in Nat /\ e \in Nat
          OBVIOUS
        <5> QED BY <3>2, <5>1, <5>2
      <4> QED BY <4>1
    <3>4. e <= f
      BY <3>2
    <3> QED BY <3>1, <3>2, <3>3, <3>4
  <2>2. CASE ~Lost(q)
    <3>1. outcome[q] = "none" /\ pc[q] # "crashed"
      BY <2>2 DEF Contest, Lost
    <3>2. pc[q] \in InHand
      BY <3>1 DEF OrderInv, Orderly, InHand, Working
    <3>3. e \in held[q]
      BY <3>2 DEF OrderInv, Orderly
    <3>4. e <= e
      OBVIOUS
    <3> QED BY <1>5, <2>2, <3>3, <3>4
  <2> QED BY <2>1, <2>2
<1> PICK s \in Requests \ {r} : ~Lost(s) /\ \E f \in held[s] : e <= f
  BY <1>6
<1> PICK top \in held[s] : e <= top
  OBVIOUS
<1>7. ~Lost(s)' /\ top \in held'[s]
  BY <1>2, <1>3
<1>8. ASSUME NEW p \in Requests, NEW d \in Employees, Lost(p)', lock'[d] = p
      PROVE  \E t \in Requests : ~Lost(t)' /\ \E f \in held'[t] : d < f
  <2>1. CASE p = r
    <3>1. d \in held[r]
      BY <1>2, <1>8, <2>1 DEF OrderInv, Orderly, InHand, Working
    <3>2. d < e /\ d \in Nat /\ e \in Nat /\ top \in Nat
      BY <1>4, <3>1
    <3>3. d < top
      BY <3>2
    <3> QED BY <1>7, <3>3
  <2>2. CASE p # r
    <3>1. PICK t \in Requests : ~Lost(t) /\ \E f \in held[t] : d < f
      BY <1>2, <1>3, <1>8, <2>2 DEF Leader
    <3>2. CASE t = r
      <4>1. PICK f \in held[r] : d < f
        BY <3>1, <3>2
      <4>2. f < e /\ f \in Nat /\ d \in Nat /\ e \in Nat /\ top \in Nat
        BY <1>4, <4>1
      <4>3. d < top
        BY <4>1, <4>2
      <4> QED BY <1>7, <4>3
    <3>3. CASE t # r
      BY <1>2, <1>3, <3>1, <3>3
    <3> QED BY <3>2, <3>3
  <2> QED BY <2>1, <2>2
<1> QED BY <1>7, <1>8 DEF Leader

(* A step that moves no lock and decides nothing leaves the leader alone. *)
LEMMA LeaderStays ==
    ASSUME Leader, outcome' = outcome,
           \A q \in Requests : held[q] \subseteq held'[q] \/ Lost(q),
           \A q \in Requests, e \in Employees : Lost(q) /\ lock'[e] = q => lock[e] = q
    PROVE  Leader'
<1>1. \A q \in Requests : Lost(q)' <=> Lost(q)
  BY DEF Lost
<1> QED BY <1>1 DEF Leader

LEMMA ContestStep ==
    IInv /\ OrderInv /\ RefusalLeavesNothing /\ ContestInv /\ [Next]_vars => ContestInv'
<1> SUFFICES ASSUME IInv, OrderInv, RefusalLeavesNothing, ContestInv, [Next]_vars, Contest'
             PROVE  Leader'
  BY DEF ContestInv
<1>1. Contest /\ Leader
  BY ContestWasOpen DEF ContestInv
<1>2. ASSUME NEW r \in Requests, Arrive(r) \/ Step(r) \/ Fault(r) PROVE Leader'
  <2>1. pc'[r] # "crashed" /\ outcome'[r] \in {"none", "conflict"}
    BY DEF Contest
  <2>2. CASE \/ Arrive(r) \/ AdmitCreate(r) \/ AdmitReschedule(r) \/ AdmitCancel(r)
             \/ AdmitDelete(r) \/ BuildLines(r)
    <3>1. UNCHANGED <<lock, held, outcome>>
      BY <2>1, <2>2 DEF Arrive, AdmitCreate, AdmitReschedule, AdmitCancel, AdmitDelete,
         BuildLines, Finish, Advance, IInv, TypeOK
    <3> QED BY <1>1, <3>1, LeaderStays
  <2>3. CASE AcquireLock(r)
    <3>1. PICK e \in Employees :
             lock' = [lock EXCEPT ![e] = r] /\ held' = [held EXCEPT ![r] = @ \cup {e}]
      BY <2>3 DEF AcquireLock
    <3>2. outcome' = outcome /\ outcome[r] = "none"
      BY <2>3 DEF AcquireLock, OrderInv, Orderly, InHand, Working
    <3>3. \A q \in Requests : held[q] \subseteq held'[q]
      BY <3>1 DEF IInv, TypeOK
    <3>4. ASSUME NEW q \in Requests, NEW f \in Employees, Lost(q), lock'[f] = q
          PROVE  lock[f] = q
      BY <3>1, <3>2, <3>4 DEF Lost, IInv, TypeOK
    <3> QED BY <1>1, <3>2, <3>3, <3>4, LeaderStays
  <2>4. CASE LockBusy(r)
    BY <1>1, <2>4, LoserLeavesLeader
  <2>5. CASE VerifyWindow(r)
    <3>1. IsWindowAvailable(lines[r][checked[r] + 1])
      BY <1>1, <2>5, NothingInTheWay DEF VerifyWindow
    <3>2. UNCHANGED <<lock, held, outcome>>
      BY <2>5, <3>1 DEF VerifyWindow
    <3> QED BY <1>1, <3>2, LeaderStays
  <2>6. CASE ReleaseLock(r)
    <3>1. outcome' = outcome /\ pc[r] = "release"
      BY <2>6 DEF ReleaseLock
    <3>2. Lost(r)
      BY <1>1, <3>1 DEF OrderInv, Orderly, Contest, Lost
    <3>3. \A q \in Requests : q # r => held'[q] = held[q]
      BY <2>6, OthersUntouched DEF IInv, Step
    <3>4. \A q \in Requests, e \in Employees : lock'[e] = q => lock[e] = q
      BY <2>6, NoneAssumption DEF ReleaseLock, IInv, TypeOK
    <3> QED BY <1>1, <3>1, <3>2, <3>3, <3>4, LeaderStays
  <2>7. CASE Reply(r)
    BY <1>1, <2>7, LeaderStays DEF Reply
  <2>8. CASE \/ CommitCreate(r) \/ CommitReschedule(r) \/ CommitCancel(r) \/ CommitDelete(r)
             \/ CommitFailure(r) \/ LockFailure(r)
    BY <2>1, <2>8 DEF CommitCreate, CommitReschedule, CommitCancel, CommitDelete, Committed,
       CommitFailure, LockFailure, BackOut, IInv, TypeOK
  <2>9. CASE ExclusionViolation(r)
    BY <1>1, <2>9, NothingInTheWay DEF ExclusionViolation
  <2>10. CASE Crash(r)
    BY <2>1, <2>10 DEF Crash, IInv, TypeOK
  <2> QED BY <1>2, <2>2, <2>3, <2>4, <2>5, <2>6, <2>7, <2>8, <2>9, <2>10 DEF Step, Fault
<1>3. ASSUME NEW e \in Employees, ExpireLock(e) \/ SetEmployeeStatus(e) PROVE Leader'
  <2>1. UNCHANGED <<held, outcome>>
    BY <1>3 DEF ExpireLock, SetEmployeeStatus
  <2>2. \A q \in Requests, f \in Employees : lock'[f] = q => lock[f] = q
    BY <1>3, NoneAssumption DEF ExpireLock, SetEmployeeStatus, IInv, TypeOK
  <2> QED BY <1>1, <2>1, <2>2, LeaderStays
<1>4. CASE UNCHANGED vars
  BY <1>1, <1>4, LeaderStays DEF vars
<1> QED BY <1>2, <1>3, <1>4 DEF Next

(* When bookings that the empty calendar could serve compete, and nothing  *)
(* fails, one of them is made: the order in which locks are taken leaves   *)
(* the request with the highest of the contested keys in the contest, and  *)
(* without a row in the calendar no check can turn that one away.          *)
THEOREM SomebodyAlwaysWins ==
    ASSUME Requests # {}
    PROVE  Spec => []SomebodyWins
<1>1. Init => OrderInv /\ ContestInv
  <2>1. Init => ContestInv
    BY NoneAssumption DEF Init, ContestInv, Leader, Lost
  <2> QED BY <2>1, OrderInit
<1>2. TypeOK /\ OrderInv /\ ContestInv => SomebodyWins
  <2> SUFFICES ASSUME TypeOK, OrderInv, ContestInv,
                      \A r \in Requests :
                         /\ pc[r] = "done" /\ outcome[r] \notin {"error", "rejected"}
                         /\ job[r].kind = "create" /\ Servable(job[r])
                         /\ \A k \in DOMAIN job[r].plan : job[r].plan[k].emp \notin Movable,
                      \A r \in Requests : outcome[r] # "ok"
               PROVE  FALSE
    BY DEF SomebodyWins
  <2>1. \A r \in Requests : outcome[r] \in {"none", "conflict"}
    BY DEF TypeOK
  <2>2. PICK s \in Requests : ~Lost(s)
    BY <2>1 DEF ContestInv, Contest, Fits, Leader
  <2> QED BY <2>1, <2>2 DEF Lost, OrderInv, Orderly
<1>3. IInv => TypeOK
  BY DEF IInv
<1> QED BY <1>1, <1>2, <1>3, OrderStep, ContestStep, RefusalsLeaveNothing, Invariance, PTL DEF Spec

-----------------------------------------------------------------------------
(* The abstract calendar. *)

LEMMA VisitOfRow ==
    ASSUME NEW i \in Requests
    PROVE  /\ visits[i] = IF Blocking(i) THEN [state |-> "held", lines |-> appt[i].lines]
                          ELSE [state |-> IF Exists(i) THEN "gone" ELSE "fresh",
                                lines |-> << >>]
           /\ Cal!Held(i) <=> Blocking(i)
BY DEF visits, Cal!Held

LEMMA CalendarExclusive == SlotsExclusive => Cal!Exclusive
BY DEF SlotsExclusive, Cal!Exclusive, Cal!ClearOf, Cal!Clash, Overlap, Cal!Held, visits

LEMMA CalendarStep == IInv /\ [Next]_vars => [Cal!Next]_visits
<1> SUFFICES ASSUME IInv, [Next]_vars PROVE Cal!Next \/ UNCHANGED visits
  OBVIOUS
<1>1. IInv' /\ RowsOnlyMoveOn
  BY StepIInv
<1>2. Cal!Exclusive'
  BY <1>1, CalendarExclusive DEF IInv, SlotsExclusive, Cal!Exclusive, Cal!ClearOf,
     Cal!Clash, Overlap, Cal!Held, visits
<1>3. ASSUME NEW i \in Requests, Kept(i) PROVE visits'[i] = visits[i]
  BY <1>3 DEF Kept, visits, Blocking, Exists
<1>4. ASSUME NEW i \in Requests, Retired(i)
      PROVE  /\ visits'[i] = Cal!Gone
             /\ Cal!Held(i) \/ visits[i] = Cal!Gone
  BY <1>4 DEF Retired, visits, Cal!Gone, Cal!Held
<1>5. ASSUME NEW i \in Requests, Inserted(i)
      PROVE  visits[i] = Cal!Fresh /\ Cal!Held(i)'
  BY <1>5 DEF Inserted, visits, Cal!Fresh, Cal!Held, Blocking, Exists
<1>6. visits = [i \in Requests |-> visits[i]] /\ visits' = [i \in Requests |-> visits'[i]]
  BY DEF visits
<1>7. CASE \A i \in Requests : visits'[i] = visits[i]
  BY <1>6, <1>7
<1>8. ASSUME NEW i \in Requests, Inserted(i) PROVE Cal!Next
  <2>1. CASE \A j \in Requests \ {i} : visits'[j] = visits[j]
    <3>1. Cal!Take(i)
      BY <1>2, <1>5, <1>8, <2>1 DEF Cal!Take, Cal!Others
    <3> QED BY <3>1 DEF Cal!Next
  <2>2. ASSUME NEW j \in Requests \ {i}, visits'[j] # visits[j] PROVE Cal!Next
    <3>1. ~Kept(j) /\ ~Inserted(j) /\ Retired(j)
      BY <1>1, <1>3, <1>8, <2>2 DEF RowsOnlyMoveOn
    <3>2. \A x \in Requests \ {i, j} : visits'[x] = visits[x]
      BY <1>1, <1>3, <1>8, <3>1 DEF RowsOnlyMoveOn
    <3>3. Cal!Move(j, i)
      BY <1>2, <1>4, <1>5, <1>8, <2>2, <3>1, <3>2 DEF Cal!Move, Cal!Others
    <3> QED BY <3>3 DEF Cal!Next
  <2> QED BY <2>1, <2>2
<1>9. ASSUME NEW j \in Requests, visits'[j] # visits[j],
             \A x \in Requests : ~Inserted(x)
      PROVE  Cal!Next
  <2>1. Retired(j) /\ ~Kept(j)
    BY <1>1, <1>3, <1>9 DEF RowsOnlyMoveOn
  <2>2. \A x \in Requests \ {j} : visits'[x] = visits[x]
    BY <1>1, <1>3, <1>9, <2>1 DEF RowsOnlyMoveOn
  <2>3. Cal!GiveBack(j)
    BY <1>4, <1>9, <2>1, <2>2 DEF Cal!GiveBack, Cal!Others
  <2> QED BY <2>3 DEF Cal!Next
<1> QED BY <1>7, <1>8, <1>9

(* The booking engine implements Calendar: whatever requests, locks and    *)
(* crashes do, a visit's stretch is taken once, exclusively, and given     *)
(* back once, a reschedule doing both in one step.                         *)
THEOREM BookingKeepsCalendar == Spec => KeepsCalendar
<1>1. Init => Cal!Init
  BY DEF Init, Cal!Init, visits, Blocking, Exists, Cal!Fresh
<1>2. IInv /\ [Next]_vars => [Cal!Next]_visits
  BY CalendarStep
<1> QED BY <1>1, <1>2, Invariance, PTL DEF Spec, Cal!Spec, KeepsCalendar

-----------------------------------------------------------------------------
(* The demo seed: what a script may rely on at each of its statements.     *)

(* Statements of demo-seed.ts, from the start to the timeline, and those   *)
(* that come after its tenant was created and may still write the book.    *)
Filling == {"owner", "settings", "profile", "hours", "employee", "workingHours", "timeOff",
            "category", "service", "employeeService", "customer", "timeline"}
Early == {"idle", "role", "plan", "existing", "tenant"} \cup Filling
Placing == {"day", "slot"}
Writing == {"appointment", "statusHistory"}
Owning == Filling \cup Placing \cup Writing

Visit == Seq(Nat \X Nat) \ {<< >>}
Slot == [day : Int, start : Int, services : Visit]
Timeline == [days : Seq(Int), cursor : Int, left : Nat, slots : Seq(Slot),
             origins : SUBSET Nat, pos : Nat]
Columns == {"slot", "status", "legs", "from", "past"}

DemoTypes ==
    /\ made \in Nat /\ tenant \in 0..made
    /\ tid \in [Terminals -> 0..made]
    /\ at = [p \in Terminals |-> at[p]]
    /\ work \in [Terminals -> Timeline]
    /\ book \in Seq(Range(book))
    /\ \A k \in DOMAIN book : DOMAIN book[k] = Columns

(* Each run of demo-seed.ts works on a tenant of its own.                  *)
TenantsAreOwn ==
    /\ \A p \in Terminals : at[p] \in Owning => tid[p] # 0
    /\ \A p, q \in Terminals : at[p] \in Owning /\ at[q] \in Owning /\ p # q => tid[p] # tid[q]
    /\ tenant = 0 => book = << >>

SlotIsClean(slot) ==
    /\ Weekday(slot.day) \in Staff.days
    /\ Staff.start <= slot.start /\ BlockedUntil(slot) <= Staff.end
    /\ ~IsOnTimeOff(slot.day)

(* The buffer of a slot is over before the next one begins.                *)
Precedes(slot, next) ==
    \/ slot.day < next.day
    \/ slot.day = next.day /\ BlockedUntil(slot) <= next.start

SlotsAreClean(slots) ==
    /\ \A k \in DOMAIN slots : SlotIsClean(slots[k])
    /\ \A j, k \in DOMAIN slots : j < k => Precedes(slots[j], slots[k])

Rising(days) == \A k, j \in DOMAIN days : k < j => days[k] < days[j]

(* Every slot built so far is over when the day is to begin, and when the  *)
(* cursor has come to its next place.                                      *)
DayIsFree(w) ==
    w.days # << >> => \A k \in DOMAIN w.slots : w.slots[k].day < Head(w.days)

AreOverBy(slots, day, time) ==
    \A k \in DOMAIN slots : \/ slots[k].day < day
                            \/ slots[k].day = day /\ BlockedUntil(slots[k]) <= time

CursorIsFree(w) ==
    /\ w.days # << >>
    /\ Weekday(Head(w.days)) \in Staff.days /\ ~IsOnTimeOff(Head(w.days))
    /\ Staff.start <= w.cursor
    /\ AreOverBy(w.slots, Head(w.days), w.cursor)

(* The last row of the book is the n-th slot of p, if p is the one who     *)
(* writes it and nobody emptied it.                                        *)
LastIsMine(p, n) ==
    tid[p] = tenant /\ book # << >> =>
        /\ n > 0
        /\ book[Len(book)].slot = work[p].slots[n]
        /\ n \in work[p].origins => book[Len(book)].status = "RESCHEDULED"

BuildsWell(p) ==
    /\ at[p] \in Early => work[p] = NoWork
    /\ at[p] \in Filling \cup Placing => (tid[p] = tenant => book = << >>)
    /\ at[p] \in Placing => work[p].pos = 1 /\ Rising(work[p].days)
    /\ at[p] \in Placing \cup Writing => SlotsAreClean(work[p].slots)
    /\ at[p] = "day" => DayIsFree(work[p])
    /\ at[p] = "slot" => CursorIsFree(work[p])
    /\ at[p] \in Writing => /\ work[p].pos \in 1..Len(work[p].slots) + 1
                            /\ work[p].origins \subseteq 1..Len(work[p].slots) - 1
    /\ at[p] = "appointment" => LastIsMine(p, work[p].pos - 1)
    /\ at[p] = "statusHistory" => work[p].pos <= Len(work[p].slots) /\ LastIsMine(p, work[p].pos)

RowIsClean(k) ==
    /\ book[k].slot \in Slot /\ SlotIsClean(book[k].slot)
    /\ book[k].from \in {0, k - 1}
    /\ book[k].from # 0 => /\ book[k - 1].status = "RESCHEDULED"
                           /\ Precedes(book[k - 1].slot, book[k].slot)

DemoInv ==
    /\ DemoTypes
    /\ TenantsAreOwn
    /\ \A p \in Terminals : BuildsWell(p)
    /\ \A k \in DOMAIN book : RowIsClean(k)

-----------------------------------------------------------------------------
(* Lengths and times. *)

(* The recursive function that SumDurations sums with exists, and each of  *)
(* its values is a natural number: a least one that is not would have a    *)
(* predecessor that is.                                                    *)
LEMMA SumsExist ==
    ASSUME NEW services \in Seq(Nat \X Nat)
    PROVE  \E f \in [0..Len(services) -> Nat] :
              /\ f[0] = 0 /\ \A n \in 1..Len(services) : f[n] = f[n - 1] + services[n][1]
              /\ SumDurations(services) = f[Len(services)]
<1> DEFINE Summed(f, k) == IF k = 0 THEN 0 ELSE f[k - 1] + services[k][1]
           UpTo(f, n) == f = [k \in 0..n |-> Summed(f, k)]
<1>1. Len(services) \in Nat /\ \A k \in 1..Len(services) : services[k][1] \in Nat
  OBVIOUS
<1>2. ASSUME NEW n \in Nat PROVE \E f : UpTo(f, n)
  <2> DEFINE Missing == {m \in Nat : ~\E f : UpTo(f, m)}
  <2>1. ASSUME Missing # {} PROVE FALSE
    <3>1. PICK m \in Missing : \A k \in Missing : m <= k
      <4>1. PICK T : T = Missing
        OBVIOUS
      <4>2. T \subseteq Nat /\ T # {}
        BY <2>1, <4>1
      <4>3. \E x \in T : \A y \in T : x <= y
        <5> HIDE DEF Missing
        <5> QED BY <4>2, Smallest
      <4> QED BY <4>1, <4>3
    <3>2. m # 0
      <4>1. UpTo([k \in 0..0 |-> 0], 0)
        OBVIOUS
      <4> QED BY <4>1
    <3>3. m \in Nat /\ m - 1 \in Nat /\ ~(m <= m - 1)
      BY <3>2
    <3>4. PICK f : UpTo(f, m - 1)
      BY <3>1, <3>3
    <3>5. PICK g : g = [k \in 0..m |-> IF k = m THEN Summed(f, m) ELSE f[k]]
      OBVIOUS
    <3>6. ASSUME NEW k \in 0..m PROVE g[k] = Summed(g, k)
      <4>1. CASE k = m
        <5>1. g[m] = Summed(f, m) /\ g[m - 1] = f[m - 1]
          BY <3>2, <3>5
        <5> QED BY <4>1, <5>1
      <4>2. CASE k # m
        <5>1. k \in 0..(m - 1)
          BY <3>3, <4>2
        <5>2. g[k] = f[k]
          BY <3>5, <4>2
        <5>3. f[k] = Summed(f, k)
          <6> HIDE DEF Summed
          <6> QED BY <3>4, <5>1
        <5>4. k # 0 => g[k - 1] = f[k - 1]
          BY <3>3, <3>5, <5>1
        <5> QED BY <5>2, <5>3, <5>4
      <4> QED BY <4>1, <4>2
    <3>7. UpTo(g, m)
      <4>1. DOMAIN g = 0..m /\ g = [k \in 0..m |-> g[k]]
        BY <3>5
      <4> HIDE DEF Summed
      <4> QED BY <3>6, <4>1
    <3> QED BY <3>1, <3>7
  <2> QED BY <2>1
<1>3. PICK f : UpTo(f, Len(services)) /\ SumDurations(services) = f[Len(services)]
  BY <1>1, <1>2 DEF SumDurations
<1>4. ASSUME NEW n \in 0..Len(services) PROVE f[n] \in Nat
  <2> DEFINE Wrong == {k \in 0..Len(services) : f[k] \notin Nat}
  <2>1. ASSUME Wrong # {} PROVE FALSE
    <3>1. PICK k \in Wrong : \A j \in Wrong : k <= j
      <4>1. PICK T : T = Wrong
        OBVIOUS
      <4>2. T \subseteq Nat /\ T # {}
        <5>1. T \subseteq 0..Len(services)
          BY <4>1
        <5> QED BY <1>1, <2>1, <4>1, <5>1
      <4>3. \E x \in T : \A y \in T : x <= y
        <5> HIDE DEF Wrong
        <5> QED BY <4>2, Smallest
      <4> QED BY <4>1, <4>3
    <3>2. f[k] = Summed(f, k)
      BY <1>3, <3>1
    <3>3. k # 0
      BY <3>1, <3>2
    <3>4. f[k - 1] \in Nat /\ k \in 1..Len(services)
      <4>1. k \in 1..Len(services) /\ k - 1 \in 0..Len(services) /\ ~(k <= k - 1)
        BY <1>1, <3>1, <3>3
      <4>2. k - 1 \notin Wrong
        BY <3>1, <4>1
      <4> QED BY <4>1, <4>2
    <3> QED BY <1>1, <3>1, <3>2, <3>3, <3>4
  <2> QED BY <2>1
<1>5. f \in [0..Len(services) -> Nat]
  <2>1. DOMAIN f = 0..Len(services) /\ f = [n \in 0..Len(services) |-> f[n]]
    BY <1>3
  <2> QED BY <1>4, <2>1
<1>6. f[0] = 0 /\ \A n \in 1..Len(services) : f[n] = f[n - 1] + services[n][1]
  <2>1. 0 \in 0..Len(services) /\ \A n \in 1..Len(services) : n \in 0..Len(services) /\ n # 0
    BY <1>1
  <2>2. \A n \in 0..Len(services) : f[n] = Summed(f, n)
    BY <1>3
  <2> QED BY <2>1, <2>2
<1> QED BY <1>3, <1>5, <1>6

LEMMA SumIsNat ==
    ASSUME NEW services \in Seq(Nat \X Nat)
    PROVE  SumDurations(services) \in Nat
<1>1. Len(services) \in 0..Len(services)
  BY LenProperties
<1> QED BY <1>1, SumsExist

(* The sums over the beginnings of a list are those on the way to its own.  *)
LEMMA PrefixSums ==
    ASSUME NEW services \in Seq(Nat \X Nat)
    PROVE  \E f \in [0..Len(services) -> Nat] :
              /\ f[0] = 0 /\ \A n \in 1..Len(services) : f[n] = f[n - 1] + services[n][1]
              /\ \A n \in 0..Len(services) : SumDurations(SubSeq(services, 1, n)) = f[n]
              /\ SumDurations(services) = f[Len(services)]
<1>1. PICK f \in [0..Len(services) -> Nat] :
         /\ f[0] = 0 /\ \A n \in 1..Len(services) : f[n] = f[n - 1] + services[n][1]
         /\ SumDurations(services) = f[Len(services)]
  BY SumsExist
<1>2. ASSUME NEW n \in 0..Len(services) PROVE SumDurations(SubSeq(services, 1, n)) = f[n]
  <2>1. PICK sub : sub = SubSeq(services, 1, n)
    OBVIOUS
  <2>2. /\ sub \in Seq(Nat \X Nat) /\ Len(sub) = n /\ n \in Nat /\ n <= Len(services)
        /\ \A i \in 1..n : sub[i] = services[i]
    BY <2>1, LenProperties
  <2>3. PICK g \in [0..n -> Nat] :
           /\ g[0] = 0 /\ \A i \in 1..n : g[i] = g[i - 1] + sub[i][1]
           /\ SumDurations(sub) = g[n]
    BY <2>2, SumsExist
  <2>4. PICK T : T = {i \in 0..n : g[i] # f[i]}
    OBVIOUS
  <2>5. ASSUME T # {} PROVE FALSE
    <3>1. PICK k \in T : \A j \in T : k <= j
      <4>1. T \subseteq Nat
        BY <2>2, <2>4
      <4> QED BY <2>5, <4>1, Smallest
    <3>2. k \in 1..n /\ k - 1 \in 0..n /\ k \in 1..Len(services) /\ ~(k <= k - 1)
      BY <1>1, <2>2, <2>3, <2>4, LenProperties
    <3>3. g[k - 1] = f[k - 1]
      BY <2>4, <3>1, <3>2
    <3>4. g[k] = f[k]
      BY <1>1, <2>2, <2>3, <3>2, <3>3
    <3> QED BY <2>4, <3>1, <3>4
  <2>6. g[n] = f[n]
    <3>1. n \in 0..n /\ T = {}
      BY <2>2, <2>5
    <3> QED BY <2>4, <3>1
  <2> QED BY <2>1, <2>3, <2>6
<1> QED BY <1>1, <1>2

LEMMA SumsGrow ==
    ASSUME NEW n \in Nat, NEW f \in [0..n -> Nat], \A i \in 1..n : f[i - 1] <= f[i],
           NEW j \in 0..n, NEW k \in 0..n, j <= k
    PROVE  f[j] <= f[k]
<1>1. PICK T : T = {i \in 0..n : j <= i /\ ~(f[j] <= f[i])}
  OBVIOUS
<1>2. ASSUME T # {} PROVE FALSE
  <2>1. PICK i \in T : \A m \in T : i <= m
    <3>1. T \subseteq Nat
      BY <1>1
    <3> QED BY <1>2, <3>1, Smallest
  <2>2. i # j /\ i \in 1..n /\ i - 1 \in 0..n /\ j <= i - 1 /\ ~(i <= i - 1)
    BY <1>1, <2>1
  <2>3. f[j] <= f[i - 1]
    BY <1>1, <2>1, <2>2
  <2>4. f[i - 1] <= f[i] /\ f[j] \in Nat /\ f[i] \in Nat /\ f[i - 1] \in Nat
    BY <2>2
  <2>5. f[j] <= f[i]
    BY <2>3, <2>4
  <2> QED BY <1>1, <2>1, <2>5
<1> QED BY <1>1, <1>2

LEMMA StaffIsWell ==
    /\ Staff.start \in Int /\ Staff.end \in Int
    /\ Picks \subseteq Visit
<1>1. /\ Staff.start \in Int /\ Staff.end \in Int
      /\ Staff.skills \subseteq {"Hair", "Nails", "Facial", "Massage", "Waxing", "Makeup", "Spa"}
  <2>1. Employee \in {"Sofia", "James", "Aaliyah", "Priya", "Lucas", "Emma", "Noah", "Grace"}
    BY DemoAssumption DEF EmployeeSpecs
  <2>2. \/ Staff = EmployeeSpecs.Sofia \/ Staff = EmployeeSpecs.James
           \/ Staff = EmployeeSpecs.Aaliyah \/ Staff = EmployeeSpecs.Priya
           \/ Staff = EmployeeSpecs.Lucas \/ Staff = EmployeeSpecs.Emma
           \/ Staff = EmployeeSpecs.Noah \/ Staff = EmployeeSpecs.Grace
    BY <2>1 DEF Staff
  <2> QED BY <2>2 DEF EmployeeSpecs, Spec8
<1>2. \A skill \in Staff.skills : Services[skill] \subseteq Nat \X Nat
  BY <1>1 DEF Services
<1>3. UNION {Services[skill] : skill \in Staff.skills} \subseteq Nat \X Nat
  BY <1>2
<1>4. Picks \subseteq Seq(UNION {Services[skill] : skill \in Staff.skills}) \ {<< >>}
  BY DemoAssumption DEF Staff
<1>5. Picks \subseteq Seq(Nat \X Nat)
  BY <1>3, <1>4, SeqMonotonic
<1> QED BY <1>1, <1>4, <1>5 DEF Visit

LEMMA TimesOfSlot ==
    ASSUME NEW slot \in Slot
    PROVE  /\ EndTime(slot) \in Int /\ BlockedUntil(slot) \in Int
           /\ slot.start <= EndTime(slot) /\ EndTime(slot) <= BlockedUntil(slot)
<1>1. slot.start \in Int /\ slot.services \in Seq(Nat \X Nat) /\ slot.services # << >>
  BY DEF Slot, Visit
<1>2. SumDurations(slot.services) \in Nat
  BY <1>1, SumIsNat
<1>3. Last(slot.services)[2] \in Nat
  <2>1. Len(slot.services) \in 1..Len(slot.services)
    BY <1>1, EmptySeq
  <2>2. Last(slot.services) \in Nat \X Nat
    BY <1>1, <2>1, ElementOfSeq DEF Last
  <2> QED BY <2>2
<1> QED BY <1>1, <1>2, <1>3 DEF EndTime, BlockedUntil

(* A slot at the cursor that ends in time is clean and comes after those    *)
(* already built, and the cursor moves behind its buffer.                  *)
LEMMA SlotAtCursor ==
    ASSUME NEW w \in Timeline, SlotsAreClean(w.slots), CursorIsFree(w),
           NEW services \in Picks, NEW gap \in Gaps,
           NEW slot, slot = [day |-> Head(w.days), start |-> w.cursor, services |-> services],
           BlockedUntil(slot) <= Staff.end,
           NEW more, more = Append(w.slots, slot)
    PROVE  /\ slot \in Slot /\ more \in Seq(Slot) /\ SlotsAreClean(more)
           /\ BlockedUntil(slot) + gap \in Int
           /\ AreOverBy(more, Head(w.days), BlockedUntil(slot) + gap)
           /\ Staff.start <= BlockedUntil(slot) + gap
<1>0. /\ w.days \in Seq(Int) /\ w.days # << >> /\ Head(w.days) \in Int /\ w.cursor \in Int
      /\ w.slots \in Seq(Slot) /\ gap \in Nat
  <2>1. w.days \in Seq(Int) /\ w.cursor \in Int /\ w.slots \in Seq(Slot)
    BY DEF Timeline
  <2>2. w.days # << >> /\ gap \in Nat
    BY DemoAssumption DEF CursorIsFree
  <2> QED BY <2>1, <2>2, HeadTailProperties
<1>1. slot \in Slot
  BY <1>0, StaffIsWell DEF Slot
<1>2. /\ more \in Seq(Slot) /\ Len(more) = Len(w.slots) + 1 /\ Len(w.slots) \in Nat
      /\ more[Len(w.slots) + 1] = slot /\ \A k \in 1..Len(w.slots) : more[k] = w.slots[k]
  BY <1>0, <1>1
<1>3. /\ \A k \in DOMAIN more : k \in 1..Len(w.slots) \/ k = Len(w.slots) + 1
      /\ \A j, k \in DOMAIN more : j < k => j \in 1..Len(w.slots)
  <2>1. \A m \in Nat : \A k \in 1..m + 1 : k \in 1..m \/ k = m + 1
    OBVIOUS
  <2>2. \A m \in Nat : \A j, k \in 1..m + 1 : j < k => j \in 1..m
    OBVIOUS
  <2>3. Len(w.slots) \in Nat /\ DOMAIN more = 1..Len(w.slots) + 1
    BY <1>2, LenProperties
  <2> QED BY <2>1, <2>2, <2>3
<1>4. /\ EndTime(slot) \in Int /\ BlockedUntil(slot) \in Int
      /\ slot.start <= EndTime(slot) /\ EndTime(slot) <= BlockedUntil(slot)
  BY <1>1, TimesOfSlot
<1>5. slot.day = Head(w.days) /\ slot.start = w.cursor /\ Staff.start <= w.cursor
  BY DEF CursorIsFree
<1>6. SlotIsClean(slot)
  BY <1>5 DEF SlotIsClean, CursorIsFree
<1>7. ASSUME NEW k \in 1..Len(w.slots)
      PROVE  /\ Precedes(w.slots[k], slot)
             /\ \/ w.slots[k].day < Head(w.days)
                \/ /\ w.slots[k].day = Head(w.days)
                   /\ BlockedUntil(w.slots[k]) <= BlockedUntil(slot)
  <2>1. w.slots[k] \in Slot
    BY <1>0, ElementOfSeq
  <2>2. BlockedUntil(w.slots[k]) \in Int
    BY <2>1, TimesOfSlot
  <2>3. \/ w.slots[k].day < Head(w.days)
        \/ w.slots[k].day = Head(w.days) /\ BlockedUntil(w.slots[k]) <= w.cursor
    BY <1>0, LenProperties DEF CursorIsFree, AreOverBy
  <2> QED BY <1>0, <1>4, <1>5, <2>2, <2>3 DEF Precedes
<1>8. SlotsAreClean(more)
  <2>1. ASSUME NEW k \in DOMAIN more PROVE SlotIsClean(more[k])
    <3>1. k \in 1..Len(w.slots) \/ k = Len(w.slots) + 1
      BY <1>3
    <3>2. k \in 1..Len(w.slots) => SlotIsClean(w.slots[k])
      BY <1>0 DEF SlotsAreClean
    <3> QED BY <1>2, <1>6, <3>1, <3>2
  <2>2. ASSUME NEW j \in DOMAIN more, NEW k \in DOMAIN more, j < k
        PROVE  Precedes(more[j], more[k])
    <3>1. j \in 1..Len(w.slots) /\ (k \in 1..Len(w.slots) \/ k = Len(w.slots) + 1)
      BY <1>3, <2>2
    <3>2. ASSUME k \in 1..Len(w.slots) PROVE Precedes(w.slots[j], w.slots[k])
      BY <1>0, <2>2, <3>1, <3>2, LenProperties DEF SlotsAreClean
    <3> QED BY <1>2, <1>7, <3>1, <3>2
  <2> QED BY <2>1, <2>2 DEF SlotsAreClean
<1>9. AreOverBy(more, Head(w.days), BlockedUntil(slot) + gap)
  <2>1. ASSUME NEW k \in DOMAIN more
        PROVE  \/ more[k].day < Head(w.days)
               \/ /\ more[k].day = Head(w.days)
                  /\ BlockedUntil(more[k]) <= BlockedUntil(slot) + gap
    <3>1. k \in 1..Len(w.slots) \/ k = Len(w.slots) + 1
      BY <1>3
    <3>2. more[k] \in Slot
      BY <1>2, LenProperties, ElementOfSeq
    <3>3. BlockedUntil(more[k]) \in Int
      BY <3>2, TimesOfSlot
    <3>4. \/ more[k].day < Head(w.days)
          \/ more[k].day = Head(w.days) /\ BlockedUntil(more[k]) <= BlockedUntil(slot)
      <4>1. k \in 1..Len(w.slots) => more[k] = w.slots[k]
        BY <1>2
      <4>2. k = Len(w.slots) + 1 => more[k] = slot
        BY <1>2
      <4>3. BlockedUntil(slot) <= BlockedUntil(slot)
        BY <1>4
      <4> QED BY <1>5, <1>7, <3>1, <4>1, <4>2, <4>3
    <3> QED BY <1>0, <1>4, <3>3, <3>4
  <2> QED BY <2>1 DEF AreOverBy
<1>10. Staff.start \in Int
  BY StaffIsWell
<1>11. /\ BlockedUntil(slot) + gap \in Int
       /\ Staff.start <= BlockedUntil(slot) + gap
  BY <1>0, <1>4, <1>5, <1>10
<1> QED BY <1>1, <1>2, <1>8, <1>9, <1>11

(* The days that are left go on rising, and come after the one before.     *)
LEMMA DaysGoOn ==
    ASSUME NEW days \in Seq(Int), days # << >>, Rising(days)
    PROVE  /\ Head(days) \in Int /\ Tail(days) \in Seq(Int)
           /\ Rising(Tail(days))
           /\ Tail(days) # << >> => Head(days) < Head(Tail(days))
<1>1. /\ Head(days) = days[1] /\ Head(days) \in Int /\ Len(days) \in Nat /\ DOMAIN days = 1..Len(days)
      /\ Tail(days) \in Seq(Int) /\ Len(Tail(days)) = Len(days) - 1 /\ DOMAIN Tail(days) = 1..Len(days) - 1
      /\ \A i \in 1..Len(days) - 1 : Tail(days)[i] = days[i + 1]
  BY HeadTailProperties, LenProperties
<1>2. Rising(Tail(days))
  <2>1. ASSUME NEW k \in DOMAIN Tail(days), NEW j \in DOMAIN Tail(days), k < j
        PROVE  Tail(days)[k] < Tail(days)[j]
    <3>1. k + 1 \in DOMAIN days /\ j + 1 \in DOMAIN days /\ k + 1 < j + 1
      BY <1>1, <2>1
    <3>2. days[k + 1] < days[j + 1]
      BY <3>1 DEF Rising
    <3> QED BY <1>1, <3>2
  <2> QED BY <2>1 DEF Rising
<1>3. ASSUME Tail(days) # << >> PROVE Head(days) < Head(Tail(days))
  <2>1. Len(Tail(days)) \in Nat \ {0}
    BY <1>1, <1>3, EmptySeq
  <2>2. Head(Tail(days)) = days[2] /\ 1 \in DOMAIN days /\ 2 \in DOMAIN days
    BY <1>1, <2>1
  <2> QED BY <1>1, <2>2 DEF Rising
<1> QED BY <1>1, <1>2, <1>3

-----------------------------------------------------------------------------
(* Frames: what a step leaves alone stays well. *)

(* Another terminal's work does not notice what p does, unless p writes to  *)
(* the book of the tenant both work on.                                    *)
LEMMA OthersGoOn ==
    ASSUME DemoInv, NEW q \in Terminals,
           at'[q] = at[q], work'[q] = work[q], tid'[q] = tid[q],
           (tenant' = tenant /\ book' = book) \/ (at[q] \in Owning => tid[q] # tenant')
    PROVE  BuildsWell(q)'
<1>1. BuildsWell(q)
  BY DEF DemoInv
<1>2. at[q] = "appointment" => LastIsMine(q, work[q].pos - 1)'
  BY <1>1 DEF BuildsWell, LastIsMine, Owning, Writing
<1>3. at[q] = "statusHistory" => LastIsMine(q, work[q].pos)'
  BY <1>1 DEF BuildsWell, LastIsMine, Owning, Writing
<1>4. at[q] \in Filling \cup Placing => (tid[q] = tenant => book = << >>)'
  BY <1>1 DEF BuildsWell, Owning
<1> QED BY <1>1, <1>2, <1>3, <1>4 DEF BuildsWell

(* A step of p that leaves the book and the tenants alone.                 *)
LEMMA TerminalStep ==
    ASSUME DemoInv, NEW p \in Terminals, NEW place, NEW w \in Timeline,
           NEW id \in 0..made,
           at' = [at EXCEPT ![p] = place], work' = [work EXCEPT ![p] = w],
           tid' = [tid EXCEPT ![p] = id], UNCHANGED <<tenant, made, book>>,
           place \in Owning => at[p] \in Owning /\ id = tid[p],
           BuildsWell(p)'
    PROVE  DemoInv'
<1>1. DemoTypes /\ TenantsAreOwn
  BY DEF DemoInv
<1>2. at'[p] = place /\ tid'[p] = id
  BY <1>1 DEF DemoTypes
<1>3. \A q \in Terminals \ {p} : at'[q] = at[q] /\ work'[q] = work[q] /\ tid'[q] = tid[q]
  BY <1>1 DEF DemoTypes
<1>4. DemoTypes'
  <2>1. at' = [q \in Terminals |-> at'[q]]
    BY <1>1 DEF DemoTypes
  <2>2. work' \in [Terminals -> Timeline]
    BY <1>1 DEF DemoTypes
  <2>3. tid' \in [Terminals -> 0..made']
    BY <1>1 DEF DemoTypes
  <2> QED BY <1>1, <2>1, <2>2, <2>3 DEF DemoTypes
<1>5. TenantsAreOwn'
  <2>1. ASSUME NEW q \in Terminals, at'[q] \in Owning PROVE at[q] \in Owning /\ tid'[q] = tid[q]
    BY <1>2, <1>3, <2>1
  <2> QED BY <1>1, <2>1 DEF TenantsAreOwn
<1>6. \A q \in Terminals : BuildsWell(q)'
  <2>1. ASSUME NEW q \in Terminals \ {p} PROVE BuildsWell(q)'
    BY <1>3, OthersGoOn
  <2> QED BY <2>1
<1>7. \A k \in DOMAIN book' : RowIsClean(k)'
  BY DEF DemoInv, RowIsClean
<1> QED BY <1>4, <1>5, <1>6, <1>7 DEF DemoInv

(* A step of p that only goes on to another statement, of which the new    *)
(* one promises no more than the old one did.                              *)
LEMMA GoesOn ==
    ASSUME DemoInv, NEW p \in Terminals, NEW place,
           at' = [at EXCEPT ![p] = place], UNCHANGED <<tenant, made, book, tid, work>>,
           place \notin Placing \cup Writing,
           place \in Early => at[p] \in Early,
           place \in Filling => at[p] \in Filling
    PROVE  DemoInv'
<1>1. /\ at = [q \in Terminals |-> at[q]] /\ work \in [Terminals -> Timeline]
      /\ tid \in [Terminals -> 0..made]
  BY DEF DemoInv, DemoTypes
<1>2. /\ work' = [work EXCEPT ![p] = work[p]] /\ tid' = [tid EXCEPT ![p] = tid[p]]
      /\ work[p] \in Timeline /\ tid[p] \in 0..made
  BY <1>1
<1>3. at'[p] = place /\ BuildsWell(p)
  BY <1>1 DEF DemoInv
<1>4. BuildsWell(p)'
  <2>1. place # "appointment" /\ place # "statusHistory" /\ place # "day" /\ place # "slot"
    BY DEF Placing, Writing
  <2> QED BY <1>3, <2>1 DEF BuildsWell
<1>5. place \in Owning => at[p] \in Owning
  BY DEF Owning
<1> QED BY <1>1, <1>2, <1>4, <1>5, TerminalStep

LEMMA Ends ==
    ASSUME DemoInv, NEW p \in Terminals, NEW how, End(p, how)
    PROVE  DemoInv'
<1>1. /\ "ended" \notin Placing \cup Writing
      /\ "ended" \notin Early /\ "ended" \notin Filling
  BY DEF Placing, Writing, Early, Filling
<1>2. at' = [at EXCEPT ![p] = "ended"] /\ UNCHANGED <<tenant, made, book, tid, work>>
  BY DEF End, Goto, rows, local
<1> QED BY <1>1, <1>2, GoesOn

LEMMA Refusals ==
    ASSUME DemoInv, NEW p \in Terminals, NEW parents, Refused(p, parents)
    PROVE  DemoInv'
BY Ends DEF Refused

-----------------------------------------------------------------------------
(* Statements that do not touch the book. *)

(* A script may go from one statement to the next without taking on more.  *)
Onward(here, place) ==
    /\ place \notin Placing \cup Writing
    /\ place \in Early => here \in Early
    /\ place \in Filling => here \in Filling

LEMMA FillsGoOn ==
    ASSUME DemoInv, NEW p \in Terminals, NEW here, NEW t, NEW parents, NEW again, NEW next,
           Fill(p, here, t, parents, again, next), Onward(here, again), Onward(here, next)
    PROVE  DemoInv'
<1>1. CASE Refused(p, parents)
  BY <1>1, Refusals
<1>2. CASE ~Refused(p, parents)
  <2>1. PICK place \in {again, next} : at' = [at EXCEPT ![p] = place]
    BY <1>2 DEF Fill, Goto
  <2>2. UNCHANGED <<tenant, made, book, tid, work>> /\ at[p] = here
    BY <1>2 DEF Fill, local
  <2>3. Onward(at[p], place)
    BY <2>1, <2>2
  <2> QED BY <2>1, <2>2, <2>3, GoesOn DEF Onward
<1> QED BY <1>1, <1>2

LEMMA FillsAtOnce ==
    ASSUME DemoInv, NEW p \in Terminals, NEW here, NEW t, NEW parents, NEW next,
           FillAtOnce(p, here, t, parents, next), Onward(here, next)
    PROVE  DemoInv'
<1>1. CASE Refused(p, parents)
  BY <1>1, Refusals
<1>2. CASE ~Refused(p, parents)
  <2>1. /\ UNCHANGED <<tenant, made, book, tid, work>> /\ at[p] = here
        /\ at' = [at EXCEPT ![p] = next]
    BY <1>2 DEF FillAtOnce, local, Goto
  <2> QED BY <2>1, GoesOn DEF Onward
<1> QED BY <1>1, <1>2

LEMMA TellsGoOn ==
    ASSUME DemoInv, NEW p \in Terminals, NEW here, NEW parents, NEW t, NEW changed, NEW next,
           Tell(p, here, parents, t, changed, next), Onward(here, next)
    PROVE  DemoInv'
<1>1. CASE Refused(p, parents)
  BY <1>1, Refusals
<1>2. CASE ~Refused(p, parents)
  <2>1. /\ UNCHANGED <<tenant, made, book, tid, work>> /\ at[p] = here
        /\ at' = [at EXCEPT ![p] = next]
    BY <1>2 DEF Tell, local, Goto
  <2> QED BY <2>1, GoesOn DEF Onward
<1> QED BY <1>1, <1>2

LEMMA MovesGoOn ==
    ASSUME DemoInv, NEW p \in Terminals, NEW next, Goto(p, next), Onward(at[p], next),
           UNCHANGED <<rows, local>>
    PROVE  DemoInv'
<1>1. UNCHANGED <<tenant, made, book, tid, work>> /\ at' = [at EXCEPT ![p] = next]
  BY DEF Goto, rows, local
<1> QED BY <1>1, GoesOn DEF Onward

(* Sections of the seed before and after the timeline, and the statements  *)
(* that only read.                                                         *)
SectionStep(p) ==
    \/ CreateOwner(p) \/ CreateTenantSettings(p) \/ CreateSalonProfile(p)
    \/ CreateBusinessHours(p) \/ CreateEmployees(p) \/ CreateServiceCategories(p)
    \/ CreateServices(p) \/ AssignEmployeeServices(p) \/ CreateCustomers(p)
    \/ CreateBilling(p) \/ CreateWhatsAppAccount(p) \/ CreateAuditLogs(p)

LEMMA SectionsGoOn ==
    ASSUME DemoInv, NEW p \in Terminals, SectionStep(p)
    PROVE  DemoInv'
<1> USE DEF Onward, Placing, Writing, Early, Filling
<1>1. CASE CreateOwner(p)
  BY <1>1, FillsAtOnce DEF CreateOwner
<1>2. CASE CreateTenantSettings(p)
  BY <1>2, FillsAtOnce DEF CreateTenantSettings
<1>3. CASE CreateSalonProfile(p)
  BY <1>3, FillsAtOnce DEF CreateSalonProfile
<1>4. CASE CreateBusinessHours(p)
  BY <1>4, FillsAtOnce DEF CreateBusinessHours
<1>5. CASE CreateEmployees(p)
  <2>1. CASE Fill(p, "employee", "employee", {}, "workingHours", "workingHours")
    BY <2>1, FillsGoOn
  <2>2. CASE Fill(p, "workingHours", "workingHours", {"employee"}, "timeOff", "timeOff")
    BY <2>2, FillsGoOn
  <2>3. CASE Fill(p, "timeOff", "timeOff", {"employee"}, "employee", "category")
    BY <2>3, FillsGoOn
  <2> QED BY <1>5, <2>1, <2>2, <2>3 DEF CreateEmployees
<1>6. CASE CreateServiceCategories(p)
  BY <1>6, FillsGoOn DEF CreateServiceCategories
<1>7. CASE CreateServices(p)
  BY <1>7, FillsGoOn DEF CreateServices
<1>8. CASE AssignEmployeeServices(p)
  BY <1>8, FillsAtOnce DEF AssignEmployeeServices
<1>9. CASE CreateCustomers(p)
  BY <1>9, FillsGoOn DEF CreateCustomers
<1>10. CASE CreateBilling(p)
  <2>1. CASE FillAtOnce(p, "subscription", "subscription", {}, "invoice")
    BY <2>1, FillsAtOnce
  <2>2. CASE Fill(p, "invoice", "invoice", {"subscription"}, "payment", "payment")
    BY <2>2, FillsGoOn
  <2>3. CASE Fill(p, "payment", "payment", {"invoice"}, "invoice", "account")
    BY <2>3, FillsGoOn
  <2> QED BY <1>10, <2>1, <2>2, <2>3 DEF CreateBilling
<1>11. CASE CreateWhatsAppAccount(p)
  BY <1>11, FillsAtOnce DEF CreateWhatsAppAccount
<1>12. CASE CreateAuditLogs(p)
  BY <1>12, FillsAtOnce DEF CreateAuditLogs
<1> QED BY <1>1, <1>2, <1>3, <1>4, <1>5, <1>6, <1>7, <1>8, <1>9, <1>10, <1>11, <1>12
        DEF SectionStep

(* What else leaves the work alone. *)
PlainStep(p) ==
    \/ Start(p, "seed", "base") \/ Start(p, "demo:seed", "role") \/ Start(p, "demo:reset", "find")
    \/ Interrupt(p) \/ FindRole(p) \/ FindPlan(p) \/ FindTenant(p) \/ EncryptToken(p)
    \/ CreateConversation(p) \/ CreateMessages(p) \/ TouchConversation(p) \/ KeepConversation(p)
    \/ CreatePromptVersions(p) \/ Exit(p)

LEMMA PlainStepsGoOn ==
    ASSUME DemoInv, NEW p \in Terminals, PlainStep(p)
    PROVE  DemoInv'
<1> USE DEF Onward, Placing, Writing, Early, Filling
<1>1. CASE \/ Start(p, "seed", "base") \/ Start(p, "demo:seed", "role")
           \/ Start(p, "demo:reset", "find")
  <2>1. PICK first \in {"base", "role", "find"} : Goto(p, first)
    BY <1>1 DEF Start
  <2>2. at[p] = "idle" /\ UNCHANGED <<rows, local>>
    BY <1>1 DEF Start
  <2> QED BY <2>1, <2>2, MovesGoOn
<1>2. CASE Interrupt(p)
  BY <1>2, Ends DEF Interrupt
<1>3. CASE FindRole(p)
  BY <1>3, Ends, MovesGoOn DEF FindRole
<1>4. CASE FindPlan(p)
  BY <1>4, Ends, MovesGoOn DEF FindPlan
<1>5. CASE FindTenant(p)
  BY <1>5, Ends, MovesGoOn DEF FindTenant
<1>6. CASE EncryptToken(p)
  BY <1>6, Ends, MovesGoOn DEF EncryptToken
<1>7. CASE CreateConversation(p)
  BY <1>7, TellsGoOn DEF CreateConversation
<1>8. CASE CreateMessages(p)
  BY <1>8, TellsGoOn DEF CreateMessages
<1>9. CASE TouchConversation(p)
  BY <1>9, TellsGoOn DEF TouchConversation
<1>10. CASE KeepConversation(p)
  <2>1. PICK kept, changed : Tell(p, "keep", {"conversation"}, kept, changed, "told")
    BY <1>10 DEF KeepConversation
  <2> QED BY <2>1, TellsGoOn
<1>11. CASE CreatePromptVersions(p)
  BY <1>11, MovesGoOn DEF CreatePromptVersions
<1>12. CASE Exit(p)
  BY <1>12, Ends DEF Exit
<1> QED BY <1>1, <1>2, <1>3, <1>4, <1>5, <1>6, <1>7, <1>8, <1>9, <1>10, <1>11, <1>12
        DEF PlainStep

(* Loops that are neither the timeline's nor its writing keep no promises. *)
LEMMA LoopsGoOn ==
    ASSUME DemoInv, NEW p \in Terminals, NEW place, NEW w \in Timeline, NEW id \in 0..made,
           at' = [at EXCEPT ![p] = place], work' = [work EXCEPT ![p] = w],
           tid' = [tid EXCEPT ![p] = id], UNCHANGED <<tenant, made, book>>,
           place \notin Owning, place \in Early => w = NoWork
    PROVE  DemoInv'
<1>1. at'[p] = place /\ work'[p] = w
  BY DEF DemoInv, DemoTypes
<1>2. BuildsWell(p)'
  BY <1>1 DEF BuildsWell, Owning, Writing, Placing
<1> QED BY <1>2, TerminalStep

LEMMA WorkIsTyped ==
    ASSUME DemoInv, NEW p \in Terminals
    PROVE  /\ work[p] \in Timeline /\ tid[p] \in 0..made /\ made \in Nat
           /\ at = [at EXCEPT ![p] = at[p]] /\ tid = [tid EXCEPT ![p] = tid[p]]
           /\ [work[p] EXCEPT !.pos = @ + 1] \in Timeline
           /\ NoWork \in Timeline /\ 0 \in 0..made
<1>1. /\ work[p] \in Timeline /\ tid[p] \in 0..made /\ made \in Nat
      /\ at = [at EXCEPT ![p] = at[p]] /\ tid = [tid EXCEPT ![p] = tid[p]]
  BY DEF DemoInv, DemoTypes
<1>2. [work[p] EXCEPT !.pos = @ + 1] \in Timeline
  <2>1. ASSUME NEW w \in Timeline PROVE [w EXCEPT !.pos = @ + 1] \in Timeline
    <3>1. w.pos + 1 \in Nat
      BY DEF Timeline
    <3> QED BY <3>1 DEF Timeline
  <2> QED BY <1>1, <2>1
<1>3. NoWork \in Timeline
  BY EmptySeq DEF NoWork, Timeline
<1>4. 0 \in 0..made
  BY <1>1
<1> QED BY <1>1, <1>2, <1>3, <1>4

LoopStep(p) ==
    \/ Leave(p) \/ SeedBase(p) \/ AppointmentsDone(p) \/ NextScenario(p) \/ FindDemoTenant(p)

LEMMA LoopStepsGoOn ==
    ASSUME DemoInv, NEW p \in Terminals, LoopStep(p)
    PROVE  DemoInv'
<1> USE DEF Owning, Placing, Writing, Early, Filling
<1>1. CASE Leave(p)
  <2>1. /\ at' = [at EXCEPT ![p] = "idle"] /\ work' = [work EXCEPT ![p] = NoWork]
        /\ tid' = [tid EXCEPT ![p] = 0] /\ UNCHANGED <<tenant, made, book>>
    BY <1>1 DEF Leave, Goto, rows
  <2> QED BY <2>1, WorkIsTyped, LoopsGoOn
<1>2. CASE SeedBase(p)
  <2>1. CASE work[p].pos > Len(BaseParts)
    BY <1>2, <2>1, Ends DEF SeedBase
  <2>2. CASE ~(work[p].pos > Len(BaseParts))
    <3>1. /\ at' = [at EXCEPT ![p] = "base"] /\ tid' = [tid EXCEPT ![p] = tid[p]]
          /\ work' = [work EXCEPT ![p] = [work[p] EXCEPT !.pos = @ + 1]]
          /\ UNCHANGED <<tenant, made, book>>
      BY <1>2, <2>2, WorkIsTyped DEF SeedBase, NextPos
    <3> QED BY <3>1, WorkIsTyped, LoopsGoOn
  <2> QED BY <2>1, <2>2
<1>3. CASE AppointmentsDone(p)
  <2>1. /\ at' = [at EXCEPT ![p] = "subscription"] /\ work' = [work EXCEPT ![p] = NoWork]
        /\ tid' = [tid EXCEPT ![p] = tid[p]] /\ UNCHANGED <<tenant, made, book>>
    BY <1>3, WorkIsTyped DEF AppointmentsDone, Build, Goto, rows
  <2> QED BY <2>1, WorkIsTyped, LoopsGoOn
<1>4. CASE NextScenario(p)
  <2>1. CASE at[p] = "told"
    <3>1. /\ at' = [at EXCEPT ![p] = "conversation"]
          /\ work' = [work EXCEPT ![p] = [work[p] EXCEPT !.pos = @ + 1]]
          /\ tid' = [tid EXCEPT ![p] = tid[p]] /\ UNCHANGED <<tenant, made, book>>
      BY <1>4, <2>1, WorkIsTyped DEF NextScenario, Build, Goto, rows
    <3> QED BY <3>1, WorkIsTyped, LoopsGoOn
  <2>2. CASE at[p] # "told"
    <3>1. /\ at' = [at EXCEPT ![p] = "prompts"] /\ work' = [work EXCEPT ![p] = NoWork]
          /\ tid' = [tid EXCEPT ![p] = tid[p]] /\ UNCHANGED <<tenant, made, book>>
      BY <1>4, <2>2, WorkIsTyped DEF NextScenario, Build, Goto, rows
    <3> QED BY <3>1, WorkIsTyped, LoopsGoOn
  <2> QED BY <2>1, <2>2
<1>5. CASE FindDemoTenant(p)
  <2>1. CASE tenant = 0
    BY <1>5, <2>1, Ends DEF FindDemoTenant
  <2>2. CASE tenant # 0
    <3>1. /\ at' = [at EXCEPT ![p] = "delete"] /\ work' = [work EXCEPT ![p] = work[p]]
          /\ tid' = [tid EXCEPT ![p] = tenant] /\ UNCHANGED <<tenant, made, book>>
          /\ tenant \in 0..made
      BY <1>5, <2>2 DEF FindDemoTenant, Goto, rows, DemoInv, DemoTypes
    <3> QED BY <3>1, WorkIsTyped, LoopsGoOn
  <2> QED BY <2>1, <2>2
<1> QED BY <1>1, <1>2, <1>3, <1>4, <1>5 DEF LoopStep

-----------------------------------------------------------------------------
(* The timeline. *)

LEMMA TimelineBegins ==
    ASSUME DemoInv, NEW p \in Terminals, BeginTimeline(p)
    PROVE  DemoInv'
<1>1. work[p] = NoWork /\ (tid[p] = tenant => book = << >>)
  BY DEF DemoInv, BuildsWell, BeginTimeline, Early, Filling
<1>0. PICK v \in Timeline : v = NoWork
  BY WorkIsTyped
<1> DEFINE w == [v EXCEPT !.days = Window]
<1>2. w.days = Window /\ w.slots = << >> /\ w.pos = 1 /\ w \in Timeline
  <2>1. v.slots = << >> /\ v.pos = 1
    BY <1>0 DEF NoWork
  <2>2. Window \in Seq(Int)
    BY DemoAssumption
  <2> QED BY <2>1, <2>2 DEF Timeline
<1>3. /\ at' = [at EXCEPT ![p] = "day"] /\ work' = [work EXCEPT ![p] = w]
      /\ tid' = [tid EXCEPT ![p] = tid[p]] /\ tid[p] \in 0..made
      /\ UNCHANGED <<tenant, made, book, tid>> /\ at[p] \in Owning
  BY <1>0, <1>1, WorkIsTyped DEF BeginTimeline, Build, Goto, rows, Owning, Filling
<1>4. at'[p] = "day" /\ work'[p] = w
  BY <1>3 DEF DemoInv, DemoTypes
<1> HIDE DEF w
<1>5. BuildsWell(p)'
  <2>1. SlotsAreClean(w.slots)
    BY <1>2 DEF SlotsAreClean
  <2>2. Rising(w.days)
    BY <1>2, DemoAssumption DEF Rising
  <2>3. DayIsFree(w)
    BY <1>2 DEF DayIsFree
  <2> QED BY <1>1, <1>2, <1>3, <1>4, <2>1, <2>2, <2>3
          DEF BuildsWell, Early, Filling, Placing, Writing
<1> QED BY <1>2, <1>3, <1>5, TerminalStep

(* From a day or a slot to a day or a slot.                                *)
LEMMA PlacesGoOn ==
    ASSUME DemoInv, NEW p \in Terminals, at[p] \in Placing,
           NEW place \in Placing, NEW w \in Timeline, Goto(p, place), Build(p, w),
           w.pos = 1, Rising(w.days), SlotsAreClean(w.slots),
           place = "day" => DayIsFree(w), place = "slot" => CursorIsFree(w)
    PROVE  DemoInv'
<1>1. /\ at' = [at EXCEPT ![p] = place] /\ work' = [work EXCEPT ![p] = w]
      /\ tid' = [tid EXCEPT ![p] = tid[p]] /\ tid[p] \in 0..made
      /\ UNCHANGED <<tenant, made, book, tid>> /\ at[p] \in Owning
  BY WorkIsTyped DEF Build, Goto, rows, Owning
<1>2. at'[p] = place /\ work'[p] = w
  BY <1>1 DEF DemoInv, DemoTypes
<1>3. tid[p] = tenant => book = << >>
  BY DEF DemoInv, BuildsWell
<1>4. BuildsWell(p)'
  BY <1>1, <1>2, <1>3 DEF BuildsWell, Early, Filling, Placing, Writing
<1> QED BY <1>1, <1>4, TerminalStep

LEMMA BeforeIsTransitive ==
    ASSUME NEW x \in Int, NEW y \in Int, NEW z \in Int, x < y, y < z
    PROVE  x < z
OBVIOUS

LEMMA DayBegins ==
    ASSUME DemoInv, NEW p \in Terminals, BeginDay(p)
    PROVE  DemoInv'
<1>1. /\ at[p] = "day" /\ work[p] \in Timeline /\ work[p].days # << >>
      /\ work[p].pos = 1 /\ Rising(work[p].days) /\ SlotsAreClean(work[p].slots)
      /\ DayIsFree(work[p])
  BY DEF BeginDay, DemoInv, DemoTypes, BuildsWell, Placing
<1>2. PICK v \in Timeline : v = work[p]
  BY <1>1
<1>3. CASE Goto(p, "day") /\ Build(p, [v EXCEPT !.days = Tail(v.days)])
  <2> DEFINE w == [v EXCEPT !.days = Tail(v.days)]
  <2>1. v.days \in Seq(Int) /\ v.slots \in Seq(Slot)
    BY DEF Timeline
  <2>2. /\ Head(v.days) \in Int /\ Tail(v.days) \in Seq(Int) /\ Rising(Tail(v.days))
        /\ Tail(v.days) # << >> => Head(v.days) < Head(Tail(v.days))
    BY <1>1, <1>2, <2>1, DaysGoOn
  <2>3. w \in Timeline /\ w.days = Tail(v.days) /\ w.slots = v.slots /\ w.pos = 1
    BY <1>1, <1>2, <2>2 DEF Timeline
  <2> HIDE DEF w
  <2>4. DayIsFree(w)
    <3>1. ASSUME NEW k \in DOMAIN v.slots, Tail(v.days) # << >>
          PROVE  v.slots[k].day < Head(Tail(v.days))
      <4>1. v.slots[k] \in Slot
        BY <2>1, LenProperties, ElementOfSeq
      <4>2. v.slots[k].day \in Int /\ Head(Tail(v.days)) \in Int
        BY <2>2, <3>1, <4>1, HeadTailProperties DEF Slot
      <4>3. v.slots[k].day < Head(v.days)
        BY <1>1, <1>2 DEF DayIsFree
      <4>4. Head(v.days) \in Int /\ Head(v.days) < Head(Tail(v.days))
        BY <2>2, <3>1
      <4> QED BY ONLY <4>2, <4>3, <4>4, BeforeIsTransitive
    <3> QED BY <2>3, <3>1 DEF DayIsFree
  <2>5. Rising(w.days) /\ SlotsAreClean(w.slots)
    BY <1>1, <1>2, <2>2, <2>3
  <2>6. Build(p, w)
    BY <1>3 DEF w
  <2> QED BY <1>1, <1>3, <2>3, <2>4, <2>5, <2>6, PlacesGoOn DEF Placing
<1>4. CASE /\ Weekday(Head(v.days)) \in Staff.days /\ ~IsOnTimeOff(Head(v.days))
           /\ Goto(p, "slot")
           /\ \E n \in PerDay : Build(p, [v EXCEPT !.cursor = Staff.start, !.left = n])
  <2>1. PICK n \in PerDay : Build(p, [v EXCEPT !.cursor = Staff.start, !.left = n])
    BY <1>4
  <2> DEFINE w == [v EXCEPT !.cursor = Staff.start, !.left = n]
  <2>2. n \in Nat /\ Staff.start \in Int
    BY DemoAssumption, StaffIsWell
  <2>3. /\ w \in Timeline /\ w.days = v.days /\ w.slots = v.slots /\ w.pos = 1
        /\ w.cursor = Staff.start
    BY <1>1, <1>2, <2>2 DEF Timeline
  <2>4. Build(p, w)
    BY <2>1
  <2> HIDE DEF w
  <2>5. CursorIsFree(w)
    BY <1>1, <1>2, <1>4, <2>2, <2>3 DEF CursorIsFree, DayIsFree, AreOverBy
  <2>6. Rising(w.days) /\ SlotsAreClean(w.slots)
    BY <1>1, <1>2, <2>3
  <2> QED BY <1>1, <1>4, <2>3, <2>4, <2>5, <2>6, PlacesGoOn DEF Placing
<1> QED BY <1>2, <1>3, <1>4 DEF BeginDay

LEMMA SlotAdded ==
    ASSUME DemoInv, NEW p \in Terminals, AddSlot(p)
    PROVE  DemoInv'
<1>1. /\ at[p] = "slot" /\ work[p] \in Timeline /\ work[p].pos = 1
      /\ Rising(work[p].days) /\ SlotsAreClean(work[p].slots) /\ CursorIsFree(work[p])
  BY DEF AddSlot, AddSlotAfter, DemoInv, DemoTypes, BuildsWell, Placing
<1>2. PICK v \in Timeline : v = work[p]
  BY <1>1
<1>3. /\ v.days \in Seq(Int) /\ v.days # << >> /\ v.slots \in Seq(Slot) /\ v.left \in Nat
      /\ Head(v.days) \in Int
  BY <1>1, <1>2, HeadTailProperties DEF Timeline, CursorIsFree
<1>4. CASE NextDay(p)
  <2> DEFINE w == [v EXCEPT !.days = Tail(v.days)]
  <2>1. /\ Tail(v.days) \in Seq(Int) /\ Rising(Tail(v.days))
        /\ Tail(v.days) # << >> => Head(v.days) < Head(Tail(v.days))
    BY <1>1, <1>2, <1>3, DaysGoOn
  <2>2. w \in Timeline /\ w.days = Tail(v.days) /\ w.slots = v.slots /\ w.pos = 1
    BY <1>1, <1>2, <2>1 DEF Timeline
  <2>3. Goto(p, "day") /\ Build(p, w)
    BY <1>2, <1>4 DEF NextDay
  <2> HIDE DEF w
  <2>4. DayIsFree(w)
    <3>1. ASSUME NEW k \in DOMAIN v.slots, Tail(v.days) # << >>
          PROVE  v.slots[k].day < Head(Tail(v.days))
      <4>1. v.slots[k] \in Slot
        BY <1>3, LenProperties, ElementOfSeq
      <4>2. v.slots[k].day \in Int /\ Head(Tail(v.days)) \in Int
        BY <2>1, <3>1, <4>1, HeadTailProperties DEF Slot
      <4>3. v.slots[k].day <= Head(v.days)
        BY <1>1, <1>2, <1>3, <4>2 DEF CursorIsFree, AreOverBy
      <4>4. Head(v.days) < Head(Tail(v.days)) /\ Head(v.days) \in Int
        BY <1>3, <2>1, <3>1
      <4>5. \A x, y, z \in Int : x <= y /\ y < z => x < z
        OBVIOUS
      <4> QED BY <4>2, <4>3, <4>4, <4>5
    <3> QED BY <2>2, <3>1 DEF DayIsFree
  <2>5. Rising(w.days) /\ SlotsAreClean(w.slots)
    BY <1>1, <1>2, <2>1, <2>2
  <2> QED BY <1>1, <2>2, <2>3, <2>4, <2>5, PlacesGoOn DEF Placing
<1>5. CASE ~NextDay(p)
  <2> DEFINE At(services) == [day |-> Head(v.days), start |-> v.cursor, services |-> services]
  <2>0. PICK services \in Picks, gap \in Gaps :
          /\ ~(BlockedUntil(At(services)) > Staff.end)
          /\ Goto(p, "slot") /\ v.left # 0
          /\ Build(p, [v EXCEPT !.slots = Append(v.slots, At(services)), !.left = v.left - 1,
                                !.cursor = BlockedUntil(At(services)) + gap])
    BY <1>2, <1>5 DEF AddSlot, AddSlotAfter
  <2>10. PICK slot : slot = At(services)
    OBVIOUS
  <2>1. /\ slot = [day |-> Head(v.days), start |-> v.cursor, services |-> services]
        /\ ~(BlockedUntil(slot) > Staff.end)
        /\ Goto(p, "slot") /\ v.left # 0
        /\ Build(p, [v EXCEPT !.slots = Append(v.slots, slot), !.left = v.left - 1,
                              !.cursor = BlockedUntil(slot) + gap])
    BY <2>0, <2>10
  <2>11. PICK more : more = Append(v.slots, slot)
    OBVIOUS
  <2> DEFINE w == [v EXCEPT !.slots = more, !.left = v.left - 1,
                            !.cursor = BlockedUntil(slot) + gap]
  <2>2. slot \in Slot
    <3>1. services \in Visit /\ v.cursor \in Int
      BY StaffIsWell DEF Timeline
    <3> QED BY <1>3, <2>1, <3>1 DEF Slot
  <2>3. BlockedUntil(slot) <= Staff.end
    BY <2>1, <2>2, TimesOfSlot, StaffIsWell
  <2>4. /\ more \in Seq(Slot) /\ SlotsAreClean(more)
        /\ BlockedUntil(slot) + gap \in Int
        /\ AreOverBy(more, Head(v.days), BlockedUntil(slot) + gap)
        /\ Staff.start <= BlockedUntil(slot) + gap
    BY <1>1, <1>2, <2>1, <2>3, <2>11, SlotAtCursor
  <2>5. v.left - 1 \in Nat
    BY <1>3, <2>1
  <2>6. /\ w \in Timeline /\ w.days = v.days /\ w.slots = more /\ w.pos = 1
        /\ w.cursor = BlockedUntil(slot) + gap
    BY <1>1, <1>2, <2>4, <2>5 DEF Timeline
  <2>7. Build(p, w)
    BY <2>1, <2>11
  <2> HIDE DEF w
  <2>8. CursorIsFree(w)
    BY <1>1, <1>2, <2>4, <2>6 DEF CursorIsFree
  <2>9. Rising(w.days) /\ SlotsAreClean(w.slots)
    BY <1>1, <1>2, <2>4, <2>6
  <2> QED BY <1>1, <2>1, <2>6, <2>7, <2>8, <2>9, PlacesGoOn DEF Placing
<1> QED BY <1>4, <1>5

LEMMA OriginsMarked ==
    ASSUME DemoInv, NEW p \in Terminals, MarkOrigins(p)
    PROVE  DemoInv'
<1>1. /\ at[p] = "day" /\ work[p] \in Timeline /\ work[p].pos = 1 /\ SlotsAreClean(work[p].slots)
      /\ (tid[p] = tenant => book = << >>) /\ at[p] \in Owning
  BY DEF MarkOrigins, DemoInv, DemoTypes, BuildsWell, Placing, Owning
<1>2. PICK v \in Timeline : v = work[p]
  BY <1>1
<1>3. PICK some \in SUBSET {k \in 1..Len(v.slots) - 1 : Past(v.slots[k])} :
        Build(p, [v EXCEPT !.origins = some])
  BY <1>2 DEF MarkOrigins
<1> DEFINE w == [v EXCEPT !.origins = some]
<1>4. Len(v.slots) \in Nat /\ some \subseteq 1..Len(v.slots) - 1 /\ some \subseteq Nat
  <2>1. v.slots \in Seq(Slot)
    BY DEF Timeline
  <2> QED BY <2>1
<1>5. w \in Timeline /\ w.slots = v.slots /\ w.pos = 1 /\ w.origins = some
  BY <1>1, <1>2, <1>4 DEF Timeline
<1>6. /\ at' = [at EXCEPT ![p] = "appointment"] /\ work' = [work EXCEPT ![p] = w]
      /\ tid' = [tid EXCEPT ![p] = tid[p]] /\ tid[p] \in 0..made
      /\ UNCHANGED <<tenant, made, book, tid>>
  BY <1>3, WorkIsTyped DEF MarkOrigins, Build, Goto, rows
<1> HIDE DEF w
<1>7. at'[p] = "appointment" /\ work'[p] = w
  BY <1>6 DEF DemoInv, DemoTypes
<1>8. BuildsWell(p)'
  <2>1. w.pos \in 1..Len(w.slots) + 1 /\ w.origins \subseteq 1..Len(w.slots) - 1
    BY <1>4, <1>5
  <2>2. SlotsAreClean(w.slots)
    BY <1>1, <1>2, <1>5
  <2>3. LastIsMine(p, w.pos - 1)'
    BY <1>1, <1>6 DEF LastIsMine
  <2> QED BY <1>7, <2>1, <2>2, <2>3 DEF BuildsWell, Early, Filling, Placing, Writing
<1> QED BY <1>1, <1>5, <1>6, <1>8, TerminalStep

-----------------------------------------------------------------------------
(* The book. *)

LEMMA OwnRange ==
    ASSUME NEW S, NEW s \in Seq(S)
    PROVE  s \in Seq(Range(s))
<1>1. s = [k \in 1..Len(s) |-> s[k]] /\ Len(s) \in Nat /\ DOMAIN s = 1..Len(s)
  BY LenProperties
<1>2. \A k \in 1..Len(s) : s[k] \in Range(s)
  BY <1>1 DEF Range
<1> HIDE DEF Range
<1> QED BY <1>1, <1>2

LEMMA BookIsTyped ==
    ASSUME DemoInv
    PROVE  /\ book \in Seq(Range(book)) /\ Len(book) \in Nat /\ DOMAIN book = 1..Len(book)
           /\ book # << >> => Len(book) \in DOMAIN book
<1>1. book \in Seq(Range(book))
  BY DEF DemoInv, DemoTypes
<1> QED BY <1>1, LenProperties, EmptySeq

LEMMA TenantIsCreated ==
    ASSUME DemoInv, NEW p \in Terminals, CreateTenant(p)
    PROVE  DemoInv'
<1>1. CASE tenant # 0
  BY <1>1, Ends DEF CreateTenant
<1>2. CASE tenant = 0
  <2>1. /\ made' = made + 1 /\ tenant' = made + 1 /\ tid' = [tid EXCEPT ![p] = made + 1]
        /\ at' = [at EXCEPT ![p] = "owner"] /\ UNCHANGED <<book, work>> /\ at[p] = "tenant"
    BY <1>2 DEF CreateTenant, Goto
  <2>2. /\ made \in Nat /\ tid \in [Terminals -> 0..made] /\ at = [q \in Terminals |-> at[q]]
        /\ work \in [Terminals -> Timeline] /\ book = << >>
    BY <1>2 DEF DemoInv, DemoTypes, TenantsAreOwn
  <2>3. /\ at'[p] = "owner" /\ tid'[p] = made + 1
        /\ \A q \in Terminals \ {p} : at'[q] = at[q] /\ tid'[q] = tid[q] /\ tid[q] # made + 1
    BY <2>1, <2>2
  <2>4. DemoTypes'
    <3>1. at' = [q \in Terminals |-> at'[q]]
      BY <2>1, <2>2
    <3>3. made' \in Nat /\ tenant' \in 0..made'
      BY <2>1, <2>2
    <3>2. tid' \in [Terminals -> 0..made']
      BY <2>1, <2>2
    <3> QED BY <2>1, <2>2, <3>1, <3>2, <3>3 DEF DemoInv, DemoTypes
  <2>5. TenantsAreOwn'
    <3>1. \A q \in Terminals : at'[q] \in Owning => tid'[q] # 0
      BY <2>2, <2>3 DEF DemoInv, TenantsAreOwn
    <3>2. ASSUME NEW q \in Terminals, NEW r \in Terminals, at'[q] \in Owning, at'[r] \in Owning, q # r
          PROVE  tid'[q] # tid'[r]
      BY <2>3, <3>2 DEF DemoInv, TenantsAreOwn
    <3>3. tenant' # 0
      BY <2>1, <2>2
    <3> QED BY <3>1, <3>2, <3>3 DEF TenantsAreOwn
  <2>6. ASSUME NEW q \in Terminals PROVE BuildsWell(q)'
    <3>1. CASE q # p
      <4>1. tid[q] # tenant' /\ at'[q] = at[q] /\ tid'[q] = tid[q] /\ work'[q] = work[q]
        BY <2>1, <2>3, <3>1
      <4> QED BY <4>1, OthersGoOn
    <3>2. CASE q = p
      <4>1. work[p] = NoWork
        BY <2>1 DEF DemoInv, BuildsWell, Early
      <4> QED BY <2>1, <2>2, <2>3, <3>2, <4>1 DEF BuildsWell, Placing, Writing
    <3> QED BY <3>1, <3>2
  <2>7. \A k \in DOMAIN book' : RowIsClean(k)'
    BY <2>1 DEF DemoInv, RowIsClean
  <2> QED BY <2>4, <2>5, <2>6, <2>7 DEF DemoInv
<1> QED BY <1>1, <1>2

(* Whoever writes to the book works on a tenant that nobody else does.      *)
LEMMA WriterIsAlone ==
    ASSUME DemoInv, NEW p \in Terminals, at[p] \in Owning, tid[p] = tenant,
           NEW place \in Owning, at' = [at EXCEPT ![p] = place],
           UNCHANGED <<tenant, made, tid>>, \A q \in Terminals \ {p} : work'[q] = work[q]
    PROVE  /\ TenantsAreOwn' /\ at' = [q \in Terminals |-> at'[q]] /\ at'[p] = place
           /\ \A q \in Terminals \ {p} : BuildsWell(q)'
<1>1. at = [q \in Terminals |-> at[q]] /\ TenantsAreOwn
  BY DEF DemoInv, DemoTypes
<1>2. /\ at' = [q \in Terminals |-> at'[q]] /\ at'[p] = place
      /\ \A q \in Terminals \ {p} : at'[q] = at[q]
  BY <1>1
<1>3. tenant # 0
  BY <1>1 DEF TenantsAreOwn
<1>4. TenantsAreOwn'
  <2>1. \A q \in Terminals : at'[q] \in Owning => at[q] \in Owning
    BY <1>2
  <2> QED BY <1>1, <1>3, <2>1 DEF TenantsAreOwn
<1>5. ASSUME NEW q \in Terminals \ {p} PROVE BuildsWell(q)'
  <2>1. at[q] \in Owning => tid[q] # tenant'
    BY <1>1, <1>5 DEF TenantsAreOwn
  <2> QED BY <1>2, <2>1, OthersGoOn
<1> QED BY <1>2, <1>4, <1>5

LEMMA AppointmentIsCreated ==
    ASSUME DemoInv, NEW p \in Terminals, CreateAppointment(p)
    PROVE  DemoInv'
<1>1. CASE \/ Refused(p, {"employee", "customer", "service"}) \/ End(p, "constraint")
  BY <1>1, Refusals, Ends
<1>2. CASE ~(Refused(p, {"employee", "customer", "service"}) \/ End(p, "constraint"))
  <2> DEFINE n == work[p].pos
             slots == work[p].slots
             slot == slots[n]
  <2>1. PICK status \in StatusOf(p, n) :
          /\ Named(p, {"employee", "customer", "service"})
          /\ IsSuccessor(p, n) => book # << >>
          /\ book' = Append(book, [slot |-> slot, status |-> status,
                                   legs |-> Legs(slot, status \in BlockingStatuses),
                                   from |-> RescheduledFrom(p, n), past |-> << >>])
          /\ Goto(p, "statusHistory")
          /\ UNCHANGED <<base, tenant, made, threads, local, ended, history>>
    BY <1>2 DEF CreateAppointment
  <2>2. PICK legs : legs = Legs(slot, status \in BlockingStatuses)
    OBVIOUS
  <2>3. PICK e : e = [slot |-> slot, status |-> status, legs |-> legs,
                      from |-> RescheduledFrom(p, n), past |-> << >>]
    OBVIOUS
  <2>4. /\ DOMAIN e = Columns /\ e.slot = slot /\ e.status = status
        /\ e.from = RescheduledFrom(p, n)
    BY <2>3 DEF Columns
  <2>5. /\ tid[p] = tenant /\ at' = [at EXCEPT ![p] = "statusHistory"] /\ book' = Append(book, e)
        /\ UNCHANGED <<tenant, made, tid, work>> /\ at[p] = "appointment" /\ n <= Len(slots)
    BY <2>1, <2>2, <2>3 DEF Named, Goto, local, CreateAppointment
  <2>6. /\ work[p] \in Timeline /\ slots \in Seq(Slot) /\ n \in 1..Len(slots) /\ Len(slots) \in Nat
        /\ SlotsAreClean(slots) /\ work[p].origins \subseteq 1..Len(slots) - 1
        /\ LastIsMine(p, n - 1)
    <3>1. work[p] \in Timeline /\ BuildsWell(p)
      BY DEF DemoInv, DemoTypes
    <3>2. slots \in Seq(Slot) /\ Len(slots) \in Nat
      BY <3>1 DEF Timeline
    <3> QED BY <2>5, <3>1, <3>2 DEF BuildsWell, Writing
  <2>7. /\ book \in Seq(Range(book)) /\ Len(book) \in Nat /\ DOMAIN book = 1..Len(book)
    BY BookIsTyped
  <2>8. /\ book' \in Seq(Range(book')) /\ Len(book') = Len(book) + 1
        /\ DOMAIN book' = 1..Len(book) + 1 /\ book'[Len(book) + 1] = e
        /\ \A k \in 1..Len(book) : book'[k] = book[k]
    <3>1. PICK R : R = Range(book) \cup {e}
      OBVIOUS
    <3>2. book \in Seq(R) /\ e \in R
      BY <2>7, <3>1, SeqMonotonic
    <3>3. /\ Append(book, e) \in Seq(R) /\ Len(Append(book, e)) = Len(book) + 1
          /\ Append(book, e)[Len(book) + 1] = e
          /\ \A k \in 1..Len(book) : Append(book, e)[k] = book[k]
      BY <2>7, <3>2
    <3> QED BY <2>5, <2>7, <3>3, OwnRange, LenProperties
  <2> HIDE DEF n, slots, slot
  <2>9. /\ TenantsAreOwn' /\ at' = [q \in Terminals |-> at'[q]] /\ at'[p] = "statusHistory"
        /\ \A q \in Terminals \ {p} : BuildsWell(q)'
    BY <2>5, WriterIsAlone DEF Owning, Writing
  <2>10. DemoTypes'
    <3>1. \A k \in DOMAIN book' : DOMAIN book'[k] = Columns
      BY <2>4, <2>7, <2>8 DEF DemoInv, DemoTypes
    <3> QED BY <2>5, <2>8, <2>9, <3>1 DEF DemoInv, DemoTypes
  <2>11. BuildsWell(p)'
    <3>1. n \in work[p].origins => status = "RESCHEDULED"
      BY DEF StatusOf
    <3>2. LastIsMine(p, n)'
      BY <2>4, <2>5, <2>6, <2>7, <2>8, <3>1 DEF LastIsMine, slot, slots, n
    <3> QED BY <2>5, <2>6, <2>9, <3>2
            DEF BuildsWell, Early, Filling, Placing, Writing, slots, n
  <2>12. ASSUME NEW k \in DOMAIN book' PROVE RowIsClean(k)'
    <3>1. CASE k \in DOMAIN book
      <4>1. RowIsClean(k) /\ book'[k] = book[k]
        BY <2>7, <2>8, <3>1 DEF DemoInv
      <4>2. k - 1 # 0 => book'[k - 1] = book[k - 1]
        BY <2>7, <2>8, <3>1
      <4> QED BY <4>1, <4>2 DEF RowIsClean
    <3>2. CASE k = Len(book) + 1
      <4>1. SlotIsClean(slot) /\ slot \in Slot
        BY <2>6, LenProperties, ElementOfSeq DEF SlotsAreClean, slot
      <4>2. e.from = 0 \/ (e.from = Len(book) /\ n - 1 \in work[p].origins /\ book # << >>)
        BY <2>1, <2>4 DEF RescheduledFrom, IsSuccessor
      <4>3. ASSUME n - 1 \in work[p].origins, book # << >>
            PROVE  /\ book[Len(book)].status = "RESCHEDULED"
                   /\ Precedes(book[Len(book)].slot, slot) /\ Len(book) \in 1..Len(book)
        <5>1. /\ book[Len(book)].slot = slots[n - 1]
              /\ book[Len(book)].status = "RESCHEDULED"
          BY <2>5, <2>6, <4>3 DEF LastIsMine, slots
        <5>2. n - 1 \in DOMAIN slots /\ n \in DOMAIN slots /\ n - 1 < n
          BY <2>6, <4>3, LenProperties
        <5>3. Precedes(slots[n - 1], slot)
          BY <2>6, <5>2 DEF SlotsAreClean, slot
        <5> QED BY <5>1, <5>3, <4>3, BookIsTyped
      <4>4. book'[k] = e /\ k - 1 = Len(book)
        BY <2>7, <2>8, <3>2
      <4>5. Len(book) \in 1..Len(book) => book'[k - 1] = book[Len(book)]
        BY <2>8, <4>4
      <4>6. SlotIsClean(book'[k].slot) /\ book'[k].slot \in Slot
        BY <2>4, <4>1, <4>4
      <4> QED BY <2>4, <4>2, <4>3, <4>4, <4>5, <4>6 DEF RowIsClean
    <3> QED BY <2>7, <2>8, <3>1, <3>2
  <2> QED BY <2>9, <2>10, <2>11, <2>12 DEF DemoInv
<1> QED BY <1>1, <1>2

LEMMA HistoryIsCreated ==
    ASSUME DemoInv, NEW p \in Terminals, CreateHistory(p)
    PROVE  DemoInv'
<1>1. CASE Refused(p, {"appointment"})
  BY <1>1, Refusals
<1>2. CASE ~Refused(p, {"appointment"})
  <2> DEFINE n == work[p].pos
  <2>1. PICK past :
          /\ book' = [book EXCEPT ![Len(book)].past = past]
          /\ tid[p] = tenant /\ book # << >> /\ at[p] = "statusHistory"
          /\ at' = [at EXCEPT ![p] = "appointment"]
          /\ work' = [work EXCEPT ![p].pos = @ + 1]
          /\ UNCHANGED <<tenant, made, tid>>
    BY <1>2 DEF CreateHistory, Named, Goto, NextPos
  <2>2. PICK v \in Timeline : v = work[p]
    BY WorkIsTyped
  <2>3. PICK w \in Timeline : w = [v EXCEPT !.pos = @ + 1]
    BY <2>2, WorkIsTyped
  <2>4. /\ v.pos \in Nat /\ w.pos = v.pos + 1 /\ w.slots = v.slots /\ w.origins = v.origins
    BY <2>3 DEF Timeline
  <2>5. /\ work \in [Terminals -> Timeline] /\ work' = [work EXCEPT ![p] = w]
    BY <2>1, <2>2, <2>3 DEF DemoInv, DemoTypes
  <2>6. /\ work' \in [Terminals -> Timeline] /\ work'[p] = w
        /\ \A q \in Terminals \ {p} : work'[q] = work[q]
    BY <2>5
  <2>7. /\ TenantsAreOwn' /\ at' = [q \in Terminals |-> at'[q]] /\ at'[p] = "appointment"
        /\ \A q \in Terminals \ {p} : BuildsWell(q)'
    BY <2>1, <2>6, WriterIsAlone DEF Owning, Writing
  <2>8. /\ book \in Seq(Range(book)) /\ Len(book) \in DOMAIN book /\ DOMAIN book = 1..Len(book)
        /\ \A k \in DOMAIN book : DOMAIN book[k] = Columns
    BY <2>1, BookIsTyped DEF DemoInv, DemoTypes
  <2>9. PICK e : e = [book[Len(book)] EXCEPT !.past = past]
    OBVIOUS
  <2>10. /\ DOMAIN e = Columns /\ e.slot = book[Len(book)].slot
         /\ e.status = book[Len(book)].status /\ e.from = book[Len(book)].from
    BY <2>8, <2>9 DEF Columns
  <2>11. book' = [book EXCEPT ![Len(book)] = e]
    BY <2>1, <2>8, <2>9
  <2>12. /\ book' \in Seq(Range(book')) /\ Len(book') = Len(book) /\ DOMAIN book' = DOMAIN book
    <3>1. PICK R : R = Range(book) \cup {e}
      OBVIOUS
    <3>2. book \in Seq(R) /\ e \in R
      BY <2>8, <3>1, SeqMonotonic
    <3>3. book' \in Seq(R) /\ Len(book') = Len(book)
      BY <2>8, <2>11, <3>2, ExceptSeq
    <3> QED BY <2>8, <3>3, OwnRange, LenProperties
  <2>13. ASSUME NEW k \in DOMAIN book
         PROVE  /\ DOMAIN book'[k] = Columns /\ book'[k].slot = book[k].slot
                /\ book'[k].status = book[k].status /\ book'[k].from = book[k].from
    <3>1. CASE k = Len(book)
      BY <2>8, <2>10, <2>11, <3>1
    <3>2. CASE k # Len(book)
      BY <2>8, <2>11, <3>2
    <3> QED BY <3>1, <3>2
  <2>14. DemoTypes'
    BY <2>1, <2>6, <2>7, <2>12, <2>13 DEF DemoInv, DemoTypes
  <2>15. BuildsWell(p)'
    <3>1. /\ SlotsAreClean(v.slots) /\ v.pos \in 1..Len(v.slots)
          /\ v.origins \subseteq 1..Len(v.slots) - 1 /\ LastIsMine(p, v.pos)
      BY <2>1, <2>2 DEF DemoInv, BuildsWell, Writing
    <3>2. v.pos + 1 \in 1..Len(v.slots) + 1 /\ w.pos - 1 = v.pos
      BY <2>4, <3>1
    <3>3. /\ book[Len(book)].slot = v.slots[v.pos] /\ v.pos > 0
          /\ v.pos \in v.origins => book[Len(book)].status = "RESCHEDULED"
      BY <2>1, <2>2, <3>1 DEF LastIsMine
    <3>4. LastIsMine(p, w.pos - 1)'
      BY <2>4, <2>6, <2>8, <2>12, <2>13, <3>2, <3>3 DEF LastIsMine
    <3> QED BY <2>4, <2>6, <2>7, <3>1, <3>2, <3>4
            DEF BuildsWell, Early, Filling, Placing, Writing
  <2>16. ASSUME NEW k \in DOMAIN book' PROVE RowIsClean(k)'
    <3>1. RowIsClean(k) /\ k \in DOMAIN book
      BY <2>12 DEF DemoInv
    <3>2. book[k].from # 0 => k - 1 \in DOMAIN book
      BY <2>8, <3>1 DEF RowIsClean
    <3> QED BY <2>13, <3>1, <3>2 DEF RowIsClean
  <2> QED BY <2>7, <2>14, <2>15, <2>16 DEF DemoInv
<1> QED BY <1>1, <1>2

(* The reset empties the book, or takes the legs of its rows away.          *)
LEMMA EmptiedBook ==
    ASSUME DemoInv, NEW ts, Emptied(ts)
    PROVE  /\ book' \in Seq(Range(book')) /\ (book = << >> => book' = << >>)
           /\ book' # << >> =>
                 /\ Len(book') = Len(book) /\ DOMAIN book' = DOMAIN book
                 /\ \A k \in DOMAIN book :
                       /\ DOMAIN book'[k] = Columns /\ book'[k].slot = book[k].slot
                       /\ book'[k].status = book[k].status /\ book'[k].from = book[k].from
<1>0. /\ book \in Seq(Range(book)) /\ DOMAIN book = 1..Len(book) /\ Len(book) \in Nat
      /\ \A k \in DOMAIN book : DOMAIN book[k] = Columns
  BY BookIsTyped DEF DemoInv, DemoTypes
<1>1. CASE "appointment" \in ts
  <2>1. book' = << >> /\ << >> \in Seq({})
    BY <1>1, EmptySeq DEF Emptied
  <2>2. << >> \in Seq(Range(<< >>))
    BY EmptySeq
  <2> QED BY <2>1, <2>2
<1>2. CASE "appointment" \notin ts /\ "appointmentService" \notin ts
  <2>1. book' = book
    BY <1>2 DEF Emptied
  <2> QED BY <1>0, <2>1
<1>3. CASE "appointment" \notin ts /\ "appointmentService" \in ts
  <2> DEFINE Bare(k) == [book[k] EXCEPT !.legs = << >>]
  <2>1. book' = [k \in DOMAIN book |-> Bare(k)]
    BY <1>3 DEF Emptied
  <2>2. \A k \in DOMAIN book :
           /\ DOMAIN Bare(k) = Columns /\ Bare(k).slot = book[k].slot
           /\ Bare(k).status = book[k].status /\ Bare(k).from = book[k].from
    BY <1>0 DEF Columns
  <2> HIDE DEF Bare
  <2>3. PICK R : R = {Bare(k) : k \in DOMAIN book}
    OBVIOUS
  <2>4. book' \in Seq(R) /\ Len(book') = Len(book) /\ DOMAIN book' = DOMAIN book
    BY <1>0, <2>1, <2>3
  <2>5. book = << >> => book' = << >>
    BY <1>0, <2>4, EmptySeq
  <2> QED BY <2>1, <2>2, <2>4, <2>5, OwnRange
<1> QED BY <1>1, <1>2, <1>3

(* A step of a reset.                                                      *)
LEMMA Removes ==
    ASSUME DemoInv, NEW p \in Terminals, NEW ts, Emptied(ts), NEW place, NEW w \in Timeline,
           at[p] = "delete", place \in {"delete", "finished"},
           at' = [at EXCEPT ![p] = place], work' = [work EXCEPT ![p] = w],
           UNCHANGED <<made, tid>>, tenant' = tenant \/ (tenant' = 0 /\ book' = << >>)
    PROVE  DemoInv'
<1>1. /\ at = [q \in Terminals |-> at[q]] /\ work \in [Terminals -> Timeline]
      /\ made \in Nat /\ tenant \in 0..made /\ tid \in [Terminals -> 0..made] /\ TenantsAreOwn
  BY DEF DemoInv, DemoTypes
<1>2. /\ at' = [q \in Terminals |-> at'[q]] /\ at'[p] = place /\ work' \in [Terminals -> Timeline]
      /\ \A q \in Terminals \ {p} : at'[q] = at[q] /\ work'[q] = work[q]
  BY <1>1
<1>3. /\ book' \in Seq(Range(book')) /\ (book = << >> => book' = << >>)
      /\ book' # << >> =>
            /\ Len(book') = Len(book) /\ DOMAIN book' = DOMAIN book
            /\ \A k \in DOMAIN book :
                  /\ DOMAIN book'[k] = Columns /\ book'[k].slot = book[k].slot
                  /\ book'[k].status = book[k].status /\ book'[k].from = book[k].from
  BY EmptiedBook
<1>4. place \notin Owning /\ place \notin Early
  BY DEF Owning, Filling, Placing, Writing, Early
<1>5. DOMAIN << >> = {}
  OBVIOUS
<1>6. DemoTypes'
  <2>1. \A k \in DOMAIN book' : DOMAIN book'[k] = Columns
    BY <1>3, <1>5
  <2>2. tenant' \in 0..made'
    BY <1>1
  <2> QED BY <1>1, <1>2, <1>3, <2>1, <2>2 DEF DemoTypes
<1>7. TenantsAreOwn'
  <2>1. \A q \in Terminals : at'[q] \in Owning => at[q] \in Owning
    BY <1>2, <1>4
  <2>2. (tenant = 0 => book = << >>)'
    BY <1>1, <1>3 DEF TenantsAreOwn
  <2> QED BY <1>1, <2>1, <2>2 DEF TenantsAreOwn
<1>8. ASSUME NEW q \in Terminals PROVE BuildsWell(q)'
  <2>1. CASE q = p
    BY <1>2, <1>4, <2>1 DEF BuildsWell, Owning, Writing
  <2>2. CASE q # p
    <3>1. BuildsWell(q) /\ at'[q] = at[q] /\ work'[q] = work[q] /\ tid'[q] = tid[q]
      BY <1>2, <2>2 DEF DemoInv
    <3>2. at[q] \in Owning => tid[q] # 0
      BY <1>1 DEF TenantsAreOwn
    <3>3. ASSUME NEW n, LastIsMine(q, n), at[q] \in Writing PROVE LastIsMine(q, n)'
      <4>1. CASE book' = << >>
        BY <4>1 DEF LastIsMine
      <4>2. CASE book' # << >>
        <5>1. Len(book') = Len(book) /\ Len(book) \in DOMAIN book /\ book # << >>
          BY <1>3, <4>2, BookIsTyped
        <5>2. book'[Len(book)].slot = book[Len(book)].slot
              /\ book'[Len(book)].status = book[Len(book)].status
          BY <1>3, <4>2, <5>1
        <5> QED BY <3>1, <3>3, <4>2, <5>1, <5>2 DEF LastIsMine
      <4> QED BY <4>1, <4>2
    <3>4. at[q] = "appointment" => LastIsMine(q, work[q].pos - 1)'
      BY <3>1, <3>3 DEF BuildsWell, Writing
    <3>5. at[q] = "statusHistory" => LastIsMine(q, work[q].pos)'
      BY <3>1, <3>3 DEF BuildsWell, Writing
    <3>6. at[q] \in Filling \cup Placing => (tid[q] = tenant => book = << >>)'
      BY <1>3, <3>1, <3>2 DEF BuildsWell, Owning
    <3> QED BY <3>1, <3>4, <3>5, <3>6 DEF BuildsWell
  <2> QED BY <2>1, <2>2
<1>9. ASSUME NEW k \in DOMAIN book' PROVE RowIsClean(k)'
  <2>1. book' # << >> /\ k \in DOMAIN book
    BY <1>3, <1>5, <1>9
  <2>2. RowIsClean(k) /\ (book[k].from # 0 => k - 1 \in DOMAIN book)
    BY <2>1, BookIsTyped DEF DemoInv, RowIsClean
  <2> QED BY <1>3, <2>1, <2>2 DEF RowIsClean
<1> QED BY <1>6, <1>7, <1>8, <1>9 DEF DemoInv

LEMMA RowsAreDeleted ==
    ASSUME DemoInv, NEW p \in Terminals, DeleteMany(p) \/ DeleteTenant(p)
    PROVE  DemoInv'
<1>1. CASE \E how : End(p, how)
  BY <1>1, Ends
<1>2. CASE DeleteMany(p) /\ ~\E how : End(p, how)
  <2>1. PICK ts : Emptied(ts)
    BY <1>2 DEF DeleteMany
  <2>2. /\ at[p] = "delete" /\ at' = [at EXCEPT ![p] = "delete"]
        /\ work' = [work EXCEPT ![p] = [work[p] EXCEPT !.pos = @ + 1]]
        /\ UNCHANGED <<made, tid, tenant>>
    BY <1>2, WorkIsTyped DEF DeleteMany, NextPos
  <2> QED BY <2>1, <2>2, WorkIsTyped, Removes
<1>3. CASE DeleteTenant(p) /\ ~\E how : End(p, how)
  <2>1. Emptied(Tables) /\ book' = << >>
    BY <1>3 DEF DeleteTenant, Emptied, Tables
  <2>2. /\ at[p] = "delete" /\ at' = [at EXCEPT ![p] = "finished"]
        /\ work' = [work EXCEPT ![p] = work[p]]
        /\ UNCHANGED <<made, tid>> /\ tenant' = 0
    BY <1>3 DEF DeleteTenant, Goto, local, DemoInv, DemoTypes
  <2> QED BY <2>1, <2>2, WorkIsTyped, Removes
<1> QED BY <1>1, <1>2, <1>3

-----------------------------------------------------------------------------
LEMMA DemoBegins == DemoInit => DemoInv
<1> SUFFICES ASSUME DemoInit PROVE DemoInv
  OBVIOUS
<1>1. /\ book = << >> /\ tenant = 0 /\ made = 0 /\ tid = [p \in Terminals |-> 0]
      /\ at = [p \in Terminals |-> "idle"] /\ work = [p \in Terminals |-> NoWork]
  BY DEF DemoInit
<1>2. NoWork \in Timeline /\ book \in Seq(Range(book)) /\ DOMAIN book = {}
  BY <1>1, EmptySeq DEF NoWork, Timeline
<1>3. DemoTypes
  BY <1>1, <1>2 DEF DemoTypes
<1>4. TenantsAreOwn
  BY <1>1 DEF TenantsAreOwn, Owning, Filling, Placing, Writing
<1>5. \A p \in Terminals : BuildsWell(p)
  BY <1>1 DEF BuildsWell, Filling, Placing, Writing
<1> QED BY <1>2, <1>3, <1>4, <1>5 DEF DemoInv

LEMMA DemoStep == DemoInv /\ [DemoNext]_demoVars => DemoInv'
<1> SUFFICES ASSUME DemoInv, [DemoNext]_demoVars PROVE DemoInv'
  OBVIOUS
<1>1. ASSUME NEW p \in Terminals, PlainStep(p) \/ SectionStep(p) \/ LoopStep(p)
      PROVE  DemoInv'
  BY <1>1, PlainStepsGoOn, SectionsGoOn, LoopStepsGoOn
<1>2. ASSUME NEW p \in Terminals,
             BeginTimeline(p) \/ BeginDay(p) \/ AddSlot(p) \/ MarkOrigins(p)
      PROVE  DemoInv'
  BY <1>2, TimelineBegins, DayBegins, SlotAdded, OriginsMarked
<1>3. ASSUME NEW p \in Terminals,
             \/ CreateTenant(p) \/ CreateAppointment(p) \/ CreateHistory(p)
             \/ DeleteMany(p) \/ DeleteTenant(p)
      PROVE  DemoInv'
  BY <1>3, TenantIsCreated, AppointmentIsCreated, HistoryIsCreated, RowsAreDeleted
<1>4. CASE RetirePlan \/ Use \/ UNCHANGED demoVars
  <2>1. UNCHANGED <<tenant, made, book, at, tid, work>>
    BY <1>4 DEF RetirePlan, Use, demoVars, rows, local
  <2> QED BY <2>1 DEF DemoInv, DemoTypes, TenantsAreOwn, BuildsWell, LastIsMine, RowIsClean
<1> QED BY <1>1, <1>2, <1>3, <1>4
        DEF DemoNext, DemoSeed, DemoReset, PlainStep, SectionStep, LoopStep

(* Whatever is interrupted, run again or run beside another script, every  *)
(* appointment that demo-seed.ts has written lies in the working hours of  *)
(* its employee and before or after the leave, or on its last day; and a   *)
(* rescheduled one has a single successor, later in the book and in time.  *)
THEOREM DemoBookIsClean == DemoSpec => []BookIsClean
<1>1. DemoInv => BookIsClean
  <2> SUFFICES ASSUME DemoInv PROVE BookIsClean
    OBVIOUS
  <2>1. ASSUME NEW k \in DOMAIN book
        PROVE  /\ Weekday(book[k].slot.day) \in Staff.days
               /\ Staff.start <= book[k].slot.start /\ BlockedUntil(book[k].slot) <= Staff.end
               /\ ~(Staff.leave[1] <= book[k].slot.day /\ book[k].slot.day < Staff.leave[2])
    BY DEF DemoInv, RowIsClean, SlotIsClean, IsOnTimeOff
  <2>2. ASSUME NEW k \in DOMAIN book, book[k].from # 0
        PROVE  /\ book[k].from < k /\ book[book[k].from].status = "RESCHEDULED"
               /\ \/ book[book[k].from].slot.day < book[k].slot.day
                  \/ EndTime(book[book[k].from].slot) <= book[k].slot.start
    <3>1. RowIsClean(k) /\ k \in Nat /\ book[k].from = k - 1
      BY <2>2, BookIsTyped DEF DemoInv, RowIsClean
    <3>2. book[k - 1].slot \in Slot
      BY <2>2, <3>1, BookIsTyped DEF DemoInv, RowIsClean
    <3>3. /\ EndTime(book[k - 1].slot) <= BlockedUntil(book[k - 1].slot)
          /\ EndTime(book[k - 1].slot) \in Int /\ BlockedUntil(book[k - 1].slot) \in Int
          /\ book[k].slot.start \in Int
      BY <3>1, <3>2, TimesOfSlot DEF RowIsClean, Slot
    <3> QED BY <2>2, <3>1, <3>3 DEF RowIsClean, Precedes
  <2>3. ASSUME NEW k \in DOMAIN book, NEW j \in DOMAIN book, book[k].from = book[j].from
        PROVE  k = j \/ book[k].from = 0
    <3>1. book[k].from \in {0, k - 1} /\ book[j].from \in {0, j - 1} /\ k \in Nat /\ j \in Nat
      BY BookIsTyped DEF DemoInv, RowIsClean
    <3> QED BY <2>3, <3>1
  <2> QED BY <2>1, <2>2, <2>3 DEF BookIsClean
<1> QED BY <1>1, DemoBegins, DemoStep, PTL DEF DemoSpec

-----------------------------------------------------------------------------
(* The demo seed and the demo reset, run alone. *)

(* A script that is alone: since it was started nobody else has run.       *)
Undisturbed(p) == at[p] # "idle" /\ ~disturbed[p]

OthersAreIdle ==
    \A p \in Terminals : Undisturbed(p) => \A q \in Terminals \ {p} : at[q] = "idle"

(* Only a tenant has rows.                                                 *)
TablesAreWell ==
    /\ table \in [Tables -> {"none", "begun", "filled"}]
    /\ tenant = 0 => threads = << >> /\ \A t \in Tables : table[t] = "none"

(* The sections of demo-seed.ts after the tenant, numbered, and the one    *)
(* that fills a table.                                                     *)
Connecting == {"subscription", "invoice", "payment", "account", "connect"}
Closing == {"prompts", "audit", "finished"}
Calling == {"conversation", "message", "touch", "keep", "told"}

Stage(place) ==
    CASE place = "owner" -> 1 [] place = "settings" -> 2 [] place = "profile" -> 3
      [] place = "hours" -> 4 [] place \in {"employee", "workingHours", "timeOff"} -> 5
      [] place = "category" -> 6 [] place = "service" -> 7 [] place = "employeeService" -> 8
      [] place = "customer" -> 9 [] place \in {"timeline"} \cup Placing \cup Writing -> 10
      [] place = "subscription" -> 11 [] place \in {"invoice", "payment"} -> 12
      [] place = "account" -> 13 [] place = "connect" -> 14 [] place \in Calling -> 15
      [] place = "prompts" -> 16 [] place = "audit" -> 17 [] place = "finished" -> 18

FilledIn(t) == IF t = "user" THEN 1 ELSE IF t = "account" THEN 14 ELSE Stage(t)

Sections == Owning \cup Connecting \cup Calling \cup {"prompts", "audit"}

Loops == {"category", "service", "customer"}

(* Inside a section that writes a row at a time.                           *)
HalfWay(place) ==
    /\ place \in Loops => table[place] # "filled"
    /\ place = "employee" => \E x \in {"none", "begun"} :
            table["employee"] = x /\ table["workingHours"] = x /\ table["timeOff"] = x
    /\ place = "workingHours" =>
         \/ table["employee"] = "begun" /\ table["workingHours"] = "none" /\ table["timeOff"] = "none"
         \/ table["employee"] = "filled" /\ table["workingHours"] = "begun" /\ table["timeOff"] = "begun"
    /\ place = "timeOff" =>
         \/ table["employee"] = "begun" /\ table["workingHours"] = "begun" /\ table["timeOff"] = "none"
         \/ table["employee"] = "filled" /\ table["workingHours"] = "filled" /\ table["timeOff"] = "begun"
    /\ place = "invoice" => \E x \in {"none", "begun"} :
            table["invoice"] = x /\ table["payment"] = x
    /\ place = "payment" =>
         \/ table["invoice"] = "begun" /\ table["payment"] = "none"
         \/ table["invoice"] = "filled" /\ table["payment"] = "begun"

SectionsAreFilled(p) ==
    /\ \A t \in Seeded :
         /\ FilledIn(t) < Stage(at[p]) => table[t] = "filled"
         /\ FilledIn(t) > Stage(at[p]) => table[t] = "none"
    /\ HalfWay(at[p])

(* The book is the first n slots of p, the first m with their history.     *)
BookIsMine(p, n, m) ==
    /\ Len(book) = n
    /\ \A k \in DOMAIN book :
         /\ book[k].slot = work[p].slots[k]
         /\ \E blocking \in BOOLEAN : book[k].legs = Legs(book[k].slot, blocking)
         /\ k <= m => book[k].past # << >>

BookIsDone == \A k \in DOMAIN book : book[k].past # << >> /\ book[k].legs # << >>

(* A thread is opened, written in, and kept.                               *)
Opened(k) ==
    /\ DOMAIN threads[k] = {"chat", "last", "inbound", "kept"}
    /\ threads[k].chat = Scenarios[Told[k]]

Written(k) ==
    LET senders == threads[k].chat.senders
    IN  /\ Opened(k)
        /\ threads[k].last = Len(senders) /\ threads[k].inbound \in 1..Len(senders)
        /\ senders[threads[k].inbound] = "c"
        /\ \A j \in threads[k].inbound + 1..Len(senders) : senders[j] # "c"

IsKept(k) == Written(k) /\ threads[k].kept # "nothing"

ThreadsAre(n, m) ==
    threads \in Seq(Range(threads)) /\ Len(threads) = n /\ \A k \in 1..m : IsKept(k)

(* The threads before the one at work are done.                            *)
ConversesWell(p) ==
    /\ at[p] \in Calling => work[p].pos \in 1..Len(Told) + 1
    /\ at[p] = "conversation" => ThreadsAre(work[p].pos - 1, work[p].pos - 1)
    /\ at[p] \in Calling \ {"conversation"} =>
         /\ work[p].pos <= Len(Told) /\ ThreadsAre(work[p].pos, work[p].pos - 1)
         /\ Opened(work[p].pos) /\ table["conversation"] # "none"
    /\ at[p] = "keep" => Written(work[p].pos)
    /\ at[p] = "told" => IsKept(work[p].pos)

SeedsAlone(p) ==
    /\ script[p] = "demo:seed" /\ tenant = tid[p] /\ tid[p] # 0
    /\ SectionsAreFilled(p)
    /\ at[p] \in Filling \cup Placing => book = << >>
    /\ at[p] = "appointment" => BookIsMine(p, work[p].pos - 1, work[p].pos - 1)
    /\ at[p] = "statusHistory" =>
         BookIsMine(p, work[p].pos, work[p].pos - 1) /\ table["appointment"] # "none"
    /\ at[p] \notin Owning => BookIsDone
    /\ at[p] \in Owning \cup Connecting => threads = << >>
    /\ at[p] \in Connecting => work[p] = NoWork
    /\ ConversesWell(p)
    /\ at[p] \in Closing => ThreadsAre(Len(Told), Len(Told))

ResetsAlone(p) ==
    /\ script[p] = "demo:reset"
    /\ at[p] = "delete" =>
         /\ tenant = tid[p] /\ tid[p] # 0 /\ work[p].pos \in 1..Len(ResetOrder) + 1
         /\ \A i \in 1..work[p].pos - 1 : table[ResetOrder[i]] = "none"
    /\ at[p] = "finished" => tenant = 0

(* How a script that ended may say it ended.                               *)
MayEnd(p, how) ==
    /\ how = "constraint" => script[p] = "demo:reset" /\ table["invitation"] # "none"
    /\ how = "exists" => tenant # 0
    /\ how = "unseeded" => ~{"roles", "plans"} \subseteq base
    /\ how = "ok" =>
         /\ script[p] \in {"seed", "demo:seed", "demo:reset"}
         /\ script[p] = "seed" => Range(BaseParts) \subseteq base
         /\ script[p] = "demo:seed" => tenant = tid[p] /\ DemoIsWhole
         /\ script[p] = "demo:reset" => tenant = 0 /\ \A t \in Tables : table[t] = "none"

Progress(p) ==
    /\ at[p] \in Sections => SeedsAlone(p)
    /\ at[p] \in {"find", "delete"} => ResetsAlone(p)
    /\ at[p] = "finished" => SeedsAlone(p) \/ ResetsAlone(p)
    /\ at[p] \in {"role", "plan", "existing", "tenant"} => script[p] = "demo:seed"
    /\ at[p] \in {"plan", "existing", "tenant"} => "roles" \in base
    /\ at[p] \in {"existing", "tenant"} => "plans" \in base
    /\ at[p] = "tenant" => tenant = 0
    /\ at[p] = "find" => work[p] = NoWork
    /\ at[p] = "base" => /\ script[p] = "seed" /\ work[p].pos \in 1..Len(BaseParts) + 1
                         /\ \A i \in 1..work[p].pos - 1 : BaseParts[i] \in base
    /\ at[p] = "ended" => MayEnd(p, ended[p])

HistoryTypes ==
    /\ script = [p \in Terminals |-> script[p]]
    /\ ended = [p \in Terminals |-> ended[p]]
    /\ disturbed \in [Terminals -> BOOLEAN]

WorkersHaveTenants == \A p \in Terminals : at[p] \in Sections \cup {"delete"} => tid[p] # 0

RepeatInv ==
    /\ DemoInv /\ HistoryTypes /\ OthersAreIdle /\ TablesAreWell /\ WorkersHaveTenants
    /\ \A p \in Terminals : Undisturbed(p) => Progress(p)

-----------------------------------------------------------------------------
(* Only the script that is alone has anything to prove. *)

(* A step of p, once it has begun: whoever is still alone afterwards is p. *)
LEMMA MyStep ==
    ASSUME RepeatInv, NEW p \in Terminals, NEW place, at' = [at EXCEPT ![p] = place],
           at[p] # "idle", UNCHANGED <<script, disturbed>>,
           DemoInv', HistoryTypes', TablesAreWell',
           \A q \in Terminals \ {p} : tid'[q] = tid[q],
           place \in Sections \cup {"delete"} => tid'[p] # 0,
           Undisturbed(p) /\ place # "idle" => Progress(p)'
    PROVE  RepeatInv'
<1>1. /\ at = [q \in Terminals |-> at[q]] /\ OthersAreIdle /\ WorkersHaveTenants
  BY DEF RepeatInv, DemoInv, DemoTypes
<1>2. at'[p] = place /\ \A q \in Terminals \ {p} : at'[q] = at[q]
  BY <1>1
<1>3. ASSUME NEW q \in Terminals, Undisturbed(q)'
      PROVE  q = p /\ Undisturbed(p) /\ place # "idle" /\ \A r \in Terminals \ {p} : at'[r] = "idle"
  <2>1. q = p
    <3>1. SUFFICES ASSUME q # p PROVE FALSE
      OBVIOUS
    <3>2. Undisturbed(q)
      BY <1>2, <1>3, <3>1 DEF Undisturbed
    <3> QED BY <1>1, <3>1, <3>2 DEF OthersAreIdle
  <2>2. Undisturbed(p)
    BY <1>3, <2>1 DEF Undisturbed
  <2> QED BY <1>1, <1>2, <1>3, <2>1, <2>2 DEF OthersAreIdle, Undisturbed
<1>4. OthersAreIdle'
  BY <1>3 DEF OthersAreIdle
<1>5. WorkersHaveTenants'
  BY <1>1, <1>2 DEF WorkersHaveTenants
<1>6. \A q \in Terminals : Undisturbed(q)' => Progress(q)'
  BY <1>3
<1> QED BY <1>4, <1>5, <1>6 DEF RepeatInv

(* Nobody is alone after a step that disturbs whoever is running.          *)
LEMMA NobodyIsAlone ==
    ASSUME RepeatInv, DemoInv', HistoryTypes', TablesAreWell', UNCHANGED <<at, tid>>,
           \A q \in Running : disturbed'[q]
    PROVE  RepeatInv'
<1>1. \A q \in Terminals : ~Undisturbed(q)'
  BY DEF Undisturbed, Running
<1>2. WorkersHaveTenants'
  BY DEF RepeatInv, WorkersHaveTenants
<1> QED BY <1>1, <1>2 DEF RepeatInv, OthersAreIdle

LEMMA ScriptEnds ==
    ASSUME RepeatInv, DemoInv', NEW p \in Terminals, NEW how, End(p, how), at[p] # "idle",
           Undisturbed(p) => MayEnd(p, how)
    PROVE  RepeatInv'
<1>1. /\ at' = [at EXCEPT ![p] = "ended"] /\ ended' = [ended EXCEPT ![p] = how]
      /\ UNCHANGED <<base, tenant, made, table, book, threads, tid, work, disturbed, script>>
  BY DEF End, Goto, rows, local, history
<1>2. HistoryTypes' /\ TablesAreWell' /\ ended'[p] = how /\ at'[p] = "ended"
  BY <1>1 DEF RepeatInv, HistoryTypes, TablesAreWell, DemoInv, DemoTypes
<1>3. MayEnd(p, how) => MayEnd(p, how)'
  BY <1>1 DEF MayEnd, DemoIsWhole
<1>4. "ended" \notin Sections \cup {"delete"}
  BY DEF Sections, Owning, Connecting, Calling, Filling, Placing, Writing
<1>5. Undisturbed(p) => Progress(p)'
  BY <1>2, <1>3, <1>4 DEF Progress
<1> QED BY <1>1, <1>2, <1>4, <1>5, MyStep

LEMMA NobodyIsRefused ==
    ASSUME RepeatInv, DemoInv', NEW p \in Terminals, NEW parents, Refused(p, parents),
           at[p] # "idle", Undisturbed(p) => Named(p, parents)
    PROVE  RepeatInv'
<1>1. Undisturbed(p) => MayEnd(p, "constraint")
  BY DEF Undisturbed, Refused
<1> QED BY <1>1, ScriptEnds DEF Refused

(* A step of p that writes at most the tables, the book and the threads.   *)
LEMMA ScriptGoesOn ==
    ASSUME RepeatInv, DemoInv', NEW p \in Terminals, NEW place, at' = [at EXCEPT ![p] = place],
           at[p] # "idle", UNCHANGED <<script, ended, disturbed>>, TablesAreWell',
           \A q \in Terminals \ {p} : tid'[q] = tid[q],
           place \in Sections \cup {"delete"} => tid'[p] # 0,
           Undisturbed(p) /\ place # "idle" => Progress(p)'
    PROVE  RepeatInv'
<1>1. HistoryTypes'
  BY DEF RepeatInv, HistoryTypes
<1> QED BY <1>1, MyStep

-----------------------------------------------------------------------------
(* Starting, leaving, and what goes on beside the scripts. *)

LEMMA ScriptStarts ==
    ASSUME RepeatInv, DemoInv', NEW p \in Terminals, NEW which, NEW first,
           Start(p, which, first),
           <<which, first>> \in {<<"seed", "base">>, <<"demo:seed", "role">>,
                                 <<"demo:reset", "find">>}
    PROVE  RepeatInv'
<1>1. /\ at[p] = "idle" /\ at' = [at EXCEPT ![p] = first]
      /\ script' = [script EXCEPT ![p] = which]
      /\ disturbed' = [q \in Terminals |-> IF q = p THEN Running # {}
                                           ELSE disturbed[q] \/ q \in Running]
      /\ UNCHANGED <<base, tenant, made, table, book, threads, tid, work, ended>>
  BY DEF Start, Goto, rows, local
<1>2. /\ at = [q \in Terminals |-> at[q]] /\ script = [q \in Terminals |-> script[q]]
      /\ ended = [q \in Terminals |-> ended[q]] /\ disturbed \in [Terminals -> BOOLEAN]
      /\ WorkersHaveTenants /\ TablesAreWell /\ work[p] = NoWork
  BY <1>1 DEF RepeatInv, HistoryTypes, DemoInv, DemoTypes, BuildsWell, Early
<1>3. /\ at'[p] = first /\ script'[p] = which
      /\ \A q \in Terminals \ {p} : at'[q] = at[q] /\ (at[q] # "idle" => disturbed'[q])
  BY <1>1, <1>2 DEF Running
<1>4. HistoryTypes' /\ TablesAreWell'
  BY <1>1, <1>2 DEF HistoryTypes, TablesAreWell
<1>5. first \in {"base", "role", "find"}
  OBVIOUS
<1>6. WorkersHaveTenants'
  <2>1. first \notin Sections \cup {"delete"}
    BY <1>5 DEF Sections, Owning, Connecting, Calling, Filling, Placing, Writing
  <2> QED BY <1>1, <1>2, <1>3, <2>1 DEF WorkersHaveTenants
<1>7. ASSUME NEW q \in Terminals, Undisturbed(q)'
      PROVE  q = p /\ Running = {}
  BY <1>1, <1>3, <1>7 DEF Undisturbed
<1>8. OthersAreIdle'
  BY <1>3, <1>7 DEF OthersAreIdle, Running
<1>9. Progress(p)'
  <2>1. first \notin Sections
    BY <1>5 DEF Sections, Owning, Connecting, Calling, Filling, Placing, Writing
  <2>2. /\ first = "base" => which = "seed"
        /\ first = "role" => which = "demo:seed"
        /\ first = "find" => which = "demo:reset"
    OBVIOUS
  <2>3. work'[p] = NoWork /\ NoWork.pos = 1 /\ 1 \in 1..Len(BaseParts) + 1
    BY <1>1, <1>2 DEF NoWork, BaseParts
  <2> QED BY <1>1, <1>3, <1>5, <2>1, <2>2, <2>3 DEF Progress, ResetsAlone
<1> QED BY <1>4, <1>6, <1>7, <1>8, <1>9 DEF RepeatInv

LEMMA ScriptLeaves ==
    ASSUME RepeatInv, DemoInv', NEW p \in Terminals, Leave(p)
    PROVE  RepeatInv'
<1>1. /\ at[p] = "ended" /\ at' = [at EXCEPT ![p] = "idle"]
      /\ ended' = [ended EXCEPT ![p] = "not"] /\ tid' = [tid EXCEPT ![p] = 0]
      /\ disturbed' = [disturbed EXCEPT ![p] = FALSE]
      /\ script' = [script EXCEPT ![p] = "none"]
      /\ UNCHANGED <<base, tenant, made, table, book, threads>>
  BY DEF Leave, Goto, rows
<1>2. /\ at = [q \in Terminals |-> at[q]] /\ tid \in [Terminals -> 0..made]
      /\ script = [q \in Terminals |-> script[q]]
      /\ ended = [q \in Terminals |-> ended[q]] /\ disturbed \in [Terminals -> BOOLEAN]
      /\ OthersAreIdle /\ WorkersHaveTenants /\ TablesAreWell
  BY DEF RepeatInv, HistoryTypes, DemoInv, DemoTypes
<1>3. /\ at'[p] = "idle"
      /\ \A q \in Terminals \ {p} :
            at'[q] = at[q] /\ tid'[q] = tid[q] /\ disturbed'[q] = disturbed[q]
  BY <1>1, <1>2
<1>4. HistoryTypes' /\ TablesAreWell'
  BY <1>1, <1>2 DEF HistoryTypes, TablesAreWell
<1>5. WorkersHaveTenants'
  <2>1. "idle" \notin Sections \cup {"delete"}
    BY DEF Sections, Owning, Connecting, Calling, Filling, Placing, Writing
  <2> QED BY <1>2, <1>3, <2>1 DEF WorkersHaveTenants
<1>6. \A q \in Terminals : ~Undisturbed(q)'
  BY <1>1, <1>2, <1>3 DEF OthersAreIdle, Undisturbed
<1> QED BY <1>4, <1>5, <1>6 DEF RepeatInv, OthersAreIdle

LEMMA OthersInterfere ==
    ASSUME RepeatInv, DemoInv', RetirePlan \/ Use
    PROVE  RepeatInv'
<1>1. /\ disturbed' = [q \in Terminals |-> disturbed[q] \/ q \in Running]
      /\ UNCHANGED <<tenant, made, book, threads, at, script, tid, work, ended>>
      /\ \/ UNCHANGED table
         \/ table["user"] # "none" /\ \E t \in Served : table' = [table EXCEPT ![t] = "begun"]
  BY DEF RetirePlan, Use, local
<1>2. HistoryTypes'
  BY <1>1 DEF RepeatInv, HistoryTypes
<1>3. TablesAreWell'
  BY <1>1 DEF RepeatInv, TablesAreWell, Tables
<1>4. \A q \in Running : disturbed'[q]
  BY <1>1 DEF Running
<1> QED BY <1>1, <1>2, <1>3, <1>4, NobodyIsAlone

-----------------------------------------------------------------------------
(* seed.ts, and what demo-seed.ts asks first. *)

LEMMA BasePartIsSeeded ==
    ASSUME RepeatInv, DemoInv', NEW p \in Terminals, SeedBase(p)
    PROVE  RepeatInv'
<1>1. at[p] = "base" /\ at[p] # "idle" /\ at = [q \in Terminals |-> at[q]]
  BY DEF SeedBase, RepeatInv, DemoInv, DemoTypes
<1>2. ASSUME Undisturbed(p)
      PROVE  /\ script[p] = "seed" /\ work[p].pos \in 1..Len(BaseParts) + 1
             /\ \A i \in 1..work[p].pos - 1 : BaseParts[i] \in base
  BY <1>1, <1>2 DEF RepeatInv, Progress
<1>3. Len(BaseParts) = 4
  BY DEF BaseParts
<1>4. CASE work[p].pos > Len(BaseParts)
  <2>1. ASSUME Undisturbed(p) PROVE MayEnd(p, "ok")
    <3>1. \A i \in 1..4 : BaseParts[i] \in base
      BY <1>2, <1>3, <1>4, <2>1
    <3>2. Range(BaseParts) \subseteq base
      BY <3>1 DEF BaseParts, Range
    <3> QED BY <1>2, <2>1, <3>2 DEF MayEnd
  <2> QED BY <1>1, <1>4, <2>1, ScriptEnds DEF SeedBase
<1>5. CASE ~(work[p].pos > Len(BaseParts))
  <2>1. /\ base' = base \cup {BaseParts[work[p].pos]}
        /\ work' = [work EXCEPT ![p].pos = @ + 1]
        /\ UNCHANGED <<tenant, table, threads, at, tid, script, ended, disturbed>>
    BY <1>5 DEF SeedBase, NextPos, history
  <2>2. TablesAreWell' /\ at' = [at EXCEPT ![p] = "base"]
    BY <1>1, <2>1 DEF RepeatInv, TablesAreWell
  <2>3. "base" \notin Sections \cup {"delete"}
    BY DEF Sections, Owning, Connecting, Calling, Filling, Placing, Writing
  <2>4. ASSUME Undisturbed(p) PROVE Progress(p)'
    <3>1. PICK v \in Timeline : v = work[p]
      BY WorkIsTyped DEF RepeatInv
    <3>2. work'[p].pos = v.pos + 1 /\ v.pos \in Nat
      BY <2>1, <3>1 DEF RepeatInv, DemoInv, DemoTypes, Timeline
    <3>3. /\ work'[p].pos \in 1..Len(BaseParts) + 1
          /\ \A i \in 1..work'[p].pos - 1 : BaseParts[i] \in base'
      BY <1>2, <1>3, <1>5, <2>1, <2>4, <3>1, <3>2
    <3> QED BY <1>1, <1>2, <2>1, <2>3, <2>4, <3>3 DEF Progress
  <2> QED BY <1>1, <2>1, <2>2, <2>3, <2>4, ScriptGoesOn
<1> QED BY <1>4, <1>5

(* The three questions, and a script that was interrupted.                 *)
LEMMA SeedAsks ==
    ASSUME RepeatInv, DemoInv', NEW p \in Terminals,
           FindRole(p) \/ FindPlan(p) \/ FindTenant(p) \/ Interrupt(p)
    PROVE  RepeatInv'
<1>1. /\ at[p] # "idle" /\ at = [q \in Terminals |-> at[q]]
      /\ Undisturbed(p) => Progress(p)
  BY DEF FindRole, FindPlan, FindTenant, Interrupt, RepeatInv, DemoInv, DemoTypes
<1>2. ASSUME NEW how \in {"unseeded", "exists", "interrupted"}, End(p, how),
             how = "unseeded" => "roles" \notin base \/ "plans" \notin base,
             how = "exists" => tenant # 0
      PROVE  RepeatInv'
  <2>1. MayEnd(p, how)
    BY <1>2 DEF MayEnd
  <2> QED BY <1>1, <1>2, <2>1, ScriptEnds
<1>3. ASSUME NEW place \in {"plan", "existing", "tenant"}, Goto(p, place),
             UNCHANGED <<rows, local, ended, history>>,
             at[p] \in {"role", "plan", "existing"},
             "roles" \in base \/ at[p] # "role",
             place \in {"existing", "tenant"} =>
                at[p] = "existing" \/ ("plans" \in base /\ at[p] # "role"),
             place = "tenant" => tenant = 0 /\ at[p] = "existing"
      PROVE  RepeatInv'
  <2>1. /\ at' = [at EXCEPT ![p] = place]
        /\ UNCHANGED <<base, tenant, table, threads, tid, script, ended, disturbed>>
    BY <1>3 DEF Goto, rows, local, history
  <2>2. TablesAreWell' /\ at'[p] = place
    BY <1>1, <2>1 DEF RepeatInv, TablesAreWell
  <2>3. place \notin Sections \cup {"delete"}
    BY <1>3 DEF Sections, Owning, Connecting, Calling, Filling, Placing, Writing
  <2>4. Undisturbed(p) => Progress(p)'
    BY <1>1, <1>3, <2>1, <2>2, <2>3 DEF Progress
  <2> QED BY <1>1, <2>1, <2>2, <2>3, <2>4, ScriptGoesOn
<1>4. CASE FindRole(p)
  BY <1>2, <1>3, <1>4 DEF FindRole
<1>5. CASE FindPlan(p)
  BY <1>2, <1>3, <1>5 DEF FindPlan
<1>6. CASE FindTenant(p)
  BY <1>2, <1>3, <1>6 DEF FindTenant
<1>7. CASE Interrupt(p)
  BY <1>2, <1>7 DEF Interrupt
<1> QED BY <1>4, <1>5, <1>6, <1>7

-----------------------------------------------------------------------------
(* demo-reset.ts *)

(* What may hold back the rows of a table was deleted before them, but for *)
(* an invitation.                                                          *)
LEMMA ResetsInOrder ==
    /\ Len(ResetOrder) = 24
    /\ \A i \in 1..24 : ResetOrder[i] \in Tables
    /\ \A i \in 1..24 : \A other \in Tables :
          other \in Restricts[ResetOrder[i]] =>
             other = "invitation" \/ \E j \in 1..i - 1 : ResetOrder[j] = other
    /\ \A t \in Tables : \A other \in Restricts[t] :
          other = "invitation" \/ \E j \in 1..24 : ResetOrder[j] = other
    /\ ResetOrder[24] = "user"
<1>1. Len(ResetOrder) = 24 /\ \A i \in 1..24 : ResetOrder[i] \in Tables
  BY DEF ResetOrder, Tables
<1>2. /\ ResetOrder[1] = "appointmentService" /\ ResetOrder[3] = "appointment"
      /\ ResetOrder[7] = "conversation" /\ ResetOrder[24] = "user"
  BY DEF ResetOrder
<1>3. ASSUME NEW t \in Tables, NEW other \in Restricts[t]
      PROVE  \/ t = "user" /\ other = "invitation"
             \/ t = "employee" /\ other \in {"appointment", "appointmentService"}
             \/ t = "service" /\ other = "appointmentService"
             \/ t = "customer" /\ other \in {"appointment", "conversation"}
             \/ t = "account" /\ other = "conversation"
  BY <1>3 DEF Restricts
<1>4. ASSUME NEW i \in 1..24
      PROVE  /\ ResetOrder[i] \in {"employee", "service"} => i > 3
             /\ ResetOrder[i] \in {"customer", "account"} => i > 7
  BY DEF ResetOrder
<1>5. ASSUME NEW i \in 1..24, NEW other \in Tables, other \in Restricts[ResetOrder[i]]
      PROVE  other = "invitation" \/ \E j \in 1..i - 1 : ResetOrder[j] = other
  <2>1. \/ other = "invitation"
        \/ other \in {"appointment", "appointmentService"} /\ i > 3
        \/ other \in {"appointment", "conversation"} /\ i > 7
    BY <1>1, <1>3, <1>4, <1>5
  <2>2. i > 3 => 1 \in 1..i - 1 /\ 3 \in 1..i - 1
    OBVIOUS
  <2>3. i > 7 => 3 \in 1..i - 1 /\ 7 \in 1..i - 1
    OBVIOUS
  <2> QED BY <1>2, <2>1, <2>2, <2>3
<1> QED BY <1>1, <1>2, <1>3, <1>5

LEMMA ResetFinds ==
    ASSUME RepeatInv, DemoInv', NEW p \in Terminals, FindDemoTenant(p)
    PROVE  RepeatInv'
<1>1. at[p] = "find" /\ at[p] # "idle" /\ at = [q \in Terminals |-> at[q]]
  BY DEF FindDemoTenant, RepeatInv, DemoInv, DemoTypes
<1>2. ASSUME Undisturbed(p) PROVE script[p] = "demo:reset" /\ work[p] = NoWork
  BY <1>1, <1>2 DEF RepeatInv, Progress, ResetsAlone
<1>3. CASE tenant = 0
  <2>1. \A t \in Tables : table[t] = "none"
    BY <1>3 DEF RepeatInv, TablesAreWell
  <2>2. Undisturbed(p) => MayEnd(p, "ok")
    BY <1>2, <1>3, <2>1 DEF MayEnd
  <2> QED BY <1>1, <1>3, <2>2, ScriptEnds DEF FindDemoTenant
<1>4. CASE tenant # 0
  <2>1. /\ at' = [at EXCEPT ![p] = "delete"] /\ tid' = [tid EXCEPT ![p] = tenant]
        /\ UNCHANGED <<tenant, table, threads, work, script, ended, disturbed>>
    BY <1>4 DEF FindDemoTenant, Goto, rows, history
  <2>2. TablesAreWell' /\ at'[p] = "delete"
    BY <1>1, <2>1 DEF RepeatInv, TablesAreWell
  <2>3. tid'[p] = tenant /\ \A q \in Terminals \ {p} : tid'[q] = tid[q]
    BY <2>1 DEF RepeatInv, DemoInv, DemoTypes
  <2>4. ASSUME Undisturbed(p) PROVE Progress(p)'
    <3>1. "delete" \notin Sections
      BY DEF Sections, Owning, Connecting, Calling, Filling, Placing, Writing
    <3>2. NoWork.pos = 1 /\ 1 \in 1..Len(ResetOrder) + 1
      BY ResetsInOrder DEF NoWork
    <3>3. ResetsAlone(p)'
      BY <1>2, <1>4, <2>1, <2>2, <2>3, <2>4, <3>2 DEF ResetsAlone
    <3> QED BY <2>2, <3>1, <3>3 DEF Progress
  <2> QED BY <1>1, <1>4, <2>1, <2>2, <2>3, <2>4, ScriptGoesOn
<1> QED BY <1>3, <1>4

(* A table that is emptied is empty, the others are what they were.         *)
LEMMA EmptiedTables ==
    ASSUME TablesAreWell, NEW ts, Emptied(ts), tenant' = tenant \/ ts = Tables
    PROVE  /\ TablesAreWell'
           /\ \A t \in Tables : table'[t] = IF t \in ts THEN "none" ELSE table[t]
<1>1. /\ table' = [t \in Tables |-> IF t \in ts THEN "none" ELSE table[t]]
      /\ threads' = IF "conversation" \in ts THEN << >> ELSE threads
  BY DEF Emptied
<1>2. ts = Tables => threads' = << >> /\ \A t \in Tables : table'[t] = "none"
  BY <1>1 DEF Tables
<1> QED BY <1>1, <1>2 DEF TablesAreWell

LEMMA ResetDeletes ==
    ASSUME RepeatInv, DemoInv', NEW p \in Terminals, DeleteMany(p)
    PROVE  RepeatInv'
<1> DEFINE n == work[p].pos
           t == ResetOrder[n]
<1>1. at[p] = "delete" /\ at[p] # "idle" /\ at = [q \in Terminals |-> at[q]] /\ n <= 24
  BY ResetsInOrder DEF DeleteMany, RepeatInv, DemoInv, DemoTypes
<1>2. ASSUME Undisturbed(p)
      PROVE  /\ script[p] = "demo:reset" /\ tenant = tid[p] /\ tid[p] # 0 /\ n \in 1..24
             /\ \A i \in 1..n - 1 : table[ResetOrder[i]] = "none"
  <2>1. ResetsAlone(p)
    BY <1>1, <1>2 DEF RepeatInv, Progress
  <2> QED BY <1>1, <2>1, ResetsInOrder DEF ResetsAlone
<1>3. CASE tid[p] = tenant /\ Held(t)
  <2>1. ASSUME Undisturbed(p) PROVE MayEnd(p, "constraint")
    <3>1. PICK other \in Restricts[t] : table[other] # "none"
      BY <1>3 DEF Held
    <3>2. n \in 1..24 /\ t \in Tables
      BY <1>2, <2>1, ResetsInOrder
    <3>3. other \in Tables
      BY <3>2 DEF Restricts, Tables
    <3>4. other = "invitation"
      BY <1>2, <2>1, <3>1, <3>2, <3>3, ResetsInOrder
    <3> QED BY <1>2, <2>1, <3>1, <3>4 DEF MayEnd
  <2>2. End(p, "constraint")
    BY <1>3 DEF DeleteMany
  <2> QED BY <1>1, <2>1, <2>2, ScriptEnds
<1>4. CASE ~(tid[p] = tenant /\ Held(t))
  <2>1. PICK ts : /\ Emptied(ts) /\ (tid[p] = tenant => t \in ts)
                  /\ work' = [work EXCEPT ![p].pos = @ + 1]
                  /\ UNCHANGED <<tenant, at, tid, script, ended, disturbed>>
    BY <1>4 DEF DeleteMany, NextPos, history
  <2>2. /\ TablesAreWell'
        /\ \A x \in Tables : table'[x] = IF x \in ts THEN "none" ELSE table[x]
    BY <2>1, EmptiedTables DEF RepeatInv
  <2>3. at' = [at EXCEPT ![p] = "delete"] /\ at'[p] = "delete" /\ tid'[p] # 0
    BY <1>1, <2>1 DEF RepeatInv, WorkersHaveTenants
  <2>4. ASSUME Undisturbed(p) PROVE Progress(p)'
    <3>1. "delete" \notin Sections
      BY DEF Sections, Owning, Connecting, Calling, Filling, Placing, Writing
    <3>2. PICK v \in Timeline : v = work[p]
      BY WorkIsTyped DEF RepeatInv
    <3>3. work'[p].pos = n + 1 /\ n \in 1..24
      BY <1>2, <2>1, <2>4, <3>2 DEF RepeatInv, DemoInv, DemoTypes, Timeline
    <3>4. ASSUME NEW i \in 1..n PROVE table'[ResetOrder[i]] = "none"
      <4>1. ResetOrder[i] \in Tables
        BY <3>3, <3>4, ResetsInOrder
      <4>2. i = n \/ i \in 1..n - 1
        BY <3>3, <3>4
      <4> QED BY <1>2, <2>1, <2>2, <2>4, <4>1, <4>2
    <3>5. ResetsAlone(p)'
      BY <1>2, <2>1, <2>3, <2>4, <3>3, <3>4, ResetsInOrder DEF ResetsAlone
    <3> QED BY <2>3, <3>1, <3>5 DEF Progress
  <2> QED BY <1>1, <2>1, <2>2, <2>3, <2>4, ScriptGoesOn
<1> QED BY <1>3, <1>4

LEMMA ResetEnds ==
    ASSUME RepeatInv, DemoInv', NEW p \in Terminals, DeleteTenant(p)
    PROVE  RepeatInv'
<1>1. at[p] = "delete" /\ at[p] # "idle" /\ work[p].pos > 24 /\ at = [q \in Terminals |-> at[q]]
  BY ResetsInOrder DEF DeleteTenant, RepeatInv, DemoInv, DemoTypes
<1>2. ASSUME Undisturbed(p)
      PROVE  /\ script[p] = "demo:reset" /\ tenant = tid[p]
             /\ \A i \in 1..24 : table[ResetOrder[i]] = "none"
  <2>1. ResetsAlone(p)
    BY <1>1, <1>2 DEF RepeatInv, Progress
  <2>2. work[p].pos = 25
    BY <1>1, <2>1, ResetsInOrder DEF ResetsAlone
  <2> QED BY <1>1, <2>1, <2>2 DEF ResetsAlone
<1>3. CASE /\ tid[p] # tenant \/ \E t \in Tables : Held(t) \/ table["user"] # "none"
           /\ End(p, "constraint")
  <2>1. ASSUME Undisturbed(p) PROVE MayEnd(p, "constraint")
    <3>1. table["user"] = "none"
      BY <1>2, <2>1, ResetsInOrder
    <3>2. PICK t \in Tables : \E other \in Restricts[t] : table[other] # "none"
      BY <1>2, <1>3, <2>1, <3>1 DEF Held
    <3>3. PICK other \in Restricts[t] : table[other] # "none"
      BY <3>2
    <3>4. other = "invitation"
      BY <1>2, <2>1, <3>3, ResetsInOrder
    <3> QED BY <1>2, <2>1, <3>3, <3>4 DEF MayEnd
  <2> QED BY <1>1, <1>3, <2>1, ScriptEnds
<1>4. CASE /\ tid[p] = tenant /\ tenant' = 0 /\ Emptied(Tables) /\ Goto(p, "finished")
           /\ UNCHANGED <<base, made, local, ended, history>>
  <2>1. /\ at' = [at EXCEPT ![p] = "finished"] /\ at'[p] = "finished"
        /\ UNCHANGED <<tid, script, ended, disturbed>>
    BY <1>1, <1>4 DEF Goto, local, history
  <2>2. TablesAreWell'
    BY <1>4, EmptiedTables DEF RepeatInv
  <2>3. "finished" \notin Sections
    BY DEF Sections, Owning, Connecting, Calling, Filling, Placing, Writing
  <2>4. ASSUME Undisturbed(p) PROVE Progress(p)'
    BY <1>2, <1>4, <2>1, <2>3, <2>4 DEF Progress, ResetsAlone
  <2> QED BY <1>1, <2>1, <2>2, <2>3, <2>4, ScriptGoesOn
<1> QED BY <1>3, <1>4 DEF DeleteTenant

-----------------------------------------------------------------------------
(* demo-seed.ts, section by section *)

LEMMA StagesAre ==
    /\ Stage("owner") = 1 /\ Stage("settings") = 2 /\ Stage("profile") = 3
    /\ Stage("hours") = 4 /\ Stage("employee") = 5 /\ Stage("workingHours") = 5
    /\ Stage("timeOff") = 5 /\ Stage("category") = 6 /\ Stage("service") = 7
    /\ Stage("employeeService") = 8 /\ Stage("customer") = 9 /\ Stage("timeline") = 10
    /\ Stage("day") = 10 /\ Stage("slot") = 10 /\ Stage("appointment") = 10
    /\ Stage("statusHistory") = 10 /\ Stage("subscription") = 11 /\ Stage("invoice") = 12
    /\ Stage("payment") = 12 /\ Stage("account") = 13 /\ Stage("connect") = 14
    /\ \A place \in Calling : Stage(place) = 15
    /\ Stage("prompts") = 16 /\ Stage("audit") = 17 /\ Stage("finished") = 18
BY DEF Stage, Placing, Writing, Calling

LEMMA FilledAre ==
    ASSUME NEW t \in Seeded
    PROVE  /\ t \in Tables /\ FilledIn(t) \in 1..17 /\ FilledIn(t) \notin {10, 13, 15, 16}
           /\ FilledIn(t) = 1 <=> t = "user"
           /\ FilledIn(t) = 2 <=> t = "settings"
           /\ FilledIn(t) = 3 <=> t = "profile"
           /\ FilledIn(t) = 4 <=> t = "hours"
           /\ FilledIn(t) = 5 <=> t \in {"employee", "workingHours", "timeOff"}
           /\ FilledIn(t) = 6 <=> t = "category"
           /\ FilledIn(t) = 7 <=> t = "service"
           /\ FilledIn(t) = 8 <=> t = "employeeService"
           /\ FilledIn(t) = 9 <=> t = "customer"
           /\ FilledIn(t) = 11 <=> t = "subscription"
           /\ FilledIn(t) = 12 <=> t \in {"invoice", "payment"}
           /\ FilledIn(t) = 14 <=> t = "account"
           /\ FilledIn(t) = 17 <=> t = "audit"
<1>1. t \in {"user", "settings", "profile", "hours", "employee", "workingHours", "timeOff",
             "category", "service", "employeeService", "customer", "subscription", "invoice",
             "payment", "account", "audit"}
  BY DEF Seeded, Tables
<1>2. t \in Tables
  BY DEF Seeded
<1> QED BY <1>1, <1>2, StagesAre DEF FilledIn

LEMMA SeededTables ==
    {"user", "settings", "profile", "hours", "employee", "workingHours", "timeOff", "category",
     "service", "employeeService", "customer", "subscription", "invoice", "payment", "account",
     "audit"} \subseteq Seeded
BY DEF Seeded, Tables

(* From one section to the next, when the table of the first is full.      *)
LEMMA StageIsDone ==
    ASSUME TablesAreWell, NEW p \in Terminals, SectionsAreFilled(p), NEW next, at'[p] = next,
           Stage(at[p]) \in Nat, Stage(next) = Stage(at[p]) + 1,
           next \notin {"workingHours", "timeOff", "payment"},
           \A u \in Seeded : table'[u] = IF FilledIn(u) = Stage(at[p]) THEN "filled" ELSE table[u]
    PROVE  SectionsAreFilled(p)'
<1>1. ASSUME NEW u \in Seeded
      PROVE  /\ FilledIn(u) < Stage(next) => table'[u] = "filled"
             /\ FilledIn(u) > Stage(next) => table'[u] = "none"
             /\ FilledIn(u) = Stage(next) => table'[u] = "none"
  <2>1. FilledIn(u) \in Int
    BY FilledAre
  <2> QED BY <2>1 DEF SectionsAreFilled
<1>2. HalfWay(next)'
  <2>1. \A u \in Seeded : FilledIn(u) = Stage(next) => table'[u] = "none"
    BY <1>1
  <2>2. /\ FilledIn("category") = 6 /\ FilledIn("service") = 7 /\ FilledIn("customer") = 9
        /\ FilledIn("employee") = 5 /\ FilledIn("workingHours") = 5 /\ FilledIn("timeOff") = 5
        /\ FilledIn("invoice") = 12 /\ FilledIn("payment") = 12
    BY SeededTables, FilledAre
  <2> QED BY <2>1, <2>2, StagesAre, SeededTables DEF HalfWay, Loops
<1> QED BY <1>1, <1>2 DEF SectionsAreFilled

(* From one statement of a section to another.                             *)
LEMMA StageGoesOn ==
    ASSUME NEW p \in Terminals, SectionsAreFilled(p), NEW place, at'[p] = place,
           Stage(place) = Stage(at[p]), Stage(at[p]) \in Nat, HalfWay(place)',
           \A u \in Seeded : FilledIn(u) # Stage(at[p]) => table'[u] = table[u]
    PROVE  SectionsAreFilled(p)'
<1>1. \A u \in Seeded : FilledIn(u) \in Int
  BY FilledAre
<1> QED BY <1>1 DEF SectionsAreFilled

(* A row of t, written for a tenant that is there.                          *)
LEMMA WritesAreWell ==
    ASSUME TablesAreWell, tenant # 0, tenant' = tenant, NEW t, NEW level \in {"begun", "filled"},
           table' = [table EXCEPT ![t] = level]
    PROVE  /\ TablesAreWell'
           /\ \A u \in Tables : table'[u] = IF u = t THEN level ELSE table[u]
BY DEF TablesAreWell

LEMMA GrowsBy == \A t : Grow(t) \in {"begun", "filled"}
BY DEF Grow

(* Where neither the book nor the threads are written.                     *)
SameGround(here, place) ==
    \/ here \in Filling /\ place \in Filling
    \/ here \in Connecting /\ place \in Connecting
    \/ here \in Closing /\ place \in Closing /\ here # "finished"
    \/ here = "connect" /\ place = "conversation"

LEMMA SectionGoesOn ==
    ASSUME RepeatInv, DemoInv', NEW p \in Terminals, NEW place, SameGround(at[p], place),
           at' = [at EXCEPT ![p] = place], TablesAreWell',
           UNCHANGED <<tenant, book, threads, tid, work, script, ended, disturbed>>,
           Undisturbed(p) /\ SectionsAreFilled(p) => SectionsAreFilled(p)'
    PROVE  RepeatInv'
<1> USE DEF Sections, Owning, Filling, Placing, Writing, Connecting, Calling, Closing
<1>1. at[p] \in Sections /\ at[p] # "idle" /\ at'[p] = place /\ tid[p] # 0
  BY DEF SameGround, RepeatInv, DemoInv, DemoTypes, WorkersHaveTenants
<1>2. ASSUME Undisturbed(p) PROVE SeedsAlone(p)'
  <2>1. SeedsAlone(p)
    BY <1>1, <1>2 DEF RepeatInv, Progress
  <2>2. SectionsAreFilled(p)'
    BY <1>2, <2>1 DEF SeedsAlone
  <2>3. place \notin Writing \cup Placing \cup {"message", "touch", "keep", "told"}
    BY DEF SameGround
  <2>4. /\ place \in Filling \cup Placing => book' = << >>
        /\ place \notin Owning => BookIsDone'
        /\ place \in Owning \cup Connecting => threads' = << >>
        /\ place \in Connecting => work'[p] = NoWork
        /\ place \in Closing => ThreadsAre(Len(Told), Len(Told))'
    BY <2>1 DEF SeedsAlone, SameGround, BookIsDone, ThreadsAre, IsKept, Written, Opened
  <2>5. ASSUME place = "conversation"
        PROVE  work'[p].pos = 1 /\ work'[p].pos \in 1..Len(Told) + 1 /\ ThreadsAre(0, 0)'
    <3>1. threads' = << >> /\ work'[p] = NoWork
      BY <2>1, <2>5 DEF SeedsAlone, SameGround
    <3>2. Len(Told) \in Nat
      BY DemoAssumption, LenProperties
    <3> QED BY <3>1, <3>2, EmptySeq DEF ThreadsAre, NoWork
  <2>6. script'[p] = "demo:seed" /\ tenant' = tid'[p] /\ tid'[p] # 0
    BY <2>1 DEF SeedsAlone
  <2>7. place \in Calling => place = "conversation"
    BY <2>3
  <2>8. place = "conversation" => work'[p].pos - 1 = 0
    BY <2>5
  <2> QED BY <1>1, <2>2, <2>3, <2>4, <2>5, <2>6, <2>7, <2>8 DEF SeedsAlone, ConversesWell
<1>3. Undisturbed(p) => Progress(p)'
  <2>1. place \in Sections \cup {"finished"}
    BY DEF SameGround
  <2>2. place \notin {"find", "delete", "role", "plan", "existing", "tenant", "base", "ended"}
    BY <2>1
  <2> QED BY <1>1, <1>2, <2>1, <2>2 DEF Progress
<1>4. \A q \in Terminals \ {p} : tid'[q] = tid[q]
  OBVIOUS
<1> QED BY <1>1, <1>3, <1>4, ScriptGoesOn

LEMMA NamedRows ==
    ASSUME RepeatInv, NEW p \in Terminals, at[p] \in Sections, Undisturbed(p),
           NEW parents, \A u \in parents : table[u] # "none"
    PROVE  Named(p, parents)
BY DEF RepeatInv, Progress, SeedsAlone, Named

LEMMA SectionIsFilledAtOnce ==
    ASSUME RepeatInv, DemoInv', NEW p \in Terminals, NEW here, NEW t \in Seeded,
           NEW parents \in SUBSET {u \in Seeded : FilledIn(u) < Stage(here)}, NEW next,
           FillAtOnce(p, here, t, parents, next), SameGround(here, next),
           Stage(here) \in Nat, Stage(next) = Stage(here) + 1,
           next \notin {"workingHours", "timeOff", "payment"},
           \A u \in Seeded : FilledIn(u) = Stage(here) <=> u = t
    PROVE  RepeatInv'
<1>1. at[p] = here /\ at[p] \in Sections /\ at[p] # "idle"
  BY DEF FillAtOnce, SameGround, Sections, Owning, Filling, Placing, Writing, Connecting, Closing
<1>2. ASSUME Undisturbed(p) PROVE SectionsAreFilled(p) /\ Named(p, parents)
  <2>1. SectionsAreFilled(p)
    BY <1>1, <1>2 DEF RepeatInv, Progress, SeedsAlone
  <2>2. \A u \in parents : table[u] # "none"
    BY <1>1, <2>1 DEF SectionsAreFilled
  <2> QED BY <1>1, <1>2, <2>1, <2>2, NamedRows
<1>3. CASE Refused(p, parents)
  BY <1>1, <1>2, <1>3, NobodyIsRefused
<1>4. CASE ~Refused(p, parents)
  <2>1. /\ tid[p] = tenant /\ table' = [table EXCEPT ![t] = "filled"]
        /\ at' = [at EXCEPT ![p] = next]
        /\ UNCHANGED <<tenant, book, threads, tid, work, script, ended, disturbed>>
    BY <1>4 DEF FillAtOnce, Named, Goto, local, history
  <2>2. tenant # 0
    BY <1>1, <2>1 DEF RepeatInv, WorkersHaveTenants
  <2>3. /\ TablesAreWell'
        /\ \A u \in Tables : table'[u] = IF u = t THEN "filled" ELSE table[u]
    BY <2>1, <2>2, WritesAreWell DEF RepeatInv
  <2>4. at'[p] = next
    BY <2>1 DEF RepeatInv, DemoInv, DemoTypes
  <2>5. \A u \in Seeded :
           table'[u] = IF FilledIn(u) = Stage(at[p]) THEN "filled" ELSE table[u]
    BY <1>1, <2>3, FilledAre
  <2>6. SectionsAreFilled(p) => SectionsAreFilled(p)'
    BY <1>1, <2>4, <2>5, StageIsDone DEF RepeatInv
  <2> QED BY <1>1, <2>1, <2>3, <2>6, SectionGoesOn
<1> QED BY <1>3, <1>4

(* One of several rows: the table is begun, or done, and what was done      *)
(* before stays so.                                                        *)
LEMMA RowIsFilled ==
    ASSUME RepeatInv, DemoInv', NEW p \in Terminals, NEW here, NEW t,
           NEW parents, NEW again, NEW next, Fill(p, here, t, parents, again, next),
           SameGround(here, again), SameGround(here, next),
           Undisturbed(p) => \A u \in parents : table[u] # "none",
           Undisturbed(p) /\ SectionsAreFilled(p) /\ tid[p] = tenant
              /\ at'[p] = (IF Grow(t) = "begun" THEN again ELSE next)
              /\ TablesAreWell'
              /\ (\A u \in Tables : table'[u] = IF u = t THEN Grow(t) ELSE table[u])
           => SectionsAreFilled(p)'
    PROVE  RepeatInv'
<1>1. at[p] = here /\ at[p] \in Sections /\ at[p] # "idle"
  BY DEF Fill, SameGround, Sections, Owning, Filling, Placing, Writing, Connecting, Closing
<1>2. Undisturbed(p) => Named(p, parents)
  BY <1>1, NamedRows
<1>3. CASE Refused(p, parents)
  BY <1>1, <1>2, <1>3, NobodyIsRefused
<1>4. CASE ~Refused(p, parents)
  <2>1. PICK place \in {again, next} :
           /\ place = (IF Grow(t) = "begun" THEN again ELSE next)
           /\ tid[p] = tenant /\ table' = [table EXCEPT ![t] = Grow(t)]
           /\ at' = [at EXCEPT ![p] = place]
           /\ UNCHANGED <<tenant, book, threads, tid, work, script, ended, disturbed>>
    BY <1>4 DEF Fill, Named, Goto, local, history
  <2>2. tenant # 0
    BY <1>1, <2>1 DEF RepeatInv, WorkersHaveTenants
  <2>3. /\ TablesAreWell'
        /\ \A u \in Tables : table'[u] = IF u = t THEN Grow(t) ELSE table[u]
    BY <2>1, <2>2, WritesAreWell, GrowsBy DEF RepeatInv
  <2>4. at'[p] = place
    BY <2>1 DEF RepeatInv, DemoInv, DemoTypes
  <2>5. Undisturbed(p) /\ SectionsAreFilled(p) => SectionsAreFilled(p)'
    BY <2>1, <2>3, <2>4
  <2> QED BY <1>1, <2>1, <2>3, <2>5, SectionGoesOn
<1> QED BY <1>3, <1>4

(* A section that writes nothing but the rows of one table.                 *)
LEMMA SectionIsFilled ==
    ASSUME RepeatInv, DemoInv', NEW p \in Terminals, NEW t \in Loops,
           NEW parents \in SUBSET {u \in Seeded : FilledIn(u) < Stage(t)}, NEW next,
           Fill(p, t, t, parents, t, next), SameGround(t, t), SameGround(t, next),
           Stage(t) \in Nat, Stage(next) = Stage(t) + 1,
           next \notin {"workingHours", "timeOff", "payment"}, t \in Seeded,
           \A u \in Seeded : FilledIn(u) = Stage(t) <=> u = t
    PROVE  RepeatInv'
<1>1. at[p] = t /\ at[p] \in Sections
  BY DEF Fill, SameGround, Sections, Owning, Filling, Placing, Writing, Connecting, Closing
<1>2. ASSUME Undisturbed(p) PROVE \A u \in parents : table[u] # "none"
  <2>1. SectionsAreFilled(p)
    BY <1>1, <1>2 DEF RepeatInv, Progress, SeedsAlone
  <2> QED BY <1>1, <2>1 DEF SectionsAreFilled
<1>3. ASSUME SectionsAreFilled(p), at'[p] = (IF Grow(t) = "begun" THEN t ELSE next),
             \A u \in Tables : table'[u] = IF u = t THEN Grow(t) ELSE table[u]
      PROVE  SectionsAreFilled(p)'
  <2>1. CASE Grow(t) = "begun"
    <3>1. HalfWay(t)'
      BY <1>3, <2>1, FilledAre DEF HalfWay, Loops
    <3>2. \A u \in Seeded : FilledIn(u) # Stage(at[p]) => table'[u] = table[u]
      BY <1>1, <1>3, FilledAre
    <3> QED BY <1>1, <1>3, <2>1, <3>1, <3>2, StageGoesOn
  <2>2. CASE Grow(t) # "begun"
    <3>1. Grow(t) = "filled"
      BY <2>2, GrowsBy
    <3>2. \A u \in Seeded :
             table'[u] = IF FilledIn(u) = Stage(at[p]) THEN "filled" ELSE table[u]
      BY <1>1, <1>3, <3>1, FilledAre
    <3> QED BY <1>1, <1>3, <2>2, <3>2, StageIsDone DEF RepeatInv
  <2> QED BY <2>1, <2>2
<1> QED BY <1>2, <1>3, RowIsFilled

(* An employee, the working hours, the leave: the three tables are begun   *)
(* by the first round and full after the second.                           *)
LEMMA EmployeesAreFilled ==
    ASSUME RepeatInv, DemoInv', NEW p \in Terminals, CreateEmployees(p)
    PROVE  RepeatInv'
<1> USE DEF Grow
<1>1. {"employee", "workingHours", "timeOff"} \subseteq Seeded \cap Tables
  BY SeededTables, FilledAre
<1>2. /\ \A here \in {"employee", "workingHours", "timeOff"} :
            /\ SameGround(here, "category")
            /\ \A place \in {"employee", "workingHours", "timeOff"} : SameGround(here, place)
      /\ \A here \in {"employee", "workingHours", "timeOff"} : here \in Sections
  BY DEF SameGround, Filling, Sections, Owning
<1>3. ASSUME at[p] \in Sections, Undisturbed(p) PROVE SectionsAreFilled(p)
  BY <1>3 DEF RepeatInv, Progress, SeedsAlone
<1>4. ASSUME NEW here \in {"employee", "workingHours", "timeOff"}, at[p] = here,
             NEW place \in {"employee", "workingHours", "timeOff"}, at'[p] = place,
             SectionsAreFilled(p), HalfWay(place)',
             \A u \in Tables \ {here} : table'[u] = table[u]
      PROVE  SectionsAreFilled(p)'
  <2>1. \A u \in Seeded : FilledIn(u) # 5 => table'[u] = table[u]
    BY <1>4, FilledAre
  <2> QED BY <1>4, <2>1, StagesAre, StageGoesOn
<1>5. CASE Fill(p, "employee", "employee", {}, "workingHours", "workingHours")
  <2>1. at[p] = "employee"
    BY <1>5 DEF Fill
  <2>2. ASSUME SectionsAreFilled(p), at'[p] = "workingHours",
               \A u \in Tables : table'[u] = IF u = "employee" THEN Grow("employee") ELSE table[u]
        PROVE  SectionsAreFilled(p)'
    <3>1. HalfWay("workingHours")'
      BY <1>1, <2>1, <2>2 DEF SectionsAreFilled, HalfWay, Loops
    <3> QED BY <1>4, <2>1, <2>2, <3>1
  <2> QED BY <1>2, <1>5, <2>2, RowIsFilled
<1>6. CASE Fill(p, "workingHours", "workingHours", {"employee"}, "timeOff", "timeOff")
  <2>1. at[p] = "workingHours"
    BY <1>6 DEF Fill
  <2>2. ASSUME SectionsAreFilled(p), at'[p] = "timeOff",
               \A u \in Tables :
                  table'[u] = IF u = "workingHours" THEN Grow("workingHours") ELSE table[u]
        PROVE  SectionsAreFilled(p)'
    <3>1. HalfWay("timeOff")'
      BY <1>1, <2>1, <2>2 DEF SectionsAreFilled, HalfWay, Loops
    <3> QED BY <1>4, <2>1, <2>2, <3>1
  <2>3. Undisturbed(p) => \A u \in {"employee"} : table[u] # "none"
    BY <1>2, <1>3, <2>1 DEF SectionsAreFilled, HalfWay
  <2> QED BY <1>2, <1>6, <2>2, <2>3, RowIsFilled
<1>7. CASE Fill(p, "timeOff", "timeOff", {"employee"}, "employee", "category")
  <2>1. at[p] = "timeOff"
    BY <1>7 DEF Fill
  <2>2. ASSUME SectionsAreFilled(p),
               at'[p] = (IF Grow("timeOff") = "begun" THEN "employee" ELSE "category"),
               \A u \in Tables : table'[u] = IF u = "timeOff" THEN Grow("timeOff") ELSE table[u]
        PROVE  SectionsAreFilled(p)'
    <3>1. CASE Grow("timeOff") = "begun"
      <4>1. HalfWay("employee")'
        BY <1>1, <2>1, <2>2, <3>1 DEF SectionsAreFilled, HalfWay, Loops
      <4> QED BY <1>4, <2>1, <2>2, <3>1, <4>1
    <3>2. CASE Grow("timeOff") # "begun"
      <4>1. table["employee"] = "filled" /\ table["workingHours"] = "filled"
        BY <2>1, <2>2, <3>2 DEF SectionsAreFilled, HalfWay
      <4>2. \A u \in Seeded :
               table'[u] = IF FilledIn(u) = Stage(at[p]) THEN "filled" ELSE table[u]
        BY <2>1, <2>2, <3>2, <4>1, FilledAre, StagesAre
      <4> QED BY <2>1, <2>2, <3>2, <4>2, StagesAre, StageIsDone DEF RepeatInv
    <3> QED BY <3>1, <3>2
  <2>3. Undisturbed(p) => \A u \in {"employee"} : table[u] # "none"
    BY <1>2, <1>3, <2>1 DEF SectionsAreFilled, HalfWay
  <2> QED BY <1>2, <1>7, <2>2, <2>3, RowIsFilled
<1> QED BY <1>5, <1>6, <1>7 DEF CreateEmployees

LEMMA BillingIsFilled ==
    ASSUME RepeatInv, DemoInv', NEW p \in Terminals, CreateBilling(p)
    PROVE  RepeatInv'
<1> USE DEF Grow
<1>1. {"subscription", "invoice", "payment"} \subseteq Seeded \cap Tables
  BY SeededTables, FilledAre
<1>2. \A here \in {"subscription", "invoice", "payment"} :
         /\ here \in Sections
         /\ \A place \in {"invoice", "payment", "account"} : SameGround(here, place)
  BY DEF SameGround, Connecting, Sections
<1>3. ASSUME at[p] \in Sections, Undisturbed(p) PROVE SectionsAreFilled(p)
  BY <1>3 DEF RepeatInv, Progress, SeedsAlone
<1>4. ASSUME NEW here \in {"invoice", "payment"}, at[p] = here,
             NEW place \in {"invoice", "payment"}, at'[p] = place,
             SectionsAreFilled(p), HalfWay(place)',
             \A u \in Tables \ {here} : table'[u] = table[u]
      PROVE  SectionsAreFilled(p)'
  <2>1. \A u \in Seeded : FilledIn(u) # 12 => table'[u] = table[u]
    BY <1>4, FilledAre
  <2> QED BY <1>4, <2>1, StagesAre, StageGoesOn
<1>5. CASE FillAtOnce(p, "subscription", "subscription", {}, "invoice")
  <2>1. \A u \in Seeded : FilledIn(u) = Stage("subscription") <=> u = "subscription"
    BY StagesAre, FilledAre
  <2>2. Stage("subscription") = 11 /\ Stage("invoice") = 12
    BY StagesAre
  <2> QED BY <1>1, <1>2, <1>5, <2>1, <2>2, SectionIsFilledAtOnce
<1>6. CASE Fill(p, "invoice", "invoice", {"subscription"}, "payment", "payment")
  <2>1. at[p] = "invoice"
    BY <1>6 DEF Fill
  <2>2. ASSUME SectionsAreFilled(p), at'[p] = "payment",
               \A u \in Tables : table'[u] = IF u = "invoice" THEN Grow("invoice") ELSE table[u]
        PROVE  SectionsAreFilled(p)'
    <3>1. HalfWay("payment")'
      BY <1>1, <2>1, <2>2 DEF SectionsAreFilled, HalfWay, Loops
    <3> QED BY <1>4, <2>1, <2>2, <3>1
  <2>3. Undisturbed(p) => \A u \in {"subscription"} : table[u] # "none"
    <3>1. FilledIn("subscription") = 11 /\ Stage("invoice") = 12
      BY <1>1, StagesAre, FilledAre
    <3> QED BY <1>1, <1>2, <1>3, <2>1, <3>1 DEF SectionsAreFilled
  <2> QED BY <1>2, <1>6, <2>2, <2>3, RowIsFilled
<1>7. CASE Fill(p, "payment", "payment", {"invoice"}, "invoice", "account")
  <2>1. at[p] = "payment"
    BY <1>7 DEF Fill
  <2>2. ASSUME SectionsAreFilled(p),
               at'[p] = (IF Grow("payment") = "begun" THEN "invoice" ELSE "account"),
               \A u \in Tables : table'[u] = IF u = "payment" THEN Grow("payment") ELSE table[u]
        PROVE  SectionsAreFilled(p)'
    <3>1. CASE Grow("payment") = "begun"
      <4>1. HalfWay("invoice")'
        BY <1>1, <2>1, <2>2, <3>1 DEF SectionsAreFilled, HalfWay, Loops
      <4> QED BY <1>4, <2>1, <2>2, <3>1, <4>1
    <3>2. CASE Grow("payment") # "begun"
      <4>1. table["invoice"] = "filled"
        BY <2>1, <2>2, <3>2 DEF SectionsAreFilled, HalfWay
      <4>2. \A u \in Seeded :
               table'[u] = IF FilledIn(u) = Stage(at[p]) THEN "filled" ELSE table[u]
        BY <2>1, <2>2, <3>2, <4>1, FilledAre, StagesAre
      <4> QED BY <2>1, <2>2, <3>2, <4>2, StagesAre, StageIsDone DEF RepeatInv
    <3> QED BY <3>1, <3>2
  <2>3. Undisturbed(p) => \A u \in {"invoice"} : table[u] # "none"
    BY <1>2, <1>3, <2>1 DEF SectionsAreFilled, HalfWay
  <2> QED BY <1>2, <1>7, <2>2, <2>3, RowIsFilled
<1> QED BY <1>5, <1>6, <1>7 DEF CreateBilling

LEMMA SectionsAreWritten ==
    ASSUME RepeatInv, DemoInv', NEW p \in Terminals, SectionStep(p)
    PROVE  RepeatInv'
<1> USE StagesAre, FilledAre DEF SameGround, Filling, Connecting, Closing, Loops
<1>0. {"user", "settings", "profile", "hours", "employee", "category", "service",
       "employeeService", "customer", "account", "audit"} \subseteq Seeded
  BY SeededTables
<1>1. CASE CreateOwner(p)
  BY <1>0, <1>1, SectionIsFilledAtOnce DEF CreateOwner
<1>2. CASE CreateTenantSettings(p)
  BY <1>0, <1>2, SectionIsFilledAtOnce DEF CreateTenantSettings
<1>3. CASE CreateSalonProfile(p)
  BY <1>0, <1>3, SectionIsFilledAtOnce DEF CreateSalonProfile
<1>4. CASE CreateBusinessHours(p)
  BY <1>0, <1>4, SectionIsFilledAtOnce DEF CreateBusinessHours
<1>5. CASE CreateServiceCategories(p)
  BY <1>0, <1>5, SectionIsFilled DEF CreateServiceCategories
<1>6. CASE CreateServices(p)
  BY <1>0, <1>6, SectionIsFilled DEF CreateServices
<1>7. CASE AssignEmployeeServices(p)
  BY <1>0, <1>7, SectionIsFilledAtOnce DEF AssignEmployeeServices
<1>8. CASE CreateCustomers(p)
  BY <1>0, <1>8, SectionIsFilled DEF CreateCustomers
<1>9. CASE CreateWhatsAppAccount(p)
  <2>1. Stage("conversation") = 15
    BY DEF Calling
  <2> QED BY <1>0, <1>9, <2>1, SectionIsFilledAtOnce DEF CreateWhatsAppAccount
<1>10. CASE CreateAuditLogs(p)
  BY <1>0, <1>10, SectionIsFilledAtOnce DEF CreateAuditLogs
<1> QED BY <1>1, <1>2, <1>3, <1>4, <1>5, <1>6, <1>7, <1>8, <1>9, <1>10,
           EmployeesAreFilled, BillingIsFilled DEF SectionStep

(* Sections that write none of the tenant's tables.                        *)
LEMMA SectionIsPassed ==
    ASSUME RepeatInv, DemoInv', NEW p \in Terminals, EncryptToken(p) \/ CreatePromptVersions(p)
    PROVE  RepeatInv'
<1>1. CASE End(p, "keyless") /\ at[p] = "account"
  <2>1. MayEnd(p, "keyless")
    BY DEF MayEnd
  <2> QED BY <1>1, <2>1, ScriptEnds
<1>2. CASE /\ UNCHANGED <<rows, local, ended, history>>
           /\ \/ at[p] = "account" /\ Goto(p, "connect")
              \/ at[p] = "prompts" /\ Goto(p, "audit")
  <2>1. PICK next \in {"connect", "audit"} :
           /\ at' = [at EXCEPT ![p] = next]
           /\ next = "connect" => at[p] = "account"
           /\ next = "audit" => at[p] = "prompts"
    BY <1>2 DEF Goto
  <2>2. UNCHANGED <<tenant, table, book, threads, tid, work, script, ended, disturbed>>
    BY <1>2 DEF rows, local, history
  <2>3. at'[p] = next /\ TablesAreWell /\ TablesAreWell'
    BY <2>1, <2>2 DEF RepeatInv, DemoInv, DemoTypes, TablesAreWell
  <2>4. SameGround(at[p], next)
    BY <2>1 DEF SameGround, Connecting, Closing
  <2>5. /\ Stage(at[p]) \in {13, 16} /\ Stage(next) = Stage(at[p]) + 1
        /\ \A u \in Seeded : FilledIn(u) # Stage(at[p])
    BY <2>1, StagesAre, FilledAre
  <2>6. SectionsAreFilled(p) => SectionsAreFilled(p)'
    BY <2>2, <2>3, <2>5, StageIsDone
  <2> QED BY <2>1, <2>2, <2>3, <2>4, <2>6, SectionGoesOn
<1> QED BY <1>1, <1>2 DEF EncryptToken, CreatePromptVersions

LEMMA TenantIsNew ==
    ASSUME RepeatInv, DemoInv', NEW p \in Terminals, CreateTenant(p)
    PROVE  RepeatInv'
<1>1. at[p] = "tenant" /\ at[p] # "idle"
  BY DEF CreateTenant
<1>2. ASSUME Undisturbed(p) PROVE tenant = 0 /\ script[p] = "demo:seed"
  BY <1>1, <1>2 DEF RepeatInv, Progress
<1>3. CASE tenant # 0
  BY <1>1, <1>2, <1>3, ScriptEnds DEF CreateTenant
<1>4. CASE tenant = 0
  <2>1. /\ tenant' = made + 1 /\ tid' = [tid EXCEPT ![p] = made + 1]
        /\ at' = [at EXCEPT ![p] = "owner"] /\ made \in Nat
        /\ UNCHANGED <<table, book, threads, work, script, ended, disturbed>>
    BY <1>4 DEF CreateTenant, Goto, history, RepeatInv, DemoInv, DemoTypes
  <2>2. /\ at'[p] = "owner" /\ tid'[p] = made + 1
        /\ \A q \in Terminals \ {p} : tid'[q] = tid[q]
    BY <2>1 DEF RepeatInv, DemoInv, DemoTypes
  <2>3. /\ book = << >> /\ threads = << >> /\ \A t \in Tables : table[t] = "none"
    BY <1>4 DEF RepeatInv, DemoInv, TenantsAreOwn, TablesAreWell
  <2>4. TablesAreWell'
    BY <2>1 DEF RepeatInv, TablesAreWell
  <2>5. ASSUME Undisturbed(p) PROVE Progress(p)'
    <3>1. SectionsAreFilled(p)'
      <4>1. HalfWay("owner")'
        BY DEF HalfWay, Loops
      <4>2. ASSUME NEW u \in Seeded PROVE ~(FilledIn(u) < 1) /\ table'[u] = "none"
        BY <2>1, <2>3, FilledAre
      <4> QED BY <2>2, <4>1, <4>2, StagesAre DEF SectionsAreFilled
    <3>2. SeedsAlone(p)'
      BY <1>2, <2>1, <2>2, <2>3, <2>5, <3>1
         DEF SeedsAlone, ConversesWell, Owning, Filling, Placing, Writing, Connecting, Calling, Closing
    <3> QED BY <2>2, <3>2 DEF Progress
  <2>6. tid'[p] # 0 /\ UNCHANGED <<script, ended, disturbed>>
    BY <2>1, <2>2
  <2> QED BY <1>1, <2>1, <2>2, <2>4, <2>5, <2>6, ScriptGoesOn
<1> QED BY <1>3, <1>4

(* The timeline is built in memory.                                        *)
LEMMA TimelineGoesOn ==
    ASSUME RepeatInv, DemoInv', NEW p \in Terminals,
           BeginTimeline(p) \/ BeginDay(p) \/ AddSlot(p) \/ MarkOrigins(p)
    PROVE  RepeatInv'
<1>1. PICK here \in {"timeline", "day", "slot"} : at[p] = here
  BY DEF BeginTimeline, BeginDay, AddSlot, AddSlotAfter, MarkOrigins
<1>2. PICK next \in {"day", "slot", "appointment"} : \E w : Goto(p, next) /\ Build(p, w)
  BY DEF BeginTimeline, BeginDay, AddSlot, AddSlotAfter, NextDay, MarkOrigins
<1>3. /\ at' = [at EXCEPT ![p] = next]
      /\ UNCHANGED <<tenant, table, book, threads, tid, script, ended, disturbed>>
  BY <1>2 DEF Goto, Build, rows, history
<1>4. at'[p] = next /\ TablesAreWell' /\ tid[p] # 0
  <2>1. here \in Sections
    BY DEF Sections, Owning, Filling, Placing
  <2> QED BY <1>1, <1>3, <2>1
          DEF RepeatInv, DemoInv, DemoTypes, TablesAreWell, WorkersHaveTenants
<1>5. ASSUME next = "appointment" PROVE work'[p].pos = 1
  <2>1. MarkOrigins(p)
    BY <1>5, <1>3, <1>4 DEF BeginTimeline, BeginDay, AddSlot, AddSlotAfter, NextDay, MarkOrigins,
                            Goto, RepeatInv, DemoInv, DemoTypes
  <2>2. work[p].pos = 1 /\ work \in [Terminals -> Timeline]
    BY <2>1 DEF MarkOrigins, RepeatInv, DemoInv, DemoTypes, BuildsWell, Placing
  <2>3. PICK v \in Timeline : v = work[p]
    BY <2>2
  <2>4. PICK some : work' = [work EXCEPT ![p] = [v EXCEPT !.origins = some]]
    BY <2>1, <2>3 DEF MarkOrigins, Build
  <2> QED BY <2>2, <2>3, <2>4 DEF Timeline
<1>6. ASSUME Undisturbed(p) PROVE Progress(p)'
  <2>1. SeedsAlone(p) /\ book = << >> /\ threads = << >>
    BY <1>1, <1>6 DEF RepeatInv, Progress, SeedsAlone, Sections, Owning, Filling, Placing
  <2>2. SectionsAreFilled(p)'
    <3>1. Stage(at[p]) = 10 /\ Stage(next) = 10
      BY <1>1, StagesAre
    <3>2. HalfWay(next)'
      BY DEF HalfWay, Loops
    <3> QED BY <1>3, <1>4, <2>1, <3>1, <3>2, StageGoesOn DEF SeedsAlone
  <2>3. next = "appointment" => BookIsMine(p, work[p].pos - 1, work[p].pos - 1)'
    BY <1>3, <1>5, <2>1, EmptySeq DEF BookIsMine
  <2>4. SeedsAlone(p)'
    BY <1>1, <1>3, <1>4, <2>1, <2>2, <2>3
       DEF SeedsAlone, ConversesWell, Owning, Filling, Placing, Writing, Connecting, Calling, Closing
  <2>5. next \in Sections
    BY DEF Sections, Owning, Placing, Writing
  <2> QED BY <1>4, <2>4, <2>5 DEF Progress
<1> QED BY <1>1, <1>3, <1>4, <1>6, ScriptGoesOn

-----------------------------------------------------------------------------
(* The legs of an appointment *)

(* They lie in its slot, one after the other.                              *)
LEMMA LegsAreApart ==
    ASSUME NEW slot \in Slot, NEW blocking \in BOOLEAN,
           NEW legs, legs = Legs(slot, blocking)
    PROVE  /\ legs # << >>
           /\ \A k \in DOMAIN legs :
                 /\ legs[k].day = slot.day
                 /\ legs[k].start \in Int /\ legs[k].blockedUntil \in Int
                 /\ slot.start <= legs[k].start /\ legs[k].blockedUntil <= BlockedUntil(slot)
           /\ \A j, k \in DOMAIN legs : j < k => legs[j].blockedUntil <= legs[k].start
<1> DEFINE s == slot.services
<1>1. /\ slot.start \in Int /\ s \in Seq(Nat \X Nat) /\ Len(s) \in Nat \ {0}
      /\ DOMAIN s = 1..Len(s) /\ \A k \in 1..Len(s) : s[k][1] \in Nat
  <2>1. slot.start \in Int /\ s \in Seq(Nat \X Nat) /\ s # << >>
    BY DEF Slot, Visit
  <2> HIDE DEF s
  <2>2. Len(s) \in Nat \ {0} /\ DOMAIN s = 1..Len(s)
    BY <2>1, LenProperties, EmptySeq
  <2> QED BY <2>1, <2>2 DEF s
<1>0. Len(s) \in Nat
  BY <1>1
<1>2. PICK f \in [0..Len(s) -> Nat] :
         /\ f[0] = 0 /\ \A n \in 1..Len(s) : f[n] = f[n - 1] + s[n][1]
         /\ \A n \in 0..Len(s) : SumDurations(SubSeq(s, 1, n)) = f[n]
         /\ SumDurations(s) = f[Len(s)]
  BY <1>1, PrefixSums
<1>3. BlockedUntil(slot) \in Int /\ slot.start + f[Len(s)] <= BlockedUntil(slot)
  BY <1>2, TimesOfSlot DEF EndTime
<1>4. ASSUME NEW k \in 1..Len(s)
      PROVE  /\ legs[k].day = slot.day /\ legs[k].start = slot.start + f[k - 1]
             /\ legs[k].blockedUntil =
                   (IF k = Len(s) THEN BlockedUntil(slot) ELSE slot.start + f[k])
  <2>1. /\ k \in DOMAIN slot.services /\ k - 1 \in 0..Len(s)
        /\ SumDurations(SubSeq(s, 1, k - 1)) = f[k - 1] /\ f[k] = f[k - 1] + s[k][1]
    <3>1. k \in DOMAIN s /\ k - 1 \in 0..Len(s)
      BY <1>1
    <3>2. \A n \in 0..Len(s) : SumDurations(SubSeq(s, 1, n)) = f[n]
      BY <1>2
    <3>3. SumDurations(SubSeq(s, 1, k - 1)) = f[k - 1]
      BY <3>1, <3>2
    <3>4. \A n \in 1..Len(s) : f[n] = f[n - 1] + s[n][1]
      BY <1>2
    <3>5. f[k] = f[k - 1] + s[k][1]
      BY <3>4
    <3> QED BY <3>1, <3>3, <3>5
  <2>2. /\ legs[k].day = slot.day
        /\ legs[k].start = slot.start + SumDurations(SubSeq(s, 1, k - 1))
        /\ legs[k].blockedUntil =
              (IF k = Len(s) THEN BlockedUntil(slot)
               ELSE slot.start + SumDurations(SubSeq(s, 1, k - 1)) + s[k][1])
    BY <2>1 DEF Legs
  <2>3. f[k - 1] \in Nat /\ f[k] \in Nat /\ s[k][1] \in Nat
    BY <1>1, <2>1
  <2>4. slot.start + SumDurations(SubSeq(s, 1, k - 1)) + s[k][1] = slot.start + f[k]
    <3>1. slot.start \in Int
      BY DEF Slot
    <3>2. \A x \in Int, a, b \in Nat : x + a + b = x + (a + b)
      OBVIOUS
    <3> QED BY <2>1, <2>3, <3>1, <3>2
  <2> QED BY <2>1, <2>2, <2>4
<1>5. DOMAIN legs = 1..Len(s)
  BY <1>1 DEF Legs
<1>6. ASSUME NEW j \in 0..Len(s), NEW k \in 0..Len(s), j <= k
      PROVE  f[j] <= f[k] /\ f[j] \in Nat /\ f[k] \in Nat
  <2>1. \A i \in 1..Len(s) : f[i - 1] <= f[i]
    <3>1. ASSUME NEW i \in 1..Len(s) PROVE f[i - 1] <= f[i]
      <4>1. i - 1 \in 0..Len(s) /\ i \in 0..Len(s) /\ s[i][1] \in Nat
        BY <1>1, SMTT(30)
      <4>2. f[i - 1] \in Nat /\ f[i] = f[i - 1] + s[i][1]
        BY <1>2, <4>1
      <4> QED BY <4>1, <4>2
    <3> QED BY <3>1
  <2> QED BY <1>1, <1>2, <1>6, <2>1, SumsGrow
<1> HIDE DEF s
<1>7. ASSUME NEW k \in 1..Len(s)
      PROVE  /\ legs[k].start \in Int /\ legs[k].blockedUntil \in Int
             /\ slot.start <= legs[k].start /\ legs[k].blockedUntil <= BlockedUntil(slot)
  <2>1. k - 1 \in 0..Len(s) /\ k \in 0..Len(s) /\ Len(s) \in 0..Len(s) /\ k <= Len(s)
    BY <1>1
  <2>2. f[k - 1] \in Nat /\ f[k] \in Nat /\ f[k] <= f[Len(s)] /\ f[Len(s)] \in Nat
    BY <1>6, <2>1
  <2>3. legs[k].start \in Int /\ slot.start <= legs[k].start
    <3>1. legs[k].start = slot.start + f[k - 1] /\ slot.start \in Int
      BY <1>1, <1>4
    <3>2. \A x \in Int, n \in Nat : x + n \in Int /\ x <= x + n
      OBVIOUS
    <3>3. slot.start + f[k - 1] \in Int /\ slot.start <= slot.start + f[k - 1]
      BY <2>2, <3>1, <3>2
    <3> QED BY <3>1, <3>3
  <2>4. legs[k].blockedUntil \in Int /\ legs[k].blockedUntil <= BlockedUntil(slot)
    <3>1. CASE k = Len(s)
      BY <1>3, <1>4, <3>1
    <3>2. CASE k # Len(s)
      <4>1. legs[k].blockedUntil = slot.start + f[k]
        BY <1>4, <3>2
      <4>2. slot.start + f[k] \in Int /\ slot.start + f[k] <= slot.start + f[Len(s)]
        BY <1>1, <2>2, SMTT(30)
      <4> QED BY <1>1, <1>3, <2>2, <4>1, <4>2, SMTT(30)
    <3> QED BY <3>1, <3>2
  <2> QED BY <2>3, <2>4
<1>8. ASSUME NEW j \in 1..Len(s), NEW k \in 1..Len(s), j < k
      PROVE  legs[j].blockedUntil <= legs[k].start
  <2>1. j \in 0..Len(s) /\ k - 1 \in 0..Len(s) /\ j <= k - 1 /\ j # Len(s)
    BY <1>0, <1>8
  <2>2. f[j] <= f[k - 1] /\ f[j] \in Nat /\ f[k - 1] \in Nat
    BY <1>6, <2>1
  <2>3. legs[j].blockedUntil = slot.start + f[j] /\ legs[k].start = slot.start + f[k - 1]
    BY <1>4, <2>1
  <2> QED BY <1>1, <2>2, <2>3, SMTT(30)
<1>9. legs # << >>
  <2>1. 1 \in DOMAIN legs
    BY <1>1, <1>5
  <2> QED BY <2>1
<1>10. \A k \in 1..Len(s) : legs[k].day = slot.day
  BY <1>4
<1> QED BY <1>5, <1>7, <1>8, <1>9, <1>10

(* The EXCLUDE constraint lets the next slot of a timeline in.              *)
LEMMA NextSlotIsFree ==
    ASSUME NEW p \in Terminals, NEW n, BookIsMine(p, n - 1, n - 1),
           work[p].slots \in Seq(Slot), SlotsAreClean(work[p].slots),
           n \in 1..Len(work[p].slots), book \in Seq(Range(book)), NEW blocking \in BOOLEAN
    PROVE  ~Excluded(Legs(work[p].slots[n], blocking))
<1> DEFINE slots == work[p].slots
           mine == Legs(slots[n], blocking)
<1>1. slots[n] \in Slot /\ n \in DOMAIN slots /\ Len(slots) \in Nat
  BY LenProperties, ElementOfSeq
<1>2. /\ \A k \in DOMAIN mine :
            /\ mine[k].day = slots[n].day
            /\ mine[k].start \in Int /\ mine[k].blockedUntil \in Int
            /\ slots[n].start <= mine[k].start
      /\ \A j, k \in DOMAIN mine : j < k => mine[j].blockedUntil <= mine[k].start
  BY <1>1, LegsAreApart
<1>3. ASSUME NEW k \in DOMAIN mine, NEW j \in DOMAIN mine, k # j
      PROVE  ~Collide(mine[k], mine[j])
  <2>1. k \in Int /\ j \in Int
    <3>1. DOMAIN mine = DOMAIN slots[n].services
      BY DEF Legs
    <3>2. slots[n].services \in Seq(Nat \X Nat)
      BY <1>1 DEF Slot, Visit
    <3>3. DOMAIN slots[n].services = 1..Len(slots[n].services)
      BY <3>2, LenProperties
    <3> QED BY <3>1, <3>3
  <2>2. k < j \/ j < k
    BY <1>3, <2>1
  <2> HIDE DEF mine
  <2>3. mine[k].blockedUntil <= mine[j].start \/ mine[j].blockedUntil <= mine[k].start
    BY <1>2, <2>2
  <2> QED BY <1>2, <2>3 DEF Collide
<1>4. ASSUME NEW k \in DOMAIN mine, NEW leg \in BookedLegs
      PROVE  ~Collide(mine[k], leg)
  <2>1. PICK i \in DOMAIN book : leg \in Range(book[i].legs)
    BY <1>4 DEF BookedLegs
  <2>2. /\ i \in 1..n - 1 /\ i \in DOMAIN slots /\ i < n /\ slots[i] \in Slot
    <3>1. DOMAIN book = 1..n - 1
      BY <1>1, LenProperties DEF BookIsMine
    <3>2. i \in 1..Len(slots) /\ i < n
      BY <1>1, <2>1, <3>1
    <3> QED BY <1>1, <2>1, <3>1, <3>2, LenProperties, ElementOfSeq
  <2>3. PICK b \in BOOLEAN : book[i].legs = Legs(slots[i], b)
    BY <2>1 DEF BookIsMine
  <2>4. PICK j \in DOMAIN Legs(slots[i], b) : leg = Legs(slots[i], b)[j]
    BY <2>1, <2>3 DEF Range
  <2>5. /\ leg.day = slots[i].day /\ leg.blockedUntil \in Int
        /\ leg.blockedUntil <= BlockedUntil(slots[i])
    BY <2>2, <2>4, LegsAreApart
  <2>6. Precedes(slots[i], slots[n])
    BY <1>1, <2>2 DEF SlotsAreClean
  <2>7. /\ BlockedUntil(slots[i]) \in Int /\ slots[n].start \in Int
        /\ slots[i].day \in Int /\ slots[n].day \in Int
    BY <1>1, <2>2, TimesOfSlot DEF Slot
  <2>8. /\ mine[k].day = slots[n].day /\ mine[k].start \in Int
        /\ slots[n].start <= mine[k].start
    BY <1>2, <1>4
  <2> HIDE DEF mine, slots
  <2>9. CASE slots[i].day < slots[n].day
    BY <2>5, <2>7, <2>8, <2>9 DEF Collide
  <2>10. CASE BlockedUntil(slots[i]) <= slots[n].start
    <3>1. leg.blockedUntil <= mine[k].start
      BY <2>5, <2>7, <2>8, <2>10
    <3> QED BY <2>5, <2>8, <3>1 DEF Collide
  <2> QED BY <2>6, <2>9, <2>10 DEF Precedes
<1> HIDE DEF mine
<1>5. ~Excluded(mine)
  BY <1>3, <1>4 DEF Excluded
<1> QED BY <1>5 DEF mine

-----------------------------------------------------------------------------
(* The appointments are written, and no constraint refuses one. *)

(* What the writing of the book knows when it is alone.                    *)
LEMMA WritingAlone ==
    ASSUME RepeatInv, NEW p \in Terminals, at[p] \in Writing
    PROVE  /\ at[p] \in Sections /\ at[p] # "idle" /\ tid[p] # 0 /\ Stage(at[p]) = 10
           /\ work[p].pos \in Nat /\ work[p].slots \in Seq(Slot) /\ SlotsAreClean(work[p].slots)
           /\ book \in Seq(Range(book))
           /\ Undisturbed(p) =>
                 /\ SeedsAlone(p)
                 /\ \A u \in {"employee", "customer", "service"} : table[u] # "none"
<1>1. at[p] \in Sections /\ at[p] # "idle" /\ Stage(at[p]) = 10
  BY StagesAre DEF Sections, Owning, Writing
<1>2. /\ tid[p] # 0 /\ work[p].pos \in Nat /\ work[p].slots \in Seq(Slot)
      /\ SlotsAreClean(work[p].slots) /\ book \in Seq(Range(book))
  <2>1. work[p] \in Timeline /\ BuildsWell(p)
    BY DEF RepeatInv, DemoInv, DemoTypes
  <2> QED BY <1>1, <2>1 DEF RepeatInv, DemoInv, DemoTypes, WorkersHaveTenants, Timeline, BuildsWell
<1>3. ASSUME Undisturbed(p)
      PROVE  SeedsAlone(p) /\ \A u \in {"employee", "customer", "service"} : table[u] # "none"
  <2>1. SeedsAlone(p)
    BY <1>1, <1>3 DEF RepeatInv, Progress
  <2>2. ASSUME NEW u \in {"employee", "customer", "service"} PROVE table[u] = "filled"
    <3>1. u \in Seeded /\ FilledIn(u) \in {5, 7, 9}
      BY SeededTables, FilledAre
    <3> QED BY <1>1, <2>1, <3>1 DEF SeedsAlone, SectionsAreFilled
  <2> QED BY <2>1, <2>2
<1> QED BY <1>1, <1>2, <1>3

(* The tables of an appointment belong to no section.                      *)
LEMMA BookTables ==
    /\ {"appointment", "appointmentService", "statusHistory", "conversation", "message",
        "summary", "context"} \subseteq Tables \ Seeded
BY DEF Tables, Seeded

LEMMA AppointmentIsAccepted ==
    ASSUME RepeatInv, DemoInv', NEW p \in Terminals, CreateAppointment(p)
    PROVE  RepeatInv'
<1> DEFINE n == work[p].pos
           slot == work[p].slots[n]
           parents == {"employee", "customer", "service"}
<1>1. at[p] = "appointment" /\ at[p] \in Writing /\ n <= Len(work[p].slots)
  BY DEF CreateAppointment, Writing
<1>2. Undisturbed(p) => Named(p, parents)
  BY <1>1, WritingAlone, NamedRows
<1>3. CASE Refused(p, parents)
  BY <1>1, <1>2, <1>3, WritingAlone, NobodyIsRefused
<1>4. CASE ~Refused(p, parents)
  <2>1. PICK status : LET legs == Legs(slot, status \in BlockingStatuses)
                      IN  IF Excluded(legs) THEN End(p, "constraint")
                          ELSE /\ Named(p, parents)
                               /\ book' = Append(book, [slot |-> slot, status |-> status,
                                             legs |-> legs, from |-> RescheduledFrom(p, n),
                                             past |-> << >>])
                               /\ table' = [table EXCEPT
                                    !["appointment"] = Grow("appointment"),
                                    !["appointmentService"] = Grow("appointmentService")]
                               /\ Goto(p, "statusHistory")
                               /\ UNCHANGED <<base, tenant, made, threads, local, ended, history>>
    BY <1>4 DEF CreateAppointment
  <2> DEFINE b == status \in BlockingStatuses
  <2>2. b \in BOOLEAN
    OBVIOUS
  <2> HIDE DEF b
  <2>3. PICK legs : legs = Legs(slot, b)
    OBVIOUS
  <2>4. ASSUME Undisturbed(p) PROVE BookIsMine(p, n - 1, n - 1) /\ n \in 1..Len(work[p].slots)
    <3>1. BookIsMine(p, n - 1, n - 1)
      BY <1>1, <2>4, WritingAlone DEF SeedsAlone
    <3>2. n \in 1..Len(work[p].slots) + 1 /\ Len(work[p].slots) \in Nat
      BY <1>1, WritingAlone, LenProperties DEF RepeatInv, DemoInv, BuildsWell
    <3> QED BY <1>1, <3>1, <3>2
  <2>5. CASE Excluded(legs)
    <3>1. ~Undisturbed(p)
      BY <1>1, <2>2, <2>3, <2>4, <2>5, WritingAlone, NextSlotIsFree
    <3>2. End(p, "constraint")
      BY <2>1, <2>3, <2>5 DEF b
    <3> QED BY <1>1, <3>1, <3>2, WritingAlone, ScriptEnds
  <2>6. CASE ~Excluded(legs)
    <3>1. PICK e : /\ e.slot = slot /\ e.legs = legs
                   /\ book' = Append(book, e)
                   /\ table' = [table EXCEPT
                                   !["appointment"] = Grow("appointment"),
                                   !["appointmentService"] = Grow("appointmentService")]
                   /\ at' = [at EXCEPT ![p] = "statusHistory"] /\ tid[p] = tenant
                   /\ UNCHANGED <<tenant, threads, tid, work, script, ended, disturbed>>
      BY <2>1, <2>3, <2>6 DEF b, Named, Goto, local, history
    <3>2. at'[p] = "statusHistory" /\ tenant # 0 /\ table \in [Tables -> {"none", "begun", "filled"}]
      BY <1>1, <3>1, WritingAlone DEF RepeatInv, DemoInv, DemoTypes, TablesAreWell
    <3>3. /\ table' \in [Tables -> {"none", "begun", "filled"}] /\ table'["appointment"] # "none"
          /\ \A u \in Seeded : table'[u] = table[u]
      <4>1. /\ Grow("appointment") \in {"begun", "filled"}
            /\ Grow("appointmentService") \in {"begun", "filled"}
        BY GrowsBy
      <4>2. PICK x \in {"begun", "filled"} : x = Grow("appointment")
        BY <4>1
      <4>3. PICK y \in {"begun", "filled"} : y = Grow("appointmentService")
        BY <4>1
      <4>4. table' = [table EXCEPT !["appointment"] = x, !["appointmentService"] = y]
        BY <3>1, <4>2, <4>3
      <4>5. \A u \in Tables :
               table'[u] = IF u = "appointment" THEN x
                           ELSE IF u = "appointmentService" THEN y ELSE table[u]
        BY <3>2, <4>4
      <4>6. table' \in [Tables -> {"none", "begun", "filled"}]
        BY <3>2, <4>4
      <4> QED BY <4>5, <4>6, BookTables, FilledAre
    <3>4. TablesAreWell'
      BY <3>1, <3>2, <3>3 DEF TablesAreWell
    <3>5. ASSUME Undisturbed(p) PROVE Progress(p)'
      <4>1. SeedsAlone(p)
        BY <1>1, <3>5, WritingAlone
      <4>2. SectionsAreFilled(p)'
        <5>1. HalfWay("statusHistory")'
          BY DEF HalfWay, Loops
        <5>2. SectionsAreFilled(p)
          BY <4>1 DEF SeedsAlone
        <5>3. at[p] = "appointment" /\ at'[p] = "statusHistory"
          BY <1>1, <3>2, <4>1, WritingAlone
        <5> QED BY <1>1, <3>2, <3>3, <5>1, <5>2, <5>3, StagesAre, StageGoesOn
      <4>3. BookIsMine(p, n, n - 1)'
        <5>1. /\ Len(book) = n - 1 /\ n \in Nat \ {0} /\ book \in Seq(Range(book))
              /\ DOMAIN book = 1..n - 1
          BY <1>1, <2>4, <3>5, WritingAlone, LenProperties DEF BookIsMine
        <5>2. /\ Len(book') = n /\ DOMAIN book' = 1..n /\ book'[n] = e
              /\ \A k \in 1..n - 1 : book'[k] = book[k]
          <6>1. PICK R : R = Range(book) \cup {e}
            OBVIOUS
          <6>2. book \in Seq(R) /\ e \in R
            BY <5>1, <6>1, SeqMonotonic
          <6>3. /\ Len(Append(book, e)) = Len(book) + 1 /\ Append(book, e)[Len(book) + 1] = e
                /\ \A k \in 1..Len(book) : Append(book, e)[k] = book[k]
                /\ Append(book, e) \in Seq(R)
            BY <6>2, AppendProperties
          <6>4. DOMAIN Append(book, e) = 1..Len(book) + 1
            BY <6>3, LenProperties
          <6>5. n - 1 + 1 = n
            BY <5>1
          <6> QED BY <3>1, <5>1, <6>3, <6>4, <6>5
        <5>3. ASSUME NEW k \in 1..n
              PROVE  /\ book'[k].slot = work[p].slots[k]
                     /\ \E blocking \in BOOLEAN : book'[k].legs = Legs(book'[k].slot, blocking)
                     /\ k <= n - 1 => book'[k].past # << >>
          <6>1. CASE k \in 1..n - 1
            BY <2>4, <3>5, <5>1, <5>2, <6>1 DEF BookIsMine
          <6>2. CASE k = n
            <7>1. ~(n <= n - 1)
              BY <5>1
            <7> QED BY <2>2, <2>3, <3>1, <5>2, <6>2, <7>1
          <6> QED BY <5>1, <6>1, <6>2
        <5> QED BY <3>1, <5>2, <5>3 DEF BookIsMine
      <4>4. SeedsAlone(p)'
        BY <1>1, <3>1, <3>2, <3>3, <4>1, <4>2, <4>3
           DEF SeedsAlone, ConversesWell, Owning, Filling, Placing, Writing, Connecting, Calling, Closing
      <4>5. "statusHistory" \in Sections
        BY DEF Sections, Owning, Writing
      <4> QED BY <3>2, <4>4, <4>5 DEF Progress
    <3> QED BY <1>1, <3>1, <3>4, <3>5, WritingAlone, ScriptGoesOn
  <2> QED BY <2>5, <2>6
<1> QED BY <1>3, <1>4

LEMMA HistoryIsAccepted ==
    ASSUME RepeatInv, DemoInv', NEW p \in Terminals, CreateHistory(p)
    PROVE  RepeatInv'
<1>0. PICK n : n = work[p].pos
  OBVIOUS
<1>1. at[p] = "statusHistory" /\ at[p] \in Writing
  BY DEF CreateHistory, Writing
<1>2. ASSUME Undisturbed(p) PROVE BookIsMine(p, n, n - 1) /\ Named(p, {"appointment"})
  <2>1. BookIsMine(p, n, n - 1) /\ table["appointment"] # "none"
    BY <1>0, <1>1, <1>2, WritingAlone DEF SeedsAlone
  <2> QED BY <1>1, <1>2, <2>1, WritingAlone, NamedRows
<1>3. CASE Refused(p, {"appointment"})
  BY <1>1, <1>2, <1>3, WritingAlone, NobodyIsRefused
<1>4. CASE ~Refused(p, {"appointment"})
  <2>1. PICK past :
          /\ past # << >> /\ book' = [book EXCEPT ![Len(book)].past = past]
          /\ table' = [table EXCEPT !["statusHistory"] = Grow("statusHistory")]
          /\ at' = [at EXCEPT ![p] = "appointment"] /\ tid[p] = tenant
          /\ work' = [work EXCEPT ![p].pos = @ + 1]
          /\ UNCHANGED <<tenant, threads, tid, script, ended, disturbed>>
    <3>1. ASSUME NEW s PROVE <<"CREATED">> # << >> /\ <<"CREATED", s>> # << >>
      OBVIOUS
    <3>2. PICK past : /\ past = (IF book[Len(book)].status = "CONFIRMED" THEN <<"CREATED">>
                                 ELSE <<"CREATED", book[Len(book)].status>>)
                      /\ book' = [book EXCEPT ![Len(book)].past = past]
      BY <1>4 DEF CreateHistory
    <3>3. past # << >>
      BY <3>1, <3>2
    <3>4. /\ table' = [table EXCEPT !["statusHistory"] = Grow("statusHistory")]
          /\ at' = [at EXCEPT ![p] = "appointment"] /\ tid[p] = tenant
          /\ work' = [work EXCEPT ![p].pos = @ + 1]
          /\ UNCHANGED <<tenant, threads, tid, script, ended, disturbed>>
      BY <1>4 DEF CreateHistory, Named, Goto, NextPos, history
    <3> QED BY <3>2, <3>3, <3>4
  <2>2. /\ at'[p] = "appointment" /\ tenant # 0
        /\ TablesAreWell' /\ \A u \in Seeded : table'[u] = table[u]
    <3>1. at'[p] = "appointment" /\ tenant # 0
      BY <1>1, <2>1, WritingAlone DEF RepeatInv, DemoInv, DemoTypes
    <3>2. PICK x \in {"begun", "filled"} : table' = [table EXCEPT !["statusHistory"] = x]
      BY <2>1, GrowsBy
    <3>3. /\ TablesAreWell'
          /\ \A u \in Tables : table'[u] = IF u = "statusHistory" THEN x ELSE table[u]
      BY <2>1, <3>1, <3>2, WritesAreWell DEF RepeatInv
    <3> QED BY <3>1, <3>3, BookTables, FilledAre
  <2>3. /\ work'[p].pos = n + 1 /\ work'[p].slots = work[p].slots /\ n \in Nat
    <3>1. PICK v \in Timeline : v = work[p]
      BY WorkIsTyped DEF RepeatInv
    <3>2. work'[p] = [v EXCEPT !.pos = @ + 1]
      BY <2>1, <3>1 DEF RepeatInv, DemoInv, DemoTypes
    <3> QED BY <1>0, <3>1, <3>2 DEF Timeline
  <2>4. ASSUME Undisturbed(p) PROVE Progress(p)'
    <3>1. SeedsAlone(p)
      BY <1>1, <2>4, WritingAlone
    <3>2. SectionsAreFilled(p)'
      <4>1. HalfWay("appointment")'
        BY DEF HalfWay, Loops
      <4> QED BY <1>1, <2>2, <3>1, <4>1, WritingAlone, StagesAre, StageGoesOn, SMTT(30) DEF SeedsAlone
    <3>3. BookIsMine(p, n, n)'
      <4>1. /\ book \in Seq(Range(book)) /\ Len(book) = n /\ DOMAIN book = 1..n
            /\ \A k \in DOMAIN book : DOMAIN book[k] = Columns
        BY <1>1, <1>2, <2>4, WritingAlone, LenProperties
           DEF BookIsMine, RepeatInv, DemoInv, DemoTypes
      <4>2. DOMAIN book' = 1..n /\ \A k \in 1..n : k # n => book'[k] = book[k]
        BY <2>1, <4>1
      <4>3. Len(book') = n
        BY <2>1, <2>3, <4>1, <4>2
      <4>4. ASSUME n \in 1..n
            PROVE  /\ book'[n].slot = book[n].slot /\ book'[n].legs = book[n].legs
                   /\ book'[n].past # << >>
        <5>1. book'[n] = [book[n] EXCEPT !.past = past]
          BY <2>1, <4>1, <4>4
        <5> QED BY <2>1, <4>1, <4>4, <5>1 DEF Columns
      <4>5. ASSUME NEW k \in 1..n
            PROVE  /\ book'[k].slot = work[p].slots[k]
                   /\ \E blocking \in BOOLEAN : book'[k].legs = Legs(book'[k].slot, blocking)
                   /\ book'[k].past # << >>
        <5>1. /\ book[k].slot = work[p].slots[k]
              /\ \E blocking \in BOOLEAN : book[k].legs = Legs(book[k].slot, blocking)
              /\ k <= n - 1 => book[k].past # << >>
          BY <1>2, <2>4, <4>1 DEF BookIsMine
        <5>2. CASE k = n
          BY <4>4, <5>1, <5>2
        <5>3. CASE k # n
          <6>1. k <= n - 1
            BY <2>3, <5>3
          <6> QED BY <4>2, <5>1, <5>3, <6>1
        <5> QED BY <5>2, <5>3
      <4> QED BY <2>3, <4>2, <4>3, <4>5 DEF BookIsMine
    <3>4. work'[p].pos - 1 = n
      BY <2>3
    <3>5. SeedsAlone(p)'
      BY <1>1, <2>1, <2>2, <3>1, <3>2, <3>3, <3>4
         DEF SeedsAlone, ConversesWell, Owning, Filling, Placing, Writing, Connecting, Calling, Closing
    <3>6. "appointment" \in Sections
      BY DEF Sections, Owning, Writing
    <3> QED BY <2>2, <3>5, <3>6 DEF Progress
  <2> QED BY <1>1, <2>1, <2>2, <2>4, WritingAlone, ScriptGoesOn
<1> QED BY <1>3, <1>4

LEMMA BookIsWritten ==
    ASSUME RepeatInv, DemoInv', NEW p \in Terminals, AppointmentsDone(p)
    PROVE  RepeatInv'
<1> DEFINE n == work[p].pos
<1>1. at[p] = "appointment" /\ at[p] \in Writing /\ n > Len(work[p].slots)
  BY DEF AppointmentsDone, Writing
<1>2. /\ at' = [at EXCEPT ![p] = "subscription"] /\ work' = [work EXCEPT ![p] = NoWork]
      /\ UNCHANGED <<tenant, table, book, threads, tid, script, ended, disturbed>>
  BY DEF AppointmentsDone, Goto, Build, rows, history
<1>3. at'[p] = "subscription" /\ work'[p] = NoWork /\ TablesAreWell /\ TablesAreWell'
  BY <1>2 DEF RepeatInv, DemoInv, DemoTypes, TablesAreWell
<1>4. ASSUME Undisturbed(p) PROVE Progress(p)'
  <2>1. SeedsAlone(p)
    BY <1>1, <1>4, WritingAlone
  <2>2. BookIsDone'
    <3>1. BookIsMine(p, n - 1, n - 1) /\ n = Len(work[p].slots) + 1 /\ Len(work[p].slots) \in Nat
      <4>1. n \in 1..Len(work[p].slots) + 1 /\ Len(work[p].slots) \in Nat
        BY <1>1, WritingAlone, LenProperties DEF RepeatInv, DemoInv, BuildsWell
      <4> QED BY <1>1, <2>1, <4>1 DEF SeedsAlone
    <3>2. DOMAIN book = 1..Len(work[p].slots)
      BY <1>1, <3>1, WritingAlone, LenProperties DEF BookIsMine
    <3>3. ASSUME NEW k \in DOMAIN book PROVE book[k].past # << >> /\ book[k].legs # << >>
      <4>1. k <= n - 1
        BY <3>1, <3>2
      <4>2. PICK b \in BOOLEAN : book[k].legs = Legs(book[k].slot, b)
        BY <3>1 DEF BookIsMine
      <4>3. book[k].slot \in Slot
        BY DEF RepeatInv, DemoInv, RowIsClean
      <4> QED BY <3>1, <4>1, <4>2, <4>3, LegsAreApart DEF BookIsMine
    <3> QED BY <1>2, <3>3 DEF BookIsDone
  <2>3. SectionsAreFilled(p)'
    <3>1. Stage(at[p]) = 10 /\ Stage("subscription") = 11 /\ \A u \in Seeded : FilledIn(u) # 10
      BY <1>1, StagesAre, FilledAre
    <3> QED BY <1>2, <1>3, <2>1, <3>1, StageIsDone DEF SeedsAlone
  <2>4. SeedsAlone(p)'
    BY <1>1, <1>2, <1>3, <2>1, <2>2, <2>3
       DEF SeedsAlone, ConversesWell, Owning, Filling, Placing, Writing, Connecting, Calling, Closing
  <2>5. "subscription" \in Sections
    BY DEF Sections, Connecting
  <2> QED BY <1>3, <2>4, <2>5 DEF Progress
<1> QED BY <1>1, <1>2, <1>3, <1>4, WritingAlone, ScriptGoesOn

-----------------------------------------------------------------------------
(* The conversations *)

(* Every scenario begins with a word of the customer.                      *)
LEMMA CustomerBegins ==
    ASSUME NEW i \in DOMAIN Scenarios
    PROVE  LET senders == Scenarios[i].senders
           IN  Len(senders) \in Nat /\ DOMAIN senders = 1..Len(senders)
               /\ 1 \in 1..Len(senders) /\ senders[1] = "c"
<1>1. i \in 1..17 /\ Len(Scenarios) = 17
  BY DEF Scenarios
<1>2. Scenarios[i].senders \in
        {Short, Usual, Long, <<"c", "a", "a", "c", "a">>, <<"c", "a", "s", "c", "s", "c">>,
         <<"c", "a", "s", "c", "s">>, <<"c", "a", "s", "s", "c">>}
  BY <1>1 DEF Scenarios, Chat
<1>3. ASSUME NEW s \in {Short, Usual, Long, <<"c", "a", "a", "c", "a">>,
                        <<"c", "a", "s", "c", "s", "c">>, <<"c", "a", "s", "c", "s">>,
                        <<"c", "a", "s", "s", "c">>}
      PROVE  /\ Len(s) \in {3, 4, 5, 6} /\ DOMAIN s = 1..Len(s) /\ s[1] = "c"
  BY <1>3 DEF Short, Usual, Long
<1>4. PICK s : s = Scenarios[i].senders
  OBVIOUS
<1>5. Len(s) \in {3, 4, 5, 6} /\ DOMAIN s = 1..Len(s) /\ s[1] = "c"
  BY <1>2, <1>3, <1>4
<1>6. Len(s) \in Nat /\ 1 \in 1..Len(s)
  BY <1>5
<1> QED BY <1>4, <1>5, <1>6

LEMMA LatestIsLast ==
    ASSUME NEW n \in Nat, NEW T, T \subseteq 1..n, T # {}
    PROVE  Latest(T) \in T /\ \A j \in T : j <= Latest(T)
<1>1. PICK D : D = {n - x : x \in T}
  OBVIOUS
<1>2. D \subseteq Nat /\ D # {}
  <2>1. ASSUME NEW x \in T PROVE n - x \in Nat
    <3>1. x \in 1..n
      OBVIOUS
    <3> QED BY <3>1
  <2> QED BY <1>1, <2>1
<1>3. PICK d \in D : \A e \in D : d <= e
  BY <1>2, Smallest
<1>4. PICK k \in T : d = n - k
  BY <1>1
<1>5. \A j \in T : j <= k
  BY <1>1, <1>3, <1>4
<1> QED BY <1>4, <1>5 DEF Latest

(* What the telling of a scenario knows when it is alone.                  *)
LEMMA TellingAlone ==
    ASSUME RepeatInv, NEW p \in Terminals, at[p] \in Calling
    PROVE  /\ at[p] \in Sections /\ at[p] # "idle" /\ tid[p] # 0 /\ Stage(at[p]) = 15
           /\ Undisturbed(p) =>
                 /\ SeedsAlone(p) /\ BookIsDone /\ ConversesWell(p)
                 /\ \A u \in {"customer", "account"} : table[u] # "none"
<1>1. at[p] \in Sections /\ at[p] # "idle" /\ Stage(at[p]) = 15 /\ at[p] \notin Owning
  BY StagesAre DEF Sections, Owning, Filling, Placing, Writing, Calling
<1>2. tid[p] # 0
  BY <1>1 DEF RepeatInv, WorkersHaveTenants
<1>3. ASSUME Undisturbed(p)
      PROVE  /\ SeedsAlone(p) /\ BookIsDone /\ ConversesWell(p)
             /\ \A u \in {"customer", "account"} : table[u] # "none"
  <2>1. SeedsAlone(p)
    BY <1>1, <1>3 DEF RepeatInv, Progress
  <2>2. ASSUME NEW u \in {"customer", "account"} PROVE table[u] = "filled"
    <3>1. u \in Seeded /\ FilledIn(u) \in {9, 14}
      BY SeededTables, FilledAre
    <3> QED BY <1>1, <2>1, <3>1 DEF SeedsAlone, SectionsAreFilled
  <2> QED BY <1>1, <2>1, <2>2 DEF SeedsAlone
<1> QED BY <1>1, <1>2, <1>3

(* From one statement of a scenario to the next.                           *)
LEMMA TellingGoesOn ==
    ASSUME RepeatInv, DemoInv', NEW p \in Terminals, at[p] \in Calling,
           NEW place \in Calling, at' = [at EXCEPT ![p] = place],
           UNCHANGED <<tenant, book, tid, script, ended, disturbed>>,
           TablesAreWell', \A u \in Seeded : table'[u] = table[u],
           Undisturbed(p) => ConversesWell(p)'
    PROVE  RepeatInv'
<1>1. at'[p] = place /\ place \in Sections
  BY DEF RepeatInv, DemoInv, DemoTypes, Sections
<1>2. ASSUME Undisturbed(p) PROVE Progress(p)'
  <2>1. SeedsAlone(p) /\ BookIsDone /\ BookIsDone'
    BY <1>2, TellingAlone DEF BookIsDone
  <2>2. SectionsAreFilled(p)'
    <3>1. Stage(at[p]) = 15 /\ Stage(place) = 15
      BY StagesAre
    <3>2. HalfWay(place)'
      BY DEF HalfWay, Loops, Calling
    <3> QED BY <1>1, <2>1, <3>1, <3>2, StageGoesOn DEF SeedsAlone
  <2>3. SeedsAlone(p)'
    BY <1>1, <1>2, <2>1, <2>2
       DEF SeedsAlone, Owning, Filling, Placing, Writing, Connecting, Calling, Closing
  <2>4. place \notin {"find", "delete", "role", "plan", "existing", "tenant", "base", "ended",
                      "finished"}
    BY DEF Calling
  <2> QED BY <1>1, <2>3, <2>4 DEF Progress
<1>3. at[p] # "idle" /\ tid'[p] # 0
  BY TellingAlone
<1> QED BY <1>1, <1>2, <1>3, ScriptGoesOn

(* A statement of a scenario that writes a row of t.                        *)
LEMMA RowIsTold ==
    ASSUME RepeatInv, DemoInv', NEW p \in Terminals, NEW here \in Calling,
           NEW parents, NEW t \in Tables \ Seeded, NEW changed, NEW next \in Calling,
           Tell(p, here, parents, t, changed, next),
           Undisturbed(p) => \A u \in parents : table[u] # "none",
           Undisturbed(p) /\ ConversesWell(p) /\ at[p] = here /\ at'[p] = next
              /\ threads' = changed /\ work' = work
              /\ (t = "conversation" \/ table["conversation"] # "none"
                     => table'["conversation"] # "none")
           => ConversesWell(p)'
    PROVE  RepeatInv'
<1>1. at[p] = here /\ at[p] \in Calling
  BY DEF Tell
<1>2. Undisturbed(p) => Named(p, parents)
  BY <1>1, TellingAlone, NamedRows
<1>3. CASE Refused(p, parents)
  BY <1>1, <1>2, <1>3, TellingAlone, NobodyIsRefused
<1>4. CASE ~Refused(p, parents)
  <2>1. /\ tid[p] = tenant /\ threads' = changed /\ table' = [table EXCEPT ![t] = Grow(t)]
        /\ at' = [at EXCEPT ![p] = next]
        /\ UNCHANGED <<tenant, book, tid, work, script, ended, disturbed>>
    BY <1>4 DEF Tell, Named, Goto, local, history
  <2>2. PICK level \in {"begun", "filled"} : level = Grow(t)
    BY GrowsBy
  <2>3. /\ TablesAreWell'
        /\ \A u \in Tables : table'[u] = IF u = t THEN level ELSE table[u]
    BY <1>1, <2>1, <2>2, TellingAlone, WritesAreWell DEF RepeatInv
  <2>4. \A u \in Seeded : table'[u] = table[u]
    BY <2>3, FilledAre
  <2>5. t = "conversation" \/ table["conversation"] # "none" => table'["conversation"] # "none"
    BY <2>3, BookTables
  <2>6. at'[p] = next
    BY <2>1 DEF RepeatInv, DemoInv, DemoTypes
  <2>7. Undisturbed(p) => ConversesWell(p)'
    BY <1>1, <2>1, <2>5, <2>6, TellingAlone
  <2> QED BY <1>1, <2>1, <2>3, <2>4, <2>7, TellingGoesOn
<1> QED BY <1>3, <1>4

(* The last thread is another, those before it are what they were.         *)
LEMMA LastThreadChanges ==
    ASSUME NEW n \in Nat \ {0}, NEW x, ThreadsAre(n, n - 1),
           threads' = [threads EXCEPT ![n] = x]
    PROVE  ThreadsAre(n, n - 1)' /\ threads'[n] = x
<1>1. threads \in Seq(Range(threads)) /\ Len(threads) = n /\ DOMAIN threads = 1..n
  BY LenProperties DEF ThreadsAre
<1>2. PICK R : R = Range(threads) \cup {x}
  OBVIOUS
<1>3. threads \in Seq(R) /\ x \in R
  BY <1>1, <1>2, SeqMonotonic
<1>4. threads' \in Seq(R) /\ Len(threads') = n
  BY <1>1, <1>3, ExceptSeq
<1>5. threads' \in Seq(Range(threads'))
  BY <1>4, OwnRange
<1>6. threads'[n] = x /\ \A k \in 1..n - 1 : threads'[k] = threads[k]
  BY <1>1
<1>7. \A k \in 1..n - 1 : IsKept(k)'
  BY <1>6 DEF ThreadsAre, IsKept, Written, Opened
<1> QED BY <1>4, <1>5, <1>6, <1>7 DEF ThreadsAre

LEMMA ScenarioIsTold ==
    ASSUME RepeatInv, DemoInv', NEW p \in Terminals,
           \/ CreateConversation(p) \/ CreateMessages(p)
           \/ TouchConversation(p) \/ KeepConversation(p)
    PROVE  RepeatInv'
<1> USE DEF Calling
<1>1. {"conversation", "message", "summary", "context"} \subseteq Tables \ Seeded
  BY BookTables
<1>2. PICK n : n = work[p].pos
  OBVIOUS
<1>3. Len(Told) \in Nat /\ \A k \in 1..Len(Told) : Told[k] \in DOMAIN Scenarios
  BY DemoAssumption, LenProperties, ElementOfSeq
<1>4. ASSUME at[p] \in Calling, Undisturbed(p)
      PROVE  /\ n \in Nat \ {0} /\ ConversesWell(p)
             /\ \A u \in {"customer", "account"} : table[u] # "none"
             /\ at[p] # "conversation" => \A u \in {"conversation"} : table[u] # "none"
  BY <1>2, <1>3, <1>4, TellingAlone DEF ConversesWell
<1>5. CASE CreateConversation(p)
  <2>1. PICK row : /\ row = [chat |-> Scenario(p), last |-> 0, inbound |-> 0, kept |-> "nothing"]
                   /\ n <= Len(Told)
                   /\ Tell(p, "conversation", {"customer", "account"}, "conversation",
                           Append(threads, row), "message")
    BY <1>2, <1>5 DEF CreateConversation
  <2>2. at[p] = "conversation"
    BY <2>1 DEF Tell
  <2>3. ASSUME Undisturbed(p), ConversesWell(p), at'[p] = "message",
               threads' = Append(threads, row), work' = work, table'["conversation"] # "none"
        PROVE  ConversesWell(p)'
    <3>1. n \in Nat \ {0} /\ n \in 1..Len(Told) + 1 /\ ThreadsAre(n - 1, n - 1)
      BY <1>2, <1>4, <2>2, <2>3 DEF ConversesWell
    <3>2. threads \in Seq(Range(threads)) /\ Len(threads) = n - 1
      BY <3>1 DEF ThreadsAre
    <3>3. PICK R : R = Range(threads) \cup {row}
      OBVIOUS
    <3>4. threads \in Seq(R) /\ row \in R
      BY <3>2, <3>3, SeqMonotonic
    <3>5. /\ threads' \in Seq(R) /\ Len(threads') = Len(threads) + 1
          /\ \A k \in 1..Len(threads) : threads'[k] = threads[k]
          /\ threads'[Len(threads) + 1] = row
      BY <2>3, <3>4, AppendProperties
    <3>6. /\ threads' \in Seq(Range(threads')) /\ Len(threads') = n /\ threads'[n] = row
          /\ \A k \in 1..n - 1 : threads'[k] = threads[k]
      BY <3>1, <3>2, <3>5, OwnRange
    <3>7. ThreadsAre(n, n - 1)'
      <4>1. \A k \in 1..n - 1 : IsKept(k)'
        BY <3>1, <3>6 DEF ThreadsAre, IsKept, Written, Opened
      <4> QED BY <3>6, <4>1 DEF ThreadsAre
    <3>8. Opened(n)'
      BY <1>2, <2>1, <3>6 DEF Opened, Scenario
    <3> QED BY <1>2, <2>1, <2>3, <3>1, <3>7, <3>8 DEF ConversesWell
  <2> QED BY <1>1, <1>4, <2>1, <2>2, <2>3, RowIsTold
<1>6. CASE CreateMessages(p)
  <2>1. Tell(p, "message", {"conversation"}, "message", threads, "touch") /\ at[p] = "message"
    BY <1>6 DEF CreateMessages, Tell
  <2>2. ASSUME Undisturbed(p), ConversesWell(p), at'[p] = "touch",
               threads' = threads, work' = work,
               table["conversation"] # "none" => table'["conversation"] # "none"
        PROVE  ConversesWell(p)'
    BY <2>1, <2>2 DEF ConversesWell, ThreadsAre, IsKept, Written, Opened
  <2> QED BY <1>1, <1>4, <2>1, <2>2, RowIsTold
<1>7. CASE TouchConversation(p)
  <2> DEFINE senders == Scenario(p).senders
             theirs == {k \in DOMAIN senders : senders[k] = "c"}
             changed == [threads EXCEPT ![Len(threads)] =
                           [@ EXCEPT !.last = Len(senders), !.inbound = Latest(theirs)]]
  <2>1. Tell(p, "touch", {"conversation"}, "conversation", changed, "keep") /\ at[p] = "touch"
    BY <1>7 DEF TouchConversation, Tell
  <2>2. ASSUME Undisturbed(p), ConversesWell(p), at'[p] = "keep",
               threads' = changed, work' = work, table'["conversation"] # "none"
        PROVE  ConversesWell(p)'
    <3>1. /\ n \in Nat \ {0} /\ n \in 1..Len(Told) + 1 /\ n <= Len(Told)
          /\ ThreadsAre(n, n - 1) /\ Opened(n) /\ Len(threads) = n
      BY <1>2, <1>4, <2>1, <2>2 DEF ConversesWell, ThreadsAre
    <3>2. /\ Len(senders) \in Nat /\ DOMAIN senders = 1..Len(senders)
          /\ 1 \in 1..Len(senders) /\ senders[1] = "c"
      <4>1. n \in 1..Len(Told)
        BY <1>3, <3>1
      <4> QED BY <1>2, <1>3, <4>1, CustomerBegins DEF Scenario
    <3>3. Latest(theirs) \in theirs /\ \A j \in theirs : j <= Latest(theirs)
      <4>1. theirs \subseteq 1..Len(senders) /\ 1 \in theirs
        BY <3>2
      <4> HIDE DEF theirs, senders
      <4> QED BY <3>2, <4>1, LatestIsLast
    <3>4. PICK row : row = [threads[n] EXCEPT !.last = Len(senders), !.inbound = Latest(theirs)]
      OBVIOUS
    <3>5. /\ DOMAIN row = {"chat", "last", "inbound", "kept"}
          /\ row.chat = Scenario(p) /\ row.last = Len(senders) /\ row.inbound = Latest(theirs)
      <4> HIDE DEF theirs, senders
      <4> QED BY <1>2, <3>1, <3>4 DEF Opened, Scenario
    <3>6. ThreadsAre(n, n - 1)' /\ threads'[n] = row
      <4>1. threads' = [threads EXCEPT ![n] = row]
        <5>1. n \in DOMAIN threads
          BY <3>1, LenProperties DEF ThreadsAre
        <5> QED BY <2>2, <3>1, <3>4, <5>1
      <4> QED BY <3>1, <4>1, LastThreadChanges
    <3>7. Opened(n)'
      BY <1>2, <3>5, <3>6 DEF Opened, Scenario
    <3>8. Written(n)'
      <4>1. ASSUME NEW j \in Latest(theirs) + 1..Len(senders) PROVE senders[j] # "c"
        <5>1. j \in DOMAIN senders /\ ~(j <= Latest(theirs))
          BY <3>2, <3>3
        <5> QED BY <3>3, <5>1
      <4>2. Latest(theirs) \in 1..Len(senders) /\ senders[Latest(theirs)] = "c"
        BY <3>2, <3>3
      <4>3. threads'[n].chat.senders = senders
        BY <3>5, <3>6
      <4> HIDE DEF theirs, senders
      <4> QED BY <3>5, <3>6, <3>7, <4>1, <4>2, <4>3 DEF Written
    <3> HIDE DEF changed
    <3> QED BY <1>2, <2>2, <3>1, <3>6, <3>7, <3>8 DEF ConversesWell
  <2> HIDE DEF changed
  <2> QED BY <1>1, <1>4, <2>1, <2>2, RowIsTold
<1>8. CASE KeepConversation(p)
  <2>1. PICK kept \in {"summary", "context"} :
           Tell(p, "keep", {"conversation"}, kept,
                [threads EXCEPT ![Len(threads)] = [@ EXCEPT !.kept = kept]], "told")
    BY <1>8 DEF KeepConversation
  <2>2. at[p] = "keep"
    BY <2>1 DEF Tell
  <2>3. ASSUME Undisturbed(p), ConversesWell(p), at'[p] = "told",
               threads' = [threads EXCEPT ![Len(threads)] = [@ EXCEPT !.kept = kept]],
               work' = work, table["conversation"] # "none" => table'["conversation"] # "none"
        PROVE  ConversesWell(p)'
    <3>1. /\ n \in Nat \ {0} /\ n \in 1..Len(Told) + 1 /\ n <= Len(Told)
          /\ ThreadsAre(n, n - 1) /\ Opened(n) /\ Written(n) /\ Len(threads) = n
          /\ table'["conversation"] # "none"
      BY <1>2, <1>4, <2>2, <2>3 DEF ConversesWell, ThreadsAre
    <3>2. PICK row : row = [threads[n] EXCEPT !.kept = kept]
      OBVIOUS
    <3>3. /\ DOMAIN row = {"chat", "last", "inbound", "kept"}
          /\ row.chat = threads[n].chat /\ row.last = threads[n].last
          /\ row.inbound = threads[n].inbound /\ row.kept = kept
      BY <3>1, <3>2 DEF Opened
    <3>4. ThreadsAre(n, n - 1)' /\ threads'[n] = row
      <4>1. threads' = [threads EXCEPT ![n] = row]
        <5>1. n \in DOMAIN threads
          BY <3>1, LenProperties DEF ThreadsAre
        <5> QED BY <2>3, <3>1, <3>2, <5>1
      <4> QED BY <3>1, <4>1, LastThreadChanges
    <3>5. Opened(n)'
      BY <3>1, <3>3, <3>4 DEF Opened
    <3>6. IsKept(n)'
      <4>1. Written(n)'
        BY <3>1, <3>3, <3>4, <3>5 DEF Written
      <4>2. kept # "nothing"
        BY <2>1
      <4> QED BY <3>3, <3>4, <4>1, <4>2 DEF IsKept
    <3> QED BY <1>2, <2>3, <3>1, <3>4, <3>5, <3>6 DEF ConversesWell
  <2> QED BY <1>1, <1>4, <2>1, <2>2, <2>3, RowIsTold
<1> QED BY <1>5, <1>6, <1>7, <1>8

LEMMA NextIsTold ==
    ASSUME RepeatInv, DemoInv', NEW p \in Terminals, NextScenario(p)
    PROVE  RepeatInv'
<1> USE DEF Calling
<1>1. PICK n : n = work[p].pos
  OBVIOUS
<1>2. /\ at[p] \in Calling /\ at[p] \in {"told", "conversation"}
      /\ UNCHANGED <<tenant, table, book, threads, tid, script, ended, disturbed>>
  BY DEF NextScenario, Build, rows, history
<1>3. TablesAreWell /\ TablesAreWell' /\ Len(Told) \in Nat
  BY <1>2, DemoAssumption, LenProperties DEF RepeatInv, TablesAreWell
<1>4. CASE at[p] = "told"
  <2>1. /\ at' = [at EXCEPT ![p] = "conversation"]
        /\ work' = [work EXCEPT ![p] = [work[p] EXCEPT !.pos = @ + 1]]
    BY <1>4 DEF NextScenario, Goto, Build
  <2>2. at'[p] = "conversation" /\ work'[p].pos = n + 1 /\ n \in Nat
    <3>1. PICK v \in Timeline : v = work[p]
      BY WorkIsTyped DEF RepeatInv
    <3>2. work'[p] = [v EXCEPT !.pos = @ + 1]
      BY <2>1, <3>1 DEF RepeatInv, DemoInv, DemoTypes
    <3>3. at'[p] = "conversation"
      BY <2>1 DEF RepeatInv, DemoInv, DemoTypes
    <3> QED BY <1>1, <3>1, <3>2, <3>3 DEF Timeline
  <2>3. ASSUME Undisturbed(p) PROVE ConversesWell(p)'
    <3>1. n <= Len(Told) /\ n \in 1..Len(Told) + 1 /\ ThreadsAre(n, n - 1) /\ IsKept(n)
      BY <1>1, <1>2, <1>4, <2>3, TellingAlone DEF ConversesWell
    <3>2. ThreadsAre(n, n)'
      <4>1. \A k \in 1..n : IsKept(k)
        <5>1. \A k \in 1..n : k = n \/ k \in 1..n - 1
          BY <2>2
        <5> QED BY <3>1, <5>1 DEF ThreadsAre
      <4> QED BY <1>2, <3>1, <4>1 DEF ThreadsAre, IsKept, Written, Opened
    <3>3. work'[p].pos \in 1..Len(Told) + 1 /\ work'[p].pos - 1 = n
      BY <1>3, <2>2, <3>1
    <3> QED BY <2>2, <3>2, <3>3 DEF ConversesWell
  <2> QED BY <1>2, <1>3, <2>1, <2>3, TellingGoesOn
<1>5. CASE at[p] # "told"
  <2>1. /\ at[p] = "conversation" /\ n > Len(Told) /\ at' = [at EXCEPT ![p] = "prompts"]
        /\ work' = [work EXCEPT ![p] = NoWork]
    BY <1>1, <1>5 DEF NextScenario, Goto, Build
  <2>2. at'[p] = "prompts"
    BY <2>1 DEF RepeatInv, DemoInv, DemoTypes
  <2>3. ASSUME Undisturbed(p) PROVE Progress(p)'
    <3>1. SeedsAlone(p) /\ BookIsDone /\ BookIsDone' /\ ConversesWell(p)
      BY <1>2, <2>3, TellingAlone DEF BookIsDone
    <3>2. n = Len(Told) + 1 /\ n - 1 = Len(Told) /\ ThreadsAre(n - 1, n - 1)
      BY <1>1, <1>3, <2>1, <3>1 DEF ConversesWell
    <3>3. ThreadsAre(Len(Told), Len(Told))'
      BY <1>2, <3>2 DEF ThreadsAre, IsKept, Written, Opened
    <3>4. SectionsAreFilled(p)'
      <4>1. Stage(at[p]) = 15 /\ Stage("prompts") = 16 /\ \A u \in Seeded : FilledIn(u) # 15
        BY <1>2, StagesAre, FilledAre
      <4> QED BY <1>2, <1>3, <2>2, <3>1, <4>1, StageIsDone DEF SeedsAlone
    <3>5. SeedsAlone(p)'
      BY <1>2, <2>2, <3>1, <3>3, <3>4
         DEF SeedsAlone, ConversesWell, Owning, Filling, Placing, Writing, Connecting, Closing
    <3>6. "prompts" \in Sections
      BY DEF Sections
    <3> QED BY <2>2, <3>5, <3>6 DEF Progress
  <2>4. at[p] # "idle" /\ tid'[p] # 0
    BY <1>2, TellingAlone
  <2> QED BY <1>2, <1>3, <2>1, <2>3, <2>4, ScriptGoesOn
<1> QED BY <1>4, <1>5

(* The script that finishes alone may say that all is well.                *)
LEMMA ScriptExits ==
    ASSUME RepeatInv, DemoInv', NEW p \in Terminals, Exit(p)
    PROVE  RepeatInv'
<1>1. at[p] = "finished" /\ End(p, "ok")
  BY DEF Exit
<1>2. ASSUME Undisturbed(p) PROVE MayEnd(p, "ok")
  <2>1. SeedsAlone(p) \/ ResetsAlone(p)
    BY <1>1, <1>2 DEF RepeatInv, Progress
  <2>2. CASE SeedsAlone(p)
    <3>1. /\ script[p] = "demo:seed" /\ tenant = tid[p] /\ SectionsAreFilled(p) /\ BookIsDone
          /\ ThreadsAre(Len(Told), Len(Told))
      BY <1>1, <2>2
         DEF SeedsAlone, Owning, Filling, Placing, Writing, Closing
    <3>2. \A t \in Seeded : table[t] = "filled"
      <4>1. Stage(at[p]) = 18 /\ \A t \in Seeded : FilledIn(t) < 18
        BY <1>1, StagesAre, FilledAre
      <4> QED BY <3>1, <4>1 DEF SectionsAreFilled
    <3>3. DOMAIN threads = 1..Len(Told) /\ Len(threads) = Len(Told)
      BY <3>1, LenProperties DEF ThreadsAre
    <3>4. ASSUME NEW k \in DOMAIN threads
          PROVE  LET thread == threads[k]
                 IN  /\ thread.chat = Scenarios[Told[k]] /\ thread.kept # "nothing"
                     /\ thread.last = Len(thread.chat.senders)
                     /\ thread.inbound \in 1..thread.last
                     /\ thread.chat.senders[thread.inbound] = "c"
                     /\ \A j \in thread.inbound + 1..thread.last :
                           thread.chat.senders[j] # "c"
      BY <3>1, <3>3 DEF ThreadsAre, IsKept, Written, Opened
    <3>5. DemoIsWhole
      BY <3>1, <3>2, <3>3, <3>4 DEF DemoIsWhole, BookIsDone
    <3> QED BY <3>1, <3>5 DEF MayEnd
  <2>3. CASE ResetsAlone(p)
    <3>1. script[p] = "demo:reset" /\ tenant = 0
      BY <1>1, <2>3 DEF ResetsAlone
    <3>2. \A t \in Tables : table[t] = "none"
      BY <3>1 DEF RepeatInv, TablesAreWell
    <3> QED BY <3>1, <3>2 DEF MayEnd
  <2> QED BY <2>1, <2>2, <2>3
<1> QED BY <1>1, <1>2, ScriptEnds

-----------------------------------------------------------------------------
LEMMA RepeatBegins == DemoInit => RepeatInv
<1> SUFFICES ASSUME DemoInit PROVE RepeatInv
  OBVIOUS
<1>1. \A p \in Terminals : at[p] = "idle" /\ ~Undisturbed(p)
  BY DEF DemoInit, Undisturbed
<1>2. HistoryTypes /\ TablesAreWell
  BY DEF DemoInit, HistoryTypes, TablesAreWell
<1>3. "idle" \notin Sections \cup {"delete"}
  BY DEF Sections, Owning, Connecting, Calling, Filling, Placing, Writing
<1> QED BY <1>1, <1>2, <1>3, DemoBegins DEF RepeatInv, OthersAreIdle, WorkersHaveTenants

LEMMA RepeatStep == RepeatInv /\ [DemoNext]_demoVars => RepeatInv'
<1> SUFFICES ASSUME RepeatInv, [DemoNext]_demoVars PROVE RepeatInv'
  OBVIOUS
<1>0. DemoInv'
  BY DemoStep DEF RepeatInv
<1>1. ASSUME NEW p \in Terminals,
             \/ Start(p, "seed", "base") \/ Start(p, "demo:seed", "role")
             \/ Start(p, "demo:reset", "find")
      PROVE  RepeatInv'
  BY <1>0, <1>1, ScriptStarts
<1>2. ASSUME NEW p \in Terminals,
             \/ Interrupt(p) \/ Leave(p) \/ SeedBase(p)
             \/ FindRole(p) \/ FindPlan(p) \/ FindTenant(p) \/ CreateTenant(p)
      PROVE  RepeatInv'
  BY <1>0, <1>2, SeedAsks, ScriptLeaves, BasePartIsSeeded, TenantIsNew
<1>3. ASSUME NEW p \in Terminals,
             \/ SectionStep(p) \/ EncryptToken(p) \/ CreatePromptVersions(p)
             \/ BeginTimeline(p) \/ BeginDay(p) \/ AddSlot(p) \/ MarkOrigins(p)
             \/ CreateAppointment(p) \/ CreateHistory(p) \/ AppointmentsDone(p)
      PROVE  RepeatInv'
  BY <1>0, <1>3, SectionsAreWritten, SectionIsPassed, TimelineGoesOn, AppointmentIsAccepted,
     HistoryIsAccepted, BookIsWritten
<1>4. ASSUME NEW p \in Terminals,
             \/ CreateConversation(p) \/ CreateMessages(p) \/ TouchConversation(p)
             \/ KeepConversation(p) \/ NextScenario(p) \/ Exit(p)
      PROVE  RepeatInv'
  BY <1>0, <1>4, ScenarioIsTold, NextIsTold, ScriptExits
<1>5. ASSUME NEW p \in Terminals, FindDemoTenant(p) \/ DeleteMany(p) \/ DeleteTenant(p)
      PROVE  RepeatInv'
  BY <1>0, <1>5, ResetFinds, ResetDeletes, ResetEnds
<1>6. CASE RetirePlan \/ Use
  BY <1>0, <1>6, OthersInterfere
<1>7. CASE UNCHANGED demoVars
  <2>1. UNCHANGED <<base, tenant, made, table, book, threads, at, script, tid, work, ended,
                    disturbed>>
    BY <1>7 DEF demoVars, rows
  <2>2. HistoryTypes' /\ OthersAreIdle' /\ TablesAreWell' /\ WorkersHaveTenants'
    BY <2>1 DEF RepeatInv, HistoryTypes, OthersAreIdle, Undisturbed, TablesAreWell,
                WorkersHaveTenants
  <2>3. \A p \in Terminals : Undisturbed(p)' => Progress(p)'
    <3>1. \A p \in Terminals : MayEnd(p, ended[p])' = MayEnd(p, ended[p])
      BY <2>1 DEF MayEnd, DemoIsWhole
    <3>2. \A p \in Terminals : SectionsAreFilled(p) => SectionsAreFilled(p)'
      BY <2>1 DEF SectionsAreFilled, HalfWay
    <3>3. BookIsDone => BookIsDone'
      BY <2>1 DEF BookIsDone
    <3>4. \A p \in Terminals : ConversesWell(p) => ConversesWell(p)'
      <4> SUFFICES ASSUME NEW p \in Terminals, ConversesWell(p) PROVE ConversesWell(p)'
        OBVIOUS
      <4>1. UNCHANGED <<threads, at, work, table>>
        BY <2>1
      <4> QED BY ONLY <4>1, ConversesWell(p)
              DEF ConversesWell, ThreadsAre, IsKept, Written, Opened
    <3>5. \A p \in Terminals : SeedsAlone(p) => SeedsAlone(p)'
      BY <2>1, <3>2, <3>3, <3>4
         DEF SeedsAlone, BookIsMine, ThreadsAre, IsKept, Written, Opened
    <3>6. \A p \in Terminals : ResetsAlone(p) => ResetsAlone(p)'
      BY <2>1 DEF ResetsAlone
    <3> QED BY <2>1, <3>1, <3>5, <3>6 DEF RepeatInv, Undisturbed, Progress
  <2> QED BY <1>0, <2>2, <2>3 DEF RepeatInv
<1> QED BY <1>1, <1>2, <1>3, <1>4, <1>5, <1>6, <1>7
        DEF DemoNext, DemoSeed, DemoReset, SectionStep

(* The scripts can be run again from wherever earlier runs were broken off: *)
(* one that runs alone is refused by no constraint but that of an invitation *)
(* somebody sent from the demo tenant; a seed that ends well has left the   *)
(* whole salon, a reset that ends well nothing of it.                      *)
THEOREM DemoScriptsRepeat == DemoSpec => []ScriptsRepeat
<1>1. RepeatInv => ScriptsRepeat
  <2> SUFFICES ASSUME RepeatInv, NEW p \in Terminals, at[p] = "ended", ~disturbed[p]
               PROVE  MayEnd(p, ended[p])
    BY DEF ScriptsRepeat, MayEnd
  <2> QED BY DEF RepeatInv, Undisturbed, Progress
<1> QED BY <1>1, RepeatBegins, RepeatStep, PTL DEF DemoSpec
=============================================================================
