---------------------------- MODULE BillingProofs ----------------------------
(***************************************************************************)
(* Billing for any number of events, in any order, and of requests, plans, *)
(* statuses and attempts: the type invariant; the agreement of the row     *)
(* with Stripe, unless an event was written over a newer one, for any      *)
(* number of workers; and that of Tenant.status with the row, where one    *)
(* worker takes the jobs.                                                  *)
(***************************************************************************)
EXTENDS Billing, TLAPS, FiniteSetTheorems

LEMMA MapsTyped ==
    /\ \A s \in DOMAIN StripeStatusMap : StripeStatusMap[s] \in SubscriptionStatus
    /\ \A s \in DOMAIN TenantStatusOf : TenantStatusOf[s] \in TenantStatus
BY DEF StripeStatusMap, SubscriptionStatus, TenantStatusOf, TenantStatus

RunPoints == {"read", "write", "sync", "tenant", "finish", "return"}

(* What is being handled was emitted, and a run has got past the write     *)
(* only with a status that has a name here.                                *)
Handled(i) ==
    /\ at[i] # "idle" \/ job[i] # "none" => i <= Len(emitted)
    /\ at[i] \in {"sync", "tenant"} => SyncsTenant(i)

(* A request asks for nothing before it begins, has crossed none before    *)
(* Stripe has heard of it, goes to Stripe only about a subscription Stripe *)
(* knows, and brings the tenant along only when it   *)
(* has cancelled a trial on the row alone.                                 *)
Asked(r) ==
    /\ req[r].at = "idle" => req[r].kind = None
    /\ req[r].at \in {"idle", "stripe"} => ~req[r].crossed
    /\ req[r].at = "local" /\ req[r].kind = "reactivate" => req[r].linked
    /\ req[r].at = "stripe" =>
          req[r].kind \in {"cancel", "reactivate", "changePlan"} /\ req[r].linked
    /\ req[r].at \in {"sync", "tenant"} => req[r].kind = "cancel" /\ ~req[r].linked

TypeInv ==
    /\ TypeOK
    /\ \A i \in Events : Handled(i)
    /\ \A r \in Requests : Asked(r)

-----------------------------------------------------------------------------
LEMMA TypeInit == Init => TypeInv
<1> SUFFICES ASSUME Init PROVE TypeInv
  OBVIOUS
<1>1. TypeOK
  BY BillingAssumption DEF Init, TypeOK, Snapshot, Subscription, SubscriptionStatus, TenantStatus
<1>2. (\A i \in Events : Handled(i)) /\ (\A r \in Requests : Asked(r))
  BY DEF Init, Handled, Asked
<1> QED BY <1>1, <1>2 DEF TypeInv

(* An emitted event stays what it is. *)
LEMMA EmittedStays ==
    ASSUME TypeOK, NEW s \in Snapshot, emitted' = Append(emitted, s),
           NEW i \in Events, i <= Len(emitted)
    PROVE  i <= Len(emitted)' /\ emitted'[i] = emitted[i]
BY DEF TypeOK, Events

LEMMA EmittedTyped ==
    ASSUME TypeOK, NEW i \in Events, i <= Len(emitted)
    PROVE  emitted[i] \in Snapshot
BY DEF TypeOK, Events

LEMMA MappedTyped ==
    ASSUME TypeOK, NEW i \in Events, i <= Len(emitted)
    PROVE  /\ MappedStatus(i) \in SubscriptionStatus
           /\ SyncsTenant(i) => TenantStatusOf[MappedStatus(i)] \in TenantStatus
<1>1. seen[i] \in SubscriptionStatus
  BY DEF TypeOK
<1> QED BY <1>1, MapsTyped DEF MappedStatus, Recognised, SyncsTenant

(* Stripe's side of a step: one more event, or none. *)
Remote ==
    \/ UNCHANGED remote
    \/ \E s \in Snapshot : stripe' = s /\ emitted' = Append(emitted, s)

LEMMA HandledStays ==
    ASSUME TypeOK, NEW i \in Events, Handled(i), Remote,
           at'[i] = at[i], job'[i] = job[i], seen'[i] = seen[i]
    PROVE  Handled(i)'
<1>1. CASE UNCHANGED remote
  BY <1>1 DEF Handled, SyncsTenant, MappedStatus, Recognised, remote
<1>2. ASSUME NEW s \in Snapshot, emitted' = Append(emitted, s) PROVE Handled(i)'
  <2>1. i <= Len(emitted) => i <= Len(emitted)' /\ emitted'[i] = emitted[i]
    BY <1>2, EmittedStays
  <2> QED BY <2>1 DEF Handled, SyncsTenant, MappedStatus, Recognised
<1> QED BY <1>1, <1>2 DEF Remote

(* Every step of Stripe and of the requests. *)
Elsewhere ==
    \/ CompleteCheckout \/ ChangeStatus
    \/ \E r \in Requests : RequestStep(r)

Begins(r) ==
    BeginCancel(r) \/ BeginReactivate(r) \/ BeginChangePlan(r)
        \/ BeginSuspend(r) \/ BeginUnsuspend(r)

LEMMA StripeStep ==
    ASSUME TypeInv, CompleteCheckout \/ ChangeStatus
    PROVE  TypeOK' /\ Remote /\ UNCHANGED <<at, job, seen, req>>
<1> USE DEF TypeInv, TypeOK
<1>1. PICK s \in Snapshot : Emit(s)
  <2>1. CASE CompleteCheckout
    BY <2>1 DEF CompleteCheckout, Snapshot
  <2>2. CASE ChangeStatus
    BY <2>2 DEF ChangeStatus, Alive, Snapshot
  <2> QED BY <2>1, <2>2
<1>2. Remote
  BY <1>1 DEF Remote, Emit
<1>3. emitted' \in Seq(Snapshot) /\ stripe' \in Snapshot
  BY <1>1 DEF Emit
<1> QED BY <1>2, <1>3 DEF CompleteCheckout, ChangeStatus, ingestion, local, row

LEMMA RequestTyped ==
    ASSUME TypeInv, NEW r \in Requests, RequestStep(r)
    PROVE  TypeOK' /\ Remote /\ UNCHANGED <<at, job, seen>> /\ \A q \in Requests : Asked(q)'
<1> USE BillingAssumption DEF TypeInv, TypeOK
<1>1. ASSUME NEW kind, NEW where \in {"stripe", "local", "done"}, NEW p \in Plans,
             Begin(r, kind, where, p),
             where = "stripe" =>
                 kind \in {"cancel", "reactivate", "changePlan"} /\ sub.linked,
             where = "local" => kind # "reactivate"
      PROVE  TypeOK' /\ Remote /\ UNCHANGED <<at, job, seen>> /\ \A q \in Requests : Asked(q)'
  <2>1. sub.linked \in BOOLEAN
    BY DEF Subscription
  <2>2. req' = [req EXCEPT ![r] = [kind |-> kind, at |-> where, plan |-> p,
                                   linked |-> sub.linked, crossed |-> FALSE]]
    BY <1>1 DEF Begin
  <2>3. \A q \in Requests : Asked(q)'
    <3>1. /\ req'[r] = [kind |-> kind, at |-> where, plan |-> p, linked |-> sub.linked,
                         crossed |-> FALSE]
          /\ \A q \in Requests \ {r} : req'[q] = req[q]
      BY <2>2
    <3> QED BY <1>1, <3>1 DEF Asked
  <2> QED BY <1>1, <2>1, <2>2, <2>3 DEF Begin, Remote, ingestion, local, row, remote
<1>2. CASE Begins(r)
  BY <1>1, <1>2
  DEF Begins, BeginCancel, BeginReactivate, BeginChangePlan, BeginSuspend, BeginUnsuspend,
      RemoteOrLocal
<1>3. ASSUME NEW where \in {"local", "sync", "tenant", "done"}, NEW c \in BOOLEAN,
             req' = [req EXCEPT ![r].at = where, ![r].crossed = c],
             where = "local" /\ req[r].kind = "reactivate" => req[r].linked,
             where \in {"sync", "tenant"} => req[r].kind = "cancel" /\ ~req[r].linked
      PROVE  /\ req' \in [Requests -> [kind: Kinds \cup {None},
                             at: {"idle", "stripe", "local", "sync", "tenant", "done"},
                             plan: Plans, linked: BOOLEAN, crossed: BOOLEAN]]
             /\ \A q \in Requests : Asked(q)'
  <2> DEFINE New == [req[r] EXCEPT !.at = where, !.crossed = c]
  <2>1. req' = [req EXCEPT ![r] = New]
    BY <1>3
  <2>2. New \in [kind: Kinds \cup {None},
                 at: {"idle", "stripe", "local", "sync", "tenant", "done"},
                 plan: Plans, linked: BOOLEAN, crossed: BOOLEAN]
    <3>1. req[r] \in [kind: Kinds \cup {None},
                      at: {"idle", "stripe", "local", "sync", "tenant", "done"},
                      plan: Plans, linked: BOOLEAN, crossed: BOOLEAN]
      OBVIOUS
    <3> QED BY <1>3, <3>1
  <2>3. /\ New.at = where /\ New.kind = req[r].kind /\ New.linked = req[r].linked
        /\ where \notin {"idle", "stripe"}
    BY <1>3
  <2> HIDE DEF New
  <2>4. \A q \in Requests : Asked(q)'
    BY <1>3, <2>1, <2>2, <2>3 DEF Asked
  <2> QED BY <2>1, <2>2, <2>4
<1>8. ASSUME NEW where \in {"local", "sync", "tenant", "done"}, Go(r, where)
      PROVE  \E c \in BOOLEAN : req' = [req EXCEPT ![r].at = where, ![r].crossed = c]
  <2>1. req[r].crossed \in BOOLEAN
    OBVIOUS
  <2>2. req' = [req EXCEPT ![r].at = where, ![r].crossed = req[r].crossed]
    BY <1>8 DEF Go
  <2> QED BY <2>1, <2>2
<1>9. ASSUME NEW where \in {"local", "sync", "tenant", "done"}, Go(r, where),
             where = "local" /\ req[r].kind = "reactivate" => req[r].linked,
             where \in {"sync", "tenant"} => req[r].kind = "cancel" /\ ~req[r].linked
      PROVE  /\ req' \in [Requests -> [kind: Kinds \cup {None},
                             at: {"idle", "stripe", "local", "sync", "tenant", "done"},
                             plan: Plans, linked: BOOLEAN, crossed: BOOLEAN]]
             /\ \A q \in Requests : Asked(q)'
  <2>1. PICK c \in BOOLEAN : req' = [req EXCEPT ![r].at = where, ![r].crossed = c]
    BY <1>8, <1>9
  <2> QED BY <1>3, <1>9, <2>1
<1>4. CASE CallStripe(r)
  <2>1. req[r].kind \in {"cancel", "reactivate", "changePlan"} /\ req[r].plan \in Plans
    BY <1>4 DEF CallStripe, Asked
  <2>2. Alive => Requested(r) \in Snapshot
    BY <2>1 DEF Alive, Requested, Snapshot
  <2>3. UNCHANGED remote \/ (Alive /\ Emit(Requested(r)))
    BY <1>4 DEF CallStripe
  <2>4. Remote /\ stripe' \in Snapshot \cup {None} /\ emitted' \in Seq(Snapshot)
    <3>1. CASE UNCHANGED remote
      BY <3>1 DEF Remote, remote
    <3>2. ASSUME NEW s \in Snapshot, Emit(s)
          PROVE  Remote /\ stripe' \in Snapshot \cup {None} /\ emitted' \in Seq(Snapshot)
      BY <3>2 DEF Remote, Emit
    <3> QED BY <2>2, <2>3, <3>1, <3>2
  <2>5. PICK where \in {"local", "done"}, c \in BOOLEAN :
            req' = [req EXCEPT ![r].at = where, ![r].crossed = c]
    <3>1. Crosses(r) \in BOOLEAN
      BY DEF Crosses
    <3> QED BY <1>4, <1>8, <3>1 DEF CallStripe
  <2>6. req[r].linked
    BY <1>4 DEF CallStripe, Asked
  <2> QED BY <1>3, <1>4, <2>4, <2>5, <2>6 DEF CallStripe, ingestion, local, row
<1>5. CASE WriteLocal(r)
  <2>1. req[r].plan \in Plans
    OBVIOUS
  <2>2. sub' \in Subscription
    <3>1. \/ sub' = sub
          \/ \E c \in BOOLEAN : sub' = [sub EXCEPT !.cancel = c]
          \/ sub' = [sub EXCEPT !.cancel = TRUE, !.status = "CANCELED"]
          \/ sub' = [sub EXCEPT !.plan = req[r].plan]
      BY <1>5 DEF WriteLocal
    <3>2. \A c \in BOOLEAN : [sub EXCEPT !.cancel = c] \in Subscription
      BY DEF Subscription
    <3>3. [sub EXCEPT !.cancel = TRUE, !.status = "CANCELED"] \in Subscription
      BY DEF Subscription, SubscriptionStatus
    <3>4. [sub EXCEPT !.plan = req[r].plan] \in Subscription
      BY <2>1 DEF Subscription
    <3>5. sub \in Subscription
      OBVIOUS
    <3>6. CASE \E c \in BOOLEAN : sub' = [sub EXCEPT !.cancel = c]
      <4>1. PICK c \in BOOLEAN : sub' = [sub EXCEPT !.cancel = c]
        BY <3>6
      <4> QED BY <3>2, <4>1
    <3> QED BY <3>1, <3>3, <3>4, <3>5, <3>6
  <2>3. tenant' \in TenantStatus
    BY <1>5 DEF WriteLocal, TenantStatus
  <2>4. PICK where \in {"sync", "done"} :
            /\ Go(r, where)
            /\ where = "sync" => req[r].kind = "cancel" /\ ~req[r].linked
    BY <1>5 DEF WriteLocal
  <2> QED BY <1>9, <1>5, <2>2, <2>3, <2>4 DEF WriteLocal, ingestion, Remote, remote
<1>6. CASE SyncTrialCancel(r)
  <2>1. PICK where \in {"tenant", "done"} :
            /\ Go(r, where)
            /\ where = "tenant" => req[r].kind = "cancel" /\ ~req[r].linked
    BY <1>6 DEF SyncTrialCancel, Asked
  <2>2. tenant' \in TenantStatus
    BY <1>6 DEF SyncTrialCancel, TenantStatus
  <2> QED BY <1>9, <1>6, <2>1, <2>2 DEF SyncTrialCancel, ingestion, row, Remote, remote
<1>7. CASE RequestFails(r)
  BY <1>9, <1>7 DEF RequestFails, ingestion, local, row, Remote, remote
<1> QED BY <1>2, <1>4, <1>5, <1>6, <1>7 DEF RequestStep, Begins

(* A step of event i that emits nothing: only i need be looked at. *)
LEMMA EventTyped ==
    ASSUME TypeInv, NEW i \in Events,
           EventStep(i) \/ IngestFails(i) \/ EvictDedup(i) \/ JobFails(i) \/ WorkerDies(i)
    PROVE  /\ TypeOK' /\ Handled(i)' /\ UNCHANGED <<remote, req>>
           /\ \A j \in Events \ {i} :
                 at'[j] = at[j] /\ job'[j] = job[j] /\ seen'[j] = seen[j]
<1> USE BillingAssumption DEF TypeInv, TypeOK, remote, ingestion, local, row, Goto, Handled
<1>1. CASE Duplicate(i)
  BY <1>1 DEF Duplicate, Delivered, SyncsTenant, MappedStatus, Recognised
<1>2. CASE Claim(i)
  BY <1>2 DEF Claim, Delivered
<1>3. CASE AlreadyPersisted(i)
  BY <1>3 DEF AlreadyPersisted
<1>4. CASE Persist(i)
  BY <1>4 DEF Persist
<1>5. CASE Enqueue(i)
  BY <1>5 DEF Enqueue
<1>6. CASE Take(i)
  BY <1>6 DEF Take
<1>7. CASE ReadSubscription(i)
  <2>1. sub.status \in SubscriptionStatus
    BY DEF Subscription
  <2> QED BY <1>7, <2>1 DEF ReadSubscription
<1>8. CASE WriteSubscription(i)
  <2>1. i <= Len(emitted) /\ emitted[i] \in Snapshot /\ MappedStatus(i) \in SubscriptionStatus
    BY <1>8, EmittedTyped, MappedTyped DEF WriteSubscription
  <2>2. [status |-> MappedStatus(i), cancel |-> emitted[i].cancel,
         plan |-> emitted[i].plan, linked |-> TRUE] \in Subscription
    BY <2>1 DEF Snapshot, Subscription
  <2>4. applied' \subseteq Events /\ latest' \in Events \cup {0}
    BY <1>8 DEF WriteSubscription, Applied
  <2>3. SyncsTenant(i)' <=> SyncsTenant(i)
    BY <1>8 DEF WriteSubscription, SyncsTenant, MappedStatus, Recognised
  <2> QED BY <1>8, <2>1, <2>2, <2>3, <2>4 DEF WriteSubscription
<1>9. CASE ReadTenant(i)
  <2>1. SyncsTenant(i)' <=> SyncsTenant(i)
    BY <1>9 DEF ReadTenant, SyncsTenant, MappedStatus, Recognised
  <2> QED BY <1>9, <2>1 DEF ReadTenant
<1>10. CASE WriteTenant(i)
  <2>1. TenantStatusOf[MappedStatus(i)] \in TenantStatus
    BY <1>10, MappedTyped DEF WriteTenant
  <2> QED BY <1>10, <2>1 DEF WriteTenant
<1>11. CASE Finish(i) \/ Complete(i)
  BY <1>11, ZenonT(30) DEF Finish, Complete
<1>12. CASE IngestFails(i)
  BY <1>12 DEF IngestFails
<1>13. CASE EvictDedup(i)
  BY <1>13 DEF EvictDedup, SyncsTenant, MappedStatus, Recognised
<1>14. CASE JobFails(i)
  <2>1. log' \in [Events -> {None, "PENDING", "PROCESSED", "FAILED"}]
    BY <1>14 DEF JobFails
  <2>2. attempts' \in [Events -> Nat]
    BY <1>14 DEF JobFails
  <2>3. job' \in [Events -> {"none", "waiting", "active", "completed", "failed"}]
    BY <1>14 DEF JobFails
  <2> QED BY <1>14, <2>1, <2>2, <2>3 DEF JobFails
<1>15. CASE WorkerDies(i)
  BY <1>15 DEF WorkerDies
<1> QED
  BY <1>1, <1>2, <1>3, <1>4, <1>5, <1>6, <1>7, <1>8, <1>9, <1>10, <1>11, <1>12,
     <1>13, <1>14, <1>15 DEF EventStep

LEMMA TypeStep == TypeInv /\ [Next]_vars => TypeInv'
<1> SUFFICES ASSUME TypeInv, [Next]_vars PROVE TypeInv'
  OBVIOUS
<1>1. ASSUME TypeOK', Remote, UNCHANGED <<at, job, seen>>, \A q \in Requests : Asked(q)'
      PROVE  TypeInv'
  BY <1>1, HandledStays DEF TypeInv
<1>2. CASE CompleteCheckout \/ ChangeStatus
  <2>1. \A q \in Requests : Asked(q)'
    BY <1>2, StripeStep DEF TypeInv, Asked
  <2> QED BY <1>1, <1>2, <2>1, StripeStep
<1>3. ASSUME NEW r \in Requests, RequestStep(r) PROVE TypeInv'
  BY <1>1, <1>3, RequestTyped
<1>4. ASSUME NEW i \in Events,
             EventStep(i) \/ IngestFails(i) \/ EvictDedup(i) \/ JobFails(i) \/ WorkerDies(i)
      PROVE  TypeInv'
  <2>1. \A j \in Events \ {i} : Handled(j)'
    BY <1>4, EventTyped, HandledStays DEF TypeInv, Remote
  <2>2. \A q \in Requests : Asked(q)'
    BY <1>4, EventTyped DEF TypeInv, Asked
  <2> QED BY <1>4, <2>1, <2>2, EventTyped DEF TypeInv
<1>5. CASE UNCHANGED vars
  <2>1. TypeOK' /\ Remote /\ UNCHANGED <<at, job, seen>>
    BY <1>5 DEF TypeInv, TypeOK, Remote, remote, vars
  <2>2. \A q \in Requests : Asked(q)'
    BY <1>5 DEF TypeInv, Asked, vars
  <2> QED BY <1>1, <2>1, <2>2
<1> QED BY <1>2, <1>3, <1>4, <1>5 DEF Next

(* Type correctness: whatever Stripe's statuses are called, the subscription *)
(* row and the tenant hold names of their own enumerations.                 *)
THEOREM BillingTypeCorrect == Spec => []TypeOK
<1>1. TypeInv => TypeOK
  BY DEF TypeInv
<1> QED BY <1>1, TypeInit, TypeStep, PTL DEF Spec

-----------------------------------------------------------------------------
(* One worker. *)

Consistent == sub.status \in DOMAIN TenantStatusOf => tenant = TenantStatusOf[sub.status]

(* Event i is still to bring the tenant along with the row. *)
Settling(i) ==
    SyncsTenant(i) /\ (job[i] \in {"waiting", "failed"}
                       \/ at[i] \in {"read", "write", "sync", "tenant"})

(* The job of an event is active exactly while a run of it is under way,   *)
(* and queued only under its dedup key.                                    *)
AtWork(i) ==
    /\ at[i] \in RunPoints <=> job[i] = "active"
    /\ at[i] \in {"persist", "enqueue"} => job[i] = "none" /\ i \in dedup
    /\ job[i] # "none" => i \in dedup

(* While a run is under way the status is as the run has read or written it. *)
RowKnown(i) ==
    /\ at[i] = "write" => seen[i] = sub.status
    /\ at[i] \in {"sync", "tenant"} => sub.status = MappedStatus(i)

OneAtATime ==
    \A i, j \in Events : job[i] = "active" /\ job[j] = "active" => i = j

OneRun == (\A i \in Events : AtWork(i)) /\ OneAtATime

(* What the requests leave to Stripe's events, these settle. *)
Agreement ==
    StatusIsStripes =>
        /\ \A i \in Events : RowKnown(i)
        /\ Consistent \/ \E i \in Events : Settling(i)

(* With one worker, a job is taken only when none is active. *)
LEMMA TakenAlone ==
    ASSUME Workers = 1, TypeOK, NEW i \in Events, Take(i)
    PROVE  \A j \in Events : job[j] # "active"
<1> DEFINE Active == {j \in Events : job[j] = "active"}
<1>1. IsFiniteSet(Active)
  <2>1. IsFiniteSet(Events)
    BY BillingAssumption, FS_Interval DEF Events
  <2> QED BY <2>1, FS_Subset
<1>2. Cardinality(Active) < 1 /\ Cardinality(Active) \in Nat
  BY <1>1, FS_CardinalityType DEF Take
<1>3. Active = {}
  BY <1>1, <1>2, FS_EmptySet
<1> QED BY <1>3

(* The steps of an event, failures included. *)
EventAction(i) ==
    EventStep(i) \/ IngestFails(i) \/ EvictDedup(i) \/ JobFails(i) \/ WorkerDies(i)

(* Once begun, a request stays what it is, and what it has crossed. *)
LEMMA RequestKeeps ==
    ASSUME TypeInv, NEW r \in Requests,
           CallStripe(r) \/ WriteLocal(r) \/ SyncTrialCancel(r) \/ RequestFails(r)
    PROVE  \A q \in Requests :
              /\ req'[q].kind = req[q].kind /\ req'[q].linked = req[q].linked
              /\ req[q].crossed => req'[q].crossed
<1>1. ASSUME NEW where, Go(r, where)
      PROVE  \A q \in Requests :
                /\ req'[q].kind = req[q].kind /\ req'[q].linked = req[q].linked
                /\ req[q].crossed => req'[q].crossed
  BY <1>1 DEF Go, TypeInv, TypeOK
<1>2. CASE req[r].at = "stripe" /\ req' = [req EXCEPT ![r].at = "local", ![r].crossed = Crosses(r)]
  <2>1. ~req[r].crossed
    BY <1>2 DEF TypeInv, Asked
  <2>2. /\ req'[r].kind = req[r].kind /\ req'[r].linked = req[r].linked
        /\ \A q \in Requests \ {r} : req'[q] = req[q]
    BY <1>2 DEF TypeInv, TypeOK
  <2> QED BY <2>1, <2>2
<1>3. \/ \E where : Go(r, where)
      \/ req[r].at = "stripe" /\ req' = [req EXCEPT ![r].at = "local", ![r].crossed = Crosses(r)]
  BY DEF CallStripe, WriteLocal, SyncTrialCancel, RequestFails
<1> QED BY <1>1, <1>2, <1>3

(* No request that comes later makes up for one that wrote a status; and   *)
(* when there was none, requests leave the status and the tenant alone.    *)
LEMMA RequestLeavesStatus ==
    ASSUME TypeInv, NEW r \in Requests, RequestStep(r), StatusIsStripes'
    PROVE  /\ StatusIsStripes
           /\ sub'.status = sub.status /\ tenant' = tenant
<1> USE BillingAssumption DEF TypeInv, TypeOK, StatusIsStripes
<1>1. CASE Begins(r)
  <2>1. PICK new : req' = [req EXCEPT ![r] = new]
    BY <1>1 DEF Begins, BeginCancel, BeginReactivate, BeginChangePlan, BeginSuspend,
       BeginUnsuspend, Begin
  <2>2. UNCHANGED local /\ req[r].at = "idle"
    BY <1>1 DEF Begins, BeginCancel, BeginReactivate, BeginChangePlan, BeginSuspend,
       BeginUnsuspend, Begin
  <2>3. req[r].kind = None
    BY <2>2 DEF Asked
  <2> QED BY <2>1, <2>2, <2>3 DEF local, row
<1>2. ASSUME NEW where, Go(r, where)
      PROVE  StatusIsStripes
  <2>1. \A q \in Requests : req'[q].kind = req[q].kind /\ req'[q].linked = req[q].linked
    BY <1>2 DEF Go
  <2> QED BY <2>1
<1>3. CASE CallStripe(r) \/ RequestFails(r)
  <2>1. UNCHANGED local
    BY <1>3 DEF CallStripe, RequestFails
  <2>2. \A q \in Requests : req'[q].kind = req[q].kind /\ req'[q].linked = req[q].linked
    BY <1>3, RequestKeeps
  <2> QED BY <2>1, <2>2 DEF local, row
<1>4. CASE WriteLocal(r)
  <2>1. StatusIsStripes
    <3>1. \E where : Go(r, where)
      BY <1>4 DEF WriteLocal
    <3> QED BY <1>2, <3>1
  <2>2. \/ req[r].kind = "cancel" /\ req[r].linked
        \/ req[r].kind \in {"reactivate", "changePlan"}
    BY <1>4, <2>1 DEF WriteLocal
  <2>3. /\ tenant' = tenant
        /\ \/ \E c \in BOOLEAN : sub' = [sub EXCEPT !.cancel = c]
           \/ sub' = [sub EXCEPT !.plan = req[r].plan]
    BY <1>4, <2>2 DEF WriteLocal
  <2>4. sub \in Subscription
    OBVIOUS
  <2>5. sub'.status = sub.status
    BY <2>3, <2>4 DEF Subscription
  <2> QED BY <2>1, <2>3, <2>5
<1>5. CASE SyncTrialCancel(r)
  <2>1. StatusIsStripes
    <3>1. \E where : Go(r, where)
      BY <1>5 DEF SyncTrialCancel
    <3> QED BY <1>2, <3>1
  <2>2. req[r].kind = "cancel" /\ ~req[r].linked
    BY <1>5 DEF SyncTrialCancel, Asked
  <2> QED BY <2>1, <2>2
<1> QED BY <1>1, <1>3, <1>4, <1>5 DEF RequestStep, Begins

-----------------------------------------------------------------------------
(* One run at a time, each under its key. *)

LEMMA AtWorkStep ==
    ASSUME TypeInv, OneRun, NEW i \in Events, EventAction(i)
    PROVE  AtWork(i)'
<1> USE DEF TypeInv, TypeOK, OneRun, AtWork, RunPoints, Goto, ingestion
<1>1. CASE Duplicate(i) \/ Claim(i) \/ AlreadyPersisted(i) \/ Persist(i)
  BY <1>1 DEF Duplicate, Claim, AlreadyPersisted, Persist
<1>2. CASE Enqueue(i) \/ IngestFails(i) \/ EvictDedup(i)
  BY <1>2 DEF Enqueue, IngestFails, EvictDedup
<1>3. CASE Take(i) \/ ReadSubscription(i) \/ WriteSubscription(i)
  BY <1>3 DEF Take, ReadSubscription, WriteSubscription
<1>4. CASE ReadTenant(i) \/ WriteTenant(i) \/ Finish(i) \/ Complete(i)
  BY <1>4 DEF ReadTenant, WriteTenant, Finish, Complete
<1>5. CASE JobFails(i) \/ WorkerDies(i)
  BY <1>5 DEF JobFails, WorkerDies
<1> QED
  BY <1>1, <1>2, <1>3, <1>4, <1>5 DEF EventAction, EventStep

(* Only Take makes a job active. *)
LEMMA OnlyTaken ==
    ASSUME TypeInv, NEW i \in Events, EventAction(i), ~Take(i)
    PROVE  job'[i] = "active" => job[i] = "active"
BY DEF EventAction, EventStep, Duplicate, Claim, AlreadyPersisted, Persist, Enqueue,
   ReadSubscription, WriteSubscription, ReadTenant, WriteTenant, Finish, Complete,
   IngestFails, EvictDedup, JobFails, WorkerDies, TypeInv, TypeOK

LEMMA EventOneRun ==
    ASSUME Workers = 1, TypeInv, OneRun, NEW i \in Events, EventAction(i)
    PROVE  OneRun'
<1>1. \A j \in Events \ {i} : at'[j] = at[j] /\ job'[j] = job[j]
  BY EventTyped DEF EventAction
<1>2. \A j \in Events \ {i} : j \in dedup => j \in dedup'
  BY DEF EventAction, EventStep, Duplicate, Claim, AlreadyPersisted, Persist, Enqueue, Take,
     ReadSubscription, WriteSubscription, ReadTenant, WriteTenant, Finish, Complete,
     IngestFails, EvictDedup, JobFails, WorkerDies, ingestion
<1>3. \A j \in Events \ {i} : AtWork(j)'
  BY <1>1, <1>2 DEF OneRun, AtWork
<1>4. OneAtATime'
  <2>1. CASE Take(i)
    BY <1>1, <2>1, TakenAlone DEF TypeInv, OneAtATime
  <2>2. CASE ~Take(i)
    BY <1>1, <2>2, OnlyTaken DEF OneAtATime, OneRun
  <2> QED BY <2>1, <2>2
<1> QED BY <1>3, <1>4, AtWorkStep DEF OneRun

LEMMA OneRunInit == Init => OneRun
BY DEF Init, OneRun, AtWork, OneAtATime, RunPoints

LEMMA OneRunStep ==
    ASSUME Workers = 1, TypeInv, OneRun, [Next]_vars
    PROVE  OneRun'
<1>1. ASSUME UNCHANGED <<at, job, dedup>> PROVE OneRun'
  BY <1>1 DEF OneRun, AtWork, OneAtATime
<1>2. CASE CompleteCheckout \/ ChangeStatus
  BY <1>1, <1>2 DEF CompleteCheckout, ChangeStatus, ingestion
<1>3. ASSUME NEW r \in Requests, RequestStep(r) PROVE OneRun'
  BY <1>1, <1>3 DEF RequestStep, BeginCancel, BeginReactivate, BeginChangePlan, BeginSuspend,
     BeginUnsuspend, Begin, CallStripe, WriteLocal, SyncTrialCancel, RequestFails, ingestion
<1>4. ASSUME NEW i \in Events, EventAction(i) PROVE OneRun'
  BY <1>4, EventOneRun
<1>5. CASE UNCHANGED vars
  BY <1>1, <1>5 DEF vars
<1> QED BY <1>2, <1>3, <1>4, <1>5 DEF Next, EventAction

-----------------------------------------------------------------------------
(* The tenant follows the row. *)

(* No step that leaves the status of the row alone, and none of another    *)
(* event than the one at work, makes a run know it wrongly.                *)
LEMMA RowKnownStays ==
    ASSUME TypeInv, OneRun, Remote, NEW j \in Events, RowKnown(j),
           at'[j] = at[j], seen'[j] = seen[j],
           sub'.status = sub.status \/ job[j] # "active"
    PROVE  RowKnown(j)'
<1>1. at[j] \in {"sync", "tenant"} => j <= Len(emitted)
  BY DEF TypeInv, Handled
<1>2. at[j] \in {"sync", "tenant"} => MappedStatus(j)' = MappedStatus(j)
  BY <1>1, EmittedStays DEF Remote, TypeInv, MappedStatus, Recognised, remote
<1> QED BY <1>2 DEF RowKnown, OneRun, AtWork, RunPoints

LEMMA SettlingStays ==
    ASSUME TypeInv, Remote, NEW j \in Events, Settling(j),
           seen'[j] = seen[j] \/ Recognised(j),
           \/ job'[j] \in {"waiting", "failed"}
           \/ at'[j] \in {"read", "write", "sync", "tenant"}
    PROVE  Settling(j)'
<1>1. j <= Len(emitted)
  BY DEF TypeInv, Handled, Settling
<1>2. emitted'[j] = emitted[j]
  BY <1>1, EmittedStays DEF Remote, TypeInv, remote
<1>3. SyncsTenant(j)'
  BY <1>2 DEF Settling, SyncsTenant, MappedStatus, Recognised
<1> QED BY <1>3 DEF Settling

LEMMA AgreementInit == Init => Agreement
<1> SUFFICES ASSUME Init PROVE Agreement
  OBVIOUS
<1>1. Consistent
  BY DEF Init, Consistent, TenantStatusOf
<1> QED BY <1>1 DEF Init, Agreement, RowKnown

(* A step that leaves the status and the tenant alone loses nothing as     *)
(* long as what was settling still is.                                     *)
LEMMA NothingLost ==
    ASSUME TypeInv, Remote, sub'.status = sub.status, tenant' = tenant,
           Consistent \/ \E j \in Events : Settling(j),
           \A j \in Events : Settling(j) =>
              /\ seen'[j] = seen[j] \/ Recognised(j)
              /\ \/ job'[j] \in {"waiting", "failed"}
                 \/ at'[j] \in {"read", "write", "sync", "tenant"}
    PROVE  (Consistent \/ \E j \in Events : Settling(j))'
<1>1. CASE Consistent
  BY <1>1 DEF Consistent
<1>2. CASE \E j \in Events : Settling(j)
  BY <1>2, SettlingStays
<1> QED BY <1>1, <1>2

LEMMA RowKnownStep ==
    ASSUME TypeInv, OneRun, NEW i \in Events, EventAction(i), RowKnown(i)
    PROVE  RowKnown(i)'
<1> USE DEF TypeInv, TypeOK, RowKnown, Goto, remote, local, row
<1> DEFINE Unmapped == UNCHANGED <<emitted, seen>> => MappedStatus(i)' = MappedStatus(i)
<1>1. Unmapped
  BY DEF MappedStatus, Recognised
<1> HIDE DEF Unmapped
<1>2. CASE Duplicate(i) \/ Claim(i) \/ AlreadyPersisted(i) \/ Persist(i)
  BY <1>1, <1>2 DEF Duplicate, Claim, AlreadyPersisted, Persist, Unmapped
<1>3. CASE Enqueue(i) \/ IngestFails(i) \/ EvictDedup(i)
  BY <1>1, <1>3 DEF Enqueue, IngestFails, EvictDedup, Unmapped
<1>4. CASE Take(i) \/ ReadSubscription(i)
  BY <1>4 DEF Take, ReadSubscription
<1>5. CASE WriteSubscription(i)
  BY <1>1, <1>5 DEF WriteSubscription, Unmapped
<1>6. CASE ReadTenant(i) \/ WriteTenant(i) \/ Finish(i) \/ Complete(i)
  BY <1>1, <1>6 DEF ReadTenant, WriteTenant, Finish, Complete, Unmapped
<1>7. CASE JobFails(i) \/ WorkerDies(i)
  BY <1>7 DEF JobFails, WorkerDies
<1> QED
  BY <1>2, <1>3, <1>4, <1>5, <1>6, <1>7 DEF EventAction, EventStep

LEMMA OthersKnow ==
    ASSUME TypeInv, OneRun, NEW i \in Events, EventAction(i), NEW j \in Events, j # i,
           RowKnown(j)
    PROVE  RowKnown(j)'
<1>1. Remote /\ at'[j] = at[j] /\ seen'[j] = seen[j]
  BY EventTyped DEF EventAction, Remote
<1>2. sub' = sub \/ WriteSubscription(i)
  BY DEF EventAction, EventStep, Duplicate, Claim, AlreadyPersisted, Persist, Enqueue, Take,
     ReadSubscription, ReadTenant, WriteTenant, Finish, Complete,
     IngestFails, EvictDedup, JobFails, WorkerDies, local, row
<1>3. WriteSubscription(i) => job[j] # "active"
  BY DEF WriteSubscription, OneRun, AtWork, OneAtATime, RunPoints
<1> QED BY <1>1, <1>2, <1>3, RowKnownStays

(* The tenant comes along with the row, at once or when the job that owes  *)
(* it gets there.                                                          *)
LEMMA SettlingStep ==
    ASSUME TypeInv, OneRun, NEW i \in Events, EventAction(i), RowKnown(i),
           Consistent \/ \E j \in Events : Settling(j)
    PROVE  (Consistent \/ \E j \in Events : Settling(j))'
<1> DEFINE Goal == (Consistent \/ \E j \in Events : Settling(j))'
<1>1. /\ Remote
      /\ \A j \in Events \ {i} :
            at'[j] = at[j] /\ job'[j] = job[j] /\ seen'[j] = seen[j]
  BY EventTyped DEF EventAction, Remote
<1>2. ASSUME UNCHANGED local,
             Settling(i) =>
               /\ \/ job'[i] \in {"waiting", "failed"}
                  \/ at'[i] \in {"read", "write", "sync", "tenant"}
      PROVE  Goal
  <2>1. SyncsTenant(i) => Recognised(i)
    BY DEF SyncsTenant
  <2> QED BY <1>1, <1>2, <2>1, NothingLost DEF Settling, local, row
<1> USE DEF TypeInv, TypeOK, Goto
<1>3. CASE \/ Duplicate(i) \/ Claim(i) \/ AlreadyPersisted(i) \/ Persist(i) \/ Enqueue(i)
           \/ IngestFails(i) \/ EvictDedup(i)
  <2>1. UNCHANGED local
    BY <1>3 DEF Duplicate, Claim, AlreadyPersisted, Persist, Enqueue, IngestFails, EvictDedup
  <2>2. job[i] \in {"waiting", "failed"} \/ at[i] \in {"read", "write", "sync", "tenant"}
        => job'[i] = job[i] /\ at'[i] = at[i]
    BY <1>3 DEF Duplicate, Claim, AlreadyPersisted, Persist, Enqueue, IngestFails,
       EvictDedup, OneRun, AtWork
  <2> QED BY <1>2, <2>1, <2>2 DEF Settling
<1>4. CASE Take(i) \/ ReadSubscription(i) \/ JobFails(i) \/ WorkerDies(i)
  <2>1. UNCHANGED local
    BY <1>4 DEF Take, ReadSubscription, JobFails, WorkerDies, local, row
  <2>2. \/ job'[i] \in {"waiting", "failed"}
        \/ at'[i] \in {"read", "write", "sync", "tenant"}
    BY <1>4 DEF Take, ReadSubscription, JobFails, WorkerDies
  <2> QED BY <1>2, <2>1, <2>2
<1>5. CASE Finish(i) \/ Complete(i)
  <2>1. UNCHANGED local
    BY <1>5 DEF Finish, Complete, local, row
  <2>2. job[i] = "active" /\ at[i] \in {"finish", "return"}
    BY <1>5 DEF Finish, Complete, OneRun, AtWork, RunPoints
  <2> QED BY <1>2, <2>1, <2>2 DEF Settling
<1>6. CASE WriteTenant(i) \/ (ReadTenant(i) /\ tenant = TenantStatusOf[MappedStatus(i)])
  <2>1. sub.status = MappedStatus(i) /\ sub' = sub
    BY <1>6 DEF WriteTenant, ReadTenant, RowKnown, local, row
  <2>2. tenant' = TenantStatusOf[MappedStatus(i)]
    BY <1>6 DEF WriteTenant, ReadTenant, local, row
  <2> QED BY <2>1, <2>2 DEF Consistent
<1>7. CASE ReadTenant(i) /\ tenant # TenantStatusOf[MappedStatus(i)]
  <2>1. UNCHANGED local /\ at'[i] = "tenant"
    BY <1>7 DEF ReadTenant
  <2> QED BY <1>2, <2>1
<1>8. CASE WriteSubscription(i) /\ SyncsTenant(i)
  <2>1. at'[i] = "sync" /\ SyncsTenant(i)'
    BY <1>8 DEF WriteSubscription, SyncsTenant, MappedStatus, Recognised, remote
  <2> QED BY <2>1 DEF Settling
<1>9. CASE WriteSubscription(i) /\ ~SyncsTenant(i)
  <2>1. sub'.status = MappedStatus(i) /\ tenant' = tenant /\ seen[i] = sub.status
    BY <1>9 DEF WriteSubscription, RowKnown
  <2>2. CASE Recognised(i)
    BY <1>9, <2>1, <2>2 DEF SyncsTenant, Consistent
  <2>3. CASE ~Recognised(i)
    <3>1. sub'.status = sub.status
      BY <2>1, <2>3 DEF MappedStatus
    <3>2. CASE Consistent
      BY <2>1, <3>1, <3>2 DEF Consistent
    <3>3. ASSUME NEW j \in Events, Settling(j) PROVE Settling(j)'
      <4>1. j # i
        BY <1>9, <3>3 DEF Settling
      <4> QED BY <1>1, <3>3, <4>1, SettlingStays DEF Settling
    <3> QED BY <3>2, <3>3
  <2> QED BY <2>2, <2>3
<1> QED
  BY <1>3, <1>4, <1>5, <1>6, <1>7, <1>8, <1>9 DEF EventAction, EventStep

LEMMA AgreementStep ==
    ASSUME TypeInv, OneRun, Agreement, [Next]_vars
    PROVE  Agreement'
<1> SUFFICES ASSUME StatusIsStripes'
             PROVE  /\ \A i \in Events : RowKnown(i)'
                    /\ (Consistent \/ \E i \in Events : Settling(i))'
  BY DEF Agreement
<1> DEFINE Goal == /\ \A i \in Events : RowKnown(i)'
                   /\ (Consistent \/ \E i \in Events : Settling(i))'
<1>1. ASSUME StatusIsStripes, Remote, UNCHANGED <<at, job, seen, tenant>>,
             sub'.status = sub.status
      PROVE  Goal
  <2>1. \A i \in Events : RowKnown(i)'
    BY <1>1, RowKnownStays DEF Agreement
  <2>2. (Consistent \/ \E i \in Events : Settling(i))'
    BY <1>1, NothingLost DEF Agreement, Settling
  <2> QED BY <2>1, <2>2
<1>2. req' = req => StatusIsStripes
  BY DEF StatusIsStripes
<1>3. CASE CompleteCheckout \/ ChangeStatus
  <2>1. UNCHANGED local
    BY <1>3 DEF CompleteCheckout, ChangeStatus
  <2> QED BY <1>1, <1>2, <1>3, <2>1, StripeStep DEF local, row
<1>4. ASSUME NEW r \in Requests, RequestStep(r) PROVE Goal
  BY <1>1, <1>4, RequestTyped, RequestLeavesStatus
<1>5. ASSUME NEW i \in Events, EventAction(i) PROVE Goal
  <2>1. StatusIsStripes
    BY <1>2, <1>5, EventTyped DEF EventAction
  <2>2. \A j \in Events : RowKnown(j)'
    BY <1>5, <2>1, RowKnownStep, OthersKnow DEF Agreement
  <2>3. (Consistent \/ \E j \in Events : Settling(j))'
    BY <1>5, <2>1, SettlingStep DEF Agreement
  <2> QED BY <2>2, <2>3
<1>6. CASE UNCHANGED vars
  BY <1>1, <1>2, <1>6 DEF vars, Remote, remote
<1> QED BY <1>3, <1>4, <1>5, <1>6 DEF Next, EventAction

(* The tenant is let in or kept out as its subscription row says, once     *)
(* everything is taken in and no request wrote a status by itself: a job   *)
(* that failed between the two writes brings the tenant along when it is   *)
(* retried, whatever jobs and requests ran in between, and a status        *)
(* without a name here disturbs nothing.  It takes one worker.             *)
THEOREM TenantAgrees ==
    ASSUME Workers = 1
    PROVE  Spec => []TenantFollowsSubscription
<1>1. Init => TypeInv /\ OneRun /\ Agreement
  BY TypeInit, OneRunInit, AgreementInit
<1>2. TypeInv /\ OneRun /\ Agreement /\ [Next]_vars => (TypeInv /\ OneRun /\ Agreement)'
  BY TypeStep, OneRunStep, AgreementStep
<1>3. TypeInv /\ Agreement => TenantFollowsSubscription
  <2> SUFFICES ASSUME TypeInv, Agreement, Quiet, StatusIsStripes PROVE Consistent
    BY DEF TenantFollowsSubscription, Consistent
  <2>1. ASSUME NEW i \in Events, Settling(i) PROVE FALSE
    <3>1. i <= Len(emitted)
      BY <2>1 DEF TypeInv, Handled, Settling
    <3>2. i \in 1..Len(emitted)
      BY <3>1 DEF TypeInv, TypeOK, Events
    <3> QED BY <2>1, <3>2 DEF Quiet, Settling
  <2> QED BY <2>1 DEF Agreement
<1> QED BY <1>1, <1>2, <1>3, PTL DEF Spec

-----------------------------------------------------------------------------
(* The row follows Stripe. *)

(* A run past its write, or a job that is through, has written its event.  *)
Wrote(i) ==
    job[i] = "completed" \/ at[i] \in {"sync", "tenant", "finish", "return"} => i \in applied

(* What r is about to write is what Stripe has. *)
Agreed(r) ==
    req[r].at = "local" =>
        /\ req[r].kind = "cancel" => stripe.cancel = TRUE
        /\ req[r].kind = "reactivate" => stripe.cancel = FALSE
        /\ req[r].kind = "changePlan" => stripe.plan = req[r].plan

(* Stripe's subscription is what its last event said, who knows of it      *)
(* knows so from an event, and only what was emitted is written.           *)
LastWord ==
    /\ Len(emitted) <= MaxEvents
    /\ emitted = << >> => stripe = None
    /\ emitted # << >> => stripe = emitted[Len(emitted)]
    /\ sub.linked => emitted # << >>
    /\ \A r \in Requests : req[r].linked => emitted # << >>
    /\ \A i \in applied \cup {latest} : i <= Len(emitted)
    /\ latest = 0 => applied = {}

(* When the newest event is the one written last, the row says what Stripe *)
(* says: a request can only write what it has brought about in Stripe.     *)
Faithful ==
    RequestsAgree =>
        /\ latest # 0 /\ latest = Len(emitted) => Follows
        /\ \A r \in Requests : Agreed(r)

LEMMA FollowInit == Init => LastWord /\ Faithful /\ \A i \in Events : Wrote(i)
<1> SUFFICES ASSUME Init PROVE LastWord /\ Faithful /\ \A i \in Events : Wrote(i)
  OBVIOUS
<1>1. LastWord
  BY BillingAssumption DEF Init, LastWord
<1>2. Faithful /\ \A i \in Events : Wrote(i)
  BY DEF Init, Faithful, Agreed, Wrote
<1> QED BY <1>1, <1>2

(* Only an event's own write, of all its steps, changes the row. *)
LEMMA OthersLeaveRow ==
    ASSUME NEW i \in Events, EventAction(i), ~WriteSubscription(i)
    PROVE  UNCHANGED <<sub, applied, latest>>
BY DEF EventAction, EventStep, Duplicate, Claim, AlreadyPersisted, Persist, Enqueue, Take,
       ReadSubscription, ReadTenant, WriteTenant, Finish, Complete,
       IngestFails, EvictDedup, JobFails, WorkerDies, local, row

LEMMA WroteStep ==
    ASSUME TypeInv, \A i \in Events : Wrote(i), [Next]_vars
    PROVE  \A i \in Events : Wrote(i)'
<1> USE DEF TypeInv, TypeOK, Wrote, Goto
<1>1. ASSUME UNCHANGED <<at, job, applied>> PROVE \A i \in Events : Wrote(i)'
  BY <1>1
<1>2. CASE CompleteCheckout \/ ChangeStatus
  BY <1>1, <1>2 DEF CompleteCheckout, ChangeStatus, local, row
<1>3. ASSUME NEW r \in Requests, RequestStep(r) PROVE \A i \in Events : Wrote(i)'
  <2>1. UNCHANGED applied
    BY <1>3 DEF RequestStep, BeginCancel, BeginReactivate, BeginChangePlan, BeginSuspend,
       BeginUnsuspend, Begin, CallStripe, WriteLocal, SyncTrialCancel, RequestFails, local, row
  <2> QED BY <1>1, <1>3, <2>1, RequestTyped
<1>4. ASSUME NEW i \in Events, EventAction(i) PROVE \A j \in Events : Wrote(j)'
  <2>1. \A j \in Events \ {i} : at'[j] = at[j] /\ job'[j] = job[j]
    BY <1>4, EventTyped DEF EventAction
  <2>2. applied \subseteq applied'
    BY <1>4, OthersLeaveRow DEF WriteSubscription, Applied
  <2>3. CASE WriteSubscription(i)
    <3>1. i \in applied'
      BY <2>3 DEF WriteSubscription, Applied
    <3> QED BY <2>1, <2>2, <3>1
  <2>4. CASE ~WriteSubscription(i)
    <3>1. job'[i] = "completed" \/ at'[i] \in {"sync", "tenant", "finish", "return"} =>
            job[i] = "completed" \/ at[i] \in {"sync", "tenant", "finish", "return"}
      <4>1. CASE \/ Duplicate(i) \/ Claim(i) \/ AlreadyPersisted(i) \/ Persist(i) \/ Enqueue(i)
                 \/ IngestFails(i) \/ EvictDedup(i)
        BY <4>1 DEF Duplicate, Claim, AlreadyPersisted, Persist, Enqueue, IngestFails, EvictDedup
      <4>2. CASE \/ Take(i) \/ ReadSubscription(i) \/ ReadTenant(i) \/ WriteTenant(i)
                 \/ Finish(i) \/ Complete(i) \/ JobFails(i) \/ WorkerDies(i)
        BY <4>2 DEF Take, ReadSubscription, ReadTenant, WriteTenant, Finish, Complete,
           JobFails, WorkerDies
      <4> QED BY <1>4, <2>4, <4>1, <4>2 DEF EventAction, EventStep
    <3> QED BY <2>1, <2>2, <3>1
  <2> QED BY <2>3, <2>4
<1>5. CASE UNCHANGED vars
  BY <1>1, <1>5 DEF vars
<1> QED BY <1>2, <1>3, <1>4, <1>5 DEF Next, EventAction

LEMMA EmitLengthens ==
    ASSUME TypeInv, LastWord, NEW s, Emit(s)
    PROVE  /\ emitted' # << >> /\ stripe' = emitted'[Len(emitted')]
           /\ Len(emitted') = Len(emitted) + 1 /\ Len(emitted) \in Nat
           /\ Len(emitted') <= MaxEvents
<1> USE BillingAssumption DEF TypeInv, TypeOK
<1>1. /\ Len(emitted) \in Nat /\ emitted' = Append(emitted, s) /\ stripe' = s
      /\ Len(emitted) < MaxEvents
  BY DEF Emit
<1>2. emitted \in Seq(Snapshot \cup {s})
  OBVIOUS
<1> QED BY <1>1, <1>2

LEMMA LastWordStep ==
    ASSUME TypeInv, LastWord, [Next]_vars
    PROVE  LastWord'
<1> USE BillingAssumption DEF TypeInv, TypeOK
<1>1. ASSUME UNCHANGED <<stripe, emitted>> \/ \E s : Emit(s),
             UNCHANGED <<applied, latest>>, sub'.linked = sub.linked,
             \A q \in Requests : req'[q].linked => req[q].linked \/ sub.linked
      PROVE  LastWord'
  <2>1. CASE UNCHANGED <<stripe, emitted>>
    BY <1>1, <2>1 DEF LastWord
  <2>2. CASE \E s : Emit(s)
    <3>1. /\ emitted' # << >> /\ stripe' = emitted'[Len(emitted')]
          /\ Len(emitted') = Len(emitted) + 1 /\ Len(emitted) \in Nat
          /\ Len(emitted') <= MaxEvents
      BY <2>2, EmitLengthens
    <3>2. \A i \in applied \cup {latest} : i <= Len(emitted')
      <4>1. \A i \in applied \cup {latest} : i \in Nat /\ i <= Len(emitted)
        BY DEF LastWord, Events
      <4> QED BY <3>1, <4>1
    <3> QED BY <1>1, <3>1, <3>2 DEF LastWord
  <2> QED BY <1>1, <2>1, <2>2
<1>2. CASE CompleteCheckout \/ ChangeStatus
  <2>1. UNCHANGED <<sub, applied, latest, req>> /\ \E s : Emit(s)
    BY <1>2 DEF CompleteCheckout, ChangeStatus, local, row
  <2> QED BY <1>1, <2>1
<1>3. ASSUME NEW r \in Requests, Begins(r) PROVE LastWord'
  <2>1. PICK new : req' = [req EXCEPT ![r] = new] /\ new.linked = sub.linked
    BY <1>3 DEF Begins, BeginCancel, BeginReactivate, BeginChangePlan, BeginSuspend,
       BeginUnsuspend, Begin
  <2>2. UNCHANGED <<stripe, emitted, sub, applied, latest>>
    BY <1>3 DEF Begins, BeginCancel, BeginReactivate, BeginChangePlan, BeginSuspend,
       BeginUnsuspend, Begin, remote, local, row
  <2> QED BY <1>1, <2>1, <2>2
<1>4. ASSUME NEW r \in Requests,
             CallStripe(r) \/ WriteLocal(r) \/ RequestFails(r) \/ SyncTrialCancel(r)
      PROVE  LastWord'
  <2>1. \A q \in Requests : req'[q].linked = req[q].linked
    BY <1>4, RequestKeeps
  <2>2. UNCHANGED <<stripe, emitted>> \/ \E s : Emit(s)
    BY <1>4 DEF CallStripe, WriteLocal, RequestFails, SyncTrialCancel, remote
  <2>3. UNCHANGED <<applied, latest>>
    BY <1>4 DEF CallStripe, WriteLocal, RequestFails, SyncTrialCancel, local, row
  <2>4. sub'.linked = sub.linked
    <3>1. CASE WriteLocal(r)
      BY <3>1, ZenonT(30) DEF WriteLocal, Subscription
    <3>2. CASE ~WriteLocal(r)
      BY <1>4, <3>2 DEF CallStripe, RequestFails, SyncTrialCancel, local, row
    <3> QED BY <3>1, <3>2
  <2> QED BY <1>1, <2>1, <2>2, <2>3, <2>4
<1>5. ASSUME NEW i \in Events, EventAction(i) PROVE LastWord'
  <2>1. UNCHANGED <<stripe, emitted, req>>
    BY <1>5, EventTyped DEF EventAction, remote
  <2>2. CASE WriteSubscription(i)
    <3>1. i <= Len(emitted) /\ i \in 1..MaxEvents
      BY <2>2 DEF WriteSubscription, Handled, Events
    <3>2. emitted # << >> /\ i # 0
      BY <3>1
    <3>3. applied' = applied \cup {i} /\ latest' = i
      BY <2>2 DEF WriteSubscription, Applied
    <3> QED BY <2>1, <3>1, <3>2, <3>3 DEF LastWord
  <2>3. CASE ~WriteSubscription(i)
    BY <1>1, <1>5, <2>1, <2>3, OthersLeaveRow
  <2> QED BY <2>2, <2>3
<1>6. CASE UNCHANGED vars
  BY <1>1, <1>6 DEF vars
<1> QED
  BY <1>2, <1>3, <1>4, <1>5, <1>6 DEF Next, EventAction, RequestStep, Begins

(* A request that was decided on the row alone, or crossed another, is     *)
(* never forgotten.                                                        *)
LEMMA DisagreementStays ==
    ASSUME TypeInv, RequestsAgree', [Next]_vars
    PROVE  RequestsAgree
<1> USE BillingAssumption DEF TypeInv, TypeOK, RequestsAgree
<1>1. ASSUME req' = req PROVE RequestsAgree
  BY <1>1
<1>2. CASE CompleteCheckout \/ ChangeStatus \/ UNCHANGED vars
  BY <1>1, <1>2 DEF CompleteCheckout, ChangeStatus, vars
<1>3. ASSUME NEW i \in Events, EventAction(i) PROVE RequestsAgree
  BY <1>1, <1>3, EventTyped DEF EventAction
<1>4. ASSUME NEW r \in Requests, Begins(r) PROVE RequestsAgree
  <2>1. req[r].at = "idle" /\ \E new : req' = [req EXCEPT ![r] = new]
    BY <1>4 DEF Begins, BeginCancel, BeginReactivate, BeginChangePlan, BeginSuspend,
       BeginUnsuspend, Begin
  <2>2. req[r].kind = None /\ ~req[r].crossed
    BY <2>1 DEF Asked
  <2>3. \A q \in Requests \ {r} : req'[q] = req[q]
    BY <2>1
  <2> QED BY <2>2, <2>3
<1>5. ASSUME NEW r \in Requests,
             CallStripe(r) \/ WriteLocal(r) \/ SyncTrialCancel(r) \/ RequestFails(r)
      PROVE  RequestsAgree
  <2>1. \A q \in Requests : /\ req'[q].kind = req[q].kind /\ req'[q].linked = req[q].linked
                            /\ req[q].crossed => req'[q].crossed
    BY <1>5, RequestKeeps
  <2> QED BY <2>1
<1> QED
  BY <1>2, <1>3, <1>4, <1>5 DEF Next, EventAction, RequestStep, Begins

(* Stripe's own changes leave cancellation and plan alone. *)
LEMMA StripeKeeps ==
    ASSUME TypeInv, ChangeStatus
    PROVE  stripe # None /\ stripe'.cancel = stripe.cancel /\ stripe'.plan = stripe.plan
<1>1. Alive /\ \E s \in Statuses : stripe' = [stripe EXCEPT !.status = s]
  BY DEF ChangeStatus, Emit
<1>2. stripe # None /\ stripe \in Snapshot
  BY <1>1 DEF Alive, TypeInv, TypeOK
<1> QED BY <1>1, <1>2 DEF Snapshot

LEMMA EventFaithful ==
    ASSUME TypeInv, NEW i \in Events, EventAction(i), LastWord, RequestsAgree, Faithful
    PROVE  Faithful'
<1> USE DEF TypeInv, TypeOK
<1>1. UNCHANGED <<stripe, emitted, req>>
  BY EventTyped DEF EventAction, remote
<1>2. \A r \in Requests : Agreed(r)'
  BY <1>1 DEF Faithful, Agreed
<1>3. CASE WriteSubscription(i)
  <2>1. i <= Len(emitted) /\ i \in 1..MaxEvents /\ Len(emitted) \in Nat
    BY <1>3 DEF WriteSubscription, Handled, Events
  <2>2. ASSUME i = Len(emitted) PROVE Follows'
    <3>1. stripe = emitted[i]
      BY <2>1, <2>2 DEF LastWord
    <3>2. /\ sub'.status = MappedStatus(i) /\ sub'.cancel = emitted[i].cancel
          /\ sub'.plan = emitted[i].plan
      BY <1>3 DEF WriteSubscription
    <3> QED BY <1>1, <3>1, <3>2 DEF Follows, MappedStatus, Recognised
  <2>3. latest' = i
    BY <1>3 DEF WriteSubscription, Applied
  <2> QED BY <1>1, <1>2, <2>2, <2>3 DEF Faithful
<1>4. CASE ~WriteSubscription(i)
  BY <1>1, <1>2, <1>4, OthersLeaveRow DEF Faithful, Follows
<1> QED BY <1>3, <1>4

(* Nothing is written yet of what Stripe emits now. *)
LEMMA EmitFaithful ==
    ASSUME TypeInv, LastWord, NEW s, Emit(s), UNCHANGED latest,
           \A r \in Requests : Agreed(r)'
    PROVE  Faithful'
<1>1. Len(emitted') = Len(emitted) + 1 /\ Len(emitted) \in Nat
  BY EmitLengthens
<1>2. latest \in Nat /\ latest <= Len(emitted)
  BY BillingAssumption DEF LastWord, TypeInv, TypeOK, Events
<1> QED BY <1>1, <1>2 DEF Faithful

LEMMA RequestFaithful ==
    ASSUME TypeInv, NEW r \in Requests, RequestStep(r), LastWord,
           RequestsAgree', RequestsAgree, Faithful
    PROVE  Faithful'
<1> USE BillingAssumption DEF TypeInv, TypeOK
<1>1. ASSUME UNCHANGED <<stripe, emitted, sub, latest>>, Agreed(r)',
             \A q \in Requests \ {r} : req'[q] = req[q]
      PROVE  Faithful'
  <2>0. \A q \in Requests : Agreed(q)
    BY DEF Faithful
  <2>1. ASSUME NEW q \in Requests PROVE Agreed(q)'
    <3>1. CASE q = r
      BY <1>1, <3>1
    <3>2. CASE q # r
      <4>1. req'[q] = req[q] /\ stripe' = stripe /\ Agreed(q)
        BY <1>1, <2>0, <3>2
      <4> QED BY <4>1 DEF Agreed
    <3> QED BY <3>1, <3>2
  <2>2. latest # 0 /\ latest = Len(emitted) => Follows
    BY DEF Faithful
  <2>3. Follows => Follows'
    BY <1>1 DEF Follows
  <2> QED BY <1>1, <2>1, <2>2, <2>3 DEF Faithful
<1>2. CASE Begins(r)
  <2>1. PICK kind, where, p : Begin(r, kind, where, p) /\
          (where = "local" => kind \in {"suspend", "unsuspend"}
                              \/ (kind \in {"cancel", "changePlan"} /\ ~sub.linked))
    BY <1>2 DEF Begins, BeginCancel, BeginReactivate, BeginChangePlan, BeginSuspend,
       BeginUnsuspend, RemoteOrLocal
  <2>2. /\ req'[r] = [kind |-> kind, at |-> where, plan |-> p, linked |-> sub.linked,
                      crossed |-> FALSE]
        /\ \A q \in Requests \ {r} : req'[q] = req[q]
    BY <2>1 DEF Begin
  <2>3. UNCHANGED <<stripe, emitted, sub, latest>>
    BY <2>1 DEF Begin, remote, local, row
  <2>4. Agreed(r)'
    <3>1. /\ req'[r].kind = kind /\ req'[r].at = where /\ req'[r].linked = sub.linked
      BY <2>2
    <3>2. kind \in {"cancel", "changePlan"} => sub.linked
      BY <3>1 DEF RequestsAgree
    <3>3. req'[r].at = "local" => req'[r].kind \in {"suspend", "unsuspend"}
      BY <2>1, <3>1, <3>2
    <3> QED BY <3>3 DEF Agreed
  <2> QED BY <1>1, <2>2, <2>3, <2>4
<1>3. CASE CallStripe(r) /\ UNCHANGED remote
  <2>1. UNCHANGED <<stripe, emitted, sub, latest>>
    BY <1>3 DEF CallStripe, remote, local, row
  <2>2. CASE Go(r, "done")
    BY <1>1, <2>1, <2>2 DEF Go, Agreed
  <2>3. CASE Alive /\ Requested(r) = stripe /\ Go(r, "local")
    <3>1. stripe \in Snapshot
      BY <2>3 DEF Alive
    <3>2. /\ req[r].kind = "cancel" => stripe.cancel = TRUE
          /\ req[r].kind = "reactivate" => stripe.cancel = FALSE
          /\ req[r].kind = "changePlan" => stripe.plan = req[r].plan
      BY <2>3, <3>1 DEF Requested, Snapshot
    <3>3. /\ req'[r].kind = req[r].kind /\ req'[r].plan = req[r].plan
          /\ \A q \in Requests \ {r} : req'[q] = req[q]
      BY <2>3 DEF Go
    <3>4. Agreed(r)'
      BY <2>1, <3>2, <3>3 DEF Agreed
    <3> QED BY <1>1, <2>1, <3>3, <3>4
  <2>4. ~(\E s : Emit(s))
    <3>1. ASSUME NEW s, Emit(s) PROVE FALSE
      BY <1>3, <3>1, EmitLengthens DEF remote
    <3> QED BY <3>1
  <2> QED BY <1>3, <2>2, <2>3, <2>4 DEF CallStripe
<1>4. CASE CallStripe(r) /\ ~UNCHANGED remote
  <2>1. /\ Alive /\ Emit(Requested(r)) /\ sub' = sub /\ latest' = latest
        /\ req' = [req EXCEPT ![r].at = "local", ![r].crossed = Crosses(r)]
        /\ req[r].kind \in {"cancel", "reactivate", "changePlan"}
    BY <1>4 DEF CallStripe, Asked, local, row
  <2>2. stripe' = Requested(r) /\ stripe \in Snapshot
    BY <2>1 DEF Alive, Emit
  <2>3. req'[r].kind = req[r].kind /\ req'[r].plan = req[r].plan
    BY <2>1
  <2>4. /\ req[r].kind = "cancel" => stripe'.cancel = TRUE /\ stripe'.plan = stripe.plan
        /\ req[r].kind = "reactivate" => stripe'.cancel = FALSE /\ stripe'.plan = stripe.plan
        /\ req[r].kind = "changePlan" =>
              stripe'.plan = req[r].plan /\ stripe'.cancel = stripe.cancel
    BY <2>2 DEF Requested, Snapshot
  <2>5. Agreed(r)'
    BY <2>3, <2>4 DEF Agreed
  <2>6. ~Crosses(r)
    BY <2>1 DEF RequestsAgree
  <2>7. ASSUME NEW q \in Requests \ {r} PROVE Agreed(q)'
    <3> SUFFICES ASSUME req[q].at = "local",
                        req[q].kind \in {"cancel", "reactivate", "changePlan"}
                 PROVE  Agreed(q)'
      BY <2>1 DEF Agreed
    <3>1. req'[q] = req[q] /\ req[q].linked
      BY <2>1 DEF RequestsAgree, Asked
    <3>2. FieldOf(req[q].kind) # FieldOf(req[r].kind)
      BY <2>6, <3>1 DEF Crosses
    <3>3. \/ req[q].kind = "changePlan" /\ req[r].kind \in {"cancel", "reactivate"}
          \/ req[q].kind \in {"cancel", "reactivate"} /\ req[r].kind = "changePlan"
      BY <2>1, <3>2 DEF FieldOf
    <3> QED BY <2>4, <3>1, <3>3 DEF Faithful, Agreed
  <2> QED BY <2>1, <2>5, <2>7, EmitFaithful
<1>5. CASE WriteLocal(r)
  <2>0. req[r].kind \in {"cancel", "reactivate", "changePlan"} => req[r].linked
    BY <1>5 DEF RequestsAgree, WriteLocal, Asked
  <2>2. Agreed(r) /\ req[r].at = "local"
    BY <1>5 DEF Faithful, WriteLocal
  <2>3. sub \in Subscription
    OBVIOUS
  <2>4. ASSUME Follows PROVE Follows'
    <3>1. stripe' = stripe
      BY <1>5 DEF WriteLocal, remote
    <3>2. CASE req[r].kind = "cancel"
      <4>1. sub' = [sub EXCEPT !.cancel = TRUE]
        BY <1>5, <2>0, <3>2 DEF WriteLocal
      <4> QED BY <2>2, <2>3, <2>4, <3>1, <3>2, <4>1 DEF Follows, Agreed, Subscription
    <3>3. CASE req[r].kind = "reactivate"
      <4>1. sub' = [sub EXCEPT !.cancel = FALSE]
        BY <1>5, <3>3 DEF WriteLocal
      <4> QED BY <2>2, <2>3, <2>4, <3>1, <3>3, <4>1 DEF Follows, Agreed, Subscription
    <3>4. CASE req[r].kind = "changePlan"
      <4>1. sub' = [sub EXCEPT !.plan = req[r].plan]
        BY <1>5, <3>4 DEF WriteLocal
      <4> QED BY <2>2, <2>3, <2>4, <3>1, <3>4, <4>1 DEF Follows, Agreed, Subscription
    <3>5. CASE req[r].kind \notin {"cancel", "reactivate", "changePlan"}
      <4>1. sub' = sub
        BY <1>5, <3>5 DEF WriteLocal
      <4> QED BY <2>4, <3>1, <4>1 DEF Follows
    <3> QED BY <3>2, <3>3, <3>4, <3>5
  <2>5. UNCHANGED remote /\ \E where : Go(r, where) /\ where # "local"
    BY <1>5 DEF WriteLocal
  <2>6. \A q \in Requests : Agreed(q)'
    BY <2>5 DEF Go, Faithful, Agreed, remote
  <2>7. UNCHANGED <<emitted, latest>>
    BY <1>5 DEF WriteLocal, remote
  <2> QED BY <2>4, <2>6, <2>7 DEF Faithful
<1>6. CASE SyncTrialCancel(r) \/ RequestFails(r)
  <2>1. /\ UNCHANGED <<stripe, emitted, sub, latest>>
        /\ \E where : Go(r, where) /\ where # "local"
    BY <1>6 DEF SyncTrialCancel, RequestFails, remote, local, row
  <2>2. Agreed(r)' /\ \A q \in Requests \ {r} : req'[q] = req[q]
    BY <2>1 DEF Go, Agreed
  <2> QED BY <1>1, <2>1, <2>2
<1> QED BY <1>2, <1>3, <1>4, <1>5, <1>6 DEF RequestStep, Begins

LEMMA FaithfulStep ==
    ASSUME TypeInv, LastWord, Faithful, [Next]_vars
    PROVE  Faithful'
<1> SUFFICES ASSUME RequestsAgree' PROVE Faithful'
  BY DEF Faithful
<1>0. RequestsAgree
  BY DisagreementStays
<1>1. CASE CompleteCheckout
  <2>1. (\E s : Emit(s)) /\ UNCHANGED <<req, latest>> /\ stripe = None
    BY <1>1 DEF CompleteCheckout, local, row
  <2>2. ASSUME NEW r \in Requests, req[r].at = "local"
        PROVE  req[r].kind \notin {"cancel", "reactivate", "changePlan"}
    <3>1. emitted = << >>
      <4>1. ASSUME emitted # << >> PROVE FALSE
        <5>1. Len(emitted) \in 1..Len(emitted) /\ emitted[Len(emitted)] \in Snapshot
          BY <4>1 DEF TypeInv, TypeOK
        <5> QED BY <2>1, <4>1, <5>1, BillingAssumption DEF LastWord
      <4> QED BY <4>1
    <3>2. ~req[r].linked
      BY <3>1 DEF LastWord
    <3> QED BY <1>0, <2>2, <3>2 DEF RequestsAgree, TypeInv, Asked
  <2>3. \A r \in Requests : Agreed(r)'
    BY <2>1, <2>2 DEF Agreed
  <2> QED BY <2>1, <2>3, EmitFaithful
<1>2. CASE ChangeStatus
  <2>1. (\E s : Emit(s)) /\ UNCHANGED <<req, latest>>
    BY <1>2 DEF ChangeStatus, local, row
  <2>2. \A r \in Requests : Agreed(r)'
    BY <1>0, <1>2, <2>1, StripeKeeps DEF Faithful, Agreed
  <2> QED BY <2>1, <2>2, EmitFaithful
<1>3. ASSUME NEW i \in Events, EventAction(i) PROVE Faithful'
  BY <1>0, <1>3, EventFaithful
<1>4. ASSUME NEW r \in Requests, RequestStep(r) PROVE Faithful'
  BY <1>0, <1>4, RequestFaithful
<1>5. CASE UNCHANGED vars
  BY <1>5 DEF vars, Faithful, Follows, Agreed, RequestsAgree
<1> QED BY <1>1, <1>2, <1>3, <1>4, <1>5 DEF Next, EventAction

(* At rest the local row says what Stripe says, unless an event was        *)
(* written over a newer one: for any events, statuses and plans, taken in  *)
(* any order by any number of workers, any jobs that fail, die and are     *)
(* tried again, and any requests, which may die after Stripe has heard of  *)
(* them, as long as no two of them crossed about the same field.           *)
THEOREM RowFollowsStripe == Spec => []LocalFollowsStripe
<1> DEFINE IInv == TypeInv /\ LastWord /\ Faithful /\ \A i \in Events : Wrote(i)
<1>1. Init => IInv
  BY TypeInit, FollowInit
<1>2. IInv /\ [Next]_vars => IInv'
  BY TypeStep, LastWordStep, FaithfulStep, WroteStep
<1>3. IInv => LocalFollowsStripe
  <2> SUFFICES ASSUME IInv, Quiet, stripe # None, RequestsAgree, ~Overtaken PROVE Follows
    BY DEF LocalFollowsStripe
  <2>1. Len(emitted) \in 1..Len(emitted) /\ Len(emitted) \in Events
    <3>1. Len(emitted) \in 1..Len(emitted) /\ Len(emitted) <= MaxEvents
      BY DEF LastWord, TypeInv, TypeOK
    <3> QED BY <3>1, BillingAssumption DEF Events
  <2>2. Len(emitted) \in applied
    BY <2>1 DEF Quiet, Wrote
  <2>3. latest \in Nat /\ latest <= Len(emitted) /\ ~(latest < Len(emitted))
    BY <2>2, BillingAssumption DEF Overtaken, LastWord, TypeInv, TypeOK, Events
  <2>4. latest = Len(emitted) /\ latest # 0
    BY <2>1, <2>3
  <2> QED BY <2>4 DEF Faithful
<1> QED BY <1>1, <1>2, <1>3, PTL DEF Spec
=============================================================================
