-------------------------------- MODULE Billing --------------------------------
(***************************************************************************)
(* The subscription of one tenant: the webhook path by which Stripe's      *)
(* events reach the local Subscription and Tenant.status (the billing      *)
(* WebhookIngestionService, the stripe-webhook queue,                      *)
(* StripeEventProcessorService, applyStripeSubscriptionEvent and           *)
(* syncStatusFromBilling), the owner's requests (cancel, reactivate,       *)
(* changePlan), which call Stripe and then write the same row, and the     *)
(* administrator's suspend and reactivate.                                 *)
(*                                                                         *)
(* Stripe's subscription is the reference: every change of it is an event  *)
(* that carries a snapshot.  Event i is the i-th one Stripe emits.         *)
(***************************************************************************)
EXTENDS Naturals, Sequences, FiniteSets

CONSTANTS
    MaxEvents,    \* bound: how many events Stripe emits
    Statuses,     \* the statuses Stripe's subscription can take
    Plans,        \* the active plans
    FirstPlan,    \* the plan of the trial
    Requests,     \* the requests of owner and administrator
    Kinds,        \* what the requests ask for
    Workers,      \* how many jobs can be worked on at once
    MaxAttempts,  \* the attempts a job is queued with
    Failures,     \* what can go wrong: "ingest", "evict", "job", "crash", "request"
    None

(* STRIPE_STATUS_MAP; a status that is not in it leaves the local one. *)
StripeStatusMap ==
    [trialing |-> "TRIALING", active |-> "ACTIVE", past_due |-> "PAST_DUE",
     canceled |-> "CANCELED", incomplete |-> "INCOMPLETE",
     incomplete_expired |-> "CANCELED", unpaid |-> "UNPAID"]

(* SUBSCRIPTION_TO_TENANT_STATUS; INCOMPLETE leaves the tenant as it is. *)
TenantStatusOf ==
    [TRIALING |-> "TRIAL", ACTIVE |-> "ACTIVE", PAST_DUE |-> "PAST_DUE",
     CANCELED |-> "CANCELLED", UNPAID |-> "SUSPENDED"]

(* What Stripe's subscription can become; "paused" is not in the map above. *)
StripeMoves ==
    [trialing |-> {"active", "past_due", "canceled", "paused"},
     active |-> {"past_due", "unpaid", "canceled"},
     past_due |-> {"active", "unpaid", "canceled"},
     unpaid |-> {"active", "canceled"},
     paused |-> {"active", "canceled"},
     incomplete |-> {"active", "incomplete_expired"},
     canceled |-> {}, incomplete_expired |-> {}]

Events == 1..MaxEvents

Snapshot == [status: Statuses, cancel: BOOLEAN, plan: Plans]

SubscriptionStatus ==
    {"TRIALING", "ACTIVE", "PAST_DUE", "CANCELED", "INCOMPLETE", "UNPAID"}

Subscription ==
    [status: SubscriptionStatus,
     cancel: BOOLEAN, plan: Plans, linked: BOOLEAN]

TenantStatus == {"TRIAL", "ACTIVE", "PAST_DUE", "SUSPENDED", "CANCELLED"}

ASSUME BillingAssumption ==
    /\ MaxEvents \in Nat /\ MaxAttempts \in Nat \ {0}
    /\ FirstPlan \in Plans
    /\ Statuses \subseteq DOMAIN StripeMoves
    /\ Failures \subseteq {"ingest", "evict", "job", "crash", "request"}
    /\ Kinds \subseteq {"cancel", "reactivate", "changePlan", "suspend", "unsuspend"}
    /\ None \notin Snapshot
    /\ None \notin {"PENDING", "PROCESSED", "FAILED"}
    /\ None \notin {"cancel", "reactivate", "changePlan", "suspend", "unsuspend"}

VARIABLES
    stripe,    \* Stripe's subscription, None until checkout is completed
    emitted,   \* the snapshots of the events Stripe has emitted
    acked,     \* the events that were answered 200, which Stripe stops sending
    dedup,     \* the events with a key dedup:stripe:{id} in Redis
    log,       \* log[i]: processing status of the webhook_logs row of i, or None
    job,       \* job[i]: where the stripe-webhook job of i is
    attempts,  \* attempts[i]: its failed attempts
    at,        \* at[i]: where the handler, then the run, of i stands
    seen,      \* seen[i]: the local status the run of i has read
    sub,       \* the tenant's subscriptions row
    applied,   \* history: the events that have been written to the row
    latest,    \* history: the one of them that was written last, 0 for none
    tenant,    \* Tenant.status
    req        \* req[r]: what request r asks for, where it stands, what it read,
               \* and whether it crossed another (see CallStripe)

vars == <<stripe, emitted, acked, dedup, log, job, attempts, at, seen,
          sub, applied, latest, tenant, req>>

remote == <<stripe, emitted>>
ingestion == <<acked, dedup>>
row == <<sub, applied, latest>>
local == <<row, tenant>>

Init ==
    /\ stripe = None
    /\ emitted = << >>
    /\ acked = {}
    /\ dedup = {}
    /\ log = [i \in Events |-> None]
    /\ job = [i \in Events |-> "none"]
    /\ attempts = [i \in Events |-> 0]
    /\ at = [i \in Events |-> "idle"]
    /\ seen = [i \in Events |-> "TRIALING"]
    /\ sub = [status |-> "TRIALING", cancel |-> FALSE, plan |-> FirstPlan, linked |-> FALSE]
    /\ applied = {} /\ latest = 0
    /\ tenant = "TRIAL"
    /\ req = [r \in Requests |-> [kind |-> None, at |-> "idle", plan |-> FirstPlan,
                                 linked |-> FALSE, crossed |-> FALSE]]

Goto(i, where) == at' = [at EXCEPT ![i] = where]

-----------------------------------------------------------------------------
(* Stripe *)

(* Stripe's subscription becomes s, and an event says so. *)
Emit(s) ==
    /\ Len(emitted) < MaxEvents
    /\ stripe' = s
    /\ emitted' = Append(emitted, s)

Alive == stripe # None /\ StripeMoves[stripe.status] # {}

(* The customer completes the checkout that createCheckoutSession started. *)
CompleteCheckout ==
    /\ stripe = None
    /\ \E s \in Statuses \cap {"trialing", "active", "incomplete"}, p \in Plans :
          Emit([status |-> s, cancel |-> FALSE, plan |-> p])
    /\ UNCHANGED <<ingestion, log, job, attempts, at, seen, local, req>>

(* A payment succeeds or fails, dunning runs out, a period ends. *)
ChangeStatus ==
    /\ Alive
    /\ \E s \in Statuses \cap StripeMoves[stripe.status] :
          Emit([stripe EXCEPT !.status = s])
    /\ UNCHANGED <<ingestion, log, job, attempts, at, seen, local, req>>

-----------------------------------------------------------------------------
(* WebhookIngestionService.ingest, one delivery of event i: Stripe delivers *)
(* again until it is answered, and in no particular order.                 *)

Delivered(i) ==
    i <= Len(emitted) /\ i \notin acked

(* The key is there: the delivery is a duplicate, and answered 200. *)
Duplicate(i) ==
    /\ Delivered(i) /\ i \in dedup
    /\ acked' = acked \cup {i}
    /\ UNCHANGED <<remote, dedup, log, job, attempts, at, seen, local, req>>

Claim(i) ==
    /\ Delivered(i) /\ i \notin dedup /\ at[i] = "idle"
    /\ dedup' = dedup \cup {i}
    /\ Goto(i, "persist")
    /\ UNCHANGED <<remote, acked, log, job, attempts, seen, local, req>>

(* The row outlived the key: nothing is queued, and the answer is 200. *)
AlreadyPersisted(i) ==
    /\ at[i] = "persist" /\ log[i] # None
    /\ acked' = acked \cup {i}
    /\ Goto(i, "idle")
    /\ UNCHANGED <<remote, dedup, log, job, attempts, seen, local, req>>

Persist(i) ==
    /\ at[i] = "persist" /\ log[i] = None
    /\ log' = [log EXCEPT ![i] = "PENDING"]
    /\ Goto(i, "enqueue")
    /\ UNCHANGED <<remote, ingestion, job, attempts, seen, local, req>>

Enqueue(i) ==
    /\ at[i] = "enqueue"
    /\ job' = [job EXCEPT ![i] = "waiting"]
    /\ acked' = acked \cup {i}
    /\ Goto(i, "idle")
    /\ UNCHANGED <<remote, dedup, log, attempts, seen, local, req>>

(* Database, Redis or process fail: no 200, and Stripe delivers again.     *)
(* The job may have been queued nevertheless.                              *)
IngestFails(i) ==
    /\ "ingest" \in Failures
    /\ at[i] \in {"persist", "enqueue"}
    /\ Goto(i, "idle")
    /\ job' \in {job, [job EXCEPT ![i] = IF at[i] = "enqueue" THEN "waiting" ELSE @]}
    /\ UNCHANGED <<remote, ingestion, log, attempts, seen, local, req>>

(* The key expires.  Once a job is queued, that makes no difference:       *)
(* AlreadyPersisted does what Duplicate does.                              *)
EvictDedup(i) ==
    /\ "evict" \in Failures
    /\ i \in dedup \ acked /\ at[i] = "idle" /\ job[i] = "none"
    /\ dedup' = dedup \ {i}
    /\ UNCHANGED <<remote, acked, log, job, attempts, at, seen, local, req>>

-----------------------------------------------------------------------------
(* StripeEventProcessorService.process, one run of the job of event i: a   *)
(* job that waits for its next attempt is overtaken by those behind it.    *)

Take(i) ==
    /\ job[i] = "waiting"
    /\ Cardinality({j \in Events : job[j] = "active"}) < Workers
    /\ job' = [job EXCEPT ![i] = "active"]
    /\ Goto(i, "read")
    /\ UNCHANGED <<remote, ingestion, log, attempts, seen, local, req>>

(* findByStripeCustomerId: the customer is known since the checkout. *)
ReadSubscription(i) ==
    /\ at[i] = "read"
    /\ seen' = [seen EXCEPT ![i] = sub.status]
    /\ Goto(i, "write")
    /\ UNCHANGED <<remote, ingestion, log, job, attempts, local, req>>

Recognised(i) == emitted[i].status \in DOMAIN StripeStatusMap

(* Faulty variant: a status without a name here is stored as it is. *)
MappedStatusRaw(i) ==
    IF Recognised(i) THEN StripeStatusMap[emitted[i].status] ELSE emitted[i].status

MappedStatus(i) ==
    IF Recognised(i) THEN StripeStatusMap[emitted[i].status] ELSE seen[i]

(* Faulty variant: the tenant is left alone unless the row has changed.    *)
SyncsChangeOnly(i) ==
    Recognised(i) /\ MappedStatus(i) \in DOMAIN TenantStatusOf /\ MappedStatus(i) # seen[i]

SyncsTenant(i) == Recognised(i) /\ MappedStatus(i) \in DOMAIN TenantStatusOf

Applied(i) == applied' = applied \cup {i} /\ latest' = i

(* Faulty variant: the plan is kept, whatever the price of the event. *)
WriteStatusOnly(i) ==
    /\ at[i] = "write"
    /\ Applied(i)
    /\ sub' = [sub EXCEPT !.status = MappedStatus(i), !.cancel = emitted[i].cancel,
                          !.linked = TRUE]
    /\ Goto(i, IF SyncsTenant(i) THEN "sync" ELSE "finish")
    /\ UNCHANGED <<remote, ingestion, log, job, attempts, seen, tenant, req>>

(* applyStripeSubscriptionEvent writes the snapshot over whatever is there. *)
WriteSubscription(i) ==
    /\ at[i] = "write"
    /\ Applied(i)
    /\ sub' = [status |-> MappedStatus(i), cancel |-> emitted[i].cancel,
               plan |-> emitted[i].plan, linked |-> TRUE]
    /\ Goto(i, IF SyncsTenant(i) THEN "sync" ELSE "finish")
    /\ UNCHANGED <<remote, ingestion, log, job, attempts, seen, tenant, req>>

(* syncStatusFromBilling: nothing to write when the tenant reads right. *)
ReadTenant(i) ==
    /\ at[i] = "sync"
    /\ Goto(i, IF tenant = TenantStatusOf[MappedStatus(i)] THEN "finish" ELSE "tenant")
    /\ UNCHANGED <<remote, ingestion, log, job, attempts, seen, local, req>>

WriteTenant(i) ==
    /\ at[i] = "tenant"
    /\ tenant' = TenantStatusOf[MappedStatus(i)]
    /\ Goto(i, "finish")
    /\ UNCHANGED <<remote, ingestion, log, job, attempts, seen, row, req>>

Finish(i) ==
    /\ at[i] = "finish"
    /\ log' = [log EXCEPT ![i] = "PROCESSED"]
    /\ Goto(i, "return")
    /\ UNCHANGED <<remote, ingestion, job, attempts, seen, local, req>>

Complete(i) ==
    /\ at[i] = "return"
    /\ job' = [job EXCEPT ![i] = "completed"]
    /\ Goto(i, "idle")
    /\ UNCHANGED <<remote, ingestion, log, attempts, seen, local, req>>

(* An error: the row is marked FAILED, unless that fails too or it was not *)
(* read yet, and BullMQ runs the job again or gives it up.                 *)
JobFails(i) ==
    /\ "job" \in Failures
    /\ at[i] \in {"read", "write", "sync", "tenant", "finish"}
    /\ log' \in {log, [log EXCEPT ![i] = "FAILED"]}
    /\ attempts' = [attempts EXCEPT ![i] = @ + 1]
    /\ job' = [job EXCEPT ![i] =
                 IF attempts[i] + 1 < MaxAttempts THEN "waiting" ELSE "failed"]
    /\ Goto(i, "idle")
    /\ UNCHANGED <<remote, ingestion, seen, local, req>>

(* The worker dies; which of the two, BullMQ's limit on stalls decides. *)
WorkerDies(i) ==
    /\ "crash" \in Failures
    /\ job[i] = "active"
    /\ \E state \in {"waiting", "failed"} : job' = [job EXCEPT ![i] = state]
    /\ Goto(i, "idle")
    /\ UNCHANGED <<remote, ingestion, log, attempts, seen, local, req>>

-----------------------------------------------------------------------------
(* Requests *)

(* A request has read the row it depends on, and goes to where. *)
Begin(r, kind, where, p) ==
    /\ req[r].at = "idle" /\ kind \in Kinds
    /\ req' = [req EXCEPT ![r] = [kind |-> kind, at |-> where, plan |-> p,
                                  linked |-> sub.linked, crossed |-> FALSE]]
    /\ UNCHANGED <<remote, ingestion, log, job, attempts, at, seen, local>>

Go(r, where) == req' = [req EXCEPT ![r].at = where]

RemoteOrLocal == IF sub.linked THEN "stripe" ELSE "local"

BeginCancel(r) ==
    Begin(r, "cancel",
          IF sub.cancel \/ sub.status = "CANCELED" THEN "done" ELSE RemoteOrLocal,
          FirstPlan)

BeginReactivate(r) ==
    Begin(r, "reactivate", IF sub.cancel /\ sub.linked THEN "stripe" ELSE "done", FirstPlan)

BeginChangePlan(r) ==
    \E p \in Plans :
        Begin(r, "changePlan", IF sub.plan = p THEN "done" ELSE RemoteOrLocal, p)

BeginSuspend(r) ==
    Begin(r, "suspend",
          IF tenant \in {"SUSPENDED", "CANCELLED"} THEN "done" ELSE "local", FirstPlan)

BeginUnsuspend(r) ==
    Begin(r, "unsuspend", IF tenant = "SUSPENDED" THEN "local" ELSE "done", FirstPlan)

(* The field that requests of a kind change. *)
FieldOf(kind) == CASE kind \in {"cancel", "reactivate"} -> "cancel"
                   [] kind = "changePlan" -> "plan"
                   [] OTHER -> "none"

(* Another request has changed the same field in Stripe, and has yet to    *)
(* write the row: the one that writes last need not be the one that Stripe *)
(* heard last.                                                             *)
Crosses(r) ==
    \E q \in Requests \ {r} :
        req[q].at = "local" /\ req[q].linked /\ FieldOf(req[q].kind) = FieldOf(req[r].kind)

(* cancelAtPeriodEnd, resumeSubscription or changeSubscriptionPrice: what  *)
(* Stripe's subscription becomes.  No event says what did not change, and  *)
(* a subscription that has ended meanwhile makes Stripe refuse.            *)
Requested(r) ==
    CASE req[r].kind = "cancel" -> [stripe EXCEPT !.cancel = TRUE]
      [] req[r].kind = "reactivate" -> [stripe EXCEPT !.cancel = FALSE]
      [] req[r].kind = "changePlan" -> [stripe EXCEPT !.plan = req[r].plan]

CallStripe(r) ==
    /\ req[r].at = "stripe"
    /\ \/ ~Alive /\ Go(r, "done") /\ UNCHANGED remote
       \/ Alive /\ Requested(r) = stripe /\ Go(r, "local") /\ UNCHANGED remote
       \/ /\ Alive /\ Requested(r) # stripe /\ Emit(Requested(r))
          /\ req' = [req EXCEPT ![r].at = "local", ![r].crossed = Crosses(r)]
    /\ UNCHANGED <<ingestion, log, job, attempts, at, seen, local>>

(* The local row is written last, over whatever events have made of it.    *)
WriteLocal(r) ==
    /\ req[r].at = "local"
    /\ \/ /\ req[r].kind = "cancel" /\ req[r].linked
          /\ sub' = [sub EXCEPT !.cancel = TRUE]
          /\ Go(r, "done") /\ UNCHANGED tenant
       \/ /\ req[r].kind = "cancel" /\ ~req[r].linked
          /\ sub' = [sub EXCEPT !.cancel = TRUE, !.status = "CANCELED"]
          /\ Go(r, "sync") /\ UNCHANGED tenant
       \/ /\ req[r].kind = "reactivate"
          /\ sub' = [sub EXCEPT !.cancel = FALSE]
          /\ Go(r, "done") /\ UNCHANGED tenant
       \/ /\ req[r].kind = "changePlan"
          /\ sub' = [sub EXCEPT !.plan = req[r].plan]
          /\ Go(r, "done") /\ UNCHANGED tenant
       \/ /\ req[r].kind = "suspend"
          /\ tenant' = "SUSPENDED"
          /\ Go(r, "done") /\ UNCHANGED sub
       \/ /\ req[r].kind = "unsuspend"
          /\ tenant' = "ACTIVE"
          /\ Go(r, "done") /\ UNCHANGED sub
    /\ UNCHANGED <<remote, ingestion, log, job, attempts, at, seen, applied, latest>>

(* The cancellation of a trial brings the tenant along, in two steps too. *)
SyncTrialCancel(r) ==
    /\ \/ /\ req[r].at = "sync" /\ UNCHANGED tenant
          /\ Go(r, IF tenant = "CANCELLED" THEN "done" ELSE "tenant")
       \/ req[r].at = "tenant" /\ tenant' = "CANCELLED" /\ Go(r, "done")
    /\ UNCHANGED <<remote, ingestion, log, job, attempts, at, seen, row>>

(* The process dies, or Stripe or the database fails, with r in flight. *)
RequestFails(r) ==
    /\ "request" \in Failures
    /\ req[r].at \in {"stripe", "local", "sync", "tenant"}
    /\ Go(r, "done")
    /\ UNCHANGED <<remote, ingestion, log, job, attempts, at, seen, local>>

-----------------------------------------------------------------------------
EventStep(i) ==
    \/ Duplicate(i) \/ Claim(i) \/ AlreadyPersisted(i) \/ Persist(i) \/ Enqueue(i)
    \/ Take(i) \/ ReadSubscription(i) \/ WriteSubscription(i)
    \/ ReadTenant(i) \/ WriteTenant(i) \/ Finish(i) \/ Complete(i)

RequestStep(r) ==
    \/ BeginCancel(r) \/ BeginReactivate(r) \/ BeginChangePlan(r)
    \/ BeginSuspend(r) \/ BeginUnsuspend(r)
    \/ CallStripe(r) \/ WriteLocal(r) \/ SyncTrialCancel(r) \/ RequestFails(r)

Next ==
    \/ CompleteCheckout \/ ChangeStatus
    \/ \E i \in Events :
          EventStep(i) \/ IngestFails(i) \/ EvictDedup(i) \/ JobFails(i) \/ WorkerDies(i)
    \/ \E r \in Requests : RequestStep(r)

Spec == Init /\ [][Next]_vars

-----------------------------------------------------------------------------
TypeOK ==
    /\ stripe \in Snapshot \cup {None}
    /\ emitted \in Seq(Snapshot)
    /\ acked \subseteq Events
    /\ dedup \subseteq Events
    /\ log \in [Events -> {None, "PENDING", "PROCESSED", "FAILED"}]
    /\ job \in [Events -> {"none", "waiting", "active", "completed", "failed"}]
    /\ attempts \in [Events -> Nat]
    /\ at \in [Events -> {"idle", "persist", "enqueue", "read", "write", "sync",
                          "tenant", "finish", "return"}]
    /\ seen \in [Events -> SubscriptionStatus]
    /\ sub \in Subscription
    /\ applied \subseteq Events
    /\ latest \in Events \cup {0}
    /\ tenant \in TenantStatus
    /\ req \in [Requests -> [kind: Kinds \cup {None},
                             at: {"idle", "stripe", "local", "sync", "tenant", "done"},
                             plan: Plans, linked: BOOLEAN, crossed: BOOLEAN]]

-----------------------------------------------------------------------------
(* Properties *)

(* Nothing is on its way: all that Stripe said has been taken in, and no   *)
(* request is running.                                                     *)
Quiet ==
    /\ \A i \in 1..Len(emitted) : i \in acked /\ at[i] = "idle" /\ job[i] = "completed"
    /\ \A r \in Requests : req[r].at \in {"idle", "done"}

(* The row says what Stripe says: the plan, a pending cancellation and,    *)
(* where the status has a name here, the status.                           *)
Follows ==
    /\ sub.plan = stripe.plan
    /\ sub.cancel = stripe.cancel
    /\ stripe.status \in DOMAIN StripeStatusMap => sub.status = StripeStatusMap[stripe.status]

(* The event that was written last is older than another that was written: *)
(* Stripe delivered them so, or the job of the older one was tried again   *)
(* when that of the newer one was through.                                 *)
Overtaken == \E j \in applied : latest < j

(* No request was decided on a row without a Stripe subscription, which it *)
(* then writes alone, and no two about the same field crossed.             *)
RequestsAgree ==
    \A r \in Requests :
        /\ req[r].kind \in {"cancel", "changePlan"} => req[r].linked
        /\ ~req[r].crossed

(* At rest the local row, which entitlements are computed from, says what  *)
(* Stripe says, unless an event was written over a newer one: whatever     *)
(* ingestion, jobs and requests fail or die on the way, in whatever order  *)
(* events and jobs are taken, the last one is neither lost nor undone, and *)
(* a request that died between Stripe and the database leaves nothing      *)
(* wrong.                                                                  *)
LocalFollowsStripe ==
    Quiet /\ stripe # None /\ RequestsAgree => Follows \/ Overtaken

(* "BullMQ's at-least-once redelivery on a transient failure is always     *)
(* safe to replay" (docs/STRIPE_INTEGRATION.md:87): to write an event once *)
(* more, when that of the last one is through, does not make a row that    *)
(* says what Stripe says say something else.                               *)
ReplayIsSafe ==
    [][\A i \in applied :
          WriteSubscription(i) /\ Follows /\ job[Len(emitted)] = "completed" => Follows']_vars

(* No request that writes a status by itself was made: an administrator's, *)
(* or a cancellation of the trial.                                         *)
StatusIsStripes ==
    \A r \in Requests :
        \/ req[r].kind \in {None, "reactivate", "changePlan"}
        \/ req[r].kind = "cancel" /\ req[r].linked

(* At rest the tenant is let in or kept out as its own subscription row    *)
(* says, although the two are written by separate statements of a job that *)
(* can fail between them.                                                  *)
TenantFollowsSubscription ==
    Quiet /\ StatusIsStripes /\ sub.status \in DOMAIN TenantStatusOf => tenant = TenantStatusOf[sub.status]
=============================================================================
