-------------------------------- MODULE Checkout --------------------------------
(***************************************************************************)
(* POST /subscriptions: IdempotencyInterceptor, which answers a repeated   *)
(* key from Redis, around CheckoutService.createCheckoutSession, which     *)
(* makes the tenant's Stripe customer when there is none yet, redeems a    *)
(* coupon and opens a Checkout session, and Stripe's event about what was  *)
(* paid, which finds the tenant by that customer.                          *)
(*                                                                         *)
(* Everything is about one tenant, one plan and one coupon.  A request     *)
(* runs statement by statement, interleaved with the others.               *)
(***************************************************************************)
EXTENDS Naturals, FiniteSets

CONSTANTS
    Requests,        \* the calls of POST /subscriptions
    Keys,            \* Idempotency-Key headers
    MaxRedemptions,  \* maxRedemptions of the coupon
    None

Bodies == {"plain", "coupon"}
Refusals == {"keyReused", "noPlan", "badCoupon", "error"}

ASSUME CheckoutAssumption ==
    /\ MaxRedemptions \in Nat
    /\ None \notin Requests \cup Keys \cup Refusals \cup {"absent"}
    /\ None \notin [body: Bodies, answer: Requests]
    /\ Requests \cap (Refusals \cup {"absent"}) = {}

VARIABLES
    stored,     \* stored[k]: what Redis holds under idempotency:{tenant}:{k}, or None
    row,        \* the Subscription row: its stripeCustomerId; "absent" without a row
    customers,  \* the Stripe customers, named by the request that made them
    plan,       \* isActive of the plan
    coupon,     \* redemptionCount
    sessions,   \* the Checkout sessions at Stripe, each named by its request
    paid,       \* the sessions that were completed, and whose event is not applied yet
    dropped,    \* the sessions whose event found no local subscription
    at,         \* at[r]: the statement r runs next
    req,        \* req[r]: its header and body, its customer, whose session it was
                \* answered with or how it was refused, and if that was stored
    met,        \* history: met[r], the requests under way while r was
    lapsed      \* history: the keys that expired while the client still used them

vars == <<stored, row, customers, plan, coupon, sessions, paid, dropped, at, req, met, lapsed>>
redis == <<stored, lapsed>>
remote == <<customers, sessions, paid, dropped>>
local == <<row, plan, coupon>>

Places == {"idle", "lookup", "plan", "subscription", "backfill", "customer", "link",
           "coupon", "redeem", "session", "store", "done"}

Init ==
    /\ stored = [k \in Keys |-> None]
    /\ row \in {"absent", None}
    /\ customers = {} /\ sessions = {} /\ paid = {} /\ dropped = {}
    /\ plan = TRUE /\ coupon = 0
    /\ at = [r \in Requests |-> "idle"]
    /\ req = [r \in Requests |-> [key |-> None, body |-> "plain", customer |-> None,
                                  answer |-> None, kept |-> FALSE]]
    /\ met = [r \in Requests |-> {}]
    /\ lapsed = {}

Busy == {r \in Requests : at[r] \notin {"idle", "done"}}
Goto(r, where) == at' = [at EXCEPT ![r] = where]
Answer(r, answer) == req' = [req EXCEPT ![r].answer = answer]

-----------------------------------------------------------------------------
(* IdempotencyInterceptor.intercept *)

(* The client sends a request, with the key of an earlier one or a new one. *)
Send(r) ==
    /\ at[r] = "idle"
    /\ \E k \in Keys, b \in Bodies : req' = [req EXCEPT ![r].key = k, ![r].body = b]
    /\ Goto(r, "lookup")
    /\ met' = [q \in Requests |-> CASE q = r -> Busy
                                    [] q \in Busy -> met[q] \cup {r}
                                    [] OTHER -> met[q]]
    /\ UNCHANGED <<redis, remote, local>>

(* Faulty variant: the hash of the body is not compared. *)
LookUpBlind(r) ==
    LET found == stored[req[r].key]
    IN  /\ at[r] = "lookup"
        /\ IF found = None THEN Goto(r, "plan") /\ UNCHANGED req
           ELSE Answer(r, found.answer) /\ Goto(r, "done")
        /\ UNCHANGED <<redis, remote, local, met>>

LookUp(r) ==
    LET found == stored[req[r].key]
    IN  /\ at[r] = "lookup"
        /\ IF found = None THEN Goto(r, "plan") /\ UNCHANGED req
           ELSE /\ Answer(r, IF found.body = req[r].body THEN found.answer ELSE "keyReused")
                /\ Goto(r, "done")
        /\ UNCHANGED <<redis, remote, local, met>>

(* The answer is put away without being awaited: the client may have it,   *)
(* and may send the next request, before it is there.                      *)
Store(r) ==
    /\ at[r] = "store"
    /\ stored' = [stored EXCEPT ![req[r].key] = [body |-> req[r].body, answer |-> req[r].answer]]
    /\ req' = [req EXCEPT ![r].kept = TRUE]
    /\ Goto(r, "done")
    /\ UNCHANGED <<lapsed, remote, local, met>>

(* Redis refuses, or the process dies, when the answer is on its way. *)
StoreFails(r) ==
    /\ at[r] = "store"
    /\ Goto(r, "done")
    /\ UNCHANGED <<redis, remote, local, req, met>>

(* A day has passed, or Redis evicts the key. *)
Expire(k) ==
    /\ stored[k] # None
    /\ stored' = [stored EXCEPT ![k] = None]
    /\ lapsed' = lapsed \cup {k}
    /\ UNCHANGED <<remote, local, at, req, met>>

-----------------------------------------------------------------------------
(* CheckoutService.createCheckoutSession *)

Refuse(r, refusal) == Answer(r, refusal) /\ Goto(r, "done")

GetPlan(r) ==
    /\ at[r] = "plan"
    /\ IF plan THEN Goto(r, "subscription") /\ UNCHANGED req ELSE Refuse(r, "noPlan")
    /\ UNCHANGED <<redis, remote, local, met>>

AfterCustomer(r) == IF req[r].body = "coupon" THEN "coupon" ELSE "session"

(* getOrCreateForTenant has the row, with or without a customer in it. *)
HaveSubscription(r, customer) ==
    /\ req' = [req EXCEPT ![r].customer = customer]
    /\ Goto(r, IF customer = None THEN "customer" ELSE AfterCustomer(r))

FindSubscription(r) ==
    /\ at[r] = "subscription"
    /\ IF row = "absent" THEN Goto(r, "backfill") /\ UNCHANGED req ELSE HaveSubscription(r, row)
    /\ UNCHANGED <<redis, remote, local, met>>

(* upsertTrialForTenant leaves a row alone that another request has made,  *)
(* and reads it when the unique index refuses its own.                     *)
Backfill(r) ==
    LET there == IF row = "absent" THEN None ELSE row
    IN  /\ at[r] = "backfill"
        /\ row' = there
        /\ HaveSubscription(r, there)
        /\ UNCHANGED <<redis, remote, plan, coupon, met>>

CreateCustomer(r) ==
    /\ at[r] = "customer"
    /\ customers' = customers \cup {r}
    /\ req' = [req EXCEPT ![r].customer = r]
    /\ Goto(r, "link")
    /\ UNCHANGED <<redis, sessions, paid, dropped, local, met>>

(* Faulty variant: the customer is used and not written down. *)
LinkCustomerForgotten(r) ==
    /\ at[r] = "link"
    /\ Goto(r, AfterCustomer(r))
    /\ UNCHANGED <<redis, remote, local, req, met>>

LinkCustomer(r) ==
    /\ at[r] = "link"
    /\ row' = req[r].customer
    /\ Goto(r, AfterCustomer(r))
    /\ UNCHANGED <<redis, remote, plan, coupon, req, met>>

(* The coupon may also be inactive or expired. *)
ResolveCoupon(r) ==
    /\ at[r] = "coupon"
    /\ \/ coupon < MaxRedemptions /\ Goto(r, "redeem") /\ UNCHANGED req
       \/ Refuse(r, "badCoupon")
    /\ UNCHANGED <<redis, remote, local, met>>

Redeem(r) ==
    /\ at[r] = "redeem"
    /\ coupon' = coupon + 1
    /\ Goto(r, "session")
    /\ UNCHANGED <<redis, remote, row, plan, req, met>>

CreateSession(r) ==
    LET session == [by |-> r, customer |-> req[r].customer, discount |-> req[r].body = "coupon"]
    IN  /\ at[r] = "session"
        /\ sessions' = sessions \cup {session}
        /\ Answer(r, r)
        /\ Goto(r, "store")
        /\ UNCHANGED <<redis, customers, paid, dropped, local, met>>

(* A statement throws, Stripe's answer does not arrive, or the process     *)
(* dies.  The audit record is the last thing that can fail.                *)
HandlerFails(r) ==
    /\ at[r] \in Places \ {"idle", "store", "done"}
    /\ Refuse(r, "error")
    /\ UNCHANGED <<redis, remote, local, met>>

AuditFails(r) ==
    /\ at[r] = "store"
    /\ Refuse(r, "error")
    /\ UNCHANGED <<redis, remote, local, met>>

-----------------------------------------------------------------------------
(* Stripe and the administrator *)

Pay(s) ==
    /\ s \in sessions \ (paid \cup dropped)
    /\ paid' = paid \cup {s}
    /\ UNCHANGED <<redis, customers, sessions, dropped, local, at, req, met>>

(* applyStripeSubscriptionEvent looks the tenant up by the customer, and   *)
(* drops the event of one that it does not know.                           *)
ApplyEvent(s) ==
    /\ s \in paid
    /\ dropped' = IF row = s.customer THEN dropped ELSE dropped \cup {s}
    /\ paid' = IF row = s.customer THEN paid ELSE paid \ {s}
    /\ UNCHANGED <<redis, customers, sessions, local, at, req, met>>

UpdatePlan ==
    /\ plan' = ~plan
    /\ UNCHANGED <<redis, remote, row, coupon, at, req, met>>

Step(r) ==
    \/ LookUp(r) \/ GetPlan(r) \/ FindSubscription(r) \/ Backfill(r) \/ CreateCustomer(r)
    \/ LinkCustomer(r) \/ ResolveCoupon(r) \/ Redeem(r) \/ CreateSession(r) \/ Store(r)

Next ==
    \/ \E r \in Requests : Send(r) \/ Step(r) \/ HandlerFails(r) \/ AuditFails(r) \/ StoreFails(r)
    \/ \E k \in Keys : Expire(k)
    \/ \E s \in sessions : Pay(s) \/ ApplyEvent(s)
    \/ UpdatePlan

Spec == Init /\ [][Next]_vars

-----------------------------------------------------------------------------
(* Properties *)

Ran(r) == \E s \in sessions : s.by = r
Alike(r, q) == req[r].key = req[q].key /\ req[r].body = req[q].body

(* A key stands for one execution.  A client that repeats a request gets   *)
(* the answer of the first one and starts nothing, unless it repeats it    *)
(* while the first one, or the putting away of its answer, is under way,   *)
(* the first one failed, or the day is over.  The answer is never that of  *)
(* a request with another body.                                            *)
KeyRunsOnce ==
    /\ \A r, q \in Requests :
           r # q /\ Ran(r) /\ Ran(q) /\ Alike(r, q) =>
               q \in met[r] \/ ~req[r].kept \/ ~req[q].kept \/ req[r].key \in lapsed
    /\ \A q \in Requests :
           req[q].answer \in Requests => Alike(q, req[q].answer)

(* The coupon is given away more often than it may be only to requests     *)
(* that ran at the same time, and never uncounted.                         *)
CouponKept ==
    /\ coupon > MaxRedemptions =>
           \E r, q \in Requests : {req[r].body, req[q].body} = {"coupon"} /\ q \in met[r]
    /\ Cardinality({s \in sessions : s.discount}) <= coupon

(* One Stripe customer per tenant, but for requests that ran at the same   *)
(* time, or one that ended before the customer was written down.           *)
OneCustomer ==
    \A r, q \in customers :
        r # q => q \in met[r] \/ "error" \in {req[r].answer, req[q].answer}

(* What was paid reaches the tenant: its event is dropped only where two   *)
(* checkouts ran at the same time and one overwrote the other's customer.  *)
PaidIsLinked == \A s \in dropped : met[s.by] # {}

CheckoutIsSafe == CouponKept /\ OneCustomer /\ PaidIsLinked
=============================================================================
