----------------------------- MODULE CheckoutProofs -----------------------------
(***************************************************************************)
(* Checkout for any number of requests and keys: the type invariant and    *)
(* both invariants of the run.                                             *)
(*                                                                         *)
(* All arguments rest on MetInv, which relates the history variable met to *)
(* the statements: two requests that have not met did not overlap, so one  *)
(* of them was done before the other was sent.                             *)
(***************************************************************************)
EXTENDS Checkout, FiniteSetTheorems, TLAPS

Entry == [body: Bodies, answer: Requests]

Request == [key: Keys \cup {None}, body: Bodies, customer: Requests \cup {None},
            answer: Requests \cup Refusals \cup {None}, kept: BOOLEAN]

Session == [by: Requests, customer: Requests, discount: BOOLEAN]

TypeOK ==
    /\ stored \in [Keys -> Entry \cup {None}]
    /\ row \in Requests \cup {"absent", None}
    /\ customers \subseteq Requests
    /\ sessions \subseteq Session /\ paid \subseteq sessions /\ dropped \subseteq sessions
    /\ plan \in BOOLEAN /\ coupon \in Nat
    /\ at \in [Requests -> Places] /\ req \in [Requests -> Request]
    /\ met \in [Requests -> SUBSET Requests]
    /\ lapsed \subseteq Keys

(* What the local variables of a request hold at each statement. *)
Placed(r) ==
    /\ at[r] # "idle" => req[r].key \in Keys
    /\ at[r] \notin {"store", "done"} => req[r].answer = None
    /\ at[r] = "store" => req[r].answer = r
    /\ req[r].kept => at[r] = "done" /\ req[r].answer = r
    /\ at[r] = "link" => req[r].customer = r
    /\ at[r] \in {"coupon", "redeem", "session", "store"} => req[r].customer \in Requests
    /\ at[r] \in {"coupon", "redeem"} => req[r].body = "coupon"

TypeInv == TypeOK /\ \A r \in Requests : Placed(r)

-----------------------------------------------------------------------------
(* The steps *)

(* The request is sent by this step. *)
Sends(r) ==
    /\ at[r] = "idle" /\ at'[r] = "lookup"
    /\ req'[r].key \in Keys /\ req'[r].answer = req[r].answer /\ req'[r].kept = req[r].kept
    /\ req'[r].customer = req[r].customer
    /\ met' = [q \in Requests |-> CASE q = r -> Busy
                                    [] q \in Busy -> met[q] \cup {r}
                                    [] OTHER -> met[q]]
    /\ UNCHANGED <<redis, remote, local>>

(* One statement of it. *)
Works(r) ==
    /\ at[r] \notin {"idle", "done"} /\ at'[r] # "idle"
    /\ req'[r].key = req[r].key /\ req'[r].body = req[r].body
    /\ UNCHANGED <<lapsed, plan, paid, dropped, met>>

Alone(r) ==
    /\ at'[r] \in Places /\ req'[r] \in Request
    /\ at' = [at EXCEPT ![r] = at'[r]] /\ req' = [req EXCEPT ![r] = req'[r]]
    /\ Placed(r)'

RequestStep(r) == Step(r) \/ HandlerFails(r) \/ AuditFails(r) \/ StoreFails(r)

(* A step of Stripe, Redis or the administrator. *)
Outside ==
    /\ UNCHANGED <<row, customers, sessions, coupon, at, req, met>>
    /\ dropped' \ dropped \subseteq {s \in sessions : row # s.customer}
    /\ \/ UNCHANGED redis
       \/ \E k \in Keys : stored' = [stored EXCEPT ![k] = None] /\ lapsed' = lapsed \cup {k}
    /\ paid' \subseteq sessions /\ plan' \in BOOLEAN

LEMMA StepCases ==
    ASSUME TypeInv, [Next]_vars
    PROVE  (\E r \in Requests : Send(r) \/ RequestStep(r)) \/ Outside
<1> USE DEF Outside, redis, remote, local, TypeInv, TypeOK
<1>1. ASSUME NEW k \in Keys, Expire(k) PROVE Outside
  BY <1>1 DEF Expire
<1>2. ASSUME NEW s \in sessions, Pay(s) \/ ApplyEvent(s) PROVE Outside
  BY <1>2 DEF Pay, ApplyEvent
<1>3. CASE UpdatePlan \/ UNCHANGED vars
  BY <1>3 DEF UpdatePlan, vars
<1> QED BY <1>1, <1>2, <1>3 DEF Next, RequestStep

LEMMA SendMoves ==
    ASSUME TypeInv, NEW r \in Requests, Send(r)
    PROVE  Sends(r) /\ Alone(r)
<1> USE DEF TypeInv, TypeOK
<1>1. PICK k \in Keys, b \in Bodies : req' = [req EXCEPT ![r].key = k, ![r].body = b]
  BY DEF Send
<1>2. req'[r] = [req[r] EXCEPT !.key = k, !.body = b] /\ req' = [req EXCEPT ![r] = req'[r]]
  BY <1>1
<1>3. /\ req'[r] \in Request /\ req'[r].key = k /\ req'[r].answer = req[r].answer
      /\ req'[r].kept = req[r].kept /\ req'[r].customer = req[r].customer
  <2>1. req[r] \in Request
    OBVIOUS
  <2> QED BY <1>2, <2>1 DEF Request
<1>4. at[r] = "idle" /\ at'[r] = "lookup" /\ at' = [at EXCEPT ![r] = at'[r]]
  BY DEF Send, Goto
<1>5. Placed(r)'
  BY <1>3, <1>4 DEF Placed
<1> QED BY <1>2, <1>3, <1>4, <1>5 DEF Send, Sends, Alone, Places, local

LEMMA StepMoves ==
    ASSUME TypeInv, NEW r \in Requests, RequestStep(r)
    PROVE  Works(r) /\ Alone(r)
<1> USE CheckoutAssumption DEF TypeInv, TypeOK, Works, Alone, Goto, Answer, redis, remote, local, Places
<1>0. Placed(r) /\ req[r] \in Request
  OBVIOUS
<1>1. CASE LookUp(r)
  <2>1. stored[req[r].key] \in Entry \cup {None}
    BY <1>0, <1>1 DEF LookUp, Placed
  <2> QED BY <1>0, <1>1, <2>1 DEF LookUp, Placed, Request, Entry, Refusals
<1>2. CASE GetPlan(r)
  BY <1>0, <1>2 DEF GetPlan, Refuse, Placed, Request, Refusals
<1>3. CASE FindSubscription(r)
  BY <1>0, <1>3 DEF FindSubscription, HaveSubscription, AfterCustomer, Placed, Request, Bodies
<1>4. CASE Backfill(r)
  BY <1>0, <1>4 DEF Backfill, HaveSubscription, AfterCustomer, Placed, Request, Bodies
<1>5. CASE CreateCustomer(r)
  BY <1>0, <1>5 DEF CreateCustomer, Placed, Request
<1>6. CASE LinkCustomer(r)
  BY <1>0, <1>6 DEF LinkCustomer, AfterCustomer, Placed, Request, Bodies
<1>7. CASE ResolveCoupon(r) \/ Redeem(r)
  BY <1>0, <1>7 DEF ResolveCoupon, Redeem, Refuse, Placed, Request, Refusals
<1>8. CASE CreateSession(r)
  BY <1>0, <1>8 DEF CreateSession, Placed, Request
<1>9. CASE StoreFails(r)
  BY <1>0, <1>9 DEF StoreFails, Placed, Request
<1>11. CASE Store(r)
  <2>1. /\ at[r] = "store" /\ at' = [at EXCEPT ![r] = "done"] /\ at'[r] = "done"
        /\ UNCHANGED <<lapsed, plan, paid, dropped, met>>
    BY <1>11 DEF Store
  <2>2. req' = [req EXCEPT ![r] = [req[r] EXCEPT !.kept = TRUE]]
    BY <1>11 DEF Store
  <2>3. /\ req'[r] \in Request /\ req'[r].key = req[r].key /\ req'[r].body = req[r].body
        /\ req'[r].answer = req[r].answer
    BY <1>0, <2>2 DEF Request
  <2> QED BY <1>0, <2>1, <2>2, <2>3 DEF Placed
<1>10. CASE HandlerFails(r) \/ AuditFails(r)
  BY <1>0, <1>10 DEF HandlerFails, AuditFails, Refuse, Placed, Request, Refusals
<1> QED
  BY <1>1, <1>2, <1>3, <1>4, <1>5, <1>6, <1>7, <1>8, <1>9, <1>10, <1>11 DEF RequestStep, Step

LEMMA TypeStep == TypeInv /\ [Next]_vars => TypeInv'
<1> SUFFICES ASSUME TypeInv, [Next]_vars PROVE TypeInv'
  OBVIOUS
<1> USE DEF TypeInv
<1>1. ASSUME NEW r \in Requests, Alone(r)
      PROVE  /\ at' \in [Requests -> Places] /\ req' \in [Requests -> Request]
             /\ \A q \in Requests : Placed(q)'
  <2>1. \A q \in Requests \ {r} : at'[q] = at[q] /\ req'[q] = req[q]
    BY <1>1 DEF Alone, TypeOK
  <2> QED BY <1>1, <2>1 DEF Alone, TypeOK, Placed
<1>2. ASSUME NEW r \in Requests, Send(r) PROVE TypeInv'
  <2>1. Sends(r) /\ Alone(r)
    BY <1>2, SendMoves
  <2>2. met' \in [Requests -> SUBSET Requests]
    BY <2>1 DEF Sends, TypeOK, Busy
  <2> QED BY <1>1, <2>1, <2>2 DEF Sends, TypeOK, redis, remote, local
<1>3. ASSUME NEW r \in Requests, RequestStep(r) PROVE TypeInv'
  <2>1. Works(r) /\ Alone(r)
    BY <1>3, StepMoves
  <2>2. /\ stored' \in [Keys -> Entry \cup {None}] /\ row' \in Requests \cup {"absent", None}
        /\ customers' \subseteq Requests /\ coupon' \in Nat
        /\ sessions' \subseteq Session /\ sessions \subseteq sessions'
    <3> USE DEF TypeOK, redis, remote, local
    <3>0. Placed(r) /\ req[r] \in Request
      OBVIOUS
    <3>1. CASE LookUp(r) \/ GetPlan(r) \/ FindSubscription(r) \/ ResolveCoupon(r)
      BY <3>1 DEF LookUp, GetPlan, FindSubscription, ResolveCoupon
    <3>2. CASE HandlerFails(r) \/ AuditFails(r) \/ StoreFails(r)
      BY <3>2 DEF HandlerFails, AuditFails, StoreFails
    <3>3. CASE Backfill(r) \/ LinkCustomer(r)
      BY <3>0, <3>3 DEF Backfill, LinkCustomer, Placed
    <3>4. CASE CreateCustomer(r) \/ Redeem(r)
      BY <3>4 DEF CreateCustomer, Redeem
    <3>5. CASE CreateSession(r)
      <4>1. PICK s : /\ s = [by |-> r, customer |-> req[r].customer,
                              discount |-> req[r].body = "coupon"]
                     /\ sessions' = sessions \cup {s}
        BY <3>5 DEF CreateSession
      <4>2. s \in Session
        BY <3>0, <3>5, <4>1 DEF CreateSession, Placed, Session
      <4> QED BY <3>5, <4>1, <4>2 DEF CreateSession
    <3>6. CASE Store(r)
      BY <3>0, <3>6 DEF Store, Placed, Request, Entry
    <3> QED BY <1>3, <3>1, <3>2, <3>3, <3>4, <3>5, <3>6 DEF RequestStep, Step
  <2> QED BY <1>1, <2>1, <2>2 DEF Works, TypeOK
<1>4. CASE Outside
  <2>1. \A q \in Requests : Placed(q)'
    BY <1>4 DEF Outside, Placed
  <2> QED BY <1>4, <2>1 DEF Outside, TypeOK, redis
<1> QED BY <1>2, <1>3, <1>4, StepCases

LEMMA TypeInit == Init => TypeInv
BY CheckoutAssumption DEF Init, TypeInv, TypeOK, Placed, Request, Bodies, Places

(* Every variable of Checkout keeps its type, and every request has at each *)
(* statement what the statement needs: its key, a customer, a coupon.      *)
THEOREM CheckoutTypeCorrect == Spec => []TypeInv
BY TypeInit, TypeStep, PTL DEF Spec

-----------------------------------------------------------------------------
(* Who met whom *)

Started(r) == at[r] # "idle"

(* Who has met is mutual, and of two requests that have not met one was    *)
(* done before the other was sent.                                         *)
MetSound ==
    /\ \A r, q \in Requests : q \in met[r] => r \in met[q] /\ Started(q)
    /\ \A r, q \in Requests :
           r # q /\ Started(r) /\ Started(q) /\ q \notin met[r] =>
               at[r] = "done" \/ at[q] = "done"

MetInv == TypeInv /\ MetSound

(* A request that was sent keeps its key and body. *)
LEMMA Keeps ==
    ASSUME TypeInv, [Next]_vars, NEW p \in Requests, Started(p)
    PROVE  Started(p)' /\ req'[p].key = req[p].key /\ req'[p].body = req[p].body
<1> USE DEF TypeInv, TypeOK, Started
<1>1. ASSUME NEW r \in Requests, Send(r) PROVE at'[p] = at[p] /\ req'[p] = req[p]
  BY <1>1, SendMoves DEF Sends, Alone
<1>2. ASSUME NEW r \in Requests, RequestStep(r)
      PROVE  at'[p] # "idle" /\ req'[p].key = req[p].key /\ req'[p].body = req[p].body
  BY <1>2, StepMoves DEF Works, Alone
<1> QED BY <1>1, <1>2, StepCases DEF Outside

LEMMA MeetingsLast ==
    ASSUME TypeInv, [Next]_vars, NEW r \in Requests, Started(r)
    PROVE  met[r] \subseteq met'[r]
<1> USE DEF TypeInv, TypeOK, Started
<1>1. ASSUME NEW q \in Requests, Send(q) PROVE met[r] \subseteq met'[r]
  BY <1>1, SendMoves DEF Sends
<1>2. ASSUME NEW q \in Requests, RequestStep(q) PROVE met[r] \subseteq met'[r]
  BY <1>2, StepMoves DEF Works
<1> QED BY <1>1, <1>2, StepCases DEF Outside

LEMMA MetStep == MetInv /\ [Next]_vars => MetInv'
<1> SUFFICES ASSUME MetInv, [Next]_vars PROVE MetSound'
  BY TypeStep DEF MetInv
<1> USE DEF MetInv, TypeInv, TypeOK, Started
<1>1. ASSUME NEW r \in Requests, Send(r) PROVE MetSound'
  <2>1. Sends(r) /\ Alone(r)
    BY <1>1, SendMoves
  <2>2. at'[r] = "lookup" /\ at[r] = "idle" /\ \A q \in Requests \ {r} : at'[q] = at[q]
    BY <2>1 DEF Sends, Alone
  <2>3. met'[r] = Busy /\ r \notin Busy
    BY <2>1, <2>2 DEF Sends, Busy
  <2>4. ASSUME NEW q \in Requests \ {r}
        PROVE  /\ q \in Busy => met'[q] = met[q] \cup {r}
               /\ q \notin Busy => met'[q] = met[q]
               /\ r \notin met[q]
    BY <2>1, <2>2 DEF Sends, MetSound
  <2>5. ASSUME NEW p \in Requests, NEW q \in Requests, q \in met'[p]
        PROVE  p \in met'[q] /\ at'[q] # "idle"
    <3>1. CASE p = r
      BY <2>2, <2>3, <2>4, <2>5, <3>1 DEF Busy
    <3>2. CASE p # r /\ q = r
      BY <2>2, <2>3, <2>4, <2>5, <3>2
    <3>3. CASE p # r /\ q # r
      <4>1. q \in met[p]
        BY <2>4, <2>5, <3>3
      <4>2. p \in met[q] /\ at[q] # "idle"
        BY <4>1 DEF MetSound
      <4> QED BY <2>2, <2>4, <3>3, <4>2
    <3> QED BY <3>1, <3>2, <3>3
  <2>6. ASSUME NEW p \in Requests, NEW q \in Requests, p # q, at'[p] # "idle", at'[q] # "idle",
               q \notin met'[p]
        PROVE  at'[p] = "done" \/ at'[q] = "done"
    <3>1. CASE p = r
      BY <2>2, <2>3, <2>6, <3>1 DEF Busy
    <3>2. CASE q = r
      BY <2>2, <2>4, <2>6, <3>2 DEF Busy
    <3>3. CASE p # r /\ q # r
      <4>1. q \notin met[p] /\ at'[p] = at[p] /\ at'[q] = at[q]
        BY <2>2, <2>4, <2>6, <3>3
      <4> QED BY <2>6, <4>1 DEF MetSound
    <3> QED BY <3>1, <3>2, <3>3
  <2> QED BY <2>5, <2>6 DEF MetSound
<1>2. ASSUME NEW r \in Requests, RequestStep(r) PROVE MetSound'
  <2>1. Works(r) /\ Alone(r)
    BY <1>2, StepMoves
  <2>2. /\ met' = met /\ at[r] \notin {"idle", "done"} /\ at'[r] # "idle"
        /\ \A q \in Requests \ {r} : at'[q] = at[q]
    BY <2>1 DEF Works, Alone
  <2> QED BY <2>2 DEF MetSound
<1>3. CASE Outside
  BY <1>3 DEF Outside, MetSound
<1> QED BY <1>1, <1>2, <1>3, StepCases

LEMMA MetInit == Init => MetInv
BY TypeInit DEF Init, MetInv, MetSound, Started

(* Two requests at work have met. *)
LEMMA BusyMeet ==
    ASSUME MetInv, NEW r \in Requests, NEW q \in Requests, r # q,
           at[r] \notin {"idle", "done"}, at[q] \notin {"idle", "done"}
    PROVE  q \in met[r] /\ r \in met[q]
BY DEF MetInv, MetSound, Started

-----------------------------------------------------------------------------
(* Idempotency keys *)

(* The handler of the request ran, at least in part. *)
Executed(r) == at[r] \notin {"idle", "lookup", "done"} \/ Ran(r)

(* What is stored, and what was answered, is the answer of a request with  *)
(* the same key and body.                                                  *)
StoredFits(k) ==
    stored[k] # None =>
        \E p \in Requests :
            /\ stored[k].answer = p /\ Started(p)
            /\ req[p].key = k /\ req[p].body = stored[k].body

AnswerFits(q) == \A p \in Requests : req[q].answer = p => Started(p) /\ Alike(q, p)

AnswersFit ==
    /\ \A k \in Keys : StoredFits(k)
    /\ \A q \in Requests : AnswerFits(q)
    /\ \A s \in sessions : at[s.by] \in {"store", "done"}

(* A key whose answer was put away is found until it lapses, so that only  *)
(* requests that met the first one, or were cut short, have executed.      *)
KeptIsFound ==
    /\ \A r \in Requests : req[r].kept /\ req[r].key \notin lapsed => stored[req[r].key] # None
    /\ \A r, q \in Requests :
           r # q /\ Executed(q) /\ req[r].kept /\ req[r].key = req[q].key
                 /\ req[r].key \notin lapsed
           => q \in met[r] \/ (~req[q].kept /\ at[q] = "done")

KeyInv == MetInv /\ AnswersFit /\ KeptIsFound

(* The statements that neither look up, nor store, nor open a session. *)
LEMMA OtherStatements ==
    ASSUME TypeInv, NEW r \in Requests, RequestStep(r),
           ~LookUp(r), ~Store(r), ~CreateSession(r)
    PROVE  /\ UNCHANGED <<stored, sessions>> /\ at'[r] \notin {"idle", "lookup"}
           /\ req'[r].kept = req[r].kept
           /\ req'[r].answer \in Requests => req'[r].answer = req[r].answer
           /\ at[r] = "lookup" => at'[r] = "done"
           /\ at[r] = "store" => at'[r] = "done"
<1> USE CheckoutAssumption DEF TypeInv, TypeOK, Goto, Answer, redis, remote, Refusals
<1>0. req[r] \in Request
  OBVIOUS
<1>1. CASE GetPlan(r)
  BY <1>0, <1>1 DEF GetPlan, Refuse, Request
<1>2. CASE FindSubscription(r) \/ Backfill(r)
  BY <1>0, <1>2 DEF FindSubscription, Backfill, HaveSubscription, AfterCustomer, Request
<1>3. CASE CreateCustomer(r) \/ LinkCustomer(r)
  BY <1>0, <1>3 DEF CreateCustomer, LinkCustomer, AfterCustomer, Request
<1>4. CASE ResolveCoupon(r) \/ Redeem(r)
  BY <1>0, <1>4 DEF ResolveCoupon, Redeem, Refuse, Request
<1>5. CASE HandlerFails(r) \/ AuditFails(r) \/ StoreFails(r)
  BY <1>0, <1>5 DEF HandlerFails, AuditFails, StoreFails, Refuse, Request
<1> QED BY <1>1, <1>2, <1>3, <1>4, <1>5 DEF RequestStep, Step

LEMMA AnswersStep == KeyInv /\ [Next]_vars => AnswersFit'
<1> SUFFICES ASSUME KeyInv, [Next]_vars PROVE AnswersFit'
  OBVIOUS
<1> USE DEF KeyInv, MetInv, TypeInv, TypeOK, AnswersFit
<1>0. \A p \in Requests : Started(p) =>
          Started(p)' /\ req'[p].key = req[p].key /\ req'[p].body = req[p].body
  BY Keeps
<1>1. ASSUME NEW k \in Keys, stored'[k] = stored[k] PROVE StoredFits(k)'
  <2>1. stored[k] # None =>
            \E p \in Requests :
                /\ stored[k].answer = p /\ Started(p)'
                /\ req'[p].key = k /\ req'[p].body = stored[k].body
    BY <1>0 DEF StoredFits
  <2> QED BY <1>1, <2>1 DEF StoredFits
<1>2. ASSUME NEW q \in Requests, req'[q].answer \in Requests => req'[q].answer = req[q].answer
      PROVE  AnswerFits(q)'
  <2>1. ASSUME NEW p \in Requests, req'[q].answer = p PROVE Started(p)' /\ Alike(q, p)'
    <3>1. req[q].answer = p
      BY <1>2, <2>1
    <3>2. Started(q) /\ Started(p) /\ Alike(q, p)
      BY <3>1, CheckoutAssumption DEF Placed, Started, AnswerFits
    <3> QED BY <1>0, <3>2 DEF Alike
  <2> QED BY <2>1 DEF AnswerFits
<1>3. ASSUME NEW s \in sessions, at'[s.by] \in {"store", "done"} \/ at'[s.by] = at[s.by]
      PROVE  at'[s.by] \in {"store", "done"}
  BY <1>3
<1>4. ASSUME NEW r \in Requests, Send(r) PROVE AnswersFit'
  <2>1. Sends(r) /\ Alone(r)
    BY <1>4, SendMoves
  <2>2. UNCHANGED <<stored, sessions>> /\ \A q \in Requests : req'[q].answer = req[q].answer
    BY <2>1 DEF Sends, Alone, redis, remote
  <2>3. \A s \in sessions : s.by # r
    BY <2>1 DEF Sends
  <2>4. \A s \in sessions : at'[s.by] = at[s.by]
    BY <2>1, <2>3 DEF Alone, Session
  <2>5. (\A k \in Keys : StoredFits(k)') /\ (\A q \in Requests : AnswerFits(q)')
    BY <1>1, <1>2, <2>2
  <2> QED BY <1>3, <2>2, <2>4, <2>5
<1>5. ASSUME NEW r \in Requests, RequestStep(r) PROVE AnswersFit'
  <2>1. Works(r) /\ Alone(r)
    BY <1>5, StepMoves
  <2>2. /\ \A q \in Requests \ {r} : at'[q] = at[q] /\ req'[q] = req[q]
        /\ req'[r].key = req[r].key /\ req'[r].body = req[r].body /\ at[r] # "done"
    BY <2>1 DEF Alone, Works
  <2>3. \A q \in Requests \ {r} : AnswerFits(q)'
    BY <1>2, <2>2
  <2>4. ASSUME sessions' = sessions, at[r] = "store" => at'[r] = "done"
        PROVE  \A s \in sessions' : at'[s.by] \in {"store", "done"}
    BY <1>3, <2>2, <2>4 DEF Session
  <2>5. CASE LookUp(r)
    <3>1. UNCHANGED <<stored, sessions>> /\ at[r] = "lookup"
      BY <2>5 DEF LookUp, redis, remote
    <3>2. ASSUME NEW p \in Requests, req'[r].answer = p PROVE Started(p)' /\ Alike(r, p)'
      <4>1. req[r].answer = None /\ req[r].key \in Keys /\ req[r] \in Request
        BY <3>1 DEF Placed
      <4> PICK k \in Keys : k = req[r].key
        BY <4>1
      <4>2. stored[k] # None /\ req'[r] = [req[r] EXCEPT !.answer =
                IF stored[k].body = req[r].body THEN stored[k].answer ELSE "keyReused"]
        BY <2>5, <3>2, <4>1, CheckoutAssumption DEF LookUp, Answer
      <4>3. p # "keyReused"
        BY CheckoutAssumption DEF Refusals
      <4>4. stored[k].body = req[r].body /\ stored[k].answer = p
        BY <3>2, <4>1, <4>2, <4>3 DEF Request
      <4>5. Started(p) /\ req[p].key = k /\ req[p].body = req[r].body
        BY <4>2, <4>4 DEF StoredFits
      <4> QED BY <1>0, <2>2, <4>5 DEF Alike
    <3>3. AnswerFits(r)'
      BY <3>2 DEF AnswerFits
    <3> QED BY <1>1, <2>3, <2>4, <3>1, <3>3
  <2>6. CASE Store(r)
    <3>1. /\ at[r] = "store" /\ at'[r] = "done" /\ sessions' = sessions
          /\ req' = [req EXCEPT ![r].kept = TRUE]
          /\ stored' = [stored EXCEPT ![req[r].key] = [body |-> req[r].body, answer |-> req[r].answer]]
      BY <2>6 DEF Store, Goto, remote
    <3>2. req[r].answer = r /\ req[r].key \in Keys /\ req'[r].answer = r
      <4>1. req[r] \in Request
        OBVIOUS
      <4> QED BY <3>1, <4>1 DEF Placed, Request
    <3>3. /\ \A k \in Keys \ {req[r].key} : stored'[k] = stored[k]
          /\ stored'[req[r].key].body = req[r].body /\ stored'[req[r].key].answer = r
      BY <3>1, <3>2
    <3>4. Started(r)' /\ AnswerFits(r)'
      BY <1>2, <3>1, <3>2 DEF Started
    <3>5. ASSUME NEW k \in Keys PROVE StoredFits(k)'
      <4>1. CASE k = req[r].key
        BY <2>2, <3>3, <3>4, <4>1 DEF StoredFits
      <4> QED BY <1>1, <3>3, <4>1
    <3> QED BY <2>3, <2>4, <3>1, <3>4, <3>5
  <2>7. CASE CreateSession(r)
    <3>1. /\ at'[r] = "store" /\ stored' = stored
          /\ \A s \in sessions' : s \in sessions \/ s.by = r
      BY <2>7 DEF CreateSession, Goto, redis
    <3>2. req'[r].answer = r
      <4>1. req[r] \in Request
        OBVIOUS
      <4> QED BY <2>7, <4>1 DEF CreateSession, Answer, Request
    <3>3. AnswerFits(r)'
      BY <3>1, <3>2 DEF AnswerFits, Started, Alike
    <3>4. \A s \in sessions' : at'[s.by] \in {"store", "done"}
      BY <1>3, <2>2, <3>1 DEF Session
    <3> QED BY <1>1, <2>3, <3>1, <3>3, <3>4
  <2>8. CASE ~LookUp(r) /\ ~Store(r) /\ ~CreateSession(r)
    <3>1. /\ UNCHANGED <<stored, sessions>>
          /\ req'[r].answer \in Requests => req'[r].answer = req[r].answer
          /\ at[r] = "store" => at'[r] = "done"
      BY <1>5, <2>8, OtherStatements
    <3>2. AnswerFits(r)'
      BY <1>2, <3>1
    <3> QED BY <1>1, <2>3, <2>4, <3>1, <3>2
  <2> QED BY <2>5, <2>6, <2>7, <2>8
<1>6. CASE Outside
  <2>1. \A k \in Keys : StoredFits(k)'
    <3>1. \A k \in Keys : stored'[k] = stored[k] \/ stored'[k] = None
      BY <1>6 DEF Outside, redis
    <3> QED BY <1>1, <3>1 DEF StoredFits
  <2>2. \A q \in Requests : AnswerFits(q)'
    BY <1>2, <1>6 DEF Outside
  <2> QED BY <1>6, <2>1, <2>2 DEF Outside
<1> QED BY <1>4, <1>5, <1>6, StepCases

LEMMA FoundStep == KeyInv /\ [Next]_vars => KeptIsFound'
<1> SUFFICES ASSUME KeyInv, [Next]_vars PROVE KeptIsFound'
  OBVIOUS
<1> USE DEF KeyInv, MetInv, TypeInv, TypeOK
<1>0. \A p \in Requests : Started(p) =>
          Started(p)' /\ req'[p].key = req[p].key /\ met[p] \subseteq met'[p]
  BY Keeps, MeetingsLast
<1>1. \A p \in Requests : req[p].kept => at[p] = "done"
  BY DEF Placed
<1>2. lapsed \subseteq lapsed' /\ \A k \in Keys : k \notin lapsed' /\ stored[k] # None => stored'[k] # None
  <2>1. ASSUME NEW r \in Requests, Store(r) PROVE \A k \in Keys : stored[k] # None => stored'[k] # None
    <3>1. \A b \in Bodies, a \in Requests : [body |-> b, answer |-> a] # None
      BY CheckoutAssumption
    <3>2. req[r].answer \in Requests /\ req[r].body \in Bodies
      BY <2>1 DEF Store, Placed, Request
    <3> QED BY <2>1, <3>1, <3>2 DEF Store
  <2>2. ASSUME NEW r \in Requests, RequestStep(r)
        PROVE  lapsed' = lapsed /\ \A k \in Keys : stored[k] # None => stored'[k] # None
    BY <2>1, <2>2, StepMoves, OtherStatements DEF Works, LookUp, CreateSession, redis
  <2>3. ASSUME NEW r \in Requests, Send(r) PROVE UNCHANGED redis
    BY <2>3, SendMoves DEF Sends
  <2> QED BY <2>2, <2>3, StepCases DEF Outside, redis
<1>3. ASSUME NEW q \in Requests, at'[q] = at[q], sessions' = sessions PROVE Executed(q)' => Executed(q)
  BY <1>3 DEF Executed, Ran
(* Nothing new was put away, and nobody new executes. *)
<1>4. ASSUME \A p \in Requests : Executed(p)' => Executed(p) /\ (at[p] = "done" => at'[p] = "done"),
             \A p \in Requests : req'[p].kept = req[p].kept
      PROVE  KeptIsFound'
  <2>1. ASSUME NEW p \in Requests, req'[p].kept, req'[p].key \notin lapsed'
        PROVE  /\ stored'[req'[p].key] # None /\ req[p].kept /\ req'[p].key = req[p].key
               /\ req[p].key \notin lapsed
    <3>1. req[p].kept /\ Started(p) /\ req[p].key \in Keys
      BY <1>1, <1>4, <2>1 DEF Started, Placed
    <3>2. req'[p].key = req[p].key /\ req[p].key \notin lapsed
      BY <1>0, <1>2, <2>1, <3>1
    <3>3. stored[req[p].key] # None
      BY <3>1, <3>2 DEF KeptIsFound
    <3> QED BY <1>2, <2>1, <3>1, <3>2, <3>3
  <2>2. ASSUME NEW r \in Requests, NEW q \in Requests, r # q, Executed(q)', req'[r].kept,
               req'[r].key = req'[q].key, req'[r].key \notin lapsed'
        PROVE  q \in met'[r] \/ (~req'[q].kept /\ at'[q] = "done")
    <3>1. Executed(q) /\ Started(q) /\ Started(r) /\ req[r].kept
      BY <1>1, <1>4, <2>2 DEF Executed, Started, Ran, AnswersFit, Session
    <3>2. req[r].key = req[q].key /\ req[r].key \notin lapsed
      BY <1>0, <1>2, <2>2, <3>1
    <3>3. q \in met[r] \/ (~req[q].kept /\ at[q] = "done")
      BY <2>2, <3>1, <3>2 DEF KeptIsFound
    <3>4. q \in met[r] => q \in met'[r]
      BY <1>0, <3>1
    <3> QED BY <1>4, <2>2, <3>1, <3>3, <3>4
  <2> QED BY <2>1, <2>2 DEF KeptIsFound
<1>5. ASSUME NEW r \in Requests, Send(r) PROVE KeptIsFound'
  <2>1. Sends(r) /\ Alone(r)
    BY <1>5, SendMoves
  <2>2. sessions' = sessions /\ at[r] = "idle" /\ at'[r] = "lookup"
    BY <2>1 DEF Sends, remote
  <2>3. \A q \in Requests : req'[q].kept = req[q].kept
    BY <2>1 DEF Sends, Alone
  <2>4. Executed(r)' => Executed(r)
    BY <2>2 DEF Executed, Ran
  <2>5. \A q \in Requests \ {r} : at'[q] = at[q]
    BY <2>1 DEF Alone
  <2> QED BY <1>3, <1>4, <2>2, <2>3, <2>4, <2>5
<1>6. ASSUME NEW r \in Requests, RequestStep(r) PROVE KeptIsFound'
  <2>1. Works(r) /\ Alone(r)
    BY <1>6, StepMoves
  <2>2. /\ \A q \in Requests \ {r} : at'[q] = at[q] /\ req'[q] = req[q]
        /\ at[r] \notin {"idle", "done"} /\ req'[r].key = req[r].key
        /\ met' = met /\ lapsed' = lapsed
    BY <2>1 DEF Alone, Works
  <2>3. CASE LookUp(r)
    <3>1. /\ UNCHANGED <<stored, sessions>> /\ at[r] = "lookup" /\ req'[r].kept = req[r].kept
          /\ at'[r] = "done" \/ stored[req[r].key] = None
      <4>1. req[r] \in Request
        OBVIOUS
      <4>2. req' = req \/ \E a : req' = [req EXCEPT ![r].answer = a]
        BY <2>3 DEF LookUp, Answer
      <4>3. req'[r].kept = req[r].kept
        BY <4>1, <4>2 DEF Request
      <4> QED BY <2>3, <4>3 DEF LookUp, Goto, redis, remote
    <3>2. CASE at'[r] = "done"
      <4>1. Executed(r)' => Executed(r)
        BY <3>1, <3>2 DEF Executed, Ran
      <4> QED BY <1>3, <1>4, <2>2, <3>1, <4>1
    <3>3. CASE stored[req[r].key] = None
      <4>1. req[r].key \in Keys /\ ~req[r].kept
        BY <3>1 DEF Placed
      <4>2. \A p \in Requests : req'[p].kept = req[p].kept /\ req'[p].key = req[p].key
        BY <2>2, <3>1
      <4>3. \A p \in Requests : req[p].kept /\ req[p].key \notin lapsed => req[p].key # req[r].key
        BY <3>3 DEF KeptIsFound
      <4>4. \A q \in Requests \ {r} : Executed(q)' => Executed(q)
        BY <1>3, <2>2, <3>1
      <4> QED BY <2>2, <3>1, <4>1, <4>2, <4>3, <4>4 DEF KeptIsFound
    <3> QED BY <3>1, <3>2, <3>3
  <2>4. CASE Store(r)
    <3>1. /\ at[r] = "store" /\ at'[r] = "done" /\ sessions' = sessions /\ req'[r].kept
          /\ stored' = [stored EXCEPT ![req[r].key] = [body |-> req[r].body, answer |-> req[r].answer]]
      <4>1. req[r] \in Request
        OBVIOUS
      <4> QED BY <2>4, <4>1 DEF Store, Goto, remote, Request
    <3>2. stored'[req[r].key] # None /\ req[r].key \in Keys
      <4>1. \A b \in Bodies, a \in Requests : [body |-> b, answer |-> a] # None
        BY CheckoutAssumption
      <4>2. req[r].answer = r /\ req[r].body \in Bodies /\ req[r].key \in Keys
        BY <3>1 DEF Placed, Request
      <4> QED BY <3>1, <4>1, <4>2
    <3>3. \A q \in Requests : Executed(q)' => Executed(q)
      BY <1>3, <2>2, <3>1 DEF Executed
    <3>4. ASSUME NEW p \in Requests, req'[p].kept, req'[p].key \notin lapsed'
          PROVE  stored'[req'[p].key] # None
      BY <1>1, <1>2, <2>2, <3>1, <3>2, <3>4 DEF KeptIsFound, Placed
    <3>5. ASSUME NEW p \in Requests, NEW q \in Requests, p # q, Executed(q)', req'[p].kept,
                 req'[p].key = req'[q].key, req'[p].key \notin lapsed'
          PROVE  q \in met'[p] \/ (~req'[q].kept /\ at'[q] = "done")
      <4>1. Executed(q) /\ req[p].key = req[q].key /\ req[p].key \notin lapsed
        BY <2>2, <3>3, <3>5
      <4>2. CASE p # r
        <5>1. req[p].kept /\ p \in Requests
          BY <2>2, <3>5, <4>2
        <5>2. q \in met[p] \/ (~req[q].kept /\ at[q] = "done")
          BY <3>5, <4>1, <5>1 DEF KeptIsFound
        <5> QED BY <2>2, <5>2
      <4>3. CASE p = r
        <5>1. ASSUME q \notin met[r] PROVE ~req[q].kept /\ at[q] = "done"
          <6>1. at[q] = "done"
            <7>1. Started(q)
              BY <4>1 DEF Executed, Started, Ran, AnswersFit, Session
            <7> QED BY <3>1, <3>5, <4>3, <5>1, <7>1, BusyMeet DEF Started
          <6>2. ASSUME req[q].kept PROVE FALSE
            <7>1. Executed(r)
              BY <3>1 DEF Executed
            <7>2. r \in met[q] \/ at[r] = "done"
              BY <3>5, <4>1, <4>3, <6>2, <7>1 DEF KeptIsFound
            <7>3. q \in met[r]
              BY <3>1, <7>2 DEF MetSound
            <7> QED BY <5>1, <7>3
          <6> QED BY <6>1, <6>2
        <5> QED BY <2>2, <3>5, <4>3, <5>1
      <4> QED BY <4>2, <4>3
    <3> QED BY <3>4, <3>5 DEF KeptIsFound
  <2>5. CASE CreateSession(r)
    <3>1. /\ at[r] = "session" /\ req'[r].kept = req[r].kept
          /\ \A s \in sessions' : s \in sessions \/ s.by = r
      BY <2>5 DEF CreateSession, Goto, Answer
    <3>2. Executed(r) /\ \A q \in Requests \ {r} : Executed(q)' => Executed(q)
      BY <2>2, <3>1 DEF Executed, Ran
    <3> QED BY <1>4, <2>2, <3>1, <3>2
  <2>6. CASE ~LookUp(r) /\ ~Store(r) /\ ~CreateSession(r)
    <3>1. /\ sessions' = sessions /\ req'[r].kept = req[r].kept
          /\ at[r] = "lookup" => at'[r] = "done"
      BY <1>6, <2>6, OtherStatements
    <3>2. Executed(r)' => Executed(r)
      BY <2>2, <3>1 DEF Executed, Ran
    <3> QED BY <1>3, <1>4, <2>2, <3>1, <3>2
  <2> QED BY <2>3, <2>4, <2>5, <2>6
<1>7. CASE Outside
  BY <1>3, <1>4, <1>7 DEF Outside
<1> QED BY <1>5, <1>6, <1>7, StepCases

LEMMA KeyInit == Init => KeyInv
BY MetInit, CheckoutAssumption
DEF Init, KeyInv, AnswersFit, StoredFits, AnswerFits, KeptIsFound, Executed, Ran

(* A key stands for one execution, whatever requests repeat it, and nobody *)
(* is answered with the outcome of a request that asked something else.    *)
THEOREM KeysRunOnce == Spec => []KeyRunsOnce
<1>1. KeyInv /\ [Next]_vars => KeyInv'
  BY MetStep, AnswersStep, FoundStep DEF KeyInv
<1>2. KeyInv => KeyRunsOnce
  <2> SUFFICES ASSUME KeyInv PROVE KeyRunsOnce
    OBVIOUS
  <2>1. ASSUME NEW r \in Requests, NEW q \in Requests, r # q, Ran(r), Ran(q), Alike(r, q)
        PROVE  q \in met[r] \/ ~req[r].kept \/ ~req[q].kept \/ req[r].key \in lapsed
    BY <2>1 DEF KeyInv, KeptIsFound, Executed, Alike
  <2> QED BY <2>1 DEF KeyInv, AnswersFit, AnswerFits, KeyRunsOnce
<1> QED BY <1>1, <1>2, KeyInit, PTL DEF Spec

-----------------------------------------------------------------------------
(* The coupon *)

WithCoupon == {r \in Requests : at[r] = "session" /\ req[r].body = "coupon"}
Discounted == {s \in sessions : s.discount}

CouponCounted ==
    /\ IsFiniteSet(WithCoupon) /\ IsFiniteSet(Discounted)
    /\ Cardinality(WithCoupon) + Cardinality(Discounted) <= coupon

Contenders(r, q) == req[r].body = "coupon" /\ req[q].body = "coupon" /\ q \in met[r]

CouponRaced ==
    /\ coupon > MaxRedemptions => \E r, q \in Requests : Contenders(r, q)
    /\ \A r \in Requests : at[r] = "redeem" /\ coupon >= MaxRedemptions =>
           \E q \in Requests : Contenders(r, q)

CouponInv == MetInv /\ CouponCounted /\ CouponRaced

(* The statements that neither redeem the coupon nor open a session. *)
LEMMA CouponStays ==
    ASSUME TypeInv, NEW r \in Requests, RequestStep(r), ~Redeem(r), ~CreateSession(r)
    PROVE  /\ UNCHANGED <<coupon, sessions>>
           /\ at'[r] = "session" => req[r].body # "coupon"
           /\ at'[r] = "redeem" => coupon < MaxRedemptions
<1> USE DEF TypeInv, TypeOK, Goto, local, remote
<1>1. CASE LookUp(r) \/ GetPlan(r) \/ Store(r)
  BY <1>1 DEF LookUp, GetPlan, Store, Refuse
<1>2. CASE FindSubscription(r) \/ Backfill(r)
  BY <1>2 DEF FindSubscription, Backfill, HaveSubscription, AfterCustomer
<1>3. CASE CreateCustomer(r) \/ LinkCustomer(r)
  BY <1>3 DEF CreateCustomer, LinkCustomer, AfterCustomer
<1>4. CASE ResolveCoupon(r)
  BY <1>4 DEF ResolveCoupon, Refuse
<1>5. CASE HandlerFails(r) \/ AuditFails(r) \/ StoreFails(r)
  BY <1>5 DEF HandlerFails, AuditFails, StoreFails, Refuse
<1> QED BY <1>1, <1>2, <1>3, <1>4, <1>5 DEF RequestStep, Step

(* Fewer sessions are about to be opened, and none was. *)
LEMMA FewerCounted ==
    ASSUME TypeInv, CouponCounted, WithCoupon' \subseteq WithCoupon, UNCHANGED <<sessions, coupon>>
    PROVE  CouponCounted'
<1>1. Discounted' = Discounted
  BY DEF Discounted
<1>2. IsFiniteSet(WithCoupon') /\ Cardinality(WithCoupon') <= Cardinality(WithCoupon)
  BY FS_Subset DEF CouponCounted
<1>3. /\ Cardinality(WithCoupon) \in Nat /\ Cardinality(Discounted) \in Nat
      /\ Cardinality(WithCoupon') \in Nat
  BY <1>2, FS_CardinalityType DEF CouponCounted
<1> QED BY <1>1, <1>2, <1>3 DEF CouponCounted, TypeInv, TypeOK

LEMMA AddOne ==
    ASSUME NEW S, NEW x, IsFiniteSet(S)
    PROVE  /\ IsFiniteSet(S \cup {x}) /\ Cardinality(S \cup {x}) \in Nat
           /\ Cardinality(S \cup {x}) <= Cardinality(S) + 1
<1>1. Cardinality(S) \in Nat
  BY FS_CardinalityType
<1>2. IsFiniteSet(S \cup {x}) /\ Cardinality(S \cup {x}) \in {Cardinality(S), Cardinality(S) + 1}
  BY FS_AddElement
<1> QED BY <1>1, <1>2

LEMMA DropOne ==
    ASSUME NEW S, NEW x, IsFiniteSet(S)
    PROVE  /\ IsFiniteSet(S \ {x}) /\ Cardinality(S \ {x}) \in Nat
           /\ Cardinality(S \ {x}) <= Cardinality(S)
           /\ x \in S => Cardinality(S \ {x}) = Cardinality(S) - 1
<1>1. Cardinality(S) \in Nat
  BY FS_CardinalityType
<1>2. /\ IsFiniteSet(S \ {x})
      /\ x \in S => Cardinality(S \ {x}) = Cardinality(S) - 1
      /\ x \notin S => Cardinality(S \ {x}) = Cardinality(S)
  BY FS_RemoveElement
<1>3. Cardinality(S \ {x}) \in Nat
  BY <1>2, FS_CardinalityType
<1> QED BY <1>1, <1>2, <1>3

LEMMA CountedStep == CouponInv /\ [Next]_vars => CouponCounted'
<1> SUFFICES ASSUME CouponInv, [Next]_vars PROVE CouponCounted'
  OBVIOUS
<1> USE DEF CouponInv, MetInv, TypeInv, TypeOK
<1>0. /\ Cardinality(WithCoupon) \in Nat /\ Cardinality(Discounted) \in Nat
      /\ Cardinality(WithCoupon) + Cardinality(Discounted) <= coupon
  BY FS_CardinalityType DEF CouponCounted
<1>1. ASSUME NEW r \in Requests, Send(r) PROVE CouponCounted'
  <2>1. Sends(r) /\ Alone(r)
    BY <1>1, SendMoves
  <2>2. WithCoupon' \subseteq WithCoupon
    BY <2>1 DEF Sends, Alone, WithCoupon
  <2> QED BY <2>1, <2>2, FewerCounted DEF Sends, remote, local
<1>2. ASSUME NEW r \in Requests, RequestStep(r) PROVE CouponCounted'
  <2>1. /\ \A q \in Requests \ {r} : at'[q] = at[q] /\ req'[q] = req[q]
        /\ req'[r].body = req[r].body
    BY <1>2, StepMoves DEF Works, Alone
  <2>2. CASE Redeem(r)
    <3>1. coupon' = coupon + 1 /\ sessions' = sessions /\ at[r] = "redeem"
      BY <2>2 DEF Redeem, remote
    <3>2. WithCoupon' \subseteq WithCoupon \cup {r}
      BY <2>1 DEF WithCoupon
    <3>3. /\ IsFiniteSet(WithCoupon \cup {r})
          /\ Cardinality(WithCoupon \cup {r}) <= Cardinality(WithCoupon) + 1
      BY AddOne DEF CouponCounted
    <3>4. IsFiniteSet(WithCoupon') /\ Cardinality(WithCoupon') <= Cardinality(WithCoupon \cup {r})
      BY <3>2, <3>3, FS_Subset
    <3>5. Cardinality(WithCoupon') \in Nat /\ Cardinality(WithCoupon \cup {r}) \in Nat
      BY <3>3, <3>4, FS_CardinalityType
    <3>6. Discounted' = Discounted
      BY <3>1 DEF Discounted
    <3> QED BY <1>0, <3>1, <3>3, <3>4, <3>5, <3>6 DEF CouponCounted
  <2>3. CASE CreateSession(r)
    <3> DEFINE new == [by |-> r, customer |-> req[r].customer, discount |-> req[r].body = "coupon"]
    <3>1. /\ sessions' = sessions \cup {new} /\ coupon' = coupon
          /\ at[r] = "session" /\ at'[r] = "store"
      BY <2>3 DEF CreateSession, Goto, local
    <3>2. WithCoupon' = WithCoupon \ {r}
      BY <2>1, <3>1 DEF WithCoupon
    <3>3. IsFiniteSet(WithCoupon') /\ Cardinality(WithCoupon') \in Nat
      BY <3>2, DropOne DEF CouponCounted
    <3>4. CASE req[r].body = "coupon"
      <4>1. new.discount
        BY <3>4
      <4>2. Discounted' = Discounted \cup {new}
        BY <3>1, <4>1 DEF Discounted
      <4>3. r \in WithCoupon
        BY <3>1, <3>4 DEF WithCoupon
      <4>4. Cardinality(WithCoupon') = Cardinality(WithCoupon) - 1
        BY <3>2, <4>3, DropOne DEF CouponCounted
      <4> HIDE DEF new
      <4>5. /\ IsFiniteSet(Discounted') /\ Cardinality(Discounted') \in Nat
            /\ Cardinality(Discounted') <= Cardinality(Discounted) + 1
        BY <4>2, AddOne DEF CouponCounted
      <4> QED BY <1>0, <3>1, <3>3, <4>4, <4>5 DEF CouponCounted
    <3>5. CASE req[r].body # "coupon"
      <4>1. ~new.discount
        BY <3>5
      <4>2. Discounted' = Discounted
        BY <3>1, <4>1 DEF Discounted
      <4>3. Cardinality(WithCoupon') <= Cardinality(WithCoupon)
        BY <3>2, DropOne DEF CouponCounted
      <4> QED BY <1>0, <3>1, <3>3, <4>2, <4>3 DEF CouponCounted
    <3> QED BY <3>4, <3>5
  <2>4. CASE ~Redeem(r) /\ ~CreateSession(r)
    <3>1. UNCHANGED <<coupon, sessions>> /\ (at'[r] = "session" => req[r].body # "coupon")
      BY <1>2, <2>4, CouponStays
    <3>2. WithCoupon' \subseteq WithCoupon
      BY <2>1, <3>1 DEF WithCoupon
    <3> QED BY <3>1, <3>2, FewerCounted
  <2> QED BY <2>2, <2>3, <2>4
<1>3. CASE Outside
  BY <1>3, FewerCounted DEF Outside, WithCoupon
<1> QED BY <1>1, <1>2, <1>3, StepCases

LEMMA RacedStep == CouponInv /\ [Next]_vars => CouponRaced'
<1> SUFFICES ASSUME CouponInv, [Next]_vars PROVE CouponRaced'
  OBVIOUS
<1> USE CheckoutAssumption DEF CouponInv, MetInv, TypeInv, TypeOK
<1>1. ASSUME NEW r \in Requests, NEW q \in Requests, Contenders(r, q) PROVE Contenders(r, q)'
  <2>1. Started(r) /\ Started(q)
    BY <1>1 DEF Contenders, MetSound
  <2> QED BY <1>1, <2>1, Keeps, MeetingsLast DEF Contenders
<1>2. ASSUME coupon' = coupon,
             \A r \in Requests : at'[r] = "redeem" => at[r] = "redeem" \/ coupon < MaxRedemptions
      PROVE  CouponRaced'
  <2>1. ASSUME coupon > MaxRedemptions PROVE \E r, q \in Requests : Contenders(r, q)'
    BY <1>1, <2>1 DEF CouponRaced
  <2>2. ASSUME NEW r \in Requests, at'[r] = "redeem", coupon >= MaxRedemptions
        PROVE  \E q \in Requests : Contenders(r, q)'
    BY <1>1, <1>2, <2>2 DEF CouponRaced
  <2> QED BY <1>2, <2>1, <2>2 DEF CouponRaced
<1>3. ASSUME NEW r \in Requests, Send(r) PROVE CouponRaced'
  <2>1. Sends(r) /\ Alone(r)
    BY <1>3, SendMoves
  <2> QED BY <1>2, <2>1 DEF Sends, Alone, local
<1>4. ASSUME NEW r \in Requests, RequestStep(r) PROVE CouponRaced'
  <2>1. /\ \A q \in Requests \ {r} : at'[q] = at[q] /\ req'[q] = req[q]
        /\ req'[r].body = req[r].body /\ met' = met
    BY <1>4, StepMoves DEF Works, Alone
  <2>2. CASE Redeem(r)
    <3>1. coupon' = coupon + 1 /\ at[r] = "redeem" /\ at'[r] = "session" /\ req[r].body = "coupon"
      BY <2>2 DEF Redeem, Goto, Placed
    <3>2. ASSUME coupon' > MaxRedemptions PROVE \E p, q \in Requests : Contenders(p, q)'
      <4>1. \E q \in Requests : Contenders(r, q)
        BY <3>1, <3>2 DEF CouponRaced
      <4> QED BY <1>1, <4>1
    <3>3. ASSUME NEW p \in Requests, at'[p] = "redeem" PROVE \E q \in Requests : Contenders(p, q)'
      <4>1. p # r /\ at[p] = "redeem" /\ req[p].body = "coupon"
        BY <2>1, <3>1, <3>3 DEF Placed
      <4>2. Contenders(p, r)
        BY <3>1, <4>1, BusyMeet DEF Contenders
      <4> QED BY <1>1, <4>2
    <3> QED BY <3>2, <3>3 DEF CouponRaced
  <2>3. CASE CreateSession(r)
    BY <1>2, <2>1, <2>3 DEF CreateSession, Goto, local
  <2>4. CASE ~Redeem(r) /\ ~CreateSession(r)
    BY <1>2, <1>4, <2>1, <2>4, CouponStays
  <2> QED BY <2>2, <2>3, <2>4
<1>5. CASE Outside
  BY <1>2, <1>5 DEF Outside
<1> QED BY <1>3, <1>4, <1>5, StepCases

LEMMA CouponStep == CouponInv /\ [Next]_vars => CouponInv'
BY MetStep, CountedStep, RacedStep DEF CouponInv

LEMMA CouponInit == Init => CouponInv
<1> SUFFICES ASSUME Init PROVE CouponInv
  OBVIOUS
<1>1. WithCoupon = {} /\ Discounted = {} /\ coupon = 0
  BY DEF Init, WithCoupon, Discounted
<1>2. CouponCounted
  BY <1>1, FS_EmptySet DEF CouponCounted
<1>3. CouponRaced
  BY <1>1, CheckoutAssumption DEF Init, CouponRaced
<1> QED BY <1>2, <1>3, MetInit DEF CouponInv

LEMMA CouponInvKeeps == CouponInv => CouponKept
<1> SUFFICES ASSUME CouponInv PROVE CouponKept
  OBVIOUS
<1>1. Cardinality({s \in sessions : s.discount}) <= coupon
  BY FS_CardinalityType DEF CouponInv, CouponCounted, Discounted, MetInv, TypeInv, TypeOK
<1>2. ASSUME coupon > MaxRedemptions
      PROVE  \E r, q \in Requests : {req[r].body, req[q].body} = {"coupon"} /\ q \in met[r]
  BY <1>2 DEF CouponInv, CouponRaced, Contenders
<1> QED BY <1>1, <1>2 DEF CouponKept

-----------------------------------------------------------------------------
(* Customers *)

CustomersMet ==
    /\ \A q \in customers : at[q] \in {"link", "coupon", "redeem", "session", "store", "done"}
    /\ \A q \in customers :
           at[q] # "link" /\ req[q].answer # "error" => row \in Requests
    /\ \A r \in Requests, q \in customers :
           at[r] = "customer" => q \in met[r] \/ req[q].answer = "error"
    /\ OneCustomer

SessionsLinked ==
    /\ \A r \in Requests :
           at[r] \in {"coupon", "redeem", "session"} /\ met[r] = {} => row = req[r].customer
    /\ \A s \in sessions :
           /\ Started(s.by)
           /\ met[s.by] = {} => /\ row = s.customer
                                /\ \A q \in Requests : at[q] \notin {"customer", "link"}
    /\ PaidIsLinked

CustomerInv == MetInv /\ CustomersMet /\ SessionsLinked

(* Where a handler looks at the customers: it goes to make one only when   *)
(* the row has none, and otherwise goes on with that of the row.           *)
LEMMA RowStatements ==
    ASSUME TypeInv, NEW r \in Requests, RequestStep(r)
    PROVE  /\ at'[r] = "customer" => row' = None
           /\ \/ UNCHANGED row
              \/ row = "absent" /\ row' = None
              \/ at[r] = "link" /\ row' = r
           /\ at[r] = "link" => row' = r \/ req'[r].answer = "error"
           /\ \/ UNCHANGED customers
              \/ at[r] = "customer" /\ at'[r] = "link" /\ customers' = customers \cup {r}
           /\ \/ UNCHANGED sessions
              \/ /\ at[r] = "session" /\ at'[r] = "store"
                 /\ \E s \in Session : /\ sessions' = sessions \cup {s}
                                       /\ s.by = r /\ s.customer = req[r].customer
           /\ at'[r] = "link" => at[r] = "customer"
           /\ at'[r] \in {"coupon", "redeem", "session"} =>
                  \/ row' = req'[r].customer
                  \/ at[r] \in {"coupon", "redeem"} /\ req'[r].customer = req[r].customer
           /\ at[r] \in {"customer", "link", "coupon", "redeem", "session", "store"} =>
                  at'[r] \in {"customer", "link", "coupon", "redeem", "session", "store", "done"}
           /\ at'[r] \in {"customer", "link"} => at[r] \in {"subscription", "backfill", "customer"}
<1> USE CheckoutAssumption DEF TypeInv, TypeOK, Goto, Answer, redis, remote, local, Refusals
<1>0. Placed(r) /\ req[r] \in Request
  OBVIOUS
<1>1. CASE LookUp(r) \/ GetPlan(r)
  BY <1>0, <1>1 DEF LookUp, GetPlan, Refuse, Request
<1>2. CASE FindSubscription(r)
  BY <1>0, <1>2 DEF FindSubscription, HaveSubscription, AfterCustomer, Request
<1>3. CASE Backfill(r)
  BY <1>0, <1>3 DEF Backfill, HaveSubscription, AfterCustomer, Request
<1>4. CASE CreateCustomer(r)
  BY <1>0, <1>4 DEF CreateCustomer, Request
<1>5. CASE LinkCustomer(r)
  BY <1>0, <1>5 DEF LinkCustomer, AfterCustomer, Placed, Request
<1>6. CASE ResolveCoupon(r) \/ Redeem(r)
  BY <1>0, <1>6 DEF ResolveCoupon, Redeem, Refuse, Request
<1>7. CASE CreateSession(r)
  <2>1. PICK s : /\ s = [by |-> r, customer |-> req[r].customer,
                         discount |-> req[r].body = "coupon"]
                 /\ sessions' = sessions \cup {s}
    BY <1>7 DEF CreateSession
  <2>2. s \in Session /\ s.by = r /\ s.customer = req[r].customer
    BY <1>0, <1>7, <2>1 DEF CreateSession, Placed, Session
  <2>3. /\ at[r] = "session" /\ at'[r] = "store" /\ UNCHANGED <<row, customers>>
    BY <1>7 DEF CreateSession
  <2> QED BY <2>1, <2>2, <2>3
<1>8. CASE Store(r) \/ StoreFails(r)
  BY <1>0, <1>8 DEF Store, StoreFails
<1>9. CASE HandlerFails(r) \/ AuditFails(r)
  BY <1>0, <1>9 DEF HandlerFails, AuditFails, Refuse, Request
<1> QED BY <1>1, <1>2, <1>3, <1>4, <1>5, <1>6, <1>7, <1>8, <1>9 DEF RequestStep, Step

LEMMA CustomersStep == CustomerInv /\ [Next]_vars => CustomersMet'
<1> SUFFICES ASSUME CustomerInv, [Next]_vars PROVE CustomersMet'
  OBVIOUS
<1> USE CheckoutAssumption DEF CustomerInv, MetInv, TypeInv, TypeOK
<1> DEFINE Beyond == {"link", "coupon", "redeem", "session", "store", "done"}
(* The customers are as they were, and nobody new is about to make one. *)
<1>1. ASSUME UNCHANGED <<row, customers>>,
             \A q \in customers : at'[q] = at[q] /\ req'[q].answer = req[q].answer,
             \A p \in Requests : at'[p] = "customer" => at[p] = "customer"
      PROVE  CustomersMet'
  <2>1. \A q \in customers : Started(q)
    BY DEF CustomersMet, Started
  <2>2. \A p, q \in Requests : Started(p) /\ q \in met[p] => q \in met'[p]
    BY MeetingsLast
  <2>3. \A p \in Requests, q \in customers :
            at'[p] = "customer" => q \in met'[p] \/ req'[q].answer = "error"
    BY <1>1, <2>2 DEF CustomersMet, Started
  <2>4. OneCustomer'
    BY <1>1, <2>1, <2>2 DEF CustomersMet, OneCustomer
  <2> QED BY <1>1, <2>3, <2>4 DEF CustomersMet
<1>2. ASSUME NEW r \in Requests, Send(r) PROVE CustomersMet'
  <2>1. Sends(r) /\ Alone(r)
    BY <1>2, SendMoves
  <2>2. \A q \in customers : q # r
    BY <2>1 DEF Sends, CustomersMet
  <2> QED BY <1>1, <2>1, <2>2 DEF Sends, Alone, remote, local
<1>3. ASSUME NEW r \in Requests, RequestStep(r) PROVE CustomersMet'
  <2>1. /\ \A q \in Requests \ {r} : at'[q] = at[q] /\ req'[q] = req[q]
        /\ met' = met /\ at[r] \notin {"idle", "done"} /\ at'[r] # "idle"
    BY <1>3, StepMoves DEF Works, Alone
  <2>2. req[r].answer # "error"
    BY <2>1 DEF Placed, Refusals
  <2>3. row \in Requests => row' \in Requests
    <3>1. \/ UNCHANGED row
          \/ row = "absent" /\ row' = None
          \/ at[r] = "link" /\ row' = r
      BY <1>3, RowStatements
    <3> QED BY <3>1
  <2>4. \/ customers' = customers
        \/ at[r] = "customer" /\ at'[r] = "link" /\ customers' = customers \cup {r}
    BY <1>3, RowStatements
  <2>5. \A q \in customers' : at'[q] \in Beyond
    <3>1. r \in customers => at'[r] \in Beyond
      BY <1>3, <2>1, RowStatements DEF CustomersMet
    <3> QED BY <2>1, <2>4, <3>1 DEF CustomersMet
  <2>6. \A q \in customers : at[q] # "link" /\ req[q].answer # "error" => row' \in Requests
    BY <2>3 DEF CustomersMet
  <2>7. ASSUME NEW q \in customers', at'[q] # "link", req'[q].answer # "error"
        PROVE  row' \in Requests
    <3>1. q \in customers
      BY <2>4, <2>7
    <3>2. CASE q = r
      <4>1. at[r] = "link" => row' \in Requests
        BY <1>3, <2>7, <3>2, RowStatements
      <4> QED BY <2>2, <2>6, <3>1, <3>2, <4>1
    <3> QED BY <2>1, <2>6, <2>7, <3>1, <3>2
  <2>8. ASSUME NEW p \in Requests, NEW q \in customers', at'[p] = "customer"
        PROVE  q \in met'[p] \/ req'[q].answer = "error"
    <3>1. CASE p = r
      <4>1. row' \notin Requests /\ at[r] \notin Beyond /\ q \in customers
        BY <1>3, <2>4, <2>8, <3>1, RowStatements
      <4>2. q # r /\ (at[q] = "link" \/ req[q].answer = "error")
        BY <2>6, <4>1 DEF CustomersMet
      <4>3. at[q] = "link" => q \in met[r]
        BY <2>1, <4>1, <4>2, BusyMeet
      <4> QED BY <2>1, <3>1, <4>1, <4>2, <4>3
    <3>2. CASE p # r /\ q \in customers
      BY <2>1, <2>2, <2>8, <3>2 DEF CustomersMet
    <3>3. CASE p # r /\ q \notin customers
      <4>1. q = r /\ at[p] = "customer" /\ at[r] = "customer"
        BY <2>1, <2>4, <2>8, <3>3
      <4> QED BY <2>1, <3>3, <4>1, BusyMeet
    <3> QED BY <3>1, <3>2, <3>3
  <2>9. ASSUME NEW p \in customers', NEW q \in customers', p # q
        PROVE  q \in met'[p] \/ "error" \in {req'[p].answer, req'[q].answer}
    <3>1. \A x \in Requests : req[x].answer = "error" => req'[x].answer = "error"
      BY <2>1, <2>2
    <3>2. CASE p \in customers /\ q \in customers
      BY <2>1, <2>9, <3>1, <3>2 DEF CustomersMet, OneCustomer
    <3>3. CASE p \notin customers
      <4>1. p = r /\ at[r] = "customer" /\ q \in customers
        BY <2>4, <2>9, <3>3
      <4> QED BY <2>1, <3>1, <4>1 DEF CustomersMet
    <3>4. CASE q \notin customers
      <4>1. q = r /\ at[r] = "customer" /\ p \in customers
        BY <2>4, <2>9, <3>4
      <4>2. p \in met[r] \/ req[p].answer = "error"
        BY <4>1 DEF CustomersMet
      <4> QED BY <2>1, <3>1, <4>1, <4>2 DEF MetSound
    <3> QED BY <3>2, <3>3, <3>4
  <2> QED BY <2>5, <2>7, <2>8, <2>9 DEF CustomersMet, OneCustomer
<1>4. CASE Outside
  BY <1>1, <1>4 DEF Outside
<1> QED BY <1>2, <1>3, <1>4, StepCases

LEMMA LinkedStep == CustomerInv /\ [Next]_vars => SessionsLinked'
<1> SUFFICES ASSUME CustomerInv, [Next]_vars PROVE SessionsLinked'
  OBVIOUS
<1> USE CheckoutAssumption DEF CustomerInv, MetInv, TypeInv, TypeOK
<1>0. \A p \in Requests : Started(p) => met[p] \subseteq met'[p]
  BY MeetingsLast
<1>1. \A s \in sessions : s.by \in Requests /\ s.customer \in Requests /\ Started(s.by)
  BY DEF Session, SessionsLinked
<1>2. ASSUME dropped' = dropped PROVE PaidIsLinked'
  BY <1>0, <1>1, <1>2 DEF SessionsLinked, PaidIsLinked
<1>3. ASSUME NEW r \in Requests, Send(r) PROVE SessionsLinked'
  <2>1. Sends(r) /\ Alone(r)
    BY <1>3, SendMoves
  <2>2. /\ \A q \in Requests \ {r} : at'[q] = at[q] /\ req'[q] = req[q]
        /\ at[r] = "idle" /\ at'[r] = "lookup"
        /\ UNCHANGED <<row, sessions, dropped>>
    BY <2>1 DEF Sends, Alone, remote, local
  <2>3. ASSUME NEW p \in Requests, at'[p] \in {"coupon", "redeem", "session"}, met'[p] = {}
        PROVE  row' = req'[p].customer
    <3>1. p # r /\ at[p] = at'[p] /\ Started(p)
      BY <2>2, <2>3 DEF Started
    <3> QED BY <1>0, <2>2, <2>3, <3>1 DEF SessionsLinked
  <2>4. ASSUME NEW s \in sessions
        PROVE  /\ Started(s.by)'
               /\ met'[s.by] = {} => /\ row' = s.customer
                                     /\ \A q \in Requests : at'[q] \notin {"customer", "link"}
    BY <1>0, <1>1, <2>2 DEF Started, SessionsLinked
  <2> QED BY <1>2, <2>2, <2>3, <2>4 DEF SessionsLinked
<1>4. ASSUME NEW r \in Requests, RequestStep(r) PROVE SessionsLinked'
  <2>1. /\ \A q \in Requests \ {r} : at'[q] = at[q] /\ req'[q] = req[q]
        /\ met' = met /\ at[r] \notin {"idle", "done"} /\ at'[r] # "idle"
        /\ dropped' = dropped
    BY <1>4, StepMoves DEF Works, Alone
  <2>2. \/ UNCHANGED row
        \/ row = "absent" /\ row' = None
        \/ at[r] = "link" /\ row' = r
    BY <1>4, RowStatements
  <2>3. ASSUME NEW p \in Requests, at'[p] \in {"coupon", "redeem", "session"}, met'[p] = {}
        PROVE  row' = req'[p].customer
    <3>1. CASE p # r
      BY <2>1, <2>3, <3>1, BusyMeet
    <3>2. CASE p = r
      <4>1. CASE at[r] \in {"coupon", "redeem"} /\ req'[r].customer = req[r].customer
        <5>1. row = req[r].customer /\ req[r].customer \in Requests
          BY <2>1, <2>3, <3>2, <4>1 DEF SessionsLinked, Placed
        <5> QED BY <2>2, <3>2, <4>1, <5>1
      <4> QED BY <1>4, <2>3, <3>2, <4>1, RowStatements
    <3> QED BY <3>1, <3>2
  <2>4. ASSUME NEW s \in sessions, met[s.by] = {}
        PROVE  row' = s.customer /\ \A q \in Requests : at'[q] \notin {"customer", "link"}
    <3>1. row = s.customer /\ s.customer \in Requests
          /\ \A q \in Requests : at[q] \notin {"customer", "link"}
      BY <1>1, <2>4 DEF SessionsLinked
    <3>2. row' = row
      BY <2>2, <3>1
    <3>3. at'[r] \notin {"customer", "link"}
      BY <1>4, <3>1, <3>2, RowStatements
    <3> QED BY <2>1, <3>1, <3>2, <3>3
  <2>5. \A s \in sessions : Started(s.by)'
    BY <1>1, <2>1 DEF Started
  <2>6. CASE sessions' = sessions
    BY <1>2, <2>1, <2>3, <2>4, <2>5, <2>6 DEF SessionsLinked
  <2>7. CASE sessions' # sessions
    <3>1. PICK n \in Session : /\ sessions' = sessions \cup {n}
                               /\ n.by = r /\ n.customer = req[r].customer
      BY <1>4, <2>7, RowStatements
    <3>2. at[r] = "session" /\ at'[r] = "store"
      BY <1>4, <2>7, RowStatements
    <3>3. ASSUME met[r] = {}
          PROVE  row' = n.customer /\ \A q \in Requests : at'[q] \notin {"customer", "link"}
      <4>1. row = req[r].customer /\ req[r].customer \in Requests
        BY <3>2, <3>3 DEF SessionsLinked, Placed
      <4>2. row' = row
        BY <2>2, <3>2, <4>1
      <4>3. ASSUME NEW q \in Requests PROVE at'[q] \notin {"customer", "link"}
        BY <2>1, <3>2, <3>3, BusyMeet
      <4> QED BY <3>1, <4>1, <4>2, <4>3
    <3>4. ASSUME NEW s \in sessions'
          PROVE  /\ Started(s.by)'
                 /\ met'[s.by] = {} => /\ row' = s.customer
                                       /\ \A q \in Requests : at'[q] \notin {"customer", "link"}
      <4>1. CASE s \in sessions
        BY <2>1, <2>4, <2>5, <4>1
      <4>2. CASE s = n
        BY <2>1, <3>1, <3>2, <3>3, <4>2 DEF Started
      <4> QED BY <3>1, <4>1, <4>2
    <3> QED BY <1>2, <2>1, <2>3, <3>4 DEF SessionsLinked
  <2> QED BY <2>6, <2>7
<1>5. CASE Outside
  <2>1. PaidIsLinked'
    <3>1. \A s \in dropped' : s \in dropped \/ (s \in sessions /\ row # s.customer)
      BY <1>5 DEF Outside
    <3>2. met' = met
      BY <1>5 DEF Outside
    <3> QED BY <3>1, <3>2 DEF SessionsLinked, PaidIsLinked
  <2> QED BY <1>5, <2>1 DEF Outside, SessionsLinked, Started
<1> QED BY <1>3, <1>4, <1>5, StepCases

LEMMA CustomerInit == Init => CustomerInv
<1> SUFFICES ASSUME Init PROVE CustomerInv
  OBVIOUS
<1>1. CustomersMet
  BY DEF Init, CustomersMet, OneCustomer
<1>2. SessionsLinked
  BY DEF Init, SessionsLinked, PaidIsLinked
<1> QED BY <1>1, <1>2, MetInit DEF CustomerInv

(* Only requests that overlap, or one that ends in an error, can give a    *)
(* coupon away too often, make a tenant two Stripe customers, or lose the  *)
(* event of what was paid.                                                 *)
THEOREM CheckoutsAreSafe == Spec => []CheckoutIsSafe
<1>1. CustomerInv /\ [Next]_vars => CustomerInv'
  BY MetStep, CustomersStep, LinkedStep DEF CustomerInv
<1>2. CustomerInv => OneCustomer /\ PaidIsLinked
  BY DEF CustomerInv, CustomersMet, SessionsLinked
<1>3. CouponInv /\ CustomerInv => CheckoutIsSafe
  BY <1>2, CouponInvKeeps DEF CheckoutIsSafe
<1> QED BY <1>1, <1>3, CouponInit, CouponStep, CustomerInit, PTL DEF Spec
=============================================================================
