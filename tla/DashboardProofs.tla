----------------------------- MODULE DashboardProofs -----------------------------
(***************************************************************************)
(* What the salon's staff are shown: the status of the messages that they  *)
(* send (WhatsAppOutbound) and the pages of the browser (Dashboard), two   *)
(* models that share no variable.                                          *)
(***************************************************************************)
EXTENDS WhatsAppOutbound, Dashboard, TLAPS, SequenceTheorems, NaturalsInduction,
        WellFoundedInduction

-----------------------------------------------------------------------------
(* Messages to customers.  The type invariant, with its bound on how often a *)
(* message can be sent, and the two safety invariants, for any number of     *)
(* messages, attempts and stalls.                                            *)

RunPoints == {"call", "setId", "setSent", "refused", "touch", "return"}

(* The job, the run and the row of m are at matching places. *)
Stage(m) ==
    /\ at[m] \in RunPoints <=> job[m] = "active"
    /\ at[m] = "enqueue" => job[m] = "none"
    /\ at[m] \in {"onFailed", "lost"} => job[m] = "failed"
    /\ status[m] = None => at[m] = "idle" /\ job[m] = "none"
    /\ job[m] = "none" => attempts[m] = 0 /\ stalls[m] = 0 /\ sends[m] = 0

(* Meta has m once more than runs of it have failed or died. *)
Accepted(m) ==
    at[m] \in {"setId", "setSent", "touch", "return"} \/ job[m] = "completed"

Budget(m) ==
    /\ job[m] # "failed" => attempts[m] < MaxAttempts /\ stalls[m] <= MaxStalls
    /\ attempts[m] + stalls[m] <= MaxSends
    /\ Accepted(m) => sends[m] <= attempts[m] + stalls[m] + 1
    /\ ~Accepted(m) => sends[m] <= attempts[m] + stalls[m]
    /\ at[m] \in {"setId", "setSent"} => sends[m] > 0
    /\ wamid[m] <= sends[m]
    /\ \A r \in receipts[m] : r.send <= sends[m]

Earned(m) ==
    /\ status[m] = "SENT" => sends[m] > 0
    /\ status[m] \in {"DELIVERED", "READ"} =>
           \E r \in receipts[m] : r.status = status[m]

Settled(m) ==
    /\ at[m] \in {"touch", "return"} \/ job[m] = "completed" => status[m] # "QUEUED"
    /\ job[m] = "failed" /\ attempts[m] = MaxAttempts /\ at[m] = "idle" =>
           status[m] # "QUEUED"

Sound(m) == Stage(m) /\ Budget(m) /\ Earned(m) /\ Settled(m)

IInv == TypeOK /\ \A m \in Messages : Sound(m)

-----------------------------------------------------------------------------
LEMMA InitIInv == Init => IInv
BY OutboundAssumption
DEF Init, IInv, TypeOK, Sound, Stage, Budget, Accepted, Earned, Settled, RunPoints,
    MaxSends, Delivery

(* What a step of one message leaves alone stays sound. *)
LEMMA OthersStay ==
    ASSUME NEW x \in Messages, Sound(x),
           status'[x] = status[x], wamid'[x] = wamid[x], sends'[x] = sends[x],
           receipts'[x] = receipts[x], job'[x] = job[x], attempts'[x] = attempts[x],
           stalls'[x] = stalls[x], at'[x] = at[x]
    PROVE  Sound(x)'
BY DEF Sound, Stage, Budget, Accepted, Earned, Settled, MaxSends

(* A run that throws: the attempt it used up pays for the send it may have *)
(* made.                                                                   *)
LEMMA ThrowStep ==
    ASSUME IInv, NEW m \in Messages, RunFails(m) \/ AnswerLost(m)
    PROVE  TypeOK' /\ Sound(m)'
<1> USE OutboundAssumption DEF IInv, TypeOK, MaxSends, Delivery
<1>1. /\ at[m] \in RunPoints /\ job[m] = "active"
      /\ Throw(m)
      /\ sends' \in [Messages -> Nat]
      /\ sends[m] <= sends'[m]
      /\ sends'[m] <= attempts[m] + stalls[m] + 1
      /\ \A x \in Messages \ {m} : sends'[x] = sends[x]
  <2>1. at[m] \in RunPoints /\ Throw(m)
    BY DEF RunFails, AnswerLost, RunPoints
  <2>2. job[m] = "active"
    BY <2>1 DEF Sound, Stage
  <2>3. CASE RunFails(m)
    BY <2>1, <2>2, <2>3 DEF RunFails, Sound, Budget
  <2>4. CASE AnswerLost(m)
    BY <2>1, <2>2, <2>4 DEF AnswerLost, Accept, Sound, Budget, Accepted
  <2> QED BY <2>3, <2>4
<1>2. attempts[m] < MaxAttempts /\ stalls[m] <= MaxStalls
  BY <1>1 DEF Sound, Budget
<1>3. /\ attempts'[m] = attempts[m] + 1 /\ stalls' = stalls
      /\ status' = status /\ wamid' = wamid /\ receipts' = receipts
      /\ \/ job'[m] = "failed" /\ at'[m] = "onFailed"
         \/ job'[m] = "waiting" /\ at'[m] = "idle" /\ attempts'[m] < MaxAttempts
  BY <1>1, <1>2 DEF Throw, Goto
<1>4. TypeOK'
  <2>1. \A x \in Messages : sends'[x] \in 0..MaxSends
    BY <1>1, <1>2
  <2>2. attempts' \in [Messages -> 0..MaxAttempts]
    BY <1>1, <1>2 DEF Throw
  <2>3. job' \in [Messages -> {"none", "waiting", "active", "completed", "failed"}]
    BY <1>1 DEF Throw
  <2>4. at' \in [Messages -> {"idle", "enqueue", "call", "setId", "setSent", "refused",
                              "touch", "return", "onFailed", "lost"}]
    BY <1>1 DEF Throw, Goto
  <2> QED BY <1>1, <1>3, <2>1, <2>2, <2>3, <2>4
<1>5. Stage(m)'
  BY <1>1, <1>3 DEF Sound, Stage, RunPoints
<1>6. Budget(m)'
  BY <1>1, <1>2, <1>3 DEF Sound, Budget, Accepted
<1>7. Earned(m)'
  BY <1>1, <1>3 DEF Sound, Earned
<1>8. Settled(m)'
  BY <1>3 DEF Settled
<1> QED BY <1>4, <1>5, <1>6, <1>7, <1>8 DEF Sound

LEMMA RunStep ==
    ASSUME IInv, NEW m \in Messages,
           \/ Create(m) \/ Enqueue(m) \/ Take(m) \/ CallAccepted(m) \/ CallRefused(m)
           \/ SetWhatsappMessageId(m) \/ MarkSent(m) \/ MarkRefused(m) \/ Touch(m)
           \/ Complete(m)
    PROVE  TypeOK' /\ Sound(m)'
<1> USE OutboundAssumption
    DEF IInv, TypeOK, MaxSends, Delivery, Goto, SetStatus, Sound, Stage, Budget,
        Accepted, Earned, Settled, RunPoints, meta, queue
<1>1. CASE Create(m)
  BY <1>1 DEF Create
<1>2. CASE Enqueue(m)
  BY <1>2 DEF Enqueue
<1>3. CASE Take(m)
  BY <1>3 DEF Take
<1>4. CASE CallAccepted(m)
  BY <1>4 DEF CallAccepted, Accept
<1>5. CASE CallRefused(m)
  BY <1>5 DEF CallRefused
<1>6. CASE SetWhatsappMessageId(m)
  BY <1>6 DEF SetWhatsappMessageId
<1>7. CASE MarkSent(m)
  BY <1>7 DEF MarkSent
<1>8. CASE MarkRefused(m)
  BY <1>8 DEF MarkRefused
<1>9. CASE Touch(m)
  BY <1>9 DEF Touch
<1>10. CASE Complete(m)
  BY <1>10 DEF Complete
<1> QED BY <1>1, <1>2, <1>3, <1>4, <1>5, <1>6, <1>7, <1>8, <1>9, <1>10

LEMMA QueueStep ==
    ASSUME IInv, NEW m \in Messages,
           EnqueueFails(m) \/ OnFailed(m) \/ OnFailedLost(m) \/ Crash(m)
    PROVE  TypeOK' /\ Sound(m)'
<1> USE OutboundAssumption
    DEF IInv, TypeOK, MaxSends, Delivery, Goto, SetStatus, Sound, Stage, Budget,
        Accepted, Earned, Settled, RunPoints, meta, queue
<1>1. CASE EnqueueFails(m)
  BY <1>1 DEF EnqueueFails
<1>2. CASE OnFailed(m)
  BY <1>2 DEF OnFailed
<1>3. CASE OnFailedLost(m)
  BY <1>3 DEF OnFailedLost
<1>4. CASE Crash(m)
  BY <1>4, SMTT(30) DEF Crash
<1> QED BY <1>1, <1>2, <1>3, <1>4

LEMMA ReceiptStep ==
    ASSUME IInv, NEW m \in Messages,
           ApplyReceipt(m) \/
             (\E k \in 1..sends[m], s \in Delivery : SendReceipt(m, k, s))
    PROVE  TypeOK' /\ Sound(m)'
<1> USE OutboundAssumption DEF IInv, TypeOK, MaxSends, Delivery
<1>1. CASE ApplyReceipt(m)
  <2>1. PICK r \in receipts[m] : r.send = wamid[m] /\ SetStatus(m, r.status)
    BY <1>1 DEF ApplyReceipt
  <2>2. r \in [send: 1..MaxSends, status: Receipts] /\ r.send <= sends[m]
    BY <2>1 DEF Sound, Budget
  <2>3. /\ status' = [status EXCEPT ![m] = r.status]
        /\ UNCHANGED <<wamid, sends, receipts, job, attempts, stalls, at>>
    BY <1>1, <2>1 DEF ApplyReceipt, SetStatus, meta, queue
  <2>4. r.status \in Delivery \ {"QUEUED"} /\ r.status # None /\ sends[m] > 0
    <3>1. r.status \in Receipts
      BY <2>2
    <3>2. r.status \in Delivery \ {"QUEUED"} /\ r.status # None
      BY <3>1, OutboundAssumption
    <3>3. r.send \in Nat /\ r.send >= 1
      BY <2>2
    <3>4. sends[m] \in Nat
      OBVIOUS
    <3>5. sends[m] > 0
      BY <2>2, <3>3, <3>4
    <3> QED BY <3>2, <3>5
  <2>5. sends[m] > 0 => job[m] # "none"
    BY DEF Sound, Stage
  <2>6. status'[m] = r.status
    BY <2>3
  <2>7. TypeOK'
    BY <2>3, <2>4
  <2>8. Stage(m)' /\ Budget(m)'
    BY <2>3, <2>4, <2>6 DEF Sound, Stage, Budget, Accepted
  <2>9. Earned(m)' /\ Settled(m)'
    BY <2>1, <2>3, <2>4, <2>6 DEF Earned, Settled
  <2> QED BY <2>7, <2>8, <2>9 DEF Sound
<1>2. ASSUME NEW k \in 1..sends[m], NEW s \in Delivery, SendReceipt(m, k, s)
      PROVE  TypeOK' /\ Sound(m)'
  <2>1. s \in Receipts /\ k \in 1..MaxSends
    BY <1>2 DEF SendReceipt
  <2>2. /\ receipts' = [receipts EXCEPT ![m] = @ \cup {[send |-> k, status |-> s]}]
        /\ UNCHANGED <<status, wamid, sends, job, attempts, stalls, at>>
    BY <1>2 DEF SendReceipt, queue
  <2>3. receipts'[m] = receipts[m] \cup {[send |-> k, status |-> s]}
    BY <2>2
  <2>4. TypeOK'
    BY <2>1, <2>2
  <2>5. Sound(m)'
    BY <2>2, <2>3 DEF Sound, Stage, Budget, Accepted, Earned, Settled
  <2> QED BY <2>4, <2>5
<1> QED BY <1>1, <1>2

LEMMA StepIInv == IInv /\ [Next]_vars => IInv'
<1> SUFFICES ASSUME IInv, [Next]_vars PROVE IInv'
  OBVIOUS
<1>1. ASSUME NEW m \in Messages,
             \/ SendStep(m) \/ Failure(m) \/ ApplyReceipt(m)
             \/ \E k \in 1..sends[m], s \in Delivery : SendReceipt(m, k, s)
      PROVE  IInv'
  <2>1. TypeOK' /\ Sound(m)'
    BY <1>1, ThrowStep, RunStep, QueueStep, ReceiptStep DEF SendStep, Failure
  <2>2. ASSUME NEW x \in Messages, x # m
        PROVE  /\ status'[x] = status[x] /\ wamid'[x] = wamid[x]
               /\ sends'[x] = sends[x] /\ receipts'[x] = receipts[x]
               /\ job'[x] = job[x] /\ attempts'[x] = attempts[x]
               /\ stalls'[x] = stalls[x] /\ at'[x] = at[x]
    <3> USE <2>2 DEF IInv, TypeOK, Goto, SetStatus, meta, queue
    <3>1. CASE SendStep(m)
      BY <3>1
      DEF SendStep, Create, Enqueue, Take, CallAccepted, Accept, CallRefused,
          SetWhatsappMessageId, MarkSent, MarkRefused, Touch, Complete, OnFailed
    <3>2. CASE Failure(m)
      BY <3>2
      DEF Failure, EnqueueFails, RunFails, AnswerLost, Throw, Accept, OnFailedLost, Crash
    <3>3. CASE ApplyReceipt(m)
      BY <3>3 DEF ApplyReceipt
    <3>4. CASE \E k \in 1..sends[m], s \in Delivery : SendReceipt(m, k, s)
      BY <3>4 DEF SendReceipt
    <3> QED BY <1>1, <3>1, <3>2, <3>3, <3>4
  <2>3. ASSUME NEW x \in Messages, x # m PROVE Sound(x)'
    BY <2>2, <2>3, OthersStay DEF IInv
  <2> QED BY <2>1, <2>3 DEF IInv
<1>2. CASE UNCHANGED vars
  <2>1. TypeOK'
    BY <1>2 DEF IInv, TypeOK, vars, MaxSends
  <2>2. \A x \in Messages : Sound(x)'
    BY <1>2, OthersStay DEF IInv, vars
  <2> QED BY <2>1, <2>2 DEF IInv
<1> QED BY <1>1, <1>2 DEF Next

LEMMA Invariance == Spec => []IInv
BY InitIInv, StepIInv, PTL DEF Spec

-----------------------------------------------------------------------------
(* Type correctness, and with it the bound on duplicates: however its runs *)
(* fail, a message is handed to Meta at most once per attempt and stall.   *)
THEOREM OutboundTypeCorrect == Spec => []TypeOK
<1>1. IInv => TypeOK
  BY DEF IInv
<1> QED BY <1>1, Invariance, PTL

(* The status never claims more than Meta accepted or reported, whatever   *)
(* the order of receipts, the sender's own writes and its retries.         *)
THEOREM StatusEarned == Spec => []StatusIsEarned
<1>1. IInv => StatusIsEarned
  BY DEF IInv, Sound, Earned, StatusIsEarned
<1> QED BY <1>1, Invariance, PTL

(* A job that completed or used up its attempts leaves no message QUEUED,  *)
(* once the handler of its last failure has run.                           *)
THEOREM OverSettles == Spec => []OverIsNotQueued
<1>1. IInv => OverIsNotQueued
  BY DEF IInv, Sound, Settled, OverIsNotQueued
<1> QED BY <1>1, Invariance, PTL

-----------------------------------------------------------------------------
(* The dashboard: lists of requests as sets. *)

LEMMA ListOf ==
    ASSUME NEW S, NEW s \in Seq(S)
    PROVE  s \in Seq(ToSet(s)) /\ DOMAIN s = 1..Len(s) /\ Len(s) \in Nat
BY DEF ToSet

LEMMA Removed ==
    ASSUME NEW s, s \in Seq(ToSet(s)), NEW i \in DOMAIN s
    PROVE  /\ RemoveAt(s, i) \in Seq(ToSet(s))
           /\ Len(RemoveAt(s, i)) = Len(s) - 1
           /\ \A k \in 1..(Len(s) - 1) :
                 RemoveAt(s, i)[k] = IF k < i THEN s[k] ELSE s[k + 1]
<1> DEFINE S == ToSet(s)
           a == SubSeq(s, 1, i - 1)
           b == SubSeq(s, i + 1, Len(s))
<1>1. s \in Seq(S) /\ DOMAIN s = 1..Len(s) /\ Len(s) \in Nat
      /\ i \in 1..Len(s) /\ \A k \in 1..Len(s) : s[k] \in S
  BY DEF ToSet
<1>2. a \in Seq(S) /\ Len(a) = i - 1 /\ \A k \in 1..(i - 1) : a[k] = s[k]
  BY <1>1, SubSeqProperties
<1>3. b \in Seq(S) /\ Len(b) = Len(s) - i /\ \A k \in 1..(Len(s) - i) : b[k] = s[i + k]
  BY <1>1, SubSeqProperties
<1>4. RemoveAt(s, i) = a \o b
  BY DEF RemoveAt
<1> HIDE DEF a, b, S
<1>5. /\ a \o b \in Seq(S) /\ Len(a \o b) = Len(a) + Len(b)
      /\ \A k \in 1..(Len(a) + Len(b)) : (a \o b)[k] = IF k <= Len(a) THEN a[k] ELSE b[k - Len(a)]
  BY <1>2, <1>3, ConcatProperties
<1>6. RemoveAt(s, i) \in Seq(S) /\ Len(RemoveAt(s, i)) = Len(s) - 1
  BY <1>1, <1>2, <1>3, <1>4, <1>5
<1>7. ASSUME NEW k \in 1..(Len(s) - 1)
      PROVE  RemoveAt(s, i)[k] = IF k < i THEN s[k] ELSE s[k + 1]
  <2>1. CASE k < i
    BY <1>1, <1>2, <1>3, <1>4, <1>5, <2>1
  <2>2. CASE ~(k < i)
    <3>1. k - (i - 1) \in 1..(Len(s) - i) /\ i + (k - (i - 1)) = k + 1
      BY <1>1, <2>2
    <3>2. b[k - (i - 1)] = s[k + 1]
      BY <1>3, <3>1
    <3>3. k \in 1..(Len(a) + Len(b)) /\ ~(k <= Len(a)) /\ k - Len(a) = k - (i - 1)
      BY <1>1, <1>2, <1>3, <2>2
    <3>4. (a \o b)[k] = b[k - (i - 1)]
      BY <1>5, <3>3
    <3> QED BY <1>4, <2>2, <3>2, <3>4
  <2> QED BY <2>1, <2>2
<1> QED BY <1>6, <1>7 DEF S

LEMMA RemovedSet ==
    ASSUME NEW s, s \in Seq(ToSet(s)), NEW i \in DOMAIN s
    PROVE  /\ RemoveAt(s, i) \in Seq(ToSet(RemoveAt(s, i)))
           /\ ToSet(RemoveAt(s, i)) \subseteq ToSet(s)
           /\ ToSet(s) \ {s[i]} \subseteq ToSet(RemoveAt(s, i))
<1>0. PICK t : t = RemoveAt(s, i)
  OBVIOUS
<1>1. /\ t \in Seq(ToSet(s)) /\ Len(t) = Len(s) - 1
      /\ \A k \in 1..(Len(s) - 1) : t[k] = IF k < i THEN s[k] ELSE s[k + 1]
  BY <1>0, Removed
<1>2. DOMAIN s = 1..Len(s) /\ Len(s) \in Nat /\ i \in 1..Len(s)
  OBVIOUS
<1>3. t \in Seq(ToSet(t)) /\ DOMAIN t = 1..Len(t)
  BY <1>1, ListOf
<1>4. ToSet(t) \subseteq ToSet(s)
  BY <1>1, <1>3 DEF ToSet
<1>5. ASSUME NEW k \in 1..Len(s), k # i
      PROVE  \E n \in 1..(Len(s) - 1) : t[n] = s[k]
  <2>1. CASE k < i
    BY <1>1, <1>2, <2>1
  <2>2. CASE k > i
    <3>1. k - 1 \in 1..(Len(s) - 1) /\ ~(k - 1 < i)
      BY <1>2, <2>2
    <3>2. t[k - 1] = s[(k - 1) + 1]
      BY <1>1, <3>1
    <3> QED BY <3>1, <3>2
  <2> QED BY <1>2, <1>5, <2>1, <2>2
<1>6. ToSet(s) \ {s[i]} \subseteq ToSet(t)
  <2> SUFFICES ASSUME NEW x \in ToSet(s), x # s[i] PROVE x \in ToSet(t)
    OBVIOUS
  <2>1. PICK k \in 1..Len(s) : x = s[k] /\ k # i
    BY <1>2 DEF ToSet
  <2>2. PICK n \in 1..(Len(s) - 1) : t[n] = x
    BY <1>5, <2>1
  <2> QED BY <1>1, <1>3, <2>2 DEF ToSet
<1> QED BY <1>0, <1>3, <1>4, <1>6

LEMMA AppendedSet ==
    ASSUME NEW s, s \in Seq(ToSet(s)), NEW e
    PROVE  /\ Append(s, e) \in Seq(ToSet(Append(s, e)))
           /\ ToSet(Append(s, e)) = ToSet(s) \cup {e}
<1> DEFINE S == ToSet(s) \cup {e}
<1>0. s \in Seq(S)
  OBVIOUS
<1>1. /\ Append(s, e) \in Seq(S) /\ Len(Append(s, e)) = Len(s) + 1
      /\ \A k \in 1..Len(s) : Append(s, e)[k] = s[k]
      /\ Append(s, e)[Len(s) + 1] = e
      /\ DOMAIN s = 1..Len(s) /\ Len(s) \in Nat
  BY <1>0, AppendProperties
<1>2. DOMAIN Append(s, e) = 1..(Len(s) + 1)
  BY <1>1
<1>3. ToSet(Append(s, e)) = S
  BY <1>1, <1>2 DEF ToSet
<1> QED BY <1>1, <1>3

LEMMA JoinedSet ==
    ASSUME NEW s, s \in Seq(ToSet(s)), NEW t, t \in Seq(ToSet(t))
    PROVE  /\ s \o t \in Seq(ToSet(s \o t))
           /\ ToSet(s \o t) = ToSet(s) \cup ToSet(t)
<1> DEFINE S == ToSet(s) \cup ToSet(t)
<1>0. s \in Seq(S) /\ t \in Seq(S)
  OBVIOUS
<1>1. /\ s \o t \in Seq(S) /\ Len(s \o t) = Len(s) + Len(t)
      /\ \A k \in 1..(Len(s) + Len(t)) :
            (s \o t)[k] = IF k <= Len(s) THEN s[k] ELSE t[k - Len(s)]
      /\ DOMAIN s = 1..Len(s) /\ Len(s) \in Nat
      /\ DOMAIN t = 1..Len(t) /\ Len(t) \in Nat
  BY <1>0, ConcatProperties
<1>2. DOMAIN (s \o t) = 1..(Len(s) + Len(t))
  BY <1>1
<1>3. ToSet(s \o t) \subseteq S
  <2> SUFFICES ASSUME NEW k \in 1..(Len(s) + Len(t)) PROVE (s \o t)[k] \in S
    BY <1>2 DEF ToSet
  <2>1. CASE k <= Len(s)
    BY <1>1, <2>1 DEF ToSet
  <2>2. CASE ~(k <= Len(s))
    <3>1. k - Len(s) \in 1..Len(t)
      BY <1>1, <2>2
    <3>2. t[k - Len(s)] \in ToSet(t)
      BY <1>1, <3>1 DEF ToSet
    <3>3. (s \o t)[k] = t[k - Len(s)]
      BY <1>1, <2>2
    <3> QED BY <3>2, <3>3
  <2> QED BY <2>1, <2>2
<1>4. ToSet(s) \subseteq ToSet(s \o t)
  BY <1>1, <1>2 DEF ToSet
<1>5. ToSet(t) \subseteq ToSet(s \o t)
  <2> SUFFICES ASSUME NEW k \in 1..Len(t)
               PROVE  \E n \in 1..(Len(s) + Len(t)) : (s \o t)[n] = t[k]
    <3>1. ToSet(t) = {t[k] : k \in 1..Len(t)}
      BY <1>1 DEF ToSet
    <3>2. ToSet(s \o t) = {(s \o t)[n] : n \in 1..(Len(s) + Len(t))}
      BY <1>2 DEF ToSet
    <3> QED BY <3>1, <3>2
  <2>1. Len(s) + k \in 1..(Len(s) + Len(t)) /\ ~(Len(s) + k <= Len(s))
        /\ (Len(s) + k) - Len(s) = k
    BY <1>1
  <2>2. (s \o t)[Len(s) + k] = t[k]
    BY <1>1, <2>1
  <2> QED BY <2>1, <2>2
<1> QED BY <1>1, <1>3, <1>4, <1>5

LEMMA UpdatedSet ==
    ASSUME NEW s, s \in Seq(ToSet(s)), NEW i \in DOMAIN s, NEW e
    PROVE  LET t == [s EXCEPT ![i] = e]
           IN  /\ t \in Seq(ToSet(t))
               /\ ToSet(t) \subseteq ToSet(s) \cup {e}
               /\ (ToSet(s) \ {s[i]}) \cup {e} \subseteq ToSet(t)
<1> DEFINE t == [s EXCEPT ![i] = e]
           S == ToSet(s) \cup {e}
<1>1. t \in Seq(S)
  BY DEF ToSet
<1>2. DOMAIN t = DOMAIN s /\ \A k \in DOMAIN s : t[k] = IF k = i THEN e ELSE s[k]
  OBVIOUS
<1>3. ToSet(t) \subseteq ToSet(s) \cup {e}
  BY <1>2 DEF ToSet
<1>4. (ToSet(s) \ {s[i]}) \cup {e} \subseteq ToSet(t)
  BY <1>2 DEF ToSet
<1> QED BY <1>1, <1>3, <1>4, ListOf

(* Every set of naturals has a least element, which stands in for the      *)
(* induction the provers cannot instantiate.                               *)
LEMMA Smallest ==
    ASSUME NEW T, T \subseteq Nat, T # {}
    PROVE  \E x \in T : \A y \in T : x <= y
<1>1. PICK R : R = OpToRel(<, Nat) /\ IsWellFoundedOn(R, Nat)
  BY NatLessThanWellFounded
<1>2. PICK x \in T : \A y \in T : ~(<<y, x>> \in R)
  BY <1>1, WFMin
<1>3. R = {ss \in Nat \X Nat : ss[1] < ss[2]}
  BY <1>1 DEF OpToRel
<1>4. \A z, y \in Nat : y < z => <<y, z>> \in R
  BY <1>3
<1>5. ASSUME NEW y \in T PROVE x <= y
  <2>1. ~(y < x)
    BY <1>2, <1>4, <1>5
  <2> QED BY <1>2, <1>5, <2>1
<1> QED BY <1>2, <1>5

(* What is left of the requests of a page that is gone. *)
LEMMA OrphanedSet ==
    ASSUME NEW reqs, reqs \in Seq(ToSet(reqs))
    PROVE  /\ Orphaned(reqs) \in Seq(ToSet(Orphaned(reqs)))
           /\ \A o \in ToSet(Orphaned(reqs)) :
                 \E r \in ToSet(reqs) : r.op # "load" /\ o = [r EXCEPT !.here = FALSE]
<1>0. PICK Left :
         Left = {[r EXCEPT !.here = FALSE] : r \in {q \in ToSet(reqs) : q.op # "load"}}
  OBVIOUS
<1> DEFINE Extended(f, k) == IF k = 0 THEN << >>
                             ELSE IF reqs[k].op = "load" THEN f[k - 1]
                             ELSE Append(f[k - 1], [reqs[k] EXCEPT !.here = FALSE])
           UpTo(f, n) == f = [k \in 0..n |-> Extended(f, k)]
<1>1. Len(reqs) \in Nat /\ \A k \in 1..Len(reqs) : reqs[k] \in ToSet(reqs)
  BY DEF ToSet
<1>2. ASSUME NEW n \in Nat PROVE \E f : UpTo(f, n)
  <2> DEFINE Missing == {m \in Nat : ~\E f : UpTo(f, m)}
  <2>1. ASSUME Missing # {} PROVE FALSE
    <3>1. PICK m \in Missing : \A k \in Missing : m <= k
      <4>1. PICK T : T = Missing
        OBVIOUS
      <4>2. T \subseteq Nat /\ T # {}
        BY <2>1, <4>1
      <4>3. \E x \in T : \A y \in T : x <= y
        <5> HIDE DEF Missing
        <5> QED BY <4>2, Smallest
      <4> QED BY <4>1, <4>3
    <3>2. m # 0
      <4>1. UpTo([k \in 0..0 |-> << >>], 0)
        OBVIOUS
      <4> QED BY <4>1
    <3>3. m \in Nat /\ m - 1 \in Nat /\ ~(m <= m - 1)
      BY <3>2
    <3>4. PICK f : UpTo(f, m - 1)
      BY <3>1, <3>3
    <3>5. PICK g : g = [k \in 0..m |-> IF k = m THEN Extended(f, m) ELSE f[k]]
      OBVIOUS
    <3>6. ASSUME NEW k \in 0..m PROVE g[k] = Extended(g, k)
      <4>1. CASE k = m
        <5>1. g[m] = Extended(f, m) /\ g[m - 1] = f[m - 1]
          BY <3>2, <3>5
        <5> QED BY <4>1, <5>1
      <4>2. CASE k # m
        <5>1. k \in 0..(m - 1)
          BY <3>3, <4>2
        <5>2. g[k] = f[k]
          BY <3>5, <4>2
        <5>3. f[k] = Extended(f, k)
          <6> HIDE DEF Extended
          <6> QED BY <3>4, <5>1
        <5>4. k # 0 => g[k - 1] = f[k - 1]
          BY <3>3, <3>5, <5>1
        <5> QED BY <5>2, <5>3, <5>4
      <4> QED BY <4>1, <4>2
    <3>7. UpTo(g, m)
      <4>1. DOMAIN g = 0..m /\ g = [k \in 0..m |-> g[k]]
        BY <3>5
      <4> HIDE DEF Extended
      <4> QED BY <3>6, <4>1
    <3> QED BY <3>1, <3>7
  <2> QED BY <2>1
<1>3. PICK f : UpTo(f, Len(reqs)) /\ Orphaned(reqs) = f[Len(reqs)]
  BY <1>1, <1>2 DEF Orphaned
<1>4. ASSUME NEW n \in 0..Len(reqs) PROVE f[n] \in Seq(Left)
  <2> DEFINE Wrong == {k \in 0..Len(reqs) : f[k] \notin Seq(Left)}
  <2>1. ASSUME Wrong # {} PROVE FALSE
    <3>1. PICK k \in Wrong : \A j \in Wrong : k <= j
      <4>1. PICK T : T = Wrong
        OBVIOUS
      <4>2. T \subseteq Nat /\ T # {}
        <5>1. T \subseteq 0..Len(reqs)
          BY <4>1
        <5> QED BY <1>1, <2>1, <4>1, <5>1
      <4>3. \E x \in T : \A y \in T : x <= y
        <5> HIDE DEF Wrong
        <5> QED BY <4>2, Smallest
      <4> QED BY <4>1, <4>3
    <3>2. f[k] = Extended(f, k)
      BY <1>3, <3>1
    <3>3. k # 0
      <4>1. k = 0 => f[k] = << >>
        BY <3>2
      <4>2. << >> \in Seq(Left)
        OBVIOUS
      <4> QED BY <3>1, <4>1, <4>2
    <3>4. f[k - 1] \in Seq(Left) /\ k \in 1..Len(reqs)
      <4>1. k \in 1..Len(reqs) /\ k - 1 \in 0..Len(reqs) /\ ~(k <= k - 1)
        BY <1>1, <3>1, <3>3
      <4>2. k - 1 \notin Wrong
        BY <3>1, <4>1
      <4> QED BY <4>1, <4>2
    <3>5. CASE reqs[k].op = "load"
      BY <3>1, <3>2, <3>3, <3>4, <3>5
    <3>6. CASE reqs[k].op # "load"
      <4>1. [reqs[k] EXCEPT !.here = FALSE] \in Left
        BY <1>0, <1>1, <3>4, <3>6
      <4>2. Append(f[k - 1], [reqs[k] EXCEPT !.here = FALSE]) \in Seq(Left)
        BY <3>4, <4>1
      <4> QED BY <3>1, <3>2, <3>3, <3>6, <4>2
    <3> QED BY <3>5, <3>6
  <2> QED BY <2>1
<1>5. Orphaned(reqs) \in Seq(Left)
  <2>1. Len(reqs) \in 0..Len(reqs)
    BY <1>1
  <2> QED BY <1>3, <1>4, <2>1
<1>6. ToSet(Orphaned(reqs)) \subseteq Left
  BY <1>5 DEF ToSet
<1>7. Orphaned(reqs) \in Seq(ToSet(Orphaned(reqs)))
  BY <1>5, ListOf
<1> QED BY <1>0, <1>6, <1>7

-----------------------------------------------------------------------------
(* The inductive invariant of the dashboard. *)

RequestFields ==
    {"op", "part", "arg", "value", "state", "reply", "again", "resent", "here"}
ScreenFields ==
    {"page", "id", "sel", "filter", "loading", "busy", "editing", "timer", "hidden",
     "hitch", "held"}
SessionFields == {"token", "user", "blocked", "cookie"}

(* The forms that an employee's page hides when they fail to load. *)
Hideable == {"profile", "workingHours", "assigned"}

(* The forms that may have been saved though nobody read them. *)
Unread == failed \cap {"hours", "ai", "salon", "tenant"}

(* What a request is about, that loads end with their page, and that a      *)
(* login is not sent twice.                                                *)
WellFormed(r) ==
    /\ DOMAIN r = RequestFields /\ r.state \in {"sent", "done"}
    /\ r.op \in {"create", "edit", "set", "assign", "delete"} => r.part \in Lists
    /\ r.op = "save" => r.part \in Wholes
    /\ r.op = "load" => r.part \notin Hideable /\ r.here
    /\ r.op = "send" => r.part = "messages"
    /\ r.op = "drop" => r.part = "visits"
    /\ r.op \in {"cancel", "move", "remove"} => r.part = "visit"
    /\ r.op = "book" => r.part = "visits"
    /\ r.op \in {"changePlan", "cancelPlan", "resume"} => r.part = "subscription"
    /\ r.op = "login" => ~r.resent /\ r.value \in Sessions

(* A request that would save an initial value leaves it out, or is about a   *)
(* form whose load failed; an answer with an initial value brings a form    *)
(* that was saved unread.                                                  *)
Harmless(r) ==
    /\ r.op = "save" /\ r.value = "default" =>
           r.part \in {"settings"} \cup Unread
    /\ r.op = "load" /\ r.state = "done" =>
           \A w \in Group(r.part) \cap Wholes : r.reply[w] = "default" => w \in Unread

Underway == ToSet(inflight)

RequestsAreWell ==
    /\ inflight \in Seq(Underway)
    /\ \A r \in Underway : WellFormed(r) /\ Harmless(r)

FlagIsWell(f) ==
    /\ f.op \notin {"load", "logout", "move", "remove", "drop"}
    /\ screen.page = "login" <=> f.op = "login"
    /\ f.op = "book" => screen.page = "booking"
    /\ f.op = "set" /\ f.part = "tenants" => screen.page = "tenants"

(* No move of a visit is under way for the page. *)
Quiet(R) == \A r \in R : r.op = "drop" => ~r.here

ScreenIsWell ==
    /\ DOMAIN screen = ScreenFields
    /\ DOMAIN screen.held = PartsOf(screen.page)
    /\ screen.timer => screen.page \in {"customers", "booking"}
    /\ screen.page = "login" => screen.loading = {} /\ Quiet(Underway)
    /\ \A f \in screen.busy : FlagIsWell(f)

SessionIsWell ==
    /\ DOMAIN session = SessionFields
    /\ session.user \in Roles \cup {Nil}
    /\ screen.page \notin {"login", "home", "stripe"} => session.user # Nil

ServerIsWell ==
    /\ DOMAIN server = {"rows", "whole", "sent", "visits", "sub"}
    /\ DOMAIN server.whole = Wholes
    /\ \A w \in Wholes : server.whole[w] = "default" => w \in Unread

(* Where a form on the screen has its initial value. *)
FormsAreWell ==
    \A w \in PartsOf(screen.page) \cap Wholes :
        screen.held[w] = "default" =>
            w \in screen.loading \/ screen.hidden \/ w \in failed \ Hideable

Waiting(f, R) == \E r \in R : r.here /\ r.op = f.op /\ r.part = f.part
Arriving(q, R) == \E r \in R : r.here /\ r.op = "load" /\ q \in Group(r.part)

Excused ==
    \/ screen.page = "tenants" /\ "suspend" \in failed
    \/ /\ screen.page = "login"
       /\ \E role \in Roles : ~RoleGuard([session EXCEPT !.user = role], screen.id)

ControlsAreWell ==
    /\ \A f \in screen.busy : Waiting(f, Underway) \/ Excused
    /\ \A q \in screen.loading : Arriving(q, Underway)

DashboardInv ==
    /\ RequestsAreWell /\ ScreenIsWell /\ SessionIsWell /\ ServerIsWell
    /\ FormsAreWell /\ ControlsAreWell

-----------------------------------------------------------------------------
(* A step on the same page. *)
LEMMA SamePage ==
    ASSUME DashboardInv,
           failed \subseteq failed',
           DOMAIN session' = SessionFields,
           \/ session'.user = session.user \/ session'.user \in Roles
           \/ session'.user = Nil /\ screen.page = "login",
           DOMAIN screen' = ScreenFields, DOMAIN screen'.held = DOMAIN screen.held,
           screen'.page = screen.page, screen'.id = screen.id,
           screen'.timer => screen.timer \/ screen.page \in {"customers", "booking"},
           screen.page = "login" =>
               screen'.loading \subseteq screen.loading /\ Quiet(ToSet(inflight')),
           \A f \in screen'.busy : f \in screen.busy \/ FlagIsWell(f),
           ServerIsWell', FormsAreWell',
           inflight' \in Seq(ToSet(inflight')),
           \A r \in ToSet(inflight') : WellFormed(r) /\ Harmless(r)',
           \A f \in screen'.busy : Waiting(f, ToSet(inflight')) \/ Excused \/ Excused',
           \A q \in screen'.loading : Arriving(q, ToSet(inflight'))
    PROVE  DashboardInv'
<1>1. RequestsAreWell'
  BY DEF RequestsAreWell, Underway, WellFormed
<1>2. ScreenIsWell'
  <2>1. \A f \in screen'.busy : FlagIsWell(f)'
    BY DEF DashboardInv, ScreenIsWell, FlagIsWell
  <2> QED BY <2>1 DEF DashboardInv, ScreenIsWell, Quiet, Underway
<1>3. SessionIsWell'
  BY DashboardAssumption DEF DashboardInv, SessionIsWell, DashboardAssumption
<1>4. Excused => Excused'
  <2>1. \A role : RoleGuard([session EXCEPT !.user = role], screen.id)
                      <=> RoleGuard([session' EXCEPT !.user = role], screen.id)
    BY DEF DashboardInv, SessionIsWell, SessionFields, RoleGuard, HasRole
  <2> QED BY <2>1 DEF Excused
<1>5. ControlsAreWell'
  BY <1>4 DEF ControlsAreWell, Underway, Waiting, Arriving
<1> QED BY <1>1, <1>2, <1>3, <1>5 DEF DashboardInv

(* What is under way stays harmless. *)
LEMMA StillWell ==
    ASSUME DashboardInv, failed \subseteq failed', NEW r \in Underway
    PROVE  WellFormed(r) /\ Harmless(r)'
BY DEF DashboardInv, RequestsAreWell, Harmless, Unread

LEMMA ServerStays ==
    ASSUME DashboardInv, failed \subseteq failed', UNCHANGED server
    PROVE  ServerIsWell'
BY DEF DashboardInv, ServerIsWell, Unread

(* The request of a control of the page. *)
LEMMA PressStep ==
    ASSUME DashboardInv, NEW op, NEW part, NEW arg, NEW value, NEW flagged \in BOOLEAN,
           Press(op, part, arg, value, flagged),
           op # "load", op = "drop" => screen.page # "login",
           WellFormed(Request(op, part, arg, value)),
           op = "save" /\ value = "default" => part \in {"settings"} \cup Unread,
           flagged => FlagIsWell(Flag(op, part, arg))
    PROVE  DashboardInv'
<1> DEFINE q == Request(op, part, arg, value)
<1>1. /\ inflight' = Append(inflight, q)
      /\ UNCHANGED <<session, server, failed>>
      /\ \/ screen' = [screen EXCEPT !.busy = @ \cup {Flag(op, part, arg)}] /\ flagged
         \/ screen' = screen
  BY DEF Press, Aside
<1>2. /\ inflight' \in Seq(ToSet(inflight')) /\ ToSet(inflight') = Underway \cup {q}
  BY <1>1, AppendedSet DEF DashboardInv, RequestsAreWell, Underway
<1>3. Harmless(q)'
  BY <1>1 DEF Request, Harmless, Unread
<1>4. /\ DOMAIN screen' = ScreenFields
      /\ \A x \in ScreenFields \ {"busy"} : screen'[x] = screen[x]
      /\ screen'.busy \subseteq screen.busy \cup {Flag(op, part, arg)}
  BY <1>1 DEF DashboardInv, ScreenIsWell, ScreenFields
<1>5. \A f \in screen'.busy : f \in screen.busy \/ FlagIsWell(f)
  BY <1>1, <1>4
<1>6. Waiting(Flag(op, part, arg), {q})
  BY DEF Waiting, Request, Flag
<1>7. \A f \in screen'.busy : Waiting(f, ToSet(inflight')) \/ Excused
  BY <1>2, <1>4, <1>6 DEF DashboardInv, ControlsAreWell, Waiting
<1>8. \A x \in screen'.loading : Arriving(x, ToSet(inflight'))
  BY <1>2, <1>4 DEF DashboardInv, ControlsAreWell, Arriving, ScreenFields
<1>9. FormsAreWell'
  BY <1>1, <1>4 DEF DashboardInv, FormsAreWell, ScreenFields
<1>10. \A r \in ToSet(inflight') : WellFormed(r) /\ Harmless(r)'
  BY <1>1, <1>2, <1>3, StillWell
<1>11. ServerIsWell'
  BY <1>1, ServerStays
<1>12. DOMAIN session' = SessionFields /\ session'.user = session.user
  BY <1>1 DEF DashboardInv, SessionIsWell
<1>13. screen.page = "login" => Quiet(ToSet(inflight'))
  BY <1>2 DEF DashboardInv, ScreenIsWell, Quiet, Request
<1> QED
  BY <1>1, <1>2, <1>4, <1>5, <1>7, <1>8, <1>9, <1>10, <1>11, <1>12, <1>13, SamePage
  DEF ScreenFields

-----------------------------------------------------------------------------
(* The controls of rows and forms. *)

(* A step of the page that sends nothing. *)
LEMMA ChangeStep ==
    ASSUME DashboardInv, NEW new,
           screen' = new, UNCHANGED <<inflight, session, server, failed>>,
           DOMAIN new = ScreenFields, DOMAIN new.held = DOMAIN screen.held,
           \A x \in {"page", "id", "loading", "busy", "hidden"} : new[x] = screen[x],
           new.timer => screen.timer \/ screen.page \in {"customers", "booking"},
           \A w \in PartsOf(screen.page) \cap Wholes : new.held[w] = screen.held[w]
    PROVE  DashboardInv'
<1>1. screen' = new /\ UNCHANGED <<inflight, session, server, failed>>
  OBVIOUS
<1>2. /\ new.page = screen.page /\ new.id = screen.id /\ new.loading = screen.loading
      /\ new.busy = screen.busy /\ new.hidden = screen.hidden
  OBVIOUS
<1>3. FormsAreWell'
  BY <1>1, <1>2 DEF DashboardInv, FormsAreWell
<1>4. \A r \in ToSet(inflight') : WellFormed(r) /\ Harmless(r)'
  BY <1>1, StillWell DEF Underway
<1>5. inflight' \in Seq(ToSet(inflight')) /\ ToSet(inflight') = Underway
  BY <1>1 DEF DashboardInv, RequestsAreWell, Underway
<1>6. DOMAIN session' = SessionFields /\ session'.user = session.user
  BY <1>1 DEF DashboardInv, SessionIsWell
<1>7. /\ \A f \in screen'.busy : Waiting(f, ToSet(inflight')) \/ Excused
      /\ \A x \in screen'.loading : Arriving(x, ToSet(inflight'))
  BY <1>1, <1>2, <1>5 DEF DashboardInv, ControlsAreWell
<1>8. ServerIsWell'
  BY <1>1, ServerStays
<1>9. screen.page = "login" => Quiet(ToSet(inflight'))
  BY <1>5 DEF DashboardInv, ScreenIsWell
<1> QED
  BY <1>1, <1>2, <1>3, <1>4, <1>5, <1>6, <1>7, <1>8, <1>9, SamePage

LEMMA CreateRowStep ==
    ASSUME DashboardInv, NEW part \in Lists, CreateRow(part), screen.page # "login"
    PROVE  DashboardInv'
<1>1. PICK t \in Things : Press("create", part, t, Nil, TRUE)
  BY DEF CreateRow
<1>2. WellFormed(Request("create", part, t, Nil)) /\ FlagIsWell(Flag("create", part, t))
  BY DEF WellFormed, Request, RequestFields, FlagIsWell, Flag
<1> QED BY <1>1, <1>2, PressStep

LEMMA EditRowStep ==
    ASSUME DashboardInv, NEW part \in Lists, EditRow(part), screen.page # "login"
    PROVE  DashboardInv'
<1>1. CASE \E t \in Row(part) \cup {Nil} : Change([screen EXCEPT !.editing = t])
  <2>1. PICK t \in Row(part) \cup {Nil} : Change([screen EXCEPT !.editing = t])
    BY <1>1
  <2> QED BY <2>1, ChangeStep DEF Change, Aside, DashboardInv, ScreenIsWell, ScreenFields
<1>2. CASE Press("edit", part, screen.editing, Nil, TRUE)
  <2>1. WellFormed(Request("edit", part, screen.editing, Nil))
        /\ FlagIsWell(Flag("edit", part, screen.editing))
    BY DEF WellFormed, Request, RequestFields, FlagIsWell, Flag
  <2> QED BY <1>2, <2>1, PressStep
<1> QED BY <1>1, <1>2 DEF EditRow

LEMMA SetRowStep ==
    ASSUME DashboardInv, NEW op \in {"set", "assign", "delete"}, NEW part \in Lists,
           NEW arg, NEW value, Press(op, part, arg, value, FALSE)
    PROVE  DashboardInv'
<1>1. WellFormed(Request(op, part, arg, value))
  BY DEF WellFormed, Request, RequestFields
<1> QED BY <1>1, PressStep

LEMMA ToggleRowStep ==
    ASSUME DashboardInv, NEW part \in Lists, ToggleRow(part) \/ DeleteRow(part)
    PROVE  DashboardInv'
BY SetRowStep DEF ToggleRow, DeleteRow

(* The forms of the pages. *)
LEMMA PartsOfForms ==
    /\ "salon" \in PartsOf("salon") /\ "hours" \in PartsOf("hours")
    /\ {"profile", "workingHours", "assigned"} \subseteq PartsOf("employee")
    /\ {"tenant", "settings", "ai"} \subseteq PartsOf("settings")
<1>1. "salon" \in PartsOf("salon") /\ "hours" \in PartsOf("hours")
  BY DEF PartsOf, Asked, Group
<1>2. Asked("employee") = <<"employeePage">>
  BY DEF Asked
<1>3. {"profile", "workingHours", "assigned"} \subseteq PartsOf("employee")
  BY <1>2 DEF PartsOf, Group
<1>4. Asked("settings") = <<"tenant", "settingsAndAi", "invitations", "whatsapp">>
  BY DEF Asked
<1>5. Asked("settings")[1] = "tenant" /\ Asked("settings")[2] = "settingsAndAi"
      /\ 1 \in DOMAIN Asked("settings") /\ 2 \in DOMAIN Asked("settings")
  BY <1>4
<1>6. Group("tenant") = {"tenant"} /\ Group("settingsAndAi") = {"settings", "ai"}
  BY DEF Group
<1>7. {"tenant", "settings", "ai"} \subseteq PartsOf("settings")
  BY <1>5, <1>6 DEF PartsOf
<1> QED BY <1>1, <1>3, <1>7

LEMMA SaveWholeStep ==
    ASSUME DashboardInv, NEW part \in PartsOf(screen.page) \cap Wholes, SaveWhole(part),
           screen.page # "login"
    PROVE  DashboardInv'
<1>1. PICK value : value = screen.held[part]
  OBVIOUS
<1>2. Press("save", part, Nil, value, TRUE) /\ Ready(part)
  BY <1>1 DEF SaveWhole
<1>3. WellFormed(Request("save", part, Nil, value)) /\ FlagIsWell(Flag("save", part, Nil))
  BY DEF WellFormed, Request, RequestFields, FlagIsWell, Flag
<1>4. value = "default" => part \in {"settings"} \cup Unread
  BY <1>1, <1>2 DEF DashboardInv, FormsAreWell, Ready, Wholes, Hideable, Unread
<1> QED BY <1>2, <1>3, <1>4, PressStep

(* The page asks for a part again. *)
LEMMA LoadStep ==
    ASSUME DashboardInv, NEW new, NEW part, NEW arg,
           screen' = new, inflight' = Append(inflight, Request("load", part, arg, Nil)),
           UNCHANGED <<session, server, failed>>,
           DOMAIN new = ScreenFields, new.held = screen.held,
           \A x \in {"page", "id", "busy", "hidden"} : new[x] = screen[x],
           new.timer => screen.timer,
           part \notin Hideable, screen.page # "login",
           new.loading \subseteq screen.loading \cup Group(part),
           \A w \in PartsOf(screen.page) \cap Wholes :
               w \in screen.loading => w \in new.loading
    PROVE  DashboardInv'
<1> DEFINE q == Request("load", part, arg, Nil)
<1>1. /\ new.page = screen.page /\ new.id = screen.id
      /\ new.busy = screen.busy /\ new.hidden = screen.hidden
  OBVIOUS
<1>2. inflight' \in Seq(ToSet(inflight')) /\ ToSet(inflight') = Underway \cup {q}
  BY AppendedSet DEF DashboardInv, RequestsAreWell, Underway
<1>3. WellFormed(q) /\ Harmless(q)'
  BY DEF Request, WellFormed, Harmless, RequestFields
<1>4. FormsAreWell'
  BY <1>1 DEF DashboardInv, FormsAreWell
<1>5. \A r \in ToSet(inflight') : WellFormed(r) /\ Harmless(r)'
  BY <1>2, <1>3, StillWell
<1>6. DOMAIN session' = SessionFields /\ session'.user = session.user
  BY DEF DashboardInv, SessionIsWell
<1>7. \A f \in screen'.busy : Waiting(f, ToSet(inflight')) \/ Excused
  BY <1>1, <1>2 DEF DashboardInv, ControlsAreWell, Waiting
<1>8. ASSUME NEW x \in screen'.loading PROVE Arriving(x, ToSet(inflight'))
  <2>1. CASE x \in Group(part)
    BY <1>2, <2>1 DEF Arriving, Request
  <2>2. CASE x \in screen.loading
    BY <1>2, <2>2 DEF DashboardInv, ControlsAreWell, Arriving
  <2> QED BY <2>1, <2>2
<1>9. ServerIsWell'
  BY ServerStays
<1> QED
  BY <1>1, <1>2, <1>4, <1>5, <1>6, <1>7, <1>8, <1>9, SamePage

(* One row or part of a page of the user's. *)
LEMMA RowPagesStep ==
    ASSUME DashboardInv,
           \/ ServicesListPage \/ ServiceCategoriesPage \/ HolidaysPage
           \/ EmployeesListPage \/ AdminPlansPage \/ EmployeeTimeOff \/ Invitations
    PROVE  DashboardInv'
<1>1. {"services", "categories", "holidays", "employees", "plans", "timeOff", "invitations"}
          \subseteq Lists
  BY DEF Lists
<1>2. PICK part \in Lists :
          /\ screen.page # "login"
          /\ CreateRow(part) \/ EditRow(part) \/ ToggleRow(part) \/ DeleteRow(part)
  <2>1. CASE ServicesListPage
    BY <1>1, <2>1 DEF ServicesListPage
  <2>2. CASE ServiceCategoriesPage
    BY <1>1, <2>2 DEF ServiceCategoriesPage
  <2>3. CASE HolidaysPage
    BY <1>1, <2>3 DEF HolidaysPage
  <2>4. CASE EmployeesListPage
    BY <1>1, <2>4 DEF EmployeesListPage
  <2>5. CASE AdminPlansPage
    BY <1>1, <2>5 DEF AdminPlansPage
  <2>6. CASE EmployeeTimeOff
    BY <1>1, <2>6 DEF EmployeeTimeOff
  <2>7. CASE Invitations
    BY <1>1, <2>7 DEF Invitations
  <2> QED BY <2>1, <2>2, <2>3, <2>4, <2>5, <2>6, <2>7
<1> QED BY <1>2, CreateRowStep, EditRowStep, ToggleRowStep

LEMMA FormPagesStep ==
    ASSUME DashboardInv,
           SalonProfilePage \/ BusinessHoursPage \/ EmployeeForms \/ SettingsForms
    PROVE  DashboardInv'
<1>1. PICK part \in PartsOf(screen.page) \cap Wholes :
          SaveWhole(part) /\ screen.page # "login"
  BY PartsOfForms
  DEF SalonProfilePage, BusinessHoursPage, EmployeeForms, SettingsForms, Wholes
<1> QED BY <1>1, SaveWholeStep

LEMMA SearchStep ==
    ASSUME DashboardInv, NEW term, Search(term), screen.page \in {"customers", "booking"}
    PROVE  DashboardInv'
<1>1. PICK new : new = [screen EXCEPT !.filter = term, !.timer = TRUE]
  OBVIOUS
<1>2. screen' = new /\ UNCHANGED <<inflight, session, server, failed>>
  BY <1>1 DEF Search, Aside
<1>3. /\ DOMAIN new = ScreenFields /\ new.held = screen.held /\ new.page = screen.page
      /\ new.id = screen.id /\ new.loading = screen.loading /\ new.busy = screen.busy
      /\ new.hidden = screen.hidden
  BY <1>1 DEF DashboardInv, ScreenIsWell, ScreenFields
<1> QED BY <1>2, <1>3, ChangeStep

LEMMA CustomersStep ==
    ASSUME DashboardInv, CustomersListPage
    PROVE  DashboardInv'
<1>1. screen.page = "customers" /\ "customers" \in Lists
  BY DEF CustomersListPage, Lists
<1>2. CASE \E term \in Things \cup {Nil} : Search(term)
  BY <1>1, <1>2, SearchStep
<1>3. CASE CreateRow("customers") \/ DeleteRow("customers") \/ EditRow("customers")
  BY <1>1, <1>3, CreateRowStep, EditRowStep, ToggleRowStep
<1> QED BY <1>2, <1>3 DEF CustomersListPage

LEMMA SearchFiresStep ==
    ASSUME DashboardInv, SearchFires
    PROVE  DashboardInv'
<1>1. PICK part : part = IF screen.page = "booking" THEN "candidates" ELSE "customers"
  OBVIOUS
<1>2. PICK new : new = [screen EXCEPT !.timer = FALSE, !.loading = @ \cup
                           (IF part = "customers" THEN {part} ELSE {})]
  OBVIOUS
<1>3. PICK arg : arg = Criterion(screen, part)
  OBVIOUS
<1>4. /\ screen' = new
      /\ inflight' = Append(inflight, Request("load", part, arg, Nil))
      /\ UNCHANGED <<session, server, failed>>
      /\ screen.timer
  BY <1>1, <1>2, <1>3 DEF SearchFires, Load, Aside
<1>5. screen.page # "login"
  BY <1>4 DEF DashboardInv, ScreenIsWell
<1>6. Group(part) = {part} /\ part \notin Hideable
  BY <1>1 DEF Group, Hideable
<1>7. /\ DOMAIN new = ScreenFields /\ new.held = screen.held /\ new.page = screen.page
      /\ new.id = screen.id /\ new.busy = screen.busy /\ new.hidden = screen.hidden
      /\ screen.loading \subseteq new.loading /\ new.loading \subseteq screen.loading \cup {part}
      /\ ~new.timer
  BY <1>2 DEF DashboardInv, ScreenIsWell, ScreenFields
<1> QED BY <1>4, <1>5, <1>6, <1>7, LoadStep

-----------------------------------------------------------------------------
(* Billing, conversations, appointments. *)

(* A request about no list and no form. *)
LEMMA PlainPressStep ==
    ASSUME DashboardInv,
           NEW op \in {"test", "changePlan", "checkout", "portal", "cancelPlan", "resume",
                       "send", "drop", "cancel", "move", "remove", "book", "logout"},
           NEW part, NEW arg, NEW value, NEW flagged \in BOOLEAN,
           Press(op, part, arg, value, flagged),
           op \in {"changePlan", "cancelPlan", "resume"} => part = "subscription",
           op = "send" => part = "messages",
           op \in {"drop", "book"} => part = "visits",
           op \in {"cancel", "move", "remove"} => part = "visit",
           op \in {"drop", "move", "remove", "logout"} => ~flagged,
           op = "book" => screen.page = "booking",
           screen.page # "login"
    PROVE  DashboardInv'
<1>1. WellFormed(Request(op, part, arg, value))
  BY DEF WellFormed, Request, RequestFields
<1>2. flagged => FlagIsWell(Flag(op, part, arg))
  BY DEF FlagIsWell, Flag
<1> QED BY <1>1, <1>2, PressStep

LEMMA BillingStep ==
    ASSUME DashboardInv,
           \/ SendTestMessage \/ SelectPlan \/ OpenCustomerPortal \/ CancelSubscription
           \/ ReactivateSubscription
    PROVE  DashboardInv'
<1>1. CASE SendTestMessage
  BY <1>1, PlainPressStep DEF SendTestMessage
<1>2. CASE SelectPlan
  <2>1. PICK t \in Things, op \in {"changePlan", "checkout"} :
            Press(op, "subscription", t, Nil, TRUE) /\ screen.page # "login"
    BY <1>2 DEF SelectPlan, BillingControls
  <2> QED BY <2>1, PlainPressStep
<1>3. CASE OpenCustomerPortal
  BY <1>3, PlainPressStep DEF OpenCustomerPortal, BillingControls
<1>4. CASE CancelSubscription
  BY <1>4, PlainPressStep DEF CancelSubscription, BillingControls
<1>5. CASE ReactivateSubscription
  BY <1>5, PlainPressStep DEF ReactivateSubscription, BillingControls
<1> QED BY <1>1, <1>2, <1>3, <1>4, <1>5

LEMMA WhatsAppConnectionStep ==
    ASSUME DashboardInv, WhatsAppConnection
    PROVE  DashboardInv'
<1>1. "whatsapp" \in Lists /\ screen.page # "login"
  BY DEF WhatsAppConnection, Lists
<1>2. CASE CreateRow("whatsapp")
  BY <1>1, <1>2, CreateRowStep
<1>3. CASE \E t \in Row("whatsapp") : Press("set", "whatsapp", t, "off", FALSE)
  BY <1>1, <1>3, SetRowStep
<1> QED BY <1>2, <1>3 DEF WhatsAppConnection

LEMMA ThreadStep ==
    ASSUME DashboardInv, SendMessage \/ UpdateStatus \/ Assign
    PROVE  DashboardInv'
<1>1. "threads" \in Lists /\ screen.page # "login"
  BY DEF SendMessage, UpdateStatus, Assign, InAThread, Lists
<1>2. PICK t : t = screen.sel
  OBVIOUS
<1>3. CASE SendMessage
  BY <1>1, <1>2, <1>3, PlainPressStep DEF SendMessage
<1>4. CASE UpdateStatus
  <2>1. PICK value : Press("set", "threads", t, value, FALSE)
    BY <1>2, <1>4 DEF UpdateStatus
  <2> QED BY <1>1, <2>1, SetRowStep
<1>5. CASE Assign
  <2>1. PICK value : Press("assign", "threads", t, value, FALSE)
    BY <1>2, <1>5 DEF Assign
  <2> QED BY <1>1, <2>1, SetRowStep
<1> QED BY <1>3, <1>4, <1>5

LEMMA AppointmentStep ==
    ASSUME DashboardInv, AppointmentDetailPage
    PROVE  DashboardInv'
<1>1. screen.page # "login"
  BY DEF AppointmentDetailPage
<1>2. PICK id : id = screen.id
  OBVIOUS
<1>3. CASE Press("cancel", "visit", screen.id, Nil, FALSE)
  BY <1>1, <1>2, <1>3, PlainPressStep
<1>4. CASE Change([screen EXCEPT !.editing = screen.id])
  BY <1>4, ChangeStep DEF Change, Aside, DashboardInv, ScreenIsWell, ScreenFields
<1>5. CASE \E d \in Days : Press("move", "visit", screen.id, d, FALSE)
  <2>1. PICK d \in Days : Press("move", "visit", id, d, FALSE)
    BY <1>2, <1>5
  <2> QED BY <1>1, <2>1, PlainPressStep
<1>6. CASE Press("remove", "visit", screen.id, Nil, FALSE)
  BY <1>1, <1>2, <1>6, PlainPressStep
<1> QED BY <1>3, <1>4, <1>5, <1>6 DEF AppointmentDetailPage

(* The results of a search hold no form. *)
LEMMA BookingPageStep ==
    ASSUME DashboardInv, FindCustomer \/ SelectCustomer \/ SubmitBooking
    PROVE  DashboardInv'
<1>1. screen.page = "booking"
  BY DEF FindCustomer, SelectCustomer, SubmitBooking
<1>2. ASSUME NEW new, Change(new), DOMAIN new = ScreenFields,
             \A x \in {"page", "id", "loading", "busy", "hidden"} : new[x] = screen[x],
             new.timer => screen.timer,
             new.held = screen.held \/ new.held = [screen.held EXCEPT !["candidates"] = NoRows]
      PROVE  DashboardInv'
  <2>1. DOMAIN screen.held = PartsOf(screen.page) /\ "candidates" \notin Wholes
    BY DEF DashboardInv, ScreenIsWell, Wholes
  <2>2. /\ DOMAIN new.held = DOMAIN screen.held
        /\ \A w \in PartsOf(screen.page) \cap Wholes : new.held[w] = screen.held[w]
    BY <1>2, <2>1
  <2> QED BY <1>2, <2>2, ChangeStep DEF Change, Aside
<1>3. DOMAIN screen = ScreenFields
  BY DEF DashboardInv, ScreenIsWell
<1>4. CASE \E term \in Things : Search(term)
  BY <1>1, <1>4, SearchStep
<1>5. ASSUME NEW new, Change(new),
             \/ new = [screen EXCEPT !.filter = Nil, !.timer = FALSE,
                          !.held["candidates"] = NoRows, !.hitch = @ \/ inflight # << >>]
             \/ new = [screen EXCEPT !.sel = Nil]
             \/ \E t : new = [screen EXCEPT !.sel = t, !.held["candidates"] = NoRows]
      PROVE  DashboardInv'
  <2>1. /\ DOMAIN new = ScreenFields /\ new.page = screen.page /\ new.id = screen.id
        /\ new.loading = screen.loading /\ new.busy = screen.busy
        /\ new.hidden = screen.hidden /\ (new.timer => screen.timer)
    BY <1>3, <1>5 DEF ScreenFields
  <2>2. new.held = screen.held \/ new.held = [screen.held EXCEPT !["candidates"] = NoRows]
    BY <1>3, <1>5 DEF ScreenFields
  <2> QED BY <1>2, <1>5, <2>1, <2>2
<1>6. CASE FindCustomer
  BY <1>4, <1>5, <1>6 DEF FindCustomer
<1>7. CASE SelectCustomer
  BY <1>5, <1>7 DEF SelectCustomer
<1>8. CASE SubmitBooking
  <2>1. PICK d, t : Press("book", "visits", t, d, TRUE)
    BY <1>8 DEF SubmitBooking
  <2> QED BY <1>1, <2>1, PlainPressStep
<1> QED BY <1>6, <1>7, <1>8

LEMMA OnDropStep ==
    ASSUME DashboardInv, OnDrop \/ Logout
    PROVE  DashboardInv'
<1>1. CASE OnDrop
  <2>1. PICK t, d : Press("drop", "visits", t, d, FALSE) /\ screen.page # "login"
    BY <1>1 DEF OnDrop
  <2> QED BY <2>1, PlainPressStep
<1>2. CASE Logout
  BY <1>2, PlainPressStep DEF Logout
<1> QED BY <1>1, <1>2

LEMMA LoginStep ==
    ASSUME DashboardInv, LoginPage
    PROVE  DashboardInv'
<1>1. PICK s \in Sessions : Press("login", "login", Nil, s, TRUE)
  BY DEF LoginPage
<1>2. WellFormed(Request("login", "login", Nil, s))
  BY DEF WellFormed, Request, RequestFields
<1>3. FlagIsWell(Flag("login", "login", Nil))
  BY DEF LoginPage, FlagIsWell, Flag
<1> QED BY <1>1, <1>2, <1>3, PressStep

LEMMA AdminTenantsStep ==
    ASSUME DashboardInv, AdminTenantsPage
    PROVE  DashboardInv'
<1>1. PICK t, value :
          /\ screen' = [screen EXCEPT !.busy = {Flag("set", "tenants", t)}]
          /\ inflight' = Append(inflight, Request("set", "tenants", t, value))
          /\ UNCHANGED <<session, server, failed>>
          /\ screen.page = "tenants"
  BY DEF AdminTenantsPage, Aside
<1> DEFINE q == Request("set", "tenants", t, value)
           f == Flag("set", "tenants", t)
<1>2. inflight' \in Seq(ToSet(inflight')) /\ ToSet(inflight') = Underway \cup {q}
  BY <1>1, AppendedSet DEF DashboardInv, RequestsAreWell, Underway
<1>3. WellFormed(q) /\ Harmless(q)' /\ FlagIsWell(f) /\ Waiting(f, {q})
  BY <1>1
  DEF Request, WellFormed, Harmless, RequestFields, Lists, FlagIsWell, Flag, Waiting
<1>4. /\ DOMAIN screen' = ScreenFields /\ screen'.held = screen.held
      /\ screen'.page = screen.page /\ screen'.id = screen.id
      /\ screen'.loading = screen.loading /\ screen'.hidden = screen.hidden
      /\ screen'.busy = {f} /\ screen'.timer = screen.timer
  BY <1>1 DEF DashboardInv, ScreenIsWell, ScreenFields
<1>5. FormsAreWell'
  BY <1>1, <1>4 DEF DashboardInv, FormsAreWell
<1>6. \A r \in ToSet(inflight') : WellFormed(r) /\ Harmless(r)'
  BY <1>1, <1>2, <1>3, StillWell
<1>7. DOMAIN session' = SessionFields /\ session'.user = session.user
  BY <1>1 DEF DashboardInv, SessionIsWell
<1>8. \A g \in screen'.busy : Waiting(g, ToSet(inflight'))
  BY <1>2, <1>3, <1>4 DEF Waiting
<1>9. \A x \in screen'.loading : Arriving(x, ToSet(inflight'))
  BY <1>2, <1>4 DEF DashboardInv, ControlsAreWell, Arriving
<1>10. ServerIsWell'
  BY <1>1, ServerStays
<1> QED
  BY <1>1, <1>2, <1>3, <1>4, <1>5, <1>6, <1>7, <1>8, <1>9, <1>10, SamePage

(* The days, the filter and the conversation that are shown. *)
LEMMA ViewStep ==
    ASSUME DashboardInv,
           ShowDays \/ SetStatusFilter \/ (Select /\ screen.page # "inbox")
    PROVE  DashboardInv'
<1>1. PICK part, new, arg :
          /\ \/ part = "visits" /\ screen.page = "calendar"
                /\ \E range : new = [screen EXCEPT !.filter = range, !.loading = {"visits"}]
             \/ part = "threads" /\ screen.page # "login"
                /\ \E s : new = [screen EXCEPT !.filter = s, !.loading = @ \cup {"threads"}]
             \/ part = "messages" /\ screen.page # "login"
                /\ \E t : new = [screen EXCEPT !.sel = t, !.loading = @ \cup {"messages"}]
          /\ screen' = new
          /\ inflight' = Append(inflight, Request("load", part, arg, Nil))
          /\ UNCHANGED <<session, server, failed>>
  <2>1. CASE ShowDays
    <3>1. PICK range : LET s == [screen EXCEPT !.filter = range, !.loading = {"visits"}]
                       IN  screen' = s /\ inflight' = Append(inflight, Load(s, "visits"))
      BY <2>1 DEF ShowDays
    <3>2. PICK new : new = [screen EXCEPT !.filter = range, !.loading = {"visits"}]
      OBVIOUS
    <3>3. PICK arg : arg = Criterion(new, "visits")
      OBVIOUS
    <3> QED BY <2>1, <3>1, <3>2, <3>3 DEF ShowDays, Aside, Load
  <2>2. CASE SetStatusFilter
    <3>1. PICK v : LET s == [screen EXCEPT !.filter = v, !.loading = @ \cup {"threads"}]
                   IN  screen' = s /\ inflight' = Append(inflight, Load(s, "threads"))
      BY <2>2 DEF SetStatusFilter
    <3>2. PICK new : new = [screen EXCEPT !.filter = v, !.loading = @ \cup {"threads"}]
      OBVIOUS
    <3>3. PICK arg : arg = Criterion(new, "threads")
      OBVIOUS
    <3> QED BY <2>2, <3>1, <3>2, <3>3 DEF SetStatusFilter, Aside, Load
  <2>3. CASE Select /\ screen.page # "inbox"
    <3>1. PICK t : LET s == [screen EXCEPT !.sel = t, !.loading = @ \cup {"messages"}]
                   IN  screen' = s /\ inflight' = Append(inflight, Load(s, "messages"))
      BY <2>3 DEF Select
    <3>2. PICK new : new = [screen EXCEPT !.sel = t, !.loading = @ \cup {"messages"}]
      OBVIOUS
    <3>3. PICK arg : arg = Criterion(new, "messages")
      OBVIOUS
    <3> QED BY <2>3, <3>1, <3>2, <3>3 DEF Select, Aside, Load
  <2> QED BY <2>1, <2>2, <2>3
<1>2. DOMAIN screen = ScreenFields
  BY DEF DashboardInv, ScreenIsWell
<1>3. /\ DOMAIN new = ScreenFields /\ new.held = screen.held /\ new.page = screen.page
      /\ new.id = screen.id /\ new.busy = screen.busy /\ new.hidden = screen.hidden
      /\ new.timer = screen.timer /\ new.loading \subseteq screen.loading \cup {part}
      /\ screen.page # "login" /\ part \in {"visits", "threads", "messages"}
      /\ screen.page = "calendar" \/ screen.loading \subseteq new.loading
  <2>1. CASE /\ part = "visits" /\ screen.page = "calendar"
             /\ \E range : new = [screen EXCEPT !.filter = range, !.loading = {"visits"}]
    BY <1>2, <2>1 DEF ScreenFields
  <2>2. CASE /\ part = "threads" /\ screen.page # "login"
             /\ \E s : new = [screen EXCEPT !.filter = s, !.loading = @ \cup {"threads"}]
    BY <1>2, <2>2 DEF ScreenFields
  <2>3. CASE /\ part = "messages" /\ screen.page # "login"
             /\ \E t : new = [screen EXCEPT !.sel = t, !.loading = @ \cup {"messages"}]
    BY <1>2, <2>3 DEF ScreenFields
  <2> QED BY <1>1, <2>1, <2>2, <2>3
<1>4. Group(part) = {part} /\ part \notin Hideable
  BY <1>3 DEF Group, Hideable
<1>5. PartsOf("calendar") \cap Wholes = {}
  <2>1. PartsOf("calendar") = {"visits"}
    BY DEF PartsOf, Asked, Group
  <2> QED BY <2>1 DEF Wholes
<1> QED BY <1>1, <1>3, <1>4, <1>5, LoadStep

-----------------------------------------------------------------------------
(* New pages. *)

(* What the constructor of a page asks for. *)
LEMMA AskedParts ==
    ASSUME NEW p \in Pages \cup {"login", "stripe"}
    PROVE  /\ DOMAIN Asked(p) = 1..Len(Asked(p)) /\ Len(Asked(p)) \in Nat
           /\ \A i \in DOMAIN Asked(p) : Asked(p)[i] \notin Hideable
           /\ p \in {"login", "stripe"} => Asked(p) = << >>
<1>1. CASE p = "employee"
  BY <1>1 DEF Asked, Hideable
<1>2. CASE p = "settings"
  <2>1. Asked(p) = <<"tenant", "settingsAndAi", "invitations", "whatsapp">>
    BY <1>2 DEF Asked
  <2>2. \A x \in {"tenant", "settingsAndAi", "invitations", "whatsapp"} : x \notin Hideable
    BY DEF Hideable
  <2> QED BY <1>2, <2>1, <2>2
<1>3. CASE p = "billing"
  <2>1. Asked(p) = <<"subscription", "billingPlans">>
    BY <1>3 DEF Asked
  <2> QED BY <1>3, <2>1 DEF Hideable
<1>4. CASE p = "inbox" \/ p = "thread"
  <2>1. Asked(p) = <<"threads">> \/ Asked(p) = <<"threads", "messages">>
    BY <1>4 DEF Asked
  <2> QED BY <1>4, <2>1 DEF Hideable
<1>5. CASE p = "calendar" \/ p = "appointment"
  <2>1. Asked(p) = <<"visits">> \/ Asked(p) = <<"visit">>
    BY <1>5 DEF Asked
  <2> QED BY <1>5, <2>1 DEF Hideable
<1>6. CASE p \in {"booking", "home", "login", "stripe"}
  <2>1. Asked(p) = << >>
    BY <1>6 DEF Asked
  <2> QED BY <2>1
<1>7. CASE p \in {"salon", "hours", "holidays", "employees", "services", "categories",
                  "customers", "tenants", "tenantBilling", "plans"}
  <2>1. Asked(p) = <<p>>
    BY <1>7 DEF Asked
  <2> QED BY <1>7, <2>1 DEF Hideable
<1> QED
  BY <1>1, <1>2, <1>3, <1>4, <1>5, <1>6, <1>7 DEF Pages, StaffPages, ManagerPages, AdminPages

(* A new page waits only for what its constructor asked for, its forms first. *)
LEMMA FreshWaits ==
    ASSUME NEW p \in Pages \cup {"login", "stripe"}, NEW id
    PROVE  /\ DOMAIN Fresh(p, id) = ScreenFields /\ Fresh(p, id).page = p
           /\ DOMAIN Fresh(p, id).held = PartsOf(p)
           /\ Fresh(p, id).busy = {} /\ ~Fresh(p, id).timer /\ Fresh(p, id).id = id
           /\ PartsOf(p) \cap Wholes \subseteq Fresh(p, id).loading
           /\ \A q \in Fresh(p, id).loading :
                 \E i \in DOMAIN Asked(p) : q \in Group(Asked(p)[i])
<1>1. /\ DOMAIN Fresh(p, id) = ScreenFields /\ Fresh(p, id).page = p
      /\ DOMAIN Fresh(p, id).held = PartsOf(p)
      /\ Fresh(p, id).busy = {} /\ ~Fresh(p, id).timer /\ Fresh(p, id).id = id
      /\ Fresh(p, id).loading = IF p = "inbox" THEN {"threads"}
                                ELSE PartsOf(p) \ {"candidates"}
  BY DEF Fresh, ScreenFields
<1>2. PICK asked : asked = UNION {Group(Asked(p)[i]) : i \in DOMAIN Asked(p)}
  OBVIOUS
<1>3. \A q \in asked : \E i \in DOMAIN Asked(p) : q \in Group(Asked(p)[i])
  BY <1>2
<1>4. PartsOf(p) = asked \cup (IF p = "booking" THEN {"candidates"} ELSE {})
                         \cup (IF p = "inbox" THEN {"messages"} ELSE {})
  BY <1>2 DEF PartsOf
<1>5. p = "inbox" => asked = {"threads"}
  <2>1. p = "inbox" => Asked(p) = <<"threads">>
    BY DEF Asked
  <2>2. Group("threads") = {"threads"}
    BY DEF Group
  <2>3. p = "inbox" => DOMAIN Asked(p) = {1} /\ Asked(p)[1] = "threads"
    BY <2>1
  <2>4. ASSUME p = "inbox", NEW q PROVE q \in asked <=> q = "threads"
    <3>1. q \in asked <=> \E i \in DOMAIN Asked(p) : q \in Group(Asked(p)[i])
      BY <1>2
    <3> QED BY <2>2, <2>3, <2>4, <3>1
  <2> QED BY <2>4
<1>6. PartsOf(p) \cap Wholes \subseteq Fresh(p, id).loading
  BY <1>1, <1>4, <1>5 DEF Wholes
<1>7. \A q \in Fresh(p, id).loading : q \in asked
  BY <1>1, <1>4, <1>5
<1> QED BY <1>1, <1>3, <1>6, <1>7

LEMMA ConstructorAsks ==
    ASSUME NEW p \in Pages \cup {"login", "stripe"}, NEW new, new.page = p
    PROVE  /\ Constructor(new) \in Seq(ToSet(Constructor(new)))
           /\ \A r \in ToSet(Constructor(new)) : WellFormed(r) /\ r.op = "load" /\ r.state = "sent"
           /\ \A i \in DOMAIN Asked(p) : \A q \in Group(Asked(p)[i]) :
                 Arriving(q, ToSet(Constructor(new)))
           /\ p \in {"login", "stripe"} => Constructor(new) = << >>
<1>1. PICK asked : asked = Asked(p)
  OBVIOUS
<1>2. /\ DOMAIN asked = 1..Len(asked) /\ Len(asked) \in Nat
      /\ \A i \in DOMAIN asked : asked[i] \notin Hideable
      /\ p \in {"login", "stripe"} => asked = << >>
  BY <1>1, AskedParts
<1>3. PICK c : c = [i \in 1..Len(asked) |-> Load(new, asked[i])]
  OBVIOUS
<1>4. c = Constructor(new)
  BY <1>1, <1>2, <1>3 DEF Constructor
<1>5. DOMAIN c = 1..Len(asked) /\ \A i \in 1..Len(asked) : c[i] = Load(new, asked[i])
  BY <1>3
<1>6. c \in Seq(ToSet(c))
  <2>1. \A i \in 1..Len(asked) : c[i] \in ToSet(c)
    BY <1>5 DEF ToSet
  <2>2. c \in [1..Len(asked) -> ToSet(c)]
    BY <1>3, <1>5, <2>1
  <2> QED BY <1>2, <2>2
<1>7. \A i \in 1..Len(asked) : /\ WellFormed(c[i]) /\ c[i].op = "load" /\ c[i].state = "sent"
                               /\ c[i].here /\ c[i].part = asked[i]
  BY <1>2, <1>5 DEF Load, Request, WellFormed, RequestFields
<1>8. \A r \in ToSet(c) : WellFormed(r) /\ r.op = "load" /\ r.state = "sent"
  BY <1>5, <1>7 DEF ToSet
<1>9. \A i \in DOMAIN asked : \A q \in Group(asked[i]) : Arriving(q, ToSet(c))
  BY <1>2, <1>5, <1>7 DEF ToSet, Arriving
<1>10. p \in {"login", "stripe"} => c = << >>
  BY <1>2, <1>3
<1> QED BY <1>1, <1>4, <1>6, <1>8, <1>9, <1>10

(* A step to another page. *)
LEMMA NewPage ==
    ASSUME DashboardInv, failed \subseteq failed', UNCHANGED server,
           DOMAIN session' = SessionFields, session'.user \in Roles \cup {Nil},
           screen'.page \notin {"login", "home", "stripe"} => session'.user # Nil,
           DOMAIN screen' = ScreenFields, DOMAIN screen'.held = PartsOf(screen'.page),
           screen'.busy = {}, ~screen'.timer, screen'.page = "login" => screen'.loading = {},
           Quiet(ToSet(inflight')),
           PartsOf(screen'.page) \cap Wholes \subseteq screen'.loading,
           inflight' \in Seq(ToSet(inflight')),
           \A r \in ToSet(inflight') : WellFormed(r) /\ Harmless(r)',
           \A q \in screen'.loading : Arriving(q, ToSet(inflight'))
    PROVE  DashboardInv'
<1>1. RequestsAreWell'
  BY DEF RequestsAreWell, Underway, WellFormed
<1>2. ScreenIsWell'
  BY DEF ScreenIsWell, Underway, Quiet
<1>3. SessionIsWell'
  BY DEF SessionIsWell
<1>4. ServerIsWell'
  BY ServerStays
<1>5. FormsAreWell'
  BY DEF FormsAreWell
<1>6. ControlsAreWell'
  BY DEF ControlsAreWell, Underway, Arriving
<1> QED BY <1>1, <1>2, <1>3, <1>4, <1>5, <1>6 DEF DashboardInv

(* What survives its page still cannot harm. *)
LEMMA OrphansAreWell ==
    ASSUME DashboardInv, failed \subseteq failed',
           NEW reqs, reqs \in Seq(ToSet(reqs)),
           \A r \in ToSet(reqs) : r \in Underway \/ r.op = "load",
           NEW o \in ToSet(Orphaned(reqs))
    PROVE  WellFormed(o) /\ Harmless(o)' /\ ~o.here
<1>1. PICK r \in ToSet(reqs) : r.op # "load" /\ o = [r EXCEPT !.here = FALSE]
  BY OrphanedSet
<1>2. WellFormed(r) /\ Harmless(r)'
  BY <1>1, StillWell
<1>3. /\ DOMAIN o = RequestFields /\ o.op = r.op /\ o.part = r.part /\ o.value = r.value
      /\ o.resent = r.resent /\ o.state = r.state /\ ~o.here
  BY <1>1, <1>2 DEF WellFormed, RequestFields
<1>4. WellFormed(o)
  BY <1>1, <1>2, <1>3 DEF WellFormed
<1>5. Harmless(o)'
  <2>1. (r.op = "save" /\ r.value = "default" =>
           r.part \in {"settings"} \cup Unread)'
    BY <1>2 DEF Harmless
  <2>2. o.op # "load"
    BY <1>1, <1>3
  <2> QED BY <1>3, <2>1, <2>2 DEF Harmless
<1> QED BY <1>3, <1>4, <1>5

(* The router brings a page that is not on the screen. *)
LEMMA FreshStep ==
    ASSUME DashboardInv, failed \subseteq failed', UNCHANGED server,
           DOMAIN session' = SessionFields, session'.user \in Roles \cup {Nil},
           NEW p \in Pages \cup {"login", "stripe"}, NEW id,
           p \notin {"login", "home", "stripe"} => session'.user # Nil,
           NEW reqs, reqs \in Seq(ToSet(reqs)),
           \A r \in ToSet(reqs) : r \in Underway \/ r.op = "load",
           NEW new, new = Fresh(p, id),
           screen' = new \/ (\E x : screen' = [new EXCEPT !.sel = x]),
           inflight' = Orphaned(reqs) \o Constructor(new)
    PROVE  DashboardInv'
<1>1. /\ DOMAIN new = ScreenFields /\ new.page = p /\ DOMAIN new.held = PartsOf(p)
      /\ new.busy = {} /\ ~new.timer /\ PartsOf(p) \cap Wholes \subseteq new.loading
      /\ \A q \in new.loading : \E i \in DOMAIN Asked(p) : q \in Group(Asked(p)[i])
  <2>1. new = Fresh(p, id) /\ p \in Pages \cup {"login", "stripe"}
    OBVIOUS
  <2> QED BY ONLY <2>1, FreshWaits
<1>2. /\ Constructor(new) \in Seq(ToSet(Constructor(new)))
      /\ \A r \in ToSet(Constructor(new)) : WellFormed(r) /\ r.op = "load" /\ r.state = "sent"
      /\ \A i \in DOMAIN Asked(p) : \A q \in Group(Asked(p)[i]) :
            Arriving(q, ToSet(Constructor(new)))
  BY <1>1, ConstructorAsks
<1>3. /\ Orphaned(reqs) \in Seq(ToSet(Orphaned(reqs)))
      /\ \A o \in ToSet(Orphaned(reqs)) : WellFormed(o) /\ Harmless(o)' /\ ~o.here
  BY OrphanedSet, OrphansAreWell
<1>4. /\ inflight' \in Seq(ToSet(inflight'))
      /\ ToSet(inflight') = ToSet(Orphaned(reqs)) \cup ToSet(Constructor(new))
  BY <1>2, <1>3, JoinedSet
<1>5. \A r \in ToSet(Constructor(new)) : Harmless(r)'
  BY <1>2 DEF Harmless
<1>6. \A r \in ToSet(inflight') : WellFormed(r) /\ Harmless(r)'
  BY <1>2, <1>3, <1>4, <1>5
<1>7. /\ DOMAIN screen' = ScreenFields /\ screen'.page = p /\ screen'.held = new.held
      /\ screen'.busy = {} /\ ~screen'.timer /\ screen'.loading = new.loading
  BY <1>1 DEF ScreenFields
<1>8. \A q \in screen'.loading : Arriving(q, ToSet(inflight'))
  BY <1>1, <1>2, <1>4, <1>7 DEF Arriving
<1>9. p = "login" => new.loading = {}
  <2>1. p = "login" => DOMAIN Asked(p) = {}
    BY AskedParts
  <2> QED BY <1>1, <2>1
<1>10. Quiet(ToSet(inflight'))
  BY <1>2, <1>3, <1>4 DEF Quiet
<1> QED BY <1>1, <1>4, <1>6, <1>7, <1>8, <1>9, <1>10, NewPage

(* Where a navigation ends. *)
LEMMA Destinations ==
    ASSUME NEW s, NEW p
    PROVE  /\ Destination(s, p) \in Pages \cup {"login", "nowhere"}
           /\ Destination(s, p) \notin {"login", "home", "nowhere"} => s.user # Nil
BY DEF Destination, RoleGuard, HasRole, Pages, StaffPages, ManagerPages, AdminPages

(* Every role may open the pages of the salon's staff. *)
LEMMA StaffAdmitted ==
    ASSUME NEW s, s.user \in Roles \cup {Nil}, NEW p \in StaffPages,
           Destination(s, p) = "nowhere"
    PROVE  s.user = Nil
<1>1. p # "settings" /\ p # "nowhere"
  BY DEF StaffPages
<1>2. ~HasRole(s, "STAFF")
  BY <1>1 DEF Destination, TenantActiveGuard, RoleGuard
<1>3. \A role \in Roles : Rank[role] >= Rank["STAFF"]
  BY DashboardAssumption DEF DashboardAssumption, Rank
<1> QED BY <1>2, <1>3 DEF HasRole

(* A step of the router, under the session that the step leaves. *)
LEMMA NavigateStep ==
    ASSUME DashboardInv, UNCHANGED server, failed \subseteq failed',
           NEW s, session' = s, DOMAIN s = SessionFields, s = session \/ s.user \in Roles,
           NEW p, NEW id, NEW reqs, reqs \in Seq(ToSet(reqs)),
           \A r \in ToSet(reqs) :
               r \in Underway \/ (r.op = "load" /\ WellFormed(r) /\ Harmless(r)'),
           Navigate(s, p, id, reqs),
           Destination(s, p) \in {"nowhere", screen.page} =>
               /\ \A f \in screen.busy : Waiting(f, ToSet(reqs)) \/ Excused \/ Excused'
               /\ \A q \in screen.loading : Arriving(q, ToSet(reqs))
    PROVE  DashboardInv'
<1>1. PICK dest : dest = Destination(s, p)
  OBVIOUS
<1>2. /\ dest \in Pages \cup {"login", "nowhere"}
      /\ dest \notin {"login", "home", "nowhere"} => s.user # Nil
  BY <1>1, Destinations
<1>3. s.user \in Roles \cup {Nil}
  BY DEF DashboardInv, SessionIsWell
<1>4. \/ screen' = screen /\ inflight' = reqs /\ dest \in {"nowhere", screen.page}
      \/ screen' = [screen EXCEPT !.sel = id] /\ inflight' = reqs /\ dest = screen.page
      \/ /\ dest # "nowhere"
         /\ \E x : screen' = Fresh(dest, x)
                   /\ inflight' = Orphaned(reqs) \o Constructor(Fresh(dest, x))
  BY <1>1 DEF Navigate
<1>5. CASE /\ screen' = screen \/ screen' = [screen EXCEPT !.sel = id]
           /\ inflight' = reqs /\ dest \in {"nowhere", screen.page}
  <2>1. /\ DOMAIN screen' = ScreenFields /\ screen'.held = screen.held
        /\ screen'.page = screen.page /\ screen'.id = screen.id
        /\ screen'.timer = screen.timer /\ screen'.loading = screen.loading
        /\ screen'.busy = screen.busy /\ screen'.hidden = screen.hidden
    BY <1>5 DEF DashboardInv, ScreenIsWell, ScreenFields
  <2>2. FormsAreWell'
    BY <2>1 DEF DashboardInv, FormsAreWell
  <2>3. \A r \in ToSet(inflight') : WellFormed(r) /\ Harmless(r)'
    BY <1>5, StillWell
  <2>4. ServerIsWell'
    BY ServerStays
  <2>5. /\ \A f \in screen'.busy : Waiting(f, ToSet(inflight')) \/ Excused \/ Excused'
        /\ \A q \in screen'.loading : Arriving(q, ToSet(inflight'))
    BY <1>1, <1>5, <2>1
  <2>6. inflight' \in Seq(ToSet(inflight'))
    BY <1>5
  <2>7. session'.user = session.user \/ session'.user \in Roles
    OBVIOUS
  <2>8. screen.page = "login" => screen.loading = {} /\ Quiet(ToSet(reqs))
    BY DEF DashboardInv, ScreenIsWell, Quiet
  <2> QED BY <1>5, <2>1, <2>2, <2>3, <2>4, <2>5, <2>6, <2>7, <2>8, SamePage
<1>6. CASE /\ dest # "nowhere"
           /\ \E x : screen' = Fresh(dest, x)
                     /\ inflight' = Orphaned(reqs) \o Constructor(Fresh(dest, x))
  <2>1. PICK x, new : /\ new = Fresh(dest, x) /\ screen' = new
                      /\ inflight' = Orphaned(reqs) \o Constructor(new)
    BY <1>6
  <2>2. dest \in Pages \cup {"login", "stripe"}
    BY <1>2, <1>6
  <2>3. \A r \in ToSet(reqs) : r \in Underway \/ r.op = "load"
    OBVIOUS
  <2>4. dest \notin {"login", "home", "stripe"} => s.user # Nil
    BY <1>2, <1>6
  <2> QED BY <1>3, <2>1, <2>2, <2>3, <2>4, FreshStep
<1> QED BY <1>4, <1>5, <1>6

(* The requests left when one of them has ended. *)
LEMMA Rest ==
    ASSUME DashboardInv, NEW i \in DOMAIN inflight, NEW rest, rest = RemoveAt(inflight, i)
    PROVE  /\ rest \in Seq(ToSet(rest))
           /\ ToSet(rest) \subseteq Underway /\ Underway \ {inflight[i]} \subseteq ToSet(rest)
           /\ inflight[i] \in Underway
<1>1. inflight \in Seq(ToSet(inflight)) /\ inflight[i] \in Underway
  BY DEF DashboardInv, RequestsAreWell, Underway, ToSet
<1> QED BY <1>1, RemovedSet DEF Underway

(* Controls that wait for other requests go on waiting. *)
LEMMA StillWaiting ==
    ASSUME DashboardInv, NEW i \in DOMAIN inflight, inflight[i].op # "load",
           NEW R, Underway \ {inflight[i]} \subseteq R
    PROVE  /\ \A f \in screen.busy : f.op # inflight[i].op => Waiting(f, R) \/ Excused
           /\ \A q \in screen.loading : Arriving(q, R)
BY DEF DashboardInv, ControlsAreWell, Waiting, Arriving

LEMMA SignOutStep ==
    ASSUME DashboardInv, UNCHANGED server, failed \subseteq failed',
           NEW i \in DOMAIN inflight, inflight[i].op # "login",
           NEW cookie, SignOut(cookie, RemoveAt(inflight, i))
    PROVE  DashboardInv'
<1>1. PICK rest : rest = RemoveAt(inflight, i)
  OBVIOUS
<1>2. /\ rest \in Seq(ToSet(rest))
      /\ ToSet(rest) \subseteq Underway /\ Underway \ {inflight[i]} \subseteq ToSet(rest)
  BY <1>1, Rest
<1>3. DOMAIN session' = SessionFields /\ session'.user = Nil
  BY DEF SignOut, SessionFields
<1>4. CASE screen.page = "login"
  <2>1. screen' = screen /\ inflight' = rest
    BY <1>1, <1>4 DEF SignOut
  <2>2. /\ \A f \in screen.busy : f.op = "login" /\ (Waiting(f, Underway) \/ Excused)
        /\ screen.loading = {} /\ Quiet(ToSet(rest))
    BY <1>2, <1>4 DEF Quiet, DashboardInv, ScreenIsWell, FlagIsWell, ControlsAreWell
  <2>3. \A f \in screen.busy : Waiting(f, ToSet(rest)) \/ Excused
    BY <1>2, <2>2 DEF Waiting
  <2>4. FormsAreWell'
    BY <2>1 DEF DashboardInv, FormsAreWell
  <2>5. \A r \in ToSet(rest) : WellFormed(r) /\ Harmless(r)'
    BY <1>2, StillWell
  <2>6. ServerIsWell'
    BY ServerStays
  <2>7. DOMAIN screen = ScreenFields
    BY DEF DashboardInv, ScreenIsWell
  <2> QED
    BY <1>2, <1>3, <1>4, <2>1, <2>2, <2>3, <2>4, <2>5, <2>6, <2>7, SamePage
<1>5. CASE screen.page # "login"
  <2>1. PICK new, x, y :
            /\ new = Fresh("login", x) /\ screen' = [new EXCEPT !.sel = y]
            /\ inflight' = Orphaned(rest)
    BY <1>1, <1>5 DEF SignOut
  <2>2. Constructor(new) = << >>
    <3>1. new.page = "login"
      BY <2>1, FreshWaits
    <3> QED BY <3>1, ConstructorAsks
  <2>3. inflight' = Orphaned(rest) \o Constructor(new)
    <3>1. Orphaned(rest) \in Seq(ToSet(Orphaned(rest)))
      BY <1>2, OrphanedSet
    <3>2. PICK o : o = Orphaned(rest)
      OBVIOUS
    <3>3. o \o << >> = o
      BY <3>1, <3>2
    <3> QED BY <2>1, <2>2, <3>2, <3>3
  <2>4. \A r \in ToSet(rest) : r \in Underway \/ r.op = "load"
    BY <1>2
  <2> QED BY <1>2, <1>3, <2>1, <2>3, <2>4, FreshStep
<1> QED BY <1>4, <1>5

-----------------------------------------------------------------------------
(* The backend. *)

(* The kinds of parts are apart. *)
LEMMA PartsApart ==
    /\ Wholes \cap Lists = {}
    /\ Wholes \cap {"messages", "visits", "visit", "subscription", "candidates"} = {}
    /\ {"salon", "settings", "tenant"} \cap {"hours", "ai"} = {}
BY DEF Wholes, Lists

(* What a request changes of the stored forms. *)
LEMMA AppliedForms ==
    ASSUME DashboardInv, NEW r \in Underway, server' = Applied(r), UNCHANGED failed
    PROVE  ServerIsWell'
<1>1. /\ DOMAIN server = {"rows", "whole", "sent", "visits", "sub"}
      /\ DOMAIN server.whole = Wholes
      /\ \A w \in Wholes : server.whole[w] = "default" => w \in Unread
  BY DEF DashboardInv, ServerIsWell
<1>2. WellFormed(r) /\ Harmless(r)
  BY DEF DashboardInv, RequestsAreWell
<1>3. CASE r.op = "save"
  <2>1. server' = [server EXCEPT !.whole[r.part] = Kept(r.part, r.value)]
    BY <1>3 DEF Applied
  <2>2. /\ DOMAIN server' = DOMAIN server
        /\ server'.whole = [server.whole EXCEPT ![r.part] = Kept(r.part, r.value)]
    BY <1>1, <2>1
  <2>3. r.part \in Wholes /\ (r.value = "default" => r.part \in {"settings"} \cup Unread)
    BY <1>2, <1>3 DEF WellFormed, Harmless
  <2>4. Kept(r.part, r.value) = "default" => r.part \in Unread
    BY <1>1, <2>3 DEF Kept
  <2> QED BY <1>1, <2>2, <2>3, <2>4 DEF ServerIsWell, Unread
<1>4. CASE r.op # "save"
  <2>1. DOMAIN server' = DOMAIN server /\ server'.whole = server.whole
    <3>1. CASE r.op \in {"create", "set", "assign", "delete"}
      <4>1. PICK rows : server' = [server EXCEPT !.rows = rows]
        BY <1>1, <3>1 DEF Applied
      <4> QED BY <1>1, <4>1
    <3>2. CASE r.op = "send"
      <4>1. PICK sent : server' = [server EXCEPT !.sent = sent]
        BY <1>1, <3>2 DEF Applied
      <4> QED BY <1>1, <4>1
    <3>3. CASE r.op \in {"move", "drop", "cancel", "remove", "book"}
      <4>1. PICK visits : server' = [server EXCEPT !.visits = visits]
        BY <1>1, <3>3 DEF Applied
      <4> QED BY <1>1, <4>1
    <3>4. CASE r.op \in {"changePlan", "cancelPlan", "resume"}
      <4>1. PICK sub : server' = [server EXCEPT !.sub = sub]
        BY <1>1, <3>4 DEF Applied
      <4> QED BY <1>1, <4>1
    <3>5. CASE r.op \notin {"create", "set", "assign", "delete", "save", "send", "move", "drop",
                            "cancel", "remove", "book", "changePlan", "cancelPlan", "resume"}
      BY <3>5 DEF Applied
    <3> QED BY <1>4, <3>1, <3>2, <3>3, <3>4, <3>5
  <2> QED BY <1>1, <2>1 DEF ServerIsWell, Unread
<1> QED BY <1>3, <1>4

(* The answer to a load brings no more than the backend has. *)
LEMMA ReplyForms ==
    ASSUME DashboardInv, NEW r, r.op = "load", NEW w \in Group(r.part) \cap Wholes,
           Reply(r)[w] = "default"
    PROVE  w \in Unread
<1>1. Reply(r)[w] = Stored(w, r.arg)
  BY DEF Reply
<1>2. Stored(w, r.arg) = server.whole[w]
  BY PartsApart DEF Stored
<1> QED BY <1>1, <1>2 DEF DashboardInv, ServerIsWell

LEMMA ServeStep ==
    ASSUME DashboardInv, NEW i \in DOMAIN inflight, Serve(i)
    PROVE  DashboardInv'
<1>1. PICK r : r = inflight[i]
  OBVIOUS
<1>2. PICK reply : reply = Reply(r)
  OBVIOUS
<1>3. PICK e : e = [r EXCEPT !.state = "done", !.reply = reply]
  OBVIOUS
<1>4. inflight \in Seq(ToSet(inflight)) /\ r \in Underway /\ WellFormed(r) /\ Harmless(r)
  BY <1>1 DEF DashboardInv, RequestsAreWell, Underway, ToSet
<1>5. /\ inflight' = [inflight EXCEPT ![i] = e]
      /\ Possible(r) /\ server' = Applied(r) /\ UNCHANGED <<session, failed>>
      /\ screen' = screen \/ screen' = [screen EXCEPT !.hitch = TRUE]
  BY <1>1, <1>2, <1>3 DEF Serve, Hitch
<1>6. /\ DOMAIN e = RequestFields /\ e.op = r.op /\ e.part = r.part /\ e.value = r.value
      /\ e.here = r.here /\ e.resent = r.resent /\ e.reply = reply /\ e.state = "done"
  BY <1>3, <1>4 DEF WellFormed, RequestFields
<1>7. /\ inflight' \in Seq(ToSet(inflight'))
      /\ ToSet(inflight') \subseteq Underway \cup {e}
      /\ (Underway \ {r}) \cup {e} \subseteq ToSet(inflight')
  BY <1>1, <1>4, <1>5, UpdatedSet DEF Underway
<1>8. WellFormed(e)
  BY <1>4, <1>6 DEF WellFormed
<1>9. Harmless(e)'
  <2>1. UNCHANGED failed
    BY <1>5
  <2>2. ASSUME e.op = "load", NEW w \in Group(e.part) \cap Wholes, e.reply[w] = "default"
        PROVE  w \in Unread
    BY <1>2, <1>6, <2>2, ReplyForms
  <2> QED BY <1>4, <1>6, <2>1, <2>2 DEF Harmless, Unread
<1>10. \A q \in ToSet(inflight') : WellFormed(q) /\ Harmless(q)'
  BY <1>5, <1>7, <1>8, <1>9, StillWell
<1>11. /\ DOMAIN screen' = ScreenFields /\ screen'.held = screen.held
       /\ screen'.page = screen.page /\ screen'.id = screen.id
       /\ screen'.timer = screen.timer /\ screen'.loading = screen.loading
       /\ screen'.busy = screen.busy /\ screen'.hidden = screen.hidden
  BY <1>5 DEF DashboardInv, ScreenIsWell, ScreenFields
<1>12. FormsAreWell'
  BY <1>5, <1>11 DEF DashboardInv, FormsAreWell
<1>13. ServerIsWell'
  BY <1>4, <1>5, AppliedForms
<1>14. \A f \in screen'.busy : Waiting(f, ToSet(inflight')) \/ Excused
  BY <1>6, <1>7, <1>11 DEF DashboardInv, ControlsAreWell, Waiting
<1>15. \A q \in screen'.loading : Arriving(q, ToSet(inflight'))
  BY <1>6, <1>7, <1>11 DEF DashboardInv, ControlsAreWell, Arriving
<1>16. screen.page = "login" => Quiet(ToSet(inflight'))
  BY <1>4, <1>6, <1>7 DEF DashboardInv, ScreenIsWell, Quiet
<1>17. DOMAIN session' = SessionFields /\ session'.user = session.user
  BY <1>5 DEF DashboardInv, SessionIsWell
<1> QED
  BY <1>5, <1>7, <1>10, <1>11, <1>12, <1>13, <1>14, <1>15, <1>16, <1>17, SamePage

-----------------------------------------------------------------------------
(* Answers. *)

(* A request that ends on its page. *)
LEMMA EndStep ==
    ASSUME DashboardInv, UNCHANGED <<session, server>>, failed \subseteq failed',
           NEW i \in DOMAIN inflight, inflight' = RemoveAt(inflight, i),
           NEW new, screen' = new,
           DOMAIN new = ScreenFields, DOMAIN new.held = DOMAIN screen.held,
           \A x \in {"page", "id", "timer"} : new[x] = screen[x],
           new.loading \subseteq screen.loading, new.busy \subseteq screen.busy,
           FormsAreWell',
           \A f \in new.busy :
               /\ inflight[i].here /\ f.op = inflight[i].op /\ f.part = inflight[i].part
               => Excused',
           \A q \in new.loading :
               ~(inflight[i].here /\ inflight[i].op = "load" /\ q \in Group(inflight[i].part))
    PROVE  DashboardInv'
<1>1. PICK rest : rest = RemoveAt(inflight, i)
  OBVIOUS
<1>2. /\ inflight' = rest /\ rest \in Seq(ToSet(rest))
      /\ ToSet(rest) \subseteq Underway /\ Underway \ {inflight[i]} \subseteq ToSet(rest)
  BY <1>1, Rest
<1>3. new.page = screen.page /\ new.id = screen.id /\ new.timer = screen.timer
  OBVIOUS
<1>4. \A f \in new.busy : Waiting(f, ToSet(rest)) \/ Excused \/ Excused'
  BY <1>2 DEF DashboardInv, ControlsAreWell, Waiting
<1>5. \A q \in new.loading : Arriving(q, ToSet(rest))
  BY <1>2 DEF DashboardInv, ControlsAreWell, Arriving
<1>6. \A r \in ToSet(rest) : WellFormed(r) /\ Harmless(r)'
  BY <1>2, StillWell
<1>7. screen.page = "login" => Quiet(ToSet(rest))
  BY <1>2 DEF DashboardInv, ScreenIsWell, Quiet
<1>8. ServerIsWell'
  BY ServerStays
<1>9. DOMAIN session' = SessionFields /\ session'.user = session.user
  BY DEF DashboardInv, SessionIsWell
<1> QED BY <1>2, <1>3, <1>4, <1>5, <1>6, <1>7, <1>8, <1>9, SamePage

(* The controls that an answer frees. *)
LEMMA FreedBusy ==
    ASSUME DashboardInv, NEW r, NEW s, s = Freed(screen, r)
    PROVE  /\ DOMAIN s = ScreenFields
           /\ \A x \in ScreenFields \ {"busy"} : s[x] = screen[x]
           /\ s.busy = {f \in screen.busy : f.op # r.op \/ f.part # r.part}
BY DEF DashboardInv, ScreenIsWell, ScreenFields, Freed

LEMMA AnsweredScreen ==
    ASSUME DashboardInv, NEW r, WellFormed(r), r.op # "save" \/ r.part \in Wholes,
           NEW s, s = Answered(screen, r)
    PROVE  /\ DOMAIN s = ScreenFields /\ DOMAIN s.held = DOMAIN screen.held
           /\ \A x \in {"page", "id", "timer", "hidden"} : s[x] = screen[x]
           /\ s.busy = {f \in screen.busy : f.op # r.op \/ f.part # r.part}
           /\ s.loading = IF r.op = "load" THEN screen.loading \ Group(r.part)
                          ELSE screen.loading
           /\ \A w \in DOMAIN screen.held \cap Wholes :
                 s.held[w] = IF r.op = "load" /\ w \in Group(r.part) THEN r.reply[w]
                             ELSE screen.held[w]
<1>1. PICK f : f = Freed(screen, r)
  OBVIOUS
<1>2. /\ DOMAIN f = ScreenFields
      /\ \A x \in ScreenFields \ {"busy"} : f[x] = screen[x]
      /\ f.busy = {g \in screen.busy : g.op # r.op \/ g.part # r.part}
  BY <1>1, FreedBusy
<1>3. /\ f.page = screen.page /\ f.id = screen.id /\ f.timer = screen.timer
      /\ f.hidden = screen.hidden /\ f.loading = screen.loading /\ f.held = screen.held
  BY <1>2 DEF ScreenFields
<1>4. CASE r.op = "load"
  <2>1. PICK held : held = [q \in DOMAIN f.held |-> IF q \in Group(r.part) THEN r.reply[q]
                                                    ELSE f.held[q]]
    OBVIOUS
  <2>2. s = [f EXCEPT !.loading = f.loading \ Group(r.part), !.held = held]
    BY <1>1, <1>2, <1>4, <2>1 DEF Answered, ScreenFields
  <2> QED BY <1>2, <1>3, <1>4, <2>1, <2>2 DEF ScreenFields
<1>5. ASSUME NEW part, part \notin Wholes, NEW rows
      PROVE  /\ DOMAIN [screen.held EXCEPT ![part] = rows] = DOMAIN screen.held
             /\ \A w \in DOMAIN screen.held \cap Wholes :
                   [screen.held EXCEPT ![part] = rows][w] = screen.held[w]
  BY <1>5
<1>6. ASSUME NEW held, r.op # "load",
             DOMAIN held = DOMAIN screen.held,
             \A w \in DOMAIN screen.held \cap Wholes : held[w] = screen.held[w],
             s = [f EXCEPT !.held = held] \/ s = [f EXCEPT !.held = held, !.editing = Nil]
      PROVE  /\ DOMAIN s = ScreenFields /\ DOMAIN s.held = DOMAIN screen.held
             /\ \A x \in {"page", "id", "timer", "hidden"} : s[x] = screen[x]
             /\ s.busy = f.busy /\ s.loading = screen.loading
             /\ \A w \in DOMAIN screen.held \cap Wholes : s.held[w] = screen.held[w]
  <2>1. /\ DOMAIN s = ScreenFields /\ s.held = held /\ s.busy = f.busy
        /\ s.page = f.page /\ s.id = f.id /\ s.timer = f.timer /\ s.hidden = f.hidden
        /\ s.loading = f.loading
    BY <1>2, <1>6 DEF ScreenFields
  <2> QED BY <1>3, <1>6, <2>1
<1>7. CASE r.op \in {"create", "edit", "set", "assign", "delete", "send", "drop", "cancel",
                     "changePlan", "cancelPlan", "resume"}
  <2>1. PICK part : part = CASE r.op = "send" -> "messages" [] r.op = "drop" -> "visits"
                             [] r.op = "cancel" -> "visit"
                             [] r.op \in {"changePlan", "cancelPlan", "resume"} -> "subscription"
                             [] OTHER -> r.part
    OBVIOUS
  <2>2. part \notin Wholes
    BY <1>7, <2>1, PartsApart DEF WellFormed
  <2>3. \E rows : LET held == [f.held EXCEPT ![part] = rows]
                 IN  s = [f EXCEPT !.held = held] \/ s = [f EXCEPT !.held = held, !.editing = Nil]
    <3>1. CASE r.op \in {"create", "edit", "set", "assign", "delete"}
      <4>1. part = r.part
        BY <2>1, <3>1
      <4> QED BY <1>1, <1>2, <3>1, <4>1 DEF Answered, ScreenFields
    <3>2. CASE r.op = "send"
      <4>1. part = "messages"
        BY <2>1, <3>2
      <4> QED BY <1>1, <1>2, <3>2, <4>1 DEF Answered, ScreenFields
    <3>3. CASE r.op = "drop"
      <4>1. part = "visits"
        BY <2>1, <3>3
      <4> QED BY <1>1, <1>2, <3>3, <4>1 DEF Answered, ScreenFields
    <3>4. CASE r.op = "cancel"
      <4>1. part = "visit"
        BY <2>1, <3>4
      <4> QED BY <1>1, <1>2, <3>4, <4>1 DEF Answered, ScreenFields
    <3>5. CASE r.op \in {"changePlan", "cancelPlan", "resume"}
      <4>1. part = "subscription"
        BY <2>1, <3>5
      <4> QED BY <1>1, <1>2, <3>5, <4>1 DEF Answered, ScreenFields
    <3> QED BY <1>7, <3>1, <3>2, <3>3, <3>4, <3>5
  <2>4. PICK rows, held :
            /\ held = [screen.held EXCEPT ![part] = rows]
            /\ s = [f EXCEPT !.held = held] \/ s = [f EXCEPT !.held = held, !.editing = Nil]
    BY <1>3, <2>3
  <2>5. /\ DOMAIN held = DOMAIN screen.held
        /\ \A w \in DOMAIN screen.held \cap Wholes : held[w] = screen.held[w]
    BY <1>5, <2>2, <2>4
  <2>6. /\ DOMAIN s = ScreenFields /\ DOMAIN s.held = DOMAIN screen.held
        /\ \A x \in {"page", "id", "timer", "hidden"} : s[x] = screen[x]
        /\ s.busy = f.busy /\ s.loading = screen.loading
        /\ \A w \in DOMAIN screen.held \cap Wholes : s.held[w] = screen.held[w]
    BY <1>6, <1>7, <2>4, <2>5
  <2> QED BY <1>2, <1>7, <2>6
<1>8. CASE r.op \notin {"load", "create", "edit", "set", "assign", "delete", "send", "drop",
                        "cancel", "changePlan", "cancelPlan", "resume"}
  <2>1. s = f
    BY <1>1, <1>8 DEF Answered
  <2> QED BY <1>2, <1>3, <1>8, <2>1
<1> QED BY <1>4, <1>7, <1>8

LEMMA AnswerArrivesStep ==
    ASSUME DashboardInv, NEW i \in DOMAIN inflight, AnswerArrives(i)
    PROVE  DashboardInv'
<1>1. PICK r : r = inflight[i]
  OBVIOUS
<1>2. r \in Underway /\ WellFormed(r) /\ Harmless(r) /\ DOMAIN screen = ScreenFields
      /\ DOMAIN screen.held = PartsOf(screen.page)
  BY <1>1 DEF DashboardInv, RequestsAreWell, ScreenIsWell, Underway, ToSet
<1>3. /\ inflight' = RemoveAt(inflight, i) /\ UNCHANGED <<session, server, failed>>
      /\ r.state = "done"
  BY <1>1 DEF AnswerArrives
<1>4. CASE ~r.here
  <2>1. screen' = screen
    BY <1>1, <1>4 DEF AnswerArrives
  <2>2. FormsAreWell'
    BY <1>3, <2>1 DEF DashboardInv, FormsAreWell
  <2> QED BY <1>1, <1>2, <1>3, <1>4, <2>1, <2>2, EndStep
<1>5. CASE r.here
  <2>1. PICK s : s = Answered(screen, r)
    OBVIOUS
  <2>2. PICK hitch, new : new = [s EXCEPT !.hitch = hitch] /\ screen' = new
    BY <1>1, <1>5, <2>1 DEF AnswerArrives
  <2>3. /\ DOMAIN s = ScreenFields /\ DOMAIN s.held = DOMAIN screen.held
        /\ \A x \in {"page", "id", "timer", "hidden"} : s[x] = screen[x]
        /\ s.busy = {f \in screen.busy : f.op # r.op \/ f.part # r.part}
        /\ s.loading = IF r.op = "load" THEN screen.loading \ Group(r.part)
                       ELSE screen.loading
        /\ \A w \in DOMAIN screen.held \cap Wholes :
              s.held[w] = IF r.op = "load" /\ w \in Group(r.part) THEN r.reply[w]
                          ELSE screen.held[w]
    BY <1>2, <2>1, AnsweredScreen DEF WellFormed
  <2>4. /\ DOMAIN new = ScreenFields /\ new.held = s.held /\ new.page = screen.page
        /\ new.id = screen.id /\ new.timer = screen.timer /\ new.hidden = screen.hidden
        /\ new.busy = s.busy /\ new.loading = s.loading
    BY <2>2, <2>3 DEF ScreenFields
  <2>5. FormsAreWell'
    <3> SUFFICES ASSUME NEW w \in PartsOf(screen.page) \cap Wholes, s.held[w] = "default"
                 PROVE  w \in s.loading \/ screen.hidden \/ w \in failed \ Hideable
      BY <1>3, <2>2, <2>4 DEF FormsAreWell
    <3>1. CASE r.op = "load" /\ w \in Group(r.part)
      <4>1. w \in Unread
        BY <1>2, <1>3, <2>3, <3>1 DEF Harmless
      <4> QED BY <4>1 DEF Unread, Hideable
    <3>2. CASE ~(r.op = "load" /\ w \in Group(r.part))
      <4>1. screen.held[w] = "default"
        BY <1>2, <2>3, <3>2
      <4>2. w \in screen.loading \/ screen.hidden \/ w \in failed \ Hideable
        BY <4>1 DEF DashboardInv, FormsAreWell
      <4> QED BY <2>3, <3>2, <4>2
    <3> QED BY <3>1, <3>2
  <2>6. \A f \in new.busy : ~(f.op = r.op /\ f.part = r.part)
    BY <2>3, <2>4
  <2>7. \A q \in new.loading : ~(r.op = "load" /\ q \in Group(r.part))
    BY <2>3, <2>4
  <2>8. new.loading \subseteq screen.loading /\ new.busy \subseteq screen.busy
        /\ DOMAIN new.held = DOMAIN screen.held
    BY <2>3, <2>4
  <2>9. screen' = new /\ \A x \in {"page", "id", "timer"} : new[x] = screen[x]
    BY <2>2, <2>4
  <2> QED BY <1>1, <1>3, <2>4, <2>5, <2>6, <2>7, <2>8, <2>9, EndStep
<1> QED BY <1>4, <1>5

-----------------------------------------------------------------------------
(* Failures. *)

(* The move of a visit that fails has the calendar read again. *)
LEMMA DropFailsStep ==
    ASSUME DashboardInv, UNCHANGED <<session, server>>, failed \subseteq failed',
           NEW i \in DOMAIN inflight, inflight[i].op = "drop", inflight[i].here,
           screen' = [screen EXCEPT !.loading = @ \cup {"visits"}],
           inflight' = Append(RemoveAt(inflight, i), Load(screen, "visits"))
    PROVE  DashboardInv'
<1>1. PICK rest : rest = RemoveAt(inflight, i)
  OBVIOUS
<1>2. /\ rest \in Seq(ToSet(rest)) /\ inflight[i] \in Underway
      /\ ToSet(rest) \subseteq Underway /\ Underway \ {inflight[i]} \subseteq ToSet(rest)
  BY <1>1, Rest
<1>3. PICK arg, q : q = Request("load", "visits", arg, Nil) /\ q = Load(screen, "visits")
  BY DEF Load
<1>4. inflight' \in Seq(ToSet(inflight')) /\ ToSet(inflight') = ToSet(rest) \cup {q}
  BY <1>1, <1>2, <1>3, AppendedSet
<1>5. /\ WellFormed(q) /\ Harmless(q)' /\ q.here /\ q.op = "load" /\ q.part = "visits"
  BY <1>3 DEF Request, WellFormed, Harmless, RequestFields, Hideable
<1>6. /\ DOMAIN screen' = ScreenFields /\ screen'.held = screen.held
      /\ screen'.page = screen.page /\ screen'.id = screen.id
      /\ screen'.timer = screen.timer /\ screen'.loading = screen.loading \cup {"visits"}
      /\ screen'.busy = screen.busy /\ screen'.hidden = screen.hidden
  BY DEF DashboardInv, ScreenIsWell, ScreenFields
<1>7. screen.page # "login"
  BY <1>2 DEF DashboardInv, ScreenIsWell, Quiet
<1>8. \A r \in ToSet(inflight') : WellFormed(r) /\ Harmless(r)'
  BY <1>2, <1>4, <1>5, StillWell
<1>9. \A f \in screen'.busy : Waiting(f, ToSet(inflight')) \/ Excused
  BY <1>2, <1>4, <1>6
  DEF DashboardInv, ControlsAreWell, ScreenIsWell, FlagIsWell, Waiting
<1>10. ASSUME NEW x \in screen'.loading PROVE Arriving(x, ToSet(inflight'))
  <2>1. CASE x = "visits"
    BY <1>4, <1>5, <2>1 DEF Arriving, Group
  <2>2. CASE x \in screen.loading
    BY <1>2, <1>4, <2>2 DEF DashboardInv, ControlsAreWell, Arriving
  <2> QED BY <1>6, <2>1, <2>2
<1>11. FormsAreWell'
  BY <1>6 DEF DashboardInv, FormsAreWell
<1>12. ServerIsWell'
  BY ServerStays
<1>13. DOMAIN session' = SessionFields /\ session'.user = session.user
  BY DEF DashboardInv, SessionIsWell
<1> QED
  BY <1>4, <1>6, <1>7, <1>8, <1>9, <1>10, <1>11, <1>12, <1>13, SamePage

(* What the error of a request does to the page. *)
LEMMA FailedScreen ==
    ASSUME DashboardInv, NEW r, NEW s, s = Failed(screen, r)
    PROVE  /\ DOMAIN s = ScreenFields /\ s.held = screen.held
           /\ s.page = screen.page /\ s.id = screen.id /\ s.timer = screen.timer
           /\ s.busy = IF r.op = "load" \/ (r.op = "set" /\ r.part = "tenants") THEN screen.busy
                       ELSE {f \in screen.busy : f.op # r.op \/ f.part # r.part}
           /\ s.loading = IF r.op = "load" THEN screen.loading \ Group(r.part)
                          ELSE screen.loading
           /\ screen.hidden \/ (r.op = "load" /\ r.part = "employeePage") => s.hidden
<1>1. DOMAIN screen = ScreenFields
  BY DEF DashboardInv, ScreenIsWell
<1>2. CASE r.op = "load"
  <2>1. PICK hidden : hidden = (screen.hidden \/ r.part = "employeePage")
    OBVIOUS
  <2>2. s = [screen EXCEPT !.loading = @ \ Group(r.part), !.hitch = TRUE, !.hidden = hidden]
    BY <1>2, <2>1 DEF Failed
  <2>3. /\ DOMAIN s = ScreenFields /\ s.held = screen.held /\ s.hidden = hidden
        /\ s.page = screen.page /\ s.id = screen.id /\ s.timer = screen.timer
        /\ s.busy = screen.busy /\ s.loading = screen.loading \ Group(r.part)
    BY <1>1, <2>2 DEF ScreenFields
  <2>4. screen.hidden \/ r.part = "employeePage" => s.hidden
    BY <2>1, <2>3
  <2> QED BY <1>2, <2>3, <2>4
<1>3. CASE r.op = "set" /\ r.part = "tenants"
  BY <1>1, <1>3 DEF Failed
<1>4. CASE ~(r.op = "load") /\ ~(r.op = "set" /\ r.part = "tenants")
  <2>1. s = Freed(screen, r)
    BY <1>4 DEF Failed
  <2>2. /\ DOMAIN s = ScreenFields /\ s.held = screen.held /\ s.hidden = screen.hidden
        /\ s.page = screen.page /\ s.id = screen.id /\ s.timer = screen.timer
        /\ s.loading = screen.loading
        /\ s.busy = {f \in screen.busy : f.op # r.op \/ f.part # r.part}
    BY <2>1, FreedBusy DEF ScreenFields
  <2>3. screen.hidden => s.hidden
    BY <2>2
  <2> QED BY <1>4, <2>2, <2>3
<1> QED BY <1>2, <1>3, <1>4

LEMMA FailsStep ==
    ASSUME DashboardInv, NEW i \in DOMAIN inflight, Fails(i), UNCHANGED server
    PROVE  DashboardInv'
<1>1. PICK r, rest : r = inflight[i] /\ rest = RemoveAt(inflight, i)
  OBVIOUS
<1>2. r \in Underway /\ WellFormed(r)
  BY <1>1 DEF DashboardInv, RequestsAreWell, Underway, ToSet
<1>3. /\ failed' = failed \cup (CASE r.op = "load" -> Group(r.part)
                                  [] r.op = "set" /\ r.part = "tenants" -> {"suspend"}
                                  [] OTHER -> {})
      /\ failed \subseteq failed'
  BY <1>1 DEF Fails
<1>4. CASE r.resent \/ r.op = "logout"
  <2>1. r.op # "login"
    BY <1>2, <1>4 DEF WellFormed
  <2> QED BY <1>1, <1>3, <1>4, <2>1, SignOutStep DEF Fails
<1>5. CASE ~(r.resent \/ r.op = "logout") /\ ~r.here
  <2>1. UNCHANGED <<session, screen>> /\ inflight' = rest
    BY <1>1, <1>5 DEF Fails
  <2>2. FormsAreWell'
    BY <1>3, <2>1 DEF DashboardInv, FormsAreWell
  <2>3. DOMAIN screen = ScreenFields
    BY DEF DashboardInv, ScreenIsWell
  <2> QED BY <1>1, <1>3, <1>5, <2>1, <2>2, <2>3, EndStep
<1>6. CASE ~(r.resent \/ r.op = "logout") /\ r.here /\ r.op = "drop"
  BY <1>1, <1>3, <1>6, DropFailsStep DEF Fails
<1>7. CASE ~(r.resent \/ r.op = "logout") /\ r.here /\ r.op # "drop"
  <2>1. PICK s : s = Failed(screen, r)
    OBVIOUS
  <2>2. PICK hitch, new : new = [s EXCEPT !.hitch = hitch] /\ screen' = new
                          /\ inflight' = rest /\ UNCHANGED session
    BY <1>1, <1>7, <2>1 DEF Fails
  <2>3. /\ DOMAIN s = ScreenFields /\ s.held = screen.held
        /\ s.page = screen.page /\ s.id = screen.id /\ s.timer = screen.timer
        /\ s.busy = IF r.op = "load" \/ (r.op = "set" /\ r.part = "tenants") THEN screen.busy
                    ELSE {f \in screen.busy : f.op # r.op \/ f.part # r.part}
        /\ s.loading = IF r.op = "load" THEN screen.loading \ Group(r.part)
                       ELSE screen.loading
        /\ screen.hidden \/ (r.op = "load" /\ r.part = "employeePage") => s.hidden
    BY <2>1, FailedScreen
  <2>4. /\ DOMAIN new = ScreenFields /\ new.held = screen.held /\ new.page = screen.page
        /\ new.id = screen.id /\ new.timer = screen.timer /\ new.hidden = s.hidden
        /\ new.busy = s.busy /\ new.loading = s.loading
    BY <2>2, <2>3 DEF ScreenFields
  <2>5. FormsAreWell'
    <3> SUFFICES ASSUME NEW w \in PartsOf(screen.page) \cap Wholes,
                        screen.held[w] = "default"
                 PROVE  w \in s.loading \/ s.hidden \/ w \in failed' \ Hideable
      BY <2>2, <2>4 DEF FormsAreWell
    <3>1. w \in screen.loading \/ screen.hidden \/ w \in failed \ Hideable
      BY DEF DashboardInv, FormsAreWell
    <3>2. CASE r.op = "load" /\ w \in Group(r.part)
      <4>1. w \in failed'
        BY <1>3, <3>2
      <4>2. w \in Hideable => r.part = "employeePage"
        BY <1>2, <3>2 DEF WellFormed, Group, Hideable
      <4> QED BY <2>3, <3>2, <4>1, <4>2
    <3>3. CASE ~(r.op = "load" /\ w \in Group(r.part))
      BY <1>3, <2>3, <3>1, <3>3
    <3> QED BY <3>2, <3>3
  <2>6. ASSUME NEW f \in new.busy, f.op = r.op, f.part = r.part PROVE Excused'
    <3>1. f \in screen.busy /\ (r.op = "load" \/ (r.op = "set" /\ r.part = "tenants"))
      BY <2>3, <2>4, <2>6
    <3>2. f.op # "load" /\ (f.op = "set" /\ f.part = "tenants" => screen.page = "tenants")
      BY <3>1 DEF DashboardInv, ScreenIsWell, FlagIsWell
    <3>3. screen.page = "tenants" /\ "suspend" \in failed'
      BY <1>3, <2>6, <3>1, <3>2
    <3> QED BY <2>2, <2>4, <3>3 DEF Excused
  <2>7. \A q \in new.loading : ~(r.op = "load" /\ q \in Group(r.part))
    BY <2>3, <2>4
  <2>8. new.loading \subseteq screen.loading /\ new.busy \subseteq screen.busy
        /\ DOMAIN new.held = DOMAIN screen.held
    BY <2>3, <2>4
  <2>9. screen' = new /\ \A x \in {"page", "id", "timer"} : new[x] = screen[x]
    BY <2>2, <2>4
  <2> QED BY <1>1, <1>3, <2>2, <2>4, <2>5, <2>6, <2>7, <2>8, <2>9, EndStep
<1> QED BY <1>4, <1>5, <1>6, <1>7

(* The same request again, after the others. *)
LEMMA SendAgainStep ==
    ASSUME DashboardInv, NEW i \in DOMAIN inflight, NEW again, NEW resent,
           SendAgain(i, again, resent), inflight[i].op = "login" => ~resent,
           DOMAIN session' = SessionFields, session'.user = session.user,
           UNCHANGED <<server, failed>>
    PROVE  DashboardInv'
<1>1. PICK r, rest : r = inflight[i] /\ rest = RemoveAt(inflight, i)
  OBVIOUS
<1>2. PICK more, e : e = [r EXCEPT !.state = "sent", !.reply = Nil, !.again = more,
                                   !.resent = resent]
                     /\ inflight' = Append(rest, e)
  BY <1>1 DEF SendAgain
<1>3. /\ rest \in Seq(ToSet(rest)) /\ r \in Underway
      /\ ToSet(rest) \subseteq Underway /\ Underway \ {r} \subseteq ToSet(rest)
  BY <1>1, Rest
<1>4. WellFormed(r) /\ Harmless(r)
  BY <1>3 DEF DashboardInv, RequestsAreWell
<1>5. /\ DOMAIN e = RequestFields /\ e.op = r.op /\ e.part = r.part /\ e.value = r.value
      /\ e.here = r.here /\ e.resent = resent /\ e.state = "sent"
  BY <1>2, <1>4 DEF WellFormed, RequestFields
<1>6. inflight' \in Seq(ToSet(inflight')) /\ ToSet(inflight') = ToSet(rest) \cup {e}
  BY <1>2, <1>3, AppendedSet
<1>7. WellFormed(e)
  BY <1>1, <1>4, <1>5 DEF WellFormed
<1>8. Harmless(e)'
  BY <1>4, <1>5 DEF Harmless, Unread
<1>9. \A q \in ToSet(inflight') : WellFormed(q) /\ Harmless(q)'
  BY <1>3, <1>6, <1>7, <1>8, StillWell
<1>10. screen' = screen \/ screen' = [screen EXCEPT !.hitch = TRUE]
  BY DEF SendAgain, Hitch
<1>11. /\ DOMAIN screen' = ScreenFields /\ screen'.held = screen.held
       /\ screen'.page = screen.page /\ screen'.id = screen.id
       /\ screen'.timer = screen.timer /\ screen'.loading = screen.loading
       /\ screen'.busy = screen.busy /\ screen'.hidden = screen.hidden
  BY <1>10 DEF DashboardInv, ScreenIsWell, ScreenFields
<1>12. FormsAreWell'
  BY <1>11 DEF DashboardInv, FormsAreWell
<1>13. ServerIsWell'
  BY ServerStays
<1>14. \A f \in screen'.busy : Waiting(f, ToSet(inflight')) \/ Excused
  BY <1>3, <1>5, <1>6, <1>11 DEF DashboardInv, ControlsAreWell, Waiting
<1>15. \A q \in screen'.loading : Arriving(q, ToSet(inflight'))
  BY <1>3, <1>5, <1>6, <1>11 DEF DashboardInv, ControlsAreWell, Arriving
<1>16. screen.page = "login" => Quiet(ToSet(inflight'))
  BY <1>3, <1>5, <1>6 DEF DashboardInv, ScreenIsWell, Quiet
<1> QED
  BY <1>6, <1>9, <1>11, <1>12, <1>13, <1>14, <1>15, <1>16, SamePage

LEMMA NetworkStep ==
    ASSUME DashboardInv, NEW i \in DOMAIN inflight, Refused(i) \/ Lost(i) \/ Expired(i)
    PROVE  DashboardInv'
<1>1. DOMAIN session = SessionFields
  BY DEF DashboardInv, SessionIsWell
<1>2. CASE Refused(i)
  BY <1>2, FailsStep DEF Refused
<1>3. CASE Lost(i)
  <2>1. UNCHANGED server
    BY <1>3 DEF Lost
  <2>2. CASE Fails(i)
    BY <2>1, <2>2, FailsStep
  <2>3. CASE /\ inflight[i].op = "load" /\ UNCHANGED failed
             /\ SignOut(session.cookie, RemoveAt(inflight, i))
    BY <2>1, <2>3, SignOutStep
  <2>4. CASE /\ inflight[i].op = "load" /\ SendAgain(i, TRUE, FALSE)
             /\ UNCHANGED <<session, failed>>
    BY <1>1, <2>1, <2>4, SendAgainStep
  <2> QED BY <1>3, <2>2, <2>3, <2>4 DEF Lost
<1>4. CASE Expired(i)
  <2>1. UNCHANGED <<server, failed>> /\ inflight[i].op # "login"
    BY <1>4 DEF Expired
  <2>2. CASE SignOut(session.cookie, RemoveAt(inflight, i))
    BY <2>1, <2>2, SignOutStep
  <2>3. CASE session' = [session EXCEPT !.token = "valid"] /\ SendAgain(i, FALSE, TRUE)
    <3>1. DOMAIN session' = SessionFields /\ session'.user = session.user
      BY <1>1, <2>3 DEF SessionFields
    <3> QED BY <2>1, <2>3, <3>1, SendAgainStep
  <2> QED BY <1>4, <2>2, <2>3 DEF Expired
<1> QED BY <1>2, <1>3, <1>4

-----------------------------------------------------------------------------
(* Callbacks that navigate, and the theorems. *)

(* A callback that navigates, of a request that no control of the page that
   stays waits for. *)
LEMMA LeadStep ==
    ASSUME DashboardInv, NEW i \in DOMAIN inflight, inflight[i].op # "load",
           UNCHANGED <<server, failed>>,
           NEW s, session' = s, DOMAIN s = SessionFields, s = session \/ s.user \in Roles,
           NEW p, NEW id, Navigate(s, p, id, RemoveAt(inflight, i)),
           Destination(s, p) \in {"nowhere", screen.page} =>
               \A f \in screen.busy : f.op # inflight[i].op \/ Excused'
    PROVE  DashboardInv'
<1>1. PICK rest : rest = RemoveAt(inflight, i)
  OBVIOUS
<1>2. /\ rest \in Seq(ToSet(rest))
      /\ ToSet(rest) \subseteq Underway /\ Underway \ {inflight[i]} \subseteq ToSet(rest)
  BY <1>1, Rest
<1>3. Destination(s, p) \in {"nowhere", screen.page} =>
          /\ \A f \in screen.busy : Waiting(f, ToSet(rest)) \/ Excused \/ Excused'
          /\ \A q \in screen.loading : Arriving(q, ToSet(rest))
  BY <1>2, StillWaiting
<1>4. \A r \in ToSet(rest) :
          r \in Underway \/ (r.op = "load" /\ WellFormed(r) /\ Harmless(r)')
  BY <1>2
<1>5. failed \subseteq failed' /\ UNCHANGED server /\ Navigate(s, p, id, rest)
  BY <1>1
<1> QED BY <1>2, <1>3, <1>4, <1>5, NavigateStep

(* Who signs in stays on the login page only if the returnUrl is closed to
   the role. *)
LEMMA LoginLeads ==
    ASSUME DashboardInv, NEW i \in DOMAIN inflight, inflight[i].op = "login",
           UNCHANGED <<server, failed>>, session' = inflight[i].value,
           Navigate(inflight[i].value, screen.id, screen.sel, RemoveAt(inflight, i))
    PROVE  DashboardInv'
<1>1. PICK s : s = inflight[i].value
  OBVIOUS
<1>2. s \in Sessions
  BY <1>1 DEF DashboardInv, RequestsAreWell, Underway, ToSet, WellFormed
<1>3. DOMAIN s = SessionFields /\ s.user \in Roles /\ s.token = "valid"
  BY <1>2 DEF Sessions, SessionFields
<1>4. PICK p, id : p = screen.id /\ id = screen.sel
  OBVIOUS
<1>5. ASSUME Destination(s, p) \in {"nowhere", screen.page}, NEW f \in screen.busy,
             f.op = "login"
      PROVE  Excused'
  <2>1. screen.page = "login"
    BY <1>5 DEF DashboardInv, ScreenIsWell, FlagIsWell
  <2>2. Destination(s, p) = "nowhere"
    BY <1>3, <1>5, <2>1
    DEF Destination, RoleGuard, StaffPages, ManagerPages, AdminPages
  <2>3. ~RoleGuard(s, p)
    BY <1>3, <2>2 DEF Destination, TenantActiveGuard, RoleGuard, StaffPages, ManagerPages,
                      AdminPages
  <2>4. ~RoleGuard([s EXCEPT !.user = s.user], p)
    BY <1>3, <2>3 DEF SessionFields, RoleGuard, HasRole
  <2>5. screen'.page = screen.page /\ screen'.id = screen.id
    BY <1>1, <1>4, <2>2 DEF Navigate
  <2>6. session' = s /\ \E role \in Roles : ~RoleGuard([s EXCEPT !.user = role], p)
    BY <1>1, <1>3, <2>4
  <2> QED BY <1>4, <2>1, <2>5, <2>6 DEF Excused
<1>6. Navigate(s, p, id, RemoveAt(inflight, i)) /\ session' = s
  BY <1>1, <1>4
<1> QED BY <1>3, <1>5, <1>6, LeadStep

LEMMA AnswerLeadsStep ==
    ASSUME DashboardInv, NEW i \in DOMAIN inflight, AnswerLeads(i)
    PROVE  DashboardInv'
<1>1. PICK r, rest : r = inflight[i] /\ rest = RemoveAt(inflight, i)
  OBVIOUS
<1>2. UNCHANGED <<server, failed>> /\ r.op \in Leaving
  BY <1>1 DEF AnswerLeads
<1>3. DOMAIN session = SessionFields /\ session.user \in Roles \cup {Nil}
  BY DEF DashboardInv, SessionIsWell
<1>4. \A f \in screen.busy : f.op \notin {"move", "remove"}
                             /\ (f.op = "book" => screen.page = "booking")
  BY DEF DashboardInv, ScreenIsWell, FlagIsWell
<1>5. CASE r.op \in {"book", "remove"}
  <2>1. UNCHANGED session /\ Navigate(session, "calendar", Nil, rest)
    BY <1>1, <1>5 DEF AnswerLeads
  <2>2. ASSUME Destination(session, "calendar") \in {"nowhere", screen.page}
        PROVE  screen.page # "booking"
    <3>1. Destination(session, "calendar") \in {"login", "calendar", "nowhere"}
      BY DEF Destination, TenantActiveGuard
    <3>2. ASSUME screen.page = "booking" PROVE FALSE
      <4>1. session.user # Nil
        BY <3>2 DEF DashboardInv, SessionIsWell
      <4>2. Destination(session, "calendar") = "nowhere"
        BY <2>2, <3>1, <3>2
      <4> QED BY <1>3, <4>1, <4>2, StaffAdmitted DEF StaffPages
    <3> QED BY <3>2
  <2>3. Destination(session, "calendar") \in {"nowhere", screen.page} =>
            \A f \in screen.busy : f.op # r.op
    BY <1>4, <1>5, <2>2
  <2> QED BY <1>1, <1>2, <1>3, <1>5, <2>1, <2>3, LeadStep
<1>6. CASE r.op = "move"
  <2>1. PICK id : UNCHANGED session /\ Navigate(session, "appointment", id, rest)
    BY <1>1, <1>6 DEF AnswerLeads
  <2> QED BY <1>1, <1>2, <1>3, <1>4, <1>6, <2>1, LeadStep
<1>7. CASE r.op \in {"checkout", "portal"}
  <2>1. PICK new : new = Fresh("stripe", Nil) /\ screen' = new /\ inflight' = << >>
                   /\ UNCHANGED session
    BY <1>1, <1>7 DEF AnswerLeads
  <2>2. /\ DOMAIN new = ScreenFields /\ new.page = "stripe"
        /\ DOMAIN new.held = PartsOf("stripe") /\ new.busy = {} /\ ~new.timer
        /\ PartsOf("stripe") \cap Wholes \subseteq new.loading
        /\ \A q \in new.loading : \E j \in DOMAIN Asked("stripe") : q \in Group(Asked("stripe")[j])
    BY <2>1, FreshWaits
  <2>3. DOMAIN Asked("stripe") = {}
    BY AskedParts
  <2>4. new.loading = {}
    BY <2>2, <2>3
  <2>5. inflight' \in Seq(ToSet(inflight')) /\ ToSet(inflight') = {}
    BY <2>1 DEF ToSet
  <2>6. Quiet(ToSet(inflight'))
    BY <2>5 DEF Quiet
  <2> QED BY <1>2, <1>3, <2>1, <2>2, <2>4, <2>5, <2>6, NewPage
<1>8. CASE r.op = "logout"
  <2>1. SignOut(FALSE, rest)
    BY <1>1, <1>8 DEF AnswerLeads
  <2> QED BY <1>1, <1>2, <1>8, <2>1, SignOutStep
<1>9. CASE r.op = "login"
  BY <1>1, <1>2, <1>9, LoginLeads DEF AnswerLeads
<1> QED BY <1>2, <1>5, <1>6, <1>7, <1>8, <1>9 DEF Leaving

(* Links, the address bar, and the first conversation selected. *)
LEMMA OpenStep ==
    ASSUME DashboardInv, Open \/ (Select /\ screen.page = "inbox")
    PROVE  DashboardInv'
<1>1. DOMAIN session = SessionFields
  BY DEF DashboardInv, SessionIsWell
<1>2. UNCHANGED <<session, server, failed>>
  BY DEF Open, Select, Aside
<1>3. inflight \in Seq(ToSet(inflight)) /\ Underway = ToSet(inflight)
  BY DEF DashboardInv, RequestsAreWell, Underway
<1>4. ASSUME NEW p, NEW id, NEW reqs, Navigate(session, p, id, reqs),
             reqs \in Seq(ToSet(reqs)), Underway \subseteq ToSet(reqs),
             \A r \in ToSet(reqs) :
                 r \in Underway \/ (r.op = "load" /\ WellFormed(r) /\ Harmless(r)')
      PROVE  DashboardInv'
  <2>1. /\ \A f \in screen.busy : Waiting(f, ToSet(reqs)) \/ Excused
        /\ \A q \in screen.loading : Arriving(q, ToSet(reqs))
    BY <1>4 DEF DashboardInv, ControlsAreWell, Waiting, Arriving
  <2>2. PICK s : s = session
    OBVIOUS
  <2> QED BY <1>1, <1>2, <1>4, <2>1, <2>2, NavigateStep
<1>5. CASE Open
  <2>1. PICK p, t : Navigate(session, p, t, inflight)
    BY <1>5 DEF Open
  <2> QED BY <1>3, <1>4, <2>1
<1>6. CASE Select /\ screen.page = "inbox"
  <2>1. PICK t, q : /\ q = Request("load", "messages", t, Nil)
                    /\ Navigate(session, "thread", t, Append(inflight, q))
    BY <1>6 DEF Select
  <2>2. /\ Append(inflight, q) \in Seq(ToSet(Append(inflight, q)))
        /\ ToSet(Append(inflight, q)) = Underway \cup {q}
    BY <1>3, AppendedSet
  <2>3. q.op = "load" /\ WellFormed(q) /\ Harmless(q)'
    BY <2>1 DEF Request, WellFormed, Harmless, RequestFields, Hideable
  <2> QED BY <1>4, <2>1, <2>2, <2>3
<1> QED BY <1>5, <1>6

LEMMA InitDashboardInv == DashboardInit => DashboardInv
<1> SUFFICES ASSUME DashboardInit PROVE DashboardInv
  OBVIOUS
<1>0. PICK s \in Sessions, p \in Pages :
          /\ session = s /\ Destination(s, p) = p
          /\ \E id, new : new = Fresh(p, id) /\ screen = new /\ inflight = Constructor(new)
  BY DEF DashboardInit
<1>1. PICK id, new :
          /\ session = s /\ Destination(s, p) = p
          /\ new = Fresh(p, id) /\ screen = new /\ inflight = Constructor(new)
  BY <1>0
<1>2. DOMAIN s = SessionFields /\ s.user \in Roles /\ s.user # Nil
  BY DashboardAssumption DEF Sessions, SessionFields, DashboardAssumption
<1>3. /\ DOMAIN new = ScreenFields /\ new.page = p /\ DOMAIN new.held = PartsOf(p)
      /\ new.busy = {} /\ ~new.timer /\ PartsOf(p) \cap Wholes \subseteq new.loading
      /\ \A q \in new.loading : \E i \in DOMAIN Asked(p) : q \in Group(Asked(p)[i])
  BY <1>1, FreshWaits
<1>4. /\ Constructor(new) \in Seq(ToSet(Constructor(new)))
      /\ \A r \in ToSet(Constructor(new)) : WellFormed(r) /\ r.op = "load" /\ r.state = "sent"
      /\ \A i \in DOMAIN Asked(p) : \A q \in Group(Asked(p)[i]) :
            Arriving(q, ToSet(Constructor(new)))
  BY <1>3, ConstructorAsks
<1>5. p # "login"
  BY DEF Pages, StaffPages, ManagerPages, AdminPages
<1>6. DOMAIN server = {"rows", "whole", "sent", "visits", "sub"}
      /\ server.whole = [w \in Wholes |-> "own"]
  BY DEF DashboardInit
<1>7. RequestsAreWell
  BY <1>1, <1>4 DEF RequestsAreWell, Underway, Harmless
<1>8. ScreenIsWell
  BY <1>1, <1>3, <1>5 DEF ScreenIsWell
<1>9. SessionIsWell
  BY <1>1, <1>2 DEF SessionIsWell
<1>10. ServerIsWell
  BY <1>6 DEF ServerIsWell
<1>11. FormsAreWell
  BY <1>1, <1>3 DEF FormsAreWell
<1>12. ControlsAreWell
  BY <1>1, <1>3, <1>4 DEF ControlsAreWell, Underway
<1> QED BY <1>7, <1>8, <1>9, <1>10, <1>11, <1>12 DEF DashboardInv

LEMMA StepDashboardInv ==
    DashboardInv /\ [DashboardNext]_dashboardVars => DashboardInv'
<1> SUFFICES ASSUME DashboardInv, [DashboardNext]_dashboardVars PROVE DashboardInv'
  OBVIOUS
<1>1. CASE User
  <2>1. CASE \/ ServicesListPage \/ ServiceCategoriesPage \/ HolidaysPage
             \/ EmployeesListPage \/ AdminPlansPage \/ EmployeeTimeOff \/ Invitations
    BY <2>1, RowPagesStep
  <2>2. CASE SalonProfilePage \/ BusinessHoursPage \/ EmployeeForms \/ SettingsForms
    BY <2>2, FormPagesStep
  <2>3. CASE CustomersListPage
    BY <2>3, CustomersStep
  <2>4. CASE SearchFires
    BY <2>4, SearchFiresStep
  <2>5. CASE AdminTenantsPage
    BY <2>5, AdminTenantsStep
  <2>6. CASE \/ SendTestMessage \/ SelectPlan \/ OpenCustomerPortal \/ CancelSubscription
             \/ ReactivateSubscription
    BY <2>6, BillingStep
  <2>7. CASE WhatsAppConnection
    BY <2>7, WhatsAppConnectionStep
  <2>8. CASE Select \/ Open
    BY <2>8, OpenStep, ViewStep
  <2>9. CASE SetStatusFilter \/ ShowDays
    BY <2>9, ViewStep
  <2>10. CASE SendMessage \/ UpdateStatus \/ Assign
    BY <2>10, ThreadStep
  <2>11. CASE OnDrop \/ Logout
    BY <2>11, OnDropStep
  <2>12. CASE AppointmentDetailPage
    BY <2>12, AppointmentStep
  <2>13. CASE FindCustomer \/ SelectCustomer \/ SubmitBooking
    BY <2>13, BookingPageStep
  <2>14. CASE LoginPage
    BY <2>14, LoginStep
  <2> QED
    BY <1>1, <2>1, <2>2, <2>3, <2>4, <2>5, <2>6, <2>7, <2>8, <2>9, <2>10, <2>11, <2>12, <2>13,
       <2>14 DEF User
<1>2. CASE \E i \in DOMAIN inflight :
               Serve(i) \/ AnswerArrives(i) \/ AnswerLeads(i) \/ Refused(i) \/ Lost(i) \/ Expired(i)
  BY <1>2, ServeStep, AnswerArrivesStep, AnswerLeadsStep, NetworkStep
<1>3. CASE UNCHANGED dashboardVars
  BY <1>3 DEF dashboardVars, DashboardInv, RequestsAreWell, ScreenIsWell, SessionIsWell,
       ServerIsWell, FormsAreWell, ControlsAreWell, Underway, Harmless, Unread, FlagIsWell,
       Excused
<1> QED BY <1>1, <1>2, <1>3 DEF DashboardNext

LEMMA DashboardInvariance == DashboardSpec => []DashboardInv
BY InitDashboardInv, StepDashboardInv, PTL DEF DashboardSpec

(* For every set of roles, rows and days, and any number of clicks, lost    *)
(* answers and expired tokens: a button that is disabled and a part that    *)
(* shows it is loading have a request under way that will free them, but    *)
(* for the tenant whose suspension failed and the login with a closed       *)
(* returnUrl.                                                               *)
THEOREM ControlsFreed == DashboardSpec => []ControlsAreFreed
<1>1. DashboardInv => ControlsAreFreed
  <2> SUFFICES ASSUME DashboardInv PROVE ControlsAreFreed
    OBVIOUS
  <2>1. /\ \A f \in screen.busy : Waiting(f, Underway) \/ Excused
        /\ \A q \in screen.loading : Arriving(q, Underway)
    BY DEF DashboardInv, ControlsAreWell
  <2>2. Underway = {inflight[i] : i \in DOMAIN inflight}
    BY DEF Underway, ToSet
  <2> QED BY <2>1, <2>2 DEF ControlsAreFreed, Waiting, Arriving, Excused
<1> QED BY <1>1, DashboardInvariance, PTL

(* A form nobody read is stored only where the page shows it after its load *)
(* failed: the business hours and the behaviour of the assistant.           *)
THEOREM UnreadFormsKept == DashboardSpec => []UnreadFormsAreKept
<1>1. DashboardInv => UnreadFormsAreKept
  BY DEF DashboardInv, ServerIsWell, Unread, UnreadFormsAreKept
<1> QED BY <1>1, DashboardInvariance, PTL
-----------------------------------------------------------------------------
(* What the screen is going to show, for a screen scr, the requests s under *)
(* way and what the backend stores, srv: the state as parameters, so that   *)
(* the lemmas compose.                                                      *)

(* A request that the page made about part q, one that loads it, and one   *)
(* whose answer is about to change it.                                     *)
Concerns(r, q) == r.here /\ q \in Group(r.part)
Asks(r, q) == Concerns(r, q) /\ r.op = "load"
Counts(r, q) == Concerns(r, q) /\ r.state = "done"

(* Part q, shown as view, once the answer of r is in.                      *)
Effect(q, view, r) ==
    CASE r.op = "load" -> r.reply[q]
      [] r.op = "create" -> [view EXCEPT ![r.arg] = "on"]
      [] r.op \in {"edit", "set", "assign"} -> Replaced(view, r.arg, r.reply)
      [] r.op = "delete" -> [view EXCEPT ![r.arg] = "none"]
      [] r.op = "send" -> [view EXCEPT ![r.arg] = @ + 1]
      [] r.op = "drop" -> [view EXCEPT ![r.arg] = NoVisit, ![r.reply] = Live(r.value)]
      [] r.op \in {"cancel", "changePlan", "cancelPlan", "resume"} -> r.reply
      [] OTHER -> view

After(q, view, r) == IF Counts(r, q) THEN Effect(q, view, r) ELSE view

(* What part q shows as the answers arrive in the order of the requests.   *)
Views(q, v, held, s) == v[0] = held /\ \A k \in 1..Len(s) : v[k] = After(q, v[k - 1], s[k])

(* The parts that have something to agree with.                            *)
Followed(scr) == DOMAIN scr.held \ (IF scr.page = "inbox" THEN {"messages"} ELSE {})

(* The visit of the page was removed, and the page is about to be left.    *)
Removing(s) ==
    \E k \in DOMAIN s : s[k].here /\ s[k].op = "remove" /\ s[k].state = "done"

(* A view of q that agrees with what is stored.                            *)
Fits(q, view, scr, srv, gone) ==
    /\ q \in Lists =>
           /\ DOMAIN view = Things
           /\ \A t \in Things :
                 IF view[t] = "none" THEN ~Matches(q, scr.filter, srv.rows[q][t], t)
                 ELSE view[t] = srv.rows[q][t]
    /\ q = "candidates" => \A t \in Things : view[t] # "none" => scr.filter = t
    /\ q = "visits" =>
           /\ DOMAIN view = Things
           /\ \A t \in Things :
                 /\ view[t].status = "live" => view[t] = srv.visits[t]
                 /\ srv.visits[t].status = "live" /\ srv.visits[t].day \in scr.filter =>
                        view[t] = srv.visits[t]
    /\ q = "visit" =>
           view = srv.visits[scr.id] \/ srv.visits[scr.id].status = "moved" \/ gone
    /\ q \in Wholes => view = srv.whole[q]
    /\ q = "messages" => view = [t \in Things |-> IF t = scr.sel THEN srv.sent[t] ELSE 0]
    /\ q = "subscription" => view = srv.sub
    /\ q \in Reports => view = "shown"

(* A request after which q has to be loaded: a write that an earlier page   *)
(* sent, a load for what the page no longer shows, a message to another    *)
(* conversation.                                                           *)
Stale(r, q, scr) ==
    \/ ~r.here /\ r.state = "sent" /\ q # "candidates" /\ Subject(q) \in Touches(r)
    \/ Asks(r, q) /\ ~scr.timer /\ r.arg # Criterion(scr, q)
    \/ q = "messages" /\ r.here /\ r.op = "send" /\ r.arg # scr.sel

Superseded(q, s, scr) ==
    \A j \in DOMAIN s : Stale(s[j], q, scr) =>
        \E k \in DOMAIN s : /\ j < k /\ Asks(s[k], q)
                            /\ (s[j].state = "sent" => s[k].state = "sent")

(* A form is loaded once, and saved as it was loaded.                      *)
FormIsKept(q, s, scr, srv) ==
    /\ \A j, k \in DOMAIN s : (Asks(s[j], q) /\ Asks(s[k], q) => j = k)
    /\ \A k \in DOMAIN s : Asks(s[k], q) => q \in scr.loading
    /\ \A k \in DOMAIN s : Concerns(s[k], q) /\ s[k].op = "save" =>
           /\ s[k].value = srv.whole[q]
           /\ \A j \in DOMAIN s : ~Asks(s[j], q)

Waits(q, s) == \E k \in DOMAIN s : Asks(s[k], q) /\ s[k].state = "sent"

(* Part q is going to be loaded, or to show what is stored.                *)
Comes(q, s, scr, srv) ==
    \/ scr.timer \/ Waits(q, s)
    \/ \E v : Views(q, v, scr.held[q], s) /\ Fits(q, v[Len(s)], scr, srv, Removing(s))

Promised(q, s, scr, srv) ==
    /\ Superseded(q, s, scr)
    /\ q \in Wholes => FormIsKept(q, s, scr, srv)
    /\ Comes(q, s, scr, srv)

(* The requests of a page are its own.                                     *)
Placed(r, scr) ==
    /\ r.part = "visit" => scr.page = "appointment" /\ r.arg = scr.id
    /\ r.part = "visits" => scr.page = IF r.op = "book" THEN "booking" ELSE "calendar"
    /\ r.part = "customers" => scr.page = "customers"
    /\ r.part = "candidates" => scr.page = "booking" /\ r.arg \in Things
    /\ r.op \in {"create", "edit", "set", "assign", "delete", "send", "drop"} => r.arg \in Things
    /\ r.op = "drop" /\ r.state = "done" => r.reply \in Things
    /\ r.op = "set" /\ r.part = "threads" => r.value \in {"OPEN", "RESOLVED"}

InOrder(s) ==
    \A j, k \in DOMAIN s :
        j < k /\ s[j].state = "sent" /\ s[k].state = "done" /\ s[k].here => ~Overlap(s[j], s[k])

Right(s, scr, srv) ==
    /\ \A k \in DOMAIN s : s[k].here => Placed(s[k], scr)
    /\ InOrder(s)
    /\ \A q \in Followed(scr) : Promised(q, s, scr, srv)

HasShape(srv) ==
    /\ DOMAIN srv = {"rows", "whole", "sent", "visits", "sub"}
    /\ DOMAIN srv.rows = Lists /\ \A l \in Lists : DOMAIN srv.rows[l] = Things
    /\ DOMAIN srv.whole = Wholes
    /\ DOMAIN srv.sent = Things /\ DOMAIN srv.visits = Things
    /\ \A t \in Things : DOMAIN srv.visits[t] = {"day", "status"}

Truth(s, scr, srv) ==
    /\ HasShape(srv)
    /\ scr.page = "booking" /\ scr.timer => scr.filter \in Things
    /\ ~scr.hitch => Right(s, scr, srv)

TruthInv == Truth(inflight, screen, server)

(* Views of a part exist, and are unique as far as they count.             *)
LEMMA ViewsExist ==
    ASSUME NEW q, NEW held, NEW s, s \in Seq(ToSet(s))
    PROVE  \E v : Views(q, v, held, s)
<1> DEFINE UpTo(v, n) == v[0] = held /\ \A k \in 1..n : v[k] = After(q, v[k - 1], s[k])
           Missing == {m \in Nat : ~\E v : UpTo(v, m)}
<1>1. ASSUME Missing # {} PROVE FALSE
  <2>1. PICK m \in Missing : \A k \in Missing : m <= k
    <3>1. PICK T : T = Missing
      OBVIOUS
    <3>2. T \subseteq Nat /\ T # {}
      BY <1>1, <3>1
    <3>3. \E x \in T : \A y \in T : x <= y
      <4> HIDE DEF Missing
      <4> QED BY <3>2, Smallest
    <3> QED BY <3>1, <3>3
  <2>2. m # 0
    <3>1. PICK w : w = [k \in 0..0 |-> held]
      OBVIOUS
    <3>2. UpTo(w, 0)
      BY <3>1
    <3> QED BY <3>2
  <2>3. m \in Nat /\ m - 1 \in Nat /\ ~(m <= m - 1)
    BY <2>2
  <2>4. PICK v : UpTo(v, m - 1)
    BY <2>1, <2>3
  <2>5. PICK w : w = [k \in 0..m |-> IF k = m THEN After(q, v[m - 1], s[m]) ELSE v[k]]
    OBVIOUS
  <2>6. ASSUME NEW k \in 1..m PROVE w[k] = After(q, w[k - 1], s[k])
    <3>1. k - 1 \in 0..m /\ k - 1 # m /\ k \in 0..m
      BY <2>3
    <3>2. w[k - 1] = v[k - 1]
      BY <2>5, <3>1
    <3>3. CASE k = m
      BY <2>5, <3>1, <3>2, <3>3
    <3>4. CASE k # m
      <4>1. k \in 1..(m - 1)
        BY <2>3, <3>4
      <4> QED BY <2>4, <2>5, <3>1, <3>2, <3>4, <4>1
    <3> QED BY <3>3, <3>4
  <2>7. w[0] = held
    <3>1. 0 \in 0..m /\ 0 # m
      BY <2>2, <2>3
    <3> QED BY <2>4, <2>5, <3>1
  <2> QED BY <2>1, <2>6, <2>7
<1>2. Len(s) \in Nat
  BY ListOf
<1>3. \E v : UpTo(v, Len(s))
  BY <1>1, <1>2
<1> QED BY <1>3 DEF Views

(* Nothing changes between two requests that count.                        *)
Idle(q, r) == \A view : After(q, view, r) = view

LEMMA Steady ==
    ASSUME NEW q, NEW v, NEW held, NEW s, Views(q, v, held, s), Len(s) \in Nat,
           NEW a \in 0..Len(s), NEW b \in 0..Len(s), a <= b,
           \A k \in 1..Len(s) : a < k /\ k <= b => Idle(q, s[k])
    PROVE  v[b] = v[a]
<1> DEFINE Wrong == {k \in 0..Len(s) : a <= k /\ k <= b /\ v[k] # v[a]}
<1>1. ASSUME Wrong # {} PROVE FALSE
  <2>1. PICK k \in Wrong : \A j \in Wrong : k <= j
    <3>1. PICK T : T = Wrong
      OBVIOUS
    <3>2. T \subseteq Nat /\ T # {}
      <4>1. T \subseteq 0..Len(s)
        BY <3>1
      <4> QED BY <1>1, <3>1, <4>1
    <3>3. \E x \in T : \A y \in T : x <= y
      <4> HIDE DEF Wrong
      <4> QED BY <3>2, Smallest
    <3> QED BY <3>1, <3>3
  <2>2. k \in 0..Len(s) /\ a <= k /\ k <= b /\ v[k] # v[a]
    BY <2>1
  <2>3. k # a
    BY <2>2
  <2>4. k - 1 \in 0..Len(s) /\ a <= k - 1 /\ k - 1 <= b /\ ~(k <= k - 1) /\ k \in 1..Len(s) /\ a < k
    BY <2>2, <2>3
  <2>5. v[k - 1] = v[a]
    BY <2>1, <2>4
  <2>6. v[k] = After(q, v[k - 1], s[k])
    BY <2>2, <2>4 DEF Views
  <2>7. After(q, v[k - 1], s[k]) = v[k - 1]
    BY <2>2, <2>4 DEF Idle
  <2> QED BY <2>2, <2>5, <2>6, <2>7
<1> QED BY <1>1

(* A request ends that does not change the part.                           *)
LEMMA ViewsWithout ==
    ASSUME NEW q, NEW v, NEW held, NEW s, s \in Seq(ToSet(s)), Views(q, v, held, s),
           NEW i \in DOMAIN s, \A view : After(q, view, s[i]) = view,
           NEW t, t = RemoveAt(s, i)
    PROVE  \E w : Views(q, w, held, t) /\ w[Len(t)] = v[Len(s)]
<1>1. /\ Len(t) = Len(s) - 1 /\ DOMAIN s = 1..Len(s) /\ Len(s) \in Nat
      /\ \A k \in 1..(Len(s) - 1) : t[k] = IF k < i THEN s[k] ELSE s[k + 1]
  BY Removed, ListOf
<1>2. PICK w : w = [k \in 0..Len(t) |-> IF k < i THEN v[k] ELSE v[k + 1]]
  OBVIOUS
<1>3. i \in 1..Len(s) /\ v[i] = v[i - 1]
  BY <1>1 DEF Views
<1>4. ASSUME NEW k \in 1..Len(t) PROVE w[k] = After(q, w[k - 1], t[k])
  <2>1. k \in 0..Len(t) /\ k - 1 \in 0..Len(t) /\ k \in 1..Len(s) /\ k + 1 \in 1..Len(s) /\ (k + 1) - 1 = k
        /\ (k - 1) + 1 = k
    BY <1>1
  <2>2. CASE k < i
    <3>1. k - 1 < i
      BY <1>1, <1>3, <2>2
    <3> QED BY <1>1, <1>2, <2>1, <2>2, <3>1 DEF Views
  <2>3. CASE ~(k < i)
    <3>1. w[k - 1] = v[k]
      <4>1. CASE k = i
        <5>1. k - 1 < i
          BY <1>3, <4>1
        <5> QED BY <1>2, <1>3, <2>1, <4>1, <5>1
      <4>2. CASE k # i
        <5>1. ~(k - 1 < i)
          BY <1>1, <1>3, <2>3, <4>2
        <5> QED BY <1>2, <2>1, <5>1
      <4> QED BY <4>1, <4>2
    <3>2. w[k] = v[k + 1] /\ t[k] = s[k + 1]
      BY <1>1, <1>2, <2>1, <2>3
    <3> QED BY <2>1, <3>1, <3>2 DEF Views
  <2> QED BY <2>2, <2>3
<1>5. w[0] = held
  BY <1>1, <1>2, <1>3 DEF Views
<1>6. w[Len(t)] = v[Len(s)]
  <2>1. Len(t) \in 0..Len(t) /\ Len(t) + 1 = Len(s)
    BY <1>1, <1>3
  <2>2. CASE Len(t) < i
    <3>1. i = Len(s) /\ Len(t) = i - 1
      BY <1>1, <1>3, <2>2
    <3> QED BY <1>2, <1>3, <2>1, <2>2, <3>1
  <2>3. CASE ~(Len(t) < i)
    BY <1>2, <2>1, <2>3
  <2> QED BY <2>2, <2>3
<1> QED BY <1>4, <1>5, <1>6 DEF Views

(* The first request that changes the part is answered.                    *)
LEMMA ViewsAnswered ==
    ASSUME NEW q, NEW v, NEW held, NEW s, s \in Seq(ToSet(s)), Views(q, v, held, s),
           NEW i \in DOMAIN s, \A k \in DOMAIN s : k < i => ~Counts(s[k], q),
           NEW t, t = RemoveAt(s, i)
    PROVE  \E w : Views(q, w, After(q, held, s[i]), t) /\ w[Len(t)] = v[Len(s)]
<1>1. /\ Len(t) = Len(s) - 1 /\ DOMAIN s = 1..Len(s) /\ Len(s) \in Nat
      /\ \A k \in 1..(Len(s) - 1) : t[k] = IF k < i THEN s[k] ELSE s[k + 1]
  BY Removed, ListOf
<1>2. i \in 1..Len(s) /\ i - 1 \in 0..Len(s) /\ 0 \in 0..Len(s) /\ i \in 0..Len(s)
  BY <1>1
<1>3. v[i] = After(q, held, s[i])
  <2>1. v[i - 1] = v[0]
    <3>1. PICK a, b : a = 0 /\ b = i - 1
      OBVIOUS
    <3>2. a \in 0..Len(s) /\ b \in 0..Len(s) /\ a <= b
      BY <1>2, <3>1
    <3>3. ASSUME NEW k \in 1..Len(s), a < k, k <= b PROVE Idle(q, s[k])
      <4>1. k \in DOMAIN s /\ k < i
        BY <1>1, <1>2, <3>1, <3>3
      <4> QED BY <4>1 DEF After, Idle
    <3>4. v[b] = v[a]
      BY <1>1, <3>2, <3>3, Steady
    <3> QED BY <3>1, <3>4
  <2> QED BY <1>2, <2>1 DEF Views
<1>4. PICK w : w = [k \in 0..Len(t) |-> IF k < i THEN v[i] ELSE v[k + 1]]
  OBVIOUS
<1>5. ASSUME NEW k \in 1..Len(t) PROVE w[k] = After(q, w[k - 1], t[k])
  <2>1. k \in 0..Len(t) /\ k - 1 \in 0..Len(t) /\ k \in 1..Len(s) /\ k + 1 \in 1..Len(s) /\ (k + 1) - 1 = k
        /\ (k - 1) + 1 = k
    BY <1>1
  <2>2. CASE k < i
    <3>1. k - 1 < i
      BY <1>1, <1>2, <2>2
    <3>2. w[k] = v[i] /\ w[k - 1] = v[i] /\ t[k] = s[k]
      BY <1>1, <1>4, <2>1, <2>2, <3>1
    <3>3. ~Counts(s[k], q)
      BY <1>1, <2>1, <2>2
    <3> QED BY <3>2, <3>3 DEF After
  <2>3. CASE ~(k < i)
    <3>1. w[k - 1] = v[k]
      <4>1. CASE k = i
        <5>1. k - 1 < i
          BY <1>2, <4>1
        <5> QED BY <1>4, <2>1, <4>1, <5>1
      <4>2. CASE k # i
        <5>1. ~(k - 1 < i)
          BY <1>1, <1>2, <2>3, <4>2
        <5> QED BY <1>4, <2>1, <5>1
      <4> QED BY <4>1, <4>2
    <3>2. w[k] = v[k + 1] /\ t[k] = s[k + 1]
      BY <1>1, <1>4, <2>1, <2>3
    <3> QED BY <2>1, <3>1, <3>2 DEF Views
  <2> QED BY <2>2, <2>3
<1>6. w[0] = v[i]
  BY <1>1, <1>2, <1>4
<1>7. w[Len(t)] = v[Len(s)]
  <2>1. Len(t) \in 0..Len(t) /\ Len(t) + 1 = Len(s)
    BY <1>1, <1>2
  <2>2. CASE Len(t) < i
    <3>1. i = Len(s)
      BY <1>1, <1>2, <2>2
    <3> QED BY <1>4, <2>1, <2>2, <3>1
  <2>3. CASE ~(Len(t) < i)
    BY <1>4, <2>1, <2>3
  <2> QED BY <2>2, <2>3
<1> QED BY <1>3, <1>5, <1>6, <1>7 DEF Views

(* A request is sent.                                                      *)
Posted(s, e) == Append(s, e)

LEMMA ViewsSent ==
    ASSUME NEW q, NEW v, NEW held, NEW s, s \in Seq(ToSet(s)), Views(q, v, held, s),
           NEW e, ~Counts(e, q), NEW t, t = Posted(s, e)
    PROVE  \E w : Views(q, w, held, t) /\ w[Len(t)] = v[Len(s)]
<1>1. /\ Len(t) = Len(s) + 1 /\ Len(s) \in Nat
      /\ \A k \in 1..Len(s) : t[k] = s[k]
      /\ t[Len(s) + 1] = e
  <2>1. s \in Seq(ToSet(s) \cup {e})
    OBVIOUS
  <2> QED BY <2>1, AppendProperties DEF Posted
<1>2. PICK w : w = [k \in 0..Len(t) |-> IF k = Len(t) THEN v[Len(s)] ELSE v[k]]
  OBVIOUS
<1>3. ASSUME NEW k \in 1..Len(t) PROVE w[k] = After(q, w[k - 1], t[k])
  <2>1. k \in 0..Len(t) /\ k - 1 \in 0..Len(t) /\ k - 1 # Len(t)
    BY <1>1
  <2>2. w[k - 1] = v[k - 1]
    BY <1>2, <2>1
  <2>3. CASE k = Len(t)
    <3>1. k - 1 = Len(s)
      BY <1>1, <2>3
    <3> QED BY <1>1, <1>2, <2>1, <2>2, <2>3, <3>1 DEF After
  <2>4. CASE k # Len(t)
    <3>1. k \in 1..Len(s)
      BY <1>1, <2>4
    <3> QED BY <1>1, <1>2, <2>1, <2>2, <2>4, <3>1 DEF Views
  <2> QED BY <2>3, <2>4
<1>4. w[0] = held
  <2>1. 0 \in 0..Len(t) /\ 0 # Len(t)
    BY <1>1
  <2> QED BY <1>2, <2>1 DEF Views
<1>5. w[Len(t)] = v[Len(s)]
  BY <1>1, <1>2
<1> QED BY <1>3, <1>4, <1>5 DEF Views

(* The backend serves the first request that it has not seen.              *)
Noted(s, i, e) == [s EXCEPT ![i] = e]

LEMMA ViewsServed ==
    ASSUME NEW q, NEW v, NEW held, NEW s, s \in Seq(ToSet(s)), Views(q, v, held, s),
           NEW i \in DOMAIN s, \A k \in DOMAIN s : i <= k => ~Counts(s[k], q),
           NEW e, NEW t, t = Noted(s, i, e)
    PROVE  \E w : Views(q, w, held, t) /\ w[Len(t)] = After(q, v[Len(s)], e)
<1>0. t = [s EXCEPT ![i] = e]
  BY DEF Noted
<1>1. DOMAIN s = 1..Len(s) /\ Len(s) \in Nat /\ Len(t) = Len(s)
  BY <1>0, ListOf
<1>2. i \in 1..Len(s) /\ i - 1 \in 0..Len(s) /\ Len(s) \in 0..Len(s)
  BY <1>1
<1>3. v[Len(s)] = v[i - 1]
  <2>1. PICK a : a = i - 1
    OBVIOUS
  <2>2. a \in 0..Len(s) /\ a <= Len(s) /\ \A k \in 1..Len(s) : a < k => i <= k
    BY <1>1, <1>2, <2>1
  <2>3. \A k \in 1..Len(s) : a < k /\ k <= Len(s) => Idle(q, s[k])
    BY <1>1, <2>2 DEF After, Idle
  <2> QED BY <1>1, <1>2, <2>1, <2>2, <2>3, Steady
<1>4. PICK x : x = After(q, v[i - 1], e)
  OBVIOUS
<1>5. PICK w : w = [k \in 0..Len(s) |-> IF k < i THEN v[k] ELSE x]
  OBVIOUS
<1>6. ASSUME NEW k \in 1..Len(s) PROVE w[k] = After(q, w[k - 1], t[k])
  <2>1. k \in 0..Len(s) /\ k - 1 \in 0..Len(s)
    BY <1>1
  <2>2. CASE k < i
    <3>1. k - 1 < i /\ t[k] = s[k]
      BY <1>0, <1>1, <1>2, <2>2
    <3> QED BY <1>5, <2>1, <2>2, <3>1 DEF Views
  <2>3. CASE k = i
    <3>1. k - 1 < i /\ ~(k < i) /\ t[k] = e
      BY <1>0, <1>1, <1>2, <2>3
    <3> QED BY <1>4, <1>5, <2>1, <2>3, <3>1
  <2>4. CASE ~(k < i) /\ k # i
    <3>1. ~(k - 1 < i) /\ t[k] = s[k] /\ i <= k
      BY <1>0, <1>1, <1>2, <2>4
    <3>2. ~Counts(t[k], q)
      BY <1>1, <3>1
    <3> QED BY <1>5, <2>1, <2>4, <3>1, <3>2 DEF After
  <2> QED BY <2>2, <2>3, <2>4
<1>7. w[0] = held
  BY <1>1, <1>2, <1>5 DEF Views
<1>8. w[Len(s)] = x
  BY <1>1, <1>2, <1>5
<1> QED BY <1>1, <1>3, <1>4, <1>6, <1>7, <1>8 DEF Views

(* Where the requests left were, and where they are, once the i-th is gone. *)
Source(k, i) == IF k < i THEN k ELSE k + 1
Place(m, i) == IF m < i THEN m ELSE m - 1

LEMMA Shifted ==
    ASSUME NEW s, s \in Seq(ToSet(s)), NEW i \in DOMAIN s, NEW t, t = RemoveAt(s, i)
    PROVE  /\ \A k \in DOMAIN t : /\ Source(k, i) \in DOMAIN s /\ Source(k, i) # i
                                  /\ t[k] = s[Source(k, i)]
           /\ \A m \in DOMAIN s : m # i => /\ Place(m, i) \in DOMAIN t /\ t[Place(m, i)] = s[m]
                                           /\ Source(Place(m, i), i) = m
           /\ \A j, k \in DOMAIN t : /\ (j < k => Source(j, i) < Source(k, i))
                                     /\ (Source(j, i) = Source(k, i) => j = k)
                                     /\ (Source(j, i) < Source(k, i) => j < k)
<1>1. /\ Len(t) = Len(s) - 1 /\ DOMAIN s = 1..Len(s) /\ Len(s) \in Nat
      /\ \A k \in 1..(Len(s) - 1) : t[k] = IF k < i THEN s[k] ELSE s[k + 1]
  BY Removed, ListOf
<1>2. DOMAIN t = 1..(Len(s) - 1) /\ i \in 1..Len(s)
  <2>1. t \in Seq(ToSet(s))
    BY Removed
  <2>2. DOMAIN t = 1..Len(t)
    BY <2>1
  <2> QED BY <1>1, <2>2
<1>3. ASSUME NEW k \in DOMAIN t
      PROVE  /\ Source(k, i) \in DOMAIN s /\ Source(k, i) # i
             /\ t[k] = s[Source(k, i)]
  <2>1. CASE k < i
    BY <1>1, <1>2, <2>1 DEF Source
  <2>2. CASE ~(k < i)
    BY <1>1, <1>2, <2>2 DEF Source
  <2> QED BY <2>1, <2>2
<1>4. ASSUME NEW m \in DOMAIN s, m # i
      PROVE  /\ Place(m, i) \in DOMAIN t /\ t[Place(m, i)] = s[m]
             /\ Source(Place(m, i), i) = m
  <2>1. CASE m < i
    BY <1>1, <1>2, <2>1 DEF Source, Place
  <2>2. CASE ~(m < i)
    <3>1. m - 1 \in 1..(Len(s) - 1) /\ ~(m - 1 < i) /\ (m - 1) + 1 = m
      BY <1>1, <1>2, <1>4, <2>2
    <3> QED BY <1>1, <1>2, <2>2, <3>1 DEF Source, Place
  <2> QED BY <2>1, <2>2
<1>5. ASSUME NEW j \in DOMAIN t, NEW k \in DOMAIN t
      PROVE  /\ (j < k => Source(j, i) < Source(k, i))
             /\ (Source(j, i) = Source(k, i) => j = k)
             /\ (Source(j, i) < Source(k, i) => j < k)
  BY <1>1, <1>2 DEF Source
<1> QED BY <1>3, <1>4, <1>5

LEMMA Longer ==
    ASSUME NEW s, s \in Seq(ToSet(s)), NEW e, NEW t, t = Append(s, e)
    PROVE  /\ DOMAIN t = DOMAIN s \cup {Len(t)} /\ t[Len(t)] = e /\ Len(t) \notin DOMAIN s
           /\ \A k \in DOMAIN s : t[k] = s[k] /\ k < Len(t) /\ ~(Len(t) < k)
           /\ ~(Len(t) < Len(t))
<1>1. s \in Seq(ToSet(s) \cup {e})
  OBVIOUS
<1>2. /\ Len(t) = Len(s) + 1 /\ Len(s) \in Nat /\ DOMAIN s = 1..Len(s)
      /\ DOMAIN t = 1..Len(t)
      /\ \A k \in 1..Len(s) : t[k] = s[k]
      /\ t[Len(s) + 1] = e
  BY <1>1, AppendProperties
<1> QED BY <1>2

(* Requests about the same part overlap.                                   *)
LEMMA PartShared ==
    ASSUME NEW q, NEW r, q \in Group(r.part)
    PROVE  /\ Subject(q) \in Touches(r)
           /\ \A p : Subject(q) \in Touches(p) => Overlap(p, r) /\ Overlap(r, p)
BY DEF Touches, Overlap

LEMMA StaleShares ==
    ASSUME NEW q, NEW r, NEW scr, Stale(r, q, scr), WellFormed(r)
    PROVE  Subject(q) \in Touches(r) /\ (r.here => Concerns(r, q))
<1>1. CASE ~r.here
  BY <1>1 DEF Stale, Asks, Concerns
<1>2. CASE r.here
  <2>1. CASE Asks(r, q)
    BY <1>2, <2>1, PartShared DEF Asks, Concerns
  <2>2. CASE ~Asks(r, q)
    <3>1. q = "messages" /\ r.op = "send"
      BY <1>2, <2>2 DEF Stale
    <3>2. q \in Group(r.part)
      BY <3>1 DEF WellFormed, Group
    <3> QED BY <1>2, <3>2, PartShared DEF Concerns
  <2> QED BY <2>1, <2>2
<1> QED BY <1>1, <1>2

(* A request ends.                                                         *)
LEMMA SupersededWithout ==
    ASSUME NEW q, NEW scr, NEW s, s \in Seq(ToSet(s)), NEW i \in DOMAIN s,
           NEW t, t = RemoveAt(s, i),
           \A k \in DOMAIN s : WellFormed(s[k]),
           s[i].op = "load" =>
               /\ s[i].state = "done"
               /\ \A k \in DOMAIN s : k < i /\ s[k].here => ~Overlap(s[k], s[i]),
           Superseded(q, s, scr)
    PROVE  Superseded(q, t, scr)
<1> SUFFICES ASSUME NEW j \in DOMAIN t, Stale(t[j], q, scr)
             PROVE  \E k \in DOMAIN t : /\ j < k /\ Asks(t[k], q)
                                        /\ (t[j].state = "sent" => t[k].state = "sent")
  BY DEF Superseded
<1>1. PICK m : m = Source(j, i)
  OBVIOUS
<1>2. m \in DOMAIN s /\ m # i /\ t[j] = s[m]
  BY <1>1, Shifted
<1>3. PICK n \in DOMAIN s : /\ m < n /\ Asks(s[n], q)
                            /\ (s[m].state = "sent" => s[n].state = "sent")
  BY <1>2 DEF Superseded
<1>4. n # i
  <2>1. ASSUME n = i PROVE FALSE
    <3>1. s[i].op = "load" /\ Asks(s[i], q) /\ m < i
      BY <1>3, <2>1 DEF Asks
    <3>2. s[m].state # "sent"
      BY <1>3, <2>1, <3>1
    <3>3. s[m].here /\ Subject(q) \in Touches(s[m])
      BY <1>2, <3>2, StaleShares DEF Stale, Asks, Concerns
    <3>4. Overlap(s[m], s[i])
      BY <3>1, <3>3, PartShared DEF Asks, Concerns
    <3> QED BY <1>2, <3>1, <3>3, <3>4
  <2> QED BY <2>1
<1>5. PICK k : k = Place(n, i)
  OBVIOUS
<1>6. k \in DOMAIN t /\ t[k] = s[n] /\ Source(k, i) = n
  BY <1>4, <1>5, Shifted
<1>7. j < k
  BY <1>1, <1>3, <1>6, Shifted
<1> QED BY <1>2, <1>3, <1>6, <1>7

(* A request is sent.                                                      *)
LEMMA SupersededSent ==
    ASSUME NEW q, NEW scr, NEW s, s \in Seq(ToSet(s)), NEW e, ~Stale(e, q, scr),
           NEW t, t = Append(s, e), Superseded(q, s, scr)
    PROVE  Superseded(q, t, scr)
<1> SUFFICES ASSUME NEW j \in DOMAIN t, Stale(t[j], q, scr)
             PROVE  \E k \in DOMAIN t : /\ j < k /\ Asks(t[k], q)
                                        /\ (t[j].state = "sent" => t[k].state = "sent")
  BY DEF Superseded
<1>1. j \in DOMAIN s /\ t[j] = s[j]
  BY Longer
<1>2. PICK k \in DOMAIN s : /\ j < k /\ Asks(s[k], q)
                            /\ (s[j].state = "sent" => s[k].state = "sent")
  BY <1>1 DEF Superseded
<1>3. k \in DOMAIN t /\ t[k] = s[k]
  BY Longer
<1> QED BY <1>1, <1>2, <1>3

(* A load of what the page shows comes last.                               *)
LEMMA SupersededAsked ==
    ASSUME NEW q, NEW scr, NEW s, s \in Seq(ToSet(s)), NEW e, Asks(e, q),
           e.state = "sent", e.arg = Criterion(scr, q), NEW t, t = Append(s, e)
    PROVE  Superseded(q, t, scr) /\ Waits(q, t)
<1>1. ~Stale(e, q, scr)
  BY DEF Stale, Asks, Concerns
<1>2. Superseded(q, t, scr)
  BY <1>1, Longer DEF Superseded
<1>3. Waits(q, t)
  BY Longer DEF Waits
<1> QED BY <1>2, <1>3

(* The backend serves a request before none that it overlaps.              *)
LEMMA SupersededServed ==
    ASSUME NEW q, NEW scr, NEW s, s \in Seq(ToSet(s)), NEW i \in DOMAIN s,
           NEW e, e.op = s[i].op, e.part = s[i].part, e.arg = s[i].arg, e.here = s[i].here,
           e.state = "done", s[i].state = "sent",
           NEW t, t = [s EXCEPT ![i] = e],
           \A k \in DOMAIN s : WellFormed(s[k]),
           \A k \in DOMAIN s : k < i /\ s[k].state = "sent" => ~Overlap(s[k], s[i]),
           Superseded(q, s, scr)
    PROVE  /\ Superseded(q, t, scr)
           /\ Stale(s[i], q, scr) => Waits(q, t)
<1>0. DOMAIN t = DOMAIN s /\ t[i] = e /\ \A k \in DOMAIN s : k # i => t[k] = s[k]
  OBVIOUS
<1>1. Asks(e, q) <=> Asks(s[i], q)
  BY DEF Asks, Concerns
<1>2. Stale(e, q, scr) => Stale(s[i], q, scr)
  BY <1>1 DEF Stale
<1>3. ASSUME NEW j \in DOMAIN s, Stale(s[j], q, scr), j = i
      PROVE  \E k \in DOMAIN t : j < k /\ Asks(t[k], q) /\ t[k].state = "sent"
  <2>1. PICK k \in DOMAIN s : /\ j < k /\ Asks(s[k], q)
                              /\ (s[j].state = "sent" => s[k].state = "sent")
    BY <1>3 DEF Superseded
  <2>2. j \in Nat /\ k # j
    <3>1. DOMAIN s = 1..Len(s) /\ Len(s) \in Nat
      BY ListOf
    <3> QED BY <2>1, <3>1
  <2> QED BY <1>0, <1>3, <2>1, <2>2
<1>4. ASSUME NEW j \in DOMAIN t, Stale(t[j], q, scr), j # i
      PROVE  \E k \in DOMAIN t : /\ j < k /\ Asks(t[k], q)
                                 /\ (t[j].state = "sent" => t[k].state = "sent")
  <2>1. t[j] = s[j] /\ j \in DOMAIN s
    BY <1>0, <1>4
  <2>2. PICK k \in DOMAIN s : /\ j < k /\ Asks(s[k], q)
                              /\ (s[j].state = "sent" => s[k].state = "sent")
    BY <1>4, <2>1 DEF Superseded
  <2>3. CASE k # i
    BY <1>0, <2>1, <2>2, <2>3
  <2>4. CASE k = i
    <3>1. Subject(q) \in Touches(s[j])
      BY <1>4, <2>1, StaleShares
    <3>2. Overlap(s[j], s[i])
      BY <2>2, <2>4, <3>1, PartShared DEF Asks, Concerns
    <3>3. s[j].state # "sent"
      BY <2>1, <2>2, <2>4, <3>2
    <3> QED BY <1>0, <1>1, <2>1, <2>2, <2>4, <3>3
  <2> QED BY <2>3, <2>4
<1>5. Superseded(q, t, scr)
  <2> SUFFICES ASSUME NEW j \in DOMAIN t, Stale(t[j], q, scr)
               PROVE  \E k \in DOMAIN t : /\ j < k /\ Asks(t[k], q)
                                          /\ (t[j].state = "sent" => t[k].state = "sent")
    BY DEF Superseded
  <2>1. CASE j = i
    BY <1>0, <1>2, <1>3, <2>1
  <2> QED BY <1>4, <2>1
<1>6. Stale(s[i], q, scr) => Waits(q, t)
  BY <1>3 DEF Waits
<1> QED BY <1>5, <1>6

(* Screens that show part q for the same selection.                        *)
SameSight(q, new, scr) ==
    /\ new.timer = scr.timer /\ new.id = scr.id
    /\ q \in Lists \cup {"candidates", "visits"} => new.filter = scr.filter
    /\ q = "messages" => new.sel = scr.sel

LEMMA SightKept ==
    ASSUME NEW q, NEW new, NEW scr, SameSight(q, new, scr)
    PROVE  /\ Criterion(new, q) = Criterion(scr, q)
           /\ \A r : Stale(r, q, new) <=> Stale(r, q, scr)
           /\ \A s : Superseded(q, s, scr) => Superseded(q, s, new)
           /\ \A view, srv, gone, left :
                 Fits(q, view, scr, srv, gone) /\ (q = "visit" /\ gone => left) =>
                     Fits(q, view, new, srv, left)
<1>1. Criterion(new, q) = Criterion(scr, q)
  BY DEF SameSight, Criterion, Lists
<1>2. \A r : Stale(r, q, new) <=> Stale(r, q, scr)
  BY <1>1 DEF SameSight, Stale
<1>3. \A s : Superseded(q, s, scr) => Superseded(q, s, new)
  BY <1>2 DEF Superseded
<1>4. ASSUME NEW view, NEW srv, NEW gone, NEW left,
             Fits(q, view, scr, srv, gone), q = "visit" /\ gone => left
      PROVE  Fits(q, view, new, srv, left)
  <2>1. q \in Lists \cup {"candidates", "visits"} => new.filter = scr.filter
    BY DEF SameSight
  <2>2. q = "messages" => new.sel = scr.sel
    BY DEF SameSight
  <2>3. new.id = scr.id
    BY DEF SameSight
  <2> QED BY <1>4, <2>1, <2>2, <2>3 DEF Fits
<1> QED BY <1>1, <1>2, <1>3, <1>4

(* The forms.                                                              *)
LEMMA FormWithout ==
    ASSUME NEW q, NEW scr, NEW new, NEW srv, NEW s, s \in Seq(ToSet(s)), NEW i \in DOMAIN s,
           NEW t, t = RemoveAt(s, i), FormIsKept(q, s, scr, srv),
           q \in scr.loading => q \in new.loading \/ Asks(s[i], q)
    PROVE  FormIsKept(q, t, new, srv)
<1>1. \A k \in DOMAIN t : /\ Source(k, i) \in DOMAIN s /\ Source(k, i) # i
                          /\ t[k] = s[Source(k, i)]
  BY Shifted
<1>2. \A j, k \in DOMAIN t : Asks(t[j], q) /\ Asks(t[k], q) => j = k
  <2> SUFFICES ASSUME NEW j \in DOMAIN t, NEW k \in DOMAIN t, Asks(t[j], q), Asks(t[k], q)
               PROVE  j = k
    OBVIOUS
  <2>1. Source(j, i) = Source(k, i)
    BY <1>1 DEF FormIsKept
  <2> QED BY <2>1, Shifted
<1>3. \A k \in DOMAIN t : Asks(t[k], q) => q \in new.loading
  BY <1>1 DEF FormIsKept
<1>4. \A k \in DOMAIN t : Concerns(t[k], q) /\ t[k].op = "save" =>
          /\ t[k].value = srv.whole[q]
          /\ \A j \in DOMAIN t : ~Asks(t[j], q)
  BY <1>1 DEF FormIsKept
<1> QED BY <1>2, <1>3, <1>4 DEF FormIsKept

LEMMA FormSent ==
    ASSUME NEW q, NEW scr, NEW new, NEW srv, NEW s, s \in Seq(ToSet(s)), NEW e,
           NEW t, t = Append(s, e), FormIsKept(q, s, scr, srv),
           q \in scr.loading => q \in new.loading, ~Asks(e, q),
           Concerns(e, q) /\ e.op = "save" =>
               e.value = srv.whole[q] /\ \A k \in DOMAIN s : ~Asks(s[k], q)
    PROVE  FormIsKept(q, t, new, srv)
<1>1. DOMAIN t = DOMAIN s \cup {Len(t)} /\ t[Len(t)] = e /\ \A k \in DOMAIN s : t[k] = s[k]
  BY Longer
<1>2. \A k \in DOMAIN t : Asks(t[k], q) => k \in DOMAIN s /\ Asks(s[k], q)
  BY <1>1
<1>3. \A k \in DOMAIN t : Concerns(t[k], q) /\ t[k].op = "save" =>
          /\ t[k].value = srv.whole[q]
          /\ \A j \in DOMAIN s : ~Asks(s[j], q)
  BY <1>1 DEF FormIsKept
<1> QED BY <1>2, <1>3 DEF FormIsKept

LEMMA FormAsked ==
    ASSUME NEW q, NEW new, NEW srv, NEW s, s \in Seq(ToSet(s)), NEW e,
           NEW t, t = Append(s, e), q \in new.loading, Asks(e, q),
           \A k \in DOMAIN s : ~(Concerns(s[k], q) /\ s[k].op \in {"load", "save"})
    PROVE  FormIsKept(q, t, new, srv)
<1>1. DOMAIN t = DOMAIN s \cup {Len(t)} /\ t[Len(t)] = e /\ \A k \in DOMAIN s : t[k] = s[k]
  BY Longer
<1>2. \A k \in DOMAIN t : Asks(t[k], q) => k = Len(t)
  BY <1>1 DEF Asks
<1>3. \A k \in DOMAIN t : ~(Concerns(t[k], q) /\ t[k].op = "save")
  BY <1>1 DEF Asks
<1> QED BY <1>2, <1>3 DEF FormIsKept

LEMMA FormServed ==
    ASSUME NEW q, NEW scr, NEW new, NEW srv, NEW next, NEW s, NEW i \in DOMAIN s,
           NEW e, e.op = s[i].op, e.part = s[i].part, e.value = s[i].value, e.here = s[i].here,
           NEW t, t = [s EXCEPT ![i] = e], FormIsKept(q, s, scr, srv),
           new.loading = scr.loading,
           (\E k \in DOMAIN s : Concerns(s[k], q) /\ s[k].op = "save") =>
               next.whole[q] = srv.whole[q]
    PROVE  FormIsKept(q, t, new, next)
<1>1. /\ DOMAIN t = DOMAIN s
      /\ \A k \in DOMAIN s : /\ t[k].op = s[k].op /\ t[k].part = s[k].part
                             /\ t[k].value = s[k].value /\ t[k].here = s[k].here
  OBVIOUS
<1>2. \A k \in DOMAIN s : /\ Concerns(t[k], q) <=> Concerns(s[k], q)
                          /\ Asks(t[k], q) <=> Asks(s[k], q)
  BY <1>1 DEF Concerns, Asks
<1> QED BY <1>1, <1>2 DEF FormIsKept

(* What is about to be shown.                                              *)
LEMMA ComesWithout ==
    ASSUME NEW q, NEW scr, NEW new, NEW srv, NEW s, s \in Seq(ToSet(s)), NEW i \in DOMAIN s,
           NEW t, t = RemoveAt(s, i), Comes(q, s, scr, srv), SameSight(q, new, scr),
           ~(Asks(s[i], q) /\ s[i].state = "sent"),
           q = "visit" => ~(s[i].here /\ s[i].op = "remove" /\ s[i].state = "done"),
           \/ new.held[q] = scr.held[q] /\ \A view : After(q, view, s[i]) = view
           \/ /\ new.held[q] = After(q, scr.held[q], s[i])
              /\ \A k \in DOMAIN s : k < i => ~Counts(s[k], q)
    PROVE  Comes(q, t, new, srv)
<1>1. CASE scr.timer
  BY <1>1 DEF Comes, SameSight
<1>2. CASE Waits(q, s)
  <2>1. PICK k \in DOMAIN s : Asks(s[k], q) /\ s[k].state = "sent"
    BY <1>2 DEF Waits
  <2>2. Place(k, i) \in DOMAIN t /\ t[Place(k, i)] = s[k]
    BY <2>1, Shifted
  <2> QED BY <2>1, <2>2 DEF Comes, Waits
<1>3. CASE ~scr.timer /\ ~Waits(q, s)
  <2>1. PICK v : Views(q, v, scr.held[q], s) /\ Fits(q, v[Len(s)], scr, srv, Removing(s))
    BY <1>3 DEF Comes
  <2>2. PICK w : Views(q, w, new.held[q], t) /\ w[Len(t)] = v[Len(s)]
    BY <2>1, ViewsWithout, ViewsAnswered
  <2>3. q = "visit" /\ Removing(s) => Removing(t)
    <3>1. ASSUME q = "visit", NEW k \in DOMAIN s, s[k].here, s[k].op = "remove",
                 s[k].state = "done"
          PROVE  Removing(t)
      <4>1. Place(k, i) \in DOMAIN t /\ t[Place(k, i)] = s[k]
        BY <3>1, Shifted
      <4> QED BY <3>1, <4>1 DEF Removing
    <3> QED BY <3>1 DEF Removing
  <2>4. Fits(q, w[Len(t)], new, srv, Removing(t))
    BY <2>1, <2>2, <2>3, SightKept
  <2> QED BY <2>2, <2>4 DEF Comes
<1> QED BY <1>1, <1>2, <1>3

LEMMA ComesSent ==
    ASSUME NEW q, NEW scr, NEW new, NEW srv, NEW s, s \in Seq(ToSet(s)), NEW e,
           e.state = "sent", NEW t, t = Append(s, e), Comes(q, s, scr, srv),
           SameSight(q, new, scr), new.held[q] = scr.held[q]
    PROVE  Comes(q, t, new, srv)
<1>1. CASE scr.timer
  BY <1>1 DEF Comes, SameSight
<1>2. CASE Waits(q, s)
  BY <1>2, Longer DEF Comes, Waits
<1>3. CASE ~scr.timer /\ ~Waits(q, s)
  <2>1. PICK v : Views(q, v, scr.held[q], s) /\ Fits(q, v[Len(s)], scr, srv, Removing(s))
    BY <1>3 DEF Comes
  <2>2. ~Counts(e, q)
    BY DEF Counts
  <2>3. PICK w : Views(q, w, new.held[q], t) /\ w[Len(t)] = v[Len(s)]
    <3>1. PICK held : held = scr.held[q]
      OBVIOUS
    <3>2. Views(q, v, held, s)
      BY <2>1, <3>1
    <3>3. PICK w : Views(q, w, held, t) /\ w[Len(t)] = v[Len(s)]
      <4>1. t = Posted(s, e)
        BY DEF Posted
      <4> QED BY <2>2, <3>2, <4>1, ViewsSent
    <3>4. held = new.held[q]
      BY <3>1
    <3>5. Views(q, w, new.held[q], t)
      BY <3>3, <3>4
    <3> QED BY <3>3, <3>5
  <2>4. Removing(s) => Removing(t)
    BY Longer DEF Removing
  <2>5. Fits(q, w[Len(t)], new, srv, Removing(t))
    BY <2>1, <2>3, <2>4, SightKept
  <2> QED BY <2>3, <2>5 DEF Comes
<1> QED BY <1>1, <1>2, <1>3

(* A promise is kept when a request ends that leaves no trace, or whose     *)
(* answer is the first to change the part.                                 *)
LEMMA PromisedWithout ==
    ASSUME NEW q, NEW scr, NEW new, NEW srv, NEW s, s \in Seq(ToSet(s)), NEW i \in DOMAIN s,
           NEW t, t = RemoveAt(s, i), Promised(q, s, scr, srv), SameSight(q, new, scr),
           \A k \in DOMAIN s : WellFormed(s[k]),
           s[i].op = "load" =>
               /\ s[i].state = "done"
               /\ \A k \in DOMAIN s : k < i /\ s[k].here => ~Overlap(s[k], s[i]),
           q \in scr.loading => q \in new.loading \/ Asks(s[i], q),
           q = "visit" => ~(s[i].here /\ s[i].op = "remove" /\ s[i].state = "done"),
           \/ new.held[q] = scr.held[q] /\ \A view : After(q, view, s[i]) = view
           \/ /\ new.held[q] = After(q, scr.held[q], s[i])
              /\ \A k \in DOMAIN s : k < i => ~Counts(s[k], q)
    PROVE  Promised(q, t, new, srv)
<1>1. Superseded(q, t, new)
  BY SupersededWithout, SightKept DEF Promised
<1>2. q \in Wholes => FormIsKept(q, t, new, srv)
  BY FormWithout DEF Promised
<1>3. Comes(q, t, new, srv)
  BY ComesWithout DEF Promised, Asks
<1> QED BY <1>1, <1>2, <1>3 DEF Promised

(* And when a request is sent.                                             *)
LEMMA PromisedSent ==
    ASSUME NEW q, NEW scr, NEW new, NEW srv, NEW s, s \in Seq(ToSet(s)), NEW e,
           e.state = "sent", NEW t, t = Append(s, e), Promised(q, s, scr, srv),
           SameSight(q, new, scr), new.held[q] = scr.held[q], ~Stale(e, q, new),
           q \in scr.loading => q \in new.loading,
           q \in Wholes => ~Asks(e, q),
           q \in Wholes /\ Concerns(e, q) /\ e.op = "save" =>
               e.value = srv.whole[q] /\ \A k \in DOMAIN s : ~Asks(s[k], q)
    PROVE  Promised(q, t, new, srv)
<1>1. Superseded(q, t, new)
  BY SupersededSent, SightKept DEF Promised
<1>2. q \in Wholes => FormIsKept(q, t, new, srv)
  BY FormSent DEF Promised
<1>3. Comes(q, t, new, srv)
  BY ComesSent DEF Promised
<1> QED BY <1>1, <1>2, <1>3 DEF Promised

(* A load renews it.                                                       *)
LEMMA PromisedAsked ==
    ASSUME NEW q, NEW new, NEW srv, NEW s, s \in Seq(ToSet(s)), NEW e, Asks(e, q),
           e.state = "sent", e.arg = Criterion(new, q), NEW t, t = Append(s, e),
           q \in Wholes =>
               /\ q \in new.loading
               /\ \A k \in DOMAIN s : ~(Concerns(s[k], q) /\ s[k].op \in {"load", "save"})
    PROVE  Promised(q, t, new, srv)
<1>1. Superseded(q, t, new) /\ Waits(q, t)
  BY SupersededAsked
<1>2. q \in Wholes => FormIsKept(q, t, new, srv)
  BY FormAsked
<1> QED BY <1>1, <1>2 DEF Promised, Comes

(* Nothing but the screen changes.                                         *)
LEMMA PromisedSeen ==
    ASSUME NEW q, NEW scr, NEW new, NEW srv, NEW s, Promised(q, s, scr, srv),
           SameSight(q, new, scr), new.held[q] = scr.held[q],
           q \in scr.loading => q \in new.loading
    PROVE  Promised(q, s, new, srv)
<1>1. Superseded(q, s, new)
  BY SightKept DEF Promised
<1>2. q \in Wholes => FormIsKept(q, s, new, srv)
  BY DEF Promised, FormIsKept
<1>3. Comes(q, s, new, srv)
  BY SightKept DEF Promised, Comes, SameSight
<1> QED BY <1>1, <1>2, <1>3 DEF Promised

-----------------------------------------------------------------------------
(* What a request changes of what is stored. *)

(* What becomes of a row. *)
NewRow(r) ==
    CASE r.op = "create" -> "on"
      [] r.op = "set" -> r.value
      [] r.op = "delete" -> "none"
      [] OTHER -> LET row == server.rows[r.part][r.arg]
                  IN  IF row \in {"ESCALATED", "TAKEN"} THEN r.value ELSE row

LEMMA AppliedFields ==
    ASSUME NEW r, NEW next, next = Applied(r), HasShape(server)
    PROVE  /\ DOMAIN next = DOMAIN server
           /\ r.op \notin {"create", "set", "assign", "delete"} => next.rows = server.rows
           /\ r.op \in {"create", "set", "assign", "delete"} =>
                  next.rows = [server.rows EXCEPT ![r.part] =
                                 [server.rows[r.part] EXCEPT ![r.arg] = NewRow(r)]]
           /\ r.op # "save" => next.whole = server.whole
           /\ r.op = "save" =>
                  next.whole = [server.whole EXCEPT ![r.part] = Kept(r.part, r.value)]
           /\ r.op # "send" => next.sent = server.sent
           /\ r.op = "send" =>
                  next.sent = [server.sent EXCEPT ![r.arg] = server.sent[r.arg] + 1]
           /\ r.op \notin {"move", "drop", "cancel", "remove", "book"} =>
                  next.visits = server.visits
           /\ r.op \notin {"changePlan", "cancelPlan", "resume"} => next.sub = server.sub
<1>1. DOMAIN server = {"rows", "whole", "sent", "visits", "sub"}
      /\ DOMAIN server.rows = Lists
  BY DEF HasShape
<1>2. CASE r.op \in {"create", "set", "assign", "delete"}
  <2>1. PICK rows : rows = [server.rows EXCEPT ![r.part] =
                              [server.rows[r.part] EXCEPT ![r.arg] = NewRow(r)]]
    OBVIOUS
  <2>2. next = [server EXCEPT !.rows = rows]
    <3>1. CASE r.op = "create"
      BY <1>1, <2>1, <3>1 DEF Applied, NewRow
    <3>2. CASE r.op = "set"
      BY <1>1, <2>1, <3>2 DEF Applied, NewRow
    <3>3. CASE r.op = "assign"
      BY <1>1, <2>1, <3>3 DEF Applied, NewRow
    <3>4. CASE r.op = "delete"
      BY <1>1, <2>1, <3>4 DEF Applied, NewRow
    <3> QED BY <1>2, <3>1, <3>2, <3>3, <3>4
  <2> QED BY <1>1, <1>2, <2>1, <2>2
<1>3. CASE r.op = "save"
  <2>1. PICK x : x = [server.whole EXCEPT ![r.part] = Kept(r.part, r.value)]
    OBVIOUS
  <2>2. next = [server EXCEPT !.whole = x]
    BY <1>1, <1>3, <2>1 DEF Applied
  <2> QED BY <1>1, <1>3, <2>1, <2>2
<1>4. CASE r.op = "send"
  <2>1. PICK x : x = [server.sent EXCEPT ![r.arg] = server.sent[r.arg] + 1]
    OBVIOUS
  <2>2. next = [server EXCEPT !.sent = x]
    BY <1>1, <1>4, <2>1 DEF Applied
  <2> QED BY <1>1, <1>4, <2>1, <2>2
<1>5. CASE r.op \in {"move", "drop", "cancel", "remove", "book"}
  <2>1. PICK x : next = [server EXCEPT !.visits = x]
    BY <1>1, <1>5 DEF Applied
  <2> QED BY <1>1, <1>5, <2>1
<1>6. CASE r.op \in {"changePlan", "cancelPlan", "resume"}
  <2>1. PICK x : next = [server EXCEPT !.sub = x]
    BY <1>1, <1>6 DEF Applied
  <2> QED BY <1>1, <1>6, <2>1
<1>7. CASE r.op \notin {"create", "set", "assign", "delete", "save", "send", "move", "drop",
                        "cancel", "remove", "book", "changePlan", "cancelPlan", "resume"}
  BY <1>7 DEF Applied
<1> QED BY <1>2, <1>3, <1>4, <1>5, <1>6, <1>7

(* A request that writes nothing but a form. *)
LEMMA AppliedKept ==
    ASSUME NEW r, HasShape(server),
           r.op \notin {"create", "set", "assign", "delete", "send", "move", "drop", "cancel",
                        "remove", "book", "changePlan", "cancelPlan", "resume"}
    PROVE  /\ Applied(r).rows = server.rows /\ Applied(r).visits = server.visits
           /\ Applied(r).sent = server.sent /\ Applied(r).sub = server.sub
           /\ r.op # "save" => Applied(r).whole = server.whole
<1>1. DOMAIN server = {"rows", "whole", "sent", "visits", "sub"}
  BY DEF HasShape
<1>2. CASE r.op = "save"
  <2>1. PICK x : x = [server.whole EXCEPT ![r.part] = Kept(r.part, r.value)]
    OBVIOUS
  <2>2. Applied(r) = [server EXCEPT !.whole = x]
    BY <1>1, <1>2, <2>1 DEF Applied
  <2> QED BY <1>1, <1>2, <2>2
<1>3. CASE r.op # "save"
  <2>1. Applied(r) = server
    BY <1>3 DEF Applied
  <2> QED BY <2>1
<1> QED BY <1>2, <1>3

(* The appointment that takes another's place. *)
LEMMA AppliedVisits ==
    ASSUME NEW r, NEW next, next = Applied(r), HasShape(server), Possible(r),
           r.op \in {"move", "drop", "cancel", "remove", "book"}
    PROVE  /\ r.op \in {"move", "drop", "book"} =>
                  NewVisit \in Things /\ server.visits[NewVisit] = NoVisit
                  /\ next.visits[NewVisit] = Live(r.value)
           /\ r.op \in {"move", "drop"} /\ r.arg \in Things =>
                  r.arg # NewVisit /\ next.visits[r.arg].status = "moved"
           /\ DOMAIN next.visits = Things
           /\ \A t \in Things : DOMAIN next.visits[t] = {"day", "status"}
           /\ \A t \in Things : t \notin {r.arg, NewVisit} => next.visits[t] = server.visits[t]
<1>1. /\ DOMAIN server = {"rows", "whole", "sent", "visits", "sub"}
      /\ DOMAIN server.visits = Things
      /\ \A t \in Things : DOMAIN server.visits[t] = {"day", "status"}
  BY DEF HasShape
<1>2. /\ DOMAIN NoVisit = {"day", "status"} /\ NoVisit.status = "none"
      /\ DOMAIN Live(r.value) = {"day", "status"}
  BY DEF NoVisit, Live
<1>3. r.op \in {"move", "drop", "book"} => Unused # {}
  BY DEF Possible
<1>4. PICK new : new = NewVisit
  OBVIOUS
<1>5. r.op \in {"move", "drop", "book"} => new \in Things /\ server.visits[new] = NoVisit
  <2>1. Unused # {} => NewVisit \in Unused
    BY DEF NewVisit
  <2> QED BY <1>3, <1>4, <2>1 DEF Unused
<1>6. CASE r.op \in {"move", "drop"}
  <2>1. server.visits[r.arg].status = "live"
    BY <1>6 DEF Possible
  <2>2. r.arg # new
    BY <1>2, <1>5, <1>6, <2>1
  <2>3. PICK v : v = [server.visits EXCEPT ![r.arg] = [server.visits[r.arg] EXCEPT !.status = "moved"]]
    OBVIOUS
  <2>4. PICK w : w = [v EXCEPT ![new] = Live(r.value)]
    OBVIOUS
  <2>5. next = [server EXCEPT !.visits = w]
    BY <1>1, <1>4, <1>6, <2>3, <2>4 DEF Applied
  <2>6. next.visits = w
    BY <1>1, <2>5
  <2>7. DOMAIN v = Things /\ \A t \in Things : DOMAIN v[t] = {"day", "status"}
    BY <1>1, <2>3
  <2>8. \A t \in Things : t # r.arg => v[t] = server.visits[t]
    BY <1>1, <2>3
  <2>9. r.arg \in Things => v[r.arg].status = "moved"
    BY <1>1, <2>3
  <2>10. DOMAIN w = Things /\ \A t \in Things : t # new => w[t] = v[t]
    BY <2>4, <2>7
  <2>11. w[new] = Live(r.value)
    BY <1>5, <1>6, <2>4, <2>7
  <2> QED BY <1>2, <1>4, <1>5, <1>6, <2>2, <2>6, <2>7, <2>8, <2>9, <2>10, <2>11
<1>7. CASE r.op = "book"
  <2>1. PICK w : w = [server.visits EXCEPT ![new] = Live(r.value)]
    OBVIOUS
  <2>2. next = [server EXCEPT !.visits = w]
    BY <1>1, <1>4, <1>7, <2>1 DEF Applied
  <2>3. next.visits = w
    BY <1>1, <2>2
  <2> QED BY <1>1, <1>2, <1>4, <1>5, <1>7, <2>1, <2>3
<1>8. CASE r.op = "cancel"
  <2>1. PICK w : w = [server.visits EXCEPT ![r.arg] = [server.visits[r.arg] EXCEPT !.status = "over"]]
    OBVIOUS
  <2>2. next = [server EXCEPT !.visits = w]
    BY <1>1, <1>8, <2>1 DEF Applied
  <2>3. next.visits = w
    BY <1>1, <2>2
  <2> QED BY <1>1, <1>8, <2>1, <2>3
<1>9. CASE r.op = "remove"
  <2>1. PICK w : w = [server.visits EXCEPT ![r.arg] = NoVisit]
    OBVIOUS
  <2>2. next = [server EXCEPT !.visits = w]
    BY <1>1, <1>9, <2>1 DEF Applied
  <2>3. next.visits = w
    BY <1>1, <2>2
  <2> QED BY <1>1, <1>2, <1>9, <2>1, <2>3
<1> QED BY <1>6, <1>7, <1>8, <1>9

LEMMA AppliedShape ==
    ASSUME NEW r, NEW next, next = Applied(r), HasShape(server), Possible(r)
    PROVE  HasShape(next)
<1>1. /\ DOMAIN server = {"rows", "whole", "sent", "visits", "sub"}
      /\ DOMAIN server.rows = Lists /\ \A l \in Lists : DOMAIN server.rows[l] = Things
      /\ DOMAIN server.whole = Wholes
      /\ DOMAIN server.sent = Things /\ DOMAIN server.visits = Things
      /\ \A t \in Things : DOMAIN server.visits[t] = {"day", "status"}
  BY DEF HasShape
<1>2. DOMAIN next = DOMAIN server
  BY AppliedFields
<1>3. DOMAIN next.rows = Lists /\ \A l \in Lists : DOMAIN next.rows[l] = Things
  <2>1. CASE r.op \in {"create", "set", "assign", "delete"}
    <3>1. PICK row : row = NewRow(r)
      OBVIOUS
    <3>2. next.rows = [server.rows EXCEPT ![r.part] = [server.rows[r.part] EXCEPT ![r.arg] = row]]
      BY <2>1, <3>1, AppliedFields
    <3> QED BY <1>1, <3>2
  <2>2. CASE r.op \notin {"create", "set", "assign", "delete"}
    <3>1. next.rows = server.rows
      BY <2>2, AppliedFields
    <3> QED BY <1>1, <3>1
  <2> QED BY <2>1, <2>2
<1>4. DOMAIN next.whole = Wholes
  <2>1. CASE r.op = "save"
    <3>1. next.whole = [server.whole EXCEPT ![r.part] = Kept(r.part, r.value)]
      BY <2>1, AppliedFields
    <3> QED BY <1>1, <3>1
  <2> QED BY <1>1, <2>1, AppliedFields
<1>5. DOMAIN next.sent = Things
  <2>1. CASE r.op = "send"
    <3>1. next.sent = [server.sent EXCEPT ![r.arg] = server.sent[r.arg] + 1]
      BY <2>1, AppliedFields
    <3> QED BY <1>1, <3>1
  <2> QED BY <1>1, <2>1, AppliedFields
<1>6. DOMAIN next.visits = Things /\ \A t \in Things : DOMAIN next.visits[t] = {"day", "status"}
  <2>1. CASE r.op \in {"move", "drop", "cancel", "remove", "book"}
    BY <2>1, AppliedVisits
  <2>2. CASE r.op \notin {"move", "drop", "cancel", "remove", "book"}
    <3>1. next.visits = server.visits
      BY <2>2, AppliedFields
    <3> QED BY <1>1, <3>1
  <2> QED BY <2>1, <2>2
<1> QED BY <1>1, <1>2, <1>3, <1>4, <1>5, <1>6 DEF HasShape

(* What a request is not about stays. *)
LEMMA AppliedElsewhere ==
    ASSUME NEW r, NEW next, next = Applied(r), HasShape(server), WellFormed(r),
           NEW q, Subject(q) \notin Touches(r)
    PROVE  /\ q \in Lists => next.rows[q] = server.rows[q]
           /\ q \in {"visits", "visit"} => next.visits = server.visits
           /\ q \in Wholes => next.whole[q] = server.whole[q]
           /\ q = "messages" => next.sent = server.sent
           /\ q = "subscription" => next.sub = server.sub
<1>1. \A p \in Lists \cup Wholes \cup {"messages", "subscription", "visits", "visit"} :
          Group(p) = {p} /\ (p \notin {"visits", "visit"} => Subject(p) = p)
  BY DEF Group, Subject, Lists, Wholes
<1>2. Subject("visits") = "visits" /\ Subject("visit") = "visits"
  BY DEF Subject
<1>3. r.part \in Lists \cup Wholes \cup {"messages", "subscription", "visits", "visit"} =>
          Subject(q) # Subject(r.part)
  BY <1>1 DEF Touches
<1>4. q \in Lists => next.rows[q] = server.rows[q]
  <2> SUFFICES ASSUME q \in Lists PROVE next.rows[q] = server.rows[q]
    OBVIOUS
  <2>1. CASE r.op \in {"create", "set", "assign", "delete"}
    <3>1. r.part \in Lists /\ r.part # q
      BY <1>1, <1>3, <2>1 DEF WellFormed
    <3>2. PICK row : row = [server.rows[r.part] EXCEPT ![r.arg] = NewRow(r)]
      OBVIOUS
    <3>3. next.rows = [server.rows EXCEPT ![r.part] = row]
      BY <2>1, <3>2, AppliedFields
    <3> QED BY <3>1, <3>3
  <2> QED BY <2>1, AppliedFields
<1>5. q \in {"visits", "visit"} => next.visits = server.visits
  <2>1. q \in {"visits", "visit"} => r.op \notin {"move", "drop", "cancel", "remove", "book"}
    BY <1>2, <1>3 DEF WellFormed
  <2> QED BY <2>1, AppliedFields
<1>6. q \in Wholes => next.whole[q] = server.whole[q]
  <2> SUFFICES ASSUME q \in Wholes PROVE next.whole[q] = server.whole[q]
    OBVIOUS
  <2>1. CASE r.op = "save"
    <3>1. r.part \in Wholes /\ r.part # q
      BY <1>1, <1>3, <2>1 DEF WellFormed
    <3>2. PICK x : x = Kept(r.part, r.value)
      OBVIOUS
    <3>3. next.whole = [server.whole EXCEPT ![r.part] = x]
      BY <2>1, <3>2, AppliedFields
    <3> QED BY <3>1, <3>3
  <2> QED BY <2>1, AppliedFields
<1>7. q = "messages" => next.sent = server.sent
  <2>1. q = "messages" => r.op # "send"
    BY <1>1, <1>3 DEF WellFormed
  <2> QED BY <2>1, AppliedFields
<1>8. q = "subscription" => next.sub = server.sub
  <2>1. q = "subscription" => r.op \notin {"changePlan", "cancelPlan", "resume"}
    BY <1>1, <1>3 DEF WellFormed
  <2> QED BY <2>1, AppliedFields
<1> QED BY <1>4, <1>5, <1>6, <1>7, <1>8
-----------------------------------------------------------------------------
(* What the backend does to a part of the page. *)

LEMMA PartsOfPages ==
    /\ PartsOf("appointment") = {"visit"} /\ PartsOf("calendar") = {"visits"}
    /\ PartsOf("customers") = {"customers"} /\ PartsOf("booking") = {"candidates"}
    /\ PartsOf("employee") = {"profile", "workingHours", "timeOff", "assigned"}
    /\ PartsOf("tenantBilling") = {"tenantBilling"}
<1>1. PartsOf("appointment") = {"visit"}
  BY DEF PartsOf, Asked, Group
<1>2. PartsOf("calendar") = {"visits"}
  BY DEF PartsOf, Asked, Group
<1>3. PartsOf("customers") = {"customers"}
  BY DEF PartsOf, Asked, Group
<1>4. PartsOf("booking") = {"candidates"}
  BY DEF PartsOf, Asked, Group
<1>5. PartsOf("employee") = {"profile", "workingHours", "timeOff", "assigned"}
  BY DEF PartsOf, Asked, Group
<1>6. PartsOf("tenantBilling") = {"tenantBilling"}
  BY DEF PartsOf, Asked, Group
<1> QED BY <1>1, <1>2, <1>3, <1>4, <1>5, <1>6

LEMMA GroupOf ==
    ASSUME NEW part, NEW q \in Group(part)
    PROVE  /\ q = part \/ q \in {"profile", "workingHours", "timeOff", "assigned", "settings", "ai"}
           /\ q \in {"visits", "visit", "customers", "candidates", "messages", "subscription"}
                  => q = part
           /\ part \in Lists \cup Wholes => q = part
           /\ \A s : Criterion(s, part) = Criterion(s, q)
BY DEF Group, Criterion, Lists, Wholes

(* A request of the page is about a part of the page if it is about what    *)
(* the backend stores for that part.                                       *)
LEMMA HereConcerns ==
    ASSUME NEW scr, DOMAIN scr.held = PartsOf(scr.page), NEW q \in Followed(scr),
           NEW r, Placed(r, scr), Subject(q) \in Touches(r)
    PROVE  q \in Group(r.part)
<1>1. q \in PartsOf(scr.page)
  BY DEF Followed
<1>2. PICK p \in Group(r.part) : Subject(p) = Subject(q)
  BY DEF Touches
<1>3. p = q \/ {p, q} = {"visit", "visits"} \/ {p, q} = {"customers", "candidates"}
  BY <1>2 DEF Subject
<1>4. CASE {p, q} = {"visit", "visits"} \/ {p, q} = {"customers", "candidates"}
  <2>1. p = r.part /\ p \in {"visit", "visits", "customers", "candidates"}
    BY <1>2, <1>4, GroupOf
  <2>2. CASE p = "visit"
    <3>1. scr.page = "appointment"
      BY <2>1, <2>2 DEF Placed
    <3> QED BY <1>1, <1>2, <1>4, <2>2, <3>1, PartsOfPages
  <2>3. CASE p = "visits"
    <3>1. scr.page \in {"booking", "calendar"}
      BY <2>1, <2>3 DEF Placed
    <3> QED BY <1>1, <1>2, <1>4, <2>3, <3>1, PartsOfPages
  <2>4. CASE p = "customers"
    <3>1. scr.page = "customers"
      BY <2>1, <2>4 DEF Placed
    <3> QED BY <1>1, <1>2, <1>4, <2>4, <3>1, PartsOfPages
  <2>5. CASE p = "candidates"
    <3>1. scr.page = "booking"
      BY <2>1, <2>5 DEF Placed
    <3> QED BY <1>1, <1>2, <1>4, <2>5, <3>1, PartsOfPages
  <2> QED BY <2>1, <2>2, <2>3, <2>4, <2>5
<1> QED BY <1>2, <1>3, <1>4

LEMMA KindsApart ==
    /\ Lists \cap Wholes = {} /\ Lists \cap Reports = {} /\ Wholes \cap Reports = {}
    /\ (Lists \cup Wholes \cup Reports)
           \cap {"messages", "visits", "visit", "candidates", "subscription"} = {}
BY DEF Lists, Wholes, Reports

(* What is not about a part leaves it as true as it was.                   *)
LEMMA FitsElsewhere ==
    ASSUME NEW q, NEW view, NEW scr, NEW srv, NEW next, NEW gone, NEW left,
           Fits(q, view, scr, srv, gone), gone => left,
           q \in Lists => next.rows[q] = srv.rows[q],
           q \in {"visits", "visit"} => next.visits = srv.visits,
           q \in Wholes => next.whole[q] = srv.whole[q],
           q = "messages" => next.sent = srv.sent,
           q = "subscription" => next.sub = srv.sub
    PROVE  Fits(q, view, scr, next, left)
BY DEF Fits

(* The answer to a load is true.                                           *)
LEMMA FitsLoaded ==
    ASSUME NEW q, NEW scr, NEW gone, NEW arg, arg = Criterion(scr, q),
           q = "candidates" => arg \in Things
    PROVE  Fits(q, Stored(q, arg), scr, server, gone)
<1>1. PICK view : view = Stored(q, arg)
  OBVIOUS
<1>2. CASE q \in Lists
  <2>1. view = [t \in Things |-> IF Matches(q, arg, server.rows[q][t], t)
                                 THEN server.rows[q][t] ELSE "none"]
    BY <1>1, <1>2, KindsApart DEF Stored, Filtered
  <2>2. \A row, t : Matches(q, arg, row, t) <=> Matches(q, scr.filter, row, t)
    <3>1. CASE q \in {"customers", "threads"}
      <4>1. arg = scr.filter
        BY <3>1 DEF Criterion
      <4> QED BY <4>1
    <3>2. CASE q \notin {"customers", "threads"}
      <4>1. q # "candidates"
        BY <1>2, KindsApart
      <4> QED BY <3>2, <4>1 DEF Matches
    <3> QED BY <3>1, <3>2
  <2>3. \A t \in Things : IF view[t] = "none" THEN ~Matches(q, scr.filter, server.rows[q][t], t)
                          ELSE view[t] = server.rows[q][t]
    BY <2>1, <2>2 DEF Matches
  <2> QED BY <1>1, <1>2, <2>1, <2>3, KindsApart DEF Fits
<1>3. CASE q = "candidates"
  <2>1. view = [t \in Things |-> IF Matches(q, arg, server.rows["customers"][t], t)
                                 THEN server.rows["customers"][t] ELSE "none"]
    BY <1>1, <1>3, KindsApart DEF Stored, Filtered
  <2>2. arg = scr.filter /\ arg # Nil
    BY <1>3, DashboardAssumption DEF Criterion, DashboardAssumption
  <2>3. \A t \in Things : view[t] # "none" => scr.filter = t
    BY <1>3, <2>1, <2>2 DEF Matches
  <2> QED BY <1>1, <1>3, <2>3, KindsApart DEF Fits
<1>4. CASE q = "visits"
  <2>1. view = [t \in Things |-> IF server.visits[t].day \in scr.filter
                                 THEN server.visits[t] ELSE NoVisit]
    BY <1>1, <1>4, KindsApart DEF Stored, Criterion
  <2>2. NoVisit.status = "none"
    BY DEF NoVisit
  <2>3. \A t \in Things :
            /\ view[t].status = "live" => view[t] = server.visits[t]
            /\ server.visits[t].status = "live" /\ server.visits[t].day \in scr.filter =>
                   view[t] = server.visits[t]
    BY <2>1, <2>2
  <2> QED BY <1>1, <1>4, <2>1, <2>3, KindsApart DEF Fits
<1>5. CASE q = "visit"
  <2>1. view = server.visits[scr.id]
    BY <1>1, <1>5, KindsApart DEF Stored, Criterion
  <2> QED BY <1>1, <1>5, <2>1, KindsApart DEF Fits
<1>6. CASE q \in Wholes
  <2>1. view = server.whole[q]
    BY <1>1, <1>6, KindsApart DEF Stored
  <2> QED BY <1>1, <1>6, <2>1, KindsApart DEF Fits
<1>7. CASE q = "messages"
  <2>1. view = [t \in Things |-> IF t = scr.sel THEN server.sent[t] ELSE 0]
    BY <1>1, <1>7, KindsApart DEF Stored, Criterion
  <2> QED BY <1>1, <1>7, <2>1, KindsApart DEF Fits
<1>8. CASE q = "subscription"
  <2>1. view = server.sub
    BY <1>1, <1>8, KindsApart DEF Stored
  <2> QED BY <1>1, <1>8, <2>1, KindsApart DEF Fits
<1>9. CASE q \in Reports
  <2>1. view = "shown"
    BY <1>1, <1>9, KindsApart DEF Stored
  <2> QED BY <1>1, <1>9, <2>1, KindsApart DEF Fits
<1>10. CASE q \notin Lists \cup Wholes \cup Reports
                     \cup {"messages", "visits", "visit", "candidates", "subscription"}
  BY <1>10 DEF Fits
<1> QED BY <1>2, <1>3, <1>4, <1>5, <1>6, <1>7, <1>8, <1>9, <1>10

(* A change of a row that the page shows, or not, is shown.                *)
LEMMA FitsRow ==
    ASSUME HasShape(server), NEW r, WellFormed(r), Possible(r), NEW scr, Placed(r, scr),
           NEW q \in Group(r.part), r.op \in {"create", "edit", "set", "assign", "delete"},
           NEW next, next = Applied(r), NEW e, e.op = r.op, e.arg = r.arg, e.reply = Reply(r),
           NEW view, NEW gone, NEW left, Fits(q, view, scr, server, gone)
    PROVE  Fits(q, Effect(q, view, e), scr, next, left)
<1>1. r.part = q /\ q \in Lists
  BY GroupOf DEF WellFormed
<1>2. PICK a : a = r.arg
  OBVIOUS
<1>3. a \in Things
  BY <1>2 DEF Placed
<1>4. DOMAIN server.rows = Lists /\ DOMAIN server.rows[q] = Things
  BY <1>1 DEF HasShape
<1>5. PICK old, row : old = server.rows[q][a] /\ row = (IF r.op = "edit" THEN old ELSE NewRow(r))
  OBVIOUS
<1>6. /\ next.rows[q][a] = row
      /\ \A t \in Things \ {a} : next.rows[q][t] = server.rows[q][t]
  <2>1. CASE r.op = "edit"
    <3>1. next.rows = server.rows
      BY <2>1, AppliedFields
    <3> QED BY <1>5, <2>1, <3>1
  <2>2. CASE r.op # "edit"
    <3>1. next.rows = [server.rows EXCEPT ![r.part] = [server.rows[r.part] EXCEPT ![r.arg] = NewRow(r)]]
      BY <2>2, AppliedFields
    <3>2. next.rows[q] = [server.rows[q] EXCEPT ![a] = row]
      BY <1>1, <1>2, <1>4, <1>5, <2>2, <3>1
    <3> QED BY <1>3, <1>4, <3>2
  <2> QED BY <2>1, <2>2
<1>7. /\ r.op = "create" => old = "none" /\ row = "on"
      /\ r.op # "create" => old # "none"
      /\ r.op = "delete" => row = "none"
  BY <1>1, <1>2, <1>5 DEF Possible, NewRow
<1>8. /\ DOMAIN view = Things
      /\ \A t \in Things :
            IF view[t] = "none" THEN ~Matches(q, scr.filter, server.rows[q][t], t)
            ELSE view[t] = server.rows[q][t]
  BY <1>1 DEF Fits
<1>9. r.op \in {"edit", "set", "assign"} => e.reply = row
  <2>1. r.op \in {"edit", "set", "assign"} => e.reply = Applied(r).rows[r.part][r.arg]
    BY DEF Reply
  <2> QED BY <1>1, <1>2, <1>6, <2>1
<1>10. ASSUME r.op \in {"edit", "set", "assign"}, view[a] = "none"
       PROVE  ~Matches(q, scr.filter, row, a)
  <2>1. ~Matches(q, scr.filter, old, a)
    BY <1>3, <1>5, <1>8, <1>10
  <2>2. old # "none"
    BY <1>7, <1>10
  <2>3. CASE q \in {"customers", "candidates"} /\ scr.filter \notin {Nil, a}
    BY <2>3 DEF Matches
  <2>4. CASE q = "threads" /\ scr.filter # Nil /\ old \notin {"ESCALATED", "TAKEN"}
    <3>1. r.op = "set" => row \in {"OPEN", "RESOLVED"}
      BY <1>1, <1>5, <2>4 DEF Placed, NewRow
    <3>2. r.op = "assign" => row = old
      BY <1>1, <1>2, <1>5, <2>4 DEF NewRow
    <3>3. r.op = "edit" => row = old
      BY <1>5
    <3>4. row \notin {"ESCALATED", "TAKEN"}
      BY <1>10, <2>4, <3>1, <3>2, <3>3
    <3> QED BY <2>4, <3>4 DEF Matches
  <2> QED BY <2>1, <2>2, <2>3, <2>4 DEF Matches
<1>11. PICK w : w = Effect(q, view, e)
  OBVIOUS
<1>12. /\ DOMAIN w = Things
       /\ \A t \in Things \ {a} : w[t] = view[t]
       /\ w[a] = IF r.op = "create" THEN "on" ELSE IF r.op = "delete" THEN "none"
                 ELSE IF view[a] = "none" THEN "none" ELSE row
  <2>1. CASE r.op = "create"
    <3>1. w = [view EXCEPT ![a] = "on"]
      BY <1>2, <1>11, <2>1 DEF Effect
    <3> QED BY <1>3, <1>8, <2>1, <3>1
  <2>2. CASE r.op = "delete"
    <3>1. w = [view EXCEPT ![a] = "none"]
      BY <1>2, <1>11, <2>2 DEF Effect
    <3> QED BY <1>3, <1>8, <2>2, <3>1
  <2>3. CASE r.op \in {"edit", "set", "assign"}
    <3>1. w = [view EXCEPT ![a] = IF view[a] = "none" THEN view[a] ELSE row]
      BY <1>2, <1>9, <1>11, <2>3 DEF Effect, Replaced
    <3> QED BY <1>3, <1>8, <2>3, <3>1
  <2> QED BY <2>1, <2>2, <2>3
<1>13. ASSUME NEW t \in Things
       PROVE  IF w[t] = "none" THEN ~Matches(q, scr.filter, next.rows[q][t], t)
              ELSE w[t] = next.rows[q][t]
  <2>1. CASE t # a
    BY <1>6, <1>8, <1>12, <2>1
  <2>2. CASE t = a
    <3>1. ~Matches(q, scr.filter, "none", a)
      BY DEF Matches
    <3>2. CASE r.op = "create"
      BY <1>6, <1>7, <1>12, <2>2, <3>2
    <3>3. CASE r.op = "delete"
      BY <1>6, <1>7, <1>12, <2>2, <3>1, <3>3
    <3>4. CASE r.op \in {"edit", "set", "assign"}
      <4>1. CASE view[a] = "none"
        BY <1>6, <1>10, <1>12, <2>2, <3>4, <4>1
      <4>2. CASE view[a] # "none"
        BY <1>6, <1>12, <2>2, <3>1, <3>4, <4>2
      <4> QED BY <4>1, <4>2
    <3> QED BY <3>2, <3>3, <3>4
  <2> QED BY <2>1, <2>2
<1> QED BY <1>1, <1>11, <1>12, <1>13, KindsApart DEF Fits
(* So is every other change.                                               *)
LEMMA FitsServed ==
    ASSUME HasShape(server), NEW r, WellFormed(r), Possible(r), NEW scr, Placed(r, scr),
           NEW q \in Group(r.part), r.op # "load",
           NEW next, next = Applied(r),
           NEW e, e.op = r.op, e.arg = r.arg, e.value = r.value, e.reply = Reply(r),
           NEW view, NEW gone, NEW left, Fits(q, view, scr, server, gone),
           gone => left, r.op = "remove" => left,
           r.op = "move" => scr.id \in Things,
           r.op = "send" => r.arg = scr.sel, r.op # "book",
           r.op = "save" => r.value = server.whole[q]
    PROVE  Fits(q, Effect(q, view, e), scr, next, left)
<1>0. DOMAIN server = {"rows", "whole", "sent", "visits", "sub"}
      /\ DOMAIN server.visits = Things /\ DOMAIN server.sent = Things
      /\ DOMAIN server.whole = Wholes
  BY DEF HasShape
<1>1. CASE r.op \in {"create", "edit", "set", "assign", "delete"}
  BY <1>1, FitsRow
<1>2. CASE r.op = "send"
  <2>1. q = "messages" /\ r.arg \in Things
    BY <1>2, GroupOf DEF WellFormed, Group, Placed
  <2>2. view = [t \in Things |-> IF t = scr.sel THEN server.sent[t] ELSE 0]
    BY <2>1, KindsApart DEF Fits
  <2>3. next.sent = [server.sent EXCEPT ![r.arg] = server.sent[r.arg] + 1]
    BY <1>2, AppliedFields
  <2>4. PICK w : w = Effect(q, view, e)
    OBVIOUS
  <2>5. w = [view EXCEPT ![r.arg] = view[r.arg] + 1]
    BY <1>2, <2>4 DEF Effect
  <2>6. w = [t \in Things |-> IF t = scr.sel THEN next.sent[t] ELSE 0]
    <3>1. PICK x : x = [t \in Things |-> IF t = scr.sel THEN next.sent[t] ELSE 0]
      OBVIOUS
    <3>2. DOMAIN w = Things /\ DOMAIN x = Things
      BY <2>2, <2>5, <3>1
    <3>3. w[scr.sel] = x[scr.sel]
      <4>1. PICK a, n : a = scr.sel /\ n = server.sent[a]
        OBVIOUS
      <4>2. view[a] = n /\ a \in Things
        BY <1>2, <2>1, <2>2, <4>1
      <4>3. next.sent[a] = n + 1
        BY <1>0, <1>2, <2>3, <4>1, <4>2
      <4>4. w[a] = n + 1
        BY <1>2, <2>2, <2>5, <4>1, <4>2
      <4> QED BY <3>1, <4>1, <4>2, <4>3, <4>4
    <3>4. \A t \in Things : t # scr.sel => w[t] = x[t]
      BY <1>2, <2>2, <2>5, <3>1
    <3>5. \A t \in Things : w[t] = x[t]
      BY <3>3, <3>4
    <3>6. w = [t \in Things |-> w[t]] /\ x = [t \in Things |-> x[t]]
      BY <2>2, <2>5, <3>1, <3>2
    <3> QED BY <3>1, <3>5, <3>6
  <2> QED BY <2>1, <2>4, <2>6, KindsApart DEF Fits
<1>3. CASE r.op = "drop"
  <2>1. q = "visits" /\ r.arg \in Things
    BY <1>3, GroupOf DEF WellFormed, Group, Placed
  <2>2. /\ NewVisit \in Things /\ next.visits[NewVisit] = Live(r.value)
        /\ r.arg # NewVisit /\ next.visits[r.arg].status = "moved"
        /\ \A t \in Things : t \notin {r.arg, NewVisit} => next.visits[t] = server.visits[t]
    BY <1>3, <2>1, AppliedVisits
  <2>3. e.reply = NewVisit
    BY <1>3 DEF Reply
  <2>4. PICK new : new = NewVisit
    OBVIOUS
  <2>5. PICK w : w = Effect(q, view, e)
    OBVIOUS
  <2>6. w = [[view EXCEPT ![r.arg] = NoVisit] EXCEPT ![new] = Live(r.value)]
    BY <1>3, <2>3, <2>4, <2>5 DEF Effect
  <2>7. /\ DOMAIN view = Things
        /\ \A t \in Things :
              /\ view[t].status = "live" => view[t] = server.visits[t]
              /\ server.visits[t].status = "live" /\ server.visits[t].day \in scr.filter =>
                     view[t] = server.visits[t]
    BY <2>1, KindsApart DEF Fits
  <2>8. /\ DOMAIN w = Things /\ w[new] = Live(r.value) /\ w[r.arg] = NoVisit
        /\ \A t \in Things : t \notin {r.arg, new} => w[t] = view[t]
    BY <2>1, <2>2, <2>4, <2>6, <2>7
  <2>9. NoVisit.status = "none"
    BY DEF NoVisit
  <2>10. \A t \in Things :
            /\ w[t].status = "live" => w[t] = next.visits[t]
            /\ next.visits[t].status = "live" /\ next.visits[t].day \in scr.filter =>
                   w[t] = next.visits[t]
    BY <2>2, <2>4, <2>7, <2>8, <2>9
  <2> QED BY <2>1, <2>5, <2>8, <2>10, KindsApart DEF Fits
<1>4. CASE r.op \in {"cancel", "move", "remove"}
  <2>1. q = "visit" /\ r.arg = scr.id
    BY <1>4, GroupOf DEF WellFormed, Group, Placed
  <2>2. CASE r.op = "cancel"
    <3>1. e.reply = next.visits[r.arg]
      BY <2>2 DEF Reply
    <3>2. Effect(q, view, e) = next.visits[scr.id]
      BY <2>1, <2>2, <3>1 DEF Effect
    <3> QED BY <2>1, <3>2, KindsApart DEF Fits
  <2>3. CASE r.op = "move"
    <3>1. next.visits[scr.id].status = "moved"
      BY <2>1, <2>3, AppliedVisits
    <3> QED BY <2>1, <3>1, KindsApart DEF Fits
  <2>4. CASE r.op = "remove"
    BY <2>1, <2>4, KindsApart DEF Fits
  <2> QED BY <1>4, <2>2, <2>3, <2>4
<1>5. CASE r.op \in {"changePlan", "cancelPlan", "resume"}
  <2>1. q = "subscription"
    BY <1>5, GroupOf DEF WellFormed, Group
  <2>2. e.reply = next.sub
    BY <1>5 DEF Reply
  <2>3. Effect(q, view, e) = next.sub
    BY <1>5, <2>2 DEF Effect
  <2> QED BY <2>1, <2>3, KindsApart DEF Fits
<1>6. CASE r.op \notin {"create", "edit", "set", "assign", "delete", "send", "drop", "cancel",
                        "move", "remove", "book", "changePlan", "cancelPlan", "resume", "load"}
  <2>1. Effect(q, view, e) = view
    BY <1>6 DEF Effect
  <2>2. /\ next.rows = server.rows /\ next.visits = server.visits /\ next.sent = server.sent
        /\ next.sub = server.sub /\ (r.op # "save" => next.whole = server.whole)
    <3>1. r.op \notin {"create", "set", "assign", "delete", "send", "move", "drop", "cancel",
                       "remove", "book", "changePlan", "cancelPlan", "resume"}
      BY <1>6
    <3> QED BY <3>1, AppliedKept
  <2>3. q \in Wholes => next.whole[q] = server.whole[q]
    <3>1. CASE r.op = "save"
      <4>1. q = r.part /\ r.part \in Wholes
        BY <3>1, GroupOf DEF WellFormed
      <4>2. Kept(r.part, r.value) = server.whole[q]
        BY <3>1, <4>1 DEF Kept
      <4>3. next.whole = [server.whole EXCEPT ![r.part] = Kept(r.part, r.value)]
        BY <3>1, AppliedFields
      <4> QED BY <1>0, <4>1, <4>2, <4>3
    <3> QED BY <2>2, <3>1
  <2> QED BY <2>1, <2>2, <2>3, FitsElsewhere
<1> QED BY <1>1, <1>2, <1>3, <1>4, <1>5, <1>6

(* The backend serves a request that overtakes none.                       *)
LEMMA PromisedServed ==
    ASSUME NEW scr, NEW s, s \in Seq(ToSet(s)), NEW i \in DOMAIN s, HasShape(server),
           DOMAIN scr.held = PartsOf(scr.page),
           \A k \in DOMAIN s : WellFormed(s[k]), Right(s, scr, server),
           NEW r, r = s[i], r.state = "sent", Possible(r),
           \A k \in DOMAIN s : k < i /\ s[k].state = "sent" => ~Overlap(s[k], s[i]),
           NEW next, next = Applied(r),
           NEW e, e.op = r.op, e.part = r.part, e.arg = r.arg, e.value = r.value,
           e.here = r.here, e.state = "done", e.reply = Reply(r),
           NEW t, t = [s EXCEPT ![i] = e],
           scr.page = "appointment" => scr.id \in Things,
           NEW q \in Followed(scr)
    PROVE  Promised(q, t, scr, next)
<1>0. /\ DOMAIN t = DOMAIN s /\ t[i] = e /\ \A k \in DOMAIN s : k # i => t[k] = s[k]
      /\ DOMAIN s = 1..Len(s) /\ Len(s) \in Nat /\ Len(t) = Len(s)
  BY ListOf
<1>1. Promised(q, s, scr, server) /\ (r.here => Placed(r, scr)) /\ InOrder(s) /\ WellFormed(r)
  BY DEF Right
<1>2. /\ Superseded(q, t, scr)
      /\ Stale(r, q, scr) => Waits(q, t)
  BY <1>1, SupersededServed DEF Promised
<1>3. q \in PartsOf(scr.page)
  BY DEF Followed
<1>4. Concerns(e, q) <=> Concerns(r, q)
  BY DEF Concerns
<1>5. Concerns(r, q) => Subject(q) \in Touches(r)
  BY PartShared DEF Concerns
<1>6. q \in Wholes => FormIsKept(q, t, scr, next)
  <2>0. /\ r.op # "save" => next.whole = server.whole
        /\ r.op = "save" =>
               next.whole = [server.whole EXCEPT ![r.part] = Kept(r.part, r.value)]
    BY ONLY AppliedFields, HasShape(server), next = Applied(r)
  <2> SUFFICES ASSUME q \in Wholes PROVE FormIsKept(q, t, scr, next)
    OBVIOUS
  <2>1. FormIsKept(q, s, scr, server)
    BY <1>1 DEF Promised
  <2>2. ASSUME NEW k \in DOMAIN s, Concerns(s[k], q), s[k].op = "save"
        PROVE  next.whole[q] = server.whole[q]
    <3>1. \A j \in DOMAIN s : ~Asks(s[j], q)
      BY <2>1, <2>2 DEF FormIsKept
    <3>2. ~Stale(r, q, scr)
      BY <1>1, <3>1 DEF Promised, Superseded
    <3>3. CASE Subject(q) \notin Touches(r)
      BY <1>1, <3>3, AppliedElsewhere
    <3>4. CASE Subject(q) \in Touches(r) /\ r.op # "save"
      <4>1. r.op # "save"
        BY <3>4
      <4>2. next.whole = server.whole
        BY <2>0, <4>1
      <4> QED BY <4>2
    <3>5. CASE Subject(q) \in Touches(r) /\ r.op = "save"
      <4>1. q # "candidates"
        BY KindsApart
      <4>2. r.here
        BY <3>2, <3>5, <4>1 DEF Stale
      <4>3. q \in Group(r.part)
        BY <1>1, <3>5, <4>2, HereConcerns
      <4>4. q = r.part /\ Concerns(r, q)
        BY <1>1, <3>5, <4>2, <4>3, GroupOf DEF WellFormed, Concerns
      <4>5. r.value = server.whole[q]
        BY <2>1, <3>5, <4>4 DEF FormIsKept
      <4>6. next.whole = [server.whole EXCEPT ![r.part] = Kept(r.part, r.value)]
        <5>1. r.op = "save"
          BY <3>5
        <5> QED BY <2>0, <5>1
      <4>7. Kept(r.part, r.value) = server.whole[q]
        BY <4>4, <4>5 DEF Kept
      <4>8. DOMAIN server.whole = Wholes
        BY DEF HasShape
      <4> QED BY <4>4, <4>6, <4>7, <4>8
    <3> QED BY <3>3, <3>4, <3>5
  <2> QED BY <2>1, <2>2, FormServed
<1>7. \A k \in DOMAIN s : Asks(t[k], q) => Asks(s[k], q)
  BY <1>0, <1>4 DEF Asks
<1>8. Removing(s) => Removing(t)
  <2>1. ASSUME NEW k \in DOMAIN s, s[k].here, s[k].op = "remove", s[k].state = "done"
        PROVE  k \in DOMAIN t /\ t[k] = s[k]
    BY <1>0, <2>1
  <2> QED BY <2>1 DEF Removing
<1>9. ASSUME scr.timer \/ Waits(q, t)
      PROVE  Comes(q, t, scr, next)
  BY <1>9 DEF Comes
<1>10. ASSUME ~scr.timer /\ ~Waits(q, t) /\ ~Concerns(r, q)
       PROVE  Comes(q, t, scr, next)
  <2>1. ~Waits(q, s)
    <3>1. ASSUME NEW k \in DOMAIN s, Asks(s[k], q), s[k].state = "sent" PROVE FALSE
      <4>1. k # i
        BY <1>10, <3>1 DEF Asks
      <4> QED BY <1>0, <1>10, <3>1, <4>1 DEF Waits
    <3> QED BY <3>1 DEF Waits
  <2>2. PICK v : Views(q, v, scr.held[q], s) /\ Fits(q, v[Len(s)], scr, server, Removing(s))
    BY <1>1, <1>10, <2>1 DEF Promised, Comes
  <2>3. Views(q, v, scr.held[q], t)
    <3>1. \A k \in 1..Len(s) : \A view : After(q, view, t[k]) = After(q, view, s[k])
      BY <1>0, <1>4, <1>10 DEF After, Counts
    <3> QED BY <1>0, <2>2, <3>1 DEF Views
  <2>4. CASE q = "candidates"
    <3>1. Fits(q, v[Len(t)], scr, next, Removing(t))
      BY <1>0, <1>8, <2>2, <2>4, KindsApart, FitsElsewhere
    <3> QED BY <2>3, <3>1 DEF Comes
  <2>5. CASE q # "candidates"
    <3>1. ~r.here => ~(Subject(q) \in Touches(r))
      BY <1>2, <1>10, <2>5 DEF Stale
    <3>2. Subject(q) \notin Touches(r)
      BY <1>1, <1>10, <3>1, HereConcerns DEF Concerns
    <3>3. Fits(q, v[Len(t)], scr, next, Removing(t))
      BY <1>0, <1>1, <1>8, <2>2, <3>2, AppliedElsewhere, FitsElsewhere
    <3> QED BY <2>3, <3>3 DEF Comes
  <2> QED BY <2>4, <2>5
<1>11. ASSUME ~scr.timer /\ ~Waits(q, t) /\ Concerns(r, q)
       PROVE  Comes(q, t, scr, next)
  <2>1. r.here /\ q \in Group(r.part) /\ Placed(r, scr) /\ ~Stale(r, q, scr)
    BY <1>1, <1>2, <1>11 DEF Concerns
  <2>2. \A k \in DOMAIN s : i <= k => ~Counts(s[k], q)
    <3> SUFFICES ASSUME NEW k \in DOMAIN s, i <= k, Concerns(s[k], q), s[k].state = "done"
                 PROVE  FALSE
      BY DEF Counts
    <3>1. i < k
      <4>1. k # i
        OBVIOUS
      <4> QED BY <1>0, <4>1
    <3>2. ~Overlap(s[i], s[k])
      BY <1>1, <3>1 DEF InOrder, Concerns
    <3> QED BY <1>5, <1>11, <3>2, PartShared DEF Concerns
  <2>3. Counts(e, q)
    BY <1>4, <1>11 DEF Counts
  <2>4. CASE r.op = "load"
    <3>1. PICK v : Views(q, v, scr.held[q], s)
      BY ViewsExist
    <3>2. PICK w : /\ Views(q, w, scr.held[q], t)
                   /\ w[Len(t)] = After(q, v[Len(s)], e)
      <4>1. PICK u, held, y : u = Noted(s, i, e) /\ held = scr.held[q] /\ y = v
        OBVIOUS
      <4>2. t = u
        BY <4>1 DEF Noted
      <4>3. Views(q, y, held, s)
        BY <3>1, <4>1
      <4>4. PICK w : Views(q, w, held, u) /\ w[Len(u)] = After(q, y[Len(s)], e)
        <5>1. \A k \in DOMAIN s : i <= k => ~Counts(s[k], q)
          BY <2>2
        <5> QED BY ONLY <5>1, <4>1, <4>3, ViewsServed, s \in Seq(ToSet(s)), i \in DOMAIN s
      <4> QED BY <4>1, <4>2, <4>4
    <3>3. w[Len(t)] = Stored(q, r.arg)
      BY <2>1, <2>3, <2>4, <3>2 DEF After, Effect, Reply
    <3>4. r.arg = Criterion(scr, q)
      BY <1>11, <2>1, <2>4 DEF Stale, Asks
    <3>5. q = "candidates" => r.arg \in Things
      BY <2>1, GroupOf DEF Placed
    <3>6. Fits(q, w[Len(t)], scr, next, Removing(t))
      <4>1. next = server
        BY <2>4 DEF Applied
      <4> QED BY <3>3, <3>4, <3>5, <4>1, FitsLoaded
    <3> QED BY <3>2, <3>6 DEF Comes
  <2>5. CASE r.op # "load"
    <3>1. ~Waits(q, s)
      <4>1. ASSUME NEW k \in DOMAIN s, Asks(s[k], q), s[k].state = "sent" PROVE FALSE
        <5>1. k # i
          BY <2>5, <4>1 DEF Asks
        <5> QED BY <1>0, <1>11, <4>1, <5>1 DEF Waits
      <4> QED BY <4>1 DEF Waits
    <3>2. PICK v : Views(q, v, scr.held[q], s) /\ Fits(q, v[Len(s)], scr, server, Removing(s))
      BY <1>1, <1>11, <3>1 DEF Promised, Comes
    <3>3. PICK w : /\ Views(q, w, scr.held[q], t)
                   /\ w[Len(t)] = After(q, v[Len(s)], e)
      <4>1. PICK u, held, y : u = Noted(s, i, e) /\ held = scr.held[q] /\ y = v
        OBVIOUS
      <4>2. t = u
        BY <4>1 DEF Noted
      <4>3. Views(q, y, held, s)
        BY <3>2, <4>1
      <4>4. PICK w : Views(q, w, held, u) /\ w[Len(u)] = After(q, y[Len(s)], e)
        <5>1. \A k \in DOMAIN s : i <= k => ~Counts(s[k], q)
          BY <2>2
        <5> QED BY ONLY <5>1, <4>1, <4>3, ViewsServed, s \in Seq(ToSet(s)), i \in DOMAIN s
      <4> QED BY <4>1, <4>2, <4>4
    <3>4. w[Len(t)] = Effect(q, v[Len(s)], e)
      BY <2>3, <3>3 DEF After
    <3>5. r.op = "remove" => Removing(t)
      BY <1>0, <2>1 DEF Removing
    <3>6. r.op = "move" => scr.id \in Things
      BY <1>1, <2>1 DEF WellFormed, Placed
    <3>7. r.op = "send" => r.arg = scr.sel
      <4>1. r.op = "send" => q = "messages"
        BY <1>1, <2>1 DEF WellFormed, Group
      <4> QED BY <2>1, <4>1 DEF Stale
    <3>8. r.op # "book"
      <4>1. ASSUME r.op = "book" PROVE FALSE
        <5>1. r.part = "visits" /\ scr.page = "booking" /\ q = "visits"
          BY <1>1, <2>1, <4>1 DEF WellFormed, Placed, Group
        <5> QED BY <1>3, <5>1, PartsOfPages
      <4> QED BY <4>1
    <3>9. r.op = "save" => r.value = server.whole[q]
      <4>1. r.op = "save" => q \in Wholes
        BY <1>1, <2>1, GroupOf DEF WellFormed
      <4> QED BY <1>1, <1>11, <4>1 DEF Promised, FormIsKept
    <3>10. Fits(q, w[Len(t)], scr, next, Removing(t))
      <4>1. PICK view : view = v[Len(s)]
        OBVIOUS
      <4>2. Fits(q, view, scr, server, Removing(s)) /\ w[Len(t)] = Effect(q, view, e)
        BY <3>2, <3>4, <4>1
      <4>3. WellFormed(r) /\ Placed(r, scr) /\ q \in Group(r.part) /\ r.op # "load"
        BY <1>1, <2>1, <2>5
      <4>4. Removing(s) => Removing(t)
        BY <1>8
      <4>5. Fits(q, Effect(q, view, e), scr, next, Removing(t))
        BY <3>5, <3>6, <3>7, <3>8, <3>9, <4>2, <4>3, <4>4, FitsServed
      <4> QED BY <4>2, <4>5
    <3> QED BY <3>3, <3>10 DEF Comes
  <2> QED BY <2>4, <2>5
<1> QED BY <1>2, <1>6, <1>9, <1>10, <1>11 DEF Promised
-----------------------------------------------------------------------------
(* The order of the requests, and their places. *)

LEMMA InOrderWithout ==
    ASSUME NEW s, s \in Seq(ToSet(s)), NEW i \in DOMAIN s, NEW t, t = RemoveAt(s, i),
           InOrder(s)
    PROVE  InOrder(t)
<1> SUFFICES ASSUME NEW j \in DOMAIN t, NEW k \in DOMAIN t, j < k, t[j].state = "sent",
                    t[k].state = "done", t[k].here
             PROVE  ~Overlap(t[j], t[k])
  BY DEF InOrder
<1>1. PICK a, b : a = Source(j, i) /\ b = Source(k, i)
  OBVIOUS
<1>2. a \in DOMAIN s /\ b \in DOMAIN s /\ t[j] = s[a] /\ t[k] = s[b] /\ a < b
  BY <1>1, Shifted
<1> QED BY <1>2 DEF InOrder

LEMMA InOrderSent ==
    ASSUME NEW s, s \in Seq(ToSet(s)), NEW e, e.state = "sent", NEW t, t = Append(s, e),
           InOrder(s)
    PROVE  InOrder(t)
<1>1. DOMAIN t = DOMAIN s \cup {Len(t)} /\ t[Len(t)] = e
      /\ \A k \in DOMAIN s : t[k] = s[k] /\ k < Len(t) /\ ~(Len(t) < k)
      /\ ~(Len(t) < Len(t))
  BY Longer
<1>2. ASSUME NEW j \in DOMAIN t, NEW k \in DOMAIN t, j < k, t[j].state = "sent",
             t[k].state = "done", t[k].here
      PROVE  ~Overlap(t[j], t[k])
  <2>1. k \in DOMAIN s
    BY <1>1, <1>2
  <2>2. j \in DOMAIN s
    BY <1>1, <1>2, <2>1
  <2> QED BY <1>1, <1>2, <2>1, <2>2 DEF InOrder
<1> QED BY <1>2 DEF InOrder

LEMMA InOrderServed ==
    ASSUME NEW s, s \in Seq(ToSet(s)), NEW i \in DOMAIN s,
           \A k \in DOMAIN s : k < i /\ s[k].state = "sent" => ~Overlap(s[k], s[i]),
           NEW e, e.part = s[i].part, e.state = "done", NEW t, t = [s EXCEPT ![i] = e],
           InOrder(s)
    PROVE  InOrder(t)
<1>0. DOMAIN t = DOMAIN s /\ t[i] = e /\ \A k \in DOMAIN s : k # i => t[k] = s[k]
  OBVIOUS
<1>1. ASSUME NEW j \in DOMAIN t, NEW k \in DOMAIN t, j < k, t[j].state = "sent",
             t[k].state = "done", t[k].here
      PROVE  ~Overlap(t[j], t[k])
  <2>1. j # i /\ t[j] = s[j]
    BY <1>0, <1>1
  <2>2. CASE k = i
    <3>1. Touches(e) = Touches(s[i])
      BY DEF Touches
    <3>2. ~Overlap(s[j], s[i])
      BY <1>0, <1>1, <2>1, <2>2
    <3> QED BY <1>0, <2>1, <2>2, <3>1, <3>2 DEF Overlap
  <2>3. CASE k # i
    BY <1>0, <1>1, <2>1, <2>3 DEF InOrder
  <2> QED BY <2>2, <2>3
<1> QED BY <1>1 DEF InOrder

(* Once something overtook or failed, nothing is promised.                 *)
LEMMA HitchTruth ==
    ASSUME screen'.hitch, HasShape(server'),
           screen'.page = "booking" /\ screen'.timer => screen'.filter \in Things
    PROVE  TruthInv'
BY DEF TruthInv, Truth

(* What the pages and the requests are about: the row of the page, of the   *)
(* way back after a login, and of a move.                                  *)
TargetsAreWell ==
    /\ screen.page \in Pages \cup {"login", "stripe"}
    /\ session.token = "none" => screen.page \in {"login", "stripe"}
    /\ screen.page = "stripe" => inflight = << >>
    /\ screen.page \in ById => screen.id \in Things /\ screen.sel \in Things
    /\ screen.page = "login" /\ screen.id \in ById => screen.sel \in Things
    /\ screen.page \notin ById \cup {"login"} => screen.id = Nil
    /\ \A r \in Underway : r.op = "move" /\ r.state = "done" => r.reply \in Things

LEMMA ServeTruth ==
    ASSUME DashboardInv, TruthInv, TargetsAreWell, NEW i \in DOMAIN inflight, Serve(i)
    PROVE  TruthInv'
<1>1. PICK r : r = inflight[i]
  OBVIOUS
<1>2. PICK reply : reply = Reply(r)
  OBVIOUS
<1>3. PICK e : e = [r EXCEPT !.state = "done", !.reply = reply]
  OBVIOUS
<1>4. PICK next : next = Applied(r)
  OBVIOUS
<1>5. PICK s, scr, t : s = inflight /\ scr = screen /\ t = [inflight EXCEPT ![i] = e]
  OBVIOUS
<1>6. /\ s \in Seq(ToSet(s)) /\ \A k \in DOMAIN s : WellFormed(s[k])
      /\ DOMAIN scr = ScreenFields /\ DOMAIN scr.held = PartsOf(scr.page)
      /\ i \in DOMAIN s /\ r = s[i]
  BY <1>1, <1>5 DEF DashboardInv, RequestsAreWell, ScreenIsWell, Underway, ToSet
<1>7. HasShape(server)
      /\ (scr.page = "booking" /\ scr.timer => scr.filter \in Things)
      /\ (~scr.hitch => Right(s, scr, server))
  BY <1>5 DEF TruthInv, Truth
<1>8. /\ inflight' = t /\ server' = next /\ r.state = "sent" /\ Possible(r)
  BY <1>1, <1>2, <1>3, <1>4, <1>5 DEF Serve
<1>9. HasShape(next)
  BY <1>4, <1>7, <1>8, AppliedShape
<1>10. CASE \E k \in 1..(i - 1) : inflight[k].state = "sent" /\ Overlap(inflight[k], r)
  <2>1. screen' = [screen EXCEPT !.hitch = TRUE]
    BY <1>1, <1>10 DEF Serve, Hitch
  <2>2. screen'.hitch /\ screen'.page = scr.page /\ screen'.timer = scr.timer
        /\ screen'.filter = scr.filter
    BY <1>5, <1>6, <2>1 DEF ScreenFields
  <2> QED BY <1>7, <1>8, <1>9, <2>2, HitchTruth
<1>11. CASE ~\E k \in 1..(i - 1) : inflight[k].state = "sent" /\ Overlap(inflight[k], r)
  <2>1. screen' = scr
    BY <1>1, <1>5, <1>11 DEF Serve
  <2>2. \A k \in DOMAIN s : k < i /\ s[k].state = "sent" => ~Overlap(s[k], s[i])
    <3>1. DOMAIN s = 1..Len(s) /\ Len(s) \in Nat
      BY <1>6, ListOf
    <3>2. \A k \in DOMAIN s : k < i => k \in 1..(i - 1)
      BY <1>6, <3>1
    <3> QED BY <1>5, <1>6, <1>11, <3>2
  <2>3. ASSUME ~scr.hitch PROVE Right(t, scr, next)
    <3>1. Right(s, scr, server)
      BY <1>7, <2>3
    <3>2. /\ DOMAIN e = RequestFields /\ e.op = r.op /\ e.part = r.part /\ e.value = r.value
          /\ e.arg = r.arg /\ e.here = r.here /\ e.reply = reply /\ e.state = "done"
      BY <1>3, <1>6 DEF WellFormed, RequestFields
    <3>3. DOMAIN t = DOMAIN s /\ t[i] = e /\ \A k \in DOMAIN s : k # i => t[k] = s[k]
      BY <1>5, <1>6
    <3>4. e.here => Placed(e, scr)
      <4>1. e.here => Placed(r, scr)
        BY <1>6, <3>1, <3>2 DEF Right
      <4>2. r.op = "drop" => reply \in Things
        <5>1. r.op = "drop" => reply = NewVisit
          BY <1>2 DEF Reply
        <5>2. r.op = "drop" => NewVisit \in Things
          BY <1>4, <1>7, <1>8, AppliedVisits
        <5> QED BY <5>1, <5>2
      <4> QED BY <3>2, <4>1, <4>2 DEF Placed
    <3>5. \A k \in DOMAIN t : t[k].here => Placed(t[k], scr)
      BY <3>1, <3>3, <3>4 DEF Right
    <3>6. InOrder(t)
      BY <1>5, <1>6, <2>2, <3>1, <3>2, InOrderServed DEF Right
    <3>7. scr.page = "appointment" => scr.id \in Things
      BY <1>5 DEF TargetsAreWell, ById
    <3>8. t = [s EXCEPT ![i] = e] /\ e.reply = Reply(r)
      BY <1>2, <1>5, <3>2
    <3>9. \A q \in Followed(scr) : Promised(q, t, scr, next)
      BY <1>4, <1>6, <1>7, <1>8, <2>2, <3>1, <3>2, <3>7, <3>8, PromisedServed
    <3> QED BY <3>5, <3>6, <3>9 DEF Right
  <2> QED BY <1>7, <1>8, <1>9, <2>1, <2>3 DEF TruthInv, Truth
<1> QED BY <1>10, <1>11
-----------------------------------------------------------------------------
(* Steps of the page, all its parts together. *)

LEMMA Placement ==
    ASSUME NEW new, NEW scr, new.page = scr.page, new.id = scr.id,
           DOMAIN new.held = DOMAIN scr.held
    PROVE  /\ Followed(new) = Followed(scr)
           /\ \A r : Placed(r, scr) => Placed(r, new)
BY DEF Followed, Placed

(* A request ends. *)
LEMMA RightWithout ==
    ASSUME NEW s, s \in Seq(ToSet(s)), NEW i \in DOMAIN s, NEW t, t = RemoveAt(s, i),
           \A k \in DOMAIN s : WellFormed(s[k]),
           NEW scr, NEW new, NEW srv, Right(s, scr, srv),
           new.page = scr.page, new.id = scr.id, DOMAIN new.held = DOMAIN scr.held,
           \A q \in Followed(scr) :
               /\ SameSight(q, new, scr)
               /\ s[i].op = "load" =>
                      /\ s[i].state = "done"
                      /\ \A k \in DOMAIN s : k < i /\ s[k].here => ~Overlap(s[k], s[i])
               /\ q \in scr.loading => q \in new.loading \/ Asks(s[i], q)
               /\ q = "visit" => ~(s[i].here /\ s[i].op = "remove" /\ s[i].state = "done")
               /\ \/ new.held[q] = scr.held[q] /\ \A view : After(q, view, s[i]) = view
                  \/ /\ new.held[q] = After(q, scr.held[q], s[i])
                     /\ \A k \in DOMAIN s : k < i => ~Counts(s[k], q)
    PROVE  Right(t, new, srv)
<1>1. \A k \in DOMAIN t : t[k].here => Placed(t[k], new)
  <2> SUFFICES ASSUME NEW k \in DOMAIN t, t[k].here PROVE Placed(t[k], new)
    OBVIOUS
  <2>1. PICK m \in DOMAIN s : t[k] = s[m]
    BY Shifted
  <2>2. Placed(t[k], scr)
    BY <2>1 DEF Right
  <2> QED BY <2>2, Placement
<1>2. InOrder(t)
  BY InOrderWithout DEF Right
<1>3. ASSUME NEW q \in Followed(scr) PROVE Promised(q, t, new, srv)
  <2>1. Promised(q, s, scr, srv)
    BY DEF Right
  <2> QED BY <2>1, PromisedWithout
<1> QED BY <1>1, <1>2, <1>3, Placement DEF Right

(* A request is sent: it loads a part for what the page now shows, or is no *)
(* reason to load it.                                                      *)
LEMMA RightSent ==
    ASSUME NEW s, s \in Seq(ToSet(s)), NEW e, e.state = "sent", NEW t, t = Append(s, e),
           NEW scr, NEW new, NEW srv, Right(s, scr, srv),
           new.page = scr.page, new.id = scr.id, DOMAIN new.held = DOMAIN scr.held,
           Placed(e, new),
           \A q \in Followed(scr) :
               \/ Asks(e, q) /\ q \notin Wholes /\ e.arg = Criterion(new, q)
               \/ /\ SameSight(q, new, scr) /\ new.held[q] = scr.held[q] /\ ~Stale(e, q, new)
                  /\ q \in scr.loading => q \in new.loading
                  /\ q \in Wholes => ~Asks(e, q)
                  /\ q \in Wholes /\ Concerns(e, q) /\ e.op = "save" =>
                         e.value = srv.whole[q] /\ \A k \in DOMAIN s : ~Asks(s[k], q)
    PROVE  Right(t, new, srv)
<1>1. \A k \in DOMAIN t : t[k].here => Placed(t[k], new)
  <2> SUFFICES ASSUME NEW k \in DOMAIN t, t[k].here PROVE Placed(t[k], new)
    OBVIOUS
  <2>1. t[k] = e \/ \E m \in DOMAIN s : t[k] = s[m]
    BY Longer
  <2>2. CASE t[k] = e
    BY <2>2
  <2>3. ASSUME NEW m \in DOMAIN s, t[k] = s[m] PROVE Placed(t[k], new)
    <3>1. Placed(t[k], scr)
      BY <2>3 DEF Right
    <3> QED BY <3>1, Placement
  <2> QED BY <2>1, <2>2, <2>3
<1>2. InOrder(t)
  BY InOrderSent DEF Right
<1>3. ASSUME NEW q \in Followed(scr) PROVE Promised(q, t, new, srv)
  <2>1. Promised(q, s, scr, srv)
    BY DEF Right
  <2> QED BY <2>1, PromisedSent, PromisedAsked
<1> QED BY <1>1, <1>2, <1>3, Placement DEF Right

(* Only the screen changes. *)
LEMMA RightSeen ==
    ASSUME NEW s, NEW scr, NEW new, NEW srv, Right(s, scr, srv),
           new.page = scr.page, new.id = scr.id, DOMAIN new.held = DOMAIN scr.held,
           \A q \in Followed(scr) :
               /\ SameSight(q, new, scr) /\ new.held[q] = scr.held[q]
               /\ q \in scr.loading => q \in new.loading
    PROVE  Right(s, new, srv)
<1>1. ASSUME NEW q \in Followed(scr) PROVE Promised(q, s, new, srv)
  <2>1. Promised(q, s, scr, srv)
    BY DEF Right
  <2> QED BY <2>1, PromisedSeen
<1> QED BY <1>1, Placement DEF Right
-----------------------------------------------------------------------------
(* The controls of the pages. *)

(* What a request that loads nothing does to a form, and to the customers   *)
(* found: nothing.                                                         *)
LEMMA FormEffects ==
    ASSUME NEW q \in Wholes \cup {"candidates"}, NEW r, WellFormed(r), r.op # "load"
    PROVE  Idle(q, r)
<1> SUFFICES ASSUME NEW view, Counts(r, q) PROVE Effect(q, view, r) = view
  BY DEF Idle, After
<1>1. q \in Group(r.part)
  BY DEF Counts, Concerns
<1>2. q \notin Lists \cup {"messages", "visits", "visit", "subscription"}
  BY KindsApart
<1>3. r.part \notin Lists \cup {"messages", "visits", "visit", "subscription"}
  <2>1. CASE r.part \in Lists
    BY <1>1, <1>2, <2>1, GroupOf
  <2>2. CASE r.part \in {"messages", "visits", "visit", "subscription"}
    <3>1. Group(r.part) = {r.part}
      BY <2>2 DEF Group
    <3> QED BY <1>1, <1>2, <2>2, <3>1
  <2> QED BY <2>1, <2>2
<1>4. r.op \notin {"create", "edit", "set", "assign", "delete", "send", "drop", "cancel",
                   "changePlan", "cancelPlan", "resume"}
  BY <1>3 DEF WellFormed
<1> QED BY <1>4 DEF Effect

(* A part that nothing under way will change.                              *)
LEMMA Shown ==
    ASSUME NEW q, NEW s, s \in Seq(ToSet(s)), NEW scr, NEW srv, Comes(q, s, scr, srv),
           ~scr.timer, ~Waits(q, s), \A k \in DOMAIN s : Idle(q, s[k])
    PROVE  Fits(q, scr.held[q], scr, srv, Removing(s))
<1>1. PICK v : Views(q, v, scr.held[q], s) /\ Fits(q, v[Len(s)], scr, srv, Removing(s))
  BY DEF Comes
<1>2. Len(s) \in Nat /\ DOMAIN s = 1..Len(s)
  BY ListOf
<1>3. PICK held : held = scr.held[q]
  OBVIOUS
<1>4. Views(q, v, held, s)
  BY <1>1, <1>3
<1>5. PICK a, b : a = 0 /\ b = Len(s)
  OBVIOUS
<1>6. a \in 0..Len(s) /\ b \in 0..Len(s) /\ a <= b
  BY <1>2, <1>5
<1>7. \A k \in 1..Len(s) : a < k /\ k <= b => Idle(q, s[k])
  BY <1>2
<1>8. v[b] = v[a]
  BY <1>2, <1>4, <1>6, <1>7, Steady
<1>9. v[a] = held
  BY <1>4, <1>5 DEF Views
<1> QED BY <1>1, <1>3, <1>5, <1>8, <1>9

(* A form that is not being loaded shows what is stored.                   *)
LEMMA FormShown ==
    ASSUME NEW q \in Wholes, NEW s, s \in Seq(ToSet(s)), \A k \in DOMAIN s : WellFormed(s[k]),
           NEW scr, NEW srv, Promised(q, s, scr, srv), ~scr.timer, q \notin scr.loading
    PROVE  scr.held[q] = srv.whole[q] /\ \A k \in DOMAIN s : ~Asks(s[k], q)
<1>1. \A k \in DOMAIN s : ~Asks(s[k], q)
  BY DEF Promised, FormIsKept
<1>2. ~Waits(q, s)
  BY <1>1 DEF Waits
<1>3. ASSUME NEW k \in DOMAIN s PROVE Idle(q, s[k])
  <2>1. CASE s[k].op = "load"
    BY <1>1, <2>1 DEF Idle, After, Counts, Asks
  <2>2. CASE s[k].op # "load"
    BY <2>2, FormEffects
  <2> QED BY <2>1, <2>2
<1>4. Fits(q, scr.held[q], scr, srv, Removing(s))
  BY <1>2, <1>3, Shown DEF Promised
<1> QED BY <1>1, <1>4 DEF Fits

(* The state, with a name for each part.                                   *)
LEMMA Named ==
    ASSUME DashboardInv, TruthInv
    PROVE  /\ inflight \in Seq(ToSet(inflight)) /\ \A k \in DOMAIN inflight : WellFormed(inflight[k])
           /\ DOMAIN screen = ScreenFields /\ DOMAIN screen.held = PartsOf(screen.page)
           /\ HasShape(server) /\ (~screen.hitch => Right(inflight, screen, server))
           /\ screen.page = "booking" /\ screen.timer => screen.filter \in Things
           /\ screen.timer => screen.page \in {"customers", "booking"}
BY DEF DashboardInv, RequestsAreWell, ScreenIsWell, Underway, ToSet, TruthInv, Truth

LEMMA FormsWithoutSearch ==
    ASSUME DashboardInv, NEW q \in Wholes \cap PartsOf(screen.page)
    PROVE  ~screen.timer
<1>1. screen.timer => PartsOf(screen.page) \subseteq {"customers", "candidates"}
  BY PartsOfPages DEF DashboardInv, ScreenIsWell
<1> QED BY <1>1 DEF Wholes

(* A request that changes something is sent.                               *)
LEMMA PostTruth ==
    ASSUME DashboardInv, TruthInv, NEW op, NEW part, NEW arg, NEW value,
           inflight' = Append(inflight, Request(op, part, arg, value)), UNCHANGED server,
           op # "load", Placed(Request(op, part, arg, value), screen),
           op = "send" => arg = screen.sel,
           op = "save" => /\ part \in Wholes \cap PartsOf(screen.page) /\ part \notin screen.loading
                          /\ value = screen.held[part],
           DOMAIN screen' = ScreenFields,
           \A x \in ScreenFields \ {"busy"} : screen'[x] = screen[x]
    PROVE  TruthInv'
<1>1. PICK e : e = Request(op, part, arg, value)
  OBVIOUS
<1>2. PICK s, t, scr, new, srv : /\ s = inflight /\ t = inflight' /\ scr = screen /\ new = screen'
                                 /\ srv = server
  OBVIOUS
<1>3. /\ s \in Seq(ToSet(s)) /\ \A k \in DOMAIN s : WellFormed(s[k])
      /\ DOMAIN scr.held = PartsOf(scr.page)
      /\ HasShape(srv) /\ (~scr.hitch => Right(s, scr, srv))
      /\ scr.page = "booking" /\ scr.timer => scr.filter \in Things
  BY <1>2, Named
<1>4. /\ new.page = scr.page /\ new.id = scr.id /\ new.held = scr.held /\ new.timer = scr.timer
      /\ new.filter = scr.filter /\ new.sel = scr.sel /\ new.loading = scr.loading
      /\ new.hitch = scr.hitch
  BY <1>2 DEF ScreenFields
<1>5. /\ e.op = op /\ e.part = part /\ e.arg = arg /\ e.value = value /\ e.state = "sent"
      /\ e.here
  BY <1>1 DEF Request
<1>6. t = Append(s, e) /\ server' = srv
  BY <1>1, <1>2
<1>7. ASSUME ~scr.hitch PROVE Right(t, new, srv)
  <2>1. Right(s, scr, srv)
    BY <1>3, <1>7
  <2>2. Placed(e, new)
    <3>1. Placed(e, scr)
      BY <1>1, <1>2
    <3> QED BY <1>4, <3>1, Placement
  <2>3. ASSUME NEW q \in Followed(scr)
        PROVE  /\ SameSight(q, new, scr) /\ new.held[q] = scr.held[q] /\ ~Stale(e, q, new)
               /\ q \in scr.loading => q \in new.loading
               /\ q \in Wholes => ~Asks(e, q)
               /\ q \in Wholes /\ Concerns(e, q) /\ e.op = "save" =>
                      e.value = srv.whole[q] /\ \A k \in DOMAIN s : ~Asks(s[k], q)
    <3>1. SameSight(q, new, scr)
      BY <1>4 DEF SameSight
    <3>2. ~Asks(e, q)
      BY <1>5 DEF Asks
    <3>3. ~Stale(e, q, new)
      BY <1>2, <1>4, <1>5, <3>2 DEF Stale
    <3>4. ASSUME q \in Wholes, Concerns(e, q), e.op = "save"
          PROVE  e.value = srv.whole[q] /\ \A k \in DOMAIN s : ~Asks(s[k], q)
      <4>1. q = part /\ q \in PartsOf(scr.page) /\ q \notin scr.loading /\ value = scr.held[q]
        <5>1. part \in Wholes
          BY <1>5, <3>4
        <5>2. q = part
          BY <1>5, <3>4, <5>1, GroupOf DEF Concerns
        <5> QED BY <1>2, <1>5, <3>4, <5>2
      <4>2. ~scr.timer
        BY <1>2, <3>4, <4>1, FormsWithoutSearch
      <4>3. Promised(q, s, scr, srv)
        BY <2>1 DEF Right
      <4> QED BY <1>3, <1>5, <3>4, <4>1, <4>2, <4>3, FormShown
    <3> QED BY <1>4, <3>1, <3>2, <3>3, <3>4
  <2> QED BY <1>3, <1>4, <1>5, <1>6, <2>1, <2>2, <2>3, RightSent
<1> QED BY <1>2, <1>3, <1>4, <1>6, <1>7 DEF TruthInv, Truth

LEMMA PressTruth ==
    ASSUME DashboardInv, TruthInv, NEW op, NEW part, NEW arg, NEW value, NEW flagged \in BOOLEAN,
           Press(op, part, arg, value, flagged),
           op # "load", Placed(Request(op, part, arg, value), screen),
           op = "send" => arg = screen.sel,
           op = "save" => /\ part \in Wholes \cap PartsOf(screen.page) /\ part \notin screen.loading
                          /\ value = screen.held[part]
    PROVE  TruthInv'
<1>1. /\ inflight' = Append(inflight, Request(op, part, arg, value)) /\ UNCHANGED server
      /\ \/ screen' = [screen EXCEPT !.busy = @ \cup {Flag(op, part, arg)}]
         \/ screen' = screen
  BY DEF Press, Aside
<1>2. DOMAIN screen' = ScreenFields /\ \A x \in ScreenFields \ {"busy"} : screen'[x] = screen[x]
  BY <1>1, Named DEF ScreenFields
<1> QED BY <1>1, <1>2, PostTruth
(* Only the screen changes, in nothing that decides what it is to show. *)
LEMMA SeenTruth ==
    ASSUME DashboardInv, TruthInv, UNCHANGED <<inflight, server>>, NEW new, screen' = new,
           DOMAIN new.held = DOMAIN screen.held,
           \A x \in {"page", "id", "held", "timer", "filter", "hitch"} : new[x] = screen[x],
           \A q \in Followed(screen) : q \in screen.loading => q \in new.loading,
           new.sel = screen.sel \/ screen.page \in {"appointment", "booking"}
    PROVE  TruthInv'
<1>1. PICK s, scr, srv : s = inflight /\ scr = screen /\ srv = server
  OBVIOUS
<1>2. /\ new.page = scr.page /\ new.id = scr.id /\ new.held = scr.held /\ new.timer = scr.timer
      /\ new.filter = scr.filter /\ new.hitch = scr.hitch
  BY <1>1
<1>3. ASSUME NEW q \in Followed(scr) PROVE SameSight(q, new, scr)
  <2>1. scr.page \in {"appointment", "booking"} => q # "messages"
    BY <1>1, Named, PartsOfPages DEF Followed
  <2> QED BY <1>1, <1>2, <2>1 DEF SameSight
<1>4. ~scr.hitch => Right(s, scr, srv)
  BY <1>1, Named
<1>5. ~scr.hitch => Right(s, new, srv)
  BY <1>1, <1>2, <1>3, <1>4, RightSeen
<1> QED BY <1>1, <1>2, <1>5, Named DEF TruthInv, Truth

(* A row of a list. *)
LEMMA RowTruth ==
    ASSUME DashboardInv, TruthInv, NEW op \in {"create", "edit", "set", "assign", "delete"},
           NEW part \in Lists, NEW arg \in Things, NEW value, NEW flagged \in BOOLEAN,
           Press(op, part, arg, value, flagged),
           part = "customers" => screen.page = "customers",
           op = "set" /\ part = "threads" => value \in {"OPEN", "RESOLVED"}
    PROVE  TruthInv'
<1>1. Placed(Request(op, part, arg, value), screen)
  BY DEF Placed, Request, Lists
<1> QED BY <1>1, PressTruth

LEMMA RowPageTruth ==
    ASSUME DashboardInv, TruthInv, NEW part \in Lists \ {"threads"},
           part = "customers" => screen.page = "customers",
           CreateRow(part) \/ EditRow(part) \/ ToggleRow(part) \/ DeleteRow(part)
    PROVE  TruthInv'
<1>1. CASE CreateRow(part)
  <2>1. PICK t \in Things : Press("create", part, t, Nil, TRUE)
    BY <1>1 DEF CreateRow
  <2> QED BY <2>1, RowTruth
<1>2. CASE \E t \in Row(part) \cup {Nil} : Change([screen EXCEPT !.editing = t])
  <2>1. PICK t, new : new = [screen EXCEPT !.editing = t] /\ Change(new)
    BY <1>2
  <2>2. /\ DOMAIN new.held = DOMAIN screen.held
        /\ \A x \in {"page", "id", "held", "timer", "filter", "hitch", "sel", "loading"} :
              new[x] = screen[x]
    BY <2>1, Named DEF ScreenFields
  <2>3. screen' = new /\ UNCHANGED <<inflight, server>>
    BY <2>1 DEF Change, Aside
  <2>4. new.sel = screen.sel /\ new.loading = screen.loading
    BY <2>2
  <2> QED BY <2>2, <2>3, <2>4, SeenTruth
<1>3. CASE screen.editing \in Row(part) /\ Press("edit", part, screen.editing, Nil, TRUE)
  <2>1. PICK t \in Things : Press("edit", part, t, Nil, TRUE)
    BY <1>3 DEF Row
  <2> QED BY <2>1, RowTruth
<1>4. CASE ToggleRow(part)
  <2>1. PICK t, value : t \in Things /\ Press("set", part, t, value, FALSE)
    BY <1>4 DEF ToggleRow, Row
  <2> QED BY <2>1, RowTruth
<1>5. CASE DeleteRow(part)
  <2>1. PICK t \in Things : Press("delete", part, t, Nil, FALSE)
    BY <1>5 DEF DeleteRow, Row
  <2> QED BY <2>1, RowTruth
<1> QED BY <1>1, <1>2, <1>3, <1>4, <1>5 DEF EditRow

LEMMA RowPagesTruth ==
    ASSUME DashboardInv, TruthInv,
           \/ ServicesListPage \/ ServiceCategoriesPage \/ HolidaysPage
           \/ EmployeesListPage \/ AdminPlansPage \/ EmployeeTimeOff \/ Invitations
    PROVE  TruthInv'
<1>1. {"services", "categories", "holidays", "employees", "plans", "timeOff", "invitations"}
          \subseteq Lists \ {"threads", "customers"}
  BY DEF Lists
<1>2. PICK part \in Lists \ {"threads", "customers"} :
          CreateRow(part) \/ EditRow(part) \/ ToggleRow(part) \/ DeleteRow(part)
  <2>1. CASE ServicesListPage
    BY <1>1, <2>1 DEF ServicesListPage
  <2>2. CASE ServiceCategoriesPage
    BY <1>1, <2>2 DEF ServiceCategoriesPage
  <2>3. CASE HolidaysPage
    BY <1>1, <2>3 DEF HolidaysPage
  <2>4. CASE EmployeesListPage
    BY <1>1, <2>4 DEF EmployeesListPage
  <2>5. CASE AdminPlansPage
    BY <1>1, <2>5 DEF AdminPlansPage
  <2>6. CASE EmployeeTimeOff
    BY <1>1, <2>6 DEF EmployeeTimeOff
  <2>7. CASE Invitations
    BY <1>1, <2>7 DEF Invitations
  <2> QED BY <2>1, <2>2, <2>3, <2>4, <2>5, <2>6, <2>7
<1> QED BY <1>2, RowPageTruth

LEMMA FormPagesTruth ==
    ASSUME DashboardInv, TruthInv,
           SalonProfilePage \/ BusinessHoursPage \/ EmployeeForms \/ SettingsForms
    PROVE  TruthInv'
<1>1. PICK part \in PartsOf(screen.page) \cap Wholes : SaveWhole(part)
  BY PartsOfForms
  DEF SalonProfilePage, BusinessHoursPage, EmployeeForms, SettingsForms, Wholes
<1>2. PICK value : value = screen.held[part]
  OBVIOUS
<1>3. Press("save", part, Nil, value, TRUE) /\ part \notin screen.loading
  BY <1>1, <1>2 DEF SaveWhole, Ready
<1>4. Placed(Request("save", part, Nil, value), screen)
  BY DEF Placed, Request, Wholes
<1> QED BY <1>2, <1>3, <1>4, PressTruth

(* A request about no list and no form. *)
LEMMA PlainTruth ==
    ASSUME DashboardInv, TruthInv,
           NEW op \in {"test", "changePlan", "checkout", "portal", "cancelPlan", "resume",
                       "cancel", "move", "remove", "book", "logout", "login"},
           NEW part \in {"ai", "subscription", "visit", "visits", "session", "login"},
           NEW arg, NEW value, NEW flagged \in BOOLEAN,
           Press(op, part, arg, value, flagged),
           part = "visit" => screen.page = "appointment" /\ arg = screen.id,
           part = "visits" => op = "book" /\ screen.page = "booking"
    PROVE  TruthInv'
<1>1. Placed(Request(op, part, arg, value), screen)
  BY DEF Placed, Request
<1> QED BY <1>1, PressTruth

LEMMA BillingTruth ==
    ASSUME DashboardInv, TruthInv,
           \/ SendTestMessage \/ SelectPlan \/ OpenCustomerPortal \/ CancelSubscription
           \/ ReactivateSubscription \/ Logout \/ LoginPage \/ SubmitBooking
    PROVE  TruthInv'
<1>1. CASE SendTestMessage
  BY <1>1, PlainTruth DEF SendTestMessage
<1>2. CASE SelectPlan
  <2>1. PICK t \in Things, op \in {"changePlan", "checkout"} :
            Press(op, "subscription", t, Nil, TRUE)
    BY <1>2 DEF SelectPlan, BillingControls
  <2> QED BY <2>1, PlainTruth
<1>3. CASE OpenCustomerPortal
  BY <1>3, PlainTruth DEF OpenCustomerPortal
<1>4. CASE CancelSubscription
  BY <1>4, PlainTruth DEF CancelSubscription
<1>5. CASE ReactivateSubscription
  BY <1>5, PlainTruth DEF ReactivateSubscription
<1>6. CASE Logout
  BY <1>6, PlainTruth DEF Logout
<1>7. CASE LoginPage
  <2>1. PICK s : Press("login", "login", Nil, s, TRUE)
    BY <1>7 DEF LoginPage
  <2> QED BY <2>1, PlainTruth
<1>8. CASE SubmitBooking
  <2>1. PICK t, d : Press("book", "visits", t, d, TRUE) /\ screen.page = "booking"
    BY <1>8 DEF SubmitBooking
  <2> QED BY <2>1, PlainTruth
<1> QED BY <1>1, <1>2, <1>3, <1>4, <1>5, <1>6, <1>7, <1>8

LEMMA WhatsAppTruth ==
    ASSUME DashboardInv, TruthInv, WhatsAppConnection
    PROVE  TruthInv'
<1>1. "whatsapp" \in Lists \ {"threads", "customers"}
  BY DEF Lists
<1>2. CASE CreateRow("whatsapp")
  BY <1>1, <1>2, RowPageTruth
<1>3. CASE \E t \in Row("whatsapp") : Press("set", "whatsapp", t, "off", FALSE)
  <2>1. PICK t \in Things : Press("set", "whatsapp", t, "off", FALSE)
    BY <1>3 DEF Row
  <2> QED BY <1>1, <2>1, RowTruth
<1> QED BY <1>2, <1>3 DEF WhatsAppConnection

LEMMA ThreadTruth ==
    ASSUME DashboardInv, TruthInv, SendMessage \/ UpdateStatus \/ Assign
    PROVE  TruthInv'
<1>1. "threads" \in Lists
  BY DEF Lists
<1>2. PICK t : t = screen.sel /\ t \in Things
  BY DEF SendMessage, UpdateStatus, Assign, InAThread, Row
<1>3. CASE SendMessage
  <2>1. Press("send", "messages", t, Nil, TRUE)
    BY <1>2, <1>3 DEF SendMessage
  <2>2. Placed(Request("send", "messages", t, Nil), screen)
    BY <1>2 DEF Placed, Request
  <2> QED BY <1>2, <2>1, <2>2, PressTruth
<1>4. CASE UpdateStatus
  <2>1. PICK value \in {"OPEN", "RESOLVED"} : Press("set", "threads", t, value, FALSE)
    BY <1>2, <1>4 DEF UpdateStatus
  <2> QED BY <1>1, <1>2, <2>1, RowTruth
<1>5. CASE Assign
  <2>1. PICK value : Press("assign", "threads", t, value, FALSE)
    BY <1>2, <1>5 DEF Assign
  <2> QED BY <1>1, <1>2, <2>1, RowTruth
<1> QED BY <1>3, <1>4, <1>5

LEMMA AppointmentTruth ==
    ASSUME DashboardInv, TruthInv, AppointmentDetailPage
    PROVE  TruthInv'
<1>1. screen.page = "appointment"
  BY DEF AppointmentDetailPage
<1>2. PICK id : id = screen.id
  OBVIOUS
<1>3. CASE Press("cancel", "visit", screen.id, Nil, FALSE)
  BY <1>1, <1>2, <1>3, PlainTruth
<1>4. CASE Change([screen EXCEPT !.editing = screen.id])
  <2>1. PICK new : new = [screen EXCEPT !.editing = id] /\ Change(new)
    BY <1>2, <1>4
  <2>2. /\ DOMAIN new.held = DOMAIN screen.held
        /\ \A x \in {"page", "id", "held", "timer", "filter", "hitch", "sel", "loading"} :
              new[x] = screen[x]
    BY <2>1, Named DEF ScreenFields
  <2>3. screen' = new /\ UNCHANGED <<inflight, server>>
    BY <2>1 DEF Change, Aside
  <2>4. new.sel = screen.sel /\ new.loading = screen.loading
    BY <2>2
  <2> QED BY <2>2, <2>3, <2>4, SeenTruth
<1>5. CASE \E d \in Days : Press("move", "visit", screen.id, d, FALSE)
  <2>1. PICK d \in Days : Press("move", "visit", id, d, FALSE)
    BY <1>2, <1>5
  <2> QED BY <1>1, <1>2, <2>1, PlainTruth
<1>6. CASE Press("remove", "visit", screen.id, Nil, FALSE)
  BY <1>1, <1>2, <1>6, PlainTruth
<1> QED BY <1>3, <1>4, <1>5, <1>6 DEF AppointmentDetailPage

LEMMA OnDropTruth ==
    ASSUME DashboardInv, TruthInv, OnDrop
    PROVE  TruthInv'
<1>1. PICK t, d :
          /\ t \in Things /\ screen.page = "calendar"
          /\ Press("drop", "visits", t, d, FALSE)
  BY DEF OnDrop
<1>2. Placed(Request("drop", "visits", t, d), screen)
  BY <1>1 DEF Placed, Request
<1> QED BY <1>1, <1>2, PressTruth

LEMMA AdminTenantsTruth ==
    ASSUME DashboardInv, TruthInv, AdminTenantsPage
    PROVE  TruthInv'
<1>1. PICK t, value :
          /\ t \in Things
          /\ screen' = [screen EXCEPT !.busy = {Flag("set", "tenants", t)}]
          /\ inflight' = Append(inflight, Request("set", "tenants", t, value))
          /\ UNCHANGED server
  BY DEF AdminTenantsPage, Aside, Row
<1>2. Placed(Request("set", "tenants", t, value), screen)
  BY <1>1 DEF Placed, Request
<1>3. DOMAIN screen' = ScreenFields /\ \A x \in ScreenFields \ {"busy"} : screen'[x] = screen[x]
  BY <1>1, Named DEF ScreenFields
<1> QED BY <1>1, <1>2, <1>3, PostTruth
-----------------------------------------------------------------------------
(* What the user looks at. *)

LEMMA ConversationParts ==
    PartsOf("inbox") = {"threads", "messages"} /\ PartsOf("thread") = {"threads", "messages"}
<1>1. Group("threads") = {"threads"} /\ Group("messages") = {"messages"}
  BY DEF Group
<1>2. PartsOf("inbox") = {"threads", "messages"}
  <2>1. Asked("inbox") = <<"threads">>
    BY DEF Asked
  <2>2. DOMAIN Asked("inbox") = {1} /\ Asked("inbox")[1] = "threads"
    BY <2>1
  <2> QED BY <1>1, <2>2 DEF PartsOf
<1>3. PartsOf("thread") = {"threads", "messages"}
  <2>1. Asked("thread") = <<"threads", "messages">>
    BY DEF Asked
  <2>2. DOMAIN Asked("thread") = {1, 2} /\ Asked("thread")[1] = "threads"
        /\ Asked("thread")[2] = "messages"
    BY <2>1
  <2> QED BY <1>1, <2>2 DEF PartsOf
<1> QED BY <1>2, <1>3

(* The page loads a part for what it now shows. *)
LEMMA AskTruth ==
    ASSUME DashboardInv, TruthInv, UNCHANGED server,
           NEW part \in {"visits", "threads", "messages", "customers", "candidates"},
           NEW new, screen' = new, NEW arg, arg = Criterion(new, part),
           inflight' = Append(inflight, Request("load", part, arg, Nil)),
           DOMAIN new.held = DOMAIN screen.held,
           \A x \in {"page", "id", "held", "hitch"} : new[x] = screen[x],
           new.timer => screen.timer /\ new.filter = screen.filter,
           part = "visits" => screen.page = "calendar",
           part = "customers" => screen.page = "customers",
           part = "candidates" => screen.page = "booking" /\ arg \in Things,
           \A q \in Followed(screen) \ {part} :
               /\ SameSight(q, new, screen)
               /\ q \in screen.loading => q \in new.loading
    PROVE  TruthInv'
<1>1. PICK e : e = Request("load", part, arg, Nil)
  OBVIOUS
<1>2. PICK s, t, scr, srv : s = inflight /\ t = inflight' /\ scr = screen /\ srv = server
  OBVIOUS
<1>3. /\ s \in Seq(ToSet(s)) /\ \A k \in DOMAIN s : WellFormed(s[k])
      /\ DOMAIN scr.held = PartsOf(scr.page)
      /\ HasShape(srv) /\ (~scr.hitch => Right(s, scr, srv))
      /\ scr.page = "booking" /\ scr.timer => scr.filter \in Things
  BY <1>2, Named
<1>4. new.page = scr.page /\ new.id = scr.id /\ new.held = scr.held /\ new.hitch = scr.hitch
  BY <1>2
<1>5. e.op = "load" /\ e.part = part /\ e.arg = arg /\ e.state = "sent" /\ e.here
  BY <1>1 DEF Request
<1>6. t = Append(s, e) /\ server' = srv
  BY <1>1, <1>2
<1>7. part \notin Wholes /\ Group(part) = {part}
  BY DEF Wholes, Group
<1>8. ASSUME ~scr.hitch PROVE Right(t, new, srv)
  <2>1. Right(s, scr, srv)
    BY <1>3, <1>8
  <2>2. Placed(e, new)
    BY <1>2, <1>4, <1>5 DEF Placed
  <2>3. ASSUME NEW q \in Followed(scr)
        PROVE  \/ Asks(e, q) /\ q \notin Wholes /\ e.arg = Criterion(new, q)
               \/ /\ SameSight(q, new, scr) /\ new.held[q] = scr.held[q] /\ ~Stale(e, q, new)
                  /\ q \in scr.loading => q \in new.loading
                  /\ q \in Wholes => ~Asks(e, q)
                  /\ q \in Wholes /\ Concerns(e, q) /\ e.op = "save" =>
                         e.value = srv.whole[q] /\ \A k \in DOMAIN s : ~Asks(s[k], q)
    <3>1. CASE q = part
      BY <1>5, <1>7, <3>1 DEF Asks, Concerns
    <3>2. CASE q # part
      <4>1. ~Asks(e, q)
        BY <1>5, <1>7, <3>2 DEF Asks, Concerns
      <4>2. ~Stale(e, q, new)
        BY <1>5, <4>1 DEF Stale
      <4>3. SameSight(q, new, scr) /\ (q \in scr.loading => q \in new.loading)
        BY <1>2, <3>2
      <4> QED BY <1>4, <1>5, <4>1, <4>2, <4>3
    <3> QED BY <3>1, <3>2
  <2> QED BY <1>3, <1>4, <1>5, <1>6, <2>1, <2>2, <2>3, RightSent
<1> QED BY <1>2, <1>3, <1>4, <1>6, <1>8 DEF TruthInv, Truth

LEMMA ViewTruth ==
    ASSUME DashboardInv, TruthInv,
           ShowDays \/ SetStatusFilter \/ (Select /\ screen.page # "inbox")
    PROVE  TruthInv'
<1>0. DOMAIN screen = ScreenFields /\ DOMAIN screen.held = PartsOf(screen.page)
  BY Named
<1>1. CASE ShowDays
  <2>1. PICK range : LET s == [screen EXCEPT !.filter = range, !.loading = {"visits"}]
                     IN  screen' = s /\ inflight' = Append(inflight, Load(s, "visits"))
    BY <1>1 DEF ShowDays
  <2>2. PICK new : new = [screen EXCEPT !.filter = range, !.loading = {"visits"}]
    OBVIOUS
  <2>3. PICK arg : arg = Criterion(new, "visits")
    OBVIOUS
  <2>4. /\ screen' = new /\ inflight' = Append(inflight, Request("load", "visits", arg, Nil))
        /\ screen.page = "calendar" /\ UNCHANGED server
    BY <1>1, <2>1, <2>2, <2>3 DEF ShowDays, Load, Aside
  <2>5. DOMAIN new.held = DOMAIN screen.held
        /\ (\A x \in {"page", "id", "held", "hitch"} : new[x] = screen[x])
        /\ new.timer = screen.timer
    BY <1>0, <2>2 DEF ScreenFields
  <2>6. Followed(screen) \ {"visits"} = {}
    BY <1>0, <2>4, PartsOfPages DEF Followed
  <2>7. ~screen.timer
    BY <2>4, Named
  <2> QED BY <2>3, <2>4, <2>5, <2>6, <2>7, AskTruth
<1>2. CASE SetStatusFilter
  <2>1. PICK v : LET s == [screen EXCEPT !.filter = v, !.loading = @ \cup {"threads"}]
                 IN  screen' = s /\ inflight' = Append(inflight, Load(s, "threads"))
    BY <1>2 DEF SetStatusFilter
  <2>2. PICK new : new = [screen EXCEPT !.filter = v, !.loading = @ \cup {"threads"}]
    OBVIOUS
  <2>3. PICK arg : arg = Criterion(new, "threads")
    OBVIOUS
  <2>4. /\ screen' = new /\ inflight' = Append(inflight, Request("load", "threads", arg, Nil))
        /\ screen.page \in {"inbox", "thread"} /\ UNCHANGED server
    BY <1>2, <2>1, <2>2, <2>3 DEF SetStatusFilter, Load, Aside
  <2>5. DOMAIN new.held = DOMAIN screen.held
        /\ (\A x \in {"page", "id", "held", "hitch"} : new[x] = screen[x])
        /\ new.timer = screen.timer /\ new.sel = screen.sel /\ new.id = screen.id
        /\ new.loading = screen.loading \cup {"threads"}
    BY <1>0, <2>2 DEF ScreenFields
  <2>6. \A q \in Followed(screen) \ {"threads"} : q = "messages"
    BY <1>0, <2>4, ConversationParts DEF Followed
  <2>7. "messages" \notin Lists \cup {"candidates", "visits"}
    BY DEF Lists
  <2>8. \A q \in Followed(screen) \ {"threads"} :
            SameSight(q, new, screen) /\ (q \in screen.loading => q \in new.loading)
    BY <2>5, <2>6, <2>7 DEF SameSight
  <2>9. ~screen.timer
    BY <2>4, Named
  <2> QED BY <2>3, <2>4, <2>5, <2>8, <2>9, AskTruth
<1>3. CASE Select /\ screen.page # "inbox"
  <2>1. PICK t : LET s == [screen EXCEPT !.sel = t, !.loading = @ \cup {"messages"}]
                 IN  screen' = s /\ inflight' = Append(inflight, Load(s, "messages"))
    BY <1>3 DEF Select
  <2>2. PICK new : new = [screen EXCEPT !.sel = t, !.loading = @ \cup {"messages"}]
    OBVIOUS
  <2>3. PICK arg : arg = Criterion(new, "messages")
    OBVIOUS
  <2>4. /\ screen' = new /\ inflight' = Append(inflight, Request("load", "messages", arg, Nil))
        /\ UNCHANGED server
    BY <1>3, <2>1, <2>2, <2>3 DEF Select, Load, Aside
  <2>5. DOMAIN new.held = DOMAIN screen.held
        /\ (\A x \in {"page", "id", "held", "hitch"} : new[x] = screen[x])
        /\ new.timer = screen.timer /\ new.filter = screen.filter /\ new.id = screen.id
        /\ new.loading = screen.loading \cup {"messages"}
    BY <1>0, <2>2 DEF ScreenFields
  <2>6. \A q \in Followed(screen) \ {"messages"} :
            SameSight(q, new, screen) /\ (q \in screen.loading => q \in new.loading)
    BY <2>5 DEF SameSight
  <2> QED BY <2>3, <2>4, <2>5, <2>6, AskTruth
<1> QED BY <1>1, <1>2, <1>3

LEMMA SearchFiresTruth ==
    ASSUME DashboardInv, TruthInv, SearchFires
    PROVE  TruthInv'
<1>0. DOMAIN screen = ScreenFields /\ DOMAIN screen.held = PartsOf(screen.page)
  BY Named
<1>1. PICK part : part = IF screen.page = "booking" THEN "candidates" ELSE "customers"
  OBVIOUS
<1>2. PICK new : new = [screen EXCEPT !.timer = FALSE, !.loading = @ \cup
                           (IF part = "customers" THEN {part} ELSE {})]
  OBVIOUS
<1>3. PICK arg : arg = Criterion(screen, part)
  OBVIOUS
<1>4. /\ screen' = new
      /\ inflight' = Append(inflight, Request("load", part, arg, Nil))
      /\ UNCHANGED server /\ screen.timer
  BY <1>1, <1>2, <1>3 DEF SearchFires, Load, Aside
<1>5. DOMAIN new.held = DOMAIN screen.held
      /\ (\A x \in {"page", "id", "held", "hitch"} : new[x] = screen[x])
      /\ ~new.timer /\ new.filter = screen.filter
  BY <1>0, <1>2 DEF ScreenFields
<1>6. screen.page = IF part = "candidates" THEN "booking" ELSE "customers"
  BY <1>1, <1>4, Named
<1>7. arg = Criterion(new, part) /\ arg = screen.filter
  BY <1>1, <1>3, <1>5 DEF Criterion
<1>8. part = "candidates" => arg \in Things
  BY <1>4, <1>6, <1>7, Named
<1>9. Followed(screen) \ {part} = {}
  BY <1>0, <1>1, <1>6, PartsOfPages DEF Followed
<1> QED BY <1>1, <1>4, <1>5, <1>6, <1>7, <1>8, <1>9, AskTruth

(* Until the search is sent nothing is promised but that it will be. *)
LEMMA SearchTruth ==
    ASSUME DashboardInv, TruthInv, screen.page \in {"customers", "booking"},
           NEW term, Search(term), screen.page = "booking" => term \in Things
    PROVE  TruthInv'
<1>1. PICK s, scr, new, srv :
          /\ s = inflight /\ scr = screen /\ srv = server
          /\ new = [screen EXCEPT !.filter = term, !.timer = TRUE]
  OBVIOUS
<1>2. screen' = new /\ inflight' = s /\ server' = srv
  BY <1>1 DEF Search, Aside
<1>3. /\ DOMAIN scr = ScreenFields /\ DOMAIN scr.held = PartsOf(scr.page)
      /\ HasShape(srv) /\ (~scr.hitch => Right(s, scr, srv))
  BY <1>1, Named
<1>4. /\ new.page = scr.page /\ new.id = scr.id /\ new.held = scr.held /\ new.hitch = scr.hitch
      /\ new.timer /\ new.filter = term /\ new.sel = scr.sel
  BY <1>1, <1>3 DEF ScreenFields
<1>5. ASSUME ~scr.hitch PROVE Right(s, new, srv)
  <2>1. Right(s, scr, srv)
    BY <1>3, <1>5
  <2>2. ASSUME NEW q \in Followed(scr) PROVE Promised(q, s, new, srv)
    <3>1. q \notin Wholes
      BY <1>1, <1>3, <2>2, PartsOfPages DEF Followed, Wholes
    <3>2. \A r : Stale(r, q, new) => Stale(r, q, scr)
      BY <1>4 DEF Stale
    <3>3. Superseded(q, s, new)
      BY <2>1, <3>2 DEF Right, Promised, Superseded
    <3> QED BY <1>4, <3>1, <3>3 DEF Promised, Comes
  <2> QED BY <1>4, <2>1, <2>2, Placement DEF Right
<1> QED BY <1>1, <1>2, <1>3, <1>4, <1>5 DEF TruthInv, Truth

LEMMA CustomersTruth ==
    ASSUME DashboardInv, TruthInv, CustomersListPage
    PROVE  TruthInv'
<1>1. screen.page = "customers" /\ "customers" \in Lists \ {"threads"}
  BY DEF CustomersListPage, Lists
<1>2. CASE \E term \in Things \cup {Nil} : Search(term)
  BY <1>1, <1>2, SearchTruth
<1>3. CASE CreateRow("customers") \/ DeleteRow("customers") \/ EditRow("customers")
  BY <1>1, <1>3, RowPageTruth
<1> QED BY <1>2, <1>3 DEF CustomersListPage
(* The customers found, once they are no longer shown: what is going to be  *)
(* shown is nothing, or what was.                                          *)
LEMMA Forgotten ==
    ASSUME NEW s, s \in Seq(ToSet(s)), \A k \in DOMAIN s : WellFormed(s[k]),
           NEW v, NEW held, Views("candidates", v, held, s),
           NEW w, NEW none, Views("candidates", w, none, s)
    PROVE  w[Len(s)] \in {v[Len(s)], none}
<1> DEFINE Wrong == {k \in 0..Len(s) : w[k] \notin {v[k], none}}
<1>0. Len(s) \in Nat /\ DOMAIN s = 1..Len(s)
  BY ListOf
<1>1. ASSUME Wrong # {} PROVE FALSE
  <2>1. PICK k \in Wrong : \A j \in Wrong : k <= j
    <3>1. PICK T : T = Wrong
      OBVIOUS
    <3>2. T \subseteq Nat /\ T # {}
      <4>1. T \subseteq 0..Len(s)
        BY <3>1
      <4> QED BY <1>0, <1>1, <3>1, <4>1
    <3>3. \E x \in T : \A y \in T : x <= y
      <4> HIDE DEF Wrong
      <4> QED BY <3>2, Smallest
    <3> QED BY <3>1, <3>3
  <2>2. k \in 0..Len(s) /\ w[k] \notin {v[k], none}
    BY <2>1
  <2>3. k # 0
    BY <2>2 DEF Views
  <2>4. k - 1 \in 0..Len(s) /\ ~(k <= k - 1) /\ k \in 1..Len(s)
    BY <1>0, <2>2, <2>3
  <2>5. w[k - 1] \in {v[k - 1], none}
    BY <2>1, <2>4
  <2>6. /\ w[k] = After("candidates", w[k - 1], s[k])
        /\ v[k] = After("candidates", v[k - 1], s[k])
    BY <2>4 DEF Views
  <2>7. CASE s[k].op = "load"
    <3>1. CASE Counts(s[k], "candidates")
      BY <2>2, <2>6, <2>7, <3>1 DEF After, Effect
    <3>2. CASE ~Counts(s[k], "candidates")
      BY <2>2, <2>5, <2>6, <3>2 DEF After
    <3> QED BY <3>1, <3>2
  <2>8. CASE s[k].op # "load"
    <3>1. Idle("candidates", s[k])
      BY <1>0, <2>4, <2>8, FormEffects
    <3> QED BY <2>2, <2>5, <2>6, <3>1 DEF Idle
  <2> QED BY <2>7, <2>8
<1>2. Len(s) \in 0..Len(s)
  BY <1>0
<1> QED BY <1>1, <1>2

LEMMA NoRowsFit ==
    ASSUME NEW scr, NEW srv, NEW gone
    PROVE  Fits("candidates", NoRows, scr, srv, gone)
<1>1. "candidates" \notin Lists \cup Wholes \cup Reports
  BY KindsApart
<1>2. \A t \in Things : NoRows[t] = "none"
  BY DEF NoRows
<1> QED BY <1>1, <1>2 DEF Fits

LEMMA FindCustomerTruth ==
    ASSUME DashboardInv, TruthInv, FindCustomer
    PROVE  TruthInv'
<1>1. screen.page = "booking"
  BY DEF FindCustomer
<1>2. CASE \E term \in Things : Search(term)
  BY <1>1, <1>2, SearchTruth
<1>3. CASE Change([screen EXCEPT !.filter = Nil, !.timer = FALSE,
                      !.held["candidates"] = NoRows, !.hitch = @ \/ inflight # << >>])
  <2>0. PICK hitch : hitch = (screen.hitch \/ inflight # << >>)
    OBVIOUS
  <2>1. PICK s, scr, srv, held, new :
            /\ s = inflight /\ scr = screen /\ srv = server
            /\ held = [screen.held EXCEPT !["candidates"] = NoRows]
            /\ new = [screen EXCEPT !.filter = Nil, !.timer = FALSE,
                        !.held = held, !.hitch = hitch]
    OBVIOUS
  <2>2. /\ DOMAIN scr = ScreenFields /\ DOMAIN scr.held = {"candidates"}
        /\ HasShape(srv) /\ (~scr.hitch => Right(s, scr, srv))
    BY <1>1, <2>1, Named, PartsOfPages
  <2>3. screen' = new /\ inflight' = s /\ server' = srv
    BY <1>3, <2>0, <2>1, <2>2 DEF Change, Aside, ScreenFields
  <2>4. /\ new.page = scr.page /\ new.id = scr.id /\ new.held = held /\ ~new.timer
        /\ new.hitch = hitch
    BY <2>1, <2>2 DEF ScreenFields
  <2>5. DOMAIN held = {"candidates"} /\ held["candidates"] = NoRows
    BY <2>1, <2>2
  <2>6. ASSUME ~new.hitch PROVE Right(s, new, srv)
    <3>1. s = << >> /\ DOMAIN s = {} /\ Len(s) = 0
      <4>1. inflight = << >>
        BY <2>0, <2>4, <2>6
      <4> QED BY <2>1, <4>1
    <3>2. Followed(new) \subseteq {"candidates"}
      BY <2>4, <2>5 DEF Followed
    <3>3. PICK v : v = [k \in 0..0 |-> NoRows]
      OBVIOUS
    <3>4. v[0] = NoRows
      BY <3>3
    <3>5. Views("candidates", v, new.held["candidates"], s)
      BY <2>4, <2>5, <3>1, <3>4 DEF Views
    <3>6. Comes("candidates", s, new, srv)
      <4>1. Fits("candidates", v[Len(s)], new, srv, Removing(s))
        BY <3>1, <3>4, NoRowsFit
      <4> QED BY <3>5, <4>1 DEF Comes
    <3>7. "candidates" \notin Wholes
      BY DEF Wholes
    <3>8. Superseded("candidates", s, new)
      BY <3>1 DEF Superseded
    <3> QED BY <3>1, <3>2, <3>6, <3>7, <3>8 DEF Right, InOrder, Promised
  <2> QED BY <1>1, <2>1, <2>2, <2>3, <2>4, <2>6 DEF TruthInv, Truth
<1> QED BY <1>2, <1>3 DEF FindCustomer

LEMMA SelectCustomerTruth ==
    ASSUME DashboardInv, TruthInv, SelectCustomer
    PROVE  TruthInv'
<1>0. screen.page = "booking" /\ DOMAIN screen = ScreenFields
      /\ DOMAIN screen.held = {"candidates"}
  BY Named, PartsOfPages DEF SelectCustomer
<1>1. CASE Change([screen EXCEPT !.sel = Nil])
  <2>1. PICK new : new = [screen EXCEPT !.sel = Nil] /\ Change(new)
    BY <1>1
  <2>2. /\ DOMAIN new.held = DOMAIN screen.held
        /\ \A x \in {"page", "id", "held", "timer", "filter", "hitch", "loading"} :
              new[x] = screen[x]
    BY <1>0, <2>1 DEF ScreenFields
  <2>3. screen' = new /\ UNCHANGED <<inflight, server>>
    BY <2>1 DEF Change, Aside
  <2>4. new.loading = screen.loading
    BY <2>2
  <2> QED BY <1>0, <2>2, <2>3, <2>4, SeenTruth
<1>2. CASE \E t \in Row("candidates") :
              Change([screen EXCEPT !.sel = t, !.held["candidates"] = NoRows])
  <2>1. PICK t : Change([screen EXCEPT !.sel = t, !.held["candidates"] = NoRows])
    BY <1>2
  <2>2. PICK s, scr, srv, held, new :
            /\ s = inflight /\ scr = screen /\ srv = server
            /\ held = [screen.held EXCEPT !["candidates"] = NoRows]
            /\ new = [screen EXCEPT !.sel = t, !.held = held]
    OBVIOUS
  <2>3. /\ DOMAIN scr = ScreenFields /\ DOMAIN scr.held = {"candidates"}
        /\ s \in Seq(ToSet(s)) /\ \A k \in DOMAIN s : WellFormed(s[k])
        /\ HasShape(srv) /\ (~scr.hitch => Right(s, scr, srv))
    BY <1>0, <2>2, Named
  <2>4. screen' = new /\ inflight' = s /\ server' = srv
    BY <2>1, <2>2, <2>3 DEF Change, Aside, ScreenFields
  <2>5. /\ new.page = scr.page /\ new.id = scr.id /\ new.held = held /\ new.timer = scr.timer
        /\ new.filter = scr.filter /\ new.hitch = scr.hitch
    BY <2>2, <2>3 DEF ScreenFields
  <2>6. DOMAIN held = {"candidates"} /\ held["candidates"] = NoRows
    BY <2>2, <2>3
  <2>7. ASSUME ~scr.hitch PROVE Right(s, new, srv)
    <3>1. Right(s, scr, srv) /\ Followed(scr) = {"candidates"}
      BY <1>0, <2>2, <2>3, <2>7 DEF Followed
    <3>2. Promised("candidates", s, scr, srv)
      BY <3>1 DEF Right
    <3>3. SameSight("candidates", new, scr)
      BY <2>5 DEF SameSight
    <3>4. Comes("candidates", s, new, srv)
      <4>1. CASE scr.timer \/ Waits("candidates", s)
        BY <2>5, <4>1 DEF Comes
      <4>2. CASE ~(scr.timer \/ Waits("candidates", s))
        <5>1. PICK v : /\ Views("candidates", v, scr.held["candidates"], s)
                       /\ Fits("candidates", v[Len(s)], scr, srv, Removing(s))
          BY <3>2, <4>2 DEF Promised, Comes
        <5>2. PICK before, none : before = scr.held["candidates"] /\ none = new.held["candidates"]
          OBVIOUS
        <5>3. PICK w : Views("candidates", w, none, s)
          BY <2>3, ViewsExist
        <5>4. w[Len(s)] \in {v[Len(s)], none}
          <6>1. Views("candidates", v, before, s)
            BY <5>1, <5>2
          <6> QED BY <2>3, <5>3, <6>1, Forgotten
        <5>5. Fits("candidates", w[Len(s)], new, srv, Removing(s))
          <6>1. CASE w[Len(s)] = v[Len(s)]
            BY <3>3, <5>1, <6>1, SightKept
          <6>2. CASE w[Len(s)] = none
            BY <2>5, <2>6, <5>2, <6>2, NoRowsFit
          <6> QED BY <5>4, <6>1, <6>2
        <5> QED BY <5>2, <5>3, <5>5 DEF Comes
      <4> QED BY <4>1, <4>2
    <3>5. Promised("candidates", s, new, srv)
      <4>1. "candidates" \notin Wholes
        BY DEF Wholes
      <4> QED BY <3>2, <3>3, <3>4, <4>1, SightKept DEF Promised
    <3> QED BY <2>3, <2>5, <2>6, <3>1, <3>5, Placement DEF Right
  <2> QED BY <1>0, <2>2, <2>4, <2>5, <2>7, Named DEF TruthInv, Truth
<1> QED BY <1>1, <1>2 DEF SelectCustomer
-----------------------------------------------------------------------------
(* Answers. *)

(* What a step leaves to be shown, once it is known what the page is.      *)
LEMMA TruthFrom ==
    ASSUME DashboardInv, TruthInv, UNCHANGED server, NEW new, screen' = new,
           \A x \in {"page", "timer", "filter"} : new[x] = screen[x],
           ~new.hitch => Right(inflight', new, server)
    PROVE  TruthInv'
<1>1. new.page = screen.page /\ new.timer = screen.timer /\ new.filter = screen.filter
  OBVIOUS
<1> QED BY <1>1, Named DEF TruthInv, Truth

(* What next: shows.                                                       *)
Brings(scr, r, s) ==
    /\ DOMAIN s = ScreenFields /\ DOMAIN s.held = DOMAIN scr.held
    /\ \A x \in {"page", "id", "sel", "filter", "timer", "hitch"} : s[x] = scr[x]
    /\ s.loading = IF r.op = "load" THEN scr.loading \ Group(r.part) ELSE scr.loading
    /\ \A q \in DOMAIN scr.held :
          s.held[q] = IF q \in Group(r.part) THEN Effect(q, scr.held[q], r) ELSE scr.held[q]

LEMMA AnsweredSeen ==
    ASSUME DashboardInv, NEW r, WellFormed(r), NEW s, s = Answered(screen, r)
    PROVE  Brings(screen, r, s)
<1>1. PICK f : f = Freed(screen, r)
  OBVIOUS
<1>2. /\ DOMAIN f = ScreenFields
      /\ \A x \in ScreenFields \ {"busy"} : f[x] = screen[x]
  BY <1>1, FreedBusy
<1>3. /\ \A x \in {"page", "id", "sel", "filter", "timer", "hitch"} : f[x] = screen[x]
      /\ f.loading = screen.loading /\ f.held = screen.held
  BY <1>2 DEF ScreenFields
<1>4. CASE r.op = "load"
  <2>1. PICK held : held = [q \in DOMAIN f.held |-> IF q \in Group(r.part) THEN r.reply[q]
                                                    ELSE f.held[q]]
    OBVIOUS
  <2>2. s = [f EXCEPT !.loading = f.loading \ Group(r.part), !.held = held]
    BY <1>1, <1>2, <1>4, <2>1 DEF Answered, ScreenFields
  <2>3. DOMAIN held = DOMAIN screen.held
        /\ \A q \in DOMAIN screen.held :
              held[q] = IF q \in Group(r.part) THEN Effect(q, screen.held[q], r)
                        ELSE screen.held[q]
    BY <1>3, <1>4, <2>1 DEF Effect
  <2>4. /\ DOMAIN s = ScreenFields /\ s.held = held
        /\ s.loading = f.loading \ Group(r.part)
        /\ \A x \in {"page", "id", "sel", "filter", "timer", "hitch"} : s[x] = f[x]
    BY <1>2, <2>2 DEF ScreenFields
  <2> QED BY <1>3, <1>4, <2>3, <2>4 DEF Brings
<1>5. CASE r.op \in {"create", "edit", "set", "assign", "delete", "send", "drop", "cancel",
                     "changePlan", "cancelPlan", "resume"}
  <2>1. PICK part, view, rows :
            /\ part = r.part /\ view = screen.held[r.part]
            /\ rows = CASE r.op = "create" -> [view EXCEPT ![r.arg] = "on"]
                        [] r.op \in {"edit", "set", "assign"} -> Replaced(view, r.arg, r.reply)
                        [] r.op = "delete" -> [view EXCEPT ![r.arg] = "none"]
                        [] r.op = "send" -> [view EXCEPT ![r.arg] = @ + 1]
                        [] r.op = "drop" ->
                             [view EXCEPT ![r.arg] = NoVisit, ![r.reply] = Live(r.value)]
                        [] OTHER -> r.reply
    OBVIOUS
  <2>2. Group(part) = {part}
    BY <1>5, <2>1 DEF WellFormed, Lists, Group
  <2>3. PICK held : held = [screen.held EXCEPT ![part] = rows]
    OBVIOUS
  <2>4. s = [f EXCEPT !.held = held] \/ s = [f EXCEPT !.held = held, !.editing = Nil]
    <3>1. CASE r.op = "create"
      BY <1>1, <1>2, <1>3, <2>1, <2>3, <3>1 DEF Answered, ScreenFields
    <3>2. CASE r.op = "edit"
      BY <1>1, <1>2, <1>3, <2>1, <2>3, <3>2 DEF Answered, ScreenFields
    <3>3. CASE r.op \in {"set", "assign"}
      BY <1>1, <1>2, <1>3, <2>1, <2>3, <3>3 DEF Answered, ScreenFields
    <3>4. CASE r.op = "delete"
      BY <1>1, <1>2, <1>3, <2>1, <2>3, <3>4 DEF Answered, ScreenFields
    <3>5. CASE r.op = "send"
      <4>1. part = "messages"
        BY <2>1, <3>5 DEF WellFormed
      <4> QED BY <1>1, <1>2, <1>3, <2>1, <2>3, <3>5, <4>1 DEF Answered, ScreenFields
    <3>6. CASE r.op = "drop"
      <4>1. part = "visits"
        BY <2>1, <3>6 DEF WellFormed
      <4> QED BY <1>1, <1>2, <1>3, <2>1, <2>3, <3>6, <4>1 DEF Answered, ScreenFields
    <3>7. CASE r.op = "cancel"
      <4>1. part = "visit" /\ rows = r.reply
        BY <2>1, <3>7 DEF WellFormed
      <4> QED BY <1>1, <1>2, <1>3, <2>3, <3>7, <4>1 DEF Answered, ScreenFields
    <3>8. CASE r.op \in {"changePlan", "cancelPlan", "resume"}
      <4>1. part = "subscription" /\ rows = r.reply
        BY <2>1, <3>8 DEF WellFormed
      <4> QED BY <1>1, <1>2, <1>3, <2>3, <3>8, <4>1 DEF Answered, ScreenFields
    <3> QED BY <1>5, <3>1, <3>2, <3>3, <3>4, <3>5, <3>6, <3>7, <3>8
  <2>5. rows = Effect(part, view, r)
    BY <1>5, <2>1 DEF Effect
  <2>6. DOMAIN held = DOMAIN screen.held
        /\ \A q \in DOMAIN screen.held :
              held[q] = IF q \in Group(r.part) THEN Effect(q, screen.held[q], r)
                        ELSE screen.held[q]
    BY <2>1, <2>2, <2>3, <2>5
  <2>7. /\ DOMAIN s = ScreenFields /\ s.held = held /\ s.loading = f.loading
        /\ \A x \in {"page", "id", "sel", "filter", "timer", "hitch"} : s[x] = f[x]
    BY <1>2, <2>4 DEF ScreenFields
  <2> QED BY <1>3, <1>5, <2>6, <2>7 DEF Brings
<1>6. CASE r.op \notin {"load", "create", "edit", "set", "assign", "delete", "send", "drop",
                        "cancel", "changePlan", "cancelPlan", "resume"}
  <2>1. s = f
    BY <1>1, <1>6 DEF Answered
  <2>2. \A q : Effect(q, screen.held[q], r) = screen.held[q]
    BY <1>6 DEF Effect
  <2> QED BY <1>2, <1>3, <1>6, <2>1, <2>2 DEF Brings
<1> QED BY <1>4, <1>5, <1>6

LEMMA AnswerArrivesTruth ==
    ASSUME DashboardInv, TruthInv, NEW i \in DOMAIN inflight, AnswerArrives(i)
    PROVE  TruthInv'
<1>1. PICK r, s, t, scr, srv : /\ r = inflight[i] /\ s = inflight /\ t = RemoveAt(inflight, i)
                               /\ scr = screen /\ srv = server
  OBVIOUS
<1>2. /\ inflight' = t /\ server' = srv /\ r.state = "done" /\ r.op \notin Leaving
  BY <1>1 DEF AnswerArrives
<1>3. /\ s \in Seq(ToSet(s)) /\ \A k \in DOMAIN s : WellFormed(s[k])
      /\ DOMAIN scr = ScreenFields /\ HasShape(srv) /\ (~scr.hitch => Right(s, scr, srv))
      /\ i \in DOMAIN s /\ r = s[i] /\ t = RemoveAt(s, i)
  BY <1>1, Named
<1>4. CASE ~r.here
  <2>1. screen' = scr
    BY <1>1, <1>4 DEF AnswerArrives
  <2>2. r.op # "load"
    BY <1>3, <1>4 DEF WellFormed
  <2>3. \A q, view : After(q, view, r) = view
    BY <1>4 DEF After, Counts, Concerns
  <2>4. \A q : SameSight(q, scr, scr)
    BY DEF SameSight
  <2>5. ~scr.hitch => Right(t, scr, srv)
    BY <1>3, <1>4, <2>2, <2>3, <2>4, RightWithout
  <2> QED BY <1>1, <1>2, <2>1, <2>5, TruthFrom
<1>5. CASE r.here
  <2>1. PICK ans : ans = Answered(screen, r)
    OBVIOUS
  <2>2. PICK overtakes : overtakes = (\E k \in 1..(i - 1) : inflight[k].here /\ Overlap(inflight[k], r))
    OBVIOUS
  <2>3. PICK hitch : hitch = (ans.hitch \/ overtakes)
    OBVIOUS
  <2>4. PICK new : new = [ans EXCEPT !.hitch = hitch]
    OBVIOUS
  <2>5. /\ DOMAIN ans = ScreenFields /\ DOMAIN ans.held = DOMAIN scr.held
        /\ \A x \in {"page", "id", "sel", "filter", "timer", "hitch"} : ans[x] = scr[x]
        /\ ans.loading = IF r.op = "load" THEN scr.loading \ Group(r.part)
                         ELSE scr.loading
        /\ \A q \in DOMAIN scr.held :
              ans.held[q] = IF q \in Group(r.part) THEN Effect(q, scr.held[q], r)
                            ELSE scr.held[q]
    <3>1. WellFormed(r)
      BY <1>3
    <3>2. Brings(screen, r, ans)
      BY <2>1, <3>1, AnsweredSeen
    <3> QED BY <1>1, <3>2 DEF Brings
  <2>6. screen' = new
    BY <1>1, <1>5, <2>1, <2>2, <2>3, <2>4, <2>5 DEF AnswerArrives, ScreenFields
  <2>7. /\ new.held = ans.held /\ new.loading = ans.loading /\ new.hitch = hitch
        /\ \A x \in {"page", "id", "sel", "filter", "timer"} : new[x] = scr[x]
    BY <2>4, <2>5 DEF ScreenFields
  <2>8. /\ new.page = scr.page /\ new.id = scr.id /\ new.sel = scr.sel
        /\ new.filter = scr.filter /\ new.timer = scr.timer
    BY <2>7
  <2>9. ASSUME ~hitch PROVE Right(t, new, srv)
    <3>1. ~scr.hitch /\ ~overtakes
      BY <2>3, <2>5, <2>9
    <3>2. \A k \in DOMAIN s : k < i /\ s[k].here => ~Overlap(s[k], s[i])
      <4>1. DOMAIN s = 1..Len(s) /\ Len(s) \in Nat
        BY <1>3, ListOf
      <4>2. \A k \in DOMAIN s : k < i => k \in 1..(i - 1)
        BY <1>3, <4>1
      <4> QED BY <1>1, <1>3, <2>2, <3>1, <4>2
    <3>3. Right(s, scr, srv)
      BY <1>3, <3>1
    <3>4. ASSUME NEW q \in Followed(scr)
          PROVE  /\ SameSight(q, new, scr)
                 /\ q \in scr.loading => q \in new.loading \/ Asks(s[i], q)
                 /\ \/ new.held[q] = scr.held[q] /\ \A view : After(q, view, s[i]) = view
                    \/ /\ new.held[q] = After(q, scr.held[q], s[i])
                       /\ \A k \in DOMAIN s : k < i => ~Counts(s[k], q)
      <4>1. SameSight(q, new, scr)
        BY <2>8 DEF SameSight
      <4>2. q \in scr.loading => q \in new.loading \/ Asks(s[i], q)
        BY <1>3, <1>5, <2>5, <2>7 DEF Asks, Concerns
      <4>3. q \in DOMAIN scr.held
        BY DEF Followed
      <4>4. CASE q \in Group(r.part)
        <5>1. Counts(r, q)
          BY <1>2, <1>5, <4>4 DEF Counts, Concerns
        <5>2. new.held[q] = After(q, scr.held[q], s[i])
          BY <1>3, <2>5, <2>7, <4>3, <4>4, <5>1 DEF After
        <5>3. ASSUME NEW k \in DOMAIN s, k < i PROVE ~Counts(s[k], q)
          <6>1. ASSUME Counts(s[k], q) PROVE FALSE
            <7>1. s[k].here /\ Subject(q) \in Touches(s[k])
              BY <6>1, PartShared DEF Counts, Concerns
            <7>2. Overlap(s[k], r)
              BY <4>4, <7>1, PartShared
            <7> QED BY <1>3, <3>2, <5>3, <7>1, <7>2
          <6> QED BY <6>1
        <5> QED BY <4>1, <4>2, <5>2, <5>3
      <4>5. CASE q \notin Group(r.part)
        <5>1. \A view : After(q, view, s[i]) = view
          BY <1>3, <4>5 DEF After, Counts, Concerns
        <5>2. new.held[q] = scr.held[q]
          BY <2>5, <2>7, <4>3, <4>5
        <5> QED BY <4>1, <4>2, <5>1, <5>2
      <4> QED BY <4>4, <4>5
    <3>5. r.op # "remove"
      BY <1>2 DEF Leaving
    <3>6. DOMAIN new.held = DOMAIN scr.held
      BY <2>5, <2>7
    <3> QED BY <1>2, <1>3, <2>8, <3>2, <3>3, <3>4, <3>5, <3>6, RightWithout
  <2> QED BY <1>1, <1>2, <2>6, <2>7, <2>9, TruthFrom
<1> QED BY <1>4, <1>5
-----------------------------------------------------------------------------
(* New pages. *)

(* The parts that the pages ask for, each once. *)
LEMMA AskedOnce ==
    ASSUME NEW p \in Pages
    PROVE  /\ \A i \in DOMAIN Asked(p) :
                 /\ Asked(p)[i] = "visit" => p = "appointment"
                 /\ Asked(p)[i] = "visits" => p = "calendar"
                 /\ Asked(p)[i] = "customers" => p = "customers"
                 /\ Asked(p)[i] # "candidates"
           /\ \A i, j \in DOMAIN Asked(p) :
                 Group(Asked(p)[i]) \cap Group(Asked(p)[j]) # {} => i = j
<1>1. CASE p = "settings"
  <2>1. PICK a : a = Asked(p)
    OBVIOUS
  <2>2. a = <<"tenant", "settingsAndAi", "invitations", "whatsapp">>
    BY <1>1, <2>1 DEF Asked
  <2>3. /\ DOMAIN a = {1, 2, 3, 4} /\ a[1] = "tenant" /\ a[2] = "settingsAndAi"
        /\ a[3] = "invitations" /\ a[4] = "whatsapp"
    BY <2>2
  <2>4. /\ Group(a[1]) = {"tenant"} /\ Group(a[2]) = {"settings", "ai"}
        /\ Group(a[3]) = {"invitations"} /\ Group(a[4]) = {"whatsapp"}
    BY <2>3 DEF Group
  <2>5. ASSUME NEW i \in DOMAIN a, NEW j \in DOMAIN a, Group(a[i]) \cap Group(a[j]) # {}
        PROVE  i = j
    <3>1. CASE i = 1
      BY <2>3, <2>4, <2>5, <3>1
    <3>2. CASE i = 2
      BY <2>3, <2>4, <2>5, <3>2
    <3>3. CASE i = 3
      BY <2>3, <2>4, <2>5, <3>3
    <3>4. CASE i = 4
      BY <2>3, <2>4, <2>5, <3>4
    <3> QED BY <2>3, <3>1, <3>2, <3>3, <3>4
  <2> QED BY <2>1, <2>3, <2>5
<1>2. CASE p = "billing" \/ p = "thread"
  <2>1. PICK a, x, y : /\ a = Asked(p) /\ a = <<x, y>>
                       /\ \/ x = "subscription" /\ y = "billingPlans"
                          \/ x = "threads" /\ y = "messages"
    BY <1>2 DEF Asked
  <2>2. DOMAIN a = {1, 2} /\ a[1] = x /\ a[2] = y /\ Group(x) = {x} /\ Group(y) = {y} /\ x # y
    BY <2>1 DEF Group
  <2> QED BY <2>1, <2>2
<1>3. CASE p \in {"booking", "home"}
  <2>1. Asked(p) = << >>
    BY <1>3 DEF Asked
  <2> QED BY <2>1
<1>4. CASE p \notin {"settings", "billing", "thread", "booking", "home"}
  <2>1. PICK x : /\ Asked(p) = <<x>>
                 /\ x = CASE p = "employee" -> "employeePage" [] p = "inbox" -> "threads"
                          [] p = "calendar" -> "visits" [] p = "appointment" -> "visit"
                          [] OTHER -> p
    BY <1>4 DEF Asked, Pages, StaffPages, ManagerPages, AdminPages
  <2>2. DOMAIN Asked(p) = {1} /\ Asked(p)[1] = x
    BY <2>1
  <2>3. /\ x = "visit" => p = "appointment"
        /\ x = "visits" => p = "calendar"
        /\ x = "customers" => p = "customers"
        /\ x # "candidates"
    BY <2>1 DEF Pages, StaffPages, ManagerPages, AdminPages
  <2> QED BY <2>2, <2>3
<1> QED BY <1>1, <1>2, <1>3, <1>4

LEMMA FollowedAsked ==
    ASSUME NEW p \in Pages, NEW scr, scr.page = p, DOMAIN scr.held = PartsOf(p),
           NEW q \in Followed(scr)
    PROVE  \/ \E i \in DOMAIN Asked(p) : q \in Group(Asked(p)[i])
           \/ q = "candidates" /\ p = "booking"
<1>1. PICK asked : asked = UNION {Group(Asked(p)[i]) : i \in DOMAIN Asked(p)}
  OBVIOUS
<1>2. PartsOf(p) = asked \cup (IF p = "booking" THEN {"candidates"} ELSE {})
                         \cup (IF p = "inbox" THEN {"messages"} ELSE {})
  BY <1>1 DEF PartsOf
<1>3. q \in PartsOf(p) /\ (p = "inbox" => q # "messages")
  BY DEF Followed
<1>4. q \in asked \/ (q = "candidates" /\ p = "booking")
  BY <1>2, <1>3
<1> QED BY <1>1, <1>4

(* The requests of a new page come after the m that earlier pages left. *)
Queued(t, m, new, asked) ==
    /\ t \in Seq(ToSet(t)) /\ Len(asked) \in Nat
    /\ DOMAIN t = 1..(m + Len(asked))
    /\ \A k \in 1..m : ~t[k].here /\ t[k].op # "load"
    /\ \A i \in 1..Len(asked) : t[m + i] = Load(new, asked[i])

LEMMA FreshRequests ==
    ASSUME NEW p \in Pages \cup {"login", "stripe"}, NEW new, new.page = p,
           NEW reqs, reqs \in Seq(ToSet(reqs)), \A r \in ToSet(reqs) : DOMAIN r = RequestFields,
           NEW t, t = Orphaned(reqs) \o Constructor(new)
    PROVE  \E m \in Nat : Queued(t, m, new, Asked(p))
<1>1. PICK o, c, asked : o = Orphaned(reqs) /\ c = Constructor(new) /\ asked = Asked(p)
  OBVIOUS
<1>2. /\ o \in Seq(ToSet(o))
      /\ \A x \in ToSet(o) : \E r \in ToSet(reqs) : r.op # "load" /\ x = [r EXCEPT !.here = FALSE]
  BY <1>1, OrphanedSet
<1>3. DOMAIN asked = 1..Len(asked) /\ Len(asked) \in Nat
  BY <1>1, AskedParts
<1>4. c \in Seq(ToSet(c)) /\ c = [i \in 1..Len(asked) |-> Load(new, asked[i])]
  BY <1>1, <1>3, ConstructorAsks DEF Constructor
<1>5. DOMAIN c = 1..Len(asked) /\ Len(c) = Len(asked)
      /\ \A i \in 1..Len(asked) : c[i] = Load(new, asked[i])
  BY <1>3, <1>4
<1>6. t \in Seq(ToSet(t)) /\ Len(o) \in Nat /\ DOMAIN t = 1..(Len(o) + Len(c))
      /\ (\A k \in 1..Len(o) : t[k] = o[k]) /\ \A k \in 1..Len(c) : t[Len(o) + k] = c[k]
  <2>1. t = o \o c
    BY <1>1
  <2>2. PICK S : S = ToSet(o) \cup ToSet(c)
    OBVIOUS
  <2>3. o \in Seq(S) /\ c \in Seq(S)
    BY <1>2, <1>4, <2>2
  <2>4. /\ t \in Seq(S) /\ Len(t) = Len(o) + Len(c) /\ Len(o) \in Nat /\ Len(c) \in Nat
        /\ \A k \in 1..(Len(o) + Len(c)) : t[k] = IF k <= Len(o) THEN o[k] ELSE c[k - Len(o)]
    BY <2>1, <2>3, ConcatProperties
  <2>5. t \in Seq(ToSet(t)) /\ DOMAIN t = 1..Len(t)
    BY <2>4, ListOf
  <2>6. \A k \in 1..Len(o) : t[k] = o[k]
    BY <2>4
  <2>7. ASSUME NEW k \in 1..Len(c) PROVE t[Len(o) + k] = c[k]
    <3>1. Len(o) + k \in 1..(Len(o) + Len(c)) /\ ~(Len(o) + k <= Len(o))
          /\ (Len(o) + k) - Len(o) = k
      BY <2>4
    <3> QED BY <2>4, <3>1
  <2> QED BY <2>4, <2>5, <2>6, <2>7
<1>7. ASSUME NEW k \in 1..Len(o) PROVE ~t[k].here /\ t[k].op # "load"
  <2>1. o[k] \in ToSet(o)
    BY <1>2, <1>7
  <2>2. PICK r \in ToSet(reqs) : r.op # "load" /\ o[k] = [r EXCEPT !.here = FALSE]
    BY <1>2, <2>1
  <2> QED BY <1>6, <1>7, <2>2 DEF RequestFields
<1>8. Queued(t, Len(o), new, asked)
  BY <1>3, <1>5, <1>6, <1>7 DEF Queued
<1> QED BY <1>1, <1>6, <1>8
(* A page that was just opened is going to show what is stored. *)
LEMMA FreshRight ==
    ASSUME NEW p \in Pages, NEW id, NEW new, new = Fresh(p, id),
           NEW reqs, reqs \in Seq(ToSet(reqs)), \A r \in ToSet(reqs) : DOMAIN r = RequestFields,
           NEW t, t = Orphaned(reqs) \o Constructor(new), NEW srv
    PROVE  Right(t, new, srv)
<1>1. /\ new.page = p /\ DOMAIN new.held = PartsOf(p)
      /\ PartsOf(p) \cap Wholes \subseteq new.loading
  BY FreshWaits
<1>2. PICK asked, n : asked = Asked(p) /\ n = Len(asked)
  OBVIOUS
<1>3. PICK m \in Nat :
          /\ DOMAIN t = 1..(m + n) /\ n \in Nat
          /\ t \in Seq(ToSet(t))
          /\ \A k \in 1..m : ~t[k].here /\ t[k].op # "load"
          /\ \A i \in 1..n : t[m + i] = Load(new, asked[i])
  <2>1. PICK m \in Nat : Queued(t, m, new, asked)
    BY <1>1, <1>2, FreshRequests
  <2> QED BY <1>2, <2>1 DEF Queued
<1>4. DOMAIN asked = 1..n /\ asked = Asked(p)
  BY <1>2, AskedParts
<1>5. ASSUME NEW k \in DOMAIN t
      PROVE  \/ k \in 1..m /\ ~t[k].here /\ t[k].op # "load"
             \/ \E i \in DOMAIN asked :
                   /\ k = m + i /\ t[k] = Load(new, asked[i])
                   /\ t[k].op = "load" /\ t[k].part = asked[i] /\ t[k].here
                   /\ t[k].arg = Criterion(new, asked[i]) /\ t[k].state = "sent"
  <2>1. CASE k \in 1..m
    BY <1>3, <2>1
  <2>2. CASE k \notin 1..m
    <3>1. PICK i : i = k - m
      OBVIOUS
    <3>2. i \in 1..n /\ k = m + i
      BY <1>3, <1>5, <2>2, <3>1
    <3>3. t[k] = Load(new, asked[i])
      BY <1>3, <3>2
    <3>4. /\ t[k].op = "load" /\ t[k].part = asked[i] /\ t[k].here
          /\ t[k].arg = Criterion(new, asked[i]) /\ t[k].state = "sent"
      BY <3>3 DEF Load, Request
    <3> QED BY <1>4, <3>2, <3>3, <3>4
  <2> QED BY <2>1, <2>2
<1>6. ASSUME NEW k \in DOMAIN t, t[k].here PROVE Placed(t[k], new)
  <2>1. PICK i \in DOMAIN asked : /\ t[k].op = "load" /\ t[k].part = asked[i]
                                  /\ t[k].arg = Criterion(new, asked[i])
    BY <1>5, <1>6
  <2>2. /\ asked[i] = "visit" => p = "appointment"
        /\ asked[i] = "visits" => p = "calendar"
        /\ asked[i] = "customers" => p = "customers"
        /\ asked[i] # "candidates"
    BY <1>4, AskedOnce
  <2>3. asked[i] = "visit" => t[k].arg = new.id
    BY <2>1 DEF Criterion
  <2> QED BY <1>1, <2>1, <2>2, <2>3 DEF Placed
<1>7. InOrder(t)
  <2>1. \A k \in DOMAIN t : t[k].here => t[k].state = "sent"
    BY <1>5
  <2> QED BY <2>1 DEF InOrder
<1>8. ASSUME NEW q \in Followed(new), NEW i \in DOMAIN asked, q \in Group(asked[i])
      PROVE  Promised(q, t, new, srv)
  <2>1. PICK k : k = m + i
    OBVIOUS
  <2>2. k \in DOMAIN t /\ t[k] = Load(new, asked[i])
    BY <1>3, <1>4, <2>1
  <2>3. Asks(t[k], q) /\ t[k].state = "sent"
    BY <1>8, <2>2 DEF Load, Request, Asks, Concerns
  <2>4. Superseded(q, t, new)
    <3> SUFFICES ASSUME NEW j \in DOMAIN t, Stale(t[j], q, new) PROVE j < k
      BY <2>2, <2>3 DEF Superseded
    <3>1. CASE j \in 1..m
      <4>1. i \in 1..n
        BY <1>4
      <4> QED BY <1>3, <2>1, <3>1, <4>1
    <3>2. ASSUME NEW x \in DOMAIN asked, t[j].op = "load", t[j].part = asked[x], t[j].here,
                 t[j].arg = Criterion(new, asked[x])
          PROVE  FALSE
      <4>1. Asks(t[j], q) /\ t[j].arg # Criterion(new, q)
        BY <3>2 DEF Stale
      <4>2. Criterion(new, asked[x]) = Criterion(new, q)
        BY <3>2, <4>1, GroupOf DEF Asks, Concerns
      <4> QED BY <3>2, <4>1, <4>2
    <3> QED BY <1>5, <3>1, <3>2
  <2>5. ASSUME q \in Wholes PROVE FormIsKept(q, t, new, srv)
    <3>1. ASSUME NEW j \in DOMAIN t, Concerns(t[j], q)
          PROVE  t[j].op = "load" /\ j = k
      <4>1. PICK x \in DOMAIN asked : j = m + x /\ t[j].op = "load" /\ t[j].part = asked[x]
        BY <1>5, <3>1 DEF Concerns
      <4>2. q \in Group(asked[x]) /\ q \in Group(asked[i])
        BY <1>8, <3>1, <4>1 DEF Concerns
      <4>3. x = i
        BY <1>4, <4>2, AskedOnce
      <4> QED BY <2>1, <4>1, <4>3
    <3>2. q \in new.loading
      BY <1>1, <2>5 DEF Followed
    <3> QED BY <3>1, <3>2 DEF FormIsKept, Asks
  <2> QED BY <2>2, <2>3, <2>4, <2>5 DEF Promised, Comes, Waits
<1>9. ASSUME p = "booking" PROVE Promised("candidates", t, new, srv)
  <2>1. DOMAIN asked = {}
    <3>1. asked = << >>
      BY <1>4, <1>9 DEF Asked
    <3> QED BY <3>1
  <2>2. \A k \in DOMAIN t : ~t[k].here
    BY <1>5, <2>1
  <2>3. Superseded("candidates", t, new)
    BY <2>2 DEF Superseded, Stale, Asks, Concerns
  <2>4. new.held["candidates"] = NoRows
    <3>1. "candidates" \in PartsOf(p)
      BY <1>9, PartsOfPages
    <3>2. new.held = [part \in PartsOf(p) |-> Blank(part)]
      BY <1>9 DEF Fresh
    <3>3. Blank("candidates") = NoRows
      BY KindsApart DEF Blank
    <3> QED BY <3>1, <3>2, <3>3
  <2>5. PICK v : v = [k \in 0..Len(t) |-> NoRows]
    OBVIOUS
  <2>6. Len(t) \in Nat /\ DOMAIN t = 1..Len(t)
    BY <1>3, ListOf
  <2>7. Views("candidates", v, new.held["candidates"], t)
    <3>1. v[0] = new.held["candidates"]
      BY <2>4, <2>5, <2>6
    <3>2. ASSUME NEW k \in 1..Len(t) PROVE v[k] = After("candidates", v[k - 1], t[k])
      <4>1. k \in 0..Len(t) /\ k - 1 \in 0..Len(t) /\ k \in DOMAIN t
        BY <2>6
      <4>2. v[k] = NoRows /\ v[k - 1] = NoRows
        BY <2>5, <4>1
      <4>3. ~Counts(t[k], "candidates")
        BY <2>2, <4>1 DEF Counts, Concerns
      <4> QED BY <4>2, <4>3 DEF After
    <3> QED BY <3>1, <3>2 DEF Views
  <2>8. v[Len(t)] = NoRows
    BY <2>5, <2>6
  <2>9. Fits("candidates", v[Len(t)], new, srv, Removing(t))
    BY <2>8, NoRowsFit
  <2>10. "candidates" \notin Wholes
    BY DEF Wholes
  <2> QED BY <2>3, <2>7, <2>9, <2>10 DEF Promised, Comes
<1>10. \A q \in Followed(new) : Promised(q, t, new, srv)
  BY <1>1, <1>4, <1>8, <1>9, FollowedAsked
<1> QED BY <1>6, <1>7, <1>10 DEF Right
(* A page that shows nothing the backend has. *)
LEMMA BareParts == PartsOf("login") = {} /\ PartsOf("stripe") = {}
<1>1. Asked("login") = << >> /\ Asked("stripe") = << >>
  BY DEF Asked
<1>2. DOMAIN Asked("login") = {} /\ DOMAIN Asked("stripe") = {}
  BY <1>1
<1> QED BY <1>2 DEF PartsOf

LEMMA BareTruth ==
    ASSUME TruthInv, UNCHANGED server, screen'.page \in {"login", "stripe"},
           DOMAIN screen'.held = {}, NEW t, inflight' = t, \A k \in DOMAIN t : ~t[k].here
    PROVE  TruthInv'
BY DEF TruthInv, Truth, Right, InOrder, Followed

LEMMA FreshTruth ==
    ASSUME TruthInv, UNCHANGED server, NEW p \in Pages \cup {"login", "stripe"}, NEW id,
           NEW new, new = Fresh(p, id), screen' = new,
           NEW reqs, reqs \in Seq(ToSet(reqs)), \A r \in ToSet(reqs) : DOMAIN r = RequestFields,
           inflight' = Orphaned(reqs) \o Constructor(new)
    PROVE  TruthInv'
<1>1. new.page = p /\ DOMAIN new.held = PartsOf(p) /\ ~new.timer
  BY FreshWaits
<1>2. PICK t : t = Orphaned(reqs) \o Constructor(new)
  OBVIOUS
<1>3. CASE p \in Pages
  <2>1. Right(t, new, server)
    BY <1>2, <1>3, FreshRight
  <2> QED BY <1>1, <1>2, <2>1 DEF TruthInv, Truth
<1>4. CASE p \in {"login", "stripe"}
  <2>1. PICK m \in Nat : Queued(t, m, new, Asked(p))
    BY <1>1, <1>2, FreshRequests
  <2>2. Asked(p) = << >>
    BY AskedParts, <1>4
  <2>3. DOMAIN t = 1..(m + 0)
    BY <2>1, <2>2 DEF Queued
  <2>4. \A k \in DOMAIN t : ~t[k].here
    BY <2>1, <2>3 DEF Queued
  <2> QED BY <1>1, <1>2, <1>4, <2>4, BareParts, BareTruth
<1> QED BY <1>3, <1>4

(* The requests that a step leaves to the router. *)
LEMMA RestFields ==
    ASSUME DashboardInv, NEW i \in DOMAIN inflight, NEW rest, rest = RemoveAt(inflight, i)
    PROVE  rest \in Seq(ToSet(rest)) /\ \A r \in ToSet(rest) : DOMAIN r = RequestFields
<1>1. rest \in Seq(ToSet(rest)) /\ ToSet(rest) \subseteq Underway
  BY Rest
<1>2. \A r \in Underway : DOMAIN r = RequestFields
  BY DEF DashboardInv, RequestsAreWell, WellFormed
<1> QED BY <1>1, <1>2

LEMMA NavigateTruth ==
    ASSUME DashboardInv, TruthInv, UNCHANGED server,
           NEW s, NEW p, NEW id, NEW reqs, reqs \in Seq(ToSet(reqs)),
           \A r \in ToSet(reqs) : DOMAIN r = RequestFields,
           Navigate(s, p, id, reqs),
           Destination(s, p) \in {"nowhere", screen.page} => Truth(reqs, screen, server)
    PROVE  TruthInv'
<1>1. PICK dest : dest = Destination(s, p)
  OBVIOUS
<1>2. \/ screen' = screen /\ inflight' = reqs /\ dest \in {"nowhere", screen.page}
      \/ /\ screen' = [screen EXCEPT !.sel = id] /\ inflight' = reqs
         /\ dest = screen.page /\ dest \in {"employee", "appointment", "tenantBilling"}
      \/ /\ dest # "nowhere"
         /\ \E x : screen' = Fresh(dest, x)
                   /\ inflight' = Orphaned(reqs) \o Constructor(Fresh(dest, x))
  BY <1>1 DEF Navigate, ById
<1>3. CASE screen' = screen /\ inflight' = reqs /\ dest \in {"nowhere", screen.page}
  BY <1>1, <1>3 DEF TruthInv
<1>4. CASE /\ screen' = [screen EXCEPT !.sel = id] /\ inflight' = reqs
           /\ dest = screen.page /\ dest \in {"employee", "appointment", "tenantBilling"}
  <2>1. PICK scr, srv, new : scr = screen /\ srv = server /\ new = [screen EXCEPT !.sel = id]
    OBVIOUS
  <2>2. /\ "messages" \notin DOMAIN scr.held /\ new.page = scr.page /\ new.id = scr.id
        /\ new.held = scr.held /\ new.timer = scr.timer /\ new.filter = scr.filter
        /\ new.hitch = scr.hitch /\ new.loading = scr.loading
    BY <1>4, <2>1, Named, PartsOfPages DEF ScreenFields
  <2>3. Truth(reqs, scr, srv)
    BY <1>1, <1>4, <2>1
  <2>4. \A q \in Followed(scr) : q # "messages"
    BY <2>2 DEF Followed
  <2>5. \A q \in Followed(scr) : SameSight(q, new, scr)
    BY <2>2, <2>4 DEF SameSight
  <2>6. ASSUME ~scr.hitch PROVE Right(reqs, new, srv)
    <3>1. Right(reqs, scr, srv)
      BY <2>3, <2>6 DEF Truth
    <3> QED BY <2>2, <2>5, <3>1, RightSeen
  <2> QED BY <1>4, <2>1, <2>2, <2>3, <2>6 DEF TruthInv, Truth
<1>5. CASE /\ dest # "nowhere"
           /\ \E x : screen' = Fresh(dest, x)
                     /\ inflight' = Orphaned(reqs) \o Constructor(Fresh(dest, x))
  <2>1. PICK x, new : /\ new = Fresh(dest, x) /\ screen' = new
                      /\ inflight' = Orphaned(reqs) \o Constructor(new)
    BY <1>5
  <2>2. dest \in Pages \cup {"login", "stripe"}
    BY <1>1, <1>5, Destinations
  <2> QED BY <2>1, <2>2, FreshTruth
<1> QED BY <1>2, <1>3, <1>4, <1>5

LEMMA SignOutTruth ==
    ASSUME DashboardInv, TruthInv, UNCHANGED server, NEW i \in DOMAIN inflight,
           NEW cookie, SignOut(cookie, RemoveAt(inflight, i))
    PROVE  TruthInv'
<1>1. PICK s, rest, scr, srv : /\ s = inflight /\ rest = RemoveAt(inflight, i)
                               /\ scr = screen /\ srv = server
  OBVIOUS
<1>2. CASE screen.page = "login"
  <2>1. screen' = scr /\ inflight' = rest
    BY <1>1, <1>2 DEF SignOut
  <2>2. /\ s \in Seq(ToSet(s)) /\ \A k \in DOMAIN s : WellFormed(s[k])
        /\ i \in DOMAIN s /\ rest = RemoveAt(s, i) /\ (~scr.hitch => Right(s, scr, srv))
    BY <1>1, Named
  <2>3. Followed(scr) = {}
    BY <1>1, <1>2, Named, BareParts DEF Followed
  <2>4. ~scr.hitch => Right(rest, scr, srv)
    BY <2>2, <2>3, RightWithout
  <2> QED BY <1>1, <2>1, <2>4, TruthFrom
<1>3. CASE screen.page # "login"
  <2>1. PICK new, x, y :
            /\ new = Fresh("login", x) /\ screen' = [new EXCEPT !.sel = y]
            /\ inflight' = Orphaned(rest)
    BY <1>1, <1>3 DEF SignOut
  <2>2. new.page = "login" /\ DOMAIN new.held = {} /\ DOMAIN new = ScreenFields
    BY <2>1, FreshWaits, BareParts
  <2>3. screen'.page = "login" /\ DOMAIN screen'.held = {}
    BY <2>1, <2>2 DEF ScreenFields
  <2>4. rest \in Seq(ToSet(rest)) /\ \A r \in ToSet(rest) : DOMAIN r = RequestFields
    BY <1>1, RestFields
  <2>5. PICK t : t = Orphaned(rest)
    OBVIOUS
  <2>6. ASSUME NEW k \in DOMAIN t PROVE ~t[k].here
    <3>1. t[k] \in ToSet(t)
      BY <2>6 DEF ToSet
    <3>2. PICK r \in ToSet(rest) : t[k] = [r EXCEPT !.here = FALSE]
      BY <2>4, <2>5, <3>1, OrphanedSet
    <3> QED BY <2>4, <3>2 DEF RequestFields
  <2> QED BY <2>1, <2>3, <2>5, <2>6, BareTruth
<1> QED BY <1>2, <1>3

(* A page that stays when an answer wanted to lead to another. *)
LEMMA StaysTrue ==
    ASSUME DashboardInv, TruthInv, NEW i \in DOMAIN inflight, NEW r, r = inflight[i],
           r.state = "done", r.op \in Leaving,
           NEW rest, rest = RemoveAt(inflight, i),
           ~(r.here /\ r.op = "remove" /\ screen.page = "appointment")
    PROVE  Truth(rest, screen, server)
<1>1. PICK s, scr, srv : s = inflight /\ scr = screen /\ srv = server
  OBVIOUS
<1>2. /\ s \in Seq(ToSet(s)) /\ \A k \in DOMAIN s : WellFormed(s[k])
      /\ i \in DOMAIN s /\ rest = RemoveAt(s, i) /\ r = s[i]
      /\ (~scr.hitch => Right(s, scr, srv)) /\ HasShape(srv)
      /\ (scr.page = "booking" /\ scr.timer => scr.filter \in Things)
  BY <1>1, Named
<1>3. ASSUME ~scr.hitch PROVE Right(rest, scr, srv)
  <2>1. Right(s, scr, srv)
    BY <1>2, <1>3
  <2>2. r.op # "load" /\ \A q, view : After(q, view, r) = view
    BY DEF After, Effect, Leaving
  <2>3. \A q : SameSight(q, scr, scr)
    BY DEF SameSight
  <2>4. ~(r.here /\ r.op = "remove")
    <3>1. ASSUME r.here, r.op = "remove" PROVE FALSE
      <4>1. Placed(r, scr) /\ r.part = "visit"
        BY <1>2, <2>1, <3>1 DEF Right, WellFormed
      <4> QED BY <1>1, <3>1, <4>1 DEF Placed
    <3> QED BY <3>1
  <2> QED BY <1>2, <2>1, <2>2, <2>3, <2>4, RightWithout
<1> QED BY <1>1, <1>2, <1>3 DEF Truth

LEMMA AnswerLeadsTruth ==
    ASSUME DashboardInv, TruthInv, NEW i \in DOMAIN inflight, AnswerLeads(i)
    PROVE  TruthInv'
<1>1. PICK r, rest : r = inflight[i] /\ rest = RemoveAt(inflight, i)
  OBVIOUS
<1>2. UNCHANGED server /\ r.state = "done" /\ r.op \in Leaving
  BY <1>1 DEF AnswerLeads
<1>3. rest \in Seq(ToSet(rest)) /\ \A x \in ToSet(rest) : DOMAIN x = RequestFields
  BY <1>1, RestFields
<1>4. CASE r.op \in {"book", "remove"}
  <2>1. Navigate(session, "calendar", Nil, rest)
    BY <1>1, <1>4 DEF AnswerLeads
  <2>2. ASSUME Destination(session, "calendar") \in {"nowhere", screen.page}
        PROVE  Truth(rest, screen, server)
    <3>1. screen.page # "appointment"
      <4>1. ASSUME screen.page = "appointment" PROVE FALSE
        <5>1. session.user \in Roles
          BY <4>1 DEF DashboardInv, SessionIsWell
        <5>2. Destination(session, "calendar") \in {"login", "calendar", "nowhere"}
          BY DEF Destination, TenantActiveGuard
        <5>3. Destination(session, "calendar") # "nowhere"
          BY <5>1, StaffAdmitted, DashboardAssumption DEF StaffPages, DashboardAssumption
        <5> QED BY <2>2, <4>1, <5>2, <5>3
      <4> QED BY <4>1
    <3> QED BY <1>1, <1>2, <3>1, StaysTrue
  <2> QED BY <1>2, <1>3, <2>1, <2>2, NavigateTruth
<1>5. CASE r.op = "move"
  <2>1. PICK x : x = r.reply
    OBVIOUS
  <2>2. Navigate(session, "appointment", x, rest)
    BY <1>1, <1>5, <2>1 DEF AnswerLeads
  <2>3. Truth(rest, screen, server)
    BY <1>1, <1>2, <1>5, StaysTrue
  <2> QED BY <1>2, <1>3, <2>2, <2>3, NavigateTruth
<1>6. CASE r.op \in {"checkout", "portal"}
  <2>1. screen' = Fresh("stripe", Nil) /\ inflight' = << >>
    BY <1>1, <1>6 DEF AnswerLeads
  <2>2. screen'.page = "stripe" /\ DOMAIN screen'.held = {}
    BY <2>1, FreshWaits, BareParts
  <2> QED BY <1>2, <2>1, <2>2, BareTruth
<1>7. CASE r.op = "logout"
  <2>1. SignOut(FALSE, RemoveAt(inflight, i))
    BY <1>1, <1>7 DEF AnswerLeads
  <2> QED BY <1>2, <2>1, SignOutTruth
<1>8. CASE r.op = "login"
  <2>1. PICK s, p, id : s = r.value /\ p = screen.id /\ id = screen.sel
    OBVIOUS
  <2>2. Navigate(s, p, id, rest)
    BY <1>1, <1>8, <2>1 DEF AnswerLeads
  <2>3. Truth(rest, screen, server)
    BY <1>1, <1>2, <1>8, StaysTrue
  <2> QED BY <1>2, <1>3, <2>2, <2>3, NavigateTruth
<1> QED BY <1>2, <1>4, <1>5, <1>6, <1>7, <1>8 DEF Leaving

LEMMA OpenTruth ==
    ASSUME DashboardInv, TruthInv, Open
    PROVE  TruthInv'
<1>1. PICK p, t : Navigate(session, p, t, inflight)
  BY DEF Open
<1>2. /\ UNCHANGED server /\ inflight \in Seq(ToSet(inflight))
      /\ \A r \in ToSet(inflight) : DOMAIN r = RequestFields
  BY DEF Open, Aside, DashboardInv, RequestsAreWell, Underway, WellFormed
<1> QED BY <1>1, <1>2, NavigateTruth DEF TruthInv

(* The first conversation chosen has a page of its own. *)
LEMMA SelectTruth ==
    ASSUME DashboardInv, TruthInv, Select
    PROVE  TruthInv'
<1>1. CASE screen.page # "inbox"
  BY <1>1, ViewTruth
<1>2. CASE screen.page = "inbox"
  <2>1. PICK t : Navigate(session, "thread", t, Append(inflight, Request("load", "messages", t, Nil)))
    BY <1>2 DEF Select
  <2>2. PICK e, reqs : e = Request("load", "messages", t, Nil) /\ reqs = Append(inflight, e)
    OBVIOUS
  <2>3. reqs \in Seq(ToSet(reqs)) /\ ToSet(reqs) = Underway \cup {e}
    BY <2>2, AppendedSet DEF DashboardInv, RequestsAreWell, Underway
  <2>4. \A r \in ToSet(reqs) : DOMAIN r = RequestFields
    BY <2>2, <2>3 DEF DashboardInv, RequestsAreWell, WellFormed, Request, RequestFields
  <2>5. session.user \in Roles
    BY <1>2 DEF DashboardInv, SessionIsWell
  <2>6. Destination(session, "thread") \in {"login", "thread", "nowhere"}
    BY DEF Destination, TenantActiveGuard
  <2>7. Destination(session, "thread") # "nowhere"
    BY <2>5, StaffAdmitted, DashboardAssumption DEF StaffPages, DashboardAssumption
  <2>8. Destination(session, "thread") \notin {"nowhere", screen.page}
    BY <1>2, <2>6, <2>7
  <2>9. UNCHANGED server
    BY DEF Select, Aside
  <2> QED BY <2>1, <2>2, <2>3, <2>4, <2>8, <2>9, NavigateTruth
<1> QED BY <1>1, <1>2

-----------------------------------------------------------------------------
(* The network fails. *)

(* A request sent anew, after the others, that none sent since overlaps.   *)
LEMMA PromisedAgain ==
    ASSUME NEW q, NEW scr, NEW srv, NEW s, s \in Seq(ToSet(s)), NEW i \in DOMAIN s,
           \A k \in DOMAIN s : WellFormed(s[k]),
           \A k \in DOMAIN s : i < k => ~Overlap(s[k], s[i]),
           s[i].state = "done" => s[i].op = "load",
           NEW e, e.op = s[i].op, e.part = s[i].part, e.arg = s[i].arg,
           e.value = s[i].value, e.here = s[i].here, e.state = "sent",
           NEW rest, rest = RemoveAt(s, i), NEW t, t = Append(rest, e),
           Promised(q, s, scr, srv)
    PROVE  Promised(q, t, scr, srv)
<1>1. rest \in Seq(ToSet(rest))
  BY Removed, ListOf
<1>2. DOMAIN t = DOMAIN rest \cup {Len(t)} /\ t[Len(t)] = e
      /\ \A k \in DOMAIN rest : t[k] = rest[k] /\ k < Len(t)
  BY <1>1, Longer
<1>3. SameSight(q, scr, scr)
  BY DEF SameSight
<1>4. Asks(e, q) <=> Asks(s[i], q)
  BY DEF Asks, Concerns
<1>5. Superseded(q, s, scr) /\ (q \in Wholes => FormIsKept(q, s, scr, srv))
      /\ Comes(q, s, scr, srv)
  BY DEF Promised
<1>6. ~Stale(e, q, scr)
  <2>1. ~Stale(s[i], q, scr)
    <3>1. ASSUME Stale(s[i], q, scr) PROVE FALSE
      <4>1. PICK k \in DOMAIN s : i < k /\ Asks(s[k], q)
        BY <1>5, <3>1 DEF Superseded
      <4>2. Subject(q) \in Touches(s[i])
        BY <3>1, StaleShares
      <4>3. Overlap(s[k], s[i])
        BY <4>1, <4>2, PartShared DEF Asks, Concerns
      <4> QED BY <4>1, <4>3
    <3> QED BY <3>1
  <2>2. e.here \/ s[i].state = "sent"
    BY DEF WellFormed
  <2>3. Touches(e) = Touches(s[i])
    BY DEF Touches
  <2> QED BY <1>4, <2>1, <2>2, <2>3 DEF Stale
<1>7. Superseded(q, t, scr)
  <2> SUFFICES ASSUME NEW j \in DOMAIN t, Stale(t[j], q, scr)
               PROVE  \E k \in DOMAIN t : /\ j < k /\ Asks(t[k], q)
                                          /\ (t[j].state = "sent" => t[k].state = "sent")
    BY DEF Superseded
  <2>1. j \in DOMAIN rest /\ t[j] = rest[j]
    BY <1>2, <1>6
  <2>2. PICK m \in DOMAIN s : m = Source(j, i) /\ m # i /\ t[j] = s[m]
    BY <2>1, Shifted
  <2>3. PICK n \in DOMAIN s : /\ m < n /\ Asks(s[n], q)
                              /\ (s[m].state = "sent" => s[n].state = "sent")
    BY <1>5, <2>2 DEF Superseded
  <2>4. CASE n = i
    BY <1>2, <1>4, <2>1, <2>3, <2>4
  <2>5. CASE n # i
    <3>1. PICK k \in DOMAIN rest : rest[k] = s[n] /\ Source(k, i) = n
      BY <2>5, Shifted
    <3>2. j < k
      BY <2>1, <2>2, <2>3, <3>1, Shifted
    <3> QED BY <1>2, <2>2, <2>3, <3>1, <3>2
  <2> QED BY <2>4, <2>5
<1>8. ASSUME q \in Wholes PROVE FormIsKept(q, t, scr, srv)
  <2>1. FormIsKept(q, s, scr, srv)
    BY <1>5, <1>8
  <2>2. \A k \in DOMAIN rest : /\ Source(k, i) \in DOMAIN s /\ Source(k, i) # i
                               /\ rest[k] = s[Source(k, i)]
    BY Shifted
  <2>3. CASE Asks(e, q)
    <3>1. q \in scr.loading
      BY <1>4, <2>1, <2>3 DEF FormIsKept
    <3>2. \A k \in DOMAIN rest : ~Asks(rest[k], q)
      BY <1>4, <2>1, <2>2, <2>3 DEF FormIsKept
    <3>3. \A k \in DOMAIN rest : ~(Concerns(rest[k], q) /\ rest[k].op = "save")
      BY <1>4, <2>1, <2>2, <2>3 DEF FormIsKept
    <3>4. \A k \in DOMAIN rest : ~(Concerns(rest[k], q) /\ rest[k].op \in {"load", "save"})
      BY <3>2, <3>3 DEF Asks
    <3> QED BY <1>1, <2>3, <3>1, <3>4, FormAsked
  <2>4. CASE ~Asks(e, q)
    <3>1. FormIsKept(q, rest, scr, srv)
      BY <2>1, FormWithout
    <3>2. Concerns(e, q) /\ e.op = "save" =>
              e.value = srv.whole[q] /\ \A k \in DOMAIN s : ~Asks(s[k], q)
      BY <2>1 DEF FormIsKept, Concerns
    <3>3. Concerns(e, q) /\ e.op = "save" =>
              e.value = srv.whole[q] /\ \A k \in DOMAIN rest : ~Asks(rest[k], q)
      BY <2>2, <3>2
    <3> QED BY <1>1, <2>4, <3>1, <3>3, FormSent
  <2> QED BY <2>3, <2>4
<1>9. Comes(q, t, scr, srv)
  <2>1. CASE Asks(e, q)
    BY <1>2, <2>1 DEF Comes, Waits
  <2>2. CASE ~Asks(e, q)
    <3>1. ~Counts(s[i], q)
      BY <1>4, <2>2 DEF Counts, Asks
    <3>2. \A view : After(q, view, s[i]) = view
      BY <3>1 DEF After
    <3>3. Comes(q, rest, scr, srv)
      BY <1>3, <1>4, <1>5, <2>2, <3>2, ComesWithout
    <3> QED BY <1>1, <1>3, <3>3, ComesSent
  <2> QED BY <2>1, <2>2
<1> QED BY <1>7, <1>8, <1>9 DEF Promised

LEMMA SendAgainTruth ==
    ASSUME DashboardInv, TruthInv, UNCHANGED server, NEW i \in DOMAIN inflight,
           NEW again, NEW resent, SendAgain(i, again, resent),
           inflight[i].state = "done" => inflight[i].op = "load"
    PROVE  TruthInv'
<1>1. PICK s, scr, srv, r, rest : /\ s = inflight /\ scr = screen /\ srv = server
                                  /\ r = inflight[i] /\ rest = RemoveAt(inflight, i)
  OBVIOUS
<1>2. PICK more, e : e = [r EXCEPT !.state = "sent", !.reply = Nil, !.again = more,
                                   !.resent = resent]
                     /\ inflight' = Append(rest, e)
  BY <1>1 DEF SendAgain
<1>3. /\ s \in Seq(ToSet(s)) /\ \A k \in DOMAIN s : WellFormed(s[k])
      /\ i \in DOMAIN s /\ rest = RemoveAt(s, i) /\ r = s[i] /\ DOMAIN scr = ScreenFields
      /\ (~scr.hitch => Right(s, scr, srv)) /\ HasShape(srv)
      /\ (scr.page = "booking" /\ scr.timer => scr.filter \in Things)
  BY <1>1, Named
<1>4. /\ e.op = r.op /\ e.part = r.part /\ e.arg = r.arg /\ e.value = r.value
      /\ e.here = r.here /\ e.state = "sent"
  BY <1>2, <1>3 DEF WellFormed, RequestFields
<1>5. CASE \E k \in (i + 1)..Len(inflight) : Overlap(inflight[k], inflight[i])
  <2>1. screen' = [screen EXCEPT !.hitch = TRUE]
    BY <1>5 DEF SendAgain, Hitch
  <2>2. screen'.hitch /\ screen'.page = scr.page /\ screen'.timer = scr.timer
        /\ screen'.filter = scr.filter
    BY <1>1, <1>3, <2>1 DEF ScreenFields
  <2> QED BY <1>1, <1>3, <2>2, HitchTruth
<1>6. CASE ~\E k \in (i + 1)..Len(inflight) : Overlap(inflight[k], inflight[i])
  <2>1. screen' = scr
    BY <1>1, <1>6 DEF SendAgain
  <2>2. \A k \in DOMAIN s : i < k => ~Overlap(s[k], s[i])
    <3>1. DOMAIN s = 1..Len(s) /\ Len(s) \in Nat
      BY <1>3, ListOf
    <3>2. \A k \in DOMAIN s : i < k => k \in (i + 1)..Len(s)
      BY <1>3, <3>1
    <3> QED BY <1>1, <1>6, <3>2
  <2>3. PICK t : t = Append(rest, e)
    OBVIOUS
  <2>4. ASSUME ~scr.hitch PROVE Right(t, scr, srv)
    <3>1. Right(s, scr, srv)
      BY <1>3, <2>4
    <3>2. rest \in Seq(ToSet(rest))
      BY <1>3, Removed, ListOf
    <3>3. /\ DOMAIN t = DOMAIN rest \cup {Len(t)} /\ t[Len(t)] = e
          /\ \A k \in DOMAIN rest : t[k] = rest[k]
      BY <2>3, <3>2, Longer
    <3>4. e.here => Placed(e, scr)
      BY <1>3, <1>4, <3>1 DEF Right, Placed
    <3>5. ASSUME NEW k \in DOMAIN t, t[k].here PROVE Placed(t[k], scr)
      <4>1. CASE t[k] = e
        BY <3>4, <3>5, <4>1
      <4>2. CASE k \in DOMAIN rest
        <5>1. PICK m \in DOMAIN s : rest[k] = s[m]
          BY <1>3, <4>2, Shifted
        <5> QED BY <3>1, <3>3, <3>5, <4>2, <5>1 DEF Right
      <4> QED BY <3>3, <3>5, <4>1, <4>2
    <3>6. InOrder(t)
      <4>1. InOrder(rest)
        BY <1>3, <3>1, InOrderWithout DEF Right
      <4> QED BY <1>4, <2>3, <3>2, <4>1, InOrderSent
    <3>7. ASSUME NEW q \in Followed(scr) PROVE Promised(q, t, scr, srv)
      <4>1. Promised(q, s, scr, srv)
        BY <3>1, <3>7 DEF Right
      <4>2. s[i].state = "done" => s[i].op = "load"
        BY <1>1
      <4> QED BY <1>3, <1>4, <2>2, <2>3, <4>1, <4>2, PromisedAgain
    <3> QED BY <3>5, <3>6, <3>7 DEF Right
  <2> QED BY <1>1, <1>2, <1>3, <2>1, <2>3, <2>4 DEF TruthInv, Truth
<1> QED BY <1>5, <1>6

(* A visit could not be moved: the calendar loads its visits again.        *)
LEMMA DropFailsTruth ==
    ASSUME DashboardInv, TruthInv, UNCHANGED server,
           NEW i \in DOMAIN inflight, inflight[i].op = "drop", inflight[i].here,
           inflight[i].state = "sent" \/ inflight[i].state = "done",
           screen' = [screen EXCEPT !.loading = @ \cup {"visits"}],
           inflight' = Append(RemoveAt(inflight, i), Load(screen, "visits"))
    PROVE  TruthInv'
<1>1. PICK s, scr, srv, r, rest : /\ s = inflight /\ scr = screen /\ srv = server
                                  /\ r = inflight[i] /\ rest = RemoveAt(inflight, i)
  OBVIOUS
<1>2. PICK new, e, t : /\ new = [scr EXCEPT !.loading = @ \cup {"visits"}]
                       /\ e = Load(scr, "visits") /\ t = Append(rest, e)
  OBVIOUS
<1>3. /\ s \in Seq(ToSet(s)) /\ \A k \in DOMAIN s : WellFormed(s[k])
      /\ i \in DOMAIN s /\ rest = RemoveAt(s, i) /\ r = s[i] /\ DOMAIN scr = ScreenFields
      /\ DOMAIN scr.held = PartsOf(scr.page) /\ (~scr.hitch => Right(s, scr, srv))
  BY <1>1, Named
<1>4. /\ new.page = scr.page /\ new.id = scr.id /\ new.held = scr.held
      /\ new.timer = scr.timer /\ new.filter = scr.filter /\ new.hitch = scr.hitch
      /\ screen' = new /\ inflight' = t
  BY <1>1, <1>2, <1>3 DEF ScreenFields
<1>5. /\ e.op = "load" /\ e.part = "visits" /\ e.here /\ e.state = "sent"
      /\ e.arg = Criterion(new, "visits")
  BY <1>2, <1>4 DEF Load, Request, Criterion
<1>6. ASSUME ~scr.hitch PROVE Right(t, new, srv)
  <2>1. Right(s, scr, srv)
    BY <1>3, <1>6
  <2>2. r.part = "visits" /\ r.op = "drop" /\ r.here
    BY <1>1, <1>3 DEF WellFormed
  <2>3. scr.page = "calendar"
    BY <1>3, <2>1, <2>2 DEF Right, Placed
  <2>4. Followed(scr) = {"visits"}
    BY <1>3, <2>3, PartsOfPages DEF Followed
  <2>5. rest \in Seq(ToSet(rest))
    BY <1>3, Removed, ListOf
  <2>6. /\ DOMAIN t = DOMAIN rest \cup {Len(t)} /\ t[Len(t)] = e
        /\ \A k \in DOMAIN rest : t[k] = rest[k]
    BY <1>2, <2>5, Longer
  <2>7. Placed(e, new)
    BY <1>4, <1>5, <2>3 DEF Placed
  <2>8. ASSUME NEW k \in DOMAIN t, t[k].here PROVE Placed(t[k], new)
    <3>1. CASE t[k] = e
      BY <2>7, <3>1
    <3>2. CASE k \in DOMAIN rest
      <4>1. PICK m \in DOMAIN s : rest[k] = s[m]
        BY <1>3, <3>2, Shifted
      <4>2. Placed(t[k], scr)
        BY <2>1, <2>6, <2>8, <3>2, <4>1 DEF Right
      <4> QED BY <1>4, <4>2, Placement
    <3> QED BY <2>6, <2>8, <3>1, <3>2
  <2>9. InOrder(t)
    <3>1. InOrder(rest)
      BY <1>3, <2>1, InOrderWithout DEF Right
    <3> QED BY <1>2, <1>5, <2>5, <3>1, InOrderSent
  <2>10. Promised("visits", t, new, srv)
    <3>1. PICK q : q = "visits"
      OBVIOUS
    <3>2. Asks(e, q) /\ e.arg = Criterion(new, q) /\ q \notin Wholes
      BY <1>5, <3>1 DEF Asks, Concerns, Group, Wholes
    <3> QED BY <1>2, <1>5, <2>5, <3>1, <3>2, PromisedAsked
  <2>11. Followed(new) = {"visits"}
    BY <1>4, <2>4 DEF Followed
  <2> QED BY <2>8, <2>9, <2>10, <2>11 DEF Right
<1>7. UNCHANGED server /\ screen' = new /\ ~new.hitch => Right(inflight', new, server)
  BY <1>1, <1>4, <1>6
<1>8. \A x \in {"page", "timer", "filter"} : new[x] = screen[x]
  BY <1>1, <1>4
<1> QED BY <1>1, <1>4, <1>6, <1>8, TruthFrom

(* What a failure leaves of the rest of the screen.                        *)
LEMMA FailedSight ==
    ASSUME DashboardInv, NEW r, NEW s, s = Failed(screen, r)
    PROVE  /\ s.sel = screen.sel /\ s.filter = screen.filter
           /\ s.hitch \/ (r.op # "load" /\ s.hitch = screen.hitch)
<1>1. DOMAIN screen = ScreenFields
  BY DEF DashboardInv, ScreenIsWell
<1>2. CASE r.op = "load"
  <2>1. PICK hidden : hidden = (screen.hidden \/ r.part = "employeePage")
    OBVIOUS
  <2>2. s = [screen EXCEPT !.loading = @ \ Group(r.part), !.hitch = TRUE, !.hidden = hidden]
    BY <1>2, <2>1 DEF Failed
  <2> QED BY <1>1, <2>2 DEF ScreenFields
<1>3. CASE r.op = "set" /\ r.part = "tenants"
  BY <1>3 DEF Failed
<1>4. CASE ~(r.op = "load") /\ ~(r.op = "set" /\ r.part = "tenants")
  <2>1. s = Freed(screen, r)
    BY <1>4 DEF Failed
  <2> QED BY <1>1, <1>4, <2>1 DEF Freed, ScreenFields
<1> QED BY <1>2, <1>3, <1>4

LEMMA FailsTruth ==
    ASSUME DashboardInv, TruthInv, UNCHANGED server, NEW i \in DOMAIN inflight, Fails(i)
    PROVE  TruthInv'
<1>1. PICK s, scr, srv, r, rest : /\ s = inflight /\ scr = screen /\ srv = server
                                  /\ r = inflight[i] /\ rest = RemoveAt(inflight, i)
  OBVIOUS
<1>2. /\ s \in Seq(ToSet(s)) /\ \A k \in DOMAIN s : WellFormed(s[k])
      /\ i \in DOMAIN s /\ rest = RemoveAt(s, i) /\ r = s[i] /\ DOMAIN scr = ScreenFields
      /\ (~scr.hitch => Right(s, scr, srv)) /\ HasShape(srv)
      /\ (scr.page = "booking" /\ scr.timer => scr.filter \in Things)
  BY <1>1, Named
<1>3. WellFormed(r) /\ (r.state = "sent" \/ r.state = "done")
  BY <1>2 DEF WellFormed
<1>4. CASE r.resent \/ r.op = "logout"
  <2>1. PICK cookie : SignOut(cookie, RemoveAt(inflight, i))
    BY <1>1, <1>4 DEF Fails
  <2> QED BY <2>1, SignOutTruth
<1>5. CASE ~(r.resent \/ r.op = "logout") /\ ~r.here
  <2>1. screen' = scr /\ inflight' = rest
    BY <1>1, <1>5 DEF Fails
  <2>2. r.op # "load" /\ \A q, view : After(q, view, r) = view
    BY <1>3, <1>5 DEF WellFormed, After, Counts, Concerns
  <2>3. \A q : SameSight(q, scr, scr)
    BY DEF SameSight
  <2>4. ~scr.hitch => Right(rest, scr, srv)
    BY <1>2, <1>5, <2>2, <2>3, RightWithout
  <2> QED BY <1>1, <2>1, <2>4, TruthFrom
<1>6. CASE ~(r.resent \/ r.op = "logout") /\ r.here /\ r.op = "drop"
  BY <1>1, <1>3, <1>6, DropFailsTruth DEF Fails
<1>7. CASE ~(r.resent \/ r.op = "logout") /\ r.here /\ r.op # "drop"
  <2>1. PICK f, executed : f = Failed(screen, r)
                           /\ executed = (r.state = "done" /\ r.op # "load")
    OBVIOUS
  <2>2. PICK hitch : hitch = (f.hitch \/ executed)
    OBVIOUS
  <2>3. PICK new : new = [f EXCEPT !.hitch = hitch]
    OBVIOUS
  <2>4. /\ DOMAIN f = ScreenFields /\ f.held = scr.held /\ f.page = scr.page
        /\ f.id = scr.id /\ f.timer = scr.timer /\ f.sel = scr.sel /\ f.filter = scr.filter
        /\ f.loading = IF r.op = "load" THEN scr.loading \ Group(r.part) ELSE scr.loading
        /\ f.hitch \/ (r.op # "load" /\ f.hitch = scr.hitch)
    <3>1. /\ DOMAIN f = ScreenFields /\ f.held = screen.held /\ f.page = screen.page
          /\ f.id = screen.id /\ f.timer = screen.timer
          /\ f.loading = IF r.op = "load" THEN screen.loading \ Group(r.part)
                         ELSE screen.loading
      BY <2>1, FailedScreen
    <3>2. /\ f.sel = screen.sel /\ f.filter = screen.filter
          /\ f.hitch \/ (r.op # "load" /\ f.hitch = screen.hitch)
      BY <2>1, FailedSight
    <3> QED BY <1>1, <3>1, <3>2
  <2>5. screen' = new /\ inflight' = rest
    BY <1>1, <1>7, <2>1, <2>2, <2>3, <2>4 DEF Fails, ScreenFields
  <2>6. /\ new.held = scr.held /\ new.page = scr.page /\ new.id = scr.id
        /\ new.timer = scr.timer /\ new.sel = scr.sel /\ new.filter = scr.filter
        /\ new.loading = f.loading /\ new.hitch = hitch
    BY <2>3, <2>4 DEF ScreenFields
  <2>7. ASSUME ~hitch PROVE Right(rest, new, srv)
    <3>1. r.op # "load" /\ ~scr.hitch /\ r.state = "sent"
      BY <1>3, <2>1, <2>2, <2>4, <2>7
    <3>2. Right(s, scr, srv)
      BY <1>2, <3>1
    <3>3. \A q, view : After(q, view, r) = view
      BY <3>1 DEF After, Counts
    <3>4. \A q : SameSight(q, new, scr)
      BY <2>6 DEF SameSight
    <3>5. new.loading = scr.loading
      BY <2>4, <2>6, <3>1
    <3>6. s[i].op # "load" /\ s[i].state # "done" /\ \A q, view : After(q, view, s[i]) = view
      BY <1>2, <3>1, <3>3
    <3>7. new.page = scr.page /\ new.id = scr.id /\ new.held = scr.held
      BY <2>6
    <3>8. /\ s \in Seq(ToSet(s)) /\ \A k \in DOMAIN s : WellFormed(s[k])
          /\ i \in DOMAIN s /\ rest = RemoveAt(s, i)
      BY <1>2
    <3> QED BY ONLY <3>2, <3>4, <3>5, <3>6, <3>7, <3>8, RightWithout
  <2> QED BY <1>1, <2>5, <2>6, <2>7, TruthFrom
<1> QED BY <1>4, <1>5, <1>6, <1>7

LEMMA NetworkTruth ==
    ASSUME DashboardInv, TruthInv, NEW i \in DOMAIN inflight, Refused(i) \/ Lost(i) \/ Expired(i)
    PROVE  TruthInv'
<1>1. CASE Refused(i)
  BY <1>1, FailsTruth DEF Refused
<1>2. CASE Lost(i)
  <2>1. UNCHANGED server
    BY <1>2 DEF Lost
  <2>2. CASE Fails(i)
    BY <2>1, <2>2, FailsTruth
  <2>3. CASE SignOut(session.cookie, RemoveAt(inflight, i))
    BY <2>1, <2>3, SignOutTruth
  <2>4. CASE inflight[i].op = "load" /\ SendAgain(i, TRUE, FALSE)
    BY <2>1, <2>4, SendAgainTruth
  <2> QED BY <1>2, <2>2, <2>3, <2>4 DEF Lost
<1>3. CASE Expired(i)
  <2>1. UNCHANGED server /\ inflight[i].state = "sent"
    BY <1>3 DEF Expired
  <2>2. CASE SignOut(session.cookie, RemoveAt(inflight, i))
    BY <2>1, <2>2, SignOutTruth
  <2>3. CASE SendAgain(i, FALSE, TRUE)
    BY <2>1, <2>3, SendAgainTruth
  <2> QED BY <1>3, <2>2, <2>3 DEF Expired
<1> QED BY <1>1, <1>2, <1>3

-----------------------------------------------------------------------------
(* What the pages and the requests are about.                              *)

Aimed(R) == \A r \in R : r.op = "move" /\ r.state = "done" => r.reply \in Things

(* A step on the same page. *)
LEMMA TargetsStay ==
    ASSUME TargetsAreWell, screen.page # "stripe",
           screen'.page = screen.page, screen'.id = screen.id,
           \/ screen'.sel = screen.sel \/ screen'.sel \in Things
           \/ screen.page = "booking",
           session'.token = session.token \/ session'.token = "valid",
           Aimed(ToSet(inflight'))
    PROVE  TargetsAreWell'
BY DEF TargetsAreWell, Underway, Aimed, ById

LEMMA FreshIds ==
    ASSUME NEW p, NEW id
    PROVE  /\ Fresh(p, id).page = p /\ Fresh(p, id).id = id
           /\ Fresh(p, id).sel = IF p = "booking" THEN Nil ELSE id
           /\ DOMAIN Fresh(p, id) = ScreenFields
BY DEF Fresh, ScreenFields

LEMMA TargetsNavigate ==
    ASSUME DashboardInv, TargetsAreWell, screen.page # "stripe",
           NEW s, session' = s, NEW p, NEW id, NEW reqs, reqs \in Seq(ToSet(reqs)),
           Aimed(ToSet(reqs)), Navigate(s, p, id, reqs),
           \A r \in ToSet(reqs) : DOMAIN r = RequestFields,
           s.token = "none" => screen.page = "login",
           Destination(s, p) \in ById => id \in Things
    PROVE  TargetsAreWell'
<1>1. PICK dest : dest = Destination(s, p)
  OBVIOUS
<1>2. dest \in Pages \cup {"login", "nowhere"}
  BY <1>1, Destinations
<1>3. dest = "login" <=> s.token = "none"
  BY <1>1 DEF Destination, TenantActiveGuard, RoleGuard, StaffPages, ManagerPages, AdminPages
<1>4. \/ screen' = screen /\ inflight' = reqs
      \/ /\ screen' = [screen EXCEPT !.sel = id] /\ inflight' = reqs
         /\ dest = screen.page /\ dest \in {"employee", "appointment", "tenantBilling"}
      \/ /\ dest # "nowhere" /\ ~(dest = screen.page /\ dest \notin ById)
         /\ \E x : /\ x = IF dest = "login" THEN p ELSE IF dest \in ById THEN id ELSE Nil
                   /\ screen' = Fresh(dest, x)
                   /\ inflight' = Orphaned(reqs) \o Constructor(Fresh(dest, x))
  BY <1>1 DEF Navigate, ById
<1>5. CASE screen' = screen /\ inflight' = reqs
  BY <1>5 DEF TargetsAreWell, Underway, Aimed
<1>6. CASE /\ screen' = [screen EXCEPT !.sel = id] /\ inflight' = reqs
           /\ dest = screen.page /\ dest \in {"employee", "appointment", "tenantBilling"}
  <2>1. screen'.page = screen.page /\ screen'.id = screen.id /\ screen'.sel = id
    BY <1>6 DEF DashboardInv, ScreenIsWell, ScreenFields
  <2>2. id \in Things
    BY <1>1, <1>6 DEF ById
  <2> QED BY <1>6, <2>1, <2>2 DEF TargetsAreWell, Underway, Aimed, ById
<1>7. CASE /\ dest # "nowhere" /\ ~(dest = screen.page /\ dest \notin ById)
           /\ \E x : /\ x = IF dest = "login" THEN p ELSE IF dest \in ById THEN id ELSE Nil
                     /\ screen' = Fresh(dest, x)
                     /\ inflight' = Orphaned(reqs) \o Constructor(Fresh(dest, x))
  <2>1. PICK x, new :
            /\ x = IF dest = "login" THEN p ELSE IF dest \in ById THEN id ELSE Nil
            /\ new = Fresh(dest, x) /\ screen' = new
            /\ inflight' = Orphaned(reqs) \o Constructor(new)
    BY <1>7
  <2>2. dest # "login"
    BY <1>3, <1>7 DEF ById
  <2>3. new.page = dest /\ new.id = x /\ new.sel = IF dest = "booking" THEN Nil ELSE x
    BY <2>1, FreshIds
  <2>4. dest \in Pages
    BY <1>2, <1>7, <2>2
  <2>5. Aimed(ToSet(inflight'))
    <3>1. /\ Constructor(new) \in Seq(ToSet(Constructor(new)))
          /\ \A r \in ToSet(Constructor(new)) : r.op = "load"
      BY <2>3, <2>4, ConstructorAsks
    <3>2. Orphaned(reqs) \in Seq(ToSet(Orphaned(reqs)))
      BY OrphanedSet
    <3>3. ASSUME NEW o \in ToSet(Orphaned(reqs)), o.op = "move", o.state = "done"
          PROVE  o.reply \in Things
      <4>1. PICK r \in ToSet(reqs) : o = [r EXCEPT !.here = FALSE]
        BY OrphanedSet
      <4>2. o.op = r.op /\ o.state = r.state /\ o.reply = r.reply
        BY <4>1 DEF RequestFields
      <4> QED BY <3>3, <4>2 DEF Aimed
    <3>4. ToSet(inflight') = ToSet(Orphaned(reqs)) \cup ToSet(Constructor(new))
      BY <2>1, <3>1, <3>2, JoinedSet
    <3> QED BY <3>1, <3>3, <3>4 DEF Aimed
  <2>6. dest \in ById => x \in Things
    BY <1>1, <2>1, <2>2
  <2>7. (dest \notin ById => x = Nil) /\ dest # "stripe"
    BY <2>1, <2>2, <2>4 DEF Pages, StaffPages, ManagerPages, AdminPages
  <2>8. s.token # "none"
    BY <1>3, <2>2
  <2> QED BY <2>1, <2>2, <2>3, <2>4, <2>5, <2>6, <2>7, <2>8 DEF TargetsAreWell, Underway, Aimed, ById
<1> QED BY <1>4, <1>5, <1>6, <1>7

LEMMA AimedRest ==
    ASSUME DashboardInv, TargetsAreWell, NEW i \in DOMAIN inflight,
           NEW rest, rest = RemoveAt(inflight, i)
    PROVE  Aimed(ToSet(rest)) /\ Aimed(Underway)
BY Rest DEF TargetsAreWell, Aimed

LEMMA TargetsSignOut ==
    ASSUME DashboardInv, TargetsAreWell, NEW i \in DOMAIN inflight,
           NEW cookie, SignOut(cookie, RemoveAt(inflight, i))
    PROVE  TargetsAreWell'
<1>1. PICK rest : rest = RemoveAt(inflight, i)
  OBVIOUS
<1>2. /\ rest \in Seq(ToSet(rest)) /\ Aimed(ToSet(rest))
      /\ \A r \in ToSet(rest) : DOMAIN r = RequestFields
  BY <1>1, RestFields, AimedRest
<1>3. CASE screen.page = "login"
  <2>1. screen' = screen /\ inflight' = rest
    BY <1>1, <1>3 DEF SignOut
  <2> QED BY <1>2, <1>3, <2>1 DEF TargetsAreWell, Underway, Aimed
<1>4. CASE screen.page # "login"
  <2>1. PICK new, x, y :
            /\ x = screen.page /\ y = screen.sel
            /\ new = Fresh("login", x) /\ screen' = [new EXCEPT !.sel = y]
            /\ inflight' = Orphaned(rest)
    BY <1>1, <1>4 DEF SignOut
  <2>2. new.page = "login" /\ new.id = x /\ DOMAIN new = ScreenFields
    BY <2>1, FreshIds
  <2>3. screen'.page = "login" /\ screen'.id = x /\ screen'.sel = y
    BY <2>1, <2>2 DEF ScreenFields
  <2>4. ASSUME NEW o \in ToSet(inflight'), o.op = "move", o.state = "done"
        PROVE  o.reply \in Things
    <3>1. PICK r \in ToSet(rest) : o = [r EXCEPT !.here = FALSE]
      BY <1>2, <2>1, <2>4, OrphanedSet
    <3>2. o.op = r.op /\ o.state = r.state /\ o.reply = r.reply
      BY <1>2, <3>1 DEF RequestFields
    <3> QED BY <1>2, <2>4, <3>2 DEF Aimed
  <2> QED BY <2>1, <2>3, <2>4 DEF TargetsAreWell, Underway, ById
<1> QED BY <1>3, <1>4

(* A click that sends a request or changes the page, and leaves what the   *)
(* page is about.                                                          *)
Posts ==
    /\ UNCHANGED session
    /\ inflight' = inflight \/ \E e : e.state = "sent" /\ inflight' = Append(inflight, e)
    /\ screen'.page = screen.page /\ screen'.id = screen.id
    /\ screen'.sel = screen.sel \/ screen'.sel \in Things \/ screen.page = "booking"

LEMMA TargetsPosts ==
    ASSUME DashboardInv, TargetsAreWell, screen.page # "stripe", Posts
    PROVE  TargetsAreWell'
<1>1. inflight \in Seq(ToSet(inflight)) /\ Aimed(ToSet(inflight))
  BY DEF DashboardInv, RequestsAreWell, TargetsAreWell, Underway, Aimed
<1>2. Aimed(ToSet(inflight'))
  <2>1. CASE inflight' = inflight
    BY <1>1, <2>1
  <2>2. ASSUME NEW e, e.state = "sent", inflight' = Append(inflight, e)
        PROVE  Aimed(ToSet(inflight'))
    <3>1. ToSet(inflight') = ToSet(inflight) \cup {e}
      BY <1>1, <2>2, AppendedSet
    <3> QED BY <1>1, <2>2, <3>1 DEF Aimed
  <2> QED BY <2>1, <2>2 DEF Posts
<1> QED BY <1>2, TargetsStay DEF Posts

LEMMA PressPosts ==
    ASSUME DashboardInv, NEW op, NEW part, NEW arg, NEW value, NEW flagged \in BOOLEAN,
           Press(op, part, arg, value, flagged)
    PROVE  Posts
<1>1. PICK e : e = Request(op, part, arg, value)
  OBVIOUS
<1>2. e.state = "sent" /\ inflight' = Append(inflight, e) /\ UNCHANGED session
  BY <1>1 DEF Request, Press, Aside
<1>3. screen' = screen \/ screen' = [screen EXCEPT !.busy = @ \cup {Flag(op, part, arg)}]
  BY DEF Press
<1>4. screen'.page = screen.page /\ screen'.id = screen.id /\ screen'.sel = screen.sel
  BY <1>3 DEF DashboardInv, ScreenIsWell, ScreenFields
<1> QED BY <1>2, <1>4 DEF Posts

LEMMA EditingPosts ==
    ASSUME DashboardInv, NEW t, Change([screen EXCEPT !.editing = t])
    PROVE  Posts
BY DEF Change, Aside, Posts, DashboardInv, ScreenIsWell, ScreenFields

LEMMA RowPosts ==
    ASSUME DashboardInv, NEW part,
           \/ CreateRow(part) \/ EditRow(part) \/ ToggleRow(part) \/ DeleteRow(part)
           \/ SaveWhole(part)
    PROVE  Posts
<1>1. CASE CreateRow(part)
  BY <1>1, PressPosts DEF CreateRow
<1>2. CASE EditRow(part)
  BY <1>2, PressPosts, EditingPosts DEF EditRow
<1>3. CASE ToggleRow(part)
  BY <1>3, PressPosts DEF ToggleRow
<1>4. CASE DeleteRow(part)
  BY <1>4, PressPosts DEF DeleteRow
<1>5. CASE SaveWhole(part)
  BY <1>5, PressPosts DEF SaveWhole
<1> QED BY <1>1, <1>2, <1>3, <1>4, <1>5

LEMMA SearchPosts ==
    ASSUME DashboardInv, NEW term, Search(term)
    PROVE  Posts
BY DEF Search, Aside, Posts, DashboardInv, ScreenIsWell, ScreenFields

(* A load for what the page shows now. *)
LEMMA AskPosts ==
    ASSUME DashboardInv, UNCHANGED session, NEW s, NEW part,
           inflight' = Append(inflight, Load(s, part)),
           screen'.page = screen.page, screen'.id = screen.id,
           screen'.sel = screen.sel \/ screen'.sel \in Things
    PROVE  Posts
<1>1. PICK e : e = Load(s, part)
  OBVIOUS
<1>2. e.state = "sent" /\ inflight' = Append(inflight, e)
  BY <1>1 DEF Load, Request
<1> QED BY <1>2 DEF Posts

LEMMA PagesPost ==
    ASSUME DashboardInv,
           \/ ServicesListPage \/ ServiceCategoriesPage \/ HolidaysPage \/ EmployeesListPage
           \/ AdminPlansPage \/ CustomersListPage \/ SalonProfilePage \/ BusinessHoursPage
           \/ EmployeeForms \/ EmployeeTimeOff \/ SettingsForms \/ Invitations
    PROVE  Posts
BY RowPosts, SearchPosts
DEF ServicesListPage, ServiceCategoriesPage, HolidaysPage, EmployeesListPage, AdminPlansPage,
    CustomersListPage, SalonProfilePage, BusinessHoursPage, EmployeeForms, EmployeeTimeOff,
    SettingsForms, Invitations

LEMMA ControlsPost ==
    ASSUME DashboardInv,
           \/ WhatsAppConnection \/ SendTestMessage \/ SelectPlan \/ OpenCustomerPortal
           \/ CancelSubscription \/ ReactivateSubscription \/ SendMessage \/ UpdateStatus
           \/ Assign \/ OnDrop \/ AppointmentDetailPage \/ SubmitBooking \/ Logout \/ LoginPage
    PROVE  Posts
<1>1. CASE WhatsAppConnection
  BY <1>1, RowPosts, PressPosts DEF WhatsAppConnection
<1>2. CASE SendTestMessage
  BY <1>2, PressPosts DEF SendTestMessage
<1>3. CASE SelectPlan
  BY <1>3, PressPosts DEF SelectPlan
<1>4. CASE OpenCustomerPortal \/ CancelSubscription \/ ReactivateSubscription
  BY <1>4, PressPosts DEF OpenCustomerPortal, CancelSubscription, ReactivateSubscription
<1>5. CASE SendMessage
  BY <1>5, PressPosts DEF SendMessage
<1>6. CASE UpdateStatus
  BY <1>6, PressPosts DEF UpdateStatus
<1>7. CASE Assign
  <2>1. PICK value : Press("assign", "threads", screen.sel, value, FALSE)
    BY <1>7 DEF Assign
  <2> QED BY <2>1, PressPosts
<1>8. CASE OnDrop
  BY <1>8, PressPosts DEF OnDrop
<1>9. CASE AppointmentDetailPage
  BY <1>9, PressPosts, EditingPosts DEF AppointmentDetailPage
<1>10. CASE SubmitBooking
  BY <1>10, PressPosts DEF SubmitBooking
<1>11. CASE Logout
  BY <1>11, PressPosts DEF Logout
<1>12. CASE LoginPage
  BY <1>12, PressPosts DEF LoginPage
<1> QED
  BY <1>1, <1>2, <1>3, <1>4, <1>5, <1>6, <1>7, <1>8, <1>9, <1>10, <1>11, <1>12

LEMMA ViewsPost ==
    ASSUME DashboardInv,
           \/ SearchFires \/ AdminTenantsPage \/ SetStatusFilter \/ ShowDays
           \/ FindCustomer \/ SelectCustomer \/ (Select /\ screen.page # "inbox")
    PROVE  Posts
<1>0. DOMAIN screen = ScreenFields
  BY DEF DashboardInv, ScreenIsWell
<1>1. CASE SearchFires
  <2>1. PICK part, loading :
            /\ screen' = [screen EXCEPT !.timer = FALSE, !.loading = loading]
            /\ inflight' = Append(inflight, Load(screen, part)) /\ UNCHANGED session
    BY <1>1 DEF SearchFires, Aside
  <2>2. screen'.page = screen.page /\ screen'.id = screen.id /\ screen'.sel = screen.sel
    BY <1>0, <2>1 DEF ScreenFields
  <2> QED BY <2>1, <2>2, AskPosts
<1>2. CASE AdminTenantsPage
  <2>1. PICK t, value, busy :
            /\ screen' = [screen EXCEPT !.busy = busy]
            /\ inflight' = Append(inflight, Request("set", "tenants", t, value))
            /\ UNCHANGED session
    BY <1>2 DEF AdminTenantsPage, Aside
  <2>2. screen'.page = screen.page /\ screen'.id = screen.id /\ screen'.sel = screen.sel
    BY <1>0, <2>1 DEF ScreenFields
  <2>3. PICK e : e = Request("set", "tenants", t, value)
    OBVIOUS
  <2>4. e.state = "sent"
    BY <2>3 DEF Request
  <2> QED BY <2>1, <2>2, <2>3, <2>4 DEF Posts
<1>3. CASE SetStatusFilter
  <2>1. PICK chosen, loading, s :
            /\ s = [screen EXCEPT !.filter = chosen, !.loading = loading]
            /\ screen' = s /\ inflight' = Append(inflight, Load(s, "threads"))
            /\ UNCHANGED session
    BY <1>3 DEF SetStatusFilter, Aside
  <2>2. screen'.page = screen.page /\ screen'.id = screen.id /\ screen'.sel = screen.sel
    BY <1>0, <2>1 DEF ScreenFields
  <2> QED BY <2>1, <2>2, AskPosts
<1>4. CASE ShowDays
  <2>1. PICK range, s :
            /\ s = [screen EXCEPT !.filter = range, !.loading = {"visits"}]
            /\ screen' = s /\ inflight' = Append(inflight, Load(s, "visits"))
            /\ UNCHANGED session
    BY <1>4 DEF ShowDays, Aside
  <2>2. screen'.page = screen.page /\ screen'.id = screen.id /\ screen'.sel = screen.sel
    BY <1>0, <2>1 DEF ScreenFields
  <2> QED BY <2>1, <2>2, AskPosts
<1>5. CASE FindCustomer
  <2>1. CASE \E term \in Things : Search(term)
    BY <2>1, SearchPosts
  <2>2. CASE ~\E term \in Things : Search(term)
    <3>1. PICK hitch : Change([screen EXCEPT !.filter = Nil, !.timer = FALSE,
                                 !.held["candidates"] = NoRows, !.hitch = hitch])
      BY <1>5, <2>2 DEF FindCustomer
    <3> QED BY <1>0, <3>1 DEF Change, Aside, Posts, ScreenFields
  <2> QED BY <2>1, <2>2
<1>6. CASE SelectCustomer
  <2>1. screen.page = "booking" /\ UNCHANGED <<session, inflight>>
    BY <1>6 DEF SelectCustomer, Change, Aside
  <2>2. \/ screen' = [screen EXCEPT !.sel = Nil]
        \/ \E t : screen' = [screen EXCEPT !.sel = t, !.held["candidates"] = NoRows]
    BY <1>6 DEF SelectCustomer, Change
  <2>3. screen'.page = screen.page /\ screen'.id = screen.id
    BY <1>0, <2>2 DEF ScreenFields
  <2> QED BY <2>1, <2>3 DEF Posts
<1>7. CASE Select /\ screen.page # "inbox"
  <2>1. PICK t, loading, s :
            /\ t \in Things
            /\ s = [screen EXCEPT !.sel = t, !.loading = loading]
            /\ screen' = s /\ inflight' = Append(inflight, Load(s, "messages"))
            /\ UNCHANGED session
    BY <1>7 DEF Select, Row, Aside
  <2>2. screen'.page = screen.page /\ screen'.id = screen.id /\ screen'.sel \in Things
    BY <1>0, <2>1 DEF ScreenFields
  <2> QED BY <2>1, <2>2, AskPosts
<1> QED BY <1>1, <1>2, <1>3, <1>4, <1>5, <1>6, <1>7

LEMMA OpenTargets ==
    ASSUME DashboardInv, TargetsAreWell, screen.page # "stripe",
           Open \/ (Select /\ screen.page = "inbox")
    PROVE  TargetsAreWell'
<1>1. PICK s : s = session
  OBVIOUS
<1>2. session' = s /\ (s.token = "none" => screen.page = "login")
  BY <1>1 DEF Open, Select, Aside, TargetsAreWell
<1>3. /\ inflight \in Seq(ToSet(inflight)) /\ Aimed(ToSet(inflight))
      /\ \A r \in ToSet(inflight) : DOMAIN r = RequestFields
  BY DEF DashboardInv, RequestsAreWell, WellFormed, TargetsAreWell, Underway, Aimed
<1>4. CASE Open
  <2>1. PICK p, t : Navigate(session, p, t, inflight) /\ (p \in ById => t \in Things)
    BY <1>4 DEF Open
  <2>2. Destination(s, p) \in ById => p \in ById
    BY DEF Destination, TenantActiveGuard, ById
  <2> QED BY <1>1, <1>2, <1>3, <2>1, <2>2, TargetsNavigate
<1>5. CASE Select /\ screen.page = "inbox"
  <2>1. PICK t, e :
            /\ t \in Things /\ e = Request("load", "messages", t, Nil)
            /\ Navigate(session, "thread", t, Append(inflight, e))
    BY <1>5 DEF Select, Row
  <2>2. PICK reqs : reqs = Append(inflight, e)
    OBVIOUS
  <2>3. reqs \in Seq(ToSet(reqs)) /\ ToSet(reqs) = ToSet(inflight) \cup {e}
    BY <1>3, <2>2, AppendedSet
  <2>4. e.state = "sent" /\ DOMAIN e = RequestFields
    BY <2>1 DEF Request, RequestFields
  <2>5. Aimed(ToSet(reqs)) /\ \A r \in ToSet(reqs) : DOMAIN r = RequestFields
    BY <1>3, <2>3, <2>4 DEF Aimed
  <2> QED BY <1>1, <1>2, <2>1, <2>2, <2>3, <2>5, TargetsNavigate
<1> QED BY <1>4, <1>5

(* Nobody answers a page that was left for Stripe. *)
LEMMA PageIsOurs ==
    ASSUME TargetsAreWell, NEW i \in DOMAIN inflight
    PROVE  screen.page # "stripe"
BY DEF TargetsAreWell

LEMMA ServeTargets ==
    ASSUME DashboardInv, TruthInv, TargetsAreWell, NEW i \in DOMAIN inflight, Serve(i)
    PROVE  TargetsAreWell'
<1>1. PICK r, reply, e : /\ r = inflight[i] /\ reply = Reply(r)
                         /\ e = [r EXCEPT !.state = "done", !.reply = reply]
  OBVIOUS
<1>2. inflight \in Seq(ToSet(inflight)) /\ WellFormed(r) /\ Aimed(ToSet(inflight))
  BY <1>1 DEF DashboardInv, RequestsAreWell, Underway, ToSet, TargetsAreWell, Aimed
<1>3. /\ inflight' = [inflight EXCEPT ![i] = e] /\ Possible(r) /\ UNCHANGED session
      /\ screen' = screen \/ screen' = [screen EXCEPT !.hitch = TRUE]
  BY <1>1 DEF Serve, Hitch
<1>4. e.op = r.op /\ e.reply = reply
  BY <1>1, <1>2 DEF WellFormed, RequestFields
<1>5. ToSet(inflight') \subseteq ToSet(inflight) \cup {e}
  BY <1>2, <1>3, UpdatedSet
<1>6. r.op = "move" => reply \in Things
  <2>1. r.op = "move" => reply = NewVisit
    BY <1>1 DEF Reply
  <2>2. r.op = "move" => NewVisit \in Things
    <3>1. PICK next : next = Applied(r)
      OBVIOUS
    <3> QED BY <1>3, <3>1, Named, AppliedVisits
  <2> QED BY <2>1, <2>2
<1>7. Aimed(ToSet(inflight')) /\ screen.page # "stripe"
  BY <1>2, <1>4, <1>5, <1>6, PageIsOurs DEF Aimed
<1>8. screen'.page = screen.page /\ screen'.id = screen.id /\ screen'.sel = screen.sel
  BY <1>3 DEF DashboardInv, ScreenIsWell, ScreenFields
<1> QED BY <1>3, <1>7, <1>8, TargetsStay

LEMMA AnswerTargets ==
    ASSUME DashboardInv, TargetsAreWell, NEW i \in DOMAIN inflight, AnswerArrives(i)
    PROVE  TargetsAreWell'
<1>1. PICK r, ans : r = inflight[i] /\ ans = Answered(screen, r)
  OBVIOUS
<1>2. WellFormed(r) /\ Aimed(ToSet(inflight')) /\ UNCHANGED session
  BY <1>1, Rest, AimedRest DEF AnswerArrives, DashboardInv, RequestsAreWell
<1>3. DOMAIN ans = ScreenFields /\ \A x \in {"page", "id", "sel"} : ans[x] = screen[x]
  <2>1. Brings(screen, r, ans)
    BY <1>1, <1>2, AnsweredSeen
  <2> QED BY <2>1 DEF Brings
<1>4. screen' = screen \/ \E hitch : screen' = [ans EXCEPT !.hitch = hitch]
  BY <1>1, <1>3 DEF AnswerArrives, ScreenFields
<1>5. screen'.page = screen.page /\ screen'.id = screen.id /\ screen'.sel = screen.sel
  BY <1>3, <1>4 DEF ScreenFields
<1> QED BY <1>2, <1>5, PageIsOurs, TargetsStay

LEMMA LeadsTargets ==
    ASSUME DashboardInv, TargetsAreWell, NEW i \in DOMAIN inflight, AnswerLeads(i)
    PROVE  TargetsAreWell'
<1>1. PICK r, rest, s : r = inflight[i] /\ rest = RemoveAt(inflight, i) /\ s = session
  OBVIOUS
<1>2. r.state = "done" /\ r.op \in Leaving
  BY <1>1 DEF AnswerLeads
<1>3. /\ rest \in Seq(ToSet(rest)) /\ Aimed(ToSet(rest)) /\ Aimed(Underway)
      /\ r \in Underway /\ WellFormed(r) /\ \A x \in ToSet(rest) : DOMAIN x = RequestFields
  BY <1>1, RestFields, Rest, AimedRest DEF DashboardInv, RequestsAreWell
<1>4. screen.page # "stripe" /\ (s.token = "none" => screen.page = "login")
  BY <1>1, PageIsOurs DEF TargetsAreWell
<1>5. CASE r.op \in {"book", "remove"}
  <2>1. session' = s /\ Navigate(s, "calendar", Nil, rest)
    BY <1>1, <1>5 DEF AnswerLeads
  <2>2. Destination(s, "calendar") \notin ById
    BY DEF Destination, TenantActiveGuard, ById
  <2> QED BY <1>3, <1>4, <2>1, <2>2, TargetsNavigate
<1>6. CASE r.op = "move"
  <2>1. PICK x : x = r.reply
    OBVIOUS
  <2>2. session' = s /\ Navigate(s, "appointment", x, rest)
    BY <1>1, <1>6, <2>1 DEF AnswerLeads
  <2>3. x \in Things
    BY <1>2, <1>3, <1>6, <2>1 DEF Aimed
  <2> QED BY <1>3, <1>4, <2>2, <2>3, TargetsNavigate
<1>7. CASE r.op \in {"checkout", "portal"}
  <2>1. PICK new : new = Fresh("stripe", Nil) /\ screen' = new /\ inflight' = << >>
                   /\ UNCHANGED session
    BY <1>1, <1>7 DEF AnswerLeads
  <2>2. new.page = "stripe" /\ new.id = Nil
    BY <2>1, FreshIds
  <2>3. ToSet(inflight') = {}
    BY <2>1 DEF ToSet
  <2> QED BY <2>1, <2>2, <2>3 DEF TargetsAreWell, Underway, ById
<1>8. CASE r.op = "logout"
  <2>1. SignOut(FALSE, RemoveAt(inflight, i))
    BY <1>1, <1>8 DEF AnswerLeads
  <2> QED BY <2>1, TargetsSignOut
<1>9. CASE r.op = "login"
  <2>1. PICK v, p, id : v = r.value /\ p = screen.id /\ id = screen.sel
    OBVIOUS
  <2>2. session' = v /\ Navigate(v, p, id, rest)
    BY <1>1, <1>9, <2>1 DEF AnswerLeads
  <2>3. v.token # "none"
    BY <1>3, <1>9, <2>1 DEF WellFormed, Sessions
  <2>4. Destination(v, p) \in ById => p \in ById
    BY DEF Destination, TenantActiveGuard, ById
  <2>5. p \in ById => id \in Things
    <3>1. screen.page \in ById => screen.sel \in Things
      BY DEF TargetsAreWell
    <3>2. screen.page = "login" /\ screen.id \in ById => screen.sel \in Things
      BY DEF TargetsAreWell
    <3>3. screen.page \notin ById \cup {"login"} => screen.id \notin ById
      BY NilAssumption DEF TargetsAreWell
    <3> QED BY <2>1, <3>1, <3>2, <3>3
  <2> QED BY <1>3, <1>4, <2>2, <2>3, <2>4, <2>5, TargetsNavigate
<1> QED BY <1>2, <1>5, <1>6, <1>7, <1>8, <1>9 DEF Leaving

LEMMA NetworkTargets ==
    ASSUME DashboardInv, TargetsAreWell, NEW i \in DOMAIN inflight,
           Refused(i) \/ Lost(i) \/ Expired(i)
    PROVE  TargetsAreWell'
<1>1. PICK r, rest : r = inflight[i] /\ rest = RemoveAt(inflight, i)
  OBVIOUS
<1>2. /\ rest \in Seq(ToSet(rest)) /\ Aimed(ToSet(rest)) /\ WellFormed(r)
      /\ DOMAIN screen = ScreenFields /\ DOMAIN session = SessionFields
      /\ screen.page # "stripe"
  BY <1>1, Rest, AimedRest, PageIsOurs
  DEF DashboardInv, RequestsAreWell, ScreenIsWell, SessionIsWell
<1>3. ASSUME NEW cookie, SignOut(cookie, RemoveAt(inflight, i))
      PROVE  TargetsAreWell'
  BY <1>3, TargetsSignOut
<1>4. ASSUME NEW again, NEW resent, SendAgain(i, again, resent),
             session'.token = session.token \/ session'.token = "valid"
      PROVE  TargetsAreWell'
  <2>1. PICK more, e : e = [r EXCEPT !.state = "sent", !.reply = Nil, !.again = more,
                                     !.resent = resent]
                       /\ inflight' = Append(rest, e)
    BY <1>1, <1>4 DEF SendAgain
  <2>2. e.state = "sent" /\ ToSet(inflight') = ToSet(rest) \cup {e}
    BY <1>2, <2>1, AppendedSet DEF WellFormed, RequestFields
  <2>3. Aimed(ToSet(inflight'))
    BY <1>2, <2>2 DEF Aimed
  <2>4. screen' = screen \/ screen' = [screen EXCEPT !.hitch = TRUE]
    BY <1>4 DEF SendAgain, Hitch
  <2>5. screen'.page = screen.page /\ screen'.id = screen.id /\ screen'.sel = screen.sel
    BY <1>2, <2>4 DEF ScreenFields
  <2> QED BY <1>2, <1>4, <2>3, <2>5, TargetsStay
<1>5. ASSUME Fails(i) PROVE TargetsAreWell'
  <2>1. CASE r.resent \/ r.op = "logout"
    BY <1>1, <1>3, <1>5, <2>1 DEF Fails
  <2>2. CASE ~(r.resent \/ r.op = "logout") /\ ~r.here
    <3>1. UNCHANGED <<session, screen>> /\ inflight' = rest
      BY <1>1, <1>5, <2>2 DEF Fails
    <3> QED BY <1>2, <3>1, TargetsStay
  <2>3. CASE ~(r.resent \/ r.op = "logout") /\ r.here /\ r.op = "drop"
    <3>1. PICK e : e = Load(screen, "visits")
      OBVIOUS
    <3>2. /\ UNCHANGED session /\ inflight' = Append(rest, e)
          /\ screen' = [screen EXCEPT !.loading = @ \cup {"visits"}]
      BY <1>1, <1>5, <2>3, <3>1 DEF Fails
    <3>3. e.state = "sent"
      BY <3>1 DEF Load, Request
    <3>4. ToSet(inflight') = ToSet(rest) \cup {e}
      BY <1>2, <3>2, AppendedSet
    <3>5. Aimed(ToSet(inflight'))
      BY <1>2, <3>3, <3>4 DEF Aimed
    <3>6. screen'.page = screen.page /\ screen'.id = screen.id /\ screen'.sel = screen.sel
      BY <1>2, <3>2 DEF ScreenFields
    <3> QED BY <1>2, <3>2, <3>5, <3>6, TargetsStay
  <2>4. CASE ~(r.resent \/ r.op = "logout") /\ r.here /\ r.op # "drop"
    <3>1. PICK f : f = Failed(screen, r)
      OBVIOUS
    <3>2. PICK hitch : /\ screen' = [f EXCEPT !.hitch = hitch] /\ inflight' = rest
                       /\ UNCHANGED session
      BY <1>1, <1>5, <2>4, <3>1 DEF Fails
    <3>3. DOMAIN f = ScreenFields /\ f.page = screen.page /\ f.id = screen.id
      BY <3>1, FailedScreen
    <3>4. f.sel = screen.sel
      BY <3>1, FailedSight
    <3>5. screen'.page = screen.page /\ screen'.id = screen.id /\ screen'.sel = screen.sel
      BY <3>2, <3>3, <3>4 DEF ScreenFields
    <3> QED BY <1>2, <3>2, <3>5, TargetsStay
  <2> QED BY <2>1, <2>2, <2>3, <2>4
<1>6. CASE Refused(i)
  BY <1>5, <1>6 DEF Refused
<1>7. CASE Lost(i)
  BY <1>3, <1>4, <1>5, <1>7 DEF Lost
<1>8. CASE Expired(i)
  <2>1. CASE session' = [session EXCEPT !.token = "valid"] /\ SendAgain(i, FALSE, TRUE)
    <3>1. session'.token = "valid"
      BY <1>2, <2>1 DEF SessionFields
    <3> QED BY <1>4, <2>1, <3>1
  <2> QED BY <1>3, <1>8, <2>1 DEF Expired
<1> QED BY <1>6, <1>7, <1>8

-----------------------------------------------------------------------------
(* The screen, in every state.                                             *)

TruthsInv == DashboardInv /\ TruthInv /\ TargetsAreWell

LEMMA InitTruthsInv == DashboardInit => TruthsInv
<1> SUFFICES ASSUME DashboardInit PROVE TruthsInv
  OBVIOUS
<1>1. PICK s, p, t, id, new :
          /\ s \in Sessions /\ p \in Pages /\ t \in Things
          /\ session = s /\ id = (IF p \in ById THEN t ELSE Nil)
          /\ new = Fresh(p, id) /\ screen = new /\ inflight = Constructor(new)
  BY DEF DashboardInit
<1>2. DashboardInv
  BY InitDashboardInv
<1>3. /\ new.page = p /\ DOMAIN new = ScreenFields /\ ~new.timer /\ new.id = id
      /\ new.sel = IF p = "booking" THEN Nil ELSE id
  BY <1>1, FreshWaits, FreshIds
<1>4. HasShape(server)
  <2>1. /\ DOMAIN server = {"rows", "whole", "sent", "visits", "sub"}
        /\ DOMAIN server.rows = Lists /\ (\A l \in Lists : DOMAIN server.rows[l] = Things)
    BY DEF DashboardInit
  <2>2. DOMAIN server.whole = Wholes /\ DOMAIN server.sent = Things
        /\ DOMAIN server.visits = Things
    BY DEF DashboardInit
  <2>3. ASSUME NEW x \in Things PROVE DOMAIN server.visits[x] = {"day", "status"}
    <3>1. PICK one, day : one = (CHOOSE y \in Things : TRUE) /\ day = (CHOOSE d \in Days : TRUE)
      OBVIOUS
    <3>2. server.visits = [y \in Things |-> IF y = one THEN [day |-> day, status |-> "live"]
                                            ELSE NoVisit]
      BY <3>1 DEF DashboardInit
    <3>3. server.visits[x] = NoVisit
          \/ server.visits[x] = [day |-> day, status |-> "live"]
      BY <3>2
    <3> QED BY <3>3 DEF NoVisit
  <2> QED BY <2>1, <2>2, <2>3 DEF HasShape
<1>5. Right(inflight, new, server)
  <2>1. PICK reqs, c : reqs = << >> /\ c = Constructor(new)
    OBVIOUS
  <2>2. reqs \in Seq(ToSet(reqs)) /\ ToSet(reqs) = {}
    BY <2>1 DEF ToSet
  <2>3. c \in Seq(ToSet(c))
    BY <1>1, <1>3, <2>1, ConstructorAsks
  <2>4. Orphaned(reqs) \in Seq(ToSet(Orphaned(reqs))) /\ ToSet(Orphaned(reqs)) = {}
    BY <2>2, OrphanedSet
  <2>5. Orphaned(reqs) = << >>
    BY <2>4 DEF ToSet
  <2>6. Orphaned(reqs) \o Constructor(new) = c
    BY <2>1, <2>3, <2>5
  <2>7. Right(c, new, server)
    BY <1>1, <2>2, <2>6, FreshRight
  <2> QED BY <1>1, <2>1, <2>7
<1>6. TruthInv
  BY <1>1, <1>3, <1>4, <1>5 DEF TruthInv, Truth
<1>7. \A r \in Underway : r.op = "load"
  BY <1>1, <1>3, ConstructorAsks DEF Underway
<1>8. p \notin {"login", "stripe"} /\ session.token = "valid"
  BY <1>1 DEF Sessions, Pages, StaffPages, ManagerPages, AdminPages
<1>9. "booking" \notin ById
  BY DEF ById
<1>10. TargetsAreWell
  BY <1>1, <1>3, <1>7, <1>8, <1>9 DEF TargetsAreWell
<1> QED BY <1>2, <1>6, <1>10 DEF TruthsInv

(* A page left for Stripe is not used any more.                            *)
LEMMA StripeStays ==
    ASSUME DashboardInv, TargetsAreWell, screen.page = "stripe"
    PROVE  ~DashboardNext
<1>1. DOMAIN inflight = {}
  BY DEF TargetsAreWell
<1>2. ~screen.timer
  BY DEF DashboardInv, ScreenIsWell
<1>3. /\ ~ServicesListPage /\ ~ServiceCategoriesPage /\ ~HolidaysPage /\ ~EmployeesListPage
      /\ ~AdminPlansPage /\ ~CustomersListPage /\ ~SearchFires /\ ~AdminTenantsPage
      /\ ~SalonProfilePage /\ ~BusinessHoursPage /\ ~EmployeeForms /\ ~EmployeeTimeOff
      /\ ~SettingsForms /\ ~Invitations /\ ~WhatsAppConnection /\ ~SendTestMessage
  BY <1>2 DEF ServicesListPage, ServiceCategoriesPage, HolidaysPage, EmployeesListPage,
     AdminPlansPage, CustomersListPage, SearchFires, AdminTenantsPage, SalonProfilePage,
     BusinessHoursPage, EmployeeForms, EmployeeTimeOff, SettingsForms, Invitations,
     WhatsAppConnection, SendTestMessage
<1>4. ~SelectPlan /\ ~OpenCustomerPortal /\ ~CancelSubscription /\ ~ReactivateSubscription
  BY DEF SelectPlan, OpenCustomerPortal, CancelSubscription, ReactivateSubscription,
     BillingControls
<1>5. ~Select /\ ~SetStatusFilter /\ ~SendMessage /\ ~UpdateStatus /\ ~Assign
  BY DEF Select, SetStatusFilter, SendMessage, UpdateStatus, Assign, InAThread
<1>6. ~ShowDays /\ ~OnDrop /\ ~AppointmentDetailPage /\ ~FindCustomer /\ ~SelectCustomer
      /\ ~SubmitBooking /\ ~Logout /\ ~LoginPage /\ ~Open
  BY DEF ShowDays, OnDrop, AppointmentDetailPage, FindCustomer, SelectCustomer, SubmitBooking,
     Logout, LoginPage, Open
<1> QED BY <1>1, <1>3, <1>4, <1>5, <1>6 DEF DashboardNext, User

LEMMA UserTruth ==
    ASSUME DashboardInv, TruthInv, User
    PROVE  TruthInv'
<1>1. CASE \/ ServicesListPage \/ ServiceCategoriesPage \/ HolidaysPage
           \/ EmployeesListPage \/ AdminPlansPage \/ EmployeeTimeOff \/ Invitations
  BY <1>1, RowPagesTruth
<1>2. CASE SalonProfilePage \/ BusinessHoursPage \/ EmployeeForms \/ SettingsForms
  BY <1>2, FormPagesTruth
<1>3. CASE CustomersListPage \/ SearchFires \/ AdminTenantsPage
  BY <1>3, CustomersTruth, SearchFiresTruth, AdminTenantsTruth
<1>4. CASE WhatsAppConnection
  BY <1>4, WhatsAppTruth
<1>5. CASE \/ SendTestMessage \/ SelectPlan \/ OpenCustomerPortal \/ CancelSubscription
           \/ ReactivateSubscription \/ Logout \/ LoginPage \/ SubmitBooking
  BY <1>5, BillingTruth
<1>6. CASE SetStatusFilter \/ ShowDays
  BY <1>6, ViewTruth
<1>7. CASE SendMessage \/ UpdateStatus \/ Assign
  BY <1>7, ThreadTruth
<1>8. CASE OnDrop \/ AppointmentDetailPage
  BY <1>8, OnDropTruth, AppointmentTruth
<1>9. CASE FindCustomer \/ SelectCustomer
  BY <1>9, FindCustomerTruth, SelectCustomerTruth
<1>10. CASE Select \/ Open
  BY <1>10, SelectTruth, OpenTruth
<1> QED BY <1>1, <1>2, <1>3, <1>4, <1>5, <1>6, <1>7, <1>8, <1>9, <1>10 DEF User

LEMMA UserTargets ==
    ASSUME DashboardInv, TargetsAreWell, screen.page # "stripe", User
    PROVE  TargetsAreWell'
<1>1. CASE \/ ServicesListPage \/ ServiceCategoriesPage \/ HolidaysPage \/ EmployeesListPage
           \/ AdminPlansPage \/ CustomersListPage \/ SalonProfilePage \/ BusinessHoursPage
           \/ EmployeeForms \/ EmployeeTimeOff \/ SettingsForms \/ Invitations
  BY <1>1, PagesPost, TargetsPosts
<1>2. CASE \/ WhatsAppConnection \/ SendTestMessage \/ SelectPlan \/ OpenCustomerPortal
           \/ CancelSubscription \/ ReactivateSubscription \/ SendMessage \/ UpdateStatus
           \/ Assign \/ OnDrop \/ AppointmentDetailPage \/ SubmitBooking \/ Logout \/ LoginPage
  BY <1>2, ControlsPost, TargetsPosts
<1>3. CASE \/ SearchFires \/ AdminTenantsPage \/ SetStatusFilter \/ ShowDays
           \/ FindCustomer \/ SelectCustomer \/ (Select /\ screen.page # "inbox")
  BY <1>3, ViewsPost, TargetsPosts
<1>4. CASE Open \/ (Select /\ screen.page = "inbox")
  BY <1>4, OpenTargets
<1> QED BY <1>1, <1>2, <1>3, <1>4 DEF User

LEMMA StepTruthsInv == TruthsInv /\ [DashboardNext]_dashboardVars => TruthsInv'
<1> SUFFICES ASSUME TruthsInv, [DashboardNext]_dashboardVars PROVE TruthsInv'
  OBVIOUS
<1>1. DashboardInv /\ TruthInv /\ TargetsAreWell
  BY DEF TruthsInv
<1>2. DashboardInv'
  BY <1>1, StepDashboardInv
<1>3. CASE UNCHANGED dashboardVars
  BY <1>1, <1>2, <1>3 DEF dashboardVars, TruthInv, TargetsAreWell, Underway, TruthsInv
<1>4. CASE DashboardNext
  <2>1. screen.page # "stripe"
    BY <1>1, <1>4, StripeStays
  <2>2. CASE User
    BY <1>1, <1>2, <2>1, <2>2, UserTruth, UserTargets DEF TruthsInv
  <2>3. ASSUME NEW i \in DOMAIN inflight,
               \/ Serve(i) \/ AnswerArrives(i) \/ AnswerLeads(i)
               \/ Refused(i) \/ Lost(i) \/ Expired(i)
        PROVE  TruthsInv'
    <3>1. CASE Serve(i)
      BY <1>1, <1>2, <3>1, ServeTruth, ServeTargets DEF TruthsInv
    <3>2. CASE AnswerArrives(i)
      BY <1>1, <1>2, <3>2, AnswerArrivesTruth, AnswerTargets DEF TruthsInv
    <3>3. CASE AnswerLeads(i)
      BY <1>1, <1>2, <3>3, AnswerLeadsTruth, LeadsTargets DEF TruthsInv
    <3>4. CASE Refused(i) \/ Lost(i) \/ Expired(i)
      BY <1>1, <1>2, <3>4, NetworkTruth, NetworkTargets DEF TruthsInv
    <3> QED BY <2>3, <3>1, <3>2, <3>3, <3>4
  <2> QED BY <1>4, <2>2, <2>3 DEF DashboardNext
<1> QED BY <1>3, <1>4

LEMMA TruthsInvariance == DashboardSpec => []TruthsInv
BY InitTruthsInv, StepTruthsInv, PTL DEF DashboardSpec

(* A view that fits is one that agrees.                                    *)
LEMMA FitsAgrees ==
    ASSUME HasShape(server), NEW part \in PartsOf(screen.page),
           part = "visit" => screen.id \in Things,
           part \in Parts,
           ~(part = "messages" /\ screen.page = "inbox"),
           Fits(part, screen.held[part], screen, server, FALSE)
    PROVE  Agrees(part)
<1>1. PICK held : held = screen.held[part]
  OBVIOUS
<1>2. CASE part \in Lists
  <2>1. RowsAgree(part)
    BY <1>2 DEF Fits, RowsAgree
  <2> QED BY <1>2, <2>1, KindsApart DEF Agrees
<1>3. CASE part = "candidates"
  BY <1>3, KindsApart DEF Fits, Agrees
<1>4. CASE part = "visits"
  BY <1>4, KindsApart DEF Fits, Agrees
<1>5. CASE part = "visit"
  <2>1. Stored(part, screen.id) = server.visits[screen.id]
    BY <1>5, KindsApart DEF Stored
  <2> QED BY <1>5, <2>1, KindsApart DEF Fits, Agrees
<1>6. ASSUME part \notin Lists \cup {"candidates", "visits", "visit"},
             held = Stored(part, Criterion(screen, part))
      PROVE  Agrees(part)
  BY <1>1, <1>6 DEF Agrees
<1>7. CASE part \in Wholes
  <2>1. Stored(part, Criterion(screen, part)) = server.whole[part]
    BY <1>7, KindsApart DEF Stored
  <2> QED BY <1>1, <1>6, <1>7, <2>1, KindsApart DEF Fits
<1>8. CASE part = "messages"
  <2>1. Criterion(screen, part) = screen.sel
    BY <1>8 DEF Criterion
  <2>2. Stored(part, screen.sel) = [t \in Things |-> IF t = screen.sel THEN server.sent[t] ELSE 0]
    BY <1>8, KindsApart DEF Stored
  <2> QED BY <1>1, <1>6, <1>8, <2>1, <2>2, KindsApart DEF Fits
<1>9. CASE part = "subscription"
  <2>1. Stored(part, Criterion(screen, part)) = server.sub
    BY <1>9, KindsApart DEF Stored
  <2> QED BY <1>1, <1>6, <1>9, <2>1, KindsApart DEF Fits
<1>10. CASE part \in Reports
  <2>1. Stored(part, Criterion(screen, part)) = "shown"
    BY <1>10, KindsApart DEF Stored
  <2> QED BY <1>1, <1>6, <1>10, <2>1, KindsApart DEF Fits
<1> QED BY <1>2, <1>3, <1>4, <1>5, <1>7, <1>8, <1>9, <1>10 DEF Parts

LEMMA PartsAreParts ==
    ASSUME NEW p \in Pages \cup {"login", "stripe"}, NEW q \in PartsOf(p)
    PROVE  q \in Parts /\ (q = "visit" => p = "appointment")
<1>1. PICK asked : asked = UNION {Group(Asked(p)[i]) : i \in DOMAIN Asked(p)}
  OBVIOUS
<1>2. PartsOf(p) = asked \cup (IF p = "booking" THEN {"candidates"} ELSE {})
                         \cup (IF p = "inbox" THEN {"messages"} ELSE {})
  BY <1>1 DEF PartsOf
<1>3. CASE q \in {"candidates", "messages"}
  BY <1>3 DEF Parts
<1>4. CASE q \in asked
  <2>1. PICK i \in DOMAIN Asked(p) : q \in Group(Asked(p)[i])
    BY <1>1, <1>4
  <2>2. PICK a : a = Asked(p)[i]
    OBVIOUS
  <2>3. /\ a \in Parts \cup {"employeePage", "settingsAndAi"}
        /\ a = "visit" => p = "appointment"
    <3>1. CASE p = "settings"
      <4>1. Asked(p) = <<"tenant", "settingsAndAi", "invitations", "whatsapp">>
        BY <3>1 DEF Asked
      <4>2. a \in {"tenant", "settingsAndAi", "invitations", "whatsapp"}
        BY <2>2, <4>1
      <4> QED BY <4>2 DEF Parts, Lists, Wholes
    <3>2. CASE p = "billing"
      <4>1. Asked(p) = <<"subscription", "billingPlans">>
        BY <3>2 DEF Asked
      <4>2. a \in {"subscription", "billingPlans"}
        BY <2>2, <4>1
      <4> QED BY <4>2 DEF Parts, Reports
    <3>3. CASE p = "thread"
      <4>1. Asked(p) = <<"threads", "messages">>
        BY <3>3 DEF Asked
      <4>2. a \in {"threads", "messages"}
        BY <2>2, <4>1
      <4> QED BY <4>2 DEF Parts, Lists
    <3>4. CASE p \in {"booking", "home", "login", "stripe"}
      <4>1. Asked(p) = << >>
        BY <3>4 DEF Asked
      <4> QED BY <4>1
    <3>5. CASE p \notin {"settings", "billing", "thread", "booking", "home", "login", "stripe"}
      <4>1. PICK x : /\ Asked(p) = <<x>>
                     /\ x = CASE p = "employee" -> "employeePage" [] p = "inbox" -> "threads"
                              [] p = "calendar" -> "visits" [] p = "appointment" -> "visit"
                              [] OTHER -> p
        BY <3>5 DEF Asked
      <4>2. a = x
        BY <2>2, <4>1
      <4>3. /\ x \in Parts \cup {"employeePage", "settingsAndAi"}
            /\ x = "visit" => p = "appointment"
        BY <3>5, <4>1 DEF Pages, StaffPages, ManagerPages, AdminPages, Parts, Lists, Wholes,
                        Reports
      <4> QED BY <4>2, <4>3
    <3> QED BY <3>1, <3>2, <3>3, <3>4, <3>5
  <2>4. q = a \/ q \in {"profile", "workingHours", "timeOff", "assigned", "settings", "ai"}
    BY <2>1, <2>2 DEF Group
  <2>5. q = a => a \notin {"employeePage", "settingsAndAi"}
    BY <2>1, <2>2 DEF Group
  <2>6. {"profile", "workingHours", "timeOff", "assigned", "settings", "ai"}
            \subseteq Lists \cup Wholes
    BY DEF Lists, Wholes
  <2> QED BY <2>3, <2>4, <2>5, <2>6 DEF Parts
<1> QED BY <1>2, <1>3, <1>4

(* For every set of roles, rows and days, and any number of clicks, lost    *)
(* answers and expired tokens: once no request of the page is under way, it *)
(* shows what is stored for what is now chosen, unless an answer overtook   *)
(* one asked before, a load failed or the answer of a write was lost.       *)
THEOREM ScreensTrue == DashboardSpec => []ScreenIsTrue
<1>1. TruthsInv => ScreenIsTrue
  <2> SUFFICES ASSUME TruthsInv, \A i \in DOMAIN inflight : ~inflight[i].here,
                      ~screen.hitch, ~screen.timer, NEW part \in DOMAIN screen.held
               PROVE  Agrees(part)
    BY DEF ScreenIsTrue
  <2>1. /\ inflight \in Seq(ToSet(inflight)) /\ DOMAIN screen.held = PartsOf(screen.page)
        /\ HasShape(server) /\ Right(inflight, screen, server)
    BY Named DEF TruthsInv
  <2>2. CASE part = "messages" /\ screen.page = "inbox"
    BY <2>2, KindsApart DEF Agrees
  <2>3. CASE ~(part = "messages" /\ screen.page = "inbox")
    <3>1. part \in Followed(screen)
      BY <2>3 DEF Followed
    <3>2. Comes(part, inflight, screen, server)
      BY <2>1, <3>1 DEF Right, Promised
    <3>3. ~Waits(part, inflight) /\ \A k \in DOMAIN inflight : Idle(part, inflight[k])
      BY DEF Waits, Asks, Concerns, Idle, After, Counts
    <3>4. ~Removing(inflight)
      BY DEF Removing
    <3>5. Fits(part, screen.held[part], screen, server, Removing(inflight))
      BY <2>1, <3>2, <3>3, Shown
    <3>6. Fits(part, screen.held[part], screen, server, FALSE)
      BY <3>4, <3>5 DEF Fits
    <3>7. part \in Parts /\ (part = "visit" => screen.page = "appointment")
      BY <2>1, PartsAreParts DEF TruthsInv, TargetsAreWell
    <3>8. part = "visit" => screen.id \in Things
      BY <3>7 DEF TruthsInv, TargetsAreWell, ById
    <3> QED BY <2>1, <2>3, <3>6, <3>7, <3>8, FitsAgrees
  <2> QED BY <2>2, <2>3
<1> QED BY <1>1, TruthsInvariance, PTL
=============================================================================
