------------------------ MODULE WhatsAppInboundProofs ------------------------
(***************************************************************************)
(* Theorems about WhatsAppInbound, for any number of messages, webhooks,   *)
(* workers, conversations and attempts.                                    *)
(***************************************************************************)
EXTENDS WhatsAppInbound, TLAPS

(* Where a run stands at a message of its payload. *)
AtMessage == {"dedup", "lookup", "find", "open", "store", "touch", "quota", "turn"}

(* Where it has a conversation for it. *)
WithThread == {"store", "touch", "quota", "turn"}

(* Where it has stored the message and may yet begin a turn for it. *)
Owning == {"touch", "quota"}

(* A run is at work exactly while BullMQ holds its job active, is at a      *)
(* message when it says so, and has a thread when it needs one.            *)
RunsAreActive ==
    \A e \in Events :
        /\ pc[e] \in Working <=> job[e] = "active"
        /\ pc[e] \in AtMessage => pos[e] \in 1..Len(payload[e])
        /\ pc[e] \in WithThread => thread[e] \in Thread
        /\ pc[e] = "idle" => pos[e] = 1
        /\ pc[e] = "enqueue" => job[e] = None /\ pos[e] = 1
        /\ row[e] = None => pc[e] = "idle" /\ job[e] = None

(* A message that a run may begin a turn for is stored, has had no turn,   *)
(* and is that run's alone.                                                *)
Ownership ==
    /\ \A e \in Events : pc[e] \in Owning =>
          stored[Current(e)] # None /\ turns[Current(e)] = 0
    /\ \A e, f \in Events :
          e # f /\ pc[e] \in Owning /\ pc[f] \in Owning => Current(e) # Current(f)
    /\ \A m \in Messages : stored[m] = None => turns[m] = 0
    /\ ActedOnAtMostOnce

(* The row is PROCESSED before the job can complete, and stays so. *)
ProcessedFirst ==
    \A e \in Events :
        pc[e] = "return" \/ job[e] = "completed" => row[e] = "PROCESSED"

TypeInv == TypeOK /\ RunsAreActive

-----------------------------------------------------------------------------
(* A run that is at a message is at one of the customer's messages. *)
LEMMA CurrentIsMessage ==
    ASSUME TypeInv, NEW e \in Events, pc[e] \in AtMessage
    PROVE  Current(e) \in Messages
<1>1. payload[e] \in Seq(Messages)
  <2>1. << >> \in Seq(Messages)
    OBVIOUS
  <2> QED BY <2>1, PayloadsAssumption DEF TypeInv, TypeOK
<1>2. pos[e] \in 1..Len(payload[e])
  BY DEF TypeInv, RunsAreActive
<1> QED BY <1>1, <1>2 DEF Current

LEMMA LengthIsNat ==
    ASSUME TypeInv, NEW e \in Events
    PROVE  Len(payload[e]) \in Nat
<1>1. << >> \in Seq(Messages)
  OBVIOUS
<1>2. payload[e] \in Seq(Messages)
  BY <1>1, PayloadsAssumption DEF TypeInv, TypeOK
<1> QED BY <1>2

(* Going on to the next message keeps the run well placed. *)
LEMMA NextMessageKeeps ==
    ASSUME TypeInv, NEW e \in Events, pc[e] \in AtMessage, NextMessage(e)
    PROVE  /\ pc' \in [Events -> Working \cup {"idle", "enqueue"}]
           /\ pos' \in [Events -> Nat]
           /\ thread' \in [Events -> Thread \cup {None}]
           /\ pc'[e] \in {"dedup", "finish"}
           /\ pc'[e] = "dedup" => pos'[e] \in 1..Len(payload[e])
           /\ \A f \in Events \ {e} :
                 pc'[f] = pc[f] /\ pos'[f] = pos[f] /\ thread'[f] = thread[f]
<1>1. pos[e] \in 1..Len(payload[e]) /\ Len(payload[e]) \in Nat
  BY LengthIsNat DEF TypeInv, RunsAreActive
<1>2. CASE pos[e] = Len(payload[e])
  BY <1>1, <1>2 DEF TypeInv, TypeOK, NextMessage, Goto, Working
<1>3. CASE pos[e] # Len(payload[e])
  BY <1>1, <1>3 DEF TypeInv, TypeOK, NextMessage, Goto, Working
<1> QED BY <1>2, <1>3

USE NoneAssumption DEF queue, data, JobStatus, RowStatus
LEMMA TypeInit == Init => TypeInv
BY NoneAssumption DEF Init, TypeInv, TypeOK, RunsAreActive, Working, AtMessage, WithThread

LEMMA TypeStep == TypeInv /\ [Next]_vars => TypeInv'
<1> SUFFICES ASSUME TypeInv, [Next]_vars
             PROVE  TypeInv'
  OBVIOUS
<1> USE DEF TypeInv, TypeOK, RunsAreActive, Working, AtMessage, WithThread, Goto
<1>1. ASSUME NEW e \in Events, Receive(e)
      PROVE  TypeInv'
  BY <1>1 DEF Receive
<1>2. ASSUME NEW e \in Events, Enqueue(e)
      PROVE  TypeInv'
  BY <1>2 DEF Enqueue
<1>3. ASSUME NEW e \in Events, EnqueueLost(e)
      PROVE  TypeInv'
  BY <1>3 DEF EnqueueLost
<1>4. ASSUME NEW e \in Events, Take(e)
      PROVE  TypeInv'
  <2>1. payload[e] # << >> => 1 \in 1..Len(payload[e])
    BY PayloadsAssumption
  <2> QED BY <1>4, <2>1 DEF Take
<1>5. ASSUME NEW e \in Events, Dedup(e)
      PROVE  TypeInv'
  <2>1. Current(e) \in Messages
    BY <1>5, CurrentIsMessage DEF Dedup
  <2>2. CASE Current(e) \in dedup
    BY <1>5, <2>2, NextMessageKeeps, SMTT(30) DEF Dedup
  <2>3. CASE Current(e) \notin dedup
    <3>1. /\ pc' = [pc EXCEPT ![e] = "lookup"] /\ UNCHANGED <<pos, thread, queue>>
          /\ UNCHANGED <<stored, conv, inbound, turns>>
          /\ dedup' \subseteq Messages /\ pc[e] = "dedup"
      BY <1>5, <2>1, <2>3 DEF Dedup
    <3> QED BY <3>1
  <2> QED BY <2>2, <2>3
<1>6. ASSUME NEW e \in Events, Lookup(e)
      PROVE  TypeInv'
  <2>1. CASE stored[Current(e)] # None
    BY <1>6, <2>1, NextMessageKeeps, SMTT(30) DEF Lookup
  <2>2. CASE stored[Current(e)] = None
    <3>1. /\ pc' = [pc EXCEPT ![e] = "find"] /\ UNCHANGED <<pos, thread, queue, data>>
          /\ pc[e] = "lookup"
      BY <1>6, <2>2 DEF Lookup
    <3> QED BY <3>1
  <2> QED BY <2>1, <2>2
<1>7. ASSUME NEW e \in Events, FindConversation(e)
      PROVE  TypeInv'
  <2>1. CASE \E c \in Convs : conv[c] = "OPEN"
    <3>1. PICK c \in Convs : /\ conv[c] = "OPEN"
                             /\ thread' = [thread EXCEPT ![e] = [id |-> c, status |-> conv[c]]]
      BY <1>7, <2>1 DEF FindConversation, MostRecentOpen
    <3>2. [id |-> c, status |-> conv[c]] \in Thread
      BY <3>1 DEF Thread, Status
    <3>3. /\ pc' = [pc EXCEPT ![e] = "store"] /\ UNCHANGED <<pos, queue, data>>
          /\ pc[e] = "find"
      BY <1>7, <2>1 DEF FindConversation
    <3> QED BY <3>1, <3>2, <3>3
  <2>2. CASE ~\E c \in Convs : conv[c] = "OPEN"
    <3>1. /\ pc' = [pc EXCEPT ![e] = "open"] /\ UNCHANGED <<pos, thread, queue, data>>
          /\ pc[e] = "find"
      BY <1>7, <2>2 DEF FindConversation
    <3> QED BY <3>1
  <2> QED BY <2>1, <2>2
<1>8. ASSUME NEW e \in Events, OpenConversation(e)
      PROVE  TypeInv'
  <2>1. PICK c \in Convs : /\ conv' = [conv EXCEPT ![c] = "OPEN"]
                           /\ thread' = [thread EXCEPT ![e] = [id |-> c, status |-> "OPEN"]]
    BY <1>8 DEF OpenConversation
  <2>2. [id |-> c, status |-> "OPEN"] \in Thread
    BY DEF Thread, Status
  <2> QED BY <1>8, <2>1, <2>2 DEF OpenConversation, Status
<1>9. ASSUME NEW e \in Events, Store(e)
      PROVE  TypeInv'
  <2>1. thread[e] \in Thread /\ Current(e) \in Messages
    BY <1>9, CurrentIsMessage DEF Store
  <2>2. CASE stored[Current(e)] = None
    <3>1. /\ pc' = [pc EXCEPT ![e] = "touch"] /\ UNCHANGED <<pos, thread, queue>>
          /\ UNCHANGED <<dedup, conv, inbound, turns>> /\ pc[e] = "store"
          /\ stored' \in [Messages -> Convs \cup {None}]
      BY <1>9, <2>1, <2>2 DEF Store, Thread
    <3> QED BY <2>1, <3>1
  <2>3. CASE stored[Current(e)] # None
    BY <1>9, <2>3, NextMessageKeeps, SMTT(30) DEF Store
  <2> QED BY <2>2, <2>3
<1>10. ASSUME NEW e \in Events, StoreAnswerLost(e)
       PROVE  TypeInv'
  <2>1. thread[e] \in Thread /\ Current(e) \in Messages
    BY <1>10, CurrentIsMessage DEF StoreAnswerLost
  <2>2. stored' \in [Messages -> Convs \cup {None}]
    BY <1>10, <2>1 DEF StoreAnswerLost, Thread
  <2> QED BY <1>10, <2>2, NextMessageKeeps, SMTT(30) DEF StoreAnswerLost
<1>11. ASSUME NEW e \in Events, Touch(e)
       PROVE  TypeInv'
  <2>1. thread[e] \in Thread /\ Current(e) \in Messages
    BY <1>11, CurrentIsMessage DEF Touch
  <2>2. inbound' \in [Convs -> Messages \cup {0}]
    BY <1>11, <2>1 DEF Touch, Thread
  <2>3. CASE thread[e].status = "ESCALATED" \/ Current(e) \in Media
    BY <1>11, <2>2, <2>3, NextMessageKeeps, SMTT(30) DEF Touch
  <2>4. CASE ~(thread[e].status = "ESCALATED" \/ Current(e) \in Media)
    <3>1. /\ pc' = [pc EXCEPT ![e] = "quota"] /\ UNCHANGED <<pos, thread, queue>>
          /\ UNCHANGED <<dedup, stored, conv, turns>> /\ pc[e] = "touch"
      BY <1>11, <2>4 DEF Touch
    <3> QED BY <2>1, <2>2, <3>1
  <2> QED BY <2>3, <2>4
<1>12. ASSUME NEW e \in Events, QuotaExceeded(e)
       PROVE  TypeInv'
  BY <1>12, NextMessageKeeps, SMTT(30) DEF QuotaExceeded
<1>13. ASSUME NEW e \in Events, BeginTurn(e)
       PROVE  TypeInv'
  <2>1. Current(e) \in Messages
    BY <1>13, CurrentIsMessage DEF BeginTurn
  <2> QED BY <1>13, <2>1 DEF BeginTurn
<1>14. ASSUME NEW e \in Events, EndTurn(e)
       PROVE  TypeInv'
  <2>1. pc[e] \in AtMessage /\ NextMessage(e) /\ UNCHANGED <<queue, data>>
    BY <1>14 DEF EndTurn
  <2> QED BY <2>1, NextMessageKeeps, SMTT(30)
<1>15. ASSUME NEW e \in Events, Escalate(e)
       PROVE  TypeInv'
  <2>1. thread[e] \in Thread
    BY <1>15 DEF Escalate
  <2>2. conv' \in [Convs -> Status \cup {None}]
    BY <1>15, <2>1 DEF Escalate, Thread, Status
  <2> QED BY <1>15, <2>2, NextMessageKeeps, SMTT(30) DEF Escalate
<1>16. ASSUME NEW e \in Events, Finish(e)
       PROVE  TypeInv'
  BY <1>16, NoneAssumption DEF Finish
<1>17. ASSUME NEW e \in Events, Complete(e)
       PROVE  TypeInv'
  BY <1>17 DEF Complete, Leave
<1>18. ASSUME NEW e \in Events, Throw(e)
       PROVE  TypeInv'
  <2>1. /\ pc[e] \in AtMessage => Current(e) \in Messages
        /\ pc[e] = "touch" => thread[e] \in Thread
    BY CurrentIsMessage
  <2>2. thread[e] \in Thread => thread[e].id \in Convs
    BY DEF Thread
  <2>3. /\ row' \in [Events -> RowStatus \cup {None}]
        /\ row' # row => pc[e] = "finish" /\ row' = [row EXCEPT ![e] = "PROCESSED"]
        /\ dedup' \subseteq Messages
        /\ stored' \in [Messages -> Convs \cup {None}]
        /\ conv' \in [Convs -> Status \cup {None}]
        /\ inbound' \in [Convs -> Messages \cup {0}]
        /\ turns' \in [Messages -> Nat]
    <3>1. CASE UNCHANGED <<row, data>>
      BY <3>1
    <3>2. CASE /\ pc[e] = "dedup" /\ dedup' = dedup \cup {Current(e)}
               /\ UNCHANGED <<row, stored, conv, inbound, turns>>
      BY <3>2, <2>1
    <3>3. CASE /\ \E c \in Convs : conv[c] = None /\ conv' = [conv EXCEPT ![c] = "OPEN"]
               /\ UNCHANGED <<row, dedup, stored, inbound, turns>>
      BY <3>3 DEF Status
    <3>4. CASE /\ pc[e] = "touch"
               /\ inbound' = [inbound EXCEPT ![thread[e].id] = Current(e)]
               /\ UNCHANGED <<row, dedup, stored, conv, turns>>
      BY <3>4, <2>1, <2>2
    <3>5. CASE /\ pc[e] = "finish" /\ row' = [row EXCEPT ![e] = "PROCESSED"]
               /\ UNCHANGED data
      BY <3>5
    <3> QED BY <1>18, <3>1, <3>2, <3>3, <3>4, <3>5 DEF Throw
  <2>4. /\ pc[e] \in Working /\ pc' = [pc EXCEPT ![e] = "failed"]
        /\ UNCHANGED <<payload, job, attempts, stalls, pos, thread>>
    BY <1>18 DEF Throw
  <2>5. TypeOK'
    BY <2>3, <2>4
  <2>6. RunsAreActive'
    BY <2>3, <2>4
  <2> QED BY <2>5, <2>6
<1>19. ASSUME NEW e \in Events, RecordFailure(e)
       PROVE  TypeInv'
  BY <1>19 DEF RecordFailure
<1>20. ASSUME NEW e \in Events, Retry(e)
       PROVE  TypeInv'
  BY <1>20 DEF Retry, Leave
<1>21. ASSUME NEW e \in Events, Crash(e)
       PROVE  TypeInv'
  BY <1>21 DEF Crash, Leave
<1>22. ASSUME NEW m \in Messages, EvictDedup(m)
       PROVE  TypeInv'
  BY <1>22 DEF EvictDedup
<1>23. ASSUME NEW c \in Convs, UpdateStatus(c)
       PROVE  TypeInv'
  BY <1>23, StaffAssumption DEF UpdateStatus
<1>24. CASE UNCHANGED vars
  BY <1>24 DEF vars
<1> QED
  BY <1>1, <1>2, <1>3, <1>4, <1>5, <1>6, <1>7, <1>8, <1>9, <1>10, <1>11, <1>12,
     <1>13, <1>14, <1>15, <1>16, <1>17, <1>18, <1>19, <1>20, <1>21, <1>22, <1>23,
     <1>24 DEF Next, Step, Fault

(* Type correctness, and with it that a run always has the message and the *)
(* conversation it is about to use: none of its reads is of nothing.       *)
THEOREM InboundTypeCorrect == Spec => []TypeOK
<1>1. Spec => []TypeInv
  BY TypeInit, TypeStep, PTL DEF Spec
<1>2. TypeInv => TypeOK
  BY DEF TypeInv
<1> QED BY <1>1, <1>2, PTL

-----------------------------------------------------------------------------
(* No step but Finish and a later failure touches the mark of a webhook. *)
LEMMA ProcessedFirstStep ==
    TypeInv /\ ProcessedFirst /\ [Next]_vars => ProcessedFirst'
<1> SUFFICES ASSUME TypeInv, ProcessedFirst, [Next]_vars, NEW f \in Events,
                    pc'[f] = "return" \/ job'[f] = "completed"
             PROVE  row'[f] = "PROCESSED"
  BY DEF ProcessedFirst
<1> USE DEF TypeInv, TypeOK, RunsAreActive, Working, Goto
<1> DEFINE Kept == /\ row'[f] = row[f]
                   /\ pc'[f] = "return" => pc[f] = "return"
                   /\ job'[f] = "completed" => job[f] = "completed" \/ pc[f] = "return"
<1>0. Kept => row'[f] = "PROCESSED"
  BY DEF ProcessedFirst
<1>1. ASSUME NEW e \in Events,
             Receive(e) \/ Enqueue(e) \/ EnqueueLost(e) \/ Take(e)
      PROVE  row'[f] = "PROCESSED"
  <2>1. row[f] = None => ~(pc'[f] = "return" \/ job'[f] = "completed")
    BY <1>1 DEF Receive, Enqueue, EnqueueLost, Take
  <2>2. row[f] # None => Kept
    BY <1>1 DEF Receive, Enqueue, EnqueueLost, Take
  <2> QED BY <1>0, <2>1, <2>2
<1>2. ASSUME NEW e \in Events, pc[e] \in AtMessage, NextMessage(e),
             UNCHANGED queue
      PROVE  row'[f] = "PROCESSED"
  BY <1>0, <1>2, NextMessageKeeps
<1>3. ASSUME NEW e \in Events, UNCHANGED queue, pc'[e] # "return",
             pc' = [pc EXCEPT ![e] = pc'[e]]
      PROVE  row'[f] = "PROCESSED"
  BY <1>0, <1>3
<1>4. ASSUME NEW e \in Events, Dedup(e)
      PROVE  row'[f] = "PROCESSED"
  <2>1. CASE Current(e) \in dedup
    BY <1>2, <1>4, <2>1 DEF Dedup, AtMessage
  <2>2. CASE Current(e) \notin dedup
    BY <1>3, <1>4, <2>2 DEF Dedup
  <2> QED BY <2>1, <2>2
<1>5. ASSUME NEW e \in Events, Lookup(e)
      PROVE  row'[f] = "PROCESSED"
  <2>1. CASE stored[Current(e)] # None
    BY <1>2, <1>5, <2>1 DEF Lookup, AtMessage
  <2>2. CASE stored[Current(e)] = None
    BY <1>3, <1>5, <2>2 DEF Lookup
  <2> QED BY <2>1, <2>2
<1>6. ASSUME NEW e \in Events, FindConversation(e)
      PROVE  row'[f] = "PROCESSED"
  <2>1. UNCHANGED queue /\ (Goto(e, "store") \/ Goto(e, "open"))
    BY <1>6 DEF FindConversation
  <2> QED BY <1>3, <2>1
<1>7. ASSUME NEW e \in Events, OpenConversation(e) \/ BeginTurn(e)
      PROVE  row'[f] = "PROCESSED"
  BY <1>3, <1>7 DEF OpenConversation, BeginTurn
<1>8. ASSUME NEW e \in Events, Store(e) \/ StoreAnswerLost(e)
      PROVE  row'[f] = "PROCESSED"
  <2>1. CASE StoreAnswerLost(e)
    BY <1>2, <2>1 DEF StoreAnswerLost, AtMessage
  <2>2. CASE Store(e) /\ stored[Current(e)] = None
    BY <1>3, <2>2 DEF Store
  <2>3. CASE Store(e) /\ stored[Current(e)] # None
    BY <1>2, <2>3 DEF Store, AtMessage
  <2> QED BY <1>8, <2>1, <2>2, <2>3
<1>9. ASSUME NEW e \in Events, Touch(e)
      PROVE  row'[f] = "PROCESSED"
  <2>1. CASE thread[e].status = "ESCALATED" \/ Current(e) \in Media
    BY <1>2, <1>9, <2>1 DEF Touch, AtMessage
  <2>2. CASE ~(thread[e].status = "ESCALATED" \/ Current(e) \in Media)
    BY <1>3, <1>9, <2>2 DEF Touch
  <2> QED BY <2>1, <2>2
<1>10. ASSUME NEW e \in Events, QuotaExceeded(e) \/ EndTurn(e) \/ Escalate(e)
       PROVE  row'[f] = "PROCESSED"
  BY <1>2, <1>10 DEF QuotaExceeded, EndTurn, Escalate, AtMessage
<1>11. ASSUME NEW e \in Events, Finish(e) \/ Complete(e)
       PROVE  row'[f] = "PROCESSED"
  BY <1>11 DEF Finish, Complete, Leave, ProcessedFirst
<1>12. ASSUME NEW e \in Events, Throw(e)
       PROVE  row'[f] = "PROCESSED"
  <2>1. /\ pc' = [pc EXCEPT ![e] = "failed"] /\ job' = job /\ pc[e] \in Working
        /\ row' = row \/ row' = [row EXCEPT ![e] = "PROCESSED"]
    BY <1>12 DEF Throw
  <2> QED BY <2>1 DEF ProcessedFirst
<1>13. ASSUME NEW e \in Events, RecordFailure(e) \/ Retry(e) \/ Crash(e)
       PROVE  row'[f] = "PROCESSED"
  BY <1>13 DEF RecordFailure, Retry, Crash, Leave, ProcessedFirst
<1>14. CASE (\E m \in Messages : EvictDedup(m)) \/ (\E c \in Convs : UpdateStatus(c))
            \/ UNCHANGED vars
  BY <1>0, <1>14 DEF EvictDedup, UpdateStatus, vars
<1> QED
  BY <1>1, <1>4, <1>5, <1>6, <1>7, <1>8, <1>9, <1>10, <1>11, <1>12, <1>13, <1>14
  DEF Next, Step, Fault

(* The webhook log and the queue agree at the end: BullMQ reports a job     *)
(* complete only when its webhook reads PROCESSED, after any number of     *)
(* failed, crashed and repeated runs.                                      *)
THEOREM CompletedWebhookIsProcessed == Spec => []CompletedIsProcessed
<1>1. Init => ProcessedFirst
  BY DEF Init, ProcessedFirst
<1>2. ProcessedFirst => CompletedIsProcessed
  BY DEF ProcessedFirst, CompletedIsProcessed
<1> QED BY <1>1, <1>2, TypeInit, TypeStep, ProcessedFirstStep, PTL DEF Spec

-----------------------------------------------------------------------------
(* A step by which no run comes to own a message, and nothing is stored or *)
(* answered, keeps the ownership of messages.                              *)
LEMMA OwnershipShrinks ==
    ASSUME Ownership, UNCHANGED <<stored, turns>>,
           \A f \in Events : pc'[f] \in Owning =>
               pc[f] \in Owning /\ payload'[f] = payload[f] /\ pos'[f] = pos[f]
    PROVE  Ownership'
<1>1. \A f \in Events : pc'[f] \in Owning => Current(f)' = Current(f)
  BY DEF Current
<1> QED BY <1>1 DEF Ownership, ActedOnAtMostOnce

LEMMA OwnershipStep == TypeInv /\ Ownership /\ [Next]_vars => Ownership'
<1> SUFFICES ASSUME TypeInv, Ownership, [Next]_vars
             PROVE  Ownership'
  OBVIOUS
<1> USE DEF TypeInv, TypeOK, RunsAreActive, Working, Goto, Owning
<1>1. ASSUME NEW e \in Events, pc[e] \in AtMessage, NextMessage(e),
             UNCHANGED <<queue, stored, turns>>
      PROVE  Ownership'
  BY <1>1, NextMessageKeeps, OwnershipShrinks
<1>2. ASSUME NEW e \in Events, pc'[e] \notin Owning,
             pc' = [pc EXCEPT ![e] = pc'[e]],
             \A f \in Events \ {e} : payload'[f] = payload[f] /\ pos'[f] = pos[f],
             UNCHANGED <<stored, turns>>
      PROVE  Ownership'
  BY <1>2, OwnershipShrinks
<1>3. ASSUME NEW e \in Events,
             Receive(e) \/ Enqueue(e) \/ EnqueueLost(e) \/ Take(e)
      PROVE  Ownership'
  <2>1. CASE Receive(e)
    BY <1>2, <2>1 DEF Receive
  <2>2. CASE Enqueue(e)
    BY <1>2, <2>2 DEF Enqueue
  <2>3. CASE EnqueueLost(e)
    BY <1>2, <2>3 DEF EnqueueLost
  <2>4. CASE Take(e)
    BY <1>2, <2>4 DEF Take
  <2> QED BY <1>3, <2>1, <2>2, <2>3, <2>4
<1>4. ASSUME NEW e \in Events, Dedup(e)
      PROVE  Ownership'
  <2>1. CASE Current(e) \in dedup
    BY <1>1, <1>4, <2>1 DEF Dedup, AtMessage
  <2>2. CASE Current(e) \notin dedup
    BY <1>2, <1>4, <2>2 DEF Dedup
  <2> QED BY <2>1, <2>2
<1>5. ASSUME NEW e \in Events, Lookup(e)
      PROVE  Ownership'
  <2>1. CASE stored[Current(e)] # None
    BY <1>1, <1>5, <2>1 DEF Lookup, AtMessage
  <2>2. CASE stored[Current(e)] = None
    BY <1>2, <1>5, <2>2 DEF Lookup
  <2> QED BY <2>1, <2>2
<1>6. ASSUME NEW e \in Events, FindConversation(e) \/ OpenConversation(e)
      PROVE  Ownership'
  <2>1. UNCHANGED <<queue, pos, stored, turns>> /\ (Goto(e, "store") \/ Goto(e, "open"))
    BY <1>6 DEF FindConversation, OpenConversation
  <2> QED BY <1>2, <2>1
<1>7. ASSUME NEW e \in Events, Store(e), stored[Current(e)] = None
      PROVE  Ownership'
  <2>1. /\ pc' = [pc EXCEPT ![e] = "touch"] /\ pc[e] = "store"
        /\ stored' = [stored EXCEPT ![Current(e)] = thread[e].id]
        /\ UNCHANGED <<payload, pos, turns>>
    BY <1>7 DEF Store
  <2>2. Current(e) \in Messages /\ thread[e].id # None
    BY <2>1, CurrentIsMessage DEF AtMessage, WithThread, Thread
  <2>3. \A f \in Events : Current(f)' = Current(f)
    BY <2>1 DEF Current
  <2>4. \A f \in Events : pc[f] \in Owning => Current(f) # Current(e)
    BY <1>7 DEF Ownership
  <2>5. \A f \in Events \ {e} : pc'[f] = pc[f]
    BY <2>1
  <2>6. stored'[Current(e)] # None /\ turns[Current(e)] = 0
    BY <1>7, <2>1, <2>2 DEF Ownership
  <2>7. \A f \in Events \ {e} : pc[f] \in Owning => stored'[Current(f)] = stored[Current(f)]
    BY <2>1, <2>4, CurrentIsMessage DEF AtMessage
  <2>8. \A m \in Messages : stored'[m] = None => stored[m] = None
    BY <2>1, <2>6
  <2> QED BY <2>1, <2>3, <2>4, <2>5, <2>6, <2>7, <2>8 DEF Ownership, ActedOnAtMostOnce
<1>8. ASSUME NEW e \in Events, Store(e), stored[Current(e)] # None
      PROVE  Ownership'
  BY <1>1, <1>8 DEF Store, AtMessage
<1>9. ASSUME NEW e \in Events, StoreAnswerLost(e)
      PROVE  Ownership'
  <2>1. /\ stored' = [stored EXCEPT ![Current(e)] = thread[e].id]
        /\ NextMessage(e) /\ UNCHANGED <<payload, turns>> /\ pc[e] = "store"
        /\ stored[Current(e)] = None
    BY <1>9 DEF StoreAnswerLost
  <2>2. thread[e].id # None
    BY <2>1 DEF AtMessage, WithThread, Thread
  <2>3. \A m \in Messages : stored[m] # None => stored'[m] = stored[m]
    BY <2>1
  <2>4. \A f \in Events : pc'[f] \in Owning =>
            pc[f] \in Owning /\ Current(f)' = Current(f) /\ Current(f) \in Messages
    <3> SUFFICES ASSUME NEW f \in Events, pc'[f] \in Owning
                 PROVE  /\ pc[f] \in Owning /\ Current(f)' = Current(f)
                        /\ Current(f) \in Messages
      OBVIOUS
    <3>1. pc[e] \in AtMessage /\ NextMessage(e)
      BY <2>1 DEF AtMessage
    <3>2. pc'[e] \notin Owning
      BY <3>1, NextMessageKeeps
    <3>3. pc'[f] = pc[f] /\ pos'[f] = pos[f]
      BY <3>1, <3>2, NextMessageKeeps
    <3>4. Current(f)' = Current(f)
      BY <2>1, <3>3 DEF Current
    <3>5. pc[f] \in Owning /\ pc[f] \in AtMessage
      BY <3>3 DEF AtMessage
    <3> QED BY <3>4, <3>5, CurrentIsMessage
  <2>5. \A m \in Messages : stored'[m] = None => stored[m] = None
    BY <2>3
  <2> QED BY <2>1, <2>3, <2>4, <2>5 DEF Ownership, ActedOnAtMostOnce
<1>10. ASSUME NEW e \in Events, Touch(e)
       PROVE  Ownership'
  <2>1. CASE thread[e].status = "ESCALATED" \/ Current(e) \in Media
    BY <1>1, <1>10, <2>1 DEF Touch, AtMessage
  <2>2. CASE ~(thread[e].status = "ESCALATED" \/ Current(e) \in Media)
    <3>1. /\ pc[e] = "touch" /\ pc' = [pc EXCEPT ![e] = "quota"]
          /\ UNCHANGED <<payload, pos, stored, turns>>
      BY <1>10, <2>2 DEF Touch
    <3> QED BY <3>1, OwnershipShrinks
  <2> QED BY <2>1, <2>2
<1>11. ASSUME NEW e \in Events, BeginTurn(e)
       PROVE  Ownership'
  <2>1. /\ pc[e] = "quota" /\ pc' = [pc EXCEPT ![e] = "turn"]
        /\ turns' = [turns EXCEPT ![Current(e)] = @ + 1]
        /\ UNCHANGED <<payload, pos, stored>>
    BY <1>11 DEF BeginTurn
  <2>2. Current(e) \in Messages /\ turns[Current(e)] = 0 /\ stored[Current(e)] # None
    BY <2>1, CurrentIsMessage DEF AtMessage, Ownership
  <2>3. \A f \in Events : pc'[f] \in Owning =>
            /\ f # e /\ pc[f] \in Owning /\ Current(f)' = Current(f)
            /\ Current(f) \in Messages /\ Current(f) # Current(e)
    BY <2>1, CurrentIsMessage DEF AtMessage, Ownership, Current
  <2>4. turns'[Current(e)] = 1 /\ \A m \in Messages \ {Current(e)} : turns'[m] = turns[m]
    BY <2>1, <2>2
  <2> QED BY <2>1, <2>2, <2>3, <2>4 DEF Ownership, ActedOnAtMostOnce
<1>12. ASSUME NEW e \in Events, QuotaExceeded(e) \/ EndTurn(e) \/ Escalate(e)
       PROVE  Ownership'
  BY <1>1, <1>12 DEF QuotaExceeded, EndTurn, Escalate, AtMessage
<1>13. ASSUME NEW e \in Events, Finish(e) \/ Complete(e)
       PROVE  Ownership'
  BY <1>2, <1>13 DEF Finish, Complete, Leave
<1>14. ASSUME NEW e \in Events, Throw(e)
       PROVE  Ownership'
  <2>1. Goto(e, "failed") /\ UNCHANGED <<payload, pos, stored, turns>>
    BY <1>14 DEF Throw
  <2> QED BY <1>2, <2>1
<1>15. ASSUME NEW e \in Events, RecordFailure(e) \/ Retry(e) \/ Crash(e)
       PROVE  Ownership'
  BY <1>2, <1>15 DEF RecordFailure, Retry, Crash, Leave
<1>16. CASE (\E m \in Messages : EvictDedup(m)) \/ (\E c \in Convs : UpdateStatus(c))
            \/ UNCHANGED vars
  BY <1>16, OwnershipShrinks DEF EvictDedup, UpdateStatus, vars
<1> QED
  BY <1>3, <1>4, <1>5, <1>6, <1>7, <1>8, <1>9, <1>10, <1>11, <1>12, <1>13, <1>14,
     <1>15, <1>16 DEF Next, Step, Fault

(* The AI acts on a message of the customer at most once, for any number   *)
(* of deliveries, workers, retries, crashes and evictions: the unique      *)
(* index under messages.create decides, not the dedup key above it.        *)
THEOREM ActsOnAMessageOnce == Spec => []ActedOnAtMostOnce
<1>1. Init => Ownership
  BY DEF Init, Ownership, Owning, ActedOnAtMostOnce
<1>2. Ownership => ActedOnAtMostOnce
  BY DEF Ownership
<1> QED BY <1>1, <1>2, TypeInit, TypeStep, OwnershipStep, PTL DEF Spec

-----------------------------------------------------------------------------
(* Where a run has a message in hand that it has yet to store. *)
Holding == {"lookup", "find", "open", "store"}

(* A message in no danger: stored, or in the hands of a run that will      *)
(* store it unless it fails.                                               *)
Kept(m) ==
    \/ stored[m] # None
    \/ \E e \in Events : pc[e] \in Holding /\ Current(e) = m

(* The job of e has left the k-th message of its webhook behind. *)
Past(e, k) ==
    \/ job[e] = "completed" \/ pc[e] \in {"finish", "return"}
    \/ k < pos[e]
    \/ k = pos[e] /\ pc[e] \in {"touch", "quota", "turn"}

(* No run has failed or died so far. *)
Unharmed ==
    \A e \in Events :
        attempts[e] = 0 /\ stalls[e] = 0 /\ pc[e] \notin {"failed", "rethrow"}

(* Until then every message that was claimed in Redis, and every message   *)
(* that a job has left behind, is in no danger: a run leaves to the others *)
(* only what one of them has in hand or has stored.                        *)
Arrival ==
    Unharmed =>
        /\ \A m \in dedup : Kept(m)
        /\ \A e \in Events : \A k \in DOMAIN payload[e] :
              Past(e, k) => Kept(payload[e][k])

(* What keeps Arrival: no run drops what it has in hand, and what is       *)
(* claimed or left behind was so before, or is in no danger now.           *)
LEMMA ArrivalKept ==
    ASSUME TypeInv, Arrival, Unharmed,
           \A m \in Messages : stored[m] # None => stored'[m] # None,
           \A f \in Events : pc[f] \in Holding =>
               \/ pc'[f] \in Holding /\ payload'[f] = payload[f] /\ pos'[f] = pos[f]
               \/ stored'[Current(f)] # None,
           \A m \in dedup' : m \in dedup \/ Kept(m)',
           \A f \in Events : \A k \in DOMAIN payload'[f] :
               Past(f, k)' =>
                   \/ payload'[f] = payload[f] /\ Past(f, k)
                   \/ payload'[f][k] \in dedup \/ Kept(payload[f][k])'
    PROVE  Arrival'
<1>1. ASSUME NEW m \in Messages, Kept(m)
      PROVE  Kept(m)'
  <2>1. CASE stored[m] # None
    BY <2>1 DEF Kept
  <2>2. CASE \E e \in Events : pc[e] \in Holding /\ Current(e) = m
    <3>1. PICK e \in Events : pc[e] \in Holding /\ Current(e) = m
      BY <2>2
    <3>2. CASE stored'[Current(e)] # None
      BY <3>1, <3>2 DEF Kept
    <3>3. CASE pc'[e] \in Holding /\ payload'[e] = payload[e] /\ pos'[e] = pos[e]
      BY <3>1, <3>3 DEF Kept, Current
    <3> QED BY <3>1, <3>2, <3>3
  <2> QED BY <1>1, <2>1, <2>2 DEF Kept
<1>2. \A m \in dedup : m \in Messages /\ Kept(m)
  BY DEF Arrival, TypeInv, TypeOK
<1>3. \A m \in dedup' : Kept(m)'
  BY <1>1, <1>2
<1>4. ASSUME NEW f \in Events, NEW k \in DOMAIN payload'[f], Past(f, k)'
      PROVE  Kept(payload[f][k])'
  <2>1. CASE payload'[f] = payload[f] /\ Past(f, k)
    <3>1. payload[f] \in Seq(Messages)
      <4>1. << >> \in Seq(Messages)
        OBVIOUS
      <4> QED BY <4>1, PayloadsAssumption DEF TypeInv, TypeOK
    <3>2. payload[f][k] \in Messages
      BY <1>4, <2>1, <3>1
    <3>3. Kept(payload[f][k])
      BY <1>4, <2>1 DEF Arrival
    <3>4. PICK m \in Messages : m = payload[f][k]
      BY <3>2
    <3>5. Kept(m)'
      BY <1>1, <3>3, <3>4
    <3> QED BY <2>1, <3>4, <3>5
  <2>2. CASE payload'[f][k] \in dedup
    <3>1. PICK m \in dedup : m = payload'[f][k]
      BY <2>2
    <3> QED BY <1>1, <1>2, <3>1
  <2> QED BY <1>4, <2>1, <2>2
<1> QED BY <1>3, <1>4 DEF Arrival

(* Going on leaves the message at hand behind, and no other. *)
LEMMA NextMessagePasses ==
    ASSUME TypeInv, NEW e \in Events, pc[e] \in AtMessage, NextMessage(e),
           UNCHANGED <<payload, job>>, NEW f \in Events, NEW k \in DOMAIN payload[f], Past(f, k)'
    PROVE  Past(f, k) \/ (f = e /\ k = pos[e])
<1>1. payload[f] \in Seq(Messages)
  <2>1. << >> \in Seq(Messages)
    OBVIOUS
  <2> QED BY <2>1, PayloadsAssumption DEF TypeInv, TypeOK
<1>2. k \in Nat /\ k <= Len(payload[f])
  BY <1>1
<1>3. CASE f # e
  BY <1>3, NextMessageKeeps DEF Past
<1>4. CASE f = e
  <2>1. pos[e] \in Nat
    BY DEF TypeInv, TypeOK
  <2>2. CASE pos[e] = Len(payload[e])
    BY <1>2, <1>4, <2>1, <2>2 DEF Past
  <2>3. CASE pos[e] # Len(payload[e])
    <3>1. pc'[e] = "dedup" /\ pos'[e] = pos[e] + 1
      BY <2>3 DEF NextMessage, Goto, TypeInv, TypeOK
    <3> QED BY <1>2, <1>4, <2>1, <3>1 DEF Past
  <2> QED BY <2>2, <2>3
<1> QED BY <1>3, <1>4

(* A run goes on past a message that it was done with, that another run    *)
(* had claimed, or that is stored.                                         *)
LEMMA ArrivalPasses ==
    ASSUME TypeInv, Arrival, Unharmed, NEW e \in Events, pc[e] \in AtMessage, NextMessage(e),
           UNCHANGED queue, dedup' = dedup,
           \A m \in Messages : stored[m] # None => stored'[m] # None,
           \/ Past(e, pos[e])
           \/ pc[e] = "dedup" /\ Current(e) \in dedup
           \/ stored'[Current(e)] # None
    PROVE  Arrival'
<1>1. ASSUME NEW f \in Events, pc[f] \in Holding
      PROVE  \/ pc'[f] \in Holding /\ payload'[f] = payload[f] /\ pos'[f] = pos[f]
             \/ stored'[Current(f)] # None
  <2>1. CASE f = e
    <3>1. ~Past(e, pos[e])
      BY <1>1, <2>1 DEF Past, Holding, TypeInv, TypeOK, RunsAreActive, Working
    <3> QED BY <1>1, <2>1, <3>1 DEF Holding
  <2>2. CASE f # e
    BY <1>1, <2>2, NextMessageKeeps
  <2> QED BY <2>1, <2>2
<1>2. ASSUME NEW f \in Events, NEW k \in DOMAIN payload'[f], Past(f, k)'
      PROVE  \/ payload'[f] = payload[f] /\ Past(f, k)
             \/ payload'[f][k] \in dedup \/ Kept(payload[f][k])'
  <2>1. Past(f, k) \/ (f = e /\ k = pos[e])
    BY <1>2, NextMessagePasses
  <2>2. CASE f = e /\ k = pos[e] /\ Current(e) \in dedup
    BY <2>2 DEF Current
  <2>3. CASE f = e /\ k = pos[e] /\ stored'[Current(e)] # None
    BY <2>3 DEF Current, Kept
  <2> QED BY <2>1, <2>2, <2>3
<1> QED BY <1>1, <1>2, ArrivalKept

(* A run moves on within the message it is at. *)
LEMMA ArrivalStays ==
    ASSUME TypeInv, Arrival, Unharmed, NEW e \in Events,
           pc' = [pc EXCEPT ![e] = pc'[e]], pc'[e] \notin {"finish", "return"},
           UNCHANGED <<payload, job, pos>>,
           \A m \in Messages : stored[m] # None => stored'[m] # None,
           pc[e] \in Holding => pc'[e] \in Holding \/ stored'[Current(e)] # None,
           \A m \in dedup' : m \in dedup \/ (pc'[e] \in Holding /\ m = Current(e)),
           pc'[e] \in {"touch", "quota", "turn"} =>
               pc[e] \in {"touch", "quota", "turn"} \/ stored'[Current(e)] # None
    PROVE  Arrival'
<1>1. ASSUME NEW f \in Events, pc[f] \in Holding
      PROVE  \/ pc'[f] \in Holding /\ payload'[f] = payload[f] /\ pos'[f] = pos[f]
             \/ stored'[Current(f)] # None
  BY <1>1 DEF TypeInv, TypeOK
<1>2. ASSUME NEW m \in dedup', m \notin dedup
      PROVE  Kept(m)'
  <2>1. pc'[e] \in Holding /\ m = Current(e)
    BY <1>2
  <2> QED BY <2>1 DEF Kept, Current
<1>3. ASSUME NEW f \in Events, NEW k \in DOMAIN payload'[f], Past(f, k)'
      PROVE  \/ payload'[f] = payload[f] /\ Past(f, k)
             \/ Kept(payload[f][k])'
  <2>1. CASE f # e
    BY <1>3, <2>1 DEF Past, TypeInv, TypeOK
  <2>2. CASE f = e /\ stored'[Current(e)] # None
    BY <1>3, <2>2 DEF Past, Current, Kept
  <2>3. CASE f = e /\ stored'[Current(e)] = None
    BY <1>3, <2>3 DEF Past
  <2> QED BY <2>1, <2>2, <2>3
<1> QED BY <1>1, <1>2, <1>3, ArrivalKept

(* What a step makes of the harm done: none of it is ever undone. *)
LEMMA HarmLasts ==
    ASSUME TypeInv, [Next]_vars, Unharmed'
    PROVE  Unharmed
<1> USE DEF TypeInv, TypeOK, RunsAreActive, Working, AtMessage, Goto, Unharmed
<1>1. ASSUME NEW e \in Events, UNCHANGED <<attempts, stalls>>,
             \A f \in Events \ {e} : pc'[f] = pc[f], pc[e] \notin {"failed", "rethrow"}
      PROVE  Unharmed
  BY <1>1
<1>2. ASSUME NEW e \in Events, pc[e] \in AtMessage, NextMessage(e), UNCHANGED queue
      PROVE  Unharmed
  BY <1>2, NextMessageKeeps
<1>3. ASSUME NEW e \in Events,
             Receive(e) \/ Enqueue(e) \/ EnqueueLost(e) \/ Take(e)
      PROVE  Unharmed
  BY <1>3 DEF Receive, Enqueue, EnqueueLost, Take
<1>4. ASSUME NEW e \in Events,
             Dedup(e) \/ Lookup(e) \/ FindConversation(e) \/ OpenConversation(e)
      PROVE  Unharmed
  <2>1. /\ UNCHANGED queue /\ pc[e] \in AtMessage
        /\ \/ NextMessage(e)
           \/ \E where \in AtMessage : pc' = [pc EXCEPT ![e] = where]
    BY <1>4 DEF Dedup, Lookup, FindConversation, OpenConversation
  <2> QED BY <1>1, <1>2, <2>1
<1>5. ASSUME NEW e \in Events,
             Store(e) \/ StoreAnswerLost(e) \/ Touch(e) \/ QuotaExceeded(e) \/ BeginTurn(e)
                 \/ EndTurn(e) \/ Escalate(e)
      PROVE  Unharmed
  <2>1. /\ UNCHANGED queue /\ pc[e] \in AtMessage
        /\ \/ NextMessage(e)
           \/ \E where \in AtMessage : pc' = [pc EXCEPT ![e] = where]
    BY <1>5 DEF Store, StoreAnswerLost, Touch, QuotaExceeded, BeginTurn, EndTurn, Escalate
  <2> QED BY <1>1, <1>2, <2>1
<1>6. ASSUME NEW e \in Events, Finish(e) \/ Complete(e)
      PROVE  Unharmed
  BY <1>1, <1>6 DEF Finish, Complete, Leave
<1>7. ASSUME NEW e \in Events, Throw(e) \/ RecordFailure(e) \/ Retry(e) \/ Crash(e)
      PROVE  FALSE
  BY <1>7 DEF Throw, RecordFailure, Retry, Crash, Leave
<1>8. CASE (\E m \in Messages : EvictDedup(m)) \/ (\E c \in Convs : UpdateStatus(c))
           \/ UNCHANGED vars
  BY <1>8 DEF EvictDedup, UpdateStatus, vars
<1> QED
  BY <1>3, <1>4, <1>5, <1>6, <1>7, <1>8 DEF Next, Step, Fault

LEMMA ArrivalStep == TypeInv /\ Arrival /\ [Next]_vars => Arrival'
<1> SUFFICES ASSUME TypeInv, Arrival, [Next]_vars, Unharmed'
             PROVE  Arrival'
  BY DEF Arrival
<1>0. Unharmed
  BY HarmLasts
<1> USE DEF TypeInv, TypeOK, RunsAreActive, Working, Goto, AtMessage, Holding
<1>1. ASSUME NEW e \in Events, Receive(e)
      PROVE  Arrival'
  <2>1. /\ UNCHANGED <<job, pos, dedup, stored>> /\ pc[e] = "idle" /\ job[e] = None
        /\ pc' = [pc EXCEPT ![e] = "enqueue"] /\ pos[e] = 1
        /\ \A f \in Events \ {e} : payload'[f] = payload[f]
        /\ payload' \in [Events -> Payloads \cup {<< >>}]
    BY <1>1 DEF Receive
  <2>2. \A k \in DOMAIN payload'[e] : ~Past(e, k)'
    <3>1. payload'[e] \in Seq(Messages)
      <4>1. << >> \in Seq(Messages)
        OBVIOUS
      <4> QED BY <2>1, <4>1, PayloadsAssumption
    <3> QED BY <2>1, <3>1 DEF Past
  <2>3. \A f \in Events \ {e} : \A k : Past(f, k)' => Past(f, k)
    BY <2>1 DEF Past
  <2> QED BY <1>0, <2>1, <2>2, <2>3, ArrivalKept
<1>2. ASSUME NEW e \in Events, Enqueue(e) \/ EnqueueLost(e) \/ Take(e)
      PROVE  Arrival'
  <2>1. /\ UNCHANGED <<pos, payload, dedup, stored>> /\ pc[e] \in {"idle", "enqueue"}
        /\ \A f \in Events \ {e} : pc'[f] = pc[f] /\ job'[f] = job[f]
        /\ job'[e] = "completed" => job[e] = "completed"
        /\ pc'[e] \in {"idle", "dedup"} \/ (pc'[e] = "finish" /\ payload[e] = << >>)
    BY <1>2 DEF Enqueue, EnqueueLost, Take
  <2>2. \A f \in Events : \A k \in DOMAIN payload[f] : Past(f, k)' => Past(f, k)
    BY <2>1 DEF Past
  <2> QED BY <1>0, <2>1, <2>2, ArrivalKept
<1>3. ASSUME NEW e \in Events, Dedup(e)
      PROVE  Arrival'
  <2>1. CASE Current(e) \in dedup
    BY <1>0, <1>3, <2>1, ArrivalPasses DEF Dedup
  <2>2. CASE Current(e) \notin dedup
    <3>1. /\ pc' = [pc EXCEPT ![e] = "lookup"] /\ dedup' = dedup \cup {Current(e)}
          /\ UNCHANGED <<payload, job, pos, stored>>
      BY <1>3, <2>2 DEF Dedup
    <3>2. pc'[e] = "lookup" /\ \A m \in dedup' : m \in dedup \/ m = Current(e)
      BY <3>1
    <3> QED BY <1>0, <3>1, <3>2, ArrivalStays
  <2> QED BY <2>1, <2>2
<1>4. ASSUME NEW e \in Events, Lookup(e)
      PROVE  Arrival'
  <2>1. CASE stored[Current(e)] # None
    BY <1>0, <1>4, <2>1, ArrivalPasses DEF Lookup
  <2>2. CASE stored[Current(e)] = None
    BY <1>0, <1>4, <2>2, ArrivalStays, ZenonT(30) DEF Lookup
  <2> QED BY <2>1, <2>2
<1>5. ASSUME NEW e \in Events, FindConversation(e) \/ OpenConversation(e)
      PROVE  Arrival'
  <2>1. /\ UNCHANGED <<queue, pos, dedup, stored>> /\ pc[e] \in {"find", "open"}
        /\ Goto(e, "store") \/ Goto(e, "open")
    BY <1>5 DEF FindConversation, OpenConversation
  <2> QED BY <1>0, <2>1, ArrivalStays
<1>6. ASSUME NEW e \in Events, Store(e) \/ StoreAnswerLost(e)
      PROVE  Arrival'
  <2>1. Current(e) \in Messages /\ thread[e] \in Thread
    BY <1>6, CurrentIsMessage DEF Store, StoreAnswerLost, WithThread
  <2>2. ASSUME stored' = [stored EXCEPT ![Current(e)] = thread[e].id]
        PROVE  /\ stored'[Current(e)] # None
               /\ \A m \in Messages : stored[m] # None => stored'[m] # None
    BY <2>1, <2>2 DEF Thread
  <2>3. CASE StoreAnswerLost(e)
    BY <1>0, <2>2, <2>3, ArrivalPasses DEF StoreAnswerLost
  <2>4. CASE Store(e) /\ stored[Current(e)] # None
    BY <1>0, <2>4, ArrivalPasses DEF Store
  <2>5. CASE Store(e) /\ stored[Current(e)] = None
    BY <1>0, <2>2, <2>5, ArrivalStays DEF Store
  <2> QED BY <1>6, <2>3, <2>4, <2>5
<1>7. ASSUME NEW e \in Events, Touch(e)
      PROVE  Arrival'
  <2>1. CASE thread[e].status = "ESCALATED" \/ Current(e) \in Media
    BY <1>0, <1>7, <2>1, ArrivalPasses DEF Touch, Past
  <2>2. CASE ~(thread[e].status = "ESCALATED" \/ Current(e) \in Media)
    BY <1>0, <1>7, <2>2, ArrivalStays DEF Touch
  <2> QED BY <2>1, <2>2
<1>8. ASSUME NEW e \in Events, QuotaExceeded(e) \/ EndTurn(e) \/ Escalate(e)
      PROVE  Arrival'
  <2>1. /\ NextMessage(e) /\ UNCHANGED <<queue, dedup, stored>>
        /\ pc[e] \in {"quota", "turn"} /\ Past(e, pos[e])
    BY <1>8 DEF QuotaExceeded, EndTurn, Escalate, Past
  <2> QED BY <1>0, <2>1, ArrivalPasses
<1>9. ASSUME NEW e \in Events, BeginTurn(e)
      PROVE  Arrival'
  BY <1>0, <1>9, ArrivalStays DEF BeginTurn
<1>10. ASSUME NEW e \in Events, Finish(e) \/ Complete(e)
       PROVE  Arrival'
  <2>1. /\ UNCHANGED <<payload, dedup, stored>> /\ pc[e] \in {"finish", "return"}
        /\ \A f \in Events \ {e} :
              pc'[f] = pc[f] /\ job'[f] = job[f] /\ pos'[f] = pos[f]
    BY <1>10 DEF Finish, Complete, Leave
  <2>2. \A f \in Events : \A k : Past(f, k)' => Past(f, k)
    BY <2>1 DEF Past
  <2> QED BY <1>0, <2>1, <2>2, ArrivalKept
<1>11. ASSUME NEW e \in Events, Throw(e) \/ RecordFailure(e) \/ Retry(e) \/ Crash(e)
       PROVE  FALSE
  BY <1>11 DEF Throw, RecordFailure, Retry, Crash, Leave, Unharmed
<1>12. CASE (\E m \in Messages : EvictDedup(m)) \/ (\E c \in Convs : UpdateStatus(c))
            \/ UNCHANGED vars
  <2>1. UNCHANGED <<queue, pc, pos, stored>> /\ dedup' \subseteq dedup
    BY <1>12 DEF EvictDedup, UpdateStatus, vars
  <2>2. \A f \in Events : \A k : Past(f, k)' => Past(f, k)
    BY <2>1 DEF Past
  <2> QED BY <1>0, <2>1, <2>2, ArrivalKept
<1> QED
  BY <1>1, <1>2, <1>3, <1>4, <1>5, <1>6, <1>7, <1>8, <1>9, <1>10, <1>11, <1>12
  DEF Next, Step, Fault

(* While no run has failed or died, every message of a completed job is in *)
(* a conversation once the queue is at rest, for any number of deliveries, *)
(* batches, workers and evicted keys: what a run skips because another run *)
(* claimed it is stored by that one.                                       *)
THEOREM ClaimedMessagesArrive == Spec => []EveryMessageArrives
<1>1. Init => Arrival
  <2>1. ASSUME Init, NEW e \in Events, NEW k \in DOMAIN payload[e]
        PROVE  FALSE
    BY <2>1 DEF Init
  <2> QED BY <2>1 DEF Init, Arrival
<1>2. TypeInv /\ Arrival => EveryMessageArrives
  <2> SUFFICES ASSUME TypeInv, Arrival,
                      \A e \in Events : /\ job[e] \notin {"waiting", "active"}
                                        /\ attempts[e] = 0 /\ stalls[e] = 0,
                      NEW e \in Events, NEW m \in Messages,
                      job[e] = "completed", Carries(e, m)
               PROVE  stored[m] # None
    BY DEF EveryMessageArrives
  <2>1. Unharmed /\ \A f \in Events : pc[f] \notin Holding
    BY DEF TypeInv, RunsAreActive, Working, Unharmed, Holding
  <2>2. PICK k \in DOMAIN payload[e] : payload[e][k] = m
    BY DEF Carries
  <2>3. Kept(m)
    BY <2>1, <2>2 DEF Arrival, Past
  <2> QED BY <2>1, <2>3 DEF Kept
<1> QED BY <1>1, <1>2, TypeInit, TypeStep, ArrivalStep, PTL DEF Spec
=============================================================================
