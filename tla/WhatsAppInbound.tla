---------------------------- MODULE WhatsAppInbound ----------------------------
(***************************************************************************)
(* The inbound half of the WhatsApp module, for one customer of one salon: *)
(* WebhookIngestionService persists a webhook and queues a BullMQ job,     *)
(* InboundMessageProcessorService works the job off message by message,    *)
(* ConversationsService keeps the customer's threads, and the AI answers.  *)
(*                                                                         *)
(* A job is a process of its own that moves from one await to the next.    *)
(* Workers of several backend replicas take jobs of the same queue, Meta   *)
(* delivers a message any number of times, and a job that fails or whose   *)
(* process dies is run again from the start.                               *)
(***************************************************************************)
EXTENDS Naturals, Sequences, FiniteSets

CONSTANTS
    Messages,     \* the customer's messages, each named by Meta's timestamp of it
    Media,        \* the messages that carry no text
    Events,       \* the webhook deliveries
    Payloads,     \* the lists of messages a webhook can carry for a known account
    Convs,        \* the ids conversations can get
    Workers,      \* how many jobs can be worked on at once
    MaxAttempts,  \* the attempts a job is queued with
    MaxStalls,    \* how often BullMQ puts a job whose worker died back in line
    Evictable,    \* the messages whose dedup key Redis may evict or expire
    Staff,        \* the statuses staff may set a conversation to
    Faulty,       \* whether Redis, the database and processes can fail
    None

ASSUME MessagesAssumption == Messages \subseteq Nat /\ Media \subseteq Messages
ASSUME PayloadsAssumption == Payloads \subseteq Seq(Messages)
ASSUME AttemptsAssumption == MaxAttempts \in Nat \ {0} /\ MaxStalls \in Nat
ASSUME FaultyAssumption == Faulty \in BOOLEAN

Status == {"OPEN", "ESCALATED", "RESOLVED", "CLOSED"}
RowStatus == {"RECEIVED", "PROCESSED", "FAILED"}
JobStatus == {"waiting", "active", "completed", "failed"}

ASSUME StaffAssumption == Staff \subseteq Status

(* A conversation as it was when a job read it. *)
Thread == [id: Convs, status: Status]

ASSUME NoneAssumption ==
    /\ None \notin Messages \cup Convs \cup Thread
    /\ None \notin Status \cup RowStatus \cup JobStatus

VARIABLES
    row,       \* row[e]: processing status of the webhook_events row of e, or None
    payload,   \* payload[e]: the messages e carries
    job,       \* job[e]: where the whatsapp-inbound job of e is
    attempts,  \* attempts[e]: its failed attempts
    stalls,    \* stalls[e]: how often it was found stalled
    pc,        \* pc[e]: where the run of the job stands
    pos,       \* pos[e]: the message it is at
    thread,    \* thread[e]: the conversation it read or created for that message
    dedup,     \* the messages with a key dedup:whatsapp:{id} in Redis
    stored,    \* stored[m]: the conversation the messages row of m is in, or None
    conv,      \* conv[c]: the status of conversation c, or None
    inbound,   \* inbound[c]: lastInboundMessageAt of c, 0 for null
    turns      \* turns[m]: how many AI turns were run for m

vars == <<row, payload, job, attempts, stalls, pc, pos, thread, dedup, stored,
          conv, inbound, turns>>

queue == <<row, payload, job, attempts, stalls>>
data == <<dedup, stored, conv, inbound, turns>>

-----------------------------------------------------------------------------
Init ==
    /\ row = [e \in Events |-> None]
    /\ payload = [e \in Events |-> << >>]
    /\ job = [e \in Events |-> None]
    /\ attempts = [e \in Events |-> 0]
    /\ stalls = [e \in Events |-> 0]
    /\ pc = [e \in Events |-> "idle"]
    /\ pos = [e \in Events |-> 1]
    /\ thread = [e \in Events |-> None]
    /\ dedup = {}
    /\ stored = [m \in Messages |-> None]
    /\ conv = [c \in Convs |-> None]
    /\ inbound = [c \in Convs |-> 0]
    /\ turns = [m \in Messages |-> 0]

(* The message the run of e is at. *)
Current(e) == payload[e][pos[e]]

Goto(e, where) == pc' = [pc EXCEPT ![e] = where]

(* The next message of the payload, or the end of it. *)
NextMessage(e) ==
    /\ pos' = [pos EXCEPT ![e] = @ + 1]
    /\ thread' = [thread EXCEPT ![e] = None]
    /\ Goto(e, IF pos[e] = Len(payload[e]) THEN "finish" ELSE "dedup")

-----------------------------------------------------------------------------
(* WebhookIngestionService.ingest *)

(* The webhook, correctly signed, is persisted before anything else. *)
Receive(e) ==
    /\ row[e] = None
    /\ \E p \in Payloads : payload' = [payload EXCEPT ![e] = p]
    /\ row' = [row EXCEPT ![e] = "RECEIVED"]
    /\ Goto(e, "enqueue")
    /\ UNCHANGED <<job, attempts, stalls, pos, thread, data>>

Enqueue(e) ==
    /\ pc[e] = "enqueue"
    /\ job' = [job EXCEPT ![e] = "waiting"]
    /\ Goto(e, "idle")
    /\ UNCHANGED <<row, payload, attempts, stalls, pos, thread, data>>

(* Redis or the process fails in between: no job, and no 200 for Meta,     *)
(* which delivers the same messages again, as another event.               *)
EnqueueLost(e) ==
    /\ Faulty /\ pc[e] = "enqueue"
    /\ Goto(e, "idle")
    /\ UNCHANGED <<queue, pos, thread, data>>

-----------------------------------------------------------------------------
(* InboundMessageProcessorService.process *)

(* A worker takes the job, whether for the first time or again. *)
Take(e) ==
    /\ job[e] = "waiting"
    /\ Cardinality({f \in Events : job[f] = "active"}) < Workers
    /\ job' = [job EXCEPT ![e] = "active"]
    /\ Goto(e, IF payload[e] = << >> THEN "finish" ELSE "dedup")
    /\ UNCHANGED <<row, payload, attempts, stalls, pos, thread, data>>

(* Faulty variant: a duplicate ends the whole webhook, not just the message. *)
DedupSkipsEvent(e) ==
    /\ pc[e] = "dedup"
    /\ IF Current(e) \in dedup
       THEN Goto(e, "finish") /\ UNCHANGED <<pos, thread, dedup>>
       ELSE /\ dedup' = dedup \cup {Current(e)}
            /\ Goto(e, "lookup") /\ UNCHANGED <<pos, thread>>
    /\ UNCHANGED <<queue, stored, conv, inbound, turns>>

(* SET NX EX: the first run to come by claims the message, for good. *)
Dedup(e) ==
    /\ pc[e] = "dedup"
    /\ IF Current(e) \in dedup
       THEN NextMessage(e) /\ UNCHANGED dedup
       ELSE /\ dedup' = dedup \cup {Current(e)}
            /\ Goto(e, "lookup") /\ UNCHANGED <<pos, thread>>
    /\ UNCHANGED <<queue, stored, conv, inbound, turns>>

(* findByWhatsappMessageId *)
Lookup(e) ==
    /\ pc[e] = "lookup"
    /\ IF stored[Current(e)] # None
       THEN NextMessage(e)
       ELSE Goto(e, "find") /\ UNCHANGED <<pos, thread>>
    /\ UNCHANGED <<queue, data>>

(* findMostRecentOpenByCustomer: OPEN threads only, the one with the       *)
(* latest message; a thread nothing was stored in yet sorts first.         *)
MostRecentOpen(c) ==
    /\ conv[c] = "OPEN"
    /\ \A d \in Convs : conv[d] = "OPEN" =>
          inbound[c] = 0 \/ (inbound[d] # 0 /\ inbound[d] <= inbound[c])

FindConversation(e) ==
    /\ pc[e] = "find"
    /\ IF \E c \in Convs : conv[c] = "OPEN"
       THEN /\ \E c \in Convs :
                 /\ MostRecentOpen(c)
                 /\ thread' = [thread EXCEPT ![e] = [id |-> c, status |-> conv[c]]]
            /\ Goto(e, "store")
       ELSE Goto(e, "open") /\ UNCHANGED thread
    /\ UNCHANGED <<queue, pos, data>>

(* findOrCreateOpenConversation found none and creates one. *)
OpenConversation(e) ==
    /\ pc[e] = "open"
    /\ \E c \in Convs :
          /\ conv[c] = None
          /\ conv' = [conv EXCEPT ![c] = "OPEN"]
          /\ thread' = [thread EXCEPT ![e] = [id |-> c, status |-> "OPEN"]]
    /\ Goto(e, "store")
    /\ UNCHANGED <<queue, pos, dedup, stored, inbound, turns>>

(* Faulty variant: the unique violation is logged and the run goes on. *)
StoreAgain(e) ==
    /\ pc[e] = "store"
    /\ stored' = [stored EXCEPT ![Current(e)] = thread[e].id]
    /\ Goto(e, "touch") /\ UNCHANGED <<pos, thread>>
    /\ UNCHANGED <<queue, dedup, conv, inbound, turns>>

(* messages.create; the partial unique index is the backstop, and a row    *)
(* found after a failed insert counts as another run's.                    *)
Store(e) ==
    /\ pc[e] = "store"
    /\ IF stored[Current(e)] = None
       THEN /\ stored' = [stored EXCEPT ![Current(e)] = thread[e].id]
            /\ Goto(e, "touch") /\ UNCHANGED <<pos, thread>>
       ELSE NextMessage(e) /\ UNCHANGED stored
    /\ UNCHANGED <<queue, dedup, conv, inbound, turns>>

(* The insert committed, its answer was lost: the catch block finds the    *)
(* row and takes it for another run's.                                     *)
StoreAnswerLost(e) ==
    /\ Faulty /\ pc[e] = "store" /\ stored[Current(e)] = None
    /\ stored' = [stored EXCEPT ![Current(e)] = thread[e].id]
    /\ NextMessage(e)
    /\ UNCHANGED <<queue, dedup, conv, inbound, turns>>

(* touchLastMessage writes the timestamp of the message at hand, then      *)
(* triggerAiResponse looks at the status read with the thread, and at      *)
(* whether there is a text to answer.                                      *)
Touch(e) ==
    /\ pc[e] = "touch"
    /\ inbound' = [inbound EXCEPT ![thread[e].id] = Current(e)]
    /\ IF thread[e].status = "ESCALATED" \/ Current(e) \in Media
       THEN NextMessage(e)
       ELSE Goto(e, "quota") /\ UNCHANGED <<pos, thread>>
    /\ UNCHANGED <<queue, dedup, stored, conv, turns>>

(* checkAndIncrementAiMessageUsage refuses, or the turn begins. *)
QuotaExceeded(e) ==
    /\ pc[e] = "quota"
    /\ NextMessage(e)
    /\ UNCHANGED <<queue, data>>

BeginTurn(e) ==
    /\ pc[e] = "quota"
    /\ turns' = [turns EXCEPT ![Current(e)] = @ + 1]
    /\ Goto(e, "turn")
    /\ UNCHANGED <<queue, pos, thread, dedup, stored, conv, inbound>>

(* runTurn answers, or throws, which is logged and swallowed. *)
EndTurn(e) ==
    /\ pc[e] = "turn"
    /\ NextMessage(e)
    /\ UNCHANGED <<queue, data>>

(* runTurn hands the thread to a human: the tool escalateToHuman, a        *)
(* repeated reply, the AI disabled or its provider down.  What the thread  *)
(* has become meanwhile is not looked at.                                  *)
Escalate(e) ==
    /\ pc[e] = "turn"
    /\ conv' = [conv EXCEPT ![thread[e].id] = "ESCALATED"]
    /\ NextMessage(e)
    /\ UNCHANGED <<queue, dedup, stored, inbound, turns>>

(* The webhook is marked PROCESSED, and the job returns to BullMQ. *)
Finish(e) ==
    /\ pc[e] = "finish"
    /\ row' = [row EXCEPT ![e] = "PROCESSED"]
    /\ Goto(e, "return")
    /\ UNCHANGED <<payload, job, attempts, stalls, pos, thread, data>>

(* The run is over, and the job goes where BullMQ puts it. *)
Leave(e, where) ==
    /\ job' = [job EXCEPT ![e] = where]
    /\ Goto(e, "idle")
    /\ pos' = [pos EXCEPT ![e] = 1]
    /\ thread' = [thread EXCEPT ![e] = None]
    /\ UNCHANGED <<row, payload, data>>

Complete(e) ==
    /\ pc[e] = "return"
    /\ Leave(e, "completed")
    /\ UNCHANGED <<attempts, stalls>>

-----------------------------------------------------------------------------
(* Failures *)

(* A Redis or database error throws out of the loop.  When only the answer *)
(* was lost, the command has taken effect.                                 *)
Throw(e) ==
    /\ Faulty
    /\ pc[e] \in {"dedup", "lookup", "find", "open", "store", "touch", "finish"}
    /\ \/ UNCHANGED <<row, data>>
       \/ /\ pc[e] = "dedup" /\ dedup' = dedup \cup {Current(e)}
          /\ UNCHANGED <<row, stored, conv, inbound, turns>>
       \/ /\ pc[e] = "open"
          /\ \E c \in Convs : conv[c] = None /\ conv' = [conv EXCEPT ![c] = "OPEN"]
          /\ UNCHANGED <<row, dedup, stored, inbound, turns>>
       \/ /\ pc[e] = "touch"
          /\ inbound' = [inbound EXCEPT ![thread[e].id] = Current(e)]
          /\ UNCHANGED <<row, dedup, stored, conv, turns>>
       \/ /\ pc[e] = "finish" /\ row' = [row EXCEPT ![e] = "PROCESSED"]
          /\ UNCHANGED data
    /\ Goto(e, "failed")
    /\ UNCHANGED <<payload, job, attempts, stalls, pos, thread>>

(* The catch block marks the webhook FAILED, if the database lets it. *)
RecordFailure(e) ==
    /\ pc[e] = "failed"
    /\ row' \in {row, [row EXCEPT ![e] = "FAILED"]}
    /\ Goto(e, "rethrow")
    /\ UNCHANGED <<payload, job, attempts, stalls, pos, thread, data>>

(* Faulty variants: delayed outside the queue's states; or the error is    *)
(* not rethrown.                                                           *)
RetryUnknown(e) ==
    /\ pc[e] = "rethrow"
    /\ Leave(e, "delayed")
    /\ UNCHANGED <<attempts, stalls>>

RetrySwallowed(e) ==
    /\ pc[e] = "rethrow"
    /\ Leave(e, "completed")
    /\ UNCHANGED <<attempts, stalls>>

(* The error is rethrown: BullMQ queues the job again, with backoff, until *)
(* its attempts are used up.                                               *)
Retry(e) ==
    /\ pc[e] = "rethrow"
    /\ attempts' = [attempts EXCEPT ![e] = @ + 1]
    /\ Leave(e, IF attempts[e] + 1 < MaxAttempts THEN "waiting" ELSE "failed")
    /\ UNCHANGED stalls

(* The worker dies; BullMQ finds the job stalled and gives it to another   *)
(* worker, or to the failed set once it has stalled too often.             *)
Crash(e) ==
    /\ Faulty /\ job[e] = "active"
    /\ stalls' = [stalls EXCEPT ![e] = @ + 1]
    /\ Leave(e, IF stalls[e] < MaxStalls THEN "waiting" ELSE "failed")
    /\ UNCHANGED attempts

-----------------------------------------------------------------------------
(* The rest of the world *)

(* A dedup key goes, evicted or at the end of its 48 hours. *)
EvictDedup(m) ==
    /\ m \in dedup \cap Evictable
    /\ dedup' = dedup \ {m}
    /\ UNCHANGED <<queue, pc, pos, thread, stored, conv, inbound, turns>>

(* PATCH /conversations/:id: staff may set any status at any time. *)
UpdateStatus(c) ==
    /\ conv[c] # None
    /\ \E s \in Staff \ {conv[c]} : conv' = [conv EXCEPT ![c] = s]
    /\ UNCHANGED <<queue, pc, pos, thread, dedup, stored, inbound, turns>>

(* What a running process and a running queue do of themselves. *)
Step(e) ==
    \/ Enqueue(e) \/ Take(e)
    \/ Dedup(e) \/ Lookup(e) \/ FindConversation(e) \/ OpenConversation(e)
    \/ Store(e) \/ Touch(e)
    \/ QuotaExceeded(e) \/ BeginTurn(e) \/ EndTurn(e) \/ Escalate(e)
    \/ Finish(e) \/ Complete(e) \/ RecordFailure(e) \/ Retry(e)

Fault(e) == EnqueueLost(e) \/ StoreAnswerLost(e) \/ Throw(e) \/ Crash(e)

Next ==
    \/ \E e \in Events : Receive(e) \/ Step(e) \/ Fault(e)
    \/ \E m \in Messages : EvictDedup(m)
    \/ \E c \in Convs : UpdateStatus(c)

Spec == Init /\ [][Next]_vars

-----------------------------------------------------------------------------
Working == {"dedup", "lookup", "find", "open", "store", "touch", "quota", "turn",
            "finish", "return", "failed", "rethrow"}

TypeOK ==
    /\ row \in [Events -> RowStatus \cup {None}]
    /\ payload \in [Events -> Payloads \cup {<< >>}]
    /\ job \in [Events -> JobStatus \cup {None}]
    /\ attempts \in [Events -> Nat]
    /\ stalls \in [Events -> Nat]
    /\ pc \in [Events -> Working \cup {"idle", "enqueue"}]
    /\ pos \in [Events -> Nat]
    /\ thread \in [Events -> Thread \cup {None}]
    /\ dedup \subseteq Messages
    /\ stored \in [Messages -> Convs \cup {None}]
    /\ conv \in [Convs -> Status \cup {None}]
    /\ inbound \in [Convs -> Messages \cup {0}]
    /\ turns \in [Messages -> Nat]

(* However often Meta delivers a message, whichever dedup keys are evicted *)
(* and however many runs of however many jobs see it, crashed ones among   *)
(* them, the AI acts on it at most once: no second reply, no second        *)
(* booking for one request of the customer.                                *)
ActedOnAtMostOnce == \A m \in Messages : turns[m] <= 1

(* A job is reported complete only when its webhook was worked off to the  *)
(* end: no error, crash or late mark of an earlier run leaves a completed  *)
(* job behind a webhook that reads RECEIVED or FAILED.                     *)
CompletedIsProcessed ==
    \A e \in Events : job[e] = "completed" => row[e] = "PROCESSED"

Carries(e, m) == \E k \in DOMAIN payload[e] : payload[e][k] = m

(* When the queue has come to rest and no run of it failed or crashed, the *)
(* messages of the completed jobs are in conversations, although each run  *)
(* left to the others what they had claimed first.                         *)
EveryMessageArrives ==
    (\A e \in Events : /\ job[e] \notin {"waiting", "active"}
                       /\ attempts[e] = 0 /\ stalls[e] = 0)
    => \A e \in Events, m \in Messages :
          job[e] = "completed" /\ Carries(e, m) => stored[m] # None

(* A message that was claimed in Redis is stored or in the hands of a run: *)
(* the claim of the first run never makes the others drop what it has not  *)
(* done.  The processor promises this of failing runs too.                 *)
NothingDropped ==
    \A m \in dedup : stored[m] # None \/
        \E e \in Events : /\ Carries(e, m)
                          /\ job[e] \in {"waiting", "active", "failed"}
=============================================================================
