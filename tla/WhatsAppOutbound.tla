---------------------------- MODULE WhatsAppOutbound ----------------------------
(***************************************************************************)
(* Messages to customers: MessagesService.sendMessage and sendAiMessage    *)
(* store a QUEUED row and queue a job, OutboundMessageService.send hands   *)
(* the message to Meta and records what became of it, and Meta's receipts, *)
(* which arrive through the inbound pipeline, move the status on.          *)
(*                                                                         *)
(* A message may be handed to Meta several times; send k is the k-th that  *)
(* Meta accepted, and stands for the WhatsApp id Meta gave it.             *)
(***************************************************************************)
EXTENDS Naturals, FiniteSets

CONSTANTS
    Messages,     \* the rows of direction OUTBOUND
    MaxAttempts,  \* the attempts a job is queued with
    MaxStalls,    \* how often BullMQ takes a stalled job up again
    Failures,     \* what can go wrong: "enqueue", "job", "answer", "crash"
    Receipts,     \* the receipts Meta sends
    None

Delivery == {"QUEUED", "SENT", "DELIVERED", "READ", "FAILED"}

ASSUME OutboundAssumption ==
    /\ MaxAttempts \in Nat \ {0} /\ MaxStalls \in Nat
    /\ Failures \subseteq {"enqueue", "job", "answer", "crash"}
    /\ Receipts \subseteq Delivery \ {"QUEUED"}
    /\ None \notin Delivery

(* Every run of a job makes Meta accept at most one send. *)
MaxSends == MaxAttempts + MaxStalls

VARIABLES
    status,    \* status[m]: Message.status, None before the row exists
    wamid,     \* wamid[m]: the send whatsappMessageId names, 0 for none
    sends,     \* sends[m]: how often Meta has accepted m
    receipts,  \* receipts[m]: the receipts Meta has sent: [send, status]
    job,       \* job[m]: where the whatsapp-outbound job of m is
    attempts,  \* attempts[m]: its failed attempts
    stalls,    \* stalls[m]: how often it was found stalled
    at         \* at[m]: where the handler, then the run, of m stands

vars == <<status, wamid, sends, receipts, job, attempts, stalls, at>>

meta == <<sends, receipts>>
queue == <<job, attempts, stalls>>

Init ==
    /\ status = [m \in Messages |-> None]
    /\ wamid = [m \in Messages |-> 0]
    /\ sends = [m \in Messages |-> 0]
    /\ receipts = [m \in Messages |-> {}]
    /\ job = [m \in Messages |-> "none"]
    /\ attempts = [m \in Messages |-> 0]
    /\ stalls = [m \in Messages |-> 0]
    /\ at = [m \in Messages |-> "idle"]

Goto(m, where) == at' = [at EXCEPT ![m] = where]

SetStatus(m, s) == status' = [status EXCEPT ![m] = s]

-----------------------------------------------------------------------------
(* sendMessage, sendAiMessage *)

(* The conversation is inside its messaging window. *)
Create(m) ==
    /\ status[m] = None
    /\ SetStatus(m, "QUEUED")
    /\ Goto(m, "enqueue")
    /\ UNCHANGED <<wamid, meta, queue>>

Enqueue(m) ==
    /\ at[m] = "enqueue"
    /\ job' = [job EXCEPT ![m] = "waiting"]
    /\ Goto(m, "idle")
    /\ UNCHANGED <<status, wamid, meta, attempts, stalls>>

EnqueueFails(m) ==
    /\ "enqueue" \in Failures
    /\ at[m] = "enqueue"
    /\ Goto(m, "idle")
    /\ UNCHANGED <<status, wamid, meta, queue>>

-----------------------------------------------------------------------------
(* OutboundMessageService.send *)

(* Faulty variant: SENT as soon as the job is picked up. *)
TakeOptimistic(m) ==
    /\ job[m] = "waiting"
    /\ job' = [job EXCEPT ![m] = "active"]
    /\ SetStatus(m, "SENT")
    /\ Goto(m, "call")
    /\ UNCHANGED <<wamid, meta, attempts, stalls>>

(* The run reads message, conversation, customer and account. *)
Take(m) ==
    /\ job[m] = "waiting"
    /\ job' = [job EXCEPT ![m] = "active"]
    /\ Goto(m, "call")
    /\ UNCHANGED <<status, wamid, meta, attempts, stalls>>

(* Meta takes one more send of m. *)
Accept(m) == sends' = [sends EXCEPT ![m] = @ + 1]

CallAccepted(m) ==
    /\ at[m] = "call"
    /\ Accept(m)
    /\ Goto(m, "setId")
    /\ UNCHANGED <<status, wamid, receipts, queue>>

CallRefused(m) ==
    /\ at[m] = "call"
    /\ Goto(m, "refused")
    /\ UNCHANGED <<status, wamid, meta, queue>>

SetWhatsappMessageId(m) ==
    /\ at[m] = "setId"
    /\ wamid' = [wamid EXCEPT ![m] = sends[m]]
    /\ Goto(m, "setSent")
    /\ UNCHANGED <<status, meta, queue>>

MarkSent(m) ==
    /\ at[m] = "setSent"
    /\ SetStatus(m, "SENT")
    /\ Goto(m, "touch")
    /\ UNCHANGED <<wamid, meta, queue>>

MarkRefused(m) ==
    /\ at[m] = "refused"
    /\ SetStatus(m, "FAILED")
    /\ Goto(m, "return")
    /\ UNCHANGED <<wamid, meta, queue>>

Touch(m) ==
    /\ at[m] = "touch"
    /\ Goto(m, "return")
    /\ UNCHANGED <<status, wamid, meta, queue>>

Complete(m) ==
    /\ at[m] = "return"
    /\ job' = [job EXCEPT ![m] = "completed"]
    /\ Goto(m, "idle")
    /\ UNCHANGED <<status, wamid, meta, attempts, stalls>>

-----------------------------------------------------------------------------
(* Failing runs *)

(* Faulty variant: one attempt too many. *)
ThrowOffByOne(m) ==
    LET last == attempts[m] = MaxAttempts
    IN /\ attempts' = [attempts EXCEPT ![m] = @ + 1]
       /\ job' = [job EXCEPT ![m] = IF last THEN "failed" ELSE "waiting"]
       /\ Goto(m, IF last THEN "onFailed" ELSE "idle")
       /\ UNCHANGED <<status, wamid, receipts, stalls>>

(* The run throws: BullMQ tries again, or gives up and emits "failed". *)
Throw(m) ==
    LET last == attempts[m] + 1 = MaxAttempts
    IN /\ attempts' = [attempts EXCEPT ![m] = @ + 1]
       /\ job' = [job EXCEPT ![m] = IF last THEN "failed" ELSE "waiting"]
       /\ Goto(m, IF last THEN "onFailed" ELSE "idle")
       /\ UNCHANGED <<status, wamid, receipts, stalls>>

(* 5xx, 429, or one of the reads or writes of the run fails. *)
RunFails(m) ==
    /\ "job" \in Failures
    /\ at[m] \in {"call", "refused", "setId", "setSent", "touch"}
    /\ Throw(m) /\ UNCHANGED sends

(* Meta has the message, and its answer is lost. *)
AnswerLost(m) ==
    /\ "answer" \in Failures
    /\ at[m] = "call"
    /\ Throw(m) /\ Accept(m)

(* Faulty variant: the last attempt taken for one before the last. *)
OnFailedOffByOne(m) ==
    /\ at[m] = "onFailed"
    /\ IF attempts[m] <= MaxAttempts
       THEN UNCHANGED status ELSE SetStatus(m, "FAILED")
    /\ Goto(m, "idle")
    /\ UNCHANGED <<wamid, meta, queue>>

(* WhatsAppOutboundProcessor.onFailed, markPermanentlyFailed *)
OnFailed(m) ==
    /\ at[m] = "onFailed"
    /\ IF attempts[m] < MaxAttempts
       THEN UNCHANGED status ELSE SetStatus(m, "FAILED")
    /\ Goto(m, "idle")
    /\ UNCHANGED <<wamid, meta, queue>>

(* The process dies, or the database fails, before onFailed is through.    *)
OnFailedLost(m) ==
    /\ "crash" \in Failures
    /\ at[m] = "onFailed"
    /\ Goto(m, "lost")
    /\ UNCHANGED <<status, wamid, meta, queue>>

(* The worker dies.  A job that was found stalled too often is failed by   *)
(* another worker, which emits "failed" for it as well.                    *)
Crash(m) ==
    /\ "crash" \in Failures
    /\ job[m] = "active"
    /\ stalls' = [stalls EXCEPT ![m] = @ + 1]
    /\ \/ /\ stalls[m] < MaxStalls
          /\ job' = [job EXCEPT ![m] = "waiting"]
          /\ Goto(m, "idle")
       \/ /\ stalls[m] = MaxStalls
          /\ job' = [job EXCEPT ![m] = "failed"]
          /\ Goto(m, "onFailed")
    /\ UNCHANGED <<status, wamid, meta, attempts>>

-----------------------------------------------------------------------------
(* Receipts *)

(* Meta says of send k that it was sent, delivered, read, or not delivered. *)
SendReceipt(m, k, s) ==
    /\ s \in Receipts
    /\ s = "READ" => [send |-> k, status |-> "DELIVERED"] \in receipts[m]
    /\ s = "DELIVERED" => [send |-> k, status |-> "FAILED"] \notin receipts[m]
    /\ s = "FAILED" => [send |-> k, status |-> "DELIVERED"] \notin receipts[m]
    /\ [send |-> k, status |-> s] \notin receipts[m]
    /\ receipts' = [receipts EXCEPT ![m] = @ \cup {[send |-> k, status |-> s]}]
    /\ UNCHANGED <<status, wamid, sends, queue, at>>

(* processStatusUpdate, whenever and as often as the receipt arrives: the  *)
(* row with its id, if there is one, takes the status over.                *)
ApplyReceipt(m) ==
    /\ \E r \in receipts[m] : r.send = wamid[m] /\ SetStatus(m, r.status)
    /\ UNCHANGED <<wamid, meta, queue, at>>

-----------------------------------------------------------------------------
SendStep(m) ==
    \/ Create(m) \/ Enqueue(m) \/ Take(m)
    \/ CallAccepted(m) \/ CallRefused(m)
    \/ SetWhatsappMessageId(m) \/ MarkSent(m) \/ MarkRefused(m)
    \/ Touch(m) \/ Complete(m) \/ OnFailed(m)

Failure(m) == EnqueueFails(m) \/ RunFails(m) \/ AnswerLost(m) \/ OnFailedLost(m) \/ Crash(m)

Next ==
    \E m \in Messages :
        \/ SendStep(m) \/ Failure(m) \/ ApplyReceipt(m)
        \/ \E k \in 1..sends[m], s \in Delivery : SendReceipt(m, k, s)

Spec == Init /\ [][Next]_vars

(* Handlers, workers and queue run on; nothing need fail, no receipt come. *)
FairSpec == Spec /\ \A m \in Messages : WF_vars(SendStep(m))

-----------------------------------------------------------------------------
TypeOK ==
    /\ status \in [Messages -> Delivery \cup {None}]
    /\ wamid \in [Messages -> 0..MaxSends]
    /\ sends \in [Messages -> 0..MaxSends]
    /\ receipts \in [Messages -> SUBSET [send: 1..MaxSends, status: Receipts]]
    /\ job \in [Messages -> {"none", "waiting", "active", "completed", "failed"}]
    /\ attempts \in [Messages -> 0..MaxAttempts]
    /\ stalls \in [Messages -> 0..(MaxStalls + 1)]
    /\ at \in [Messages -> {"idle", "enqueue", "call", "setId", "setSent", "refused",
                            "touch", "return", "onFailed", "lost"}]

(* The dashboard never says more than happened: what reads SENT was        *)
(* accepted by Meta, what reads DELIVERED or READ was reported so for one  *)
(* of its sends.                                                           *)
StatusIsEarned ==
    \A m \in Messages :
        /\ status[m] = "SENT" => sends[m] > 0
        /\ status[m] \in {"DELIVERED", "READ"} =>
               \E r \in receipts[m] : r.status = status[m]

(* A message whose job completed or has used up its attempts does not read *)
(* QUEUED, as though it were still to be sent: the "failed" handler, which *)
(* runs after the job, knows the last attempt from the others.             *)
OverIsNotQueued ==
    \A m \in Messages :
        /\ job[m] = "completed" \/ (job[m] = "failed" /\ attempts[m] = MaxAttempts)
        /\ at[m] = "idle"
        => status[m] # "QUEUED"

(* Every message that was queued is sent or reads FAILED in the end, when  *)
(* runs fail as often as they like and workers die, except that the job    *)
(* stalls too often or the "failed" handler is cut short.                  *)
EveryMessageSettles ==
    \A m \in Messages :
        job[m] = "waiting" ~>
            \/ status[m] # "QUEUED"
            \/ stalls[m] > MaxStalls
            \/ at[m] = "lost"
=============================================================================
