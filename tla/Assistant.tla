------------------------------- MODULE Assistant -------------------------------
(***************************************************************************)
(* The AI's turns on one conversation: ConversationOrchestratorService,    *)
(* which answers a message of the customer with the help of the model and  *)
(* its tools, AiContextService, whose row and cache remember the last      *)
(* reply, the monthly quota of AI messages, and the staff at the inbox.    *)
(*                                                                         *)
(* A turn runs statement by statement.  Several run at once when several   *)
(* workers take messages of one customer.                                  *)
(***************************************************************************)
EXTENDS Integers, Sequences, FiniteSets

CONSTANTS
    Turns,      \* messages of the customer that reach triggerAiResponse
    Workers,    \* processes of the API, each of which runs one turn at a time
    Viewers,    \* times the inbox opens the panel with the AI's context
    Replies,    \* what the model may say
    Trouble,    \* the sentence that ends a turn whose rounds are used up
    Tools,      \* the tools that the model may call
    MaxRounds,  \* MAX_TOOL_ROUNDS
    Threshold,  \* confidenceThreshold: the repetitions that are tolerated
    Limit,      \* the plan's maxMessagesPerMonth
    None

Escalating == "escalateToHuman"
ToolDefinitions == {"checkAvailability", "bookAppointment", "rescheduleAppointment",
                    "cancelAppointment", "recommendService", "answerFaq", Escalating}

Blank == [reply |-> None, count |-> 0, by |-> None]
Context == [reply: Replies \cup {Trouble}, count: Nat, by: Turns] \cup {Blank}

Endings == {"answered", "handedOver", "refused", "lost"}
Outcomes == Endings \cup {None}

ASSUME AssistantAssumption ==
    /\ Turns \cap Viewers = {}
    /\ Tools \subseteq ToolDefinitions
    /\ MaxRounds \in Nat \ {0} /\ Threshold \in Nat /\ Limit \in Nat
    /\ Workers \in Nat \ {0}
    /\ None \notin Turns \cup Replies \cup {Trouble} \cup Context \cup Endings

VARIABLES
    status,   \* the conversation's status
    enabled,  \* general.ai.enabled of the tenant
    row,      \* the AIContext row: the last reply, how often it was repeated, by
              \* whom; Blank while there is none
    cache,    \* what Redis holds of it, or None
    summary,  \* how many replies the ConversationSummary covers
    used,     \* messagesUsedCurrentPeriod
    at,       \* at[t]: the statement t runs next
    turn,     \* turn[t]: the local variables of t, and how it ended
    held,     \* held[t]: the row that t is about to put into the cache
    sent,     \* the turns that sent a reply, in this order
    met       \* history: met[t], the turns and viewers under way while t was

vars == <<status, enabled, row, cache, summary, used, at, turn, held, sent, met>>
memory == <<row, cache, held>>
world == <<status, enabled, summary, used, sent>>

Actors == Turns \cup Viewers
Places == {"idle", "quota", "count", "settings", "context", "fill", "complete", "tool",
           "down", "send", "again", "refill", "save", "cache", "repeated", "summary",
           "disabled", "view", "done"}
Fresh == [round |-> 0, calls |-> {}, asked |-> FALSE, reply |-> None, context |-> Blank,
          count |-> 0, handed |-> FALSE, outcome |-> None]

Init ==
    /\ status = "OPEN" /\ enabled = TRUE
    /\ row = Blank /\ cache = None
    /\ summary = 0 /\ used = 0 /\ sent = << >>
    /\ at = [t \in Actors |-> "idle"]
    /\ turn = [t \in Turns |-> Fresh]
    /\ held = [t \in Actors |-> None]
    /\ met = [t \in Actors |-> {}]

Busy == {t \in Actors : at[t] \notin {"idle", "done"}}
Goto(t, where) == at' = [at EXCEPT ![t] = where]
End(t, outcome) ==
    /\ turn' = [turn EXCEPT ![t] = [Fresh EXCEPT !.reply = turn[t].reply, !.asked = turn[t].asked,
                                                !.handed = turn[t].handed, !.outcome = outcome]]
    /\ Goto(t, "done")
Meets(t) == met' = [o \in Actors |-> CASE o = t -> Busy
                                       [] o \in Busy -> met[o] \cup {t}
                                       [] OTHER -> met[o]]

-----------------------------------------------------------------------------
(* InboundMessageProcessorService.triggerAiResponse, EntitlementService *)

(* The customer wrote, and the open thread was found. *)
Begin(t) ==
    /\ at[t] = "idle"
    /\ status = "OPEN"
    /\ Cardinality(Busy \cap Turns) < Workers
    /\ Goto(t, "quota")
    /\ Meets(t)
    /\ UNCHANGED <<memory, world, turn>>

(* Faulty variant: one message more than the plan allows. *)
CheckQuotaOffByOne(t) ==
    /\ at[t] = "quota"
    /\ IF used > Limit THEN End(t, "refused") ELSE Goto(t, "count") /\ UNCHANGED turn
    /\ UNCHANGED <<memory, world, met>>

CheckQuota(t) ==
    /\ at[t] = "quota"
    /\ IF used >= Limit THEN End(t, "refused") ELSE Goto(t, "count") /\ UNCHANGED turn
    /\ UNCHANGED <<memory, world, met>>

CountMessage(t) ==
    /\ at[t] = "count"
    /\ used' = used + 1
    /\ Goto(t, "settings")
    /\ UNCHANGED <<memory, status, enabled, summary, sent, turn, met>>

(* invoice.paid begins a new period. *)
ResetPeriodUsage ==
    /\ used # 0
    /\ used' = 0
    /\ UNCHANGED <<memory, status, enabled, summary, sent, at, turn, met>>

-----------------------------------------------------------------------------
(* runTurn *)

ReadSettings(t) ==
    /\ at[t] = "settings"
    /\ Goto(t, IF enabled THEN "context" ELSE "disabled")
    /\ UNCHANGED <<memory, world, turn, met>>

(* getContext: from the cache, else from the row, which is then cached.    *)
(* updateContext asks again before it writes.                              *)
GetContext(t) ==
    /\ at[t] \in {"context", "again"}
    /\ IF cache # None
       THEN Goto(t, IF at[t] = "context" THEN "complete" ELSE "save") /\ UNCHANGED held
       ELSE /\ held' = [held EXCEPT ![t] = row]
            /\ Goto(t, IF at[t] = "context" THEN "fill" ELSE "refill")
    /\ turn' = IF at[t] = "context"
               THEN [turn EXCEPT ![t].context = IF cache # None THEN cache ELSE row] ELSE turn
    /\ UNCHANGED <<row, cache, world, met>>

FillCache(t) ==
    /\ at[t] \in {"fill", "refill"}
    /\ cache' = held[t]
    /\ held' = [held EXCEPT ![t] = None]
    /\ Goto(t, IF at[t] = "fill" THEN "complete" ELSE "save")
    /\ UNCHANGED <<row, world, turn, met>>

(* The model answers, calls tools, or cannot be reached, even after the    *)
(* retries of OpenAiLlmProvider.                                           *)
Complete(t) ==
    /\ at[t] = "complete"
    /\ \/ \E says \in Replies :
              turn' = [turn EXCEPT ![t].reply = says] /\ Goto(t, "send")
       \/ \E calls \in (SUBSET Tools) \ {{}} :
              turn' = [turn EXCEPT ![t].calls = calls] /\ Goto(t, "tool")
       \/ Goto(t, "down") /\ UNCHANGED turn
    /\ UNCHANGED <<memory, world, met>>

(* ToolExecutorService: what a call makes of the thread's status.  One that *)
(* escalates may fail at its audit record, after the update; the others    *)
(* only read, or act on the calendar, and fail like any request for it.    *)
Executed(tool, works) ==
    CASE tool # Escalating -> {status}
      [] tool = Escalating /\ works -> {"ESCALATED"}
      [] tool = Escalating /\ ~works -> {status, "ESCALATED"}

(* Faulty variant: the rounds are not counted up to their limit. *)
DispatchToolForever(t) ==
    \E tool \in turn[t].calls :
        LET rest == turn[t].calls \ {tool}
        IN  /\ at[t] = "tool"
            /\ turn' = [turn EXCEPT ![t].calls = rest,
                                    ![t].round = @ + (IF rest = {} THEN 1 ELSE 0),
                                    ![t].asked = @ \/ tool = Escalating,
                                    ![t].handed = @ \/ tool = Escalating]
            /\ Goto(t, IF rest = {} THEN "complete" ELSE "tool")
            /\ status' = IF tool = Escalating THEN "ESCALATED" ELSE status
            /\ UNCHANGED <<memory, enabled, summary, used, sent, met>>

(* One call of the round; a tool that fails tells the model so.  The calls *)
(* done, a new round begins, or the turn gives up.                         *)
DispatchTool(t) ==
    \E tool \in turn[t].calls, works \in BOOLEAN :
        LET rest == turn[t].calls \ {tool}
            over == rest = {} /\ turn[t].round + 1 = MaxRounds
        IN  /\ at[t] = "tool"
            /\ turn' = [turn EXCEPT ![t].calls = rest, ![t].asked = @ \/ tool = Escalating,
                                    ![t].round = @ + (IF rest = {} THEN 1 ELSE 0),
                                    ![t].reply = IF over THEN Trouble ELSE @,
                                    ![t].handed = @ \/ (tool = Escalating /\ works)]
            /\ Goto(t, CASE over -> "send" [] rest = {} /\ ~over -> "complete" [] OTHER -> "tool")
            /\ status' \in Executed(tool, works)
            /\ UNCHANGED <<memory, enabled, summary, used, sent, met>>

(* sendAiMessage queues the reply, or finds the 24 hours over and throws.  *)
SendReply(t) ==
    /\ at[t] = "send"
    /\ \/ sent' = Append(sent, t) /\ Goto(t, "again") /\ UNCHANGED turn
       \/ End(t, "lost") /\ UNCHANGED sent
    /\ UNCHANGED <<memory, status, enabled, summary, used, met>>

(* trackRepeatedReplies counts on from the context the turn began with. *)
SaveContext(t) ==
    LET before == turn[t].context
        says == turn[t].reply
        count == IF before.reply = says THEN before.count + 1 ELSE 0
        saved == [reply |-> says, count |-> count, by |-> t]
    IN  /\ at[t] = "save"
        /\ row' = saved
        /\ held' = [held EXCEPT ![t] = saved]
        /\ turn' = [turn EXCEPT ![t].count = count]
        /\ Goto(t, "cache")
        /\ UNCHANGED <<cache, world, met>>

AfterReply(t) ==
    CASE turn[t].asked -> "summary"
      [] ~turn[t].asked /\ turn[t].count >= Threshold -> "repeated"
      [] OTHER -> "done"

(* Faulty variant: the row is saved and the cache left as it was. *)
CacheSavedForgotten(t) ==
    /\ at[t] = "cache"
    /\ held' = [held EXCEPT ![t] = None]
    /\ IF AfterReply(t) = "done" THEN End(t, "answered")
       ELSE Goto(t, AfterReply(t)) /\ UNCHANGED turn
    /\ UNCHANGED <<row, cache, world, met>>

CacheSaved(t) ==
    /\ at[t] = "cache"
    /\ cache' = held[t]
    /\ held' = [held EXCEPT ![t] = None]
    /\ IF AfterReply(t) = "done" THEN End(t, "answered")
       ELSE Goto(t, AfterReply(t)) /\ UNCHANGED turn
    /\ UNCHANGED <<row, world, met>>

(* escalateConversation: the AI is switched off, the model is out of       *)
(* reach, or the same reply was sent too often.  Only in the last case did *)
(* the customer get an answer: the fallback text is returned, not sent.    *)
(* The audit record comes after the update, and may fail.                  *)
Escalate(t) ==
    /\ at[t] \in {"disabled", "down", "repeated"}
    /\ status' = "ESCALATED"
    /\ \E outcome \in {"lost", IF at[t] = "repeated" THEN "answered" ELSE "handedOver"} :
           turn' = [turn EXCEPT ![t] = [Fresh EXCEPT
                        !.reply = turn[t].reply, !.asked = turn[t].asked, !.handed = TRUE,
                        !.outcome = outcome]]
    /\ Goto(t, "done")
    /\ UNCHANGED <<memory, enabled, summary, used, sent, met>>

(* regenerate, after a turn that called escalateToHuman. *)
Summarise(t) ==
    /\ at[t] = "summary"
    /\ summary' = Len(sent)
    /\ End(t, "answered")
    /\ UNCHANGED <<memory, status, enabled, used, sent, met>>

(* A statement throws, which triggerAiResponse logs, or the worker dies.   *)
Fail(t) ==
    /\ t \in Turns \cap Busy
    /\ End(t, "lost")
    /\ held' = [held EXCEPT ![t] = None]
    /\ UNCHANGED <<row, cache, world, met>>

-----------------------------------------------------------------------------
(* The rest of the world *)

(* The panel of the inbox reads the context, and so fills the cache. *)
OpenPanel(v) ==
    /\ at[v] = "idle"
    /\ cache = None
    /\ held' = [held EXCEPT ![v] = row]
    /\ Goto(v, "view")
    /\ Meets(v)
    /\ UNCHANGED <<row, cache, world, turn>>

FillPanel(v) ==
    /\ at[v] = "view"
    /\ cache' = held[v]
    /\ held' = [held EXCEPT ![v] = None]
    /\ Goto(v, "done")
    /\ UNCHANGED <<row, world, turn, met>>

(* The entry's TTL ends, or Redis evicts it. *)
Evict ==
    /\ cache # None
    /\ cache' = None
    /\ UNCHANGED <<row, held, world, at, turn, met>>

(* The staff take a thread, or give it back to the AI. *)
UpdateStatus(s) ==
    /\ status # s
    /\ status' = s
    /\ UNCHANGED <<memory, enabled, summary, used, sent, at, turn, met>>

SetEnabled ==
    /\ enabled' = ~enabled
    /\ UNCHANGED <<memory, status, summary, used, sent, at, turn, met>>

Step(t) ==
    \/ CheckQuota(t) \/ CountMessage(t) \/ ReadSettings(t)
    \/ GetContext(t) \/ FillCache(t) \/ Complete(t) \/ DispatchTool(t)
    \/ SendReply(t) \/ SaveContext(t) \/ CacheSaved(t) \/ Escalate(t) \/ Summarise(t)

Next ==
    \/ \E t \in Turns : Begin(t) \/ Step(t) \/ Fail(t)
    \/ \E v \in Viewers : OpenPanel(v) \/ FillPanel(v)
    \/ Evict \/ SetEnabled \/ ResetPeriodUsage
    \/ \E s \in {"OPEN", "ESCALATED"} : UpdateStatus(s)

Spec == Init /\ [][Next]_vars

-----------------------------------------------------------------------------
(* Properties *)

TypeOK ==
    /\ status \in {"OPEN", "ESCALATED"} /\ enabled \in BOOLEAN
    /\ row \in Context /\ cache \in Context \cup {None}
    /\ summary \in Nat /\ used \in Nat /\ sent \in Seq(Turns)
    /\ at \in [Actors -> Places]
    /\ turn \in [Turns -> [round: 0 .. MaxRounds, calls: SUBSET Tools, asked: BOOLEAN,
                           reply: Replies \cup {Trouble, None}, context: Context,
                           count: Nat, handed: BOOLEAN, outcome: Outcomes]]
    /\ held \in [Actors -> Context \cup {None}]
    /\ met \in [Actors -> SUBSET Actors]

Undisturbed(t) == met[t] = {} /\ turn[t].outcome # "lost"

(* AiContextService: the cache says what the row says, but while the turn  *)
(* that wrote the row is about to cache it, or if it was cut short there   *)
(* or met somebody who had read the row before.                            *)
CacheIsCurrent ==
    cache \in Context /\ cache # row =>
        row.by \in Turns /\ (at[row.by] = "cache" \/ ~Undisturbed(row.by))

(* A customer who is told the same thing over and over gets a human: after *)
(* Threshold repetitions in a row, by turns one after the other, the last  *)
(* of them has handed the thread over.                                     *)
LoopIsBroken ==
    Len(sent) > Threshold =>
        LET latest == {sent[i] : i \in Len(sent) - Threshold .. Len(sent)}
        IN  /\ \A t, o \in latest : turn[t].reply = turn[o].reply
            /\ \A t \in latest : at[t] = "done" /\ Undisturbed(t)
            => turn[sent[Len(sent)]].handed \/ turn[sent[Len(sent)]].asked

(* What the AI remembers of a conversation is right, whatever is evicted.  *)
MemoryIsSound == CacheIsCurrent /\ LoopIsBroken

(* The plan's messages are exceeded only by turns that were counted at the *)
(* same time.                                                              *)
QuotaKept == used > Limit => \E t \in Turns : met[t] \cap Turns # {}

(* A turn that comes to its end, whatever its tools did, leaves a reply on *)
(* its way or a human in charge.                                           *)
NobodyLeftAlone ==
    \A t \in Turns :
        turn[t].outcome \in {"answered", "handedOver"} =>
            turn[t].handed \/ \E i \in DOMAIN sent : sent[i] = t

(* What a turn costs is within the plan, and it is worth it. *)
TurnsAreSafe == QuotaKept /\ NobodyLeftAlone
=============================================================================
