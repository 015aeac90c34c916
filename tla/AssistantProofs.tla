---------------------------- MODULE AssistantProofs ----------------------------
(***************************************************************************)
(* Assistant for any number of turns, workers and looks at the panel: the  *)
(* type invariant and both invariants of the run.                          *)
(*                                                                         *)
(* A turn that met nobody was alone from its beginning to its end: MetInv  *)
(* says so, and SentInv that replies are sent in the order of such turns.  *)
(***************************************************************************)
EXTENDS Assistant, TLAPS

Local == [round: 0 .. MaxRounds, calls: SUBSET Tools, asked: BOOLEAN,
          reply: Replies \cup {Trouble, None}, context: Context,
          count: Nat, handed: BOOLEAN, outcome: Outcomes]

Begun == {"idle", "quota", "count", "settings", "context", "fill"}
After == {"again", "refill", "save", "cache", "repeated", "summary"}

(* What a turn has in its local variables at each statement. *)
Placed(t) ==
    /\ at[t] # "view"
    /\ turn[t].outcome # None => at[t] = "done"
    /\ at[t] \in Begun => turn[t].round = 0
    /\ at[t] \in {"complete", "tool"} => turn[t].round < MaxRounds
    /\ at[t] \in After \cup {"send"} => turn[t].reply \in Replies \cup {Trouble}
    /\ at[t] = "summary" => turn[t].asked

TypeInv == TypeOK /\ \A t \in Turns : Placed(t)

-----------------------------------------------------------------------------
(* The steps *)

Others(o) ==
    /\ \A p \in Actors \ {o} : at'[p] = at[p] /\ held'[p] = held[p]
    /\ \A t \in Turns \ {o} : turn'[t] = turn[t]

(* A turn, or a look at the panel, begins. *)
Begins(o) ==
    /\ at[o] = "idle" /\ at'[o] \in {"quota", "view"}
    /\ Others(o)
    /\ held'[o] \in {held[o], row} /\ (at'[o] = "view" => held'[o] = row)
    /\ met' = [p \in Actors |-> CASE p = o -> Busy
                                  [] p \in Busy -> met[p] \cup {o}
                                  [] OTHER -> met[p]]
    /\ UNCHANGED <<world, row, cache, turn>>

(* A statement of one that is under way. *)
Works(o) ==
    /\ at[o] \notin {"idle", "done"} /\ at'[o] # "idle"
    /\ Others(o)
    /\ UNCHANGED met

Statement(t) == Step(t) \/ Fail(t)

(* A step of the customer's, the staff's or Stripe's. *)
Outside ==
    /\ UNCHANGED <<at, turn, held, met, row, sent, summary>>
    /\ cache' \in {cache, None} /\ used' \in {used, 0}
    /\ status' \in {"OPEN", "ESCALATED"} /\ enabled' \in BOOLEAN

LEMMA StepCases ==
    ASSUME TypeInv, [Next]_vars
    PROVE  \/ \E t \in Turns : Begin(t) \/ Statement(t)
           \/ \E v \in Viewers : OpenPanel(v) \/ FillPanel(v)
           \/ Outside
<1> USE DEF TypeInv, TypeOK, memory, world
<1>1. CASE Evict \/ SetEnabled \/ ResetPeriodUsage
  BY <1>1 DEF Evict, SetEnabled, ResetPeriodUsage, Outside
<1>2. ASSUME NEW s \in {"OPEN", "ESCALATED"}, UpdateStatus(s) PROVE Outside
  BY <1>2 DEF UpdateStatus, Outside
<1>3. CASE UNCHANGED vars
  BY <1>3 DEF vars, Outside
<1> QED BY <1>1, <1>2, <1>3 DEF Next, Statement

LEMMA BeginMoves ==
    ASSUME TypeInv, NEW t \in Turns, Begin(t)
    PROVE  Begins(t) /\ at'[t] = "quota" /\ at' \in [Actors -> Places]
           /\ held' = held
BY DEF TypeInv, TypeOK, Begin, Begins, Others, Goto, Meets, Places, Actors, memory, world

LEMMA PanelOpens ==
    ASSUME TypeInv, NEW v \in Viewers, OpenPanel(v)
    PROVE  Begins(v) /\ at'[v] = "view" /\ at' \in [Actors -> Places]
           /\ held' \in [Actors -> Context \cup {None}]
BY AssistantAssumption
   DEF TypeInv, TypeOK, OpenPanel, Begins, Others, Goto, Meets, Places, Actors, world

LEMMA PanelFills ==
    ASSUME TypeInv, NEW v \in Viewers, FillPanel(v)
    PROVE  /\ Works(v) /\ at[v] = "view" /\ at'[v] = "done" /\ at' \in [Actors -> Places]
           /\ cache' = held[v] /\ held' \in [Actors -> Context \cup {None}]
           /\ UNCHANGED <<row, world, turn>>
BY AssistantAssumption
   DEF TypeInv, TypeOK, FillPanel, Works, Others, Goto, Places, Actors, world

(* The end of a turn. *)
LEMMA EndMoves ==
    ASSUME TypeOK, NEW t \in Turns, NEW o \in Outcomes, End(t, o)
    PROVE  /\ turn' \in [Turns -> Local] /\ at' \in [Actors -> Places]
           /\ at'[t] = "done" /\ \A p \in Actors \ {t} : at'[p] = at[p]
           /\ \A p \in Turns \ {t} : turn'[p] = turn[p]
           /\ turn'[t].outcome = o /\ turn'[t].handed = turn[t].handed
           /\ turn'[t].asked = turn[t].asked /\ turn'[t].reply = turn[t].reply
<1>1. turn[t] \in Local
  BY DEF TypeOK, Local
<1>2. turn'[t] = [Fresh EXCEPT !.reply = turn[t].reply, !.asked = turn[t].asked,
                               !.handed = turn[t].handed, !.outcome = o]
  BY DEF End, TypeOK
<1>3. Fresh \in Local
  BY AssistantAssumption DEF Fresh, Local, Context, Outcomes, Endings
<1>4. turn'[t] \in Local
  BY <1>1, <1>2, <1>3 DEF Local
<1>5. turn'[t].outcome = o /\ turn'[t].handed = turn[t].handed
      /\ turn'[t].asked = turn[t].asked /\ turn'[t].reply = turn[t].reply
  BY <1>1, <1>2, <1>3 DEF Local, Fresh
<1> QED BY <1>4, <1>5 DEF End, Goto, TypeOK, Local, Places, Actors

Typed ==
    /\ at' \in [Actors -> Places] /\ turn' \in [Turns -> Local]
    /\ held' \in [Actors -> Context \cup {None}]
    /\ row' \in Context /\ cache' \in Context \cup {None}
    /\ used' \in Nat /\ summary' \in Nat /\ sent' \in Seq(Turns)
    /\ status' \in {"OPEN", "ESCALATED"} /\ UNCHANGED enabled

Dispatches(t, tool, works) ==
    LET rest == turn[t].calls \ {tool}
        over == rest = {} /\ turn[t].round + 1 = MaxRounds
    IN  /\ at[t] = "tool"
        /\ turn' = [turn EXCEPT ![t].calls = rest, ![t].asked = @ \/ tool = Escalating,
                                ![t].round = @ + (IF rest = {} THEN 1 ELSE 0),
                                ![t].reply = IF over THEN Trouble ELSE @,
                                ![t].handed = @ \/ (tool = Escalating /\ works)]
        /\ Goto(t, CASE over -> "send" [] rest = {} /\ ~over -> "complete" [] OTHER -> "tool")
        /\ status' \in Executed(tool, works)
        /\ UNCHANGED <<memory, enabled, summary, used, sent, met>>

LEMMA DispatchMoves ==
    ASSUME NEW t \in Turns, DispatchTool(t)
    PROVE  \E tool \in turn[t].calls, works \in BOOLEAN : Dispatches(t, tool, works)
BY DEF DispatchTool, Dispatches, memory

LEMMA StatementMoves ==
    ASSUME TypeInv, NEW t \in Turns, Statement(t)
    PROVE  Works(t) /\ Typed /\ Placed(t)'
<1> USE AssistantAssumption DEF TypeInv, TypeOK, memory, world
<1>0. Placed(t) /\ turn[t] \in Local /\ t \in Actors /\ turn \in [Turns -> Local]
  BY DEF Local, Actors
<1>1. CASE CheckQuota(t)
  <2>1. CASE used >= Limit
    BY <1>0, <1>1, <2>1, EndMoves
       DEF CheckQuota, Works, Others, Typed, Placed, Outcomes, Endings, Begun, After
  <2>2. CASE ~(used >= Limit)
    BY <1>0, <1>1, <2>2 DEF CheckQuota, Works, Others, Typed, Placed, Goto, Begun, After, Places
  <2> QED BY <2>1, <2>2
<1>2. CASE CountMessage(t) \/ ReadSettings(t)
  <2>1. CASE CountMessage(t)
    BY <1>0, <2>1 DEF CountMessage, Works, Others, Typed, Placed, Goto, Begun, After, Places
  <2>2. CASE ReadSettings(t)
    <3>1. /\ at[t] = "settings" /\ at'[t] \in {"context", "disabled"}
          /\ at' \in [Actors -> Places] /\ \A p \in Actors \ {t} : at'[p] = at[p]
      BY <1>0, <2>2 DEF ReadSettings, Goto, Places
    <3>2. Placed(t)'
      BY <1>0, <2>2, <3>1 DEF ReadSettings, Placed, Begun, After
    <3> QED BY <1>0, <2>2, <3>1, <3>2 DEF ReadSettings, Works, Others, Typed
  <2> QED BY <1>2, <2>1, <2>2
<1>3. CASE GetContext(t)
  <2>1. PICK c \in Context : c = IF cache # None THEN cache ELSE row
    OBVIOUS
  <2>2. CASE at[t] = "context"
    <3>1. turn'[t] = [turn[t] EXCEPT !.context = c] /\ \A p \in Turns \ {t} : turn'[p] = turn[p]
      BY <1>3, <2>1, <2>2 DEF GetContext
    <3>2. /\ turn'[t] \in Local /\ turn'[t].round = turn[t].round
          /\ turn'[t].outcome = turn[t].outcome /\ turn'[t].reply = turn[t].reply
          /\ turn'[t].asked = turn[t].asked
      BY <1>0, <3>1 DEF Local
    <3>3. turn' \in [Turns -> Local]
      BY <1>0, <1>3, <2>1, <2>2, <3>2 DEF GetContext
    <3>4. at'[t] \in {"fill", "complete"}
      BY <1>0, <1>3, <2>2 DEF GetContext, Goto
    <3>5. 0 < MaxRounds
      OBVIOUS
    <3>6. Placed(t)'
      BY <1>0, <2>2, <3>2, <3>4, <3>5 DEF Placed, Begun, After
    <3>7. /\ held' \in [Actors -> Context \cup {None}]
          /\ \A p \in Actors \ {t} : at'[p] = at[p] /\ held'[p] = held[p]
          /\ at' \in [Actors -> Places]
      <4>1. CASE cache # None
        BY <1>0, <1>3, <2>2, <4>1 DEF GetContext, Goto, Places
      <4>2. CASE cache = None
        BY <1>0, <1>3, <2>2, <4>2, ZenonT(30) DEF GetContext, Goto, Places
      <4> QED BY <4>1, <4>2
    <3> QED BY <1>3, <2>2, <3>1, <3>3, <3>4, <3>6, <3>7 DEF GetContext, Works, Others, Typed
  <2>3. CASE at[t] = "again"
    <3>1. /\ held' \in [Actors -> Context \cup {None}]
          /\ \A p \in Actors \ {t} : at'[p] = at[p] /\ held'[p] = held[p]
          /\ at' \in [Actors -> Places] /\ at'[t] \in {"save", "refill"}
      <4>1. CASE cache # None
        BY <1>0, <1>3, <2>3, <4>1 DEF GetContext, Goto, Places
      <4>2. CASE cache = None
        BY <1>0, <1>3, <2>3, <4>2, ZenonT(30) DEF GetContext, Goto, Places
      <4> QED BY <4>1, <4>2
    <3>2. turn' = turn
      BY <1>3, <2>3 DEF GetContext
    <3>3. Placed(t)'
      BY <1>0, <2>3, <3>1, <3>2 DEF Placed, Begun, After
    <3> QED BY <1>0, <1>3, <2>3, <3>1, <3>2, <3>3 DEF GetContext, Works, Others, Typed
  <2> QED BY <1>3, <2>2, <2>3 DEF GetContext
<1>4. CASE FillCache(t)
  BY <1>0, <1>4 DEF FillCache, Works, Others, Typed, Placed, Goto, Begun, After, Places
<1>5. CASE Complete(t)
  <2>1. ASSUME NEW says \in Replies, turn' = [turn EXCEPT ![t].reply = says], Goto(t, "send")
        PROVE  Works(t) /\ Typed /\ Placed(t)'
    <3>1. turn'[t] = [turn[t] EXCEPT !.reply = says]
      BY <2>1
    <3>2. turn'[t] \in Local
      BY <1>0, <3>1 DEF Local
    <3>3. turn'[t].reply = says /\ turn'[t].outcome = turn[t].outcome
      BY <1>0, <3>1 DEF Local
    <3>4. turn' \in [Turns -> Local]
      BY <1>0, <2>1, <3>1, <3>2
    <3> QED BY <1>0, <1>5, <2>1, <3>2, <3>3, <3>4
            DEF Complete, Works, Others, Typed, Placed, Goto, Begun, After, Places
  <2>2. ASSUME NEW calls \in SUBSET Tools, turn' = [turn EXCEPT ![t].calls = calls],
               Goto(t, "tool")
        PROVE  Works(t) /\ Typed /\ Placed(t)'
    <3>1. turn'[t] = [turn[t] EXCEPT !.calls = calls]
      BY <2>2
    <3>2. /\ turn'[t] \in Local /\ turn'[t].round = turn[t].round
          /\ turn'[t].outcome = turn[t].outcome /\ turn' \in [Turns -> Local]
      BY <1>0, <2>2, <3>1 DEF Local
    <3> QED BY <1>0, <1>5, <2>2, <3>2
            DEF Complete, Works, Others, Typed, Placed, Goto, Begun, After, Places
  <2>3. CASE Goto(t, "down") /\ UNCHANGED turn
    BY <1>0, <1>5, <2>3 DEF Complete, Works, Others, Typed, Placed, Goto, Begun, After, Places
  <2> QED BY <1>5, <2>1, <2>2, <2>3 DEF Complete
<1>6. CASE DispatchTool(t)
  <2>1. PICK tool \in turn[t].calls, works \in BOOLEAN : Dispatches(t, tool, works)
    BY <1>6, DispatchMoves
  <2> DEFINE rest == turn[t].calls \ {tool}
             over == rest = {} /\ turn[t].round + 1 = MaxRounds
  <2>2. turn'[t] = [turn[t] EXCEPT !.calls = rest, !.asked = @ \/ tool = Escalating,
                                   !.round = @ + (IF rest = {} THEN 1 ELSE 0),
                                   !.reply = IF over THEN Trouble ELSE @,
                                   !.handed = @ \/ (tool = Escalating /\ works)]
    BY <2>1 DEF Dispatches
  <2>3. turn[t].round < MaxRounds
    BY <1>0, <2>1 DEF Dispatches, Placed
  <2>4. turn[t].round + (IF rest = {} THEN 1 ELSE 0) \in 0 .. MaxRounds
    BY <1>0, <2>3 DEF Local
  <2>5. PICK asked \in BOOLEAN, handed \in BOOLEAN, round \in 0 .. MaxRounds,
             reply \in Replies \cup {Trouble, None} :
            turn'[t] = [turn[t] EXCEPT !.calls = rest, !.asked = asked, !.round = round,
                                       !.reply = reply, !.handed = handed]
    <3>1. turn[t].reply \in Replies \cup {Trouble, None}
      BY <1>0 DEF Local
    <3> QED BY <2>2, <2>4, <3>1, ZenonT(30)
  <2>6. turn'[t] \in Local
    <3>1. rest \in SUBSET Tools
      BY <1>0 DEF Local
    <3> QED BY <1>0, <2>5, <3>1 DEF Local
  <2>7. /\ turn'[t].round = turn[t].round + (IF rest = {} THEN 1 ELSE 0)
        /\ turn'[t].reply = (IF over THEN Trouble ELSE turn[t].reply)
        /\ turn'[t].outcome = turn[t].outcome
    BY <1>0, <2>2 DEF Local
  <2>8. \A p \in Turns \ {t} : turn'[p] = turn[p]
    BY <2>1 DEF Dispatches
  <2>9. /\ over => at'[t] = "send"
        /\ ~over /\ rest = {} => at'[t] = "complete"
        /\ rest # {} => at'[t] = "tool"
    <3>1. at'[t] = CASE over -> "send" [] rest = {} /\ ~over -> "complete" [] OTHER -> "tool"
      BY <1>0, <2>1 DEF Dispatches, Goto
    <3>2. over => rest = {}
      OBVIOUS
    <3> HIDE DEF rest, over
    <3> QED BY <3>1, <3>2
  <2>10. Placed(t)'
    <3>1. turn[t].outcome = None
      BY <1>0, <2>1 DEF Dispatches, Placed
    <3>2. ~over /\ rest = {} => turn'[t].round < MaxRounds
      BY <1>0, <2>3, <2>7 DEF Local
    <3>3. rest # {} => turn'[t].round < MaxRounds
      BY <1>0, <2>3, <2>7 DEF Local
    <3> HIDE DEF rest, over
    <3>4. CASE over
      BY <2>7, <2>9, <3>1, <3>4 DEF Placed, Begun, After
    <3>5. CASE ~over /\ rest = {}
      BY <2>7, <2>9, <3>1, <3>2, <3>5 DEF Placed, Begun, After
    <3>6. CASE rest # {}
      BY <2>7, <2>9, <3>1, <3>3, <3>6 DEF Placed, Begun, After
    <3> QED BY <3>4, <3>5, <3>6
  <2>11. Works(t)
    BY <1>0, <2>1, <2>8, <2>9 DEF Dispatches, Works, Others, Goto
  <2>12. turn' \in [Turns -> Local]
    <3>1. DOMAIN turn' = Turns /\ turn' = [p \in Turns |-> turn'[p]]
      BY <2>1 DEF Dispatches
    <3> QED BY <1>0, <2>6, <2>8, <3>1
  <2>13. Typed
    BY <1>0, <2>1, <2>9, <2>12 DEF Dispatches, Typed, Goto, Executed, Places
  <2> QED BY <2>10, <2>11, <2>13
<1>7. CASE SendReply(t)
  <2>1. CASE sent' = Append(sent, t) /\ Goto(t, "again") /\ UNCHANGED turn
    BY <1>0, <1>7, <2>1 DEF SendReply, Works, Others, Typed, Placed, Goto, Begun, After, Places
  <2>2. CASE End(t, "lost") /\ UNCHANGED sent
    BY <1>0, <1>7, <2>2, EndMoves
       DEF SendReply, Works, Others, Typed, Placed, Outcomes, Endings, Begun, After
  <2> QED BY <1>7, <2>1, <2>2 DEF SendReply
<1>8. CASE SaveContext(t)
  <2>1. PICK count, saved :
            /\ count = IF turn[t].context.reply = turn[t].reply
                       THEN turn[t].context.count + 1 ELSE 0
            /\ saved = [reply |-> turn[t].reply, count |-> count, by |-> t]
            /\ at[t] = "save" /\ row' = saved /\ held' = [held EXCEPT ![t] = saved]
            /\ turn' = [turn EXCEPT ![t].count = count]
    BY <1>8 DEF SaveContext
  <2>2. count \in Nat
    BY <1>0, <2>1 DEF Local, Context, Blank
  <2>3. saved \in Context
    BY <1>0, <2>1, <2>2 DEF Placed, Context, After
  <2>4. turn'[t] = [turn[t] EXCEPT !.count = count] /\ \A p \in Turns \ {t} : turn'[p] = turn[p]
    BY <2>1
  <2>5. /\ turn'[t] \in Local /\ turn'[t].reply = turn[t].reply
        /\ turn'[t].outcome = turn[t].outcome /\ turn' \in [Turns -> Local]
    BY <1>0, <2>1, <2>2, <2>4 DEF Local
  <2>6. at'[t] = "cache"
    BY <1>0, <1>8 DEF SaveContext, Goto
  <2>7. Placed(t)'
    BY <1>0, <2>1, <2>5, <2>6 DEF Placed, Begun, After
  <2> QED BY <1>0, <1>8, <2>1, <2>3, <2>4, <2>5, <2>7 DEF SaveContext, Works, Others, Typed, Goto, Places
<1>9. CASE CacheSaved(t)
  <2>1. CASE AfterReply(t) = "done"
    BY <1>0, <1>9, <2>1, EndMoves
       DEF CacheSaved, Works, Others, Typed, Placed, Outcomes, Endings, Begun, After
  <2>2. CASE AfterReply(t) # "done"
    <3>1. AfterReply(t) \in {"summary", "repeated"} /\ (AfterReply(t) = "summary" => turn[t].asked)
      BY <2>2 DEF AfterReply
    <3>2. at' = [at EXCEPT ![t] = AfterReply(t)] /\ turn' = turn
      BY <1>9, <2>2 DEF CacheSaved, Goto
    <3>3. Placed(t)'
      BY <1>0, <1>9, <3>1, <3>2 DEF CacheSaved, Placed, Begun, After
    <3> QED BY <1>0, <1>9, <3>1, <3>2, <3>3 DEF CacheSaved, Works, Others, Typed, Places
  <2> QED BY <2>1, <2>2
<1>10. CASE Escalate(t)
  <2>1. PICK outcome \in {"lost", "answered", "handedOver"} :
            turn' = [turn EXCEPT ![t] = [Fresh EXCEPT
                         !.reply = turn[t].reply, !.asked = turn[t].asked, !.handed = TRUE,
                         !.outcome = outcome]]
    BY <1>10 DEF Escalate
  <2>2. Fresh \in Local
    BY DEF Fresh, Local, Context, Outcomes, Endings
  <2>3. turn'[t] \in Local
    BY <1>0, <2>1, <2>2 DEF Local, Outcomes, Endings
  <2>4. turn' \in [Turns -> Local] /\ \A p \in Turns \ {t} : turn'[p] = turn[p]
    BY <1>0, <2>1, <2>3
  <2>5. at'[t] = "done"
    BY <1>0, <1>10 DEF Escalate, Goto
  <2> QED BY <1>0, <1>10, <2>4, <2>5
          DEF Escalate, Works, Others, Typed, Placed, Goto, Begun, After, Places
<1>11. CASE Summarise(t)
  BY <1>0, <1>11, EndMoves DEF Summarise, Works, Others, Typed, Placed, Outcomes, Endings, Begun, After
<1>12. CASE Fail(t)
  BY <1>0, <1>12, EndMoves DEF Fail, Busy, Works, Others, Typed, Placed, Outcomes, Endings, Begun, After
<1> QED
  BY <1>1, <1>2, <1>3, <1>4, <1>5, <1>6, <1>7, <1>8, <1>9, <1>10, <1>11, <1>12
     DEF Statement, Step

LEMMA TypeStep == TypeInv /\ [Next]_vars => TypeInv'
<1> SUFFICES ASSUME TypeInv, [Next]_vars PROVE TypeInv'
  OBVIOUS
<1> USE AssistantAssumption DEF TypeInv
<1>1. ASSUME NEW o \in Actors, Begins(o)
      PROVE  met' \in [Actors -> SUBSET Actors]
  BY <1>1 DEF Begins, TypeOK, Busy
<1>2. ASSUME NEW t \in Turns, Begin(t) PROVE TypeInv'
  <2>1. Begins(t) /\ at'[t] = "quota" /\ at' \in [Actors -> Places] /\ held' = held
    BY <1>2, BeginMoves
  <2>2. met' \in [Actors -> SUBSET Actors]
    BY <1>1, <2>1 DEF Actors
  <2>3. \A p \in Turns : Placed(p)'
    BY <2>1 DEF Begins, Others, Placed, TypeOK, Begun, After, Actors
  <2> QED BY <2>1, <2>2, <2>3 DEF Begins, TypeOK, world
<1>3. ASSUME NEW v \in Viewers, OpenPanel(v) PROVE TypeInv'
  <2>1. /\ Begins(v) /\ at' \in [Actors -> Places] /\ held' \in [Actors -> Context \cup {None}]
        /\ v \in Actors /\ v \notin Turns
    BY <1>3, PanelOpens DEF Actors
  <2>2. met' \in [Actors -> SUBSET Actors]
    BY <1>1, <2>1
  <2>3. \A p \in Turns : Placed(p)'
    BY <2>1 DEF Begins, Others, Placed, TypeOK, Begun, After, Actors
  <2> QED BY <2>1, <2>2, <2>3 DEF Begins, TypeOK, world
<1>4. ASSUME NEW v \in Viewers, FillPanel(v) PROVE TypeInv'
  <2>1. /\ Works(v) /\ at' \in [Actors -> Places] /\ held' \in [Actors -> Context \cup {None}]
        /\ v \notin Turns /\ v \in Actors /\ cache' = held[v] /\ UNCHANGED <<row, world, turn>>
    BY <1>4, PanelFills DEF Actors
  <2>2. \A p \in Turns : Placed(p)'
    BY <2>1 DEF Works, Others, Placed, TypeOK, Begun, After, Actors
  <2> QED BY <2>1, <2>2 DEF Works, TypeOK, world
<1>5. ASSUME NEW t \in Turns, Statement(t) PROVE TypeInv'
  <2>1. Works(t) /\ Typed /\ Placed(t)'
    BY <1>5, StatementMoves
  <2>2. \A p \in Turns : Placed(p)'
    BY <2>1 DEF Works, Others, Placed, Actors
  <2> QED BY <2>1, <2>2 DEF Works, Typed, TypeOK, Local
<1>6. CASE Outside
  BY <1>6 DEF Outside, TypeOK, Placed
<1> QED BY <1>2, <1>3, <1>4, <1>5, <1>6, StepCases

LEMMA TypeInit == Init => TypeInv
<1> SUFFICES ASSUME Init PROVE TypeInv
  OBVIOUS
<1>1. Fresh \in Local
  BY AssistantAssumption DEF Fresh, Local, Context, Outcomes, Endings
<1> QED BY <1>1, AssistantAssumption
        DEF Init, TypeInv, TypeOK, Placed, Local, Fresh, Context, Places, Actors, Begun, After

(* Every variable of Assistant keeps its type; a turn never runs more than *)
(* MaxRounds rounds, and has a reply when it comes to send one.            *)
THEOREM AssistantTypeCorrect == Spec => []TypeOK
<1>1. Spec => []TypeInv
  BY TypeInit, TypeStep, PTL DEF Spec
<1>2. TypeInv => TypeOK
  BY DEF TypeInv
<1> QED BY <1>1, <1>2, PTL

-----------------------------------------------------------------------------
(* Who met whom *)

Started(o) == at[o] # "idle"

(* Who has met is mutual, and of two that have not met one was done before *)
(* the other began.                                                        *)
MetSound ==
    /\ \A o, p \in Actors : p \in met[o] => o \in met[p] /\ Started(p)
    /\ \A o, p \in Actors :
           o # p /\ Started(o) /\ Started(p) /\ p \notin met[o] =>
               at[o] = "done" \/ at[p] = "done"

MetInv == TypeInv /\ MetSound

(* Every step is somebody's beginning, a statement of theirs, or none. *)
LEMMA ActorSteps ==
    ASSUME TypeInv, [Next]_vars
    PROVE  Outside \/ \E o \in Actors : Begins(o) \/ Works(o)
BY StepCases, BeginMoves, PanelOpens, PanelFills, StatementMoves DEF Actors

LEMMA MeetingsLast ==
    ASSUME TypeInv, MetSound, [Next]_vars, NEW p \in Actors
    PROVE  met[p] \subseteq met'[p]
<1> USE DEF TypeInv, TypeOK
<1>1. ASSUME NEW o \in Actors, Begins(o) PROVE met[p] \subseteq met'[p]
  <2>1. CASE p = o
    BY <1>1, <2>1 DEF Begins, MetSound, Started
  <2>2. CASE p # o
    BY <1>1, <2>2 DEF Begins
  <2> QED BY <2>1, <2>2
<1> QED BY <1>1, ActorSteps DEF Works, Outside

(* What is done stays as it is. *)
LEMMA DoneStays ==
    ASSUME TypeInv, [Next]_vars, NEW p \in Actors, at[p] = "done"
    PROVE  at'[p] = "done" /\ met'[p] = met[p] /\ (p \in Turns => turn'[p] = turn[p])
<1> USE DEF TypeInv, TypeOK
<1>1. ASSUME NEW o \in Actors, Begins(o)
      PROVE at'[p] = "done" /\ met'[p] = met[p] /\ (p \in Turns => turn'[p] = turn[p])
  BY <1>1 DEF Begins, Others, Busy
<1>2. ASSUME NEW o \in Actors, Works(o)
      PROVE at'[p] = "done" /\ met'[p] = met[p] /\ (p \in Turns => turn'[p] = turn[p])
  BY <1>2 DEF Works, Others
<1> QED BY <1>1, <1>2, ActorSteps DEF Outside

LEMMA MetStep == MetInv /\ [Next]_vars => MetInv'
<1> SUFFICES ASSUME MetInv, [Next]_vars PROVE MetSound'
  BY TypeStep DEF MetInv
<1> USE DEF MetInv, TypeInv, TypeOK, Started
<1>1. ASSUME NEW o \in Actors, Begins(o) PROVE MetSound'
  <2>2. at'[o] \in {"quota", "view"} /\ at[o] = "idle" /\ \A p \in Actors \ {o} : at'[p] = at[p]
    BY <1>1 DEF Begins, Others
  <2>3. met'[o] = Busy /\ o \notin Busy
    BY <1>1 DEF Begins, Busy
  <2>4. ASSUME NEW p \in Actors \ {o}
        PROVE  /\ p \in Busy => met'[p] = met[p] \cup {o}
               /\ p \notin Busy => met'[p] = met[p]
               /\ o \notin met[p]
    BY <1>1 DEF Begins, MetSound
  <2>5. ASSUME NEW q \in Actors, NEW p \in Actors, p \in met'[q]
        PROVE  q \in met'[p] /\ at'[p] # "idle"
    <3>1. CASE q = o
      BY <2>2, <2>3, <2>4, <2>5, <3>1 DEF Busy
    <3>2. CASE q # o /\ p = o
      BY <2>2, <2>3, <2>4, <2>5, <3>2
    <3>3. CASE q # o /\ p # o
      <4>1. p \in met[q]
        BY <2>4, <2>5, <3>3
      <4>2. q \in met[p] /\ at[p] # "idle"
        BY <4>1 DEF MetSound
      <4> QED BY <2>2, <2>4, <3>3, <4>2
    <3> QED BY <3>1, <3>2, <3>3
  <2>6. ASSUME NEW q \in Actors, NEW p \in Actors, q # p, at'[q] # "idle", at'[p] # "idle",
               p \notin met'[q]
        PROVE  at'[q] = "done" \/ at'[p] = "done"
    <3>1. CASE q = o
      BY <2>2, <2>3, <2>6, <3>1 DEF Busy
    <3>2. CASE p = o
      BY <2>2, <2>4, <2>6, <3>2 DEF Busy
    <3>3. CASE q # o /\ p # o
      <4>1. p \notin met[q] /\ at'[q] = at[q] /\ at'[p] = at[p]
        BY <2>2, <2>4, <2>6, <3>3
      <4> QED BY <2>6, <4>1 DEF MetSound
    <3> QED BY <3>1, <3>2, <3>3
  <2> QED BY <2>5, <2>6 DEF MetSound
<1>2. ASSUME NEW o \in Actors, Works(o) PROVE MetSound'
  BY <1>2 DEF Works, Others, MetSound
<1>3. CASE Outside
  BY <1>3 DEF Outside, MetSound
<1> QED BY <1>1, <1>2, <1>3, ActorSteps

LEMMA MetInit == Init => MetInv
BY TypeInit DEF Init, MetInv, MetSound, Started

(* Two that are under way have met. *)
LEMMA BusyMeet ==
    ASSUME MetInv, NEW o \in Busy, NEW p \in Busy, o # p
    PROVE  o \in met[p] /\ p \in met[o]
BY DEF MetInv, MetSound, Started, Busy

-----------------------------------------------------------------------------
(* What a statement of a turn does to the reply, the quota and the outcome *)

(* The turns that have sent are those past that statement. *)
Sent(t) == \E i \in DOMAIN sent : sent[i] = t

SendMoves(t) ==
    \/ at[t] = "send" /\ at'[t] = "again" /\ sent' = Append(sent, t) /\ turn' = turn
    \/ /\ sent' = sent
       /\ at[t] \in After => at'[t] \in After \cup {"done"}
       /\ at'[t] \in After => at[t] \in After

QuotaMoves(t) ==
    /\ at'[t] = "count" => used < Limit
    /\ used' = used \/ (at[t] = "count" /\ used' = used + 1)

Ending(t) ==
    turn'[t].outcome \in {"answered", "handedOver"} =>
        /\ at'[t] = "done"
        /\ turn'[t].handed \/ at[t] \in {"cache", "repeated", "summary"}

LEMMA StatementEffects ==
    ASSUME TypeInv, NEW t \in Turns, Statement(t)
    PROVE  SendMoves(t) /\ QuotaMoves(t) /\ Ending(t)
<1> USE AssistantAssumption
    DEF TypeInv, TypeOK, memory, world, SendMoves, QuotaMoves, Ending, Endings
<1>0. Placed(t) /\ turn[t] \in Local /\ t \in Actors /\ turn \in [Turns -> Local]
  BY DEF Local, Actors
<1>1. CASE CheckQuota(t)
  <2>1. CASE used >= Limit
    BY <1>0, <1>1, <2>1, EndMoves DEF CheckQuota, Outcomes, After
  <2>2. CASE ~(used >= Limit)
    BY <1>0, <1>1, <2>2 DEF CheckQuota, Placed, Goto, After
  <2> QED BY <2>1, <2>2
<1>2. CASE CountMessage(t) \/ ReadSettings(t)
  BY <1>0, <1>2 DEF CountMessage, ReadSettings, Placed, Goto, After
<1>3. CASE GetContext(t)
  <2>1. /\ \/ at'[t] \in {"fill", "complete"} /\ at[t] = "context"
           \/ at'[t] \in {"save", "refill"} /\ at[t] = "again"
        /\ sent' = sent /\ used' = used
    <3>1. PICK place : /\ at' = [at EXCEPT ![t] = place]
                       /\ \/ at[t] = "context" /\ place \in {"fill", "complete"}
                          \/ at[t] = "again" /\ place \in {"save", "refill"}
      BY <1>3 DEF GetContext, Goto
    <3>2. at'[t] = place
      BY <1>0, <3>1
    <3> QED BY <1>3, <3>1, <3>2 DEF GetContext
  <2>2. Placed(t)'
    BY <1>3, StatementMoves DEF Statement, Step
  <2>3. SendMoves(t) /\ QuotaMoves(t)
    BY <2>1 DEF After
  <2>4. at'[t] # "done"
    BY <2>1
  <2> QED BY <2>2, <2>3, <2>4 DEF Placed
<1>4. CASE FillCache(t) \/ Complete(t) \/ DispatchTool(t) \/ SaveContext(t)
  <2>1. /\ \/ at'[t] \notin After \cup {"done", "count"} /\ at[t] \notin After
           \/ at'[t] \in After /\ at[t] \in After
        /\ sent' = sent /\ used' = used
    <3>1. CASE FillCache(t)
      BY <1>0, <3>1 DEF FillCache, Goto, After
    <3>2. CASE Complete(t)
      BY <1>0, <3>2 DEF Complete, Goto, After
    <3>3. CASE DispatchTool(t)
      <4>1. at[t] = "tool" /\ at'[t] \in {"send", "complete", "tool"} /\ sent' = sent /\ used' = used
        <5>1. PICK place : at' = [at EXCEPT ![t] = place] /\ place \in {"send", "complete", "tool"}
          BY <3>3 DEF DispatchTool, Goto
        <5>2. at'[t] = place
          BY <1>0, <5>1
        <5> QED BY <3>3, <5>1, <5>2 DEF DispatchTool
      <4> QED BY <4>1 DEF After
    <3>4. CASE SaveContext(t)
      BY <1>0, <3>4 DEF SaveContext, Goto, After
    <3> QED BY <1>4, <3>1, <3>2, <3>3, <3>4
  <2>2. Placed(t)'
    BY <1>4, StatementMoves DEF Statement, Step
  <2>3. SendMoves(t) /\ QuotaMoves(t) /\ at'[t] # "done"
    BY <2>1 DEF After
  <2> QED BY <2>2, <2>3 DEF Placed
<1>5. CASE SendReply(t)
  <2>1. CASE sent' = Append(sent, t) /\ Goto(t, "again") /\ UNCHANGED turn
    BY <1>0, <1>5, <2>1 DEF SendReply, Placed, Goto, After
  <2>2. CASE End(t, "lost") /\ UNCHANGED sent
    BY <1>0, <1>5, <2>2, EndMoves DEF SendReply, Outcomes, After
  <2> QED BY <1>5, <2>1, <2>2 DEF SendReply
<1>6. CASE CacheSaved(t)
  <2>1. CASE AfterReply(t) = "done"
    BY <1>0, <1>6, <2>1, EndMoves DEF CacheSaved, Outcomes, After
  <2>2. CASE AfterReply(t) # "done"
    <3>1. AfterReply(t) \in {"summary", "repeated"}
      BY <2>2 DEF AfterReply
    <3>2. at'[t] = AfterReply(t) /\ at[t] = "cache" /\ turn' = turn /\ sent' = sent /\ used' = used
      BY <1>0, <1>6, <2>2 DEF CacheSaved, Goto
    <3> QED BY <1>0, <3>1, <3>2 DEF Placed, After
  <2> QED BY <2>1, <2>2
<1>7. CASE Escalate(t)
  <2>1. PICK outcome : turn' = [turn EXCEPT ![t] = [Fresh EXCEPT
                         !.reply = turn[t].reply, !.asked = turn[t].asked, !.handed = TRUE,
                         !.outcome = outcome]]
    BY <1>7 DEF Escalate
  <2>2. turn'[t].handed = TRUE
    BY <2>1 DEF Fresh
  <2> QED BY <1>0, <1>7, <2>2 DEF Escalate, Goto, After
<1>8. CASE Summarise(t)
  BY <1>0, <1>8, EndMoves DEF Summarise, Outcomes, After
<1>9. CASE Fail(t)
  BY <1>0, <1>9, EndMoves DEF Fail, Outcomes, After, Busy
<1> QED
  BY <1>1, <1>2, <1>3, <1>4, <1>5, <1>6, <1>7, <1>8, <1>9 DEF Statement, Step

-----------------------------------------------------------------------------
(* The quota *)

(* A turn that is about to be counted although the plan is used up was     *)
(* under way with another one.                                             *)
Overlaps(t) == met[t] \cap Turns # {}
Counted(t) == at[t] = "count" /\ used >= Limit => Overlaps(t)
QuotaInv == (\A t \in Turns : Counted(t)) /\ QuotaKept

LEMMA QuotaStep == MetInv /\ QuotaInv /\ [Next]_vars => QuotaInv'
<1> SUFFICES ASSUME MetInv, QuotaInv, [Next]_vars PROVE QuotaInv'
  OBVIOUS
<1> USE AssistantAssumption DEF MetInv, TypeInv, TypeOK
<1>1. \A p \in Turns : Overlaps(p) => Overlaps(p)'
  BY MeetingsLast DEF Overlaps, Actors
<1>2. ASSUME NEW o \in Actors, Others(o), o \notin Turns \/ at'[o] = "quota", used' = used
      PROVE  QuotaInv'
  BY <1>1, <1>2 DEF QuotaInv, QuotaKept, Overlaps, Counted, Others, Actors
<1>3. ASSUME NEW t \in Turns, Begin(t) PROVE QuotaInv'
  BY <1>2, <1>3, BeginMoves DEF Begins, Actors, world
<1>4. ASSUME NEW v \in Viewers, OpenPanel(v) \/ FillPanel(v) PROVE QuotaInv'
  BY <1>2, <1>4, PanelOpens, PanelFills DEF Begins, Works, Actors, world
<1>5. ASSUME NEW t \in Turns, Statement(t) PROVE QuotaInv'
  <2>1. Works(t) /\ QuotaMoves(t) /\ used' \in Nat
    BY <1>5, StatementMoves, StatementEffects DEF Typed
  <2>2. \A p \in Turns \ {t} : at'[p] = at[p]
    BY <2>1 DEF Works, Others, Actors
  <2>3. CASE used' = used
    <3>1. \A p \in Turns : Counted(p)'
      <4>1. at'[t] = "count" => ~(used >= Limit)
        BY <2>1 DEF QuotaMoves
      <4> QED BY <1>1, <2>2, <2>3, <4>1 DEF QuotaInv, Overlaps, Counted
    <3> QED BY <1>1, <2>3, <3>1 DEF QuotaInv, QuotaKept, Overlaps
  <2>4. CASE at[t] = "count" /\ used' = used + 1
    <3>1. ASSUME NEW p \in Turns, p # t, at[p] = "count" PROVE Overlaps(p)
      BY <2>4, <3>1, BusyMeet DEF Overlaps, Busy, Actors
    <3>2. at'[t] # "count"
      BY <1>5, <2>4, StatementMoves DEF Statement, Step, CheckQuota, CountMessage, ReadSettings,
         GetContext, FillCache, Complete, DispatchTool, SendReply, SaveContext, CacheSaved,
         Escalate, Summarise, Fail, Goto, End, Actors
    <3>3. used' > Limit => used >= Limit
      BY <2>4
    <3> QED BY <1>1, <2>2, <2>4, <3>1, <3>2, <3>3 DEF QuotaInv, QuotaKept, Overlaps, Counted
  <2> QED BY <2>1, <2>3, <2>4 DEF QuotaMoves
<1>6. CASE Outside
  BY <1>6 DEF Outside, QuotaInv, QuotaKept, Overlaps, Counted
<1> QED BY <1>3, <1>4, <1>5, <1>6, StepCases

LEMMA QuotaInit == Init => QuotaInv
BY AssistantAssumption DEF Init, QuotaInv, QuotaKept, Counted, Actors

-----------------------------------------------------------------------------
(* What is sent *)

SentPlaced(t) ==
    /\ Sent(t) => at[t] \in After \cup {"done"}
    /\ at[t] \in After => Sent(t)

Left(t) == turn[t].outcome \in {"answered", "handedOver"} => turn[t].handed \/ Sent(t)

(* Every turn sends once, and one that sent before another was done by     *)
(* then or has met it.                                                     *)
SentOnce == \A i, j \in DOMAIN sent : i # j => sent[i] # sent[j]
SentInOrder ==
    \A i, j \in DOMAIN sent :
        i < j => at[sent[i]] = "done" \/ sent[j] \in met[sent[i]]

SentInv ==
    /\ MetInv
    /\ \A t \in Turns : SentPlaced(t) /\ Left(t)
    /\ SentOnce /\ SentInOrder

LEMMA Appended ==
    ASSUME sent \in Seq(Turns), NEW t \in Turns, sent' = Append(sent, t)
    PROVE  /\ Len(sent') = Len(sent) + 1 /\ sent'[Len(sent')] = t
           /\ \A i \in DOMAIN sent : sent'[i] = sent[i]
           /\ DOMAIN sent = 1 .. Len(sent) /\ DOMAIN sent' = 1 .. Len(sent')
OBVIOUS

LEMMA SentStep == SentInv /\ [Next]_vars => SentInv'
<1> SUFFICES ASSUME SentInv, [Next]_vars PROVE SentInv'
  OBVIOUS
<1>0. MetInv'
  BY MetStep DEF SentInv
<1> USE DEF MetInv, TypeInv, TypeOK
<1>1. ASSUME sent' = sent,
             \A t \in Turns :
                 \/ at'[t] = at[t]
                 \/ at[t] \notin After \cup {"done"} /\ at'[t] \notin After
                 \/ at[t] \in After /\ at'[t] \in After \cup {"done"},
             \A t \in Turns : turn'[t] = turn[t] \/ Left(t)'
      PROVE  SentInv'
  <2>1. \A t \in Turns : Sent(t)' = Sent(t)
    BY <1>1 DEF Sent
  <2>2. \A t \in Turns : SentPlaced(t)' /\ Left(t)'
    BY <1>1, <2>1 DEF SentInv, SentPlaced, Left
  <2>3. SentOnce' /\ SentInOrder'
    <3>1. \A i \in DOMAIN sent : sent[i] \in Turns /\ sent[i] \in Actors
      BY <1>0 DEF SentInv, Actors
    <3>2. \A p \in Actors : at[p] = "done" => at'[p] = "done"
      BY DoneStays DEF SentInv
    <3>3. \A p \in Actors : met[p] \subseteq met'[p]
      BY MeetingsLast DEF SentInv
    <3> QED BY <1>1, <3>1, <3>2, <3>3 DEF SentInv, SentOnce, SentInOrder
  <2> QED BY <1>0, <2>2, <2>3 DEF SentInv
<1>2. ASSUME NEW t \in Turns, Begin(t) PROVE SentInv'
  <2>1. Begins(t) /\ at'[t] = "quota"
    BY <1>2, BeginMoves DEF SentInv
  <2> QED BY <1>1, <2>1 DEF Begins, Others, world, After, Actors
<1>3. ASSUME NEW v \in Viewers, OpenPanel(v) PROVE SentInv'
  <2>1. Begins(v) /\ v \notin Turns
    BY <1>3, PanelOpens, AssistantAssumption DEF SentInv
  <2> QED BY <1>1, <2>1 DEF Begins, Others, world, Actors
<1>4. ASSUME NEW v \in Viewers, FillPanel(v) PROVE SentInv'
  <2>1. Works(v) /\ v \notin Turns /\ sent' = sent /\ turn' = turn
    BY <1>4, PanelFills, AssistantAssumption DEF SentInv, world
  <2> QED BY <1>1, <2>1 DEF Works, Others, Actors
<1>5. ASSUME NEW t \in Turns, Statement(t) PROVE SentInv'
  <2>1. Works(t) /\ SendMoves(t) /\ Ending(t)
    BY <1>5, StatementMoves, StatementEffects DEF SentInv
  <2>2. \A p \in Turns \ {t} : at'[p] = at[p] /\ turn'[p] = turn[p]
    BY <2>1 DEF Works, Others, Actors
  <2>3. SentPlaced(t) /\ Left(t)
    BY DEF SentInv
  <2>4. CASE at[t] # "send" \/ at'[t] # "again"
    <3>1. sent' = sent /\ (at[t] \in After => at'[t] \in After \cup {"done"})
          /\ (at'[t] \in After => at[t] \in After) /\ at[t] # "done"
      BY <2>1, <2>4 DEF SendMoves, Works
    <3>2. Left(t)'
      BY <2>1, <2>3, <3>1 DEF Ending, Left, Sent, SentPlaced, After
    <3> QED BY <1>1, <2>2, <3>1, <3>2
  <2>5. CASE at[t] = "send" /\ at'[t] = "again"
    <3>1. sent' = Append(sent, t) /\ turn' = turn
      BY <2>1, <2>5 DEF SendMoves, After
    <3>2. /\ Len(sent') = Len(sent) + 1 /\ sent'[Len(sent')] = t
          /\ \A i \in DOMAIN sent : sent'[i] = sent[i]
          /\ DOMAIN sent = 1 .. Len(sent) /\ DOMAIN sent' = 1 .. Len(sent')
      BY <3>1, Appended DEF SentInv
    <3>3. Len(sent) \in Nat
      BY DEF SentInv
    <3>4. ~Sent(t) /\ \A i \in DOMAIN sent : sent[i] # t
      BY <2>3, <2>5 DEF SentPlaced, Sent, After
    <3>5. \A p \in Turns : (Sent(p) => Sent(p)') /\ (Sent(p)' => Sent(p) \/ p = t) /\ Sent(t)'
      BY <3>2, <3>3 DEF Sent
    <3>6. \A p \in Turns : SentPlaced(p)' /\ Left(p)'
      BY <2>2, <2>5, <3>1, <3>5 DEF SentInv, SentPlaced, Left, After
    <3>7. SentOnce'
      <4> SUFFICES ASSUME NEW i \in DOMAIN sent', NEW j \in DOMAIN sent', i # j
                   PROVE  sent'[i] # sent'[j]
        BY DEF SentOnce
      <4>1. CASE i \in DOMAIN sent /\ j \in DOMAIN sent
        <5>1. sent[i] # sent[j]
          BY <4>1 DEF SentInv, SentOnce
        <5> QED BY <3>2, <4>1, <5>1
      <4>2. CASE i = Len(sent') /\ j \in DOMAIN sent
        BY <3>2, <3>4, <4>2
      <4>3. CASE j = Len(sent') /\ i \in DOMAIN sent
        BY <3>2, <3>4, <4>3
      <4> QED BY <3>2, <3>3, <4>1, <4>2, <4>3
    <3>8. ASSUME NEW i \in DOMAIN sent PROVE at[sent[i]] = "done" \/ t \in met[sent[i]]
      <4>1. PICK p : p = sent[i] /\ p \in Turns
        BY DEF SentInv
      <4>2. at[p] \in After \cup {"done"} /\ p # t
        BY <3>4, <3>8, <4>1 DEF SentInv, SentPlaced, Sent
      <4>3. at[p] # "done" => p \in Busy /\ t \in Busy
        BY <2>5, <4>1, <4>2 DEF Busy, After, Actors
      <4> QED BY <4>1, <4>2, <4>3, BusyMeet DEF SentInv
    <3>9. \A p \in Actors : (at[p] = "done" => at'[p] = "done") /\ met[p] \subseteq met'[p]
      BY DoneStays, MeetingsLast DEF SentInv
    <3>10. \A i \in DOMAIN sent : sent[i] \in Actors
      BY DEF SentInv, Actors
    <3>11. SentInOrder'
      <4> SUFFICES ASSUME NEW i \in DOMAIN sent', NEW j \in DOMAIN sent', i < j
                   PROVE  at'[sent'[i]] = "done" \/ sent'[j] \in met'[sent'[i]]
        BY DEF SentInOrder
      <4>1. i \in DOMAIN sent /\ sent'[i] = sent[i]
        BY <3>2, <3>3
      <4>2. CASE j \in DOMAIN sent
        <5>1. at[sent[i]] = "done" \/ sent[j] \in met[sent[i]]
          BY <4>1, <4>2 DEF SentInv, SentInOrder
        <5> QED BY <3>2, <3>9, <3>10, <4>1, <4>2, <5>1
      <4>3. CASE j = Len(sent')
        BY <3>2, <3>8, <3>9, <3>10, <4>1, <4>3
      <4> QED BY <3>2, <3>3, <4>2, <4>3
    <3> QED BY <1>0, <3>6, <3>7, <3>11 DEF SentInv
  <2> QED BY <2>4, <2>5
<1>6. CASE Outside
  BY <1>1, <1>6 DEF Outside
<1> QED BY <1>2, <1>3, <1>4, <1>5, <1>6, StepCases DEF SentInv

LEMMA SentInit == Init => SentInv
BY MetInit, AssistantAssumption
   DEF Init, SentInv, SentPlaced, Left, Sent, SentOnce, SentInOrder, After, Fresh, Endings, Actors

(* The plan's messages are exceeded only by turns counted at the same      *)
(* time; and a turn that ends as it should, whatever its tools did, leaves *)
(* a reply on its way or a human in charge.                                *)
THEOREM AssistantTurnsAreSafe == Spec => []TurnsAreSafe
<1>1. SentInv => MetInv
  BY DEF SentInv
<1>2. Spec => [](SentInv /\ QuotaInv)
  BY <1>1, SentInit, SentStep, QuotaInit, QuotaStep, PTL DEF Spec
<1>3. SentInv /\ QuotaInv => TurnsAreSafe
  BY DEF SentInv, QuotaInv, Left, Sent, TurnsAreSafe, NobodyLeftAlone
<1> QED BY <1>2, <1>3, PTL

-----------------------------------------------------------------------------
(* The row and the cache *)

Saves(t) ==
    /\ at[t] = "save" /\ at'[t] = "cache"
    /\ row'.by = t /\ held'[t] = row' /\ cache' = cache

Reads(t) ==
    /\ row' = row
    /\ cache' = cache \/ (cache' = held[t] /\ at[t] \in {"fill", "refill", "cache"})
    /\ at'[t] \in {"fill", "refill", "cache"} => held'[t] = row
    /\ at[t] = "cache" => cache' = held[t] \/ turn'[t].outcome = "lost"

LEMMA MemoryMoves ==
    ASSUME TypeInv, NEW t \in Turns, Statement(t)
    PROVE  Saves(t) \/ Reads(t)
<1> USE DEF TypeInv, TypeOK, memory, world, Saves, Reads
<1>0. Placed(t) /\ turn[t] \in Local /\ t \in Actors /\ turn \in [Turns -> Local]
  BY DEF Local, Actors
<1>1. CASE CheckQuota(t)
  <2>1. CASE used >= Limit
    BY <1>0, <1>1, <2>1, EndMoves DEF CheckQuota, Outcomes, Endings
  <2>2. CASE ~(used >= Limit)
    BY <1>0, <1>1, <2>2 DEF CheckQuota, Goto
  <2> QED BY <2>1, <2>2
<1>2. CASE CountMessage(t) \/ ReadSettings(t)
  BY <1>0, <1>2 DEF CountMessage, ReadSettings, Goto
<1>3. CASE GetContext(t)
  <2>1. /\ row' = row /\ cache' = cache /\ at[t] # "cache"
        /\ cache = None => held' = [held EXCEPT ![t] = row]
        /\ cache # None => at' = [at EXCEPT ![t] = IF at[t] = "context" THEN "complete" ELSE "save"]
    BY <1>3 DEF GetContext, Goto
  <2>2. cache = None => held'[t] = row
    BY <1>0, <2>1
  <2>3. cache # None => at'[t] \in {"complete", "save"}
    BY <1>0, <2>1
  <2> QED BY <2>1, <2>2, <2>3
<1>4. CASE FillCache(t) \/ Complete(t)
  BY <1>0, <1>4 DEF FillCache, Complete, Goto
<1>5. CASE DispatchTool(t)
  <2>1. PICK place : at' = [at EXCEPT ![t] = place] /\ place \in {"send", "complete", "tool"}
    BY <1>5 DEF DispatchTool, Goto
  <2>2. at'[t] = place
    BY <1>0, <2>1
  <2> QED BY <1>5, <2>1, <2>2 DEF DispatchTool
<1>6. CASE SendReply(t)
  <2>1. CASE Goto(t, "again")
    BY <1>0, <1>6, <2>1 DEF SendReply, Goto
  <2>2. CASE End(t, "lost")
    BY <1>0, <1>6, <2>2, EndMoves DEF SendReply, Outcomes, Endings
  <2> QED BY <1>6, <2>1, <2>2 DEF SendReply
<1>7. CASE SaveContext(t)
  BY <1>0, <1>7 DEF SaveContext, Goto
<1>8. CASE CacheSaved(t)
  <2>1. at'[t] \in {"done", "summary", "repeated"}
    <3>1. CASE AfterReply(t) = "done"
      BY <1>0, <1>8, <3>1, EndMoves DEF CacheSaved, Outcomes, Endings
    <3>2. CASE AfterReply(t) # "done"
      BY <1>0, <1>8, <3>2 DEF CacheSaved, AfterReply, Goto
    <3> QED BY <3>1, <3>2
  <2> QED BY <1>8, <2>1 DEF CacheSaved
<1>9. CASE Escalate(t)
  BY <1>0, <1>9 DEF Escalate, Goto
<1>10. CASE Summarise(t)
  BY <1>0, <1>10, EndMoves DEF Summarise, Outcomes, Endings
<1>11. CASE Fail(t)
  BY <1>0, <1>11, EndMoves DEF Fail, Outcomes, Endings, Busy
<1> QED
  BY <1>1, <1>2, <1>3, <1>4, <1>5, <1>6, <1>7, <1>8, <1>9, <1>10, <1>11 DEF Statement, Step

(* A copy of the row that is on its way to the cache is the row, unless    *)
(* whoever wrote the row since met the holder, or was cut short.           *)
Holding == {"fill", "refill", "view", "cache"}
Disturbed == row.by \in Turns /\ ~Undisturbed(row.by)
HeldFits(o) == at[o] \in Holding => held[o] = row \/ Disturbed
CacheInv == (\A o \in Actors : HeldFits(o)) /\ CacheIsCurrent

LEMMA DisturbedStays ==
    ASSUME MetInv, [Next]_vars, NEW t \in Turns, ~Undisturbed(t)
    PROVE  ~Undisturbed(t)'
<1> USE DEF MetInv
<1>1. t \in Actors
  BY DEF Actors
<1>2. CASE met[t] # {}
  BY <1>1, <1>2, MeetingsLast DEF Undisturbed
<1>3. CASE turn[t].outcome = "lost"
  <2>1. at[t] = "done"
    BY <1>3, AssistantAssumption DEF TypeInv, Placed, Endings
  <2> QED BY <1>1, <1>3, <2>1, DoneStays DEF Undisturbed
<1> QED BY <1>2, <1>3 DEF Undisturbed

LEMMA CacheStep == MetInv /\ CacheInv /\ [Next]_vars => CacheInv'
<1> SUFFICES ASSUME MetInv, CacheInv, [Next]_vars PROVE CacheInv'
  OBVIOUS
<1> USE AssistantAssumption DEF MetInv
<1>1. row' = row => (Disturbed => Disturbed')
  BY DisturbedStays DEF Disturbed
<1>2. ASSUME row' = row, NEW o \in Actors, Others(o), HeldFits(o)',
             \/ cache' = cache /\ at[o] # "cache"
             \/ at[o] \in Holding /\ cache' = held[o]
             \/ at[o] = "cache" /\ o \in Turns /\ turn'[o].outcome = "lost" /\ cache' = cache
      PROVE  CacheInv'
  <2>1. \A p \in Actors : HeldFits(p)'
    BY <1>1, <1>2 DEF CacheInv, HeldFits, Others
  <2>2. CacheIsCurrent'
    <3> SUFFICES ASSUME cache' \in Context, cache' # row
                 PROVE  row.by \in Turns /\ (at'[row.by] = "cache" \/ ~Undisturbed(row.by)')
      BY <1>2 DEF CacheIsCurrent
    <3>1. CASE cache' = cache
      <4>1. row.by \in Turns /\ (at[row.by] = "cache" \/ ~Undisturbed(row.by))
        BY <3>1 DEF CacheInv, CacheIsCurrent
      <4>2. CASE ~Undisturbed(row.by)
        BY <1>1, <1>2, <4>1, <4>2 DEF Disturbed
      <4>3. CASE at[row.by] = "cache" /\ row.by # o
        BY <1>2, <4>1, <4>3 DEF Others, Actors
      <4>4. CASE at[o] = "cache" /\ row.by = o
        <5>1. CASE turn'[o].outcome = "lost"
          BY <1>2, <4>1, <4>4, <5>1 DEF Undisturbed
        <5>2. CASE at[o] \in Holding /\ cache' = held[o]
          BY <1>1, <1>2, <5>2 DEF CacheInv, HeldFits, Disturbed
        <5> QED BY <1>2, <4>4, <5>1, <5>2
      <4> QED BY <4>1, <4>2, <4>3, <4>4
    <3>2. CASE at[o] \in Holding /\ cache' = held[o]
      BY <1>1, <1>2, <3>2 DEF CacheInv, HeldFits, Disturbed
    <3> QED BY <1>2, <3>1, <3>2
  <2> QED BY <2>1, <2>2 DEF CacheInv
<1>3. ASSUME NEW t \in Turns, Begin(t) PROVE CacheInv'
  <2>1. Begins(t) /\ at'[t] = "quota" /\ t \in Actors
    BY <1>3, BeginMoves DEF Actors
  <2>2. HeldFits(t)'
    BY <2>1 DEF HeldFits, Holding
  <2>3. at[t] # "cache" /\ row' = row /\ cache' = cache /\ Others(t)
    BY <2>1 DEF Begins
  <2> QED BY <1>2, <2>1, <2>2, <2>3
<1>4. ASSUME NEW v \in Viewers, OpenPanel(v) PROVE CacheInv'
  <2>1. Begins(v) /\ at'[v] = "view" /\ v \in Actors
    BY <1>4, PanelOpens DEF Actors
  <2>2. HeldFits(v)'
    BY <2>1 DEF HeldFits, Begins
  <2>3. at[v] # "cache" /\ row' = row /\ cache' = cache /\ Others(v)
    BY <2>1 DEF Begins
  <2> QED BY <1>2, <2>1, <2>2, <2>3
<1>5. ASSUME NEW v \in Viewers, FillPanel(v) PROVE CacheInv'
  <2>1. /\ Works(v) /\ v \in Actors /\ row' = row /\ cache' = held[v] /\ at[v] = "view"
        /\ at'[v] = "done"
    BY <1>5, PanelFills DEF Actors
  <2>2. HeldFits(v)' /\ at[v] \in Holding
    BY <2>1 DEF HeldFits, Holding
  <2> QED BY <1>2, <2>1, <2>2 DEF Works
<1>6. ASSUME NEW t \in Turns, Statement(t) PROVE CacheInv'
  <2>1. Works(t) /\ t \in Actors /\ (Saves(t) \/ Reads(t)) /\ at'[t] # "view"
    BY <1>6, StatementMoves, MemoryMoves DEF Actors, Placed
  <2>2. CASE Reads(t)
    <3>1. HeldFits(t)'
      BY <2>1, <2>2 DEF Reads, HeldFits, Holding
    <3>2. \/ cache' = cache /\ at[t] # "cache"
          \/ at[t] \in Holding /\ cache' = held[t]
          \/ at[t] = "cache" /\ turn'[t].outcome = "lost" /\ cache' = cache
      BY <2>2 DEF Reads, Holding
    <3> QED BY <1>2, <2>1, <2>2, <3>1, <3>2 DEF Works, Reads
  <2>3. CASE Saves(t)
    <3>1. ASSUME NEW o \in Actors, o # t, at'[o] \in Holding PROVE Disturbed'
      <4>1. o \in Busy /\ t \in Busy
        BY <2>1, <2>3, <3>1 DEF Works, Others, Saves, Busy, Holding
      <4>2. o \in met[t] /\ met' = met
        BY <2>1, <3>1, <4>1, BusyMeet DEF Works
      <4> QED BY <2>3, <4>2 DEF Saves, Disturbed, Undisturbed
    <3>2. \A o \in Actors : HeldFits(o)'
      BY <2>3, <3>1 DEF HeldFits, Saves
    <3> QED BY <2>3, <3>2 DEF CacheInv, CacheIsCurrent, Saves
  <2> QED BY <2>1, <2>2, <2>3
<1>7. CASE Outside
  BY <1>7 DEF Outside, CacheInv, CacheIsCurrent, HeldFits, Disturbed, Undisturbed
<1> QED BY <1>3, <1>4, <1>5, <1>6, <1>7, StepCases

LEMMA CacheInit == Init => CacheInv
BY AssistantAssumption DEF Init, CacheInv, CacheIsCurrent, HeldFits, Holding, Actors

-----------------------------------------------------------------------------
(* The repetitions *)

(* The replies from the i-th to the m-th are the same, from turns that ran *)
(* one after the other.                                                    *)
Settled(t) == at[t] = "done" /\ Undisturbed(t)
Run(i, m) == \A k \in i .. m : Settled(sent[k]) /\ turn[sent[k]].reply = turn[sent[m]].reply

(* c counts the repetitions up to the m-th reply. *)
Counts(c, m) ==
    \A i \in 1 .. m : Run(i, m) => c.reply = turn[sent[m]].reply /\ c.count >= m - i

RowCounts(n) ==
    \A i \in 1 .. n :
        Run(i, n) => /\ row.reply = turn[sent[n]].reply /\ row.count >= n - i
                     /\ row.by = sent[n]

Answering == {"fill", "complete", "tool", "send"}
Sending == {"again", "refill", "save"}
Saved == {"cache", "repeated", "summary"}

(* What a turn that has met nobody read, sent last, and has counted. *)
TurnCounts(t, n) ==
    met[t] = {} =>
        /\ at[t] \in Answering => Counts(turn[t].context, n)
        /\ at[t] \in Sending => n > 0 /\ sent[n] = t /\ Counts(turn[t].context, n - 1)
        /\ at[t] \in Saved =>
               /\ n > 0 /\ sent[n] = t
               /\ row = [reply |-> turn[t].reply, count |-> turn[t].count, by |-> t]
               /\ \A i \in 1 .. n - 1 :
                      Run(i, n - 1) /\ turn[sent[i]].reply = turn[t].reply =>
                          turn[t].count >= n - i

(* The last run, if it is too long, ended with a human. *)
RunEnds(n) ==
    n > Threshold /\ Run(n - Threshold, n) => turn[sent[n]].handed \/ turn[sent[n]].asked

LoopInv ==
    \E n \in Nat :
        /\ n = Len(sent)
        /\ RowCounts(n) /\ RunEnds(n)
        /\ \A t \in Turns : TurnCounts(t, n)

LEMMA RunEndsIsEnough == TypeOK /\ LoopInv => LoopIsBroken
<1> SUFFICES ASSUME TypeOK, LoopInv, Len(sent) > Threshold,
                    \A i, j \in Len(sent) - Threshold .. Len(sent) :
                        turn[sent[i]].reply = turn[sent[j]].reply,
                    \A i \in Len(sent) - Threshold .. Len(sent) :
                        at[sent[i]] = "done" /\ Undisturbed(sent[i])
             PROVE  turn[sent[Len(sent)]].handed \/ turn[sent[Len(sent)]].asked
  BY DEF LoopIsBroken
<1>1. Len(sent) \in Len(sent) - Threshold .. Len(sent)
  BY AssistantAssumption DEF TypeOK
<1>2. Run(Len(sent) - Threshold, Len(sent))
  BY <1>1 DEF Run, Settled
<1> QED BY <1>2 DEF LoopInv, RunEnds

Prepares(t) ==
    /\ at'[t] \in Answering /\ at[t] = "context" =>
           turn'[t].context = row \/ (cache # None /\ turn'[t].context = cache)
    /\ at'[t] \in Answering /\ at[t] # "context" =>
           at[t] \in Answering /\ turn'[t].context = turn[t].context
    /\ at'[t] \in Sending =>
           at[t] \in Sending \cup {"send"} /\ turn'[t].context = turn[t].context
    /\ at'[t] \in Saved /\ at[t] # "save" => at[t] = "cache" /\ turn'[t] = turn[t]

Counting(t) ==
    LET c == IF turn[t].context.reply = turn[t].reply THEN turn[t].context.count + 1 ELSE 0
    IN  /\ row' = [reply |-> turn[t].reply, count |-> c, by |-> t]
        /\ turn'[t].count = c /\ turn'[t].reply = turn[t].reply

Finishes(t) ==
    at[t] \in After /\ at'[t] = "done" /\ turn'[t].outcome # "lost" =>
        /\ at[t] \in Saved /\ turn'[t].reply = turn[t].reply
        /\ turn'[t].handed \/ turn'[t].asked \/ turn[t].count < Threshold

LEMMA LoopMoves ==
    ASSUME TypeInv, NEW t \in Turns, Statement(t)
    PROVE  /\ Prepares(t) /\ Finishes(t)
           /\ at[t] = "save" /\ at'[t] # "done" => Counting(t)
<1> USE DEF TypeInv, TypeOK, memory, world, Answering, Sending, Saved
<1>0. Placed(t) /\ turn[t] \in Local /\ t \in Actors /\ turn \in [Turns -> Local]
  BY DEF Local, Actors
<1>1. CASE CheckQuota(t)
  <2>1. at[t] = "quota" /\ at'[t] \in {"count", "done"}
    <3>1. CASE used >= Limit
      BY <1>0, <1>1, <3>1, EndMoves DEF CheckQuota, Outcomes, Endings
    <3>2. CASE ~(used >= Limit)
      BY <1>0, <1>1, <3>2 DEF CheckQuota, Goto
    <3> QED BY <3>1, <3>2
  <2> QED BY <2>1 DEF Prepares, Finishes, After
<1>2. CASE CountMessage(t) \/ ReadSettings(t)
  BY <1>0, <1>2 DEF CountMessage, ReadSettings, Goto, Prepares, Finishes, After
<1>3. CASE GetContext(t)
  <2>1. CASE at[t] = "context"
    <3>1. turn'[t] = [turn[t] EXCEPT !.context = IF cache # None THEN cache ELSE row]
      BY <1>0, <1>3, <2>1 DEF GetContext
    <3>2. turn'[t].context = IF cache # None THEN cache ELSE row
      BY <1>0, <3>1 DEF Local
    <3>3. at'[t] \in {"fill", "complete"}
      BY <1>0, <1>3, <2>1 DEF GetContext, Goto
    <3> QED BY <2>1, <3>2, <3>3 DEF Prepares, Finishes, After
  <2>2. CASE at[t] = "again"
    <3>1. PICK place : at' = [at EXCEPT ![t] = place] /\ place \in {"save", "refill"}
      BY <1>3, <2>2 DEF GetContext, Goto
    <3>2. at'[t] = place /\ turn' = turn
      BY <1>0, <1>3, <2>2, <3>1 DEF GetContext
    <3> QED BY <2>2, <3>1, <3>2 DEF Prepares, Finishes, After
  <2> QED BY <1>3, <2>1, <2>2 DEF GetContext
<1>4. CASE FillCache(t)
  BY <1>0, <1>4 DEF FillCache, Goto, Prepares, Finishes, After
<1>5. CASE Complete(t)
  <2>1. at[t] = "complete" /\ at'[t] \in {"send", "tool", "down"}
    BY <1>0, <1>5 DEF Complete, Goto
  <2>2. turn'[t].context = turn[t].context
    BY <1>0, <1>5 DEF Complete, Local
  <2> QED BY <2>1, <2>2 DEF Prepares, Finishes, After
<1>6. CASE DispatchTool(t)
  <2>1. PICK place : at' = [at EXCEPT ![t] = place] /\ place \in {"send", "complete", "tool"}
    BY <1>6 DEF DispatchTool, Goto
  <2>2. at'[t] = place /\ at[t] = "tool"
    BY <1>0, <1>6, <2>1, ZenonT(30) DEF DispatchTool
  <2>3. PICK tool \in turn[t].calls, works \in BOOLEAN : Dispatches(t, tool, works)
    BY <1>6, DispatchMoves
  <2>4. turn'[t].context = turn[t].context
    BY <1>0, <2>3 DEF Dispatches, Local
  <2> QED BY <2>1, <2>2, <2>4 DEF Prepares, Finishes, After
<1>7. CASE SendReply(t)
  <2>1. CASE Goto(t, "again") /\ UNCHANGED turn
    BY <1>0, <1>7, <2>1 DEF SendReply, Goto, Prepares, Finishes, After
  <2>2. CASE End(t, "lost")
    BY <1>0, <1>7, <2>2, EndMoves DEF SendReply, Outcomes, Endings, Prepares, Finishes
  <2> QED BY <1>7, <2>1, <2>2 DEF SendReply
<1>8. CASE SaveContext(t)
  <2>1. PICK c :
            /\ c = IF turn[t].context.reply = turn[t].reply
                   THEN turn[t].context.count + 1 ELSE 0
            /\ at[t] = "save" /\ row' = [reply |-> turn[t].reply, count |-> c, by |-> t]
            /\ turn' = [turn EXCEPT ![t].count = c]
    BY <1>8 DEF SaveContext
  <2>2. turn'[t] = [turn[t] EXCEPT !.count = c]
    BY <2>1
  <2>3. turn'[t].count = c /\ turn'[t].reply = turn[t].reply
    BY <1>0, <2>2 DEF Local
  <2>4. at'[t] = "cache"
    BY <1>0, <1>8 DEF SaveContext, Goto
  <2>5. Counting(t)
    BY <2>1, <2>3 DEF Counting
  <2> QED BY <2>1, <2>4, <2>5 DEF Prepares, Finishes
<1>9. CASE CacheSaved(t)
  <2>1. CASE AfterReply(t) = "done"
    <3>1. turn[t].asked \/ turn[t].count < Threshold
      BY <1>0, <2>1, AssistantAssumption DEF AfterReply, Local
    <3> QED BY <1>0, <1>9, <2>1, <3>1, EndMoves
            DEF CacheSaved, Outcomes, Endings, Prepares, Finishes, After
  <2>2. CASE AfterReply(t) # "done"
    <3>1. AfterReply(t) \in {"summary", "repeated"}
      BY <2>2 DEF AfterReply
    <3>2. at'[t] = AfterReply(t) /\ at[t] = "cache" /\ turn' = turn
      BY <1>0, <1>9, <2>2 DEF CacheSaved, Goto
    <3> QED BY <3>1, <3>2 DEF Prepares, Finishes, After
  <2> QED BY <2>1, <2>2
<1>10. CASE Escalate(t)
  <2>1. PICK outcome : turn' = [turn EXCEPT ![t] = [Fresh EXCEPT
                         !.reply = turn[t].reply, !.asked = turn[t].asked, !.handed = TRUE,
                         !.outcome = outcome]]
    BY <1>10 DEF Escalate
  <2>2. turn'[t].handed = TRUE /\ turn'[t].reply = turn[t].reply
    BY <2>1 DEF Fresh
  <2>3. at'[t] = "done" /\ at[t] \in {"disabled", "down", "repeated"}
    BY <1>0, <1>10 DEF Escalate, Goto
  <2> QED BY <2>2, <2>3 DEF Prepares, Finishes, After
<1>11. CASE Summarise(t)
  BY <1>0, <1>11, EndMoves DEF Summarise, Outcomes, Endings, Placed, Prepares, Finishes
<1>12. CASE Fail(t)
  BY <1>0, <1>12, EndMoves DEF Fail, Outcomes, Endings, Prepares, Finishes
<1> QED
  BY <1>1, <1>2, <1>3, <1>4, <1>5, <1>6, <1>7, <1>8, <1>9, <1>10, <1>11, <1>12
     DEF Statement, Step

(* A run after the step was one before it. *)
LEMMA RunBack ==
    ASSUME NEW i \in Int, NEW m \in Int, i <= m, Run(i, m)',
           \A k \in i .. m : sent'[k] = sent[k],
           \A k \in i .. m : Settled(sent[k])' =>
               Settled(sent[k]) /\ turn'[sent[k]].reply = turn[sent[k]].reply
    PROVE  Run(i, m) /\ turn'[sent[m]].reply = turn[sent[m]].reply
<1>1. \A k \in i .. m : /\ Settled(sent[k])' /\ turn'[sent[k]].reply = turn'[sent[m]].reply
  BY DEF Run, Settled, Undisturbed
<1>2. m \in i .. m
  OBVIOUS
<1> QED BY <1>1, <1>2 DEF Run

LEMMA LoopStatement ==
    ASSUME SentInv, CacheInv, LoopInv, [Next]_vars, NEW t \in Turns, Statement(t)
    PROVE  LoopInv'
<1>0. PICK n \in Nat :
          n = Len(sent) /\ RowCounts(n) /\ RunEnds(n) /\ \A p \in Turns : TurnCounts(p, n)
  BY DEF LoopInv
<1> USE DEF SentInv, MetInv, TypeInv, TypeOK
<1>1. Works(t) /\ SendMoves(t) /\ Prepares(t) /\ Finishes(t) /\ (Saves(t) \/ Reads(t))
      /\ (at[t] = "save" /\ at'[t] # "done" => Counting(t))
  BY StatementMoves, StatementEffects, LoopMoves, MemoryMoves
<1>2. /\ met' = met /\ at[t] \notin {"idle", "done"} /\ t \in Actors
      /\ \A p \in Turns \ {t} : at'[p] = at[p] /\ turn'[p] = turn[p]
  BY <1>1 DEF Works, Others, Actors
<1>3. /\ \A k \in 1 .. n : sent[k] \in Turns /\ sent'[k] = sent[k]
      /\ sent' = sent \/ (sent' = Append(sent, t) /\ at[t] = "send" /\ at'[t] = "again")
  <2>1. DOMAIN sent = 1 .. n
    BY <1>0
  <2>2. \A k \in 1 .. n : sent[k] \in Turns
    BY <2>1
  <2>3. CASE sent' = Append(sent, t) /\ at[t] = "send" /\ at'[t] = "again"
    BY <2>1, <2>2, <2>3, Appended
  <2>4. CASE sent' = sent
    BY <2>2, <2>4
  <2> QED BY <1>1, <2>3, <2>4 DEF SendMoves
<1>4. \A p \in Turns : p # t /\ Settled(p)' => Settled(p) /\ turn'[p].reply = turn[p].reply
  BY <1>2 DEF Settled, Undisturbed
<1>5. ASSUME NEW k \in 1 .. n, k < n, sent[k] = t
      PROVE  sent[n] \in met[t] /\ t \in met[sent[n]] /\ ~Settled(t)'
  <2>1. k \in DOMAIN sent /\ n \in DOMAIN sent
    BY <1>0, <1>5
  <2>2. sent[n] \in met[t] /\ sent[n] \in Actors
    BY <1>2, <1>3, <1>5, <2>1 DEF SentInOrder, Actors
  <2>3. t \in met[sent[n]]
    BY <1>2, <2>2 DEF MetSound
  <2> QED BY <1>2, <2>2, <2>3 DEF Settled, Undisturbed
<1>6. \A k \in 1 .. n : (k < n \/ sent[k] # t) /\ Settled(sent[k])' =>
          Settled(sent[k]) /\ turn'[sent[k]].reply = turn[sent[k]].reply
  BY <1>3, <1>4, <1>5
<1>7. ASSUME NEW m \in 1 .. n, m < n \/ sent[m] # t, NEW i \in 1 .. m, Run(i, m)'
      PROVE  Run(i, m) /\ turn'[sent[m]].reply = turn[sent[m]].reply
  <2>1. \A k \in i .. m : k \in 1 .. n /\ (k < n \/ sent[k] # t)
    BY <1>7
  <2>2. i \in Int /\ m \in Int /\ i <= m /\ \A k \in i .. m : sent'[k] = sent[k]
    BY <1>3, <1>7, <2>1
  <2>3. \A k \in i .. m : Settled(sent[k])' =>
            Settled(sent[k]) /\ turn'[sent[k]].reply = turn[sent[k]].reply
    BY <1>6, <2>1
  <2> QED BY <1>7, <2>2, <2>3, RunBack
<1>8. ASSUME NEW p \in Turns, p # t, NEW m \in Nat PROVE TurnCounts(p, m)'
  <2>1. CASE p \in Busy
    <3>1. t \in met[p]
      BY <1>2, <1>8, <2>1, BusyMeet DEF Busy
    <3> QED BY <1>2, <3>1 DEF TurnCounts
  <2>2. CASE p \notin Busy
    BY <1>2, <1>8, <2>2 DEF TurnCounts, Busy, Actors, Answering, Sending, Saved
  <2> QED BY <2>1, <2>2
<1>9. Sent(t) <=> \E k \in 1 .. n : sent[k] = t
  <2>1. DOMAIN sent = 1 .. n
    BY <1>0
  <2> QED BY <2>1 DEF Sent
<1>10. CASE sent' = Append(sent, t) /\ at[t] = "send" /\ at'[t] = "again"
  <2>1. n + 1 = Len(sent') /\ sent'[n + 1] = t /\ n + 1 \in Nat
    BY <1>0, <1>10, Appended
  <2>2. at'[sent'[n + 1]] # "done"
    BY <1>10, <2>1
  <2>3. ASSUME NEW i \in 1 .. n + 1 PROVE ~Run(i, n + 1)'
    <3>1. n + 1 \in i .. n + 1
      OBVIOUS
    <3> QED BY <2>2, <3>1 DEF Run, Settled
  <2>4. RowCounts(n + 1)'
    BY <2>3 DEF RowCounts
  <2>5. RunEnds(n + 1)'
    <3>1. PICK m \in Nat : m = n + 1
      BY <2>1
    <3>2. PICK i : i = m - Threshold
      OBVIOUS
    <3>3. m > Threshold => i \in 1 .. m
      BY <3>1, <3>2, AssistantAssumption
    <3>4. m > Threshold => ~Run(i, m)'
      BY <2>3, <3>1, <3>3
    <3>5. RunEnds(m)'
      BY <3>2, <3>4 DEF RunEnds
    <3> QED BY <3>1, <3>5
  <2>6. TurnCounts(t, n + 1)'
    <3>1. turn'[t].context = turn[t].context
      BY <1>1, <1>10 DEF Prepares, Sending
    <3>2. met[t] = {} => Counts(turn[t].context, n)
      BY <1>0, <1>10 DEF TurnCounts, Answering
    <3>3. \A k \in 1 .. n : sent[k] # t
      BY <1>9, <1>10 DEF SentPlaced, After
    <3>4. met[t] = {} => Counts(turn[t].context, n)'
      <4> SUFFICES ASSUME met[t] = {}, NEW i \in 1 .. n, Run(i, n)'
                   PROVE  /\ turn'[t].context.reply = turn'[sent'[n]].reply
                          /\ turn'[t].context.count >= n - i
        BY <1>2 DEF Counts
      <4>1. n \in 1 .. n /\ Run(i, n) /\ turn'[sent[n]].reply = turn[sent[n]].reply
        BY <1>7, <3>3
      <4> QED BY <1>3, <3>1, <3>2, <4>1 DEF Counts
    <3>5. n + 1 - 1 = n /\ n + 1 > 0
      OBVIOUS
    <3> QED BY <1>2, <1>10, <2>1, <3>4, <3>5 DEF TurnCounts, Answering, Sending, Saved
  <2> QED BY <1>8, <2>1, <2>4, <2>5, <2>6 DEF LoopInv
<1>11. CASE sent' = sent /\ ~(at[t] = "send" /\ at'[t] = "again")
  <2>0. n > 0 => n \in 1 .. n
    OBVIOUS
  (* The last reply is another turn's. *)
  <2>1. ASSUME n > 0, sent[n] # t, NEW i \in 1 .. n, Run(i, n)'
        PROVE  /\ Run(i, n) /\ turn'[sent[n]] = turn[sent[n]]
               /\ row' = row
               /\ cache \in Context => cache = row
               /\ row.reply = turn[sent[n]].reply /\ row.count >= n - i /\ row.by = sent[n]
    <3>1. Run(i, n) /\ turn'[sent[n]] = turn[sent[n]]
      BY <1>2, <1>3, <1>7, <2>0, <2>1
    <3>2. Settled(sent[n]) /\ row.by = sent[n] /\ row.reply = turn[sent[n]].reply
          /\ row.count >= n - i
      BY <1>0, <2>1, <3>1 DEF Run, RowCounts
    <3>3. row' = row
      <4> SUFFICES ASSUME Saves(t) PROVE FALSE
        BY <1>1 DEF Reads
      <4>1. PICK k \in 1 .. n : sent[k] = t
        BY <1>9 DEF Saves, SentPlaced, After
      <4>2. t \in met[sent[n]]
        BY <1>5, <2>1, <4>1
      <4> QED BY <3>2, <4>2 DEF Settled, Undisturbed
    <3>4. cache \in Context => cache = row
      BY <3>2 DEF Settled, CacheInv, CacheIsCurrent
    <3> QED BY <3>1, <3>2, <3>3, <3>4
  (* The last reply is this turn's, which now is settled. *)
  <2>2. ASSUME n > 0, sent[n] = t, NEW i \in 1 .. n, Run(i, n)'
        PROVE  /\ row' = row /\ row.reply = turn'[t].reply /\ row.by = t
               /\ row.count >= n - i
               /\ turn'[t].handed \/ turn'[t].asked \/ row.count < Threshold
    <3>1. Settled(t)'
      <4>1. n \in i .. n /\ sent'[n] = t
        BY <1>11, <2>2
      <4> QED BY <2>2, <4>1 DEF Run, Settled, Undisturbed
    <3>2. at'[t] = "done" /\ turn'[t].outcome # "lost" /\ met[t] = {}
      BY <1>2, <3>1 DEF Settled, Undisturbed
    <3>3. at[t] \in After
      BY <1>2, <1>9, <2>0, <2>2 DEF SentPlaced
    <3>4. /\ at[t] \in Saved /\ turn'[t].reply = turn[t].reply
          /\ turn'[t].handed \/ turn'[t].asked \/ turn[t].count < Threshold
      BY <1>1, <3>2, <3>3 DEF Finishes
    <3>5. /\ row = [reply |-> turn[t].reply, count |-> turn[t].count, by |-> t]
          /\ \A j \in 1 .. n - 1 :
                 Run(j, n - 1) /\ turn[sent[j]].reply = turn[t].reply => turn[t].count >= n - j
      BY <1>0, <3>2, <3>4 DEF TurnCounts
    <3>6. row' = row
      BY <1>1, <3>2 DEF Saves, Reads
    <3>7. turn[t].count \in Nat
      OBVIOUS
    <3>8. turn[t].count >= n - i
      <4>1. CASE i = n
        BY <3>7, <4>1
      <4>2. CASE i < n
        <5>1. i \in 1 .. n - 1 /\ n - 1 \in 1 .. n /\ n - 1 \in i .. n
          BY <4>2
        <5>2. Run(i, n - 1)'
          <6>1. \A k \in i .. n : /\ Settled(sent[k])'
                                  /\ turn'[sent'[k]].reply = turn'[sent'[n]].reply
            BY <2>2 DEF Run
          <6>2. \A k \in i .. n - 1 : k \in i .. n
            OBVIOUS
          <6> QED BY <5>1, <6>1, <6>2 DEF Run
        <5>3. Run(i, n - 1)
          <6>1. n - 1 < n /\ i \in 1 .. n - 1
            BY <5>1
          <6> QED BY <1>7, <5>1, <5>2, <6>1
        <5>4. sent[i] # t
          <6>1. i \in DOMAIN sent /\ n \in DOMAIN sent /\ i # n
            BY <1>0, <4>2
          <6> QED BY <2>2, <6>1 DEF SentOnce
        <5>5. turn[sent[i]].reply = turn[t].reply
          <6>1. i \in i .. n
            BY <4>2
          <6>2. turn'[sent[i]].reply = turn'[t].reply
            BY <1>3, <2>0, <2>2, <6>1 DEF Run
          <6> QED BY <1>2, <1>3, <3>4, <5>4, <6>2
        <5> QED BY <3>5, <5>1, <5>3, <5>5
      <4> QED BY <4>1, <4>2
    <3> QED BY <3>4, <3>5, <3>6, <3>8
  <2>3. RowCounts(n)'
    <3> SUFFICES ASSUME NEW i \in 1 .. n, Run(i, n)'
                 PROVE  /\ row'.reply = turn'[sent'[n]].reply /\ row'.count >= n - i
                        /\ row'.by = sent'[n]
      BY DEF RowCounts
    <3>1. n > 0
      OBVIOUS
    <3>2. CASE sent[n] = t
      BY <1>11, <2>2, <3>1, <3>2
    <3>3. CASE sent[n] # t
      BY <1>11, <2>1, <3>1, <3>3
    <3> QED BY <3>2, <3>3
  <2>4. RunEnds(n)'
    <3> SUFFICES ASSUME n > Threshold, Run(n - Threshold, n)'
                 PROVE  turn'[sent'[n]].handed \/ turn'[sent'[n]].asked
      BY DEF RunEnds
    <3>1. n > 0 /\ n - Threshold \in 1 .. n /\ Threshold \in Nat
      BY AssistantAssumption
    <3>2. CASE sent[n] = t
      <4>1. /\ row.count >= n - (n - Threshold)
            /\ turn'[t].handed \/ turn'[t].asked \/ row.count < Threshold
        BY <2>2, <3>1, <3>2
      <4>2. row.count \in Nat
        BY DEF Context, Blank
      <4>3. ~(row.count < Threshold)
        <5>1. PICK c \in Nat : c = row.count
          BY <4>2
        <5>2. c >= n - (n - Threshold)
          BY <4>1, <5>1
        <5>3. n - (n - Threshold) = Threshold
          BY <3>1
        <5> QED BY <3>1, <5>1, <5>2, <5>3
      <4>4. turn'[t].handed \/ turn'[t].asked
        BY <4>1, <4>3
      <4>5. sent'[n] = t
        BY <1>11, <3>2
      <4> QED BY <4>4, <4>5
    <3>3. CASE sent[n] # t
      <4>1. /\ Run(n - Threshold, n)
            /\ turn'[sent[n]] = turn[sent[n]]
        BY <2>1, <3>1, <3>3
      <4>2. turn[sent[n]].handed \/ turn[sent[n]].asked
        BY <1>0, <4>1 DEF RunEnds
      <4>3. sent'[n] = sent[n]
        BY <1>11
      <4> QED BY <4>1, <4>2, <4>3
    <3> QED BY <3>2, <3>3
  <2>5. TurnCounts(t, n)'
    <3> SUFFICES ASSUME met[t] = {} PROVE TurnCounts(t, n)'
      BY <1>2 DEF TurnCounts
    <3>1. ASSUME at'[t] \in Answering PROVE Counts(turn[t].context, n)'
      <4>1. \A k \in 1 .. n : sent[k] # t
        BY <1>1, <1>9, <3>1 DEF Prepares, SentPlaced, After, Answering
      <4> SUFFICES ASSUME NEW i \in 1 .. n, Run(i, n)'
                   PROVE  /\ turn'[t].context.reply = turn'[sent'[n]].reply
                          /\ turn'[t].context.count >= n - i
        BY DEF Counts
      <4>2. n > 0 /\ sent[n] # t /\ Run(i, n) /\ turn'[sent[n]] = turn[sent[n]]
        BY <2>0, <2>1, <4>1
      <4>3. CASE at[t] = "context"
        <5>1. turn'[t].context = row
          <6>1. cache \in Context => cache = row
            BY <2>1, <4>2
          <6>2. cache # None => cache \in Context
            OBVIOUS
          <6> QED BY <1>1, <3>1, <4>3, <6>1, <6>2 DEF Prepares
        <5> QED BY <1>11, <2>1, <4>2, <5>1
      <4>4. CASE at[t] # "context"
        <5>1. Counts(turn[t].context, n) /\ turn'[t].context = turn[t].context
          BY <1>0, <1>1, <3>1, <4>4 DEF Prepares, TurnCounts
        <5> QED BY <1>11, <4>2, <5>1 DEF Counts
      <4> QED BY <4>3, <4>4
    <3>2. ASSUME at'[t] \in Sending
          PROVE  n > 0 /\ sent'[n] = t /\ Counts(turn[t].context, n - 1)'
      <4>1. at[t] \in Sending /\ turn'[t].context = turn[t].context
        <5>1. at[t] # "send"
          BY <1>1, <1>11, <3>2 DEF SendMoves, After, Sending
        <5> QED BY <1>1, <3>2, <5>1 DEF Prepares
      <4>2. n > 0 /\ sent[n] = t /\ Counts(turn[t].context, n - 1)
        BY <1>0, <4>1 DEF TurnCounts
      <4> SUFFICES ASSUME NEW i \in 1 .. n - 1, Run(i, n - 1)'
                   PROVE  /\ turn'[t].context.reply = turn'[sent'[n - 1]].reply
                          /\ turn'[t].context.count >= n - 1 - i
        BY <1>11, <4>2 DEF Counts
      <4>3. n - 1 \in 1 .. n /\ i \in 1 .. n - 1
        OBVIOUS
      <4>4. Run(i, n - 1) /\ turn'[sent[n - 1]].reply = turn[sent[n - 1]].reply
        BY <1>7, <4>3
      <4> QED BY <1>11, <4>1, <4>2, <4>4 DEF Counts
    <3>3. ASSUME at'[t] \in Saved
          PROVE  /\ n > 0 /\ sent'[n] = t
                 /\ row' = [reply |-> turn'[t].reply, count |-> turn'[t].count, by |-> t]
                 /\ \A i \in 1 .. n - 1 :
                        Run(i, n - 1)' /\ turn'[sent'[i]].reply = turn'[t].reply =>
                            turn'[t].count >= n - i
      <4>0. \A i \in 1 .. n - 1 : Run(i, n - 1)' => Run(i, n - 1)
        <5>1. \A i \in 1 .. n - 1 : n - 1 \in 1 .. n /\ n - 1 < n /\ i \in 1 .. n - 1
          OBVIOUS
        <5> QED BY <1>7, <5>1
      <4>1. CASE at[t] = "save"
        <5>1. Counting(t)
          BY <1>1, <3>3, <4>1 DEF Saved
        <5>2. n > 0 /\ sent[n] = t /\ Counts(turn[t].context, n - 1)
          BY <1>0, <4>1 DEF TurnCounts, Sending
        <5>3. row' = [reply |-> turn'[t].reply, count |-> turn'[t].count, by |-> t]
          BY <5>1 DEF Counting
        <5>4. ASSUME NEW i \in 1 .. n - 1, Run(i, n - 1)', turn'[sent'[i]].reply = turn'[t].reply
              PROVE  turn'[t].count >= n - i
          <6>1. Run(i, n - 1) /\ i \in i .. n - 1
            BY <4>0, <5>4
          <6>2. sent[i] # t
            <7>1. i \in DOMAIN sent /\ n \in DOMAIN sent /\ i # n
              BY <1>0, <5>2
            <7> QED BY <5>2, <7>1 DEF SentOnce
          <6>3. turn[sent[i]].reply = turn[t].reply
            BY <1>2, <1>3, <1>11, <5>1, <5>4, <6>2 DEF Counting
          <6>4. turn[t].context.reply = turn[t].reply /\ turn[t].context.count >= n - 1 - i
            BY <5>2, <6>1, <6>3 DEF Counts, Run
          <6>5. turn[t].context.count \in Nat
            BY DEF Context, Blank
          <6>6. turn'[t].count = turn[t].context.count + 1
            BY <5>1, <6>4 DEF Counting
          <6> QED BY <6>4, <6>5, <6>6
        <5> QED BY <1>11, <5>2, <5>3, <5>4
      <4>2. CASE at[t] # "save"
        <5>1. at[t] = "cache" /\ turn'[t] = turn[t] /\ row' = row
          BY <1>1, <3>3, <4>2 DEF Prepares, Saves, Reads
        <5>2. /\ n > 0 /\ sent[n] = t
              /\ row = [reply |-> turn[t].reply, count |-> turn[t].count, by |-> t]
              /\ \A i \in 1 .. n - 1 :
                     Run(i, n - 1) /\ turn[sent[i]].reply = turn[t].reply =>
                         turn[t].count >= n - i
          BY <1>0, <5>1 DEF TurnCounts, Saved
        <5>3. \A i \in 1 .. n - 1 : sent[i] # t
          <6>1. \A i \in 1 .. n - 1 : i \in DOMAIN sent /\ n \in DOMAIN sent /\ i # n
            BY <1>0, <5>2
          <6> QED BY <5>2, <6>1 DEF SentOnce
        <5>4. \A i \in 1 .. n - 1 : turn'[sent[i]].reply = turn[sent[i]].reply
          BY <1>2, <1>3, <5>3
        <5> QED BY <1>11, <4>0, <5>1, <5>2, <5>4
      <4> QED BY <4>1, <4>2
    <3> QED BY <3>1, <3>2, <3>3 DEF TurnCounts
  <2> QED BY <1>0, <1>8, <1>11, <2>3, <2>4, <2>5 DEF LoopInv
<1>12. sent' = sent => ~(at[t] = "send" /\ at'[t] = "again")
  BY <1>1 DEF SendMoves, After
<1> QED BY <1>3, <1>10, <1>11, <1>12

(* Who begins, looks at the panel or acts from outside leaves the row, the *)
(* replies and what the turns remember alone, or has met them.             *)
LEMMA LoopElsewhere ==
    ASSUME MetInv, LoopInv, sent' = sent, row' = row, turn' = turn,
           \A p \in Turns : Settled(p)' => Settled(p),
           \A p \in Turns :
               \/ at'[p] = at[p] /\ met'[p] = met[p]
               \/ met'[p] # {} \/ at'[p] \notin Answering \cup Sending \cup Saved
    PROVE  LoopInv'
<1>1. PICK n \in Nat :
          n = Len(sent) /\ RowCounts(n) /\ RunEnds(n) /\ \A p \in Turns : TurnCounts(p, n)
  BY DEF LoopInv
<1>2. \A k \in 1 .. n : sent[k] \in Turns
  BY <1>1 DEF MetInv, TypeInv, TypeOK
<1>3. ASSUME NEW m \in 0 .. n, NEW i \in 1 .. m, Run(i, m)' PROVE Run(i, m)
  BY <1>2, <1>3 DEF Run
<1>4. RowCounts(n)'
  BY <1>1, <1>3 DEF RowCounts
<1>5. RunEnds(n)'
  <2>1. n > Threshold => n - Threshold \in 1 .. n
    BY AssistantAssumption
  <2> QED BY <1>1, <1>3, <2>1 DEF RunEnds
<1>6. ASSUME NEW p \in Turns PROVE TurnCounts(p, n)'
  <2>1. CASE at'[p] = at[p] /\ met'[p] = met[p]
    <3>1. TurnCounts(p, n)
      BY <1>1
    <3>2. Counts(turn[p].context, n) => Counts(turn[p].context, n)'
      BY <1>3 DEF Counts
    <3>3. n > 0 /\ Counts(turn[p].context, n - 1) => Counts(turn[p].context, n - 1)'
      <4>1. n > 0 => n - 1 \in 0 .. n
        OBVIOUS
      <4> QED BY <1>3, <4>1 DEF Counts
    <3>4. \A i \in 1 .. n - 1 : Run(i, n - 1)' => Run(i, n - 1)
      <4>1. \A i \in 1 .. n - 1 : n - 1 \in 0 .. n
        OBVIOUS
      <4> QED BY <1>3, <4>1
    <3> QED BY <2>1, <3>1, <3>2, <3>3, <3>4 DEF TurnCounts
  <2>2. CASE at'[p] # at[p] \/ met'[p] # met[p]
    BY <2>2 DEF TurnCounts
  <2> QED BY <2>1, <2>2
<1> QED BY <1>1, <1>4, <1>5, <1>6 DEF LoopInv

LEMMA LoopStep == SentInv /\ CacheInv /\ LoopInv /\ [Next]_vars => LoopInv'
<1> SUFFICES ASSUME SentInv, CacheInv, LoopInv, [Next]_vars PROVE LoopInv'
  OBVIOUS
<1> USE DEF SentInv, MetInv, TypeInv, TypeOK
<1>1. ASSUME NEW o \in Actors, Begins(o), o \in Turns => at'[o] = "quota" PROVE LoopInv'
  <2>1. \A p \in Turns : Settled(p)' => Settled(p)
    BY <1>1 DEF Begins, Others, Settled, Undisturbed, Busy, Actors
  <2>2. ASSUME NEW p \in Turns
        PROVE  \/ at'[p] = at[p] /\ met'[p] = met[p]
               \/ met'[p] # {} \/ at'[p] \notin Answering \cup Sending \cup Saved
    BY <1>1 DEF Begins, Others, Busy, Actors, Answering, Sending, Saved
  <2> QED BY <1>1, <2>1, <2>2, LoopElsewhere DEF Begins, world
<1>2. ASSUME NEW t \in Turns, Begin(t) PROVE LoopInv'
  BY <1>1, <1>2, BeginMoves DEF Actors
<1>3. ASSUME NEW v \in Viewers, OpenPanel(v) PROVE LoopInv'
  BY <1>1, <1>3, PanelOpens, AssistantAssumption DEF Actors
<1>4. ASSUME NEW v \in Viewers, FillPanel(v) PROVE LoopInv'
  <2>1. Works(v) /\ UNCHANGED <<row, sent, turn>> /\ v \notin Turns
    BY <1>4, PanelFills, AssistantAssumption DEF world
  <2>2. \A p \in Turns : at'[p] = at[p] /\ met'[p] = met[p]
    BY <2>1 DEF Works, Others, Actors
  <2> QED BY <2>1, <2>2, LoopElsewhere DEF Settled, Undisturbed
<1>5. CASE Outside
  BY <1>5, LoopElsewhere DEF Outside, Settled, Undisturbed
<1> QED BY <1>2, <1>3, <1>4, <1>5, LoopStatement, StepCases

LEMMA LoopInit == Init => LoopInv
<1> SUFFICES ASSUME Init PROVE LoopInv
  OBVIOUS
<1>1. Len(sent) = 0 /\ \A t \in Turns : at[t] = "idle"
  BY DEF Init, Actors
<1>2. RowCounts(0) /\ RunEnds(0) /\ \A t \in Turns : TurnCounts(t, 0)
  BY <1>1, AssistantAssumption DEF RowCounts, RunEnds, TurnCounts, Answering, Sending, Saved
<1> QED BY <1>1, <1>2 DEF LoopInv

(* The cache says what the row says, but while it is about to; and a       *)
(* customer who is told the same thing more than Threshold times on end,   *)
(* by turns one after the other, was handed over to a human, whatever was  *)
(* evicted, read or switched meanwhile.                                    *)
THEOREM AssistantRemembers == Spec => []MemoryIsSound
<1>1. SentInv => MetInv /\ TypeOK
  BY DEF SentInv, MetInv, TypeInv
<1>2. Spec => [](SentInv /\ CacheInv /\ LoopInv)
  BY <1>1, SentInit, SentStep, CacheInit, CacheStep, LoopInit, LoopStep, PTL DEF Spec
<1>3. SentInv /\ CacheInv /\ LoopInv => MemoryIsSound
  BY <1>1, RunEndsIsEnough DEF CacheInv, MemoryIsSound
<1> QED BY <1>2, <1>3, PTL
=============================================================================
