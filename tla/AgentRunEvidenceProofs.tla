------------------------- MODULE AgentRunEvidenceProofs -------------------------
(***************************************************************************)
(* What a Run leaves behind can be loaded as evidence, and judged, exactly *)
(* when RunEvidenceSafety says so: for every number of Runs, processes and *)
(* faults.                                                                 *)
(***************************************************************************)
EXTENDS AgentRunTraceProofs, RunEvidenceSafety, FiniteSetTheorems, SequenceTheorems

-------------------------------------------------------------------------------
(* The step of one handler, as a relation between what it and the records   *)
(* of its Run were and what they are.                                       *)

\* A write that may or may not have been committed.
May(d, e, applies, committed) == e = d \/ (applies /\ e = committed)

EntryMove(l, d, m, e) ==
  \/ l.pc = "intake" /\ e = d /\ m.pc \in {"insert_run"} \cup RaisedTo
  \/ /\ l.pc = "insert_run" /\ May(d, e, d.run = "ABSENT", RunInserted(d))
     /\ m.pc \in {"start_run"} \cup RaisedTo
  \/ /\ l.pc = "start_run" /\ May(d, e, RunStartable(d), RunStarted(d))
     /\ m.pc \in {"message_accepted"} \cup RaisedTo

PlainMove(l, d, m, e) ==
  /\ l.pc \in PlainPoint
  /\ \/ /\ e = Written(d, WriteAt(l)) /\ m.pc = NextPoint(l)
        /\ m.cursor = l.cursor
        /\ m.stop = IF l.pc = "tool_normalized" /\ l.outcome # "FOUND"
                     THEN ReadStop(l.outcome) ELSE l.stop
     \/ e \in {d, Written(d, WriteAt(l))} /\ m.pc \in RaisedTo

GraphMove(l, d, m, e) ==
  \/ /\ l.pc = "propose" /\ e = d
     /\ \/ m.pc \in {"create_graph"} \cup RaisedTo
        \/ m.pc = "response_rendered" /\ m.stop \in TasklessReason
  \/ /\ l.pc = "create_graph" /\ May(d, e, GraphCreatable(d), GraphCreated(d))
     /\ m.pc \in {"move_proposed"} \cup RaisedTo
  \/ /\ l.pc = "hook"
     /\ May(d, e, TransitionApplies(d, InitialRow, InitialRow),
            TaskTransitioned(d, InitialRow, InitialRow, "WAITING_USER"))
     /\ m.pc \in {"load_task", "hook_changed"} \cup RaisedTo
     /\ m.pc = "load_task" => e = d
     /\ m.pc = "hook_changed" =>
          /\ TransitionApplies(d, InitialRow, InitialRow)
          /\ e = TaskTransitioned(d, InitialRow, InitialRow, "WAITING_USER")
  \/ l.pc = "load_task" /\ e = d /\ m.pc \in {"load_unit"} \cup RaisedTo
  \/ l.pc = "load_unit" /\ e = d /\ m.pc \in {"save_gate"} \cup RaisedTo
  \/ /\ l.pc = "save_gate" /\ e \in {d, Written(d, "GATE_DECISION")}
     /\ m.pc \in {"gate_recorded"} \cup RaisedTo
  \/ l.pc = "authorize" /\ e = d /\ m.pc \in {"insert_tool"} \cup RaisedTo

ToolMove(l, d, m, e) ==
  \/ /\ l.pc = "insert_tool"
     /\ May(d, e, ToolCallInsertable(d), ToolCallInserted(d, InitialRow.version))
     /\ m.pc \in {"fence"} \cup RaisedTo
  \/ /\ l.pc = "fence" /\ May(d, e, ToolCallStartable(d), ToolCallStarted(d))
     /\ m.pc \in {"dispatch"} \cup RaisedTo
  \/ l.pc = "dispatch" /\ e = d /\ m.pc = "await_order"
  \/ /\ l.pc = "await_order" /\ e = d
     /\ m.pc \in {"finalize_tool", "interrupt_tool"} \cup RaisedTo
  \/ /\ l.pc = "finalize_tool"
     /\ May(d, e, ToolCallFinalizable(d), ToolCallFinalized(d, TerminalStatus(l.outcome)))
     /\ m.pc \in {"save_observation", "tool_created"} \cup RaisedTo
  \/ /\ l.pc = "save_observation" /\ May(d, e, ObservationSourced(d), ObservationSaved(d))
     /\ m.pc \in {"tool_created"} \cup RaisedTo
  \/ /\ l.pc = "interrupt_tool"
     /\ May(d, e, ToolCallFinalizable(d), ToolCallFinalized(d, "INTERRUPTED"))
     /\ m.pc \in {"interrupt_trace"} \cup RaisedTo
     /\ m.pc = "interrupt_trace" => ToolCallFinalizable(d)
  \/ /\ l.pc = "interrupt_trace" /\ e \in {d, Written(d, "ToolCallInterrupted")}
     /\ m.pc \in RaisedTo

\* The reasons the validation and the rendering of a plan lead to.
RenderedReason == {"GOAL_COMPLETED", "PRESENTATION_PLAN_REJECTED", "RENDERER_INVARIANT_FAILED"}

AnswerMove(l, d, m, e) ==
  \/ /\ l.pc = "plan" /\ e = d /\ m.pc \in {"plan_proposed", "response_rendered"} \cup RaisedTo
     /\ m.pc = "response_rendered" => m.stop = "PROVIDER_PROTOCOL_ERROR"
  \/ l.pc = "render" /\ e = d /\ m.pc = "response_rendered" /\ m.stop \in RenderedReason
  \/ /\ l.pc = "finalize"
     /\ May(d, e, RunFinalizable(d, LinksOf(l.cursor), l.task, l.unit),
            RunCompleted(d, l.stop, l.task, l.unit))
     /\ m.pc \in {"returned"} \cup RaisedTo
  \/ l.pc = "reload" /\ e = d /\ m.pc \in RaisedTo
  \/ /\ l.pc = "close"
     /\ May(d, e, RunFinalizable(d, LinksOf(l.cursor), l.cursor, NoRow), RunFailed(d, l.cursor))
     /\ m.pc \in RaisedTo

Moves(l, d, m, e) ==
  \/ EntryMove(l, d, m, e) \/ PlainMove(l, d, m, e) \/ GraphMove(l, d, m, e)
  \/ ToolMove(l, d, m, e) \/ AnswerMove(l, d, m, e)

\* What a call of the record port leaves.
LEMMA StoreCallMay ==
  ASSUME IndInv, NEW r \in Runs,
         NEW applies, NEW committed, NEW ok, NEW refused, NEW error,
         StoreCall(r, applies, committed, ok, refused, error)
  PROVE  /\ May(db[r], db'[r], applies, committed)
         /\ h'[r] \in {ok, refused, error}
         /\ ~applies => h'[r] \in {refused, error}
         /\ applies /\ h'[r] # error => db'[r] = committed /\ h'[r] = ok
<1>1. db \in [Runs -> Aggregate] /\ h \in [Runs -> Handler]
  BY IndInvGood
<1> QED BY <1>1 DEF StoreCall, May

LEMMA LocalMay ==
  ASSUME IndInv, NEW r \in Runs, NEW l, Local(r, l)
  PROVE  db'[r] = db[r] /\ h'[r] = l
<1>1. h \in [Runs -> Handler]
  BY IndInvGood
<1> QED BY <1>1 DEF Local

\* A call that only reads.
LEMMA StoreReadMay ==
  ASSUME IndInv, NEW r \in Runs, NEW applies, NEW ok, NEW refused, NEW error,
         StoreCall(r, applies, db[r], ok, refused, error)
  PROVE  db'[r] = db[r] /\ h'[r] \in {ok, refused, error}
<1>1. db \in [Runs -> Aggregate] /\ h \in [Runs -> Handler]
  BY IndInvGood
<1> QED BY <1>1 DEF StoreCall

LEMMA EntryMoves ==
  ASSUME IndInv, NEW r \in Runs, Intake(r) \/ InsertRun(r) \/ StartRun(r)
  PROVE  EntryMove(h[r], db[r], h'[r], db'[r])
<1> DEFINE l == h[r]
           d == db[r]
           m == h'[r]
           e == db'[r]
           ok == [l EXCEPT !.pc = "message_accepted", !.running = TRUE]
<1>1. l \in Handler /\ h \in [Runs -> Handler] /\ db \in [Runs -> Aggregate]
  BY IndInvGood
<1>2. /\ Raised(l).pc \in RaisedTo /\ ok.pc = "message_accepted"
      /\ At(l, "insert_run").pc = "insert_run" /\ At(l, "start_run").pc = "start_run"
  BY <1>1, RaisedPoint, AtPoint DEF Handler
<1>3. CASE Intake(r)
  <2>1. l.pc = "intake" /\ StoreCall(r, TRUE, d, At(l, "insert_run"), Raised(l), Raised(l))
    BY <1>3 DEF Intake
  <2>2. e = d /\ m \in {At(l, "insert_run"), Raised(l)}
    BY <1>1, <2>1 DEF StoreCall
  <2> HIDE DEF l, d, m, e
  <2>3. EntryMove(l, d, m, e)
    BY <1>2, <2>1, <2>2 DEF EntryMove
  <2> QED BY <2>3 DEF l, d, m, e
<1>4. CASE InsertRun(r)
  <2>1. /\ l.pc = "insert_run"
        /\ StoreCall(r, d.run = "ABSENT", RunInserted(d), At(l, "start_run"), Raised(l),
                     Raised(l))
    BY <1>4 DEF InsertRun
  <2>2. /\ May(d, e, d.run = "ABSENT", RunInserted(d))
        /\ m \in {At(l, "start_run"), Raised(l)}
    BY <2>1, StoreCallMay
  <2> HIDE DEF l, d, m, e
  <2>3. EntryMove(l, d, m, e)
    BY <1>2, <2>1, <2>2 DEF EntryMove
  <2> QED BY <2>3 DEF l, d, m, e
<1>5. CASE StartRun(r)
  <2>1. /\ l.pc = "start_run"
        /\ StoreCall(r, RunStartable(d), RunStarted(d), ok, Raised(l), Raised(l))
    BY <1>5 DEF StartRun
  <2> HIDE DEF ok
  <2>2. May(d, e, RunStartable(d), RunStarted(d)) /\ m \in {ok, Raised(l)}
    BY <2>1, StoreCallMay
  <2> HIDE DEF l, d, m, e
  <2>3. EntryMove(l, d, m, e)
    BY <1>2, <2>1, <2>2 DEF EntryMove
  <2> QED BY <2>3 DEF l, d, m, e
<1> QED BY <1>3, <1>4, <1>5

\* A plain insert.
LEMMA PlainMoves ==
  ASSUME IndInv, NEW r \in Runs, PlainWrite(r)
  PROVE  PlainMove(h[r], db[r], h'[r], db'[r])
<1> DEFINE l == h[r]
           d == db[r]
           m == h'[r]
           e == db'[r]
           ok == [l EXCEPT !.pc = NextPoint(l),
                           !.stop = IF l.pc = "tool_normalized" /\ l.outcome # "FOUND"
                                    THEN ReadStop(l.outcome) ELSE @]
<1>1. l \in Handler
  BY IndInvGood
<1>2. /\ Raised(l).pc \in RaisedTo /\ ok.pc = NextPoint(l) /\ ok.cursor = l.cursor
      /\ ok.stop = IF l.pc = "tool_normalized" /\ l.outcome # "FOUND"
                    THEN ReadStop(l.outcome) ELSE l.stop
  BY <1>1, RaisedPoint DEF Handler
<1>3. l.pc \in PlainPoint /\ StoreCall(r, TRUE, Written(d, WriteAt(l)), ok, ok, Raised(l))
  BY DEF PlainWrite
<1> HIDE DEF ok
<1>4. /\ May(d, e, TRUE, Written(d, WriteAt(l)))
      /\ m = Raised(l) \/ (m = ok /\ e = Written(d, WriteAt(l)))
  BY <1>3, StoreCallMay
<1> HIDE DEF l, d, m, e
<1>5. PlainMove(l, d, m, e)
  BY <1>2, <1>3, <1>4 DEF PlainMove, May
<1> QED BY <1>5 DEF l, d, m, e

\* From the proposal to the Gate.
LEMMA GraphMoves ==
  ASSUME IndInv, NEW r \in Runs,
         \/ ProposeNextMove(r) \/ CreateInitialTaskGraph(r) \/ Hook(r) \/ LoadTask(r)
         \/ LoadUnit(r) \/ SaveGateDecision(r) \/ Authorize(r)
  PROVE  GraphMove(h[r], db[r], h'[r], db'[r])
<1> DEFINE l == h[r]
           d == db[r]
           m == h'[r]
           e == db'[r]
           refused(stop) == [l EXCEPT !.pc = "response_rendered", !.stop = stop]
           created == [l EXCEPT !.pc = "move_proposed", !.cursor = InitialRow]
           task == [l EXCEPT !.pc = "load_unit", !.task = d.task]
           unit == [l EXCEPT !.pc = "save_gate", !.unit = d.unit, !.cursor = l.task]
           decided(stop) == [l EXCEPT !.pc = "gate_recorded", !.stop = stop]
<1>1. l \in Handler /\ h \in [Runs -> Handler] /\ db \in [Runs -> Aggregate]
  BY IndInvGood
<1>2. /\ Raised(l).pc \in RaisedTo
      /\ At(l, "create_graph").pc = "create_graph" /\ At(l, "load_task").pc = "load_task"
      /\ At(l, "hook_changed").pc = "hook_changed" /\ At(l, "insert_tool").pc = "insert_tool"
  BY <1>1, RaisedPoint, AtPoint
<1>3. /\ \A stop : refused(stop).pc = "response_rendered" /\ refused(stop).stop = stop
      /\ created.pc = "move_proposed" /\ task.pc = "load_unit" /\ unit.pc = "save_gate"
      /\ \A stop : decided(stop).pc = "gate_recorded"
  BY <1>1 DEF Handler
<1>4. CASE ProposeNextMove(r)
  <2>1. /\ l.pc = "propose"
        /\ \/ Local(r, At(l, "create_graph"))
           \/ \E stop \in TasklessReason : Local(r, refused(stop))
           \/ Local(r, Raised(l))
    BY <1>4 DEF ProposeNextMove, TasklessReason
  <2> HIDE DEF refused
  <2>2. /\ e = d
        /\ m \in {At(l, "create_graph"), Raised(l)}
             \/ \E stop \in TasklessReason : m = refused(stop)
    BY <2>1, LocalMay
  <2> HIDE DEF l, d, m, e
  <2>3. GraphMove(l, d, m, e)
    BY <1>2, <1>3, <2>1, <2>2 DEF GraphMove
  <2> QED BY <2>3 DEF l, d, m, e
<1>5. CASE CreateInitialTaskGraph(r)
  <2>1. /\ l.pc = "create_graph"
        /\ StoreCall(r, GraphCreatable(d), GraphCreated(d), created, Raised(l), Raised(l))
    BY <1>5 DEF CreateInitialTaskGraph
  <2> HIDE DEF created
  <2>2. May(d, e, GraphCreatable(d), GraphCreated(d)) /\ m \in {created, Raised(l)}
    BY <2>1, StoreCallMay
  <2> HIDE DEF l, d, m, e
  <2>3. GraphMove(l, d, m, e)
    BY <1>2, <1>3, <2>1, <2>2 DEF GraphMove
  <2> QED BY <2>3 DEF l, d, m, e
<1>6. CASE Hook(r)
  <2> DEFINE applies == TransitionApplies(d, InitialRow, InitialRow)
             waiting == TaskTransitioned(d, InitialRow, InitialRow, "WAITING_USER")
  <2>1. /\ l.pc = "hook"
        /\ \/ Local(r, At(l, "load_task")) \/ Local(r, Raised(l))
           \/ StoreCall(r, applies, waiting, At(l, "hook_changed"), Raised(l), Raised(l))
    BY <1>6 DEF Hook
  <2> HIDE DEF applies, waiting
  <2>2. \/ e = d /\ m \in {At(l, "load_task"), Raised(l)}
        \/ May(d, e, applies, waiting) /\ m = Raised(l)
        \/ applies /\ e = waiting /\ m = At(l, "hook_changed")
    <3>1. CASE StoreCall(r, applies, waiting, At(l, "hook_changed"), Raised(l), Raised(l))
      BY <1>2, <3>1, StoreCallMay DEF RaisedTo
    <3>2. CASE Local(r, At(l, "load_task")) \/ Local(r, Raised(l))
      BY <3>2, LocalMay
    <3> QED BY <2>1, <3>1, <3>2
  <2> HIDE DEF l, d, m, e
  <2>3. GraphMove(l, d, m, e)
    BY <1>2, <2>1, <2>2 DEF GraphMove, May, RaisedTo, applies, waiting
  <2> QED BY <2>3 DEF l, d, m, e
<1>7. CASE LoadTask(r)
  <2>1. /\ l.pc = "load_task"
        /\ StoreCall(r, d.task # NoRow, d, task, Raised(l), Raised(l))
    BY <1>7 DEF LoadTask
  <2> HIDE DEF task
  <2>2. e = d /\ m \in {task, Raised(l)}
    BY <2>1, StoreReadMay
  <2> HIDE DEF l, d, m, e
  <2>3. GraphMove(l, d, m, e)
    BY <1>2, <1>3, <2>1, <2>2 DEF GraphMove
  <2> QED BY <2>3 DEF l, d, m, e
<1>8. CASE LoadUnit(r)
  <2>1. /\ l.pc = "load_unit"
        /\ StoreCall(r, d.unit # NoRow, d, unit, Raised(l), Raised(l))
    BY <1>8 DEF LoadUnit
  <2> HIDE DEF unit
  <2>2. e = d /\ m \in {unit, Raised(l)}
    BY <2>1, StoreReadMay
  <2> HIDE DEF l, d, m, e
  <2>3. GraphMove(l, d, m, e)
    BY <1>2, <1>3, <2>1, <2>2 DEF GraphMove
  <2> QED BY <2>3 DEF l, d, m, e
<1>9. CASE SaveGateDecision(r)
  <2>1. /\ l.pc = "save_gate"
        /\ \E stop : StoreCall(r, TRUE, Written(d, "GATE_DECISION"), decided(stop), l, Raised(l))
    BY <1>9 DEF SaveGateDecision
  <2> HIDE DEF decided
  <2>2. PICK stop : StoreCall(r, TRUE, Written(d, "GATE_DECISION"), decided(stop), l, Raised(l))
    BY <2>1
  <2>3. e \in {d, Written(d, "GATE_DECISION")} /\ m \in {decided(stop), Raised(l)}
    BY <1>1, <2>2 DEF StoreCall
  <2> HIDE DEF l, d, m, e
  <2>4. GraphMove(l, d, m, e)
    BY <1>2, <1>3, <2>1, <2>3 DEF GraphMove
  <2> QED BY <2>4 DEF l, d, m, e
<1>10. CASE Authorize(r)
  <2>1. l.pc = "authorize" /\ (Local(r, At(l, "insert_tool")) \/ Local(r, Raised(l)))
    BY <1>10 DEF Authorize
  <2>2. e = d /\ m \in {At(l, "insert_tool"), Raised(l)}
    BY <2>1, LocalMay
  <2> HIDE DEF l, d, m, e
  <2>3. GraphMove(l, d, m, e)
    BY <1>2, <2>1, <2>2 DEF GraphMove
  <2> QED BY <2>3 DEF l, d, m, e
<1> QED BY <1>4, <1>5, <1>6, <1>7, <1>8, <1>9, <1>10

\* The executor.
LEMMA ToolMoves ==
  ASSUME IndInv, NEW r \in Runs,
         \/ InsertToolCall(r) \/ StartToolCall(r) \/ DispatchRead(r) \/ OrderAnswer(r)
         \/ FinalizeToolCall(r) \/ SaveObservation(r) \/ InterruptToolCall(r)
         \/ TraceInterruption(r)
  PROVE  ToolMove(h[r], db[r], h'[r], db'[r])
<1> DEFINE l == h[r]
           d == db[r]
           m == h'[r]
           e == db'[r]
           sent == [l EXCEPT !.pc = "await_order", !.reads = @ + 1]
           answered(outcome) == [l EXCEPT !.pc = "finalize_tool", !.outcome = outcome]
           next == IF l.outcome = "FOUND" THEN "save_observation" ELSE "tool_created"
<1>1. l \in Handler /\ h \in [Runs -> Handler] /\ db \in [Runs -> Aggregate]
  BY IndInvGood
<1>2. /\ Raised(l).pc \in RaisedTo /\ \A point : At(l, point).pc = point
      /\ sent.pc = "await_order" /\ \A outcome : answered(outcome).pc = "finalize_tool"
      /\ next \in {"save_observation", "tool_created"}
      /\ "interrupt_trace" \notin RaisedTo
  BY <1>1, RaisedPoint, AtPoint DEF Handler, RaisedTo
<1>4. CASE InsertToolCall(r)
  <2>1. /\ l.pc = "insert_tool"
        /\ StoreCall(r, ToolCallInsertable(d), ToolCallInserted(d, InitialRow.version),
                     At(l, "fence"), Raised(l), Raised(l))
    BY <1>4 DEF InsertToolCall
  <2>2. /\ May(d, e, ToolCallInsertable(d), ToolCallInserted(d, InitialRow.version))
        /\ m \in {At(l, "fence"), Raised(l)}
    BY <2>1, StoreCallMay
  <2> HIDE DEF l, d, m, e
  <2>3. ToolMove(l, d, m, e)
    BY <1>2, <2>1, <2>2 DEF ToolMove
  <2> QED BY <2>3 DEF l, d, m, e
<1>5. CASE StartToolCall(r)
  <2>1. /\ l.pc = "fence"
        /\ StoreCall(r, ToolCallStartable(d), ToolCallStarted(d), At(l, "dispatch"), Raised(l),
                     Raised(l))
    BY <1>5 DEF StartToolCall
  <2>2. /\ May(d, e, ToolCallStartable(d), ToolCallStarted(d))
        /\ m \in {At(l, "dispatch"), Raised(l)}
    BY <2>1, StoreCallMay
  <2> HIDE DEF l, d, m, e
  <2>3. ToolMove(l, d, m, e)
    BY <1>2, <2>1, <2>2 DEF ToolMove
  <2> QED BY <2>3 DEF l, d, m, e
<1>6. CASE DispatchRead(r)
  <2>1. l.pc = "dispatch" /\ Local(r, sent)
    BY <1>6 DEF DispatchRead
  <2> HIDE DEF sent
  <2>2. e = d /\ m = sent
    BY <2>1, LocalMay
  <2> HIDE DEF l, d, m, e
  <2>3. ToolMove(l, d, m, e)
    BY <1>2, <2>1, <2>2 DEF ToolMove
  <2> QED BY <2>3 DEF l, d, m, e
<1>7. CASE OrderAnswer(r)
  <2>1. /\ l.pc = "await_order"
        /\ \/ \E outcome : Local(r, answered(outcome))
           \/ Local(r, At(l, "interrupt_tool")) \/ Local(r, Raised(l))
    BY <1>7 DEF OrderAnswer
  <2> HIDE DEF answered
  <2>2. /\ e = d
        /\ m \in {At(l, "interrupt_tool"), Raised(l)} \/ \E outcome : m = answered(outcome)
    BY <2>1, LocalMay
  <2> HIDE DEF l, d, m, e
  <2>3. ToolMove(l, d, m, e)
    BY <1>2, <2>1, <2>2 DEF ToolMove
  <2> QED BY <2>3 DEF l, d, m, e
<1>8. CASE FinalizeToolCall(r)
  <2>1. /\ l.pc = "finalize_tool"
        /\ StoreCall(r, ToolCallFinalizable(d), ToolCallFinalized(d, TerminalStatus(l.outcome)),
                     At(l, next), Raised(l), Raised(l))
    BY <1>8 DEF FinalizeToolCall
  <2> HIDE DEF next
  <2>2. /\ May(d, e, ToolCallFinalizable(d), ToolCallFinalized(d, TerminalStatus(l.outcome)))
        /\ m \in {At(l, next), Raised(l)}
    BY <2>1, StoreCallMay
  <2> HIDE DEF l, d, m, e
  <2>3. ToolMove(l, d, m, e)
    BY <1>2, <2>1, <2>2 DEF ToolMove
  <2> QED BY <2>3 DEF l, d, m, e
<1>9. CASE SaveObservation(r)
  <2>1. /\ l.pc = "save_observation"
        /\ StoreCall(r, ObservationSourced(d), ObservationSaved(d), At(l, "tool_created"),
                     Raised(l), Raised(l))
    BY <1>9 DEF SaveObservation
  <2>2. /\ May(d, e, ObservationSourced(d), ObservationSaved(d))
        /\ m \in {At(l, "tool_created"), Raised(l)}
    BY <2>1, StoreCallMay
  <2> HIDE DEF l, d, m, e
  <2>3. ToolMove(l, d, m, e)
    BY <1>2, <2>1, <2>2 DEF ToolMove
  <2> QED BY <2>3 DEF l, d, m, e
<1>10. CASE InterruptToolCall(r)
  <2>1. /\ l.pc = "interrupt_tool"
        /\ StoreCall(r, ToolCallFinalizable(d), ToolCallFinalized(d, "INTERRUPTED"),
                     At(l, "interrupt_trace"), Raised(l), Raised(l))
    BY <1>10 DEF InterruptToolCall
  <2>2. /\ May(d, e, ToolCallFinalizable(d), ToolCallFinalized(d, "INTERRUPTED"))
        /\ m = Raised(l) \/ (m = At(l, "interrupt_trace") /\ ToolCallFinalizable(d))
    BY <2>1, StoreCallMay
  <2> HIDE DEF l, d, m, e
  <2>3. ToolMove(l, d, m, e)
    BY <1>2, <2>1, <2>2 DEF ToolMove
  <2> QED BY <2>3 DEF l, d, m, e
<1>11. CASE TraceInterruption(r)
  <2>1. /\ l.pc = "interrupt_trace"
        /\ StoreCall(r, TRUE, Written(d, "ToolCallInterrupted"), Raised(l), Raised(l), Raised(l))
    BY <1>11 DEF TraceInterruption
  <2>2. e \in {d, Written(d, "ToolCallInterrupted")} /\ m = Raised(l)
    BY <1>1, <2>1 DEF StoreCall
  <2> HIDE DEF l, d, m, e
  <2>3. ToolMove(l, d, m, e)
    BY <1>2, <2>1, <2>2 DEF ToolMove
  <2> QED BY <2>3 DEF l, d, m, e
<1> QED BY <1>4, <1>5, <1>6, <1>7, <1>8, <1>9, <1>10, <1>11

\* From the plan to the end of the Run.
LEMMA AnswerMoves ==
  ASSUME IndInv, NEW r \in Runs,
         \/ PlanPresentation(r) \/ Render(r) \/ FinalizeRun(r) \/ ReloadTask(r)
         \/ CloseFailedRun(r)
  PROVE  AnswerMove(h[r], db[r], h'[r], db'[r])
<1> DEFINE l == h[r]
           d == db[r]
           m == h'[r]
           e == db'[r]
           to(stop) == [l EXCEPT !.pc = "response_rendered", !.stop = stop]
           answered == [l EXCEPT !.pc = "returned", !.running = FALSE, !.result = l.stop]
           known == [l EXCEPT !.pc = "close", !.cursor = d.task]
           done(closing) == [l EXCEPT !.pc = "raised", !.closing = closing]
<1>1. l \in Handler
  BY IndInvGood
<1>2. /\ Raised(l).pc \in RaisedTo /\ At(l, "plan_proposed").pc = "plan_proposed"
      /\ At(l, "close").pc \in RaisedTo /\ {"reload", "close", "raised"} \subseteq RaisedTo
  BY <1>1, RaisedPoint, AtPoint DEF RaisedTo
<1>3. /\ \A stop : to(stop).pc = "response_rendered" /\ to(stop).stop = stop
      /\ answered.pc = "returned" /\ known.pc = "close"
      /\ \A closing : done(closing).pc = "raised"
  BY <1>1 DEF Handler
<1>4. CASE PlanPresentation(r)
  <2>1. /\ l.pc = "plan"
        /\ \/ Local(r, At(l, "plan_proposed")) \/ Local(r, Raised(l))
           \/ Local(r, to("PROVIDER_PROTOCOL_ERROR"))
    BY <1>4 DEF PlanPresentation
  <2> HIDE DEF to
  <2>2. e = d /\ m \in {At(l, "plan_proposed"), Raised(l), to("PROVIDER_PROTOCOL_ERROR")}
    BY <2>1, LocalMay
  <2> HIDE DEF l, d, m, e
  <2>3. AnswerMove(l, d, m, e)
    BY <1>2, <1>3, <2>1, <2>2 DEF AnswerMove, RaisedTo
  <2> QED BY <2>3 DEF l, d, m, e
<1>5. CASE Render(r)
  <2>1. l.pc = "render" /\ \E stop \in RenderedReason : Local(r, to(stop))
    BY <1>5 DEF Render, RenderedReason
  <2> HIDE DEF to
  <2>2. e = d /\ \E stop \in RenderedReason : m = to(stop)
    BY <2>1, LocalMay
  <2> HIDE DEF l, d, m, e
  <2>3. AnswerMove(l, d, m, e)
    BY <1>3, <2>1, <2>2 DEF AnswerMove
  <2> QED BY <2>3 DEF l, d, m, e
<1>6. CASE FinalizeRun(r)
  <2> DEFINE applies == RunFinalizable(d, LinksOf(l.cursor), l.task, l.unit)
             ended == RunCompleted(d, l.stop, l.task, l.unit)
  <2>1. l.pc = "finalize" /\ StoreCall(r, applies, ended, answered, Raised(l), Raised(l))
    BY <1>6 DEF FinalizeRun
  <2> HIDE DEF applies, ended, answered
  <2>2. May(d, e, applies, ended) /\ m \in {answered, Raised(l)}
    BY <2>1, StoreCallMay
  <2> HIDE DEF l, d, m, e
  <2>3. AnswerMove(l, d, m, e)
    BY <1>2, <1>3, <2>1, <2>2 DEF AnswerMove, applies, ended
  <2> QED BY <2>3 DEF l, d, m, e
<1>7. CASE ReloadTask(r)
  <2>1. l.pc = "reload" /\ StoreCall(r, TRUE, d, known, l, At(l, "close"))
    BY <1>7 DEF ReloadTask
  <2> HIDE DEF known
  <2>2. e = d /\ m \in {known, l, At(l, "close")}
    BY <2>1, StoreReadMay
  <2> HIDE DEF l, d, m, e
  <2>3. AnswerMove(l, d, m, e)
    BY <1>2, <1>3, <2>1, <2>2 DEF AnswerMove
  <2> QED BY <2>3 DEF l, d, m, e
<1>8. CASE CloseFailedRun(r)
  <2> DEFINE applies == RunFinalizable(d, LinksOf(l.cursor), l.cursor, NoRow)
             failed == RunFailed(d, l.cursor)
  <2>1. /\ l.pc = "close"
        /\ StoreCall(r, applies, failed, done("APPLIED"), done("CONFLICT"), done("ERROR"))
    BY <1>8 DEF CloseFailedRun
  <2> HIDE DEF applies, failed, done
  <2>2. May(d, e, applies, failed) /\ m \in {done("APPLIED"), done("CONFLICT"), done("ERROR")}
    BY <2>1, StoreCallMay
  <2> HIDE DEF l, d, m, e
  <2>3. AnswerMove(l, d, m, e)
    BY <1>2, <1>3, <2>1, <2>2 DEF AnswerMove, applies, failed
  <2> QED BY <2>3 DEF l, d, m, e
<1> QED BY <1>4, <1>5, <1>6, <1>7, <1>8

LEMMA HandlerMoves ==
  ASSUME IndInv, NEW r \in Runs, HandlerStep(r)
  PROVE  Moves(h[r], db[r], h'[r], db'[r])
<1>1. \/ EntryMove(h[r], db[r], h'[r], db'[r]) \/ PlainMove(h[r], db[r], h'[r], db'[r])
      \/ GraphMove(h[r], db[r], h'[r], db'[r]) \/ ToolMove(h[r], db[r], h'[r], db'[r])
      \/ AnswerMove(h[r], db[r], h'[r], db'[r])
  BY EntryMoves, PlainMoves, GraphMoves, ToolMoves, AnswerMoves DEF HandlerStep
<1> QED BY <1>1 DEF Moves

-------------------------------------------------------------------------------
(* A handler gets on with every event it writes.                            *)

LEMMA ProgressRange ==
  ASSUME NEW point
  PROVE  Progress(point) \in 1..22
  BY DEF Progress

\* Progress at each point, and the place of each event.
ProgressTable ==
  /\ Progress("message_accepted") = 1 /\ Progress("run_started") = 2
  /\ Progress("understanding_started") = 3 /\ Progress("save_manifest") = 4
  /\ Progress("manifest_recorded") = 4 /\ Progress("propose") = 5
  /\ Progress("create_graph") = 5 /\ Progress("move_proposed") = 5
  /\ Progress("delta_validated") = 6 /\ Progress("delta_accepted") = 7
  /\ Progress("binding_recorded") = 8 /\ Progress("task_changed") = 9
  /\ Progress("revalidated") = 10 /\ Progress("hook") = 11 /\ Progress("hook_changed") = 11
  /\ Progress("load_task") = 12 /\ Progress("load_unit") = 12 /\ Progress("save_gate") = 12
  /\ Progress("gate_recorded") = 12 /\ Progress("authorize") = 13
  /\ Progress("insert_tool") = 13
  /\ Progress("fence") = 13 /\ Progress("dispatch") = 13 /\ Progress("await_order") = 13
  /\ Progress("finalize_tool") = 13 /\ Progress("save_observation") = 13
  /\ Progress("interrupt_tool") = 13 /\ Progress("interrupt_trace") = 13
  /\ Progress("tool_created") = 13 /\ Progress("tool_started") = 14
  /\ Progress("tool_ended") = 15 /\ Progress("tool_normalized") = 16
  /\ Progress("observation_recorded") = 17 /\ Progress("save_plan_manifest") = 18
  /\ Progress("plan_manifest_recorded") = 18 /\ Progress("plan") = 19
  /\ Progress("plan_proposed") = 19 /\ Progress("render") = 20
  /\ Progress("response_rendered") = 20 /\ Progress("finalize") = 21
  /\ Progress("returned") = 22 /\ Progress("raised") = 22 /\ Progress("dead") = 22
  /\ Progress("reload") = 22 /\ Progress("close") = 22
  /\ Progress("idle") = 1 /\ Progress("intake") = 1 /\ Progress("insert_run") = 1
  /\ Progress("start_run") = 1
PlaceTable ==
  /\ \A event \in TraceEventType : Place(event) \in Nat
  /\ Place("MessageAccepted") = 0 /\ Place("RunStarted") = 0
  /\ Place("RequestUnderstandingStarted") = 0 /\ Place("ContextManifestRecorded") = 0
  /\ Place("NextMoveProposed") = 0 /\ Place("TaskDeltaValidated") = 0
  /\ Place("TaskDeltaAccepted") = 0 /\ Place("InputBindingRecorded") = 0
  /\ Place("TaskStateChanged") = 0 /\ Place("NextMoveRevalidated") = 0
  /\ Place("PresentationPlanProposed") = 0 /\ Place("ResponseRendered") = 0
  /\ Place("RunStopped") = 0
  /\ Place("GateDecisionRecorded") = 12
  /\ Place("ToolCallCreated") = 13 /\ Place("ToolCallStarted") = 14
  /\ Place("ToolCallSucceeded") = 15 /\ Place("ToolCallFailed") = 15
  /\ Place("ToolCallTimedOut") = 15 /\ Place("ToolCallInterrupted") = 0
  /\ Place("ToolResultNormalized") = 16 /\ Place("ObservationRecorded") = 17

LEMMA ProgressAt == ProgressTable
<1>1. /\ Progress("message_accepted") = 1 /\ Progress("run_started") = 2
      /\ Progress("understanding_started") = 3 /\ Progress("save_manifest") = 4
      /\ Progress("manifest_recorded") = 4 /\ Progress("propose") = 5
      /\ Progress("create_graph") = 5 /\ Progress("move_proposed") = 5
      /\ Progress("delta_validated") = 6 /\ Progress("delta_accepted") = 7
  BY DEF Progress, EntryPoint, ExecutorPoint, AuthorizedPoint
<1>2. /\ Progress("binding_recorded") = 8 /\ Progress("task_changed") = 9
      /\ Progress("revalidated") = 10 /\ Progress("hook") = 11
      /\ Progress("hook_changed") = 11
      /\ Progress("load_task") = 12 /\ Progress("load_unit") = 12
      /\ Progress("save_gate") = 12 /\ Progress("gate_recorded") = 12
  BY DEF Progress, EntryPoint, ExecutorPoint, AuthorizedPoint
<1>3. /\ Progress("authorize") = 13 /\ Progress("insert_tool") = 13
      /\ Progress("fence") = 13 /\ Progress("dispatch") = 13 /\ Progress("await_order") = 13
      /\ Progress("finalize_tool") = 13 /\ Progress("save_observation") = 13
      /\ Progress("interrupt_tool") = 13 /\ Progress("interrupt_trace") = 13
      /\ Progress("tool_created") = 13
  BY DEF Progress, EntryPoint, ExecutorPoint, AuthorizedPoint
<1>4. /\ Progress("tool_started") = 14
      /\ Progress("tool_ended") = 15 /\ Progress("tool_normalized") = 16
      /\ Progress("observation_recorded") = 17 /\ Progress("save_plan_manifest") = 18
      /\ Progress("plan_manifest_recorded") = 18 /\ Progress("plan") = 19
      /\ Progress("plan_proposed") = 19 /\ Progress("render") = 20
      /\ Progress("response_rendered") = 20 /\ Progress("finalize") = 21
  BY DEF Progress, EntryPoint, ExecutorPoint, AuthorizedPoint
<1>5. /\ Progress("returned") = 22 /\ Progress("raised") = 22 /\ Progress("dead") = 22
      /\ Progress("reload") = 22 /\ Progress("close") = 22
  BY DEF Progress, EntryPoint, ExecutorPoint, AuthorizedPoint
<1>6. /\ Progress("idle") = 1 /\ Progress("intake") = 1 /\ Progress("insert_run") = 1
      /\ Progress("start_run") = 1
  BY DEF Progress, EntryPoint, ExecutorPoint, AuthorizedPoint
<1> QED BY <1>1, <1>2, <1>3, <1>4, <1>5, <1>6 DEF ProgressTable

LEMMA PlaceAt == PlaceTable
<1>1. /\ Place("GateDecisionRecorded") = 12
      /\ Place("ToolCallCreated") = 13 /\ Place("ToolCallStarted") = 14
      /\ Place("ToolCallSucceeded") = 15 /\ Place("ToolCallFailed") = 15
      /\ Place("ToolCallTimedOut") = 15 /\ Place("ToolCallInterrupted") = 0
      /\ Place("ToolResultNormalized") = 16 /\ Place("ObservationRecorded") = 17
  BY DEF Place
<1>2. /\ Place("MessageAccepted") = 0 /\ Place("RunStarted") = 0
      /\ Place("RequestUnderstandingStarted") = 0 /\ Place("ContextManifestRecorded") = 0
      /\ Place("NextMoveProposed") = 0 /\ Place("TaskDeltaValidated") = 0
      /\ Place("TaskDeltaAccepted") = 0 /\ Place("InputBindingRecorded") = 0
      /\ Place("TaskStateChanged") = 0 /\ Place("NextMoveRevalidated") = 0
      /\ Place("PresentationPlanProposed") = 0 /\ Place("ResponseRendered") = 0
      /\ Place("RunStopped") = 0
  BY DEF Place
<1>3. \A event \in TraceEventType : Place(event) \in Nat
  BY DEF Place
<1> QED BY <1>1, <1>2, <1>3 DEF PlaceTable

LEMMA ProgressEnds ==
  ASSUME NEW point \in RaisedTo \cup {"returned", "dead"}
  PROVE  Progress(point) = 22 /\ point # "interrupt_trace"
  BY ProgressAt DEF ProgressTable, RaisedTo

\* A plain insert is a step ahead, and its event, if the loader counts it, has
\* its place just there.
LEMMA PlainProgress ==
  ASSUME NEW l, l.pc \in PlainPoint
  PROVE  /\ NextPoint(l) # "interrupt_trace"
         /\ IF WriteAt(l) \in Document THEN Progress(l.pc) = Progress(NextPoint(l))
            ELSE /\ Progress(l.pc) < Progress(NextPoint(l))
                 /\ Place(WriteAt(l)) \in {0, Progress(l.pc)}
                 /\ WriteAt(l) \in CountedEvent => Place(WriteAt(l)) = Progress(l.pc)
<1> DEFINE Ahead(point, w, next) ==
             /\ next # "interrupt_trace"
             /\ IF w \in Document THEN Progress(point) = Progress(next)
                ELSE /\ Progress(point) < Progress(next)
                     /\ Place(w) \in {0, Progress(point)}
                     /\ w \in CountedEvent => Place(w) = Progress(point)
<1> DEFINE w == WriteAt(l)
           next == NextPoint(l)
<1>1. CASE l.pc \in {"message_accepted", "run_started", "understanding_started",
                     "save_manifest", "manifest_recorded"}
  <2>1. \/ l.pc = "message_accepted" /\ w = "MessageAccepted" /\ next = "run_started"
        \/ l.pc = "run_started" /\ w = "RunStarted" /\ next = "understanding_started"
        \/ l.pc = "understanding_started" /\ w = "RequestUnderstandingStarted"
             /\ next = "save_manifest"
        \/ l.pc = "save_manifest" /\ w = "UNDERSTANDING_MANIFEST" /\ next = "manifest_recorded"
        \/ l.pc = "manifest_recorded" /\ w = "ContextManifestRecorded" /\ next = "propose"
    BY <1>1 DEF WriteAt, NextPoint
  <2> HIDE DEF w, next
  <2>2. Ahead(l.pc, w, next)
    BY <2>1, ProgressAt, PlaceAt DEF ProgressTable, PlaceTable, CountedEvent, Document
  <2> QED BY <2>2 DEF w, next
<1>2. CASE l.pc \in {"move_proposed", "delta_validated", "delta_accepted", "binding_recorded",
                     "task_changed", "revalidated", "hook_changed"}
  <2>1. \/ l.pc = "move_proposed" /\ w = "NextMoveProposed" /\ next = "delta_validated"
        \/ l.pc = "delta_validated" /\ w = "TaskDeltaValidated" /\ next = "delta_accepted"
        \/ l.pc = "delta_accepted" /\ w = "TaskDeltaAccepted" /\ next = "binding_recorded"
        \/ l.pc = "binding_recorded" /\ w = "InputBindingRecorded" /\ next = "task_changed"
        \/ l.pc = "task_changed" /\ w = "TaskStateChanged" /\ next = "revalidated"
        \/ l.pc = "revalidated" /\ w = "NextMoveRevalidated" /\ next = "hook"
        \/ l.pc = "hook_changed" /\ w = "TaskStateChanged" /\ next = "load_task"
    BY <1>2 DEF WriteAt, NextPoint
  <2> HIDE DEF w, next
  <2>2. Ahead(l.pc, w, next)
    BY <2>1, ProgressAt, PlaceAt DEF ProgressTable, PlaceTable, CountedEvent, Document
  <2> QED BY <2>2 DEF w, next
<1>3. CASE l.pc \in {"gate_recorded", "tool_created", "tool_started", "tool_ended",
                     "tool_normalized"}
  <2>1. \/ l.pc = "gate_recorded" /\ w = "GateDecisionRecorded"
             /\ next \in {"response_rendered", "authorize"}
        \/ l.pc = "tool_created" /\ w = "ToolCallCreated" /\ next = "tool_started"
        \/ l.pc = "tool_started" /\ w = "ToolCallStarted" /\ next = "tool_ended"
        \/ l.pc = "tool_ended" /\ next = "tool_normalized"
             /\ w \in {"ToolCallSucceeded", "ToolCallFailed", "ToolCallTimedOut"}
        \/ l.pc = "tool_normalized" /\ w = "ToolResultNormalized"
             /\ next \in {"observation_recorded", "response_rendered"}
    BY <1>3 DEF WriteAt, NextPoint, TerminalEvent
  <2> HIDE DEF w, next
  <2>2. Ahead(l.pc, w, next)
    BY <2>1, ProgressAt, PlaceAt DEF ProgressTable, PlaceTable, CountedEvent, Document
  <2> QED BY <2>2 DEF w, next
<1>4. CASE l.pc \in {"observation_recorded", "save_plan_manifest", "plan_manifest_recorded",
                     "plan_proposed", "response_rendered"}
  <2>1. \/ l.pc = "observation_recorded" /\ w = "ObservationRecorded"
             /\ next = "save_plan_manifest"
        \/ l.pc = "save_plan_manifest" /\ w = "PRESENTATION_MANIFEST"
             /\ next = "plan_manifest_recorded"
        \/ l.pc = "plan_manifest_recorded" /\ w = "ContextManifestRecorded" /\ next = "plan"
        \/ l.pc = "plan_proposed" /\ w = "PresentationPlanProposed" /\ next = "render"
        \/ l.pc = "response_rendered" /\ w = "ResponseRendered" /\ next = "finalize"
    BY <1>4 DEF WriteAt, NextPoint
  <2> HIDE DEF w, next
  <2>2. Ahead(l.pc, w, next)
    BY <2>1, ProgressAt, PlaceAt DEF ProgressTable, PlaceTable, CountedEvent, Document
  <2> QED BY <2>2 DEF w, next
<1> QED BY <1>1, <1>2, <1>3, <1>4 DEF PlainPoint

\* A Trace of less than n events, those with a place before p, and none of the
\* counted ones twice.
Even(s, n, p) ==
  /\ Len(s) < n
  /\ \A event \in EventsIn(s) : Place(event) < p
  /\ \A event \in CountedEvent : \A i, j \in DOMAIN s : s[i] = event /\ s[j] = event => i = j

LEMMA EvenAppend ==
  ASSUME NEW s \in Seq(TraceEventType), NEW n \in Nat, NEW p \in Nat, Even(s, n, p),
         NEW x \in TraceEventType, Place(x) < p, x \in CountedEvent => x \notin EventsIn(s)
  PROVE  Even(Append(s, x), n + 1, p) /\ Append(s, x) \in Seq(TraceEventType)
<1>1. EventsIn(Append(s, x)) \subseteq EventsIn(s) \cup {x}
  BY EventsAppend
<1>2. \A event \in CountedEvent :
        \A i, j \in DOMAIN Append(s, x) :
          Append(s, x)[i] = event /\ Append(s, x)[j] = event => i = j
  BY DEF Even, EventsIn
<1> QED BY <1>1, <1>2 DEF Even

LEMMA EvenMore ==
  ASSUME NEW s \in Seq(TraceEventType), NEW n \in Int, NEW p \in Int, NEW n2 \in Int,
         NEW p2 \in Int, Even(s, n, p), n <= n2, p <= p2
  PROVE  Even(s, n2, p2)
<1>1. \A event : Place(event) \in Int
  BY DEF Place
<1> QED BY <1>1 DEF Even

LEMMA PacedEven ==
  ASSUME NEW l, NEW d, d \in Aggregate
  PROVE  Paced(l, d) <=> /\ Even(d.trace, Progress(l.pc) + Ending(d), Progress(l.pc))
                         /\ l.pc = "interrupt_trace" => "ToolCallInterrupted" \notin Traced(d)
  BY DEF Paced, Even, EventsIn, Traced, Single

\* A step that writes no event.
LEMMA PacedStays ==
  ASSUME NEW l, NEW d, NEW m, NEW e, d \in Aggregate, e \in Aggregate, Paced(l, d),
         e.trace = d.trace, d.run \in TerminalRun => e.run \in TerminalRun,
         Progress(l.pc) <= Progress(m.pc),
         m.pc = "interrupt_trace" => "ToolCallInterrupted" \notin Traced(d)
  PROVE  Paced(m, e)
<1>1. Progress(l.pc) \in 1..22 /\ Progress(m.pc) \in 1..22
  BY ProgressRange
<1>2. Ending(d) \in Nat /\ Ending(e) \in Nat /\ Ending(d) <= Ending(e)
  BY DEF Ending
<1>3. Traced(e) = Traced(d)
  BY DEF Traced
<1>4. Even(d.trace, Progress(l.pc) + Ending(d), Progress(l.pc)) /\ d.trace \in Seq(TraceEventType)
  BY PacedEven DEF Aggregate
<1>5. Even(e.trace, Progress(m.pc) + Ending(e), Progress(m.pc))
  <2> DEFINE n == Progress(l.pc) + Ending(d)
             n2 == Progress(m.pc) + Ending(e)
             p == Progress(l.pc)
             p2 == Progress(m.pc)
  <2>1. n \in Int /\ n2 \in Int /\ p \in Int /\ p2 \in Int /\ n <= n2 /\ p <= p2
    BY <1>1, <1>2
  <2>2. Even(d.trace, n, p)
    BY <1>4
  <2> HIDE DEF n, n2, p, p2
  <2>3. Even(d.trace, n2, p2)
    BY <1>4, <2>1, <2>2, EvenMore
  <2> QED BY <2>3 DEF n2, p2
<1> QED BY <1>3, <1>5, PacedEven

\* A step that writes one, not counted or the first of its kind.
LEMMA PacedWrites ==
  ASSUME NEW l, NEW d, NEW m, NEW e, d \in Aggregate, e \in Aggregate, Paced(l, d),
         NEW w \in TraceEventType, e.trace = Append(d.trace, w),
         d.run \in TerminalRun => e.run \in TerminalRun,
         Progress(l.pc) < Progress(m.pc), Place(w) < Progress(m.pc),
         w \in CountedEvent => w \notin Traced(d), m.pc # "interrupt_trace"
  PROVE  Paced(m, e)
<1> DEFINE n == Progress(l.pc) + Ending(d)
           n2 == Progress(m.pc) + Ending(e)
           p == Progress(l.pc)
           p2 == Progress(m.pc)
<1>1. Progress(l.pc) \in 1..22 /\ Progress(m.pc) \in 1..22
  BY ProgressRange
<1>2. Ending(d) \in Nat /\ Ending(e) \in Nat /\ Ending(d) <= Ending(e)
  BY DEF Ending
<1>3. /\ n \in Nat /\ n2 \in Nat /\ p \in Nat /\ p2 \in Nat
      /\ n \in Int /\ n2 \in Int /\ p \in Int /\ p2 \in Int
      /\ n + 1 \in Int /\ n + 1 <= n2 /\ p <= p2
  <2>1. Progress(l.pc) < Progress(m.pc)
    OBVIOUS
  <2> QED BY ONLY <1>1, <1>2, <2>1
<1>4. Even(d.trace, n, p) /\ d.trace \in Seq(TraceEventType)
  BY PacedEven DEF Aggregate
<1> HIDE DEF n, p
<1>9. Place(w) < p2
  OBVIOUS
<1> HIDE DEF n2, p2
<1>5. Even(d.trace, n, p2)
  BY <1>3, <1>4, EvenMore
<1>6. w \in CountedEvent => w \notin EventsIn(d.trace)
  BY DEF EventsIn, Traced
<1> DEFINE k == n + 1
<1>7. Even(e.trace, k, p2) /\ e.trace \in Seq(TraceEventType)
  BY <1>3, <1>4, <1>5, <1>6, <1>9, EvenAppend
<1>10. k \in Int /\ k <= n2
  BY <1>3
<1> HIDE DEF k
<1>8. Even(e.trace, n2, p2)
  BY ONLY <1>3, <1>7, <1>10, EvenMore
<1> QED BY <1>8, PacedEven DEF n2, p2

\* Whoever ends the Run adds events the loader does not count, and a recovery
\* that interrupts an active ToolCall the first event of that.
LEMMA CompletedEven ==
  ASSUME NEW d \in Aggregate, NEW stop, NEW task, NEW unit, NEW n \in Nat, NEW p \in Nat,
         0 < p, Even(d.trace, n, p)
  PROVE  /\ Even(RunCompleted(d, stop, task, unit).trace, n + 3, p)
         /\ "ToolCallInterrupted" \notin Traced(d) =>
              "ToolCallInterrupted" \notin Traced(RunCompleted(d, stop, task, unit))
<1> DEFINE moved == Append(d.trace, "TaskStateChanged")
           before == IF d.link = "OPEN" THEN moved ELSE d.trace
           after == Append(before, "RunStopped")
<1>1. /\ Place("TaskStateChanged") < p /\ Place("RunStopped") < p
      /\ "TaskStateChanged" \notin CountedEvent /\ "RunStopped" \notin CountedEvent
      /\ "TaskStateChanged" \in TraceEventType /\ "RunStopped" \in TraceEventType
  BY PlaceAt DEF PlaceTable, CountedEvent, TraceEventType
<1>2. RunCompleted(d, stop, task, unit).trace = after
  BY DEF RunCompleted, LinkClosed, TaskTransitioned, Aggregate
<1>3. d.trace \in Seq(TraceEventType)
  BY DEF Aggregate
<1>4. /\ Even(moved, n + 1, p) /\ moved \in Seq(TraceEventType)
      /\ EventsIn(moved) \subseteq EventsIn(d.trace) \cup {"TaskStateChanged"}
  BY <1>1, <1>3, EvenAppend, EventsAppend
<1>5. /\ Even(before, n + 1, p) /\ before \in Seq(TraceEventType)
      /\ EventsIn(before) \subseteq EventsIn(d.trace) \cup {"TaskStateChanged"}
  BY <1>3, <1>4, EvenMore
<1> HIDE DEF before, moved
<1>6. /\ Even(after, (n + 1) + 1, p) /\ after \in Seq(TraceEventType)
      /\ EventsIn(after) \subseteq EventsIn(before) \cup {"RunStopped"}
  <2>1. n + 1 \in Nat
    OBVIOUS
  <2> QED BY <1>1, <1>5, <2>1, EvenAppend, EventsAppend
<1> HIDE DEF after
<1>7. Even(after, n + 3, p)
  BY <1>6, EvenMore
<1> QED BY <1>2, <1>5, <1>6, <1>7 DEF Traced, EventsIn

LEMMA RecoveredEven ==
  ASSUME NEW d \in Aggregate, Truthful(d), NEW n \in Nat, NEW p \in Nat,
         0 < p, Even(d.trace, n, p)
  PROVE  Even(Recovered(d).trace, n + 3, p)
<1> DEFINE blocked == d.task.status \in ActiveTask
           cut == d.tool \in ActiveToolCall
           stopped == Append(d.trace, "RunStopped")
           changed == IF blocked THEN Append(stopped, "TaskStateChanged") ELSE stopped
           after == IF cut THEN Append(changed, "ToolCallInterrupted") ELSE changed
<1>1. /\ Place("TaskStateChanged") < p /\ Place("RunStopped") < p
      /\ Place("ToolCallInterrupted") < p
      /\ "TaskStateChanged" \notin CountedEvent /\ "RunStopped" \notin CountedEvent
      /\ "TaskStateChanged" \in TraceEventType /\ "RunStopped" \in TraceEventType
      /\ "ToolCallInterrupted" \in TraceEventType
  BY PlaceAt DEF PlaceTable, CountedEvent, TraceEventType
<1>2. Recovered(d).trace = after
  BY DEF Recovered, LinkClosed, Aggregate
<1>3. d.trace \in Seq(TraceEventType)
  BY DEF Aggregate
<1>4. /\ Even(stopped, n + 1, p) /\ stopped \in Seq(TraceEventType)
      /\ EventsIn(stopped) \subseteq EventsIn(d.trace) \cup {"RunStopped"}
  BY <1>1, <1>3, EvenAppend, EventsAppend
<1> HIDE DEF stopped
<1>5. n + 1 \in Nat /\ (n + 1) + 1 \in Nat
  OBVIOUS
<1>6. /\ Even(Append(stopped, "TaskStateChanged"), (n + 1) + 1, p)
      /\ Append(stopped, "TaskStateChanged") \in Seq(TraceEventType)
      /\ EventsIn(Append(stopped, "TaskStateChanged"))
           \subseteq EventsIn(stopped) \cup {"TaskStateChanged"}
  BY <1>1, <1>4, <1>5, EvenAppend, EventsAppend
<1>7. /\ Even(changed, (n + 1) + 1, p) /\ changed \in Seq(TraceEventType)
      /\ EventsIn(changed) \subseteq EventsIn(d.trace) \cup {"RunStopped", "TaskStateChanged"}
  BY <1>4, <1>5, <1>6, EvenMore
<1> HIDE DEF changed
<1>8. CASE cut
  <2>1. "ToolCallInterrupted" \notin EventsIn(d.trace)
    BY <1>8 DEF Truthful, Told, Traced, EventsIn, ActiveToolCall
  <2>2. "ToolCallInterrupted" \notin EventsIn(changed)
    BY <1>7, <2>1
  <2>3. Even(Append(changed, "ToolCallInterrupted"), ((n + 1) + 1) + 1, p)
    BY <1>1, <1>5, <1>7, <2>2, EvenAppend
  <2> QED BY <1>2, <1>8, <2>3
<1>9. CASE ~cut
  <2>1. Even(changed, n + 3, p)
    BY <1>5, <1>7, EvenMore
  <2> QED BY <1>2, <1>9, <2>1
<1> QED BY <1>8, <1>9

LEMMA RecoveredPaced ==
  ASSUME NEW l, NEW d, NEW m, Kept(d), Kept(Recovered(d)), Truthful(d), Recoverable(d),
         Paced(l, d), Progress(l.pc) <= Progress(m.pc),
         m.pc = "interrupt_trace" => l.pc = "interrupt_trace" /\ d.tool = "INTERRUPTED"
  PROVE  Paced(m, Recovered(d))
<1> DEFINE e == Recovered(d)
           n == Progress(l.pc) + Ending(d)
           p == Progress(l.pc)
<1>1. /\ d \in Aggregate /\ e \in Aggregate
      /\ Progress(l.pc) \in 1..22 /\ Progress(m.pc) \in 1..22
      /\ Ending(d) = 0
  BY ProgressRange DEF Kept, Ending, Recoverable, ActiveRun, TerminalRun
<1>2. e.run = "INCOMPLETE"
  BY <1>1 DEF Recovered, LinkClosed, Aggregate
<1>3. Ending(e) = 3
  BY <1>2 DEF Ending, TerminalRun
<1>4. Even(d.trace, n, p) /\ n \in Nat /\ p \in Nat /\ 0 < p
  BY <1>1, PacedEven
<1> HIDE DEF n, p
<1>5. Even(e.trace, n + 3, p)
  BY <1>1, <1>4, RecoveredEven
<1>6. n + 3 <= Progress(m.pc) + 3 /\ p <= Progress(m.pc)
  BY <1>1 DEF n, p
<1>7. m.pc = "interrupt_trace" => "ToolCallInterrupted" \notin Traced(e)
  <2> SUFFICES ASSUME m.pc = "interrupt_trace"
               PROVE  "ToolCallInterrupted" \notin Traced(e)
    OBVIOUS
  <2>1. "ToolCallInterrupted" \notin Traced(d) /\ d.tool = "INTERRUPTED"
    BY DEF Paced
  <2>2. d.tool \notin ActiveToolCall
    BY <2>1 DEF ActiveToolCall
  <2>3. d.trace \in Seq(TraceEventType)
    BY <1>1 DEF Aggregate
  <2> DEFINE stopped == Append(d.trace, "RunStopped")
             changed == Append(stopped, "TaskStateChanged")
  <2>4. stopped \in Seq(TraceEventType) /\ EventsIn(stopped) \subseteq EventsIn(d.trace) \cup {"RunStopped"}
    BY <2>3, EventsAppend DEF TraceEventType
  <2>5. e.trace \in {stopped, changed}
    BY <1>1, <2>2 DEF Recovered, LinkClosed, Aggregate
  <2> HIDE DEF stopped
  <2>6. EventsIn(changed) \subseteq EventsIn(stopped) \cup {"TaskStateChanged"}
    BY <2>4, EventsAppend DEF TraceEventType
  <2>7. "ToolCallInterrupted" \notin EventsIn(stopped) /\ "ToolCallInterrupted" \notin EventsIn(changed)
    BY <2>1, <2>4, <2>6 DEF EventsIn, Traced
  <2> HIDE DEF changed, e
  <2> QED BY <2>5, <2>7 DEF EventsIn, Traced
<1>8. n + 3 \in Int /\ Progress(m.pc) + 3 \in Int /\ Progress(m.pc) \in Int /\ p \in Int
  BY <1>1, <1>4
<1>9. Even(e.trace, Progress(m.pc) + 3, Progress(m.pc))
  <2>1. e.trace \in Seq(TraceEventType)
    BY <1>1 DEF Aggregate
  <2> HIDE DEF e
  <2> DEFINE n2 == Progress(m.pc) + 3
             p2 == Progress(m.pc)
  <2>2. n2 \in Int /\ p2 \in Int /\ n + 3 \in Int /\ p \in Int /\ n + 3 <= n2 /\ p <= p2
    BY <1>6, <1>8
  <2> HIDE DEF n2, p2
  <2>3. Even(e.trace, n2, p2)
    BY <1>5, <2>1, <2>2, EvenMore
  <2> QED BY <2>3 DEF n2, p2
<1> QED BY <1>1, <1>3, <1>7, <1>9, PacedEven

\* The writes that leave the Trace alone.
LEMMA SameTrace ==
  ASSUME NEW d \in Aggregate
  PROVE  /\ RunInserted(d).trace = d.trace /\ RunStarted(d).trace = d.trace
         /\ GraphCreated(d).trace = d.trace
         /\ \A task, unit, status : TaskTransitioned(d, task, unit, status).trace = d.trace
         /\ \A version : ToolCallInserted(d, version).trace = d.trace
         /\ ToolCallStarted(d).trace = d.trace
         /\ \A status : ToolCallFinalized(d, status).trace = d.trace
         /\ ObservationSaved(d).trace = d.trace
         /\ \A task : RunFailed(d, task).trace = d.trace
         /\ \A w : w \in Document => Written(d, w).trace = d.trace
         /\ \A w : w \notin Document => Written(d, w).trace = Append(d.trace, w)
<1>1. /\ RunInserted(d).trace = d.trace /\ RunStarted(d).trace = d.trace
      /\ GraphCreated(d).trace = d.trace
      /\ \A task, unit, status : TaskTransitioned(d, task, unit, status).trace = d.trace
  BY DEF Aggregate, RunInserted, RunStarted, GraphCreated, TaskTransitioned
<1>2. /\ \A version : ToolCallInserted(d, version).trace = d.trace
      /\ ToolCallStarted(d).trace = d.trace
      /\ \A status : ToolCallFinalized(d, status).trace = d.trace
      /\ ObservationSaved(d).trace = d.trace
  BY DEF Aggregate, ToolCallInserted, ToolCallStarted, ToolCallFinalized, ObservationSaved
<1>3. \A task : RunFailed(d, task).trace = d.trace
  BY DEF Aggregate, RunFailed, LinkClosed
<1>4. /\ \A w : w \in Document => Written(d, w).trace = d.trace
      /\ \A w : w \notin Document => Written(d, w).trace = Append(d.trace, w)
  BY DEF Aggregate, Written
<1> QED BY <1>1, <1>2, <1>3, <1>4

\* No move but InterruptToolCall leads to interrupt_trace, from a ToolCall that
\* was RUNNING, and no move goes back.
Ahead(l, d, m) ==
  /\ Progress(l.pc) <= Progress(m.pc)
  /\ m.pc = "interrupt_trace" => l.pc = "interrupt_tool" /\ d.tool = "RUNNING"

LEMMA MoveAhead ==
  ASSUME NEW l, NEW d, NEW m, NEW e, Moves(l, d, m, e)
  PROVE  Ahead(l, d, m)
<1>1. \A point \in RaisedTo : Progress(point) = 22 /\ point # "interrupt_trace"
  BY ProgressEnds
<1>2. Progress(l.pc) \in 1..22
  BY ProgressRange
<1>3. CASE EntryMove(l, d, m, e)
  BY <1>1, <1>2, <1>3, ProgressAt DEF EntryMove, ProgressTable, Ahead
<1>4. CASE PlainMove(l, d, m, e)
  <2>1. l.pc \in PlainPoint
    BY <1>4 DEF PlainMove
  <2>2. /\ NextPoint(l) # "interrupt_trace" /\ Progress(l.pc) <= Progress(NextPoint(l))
    BY <1>2, <2>1, PlainProgress, ProgressRange
  <2>3. m.pc = NextPoint(l) \/ m.pc \in RaisedTo
    BY <1>4 DEF PlainMove
  <2> QED BY <1>1, <1>2, <2>2, <2>3 DEF Ahead
<1>5. CASE GraphMove(l, d, m, e)
  <2>1. \/ l.pc = "propose" /\ m.pc \in {"create_graph", "response_rendered"} \cup RaisedTo
        \/ l.pc = "create_graph" /\ m.pc \in {"move_proposed"} \cup RaisedTo
        \/ l.pc = "hook" /\ m.pc \in {"load_task", "hook_changed"} \cup RaisedTo
        \/ l.pc = "load_task" /\ m.pc \in {"load_unit"} \cup RaisedTo
        \/ l.pc = "load_unit" /\ m.pc \in {"save_gate"} \cup RaisedTo
        \/ l.pc = "save_gate" /\ m.pc \in {"gate_recorded"} \cup RaisedTo
        \/ l.pc = "authorize" /\ m.pc \in {"insert_tool"} \cup RaisedTo
    BY <1>5 DEF GraphMove
  <2> QED BY <1>1, <1>2, <2>1, ProgressAt DEF ProgressTable, Ahead
<1>6. CASE ToolMove(l, d, m, e)
  <2>1. \/ l.pc = "insert_tool" /\ m.pc \in {"fence"} \cup RaisedTo
        \/ l.pc = "fence" /\ m.pc \in {"dispatch"} \cup RaisedTo
        \/ l.pc = "dispatch" /\ m.pc = "await_order"
        \/ l.pc = "await_order" /\ m.pc \in {"finalize_tool", "interrupt_tool"} \cup RaisedTo
        \/ l.pc = "finalize_tool" /\ m.pc \in {"save_observation", "tool_created"} \cup RaisedTo
        \/ l.pc = "save_observation" /\ m.pc \in {"tool_created"} \cup RaisedTo
        \/ l.pc = "interrupt_tool" /\ m.pc \in RaisedTo
        \/ l.pc = "interrupt_tool" /\ m.pc = "interrupt_trace" /\ d.tool = "RUNNING"
        \/ l.pc = "interrupt_trace" /\ m.pc \in RaisedTo
    BY <1>6 DEF ToolMove, ToolCallFinalizable
  <2> QED BY <1>1, <1>2, <2>1, ProgressAt DEF ProgressTable, Ahead
<1>7. CASE AnswerMove(l, d, m, e)
  <2>1. \/ l.pc = "plan" /\ m.pc \in {"plan_proposed", "response_rendered"} \cup RaisedTo
        \/ l.pc = "render" /\ m.pc = "response_rendered"
        \/ l.pc = "finalize" /\ m.pc \in {"returned"} \cup RaisedTo
        \/ m.pc \in RaisedTo
    BY <1>7 DEF AnswerMove
  <2> QED BY <1>1, <1>2, <2>1, ProgressAt DEF ProgressTable, Ahead
<1> QED BY <1>3, <1>4, <1>5, <1>6, <1>7 DEF Moves

\* The events a handler writes, at the points where it writes them.
Records(l, d, m, e) ==
  \/ e.trace = d.trace
  \/ /\ l.pc \in PlainPoint \cup {"interrupt_trace"} /\ Progress(l.pc) < Progress(m.pc)
     /\ \E w \in TraceEventType :
          /\ e.trace = Append(d.trace, w) /\ Place(w) \in {0, Progress(l.pc)}
          /\ w \in CountedEvent =>
               IF w = "ToolCallInterrupted" THEN l.pc = "interrupt_trace"
               ELSE Place(w) = Progress(l.pc)
  \/ \E stop, task, unit : d.run = "RUNNING" /\ e = RunCompleted(d, stop, task, unit)

LEMMA MoveRecords ==
  ASSUME NEW l, NEW d, NEW m, NEW e, d \in Aggregate, Moves(l, d, m, e)
  PROVE  Records(l, d, m, e)
<1>1. \A point \in RaisedTo : Progress(point) = 22
  BY ProgressEnds
<1>2. CASE EntryMove(l, d, m, e)
  <2>1. e \in {d, RunInserted(d), RunStarted(d)}
    BY <1>2 DEF EntryMove, May
  <2> QED BY <2>1, SameTrace DEF Records
<1>3. CASE PlainMove(l, d, m, e)
  <2> DEFINE w == WriteAt(l)
  <2>1. l.pc \in PlainPoint /\ (m.pc = NextPoint(l) \/ m.pc \in RaisedTo)
          /\ e \in {d, Written(d, w)}
    BY <1>3 DEF PlainMove
  <2>2. CASE w \in Document \/ e = d
    BY <2>1, <2>2, SameTrace DEF Records
  <2>3. CASE w \notin Document /\ e = Written(d, w)
    <3>1. /\ Progress(l.pc) < Progress(NextPoint(l)) /\ Place(w) \in {0, Progress(l.pc)}
          /\ w \in CountedEvent => Place(w) = Progress(l.pc)
      BY <2>1, <2>3, PlainProgress
    <3>2. Progress(l.pc) \in 1..22 /\ Progress(NextPoint(l)) \in 1..22
      BY ProgressRange
    <3>3. Progress(l.pc) < Progress(m.pc)
      BY <1>1, <2>1, <3>1, <3>2
    <3>4. w \in TraceEventType
      BY <2>1, <2>3, WriteAtType
    <3>5. e.trace = Append(d.trace, w)
      BY <2>3, SameTrace
    <3>6. w \in CountedEvent => w # "ToolCallInterrupted"
      BY <3>1, <3>2, PlaceAt DEF PlaceTable
    <3> HIDE DEF w
    <3> QED BY <2>1, <3>1, <3>3, <3>4, <3>5, <3>6 DEF Records
  <2> QED BY <2>1, <2>2, <2>3
<1>4. CASE GraphMove(l, d, m, e)
  <2>1. e \in {d, GraphCreated(d), TaskTransitioned(d, InitialRow, InitialRow, "WAITING_USER"),
               Written(d, "GATE_DECISION")}
    BY <1>4 DEF GraphMove, May
  <2>2. "GATE_DECISION" \in Document
    BY DEF Document
  <2> QED BY <2>1, <2>2, SameTrace DEF Records
<1>5. CASE ToolMove(l, d, m, e)
  <2>1. CASE l.pc = "interrupt_trace"
    <3>1. e \in {d, Written(d, "ToolCallInterrupted")} /\ m.pc \in RaisedTo
      BY <1>5, <2>1 DEF ToolMove
    <3>2. /\ Progress(l.pc) = 13 /\ Place("ToolCallInterrupted") = 0
          /\ "ToolCallInterrupted" \in TraceEventType \ Document
      BY <2>1, ProgressAt, PlaceAt DEF ProgressTable, PlaceTable, TraceEventType, Document
    <3>3. e.trace \in {d.trace, Append(d.trace, "ToolCallInterrupted")}
      BY <3>1, <3>2, SameTrace
    <3> QED BY <1>1, <2>1, <3>1, <3>2, <3>3 DEF Records
  <2>2. CASE l.pc # "interrupt_trace"
    <3>1. \/ e \in {d, ToolCallInserted(d, InitialRow.version), ToolCallStarted(d),
                    ToolCallFinalized(d, TerminalStatus(l.outcome)), ObservationSaved(d),
                    ToolCallFinalized(d, "INTERRUPTED")}
      BY <1>5, <2>2 DEF ToolMove, May
    <3> QED BY <3>1, SameTrace DEF Records
  <2> QED BY <2>1, <2>2
<1>6. CASE AnswerMove(l, d, m, e)
  <2>1. \/ e \in {d, RunFailed(d, l.cursor)}
        \/ d.run = "RUNNING" /\ e = RunCompleted(d, l.stop, l.task, l.unit)
    BY <1>6 DEF AnswerMove, May, RunFinalizable
  <2>2. \A task : RunFailed(d, task).trace = d.trace
    BY SameTrace
  <2> QED BY <2>1, <2>2 DEF Records
<1> QED BY <1>2, <1>3, <1>4, <1>5, <1>6 DEF Moves

LEMMA CompletedPaced ==
  ASSUME NEW l, NEW d, NEW m, NEW e, d \in Aggregate, e \in Aggregate, Paced(l, d),
         d.run = "RUNNING", NEW stop, NEW task, NEW unit, e = RunCompleted(d, stop, task, unit),
         Progress(l.pc) <= Progress(m.pc),
         m.pc = "interrupt_trace" => "ToolCallInterrupted" \notin Traced(d)
  PROVE  Paced(m, e)
<1> DEFINE n == Progress(l.pc) + Ending(d)
           p == Progress(l.pc)
           n2 == Progress(m.pc) + Ending(e)
           p2 == Progress(m.pc)
           k == n + 3
<1>1. Progress(l.pc) \in 1..22 /\ Progress(m.pc) \in 1..22 /\ Ending(d) = 0
  BY ProgressRange DEF Ending, TerminalRun
<1>2. e.run = "COMPLETED"
  BY DEF RunCompleted, TaskTransitioned, LinkClosed, Aggregate
<1>3. Ending(e) = 3
  BY <1>2 DEF Ending, TerminalRun
<1>4. Even(d.trace, n, p) /\ n \in Nat /\ p \in Nat /\ 0 < p
  BY <1>1, PacedEven
<1>5. k <= n2 /\ p <= p2 /\ k \in Int /\ n2 \in Int /\ p \in Int /\ p2 \in Int
  BY <1>1, <1>3
<1> HIDE DEF n, p, n2, p2
<1>6. /\ Even(e.trace, k, p)
      /\ "ToolCallInterrupted" \notin Traced(d) => "ToolCallInterrupted" \notin Traced(e)
  BY <1>4, CompletedEven
<1>7. e.trace \in Seq(TraceEventType)
  BY DEF Aggregate
<1> HIDE DEF k
<1>8. Even(e.trace, n2, p2)
  BY ONLY <1>5, <1>6, <1>7, EvenMore
<1> QED BY <1>6, <1>8, PacedEven DEF n2, p2

LEMMA MovePaced ==
  ASSUME NEW l, NEW d, NEW m, NEW e, Kept(d), Kept(e), Truthful(d), Paced(l, d),
         d.run \in TerminalRun => e.run \in TerminalRun, Moves(l, d, m, e)
  PROVE  Paced(m, e)
<1>1. Ahead(l, d, m) /\ Records(l, d, m, e)
  BY MoveAhead, MoveRecords DEF Kept
<1>2. /\ d \in Aggregate /\ e \in Aggregate /\ Progress(l.pc) <= Progress(m.pc)
      /\ Progress(l.pc) \in 1..22 /\ Progress(m.pc) \in 1..22
  BY <1>1, ProgressRange DEF Kept, Ahead
<1>3. m.pc = "interrupt_trace" => "ToolCallInterrupted" \notin Traced(d)
  BY <1>1 DEF Ahead, Truthful, Told
<1>4. CASE e.trace = d.trace
  BY <1>2, <1>3, <1>4, PacedStays
<1>5. CASE \E stop, task, unit : d.run = "RUNNING" /\ e = RunCompleted(d, stop, task, unit)
  BY <1>2, <1>3, <1>5, CompletedPaced
<1>6. CASE /\ l.pc \in PlainPoint \cup {"interrupt_trace"} /\ Progress(l.pc) < Progress(m.pc)
           /\ \E w \in TraceEventType :
                /\ e.trace = Append(d.trace, w) /\ Place(w) \in {0, Progress(l.pc)}
                /\ w \in CountedEvent =>
                     IF w = "ToolCallInterrupted" THEN l.pc = "interrupt_trace"
                     ELSE Place(w) = Progress(l.pc)
  <2>1. PICK w \in TraceEventType :
               /\ e.trace = Append(d.trace, w) /\ Place(w) \in {0, Progress(l.pc)}
               /\ w \in CountedEvent =>
                    IF w = "ToolCallInterrupted" THEN l.pc = "interrupt_trace"
                    ELSE Place(w) = Progress(l.pc)
    BY <1>6
  <2>2. w \in CountedEvent => w \notin Traced(d)
    BY <1>2, <2>1 DEF Paced
  <2>3. Place(w) < Progress(m.pc)
    BY <1>2, <1>6, <2>1
  <2>4. m.pc # "interrupt_trace"
    BY <1>1, <1>6 DEF Ahead, PlainPoint
  <2> QED BY <1>2, <1>6, <2>1, <2>2, <2>3, <2>4, PacedWrites
<1> QED BY <1>1, <1>4, <1>5, <1>6 DEF Records

\* A step that is not one of its handler: nothing, a crash, the start of the
\* handler, or a recovery of the Run.
Outside(l, d, m, e) ==
  /\ \/ m = l \/ m.pc = "dead"
     \/ l.pc = "idle" /\ e = d /\ m.pc \notin ServicePoint \cup ExecutorPoint
  /\ e = d \/ (Recoverable(d) /\ e = Recovered(d))

LEMMA GoodStep ==
  ASSUME IndInv, [Next]_vars, NEW q \in Runs
  PROVE  Good(h'[q], db'[q])
<1>1. IndInv'
  BY NextIndInv
<1>2. IndInv' => Good(h'[q], db'[q])
  BY DEF IndInv, TypeOK, Good, Kept
<1> QED BY <1>1, <1>2

LEMMA StepMoves ==
  ASSUME IndInv, [Next]_vars, NEW q \in Runs
  PROVE  Moves(h[q], db[q], h'[q], db'[q]) \/ Outside(h[q], db[q], h'[q], db'[q])
<1>1. CASE HandlerStep(q)
  BY <1>1, HandlerMoves
<1>2. CASE ~HandlerStep(q)
  <2> DEFINE l == h[q]
             d == db[q]
             m == h'[q]
             e == db'[q]
  <2>1. /\ m = l \/ m.pc = "dead" \/ l.pc = "idle"
        /\ e = d \/ (Recoverable(d) /\ e = Recovered(d))
    BY <1>2, RecordStep
  <2>2. Good(l, d) /\ Good(m, e)
    BY IndInvGood, GoodStep
  <2> HIDE DEF l, d, m, e
  <2>3. l.pc = "idle" => d.run = "ABSENT"
    BY <2>2 DEF Good, Stage, UnstartedPoint
  <2>4. l.pc = "idle" => e = d
    BY <2>1, <2>3 DEF Recoverable, ActiveRun
  <2>5. m.pc \in ServicePoint \cup ExecutorPoint => e.run # "ABSENT"
    BY <2>2, RunningStage
  <2>6. Outside(l, d, m, e)
    BY <2>1, <2>3, <2>4, <2>5 DEF Outside
  <2> QED BY <2>6 DEF l, d, m, e
<1> QED BY <1>1, <1>2

LEMMA OutsidePaced ==
  ASSUME NEW l, NEW d, NEW m, NEW e, Good(l, d), Kept(e), Truthful(d), Paced(l, d),
         d.run \in TerminalRun => e.run \in TerminalRun, Outside(l, d, m, e)
  PROVE  Paced(m, e)
<1>1. Progress(l.pc) \in 1..22 /\ Progress(m.pc) \in 1..22
  BY ProgressRange
<1>2. /\ Progress(l.pc) <= Progress(m.pc)
      /\ m.pc = "interrupt_trace" => l.pc = "interrupt_trace"
  <2>1. CASE m = l
    BY <1>1, <2>1
  <2>2. CASE m.pc = "dead"
    BY <1>1, <2>2, ProgressEnds
  <2>3. CASE l.pc = "idle" /\ m.pc \notin ServicePoint \cup ExecutorPoint
    BY <1>1, <2>3, ProgressAt DEF ProgressTable, ExecutorPoint
  <2> QED BY <2>1, <2>2, <2>3 DEF Outside
<1>3. Kept(d) /\ d \in Aggregate /\ e \in Aggregate
  BY DEF Good, Kept
<1>4. CASE e = d
  <2>1. m.pc = "interrupt_trace" => "ToolCallInterrupted" \notin Traced(d)
    BY <1>2 DEF Paced
  <2> QED BY <1>2, <1>3, <1>4, <2>1, PacedStays
<1>5. CASE Recoverable(d) /\ e = Recovered(d)
  <2>1. m.pc = "interrupt_trace" => d.tool = "INTERRUPTED"
    BY <1>2 DEF Good, ToolAt
  <2> QED BY <1>2, <1>3, <1>5, <2>1, RecoveredPaced
<1> QED BY <1>4, <1>5 DEF Outside

LEMMA TerminalStep ==
  ASSUME IndInv, [Next]_vars, NEW q \in Runs, db[q].run \in TerminalRun
  PROVE  db'[q].run \in TerminalRun
<1>1. Verdict(db'[q]) = Verdict(db[q])
  BY VerdictStep
<1> DEFINE d == db[q]
           e == db'[q]
<1>2. Verdict(e).run = e.run /\ Verdict(d).run = d.run
  BY DEF Verdict
<1> HIDE DEF d, e
<1>3. e.run = d.run
  BY <1>1, <1>2 DEF d, e
<1> QED BY <1>3 DEF d, e

LEMMA PacedStep ==
  ASSUME IndInv, [Next]_vars, NEW q \in Runs, Truthful(db[q]), Paced(h[q], db[q])
  PROVE  Paced(h'[q], db'[q])
<1> DEFINE l == h[q]
           d == db[q]
           m == h'[q]
           e == db'[q]
<1>1. Good(l, d) /\ Kept(d) /\ Kept(e)
  BY IndInvGood, KeptStep
<1>2. d.run \in TerminalRun => e.run \in TerminalRun
  BY TerminalStep
<1>3. Moves(l, d, m, e) \/ Outside(l, d, m, e)
  BY StepMoves
<1>4. Truthful(d) /\ Paced(l, d)
  OBVIOUS
<1> HIDE DEF l, d, m, e
<1>5. Paced(m, e)
  BY <1>1, <1>2, <1>3, <1>4, MovePaced, OutsidePaced
<1> QED BY <1>5 DEF l, d, m, e

-------------------------------------------------------------------------------
(* How a Run is concluded.                                                  *)

\* The rows an active Run can have for its Task.
LEMMA ActiveRow ==
  ASSUME NEW d, Kept(d), d.run \in ActiveRun
  PROVE  d.task \in {NoRow, InitialRow, WaitingRow} /\ d.unit = d.task
  BY DEF Kept, Consistent, GraphConsistent, ActiveRun, TerminalRun, Aggregate

LEMMA RowValues ==
  /\ NoRow.version = 0 /\ NoRow.status = "ABSENT"
  /\ InitialRow.version = 1 /\ InitialRow.status = "ACTIVE"
  /\ WaitingRow.version = 2 /\ WaitingRow.status = "WAITING_USER"
  /\ WaitingRow = Moved(InitialRow, "WAITING_USER")
  /\ \A row, status : Moved(row, status).version = row.version + 1
                        /\ Moved(row, status).status = status
  /\ \A row \in {InitialRow, WaitingRow} : \A status :
       Moved(row, status) # NoRow /\ Moved(row, status).version \in {2, 3}
  BY DEF NoRow, InitialRow, WaitingRow, Moved

\* A write that leaves the Run, its Task and its ToolCall.
LEMMA SameConcluded ==
  ASSUME NEW d, NEW e, Concluded(d), e.run = d.run, e.stop = d.stop, e.task = d.task,
         e.tool = d.tool, e.validated = d.validated
  PROVE  Concluded(e)
  BY DEF Concluded

LEMMA WrittenConcluded ==
  ASSUME NEW d, NEW e, d \in Aggregate, Concluded(d), NEW w, e = d \/ e = Written(d, w)
  PROVE  Concluded(e)
<1>1. /\ Written(d, w).run = d.run /\ Written(d, w).stop = d.stop
      /\ Written(d, w).task = d.task /\ Written(d, w).tool = d.tool
      /\ Written(d, w).validated = d.validated
  BY DEF Written, Aggregate
<1> QED BY <1>1, SameConcluded

\* A Run that is not yet closed, and has no ToolCall.
LEMMA ToollessConcluded ==
  ASSUME NEW e, e.tool = "ABSENT", e.run \in {"ABSENT", "CREATED", "RUNNING", "FAILED"},
         e.task.version = 1 => e.task.status = "ACTIVE"
  PROVE  Concluded(e)
  BY DEF Concluded

LEMMA EntryConcluded ==
  ASSUME NEW l, NEW d, NEW m, NEW e, Kept(d), Concluded(d), EntryMove(l, d, m, e)
  PROVE  Concluded(e)
<1>1. CASE e = d
  BY <1>1
<1>2. CASE d.run = "ABSENT" /\ e = RunInserted(d)
  <2>1. d.task = NoRow /\ d.tool = "ABSENT"
    BY <1>2 DEF Kept, Consistent, GraphConsistent, ToolConsistent
  <2>2. e.run = "CREATED" /\ e.task = d.task /\ e.tool = d.tool
    BY <1>2 DEF RunInserted, Kept, Aggregate
  <2> QED BY <2>1, <2>2, ToollessConcluded, RowValues
<1>3. CASE RunStartable(d) /\ e = RunStarted(d)
  <2>1. d.task = NoRow /\ d.tool = "ABSENT"
    BY <1>3 DEF RunStartable, Kept, Consistent, GraphConsistent, ToolConsistent
  <2>2. e.run = "RUNNING" /\ e.task = d.task /\ e.tool = d.tool
    BY <1>3 DEF RunStarted, Kept, Aggregate
  <2> QED BY <2>1, <2>2, ToollessConcluded, RowValues
<1> QED BY <1>1, <1>2, <1>3 DEF EntryMove, May

LEMMA GraphConcluded ==
  ASSUME NEW l, NEW d, NEW m, NEW e, Good(l, d), Concluded(d), GraphMove(l, d, m, e)
  PROVE  Concluded(e)
<1>1. Kept(d) /\ d \in Aggregate /\ ToolConsistent(d)
  BY DEF Good, Kept, Consistent
<1>2. CASE e = d
  BY <1>2
<1>3. CASE GraphCreatable(d) /\ e = GraphCreated(d)
  <2>1. d.tool = "ABSENT" /\ d.run = "RUNNING"
    BY <1>1, <1>3 DEF GraphCreatable, ToolConsistent
  <2>2. e.run = d.run /\ e.task = InitialRow /\ e.tool = d.tool
    BY <1>1, <1>3 DEF GraphCreated, Aggregate
  <2> QED BY <2>1, <2>2, ToollessConcluded, RowValues
<1>4. CASE /\ l.pc = "hook" /\ TransitionApplies(d, InitialRow, InitialRow)
           /\ e = TaskTransitioned(d, InitialRow, InitialRow, "WAITING_USER")
  <2>1. d.tool = "ABSENT" /\ d.run \in {"RUNNING", "INCOMPLETE"}
    BY <1>4 DEF Good, ToolAt, Stage, DecidingPoint, ServicePoint
  <2>2. d.run = "RUNNING"
    BY <1>1, <1>4, <2>1, RowValues
    DEF Kept, Consistent, GraphConsistent, TransitionApplies, ActiveTask
  <2>3. e.run = d.run /\ e.task = WaitingRow /\ e.tool = d.tool
    BY <1>1, <1>4 DEF TaskTransitioned, Aggregate, WaitingRow
  <2> QED BY <2>1, <2>2, <2>3, ToollessConcluded, RowValues
<1>5. CASE e = Written(d, "GATE_DECISION")
  BY <1>1, <1>5, WrittenConcluded
<1> QED BY <1>2, <1>3, <1>4, <1>5 DEF GraphMove, May

LEMMA ToolConcluded ==
  ASSUME NEW l, NEW d, NEW m, NEW e, Good(l, d), Concluded(d), ToolMove(l, d, m, e)
  PROVE  Concluded(e)
<1>1. Kept(d) /\ d \in Aggregate /\ ToolConsistent(d)
  BY DEF Good, Kept, Consistent
<1>2. CASE e = d
  BY <1>2
<1>3. CASE /\ l.pc = "insert_tool" /\ ToolCallInsertable(d)
           /\ e = ToolCallInserted(d, InitialRow.version)
  <2>1. d.run = "RUNNING"
    BY <1>3 DEF ToolCallInsertable
  <2>2. d.task = InitialRow
    BY <1>3, <2>1 DEF Good, Stage, InStep, LoadedPoint, AuthorizedPoint
  <2>3. e.run = d.run /\ e.task = d.task /\ e.tool = "CREATED" /\ e.validated = 1
    BY <1>1, <1>3, RowValues DEF ToolCallInserted, Aggregate
  <2> QED BY <2>1, <2>2, <2>3, RowValues DEF Concluded
<1>4. CASE /\ d.tool # "ABSENT"
           /\ \/ e \in {ToolCallStarted(d), ObservationSaved(d)}
              \/ \E status \in ToolCallStatus : e = ToolCallFinalized(d, status)
  <2>1. /\ e.run = d.run /\ e.stop = d.stop /\ e.task = d.task /\ e.validated = d.validated
        /\ e.tool # "ABSENT"
    BY <1>1, <1>4
    DEF ToolCallStarted, ToolCallFinalized, ObservationSaved, Aggregate, ToolCallStatus,
        ActiveToolCall
  <2> QED BY <1>4, <2>1 DEF Concluded
<1>5. CASE e = Written(d, "ToolCallInterrupted")
  BY <1>1, <1>5, WrittenConcluded
<1>6. TerminalStatus(l.outcome) \in ToolCallStatus /\ "INTERRUPTED" \in ToolCallStatus
  BY DEF TerminalStatus, ToolCallStatus
<1> QED BY <1>2, <1>3, <1>4, <1>5, <1>6
        DEF ToolMove, May, ToolCallStartable, ToolCallFinalizable, ObservationSourced

\* The columns of an answered Run.
LEMMA CompletedColumns ==
  ASSUME NEW d, Kept(d), NEW stop, NEW cursor, NEW task, NEW unit,
         RunFinalizable(d, LinksOf(cursor), task, unit), NEW e,
         e = RunCompleted(d, stop, task, unit)
  PROVE  /\ e.run = "COMPLETED" /\ e.stop = stop /\ e.tool = d.tool
         /\ e.validated = d.validated /\ e.observation = d.observation
         /\ IF d.task = NoRow THEN cursor = NoRow /\ e.task = NoRow
            ELSE cursor # NoRow /\ task \in {InitialRow, WaitingRow} /\ task = d.task
                   /\ e.task = Moved(task, TargetStatus(stop))
<1>1. /\ d \in Aggregate /\ d.run = "RUNNING" /\ d.link = LinksOf(cursor)
      /\ d.link = "OPEN" => d.task = task
      /\ d.task \in {NoRow, InitialRow, WaitingRow}
      /\ d.link = "ABSENT" <=> d.task = NoRow
  <2>1. d.run = "RUNNING" /\ d.link = LinksOf(cursor) /\ (d.link = "OPEN" => d.task = task)
    BY DEF RunFinalizable
  <2>2. d.run \in ActiveRun
    BY <2>1 DEF ActiveRun
  <2> QED BY <2>1, <2>2, ActiveRow DEF Kept, Consistent, GraphConsistent
<1>2. /\ e.run = "COMPLETED" /\ e.stop = stop /\ e.tool = d.tool
      /\ e.validated = d.validated /\ e.observation = d.observation
  BY <1>1 DEF RunCompleted, LinkClosed, TaskTransitioned, Aggregate
<1>3. e.task = IF d.link = "OPEN" THEN Moved(task, TargetStatus(stop)) ELSE d.task
  BY <1>1 DEF RunCompleted, LinkClosed, TaskTransitioned, Aggregate
<1> QED BY <1>1, <1>2, <1>3 DEF LinksOf

LEMMA AnswerConcluded ==
  ASSUME NEW l, NEW d, NEW m, NEW e, Good(l, d), Concluded(d), Reported(l, d),
         AnswerMove(l, d, m, e)
  PROVE  Concluded(e)
<1>1. Kept(d) /\ d \in Aggregate
  BY DEF Good, Kept
<1>2. CASE e = d
  BY <1>2
<1>3. CASE /\ l.pc = "finalize" /\ RunFinalizable(d, LinksOf(l.cursor), l.task, l.unit)
           /\ e = RunCompleted(d, l.stop, l.task, l.unit)
  <2>1. /\ l.cursor = NoRow => l.stop \in TasklessReason
        /\ l.stop = "INPUT_INVALID" => l.cursor = NoRow
    BY <1>3 DEF Reported, Good, Stage, Deserved, AnswerPoint
  <2>2. /\ e.run = "COMPLETED" /\ e.stop = l.stop /\ e.tool = d.tool
        /\ e.validated = d.validated
        /\ IF d.task = NoRow THEN l.cursor = NoRow /\ e.task = NoRow
           ELSE l.cursor # NoRow /\ l.task \in {InitialRow, WaitingRow} /\ l.task = d.task
                  /\ e.task = Moved(l.task, TargetStatus(l.stop))
    BY <1>1, <1>3, CompletedColumns
  <2>3. CASE d.task = NoRow
    BY <2>1, <2>2, <2>3, RowValues DEF Concluded
  <2>4. CASE d.task # NoRow
    <3>1. /\ e.task # NoRow /\ e.task.version \in {2, 3} /\ e.task.status = TargetStatus(l.stop)
      BY <2>2, <2>4, RowValues
    <3> QED BY <2>1, <2>2, <2>4, <3>1 DEF Concluded
  <2> QED BY <2>3, <2>4
<1>4. CASE /\ RunFinalizable(d, LinksOf(l.cursor), l.cursor, NoRow) /\ e = RunFailed(d, l.cursor)
  <2>1. /\ d.run = "RUNNING" /\ e.run = "FAILED" /\ e.task = d.task /\ e.tool = d.tool
        /\ e.validated = d.validated
    BY <1>1, <1>4 DEF RunFinalizable, RunFailed, LinkClosed, Aggregate
  <2> QED BY <2>1 DEF Concluded
<1> QED BY <1>2, <1>3, <1>4 DEF AnswerMove, May

LEMMA RecoveredConcluded ==
  ASSUME NEW d, Kept(d), Concluded(d), Recoverable(d), NEW e, e = Recovered(d)
  PROVE  Concluded(e)
<1>1. d \in Aggregate /\ d.task \in {NoRow, InitialRow, WaitingRow}
  BY ActiveRow DEF Recoverable, Kept
<1>2. /\ e.run = "INCOMPLETE" /\ e.validated = d.validated
      /\ e.tool = IF d.tool \in ActiveToolCall THEN "INTERRUPTED" ELSE d.tool
      /\ e.task = IF d.task.status \in ActiveTask THEN Moved(d.task, "BLOCKED") ELSE d.task
  BY <1>1 DEF Recovered, LinkClosed, Aggregate
<1>3. d.task # NoRow => d.task.status \in ActiveTask
  BY <1>1, RowValues DEF ActiveTask
<1>4. CASE d.task = NoRow
  <2>1. d.task.status \notin ActiveTask /\ d.tool = "ABSENT"
    BY <1>4, RowValues DEF ActiveTask, Kept, Consistent, GraphConsistent, ToolConsistent
  <2> QED BY <1>2, <1>4, <2>1, RowValues DEF Concluded, ActiveToolCall
<1>5. CASE d.task # NoRow
  <2>1. e.task.version \in {2, 3} /\ e.task = Moved(d.task, "BLOCKED")
    BY <1>1, <1>2, <1>3, <1>5, RowValues
  <2>2. e.tool # "ABSENT" => d.tool # "ABSENT"
    BY <1>2 DEF ActiveToolCall
  <2> QED BY <1>2, <2>1, <2>2 DEF Concluded
<1> QED BY <1>4, <1>5

LEMMA ConcludedStep ==
  ASSUME NEW l, NEW d, NEW m, NEW e, Good(l, d), Concluded(d), Reported(l, d),
         Moves(l, d, m, e) \/ Outside(l, d, m, e)
  PROVE  Concluded(e)
<1>1. Kept(d) /\ d \in Aggregate
  BY DEF Good, Kept
<1>2. CASE PlainMove(l, d, m, e)
  <2>1. e = d \/ e = Written(d, WriteAt(l))
    BY <1>2 DEF PlainMove
  <2> QED BY <1>1, <2>1, WrittenConcluded
<1>3. CASE Outside(l, d, m, e)
  BY <1>1, <1>3, RecoveredConcluded DEF Outside
<1> QED BY <1>1, <1>2, <1>3, EntryConcluded, GraphConcluded, ToolConcluded, AnswerConcluded
        DEF Moves

-------------------------------------------------------------------------------
(* What the Trace has told.                                                 *)

\* A later Trace of the same ToolCall and Observation.
Retold(d, e) ==
  Traced(d) \subseteq Traced(e) /\ e.tool = d.tool /\ e.observation = d.observation

LEMMA RetoldTold ==
  ASSUME NEW d, NEW e, Retold(d, e)
  PROVE  /\ ToolTold(d) => ToolTold(e)
         /\ ObservationTold(d) => ObservationTold(e)
  BY DEF Retold, ToolTold, ObservationTold

LEMMA AppendHolds ==
  ASSUME NEW s \in Seq(TraceEventType), NEW x \in TraceEventType
  PROVE  EventsIn(s) \subseteq EventsIn(Append(s, x)) /\ x \in EventsIn(Append(s, x))
<1>1. /\ Len(s) \in Nat /\ DOMAIN s = 1..Len(s)
      /\ DOMAIN Append(s, x) = 1..(Len(s) + 1)
      /\ \A i \in 1..Len(s) : Append(s, x)[i] = s[i]
      /\ Append(s, x)[Len(s) + 1] = x
  OBVIOUS
<1> QED BY <1>1 DEF EventsIn

LEMMA AppendTells ==
  ASSUME NEW d, NEW e, d \in Aggregate, NEW x \in TraceEventType, e.trace = Append(d.trace, x)
  PROVE  Traced(d) \subseteq Traced(e) /\ x \in Traced(e)
<1>1. d.trace \in Seq(TraceEventType)
  BY DEF Aggregate
<1>2. EventsIn(d.trace) \subseteq EventsIn(e.trace) /\ x \in EventsIn(e.trace)
  BY <1>1, AppendHolds
<1> QED BY <1>2 DEF EventsIn, Traced

LEMMA WrittenRetold ==
  ASSUME NEW d, NEW e, d \in Aggregate, NEW w \in Document \cup TraceEventType,
         e = d \/ e = Written(d, w)
  PROVE  /\ Retold(d, e) /\ e.run = d.run /\ e.link = d.link
         /\ Traced(e) \subseteq Traced(d) \cup {w}
         /\ e = Written(d, w) /\ w \notin Document => w \in Traced(e)
<1>1. CASE e = d
  <2>1. e = Written(d, w) /\ w \notin Document => w \in Traced(e)
    <3>1. SUFFICES ASSUME d = Written(d, w), w \notin Document PROVE FALSE
      BY <1>1
    <3>2. d.trace = Append(d.trace, w) /\ d.trace \in Seq(TraceEventType)
      BY <3>1, SameTrace DEF Aggregate
    <3> QED BY <3>2
  <2> QED BY <1>1, <2>1 DEF Retold
<1>2. CASE e = Written(d, w)
  <2>1. e.tool = d.tool /\ e.observation = d.observation /\ e.run = d.run /\ e.link = d.link
    BY <1>2 DEF Written, Aggregate
  <2>2. Traced(e) \subseteq Traced(d) \cup {w}
    BY <1>2, WrittenTrace
  <2>3. CASE w \in Document
    <3>1. e.trace = d.trace
      BY <1>2, <2>3, SameTrace
    <3> QED BY <2>1, <2>2, <2>3, <3>1 DEF Retold, Traced
  <2>4. CASE w \notin Document
    <3>1. e.trace = Append(d.trace, w) /\ w \in TraceEventType
      BY <1>2, <2>4, SameTrace
    <3>2. Traced(d) \subseteq Traced(e) /\ w \in Traced(e)
      BY <3>1, AppendTells
    <3> QED BY <2>1, <2>2, <3>2 DEF Retold
  <2> QED BY <2>3, <2>4
<1> QED BY <1>1, <1>2

LEMMA CompletedRetold ==
  ASSUME NEW d \in Aggregate, NEW stop, NEW task, NEW unit, NEW e,
         e = RunCompleted(d, stop, task, unit)
  PROVE  /\ Retold(d, e)
         /\ Traced(e) \subseteq Traced(d) \cup {"TaskStateChanged", "RunStopped"}
<1>1. e.tool = d.tool /\ e.observation = d.observation
  BY DEF RunCompleted, LinkClosed, TaskTransitioned, Aggregate
<1> DEFINE moved == Append(d.trace, "TaskStateChanged")
           before == IF d.link = "OPEN" THEN moved ELSE d.trace
           after == Append(before, "RunStopped")
<1>2. e.trace = after
  BY DEF RunCompleted, LinkClosed, TaskTransitioned, Aggregate
<1>3. d.trace \in Seq(TraceEventType)
  BY DEF Aggregate
<1>4. /\ moved \in Seq(TraceEventType) /\ EventsIn(d.trace) \subseteq EventsIn(moved)
      /\ EventsIn(moved) \subseteq EventsIn(d.trace) \cup {"TaskStateChanged"}
  BY <1>3, EventsAppend, AppendHolds DEF TraceEventType
<1>5. /\ before \in Seq(TraceEventType) /\ EventsIn(d.trace) \subseteq EventsIn(before)
      /\ EventsIn(before) \subseteq EventsIn(d.trace) \cup {"TaskStateChanged"}
  BY <1>3, <1>4
<1> HIDE DEF moved, before
<1>6. /\ EventsIn(before) \subseteq EventsIn(after)
      /\ EventsIn(after) \subseteq EventsIn(before) \cup {"RunStopped"}
  BY <1>5, EventsAppend, AppendHolds DEF TraceEventType
<1>7. Traced(d) = EventsIn(d.trace) /\ Traced(e) = EventsIn(after)
  BY <1>2 DEF Traced, EventsIn
<1> QED BY <1>1, <1>5, <1>6, <1>7 DEF Retold

LEMMA RecoveredTold ==
  ASSUME NEW d \in Aggregate, NEW e, e = Recovered(d)
  PROVE  /\ ToolTold(d) => ToolTold(e)
         /\ ObservationTold(d) => ObservationTold(e)
         /\ "ToolResultNormalized" \in Traced(e) => "ToolResultNormalized" \in Traced(d)
         /\ e.tool \notin ActiveToolCall /\ e.run = "INCOMPLETE"
<1> DEFINE blocked == d.task.status \in ActiveTask
           cut == d.tool \in ActiveToolCall
           stopped == Append(d.trace, "RunStopped")
           changed == IF blocked THEN Append(stopped, "TaskStateChanged") ELSE stopped
           after == IF cut THEN Append(changed, "ToolCallInterrupted") ELSE changed
<1>1. /\ e.tool = (IF cut THEN "INTERRUPTED" ELSE d.tool) /\ e.observation = d.observation
      /\ e.run = "INCOMPLETE" /\ e.trace = after
  BY DEF Recovered, LinkClosed, Aggregate
<1>2. d.trace \in Seq(TraceEventType)
  BY DEF Aggregate
<1>3. /\ stopped \in Seq(TraceEventType) /\ EventsIn(d.trace) \subseteq EventsIn(stopped)
      /\ EventsIn(stopped) \subseteq EventsIn(d.trace) \cup {"RunStopped"}
  BY <1>2, EventsAppend, AppendHolds DEF TraceEventType
<1> HIDE DEF stopped
<1>4. LET x == Append(stopped, "TaskStateChanged") IN
      /\ x \in Seq(TraceEventType) /\ EventsIn(stopped) \subseteq EventsIn(x)
      /\ EventsIn(x) \subseteq EventsIn(stopped) \cup {"TaskStateChanged"}
  BY <1>3, EventsAppend, AppendHolds DEF TraceEventType
<1>5. /\ changed \in Seq(TraceEventType) /\ EventsIn(d.trace) \subseteq EventsIn(changed)
      /\ EventsIn(changed) \subseteq EventsIn(d.trace) \cup {"RunStopped", "TaskStateChanged"}
  BY <1>3, <1>4
<1> HIDE DEF changed
<1>6. LET x == Append(changed, "ToolCallInterrupted") IN
      /\ EventsIn(changed) \subseteq EventsIn(x) /\ "ToolCallInterrupted" \in EventsIn(x)
      /\ EventsIn(x) \subseteq EventsIn(changed) \cup {"ToolCallInterrupted"}
  BY <1>5, EventsAppend, AppendHolds DEF TraceEventType
<1>7. Traced(d) = EventsIn(d.trace) /\ Traced(e) = EventsIn(after)
  BY <1>1 DEF Traced, EventsIn
<1>8. /\ Traced(d) \subseteq Traced(e)
      /\ Traced(e) \subseteq Traced(d) \cup {"RunStopped", "TaskStateChanged", "ToolCallInterrupted"}
      /\ cut => "ToolCallInterrupted" \in Traced(e)
  BY <1>5, <1>6, <1>7
<1>9. CASE cut
  <2>1. ToolTold(e)
    BY <1>1, <1>8, <1>9 DEF ToolTold, LifecycleStatus
  <2> QED BY <1>1, <1>8, <1>9, <2>1 DEF ObservationTold, ActiveToolCall
<1>10. CASE ~cut
  <2>1. Retold(d, e)
    BY <1>1, <1>8, <1>10 DEF Retold
  <2> QED BY <1>1, <1>8, <1>10, <2>1, RetoldTold
<1> QED BY <1>9, <1>10

\* The plain inserts that lead to the points where the ToolCall is told.
ToldPoint == {"tool_normalized"} \cup ObservedPoint \cup AnswerPoint

LEMMA PlainArrives ==
  ASSUME NEW l, l.pc \in PlainPoint, NextPoint(l) \in ToldPoint
  PROVE  \/ l.pc = "gate_recorded" /\ NextPoint(l) = "response_rendered"
         \/ /\ l.pc = "tool_ended" /\ NextPoint(l) = "tool_normalized"
            /\ WriteAt(l) = TerminalEvent(l.outcome)
         \/ /\ l.pc = "tool_normalized" /\ WriteAt(l) = "ToolResultNormalized"
            /\ NextPoint(l) = IF l.outcome = "FOUND" THEN "observation_recorded"
                                                    ELSE "response_rendered"
         \/ /\ l.pc = "observation_recorded" /\ WriteAt(l) = "ObservationRecorded"
            /\ NextPoint(l) = "save_plan_manifest"
         \/ /\ l.pc \in {"save_plan_manifest", "plan_manifest_recorded", "plan_proposed"}
            /\ NextPoint(l) \in ObservedPoint
         \/ l.pc = "response_rendered" /\ NextPoint(l) = "finalize"
<1>1. CASE l.pc \in {"message_accepted", "run_started", "understanding_started",
                     "save_manifest", "manifest_recorded"}
  BY <1>1 DEF NextPoint, ToldPoint, ObservedPoint, AnswerPoint
<1>2. CASE l.pc \in {"move_proposed", "delta_validated", "delta_accepted", "binding_recorded",
                     "task_changed", "revalidated", "hook_changed"}
  BY <1>2 DEF NextPoint, ToldPoint, ObservedPoint, AnswerPoint
<1>3. CASE l.pc \in {"gate_recorded", "tool_created", "tool_started"}
  BY <1>3 DEF NextPoint, ToldPoint, ObservedPoint, AnswerPoint
<1>4. CASE l.pc = "tool_ended"
  BY <1>4 DEF NextPoint, WriteAt
<1>5. CASE l.pc = "tool_normalized"
  BY <1>5 DEF NextPoint, WriteAt
<1>6. CASE l.pc = "observation_recorded"
  BY <1>6 DEF NextPoint, WriteAt
<1>7. CASE l.pc \in {"save_plan_manifest", "plan_manifest_recorded", "plan_proposed",
                     "response_rendered"}
  BY <1>7 DEF NextPoint, ObservedPoint
<1> QED BY <1>1, <1>2, <1>3, <1>4, <1>5, <1>6, <1>7 DEF PlainPoint

LEMMA OnlyNormalized ==
  ASSUME NEW l, l.pc \in PlainPoint, WriteAt(l) = "ToolResultNormalized"
  PROVE  l.pc = "tool_normalized"
<1>1. CASE l.pc \in {"message_accepted", "run_started", "understanding_started",
                     "save_manifest", "manifest_recorded"}
  BY <1>1 DEF WriteAt
<1>2. CASE l.pc \in {"move_proposed", "delta_validated", "delta_accepted", "binding_recorded",
                     "task_changed", "revalidated", "hook_changed"}
  BY <1>2 DEF WriteAt
<1>3. CASE l.pc \in {"gate_recorded", "tool_created", "tool_started", "tool_ended"}
  BY <1>3 DEF WriteAt, TerminalEvent
<1>4. CASE l.pc \in {"observation_recorded", "save_plan_manifest", "plan_manifest_recorded",
                     "plan_proposed", "response_rendered"}
  BY <1>4 DEF WriteAt
<1> QED BY <1>1, <1>2, <1>3, <1>4 DEF PlainPoint

\* The terminal event names the status the ToolCall ended with.
LEMMA TerminalTold ==
  ASSUME NEW outcome
  PROVE  /\ TerminalEvent(outcome) \in DOMAIN LifecycleStatus
         /\ LifecycleStatus[TerminalEvent(outcome)] = TerminalStatus(outcome)
         /\ TerminalEvent(outcome) \in TraceEventType \ Document
         /\ TerminalStatus(outcome) \notin ActiveToolCall
         /\ TerminalStatus(outcome) = "SUCCEEDED" <=> outcome = "FOUND"
<1>1. CASE outcome = "FOUND"
  BY <1>1 DEF TerminalEvent, TerminalStatus, LifecycleStatus, TraceEventType, Document,
     ActiveToolCall
<1>2. CASE outcome = "TIMEOUT"
  BY <1>2 DEF TerminalEvent, TerminalStatus, LifecycleStatus, TraceEventType, Document,
     ActiveToolCall
<1>3. CASE outcome \notin {"FOUND", "TIMEOUT"}
  BY <1>3 DEF TerminalEvent, TerminalStatus, LifecycleStatus, TraceEventType, Document,
     ActiveToolCall
<1> QED BY <1>1, <1>2, <1>3

\* Reported, conjunct by conjunct.
Answerable(l, d) ==
  /\ l.pc \in ToldPoint => ToolTold(d)
  /\ l.pc \in ToldPoint \ {"tool_normalized", "observation_recorded"} => ObservationTold(d)
  /\ l.pc \in AnswerPoint /\ l.cursor = NoRow => l.stop \in TasklessReason
Normalized(d) == "ToolResultNormalized" \in Traced(d) => d.tool \notin ActiveToolCall
Answered(d) == d.run = "COMPLETED" => ToolTold(d) /\ ObservationTold(d)

LEMMA ReportedParts ==
  ASSUME NEW l, NEW d
  PROVE  Reported(l, d) <=> Normalized(d) /\ Answerable(l, d) /\ Answered(d)
<1>1. /\ (ObservedPoint \ {"observation_recorded"}) \cup AnswerPoint
           = ToldPoint \ {"tool_normalized", "observation_recorded"}
      /\ {"tool_normalized"} \cup ObservedPoint \cup AnswerPoint = ToldPoint
  BY DEF ToldPoint, ObservedPoint, AnswerPoint
<1> QED BY <1>1 DEF Reported, Normalized, Answerable, Answered

LEMMA PlainReported ==
  ASSUME NEW l, NEW d, NEW m, NEW e, Good(l, d), Good(m, e), Reported(l, d),
         PlainMove(l, d, m, e)
  PROVE  Reported(m, e)
<1> DEFINE w == WriteAt(l)
           next == NextPoint(l)
<1>1. /\ l.pc \in PlainPoint /\ e \in {d, Written(d, w)} /\ d \in Aggregate
      /\ w \in Document \cup TraceEventType
      /\ Normalized(d) /\ Answerable(l, d) /\ Answered(d)
      /\ ToolAt(l, d)
  BY ReportedParts, WriteAtType DEF PlainMove, Good, Kept
<1>2. /\ Retold(d, e) /\ e.run = d.run /\ e.link = d.link /\ Traced(e) \subseteq Traced(d) \cup {w}
      /\ e = Written(d, w) /\ w \notin Document => w \in Traced(e)
  BY <1>1, WrittenRetold
<1>3. /\ ToolTold(d) => ToolTold(e)
      /\ ObservationTold(d) => ObservationTold(e)
      /\ e.tool = d.tool /\ e.observation = d.observation
  BY <1>2, RetoldTold DEF Retold
<1>4. Answered(e)
  BY <1>1, <1>2, <1>3 DEF Answered
<1>5. Normalized(e)
  <2>1. CASE "ToolResultNormalized" \in Traced(d)
    BY <1>1, <1>3, <2>1 DEF Normalized
  <2>2. CASE w = "ToolResultNormalized"
    <3>1. l.pc = "tool_normalized"
      BY <1>1, <2>2, OnlyNormalized
    <3>2. d.tool = TerminalStatus(l.outcome)
      BY <1>1, <3>1 DEF ToolAt, ReadPoint
    <3> QED BY <1>3, <3>2, TerminalTold DEF Normalized
  <2> QED BY <1>2, <2>1, <2>2 DEF Normalized
<1>6. CASE m.pc \notin ToldPoint
  BY <1>4, <1>5, <1>6, ReportedParts DEF Answerable, ToldPoint
<1>7. CASE m.pc \in ToldPoint
  <2>1. /\ e = Written(d, w) /\ m.pc = next /\ m.cursor = l.cursor
        /\ l.pc = "response_rendered" => m.stop = l.stop
    BY <1>7 DEF PlainMove, ToldPoint, RaisedTo, ObservedPoint, AnswerPoint
  <2>2. \/ l.pc = "gate_recorded" /\ next = "response_rendered"
        \/ l.pc = "tool_ended" /\ next = "tool_normalized" /\ w = TerminalEvent(l.outcome)
        \/ /\ l.pc = "tool_normalized" /\ w = "ToolResultNormalized"
           /\ next = IF l.outcome = "FOUND" THEN "observation_recorded" ELSE "response_rendered"
        \/ l.pc = "observation_recorded" /\ w = "ObservationRecorded" /\ next = "save_plan_manifest"
        \/ /\ l.pc \in {"save_plan_manifest", "plan_manifest_recorded", "plan_proposed"}
           /\ next \in ObservedPoint
        \/ l.pc = "response_rendered" /\ next = "finalize"
    BY <1>1, <1>7, <2>1, PlainArrives
  <2>3. ToolConsistent(d) /\ Stage(l, d)
    BY DEF Good, Kept, Consistent
  <2> HIDE DEF w, next
  <2>4. CASE l.pc = "gate_recorded" /\ next = "response_rendered"
    <3>1. d.tool = "ABSENT" /\ ~d.observation /\ l.cursor # NoRow
      BY <1>1, <2>3, <2>4 DEF ToolAt, GatePoint, Stage, GraphPoint, LoadedPoint, ToolConsistent
    <3>2. ToolTold(e) /\ ObservationTold(e)
      BY <1>3, <3>1 DEF ToolTold, ObservationTold
    <3> QED BY <1>4, <1>5, <2>1, <3>1, <3>2, ReportedParts DEF Answerable
  <2>5. CASE l.pc = "tool_ended" /\ next = "tool_normalized" /\ w = TerminalEvent(l.outcome)
    <3>1. d.tool = TerminalStatus(l.outcome)
      BY <1>1, <2>5 DEF ToolAt, ReadPoint
    <3>2. w \in Traced(e) /\ w \in DOMAIN LifecycleStatus /\ LifecycleStatus[w] = e.tool
      BY <1>2, <1>3, <2>1, <2>5, <3>1, TerminalTold
    <3>3. ToolTold(e)
      BY <3>2 DEF ToolTold
    <3> QED BY <1>4, <1>5, <2>1, <2>5, <3>3, ReportedParts DEF Answerable, AnswerPoint
  <2>6. CASE /\ l.pc = "tool_normalized" /\ w = "ToolResultNormalized"
             /\ next = IF l.outcome = "FOUND" THEN "observation_recorded" ELSE "response_rendered"
    <3>1. ToolTold(e)
      BY <1>1, <1>3, <2>6 DEF Answerable, ToldPoint
    <3>2. d.tool = TerminalStatus(l.outcome) /\ l.cursor # NoRow
      BY <1>1, <2>3, <2>6 DEF ToolAt, ReadPoint, Stage, GraphPoint, LoadedPoint
    <3>3. next = "response_rendered" => ObservationTold(e)
      BY <1>3, <2>3, <2>6, <3>2, TerminalTold DEF ToolConsistent, ObservationTold
    <3>4. next \in {"observation_recorded", "response_rendered"}
      BY <2>6
    <3> QED BY <1>4, <1>5, <2>1, <3>1, <3>2, <3>3, <3>4, ReportedParts DEF Answerable
  <2>7. CASE l.pc = "observation_recorded" /\ w = "ObservationRecorded"
               /\ next = "save_plan_manifest"
    <3>1. ToolTold(e)
      BY <1>1, <1>3, <2>7 DEF Answerable, ToldPoint, ObservedPoint
    <3>2. ObservationTold(e)
      BY <1>2, <2>1, <2>7 DEF ObservationTold, Document
    <3> QED BY <1>4, <1>5, <2>1, <2>7, <3>1, <3>2, ReportedParts DEF Answerable, AnswerPoint
  <2>8. CASE /\ l.pc \in {"save_plan_manifest", "plan_manifest_recorded", "plan_proposed"}
             /\ next \in ObservedPoint
    <3>1. ToolTold(e) /\ ObservationTold(e)
      BY <1>1, <1>3, <2>8 DEF Answerable, ToldPoint, ObservedPoint
    <3> QED BY <1>4, <1>5, <2>1, <2>8, <3>1, ReportedParts
            DEF Answerable, AnswerPoint, ObservedPoint
  <2>9. CASE l.pc = "response_rendered" /\ next = "finalize"
    <3>1. ToolTold(e) /\ ObservationTold(e) /\ (l.cursor = NoRow => l.stop \in TasklessReason)
      BY <1>1, <1>3, <2>9 DEF Answerable, ToldPoint, AnswerPoint
    <3> QED BY <1>4, <1>5, <2>1, <2>9, <3>1, ReportedParts DEF Answerable
  <2> QED BY <2>2, <2>4, <2>5, <2>6, <2>7, <2>8, <2>9
<1> QED BY <1>6, <1>7

LEMMA UntoldPoint ==
  /\ RaisedTo \cap ToldPoint = {} /\ {"returned", "dead", "idle"} \cap ToldPoint = {}
  /\ ToldPoint \cap (EntryPoint \cup ExecutorPoint \cup GraphlessPoint \cup DecidingPoint) = {}
  /\ {"load_unit", "save_gate", "gate_recorded", "authorize", "tool_created"} \cap ToldPoint = {}
  BY DEF RaisedTo, ToldPoint, ObservedPoint, AnswerPoint, EntryPoint, ExecutorPoint,
         GraphlessPoint, DecidingPoint

\* A step to a point where nothing is told yet, of a Run not answered by it.
LEMMA UntoldReported ==
  ASSUME NEW m, NEW e, m.pc \notin ToldPoint, Normalized(e), Answered(e)
  PROVE  Reported(m, e)
<1>1. m.pc \notin AnswerPoint
  BY DEF ToldPoint
<1> QED BY <1>1, ReportedParts DEF Answerable

LEMMA EntryReported ==
  ASSUME NEW l, NEW d, NEW m, NEW e, d \in Aggregate, Reported(l, d), EntryMove(l, d, m, e)
  PROVE  Reported(m, e)
<1>1. Normalized(d) /\ Answered(d)
  BY ReportedParts
<1>2. m.pc \in {"insert_run", "start_run", "message_accepted"} \cup RaisedTo
  BY DEF EntryMove
<1>3. m.pc \notin ToldPoint
  BY <1>2, UntoldPoint DEF EntryPoint, GraphlessPoint
<1>4. e = d \/ (e \in {RunInserted(d), RunStarted(d)} /\ e.run # "COMPLETED")
  BY DEF EntryMove, May, RunInserted, RunStarted, Aggregate
<1>5. e.tool = d.tool /\ e.trace = d.trace
  BY <1>4 DEF RunInserted, RunStarted, Aggregate
<1> QED BY <1>1, <1>3, <1>4, <1>5, UntoldReported DEF Normalized, Traced, Answered

LEMMA GraphReported ==
  ASSUME NEW l, NEW d, NEW m, NEW e, Good(l, d), Reported(l, d), GraphMove(l, d, m, e)
  PROVE  Reported(m, e)
<1>1. /\ Normalized(d) /\ Answered(d) /\ d \in Aggregate /\ ToolConsistent(d) /\ Stage(l, d)
  BY ReportedParts DEF Good, Kept, Consistent
<1>2. e \in {d, GraphCreated(d), TaskTransitioned(d, InitialRow, InitialRow, "WAITING_USER"),
             Written(d, "GATE_DECISION")}
  BY DEF GraphMove, May
<1>3. e.tool = d.tool /\ e.trace = d.trace /\ e.observation = d.observation /\ e.run = d.run
  BY <1>1, <1>2 DEF GraphCreated, TaskTransitioned, Written, Document, Aggregate
<1>4. Normalized(e) /\ Answered(e)
  BY <1>1, <1>3 DEF Normalized, Answered, Traced, ToolTold, ObservationTold
<1>5. \/ m.pc \in {"create_graph", "move_proposed", "load_task", "hook_changed", "load_unit",
                   "save_gate", "gate_recorded", "insert_tool"} \cup RaisedTo
      \/ l.pc = "propose" /\ m.pc = "response_rendered" /\ m.stop \in TasklessReason
  BY DEF GraphMove
<1>6. CASE m.pc \in {"create_graph", "move_proposed", "load_task", "hook_changed", "load_unit",
                     "save_gate", "gate_recorded", "insert_tool"} \cup RaisedTo
  <2>1. m.pc \notin ToldPoint
    BY <1>6, UntoldPoint DEF GraphlessPoint, DecidingPoint, ExecutorPoint
  <2> QED BY <1>4, <2>1, UntoldReported
<1>7. CASE l.pc = "propose" /\ m.pc = "response_rendered" /\ m.stop \in TasklessReason
  <2>1. d.link = "ABSENT"
    BY <1>1, <1>7 DEF Stage, GraphlessPoint
  <2>2. d.tool = "ABSENT" /\ ~d.observation
    BY <1>1, <2>1 DEF ToolConsistent
  <2>3. ToolTold(e) /\ ObservationTold(e)
    BY <1>3, <2>2 DEF ToolTold, ObservationTold
  <2> QED BY <1>4, <1>7, <2>3, ReportedParts DEF Answerable
<1> QED BY <1>5, <1>6, <1>7

LEMMA ToolReported ==
  ASSUME NEW l, NEW d, NEW m, NEW e, Good(l, d), Filing(d), Reported(l, d),
         ToolMove(l, d, m, e)
  PROVE  Reported(m, e)
<1>1. /\ Normalized(d) /\ d \in Aggregate /\ Stage(l, d)
      /\ "ToolResultNormalized" \in Traced(d) => d.tool # "ABSENT"
  BY ReportedParts DEF Good, Kept, Filing, Named, ToolEvent
<1>2. /\ l.pc \in ExecutorPoint
      /\ m.pc \in {"fence", "dispatch", "await_order", "finalize_tool", "interrupt_tool",
                   "save_observation", "tool_created", "interrupt_trace"} \cup RaisedTo
  BY DEF ToolMove, ExecutorPoint
<1>3. m.pc \notin ToldPoint
  BY <1>2, UntoldPoint DEF ExecutorPoint
<1>4. d.run # "COMPLETED"
  BY <1>1, <1>2 DEF Stage
<1>5. \/ e = d
      \/ d.tool = "ABSENT" /\ e = ToolCallInserted(d, InitialRow.version)
      \/ d.tool = "CREATED" /\ e = ToolCallStarted(d)
      \/ \E status : status \notin ActiveToolCall /\ e = ToolCallFinalized(d, status)
      \/ e = ObservationSaved(d)
      \/ e = Written(d, "ToolCallInterrupted")
  <2>1. TerminalStatus(l.outcome) \notin ActiveToolCall /\ "INTERRUPTED" \notin ActiveToolCall
    BY TerminalTold DEF ActiveToolCall
  <2> QED BY <2>1 DEF ToolMove, May, ToolCallInsertable, ToolCallStartable
<1>6. e.run = d.run
  BY <1>1, <1>5
  DEF ToolCallInserted, ToolCallStarted, ToolCallFinalized, ObservationSaved, Written, Aggregate
<1>7. Answered(e)
  BY <1>4, <1>6 DEF Answered
<1>8. Normalized(e)
  <2>1. CASE e = d
    BY <1>1, <2>1
  <2>2. CASE d.tool = "ABSENT" /\ e = ToolCallInserted(d, InitialRow.version)
    <3>1. e.trace = d.trace
      BY <1>1, <2>2, SameTrace
    <3> QED BY <1>1, <2>2, <3>1 DEF Normalized, Traced
  <2>3. CASE d.tool = "CREATED" /\ e = ToolCallStarted(d)
    <3>1. e.trace = d.trace /\ d.tool \in ActiveToolCall
      BY <1>1, <2>3, SameTrace DEF ActiveToolCall
    <3> QED BY <1>1, <3>1 DEF Normalized, Traced
  <2>4. CASE \E status : status \notin ActiveToolCall /\ e = ToolCallFinalized(d, status)
    <3>1. e.tool \notin ActiveToolCall
      BY <1>1, <2>4 DEF ToolCallFinalized, Aggregate
    <3> QED BY <3>1 DEF Normalized
  <2>5. CASE e = ObservationSaved(d)
    <3>1. e.trace = d.trace /\ e.tool = d.tool
      BY <1>1, <2>5 DEF ObservationSaved, Aggregate
    <3> QED BY <1>1, <3>1 DEF Normalized, Traced
  <2>6. CASE e = Written(d, "ToolCallInterrupted")
    <3>1. Retold(d, e) /\ Traced(e) \subseteq Traced(d) \cup {"ToolCallInterrupted"}
      BY <1>1, <2>6, WrittenRetold DEF TraceEventType
    <3> QED BY <1>1, <3>1 DEF Normalized, Retold
  <2> QED BY <1>5, <2>1, <2>2, <2>3, <2>4, <2>5, <2>6
<1> QED BY <1>3, <1>7, <1>8, UntoldReported

LEMMA AnswerReported ==
  ASSUME NEW l, NEW d, NEW m, NEW e, Good(l, d), Good(m, e), Reported(l, d),
         AnswerMove(l, d, m, e)
  PROVE  Reported(m, e)
<1>1. /\ Normalized(d) /\ Answered(d) /\ Answerable(l, d) /\ d \in Aggregate /\ Stage(l, d)
  BY ReportedParts DEF Good, Kept
<1>2. CASE /\ l.pc \in {"plan", "render"} /\ e = d
           /\ m.pc \in {"plan_proposed", "response_rendered"}
  <2>1. ToolTold(d) /\ ObservationTold(d) /\ d.link # "ABSENT"
    BY <1>1, <1>2
    DEF Answerable, ToldPoint, ObservedPoint, Stage, GraphPoint, LoadedPoint
  <2>2. m.pc = "response_rendered" => m.cursor # NoRow
    BY <1>2, <2>1 DEF Good, Stage, Deserved, AnswerPoint
  <2> QED BY <1>1, <1>2, <2>1, <2>2, ReportedParts DEF Answerable, AnswerPoint
<1>3. CASE m.pc \in {"returned"} \cup RaisedTo
  <2>1. m.pc \notin ToldPoint
    BY <1>3, UntoldPoint
  <2>2. CASE e = d
    BY <1>1, <2>1, <2>2, UntoldReported
  <2>3. CASE l.pc = "finalize" /\ e = RunCompleted(d, l.stop, l.task, l.unit)
    <3>1. /\ Retold(d, e)
          /\ Traced(e) \subseteq Traced(d) \cup {"TaskStateChanged", "RunStopped"}
      BY <1>1, <2>3, CompletedRetold
    <3>2. ToolTold(e) /\ ObservationTold(e)
      BY <1>1, <2>3, <3>1, RetoldTold DEF Answerable, ToldPoint, AnswerPoint
    <3>3. Normalized(e)
      BY <1>1, <3>1 DEF Normalized, Retold
    <3> QED BY <2>1, <3>2, <3>3, UntoldReported DEF Answered
  <2>4. CASE e = RunFailed(d, l.cursor)
    <3>1. e.trace = d.trace /\ e.tool = d.tool /\ e.run = "FAILED"
      BY <1>1, <2>4 DEF RunFailed, LinkClosed, Aggregate
    <3> QED BY <1>1, <2>1, <3>1, UntoldReported DEF Normalized, Traced, Answered
  <2> QED BY <1>3, <2>2, <2>3, <2>4 DEF AnswerMove, May
<1> QED BY <1>2, <1>3 DEF AnswerMove

LEMMA OutsideReported ==
  ASSUME NEW l, NEW d, NEW m, NEW e, d \in Aggregate, Reported(l, d), Outside(l, d, m, e)
  PROVE  Reported(m, e)
<1>1. Normalized(d) /\ Answered(d) /\ Answerable(l, d)
  BY ReportedParts
<1>2. m = l \/ m.pc \notin ToldPoint
  BY UntoldPoint DEF Outside, ToldPoint, ObservedPoint, AnswerPoint, ServicePoint, PlainPoint
<1>3. /\ ToolTold(d) => ToolTold(e)
      /\ ObservationTold(d) => ObservationTold(e)
      /\ Normalized(e) /\ Answered(e)
  <2>1. CASE e = d
    BY <1>1, <2>1
  <2>2. CASE e = Recovered(d)
    BY <1>1, <2>2, RecoveredTold DEF Normalized, Answered
  <2> QED BY <2>1, <2>2 DEF Outside
<1>4. CASE m = l
  BY <1>1, <1>3, <1>4, ReportedParts DEF Answerable
<1>5. CASE m.pc \notin ToldPoint
  BY <1>3, <1>5, UntoldReported
<1> QED BY <1>2, <1>4, <1>5

LEMMA ReportedStep ==
  ASSUME NEW l, NEW d, NEW m, NEW e, Good(l, d), Good(m, e), Filing(d), Reported(l, d),
         Moves(l, d, m, e) \/ Outside(l, d, m, e)
  PROVE  Reported(m, e)
<1>1. d \in Aggregate
  BY DEF Good, Kept
<1> QED BY <1>1, EntryReported, PlainReported, GraphReported, ToolReported, AnswerReported,
           OutsideReported DEF Moves

\* What each record and event names, how far each handler is, what each Run
\* concluded and what its Trace told.
THEOREM EvidenceInvariant == Spec => [](ReferenceInv /\ EvidenceInv)
<1> DEFINE Truth == \A r \in Runs : Truthful(db[r])
           Inv == TraceInv /\ ReferenceInv /\ Truth /\ EvidenceInv
<1>1. Init => Inv
  <2> SUFFICES ASSUME Init PROVE Inv
    OBVIOUS
  <2>1. TraceInv
    BY DEF Init, TraceInv, Filed, IdleHandler, NoRecords, BriefedPoint, PlanPoint,
           AuthorizedPoint, ServicePoint, PlainPoint, ExecutorPoint
  <2>2. ReferenceInv
    BY DEF Init, ReferenceInv, Filing, Placed, ManifestsApart, ManifestsAt, NoRecords, Traced
  <2>3. Truth
    BY DEF Init, NoRecords, Truthful, Traced
  <2>4. EvidenceInv
    <3> SUFFICES ASSUME NEW r \in Runs
                 PROVE  /\ Paced(h[r], db[r]) /\ Concluded(db[r]) /\ Reported(h[r], db[r])
      BY DEF EvidenceInv
    <3>1. h[r] = IdleHandler /\ db[r] = NoRecords
      BY DEF Init
    <3>2. /\ IdleHandler.pc = "idle" /\ NoRecords.trace = <<>> /\ NoRecords.run = "ABSENT"
          /\ NoRecords.tool = "ABSENT" /\ NoRecords.task = NoRow
      BY DEF IdleHandler, NoRecords
    <3>3. Traced(NoRecords) = {} /\ Len(NoRecords.trace) = 0 /\ DOMAIN NoRecords.trace = {}
      BY <3>2 DEF Traced
    <3>4. Paced(IdleHandler, NoRecords)
      BY <3>2, <3>3, ProgressAt DEF Paced, ProgressTable, Ending, TerminalRun, Single
    <3>5. Concluded(NoRecords)
      BY <3>2, RowValues DEF Concluded
    <3>6. Reported(IdleHandler, NoRecords)
      BY <3>2, <3>3, UntoldPoint, UntoldReported DEF Normalized, Answered
    <3> QED BY <3>1, <3>4, <3>5, <3>6
  <2> QED BY <2>1, <2>2, <2>3, <2>4
<1>2. IndInv /\ Inv /\ [Next]_vars => Inv'
  <2> SUFFICES ASSUME IndInv, Inv, [Next]_vars PROVE Inv'
    OBVIOUS
  <2>1. TraceInv' /\ ReferenceInv' /\ Truth'
    BY FiledStep, FilingStep, PlacedStep, TruthStep DEF ReferenceInv
  <2>2. ASSUME NEW r \in Runs
        PROVE  /\ Paced(h'[r], db'[r]) /\ Concluded(db'[r]) /\ Reported(h'[r], db'[r])
    <3>1. /\ Paced(h[r], db[r]) /\ Concluded(db[r]) /\ Reported(h[r], db[r])
          /\ Truthful(db[r]) /\ Filing(db[r])
      BY DEF EvidenceInv, ReferenceInv
    <3>2. Paced(h'[r], db'[r])
      BY <3>1, PacedStep
    <3>3. Good(h[r], db[r]) /\ Good(h'[r], db'[r])
      BY IndInvGood, GoodStep
    <3>4. Moves(h[r], db[r], h'[r], db'[r]) \/ Outside(h[r], db[r], h'[r], db'[r])
      BY StepMoves
    <3>5. Concluded(db'[r])
      BY <3>1, <3>3, <3>4, ConcludedStep
    <3>6. Reported(h'[r], db'[r])
      BY <3>1, <3>3, <3>4, ReportedStep
    <3> QED BY <3>2, <3>5, <3>6
  <2>3. EvidenceInv'
    BY <2>2 DEF EvidenceInv
  <2> QED BY <2>1, <2>3
<1>3. Inv => ReferenceInv /\ EvidenceInv
  OBVIOUS
<1> QED BY <1>1, <1>2, <1>3, AgentRunInvariant, PTL DEF Spec

-------------------------------------------------------------------------------
(* The rows of a Run and the rounds of selection.                           *)

\* The codes whose rows the loader looks for by what they refer to.
Seeker ==
  {"UNDERSTANDING", "TASK", "UNIT", "CONVERSATION_LINK", "RUN_LINK", "BINDING", "GATE",
   "MANIFEST", "TOOL_CALL", "OBSERVATION", "TRACE"}

LEMMA SelectingParts ==
  ASSUME NEW refs, NEW selected, NEW row
  PROVE  row \in Selecting(refs, selected)
           <=> \/ row \in selected
               \/ \E source \in selected \cap DOMAIN refs : row \in refs[source]
               \/ row \in DOMAIN refs /\ Sought(refs, selected, row)
  BY DEF Selecting

LEMMA SelectingKeeps ==
  ASSUME NEW refs, NEW selected
  PROVE  selected \subseteq Selecting(refs, selected)
  BY SelectingParts

LEMMA SelectingForward ==
  ASSUME NEW refs, NEW selected, NEW row \in selected, row \in DOMAIN refs, NEW to \in refs[row]
  PROVE  to \in Selecting(refs, selected)
  BY SelectingParts

LEMMA SelectingReverse ==
  ASSUME NEW refs, NEW selected, NEW row \in DOMAIN refs, NEW to \in refs[row], to \in selected,
         <<Code(row), Code(to)>> \in ReverseRelations
  PROVE  row \in Selecting(refs, selected)
<1>1. Sought(refs, selected, row)
  BY DEF Sought
<1> QED BY <1>1, SelectingParts

LEMMA SelectingOnly ==
  ASSUME NEW refs, NEW selected, NEW row \in Selecting(refs, selected)
  PROVE  \/ row \in selected
         \/ \E source \in selected \cap DOMAIN refs : row \in refs[source]
         \/ row \in DOMAIN refs /\ Code(row) \in Seeker
<1>1. \A code, to : <<code, to>> \in ReverseRelations => code \in Seeker
  BY DEF ReverseRelations, Seeker
<1>2. Sought(refs, selected, row) => Code(row) \in Seeker
  BY <1>1 DEF Sought
<1> QED BY <1>2, SelectingParts

\* Why a row was selected: it was there from the start, it was looked for, or a
\* selected row refers to it.
Grounded(refs, start, selected) ==
  \A row \in selected :
    \/ row \in start
    \/ Code(row) \in Seeker
    \/ \E source \in selected \cap DOMAIN refs : row \in refs[source]

LEMMA SelectingGrounded ==
  ASSUME NEW refs, NEW start, NEW selected, Grounded(refs, start, selected)
  PROVE  Grounded(refs, start, Selecting(refs, selected))
<1> SUFFICES ASSUME NEW row \in Selecting(refs, selected)
             PROVE  \/ row \in start
                    \/ Code(row) \in Seeker
                    \/ \E source \in Selecting(refs, selected) \cap DOMAIN refs :
                         row \in refs[source]
  BY DEF Grounded
<1>1. selected \subseteq Selecting(refs, selected)
  BY SelectingKeeps
<1>2. CASE row \in selected
  BY <1>1, <1>2 DEF Grounded
<1>3. CASE \E source \in selected \cap DOMAIN refs : row \in refs[source]
  BY <1>1, <1>3
<1> QED BY <1>2, <1>3, SelectingOnly

LEMMA SelectingStored ==
  ASSUME NEW refs, NEW selected, selected \subseteq DOMAIN refs,
         \A row \in DOMAIN refs : refs[row] \subseteq DOMAIN refs
  PROVE  Selecting(refs, selected) \subseteq DOMAIN refs
  BY SelectingOnly

\* The codes of the rows.
LEMMA CodeOf ==
  /\ Code(ConversationRow) = "CONVERSATION" /\ Code(UserMessageRow) = "MESSAGE"
  /\ Code(ReplyRow) = "MESSAGE" /\ Code(ArtifactRow) = "ARTIFACT" /\ Code(RunRow) = "RUN"
  /\ Code(UnderstandingRow) = "UNDERSTANDING" /\ Code(TaskRow) = "TASK"
  /\ Code(UnitRow) = "UNIT" /\ Code(ConversationLinkRow) = "CONVERSATION_LINK"
  /\ Code(RunLinkRow) = "RUN_LINK" /\ Code(BindingRow) = "BINDING" /\ Code(GateRow) = "GATE"
  /\ Code(ToolCallRow) = "TOOL_CALL" /\ Code(ObservationRow) = "OBSERVATION"
  /\ \A n : Code(ManifestRow(n)) = "MANIFEST"
  /\ \A i : Code(TraceRow(i)) = "TRACE"
  BY DEF Code, ConversationRow, UserMessageRow, ReplyRow, ArtifactRow, RunRow, UnderstandingRow,
         TaskRow, UnitRow, ConversationLinkRow, RunLinkRow, BindingRow, GateRow, ToolCallRow,
         ObservationRow, ManifestRow, TraceRow

LEMMA Numbers ==
  /\ UserMessageRow # ReplyRow /\ ManifestRow(1) # ManifestRow(2)
  /\ \A i, j : TraceRow(i) = TraceRow(j) => i = j
<1>1. UserMessageRow[2] = 1 /\ ReplyRow[2] = 2 /\ ManifestRow(1)[2] = 1 /\ ManifestRow(2)[2] = 2
  BY DEF UserMessageRow, ReplyRow, ManifestRow
<1>2. \A i : TraceRow(i)[2] = i
  BY DEF TraceRow
<1> QED BY <1>1, <1>2

\* Which rows are stored, code by code.
LEMMA StoredCases ==
  ASSUME NEW d, NEW row \in StoredRows(d)
  PROVE  \/ row \in {ConversationRow, UserMessageRow, ArtifactRow, RunRow}
         \/ /\ d.task # NoRow
            /\ row \in {UnderstandingRow, TaskRow, UnitRow, ConversationLinkRow, RunLinkRow,
                        BindingRow}
         \/ row = ManifestRow(1) /\ "UNDERSTANDING_MANIFEST" \in d.documents
         \/ row = ManifestRow(2) /\ "PRESENTATION_MANIFEST" \in d.documents
         \/ row = GateRow /\ "GATE_DECISION" \in d.documents
         \/ row = ToolCallRow /\ d.tool # "ABSENT"
         \/ row = ObservationRow /\ d.observation
         \/ row = ReplyRow /\ d.reply
         \/ \E i \in DOMAIN d.trace : row = TraceRow(i)
  BY DEF StoredRows, Only

LEMMA StoredIff ==
  ASSUME NEW d
  PROVE  /\ UnderstandingRow \in StoredRows(d) => d.task # NoRow
         /\ TaskRow \in StoredRows(d) => d.task # NoRow
         /\ UnitRow \in StoredRows(d) => d.task # NoRow
         /\ ConversationLinkRow \in StoredRows(d) => d.task # NoRow
         /\ RunLinkRow \in StoredRows(d) => d.task # NoRow
         /\ BindingRow \in StoredRows(d) => d.task # NoRow
         /\ ManifestRow(1) \in StoredRows(d) => "UNDERSTANDING_MANIFEST" \in d.documents
         /\ ManifestRow(2) \in StoredRows(d) => "PRESENTATION_MANIFEST" \in d.documents
         /\ GateRow \in StoredRows(d) => "GATE_DECISION" \in d.documents
         /\ ToolCallRow \in StoredRows(d) => d.tool # "ABSENT"
         /\ ObservationRow \in StoredRows(d) => d.observation
  BY StoredCases, CodeOf, Numbers

\* What an event may name besides its Run.
LEMMA EventTargets ==
  ASSUME NEW d, NEW i
  PROVE  EventReferences(d, i) \subseteq
           {UserMessageRow, ArtifactRow, ManifestRow(1), ManifestRow(2), TaskRow, UnitRow,
            BindingRow, ToolCallRow, ObservationRow}
  BY DEF EventReferences, Only

\* Rows that only other rows lead to.
LEMMA RowTargets ==
  ASSUME NEW d, NEW row \in StoredRows(d)
  PROVE  /\ ReplyRow \notin References(d, row)
         /\ UserMessageRow \in References(d, row) =>
              \/ row \in {UnderstandingRow, UnitRow, BindingRow, ManifestRow(1), ManifestRow(2)}
              \/ \E i \in DOMAIN d.trace : row = TraceRow(i)
         /\ ArtifactRow \in References(d, row) =>
              \/ row \in {ManifestRow(1), ManifestRow(2)}
              \/ \E i \in DOMAIN d.trace : row = TraceRow(i)
<1>1. CASE row \in {ConversationRow, UserMessageRow, ArtifactRow, RunRow, ReplyRow}
  BY <1>1, FirstReferences, CodeOf
<1>2. CASE row \in {UnderstandingRow, TaskRow, UnitRow, ConversationLinkRow, RunLinkRow,
                    BindingRow}
  BY <1>2, GraphRowReferences, CodeOf, Numbers DEF Only
<1>3. CASE row \in {ManifestRow(1), ManifestRow(2), GateRow, ToolCallRow, ObservationRow}
  BY <1>3, CallRowReferences, CodeOf, Numbers
<1>4. ASSUME NEW i \in DOMAIN d.trace, row = TraceRow(i) PROVE ReplyRow \notin References(d, row)
  <2>1. References(d, row) = {RunRow} \cup EventReferences(d, i)
    BY <1>4, CallRowReferences
  <2> QED BY <2>1, EventTargets, CodeOf, Numbers
<1> QED BY <1>1, <1>2, <1>3, <1>4, StoredCases

\* The loader has, besides the Run, every row but the reply, and of the message
\* and the artifact those that another row names; and nothing it has leads on.
Exactly(d, refs, selected) ==
  /\ selected \subseteq StoredRows(d) \ {ReplyRow}
  /\ StoredRows(d) \ {ReplyRow, UserMessageRow, ArtifactRow} \subseteq selected
  /\ \A row \in selected : refs[row] \subseteq selected
  /\ \A row \in selected \cap {UserMessageRow, ArtifactRow} :
       \E source \in selected : row \in refs[source]

LEMMA SelectedExactly ==
  ASSUME NEW d, d.run # "ABSENT", Kept(d), Filing(d), ManifestsApart(d)
  PROVE  Exactly(d, ReferencesOf(d), SelectedFrom(ReferencesOf(d), {RunRow}))
<1> DEFINE refs == ReferencesOf(d)
           start == {RunRow}
           first == Selecting(refs, start)
           second == Selecting(refs, first)
           third == Selecting(refs, second)
<1>1. /\ DOMAIN refs = StoredRows(d)
      /\ \A row \in DOMAIN refs : refs[row] = References(d, row)
  BY DEF ReferencesOf
<1>2. \A row \in DOMAIN refs : refs[row] \subseteq DOMAIN refs
  BY <1>1, ReferencesStored
<1>3. SelectedFrom(refs, start) = third
  BY DEF SelectedFrom
<1> HIDE DEF refs
<1>4. start \subseteq DOMAIN refs /\ RunRow \in start /\ RunRow \in DOMAIN refs
  BY <1>1, StoredHas
<1>5. Grounded(refs, start, start)
  BY DEF Grounded
<1> HIDE DEF start
<1>6. start \subseteq first /\ first \subseteq DOMAIN refs /\ Grounded(refs, start, first)
  BY <1>2, <1>4, <1>5, SelectingKeeps, SelectingStored, SelectingGrounded
<1>7. ASSUME NEW row \in DOMAIN refs,
             \/ row \in {UnderstandingRow, RunLinkRow, ManifestRow(1), ManifestRow(2),
                         ToolCallRow, ObservationRow}
             \/ \E i : row = TraceRow(i)
      PROVE  row \in first
  <2>1. RunRow \in References(d, row)
    <3>1. CASE row \in {UnderstandingRow, RunLinkRow}
      BY <3>1, GraphRowReferences
    <3>2. CASE row \in {ManifestRow(1), ManifestRow(2), ToolCallRow, ObservationRow}
      BY <3>2, CallRowReferences
    <3>3. ASSUME NEW i, row = TraceRow(i) PROVE RunRow \in References(d, row)
      <4>1. References(d, TraceRow(i)) = {RunRow} \cup EventReferences(d, i)
        BY CallRowReferences
      <4> QED BY <3>3, <4>1
    <3> QED BY <1>7, <3>1, <3>2, <3>3
  <2>2. <<Code(row), Code(RunRow)>> \in ReverseRelations
    <3>1. /\ Code(RunRow) = "RUN"
          /\ Code(row) \in {"UNDERSTANDING", "RUN_LINK", "MANIFEST", "TOOL_CALL", "OBSERVATION",
                            "TRACE"}
      BY <1>7, CodeOf
    <3> QED BY <3>1 DEF ReverseRelations
  <2> QED BY <1>1, <1>4, <2>1, <2>2, SelectingReverse
<1>8. ConversationRow \in first
  BY <1>1, <1>4, FirstReferences, SelectingForward
<1> HIDE DEF first
<1>9. first \subseteq second /\ second \subseteq DOMAIN refs /\ Grounded(refs, start, second)
  BY <1>2, <1>6, SelectingKeeps, SelectingStored, SelectingGrounded
<1>10. \A row \in first : refs[row] \subseteq second
  BY <1>6, SelectingForward
<1>11. ASSUME d.task # NoRow
       PROVE  TaskRow \in second /\ BindingRow \in second /\ UserMessageRow \in second
  <2>1. UnderstandingRow \in first
    BY <1>1, <1>7, <1>11, StoredHas
  <2> QED BY <1>1, <1>6, <1>10, <2>1, GraphRowReferences
<1>12. ASSUME GateRow \in DOMAIN refs PROVE GateRow \in second
  <2>1. ManifestRow(1) \in refs[GateRow]
    BY <1>1, <1>12, CallRowReferences
  <2>2. ManifestRow(1) \in first
    BY <1>2, <1>7, <1>12, <2>1
  <2>3. <<Code(GateRow), Code(ManifestRow(1))>> \in ReverseRelations
    <3>1. Code(GateRow) = "GATE" /\ Code(ManifestRow(1)) = "MANIFEST"
      BY CodeOf
    <3> QED BY <3>1 DEF ReverseRelations
  <2> QED BY <1>12, <2>1, <2>2, <2>3, SelectingReverse
<1> HIDE DEF second
<1>13. second \subseteq third /\ third \subseteq DOMAIN refs /\ Grounded(refs, start, third)
  BY <1>2, <1>9, SelectingKeeps, SelectingStored, SelectingGrounded
<1>14. \A row \in second : refs[row] \subseteq third
  BY <1>9, SelectingForward
<1>15. ASSUME d.task # NoRow PROVE UnitRow \in third /\ ConversationLinkRow \in third
  <2>1. UnitRow \in third
    BY <1>1, <1>9, <1>11, <1>14, <1>15, GraphRowReferences
  <2>2. ConversationLinkRow \in DOMAIN refs /\ TaskRow \in refs[ConversationLinkRow]
    BY <1>1, <1>15, StoredHas, GraphRowReferences
  <2>3. <<Code(ConversationLinkRow), Code(TaskRow)>> \in ReverseRelations
    <3>1. Code(ConversationLinkRow) = "CONVERSATION_LINK" /\ Code(TaskRow) = "TASK"
      BY CodeOf
    <3> QED BY <3>1 DEF ReverseRelations
  <2> QED BY <1>11, <1>15, <2>1, <2>2, <2>3, SelectingReverse
<1> HIDE DEF third
<1>16. StoredRows(d) \ {ReplyRow, UserMessageRow, ArtifactRow} \subseteq third
  <2> SUFFICES ASSUME NEW row \in DOMAIN refs, row \notin {ReplyRow, UserMessageRow, ArtifactRow}
               PROVE  row \in third
    BY <1>1
  <2>1. CASE row \in {ConversationRow, RunRow}
    BY <1>4, <1>6, <1>8, <1>9, <1>13, <2>1
  <2>2. CASE \/ row \in {UnderstandingRow, RunLinkRow, ManifestRow(1), ManifestRow(2),
                         ToolCallRow, ObservationRow}
             \/ \E i : row = TraceRow(i)
    BY <1>7, <1>9, <1>13, <2>2
  <2>3. CASE d.task # NoRow /\ row \in {TaskRow, UnitRow, ConversationLinkRow, BindingRow}
    BY <1>11, <1>13, <1>15, <2>3
  <2>4. CASE row = GateRow
    BY <1>12, <1>13, <2>4
  <2> QED BY <1>1, <2>1, <2>2, <2>3, <2>4, StoredCases
<1>17. ASSUME NEW row \in third, Code(row) \notin Seeker, row \notin start
       PROVE  \E source \in third : row \in refs[source]
  BY <1>13, <1>17 DEF Grounded
<1>18. ReplyRow \notin third
  <2>1. Code(ReplyRow) \notin Seeker /\ ReplyRow \notin start
    BY CodeOf DEF Seeker, start
  <2>2. \A source \in third : ReplyRow \notin refs[source]
    BY <1>1, <1>13, RowTargets
  <2> QED BY <1>17, <2>1, <2>2
<1>19. ASSUME NEW row \in third PROVE refs[row] \subseteq third
  <2> SUFFICES ASSUME NEW to \in refs[row] PROVE to \in third
    OBVIOUS
  <2>1. row \in StoredRows(d) /\ to \in References(d, row) /\ to \in StoredRows(d)
    BY <1>1, <1>2, <1>13, <1>19
  <2>2. CASE to \in {UserMessageRow, ArtifactRow}
    <3>1. CASE \/ row \in {UnderstandingRow, ManifestRow(1), ManifestRow(2)}
               \/ \E i : row = TraceRow(i)
      BY <1>1, <1>7, <1>10, <1>13, <2>1, <3>1
    <3>2. CASE row \in {UnitRow, BindingRow} /\ to = UserMessageRow
      BY <1>11, <1>13, <2>1, <3>2, StoredIff
    <3> QED BY <2>1, <2>2, <3>1, <3>2, RowTargets, CodeOf
  <2>3. CASE to \notin {UserMessageRow, ArtifactRow}
    BY <1>16, <2>1, <2>3, RowTargets
  <2> QED BY <2>2, <2>3
<1>20. ASSUME NEW row \in third \cap {UserMessageRow, ArtifactRow}
       PROVE  \E source \in third : row \in refs[source]
  <2>1. Code(row) \notin Seeker /\ row \notin start
    BY CodeOf DEF Seeker, start
  <2> QED BY <1>17, <2>1
<1>21. Exactly(d, refs, third)
  BY <1>1, <1>13, <1>16, <1>18, <1>19, <1>20 DEF Exactly
<1>22. Exactly(d, refs, SelectedFrom(refs, start))
  BY <1>3, <1>21
<1> QED BY <1>22 DEF refs, start

\* A further round adds nothing.
LEMMA SelectionStops ==
  ASSUME NEW d, NEW selected, Exactly(d, ReferencesOf(d), selected)
  PROVE  Selecting(ReferencesOf(d), selected) = selected
<1> DEFINE refs == ReferencesOf(d)
<1>1. DOMAIN refs = StoredRows(d)
  BY DEF ReferencesOf
<1> HIDE DEF refs
<1>2. ASSUME NEW row \in Selecting(refs, selected) PROVE row \in selected
  <2>1. \A source \in selected : refs[source] \subseteq selected
    BY DEF Exactly, refs
  <2>2. CASE row \in DOMAIN refs /\ Code(row) \in Seeker
    <3>1. row \notin {ReplyRow, UserMessageRow, ArtifactRow}
      BY <2>2, CodeOf DEF Seeker
    <3> QED BY <1>1, <2>2, <3>1 DEF Exactly
  <2> QED BY <1>2, <2>1, <2>2, SelectingOnly
<1>3. selected \subseteq Selecting(refs, selected)
  BY SelectingKeeps
<1> QED BY <1>2, <1>3 DEF refs

-------------------------------------------------------------------------------
(* What the loader has is a collection it accepts.                          *)

LEMMA ForwardCodes ==
  /\ \A to \in {"CONVERSATION"} :
       \A code \in {"MESSAGE", "CONVERSATION_LINK", "RUN"} : <<code, to>> \in ForwardRelations
  /\ \A to \in {"RUN", "MESSAGE", "BINDING", "TASK"} : <<"UNDERSTANDING", to>> \in ForwardRelations
  /\ \A to \in {"TASK", "MESSAGE", "BINDING", "OBSERVATION"} : <<"UNIT", to>> \in ForwardRelations
  /\ <<"CONVERSATION_LINK", "TASK">> \in ForwardRelations
  /\ \A to \in {"RUN", "TASK"} : <<"RUN_LINK", to>> \in ForwardRelations
  /\ <<"TASK", "UNIT">> \in ForwardRelations
  /\ \A to \in {"MESSAGE", "UNIT"} : <<"BINDING", to>> \in ForwardRelations
  /\ \A to \in {"MANIFEST", "BINDING"} : <<"GATE", to>> \in ForwardRelations
  /\ \A to \in {"RUN", "TASK", "UNIT", "MANIFEST", "GATE", "BINDING"} :
       <<"TOOL_CALL", to>> \in ForwardRelations
  /\ \A to \in {"TOOL_CALL", "RUN", "TASK", "UNIT"} : <<"OBSERVATION", to>> \in ForwardRelations
  /\ \A to \in {"RUN", "MESSAGE", "TASK", "OBSERVATION", "ARTIFACT"} :
       <<"MANIFEST", to>> \in ForwardRelations
  /\ \A to \in {"RUN", "MESSAGE", "TASK", "UNIT", "BINDING", "MANIFEST", "ARTIFACT",
                "TOOL_CALL", "OBSERVATION"} : <<"TRACE", to>> \in ForwardRelations
  BY DEF ForwardRelations

\* The loader knows every relation that the encoder projects.
LEMMA RelationsKnown ==
  ASSUME NEW d, NEW row \in StoredRows(d), NEW to \in References(d, row)
  PROVE  <<Code(row), Code(to)>> \in ForwardRelations
<1>1. CASE row \in {ConversationRow, UserMessageRow, ArtifactRow, RunRow, ReplyRow}
  <2>1. to = ConversationRow /\ row \notin {ConversationRow, ArtifactRow}
    BY <1>1, FirstReferences
  <2>2. Code(to) = "CONVERSATION" /\ Code(row) \in {"MESSAGE", "RUN"}
    BY <1>1, <2>1, CodeOf
  <2> QED BY <2>2, ForwardCodes
<1>2. CASE row = UnderstandingRow
  <2>1. to \in {RunRow, UserMessageRow, BindingRow, TaskRow}
    BY <1>2, GraphRowReferences
  <2> QED BY <1>2, <2>1, CodeOf, ForwardCodes
<1>3. CASE row = TaskRow
  <2>1. to = UnitRow
    BY <1>3, GraphRowReferences
  <2> QED BY <1>3, <2>1, CodeOf, ForwardCodes
<1>4. CASE row = UnitRow
  <2>1. to \in {TaskRow, UserMessageRow, BindingRow, ObservationRow}
    BY <1>4, GraphRowReferences DEF Only
  <2> QED BY <1>4, <2>1, CodeOf, ForwardCodes
<1>5. CASE row \in {ConversationLinkRow, RunLinkRow}
  <2>1. CASE row = ConversationLinkRow
    BY <2>1, GraphRowReferences, CodeOf, ForwardCodes
  <2>2. CASE row = RunLinkRow
    BY <2>2, GraphRowReferences, CodeOf, ForwardCodes
  <2> QED BY <1>5, <2>1, <2>2
<1>6. CASE row = BindingRow
  <2>1. to \in {UserMessageRow, UnitRow}
    BY <1>6, GraphRowReferences
  <2> QED BY <1>6, <2>1, CodeOf, ForwardCodes
<1>7. CASE row \in {ManifestRow(1), ManifestRow(2)}
  <2>1. to \in {RunRow, UserMessageRow, ArtifactRow, TaskRow, ObservationRow}
    BY <1>7, CallRowReferences
  <2> QED BY <1>7, <2>1, CodeOf, ForwardCodes
<1>8. CASE row = GateRow
  <2>1. to \in {ManifestRow(1), BindingRow}
    BY <1>8, CallRowReferences
  <2> QED BY <1>8, <2>1, CodeOf, ForwardCodes
<1>9. CASE row = ToolCallRow
  <2>1. to \in {RunRow, TaskRow, UnitRow, ManifestRow(1), GateRow, BindingRow}
    BY <1>9, CallRowReferences
  <2> QED BY <1>9, <2>1, CodeOf, ForwardCodes
<1>10. CASE row = ObservationRow
  <2>1. to \in {ToolCallRow, RunRow, TaskRow, UnitRow}
    BY <1>10, CallRowReferences
  <2> QED BY <1>10, <2>1, CodeOf, ForwardCodes
<1>11. ASSUME NEW i \in DOMAIN d.trace, row = TraceRow(i)
       PROVE  <<Code(row), Code(to)>> \in ForwardRelations
  <2>1. to \in {RunRow, UserMessageRow, ArtifactRow, ManifestRow(1), ManifestRow(2), TaskRow,
                UnitRow, BindingRow, ToolCallRow, ObservationRow}
    BY <1>11, CallRowReferences, EventTargets
  <2>2. Code(row) = "TRACE"
        /\ Code(to) \in {"RUN", "MESSAGE", "TASK", "UNIT", "BINDING", "MANIFEST", "ARTIFACT",
                         "TOOL_CALL", "OBSERVATION"}
    BY <1>11, <2>1, CodeOf
  <2> QED BY <2>2, ForwardCodes
<1> QED BY <1>1, <1>2, <1>3, <1>4, <1>5, <1>6, <1>7, <1>8, <1>9, <1>10, <1>11, StoredCases

\* Two rows of one code are the same, but for messages, manifests and events.
LEMMA OneOfFamily ==
  ASSUME NEW d, NEW row \in StoredRows(d), NEW other \in StoredRows(d), Code(other) = Code(row),
         Code(row) \notin {"MESSAGE", "MANIFEST", "TRACE"}
  PROVE  other = row
<1>1. \A one \in StoredRows(d) :
        Code(one) \notin {"MESSAGE", "MANIFEST", "TRACE"} =>
          \/ one = ConversationRow \/ one = ArtifactRow \/ one = RunRow
          \/ one = UnderstandingRow \/ one = TaskRow \/ one = UnitRow
          \/ one = ConversationLinkRow \/ one = RunLinkRow \/ one = BindingRow
          \/ one = GateRow \/ one = ToolCallRow \/ one = ObservationRow
  BY StoredCases, CodeOf
<1> QED BY <1>1, CodeOf

LEMMA ByCode ==
  ASSUME NEW d, NEW row \in StoredRows(d)
  PROVE  /\ Code(row) = "MESSAGE" => row \in {UserMessageRow, ReplyRow}
         /\ Code(row) = "MANIFEST" => row \in {ManifestRow(1), ManifestRow(2)}
         /\ Code(row) = "TRACE" => \E i \in DOMAIN d.trace : row = TraceRow(i)
         /\ Code(row) = "GATE" => row = GateRow
         /\ Code(row) = "OBSERVATION" => row = ObservationRow
         /\ Code(row) = "BINDING" => row = BindingRow
         /\ Code(row) = "ARTIFACT" => row = ArtifactRow
  BY StoredCases, CodeOf

LEMMA SmallSets ==
  /\ \A x : IsFiniteSet({x}) /\ Cardinality({x}) = 1
  /\ \A x, y : IsFiniteSet({x, y}) /\ Cardinality({x, y}) <= 2
  /\ IsFiniteSet({}) /\ Cardinality({}) = 0
<1>1. \A x : IsFiniteSet({x}) /\ Cardinality({x}) = 1
  BY FS_Singleton
<1>2. ASSUME NEW x, NEW y PROVE IsFiniteSet({x, y}) /\ Cardinality({x, y}) <= 2
  <2>1. /\ IsFiniteSet({x} \cup {y})
        /\ Cardinality({x} \cup {y})
             = IF y \in {x} THEN Cardinality({x}) ELSE Cardinality({x}) + 1
    BY <1>1, FS_AddElement
  <2>2. {x, y} = {x} \cup {y}
    OBVIOUS
  <2>3. Cardinality({x} \cup {y}) <= 2
    <3>1. Cardinality({x}) = 1
      BY <1>1
    <3> QED BY <2>1, <3>1
  <2> QED BY <2>1, <2>2, <2>3, Zenon
<1> QED BY <1>1, <1>2, FS_EmptySet

\* No more rows of events than events.
LEMMA EventRowsBounded ==
  ASSUME NEW n \in Nat, NEW rows, rows \subseteq {TraceRow(i) : i \in 1..n}
  PROVE  IsFiniteSet(rows) /\ Cardinality(rows) <= n
<1> DEFINE all == {TraceRow(i) : i \in 1..n}
           f == [i \in 1..n |-> TraceRow(i)]
<1>1. f \in Surjection(1..n, all)
  BY DEF Surjection
<1>2. ExistsSurjection(1..n, all)
  BY <1>1 DEF ExistsSurjection
<1> HIDE DEF all
<1>3. IsFiniteSet(all) /\ Cardinality(all) <= n
  BY <1>2, FS_NatSurjection, FS_SurjCardinalityBound
<1>4. rows \in SUBSET all
  BY DEF all
<1>5. /\ IsFiniteSet(rows) /\ Cardinality(rows) <= Cardinality(all)
      /\ Cardinality(rows) \in Nat /\ Cardinality(all) \in Nat
  BY <1>3, <1>4, FS_Subset, FS_CardinalityType
<1> QED BY <1>3, <1>5

LEMMA CapValues ==
  /\ \A code : FamilyCap(code) \in {1, 2, 64}
  /\ FamilyCap("MANIFEST") = 2 /\ FamilyCap("TRACE") = 64
  BY DEF FamilyCap

LEMMA CollectedAlways ==
  ASSUME NEW d, d.run # "ABSENT", Kept(d), Filing(d), ManifestsApart(d), Len(d.trace) <= 64,
         NEW selected, Exactly(d, ReferencesOf(d), selected)
  PROVE  Collected(ReferencesOf(d), selected)
<1> DEFINE refs == ReferencesOf(d)
<1>1. /\ DOMAIN refs = StoredRows(d)
      /\ \A row \in DOMAIN refs : refs[row] = References(d, row)
  BY DEF ReferencesOf
<1>2. selected \subseteq StoredRows(d) /\ ReplyRow \notin selected
  BY DEF Exactly
<1> HIDE DEF refs
<1>3. ASSUME NEW row \in selected, NEW target \in refs[row]
      PROVE  <<Code(row), Code(target)>> \in ForwardRelations
  BY <1>1, <1>2, <1>3, RelationsKnown
<1>4. ASSUME NEW row \in selected
      PROVE  Cardinality({other \in selected : Code(other) = Code(row)}) <= FamilyCap(Code(row))
  <2> DEFINE family == {other \in selected : Code(other) = Code(row)}
  <2>1. CASE Code(row) \notin {"MESSAGE", "MANIFEST", "TRACE"}
    <3>1. family = {row}
      BY <1>2, <1>4, <2>1, OneOfFamily
    <3> HIDE DEF family
    <3>2. Cardinality(family) = 1
      BY <3>1, SmallSets
    <3> QED BY <3>2, CapValues DEF family
  <2>2. CASE Code(row) = "MESSAGE"
    <3>1. family = {row}
      <4>1. \A other \in selected : Code(other) = "MESSAGE" => other = UserMessageRow
        BY <1>2, ByCode
      <4> QED BY <1>4, <2>2, <4>1
    <3> HIDE DEF family
    <3>2. Cardinality(family) = 1
      BY <3>1, SmallSets
    <3> QED BY <3>2, CapValues DEF family
  <2>3. CASE Code(row) = "MANIFEST"
    <3>1. family \in SUBSET {ManifestRow(1), ManifestRow(2)}
      BY <1>2, <2>3, ByCode
    <3> HIDE DEF family
    <3> DEFINE both == {ManifestRow(1), ManifestRow(2)}
    <3>2. IsFiniteSet(both) /\ Cardinality(both) <= 2
      BY SmallSets
    <3> HIDE DEF both
    <3>3. /\ Cardinality(family) <= Cardinality(both)
          /\ Cardinality(family) \in Nat /\ Cardinality(both) \in Nat
      BY <3>1, <3>2, FS_Subset, FS_CardinalityType DEF both
    <3>4. Cardinality(family) <= 2
      BY <3>2, <3>3
    <3> QED BY <2>3, <3>4, CapValues DEF family
  <2>4. CASE Code(row) = "TRACE"
    <3> DEFINE n == Len(d.trace)
    <3>1. n \in Nat /\ n <= 64 /\ DOMAIN d.trace = 1..n
      BY DEF Kept, Aggregate
    <3>2. family \subseteq {TraceRow(i) : i \in 1..n}
      BY <1>2, <2>4, <3>1, ByCode
    <3> HIDE DEF family, n
    <3>3. Cardinality(family) <= n /\ Cardinality(family) \in Nat
      BY <3>1, <3>2, EventRowsBounded, FS_CardinalityType
    <3>4. Cardinality(family) <= 64
      BY <3>1, <3>3
    <3> QED BY <2>4, <3>4, CapValues DEF family
  <2> QED BY <2>1, <2>2, <2>3, <2>4
<1>5. Collected(refs, selected)
  BY <1>1, <1>2, <1>3, <1>4 DEF Collected
<1> QED BY <1>5 DEF refs

-------------------------------------------------------------------------------
(* What the loader asks of its collection.                                  *)

\* What is left when a Run was closed, whatever its handler and the recoveries
\* had done to it.
Settled(d) ==
  /\ d.run \in TerminalRun
  /\ Kept(d) /\ Filing(d) /\ ManifestsApart(d) /\ Truthful(d) /\ Concluded(d)
  /\ Len(d.trace) <= 64 /\ \A event \in CountedEvent : Single(d, event)
  /\ Normalized(d) /\ Answered(d)

LEMMA SettledStatus ==
  ASSUME NEW d, Settled(d)
  PROVE  /\ d.run # "ABSENT" /\ d.run \notin ActiveRun
         /\ d.run \in {"COMPLETED", "FAILED", "INCOMPLETE"}
         /\ d \in Aggregate /\ d.tool \notin ActiveToolCall
         /\ d.trace \in Seq(TraceEventType)
  BY DEF Settled, TerminalRun, ActiveRun, Kept, Consistent, ToolConsistent, Aggregate

LEMMA SelectedIff ==
  ASSUME NEW d, Settled(d), NEW selected, Exactly(d, ReferencesOf(d), selected)
  PROVE  /\ UnderstandingRow \in selected <=> d.task # NoRow
         /\ TaskRow \in selected <=> d.task # NoRow
         /\ UnitRow \in selected <=> d.task # NoRow
         /\ ConversationLinkRow \in selected <=> d.task # NoRow
         /\ RunLinkRow \in selected <=> d.task # NoRow
         /\ BindingRow \in selected <=> d.task # NoRow
         /\ ManifestRow(1) \in selected <=> "UNDERSTANDING_MANIFEST" \in d.documents
         /\ ManifestRow(2) \in selected <=> "PRESENTATION_MANIFEST" \in d.documents
         /\ GateRow \in selected <=> "GATE_DECISION" \in d.documents
         /\ ToolCallRow \in selected <=> d.tool # "ABSENT"
         /\ ObservationRow \in selected <=> d.observation
<1>1. \A row \in StoredRows(d) :
        Code(row) \notin {"MESSAGE", "ARTIFACT"} => row \in selected
  BY CodeOf DEF Exactly
<1>2. selected \subseteq StoredRows(d)
  BY DEF Exactly
<1>3. d.run # "ABSENT" /\ Kept(d) /\ Filing(d)
  BY SettledStatus DEF Settled
<1>4. /\ d.task # NoRow =>
           {UnderstandingRow, TaskRow, UnitRow, ConversationLinkRow, RunLinkRow, BindingRow}
             \subseteq StoredRows(d)
      /\ "UNDERSTANDING_MANIFEST" \in d.documents => ManifestRow(1) \in StoredRows(d)
      /\ "PRESENTATION_MANIFEST" \in d.documents => ManifestRow(2) \in StoredRows(d)
      /\ "GATE_DECISION" \in d.documents => GateRow \in StoredRows(d)
      /\ d.tool # "ABSENT" => ToolCallRow \in StoredRows(d)
      /\ d.observation => ObservationRow \in StoredRows(d)
  BY <1>3, StoredHas
<1>5. /\ d.task # NoRow =>
           {UnderstandingRow, TaskRow, UnitRow, ConversationLinkRow, RunLinkRow, BindingRow}
             \subseteq selected
      /\ "UNDERSTANDING_MANIFEST" \in d.documents => ManifestRow(1) \in selected
      /\ "PRESENTATION_MANIFEST" \in d.documents => ManifestRow(2) \in selected
      /\ "GATE_DECISION" \in d.documents => GateRow \in selected
      /\ d.tool # "ABSENT" => ToolCallRow \in selected
      /\ d.observation => ObservationRow \in selected
  BY <1>1, <1>4, CodeOf
<1>6. /\ UnderstandingRow \in selected => d.task # NoRow
      /\ TaskRow \in selected => d.task # NoRow
      /\ UnitRow \in selected => d.task # NoRow
      /\ ConversationLinkRow \in selected => d.task # NoRow
      /\ RunLinkRow \in selected => d.task # NoRow
      /\ BindingRow \in selected => d.task # NoRow
      /\ ManifestRow(1) \in selected => "UNDERSTANDING_MANIFEST" \in d.documents
      /\ ManifestRow(2) \in selected => "PRESENTATION_MANIFEST" \in d.documents
      /\ GateRow \in selected => "GATE_DECISION" \in d.documents
      /\ ToolCallRow \in selected => d.tool # "ABSENT"
      /\ ObservationRow \in selected => d.observation
  BY <1>2, StoredIff
<1> QED BY <1>5, <1>6

\* An Observation has a ToolCall, and a ToolCall its decision, manifest and Task.
LEMMA SettledChain ==
  ASSUME NEW d, Settled(d)
  PROVE  /\ "PRESENTATION_MANIFEST" \in d.documents => d.observation
         /\ d.observation => d.tool = "SUCCEEDED"
         /\ d.tool # "ABSENT" => "GATE_DECISION" \in d.documents
         /\ "GATE_DECISION" \in d.documents =>
              "UNDERSTANDING_MANIFEST" \in d.documents /\ d.task # NoRow
  BY DEF Settled, Filing, Kept, Consistent, ToolConsistent

\* What of a closed Run and its graph the loader asks for is always so.
LEMMA GraphAccepted ==
  ASSUME NEW d, Settled(d), NEW selected, Exactly(d, ReferencesOf(d), selected)
  PROVE  /\ UnderstandingIsAccepted(selected)
         /\ LinksAreExact(d, selected)
         /\ UnitMatchesTask(d, selected)
         /\ HistoryIsComplete(d, selected)
         /\ ToolCallIsGated(d, selected)
         /\ AttemptsAgree(d)
         /\ EventsResolve(ReferencesOf(d), selected)
<1>1. UnderstandingIsAccepted(selected)
  BY SelectedIff DEF UnderstandingIsAccepted
<1>2. LinksAreExact(d, selected)
  <2>1. GraphConsistent(d) /\ d \in Aggregate
    BY DEF Settled, Kept, Consistent
  <2>2. ASSUME d.task # NoRow PROVE d.link = "CLOSED" /\ d.resultVersion = d.task.version
    <3>1. d.link \in {"ABSENT", "OPEN", "CLOSED"}
      BY <2>1 DEF Aggregate
    <3>2. d.link # "ABSENT" /\ d.link # "OPEN"
      BY <2>1, <2>2, SettledStatus DEF GraphConsistent, ActiveRun
    <3> QED BY <2>1, <3>1, <3>2 DEF GraphConsistent
  <2> QED BY <2>2, SelectedIff, SettledStatus DEF LinksAreExact
<1>3. UnitMatchesTask(d, selected)
  BY SelectedIff DEF UnitMatchesTask, Settled, Kept, Consistent, GraphConsistent
<1>4. HistoryIsComplete(d, selected)
  BY DEF HistoryIsComplete, Settled, Concluded
<1>5. ToolCallIsGated(d, selected)
  <2>1. d.tool # "ABSENT" => d.validated <= d.task.version
    <3>1. d.tool # "ABSENT" => d.validated = 1 /\ d.task.version >= 1
      BY DEF Settled, Concluded
    <3>2. d.task.version \in Nat
      BY SettledStatus DEF Aggregate, Projection
    <3> QED BY <3>1, <3>2
  <2> QED BY <2>1, SelectedIff, SettledChain DEF ToolCallIsGated
<1>6. AttemptsAgree(d)
  <2>1. d.tool \in {"ABSENT", "CREATED", "INTERRUPTED"}
          \cup {"RUNNING", "SUCCEEDED", "FAILED", "TIMED_OUT"}
    BY SettledStatus DEF Aggregate, ToolCallStatus, ActiveToolCall
  <2> QED BY <2>1 DEF AttemptsAgree, Settled, Kept, Consistent, ToolConsistent
<1>7. EventsResolve(ReferencesOf(d), selected)
  BY DEF EventsResolve, Exactly
<1> QED BY <1>1, <1>2, <1>3, <1>4, <1>5, <1>6, <1>7

\* The presentation manifest of a FAILED Run names the Task it still has.
LEMMA ManifestAccepted ==
  ASSUME NEW d, Settled(d), NEW selected, Exactly(d, ReferencesOf(d), selected),
         NEW early \in BOOLEAN
  PROVE  ManifestsFitHistory(d, selected, early)
           <=> (d.run \in {"COMPLETED", "INCOMPLETE"} => Assembled(d, early))
<1>1. CASE "PRESENTATION_MANIFEST" \notin d.documents
  BY <1>1, SelectedIff DEF ManifestsFitHistory, Assembled
<1>2. CASE "PRESENTATION_MANIFEST" \in d.documents
  <2>1. d.tool = "SUCCEEDED" /\ d.task # NoRow
    BY <1>2, SettledChain
  <2>2. ManifestRow(2) \in selected /\ TaskRow \in selected
    BY <1>2, <2>1, SelectedIff
  <2>3. CASE d.run = "FAILED"
    <3>1. d.task = InitialRow
      BY <2>1, <2>3 DEF Settled, Concluded
    <3>2. ~(d.task.version > 1)
      BY <3>1 DEF InitialRow
    <3> QED BY <2>2, <2>3, <3>2 DEF ManifestsFitHistory
  <2>4. CASE d.run \in {"COMPLETED", "INCOMPLETE"}
    <3>1. d.task.version > 1
      BY <2>1, <2>4 DEF Settled, Concluded
    <3> QED BY <1>2, <2>2, <2>4, <3>1 DEF ManifestsFitHistory, Assembled
  <2> QED BY <2>3, <2>4, SettledStatus
<1> QED BY <1>1, <1>2

\* An event told apart is counted once, if at all.
LEMMA OneEvent ==
  ASSUME NEW d, NEW event, Single(d, event)
  PROVE  IF event \in Traced(d)
         THEN EventsOf(d, {event}) # {} /\ Cardinality(EventsOf(d, {event})) = 1
         ELSE EventsOf(d, {event}) = {} /\ Cardinality(EventsOf(d, {event})) = 0
<1> DEFINE events == EventsOf(d, {event})
<1>1. CASE event \in Traced(d)
  <2>1. PICK i \in DOMAIN d.trace : d.trace[i] = event
    BY <1>1 DEF Traced
  <2>2. events = {i}
    BY <2>1 DEF EventsOf, Single
  <2> HIDE DEF events
  <2>3. Cardinality(events) = 1 /\ events # {}
    BY <2>2, SmallSets
  <2> QED BY <1>1, <2>3 DEF events
<1>2. CASE event \notin Traced(d)
  <2>1. events = {}
    BY <1>2 DEF EventsOf, Traced
  <2> HIDE DEF events
  <2>2. Cardinality(events) = 0 /\ events = {}
    BY <2>1, SmallSets
  <2> QED BY <1>2, <2>2 DEF events
<1> QED BY <1>1, <1>2

\* The one decision, and the one normalized result, are told of once.
LEMMA GateEventAccepted ==
  ASSUME NEW d, Settled(d), NEW selected, Exactly(d, ReferencesOf(d), selected)
  PROVE  GateEventsAreOwned(d, selected)
<1> DEFINE gates == {row \in selected : Code(row) = "GATE"}
           told == EventsOf(d, {"GateDecisionRecorded"})
<1>1. Single(d, "GateDecisionRecorded")
  BY DEF Settled, CountedEvent
<1>2. selected \subseteq StoredRows(d)
  BY DEF Exactly
<1>3. gates \subseteq {GateRow} /\ (GateRow \in selected => gates = {GateRow})
  BY <1>2, ByCode, CodeOf
<1>4. gates = {} \/ gates = {GateRow}
  BY <1>3
<1>5. CASE "GateDecisionRecorded" \in Traced(d)
  <2>1. "GATE_DECISION" \in d.documents
    BY <1>5 DEF Settled, Truthful, Told
  <2>2. gates = {GateRow}
    BY <1>3, <2>1, SelectedIff
  <2>3. Cardinality(told) = 1
    BY <1>1, <1>5, OneEvent
  <2> HIDE DEF gates, told
  <2>4. Cardinality(told) <= Cardinality(gates)
    BY <2>2, <2>3, SmallSets
  <2> QED BY <2>4 DEF GateEventsAreOwned, gates, told
<1>6. CASE "GateDecisionRecorded" \notin Traced(d)
  <2>1. Cardinality(told) = 0
    BY <1>1, <1>6, OneEvent
  <2> HIDE DEF gates, told
  <2>2. Cardinality(gates) \in {0, 1}
    BY <1>4, SmallSets
  <2>3. Cardinality(told) <= Cardinality(gates)
    BY <2>1, <2>2
  <2> QED BY <2>3 DEF GateEventsAreOwned, gates, told
<1> QED BY <1>5, <1>6

LEMMA ResultAccepted ==
  ASSUME NEW d, Settled(d)
  PROVE  ResultIsNormalizedOnce(d)
<1>1. Single(d, "ToolResultNormalized")
  BY DEF Settled, CountedEvent
<1>2. Cardinality(EventsOf(d, {"ToolResultNormalized"})) \in {0, 1}
  BY <1>1, OneEvent
<1> QED BY <1>2, SettledStatus DEF ResultIsNormalizedOnce

\* An Observation is told of, or the loader misses its source.
LEMMA ObservationAccepted ==
  ASSUME NEW d, Settled(d), NEW selected, Exactly(d, ReferencesOf(d), selected)
  PROVE  ObservationIsSourced(d, selected) <=> ObservationTold(d)
<1> DEFINE recorded == EventsOf(d, {"ObservationRecorded"})
<1>1. Single(d, "ObservationRecorded")
  BY DEF Settled, CountedEvent
<1>2. IF "ObservationRecorded" \in Traced(d)
      THEN recorded # {} /\ Cardinality(recorded) = 1
      ELSE recorded = {} /\ Cardinality(recorded) = 0
  BY <1>1, OneEvent
<1>3. "ObservationRecorded" \in Traced(d) => d.observation /\ d.tool = "SUCCEEDED"
  BY SettledChain DEF Settled, Truthful, Told
<1>4. ObservationRow \in selected <=> d.observation
  BY SelectedIff
<1>5. ObservationIsSourced(d, selected)
        <=> /\ Cardinality(recorded) = (IF ObservationRow \in selected THEN 1 ELSE 0)
            /\ recorded # {} => d.tool = "SUCCEEDED"
  BY DEF ObservationIsSourced
<1> HIDE DEF recorded
<1> QED BY <1>2, <1>3, <1>4, <1>5 DEF ObservationTold

\* A closed Run stopped once, or FAILED.
LEMMA StopAccepted ==
  ASSUME NEW d, Settled(d), NEW selected, Exactly(d, ReferencesOf(d), selected)
  PROVE  StopIsExact(d, selected)
<1> DEFINE stopped == Cardinality(EventsOf(d, {"RunStopped"}))
<1>1. Evidence(d) /\ Concluded(d)
  BY DEF Settled, Kept, Consistent
<1>2. TaskRow \in selected <=> d.task # NoRow
  BY SelectedIff
<1>3. ASSUME d.run \in {"COMPLETED", "INCOMPLETE"} PROVE stopped = 1
  <2>1. Once(d.trace, "RunStopped")
    BY <1>1, <1>3 DEF Evidence
  <2>2. Single(d, "RunStopped") /\ "RunStopped" \in Traced(d)
    BY <2>1 DEF Once, Single, Traced
  <2> QED BY <2>2, OneEvent
<1>4. ASSUME d.run = "FAILED" PROVE stopped = 0 /\ d.stop = "NONE"
  <2>1. d.stop = "NONE" /\ Never(d.trace, "RunStopped")
    BY <1>1, <1>4 DEF Evidence
  <2>2. Single(d, "RunStopped") /\ "RunStopped" \notin Traced(d)
    BY <2>1 DEF Never, Single, Traced
  <2> QED BY <2>1, <2>2, OneEvent
<1>5. StopIsExact(d, selected)
        <=> CASE d.run = "COMPLETED" ->
                   /\ stopped = 1
                   /\ IF TaskRow \in selected
                      THEN d.stop \in CompletionReason \ {"INPUT_INVALID"}
                             /\ d.task.status = TargetStatus(d.stop)
                      ELSE d.stop \in {"PROVIDER_PROTOCOL_ERROR", "INPUT_INVALID"}
              [] d.run = "INCOMPLETE" -> stopped = 1 /\ d.stop = RestartReason
              [] OTHER -> stopped = 0 /\ d.stop = "NONE"
  BY DEF StopIsExact
<1> HIDE DEF stopped
<1>6. CASE d.run = "COMPLETED"
  <2>1. d.stop \in CompletionReason
    BY <1>1, <1>6 DEF Evidence
  <2>2. IF d.task = NoRow THEN d.stop \in TasklessReason
        ELSE d.stop # "INPUT_INVALID" /\ d.task.status = TargetStatus(d.stop)
    BY <1>1, <1>6 DEF Concluded
  <2> QED BY <1>2, <1>3, <1>5, <1>6, <2>1, <2>2 DEF TasklessReason
<1>7. CASE d.run = "INCOMPLETE"
  BY <1>1, <1>3, <1>5, <1>7 DEF Evidence
<1>8. CASE d.run = "FAILED"
  BY <1>4, <1>5, <1>8
<1> QED BY <1>6, <1>7, <1>8, SettledStatus

\* The lifecycle events of a ToolCall are told apart, and unless the last of
\* them is missing its status is among them.
LEMMA LifecycleCodes ==
  /\ DOMAIN LifecycleStatus =
       {"ToolCallCreated", "ToolCallStarted", "ToolCallSucceeded", "ToolCallFailed",
        "ToolCallTimedOut", "ToolCallInterrupted"}
  /\ LifecycleStatus["ToolCallCreated"] = "CREATED"
  /\ LifecycleStatus["ToolCallStarted"] = "RUNNING"
  /\ LifecycleStatus["ToolCallSucceeded"] = "SUCCEEDED"
  /\ LifecycleStatus["ToolCallFailed"] = "FAILED"
  /\ LifecycleStatus["ToolCallTimedOut"] = "TIMED_OUT"
  /\ LifecycleStatus["ToolCallInterrupted"] = "INTERRUPTED"
  BY DEF LifecycleStatus

LEMMA LifecycleAccepted ==
  ASSUME NEW d, Settled(d)
  PROVE  LifecycleIsTraced(d) <=> ToolTold(d)
<1> DEFINE events == EventsOf(d, DOMAIN LifecycleStatus)
           statuses == {LifecycleStatus[d.trace[i]] : i \in events}
           f == [i \in events |-> LifecycleStatus[d.trace[i]]]
           n == Len(d.trace)
<1>1. n \in Nat /\ DOMAIN d.trace = 1..n
  BY SettledStatus
<1>2. events \subseteq 1..n /\ \A i \in events : d.trace[i] \in DOMAIN LifecycleStatus
  BY <1>1 DEF EventsOf
<1>3. DOMAIN LifecycleStatus \subseteq CountedEvent
  BY LifecycleCodes DEF CountedEvent
<1>4. ASSUME NEW i \in events, NEW j \in events,
             LifecycleStatus[d.trace[i]] = LifecycleStatus[d.trace[j]]
      PROVE  i = j
  <2>1. d.trace[i] = d.trace[j]
    BY <1>2, <1>4, LifecycleCodes
  <2>2. Single(d, d.trace[i])
    BY <1>2, <1>3 DEF Settled
  <2> QED BY <1>1, <1>2, <2>1, <2>2 DEF Single
<1>5. \A status : status \in statuses <=>
        \E type \in Traced(d) \cap DOMAIN LifecycleStatus : LifecycleStatus[type] = status
  BY DEF Traced, EventsOf
<1>6. \A type \in Traced(d) \cap DOMAIN LifecycleStatus :
        LifecycleStatus[type] \in ActiveToolCall \/ LifecycleStatus[type] = d.tool
  <2>1. \A type \in Traced(d) : Told(type, d)
    BY DEF Settled, Truthful
  <2> QED BY <2>1, LifecycleCodes DEF Told, ActiveToolCall
<1>7. LifecycleIsTraced(d) <=>
        (d.tool # "ABSENT" =>
           /\ Cardinality(statuses) = Cardinality(events)
           /\ d.tool \in statuses
           /\ statuses \ ActiveToolCall \subseteq {d.tool}
           /\ d.tool = "CREATED" => statuses = {"CREATED"})
  BY DEF LifecycleIsTraced
<1>8. f \in Bijection(events, statuses)
  <2>1. f \in [events -> statuses]
    OBVIOUS
  <2>2. \A i, j \in events : f[i] = f[j] => i = j
    BY <1>4
  <2>3. \A status \in statuses : \E i \in events : f[i] = status
    OBVIOUS
  <2> HIDE DEF f, events, statuses
  <2> QED BY <2>1, <2>2, <2>3 DEF Bijection, Injection, Surjection, IsInjective
<1>9. IsFiniteSet(events)
  <2>1. IsFiniteSet(1..n)
    BY <1>1, FS_Interval
  <2> HIDE DEF events, n
  <2> QED BY <1>2, <2>1, FS_Subset
<1> HIDE DEF events, statuses, f
<1>10. Cardinality(statuses) = Cardinality(events)
  <2>1. ExistsBijection(events, statuses)
    BY <1>8 DEF ExistsBijection
  <2> QED BY <1>9, <2>1, FS_Bijection
<1>11. statuses \ ActiveToolCall \subseteq {d.tool}
  BY <1>5, <1>6
<1>12. d.tool # "CREATED"
  BY SettledStatus DEF ActiveToolCall
<1> QED BY <1>5, <1>7, <1>10, <1>11, <1>12 DEF ToolTold

\* Every row that other rows must lead to is led to.
LEMMA FamiliesAccepted ==
  ASSUME NEW d, Settled(d), ObservationTold(d),
         NEW selected, Exactly(d, ReferencesOf(d), selected)
  PROVE  FamiliesAreReferenced(ReferencesOf(d), selected)
<1> DEFINE refs == ReferencesOf(d)
<1>1. /\ DOMAIN refs = StoredRows(d)
      /\ \A row \in DOMAIN refs : refs[row] = References(d, row)
  BY DEF ReferencesOf
<1>2. /\ selected \subseteq StoredRows(d) \ {ReplyRow}
      /\ StoredRows(d) \ {ReplyRow, UserMessageRow, ArtifactRow} \subseteq selected
      /\ \A row \in selected : refs[row] \subseteq selected
      /\ \A row \in selected \cap {UserMessageRow, ArtifactRow} :
           \E source \in selected : row \in refs[source]
  BY DEF Exactly
<1> HIDE DEF refs
<1>3. ASSUME NEW row \in selected, Code(row) \in DOMAIN ReferringFamilies
      PROVE  \E source \in selected :
               row \in refs[source] /\ Code(source) \in ReferringFamilies[Code(row)]
  <2>1. DOMAIN ReferringFamilies = {"MESSAGE", "BINDING", "OBSERVATION", "ARTIFACT"}
    BY DEF ReferringFamilies
  <2>2. row \in StoredRows(d) /\ row # ReplyRow
    BY <1>2
  <2>3. CASE Code(row) \in {"MESSAGE", "ARTIFACT"}
    <3>1. row \in {UserMessageRow, ArtifactRow}
      BY <2>2, <2>3, ByCode
    <3>2. PICK source \in selected : row \in refs[source]
      BY <1>2, <3>1
    <3>3. source \in StoredRows(d) /\ row \in References(d, source)
      BY <1>1, <1>2, <3>2
    <3>4. CASE row = UserMessageRow
      <4>1. Code(source) \in {"UNDERSTANDING", "UNIT", "BINDING", "MANIFEST", "TRACE"}
        BY <3>3, <3>4, RowTargets, CodeOf
      <4> QED BY <3>2, <3>4, <4>1, CodeOf DEF ReferringFamilies
    <3>5. CASE row = ArtifactRow
      <4>1. Code(source) \in {"MANIFEST", "TRACE"}
        BY <3>3, <3>5, RowTargets, CodeOf
      <4> QED BY <3>2, <3>5, <4>1, CodeOf DEF ReferringFamilies
    <3> QED BY <3>1, <3>4, <3>5
  <2>4. CASE Code(row) = "BINDING"
    <3>1. row = BindingRow
      BY <2>2, <2>4, ByCode
    <3>2. UnderstandingRow \in selected
      BY <1>2, <3>1, SelectedIff
    <3>3. BindingRow \in refs[UnderstandingRow]
      BY <1>1, <1>2, <3>2, GraphRowReferences
    <3>4. Code(UnderstandingRow) \in ReferringFamilies["BINDING"]
      BY CodeOf DEF ReferringFamilies
    <3> QED BY <2>4, <3>1, <3>2, <3>3, <3>4
  <2>5. CASE Code(row) = "OBSERVATION"
    <3>1. row = ObservationRow
      BY <2>2, <2>5, ByCode
    <3>2. d.observation
      BY <3>1, SelectedIff
    <3>3. PICK i \in DOMAIN d.trace : d.trace[i] = "ObservationRecorded"
      BY <3>2 DEF ObservationTold, Traced
    <3>4. TraceRow(i) \in StoredRows(d)
      BY DEF StoredRows
    <3>5. TraceRow(i) \in selected
      BY <1>2, <3>4, CodeOf
    <3>6. ObservationRow \in EventReferences(d, i)
      BY <3>3 DEF EventReferences
    <3>7. ObservationRow \in refs[TraceRow(i)]
      <4>1. refs[TraceRow(i)] = References(d, TraceRow(i))
        BY <1>1, <3>4
      <4>2. References(d, TraceRow(i)) = {RunRow} \cup EventReferences(d, i)
        BY CallRowReferences
      <4> QED BY <3>6, <4>1, <4>2
    <3>8. Code(TraceRow(i)) \in ReferringFamilies["OBSERVATION"]
      BY CodeOf DEF ReferringFamilies
    <3> QED BY <2>5, <3>1, <3>5, <3>7, <3>8
  <2> QED BY <1>3, <2>1, <2>3, <2>4, <2>5
<1>4. ASSUME NEW code \in DOMAIN ReferringFamilies
      PROVE  LET referring == {row \in selected : Code(row) \in ReferringFamilies[code]}
             IN  {row \in selected : Code(row) = code}
                   = {row \in UNION {refs[source] : source \in referring} : Code(row) = code}
  <2> DEFINE referring == {row \in selected : Code(row) \in ReferringFamilies[code]}
             led == UNION {refs[source] : source \in referring}
  <2>1. \A row : row \in led <=> \E source \in referring : row \in refs[source]
    OBVIOUS
  <2>2. \A row \in selected : Code(row) = code => row \in led
    BY <1>3, <1>4, <2>1
  <2>3. led \subseteq selected
    BY <1>2, <2>1
  <2> HIDE DEF led
  <2>4. {row \in selected : Code(row) = code} = {row \in led : Code(row) = code}
    BY <2>2, <2>3
  <2> QED BY <2>4 DEF led
<1>5. FamiliesAreReferenced(refs, selected)
  BY <1>4 DEF FamiliesAreReferenced
<1> QED BY <1>5 DEF refs

\* The evidence of a closed Run is accepted exactly when its Trace tells of the
\* tool and of the Observation, and its manifest fits the Task.
LEMMA SettledLoads ==
  ASSUME NEW d, Settled(d), NEW early \in BOOLEAN
  PROVE  EvidenceLoads(d, early)
           <=> /\ ToolTold(d) /\ ObservationTold(d)
               /\ d.run \in {"COMPLETED", "INCOMPLETE"} => Assembled(d, early)
<1> DEFINE refs == ReferencesOf(d)
           selected == SelectedFrom(refs, {RunRow})
<1>1. EvidenceLoads(d, early)
        <=> Collected(refs, selected) /\ ClosureIsExact(d, refs, selected, early)
  BY DEF EvidenceLoads
<1>2. /\ d.run # "ABSENT" /\ Kept(d) /\ Filing(d) /\ ManifestsApart(d) /\ Len(d.trace) <= 64
  BY SettledStatus DEF Settled
<1>3. Exactly(d, ReferencesOf(d), selected)
  BY <1>2, SelectedExactly
<1> HIDE DEF selected
<1>4. Collected(refs, selected)
  BY <1>2, <1>3, CollectedAlways
<1>5. /\ UnderstandingIsAccepted(selected) /\ LinksAreExact(d, selected)
      /\ UnitMatchesTask(d, selected) /\ HistoryIsComplete(d, selected)
      /\ ToolCallIsGated(d, selected) /\ AttemptsAgree(d) /\ EventsResolve(refs, selected)
  BY <1>3, GraphAccepted
<1>6. /\ GateEventsAreOwned(d, selected) /\ ResultIsNormalizedOnce(d)
      /\ StopIsExact(d, selected)
  BY <1>3, GateEventAccepted, ResultAccepted, StopAccepted
<1>7. ManifestsFitHistory(d, selected, early)
        <=> (d.run \in {"COMPLETED", "INCOMPLETE"} => Assembled(d, early))
  BY <1>3, ManifestAccepted
<1>8. ObservationIsSourced(d, selected) <=> ObservationTold(d)
  BY <1>3, ObservationAccepted
<1>9. LifecycleIsTraced(d) <=> ToolTold(d)
  BY LifecycleAccepted
<1>10. ObservationTold(d) => FamiliesAreReferenced(refs, selected)
  BY <1>3, FamiliesAccepted
<1> HIDE DEF refs
<1>11. ClosureIsExact(d, refs, selected, early)
         <=> /\ ManifestsFitHistory(d, selected, early) /\ ObservationIsSourced(d, selected)
             /\ LifecycleIsTraced(d) /\ FamiliesAreReferenced(refs, selected)
  BY <1>5, <1>6 DEF ClosureIsExact
<1> QED BY <1>1, <1>4, <1>7, <1>8, <1>9, <1>10, <1>11

\* What the invariants make of a Run once it is closed.
LEMMA ClosedSettled ==
  ASSUME IndInv, ReferenceInv, EvidenceInv, \A r \in Runs : Truthful(db[r]),
         NEW r \in Runs, db[r].run \in TerminalRun
  PROVE  Settled(db[r])
<1> DEFINE d == db[r]
           l == h[r]
<1>1. /\ Kept(d) /\ Filing(d) /\ ManifestsApart(d) /\ Truthful(d) /\ d.run \in TerminalRun
  BY IndInvGood DEF Good, ReferenceInv, Placed
<1>2. Paced(l, d) /\ Concluded(d) /\ Reported(l, d)
  BY DEF EvidenceInv
<1> HIDE DEF d, l
<1>3. Normalized(d) /\ Answered(d)
  BY <1>2, ReportedParts
<1>4. Len(d.trace) <= 64
  <2> DEFINE n == Len(d.trace)
             far == Progress(l.pc)
  <2>1. n < far + 3
    BY <1>1, <1>2 DEF Paced, Ending
  <2>2. n \in Nat /\ far \in 1..22
    BY <1>1, ProgressRange DEF Kept, Aggregate
  <2> HIDE DEF n, far
  <2>3. n <= 64
    BY ONLY <2>1, <2>2
  <2> QED BY <2>3 DEF n
<1>5. \A event \in CountedEvent : Single(d, event)
  BY <1>2 DEF Paced
<1>6. Settled(d)
  BY <1>1, <1>2, <1>3, <1>4, <1>5 DEF Settled
<1> QED BY <1>6 DEF d

LEMMA EverSettled ==
  Spec => [](\A r \in Runs : db[r].run \in TerminalRun => Settled(db[r]))
<1>1. IndInv /\ ReferenceInv /\ EvidenceInv /\ TraceTellsTruth
        => \A r \in Runs : db[r].run \in TerminalRun => Settled(db[r])
  <2> SUFFICES ASSUME IndInv, ReferenceInv, EvidenceInv, TraceTellsTruth
               PROVE  \A r \in Runs : db[r].run \in TerminalRun => Settled(db[r])
    OBVIOUS
  <2>1. \A r \in Runs : Truthful(db[r])
    BY DEF TraceTellsTruth, Truthful
  <2> QED BY <2>1, ClosedSettled
<1> QED BY <1>1, AgentRunInvariant, EvidenceInvariant, TraceTellsTruthHolds, PTL

\* The rows the loader has after its three rounds lead to no other row.
SelectionComplete(d) ==
  LET refs == ReferencesOf(d)
      selected == SelectedFrom(refs, {RunRow})
  IN  Selecting(refs, selected) = selected

\* The loader reads the evidence of a Run completely: three rounds of selection
\* find every row a fourth one could, whatever its handler and the recoveries
\* have stored.
THEOREM SelectionEnds ==
  Spec => [](\A r \in Runs : db[r].run # "ABSENT" => SelectionComplete(db[r]))
<1>1. IndInv /\ ReferenceInv
        => \A r \in Runs : db[r].run # "ABSENT" => SelectionComplete(db[r])
  <2> SUFFICES ASSUME IndInv, ReferenceInv, NEW r \in Runs, db[r].run # "ABSENT"
               PROVE  SelectionComplete(db[r])
    OBVIOUS
  <2>1. Kept(db[r]) /\ Filing(db[r]) /\ ManifestsApart(db[r])
    BY IndInvGood DEF Good, ReferenceInv, Placed
  <2>2. Exactly(db[r], ReferencesOf(db[r]), SelectedFrom(ReferencesOf(db[r]), {RunRow}))
    BY <2>1, SelectedExactly
  <2>3. Selecting(ReferencesOf(db[r]), SelectedFrom(ReferencesOf(db[r]), {RunRow}))
          = SelectedFrom(ReferencesOf(db[r]), {RunRow})
    BY <2>2, SelectionStops
  <2> QED BY <2>3 DEF SelectionComplete
<1> QED BY <1>1, AgentRunInvariant, EvidenceInvariant, PTL

\* The evidence of every COMPLETED Run loads, but for a presentation manifest
\* that is not earlier than the transition which ended the Task version it
\* names: finalize_run_if_active is reached only after every tool event.
THEOREM AnsweredEvidenceLoadsHolds == Spec => []AnsweredEvidenceLoads
<1>1. (\A r \in Runs : db[r].run \in TerminalRun => Settled(db[r])) => AnsweredEvidenceLoads
  <2> SUFFICES ASSUME \A r \in Runs : db[r].run \in TerminalRun => Settled(db[r]),
                      NEW r \in Runs, db[r].run = "COMPLETED", NEW early \in BOOLEAN
               PROVE  EvidenceLoads(db[r], early) = Assembled(db[r], early)
    BY DEF AnsweredEvidenceLoads
  <2>1. Settled(db[r])
    BY DEF TerminalRun
  <2>2. ToolTold(db[r]) /\ ObservationTold(db[r])
    BY <2>1 DEF Settled, Answered
  <2>3. EvidenceLoads(db[r], early) <=> Assembled(db[r], early)
    BY <2>1, <2>2, SettledLoads
  <2>4. EvidenceLoads(db[r], early) \in BOOLEAN /\ Assembled(db[r], early) \in BOOLEAN
    BY DEF EvidenceLoads, Assembled
  <2> QED BY <2>3, <2>4
<1> QED BY <1>1, EverSettled, PTL

\* The evidence of a FAILED or INCOMPLETE Run is lost to the loader when the
\* handler was cut off between a tool write and its event, or wrote a manifest
\* that the recovery overtook, and then only.
THEOREM EvidenceLossIsExplainedHolds == Spec => []EvidenceLossIsExplained
<1>1. (\A r \in Runs : db[r].run \in TerminalRun => Settled(db[r])) => EvidenceLossIsExplained
  <2> SUFFICES ASSUME \A r \in Runs : db[r].run \in TerminalRun => Settled(db[r]),
                      NEW r \in Runs, db[r].run \in {"FAILED", "INCOMPLETE"},
                      NEW early \in BOOLEAN
               PROVE  EvidenceLoads(db[r], early)
                        = (/\ ToolTold(db[r]) /\ ObservationTold(db[r])
                           /\ db[r].run = "INCOMPLETE" => Assembled(db[r], early))
    BY DEF EvidenceLossIsExplained
  <2>1. Settled(db[r])
    BY DEF TerminalRun
  <2>2. EvidenceLoads(db[r], early)
          <=> (/\ ToolTold(db[r]) /\ ObservationTold(db[r])
               /\ db[r].run = "INCOMPLETE" => Assembled(db[r], early))
    BY <2>1, SettledLoads
  <2>3. EvidenceLoads(db[r], early) \in BOOLEAN
    BY DEF EvidenceLoads
  <2> QED BY <2>2, <2>3
<1> QED BY <1>1, EverSettled, PTL

-------------------------------------------------------------------------------
(* The events of a Run, one by one.                                         *)

EventTable(hooked, tool) ==
  /\ EventAt(1, hooked, tool) = "MessageAccepted"
  /\ EventAt(2, hooked, tool) = "RunStarted"
  /\ EventAt(3, hooked, tool) = "RequestUnderstandingStarted"
  /\ EventAt(4, hooked, tool) = "ContextManifestRecorded"
  /\ EventAt(5, hooked, tool) = "NextMoveProposed"
  /\ EventAt(6, hooked, tool) = "TaskDeltaValidated"
  /\ EventAt(7, hooked, tool) = "TaskDeltaAccepted"
  /\ EventAt(8, hooked, tool) = "InputBindingRecorded"
  /\ EventAt(9, hooked, tool) = "TaskStateChanged"
  /\ EventAt(10, hooked, tool) = "NextMoveRevalidated"
  /\ EventAt(11, hooked, tool) = IF hooked THEN "TaskStateChanged" ELSE "GateDecisionRecorded"
  /\ EventAt(12, hooked, tool) = IF hooked THEN "GateDecisionRecorded" ELSE "ToolCallCreated"
  /\ EventAt(13, hooked, tool) = "ToolCallStarted"
  /\ EventAt(14, hooked, tool) = EndEvent(tool)
  /\ EventAt(15, hooked, tool) = "ToolResultNormalized"
  /\ EventAt(16, hooked, tool) = "ObservationRecorded"
  /\ EventAt(17, hooked, tool) = "ContextManifestRecorded"
  /\ EventAt(18, hooked, tool) = "PresentationPlanProposed"

LEMMA EventAtEach ==
  ASSUME NEW hooked, NEW tool
  PROVE  EventTable(hooked, tool)
<1>1. /\ EventAt(1, hooked, tool) = "MessageAccepted"
      /\ EventAt(2, hooked, tool) = "RunStarted"
      /\ EventAt(3, hooked, tool) = "RequestUnderstandingStarted"
      /\ EventAt(4, hooked, tool) = "ContextManifestRecorded"
      /\ EventAt(5, hooked, tool) = "NextMoveProposed"
      /\ EventAt(6, hooked, tool) = "TaskDeltaValidated"
      /\ EventAt(7, hooked, tool) = "TaskDeltaAccepted"
      /\ EventAt(8, hooked, tool) = "InputBindingRecorded"
      /\ EventAt(9, hooked, tool) = "TaskStateChanged"
  BY DEF EventAt
<1>2. /\ EventAt(10, hooked, tool) = "NextMoveRevalidated"
      /\ EventAt(11, hooked, tool)
           = IF hooked THEN "TaskStateChanged" ELSE "GateDecisionRecorded"
      /\ EventAt(12, hooked, tool)
           = IF hooked THEN "GateDecisionRecorded" ELSE "ToolCallCreated"
      /\ EventAt(13, hooked, tool) = "ToolCallStarted"
      /\ EventAt(14, hooked, tool) = EndEvent(tool)
  BY DEF EventAt
<1>3. /\ EventAt(15, hooked, tool) = "ToolResultNormalized"
      /\ EventAt(16, hooked, tool) = "ObservationRecorded"
      /\ EventAt(17, hooked, tool) = "ContextManifestRecorded"
      /\ EventAt(18, hooked, tool) = "PresentationPlanProposed"
  BY DEF EventAt
<1> QED BY <1>1, <1>2, <1>3 DEF EventTable

\* The first events are the same whatever the hook and the tool did.
LEMMA EventAtEarly ==
  ASSUME NEW i \in Nat, NEW h1, NEW t1, NEW h2, NEW t2,
         h1 = h2 \/ i <= 10, t1 = t2 \/ i <= 13
  PROVE  EventAt(i, h1, t1) = EventAt(i, h2, t2)
  BY DEF EventAt

LEMMA OpensSame ==
  ASSUME NEW d, NEW e, NEW n \in Nat, Opens(d, n), e.trace = d.trace,
         (Hooked(e) <=> Hooked(d)) \/ n <= 10, e.tool = d.tool \/ n <= 13
  PROVE  Opens(e, n)
<1>1. ASSUME NEW i \in 1..n
      PROVE  e.trace[i] = EventAt(i, Hooked(e), e.tool)
  <2>1. d.trace[i] = EventAt(i, Hooked(d), d.tool)
    BY DEF Opens
  <2>2. (Hooked(e) = Hooked(d)) \/ i <= 10
    BY DEF Hooked
  <2>3. e.tool = d.tool \/ i <= 13
    OBVIOUS
  <2> DEFINE h1 == Hooked(d)
             h2 == Hooked(e)
  <2> HIDE DEF h1, h2
  <2>4. EventAt(i, h1, d.tool) = EventAt(i, h2, e.tool)
    <3>1. i \in Nat /\ (h1 = h2 \/ i <= 10) /\ (d.tool = e.tool \/ i <= 13)
      BY <2>2, <2>3 DEF h1, h2
    <3> DEFINE t1 == d.tool
               t2 == e.tool
    <3> HIDE DEF t1, t2
    <3>2. EventAt(i, h1, t1) = EventAt(i, h2, t2)
      BY <3>1, EventAtEarly DEF t1, t2
    <3> QED BY <3>2 DEF t1, t2
  <2> QED BY <2>1, <2>4 DEF h1, h2
<1> QED BY <1>1 DEF Opens

\* One event more.
LEMMA OpensAppend ==
  ASSUME NEW d, NEW e, NEW n \in Nat, Opens(d, n), Len(d.trace) = n,
         d.trace \in Seq(TraceEventType), NEW w, e.trace = Append(d.trace, w),
         w = EventAt(n + 1, Hooked(d), d.tool), Hooked(e) = Hooked(d), e.tool = d.tool
  PROVE  Opens(e, n + 1) /\ Len(e.trace) = n + 1
<1>1. Len(e.trace) = n + 1 /\ e.trace[n + 1] = w /\ \A i \in 1..n : e.trace[i] = d.trace[i]
  OBVIOUS
<1>2. \A i \in 1..(n + 1) : i = n + 1 \/ i \in 1..n
  OBVIOUS
<1> QED BY <1>1, <1>2 DEF Opens

LEMMA OpensLonger ==
  ASSUME NEW d, NEW e, NEW n \in Nat, Opens(d, n),
         d.trace \in Seq(TraceEventType), NEW w, e.trace = Append(d.trace, w),
         Hooked(e) = Hooked(d), e.tool = d.tool
  PROVE  Opens(e, n) /\ Len(e.trace) = Len(d.trace) + 1 /\ e.trace[Len(d.trace) + 1] = w
<1>1. /\ Len(e.trace) = Len(d.trace) + 1 /\ e.trace[Len(d.trace) + 1] = w
      /\ \A i \in 1..Len(d.trace) : e.trace[i] = d.trace[i]
      /\ Len(d.trace) \in Nat
  OBVIOUS
<1> QED BY <1>1 DEF Opens

\* What each plain insert of an event adds to the story.
Counted(l, d, m) ==
  /\ Before(l, d) \in 0..17 /\ Before(m, d) = Before(l, d) + 1
  /\ WriteAt(l) = EventAt(Before(l, d) + 1, Hooked(d), d.tool)

LEMMA PlainCounted ==
  ASSUME NEW l, NEW d, NEW m, l.pc \in PlainPoint, m.pc = NextPoint(l),
         WriteAt(l) \notin Document, l.pc # "response_rendered", m.pc # "response_rendered",
         Hooked(d) => l.pc = "hook_changed", l.pc = "hook_changed" => Hooked(d),
         l.pc = "tool_ended" => WriteAt(l) = EndEvent(d.tool)
  PROVE  Counted(l, d, m)
<1> DEFINE w == WriteAt(l)
           next == NextPoint(l)
           hooked == Hooked(d)
<1>1. CASE l.pc \in {"message_accepted", "run_started", "understanding_started",
                     "save_manifest", "manifest_recorded"}
  <2>1. \/ l.pc = "message_accepted" /\ w = "MessageAccepted" /\ next = "run_started"
        \/ l.pc = "run_started" /\ w = "RunStarted" /\ next = "understanding_started"
        \/ l.pc = "understanding_started" /\ w = "RequestUnderstandingStarted"
             /\ next = "save_manifest"
        \/ l.pc = "manifest_recorded" /\ w = "ContextManifestRecorded" /\ next = "propose"
    BY <1>1 DEF WriteAt, NextPoint, Document
  <2> HIDE DEF w, next, hooked
  <2>2. EventTable(hooked, d.tool)
    BY EventAtEach
  <2> QED BY <2>1, <2>2, ProgressAt DEF ProgressTable, EventTable, Counted, Before, w, next, hooked
<1>2. CASE l.pc \in {"move_proposed", "delta_validated", "delta_accepted", "binding_recorded",
                     "task_changed", "revalidated", "hook_changed"}
  <2>1. \/ l.pc = "move_proposed" /\ w = "NextMoveProposed" /\ next = "delta_validated"
        \/ l.pc = "delta_validated" /\ w = "TaskDeltaValidated" /\ next = "delta_accepted"
        \/ l.pc = "delta_accepted" /\ w = "TaskDeltaAccepted" /\ next = "binding_recorded"
        \/ l.pc = "binding_recorded" /\ w = "InputBindingRecorded" /\ next = "task_changed"
        \/ l.pc = "task_changed" /\ w = "TaskStateChanged" /\ next = "revalidated"
        \/ l.pc = "revalidated" /\ w = "NextMoveRevalidated" /\ next = "hook"
        \/ l.pc = "hook_changed" /\ w = "TaskStateChanged" /\ next = "load_task"
    BY <1>2 DEF WriteAt, NextPoint
  <2> HIDE DEF w, next, hooked
  <2>2. EventTable(hooked, d.tool)
    BY EventAtEach
  <2> QED BY <2>1, <2>2, ProgressAt DEF ProgressTable, EventTable, Counted, Before, w, next, hooked
<1>3. CASE l.pc \in {"gate_recorded", "tool_created", "tool_started", "tool_ended",
                     "tool_normalized"}
  <2>1. \/ l.pc = "gate_recorded" /\ w = "GateDecisionRecorded" /\ next = "authorize"
        \/ l.pc = "tool_created" /\ w = "ToolCallCreated" /\ next = "tool_started"
        \/ l.pc = "tool_started" /\ w = "ToolCallStarted" /\ next = "tool_ended"
        \/ l.pc = "tool_ended" /\ next = "tool_normalized" /\ w = EndEvent(d.tool)
        \/ l.pc = "tool_normalized" /\ w = "ToolResultNormalized"
             /\ next = "observation_recorded"
    BY <1>3 DEF WriteAt, NextPoint
  <2> HIDE DEF w, next, hooked
  <2>2. EventTable(hooked, d.tool)
    BY EventAtEach
  <2>3. ~hooked
    BY <2>1 DEF hooked
  <2> QED BY <2>1, <2>2, <2>3, ProgressAt
          DEF ProgressTable, EventTable, Counted, Before, w, next, hooked
<1>4. CASE l.pc \in {"observation_recorded", "save_plan_manifest", "plan_manifest_recorded",
                     "plan_proposed"}
  <2>1. \/ l.pc = "observation_recorded" /\ w = "ObservationRecorded"
             /\ next = "save_plan_manifest"
        \/ l.pc = "plan_manifest_recorded" /\ w = "ContextManifestRecorded" /\ next = "plan"
        \/ l.pc = "plan_proposed" /\ w = "PresentationPlanProposed" /\ next = "render"
    BY <1>4 DEF WriteAt, NextPoint, Document
  <2> HIDE DEF w, next, hooked
  <2>2. EventTable(hooked, d.tool)
    BY EventAtEach
  <2>3. ~hooked
    BY <2>1 DEF hooked
  <2> QED BY <2>1, <2>2, <2>3, ProgressAt
          DEF ProgressTable, EventTable, Counted, Before, w, next, hooked
<1> QED BY <1>1, <1>2, <1>3, <1>4 DEF PlainPoint

LEMMA HookedRows ==
  ASSUME NEW d, d.run = "RUNNING"
  PROVE  /\ d.task \in {NoRow, InitialRow} => ~Hooked(d)
         /\ d.task = WaitingRow => Hooked(d)
  BY RowValues DEF Hooked

LEMMA EndOfOutcome ==
  ASSUME NEW outcome
  PROVE  EndEvent(TerminalStatus(outcome)) = TerminalEvent(outcome)
  BY DEF EndEvent, TerminalStatus, TerminalEvent

LEMMA BeforeRange ==
  ASSUME NEW l, NEW d
  PROVE  Before(l, d) \in 0..20 /\ \A stop : BeforeAnswer(d, stop) \in 0..18
  BY ProgressRange DEF Before, BeforeAnswer

\* What a plain insert leaves of the story, before the handler answers.
LEMMA PlainTells ==
  ASSUME NEW l, NEW d, NEW m, NEW e, d \in Aggregate, Unfinished(l, d),
         l.pc \notin AnswerPoint, Counted(l, d, m), e = Written(d, WriteAt(l)),
         WriteAt(l) \notin Document
  PROVE  /\ Opens(e, Before(l, d) + 1) /\ Len(e.trace) = Before(l, d) + 1
         /\ Hooked(e) = Hooked(d) /\ e.tool = d.tool /\ e.task = d.task
<1> DEFINE n == Before(l, d)
           w == WriteAt(l)
<1>1. n \in Nat /\ w = EventAt(n + 1, Hooked(d), d.tool)
  BY BeforeRange DEF Counted
<1>2. Len(d.trace) = n /\ Opens(d, n)
  BY DEF Unfinished
<1>3. /\ e.trace = Append(d.trace, w) /\ d.trace \in Seq(TraceEventType)
      /\ e.tool = d.tool /\ e.task = d.task /\ e.run = d.run
  BY DEF Written, Aggregate
<1>4. Hooked(e) = Hooked(d)
  BY <1>3 DEF Hooked
<1> HIDE DEF n, w
<1>5. Opens(e, n + 1) /\ Len(e.trace) = n + 1
  BY <1>1, <1>2, <1>3, <1>4, OpensAppend
<1> QED BY <1>3, <1>4, <1>5 DEF n

LEMMA PlainStory ==
  ASSUME NEW l, NEW d, NEW m, NEW e, Good(l, d), Good(m, e), Storied(l, d),
         PlainMove(l, d, m, e), e.run = "RUNNING", m.pc \in WritingPoint
  PROVE  Unfinished(m, e)
<1> DEFINE w == WriteAt(l)
<1>1. /\ l.pc \in PlainPoint /\ e = Written(d, w) /\ m.pc = NextPoint(l) /\ m.cursor = l.cursor
      /\ m.stop = IF l.pc = "tool_normalized" /\ l.outcome # "FOUND"
                  THEN ReadStop(l.outcome) ELSE l.stop
  <2>1. m.pc \notin RaisedTo
    BY DEF WritingPoint, ServicePoint, PlainPoint, ExecutorPoint, RaisedTo
  <2> QED BY <2>1 DEF PlainMove
<1>2. d \in Aggregate /\ d.trace \in Seq(TraceEventType)
  BY DEF Good, Kept, Aggregate
<1>3. /\ e.run = d.run /\ d.run = "RUNNING" /\ e.task = d.task /\ e.tool = d.tool
      /\ w \in Document => e.trace = d.trace
      /\ w \notin Document => e.trace = Append(d.trace, w)
  BY <1>1, <1>2 DEF Written, Aggregate
<1>4. Hooked(e) = Hooked(d) /\ \A stop : BeforeAnswer(e, stop) = BeforeAnswer(d, stop)
  BY <1>3 DEF Hooked, BeforeAnswer
<1>5. Unfinished(l, d)
  BY <1>1, <1>3 DEF Storied, WritingPoint, ServicePoint
<1>6. Hooked(d) => l.pc \in {"hook_changed", "gate_recorded", "response_rendered"}
  BY <1>1, <1>5 DEF Unfinished, GatePoint, AnswerPoint, PlainPoint
<1>7. l.pc = "hook_changed" => Hooked(d)
  BY <1>5 DEF Unfinished
<1>8. NextPoint(l) # "hook_changed"
  BY DEF NextPoint
<1>9. CASE w \in Document
  <2>1. \/ l.pc = "save_manifest" /\ m.pc = "manifest_recorded"
        \/ l.pc = "save_plan_manifest" /\ m.pc = "plan_manifest_recorded"
    BY <1>1, <1>9 DEF WriteAt, NextPoint, Document, PlainPoint, TerminalEvent
  <2>2. Before(m, e) = Before(l, d) /\ l.pc \notin AnswerPoint /\ m.pc \notin AnswerPoint
    BY <1>4, <2>1, ProgressAt DEF Before, ProgressTable, AnswerPoint
  <2>3. Len(e.trace) = Before(m, e) /\ Opens(d, Before(m, e))
    BY <1>3, <1>5, <1>9, <2>2 DEF Unfinished
  <2> DEFINE n == Before(m, e)
  <2>4. n \in Nat
    BY BeforeRange
  <2> HIDE DEF n
  <2>5. Opens(e, n)
    BY <1>3, <1>4, <1>9, <2>3, <2>4, OpensSame DEF n
  <2>6. ~Hooked(e)
    BY <1>4, <1>6, <2>1
  <2> QED BY <2>1, <2>2, <2>3, <2>5, <2>6 DEF Unfinished, n
<1>10. CASE l.pc = "response_rendered"
  <2>1. w = "ResponseRendered" /\ m.pc = "finalize" /\ w \notin Document /\ m.stop = l.stop
    BY <1>1, <1>10 DEF WriteAt, NextPoint, Document
  <2> DEFINE n == BeforeAnswer(d, l.stop)
  <2>2. n \in Nat /\ Len(d.trace) = n /\ Opens(d, n) /\ n = BeforeAnswer(e, m.stop)
    BY <1>4, <1>5, <1>10, <2>1, BeforeRange DEF Unfinished
  <2> HIDE DEF n, w
  <2>3. Opens(e, n) /\ Len(e.trace) = n + 1 /\ e.trace[n + 1] = "ResponseRendered"
    <3>1. Opens(e, n) /\ Len(e.trace) = Len(d.trace) + 1 /\ e.trace[Len(d.trace) + 1] = w
      <4>1. e.trace = Append(d.trace, w) /\ e.tool = d.tool /\ n \in Nat /\ Opens(d, n)
        BY <1>3, <2>1, <2>2
      <4>2. d.trace \in Seq(TraceEventType) /\ Hooked(e) = Hooked(d)
        BY <1>2, <1>4
      <4> HIDE DEF Opens, Hooked
      <4> QED BY ONLY <4>1, <4>2, OpensLonger
    <3> QED BY <2>1, <2>2, <3>1
  <2>4. Hooked(e) => m.stop = "GATE_REJECTED"
    BY <1>4, <1>5, <1>10, <2>1 DEF Unfinished, AnswerPoint
  <2> QED BY <2>1, <2>2, <2>3, <2>4 DEF Unfinished, AnswerPoint
<1>11. CASE w \notin Document /\ l.pc # "response_rendered" /\ m.pc = "response_rendered"
  <2>1. \/ l.pc = "gate_recorded" /\ w = "GateDecisionRecorded" /\ l.stop = "GATE_REJECTED"
        \/ l.pc = "tool_normalized" /\ w = "ToolResultNormalized" /\ l.outcome # "FOUND"
    BY <1>1, <1>11 DEF WriteAt, NextPoint, PlainPoint
  <2>2. d.task # NoRow
    <3>1. l.pc \in GraphPoint
      BY <2>1 DEF GraphPoint, LoadedPoint, GatePoint, ReadPoint
    <3> QED BY <3>1 DEF Good, Stage, Kept, Consistent, GraphConsistent
  <2>3. m.stop \in {"GATE_REJECTED", "NOT_FOUND_OR_NOT_ACCESSIBLE", "ORDER_SERVICE_UNAVAILABLE"}
        /\ (m.stop = "GATE_REJECTED" <=> l.pc = "gate_recorded")
    BY <1>1, <2>1 DEF ReadStop
  <2> DEFINE n == Before(l, d)
             hooked == Hooked(d)
  <2>4. /\ n + 1 = BeforeAnswer(e, m.stop) /\ n \in Nat
        /\ w = EventAt(n + 1, Hooked(d), d.tool)
    <3>1. EventTable(hooked, d.tool)
      BY EventAtEach
    <3>2. l.pc = "tool_normalized" => ~hooked
      BY <1>6
    <3>3. n = IF l.pc = "gate_recorded" THEN IF hooked THEN 11 ELSE 10 ELSE 14
      BY <2>1, <3>2, ProgressAt DEF Before, ProgressTable
    <3>4. BeforeAnswer(d, m.stop)
            = IF l.pc = "gate_recorded" THEN IF hooked THEN 12 ELSE 11 ELSE 15
      BY <2>2, <2>3 DEF BeforeAnswer
    <3> HIDE DEF n, hooked
    <3>5. w = EventAt(n + 1, hooked, d.tool)
      BY <2>1, <3>1, <3>2, <3>3 DEF EventTable
    <3> QED BY <1>4, <3>3, <3>4, <3>5 DEF hooked
  <2>5. Len(d.trace) = n /\ Opens(d, n)
    BY <1>5, <2>1 DEF Unfinished, AnswerPoint
  <2> HIDE DEF n, hooked, w
  <2>6. Opens(e, n + 1) /\ Len(e.trace) = n + 1
    BY <1>2, <1>3, <1>4, <1>11, <2>4, <2>5, OpensAppend
  <2>7. Hooked(e) => m.stop = "GATE_REJECTED"
    BY <1>4, <1>6, <2>1, <2>3
  <2> QED BY <1>11, <2>4, <2>6, <2>7 DEF Unfinished, AnswerPoint
<1>12. CASE w \notin Document /\ l.pc # "response_rendered" /\ m.pc # "response_rendered"
  <2>1. Hooked(d) => l.pc = "hook_changed"
    <3>1. SUFFICES ASSUME Hooked(d), l.pc = "gate_recorded" PROVE FALSE
      BY <1>6, <1>12
    <3>2. m.pc = "authorize"
      BY <1>1, <1>12, <3>1 DEF NextPoint
    <3>3. e.task = InitialRow
      BY <3>2 DEF Good, Stage, AuthorizedPoint, LoadedPoint, InStep
    <3> QED BY <1>4, <3>1, <3>3, HookedRows
  <2>2. l.pc = "tool_ended" => w = EndEvent(d.tool)
    <3>1. SUFFICES ASSUME l.pc = "tool_ended" PROVE w = EndEvent(d.tool)
      OBVIOUS
    <3>2. w = TerminalEvent(l.outcome) /\ d.tool = TerminalStatus(l.outcome)
      BY <3>1 DEF WriteAt, Good, ToolAt, ReadPoint
    <3> QED BY <3>2, EndOfOutcome
  <2>3. Counted(l, d, m)
    BY <1>1, <1>7, <1>12, <2>1, <2>2, PlainCounted
  <2>4. l.pc \notin AnswerPoint /\ m.pc \notin AnswerPoint
    <3>1. NextPoint(l) = "finalize" => l.pc \notin PlainPoint \ {"response_rendered"}
      BY DEF NextPoint, PlainPoint
    <3> QED BY <1>1, <1>12, <3>1 DEF AnswerPoint, PlainPoint
  <2>5. Opens(e, Before(l, d) + 1) /\ Len(e.trace) = Before(l, d) + 1
    BY <1>1, <1>2, <1>5, <1>12, <2>3, <2>4, PlainTells
  <2>6. Before(m, e) = Before(l, d) + 1
    BY <1>4, <2>3 DEF Before, Counted
  <2>7. Hooked(e) => m.pc = "load_task"
    BY <1>1, <1>4, <2>1 DEF NextPoint
  <2> QED BY <1>1, <1>8, <2>4, <2>5, <2>6, <2>7 DEF Unfinished, AnswerPoint
<1> QED BY <1>9, <1>10, <1>11, <1>12

\* A step that adds nothing to the story.
LEMMA QuietStory ==
  ASSUME NEW l, NEW d, NEW m, NEW e, Unfinished(l, d), e.trace = d.trace,
         l.pc \notin AnswerPoint, m.pc \notin AnswerPoint, Before(m, e) = Before(l, d),
         (Hooked(e) <=> Hooked(d)) \/ Before(l, d) <= 10, e.tool = d.tool \/ Before(l, d) <= 13,
         Hooked(e) => m.pc \in {"hook_changed", "load_task", "load_unit"} \cup GatePoint,
         m.pc = "hook_changed" => Hooked(e)
  PROVE  Unfinished(m, e)
<1> DEFINE n == Before(l, d)
<1>1. n \in Nat /\ Len(d.trace) = n /\ Opens(d, n)
  BY BeforeRange DEF Unfinished
<1>2. ((Hooked(e) <=> Hooked(d)) \/ n <= 10) /\ (e.tool = d.tool \/ n <= 13)
  OBVIOUS
<1> HIDE DEF n
<1>3. Opens(e, n)
  BY <1>1, <1>2, OpensSame
<1>4. Before(m, e) = n /\ Len(e.trace) = n
  BY <1>1 DEF n
<1> QED BY <1>3, <1>4 DEF Unfinished, AnswerPoint

\* And one that only decides the answer.
LEMMA AnswerStory ==
  ASSUME NEW l, NEW d, NEW m, Unfinished(l, d), l.pc \notin AnswerPoint,
         m.pc = "response_rendered", BeforeAnswer(d, m.stop) = Before(l, d), ~Hooked(d)
  PROVE  Unfinished(m, d)
  BY DEF Unfinished, AnswerPoint

LEMMA EntryStory ==
  ASSUME NEW l, NEW d, NEW m, NEW e, Good(l, d), Good(m, e), Paced(l, d),
         EntryMove(l, d, m, e), e.run = "RUNNING", m.pc \in WritingPoint
  PROVE  Unfinished(m, e)
<1>1. /\ l.pc = "start_run" /\ m.pc = "message_accepted"
      /\ e = d \/ (d.run = "CREATED" /\ e = RunStarted(d))
  BY DEF EntryMove, May, WritingPoint, ServicePoint, PlainPoint, ExecutorPoint, RaisedTo,
         RunStartable
<1>2. d \in Aggregate /\ e.trace = d.trace /\ d.trace \in Seq(TraceEventType)
  BY <1>1 DEF Good, Kept, Aggregate, RunStarted
<1>3. Ending(d) = 0
  BY <1>1 DEF Ending, TerminalRun
<1>4. Len(e.trace) = 0
  BY <1>1, <1>2, <1>3, ProgressAt DEF Paced, ProgressTable
<1>5. e.task = NoRow
  BY <1>1 DEF Good, Kept, Consistent, GraphConsistent, Stage, GraphlessPoint
<1>6. ~Hooked(e) /\ Before(m, e) = 0
  BY <1>1, <1>5, HookedRows, ProgressAt DEF Before, ProgressTable
<1>7. Opens(e, 0)
  BY <1>4 DEF Opens
<1> QED BY <1>1, <1>4, <1>6, <1>7 DEF Unfinished, AnswerPoint

LEMMA GraphStory ==
  ASSUME NEW l, NEW d, NEW m, NEW e, Good(l, d), Good(m, e), Storied(l, d),
         GraphMove(l, d, m, e), e.run = "RUNNING", m.pc \in WritingPoint
  PROVE  Unfinished(m, e)
<1>1. m.pc \notin RaisedTo /\ d \in Aggregate
  BY DEF WritingPoint, ServicePoint, PlainPoint, ExecutorPoint, RaisedTo, Good, Kept
<1>2. /\ l.pc \in WritingPoint /\ l.pc \notin AnswerPoint
      /\ m.pc # "response_rendered" => m.pc \notin AnswerPoint
  BY <1>1 DEF GraphMove, WritingPoint, ServicePoint, AnswerPoint
<1>3. /\ e.run = d.run /\ e.tool = d.tool /\ e.trace = d.trace
      /\ e.task = IF m.pc = "hook_changed" THEN WaitingRow
                  ELSE IF m.pc = "move_proposed" THEN e.task ELSE d.task
  <2>1. \/ e = d /\ m.pc # "hook_changed"
        \/ e = GraphCreated(d) /\ m.pc = "move_proposed"
        \/ e = Written(d, "GATE_DECISION") /\ m.pc = "gate_recorded"
        \/ /\ d.task = InitialRow /\ m.pc = "hook_changed"
           /\ e = TaskTransitioned(d, InitialRow, InitialRow, "WAITING_USER")
    BY <1>1 DEF GraphMove, May, TransitionApplies
  <2>2. "GATE_DECISION" \in Document
    BY DEF Document
  <2>3. e.trace = d.trace
    BY <1>1, <2>1, <2>2, SameTrace
  <2>4. e = GraphCreated(d) => e.run = d.run /\ e.tool = d.tool
    BY <1>1 DEF GraphCreated, Aggregate
  <2>5. e = Written(d, "GATE_DECISION") => e.run = d.run /\ e.tool = d.tool /\ e.task = d.task
    BY <1>1 DEF Written, Aggregate
  <2>6. e = TaskTransitioned(d, InitialRow, InitialRow, "WAITING_USER") =>
          e.run = d.run /\ e.tool = d.tool /\ e.task = WaitingRow
    BY <1>1, RowValues DEF TaskTransitioned, Aggregate
  <2> QED BY <2>1, <2>3, <2>4, <2>5, <2>6
<1>4. d.run = "RUNNING" /\ Unfinished(l, d)
  BY <1>2, <1>3 DEF Storied
<1>5. Hooked(d) => l.pc \in {"load_task", "load_unit", "save_gate"}
  BY <1>2, <1>4 DEF Unfinished, GatePoint, GraphMove
<1>6. m.pc \notin {"hook_changed", "move_proposed"} => (Hooked(e) <=> Hooked(d))
  BY <1>3 DEF Hooked
<1>7. CASE l.pc = "propose" /\ m.pc = "response_rendered"
  <2>1. e = d /\ d.task = NoRow
    BY <1>7 DEF GraphMove, Good, Kept, Consistent, GraphConsistent, Stage, GraphlessPoint
  <2>2. BeforeAnswer(d, m.stop) = Before(l, d)
    BY <1>7, <2>1, ProgressAt DEF BeforeAnswer, Before, ProgressTable
  <2>3. ~Hooked(d)
    BY <1>4, <2>1, HookedRows
  <2> QED BY <1>2, <1>4, <1>7, <2>1, <2>2, <2>3, AnswerStory
<1>8. CASE l.pc = "create_graph" /\ m.pc = "move_proposed"
  <2>1. e.task \in {NoRow, InitialRow}
    BY <1>1, <1>8 DEF GraphMove, May, GraphCreated, Good, Kept, Consistent, GraphConsistent,
                      Stage, GraphlessPoint, Aggregate
  <2>2. ~Hooked(e) /\ ~Hooked(d)
    BY <1>3, <1>4, <1>5, <1>8, <2>1, HookedRows
  <2>3. Before(l, d) = 4 /\ Before(m, e) = 4
    BY <1>8, ProgressAt DEF Before, ProgressTable
  <2> QED BY <1>2, <1>3, <1>4, <1>8, <2>2, <2>3, QuietStory
<1>9. CASE l.pc = "hook" /\ m.pc = "hook_changed"
  <2>1. Hooked(e)
    BY <1>3, <1>4, <1>9, HookedRows
  <2>2. Before(l, d) = 10 /\ Before(m, e) = 10
    BY <1>9, ProgressAt DEF Before, ProgressTable
  <2> QED BY <1>2, <1>3, <1>4, <1>9, <2>1, <2>2, QuietStory
<1>10. CASE \/ l.pc = "propose" /\ m.pc = "create_graph"
            \/ l.pc = "hook" /\ m.pc = "load_task"
            \/ l.pc = "load_task" /\ m.pc = "load_unit"
            \/ l.pc = "load_unit" /\ m.pc = "save_gate"
            \/ l.pc = "save_gate" /\ m.pc = "gate_recorded"
            \/ l.pc = "authorize" /\ m.pc = "insert_tool"
  <2>1. Hooked(e) <=> Hooked(d)
    BY <1>6, <1>10
  <2>2. Before(m, e) = Before(l, d)
    BY <1>5, <1>10, <2>1, ProgressAt DEF Before, ProgressTable
  <2>3. Hooked(e) => m.pc \in {"load_unit"} \cup GatePoint
    BY <1>5, <1>10, <2>1 DEF GatePoint
  <2> QED BY <1>2, <1>3, <1>4, <1>10, <2>1, <2>2, <2>3, QuietStory
<1> QED BY <1>1, <1>7, <1>8, <1>9, <1>10 DEF GraphMove

LEMMA ToolStory ==
  ASSUME NEW l, NEW d, NEW m, NEW e, Good(l, d), Good(m, e), Storied(l, d),
         ToolMove(l, d, m, e), e.run = "RUNNING", m.pc \in WritingPoint
  PROVE  Unfinished(m, e)
<1>1. m.pc \notin RaisedTo /\ d \in Aggregate
  BY DEF WritingPoint, ServicePoint, PlainPoint, ExecutorPoint, RaisedTo, Good, Kept
<1>2. /\ l.pc \in ExecutorPoint \cup {"insert_tool"}
      /\ m.pc \in ExecutorPoint \cup {"tool_created"}
      /\ \/ e \in {d, ToolCallInserted(d, InitialRow.version), ToolCallStarted(d),
                   ObservationSaved(d)}
         \/ \E status : e = ToolCallFinalized(d, status)
  BY <1>1 DEF ToolMove, May, ExecutorPoint
<1>3. e.run = d.run /\ e.task = d.task /\ e.trace = d.trace
  <2>1. e.trace = d.trace
    BY <1>1, <1>2, SameTrace
  <2> QED BY <1>1, <1>2, <2>1
          DEF ToolCallInserted, ToolCallStarted, ToolCallFinalized, ObservationSaved, Aggregate
<1>4. /\ l.pc \in WritingPoint \ AnswerPoint /\ m.pc \notin AnswerPoint
      /\ m.pc # "hook_changed"
      /\ l.pc \notin {"hook_changed", "load_task", "load_unit"} \cup GatePoint
  BY <1>2 DEF WritingPoint, ServicePoint, ExecutorPoint, AnswerPoint, GatePoint
<1>5. Unfinished(l, d)
  BY <1>3, <1>4 DEF Storied
<1>6. ~Hooked(d) /\ ~Hooked(e)
  BY <1>3, <1>4, <1>5 DEF Unfinished, Hooked
<1>7. Progress(l.pc) = 13 /\ Progress(m.pc) = 13
  BY <1>2, ProgressAt DEF ProgressTable, ExecutorPoint
<1>8. Before(l, d) = 11 /\ Before(m, e) = 11
  BY <1>6, <1>7 DEF Before
<1> QED BY <1>3, <1>4, <1>5, <1>6, <1>8, QuietStory

LEMMA RenderStory ==
  ASSUME NEW l, NEW d, NEW m, NEW e, Good(l, d), Good(m, e), Storied(l, d),
         AnswerMove(l, d, m, e), e.run = "RUNNING", m.pc \in WritingPoint
  PROVE  Unfinished(m, e)
<1>1. m.pc \notin RaisedTo \cup {"returned"} /\ l.pc \in {"plan", "render"} /\ e = d
  BY DEF AnswerMove, WritingPoint, ServicePoint, PlainPoint, ExecutorPoint, RaisedTo
<1>2. /\ l.pc \in WritingPoint /\ l.pc \notin AnswerPoint /\ Unfinished(l, d)
  BY <1>1 DEF Storied, WritingPoint, ServicePoint, AnswerPoint
<1>3. ~Hooked(d)
  BY <1>1, <1>2 DEF Unfinished, AnswerPoint, GatePoint
<1>4. d.task # NoRow
  BY <1>1 DEF Good, Stage, GraphPoint, LoadedPoint, ObservedPoint, Kept, Consistent,
              GraphConsistent
<1>5. CASE m.pc = "response_rendered"
  <2>1. /\ l.pc = "plan" => m.stop = "PROVIDER_PROTOCOL_ERROR"
        /\ l.pc = "render" => m.stop \in RenderedReason
    BY <1>1, <1>5 DEF AnswerMove
  <2>2. BeforeAnswer(d, m.stop) = Before(l, d)
    BY <1>1, <1>3, <1>4, <2>1, ProgressAt
       DEF Before, BeforeAnswer, ProgressTable, RenderedReason
  <2> QED BY <1>1, <1>2, <1>3, <1>5, <2>2, AnswerStory
<1>6. CASE l.pc = "plan" /\ m.pc = "plan_proposed"
  <2>1. Before(m, e) = Before(l, d) /\ m.pc \notin AnswerPoint
    BY <1>1, <1>3, <1>6, ProgressAt DEF Before, ProgressTable, AnswerPoint
  <2> QED BY <1>1, <1>2, <1>3, <1>6, <2>1, QuietStory
<1> QED BY <1>1, <1>5, <1>6 DEF AnswerMove

\* The handler answers.
LEMMA FinishStory ==
  ASSUME NEW l, NEW d, NEW e, Good(l, d), Storied(l, d), l.pc = "finalize",
         RunFinalizable(d, LinksOf(l.cursor), l.task, l.unit),
         e = RunCompleted(d, l.stop, l.task, l.unit)
  PROVE  Finished(e)
<1> DEFINE n == BeforeAnswer(d, l.stop)
           s == d.trace
           t == e.trace
<1>1. Kept(d) /\ d \in Aggregate /\ d.run = "RUNNING" /\ d.link = LinksOf(l.cursor)
  BY DEF Good, Kept, RunFinalizable
<1>2. /\ Opens(d, n) /\ Len(s) = n + 1 /\ s[n + 1] = "ResponseRendered"
      /\ n \in 0..18 /\ s \in Seq(TraceEventType)
  BY <1>1, BeforeRange DEF Storied, Unfinished, WritingPoint, ServicePoint, Aggregate
<1>3. /\ e.run = "COMPLETED" /\ e.stop = l.stop /\ e.tool = d.tool
      /\ IF d.task = NoRow THEN l.cursor = NoRow /\ e.task = NoRow
         ELSE l.cursor # NoRow /\ d.task \in {InitialRow, WaitingRow}
                /\ e.task = Moved(d.task, TargetStatus(l.stop))
  BY <1>1, CompletedColumns
<1>4. (d.link = "OPEN") <=> d.task # NoRow
  BY <1>1, <1>3 DEF LinksOf
<1>5. t = IF d.task = NoRow THEN Append(s, "RunStopped")
          ELSE Append(Append(s, "TaskStateChanged"), "RunStopped")
  BY <1>1, <1>4 DEF RunCompleted, LinkClosed, TaskTransitioned, Aggregate
<1>6. e.task = NoRow <=> d.task = NoRow
  BY <1>3, RowValues
<1>7. Hooked(e) <=> Hooked(d)
  <2>1. Hooked(d) <=> d.task = WaitingRow
    BY <1>1, <1>3, HookedRows, RowValues
  <2>2. Hooked(e) <=> d.task = WaitingRow
    BY <1>3, RowValues DEF Hooked
  <2> QED BY <2>1, <2>2
<1>8. BeforeAnswer(e, e.stop) = n
  BY <1>3, <1>6, <1>7 DEF BeforeAnswer
<1>9. /\ l.stop = "NOT_FOUND_OR_NOT_ACCESSIBLE" => d.tool = "FAILED"
      /\ Hooked(e) => e.stop = "GATE_REJECTED"
  <2>1. l.stop = "NOT_FOUND_OR_NOT_ACCESSIBLE" => d.tool = "FAILED"
    BY DEF Good, Stage, AnswerPoint, Deserved
  <2>2. Hooked(d) => l.stop = "GATE_REJECTED"
    BY <1>1 DEF Storied, Unfinished, WritingPoint, ServicePoint, AnswerPoint
  <2> QED BY <1>3, <1>7, <2>1, <2>2
<1> HIDE DEF n, s, t
<1>10. /\ \A i \in 1..(n + 1) : t[i] = s[i]
       /\ IF d.task = NoRow THEN Len(t) = n + 2
          ELSE Len(t) = n + 3 /\ t[n + 2] = "TaskStateChanged"
       /\ t[Len(t)] = "RunStopped"
  <2>1. "RunStopped" \in TraceEventType /\ "TaskStateChanged" \in TraceEventType
    BY DEF TraceEventType
  <2>2. CASE d.task = NoRow
    BY <1>2, <1>5, <2>1, <2>2
  <2>3. CASE d.task # NoRow
    <3> DEFINE u == Append(s, "TaskStateChanged")
    <3>1. /\ u \in Seq(TraceEventType) /\ Len(u) = n + 2 /\ u[n + 2] = "TaskStateChanged"
          /\ \A i \in 1..(n + 1) : u[i] = s[i]
      BY <1>2, <2>1
    <3>2. t = Append(u, "RunStopped")
      BY <1>5, <2>3
    <3> HIDE DEF u
    <3>3. /\ Len(t) = n + 3 /\ t[n + 3] = "RunStopped" /\ \A i \in 1..(n + 2) : t[i] = u[i]
      BY <1>2, <2>1, <3>1, <3>2
    <3> QED BY <1>2, <2>3, <3>1, <3>3
  <2> QED BY <2>2, <2>3
<1>11. Opens(e, n)
  <2>1. \A i \in 1..n : s[i] = EventAt(i, Hooked(d), d.tool)
    BY <1>2 DEF Opens, s
  <2>2. n <= Len(t)
    BY <1>2, <1>10
  <2>3. \A i \in 1..n : t[i] = EventAt(i, Hooked(e), e.tool)
    <3>1. Hooked(e) = Hooked(d)
      BY <1>7 DEF Hooked
    <3>2. \A i \in 1..n : t[i] = s[i]
      BY <1>2, <1>10
    <3> QED BY <1>3, <2>1, <3>1, <3>2
  <2> QED BY <2>2, <2>3 DEF Opens, t
<1> DEFINE k == BeforeAnswer(e, e.stop)
<1>12. (Hooked(e) => e.stop = "GATE_REJECTED") /\ t[k + 1] = "ResponseRendered" /\ Opens(e, k)
  BY <1>2, <1>8, <1>9, <1>10, <1>11
<1>13. /\ IF e.task = NoRow THEN Len(t) = k + 2
          ELSE Len(t) = k + 3 /\ t[k + 2] = "TaskStateChanged"
       /\ t[Len(t)] = "RunStopped"
       /\ e.stop = "NOT_FOUND_OR_NOT_ACCESSIBLE" => e.tool = "FAILED"
  BY <1>3, <1>6, <1>8, <1>9, <1>10
<1> HIDE DEF k
<1> QED BY <1>12, <1>13 DEF Finished, k, t

\* Nobody else completes a Run, and nothing is added to a completed one.
LEMMA CompletedMove ==
  ASSUME NEW l, NEW d, NEW m, NEW e, Good(l, d), Moves(l, d, m, e), e.run = "COMPLETED"
  PROVE  \/ e = d
         \/ /\ l.pc = "finalize" /\ RunFinalizable(d, LinksOf(l.cursor), l.task, l.unit)
            /\ e = RunCompleted(d, l.stop, l.task, l.unit)
<1>1. d \in Aggregate
  BY DEF Good, Kept
<1>2. l.pc \in WritingPoint => d.run # "COMPLETED"
  BY DEF Good, Stage, WritingPoint
<1>3. CASE EntryMove(l, d, m, e)
  BY <1>1, <1>3 DEF EntryMove, May, RunStartable, RunInserted, RunStarted, Aggregate
<1>4. CASE PlainMove(l, d, m, e)
  <2>1. e.run = d.run /\ l.pc \in WritingPoint
    BY <1>1, <1>4 DEF PlainMove, Written, Aggregate, WritingPoint, ServicePoint
  <2> QED BY <1>2, <2>1
<1>5. CASE GraphMove(l, d, m, e)
  <2>1. l.pc \in WritingPoint
    BY <1>5 DEF GraphMove, WritingPoint, ServicePoint, PlainPoint
  <2>2. e \in {d, GraphCreated(d), TaskTransitioned(d, InitialRow, InitialRow, "WAITING_USER"),
               Written(d, "GATE_DECISION")}
    BY <1>5 DEF GraphMove, May
  <2>3. e.run = d.run
    BY <1>1, <2>2 DEF GraphCreated, TaskTransitioned, Written, Aggregate
  <2> QED BY <1>2, <2>1, <2>3
<1>6. CASE ToolMove(l, d, m, e)
  <2>1. l.pc \in WritingPoint
    BY <1>6 DEF ToolMove, WritingPoint, ServicePoint, ExecutorPoint
  <2>2. e \in {d, ToolCallInserted(d, InitialRow.version), ToolCallStarted(d),
               ToolCallFinalized(d, TerminalStatus(l.outcome)), ObservationSaved(d),
               ToolCallFinalized(d, "INTERRUPTED"), Written(d, "ToolCallInterrupted")}
    BY <1>6 DEF ToolMove, May
  <2>3. e.run = d.run
    BY <1>1, <2>2 DEF ToolCallInserted, ToolCallStarted, ToolCallFinalized, ObservationSaved,
                      Written, Aggregate
  <2> QED BY <1>2, <2>1, <2>3
<1>7. CASE AnswerMove(l, d, m, e)
  <2>1. RunFailed(d, l.cursor).run = "FAILED"
    BY <1>1 DEF RunFailed, LinkClosed, Aggregate
  <2> QED BY <1>7, <2>1 DEF AnswerMove, May
<1> QED BY <1>3, <1>4, <1>5, <1>6, <1>7 DEF Moves

LEMMA StoriedStep ==
  ASSUME NEW l, NEW d, NEW m, NEW e, Good(l, d), Good(m, e), Paced(l, d), Storied(l, d),
         Moves(l, d, m, e) \/ Outside(l, d, m, e)
  PROVE  Storied(m, e)
<1>1. CASE Moves(l, d, m, e)
  <2>1. ASSUME e.run = "RUNNING", m.pc \in WritingPoint
        PROVE  Unfinished(m, e)
    BY <1>1, <2>1, EntryStory, PlainStory, GraphStory, ToolStory, RenderStory DEF Moves
  <2>2. ASSUME e.run = "COMPLETED"
        PROVE  Finished(e)
    BY <1>1, <2>2, CompletedMove, FinishStory DEF Storied
  <2> QED BY <2>1, <2>2 DEF Storied
<1>2. CASE Outside(l, d, m, e)
  <2>1. CASE e = d
    BY <1>2, <2>1 DEF Outside, Storied, WritingPoint, ServicePoint, PlainPoint, ExecutorPoint
  <2>2. CASE e = Recovered(d)
    <3>1. e.run = "INCOMPLETE"
      BY <2>2 DEF Recovered, LinkClosed, Good, Kept, Aggregate
    <3> QED BY <3>1 DEF Storied
  <2> QED BY <1>2, <2>1, <2>2 DEF Outside
<1> QED BY <1>1, <1>2

\* The story each handler has told so far, and each answered Run tells.
THEOREM StoryInvariant == Spec => []StoryInv
<1>1. Init => StoryInv
  BY DEF Init, StoryInv, Storied, NoRecords
<1>2. IndInv /\ EvidenceInv /\ StoryInv /\ [Next]_vars => StoryInv'
  <2> SUFFICES ASSUME IndInv, EvidenceInv, StoryInv, [Next]_vars, NEW r \in Runs
               PROVE  Storied(h'[r], db'[r])
    BY DEF StoryInv
  <2>1. Good(h[r], db[r]) /\ Good(h'[r], db'[r]) /\ Paced(h[r], db[r]) /\ Storied(h[r], db[r])
    BY IndInvGood, GoodStep DEF EvidenceInv, StoryInv
  <2>2. Moves(h[r], db[r], h'[r], db'[r]) \/ Outside(h[r], db[r], h'[r], db'[r])
    BY StepMoves
  <2> QED BY <2>1, <2>2, StoriedStep
<1> QED BY <1>1, <1>2, AgentRunInvariant, EvidenceInvariant, PTL DEF Spec

-------------------------------------------------------------------------------
(* The listed Trace of an answered Run, place by place: n events before the *)
(* answer and k changes of the Task.                                        *)

Shaped(n, k) ==
  \/ n = 4 /\ k = 0
  \/ n \in {11, 15, 17, 18} /\ k = 2
  \/ n = 12 /\ k = 3
Size(n, k) == IF k = 0 THEN n + 3 ELSE n + 4

TypeAt(i, n, k, tool) ==
  IF i <= n THEN EventAt(i, k = 3, tool)
  ELSE IF i = n + 1 THEN "ResponseRendered"
  ELSE IF k # 0 /\ i = n + 2 THEN "TaskStateChanged"
  ELSE IF i = Size(n, k) - 1 THEN "RunStopped"
  ELSE "EvalCaseGraded"

\* Which of its type stands at a place.
NodeAt(i, n, k, tool) ==
  LET type == TypeAt(i, n, k, tool)
  IN IF type = "ContextManifestRecorded"
     THEN Manifest(IF i = 4 THEN "REQUEST_UNDERSTANDING" ELSE "PRESENTATION")
     ELSE IF type = "TaskStateChanged"
     THEN Changed(IF i = 9 THEN 1 ELSE IF i = n + 2 THEN k ELSE 2)
     ELSE First(type)

\* The one place of the other types.
Rank(type, n, k) ==
  CASE type = "MessageAccepted" -> 1
    [] type = "RunStarted" -> 2
    [] type = "RequestUnderstandingStarted" -> 3
    [] type = "NextMoveProposed" -> 5
    [] type = "TaskDeltaValidated" -> 6
    [] type = "TaskDeltaAccepted" -> 7
    [] type = "InputBindingRecorded" -> 8
    [] type = "NextMoveRevalidated" -> 10
    [] type = "GateDecisionRecorded" -> IF k = 3 THEN 12 ELSE 11
    [] type = "ToolCallCreated" -> 12
    [] type = "ToolCallStarted" -> 13
    [] type \in {"ToolCallSucceeded", "ToolCallFailed", "ToolCallTimedOut"} -> 14
    [] type = "ToolResultNormalized" -> 15
    [] type = "ObservationRecorded" -> 16
    [] type = "PresentationPlanProposed" -> 18
    [] type = "ResponseRendered" -> n + 1
    [] type = "RunStopped" -> Size(n, k) - 1
    [] OTHER -> Size(n, k)

RankTable(n, k) ==
  /\ Rank("MessageAccepted", n, k) = 1
  /\ Rank("RunStarted", n, k) = 2
  /\ Rank("RequestUnderstandingStarted", n, k) = 3
  /\ Rank("NextMoveProposed", n, k) = 5
  /\ Rank("TaskDeltaValidated", n, k) = 6
  /\ Rank("TaskDeltaAccepted", n, k) = 7
  /\ Rank("InputBindingRecorded", n, k) = 8
  /\ Rank("NextMoveRevalidated", n, k) = 10
  /\ Rank("GateDecisionRecorded", n, k) = IF k = 3 THEN 12 ELSE 11
  /\ Rank("ToolCallCreated", n, k) = 12
  /\ Rank("ToolCallStarted", n, k) = 13
  /\ Rank("ToolCallSucceeded", n, k) = 14
  /\ Rank("ToolCallFailed", n, k) = 14
  /\ Rank("ToolCallTimedOut", n, k) = 14
  /\ Rank("ToolResultNormalized", n, k) = 15
  /\ Rank("ObservationRecorded", n, k) = 16
  /\ Rank("PresentationPlanProposed", n, k) = 18
  /\ Rank("ResponseRendered", n, k) = n + 1
  /\ Rank("RunStopped", n, k) = Size(n, k) - 1
  /\ Rank("EvalCaseGraded", n, k) = Size(n, k)

LEMMA RankEach ==
  ASSUME NEW n, NEW k
  PROVE  RankTable(n, k)
<1>1. /\ Rank("MessageAccepted", n, k) = 1
      /\ Rank("RunStarted", n, k) = 2
      /\ Rank("RequestUnderstandingStarted", n, k) = 3
      /\ Rank("NextMoveProposed", n, k) = 5
      /\ Rank("TaskDeltaValidated", n, k) = 6
      /\ Rank("TaskDeltaAccepted", n, k) = 7
      /\ Rank("InputBindingRecorded", n, k) = 8
      /\ Rank("NextMoveRevalidated", n, k) = 10
      /\ Rank("GateDecisionRecorded", n, k) = IF k = 3 THEN 12 ELSE 11
      /\ Rank("ToolCallCreated", n, k) = 12
  BY DEF Rank
<1>2. /\ Rank("ToolCallStarted", n, k) = 13
      /\ Rank("ToolCallSucceeded", n, k) = 14
      /\ Rank("ToolCallFailed", n, k) = 14
      /\ Rank("ToolCallTimedOut", n, k) = 14
      /\ Rank("ToolResultNormalized", n, k) = 15
      /\ Rank("ObservationRecorded", n, k) = 16
      /\ Rank("PresentationPlanProposed", n, k) = 18
  BY DEF Rank
<1>3. /\ Rank("ResponseRendered", n, k) = n + 1
      /\ Rank("RunStopped", n, k) = Size(n, k) - 1
      /\ Rank("EvalCaseGraded", n, k) = Size(n, k)
  BY DEF Rank
<1> QED BY <1>1, <1>2, <1>3 DEF RankTable

\* Where the types stand.
TypePlaced(i, n, k, tool) ==
  LET type == TypeAt(i, n, k, tool)
  IN /\ (type = "TaskStateChanged") <=> (k # 0 /\ (i \in {9, n + 2} \/ (k = 3 /\ i = 11)))
     /\ (type = "ContextManifestRecorded") <=> (i = 4 \/ (i = 17 /\ n >= 17))
     /\ type \notin {"TaskStateChanged", "ContextManifestRecorded"} => Rank(type, n, k) = i

LEMMA PlaceOfType ==
  ASSUME NEW n, NEW k, Shaped(n, k), NEW tool, NEW i \in 1..Size(n, k)
  PROVE  TypePlaced(i, n, k, tool)
<1> DEFINE hooked == k = 3
           type == TypeAt(i, n, k, tool)
<1>1. type = IF i <= n THEN EventAt(i, hooked, tool)
             ELSE IF i = n + 1 THEN "ResponseRendered"
             ELSE IF k # 0 /\ i = n + 2 THEN "TaskStateChanged"
             ELSE IF i = Size(n, k) - 1 THEN "RunStopped"
             ELSE "EvalCaseGraded"
  BY DEF TypeAt
<1>2. TypePlaced(i, n, k, tool) <=>
        /\ (type = "TaskStateChanged") <=> (k # 0 /\ (i \in {9, n + 2} \/ (k = 3 /\ i = 11)))
        /\ (type = "ContextManifestRecorded") <=> (i = 4 \/ (i = 17 /\ n >= 17))
        /\ type \notin {"TaskStateChanged", "ContextManifestRecorded"} => Rank(type, n, k) = i
  BY DEF TypePlaced
<1>3. hooked <=> k = 3
  OBVIOUS
<1> HIDE DEF hooked, type
<1>4. EventTable(hooked, tool) /\ RankTable(n, k)
  BY EventAtEach, RankEach
<1>5. EndEvent(tool) \in {"ToolCallSucceeded", "ToolCallFailed", "ToolCallTimedOut"}
  BY DEF EndEvent
<1>6. CASE i > n
  BY <1>1, <1>2, <1>4, <1>6 DEF Shaped, Size, RankTable
<1>7. CASE i <= n /\ i <= 8
  <2>1. i \in {1, 2, 3, 4, 5, 6, 7, 8}
    BY <1>7
  <2> QED BY <1>1, <1>2, <1>4, <1>7, <2>1 DEF Shaped, RankTable, EventTable
<1>8. CASE i <= n /\ i > 8 /\ i <= 13
  <2>1. i \in {9, 10, 11, 12, 13}
    BY <1>8
  <2> QED BY <1>1, <1>2, <1>3, <1>4, <1>8, <2>1 DEF Shaped, RankTable, EventTable
<1>9. CASE i <= n /\ i > 13
  <2>1. i \in {14, 15, 16, 17, 18}
    BY <1>9 DEF Shaped
  <2> QED BY <1>1, <1>2, <1>3, <1>4, <1>5, <1>9, <2>1 DEF Shaped, RankTable, EventTable
<1> QED BY <1>6, <1>7, <1>8, <1>9 DEF Shaped, Size

LEMMA TwoAndThree ==
  /\ \A x, y : x # y => IsFiniteSet({x, y}) /\ Cardinality({x, y}) = 2
  /\ \A x, y, z : x # y /\ x # z /\ y # z =>
       IsFiniteSet({x, y, z}) /\ Cardinality({x, y, z}) = 3
<1>1. ASSUME NEW x, NEW y, x # y PROVE IsFiniteSet({x, y}) /\ Cardinality({x, y}) = 2
  <2>1. /\ IsFiniteSet({x} \cup {y})
        /\ Cardinality({x} \cup {y})
             = IF y \in {x} THEN Cardinality({x}) ELSE Cardinality({x}) + 1
    BY SmallSets, FS_AddElement
  <2>2. {x, y} = {x} \cup {y}
    OBVIOUS
  <2>3. Cardinality({x} \cup {y}) = 2
    <3>1. Cardinality({x}) = 1 /\ y \notin {x}
      BY <1>1, SmallSets, Zenon
    <3> QED BY <2>1, <3>1
  <2> QED BY <2>1, <2>2, <2>3, Zenon
<1>2. ASSUME NEW x, NEW y, NEW z, x # y, x # z, y # z
      PROVE  IsFiniteSet({x, y, z}) /\ Cardinality({x, y, z}) = 3
  <2>1. /\ IsFiniteSet({x, y} \cup {z})
        /\ Cardinality({x, y} \cup {z})
             = IF z \in {x, y} THEN Cardinality({x, y}) ELSE Cardinality({x, y}) + 1
    BY <1>1, <1>2, FS_AddElement
  <2>2. {x, y, z} = {x, y} \cup {z}
    OBVIOUS
  <2>3. Cardinality({x, y} \cup {z}) = 3
    <3>1. Cardinality({x, y}) = 2
      BY <1>1, <1>2
    <3>2. z \notin {x, y}
      BY <1>2
    <3> HIDE <1>1
    <3> QED BY <2>1, <3>1, <3>2
  <2> QED BY <2>1, <2>2, <2>3, Zenon
<1> QED BY <1>1, <1>2

\* The events a listed Trace of that shape has.
HasShape(E, n, k, tool) ==
  /\ Shaped(n, k) /\ DOMAIN E = 1..Size(n, k)
  /\ \A i \in 1..Size(n, k) :
       /\ E[i].type = TypeAt(i, n, k, tool)
       /\ E[i].purpose = IF E[i].type # "ContextManifestRecorded" THEN "NONE"
                         ELSE IF i = 4 THEN "REQUEST_UNDERSTANDING" ELSE "PRESENTATION"

\* Where the events of each type stand.
TypePlaces(E, type) == {i \in DOMAIN E : E[i].type = type}

LEMMA PlacesOfTypes ==
  ASSUME NEW E, NEW n, NEW k, NEW tool, HasShape(E, n, k, tool)
  PROVE  /\ TypePlaces(E, "TaskStateChanged")
              = IF k = 0 THEN {} ELSE IF k = 2 THEN {9, n + 2} ELSE {9, 11, 14}
         /\ TypePlaces(E, "ContextManifestRecorded") = IF n >= 17 THEN {4, 17} ELSE {4}
         /\ \A i \in DOMAIN E : E[i].type \notin {"TaskStateChanged", "ContextManifestRecorded"} =>
              TypePlaces(E, E[i].type) = {i}
<1>1. /\ Shaped(n, k) /\ DOMAIN E = 1..Size(n, k)
      /\ \A i \in 1..Size(n, k) : E[i].type = TypeAt(i, n, k, tool)
  BY DEF HasShape
<1>2. \A i \in 1..Size(n, k) :
        /\ (E[i].type = "TaskStateChanged")
             <=> (k # 0 /\ (i \in {9, n + 2} \/ (k = 3 /\ i = 11)))
        /\ (E[i].type = "ContextManifestRecorded") <=> (i = 4 \/ (i = 17 /\ n >= 17))
        /\ E[i].type \notin {"TaskStateChanged", "ContextManifestRecorded"} =>
             Rank(E[i].type, n, k) = i
  BY <1>1, PlaceOfType DEF TypePlaced
<1>3. TypePlaces(E, "TaskStateChanged")
        = IF k = 0 THEN {} ELSE IF k = 2 THEN {9, n + 2} ELSE {9, 11, 14}
  BY <1>1, <1>2 DEF TypePlaces, Shaped, Size
<1>4. TypePlaces(E, "ContextManifestRecorded") = IF n >= 17 THEN {4, 17} ELSE {4}
  BY <1>1, <1>2 DEF TypePlaces, Shaped, Size
<1>5. \A i \in DOMAIN E : E[i].type \notin {"TaskStateChanged", "ContextManifestRecorded"} =>
        TypePlaces(E, E[i].type) = {i}
  BY <1>1, <1>2 DEF TypePlaces
<1> QED BY <1>3, <1>4, <1>5

\* The node of each place is found there.
LEMMA FoundAt ==
  ASSUME NEW E, NEW n, NEW k, NEW tool, HasShape(E, n, k, tool), NEW i \in 1..Size(n, k)
  PROVE  i \in IndexOf(E, NodeAt(i, n, k, tool))
<1> DEFINE type == TypeAt(i, n, k, tool)
           node == NodeAt(i, n, k, tool)
           at == Positions(E, node)
<1>1. Shaped(n, k) /\ DOMAIN E = 1..Size(n, k) /\ E[i].type = type
  BY DEF HasShape
<1>2. TypePlaced(i, n, k, tool)
  BY <1>1, PlaceOfType
<1>3. i \in at /\ Cardinality({j \in at : j <= i}) = node.occurrence
  <2>1. CASE type = "TaskStateChanged"
    <3>1. node = Changed(IF i = 9 THEN 1 ELSE IF i = n + 2 THEN k ELSE 2)
      BY <2>1 DEF NodeAt
    <3>2. at = TypePlaces(E, "TaskStateChanged")
      BY <3>1 DEF Positions, TypePlaces, Changed, Node
    <3>3. at = IF k = 2 THEN {9, n + 2} ELSE {9, 11, 14}
      BY <1>2, <2>1, <3>2, PlacesOfTypes DEF TypePlaced
    <3>4. k # 0 /\ (i \in {9, n + 2} \/ (k = 3 /\ i = 11))
      BY <1>2, <2>1 DEF TypePlaced
    <3>5. node.occurrence = IF i = 9 THEN 1 ELSE IF i = n + 2 THEN k ELSE 2
      BY <3>1 DEF Changed, Node
    <3> HIDE DEF type, node, at
    <3>6. CASE i = 9
      <4>1. {j \in at : j <= i} = {9}
        BY <1>1, <3>3, <3>6, <3>4 DEF Shaped
      <4> QED BY <1>1, <3>3, <3>5, <3>6, <4>1, SmallSets
    <3>7. CASE i = 11 /\ k = 3
      <4>1. {j \in at : j <= i} = {9, 11}
        BY <3>3, <3>7
      <4>2. Cardinality({9, 11}) = 2
        <5>1. 9 # 11
          OBVIOUS
        <5> QED BY <5>1, TwoAndThree, Zenon
      <4>3. i \in at /\ node.occurrence = 2
        BY <1>1, <3>3, <3>5, <3>7 DEF Shaped
      <4> QED BY <4>1, <4>2, <4>3, Zenon
    <3>8. CASE i = n + 2 /\ k = 3
      <4>1. {j \in at : j <= i} = {9, 11, 14} /\ n = 12
        BY <1>1, <3>3, <3>8 DEF Shaped
      <4>2. Cardinality({9, 11, 14}) = 3
        <5> DEFINE a == 9
                   b == 11
                   c == 14
        <5>1. a # b /\ a # c /\ b # c
          OBVIOUS
        <5> HIDE DEF a, b, c
        <5>2. Cardinality({a, b, c}) = 3
          BY <5>1, TwoAndThree
        <5> QED BY <5>2 DEF a, b, c
      <4>3. i \in at /\ node.occurrence = 3
        BY <3>3, <3>5, <3>8, <4>1
      <4> QED BY <4>1, <4>2, <4>3, Zenon
    <3>9. CASE i = n + 2 /\ k = 2
      <4>1. {j \in at : j <= i} = {9, n + 2} /\ n + 2 # 9
        BY <1>1, <3>3, <3>9 DEF Shaped
      <4>2. Cardinality({9, n + 2}) = 2
        BY <4>1, TwoAndThree, Zenon
      <4>3. i \in at /\ node.occurrence = 2
        BY <3>3, <3>5, <3>9, <4>1
      <4> QED BY <4>1, <4>2, <4>3, Zenon
    <3> QED BY <1>1, <3>4, <3>6, <3>7, <3>8, <3>9 DEF Shaped
  <2>2. CASE type = "ContextManifestRecorded"
    <3>1. node = Manifest(IF i = 4 THEN "REQUEST_UNDERSTANDING" ELSE "PRESENTATION")
      BY <2>2 DEF NodeAt
    <3>2. at = {j \in TypePlaces(E, "ContextManifestRecorded") : E[j].purpose = node.purpose}
      BY <3>1 DEF Positions, TypePlaces, Manifest
    <3>3. i = 4 \/ (i = 17 /\ n >= 17)
      BY <1>2, <2>2 DEF TypePlaced
    <3>4. \A j \in TypePlaces(E, "ContextManifestRecorded") :
            /\ j \in {4, 17}
            /\ E[j].purpose = IF j = 4 THEN "REQUEST_UNDERSTANDING" ELSE "PRESENTATION"
      <4>1. TypePlaces(E, "ContextManifestRecorded") \subseteq {4, 17}
        BY PlacesOfTypes
      <4>2. TypePlaces(E, "ContextManifestRecorded") \subseteq DOMAIN E
        BY DEF TypePlaces
      <4> QED BY <1>1, <4>1, <4>2 DEF HasShape, TypePlaces
    <3>5. i \in TypePlaces(E, "ContextManifestRecorded")
      BY <1>1, <2>2 DEF TypePlaces
    <3>6. node.purpose = (IF i = 4 THEN "REQUEST_UNDERSTANDING" ELSE "PRESENTATION")
          /\ node.occurrence = 1
      BY <3>1 DEF Manifest
    <3>7. at = {i}
      BY <3>2, <3>3, <3>4, <3>5, <3>6
    <3> HIDE DEF type, node, at
    <3>8. {j \in at : j <= i} = {i}
      BY <3>7, <3>3
    <3> QED BY <3>6, <3>7, <3>8, SmallSets
  <2>3. CASE type \notin {"TaskStateChanged", "ContextManifestRecorded"}
    <3>1. node = First(type)
      BY <2>3 DEF NodeAt
    <3>2. at = TypePlaces(E, E[i].type) /\ node.occurrence = 1
      BY <1>1, <3>1 DEF Positions, TypePlaces, First, Node
    <3>3. at = {i}
      BY <1>1, <2>3, <3>2, PlacesOfTypes
    <3> HIDE DEF type, node, at
    <3>4. {j \in at : j <= i} = {i}
      BY <3>3
    <3> QED BY <3>2, <3>3, <3>4, SmallSets
  <2> QED BY <2>1, <2>2, <2>3
<1> QED BY <1>3 DEF IndexOf

\* The counts the grader expects are those of the shape.
NodesOf(n, k, tool) == {NodeAt(i, n, k, tool) : i \in 1..Size(n, k)}

LEMMA NodeFields ==
  ASSUME NEW n, NEW k, NEW tool, NEW i
  PROVE  LET type == TypeAt(i, n, k, tool)
             node == NodeAt(i, n, k, tool)
         IN /\ node.type = type
            /\ node.purpose = IF type # "ContextManifestRecorded" THEN "ANY"
                              ELSE IF i = 4 THEN "REQUEST_UNDERSTANDING" ELSE "PRESENTATION"
            /\ node.occurrence = IF type # "TaskStateChanged" THEN 1
                                 ELSE IF i = 9 THEN 1 ELSE IF i = n + 2 THEN k ELSE 2
  BY DEF NodeAt, Manifest, Changed, First, Node

LEMMA HighestIs ==
  ASSUME NEW nodes, NEW purpose, NEW top \in Nat,
         \A m \in nodes : m.purpose = purpose => m.occurrence \in 0..top,
         top = 0 \/ \E m \in nodes : m.purpose = purpose /\ m.occurrence = top
  PROVE  Highest(nodes, purpose) = top
<1> DEFINE S == {0} \cup {m.occurrence : m \in {m \in nodes : m.purpose = purpose}}
<1>1. top \in S /\ \A y \in S : y \in 0..top
  OBVIOUS
<1>2. Highest(nodes, purpose) = Max(S)
  BY DEF Highest
<1> HIDE DEF S
<1>3. \A y \in S : top >= y
  BY <1>1
<1>4. Max(S) \in S /\ \A y \in S : Max(S) >= y
  BY <1>1, <1>3 DEF Max
<1> DEFINE x == Max(S)
<1>5. x \in S /\ \A y \in S : x >= y
  BY <1>4
<1> HIDE DEF x
<1>6. x \in 0..top /\ x >= top
  BY <1>1, <1>5
<1> QED BY <1>2, <1>6 DEF x

LEMMA CountedTypes ==
  ASSUME NEW E, NEW n, NEW k, NEW tool, HasShape(E, n, k, tool), NEW v \in Variant,
         Nodes(v) = NodesOf(n, k, tool), NEW type \in SafetyCritical
  PROVE  /\ Cardinality(TypePlaces(E, type)) = ExpectedCount[v][type]
         /\ type = "TaskStateChanged" => ExpectedCount[v][type] = k
<1> DEFINE mine == {m \in Nodes(v) : m.type = type}
           any == Highest(mine, "ANY")
           understanding == Highest(mine, "REQUEST_UNDERSTANDING")
           presentation == Highest(mine, "PRESENTATION")
<1>1. ExpectedCount[v][type] = any + understanding + presentation
  BY DEF ExpectedCount
<1>2. /\ Shaped(n, k) /\ DOMAIN E = 1..Size(n, k)
      /\ \A i \in 1..Size(n, k) : E[i].type = TypeAt(i, n, k, tool)
  BY DEF HasShape
<1>3. \A m \in mine : \E i \in TypePlaces(E, type) :
        /\ m.purpose = IF type # "ContextManifestRecorded" THEN "ANY"
                       ELSE IF i = 4 THEN "REQUEST_UNDERSTANDING" ELSE "PRESENTATION"
        /\ m.occurrence = IF type # "TaskStateChanged" THEN 1
                          ELSE IF i = 9 THEN 1 ELSE IF i = n + 2 THEN k ELSE 2
  <2>1. SUFFICES ASSUME NEW i \in 1..Size(n, k), NodeAt(i, n, k, tool).type = type
                 PROVE  /\ i \in TypePlaces(E, type)
                        /\ NodeAt(i, n, k, tool).purpose
                             = IF type # "ContextManifestRecorded" THEN "ANY"
                               ELSE IF i = 4 THEN "REQUEST_UNDERSTANDING" ELSE "PRESENTATION"
                        /\ NodeAt(i, n, k, tool).occurrence
                             = IF type # "TaskStateChanged" THEN 1
                               ELSE IF i = 9 THEN 1 ELSE IF i = n + 2 THEN k ELSE 2
    BY DEF NodesOf
  <2>2. TypeAt(i, n, k, tool) = type
    BY <2>1, NodeFields
  <2> QED BY <1>2, <2>2, NodeFields DEF TypePlaces
<1>4. \A i \in TypePlaces(E, type) : \E m \in mine :
        /\ m.purpose = IF type # "ContextManifestRecorded" THEN "ANY"
                       ELSE IF i = 4 THEN "REQUEST_UNDERSTANDING" ELSE "PRESENTATION"
        /\ m.occurrence = IF type # "TaskStateChanged" THEN 1
                          ELSE IF i = 9 THEN 1 ELSE IF i = n + 2 THEN k ELSE 2
  <2>1. TAKE i \in TypePlaces(E, type)
  <2>2. i \in 1..Size(n, k) /\ TypeAt(i, n, k, tool) = type
    BY <1>2 DEF TypePlaces
  <2>3. NodeAt(i, n, k, tool) \in mine
    BY <2>2, NodeFields DEF NodesOf
  <2> WITNESS NodeAt(i, n, k, tool) \in mine
  <2> QED BY <2>2, NodeFields
<1> DEFINE places == TypePlaces(E, type)
<1> HIDE DEF mine, places
<1>5. CASE type = "TaskStateChanged"
  <2>1. places = IF k = 0 THEN {} ELSE IF k = 2 THEN {9, n + 2} ELSE {9, 11, 14}
    BY <1>5, PlacesOfTypes DEF places
  <2>2. understanding = 0
    BY <1>3, <1>5, HighestIs
  <2>3. presentation = 0
    BY <1>3, <1>5, HighestIs
  <2>4. k \in Nat /\ \A m \in mine : m.purpose = "ANY" => m.occurrence \in 0..k
    BY <1>2, <1>3, <1>5, <2>1 DEF Shaped, places
  <2>5. k = 0 \/ \E m \in mine : m.purpose = "ANY" /\ m.occurrence = k
    <3>1. SUFFICES ASSUME k # 0
                   PROVE  \E m \in mine : m.purpose = "ANY" /\ m.occurrence = k
      OBVIOUS
    <3>2. n + 2 \in places /\ n + 2 # 9
      BY <1>2, <2>1, <3>1 DEF Shaped
    <3> QED BY <1>4, <1>5, <3>2 DEF places
  <2>6. any = k
    BY <2>4, <2>5, HighestIs
  <2>7. Cardinality(places) = k
    <3>1. CASE k = 0
      BY <2>1, <3>1, SmallSets
    <3>2. CASE k = 2
      <4>1. places = {9, n + 2} /\ n + 2 # 9
        BY <1>2, <2>1, <3>2 DEF Shaped
      <4>2. Cardinality({9, n + 2}) = 2
        BY <4>1, TwoAndThree, Zenon
      <4> QED BY <3>2, <4>1, <4>2
    <3>3. CASE k = 3
      <4> DEFINE a == 9
                 b == 11
                 c == 14
      <4>1. places = {a, b, c} /\ a # b /\ a # c /\ b # c
        BY <2>1, <3>3
      <4> HIDE DEF a, b, c
      <4>2. Cardinality({a, b, c}) = 3
        BY <4>1, TwoAndThree
      <4> QED BY <3>3, <4>1, <4>2
    <3> QED BY <1>2, <3>1, <3>2, <3>3 DEF Shaped
  <2> QED BY <1>1, <2>2, <2>3, <2>4, <2>6, <2>7 DEF places
<1>6. CASE type = "ContextManifestRecorded"
  <2>1. places = IF n >= 17 THEN {4, 17} ELSE {4}
    BY <1>6, PlacesOfTypes DEF places
  <2>2. any = 0
    BY <1>3, <1>6, HighestIs
  <2>3. understanding = 1
    BY <1>3, <1>4, <1>6, <2>1, HighestIs DEF places
  <2>4. presentation = IF n >= 17 THEN 1 ELSE 0
    BY <1>3, <1>4, <1>6, <2>1, HighestIs DEF places
  <2>5. Cardinality(places) = IF n >= 17 THEN 2 ELSE 1
    <3>1. 4 # 17
      OBVIOUS
    <3>2. Cardinality({4, 17}) = 2
      BY <3>1, TwoAndThree, Zenon
    <3>3. Cardinality({4}) = 1
      BY SmallSets
    <3> QED BY <2>1, <3>2, <3>3
  <2> QED BY <1>1, <1>6, <2>2, <2>3, <2>4, <2>5 DEF places
<1>7. CASE type \notin {"TaskStateChanged", "ContextManifestRecorded"}
  <2>1. understanding = 0
    BY <1>3, <1>7, HighestIs
  <2>2. presentation = 0
    BY <1>3, <1>7, HighestIs
  <2>3. CASE places = {}
    <3>1. any = 0
      BY <1>3, <1>7, <2>3, HighestIs DEF places
    <3> QED BY <1>1, <1>7, <2>1, <2>2, <2>3, <3>1, SmallSets DEF places
  <2>4. ASSUME NEW i \in places
        PROVE  any = 1 /\ Cardinality(places) = 1
    <3>1. any = 1
      BY <1>3, <1>4, <1>7, <2>4, HighestIs DEF places
    <3>2. i \in DOMAIN E /\ E[i].type = type
      BY DEF places, TypePlaces
    <3>3. places = {i}
      BY <1>7, <3>2, PlacesOfTypes DEF places
    <3> QED BY <3>1, <3>3, SmallSets
  <2> QED BY <1>1, <1>7, <2>1, <2>2, <2>3, <2>4 DEF places
<1> QED BY <1>5, <1>6, <1>7

\* A variant whose edges lead from a place of the shape to a later one.
Ranked(v, n, k, tool) ==
  /\ Nodes(v) = NodesOf(n, k, tool)
  /\ \A e \in Edges[v] : \E i, j \in 1..Size(n, k) :
       i < j /\ e = <<NodeAt(i, n, k, tool), NodeAt(j, n, k, tool)>>

LEMMA RankedPasses ==
  ASSUME NEW E, NEW n, NEW k, NEW tool, HasShape(E, n, k, tool), NEW v \in Variant,
         Ranked(v, n, k, tool)
  PROVE  GraderPasses(E, ExpectedStop[v], v)
<1>1. CountsMatch(E, v)
  <2>1. DOMAIN ExpectedCount[v] = SafetyCritical
    BY DEF ExpectedCount
  <2>2. \A type \in SafetyCritical : Cardinality(TypePlaces(E, type)) = ExpectedCount[v][type]
    BY CountedTypes DEF Ranked
  <2> QED BY <2>1, <2>2 DEF CountsMatch, TypePlaces
<1>2. InOrder(E, v)
  <2>1. SUFFICES ASSUME NEW e \in Edges[v]
                 PROVE  \E i \in IndexOf(E, e[1]), j \in IndexOf(E, e[2]) : i < j
    BY DEF InOrder
  <2>2. PICK i \in 1..Size(n, k), j \in 1..Size(n, k) :
          i < j /\ e = <<NodeAt(i, n, k, tool), NodeAt(j, n, k, tool)>>
    BY DEF Ranked
  <2>3. e[1] = NodeAt(i, n, k, tool) /\ e[2] = NodeAt(j, n, k, tool)
    BY <2>2
  <2>4. i \in IndexOf(E, e[1]) /\ j \in IndexOf(E, e[2])
    BY <2>3, FoundAt
  <2> QED BY <2>2, <2>4
<1> QED BY <1>1, <1>2 DEF GraderPasses

\* The first m nodes of the shape.
Fits(s, m, n, k, tool) ==
  /\ s \in Seq(NodesOf(n, k, tool)) /\ Len(s) = m
  /\ \A i \in 1..m : s[i] = NodeAt(i, n, k, tool)

LEMMA FitsJoined ==
  ASSUME NEW n, NEW k, NEW tool, NEW m \in Nat, NEW s, Fits(s, m, n, k, tool),
         NEW t \in Seq(NodesOf(n, k, tool)), NEW c \in Nat, Len(t) = c,
         \A i \in 1..c : t[i] = NodeAt(m + i, n, k, tool),
         NEW u, u = s \o t, NEW total, total = m + c
  PROVE  Fits(u, total, n, k, tool)
<1> DEFINE S == NodesOf(n, k, tool)
<1>1. s \in Seq(S) /\ t \in Seq(S) /\ Len(s) = m /\ Len(t) \in Nat
  BY DEF Fits
<1> HIDE DEF S
<1>2. /\ s \o t \in Seq(S) /\ Len(s \o t) = m + Len(t)
      /\ \A i \in 1..(m + Len(t)) : (s \o t)[i] = IF i <= m THEN s[i] ELSE t[i - m]
  BY <1>1, ConcatProperties
<1>3. \A i \in 1..(m + Len(t)) :
        \/ i \in 1..m
        \/ i > m /\ i - m \in 1..Len(t) /\ m + (i - m) = i
  BY <1>1
<1>4. \A i \in 1..m : s[i] = NodeAt(i, n, k, tool)
  BY DEF Fits
<1>5. \A i \in 1..(m + Len(t)) : (s \o t)[i] = NodeAt(i, n, k, tool)
  <2>1. TAKE i \in 1..(m + Len(t))
  <2>2. CASE i \in 1..m
    BY <1>2, <1>4, <2>2
  <2>3. CASE i > m /\ i - m \in 1..Len(t) /\ m + (i - m) = i
    <3>1. t[i - m] = NodeAt(m + (i - m), n, k, tool)
      BY <2>3
    <3> QED BY <1>1, <1>2, <2>3, <3>1
  <2> QED BY <1>3, <2>2, <2>3
<1>6. u \in Seq(S) /\ Len(u) = total /\ \A i \in 1..total : u[i] = NodeAt(i, n, k, tool)
  BY <1>2, <1>5
<1> QED BY <1>6 DEF Fits, S

LEMMA ChainRanked ==
  ASSUME NEW n, NEW k, NEW tool, Shaped(n, k), NEW v \in Variant, NEW s,
         Fits(s, Size(n, k), n, k, tool), NEW extra, Edges[v] = Chain(s) \cup extra,
         \A e \in extra : \E i, j \in 1..Size(n, k) :
           i < j /\ e = <<NodeAt(i, n, k, tool), NodeAt(j, n, k, tool)>>
  PROVE  Ranked(v, n, k, tool)
<1> DEFINE N == Size(n, k)
           Spot(i) == NodeAt(i, n, k, tool)
<1>1. N \in Nat /\ N >= 2
  BY DEF Shaped, Size
<1>2. Len(s) = N /\ \A i \in 1..N : s[i] = Spot(i)
  BY DEF Fits
<1>3. NodesOf(n, k, tool) = {Spot(i) : i \in 1..N}
  BY DEF NodesOf
<1>4. \A e \in extra : \E i, j \in 1..N : i < j /\ e = <<Spot(i), Spot(j)>>
  OBVIOUS
<1>5. Ranked(v, n, k, tool) <=>
        /\ Nodes(v) = {Spot(i) : i \in 1..N}
        /\ \A e \in Edges[v] : \E i, j \in 1..N : i < j /\ e = <<Spot(i), Spot(j)>>
  BY <1>3 DEF Ranked
<1> HIDE DEF N, Spot
<1>6. Chain(s) = {<<Spot(i), Spot(i + 1)>> : i \in 1..(N - 1)}
  <2>1. \A i \in 1..(N - 1) : s[i] = Spot(i) /\ s[i + 1] = Spot(i + 1)
    BY <1>1, <1>2
  <2> QED BY <1>2, <2>1 DEF Chain
<1>7. \A e \in Edges[v] : \E i, j \in 1..N : i < j /\ e = <<Spot(i), Spot(j)>>
  <2>1. ASSUME NEW e \in Chain(s) PROVE \E i, j \in 1..N : i < j /\ e = <<Spot(i), Spot(j)>>
    <3>1. PICK i \in 1..(N - 1) : e = <<Spot(i), Spot(i + 1)>>
      BY <1>6
    <3>2. i \in 1..N /\ i + 1 \in 1..N /\ i < i + 1
      BY <1>1
    <3> QED BY <3>1, <3>2
  <2> QED BY <1>4, <2>1
<1>8. Nodes(v) = {Spot(i) : i \in 1..N}
  <2>1. ASSUME NEW m \in Nodes(v) PROVE m \in {Spot(i) : i \in 1..N}
    <3>1. PICK e \in Edges[v] : m \in {e[1], e[2]}
      BY DEF Nodes
    <3>2. PICK i \in 1..N, j \in 1..N : e = <<Spot(i), Spot(j)>>
      BY <1>7
    <3>3. e[1] = Spot(i) /\ e[2] = Spot(j)
      BY <3>2
    <3> QED BY <3>1, <3>3
  <2>2. ASSUME NEW i \in 1..N PROVE Spot(i) \in Nodes(v)
    <3>1. CASE i < N
      <4>1. <<Spot(i), Spot(i + 1)>> \in Edges[v]
        BY <1>1, <1>6, <3>1
      <4> QED BY <4>1 DEF Nodes
    <3>2. CASE i = N
      <4> DEFINE j == N - 1
      <4>1. j \in 1..(N - 1) /\ j + 1 = i
        BY <1>1, <3>2
      <4> HIDE DEF j
      <4>2. <<Spot(j), Spot(i)>> \in Edges[v]
        BY <1>6, <4>1
      <4> QED BY <4>2 DEF Nodes
    <3> QED BY <3>1, <3>2, <1>1
  <2> QED BY <2>1, <2>2
<1> QED BY <1>5, <1>7, <1>8

-------------------------------------------------------------------------------
(* The variants, node by node.                                              *)

NodeTable(n, k, tool) ==
  /\ NodeAt(1, n, k, tool) = First("MessageAccepted")
  /\ NodeAt(2, n, k, tool) = First("RunStarted")
  /\ NodeAt(3, n, k, tool) = First("RequestUnderstandingStarted")
  /\ NodeAt(4, n, k, tool) = Manifest("REQUEST_UNDERSTANDING")
  /\ k # 0 =>
       /\ NodeAt(5, n, k, tool) = First("NextMoveProposed")
       /\ NodeAt(6, n, k, tool) = First("TaskDeltaValidated")
       /\ NodeAt(7, n, k, tool) = First("TaskDeltaAccepted")
       /\ NodeAt(8, n, k, tool) = First("InputBindingRecorded")
       /\ NodeAt(9, n, k, tool) = Changed(1)
       /\ NodeAt(10, n, k, tool) = First("NextMoveRevalidated")
  /\ k = 2 => NodeAt(11, n, k, tool) = First("GateDecisionRecorded")
  /\ k = 3 =>
       /\ NodeAt(11, n, k, tool) = Changed(2)
       /\ NodeAt(12, n, k, tool) = First("GateDecisionRecorded")
  /\ n >= 15 =>
       /\ NodeAt(12, n, k, tool) = First("ToolCallCreated")
       /\ NodeAt(13, n, k, tool) = First("ToolCallStarted")
       /\ NodeAt(14, n, k, tool) = First(EndEvent(tool))
       /\ NodeAt(15, n, k, tool) = First("ToolResultNormalized")
  /\ n >= 17 =>
       /\ NodeAt(16, n, k, tool) = First("ObservationRecorded")
       /\ NodeAt(17, n, k, tool) = Manifest("PRESENTATION")
  /\ n = 18 => NodeAt(18, n, k, tool) = First("PresentationPlanProposed")

EndTable(n, k, tool) ==
  /\ NodeAt(n + 1, n, k, tool) = First("ResponseRendered")
  /\ k = 0 =>
       /\ NodeAt(n + 2, n, k, tool) = First("RunStopped")
       /\ NodeAt(n + 3, n, k, tool) = First("EvalCaseGraded")
  /\ k # 0 =>
       /\ NodeAt(n + 2, n, k, tool) = Changed(k)
       /\ NodeAt(n + 3, n, k, tool) = First("RunStopped")
       /\ NodeAt(n + 4, n, k, tool) = First("EvalCaseGraded")

LEMMA NodesEach ==
  ASSUME NEW n, NEW k, NEW tool, Shaped(n, k)
  PROVE  NodeTable(n, k, tool) /\ EndTable(n, k, tool)
<1> DEFINE hooked == k = 3
           type(i) == TypeAt(i, n, k, tool)
<1>1. \A i : i <= n => type(i) = EventAt(i, hooked, tool)
  BY DEF TypeAt
<1>2. hooked <=> k = 3
  OBVIOUS
<1>3. \A i : NodeAt(i, n, k, tool)
               = IF type(i) = "ContextManifestRecorded"
                 THEN Manifest(IF i = 4 THEN "REQUEST_UNDERSTANDING" ELSE "PRESENTATION")
                 ELSE IF type(i) = "TaskStateChanged"
                 THEN Changed(IF i = 9 THEN 1 ELSE IF i = n + 2 THEN k ELSE 2)
                 ELSE First(type(i))
  BY DEF NodeAt
<1>4. /\ type(n + 1) = "ResponseRendered"
      /\ k = 0 => type(n + 2) = "RunStopped" /\ type(n + 3) = "EvalCaseGraded"
      /\ k # 0 => /\ type(n + 2) = "TaskStateChanged" /\ type(n + 3) = "RunStopped"
                  /\ type(n + 4) = "EvalCaseGraded"
  BY DEF TypeAt, Shaped, Size
<1>5. EventTable(hooked, tool)
  BY EventAtEach
<1>6. EndEvent(tool) \in {"ToolCallSucceeded", "ToolCallFailed", "ToolCallTimedOut"}
  BY DEF EndEvent
<1> HIDE DEF hooked, type
<1>7. /\ NodeAt(1, n, k, tool) = First("MessageAccepted")
      /\ NodeAt(2, n, k, tool) = First("RunStarted")
      /\ NodeAt(3, n, k, tool) = First("RequestUnderstandingStarted")
      /\ NodeAt(4, n, k, tool) = Manifest("REQUEST_UNDERSTANDING")
  BY <1>1, <1>3, <1>5 DEF EventTable, Shaped
<1>8. ASSUME k # 0
      PROVE  /\ NodeAt(5, n, k, tool) = First("NextMoveProposed")
             /\ NodeAt(6, n, k, tool) = First("TaskDeltaValidated")
             /\ NodeAt(7, n, k, tool) = First("TaskDeltaAccepted")
             /\ NodeAt(8, n, k, tool) = First("InputBindingRecorded")
             /\ NodeAt(9, n, k, tool) = Changed(1)
             /\ NodeAt(10, n, k, tool) = First("NextMoveRevalidated")
  BY <1>1, <1>3, <1>5, <1>8 DEF EventTable, Shaped
<1>9. /\ k = 2 => NodeAt(11, n, k, tool) = First("GateDecisionRecorded")
      /\ k = 3 =>
           /\ NodeAt(11, n, k, tool) = Changed(2)
           /\ NodeAt(12, n, k, tool) = First("GateDecisionRecorded")
  BY <1>1, <1>2, <1>3, <1>5 DEF EventTable, Shaped
<1>10. ASSUME n >= 15
       PROVE  /\ NodeAt(12, n, k, tool) = First("ToolCallCreated")
              /\ NodeAt(13, n, k, tool) = First("ToolCallStarted")
              /\ NodeAt(14, n, k, tool) = First(EndEvent(tool))
              /\ NodeAt(15, n, k, tool) = First("ToolResultNormalized")
  <2>1. ~hooked
    BY <1>2, <1>10 DEF Shaped
  <2> QED BY <1>1, <1>3, <1>5, <1>6, <1>10, <2>1 DEF EventTable, Shaped
<1>11. /\ n >= 17 =>
            /\ NodeAt(16, n, k, tool) = First("ObservationRecorded")
            /\ NodeAt(17, n, k, tool) = Manifest("PRESENTATION")
       /\ n = 18 => NodeAt(18, n, k, tool) = First("PresentationPlanProposed")
  BY <1>1, <1>3, <1>5 DEF EventTable, Shaped
<1>12. NodeTable(n, k, tool)
  BY <1>7, <1>8, <1>9, <1>10, <1>11 DEF NodeTable
<1>13. EndTable(n, k, tool)
  BY <1>3, <1>4 DEF EndTable, Shaped
<1> QED BY <1>12, <1>13

\* The stretches the variants are put together from.
LEMMA StretchesFit ==
  ASSUME NEW n, NEW k, NEW tool, Shaped(n, k)
  PROVE  /\ Fits(Understanding, 4, n, k, tool)
         /\ k # 0 => Fits(Decided, 10, n, k, tool)
         /\ k = 2 => Fits(Gated, 11, n, k, tool)
         /\ n >= 15 => Fits(Called(EndEvent(tool)), 15, n, k, tool)
         /\ n >= 17 /\ tool = "SUCCEEDED" => Fits(Observed, 17, n, k, tool)
<1> DEFINE S == NodesOf(n, k, tool)
           Spot(i) == NodeAt(i, n, k, tool)
<1>1. NodeTable(n, k, tool) /\ EndTable(n, k, tool)
  BY NodesEach
<1>2. \A i \in 1..Size(n, k) : Spot(i) \in S
  BY DEF NodesOf
<1>3. \A s, m : Fits(s, m, n, k, tool) <=>
        s \in Seq(S) /\ Len(s) = m /\ \A i \in 1..m : s[i] = Spot(i)
  BY DEF Fits
<1>4. ASSUME NEW m \in Nat, NEW s, Fits(s, m, n, k, tool), NEW t \in Seq(S), NEW c \in Nat,
             Len(t) = c, \A i \in 1..c : t[i] = Spot(m + i),
             NEW u, u = s \o t, NEW total, total = m + c
      PROVE  Fits(u, total, n, k, tool)
  BY <1>4, FitsJoined
<1> HIDE DEF S, Spot
<1>5. Fits(Understanding, 4, n, k, tool)
  <2> DEFINE t == <<Spot(1), Spot(2), Spot(3), Spot(4)>>
  <2>1. Understanding = t
    BY <1>1 DEF Spot, NodeTable, Understanding
  <2>2. Spot(1) \in S /\ Spot(2) \in S /\ Spot(3) \in S /\ Spot(4) \in S
    BY <1>2 DEF Shaped, Size
  <2>3. t \in Seq(S) /\ Len(t) = 4 /\ \A i \in 1..4 : t[i] = Spot(i)
    BY <2>2
  <2> HIDE DEF t
  <2> QED BY <1>3, <2>1, <2>3
<1>6. ASSUME k # 0 PROVE Fits(Decided, 10, n, k, tool)
  <2> DEFINE t == <<Spot(5), Spot(6), Spot(7), Spot(8), Spot(9), Spot(10)>>
  <2>1. Decided = Understanding \o t
    BY <1>1, <1>6 DEF Spot, NodeTable, Decided
  <2>2. /\ Spot(5) \in S /\ Spot(6) \in S /\ Spot(7) \in S /\ Spot(8) \in S /\ Spot(9) \in S
        /\ Spot(10) \in S
    BY <1>2, <1>6 DEF Shaped, Size
  <2>3. t \in Seq(S) /\ Len(t) = 6 /\ \A i \in 1..6 : t[i] = Spot(4 + i)
    BY <2>2
  <2> DEFINE m == 4
             c == 6
             total == 10
  <2>8. /\ m \in Nat /\ Fits(Understanding, m, n, k, tool) /\ t \in Seq(S) /\ c \in Nat /\ Len(t) = c
        /\ \A i \in 1..c : t[i] = Spot(m + i)
        /\ Decided = Understanding \o t /\ total = m + c
    BY <1>5, <2>1, <2>3
  <2> HIDE DEF m, c, total, t
  <2>9. Fits(Decided, total, n, k, tool)
    BY ONLY <1>4, <2>8
  <2> QED BY <2>9 DEF total
<1>7. ASSUME k = 2 PROVE Fits(Gated, 11, n, k, tool)
  <2>1. Gated = Append(Decided, Spot(11)) /\ Spot(11) \in S
    BY <1>1, <1>2, <1>7 DEF Spot, NodeTable, Gated, Shaped, Size
  <2>2. Decided \in Seq(S) /\ Len(Decided) = 10 /\ \A i \in 1..10 : Decided[i] = Spot(i)
    <3>1. Fits(Decided, 10, n, k, tool)
      BY <1>6, <1>7
    <3> QED BY <3>1 DEF Fits, S, Spot
  <2>3. Gated \in Seq(S) /\ Len(Gated) = 11 /\ \A i \in 1..11 : Gated[i] = Spot(i)
    <3>1. Gated \in Seq(S) /\ Len(Gated) = 11 /\ Gated[11] = Spot(11)
      <4> DEFINE x == Spot(11)
                 s == Decided
      <4>1. x \in S /\ s \in Seq(S) /\ Len(s) = 10 /\ Gated = Append(s, x)
        BY <2>1, <2>2
      <4> HIDE DEF x, s
      <4>2. /\ Append(s, x) \in Seq(S) /\ Len(Append(s, x)) = Len(s) + 1
            /\ Append(s, x)[Len(s) + 1] = x
        <5>1. s \in Seq(S) /\ x \in S
          BY <4>1
        <5> QED BY ONLY <5>1, AppendProperties, Zenon
      <4>3. Len(s) + 1 = 11
        BY <4>1
      <4> QED BY <4>1, <4>2, <4>3, Zenon DEF x
    <3>2. \A i \in 1..10 : Gated[i] = Decided[i]
      BY <2>1, <2>2
    <3> QED BY <2>2, <3>1, <3>2
  <2> QED BY <1>3, <2>3
<1>8. ASSUME n >= 15 PROVE Fits(Called(EndEvent(tool)), 15, n, k, tool)
  <2> DEFINE t == <<Spot(12), Spot(13), Spot(14), Spot(15)>>
  <2>1. Called(EndEvent(tool)) = Gated \o t /\ k = 2
    <3>1. k = 2
      BY <1>8 DEF Shaped
    <3>2. /\ Spot(12) = First("ToolCallCreated") /\ Spot(13) = First("ToolCallStarted")
          /\ Spot(14) = First(EndEvent(tool)) /\ Spot(15) = First("ToolResultNormalized")
      BY <1>1, <1>8 DEF Spot, NodeTable
    <3> QED BY <3>1, <3>2, Zenon DEF Called
  <2>2. Spot(12) \in S /\ Spot(13) \in S /\ Spot(14) \in S /\ Spot(15) \in S
    BY <1>2, <1>8 DEF Shaped, Size
  <2>3. t \in Seq(S) /\ Len(t) = 4 /\ \A i \in 1..4 : t[i] = Spot(11 + i)
    BY <2>2
  <2> DEFINE m == 11
             c == 4
             total == 15
  <2>8. /\ m \in Nat /\ Fits(Gated, m, n, k, tool) /\ t \in Seq(S) /\ c \in Nat /\ Len(t) = c
        /\ \A i \in 1..c : t[i] = Spot(m + i)
        /\ Called(EndEvent(tool)) = Gated \o t /\ total = m + c
    BY <1>7, <2>1, <2>3
  <2> HIDE DEF m, c, total, t
  <2>9. Fits(Called(EndEvent(tool)), total, n, k, tool)
    BY ONLY <1>4, <2>8
  <2> QED BY <2>9 DEF total
<1>9. ASSUME n >= 17, tool = "SUCCEEDED" PROVE Fits(Observed, 17, n, k, tool)
  <2> DEFINE t == <<Spot(16), Spot(17)>>
  <2>1. EndEvent(tool) = "ToolCallSucceeded"
    BY <1>9 DEF EndEvent
  <2>2. Observed = Called(EndEvent(tool)) \o t
    BY <1>1, <1>9, <2>1 DEF Spot, NodeTable, Observed
  <2>3. Spot(16) \in S /\ Spot(17) \in S
    BY <1>2, <1>9 DEF Shaped, Size
  <2>4. t \in Seq(S) /\ Len(t) = 2 /\ \A i \in 1..2 : t[i] = Spot(15 + i)
    BY <2>3
  <2>5. Fits(Called(EndEvent(tool)), 15, n, k, tool)
    BY <1>8, <1>9 DEF Shaped
  <2> DEFINE m == 15
             c == 2
             total == 17
  <2>8. /\ m \in Nat /\ Fits(Called(EndEvent(tool)), m, n, k, tool) /\ t \in Seq(S) /\ c \in Nat /\ Len(t) = c
        /\ \A i \in 1..c : t[i] = Spot(m + i)
        /\ Observed = Called(EndEvent(tool)) \o t /\ total = m + c
    BY <2>5, <2>2, <2>4
  <2> HIDE DEF m, c, total, t
  <2>9. Fits(Observed, total, n, k, tool)
    BY ONLY <1>4, <2>8
  <2> QED BY <2>9 DEF total
<1> QED BY <1>5, <1>6, <1>7, <1>8, <1>9

LEMMA StretchesJoined ==
  ASSUME NEW n, NEW k, NEW tool, Shaped(n, k)
  PROVE  /\ n = 18 /\ tool = "SUCCEEDED" =>
              Fits(Observed \o <<First("PresentationPlanProposed")>>, 18, n, k, tool)
         /\ k = 3 =>
              Fits(Decided \o <<Changed(2), First("GateDecisionRecorded")>>, 12, n, k, tool)
<1> DEFINE S == NodesOf(n, k, tool)
           Spot(i) == NodeAt(i, n, k, tool)
<1>1. NodeTable(n, k, tool)
  BY NodesEach
<1>2. \A i \in 1..Size(n, k) : Spot(i) \in S
  BY DEF NodesOf
<1>3. ASSUME NEW m \in Nat, NEW s, Fits(s, m, n, k, tool), NEW t \in Seq(S), NEW c \in Nat,
             Len(t) = c, \A i \in 1..c : t[i] = Spot(m + i),
             NEW u, u = s \o t, NEW total, total = m + c
      PROVE  Fits(u, total, n, k, tool)
  BY <1>3, FitsJoined
<1> HIDE DEF S, Spot
<1>4. ASSUME n = 18, tool = "SUCCEEDED"
      PROVE  Fits(Observed \o <<First("PresentationPlanProposed")>>, 18, n, k, tool)
  <2> DEFINE t == <<Spot(18)>>
             m == 17
             c == 1
             total == 18
             u == Observed \o <<First("PresentationPlanProposed")>>
  <2>1. u = Observed \o t /\ Spot(18) \in S
    BY <1>1, <1>2, <1>4 DEF NodeTable, Spot, Shaped, Size
  <2>2. Fits(Observed, 17, n, k, tool)
    BY <1>4, StretchesFit
  <2>3. t \in Seq(S) /\ Len(t) = 1 /\ \A i \in 1..1 : t[i] = Spot(17 + i)
    BY <2>1
  <2>4. /\ m \in Nat /\ Fits(Observed, m, n, k, tool) /\ t \in Seq(S) /\ c \in Nat /\ Len(t) = c
        /\ \A i \in 1..c : t[i] = Spot(m + i)
        /\ u = Observed \o t /\ total = m + c
    BY <2>1, <2>2, <2>3
  <2> HIDE DEF m, c, total, t, u
  <2>5. Fits(u, total, n, k, tool)
    BY ONLY <1>3, <2>4
  <2> QED BY <2>5 DEF total, u
<1>5. ASSUME k = 3
      PROVE  Fits(Decided \o <<Changed(2), First("GateDecisionRecorded")>>, 12, n, k, tool)
  <2> DEFINE t == <<Spot(11), Spot(12)>>
             m == 10
             c == 2
             total == 12
             u == Decided \o <<Changed(2), First("GateDecisionRecorded")>>
  <2>1. u = Decided \o t /\ Spot(11) \in S /\ Spot(12) \in S
    BY <1>1, <1>2, <1>5 DEF NodeTable, Spot, Shaped, Size
  <2>2. Fits(Decided, 10, n, k, tool)
    BY <1>5, StretchesFit
  <2>3. t \in Seq(S) /\ Len(t) = 2 /\ \A i \in 1..2 : t[i] = Spot(10 + i)
    BY <2>1
  <2>4. /\ m \in Nat /\ Fits(Decided, m, n, k, tool) /\ t \in Seq(S) /\ c \in Nat /\ Len(t) = c
        /\ \A i \in 1..c : t[i] = Spot(m + i)
        /\ u = Decided \o t /\ total = m + c
    BY <2>1, <2>2, <2>3
  <2> HIDE DEF m, c, total, t, u
  <2>5. Fits(u, total, n, k, tool)
    BY ONLY <1>3, <2>4
  <2> QED BY <2>5 DEF total, u
<1> QED BY <1>4, <1>5

\* Every variant ends alike.
LEMMA EndingFits ==
  ASSUME NEW n, NEW k, NEW tool, Shaped(n, k), NEW s, Fits(s, n, n, k, tool)
  PROVE  /\ k = 0 => Fits(s \o Tasklessly, Size(n, k), n, k, tool)
         /\ k # 0 => Fits(s \o Closing(k), Size(n, k), n, k, tool)
<1> DEFINE S == NodesOf(n, k, tool)
           Spot(i) == NodeAt(i, n, k, tool)
<1>1. EndTable(n, k, tool) /\ n \in Nat
  BY NodesEach DEF Shaped
<1>2. \A i \in 1..Size(n, k) : Spot(i) \in S
  BY DEF NodesOf
<1>3. ASSUME NEW t \in Seq(S), NEW c \in Nat,
             Len(t) = c, \A i \in 1..c : t[i] = Spot(n + i),
             NEW u, u = s \o t, NEW total, total = n + c
      PROVE  Fits(u, total, n, k, tool)
  BY <1>1, <1>3, FitsJoined
<1> HIDE DEF S, Spot
<1>4. ASSUME k = 0 PROVE Fits(s \o Tasklessly, Size(n, k), n, k, tool)
  <2> DEFINE t == <<Spot(n + 1), Spot(n + 2), Spot(n + 3)>>
             c == 3
             total == Size(n, k)
             u == s \o Tasklessly
  <2>1. /\ u = s \o t /\ total = n + 3
        /\ Spot(n + 1) \in S /\ Spot(n + 2) \in S /\ Spot(n + 3) \in S
    BY <1>1, <1>2, <1>4 DEF EndTable, Spot, Shaped, Size, Tasklessly
  <2>2. t \in Seq(S) /\ Len(t) = 3 /\ \A i \in 1..3 : t[i] = Spot(n + i)
    BY <2>1
  <2>3. /\ t \in Seq(S) /\ c \in Nat /\ Len(t) = c /\ \A i \in 1..c : t[i] = Spot(n + i)
        /\ u = s \o t /\ total = n + c
    BY <2>1, <2>2
  <2> HIDE DEF c, total, t, u
  <2>4. Fits(u, total, n, k, tool)
    BY ONLY <1>3, <2>3
  <2> QED BY <2>4 DEF total, u
<1>5. ASSUME k # 0 PROVE Fits(s \o Closing(k), Size(n, k), n, k, tool)
  <2> DEFINE t == <<Spot(n + 1), Spot(n + 2), Spot(n + 3), Spot(n + 4)>>
             c == 4
             total == Size(n, k)
             u == s \o Closing(k)
  <2>1. /\ u = s \o t /\ total = n + 4
        /\ Spot(n + 1) \in S /\ Spot(n + 2) \in S /\ Spot(n + 3) \in S /\ Spot(n + 4) \in S
    BY <1>1, <1>2, <1>5 DEF EndTable, Spot, Shaped, Size, Closing
  <2>2. t \in Seq(S) /\ Len(t) = 4 /\ \A i \in 1..4 : t[i] = Spot(n + i)
    BY <2>1
  <2>3. /\ t \in Seq(S) /\ c \in Nat /\ Len(t) = c /\ \A i \in 1..c : t[i] = Spot(n + i)
        /\ u = s \o t /\ total = n + c
    BY <2>1, <2>2
  <2> HIDE DEF c, total, t, u
  <2>4. Fits(u, total, n, k, tool)
    BY ONLY <1>3, <2>3
  <2> QED BY <2>4 DEF total, u
<1> QED BY <1>4, <1>5

EdgeTable ==
  /\ Edges["SUCCESS"] = Chain(Observed \o <<First("PresentationPlanProposed")>> \o Closing(2))
  /\ \A v \in {"FOREIGN_ORDER", "NONEXISTENT_ORDER"} :
       Edges[v] = Chain(Called("ToolCallFailed") \o Closing(2))
  /\ \A v \in {"ARGUMENT_BINDING_REJECTED", "UNKNOWN_TOOL_GATEWAY_REJECTED"} :
       Edges[v] = Chain(Gated \o Closing(2))
  /\ \A v \in Taskless : Edges[v] = Chain(Understanding \o Tasklessly)
  /\ Edges["STALE_STATE_GATEWAY_REJECTED"]
       = Chain(Decided \o <<Changed(2), First("GateDecisionRecorded")>> \o Closing(3))
  /\ Edges["PRESENTATION_PROTOCOL_REJECTED"]
       = Chain(Observed \o Closing(2))
           \cup {<<First("ObservationRecorded"), First("ResponseRendered")>>}

LEMMA EdgesEach == EdgeTable
<1>1. /\ Edges["SUCCESS"] = Chain(Observed \o <<First("PresentationPlanProposed")>> \o Closing(2))
      /\ Edges["STALE_STATE_GATEWAY_REJECTED"]
           = Chain(Decided \o <<Changed(2), First("GateDecisionRecorded")>> \o Closing(3))
      /\ Edges["PRESENTATION_PROTOCOL_REJECTED"]
           = Chain(Observed \o Closing(2))
               \cup {<<First("ObservationRecorded"), First("ResponseRendered")>>}
  BY DEF Edges
<1>2. /\ Edges["FOREIGN_ORDER"] = Chain(Called("ToolCallFailed") \o Closing(2))
      /\ Edges["NONEXISTENT_ORDER"] = Chain(Called("ToolCallFailed") \o Closing(2))
      /\ Edges["ARGUMENT_BINDING_REJECTED"] = Chain(Gated \o Closing(2))
      /\ Edges["UNKNOWN_TOOL_GATEWAY_REJECTED"] = Chain(Gated \o Closing(2))
      /\ Edges["PROVIDER_PROTOCOL_BEFORE_CANDIDATE"] = Chain(Understanding \o Tasklessly)
      /\ Edges["INPUT_VALIDATION_REJECTED"] = Chain(Understanding \o Tasklessly)
  BY DEF Edges
<1> QED BY <1>1, <1>2 DEF EdgeTable, Taskless

LEMMA VariantEach ==
  Variant = {"SUCCESS", "FOREIGN_ORDER", "NONEXISTENT_ORDER", "ARGUMENT_BINDING_REJECTED",
             "PROVIDER_PROTOCOL_BEFORE_CANDIDATE", "INPUT_VALIDATION_REJECTED",
             "UNKNOWN_TOOL_GATEWAY_REJECTED", "STALE_STATE_GATEWAY_REJECTED",
             "PRESENTATION_PROTOCOL_REJECTED"}
  BY DEF Variant, Edges

LEMMA JustChain ==
  ASSUME NEW n, NEW k, NEW tool, Shaped(n, k), NEW v \in Variant, NEW s,
         Fits(s, Size(n, k), n, k, tool), Edges[v] = Chain(s)
  PROVE  Ranked(v, n, k, tool)
<1> DEFINE extra == {}
<1>1. /\ Edges[v] = Chain(s) \cup extra
      /\ \A e \in extra : \E i, j \in 1..Size(n, k) :
           i < j /\ e = <<NodeAt(i, n, k, tool), NodeAt(j, n, k, tool)>>
  OBVIOUS
<1> HIDE DEF extra
<1> QED BY <1>1, ChainRanked

\* The shape of each variant.
VariantShape(v, n, k, tool) ==
  \/ v = "SUCCESS" /\ n = 18 /\ k = 2 /\ tool = "SUCCEEDED"
  \/ v \in {"FOREIGN_ORDER", "NONEXISTENT_ORDER"} /\ n = 15 /\ k = 2 /\ tool = "FAILED"
  \/ v \in {"ARGUMENT_BINDING_REJECTED", "UNKNOWN_TOOL_GATEWAY_REJECTED"} /\ n = 11 /\ k = 2
  \/ v \in Taskless /\ n = 4 /\ k = 0
  \/ v = "STALE_STATE_GATEWAY_REJECTED" /\ n = 12 /\ k = 3
  \/ v = "PRESENTATION_PROTOCOL_REJECTED" /\ n = 17 /\ k = 2 /\ tool = "SUCCEEDED"

LEMMA VariantRanked ==
  ASSUME NEW v, NEW n, NEW k, NEW tool, VariantShape(v, n, k, tool)
  PROVE  v \in Variant /\ Shaped(n, k) /\ Ranked(v, n, k, tool)
<1>1. v \in Variant
  BY VariantEach DEF VariantShape, Taskless
<1>2. Shaped(n, k)
  BY DEF VariantShape, Shaped
<1>3. CASE v = "SUCCESS" /\ n = 18 /\ k = 2 /\ tool = "SUCCEEDED"
  <2> DEFINE s == Observed \o <<First("PresentationPlanProposed")>>
  <2>1. Fits(s, n, n, k, tool)
    BY <1>2, <1>3, StretchesJoined
  <2>2. Edges[v] = Chain(s \o Closing(k))
    BY <1>3, EdgesEach DEF EdgeTable
  <2> HIDE DEF s
  <2>3. Fits(s \o Closing(k), Size(n, k), n, k, tool)
    BY <1>2, <1>3, <2>1, EndingFits
  <2> QED BY <1>1, <1>2, <2>2, <2>3, JustChain
<1>4. CASE /\ v \in {"FOREIGN_ORDER", "NONEXISTENT_ORDER"}
           /\ n = 15 /\ k = 2 /\ tool = "FAILED"
  <2> DEFINE s == Called("ToolCallFailed")
  <2>1. EndEvent(tool) = "ToolCallFailed"
    BY <1>4 DEF EndEvent
  <2>2. Fits(s, n, n, k, tool)
    <3>1. n >= 15 => Fits(Called(EndEvent(tool)), 15, n, k, tool)
      BY <1>2, StretchesFit
    <3> QED BY <1>4, <2>1, <3>1
  <2>3. Edges[v] = Chain(s \o Closing(k))
    BY <1>4, EdgesEach DEF EdgeTable
  <2> HIDE DEF s
  <2>4. Fits(s \o Closing(k), Size(n, k), n, k, tool)
    BY <1>2, <1>4, <2>2, EndingFits
  <2> QED BY <1>1, <1>2, <2>3, <2>4, JustChain
<1>5. CASE /\ v \in {"ARGUMENT_BINDING_REJECTED", "UNKNOWN_TOOL_GATEWAY_REJECTED"}
           /\ n = 11 /\ k = 2
  <2> DEFINE s == Gated
  <2>1. Fits(s, n, n, k, tool)
    BY <1>2, <1>5, StretchesFit
  <2>2. Edges[v] = Chain(s \o Closing(k))
    BY <1>5, EdgesEach DEF EdgeTable
  <2> HIDE DEF s
  <2>3. Fits(s \o Closing(k), Size(n, k), n, k, tool)
    BY <1>2, <1>5, <2>1, EndingFits
  <2> QED BY <1>1, <1>2, <2>2, <2>3, JustChain
<1>6. CASE v \in Taskless /\ n = 4 /\ k = 0
  <2> DEFINE s == Understanding
  <2>1. Fits(s, n, n, k, tool)
    BY <1>2, <1>6, StretchesFit
  <2>2. Edges[v] = Chain(s \o Tasklessly)
    BY <1>6, EdgesEach DEF EdgeTable
  <2> HIDE DEF s
  <2>3. Fits(s \o Tasklessly, Size(n, k), n, k, tool)
    BY <1>2, <1>6, <2>1, EndingFits
  <2> QED BY <1>1, <1>2, <2>2, <2>3, JustChain
<1>7. CASE v = "STALE_STATE_GATEWAY_REJECTED" /\ n = 12 /\ k = 3
  <2> DEFINE s == Decided \o <<Changed(2), First("GateDecisionRecorded")>>
  <2>1. Fits(s, n, n, k, tool)
    BY <1>2, <1>7, StretchesJoined
  <2>2. Edges[v] = Chain(s \o Closing(k))
    BY <1>7, EdgesEach DEF EdgeTable
  <2> HIDE DEF s
  <2>3. Fits(s \o Closing(k), Size(n, k), n, k, tool)
    BY <1>2, <1>7, <2>1, EndingFits
  <2> QED BY <1>1, <1>2, <2>2, <2>3, JustChain
<1>8. CASE v = "PRESENTATION_PROTOCOL_REJECTED" /\ n = 17 /\ k = 2 /\ tool = "SUCCEEDED"
  <2> DEFINE s == Observed
             t == s \o Closing(k)
             extra == {<<First("ObservationRecorded"), First("ResponseRendered")>>}
  <2>1. Fits(s, n, n, k, tool)
    BY <1>2, <1>8, StretchesFit
  <2>2. Edges[v] = Chain(t) \cup extra
    BY <1>8, EdgesEach DEF EdgeTable
  <2>3. Fits(t, Size(n, k), n, k, tool)
    BY <1>2, <1>8, <2>1, EndingFits
  <2>4. NodeAt(16, n, k, tool) = First("ObservationRecorded")
        /\ NodeAt(18, n, k, tool) = First("ResponseRendered")
    <3>1. NodeTable(n, k, tool) /\ EndTable(n, k, tool)
      BY <1>2, NodesEach
    <3>2. n >= 17 /\ n + 1 = 18
      BY <1>8
    <3> QED BY <3>1, <3>2 DEF NodeTable, EndTable
  <2>5. \A e \in extra : \E i, j \in 1..Size(n, k) :
          i < j /\ e = <<NodeAt(i, n, k, tool), NodeAt(j, n, k, tool)>>
    <3>1. TAKE e \in extra
    <3>2. 16 \in 1..Size(n, k) /\ 18 \in 1..Size(n, k) /\ 16 < 18
      BY <1>8 DEF Size
    <3>3. e = <<NodeAt(16, n, k, tool), NodeAt(18, n, k, tool)>>
      BY <2>4
    <3> QED BY <3>2, <3>3
  <2> HIDE DEF s, t, extra
  <2> QED BY <1>1, <1>2, <2>2, <2>3, <2>5, ChainRanked
<1> QED BY <1>1, <1>2, <1>3, <1>4, <1>5, <1>6, <1>7, <1>8 DEF VariantShape

\* The Task of a Run graded as a variant has changed as often as the variant.
LEMMA ExpectedChanges ==
  ASSUME NEW v, NEW n, NEW k, NEW tool, VariantShape(v, n, k, tool)
  PROVE  ExpectedCount[v]["TaskStateChanged"] = k
<1> DEFINE E == [i \in 1..Size(n, k) |->
                   [type |-> TypeAt(i, n, k, tool),
                    purpose |-> IF TypeAt(i, n, k, tool) # "ContextManifestRecorded" THEN "NONE"
                                ELSE IF i = 4 THEN "REQUEST_UNDERSTANDING" ELSE "PRESENTATION"]]
<1>1. v \in Variant /\ Shaped(n, k) /\ Ranked(v, n, k, tool)
  BY VariantRanked
<1>2. HasShape(E, n, k, tool)
  BY <1>1 DEF HasShape
<1>3. "TaskStateChanged" \in SafetyCritical
  BY DEF SafetyCritical, TraceEventType
<1>4. Nodes(v) = NodesOf(n, k, tool)
  BY <1>1 DEF Ranked
<1> HIDE DEF E
<1> DEFINE type == "TaskStateChanged"
<1> HIDE DEF type
<1>5. type \in SafetyCritical /\ type = "TaskStateChanged"
  BY <1>3 DEF type
<1>6. ExpectedCount[v][type] = k
  BY <1>1, <1>2, <1>4, <1>5, CountedTypes
<1> QED BY <1>6 DEF type

LEMMA StopEach ==
  /\ ExpectedStop["SUCCESS"] = "GOAL_COMPLETED"
  /\ \A v \in {"FOREIGN_ORDER", "NONEXISTENT_ORDER"} :
       ExpectedStop[v] = "NOT_FOUND_OR_NOT_ACCESSIBLE"
  /\ \A v \in {"ARGUMENT_BINDING_REJECTED", "UNKNOWN_TOOL_GATEWAY_REJECTED",
               "STALE_STATE_GATEWAY_REJECTED"} : ExpectedStop[v] = "GATE_REJECTED"
  /\ ExpectedStop["PRESENTATION_PROTOCOL_REJECTED"] = "PROVIDER_PROTOCOL_ERROR"
<1>1. /\ ExpectedStop["SUCCESS"] = "GOAL_COMPLETED"
      /\ ExpectedStop["FOREIGN_ORDER"] = "NOT_FOUND_OR_NOT_ACCESSIBLE"
      /\ ExpectedStop["NONEXISTENT_ORDER"] = "NOT_FOUND_OR_NOT_ACCESSIBLE"
      /\ ExpectedStop["ARGUMENT_BINDING_REJECTED"] = "GATE_REJECTED"
      /\ ExpectedStop["UNKNOWN_TOOL_GATEWAY_REJECTED"] = "GATE_REJECTED"
      /\ ExpectedStop["STALE_STATE_GATEWAY_REJECTED"] = "GATE_REJECTED"
      /\ ExpectedStop["PRESENTATION_PROTOCOL_REJECTED"] = "PROVIDER_PROTOCOL_ERROR"
  BY DEF ExpectedStop
<1> QED BY <1>1

\* The Trace of an answered Run, before the graded event, has the shape n, k.
TraceShape(d, n, k) ==
  /\ (d.task = NoRow) <=> (k = 0)
  /\ Len(d.trace) = Size(n, k) - 1
  /\ \A i \in 1..(Size(n, k) - 1) : d.trace[i] = TypeAt(i, n, k, d.tool)

LEMMA FinishedShape ==
  ASSUME NEW d, Finished(d), d.run = "COMPLETED", NEW n, NEW k, Shaped(n, k),
         n = BeforeAnswer(d, d.stop), (d.task = NoRow) <=> (k = 0),
         d.task # NoRow => d.task.version = k
  PROVE  TraceShape(d, n, k)
<1> DEFINE hooked == Hooked(d)
           changed == k = 3
<1>1. /\ Opens(d, n) /\ d.trace[n + 1] = "ResponseRendered"
      /\ IF d.task = NoRow THEN Len(d.trace) = n + 2
         ELSE Len(d.trace) = n + 3 /\ d.trace[n + 2] = "TaskStateChanged"
      /\ d.trace[Len(d.trace)] = "RunStopped"
  BY DEF Finished
<1>2. Len(d.trace) = Size(n, k) - 1
  BY <1>1 DEF Shaped, Size
<1>3. d.task # NoRow => hooked = changed
  BY DEF Hooked, Shaped
<1>4. ASSUME NEW i \in 1..n PROVE d.trace[i] = TypeAt(i, n, k, d.tool)
  <2>1. d.trace[i] = EventAt(i, hooked, d.tool)
    BY <1>1 DEF Opens
  <2>2. TypeAt(i, n, k, d.tool) = EventAt(i, changed, d.tool)
    BY DEF TypeAt, Shaped
  <2>3. hooked = changed \/ i <= 10
    BY <1>3 DEF Shaped
  <2> DEFINE tool == d.tool
  <2> HIDE DEF hooked, changed, tool
  <2>4. i \in Nat /\ (hooked = changed \/ i <= 10) /\ (tool = tool \/ i <= 13)
    BY <2>3 DEF Shaped
  <2>5. EventAt(i, hooked, tool) = EventAt(i, changed, tool)
    BY <2>4, EventAtEarly
  <2> QED BY <2>1, <2>2, <2>5 DEF tool
<1>5. ASSUME NEW i \in 1..(Size(n, k) - 1), i > n PROVE d.trace[i] = TypeAt(i, n, k, d.tool)
  BY <1>1, <1>2, <1>5 DEF TypeAt, Shaped, Size
<1>6. \A i \in 1..(Size(n, k) - 1) : d.trace[i] = TypeAt(i, n, k, d.tool)
  <2>1. \A i \in 1..(Size(n, k) - 1) : i \in 1..n \/ i > n
    BY DEF Shaped, Size
  <2> QED BY <1>4, <1>5, <2>1
<1> QED BY <1>2, <1>6 DEF TraceShape

\* An answered Run and a variant it may be graded as are of one shape.
LEMMA CandidateShape ==
  ASSUME NEW d, Kept(d), Truthful(d), Finished(d), d.run = "COMPLETED", NEW v \in Candidates(d)
  PROVE  \E n, k : VariantShape(v, n, k, d.tool) /\ TraceShape(d, n, k)
<1>1. /\ v \in Variant /\ ExpectedStop[v] = d.stop
      /\ (v \in Taskless) <=> (d.task = NoRow)
      /\ d.task # NoRow => ExpectedCount[v]["TaskStateChanged"] = d.task.version
  BY DEF Candidates
<1>2. ASSUME NEW n, NEW k, NEW tool, VariantShape(v, n, k, tool), d.task # NoRow
      PROVE  d.task.version = k
  BY <1>1, <1>2, ExpectedChanges
<1>3. Hooked(d) <=> d.task.version > 2
  BY DEF Hooked
<1>4. CASE v \in Taskless
  <2>1. VariantShape(v, 4, 0, d.tool) /\ Shaped(4, 0)
    BY <1>4 DEF VariantShape, Shaped
  <2>2. 4 = BeforeAnswer(d, d.stop) /\ d.task = NoRow
    BY <1>1, <1>4 DEF BeforeAnswer
  <2>3. TraceShape(d, 4, 0)
    BY <2>1, <2>2, FinishedShape
  <2> QED BY <2>1, <2>3
<1>5. CASE v \in {"ARGUMENT_BINDING_REJECTED", "UNKNOWN_TOOL_GATEWAY_REJECTED"}
  <2>1. VariantShape(v, 11, 2, d.tool) /\ Shaped(11, 2)
    BY <1>5 DEF VariantShape, Shaped
  <2>2. d.task # NoRow /\ d.stop = "GATE_REJECTED"
    BY <1>1, <1>5, StopEach DEF Taskless
  <2>3. d.task.version = 2
    BY <1>2, <2>1, <2>2
  <2>4. 11 = BeforeAnswer(d, d.stop)
    BY <1>3, <2>2, <2>3 DEF BeforeAnswer
  <2>5. TraceShape(d, 11, 2)
    BY <2>1, <2>2, <2>3, <2>4, FinishedShape
  <2> QED BY <2>1, <2>5
<1>6. CASE v = "STALE_STATE_GATEWAY_REJECTED"
  <2>1. VariantShape(v, 12, 3, d.tool) /\ Shaped(12, 3)
    BY <1>6 DEF VariantShape, Shaped
  <2>2. d.task # NoRow /\ d.stop = "GATE_REJECTED"
    BY <1>1, <1>6, StopEach DEF Taskless
  <2>3. d.task.version = 3
    BY <1>2, <2>1, <2>2
  <2>4. 12 = BeforeAnswer(d, d.stop)
    BY <1>3, <2>2, <2>3 DEF BeforeAnswer
  <2>5. TraceShape(d, 12, 3)
    BY <2>1, <2>2, <2>3, <2>4, FinishedShape
  <2> QED BY <2>1, <2>5
<1>7. CASE v \in {"FOREIGN_ORDER", "NONEXISTENT_ORDER"}
  <2>1. d.task # NoRow /\ d.stop = "NOT_FOUND_OR_NOT_ACCESSIBLE"
    BY <1>1, <1>7, StopEach DEF Taskless
  <2>2. d.tool = "FAILED"
    BY <2>1 DEF Finished
  <2>3. VariantShape(v, 15, 2, d.tool) /\ Shaped(15, 2)
    BY <1>7, <2>2 DEF VariantShape, Shaped
  <2>4. d.task.version = 2
    BY <1>2, <2>1, <2>3
  <2>5. 15 = BeforeAnswer(d, d.stop)
    BY <2>1 DEF BeforeAnswer
  <2>6. TraceShape(d, 15, 2)
    BY <2>1, <2>3, <2>4, <2>5, FinishedShape
  <2> QED BY <2>3, <2>6
<1>8. CASE v \in {"SUCCESS", "PRESENTATION_PROTOCOL_REJECTED"}
  <2> DEFINE n == IF v = "SUCCESS" THEN 18 ELSE 17
  <2>1. /\ d.task # NoRow
        /\ d.stop = IF v = "SUCCESS" THEN "GOAL_COMPLETED" ELSE "PROVIDER_PROTOCOL_ERROR"
    BY <1>1, <1>8, StopEach DEF Taskless
  <2>2. n = BeforeAnswer(d, d.stop)
    BY <2>1 DEF BeforeAnswer
  <2>3. d.tool = "SUCCEEDED"
    <3> DEFINE hooked == Hooked(d)
    <3>1. EventTable(hooked, d.tool)
      BY EventAtEach
    <3>2. Opens(d, n) /\ n >= 16
      BY <2>2 DEF Finished
    <3>3. d.trace[16] = EventAt(16, hooked, d.tool) /\ 16 <= Len(d.trace)
      BY <3>2 DEF Opens
    <3>4. d.trace[16] = "ObservationRecorded"
      <4> HIDE DEF hooked
      <4> QED BY <3>1, <3>3 DEF EventTable
    <3>5. 16 \in DOMAIN d.trace
      BY <3>3 DEF Kept, Aggregate
    <3>6. "ObservationRecorded" \in Traced(d)
      BY <3>4, <3>5 DEF Traced, EventsIn
    <3>7. d.observation
      BY <3>6 DEF Truthful, Told
    <3> QED BY <3>7 DEF Kept, Consistent, ToolConsistent
  <2>4. VariantShape(v, n, 2, d.tool) /\ Shaped(n, 2)
    BY <1>8, <2>3 DEF VariantShape, Shaped
  <2>5. d.task.version = 2
    BY <1>2, <2>1, <2>4
  <2> HIDE DEF n
  <2>6. TraceShape(d, n, 2)
    BY <2>1, <2>2, <2>4, <2>5, FinishedShape
  <2> QED BY <2>4, <2>6
<1> QED BY <1>1, <1>4, <1>5, <1>6, <1>7, <1>8, VariantEach DEF Taskless

\* The listing puts the tie of the answer back in its order.
LEMMA ListedAsWritten ==
  ASSUME NEW d, d \in Aggregate, d.run = "COMPLETED", d.stop # RestartReason,
         NEW N \in Nat, N >= 2, Len(d.trace) = N, d.trace[N] = "RunStopped",
         \A i \in 1..N : d.trace[i] = "RunStopped" => i = N,
         d.task # NoRow => d.trace[N - 1] = "TaskStateChanged",
         NEW history \in Arrangements(d)
  PROVE  Listed(d, history) = d.trace
<1> DEFINE t == d.trace
           tied == Terminal(d)
<1>1. t \in Seq(TraceEventType) /\ DOMAIN t = 1..N /\ t = [i \in 1..N |-> t[i]]
  BY DEF Aggregate
<1>2. tied = (N - (IF d.task # NoRow THEN 1 ELSE 0))..N
  <2>1. (CHOOSE i \in DOMAIN d.trace : d.trace[i] = "RunStopped") = N
    BY <1>1
  <2> QED BY <2>1 DEF Terminal
<1>3. PICK p \in {q \in [tied -> tied] : \A i, j \in tied : q[i] = q[j] => i = j} :
        history = [i \in DOMAIN d.trace |-> IF i \in tied THEN d.trace[p[i]] ELSE d.trace[i]]
  BY DEF Arrangements
<1>4. /\ p \in [tied -> tied] /\ \A i, j \in tied : p[i] = p[j] => i = j
      /\ history = [i \in 1..N |-> IF i \in tied THEN t[p[i]] ELSE t[i]]
  BY <1>1, <1>3
<1>5. /\ NormalTie(d, history) <=> /\ {history[i] : i \in tied} = {"TaskStateChanged", "RunStopped"}
                                   /\ Cardinality(tied) = 2
      /\ Listed(d, history)
           = IF NormalTie(d, history)
             THEN [history EXCEPT ![Min(tied)] = "TaskStateChanged", ![Max(tied)] = "RunStopped"]
             ELSE history
  BY DEF NormalTie, Listed
<1>6. d.trace[N] = "RunStopped" /\ t[N] = "RunStopped"
  OBVIOUS
<1>7. d.task # NoRow => t[N - 1] = "TaskStateChanged"
  OBVIOUS
<1>8. Listed(d, history) = d.trace <=> Listed(d, history) = t
  OBVIOUS
<1> HIDE DEF t, tied
<1>9. CASE d.task = NoRow
  <2>1. tied = {N}
    BY <1>2, <1>9
  <2>2. Cardinality(tied) = 1
    BY <2>1, SmallSets, Zenon
  <2>3. p[N] = N
    BY <1>4, <2>1
  <2>4. history = t
    BY <1>1, <1>4, <2>1, <2>3
  <2> QED BY <1>5, <1>8, <2>2, <2>4
<1>10. CASE d.task # NoRow
  <2> DEFINE a == N - 1
  <2>1. a \in 1..N /\ a # N /\ a \in Nat /\ a < N /\ t[a] = "TaskStateChanged"
    BY <1>7, <1>10
  <2>2. tied = {a, N}
    BY <1>2, <1>10
  <2> HIDE DEF a
  <2>3. Cardinality(tied) = 2
    BY <2>1, <2>2, TwoAndThree
  <2>4. {p[a], p[N]} = {a, N}
    BY <1>4, <2>1, <2>2
  <2>5. history[a] = t[p[a]] /\ history[N] = t[p[N]]
    BY <1>4, <2>1, <2>2
  <2>6. {history[i] : i \in tied} = {"TaskStateChanged", "RunStopped"}
    <3>1. {history[i] : i \in tied} = {history[a], history[N]}
      BY <2>2
    <3>2. \/ p[a] = a /\ p[N] = N
          \/ p[a] = N /\ p[N] = a
      BY <2>1, <2>4
    <3> QED BY <1>6, <2>1, <2>5, <3>1, <3>2
  <2>7. Min(tied) = a /\ Max(tied) = N
    <3>1. a \in tied /\ N \in tied /\ \A y \in tied : y = a \/ y = N
      BY <2>2
    <3>2. (\A y \in tied : a <= y) /\ (\A y \in tied : N >= y)
      BY <2>1, <3>1
    <3> DEFINE low == Min(tied)
               high == Max(tied)
    <3>3. low \in tied /\ \A y \in tied : low <= y
      BY <3>1, <3>2 DEF Min
    <3>4. high \in tied /\ \A y \in tied : high >= y
      BY <3>1, <3>2 DEF Max
    <3> HIDE DEF low, high
    <3>5. low = a /\ high = N
      BY <2>1, <3>1, <3>3, <3>4
    <3> QED BY <3>5 DEF low, high
  <2>8. Listed(d, history) = [history EXCEPT ![a] = "TaskStateChanged", ![N] = "RunStopped"]
    BY <1>5, <2>3, <2>6, <2>7
  <2>9. [history EXCEPT ![a] = "TaskStateChanged", ![N] = "RunStopped"] = t
    <3> DEFINE u == [history EXCEPT ![a] = "TaskStateChanged", ![N] = "RunStopped"]
    <3>1. u = [i \in 1..N |-> u[i]]
      BY <1>4
    <3>2. \A i \in 1..N : u[i] = t[i]
      BY <1>4, <1>6, <2>1, <2>2
    <3> HIDE DEF u
    <3>3. u = t
      BY <1>1, <3>1, <3>2
    <3> QED BY <3>3 DEF u
  <2> QED BY <1>8, <2>8, <2>9
<1> QED BY <1>9, <1>10

\* What the grader is given.
LEMMA FinalShape ==
  ASSUME NEW d, d \in Aggregate, NEW n, NEW k, Shaped(n, k), TraceShape(d, n, k)
  PROVE  HasShape(Events(Append(d.trace, "EvalCaseGraded")), n, k, d.tool)
<1> DEFINE N == Size(n, k)
           t == Append(d.trace, "EvalCaseGraded")
           S == TraceEventType \cup {"EvalCaseGraded"}
           E == Events(t)
           s == d.trace
           x == "EvalCaseGraded"
<1>1. /\ N \in Nat /\ N >= 7 /\ n < N /\ (n >= 17 => N > 17)
      /\ Len(s) = N - 1 /\ TypeAt(N, n, k, d.tool) = x
  BY DEF TraceShape, Shaped, Size, TypeAt
<1>2. s \in Seq(S)
  BY DEF Aggregate
<1>3. \A i \in 1..(N - 1) : s[i] = TypeAt(i, n, k, d.tool)
  BY DEF TraceShape
<1>4. x \in S /\ t = Append(s, x)
  OBVIOUS
<1> HIDE DEF S, s, x
<1>5. /\ Append(s, x) \in Seq(S) /\ Len(Append(s, x)) = Len(s) + 1
      /\ \A i \in 1..Len(s) : Append(s, x)[i] = s[i]
      /\ Append(s, x)[Len(s) + 1] = x
  BY ONLY <1>2, <1>4, AppendProperties
<1> HIDE DEF t, N
<1>6. Len(t) = N /\ DOMAIN t = 1..N
  <2>1. t \in Seq(S)
    BY <1>4, <1>5
  <2>2. Len(t) = N
    BY <1>1, <1>4, <1>5
  <2> QED BY <2>1, <2>2
<1>7. \A i \in 1..N : t[i] = TypeAt(i, n, k, d.tool)
  <2>1. \A i \in 1..N : i \in 1..(N - 1) \/ i = N
    BY <1>1
  <2>2. \A i \in 1..(N - 1) : t[i] = s[i]
    BY <1>1, <1>4, <1>5
  <2>3. t[N] = x
    <3>1. Len(s) + 1 = N
      BY <1>1
    <3> QED BY <1>4, <1>5, <3>1
  <2> QED BY <1>1, <1>3, <2>1, <2>2, <2>3
<1>8. \A i \in 1..N :
        (t[i] = "ContextManifestRecorded") <=> (i = 4 \/ (i = 17 /\ n >= 17))
  BY <1>7, PlaceOfType DEF TypePlaced, N
<1>9. /\ DOMAIN E = 1..N
      /\ \A i \in 1..N :
           /\ E[i].type = t[i]
           /\ E[i].purpose = IF t[i] # "ContextManifestRecorded" THEN "NONE"
                             ELSE IF \E j \in 1..(i - 1) : t[j] = t[i] THEN "PRESENTATION"
                             ELSE "REQUEST_UNDERSTANDING"
  BY <1>6 DEF Events
<1> HIDE DEF E
<1>10. ASSUME NEW i \in 1..N, t[i] = "ContextManifestRecorded"
       PROVE  (\E j \in 1..(i - 1) : t[j] = t[i]) <=> i # 4
  <2>1. i = 4 \/ i = 17
    BY <1>8, <1>10
  <2>2. CASE i = 4
    <3>1. \A j \in 1..(i - 1) : t[j] # "ContextManifestRecorded"
      BY <1>1, <1>8, <2>2
    <3> QED BY <1>10, <2>2, <3>1
  <2>3. CASE i = 17
    <3>1. 4 \in 1..(i - 1) /\ t[4] = "ContextManifestRecorded"
      BY <1>1, <1>8, <2>3
    <3> QED BY <1>10, <2>3, <3>1
  <2> QED BY <2>1, <2>2, <2>3
<1>11. \A i \in 1..N :
         E[i].purpose = IF E[i].type # "ContextManifestRecorded" THEN "NONE"
                        ELSE IF i = 4 THEN "REQUEST_UNDERSTANDING" ELSE "PRESENTATION"
  BY <1>9, <1>10
<1> QED BY <1>7, <1>9, <1>11 DEF HasShape, N, E, t

LEMMA AnswerPasses ==
  ASSUME NEW d, Kept(d), Truthful(d), Finished(d), d.run = "COMPLETED",
         NEW history \in Arrangements(d), NEW v \in Candidates(d)
  PROVE  GraderPasses(FinalTrace(d, history), d.stop, v)
<1>1. PICK n, k : VariantShape(v, n, k, d.tool) /\ TraceShape(d, n, k)
  BY CandidateShape
<1>2. v \in Variant /\ Shaped(n, k) /\ Ranked(v, n, k, d.tool)
  <2> DEFINE tool == d.tool
  <2> HIDE DEF tool
  <2>1. VariantShape(v, n, k, tool)
    BY <1>1 DEF tool
  <2>2. v \in Variant /\ Shaped(n, k) /\ Ranked(v, n, k, tool)
    BY <2>1, VariantRanked
  <2> QED BY <2>2 DEF tool
<1>3. ExpectedStop[v] = d.stop
  BY DEF Candidates
<1>4. d.stop # RestartReason
  BY <1>2, <1>3, GradedReason DEF CompletionReason, RestartReason
<1> DEFINE N == Size(n, k) - 1
<1>5. N \in Nat /\ N >= 2 /\ Len(d.trace) = N
  BY <1>1, <1>2 DEF TraceShape, Shaped, Size
<1>6. \A i \in 1..N : d.trace[i] = TypeAt(i, n, k, d.tool)
  BY <1>1 DEF TraceShape
<1>7. d.trace[N] = "RunStopped" /\ \A i \in 1..N : d.trace[i] = "RunStopped" => i = N
  <2> DEFINE tool == d.tool
  <2> HIDE DEF tool
  <2>1. TypeAt(N, n, k, tool) = "RunStopped"
    BY <1>2 DEF TypeAt, Shaped, Size
  <2>2. \A i \in 1..N : TypePlaced(i, n, k, tool)
    BY <1>2, PlaceOfType DEF Shaped, Size
  <2>3. RankTable(n, k)
    BY RankEach
  <2>4. \A i \in 1..N : TypeAt(i, n, k, tool) = "RunStopped" => i = N
    BY <2>2, <2>3 DEF TypePlaced, RankTable
  <2> QED BY <1>5, <1>6, <2>1, <2>4 DEF tool
<1>8. d.task # NoRow => d.trace[N - 1] = "TaskStateChanged"
  BY <1>1, <1>2, <1>6 DEF TraceShape, TypeAt, Shaped, Size
<1> HIDE DEF N
<1>9. Listed(d, history) = d.trace
  BY <1>4, <1>5, <1>7, <1>8, ListedAsWritten DEF Kept
<1>10. HasShape(Events(Append(d.trace, "EvalCaseGraded")), n, k, d.tool)
  BY <1>1, <1>2, FinalShape DEF Kept
<1> DEFINE E == FinalTrace(d, history)
           tool == d.tool
<1>11. HasShape(E, n, k, tool)
  BY <1>9, <1>10 DEF FinalTrace
<1> HIDE DEF E, tool
<1>12. Ranked(v, n, k, tool)
  BY <1>2 DEF tool
<1>13. GraderPasses(E, ExpectedStop[v], v)
  BY <1>2, <1>11, <1>12, RankedPasses
<1> QED BY <1>3, <1>13 DEF E

\* The Trace of every answered Run passes the grader as each variant of its
\* stop reason, in whatever order the table lists the terminal transaction.
THEOREM AnsweredTracePassesHolds == Spec => []AnsweredTracePasses
<1>1. IndInv /\ TraceTellsTruth /\ StoryInv => AnsweredTracePasses
  <2> SUFFICES ASSUME IndInv, TraceTellsTruth, StoryInv, NEW r \in Runs,
                      db[r].run = "COMPLETED", NEW history \in Arrangements(db[r]),
                      NEW v \in Candidates(db[r])
               PROVE  GraderPasses(FinalTrace(db[r], history), db[r].stop, v)
    BY DEF AnsweredTracePasses
  <2>1. Kept(db[r]) /\ Truthful(db[r])
    BY IndInvGood DEF Good, TraceTellsTruth, Truthful
  <2>2. Finished(db[r])
    BY DEF StoryInv, Storied
  <2> QED BY <2>1, <2>2, AnswerPasses
<1> QED BY <1>1, AgentRunInvariant, TraceTellsTruthHolds, StoryInvariant, PTL

================================================================================
