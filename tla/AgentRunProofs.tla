---------------------------- MODULE AgentRunProofs ----------------------------
(***************************************************************************)
(* AgentRun keeps IndInv, hence the safety invariants of AgentRunSafety,   *)
(* for every set of Runs and processes and every number of faults; a       *)
(* verdict is final, and AgentRun implements RunLifecycle.                 *)
(*                                                                         *)
(* A step changes the handler and the records of one Run.  Good says what  *)
(* IndInv says of one handler and its records; the lemmas below show, per  *)
(* call of the record port, that the pair it leaves is Good again.         *)
(***************************************************************************)
EXTENDS AgentRunSafety, TLAPS

-------------------------------------------------------------------------------
(* Every write of RunRecords keeps the type and the consistency of the     *)
(* aggregate it applies to, under the condition the adapter checks.        *)

(* Appending one event to a Trace.                                          *)

\* Appending any other event neither adds nor loses a RunStopped event.
LEMMA AppendOther ==
  ASSUME NEW T, NEW s \in Seq(T), NEW x \in T, NEW e, x # e
  PROVE  /\ Append(s, x) \in Seq(T)
         /\ Never(s, e) => Never(Append(s, x), e)
         /\ Once(s, e) => Once(Append(s, x), e)
  BY DEF Never, Once

\* The first event of its kind occurs once.
LEMMA AppendFirst ==
  ASSUME NEW T, NEW s \in Seq(T), NEW e \in T, Never(s, e)
  PROVE  Append(s, e) \in Seq(T) /\ Once(Append(s, e), e)
  BY DEF Never, Once

-------------------------------------------------------------------------------
(* The writes.                                                              *)

\* The definitions almost every write needs.
Kept(d) == d \in Aggregate /\ Consistent(d)

\* A Run nobody has inserted yet.
LEMMA NoRecordsKept == Kept(NoRecords)
  BY DEF Kept, NoRecords, Aggregate, Consistent, GraphConsistent,
         ToolConsistent, Evidence, Never, NoRow, Projection, RunStatus,
         ActiveRun, TerminalRun, ActiveToolCall, ActiveTask, TaskStatus

\* insert_run.
LEMMA RunInsertedKept ==
  ASSUME NEW d, Kept(d), d.run = "ABSENT"
  PROVE  Kept(RunInserted(d))
  BY DEF Kept, RunInserted, Aggregate, Consistent, GraphConsistent,
         ToolConsistent, Evidence, RunStatus, ActiveRun, TerminalRun,
         ActiveToolCall

\* start_run_if_created.
LEMMA RunStartedKept ==
  ASSUME NEW d, Kept(d), RunStartable(d)
  PROVE  Kept(RunStarted(d))
  BY DEF Kept, RunStarted, RunStartable, Aggregate, Consistent,
         GraphConsistent, ToolConsistent, Evidence, RunStatus, ActiveRun,
         TerminalRun, ActiveToolCall

\* create_initial_task_graph_v2_if_current.
LEMMA GraphCreatedKept ==
  ASSUME NEW d, Kept(d), GraphCreatable(d)
  PROVE  Kept(GraphCreated(d))
  BY DEF Kept, GraphCreated, GraphCreatable, Aggregate, Consistent,
         GraphConsistent, ToolConsistent, Evidence, RunStatus, ActiveRun,
         TerminalRun, ActiveToolCall, InitialRow, NoRow, Projection,
         TaskStatus, ActiveTask

\* apply_task_transition_if_current, as the runtime-fault hook uses it: before
\* any ToolCall, and while the handler that calls it has not closed the Run.
LEMMA TaskTransitionedKept ==
  ASSUME NEW d, Kept(d), TransitionApplies(d, InitialRow, InitialRow),
         d.run \in {"RUNNING", "INCOMPLETE"}, d.tool = "ABSENT"
  PROVE  Kept(TaskTransitioned(d, InitialRow, InitialRow, "WAITING_USER"))
<1> DEFINE e == TaskTransitioned(d, InitialRow, InitialRow, "WAITING_USER")
<1>1. /\ d \in Aggregate /\ d.task = InitialRow
      /\ GraphConsistent(d) /\ ToolConsistent(d) /\ Evidence(d)
  BY DEF Kept, Consistent, TransitionApplies
<1>2. e = [d EXCEPT !.task = WaitingRow, !.unit = WaitingRow]
  BY DEF TaskTransitioned, WaitingRow
<1>3. WaitingRow \in Projection /\ WaitingRow # NoRow /\ InitialRow # NoRow
  BY DEF WaitingRow, Moved, InitialRow, Projection, NoRow, TaskStatus, ActiveTask
<1>4. d.run = "RUNNING"
  BY <1>1 DEF GraphConsistent, InitialRow, ActiveTask
<1> HIDE DEF e
<1>5. GraphConsistent(e)
  BY <1>1, <1>2, <1>3, <1>4 DEF GraphConsistent, Aggregate, TerminalRun
<1>6. ToolConsistent(e)
  BY <1>1, <1>2 DEF ToolConsistent, Aggregate, ActiveToolCall
<1>7. Evidence(e) /\ e \in Aggregate
  BY <1>1, <1>2, <1>3 DEF Evidence, Aggregate
<1> QED BY <1>5, <1>6, <1>7 DEF Kept, Consistent, e

\* save_context_manifest, save_gate_decision and append_trace_event: no event
\* they append is RunStopped.
LEMMA WrittenKept ==
  ASSUME NEW d, Kept(d), NEW w \in Document \cup TraceEventType,
         w # "RunStopped"
  PROVE  Kept(Written(d, w))
<1>1. CASE w \in Document
  BY <1>1 DEF Kept, Written, Aggregate, Consistent, GraphConsistent,
              ToolConsistent, Evidence
<1>2. CASE w \notin Document
  <2>1. w \in TraceEventType /\ d.trace \in Seq(TraceEventType)
    BY <1>2 DEF Kept, Aggregate
  <2>2. /\ Append(d.trace, w) \in Seq(TraceEventType)
        /\ Never(d.trace, "RunStopped") => Never(Append(d.trace, w), "RunStopped")
        /\ Once(d.trace, "RunStopped") => Once(Append(d.trace, w), "RunStopped")
    BY <2>1, AppendOther
  <2> DEFINE e == Written(d, w)
  <2>3. e = [d EXCEPT !.trace = Append(d.trace, w)]
    BY <1>2 DEF Written
  <2>4. d \in Aggregate /\ Consistent(d)
    BY DEF Kept
  <2> HIDE DEF e
  <2>5. e \in Aggregate /\ Evidence(e)
    BY <2>2, <2>3, <2>4 DEF Aggregate, Consistent, Evidence
  <2>6. GraphConsistent(e) /\ ToolConsistent(e)
    BY <2>3, <2>4 DEF Aggregate, Consistent, GraphConsistent, ToolConsistent
  <2> QED BY <2>5, <2>6 DEF Kept, Consistent, e
<1> QED BY <1>1, <1>2

\* insert_tool_call: the Task of a RUNNING Run is the one the Gate validated.
LEMMA ToolCallInsertedKept ==
  ASSUME NEW d, Kept(d), ToolCallInsertable(d), d.task = InitialRow
  PROVE  Kept(ToolCallInserted(d, InitialRow.version))
  BY DEF Kept, ToolCallInsertable, ToolCallInserted, Aggregate, Consistent,
         GraphConsistent, ToolConsistent, Evidence, ToolCallStatus,
         ActiveToolCall, InitialRow, NoRow

\* start_tool_call_if_created.
LEMMA ToolCallStartedKept ==
  ASSUME NEW d, Kept(d), ToolCallStartable(d)
  PROVE  Kept(ToolCallStarted(d)) /\ ToolCallStarted(d).attempts = 1
<1> DEFINE e == ToolCallStarted(d)
<1>1. d \in Aggregate /\ Consistent(d) /\ d.tool = "CREATED" /\ d.attempts = 0
  BY DEF Kept, Consistent, ToolConsistent, ToolCallStartable
<1>2. e = [d EXCEPT !.tool = "RUNNING", !.attempts = 1]
  BY <1>1 DEF ToolCallStarted
<1> HIDE DEF e
<1>3. e \in Aggregate /\ e.attempts = 1
  <2>1. "RUNNING" \in ToolCallStatus /\ 1 \in 0..1
    BY DEF ToolCallStatus, ActiveToolCall
  <2> QED BY <1>1, <1>2, <2>1 DEF Aggregate
<1>4. GraphConsistent(e) /\ Evidence(e)
  BY <1>1, <1>2 DEF Aggregate, Consistent, GraphConsistent, Evidence
<1>5. ToolConsistent(e)
  BY <1>1, <1>2 DEF Aggregate, Consistent, ToolConsistent, ActiveToolCall
<1> QED BY <1>3, <1>4, <1>5 DEF Kept, Consistent, e

\* finalize_tool_call_attempt_if_running.
LEMMA ToolCallFinalizedKept ==
  ASSUME NEW d, Kept(d), ToolCallFinalizable(d),
         NEW status \in ToolCallStatus \ ActiveToolCall
  PROVE  Kept(ToolCallFinalized(d, status))
<1> DEFINE e == ToolCallFinalized(d, status)
<1>1. d \in Aggregate /\ Consistent(d) /\ d.tool = "RUNNING"
  BY DEF Kept, ToolCallFinalizable
<1>2. e = [d EXCEPT !.tool = status]
  BY DEF ToolCallFinalized
<1>3. d.attempts = 1 /\ d.link # "ABSENT" /\ ~d.observation
  BY <1>1 DEF Consistent, ToolConsistent, ActiveToolCall, Aggregate
<1> HIDE DEF e
<1>4. e \in Aggregate
  BY <1>1, <1>2 DEF Aggregate
<1>5. GraphConsistent(e) /\ Evidence(e)
  BY <1>1, <1>2 DEF Aggregate, Consistent, GraphConsistent, Evidence
<1>6. ToolConsistent(e)
  BY <1>1, <1>2, <1>3
  DEF Aggregate, ToolConsistent, ToolCallStatus, ActiveToolCall
<1> QED BY <1>4, <1>5, <1>6 DEF Kept, Consistent, e

\* save_observation.
LEMMA ObservationSavedKept ==
  ASSUME NEW d, Kept(d), ObservationSourced(d)
  PROVE  Kept(ObservationSaved(d))
  BY DEF Kept, ObservationSourced, ObservationSaved, Aggregate, Consistent,
         GraphConsistent, ToolConsistent, Evidence

\* finalize_run_if_active with status FAILED: no Task transition, no event.
LEMMA RunFailedKept ==
  ASSUME NEW d, Kept(d), NEW links \in {"ABSENT", "OPEN"}, NEW task,
         RunFinalizable(d, links, task, NoRow)
  PROVE  Kept(RunFailed(d, task))
  BY DEF Kept, RunFinalizable, RunFailed, LinkClosed, Aggregate, Consistent,
         GraphConsistent, ToolConsistent, Evidence, RunStatus, ActiveRun,
         TerminalRun, ActiveToolCall, Projection, NoRow

\* finalize_run_if_active with status COMPLETED.
LEMMA RunCompletedKept ==
  ASSUME NEW d, Kept(d), NEW links \in {"ABSENT", "OPEN"}, NEW task, NEW unit,
         RunFinalizable(d, links, task, unit),
         links = "OPEN" => unit # NoRow,
         NEW stop \in CompletionReason
  PROVE  Kept(RunCompleted(d, stop, task, unit))
<1> DEFINE t == d.trace
           u == Append(t, "TaskStateChanged")
<1>1. t \in Seq(TraceEventType) /\ Never(t, "RunStopped") /\ d.run = "RUNNING"
  BY DEF Kept, Aggregate, Consistent, Evidence, RunFinalizable
<1>2. u \in Seq(TraceEventType) /\ Never(u, "RunStopped")
  BY <1>1, AppendOther DEF TraceEventType
<1>3. /\ Append(t, "RunStopped") \in Seq(TraceEventType)
      /\ Once(Append(t, "RunStopped"), "RunStopped")
  BY <1>1, AppendFirst DEF TraceEventType
<1>4. /\ Append(u, "RunStopped") \in Seq(TraceEventType)
      /\ Once(Append(u, "RunStopped"), "RunStopped")
  BY <1>2, AppendFirst DEF TraceEventType
<1>5. CASE d.link = "OPEN"
  <2>1. task = d.task /\ unit = d.task
    BY <1>5 DEF RunFinalizable, Kept, Consistent, GraphConsistent
  <2>2. RunCompleted(d, stop, task, unit) =
          [d EXCEPT !.run = "COMPLETED", !.stop = stop, !.reply = TRUE,
                    !.link = "CLOSED", !.resultVersion = d.task.version + 1,
                    !.task = Moved(d.task, TargetStatus(stop)),
                    !.unit = Moved(d.task, TargetStatus(stop)),
                    !.trace = Append(u, "RunStopped")]
    BY <1>5, <2>1 DEF RunCompleted, LinkClosed, TaskTransitioned, Kept,
                      Aggregate
  <2>3. Moved(d.task, TargetStatus(stop)) \in Projection
    BY DEF Moved, TargetStatus, Projection, TaskStatus, Kept, Aggregate
  <2>4. Moved(d.task, TargetStatus(stop)) # NoRow
    BY DEF Moved, TargetStatus, NoRow
  <2>5. Moved(d.task, TargetStatus(stop)).version = d.task.version + 1
        /\ d.task.version + 1 \in Nat
    BY DEF Moved, Kept, Aggregate, Projection
  <2> DEFINE m == Moved(d.task, TargetStatus(stop))
             e == RunCompleted(d, stop, task, unit)
  <2>6. /\ e \in Aggregate
        /\ e.run = "COMPLETED" /\ e.stop = stop /\ e.reply
        /\ e.link = "CLOSED" /\ e.resultVersion = m.version
        /\ e.task = m /\ e.unit = m
        /\ e.trace = Append(u, "RunStopped")
        /\ e.tool = d.tool /\ e.attempts = d.attempts
        /\ e.observation = d.observation
    <3> HIDE DEF m, u
    <3> QED BY <1>4, <2>2, <2>3, <2>5
            DEF m, Kept, Aggregate, RunStatus, TerminalRun, StopReason
  <2> HIDE DEF m, u, e
  <2>7. GraphConsistent(e)
    BY <2>4, <2>6 DEF GraphConsistent, TerminalRun, m
  <2>8. ToolConsistent(e)
    BY <1>5, <2>6 DEF ToolConsistent, Kept, Consistent, RunFinalizable
  <2>9. Evidence(e)
    BY <1>4, <2>6 DEF Evidence
  <2> QED BY <2>6, <2>7, <2>8, <2>9 DEF Kept, Consistent, e
<1>6. CASE d.link # "OPEN"
  <2>1. RunCompleted(d, stop, task, unit) =
          [d EXCEPT !.run = "COMPLETED", !.stop = stop, !.reply = TRUE,
                    !.trace = Append(t, "RunStopped")]
    BY <1>6 DEF RunCompleted
  <2> QED
    BY <1>1, <1>3, <1>6, <2>1
    DEF Kept, RunFinalizable, Aggregate, Consistent, GraphConsistent,
        ToolConsistent, Evidence, RunStatus, TerminalRun, ActiveToolCall,
        StopReason
<1> QED BY <1>5, <1>6

\* claim_and_apply_restart_recovery.
LEMMA RecoveredKept ==
  ASSUME NEW d, Kept(d), Recoverable(d)
  PROVE  Kept(Recovered(d))
<1> DEFINE blocked == d.task.status \in ActiveTask
           cut     == d.tool \in ActiveToolCall
           task    == IF blocked THEN Moved(d.task, "BLOCKED") ELSE d.task
           stopped == Append(d.trace, "RunStopped")
           changed == IF blocked THEN Append(stopped, "TaskStateChanged")
                                 ELSE stopped
           trace   == IF cut THEN Append(changed, "ToolCallInterrupted")
                             ELSE changed
           e       == Recovered(d)
<1>1. /\ d \in Aggregate /\ d.run \in ActiveRun /\ d.unit = d.task
      /\ GraphConsistent(d) /\ ToolConsistent(d) /\ Evidence(d)
  BY DEF Kept, Consistent, GraphConsistent, Recoverable
<1>2. d.trace \in Seq(TraceEventType) /\ Never(d.trace, "RunStopped")
  BY <1>1 DEF Aggregate, Evidence, ActiveRun
<1>3. stopped \in Seq(TraceEventType) /\ Once(stopped, "RunStopped")
  BY <1>2, AppendFirst DEF TraceEventType
<1>4. changed \in Seq(TraceEventType) /\ Once(changed, "RunStopped")
  <2> HIDE DEF stopped
  <2>1. "TaskStateChanged" \in TraceEventType
    BY DEF TraceEventType
  <2> QED BY <1>3, <2>1, AppendOther
<1>5. trace \in Seq(TraceEventType) /\ Once(trace, "RunStopped")
  <2> HIDE DEF changed
  <2>1. "ToolCallInterrupted" \in TraceEventType
    BY DEF TraceEventType
  <2> QED BY <1>4, <2>1, AppendOther
<1>6. /\ task \in Projection
      /\ task = NoRow <=> d.task = NoRow
      /\ task.status \notin ActiveTask
  BY <1>1 DEF Moved, Aggregate, Projection, TaskStatus, ActiveTask, NoRow
<1>7. /\ e.run = "INCOMPLETE" /\ e.stop = RestartReason
      /\ e.task = task /\ e.unit = task /\ e.trace = trace
      /\ e.link = IF d.link = "OPEN" THEN "CLOSED" ELSE d.link
      /\ e.resultVersion = IF d.link = "OPEN" THEN task.version
                                              ELSE d.resultVersion
      /\ e.tool = IF cut THEN "INTERRUPTED" ELSE d.tool
      /\ e.attempts = d.attempts
      /\ e.observation = d.observation /\ e.reply = d.reply
      /\ e \in Aggregate
  <2>1. /\ RestartReason \in StopReason
        /\ "INCOMPLETE" \in RunStatus /\ "INTERRUPTED" \in ToolCallStatus
    BY DEF StopReason, RunStatus, TerminalRun, ToolCallStatus
  <2>2. task.version \in Nat
    BY <1>6 DEF Projection
  <2>3. e = [LinkClosed(d, task.version) EXCEPT
               !.run = "INCOMPLETE", !.stop = RestartReason,
               !.task = task, !.unit = task,
               !.tool = IF cut THEN "INTERRUPTED" ELSE @,
               !.trace = trace]
    BY <1>1 DEF Recovered
  <2> HIDE DEF e, task, trace, cut
  <2> QED BY <1>1, <1>5, <1>6, <2>1, <2>2, <2>3 DEF LinkClosed, Aggregate
<1> HIDE DEF e, trace, changed, stopped
<1>8. GraphConsistent(e)
  <2> HIDE DEF task
  <2> QED BY <1>1, <1>6, <1>7
          DEF GraphConsistent, ActiveRun, TerminalRun, Aggregate
<1>9. ToolConsistent(e)
  BY <1>1, <1>7 DEF ToolConsistent, ActiveToolCall, Aggregate, ToolCallStatus
<1>10. Evidence(e)
  BY <1>1, <1>5, <1>7 DEF Evidence, ActiveRun
<1> QED BY <1>7, <1>8, <1>9, <1>10 DEF Kept, Consistent, e

-------------------------------------------------------------------------------
(* The handler and the records of its Run.                                 *)

\* What IndInv says of one handler and the records of its Run.
Good(l, d) ==
  /\ l \in Handler /\ Kept(d)
  /\ Stage(l, d) /\ ToolAt(l, d) /\ ReadAt(l, d)

Frame ==
  /\ phase \in [Procs -> Phase]
  /\ claim \in [Procs -> [run: Runs \cup {NoRun}, seen: ClosureType]]
  /\ faults \in 0..MaxFaults

\* IndInv, Run by Run.
LEMMA IndInvGood ==
  IndInv <=> /\ db \in [Runs -> Aggregate] /\ h \in [Runs -> Handler]
             /\ Frame
             /\ \A r \in Runs : Good(h[r], db[r])
  BY DEF IndInv, TypeOK, Good, Kept, Frame

\* A step of one Run.
Sound(r) ==
  \E l, d :
    /\ Good(l, d)
    /\ h' = [h EXCEPT ![r] = l]
    /\ db' = [db EXCEPT ![r] = d]

\* A step that leaves one Run Good and the rest alone keeps IndInv.
LEMMA SoundStep ==
  ASSUME IndInv, NEW r \in Runs, Sound(r), Frame'
  PROVE  IndInv'
<1>1. PICK l, d : /\ Good(l, d)
                  /\ h' = [h EXCEPT ![r] = l]
                  /\ db' = [db EXCEPT ![r] = d]
  BY DEF Sound
<1>2. /\ db \in [Runs -> Aggregate] /\ h \in [Runs -> Handler]
      /\ \A q \in Runs : Good(h[q], db[q])
  BY IndInvGood
<1>3. l \in Handler /\ d \in Aggregate
  BY <1>1 DEF Good, Kept
<1>4. db' \in [Runs -> Aggregate] /\ h' \in [Runs -> Handler]
  BY <1>1, <1>2, <1>3
<1>5. ASSUME NEW q \in Runs PROVE Good(h'[q], db'[q])
  <2>1. CASE q = r
    BY <1>1, <1>2, <2>1
  <2>2. CASE q # r
    BY <1>1, <1>2, <2>2
  <2> QED BY <2>1, <2>2
<1>6. /\ TypeOK'
      /\ \A q \in Runs : Good(h'[q], db'[q])
  BY <1>4, <1>5 DEF TypeOK, Frame
<1> QED BY <1>6 DEF IndInv, Good, Kept

\* A step that writes nothing.
LEMMA LocalSound ==
  ASSUME IndInv, NEW r \in Runs, NEW l, Good(l, db[r]), Local(r, l)
  PROVE  IndInv'
<1>1. db \in [Runs -> Aggregate] /\ Frame
  BY IndInvGood
<1>2. h' = [h EXCEPT ![r] = l] /\ db' = [db EXCEPT ![r] = db[r]]
  BY <1>1 DEF Local
<1>3. Frame'
  BY <1>1 DEF Frame, Local
<1> QED BY <1>2, <1>3, SoundStep DEF Sound

\* A call of the record port.
LEMMA StoreCallSound ==
  ASSUME IndInv, NEW r \in Runs,
         NEW applies \in BOOLEAN, NEW committed, NEW ok, NEW refused, NEW error,
         StoreCall(r, applies, committed, ok, refused, error),
         applies => Good(ok, committed),
         ~applies => Good(refused, db[r]),
         Good(error, db[r]),
         applies => Good(error, committed)
  PROVE  IndInv'
<1>1. db \in [Runs -> Aggregate] /\ Frame
  BY IndInvGood
<1>2. db = [db EXCEPT ![r] = db[r]]
  BY <1>1
<1>3. Frame'
  BY <1>1, BoundAssumption DEF Frame, StoreCall, Fault
<1>4. Sound(r)
  BY <1>2 DEF Sound, StoreCall
<1> QED BY <1>3, <1>4, SoundStep

-------------------------------------------------------------------------------
(* The handler's own state.                                                 *)

\* The sets of points IndInv tells apart.
USE DEF UnstartedPoint, GraphlessPoint, DecidingPoint, GatePoint,
        AuthorizedPoint, InFlightPoint, ReadPoint, ObservedPoint, AnswerPoint,
        LoadedPoint, GraphPoint

\* Moving to another point changes nothing else.
LEMMA AtHandler ==
  ASSUME NEW l \in Handler, NEW p \in Point
  PROVE  At(l, p) \in Handler /\ At(l, p) = [l EXCEPT !.pc = p]
  BY DEF At, Handler

\* What is left of a handler that is closing its Run, ended or was never
\* started says nothing of the records but that a read is behind the fence.
ParkedPoint == ClosingPoint \cup {"raised", "dead"}

\* Such a handler is Good with any consistent records it did not outrun.
LEMMA ParkedGood ==
  ASSUME NEW l \in Handler, NEW d, Kept(d), l.pc \in ParkedPoint,
         l.reads = 1 => d.attempts = 1,
         d.observation => l.reads = 1
  PROVE  Good(l, d)
  BY DEF Good, ParkedPoint, ClosingPoint, Ended, Stage, ToolAt, ReadAt,
         EntryPoint, ServicePoint, PlainPoint, ExecutorPoint

\* An exception or cancellation.
LEMMA RaisedGood ==
  ASSUME NEW l \in Handler, NEW d, Kept(d),
         l.reads = 1 => d.attempts = 1,
         d.observation => l.reads = 1
  PROVE  Good(Raised(l), d)
<1>1. /\ Raised(l) \in Handler /\ Raised(l).reads = l.reads
      /\ Raised(l).pc \in ParkedPoint
  BY DEF Raised, At, Handler, Point, Ended, ClosingPoint, ParkedPoint
<1> QED BY <1>1, ParkedGood

\* An exception that follows no write.
LEMMA RaisedStays ==
  ASSUME NEW l, NEW d, Good(l, d)
  PROVE  Good(Raised(l), d)
  BY RaisedGood DEF Good, ReadAt

\* A point of the service or the executor, with the facts Stage attaches to it.
LEMMA RunningStage ==
  ASSUME NEW l, NEW d, Good(l, d), l.pc \in ServicePoint \cup ExecutorPoint
  PROVE  /\ l \in Handler /\ d \in Aggregate /\ Kept(d)
         /\ GraphConsistent(d) /\ ToolConsistent(d)
         /\ l.running /\ d.run \in {"RUNNING", "INCOMPLETE"}
         /\ l.reads = 1 => d.attempts = 1
         /\ d.observation => l.reads = 1
  BY DEF Good, Kept, Consistent, Stage, ReadAt

-------------------------------------------------------------------------------
(* From the message to the Task graph.                                      *)

\* handle is called: the Run does not exist yet.
LEMMA AcceptSound ==
  ASSUME IndInv, NEW r \in Runs, NEW p \in Procs, Accept(r, p)
  PROVE  IndInv'
<1> DEFINE l == [h[r] EXCEPT !.pc = "intake", !.host = p]
<1>1. Good(h[r], db[r]) /\ h[r].pc = "idle" /\ Local(r, l)
  BY IndInvGood DEF Accept
<1>2. l \in Handler
  BY <1>1 DEF Good, Handler, Point, EntryPoint
<1>3. Good(l, db[r])
  BY <1>1, <1>2 DEF Good, Handler, Stage, ToolAt, ReadAt, EntryPoint,
                    ServicePoint, PlainPoint, ExecutorPoint
<1> HIDE DEF l
<1> QED BY <1>1, <1>3, LocalSound

\* The Run row does not exist before insert_run and is CREATED or RUNNING
\* after start_run.
LEMMA EntrySound ==
  ASSUME IndInv, NEW r \in Runs, Intake(r) \/ InsertRun(r) \/ StartRun(r)
  PROVE  IndInv'
<1> DEFINE l == h[r]
           d == db[r]
<1>1. Good(l, d) /\ l \in Handler /\ Kept(d)
  BY IndInvGood DEF Good
<1>2. /\ l.pc \in EntryPoint => l.cursor = NoRow /\ ~l.running
      /\ l.pc \in UnstartedPoint => d.run = "ABSENT"
      /\ l.pc \in EntryPoint => l.reads = 0 /\ ~d.observation
  BY <1>1 DEF Good, Stage, ReadAt, EntryPoint, Handler, Kept, Aggregate
<1> HIDE DEF l, d
<1>3. CASE Intake(r)
  <2>1. l.pc = "intake"
    BY <1>3 DEF Intake, l
  <2>2. Good(At(l, "insert_run"), d)
    BY <1>1, <1>2, <2>1, AtHandler
    DEF Good, Handler, Stage, ToolAt, ReadAt, Point, EntryPoint,
        ServicePoint, PlainPoint, ExecutorPoint
  <2>3. Good(Raised(l), d)
    BY <1>1, <1>2, <2>1, RaisedGood DEF EntryPoint
  <2>4. StoreCall(r, TRUE, d, At(l, "insert_run"), Raised(l), Raised(l))
    BY <1>3 DEF Intake, l, d
  <2> QED BY <2>2, <2>3, <2>4, StoreCallSound DEF d
<1>4. CASE InsertRun(r)
  <2>1. l.pc = "insert_run" /\ d.run = "ABSENT" /\ l.reads = 0
    BY <1>2, <1>4 DEF InsertRun, EntryPoint, l
  <2>2. Kept(RunInserted(d))
    BY <1>1, <2>1, RunInsertedKept
  <2>3. ~RunInserted(d).observation
    BY <1>1, <1>2, <2>1 DEF RunInserted, Kept, Aggregate, EntryPoint
  <2>4. Good(At(l, "start_run"), RunInserted(d))
    BY <1>1, <1>2, <2>1, <2>2, <2>3, AtHandler
    DEF Good, Handler, Stage, ToolAt, ReadAt, Point, EntryPoint,
        ServicePoint, PlainPoint, ExecutorPoint
  <2>5. Good(Raised(l), d) /\ Good(Raised(l), RunInserted(d))
    BY <1>1, <1>2, <2>1, <2>2, <2>3, RaisedGood DEF EntryPoint
  <2>6. StoreCall(r, d.run = "ABSENT", RunInserted(d), At(l, "start_run"),
                  Raised(l), Raised(l))
    BY <1>4 DEF InsertRun, l, d
  <2> QED BY <2>4, <2>5, <2>6, StoreCallSound DEF d
<1>5. CASE StartRun(r)
  <2> DEFINE ok == [l EXCEPT !.pc = "message_accepted", !.running = TRUE]
  <2>1. l.pc = "start_run" /\ l.reads = 0 /\ l.cursor = NoRow /\ ~d.observation
    BY <1>2, <1>5 DEF StartRun, EntryPoint, l
  <2>2. ASSUME RunStartable(d)
        PROVE  /\ Kept(RunStarted(d)) /\ ~RunStarted(d).observation
               /\ RunStarted(d).run = "RUNNING"
               /\ RunStarted(d).link = "ABSENT"
    BY <1>1, <2>1, <2>2, RunStartedKept
    DEF RunStarted, RunStartable, Kept, Consistent, GraphConsistent, Aggregate
  <2>3. ok \in Handler
    BY <1>1 DEF Handler, Point, ServicePoint, PlainPoint
  <2>4. ASSUME RunStartable(d) PROVE Good(ok, RunStarted(d))
    BY <1>1, <2>1, <2>2, <2>3, <2>4
    DEF Good, Handler, Stage, ToolAt, ReadAt, Point, EntryPoint,
        ServicePoint, PlainPoint, ExecutorPoint
  <2>5. Good(Raised(l), d) /\ (RunStartable(d) => Good(Raised(l), RunStarted(d)))
    BY <1>1, <2>1, <2>2, RaisedGood
  <2>6. StoreCall(r, RunStartable(d), RunStarted(d), ok, Raised(l), Raised(l))
    BY <1>5 DEF StartRun, l, d
  <2>7. RunStartable(d) \in BOOLEAN
    BY DEF RunStartable
  <2> HIDE DEF ok
  <2> QED BY <2>4, <2>5, <2>6, <2>7, StoreCallSound DEF d
<1> QED BY <1>3, <1>4, <1>5

-------------------------------------------------------------------------------
(* Documents and Trace events.                                              *)

\* Stage, ToolAt and ReadAt say nothing of the documents and the Trace.
SameRecords(d, e) ==
  /\ e.run = d.run /\ e.stop = d.stop /\ e.task = d.task /\ e.unit = d.unit
  /\ e.link = d.link /\ e.tool = d.tool /\ e.attempts = d.attempts
  /\ e.observation = d.observation

\* Good carries over to records that differ only there.
LEMMA SameRecordsGood ==
  ASSUME NEW l, NEW d, NEW e, Good(l, d), Kept(e), SameRecords(d, e)
  PROVE  Good(l, e)
<1>1. Stage(l, e)
  BY DEF Good, SameRecords, Stage, InStep, Deserved, Entitled
<1>2. ToolAt(l, e) /\ ReadAt(l, e)
  BY DEF Good, SameRecords, ToolAt, ReadAt
<1> QED BY <1>1, <1>2 DEF Good

\* A document or Trace insert leaves the rest of the records alone.
LEMMA WrittenSame ==
  ASSUME NEW d \in Aggregate, NEW w
  PROVE  SameRecords(d, Written(d, w))
  BY DEF Written, SameRecords, Aggregate

\* One document or Trace event that is not RunStopped, and the handler goes on.
LEMMA WriteSound ==
  ASSUME IndInv, NEW r \in Runs, NEW w \in Document \cup TraceEventType,
         w # "RunStopped", NEW ok, NEW refused, NEW error,
         Good(ok, db[r]), Good(error, db[r]),
         StoreCall(r, TRUE, Written(db[r], w), ok, refused, error)
  PROVE  IndInv'
<1>1. Kept(db[r]) /\ db[r] \in Aggregate
  BY IndInvGood DEF Good
<1>2. Kept(Written(db[r], w))
  BY <1>1, WrittenKept
<1>3. Good(ok, Written(db[r], w)) /\ Good(error, Written(db[r], w))
  BY <1>1, <1>2, WrittenSame, SameRecordsGood
<1> QED BY <1>3, StoreCallSound

\* No plain point writes RunStopped: only terminal transactions do.
LEMMA WriteAtType ==
  ASSUME NEW l, l.pc \in PlainPoint
  PROVE  WriteAt(l) \in (Document \cup TraceEventType) \ {"RunStopped"}
  BY DEF WriteAt, TerminalEvent, Document, TraceEventType, PlainPoint

\* What the handler knows at a plain point it still knows at the next one.
LEMMA NextPointGood ==
  ASSUME NEW l, NEW d, Good(l, d), l.pc \in PlainPoint,
         NEW m, m = [l EXCEPT !.pc = NextPoint(l),
                              !.stop = IF l.pc = "tool_normalized"
                                          /\ l.outcome # "FOUND"
                                       THEN ReadStop(l.outcome) ELSE @]
  PROVE  Good(m, d)
<1>1. l \in Handler /\ Kept(d) /\ (d.observation => d.tool = "SUCCEEDED")
  BY DEF Good, Kept, Consistent, ToolConsistent
<1>2. m \in Handler
  <2>1. NextPoint(l) \in Point
    BY DEF NextPoint, Point, ServicePoint, ExecutorPoint, PlainPoint
  <2>2. ReadStop(l.outcome) \in CompletionReason
    BY DEF ReadStop, CompletionReason
  <2> QED BY <1>1, <2>1, <2>2 DEF Handler
<1>3. /\ m.pc = NextPoint(l) /\ m.running = l.running /\ m.cursor = l.cursor
      /\ m.task = l.task /\ m.unit = l.unit /\ m.outcome = l.outcome
      /\ m.reads = l.reads /\ m.result = l.result
      /\ m.stop = IF l.pc = "tool_normalized" /\ l.outcome # "FOUND"
                  THEN ReadStop(l.outcome) ELSE l.stop
  BY <1>1 DEF Handler
<1>4. /\ l.running /\ d.run \in {"RUNNING", "INCOMPLETE"}
      /\ m.pc \in ServicePoint \cup ExecutorPoint
  <2>1. NextPoint(l) \in ServicePoint \cup ExecutorPoint
    BY DEF NextPoint, ServicePoint, ExecutorPoint, PlainPoint
  <2> QED BY <1>3, <2>1 DEF Good, Stage, ServicePoint
<1>5. /\ l.reads = 1 => d.attempts = 1
      /\ d.observation => l.reads = 1
  BY DEF Good, ReadAt
<1>6. CASE l.pc \in GraphlessPoint
  <2>1. m.pc \in GraphlessPoint /\ l.cursor = NoRow /\ d.link = "ABSENT"
        /\ l.reads = 0
    BY <1>3, <1>6 DEF NextPoint, PlainPoint, Good, Stage, ReadAt
  <2> QED BY <1>1, <1>2, <1>3, <1>4, <1>5, <2>1
          DEF Good, Stage, ToolAt, ReadAt, EntryPoint
<1>7. CASE l.pc \in DecidingPoint
  <2>1. m.pc \in DecidingPoint /\ l.cursor # NoRow /\ d.link # "ABSENT"
        /\ l.reads = 0 /\ d.tool = "ABSENT"
    BY <1>3, <1>7 DEF NextPoint, PlainPoint, Good, Stage, ReadAt, ToolAt
  <2> QED BY <1>1, <1>2, <1>3, <1>4, <1>5, <2>1
          DEF Good, Stage, ToolAt, ReadAt, EntryPoint
<1>8. CASE l.pc = "gate_recorded"
  <2>1. /\ l.cursor # NoRow /\ d.link # "ABSENT" /\ l.reads = 0
        /\ d.tool = "ABSENT" /\ InStep(l, d)
        /\ l.stop # "GATE_REJECTED" => l.task = InitialRow
        /\ m.pc = IF l.stop = "GATE_REJECTED" THEN "response_rendered"
                                               ELSE "authorize"
        /\ m.stop = l.stop
    BY <1>3, <1>8 DEF NextPoint, Good, Stage, ReadAt, ToolAt
  <2> QED BY <1>1, <1>2, <1>3, <1>4, <1>5, <2>1
          DEF Good, Stage, ToolAt, ReadAt, EntryPoint, InStep, Deserved
<1>9. CASE l.pc \in ReadPoint
  <2>1. /\ l.cursor # NoRow /\ d.link # "ABSENT" /\ InStep(l, d)
        /\ l.outcome # "NONE" /\ d.tool = TerminalStatus(l.outcome)
        /\ l.outcome = "FOUND" => d.observation
    BY <1>9 DEF Good, Stage, ToolAt
  <2>2. CASE l.pc # "tool_normalized"
    <3>1. m.pc \in ReadPoint
      BY <1>3, <1>9, <2>2 DEF NextPoint
    <3> QED BY <1>1, <1>2, <1>3, <1>4, <1>5, <2>1, <3>1
            DEF Good, Stage, ToolAt, ReadAt, EntryPoint, InStep
  <2>3. CASE l.pc = "tool_normalized" /\ l.outcome = "FOUND"
    <3>1. m.pc = "observation_recorded" /\ d.tool = "SUCCEEDED"
      BY <1>3, <2>1, <2>3 DEF NextPoint, TerminalStatus
    <3> QED BY <1>1, <1>2, <1>3, <1>4, <1>5, <2>1, <2>3, <3>1
            DEF Good, Stage, ToolAt, ReadAt, EntryPoint, InStep
  <2>4. CASE l.pc = "tool_normalized" /\ l.outcome # "FOUND"
    <3>1. /\ m.pc = "response_rendered" /\ m.stop = ReadStop(l.outcome)
          /\ d.tool = IF l.outcome = "TIMEOUT" THEN "TIMED_OUT" ELSE "FAILED"
          /\ ~d.observation
      BY <1>1, <1>3, <2>1, <2>4 DEF NextPoint, TerminalStatus
    <3>2. Deserved(m, d)
      BY <1>3, <2>1, <3>1 DEF Deserved, ReadStop
    <3> QED BY <1>1, <1>2, <1>3, <1>4, <1>5, <2>1, <3>1, <3>2
            DEF Good, Stage, ToolAt, ReadAt, EntryPoint, InStep
  <2> QED BY <2>2, <2>3, <2>4
<1>10. CASE l.pc \in ObservedPoint
  <2>1. /\ l.cursor # NoRow /\ d.link # "ABSENT" /\ InStep(l, d)
        /\ d.tool = "SUCCEEDED" /\ d.observation
    BY <1>10 DEF Good, Stage, ToolAt
  <2>2. m.pc \in ObservedPoint
    BY <1>3, <1>10 DEF NextPoint, PlainPoint
  <2> QED BY <1>1, <1>2, <1>3, <1>4, <1>5, <2>1, <2>2
          DEF Good, Stage, ToolAt, ReadAt, EntryPoint, InStep
<1>11. CASE l.pc = "response_rendered"
  <2>1. Deserved(l, d) /\ (l.cursor # NoRow => InStep(l, d))
    BY <1>11 DEF Good, Stage
  <2>2. m.pc = "finalize" /\ m.stop = l.stop
    BY <1>3, <1>11 DEF NextPoint
  <2> QED BY <1>1, <1>2, <1>3, <1>4, <1>5, <2>1, <2>2
          DEF Good, Stage, ToolAt, ReadAt, EntryPoint, InStep, Deserved
<1> QED BY <1>6, <1>7, <1>8, <1>9, <1>10, <1>11 DEF PlainPoint

\* _append_trace, _save_manifest and the executor's Trace inserts.
LEMMA PlainWriteSound ==
  ASSUME IndInv, NEW r \in Runs, PlainWrite(r)
  PROVE  IndInv'
<1> DEFINE l == h[r]
           m == [l EXCEPT !.pc = NextPoint(l),
                          !.stop = IF l.pc = "tool_normalized"
                                      /\ l.outcome # "FOUND"
                                   THEN ReadStop(l.outcome) ELSE @]
<1>1. Good(l, db[r]) /\ l.pc \in PlainPoint
  BY IndInvGood DEF PlainWrite
<1>2. StoreCall(r, TRUE, Written(db[r], WriteAt(l)), m, m, Raised(l))
  BY DEF PlainWrite
<1> HIDE DEF l
<1>3. Good(m, db[r])
  BY <1>1, NextPointGood
<1>4. Good(Raised(l), db[r])
  BY <1>1, RaisedGood DEF Good, ReadAt
<1> HIDE DEF m
<1> QED BY <1>1, <1>2, <1>3, <1>4, WriteAtType, WriteSound

-------------------------------------------------------------------------------
(* From the proposal to the Gate.                                           *)

\* What the points up to the Task graph have in common.
LEMMA GraphlessGood ==
  ASSUME NEW l, NEW d, Good(l, d), l.pc \in GraphlessPoint
  PROVE  /\ l.pc \in ServicePoint /\ l.cursor = NoRow /\ l.reads = 0
         /\ d.link = "ABSENT" /\ d.task = NoRow /\ d.tool = "ABSENT"
         /\ ~d.observation
<1>1. l.pc \in ServicePoint
  BY DEF ServicePoint, PlainPoint
<1> QED BY <1>1, RunningStage
        DEF Good, Stage, ReadAt, GraphConsistent, ToolConsistent

\* The provider proposes, the reduction refuses, or the call raises.
LEMMA ProposeNextMoveSound ==
  ASSUME IndInv, NEW r \in Runs, ProposeNextMove(r)
  PROVE  IndInv'
<1> DEFINE l == h[r]
           d == db[r]
<1>1. Good(l, d) /\ l.pc = "propose"
  BY IndInvGood DEF ProposeNextMove
<1>2. CASE Local(r, At(l, "create_graph"))
  <2>1. Good(At(l, "create_graph"), d)
    BY <1>1, GraphlessGood, RunningStage, AtHandler
    DEF Good, Handler, Stage, ToolAt, ReadAt, Point, EntryPoint,
        ServicePoint, PlainPoint, ExecutorPoint
  <2> QED BY <1>2, <2>1, LocalSound
<1>3. CASE \E stop \in {"INPUT_INVALID", "PROVIDER_PROTOCOL_ERROR"} :
             Local(r, [l EXCEPT !.pc = "response_rendered", !.stop = stop])
  <2>1. PICK stop \in {"INPUT_INVALID", "PROVIDER_PROTOCOL_ERROR"} :
               Local(r, [l EXCEPT !.pc = "response_rendered", !.stop = stop])
    BY <1>3
  <2> DEFINE m == [l EXCEPT !.pc = "response_rendered", !.stop = stop]
  <2>2. m \in Handler /\ m.stop = stop /\ m.pc = "response_rendered"
        /\ m.cursor = l.cursor /\ m.running = l.running /\ m.reads = l.reads
    BY <1>1 DEF Good, Handler, Point, ServicePoint, PlainPoint, CompletionReason
  <2>3. Deserved(m, d)
    BY <1>1, <2>2, GraphlessGood DEF Deserved
  <2> HIDE DEF m
  <2>4. Good(m, d)
    BY <1>1, <2>2, <2>3, GraphlessGood, RunningStage
    DEF Good, Stage, ToolAt, ReadAt, EntryPoint
  <2> QED BY <2>1, <2>4, LocalSound DEF m
<1>4. CASE Local(r, Raised(l))
  BY <1>1, <1>4, RaisedStays, LocalSound
<1> QED BY <1>2, <1>3, <1>4 DEF ProposeNextMove

\* The graph exists when the cursor does.
LEMMA CreateInitialTaskGraphSound ==
  ASSUME IndInv, NEW r \in Runs, CreateInitialTaskGraph(r)
  PROVE  IndInv'
<1> DEFINE l == h[r]
           d == db[r]
           e == GraphCreated(d)
           ok == [l EXCEPT !.pc = "move_proposed", !.cursor = InitialRow]
<1>1. /\ Good(l, d) /\ l.pc = "create_graph"
      /\ StoreCall(r, GraphCreatable(d), e, ok, Raised(l), Raised(l))
  BY IndInvGood DEF CreateInitialTaskGraph
<1> HIDE DEF l, d
<1>2. GraphCreatable(d) \in BOOLEAN
  BY DEF GraphCreatable
<1>3. ASSUME GraphCreatable(d)
      PROVE  Good(ok, e) /\ Good(Raised(l), e)
  <2>1. Kept(e)
    BY <1>1, <1>3, GraphCreatedKept DEF Good
  <2>2. /\ e.link = "OPEN" /\ e.run = d.run /\ e.tool = "ABSENT"
        /\ ~e.observation
    BY <1>1, GraphlessGood DEF GraphCreated, Good, Kept, Aggregate
  <2>3. InitialRow \in Projection /\ InitialRow # NoRow
    BY DEF InitialRow, NoRow, Projection, TaskStatus, ActiveTask
  <2>4. /\ ok \in Handler /\ ok.pc = "move_proposed" /\ ok.cursor = InitialRow
        /\ ok.running = l.running /\ ok.reads = l.reads
    BY <1>1, <2>3 DEF Good, Handler, Point, ServicePoint, PlainPoint
  <2> HIDE DEF ok, e
  <2>5. Good(ok, e)
    BY <1>1, <2>1, <2>2, <2>3, <2>4, GraphlessGood, RunningStage
    DEF Good, Stage, ToolAt, ReadAt, EntryPoint
  <2>6. Good(Raised(l), e)
    BY <1>1, <2>1, <2>2, RaisedGood, GraphlessGood DEF Good
  <2> QED BY <2>5, <2>6
<1> HIDE DEF ok, e
<1> QED BY <1>1, <1>2, <1>3, RaisedStays, StoreCallSound DEF d

\* What the points from the graph to the dispatch fence have in common.
BeforeToolPoint ==
  DecidingPoint \cup {"load_unit"} \cup GatePoint \cup AuthorizedPoint

\* There is a Task and no ToolCall there.
LEMMA BeforeToolGood ==
  ASSUME NEW l, NEW d, Good(l, d), l.pc \in BeforeToolPoint
  PROVE  /\ l.pc \in ServicePoint \cup ExecutorPoint
         /\ l.cursor # NoRow /\ l.reads = 0
         /\ d.link # "ABSENT" /\ d.task # NoRow /\ d.unit = d.task
         /\ d.tool = "ABSENT" /\ ~d.observation
<1>1. l.pc \in ServicePoint \cup ExecutorPoint
  BY DEF BeforeToolPoint, ServicePoint, PlainPoint, ExecutorPoint
<1> QED BY <1>1, RunningStage
        DEF BeforeToolPoint, Good, Stage, ToolAt, ReadAt, GraphConsistent,
            ToolConsistent

\* The runtime-fault directive may move the Task between revalidation and Gate.
LEMMA HookSound ==
  ASSUME IndInv, NEW r \in Runs, Hook(r)
  PROVE  IndInv'
<1> DEFINE l == h[r]
           d == db[r]
           e == TaskTransitioned(d, InitialRow, InitialRow, "WAITING_USER")
           applies == TransitionApplies(d, InitialRow, InitialRow)
<1>1. Good(l, d) /\ l.pc = "hook"
  BY IndInvGood DEF Hook
<1>2. /\ l.pc \in BeforeToolPoint /\ l.cursor # NoRow /\ l.reads = 0
      /\ d.link # "ABSENT" /\ d.tool = "ABSENT" /\ ~d.observation
      /\ l \in Handler /\ d \in Aggregate /\ Kept(d)
      /\ l.running /\ d.run \in {"RUNNING", "INCOMPLETE"}
  BY <1>1, BeforeToolGood, RunningStage DEF BeforeToolPoint
<1>3. CASE Local(r, At(l, "load_task"))
  <2>1. Good(At(l, "load_task"), d)
    BY <1>1, <1>2, AtHandler
    DEF Good, Handler, Stage, ToolAt, ReadAt, Point, EntryPoint,
        ServicePoint, PlainPoint, ExecutorPoint
  <2> QED BY <1>3, <2>1, LocalSound
<1>4. CASE StoreCall(r, applies, e, At(l, "hook_changed"), Raised(l), Raised(l))
  <2> HIDE DEF l
  <2>1. ASSUME applies
        PROVE  Good(At(l, "hook_changed"), e) /\ Good(Raised(l), e)
    <3>1. Kept(e)
      BY <1>2, <2>1, TaskTransitionedKept
    <3>2. /\ e.run = d.run /\ e.link = d.link /\ e.tool = d.tool
          /\ e.observation = d.observation /\ e.attempts = d.attempts
      BY <1>2 DEF TaskTransitioned, Aggregate
    <3> HIDE DEF e, d
    <3>3. Good(At(l, "hook_changed"), e)
      BY <1>1, <1>2, <3>1, <3>2, AtHandler
      DEF Good, Handler, Stage, ToolAt, ReadAt, Point, EntryPoint,
          ServicePoint, PlainPoint, ExecutorPoint
    <3>4. Good(Raised(l), e)
      BY <1>2, <3>1, <3>2, RaisedGood
    <3> QED BY <3>3, <3>4
  <2>2. applies \in BOOLEAN
    BY DEF TransitionApplies
  <2> HIDE DEF e, applies
  <2> QED BY <1>1, <1>4, <2>1, <2>2, RaisedStays, StoreCallSound
<1>5. CASE Local(r, Raised(l))
  BY <1>1, <1>5, RaisedStays, LocalSound
<1> QED BY <1>3, <1>4, <1>5 DEF Hook

\* The Task the handler loads is current as long as the Run is RUNNING: only
\* recovery could move it now.
LEMMA LoadTaskSound ==
  ASSUME IndInv, NEW r \in Runs, LoadTask(r)
  PROVE  IndInv'
<1> DEFINE l == h[r]
           d == db[r]
           ok == [l EXCEPT !.pc = "load_unit", !.task = d.task]
<1>1. /\ Good(l, d) /\ l.pc = "load_task"
      /\ StoreCall(r, d.task # NoRow, d, ok, Raised(l), Raised(l))
  BY IndInvGood DEF LoadTask
<1> HIDE DEF l, d
<1>2. /\ l.pc \in BeforeToolPoint /\ l.cursor # NoRow /\ l.reads = 0
      /\ d.link # "ABSENT" /\ d.tool = "ABSENT" /\ ~d.observation
      /\ d.task # NoRow /\ l \in Handler /\ d \in Aggregate /\ Kept(d)
      /\ l.running /\ d.run \in {"RUNNING", "INCOMPLETE"}
  BY <1>1, BeforeToolGood, RunningStage DEF BeforeToolPoint
<1>3. /\ ok \in Handler /\ ok.pc = "load_unit" /\ ok.task = d.task
      /\ ok.cursor = l.cursor /\ ok.running = l.running /\ ok.reads = l.reads
  BY <1>2 DEF Handler, Aggregate, Point, ServicePoint
<1> HIDE DEF ok
<1>4. Good(ok, d)
  BY <1>2, <1>3
  DEF Good, Stage, ToolAt, ReadAt, EntryPoint, ServicePoint, PlainPoint,
      ExecutorPoint
<1> QED BY <1>1, <1>4, RaisedStays, StoreCallSound DEF d

\* The RequestUnit is read after the Task and still matches it while RUNNING.
LEMMA LoadUnitSound ==
  ASSUME IndInv, NEW r \in Runs, LoadUnit(r)
  PROVE  IndInv'
<1> DEFINE l == h[r]
           d == db[r]
           ok == [l EXCEPT !.pc = "save_gate", !.unit = d.unit,
                           !.cursor = l.task]
<1>1. /\ Good(l, d) /\ l.pc = "load_unit"
      /\ StoreCall(r, d.unit # NoRow, d, ok, Raised(l), Raised(l))
  BY IndInvGood DEF LoadUnit
<1> HIDE DEF l, d
<1>2. /\ l.pc \in BeforeToolPoint /\ l.reads = 0
      /\ d.link # "ABSENT" /\ d.tool = "ABSENT" /\ ~d.observation
      /\ d.unit = d.task /\ l \in Handler /\ d \in Aggregate /\ Kept(d)
      /\ l.running /\ d.run \in {"RUNNING", "INCOMPLETE"}
      /\ l.task # NoRow /\ (d.run = "RUNNING" => l.task = d.task)
  BY <1>1, BeforeToolGood, RunningStage DEF BeforeToolPoint, Good, Stage
<1>3. /\ ok \in Handler /\ ok.pc = "save_gate" /\ ok.task = l.task
      /\ ok.unit = d.unit
      /\ ok.cursor = l.task /\ ok.running = l.running /\ ok.reads = l.reads
  BY <1>2 DEF Handler, Aggregate, Point, ServicePoint
<1> HIDE DEF ok
<1>4. Good(ok, d)
  BY <1>2, <1>3
  DEF Good, Stage, ToolAt, ReadAt, EntryPoint, ServicePoint, PlainPoint,
      ExecutorPoint, InStep
<1> QED BY <1>1, <1>4, RaisedStays, StoreCallSound
        DEF d

\* The Gate accepts only the Task version revalidation saw.
LEMMA SaveGateDecisionSound ==
  ASSUME IndInv, NEW r \in Runs, SaveGateDecision(r)
  PROVE  IndInv'
<1> DEFINE l == h[r]
           d == db[r]
           ok(accepted) ==
             [l EXCEPT !.pc = "gate_recorded",
                       !.stop = IF accepted THEN "NONE" ELSE "GATE_REJECTED"]
<1>1. Good(l, d) /\ l.pc = "save_gate"
  BY IndInvGood DEF SaveGateDecision
<1>2. PICK others \in BOOLEAN :
        LET accepted == others /\ StateVersionValid(l.task, l.unit)
        IN  StoreCall(r, TRUE, Written(d, "GATE_DECISION"), ok(accepted),
                      l, Raised(l))
  BY DEF SaveGateDecision
<1> DEFINE accepted == others /\ StateVersionValid(l.task, l.unit)
           m == ok(accepted)
<1>3. StoreCall(r, TRUE, Written(d, "GATE_DECISION"), m, l, Raised(l))
  BY <1>2
<1> HIDE DEF l
<1>4. /\ l.pc \in BeforeToolPoint /\ l.reads = 0 /\ l.cursor # NoRow
      /\ d.link # "ABSENT" /\ d.tool = "ABSENT" /\ ~d.observation
      /\ l \in Handler /\ Kept(d)
      /\ l.running /\ d.run \in {"RUNNING", "INCOMPLETE"} /\ InStep(l, d)
  BY <1>1, BeforeToolGood, RunningStage DEF BeforeToolPoint, Good, Stage
<1>5. accepted => l.task = InitialRow
  BY <1>4 DEF StateVersionValid, Handler, Projection, InitialRow
<1> HIDE DEF accepted
<1>6. /\ m \in Handler /\ m.pc = "gate_recorded"
      /\ m.stop = IF accepted THEN "NONE" ELSE "GATE_REJECTED"
      /\ m.task = l.task /\ m.unit = l.unit /\ m.cursor = l.cursor
      /\ m.running = l.running /\ m.reads = l.reads
  <2>1. "gate_recorded" \in Point /\ "GATE_REJECTED" \in CompletionReason
    BY DEF Point, ServicePoint, PlainPoint, CompletionReason
  <2> QED BY <1>4, <2>1 DEF Handler
<1> HIDE DEF m, d
<1>7. Good(m, d)
  BY <1>4, <1>5, <1>6
  DEF Good, Stage, ToolAt, ReadAt, EntryPoint, ServicePoint, PlainPoint,
      ExecutorPoint, InStep
<1>8. "GATE_DECISION" \in Document \cup TraceEventType
  BY DEF Document
<1> QED BY <1>1, <1>3, <1>7, <1>8, RaisedStays, WriteSound DEF d

\* The accepted Gate decision is turned into a ToolCall or the budget is out.
LEMMA AuthorizeSound ==
  ASSUME IndInv, NEW r \in Runs, Authorize(r)
  PROVE  IndInv'
<1> DEFINE l == h[r]
           d == db[r]
<1>1. Good(l, d) /\ l.pc = "authorize"
  BY IndInvGood DEF Authorize
<1>2. CASE Local(r, At(l, "insert_tool"))
  <2>1. Good(At(l, "insert_tool"), d)
    BY <1>1, AtHandler
    DEF Good, Handler, Stage, ToolAt, ReadAt, Point, EntryPoint,
        ServicePoint, PlainPoint, ExecutorPoint, InStep
  <2> QED BY <1>2, <2>1, LocalSound
<1>3. CASE Local(r, Raised(l))
  BY <1>1, <1>3, RaisedStays, LocalSound
<1> QED BY <1>2, <1>3 DEF Authorize

-------------------------------------------------------------------------------
(* ReadToolExecutor.                                                        *)

\* The points from the ToolCall to its result.
ToolPoint ==
  InFlightPoint \cup {"fence", "dispatch", "save_observation", "interrupt_trace"}

\* There is a Task there, loaded and current while the Run is RUNNING.
LEMMA ToolPointGood ==
  ASSUME NEW l, NEW d, Good(l, d), l.pc \in ToolPoint \cup {"insert_tool"}
  PROVE  /\ l.pc \in ExecutorPoint /\ l \in Handler /\ d \in Aggregate
         /\ Kept(d) /\ GraphConsistent(d) /\ ToolConsistent(d)
         /\ l.running /\ d.run \in {"RUNNING", "INCOMPLETE"}
         /\ l.cursor # NoRow /\ d.link # "ABSENT" /\ InStep(l, d)
         /\ l.reads = 1 => d.attempts = 1
         /\ d.observation => l.reads = 1
<1>1. l.pc \in ExecutorPoint
  BY DEF ToolPoint, ExecutorPoint
<1> QED BY <1>1, RunningStage DEF ToolPoint, Good, Stage

\* The handler moves on among the executor's points: what is left to show is
\* the ToolCall at the point it moves to.
LEMMA ToolPointReached ==
  ASSUME NEW m \in Handler, NEW e, Kept(e), m.pc \in ToolPoint \cup ReadPoint,
         m.running, e.run \in {"RUNNING", "INCOMPLETE"},
         m.cursor # NoRow, e.link # "ABSENT", InStep(m, e),
         ToolAt(m, e), ReadAt(m, e)
  PROVE  Good(m, e)
  BY DEF ToolPoint, Good, Stage, EntryPoint, ServicePoint, PlainPoint,
         ExecutorPoint

\* insert_tool_call locks a RUNNING Run, whose Task is the validated one.
LEMMA InsertToolCallSound ==
  ASSUME IndInv, NEW r \in Runs, InsertToolCall(r)
  PROVE  IndInv'
<1> DEFINE l == h[r]
           d == db[r]
           e == ToolCallInserted(d, InitialRow.version)
<1>1. /\ Good(l, d) /\ l.pc = "insert_tool"
      /\ StoreCall(r, ToolCallInsertable(d), e, At(l, "fence"),
                   Raised(l), Raised(l))
  BY IndInvGood DEF InsertToolCall
<1> HIDE DEF l, d
<1>2. /\ l.task = InitialRow /\ l.reads = 0
  BY <1>1 DEF Good, Stage, ReadAt
<1>3. ToolCallInsertable(d) \in BOOLEAN
  BY DEF ToolCallInsertable
<1>4. ASSUME ToolCallInsertable(d)
      PROVE  Good(At(l, "fence"), e) /\ Good(Raised(l), e)
  <2>1. d.task = InitialRow
    BY <1>1, <1>2, <1>4, ToolPointGood DEF ToolCallInsertable, InStep
  <2>2. Kept(e)
    BY <1>1, <1>4, <2>1, ToolCallInsertedKept DEF Good
  <2>3. /\ e.run = d.run /\ e.link = d.link /\ e.task = d.task
        /\ e.unit = d.unit /\ e.tool = "CREATED"
        /\ e.observation = d.observation /\ e.attempts = d.attempts
    BY <1>1, ToolPointGood DEF ToolCallInserted, Aggregate
  <2> HIDE DEF e
  <2> DEFINE m == At(l, "fence")
  <2>4. /\ m \in Handler /\ m.pc = "fence" /\ m.running = l.running
        /\ m.cursor = l.cursor /\ m.task = l.task /\ m.unit = l.unit
        /\ m.reads = l.reads
    BY <1>1, ToolPointGood, AtHandler DEF Handler, Point, ExecutorPoint
  <2> HIDE DEF m
  <2>5. ToolAt(m, e) /\ ReadAt(m, e) /\ InStep(m, e) /\ m.pc \in ToolPoint
    BY <1>1, <1>2, <2>3, <2>4, ToolPointGood
    DEF ToolAt, ReadAt, InStep, ToolPoint
  <2>6. Good(m, e)
    BY <1>1, <2>2, <2>3, <2>4, <2>5, ToolPointGood, ToolPointReached
  <2>7. Good(Raised(l), e)
    BY <1>1, <1>2, <2>2, <2>3, ToolPointGood, RaisedGood
  <2> QED BY <2>6, <2>7 DEF m
<1> HIDE DEF e
<1> QED BY <1>1, <1>3, <1>4, RaisedStays, StoreCallSound DEF d

\* The dispatch fence gives the ToolCall its one attempt.
LEMMA StartToolCallSound ==
  ASSUME IndInv, NEW r \in Runs, StartToolCall(r)
  PROVE  IndInv'
<1> DEFINE l == h[r]
           d == db[r]
           e == ToolCallStarted(d)
           m == At(l, "dispatch")
<1>1. /\ Good(l, d) /\ l.pc = "fence"
      /\ StoreCall(r, ToolCallStartable(d), e, m, Raised(l), Raised(l))
  BY IndInvGood DEF StartToolCall
<1> HIDE DEF l, d
<1>2. l.pc \in ToolPoint /\ l.reads = 0
  BY <1>1 DEF Good, ReadAt, ToolPoint
<1>3. ToolCallStartable(d) \in BOOLEAN
  BY DEF ToolCallStartable
<1>4. /\ m \in Handler /\ m.pc = "dispatch" /\ m.running = l.running
      /\ m.cursor = l.cursor /\ m.task = l.task /\ m.unit = l.unit
      /\ m.reads = l.reads
  BY <1>2, <1>1, ToolPointGood, AtHandler DEF Handler, Point, ExecutorPoint
<1> HIDE DEF m
<1>5. ASSUME ToolCallStartable(d)
      PROVE  Good(m, e) /\ Good(Raised(l), e)
  <2>1. Kept(e) /\ e.attempts = 1
    BY <1>1, <1>5, ToolCallStartedKept DEF Good
  <2>2. /\ e.run = d.run /\ e.link = d.link /\ e.task = d.task
        /\ e.unit = d.unit /\ e.tool = "RUNNING"
        /\ e.observation = d.observation
    BY <1>1, <1>2, ToolPointGood DEF ToolCallStarted, Aggregate
  <2> HIDE DEF e
  <2>3. ToolAt(m, e) /\ ReadAt(m, e) /\ InStep(m, e) /\ m.pc \in ToolPoint
    BY <1>1, <1>2, <1>4, <2>1, <2>2, ToolPointGood
    DEF ToolAt, ReadAt, InStep, ToolPoint
  <2>4. Good(m, e)
    BY <1>1, <1>2, <1>4, <2>1, <2>2, <2>3, ToolPointGood, ToolPointReached
  <2>5. Good(Raised(l), e)
    BY <1>1, <1>2, <2>1, <2>2, ToolPointGood, RaisedGood
  <2> QED BY <2>4, <2>5
<1> HIDE DEF e
<1> QED BY <1>1, <1>3, <1>5, RaisedStays, StoreCallSound DEF d

\* The read and its answer: the records do not change.
LEMMA ReadSound ==
  ASSUME IndInv, NEW r \in Runs, DispatchRead(r) \/ OrderAnswer(r)
  PROVE  IndInv'
<1> DEFINE l == h[r]
           d == db[r]
<1>1. Good(l, d) /\ l.pc \in {"dispatch", "await_order"}
  BY IndInvGood DEF DispatchRead, OrderAnswer
<1>2. /\ l.pc \in ToolPoint /\ d.tool \in {"RUNNING", "INTERRUPTED"}
      /\ d.attempts = 1
  BY <1>1 DEF Good, ToolAt, ToolPoint
<1>3. ASSUME NEW m \in Handler, m.pc \in InFlightPoint,
             m.running = l.running, m.cursor = l.cursor, m.task = l.task,
             m.unit = l.unit, m.reads = 1,
             m.pc = "finalize_tool" => m.outcome # "NONE", Local(r, m)
      PROVE  IndInv'
  <2>1. ToolAt(m, d) /\ ReadAt(m, d) /\ InStep(m, d) /\ m.pc \in ToolPoint
    BY <1>1, <1>2, <1>3, ToolPointGood DEF ToolAt, ReadAt, InStep, ToolPoint
  <2>2. Good(m, d)
    BY <1>1, <1>2, <1>3, <2>1, ToolPointGood, ToolPointReached
  <2> QED BY <1>3, <2>2, LocalSound
<1>4. l \in Handler
  BY <1>1 DEF Good
<1>5. /\ InFlightPoint \subseteq Point
      /\ 0 + 1 = 1 /\ 1 \in 0..1
  BY DEF Point, ExecutorPoint
<1>6. CASE DispatchRead(r)
  <2> DEFINE m == [l EXCEPT !.pc = "await_order", !.reads = @ + 1]
  <2>1. Local(r, m) /\ l.reads = 0
    BY <1>1, <1>6 DEF DispatchRead, Good, ReadAt
  <2>2. m = [l EXCEPT !.pc = "await_order", !.reads = 1]
    BY <2>1
  <2>3. /\ m \in Handler /\ m.pc = "await_order" /\ m.running = l.running
        /\ m.cursor = l.cursor /\ m.task = l.task /\ m.unit = l.unit
        /\ m.reads = 1
    BY <1>4, <1>5, <2>2 DEF Handler
  <2> HIDE DEF m, l, d
  <2> QED BY <1>3, <2>1, <2>3
<1>7. CASE OrderAnswer(r)
  <2>1. l.reads = 1 /\ l.pc = "await_order"
    BY <1>1, <1>7 DEF OrderAnswer, Good, ReadAt
  <2>2. CASE \E outcome \in Outcome \ {"NONE"} :
               Local(r, [l EXCEPT !.pc = "finalize_tool", !.outcome = outcome])
    <3>1. PICK outcome \in Outcome \ {"NONE"} :
                 Local(r, [l EXCEPT !.pc = "finalize_tool", !.outcome = outcome])
      BY <2>2
    <3> DEFINE m == [l EXCEPT !.pc = "finalize_tool", !.outcome = outcome]
    <3>2. /\ m \in Handler /\ m.pc = "finalize_tool" /\ m.running = l.running
          /\ m.cursor = l.cursor /\ m.task = l.task /\ m.unit = l.unit
          /\ m.reads = 1 /\ m.outcome # "NONE"
      BY <1>4, <1>5, <2>1, <3>1 DEF Handler
    <3>3. Local(r, m)
      BY <3>1
    <3> HIDE DEF m, l, d
    <3> QED BY <1>3, <3>2, <3>3
  <2>3. CASE Local(r, At(l, "interrupt_tool"))
    <3> DEFINE m == At(l, "interrupt_tool")
    <3>1. /\ m \in Handler /\ m.pc = "interrupt_tool" /\ m.running = l.running
          /\ m.cursor = l.cursor /\ m.task = l.task /\ m.unit = l.unit
          /\ m.reads = 1
      BY <1>4, <1>5, <2>1 DEF At, Handler
    <3>2. Local(r, m)
      BY <2>3
    <3> HIDE DEF m, l, d
    <3> QED BY <1>3, <3>1, <3>2
  <2>4. CASE Local(r, Raised(l))
    BY <1>1, <2>4, RaisedStays, LocalSound
  <2> QED BY <1>7, <2>2, <2>3, <2>4 DEF OrderAnswer
<1> QED BY <1>6, <1>7

\* The answer or the timeout ends the ToolCall unless recovery did.
LEMMA FinalizeToolCallSound ==
  ASSUME IndInv, NEW r \in Runs, FinalizeToolCall(r)
  PROVE  IndInv'
<1> DEFINE l == h[r]
           d == db[r]
           status == TerminalStatus(l.outcome)
           e == ToolCallFinalized(d, status)
           m == At(l, IF l.outcome = "FOUND" THEN "save_observation"
                                             ELSE "tool_created")
<1>1. /\ Good(l, d) /\ l.pc = "finalize_tool"
      /\ StoreCall(r, ToolCallFinalizable(d), e, m, Raised(l), Raised(l))
  BY IndInvGood DEF FinalizeToolCall
<1> HIDE DEF l, d
<1>2. l.pc \in ToolPoint /\ l.reads = 1 /\ l.outcome # "NONE"
      /\ d.attempts = 1
  BY <1>1 DEF Good, ToolAt, ReadAt, ToolPoint
<1>3. ToolCallFinalizable(d) \in BOOLEAN
  BY DEF ToolCallFinalizable
<1>4. /\ status \in ToolCallStatus \ ActiveToolCall
      /\ l.outcome = "FOUND" => status = "SUCCEEDED"
  BY DEF TerminalStatus, ToolCallStatus, ActiveToolCall
<1>5. /\ m \in Handler /\ m.running = l.running
      /\ m.pc = IF l.outcome = "FOUND" THEN "save_observation" ELSE "tool_created"
      /\ m.cursor = l.cursor /\ m.task = l.task /\ m.unit = l.unit
      /\ m.reads = l.reads /\ m.outcome = l.outcome
  BY <1>1, <1>2, ToolPointGood
  DEF At, Handler, Point, ServicePoint, PlainPoint, ExecutorPoint
<1> HIDE DEF m
<1>6. ASSUME ToolCallFinalizable(d)
      PROVE  Good(m, e) /\ Good(Raised(l), e)
  <2> HIDE DEF status
  <2>1. Kept(e)
    BY <1>1, <1>4, <1>6, ToolCallFinalizedKept DEF Good
  <2>2. /\ e.run = d.run /\ e.link = d.link /\ e.task = d.task
        /\ e.unit = d.unit /\ e.tool = status
        /\ e.observation = d.observation /\ e.attempts = d.attempts
    BY <1>1, <1>2, ToolPointGood DEF ToolCallFinalized, Aggregate
  <2> HIDE DEF e
  <2>3. /\ ToolAt(m, e) /\ ReadAt(m, e) /\ InStep(m, e)
        /\ m.pc \in ToolPoint \cup ReadPoint
    BY <1>1, <1>2, <1>4, <1>5, <2>1, <2>2, ToolPointGood
    DEF ToolAt, ReadAt, InStep, ToolPoint, status
  <2>4. Good(m, e)
    BY <1>1, <1>2, <1>5, <2>1, <2>2, <2>3, ToolPointGood, ToolPointReached
  <2>5. Good(Raised(l), e)
    BY <1>1, <1>2, <2>1, <2>2, ToolPointGood, RaisedGood
  <2> QED BY <2>4, <2>5
<1> HIDE DEF e
<1> QED BY <1>1, <1>3, <1>6, RaisedStays, StoreCallSound DEF d

\* The Observation of a ToolCall this handler read for.
LEMMA SaveObservationSound ==
  ASSUME IndInv, NEW r \in Runs, SaveObservation(r)
  PROVE  IndInv'
<1> DEFINE l == h[r]
           d == db[r]
           e == ObservationSaved(d)
           m == At(l, "tool_created")
<1>1. /\ Good(l, d) /\ l.pc = "save_observation"
      /\ StoreCall(r, ObservationSourced(d), e, m, Raised(l), Raised(l))
  BY IndInvGood DEF SaveObservation
<1> HIDE DEF l, d
<1>2. l.pc \in ToolPoint /\ l.reads = 1 /\ l.outcome = "FOUND"
      /\ d.tool = "SUCCEEDED"
  BY <1>1 DEF Good, ToolAt, ReadAt, ToolPoint
<1>3. ObservationSourced(d) \in BOOLEAN
  BY DEF ObservationSourced
<1>4. /\ m \in Handler /\ m.running = l.running /\ m.pc = "tool_created"
      /\ m.cursor = l.cursor /\ m.task = l.task /\ m.unit = l.unit
      /\ m.reads = l.reads /\ m.outcome = l.outcome
  BY <1>1, <1>2, ToolPointGood DEF At, Handler, Point, ServicePoint, PlainPoint
<1> HIDE DEF m
<1>5. ASSUME ObservationSourced(d)
      PROVE  Good(m, e) /\ Good(Raised(l), e)
  <2>1. Kept(e)
    BY <1>1, <1>5, ObservationSavedKept DEF Good
  <2>2. /\ e.run = d.run /\ e.link = d.link /\ e.task = d.task
        /\ e.unit = d.unit /\ e.tool = d.tool
        /\ e.observation /\ e.attempts = d.attempts
    BY <1>1, <1>2, ToolPointGood DEF ObservationSaved, Aggregate
  <2> HIDE DEF e
  <2>3. /\ ToolAt(m, e) /\ ReadAt(m, e) /\ InStep(m, e)
        /\ m.pc \in ToolPoint \cup ReadPoint
    BY <1>1, <1>2, <1>4, <2>1, <2>2, ToolPointGood
    DEF ToolAt, ReadAt, InStep, ToolPoint, TerminalStatus
  <2>4. Good(m, e)
    BY <1>1, <1>2, <1>4, <2>1, <2>2, <2>3, ToolPointGood, ToolPointReached
  <2>5. Good(Raised(l), e)
    BY <1>1, <1>2, <2>1, <2>2, ToolPointGood, RaisedGood
  <2> QED BY <2>4, <2>5
<1> HIDE DEF e
<1> QED BY <1>1, <1>3, <1>5, RaisedStays, StoreCallSound DEF d

\* A cancellation ends the ToolCall unless recovery did.
LEMMA InterruptToolCallSound ==
  ASSUME IndInv, NEW r \in Runs, InterruptToolCall(r)
  PROVE  IndInv'
<1> DEFINE l == h[r]
           d == db[r]
           e == ToolCallFinalized(d, "INTERRUPTED")
           m == At(l, "interrupt_trace")
<1>1. /\ Good(l, d) /\ l.pc = "interrupt_tool"
      /\ StoreCall(r, ToolCallFinalizable(d), e, m, Raised(l), Raised(l))
  BY IndInvGood DEF InterruptToolCall
<1> HIDE DEF l, d
<1>2. l.pc \in ToolPoint /\ l.reads = 1 /\ d.attempts = 1
  BY <1>1 DEF Good, ToolAt, ReadAt, ToolPoint
<1>3. ToolCallFinalizable(d) \in BOOLEAN
  BY DEF ToolCallFinalizable
<1>4. /\ m \in Handler /\ m.running = l.running /\ m.pc = "interrupt_trace"
      /\ m.cursor = l.cursor /\ m.task = l.task /\ m.unit = l.unit
      /\ m.reads = l.reads
  BY <1>1, <1>2, ToolPointGood DEF At, Handler, Point, ExecutorPoint
<1> HIDE DEF m
<1>5. ASSUME ToolCallFinalizable(d)
      PROVE  Good(m, e) /\ Good(Raised(l), e)
  <2>1. Kept(e)
    BY <1>1, <1>5, ToolCallFinalizedKept
    DEF Good, ToolCallStatus, ActiveToolCall
  <2>2. /\ e.run = d.run /\ e.link = d.link /\ e.task = d.task
        /\ e.unit = d.unit /\ e.tool = "INTERRUPTED"
        /\ e.observation = d.observation /\ e.attempts = d.attempts
    BY <1>1, <1>2, ToolPointGood DEF ToolCallFinalized, Aggregate
  <2> HIDE DEF e
  <2>3. /\ ToolAt(m, e) /\ ReadAt(m, e) /\ InStep(m, e)
        /\ m.pc \in ToolPoint \cup ReadPoint
    BY <1>1, <1>2, <1>4, <2>1, <2>2, ToolPointGood
    DEF ToolAt, ReadAt, InStep, ToolPoint
  <2>4. Good(m, e)
    BY <1>1, <1>2, <1>4, <2>1, <2>2, <2>3, ToolPointGood, ToolPointReached
  <2>5. Good(Raised(l), e)
    BY <1>1, <1>2, <2>1, <2>2, ToolPointGood, RaisedGood
  <2> QED BY <2>4, <2>5
<1> HIDE DEF e
<1> QED BY <1>1, <1>3, <1>5, RaisedStays, StoreCallSound DEF d

\* The interruption is traced, then the cancellation goes on.
LEMMA TraceInterruptionSound ==
  ASSUME IndInv, NEW r \in Runs, TraceInterruption(r)
  PROVE  IndInv'
<1>1. /\ Good(h[r], db[r])
      /\ StoreCall(r, TRUE, Written(db[r], "ToolCallInterrupted"),
                   Raised(h[r]), Raised(h[r]), Raised(h[r]))
  BY IndInvGood DEF TraceInterruption
<1>2. "ToolCallInterrupted" \in TraceEventType
  BY DEF TraceEventType
<1> QED BY <1>1, <1>2, RaisedStays, WriteSound

-------------------------------------------------------------------------------
(* From the Observation to the answer.                                      *)

\* There is a SUCCEEDED ToolCall with its Observation there.
LEMMA ObservedGood ==
  ASSUME NEW l, NEW d, Good(l, d), l.pc \in {"plan", "render"}
  PROVE  /\ l \in Handler /\ l.running /\ l.cursor # NoRow
         /\ d.run \in {"RUNNING", "INCOMPLETE"} /\ d.link # "ABSENT"
         /\ d.tool = "SUCCEEDED" /\ d.observation /\ InStep(l, d)
         /\ l.reads = 1 => d.attempts = 1
         /\ d.observation => l.reads = 1
  BY RunningStage DEF Good, Stage, ToolAt, ServicePoint

\* A read that succeeded may be answered with any reason but those of a
\* refusal or of a failed read.
LEMMA ObservedAnswer ==
  ASSUME NEW l, NEW d, Good(l, d), l.pc \in {"plan", "render"},
         NEW stop \in {"GOAL_COMPLETED", "PRESENTATION_PLAN_REJECTED",
                      "RENDERER_INVARIANT_FAILED", "PROVIDER_PROTOCOL_ERROR"}
  PROVE  Good([l EXCEPT !.pc = "response_rendered", !.stop = stop], d)
<1> DEFINE m == [l EXCEPT !.pc = "response_rendered", !.stop = stop]
<1>1. /\ m \in Handler /\ m.pc = "response_rendered" /\ m.stop = stop
      /\ m.running = l.running /\ m.cursor = l.cursor /\ m.task = l.task
      /\ m.unit = l.unit /\ m.reads = l.reads
  <2>1. "response_rendered" \in Point /\ stop \in CompletionReason
    BY DEF Point, ServicePoint, PlainPoint, CompletionReason
  <2>2. l \in Handler
    BY ObservedGood
  <2> QED BY <2>1, <2>2 DEF Handler
<1> HIDE DEF m
<1>2. Deserved(m, d)
  BY <1>1, ObservedGood DEF Deserved
<1>3. Good(m, d)
  BY <1>1, <1>2, ObservedGood
  DEF Good, Stage, ToolAt, ReadAt, EntryPoint, InStep
<1> QED BY <1>3 DEF m

\* plan_presentation answers, fails its protocol, or raises.
LEMMA PlanPresentationSound ==
  ASSUME IndInv, NEW r \in Runs, PlanPresentation(r)
  PROVE  IndInv'
<1> DEFINE l == h[r]
           d == db[r]
<1>1. Good(l, d) /\ l.pc = "plan"
  BY IndInvGood DEF PlanPresentation
<1>2. CASE Local(r, At(l, "plan_proposed"))
  <2>1. Good(At(l, "plan_proposed"), d)
    BY <1>1, ObservedGood, AtHandler
    DEF Good, Handler, Stage, ToolAt, ReadAt, Point, EntryPoint,
        ServicePoint, PlainPoint, ExecutorPoint, InStep
  <2> QED BY <1>2, <2>1, LocalSound
<1>3. CASE Local(r, [l EXCEPT !.pc = "response_rendered",
                              !.stop = "PROVIDER_PROTOCOL_ERROR"])
  BY <1>1, <1>3, ObservedAnswer, LocalSound
<1>4. CASE Local(r, Raised(l))
  BY <1>1, <1>4, RaisedStays, LocalSound
<1> QED BY <1>2, <1>3, <1>4 DEF PlanPresentation

\* The plan and the rendering are accepted or refused.
LEMMA RenderSound ==
  ASSUME IndInv, NEW r \in Runs, Render(r)
  PROVE  IndInv'
<1> DEFINE l == h[r]
<1>1. Good(l, db[r]) /\ l.pc = "render"
  BY IndInvGood DEF Render
<1>2. PICK stop \in {"GOAL_COMPLETED", "PRESENTATION_PLAN_REJECTED",
                     "RENDERER_INVARIANT_FAILED"} :
             Local(r, [l EXCEPT !.pc = "response_rendered", !.stop = stop])
  BY DEF Render
<1> QED BY <1>1, <1>2, ObservedAnswer, LocalSound

\* What the terminal aggregate commits is what the reason is entitled to.
LEMMA RunCompletedEntitled ==
  ASSUME NEW l, NEW d, Good(l, d), l.pc = "finalize",
         RunFinalizable(d, LinksOf(l.cursor), l.task, l.unit)
  PROVE  LET e == RunCompleted(d, l.stop, l.task, l.unit)
         IN  /\ Kept(e) /\ e.run = "COMPLETED" /\ e.stop = l.stop
             /\ Entitled(e, l.stop)
             /\ e.attempts = d.attempts /\ e.observation = d.observation
<1> DEFINE e == RunCompleted(d, l.stop, l.task, l.unit)
<1>1. /\ l \in Handler /\ d \in Aggregate /\ Kept(d)
      /\ GraphConsistent(d) /\ ToolConsistent(d)
      /\ Deserved(l, d) /\ (l.cursor # NoRow => InStep(l, d))
  BY RunningStage DEF Good, Stage, ServicePoint
<1>2. d.run = "RUNNING" /\ d.link = LinksOf(l.cursor)
  BY DEF RunFinalizable
<1>3. l.stop \in CompletionReason
  BY <1>1 DEF Deserved, Handler
<1>4. LinksOf(l.cursor) = "OPEN" => l.unit # NoRow /\ l.unit = d.task /\ l.task = d.task
  BY <1>1, <1>2 DEF LinksOf, InStep, GraphConsistent
<1>5. Kept(e)
  BY <1>1, <1>2, <1>3, <1>4, RunCompletedKept DEF LinksOf
<1>6. /\ e.run = "COMPLETED" /\ e.stop = l.stop /\ e.tool = d.tool
      /\ e.attempts = d.attempts /\ e.observation = d.observation
      /\ e.task = IF d.link = "OPEN" THEN Moved(l.task, TargetStatus(l.stop))
                                     ELSE d.task
  BY <1>1 DEF RunCompleted, TaskTransitioned, LinkClosed, Aggregate
<1> HIDE DEF e
<1>7. Entitled(e, l.stop)
  <2>1. CASE d.link = "OPEN"
    <3>1. e.task.status = TargetStatus(l.stop) /\ l.stop # "INPUT_INVALID"
      BY <1>1, <1>2, <1>6, <2>1 DEF Moved, Deserved, LinksOf
    <3> QED BY <1>1, <1>6, <3>1 DEF Entitled, Deserved, TargetStatus
  <2>2. CASE d.link # "OPEN"
    <3>1. l.cursor = NoRow /\ d.link = "ABSENT" /\ d.task = NoRow
          /\ d.tool = "ABSENT"
      BY <1>1, <1>2, <2>2
      DEF LinksOf, GraphConsistent, ToolConsistent
    <3> QED BY <1>1, <1>6, <2>2, <3>1 DEF Entitled, Deserved
  <2> QED BY <2>1, <2>2
<1> QED BY <1>5, <1>6, <1>7 DEF e

\* The terminal aggregate and the answer of handle.
LEMMA FinalizeRunSound ==
  ASSUME IndInv, NEW r \in Runs, FinalizeRun(r)
  PROVE  IndInv'
<1> DEFINE l == h[r]
           d == db[r]
           applies == RunFinalizable(d, LinksOf(l.cursor), l.task, l.unit)
           e == RunCompleted(d, l.stop, l.task, l.unit)
           ok == [l EXCEPT !.pc = "returned", !.running = FALSE,
                           !.result = l.stop]
<1>1. /\ Good(l, d) /\ l.pc = "finalize"
      /\ StoreCall(r, applies, e, ok, Raised(l), Raised(l))
  BY IndInvGood DEF FinalizeRun
<1> HIDE DEF l, d
<1>2. /\ l \in Handler /\ l.stop \in CompletionReason
      /\ l.reads = 1 => d.attempts = 1
      /\ d.observation => l.reads = 1
  BY <1>1, RunningStage DEF Good, Stage, Deserved, Handler, ServicePoint
<1>3. /\ ok \in Handler /\ ok.pc = "returned" /\ ok.result = l.stop
      /\ ok.reads = l.reads
  BY <1>2 DEF Handler, Point, Ended
<1> HIDE DEF ok
<1>4. ASSUME applies PROVE Good(ok, e) /\ Good(Raised(l), e)
  <2>1. /\ Kept(e) /\ e.run = "COMPLETED" /\ e.stop = l.stop
        /\ Entitled(e, l.stop)
        /\ e.attempts = d.attempts /\ e.observation = d.observation
    BY <1>1, <1>4, RunCompletedEntitled
  <2> HIDE DEF e
  <2>2. Good(ok, e)
    BY <1>2, <1>3, <2>1
    DEF Good, Stage, ToolAt, ReadAt, EntryPoint, ServicePoint, PlainPoint,
        ExecutorPoint
  <2>3. Good(Raised(l), e)
    BY <1>2, <2>1, RaisedGood
  <2> QED BY <2>2, <2>3
<1>5. applies \in BOOLEAN
  BY DEF RunFinalizable
<1> HIDE DEF applies, e
<1> QED BY <1>1, <1>4, <1>5, RaisedStays, StoreCallSound DEF d

-------------------------------------------------------------------------------
(* Exceptional closure.                                                     *)

\* What a closing handler needs of Good.
LEMMA ClosingGood ==
  ASSUME NEW l, NEW d, Good(l, d)
  PROVE  /\ l \in Handler /\ d \in Aggregate /\ Kept(d)
         /\ l.reads = 1 => d.attempts = 1
         /\ d.observation => l.reads = 1
  BY DEF Good, Kept, ReadAt

\* The Task cursor of the exceptional closure.
LEMMA ReloadTaskSound ==
  ASSUME IndInv, NEW r \in Runs, ReloadTask(r)
  PROVE  IndInv'
<1> DEFINE l == h[r]
           d == db[r]
           ok == [l EXCEPT !.pc = "close", !.cursor = d.task]
<1>1. /\ Good(l, d)
      /\ StoreCall(r, TRUE, d, ok, l, At(l, "close"))
  BY IndInvGood DEF ReloadTask
<1> HIDE DEF l, d
<1>2. "close" \in Point /\ "close" \in ParkedPoint
  BY DEF Point, ClosingPoint, ParkedPoint
<1>3. /\ ok \in Handler /\ ok.pc = "close" /\ ok.reads = l.reads
      /\ At(l, "close") \in Handler /\ At(l, "close").pc = "close"
      /\ At(l, "close").reads = l.reads
  <2>1. l \in Handler /\ d.task \in Projection
    BY <1>1, ClosingGood DEF Aggregate
  <2>2. At(l, "close") \in Handler /\ At(l, "close") = [l EXCEPT !.pc = "close"]
    BY <1>2, <2>1, AtHandler
  <2> QED BY <1>2, <2>1, <2>2 DEF Handler
<1> HIDE DEF ok
<1>4. Good(ok, d) /\ Good(At(l, "close"), d)
  BY <1>1, <1>2, <1>3, ClosingGood, ParkedGood
<1> QED BY <1>1, <1>4, StoreCallSound DEF d

\* The exceptional closure is applied, refused or fails.
LEMMA CloseFailedRunSound ==
  ASSUME IndInv, NEW r \in Runs, CloseFailedRun(r)
  PROVE  IndInv'
<1> DEFINE l == h[r]
           d == db[r]
           applies == RunFinalizable(d, LinksOf(l.cursor), l.cursor, NoRow)
           e == RunFailed(d, l.cursor)
           done(closing) == [l EXCEPT !.pc = "raised", !.closing = closing]
<1>1. /\ Good(l, d)
      /\ StoreCall(r, applies, e, done("APPLIED"), done("CONFLICT"),
                   done("ERROR"))
  BY IndInvGood DEF CloseFailedRun
<1> HIDE DEF l, d
<1>2. "raised" \in Point /\ "raised" \in ParkedPoint
  BY DEF Point, Ended, ParkedPoint
<1>3. ASSUME NEW closing \in {"APPLIED", "CONFLICT", "ERROR"}
      PROVE  /\ done(closing) \in Handler /\ done(closing).pc = "raised"
             /\ done(closing).reads = l.reads
  <2>1. l \in Handler
    BY <1>1, ClosingGood
  <2> QED BY <1>2, <1>3, <2>1 DEF Handler
<1> HIDE DEF done
<1>4. ASSUME NEW closing \in {"APPLIED", "CONFLICT", "ERROR"}
      PROVE  Good(done(closing), d)
  BY <1>1, <1>2, <1>3, ClosingGood, ParkedGood
<1>5. ASSUME applies, NEW closing \in {"APPLIED", "CONFLICT", "ERROR"}
      PROVE  Good(done(closing), e)
  <2>1. Kept(e)
    BY <1>1, <1>5, RunFailedKept, ClosingGood DEF LinksOf
  <2>2. e.attempts = d.attempts /\ e.observation = d.observation
    BY <1>1, ClosingGood DEF RunFailed, LinkClosed, Aggregate
  <2> HIDE DEF e
  <2> QED BY <1>1, <1>2, <1>3, <2>1, <2>2, ClosingGood, ParkedGood
<1>6. applies \in BOOLEAN
  BY DEF RunFinalizable
<1> HIDE DEF applies, e
<1> QED BY <1>1, <1>4, <1>5, <1>6, StoreCallSound DEF d

-------------------------------------------------------------------------------
(* Processes.                                                               *)

\* What recovery loads is a closure.
LEMMA ClosureTyped ==
  ASSUME NEW d \in Aggregate
  PROVE  Closure(d) \in ClosureType
<1>1. /\ (IF d.tool \in ActiveToolCall THEN d.tool ELSE "ABSENT")
            \in ActiveToolCall \cup {"ABSENT"}
      /\ (IF d.tool \in ActiveToolCall THEN d.attempts ELSE 0) \in 0..1
  BY DEF Aggregate
<1> QED BY <1>1 DEF Closure, ClosureType, Aggregate

\* Recovery only takes away: the handler it races with finds its ToolCall
\* INTERRUPTED and its Run no longer RUNNING.
LEMMA RecoveredGood ==
  ASSUME NEW l, NEW d, Good(l, d), Recoverable(d)
  PROVE  Good(l, Recovered(d))
<1> DEFINE e == Recovered(d)
<1>1. d \in Aggregate /\ Kept(d) /\ d.run \in ActiveRun
  BY DEF Good, Kept, Recoverable
<1>2. Kept(e)
  BY <1>1, RecoveredKept
<1>3. /\ e.run = "INCOMPLETE" /\ e.attempts = d.attempts
      /\ e.observation = d.observation
      /\ e.tool = IF d.tool \in ActiveToolCall THEN "INTERRUPTED" ELSE d.tool
      /\ e.link = "ABSENT" <=> d.link = "ABSENT"
  BY <1>1 DEF Recovered, LinkClosed, Aggregate
<1> HIDE DEF e
<1>4. ToolAt(l, e) /\ ReadAt(l, e)
  BY <1>3 DEF Good, ToolAt, ReadAt, ActiveToolCall, TerminalStatus
<1>5. Stage(l, e)
  <2>1. l.pc \in AnswerPoint => Deserved(l, e)
    BY <1>3 DEF Good, Stage, Deserved, ActiveToolCall
  <2>2. l.pc \notin UnstartedPoint /\ l.pc # "returned"
    BY <1>1 DEF Good, Stage, ActiveRun
  <2> QED BY <1>3, <2>1, <2>2 DEF Good, Stage, InStep
<1> QED BY <1>2, <1>4, <1>5 DEF Good, e

\* Startup, recovery, shutdown and crash.
LEMMA ProcessSound ==
  ASSUME IndInv, NEW p \in Procs, StartupStep(p) \/ Shutdown(p) \/ Crash(p)
  PROVE  IndInv'
<1>1. /\ db \in [Runs -> Aggregate] /\ h \in [Runs -> Handler] /\ Frame
      /\ \A r \in Runs : Good(h[r], db[r])
  BY IndInvGood
<1>2. NoClosure \in ClosureType
  BY ClosureTyped, NoRecordsKept DEF Kept, NoClosure
<1>3. phase' \in [Procs -> Phase]
  BY <1>1 DEF Frame, Phase, StartupStep, Boot, LoadClosure, ClaimAndApply,
              Shutdown, Crash
<1>4. claim' \in [Procs -> [run: Runs \cup {NoRun}, seen: ClosureType]]
  BY <1>1, <1>2, ClosureTyped
  DEF Frame, Unclaimed, StartupStep, Boot, LoadClosure, ClaimAndApply,
      Shutdown, Crash
<1>5. faults' \in 0..MaxFaults
  BY <1>1, BoundAssumption
  DEF Frame, Fault, StartupStep, Boot, LoadClosure, ClaimAndApply, Shutdown,
      Crash
<1>6. ASSUME UNCHANGED <<db, h>> PROVE IndInv'
  BY <1>1, <1>3, <1>4, <1>5, <1>6, IndInvGood
  DEF IndInv, TypeOK, Good, Kept
<1>7. CASE Boot(p) \/ LoadClosure(p) \/ Shutdown(p)
  BY <1>6, <1>7 DEF Boot, LoadClosure, Shutdown
<1>8. CASE ClaimAndApply(p)
  <2> DEFINE r == claim[p].run
  <2>1. h' = h
    BY <1>8 DEF ClaimAndApply
  <2>2. CASE /\ Recoverable(db[r])
             /\ db' = [db EXCEPT ![r] = Recovered(db[r])]
    <3>1. CASE r \in Runs
      <4>1. Good(h[r], Recovered(db[r]))
        BY <1>1, <2>2, <3>1, RecoveredGood
      <4>2. h' = [h EXCEPT ![r] = h[r]]
        BY <1>1, <2>1
      <4>3. Sound(r)
        BY <2>2, <4>1, <4>2 DEF Sound
      <4> QED BY <1>3, <1>4, <1>5, <3>1, <4>3, SoundStep DEF Frame
    <3>2. CASE r \notin Runs
      <4>1. db' = db
        BY <1>1, <2>2, <3>2
      <4> QED BY <1>6, <2>1, <4>1
    <3> QED BY <3>1, <3>2
  <2>3. CASE db' = db
    BY <1>6, <2>1, <2>3
  <2> QED BY <1>8, <2>2, <2>3 DEF ClaimAndApply
<1>9. CASE Crash(p)
  <2>1. /\ db' = db
        /\ h' = [r \in Runs |-> IF r \in Hosted(p) THEN At(h[r], "dead")
                                                  ELSE h[r]]
    BY <1>9 DEF Crash
  <2>2. ASSUME NEW r \in Runs PROVE Good(h'[r], db'[r])
    <3>1. "dead" \in Point /\ "dead" \in ParkedPoint
      BY DEF Point, Ended, ParkedPoint
    <3>2. /\ At(h[r], "dead") \in Handler
          /\ At(h[r], "dead").pc = "dead"
          /\ At(h[r], "dead").reads = h[r].reads
      <4>1. h[r] \in Handler
        BY <1>1
      <4> QED BY <3>1, <4>1, AtHandler DEF Handler
    <3>3. Good(At(h[r], "dead"), db[r])
      BY <1>1, <3>1, <3>2, ClosingGood, ParkedGood
    <3> QED BY <1>1, <2>1, <3>3
  <2>3. h' \in [Runs -> Handler]
    BY <2>1, <2>2 DEF Good
  <2> QED BY <1>1, <1>3, <1>4, <1>5, <2>1, <2>2, <2>3
          DEF IndInv, TypeOK, Good, Kept
<1> QED BY <1>7, <1>8, <1>9 DEF StartupStep

-------------------------------------------------------------------------------
(* The theorems.                                                            *)

\* Nothing is stored and no process runs.
LEMMA InitIndInv == Init => IndInv
<1> SUFFICES ASSUME Init PROVE IndInv
  OBVIOUS
<1>1. IdleHandler \in Handler
  BY DEF IdleHandler, Handler, Point, NoRow, Projection, Outcome
<1>2. NoClosure \in ClosureType
  BY ClosureTyped, NoRecordsKept DEF Kept, NoClosure
<1>3. Good(IdleHandler, NoRecords)
  BY <1>1, NoRecordsKept
  DEF Good, IdleHandler, NoRecords, Stage, ToolAt, ReadAt, EntryPoint,
      ServicePoint, PlainPoint, ExecutorPoint
<1>4. TypeOK
  BY <1>1, <1>2, NoRecordsKept, BoundAssumption
  DEF Init, TypeOK, Kept, Phase
<1> QED BY <1>3, <1>4 DEF IndInv, Init, Good, Kept

\* Every step of a handler keeps IndInv.
LEMMA HandlerStepSound ==
  ASSUME IndInv, NEW r \in Runs, HandlerStep(r)
  PROVE  IndInv'
  BY EntrySound, PlainWriteSound, ProposeNextMoveSound,
     CreateInitialTaskGraphSound, HookSound, LoadTaskSound, LoadUnitSound,
     SaveGateDecisionSound, AuthorizeSound, InsertToolCallSound,
     StartToolCallSound, ReadSound, FinalizeToolCallSound,
     SaveObservationSound, InterruptToolCallSound, TraceInterruptionSound,
     PlanPresentationSound, RenderSound, FinalizeRunSound, ReloadTaskSound,
     CloseFailedRunSound
  DEF HandlerStep

\* IndInv is inductive.
LEMMA NextIndInv == IndInv /\ [Next]_vars => IndInv'
<1> SUFFICES ASSUME IndInv, [Next]_vars PROVE IndInv'
  OBVIOUS
<1>1. CASE Next
  <2>1. CASE \E r \in Runs, p \in Procs : Accept(r, p)
    BY <2>1, AcceptSound
  <2>2. CASE \E r \in Runs : HandlerStep(r)
    BY <2>2, HandlerStepSound
  <2>3. CASE \E p \in Procs : StartupStep(p) \/ Shutdown(p) \/ Crash(p)
    BY <2>3, ProcessSound
  <2> QED BY <1>1, <2>1, <2>2, <2>3 DEF Next
<1>2. CASE UNCHANGED vars
  BY <1>2 DEF vars, IndInv, TypeOK
<1> QED BY <1>1, <1>2

\* The handler and record facts of IndInv hold in every reachable state, and
\* the invariants of AgentRunSafety follow from them.
THEOREM AgentRunInvariant == Spec => []IndInv
<1>1. Init => IndInv
  BY InitIndInv
<1>2. IndInv /\ [Next]_vars => IndInv'
  BY NextIndInv
<1> QED BY <1>1, <1>2, PTL DEF Spec

\* Type correctness: a second attempt of a ToolCall, an undefined status or a
\* claim that is no closure is never reached, whatever the number of Runs,
\* processes and faults.
THEOREM TypeCorrect == Spec => []TypeOK
<1>1. IndInv => TypeOK
  BY DEF IndInv
<1> QED BY <1>1, AgentRunInvariant, PTL

\* The reply, the reason and the RunStopped event of a Run agree with its
\* status (finalize_run_if_active and the recovery command race for it).
THEOREM TerminalEvidenceHolds == Spec => []TerminalEvidence
<1>1. IndInv => TerminalEvidence
  BY DEF IndInv, Consistent, TerminalEvidence
<1> QED BY <1>1, AgentRunInvariant, PTL

\* A terminal Run has no active ToolCall, no open RunTaskLink and the result
\* version of its Task, although the Task and ToolCall writes of
\* PostgresRecordAdapter do not compare the Run row.
THEOREM ClosedRunIsClosedHolds == Spec => []ClosedRunIsClosed
<1>1. ASSUME NEW d, d \in Aggregate, Consistent(d), d.run \in TerminalRun
      PROVE  /\ d.tool \notin ActiveToolCall
             /\ d.link # "OPEN"
             /\ d.link = "CLOSED" => d.resultVersion = d.task.version
  BY <1>1 DEF Consistent, GraphConsistent, ToolConsistent, TerminalRun
<1>2. IndInv => ClosedRunIsClosed
  BY <1>1 DEF IndInv, TypeOK, ClosedRunIsClosed
<1> QED BY <1>2, AgentRunInvariant, PTL

\* load_next_restart_recovery_closure decodes every active Run there can be:
\* startup is never kept from serving by the records themselves.
THEOREM ActiveClosureLoadableHolds == Spec => []ActiveClosureLoadable
<1>1. ASSUME NEW d, d \in Aggregate, Consistent(d), Recoverable(d)
      PROVE  ClosureLoadable(d)
  <2>1. /\ GraphConsistent(d) /\ ToolConsistent(d)
        /\ d.run \in {"CREATED", "RUNNING"}
    BY <1>1 DEF Consistent, Recoverable, ActiveRun
  <2>2. d.task \in {NoRow, InitialRow, WaitingRow}
    BY <1>1, <2>1 DEF GraphConsistent, TerminalRun, Aggregate
  <2>3. d.task.version <= 2
    BY <2>2 DEF NoRow, InitialRow, WaitingRow, Moved
  <2>4. d.link # "CLOSED" /\ (d.link = "OPEN" <=> d.task # NoRow)
        /\ d.unit = d.task
    BY <1>1, <2>1 DEF GraphConsistent, TerminalRun, Aggregate
  <2> QED BY <1>1, <2>1, <2>3, <2>4
          DEF ClosureLoadable, GraphConsistent, ToolConsistent, ActiveToolCall
<1>2. IndInv => ActiveClosureLoadable
  BY <1>1 DEF IndInv, TypeOK, ActiveClosureLoadable
<1> QED BY <1>2, AgentRunInvariant, PTL

\* The order port is called only behind start_tool_call_if_created.
THEOREM DispatchBehindFenceHolds == Spec => []DispatchBehindFence
<1>1. IndInv => DispatchBehindFence
  BY DEF IndInv, ReadAt, Consistent, ToolConsistent, DispatchBehindFence
<1> QED BY <1>1, AgentRunInvariant, PTL

\* save_observation stores nothing that was not read and finalized SUCCEEDED.
THEOREM ObservationHasSourceHolds == Spec => []ObservationHasSource
<1>1. IndInv => ObservationHasSource
  BY DEF IndInv, ReadAt, Consistent, ToolConsistent, ObservationHasSource
<1> QED BY <1>1, AgentRunInvariant, PTL

\* What handle returned is what the database holds, for every interleaving
\* with the recoveries of other processes.
THEOREM AnswerIsDurableHolds == Spec => []AnswerIsDurable
<1>1. IndInv => AnswerIsDurable
  BY DEF IndInv, Stage, Consistent, Evidence, AnswerIsDurable
<1> QED BY <1>1, AgentRunInvariant, PTL

-------------------------------------------------------------------------------
(* What every step of AgentRun does to the records of a Run: it leaves     *)
(* them alone or makes one of the conditional writes of RunRecords.  From  *)
(* it follow that a verdict is final and that AgentRun implements          *)
(* RunLifecycle.                                                           *)
HIDE DEF UnstartedPoint, GraphlessPoint, DecidingPoint, GatePoint,
        AuthorizedPoint, InFlightPoint, ReadPoint, ObservedPoint, AnswerPoint,
        LoadedPoint, GraphPoint

\* One conditional write of the record port, with its condition; all but the
\* insertion of a Trace event.
Alter(d, e) ==
  \/ d.run = "ABSENT" /\ e = RunInserted(d)
  \/ RunStartable(d) /\ e = RunStarted(d)
  \/ GraphCreatable(d) /\ e = GraphCreated(d)
  \/ \E w \in Document : e = Written(d, w)
  \/ /\ d.run = "RUNNING" /\ TransitionApplies(d, InitialRow, InitialRow)
     /\ e = TaskTransitioned(d, InitialRow, InitialRow, "WAITING_USER")
  \/ ToolCallInsertable(d) /\ e = ToolCallInserted(d, InitialRow.version)
  \/ ToolCallStartable(d) /\ e = ToolCallStarted(d)
  \/ /\ ToolCallFinalizable(d)
     /\ \E status \in ToolCallStatus \ ActiveToolCall :
          e = ToolCallFinalized(d, status)
  \/ ObservationSourced(d) /\ e = ObservationSaved(d)
  \/ \E links, task, unit : \E stop \in CompletionReason :
       RunFinalizable(d, links, task, unit)
         /\ e = RunCompleted(d, stop, task, unit)
  \/ \E links, task :
       RunFinalizable(d, links, task, NoRow) /\ e = RunFailed(d, task)
  \/ Recoverable(d) /\ e = Recovered(d)
Write(d, e) == Alter(d, e) \/ \E w \in TraceEventType : e = Written(d, w)

\* A step that writes to the records of Run r, or to none.
Alters(r) ==
  \/ db' = db
  \/ \E e : Alter(db[r], e) /\ db' = [db EXCEPT ![r] = e]
Writes(r) ==
  \/ db' = db
  \/ \E e : Write(db[r], e) /\ db' = [db EXCEPT ![r] = e]

-------------------------------------------------------------------------------
(* Every step is a write.                                                   *)

\* A call whose condition and effect are one of those writes.
LEMMA StoreCallAlters ==
  ASSUME NEW r \in Runs,
         NEW applies \in BOOLEAN, NEW committed, NEW ok, NEW refused, NEW error,
         StoreCall(r, applies, committed, ok, refused, error),
         applies => Alter(db[r], committed)
  PROVE  Alters(r)
  BY DEF StoreCall, Alters

\* A call that only reads.
LEMMA StoreReadAlters ==
  ASSUME IndInv, NEW r \in Runs, NEW applies, NEW ok, NEW refused, NEW error,
         StoreCall(r, applies, db[r], ok, refused, error)
  PROVE  Alters(r)
<1>1. db = [db EXCEPT ![r] = db[r]]
  BY IndInvGood
<1> QED BY <1>1 DEF StoreCall, Alters

\* Intake writes nothing a Run aggregate holds.
LEMMA EntryAlters ==
  ASSUME IndInv, NEW r \in Runs, Intake(r) \/ InsertRun(r) \/ StartRun(r)
  PROVE  Alters(r)
<1>1. CASE Intake(r)
  BY <1>1, StoreReadAlters DEF Intake
<1>2. CASE InsertRun(r)
  <2>1. db[r].run = "ABSENT" => Alter(db[r], RunInserted(db[r]))
    BY DEF Alter
  <2> QED BY <1>2, <2>1, StoreCallAlters DEF InsertRun
<1>3. CASE StartRun(r)
  <2>1. RunStartable(db[r]) => Alter(db[r], RunStarted(db[r]))
    BY DEF Alter
  <2>2. RunStartable(db[r]) \in BOOLEAN
    BY DEF RunStartable
  <2> QED BY <1>3, <2>1, <2>2, StoreCallAlters DEF StartRun
<1> QED BY <1>1, <1>2, <1>3

\* From the Task graph to the Gate decision.
LEMMA GraphAlters ==
  ASSUME IndInv, NEW r \in Runs,
         \/ CreateInitialTaskGraph(r) \/ Hook(r) \/ LoadTask(r) \/ LoadUnit(r)
         \/ SaveGateDecision(r)
  PROVE  Alters(r)
<1> DEFINE d == db[r]
<1>1. CASE CreateInitialTaskGraph(r)
  <2>1. GraphCreatable(d) => Alter(d, GraphCreated(d))
    BY DEF Alter
  <2>2. GraphCreatable(d) \in BOOLEAN
    BY DEF GraphCreatable
  <2> QED BY <1>1, <2>1, <2>2, StoreCallAlters DEF CreateInitialTaskGraph
<1>2. CASE Hook(r)
  <2> DEFINE applies == TransitionApplies(d, InitialRow, InitialRow)
             e == TaskTransitioned(d, InitialRow, InitialRow, "WAITING_USER")
  <2>1. Good(h[r], d) /\ h[r].pc = "hook"
    BY <1>2, IndInvGood DEF Hook
  <2>2. applies => d.run = "RUNNING"
    BY <2>1, RunningStage
    DEF GraphConsistent, InitialRow, ActiveTask, TransitionApplies,
        ServicePoint
  <2>3. applies => Alter(d, e)
    BY <2>2 DEF Alter
  <2>4. applies \in BOOLEAN
    BY DEF TransitionApplies
  <2>5. \/ UNCHANGED db
        \/ StoreCall(r, applies, e, At(h[r], "hook_changed"), Raised(h[r]),
                     Raised(h[r]))
    BY <1>2 DEF Hook, Local
  <2> HIDE DEF e, applies, d
  <2>6. CASE UNCHANGED db
    BY <2>6 DEF Alters
  <2>7. CASE StoreCall(r, applies, e, At(h[r], "hook_changed"), Raised(h[r]),
                       Raised(h[r]))
    BY <2>3, <2>4, <2>7, StoreCallAlters DEF d
  <2> QED BY <2>5, <2>6, <2>7
<1>3. CASE LoadTask(r) \/ LoadUnit(r)
  BY <1>3, StoreReadAlters DEF LoadTask, LoadUnit
<1>4. CASE SaveGateDecision(r)
  <2>1. Alter(d, Written(d, "GATE_DECISION"))
    BY DEF Alter, Document
  <2> QED BY <1>4, <2>1, StoreCallAlters DEF SaveGateDecision
<1> QED BY <1>1, <1>2, <1>3, <1>4

\* The executor.
LEMMA ToolAlters ==
  ASSUME IndInv, NEW r \in Runs,
         \/ InsertToolCall(r) \/ StartToolCall(r) \/ FinalizeToolCall(r)
         \/ SaveObservation(r) \/ InterruptToolCall(r)
  PROVE  Alters(r)
<1> DEFINE d == db[r]
<1>1. CASE InsertToolCall(r)
  <2>1. ToolCallInsertable(d) => Alter(d, ToolCallInserted(d, InitialRow.version))
    BY DEF Alter
  <2>2. ToolCallInsertable(d) \in BOOLEAN
    BY DEF ToolCallInsertable
  <2> QED BY <1>1, <2>1, <2>2, StoreCallAlters DEF InsertToolCall
<1>2. CASE StartToolCall(r)
  <2>1. ToolCallStartable(d) => Alter(d, ToolCallStarted(d))
    BY DEF Alter
  <2>2. ToolCallStartable(d) \in BOOLEAN
    BY DEF ToolCallStartable
  <2> QED BY <1>2, <2>1, <2>2, StoreCallAlters DEF StartToolCall
<1>3. ASSUME NEW status \in ToolCallStatus \ ActiveToolCall
      PROVE  ToolCallFinalizable(d) => Alter(d, ToolCallFinalized(d, status))
  BY DEF Alter
<1>4. ToolCallFinalizable(d) \in BOOLEAN
  BY DEF ToolCallFinalizable
<1>5. CASE FinalizeToolCall(r)
  <2>1. TerminalStatus(h[r].outcome) \in ToolCallStatus \ ActiveToolCall
    BY DEF TerminalStatus, ToolCallStatus, ActiveToolCall
  <2> QED BY <1>3, <1>4, <1>5, <2>1, StoreCallAlters DEF FinalizeToolCall
<1>6. CASE InterruptToolCall(r)
  <2>1. "INTERRUPTED" \in ToolCallStatus \ ActiveToolCall
    BY DEF ToolCallStatus, ActiveToolCall
  <2> QED BY <1>3, <1>4, <1>6, <2>1, StoreCallAlters DEF InterruptToolCall
<1>7. CASE SaveObservation(r)
  <2>1. ObservationSourced(d) => Alter(d, ObservationSaved(d))
    BY DEF Alter
  <2>2. ObservationSourced(d) \in BOOLEAN
    BY DEF ObservationSourced
  <2> QED BY <1>7, <2>1, <2>2, StoreCallAlters DEF SaveObservation
<1> QED BY <1>1, <1>2, <1>5, <1>6, <1>7

\* The terminal aggregate and the exceptional closure.
LEMMA ClosingAlters ==
  ASSUME IndInv, NEW r \in Runs,
         FinalizeRun(r) \/ ReloadTask(r) \/ CloseFailedRun(r)
  PROVE  Alters(r)
<1> DEFINE d == db[r]
           l == h[r]
<1>1. Good(l, d)
  BY IndInvGood
<1>2. CASE FinalizeRun(r)
  <2> DEFINE applies == RunFinalizable(d, LinksOf(l.cursor), l.task, l.unit)
             e == RunCompleted(d, l.stop, l.task, l.unit)
  <2>1. l.stop \in CompletionReason
    <3>1. l.pc = "finalize"
      BY <1>2 DEF FinalizeRun
    <3> HIDE DEF l, d
    <3>2. l \in Handler /\ l.stop # "NONE"
      BY <1>1, <3>1 DEF Good, Stage, Deserved, AnswerPoint
    <3> QED BY <3>2 DEF Handler
  <2>2. applies => Alter(d, e)
    BY <2>1 DEF Alter
  <2>3. applies \in BOOLEAN
    BY DEF RunFinalizable
  <2>4. StoreCall(r, applies, e, [l EXCEPT !.pc = "returned", !.running = FALSE,
                                          !.result = l.stop],
                  Raised(l), Raised(l))
    BY <1>2 DEF FinalizeRun
  <2> HIDE DEF applies, e
  <2> QED BY <2>2, <2>3, <2>4, StoreCallAlters
<1>3. CASE ReloadTask(r)
  BY <1>3, StoreReadAlters DEF ReloadTask
<1>4. CASE CloseFailedRun(r)
  <2> DEFINE applies == RunFinalizable(d, LinksOf(l.cursor), l.cursor, NoRow)
             e == RunFailed(d, l.cursor)
             done(closing) == [l EXCEPT !.pc = "raised", !.closing = closing]
  <2>1. applies => Alter(d, e)
    BY DEF Alter
  <2>2. applies \in BOOLEAN
    BY DEF RunFinalizable
  <2>3. StoreCall(r, applies, e, done("APPLIED"), done("CONFLICT"),
                  done("ERROR"))
    BY <1>4 DEF CloseFailedRun
  <2> HIDE DEF applies, e
  <2> QED BY <2>1, <2>2, <2>3, StoreCallAlters
<1> QED BY <1>2, <1>3, <1>4

\* Restart recovery.
LEMMA ClaimAlters ==
  ASSUME IndInv, NEW p \in Procs, ClaimAndApply(p)
  PROVE  \/ db' = db
         \/ \E r \in Runs : Alters(r)
<1> DEFINE r == claim[p].run
<1>1. CASE db' = db
  BY <1>1
<1>2. CASE /\ Recoverable(db[r])
           /\ db' = [db EXCEPT ![r] = Recovered(db[r])]
  <2>1. CASE r \in Runs
    <3>1. Alter(db[r], Recovered(db[r]))
      BY <1>2 DEF Alter
    <3> QED BY <1>2, <2>1, <3>1 DEF Alters
  <2>2. CASE r \notin Runs
    <3>1. db \in [Runs -> Aggregate]
      BY IndInvGood
    <3> QED BY <1>2, <2>2, <3>1
  <2> QED BY <2>1, <2>2
<1> QED BY <1>1, <1>2 DEF ClaimAndApply

\* What one handler step writes: a plain insert, the event of an interruption,
\* or one conditional write of its own Run.
LEMMA HandlerWrites ==
  ASSUME IndInv, NEW r \in Runs, HandlerStep(r)
  PROVE  PlainWrite(r) \/ TraceInterruption(r) \/ Alters(r)
<1>1. CASE \/ ProposeNextMove(r) \/ Authorize(r) \/ DispatchRead(r)
           \/ OrderAnswer(r) \/ PlanPresentation(r) \/ Render(r)
  BY <1>1 DEF ProposeNextMove, Authorize, DispatchRead, OrderAnswer,
              PlanPresentation, Render, Local, Alters
<1> QED BY <1>1, EntryAlters, GraphAlters, ToolAlters, ClosingAlters
        DEF HandlerStep

\* What a process writes: the recovery of one Run, or nothing.
LEMMA ProcessWrites ==
  ASSUME IndInv, NEW p \in Procs, StartupStep(p) \/ Shutdown(p) \/ Crash(p)
  PROVE  db' = db \/ \E r \in Runs : Alters(r)
<1>1. CASE ClaimAndApply(p)
  BY <1>1, ClaimAlters
<1>2. CASE ~ClaimAndApply(p)
  BY <1>2 DEF StartupStep, Boot, LoadClosure, Shutdown, Crash
<1> QED BY <1>1, <1>2

\* A document or a Trace event.
LEMMA PlainWrites ==
  ASSUME NEW r \in Runs, NEW w \in Document \cup TraceEventType, NEW ok,
         NEW refused, NEW error,
         StoreCall(r, TRUE, Written(db[r], w), ok, refused, error)
  PROVE  Writes(r)
<1>1. Write(db[r], Written(db[r], w))
  BY DEF Write, Alter
<1> QED BY <1>1 DEF StoreCall, Writes

\* The records change by one conditional write of one Run at a time.
LEMMA StepWrites ==
  ASSUME IndInv, [Next]_vars
  PROVE  \/ db' = db
         \/ \E r \in Runs : Writes(r)
<1>1. ASSUME NEW r \in Runs, HandlerStep(r) PROVE Writes(r)
  <2>1. CASE PlainWrite(r)
    <3>1. WriteAt(h[r]) \in Document \cup TraceEventType
      BY <2>1, WriteAtType DEF PlainWrite
    <3> QED BY <2>1, <3>1, PlainWrites DEF PlainWrite
  <2>2. CASE TraceInterruption(r)
    <3>1. "ToolCallInterrupted" \in TraceEventType
      BY DEF TraceEventType
    <3> QED BY <2>2, <3>1, PlainWrites DEF TraceInterruption
  <2>3. CASE Alters(r)
    BY <2>3 DEF Alters, Writes, Write
  <2> QED BY <1>1, <2>1, <2>2, <2>3, HandlerWrites
<1>2. CASE \E r \in Runs, p \in Procs : Accept(r, p)
  BY <1>2 DEF Accept, Local
<1>3. CASE \E p \in Procs : StartupStep(p) \/ Shutdown(p) \/ Crash(p)
  BY <1>3, ProcessWrites DEF Alters, Writes, Write
<1>4. CASE UNCHANGED vars
  BY <1>4 DEF vars
<1> QED BY <1>1, <1>2, <1>3, <1>4 DEF Next

-------------------------------------------------------------------------------
(* A verdict is final.                                                      *)

\* No conditional write applies to a terminal Run, except those of documents,
\* Trace events and the Observation of a ToolCall that had SUCCEEDED.
LEMMA VerdictKept ==
  ASSUME NEW d, NEW e, Kept(d), Write(d, e), d.run \in TerminalRun
  PROVE  Verdict(e) = Verdict(d)
<1>1. /\ d \in Aggregate /\ ToolConsistent(d)
      /\ d.run \notin {"ABSENT", "CREATED", "RUNNING"}
  BY DEF Kept, Consistent, TerminalRun
<1>2. CASE \E w \in Document \cup TraceEventType : e = Written(d, w)
  BY <1>1, <1>2 DEF Written, Verdict, Aggregate
<1>3. CASE ObservationSourced(d) /\ e = ObservationSaved(d)
  BY <1>1, <1>3 DEF ObservationSaved, Verdict, Aggregate
<1>4. d.tool \notin {"CREATED", "RUNNING"}
  BY <1>1 DEF ToolConsistent, ActiveToolCall
<1> QED BY <1>1, <1>2, <1>3, <1>4
        DEF Write, Alter, RunStartable, GraphCreatable, ToolCallInsertable,
            ToolCallStartable, ToolCallFinalizable, RunFinalizable,
            Recoverable, ActiveRun

LEMMA VerdictStep ==
  ASSUME IndInv, [Next]_vars, NEW r \in Runs, db[r].run \in TerminalRun
  PROVE  Verdict(db'[r]) = Verdict(db[r])
<1>1. Kept(db[r]) /\ db \in [Runs -> Aggregate]
  BY IndInvGood DEF Good
<1>2. CASE db' = db
  BY <1>2
<1>3. ASSUME NEW q \in Runs, NEW e, Write(db[q], e),
             db' = [db EXCEPT ![q] = e]
      PROVE  Verdict(db'[r]) = Verdict(db[r])
  <2>1. CASE q = r
    <3>1. db'[r] = e
      BY <1>1, <1>3, <2>1
    <3> QED BY <1>1, <1>3, <2>1, <3>1, VerdictKept
  <2>2. CASE q # r
    BY <1>1, <1>3, <2>2
  <2> QED BY <2>1, <2>2
<1> QED BY <1>2, <1>3, StepWrites DEF Writes

\* Once a Run is terminal, neither a late write of its handler nor a second
\* recovery changes what its terminal transaction decided.
THEOREM VerdictIsFinal == Spec => ClosedForever
<1> DEFINE Final == \A r \in Runs :
             db[r].run \in TerminalRun => Verdict(db'[r]) = Verdict(db[r])
<1>1. IndInv /\ [Next]_vars => [Final]_vars
  BY VerdictStep
<1> QED BY <1>1, AgentRunInvariant, PTL DEF Spec, ClosedForever

-------------------------------------------------------------------------------
(* Refinement of RunLifecycle.                                              *)

\* The step RunLifecycle allows one Run, on the values of life[r].
LifeStep(a, b) ==
  \/ b = a
  \/ a.status = "ABSENT" /\ b = [a EXCEPT !.status = "CREATED"]
  \/ a.status = "CREATED" /\ b = [a EXCEPT !.status = "RUNNING"]
  \/ a.status = "RUNNING" /\ a.link = "ABSENT" /\ b = [a EXCEPT !.link = "OPEN"]
  \/ /\ a.status = "RUNNING" /\ a.link = "OPEN" /\ a.tool = "ABSENT"
     /\ b = [a EXCEPT !.tool = "ACTIVE"]
  \/ /\ a.status = "RUNNING" /\ a.tool = "ACTIVE"
     /\ b = [a EXCEPT !.tool = "ENDED"]
  \/ /\ a.status = "RUNNING" /\ a.tool # "ACTIVE"
     /\ \E reason \in CompletionReason :
          b = [status |-> "COMPLETED", reason |-> reason,
               reply |-> TRUE, stopped |-> TRUE,
               link |-> Lifecycle!Closed(a.link), tool |-> a.tool]
  \/ /\ a.status = "RUNNING" /\ a.tool # "ACTIVE"
     /\ b = [status |-> "FAILED", reason |-> "NONE",
             reply |-> FALSE, stopped |-> FALSE,
             link |-> Lifecycle!Closed(a.link), tool |-> a.tool]
  \/ /\ a.status \in {"CREATED", "RUNNING"}
     /\ b = [status |-> "INCOMPLETE", reason |-> RestartReason,
             reply |-> FALSE, stopped |-> TRUE,
             link |-> Lifecycle!Closed(a.link), tool |-> Lifecycle!Cut(a.tool)]

\* The reply and the RunStopped event of consistent records follow from the
\* status of the Run.
ToolLife(tool) ==
  IF tool = "ABSENT" THEN "ABSENT"
  ELSE IF tool \in ActiveToolCall THEN "ACTIVE" ELSE "ENDED"
LifeAt(run, stop, link, tool) ==
  [status |-> run, reason |-> stop, reply |-> run = "COMPLETED",
   stopped |-> run \in {"COMPLETED", "INCOMPLETE"}, link |-> link,
   tool |-> ToolLife(tool)]

\* What RunLifecycle sees of consistent records.
LEMMA LifeOfKept ==
  ASSUME NEW d, Kept(d)
  PROVE  Life(d) = LifeAt(d.run, d.stop, d.link, d.tool)
<1>1. d \in Aggregate /\ Evidence(d)
  BY DEF Kept, Consistent
<1>2. d.reply = (d.run = "COMPLETED")
  BY <1>1 DEF Evidence, Aggregate
<1>3. ("RunStopped" \in Traced(d)) = (d.run \in {"COMPLETED", "INCOMPLETE"})
  BY <1>1 DEF Evidence, Traced, Once, Never
<1> QED BY <1>2, <1>3 DEF Life, LifeAt, ToolLife

\* The two Boolean fields at each status a Run can end with.
LEMMA LifeAtEnd ==
  ASSUME NEW stop, NEW link, NEW tool
  PROVE  /\ LifeAt("COMPLETED", stop, link, tool) =
              [status |-> "COMPLETED", reason |-> stop, reply |-> TRUE,
               stopped |-> TRUE, link |-> link, tool |-> ToolLife(tool)]
         /\ LifeAt("FAILED", stop, link, tool) =
              [status |-> "FAILED", reason |-> stop, reply |-> FALSE,
               stopped |-> FALSE, link |-> link, tool |-> ToolLife(tool)]
         /\ LifeAt("INCOMPLETE", stop, link, tool) =
              [status |-> "INCOMPLETE", reason |-> stop, reply |-> FALSE,
               stopped |-> TRUE, link |-> link, tool |-> ToolLife(tool)]
<1>1. /\ ("COMPLETED" = "COMPLETED") = TRUE
      /\ ("FAILED" = "COMPLETED") = FALSE
      /\ ("INCOMPLETE" = "COMPLETED") = FALSE
      /\ ("COMPLETED" \in {"COMPLETED", "INCOMPLETE"}) = TRUE
      /\ ("FAILED" \in {"COMPLETED", "INCOMPLETE"}) = FALSE
      /\ ("INCOMPLETE" \in {"COMPLETED", "INCOMPLETE"}) = TRUE
  OBVIOUS
<1> QED BY <1>1 DEF LifeAt

\* Each conditional write is a step of RunLifecycle or invisible to it.
LEMMA WriteLife ==
  ASSUME NEW d, NEW e, Kept(d), Kept(e), Write(d, e)
  PROVE  LifeStep(Life(d), Life(e))
<1> DEFINE a == LifeAt(d.run, d.stop, d.link, d.tool)
           b == LifeAt(e.run, e.stop, e.link, e.tool)
<1>1. SUFFICES LifeStep(a, b)
  BY LifeOfKept
<1>2. /\ d \in Aggregate /\ GraphConsistent(d) /\ ToolConsistent(d)
      /\ Evidence(d)
  BY DEF Kept, Consistent
<1>3. CASE d.run = "ABSENT" /\ e = RunInserted(d)
  BY <1>2, <1>3 DEF RunInserted, Aggregate, LifeStep, LifeAt
<1>4. CASE RunStartable(d) /\ e = RunStarted(d)
  BY <1>2, <1>4 DEF RunStartable, RunStarted, Aggregate, LifeStep, LifeAt
<1>5. CASE GraphCreatable(d) /\ e = GraphCreated(d)
  <2>1. a.status = "RUNNING" /\ a.link = "ABSENT" /\ b = [a EXCEPT !.link = "OPEN"]
    BY <1>2, <1>5 DEF GraphCreatable, GraphCreated, Aggregate, LifeAt
  <2> HIDE DEF a, b
  <2> QED BY <2>1 DEF LifeStep
<1>6. CASE \/ \E w \in Document \cup TraceEventType : e = Written(d, w)
           \/ e = TaskTransitioned(d, InitialRow, InitialRow, "WAITING_USER")
           \/ e = ObservationSaved(d)
  <2>1. /\ e.run = d.run /\ e.stop = d.stop /\ e.link = d.link
        /\ e.tool = d.tool
    BY <1>2, <1>6 DEF Written, TaskTransitioned, ObservationSaved, Aggregate
  <2> QED BY <2>1 DEF LifeStep
<1>7. CASE ToolCallInsertable(d) /\ e = ToolCallInserted(d, InitialRow.version)
  <2>1. d.link = "OPEN"
    BY <1>2, <1>7 DEF ToolCallInsertable, GraphConsistent, TerminalRun, Aggregate
  <2>2. /\ a.status = "RUNNING" /\ a.link = "OPEN" /\ a.tool = "ABSENT"
        /\ b = [a EXCEPT !.tool = "ACTIVE"]
    BY <1>2, <1>7, <2>1
    DEF ToolCallInsertable, ToolCallInserted, Aggregate, LifeAt, ToolLife,
        ActiveToolCall
  <2> HIDE DEF a, b
  <2> QED BY <2>2 DEF LifeStep
<1>8. CASE ToolCallStartable(d) /\ e = ToolCallStarted(d)
  <2>1. /\ e.run = d.run /\ e.stop = d.stop /\ e.link = d.link
        /\ e.tool = "RUNNING" /\ d.tool = "CREATED"
    BY <1>2, <1>8 DEF ToolCallStartable, ToolCallStarted, Aggregate
  <2> QED BY <2>1 DEF LifeStep, LifeAt, ToolLife, ActiveToolCall
<1>9. CASE /\ ToolCallFinalizable(d)
           /\ \E status \in ToolCallStatus \ ActiveToolCall :
                e = ToolCallFinalized(d, status)
  <2>1. /\ e.run = d.run /\ e.stop = d.stop /\ e.link = d.link
        /\ e.tool \in ToolCallStatus \ ActiveToolCall /\ d.tool = "RUNNING"
        /\ d.run = "RUNNING"
    BY <1>2, <1>9
    DEF ToolCallFinalizable, ToolCallFinalized, Aggregate, ToolConsistent,
        ActiveToolCall
  <2>2. ToolLife(e.tool) = "ENDED" /\ ToolLife(d.tool) = "ACTIVE"
    BY <2>1 DEF ToolLife, ToolCallStatus, ActiveToolCall
  <2>3. /\ a.status = "RUNNING" /\ a.tool = "ACTIVE"
        /\ b = [a EXCEPT !.tool = "ENDED"]
    BY <2>1, <2>2 DEF LifeAt
  <2> HIDE DEF a, b
  <2> QED BY <2>3 DEF LifeStep
<1>10. CASE \E links, task, unit : \E stop \in CompletionReason :
              RunFinalizable(d, links, task, unit)
                /\ e = RunCompleted(d, stop, task, unit)
  <2>1. PICK links, task, unit : \E stop \in CompletionReason :
               RunFinalizable(d, links, task, unit)
                 /\ e = RunCompleted(d, stop, task, unit)
    BY <1>10
  <2>2. PICK stop \in CompletionReason :
               RunFinalizable(d, links, task, unit)
                 /\ e = RunCompleted(d, stop, task, unit)
    BY <2>1
  <2>3. /\ d.run = "RUNNING" /\ d.tool \notin ActiveToolCall
        /\ e.run = "COMPLETED" /\ e.stop = stop /\ e.tool = d.tool
        /\ e.link = Lifecycle!Closed(d.link)
    BY <1>2, <2>2
    DEF RunFinalizable, RunCompleted, TaskTransitioned, LinkClosed, Aggregate,
        Lifecycle!Closed
  <2>4. ToolLife(d.tool) # "ACTIVE"
    BY <2>3 DEF ToolLife
  <2>5. a.status = d.run /\ a.link = d.link /\ a.tool = ToolLife(d.tool)
    BY DEF LifeAt
  <2>6. b = [status |-> "COMPLETED", reason |-> stop,
             reply |-> TRUE, stopped |-> TRUE,
             link |-> Lifecycle!Closed(a.link), tool |-> a.tool]
    <3> DEFINE k == Lifecycle!Closed(d.link)
    <3>1. b = LifeAt("COMPLETED", stop, k, d.tool)
      BY <2>3
    <3>2. LifeAt("COMPLETED", stop, k, d.tool) =
            [status |-> "COMPLETED", reason |-> stop, reply |-> TRUE,
             stopped |-> TRUE, link |-> k, tool |-> ToolLife(d.tool)]
      BY LifeAtEnd
    <3>3. k = Lifecycle!Closed(a.link) /\ ToolLife(d.tool) = a.tool
      BY <2>5
    <3> HIDE DEF a, b, k
    <3> QED BY <3>1, <3>2, <3>3
  <2> HIDE DEF a, b
  <2> QED BY <2>3, <2>4, <2>5, <2>6 DEF LifeStep
<1>11. CASE \E links, task :
              RunFinalizable(d, links, task, NoRow) /\ e = RunFailed(d, task)
  <2>1. /\ d.run = "RUNNING" /\ d.tool \notin ActiveToolCall
        /\ e.run = "FAILED" /\ e.stop = d.stop /\ e.tool = d.tool
        /\ e.link = Lifecycle!Closed(d.link)
    BY <1>2, <1>11
    DEF RunFinalizable, RunFailed, LinkClosed, Aggregate, Lifecycle!Closed
  <2>2. ToolLife(d.tool) # "ACTIVE"
    BY <2>1 DEF ToolLife
  <2>3. a.status = d.run /\ a.link = d.link /\ a.tool = ToolLife(d.tool)
    BY DEF LifeAt
  <2>4. b = [status |-> "FAILED", reason |-> "NONE",
             reply |-> FALSE, stopped |-> FALSE,
             link |-> Lifecycle!Closed(a.link), tool |-> a.tool]
    <3> DEFINE k == Lifecycle!Closed(d.link)
    <3>1. b = LifeAt("FAILED", "NONE", k, d.tool)
      BY <1>2, <2>1 DEF Evidence
    <3>2. LifeAt("FAILED", "NONE", k, d.tool) =
            [status |-> "FAILED", reason |-> "NONE", reply |-> FALSE,
             stopped |-> FALSE, link |-> k, tool |-> ToolLife(d.tool)]
      BY LifeAtEnd
    <3>3. k = Lifecycle!Closed(a.link) /\ ToolLife(d.tool) = a.tool
      BY <2>3
    <3> HIDE DEF a, b, k
    <3> QED BY <3>1, <3>2, <3>3
  <2> HIDE DEF a, b
  <2> QED BY <2>1, <2>2, <2>3, <2>4 DEF LifeStep
<1>12. CASE Recoverable(d) /\ e = Recovered(d)
  <2>1. /\ d.run \in {"CREATED", "RUNNING"}
        /\ e.run = "INCOMPLETE" /\ e.stop = RestartReason
        /\ e.tool = IF d.tool \in ActiveToolCall THEN "INTERRUPTED" ELSE d.tool
        /\ e.link = Lifecycle!Closed(d.link)
    BY <1>2, <1>12
    DEF Recoverable, ActiveRun, Recovered, LinkClosed, Aggregate,
        Lifecycle!Closed
  <2>2. ToolLife(e.tool) = Lifecycle!Cut(ToolLife(d.tool))
    BY <2>1 DEF ToolLife, ActiveToolCall, Lifecycle!Cut
  <2>3. a.status = d.run /\ a.link = d.link /\ a.tool = ToolLife(d.tool)
    BY DEF LifeAt
  <2>4. b = [status |-> "INCOMPLETE", reason |-> RestartReason,
             reply |-> FALSE, stopped |-> TRUE,
             link |-> Lifecycle!Closed(a.link), tool |-> Lifecycle!Cut(a.tool)]
    <3> DEFINE k == Lifecycle!Closed(d.link)
    <3>1. b = LifeAt("INCOMPLETE", RestartReason, k, e.tool)
      BY <2>1
    <3>2. LifeAt("INCOMPLETE", RestartReason, k, e.tool) =
            [status |-> "INCOMPLETE", reason |-> RestartReason, reply |-> FALSE,
             stopped |-> TRUE, link |-> k, tool |-> ToolLife(e.tool)]
      BY LifeAtEnd
    <3>3. k = Lifecycle!Closed(a.link) /\ ToolLife(e.tool) = Lifecycle!Cut(a.tool)
      BY <2>2, <2>3
    <3> HIDE DEF a, b, k
    <3> QED BY <3>1, <3>2, <3>3
  <2> HIDE DEF a, b
  <2> QED BY <2>1, <2>3, <2>4 DEF LifeStep
<1> HIDE DEF a, b
<1> QED BY <1>3, <1>4, <1>5, <1>6, <1>7, <1>8, <1>9, <1>10, <1>11, <1>12 DEF Write, Alter

\* RunLifecycle's state function, named.
Lives == [r \in Runs |-> Life(db[r])]

\* The step of one Run is a step of the whole.
LEMMA LifeStepNext ==
  ASSUME NEW r \in Runs, NEW b,
         LifeStep(Life(db[r]), b), Lives' = [Lives EXCEPT ![r] = b]
  PROVE  Lifecycle!Next \/ Lives' = Lives
<1> DEFINE a == Life(db[r])
<1>1. Lives[r] = a
  BY DEF Lives
<1>2. CASE b = a
  <2>1. Lives' = Lives
    BY <1>1, <1>2 DEF Lives
  <2> QED BY <2>1
<1>3. CASE b # a
  <2>1. \/ Lifecycle!Create(r) \/ Lifecycle!Start(r) \/ Lifecycle!Link(r)
        \/ Lifecycle!OpenTool(r) \/ Lifecycle!EndTool(r)
        \/ Lifecycle!Complete(r) \/ Lifecycle!Fail(r) \/ Lifecycle!Interrupt(r)
    BY <1>1, <1>3
    DEF LifeStep, Lives, Lifecycle!Create, Lifecycle!Start, Lifecycle!Link,
        Lifecycle!OpenTool, Lifecycle!EndTool, Lifecycle!Complete,
        Lifecycle!Fail, Lifecycle!Interrupt, Lifecycle!Becomes
  <2> QED BY <2>1 DEF Lifecycle!Next
<1> QED BY <1>2, <1>3

\* Handlers, crashes, lost acknowledgements and recoveries of several processes
\* implement RunLifecycle: the Run, its RunTaskLink and its evidence end in one
\* step, once, with no ToolCall left active.
THEOREM LifecycleImplemented == Spec => ImplementsLifecycle
<1>1. Init => Lifecycle!Init
  <2> SUFFICES ASSUME Init PROVE Lives = [r \in Runs |-> Lifecycle!Unborn]
    BY DEF Lifecycle!Init, Lives
  <2>1. Life(NoRecords) = Lifecycle!Unborn
    <3>1. ("RunStopped" \in Traced(NoRecords)) = FALSE
      BY DEF Traced, NoRecords
    <3>2. /\ NoRecords.run = "ABSENT" /\ NoRecords.stop = "NONE"
          /\ NoRecords.reply = FALSE /\ NoRecords.link = "ABSENT"
          /\ NoRecords.tool = "ABSENT"
      BY DEF NoRecords
    <3> QED BY <3>1, <3>2 DEF Life, Lifecycle!Unborn
  <2> QED BY <2>1 DEF Init, Lives
<1>2. IndInv /\ IndInv' /\ [Next]_vars => [Lifecycle!Next]_Lives
  <2> SUFFICES ASSUME IndInv, IndInv', [Next]_vars
               PROVE  Lifecycle!Next \/ Lives' = Lives
    OBVIOUS
  <2>1. CASE db' = db
    BY <2>1 DEF Lives
  <2>2. ASSUME NEW r \in Runs, NEW e, Write(db[r], e),
               db' = [db EXCEPT ![r] = e]
        PROVE  Lifecycle!Next \/ Lives' = Lives
    <3>1. db \in [Runs -> Aggregate] /\ Kept(db[r])
      BY IndInvGood DEF Good
    <3>2. db'[r] = e /\ Kept(db'[r])
      BY <2>2, <3>1 DEF IndInv, TypeOK, Kept
    <3>3. LifeStep(Life(db[r]), Life(e))
      BY <2>2, <3>1, <3>2, WriteLife
    <3>4. Lives' = [Lives EXCEPT ![r] = Life(e)]
      BY <2>2, <3>1 DEF Lives
    <3> QED BY <3>3, <3>4, LifeStepNext
  <2> QED BY <2>1, <2>2, StepWrites DEF Writes
<1>3. IndInv /\ [Next]_vars => IndInv'
  BY NextIndInv
<1>4. Lifecycle!Init /\ [][Lifecycle!Next]_Lives => Lifecycle!Spec
  BY DEF Lifecycle!Spec, Lives
<1> QED BY <1>1, <1>2, <1>3, <1>4, AgentRunInvariant, PTL
        DEF Spec, ImplementsLifecycle
===============================================================================
