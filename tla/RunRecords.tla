------------------------------ MODULE RunRecords ------------------------------
(***************************************************************************)
(* The durable records of one Run and the conditional writes of            *)
(* PostgresRecordAdapter and PostgresRestartRecoveryAdapter on them.       *)
(*                                                                         *)
(* A Run aggregate is everything the P0 record table stores about one Run: *)
(* the Run row, the Task and RequestUnit it created, the RunTaskLink, its  *)
(* single ToolCall with the attempt child rows, the Observation, the       *)
(* ASSISTANT Message, the audit documents and the Trace.  Each write is    *)
(* one database transaction, hence one operator: a predicate says when the *)
(* compare-and-set applies and an operator gives the aggregate it commits. *)
(* Identifiers, timestamps and payloads are left out: every row of one     *)
(* aggregate has the owner and the Run of that aggregate, and two rows are *)
(* told apart by their status and version.                                 *)
(***************************************************************************)
EXTENDS Naturals, Sequences

ActiveRun == {"CREATED", "RUNNING"}
TerminalRun == {"COMPLETED", "FAILED", "INCOMPLETE"}
RunStatus == {"ABSENT"} \cup ActiveRun \cup TerminalRun

\* Reasons a Run may complete with; recovery alone uses the last one.
CompletionReason ==
  {"GOAL_COMPLETED", "NOT_FOUND_OR_NOT_ACCESSIBLE", "INPUT_INVALID",
   "GATE_REJECTED", "PROVIDER_PROTOCOL_ERROR", "ORDER_SERVICE_UNAVAILABLE",
   "PRESENTATION_PLAN_REJECTED", "RENDERER_INVARIANT_FAILED"}
RestartReason == "PROCESS_RESTART_DETECTED"
StopReason == CompletionReason \cup {RestartReason}

ActiveTask ==
  {"ACTIVE", "WAITING_USER", "PENDING_ACTION", "ACTION_IN_PROGRESS",
   "RECOVERING"}
TaskStatus == ActiveTask \cup {"COMPLETED", "BLOCKED", "CANCELLED"}

ActiveToolCall == {"CREATED", "RUNNING"}
ToolCallStatus ==
  ActiveToolCall \cup {"SUCCEEDED", "FAILED", "TIMED_OUT", "INTERRUPTED"}

\* Status and version of a Task or RequestUnit row.
Projection == [status: TaskStatus \cup {"ABSENT"}, version: Nat]
NoRow == [status |-> "ABSENT", version |-> 0]
Moved(row, status) == [status |-> status, version |-> row.version + 1]

\* Audit documents a Trace event may refer to.
Document == {"UNDERSTANDING_MANIFEST", "GATE_DECISION", "PRESENTATION_MANIFEST"}

TraceEventType ==
  {"MessageAccepted", "RunStarted", "RequestUnderstandingStarted",
   "ContextManifestRecorded", "NextMoveProposed", "TaskDeltaValidated",
   "TaskDeltaAccepted", "InputBindingRecorded", "TaskStateChanged",
   "NextMoveRevalidated", "GateDecisionRecorded", "ToolCallCreated",
   "ToolCallStarted", "ToolCallSucceeded", "ToolCallFailed",
   "ToolCallTimedOut", "ToolCallInterrupted", "ToolResultNormalized",
   "ObservationRecorded", "PresentationPlanProposed", "ResponseRendered",
   "RunStopped"}

Aggregate ==
  [run: RunStatus, stop: StopReason \cup {"NONE"},
   task: Projection, unit: Projection,
   link: {"ABSENT", "OPEN", "CLOSED"}, resultVersion: Nat,
   tool: ToolCallStatus \cup {"ABSENT"}, attempts: 0..1, validated: Nat,
   observation: BOOLEAN, reply: BOOLEAN,
   documents: SUBSET Document, trace: Seq(TraceEventType)]

NoRecords ==
  [run |-> "ABSENT", stop |-> "NONE", task |-> NoRow, unit |-> NoRow,
   link |-> "ABSENT", resultVersion |-> 0,
   tool |-> "ABSENT", attempts |-> 0, validated |-> 0,
   observation |-> FALSE, reply |-> FALSE, documents |-> {}, trace |-> <<>>]

-------------------------------------------------------------------------------
(* Run and Task graph.                                                     *)

\* insert_run: a fresh run_id is inserted CREATED.
RunInserted(d) == [d EXCEPT !.run = "CREATED"]

\* start_run_if_created: compare-and-set on the CREATED projection.
RunStartable(d) == d.run = "CREATED"
RunStarted(d) == [d EXCEPT !.run = "RUNNING"]

\* create_initial_task_graph_v2_if_current: the locked Run must be the exact
\* RUNNING record and must not have a graph yet.
GraphCreatable(d) == d.run = "RUNNING" /\ d.link = "ABSENT"
InitialRow == [status |-> "ACTIVE", version |-> 1]
GraphCreated(d) ==
  [d EXCEPT !.task = InitialRow, !.unit = InitialRow, !.link = "OPEN"]

\* apply_task_transition_if_current: Task and RequestUnit move together.  The
\* Run is not part of the condition.
TransitionApplies(d, task, unit) == d.task = task /\ d.unit = unit
TaskTransitionedAlone(d, task, unit, status) ==   \* mutant: RequestUnit left behind
  [d EXCEPT !.task = Moved(task, status)]
TaskTransitioned(d, task, unit, status) ==
  [d EXCEPT !.task = Moved(task, status), !.unit = Moved(unit, status)]

\* save_context_manifest, save_gate_decision and append_trace_event are plain
\* inserts: no Run status is part of their condition.
Written(d, w) ==
  IF w \in Document
  THEN [d EXCEPT !.documents = @ \cup {w}]
  ELSE [d EXCEPT !.trace = Append(@, w)]

-------------------------------------------------------------------------------
(* ToolCall and Observation.                                               *)

\* insert_tool_call: the locked Run must be RUNNING; the Task row the ToolCall
\* refers to must exist.
ToolCallInsertable(d) ==
  d.run = "RUNNING" /\ d.tool = "ABSENT" /\ d.task # NoRow
ToolCallInserted(d, version) ==
  [d EXCEPT !.tool = "CREATED", !.validated = version]

\* start_tool_call_if_created: the dispatch fence.
ToolCallStartable(d) == d.tool = "CREATED"
ToolCallStarted(d) == [d EXCEPT !.tool = "RUNNING", !.attempts = @ + 1]

\* finalize_tool_call_attempt_if_running.
ToolCallFinalizableAgain(d) == d.tool # "ABSENT"   \* mutant: any ToolCall
ToolCallFinalizable(d) == d.tool = "RUNNING"
ToolCallFinalized(d, status) == [d EXCEPT !.tool = status]

\* save_observation: the source ToolCall must be the exact terminal record.
ObservationSourced(d) == d.tool = "SUCCEEDED"
ObservationSaved(d) == [d EXCEPT !.observation = TRUE]

-------------------------------------------------------------------------------
(* Terminal aggregate of finalize_run_if_active.                           *)

\* links is "OPEN" when the command expects the one active RunTaskLink and
\* "ABSENT" when it expects none; unit is NoRow when the command carries no
\* Task transition.
RunFinalizableOverTool(d, links, task, unit) ==   \* mutant: ToolCall not checked
  /\ d.run = "RUNNING"
  /\ d.link = links
  /\ links = "OPEN" => d.task = task
  /\ unit # NoRow => d.unit = unit
RunFinalizableAgain(d, links, task, unit) ==   \* mutant: Run row not compared
  /\ d.tool \notin ActiveToolCall
  /\ links = "OPEN" => d.task = task
  /\ unit # NoRow => d.unit = unit
RunFinalizable(d, links, task, unit) ==
  /\ d.run = "RUNNING"
  /\ d.tool \notin ActiveToolCall
  /\ d.link = links
  /\ links = "OPEN" => d.task = task
  /\ unit # NoRow => d.unit = unit

LinkClosed(d, version) ==
  IF d.link = "OPEN"
  THEN [d EXCEPT !.link = "CLOSED", !.resultVersion = version]
  ELSE d

\* The Task status each completion reason gives to the Task it closes.
TargetStatus(stop) ==
  IF stop \in {"GOAL_COMPLETED", "NOT_FOUND_OR_NOT_ACCESSIBLE"}
  THEN "COMPLETED" ELSE "BLOCKED"

\* COMPLETED: Run, Task, RequestUnit, RunTaskLink, ASSISTANT Message and the
\* terminal Trace events commit together.
RunCompleted(d, stop, task, unit) ==
  LET closed == LinkClosed(d, task.version + 1)
      graph  == TaskTransitioned(closed, task, unit, TargetStatus(stop))
      final  == IF d.link = "OPEN"
                THEN [graph EXCEPT !.trace = Append(@, "TaskStateChanged")]
                ELSE d
  IN  [final EXCEPT !.run = "COMPLETED", !.stop = stop, !.reply = TRUE,
                    !.trace = Append(@, "RunStopped")]

\* FAILED: only the Run row and the RunTaskLink are closed.
RunFailed(d, task) ==
  [LinkClosed(d, task.version) EXCEPT !.run = "FAILED"]

-------------------------------------------------------------------------------
(* Restart recovery.                                                       *)

\* The exact records a RestartRecoveryClosure carries.  A terminal ToolCall is
\* not part of it.
Closure(d) ==
  [run |-> d.run, task |-> d.task, unit |-> d.unit, link |-> d.link,
   tool |-> IF d.tool \in ActiveToolCall THEN d.tool ELSE "ABSENT",
   attempts |-> IF d.tool \in ActiveToolCall THEN d.attempts ELSE 0]
NoClosure == Closure(NoRecords)

RecoverableStarted(d) == d.run = "RUNNING"   \* mutant: CREATED Runs forgotten
RecoverableAgain(d) == d.run \in ActiveRun \cup {"INCOMPLETE"}   \* mutant
Recoverable(d) == d.run \in ActiveRun

\* What _load_closure_in_transaction and the validators of
\* RestartRecoveryClosure demand: anything else raises and recovery cannot
\* proceed past this Run.  A Task carries at most one transition, so its
\* version is at most 2.
ClosureLoadable(d) ==
  /\ d.run = "CREATED" => d.link = "ABSENT" /\ d.tool \notin ActiveToolCall
  /\ d.link # "CLOSED"
  /\ d.link = "OPEN" <=> d.task # NoRow
  /\ d.unit = d.task
  /\ d.task.version <= 2
  /\ d.tool \in ActiveToolCall =>
       /\ d.link = "OPEN"
       /\ d.validated = d.task.version
       /\ d.attempts = IF d.tool = "RUNNING" THEN 1 ELSE 0

RecoveredUncommitted(d) == d   \* mutant: APPLIED without a commit
RecoveredAnyTool(d) ==   \* mutant: terminal ToolCalls are interrupted too
  [d EXCEPT !.run = "INCOMPLETE", !.stop = RestartReason,
            !.tool = IF @ = "ABSENT" THEN @ ELSE "INTERRUPTED",
            !.trace = Append(@, "RunStopped")]

\* The recovery command built from the closure: Run INCOMPLETE, active ToolCall
\* INTERRUPTED with its attempts kept, active Task and RequestUnit BLOCKED, the
\* RunTaskLink closed at the resulting Task version, and the terminal Trace.
Recovered(d) ==
  LET blocked == d.task.status \in ActiveTask
      cut     == d.tool \in ActiveToolCall
      task    == IF blocked THEN Moved(d.task, "BLOCKED") ELSE d.task
      unit    == IF blocked THEN Moved(d.unit, "BLOCKED") ELSE d.unit
      stopped == Append(d.trace, "RunStopped")
      changed == IF blocked THEN Append(stopped, "TaskStateChanged")
                            ELSE stopped
  IN  [LinkClosed(d, task.version) EXCEPT
         !.run = "INCOMPLETE", !.stop = RestartReason,
         !.task = task, !.unit = unit,
         !.tool = IF cut THEN "INTERRUPTED" ELSE @,
         !.trace = IF cut THEN Append(changed, "ToolCallInterrupted")
                          ELSE changed]

===============================================================================
