---------------------------- MODULE AgentRunSafety ----------------------------
(***************************************************************************)
(* What AgentRun promises: the invariants of the record aggregate under    *)
(* every interleaving of handlers, crashes and restart recoveries, the     *)
(* action properties, the lifecycle it implements and the liveness its     *)
(* scheduling justifies.                                                   *)
(***************************************************************************)
EXTENDS AgentRun, RunRecordsInvariant, RunReferences

ClosureType ==
  [run: RunStatus, task: Projection, unit: Projection,
   link: {"ABSENT", "OPEN", "CLOSED"}, tool: ActiveToolCall \cup {"ABSENT"},
   attempts: 0..1]

\* Every variable keeps its type: a ToolCall never has a second attempt, a
\* version is never lost, and no undefined status is stored.
TypeOK ==
  /\ db \in [Runs -> Aggregate]
  /\ h \in [Runs -> Handler]
  /\ phase \in [Procs -> Phase]
  /\ claim \in [Procs -> [run: Runs \cup {NoRun}, seen: ClosureType]]
  /\ faults \in 0..MaxFaults

-------------------------------------------------------------------------------
(* Safety of the records.                                                  *)

\* A COMPLETED Run has its reply, an INCOMPLETE one has none; both have exactly
\* one RunStopped event and their reason, whoever of the handler and the
\* recoveries competed to close the Run.  A FAILED or active Run claims neither
\* a reply nor an outcome.
TerminalEvidence == \A r \in Runs : Evidence(db[r])

\* A terminal Run leaves nothing open: no active ToolCall that a later commit
\* of the executor could still advance, and a RunTaskLink whose result version
\* is the version the Task really has, although the hook's Task transition and
\* the tool writes are not conditional on the Run row.
ClosedRunIsClosed ==
  \A r \in Runs : db[r].run \in TerminalRun =>
    /\ db[r].tool \notin ActiveToolCall
    /\ db[r].link # "OPEN"
    /\ db[r].link = "CLOSED" => db[r].resultVersion = db[r].task.version

\* Startup fails closed on a closure it cannot decode, so one malformed active
\* Run would keep every process from starting: whatever point the handler died
\* at, the closure of an active Run satisfies RestartRecoveryClosure.
ActiveClosureLoadable ==
  \A r \in Runs : Recoverable(db[r]) => ClosureLoadable(db[r])

\* The order port is called only behind the durable dispatch fence: a ToolCall
\* without an attempt row (which recovery interrupts as never dispatched) was
\* never read for.
DispatchBehindFence ==
  \A r \in Runs : h[r].reads = 1 => db[r].attempts = 1 /\ db[r].tool # "CREATED"

\* An Observation is stored only for a ToolCall that SUCCEEDED after a read,
\* also when recovery interrupts the ToolCall while the answer is in flight.
ObservationHasSource ==
  \A r \in Runs : db[r].observation =>
    db[r].tool = "SUCCEEDED" /\ h[r].reads = 1

\* The tool status each reason for stopping is entitled to.
Entitled(d, stop) ==
  CASE stop = "GOAL_COMPLETED" ->
         d.tool = "SUCCEEDED" /\ d.observation /\ d.task.status = "COMPLETED"
    [] stop = "NOT_FOUND_OR_NOT_ACCESSIBLE" ->
         d.tool = "FAILED" /\ ~d.observation /\ d.task.status = "COMPLETED"
    [] stop = "ORDER_SERVICE_UNAVAILABLE" ->
         d.tool \in {"FAILED", "TIMED_OUT"} /\ ~d.observation
           /\ d.task.status = "BLOCKED"
    [] stop = "GATE_REJECTED" ->
         d.tool = "ABSENT" /\ d.task.status = "BLOCKED"
    [] stop = "INPUT_INVALID" -> d.task = NoRow /\ d.tool = "ABSENT"
    [] OTHER -> d.tool = "SUCCEEDED" => d.observation

\* What handle returned to the user is what the database holds: the Run is
\* COMPLETED with that reason, and the Task, the ToolCall and the Observation
\* are those the reason is entitled to.  The reply survives any later recovery.
AnswerIsDurable ==
  \A r \in Runs : h[r].pc = "returned" =>
    /\ db[r].run = "COMPLETED" /\ db[r].reply
    /\ db[r].stop = h[r].result
    /\ Entitled(db[r], h[r].result)

\* What a Trace event says of the records of its Run.
Told(event, d) ==
  /\ event = "RunStarted" => d.run \notin {"ABSENT", "CREATED"}
  /\ event = "ContextManifestRecorded" => "UNDERSTANDING_MANIFEST" \in d.documents
  /\ event = "PresentationPlanProposed" => "PRESENTATION_MANIFEST" \in d.documents
  /\ event = "TaskDeltaAccepted" => d.task # NoRow
  /\ event = "GateDecisionRecorded" => "GATE_DECISION" \in d.documents
  /\ event = "ToolCallStarted" => d.attempts = 1
  /\ event = "ToolCallSucceeded" => d.tool = "SUCCEEDED"
  /\ event = "ToolCallFailed" => d.tool = "FAILED"
  /\ event = "ToolCallTimedOut" => d.tool = "TIMED_OUT"
  /\ event = "ToolCallInterrupted" => d.tool = "INTERRUPTED"
  /\ event = "ObservationRecorded" => d.observation

\* Trace events are appended in transactions of their own, after the record
\* they speak about: an event is never ahead of its record, and a terminal
\* ToolCall event names the status the ToolCall really has.
TraceTellsTruth ==
  \A r \in Runs : \A event \in Traced(db[r]) : Told(event, db[r])

(* Every row can be stored the moment it is written: the plain inserts of  *)
(* manifests, decisions and events compare nothing, yet each of them names *)
(* rows that exist and that lead to the owner, at every point a handler    *)
(* goes on after a refusal, a lost acknowledgement or a recovery.          *)
PlainWritesResolve == \A r \in Runs : db[r].run # "ABSENT" => OwnersDerived(db[r])

\* A process that serves has closed every Run whose handler died before it
\* started (stated for one process: a second one may die while the first is
\* serving).
RecoveredBeforeServing ==
  \A p \in Procs, r \in Runs :
    phase[p] = "serving" /\ h[r].pc = "dead" => db[r].run \notin ActiveRun

-------------------------------------------------------------------------------
(* The inductive invariant behind the properties above: what the records of *)
(* one Run satisfy by themselves, and what the handler's point tells of      *)
(* them.                                                                     *)

UnstartedPoint == {"idle", "intake", "insert_run"}
GraphlessPoint ==
  {"message_accepted", "run_started", "understanding_started",
   "save_manifest", "manifest_recorded", "propose", "create_graph"}
DecidingPoint ==
  {"move_proposed", "delta_validated", "delta_accepted", "binding_recorded",
   "task_changed", "revalidated", "hook", "hook_changed", "load_task"}
GatePoint == {"save_gate", "gate_recorded"}
AuthorizedPoint == {"authorize", "insert_tool"}
InFlightPoint == {"await_order", "finalize_tool", "interrupt_tool"}
ReadPoint == {"tool_created", "tool_started", "tool_ended", "tool_normalized"}
ObservedPoint ==
  {"observation_recorded", "save_plan_manifest", "plan_manifest_recorded",
   "plan", "plan_proposed", "render"}
AnswerPoint == {"response_rendered", "finalize"}
LoadedPoint ==
  GatePoint \cup AuthorizedPoint \cup InFlightPoint \cup ReadPoint
    \cup ObservedPoint
    \cup {"fence", "dispatch", "save_observation", "interrupt_trace"}
GraphPoint == DecidingPoint \cup {"load_unit"} \cup LoadedPoint

\* The Task and RequestUnit the handler loaded are current while its Run is.
InStep(l, d) == d.run = "RUNNING" => l.task = d.task /\ l.unit = d.unit

\* The ToolCall at each point of the handler.
ToolAt(l, d) ==
  /\ l.pc \in DecidingPoint \cup {"load_unit"} \cup GatePoint
               \cup AuthorizedPoint => d.tool = "ABSENT"
  /\ l.pc = "fence" => d.tool \in {"CREATED", "INTERRUPTED"}
  /\ l.pc \in InFlightPoint \cup {"dispatch"} =>
       d.tool \in {"RUNNING", "INTERRUPTED"} /\ d.attempts = 1
  /\ l.pc \in {"finalize_tool", "save_observation"} \cup ReadPoint =>
       l.outcome # "NONE"
  /\ l.pc = "save_observation" => l.outcome = "FOUND" /\ d.tool = "SUCCEEDED"
  /\ l.pc \in ReadPoint =>
       /\ d.tool = TerminalStatus(l.outcome)
       /\ l.outcome = "FOUND" => d.observation
  /\ l.pc \in ObservedPoint => d.tool = "SUCCEEDED" /\ d.observation
  /\ l.pc = "interrupt_trace" => d.tool = "INTERRUPTED"

\* The order port was called exactly by the handlers past the dispatch.
ReadAt(l, d) ==
  /\ l.reads = 1 => d.attempts = 1
  /\ l.pc \in UnstartedPoint \cup GraphlessPoint \cup DecidingPoint
               \cup {"start_run", "load_unit"} \cup GatePoint
               \cup AuthorizedPoint \cup {"fence", "dispatch"} => l.reads = 0
  /\ l.pc \in InFlightPoint \cup {"save_observation"} => l.reads = 1
  /\ d.observation => l.reads = 1

\* What the reason about to be recorded is entitled to.
Deserved(l, d) ==
  /\ l.stop # "NONE"
  /\ l.cursor = NoRow <=> d.link = "ABSENT"
  /\ l.stop = "INPUT_INVALID" => l.cursor = NoRow
  /\ l.stop \in {"GOAL_COMPLETED", "NOT_FOUND_OR_NOT_ACCESSIBLE",
                 "ORDER_SERVICE_UNAVAILABLE", "GATE_REJECTED"} =>
       l.cursor # NoRow
  /\ l.stop = "GOAL_COMPLETED" => d.tool = "SUCCEEDED" /\ d.observation
  /\ l.stop = "NOT_FOUND_OR_NOT_ACCESSIBLE" =>
       d.tool = "FAILED" /\ ~d.observation
  /\ l.stop = "ORDER_SERVICE_UNAVAILABLE" =>
       d.tool \in {"FAILED", "TIMED_OUT"} /\ ~d.observation
  /\ l.stop = "GATE_REJECTED" => d.tool = "ABSENT"
  /\ d.tool = "SUCCEEDED" => d.observation

Stage(l, d) ==
  /\ l.pc \in UnstartedPoint => d.run = "ABSENT"
  /\ l.pc \in EntryPoint \cup {"idle"} => l.cursor = NoRow /\ ~l.running
  /\ l.pc \in ServicePoint \cup ExecutorPoint =>
       l.running /\ d.run \in {"RUNNING", "INCOMPLETE"}
  /\ l.pc \in GraphlessPoint => l.cursor = NoRow /\ d.link = "ABSENT"
  /\ l.pc \in GraphPoint => l.cursor # NoRow /\ d.link # "ABSENT"
  /\ l.pc = "load_unit" =>
       l.task # NoRow /\ (d.run = "RUNNING" => l.task = d.task)
  /\ l.pc \in LoadedPoint => InStep(l, d)
  /\ l.pc \in AuthorizedPoint => l.task = InitialRow
  /\ l.pc = "gate_recorded" /\ l.stop # "GATE_REJECTED" => l.task = InitialRow
  /\ l.pc \in AnswerPoint => Deserved(l, d) /\ (l.cursor # NoRow => InStep(l, d))
  /\ l.pc = "returned" =>
       d.run = "COMPLETED" /\ d.stop = l.result /\ Entitled(d, l.result)

IndInv ==
  /\ TypeOK
  /\ \A r \in Runs :
       /\ Consistent(db[r])
       /\ Stage(h[r], db[r]) /\ ToolAt(h[r], db[r]) /\ ReadAt(h[r], db[r])

(* The strengthening behind TraceTellsTruth: the documents a handler has    *)
(* stored at each point; the events that refer to them come later.          *)

BriefedPoint ==
  (ServicePoint \cup ExecutorPoint)
    \ {"message_accepted", "run_started", "understanding_started", "save_manifest"}
PlanPoint == {"plan_manifest_recorded", "plan", "plan_proposed"}

Filed(l, d) ==
  /\ l.pc \in BriefedPoint => "UNDERSTANDING_MANIFEST" \in d.documents
  /\ l.pc \in PlanPoint => "PRESENTATION_MANIFEST" \in d.documents
  /\ l.pc \in {"gate_recorded"} \cup AuthorizedPoint => "GATE_DECISION" \in d.documents

TraceInv == \A r \in Runs : Filed(h[r], db[r])

(* The strengthening behind PlainWritesResolve: what each document, each    *)
(* ToolCall and each event names has been stored before it, and the second *)
(* ContextManifestRecorded is about the second manifest.                    *)

TasklessEvent ==
  {"MessageAccepted", "RunStarted", "RequestUnderstandingStarted", "ContextManifestRecorded",
   "NextMoveProposed", "TaskDeltaValidated", "ResponseRendered", "RunStopped"}
ManifestedEvent ==
  {"ContextManifestRecorded", "NextMoveProposed", "GateDecisionRecorded", "ToolCallCreated"}
ToolEvent ==
  {"ToolCallCreated", "ToolCallStarted", "ToolCallSucceeded", "ToolCallFailed",
   "ToolCallTimedOut", "ToolCallInterrupted", "ToolResultNormalized", "ObservationRecorded"}

Named(event, d) ==
  /\ event \in ManifestedEvent => "UNDERSTANDING_MANIFEST" \in d.documents
  /\ event \notin TasklessEvent => d.task # NoRow
  /\ event \in ToolEvent => d.tool # "ABSENT"
  /\ event \in {"ObservationRecorded", "PresentationPlanProposed"} => d.observation
  /\ event = "PresentationPlanProposed" => "PRESENTATION_MANIFEST" \in d.documents

Filing(d) ==
  /\ "GATE_DECISION" \in d.documents =>
       "UNDERSTANDING_MANIFEST" \in d.documents /\ d.task # NoRow
  /\ d.tool # "ABSENT" => "GATE_DECISION" \in d.documents
  /\ "PRESENTATION_MANIFEST" \in d.documents => d.observation
  /\ \A event \in Traced(d) : Named(event, d)

ManifestsAt(d) == {i \in DOMAIN d.trace : d.trace[i] = "ContextManifestRecorded"}
ManifestsApart(d) ==
  (\A i, j \in ManifestsAt(d) : i = j) \/ "PRESENTATION_MANIFEST" \in d.documents

UnbriefedPoint ==
  {"idle", "intake", "insert_run", "start_run", "message_accepted", "run_started",
   "understanding_started", "save_manifest", "manifest_recorded"}

Placed(l, d) ==
  /\ ManifestsApart(d)
  /\ l.pc \in UnbriefedPoint => ManifestsAt(d) = {}

ReferenceInv == \A r \in Runs : Filing(db[r]) /\ Placed(h[r], db[r])

-------------------------------------------------------------------------------
(* Action properties.                                                      *)

\* The columns of a Run that its terminal transaction decides.
Verdict(d) ==
  [run |-> d.run, stop |-> d.stop, task |-> d.task, unit |-> d.unit,
   link |-> d.link, resultVersion |-> d.resultVersion, tool |-> d.tool,
   attempts |-> d.attempts, reply |-> d.reply]

\* Once a Run is terminal, no late write of its handler and no second recovery
\* changes what was decided.
ClosedForever ==
  [][\A r \in Runs :
       db[r].run \in TerminalRun => Verdict(db'[r]) = Verdict(db[r])]_vars

-------------------------------------------------------------------------------
(* Refinement.                                                             *)

Life(d) ==
  [status |-> d.run, reason |-> d.stop, reply |-> d.reply,
   stopped |-> "RunStopped" \in Traced(d), link |-> d.link,
   tool |-> IF d.tool = "ABSENT" THEN "ABSENT"
            ELSE IF d.tool \in ActiveToolCall THEN "ACTIVE" ELSE "ENDED"]

Lifecycle ==
  INSTANCE RunLifecycle WITH Reasons <- CompletionReason,
                             life <- [r \in Runs |-> Life(db[r])]

\* Every step of handlers, crashes and recoveries is a step of one Run's
\* lifecycle or changes nothing a reader of the records can tell.
ImplementsLifecycle == Lifecycle!Spec

-------------------------------------------------------------------------------
(* Liveness.  The event loop runs a handler that can proceed, and what a    *)
(* handler awaits ends: the order port is under asyncio.timeout and the     *)
(* provider client has a request timeout.  A recovery that began is run to  *)
(* its end.  Nobody has to boot, stop or crash a process.                   *)

Fairness ==
  /\ \A r \in Runs : WF_vars(HandlerStep(r))
  /\ \A p \in Procs : WF_vars(LoadClosure(p) \/ ClaimAndApply(p))

FairSpec == Spec /\ Fairness

\* handle returns or raises, or its process dies: exceptional closure never
\* keeps a request waiting, also when the closure itself is refused.
HandlerEnds == \A r \in Runs : h[r].pc \in Live ~> h[r].pc \in Ended

\* The startup loop ends: every pass of it closes one Run or gives up.
StartupEnds ==
  \A p \in Procs :
    phase[p] \in {"loading", "claiming"} ~> phase[p] \in {"serving", "down"}

\* No active Run is left for ever, provided processes keep being started: what
\* a crash, a lost acknowledgement or a refused closure left CREATED or RUNNING
\* is closed by its handler or by a later startup.
OrphansClosed ==
  ([]<>(\E p \in Procs : phase[p] = "loading"))
    => \A r \in Runs : db[r].run \in ActiveRun ~> db[r].run \in TerminalRun

-------------------------------------------------------------------------------
(* Statements of the design documents that the code does not keep.          *)

\* "If the corresponding Run was created it is marked FAILED ... this path only
\* reliably closes the AgentRunRecord and the existing RunTaskLink": a request
\* that raised, with a database that answered its closing write, leaves no
\* active Run.
FailureClosureReliable ==
  \A r \in Runs :
    h[r].pc = "raised" /\ h[r].closing \in {"APPLIED", "CONFLICT"}
      => db[r].run \notin ActiveRun

\* Startup claims "the active Run left by the previous process": recovery marks
\* a Run INCOMPLETE only when no process is still handling it.
RecoversOnlyOrphans ==
  [][\A r \in Runs :
       db[r].run \in ActiveRun /\ db'[r].run = "INCOMPLETE"
         => h[r].pc \notin Live]_vars

===============================================================================
