------------------------------- MODULE AgentRun -------------------------------
(***************************************************************************)
(* One user message is one Run.  AgentRunService.handle drives it through  *)
(* a fixed sequence of durable writes, with ReadToolExecutor executing the *)
(* one authorised get_order; every failure goes through the same           *)
(* exceptional closure; OfflineE2E01Composition.start and                  *)
(* RestartRecoveryService close what an earlier process left active before *)
(* a process serves.                                                       *)
(*                                                                         *)
(* Every call of the record port is one action, because another process    *)
(* may commit, or this process may die, between any two of them.  A call   *)
(* may also raise, either before its transaction commits or after (the     *)
(* acknowledgement is lost).  The event loop runs the calls of one process *)
(* without a suspension point, so a cancellation can arrive only where the *)
(* handler awaits a provider, the hook or the order port.                  *)
(***************************************************************************)
EXTENDS RunRecords

CONSTANTS
  Runs,       \* user messages accepted, one Run each
  Procs,      \* server processes sharing the database
  NoRun,      \* no closure claimed
  NoProc,     \* no process hosts the Run yet
  MaxFaults   \* bound: store failures and process crashes in a behaviour

ASSUME ValuesAssumption == NoRun \notin Runs /\ NoProc \notin Procs
ASSUME BoundAssumption == MaxFaults \in Nat

VARIABLES
  db,      \* the aggregate of each Run
  h,       \* the local state of the handler of each Run
  phase,   \* what each process is doing
  claim,   \* the recovery closure each process has loaded
  faults   \* failures so far

vars == <<db, h, phase, claim, faults>>

-------------------------------------------------------------------------------
(* Handler control.                                                        *)

\* Points where the next call is one plain insert of a document or a Trace
\* event, in the order the service makes them.
PlainPoint ==
  {"message_accepted", "run_started", "understanding_started",
   "save_manifest", "manifest_recorded",
   "move_proposed", "delta_validated", "delta_accepted", "binding_recorded",
   "task_changed", "revalidated", "hook_changed", "gate_recorded",
   "tool_created", "tool_started", "tool_ended", "tool_normalized",
   "observation_recorded", "save_plan_manifest", "plan_manifest_recorded",
   "plan_proposed", "response_rendered"}
ServicePoint ==
  PlainPoint \cup
  {"propose", "create_graph", "hook", "load_task", "load_unit", "save_gate",
   "authorize", "plan", "render", "finalize"}
ExecutorPoint ==
  {"insert_tool", "fence", "dispatch", "await_order", "finalize_tool",
   "save_observation", "interrupt_tool", "interrupt_trace"}
EntryPoint == {"intake", "insert_run", "start_run"}
ClosingPoint == {"reload", "close"}
Ended == {"returned", "raised", "dead"}
Point == {"idle"} \cup EntryPoint \cup ServicePoint \cup ExecutorPoint
           \cup ClosingPoint \cup Ended
Live == Point \ ({"idle"} \cup Ended)

Outcome == {"NONE", "FOUND", "NOT_FOUND", "SYSTEM_FAILURE", "TIMEOUT"}

(* Local state: running, cursor are _RunFailureState.running_run and         *)
(* .result_task (the active link is known exactly when the cursor is); task  *)
(* and unit are current_task and current_unit; stop is the reason the Run    *)
(* is about to complete with; closing is how exceptional closure ended;      *)
(* reads counts the calls of the order port; result is what handle returned. *)
Handler ==
  [pc: Point, host: Procs \cup {NoProc}, running: BOOLEAN,
   cursor: Projection, task: Projection, unit: Projection,
   stop: CompletionReason \cup {"NONE"}, outcome: Outcome, reads: 0..1,
   closing: {"NONE", "SKIPPED", "APPLIED", "CONFLICT", "ERROR"},
   result: CompletionReason \cup {"NONE"}]

IdleHandler ==
  [pc |-> "idle", host |-> NoProc, running |-> FALSE,
   cursor |-> NoRow, task |-> NoRow, unit |-> NoRow,
   stop |-> "NONE", outcome |-> "NONE", reads |-> 0,
   closing |-> "NONE", result |-> "NONE"]

At(l, point) == [l EXCEPT !.pc = point]

\* An exception or cancellation reaches handle: without a started Run there is
\* nothing to close; with a Task graph the Task is reloaded first.
Raised(l) ==
  IF ~l.running THEN [l EXCEPT !.pc = "raised", !.closing = "SKIPPED"]
  ELSE IF l.cursor = NoRow THEN At(l, "close") ELSE At(l, "reload")

\* The ToolCall status and the terminal Trace event of each order outcome.
TerminalStatus(outcome) ==
  CASE outcome = "FOUND" -> "SUCCEEDED"
    [] outcome = "TIMEOUT" -> "TIMED_OUT"
    [] OTHER -> "FAILED"
TerminalEvent(outcome) ==
  CASE outcome = "FOUND" -> "ToolCallSucceeded"
    [] outcome = "TIMEOUT" -> "ToolCallTimedOut"
    [] OTHER -> "ToolCallFailed"
ReadStop(outcome) ==
  IF outcome = "NOT_FOUND" THEN "NOT_FOUND_OR_NOT_ACCESSIBLE"
                           ELSE "ORDER_SERVICE_UNAVAILABLE"

\* What the plain insert at each point writes.
WriteAt(l) ==
  CASE l.pc = "message_accepted" -> "MessageAccepted"
    [] l.pc = "run_started" -> "RunStarted"
    [] l.pc = "understanding_started" -> "RequestUnderstandingStarted"
    [] l.pc = "save_manifest" -> "UNDERSTANDING_MANIFEST"
    [] l.pc = "save_plan_manifest" -> "PRESENTATION_MANIFEST"
    [] l.pc \in {"manifest_recorded", "plan_manifest_recorded"} ->
         "ContextManifestRecorded"
    [] l.pc = "move_proposed" -> "NextMoveProposed"
    [] l.pc = "delta_validated" -> "TaskDeltaValidated"
    [] l.pc = "delta_accepted" -> "TaskDeltaAccepted"
    [] l.pc = "binding_recorded" -> "InputBindingRecorded"
    [] l.pc \in {"task_changed", "hook_changed"} -> "TaskStateChanged"
    [] l.pc = "revalidated" -> "NextMoveRevalidated"
    [] l.pc = "gate_recorded" -> "GateDecisionRecorded"
    [] l.pc = "tool_created" -> "ToolCallCreated"
    [] l.pc = "tool_started" -> "ToolCallStarted"
    [] l.pc = "tool_ended" -> TerminalEvent(l.outcome)
    [] l.pc = "tool_normalized" -> "ToolResultNormalized"
    [] l.pc = "observation_recorded" -> "ObservationRecorded"
    [] l.pc = "plan_proposed" -> "PresentationPlanProposed"
    [] OTHER -> "ResponseRendered"

\* Where the handler is after it.
NextPoint(l) ==
  CASE l.pc = "message_accepted" -> "run_started"
    [] l.pc = "run_started" -> "understanding_started"
    [] l.pc = "understanding_started" -> "save_manifest"
    [] l.pc = "save_manifest" -> "manifest_recorded"
    [] l.pc = "manifest_recorded" -> "propose"
    [] l.pc = "move_proposed" -> "delta_validated"
    [] l.pc = "delta_validated" -> "delta_accepted"
    [] l.pc = "delta_accepted" -> "binding_recorded"
    [] l.pc = "binding_recorded" -> "task_changed"
    [] l.pc = "task_changed" -> "revalidated"
    [] l.pc = "revalidated" -> "hook"
    [] l.pc = "hook_changed" -> "load_task"
    [] l.pc = "gate_recorded" ->
         IF l.stop = "GATE_REJECTED" THEN "response_rendered" ELSE "authorize"
    [] l.pc = "tool_created" -> "tool_started"
    [] l.pc = "tool_started" -> "tool_ended"
    [] l.pc = "tool_ended" -> "tool_normalized"
    [] l.pc = "tool_normalized" ->
         IF l.outcome = "FOUND" THEN "observation_recorded"
                                ELSE "response_rendered"
    [] l.pc = "observation_recorded" -> "save_plan_manifest"
    [] l.pc = "save_plan_manifest" -> "plan_manifest_recorded"
    [] l.pc = "plan_manifest_recorded" -> "plan"
    [] l.pc = "plan_proposed" -> "render"
    [] OTHER -> "finalize"

-------------------------------------------------------------------------------
Init ==
  /\ db = [r \in Runs |-> NoRecords]
  /\ h = [r \in Runs |-> IdleHandler]
  /\ phase = [p \in Procs |-> "down"]
  /\ claim = [p \in Procs |-> [run |-> NoRun, seen |-> NoClosure]]
  /\ faults = 0

\* A step of the handler that writes nothing.
Local(r, l) == h' = [h EXCEPT ![r] = l] /\ UNCHANGED <<db, phase, claim, faults>>

Fault == faults < MaxFaults /\ faults' = faults + 1

\* One call of the record port for Run r: its condition and the aggregate it
\* commits; the handler goes on at ok, at refused when the condition does not
\* hold, and at error when the call raises before or after its commit.
StoreCall(r, applies, committed, ok, refused, error) ==
  /\ UNCHANGED <<phase, claim>>
  /\ \/ /\ applies
        /\ db' = [db EXCEPT ![r] = committed]
        /\ h' = [h EXCEPT ![r] = ok]
        /\ UNCHANGED faults
     \/ /\ ~applies
        /\ h' = [h EXCEPT ![r] = refused]
        /\ UNCHANGED <<db, faults>>
     \/ /\ Fault
        /\ h' = [h EXCEPT ![r] = error]
        /\ \/ UNCHANGED db
           \/ applies /\ db' = [db EXCEPT ![r] = committed]

-------------------------------------------------------------------------------
(* AgentRunService: from the message to the Task graph.                    *)

\* A serving process takes a new message.
Accept(r, p) ==
  /\ h[r].pc = "idle"
  /\ phase[p] = "serving"
  /\ Local(r, [h[r] EXCEPT !.pc = "intake", !.host = p])

\* Toolset artifact, Conversation, USER Message and its authoritative reload:
\* nothing a Run aggregate holds changes.
Intake(r) ==
  /\ h[r].pc = "intake"
  /\ StoreCall(r, TRUE, db[r], At(h[r], "insert_run"),
               Raised(h[r]), Raised(h[r]))

InsertRun(r) ==
  /\ h[r].pc = "insert_run"
  /\ StoreCall(r, db[r].run = "ABSENT", RunInserted(db[r]),
               At(h[r], "start_run"), Raised(h[r]), Raised(h[r]))

\* Only an acknowledged APPLIED arms the exceptional closure.
StartRun(r) ==
  /\ h[r].pc = "start_run"
  /\ StoreCall(r, RunStartable(db[r]), RunStarted(db[r]),
               [h[r] EXCEPT !.pc = "message_accepted", !.running = TRUE],
               Raised(h[r]), Raised(h[r]))

\* One document or Trace event; a read that found no order sets the reason the
\* Run completes with.
PlainWrite(r) ==
  LET l == h[r]
      next == [l EXCEPT !.pc = NextPoint(l),
                        !.stop = IF l.pc = "tool_normalized"
                                    /\ l.outcome # "FOUND"
                                 THEN ReadStop(l.outcome) ELSE @]
  IN  /\ l.pc \in PlainPoint
      /\ StoreCall(r, TRUE, Written(db[r], WriteAt(l)), next, next, Raised(l))

\* propose_next_move and the pure reduction of its output: a routable graph, a
\* controlled refusal, or an exception or cancellation.
ProposeNextMove(r) ==
  /\ h[r].pc = "propose"
  /\ \/ Local(r, At(h[r], "create_graph"))
     \/ \E stop \in {"INPUT_INVALID", "PROVIDER_PROTOCOL_ERROR"} :
          Local(r, [h[r] EXCEPT !.pc = "response_rendered", !.stop = stop])
     \/ Local(r, Raised(h[r]))

CreateInitialTaskGraphUnchecked(r) ==   \* mutant: a conflict is ignored
  /\ h[r].pc = "create_graph"
  /\ LET created == [h[r] EXCEPT !.pc = "move_proposed", !.cursor = InitialRow]
     IN  StoreCall(r, GraphCreatable(db[r]), GraphCreated(db[r]), created, created, Raised(h[r]))
\* The link and Task enter the failure cursor only after an acknowledged
\* APPLIED.
CreateInitialTaskGraph(r) ==
  /\ h[r].pc = "create_graph"
  /\ StoreCall(r, GraphCreatable(db[r]), GraphCreated(db[r]),
               [h[r] EXCEPT !.pc = "move_proposed", !.cursor = InitialRow],
               Raised(h[r]), Raised(h[r]))

\* after_revalidation_hook: nothing, or the runtime-fault directive that moves
\* the Task to WAITING_USER between revalidation and the Gate, or an exception.
Hook(r) ==
  /\ h[r].pc = "hook"
  /\ \/ Local(r, At(h[r], "load_task"))
     \/ StoreCall(r, TransitionApplies(db[r], InitialRow, InitialRow),
                  TaskTransitioned(db[r], InitialRow, InitialRow,
                                   "WAITING_USER"),
                  At(h[r], "hook_changed"), Raised(h[r]), Raised(h[r]))
     \/ Local(r, Raised(h[r]))

\* The Task and the RequestUnit are read in two transactions.
LoadTask(r) ==
  /\ h[r].pc = "load_task"
  /\ StoreCall(r, db[r].task # NoRow, db[r],
               [h[r] EXCEPT !.pc = "load_unit", !.task = db[r].task],
               Raised(h[r]), Raised(h[r]))

LoadUnitStale(r) ==   \* mutant: the RequestUnit of revalidation is kept
  /\ h[r].pc = "load_unit"
  /\ StoreCall(r, db[r].unit # NoRow, db[r],
               [h[r] EXCEPT !.pc = "save_gate", !.unit = InitialRow,
                            !.cursor = h[r].task],
               Raised(h[r]), Raised(h[r]))
LoadUnit(r) ==
  /\ h[r].pc = "load_unit"
  /\ StoreCall(r, db[r].unit # NoRow, db[r],
               [h[r] EXCEPT !.pc = "save_gate", !.unit = db[r].unit,
                            !.cursor = h[r].task],
               Raised(h[r]), Raised(h[r]))

\* State boundary of evaluate_control_gateway; the validated version is the one
\* revalidation saw.
StateVersionValid(task, unit) ==
  /\ task.status = "ACTIVE" /\ unit.status = "ACTIVE"
  /\ task.version = unit.version
  /\ task.version = InitialRow.version

\* The other boundaries depend on the candidate alone: any verdict.
SaveGateDecision(r) ==
  /\ h[r].pc = "save_gate"
  /\ \E others \in BOOLEAN :
       LET accepted == others /\ StateVersionValid(h[r].task, h[r].unit)
       IN  StoreCall(r, TRUE, Written(db[r], "GATE_DECISION"),
             [h[r] EXCEPT !.pc = "gate_recorded",
                          !.stop = IF accepted THEN "NONE"
                                               ELSE "GATE_REJECTED"],
             h[r], Raised(h[r]))

\* The remaining Run time budget is positive, or the Run ends exceptionally.
Authorize(r) ==
  /\ h[r].pc = "authorize"
  /\ \/ Local(r, At(h[r], "insert_tool"))
     \/ Local(r, Raised(h[r]))

-------------------------------------------------------------------------------
(* ReadToolExecutor.execute_get_order.                                     *)

InsertToolCall(r) ==
  /\ h[r].pc = "insert_tool"
  /\ StoreCall(r, ToolCallInsertable(db[r]),
               ToolCallInserted(db[r], InitialRow.version),
               At(h[r], "fence"), Raised(h[r]), Raised(h[r]))

\* A fence that is not APPLIED returns without a read, and the service raises.
StartToolCallUnfenced(r) ==   \* mutant: the fence result is ignored
  /\ h[r].pc = "fence"
  /\ StoreCall(r, ToolCallStartable(db[r]), ToolCallStarted(db[r]),
               At(h[r], "dispatch"), At(h[r], "dispatch"), Raised(h[r]))
StartToolCall(r) ==
  /\ h[r].pc = "fence"
  /\ StoreCall(r, ToolCallStartable(db[r]), ToolCallStarted(db[r]),
               At(h[r], "dispatch"), Raised(h[r]), Raised(h[r]))

\* The one call of the order port.
DispatchRead(r) ==
  /\ h[r].pc = "dispatch"
  /\ Local(r, [h[r] EXCEPT !.pc = "await_order", !.reads = @ + 1])

\* The answer, the timeout, an exception of the port (which leaves the ToolCall
\* RUNNING), or a cancellation.
OrderAnswer(r) ==
  /\ h[r].pc = "await_order"
  /\ \/ \E outcome \in Outcome \ {"NONE"} :
          Local(r, [h[r] EXCEPT !.pc = "finalize_tool", !.outcome = outcome])
     \/ Local(r, At(h[r], "interrupt_tool"))
     \/ Local(r, Raised(h[r]))

FinalizeToolCall(r) ==
  /\ h[r].pc = "finalize_tool"
  /\ StoreCall(r, ToolCallFinalizable(db[r]),
               ToolCallFinalized(db[r], TerminalStatus(h[r].outcome)),
               At(h[r], IF h[r].outcome = "FOUND" THEN "save_observation"
                                                  ELSE "tool_created"),
               Raised(h[r]), Raised(h[r]))

SaveObservation(r) ==
  /\ h[r].pc = "save_observation"
  /\ StoreCall(r, ObservationSourced(db[r]), ObservationSaved(db[r]),
               At(h[r], "tool_created"), Raised(h[r]), Raised(h[r]))

\* Cancellation after the fence: INTERRUPTED, its Trace event only if that was
\* applied, and the cancellation goes on either way.
InterruptToolCallTraced(r) ==   \* mutant: traced although not applied
  /\ h[r].pc = "interrupt_tool"
  /\ StoreCall(r, ToolCallFinalizable(db[r]),
               ToolCallFinalized(db[r], "INTERRUPTED"),
               At(h[r], "interrupt_trace"), At(h[r], "interrupt_trace"),
               At(h[r], "interrupt_trace"))
InterruptToolCall(r) ==
  /\ h[r].pc = "interrupt_tool"
  /\ StoreCall(r, ToolCallFinalizable(db[r]),
               ToolCallFinalized(db[r], "INTERRUPTED"),
               At(h[r], "interrupt_trace"), Raised(h[r]), Raised(h[r]))

TraceInterruption(r) ==
  /\ h[r].pc = "interrupt_trace"
  /\ StoreCall(r, TRUE, Written(db[r], "ToolCallInterrupted"),
               Raised(h[r]), Raised(h[r]), Raised(h[r]))

-------------------------------------------------------------------------------
(* AgentRunService: from the Observation to the answer.                    *)

PlanPresentation(r) ==
  /\ h[r].pc = "plan"
  /\ \/ Local(r, At(h[r], "plan_proposed"))
     \/ Local(r, [h[r] EXCEPT !.pc = "response_rendered",
                              !.stop = "PROVIDER_PROTOCOL_ERROR"])
     \/ Local(r, Raised(h[r]))

\* validate_presentation_plan and the deterministic renderer.
Render(r) ==
  /\ h[r].pc = "render"
  /\ \E stop \in {"GOAL_COMPLETED", "PRESENTATION_PLAN_REJECTED",
                  "RENDERER_INVARIANT_FAILED"} :
       Local(r, [h[r] EXCEPT !.pc = "response_rendered", !.stop = stop])

LinksOf(cursor) == IF cursor = NoRow THEN "ABSENT" ELSE "OPEN"

\* The terminal aggregate; only an acknowledged APPLIED is an answer.
FinalizeRunUnchecked(r) ==   \* mutant: a conflict is answered as a success
  LET l == h[r]
      answered == [l EXCEPT !.pc = "returned", !.running = FALSE,
                            !.result = l.stop]
  IN  /\ l.pc = "finalize"
      /\ StoreCall(r, RunFinalizable(db[r], LinksOf(l.cursor), l.task, l.unit),
                   RunCompleted(db[r], l.stop, l.task, l.unit),
                   answered, answered, Raised(l))
FinalizeRun(r) ==
  LET l == h[r]
  IN  /\ l.pc = "finalize"
      /\ StoreCall(r, RunFinalizable(db[r], LinksOf(l.cursor), l.task, l.unit),
                   RunCompleted(db[r], l.stop, l.task, l.unit),
                   [l EXCEPT !.pc = "returned", !.running = FALSE,
                             !.result = l.stop],
                   Raised(l), Raised(l))

\* Exceptional closure: reload the Task (the cached one is kept when the load
\* fails), then close the Run as FAILED; a conflict or an error is only noted.
ReloadTask(r) ==
  /\ h[r].pc = "reload"
  /\ StoreCall(r, TRUE, db[r],
               [h[r] EXCEPT !.pc = "close", !.cursor = db[r].task],
               h[r], At(h[r], "close"))

CloseFailedRunRetrying(r) ==   \* mutant: a conflict is retried
  LET l == h[r]
      done(closing) == [l EXCEPT !.pc = "raised", !.closing = closing]
  IN  /\ l.pc = "close"
      /\ StoreCall(r, RunFinalizable(db[r], LinksOf(l.cursor), l.cursor, NoRow),
                   RunFailed(db[r], l.cursor), done("APPLIED"), l, done("ERROR"))
CloseFailedRun(r) ==
  LET l == h[r]
      done(closing) == [l EXCEPT !.pc = "raised", !.closing = closing]
  IN  /\ l.pc = "close"
      /\ StoreCall(r, RunFinalizable(db[r], LinksOf(l.cursor), l.cursor, NoRow),
                   RunFailed(db[r], l.cursor),
                   done("APPLIED"), done("CONFLICT"), done("ERROR"))

-------------------------------------------------------------------------------
(* Processes: startup recovery, service, shutdown and crash.               *)

Phase == {"down", "loading", "claiming", "serving"}
Unclaimed == [run |-> NoRun, seen |-> NoClosure]

\* Composition.start begins; recovery runs before the process serves.
Boot(p) ==
  /\ phase[p] = "down"
  /\ phase' = [phase EXCEPT ![p] = "loading"]
  /\ UNCHANGED <<db, h, claim, faults>>

\* load_next_restart_recovery_closure.  The code takes the oldest active Run by
\* started_at, a timestamp of whichever process accepted it: any active Run.
LoadClosure(p) ==
  /\ phase[p] = "loading"
  /\ UNCHANGED <<db, h>>
  /\ \/ /\ \A r \in Runs : ~Recoverable(db[r])
        /\ phase' = [phase EXCEPT ![p] = "serving"]
        /\ UNCHANGED <<claim, faults>>
     \/ \E r \in Runs :
          /\ Recoverable(db[r])
          /\ \/ /\ ClosureLoadable(db[r])
                /\ claim' = [claim EXCEPT ![p] =
                               [run |-> r, seen |-> Closure(db[r])]]
                /\ phase' = [phase EXCEPT ![p] = "claiming"]
             \/ /\ ~ClosureLoadable(db[r])
                /\ phase' = [phase EXCEPT ![p] = "down"]
                /\ UNCHANGED claim
          /\ UNCHANGED faults
     \/ /\ Fault
        /\ phase' = [phase EXCEPT ![p] = "down"]
        /\ UNCHANGED claim

\* claim_and_apply_restart_recovery: the closure read again under lock must
\* equal the one loaded.  Anything but APPLIED fails the startup closed.
ClaimAndApply(p) ==
  LET r == claim[p].run
      applies == Recoverable(db[r]) /\ Closure(db[r]) = claim[p].seen
      apply == db' = [db EXCEPT ![r] = Recovered(db[r])]
  IN  /\ phase[p] = "claiming"
      /\ claim' = [claim EXCEPT ![p] = Unclaimed]
      /\ UNCHANGED h
      /\ \/ /\ applies
            /\ apply
            /\ phase' = [phase EXCEPT ![p] = "loading"]
            /\ UNCHANGED faults
         \/ /\ ~applies
            /\ phase' = [phase EXCEPT ![p] = "down"]
            /\ UNCHANGED <<db, faults>>
         \/ /\ Fault
            /\ phase' = [phase EXCEPT ![p] = "down"]
            /\ (UNCHANGED db \/ (applies /\ apply))

Hosted(p) == {r \in Runs : h[r].host = p /\ h[r].pc \in Live}

\* An orderly stop, with no request in flight.
Shutdown(p) ==
  /\ phase[p] = "serving"
  /\ Hosted(p) = {}
  /\ phase' = [phase EXCEPT ![p] = "down"]
  /\ UNCHANGED <<db, h, claim, faults>>

\* A crash takes every handler of the process with it.
Crash(p) ==
  /\ phase[p] # "down"
  /\ Fault
  /\ phase' = [phase EXCEPT ![p] = "down"]
  /\ claim' = [claim EXCEPT ![p] = Unclaimed]
  /\ h' = [r \in Runs |-> IF r \in Hosted(p) THEN At(h[r], "dead") ELSE h[r]]
  /\ UNCHANGED db

-------------------------------------------------------------------------------
HandlerStep(r) ==
  \/ Intake(r) \/ InsertRun(r) \/ StartRun(r) \/ PlainWrite(r)
  \/ ProposeNextMove(r) \/ CreateInitialTaskGraph(r) \/ Hook(r)
  \/ LoadTask(r) \/ LoadUnit(r) \/ SaveGateDecision(r) \/ Authorize(r)
  \/ InsertToolCall(r) \/ StartToolCall(r) \/ DispatchRead(r)
  \/ OrderAnswer(r) \/ FinalizeToolCall(r) \/ SaveObservation(r)
  \/ InterruptToolCall(r) \/ TraceInterruption(r)
  \/ PlanPresentation(r) \/ Render(r) \/ FinalizeRun(r)
  \/ ReloadTask(r) \/ CloseFailedRun(r)

StartupStep(p) == Boot(p) \/ LoadClosure(p) \/ ClaimAndApply(p)

Next ==
  \/ \E r \in Runs, p \in Procs : Accept(r, p)
  \/ \E r \in Runs : HandlerStep(r)
  \/ \E p \in Procs : StartupStep(p) \/ Shutdown(p) \/ Crash(p)

Spec == Init /\ [][Next]_vars

===============================================================================
