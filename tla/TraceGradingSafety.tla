------------------------- MODULE TraceGradingSafety -------------------------
(***************************************************************************)
(* The Trace a Run leaves behind, whatever failed on the way, against the  *)
(* grader that judges it.                                                  *)
(***************************************************************************)
EXTENDS RunEvidenceSafety, TraceGrading

Taskless == {"PROVIDER_PROTOCOL_BEFORE_CANDIDATE", "INPUT_VALIDATION_REJECTED"}

(* The variants a Run that answered may be graded as: those of its stop    *)
(* reason with as many projections of the Task as it has.                  *)
Candidates(d) ==
  {v \in Variant : /\ ExpectedStop[v] = d.stop
                   /\ (v \in Taskless) = (d.task = NoRow)
                   /\ d.task # NoRow => ExpectedCount[v]["TaskStateChanged"] = d.task.version}

(* The Trace of an answered Run passes the grader as each variant of its   *)
(* stop reason, however the table happens to order the events of the       *)
(* terminal transaction: no answered Run lacks, repeats or misorders a     *)
(* safety-critical event, even after lost acknowledgements and restarts.   *)
AnsweredTracePasses ==
  \A r \in Runs : db[r].run = "COMPLETED" =>
    \A history \in Arrangements(db[r]), v \in Candidates(db[r]) :
      GraderPasses(FinalTrace(db[r], history), db[r].stop, v)

(* Nothing but an answered Run passes: the Trace of a Run that is still    *)
(* active, failed, or was closed by recovery is never graded complete,     *)
(* although recovery may write the very events an answer ends with.        *)
OnlyAnswersPass ==
  \A r \in Runs : \A history \in Arrangements(db[r]), v \in Variant :
    GraderPasses(FinalTrace(db[r], history), db[r].stop, v) => db[r].run = "COMPLETED"
-------------------------------------------------------------------------------
(* The strengthening behind AnsweredTracePasses: the events a handler has  *)
(* written at each point of a Run that is still RUNNING, one by one, and   *)
(* those of a Run it answered.                                             *)

\* The hook has moved the Task; an answer moves it once more.
Hooked(d) == d.task.version > (IF d.run = "COMPLETED" THEN 2 ELSE 1)

EndEvent(tool) ==
  CASE tool = "SUCCEEDED" -> "ToolCallSucceeded"
    [] tool = "TIMED_OUT" -> "ToolCallTimedOut"
    [] OTHER -> "ToolCallFailed"

\* The event at each place before the answer.
EventAt(i, hooked, tool) ==
  CASE i = 1 -> "MessageAccepted"
    [] i = 2 -> "RunStarted"
    [] i = 3 -> "RequestUnderstandingStarted"
    [] i \in {4, 17} -> "ContextManifestRecorded"
    [] i = 5 -> "NextMoveProposed"
    [] i = 6 -> "TaskDeltaValidated"
    [] i = 7 -> "TaskDeltaAccepted"
    [] i = 8 -> "InputBindingRecorded"
    [] i = 9 -> "TaskStateChanged"
    [] i = 10 -> "NextMoveRevalidated"
    [] i = 11 -> IF hooked THEN "TaskStateChanged" ELSE "GateDecisionRecorded"
    [] i = 12 -> IF hooked THEN "GateDecisionRecorded" ELSE "ToolCallCreated"
    [] i = 13 -> "ToolCallStarted"
    [] i = 14 -> EndEvent(tool)
    [] i = 15 -> "ToolResultNormalized"
    [] i = 16 -> "ObservationRecorded"
    [] OTHER -> "PresentationPlanProposed"

\* The Trace starts with the first n of them.
Opens(d, n) ==
  n <= Len(d.trace) /\ \A i \in 1..n : d.trace[i] = EventAt(i, Hooked(d), d.tool)

\* How many a handler has written before it answers, and how many there are
\* when it answers with each reason.
Before(l, d) ==
  IF Progress(l.pc) <= 11 THEN Progress(l.pc) - 1
  ELSE IF Hooked(d) THEN 11 ELSE Progress(l.pc) - 2
BeforeAnswer(d, stop) ==
  IF d.task = NoRow THEN 4
  ELSE IF stop = "GATE_REJECTED" THEN IF Hooked(d) THEN 12 ELSE 11
  ELSE IF stop \in {"NOT_FOUND_OR_NOT_ACCESSIBLE", "ORDER_SERVICE_UNAVAILABLE"} THEN 15
  ELSE IF stop = "PROVIDER_PROTOCOL_ERROR" THEN 17
  ELSE 18

\* An answered Run: the answer, the last transition of the Task, and the end.
Finished(d) ==
  LET n == BeforeAnswer(d, d.stop) IN
  /\ Opens(d, n) /\ d.trace[n + 1] = "ResponseRendered"
  /\ IF d.task = NoRow THEN Len(d.trace) = n + 2
     ELSE Len(d.trace) = n + 3 /\ d.trace[n + 2] = "TaskStateChanged"
  /\ d.trace[Len(d.trace)] = "RunStopped"
  /\ d.stop = "NOT_FOUND_OR_NOT_ACCESSIBLE" => d.tool = "FAILED"
  /\ Hooked(d) => d.stop = "GATE_REJECTED"

WritingPoint == ServicePoint \cup ExecutorPoint
Unfinished(l, d) ==
  /\ l.pc \notin AnswerPoint => Len(d.trace) = Before(l, d) /\ Opens(d, Before(l, d))
  /\ l.pc = "response_rendered" =>
       Len(d.trace) = BeforeAnswer(d, l.stop) /\ Opens(d, BeforeAnswer(d, l.stop))
  /\ l.pc = "finalize" =>
       LET n == BeforeAnswer(d, l.stop) IN
       Opens(d, n) /\ Len(d.trace) = n + 1 /\ d.trace[n + 1] = "ResponseRendered"
  /\ Hooked(d) => l.pc \in {"hook_changed", "load_task", "load_unit"} \cup GatePoint \cup AnswerPoint
  /\ Hooked(d) /\ l.pc \in AnswerPoint => l.stop = "GATE_REJECTED"
  /\ l.pc = "hook_changed" => Hooked(d)

Storied(l, d) ==
  /\ d.run = "RUNNING" /\ l.pc \in WritingPoint => Unfinished(l, d)
  /\ d.run = "COMPLETED" => Finished(d)
StoryInv == \A r \in Runs : Storied(h[r], db[r])
============================================================================
