--------------------------- MODULE RunEvidenceSafety ---------------------------
(***************************************************************************)
(* What a Run leaves behind as evidence: when the exact-run loader accepts *)
(* the rows that the handlers, the crashes and the recoveries of AgentRun  *)
(* have stored, and when they are lost to it.                              *)
(***************************************************************************)
EXTENDS AgentRunSafety, RunEvidence

\* The last write of the ToolCall is told by its event, and an Observation by
\* its own: the handler was not cut off between the two.
ToolTold(d) ==
  d.tool # "ABSENT" =>
    \E type \in Traced(d) \cap DOMAIN LifecycleStatus : LifecycleStatus[type] = d.tool
ObservationTold(d) == d.observation => "ObservationRecorded" \in Traced(d)

\* The handler of an answered Run assembled its presentation manifest before it
\* read the clock again for the final transition; equal readings are refused.
Assembled(d, early) == "PRESENTATION_MANIFEST" \in d.documents => early

(* The evidence of every answered Run can be loaded and judged, whatever   *)
(* was rejected, timed out or not found on the way, unless the clock stood *)
(* still between the presentation manifest and the final transition.       *)
AnsweredEvidenceLoads ==
  \A r \in Runs : db[r].run = "COMPLETED" =>
    \A early \in BOOLEAN : EvidenceLoads(db[r], early) = Assembled(db[r], early)

(* A Run that was not answered loses its evidence for three causes and no  *)
(* other: its handler was cut off after a tool write and before the event  *)
(* that tells of it, or, with the Run already closed by a recovery, stored *)
(* a presentation manifest that names a Task version the recovery ended.   *)
EvidenceLossIsExplained ==
  \A r \in Runs : db[r].run \in {"FAILED", "INCOMPLETE"} =>
    \A early \in BOOLEAN :
      EvidenceLoads(db[r], early)
        = (/\ ToolTold(db[r]) /\ ObservationTold(db[r])
           /\ db[r].run = "INCOMPLETE" => Assembled(db[r], early))
-------------------------------------------------------------------------------
(* The strengthening behind both: how many events a handler has written at *)
(* each point, which of them it has yet to write, and what the records and *)
(* the Trace of a Run say of each other once it is closed.                 *)

\* How far a handler is: more by one or more with every event it writes.
Progress(point) ==
  CASE point \in EntryPoint \cup {"idle", "message_accepted"} -> 1
    [] point = "run_started" -> 2
    [] point = "understanding_started" -> 3
    [] point \in {"save_manifest", "manifest_recorded"} -> 4
    [] point \in {"propose", "create_graph", "move_proposed"} -> 5
    [] point = "delta_validated" -> 6
    [] point = "delta_accepted" -> 7
    [] point = "binding_recorded" -> 8
    [] point = "task_changed" -> 9
    [] point = "revalidated" -> 10
    [] point \in {"hook", "hook_changed"} -> 11
    [] point \in {"load_task", "load_unit", "save_gate", "gate_recorded"} -> 12
    [] point \in AuthorizedPoint \cup ExecutorPoint \cup {"tool_created"} -> 13
    [] point = "tool_started" -> 14
    [] point = "tool_ended" -> 15
    [] point = "tool_normalized" -> 16
    [] point = "observation_recorded" -> 17
    [] point \in {"save_plan_manifest", "plan_manifest_recorded"} -> 18
    [] point \in {"plan", "plan_proposed"} -> 19
    [] point \in {"render", "response_rendered"} -> 20
    [] point = "finalize" -> 21
    [] OTHER -> 22

\* The events the loader counts, and how far the handler is when it writes each;
\* ToolCallInterrupted may come from a recovery at any time.
Place(event) ==
  CASE event = "GateDecisionRecorded" -> 12
    [] event = "ToolCallCreated" -> 13
    [] event = "ToolCallStarted" -> 14
    [] event \in {"ToolCallSucceeded", "ToolCallFailed", "ToolCallTimedOut"} -> 15
    [] event = "ToolResultNormalized" -> 16
    [] event = "ObservationRecorded" -> 17
    [] OTHER -> 0
CountedEvent ==
  {"GateDecisionRecorded", "ToolCallCreated", "ToolCallStarted", "ToolCallSucceeded",
   "ToolCallFailed", "ToolCallTimedOut", "ToolCallInterrupted", "ToolResultNormalized",
   "ObservationRecorded"}

\* The transaction that ends a Run writes up to three events.
Ending(d) == IF d.run \in TerminalRun THEN 3 ELSE 0
Single(d, event) ==
  \A i, j \in DOMAIN d.trace : d.trace[i] = event /\ d.trace[j] = event => i = j

Paced(l, d) ==
  /\ Len(d.trace) < Progress(l.pc) + Ending(d)
  /\ \A event \in Traced(d) : Place(event) < Progress(l.pc)
  /\ l.pc = "interrupt_trace" => "ToolCallInterrupted" \notin Traced(d)
  /\ \A event \in CountedEvent : Single(d, event)

\* A completed Run, its Task and its reason agree, and a Task was moved by
\* whoever completed or recovered its Run.
TasklessReason == {"PROVIDER_PROTOCOL_ERROR", "INPUT_INVALID"}
Concluded(d) ==
  /\ d.task.version = 1 => d.task.status = "ACTIVE"
  /\ d.tool # "ABSENT" => d.validated = 1 /\ d.task.version >= 1
  /\ d.tool # "ABSENT" /\ d.run \in {"RUNNING", "FAILED"} => d.task = InitialRow
  /\ d.run \in {"COMPLETED", "INCOMPLETE"} /\ d.task # NoRow => d.task.version > 1
  /\ d.run = "COMPLETED" =>
       IF d.task = NoRow THEN d.stop \in TasklessReason
       ELSE d.stop # "INPUT_INVALID" /\ d.task.status = TargetStatus(d.stop)

\* What the Trace tells of the tool at each point, and of an answered Run.
Reported(l, d) ==
  /\ "ToolResultNormalized" \in Traced(d) => d.tool \notin ActiveToolCall
  /\ l.pc \in {"tool_normalized"} \cup ObservedPoint \cup AnswerPoint => ToolTold(d)
  /\ l.pc \in (ObservedPoint \ {"observation_recorded"}) \cup AnswerPoint => ObservationTold(d)
  /\ l.pc \in AnswerPoint /\ l.cursor = NoRow => l.stop \in TasklessReason
  /\ d.run = "COMPLETED" => ToolTold(d) /\ ObservationTold(d)

EvidenceInv ==
  \A r \in Runs : Paced(h[r], db[r]) /\ Concluded(db[r]) /\ Reported(h[r], db[r])
===============================================================================
