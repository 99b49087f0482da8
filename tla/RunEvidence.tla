------------------------------ MODULE RunEvidence ------------------------------
(***************************************************************************)
(* How load_exact_run_evidence_for_owner collects the rows of one Run      *)
(* along their references, and accepts them as an ExactRunEvidenceClosure. *)
(*                                                                         *)
(* Clocks never run back within a Run; "early" tells whether the           *)
(* presentation manifest was assembled at an earlier instant than the      *)
(* transition which ended the Task version it names, and not at the same   *)
(* one or later.                                                           *)
(***************************************************************************)
EXTENDS RunReferences, FiniteSets

(* load_exact_run_evidence_for_owner.                                      *)

FamilyCapOfOneManifest(code) ==   \* mutant: the second model call is forgotten
  CASE code \in {"CONVERSATION", "UNDERSTANDING", "RUN", "GATE", "TOOL_CALL", "OBSERVATION",
                 "MANIFEST"} -> 1
    [] code = "ARTIFACT" -> 2
    [] OTHER -> 64
FamilyCap(code) ==
  CASE code \in {"CONVERSATION", "UNDERSTANDING", "RUN", "GATE", "TOOL_CALL", "OBSERVATION"} -> 1
    [] code \in {"ARTIFACT", "MANIFEST"} -> 2
    [] OTHER -> 64

\* Pairs of codes for which the loader follows a reference to its target.
ForwardRelations ==
  ({"MESSAGE", "CONVERSATION_LINK", "RUN"} \X {"CONVERSATION"})
    \cup ({"UNDERSTANDING"} \X {"RUN", "MESSAGE", "BINDING", "TASK"})
    \cup ({"UNIT"} \X {"TASK", "MESSAGE", "BINDING", "OBSERVATION"})
    \cup ({"CONVERSATION_LINK", "RUN_LINK"} \X {"TASK"})
    \cup {<<"RUN_LINK", "RUN">>, <<"TASK", "UNIT">>}
    \cup ({"BINDING"} \X {"MESSAGE", "BINDING", "UNIT"})
    \cup ({"GATE"} \X {"MANIFEST", "BINDING"})
    \cup ({"TOOL_CALL"} \X {"RUN", "TASK", "UNIT", "MANIFEST", "GATE", "BINDING"})
    \cup ({"OBSERVATION"} \X {"OBSERVATION", "TOOL_CALL", "RUN", "TASK", "UNIT"})
    \cup ({"MANIFEST"} \X {"RUN", "MESSAGE", "TASK", "OBSERVATION", "ARTIFACT"})
    \cup ({"TRACE"} \X {"RUN", "MESSAGE", "TASK", "UNIT", "BINDING", "MANIFEST", "ARTIFACT",
                         "TOOL_CALL", "OBSERVATION"})

\* Pairs of codes for which it looks for the rows that refer to a row it has:
\* by their reference rows, or by their run, Task and RequestUnit columns.
ReverseRelations ==
  ({"UNDERSTANDING"} \X {"RUN", "TASK"})
    \cup ({"TASK"} \X {"UNIT"})
    \cup ({"UNIT", "CONVERSATION_LINK"} \X {"TASK"})
    \cup ({"RUN_LINK"} \X {"RUN", "TASK"})
    \cup ({"BINDING"} \X {"UNIT"})
    \cup ({"GATE"} \X {"MANIFEST", "BINDING"})
    \cup ({"MANIFEST"} \X {"RUN", "TASK"})
    \cup ({"TOOL_CALL"} \X {"RUN", "TASK", "UNIT"})
    \cup ({"OBSERVATION", "TRACE"} \X {"TOOL_CALL", "RUN", "TASK", "UNIT"})

\* One round of selection: the rows the selected ones refer to, and the rows
\* that refer to a selected one.
Sought(refs, selected, row) ==
  \E target \in refs[row] \cap selected : <<Code(row), Code(target)>> \in ReverseRelations
Selecting(refs, selected) ==
  selected \cup (UNION {refs[row] : row \in selected \cap DOMAIN refs})
    \cup {row \in DOMAIN refs : Sought(refs, selected, row)}

\* The loader selects until a round adds nothing.  From the Run that is after
\* three rounds, of whatever rows it finds (SelectionEnds).
SelectedFrom(refs, start) == Selecting(refs, Selecting(refs, Selecting(refs, start)))

\* A row that is not there, a relation the loader does not know and a family
\* above its cap are integrity errors.
Collected(refs, selected) ==
  /\ selected \subseteq DOMAIN refs
  /\ \A row \in selected : \A target \in refs[row] :
       <<Code(row), Code(target)>> \in ForwardRelations
  /\ \A row \in selected :
       Cardinality({other \in selected : Code(other) = Code(row)}) <= FamilyCap(Code(row))
-------------------------------------------------------------------------------
(* ExactRunEvidenceClosure.                                                *)

\* Messages, bindings, Observations and artifacts: exactly those which the
\* records named for each family refer to.
ReferringFamilies ==
  [MESSAGE |-> {"UNDERSTANDING", "UNIT", "BINDING", "MANIFEST", "TRACE"},
   BINDING |-> {"UNDERSTANDING", "UNIT", "GATE", "TOOL_CALL", "TRACE"},
   OBSERVATION |-> {"UNIT", "MANIFEST", "TRACE"},
   ARTIFACT |-> {"MANIFEST", "TRACE"}]
FamiliesAreReferenced(refs, selected) ==
  \A code \in DOMAIN ReferringFamilies :
    LET referring == {row \in selected : Code(row) \in ReferringFamilies[code]}
    IN  {row \in selected : Code(row) = code}
          = {row \in UNION {refs[source] : source \in referring} : Code(row) = code}

\* The understood request and its accepted Task come together.
UnderstandingIsAccepted(selected) == UnderstandingRow \in selected <=> TaskRow \in selected

\* A Task has both its links; that to the Run is open while the Run is active
\* and then carries the version the Task ended with.
LinksAreExact(d, selected) ==
  /\ RunLinkRow \in selected <=> TaskRow \in selected
  /\ ConversationLinkRow \in selected <=> TaskRow \in selected
  /\ RunLinkRow \in selected =>
       /\ d.link = (IF d.run \in ActiveRun THEN "OPEN" ELSE "CLOSED")
       /\ d.link = "CLOSED" => d.resultVersion = d.task.version

\* A Task has one RequestUnit, at its own status and version.
UnitMatchesTask(d, selected) ==
  /\ UnitRow \in selected <=> TaskRow \in selected
  /\ UnitRow \in selected => d.unit = d.task

\* A Task that was never moved is ACTIVE.
HistoryIsComplete(d, selected) ==
  TaskRow \in selected /\ d.task.version = 1 => d.task.status = "ACTIVE"

\* A manifest names the Task version that was current when it was assembled:
\* the transition that ended that version came strictly later.
ManifestsFitHistory(d, selected, early) ==
  ManifestRow(2) \in selected => TaskRow \in selected /\ (d.task.version > 1 => early)

\* A ToolCall has its accepted GateDecision, which may be of no other, its
\* manifest and a validated version the Task has reached.
ToolCallIsGated(d, selected) ==
  /\ GateRow \in selected => ManifestRow(1) \in selected
  /\ ToolCallRow \in selected =>
       /\ {TaskRow, UnitRow, GateRow, ManifestRow(1)} \subseteq selected
       /\ d.validated <= d.task.version
AttemptsAgree(d) ==
  d.tool \notin {"ABSENT", "CREATED", "INTERRUPTED"} => d.attempts = 1

EventsOf(d, types) == {i \in DOMAIN d.trace : d.trace[i] \in types}

\* What an event names is in the closure.
EventsResolve(refs, selected) ==
  \A row \in selected : Code(row) = "TRACE" => refs[row] \subseteq selected

\* No GateDecisionRecorded without a GateDecision of its own.
GateEventsAreOwned(d, selected) ==
  Cardinality(EventsOf(d, {"GateDecisionRecorded"}))
    <= Cardinality({row \in selected : Code(row) = "GATE"})

\* At most one normalized result, of a ToolCall that ended.
ResultIsNormalizedOnce(d) ==
  LET normalized == EventsOf(d, {"ToolResultNormalized"})
  IN  Cardinality(normalized) <= 1 /\ (normalized # {} => d.tool \notin ActiveToolCall)

\* Each Observation has one ObservationRecorded, of a ToolCall that SUCCEEDED.
ObservationIsSourced(d, selected) ==
  LET recorded == EventsOf(d, {"ObservationRecorded"})
  IN  /\ Cardinality(recorded) = (IF ObservationRow \in selected THEN 1 ELSE 0)
      /\ recorded # {} => d.tool = "SUCCEEDED"

\* RunStopped: none while active or FAILED, one otherwise, and its reason one
\* the Task, or the lack of one, allows.
StopIsExact(d, selected) ==
  LET stopped == Cardinality(EventsOf(d, {"RunStopped"}))
  IN  CASE d.run = "COMPLETED" ->
             /\ stopped = 1
             /\ IF TaskRow \in selected
                THEN d.stop \in CompletionReason \ {"INPUT_INVALID"}
                       /\ d.task.status = TargetStatus(d.stop)
                ELSE d.stop \in {"PROVIDER_PROTOCOL_ERROR", "INPUT_INVALID"}
        [] d.run = "INCOMPLETE" -> stopped = 1 /\ d.stop = RestartReason
        [] OTHER -> stopped = 0 /\ d.stop = "NONE"

LifecycleStatus ==
  [ToolCallCreated |-> "CREATED", ToolCallStarted |-> "RUNNING",
   ToolCallSucceeded |-> "SUCCEEDED", ToolCallFailed |-> "FAILED",
   ToolCallTimedOut |-> "TIMED_OUT", ToolCallInterrupted |-> "INTERRUPTED"]

LifecycleUnlessTraced(d) ==   \* mutant: a ToolCall without events passes
  LET events == EventsOf(d, DOMAIN LifecycleStatus)
      statuses == {LifecycleStatus[d.trace[i]] : i \in events}
  IN  d.tool # "ABSENT" => statuses \ ActiveToolCall \subseteq {d.tool}
\* The events of a ToolCall are told apart by their status and the latest of
\* them is its status; there is at least one.
LifecycleIsTraced(d) ==
  LET events == EventsOf(d, DOMAIN LifecycleStatus)
      statuses == {LifecycleStatus[d.trace[i]] : i \in events}
  IN  d.tool # "ABSENT" =>
        /\ Cardinality(statuses) = Cardinality(events)
        /\ d.tool \in statuses
        /\ statuses \ ActiveToolCall \subseteq {d.tool}
        /\ d.tool = "CREATED" => statuses = {"CREATED"}

ClosureIsExact(d, refs, selected, early) ==
  /\ UnderstandingIsAccepted(selected)
  /\ LinksAreExact(d, selected)
  /\ UnitMatchesTask(d, selected)
  /\ HistoryIsComplete(d, selected)
  /\ ManifestsFitHistory(d, selected, early)
  /\ ToolCallIsGated(d, selected) /\ AttemptsAgree(d)
  /\ EventsResolve(refs, selected)
  /\ ObservationIsSourced(d, selected)
  /\ GateEventsAreOwned(d, selected)
  /\ ResultIsNormalizedOnce(d)
  /\ StopIsExact(d, selected)
  /\ LifecycleIsTraced(d)
  /\ FamiliesAreReferenced(refs, selected)

\* The loader returns a closure for the Run; otherwise it raises.
EvidenceLoads(d, early) ==
  LET refs == ReferencesOf(d)
      selected == SelectedFrom(refs, {RunRow})
  IN  Collected(refs, selected) /\ ClosureIsExact(d, refs, selected, early)

===============================================================================
