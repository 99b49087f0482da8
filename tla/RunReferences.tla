----------------------------- MODULE RunReferences -----------------------------
(***************************************************************************)
(* The rows behind a Run aggregate, and what each of them refers to.       *)
(*                                                                         *)
(* A row is a record code and a number: 1 is the USER Message and 2 the    *)
(* reply, 1 is the manifest of request understanding and 2 that of the     *)
(* presentation, and a Trace row has the place of its event.  Rows of one  *)
(* Run refer to each other only, so identities, owners and the model-call  *)
(* columns of equal rows agree and are left out.                           *)
(***************************************************************************)
EXTENDS RunRecords

ConversationRow == <<"CONVERSATION", 1>>
UserMessageRow == <<"MESSAGE", 1>>
ReplyRow == <<"MESSAGE", 2>>
ArtifactRow == <<"ARTIFACT", 1>>
RunRow == <<"RUN", 1>>
UnderstandingRow == <<"UNDERSTANDING", 1>>
TaskRow == <<"TASK", 1>>
UnitRow == <<"UNIT", 1>>
ConversationLinkRow == <<"CONVERSATION_LINK", 1>>
RunLinkRow == <<"RUN_LINK", 1>>
BindingRow == <<"BINDING", 1>>
GateRow == <<"GATE", 1>>
ToolCallRow == <<"TOOL_CALL", 1>>
ObservationRow == <<"OBSERVATION", 1>>
ManifestRow(n) == <<"MANIFEST", n>>
TraceRow(i) == <<"TRACE", i>>
Only(row, stored) == IF stored THEN {row} ELSE {}
Code(row) == row[1]

\* insert_run comes after the Conversation, the USER Message and the artifact.
StoredRows(d) ==
  {ConversationRow, UserMessageRow, ArtifactRow, RunRow}
    \cup (IF d.task = NoRow THEN {}
          ELSE {UnderstandingRow, TaskRow, UnitRow, ConversationLinkRow, RunLinkRow, BindingRow})
    \cup Only(ManifestRow(1), "UNDERSTANDING_MANIFEST" \in d.documents)
    \cup Only(ManifestRow(2), "PRESENTATION_MANIFEST" \in d.documents)
    \cup Only(GateRow, "GATE_DECISION" \in d.documents)
    \cup Only(ToolCallRow, d.tool # "ABSENT")
    \cup Only(ObservationRow, d.observation)
    \cup Only(ReplyRow, d.reply)
    \cup {TraceRow(i) : i \in DOMAIN d.trace}
-------------------------------------------------------------------------------
(* What the encoder projects into the reference rows.                      *)

\* The records each Trace event names, besides the Run.
EventReferences(d, i) ==
  LET type == d.trace[i]
      graph == {TaskRow, UnitRow}
      second == \E j \in 1..(i - 1) : d.trace[j] = type
  IN  CASE type \in {"MessageAccepted", "RequestUnderstandingStarted", "TaskDeltaValidated"} ->
             {UserMessageRow}
        [] type = "ContextManifestRecorded" ->
             {ManifestRow(IF second THEN 2 ELSE 1), ArtifactRow}
        [] type = "NextMoveProposed" -> {UserMessageRow, ManifestRow(1)}
        [] type = "TaskDeltaAccepted" -> {UserMessageRow} \cup graph
        [] type = "TaskStateChanged" -> graph
        [] type \in {"InputBindingRecorded", "NextMoveRevalidated"} -> {BindingRow} \cup graph
        [] type = "GateDecisionRecorded" -> {ManifestRow(1), BindingRow} \cup graph
        [] type = "ToolCallCreated" -> {ManifestRow(1), BindingRow, ToolCallRow} \cup graph
        [] type = "ObservationRecorded" -> {ToolCallRow, ObservationRow} \cup graph
        [] type = "PresentationPlanProposed" -> {ManifestRow(2), ObservationRow} \cup graph
        [] type = "ResponseRendered" ->
             Only(ObservationRow, d.observation) \cup (IF d.task = NoRow THEN {} ELSE graph)
        [] type \in {"RunStarted", "RunStopped"} -> {}
        [] OTHER -> {ToolCallRow} \cup graph

\* What the columns of each other record refer to, by group; a row of another
\* group refers to nothing there.  An answer that has an Observation gives it to
\* the RequestUnit it closes.
GraphReferences(d, row) ==
  CASE Code(row) = "MESSAGE" -> {ConversationRow}
    [] Code(row) = "TASK" -> Only(UnitRow, d.task.version > 1)
    [] Code(row) = "UNIT" -> {TaskRow, UserMessageRow, BindingRow}
                               \cup Only(ObservationRow, d.observation /\ d.reply)
    [] Code(row) = "CONVERSATION_LINK" -> {ConversationRow, TaskRow}
    [] Code(row) = "RUN_LINK" -> {RunRow, TaskRow}
    [] Code(row) = "BINDING" -> {UserMessageRow, UnitRow}
    [] OTHER -> {}
CallReferences(row) ==
  CASE Code(row) = "RUN" -> {ConversationRow}
    [] Code(row) = "GATE" -> {ManifestRow(1), BindingRow}
    [] Code(row) = "TOOL_CALL" ->
         {RunRow, TaskRow, UnitRow, ManifestRow(1), GateRow, BindingRow}
    [] Code(row) = "OBSERVATION" -> {ToolCallRow, RunRow, TaskRow, UnitRow}
    [] OTHER -> {}
ManifestReferences(row) ==
  CASE row = ManifestRow(1) -> {RunRow, UserMessageRow, ArtifactRow}
    [] row = ManifestRow(2) -> {RunRow, UserMessageRow, ArtifactRow, TaskRow, ObservationRow}
    [] OTHER -> {}
UnderstandingReferences(row) ==
  IF row = UnderstandingRow THEN {RunRow, UserMessageRow, BindingRow, TaskRow} ELSE {}
TraceReferences(d, row) ==
  IF Code(row) = "TRACE" THEN {RunRow} \cup EventReferences(d, row[2]) ELSE {}

References(d, row) ==
  GraphReferences(d, row) \cup CallReferences(row) \cup ManifestReferences(row)
    \cup UnderstandingReferences(row) \cup TraceReferences(d, row)
ReferencesOf(d) == [row \in StoredRows(d) |-> References(d, row)]

\* Every write derives the owner of the row it stores from the rows it refers
\* to, directly or not, and fails when one of them is missing or none has an
\* owner: only a Conversation and a Task carry theirs, and every other row but
\* an artifact leads to one of them over at most three references.
Leading(refs, rows) == rows \cup {row \in DOMAIN refs : refs[row] \cap rows # {}}
OwnersDerived(d) ==
  LET refs == ReferencesOf(d)
      owned == {ConversationRow} \cup (DOMAIN refs \cap {TaskRow})
  IN  /\ \A row \in DOMAIN refs : refs[row] \subseteq DOMAIN refs
      /\ DOMAIN refs \ {ArtifactRow} \subseteq Leading(refs, Leading(refs, Leading(refs, owned)))
================================================================================
