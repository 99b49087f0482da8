------------------------- MODULE RecordOutcomesProofs -------------------------
(***************************************************************************)
(* What a transaction of RecordTransactions leaves when the rows it read   *)
(* agree with the records it commits to: the conditional write of its      *)
(* command, which AtomicRecords has as a step.                             *)
(***************************************************************************)
EXTENDS RecordTransactionsSafety, TLAPS

(* Rows.                                                                    *)

\* The places of a row in the two orders.
LockRank(row) ==
  CASE row = "run" -> 1 [] row = "unit" -> 2 [] row = "link" -> 3
    [] row = "task" -> 4 [] OTHER -> 5
ReferenceRank(row) ==
  CASE row = "unit" -> 1 [] row = "run" -> 2 [] row = "task" -> 3 [] OTHER -> 4

\* The stable lock order covers every row, so it always names a next one.
LEMMA NextOfLocks ==
  ASSUME NEW rows \in SUBSET Row, rows # {}
  PROVE  /\ FirstOf(LockOrder, rows) \in rows
         /\ \A row \in rows : LockRank(FirstOf(LockOrder, rows)) <= LockRank(row)
<1> DEFINE First(i) == /\ LockOrder[i] \in rows
                       /\ \A j \in 1..(i - 1) : LockOrder[j] \notin rows
<1>1. /\ Len(LockOrder) = 5
      /\ LockOrder[1] = "run" /\ LockOrder[2] = "unit" /\ LockOrder[3] = "link"
      /\ LockOrder[4] = "task" /\ LockOrder[5] = "tool"
  BY DEF LockOrder
<1>2. \E i \in 1..5 : First(i)
  <2>1. CASE "run" \in rows
    <3>1. First(1)
      BY <1>1, <2>1
    <3> QED BY <3>1
  <2>2. CASE "run" \notin rows /\ "unit" \in rows
    <3>1. First(2)
      BY <1>1, <2>2
    <3> QED BY <3>1
  <2>3. CASE rows \cap {"run", "unit"} = {} /\ "link" \in rows
    <3>1. First(3)
      BY <1>1, <2>3
    <3> QED BY <3>1
  <2>4. CASE rows \cap {"run", "unit", "link"} = {} /\ "task" \in rows
    <3>1. First(4)
      BY <1>1, <2>4
    <3> QED BY <3>1
  <2>5. CASE rows \cap {"run", "unit", "link", "task"} = {} /\ "tool" \in rows
    <3>1. First(5)
      BY <1>1, <2>5
    <3> QED BY <3>1
  <2> QED BY <2>1, <2>2, <2>3, <2>4, <2>5 DEF Row
<1>3. PICK i \in 1..5 : First(i) /\ FirstOf(LockOrder, rows) = LockOrder[i]
  BY <1>1, <1>2 DEF FirstOf
<1>4. \A row \in rows : \E j \in 1..5 : row = LockOrder[j] /\ LockRank(row) = j
  BY <1>1 DEF Row, LockRank
<1>5. LockRank(LockOrder[i]) = i
  BY <1>1 DEF LockRank
<1>6. ASSUME NEW row \in rows PROVE i <= LockRank(row)
  <2>1. PICK j \in 1..5 : row = LockOrder[j] /\ LockRank(row) = j
    BY <1>4
  <2>2. ~(j < i)
    BY <1>3, <2>1
  <2> QED BY <2>1, <2>2
<1> QED BY <1>3, <1>5, <1>6

\* So does the order of the references for the rows a reference can name.
LEMMA NextOfReferences ==
  ASSUME NEW rows \in SUBSET {"unit", "run", "task", "tool"}, rows # {}
  PROVE  /\ FirstOf(ReferenceOrder, rows) \in rows
         /\ \A row \in rows :
              ReferenceRank(FirstOf(ReferenceOrder, rows)) <= ReferenceRank(row)
<1> DEFINE First(i) == /\ ReferenceOrder[i] \in rows
                       /\ \A j \in 1..(i - 1) : ReferenceOrder[j] \notin rows
<1>1. /\ Len(ReferenceOrder) = 4
      /\ ReferenceOrder[1] = "unit" /\ ReferenceOrder[2] = "run"
      /\ ReferenceOrder[3] = "task" /\ ReferenceOrder[4] = "tool"
  BY DEF ReferenceOrder
<1>2. \E i \in 1..4 : First(i)
  <2>1. CASE "unit" \in rows
    <3>1. First(1)
      BY <1>1, <2>1
    <3> QED BY <3>1
  <2>2. CASE "unit" \notin rows /\ "run" \in rows
    <3>1. First(2)
      BY <1>1, <2>2
    <3> QED BY <3>1
  <2>3. CASE rows \cap {"unit", "run"} = {} /\ "task" \in rows
    <3>1. First(3)
      BY <1>1, <2>3
    <3> QED BY <3>1
  <2>4. CASE rows \cap {"unit", "run", "task"} = {} /\ "tool" \in rows
    <3>1. First(4)
      BY <1>1, <2>4
    <3> QED BY <3>1
  <2> QED BY <2>1, <2>2, <2>3, <2>4
<1>3. PICK i \in 1..4 : First(i) /\ FirstOf(ReferenceOrder, rows) = ReferenceOrder[i]
  BY <1>1, <1>2 DEF FirstOf
<1>4. \A row \in rows : \E j \in 1..4 : row = ReferenceOrder[j] /\ ReferenceRank(row) = j
  BY <1>1 DEF ReferenceRank
<1>5. ReferenceRank(ReferenceOrder[i]) = i
  BY <1>1 DEF ReferenceRank
<1>6. ASSUME NEW row \in rows PROVE i <= ReferenceRank(row)
  <2>1. PICK j \in 1..4 : row = ReferenceOrder[j] /\ ReferenceRank(row) = j
    BY <1>4
  <2>2. ~(j < i)
    BY <1>3, <2>1
  <2> QED BY <2>1, <2>2
<1> QED BY <1>3, <1>5, <1>6

\* Merge takes the given rows from one reading and leaves the others.
LEMMA MergeRows ==
  ASSUME NEW r, NEW x, NEW rows, NEW row \in Row
  PROVE  /\ row \in rows => SameRow(Merge(r, x, rows), x, row)
         /\ row \notin rows => SameRow(Merge(r, x, rows), r, row)
  BY DEF Row, Merge, SameRow

\* It keeps the type.
LEMMA MergeTyped ==
  ASSUME NEW r \in Aggregate, NEW x \in Aggregate, NEW rows
  PROVE  Merge(r, x, rows) \in Aggregate
  BY DEF Merge, Aggregate

\* Merging rows that are the same changes nothing.
LEMMA MergeSame ==
  ASSUME NEW r \in Aggregate, NEW x, NEW rows \in SUBSET Row,
         \A row \in rows : SameRow(r, x, row)
  PROVE  Merge(r, x, rows) = r
  BY DEF Merge, Aggregate, Row, SameRow

-------------------------------------------------------------------------------
(* The writes.                                                              *)

\* What every write leaves: whole records, and every row that was stored.
Sound(r, s) ==
  /\ s \in Aggregate /\ Whole(s)
  /\ \A row \in Row : Stored(r, row) => Stored(s, row)

\* start_run_if_created.
LEMMA RunStartedSound ==
  ASSUME NEW r \in Aggregate, Whole(r), RunStartable(r)
  PROVE  Sound(r, RunStarted(r))
  BY DEF Sound, Whole, RunStartable, RunStarted, Stored, Aggregate, RunStatus,
         ActiveRun, Row

\* create_initial_task_graph_v2_if_current.
LEMMA GraphCreatedSound ==
  ASSUME NEW r \in Aggregate, Whole(r), GraphCreatable(r)
  PROVE  Sound(r, GraphCreated(r))
  BY DEF Sound, Whole, GraphCreatable, GraphCreated, Stored, Aggregate, Row,
         InitialRow, NoRow, Projection, TaskStatus, ActiveTask

\* A moved Task is still there.
LEMMA MovedTyped ==
  ASSUME NEW row \in Projection, NEW status \in TaskStatus
  PROVE  /\ Moved(row, status) \in Projection /\ Moved(row, status) # NoRow
         /\ Moved(row, status).version \in Nat
  BY DEF Moved, Projection, NoRow, TaskStatus, ActiveTask

\* apply_task_transition_if_current.
LEMMA TaskTransitionedSound ==
  ASSUME NEW r \in Aggregate, Whole(r),
         TransitionApplies(r, InitialRow, InitialRow)
  PROVE  Sound(r, TaskTransitioned(r, InitialRow, InitialRow, "WAITING_USER"))
<1>1. /\ InitialRow \in Projection /\ InitialRow # NoRow
      /\ "WAITING_USER" \in TaskStatus
  BY DEF InitialRow, NoRow, Projection, TaskStatus, ActiveTask
<1>2. /\ Moved(InitialRow, "WAITING_USER") \in Projection
      /\ Moved(InitialRow, "WAITING_USER") # NoRow
  BY <1>1, MovedTyped
<1> DEFINE moved == Moved(InitialRow, "WAITING_USER")
           s     == TaskTransitioned(r, InitialRow, InitialRow, "WAITING_USER")
<1>3. s = [r EXCEPT !.task = moved, !.unit = moved]
  BY DEF TaskTransitioned
<1>4. moved \in Projection /\ moved # NoRow /\ r.task # NoRow
  BY <1>1, <1>2 DEF TransitionApplies
<1> HIDE DEF moved, s
<1>5. s \in Aggregate
  BY <1>3, <1>4 DEF Aggregate
<1>6. Whole(s)
  BY <1>3, <1>4 DEF Whole, Aggregate
<1>7. \A row \in Row : Stored(r, row) => Stored(s, row)
  BY <1>3, <1>4 DEF Stored, Aggregate, Row
<1> QED BY <1>5, <1>6, <1>7 DEF Sound, s

\* insert_tool_call.
LEMMA ToolCallInsertedSound ==
  ASSUME NEW r \in Aggregate, Whole(r), ToolCallInsertable(r)
  PROVE  Sound(r, ToolCallInserted(r, InitialRow.version))
  BY DEF Sound, Whole, ToolCallInsertable, ToolCallInserted, Stored, Aggregate,
         Row, InitialRow, ToolCallStatus, ActiveToolCall

\* start_tool_call_if_created: the single attempt.
LEMMA ToolCallStartedSound ==
  ASSUME NEW r \in Aggregate, Whole(r), ToolCallStartable(r)
  PROVE  Sound(r, ToolCallStarted(r))
<1>1. /\ r.attempts + 1 = 1 /\ r.tool = "CREATED" /\ r.link # "ABSENT"
      /\ "RUNNING" \in ToolCallStatus
  BY DEF Whole, ToolCallStartable, ToolCallStatus, ActiveToolCall
<1>2. ToolCallStarted(r) = [r EXCEPT !.tool = "RUNNING", !.attempts = 1]
  BY <1>1 DEF ToolCallStarted
<1> DEFINE s == ToolCallStarted(r)
<1> HIDE DEF s
<1>3. s = [r EXCEPT !.tool = "RUNNING", !.attempts = 1]
  BY <1>2 DEF s
<1>4. s \in Aggregate
  <2>1. 1 \in 0..1
    OBVIOUS
  <2> QED BY <1>1, <1>3, <2>1 DEF Aggregate
<1>5. Whole(s)
  BY <1>1, <1>3 DEF Whole, Aggregate
<1>6. \A row \in Row : Stored(r, row) => Stored(s, row)
  BY <1>3 DEF Stored, Aggregate, Row
<1> QED BY <1>4, <1>5, <1>6 DEF Sound, s

\* finalize_tool_call_attempt_if_running.
LEMMA ToolCallFinalizedSound ==
  ASSUME NEW r \in Aggregate, Whole(r), ToolCallFinalizable(r),
         NEW status \in Results
  PROVE  Sound(r, ToolCallFinalized(r, status))
  BY CommandsAssumption
  DEF Sound, Whole, ToolCallFinalizable, ToolCallFinalized, Stored, Aggregate,
      Row, ToolCallStatus, ActiveToolCall

\* save_observation.
LEMMA ObservationSavedSound ==
  ASSUME NEW r \in Aggregate, Whole(r), ObservationSourced(r)
  PROVE  Sound(r, ObservationSaved(r))
  BY DEF Sound, Whole, ObservationSaved, Stored, Aggregate, Row

\* append_trace_event.
LEMMA EventWrittenSound ==
  ASSUME NEW r \in Aggregate, Whole(r), NEW event \in Events
  PROVE  Sound(r, Written(r, event))
<1>1. event \in TraceEventType /\ event \notin Document
  BY CommandsAssumption DEF TraceEventType, Document
<1>2. Append(r.trace, event) \in Seq(TraceEventType)
  BY <1>1 DEF Aggregate
<1>3. Written(r, event) = [r EXCEPT !.trace = Append(r.trace, event)]
  BY <1>1 DEF Written, Aggregate
<1> QED BY <1>2, <1>3 DEF Sound, Whole, Stored, Aggregate, Row

\* finalize_run_if_active with status COMPLETED, and no open RunTaskLink.
LEMMA RunCompletedUnlinkedSound ==
  ASSUME NEW r \in Aggregate, Whole(r), r.link = "ABSENT",
         NEW stop \in CompletionReason, NEW task, NEW unit
  PROVE  Sound(r, RunCompleted(r, stop, task, unit))
<1> DEFINE s     == RunCompleted(r, stop, task, unit)
           trace == Append(r.trace, "RunStopped")
<1>1. trace \in Seq(TraceEventType)
  BY DEF Aggregate, TraceEventType
<1>2. stop \in StopReason /\ "COMPLETED" \in RunStatus /\ "COMPLETED" # "ABSENT"
  BY DEF StopReason, RunStatus, TerminalRun
<1>3. s = [r EXCEPT !.run = "COMPLETED", !.stop = stop, !.reply = TRUE,
                    !.trace = trace]
  BY DEF RunCompleted
<1> HIDE DEF s, trace
<1>4. s \in Aggregate
  BY <1>1, <1>2, <1>3 DEF Aggregate
<1>5. Whole(s)
  BY <1>3 DEF Whole, Aggregate
<1>6. \A row \in Row : Stored(r, row) => Stored(s, row)
  BY <1>3 DEF Stored, Aggregate, Row
<1> QED BY <1>4, <1>5, <1>6 DEF Sound, s

\* With the open link of the expected Task.
LEMMA RunCompletedLinkedIs ==
  ASSUME NEW r \in Aggregate, r.link = "OPEN", NEW stop,
         NEW task \in Projection
  PROVE  RunCompleted(r, stop, task, task) =
           [r EXCEPT !.run = "COMPLETED", !.stop = stop, !.reply = TRUE,
                     !.link = "CLOSED", !.resultVersion = task.version + 1,
                     !.task = Moved(task, TargetStatus(stop)),
                     !.unit = Moved(task, TargetStatus(stop)),
                     !.trace = Append(Append(r.trace, "TaskStateChanged"),
                                      "RunStopped")]
  BY DEF RunCompleted, LinkClosed, TaskTransitioned, Aggregate

\* finalize_run_if_active with status COMPLETED closes an open link.
LEMMA RunCompletedLinkedSound ==
  ASSUME NEW r \in Aggregate, Whole(r), r.link = "OPEN",
         NEW stop \in CompletionReason, NEW task \in Projection
  PROVE  Sound(r, RunCompleted(r, stop, task, task))
<1> DEFINE s     == RunCompleted(r, stop, task, task)
           moved == Moved(task, TargetStatus(stop))
           first == Append(r.trace, "TaskStateChanged")
           trace == Append(first, "RunStopped")
<1>1. /\ stop \in StopReason /\ "COMPLETED" \in RunStatus
      /\ TargetStatus(stop) \in TaskStatus
  BY DEF StopReason, RunStatus, TerminalRun, TargetStatus, TaskStatus
<1>2. moved \in Projection /\ moved # NoRow
  BY <1>1, MovedTyped
<1>3. task.version + 1 \in Nat
  BY DEF Projection
<1>4. trace \in Seq(TraceEventType)
  <2>1. first \in Seq(TraceEventType)
    BY DEF Aggregate, TraceEventType
  <2> HIDE DEF first
  <2> QED BY <2>1 DEF TraceEventType
<1>5. s = [r EXCEPT !.run = "COMPLETED", !.stop = stop, !.reply = TRUE,
                    !.link = "CLOSED", !.resultVersion = task.version + 1,
                    !.task = moved, !.unit = moved, !.trace = trace]
  BY RunCompletedLinkedIs
<1> HIDE DEF s, moved, trace
<1>6. s \in Aggregate
  BY <1>1, <1>2, <1>3, <1>4, <1>5 DEF Aggregate
<1>7. Whole(s)
  BY <1>2, <1>5 DEF Whole, Aggregate
<1>8. \A row \in Row : Stored(r, row) => Stored(s, row)
  BY <1>2, <1>5 DEF Stored, Aggregate, Row
<1> QED BY <1>6, <1>7, <1>8 DEF Sound, s

\* finalize_run_if_active with status FAILED.
LEMMA RunFailedSound ==
  ASSUME NEW r \in Aggregate, Whole(r), NEW task \in Projection
  PROVE  Sound(r, RunFailed(r, task))
<1>1. task.version \in Nat /\ "FAILED" \in RunStatus
  BY DEF Projection, RunStatus, TerminalRun
<1> DEFINE s == RunFailed(r, task)
<1>2. /\ s \in Aggregate /\ s.run = "FAILED"
      /\ s.task = r.task /\ s.unit = r.unit
      /\ s.link = IF r.link = "OPEN" THEN "CLOSED" ELSE r.link
      /\ s.tool = r.tool /\ s.attempts = r.attempts
  BY <1>1 DEF RunFailed, LinkClosed, Aggregate
<1> HIDE DEF s
<1> QED BY <1>2 DEF Sound, Whole, Stored, Aggregate, Row, s

\* The fields a recovery decides, each from the rows named on its right.
BlockedRow(row, task) ==
  IF task.status \in ActiveTask THEN Moved(row, "BLOCKED") ELSE row
RecoveredTrace(r) ==
  LET stopped == Append(r.trace, "RunStopped")
      changed == IF r.task.status \in ActiveTask
                 THEN Append(stopped, "TaskStateChanged") ELSE stopped
  IN  IF r.tool \in ActiveToolCall
      THEN Append(changed, "ToolCallInterrupted") ELSE changed

\* claim_and_apply_restart_recovery, field by field.
LEMMA RecoveredIs ==
  ASSUME NEW r \in Aggregate
  PROVE  Recovered(r) =
           [r EXCEPT
              !.run = "INCOMPLETE", !.stop = RestartReason,
              !.task = BlockedRow(r.task, r.task),
              !.unit = BlockedRow(r.unit, r.task),
              !.link = IF r.link = "OPEN" THEN "CLOSED" ELSE r.link,
              !.resultVersion = IF r.link = "OPEN"
                                THEN BlockedRow(r.task, r.task).version
                                ELSE r.resultVersion,
              !.tool = IF r.tool \in ActiveToolCall THEN "INTERRUPTED"
                                                    ELSE r.tool,
              !.trace = RecoveredTrace(r)]
  BY DEF Recovered, LinkClosed, BlockedRow, RecoveredTrace, Aggregate

\* It blocks the Task there is and invents none.
LEMMA RecoveredSound ==
  ASSUME NEW r \in Aggregate, Whole(r)
  PROVE  Sound(r, Recovered(r))
<1> DEFINE s     == Recovered(r)
           task  == BlockedRow(r.task, r.task)
           unit  == BlockedRow(r.unit, r.task)
           trace == RecoveredTrace(r)
<1>1. /\ RestartReason \in StopReason /\ "INCOMPLETE" \in RunStatus
      /\ "INTERRUPTED" \in ToolCallStatus
      /\ "BLOCKED" \in TaskStatus /\ NoRow.status \notin ActiveTask
  BY DEF StopReason, RunStatus, TerminalRun, ToolCallStatus, TaskStatus,
         NoRow, ActiveTask
<1>2. r.task \in Projection /\ r.unit \in Projection
  BY DEF Aggregate
<1>3. /\ task \in Projection /\ unit \in Projection /\ task.version \in Nat
      /\ task = NoRow <=> r.task = NoRow
      /\ r.task = NoRow => unit = r.unit
  <2>1. /\ Moved(r.task, "BLOCKED") \in Projection
        /\ Moved(r.task, "BLOCKED") # NoRow
        /\ Moved(r.unit, "BLOCKED") \in Projection
    BY <1>1, <1>2, MovedTyped
  <2>2. \A row \in Projection : row.version \in Nat
    BY DEF Projection
  <2> QED BY <1>1, <1>2, <2>1, <2>2 DEF BlockedRow
<1>4. trace \in Seq(TraceEventType)
  <2> DEFINE stopped == Append(r.trace, "RunStopped")
             changed == IF r.task.status \in ActiveTask
                        THEN Append(stopped, "TaskStateChanged") ELSE stopped
  <2>1. stopped \in Seq(TraceEventType)
    BY DEF Aggregate, TraceEventType
  <2>2. changed \in Seq(TraceEventType)
    <3> HIDE DEF stopped
    <3> QED BY <2>1 DEF TraceEventType
  <2>3. trace = IF r.tool \in ActiveToolCall
                THEN Append(changed, "ToolCallInterrupted") ELSE changed
    BY DEF RecoveredTrace
  <2> HIDE DEF changed, trace
  <2> QED BY <2>2, <2>3 DEF TraceEventType
<1>5. /\ s \in Aggregate /\ s.run = "INCOMPLETE"
      /\ s.task = task /\ s.unit = unit
      /\ s.link = IF r.link = "OPEN" THEN "CLOSED" ELSE r.link
      /\ s.tool = IF r.tool \in ActiveToolCall THEN "INTERRUPTED" ELSE r.tool
      /\ s.attempts = r.attempts
  <2>1. s = [r EXCEPT
               !.run = "INCOMPLETE", !.stop = RestartReason,
               !.task = task, !.unit = unit,
               !.link = IF r.link = "OPEN" THEN "CLOSED" ELSE r.link,
               !.resultVersion = IF r.link = "OPEN" THEN task.version
                                 ELSE r.resultVersion,
               !.tool = IF r.tool \in ActiveToolCall THEN "INTERRUPTED"
                                                     ELSE r.tool,
               !.trace = trace]
    BY RecoveredIs
  <2> HIDE DEF s, task, unit, trace
  <2> QED BY <1>1, <1>3, <1>4, <2>1 DEF Aggregate
<1> HIDE DEF s, task, unit
<1>6. Whole(s)
  BY <1>3, <1>5 DEF Whole, ActiveToolCall
<1>7. \A row \in Row : Stored(r, row) => Stored(s, row)
  BY <1>3, <1>5 DEF Stored, Row
<1> QED BY <1>5, <1>6, <1>7 DEF Sound, s

-------------------------------------------------------------------------------
(* What a commit leaves.                                                    *)

\* The insert-only rows of a record.
SameInserts(v, r) ==
  /\ v.observation = r.observation /\ v.reply = r.reply
  /\ v.documents = r.documents /\ v.trace = r.trace

\* A merge is known by its rows.
LEMMA MergeIs ==
  ASSUME NEW r \in Aggregate, NEW s \in Aggregate, NEW x, NEW rows,
         \A row \in Row : IF row \in rows THEN SameRow(x, s, row)
                                          ELSE SameRow(r, s, row),
         SameInserts(x, s)
  PROVE  Merge(r, x, rows \cup {"inserts"}) = s
  BY DEF Merge, Aggregate, Row, SameRow, SameInserts

\* The records a command computes its writes from.
Base(v, r) == Merge(v, r, {"inserts"})

\* They are the rows as read, with the inserts of the commit.
LEMMA BaseIs ==
  ASSUME NEW v \in Aggregate, NEW r \in Aggregate
  PROVE  /\ Base(v, r) \in Aggregate /\ SameInserts(Base(v, r), r)
         /\ \A row \in Row : SameRow(Base(v, r), v, row)
         /\ \A row \in Row : SameRow(v, r, row) => SameRow(Base(v, r), r, row)
<1>1. Base(v, r) \in Aggregate
  BY MergeTyped DEF Base
<1>2. SameInserts(Base(v, r), r)
  BY DEF Base, Merge, SameInserts
<1>3. \A row \in Row : SameRow(Base(v, r), v, row)
  BY DEF Base, Merge, SameRow, Row
<1>4. \A row \in Row : SameRow(v, r, row) => SameRow(Base(v, r), r, row)
  BY <1>3 DEF SameRow, Row
<1> QED BY <1>1, <1>2, <1>3, <1>4

\* start_run_if_created rewrites the locked Run row.
LEMMA StartRunOutcome ==
  ASSUME NEW v \in Aggregate, NEW r \in Aggregate, NEW k, k.op = "start_run",
         SameRow(v, r, "run"), RunStarted(r) \in Aggregate
  PROVE  Outcome(k, v, r) = RunStarted(r)
<1> DEFINE m == Base(v, r)
           x == RunStarted(m)
           s == RunStarted(r)
<1>1. /\ m \in Aggregate /\ SameInserts(m, r) /\ SameRow(m, r, "run")
  BY BaseIs DEF Row
<1>2. Outcome(k, v, r) = Merge(r, x, {"run"} \cup {"inserts"})
  BY DEF Outcome, Effect, Replaced, Base
<1>3. x = [m EXCEPT !.run = "RUNNING"] /\ s = [r EXCEPT !.run = "RUNNING"]
  BY DEF RunStarted
<1> HIDE DEF m, x, s
<1>4. /\ SameRow(x, s, "run") /\ SameInserts(x, s)
      /\ \A row \in Row \ {"run"} : SameRow(r, s, row)
  BY <1>1, <1>3 DEF Row, SameRow, SameInserts, Aggregate
<1> QED BY <1>2, <1>4, MergeIs DEF s

\* create_initial_task_graph_v2_if_current inserts three rows.
LEMMA CreateGraphOutcome ==
  ASSUME NEW v \in Aggregate, NEW r \in Aggregate, NEW k,
         k.op = "create_graph", SameRow(v, r, "link"),
         GraphCreated(r) \in Aggregate
  PROVE  Outcome(k, v, r) = GraphCreated(r)
<1> DEFINE m    == Base(v, r)
           x    == GraphCreated(m)
           s    == GraphCreated(r)
           rows == {"unit", "link", "task"}
<1>1. /\ m \in Aggregate /\ SameInserts(m, r)
      /\ m.resultVersion = r.resultVersion
  BY BaseIs DEF Row, SameRow
<1>2. Outcome(k, v, r) = Merge(r, x, rows \cup {"inserts"})
  BY DEF Outcome, Effect, Replaced, Base
<1>3. /\ x = [m EXCEPT !.task = InitialRow, !.unit = InitialRow, !.link = "OPEN"]
      /\ s = [r EXCEPT !.task = InitialRow, !.unit = InitialRow, !.link = "OPEN"]
  BY DEF GraphCreated
<1> HIDE DEF m, x, s
<1>4. SameInserts(x, s) /\ \A row \in rows : SameRow(x, s, row)
  BY <1>1, <1>3 DEF SameRow, SameInserts, Aggregate
<1>5. \A row \in Row \ rows : SameRow(r, s, row)
  BY <1>3 DEF Row, SameRow, Aggregate
<1> QED BY <1>2, <1>4, <1>5, MergeIs DEF s

\* apply_task_transition_if_current rewrites Task and RequestUnit.
LEMMA TransitionOutcome ==
  ASSUME NEW v \in Aggregate, NEW r \in Aggregate, NEW k, k.op = "transition",
         k.task = InitialRow,
         TaskTransitioned(r, InitialRow, InitialRow, "WAITING_USER") \in Aggregate
  PROVE  Outcome(k, v, r) =
           TaskTransitioned(r, InitialRow, InitialRow, "WAITING_USER")
<1> DEFINE m    == Base(v, r)
           to   == Moved(InitialRow, "WAITING_USER")
           x    == TaskTransitioned(m, InitialRow, InitialRow, "WAITING_USER")
           s    == TaskTransitioned(r, InitialRow, InitialRow, "WAITING_USER")
           rows == {"unit", "task"}
<1>1. m \in Aggregate /\ SameInserts(m, r)
  BY BaseIs
<1>2. Outcome(k, v, r) = Merge(r, x, rows \cup {"inserts"})
  BY DEF Outcome, Effect, Replaced, Wanted, Base
<1>3. /\ x = [m EXCEPT !.task = to, !.unit = to]
      /\ s = [r EXCEPT !.task = to, !.unit = to]
  BY DEF TaskTransitioned
<1>4. s \in Aggregate
  OBVIOUS
<1> HIDE DEF m, x, s, to
<1>5. SameInserts(x, s) /\ \A row \in rows : SameRow(x, s, row)
  BY <1>1, <1>3 DEF SameRow, SameInserts, Aggregate
<1>6. \A row \in Row \ rows : SameRow(r, s, row)
  BY <1>3 DEF Row, SameRow, Aggregate
<1>7. Outcome(k, v, r) = s
  <2> HIDE DEF rows
  <2> QED BY <1>2, <1>4, <1>5, <1>6, MergeIs
<1> QED BY <1>7 DEF s

\* insert_tool_call inserts the ToolCall row.
LEMMA InsertToolOutcome ==
  ASSUME NEW v \in Aggregate, NEW r \in Aggregate, NEW k, k.op = "insert_tool",
         SameRow(v, r, "tool"),
         ToolCallInserted(r, InitialRow.version) \in Aggregate
  PROVE  Outcome(k, v, r) = ToolCallInserted(r, InitialRow.version)
<1> DEFINE m == Base(v, r)
           n == InitialRow.version
           x == ToolCallInserted(m, n)
           s == ToolCallInserted(r, n)
<1>1. /\ m \in Aggregate /\ SameInserts(m, r) /\ SameRow(m, r, "tool")
  BY BaseIs DEF Row
<1>2. Outcome(k, v, r) = Merge(r, x, {"tool"} \cup {"inserts"})
  BY DEF Outcome, Effect, Replaced, Base
<1>3. /\ x = [m EXCEPT !.tool = "CREATED", !.validated = n]
      /\ s = [r EXCEPT !.tool = "CREATED", !.validated = n]
  BY DEF ToolCallInserted
<1> HIDE DEF m, x, s, n
<1>4. /\ SameRow(x, s, "tool") /\ SameInserts(x, s)
      /\ \A row \in Row \ {"tool"} : SameRow(r, s, row)
  BY <1>1, <1>3 DEF Row, SameRow, SameInserts, Aggregate
<1> QED BY <1>2, <1>4, MergeIs DEF s, n

\* start_tool_call_if_created rewrites the ToolCall row.
LEMMA StartToolOutcome ==
  ASSUME NEW v \in Aggregate, NEW r \in Aggregate, NEW k, k.op = "start_tool",
         SameRow(v, r, "tool"), ToolCallStarted(r) \in Aggregate
  PROVE  Outcome(k, v, r) = ToolCallStarted(r)
<1> DEFINE m == Base(v, r)
           n == r.attempts + 1
           x == ToolCallStarted(m)
           s == ToolCallStarted(r)
<1>1. /\ m \in Aggregate /\ SameInserts(m, r) /\ SameRow(m, r, "tool")
  BY BaseIs DEF Row
<1>2. Outcome(k, v, r) = Merge(r, x, {"tool"} \cup {"inserts"})
  BY DEF Outcome, Effect, Replaced, Base
<1>3. /\ x = [m EXCEPT !.tool = "RUNNING", !.attempts = n]
      /\ s = [r EXCEPT !.tool = "RUNNING", !.attempts = n]
  <2>1. m.attempts = r.attempts
    BY <1>1 DEF SameRow
  <2> HIDE DEF m
  <2> QED BY <1>1, <2>1 DEF ToolCallStarted, Aggregate
<1> HIDE DEF m, x, s, n
<1>4. /\ SameRow(x, s, "tool") /\ SameInserts(x, s)
      /\ \A row \in Row \ {"tool"} : SameRow(r, s, row)
  BY <1>1, <1>3 DEF Row, SameRow, SameInserts, Aggregate
<1> QED BY <1>2, <1>4, MergeIs DEF s

\* finalize_tool_call_attempt_if_running rewrites the ToolCall row.
LEMMA FinalizeToolOutcome ==
  ASSUME NEW v \in Aggregate, NEW r \in Aggregate, NEW k,
         k.op = "finalize_tool", SameRow(v, r, "tool"),
         ToolCallFinalized(r, k.arg) \in Aggregate
  PROVE  Outcome(k, v, r) = ToolCallFinalized(r, k.arg)
<1> DEFINE m == Base(v, r)
           n == k.arg
           x == ToolCallFinalized(m, n)
           s == ToolCallFinalized(r, n)
<1>1. /\ m \in Aggregate /\ SameInserts(m, r) /\ SameRow(m, r, "tool")
  BY BaseIs DEF Row
<1>2. Outcome(k, v, r) = Merge(r, x, {"tool"} \cup {"inserts"})
  BY DEF Outcome, Effect, Replaced, Base
<1>3. x = [m EXCEPT !.tool = n] /\ s = [r EXCEPT !.tool = n]
  BY DEF ToolCallFinalized
<1> HIDE DEF m, x, s, n
<1>4. /\ SameRow(x, s, "tool") /\ SameInserts(x, s)
      /\ \A row \in Row \ {"tool"} : SameRow(r, s, row)
  BY <1>1, <1>3 DEF Row, SameRow, SameInserts, Aggregate
<1> QED BY <1>2, <1>4, MergeIs DEF s, n

\* save_observation only inserts.
LEMMA SaveObservationOutcome ==
  ASSUME NEW v \in Aggregate, NEW r \in Aggregate, NEW k,
         k.op = "save_observation", ObservationSaved(r) \in Aggregate
  PROVE  Outcome(k, v, r) = ObservationSaved(r)
<1> DEFINE m == Base(v, r)
           x == ObservationSaved(m)
           s == ObservationSaved(r)
<1>1. m \in Aggregate /\ SameInserts(m, r)
  BY BaseIs
<1>2. Outcome(k, v, r) = Merge(r, x, {} \cup {"inserts"})
  BY DEF Outcome, Effect, Replaced, Base
<1>3. x = [m EXCEPT !.observation = TRUE] /\ s = [r EXCEPT !.observation = TRUE]
  BY DEF ObservationSaved
<1> HIDE DEF m, x, s
<1>4. SameInserts(x, s) /\ \A row \in Row : SameRow(r, s, row)
  BY <1>1, <1>3 DEF Row, SameRow, SameInserts, Aggregate
<1> QED BY <1>2, <1>4, MergeIs DEF s

\* append_trace_event only inserts.
LEMMA AppendTraceOutcome ==
  ASSUME NEW v \in Aggregate, NEW r \in Aggregate, NEW k,
         k.op = "append_trace", k.arg \in Events,
         Written(r, k.arg) \in Aggregate
  PROVE  Outcome(k, v, r) = Written(r, k.arg)
<1> DEFINE m == Base(v, r)
           x == Written(m, k.arg)
           s == Written(r, k.arg)
           trace == Append(r.trace, k.arg)
<1>1. m \in Aggregate /\ SameInserts(m, r)
  BY BaseIs
<1>2. Outcome(k, v, r) = Merge(r, x, {} \cup {"inserts"})
  BY DEF Outcome, Effect, Replaced, Base
<1>3. x = [m EXCEPT !.trace = trace] /\ s = [r EXCEPT !.trace = trace]
  <2>1. k.arg \notin Document
    BY CommandsAssumption DEF TraceEventType, Document
  <2>2. m.trace = r.trace
    BY <1>1 DEF SameInserts
  <2> HIDE DEF m
  <2> QED BY <1>1, <2>1, <2>2 DEF Written, Aggregate
<1> HIDE DEF m, x, s, trace
<1>4. SameInserts(x, s) /\ \A row \in Row : SameRow(r, s, row)
  BY <1>1, <1>3 DEF Row, SameRow, SameInserts, Aggregate
<1> QED BY <1>2, <1>4, MergeIs DEF s

\* finalize_run_if_active, COMPLETED, without a link.
LEMMA CompleteUnlinkedOutcome ==
  ASSUME NEW v \in Aggregate, NEW r \in Aggregate, NEW k, k.op = "complete",
         k.task = NoRow, v.link = "ABSENT", r.link = "ABSENT",
         RunCompleted(r, k.arg, NoRow, NoRow) \in Aggregate
  PROVE  Outcome(k, v, r) = RunCompleted(r, k.arg, NoRow, NoRow)
<1> DEFINE m == Base(v, r)
           n == k.arg
           x == RunCompleted(m, n, NoRow, NoRow)
           s == RunCompleted(r, n, NoRow, NoRow)
           trace == Append(r.trace, "RunStopped")
<1>1. m \in Aggregate /\ SameInserts(m, r) /\ m.link = "ABSENT"
  BY BaseIs DEF Row, SameRow
<1>2. Outcome(k, v, r) = Merge(r, x, {"run"} \cup {"inserts"})
  BY DEF Outcome, Effect, Replaced, Wanted, Base
<1>3. /\ x = [m EXCEPT !.run = "COMPLETED", !.stop = n, !.reply = TRUE,
                       !.trace = trace]
      /\ s = [r EXCEPT !.run = "COMPLETED", !.stop = n, !.reply = TRUE,
                       !.trace = trace]
  <2>1. m.trace = r.trace
    BY <1>1 DEF SameInserts
  <2> HIDE DEF m
  <2> QED BY <1>1, <2>1 DEF RunCompleted
<1>4. s \in Aggregate
  OBVIOUS
<1> HIDE DEF m, x, s, n, trace
<1>5. /\ SameRow(x, s, "run") /\ SameInserts(x, s)
      /\ \A row \in Row \ {"run"} : SameRow(r, s, row)
  BY <1>1, <1>3 DEF Row, SameRow, SameInserts, Aggregate
<1>6. Outcome(k, v, r) = s
  BY <1>2, <1>4, <1>5, MergeIs
<1> QED BY <1>6 DEF s, n

\* finalize_run_if_active, COMPLETED, with the open link.
LEMMA CompleteLinkedOutcome ==
  ASSUME NEW v \in Aggregate, NEW r \in Aggregate, NEW k, k.op = "complete",
         k.task \in Projection \ {NoRow}, v.link = "OPEN", r.link = "OPEN",
         RunCompleted(r, k.arg, k.task, k.task) \in Aggregate
  PROVE  Outcome(k, v, r) = RunCompleted(r, k.arg, k.task, k.task)
<1> DEFINE m == Base(v, r)
           n == k.arg
           task == k.task
           version == task.version + 1
           to == Moved(task, TargetStatus(n))
           x == RunCompleted(m, n, task, task)
           s == RunCompleted(r, n, task, task)
           rows == {"run", "unit", "link", "task"}
           trace == Append(Append(r.trace, "TaskStateChanged"), "RunStopped")
<1>1. m \in Aggregate /\ SameInserts(m, r) /\ m.link = "OPEN"
  BY BaseIs DEF Row, SameRow
<1>2. Outcome(k, v, r) = Merge(r, x, rows \cup {"inserts"})
  <2>1. Replaced(k, v) = rows
    BY DEF Replaced, Wanted
  <2> QED BY <2>1 DEF Outcome, Effect, Base
<1>3. /\ x = [m EXCEPT !.run = "COMPLETED", !.stop = n, !.reply = TRUE,
                       !.link = "CLOSED", !.resultVersion = version,
                       !.task = to, !.unit = to, !.trace = trace]
      /\ s = [r EXCEPT !.run = "COMPLETED", !.stop = n, !.reply = TRUE,
                       !.link = "CLOSED", !.resultVersion = version,
                       !.task = to, !.unit = to, !.trace = trace]
  <2>1. m.trace = r.trace
    BY <1>1 DEF SameInserts
  <2>2. s = [r EXCEPT !.run = "COMPLETED", !.stop = n, !.reply = TRUE,
                       !.link = "CLOSED", !.resultVersion = version,
                       !.task = to, !.unit = to, !.trace = trace]
    <3>1. task \in Projection
      OBVIOUS
    <3> HIDE DEF n, task
    <3> QED BY <3>1, RunCompletedLinkedIs
  <2> DEFINE own == Append(Append(m.trace, "TaskStateChanged"), "RunStopped")
  <2>3. x = [m EXCEPT !.run = "COMPLETED", !.stop = n, !.reply = TRUE,
                       !.link = "CLOSED", !.resultVersion = version,
                       !.task = to, !.unit = to, !.trace = own]
    <3>1. task \in Projection
      OBVIOUS
    <3> HIDE DEF m, n, task
    <3> QED BY <1>1, <3>1, RunCompletedLinkedIs
  <2>4. own = trace
    BY <2>1
  <2> HIDE DEF m, x, s, own, trace, to, version, task, n
  <2> QED BY <2>2, <2>3, <2>4
<1>4. s \in Aggregate
  OBVIOUS
<1> HIDE DEF m, x, s, n, task, version, to, trace
<1>5. SameInserts(x, s) /\ \A row \in rows : SameRow(x, s, row)
  BY <1>1, <1>3 DEF SameRow, SameInserts, Aggregate
<1>6. \A row \in Row \ rows : SameRow(r, s, row)
  BY <1>3 DEF Row, SameRow, Aggregate
<1>7. Outcome(k, v, r) = s
  <2> HIDE DEF rows
  <2> QED BY <1>2, <1>4, <1>5, <1>6, MergeIs
<1> QED BY <1>7 DEF s, n, task

\* finalize_run_if_active, FAILED, without a link.
LEMMA FailUnlinkedOutcome ==
  ASSUME NEW v \in Aggregate, NEW r \in Aggregate, NEW k, k.op = "fail",
         k.task = NoRow, v.link = "ABSENT", r.link = "ABSENT",
         SameRow(v, r, "run"), RunFailed(r, NoRow) \in Aggregate
  PROVE  Outcome(k, v, r) = RunFailed(r, NoRow)
<1> DEFINE m == Base(v, r)
           x == RunFailed(m, NoRow)
           s == RunFailed(r, NoRow)
<1>1. /\ m \in Aggregate /\ SameInserts(m, r) /\ m.link = "ABSENT"
      /\ m.stop = r.stop
  BY BaseIs DEF Row, SameRow
<1>2. Outcome(k, v, r) = Merge(r, x, {"run"} \cup {"inserts"})
  BY DEF Outcome, Effect, Replaced, Wanted, Base
<1>3. x = [m EXCEPT !.run = "FAILED"] /\ s = [r EXCEPT !.run = "FAILED"]
  <2> HIDE DEF m
  <2> QED BY <1>1 DEF RunFailed, LinkClosed
<1>4. s \in Aggregate
  OBVIOUS
<1> HIDE DEF m, x, s
<1>5. /\ SameRow(x, s, "run") /\ SameInserts(x, s)
      /\ \A row \in Row \ {"run"} : SameRow(r, s, row)
  BY <1>1, <1>3 DEF Row, SameRow, SameInserts, Aggregate
<1>6. Outcome(k, v, r) = s
  BY <1>2, <1>4, <1>5, MergeIs
<1> QED BY <1>6 DEF s

\* finalize_run_if_active, FAILED, with the open link.
LEMMA FailLinkedOutcome ==
  ASSUME NEW v \in Aggregate, NEW r \in Aggregate, NEW k, k.op = "fail",
         k.task \in Projection \ {NoRow}, v.link = "OPEN", r.link = "OPEN",
         SameRow(v, r, "run"), SameRow(v, r, "task"),
         RunFailed(r, k.task) \in Aggregate
  PROVE  Outcome(k, v, r) = RunFailed(r, k.task)
<1> DEFINE m       == Base(v, r)
           version == k.task.version
           x       == RunFailed(m, k.task)
           s       == RunFailed(r, k.task)
           rows    == {"run", "link", "task"}
<1>1. /\ m \in Aggregate /\ SameInserts(m, r) /\ m.link = "OPEN"
      /\ m.stop = r.stop /\ m.task = r.task
  BY BaseIs DEF Row, SameRow
<1>2. Outcome(k, v, r) = Merge(r, x, rows \cup {"inserts"})
  <2>1. Replaced(k, v) = rows
    BY DEF Replaced, Wanted
  <2> QED BY <2>1 DEF Outcome, Effect, Base
<1>3. /\ x = [m EXCEPT !.link = "CLOSED", !.resultVersion = version,
                       !.run = "FAILED"]
      /\ s = [r EXCEPT !.link = "CLOSED", !.resultVersion = version,
                       !.run = "FAILED"]
  <2> HIDE DEF m
  <2> QED BY <1>1 DEF RunFailed, LinkClosed
<1>4. s \in Aggregate
  OBVIOUS
<1> HIDE DEF m, x, s, version
<1>5. SameInserts(x, s) /\ \A row \in rows : SameRow(x, s, row)
  BY <1>1, <1>3 DEF SameRow, SameInserts, Aggregate
<1>6. \A row \in Row \ rows : SameRow(r, s, row)
  BY <1>3 DEF Row, SameRow, Aggregate
<1>7. Outcome(k, v, r) = s
  <2> HIDE DEF rows
  <2> QED BY <1>2, <1>4, <1>5, <1>6, MergeIs
<1> QED BY <1>7 DEF s

\* A recovery reads every field its writes depend on.
LEMMA RecoverOutcome ==
  ASSUME NEW v \in Aggregate, NEW r \in Aggregate, NEW k, k.op = "recover",
         v.task = r.task, v.unit = r.unit, v.tool = r.tool, v.link = r.link,
         r.link = "ABSENT" => r.task = NoRow,
         v.link # "ABSENT" => SameRow(v, r, "link"),
         v.tool \in ActiveToolCall => SameRow(v, r, "tool"),
         Recovered(r) \in Aggregate
  PROVE  Outcome(k, v, r) = Recovered(r)
<1> DEFINE m     == Base(v, r)
           x     == Recovered(m)
           s     == Recovered(r)
           rows  == Replaced(k, v)
           task  == BlockedRow(r.task, r.task)
           unit  == BlockedRow(r.unit, r.task)
           trace == RecoveredTrace(r)
<1>1. /\ m \in Aggregate /\ SameInserts(m, r)
      /\ m.task = r.task /\ m.unit = r.unit /\ m.tool = r.tool
      /\ m.link = r.link
      /\ r.link # "ABSENT" => m.resultVersion = r.resultVersion
      /\ r.tool \in ActiveToolCall => SameRow(m, r, "tool")
  BY BaseIs DEF Row, SameRow
<1>2. Outcome(k, v, r) = Merge(r, x, rows \cup {"inserts"})
  BY DEF Outcome, Effect, Base
<1>3. /\ "run" \in rows /\ rows \subseteq Row
      /\ {"unit", "link", "task"} \subseteq rows <=> r.link # "ABSENT"
      /\ r.link = "ABSENT" => rows \cap {"unit", "link", "task"} = {}
      /\ "tool" \in rows <=> r.tool \in ActiveToolCall
  BY DEF Replaced, Wanted, Row
<1>4. /\ x.run = "INCOMPLETE" /\ x.stop = RestartReason
      /\ x.task = task /\ x.unit = unit
      /\ x.link = (IF r.link = "OPEN" THEN "CLOSED" ELSE r.link)
      /\ x.resultVersion = IF r.link = "OPEN" THEN task.version
                                              ELSE m.resultVersion
      /\ x.tool = IF r.tool \in ActiveToolCall THEN "INTERRUPTED" ELSE r.tool
      /\ x.attempts = m.attempts /\ x.validated = m.validated
      /\ x.observation = r.observation /\ x.reply = r.reply
      /\ x.documents = r.documents /\ x.trace = trace
  <2>1. RecoveredTrace(m) = trace
    <3> HIDE DEF m
    <3> QED BY <1>1 DEF RecoveredTrace, SameInserts
  <2> HIDE DEF m, trace
  <2>2. x = [m EXCEPT
               !.run = "INCOMPLETE", !.stop = RestartReason,
               !.task = task, !.unit = unit,
               !.link = IF m.link = "OPEN" THEN "CLOSED" ELSE m.link,
               !.resultVersion = IF m.link = "OPEN" THEN task.version
                                 ELSE m.resultVersion,
               !.tool = IF m.tool \in ActiveToolCall THEN "INTERRUPTED"
                                                     ELSE m.tool,
               !.trace = trace]
    <3> DEFINE own  == BlockedRow(m.task, m.task)
               side == BlockedRow(m.unit, m.task)
               told == RecoveredTrace(m)
    <3>1. own = task /\ side = unit /\ told = trace
      BY <1>1, <2>1
    <3>2. x = [m EXCEPT
                 !.run = "INCOMPLETE", !.stop = RestartReason,
                 !.task = own, !.unit = side,
                 !.link = IF m.link = "OPEN" THEN "CLOSED" ELSE m.link,
                 !.resultVersion = IF m.link = "OPEN" THEN own.version
                                   ELSE m.resultVersion,
                 !.tool = IF m.tool \in ActiveToolCall THEN "INTERRUPTED"
                                                       ELSE m.tool,
                 !.trace = told]
      BY <1>1, RecoveredIs
    <3> HIDE DEF x, own, side, told, task, unit
    <3> QED BY <3>1, <3>2
  <2> HIDE DEF x, task, unit
  <2> QED BY <1>1, <2>2 DEF Aggregate, SameInserts
<1>5. /\ s.run = "INCOMPLETE" /\ s.stop = RestartReason
      /\ s.task = task /\ s.unit = unit
      /\ s.link = (IF r.link = "OPEN" THEN "CLOSED" ELSE r.link)
      /\ s.resultVersion = IF r.link = "OPEN" THEN task.version
                                              ELSE r.resultVersion
      /\ s.tool = IF r.tool \in ActiveToolCall THEN "INTERRUPTED" ELSE r.tool
      /\ s.attempts = r.attempts /\ s.validated = r.validated
      /\ s.observation = r.observation /\ s.reply = r.reply
      /\ s.documents = r.documents /\ s.trace = trace
  <2>1. s = [r EXCEPT
               !.run = "INCOMPLETE", !.stop = RestartReason,
               !.task = task, !.unit = unit,
               !.link = IF r.link = "OPEN" THEN "CLOSED" ELSE r.link,
               !.resultVersion = IF r.link = "OPEN" THEN task.version
                                 ELSE r.resultVersion,
               !.tool = IF r.tool \in ActiveToolCall THEN "INTERRUPTED"
                                                     ELSE r.tool,
               !.trace = trace]
    BY RecoveredIs
  <2> HIDE DEF s, task, unit, trace
  <2> QED BY <2>1 DEF Aggregate
<1>6. r.link = "ABSENT" => task = r.task /\ unit = r.unit
  BY DEF BlockedRow, NoRow, ActiveTask
<1>7. s \in Aggregate
  OBVIOUS
<1> HIDE DEF m, x, s, rows, task, unit, trace
<1>8. SameInserts(x, s)
  BY <1>4, <1>5 DEF SameInserts
<1>9. \A row \in Row : IF row \in rows THEN SameRow(x, s, row)
                                       ELSE SameRow(r, s, row)
  <2>1. SameRow(x, s, "run")
    BY <1>4, <1>5 DEF SameRow
  <2>2. IF r.link = "ABSENT"
        THEN \A row \in {"unit", "link", "task"} : SameRow(r, s, row)
        ELSE \A row \in {"unit", "link", "task"} : SameRow(x, s, row)
    BY <1>1, <1>4, <1>5, <1>6 DEF SameRow
  <2>3. IF r.tool \in ActiveToolCall THEN SameRow(x, s, "tool")
                                     ELSE SameRow(r, s, "tool")
    BY <1>1, <1>4, <1>5 DEF SameRow
  <2> QED BY <1>3, <2>1, <2>2, <2>3 DEF Row
<1>10. Outcome(k, v, r) = s
  BY <1>2, <1>7, <1>8, <1>9, MergeIs
<1> QED BY <1>10 DEF s

-------------------------------------------------------------------------------
(* The conditional write a commit stands for.                               *)

\* Command k is carried out on r and leaves s.
Does(k, r, s) ==
  \/ k.op = "start_run" /\ RunStartable(r) /\ s = RunStarted(r)
  \/ k.op = "create_graph" /\ GraphCreatable(r) /\ s = GraphCreated(r)
  \/ /\ k.op = "transition" /\ TransitionApplies(r, InitialRow, InitialRow)
     /\ s = TaskTransitioned(r, InitialRow, InitialRow, "WAITING_USER")
  \/ /\ k.op = "insert_tool" /\ ToolCallInsertable(r)
     /\ s = ToolCallInserted(r, InitialRow.version)
  \/ k.op = "start_tool" /\ ToolCallStartable(r) /\ s = ToolCallStarted(r)
  \/ /\ k.op = "finalize_tool" /\ k.arg \in Results /\ ToolCallFinalizable(r)
     /\ s = ToolCallFinalized(r, k.arg)
  \/ k.op = "save_observation" /\ ObservationSourced(r) /\ s = ObservationSaved(r)
  \/ k.op = "append_trace" /\ k.arg \in Events /\ s = Written(r, k.arg)
  \/ /\ k.op = "complete" /\ k.task \in Tasks /\ k.arg \in Stops
     /\ RunFinalizable(r, LinksOf(k.task), k.task, k.task)
     /\ s = RunCompleted(r, k.arg, k.task, k.task)
  \/ /\ k.op = "fail" /\ k.task \in Tasks
     /\ RunFinalizable(r, LinksOf(k.task), k.task, NoRow)
     /\ s = RunFailed(r, k.task)
  \/ k.op = "recover" /\ Recoverable(r) /\ s = Recovered(r)

\* What a handler's command can be.
LEMMA HandlerCommandIs ==
  ASSUME NEW k \in HandlerCommands
  PROVE  \/ k.op \in {"start_run", "create_graph", "insert_tool", "start_tool",
                      "save_observation"}
         \/ k.op = "transition" /\ k.task = InitialRow
         \/ k.op = "finalize_tool" /\ k.arg \in Results
         \/ k.op = "append_trace" /\ k.arg \in Events
         \/ k.op = "complete" /\ k.task \in Tasks /\ k.arg \in Stops
         \/ k.op = "fail" /\ k.task \in Tasks
  BY DEF HandlerCommands, Command

\* The rows a command reads agree with the records it commits to.
Current(k, v, r) ==
  /\ \A row \in Wanted(k, v) : SameRow(v, r, row)
  /\ k.op \in {"create_graph", "complete", "fail"} => SameRow(v, r, "link")
  /\ k.op = "insert_tool" =>
       /\ v.tool = "ABSENT" => SameRow(v, r, "tool")
       /\ v.task # NoRow => r.task # NoRow
  /\ k.op \in {"complete", "fail"} /\ v.tool \notin ActiveToolCall =>
       r.tool \notin ActiveToolCall
  /\ k.op = "recover" =>
       /\ Whole(v)
       /\ SameRow(v, r, "link")
       /\ v.tool \notin ActiveToolCall => SameRow(v, r, "tool")

\* Then its decision and its writes are those of the records.
LEMMA HandlerDoes ==
  ASSUME NEW v \in Aggregate, NEW r \in Aggregate, Whole(r),
         NEW k \in HandlerCommands, Current(k, v, r), Applies(k, v)
  PROVE  Does(k, r, Outcome(k, v, r)) /\ Sound(r, Outcome(k, v, r))
<1>1. CASE k.op = "start_run"
  <2>1. SameRow(v, r, "run") /\ RunStartable(r)
    BY <1>1 DEF Current, Wanted, SameRow, Applies, RunStartable
  <2>2. Sound(r, RunStarted(r))
    BY <2>1, RunStartedSound
  <2>3. Outcome(k, v, r) = RunStarted(r)
    BY <1>1, <2>1, <2>2, StartRunOutcome DEF Sound
  <2> QED BY <1>1, <2>1, <2>2, <2>3 DEF Does
<1>2. CASE k.op = "create_graph"
  <2>1. SameRow(v, r, "link") /\ GraphCreatable(r)
    BY <1>2 DEF Current, Wanted, SameRow, Applies, GraphCreatable
  <2>2. Sound(r, GraphCreated(r))
    BY <2>1, GraphCreatedSound
  <2>3. Outcome(k, v, r) = GraphCreated(r)
    BY <1>2, <2>1, <2>2, CreateGraphOutcome DEF Sound
  <2> QED BY <1>2, <2>1, <2>2, <2>3 DEF Does
<1>3. CASE k.op = "insert_tool"
  <2>1. SameRow(v, r, "tool") /\ ToolCallInsertable(r)
    BY <1>3 DEF Current, Wanted, SameRow, Applies, ToolCallInsertable
  <2>2. Sound(r, ToolCallInserted(r, InitialRow.version))
    BY <2>1, ToolCallInsertedSound
  <2>3. Outcome(k, v, r) = ToolCallInserted(r, InitialRow.version)
    BY <1>3, <2>1, <2>2, InsertToolOutcome DEF Sound
  <2> QED BY <1>3, <2>1, <2>2, <2>3 DEF Does
<1>4. CASE k.op = "start_tool"
  <2>1. SameRow(v, r, "tool") /\ ToolCallStartable(r)
    BY <1>4 DEF Current, Wanted, SameRow, Applies, ToolCallStartable
  <2>2. Sound(r, ToolCallStarted(r))
    BY <2>1, ToolCallStartedSound
  <2>3. Outcome(k, v, r) = ToolCallStarted(r)
    BY <1>4, <2>1, <2>2, StartToolOutcome DEF Sound
  <2> QED BY <1>4, <2>1, <2>2, <2>3 DEF Does
<1>5. CASE k.op = "save_observation"
  <2>1. ObservationSourced(r)
    BY <1>5 DEF Current, Wanted, SameRow, Applies, ObservationSourced
  <2>2. Sound(r, ObservationSaved(r))
    BY <2>1, ObservationSavedSound
  <2>3. Outcome(k, v, r) = ObservationSaved(r)
    BY <1>5, <2>2, SaveObservationOutcome DEF Sound
  <2> QED BY <1>5, <2>1, <2>2, <2>3 DEF Does
<1>6. CASE k.op = "transition" /\ k.task = InitialRow
  <2>1. TransitionApplies(r, InitialRow, InitialRow)
    BY <1>6 DEF Current, Wanted, SameRow, Applies, TransitionApplies
  <2>2. Sound(r, TaskTransitioned(r, InitialRow, InitialRow, "WAITING_USER"))
    BY <2>1, TaskTransitionedSound
  <2>3. Outcome(k, v, r) =
          TaskTransitioned(r, InitialRow, InitialRow, "WAITING_USER")
    BY <1>6, <2>2, TransitionOutcome DEF Sound
  <2> QED BY <1>6, <2>1, <2>2, <2>3 DEF Does
<1>7. CASE k.op = "finalize_tool" /\ k.arg \in Results
  <2>1. SameRow(v, r, "tool") /\ ToolCallFinalizable(r)
    BY <1>7 DEF Current, Wanted, SameRow, Applies, ToolCallFinalizable
  <2>2. Sound(r, ToolCallFinalized(r, k.arg))
    BY <1>7, <2>1, ToolCallFinalizedSound
  <2>3. Outcome(k, v, r) = ToolCallFinalized(r, k.arg)
    BY <1>7, <2>1, <2>2, FinalizeToolOutcome DEF Sound
  <2> QED BY <1>7, <2>1, <2>2, <2>3 DEF Does
<1>8. CASE k.op = "append_trace" /\ k.arg \in Events
  <2>1. Sound(r, Written(r, k.arg))
    BY <1>8, EventWrittenSound
  <2>2. Outcome(k, v, r) = Written(r, k.arg)
    BY <1>8, <2>1, AppendTraceOutcome DEF Sound
  <2> QED BY <1>8, <2>1, <2>2 DEF Does
<1>9. CASE k.op = "complete" /\ k.task \in Tasks /\ k.arg \in Stops
  <2>1. k.task \in Projection /\ k.arg \in CompletionReason
    BY <1>9, CommandsAssumption
  <2>2. /\ RunFinalizable(v, LinksOf(k.task), k.task, k.task)
        /\ v.link = LinksOf(k.task) /\ r.link = LinksOf(k.task)
        /\ v.tool \notin ActiveToolCall /\ r.tool \notin ActiveToolCall
    BY <1>9 DEF Applies, Current, SameRow, RunFinalizable
  <2>3. RunFinalizable(r, LinksOf(k.task), k.task, k.task)
    BY <1>9, <2>2 DEF Current, Wanted, SameRow, RunFinalizable, LinksOf
  <2>4. CASE k.task = NoRow
    <3>1. r.link = "ABSENT" /\ v.link = "ABSENT"
      BY <2>2, <2>4 DEF LinksOf
    <3>2. Sound(r, RunCompleted(r, k.arg, NoRow, NoRow))
      BY <2>1, <3>1, RunCompletedUnlinkedSound
    <3>3. Outcome(k, v, r) = RunCompleted(r, k.arg, NoRow, NoRow)
      BY <1>9, <2>4, <3>1, <3>2, CompleteUnlinkedOutcome DEF Sound
    <3> QED BY <1>9, <2>3, <2>4, <3>2, <3>3 DEF Does
  <2>5. CASE k.task # NoRow
    <3>1. r.link = "OPEN" /\ v.link = "OPEN"
      BY <2>2, <2>5 DEF LinksOf
    <3>2. Sound(r, RunCompleted(r, k.arg, k.task, k.task))
      BY <2>1, <3>1, RunCompletedLinkedSound
    <3>3. Outcome(k, v, r) = RunCompleted(r, k.arg, k.task, k.task)
      BY <1>9, <2>1, <2>5, <3>1, <3>2, CompleteLinkedOutcome DEF Sound
    <3> QED BY <1>9, <2>3, <3>2, <3>3 DEF Does
  <2> QED BY <2>4, <2>5
<1>10. CASE k.op = "fail" /\ k.task \in Tasks
  <2>1. k.task \in Projection
    BY <1>10, CommandsAssumption
  <2>2. /\ RunFinalizable(v, LinksOf(k.task), k.task, NoRow)
        /\ v.link = LinksOf(k.task) /\ r.link = LinksOf(k.task)
        /\ v.tool \notin ActiveToolCall /\ r.tool \notin ActiveToolCall
    BY <1>10 DEF Applies, Current, SameRow, RunFinalizable
  <2>3. RunFinalizable(r, LinksOf(k.task), k.task, NoRow)
    BY <1>10, <2>2 DEF Current, Wanted, SameRow, RunFinalizable, LinksOf
  <2>4. Sound(r, RunFailed(r, k.task))
    BY <2>1, RunFailedSound
  <2>5. SameRow(v, r, "run")
    BY <1>10 DEF Current, Wanted
  <2>6. Outcome(k, v, r) = RunFailed(r, k.task)
    <3>1. CASE k.task = NoRow
      BY <1>10, <2>2, <2>4, <2>5, <3>1, FailUnlinkedOutcome DEF Sound, LinksOf
    <3>2. CASE k.task # NoRow
      <4>1. SameRow(v, r, "task")
        BY <1>10, <3>2 DEF Current, Wanted
      <4> QED BY <1>10, <2>1, <2>2, <2>4, <2>5, <3>2, <4>1, FailLinkedOutcome
              DEF Sound, LinksOf
    <3> QED BY <3>1, <3>2
  <2> QED BY <1>10, <2>3, <2>4, <2>6 DEF Does
<1> QED BY <1>1, <1>2, <1>3, <1>4, <1>5, <1>6, <1>7, <1>8, <1>9, <1>10,
           HandlerCommandIs

\* So does a recovery, whose rows are those of its snapshot.
LEMMA RecoveryDoes ==
  ASSUME NEW v \in Aggregate, NEW r \in Aggregate, Whole(r),
         NEW k, k.op = "recover", Current(k, v, r), Applies(k, v)
  PROVE  Does(k, r, Outcome(k, v, r)) /\ Sound(r, Outcome(k, v, r))
<1>1. /\ Whole(v) /\ SameRow(v, r, "run") /\ SameRow(v, r, "link")
      /\ v.link # "ABSENT" => SameRow(v, r, "unit") /\ SameRow(v, r, "task")
      /\ SameRow(v, r, "tool")
  BY DEF Current, Wanted
<1>2. Recoverable(r)
  BY <1>1 DEF Applies, Recoverable, SameRow
<1>3. /\ v.task = r.task /\ v.unit = r.unit /\ v.tool = r.tool
      /\ v.link = r.link
      /\ r.link = "ABSENT" => r.task = NoRow
  BY <1>1 DEF Whole, SameRow
<1>4. Sound(r, Recovered(r))
  BY RecoveredSound
<1>5. Outcome(k, v, r) = Recovered(r)
  BY <1>1, <1>3, <1>4, RecoverOutcome DEF Sound
<1> QED BY <1>2, <1>4, <1>5 DEF Does

\* AtomicRecords brings its own copy of the operators on records: the same ones.
LEMMA SameRunWrites ==
  ASSUME NEW r, NEW stop, NEW task, NEW unit, NEW links
  PROVE  /\ Atomic!RunStartable(r) <=> RunStartable(r)
         /\ Atomic!RunStarted(r) = RunStarted(r)
         /\ Atomic!RunFinalizable(r, links, task, unit)
              <=> RunFinalizable(r, links, task, unit)
         /\ Atomic!RunCompleted(r, stop, task, unit)
              = RunCompleted(r, stop, task, unit)
         /\ Atomic!RunFailed(r, task) = RunFailed(r, task)
         /\ Atomic!Recoverable(r) <=> Recoverable(r)
         /\ Atomic!Recovered(r) = Recovered(r)
<1>1. /\ Atomic!RunStartable(r) <=> RunStartable(r)
      /\ Atomic!RunStarted(r) = RunStarted(r)
  BY DEF RunStartable, RunStarted, Atomic!RunStartable, Atomic!RunStarted
<1>2. /\ Atomic!ActiveToolCall = ActiveToolCall
      /\ Atomic!ActiveRun = ActiveRun /\ Atomic!ActiveTask = ActiveTask
      /\ Atomic!RestartReason = RestartReason
  BY DEF ActiveToolCall, ActiveRun, ActiveTask, RestartReason,
         Atomic!ActiveToolCall, Atomic!ActiveRun, Atomic!ActiveTask,
         Atomic!RestartReason
<1>3. Atomic!RunFinalizable(r, links, task, unit)
        <=> RunFinalizable(r, links, task, unit)
  BY <1>2 DEF RunFinalizable, Atomic!RunFinalizable, NoRow, Atomic!NoRow
<1>4. \A x, y, z : /\ Atomic!LinkClosed(x, y) = LinkClosed(x, y)
                   /\ Atomic!Moved(x, y) = Moved(x, y)
                   /\ Atomic!TargetStatus(z) = TargetStatus(z)
  BY DEF LinkClosed, Moved, TargetStatus, Atomic!LinkClosed, Atomic!Moved,
         Atomic!TargetStatus
<1>5. \A w, x, y, z :
        Atomic!TaskTransitioned(w, x, y, z) = TaskTransitioned(w, x, y, z)
  BY <1>4 DEF TaskTransitioned, Atomic!TaskTransitioned
<1>6. Atomic!RunCompleted(r, stop, task, unit) = RunCompleted(r, stop, task, unit)
  BY <1>4, <1>5 DEF RunCompleted, Atomic!RunCompleted
<1>7. Atomic!RunFailed(r, task) = RunFailed(r, task)
  BY <1>4 DEF RunFailed, Atomic!RunFailed
<1>8. Atomic!Recoverable(r) <=> Recoverable(r)
  BY <1>2 DEF Recoverable, Atomic!Recoverable
<1>9. Atomic!Recovered(r) = Recovered(r)
  BY <1>2, <1>4 DEF Recovered, Atomic!Recovered
<1> QED BY <1>1, <1>3, <1>6, <1>7, <1>8, <1>9

\* The writes of the Task graph and of the Trace.
LEMMA SameTaskWrites ==
  ASSUME NEW r, NEW task, NEW unit, NEW status, NEW event
  PROVE  /\ Atomic!GraphCreatable(r) <=> GraphCreatable(r)
         /\ Atomic!GraphCreated(r) = GraphCreated(r)
         /\ Atomic!TransitionApplies(r, task, unit)
              <=> TransitionApplies(r, task, unit)
         /\ Atomic!TaskTransitioned(r, task, unit, status)
              = TaskTransitioned(r, task, unit, status)
         /\ Atomic!Written(r, event) = Written(r, event)
         /\ Atomic!InitialRow = InitialRow /\ Atomic!NoRow = NoRow
         /\ Atomic!LinksOf(task) = LinksOf(task)
  BY DEF GraphCreatable, GraphCreated, TransitionApplies, TaskTransitioned,
         Moved, Written, Document, InitialRow, NoRow, LinksOf,
         Atomic!GraphCreatable, Atomic!GraphCreated, Atomic!TransitionApplies,
         Atomic!TaskTransitioned, Atomic!Moved, Atomic!Written,
         Atomic!Document, Atomic!InitialRow, Atomic!NoRow, Atomic!LinksOf

\* The writes of the ToolCall and its Observation.
LEMMA SameToolWrites ==
  ASSUME NEW r, NEW version, NEW status
  PROVE  /\ Atomic!ToolCallInsertable(r) <=> ToolCallInsertable(r)
         /\ Atomic!ToolCallInserted(r, version) = ToolCallInserted(r, version)
         /\ Atomic!ToolCallStartable(r) <=> ToolCallStartable(r)
         /\ Atomic!ToolCallStarted(r) = ToolCallStarted(r)
         /\ Atomic!ToolCallFinalizable(r) <=> ToolCallFinalizable(r)
         /\ Atomic!ToolCallFinalized(r, status) = ToolCallFinalized(r, status)
         /\ Atomic!ObservationSourced(r) <=> ObservationSourced(r)
         /\ Atomic!ObservationSaved(r) = ObservationSaved(r)
  BY DEF ToolCallInsertable, ToolCallInserted, ToolCallStartable,
         ToolCallStarted, ToolCallFinalizable, ToolCallFinalized,
         ObservationSourced, ObservationSaved, NoRow,
         Atomic!ToolCallInsertable, Atomic!ToolCallInserted,
         Atomic!ToolCallStartable, Atomic!ToolCallStarted,
         Atomic!ToolCallFinalizable, Atomic!ToolCallFinalized,
         Atomic!ObservationSourced, Atomic!ObservationSaved, Atomic!NoRow

\* A write of AtomicRecords.
LEMMA DoesAtomic ==
  ASSUME NEW k, Does(k, d, d')
  PROVE  Atomic!Next
<1>1. \/ RunStartable(d) /\ d' = RunStarted(d)
      \/ GraphCreatable(d) /\ d' = GraphCreated(d)
      \/ /\ TransitionApplies(d, InitialRow, InitialRow)
         /\ d' = TaskTransitioned(d, InitialRow, InitialRow, "WAITING_USER")
      => Atomic!Advance
  BY SameRunWrites, SameTaskWrites DEF Atomic!Advance
<1>2. \/ /\ ToolCallInsertable(d)
         /\ d' = ToolCallInserted(d, InitialRow.version)
      \/ ToolCallStartable(d) /\ d' = ToolCallStarted(d)
      \/ /\ k.arg \in Results /\ ToolCallFinalizable(d)
         /\ d' = ToolCallFinalized(d, k.arg)
      \/ ObservationSourced(d) /\ d' = ObservationSaved(d)
      => Atomic!UseTool
  BY SameToolWrites, SameTaskWrites DEF Atomic!UseTool
<1>3. k.arg \in Events /\ d' = Written(d, k.arg) => Atomic!Trace
  BY SameTaskWrites DEF Atomic!Trace
<1>4. \/ /\ k.task \in Tasks /\ k.arg \in Stops
         /\ RunFinalizable(d, LinksOf(k.task), k.task, k.task)
         /\ d' = RunCompleted(d, k.arg, k.task, k.task)
      \/ /\ k.task \in Tasks
         /\ RunFinalizable(d, LinksOf(k.task), k.task, NoRow)
         /\ d' = RunFailed(d, k.task)
      \/ Recoverable(d) /\ d' = Recovered(d)
      => Atomic!Stop
  BY SameRunWrites, SameTaskWrites DEF Atomic!Stop
<1> QED BY <1>1, <1>2, <1>3, <1>4 DEF Does, Atomic!Next

===============================================================================
