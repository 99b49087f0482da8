----------------------------- MODULE AtomicRecords -----------------------------
(***************************************************************************)
(* What callers of the record port rely on, and what AgentRun assumes: each *)
(* conditional write on the records of one Run happens at one instant, on  *)
(* the records of that instant, or not at all.                             *)
(***************************************************************************)
EXTENDS RunRecords

CONSTANTS Tasks, Stops, Results, Events   \* what commands may carry

VARIABLE records

Init == records = RunInserted(NoRecords)

LinksOf(task) == IF task = NoRow THEN "ABSENT" ELSE "OPEN"

Advance ==
  \/ RunStartable(records) /\ records' = RunStarted(records)
  \/ GraphCreatable(records) /\ records' = GraphCreated(records)
  \/ /\ TransitionApplies(records, InitialRow, InitialRow)
     /\ records' =
          TaskTransitioned(records, InitialRow, InitialRow, "WAITING_USER")

UseTool ==
  \/ /\ ToolCallInsertable(records)
     /\ records' = ToolCallInserted(records, InitialRow.version)
  \/ ToolCallStartable(records) /\ records' = ToolCallStarted(records)
  \/ \E status \in Results :
       /\ ToolCallFinalizable(records)
       /\ records' = ToolCallFinalized(records, status)
  \/ ObservationSourced(records) /\ records' = ObservationSaved(records)

Trace == \E event \in Events : records' = Written(records, event)

Stop ==
  \/ \E task \in Tasks, stop \in Stops :
       /\ RunFinalizable(records, LinksOf(task), task, task)
       /\ records' = RunCompleted(records, stop, task, task)
  \/ \E task \in Tasks :
       /\ RunFinalizable(records, LinksOf(task), task, NoRow)
       /\ records' = RunFailed(records, task)
  \/ Recoverable(records) /\ records' = Recovered(records)

Next == Advance \/ UseTool \/ Trace \/ Stop

Spec == Init /\ [][Next]_records

===============================================================================
