-------------------------- MODULE RunRecordsInvariant --------------------------
(***************************************************************************)
(* What the records of one Run satisfy by themselves, whatever wrote them: *)
(* the part of the inductive invariant of AgentRun that speaks of one      *)
(* aggregate and that every write of RunRecords keeps.                     *)
(***************************************************************************)
EXTENDS RunRecords

Never(trace, event) == \A i \in DOMAIN trace : trace[i] # event
Once(trace, event) ==
  \E i \in DOMAIN trace :
    trace[i] = event /\ \A j \in DOMAIN trace : trace[j] = event => j = i
Traced(d) == {d.trace[i] : i \in DOMAIN d.trace}

\* How a Run ended shows in its reply, its reason and its RunStopped event.
Evidence(d) ==
  /\ d.reply <=> d.run = "COMPLETED"
  /\ d.run = "COMPLETED" => d.stop \in CompletionReason
  /\ d.run = "INCOMPLETE" => d.stop = RestartReason
  /\ IF d.run \in {"COMPLETED", "INCOMPLETE"}
     THEN Once(d.trace, "RunStopped")
     ELSE d.stop = "NONE" /\ Never(d.trace, "RunStopped")

WaitingRow == Moved(InitialRow, "WAITING_USER")

\* Run, RunTaskLink, Task and RequestUnit.
GraphConsistent(d) ==
  /\ d.unit = d.task
  /\ d.link = "ABSENT" <=> d.task = NoRow
  /\ d.link = "OPEN" => d.run = "RUNNING"
  /\ d.link = "CLOSED" => d.run \in TerminalRun
                            /\ d.resultVersion = d.task.version
  /\ d.run \in {"ABSENT", "CREATED"} => d.link = "ABSENT"
  /\ d.run = "RUNNING" /\ d.link = "OPEN" => d.task \in {InitialRow, WaitingRow}
  /\ d.run = "INCOMPLETE" => d.task.status \notin ActiveTask

\* The ToolCall, its attempt row and its Observation.
ToolConsistent(d) ==
  /\ d.tool # "ABSENT" => d.link # "ABSENT"
  /\ d.tool \in ActiveToolCall =>
       /\ d.run = "RUNNING" /\ d.task = InitialRow
       /\ d.validated = InitialRow.version
  /\ d.tool \in {"ABSENT", "CREATED"} => d.attempts = 0
  /\ d.tool \in {"RUNNING", "SUCCEEDED", "FAILED", "TIMED_OUT"} =>
       d.attempts = 1
  /\ d.observation => d.tool = "SUCCEEDED"

Consistent(d) == GraphConsistent(d) /\ ToolConsistent(d) /\ Evidence(d)

===============================================================================
