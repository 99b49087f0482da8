-------------------------- MODULE AgentRunTraceProofs --------------------------
(***************************************************************************)
(* The Trace of a Run never says what its records do not hold, every row   *)
(* the Run stores names rows that are stored, nothing but an answered Run  *)
(* is graded complete, and a single process serves only after recovery has *)
(* closed the orphans.                                                     *)
(***************************************************************************)
EXTENDS AgentRunProofs, TraceGradingSafety

-------------------------------------------------------------------------------
(* What was told stays true.                                                *)

\* No conditional write takes back what an event says.
LEMMA ToldKept ==
  ASSUME NEW d, NEW e, Kept(d), Alter(d, e), NEW event, Told(event, d)
  PROVE  Told(event, e)
<1>1. d \in Aggregate /\ ToolConsistent(d) /\ GraphConsistent(d)
  BY DEF Kept, Consistent
<1>2. CASE d.run = "ABSENT" /\ e = RunInserted(d)
  BY <1>1, <1>2 DEF RunInserted, Told, Aggregate
<1>3. CASE RunStartable(d) /\ e = RunStarted(d)
  BY <1>1, <1>3 DEF RunStarted, Told, Aggregate
<1>4. CASE GraphCreatable(d) /\ e = GraphCreated(d)
  BY <1>1, <1>4 DEF GraphCreated, Told, Aggregate, InitialRow, NoRow
<1>5. CASE \E w \in Document : e = Written(d, w)
  BY <1>1, <1>5 DEF Written, Told, Aggregate
<1>6. CASE e = TaskTransitioned(d, InitialRow, InitialRow, "WAITING_USER")
  BY <1>1, <1>6 DEF TaskTransitioned, Moved, InitialRow, NoRow, Told, Aggregate
<1>7. CASE ToolCallInsertable(d) /\ e = ToolCallInserted(d, InitialRow.version)
  BY <1>1, <1>7 DEF ToolCallInsertable, ToolCallInserted, Told, Aggregate
<1>8. CASE ToolCallStartable(d) /\ e = ToolCallStarted(d)
  BY <1>1, <1>8 DEF ToolCallStartable, ToolCallStarted, Told, Aggregate, ToolConsistent
<1>9. CASE /\ ToolCallFinalizable(d)
           /\ \E status \in ToolCallStatus \ ActiveToolCall :
                e = ToolCallFinalized(d, status)
  BY <1>1, <1>9 DEF ToolCallFinalizable, ToolCallFinalized, Told, Aggregate
<1>10. CASE ObservationSourced(d) /\ e = ObservationSaved(d)
  BY <1>1, <1>10 DEF ObservationSaved, Told, Aggregate
<1>11. CASE \E links, task, unit : \E stop \in CompletionReason :
              RunFinalizable(d, links, task, unit)
                /\ e = RunCompleted(d, stop, task, unit)
  <2>1. PICK links, task, unit : \E stop \in CompletionReason :
               RunFinalizable(d, links, task, unit)
                 /\ e = RunCompleted(d, stop, task, unit)
    BY <1>11
  <2>2. PICK stop \in CompletionReason :
               RunFinalizable(d, links, task, unit)
                 /\ e = RunCompleted(d, stop, task, unit)
    BY <2>1
  <2>3. /\ e.run = "COMPLETED" /\ e.documents = d.documents /\ e.tool = d.tool
        /\ e.attempts = d.attempts /\ e.observation = d.observation
    BY <1>1, <2>2
    DEF RunFinalizable, RunCompleted, TaskTransitioned, LinkClosed, Aggregate
  <2>4. d.task # NoRow => e.task # NoRow
    BY <1>1, <2>2
    DEF RunFinalizable, RunCompleted, TaskTransitioned, LinkClosed, Aggregate,
        Moved, TargetStatus, NoRow
  <2> QED BY <2>3, <2>4 DEF Told
<1>12. CASE \E links, task :
              RunFinalizable(d, links, task, NoRow) /\ e = RunFailed(d, task)
  BY <1>1, <1>12 DEF RunFailed, LinkClosed, Told, Aggregate
<1>13. CASE Recoverable(d) /\ e = Recovered(d)
  <2>1. /\ e.run = "INCOMPLETE" /\ e.documents = d.documents
        /\ e.attempts = d.attempts /\ e.observation = d.observation
        /\ e.tool = IF d.tool \in ActiveToolCall THEN "INTERRUPTED" ELSE d.tool
    BY <1>1, <1>13 DEF Recovered, LinkClosed, Aggregate
  <2>2. d.task # NoRow => e.task # NoRow
    BY <1>1, <1>13 DEF Recovered, LinkClosed, Aggregate, Moved, NoRow
  <2> QED BY <2>1, <2>2 DEF Told, ActiveToolCall
<1> QED BY <1>2, <1>3, <1>4, <1>5, <1>6, <1>7, <1>8, <1>9, <1>10, <1>11, <1>12, <1>13
        DEF Alter

\* The events of a Trace, one at a time.
EventsIn(s) == {s[i] : i \in DOMAIN s}
PlacesIn(s) == {i \in DOMAIN s : s[i] = "ContextManifestRecorded"}

LEMMA EventsAppend ==
  ASSUME NEW s \in Seq(TraceEventType), NEW x \in TraceEventType
  PROVE  /\ Append(s, x) \in Seq(TraceEventType)
         /\ EventsIn(Append(s, x)) \subseteq EventsIn(s) \cup {x}
         /\ x # "ContextManifestRecorded" => PlacesIn(Append(s, x)) = PlacesIn(s)
  BY DEF EventsIn, PlacesIn

\* What a conditional write does to the Trace: nothing, or it appends the events
\* of the transaction that ends the Run.
Closes(d, e) ==
  LET moved == Append(d.trace, "TaskStateChanged")
      stopped == Append(d.trace, "RunStopped")
      changed == Append(stopped, "TaskStateChanged")
  IN  \/ e.trace \in {d.trace, stopped}
      \/ e.task # NoRow /\ e.trace \in {changed, Append(moved, "RunStopped")}
      \/ e.tool = "INTERRUPTED" /\ e.trace = Append(stopped, "ToolCallInterrupted")
      \/ /\ e.tool = "INTERRUPTED" /\ e.task # NoRow
         /\ e.trace = Append(changed, "ToolCallInterrupted")

LEMMA AlterCloses ==
  ASSUME NEW d, NEW e, Kept(d), Alter(d, e)
  PROVE  Closes(d, e)
<1>1. d \in Aggregate
  BY DEF Kept
<1>2. CASE e.trace = d.trace
  BY <1>2 DEF Closes
<1>3. CASE \E links, task, unit : \E stop \in CompletionReason :
             RunFinalizable(d, links, task, unit)
               /\ e = RunCompleted(d, stop, task, unit)
  <2>1. PICK links, task, unit : \E stop \in CompletionReason :
               e = RunCompleted(d, stop, task, unit)
    BY <1>3
  <2>2. PICK stop \in CompletionReason : e = RunCompleted(d, stop, task, unit)
    BY <2>1
  <2>3. CASE d.link = "OPEN"
    <3>1. /\ e.trace = Append(Append(d.trace, "TaskStateChanged"), "RunStopped")
          /\ e.task = Moved(task, TargetStatus(stop))
      BY <1>1, <2>2, <2>3 DEF RunCompleted, TaskTransitioned, LinkClosed, Aggregate
    <3>2. e.task # NoRow
      BY <3>1 DEF Moved, TargetStatus, NoRow
    <3> QED BY <3>1, <3>2 DEF Closes
  <2>4. CASE d.link # "OPEN"
    <3>1. e.trace = Append(d.trace, "RunStopped")
      BY <1>1, <2>2, <2>4 DEF RunCompleted, Aggregate
    <3> QED BY <3>1 DEF Closes
  <2> QED BY <2>3, <2>4
<1>4. CASE Recoverable(d) /\ e = Recovered(d)
  <2> DEFINE stopped == Append(d.trace, "RunStopped")
             changed == IF d.task.status \in ActiveTask
                        THEN Append(stopped, "TaskStateChanged") ELSE stopped
  <2>1. /\ e.trace = IF d.tool \in ActiveToolCall
                     THEN Append(changed, "ToolCallInterrupted") ELSE changed
        /\ d.tool \in ActiveToolCall => e.tool = "INTERRUPTED"
        /\ d.task.status \in ActiveTask => e.task = Moved(d.task, "BLOCKED")
    BY <1>1, <1>4 DEF Recovered, LinkClosed, Aggregate
  <2>2. d.task.status \in ActiveTask => e.task # NoRow
    BY <2>1 DEF Moved, NoRow
  <2> QED BY <2>1, <2>2 DEF Closes
<1>5. CASE \/ e \in {RunInserted(d), RunStarted(d), GraphCreated(d), ToolCallStarted(d),
                   ObservationSaved(d), ToolCallInserted(d, InitialRow.version),
                   TaskTransitioned(d, InitialRow, InitialRow, "WAITING_USER")}
           \/ \E w \in Document : e = Written(d, w)
           \/ \E status \in ToolCallStatus \ ActiveToolCall : e = ToolCallFinalized(d, status)
           \/ \E task : e = RunFailed(d, task)
  <2>1. e.trace = d.trace
    BY <1>1, <1>5
    DEF RunInserted, RunStarted, GraphCreated, Written, TaskTransitioned, ToolCallInserted,
        ToolCallStarted, ToolCallFinalized, ObservationSaved, RunFailed, LinkClosed, Aggregate
  <2> QED BY <1>2, <2>1
<1> QED BY <1>3, <1>4, <1>5 DEF Alter

\* The events a terminal transaction appends, and what it has committed when it
\* does; no other conditional write appends one.
LEMMA NewEvents ==
  ASSUME NEW d, NEW e, Kept(d), Alter(d, e)
  PROVE  /\ \A event \in Traced(e) \ Traced(d) :
              \/ event = "RunStopped"
              \/ event = "TaskStateChanged" /\ e.task # NoRow
              \/ event = "ToolCallInterrupted" /\ e.tool = "INTERRUPTED"
         /\ ManifestsAt(e) = ManifestsAt(d)
<1> DEFINE t == d.trace
           moved == Append(t, "TaskStateChanged")
           stopped == Append(t, "RunStopped")
           changed == Append(stopped, "TaskStateChanged")
<1>1. /\ t \in Seq(TraceEventType)
      /\ EventsIn(t) = Traced(d) /\ EventsIn(e.trace) = Traced(e)
      /\ PlacesIn(t) = ManifestsAt(d) /\ PlacesIn(e.trace) = ManifestsAt(e)
  BY DEF Kept, Aggregate, EventsIn, Traced, PlacesIn, ManifestsAt
<1>2. \A w \in {"TaskStateChanged", "RunStopped", "ToolCallInterrupted"} :
        w \in TraceEventType /\ w # "ContextManifestRecorded"
  BY DEF TraceEventType
<1>3. /\ moved \in Seq(TraceEventType) /\ PlacesIn(moved) = PlacesIn(t)
      /\ EventsIn(moved) \subseteq EventsIn(t) \cup {"TaskStateChanged"}
      /\ stopped \in Seq(TraceEventType) /\ PlacesIn(stopped) = PlacesIn(t)
      /\ EventsIn(stopped) \subseteq EventsIn(t) \cup {"RunStopped"}
  BY <1>1, <1>2, EventsAppend
<1>4. /\ changed \in Seq(TraceEventType) /\ PlacesIn(changed) = PlacesIn(t)
      /\ EventsIn(changed) \subseteq EventsIn(stopped) \cup {"TaskStateChanged"}
      /\ EventsIn(Append(moved, "RunStopped")) \subseteq EventsIn(moved) \cup {"RunStopped"}
      /\ PlacesIn(Append(moved, "RunStopped")) = PlacesIn(t)
      /\ EventsIn(Append(stopped, "ToolCallInterrupted"))
           \subseteq EventsIn(stopped) \cup {"ToolCallInterrupted"}
      /\ PlacesIn(Append(stopped, "ToolCallInterrupted")) = PlacesIn(t)
  BY <1>2, <1>3, EventsAppend
<1>5. /\ EventsIn(Append(changed, "ToolCallInterrupted"))
           \subseteq EventsIn(changed) \cup {"ToolCallInterrupted"}
      /\ PlacesIn(Append(changed, "ToolCallInterrupted")) = PlacesIn(t)
  BY <1>2, <1>4, EventsAppend
<1>6. Closes(d, e)
  BY AlterCloses
<1>7. \/ e.trace \in {t, stopped}
      \/ e.task # NoRow /\ e.trace \in {changed, Append(moved, "RunStopped")}
      \/ e.tool = "INTERRUPTED" /\ e.trace = Append(stopped, "ToolCallInterrupted")
      \/ /\ e.tool = "INTERRUPTED" /\ e.task # NoRow
         /\ e.trace = Append(changed, "ToolCallInterrupted")
  BY <1>6 DEF Closes
<1> HIDE DEF t, moved, stopped, changed
<1> QED BY <1>1, <1>3, <1>4, <1>5, <1>7

LEMMA NewEventsTold ==
  ASSUME NEW d, NEW e, Kept(d), Alter(d, e), NEW event \in Traced(e),
         event \notin Traced(d)
  PROVE  Told(event, e)
  BY NewEvents DEF Told

\* Records whose events are all true.
Truthful(d) == \A event \in Traced(d) : Told(event, d)

LEMMA AlterTruthful ==
  ASSUME NEW d, NEW e, Kept(d), Alter(d, e), Truthful(d)
  PROVE  Truthful(e)
  BY ToldKept, NewEventsTold DEF Truthful

\* An event that is true is appended.
LEMMA AppendTruthful ==
  ASSUME NEW d \in Aggregate, Truthful(d), NEW w \in TraceEventType, Told(w, d)
  PROVE  Truthful(Written(d, w))
<1>1. w \notin Document
  BY DEF TraceEventType, Document
<1>2. /\ Written(d, w).trace = Append(d.trace, w)
      /\ d.trace \in Seq(TraceEventType)
      /\ SameRecords(d, Written(d, w)) /\ Written(d, w).documents = d.documents
  BY <1>1 DEF Written, Aggregate, SameRecords
<1>3. Traced(Written(d, w)) \subseteq Traced(d) \cup {w}
  BY <1>2, EventsAppend DEF Traced, EventsIn
<1>4. ASSUME NEW event, Told(event, d) PROVE Told(event, Written(d, w))
  BY <1>2, <1>4 DEF Told, SameRecords
<1> QED BY <1>3, <1>4 DEF Truthful

-------------------------------------------------------------------------------
(* Where a handler step leads.                                              *)

\* A step of the handler of r that leads to one of the points S.
Leads(r, S) == \E l : h' = [h EXCEPT ![r] = l] /\ l.pc \in S

LEMMA StoreCallLeads ==
  ASSUME NEW r \in Runs, NEW S, NEW applies, NEW committed, NEW ok, NEW refused, NEW error,
         StoreCall(r, applies, committed, ok, refused, error),
         ok.pc \in S, refused.pc \in S, error.pc \in S
  PROVE  Leads(r, S)
  BY DEF StoreCall, Leads

LEMMA LocalLeads ==
  ASSUME NEW r \in Runs, NEW S, NEW l, Local(r, l), l.pc \in S
  PROVE  Leads(r, S)
  BY DEF Local, Leads

RaisedTo == {"raised", "reload", "close"}

LEMMA RaisedPoint ==
  ASSUME NEW l \in Handler
  PROVE  Raised(l).pc \in RaisedTo
  BY DEF Raised, At, Handler, RaisedTo

LEMMA AtPoint ==
  ASSUME NEW l \in Handler, NEW point
  PROVE  At(l, point).pc = point
  BY DEF At, Handler

\* Calls before the Run has started.
LEMMA EntryLeads ==
  ASSUME IndInv, NEW r \in Runs,
         Intake(r) \/ InsertRun(r) \/ StartRun(r)
  PROVE  Leads(r, {"insert_run", "start_run", "message_accepted"} \cup RaisedTo)
<1> DEFINE l == h[r]
           d == db[r]
           S == {"insert_run", "start_run", "message_accepted"} \cup RaisedTo
<1>1. l \in Handler
  BY IndInvGood
<1>2. Raised(l).pc \in S
  BY <1>1, RaisedPoint
<1> HIDE DEF l, d
<1>3. CASE Intake(r)
  <2>1. StoreCall(r, TRUE, d, At(l, "insert_run"), Raised(l), Raised(l))
    BY <1>3 DEF Intake, l, d
  <2>2. At(l, "insert_run").pc \in S
    BY <1>1, AtPoint
  <2> QED BY <1>2, <2>1, <2>2, StoreCallLeads
<1>4. CASE InsertRun(r)
  <2>1. StoreCall(r, d.run = "ABSENT", RunInserted(d), At(l, "start_run"), Raised(l), Raised(l))
    BY <1>4 DEF InsertRun, l, d
  <2>2. At(l, "start_run").pc \in S
    BY <1>1, AtPoint
  <2> QED BY <1>2, <2>1, <2>2, StoreCallLeads
<1>5. CASE StartRun(r)
  <2> DEFINE ok == [l EXCEPT !.pc = "message_accepted", !.running = TRUE]
  <2>1. StoreCall(r, RunStartable(d), RunStarted(d), ok, Raised(l), Raised(l))
    BY <1>5 DEF StartRun, l, d
  <2>2. ok.pc \in S
    BY <1>1 DEF Handler
  <2> HIDE DEF ok
  <2> QED BY <1>2, <2>1, <2>2, StoreCallLeads
<1> QED BY <1>3, <1>4, <1>5

\* Calls that end the Run.
LEMMA ClosingLeads ==
  ASSUME IndInv, NEW r \in Runs, FinalizeRun(r) \/ ReloadTask(r) \/ CloseFailedRun(r)
  PROVE  Leads(r, {"returned"} \cup RaisedTo)
<1> DEFINE l == h[r]
           d == db[r]
           S == {"returned"} \cup RaisedTo
<1>1. l \in Handler
  BY IndInvGood
<1>2. Raised(l).pc \in S
  BY <1>1, RaisedPoint
<1> HIDE DEF l, d
<1>6. CASE FinalizeRun(r)
  <2> DEFINE ok == [l EXCEPT !.pc = "returned", !.running = FALSE, !.result = l.stop]
  <2>1. StoreCall(r, RunFinalizable(d, LinksOf(l.cursor), l.task, l.unit),
                  RunCompleted(d, l.stop, l.task, l.unit), ok, Raised(l), Raised(l))
    BY <1>6 DEF FinalizeRun, l, d
  <2>2. ok.pc \in S
    BY <1>1 DEF Handler
  <2> HIDE DEF ok
  <2> QED BY <1>2, <2>1, <2>2, StoreCallLeads
<1>7. CASE ReloadTask(r)
  <2> DEFINE ok == [l EXCEPT !.pc = "close", !.cursor = d.task]
  <2>1. StoreCall(r, TRUE, d, ok, l, At(l, "close")) /\ l.pc = "reload"
    BY <1>7 DEF ReloadTask, l, d
  <2>2. ok.pc \in S /\ At(l, "close").pc \in S /\ l.pc \in S
    BY <1>1, <2>1, AtPoint DEF Handler, RaisedTo
  <2> HIDE DEF ok
  <2> QED BY <2>1, <2>2, StoreCallLeads
<1>8. CASE CloseFailedRun(r)
  <2> DEFINE done(closing) == [l EXCEPT !.pc = "raised", !.closing = closing]
  <2>1. StoreCall(r, RunFinalizable(d, LinksOf(l.cursor), l.cursor, NoRow),
                  RunFailed(d, l.cursor), done("APPLIED"), done("CONFLICT"), done("ERROR"))
    BY <1>8 DEF CloseFailedRun, l, d
  <2>2. /\ done("APPLIED").pc \in S /\ done("CONFLICT").pc \in S /\ done("ERROR").pc \in S
    BY <1>1 DEF Handler, RaisedTo
  <2> HIDE DEF done
  <2> QED BY <2>1, <2>2, StoreCallLeads
<1> QED BY <1>6, <1>7, <1>8

\* Plain inserts.
LEMMA PlainLeads ==
  ASSUME IndInv, NEW r \in Runs, PlainWrite(r)
  PROVE  Leads(r, {NextPoint(h[r])} \cup RaisedTo)
<1> DEFINE l == h[r]
           S == {NextPoint(l)} \cup RaisedTo
           m == [l EXCEPT !.pc = NextPoint(l),
                          !.stop = IF l.pc = "tool_normalized" /\ l.outcome # "FOUND"
                                   THEN ReadStop(l.outcome) ELSE @]
<1>1. l \in Handler
  BY IndInvGood
<1>2. m.pc \in S /\ Raised(l).pc \in S
  BY <1>1, RaisedPoint DEF Handler
<1>3. StoreCall(r, TRUE, Written(db[r], WriteAt(l)), m, m, Raised(l))
  BY DEF PlainWrite
<1> HIDE DEF l, m, S
<1>4. Leads(r, S)
  BY <1>2, <1>3, StoreCallLeads
<1> QED BY <1>4 DEF S, l

LEMMA GateLeads ==
  ASSUME IndInv, NEW r \in Runs, SaveGateDecision(r)
  PROVE  Leads(r, {"gate_recorded"} \cup RaisedTo)
<1> DEFINE l == h[r]
           S == {"gate_recorded"} \cup RaisedTo
           ok(stop) == [l EXCEPT !.pc = "gate_recorded", !.stop = stop]
<1>1. l \in Handler
  BY IndInvGood
<1>2. Raised(l).pc \in S /\ \A stop : ok(stop).pc \in S
  BY <1>1, RaisedPoint DEF Handler
<1>3. PICK stop : StoreCall(r, TRUE, Written(db[r], "GATE_DECISION"), ok(stop), l, Raised(l))
  BY DEF SaveGateDecision
<1> HIDE DEF l, ok, S
<1>4. Leads(r, S)
  BY <1>2, <1>3 DEF StoreCall, Leads
<1> QED BY <1>4 DEF S

\* Points about whose documents Filed says nothing new.
QuietTo ==
  Point \ ({"dead", "gate_recorded"} \cup PlanPoint \cup AuthorizedPoint \cup UnbriefedPoint)

LEMMA QuietPoint ==
  ASSUME NEW l \in Handler
  PROVE  /\ Raised(l).pc \in QuietTo
         /\ \A point \in {"create_graph", "load_task", "load_unit", "hook_changed", "insert_tool",
                         "fence", "dispatch", "interrupt_tool", "interrupt_trace",
                         "save_observation", "tool_created", "plan_proposed"} :
              /\ At(l, point).pc = point
              /\ point \notin {"insert_tool", "plan_proposed"} => At(l, point).pc \in QuietTo
<1>1. /\ RaisedTo \subseteq QuietTo
      /\ {"create_graph", "load_task", "load_unit", "hook_changed", "fence", "dispatch",
          "interrupt_tool", "interrupt_trace", "save_observation", "tool_created"} \subseteq QuietTo
  BY DEF RaisedTo, QuietTo, PlanPoint, UnbriefedPoint, AuthorizedPoint, Point, ServicePoint, PlainPoint, ExecutorPoint,
         ClosingPoint, Ended
<1> QED BY <1>1, RaisedPoint, AtPoint

\* From the proposal to the Gate.
LEMMA GraphLeads ==
  ASSUME IndInv, NEW r \in Runs,
         \/ ProposeNextMove(r) \/ CreateInitialTaskGraph(r) \/ Hook(r) \/ LoadTask(r)
         \/ LoadUnit(r)
  PROVE  Leads(r, QuietTo)
<1> DEFINE l == h[r]
           d == db[r]
<1>1. l \in Handler
  BY IndInvGood
<1>2. Raised(l).pc \in QuietTo
  BY <1>1, QuietPoint
<1>3. {"response_rendered", "move_proposed", "load_unit", "save_gate"} \subseteq QuietTo
  BY DEF QuietTo, PlanPoint, UnbriefedPoint, AuthorizedPoint, Point, ServicePoint, PlainPoint
<1> HIDE DEF l, d
<1>4. CASE ProposeNextMove(r)
  <2> DEFINE refused(stop) == [l EXCEPT !.pc = "response_rendered", !.stop = stop]
  <2>1. \/ Local(r, At(l, "create_graph"))
        \/ \E stop \in {"INPUT_INVALID", "PROVIDER_PROTOCOL_ERROR"} : Local(r, refused(stop))
        \/ Local(r, Raised(l))
    BY <1>4 DEF ProposeNextMove, l
  <2>2. At(l, "create_graph").pc \in QuietTo /\ \A stop : refused(stop).pc \in QuietTo
    BY <1>1, <1>3, QuietPoint DEF Handler
  <2> HIDE DEF refused
  <2> QED BY <1>2, <2>1, <2>2, LocalLeads
<1>5. CASE CreateInitialTaskGraph(r)
  <2> DEFINE ok == [l EXCEPT !.pc = "move_proposed", !.cursor = InitialRow]
  <2>1. StoreCall(r, GraphCreatable(d), GraphCreated(d), ok, Raised(l), Raised(l))
    BY <1>5 DEF CreateInitialTaskGraph, l, d
  <2>2. ok.pc \in QuietTo
    BY <1>1, <1>3 DEF Handler
  <2> HIDE DEF ok
  <2> QED BY <1>2, <2>1, <2>2, StoreCallLeads
<1>6. CASE Hook(r)
  <2> DEFINE applies == TransitionApplies(d, InitialRow, InitialRow)
             e == TaskTransitioned(d, InitialRow, InitialRow, "WAITING_USER")
  <2>1. \/ Local(r, At(l, "load_task")) \/ Local(r, Raised(l))
        \/ StoreCall(r, applies, e, At(l, "hook_changed"), Raised(l), Raised(l))
    BY <1>6 DEF Hook, l, d
  <2>2. At(l, "load_task").pc \in QuietTo /\ At(l, "hook_changed").pc \in QuietTo
    BY <1>1, QuietPoint
  <2> HIDE DEF applies, e
  <2> QED BY <1>2, <2>1, <2>2, LocalLeads, StoreCallLeads
<1>7. CASE LoadTask(r)
  <2> DEFINE ok == [l EXCEPT !.pc = "load_unit", !.task = d.task]
  <2>1. StoreCall(r, d.task # NoRow, d, ok, Raised(l), Raised(l))
    BY <1>7 DEF LoadTask, l, d
  <2>2. ok.pc \in QuietTo
    BY <1>1, <1>3 DEF Handler
  <2> HIDE DEF ok
  <2> QED BY <1>2, <2>1, <2>2, StoreCallLeads
<1>8. CASE LoadUnit(r)
  <2> DEFINE ok == [l EXCEPT !.pc = "save_gate", !.unit = d.unit, !.cursor = l.task]
  <2>1. StoreCall(r, d.unit # NoRow, d, ok, Raised(l), Raised(l))
    BY <1>8 DEF LoadUnit, l, d
  <2>2. ok.pc \in QuietTo
    BY <1>1, <1>3 DEF Handler
  <2> HIDE DEF ok
  <2> QED BY <1>2, <2>1, <2>2, StoreCallLeads
<1> QED BY <1>4, <1>5, <1>6, <1>7, <1>8

LEMMA AuthorizeLeads ==
  ASSUME IndInv, NEW r \in Runs, Authorize(r)
  PROVE  Leads(r, {"insert_tool"} \cup RaisedTo)
<1>1. Local(r, At(h[r], "insert_tool")) \/ Local(r, Raised(h[r]))
  BY DEF Authorize
<1>2. h[r] \in Handler
  BY IndInvGood
<1>3. Raised(h[r]).pc \in RaisedTo /\ At(h[r], "insert_tool").pc = "insert_tool"
  BY <1>2, RaisedPoint, AtPoint
<1> QED BY <1>1, <1>3, LocalLeads

\* The executor.
LEMMA ToolLeads ==
  ASSUME IndInv, NEW r \in Runs,
         \/ InsertToolCall(r) \/ StartToolCall(r) \/ DispatchRead(r) \/ OrderAnswer(r)
         \/ FinalizeToolCall(r) \/ SaveObservation(r) \/ InterruptToolCall(r)
         \/ TraceInterruption(r)
  PROVE  Leads(r, QuietTo)
<1> DEFINE l == h[r]
           d == db[r]
<1>1. l \in Handler
  BY IndInvGood
<1>2. /\ Raised(l).pc \in QuietTo
      /\ \A point \in {"fence", "dispatch", "interrupt_tool", "interrupt_trace",
                      "save_observation", "tool_created"} : At(l, point).pc \in QuietTo
  BY <1>1, QuietPoint
<1>3. {"await_order", "finalize_tool"} \subseteq QuietTo
  BY DEF QuietTo, PlanPoint, UnbriefedPoint, AuthorizedPoint, Point, ExecutorPoint
<1> HIDE DEF l, d
<1>4. CASE InsertToolCall(r)
  <2>1. StoreCall(r, ToolCallInsertable(d), ToolCallInserted(d, InitialRow.version),
                  At(l, "fence"), Raised(l), Raised(l))
    BY <1>4 DEF InsertToolCall, l, d
  <2> QED BY <1>2, <2>1, StoreCallLeads
<1>5. CASE StartToolCall(r)
  <2>1. StoreCall(r, ToolCallStartable(d), ToolCallStarted(d), At(l, "dispatch"), Raised(l),
                  Raised(l))
    BY <1>5 DEF StartToolCall, l, d
  <2> QED BY <1>2, <2>1, StoreCallLeads
<1>6. CASE DispatchRead(r)
  <2> DEFINE ok == [l EXCEPT !.pc = "await_order", !.reads = @ + 1]
  <2>1. Local(r, ok)
    BY <1>6 DEF DispatchRead, l
  <2>2. ok.pc \in QuietTo
    BY <1>1, <1>3 DEF Handler
  <2> HIDE DEF ok
  <2> QED BY <2>1, <2>2, LocalLeads
<1>7. CASE OrderAnswer(r)
  <2> DEFINE answered(outcome) == [l EXCEPT !.pc = "finalize_tool", !.outcome = outcome]
  <2>1. \/ \E outcome \in Outcome \ {"NONE"} : Local(r, answered(outcome))
        \/ Local(r, At(l, "interrupt_tool")) \/ Local(r, Raised(l))
    BY <1>7 DEF OrderAnswer, l
  <2>2. \A outcome : answered(outcome).pc \in QuietTo
    BY <1>1, <1>3 DEF Handler
  <2> HIDE DEF answered
  <2> QED BY <1>2, <2>1, <2>2, LocalLeads
<1>8. CASE FinalizeToolCall(r)
  <2> DEFINE next == IF l.outcome = "FOUND" THEN "save_observation" ELSE "tool_created"
  <2>1. StoreCall(r, ToolCallFinalizable(d), ToolCallFinalized(d, TerminalStatus(l.outcome)),
                  At(l, next), Raised(l), Raised(l))
    BY <1>8 DEF FinalizeToolCall, l, d
  <2>2. At(l, next).pc \in QuietTo
    BY <1>2
  <2> HIDE DEF next
  <2> QED BY <1>2, <2>1, <2>2, StoreCallLeads
<1>9. CASE SaveObservation(r)
  <2>1. StoreCall(r, ObservationSourced(d), ObservationSaved(d), At(l, "tool_created"),
                  Raised(l), Raised(l))
    BY <1>9 DEF SaveObservation, l, d
  <2> QED BY <1>2, <2>1, StoreCallLeads
<1>10. CASE InterruptToolCall(r)
  <2>1. StoreCall(r, ToolCallFinalizable(d), ToolCallFinalized(d, "INTERRUPTED"),
                  At(l, "interrupt_trace"), Raised(l), Raised(l))
    BY <1>10 DEF InterruptToolCall, l, d
  <2> QED BY <1>2, <2>1, StoreCallLeads
<1>11. CASE TraceInterruption(r)
  <2>1. StoreCall(r, TRUE, Written(d, "ToolCallInterrupted"), Raised(l), Raised(l), Raised(l))
    BY <1>11 DEF TraceInterruption, l, d
  <2> QED BY <1>2, <2>1, StoreCallLeads
<1> QED BY <1>4, <1>5, <1>6, <1>7, <1>8, <1>9, <1>10, <1>11

\* From the plan to the rendered text.
LEMMA AnswerLeads ==
  ASSUME IndInv, NEW r \in Runs, PlanPresentation(r) \/ Render(r)
  PROVE  /\ PlanPresentation(r) => Leads(r, QuietTo \cup {"plan_proposed"})
         /\ Render(r) => Leads(r, QuietTo)
<1> DEFINE l == h[r]
           to(stop) == [l EXCEPT !.pc = "response_rendered", !.stop = stop]
<1>1. l \in Handler
  BY IndInvGood
<1>2. /\ Raised(l).pc \in QuietTo /\ "response_rendered" \in QuietTo
      /\ At(l, "plan_proposed").pc = "plan_proposed"
  BY <1>1, QuietPoint
  DEF QuietTo, PlanPoint, UnbriefedPoint, AuthorizedPoint, Point, ServicePoint, PlainPoint
<1>3. \A stop : to(stop).pc \in QuietTo
  BY <1>1, <1>2 DEF Handler
<1>4. ASSUME PlanPresentation(r) PROVE Leads(r, QuietTo \cup {"plan_proposed"})
  <2>1. \/ Local(r, At(l, "plan_proposed")) \/ Local(r, Raised(l))
        \/ Local(r, to("PROVIDER_PROTOCOL_ERROR"))
    BY <1>4 DEF PlanPresentation
  <2> HIDE DEF l, to
  <2> QED BY <1>2, <1>3, <2>1, LocalLeads
<1>5. ASSUME Render(r) PROVE Leads(r, QuietTo)
  <2>1. \E stop : Local(r, to(stop))
    BY <1>5 DEF Render
  <2> HIDE DEF l, to
  <2> QED BY <1>3, <2>1, LocalLeads
<1> QED BY <1>4, <1>5

-------------------------------------------------------------------------------
(* Records grow, and the documents stay filed.                              *)

\* Nothing an event can name is taken away.
Grows(d, e) ==
  /\ d.documents \subseteq e.documents
  /\ d.task # NoRow => e.task # NoRow
  /\ d.tool # "ABSENT" => e.tool # "ABSENT"
  /\ d.observation => e.observation

LEMMA WriteGrows ==
  ASSUME NEW d, NEW e, Kept(d), Write(d, e)
  PROVE  Grows(d, e)
<1>1. d \in Aggregate
  BY DEF Kept
<1>2. CASE \E w \in Document \cup TraceEventType : e = Written(d, w)
  BY <1>1, <1>2 DEF Written, Aggregate, Grows
<1>3. CASE e \in {RunInserted(d), RunStarted(d), ToolCallStarted(d), ObservationSaved(d),
                  ToolCallInserted(d, InitialRow.version)}
  BY <1>1, <1>3
  DEF RunInserted, RunStarted, ToolCallInserted, ToolCallStarted, ObservationSaved,
      Aggregate, Grows
<1>4. CASE e \in {GraphCreated(d),
                  TaskTransitioned(d, InitialRow, InitialRow, "WAITING_USER")}
  <2>1. /\ e.documents = d.documents /\ e.observation = d.observation /\ e.tool = d.tool
        /\ e.task \in {InitialRow, Moved(InitialRow, "WAITING_USER")}
    BY <1>1, <1>4 DEF GraphCreated, TaskTransitioned, Aggregate
  <2>2. e.task # NoRow
    BY <2>1 DEF Moved, InitialRow, NoRow
  <2> QED BY <2>1, <2>2 DEF Grows
<1>8. CASE \E task : e = RunFailed(d, task)
  BY <1>1, <1>8 DEF RunFailed, LinkClosed, Aggregate, Grows
<1>5. CASE \E status \in ToolCallStatus \ ActiveToolCall : e = ToolCallFinalized(d, status)
  BY <1>1, <1>5 DEF ToolCallFinalized, ToolCallStatus, Aggregate, Grows
<1>6. CASE \E links, task, unit : \E stop \in CompletionReason :
             RunFinalizable(d, links, task, unit) /\ e = RunCompleted(d, stop, task, unit)
  <2>1. PICK links, task, unit : \E stop \in CompletionReason :
               RunFinalizable(d, links, task, unit)
                 /\ e = RunCompleted(d, stop, task, unit)
    BY <1>6
  <2>2. PICK stop \in CompletionReason :
               RunFinalizable(d, links, task, unit)
                 /\ e = RunCompleted(d, stop, task, unit)
    BY <2>1
  <2>3. e.documents = d.documents /\ e.tool = d.tool /\ e.observation = d.observation
    BY <1>1, <2>2 DEF RunCompleted, TaskTransitioned, LinkClosed, Aggregate
  <2>4. d.task # NoRow => e.task # NoRow
    BY <1>1, <2>2
    DEF RunFinalizable, RunCompleted, TaskTransitioned, LinkClosed, Aggregate, Moved,
        TargetStatus, NoRow
  <2> QED BY <2>3, <2>4 DEF Grows
<1>7. CASE e = Recovered(d)
  <2>1. /\ e.documents = d.documents /\ e.observation = d.observation
        /\ e.tool \in {d.tool, "INTERRUPTED"}
    BY <1>1, <1>7 DEF Recovered, LinkClosed, Aggregate
  <2>2. d.task # NoRow => e.task # NoRow
    BY <1>1, <1>7 DEF Recovered, LinkClosed, Aggregate, Moved, NoRow
  <2> QED BY <2>1, <2>2 DEF Grows
<1> QED BY <1>2, <1>3, <1>4, <1>5, <1>6, <1>7, <1>8 DEF Write, Alter

LEMMA StepGrows ==
  ASSUME IndInv, [Next]_vars, NEW q \in Runs
  PROVE  Grows(db[q], db'[q])
<1>1. db \in [Runs -> Aggregate] /\ Kept(db[q])
  BY IndInvGood DEF Good
<1>2. ASSUME NEW r \in Runs, NEW e, Write(db[r], e), db' = [db EXCEPT ![r] = e]
      PROVE  Grows(db[q], db'[q])
  <2>1. CASE q = r
    BY <1>1, <1>2, <2>1, WriteGrows
  <2>2. CASE q # r
    BY <1>1, <1>2, <2>2 DEF Grows
  <2> QED BY <2>1, <2>2
<1>3. CASE db' = db
  BY <1>3 DEF Grows
<1> QED BY <1>2, <1>3, StepWrites DEF Writes

LEMMA QuietFiled ==
  ASSUME NEW l, NEW m, NEW d, NEW e, Filed(l, d), d.documents \subseteq e.documents,
         m.pc \notin {"gate_recorded"} \cup PlanPoint \cup AuthorizedPoint
           \/ (m.pc = "plan_proposed" /\ l.pc = "plan")
           \/ (m.pc = "insert_tool" /\ l.pc = "authorize"),
         m.pc \in BriefedPoint => l.pc \in BriefedPoint
  PROVE  Filed(m, e)
  BY DEF Filed, PlanPoint, AuthorizedPoint

\* A plain insert files the document its point is about.
LEMMA PlainFiled ==
  ASSUME IndInv, [Next]_vars, NEW r \in Runs, Filed(h[r], db[r]), PlainWrite(r)
  PROVE  Filed(h'[r], db'[r])
<1> DEFINE l == h[r]
           d == db[r]
           m == [l EXCEPT !.pc = NextPoint(l),
                          !.stop = IF l.pc = "tool_normalized" /\ l.outcome # "FOUND"
                                   THEN ReadStop(l.outcome) ELSE @]
           e == Written(d, WriteAt(l))
<1>1. l \in Handler /\ d \in Aggregate /\ h \in [Runs -> Handler] /\ db \in [Runs -> Aggregate]
  BY IndInvGood
<1>2. m.pc = NextPoint(l)
  BY <1>1 DEF Handler
<1>3. l.pc \in PlainPoint /\ StoreCall(r, TRUE, e, m, m, Raised(l))
  BY DEF PlainWrite
<1>4. d.documents \subseteq db'[r].documents
  BY StepGrows DEF Grows
<1> HIDE DEF m
<1>5. CASE h' = [h EXCEPT ![r] = m] /\ db' = [db EXCEPT ![r] = e]
  <2>1. h'[r] = m /\ db'[r] = e
    BY <1>1, <1>5
  <2>2. CASE l.pc = "save_manifest"
    <3>1. m.pc = "manifest_recorded" /\ WriteAt(l) = "UNDERSTANDING_MANIFEST"
      BY <1>2, <2>2 DEF NextPoint, WriteAt
    <3>2. "UNDERSTANDING_MANIFEST" \in e.documents
      BY <1>1, <3>1 DEF Written, Document, Aggregate
    <3> QED BY <2>1, <3>1, <3>2 DEF Filed, PlanPoint, AuthorizedPoint
  <2>3. CASE l.pc = "save_plan_manifest"
    <3>1. m.pc = "plan_manifest_recorded" /\ WriteAt(l) = "PRESENTATION_MANIFEST"
      BY <1>2, <2>3 DEF NextPoint, WriteAt
    <3>2. "PRESENTATION_MANIFEST" \in e.documents
      BY <1>1, <3>1 DEF Written, Document, Aggregate
    <3>3. l.pc \in BriefedPoint
      BY <2>3 DEF BriefedPoint, ServicePoint, PlainPoint
    <3> QED BY <1>4, <2>1, <3>1, <3>2, <3>3 DEF Filed, AuthorizedPoint
  <2>4. CASE l.pc \notin {"save_manifest", "save_plan_manifest"}
    <3>1. /\ m.pc \in PlanPoint => l.pc \in PlanPoint
          /\ m.pc \in BriefedPoint => l.pc \in BriefedPoint
          /\ m.pc # "gate_recorded"
          /\ m.pc \in AuthorizedPoint => l.pc = "gate_recorded"
      BY <1>2, <1>3, <2>4
      DEF NextPoint, PlanPoint, AuthorizedPoint, BriefedPoint, ServicePoint, ExecutorPoint,
          PlainPoint
    <3> QED BY <1>4, <2>1, <3>1 DEF Filed
  <2> QED BY <2>2, <2>3, <2>4
<1>6. CASE h' = [h EXCEPT ![r] = Raised(l)]
  <2>1. h'[r].pc \in RaisedTo
    BY <1>1, <1>6, RaisedPoint
  <2> QED BY <2>1 DEF Filed, RaisedTo, BriefedPoint, ServicePoint, PlainPoint, ExecutorPoint,
                      PlanPoint, AuthorizedPoint
<1> QED BY <1>3, <1>5, <1>6 DEF StoreCall

LEMMA GateFiled ==
  ASSUME IndInv, [Next]_vars, NEW r \in Runs, Filed(h[r], db[r]), SaveGateDecision(r)
  PROVE  Filed(h'[r], db'[r])
<1> DEFINE l == h[r]
           d == db[r]
           ok(stop) == [l EXCEPT !.pc = "gate_recorded", !.stop = stop]
           e == Written(d, "GATE_DECISION")
<1>1. l \in Handler /\ d \in Aggregate /\ h \in [Runs -> Handler] /\ db \in [Runs -> Aggregate]
  BY IndInvGood
<1>2. d.documents \subseteq db'[r].documents
  BY StepGrows DEF Grows
<1>3. "UNDERSTANDING_MANIFEST" \in d.documents
  BY DEF SaveGateDecision, Filed, BriefedPoint, ServicePoint
<1>4. PICK stop : StoreCall(r, TRUE, e, ok(stop), l, Raised(l))
  BY DEF SaveGateDecision
<1>5. "GATE_DECISION" \in e.documents /\ ok(stop).pc = "gate_recorded"
  BY <1>1 DEF Written, Document, Aggregate, Handler
<1> HIDE DEF ok
<1>6. CASE h' = [h EXCEPT ![r] = ok(stop)] /\ db' = [db EXCEPT ![r] = e]
  BY <1>1, <1>2, <1>3, <1>5, <1>6 DEF Filed, PlanPoint, AuthorizedPoint
<1>7. CASE h' = [h EXCEPT ![r] = Raised(l)]
  <2>1. h'[r].pc \in RaisedTo
    BY <1>1, <1>7, RaisedPoint
  <2> QED BY <2>1 DEF Filed, RaisedTo, BriefedPoint, ServicePoint, PlainPoint, ExecutorPoint,
                      PlanPoint, AuthorizedPoint
<1> QED BY <1>4, <1>6, <1>7 DEF StoreCall
-------------------------------------------------------------------------------
(* Every step keeps TraceInv.                                               *)

LEMMA FiledGrows ==
  ASSUME NEW l, NEW d, NEW e, Filed(l, d), d.documents \subseteq e.documents
  PROVE  Filed(l, e)
  BY DEF Filed

\* The step of a handler that leads to points whose documents were filed before.
LEMMA LeadsFiled ==
  ASSUME IndInv, [Next]_vars, NEW r \in Runs, Filed(h[r], db[r]), NEW S, Leads(r, S),
         \/ S \subseteq QuietTo
         \/ S \cap BriefedPoint = {}
         \/ S = QuietTo \cup {"plan_proposed"} /\ h[r].pc = "plan"
         \/ S = RaisedTo \cup {"insert_tool"} /\ h[r].pc = "authorize",
         S \cap BriefedPoint # {} => h[r].pc \in BriefedPoint
  PROVE  Filed(h'[r], db'[r])
<1>1. h \in [Runs -> Handler]
  BY IndInvGood
<1>2. PICK m : h' = [h EXCEPT ![r] = m] /\ m.pc \in S
  BY DEF Leads
<1>3. h'[r] = m /\ db[r].documents \subseteq db'[r].documents
  BY <1>1, <1>2, StepGrows DEF Grows
<1>4. {"gate_recorded"} \cup PlanPoint \cup AuthorizedPoint \subseteq BriefedPoint
  BY DEF BriefedPoint, PlanPoint, AuthorizedPoint, ServicePoint, PlainPoint, ExecutorPoint
<1>5. /\ m.pc \notin {"gate_recorded"} \cup PlanPoint \cup AuthorizedPoint
           \/ (m.pc = "plan_proposed" /\ h[r].pc = "plan")
           \/ (m.pc = "insert_tool" /\ h[r].pc = "authorize")
      /\ m.pc \in BriefedPoint => h[r].pc \in BriefedPoint
  BY <1>2, <1>4 DEF QuietTo, RaisedTo, PlanPoint, AuthorizedPoint
<1> QED BY <1>3, <1>5, QuietFiled

\* A handler touches its own state alone.
LEMMA HandlerOwn ==
  ASSUME IndInv, NEW r \in Runs, HandlerStep(r), NEW q \in Runs, q # r
  PROVE  h'[q] = h[q]
<1>1. h \in [Runs -> Handler]
  BY IndInvGood
<1>2. ASSUME NEW S, Leads(r, S) PROVE h'[q] = h[q]
  BY <1>1, <1>2 DEF Leads
<1> QED BY <1>2, EntryLeads, PlainLeads, GraphLeads, GateLeads, AuthorizeLeads, ToolLeads,
           AnswerLeads, ClosingLeads
        DEF HandlerStep

LEMMA HandlerFiled ==
  ASSUME IndInv, [Next]_vars, NEW r \in Runs, Filed(h[r], db[r]), HandlerStep(r)
  PROVE  Filed(h'[r], db'[r])
<1>1. CASE PlainWrite(r)
  BY <1>1, PlainFiled
<1>2. CASE SaveGateDecision(r)
  BY <1>2, GateFiled
<1>3. CASE \/ Intake(r) \/ InsertRun(r) \/ StartRun(r) \/ FinalizeRun(r)
           \/ ReloadTask(r) \/ CloseFailedRun(r)
  <2> DEFINE S == {"insert_run", "start_run", "message_accepted"} \cup RaisedTo
             T == {"returned"} \cup RaisedTo
  <2>1. S \cap BriefedPoint = {} /\ T \cap BriefedPoint = {}
    BY DEF BriefedPoint, RaisedTo, ServicePoint, PlainPoint, ExecutorPoint
  <2>2. Leads(r, S) \/ Leads(r, T)
    BY <1>3, EntryLeads, ClosingLeads
  <2> HIDE DEF S, T
  <2> QED BY <2>1, <2>2, LeadsFiled
<1>4. CASE \/ ProposeNextMove(r) \/ CreateInitialTaskGraph(r) \/ Hook(r) \/ LoadTask(r)
           \/ LoadUnit(r)
  <2>1. h[r].pc \in BriefedPoint
    BY <1>4
    DEF ProposeNextMove, CreateInitialTaskGraph, Hook, LoadTask, LoadUnit, BriefedPoint,
        ServicePoint
  <2> QED BY <1>4, <2>1, GraphLeads, LeadsFiled
<1>8. CASE Authorize(r)
  <2>1. h[r].pc = "authorize" /\ "authorize" \in BriefedPoint
    BY <1>8 DEF Authorize, BriefedPoint, ServicePoint
  <2> QED BY <1>8, <2>1, AuthorizeLeads, LeadsFiled
<1>5. CASE \/ InsertToolCall(r) \/ StartToolCall(r) \/ DispatchRead(r) \/ OrderAnswer(r)
           \/ FinalizeToolCall(r) \/ SaveObservation(r) \/ InterruptToolCall(r)
           \/ TraceInterruption(r)
  <2>1. h[r].pc \in BriefedPoint
    BY <1>5
    DEF InsertToolCall, StartToolCall, DispatchRead, OrderAnswer, FinalizeToolCall,
        SaveObservation, InterruptToolCall, TraceInterruption, BriefedPoint, ExecutorPoint
  <2> QED BY <1>5, <2>1, ToolLeads, LeadsFiled
<1>6. CASE PlanPresentation(r)
  <2>1. h[r].pc = "plan"
    BY <1>6 DEF PlanPresentation
  <2>2. "plan" \in BriefedPoint
    BY DEF BriefedPoint, ServicePoint
  <2> QED BY <1>6, <2>1, <2>2, AnswerLeads, LeadsFiled
<1>7. CASE Render(r)
  <2>1. h[r].pc \in BriefedPoint
    BY <1>7 DEF Render, BriefedPoint, ServicePoint
  <2> QED BY <1>7, <2>1, AnswerLeads, LeadsFiled
<1> QED BY <1>1, <1>2, <1>3, <1>4, <1>5, <1>6, <1>7, <1>8 DEF HandlerStep

LEMMA FiledStep ==
  ASSUME IndInv, TraceInv, [Next]_vars
  PROVE  TraceInv'
<1> SUFFICES ASSUME NEW q \in Runs PROVE Filed(h'[q], db'[q])
  BY DEF TraceInv
<1>1. Filed(h[q], db[q]) /\ db[q].documents \subseteq db'[q].documents
  BY StepGrows DEF TraceInv, Grows
<1>2. CASE h'[q] = h[q]
  BY <1>1, <1>2, FiledGrows
<1>3. CASE h'[q].pc \in {"intake", "dead"}
  BY <1>3 DEF Filed, BriefedPoint, PlanPoint, AuthorizedPoint, ServicePoint, PlainPoint,
              ExecutorPoint
<1>4. h \in [Runs -> Handler]
  BY IndInvGood
<1>5. ASSUME NEW r \in Runs, HandlerStep(r) PROVE Filed(h'[q], db'[q])
  BY <1>1, <1>2, <1>5, HandlerFiled, HandlerOwn
<1>6. ASSUME NEW r \in Runs, NEW p \in Procs, Accept(r, p) PROVE Filed(h'[q], db'[q])
  <2>1. h'[q] = h[q] \/ h'[q].pc = "intake"
    BY <1>4, <1>6 DEF Accept, Local, Handler
  <2> QED BY <1>2, <1>3, <2>1
<1>7. ASSUME NEW p \in Procs, Crash(p) PROVE Filed(h'[q], db'[q])
  <2>1. h'[q] = h[q] \/ h'[q].pc = "dead"
    BY <1>4, <1>7, AtPoint DEF Crash
  <2> QED BY <1>2, <1>3, <2>1
<1>8. ASSUME NEW p \in Procs, StartupStep(p) \/ Shutdown(p) PROVE Filed(h'[q], db'[q])
  BY <1>2, <1>8 DEF StartupStep, Boot, LoadClosure, ClaimAndApply, Shutdown
<1>9. CASE UNCHANGED vars
  BY <1>2, <1>9 DEF vars
<1> QED BY <1>5, <1>6, <1>7, <1>8, <1>9 DEF Next

-------------------------------------------------------------------------------
(* Every step keeps the Trace true.                                         *)

\* The event a handler inserts at each point is true by then.
LEMMA PlainTold ==
  ASSUME NEW l, NEW d, Good(l, d), Filed(l, d), l.pc \in PlainPoint
  PROVE  Told(WriteAt(l), d)
<1>1. /\ d.run \in {"RUNNING", "INCOMPLETE"} /\ ToolConsistent(d) /\ GraphConsistent(d)
      /\ Stage(l, d) /\ ToolAt(l, d) /\ l \in Handler
  BY RunningStage DEF ServicePoint, Good
<1>2. /\ l.pc = "delta_accepted" => d.task # NoRow
      /\ l.pc \in {"tool_started", "tool_ended"} =>
           d.tool = TerminalStatus(l.outcome) /\ d.attempts = 1
      /\ l.pc = "observation_recorded" => d.observation
  BY <1>1
  DEF Stage, ToolAt, GraphConsistent, ToolConsistent, GraphPoint, DecidingPoint, ReadPoint,
      ObservedPoint, TerminalStatus
<1>3. /\ l.pc \in {"manifest_recorded", "plan_manifest_recorded"} =>
           "UNDERSTANDING_MANIFEST" \in d.documents
      /\ l.pc = "plan_proposed" => "PRESENTATION_MANIFEST" \in d.documents
      /\ l.pc = "gate_recorded" => "GATE_DECISION" \in d.documents
  BY DEF Filed, BriefedPoint, PlanPoint, ServicePoint, PlainPoint
<1>4. CASE l.pc = "tool_ended"
  BY <1>2, <1>4 DEF WriteAt, TerminalEvent, TerminalStatus, Told
<1>5. CASE l.pc # "tool_ended"
  BY <1>1, <1>2, <1>3, <1>5 DEF WriteAt, Told, PlainPoint
<1> QED BY <1>4, <1>5

LEMMA AltersTruthful ==
  ASSUME IndInv, NEW r \in Runs, Alters(r), NEW q \in Runs, Truthful(db[q])
  PROVE  Truthful(db'[q])
<1>1. db \in [Runs -> Aggregate] /\ Kept(db[q])
  BY IndInvGood DEF Good
<1>2. CASE db' = db
  BY <1>2
<1>3. ASSUME NEW e, Alter(db[r], e), db' = [db EXCEPT ![r] = e]
      PROVE  Truthful(db'[q])
  <2>1. CASE q = r
    BY <1>1, <1>3, <2>1, AlterTruthful
  <2>2. CASE q # r
    BY <1>1, <1>3, <2>2
  <2> QED BY <2>1, <2>2
<1> QED BY <1>2, <1>3 DEF Alters

\* An event that is true is inserted, or nothing is.
LEMMA InsertTruthful ==
  ASSUME IndInv, NEW r \in Runs, NEW w \in TraceEventType, Told(w, db[r]),
         db' = db \/ db' = [db EXCEPT ![r] = Written(db[r], w)],
         NEW q \in Runs, Truthful(db[q])
  PROVE  Truthful(db'[q])
<1>1. db \in [Runs -> Aggregate]
  BY IndInvGood
<1> QED BY <1>1, AppendTruthful

LEMMA TruthStep ==
  ASSUME IndInv, TraceInv, [Next]_vars, NEW q \in Runs, Truthful(db[q])
  PROVE  Truthful(db'[q])
<1>1. ASSUME NEW r \in Runs, PlainWrite(r) PROVE Truthful(db'[q])
  <2> DEFINE w == WriteAt(h[r])
  <2>1. Good(h[r], db[r]) /\ Filed(h[r], db[r]) /\ h[r].pc \in PlainPoint
    BY <1>1, IndInvGood DEF TraceInv, PlainWrite
  <2>2. Told(w, db[r]) /\ w \in Document \cup TraceEventType
    BY <2>1, PlainTold, WriteAtType
  <2>3. db' = db \/ db' = [db EXCEPT ![r] = Written(db[r], w)]
    BY <1>1 DEF PlainWrite, StoreCall
  <2> HIDE DEF w
  <2>4. CASE w \in Document
    BY <2>3, <2>4, AltersTruthful DEF Alters, Alter
  <2>5. CASE w \in TraceEventType
    BY <2>2, <2>3, <2>5, InsertTruthful
  <2> QED BY <2>2, <2>4, <2>5
<1>2. ASSUME NEW r \in Runs, TraceInterruption(r) PROVE Truthful(db'[q])
  <2> DEFINE w == "ToolCallInterrupted"
  <2>1. db[r].tool = "INTERRUPTED"
    BY <1>2, IndInvGood DEF TraceInterruption, Good, ToolAt
  <2>2. Told(w, db[r]) /\ w \in TraceEventType
    BY <2>1 DEF Told, TraceEventType
  <2>3. db' = db \/ db' = [db EXCEPT ![r] = Written(db[r], w)]
    BY <1>2 DEF TraceInterruption, StoreCall
  <2> QED BY <2>2, <2>3, InsertTruthful
<1>3. ASSUME NEW r \in Runs, HandlerStep(r) PROVE Truthful(db'[q])
  BY <1>1, <1>2, <1>3, HandlerWrites, AltersTruthful
<1>4. CASE db' = db
  BY <1>4
<1>5. ASSUME NEW p \in Procs, StartupStep(p) \/ Shutdown(p) \/ Crash(p)
      PROVE  Truthful(db'[q])
  BY <1>4, <1>5, ProcessWrites, AltersTruthful
<1>6. CASE \E r \in Runs, p \in Procs : Accept(r, p)
  BY <1>4, <1>6 DEF Accept, Local
<1>7. CASE UNCHANGED vars
  BY <1>4, <1>7 DEF vars
<1> QED BY <1>3, <1>5, <1>6, <1>7 DEF Next

\* Whatever point a handler dies at and whoever closes its Run, no Trace event
\* is ahead of the record it speaks about, and a terminal ToolCall event names
\* the status the ToolCall has.
THEOREM TraceTellsTruthHolds == Spec => []TraceTellsTruth
<1> DEFINE Inv == TraceInv /\ \A r \in Runs : Truthful(db[r])
<1>1. Init => Inv
  BY DEF Init, TraceInv, Filed, IdleHandler, NoRecords, Truthful, Traced, BriefedPoint,
         PlanPoint, AuthorizedPoint, ServicePoint, PlainPoint, ExecutorPoint
<1>2. IndInv /\ Inv /\ [Next]_vars => Inv'
  BY FiledStep, TruthStep
<1>3. Inv => TraceTellsTruth
  BY DEF TraceTellsTruth, Truthful
<1> QED BY <1>1, <1>2, <1>3, AgentRunInvariant, PTL DEF Spec
-------------------------------------------------------------------------------
(* Recovery before service, with one process.                               *)

\* No call of a handler kills it.
LEMMA HandlerLives ==
  ASSUME IndInv, NEW r \in Runs, HandlerStep(r)
  PROVE  h'[r].pc # "dead"
<1>1. h \in [Runs -> Handler]
  BY IndInvGood
<1>2. ASSUME NEW S, Leads(r, S), "dead" \notin S PROVE h'[r].pc # "dead"
  BY <1>1, <1>2 DEF Leads
<1>3. "dead" \notin QuietTo \cup RaisedTo
  BY DEF QuietTo, RaisedTo
<1>4. \A point \in {"insert_run", "start_run", "message_accepted", "gate_recorded",
                  "insert_tool", "returned", NextPoint(h[r])} \cup RaisedTo : point # "dead"
  BY DEF RaisedTo, NextPoint
<1> QED BY <1>2, <1>3, <1>4, EntryLeads, PlainLeads, GraphLeads, GateLeads, AuthorizeLeads,
           ToolLeads, AnswerLeads, ClosingLeads
        DEF HandlerStep

\* The records of the other Runs stay.
LEMMA HandlerWritesOwn ==
  ASSUME IndInv, NEW r \in Runs, HandlerStep(r), NEW q \in Runs, q # r
  PROVE  db'[q] = db[q]
<1>1. db \in [Runs -> Aggregate]
  BY IndInvGood
<1>2. CASE PlainWrite(r) \/ TraceInterruption(r)
  BY <1>1, <1>2 DEF PlainWrite, TraceInterruption, StoreCall
<1> QED BY <1>1, <1>2, HandlerWrites DEF Alters

\* A deployment with one server process serves only after recovery has closed
\* every Run whose handler died with an earlier process.
THEOREM RecoveredBeforeServingHolds ==
  ASSUME \A p, q \in Procs : p = q
  PROVE  Spec => []RecoveredBeforeServing
<1>1. Init => RecoveredBeforeServing
  BY DEF Init, RecoveredBeforeServing, IdleHandler
<1>2. IndInv /\ RecoveredBeforeServing /\ [Next]_vars => RecoveredBeforeServing'
  <2> SUFFICES ASSUME IndInv, RecoveredBeforeServing, [Next]_vars,
                      NEW p \in Procs, NEW r \in Runs,
                      phase'[p] = "serving", h'[r].pc = "dead"
               PROVE  db'[r].run \notin ActiveRun
    BY DEF RecoveredBeforeServing
  <2>1. h \in [Runs -> Handler] /\ phase \in [Procs -> Phase]
    BY IndInvGood DEF Frame
  <2>2. CASE phase'[p] = phase[p] /\ h'[r] = h[r] /\ db'[r] = db[r]
    BY <2>2 DEF RecoveredBeforeServing
  <2>3. ASSUME NEW q \in Runs, HandlerStep(q) PROVE db'[r].run \notin ActiveRun
    <3>1. phase' = phase
      BY <2>3
      DEF HandlerStep, Intake, InsertRun, StartRun, PlainWrite, ProposeNextMove,
          CreateInitialTaskGraph, Hook, LoadTask, LoadUnit, SaveGateDecision, Authorize,
          InsertToolCall, StartToolCall, DispatchRead, OrderAnswer, FinalizeToolCall,
          SaveObservation, InterruptToolCall, TraceInterruption, PlanPresentation, Render,
          FinalizeRun, ReloadTask, CloseFailedRun, StoreCall, Local
    <3> QED BY <2>2, <2>3, <3>1, HandlerLives, HandlerOwn, HandlerWritesOwn
  <2>4. ASSUME NEW q \in Runs, NEW x \in Procs, Accept(q, x)
        PROVE  db'[r].run \notin ActiveRun
    <3>1. /\ phase' = phase /\ db' = db
          /\ h' = [h EXCEPT ![q] = [h[q] EXCEPT !.pc = "intake", !.host = x]]
      BY <2>4 DEF Accept, Local
    <3>2. r # q
      BY <2>1, <3>1 DEF Handler
    <3> QED BY <2>1, <2>2, <3>1, <3>2
  <2>5. ASSUME NEW x \in Procs, StartupStep(x) \/ Shutdown(x) \/ Crash(x)
        PROVE  db'[r].run \notin ActiveRun
    <3>1. x = p
      OBVIOUS
    <3>2. LoadClosure(p) /\ db' = db /\ \A q \in Runs : ~Recoverable(db[q])
      BY <2>1, <2>5, <3>1
      DEF StartupStep, Boot, LoadClosure, ClaimAndApply, Shutdown, Crash
    <3> QED BY <3>2 DEF Recoverable
  <2>6. CASE UNCHANGED vars
    BY <2>2, <2>6 DEF vars
  <2> QED BY <2>3, <2>4, <2>5, <2>6 DEF Next
<1> QED BY <1>1, <1>2, AgentRunInvariant, PTL DEF Spec

-------------------------------------------------------------------------------
(* A plain write names rows that are stored.                                *)

\* What a step does to the handler and to the records of one Run.
LEMMA RecordStep ==
  ASSUME IndInv, [Next]_vars, NEW q \in Runs
  PROVE  \/ HandlerStep(q)
         \/ /\ h'[q] = h[q] \/ h'[q].pc = "dead" \/ h[q].pc = "idle"
            /\ \/ db'[q] = db[q]
               \/ Recoverable(db[q]) /\ db'[q] = Recovered(db[q])
<1>1. db \in [Runs -> Aggregate] /\ h \in [Runs -> Handler]
  BY IndInvGood
<1>2. CASE \E r \in Runs : HandlerStep(r)
  BY <1>2, HandlerOwn, HandlerWritesOwn
<1>3. ASSUME NEW r \in Runs, NEW p \in Procs, Accept(r, p)
      PROVE  (h'[q] = h[q] \/ h[q].pc = "idle") /\ db' = db
  BY <1>1, <1>3 DEF Accept, Local
<1>4. ASSUME NEW p \in Procs, Crash(p)
      PROVE  (h'[q] = h[q] \/ h'[q].pc = "dead") /\ db' = db
  BY <1>1, <1>4, AtPoint DEF Crash
<1>5. ASSUME NEW p \in Procs, ClaimAndApply(p)
      PROVE  /\ h' = h
             /\ db'[q] = db[q] \/ (Recoverable(db[q]) /\ db'[q] = Recovered(db[q]))
  <2> DEFINE r == claim[p].run
  <2>1. /\ h' = h
        /\ \/ db' = db
           \/ Recoverable(db[r]) /\ db' = [db EXCEPT ![r] = Recovered(db[r])]
    BY <1>5 DEF ClaimAndApply
  <2> HIDE DEF r
  <2> QED BY <1>1, <2>1
<1>6. ASSUME NEW p \in Procs, Boot(p) \/ LoadClosure(p) \/ Shutdown(p)
      PROVE  h' = h /\ db' = db
  BY <1>6 DEF Boot, LoadClosure, Shutdown
<1>7. CASE UNCHANGED vars
  BY <1>7 DEF vars
<1> QED BY <1>2, <1>3, <1>4, <1>5, <1>6, <1>7 DEF Next, StartupStep

\* Only a plain write files a document, and only insert_tool_call a ToolCall.
Quiet(d, e) == e.documents = d.documents /\ (d.tool = "ABSENT" => e.tool = "ABSENT")

LEMMA StoreCallQuiet ==
  ASSUME IndInv, NEW r \in Runs, NEW applies, NEW committed, NEW ok, NEW refused, NEW error,
         StoreCall(r, applies, committed, ok, refused, error),
         applies => Quiet(db[r], committed)
  PROVE  Quiet(db[r], db'[r])
<1>1. db \in [Runs -> Aggregate]
  BY IndInvGood
<1> QED BY <1>1 DEF StoreCall, Quiet

LEMMA HandlerQuiet ==
  ASSUME IndInv, NEW r \in Runs, HandlerStep(r),
         ~PlainWrite(r), ~SaveGateDecision(r), ~InsertToolCall(r)
  PROVE  Quiet(db[r], db'[r])
<1> DEFINE d == db[r]
           l == h[r]
<1>1. d \in Aggregate
  BY IndInvGood
<1>2. CASE \/ ProposeNextMove(r) \/ Authorize(r) \/ DispatchRead(r) \/ OrderAnswer(r)
           \/ PlanPresentation(r) \/ Render(r) \/ (Hook(r) /\ db' = db)
  BY <1>2 DEF ProposeNextMove, Authorize, DispatchRead, OrderAnswer, PlanPresentation, Render,
              Local, Quiet
<1>3. CASE \/ Intake(r) \/ LoadTask(r) \/ LoadUnit(r) \/ ReloadTask(r)
  <2>1. db' = db
    <3>1. db = [db EXCEPT ![r] = db[r]]
      BY IndInvGood
    <3> QED BY <1>3, <3>1 DEF Intake, LoadTask, LoadUnit, ReloadTask, StoreCall
  <2> QED BY <2>1 DEF Quiet
<1>4. CASE InsertRun(r)
  <2>1. Quiet(d, RunInserted(d))
    BY <1>1 DEF Quiet, RunInserted, Aggregate
  <2> HIDE DEF d
  <2> QED BY <1>4, <2>1, StoreCallQuiet DEF InsertRun, d
<1>5. CASE StartRun(r)
  <2>1. Quiet(d, RunStarted(d))
    BY <1>1 DEF Quiet, RunStarted, Aggregate
  <2> HIDE DEF d
  <2> QED BY <1>5, <2>1, StoreCallQuiet DEF StartRun, d
<1>6. CASE CreateInitialTaskGraph(r)
  <2>1. Quiet(d, GraphCreated(d))
    BY <1>1 DEF Quiet, GraphCreated, Aggregate
  <2> HIDE DEF d
  <2> QED BY <1>6, <2>1, StoreCallQuiet DEF CreateInitialTaskGraph, d
<1>7. CASE Hook(r) /\ db' # db
  <2>1. Quiet(d, TaskTransitioned(d, InitialRow, InitialRow, "WAITING_USER"))
    BY <1>1 DEF Quiet, TaskTransitioned, Aggregate
  <2>2. StoreCall(r, TransitionApplies(d, InitialRow, InitialRow),
                  TaskTransitioned(d, InitialRow, InitialRow, "WAITING_USER"),
                  At(l, "hook_changed"), Raised(l), Raised(l))
    BY <1>7 DEF Hook, Local
  <2> HIDE DEF d, l
  <2> QED BY <2>1, <2>2, StoreCallQuiet DEF d
<1>8. CASE StartToolCall(r)
  <2>1. ToolCallStartable(d) => Quiet(d, ToolCallStarted(d))
    BY <1>1 DEF Quiet, ToolCallStartable, ToolCallStarted, Aggregate
  <2> HIDE DEF d
  <2> QED BY <1>8, <2>1, StoreCallQuiet DEF StartToolCall, d
<1>9. CASE FinalizeToolCall(r) \/ InterruptToolCall(r)
  <2>1. \A status : ToolCallFinalizable(d) => Quiet(d, ToolCallFinalized(d, status))
    BY <1>1 DEF Quiet, ToolCallFinalizable, ToolCallFinalized, Aggregate
  <2>2. \E status, ok : StoreCall(r, ToolCallFinalizable(d), ToolCallFinalized(d, status),
                                  ok, Raised(l), Raised(l))
    BY <1>9 DEF FinalizeToolCall, InterruptToolCall
  <2> HIDE DEF d, l
  <2> QED BY <2>1, <2>2, StoreCallQuiet DEF d
<1>10. CASE SaveObservation(r)
  <2>1. Quiet(d, ObservationSaved(d))
    BY <1>1 DEF Quiet, ObservationSaved, Aggregate
  <2> HIDE DEF d
  <2> QED BY <1>10, <2>1, StoreCallQuiet DEF SaveObservation, d
<1>11. CASE TraceInterruption(r)
  <2>1. Quiet(d, Written(d, "ToolCallInterrupted"))
    BY <1>1 DEF Quiet, Written, Document, Aggregate
  <2> HIDE DEF d
  <2> QED BY <1>11, <2>1, StoreCallQuiet DEF TraceInterruption, d
<1>12. CASE FinalizeRun(r)
  <2>1. Quiet(d, RunCompleted(d, l.stop, l.task, l.unit))
    BY <1>1 DEF Quiet, RunCompleted, TaskTransitioned, LinkClosed, Aggregate
  <2>2. \E ok : StoreCall(r, RunFinalizable(d, LinksOf(l.cursor), l.task, l.unit),
                          RunCompleted(d, l.stop, l.task, l.unit), ok, Raised(l), Raised(l))
    BY <1>12 DEF FinalizeRun
  <2> HIDE DEF d, l
  <2> QED BY <2>1, <2>2, StoreCallQuiet DEF d
<1>13. CASE CloseFailedRun(r)
  <2>1. Quiet(d, RunFailed(d, l.cursor))
    BY <1>1 DEF Quiet, RunFailed, LinkClosed, Aggregate
  <2>2. \E ok, refused, error :
          StoreCall(r, RunFinalizable(d, LinksOf(l.cursor), l.cursor, NoRow),
                    RunFailed(d, l.cursor), ok, refused, error)
    BY <1>13 DEF CloseFailedRun
  <2> HIDE DEF d, l
  <2> QED BY <2>1, <2>2, StoreCallQuiet DEF d
<1> QED BY <1>2, <1>3, <1>4, <1>5, <1>6, <1>7, <1>8, <1>9, <1>10, <1>11, <1>12, <1>13
        DEF HandlerStep

\* What a plain insert writes names what is stored.
LEMMA PlainNamed ==
  ASSUME NEW l, NEW d, Good(l, d), Filed(l, d), l.pc \in PlainPoint
  PROVE  /\ WriteAt(l) \notin Document => Named(WriteAt(l), d)
         /\ WriteAt(l) # "GATE_DECISION"
         /\ WriteAt(l) = "PRESENTATION_MANIFEST" => d.observation
<1> DEFINE TasklessPlainPoint ==
             {"message_accepted", "run_started", "understanding_started", "save_manifest",
              "manifest_recorded", "response_rendered"}
<1>1. Stage(l, d) /\ ToolAt(l, d) /\ GraphConsistent(d)
  BY DEF Good, Kept, Consistent
<1>2. l.pc \notin TasklessPlainPoint => d.task # NoRow
  <2>1. l.pc \notin TasklessPlainPoint => l.pc \in GraphPoint
    BY DEF PlainPoint, GraphPoint, DecidingPoint, LoadedPoint, GatePoint, ReadPoint,
           ObservedPoint
  <2> QED BY <1>1, <2>1 DEF Stage, GraphConsistent
<1>3. l.pc \in ReadPoint \cup {"observation_recorded"} => d.tool # "ABSENT"
  BY <1>1 DEF ToolAt, TerminalStatus, ObservedPoint
<1>4. l.pc \in {"observation_recorded", "save_plan_manifest", "plan_proposed"} => d.observation
  BY <1>1 DEF ToolAt, ObservedPoint
<1>5. /\ l.pc \in {"manifest_recorded", "plan_manifest_recorded", "move_proposed",
                   "gate_recorded", "tool_created"} => "UNDERSTANDING_MANIFEST" \in d.documents
      /\ l.pc = "plan_proposed" => "PRESENTATION_MANIFEST" \in d.documents
  BY DEF Filed, BriefedPoint, PlanPoint, ServicePoint, PlainPoint
<1>6. CASE l.pc \in TasklessPlainPoint \cup {"save_plan_manifest"}
  <2>1. WriteAt(l) \in {"MessageAccepted", "RunStarted", "RequestUnderstandingStarted",
                        "ResponseRendered", "UNDERSTANDING_MANIFEST",
                        "PRESENTATION_MANIFEST", "ContextManifestRecorded"}
    BY <1>6 DEF WriteAt
  <2>2. /\ WriteAt(l) = "ContextManifestRecorded" => l.pc = "manifest_recorded"
        /\ WriteAt(l) = "PRESENTATION_MANIFEST" => l.pc = "save_plan_manifest"
    BY <1>6 DEF WriteAt
  <2> QED BY <1>4, <1>5, <2>1, <2>2
          DEF Named, TasklessEvent, ManifestedEvent, ToolEvent, Document
<1>7. CASE l.pc \in {"plan_manifest_recorded", "move_proposed", "delta_validated",
                    "delta_accepted", "binding_recorded", "task_changed", "hook_changed",
                    "revalidated", "gate_recorded", "plan_proposed"}
  <2>1. /\ WriteAt(l) \in {"ContextManifestRecorded", "NextMoveProposed", "TaskDeltaValidated",
                           "TaskDeltaAccepted", "InputBindingRecorded", "TaskStateChanged",
                           "NextMoveRevalidated", "GateDecisionRecorded",
                           "PresentationPlanProposed"}
        /\ WriteAt(l) \in ManifestedEvent =>
             l.pc \in {"plan_manifest_recorded", "move_proposed", "gate_recorded"}
        /\ WriteAt(l) = "PresentationPlanProposed" => l.pc = "plan_proposed"
    BY <1>7 DEF WriteAt, ManifestedEvent
  <2> QED BY <1>2, <1>4, <1>5, <1>7, <2>1 DEF Named, ToolEvent
<1>8. CASE l.pc = "tool_ended"
  <2>1. WriteAt(l) \in {"ToolCallSucceeded", "ToolCallTimedOut", "ToolCallFailed"}
    BY <1>8 DEF WriteAt, TerminalEvent
  <2> QED BY <1>2, <1>3, <1>8, <2>1
          DEF Named, ReadPoint, TasklessEvent, ManifestedEvent, ToolEvent
<1>9. CASE l.pc \in {"tool_created", "tool_started", "tool_normalized", "observation_recorded"}
  BY <1>2, <1>3, <1>4, <1>5, <1>9
  DEF WriteAt, Named, ReadPoint, TasklessEvent, ManifestedEvent, ToolEvent
<1> QED BY <1>6, <1>7, <1>8, <1>9 DEF PlainPoint

\* So does the event of an interruption, and each event of a transaction that
\* ends the Run.
LEMMA InterruptedNamed ==
  ASSUME NEW d, Kept(d), d.tool = "INTERRUPTED"
  PROVE  Named("ToolCallInterrupted", d)
  BY DEF Kept, Consistent, GraphConsistent, ToolConsistent, Named, ManifestedEvent

LEMMA AlterNamed ==
  ASSUME NEW d, NEW e, Kept(d), Kept(e), Alter(d, e),
         NEW event \in Traced(e) \ Traced(d)
  PROVE  Named(event, e)
<1>1. \/ event = "RunStopped"
      \/ event = "TaskStateChanged" /\ e.task # NoRow
      \/ event = "ToolCallInterrupted" /\ e.tool = "INTERRUPTED"
  BY NewEvents
<1> QED BY <1>1, InterruptedNamed DEF Named, TasklessEvent, ManifestedEvent, ToolEvent

LEMMA NamedGrows ==
  ASSUME NEW d, NEW e, Grows(d, e), NEW event, Named(event, d)
  PROVE  Named(event, e)
  BY DEF Grows, Named

\* The one event a plain insert may add.
LEMMA WrittenTrace ==
  ASSUME NEW d \in Aggregate, NEW w \in Document \cup TraceEventType
  PROVE  /\ Traced(Written(d, w)) \subseteq Traced(d) \cup ({w} \ Document)
         /\ w # "ContextManifestRecorded" => ManifestsAt(Written(d, w)) = ManifestsAt(d)
<1>1. d.trace \in Seq(TraceEventType)
  BY DEF Aggregate
<1>2. CASE w \in Document
  BY <1>2 DEF Written, Traced, ManifestsAt, Aggregate
<1>3. CASE w \notin Document
  <2>1. Written(d, w).trace = Append(d.trace, w) /\ w \in TraceEventType
    BY <1>3 DEF Written, Aggregate
  <2> QED BY <1>1, <1>3, <2>1, EventsAppend DEF EventsIn, PlacesIn, Traced, ManifestsAt
<1> QED BY <1>2, <1>3

\* The records of one Run are Kept, before and after a step.
LEMMA KeptStep ==
  ASSUME IndInv, [Next]_vars, NEW q \in Runs
  PROVE  Kept(db[q]) /\ Kept(db'[q])
<1>1. IndInv'
  BY NextIndInv
<1> QED BY <1>1, IndInvGood DEF IndInv, TypeOK, Kept

LEMMA NewNamed ==
  ASSUME IndInv, TraceInv, [Next]_vars, NEW q \in Runs,
         NEW event \in Traced(db'[q]) \ Traced(db[q])
  PROVE  Named(event, db'[q])
<1> DEFINE d == db[q]
           e == db'[q]
<1>1. Kept(d) /\ Kept(e) /\ Grows(d, e)
  BY KeptStep, StepGrows
<1>2. d \in Aggregate /\ db \in [Runs -> Aggregate]
  BY IndInvGood
<1>3. CASE PlainWrite(q)
  <2>1. Good(h[q], d) /\ Filed(h[q], d) /\ h[q].pc \in PlainPoint
    BY <1>3, IndInvGood DEF TraceInv, PlainWrite
  <2>2. e = d \/ e = Written(d, WriteAt(h[q]))
    BY <1>2, <1>3 DEF PlainWrite, StoreCall
  <2>3. WriteAt(h[q]) \in Document \cup TraceEventType
    BY <2>1, WriteAtType
  <2>4. event = WriteAt(h[q]) /\ event \notin Document
    BY <1>2, <2>2, <2>3, WrittenTrace
  <2> QED BY <1>1, <2>1, <2>4, PlainNamed, NamedGrows
<1>4. CASE TraceInterruption(q)
  <2>1. d.tool = "INTERRUPTED"
    BY <1>4, IndInvGood DEF TraceInterruption, Good, ToolAt
  <2>2. e = d \/ e = Written(d, "ToolCallInterrupted")
    BY <1>2, <1>4 DEF TraceInterruption, StoreCall
  <2>3. event = "ToolCallInterrupted"
    BY <1>2, <2>2, WrittenTrace DEF TraceEventType
  <2> QED BY <1>1, <2>1, <2>3, InterruptedNamed, NamedGrows
<1>5. CASE Alters(q)
  <2>1. e = d \/ Alter(d, e)
    BY <1>2, <1>5 DEF Alters
  <2> QED BY <1>1, <2>1, AlterNamed
<1>6. CASE Recoverable(d) /\ e = Recovered(d)
  BY <1>1, <1>6, AlterNamed DEF Alter
<1> QED BY <1>3, <1>4, <1>5, <1>6, RecordStep, HandlerWrites

LEMMA FilingStep ==
  ASSUME IndInv, TraceInv, [Next]_vars, NEW q \in Runs, Filing(db[q])
  PROVE  Filing(db'[q])
<1> DEFINE d == db[q]
           e == db'[q]
<1>1. Grows(d, e) /\ d \in Aggregate /\ db \in [Runs -> Aggregate]
  BY StepGrows, IndInvGood
<1>2. \A event \in Traced(e) : Named(event, e)
  BY <1>1, NewNamed, NamedGrows DEF Filing
<1>3. CASE Quiet(d, e)
  BY <1>1, <1>2, <1>3 DEF Quiet, Grows, Filing
<1>4. CASE PlainWrite(q)
  <2> DEFINE w == WriteAt(h[q])
  <2>1. w # "GATE_DECISION" /\ (w = "PRESENTATION_MANIFEST" => d.observation)
    BY <1>4, PlainNamed, IndInvGood DEF TraceInv, PlainWrite
  <2>2. e = d \/ e = Written(d, w)
    BY <1>1, <1>4 DEF PlainWrite, StoreCall
  <2> HIDE DEF w
  <2>3. e.documents \subseteq d.documents \cup {w} /\ e.tool = d.tool
    BY <1>1, <2>2 DEF Written, Aggregate
  <2> QED BY <1>1, <1>2, <2>1, <2>3 DEF Grows, Filing
<1>5. CASE SaveGateDecision(q)
  <2>1. "UNDERSTANDING_MANIFEST" \in d.documents /\ d.task # NoRow
    BY <1>5, IndInvGood
    DEF SaveGateDecision, TraceInv, Filed, BriefedPoint, ServicePoint, Good, Kept, Consistent,
        GraphConsistent, Stage, GraphPoint, LoadedPoint, GatePoint
  <2>2. e = d \/ e = Written(d, "GATE_DECISION")
    BY <1>1, <1>5 DEF SaveGateDecision, StoreCall
  <2>3. e.documents \subseteq d.documents \cup {"GATE_DECISION"} /\ e.tool = d.tool
    BY <1>1, <2>2 DEF Written, Document, Aggregate
  <2> QED BY <1>1, <1>2, <2>1, <2>3 DEF Grows, Filing
<1>6. CASE InsertToolCall(q)
  <2>1. "GATE_DECISION" \in d.documents
    BY <1>6 DEF InsertToolCall, TraceInv, Filed, AuthorizedPoint
  <2>2. e = d \/ e = ToolCallInserted(d, InitialRow.version)
    BY <1>1, <1>6 DEF InsertToolCall, StoreCall
  <2>3. e.documents = d.documents
    BY <1>1, <2>2 DEF ToolCallInserted, Aggregate
  <2> QED BY <1>1, <1>2, <2>1, <2>3 DEF Grows, Filing
<1>7. CASE e = d \/ (Recoverable(d) /\ e = Recovered(d))
  <2>1. Quiet(d, e)
    BY <1>1, <1>7 DEF Quiet, Recovered, LinkClosed, ActiveToolCall, Aggregate
  <2> QED BY <1>3, <2>1
<1> QED BY <1>3, <1>4, <1>5, <1>6, <1>7, RecordStep, HandlerQuiet

-------------------------------------------------------------------------------
(* The second ContextManifestRecorded is about the second manifest.         *)

\* A handler before the event of its first manifest has not inserted it.
LEMMA UnbriefedBefore ==
  ASSUME IndInv, [Next]_vars, NEW q \in Runs, h'[q].pc \in UnbriefedPoint
  PROVE  /\ h[q].pc \in UnbriefedPoint
         /\ ~(PlainWrite(q) /\ h[q].pc = "manifest_recorded")
<1>1. h \in [Runs -> Handler]
  BY IndInvGood
<1>2. ASSUME NEW S, Leads(q, S) PROVE h'[q].pc \in S
  BY <1>1, <1>2 DEF Leads
<1>3. RaisedTo \cap UnbriefedPoint = {} /\ "dead" \notin UnbriefedPoint
  BY DEF RaisedTo, UnbriefedPoint
<1>4. PlainWrite(q) =>
        /\ h[q].pc \in UnbriefedPoint
        /\ h[q].pc # "manifest_recorded"
  <2> SUFFICES ASSUME PlainWrite(q) PROVE h[q].pc \in UnbriefedPoint \ {"manifest_recorded"}
    OBVIOUS
  <2>1. NextPoint(h[q]) \in UnbriefedPoint /\ h[q].pc \in PlainPoint
    BY <1>2, <1>3, PlainLeads DEF PlainWrite
  <2> QED BY <2>1 DEF NextPoint, PlainPoint, UnbriefedPoint
<1>5. CASE Intake(q) \/ InsertRun(q) \/ StartRun(q)
  BY <1>4, <1>5 DEF Intake, InsertRun, StartRun, UnbriefedPoint
<1>6. ~SaveGateDecision(q) /\ ~Authorize(q)
  <2>1. "gate_recorded" \notin UnbriefedPoint /\ "insert_tool" \notin UnbriefedPoint
    BY DEF UnbriefedPoint
  <2> QED BY <1>2, <1>3, <2>1, GateLeads, AuthorizeLeads
<1>7. /\ ~(FinalizeRun(q) \/ ReloadTask(q) \/ CloseFailedRun(q))
      /\ ~(PlanPresentation(q) \/ Render(q))
      /\ ~(\/ ProposeNextMove(q) \/ CreateInitialTaskGraph(q) \/ Hook(q) \/ LoadTask(q)
           \/ LoadUnit(q))
      /\ ~(\/ InsertToolCall(q) \/ StartToolCall(q) \/ DispatchRead(q) \/ OrderAnswer(q)
           \/ FinalizeToolCall(q) \/ SaveObservation(q) \/ InterruptToolCall(q)
           \/ TraceInterruption(q))
  <2>1. /\ QuietTo \cap UnbriefedPoint = {} /\ "returned" \notin UnbriefedPoint
        /\ "plan_proposed" \notin UnbriefedPoint
    BY DEF QuietTo, UnbriefedPoint
  <2> QED BY <1>2, <1>3, <2>1, ClosingLeads, AnswerLeads, GraphLeads, ToolLeads
<1>8. HandlerStep(q) => PlainWrite(q) \/ Intake(q) \/ InsertRun(q) \/ StartRun(q)
  BY <1>6, <1>7 DEF HandlerStep
<1>9. CASE ~HandlerStep(q)
  <2>1. h'[q] = h[q] \/ h[q].pc = "idle"
    BY <1>3, <1>9, RecordStep
  <2> QED BY <1>4, <2>1 DEF UnbriefedPoint
<1> QED BY <1>4, <1>5, <1>8, <1>9

\* Only the plain inserts after save_context_manifest append such an event.
LEMMA SamePlaces ==
  ASSUME IndInv, [Next]_vars, NEW q \in Runs,
         ~(PlainWrite(q) /\ WriteAt(h[q]) = "ContextManifestRecorded")
  PROVE  ManifestsAt(db'[q]) = ManifestsAt(db[q])
<1> DEFINE d == db[q]
           e == db'[q]
<1>1. Kept(d) /\ d \in Aggregate /\ db \in [Runs -> Aggregate]
  BY IndInvGood, KeptStep
<1>2. CASE PlainWrite(q)
  <2>1. WriteAt(h[q]) \in Document \cup TraceEventType
    BY <1>2, WriteAtType DEF PlainWrite
  <2>2. e = d \/ e = Written(d, WriteAt(h[q]))
    BY <1>1, <1>2 DEF PlainWrite, StoreCall
  <2> QED BY <1>1, <1>2, <2>1, <2>2, WrittenTrace
<1>3. CASE TraceInterruption(q)
  <2>1. e = d \/ e = Written(d, "ToolCallInterrupted")
    BY <1>1, <1>3 DEF TraceInterruption, StoreCall
  <2>2. "ToolCallInterrupted" \in TraceEventType
    BY DEF TraceEventType
  <2> QED BY <1>1, <2>1, <2>2, WrittenTrace
<1>4. CASE Alters(q)
  <2>1. e = d \/ Alter(d, e)
    BY <1>1, <1>4 DEF Alters
  <2> QED BY <1>1, <2>1, NewEvents
<1>5. CASE e = d \/ (Recoverable(d) /\ e = Recovered(d))
  BY <1>1, <1>5, NewEvents DEF Alter
<1> QED BY <1>2, <1>3, <1>4, <1>5, RecordStep, HandlerWrites

LEMMA PlacedStep ==
  ASSUME IndInv, TraceInv, [Next]_vars, NEW q \in Runs, Placed(h[q], db[q])
  PROVE  Placed(h'[q], db'[q])
<1> DEFINE d == db[q]
           e == db'[q]
<1>1. d \in Aggregate /\ db \in [Runs -> Aggregate] /\ Grows(d, e)
  BY IndInvGood, StepGrows
<1>2. CASE ManifestsAt(e) = ManifestsAt(d)
  BY <1>1, <1>2, UnbriefedBefore DEF Placed, ManifestsApart, Grows
<1>3. CASE PlainWrite(q) /\ WriteAt(h[q]) = "ContextManifestRecorded"
  <2>1. h[q].pc \in {"manifest_recorded", "plan_manifest_recorded"}
    BY <1>3 DEF PlainWrite, PlainPoint, WriteAt, TerminalEvent
  <2>2. h'[q].pc \notin UnbriefedPoint
    <3>1. CASE h[q].pc = "manifest_recorded"
      BY <1>3, <3>1, UnbriefedBefore
    <3>2. CASE h[q].pc = "plan_manifest_recorded"
      BY <3>2, UnbriefedBefore DEF UnbriefedPoint
    <3> QED BY <2>1, <3>1, <3>2
  <2>3. CASE h[q].pc = "plan_manifest_recorded"
    <3>1. "PRESENTATION_MANIFEST" \in e.documents
      BY <1>1, <2>3 DEF TraceInv, Filed, PlanPoint, Grows
    <3> QED BY <2>2, <3>1 DEF Placed, ManifestsApart
  <2>4. CASE h[q].pc = "manifest_recorded" /\ e # d
    <3>1. ManifestsAt(d) = {}
      BY <2>4 DEF Placed, UnbriefedPoint
    <3>2. e = Written(d, "ContextManifestRecorded")
      BY <1>1, <1>3, <2>4 DEF PlainWrite, StoreCall
    <3>3. d.trace \in Seq(TraceEventType) /\ e.trace = Append(d.trace, "ContextManifestRecorded")
      BY <1>1, <3>2 DEF Written, Document, Aggregate
    <3>4. \A i \in ManifestsAt(e) : i = Len(d.trace) + 1
      BY <3>1, <3>3 DEF ManifestsAt
    <3> QED BY <2>2, <3>4 DEF Placed, ManifestsApart
  <2> QED BY <1>2, <2>1, <2>3, <2>4
<1> QED BY <1>2, <1>3, SamePlaces

-------------------------------------------------------------------------------
(* Records that are filed so have an owner for every row.                   *)

LEMMA StoredHas ==
  ASSUME NEW d, d.run # "ABSENT", Kept(d), Filing(d)
  PROVE  /\ {ConversationRow, UserMessageRow, ArtifactRow, RunRow} \subseteq StoredRows(d)
         /\ d.task # NoRow =>
              {UnderstandingRow, TaskRow, UnitRow, ConversationLinkRow, RunLinkRow, BindingRow}
                \subseteq StoredRows(d)
         /\ "UNDERSTANDING_MANIFEST" \in d.documents => ManifestRow(1) \in StoredRows(d)
         /\ "PRESENTATION_MANIFEST" \in d.documents => ManifestRow(2) \in StoredRows(d)
         /\ "GATE_DECISION" \in d.documents =>
              GateRow \in StoredRows(d) /\ ManifestRow(1) \in StoredRows(d) /\ d.task # NoRow
         /\ d.tool # "ABSENT" =>
              /\ ToolCallRow \in StoredRows(d) /\ GateRow \in StoredRows(d)
              /\ ManifestRow(1) \in StoredRows(d) /\ d.task # NoRow
         /\ d.observation =>
              /\ ObservationRow \in StoredRows(d) /\ ToolCallRow \in StoredRows(d)
              /\ d.task # NoRow
<1>1. d.observation => d.tool # "ABSENT"
  BY DEF Kept, Consistent, ToolConsistent
<1> QED BY <1>1 DEF StoredRows, Only, Filing

\* The rows each record refers to.
LEMMA FirstReferences ==
  ASSUME NEW d
  PROVE  /\ References(d, ConversationRow) = {} /\ References(d, ArtifactRow) = {}
         /\ References(d, UserMessageRow) = {ConversationRow}
         /\ References(d, ReplyRow) = {ConversationRow}
         /\ References(d, RunRow) = {ConversationRow}
<1>1. /\ References(d, ConversationRow) = {} /\ References(d, ArtifactRow) = {}
  BY DEF References, GraphReferences, CallReferences, ManifestReferences,
         UnderstandingReferences, TraceReferences, Code, ConversationRow, ArtifactRow,
         UnderstandingRow, ManifestRow
<1>2. /\ References(d, UserMessageRow) = {ConversationRow}
      /\ References(d, ReplyRow) = {ConversationRow}
  BY DEF References, GraphReferences, CallReferences, ManifestReferences,
         UnderstandingReferences, TraceReferences, Code, UserMessageRow, ReplyRow,
         UnderstandingRow, ManifestRow
<1>3. References(d, RunRow) = {ConversationRow}
  BY DEF References, GraphReferences, CallReferences, ManifestReferences,
         UnderstandingReferences, TraceReferences, Code, RunRow, UnderstandingRow, ManifestRow
<1> QED BY <1>1, <1>2, <1>3

LEMMA GraphRowReferences ==
  ASSUME NEW d
  PROVE  /\ References(d, TaskRow) \subseteq {UnitRow}
         /\ {TaskRow, UserMessageRow, BindingRow} \subseteq References(d, UnitRow)
         /\ References(d, UnitRow) \subseteq {TaskRow, UserMessageRow, BindingRow}
                                              \cup Only(ObservationRow, d.observation)
         /\ References(d, ConversationLinkRow) = {ConversationRow, TaskRow}
         /\ References(d, RunLinkRow) = {RunRow, TaskRow}
         /\ References(d, BindingRow) = {UserMessageRow, UnitRow}
         /\ References(d, UnderstandingRow) = {RunRow, UserMessageRow, BindingRow, TaskRow}
<1>1. References(d, TaskRow) \subseteq {UnitRow}
  BY DEF References, GraphReferences, CallReferences, ManifestReferences,
         UnderstandingReferences, TraceReferences, Code, TaskRow, UnderstandingRow,
         ManifestRow, Only
<1>2. /\ {TaskRow, UserMessageRow, BindingRow} \subseteq References(d, UnitRow)
      /\ References(d, UnitRow) \subseteq {TaskRow, UserMessageRow, BindingRow}
                                            \cup Only(ObservationRow, d.observation)
  <2>1. References(d, UnitRow) = {TaskRow, UserMessageRow, BindingRow}
                                   \cup Only(ObservationRow, d.observation /\ d.reply)
    BY DEF References, GraphReferences, CallReferences, ManifestReferences,
           UnderstandingReferences, TraceReferences, Code, UnitRow, UnderstandingRow,
           ManifestRow
  <2> QED BY <2>1 DEF Only
<1>3. /\ References(d, ConversationLinkRow) = {ConversationRow, TaskRow}
      /\ References(d, RunLinkRow) = {RunRow, TaskRow}
  BY DEF References, GraphReferences, CallReferences, ManifestReferences,
         UnderstandingReferences, TraceReferences, Code, ConversationLinkRow, RunLinkRow,
         UnderstandingRow, ManifestRow
<1>4. References(d, BindingRow) = {UserMessageRow, UnitRow}
  BY DEF References, GraphReferences, CallReferences, ManifestReferences,
         UnderstandingReferences, TraceReferences, Code, BindingRow, UnderstandingRow,
         ManifestRow
<1>5. References(d, UnderstandingRow) = {RunRow, UserMessageRow, BindingRow, TaskRow}
  BY DEF References, GraphReferences, CallReferences, ManifestReferences,
         UnderstandingReferences, TraceReferences, Code, UnderstandingRow, ManifestRow
<1> QED BY <1>1, <1>2, <1>3, <1>4, <1>5

LEMMA CallRowReferences ==
  ASSUME NEW d
  PROVE  /\ References(d, ManifestRow(1)) = {RunRow, UserMessageRow, ArtifactRow}
         /\ References(d, ManifestRow(2)) =
              {RunRow, UserMessageRow, ArtifactRow, TaskRow, ObservationRow}
         /\ References(d, GateRow) = {ManifestRow(1), BindingRow}
         /\ References(d, ToolCallRow) =
              {RunRow, TaskRow, UnitRow, ManifestRow(1), GateRow, BindingRow}
         /\ References(d, ObservationRow) = {ToolCallRow, RunRow, TaskRow, UnitRow}
         /\ \A i : References(d, TraceRow(i)) = {RunRow} \cup EventReferences(d, i)
<1>1. /\ References(d, ManifestRow(1)) = {RunRow, UserMessageRow, ArtifactRow}
      /\ References(d, ManifestRow(2)) =
           {RunRow, UserMessageRow, ArtifactRow, TaskRow, ObservationRow}
  BY DEF References, GraphReferences, CallReferences, ManifestReferences,
         UnderstandingReferences, TraceReferences, Code, UnderstandingRow, ManifestRow
<1>2. References(d, GateRow) = {ManifestRow(1), BindingRow}
  BY DEF References, GraphReferences, CallReferences, ManifestReferences,
         UnderstandingReferences, TraceReferences, Code, GateRow, UnderstandingRow, ManifestRow
<1>3. References(d, ToolCallRow) =
        {RunRow, TaskRow, UnitRow, ManifestRow(1), GateRow, BindingRow}
  BY DEF References, GraphReferences, CallReferences, ManifestReferences,
         UnderstandingReferences, TraceReferences, Code, ToolCallRow, UnderstandingRow,
         ManifestRow
<1>4. References(d, ObservationRow) = {ToolCallRow, RunRow, TaskRow, UnitRow}
  BY DEF References, GraphReferences, CallReferences, ManifestReferences,
         UnderstandingReferences, TraceReferences, Code, ObservationRow, UnderstandingRow,
         ManifestRow
<1>5. ASSUME NEW i PROVE References(d, TraceRow(i)) = {RunRow} \cup EventReferences(d, i)
  BY DEF References, GraphReferences, CallReferences, ManifestReferences,
         UnderstandingReferences, TraceReferences, Code, TraceRow, UnderstandingRow,
         ManifestRow
<1> QED BY <1>1, <1>2, <1>3, <1>4, <1>5

\* The records an event names are stored.
LEMMA EventStored ==
  ASSUME NEW d, d.run # "ABSENT", Kept(d), Filing(d), ManifestsApart(d),
         NEW i \in DOMAIN d.trace
  PROVE  EventReferences(d, i) \subseteq StoredRows(d)
<1> DEFINE type == d.trace[i]
           second == \E j \in 1..(i - 1) : d.trace[j] = type
           stored == StoredRows(d)
           graph == {TaskRow, UnitRow}
<1>1. d.trace \in Seq(TraceEventType) /\ type \in TraceEventType
  BY DEF Kept, Aggregate
<1>2. /\ type \in ManifestedEvent => "UNDERSTANDING_MANIFEST" \in d.documents
      /\ type \notin TasklessEvent => d.task # NoRow
      /\ type \in ToolEvent => d.tool # "ABSENT"
      /\ type \in {"ObservationRecorded", "PresentationPlanProposed"} => d.observation
      /\ type = "PresentationPlanProposed" => "PRESENTATION_MANIFEST" \in d.documents
  BY DEF Filing, Traced, Named
<1>3. type = "ContextManifestRecorded" /\ second => "PRESENTATION_MANIFEST" \in d.documents
  <2> SUFFICES ASSUME type = "ContextManifestRecorded",
                      NEW j \in 1..(i - 1), d.trace[j] = type,
                      "PRESENTATION_MANIFEST" \notin d.documents
               PROVE  FALSE
    OBVIOUS
  <2>1. i \in ManifestsAt(d) /\ j \in ManifestsAt(d) /\ i # j
    BY <1>1 DEF ManifestsAt
  <2> QED BY <2>1 DEF ManifestsApart
<1>4. /\ UserMessageRow \in stored /\ ArtifactRow \in stored
      /\ type \in ManifestedEvent => ManifestRow(1) \in stored
      /\ type = "ContextManifestRecorded" /\ second => ManifestRow(2) \in stored
      /\ type = "PresentationPlanProposed" => ManifestRow(2) \in stored
      /\ d.task # NoRow => graph \subseteq stored /\ BindingRow \in stored
      /\ type \in ToolEvent => ToolCallRow \in stored
      /\ d.observation => ObservationRow \in stored
  BY <1>2, <1>3, StoredHas
<1> HIDE DEF stored
<1>5. EventReferences(d, i) \subseteq stored
  <2>1. CASE type \in {"MessageAccepted", "RequestUnderstandingStarted", "TaskDeltaValidated",
                       "RunStarted", "RunStopped"}
    <3>1. EventReferences(d, i) \subseteq {UserMessageRow}
      BY <2>1 DEF EventReferences
    <3> QED BY <1>4, <3>1
  <2>2. CASE type = "ContextManifestRecorded"
    <3>1. EventReferences(d, i) = {ManifestRow(IF second THEN 2 ELSE 1), ArtifactRow}
      BY <2>2 DEF EventReferences
    <3> QED BY <1>4, <2>2, <3>1 DEF ManifestedEvent
  <2>3. CASE type = "NextMoveProposed"
    <3>1. EventReferences(d, i) = {UserMessageRow, ManifestRow(1)}
      BY <2>3 DEF EventReferences
    <3> QED BY <1>4, <2>3, <3>1 DEF ManifestedEvent
  <2>4. CASE type \in {"TaskDeltaAccepted", "TaskStateChanged", "InputBindingRecorded",
                       "NextMoveRevalidated", "GateDecisionRecorded"}
    <3>1. EventReferences(d, i) \subseteq
            {UserMessageRow, BindingRow} \cup graph
              \cup Only(ManifestRow(1), type = "GateDecisionRecorded")
      BY <2>4 DEF EventReferences, Only
    <3>2. d.task # NoRow
      BY <1>2, <2>4 DEF TasklessEvent
    <3> QED BY <1>4, <3>1, <3>2 DEF Only, ManifestedEvent
  <2>5. CASE type = "PresentationPlanProposed"
    <3>1. EventReferences(d, i) = {ManifestRow(2), ObservationRow} \cup graph
      BY <2>5 DEF EventReferences
    <3>2. d.task # NoRow
      BY <1>2, <2>5 DEF TasklessEvent
    <3> QED BY <1>2, <1>4, <2>5, <3>1, <3>2
  <2>6. CASE type = "ResponseRendered"
    <3>1. EventReferences(d, i) =
            Only(ObservationRow, d.observation) \cup (IF d.task = NoRow THEN {} ELSE graph)
      BY <2>6 DEF EventReferences
    <3> QED BY <1>4, <3>1 DEF Only
  <2>7. CASE type \in ToolEvent
    <3>1. EventReferences(d, i) \subseteq
            {BindingRow, ToolCallRow} \cup graph
              \cup Only(ManifestRow(1), type = "ToolCallCreated")
              \cup Only(ObservationRow, type = "ObservationRecorded")
      BY <2>7 DEF EventReferences, Only, ToolEvent
    <3>2. d.task # NoRow
      BY <1>2, <2>7 DEF TasklessEvent, ToolEvent
    <3> QED BY <1>2, <1>4, <2>7, <3>1, <3>2 DEF Only, ManifestedEvent
  <2> QED BY <1>1, <2>1, <2>2, <2>3, <2>4, <2>5, <2>6, <2>7 DEF TraceEventType, ToolEvent
<1> QED BY <1>5 DEF stored

\* So are the rows every stored row refers to.
LEMMA ReferencesStored ==
  ASSUME NEW d, d.run # "ABSENT", Kept(d), Filing(d), ManifestsApart(d),
         NEW row \in StoredRows(d)
  PROVE  References(d, row) \subseteq StoredRows(d)
<1> DEFINE stored == StoredRows(d)
<1>1. CASE row \in {ConversationRow, UserMessageRow, ArtifactRow, RunRow, ReplyRow}
  BY <1>1, FirstReferences, StoredHas
<1>2. CASE /\ d.task # NoRow
           /\ row \in {UnderstandingRow, TaskRow, UnitRow, ConversationLinkRow, RunLinkRow,
                       BindingRow}
  <2>1. References(d, row) \subseteq
          {UserMessageRow, ConversationRow, RunRow, TaskRow, UnitRow, BindingRow}
            \cup Only(ObservationRow, d.observation)
    BY <1>2, GraphRowReferences
  <2> QED BY <1>2, <2>1, StoredHas DEF Only
<1>3. CASE \/ row = ManifestRow(1)
           \/ row = ManifestRow(2) /\ "PRESENTATION_MANIFEST" \in d.documents
           \/ row = GateRow /\ "GATE_DECISION" \in d.documents
           \/ row = ToolCallRow /\ d.tool # "ABSENT"
           \/ row = ObservationRow /\ d.observation
  <2>1. "PRESENTATION_MANIFEST" \in d.documents => d.observation
    BY DEF Filing
  <2>2. CASE row \in {ManifestRow(1), ManifestRow(2)}
    BY <1>3, <2>1, <2>2, CallRowReferences, StoredHas
  <2>3. CASE row = GateRow /\ "GATE_DECISION" \in d.documents
    BY <2>3, CallRowReferences, StoredHas
  <2>4. CASE row = ToolCallRow /\ d.tool # "ABSENT"
    BY <2>4, CallRowReferences, StoredHas
  <2>5. CASE row = ObservationRow /\ d.observation
    BY <2>5, CallRowReferences, StoredHas
  <2> QED BY <1>3, <2>2, <2>3, <2>4, <2>5
<1>4. ASSUME NEW i \in DOMAIN d.trace, row = TraceRow(i) PROVE References(d, row) \subseteq stored
  <2>1. References(d, row) = {RunRow} \cup EventReferences(d, i)
    BY <1>4, CallRowReferences
  <2>2. EventReferences(d, i) \subseteq stored
    BY EventStored
  <2>3. RunRow \in stored
    BY StoredHas
  <2> QED BY <2>1, <2>2, <2>3
<1> QED BY <1>1, <1>2, <1>3, <1>4 DEF StoredRows, Only

\* And each of them but the artifact leads to a Conversation or to a Task.
LEMMA LeadsOn ==
  ASSUME NEW refs, NEW rows, NEW row \in DOMAIN refs, NEW to \in rows, to \in refs[row]
  PROVE  row \in Leading(refs, rows)
  BY DEF Leading

LEMMA RowsResolve ==
  ASSUME NEW d, d.run # "ABSENT", Kept(d), Filing(d), ManifestsApart(d)
  PROVE  OwnersDerived(d)
<1> DEFINE refs == ReferencesOf(d)
           owned == {ConversationRow} \cup (DOMAIN refs \cap {TaskRow})
           first == Leading(refs, owned)
           second == Leading(refs, first)
           third == Leading(refs, second)
<1>1. DOMAIN refs = StoredRows(d)
  BY DEF ReferencesOf
<1>2. \A row \in DOMAIN refs : refs[row] = References(d, row)
  BY DEF ReferencesOf
<1>3. \A row \in DOMAIN refs : refs[row] \subseteq DOMAIN refs
  BY <1>1, <1>2, ReferencesStored
<1>4. owned \subseteq first /\ first \subseteq second /\ second \subseteq third
  BY DEF Leading
<1>5. {ConversationRow, UserMessageRow, ArtifactRow, RunRow} \subseteq DOMAIN refs
  BY <1>1, StoredHas
<1> HIDE DEF refs
<1>6. ConversationRow \in owned /\ (TaskRow \in DOMAIN refs => TaskRow \in owned)
  OBVIOUS
<1> HIDE DEF owned
<1>7. ASSUME NEW row \in DOMAIN refs,
             row \in {UserMessageRow, ReplyRow, RunRow, ConversationLinkRow}
      PROVE  row \in first
  <2>1. ConversationRow \in refs[row]
    BY <1>2, <1>7, FirstReferences, GraphRowReferences
  <2> QED BY <1>6, <2>1, LeadsOn
<1>8. ASSUME NEW row \in DOMAIN refs,
             row \in {UnitRow, RunLinkRow, UnderstandingRow, ToolCallRow, ObservationRow}
      PROVE  row \in first
  <2>1. TaskRow \in refs[row]
    BY <1>2, <1>8, GraphRowReferences, CallRowReferences
  <2>2. TaskRow \in owned
    BY <1>3, <1>6, <2>1
  <2> QED BY <2>1, <2>2, LeadsOn
<1>9. RunRow \in first /\ UserMessageRow \in first
  BY <1>5, <1>7
<1> HIDE DEF first
<1>10. ASSUME NEW row \in DOMAIN refs,
              \/ row \in {BindingRow, ManifestRow(1), ManifestRow(2)}
              \/ \E i : row = TraceRow(i)
       PROVE  row \in second
  <2>1. RunRow \in refs[row] \/ UserMessageRow \in refs[row]
    <3>1. CASE row \in {BindingRow, ManifestRow(1), ManifestRow(2)}
      BY <1>2, <3>1, GraphRowReferences, CallRowReferences
    <3>2. CASE \E i : row = TraceRow(i)
      <4>1. PICK i : row = TraceRow(i)
        BY <3>2
      <4>2. refs[row] = {RunRow} \cup EventReferences(d, i)
        BY <1>2, <4>1, CallRowReferences
      <4> QED BY <4>2
    <3> QED BY <1>10, <3>1, <3>2
  <2> QED BY <1>9, <2>1, LeadsOn
<1> HIDE DEF second
<1>11. ASSUME GateRow \in DOMAIN refs PROVE GateRow \in third
  <2>1. BindingRow \in refs[GateRow]
    BY <1>2, <1>11, CallRowReferences
  <2>2. BindingRow \in second
    BY <1>3, <1>10, <1>11, <2>1
  <2> QED BY <1>11, <2>1, <2>2, LeadsOn
<1> HIDE DEF third
<1>12. DOMAIN refs \ {ArtifactRow} \subseteq third
  <2> SUFFICES ASSUME NEW row \in DOMAIN refs, row # ArtifactRow
               PROVE  row \in third
    OBVIOUS
  <2>1. CASE row \in {ConversationRow, TaskRow}
    BY <1>4, <1>6, <2>1
  <2>2. CASE row \in {UserMessageRow, ReplyRow, RunRow, ConversationLinkRow, UnitRow,
                     RunLinkRow, UnderstandingRow, ToolCallRow, ObservationRow}
    BY <1>4, <1>7, <1>8, <2>2
  <2>3. CASE \/ row \in {BindingRow, ManifestRow(1), ManifestRow(2)}
             \/ \E i : row = TraceRow(i)
    BY <1>4, <1>10, <2>3
  <2>4. CASE row = GateRow
    BY <1>11, <2>4
  <2>5. row \in StoredRows(d)
    BY <1>1
  <2> QED BY <2>1, <2>2, <2>3, <2>4, <2>5 DEF StoredRows, Only
<1> QED BY <1>3, <1>12 DEF OwnersDerived, refs, owned, first, second, third

\* Every manifest, decision, event and ToolCall a handler stores, at whatever
\* point it goes on after a refusal, a lost acknowledgement or a recovery, names
\* rows that are stored, and every row leads to its owner over at most three
\* references.
THEOREM PlainWritesResolveHolds == Spec => []PlainWritesResolve
<1>1. Init => ReferenceInv
  BY DEF Init, ReferenceInv, Filing, Placed, ManifestsApart, ManifestsAt, NoRecords, Traced
<1>2. Init => TraceInv
  BY DEF Init, TraceInv, Filed, IdleHandler, NoRecords, BriefedPoint, PlanPoint,
         AuthorizedPoint, ServicePoint, PlainPoint, ExecutorPoint
<1>3. IndInv /\ TraceInv /\ ReferenceInv /\ [Next]_vars => TraceInv' /\ ReferenceInv'
  BY FiledStep, FilingStep, PlacedStep DEF ReferenceInv
<1>4. IndInv /\ ReferenceInv => PlainWritesResolve
  BY RowsResolve, IndInvGood DEF ReferenceInv, Placed, PlainWritesResolve, Good
<1> QED BY <1>1, <1>2, <1>3, <1>4, AgentRunInvariant, PTL DEF Spec

-------------------------------------------------------------------------------
(* The grader and recovery.                                                 *)

LEMMA GradedReason ==
  ASSUME NEW variant \in Variant
  PROVE  ExpectedStop[variant] \in CompletionReason
  BY DEF Variant, Edges, ExpectedStop, CompletionReason

\* The Trace of a Run that is still active, failed, or was closed by recovery is
\* never graded complete, although a handler that recovery overtakes may write
\* every event of an answer: the reason the Run stopped with tells them apart.
THEOREM OnlyAnswersPassHolds == Spec => []OnlyAnswersPass
<1>1. IndInv => OnlyAnswersPass
  <2> SUFFICES ASSUME IndInv, NEW r \in Runs, NEW variant \in Variant,
                      db[r].stop = ExpectedStop[variant]
               PROVE  db[r].run = "COMPLETED"
    BY DEF OnlyAnswersPass, GraderPasses
  <2>1. Evidence(db[r])
    BY IndInvGood DEF Good, Kept, Consistent
  <2>2. db[r].stop \in CompletionReason
    BY GradedReason
  <2> QED BY <2>1, <2>2 DEF Evidence, CompletionReason, RestartReason
<1> QED BY <1>1, AgentRunInvariant, PTL

===============================================================================
