---------------------------- MODULE TraceGrading ----------------------------
(***************************************************************************)
(* How a Run's Trace is listed from the record table and how               *)
(* TraceCompletenessGrader judges it: the number of events of each         *)
(* safety-critical type and the order of the events, both read off one     *)
(* set of edges per expected variant, and the reason the Run stopped with. *)
(***************************************************************************)
EXTENDS Naturals, Sequences, FiniteSets, FiniteSetsExt, RunRecords

(* A place in a variant: the n-th event of a type, counted among those of  *)
(* one model-call purpose when the purpose matters.                        *)
Node(type, n) == [type |-> type, occurrence |-> n, purpose |-> "ANY"]
First(type) == Node(type, 1)
Manifest(purpose) ==
  [type |-> "ContextManifestRecorded", occurrence |-> 1, purpose |-> purpose]
Changed(n) == Node("TaskStateChanged", n)

Chain(nodes) == {<<nodes[i], nodes[i + 1]>> : i \in 1..(Len(nodes) - 1)}

Understanding ==
  <<First("MessageAccepted"), First("RunStarted"), First("RequestUnderstandingStarted"),
    Manifest("REQUEST_UNDERSTANDING")>>
Decided ==
  Understanding \o
  <<First("NextMoveProposed"), First("TaskDeltaValidated"), First("TaskDeltaAccepted"),
    First("InputBindingRecorded"), Changed(1), First("NextMoveRevalidated")>>
Gated == Append(Decided, First("GateDecisionRecorded"))
Called(end) ==
  Gated \o <<First("ToolCallCreated"), First("ToolCallStarted"), First(end),
             First("ToolResultNormalized")>>
Observed ==
  Called("ToolCallSucceeded") \o <<First("ObservationRecorded"), Manifest("PRESENTATION")>>
Closing(n) ==
  <<First("ResponseRendered"), Changed(n), First("RunStopped"), First("EvalCaseGraded")>>
Tasklessly == <<First("ResponseRendered"), First("RunStopped"), First("EvalCaseGraded")>>

(* _TRACE_EDGES_BY_VARIANT.                                                *)
Edges ==
  [SUCCESS |-> Chain(Observed \o <<First("PresentationPlanProposed")>> \o Closing(2)),
   FOREIGN_ORDER |-> Chain(Called("ToolCallFailed") \o Closing(2)),
   NONEXISTENT_ORDER |-> Chain(Called("ToolCallFailed") \o Closing(2)),
   ARGUMENT_BINDING_REJECTED |-> Chain(Gated \o Closing(2)),
   PROVIDER_PROTOCOL_BEFORE_CANDIDATE |-> Chain(Understanding \o Tasklessly),
   INPUT_VALIDATION_REJECTED |-> Chain(Understanding \o Tasklessly),
   UNKNOWN_TOOL_GATEWAY_REJECTED |-> Chain(Gated \o Closing(2)),
   STALE_STATE_GATEWAY_REJECTED |->
     Chain(Decided \o <<Changed(2), First("GateDecisionRecorded")>> \o Closing(3)),
   PRESENTATION_PROTOCOL_REJECTED |->
     Chain(Observed \o Closing(2)) \cup {<<First("ObservationRecorded"), First("ResponseRendered")>>}]
Variant == DOMAIN Edges

(* The stop reason the Case of each variant expects.                       *)
ExpectedStop ==
  [SUCCESS |-> "GOAL_COMPLETED",
   FOREIGN_ORDER |-> "NOT_FOUND_OR_NOT_ACCESSIBLE",
   NONEXISTENT_ORDER |-> "NOT_FOUND_OR_NOT_ACCESSIBLE",
   ARGUMENT_BINDING_REJECTED |-> "GATE_REJECTED",
   PROVIDER_PROTOCOL_BEFORE_CANDIDATE |-> "PROVIDER_PROTOCOL_ERROR",
   INPUT_VALIDATION_REJECTED |-> "INPUT_INVALID",
   UNKNOWN_TOOL_GATEWAY_REJECTED |-> "GATE_REJECTED",
   STALE_STATE_GATEWAY_REJECTED |-> "GATE_REJECTED",
   PRESENTATION_PROTOCOL_REJECTED |-> "PROVIDER_PROTOCOL_ERROR"]
----------------------------------------------------------------------------
SafetyCritical == (TraceEventType \cup {"EvalCaseGraded"}) \ {"RequestUnderstandingStarted"}

Nodes(variant) == UNION {{e[1], e[2]} : e \in Edges[variant]}

(* _expected_safety_event_counts: for every purpose the highest occurrence *)
(* a node names.                                                           *)
Highest(nodes, purpose) ==
  Max({0} \cup {n.occurrence : n \in {m \in nodes : m.purpose = purpose}})

ExpectedCount ==
  [variant \in Variant |-> [type \in SafetyCritical |->
     LET nodes == {n \in Nodes(variant) : n.type = type}
     IN Highest(nodes, "ANY") + Highest(nodes, "REQUEST_UNDERSTANDING")
          + Highest(nodes, "PRESENTATION")]]

Positions(events, node) ==
  {i \in DOMAIN events : /\ events[i].type = node.type
                         /\ node.purpose \in {"ANY", events[i].purpose}}

(* _trace_node_index: the positions of the node's occurrence, if any.      *)
IndexOf(events, node) ==
  {i \in Positions(events, node) :
     Cardinality({j \in Positions(events, node) : j <= i}) = node.occurrence}

CountsMatch(events, variant) ==
  \A type \in DOMAIN ExpectedCount[variant] :
    Cardinality({i \in DOMAIN events : events[i].type = type}) = ExpectedCount[variant][type]

InOrder(events, variant) ==
  \A e \in Edges[variant] :
    \E i \in IndexOf(events, e[1]), j \in IndexOf(events, e[2]) : i < j

(* TraceCompletenessGrader.grade on the listed Trace of a Run that stopped *)
(* with the reason stop.                                                   *)
GradedWithoutStop(events, stop, variant) ==   \* mutant: the stop reason is not compared
  CountsMatch(events, variant) /\ InOrder(events, variant)
GraderPasses(events, stop, variant) ==
  /\ CountsMatch(events, variant)
  /\ InOrder(events, variant)
  /\ stop = ExpectedStop[variant]
----------------------------------------------------------------------------
(* The events the Run's terminal transaction wrote: they carry one         *)
(* stored_at, and the table orders them by their random identity.  A       *)
(* handler that recovery has overtaken may go on appending after them.     *)
Terminal(d) ==
  LET stopped == CHOOSE i \in DOMAIN d.trace : d.trace[i] = "RunStopped"
      changed == IF d.task # NoRow THEN 1 ELSE 0
      cut(i) == IF i < Len(d.trace) /\ d.trace[i + 1] = "ToolCallInterrupted" THEN 1 ELSE 0
  IN CASE d.run = "COMPLETED"  -> (stopped - changed)..stopped
       [] d.run = "INCOMPLETE" -> stopped..(stopped + changed + cut(stopped + changed))
       [] OTHER -> {}

Arrangements(d) ==
  LET tied == Terminal(d) IN
  {[i \in DOMAIN d.trace |-> IF i \in tied THEN d.trace[p[i]] ELSE d.trace[i]] :
     p \in {q \in [tied -> tied] : \A i, j \in tied : q[i] = q[j] => i = j}}

(* list_trace_events_for_owner: the tie of a normal terminal transaction,  *)
(* and no other, is put back in its causal order.                          *)
NormalTie(d, history) ==
  /\ {history[i] : i \in Terminal(d)} = {"TaskStateChanged", "RunStopped"}
  /\ Cardinality(Terminal(d)) = 2
  /\ d.stop # RestartReason

ListedAsStored(d, history) == history   \* mutant: ties stay in identity order
Listed(d, history) ==
  IF NormalTie(d, history)
  THEN [history EXCEPT ![Min(Terminal(d))] = "TaskStateChanged", ![Max(Terminal(d))] = "RunStopped"]
  ELSE history

(* The first manifest of a Run is for request understanding, the second    *)
(* for presentation.                                                       *)
Events(trace) ==
  [i \in DOMAIN trace |->
     [type |-> trace[i],
      purpose |-> IF trace[i] # "ContextManifestRecorded" THEN "NONE"
                  ELSE IF \E j \in 1..(i - 1) : trace[j] = trace[i] THEN "PRESENTATION"
                  ELSE "REQUEST_UNDERSTANDING"]]

(* What the final grading sees: the listed Trace and the graded event.     *)
FinalTrace(d, history) == Events(Append(Listed(d, history), "EvalCaseGraded"))
============================================================================
