-------------------------- MODULE RequestReduction --------------------------
(***************************************************************************)
(* The Reducer: one decision about each candidate of a traced answer, the  *)
(* initial Task graph of each accepted candidate, and the closure that     *)
(* binds them.  What the Reducer builds is re-validated four times by code *)
(* that was written separately: by the record of task_state.py, by the     *)
(* closure, by the decision that holds it, and by the command of the       *)
(* record port.  Each validator is an operator of its own here.            *)
(*                                                                         *)
(* Version 0 stands for a null state version.  A generated identity is a   *)
(* pair of its kind and the candidate it was allocated for.                *)
(***************************************************************************)
EXTENDS RequestUnderstanding

CONSTANTS
  Owner,      \* the customer of the trusted context
  Run         \* the Run that handles the Message

Identity(kind, candidate) == <<kind, candidate>>
Distinct(seq) == Cardinality(ToSet(seq)) = Len(seq)
RecordId == Identity("record", Nothing)
MoveRef == Identity("move", Nothing)
ASSUME NothingIsNoReference == Nothing # MoveRef

(* No identity of "own" and of the rows is given twice.                    *)
GivenOnce(own, rows) ==
  /\ Distinct(own)
  /\ \A i \in DOMAIN rows : Distinct(rows[i]) /\ ToSet(rows[i]) \cap ToSet(own) = {}
  /\ \A i, j \in DOMAIN rows : i # j => ToSet(rows[i]) \cap ToSet(rows[j]) = {}

AllocationOnce(candidate) ==   \* mutant: one binding identity for the whole answer
  [delta |-> Identity("delta", candidate), task |-> Identity("task", candidate),
   unit |-> Identity("unit", candidate), binding |-> Identity("binding", Nothing)]

(* InitialTaskIdentityAllocationV2: the service reserves one for each      *)
(* candidate before it knows which are accepted.                           *)
Allocation(candidate) ==
  [delta |-> Identity("delta", candidate), task |-> Identity("task", candidate),
   unit |-> Identity("unit", candidate), binding |-> Identity("binding", candidate)]

(* _canonical_initial_identity_allocations_v2: no identity is given twice. *)
AllocationsAreDistinct(output) ==
  LET given(i) == LET ids == Allocation(output.candidates[i].id)
                  IN  <<ids.delta, ids.task, ids.unit, ids.binding>>
  IN  GivenOnce(<<RecordId, MoveRef>>, [i \in DOMAIN output.candidates |-> given(i)])

(* _candidate_rejection_reason_v2.                                         *)
RejectionReason(candidate, output) ==
  LET uncertain == {u.reason : u \in output.context.uncertainties}
      one == Len(candidate.inputs) = 1
  IN  FirstFailure(<<
        Check("MISSING_REFERENCE" \notin uncertain, "REFERENCE_UNRESOLVED"),
        Check("MULTIPLE_PLAUSIBLE_REFERENCES" \notin uncertain, "REFERENCE_AMBIGUOUS"),
        Check(one, "REQUIRED_INPUT_MISSING"),
        Check(one => /\ candidate.inputs[1].authority = "USER_CLAIM"
                     /\ candidate.inputs[1].ref = output.message, "REQUIRED_INPUT_MISSING"),
        Check(one => Normalize(candidate.inputs[1].value) # Nothing, "INPUT_VALUE_INVALID")>>)

(* _build_initial_task_graph_v2.                                           *)
InitialGraph(candidate, output, now) ==
  LET ids == Allocation(candidate.id)
      message == output.message
  IN  [delta |-> [id |-> ids.delta, candidate |-> candidate.id, message |-> message,
                  goal |-> candidate.goal, bindings |-> <<ids.binding>>, at |-> now,
                  task |-> ids.task, base |-> 0, result |-> 1],
       binding |-> [id |-> ids.binding, value |-> Normalize(candidate.inputs[1].value),
                    authority |-> "USER_CLAIM", sources |-> <<message>>, at |-> now],
       task |-> [id |-> ids.task, owner |-> Owner, status |-> "ACTIVE", version |-> 1,
                 outcome |-> Nothing, at |-> now],
       unit |-> [id |-> ids.unit, task |-> ids.task, goal |-> candidate.goal,
                 sources |-> <<message>>, bindings |-> <<ids.binding>>,
                 status |-> "ACTIVE", version |-> 1, refs |-> {}, at |-> now]]

----------------------------------------------------------------------------
Accepted(record) ==
  {record.decisions[i].candidate : i \in {j \in DOMAIN record.decisions :
                                            record.decisions[j].reason = Nothing}}
Select(seq, field) == [i \in DOMAIN seq |-> seq[i][field]]

(* _validate_durable_closure_v2: the decisions cover the candidates, and   *)
(* the accepted deltas are children of accepted candidates only.           *)
ClosureIsDurable(output, decisions, deltas, now) ==
  LET accepted == {d.candidate : d \in {e \in ToSet(decisions) : e.reason = Nothing}}
  IN  /\ Distinct(Select(decisions, "candidate"))
      /\ ToSet(Select(decisions, "candidate")) = ToSet(Select(output.candidates, "id"))
      /\ Distinct(Select(deltas, "candidate")) /\ Distinct(Select(deltas, "id"))
      /\ ToSet(Select(deltas, "candidate")) = accepted
      /\ \A i \in DOMAIN deltas :
           /\ deltas[i].message = output.message
           /\ deltas[i].at = now
           /\ Distinct(deltas[i].bindings)
      \* versions of one Task, in the order of the answer, start fresh and follow on
      /\ \A i \in DOMAIN deltas :
           LET earlier == {j \in 1..(i - 1) : deltas[j].task = deltas[i].task}
           IN  IF earlier = {} THEN deltas[i].base = 0
               ELSE LET last == CHOOSE j \in earlier : \A k \in earlier : k <= j
                    IN  /\ deltas[i].base = deltas[last].result
                        /\ deltas[i].result = deltas[last].result + 1

(* RequestUnderstandingRecordV2.record_graph_is_locally_closed.            *)
RecordIsClosed(record) ==
  /\ Distinct(Select(record.candidates, "id"))
  /\ Distinct(Select(record.decisions, "candidate"))
  /\ ToSet(Select(record.decisions, "candidate")) = ToSet(Select(record.candidates, "id"))
  /\ Distinct(record.accepted)
  /\ Len(record.accepted) = Cardinality(Accepted(record))
  /\ record.message \in record.context.refs
  /\ \A i \in DOMAIN record.candidates : record.candidates[i].input.ref = record.message
  /\ record.move = Nothing => record.base = 0 /\ record.validated = 0

(* RequestUnderstandingClosureV2: children are projections of candidates.  *)
ClosureIsExact(closure) ==
  LET record == closure.record
      deltas == closure.deltas
      Projects(delta) ==
        \E i \in DOMAIN record.candidates :
          /\ record.candidates[i].id = delta.candidate
          /\ record.candidates[i].goal = delta.goal
          /\ delta.message = record.message
  IN  /\ Distinct(Select(deltas, "candidate")) /\ Distinct(Select(deltas, "id"))
      /\ ToSet(Select(deltas, "candidate")) = Accepted(record)
      /\ ToSet(Select(deltas, "id")) = ToSet(record.accepted)
      /\ \A i \in DOMAIN deltas :
           Projects(deltas[i]) /\ Distinct(deltas[i].bindings) /\ deltas[i].at = record.at

(* InitialAcceptedTaskGraphV2.graph_is_exact_initial_projection.           *)
GraphIsInitial(graph) ==
  LET delta == graph.delta  binding == graph.binding
      task == graph.task    unit == graph.unit
  IN  /\ Distinct(<<delta.id, binding.id, task.id, unit.id>>)
      /\ delta.task = task.id /\ delta.base = 0 /\ delta.result = 1
      /\ delta.bindings = <<binding.id>>
      /\ binding.authority = "USER_CLAIM" /\ binding.sources = <<delta.message>>
      /\ task.status = "ACTIVE" /\ task.version = 1 /\ task.outcome = Nothing
      /\ unit.task = task.id /\ unit.goal = delta.goal
      /\ unit.sources = <<delta.message>> /\ unit.bindings = <<binding.id>>
      /\ unit.status = "ACTIVE" /\ unit.version = 1 /\ unit.refs = {}
      /\ Cardinality({delta.at, binding.at, task.at, unit.at}) = 1

(* _validate_initial_graph_candidate_projection_v2: the bound value is the *)
(* normalized value of the candidate the delta names.                      *)
BindsCandidate(record, graph) ==
  \E i \in DOMAIN record.candidates :
    LET candidate == record.candidates[i]
    IN  /\ candidate.id = graph.delta.candidate
        /\ graph.delta.message = record.message
        /\ graph.delta.goal = candidate.goal
        /\ Normalize(candidate.input.value) # Nothing
        /\ graph.binding.value = Normalize(candidate.input.value)
        /\ graph.binding.sources = <<candidate.input.ref>>

(* _validate_initial_graph_identity_closure_v2.                            *)
IdentitiesClose(record, graphs) ==
  LET own(graph) == <<graph.delta.id, graph.task.id, graph.unit.id, graph.binding.id>>
      roots == IF record.move = Nothing THEN <<record.id>> ELSE <<record.id, record.move>>
  IN  /\ GivenOnce(roots, [i \in DOMAIN graphs |-> own(graphs[i])])
      /\ \A i \in DOMAIN graphs :
           /\ graphs[i].delta.base = 0 /\ graphs[i].delta.result = 1
           /\ graphs[i].delta.task = graphs[i].task.id
           /\ graphs[i].task.version = 1 /\ graphs[i].unit.version = 1

Unmoved(record) == record.move = Nothing /\ record.base = 0 /\ record.validated = 0
Deltas(graphs) == Select(graphs, "delta")

(* The validators of the three decisions.                                  *)
NoTaskIsClean(closure) ==
  closure.deltas = <<>> /\ closure.record.accepted = <<>>
  /\ Accepted(closure.record) = {} /\ Unmoved(closure.record)

RoutableIsExact(closure, graph, moveRef, move) ==
  LET record == closure.record
  IN  /\ ClosureIsExact(closure) /\ GraphIsInitial(graph)
      /\ Len(record.candidates) = 1 /\ Len(record.decisions) = 1
      /\ record.decisions[1].reason = Nothing
      /\ closure.deltas = <<graph.delta>> /\ record.accepted = <<graph.delta.id>>
      /\ record.move = moveRef /\ record.base = move.base /\ record.validated = 1
      /\ graph.delta.candidate = record.candidates[1].id
      /\ BindsCandidate(record, graph) /\ IdentitiesClose(record, <<graph>>)

UnroutedIsExact(closure, graphs) ==
  LET record == closure.record
      accepted == Cardinality(Accepted(record))
  IN  /\ ClosureIsExact(closure) /\ \A i \in DOMAIN graphs : GraphIsInitial(graphs[i])
      /\ accepted >= 1 /\ Len(graphs) = accepted
      /\ closure.deltas = Deltas(graphs)
      /\ record.accepted = Select(Deltas(graphs), "id")
      /\ Unmoved(record)
      /\ ~(Len(record.candidates) = 1 /\ accepted = 1)
      /\ IdentitiesClose(record, graphs)
      /\ \A i \in DOMAIN graphs : BindsCandidate(record, graphs[i])

----------------------------------------------------------------------------
Refused(code) == [kind |-> "REFUSED", code |-> code]

(* build_request_understanding_closure_v2.                                 *)
Closure(output, messages, decisions, graphs, routable, now) ==
  [record |->
     [id |-> RecordId, run |-> Run, message |-> output.message,
      context |-> DurableContext(messages, output.context),
      candidates |-> [i \in DOMAIN output.candidates |->
                        DurableCandidate(messages, output.candidates[i])],
      decisions |-> decisions, accepted |-> Select(Deltas(graphs), "id"),
      base |-> IF routable THEN output.move.base ELSE 0,
      validated |-> IF routable THEN 1 ELSE 0,
      move |-> IF routable THEN MoveRef ELSE Nothing, at |-> now],
   deltas |-> Deltas(graphs)]

(* Some positions of a sequence in their order, and the entries at them.   *)
InOrder(at) ==
  [n \in 1..Cardinality(at) |-> CHOOSE i \in at : Cardinality({j \in at : j <= i}) = n]
Retained(seq, at) == LET place == InOrder(at) IN [n \in DOMAIN place |-> seq[place[n]]]

(* One decision about each candidate, and a graph for each accepted one.   *)
Decisions(output) ==
  [i \in DOMAIN output.candidates |->
     [candidate |-> output.candidates[i].id,
      reason |-> RejectionReason(output.candidates[i], output)]]
AcceptedAt(output) ==
  {i \in DOMAIN output.candidates : RejectionReason(output.candidates[i], output) = Nothing}
Graphs(output, now) ==
  LET kept == Retained(output.candidates, AcceptedAt(output))
  IN  [n \in DOMAIN kept |-> InitialGraph(kept[n], output, now)]

(* validate_and_reduce_initial_request_v2 on a traced answer.              *)
ReduceTraced(output, messages, now) ==
  LET decisions == Decisions(output)
      graphs == Graphs(output, now)
      routable == Len(output.candidates) = 1 /\ Len(graphs) = 1
      closure == Closure(output, messages, decisions, graphs, routable, now)
      closes == /\ AllocationsAreDistinct(output)
                /\ \A i \in DOMAIN graphs : GraphIsInitial(graphs[i])
                /\ ClosureIsDurable(output, decisions, Deltas(graphs), now)
                /\ RecordIsClosed(closure.record) /\ ClosureIsExact(closure)
      decision ==
        IF graphs = <<>> THEN [kind |-> "NO_TASK", closure |-> closure]
        ELSE IF routable
          THEN [kind |-> "ROUTABLE", closure |-> closure, graph |-> graphs[1],
                moveRef |-> MoveRef, move |-> output.move]
          ELSE [kind |-> "UNROUTED", closure |-> closure, graphs |-> graphs]
      exact ==
        IF graphs = <<>> THEN NoTaskIsClean(closure)
        ELSE IF routable THEN RoutableIsExact(closure, graphs[1], MoveRef, output.move)
        ELSE UnroutedIsExact(closure, graphs)
  IN  IF closes /\ exact THEN decision ELSE Refused("DURABLE_CLOSURE_COMMIT_FAILED")

Reduce(output, messages, recent, now) ==
  LET failure == PreflightFailure(output, CurrentRef, recent, messages)
  IN  IF failure # Nothing THEN Refused(failure) ELSE ReduceTraced(output, messages, now)

----------------------------------------------------------------------------
(* The record port's own view of the same graph.  An accepted command is   *)
(* rebuilt field by field, which refuses a value that is not exactly what  *)
(* its type would parse it to; that the values here are of their types is  *)
(* the shape of the records above.                                         *)

(* _referenced_message_ids_v2.                                             *)
ReferencedMessages(record) ==
  {record.message} \cup record.context.refs
    \cup {record.context.resolved[i].ref : i \in DOMAIN record.context.resolved}
    \cup (UNION {u.refs : u \in record.context.uncertainties})
    \cup {record.candidates[i].input.ref : i \in DOMAIN record.candidates}

(* SaveRequestUnderstandingV2AcceptedCommand.                              *)
AcceptedCommandIsValid(record, delta) ==
  /\ Len(record.candidates) = 1 /\ Len(record.decisions) = 1
  /\ record.decisions[1] = [candidate |-> record.candidates[1].id, reason |-> Nothing]
  /\ record.accepted = <<delta.id>>
  /\ delta.candidate = record.candidates[1].id
  /\ delta.message = record.message /\ delta.goal = record.candidates[1].goal
  /\ Len(delta.bindings) = 1 /\ delta.base = 0 /\ delta.result = 1
  /\ record.base = 0 /\ record.validated = 1 /\ record.move # Nothing
  /\ record.at = delta.at

RootsStrictlyBefore(record, roots) ==   \* mutant: an equal instant refused
  /\ roots.owner = Owner
  /\ DOMAIN roots.messages = ReferencedMessages(record)
  /\ roots.run = record.run /\ roots.runStatus = "RUNNING"
  /\ record.at > roots.receivedAt /\ record.at > roots.startedAt

(* _validate_v2_owner_roots_and_messages.                                  *)
RootsAreValid(record, roots) ==
  /\ roots.owner = Owner
  /\ DOMAIN roots.messages = ReferencedMessages(record)
  /\ roots.run = record.run /\ roots.runStatus = "RUNNING"
  /\ record.at >= roots.receivedAt /\ record.at >= roots.startedAt

(* SaveRequestUnderstandingV2NoTaskCommand.                                *)
NoTaskCommandIsValid(record, roots) ==
  RootsAreValid(record, roots) /\ record.accepted = <<>> /\ Accepted(record) = {} /\ Unmoved(record)

(* CreateInitialTaskGraphV2Command.graph_is_exact_clean_initial_projection *)
(* with the insert-only commands it holds.                                 *)
InitialGraphCommandIsValid(record, graph, roots) ==
  LET delta == graph.delta  binding == graph.binding
      task == graph.task    unit == graph.unit
      input == record.candidates[1].input
  IN  /\ AcceptedCommandIsValid(record, delta) /\ RootsAreValid(record, roots)
      /\ Normalize(input.value) # Nothing /\ binding.value = Normalize(input.value)
      /\ binding.sources = <<input.ref>>
      /\ task.owner = roots.owner /\ task.status = "ACTIVE" /\ task.version = 1
      /\ task.outcome = Nothing
      /\ unit.task = task.id /\ unit.goal = delta.goal /\ unit.sources = <<record.message>>
      /\ unit.bindings = <<binding.id>> /\ unit.status = "ACTIVE" /\ unit.version = 1
      /\ unit.refs = {}
      /\ delta.task = task.id /\ delta.bindings = <<binding.id>>
      /\ Distinct(<<record.id, record.move, delta.id, task.id, unit.id, binding.id>>)
      /\ {delta.at, task.at, unit.at, binding.at} = {record.at}

----------------------------------------------------------------------------
(* revalidate_next_move_v2 on a decision whose seal matches: the stored    *)
(* graph is still the one the decision created, and the move calls a tool. *)
MoveIsCurrent(decision, task, unit, binding) ==
  /\ task = decision.graph.task /\ unit = decision.graph.unit
  /\ task.status = "ACTIVE" /\ unit.status = "ACTIVE"
  /\ task.version = 1 /\ unit.version = 1
  /\ binding = decision.graph.binding /\ unit.bindings = <<binding.id>>
  /\ decision.move.kind = "CALL_TOOL"
  /\ "customer_id" \notin DOMAIN decision.move.arguments

(* _candidate_order_id_or_none.                                            *)
ArgumentOrder(arguments) ==
  IF DOMAIN arguments = {"order_id"} THEN Normalize(arguments.order_id) ELSE Nothing

Revalidated(decision, task, unit, binding) ==
  [run |-> decision.closure.record.run, task |-> task.id, unit |-> unit.id,
   move |-> decision.moveRef, tool |-> decision.move.tool,
   arguments |-> decision.move.arguments,
   order |-> ArgumentOrder(decision.move.arguments),
   bound |-> binding.value, bindings |-> <<binding.id>>,
   proposedBase |-> decision.move.base, validated |-> task.version]
=============================================================================
