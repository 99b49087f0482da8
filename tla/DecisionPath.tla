---------------------------- MODULE DecisionPath ----------------------------
(***************************************************************************)
(* How one Message becomes an authorized tool call: the Provider's answer  *)
(* is reduced, its graph recorded, the move revalidated, the current Task  *)
(* and RequestUnit loaded one after the other, the move gated and the tool *)
(* command authorized.  Meanwhile the Task may be moved by another actor   *)
(* (a hook, another process that recovers the Run), the wall clock may be  *)
(* set back, and decision objects may be copied, changed, pickled and      *)
(* collected (DecisionSeal).                                               *)
(***************************************************************************)
EXTENDS ControlGateway, DecisionSeal

CONSTANTS
  Texts,       \* what a user may write
  Answers(_),  \* what the Provider may answer to a text
  Snapshots,   \* registries the service may be built with
  Instants,    \* readings of the wall clock, the arrival of the Message being 1
  Altered(_)   \* a decision changed after the Reducer made it

ASSUME InputsAreTyped ==
  /\ \A t \in Texts : t \in Seq(Token) /\ \A a \in Answers(t) : IsOutput(a)
  /\ \A s \in Snapshots : IsSnapshot(s)

VARIABLES
  phase,       \* where the handler is, or how it ended
  text,        \* the content of the current Message
  snapshot,    \* registry_snapshot of the service
  answer,      \* the Provider's answer
  decision,    \* what the Reducer returned
  stored,      \* the Task and RequestUnit rows
  current,     \* the Task and RequestUnit the handler has loaded
  move,        \* the revalidated move
  gate,        \* the GateDecision
  command      \* the AuthorizedToolCommand

pathVars == <<phase, text, snapshot, answer, decision, stored, current, move, gate,
              command>>
vars == <<pathVars, sealVars>>

(* received_at of the Message and started_at of the Run, one reading.      *)
Arrival == 1

Messages == [ref \in {CurrentRef} |-> text]
NoDecision == [kind |-> "NONE"]

Init ==
  /\ SealInit
  /\ phase = "understanding" /\ text \in Texts
  /\ snapshot \in {s \in Snapshots : SnapshotIsConsistent(s)}
  /\ answer = Nothing /\ decision = NoDecision /\ stored = Nothing /\ current = Nothing
  /\ move = Nothing /\ gate = Nothing /\ command = Nothing

(* propose_next_move returns.                                              *)
Propose ==
  /\ phase = "understanding" /\ phase' = "answered"
  /\ answer' \in Answers(text)
  /\ UNCHANGED <<text, snapshot, decision, stored, current, move, gate, command>>
  /\ UNCHANGED sealVars

(* validate_and_reduce_initial_request_v2: an answer that cannot be traced *)
(* ends the Run as INPUT_INVALID, a decision that is not routable is an    *)
(* error of the Run, a routable one is sealed.                             *)
ReduceAnswer(now) ==
  LET reduction == Reduce(answer, Messages, {}, now)
  IN  /\ phase = "answered"
      /\ decision' = reduction
      /\ phase' = CASE reduction.kind = "ROUTABLE" -> "reduced"
                    [] reduction.kind = "REFUSED"
                         /\ reduction.code # "DURABLE_CLOSURE_COMMIT_FAILED" -> "input_invalid"
                    [] OTHER -> "error"
      /\ IF reduction.kind = "ROUTABLE" THEN Issue(reduction) ELSE UNCHANGED sealVars
      /\ UNCHANGED <<text, snapshot, answer, stored, current, move, gate, command>>

Roots ==
  [owner |-> Owner, messages |-> Messages, run |-> Run, runStatus |-> "RUNNING",
   receivedAt |-> Arrival, startedAt |-> Arrival]

(* create_initial_task_graph_v2_if_current: the command is validated when  *)
(* it is built.                                                            *)
RecordGraph ==
  /\ phase = "reduced"
  /\ IF InitialGraphCommandIsValid(decision.closure.record, decision.graph, Roots)
       THEN /\ phase' = "recorded"
            /\ stored' = [task |-> decision.graph.task, unit |-> decision.graph.unit]
       ELSE phase' = "error" /\ UNCHANGED stored
  /\ UNCHANGED <<text, snapshot, answer, decision, current, move, gate, command>>
  /\ UNCHANGED sealVars

RevalidateUnsealed(o) ==   \* mutant: the seal of the decision is not looked up
  /\ phase = "recorded" /\ o \in Live
  /\ LET held == objects[o].content
         graph == decision.graph
     IN  IF MoveIsCurrent(held, graph.task, graph.unit, graph.binding)
           THEN /\ phase' = "revalidated"
                /\ move' = Revalidated(held, graph.task, graph.unit, graph.binding)
           ELSE phase' = "error" /\ UNCHANGED move
  /\ UNCHANGED <<text, snapshot, answer, decision, stored, current, gate, command>>
  /\ UNCHANGED sealVars

(* revalidate_next_move_v2 on a decision object, against the graph that    *)
(* was just recorded.                                                      *)
Revalidate(o) ==
  /\ phase = "recorded" /\ o \in Live
  /\ LET held == objects[o].content
         graph == decision.graph
     IN  IF Matches(o) /\ MoveIsCurrent(held, graph.task, graph.unit, graph.binding)
           THEN /\ phase' = "revalidated"
                /\ move' = Revalidated(held, graph.task, graph.unit, graph.binding)
           ELSE phase' = "error" /\ UNCHANGED move
  /\ UNCHANGED <<text, snapshot, answer, decision, stored, current, gate, command>>
  /\ UNCHANGED sealVars

LoadTask ==
  /\ phase = "revalidated" /\ phase' = "task_loaded"
  /\ current' = [task |-> stored.task]
  /\ UNCHANGED <<text, snapshot, answer, decision, stored, move, gate, command>>
  /\ UNCHANGED sealVars

LoadUnit ==
  /\ phase = "task_loaded" /\ phase' = "loaded"
  /\ current' = [task |-> current.task, unit |-> stored.unit]
  /\ UNCHANGED <<text, snapshot, answer, decision, stored, move, gate, command>>
  /\ UNCHANGED sealVars

(* evaluate_control_gateway with the arguments the service gives it: the   *)
(* manifest was assembled from the same registry before the Task existed.  *)
FirstManifest ==
  [version |-> snapshot.version, hash |-> snapshot.hash, task |-> Nothing, run |-> Run,
   call |-> "first"]
GateChecks(m, task, unit) ==
  Checks(m, Owner, task, unit, decision.graph.binding, snapshot, FirstManifest, "first",
         0, 1, TRUE)

DecideGate ==
  /\ phase = "loaded"
  /\ gate' = GateDecision(move, GateChecks(move, current.task, current.unit), snapshot)
  /\ phase' = IF gate'.decision = "ACCEPT" THEN "accepted" ELSE "gate_rejected"
  /\ UNCHANGED <<text, snapshot, answer, decision, stored, current, move, command>>
  /\ UNCHANGED sealVars

Authorize ==
  /\ phase = "accepted"
  /\ IF ValidatedRegistration(snapshot, gate.tool) = Nothing
       THEN phase' = "error" /\ UNCHANGED command
       ELSE phase' = "authorized" /\ command' = Authorized(gate, decision.graph.binding, snapshot)
  /\ UNCHANGED <<text, snapshot, answer, decision, stored, current, move, gate>>
  /\ UNCHANGED sealVars

(* Another actor moves the Task and its RequestUnit in one transaction:    *)
(* apply_task_transition or restart recovery.                              *)
MoveTask(status) ==
  /\ stored # Nothing /\ stored.task.status = "ACTIVE"
  /\ stored' = [task |-> [stored.task EXCEPT !.status = status, !.version = @ + 1],
                unit |-> [stored.unit EXCEPT !.status = status, !.version = @ + 1]]
  /\ UNCHANGED <<phase, text, snapshot, answer, decision, current, move, gate, command>>
  /\ UNCHANGED sealVars

(* Decision objects live between their reduction and their revalidation.   *)
Handling ==
  /\ phase = "recorded"
  /\ HandleObjects(Altered(decision))
  /\ UNCHANGED pathVars

Next ==
  \/ Propose
  \/ \E now \in Instants : ReduceAnswer(now)
  \/ RecordGraph
  \/ \E o \in Object : Revalidate(o)
  \/ LoadTask \/ LoadUnit \/ DecideGate \/ Authorize
  \/ \E status \in {"WAITING_USER", "BLOCKED"} : MoveTask(status)
  \/ Handling

Spec == Init /\ [][Next]_vars
=============================================================================
