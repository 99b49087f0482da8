------------------------- MODULE DecisionPathSafety -------------------------
(***************************************************************************)
(* What the path from a Message to a tool call promises, stated over its   *)
(* two ends: the words the user wrote, and what was refused or authorized. *)
(***************************************************************************)
EXTENDS DecisionPath

(* The Reducer never builds what its own validators refuse: an answer that *)
(* passed the preflight is decided, whatever mix of candidates and         *)
(* uncertainties it has.  (request_processing.py: the closure, record,     *)
(* graph and decision validators against the code that fills them.)        *)
ReducerClosesItsOwn ==
  decision.kind = "REFUSED" => decision.code # "DURABLE_CLOSURE_COMMIT_FAILED"

(* The record port takes every decision it has a command for, a routable   *)
(* one or one without a Task, unless the clock was set back between the    *)
(* arrival of the Message and the reduction: the commands of records.py    *)
(* validate the same graph with checks of their own.  An unrouted decision *)
(* never reaches the port, and nothing is said of it.                      *)
PortTakesDecision ==
  decision.kind \in {"ROUTABLE", "NO_TASK"} =>
    LET record == decision.closure.record
        valid == IF decision.kind = "ROUTABLE"
                   THEN InitialGraphCommandIsValid(record, decision.graph, Roots)
                   ELSE NoTaskCommandIsValid(record, Roots)
    IN  valid = (record.at >= Arrival)

(* Every claim of a record was quoted from what the user wrote: the inputs *)
(* of the candidates, accepted or rejected, and the resolved references.   *)
(* The place the record gives lies in the text, holds the words it has the *)
(* digest of, and these name the value; and they stand at no other place,  *)
(* so a reader of the text cannot take another occurrence for the one that *)
(* was meant.  The values of an ambiguous reference are no claims: they    *)
(* are recorded as the model gave them and traced to nothing               *)
(* (request_processing.py:843).  A refused answer has no record.           *)
NamesValue(quoted, value) ==
  IF Normalize(value) = Nothing
    THEN \E i \in DOMAIN quoted : quoted[i] = value
    ELSE QuotesOrder(quoted, Normalize(value))
QuotedOnce(claim) ==
  LET first == claim.span.start + 1
      quoted == SubSeq(text, first, claim.span.end)
  IN  /\ claim.ref = CurrentRef
      /\ first \in 1..claim.span.end /\ claim.span.end <= Len(text)
      /\ quoted = claim.digest /\ quoted # text
      /\ \A i \in 1..(Len(text) - Len(quoted) + 1) :
           SubSeq(text, i, i + Len(quoted) - 1) = quoted => i = first
      /\ NamesValue(quoted, claim.value)
RecordsQuoteTheUser ==
  decision.kind \in {"ROUTABLE", "NO_TASK", "UNROUTED"} =>
    LET record == decision.closure.record
    IN  /\ \A i \in DOMAIN record.candidates : QuotedOnce(record.candidates[i].input)
        /\ \A i \in DOMAIN record.context.resolved : QuotedOnce(record.context.resolved[i])

(* A tool is called for the order of the one goal the user stated, and the *)
(* model asked for that same order: no spelling, padding, copy of the      *)
(* decision or replaced argument leads the call elsewhere.                 *)
ToolGetsTheUsersOrder ==
  command # Nothing =>
    /\ Len(answer.candidates) = 1 /\ answer.context.uncertainties = {}
    /\ command.order = Normalize(answer.candidates[1].inputs[1].value)
    /\ QuotesOrder(text, command.order)
    /\ answer.move.kind = "CALL_TOOL" /\ ArgumentOrder(answer.move.arguments) = command.order
    /\ answer.move.tool = "get_order"
    /\ \E g \in snapshot.registrations : g.visible = "get_order" /\ g.effect = "READ"
                                         /\ g.body = "GET_ORDER"

(* The reason of a rejection tells its cause.  A replaced argument is      *)
(* reported whatever else is wrong; an unknown tool before the state of    *)
(* the Task; and a rejected state version means that the Task really moved *)
(* and that the move would have been accepted, or asked for a proposal, if *)
(* it had not.  GateDecision accepts the reason: it names a check that     *)
(* failed.                                                                 *)
Shown(name) == \E g \in snapshot.registrations : g.visible = name /\ g.name = "get_order"
ReasonTellsCause ==
  /\ gate # Nothing => DecisionMatchesChecks(gate)
  /\ gate # Nothing /\ gate.decision = "REJECT" =>
    LET replaced == ArgumentOrder(answer.move.arguments) # decision.graph.binding.value
        known == answer.move.tool = "get_order" /\ Shown("get_order")
    IN  CASE gate.reason = "ARGUMENT_BINDING_MISMATCH" -> replaced
          [] gate.reason = "TOOL_NOT_REGISTERED" -> ~replaced /\ ~known
          [] gate.reason = "SCHEMA_INVALID" ->
               /\ ~replaced /\ known
               /\ \/ \E t \in snapshot.toolset : t.name = "get_order" /\ t.body # "GET_ORDER"
                  \/ \E g \in snapshot.registrations : g.visible = "get_order"
                                                        /\ g.body # "GET_ORDER"
          [] gate.reason = "STATE_VERSION_MISMATCH" ->
               /\ stored.task.version > 1
               /\ LET asRecorded == GateChecks(move, decision.graph.task, decision.graph.unit)
                  IN  GateReason(asRecorded) \in {Nothing, "ACTION_REQUIRES_PROPOSAL"}
          [] gate.reason = "ACTION_REQUIRES_PROPOSAL" ->
               /\ ~replaced /\ known
               /\ \E g \in snapshot.registrations : g.visible = "get_order" /\ g.effect # "READ"
               /\ current.task = decision.graph.task /\ current.unit = decision.graph.unit
          [] OTHER -> FALSE

(* What is revalidated is what the Reducer decided for this Run, although  *)
(* the handler may hold a copy or a restored pickle of it.                 *)
RevalidatedIsReduced ==
  move # Nothing =>
    LET graph == decision.graph
    IN  move = Revalidated(decision, graph.task, graph.unit, graph.binding)

----------------------------------------------------------------------------
(* Why the seals hold: the inductive invariant of the theorems about them. *)

(* Every object has the entry of its seal to itself, every entry vouches   *)
(* for a decision of the Reducer, and for the very content of an object    *)
(* that was not changed.                                                   *)
Registered ==
  /\ \A o \in Live :
       /\ objects[o].seal \in DOMAIN registry
       /\ registry[objects[o].seal].object = o
       /\ objects[o].content \in reduced =>
            registry[objects[o].seal].digest = Digest(objects[o].content)
  /\ \A s \in DOMAIN registry :
       /\ registry[s].object \in Live
       /\ objects[registry[s].object].seal = s
       /\ \E c \in reduced : registry[s].digest = Digest(c)

(* A ticket was issued for a decision of the Reducer, and is outstanding   *)
(* or restored, once, but never both.                                      *)
Ticketed ==
  /\ issued \in Nat
  /\ \A t \in DOMAIN tickets :
       t \in 1..issued /\ \E c \in reduced : tickets[t] = Digest(c)
  /\ \A w \in DOMAIN restoring :
       restoring[w].ticket \in 1..issued /\ restoring[w].content \in reduced
  /\ \A o \in Live : objects[o].ticket \in 0..issued
  /\ TicketRestoresOnce

(* The Reducer decides once in a Run, before any decision object exists.   *)
DecidedOnce ==
  /\ reduced \subseteq {decision}
  /\ phase \in {"understanding", "answered"} =>
       Live = {} /\ reduced = {} /\ move = Nothing

SealInv == Registered /\ Ticketed /\ DecidedOnce /\ RevalidatedIsReduced

----------------------------------------------------------------------------
(* Why the path holds: the inductive invariant of the theorems about its   *)
(* two ends.  Every later state is what one answer, reduced at one         *)
(* instant, led to.                                                        *)

(* How far the handler came.  A Run that failed keeps what it had.         *)
Authorizing == phase = "authorized" \/ command # Nothing
Judged == Authorizing \/ phase \in {"accepted", "gate_rejected"} \/ gate # Nothing
BothLoaded == Judged \/ phase = "loaded"
TaskLoaded == BothLoaded \/ phase = "task_loaded"
MoveKnown == TaskLoaded \/ phase = "revalidated"
GraphRecorded == MoveKnown \/ phase = "recorded" \/ stored # Nothing

NothingEarly ==
  /\ phase \in {"understanding", "answered", "reduced"} => stored = Nothing
  /\ phase \in {"understanding", "answered", "reduced", "recorded", "revalidated",
                "task_loaded", "loaded"} => gate = Nothing /\ command = Nothing

Understood ==
  /\ text \in Texts /\ snapshot \in Snapshots /\ SnapshotIsConsistent(snapshot)
  /\ phase # "understanding" => answer \in Answers(text)
  /\ IF phase \in {"understanding", "answered"} THEN decision = NoDecision
     ELSE \E now \in Instants : decision = Reduce(answer, Messages, {}, now)
  /\ phase = "reduced" => decision.kind = "ROUTABLE"

(* A row is as it was recorded, or was moved, once, with the Task.         *)
Rows(row) ==
  {row} \cup {[row EXCEPT !.status = status, !.version = @ + 1] :
               status \in {"WAITING_USER", "BLOCKED"}}
RowsAreOurs ==
  LET graph == decision.graph
  IN  /\ decision.kind = "ROUTABLE"
      /\ stored.task \in Rows(graph.task) /\ stored.unit \in Rows(graph.unit)
      /\ stored.task.version > 1 \/ (stored.task = graph.task /\ stored.unit = graph.unit)
LoadedFrom(row, recorded) ==
  row \in Rows(recorded) /\ (row = recorded \/ stored.task.version > 1)

PathInv ==
  LET graph == decision.graph
  IN  /\ NothingEarly /\ Understood
      /\ GraphRecorded => RowsAreOurs
      /\ MoveKnown =>
           /\ move = Revalidated(decision, graph.task, graph.unit, graph.binding)
           /\ MoveIsCurrent(decision, graph.task, graph.unit, graph.binding)
      /\ TaskLoaded => LoadedFrom(current.task, graph.task)
      /\ BothLoaded => LoadedFrom(current.unit, graph.unit)
      /\ Judged =>
           gate = GateDecision(move, GateChecks(move, current.task, current.unit), snapshot)
      /\ Authorizing \/ phase = "accepted" => gate.decision = "ACCEPT"
      /\ Authorizing => command = Authorized(gate, graph.binding, snapshot)
=============================================================================
