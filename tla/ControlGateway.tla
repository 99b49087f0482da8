--------------------------- MODULE ControlGateway ---------------------------
(***************************************************************************)
(* The registry of tools and the gate between a revalidated move and the   *)
(* execution of a tool.                                                    *)
(*                                                                         *)
(* A registration pairs the canonical specification of a tool with the     *)
(* name a model sees; a specification is its name and its "body", the      *)
(* description and schemas, which are told apart only as the canonical     *)
(* ones of get_order ("GET_ORDER") or others.  A toolset hash stands for   *)
(* the toolset it is computed from.                                        *)
(***************************************************************************)
EXTENDS RequestReduction

Registration(name, visible, body, effect) ==
  [name |-> name, visible |-> visible, body |-> body, effect |-> effect]

(* The types of a RegistrySnapshot: none of its entries is None.           *)
IsSnapshot(snapshot) ==
  /\ snapshot.toolset \subseteq [name: STRING, body: STRING]
  /\ Nothing \notin snapshot.registrations \cup snapshot.toolset \cup snapshot.names

(* RegistrySnapshot.build.                                                 *)
Snapshot(version, registrations) ==
  LET toolset == {[name |-> g.visible, body |-> g.body] : g \in registrations}
  IN  [version |-> version, registrations |-> registrations, toolset |-> toolset,
       names |-> {[visible |-> g.visible, canonical |-> g.name] : g \in registrations},
       hash |-> toolset]

(* snapshot_is_self_consistent, with the hash of an empty or ambiguous     *)
(* toolset refused.                                                        *)
SnapshotIsConsistent(snapshot) ==
  LET Injective(set, field) == \A a, b \in set : a[field] = b[field] => a = b
  IN  /\ snapshot.toolset # {} /\ Injective(snapshot.toolset, "name")
      /\ snapshot.hash = snapshot.toolset
      /\ Injective(snapshot.registrations, "name")
      /\ Injective(snapshot.registrations, "visible")
      /\ snapshot.names = {[visible |-> g.visible, canonical |-> g.name] :
                             g \in snapshot.registrations}
      /\ {t.name : t \in snapshot.toolset} = {g.visible : g \in snapshot.registrations}

(* _resolve_registration and _resolve_provider_visible_spec: the one entry *)
(* of a name, none when the name is unknown or ambiguous.                  *)
Only(set) == IF Cardinality(set) = 1 THEN CHOOSE x \in set : TRUE ELSE Nothing
CanonicalName(snapshot, requested) ==
  LET binding == Only({n \in snapshot.names : n.visible = requested})
  IN  IF binding = Nothing THEN Nothing ELSE binding.canonical
RegistrationOf(snapshot, requested) ==
  Only({g \in snapshot.registrations : g.name = CanonicalName(snapshot, requested)})
VisibleSpec(snapshot, requested) == Only({t \in snapshot.toolset : t.name = requested})

(* _registration_matches_visible_spec.                                     *)
ShownAsRegistered(registration, spec) ==
  /\ registration # Nothing /\ spec # Nothing
  /\ spec = [name |-> registration.visible, body |-> registration.body]

IsGetOrder(registration) == registration.name = "get_order" /\ registration.body = "GET_ORDER"

(* _closed_get_order_schema_is_valid.                                      *)
SchemaValid(move, registration, spec) ==
  /\ ShownAsRegistered(registration, spec) /\ IsGetOrder(registration)
  /\ DOMAIN move.arguments = {"order_id"}
  /\ Normalize(move.arguments.order_id) # Nothing
  /\ Normalize(move.arguments.order_id) = move.order

(* resolve_validated_get_order_registration.                               *)
ValidatedRegistration(snapshot, requested) ==
  LET registration == RegistrationOf(snapshot, requested)
  IN  IF /\ CanonicalName(snapshot, requested) = "get_order" /\ requested = "get_order"
         /\ ShownAsRegistered(registration, VisibleSpec(snapshot, requested))
         /\ registration.visible = requested /\ IsGetOrder(registration)
      THEN registration ELSE Nothing

----------------------------------------------------------------------------
CheckNames ==
  {"snapshot_match", "registration_valid", "schema_valid", "trusted_field_valid",
   "argument_binding_valid", "budget_valid", "progress_valid", "state_version_valid",
   "action_boundary_valid"}

GraphBindingValid(move, unit, binding) ==   \* mutant: the argument itself is not compared
  /\ unit.bindings = <<binding.id>> /\ move.bindings = <<binding.id>>
  /\ move.bound = binding.value
ArgumentBindingValid(move, unit, binding) ==
  /\ unit.bindings = <<binding.id>> /\ move.bindings = <<binding.id>>
  /\ move.bound = binding.value /\ move.order = binding.value

StateVersionValid(move, customer, task, unit, manifest, call) ==
  /\ task.owner = customer /\ task.id = move.task
  /\ unit.task = task.id /\ unit.id = move.unit
  /\ task.status = "ACTIVE" /\ unit.status = "ACTIVE"
  /\ task.version = unit.version /\ task.version = move.validated
  /\ move.proposedBase = 0
  /\ manifest.task = Nothing /\ manifest.run = move.run /\ manifest.call = call

(* The nine checks of evaluate_control_gateway.  "used" calls of "limit"   *)
(* are the budget.                                                         *)
Checks(move, customer, task, unit, binding, snapshot, manifest, call, used, limit, progress) ==
  LET registration == RegistrationOf(snapshot, move.tool)
      spec == VisibleSpec(snapshot, move.tool)
  IN  [snapshot_match |-> manifest.version = snapshot.version /\ manifest.hash = snapshot.hash,
       registration_valid |->
         /\ CanonicalName(snapshot, move.tool) = "get_order" /\ move.tool = "get_order"
         /\ registration # Nothing /\ spec # Nothing
         /\ registration.visible = "get_order",
       schema_valid |-> SchemaValid(move, registration, spec),
       trusted_field_valid |-> "customer_id" \notin DOMAIN move.arguments,
       argument_binding_valid |-> ArgumentBindingValid(move, unit, binding),
       budget_valid |-> limit = 1 /\ used \in 0..(limit - 1),
       progress_valid |-> progress,
       state_version_valid |-> StateVersionValid(move, customer, task, unit, manifest, call),
       action_boundary_valid |-> registration # Nothing /\ registration.effect = "READ"]

GateReasonRegistryFirst(checks) ==   \* mutant: the registry before the argument binding
  FirstFailure(<<
    Check(checks.snapshot_match, "SNAPSHOT_MISMATCH"),
    Check(checks.registration_valid, "TOOL_NOT_REGISTERED"),
    Check(checks.argument_binding_valid, "ARGUMENT_BINDING_MISMATCH"),
    Check(checks.trusted_field_valid, "TRUSTED_FIELD_INJECTION"),
    Check(checks.schema_valid, "SCHEMA_INVALID"),
    Check(checks.budget_valid, "BUDGET_EXCEEDED"),
    Check(checks.progress_valid, "NO_PROGRESS"),
    Check(checks.state_version_valid, "STATE_VERSION_MISMATCH"),
    Check(checks.action_boundary_valid, "ACTION_REQUIRES_PROPOSAL")>>)
(* The reason of a rejection: the first failing check in this order.       *)
GateReason(checks) ==
  FirstFailure(<<
    Check(checks.argument_binding_valid, "ARGUMENT_BINDING_MISMATCH"),
    Check(checks.snapshot_match, "SNAPSHOT_MISMATCH"),
    Check(checks.registration_valid, "TOOL_NOT_REGISTERED"),
    Check(checks.trusted_field_valid, "TRUSTED_FIELD_INJECTION"),
    Check(checks.schema_valid, "SCHEMA_INVALID"),
    Check(checks.budget_valid, "BUDGET_EXCEEDED"),
    Check(checks.progress_valid, "NO_PROGRESS"),
    Check(checks.state_version_valid, "STATE_VERSION_MISMATCH"),
    Check(checks.action_boundary_valid, "ACTION_REQUIRES_PROPOSAL")>>)

GateDecision(move, checks, snapshot) ==
  [checks |-> checks, tool |-> move.tool, canonical |-> CanonicalName(snapshot, move.tool),
   bindings |-> move.bindings, validated |-> move.validated,
   decision |-> IF \A c \in CheckNames : checks[c] THEN "ACCEPT" ELSE "REJECT",
   reason |-> GateReason(checks)]

(* _GATE_REASON_TO_FAILED_CHECK.                                           *)
FailedCheck ==
  [ACTION_REQUIRES_PROPOSAL |-> "action_boundary_valid",
   ARGUMENT_BINDING_MISMATCH |-> "argument_binding_valid",
   BUDGET_EXCEEDED |-> "budget_valid",
   NO_PROGRESS |-> "progress_valid",
   SCHEMA_INVALID |-> "schema_valid",
   SNAPSHOT_MISMATCH |-> "snapshot_match",
   STATE_VERSION_MISMATCH |-> "state_version_valid",
   TOOL_NOT_REGISTERED |-> "registration_valid",
   TRUSTED_FIELD_INJECTION |-> "trusted_field_valid"]
ASSUME NothingIsNoReason == Nothing \notin {"get_order"} \cup DOMAIN FailedCheck

(* GateDecision.decision_matches_checks.                                   *)
DecisionMatchesChecks(gate) ==
  LET all == \A c \in CheckNames : gate.checks[c]
  IN  IF gate.decision = "ACCEPT"
        THEN /\ all /\ gate.canonical # Nothing /\ gate.validated >= 1
             /\ gate.bindings # <<>> /\ gate.reason = Nothing
        ELSE /\ gate.reason # Nothing /\ ~all
             /\ ~gate.checks[FailedCheck[gate.reason]]
             /\ gate.reason = "ARGUMENT_BINDING_MISMATCH" => gate.bindings # <<>>

(* AuthorizedToolCommand: what the service hands to the executor.          *)
Authorized(gate, binding, snapshot) ==
  [tool |-> "get_order", order |-> binding.value, bindings |-> gate.bindings,
   validated |-> gate.validated, registry |-> snapshot.version]
=============================================================================
