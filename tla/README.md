# mini-agent in TLA+

`src/` is a conversational order-status agent: one user message becomes one *Run*, a Run asks a
model for its next move, at most one read-only tool call (`get_order`) is authorised and executed,
and a deterministic renderer produces the answer. Everything a Run does is recorded in PostgreSQL
as it happens, by small conditional transactions, so that a process that dies in the middle leaves
records a later process can close. The difficulty of the program lies there: **many short
transactions, two or more processes over one database, and no lease between them.**

This directory holds the TLA+ model of that core, of the decision that leads from a message to the
one tool call, and of what a Run leaves behind as evidence; their TLC instances; and TLAPS proofs for
every number of Runs, processes and faults, of database sessions, of decision objects, seals and workers, and of
evaluation commands.

## 1. Inventory

Paths are relative to `src/src/mini_agent/`.

| Component | State | Operations | Interacts with | What is hard | What makes it correct |
|---|---|---|---|---|---|
| Agent Run service (`application/agent_run_service.py`, `deterministic_renderer.py`) | `_RunFailureState` cursor (running Run, active link, last known Task), current Task and RequestUnit, Trace sequence | `handle`: intake, start, understanding, Task graph, revalidation, hook, Gate, read, presentation, finalization; `_finalize_failed_run_after_error` | record port, model provider, read tool executor | state read several awaits before use; exceptional closure after a lost acknowledgement; recovery by another process between two writes | the answer returned is the one stored; a request always ends; a failure never reopens or rewrites a closed Run |
| Read tool executor (`application/read_tool_executor.py`) | none of its own; ToolCall, attempt, Observation rows | `execute_get_order`: insert, fence, one read under `asyncio.timeout`, finalize, Observation; interruption on cancellation | record port, order port | answer, timeout, cancellation and recovery race for one ToolCall | at most one attempt; no read before the fence; no Observation without a SUCCEEDED read |
| Durable record store (`infrastructure/persistence/postgres.py`, `application/records.py`) | the P0 record table: Run, Task, RequestUnit, RunTaskLink, ToolCall, attempt, Observation, Message, documents, Trace | conditional writes, compare-and-set on the exact expected record | everybody | READ COMMITTED row locks taken one after another; writes not fenced by the Run's status | terminal aggregate commits all or nothing; no open child under a terminal Run |
| Restart recovery (`application/restart_recovery_service.py`, `infrastructure/persistence/recovery.py`) | the loaded closure | load next active Run (REPEATABLE READ), claim and apply (SERIALIZABLE) | record store | two instances claim one Run; the Run is still alive elsewhere; a closure its validators refuse | exactly one closes each orphan; startup always ends; every closure it meets is loadable |
| Composition root (`bootstrap.py`) | started / serving | `start`, `close`, runtime-fault hook | recovery, service | must not serve over orphans | a single process serves only after recovery is complete |
| Control Gateway (`core/control_gateway.py`) | none | `evaluate_control_gateway`, decision record, `authorize` | service, registry | nine checks whose order decides the reason; the state it judges was loaded in two transactions after revalidation | the reason reported is the first failing boundary and a real cause; no read is authorised on a Task that moved |
| Request understanding and reduction (`core/request_processing.py`, `request_understanding.py`) | the seal registry and the pickle tickets of a process | preflight and tracing of a Provider answer, reduction to records and one initial graph, sealing, copying, pickling, revalidation | service, record port | four layers re-validate what the first one built; offsets and quotes; object addresses are used again; one pickle may be restored again | the Reducer never builds what a validator refuses; records quote the user; what is revalidated is what was reduced |
| Tool system and registry (`core/tool_system.py`) | immutable snapshots | registration, hashing, resolution of a name, decision and command validation | Gate, executor | names visible to the model against canonical names | a tool is called only through one unambiguous READ registration |
| Task state records (`core/task_state.py`) | none | Task and RequestUnit records and transitions, the request-understanding record | store | versions; candidates, decisions and deltas must agree | Task and RequestUnit move together |
| Exact-run evidence loader (in `postgres.py`, `ExactRunEvidenceClosure` in `records.py`) | none | two-way selection from the Run row, caps, validation of the closure | evaluation | which rows a Run cut off at any point has left; references of rows written without a condition | the evidence of an answered Run loads, any other loss has a known cause |
| Persistence codec (`application/persistence.py`, `infrastructure/persistence/models.py`) | none | encode and decode envelopes, project references, derive the owner | store | a row is refused when what it names is missing | every row resolves when it is written |
| Database plumbing (`infrastructure/persistence/database.py`, `migrations.py`) | engine | connect, migrate | — | pure I/O | — |
| Order port (`infrastructure/order/postgres.py`) | read-only table | `get_order` | executor | four outcomes | — |
| Session and HTTP (`infrastructure/auth/p0_session.py`, `api/http.py`) | static sessions | resolve a session, map results to status codes | service | — | — |
| Model provider (`infrastructure/model/qwen_responses.py`) | none | two structured calls | service | remote failures | — |
| Evaluation harness (`evaluation/harness.py`) | replay cache, issued nonces, pending executions; stored results, failures and `EvalCaseGraded` events | `run_lane`, `run_qwen_baseline`: select, stage (execute, grade, reload), join the disclosure pair, append results | composition root as the system under test, Trace and result ports | commands interleave at each await and in several processes; a result insert fails after its graded event; a cached result is used instead of the store | a PASS or FAIL is about its own execution; each Case is accounted for once; nothing stored changes |
| Graders (`evaluation/graders.py`) | none | one grader per record kind, `derive_grading_outcome`, comparison of the pair | harness | reads a Trace other components wrote, whose order the table only partly keeps | an answered Run is graded complete, a failed or recovered one is not |
| Scripted provider, artifacts (`evaluation/scripted_provider.py`, `artifacts.py`) | position in the script | two model calls, runtime fault | harness | — | the script is exhausted |
| Presentation (`core/presentation*.py`) | none | policy and renderer | service | wording | — |

Who calls whom: HTTP → service → {provider, record port, executor → order port}; startup → recovery
→ record store. Processes share nothing but the database.

What the code's scheduling gives. The record adapters are synchronous code inside `async def`
methods: within one process a store call runs without a suspension point, so a cancellation reaches
a handler only while it awaits a provider, the hook or the order port. Between two store calls of
one handler, however, another *process* may commit anything, and the process may die.

`PROJECT.json` lists every hazard with its source line and the properties that guard it.

## 2. Modules

| Module | What it is |
|---|---|
| `RunRecords` | one Run's record aggregate and each conditional write on it: a predicate (when the compare-and-set applies) and an operator (what it commits) |
| `RunRecordsInvariant` | what one aggregate satisfies by itself |
| `AgentRun` | the handlers (service and executor), the processes, their startup recovery, crashes and lost acknowledgements, over a database of aggregates |
| `AgentRunSafety` | properties of `AgentRun`: type, safety, inductive invariant, action properties, refinement mapping, liveness |
| `RunLifecycle` | the abstract specification: what the record port promises about a Run |
| `RecordTransactions` | the same conditional writes as the database runs them: row locks one after another, unlocked reads, deferred foreign keys, READ COMMITTED against SERIALIZABLE, lost connections, deadlock aborts |
| `RecordTransactionsSafety` | its inductive invariant `ReadsHold`, the refinement of `AtomicRecords`, deadlock and progress properties |
| `AtomicRecords` | the abstract specification of the record port: each conditional write happens at one instant or not at all, which is what `AgentRun` takes for granted |
| `MCAgentRun`, `MCRecordTransactions`, `MCEvalHarness` and the `.cfg` files | finite instances |
| `EvalHarness` | the evaluation commands of both lanes, Case by Case, over the stored results, failures and graded events, with cancellation and the death of a process |
| `EvalHarnessSafety` | its safety and liveness properties, the inductive invariants `LedgerInv`, `PairInv` and `AccountInv`, and the refinement mapping |
| `EvalLedger` | the abstract specification of the stored evaluation records |
| `TraceGrading` | how the Trace of a Run is listed from the table and how `TraceCompletenessGrader` judges it |
| `TraceGradingSafety` | composes `TraceGrading` with `AgentRun`: the Traces Runs leave behind, graded; the events of each point of a handler, `StoryInv` |
| `RequestUnderstanding` | what a Provider may answer, its preflight, and the tracing of each value to the words it was quoted from |
| `RequestReduction` | the decision about each candidate, the graph and the closure, and each of the four validators as an operator of its own |
| `ControlGateway` | registry snapshots, the nine checks and their priority, the GateDecision and the authorised command |
| `DecisionSeal` | decision objects, their seals, copies and pickles, the registry and the tickets, and workers that restore |
| `DecisionPath` | composes the four: from the answer of the Provider to the authorised command, with a Task that moves and a clock that is set back |
| `DecisionPathSafety`, `MCDecisionPath` | its properties and the inductive invariants `SealInv` of the seals and `PathInv` of the path; its finite instance |
| `RunReferences` | the rows behind an aggregate, what each refers to, and the derivation of a row's owner |
| `RunEvidence` | the loader of those rows with the validators of the closure |
| `RunEvidenceSafety` | composes `RunEvidence` with `AgentRun`: which Runs leave evidence that loads |
| `AgentRunProofs` | every write keeps `Consistent` and an aggregate's type; the inductive invariant and the safety theorems; what a step may do to an aggregate: `ClosedForever` and the refinement of `RunLifecycle` |
| `AgentRunTraceProofs` | no Trace event is ahead of its record; every row a Run stores resolves; only an answered Run is graded complete; recovery before service with one process |
| `AgentRunEvidenceProofs` | which Runs leave evidence that loads: how far each handler is, what its Trace has yet to tell, and the validators of the loader on what is left; the events of a Run one by one, and their grading as each variant |
| `RequestReductionProofs` | lemmas about the operators of the decision path: quotes, normalisation, the first failing check, the validators of what `Reduce` builds |
| `DecisionPathProofs` | the seals: what is revalidated is what was reduced, a pickle is restored once; the path: what the records, the Gate and the tool get is what the user wrote |
| `RecordOutcomesProofs` | what each transaction leaves when its reads agree with the records: the conditional write of its command |
| `RecordTransactionsProofs` | `ReadsHold`, the refinement of `AtomicRecords`, and the absence of wait cycles among Run-first writes |
| `EvalHarnessProofs` | `LedgerInv`, `PairInv` and `AccountInv`, five safety properties of the evaluation and the refinement of `EvalLedger` |

### Correspondence with the code

`db[r]` is the content of the record table for Run `r`; its rows are told apart by status and
version, identifiers and payloads are left out because every compare-and-set of the code compares
whole records of one owner and one Run. Each record-port call is one transaction in the code and
one action here, through `StoreCall`: it applies and commits, or its condition fails
(`NOT_CREATED`, `CONFLICT` and the like, which the service turns into an exception or a return), or
it raises, *before or after its transaction committed* (the acknowledgement is lost).

`h[r]` is the local state of `handle`: `pc` is the next call, `running`/`cursor` are
`_RunFailureState`, `task`/`unit` are `current_task`/`current_unit`, `stop` the reason about to be
recorded, `outcome` what the order port answered, `result` what was returned. The twenty-two plain
inserts (documents and Trace events, in the service's order) share one action, `PlainWrite`, with
`WriteAt` and `NextPoint` giving what is written and what comes next.

Pure decisions whose data is abstracted become nondeterministic verdicts: the reduction of the
provider's proposal, the Gate's boundaries other than the state boundary, the presentation
validators and the renderer. The Gate's *state* boundary is modelled exactly (`StateVersionValid`),
since it depends on records another actor may change.

`phase[p]` is a process: `down`, `loading` and `claiming` (the recovery loop of `start`), `serving`.
`claim[p]` is the closure it loaded. Any recovery outcome other than APPLIED fails startup closed, as in
`bootstrap.py`. The code orders active Runs by `started_at`, a wall clock of whichever process
accepted the message, so the model picks any active Run.

`RecordTransactions` looks inside one `StoreCall`. A session (`Handlers`, `Recoverers`) executes one
command at a time; `at` is how far its transaction is (`loaded` → `locking` → `surveying` →
`committing`), `view` the rows as it read them, `held` its `FOR UPDATE` locks, `shared` its
`FOR KEY SHARE` locks. What each command locks (`Wanted`), reads behind the Run lock without locking
(`Consulted`), replaces (`Replaced`), touches (`Updated`, the recovery anchor) and references
(`Referenced`) is tabulated from the adapter's methods. Whether it applies and what it commits are the
operators of `RunRecords` on its *view*, so the refinement compares what the transaction read with what
is committed. A recovery reads everything from the snapshot of its first statement; `stale` holds the rows others
have updated since, and locking one of them is SQLSTATE 40001 without a wait. The references of a rewritten
envelope are deleted and inserted again, and their foreign keys, `DEFERRABLE INITIALLY DEFERRED`,
lock the referenced rows when the transaction commits, in the order of `_normalize_references`.
Sessions do not follow the service's order of calls: any of them may issue any write at any time, except
that an event is appended once, and one about a ToolCall only after its insertion.

`call[c]` in `EvalHarness` is a command of `run_lane` or `run_qwen_baseline`: `pc` is the next port call,
`at` the position in the selection, `staged` the dictionary of the same name, `results` and `failures` what the
outcome will report. An execution is the number of its one-time `execution_ref`, and stands for the Run and the Trace
it produced; what the record graders say of it and what the client observes are arbitrary. `Return` covers the
answer of the system under test up to the first grading, with one disjunct for each kind of failure, and another for
evidence of a different execution (`Stale`). A port call that fails spends one of `MaxFaults`, and may have
committed. `_append_failure` that fails ends the command (`EvalHarnessCommandError`), which the code does in the
middle of any other step, so `Fail` is an operator and not an action. `_issued_nonces` and the pending references
are the numbering of `executions`. `graded`, `results` and `failures` are rows of the same table as the Run's records; the
identity of a graded event is `uuid5` of the key, so `GradedInsertable` compares events by key.

`TraceGrading` reads the edges of `_TRACE_EDGES_BY_VARIANT` as chains. A Trace in `AgentRun` is a sequence of event
types in the order of their transactions; `Arrangements` are the orders in which the table may return it, where the events
of the terminal transaction, which share `stored_at`, are ordered by random identities, and `Listed` the repair of
`list_trace_events_for_owner`. A composed state of `TraceGradingSafety` is a state of `AgentRun`.

**The decision path.** A text is a sequence of tokens, each a word or one spelling of an order id, so offsets,
quotes and normalisation are those of `request_processing.py` on what they distinguish. An answer that is not
well formed is told apart by one attribute, `shape`, which stands for exact runtime types and undeclared
attributes. `Reduce` is `validate_and_reduce_initial_request_v2`: preflight, tracing, one decision
per candidate, the graph of the accepted one, the closure; it gives `REFUSED`, `NO_TASK`, `UNROUTED` or
`ROUTABLE`. The record of `task_state.py`, the closure, the decision that holds it and the command of the record
port check the same graph in four places; each is a separate operator translated from its own lines, so that their
agreement (`ReducerClosesItsOwn`, `PortTakesDecision`) says something. `Checks` and `GateReason` are the nine checks
and their priority, applied to the Task and the RequestUnit that `LoadTask` and `LoadUnit` fetched at different
moments, while `MoveTask` (a hook, a recovery in another process) may act. A registry snapshot is its registrations; a hash stands for
the toolset it is taken of.

`DecisionSeal` is the in-memory protocol of `initial_routable_decision_seal`: `objects` are the live decisions
by address, `registry` is `seal_registry`, `tickets` and `issued` are `pickle_ticket_registry` and
`pickle_ticket_ids`. A worker reads the ticket (`restoring`) before it pops it, since nothing locks the two; no code of the program pickles a
decision (its tests do), so the workers show what the protocol allows and not threads the service has. The entry of
an object is dropped when it is collected; after that its address and that of its seal may be used again.

**Evidence.** `StoredRows(d)` and `ReferencesOf(d)` give the rows of an aggregate and what the encoder projects
into the reference table; `OwnersDerived` is the derivation of the owner that refuses a write naming a missing row. The code
walks the references until it has seen every row it reaches; the model demands that all of them are there, and an owner
within three of them, which is the longest way there is (Gate, manifest, Run, Conversation).
`EvidenceLoads` follows the loader: rounds of selection from the Run in both directions, the relation whitelist, the caps,
and the validators of `ExactRunEvidenceClosure`. Identities, digests and schema versions agree for rows that the
program itself wrote and are left out. The loader is called for a Run before it is graded (`bootstrap.py:916`), so the aggregate has no
`EvalCaseGraded` event.

## 3. Runs

| Run | Instance | Shows |
|---|---|---|
| `overlap` | 1 Run, 2 processes, at most 2 faults, `FairSpec` (113,757 states) | all safety invariants of a Run, the inductive invariant, the grading of its Trace (`AnsweredTracePasses`, `OnlyAnswersPass`), the loading of its evidence (`AnsweredEvidenceLoads`, `EvidenceLossIsExplained`), the references of every plain insert (`PlainWritesResolve`), `ClosedForever`, the refinement of `RunLifecycle`, and `HandlerEnds`, `StartupEnds`, `OrphansClosed` |
| `restart` | 2 Runs, 1 process, at most 2 faults (754,000 states) | `RecoveredBeforeServing` |
| `tx_atomicity` | 1 handler session, 1 recoverer, one Trace event, `FairSpec` (128,627 states) | `ReadsHold`, the inductive invariant of the transactions, `RunFirstNeverDeadlocks`, the refinement of `AtomicRecords`, `TransactionEnds` |
| `tx_race` | 1 handler session, 2 recoverers, no Trace event (1,032,547 states) | the refinement again, with recoveries that compete |
| `tx_deadlock` | as `tx_atomicity` | a violation: see *Findings* |
| `eval_pair` | 2 commands in 2 processes on the pair in either order, at most 1 fault (1,144,000 states) | `PairPassesAlike`, `PassedMeansStored`, `EveryCaseAccountedOnce`, the refinement of `EvalLedger` |
| `eval_replay` | 2 commands on 1 harness, a Case with two scripts or the pair, at most 1 fault and 1 crash (1,869,000 states) | `JudgedOnOwnExecution`, `ReportedIsStored` |
| `eval_progress` | 2 commands of any kind, both lanes, refused or not, `FairSpec` (9,003 states) | `EveryCommandEnds` |
| `partial_pass` | as `eval_pair`, on one harness | a violation: see *Findings* |
| `decision_path` | 4 texts with right and wrong answers, 7 registries, 2 orders, 2 clock readings, 2 object addresses, 2 seals, 2 workers, 1 pickle (355,920 states) | `ReducerClosesItsOwn`, `PortTakesDecision`, `RecordsQuoteTheUser`, `ToolGetsTheUsersOrder`, `ReasonTellsCause`, `RevalidatedIsReduced`, and of the seals `SealedIsReduced`, `UnchangedStaysSealed`, `TicketRestoresOnce` |
| `failure_closure` | 1 Run, 1 process, no fault | a violation: see *Findings* |
| `live_run_claimed` | 1 Run, 2 processes, no fault | a violation: see *Findings* |

Why the bounds are enough. The aggregates of two Runs never share a row in the model (nor, apart
from Conversation and Session rows that no guard reads, in the code), so the interesting
interleavings are between *one* handler and *several* recoveries of its Run: one Run and two
processes contain the handler, a recovery while it lives, and two recoveries competing. Two Runs are
needed only where a recovery *loop* matters. `MaxFaults`, the only counter bound, counts process
crashes and raised store calls together. Two of them allow a lost acknowledgement followed by a crash, a
crash during the recovery of a crash, and a failed closing write after a failed write; for any larger
number the safety properties are proved.
For the transactions nothing is counted: the records of one Run are finite, and the commands carry one reason, one
terminal status and one event, since every reason and every status takes the same path through the locks.
Two sessions contain every pair of transactions, three also a transaction overtaken by two others; `tx_race` leaves
out `append_trace`, which only inserts and, having no row of its own to lock, only makes others wait. Symmetry of
the two recoverers is used in `tx_race`, a safety run. The safety properties of both runs are proved for any number of sessions, tasks,
reasons, statuses and events. Deadlock checking is on in the runs of these modules: `Boot` is
always possible for a process that is down, and a session that waits can always lose its connection.

In `EvalHarness` a command is called once and the system stops when all are over, so deadlock checking is off in its
runs. Two commands are the pairs that can meet on a key, or meet again through the cache; a third would only repeat one
of the two roles. `MaxFaults` counts failed port calls and executions and cancellations, `MaxCrashes` deaths of a process.
One fault suffices for each single failure, including a failing insert whose acknowledgement is lost; a failure that
itself cannot be recorded needs two and ends the command at once. The attempt is always 1: attempts, like lanes, only
tell keys apart, and the two Cases of the pair and the lanes of `eval_progress` are already distinct keys. `JudgedOnOwnExecution`,
`ReportedIsStored`, `PassedMeansStored`, `EveryCaseAccountedOnce`, `PairPassesAlike` and `ImplementsLedger` are proved for any number of commands, Cases, faults and crashes.

In `decision_path` a Message is handled once, so deadlock checking is off. Each of the four texts is there for a way to be
wrong: one order, two orders of which one in lower case, one order named twice, and an order id glued into a word; `SmallAnswers`
mixes right answers with quotes that stand nowhere or twice, foreign Messages, padded values, replaced arguments, duplicated candidates and uncertainties. The seven
registries differ in name, effect, schema and ambiguity. The arrival is instant 1, and the reduction may read an
earlier clock. Two addresses are enough for an address to be used again by another object, and two workers for
a race on one ticket; the theorems hold for any number. Addresses, seals and workers are interchangeable (`SYMMETRY Addresses`).

Every property of a passing run has a mutant in `PROJECT.json`: a change of a mapped definition, kept
next to it in its module under a comment `mutant:`, under which TLC finds the property violated.

### Fairness

`FairSpec` assumes weak fairness of each handler's next step and of each begun recovery
(`LoadClosure \/ ClaimAndApply`). The event loop runs whatever can proceed, and what a handler
awaits ends: the order port is under `asyncio.timeout`, the provider client has a request timeout,
store calls are synchronous. Nothing is assumed of booting, accepting, shutting down or crashing;
`OrphansClosed` states its own premise, that startups keep happening.

For the transactions, `FairSpec` assumes strong fairness of each session's next statement: the database
queues the waiters of a row, so a lock that is freed again and again is granted; a session that is not waiting
runs its next statement. Deadlock detection is weakly fair. Beginning a transaction and losing a connection are not fair.

For the harness, `FairSpec` assumes weak fairness of each command that has begun: the stores answer or raise, and the system
under test returns or raises (its remote calls have timeouts). Calling, cancelling and crashing are not fair.

### Findings

* `failure_closure`. If the order port raises anything but a timeout or a cancellation, or the
  ToolCall's finalization is refused or fails, the ToolCall stays RUNNING. The exceptional closure is
  then refused (`PROJECTION_CONFLICT`: an active ToolCall remains) and only a note is added to the
  exception. The Run stays RUNNING until some process restarts, whereas the implementation
  specification (line 1547) says the path reliably closes the Run and its link. The invariant
  `FailureClosureReliable` states the sentence; TLC's counterexample needs no fault.
* `live_run_claimed`. Recovery selects any CREATED or RUNNING Run. The specification (line 1553) speaks of
  Runs *left by the previous process* and allows several instances to start; an instance that starts
  while another serves closes the other's live Run. `RecoversOnlyOrphans` states the sentence. The
  consequences are bounded by what is proved: the late handler's writes are refused
  or harmless, and it cannot answer.
* `tx_deadlock`. The plan of the record store (`.planning/phases/01-cycle-1-e2e-01/01-06R-PLAN.md:314`) answers the
  lock race with a stable lock order. The order is kept by the explicit locks only: dispatching or finalizing a
  ToolCall locks its row and reaches the Run, RequestUnit and Task at the commit, through the deferred
  foreign keys of its re-inserted references, while a recovery holds the Run and waits for the ToolCall. The
  database aborts one of them; the recovery answers CLOSURE_CONFLICT, which fails its startup closed, or
  the handler's write raises. Nothing else is lost: `TransactionsAreAtomic` and `TransactionEnds` hold with the
  abort, and `RunFirstNeverDeadlocks`, which is also proved, shows that the writes that lock the Run first cannot form a
  cycle among themselves or with recoveries.
* `partial_pass`. The plan of the harness (`.planning/phases/01-cycle-1-e2e-01/01-07-PLAN.md:347`) concludes from staging the
  whole selection first that an incomplete pair cannot leave a partial PASS. The results are then inserted one by one: if the
  second insert fails or the process dies between the two, a PASS of half a pair stays. The comparison itself did take place, as
  `PairPassesAlike` shows. Nor can the half be repaired under its key: the graded event of another
  execution conflicts, and the command records TRACE_PERSISTENCE.

### What the models show about the code

Not disagreements, but facts a maintainer may want to know.

* *The clock.* The loader refuses the evidence of an answered Run whose presentation manifest was assembled at the
  same clock reading as its final transition (`records.py:3910` is strict): `AnsweredEvidenceLoads` is stated with that
  condition. A clock set back between the arrival of a Message and its reduction makes the command
  for the initial graph invalid and the Run fails; `PortTakesDecision` says that nothing else does. It is about the decisions the
  port has a command for: a decision that is not routable although it has a Task raises before.
* *What a record quotes.* The inputs of the candidates and the resolved references of a record are words of the user at a place where
  alone they stand (`RecordsQuoteTheUser`). The values of an ambiguous reference are not: `_project_contextualization_v2` keeps the
  uncertainties as the model gave them (`request_processing.py:843`), and in `decision_path` a record holds two orders for a text that names one.
* *Evidence of a Run that was not answered* is lost for three causes and no other (`EvidenceLossIsExplained`): the
  handler was cut off between a tool write and its Trace event, between an Observation and its event, or a late handler stored
  a presentation manifest for a Run that a recovery had closed. The reply Message of an answered Run is never selected by the loader.
* *Branches that are not reached.* The executor refuses a non-canonical `source_version` (`read_tool_executor.py:329`) before the
  branch of the service for it (`agent_run_service.py:736`); `REQUIRED_INPUT_MISSING` is not reachable for an output in canonical
  form; the snapshot, budget, progress and trusted-field checks of the Gate never fail with the arguments the service passes.
* A Gate whose Task moved rejects with `STATE_VERSION_MISMATCH`, where
  `docs/architecture/intent-design-reference.md:655` groups a version mismatch under `ARGUMENT_BINDING_MISMATCH`.

## 4. Proofs

Assumptions: `ValuesAssumption` (the two null values are not Runs or processes) and
`BoundAssumption` (`MaxFaults` is a natural number), both of module `AgentRun`; `TicketBound` (`MaxTickets` is a natural
number) of `DecisionSeal`; `ClientsAssumption` (no session is both a handler's and a starting process's) and `CommandsAssumption`
(the arguments of commands are Tasks, reasons, statuses and events of the records, and an inserted and an absent Task are among them) of
`RecordTransactions`; `HarnessAssumption` (a call is made in a harness; a command has a lane, an attempt and a finite sequence of Cases;
the pair is two different Cases; the two bounds are natural numbers) and `NoneAssumption` (the null value is neither an execution nor a
result) of `EvalHarness`; `NothingIsNoFailure`, `DistinctRefs`, `NothingIsNoReference` and `NothingIsNoReason` (null values are none of
the codes, orders and references they stand beside, the two Messages have different references) and `InputsAreTyped` (a text is a sequence of tokens, the lists of an answer are
sequences, its claims and uncertainties have the values their models in the code admit, and a registry has the fields of a snapshot) of the decision path. TLC evaluates them on the runs of those modules. `Runs`, `Procs`, `Handlers`, `Recoverers`, `Object`, `Seal`,
`Worker`, `Calls`, `Harnesses` and `Cases` are arbitrary sets, finite or not, as are the texts, answers, registries and clock readings.

**The inductive invariant.** `IndInv` is `TypeOK` and, for every Run,

* `Consistent(db[r])` — the aggregate by itself: Run, link and Task fit (`GraphConsistent`); ToolCall,
  attempt and Observation fit (`ToolConsistent`); a terminal Run has the reply, reason and single
  `RunStopped` event of its status (`Evidence`). It is needed because recovery acts on any aggregate at any
  time, whatever the handler is doing;
* `Stage(h[r], db[r])` — what the handler's point tells of the Run: while it works the Run is RUNNING or was
  made INCOMPLETE by a recovery, the records it loaded are current as long as the Run is RUNNING, and
  what it is about to record is deserved. The finalization is a compare-and-set on the Task the
  handler remembers, so without `InStep` nothing relates the answer to the records;
* `ToolAt`, `ReadAt` — the status of the ToolCall at each point and whether the order port was called,
  which the fence and the Observation depend on.

TLC checks `IndInv` as an invariant of `overlap`.

**The argument.** The first part of `AgentRunProofs` proves that each conditional write, applied under its
condition, keeps `Consistent` and the aggregate's type; for recovery this needs `Once` over the Trace sequence.
The rest reduces every handler action to the three outcomes of
`StoreCall` (lemma `StoreCallSound`), and proves for each that handler and aggregate stay in step
(`Good`); a recovery step keeps `Stage` because every stage allows an INCOMPLETE Run.
`NextIndInv` combines one lemma per action. The theorems follow: `AgentRunInvariant`, `TypeCorrect`,
`TerminalEvidenceHolds`, `ClosedRunIsClosedHolds`, `ActiveClosureLoadableHolds`,
`DispatchBehindFenceHolds`, `ObservationHasSourceHolds`, `AnswerIsDurableHolds`.

The last part of `AgentRunProofs` classifies what a step can do to an aggregate (`StepWrites`: leave it, or
apply one write under its condition). Two theorems follow: `VerdictIsFinal`
(`Spec => ClosedForever`) and `LifecycleImplemented` (`Spec => ImplementsLifecycle`: under the mapping
`Life`, initial states map to initial states and each step to a step of `RunLifecycle` or a stutter).

`AgentRunTraceProofs` proves `TraceTellsTruthHolds`. `IndInv` does not say which documents are stored, so the theorem
needs a second invariant, `TraceInv`: from its point in the service a handler has stored the two manifests and the
Gate decision its later events refer to (`Filed`). An event true of an aggregate stays true under every conditional write (`ToldKept`), the events a
terminal transaction appends are true of what it commits (`NewEventsTold`), and a plain insert is of an event that its point
makes true (`PlainTold`). `RecoveredBeforeServingHolds` assumes that there is one process: no call of a handler kills it, and
the only step into `serving` has found no active Run.

`PlainWritesResolveHolds` is about rows that no condition guards: a manifest, a decision or an event is inserted at whatever point
the handler goes on, and the insert fails if a row it names is missing or leads to no owner. It needs a third invariant, `ReferenceInv`.
`Filing`: a Gate decision is stored behind the first manifest and the Task, a ToolCall behind the decision, the second manifest behind
the Observation, and each event behind what it names. `Placed`: a second `ContextManifestRecorded`, which names the second manifest, is
there only when that manifest is, and none is there before the handler reaches the first. What is stored never goes away (`StepGrows`), what is new was filed
before (`NewNamed`, `FilingStep`), and only two points of the service append a manifest event (`SamePlaces`, `PlacedStep`). `RowsResolve` then goes
through the rows: each names stored rows and leads to the Conversation or the Task in three rounds. TLC finds
`TraceInv` and `ReferenceInv` true in all states of `overlap` and of `restart`.
`OnlyAnswersPassHolds` follows from `Evidence`: every variant of the grader expects a reason a Run completes with, and only a
COMPLETED Run has one, whatever events a late handler and a recovery have written between them.

**The evidence.** `AgentRunEvidenceProofs` proves `AnsweredEvidenceLoadsHolds` and `EvidenceLossIsExplainedHolds`: an
equivalence between what the loader of `RunEvidence` computes from the rows of a closed Run, with its selection, caps and fourteen validators,
and three conditions on the aggregate. Both directions matter: evidence that is refused is refused for one of the causes named.
The loader counts events, so what is needed is a history of each handler, `EvidenceInv`:

* `Paced` — each point of the handler has a number (`Progress`) that grows with every event it writes; the Trace is never longer than that, and
  an event the loader counts is written at one number only (`Place`), hence at most once, also when its acknowledgement is lost. A
  `ToolCallInterrupted` comes from a recovery or from a cancelled handler, never from both, because each must first win the ToolCall;
* `Concluded` — a completed Run, its Task and its reason agree, a Task was moved by whoever closed its Run, and the version the ToolCall was validated
  for is one the Task has reached;
* `Reported` — from the point behind each tool event on, the Trace tells of the ToolCall (`ToolTold`) and of the Observation
  (`ObservationTold`), so a handler that reaches its answer has told both. A recovery that interrupts the ToolCall tells of it in the same transaction.

`StepMoves` relates the handler and the aggregate before and after a step (`Moves`, one disjunct per call of the service, and `Outside`
for a recovery or a crash), and one lemma per group of points shows each part kept; `EvidenceInvariant` is the theorem.
The static half is about the rows. `SelectedExactly`: whatever was stored, three rounds of selection from the Run find every row but the reply, and of the message and the artifact
those that a found row names; nothing found leads on, so a fourth round would add nothing (`SelectionEnds`).
`CollectedAlways`: every relation is known and no family exceeds its cap; a Trace has at most 24 events for a cap of 64. Then one lemma per validator:
those of the graph, the decision, the result and the reason always accept, `ManifestAccepted`, `ObservationAccepted` and `LifecycleAccepted` are the
equivalences with the three causes, and `SettledLoads` puts them together. Selection is written as three rounds, not as a recursion, because of this proof;
that three are enough is what it shows. TLC finds `EvidenceInv` true in all states of `overlap` and of `restart`.

**The graded Trace.** `AnsweredTracePassesHolds` is the converse of `OnlyAnswersPassHolds`: no answered Run fails its grading, whatever was
lost or repeated before the answer. `EvidenceInv` bounds the length of a Trace but does not say what stands in it, so the proof needs `StoryInv`,
which says it place by place:

* `Unfinished` — at each point of a RUNNING Run that a handler still works on, the Trace is exactly the first `Before(l, d)` events of `EventAt`. The
  two branches of that list are the hook that may have moved the Task (`Hooked`: one `TaskStateChanged` more, from which only a rejection
  can follow) and the outcome of the ToolCall (`EndEvent`);
* `Finished` — an answered Run has those of its stop reason (`BeforeAnswer`), then the answer, the last change of the Task if there is one, and the end.

`StoriedStep` follows `Moves`: a plain insert adds the next event (`PlainStory`), every other step adds none, and only `finalize` completes a Run
(`CompletedMove`), which turns `Unfinished` into `Finished` (`FinishStory`). A late handler may still append to an INCOMPLETE Run, but no step touches
a COMPLETED one. The static half has a shape `n, k`: `n` events before the answer and `k` changes of the Task. `CandidateShape` finds the
shape of an answered Run and of each variant it may be graded as to be the same; for this the expected number of changes must be that of the Task,
and a Trace that tells of an Observation tells the truth. `ListedAsWritten` undoes the random order of the terminal transaction.
`PlaceOfType` says where each type stands, from which `FoundAt` gives the index of each node and `CountedTypes` the counts; `VariantRanked` shows that
the edges of each of the nine variants lead from a place of its shape to a later one, so none of them is violated. TLC finds `StoryInv` true in all states of `overlap` and of `restart`.

**The seals.** `DecisionPathProofs` proves, from the invariant `SealInv`, `SealedIsReducedHolds`,
`UnchangedStaysSealedHolds`, `TicketRestoresOnceHolds` and `RevalidatedIsReducedHolds`. `SealInv` has four parts.
`Registered`: each live object has the entry of its own seal, and each entry belongs to a live object and vouches for a decision
of the Reducer; without it an entry that outlives its object would vouch for whatever is next
allocated there. `Ticketed`: a ticket is outstanding or restored but not both, and what a worker has read is a
decision of the Reducer, which is what a worker that lost the race on the ticket relies on. `DecidedOnce`: a Run is reduced once, before any
object exists, so "a decision of the Reducer" is *the* decision. `RevalidatedIsReduced` itself. TLC finds `SealInv` true in all states of
`decision_path`. Theorem `SealsKept` combines one lemma per operation on objects.

**The path of a decision.** Five properties say what the two ends of the path have to do with each other: what the Provider answered
and the user wrote, what is recorded, and what the tool is called with. `PathInv` is what holds between: at each phase everything the
handler holds is what the pure decisions compute from the answer, the Message and the rows it loaded. The decision is `Reduce` of the answer at
some reading of the clock (`Understood`); the stored rows are those of its graph but for status and version, which is all a Task that moves changes
(`RowsAreOurs`, `LoadedFrom`); the move is the revalidated one and still fits the graph; the Gate's verdict is that of its checks on what was loaded;
the command is the one it authorised. Whatever the phase leaves open is null (`NothingEarly`). `PathKept` proves it with `SealInv`, which it needs because the handler
revalidates a copy or a restored pickle. TLC finds it true in all states of `decision_path`.

The theorems then are facts about operators. `RequestReductionProofs` states them for every list, answer and registry: the reason of the Gate is that of the least
failing check (`GateReasonIsFirst`); a quote that is traced stands at its offsets and nowhere else, in the inputs of candidates and in resolved references alike
(`QuoteIsFound`, `ClaimIsQuoted`, `RecordQuotes`); identities
allocated for the candidates of one answer are pairwise distinct (`AllocationsPass`); each
validator of the record, the graph, the closure and the decision accepts what `Reduce` builds (`RecordPasses`, `ClosurePasses`, `DurablePasses`,
`ReductionCloses`).
`ReducerClosesItsOwnHolds` and `PortTakesDecisionHolds` follow, the second under the clock condition; `RecordsQuoteTheUserHolds`;
`ToolGetsTheUsersOrderHolds`, through the binding of the accepted candidate and the argument check of the Gate; and
`ReasonTellsCauseHolds`, a case for each reason, in which all earlier checks held. Proving the last one showed that it had been stated too narrowly: the Gate
also answers SCHEMA_INVALID when the toolset the model was shown agrees but the registration behind it does not. TLC had not met it because no registry
of the instance had that form; one was added.

**The transactions.** `RecordTransactionsProofs` proves that whatever commits between its statements, a transaction is
one conditional write or nothing (`TransactionsAreAtomicHolds`). What `AgentRun` assumes of a record call is thereby
proved of its locks and reads. The inductive invariant is `ReadsHold`; each part answers one way a read could be out of date at the commit:

* `LockedCurrent` with `Exclusive` and `LocksFit` — a row under `FOR UPDATE` is stored, is as it was read, and belongs to one
  session;
* `SurveyCurrent` — links and ToolCalls are read without a lock, behind the Run row. They stay true because whoever inserts a
  link or a ToolCall, or closes one with its Run, holds that row; a ToolCall may meanwhile become terminal, never active again,
  which is all a completion looks at;
* `SnapshotCurrent` — a recovery reads a snapshot. Outside `stale` its rows are the committed ones, and a link or a ToolCall that
  is new to it shows as an update of the Run (or of a ToolCall it is bound to lock), so it fails with 40001 at that lock;
* `Whole` — the rows of a Task graph appear together and a ToolCall only behind them, so what the survey did not find
  is not there.

`RecordOutcomesProofs` has one lemma per command, which compares what the transaction writes from its view
with the operator of `RunRecords` on the current records (`HandlerDoes`, `RecoveryDoes`, combined in `DoesAtomic`).
`CommitReadsHold` is the interference argument: a commit disturbs no other session's part of `ReadsHold`. All other
steps leave the records alone (`OnlyCommits`), so they are stutters.

`RunFirstNeverDeadlocksHolds` needs one more invariant, `AllInOrder`: a session holds row locks below the one it
asks for, in the rank of `LockOrder`, and takes foreign-key locks in the rank of `ReferenceOrder`. `WaitsAscend`: along a wait
without a foreign-key-only write, the rank of the awaited row strictly increases; ranks are bounded, so no set of such
sessions waits for itself, finite or not.

**The harness.** `EvalHarnessProofs` proves that the stored evaluation records implement `EvalLedger`
(`ImplementsLedgerHolds`) and that outcomes agree with them. What a command inserts last it decided several awaits earlier, so the properties
are not inductive. `LedgerInv` adds what ties the steps together:

* `RecordsFit` — a key is graded on one execution and an execution for one key, of its own Case; a judged result and every entry
  of a replay cache name an execution their key was graded on. The cache is included because a replayed stage reaches an insert without a graded
  event of its own;
* `UngradedYet`, and executions in flight are distinct — until the graded event is appended, no event names the execution. Without it
  two commands could grade one Trace under two keys;
* `StagedIsGraded` — what is staged was graded under the key it will be stored under, which survives the pair join that
  turns a PASS into a FAIL;
* `ReportedResults`, `ReportedFailures` — what the outcome lists is stored, and while the command was not broken off every failure stored
  for it is listed, so `command_passed` excludes one.

Two properties need more. `PairPassesAlike` compares two stored results that different commands may have inserted, one of them replayed from the
cache. `PairInv` follows what the client observed from the execution to the stage, the cache and the store; a stage that
goes on to be stored has both Cases of the pair or none (`JoinedPair`), and a stored PASS has a partner that was graded on an execution
that looked the same (`PassesAsPartner`), even if the partner's result is never stored. `EveryCaseAccountedOnce` is a count over the selection: `AccountInv` says what has
happened to the Cases before the one at hand and that nothing has to those behind it, in the staging loop and in the storing loop. The steps are classified
by `Moves`, which says how a step changes the position, the stages, the results and the failures of a command; one lemma per action shows its class and each class keeps
`Accounted`. TLC finds `LedgerInv`, `PairInv` and `AccountInv` true in all states of `eval_pair` and of `eval_replay`.

Each action is shown to keep a command's own part (`CallFits`) and to disturb no other's (`AddsRecords`: rows are only added, a result only where there was
none). For the refinement, `StepWrites` classifies a step: it grades a key that has no event on an execution no event names, stores a
result for a key that has none, or leaves both alone.

The strengthenings `TraceInv`, `ReferenceInv`, `EvidenceInv`, `StoryInv`, `SealInv`, `PathInv`, `LedgerInv`, `PairInv` and `AccountInv` serve the proofs and are not
listed in the configurations; adding one to the INVARIANTS of a run named above has TLC check it.

**Only model-checked.** Every liveness property: liveness under fairness, like anything that needs ENABLED, is outside what the installed provers
do. Every safety invariant and every action property of the passing runs is proved.

## 5. Not modelled, and why

* Rows of Conversation, Message and Session, which every transaction reaches behind the Run row, the
  page and predicate locks with which PostgreSQL refuses further SERIALIZABLE transactions (allowing more
  behaviours than the database does), and the unused request-understanding write.
* The contents of records, prompts, rendered text; hashing and JSON encoding. The canonical form a request input must have
  before it is stored (`request_processing.py:404`-`463`) is one attribute of an answer.
* Rows that no Run of this program writes (edited by hand, or by another release), against which the evidence loader and the codec
  also defend.
* The record graders of evaluation (everything but the Trace grader and the comparison of the pair), whose verdict is
  arbitrary in `EvalHarness`; the detaching and re-validation of models with which the harness guards against a callback that
  mutates its arguments; parsing and authentication of the evaluation artifacts.
* Session and HTTP: a static table of sessions and a mapping of results to status codes, without state or order.
* The model client: request formatting and parsing of a remote service; its outcomes are nondeterministic in `AgentRun`, and its
  answers in `DecisionPath`.
* How the rest of the time budget is cut to milliseconds (`agent_run_service.py:875`): whether time is left is a choice in `Authorize`.
* Presentation policy and renderer: wording and layout; their verdicts are disjuncts of `Render`.
* Database plumbing and migrations: pure I/O.

## 6. Order of the development

`RunRecords` and `AgentRun` came first, with `RunLifecycle` and their proofs; then the transactions beneath a record call
(`RecordTransactions`, `AtomicRecords`), the evaluation (`EvalHarness`, `EvalLedger`, `TraceGrading`), the decision path
(`RequestUnderstanding`, `RequestReduction`, `ControlGateway`, `DecisionSeal`, `DecisionPath`) and the evidence (`RunEvidence`);
last the proofs of the seals, the Trace, the transactions and the harness, then those of the path of a decision, the references,
the accounts of the harness, the evidence and the graded Trace.

What would add most from here:

1. The record graders of evaluation, against the evidence `RunEvidence` loads.
2. The persistence codec, which the records pass through on every read, behind `RunRecords`.
