--------------------------- MODULE RecordTransactions ---------------------------
(***************************************************************************)
(* The writes of PostgresRecordAdapter and PostgresRestartRecoveryAdapter  *)
(* as the database runs them: each is a transaction that locks its rows    *)
(* one after another (SELECT ... FOR UPDATE), reads others without locking *)
(* them, decides, and at its commit takes FOR KEY SHARE locks on the rows  *)
(* its rewritten references point to, because the foreign keys of          *)
(* p0_record_references are checked when the transaction commits.          *)
(*                                                                         *)
(* A handler's transactions run READ COMMITTED: each statement sees what   *)
(* is committed when it runs.  A recovery's transaction is SERIALIZABLE:   *)
(* it sees the snapshot of its first statement and fails when it locks a   *)
(* row another transaction has updated since.  A transaction may end at    *)
(* any point before its commit (the connection or its process is lost),    *)
(* and the database aborts a member of every wait cycle.                   *)
(*                                                                         *)
(* The records are those of one Run, inserted CREATED.  Rows that every    *)
(* transaction reaches only behind the Run row (Conversation, Messages)    *)
(* are left out.                                                           *)
(***************************************************************************)
EXTENDS RunRecords, FiniteSets

CONSTANTS
  Handlers,     \* sessions issuing the service's and the executor's writes
  Recoverers,   \* sessions of starting processes
  Tasks,        \* Task projections a command may expect
  Stops,        \* reasons a command may complete with
  Results,      \* terminal ToolCall statuses a command may record
  Events        \* Trace events a command may append

ASSUME ClientsAssumption == Handlers \cap Recoverers = {}
ASSUME CommandsAssumption ==
  /\ Tasks \subseteq Projection /\ NoRow \in Tasks /\ InitialRow \in Tasks
  /\ Stops \subseteq CompletionReason
  /\ Results \subseteq ToolCallStatus \ ActiveToolCall
  /\ Events \subseteq TraceEventType

Clients == Handlers \cup Recoverers

VARIABLES
  d,        \* the committed records
  at,       \* how far each session's transaction is
  cmd,      \* the command it executes
  view,     \* the rows as it read them
  held,     \* rows it has locked FOR UPDATE
  shared,   \* rows it has locked FOR KEY SHARE
  stale     \* recovery: rows updated by others since its snapshot

vars == <<d, at, cmd, view, held, shared, stale>>

-------------------------------------------------------------------------------
(* Rows and commands.                                                      *)

\* In the order of record_code, the key of every stable lock order.
LockOrder == <<"run", "unit", "link", "task", "tool">>
\* In the order of the relations (request_unit_id, run_id, task_id,
\* tool_call_id) that _normalize_references gives to an envelope.
ReferenceOrder == <<"unit", "run", "task", "tool">>
Row == {"run", "unit", "link", "task", "tool"}

FirstOf(order, rows) ==
  order[CHOOSE i \in 1..Len(order) :
          order[i] \in rows /\ \A j \in 1..(i - 1) : order[j] \notin rows]

Stored(r, row) ==
  CASE row = "run" -> r.run # "ABSENT"
    [] row \in {"unit", "task"} -> r.task # NoRow
    [] row = "link" -> r.link # "ABSENT"
    [] OTHER -> r.tool # "ABSENT"

\* The records with the given rows taken from another reading of them.  The
\* insert-only rows (Observation, reply, documents, Trace) count as one.
Merge(r, from, rows) ==
  [run |-> IF "run" \in rows THEN from.run ELSE r.run,
   stop |-> IF "run" \in rows THEN from.stop ELSE r.stop,
   task |-> IF "task" \in rows THEN from.task ELSE r.task,
   unit |-> IF "unit" \in rows THEN from.unit ELSE r.unit,
   link |-> IF "link" \in rows THEN from.link ELSE r.link,
   resultVersion |-> IF "link" \in rows THEN from.resultVersion
                                        ELSE r.resultVersion,
   tool |-> IF "tool" \in rows THEN from.tool ELSE r.tool,
   attempts |-> IF "tool" \in rows THEN from.attempts ELSE r.attempts,
   validated |-> IF "tool" \in rows THEN from.validated ELSE r.validated,
   observation |-> IF "inserts" \in rows THEN from.observation
                                         ELSE r.observation,
   reply |-> IF "inserts" \in rows THEN from.reply ELSE r.reply,
   documents |-> IF "inserts" \in rows THEN from.documents ELSE r.documents,
   trace |-> IF "inserts" \in rows THEN from.trace ELSE r.trace]

LinksOf(task) == IF task = NoRow THEN "ABSENT" ELSE "OPEN"

Command(op, task, arg, seen) ==
  [op |-> op, task |-> task, arg |-> arg, seen |-> seen]
NoCommand == Command("none", NoRow, "NONE", NoClosure)

HandlerCommands ==
  {Command(op, NoRow, "NONE", NoClosure) :
     op \in {"start_run", "create_graph", "insert_tool", "start_tool",
             "save_observation"}}
  \cup {Command("transition", InitialRow, "NONE", NoClosure)}
  \cup {Command("finalize_tool", NoRow, result, NoClosure) : result \in Results}
  \cup {Command("append_trace", NoRow, event, NoClosure) : event \in Events}
  \cup {Command("complete", task, stop, NoClosure) : task \in Tasks, stop \in Stops}
  \cup {Command("fail", task, "NONE", NoClosure) : task \in Tasks}

\* Rows locked FOR UPDATE, from what the transaction knows when it starts.
Wanted(k, v) ==
  CASE k.op \in {"start_run", "create_graph", "insert_tool"} -> {"run"}
    [] k.op = "transition" -> {"unit", "task"}
    [] k.op \in {"start_tool", "finalize_tool", "save_observation"} -> {"tool"}
    [] k.op = "complete" ->
         {"run"} \cup IF k.task = NoRow THEN {} ELSE {"unit", "link", "task"}
    [] k.op = "fail" ->
         {"run"} \cup IF k.task = NoRow THEN {} ELSE {"link", "task"}
    [] k.op = "recover" ->
         {"run"} \cup (IF v.link = "ABSENT" THEN {} ELSE {"unit", "link", "task"})
                 \cup (IF v.tool \in ActiveToolCall THEN {"tool"} ELSE {})
    [] OTHER -> {}

\* Rows read without a lock once the Run is locked.
Consulted(k) ==
  CASE k.op = "create_graph" -> {"link"}
    [] k.op = "insert_tool" -> {"task", "tool"}
    [] k.op \in {"complete", "fail"} -> {"link", "tool"}
    [] OTHER -> {}

\* Rows whose content the commit replaces or inserts.
Replaced(k, v) ==
  CASE k.op = "start_run" -> {"run"}
    [] k.op = "create_graph" -> {"unit", "link", "task"}
    [] k.op = "insert_tool" -> {"tool"}
    [] k.op \in {"start_tool", "finalize_tool"} -> {"tool"}
    [] k.op \in {"transition", "complete", "fail", "recover"} -> Wanted(k, v)
    [] OTHER -> {}

\* Inserting a ToolCall or a graph also touches the Run, the recovery anchor.
UpdatedUntouched(k, v) == Replaced(k, v)   \* mutant: the anchor is not touched
Updated(k, v) ==
  Replaced(k, v)
    \cup IF k.op \in {"create_graph", "insert_tool"} THEN {"run"} ELSE {}

\* Rows the references of the written envelopes point to.
Referenced(k) ==
  CASE k.op = "insert_tool" -> {"unit", "run", "task"}
    [] k.op \in {"start_tool", "finalize_tool"} -> {"unit", "run", "task"}
    [] k.op = "save_observation" -> {"unit", "run", "task", "tool"}
    [] k.op = "append_trace" ->
         IF k.arg = "ToolCallStarted" THEN {"unit", "run", "task", "tool"}
                                      ELSE {"run"}
    [] OTHER -> {}

-------------------------------------------------------------------------------
(* The conditional write of each command, as AgentRun uses it.             *)

Applies(k, r) ==
  CASE k.op = "start_run" -> RunStartable(r)
    [] k.op = "create_graph" -> GraphCreatable(r)
    [] k.op = "transition" -> TransitionApplies(r, k.task, k.task)
    [] k.op = "insert_tool" -> ToolCallInsertable(r)
    [] k.op = "start_tool" -> ToolCallStartable(r)
    [] k.op = "finalize_tool" -> ToolCallFinalizable(r)
    [] k.op = "save_observation" -> ObservationSourced(r)
    [] k.op = "complete" -> RunFinalizable(r, LinksOf(k.task), k.task, k.task)
    [] k.op = "fail" -> RunFinalizable(r, LinksOf(k.task), k.task, NoRow)
    [] k.op = "recover" -> Recoverable(r) /\ Closure(r) = k.seen
    [] OTHER -> TRUE

Effect(k, r) ==
  CASE k.op = "start_run" -> RunStarted(r)
    [] k.op = "create_graph" -> GraphCreated(r)
    [] k.op = "transition" -> TaskTransitioned(r, k.task, k.task, "WAITING_USER")
    [] k.op = "insert_tool" -> ToolCallInserted(r, InitialRow.version)
    [] k.op = "start_tool" -> ToolCallStarted(r)
    [] k.op = "finalize_tool" -> ToolCallFinalized(r, k.arg)
    [] k.op = "save_observation" -> ObservationSaved(r)
    [] k.op = "complete" -> RunCompleted(r, k.arg, k.task, k.task)
    [] k.op = "fail" -> RunFailed(r, k.task)
    [] k.op = "recover" -> Recovered(r)
    [] OTHER -> Written(r, k.arg)

-------------------------------------------------------------------------------
(* Locks and waits.                                                        *)

NextLockAsFound(c) ==   \* mutant: a failed Run is locked after its links
  FirstOf(IF cmd[c].op = "fail" THEN <<"link", "run", "task">> ELSE LockOrder,
          Wanted(cmd[c], view[c]) \ held[c])
NextLock(c) == FirstOf(LockOrder, Wanted(cmd[c], view[c]) \ held[c])
NextReference(c) ==
  FirstOf(ReferenceOrder, Referenced(cmd[c]) \ (held[c] \cup shared[c]))

Locking(c) == at[c] = "locking" /\ held[c] # Wanted(cmd[c], view[c])
Referencing(c) ==
  at[c] = "committing" /\ ~(Referenced(cmd[c]) \subseteq held[c] \cup shared[c])

\* FOR UPDATE conflicts with both kinds of lock, FOR KEY SHARE with FOR UPDATE.
\* A row already updated since the snapshot is refused without waiting.
WaitsFor(c, e) ==
  /\ e # c
  /\ \/ /\ Locking(c)
        /\ NextLock(c) \in (held[e] \cup shared[e]) \ stale[c]
     \/ Referencing(c) /\ NextReference(c) \in held[e]
Blocked(c) == \E e \in Clients : WaitsFor(c, e)

\* Every member waits for another one.
Deadlocked(clients) ==
  clients # {} /\ \A c \in clients : \E e \in clients : WaitsFor(c, e)

-------------------------------------------------------------------------------
Init ==
  /\ d = RunInserted(NoRecords)
  /\ at = [c \in Clients |-> "idle"]
  /\ cmd = [c \in Clients |-> NoCommand]
  /\ view = [c \in Clients |-> NoRecords]
  /\ held = [c \in Clients |-> {}]
  /\ shared = [c \in Clients |-> {}]
  /\ stale = [c \in Clients |-> {}]

Goto(c, point) == at' = [at EXCEPT ![c] = point]

\* The locks are released and everything the transaction read is forgotten.
Released(c) ==
  /\ Goto(c, "idle")
  /\ cmd' = [cmd EXCEPT ![c] = NoCommand]
  /\ view' = [view EXCEPT ![c] = NoRecords]
  /\ held' = [held EXCEPT ![c] = {}]
  /\ shared' = [shared EXCEPT ![c] = {}]

Rollback(c) == Released(c) /\ stale' = [stale EXCEPT ![c] = {}] /\ UNCHANGED d

\* A handler's transaction.  finalize_run_if_active counts the links before it
\* locks anything; an event is appended once, one about a ToolCall after its
\* insertion.
Begin(c, k) ==
  /\ at[c] = "idle"
  /\ k.op \in {"complete", "fail"} => (k.task = NoRow <=> d.link = "ABSENT")
  /\ k.op = "append_trace" => \A i \in DOMAIN d.trace : d.trace[i] # k.arg
  /\ k.arg = "ToolCallStarted" => d.tool # "ABSENT"
  /\ Goto(c, "locking")
  /\ cmd' = [cmd EXCEPT ![c] = k]
  /\ UNCHANGED <<d, view, held, shared, stale>>

\* load_next_restart_recovery_closure, one REPEATABLE READ snapshot.
LoadClosure(c) ==
  /\ at[c] = "idle"
  /\ Recoverable(d)
  /\ Goto(c, "loaded")
  /\ cmd' = [cmd EXCEPT ![c] = Command("recover", NoRow, "NONE", Closure(d))]
  /\ UNCHANGED <<d, view, held, shared, stale>>

\* The first statement of claim_and_apply_restart_recovery fixes its snapshot.
TakeSnapshot(c) ==
  /\ at[c] = "loaded"
  /\ \/ /\ Recoverable(d)
        /\ Goto(c, "locking")
        /\ view' = [view EXCEPT ![c] = d]
        /\ UNCHANGED <<d, cmd, held, shared, stale>>
     \/ /\ ~Recoverable(d)
        /\ Rollback(c)

LockUpdated(c) ==   \* mutant: a recovery that runs READ COMMITTED
  LET row == NextLock(c)
  IN  /\ Locking(c)
      /\ ~Blocked(c)
      /\ IF Stored(d, row)
         THEN /\ held' = [held EXCEPT ![c] = @ \cup {row}]
              /\ view' = [view EXCEPT ![c] = Merge(@, d, {row})]
              /\ Goto(c, IF row = "run" /\ Consulted(cmd[c]) # {}
                         THEN "surveying" ELSE "locking")
              /\ UNCHANGED <<d, cmd, shared, stale>>
         ELSE Rollback(c)

\* The next row of the stable order.  A missing row is NOT_APPLICABLE or a
\* conflict; a row updated since the snapshot is a serialization failure.
Lock(c) ==
  LET row == NextLock(c)
  IN  /\ Locking(c)
      /\ ~Blocked(c)
      /\ \/ /\ Stored(d, row) /\ row \notin stale[c]
            /\ held' = [held EXCEPT ![c] = @ \cup {row}]
            /\ view' = [view EXCEPT ![c] = Merge(@, d, {row})]
            /\ Goto(c, IF row = "run" /\ Consulted(cmd[c]) # {}
                       THEN "surveying" ELSE "locking")
            /\ UNCHANGED <<d, cmd, shared, stale>>
         \/ /\ ~Stored(d, row) \/ row \in stale[c]
            /\ Rollback(c)

\* The unlocked reads behind the Run lock.
SurveyBlind(c) ==   \* mutant: the ToolCalls are not read again
  /\ at[c] = "surveying"
  /\ view' = [view EXCEPT ![c] = Merge(@, d, {"link", "task"})]
  /\ Goto(c, "locking")
  /\ UNCHANGED <<d, cmd, held, shared, stale>>
Survey(c) ==
  /\ at[c] = "surveying"
  /\ view' = [view EXCEPT ![c] = Merge(@, d, Consulted(cmd[c]))]
  /\ Goto(c, "locking")
  /\ UNCHANGED <<d, cmd, held, shared, stale>>

DecideOpen(c) ==   \* mutant: a conflict returns without ending the transaction
  /\ at[c] = "locking"
  /\ held[c] = Wanted(cmd[c], view[c])
  /\ Applies(cmd[c], view[c])
  /\ Goto(c, "committing")
  /\ UNCHANGED <<d, cmd, view, held, shared, stale>>

\* Every row is locked: the comparison with the expected records, and the
\* writes, which nobody sees before the commit.
Decide(c) ==
  /\ at[c] = "locking"
  /\ held[c] = Wanted(cmd[c], view[c])
  /\ \/ /\ Applies(cmd[c], view[c])
        /\ Goto(c, "committing")
        /\ UNCHANGED <<d, cmd, view, held, shared, stale>>
     \/ /\ ~Applies(cmd[c], view[c])
        /\ Rollback(c)

\* The deferred foreign keys, one reference after another.
CheckReference(c) ==
  /\ Referencing(c)
  /\ ~Blocked(c)
  /\ shared' = [shared EXCEPT ![c] = @ \cup {NextReference(c)}]
  /\ UNCHANGED <<d, at, cmd, view, held, stale>>

\* What the transaction leaves: the rows it replaces, computed from the rows it
\* read, and its inserts added to those committed meanwhile.
Outcome(k, v, r) ==
  Merge(r, Effect(k, Merge(v, r, {"inserts"})), Replaced(k, v) \cup {"inserts"})

Commit(c) ==
  /\ at[c] = "committing"
  /\ ~Referencing(c)
  /\ d' = Outcome(cmd[c], view[c], d)
  /\ stale' = [e \in Clients |->
                 IF e # c /\ cmd[e].op = "recover" /\ at[e] \notin {"idle", "loaded"}
                 THEN stale[e] \cup Updated(cmd[c], view[c])
                 ELSE IF e = c THEN {} ELSE stale[e]]
  /\ Released(c)

\* The connection or the process is lost before the commit.
Disconnect(c) == at[c] # "idle" /\ Rollback(c)

\* deadlock_detected: the database aborts a member of the cycle.
AbortDeadlock ==
  \E clients \in SUBSET Clients :
    Deadlocked(clients) /\ \E c \in clients : Rollback(c)

TransactionStep(c) ==
  Lock(c) \/ Survey(c) \/ Decide(c) \/ CheckReference(c) \/ Commit(c)

Next ==
  \/ \E c \in Handlers : \E k \in HandlerCommands : Begin(c, k)
  \/ \E c \in Recoverers : LoadClosure(c) \/ TakeSnapshot(c)
  \/ \E c \in Clients : TransactionStep(c) \/ Disconnect(c)
  \/ AbortDeadlock

Spec == Init /\ [][Next]_vars

===============================================================================
