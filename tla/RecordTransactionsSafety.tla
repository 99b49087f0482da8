------------------------ MODULE RecordTransactionsSafety ------------------------
(***************************************************************************)
(* What the transactions of the record store promise: they are atomic, the *)
(* ones that begin with the Run row never deadlock, and each of them ends. *)
(***************************************************************************)
EXTENDS RecordTransactions

Operation ==
  {"none", "start_run", "create_graph", "transition", "insert_tool",
   "start_tool", "finalize_tool", "save_observation", "append_trace",
   "complete", "fail", "recover"}

CommandType ==
  [op: Operation, task: Tasks, arg: {"NONE"} \cup Stops \cup Results \cup Events,
   seen: [run: RunStatus, task: Projection, unit: Projection,
          link: {"ABSENT", "OPEN", "CLOSED"},
          tool: ToolCallStatus \cup {"ABSENT"}, attempts: 0..1]]

\* Every variable keeps its type, and only a session in a transaction holds
\* locks.
TypeOK ==
  /\ d \in Aggregate
  /\ at \in [Clients ->
               {"idle", "loaded", "locking", "surveying", "committing"}]
  /\ cmd \in [Clients -> CommandType]
  /\ view \in [Clients -> Aggregate]
  /\ held \in [Clients -> SUBSET Row]
  /\ shared \in [Clients -> SUBSET Row]
  /\ stale \in [Clients -> SUBSET Row]
  /\ \A c \in Clients :
       at[c] \in {"idle", "loaded"} =>
         held[c] = {} /\ shared[c] = {} /\ stale[c] = {}

-------------------------------------------------------------------------------
(* Refinement.                                                             *)

Atomic == INSTANCE AtomicRecords WITH records <- d

\* Whatever the other sessions commit between its statements, a transaction
\* either changes nothing or commits exactly the conditional write its command
\* stands for, applied to the records as they are at its commit: no lost
\* update, no ToolCall missed by a recovery or by a finalization.
TransactionsAreAtomic == Atomic!Spec

-------------------------------------------------------------------------------
(* The inductive invariant behind atomicity: what a transaction has read    *)
(* still holds when it commits.                                            *)

SameRow(v, r, row) ==
  CASE row = "run" -> v.run = r.run /\ v.stop = r.stop
    [] row = "unit" -> v.unit = r.unit
    [] row = "link" -> v.link = r.link /\ v.resultVersion = r.resultVersion
    [] row = "task" -> v.task = r.task
    [] OTHER -> /\ v.tool = r.tool /\ v.attempts = r.attempts
                /\ v.validated = r.validated

Running(c) == at[c] \notin {"idle", "loaded"}

\* The rows of a Task graph appear together, a ToolCall only behind them, and
\* its attempt only with the dispatch.
Whole(r) ==
  /\ r.run # "ABSENT"
  /\ r.link = "ABSENT" <=> r.task = NoRow
  /\ r.link = "ABSENT" => r.unit = NoRow /\ r.tool = "ABSENT"
  /\ r.tool \in {"ABSENT", "CREATED"} => r.attempts = 0

CommandFits(c) ==
  at[c] # "idle" =>
    \/ c \in Handlers /\ cmd[c] \in HandlerCommands /\ at[c] # "loaded"
    \/ c \in Recoverers /\ cmd[c].op = "recover" /\ at[c] # "surveying"

\* Only rows the command asks for are locked, each by one session.
LocksFit(c) == held[c] \subseteq Wanted(cmd[c], view[c])
Exclusive == \A c, e \in Clients : c # e => held[c] \cap held[e] = {}

\* A locked row is there, as it was read.
LockedCurrent(c) ==
  \A row \in held[c] : Stored(d, row) /\ SameRow(view[c], d, row)

\* What was read behind the Run lock stays true behind it.
SurveyCurrent(c) ==
  Running(c) /\ at[c] # "surveying" /\ "run" \in held[c] =>
    /\ cmd[c].op \in {"create_graph", "complete", "fail"} =>
         SameRow(view[c], d, "link")
    /\ cmd[c].op = "insert_tool" =>
         /\ view[c].tool = "ABSENT" => SameRow(view[c], d, "tool")
         /\ view[c].task # NoRow => d.task # NoRow
    /\ cmd[c].op \in {"complete", "fail"} /\ view[c].tool \notin ActiveToolCall
         => d.tool \notin ActiveToolCall

\* A row of the snapshot nobody updated is as it was; a new link or ToolCall
\* shows as an update of the Run.
SnapshotCurrent(c) ==
  Running(c) /\ cmd[c].op = "recover" =>
    /\ Whole(view[c])
    /\ \A row \in Row \ stale[c] : SameRow(view[c], d, row)
    /\ held[c] \cap stale[c] = {}
    /\ "link" \in stale[c] => "run" \in stale[c]
    /\ "tool" \in stale[c] => \/ "run" \in stale[c]
                              \/ view[c].tool \in ActiveToolCall

Committing(c) ==
  at[c] = "committing" =>
    held[c] = Wanted(cmd[c], view[c]) /\ Applies(cmd[c], view[c])

ReadsHold ==
  /\ TypeOK /\ Whole(d) /\ Exclusive
  /\ \A c \in Clients :
       /\ CommandFits(c) /\ LocksFit(c) /\ LockedCurrent(c) /\ SurveyCurrent(c)
       /\ SnapshotCurrent(c) /\ Committing(c)

-------------------------------------------------------------------------------
(* Deadlock.                                                               *)

\* The writes that lock the Run first, and the Task transition, are never part
\* of a wait cycle with recoveries: only a write that reaches the Run at its
\* commit, through a foreign key, can be.
RunFirst == {"start_run", "create_graph", "insert_tool", "complete", "fail"}
RunFirstNeverDeadlocks ==
  \A clients \in SUBSET Clients : Deadlocked(clients) =>
    \E c \in clients \cap Handlers :
      cmd[c].op \notin RunFirst \cup {"transition"} /\ at[c] = "committing"

\* "Transaction/lock race: stable lock order" (the plan of the record store):
\* no wait cycle arises between a handler's write and a recovery.
NoWaitCycle == \A clients \in SUBSET Clients : ~Deadlocked(clients)

-------------------------------------------------------------------------------
(* Liveness.  A session runs its next statement; a lock that is freed again *)
(* and again is granted (the database queues the waiters of a row); the     *)
(* database looks for deadlocks.                                            *)

Fairness ==
  /\ \A c \in Clients : SF_vars(TransactionStep(c))
  /\ WF_vars(AbortDeadlock)

FairSpec == Spec /\ Fairness

\* Every transaction ends, although its locks and those of its foreign keys are
\* taken in different orders.
TransactionEnds ==
  \A c \in Clients : at[c] \notin {"idle", "loaded"} ~> at[c] = "idle"

===============================================================================
