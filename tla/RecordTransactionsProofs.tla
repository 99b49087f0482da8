----------------------- MODULE RecordTransactionsProofs -----------------------
(***************************************************************************)
(* The transactions of RecordTransactions implement AtomicRecords: what a  *)
(* transaction has read still holds when it commits.  And the ones that    *)
(* follow the stable lock order never deadlock among themselves.           *)
(***************************************************************************)
EXTENDS RecordOutcomesProofs

(* The invariant, session by session.                                       *)

Session(c) ==
  /\ CommandFits(c) /\ LocksFit(c) /\ LockedCurrent(c) /\ SurveyCurrent(c)
  /\ SnapshotCurrent(c) /\ Committing(c)

\* The invariant is what it says of the records and of each session.
LEMMA ReadsHoldIs ==
  ReadsHold <=> TypeOK /\ Whole(d) /\ Exclusive /\ \A c \in Clients : Session(c)
  BY DEF ReadsHold, Session

\* A session that does not move, on records that do not change.
LEMMA SessionStays ==
  ASSUME NEW e, Session(e), d' = d,
         at'[e] = at[e], cmd'[e] = cmd[e], view'[e] = view[e],
         held'[e] = held[e], stale'[e] = stale[e]
  PROVE  Session(e)'
<1>1. (CommandFits(e) /\ LocksFit(e) /\ Committing(e))'
  BY DEF Session, CommandFits, LocksFit, Committing, Running
<1>2. (LockedCurrent(e) /\ SurveyCurrent(e) /\ SnapshotCurrent(e))'
  BY DEF Session, LockedCurrent, SurveyCurrent, SnapshotCurrent, Running
<1> QED BY <1>1, <1>2 DEF Session

\* An idle session has nothing to hold.
LEMMA SessionIdle ==
  ASSUME NEW e, at[e] = "idle", held[e] = {}
  PROVE  Session(e)
  BY DEF Session, CommandFits, LocksFit, LockedCurrent, SurveyCurrent,
         SnapshotCurrent, Committing, Running

\* What an idle session has in hand.
LEMMA NothingTyped == NoRecords \in Aggregate /\ NoCommand \in CommandType
<1>1. /\ NoRow \in Projection /\ "ABSENT" \in RunStatus
      /\ "ABSENT" \notin ActiveToolCall
  BY DEF NoRow, Projection, RunStatus, ActiveToolCall
<1>2. NoRecords \in Aggregate
  BY <1>1 DEF NoRecords, Aggregate
<1>3. NoClosure = [run |-> "ABSENT", task |-> NoRow, unit |-> NoRow,
                   link |-> "ABSENT", tool |-> "ABSENT", attempts |-> 0]
  BY <1>1 DEF NoClosure, Closure, NoRecords
<1>4. NoCommand \in CommandType
  <2>1. "none" \in Operation /\ NoRow \in Tasks
    BY CommandsAssumption DEF Operation
  <2>2. NoCommand = [op |-> "none", task |-> NoRow, arg |-> "NONE",
                     seen |-> NoClosure]
    BY DEF NoCommand, Command
  <2>3. NoClosure \in [run: RunStatus, task: Projection, unit: Projection,
                       link: {"ABSENT", "OPEN", "CLOSED"},
                       tool: ToolCallStatus \cup {"ABSENT"}, attempts: 0..1]
    BY <1>1, <1>3
  <2> QED BY <1>1, <2>1, <2>2, <2>3 DEF CommandType
<1> QED BY <1>2, <1>4

\* What a handler may be told to do.
LEMMA HandlerCommandTyped == HandlerCommands \subseteq CommandType
<1> SUFFICES ASSUME NEW k \in HandlerCommands PROVE k \in CommandType
  OBVIOUS
<1>1. NoClosure \in [run: RunStatus, task: Projection, unit: Projection,
                     link: {"ABSENT", "OPEN", "CLOSED"},
                     tool: ToolCallStatus \cup {"ABSENT"}, attempts: 0..1]
  BY NothingTyped DEF NoCommand, Command, CommandType
<1>2. \E op \in Operation, task \in Tasks,
          arg \in {"NONE"} \cup Stops \cup Results \cup Events :
        k = [op |-> op, task |-> task, arg |-> arg, seen |-> NoClosure]
  BY CommandsAssumption DEF HandlerCommands, Command, Operation
<1> QED BY <1>1, <1>2 DEF CommandType

\* At first nothing is locked and nothing was read.
LEMMA InitReadsHold == Init => ReadsHold
<1> SUFFICES ASSUME Init PROVE ReadsHold
  OBVIOUS
<1>1. d \in Aggregate /\ Whole(d)
  <2>1. d = [NoRecords EXCEPT !.run = "CREATED"] /\ "CREATED" \in RunStatus
    BY DEF Init, RunInserted, RunStatus, ActiveRun
  <2>2. d \in Aggregate
    BY <2>1, NothingTyped DEF Aggregate
  <2>3. Whole(d)
    BY <2>1 DEF NoRecords, Whole
  <2> QED BY <2>2, <2>3
<1>2. TypeOK
  BY <1>1, NothingTyped DEF Init, TypeOK
<1>3. Exclusive /\ \A c \in Clients : Session(c)
  BY SessionIdle DEF Init, Exclusive
<1> QED BY <1>1, <1>2, <1>3, ReadsHoldIs

\* The transaction ends without a commit.
LEMMA RollbackReadsHold ==
  ASSUME ReadsHold, NEW c \in Clients, Rollback(c)
  PROVE  ReadsHold'
<1>1. /\ d' = d
      /\ at' = [at EXCEPT ![c] = "idle"]
      /\ cmd' = [cmd EXCEPT ![c] = NoCommand]
      /\ view' = [view EXCEPT ![c] = NoRecords]
      /\ held' = [held EXCEPT ![c] = {}]
      /\ shared' = [shared EXCEPT ![c] = {}]
      /\ stale' = [stale EXCEPT ![c] = {}]
  BY DEF Rollback, Released, Goto
<1>2. NoRecords \in Aggregate /\ NoCommand \in CommandType
  BY NothingTyped
<1>3. TypeOK /\ Whole(d) /\ Exclusive /\ \A e \in Clients : Session(e)
  BY ReadsHoldIs
<1>4. TypeOK'
  BY <1>1, <1>2, <1>3 DEF TypeOK
<1>5. Exclusive' /\ Whole(d)'
  BY <1>1, <1>3 DEF Exclusive, TypeOK, Whole
<1>6. ASSUME NEW e \in Clients PROVE Session(e)'
  <2>1. CASE e = c
    BY <1>1, <1>3, <2>1, SessionIdle DEF TypeOK, Session, CommandFits, LocksFit,
       LockedCurrent, SurveyCurrent, SnapshotCurrent, Committing, Running
  <2>2. CASE e # c
    BY <1>1, <1>3, <2>2, SessionStays DEF TypeOK
  <2> QED BY <2>1, <2>2
<1> QED BY <1>4, <1>5, <1>6, ReadsHoldIs DEF ReadsHold, Session

\* A statement of one session that commits nothing.
LEMMA StatementReadsHold ==
  ASSUME ReadsHold, NEW c \in Clients, d' = d,
         \A e \in Clients \ {c} :
           /\ at'[e] = at[e] /\ cmd'[e] = cmd[e] /\ view'[e] = view[e]
           /\ held'[e] = held[e] /\ stale'[e] = stale[e],
         TypeOK', Exclusive', Session(c)'
  PROVE  ReadsHold'
<1>1. \A e \in Clients : Session(e)'
  BY ReadsHoldIs, SessionStays
<1>2. Whole(d)'
  BY DEF ReadsHold, Whole
<1> QED BY <1>1, <1>2, ReadsHoldIs DEF ReadsHold, Session

\* A handler's transaction begins without a lock.
LEMMA BeginReadsHold ==
  ASSUME ReadsHold, NEW c \in Handlers, NEW k \in HandlerCommands, Begin(c, k)
  PROVE  ReadsHold'
<1>1. /\ at[c] = "idle" /\ c \in Clients /\ k \in CommandType
      /\ at' = [at EXCEPT ![c] = "locking"] /\ cmd' = [cmd EXCEPT ![c] = k]
      /\ UNCHANGED <<d, view, held, shared, stale>>
  BY HandlerCommandTyped DEF Begin, Goto, Clients
<1>2. /\ TypeOK /\ Exclusive
      /\ held[c] = {} /\ shared[c] = {} /\ stale[c] = {}
  BY <1>1 DEF ReadsHold, TypeOK
<1>3. TypeOK'
  BY <1>1, <1>2 DEF TypeOK
<1>4. Exclusive'
  BY <1>1, <1>2 DEF Exclusive
<1>5. Session(c)'
  <2>1. /\ at'[c] = "locking" /\ cmd'[c] = k /\ held'[c] = {}
        /\ k.op # "recover"
    BY <1>1, <1>2, HandlerCommandIs DEF TypeOK
  <2> QED BY <2>1 DEF Session, CommandFits, LocksFit, LockedCurrent,
             SurveyCurrent, SnapshotCurrent, Committing, Running
<1> QED BY <1>1, <1>2, <1>3, <1>4, <1>5, StatementReadsHold DEF TypeOK

\* The closure is remembered in the command.
LEMMA LoadClosureReadsHold ==
  ASSUME ReadsHold, NEW c \in Recoverers, LoadClosure(c)
  PROVE  ReadsHold'
<1> DEFINE k == Command("recover", NoRow, "NONE", Closure(d))
<1>1. /\ at[c] = "idle" /\ c \in Clients
      /\ at' = [at EXCEPT ![c] = "loaded"] /\ cmd' = [cmd EXCEPT ![c] = k]
      /\ UNCHANGED <<d, view, held, shared, stale>>
  BY DEF LoadClosure, Goto, Clients
<1>2. /\ TypeOK /\ Exclusive
      /\ held[c] = {} /\ shared[c] = {} /\ stale[c] = {}
  BY <1>1 DEF ReadsHold, TypeOK
<1>3. k \in CommandType /\ k.op = "recover"
  <2>1. "recover" \in Operation /\ NoRow \in Tasks
    BY CommandsAssumption DEF Operation
  <2>2. Closure(d) \in [run: RunStatus, task: Projection, unit: Projection,
                       link: {"ABSENT", "OPEN", "CLOSED"},
                       tool: ToolCallStatus \cup {"ABSENT"}, attempts: 0..1]
    BY <1>2 DEF TypeOK, Aggregate, Closure
  <2>3. k = [op |-> "recover", task |-> NoRow, arg |-> "NONE",
             seen |-> Closure(d)]
    BY DEF Command
  <2> HIDE DEF k
  <2> QED BY <2>1, <2>2, <2>3 DEF CommandType
<1> HIDE DEF k
<1>4. TypeOK'
  BY <1>1, <1>2, <1>3 DEF TypeOK
<1>5. Exclusive'
  BY <1>1, <1>2 DEF Exclusive
<1>6. Session(c)'
  <2>1. /\ at'[c] = "loaded" /\ cmd'[c].op = "recover" /\ held'[c] = {}
    BY <1>1, <1>2, <1>3 DEF TypeOK
  <2> QED BY <2>1 DEF Session, CommandFits, LocksFit, LockedCurrent,
             SurveyCurrent, SnapshotCurrent, Committing, Running
<1> QED BY <1>1, <1>2, <1>4, <1>5, <1>6, StatementReadsHold DEF TypeOK

\* A snapshot is the records of its instant.
LEMMA TakeSnapshotReadsHold ==
  ASSUME ReadsHold, NEW c \in Recoverers, TakeSnapshot(c)
  PROVE  ReadsHold'
<1>1. c \in Clients /\ at[c] = "loaded"
  BY DEF TakeSnapshot, Clients
<1>2. CASE /\ at' = [at EXCEPT ![c] = "locking"]
           /\ view' = [view EXCEPT ![c] = d]
           /\ UNCHANGED <<d, cmd, held, shared, stale>>
  <2>1. /\ TypeOK /\ Exclusive /\ Whole(d) /\ Session(c)
        /\ held[c] = {} /\ shared[c] = {} /\ stale[c] = {}
    BY <1>1, ReadsHoldIs DEF TypeOK
  <2>2. TypeOK'
    BY <1>1, <1>2, <2>1 DEF TypeOK
  <2>3. Exclusive'
    BY <1>2, <2>1 DEF Exclusive
  <2>4. Session(c)'
    <3>1. /\ at'[c] = "locking" /\ cmd'[c].op = "recover" /\ held'[c] = {}
          /\ view'[c] = d /\ d' = d /\ stale'[c] = {}
      BY <1>1, <1>2, <2>1, ClientsAssumption
      DEF TypeOK, Session, CommandFits
    <3>2. \A row \in Row : SameRow(d, d, row)
      BY DEF SameRow, Row
    <3>3. SnapshotCurrent(c)'
      BY <2>1, <3>1, <3>2 DEF SnapshotCurrent
    <3> QED BY <3>1, <3>3 DEF Session, CommandFits, LocksFit, LockedCurrent,
               SurveyCurrent, Committing, Running
  <2> QED BY <1>1, <1>2, <2>1, <2>2, <2>3, <2>4, StatementReadsHold DEF TypeOK
<1>3. CASE Rollback(c)
  BY <1>1, <1>3, RollbackReadsHold
<1> QED BY <1>2, <1>3 DEF TakeSnapshot, Goto

\* A decision locks and reads nothing more.
LEMMA DecideReadsHold ==
  ASSUME ReadsHold, NEW c \in Clients, Decide(c)
  PROVE  ReadsHold'
<1>1. CASE /\ at[c] = "locking" /\ held[c] = Wanted(cmd[c], view[c])
           /\ Applies(cmd[c], view[c])
           /\ at' = [at EXCEPT ![c] = "committing"]
           /\ UNCHANGED <<d, cmd, view, held, shared, stale>>
  <2>1. TypeOK /\ Exclusive /\ Session(c)
    BY ReadsHoldIs
  <2>2. TypeOK'
    BY <1>1, <2>1 DEF TypeOK
  <2>3. Exclusive'
    BY <1>1, <2>1 DEF Exclusive
  <2>4. Session(c)'
    <3>1. /\ at'[c] = "committing" /\ cmd'[c] = cmd[c] /\ view'[c] = view[c]
          /\ held'[c] = held[c] /\ stale'[c] = stale[c] /\ d' = d
      BY <1>1, <2>1 DEF TypeOK
    <3>2. (CommandFits(c) /\ LocksFit(c) /\ LockedCurrent(c) /\ Committing(c))'
      BY <1>1, <2>1, <3>1 DEF Session, CommandFits, LocksFit, LockedCurrent,
                              Committing
    <3>3. (SurveyCurrent(c) /\ SnapshotCurrent(c))'
      BY <1>1, <2>1, <3>1 DEF Session, SurveyCurrent, SnapshotCurrent, Running
    <3> QED BY <3>2, <3>3 DEF Session
  <2> QED BY <1>1, <2>1, <2>2, <2>3, <2>4, StatementReadsHold DEF TypeOK
<1>2. CASE Rollback(c)
  BY <1>2, RollbackReadsHold
<1> QED BY <1>1, <1>2 DEF Decide, Goto

\* A foreign key check takes a shared lock.
LEMMA CheckReferenceReadsHold ==
  ASSUME ReadsHold, NEW c \in Clients, CheckReference(c)
  PROVE  ReadsHold'
<1>1. /\ TypeOK /\ Exclusive /\ Session(c)
      /\ Referencing(c) /\ UNCHANGED <<d, at, cmd, view, held, stale>>
      /\ shared' = [shared EXCEPT ![c] = @ \cup {NextReference(c)}]
  BY ReadsHoldIs DEF CheckReference
<1>2. NextReference(c) \in Row
  <2> DEFINE rows == Referenced(cmd[c]) \ (held[c] \cup shared[c])
  <2>1. rows # {} /\ rows \subseteq {"unit", "run", "task", "tool"}
    BY <1>1 DEF Referencing, Referenced
  <2> HIDE DEF rows
  <2>2. FirstOf(ReferenceOrder, rows) \in rows
    BY <2>1, NextOfReferences
  <2> QED BY <2>1, <2>2 DEF NextReference, Row, rows
<1>3. TypeOK'
  BY <1>1, <1>2 DEF TypeOK, Referencing
<1>4. Exclusive'
  BY <1>1 DEF Exclusive
<1>5. Session(c)'
  BY <1>1, SessionStays
<1> QED BY <1>1, <1>3, <1>4, <1>5, StatementReadsHold

\* A handler's transaction knows from its command what it locks.
LEMMA WantedFixed ==
  ASSUME NEW k, NEW v, NEW w, k.op # "recover"
  PROVE  Wanted(k, v) = Wanted(k, w)
  BY DEF Wanted

\* A recovery reads nothing outside its snapshot.
LEMMA ConsultedIsRows ==
  ASSUME NEW k
  PROVE  /\ Consulted(k) \subseteq Row
         /\ k.op = "recover" => Consulted(k) = {}
  BY DEF Consulted, Row

\* What is surveyed is what is committed.
LEMMA SurveyReadsHold ==
  ASSUME ReadsHold, NEW c \in Clients, Survey(c)
  PROVE  ReadsHold'
<1> DEFINE k == cmd[c]
           v == view[c]
           w == Merge(view[c], d, Consulted(cmd[c]))
<1>1. /\ TypeOK /\ Exclusive /\ Session(c) /\ at[c] = "surveying"
      /\ at' = [at EXCEPT ![c] = "locking"]
      /\ view' = [view EXCEPT ![c] = w]
      /\ UNCHANGED <<d, cmd, held, shared, stale>>
  BY ReadsHoldIs DEF Survey, Goto
<1>2. w \in Aggregate
  BY <1>1, MergeTyped DEF TypeOK
<1>3. \A row \in Row :
        IF row \in Consulted(k) THEN SameRow(w, d, row) ELSE SameRow(w, v, row)
  BY MergeRows
<1>4. TypeOK'
  BY <1>1, <1>2 DEF TypeOK
<1>5. Exclusive'
  BY <1>1 DEF Exclusive
<1>6. Session(c)'
  <2>1. /\ at'[c] = "locking" /\ cmd'[c] = k /\ view'[c] = w
        /\ held'[c] = held[c] /\ d' = d
    BY <1>1 DEF TypeOK
  <2>2. c \in Handlers /\ k \in HandlerCommands
    BY <1>1 DEF Session, CommandFits
  <2>3. k.op # "recover"
    BY <2>2, HandlerCommandIs
  <2> HIDE DEF w, k, v
  <2>4. (CommandFits(c) /\ Committing(c) /\ SnapshotCurrent(c))'
    BY <2>1, <2>2, <2>3 DEF CommandFits, Committing, SnapshotCurrent
  <2>5. LocksFit(c)'
    BY <1>1, <2>1, <2>3, WantedFixed DEF Session, LocksFit, k
  <2>6. LockedCurrent(c)'
    <3>1. \A row \in held[c] : row \in Row /\ Stored(d, row) /\ SameRow(v, d, row)
      BY <1>1 DEF Session, LockedCurrent, TypeOK, v
    <3>2. \A row \in held[c] : SameRow(w, d, row)
      BY <1>3, <3>1 DEF SameRow, Row
    <3> QED BY <2>1, <3>1, <3>2 DEF LockedCurrent
  <2>7. SurveyCurrent(c)'
    <3>1. /\ k.op \in {"create_graph", "complete", "fail"} => SameRow(w, d, "link")
          /\ k.op = "insert_tool" => SameRow(w, d, "tool") /\ SameRow(w, d, "task")
          /\ k.op \in {"complete", "fail"} => SameRow(w, d, "tool")
      BY <1>3 DEF Consulted, Row
    <3> QED BY <2>1, <3>1 DEF SurveyCurrent, SameRow
  <2> QED BY <2>4, <2>5, <2>6, <2>7 DEF Session
<1> QED BY <1>1, <1>4, <1>5, <1>6, StatementReadsHold DEF TypeOK

\* A lock is granted on a row nobody else holds and that is as the session
\* reads it.
LEMMA LockReadsHold ==
  ASSUME ReadsHold, NEW c \in Clients, Lock(c)
  PROVE  ReadsHold'
<1> DEFINE row  == NextLock(c)
           k    == cmd[c]
           v    == view[c]
           w    == Merge(view[c], d, {row})
           next == IF row = "run" /\ Consulted(cmd[c]) # {}
                   THEN "surveying" ELSE "locking"
<1>1. /\ TypeOK /\ Exclusive /\ Session(c) /\ Locking(c) /\ ~Blocked(c)
  BY ReadsHoldIs DEF Lock
<1>2. CASE Rollback(c)
  BY <1>2, RollbackReadsHold
<1>3. CASE /\ Stored(d, row) /\ row \notin stale[c]
           /\ held' = [held EXCEPT ![c] = @ \cup {row}]
           /\ view' = [view EXCEPT ![c] = w]
           /\ at' = [at EXCEPT ![c] = next]
           /\ UNCHANGED <<d, cmd, shared, stale>>
  <2>1. row \in Wanted(k, v) /\ row \notin held[c] /\ row \in Row
    <3> DEFINE rows == Wanted(k, v) \ held[c]
    <3>1. Wanted(k, v) \subseteq Row
      BY DEF Wanted, Row
    <3>2. rows # {} /\ rows \subseteq Row
      BY <1>1, <3>1 DEF Locking, Session, LocksFit
    <3> HIDE DEF rows
    <3>3. FirstOf(LockOrder, rows) \in rows
      BY <3>2, NextOfLocks
    <3> QED BY <3>2, <3>3 DEF NextLock, rows
  <2>2. \A e \in Clients \ {c} : row \notin held[e]
    BY <1>1, <1>3 DEF Blocked, WaitsFor
  <2>3. /\ v \in Aggregate /\ w \in Aggregate /\ SameRow(w, d, row)
        /\ \A other \in Row \ {row} : SameRow(w, v, other)
    <3>1. v \in Aggregate /\ d \in Aggregate
      BY <1>1 DEF TypeOK
    <3> QED BY <2>1, <3>1, MergeTyped, MergeRows
  <2> HIDE DEF row
  <2>4. /\ at'[c] = next /\ cmd'[c] = k /\ view'[c] = w
        /\ held'[c] = held[c] \cup {row} /\ stale'[c] = stale[c] /\ d' = d
        /\ at[c] = "locking"
    BY <1>1, <1>3 DEF TypeOK, Locking
  <2>5. TypeOK'
    <3> HIDE DEF w
    <3> QED BY <1>1, <1>3, <2>1, <2>3, <2>4 DEF TypeOK
  <2>6. Exclusive'
    BY <1>1, <1>3, <2>2 DEF Exclusive, TypeOK
  <2>7. k.op = "recover" => w = v
    <3>1. k.op = "recover" => SameRow(v, d, row)
      BY <1>1, <1>3, <2>1, <2>4 DEF Session, SnapshotCurrent, Running
    <3> QED BY <2>1, <2>3, <3>1, MergeSame
  <2> HIDE DEF w
  <2>8. Session(c)'
    <3>1. CommandFits(c)' /\ Committing(c)'
      BY <1>1, <2>4, ConsultedIsRows
      DEF Session, CommandFits, Committing
    <3>2. LocksFit(c)'
      <4>1. Wanted(k, w) = Wanted(k, v)
        BY <2>7, WantedFixed
      <4> QED BY <1>1, <2>1, <2>4, <4>1 DEF Session, LocksFit
    <3>3. LockedCurrent(c)'
      <4>1. \A other \in held[c] :
              other \in Row /\ Stored(d, other) /\ SameRow(v, d, other)
        BY <1>1 DEF Session, LockedCurrent, TypeOK
      <4>2. \A other \in held[c] \ {row} : SameRow(w, d, other)
        BY <2>3, <4>1 DEF SameRow, Row
      <4> QED BY <1>3, <2>3, <2>4, <4>1, <4>2 DEF LockedCurrent
    <3>4. SurveyCurrent(c)'
      <4>1. CASE row = "run"
        BY <2>4, <4>1 DEF SurveyCurrent, Consulted
      <4>2. CASE row # "run" /\ "run" \in held[c]
        <5>1. SurveyCurrent(c) /\ Running(c)
          BY <1>1, <2>4 DEF Session, Running
        <5>2. /\ w.link = v.link \/ w.link = d.link
              /\ SameRow(v, d, "link") => SameRow(w, d, "link")
              /\ SameRow(v, d, "tool") => SameRow(w, d, "tool")
              /\ w.tool = v.tool \/ SameRow(w, d, "tool")
              /\ w.task = v.task \/ w.task = d.task
          BY <2>3 DEF SameRow, Row
        <5> QED BY <2>4, <4>2, <5>1, <5>2 DEF SurveyCurrent, SameRow
      <4>3. CASE row # "run" /\ "run" \notin held[c]
        BY <2>4, <4>3 DEF SurveyCurrent
      <4> QED BY <4>1, <4>2, <4>3
    <3>5. SnapshotCurrent(c)'
      BY <1>1, <1>3, <2>4, <2>7 DEF Session, SnapshotCurrent, Running
    <3> QED BY <3>1, <3>2, <3>3, <3>4, <3>5 DEF Session
  <2> QED BY <1>1, <1>3, <2>5, <2>6, <2>8, StatementReadsHold DEF TypeOK
<1> QED BY <1>2, <1>3 DEF Lock, Goto

-------------------------------------------------------------------------------
(* The commit.                                                              *)

\* What a transaction has read still holds when it commits.
LEMMA ReadsAreCurrent ==
  ASSUME ReadsHold, NEW c \in Clients, at[c] = "committing"
  PROVE  Current(cmd[c], view[c], d)
<1> DEFINE k == cmd[c]
           v == view[c]
<1>1. /\ Session(c) /\ Running(c) /\ at[c] # "surveying"
      /\ held[c] = Wanted(k, v)
  BY ReadsHoldIs DEF Session, Running, Committing
<1>2. \A row \in Wanted(k, v) : SameRow(v, d, row)
  BY <1>1 DEF Session, LockedCurrent
<1>3. k.op \in {"create_graph", "complete", "fail", "insert_tool", "recover"}
        => "run" \in held[c]
  BY <1>1 DEF Wanted
<1> HIDE DEF k, v
<1>4. /\ k.op \in {"create_graph", "complete", "fail"} => SameRow(v, d, "link")
      /\ k.op = "insert_tool" =>
           /\ v.tool = "ABSENT" => SameRow(v, d, "tool")
           /\ v.task # NoRow => d.task # NoRow
      /\ k.op \in {"complete", "fail"} /\ v.tool \notin ActiveToolCall =>
           d.tool \notin ActiveToolCall
  BY <1>1, <1>3 DEF Session, SurveyCurrent, k, v
<1>5. k.op = "recover" =>
        /\ Whole(v) /\ SameRow(v, d, "link")
        /\ v.tool \notin ActiveToolCall => SameRow(v, d, "tool")
  BY <1>1, <1>3 DEF Session, SnapshotCurrent, Row, k, v
<1> QED BY <1>2, <1>4, <1>5 DEF Current, k, v

\* So a commit is the conditional write of its command.
LEMMA CommitDoes ==
  ASSUME ReadsHold, NEW c \in Clients, Commit(c)
  PROVE  Does(cmd[c], d, d') /\ Sound(d, d')
<1>1. /\ at[c] = "committing" /\ d' = Outcome(cmd[c], view[c], d)
      /\ Session(c) /\ Whole(d) /\ d \in Aggregate /\ view[c] \in Aggregate
  BY ReadsHoldIs DEF Commit, TypeOK
<1>2. Current(cmd[c], view[c], d) /\ Applies(cmd[c], view[c])
  BY <1>1, ReadsAreCurrent DEF Session, Committing
<1>3. CASE cmd[c] \in HandlerCommands
  BY <1>1, <1>2, <1>3, HandlerDoes
<1>4. CASE cmd[c].op = "recover"
  BY <1>1, <1>2, <1>4, RecoveryDoes
<1> QED BY <1>1, <1>3, <1>4 DEF Session, CommandFits

\* It replaces rows it has locked, and inserts rows that were not there.
LEMMA ReplacedRows ==
  ASSUME NEW k, NEW v, NEW s, Whole(d), Does(k, d, s)
  PROVE  /\ Replaced(k, v) \subseteq Row
         /\ \A row \in Replaced(k, v) : row \in Wanted(k, v) \/ ~Stored(d, row)
<1>1. Replaced(k, v) \subseteq Row
  BY DEF Replaced, Wanted, Row
<1>2. CASE k.op = "create_graph"
  BY <1>1, <1>2 DEF Does, GraphCreatable, Replaced, Whole, Stored
<1>3. CASE k.op = "insert_tool"
  BY <1>1, <1>3 DEF Does, ToolCallInsertable, Replaced, Stored
<1>4. CASE k.op \notin {"create_graph", "insert_tool"}
  BY <1>1, <1>4 DEF Does, Replaced, Wanted
<1> QED BY <1>1, <1>2, <1>3, <1>4

\* Every other row keeps what was committed.
LEMMA OtherRowsStay ==
  ASSUME NEW k, NEW v, NEW r, NEW row \in Row \ Replaced(k, v)
  PROVE  SameRow(Outcome(k, v, r), r, row)
<1> DEFINE x    == Effect(k, Merge(v, r, {"inserts"}))
           rows == Replaced(k, v) \cup {"inserts"}
<1>1. row \in Row /\ row \notin rows
  BY DEF Row
<1>2. Outcome(k, v, r) = Merge(r, x, rows)
  BY DEF Outcome
<1> HIDE DEF x, rows
<1> QED BY <1>1, <1>2, MergeRows

\* A write without the Run row leaves what is read behind the Run.
LEMMA BehindTheRun ==
  ASSUME NEW k, NEW v, NEW s, d \in Aggregate, Does(k, d, s),
         "run" \notin Wanted(k, v)
  PROVE  /\ SameRow(d, s, "link")
         /\ d.tool = "ABSENT" => SameRow(d, s, "tool")
         /\ d.tool \notin ActiveToolCall => s.tool \notin ActiveToolCall
<1>1. k.op \in {"transition", "start_tool", "finalize_tool", "save_observation",
                "append_trace"}
  BY DEF Does, Wanted
<1>2. CASE k.op = "transition"
  <2> DEFINE to == Moved(InitialRow, "WAITING_USER")
  <2>1. s = [d EXCEPT !.task = to, !.unit = to]
    BY <1>2 DEF Does, TaskTransitioned
  <2> HIDE DEF to
  <2> QED BY <2>1 DEF SameRow, Aggregate
<1>3. CASE k.op = "start_tool"
  <2>1. /\ d.tool = "CREATED"
        /\ s = [d EXCEPT !.tool = "RUNNING", !.attempts = d.attempts + 1]
    BY <1>3 DEF Does, ToolCallStartable, ToolCallStarted, Aggregate
  <2> QED BY <2>1 DEF SameRow, Aggregate, ActiveToolCall
<1>4. CASE k.op = "finalize_tool"
  <2>1. d.tool = "RUNNING" /\ s = [d EXCEPT !.tool = k.arg]
    BY <1>4 DEF Does, ToolCallFinalizable, ToolCallFinalized
  <2> QED BY <2>1 DEF SameRow, Aggregate, ActiveToolCall
<1>5. CASE k.op = "save_observation"
  BY <1>5 DEF Does, ObservationSaved, SameRow, Aggregate
<1>6. CASE k.op = "append_trace"
  <2>1. k.arg \notin Document
    BY <1>6, CommandsAssumption DEF Does, TraceEventType, Document
  <2>2. s = [d EXCEPT !.trace = Append(d.trace, k.arg)]
    BY <1>6, <2>1 DEF Does, Written, Aggregate
  <2> QED BY <2>2 DEF SameRow, Aggregate
<1> QED BY <1>1, <1>2, <1>3, <1>4, <1>5, <1>6

\* A new link or ToolCall shows as an update of the Run, and so does the end of
\* a ToolCall that is not active.
LEMMA UpdatesShow ==
  ASSUME NEW k, NEW v, NEW s, Does(k, d, s)
  PROVE  /\ Replaced(k, v) \subseteq Updated(k, v)
         /\ Updated(k, v) \subseteq Replaced(k, v) \cup Wanted(k, v)
         /\ "link" \in Updated(k, v) => "run" \in Updated(k, v)
         /\ "tool" \in Updated(k, v) =>
              "run" \in Updated(k, v) \/ d.tool \in ActiveToolCall
<1>1. /\ Replaced(k, v) \subseteq Updated(k, v)
      /\ Updated(k, v) \subseteq Replaced(k, v) \cup Wanted(k, v)
  BY DEF Updated, Wanted
<1>2. "link" \in Updated(k, v) => "run" \in Updated(k, v)
  BY DEF Updated, Replaced, Wanted
<1>3. "tool" \in Updated(k, v) =>
        \/ "run" \in Updated(k, v)
        \/ k.op \in {"start_tool", "finalize_tool"}
  BY DEF Updated, Replaced, Wanted
<1>4. k.op \in {"start_tool", "finalize_tool"} => d.tool \in ActiveToolCall
  BY DEF Does, ToolCallStartable, ToolCallFinalizable, ActiveToolCall
<1> QED BY <1>1, <1>2, <1>3, <1>4

\* A commit takes away what no other session relies on.
LEMMA CommitReadsHold ==
  ASSUME ReadsHold, NEW c \in Clients, Commit(c)
  PROVE  ReadsHold'
<1> DEFINE k == cmd[c]
           v == view[c]
<1>1. /\ TypeOK /\ Whole(d) /\ Exclusive /\ \A e \in Clients : Session(e)
      /\ at[c] = "committing" /\ held[c] = Wanted(k, v)
      /\ d' = Outcome(k, v, d)
  BY ReadsHoldIs DEF Commit, Session, Committing
<1>2. Does(k, d, d') /\ d' \in Aggregate /\ Whole(d')
      /\ \A row \in Row : Stored(d, row) => Stored(d', row)
  BY CommitDoes DEF Sound
<1>3. /\ at' = [at EXCEPT ![c] = "idle"]
      /\ cmd' = [cmd EXCEPT ![c] = NoCommand]
      /\ view' = [view EXCEPT ![c] = NoRecords]
      /\ held' = [held EXCEPT ![c] = {}]
      /\ shared' = [shared EXCEPT ![c] = {}]
      /\ stale' = [e \in Clients |->
                     IF e # c /\ cmd[e].op = "recover"
                              /\ at[e] \notin {"idle", "loaded"}
                     THEN stale[e] \cup Updated(k, v)
                     ELSE IF e = c THEN {} ELSE stale[e]]
  BY DEF Commit, Released, Goto
<1>4. \A row \in Row \ Replaced(k, v) : SameRow(d', d, row)
  BY <1>1, OtherRowsStay
<1>5. /\ Replaced(k, v) \subseteq Row
      /\ \A row \in Replaced(k, v) : row \in held[c] \/ ~Stored(d, row)
  BY <1>1, <1>2, ReplacedRows
<1>6. "run" \notin held[c] =>
        /\ SameRow(d, d', "link")
        /\ d.tool = "ABSENT" => SameRow(d, d', "tool")
        /\ d.tool \notin ActiveToolCall => d'.tool \notin ActiveToolCall
  BY <1>1, <1>2, BehindTheRun DEF TypeOK
<1>7. /\ Replaced(k, v) \subseteq Updated(k, v)
      /\ Updated(k, v) \subseteq Replaced(k, v) \cup held[c]
      /\ "link" \in Updated(k, v) => "run" \in Updated(k, v)
      /\ "tool" \in Updated(k, v) =>
           "run" \in Updated(k, v) \/ d.tool \in ActiveToolCall
  BY <1>1, <1>2, UpdatesShow
<1> HIDE DEF k, v
<1>8. TypeOK'
  <2>1. Updated(k, v) \subseteq Row
    BY <1>1, <1>5, <1>7 DEF TypeOK
  <2>2. stale' \in [Clients -> SUBSET Row]
    BY <1>1, <1>3, <2>1 DEF TypeOK
  <2>3. \A e \in Clients : at'[e] \in {"idle", "loaded"} => stale'[e] = {}
    BY <1>1, <1>3 DEF TypeOK
  <2>4. /\ at' \in [Clients ->
                     {"idle", "loaded", "locking", "surveying", "committing"}]
        /\ cmd' \in [Clients -> CommandType] /\ view' \in [Clients -> Aggregate]
        /\ held' \in [Clients -> SUBSET Row]
        /\ shared' \in [Clients -> SUBSET Row]
    BY <1>1, <1>3, NothingTyped DEF TypeOK
  <2>5. \A e \in Clients : at'[e] \in {"idle", "loaded"} =>
                             held'[e] = {} /\ shared'[e] = {}
    BY <1>1, <1>3 DEF TypeOK
  <2> QED BY <1>2, <2>2, <2>3, <2>4, <2>5 DEF TypeOK
<1>9. Exclusive'
  BY <1>1, <1>3 DEF Exclusive, TypeOK
<1>10. ASSUME NEW e \in Clients PROVE Session(e)'
  <2>1. CASE e = c
    BY <1>1, <1>3, <2>1
    DEF TypeOK, Session, CommandFits, LocksFit, LockedCurrent, SurveyCurrent,
        SnapshotCurrent, Committing, Running
  <2>2. CASE e # c
    <3>1. /\ at'[e] = at[e] /\ cmd'[e] = cmd[e] /\ view'[e] = view[e]
          /\ held'[e] = held[e]
          /\ stale'[e] = IF cmd[e].op = "recover" /\ Running(e)
                         THEN stale[e] \cup Updated(k, v) ELSE stale[e]
      BY <1>1, <1>3, <2>2 DEF TypeOK, Running
    <3>2. /\ Session(e) /\ held[e] \subseteq Row
          /\ held[e] \cap held[c] = {}
      BY <1>1, <2>2 DEF Exclusive, TypeOK
    <3>3. \A row \in held[e] : row \notin Replaced(k, v) /\ row \notin Updated(k, v)
      BY <1>5, <1>7, <3>2 DEF Session, LockedCurrent
    <3>4. (CommandFits(e) /\ LocksFit(e) /\ Committing(e))'
      BY <3>1, <3>2 DEF Session, CommandFits, LocksFit, Committing
    <3>5. LockedCurrent(e)'
      <4>1. \A row \in held[e] : /\ row \in Row
                                 /\ Stored(d', row) /\ SameRow(d', d, row)
                                 /\ SameRow(view[e], d, row)
        BY <1>2, <1>4, <3>2, <3>3 DEF Session, LockedCurrent
      <4>2. \A row \in held[e] : SameRow(view[e], d', row)
        BY <4>1 DEF SameRow, Row
      <4> QED BY <3>1, <4>1, <4>2 DEF LockedCurrent
    <3>6. SurveyCurrent(e)'
      <4> SUFFICES ASSUME Running(e), at[e] # "surveying", "run" \in held[e]
                   PROVE  SurveyCurrent(e)'
        BY <3>1 DEF SurveyCurrent, Running
      <4>1. SurveyCurrent(e) /\ "run" \notin held[c]
        BY <3>2 DEF Session
      <4>2. d.task # NoRow => d'.task # NoRow
        BY <1>2 DEF Stored, Row
      <4> QED BY <1>6, <3>1, <4>1, <4>2 DEF SurveyCurrent, SameRow
    <3>7. SnapshotCurrent(e)'
      <4> SUFFICES ASSUME Running(e), cmd[e].op = "recover"
                   PROVE  SnapshotCurrent(e)'
        BY <3>1 DEF SnapshotCurrent, Running
      <4>1. /\ SnapshotCurrent(e)
            /\ stale'[e] = stale[e] \cup Updated(k, v)
        BY <3>1, <3>2 DEF Session
      <4>2. \A row \in Row \ stale'[e] : SameRow(view[e], d', row)
        <5>1. \A row \in Row \ stale'[e] :
                SameRow(view[e], d, row) /\ SameRow(d', d, row)
          BY <1>4, <1>7, <4>1 DEF SnapshotCurrent
        <5> QED BY <5>1 DEF SameRow, Row
      <4>3. held'[e] \cap stale'[e] = {}
        BY <3>1, <3>3, <4>1 DEF SnapshotCurrent
      <4>4. "link" \in stale'[e] => "run" \in stale'[e]
        BY <1>7, <4>1 DEF SnapshotCurrent
      <4>5. "tool" \in stale'[e] =>
              "run" \in stale'[e] \/ view[e].tool \in ActiveToolCall
        <5>1. CASE "tool" \in stale[e]
          BY <4>1, <5>1 DEF SnapshotCurrent
        <5>2. CASE "tool" \notin stale[e]
          <6>1. view[e].tool = d.tool
            BY <4>1, <5>2 DEF SnapshotCurrent, SameRow, Row
          <6> QED BY <1>7, <4>1, <5>2, <6>1
        <5> QED BY <5>1, <5>2
      <4> QED BY <3>1, <4>1, <4>2, <4>3, <4>4, <4>5 DEF SnapshotCurrent
    <3> QED BY <3>4, <3>5, <3>6, <3>7 DEF Session
  <2> QED BY <2>1, <2>2
<1>11. Whole(d)'
  BY <1>2 DEF Whole
<1> QED BY <1>8, <1>9, <1>10, <1>11, ReadsHoldIs DEF ReadsHold, Session

-------------------------------------------------------------------------------
(* The theorems.                                                            *)

\* Every step keeps the invariant.
LEMMA NextReadsHold == ReadsHold /\ [Next]_vars => ReadsHold'
<1> SUFFICES ASSUME ReadsHold, [Next]_vars PROVE ReadsHold'
  OBVIOUS
<1>1. ASSUME NEW c \in Handlers, NEW k \in HandlerCommands, Begin(c, k)
      PROVE  ReadsHold'
  BY <1>1, BeginReadsHold
<1>2. ASSUME NEW c \in Recoverers, LoadClosure(c) \/ TakeSnapshot(c)
      PROVE  ReadsHold'
  BY <1>2, LoadClosureReadsHold, TakeSnapshotReadsHold
<1>3. ASSUME NEW c \in Clients, TransactionStep(c)
      PROVE  ReadsHold'
  BY <1>3, LockReadsHold, SurveyReadsHold, DecideReadsHold,
     CheckReferenceReadsHold, CommitReadsHold DEF TransactionStep
<1>4. ASSUME NEW c \in Clients, Disconnect(c)
      PROVE  ReadsHold'
  BY <1>4, RollbackReadsHold DEF Disconnect
<1>5. CASE AbortDeadlock
  BY <1>5, RollbackReadsHold DEF AbortDeadlock
<1>6. CASE UNCHANGED vars
  <2>1. TypeOK' /\ Exclusive' /\ Whole(d)'
    BY <1>6 DEF vars, ReadsHold, TypeOK, Exclusive, Whole
  <2>2. \A e \in Clients : Session(e)'
    BY <1>6, ReadsHoldIs, SessionStays DEF vars
  <2> QED BY <2>1, <2>2, ReadsHoldIs DEF ReadsHold, Session
<1> QED BY <1>1, <1>2, <1>3, <1>4, <1>5, <1>6 DEF Next

\* The reads of every transaction hold: a locked row is as it was read, what
\* was read behind the Run lock is still true behind it, and a snapshot differs
\* from the records only in rows known to be updated (the FOR UPDATE reads and
\* the SERIALIZABLE transaction of the adapters).
THEOREM ReadsHoldInvariant == Spec => []ReadsHold
<1>1. Init => ReadsHold
  BY InitReadsHold
<1>2. ReadsHold /\ [Next]_vars => ReadsHold'
  BY NextReadsHold
<1> QED BY <1>1, <1>2, PTL DEF Spec

\* Only a commit changes the records.
LEMMA OnlyCommits ==
  ASSUME ReadsHold, [Next]_vars
  PROVE  d' = d \/ \E c \in Clients : Commit(c)
<1>1. ASSUME NEW c \in Handlers, NEW k \in HandlerCommands, Begin(c, k)
      PROVE  d' = d
  BY <1>1 DEF Begin
<1>2. ASSUME NEW c \in Recoverers, LoadClosure(c) \/ TakeSnapshot(c)
      PROVE  d' = d
  BY <1>2 DEF LoadClosure, TakeSnapshot, Rollback
<1>3. ASSUME NEW c \in Clients,
             Lock(c) \/ Survey(c) \/ Decide(c) \/ CheckReference(c)
      PROVE  d' = d
  BY <1>3 DEF Lock, Survey, Decide, CheckReference, Rollback
<1>4. ASSUME NEW c \in Clients, Disconnect(c)
      PROVE  d' = d
  BY <1>4 DEF Disconnect, Rollback
<1>5. CASE AbortDeadlock
  BY <1>5 DEF AbortDeadlock, Rollback
<1>6. CASE UNCHANGED vars
  BY <1>6 DEF vars
<1> QED BY <1>1, <1>2, <1>3, <1>4, <1>5, <1>6 DEF Next, TransactionStep

\* The transactions implement AtomicRecords: whatever interleaves with it, a
\* transaction changes nothing or commits exactly the conditional write of its
\* command on the records as they are at its commit.
THEOREM TransactionsAreAtomicHolds == Spec => TransactionsAreAtomic
<1>1. Init => Atomic!Init
  BY DEF Init, Atomic!Init, RunInserted, NoRecords, NoRow,
         Atomic!RunInserted, Atomic!NoRecords, Atomic!NoRow
<1>2. ReadsHold /\ [Next]_vars => [Atomic!Next]_d
  <2> SUFFICES ASSUME ReadsHold, [Next]_vars, d' # d
               PROVE  Atomic!Next
    OBVIOUS
  <2>1. PICK c \in Clients : Commit(c)
    BY OnlyCommits
  <2> QED BY <2>1, CommitDoes, DoesAtomic
<1> QED BY <1>1, <1>2, ReadsHoldInvariant, PTL
        DEF Spec, TransactionsAreAtomic, Atomic!Spec

-------------------------------------------------------------------------------
(* Deadlock.                                                                *)

\* A session takes its locks in the two orders, the shared ones at its commit.
InOrder(c) ==
  /\ at[c] # "committing" => shared[c] = {}
  /\ Running(c) =>
       \A row \in held[c], other \in Wanted(cmd[c], view[c]) \ held[c] :
         LockRank(row) < LockRank(other)
  /\ shared[c] \subseteq Referenced(cmd[c]) \ held[c]
  /\ \A row \in shared[c],
        other \in Referenced(cmd[c]) \ (held[c] \cup shared[c]) :
       ReferenceRank(row) < ReferenceRank(other)

AllInOrder == \A c \in Clients : InOrder(c)

\* A session that does not move.
LEMMA InOrderStays ==
  ASSUME NEW e, InOrder(e), at'[e] = at[e], cmd'[e] = cmd[e],
         view'[e] = view[e], held'[e] = held[e], shared'[e] = shared[e]
  PROVE  InOrder(e)'
  BY DEF InOrder, Running

\* A session without locks.
LEMMA InOrderUnlocked ==
  ASSUME NEW e, held[e] = {}, shared[e] = {}
  PROVE  InOrder(e)
  BY DEF InOrder

\* One session's step keeps the order when it keeps that session's.
LEMMA StepInOrder ==
  ASSUME AllInOrder, NEW c \in Clients,
         \A e \in Clients \ {c} :
           /\ at'[e] = at[e] /\ cmd'[e] = cmd[e] /\ view'[e] = view[e]
           /\ held'[e] = held[e] /\ shared'[e] = shared[e],
         InOrder(c)'
  PROVE  AllInOrder'
  BY InOrderStays DEF AllInOrder

\* The end of a transaction.
LEMMA ReleasedInOrder ==
  ASSUME ReadsHold, AllInOrder, NEW c \in Clients, Released(c)
  PROVE  AllInOrder'
<1>1. /\ held'[c] = {} /\ shared'[c] = {}
      /\ \A e \in Clients \ {c} :
           /\ at'[e] = at[e] /\ cmd'[e] = cmd[e] /\ view'[e] = view[e]
           /\ held'[e] = held[e] /\ shared'[e] = shared[e]
  BY DEF ReadsHold, TypeOK, Released, Goto
<1> QED BY <1>1, InOrderUnlocked, StepInOrder DEF InOrder

\* A session that holds nothing yet.
LEMMA UnlockedInOrder ==
  ASSUME ReadsHold, AllInOrder, NEW c \in Clients,
         at[c] \in {"idle", "loaded"}, UNCHANGED <<held, shared>>,
         \A e \in Clients \ {c} :
           at'[e] = at[e] /\ cmd'[e] = cmd[e] /\ view'[e] = view[e]
  PROVE  AllInOrder'
<1>1. held'[c] = {} /\ shared'[c] = {}
  BY DEF ReadsHold, TypeOK
<1> QED BY <1>1, StepInOrder DEF InOrder

\* The next lock is later than those it has.
LEMMA LockInOrder ==
  ASSUME ReadsHold, AllInOrder, NEW c \in Clients, Lock(c), ~Rollback(c)
  PROVE  AllInOrder'
<1> DEFINE row == NextLock(c)
           k   == cmd[c]
           v   == view[c]
           w   == Merge(view[c], d, {row})
<1>1. /\ TypeOK /\ Session(c) /\ InOrder(c) /\ Locking(c)
      /\ row \notin stale[c] /\ at[c] = "locking"
      /\ held' = [held EXCEPT ![c] = @ \cup {row}]
      /\ view' = [view EXCEPT ![c] = w]
      /\ at' = [at EXCEPT ![c] = IF row = "run" /\ Consulted(cmd[c]) # {}
                                 THEN "surveying" ELSE "locking"]
      /\ UNCHANGED <<d, cmd, shared, stale>>
  BY ReadsHoldIs DEF Lock, Goto, AllInOrder, Locking
<1>2. /\ row \in Row /\ row \in Wanted(k, v)
      /\ \A other \in Wanted(k, v) \ held[c] : LockRank(row) <= LockRank(other)
  <2> DEFINE rows == Wanted(k, v) \ held[c]
  <2>1. Wanted(k, v) \subseteq Row
    BY DEF Wanted, Row
  <2>2. rows # {} /\ rows \subseteq Row
    BY <1>1, <2>1 DEF Locking, Session, LocksFit
  <2>3. row = FirstOf(LockOrder, rows)
    BY DEF NextLock
  <2> HIDE DEF rows, row
  <2>4. row \in rows /\ \A other \in rows : LockRank(row) <= LockRank(other)
    BY <2>2, <2>3, NextOfLocks
  <2> QED BY <2>2, <2>4 DEF rows
<1> HIDE DEF row
<1>3. Wanted(k, w) = Wanted(k, v)
  <2>1. CASE k.op = "recover"
    <3>1. SameRow(v, d, row) /\ v \in Aggregate
      BY <1>1, <1>2, <2>1 DEF Session, SnapshotCurrent, Running, TypeOK
    <3> QED BY <1>2, <3>1, MergeSame
  <2>2. CASE k.op # "recover"
    BY <2>2, WantedFixed
  <2> QED BY <2>1, <2>2
<1> HIDE DEF w
<1>4. /\ held'[c] = held[c] \cup {row} /\ view'[c] = w /\ cmd'[c] = k
      /\ shared'[c] = {} /\ Running(c)
  BY <1>1 DEF TypeOK, InOrder, Running
<1>5. \A x, y \in Row : LockRank(x) = LockRank(y) => x = y
  BY DEF LockRank, Row
<1>6. \A x \in Row : LockRank(x) \in Nat
  BY DEF LockRank
<1>7. Wanted(k, v) \subseteq Row /\ held[c] \subseteq Row
  BY <1>1 DEF Wanted, Row, TypeOK
<1>8. \A x \in held[c] \cup {row}, y \in Wanted(k, w) \ (held[c] \cup {row}) :
        LockRank(x) < LockRank(y)
  <2> TAKE x \in held[c] \cup {row},
           y \in Wanted(k, w) \ (held[c] \cup {row})
  <2>1. y \in Wanted(k, v) \ held[c] /\ y # row
    BY <1>3
  <2>2. CASE x = row
    BY <1>2, <1>5, <1>6, <1>7, <2>1, <2>2
  <2>3. CASE x \in held[c]
    BY <1>1, <1>4, <2>1, <2>3 DEF InOrder
  <2> QED BY <2>2, <2>3
<1>9. InOrder(c)'
  BY <1>4, <1>8 DEF InOrder
<1> QED BY <1>1, <1>9, StepInOrder DEF TypeOK

\* A survey changes nothing a handler's transaction locks.
LEMMA SurveyInOrder ==
  ASSUME ReadsHold, AllInOrder, NEW c \in Clients, Survey(c)
  PROVE  AllInOrder'
<1> DEFINE w == Merge(view[c], d, Consulted(cmd[c]))
<1>1. /\ TypeOK /\ Session(c) /\ InOrder(c) /\ at[c] = "surveying"
      /\ at' = [at EXCEPT ![c] = "locking"]
      /\ view' = [view EXCEPT ![c] = w]
      /\ UNCHANGED <<d, cmd, held, shared, stale>>
  BY ReadsHoldIs DEF Survey, Goto, AllInOrder
<1>2. cmd[c].op # "recover"
  <2>1. cmd[c] \in HandlerCommands
    BY <1>1 DEF Session, CommandFits
  <2> QED BY <2>1, HandlerCommandIs
<1>3. Wanted(cmd[c], w) = Wanted(cmd[c], view[c])
  BY <1>2, WantedFixed
<1> HIDE DEF w
<1>4. InOrder(c)'
  BY <1>1, <1>3 DEF InOrder, TypeOK, Running
<1> QED BY <1>1, <1>4, StepInOrder DEF TypeOK

\* Nor does a decision.
LEMMA DecideInOrder ==
  ASSUME ReadsHold, AllInOrder, NEW c \in Clients, Decide(c), ~Rollback(c)
  PROVE  AllInOrder'
<1>1. /\ TypeOK /\ InOrder(c) /\ at[c] = "locking"
      /\ at' = [at EXCEPT ![c] = "committing"]
      /\ UNCHANGED <<d, cmd, view, held, shared, stale>>
  BY DEF Decide, Goto, AllInOrder, ReadsHold
<1>2. InOrder(c)'
  BY <1>1 DEF InOrder, TypeOK, Running
<1> QED BY <1>1, <1>2, StepInOrder DEF TypeOK

\* The next reference is later than those it has checked.
LEMMA CheckReferenceInOrder ==
  ASSUME ReadsHold, AllInOrder, NEW c \in Clients, CheckReference(c)
  PROVE  AllInOrder'
<1> DEFINE rows == Referenced(cmd[c]) \ (held[c] \cup shared[c])
           row  == FirstOf(ReferenceOrder, rows)
<1>1. /\ TypeOK /\ InOrder(c) /\ Referencing(c) /\ at[c] = "committing"
      /\ UNCHANGED <<d, at, cmd, view, held, stale>>
      /\ shared' = [shared EXCEPT ![c] = @ \cup {row}]
  BY DEF CheckReference, AllInOrder, ReadsHold, Referencing, NextReference
<1>2. rows # {} /\ rows \subseteq {"unit", "run", "task", "tool"}
  BY <1>1 DEF Referencing, Referenced
<1> HIDE DEF rows
<1>3. row \in rows /\ \A y \in rows : ReferenceRank(row) <= ReferenceRank(y)
  BY <1>2, NextOfReferences
<1> HIDE DEF row
<1>4. \A x, y \in rows :
        /\ ReferenceRank(x) \in Nat
        /\ ReferenceRank(x) = ReferenceRank(y) => x = y
  BY <1>2 DEF ReferenceRank
<1>5. \A y \in rows \ {row} : ReferenceRank(row) < ReferenceRank(y)
  BY <1>3, <1>4
<1>6. /\ shared'[c] = shared[c] \cup {row} /\ at'[c] = "committing"
      /\ cmd'[c] = cmd[c] /\ view'[c] = view[c] /\ held'[c] = held[c]
  BY <1>1 DEF TypeOK
<1>7. shared'[c] \subseteq Referenced(cmd[c]) \ held[c]
  BY <1>1, <1>3, <1>6 DEF InOrder, rows
<1>8. \A x \in shared'[c],
         y \in Referenced(cmd[c]) \ (held[c] \cup shared'[c]) :
        ReferenceRank(x) < ReferenceRank(y)
  <2> TAKE x \in shared'[c],
           y \in Referenced(cmd[c]) \ (held[c] \cup shared'[c])
  <2>1. y \in rows \ {row}
    BY <1>6 DEF rows
  <2>2. CASE x = row
    BY <1>5, <2>1, <2>2
  <2>3. CASE x \in shared[c]
    BY <1>1, <2>1, <2>3 DEF InOrder, rows
  <2> QED BY <1>6, <2>2, <2>3
<1>9. InOrder(c)'
  BY <1>1, <1>6, <1>7, <1>8 DEF InOrder, Running
<1> QED BY <1>1, <1>9, StepInOrder DEF TypeOK

\* Every step keeps the order.
LEMMA NextInOrder == ReadsHold /\ AllInOrder /\ [Next]_vars => AllInOrder'
<1> SUFFICES ASSUME ReadsHold, AllInOrder, [Next]_vars PROVE AllInOrder'
  OBVIOUS
<1> USE DEF Clients
<1>1. ASSUME NEW c \in Clients, Rollback(c) PROVE AllInOrder'
  BY <1>1, ReleasedInOrder DEF Rollback
<1>2. ASSUME NEW c \in Handlers, NEW k \in HandlerCommands, Begin(c, k)
      PROVE  AllInOrder'
  BY <1>2, UnlockedInOrder DEF Begin, Goto, ReadsHold, TypeOK
<1>3. ASSUME NEW c \in Recoverers, LoadClosure(c)
      PROVE  AllInOrder'
  BY <1>3, UnlockedInOrder DEF LoadClosure, Goto, ReadsHold, TypeOK
<1>4. ASSUME NEW c \in Recoverers, TakeSnapshot(c)
      PROVE  AllInOrder'
  <2>1. CASE Rollback(c)
    BY <1>1, <2>1
  <2>2. CASE ~Rollback(c)
    BY <1>4, <2>2, UnlockedInOrder DEF TakeSnapshot, Goto, ReadsHold, TypeOK
  <2> QED BY <2>1, <2>2
<1>5. ASSUME NEW c \in Clients, TransactionStep(c)
      PROVE  AllInOrder'
  <2>1. CASE Rollback(c)
    BY <1>1, <2>1
  <2>2. CASE ~Rollback(c) /\ Lock(c)
    BY <2>2, LockInOrder
  <2>3. CASE Survey(c)
    BY <2>3, SurveyInOrder
  <2>4. CASE ~Rollback(c) /\ Decide(c)
    BY <2>4, DecideInOrder
  <2>5. CASE CheckReference(c)
    BY <2>5, CheckReferenceInOrder
  <2>6. CASE Commit(c)
    BY <2>6, ReleasedInOrder DEF Commit
  <2> QED BY <1>5, <2>1, <2>2, <2>3, <2>4, <2>5, <2>6 DEF TransactionStep
<1>6. ASSUME NEW c \in Clients, Disconnect(c)
      PROVE  AllInOrder'
  BY <1>1, <1>6 DEF Disconnect
<1>7. CASE AbortDeadlock
  BY <1>1, <1>7 DEF AbortDeadlock
<1>8. CASE UNCHANGED vars
  BY <1>8, InOrderStays DEF vars, AllInOrder
<1> QED BY <1>2, <1>3, <1>4, <1>5, <1>6, <1>7, <1>8 DEF Next

\* The row a waiting session waits for.
WaitRow(c) == IF Locking(c) THEN NextLock(c) ELSE NextReference(c)

\* A member of a wait cycle that locks, or checks the references of a ToolCall
\* it inserts.
RunFirstMember(c) ==
  Locking(c) \/ (Referencing(c) /\ cmd[c].op = "insert_tool")

\* It is one the session does not hold.
LEMMA WaitRowIs ==
  ASSUME ReadsHold, NEW c \in Clients, RunFirstMember(c)
  PROVE  /\ Locking(c) => WaitRow(c) \in Wanted(cmd[c], view[c]) \ held[c]
         /\ ~Locking(c) => /\ held[c] = {"run"}
                           /\ WaitRow(c) \in {"unit", "task"} \ shared[c]
                           /\ WaitRow(c) \in Referenced(cmd[c])
                                             \ (held[c] \cup shared[c])
<1>1. CASE Locking(c)
  <2> DEFINE rows == Wanted(cmd[c], view[c]) \ held[c]
  <2>1. rows # {} /\ rows \subseteq Row
    BY <1>1 DEF Locking, ReadsHold, LocksFit, Wanted, Row
  <2>2. WaitRow(c) = FirstOf(LockOrder, rows)
    BY <1>1 DEF WaitRow, NextLock
  <2> HIDE DEF rows
  <2>3. WaitRow(c) \in rows
    BY <2>1, <2>2, NextOfLocks
  <2> QED BY <1>1, <2>3 DEF rows
<1>2. CASE ~Locking(c)
  <2> DEFINE rows == Referenced(cmd[c]) \ (held[c] \cup shared[c])
  <2>1. Referencing(c) /\ cmd[c].op = "insert_tool" /\ at[c] = "committing"
    BY <1>2 DEF RunFirstMember, Referencing
  <2>2. held[c] = {"run"}
    BY <2>1 DEF ReadsHold, Committing, Wanted
  <2>3. rows # {} /\ rows \subseteq {"unit", "task"} \ shared[c]
    BY <2>1, <2>2 DEF Referencing, Referenced
  <2>4. WaitRow(c) = FirstOf(ReferenceOrder, rows)
    BY <1>2 DEF WaitRow, NextReference
  <2> HIDE DEF rows
  <2>5. WaitRow(c) \in rows
    BY <2>3, <2>4, NextOfReferences
  <2> QED BY <1>2, <2>2, <2>3, <2>5 DEF rows
<1> QED BY <1>1, <1>2

\* Along the edges of such a cycle the rows waited for only ascend.
LEMMA WaitsAscend ==
  ASSUME ReadsHold, AllInOrder, NEW c \in Clients, NEW e \in Clients,
         RunFirstMember(c), RunFirstMember(e), WaitsFor(c, e)
  PROVE  LockRank(WaitRow(c)) < LockRank(WaitRow(e))
<1>1. InOrder(e)
  BY DEF AllInOrder
<1>2. WaitRow(c) \in held[e] \cup shared[e]
  BY DEF WaitsFor, WaitRow, Locking, Referencing
<1>3. CASE Locking(e)
  <2>1. shared[e] = {} /\ Running(e)
    BY <1>1, <1>3 DEF InOrder, Locking, Running
  <2>2. WaitRow(e) \in Wanted(cmd[e], view[e]) \ held[e]
    BY <1>3, WaitRowIs
  <2> QED BY <1>1, <1>2, <2>1, <2>2 DEF InOrder
<1>4. CASE ~Locking(e)
  <2>1. /\ held[e] = {"run"}
        /\ WaitRow(e) \in {"unit", "task"} \ shared[e]
        /\ WaitRow(e) \in Referenced(cmd[e]) \ (held[e] \cup shared[e])
        /\ cmd[e].op = "insert_tool"
    BY <1>4, WaitRowIs DEF RunFirstMember
  <2>2. CASE WaitRow(c) = "run"
    BY <2>1, <2>2 DEF LockRank
  <2>3. CASE WaitRow(c) \in shared[e]
    <3>1. ReferenceRank(WaitRow(c)) < ReferenceRank(WaitRow(e))
      BY <1>1, <2>1, <2>3 DEF InOrder
    <3>2. WaitRow(c) \in {"unit", "task"}
      BY <1>1, <2>1, <2>3 DEF InOrder, Referenced
    <3> QED BY <2>1, <3>1, <3>2 DEF LockRank, ReferenceRank
  <2> QED BY <1>2, <2>1, <2>2, <2>3
<1> QED BY <1>3, <1>4

\* So they cannot all wait for one another: there are five rows.
LEMMA NoRunFirstCycle ==
  ASSUME ReadsHold, AllInOrder, NEW clients \in SUBSET Clients,
         \A c \in clients : RunFirstMember(c)
  PROVE  ~Deadlocked(clients)
<1> SUFFICES ASSUME Deadlocked(clients) PROVE FALSE
  OBVIOUS
<1> DEFINE At(n) == \E c \in clients : LockRank(WaitRow(c)) = n
<1>1. \A c \in clients : \E e \in clients :
        LockRank(WaitRow(c)) < LockRank(WaitRow(e))
  <2> TAKE c \in clients
  <2>1. PICK e \in Clients : WaitsFor(c, e)
    BY DEF Deadlocked
  <2>2. PICK f \in clients : WaitsFor(c, f)
    BY DEF Deadlocked
  <2> QED BY <2>2, WaitsAscend
<1>2. \A row : LockRank(row) \in 1..5
  BY DEF LockRank
<1>3. ~At(5)
  BY <1>1, <1>2
<1>4. ~At(4)
  BY <1>1, <1>2, <1>3
<1>5. ~At(3)
  BY <1>1, <1>2, <1>3, <1>4
<1>6. ~At(2)
  BY <1>1, <1>2, <1>3, <1>4, <1>5
<1>7. ~At(1)
  BY <1>1, <1>2, <1>3, <1>4, <1>5, <1>6
<1>8. PICK c \in clients : TRUE
  BY DEF Deadlocked
<1> QED BY <1>2, <1>3, <1>4, <1>5, <1>6, <1>7, <1>8

\* A wait cycle always has a member that reaches the Run through a foreign key
\* at its commit: the writes that lock the Run row first, the Task transition
\* and the recoveries, which follow the stable lock order, never deadlock.
THEOREM RunFirstNeverDeadlocksHolds == Spec => []RunFirstNeverDeadlocks
<1>1. Init => AllInOrder
  BY InOrderUnlocked DEF Init, AllInOrder
<1>2. ReadsHold /\ AllInOrder /\ [Next]_vars => AllInOrder'
  BY NextInOrder
<1>3. ReadsHold /\ AllInOrder => RunFirstNeverDeadlocks
  <2> SUFFICES ASSUME ReadsHold, AllInOrder, NEW clients \in SUBSET Clients,
                      Deadlocked(clients),
                      \A c \in clients \cap Handlers :
                        \/ cmd[c].op \in RunFirst \cup {"transition"}
                        \/ at[c] # "committing"
               PROVE  FALSE
    BY DEF RunFirstNeverDeadlocks
  <2>1. ASSUME NEW c \in clients PROVE RunFirstMember(c)
    <3>1. Locking(c) \/ Referencing(c)
      BY DEF Deadlocked, WaitsFor
    <3>2. CASE Referencing(c)
      <4>1. /\ at[c] = "committing" /\ Referenced(cmd[c]) # {}
            /\ CommandFits(c)
        BY <3>2 DEF Referencing, ReadsHold
      <4>2. cmd[c].op # "recover" /\ c \in Handlers
        BY <4>1 DEF Referenced, CommandFits
      <4>3. cmd[c].op \in RunFirst \cup {"transition"}
        BY <4>1, <4>2
      <4>4. cmd[c].op = "insert_tool"
        BY <4>1, <4>3 DEF RunFirst, Referenced
      <4> QED BY <3>2, <4>4 DEF RunFirstMember
    <3>3. CASE Locking(c)
      BY <3>3 DEF RunFirstMember
    <3> QED BY <3>1, <3>2, <3>3
  <2> QED BY <2>1, NoRunFirstCycle
<1> QED BY <1>1, <1>2, <1>3, ReadsHoldInvariant, PTL DEF Spec

===============================================================================
