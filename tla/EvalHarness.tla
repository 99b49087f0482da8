---------------------------- MODULE EvalHarness ----------------------------
(***************************************************************************)
(* The offline evaluation harness: commands (run_lane, run_qwen_baseline)  *)
(* that execute a selection of Cases against the system under test, grade  *)
(* the evidence, append one EvalCaseGraded event to the graded Run's Trace *)
(* and one insert-only result per (Case, lane, attempt) of an evaluation   *)
(* run.  Commands interleave at their awaits, in one harness or in several *)
(* processes over the same database; a process may die in between.         *)
(*                                                                         *)
(* An execution of the system under test is a number: its one-time         *)
(* execution_ref and the Run and Trace it produced.  The verdict of the    *)
(* graders and the observable a client sees are arbitrary.                 *)
(***************************************************************************)
EXTENDS Naturals, Sequences, FiniteSets, SequencesExt

CONSTANTS
  Calls,          \* commands; a call is made at most once
  Harnesses,      \* harness processes
  HarnessOf,      \* the harness a call is made on
  Cases, NotExecutable,     \* the artifact's Cases; those only contract-defined
  Pair,           \* E2E01-04-A and E2E01-04-B
  ScriptsOf,      \* the model scripts bound to each Case
  Commands,       \* the argument records a call may be made with
  Observables,    \* what the client can tell apart about a Case
  None,
  MaxFaults,      \* failures of a store, of the system under test or of a nonce
  MaxCrashes

ASSUME HarnessAssumption ==
  /\ HarnessOf \in [Calls -> Harnesses]
  /\ NotExecutable \subseteq Cases
  /\ \E x, y \in Cases : x # y /\ Pair = {x, y}
  /\ \A m \in Commands : /\ m.lane \in {"offline_gate", "qwen_baseline"}
                         /\ m.ready \in BOOLEAN
                         /\ m.attempt \in Nat
                         /\ DOMAIN m.cases = 1..Len(m.cases) /\ Len(m.cases) \in Nat
  /\ MaxFaults \in Nat /\ MaxCrashes \in Nat

ASSUME NoneAssumption ==
  None \notin Nat /\ None \notin [status : {"PASS", "FAIL", "NOT_RUN"}, origin : Nat \cup Calls]

VARIABLES
  call,         \* the command in progress, or its outcome
  cache,        \* per harness: the replay cache of persisted stages
  executions,   \* what the system under test ran, in order of their refs
  results,      \* stored results, by key
  graded,       \* stored EvalCaseGraded events: their identity and their Trace
  failures,     \* stored execution failures
  faults, crashes

store == <<results, graded, failures>>
vars == <<call, cache, executions, store, faults, crashes>>

Lanes == {m.lane : m \in Commands}
Attempts == {m.attempt : m \in Commands}
Key == [case : Cases, lane : Lanes, attempt : Attempts]
KeyOf(m, x) == [case |-> x, lane |-> m.lane, attempt |-> m.attempt]

(* The script a command selects for a Case, None when it selects none that *)
(* is bound to the Case.                                                   *)
ScriptFor(m, x) ==
  IF m.script[x] \in ScriptsOf[x] THEN m.script[x]
  ELSE IF m.script[x] = None /\ Cardinality(ScriptsOf[x]) = 1
       THEN CHOOSE s \in ScriptsOf[x] : TRUE
       ELSE None

ReplayKey(m, x) == <<KeyOf(m, x), ScriptFor(m, x)>>

Idle == [pc |-> "idle", command |-> None, at |-> 1, execution |-> 0, evidence |-> 0,
         staged |-> <<>>, results |-> <<>>, failures |-> {}, passed |-> FALSE]

Over == {"finished", "aborted", "crashed"}

(* A dictionary with one more entry, or with that entry replaced.          *)
Put(f, x, v) == [y \in DOMAIN f \cup {x} |-> IF y = x THEN v ELSE f[y]]

Init ==
  /\ call = [c \in Calls |-> Idle]
  /\ cache = [h \in Harnesses |-> <<>>]
  /\ executions = <<>>
  /\ results = [k \in Key |-> None]
  /\ graded = {} /\ failures = {}
  /\ faults = 0 /\ crashes = 0

At(c, pc) == call[c].pc = pc
Becomes(c, next) == call' = [call EXCEPT ![c] = next]
Spend(n) == faults + n <= MaxFaults /\ faults' = faults + n

FailSilently(c, x, phase, next, spent) ==   \* mutant: reported although storing it raised
  LET stored == [call |-> c, case |-> x, phase |-> phase]
      reported == [next EXCEPT !.failures = @ \cup {<<x, phase>>}] IN
  \/ Spend(spent) /\ failures' = failures \cup {stored} /\ Becomes(c, reported)
  \/ Spend(spent + 1) /\ failures' \in {failures, failures \cup {stored}} /\ Becomes(c, reported)

(* _append_failure: the failure is stored and reported, or storing it      *)
(* raises and the whole command ends in EvalHarnessCommandError, whether   *)
(* or not the insert was committed.                                        *)
Fail(c, x, phase, next, spent) ==
  LET stored == [call |-> c, case |-> x, phase |-> phase] IN
  \/ /\ Spend(spent)
     /\ failures' = failures \cup {stored}
     /\ Becomes(c, [next EXCEPT !.failures = @ \cup {<<x, phase>>}])
  \/ /\ Spend(spent + 1)
     /\ failures' \in {failures, failures \cup {stored}}
     /\ Becomes(c, [next EXCEPT !.pc = "aborted"])

(* The next Case of the selection; staging is over after the last one.     *)
Advance(record) ==
  [record EXCEPT !.at = @ + 1,
                 !.pc = IF record.at < Len(record.command.cases) THEN "staging" ELSE "pairing"]

FailCase(c, x, phase, spent) ==
  /\ Fail(c, x, phase, Advance(call[c]), spent)
  /\ UNCHANGED <<cache, executions, results, graded, crashes>>
----------------------------------------------------------------------------
WellFormed(m) ==
  /\ m.cases # <<>> /\ ToSet(m.cases) \subseteq Cases
  /\ Len(m.cases) = Cardinality(ToSet(m.cases))
  /\ m.attempt > 0
  /\ {x \in Cases : m.script[x] # None} \subseteq ToSet(m.cases)

HalfPair(m) == Pair \cap ToSet(m.cases) \notin {{}, Pair}

(* The Cases a command is refused for, before anything is executed.        *)
Refused(m) ==
  LET notExecutable == ToSet(m.cases) \cap NotExecutable IN
  IF notExecutable # {} THEN notExecutable
  ELSE IF HalfPair(m) THEN ToSet(m.cases) \cap Pair
  ELSE {}

RefusalPhase(m) ==
  IF ToSet(m.cases) \cap NotExecutable # {} THEN "CASE_SETUP" ELSE "RESULT_COMPLETENESS"

(* A call of run_lane or run_qwen_baseline.  The Qwen command raises on an *)
(* invalid selection and records NOT_RUN when a credential or the real     *)
(* system under test is missing.                                           *)
Begin(c, m) ==
  /\ At(c, "idle")
  /\ LET begun == [Idle EXCEPT !.command = m]
         qwen  == m.lane = "qwen_baseline"
         to(pc) == /\ Becomes(c, [begun EXCEPT !.pc = pc])
                   /\ UNCHANGED <<failures, faults>>
     IN \/ qwen /\ (~WellFormed(m) \/ HalfPair(m)) /\ to("aborted")
        \/ qwen /\ WellFormed(m) /\ ~HalfPair(m) /\ ~m.ready /\ to("not_run")
        \/ ~qwen /\ ~WellFormed(m) /\ Fail(c, None, "HARNESS_SETUP",
                                           [begun EXCEPT !.pc = "finished"], 0)
        \/ WellFormed(m) /\ (qwen => m.ready /\ ~HalfPair(m))
           /\ to(IF Refused(m) # {} THEN "refusing" ELSE "staging")
  /\ UNCHANGED <<cache, executions, results, graded, crashes>>

Refuse(c) ==
  /\ At(c, "refusing")
  /\ LET m == call[c].command
         left(i) == {j \in i..Len(m.cases) : m.cases[j] \in Refused(m)}
     IN \E i \in left(call[c].at) :
          /\ \A later \in left(call[c].at) : i <= later
          /\ Fail(c, m.cases[i], RefusalPhase(m),
                  [call[c] EXCEPT !.at = i + 1,
                                  !.pc = IF left(i + 1) # {} THEN "refusing" ELSE "finished"], 0)
  /\ UNCHANGED <<cache, executions, results, graded, crashes>>

(* append_qwen_not_run_record: the record holds the command's own clock,   *)
(* so that only an identical one can exist already; anything else raises.  *)
NotRunRecord(c) == [status |-> "NOT_RUN", origin |-> c]

AppendNotRun(c) ==
  LET m == call[c].command  x == m.cases[call[c].at]  k == KeyOf(m, x)
      kept == [call[c] EXCEPT !.at = @ + 1,
                              !.results = Put(@, x, NotRunRecord(c)),
                              !.pc = IF call[c].at < Len(m.cases) THEN "not_run" ELSE "finished"]
      abort == [call[c] EXCEPT !.pc = "aborted"]
      stored == [results EXCEPT ![k] = NotRunRecord(c)]
  IN
  /\ At(c, "not_run")
  /\ \/ results[k] \in {None, NotRunRecord(c)} /\ results' = stored /\ Becomes(c, kept) /\ Spend(0)
     \/ results[k] \notin {None, NotRunRecord(c)} /\ Becomes(c, abort) /\ Spend(0)
        /\ UNCHANGED results
     \/ /\ Spend(1) /\ Becomes(c, abort)
        /\ results' \in {results, IF results[k] = None THEN stored ELSE results}
  /\ UNCHANGED <<cache, executions, graded, failures, crashes>>
----------------------------------------------------------------------------
(* _stage_case up to the await on the system under test: a replay of the   *)
(* cached stage, or a fresh one-time nonce and an execution.               *)
Stage(c) ==
  LET m == call[c].command
      x == m.cases[call[c].at]
      h == HarnessOf[c]
      hit == ReplayKey(m, x) \in DOMAIN cache[h]
  IN
  /\ At(c, "staging")
  /\ \/ /\ hit
        /\ Becomes(c, Advance([call[c] EXCEPT
                                 !.staged = Put(@, x, cache[h][ReplayKey(m, x)])]))
        /\ UNCHANGED <<cache, executions, store, faults, crashes>>
     \/ ~hit /\ ScriptFor(m, x) = None /\ FailCase(c, x, "CASE_SETUP", 0)
     \/ ~hit /\ ScriptFor(m, x) # None /\ FailCase(c, x, "RESULT_COMPLETENESS", 1)
     \/ /\ ~hit /\ ScriptFor(m, x) # None
        /\ executions' = Append(executions, [case |-> x, harness |-> h, observable |-> None])
        /\ Becomes(c, [call[c] EXCEPT !.pc = "executing", !.execution = Len(executions) + 1])
        /\ UNCHANGED <<cache, store, faults, crashes>>

(* The result must echo the one-time reference of this execution.          *)
CorrelatesAny(c, e) == TRUE   \* mutant: the reference is not compared
Correlates(c, e) == e = call[c].execution

(* Executions of the same harness whose evidence a confused system under   *)
(* test could hand back instead.                                           *)
Stale(c) == {e \in DOMAIN executions : /\ e # call[c].execution
                                       /\ executions[e].harness = HarnessOf[c]
                                       /\ executions[e].observable # None}

(* The system under test answers: correlation, the binding of the          *)
(* evidence, the exhaustion of the script and the first graders.           *)
Return(c) ==
  LET x == call[c].command.cases[call[c].at]
      bind(e) == Becomes(c, [call[c] EXCEPT !.pc = "grading", !.evidence = e])
  IN
  /\ At(c, "executing")
  /\ \/ /\ \E o \in Observables :
             executions' = [executions EXCEPT ![call[c].execution].observable = o]
        /\ bind(call[c].execution)
        /\ UNCHANGED <<cache, store, faults, crashes>>
     \/ \E phase \in {"SYSTEM_UNDER_TEST", "RESULT_COMPLETENESS", "GRADING"} :
          \E o \in Observables \cup {None} :
            /\ executions' = [executions EXCEPT ![call[c].execution].observable = o]
            /\ Fail(c, x, phase, Advance(call[c]), 1)
            /\ UNCHANGED <<cache, results, graded, crashes>>
     \/ \E e \in Stale(c) :
          \/ ~Correlates(c, e) /\ FailCase(c, x, "RESULT_COMPLETENESS", 1)
          \/ /\ Correlates(c, e) /\ Spend(1) /\ bind(e)
             /\ UNCHANGED <<cache, executions, store, crashes>>

(* append_eval_case_graded: the event's identity is derived from the key,  *)
(* so that an insert for a key graded before on another Trace conflicts.   *)
GradedEvent(c) ==
  [key |-> KeyOf(call[c].command, call[c].command.cases[call[c].at]),
   execution |-> call[c].evidence]

GradedAnew(event) == TRUE   \* mutant: a fresh identity for each graded event
GradedInsertable(event) ==
  \A other \in graded : other.key = event.key => other = event

AppendGraded(c) ==
  LET event == GradedEvent(c) IN
  /\ At(c, "grading")
  /\ \/ /\ GradedInsertable(event)
        /\ graded' = graded \cup {event}
        /\ Becomes(c, [call[c] EXCEPT !.pc = "reloading"])
        /\ UNCHANGED <<cache, executions, results, failures, faults, crashes>>
     \/ ~GradedInsertable(event) /\ FailCase(c, event.key.case, "TRACE_PERSISTENCE", 0)
     \/ /\ graded' \in {graded, IF GradedInsertable(event) THEN graded \cup {event} ELSE graded}
        /\ Fail(c, event.key.case, "TRACE_PERSISTENCE", Advance(call[c]), 1)
        /\ UNCHANGED <<cache, executions, results, crashes>>

(* The Trace is read back: it must hold this graded event and no other,    *)
(* and the completeness grader gives the last part of the verdict.         *)
Reload(c) ==
  LET event == GradedEvent(c)
      x == event.key.case
      onTrace == {g \in graded : g.execution = event.execution}
  IN
  /\ At(c, "reloading")
  /\ \/ \E status \in {"PASS", "FAIL"} :
          /\ onTrace = {event}
          /\ Becomes(c, Advance([call[c] EXCEPT
               !.staged = Put(@, x, [status |-> status, origin |-> event.execution,
                                     observable |-> executions[event.execution].observable])]))
          /\ UNCHANGED <<cache, executions, store, faults, crashes>>
     \/ onTrace # {event} /\ FailCase(c, x, "RESULT_COMPLETENESS", 0)
     \/ \E phase \in {"TRACE_PERSISTENCE", "RESULT_COMPLETENESS", "GRADING"} :
          FailCase(c, x, phase, 1)
----------------------------------------------------------------------------
UnstagedNone(staged, xs) == staged   \* mutant: half a pair stays staged
Unstaged(staged, xs) == [x \in DOMAIN staged \ xs |-> staged[x]]

ForcedOut(staged) == Unstaged(staged, Pair)   \* mutant: the pair is dropped without a failure
(* _force_disclosure_failure on both Cases of the pair.                    *)
ForcedFail(staged) ==
  [x \in DOMAIN staged |->
     IF x \in Pair THEN [staged[x] EXCEPT !.status = "FAIL"] ELSE staged[x]]

(* Once every Case is staged: half a pair is dropped, and a pair whose     *)
(* observables differ discloses something, so both Cases fail.             *)
JoinPair(c) ==
  LET staged == call[c].staged
      have == Pair \cap DOMAIN staged
      storing(s) == [call[c] EXCEPT !.pc = "storing", !.at = 1, !.staged = s]
      alike == \A x, y \in have : staged[x].observable = staged[y].observable
  IN
  /\ At(c, "pairing")
  /\ \/ /\ have \in {{}, Pair}
        /\ Becomes(c, storing(IF alike THEN staged ELSE ForcedFail(staged)))
        /\ UNCHANGED <<cache, executions, store, faults, crashes>>
     \/ \E x \in have :
          /\ have # Pair
          /\ Fail(c, x, "RESULT_COMPLETENESS", storing(Unstaged(staged, have)), 0)
          /\ UNCHANGED <<cache, executions, results, graded, crashes>>

(* The positions of the selection that are still to be stored.             *)
ToStore(c) ==
  LET cases == call[c].command.cases IN
  {i \in call[c].at..Len(cases) : cases[i] \in DOMAIN call[c].staged}

(* The replay cache takes a stage over only once its result is persisted.  *)
CacheAfter(c, x, stage, persisted) ==
  IF persisted
  THEN [cache EXCEPT ![HarnessOf[c]] = Put(@, ReplayKey(call[c].command, x), stage)]
  ELSE cache

ResultOf(stage) == [status |-> stage.status, origin |-> stage.origin]
Storable(k, record) == results[k] \in {None, record}

(* _append_result: inserted, or already there with the same content; any   *)
(* other answer, an answer that is lost included, is a failure.            *)
AppendResult(c) ==
  /\ At(c, "storing")
  /\ \E i \in ToStore(c) :
       LET m == call[c].command
           x == m.cases[i]
           k == KeyOf(m, x)
           stage == call[c].staged[x]
           record == ResultOf(stage)
           next == [call[c] EXCEPT !.at = i + 1]
           stored == [results EXCEPT ![k] = record]
       IN
       /\ \A later \in ToStore(c) : i <= later
       /\ \/ /\ Storable(k, record)
             /\ results' = stored
             /\ cache' = CacheAfter(c, x, stage, TRUE)
             /\ Becomes(c, [next EXCEPT !.results = Put(@, x, record)])
             /\ UNCHANGED <<executions, graded, failures, faults, crashes>>
          \/ /\ \/ /\ ~Storable(k, record)
                   /\ UNCHANGED results
                   /\ Fail(c, x, "RESULT_PERSISTENCE", next, 0)
                \/ /\ results' \in {results, IF Storable(k, record) THEN stored ELSE results}
                   /\ Fail(c, x, "RESULT_PERSISTENCE", next, 1)
             /\ cache' = CacheAfter(c, x, stage, FALSE)
             /\ UNCHANGED <<executions, graded, crashes>>

CommandPassedSoFar(outcome) ==   \* mutant: failures and missing results are overlooked
  \A x \in DOMAIN outcome.results : outcome.results[x].status = "PASS"
CommandPassed(outcome) ==
  /\ outcome.failures = {}
  /\ DOMAIN outcome.results = ToSet(outcome.command.cases)
  /\ \A x \in DOMAIN outcome.results : outcome.results[x].status = "PASS"

FinishComplete(c) ==   \* mutant: waits for a result of every staged Case
  /\ At(c, "storing") /\ ToStore(c) = {}
  /\ DOMAIN call[c].results = DOMAIN call[c].staged
  /\ Becomes(c, [call[c] EXCEPT !.pc = "finished", !.passed = CommandPassed(call[c])])
  /\ UNCHANGED <<cache, executions, store, faults, crashes>>

Finish(c) ==
  /\ At(c, "storing") /\ ToStore(c) = {}
  /\ Becomes(c, [call[c] EXCEPT !.pc = "finished", !.passed = CommandPassed(call[c])])
  /\ UNCHANGED <<cache, executions, store, faults, crashes>>
----------------------------------------------------------------------------
(* A cancellation reaches a command while it awaits the system under test. *)
Cancel(c) ==
  /\ At(c, "executing") /\ Spend(1)
  /\ Becomes(c, [call[c] EXCEPT !.pc = "aborted"])
  /\ UNCHANGED <<cache, executions, store, crashes>>

(* The process of a harness dies: its commands and its cache are gone.     *)
Crash(h) ==
  /\ crashes < MaxCrashes /\ crashes' = crashes + 1
  /\ call' = [c \in Calls |->
                IF HarnessOf[c] = h /\ call[c].pc \notin Over \cup {"idle"}
                THEN [call[c] EXCEPT !.pc = "crashed"] ELSE call[c]]
  /\ cache' = [cache EXCEPT ![h] = <<>>]
  /\ UNCHANGED <<executions, store, faults>>

Step(c) ==
  \/ Refuse(c) \/ AppendNotRun(c)
  \/ Stage(c) \/ Return(c) \/ AppendGraded(c) \/ Reload(c)
  \/ JoinPair(c) \/ AppendResult(c) \/ Finish(c)

Next ==
  \/ \E c \in Calls : Step(c) \/ Cancel(c) \/ \E m \in Commands : Begin(c, m)
  \/ \E h \in Harnesses : Crash(h)

Spec == Init /\ [][Next]_vars

(* The code of a command runs to its next await; the stores answer and the *)
(* system under test, whose remote calls have timeouts, returns or raises. *)
FairSpec == Spec /\ \A c \in Calls : WF_vars(Step(c))
============================================================================
