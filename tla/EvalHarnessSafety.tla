-------------------------- MODULE EvalHarnessSafety --------------------------
(***************************************************************************)
(* What the stored results, the reported outcomes and the replay cache of  *)
(* EvalHarness promise one another.                                        *)
(***************************************************************************)
EXTENDS EvalHarness

Judged(k) == results[k] # None /\ results[k].status # "NOT_RUN"
Observed(k) == executions[results[k].origin].observable

(* A stored PASS or FAIL is about an execution of that very Case, and no   *)
(* two keys are judged on the same one: evidence handed back for another   *)
(* execution, and a key graded by two processes, never reach a result      *)
(* (the one-time execution_ref, the graded event's derived identity and    *)
(* the reloaded Trace).                                                    *)
JudgedOnOwnExecution ==
  \A k \in Key : Judged(k) =>
    /\ executions[results[k].origin].case = k.case
    /\ \A other \in Key \ {k} : Judged(other) => results[other].origin # results[k].origin

(* The disclosure check of E2E01-04: if both Cases of the pair have a      *)
(* judged result for one lane and attempt and one of them is PASS, the     *)
(* client could not tell the two executions apart -- also when the two     *)
(* results were stored by different commands or replayed from the cache.   *)
PairPassesAlike ==
  \A k1, k2 \in Key :
    (/\ {k1.case, k2.case} = Pair /\ k1.lane = k2.lane /\ k1.attempt = k2.attempt
     /\ Judged(k1) /\ Judged(k2) /\ results[k1].status = "PASS")
      => Observed(k1) = Observed(k2)

(* A command that reports command_passed left a stored PASS for every      *)
(* selected Case, each with its graded event on the judged Trace, and      *)
(* recorded no failure.                                                    *)
PassedMeansStored ==
  \A c \in Calls : call[c].passed =>
    /\ \A x \in ToSet(call[c].command.cases) :
         LET k == KeyOf(call[c].command, x) IN
         /\ results[k] # None /\ results[k].status = "PASS"
         /\ [key |-> k, execution |-> results[k].origin] \in graded
    /\ \A f \in failures : f.call # c

Tried(r) ==
  LET m == r.command IN
  /\ r.pc = "finished"
  /\ WellFormed(m) /\ Refused(m) = {} /\ (m.lane = "qwen_baseline" => m.ready)

(* A command that went through its selection accounts for each Case once:  *)
(* a result, or exactly one failure, and never both.                       *)
EveryCaseAccountedOnce ==
  \A c \in Calls : Tried(call[c]) =>
    \A x \in ToSet(call[c].command.cases) :
      LET reported == {f \in call[c].failures : f[1] = x} IN
      IF x \in DOMAIN call[c].results THEN reported = {} ELSE Cardinality(reported) = 1

(* What an outcome reports is what the store holds, now and later: no      *)
(* result is fabricated or overwritten, no failure goes unrecorded.        *)
ReportedIsStored ==
  \A c \in Calls :
    /\ \A x \in DOMAIN call[c].results :
         results[KeyOf(call[c].command, x)] = call[c].results[x]
    /\ call[c].pc = "finished" =>
         \A f \in call[c].failures : [call |-> c, case |-> f[1], phase |-> f[2]] \in failures

----------------------------------------------------------------------------
(* The stored records implement the ledger of EvalLedger: insert-only      *)
(* graded events and results, each result bound to the graded Trace, for   *)
(* any interleaving of commands and processes.                             *)
GradedOn(k) ==
  IF \E g \in graded : g.key = k THEN (CHOOSE g \in graded : g.key = k).execution ELSE None

Ledger == INSTANCE EvalLedger WITH
  Keys <- Key, Excuses <- Calls, result <- results, gradedOn <- [k \in Key |-> GradedOn(k)]

ImplementsLedger == Ledger!Spec

----------------------------------------------------------------------------
(* The inductive invariant behind the four properties of the stored        *)
(* records.                                                                *)
Point == {"idle", "refusing", "not_run", "staging", "executing", "grading", "reloading",
          "pairing", "storing"} \cup Over
Phase == {"HARNESS_SETUP", "CASE_SETUP", "RESULT_COMPLETENESS", "SYSTEM_UNDER_TEST",
          "GRADING", "TRACE_PERSISTENCE", "RESULT_PERSISTENCE"}
Dictionary(f, xs, T) == DOMAIN f \subseteq xs /\ f \in [DOMAIN f -> T]

StageRecord == [status : {"PASS", "FAIL"}, origin : Nat, observable : Observables \cup {None}]
ResultRecord == [status : {"PASS", "FAIL", "NOT_RUN"}, origin : Nat \cup Calls]
ExecutionRecord == [case : Cases, harness : Harnesses, observable : Observables \cup {None}]
CallRecord(r) ==
  /\ r \in [pc : Point, command : Commands \cup {None}, at : Nat \ {0}, execution : Nat,
            evidence : Nat, staged : {r.staged}, results : {r.results},
            failures : SUBSET ((Cases \cup {None}) \X Phase), passed : BOOLEAN]
  /\ Dictionary(r.staged, Cases, StageRecord) /\ Dictionary(r.results, Cases, ResultRecord)

EventOf(k, e) == [key |-> k, execution |-> e]

(* A command works on a Case of its well formed selection.                 *)
Selected(r) ==
  /\ CallRecord(r)
  /\ r.pc = "idle" => r = Idle
  /\ r.pc # "idle" => r.command \in Commands
  /\ r.pc \notin Over \cup {"idle"} => WellFormed(r.command)
  /\ r.pc \in {"not_run", "staging", "executing", "grading", "reloading"} =>
       r.at \in 1..Len(r.command.cases)

(* Until its graded event is appended, an execution is of the Case at hand *)
(* and not graded; afterwards its event is the stored one.                 *)
UngradedYet(r) ==
  /\ r.pc \in {"executing", "grading"} =>
       /\ r.execution \in DOMAIN executions
       /\ executions[r.execution].case = r.command.cases[r.at]
       /\ \A g \in graded : g.execution # r.execution
  /\ r.pc = "grading" => r.evidence = r.execution
  /\ r.pc = "reloading" =>
       EventOf(KeyOf(r.command, r.command.cases[r.at]), r.evidence) \in graded

(* What is staged was graded under the key it will be stored under.        *)
StagedIsGraded(r) ==
  \A x \in DOMAIN r.staged : EventOf(KeyOf(r.command, x), r.staged[x].origin) \in graded

ReportedResults(r) ==
  /\ \A x \in DOMAIN r.results : results[KeyOf(r.command, x)] = r.results[x]
  /\ r.passed => r.pc = "finished" /\ CommandPassed(r)

(* A failure that is reported is stored; one that is stored is reported    *)
(* unless the command was broken off.                                      *)
ReportedFailures(c, r) ==
  /\ \A f \in r.failures : [call |-> c, case |-> f[1], phase |-> f[2]] \in failures
  /\ r.pc \notin {"aborted", "crashed"} =>
       \A f \in failures : f.call = c => <<f.case, f.phase>> \in r.failures

CallFits(c, r) ==
  /\ Selected(r) /\ UngradedYet(r) /\ StagedIsGraded(r)
  /\ ReportedResults(r) /\ ReportedFailures(c, r)

(* A key is graded on one Trace and a Trace for one key, of its own Case;  *)
(* what is judged or cached was graded.                                    *)
RecordsFit ==
  /\ executions \in Seq(ExecutionRecord)
  /\ results \in [Key -> ResultRecord \cup {None}]
  /\ cache = [h \in Harnesses |-> cache[h]]
  /\ \A g \in graded :
       /\ g \in [key : Key, execution : Nat]
       /\ g.execution \in DOMAIN executions
       /\ executions[g.execution].case = g.key.case
  /\ \A g, other \in graded :
       g.key = other.key \/ g.execution = other.execution => g = other
  /\ \A k \in Key : Judged(k) => EventOf(k, results[k].origin) \in graded
  /\ \A h \in Harnesses : \A rk \in DOMAIN cache[h] :
       cache[h][rk] \in StageRecord /\ EventOf(rk[1], cache[h][rk].origin) \in graded

Flying(c) == call[c].pc \in {"executing", "grading"}

LedgerInv ==
  /\ RecordsFit
  /\ call = [c \in Calls |-> call[c]]
  /\ \A c \in Calls : CallFits(c, call[c])
  /\ \A c, e \in Calls :
       c # e /\ Flying(c) /\ Flying(e) => call[c].execution # call[e].execution

(* The strengthening behind PairPassesAlike: what is staged or cached saw    *)
(* what the client of its own execution observed, what goes on to be stored *)
(* has both Cases of the pair or none, alike if one passed; and a stored    *)
(* PASS has a partner that was graded and looked the same.                  *)
SeenAsExecuted(stage) == stage.observable = executions[stage.origin].observable

JoinedPair(staged) ==
  LET have == Pair \cap DOMAIN staged IN
  /\ have \in {{}, Pair}
  /\ (\E x \in have : staged[x].status = "PASS") =>
       \A x, y \in have : staged[x].observable = staged[y].observable

Partner(k, other) ==
  {k.case, other.case} = Pair /\ k.lane = other.lane /\ k.attempt = other.attempt

PassesAsPartner(k, other) ==
  Partner(k, other) /\ Judged(k) /\ results[k].status = "PASS" =>
    \E g \in graded : g.key = other /\ executions[g.execution].observable = Observed(k)

PairInv ==
  /\ \A c \in Calls : call[c].pc \notin Over =>
       \A x \in DOMAIN call[c].staged : SeenAsExecuted(call[c].staged[x])
  /\ \A h \in Harnesses : \A rk \in DOMAIN cache[h] : SeenAsExecuted(cache[h][rk])
  /\ \A c \in Calls : call[c].pc = "storing" => JoinedPair(call[c].staged)
  /\ \A k, other \in Key : PassesAsPartner(k, other)

(* The strengthening behind EveryCaseAccountedOnce: up to the Case at hand  *)
(* each Case is staged or has one failure, and has neither from there on;   *)
(* while results are stored, each has a result, one failure, or a stage     *)
(* that is still to be stored.                                              *)
FailuresOf(r, x) == {f \in r.failures : f[1] = x}
Settled(r, x, kept) ==
  IF x \in kept THEN FailuresOf(r, x) = {}
  ELSE \E phase \in Phase : FailuresOf(r, x) = {<<x, phase>>}

AccountedWhileStaging(r) ==
  /\ DOMAIN r.results = {}
  /\ \A i \in 1..Len(r.command.cases) :
       LET x == r.command.cases[i] IN
       IF i < r.at THEN Settled(r, x, DOMAIN r.staged)
       ELSE x \notin DOMAIN r.staged /\ FailuresOf(r, x) = {}

AccountedWhileStoring(r) ==
  \A i \in 1..Len(r.command.cases) :
    LET x == r.command.cases[i] IN
    IF i >= r.at /\ x \in DOMAIN r.staged
    THEN x \notin DOMAIN r.results /\ FailuresOf(r, x) = {}
    ELSE Settled(r, x, DOMAIN r.results)

Accounted(r) ==
  /\ r.pc = "refusing" => Refused(r.command) # {}
  /\ r.pc = "not_run" => r.command.lane = "qwen_baseline" /\ ~r.command.ready
  /\ r.pc \in {"staging", "executing", "grading", "reloading", "pairing"} =>
       AccountedWhileStaging(r)
  /\ r.pc = "pairing" => r.at > Len(r.command.cases)
  /\ r.pc = "storing" => AccountedWhileStoring(r)
  /\ Tried(r) => \A i \in 1..Len(r.command.cases) :
                    Settled(r, r.command.cases[i], DOMAIN r.results)

AccountInv == \A c \in Calls : Accounted(call[c])

(* Every command that began ends: it finishes, is cancelled, ends in       *)
(* EvalHarnessCommandError, or dies with its process.                      *)
EveryCommandEnds ==
  \A c \in Calls : call[c].pc # "idle" ~> call[c].pc \in Over
----------------------------------------------------------------------------
(* "an incomplete E2E01-04 pair cannot leave a partial PASS": one Case of  *)
(* the pair is stored as PASS while its partner's command is over and left *)
(* no result.  The two results are separate inserts.                       *)
NoPartialPass ==
  (\A c \in Calls : call[c].pc \in Over \cup {"idle"}) =>
    \A k1, k2 \in Key :
      (/\ {k1.case, k2.case} = Pair /\ k1.lane = k2.lane /\ k1.attempt = k2.attempt
       /\ results[k1] # None /\ results[k1].status = "PASS")
        => results[k2] # None
==============================================================================
