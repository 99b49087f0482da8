--------------------------- MODULE EvalHarnessProofs ---------------------------
(***************************************************************************)
(* The stored records of the evaluation harness implement EvalLedger, and  *)
(* the outcomes it reports agree with them, for any number of commands,    *)
(* harnesses, Cases, faults and crashes.                                   *)
(***************************************************************************)
EXTENDS EvalHarnessSafety, SequenceTheorems, FiniteSetTheorems, TLAPS

(* Dictionaries and keys.                                                   *)

\* A dictionary remains one.
LEMMA PutTyped ==
  ASSUME NEW xs, NEW T, NEW f, Dictionary(f, xs, T), NEW x \in xs, NEW v \in T
  PROVE  Dictionary(Put(f, x, v), xs, T)
  BY DEF Put, Dictionary

\* So does the empty one.
LEMMA EmptyDictionary ==
  ASSUME NEW xs, NEW T
  PROVE  DOMAIN <<>> = {} /\ Dictionary(<<>>, xs, T)
<1>1. DOMAIN <<>> = {} /\ <<>> \in [{} -> T]
  OBVIOUS
<1> QED BY <1>1 DEF Dictionary

\* The key of a Case in a command.
LEMMA KeyTyped ==
  ASSUME NEW m \in Commands, NEW x \in Cases
  PROVE  KeyOf(m, x) \in Key /\ KeyOf(m, x).case = x
  BY DEF KeyOf, Key, Lanes, Attempts

\* A command determines the Case from its key.
LEMMA KeyOfCase ==
  ASSUME NEW m, NEW x, NEW y, KeyOf(m, x) = KeyOf(m, y)
  PROVE  x = y
  BY DEF KeyOf

\* A position of the selection.
LEMMA CaseAt ==
  ASSUME NEW m \in Commands, WellFormed(m), NEW i \in 1..Len(m.cases)
  PROVE  m.cases[i] \in Cases
<1>1. i \in DOMAIN m.cases
  BY HarnessAssumption
<1> QED BY <1>1 DEF WellFormed, ToSet

\* A selection has a first position.
LEMMA FirstCase ==
  ASSUME NEW m \in Commands, WellFormed(m)
  PROVE  /\ Len(m.cases) \in Nat /\ 1 \in 1..Len(m.cases)
<1>1. DOMAIN m.cases = 1..Len(m.cases) /\ Len(m.cases) \in Nat
  BY HarnessAssumption
<1>2. Len(m.cases) # 0
  BY <1>1 DEF WellFormed
<1> QED BY <1>1, <1>2

\* No record is the absence of one.
LEMMA NoneIsNoRecord == None \notin ResultRecord /\ None \notin Nat
  BY NoneAssumption DEF ResultRecord

-------------------------------------------------------------------------------
(* What a step of one command leaves to the others.                         *)

\* A step of command c adds to the records and rewrites nothing; it grades only
\* the execution it holds.
AddsRecords(c) ==
  /\ graded \subseteq graded'
  /\ \A k \in Key : results[k] = None \/ results'[k] = results[k]
  /\ \A e \in DOMAIN executions :
       e \in DOMAIN executions' /\ executions'[e].case = executions[e].case
  /\ \A g \in graded' \ graded :
       call[c].pc = "grading" /\ g.execution = call[c].execution
Adds(c) ==
  /\ AddsRecords(c)
  /\ failures \subseteq failures'
  /\ \A f \in failures' \ failures : f.call = c

\* Another command is not disturbed by it.
LEMMA OthersFit ==
  ASSUME LedgerInv, NEW c \in Calls, Adds(c), NEW e \in Calls, e # c,
         call'[e] = call[e]
  PROVE  CallFits(e, call[e])'
<1> DEFINE r == call[e]
<1>1. CallFits(e, r)
  BY DEF LedgerInv
<1>2. UngradedYet(call[e])'
  <2>1. CASE r.pc \in {"executing", "grading"}
    <3>1. \A g \in graded' \ graded : g.execution # r.execution
      BY <2>1 DEF LedgerInv, Adds, AddsRecords, Flying
    <3> QED BY <1>1, <2>1, <3>1 DEF CallFits, UngradedYet, Adds, AddsRecords
  <2>2. CASE r.pc \notin {"executing", "grading"}
    BY <1>1, <2>2 DEF CallFits, UngradedYet, Adds, AddsRecords
  <2> QED BY <2>1, <2>2
<1>3. StagedIsGraded(call[e])'
  BY <1>1 DEF CallFits, StagedIsGraded, Adds, AddsRecords
<1>4. ReportedResults(call[e])'
  <2>1. \A x \in DOMAIN r.results : results'[KeyOf(r.command, x)] = r.results[x]
    <3> SUFFICES ASSUME NEW x \in DOMAIN r.results
                 PROVE  results'[KeyOf(r.command, x)] = r.results[x]
      OBVIOUS
    <3>1. results[KeyOf(r.command, x)] = r.results[x]
      BY <1>1 DEF CallFits, ReportedResults
    <3>2. x \in Cases /\ r.results[x] \in ResultRecord
      BY <1>1 DEF CallFits, Selected, CallRecord, Dictionary
    <3>3. r.pc # "idle"
      BY <1>1, EmptyDictionary DEF CallFits, Selected, Idle
    <3>4. KeyOf(r.command, x) \in Key
      BY <1>1, <3>2, <3>3, KeyTyped DEF CallFits, Selected
    <3> QED BY <3>1, <3>2, <3>4, NoneIsNoRecord DEF Adds, AddsRecords
  <2> QED BY <1>1, <2>1 DEF CallFits, ReportedResults, CommandPassed
<1>5. ReportedFailures(e, call[e])'
  BY <1>1 DEF CallFits, ReportedFailures, Adds, AddsRecords
<1>6. Selected(call[e])'
  BY <1>1 DEF CallFits, Selected
<1> QED BY <1>2, <1>3, <1>4, <1>5, <1>6 DEF CallFits

\* A step of one command keeps the invariant when the records and that command
\* fit afterwards, and the execution it holds is its own or new.
LEMMA StepFits ==
  ASSUME LedgerInv, NEW c \in Calls, NEW r, call' = [call EXCEPT ![c] = r],
         Adds(c), RecordsFit', CallFits(c, r)',
         r.pc \in {"executing", "grading"} =>
           \/ Flying(c) /\ r.execution = call[c].execution
           \/ r.execution \notin DOMAIN executions
  PROVE  LedgerInv'
<1>1. /\ call = [e \in Calls |-> call[e]]
      /\ call'[c] = r
      /\ \A e \in Calls \ {c} : call'[e] = call[e]
      /\ call' = [e \in Calls |-> call'[e]]
  BY DEF LedgerInv
<1>2. \A e \in Calls : CallFits(e, call[e])'
  <2> TAKE e \in Calls
  <2>1. CASE e = c
    BY <1>1, <2>1
  <2>2. CASE e # c
    BY <1>1, <2>2, OthersFit
  <2> QED BY <2>1, <2>2
<1>3. \A e \in Calls \ {c} : Flying(e) => call[e].execution \in DOMAIN executions
  BY DEF LedgerInv, CallFits, UngradedYet, Flying
<1>4. \A e, f \in Calls :
        e # f /\ Flying(e)' /\ Flying(f)' => call'[e].execution # call'[f].execution
  BY <1>1, <1>3 DEF LedgerInv, Flying
<1> QED BY <1>1, <1>2, <1>4 DEF LedgerInv

\* The same for a step that changes nothing but the command.
LEMMA NothingAdded ==
  ASSUME UNCHANGED <<results, graded, failures>>, NEW c \in Calls,
         \A e \in DOMAIN executions :
           e \in DOMAIN executions' /\ executions'[e].case = executions[e].case
  PROVE  Adds(c)
  BY DEF Adds, AddsRecords

\* Records that do not change fit.
LEMMA RecordsStay ==
  ASSUME LedgerInv, UNCHANGED <<executions, results, graded, cache>>
  PROVE  RecordsFit'
  BY DEF LedgerInv, RecordsFit, Judged

-------------------------------------------------------------------------------
(* Failures.                                                                *)

\* _append_failure keeps the invariant when the command fits without it.
LEMMA FailFits ==
  ASSUME LedgerInv, NEW c \in Calls, NEW x \in Cases \cup {None},
         NEW phase \in Phase, NEW next, NEW spent,
         Fail(c, x, phase, next, spent), AddsRecords(c), RecordsFit',
         Selected(next), UngradedYet(next)', StagedIsGraded(next)',
         ReportedResults(next)', ~next.passed,
         call[c].pc \notin Over, next.failures = call[c].failures,
         next.pc \notin {"idle", "executing", "grading", "aborted", "crashed"}
  PROVE  LedgerInv'
<1> DEFINE stored == [call |-> c, case |-> x, phase |-> phase]
           told == [next EXCEPT !.failures = @ \cup {<<x, phase>>}]
           broken == [next EXCEPT !.pc = "aborted"]
<1>1. CallRecord(next) /\ next.command \in Commands
  BY DEF Selected
<1>2. ReportedFailures(c, call[c])
  BY DEF LedgerInv, CallFits
<1>3. failures' \in {failures, failures \cup {stored}}
  BY DEF Fail
<1>4. Adds(c)
  BY <1>3 DEF Adds
<1>5. CASE failures' = failures \cup {stored} /\ call' = [call EXCEPT ![c] = told]
  <2>1. PICK r : r = told
    OBVIOUS
  <2>2. /\ CallRecord(r)
        /\ r.failures = next.failures \cup {<<x, phase>>}
        /\ r.pc = next.pc /\ r.command = next.command /\ r.at = next.at
        /\ r.execution = next.execution /\ r.evidence = next.evidence
        /\ r.staged = next.staged /\ r.results = next.results
        /\ r.passed = next.passed
    BY <1>1, <2>1 DEF CallRecord
  <2>3. Selected(r)
    BY <2>2 DEF Selected
  <2>4. UngradedYet(r)' /\ StagedIsGraded(r)' /\ ReportedResults(r)'
    BY <2>2 DEF UngradedYet, StagedIsGraded, ReportedResults
  <2>5. ReportedFailures(c, r)'
    <3>1. \A f \in r.failures : [call |-> c, case |-> f[1], phase |-> f[2]] \in failures'
      BY <1>2, <1>5, <2>2 DEF ReportedFailures
    <3>2. \A f \in failures' : f.call = c => <<f.case, f.phase>> \in r.failures
      BY <1>2, <1>5, <2>2 DEF ReportedFailures, Over
    <3> QED BY <3>1, <3>2 DEF ReportedFailures
  <2>6. CallFits(c, r)'
    BY <2>3, <2>4, <2>5 DEF CallFits, Selected
  <2> QED BY <1>4, <1>5, <2>1, <2>2, <2>6, StepFits
<1>6. CASE call' = [call EXCEPT ![c] = broken]
  <2>1. PICK r : r = broken
    OBVIOUS
  <2>2. /\ CallRecord(r)
        /\ r.failures = next.failures
        /\ r.pc = "aborted" /\ r.command = next.command /\ r.at = next.at
        /\ r.execution = next.execution /\ r.evidence = next.evidence
        /\ r.staged = next.staged /\ r.results = next.results
        /\ r.passed = next.passed
    BY <1>1, <2>1 DEF CallRecord, Point, Over
  <2>3. Selected(r)
    BY <1>1, <2>2 DEF Selected, Over
  <2>4. UngradedYet(r)' /\ StagedIsGraded(r)' /\ ReportedResults(r)'
    BY <2>2 DEF UngradedYet, StagedIsGraded, ReportedResults
  <2>5. ReportedFailures(c, r)'
    BY <1>2, <1>3, <2>2 DEF ReportedFailures
  <2>6. CallFits(c, r)'
    BY <2>3, <2>4, <2>5 DEF CallFits, Selected
  <2> QED BY <1>4, <1>6, <2>1, <2>2, <2>6, StepFits
<1> QED BY <1>5, <1>6 DEF Fail, Becomes

\* The next Case.
LEMMA AdvanceFits ==
  ASSUME NEW r, Selected(r),
         r.pc \in {"staging", "executing", "grading", "reloading"}
  PROVE  LET n == Advance(r)
         IN  /\ Selected(n) /\ n.pc \in {"staging", "pairing"}
             /\ n.command = r.command /\ n.staged = r.staged
             /\ n.results = r.results /\ n.failures = r.failures
             /\ n.passed = r.passed
<1> DEFINE n == Advance(r)
<1>1. /\ CallRecord(r) /\ r.command \in Commands /\ WellFormed(r.command)
      /\ r.at \in 1..Len(r.command.cases)
  BY DEF Selected, Over
<1>2. Len(r.command.cases) \in Nat
  BY <1>1, FirstCase
<1> DEFINE len == Len(r.command.cases)
           p == IF r.at < len THEN "staging" ELSE "pairing"
<1>3. n = [r EXCEPT !.at = r.at + 1, !.pc = p]
  BY DEF Advance
<1>4. /\ p \in {"staging", "pairing"} /\ p \in Point
      /\ p = "staging" => r.at + 1 \in 1..len
      /\ r.at + 1 \in Nat \ {0}
  BY <1>1, <1>2 DEF Point
<1> HIDE DEF n, p, len
<1>5. /\ CallRecord(n) /\ n.pc = p /\ n.at = r.at + 1
      /\ n.command = r.command /\ n.staged = r.staged
      /\ n.results = r.results /\ n.failures = r.failures
      /\ n.passed = r.passed
  BY <1>1, <1>3, <1>4 DEF CallRecord
<1>6. Selected(n)
  BY <1>1, <1>4, <1>5 DEF Selected, len
<1> QED BY <1>4, <1>5, <1>6 DEF n

\* A Case that fails.
LEMMA FailCaseFits ==
  ASSUME LedgerInv, NEW c \in Calls, NEW x \in Cases \cup {None},
         NEW phase \in Phase, NEW spent,
         Fail(c, x, phase, Advance(call[c]), spent),
         AddsRecords(c), RecordsFit', UNCHANGED results,
         call[c].pc \in {"staging", "executing", "grading", "reloading"}
  PROVE  LedgerInv'
<1>1. PICK n : n = Advance(call[c])
  OBVIOUS
<1>2. CallFits(c, call[c])
  BY DEF LedgerInv
<1>3. /\ Selected(n) /\ n.pc \in {"staging", "pairing"}
      /\ n.command = call[c].command /\ n.staged = call[c].staged
      /\ n.results = call[c].results /\ n.failures = call[c].failures
      /\ n.passed = call[c].passed
  BY <1>1, <1>2, AdvanceFits DEF CallFits
<1>4. ~n.passed /\ ReportedResults(n)'
  BY <1>2, <1>3 DEF CallFits, ReportedResults
<1>5. UngradedYet(n)' /\ StagedIsGraded(n)'
  BY <1>2, <1>3 DEF CallFits, UngradedYet, StagedIsGraded, AddsRecords
<1>6. Fail(c, x, phase, n, spent)
  BY <1>1
<1> QED BY <1>3, <1>4, <1>5, <1>6, FailFits DEF Over

-------------------------------------------------------------------------------
(* The actions.                                                             *)

\* A command that has just been called, written out.
Begun(m, pc) ==
  [pc |-> pc, command |-> m, at |-> 1, execution |-> 0, evidence |-> 0,
   staged |-> <<>>, results |-> <<>>, failures |-> {}, passed |-> FALSE]

LEMMA BegunIs ==
  ASSUME NEW m, NEW pc, NEW r, r = [[Idle EXCEPT !.command = m] EXCEPT !.pc = pc]
  PROVE  r = Begun(m, pc)
  BY DEF Idle, Begun

\* It fits.
LEMMA BegunFits ==
  ASSUME LedgerInv, NEW c \in Calls, call[c].pc = "idle", NEW m \in Commands,
         NEW pc \in {"finished", "aborted", "not_run", "refusing", "staging"},
         pc \in {"not_run", "refusing", "staging"} => WellFormed(m),
         NEW r, r = Begun(m, pc),
         executions' = executions, results' = results, graded' = graded
  PROVE  /\ Selected(r) /\ UngradedYet(r)' /\ StagedIsGraded(r)'
         /\ ReportedResults(r)' /\ ~r.passed /\ r.pc = pc
         /\ r.failures = call[c].failures
<1>1. call[c] = Idle
  BY DEF LedgerInv, CallFits, Selected
<1>2. /\ r.pc = pc /\ r.command = m /\ r.at = 1 /\ r.execution = 0
      /\ r.evidence = 0 /\ r.staged = <<>> /\ r.results = <<>>
      /\ r.failures = {} /\ ~r.passed
  BY DEF Begun
<1>3. DOMAIN r.staged = {} /\ DOMAIN r.results = {}
  BY <1>2, EmptyDictionary
<1>4. CallRecord(r)
  <2>1. /\ Dictionary(r.staged, Cases, StageRecord)
        /\ Dictionary(r.results, Cases, ResultRecord)
    BY <1>2, EmptyDictionary
  <2>2. pc \in Point
    BY DEF Point, Over
  <2> QED BY <2>1, <2>2 DEF CallRecord, Begun
<1>5. Selected(r)
  BY <1>2, <1>4, FirstCase DEF Selected, Over
<1>6. UngradedYet(r)' /\ StagedIsGraded(r)' /\ ReportedResults(r)'
  BY <1>2, <1>3 DEF UngradedYet, StagedIsGraded, ReportedResults
<1> QED BY <1>1, <1>2, <1>5, <1>6 DEF Idle

LEMMA BeginFits ==
  ASSUME LedgerInv, NEW c \in Calls, NEW m \in Commands, Begin(c, m)
  PROVE  LedgerInv'
<1> DEFINE begun == [Idle EXCEPT !.command = m]
           to(pc) == /\ Becomes(c, [begun EXCEPT !.pc = pc])
                     /\ UNCHANGED <<failures, faults>>
<1>1. /\ call[c].pc = "idle"
      /\ UNCHANGED <<cache, executions, results, graded>>
  BY DEF Begin, At
<1>2. RecordsFit'
  BY <1>1, RecordsStay
<1>3. \/ Fail(c, None, "HARNESS_SETUP", [begun EXCEPT !.pc = "finished"], 0)
      \/ \E pc \in {"aborted", "not_run", "refusing", "staging"} :
           to(pc) /\ (pc \in {"not_run", "refusing", "staging"} => WellFormed(m))
  BY DEF Begin
<1>4. CASE Fail(c, None, "HARNESS_SETUP", [begun EXCEPT !.pc = "finished"], 0)
  <2>1. PICK r : r = [begun EXCEPT !.pc = "finished"]
    OBVIOUS
  <2> r = Begun(m, "finished")
    BY <2>1, BegunIs
  <2>2. /\ Selected(r) /\ UngradedYet(r)' /\ StagedIsGraded(r)'
        /\ ReportedResults(r)' /\ ~r.passed /\ r.pc = "finished"
        /\ r.failures = call[c].failures
    BY <1>1, <2>1, BegunFits
  <2>3. AddsRecords(c)
    BY <1>1 DEF AddsRecords
  <2>4. Fail(c, None, "HARNESS_SETUP", r, 0) /\ "HARNESS_SETUP" \in Phase
    BY <1>4, <2>1 DEF Phase
  <2> HIDE DEF begun
  <2> QED BY <1>1, <1>2, <2>2, <2>3, <2>4, FailFits DEF Over
<1>5. CASE \E pc \in {"aborted", "not_run", "refusing", "staging"} :
             to(pc) /\ (pc \in {"not_run", "refusing", "staging"} => WellFormed(m))
  <2>1. PICK pc \in {"aborted", "not_run", "refusing", "staging"} :
          to(pc) /\ (pc \in {"not_run", "refusing", "staging"} => WellFormed(m))
    BY <1>5
  <2>2. PICK r : r = [begun EXCEPT !.pc = pc]
    OBVIOUS
  <2> r = Begun(m, pc)
    BY <2>2, BegunIs
  <2>3. /\ Selected(r) /\ UngradedYet(r)' /\ StagedIsGraded(r)'
        /\ ReportedResults(r)' /\ ~r.passed /\ r.pc = pc
        /\ r.failures = call[c].failures
    <3>1. /\ pc \in {"finished", "aborted", "not_run", "refusing", "staging"}
          /\ pc \in {"not_run", "refusing", "staging"} => WellFormed(m)
      BY <2>1
    <3> HIDE DEF begun, to
    <3> QED BY <1>1, <3>1, BegunFits
  <2>4. ReportedFailures(c, r)'
    BY <1>1, <2>1, <2>3 DEF LedgerInv, CallFits, ReportedFailures
  <2>5. call' = [call EXCEPT ![c] = r]
    BY <2>1, <2>2 DEF Becomes
  <2>6. Adds(c)
    BY <1>1, <2>1, NothingAdded
  <2>7. CallFits(c, r)'
    BY <2>3, <2>4 DEF CallFits, Selected
  <2> QED BY <1>2, <2>3, <2>5, <2>6, <2>7, StepFits
<1> QED BY <1>3, <1>4, <1>5

LEMMA RefuseFits ==
  ASSUME LedgerInv, NEW c \in Calls, Refuse(c)
  PROVE  LedgerInv'
<1> DEFINE m == call[c].command
           left(i) == {j \in i..Len(m.cases) : m.cases[j] \in Refused(m)}
           next(i) == [call[c] EXCEPT
                         !.at = i + 1,
                         !.pc = IF left(i + 1) # {} THEN "refusing" ELSE "finished"]
<1>1. /\ call[c].pc = "refusing"
      /\ UNCHANGED <<cache, executions, results, graded>>
  BY DEF Refuse, At
<1>2. PICK i \in left(call[c].at) : Fail(c, m.cases[i], RefusalPhase(m), next(i), 0)
  BY DEF Refuse
<1>3. CallFits(c, call[c])
  BY DEF LedgerInv
<1>4. /\ CallRecord(call[c]) /\ m \in Commands /\ WellFormed(m)
      /\ Len(m.cases) \in Nat /\ ~call[c].passed
  BY <1>1, <1>3, FirstCase DEF CallFits, Selected, Over, ReportedResults
<1>5. i \in 1..Len(m.cases)
  BY <1>4 DEF CallRecord
<1>6. m.cases[i] \in Cases /\ RefusalPhase(m) \in Phase
  BY <1>4, <1>5, CaseAt DEF RefusalPhase, Phase
<1>7. PICK r : r = next(i)
  OBVIOUS
<1>8. PICK pc \in {"refusing", "finished"} :
        r = [call[c] EXCEPT !.at = i + 1, !.pc = pc]
  BY <1>7
<1>9. /\ CallRecord(r) /\ r.pc = pc /\ r.command = m
      /\ r.staged = call[c].staged /\ r.results = call[c].results
      /\ r.failures = call[c].failures /\ ~r.passed
  <2>1. pc \in Point /\ i + 1 \in Nat \ {0}
    BY <1>4, <1>5 DEF Point, Over
  <2> QED BY <1>4, <1>8, <2>1 DEF CallRecord
<1>10. Selected(r)
  BY <1>4, <1>9 DEF Selected
<1>11. UngradedYet(r)' /\ StagedIsGraded(r)' /\ ReportedResults(r)'
  BY <1>1, <1>3, <1>9 DEF CallFits, UngradedYet, StagedIsGraded, ReportedResults
<1>12. AddsRecords(c) /\ RecordsFit'
  BY <1>1, RecordsStay DEF AddsRecords
<1>13. Fail(c, m.cases[i], RefusalPhase(m), r, 0)
  BY <1>2, <1>7
<1> HIDE DEF m, next, left
<1> QED BY <1>1, <1>6, <1>9, <1>10, <1>11, <1>12, <1>13, FailFits DEF Over

\* A result that was graded, or stands for no execution, is inserted or is
\* already there.
LEMMA ResultFits ==
  ASSUME LedgerInv, NEW k \in Key, NEW record \in ResultRecord,
         results[k] \in {None, record},
         record.status = "NOT_RUN" \/ EventOf(k, record.origin) \in graded,
         results' = [results EXCEPT ![k] = record], UNCHANGED graded
  PROVE  /\ results' \in [Key -> ResultRecord \cup {None}]
         /\ \A j \in Key : results[j] = None \/ results'[j] = results[j]
         /\ \A j \in Key : Judged(j)' => EventOf(j, results'[j].origin) \in graded'
         /\ results'[k] = record /\ \A j \in Key \ {k} : results'[j] = results[j]
<1>1. results \in [Key -> ResultRecord \cup {None}]
  BY DEF LedgerInv, RecordsFit
<1>2. /\ results'[k] = record /\ \A j \in Key \ {k} : results'[j] = results[j]
      /\ results' \in [Key -> ResultRecord \cup {None}]
  BY <1>1
<1>3. \A j \in Key : Judged(j)' => EventOf(j, results'[j].origin) \in graded'
  <2> TAKE j \in Key
  <2>1. CASE j = k
    BY <1>2, <2>1 DEF Judged
  <2>2. CASE j # k
    BY <1>2, <2>2 DEF Judged, LedgerInv, RecordsFit
  <2> QED BY <2>1, <2>2
<1> QED BY <1>2, <1>3

\* What is known of a command that goes on.
LEMMA Working ==
  ASSUME LedgerInv, NEW c \in Calls, call[c].pc \notin Over \cup {"idle"}
  PROVE  LET r == call[c]
         IN  /\ CallFits(c, r) /\ CallRecord(r) /\ ~r.passed
             /\ r.command \in Commands /\ WellFormed(r.command)
             /\ Len(r.command.cases) \in Nat
             /\ r.pc \in {"not_run", "staging", "executing", "grading", "reloading"} =>
                  /\ r.at \in 1..Len(r.command.cases)
                  /\ r.command.cases[r.at] \in Cases
                  /\ KeyOf(r.command, r.command.cases[r.at]) \in Key
<1> DEFINE r == call[c]
<1>1. CallFits(c, r)
  BY DEF LedgerInv
<1>2. CallRecord(r) /\ r.command \in Commands /\ WellFormed(r.command) /\ ~r.passed
  BY <1>1 DEF CallFits, Selected, ReportedResults, Over
<1>3. r.pc \in {"not_run", "staging", "executing", "grading", "reloading"} =>
        r.at \in 1..Len(r.command.cases)
  BY <1>1 DEF CallFits, Selected
<1> QED BY <1>1, <1>2, <1>3, FirstCase, CaseAt, KeyTyped

\* A step that reports and stores nothing.
LEMMA ReportsStay ==
  ASSUME LedgerInv, NEW c \in Calls, call[c].pc \notin Over, NEW r, ~r.passed,
         r.command = call[c].command, r.results = call[c].results,
         r.failures = call[c].failures, results' = results, failures' = failures
  PROVE  ReportedResults(r)' /\ ReportedFailures(c, r)'
<1>1. CallFits(c, call[c])
  BY DEF LedgerInv
<1> QED BY <1>1 DEF CallFits, ReportedResults, ReportedFailures, Over

LEMMA AppendNotRunFits ==
  ASSUME LedgerInv, NEW c \in Calls, AppendNotRun(c)
  PROVE  LedgerInv'
<1> DEFINE m == call[c].command
           x == m.cases[call[c].at]
           k == KeyOf(m, x)
           record == NotRunRecord(c)
           stored == [results EXCEPT ![k] = record]
           pc == IF call[c].at < Len(m.cases) THEN "not_run" ELSE "finished"
           kept == [call[c] EXCEPT !.at = @ + 1,
                                   !.results = Put(@, x, record), !.pc = pc]
           abort == [call[c] EXCEPT !.pc = "aborted"]
<1>1. /\ call[c].pc = "not_run"
      /\ UNCHANGED <<cache, executions, graded, failures>>
  BY DEF AppendNotRun, At
<1>2. /\ CallFits(c, call[c]) /\ CallRecord(call[c]) /\ ~call[c].passed
      /\ m \in Commands /\ WellFormed(m) /\ Len(m.cases) \in Nat
      /\ call[c].at \in 1..Len(m.cases) /\ x \in Cases /\ k \in Key
  BY <1>1, Working DEF Over
<1>3. \/ results[k] \in {None, record} /\ results' = stored /\ Becomes(c, kept)
      \/ /\ Becomes(c, abort)
         /\ \/ results' = results
            \/ results[k] = None /\ results' = stored
  BY DEF AppendNotRun
<1>4. record \in ResultRecord /\ record.status = "NOT_RUN"
  BY DEF NotRunRecord, ResultRecord
<1>5. /\ results' \in [Key -> ResultRecord \cup {None}]
      /\ \A j \in Key : results[j] = None \/ results'[j] = results[j]
      /\ \A j \in Key : Judged(j)' => EventOf(j, results'[j].origin) \in graded'
  <2>1. CASE results' = results
    <3> HIDE DEF k, record
    <3> QED BY <1>1, <2>1 DEF LedgerInv, RecordsFit, Judged
  <2>2. CASE results' = stored /\ results[k] \in {None, record}
    <3> HIDE DEF k, record
    <3> QED BY <1>1, <1>2, <1>4, <2>2, ResultFits
  <2>3. results' = results \/ (results' = stored /\ results[k] \in {None, record})
    BY <1>3
  <2> HIDE DEF k, record
  <2> QED BY <2>1, <2>2, <2>3
<1>6. RecordsFit'
  BY <1>1, <1>5 DEF LedgerInv, RecordsFit
<1>7. Adds(c)
  BY <1>1, <1>5 DEF Adds, AddsRecords
<1>8. CASE Becomes(c, kept) /\ results' = stored
  <2>1. PICK r : r = kept
    OBVIOUS
  <2>2. /\ pc \in {"not_run", "finished"} /\ pc \in Point
        /\ pc = "not_run" => call[c].at + 1 \in 1..Len(m.cases)
        /\ call[c].at + 1 \in Nat \ {0}
    BY <1>2 DEF Point, Over
  <2>3. results'[k] = record /\ \A j \in Key \ {k} : results'[j] = results[j]
    <3> HIDE DEF k, record
    <3> QED BY <1>2, <1>8 DEF LedgerInv, RecordsFit
  <2> HIDE DEF pc, record, x
  <2>4. /\ r.pc = pc /\ r.command = m /\ r.at = call[c].at + 1 /\ ~r.passed
        /\ r.execution = call[c].execution /\ r.evidence = call[c].evidence
        /\ r.staged = call[c].staged /\ r.failures = call[c].failures
        /\ r.results = Put(call[c].results, x, record)
    BY <1>2, <2>1 DEF CallRecord
  <2>5. /\ DOMAIN r.results = DOMAIN call[c].results \cup {x}
         /\ r.results[x] = record
         /\ \A y \in DOMAIN call[c].results \ {x} : r.results[y] = call[c].results[y]
    BY <2>4 DEF Put
  <2>6. Dictionary(r.results, Cases, ResultRecord)
    BY <1>2, <1>4, <2>4, PutTyped DEF CallRecord
  <2>7. CallRecord(r)
    BY <1>2, <2>1, <2>2, <2>4, <2>6 DEF CallRecord
  <2>8. Selected(r)
    BY <1>2, <2>2, <2>4, <2>7 DEF Selected
  <2>9. UngradedYet(r)' /\ StagedIsGraded(r)'
    BY <1>1, <1>2, <2>2, <2>4 DEF CallFits, UngradedYet, StagedIsGraded
  <2>10. ReportedResults(r)'
    <3>1. \A y \in DOMAIN r.results : results'[KeyOf(m, y)] = r.results[y]
      <4> SUFFICES ASSUME NEW y \in DOMAIN r.results
                   PROVE  results'[KeyOf(m, y)] = r.results[y]
        OBVIOUS
      <4>1. CASE y = x
        BY <2>3, <2>5, <4>1
      <4>2. CASE y # x
        <5>1. y \in DOMAIN call[c].results /\ r.results[y] = call[c].results[y]
          BY <2>5, <4>2
        <5>2. y \in Cases /\ results[KeyOf(m, y)] = call[c].results[y]
          BY <1>2, <5>1 DEF CallRecord, Dictionary, CallFits, ReportedResults
        <5>3. KeyOf(m, y) \in Key \ {k}
          BY <1>2, <4>2, <5>2, KeyTyped, KeyOfCase
        <5> QED BY <2>3, <5>1, <5>2, <5>3
      <4> QED BY <4>1, <4>2
    <3> QED BY <2>4, <3>1 DEF ReportedResults
  <2>11. ReportedFailures(c, r)'
    BY <1>1, <1>2, <2>2, <2>4 DEF CallFits, ReportedFailures
  <2>12. CallFits(c, r)'
    BY <2>8, <2>9, <2>10, <2>11 DEF CallFits, Selected
  <2>13. call' = [call EXCEPT ![c] = r]
    BY <1>8, <2>1 DEF Becomes
  <2> QED BY <1>6, <1>7, <2>2, <2>4, <2>12, <2>13, StepFits
<1>9. CASE Becomes(c, abort)
  <2>1. PICK r : r = abort
    OBVIOUS
  <2>2. /\ r.pc = "aborted" /\ r.command = m /\ ~r.passed
        /\ r.staged = call[c].staged /\ r.failures = call[c].failures
        /\ r.results = call[c].results
        /\ CallRecord(r)
    BY <1>2, <2>1 DEF CallRecord, Point, Over
  <2>3. Selected(r) /\ UngradedYet(r)' /\ StagedIsGraded(r)' /\ ReportedFailures(c, r)'
    BY <1>1, <1>2, <2>2
    DEF Selected, CallFits, UngradedYet, StagedIsGraded, ReportedFailures, Over
  <2>4. ReportedResults(r)'
    <3>1. \A y \in DOMAIN r.results : results'[KeyOf(m, y)] = r.results[y]
      <4> SUFFICES ASSUME NEW y \in DOMAIN r.results
                   PROVE  results'[KeyOf(m, y)] = r.results[y]
        OBVIOUS
      <4>1. /\ y \in Cases /\ results[KeyOf(m, y)] = r.results[y]
            /\ r.results[y] \in ResultRecord
        BY <1>2, <2>2 DEF CallRecord, Dictionary, CallFits, ReportedResults
      <4>2. KeyOf(m, y) \in Key
        BY <1>2, <4>1, KeyTyped
      <4> QED BY <1>5, <4>1, <4>2, NoneIsNoRecord
    <3> QED BY <2>2, <3>1 DEF ReportedResults
  <2>5. CallFits(c, r)'
    BY <2>3, <2>4 DEF CallFits, Selected
  <2>6. call' = [call EXCEPT ![c] = r]
    BY <1>9, <2>1 DEF Becomes
  <2> QED BY <1>6, <1>7, <2>2, <2>5, <2>6, StepFits
<1> QED BY <1>3, <1>8, <1>9

\* A Case that is staged, graded before under its key, and the next Case.
LEMMA StagedFits ==
  ASSUME LedgerInv, NEW c \in Calls, call[c].pc \in {"staging", "reloading"},
         NEW stage \in StageRecord,
         EventOf(KeyOf(call[c].command, call[c].command.cases[call[c].at]),
                 stage.origin) \in graded,
         Becomes(c, Advance([call[c] EXCEPT
                      !.staged = Put(@, call[c].command.cases[call[c].at], stage)])),
         UNCHANGED <<cache, executions, results, graded, failures>>
  PROVE  LedgerInv'
<1> DEFINE m == call[c].command
           x == m.cases[call[c].at]
<1>1. /\ CallFits(c, call[c]) /\ CallRecord(call[c]) /\ ~call[c].passed
      /\ x \in Cases
  BY Working DEF Over
<1>2. PICK p : p = [call[c] EXCEPT !.staged = Put(@, x, stage)]
  OBVIOUS
<1> HIDE DEF x
<1>3. /\ p.pc = call[c].pc /\ p.command = m /\ p.at = call[c].at /\ ~p.passed
      /\ p.failures = call[c].failures /\ p.results = call[c].results
      /\ p.staged = Put(call[c].staged, x, stage)
  BY <1>1, <1>2 DEF CallRecord
<1>4. /\ DOMAIN p.staged = DOMAIN call[c].staged \cup {x}
      /\ p.staged[x] = stage
      /\ \A y \in DOMAIN call[c].staged \ {x} : p.staged[y] = call[c].staged[y]
  BY <1>3 DEF Put
<1>5. Dictionary(p.staged, Cases, StageRecord)
  BY <1>1, <1>3, PutTyped DEF CallRecord
<1>6. CallRecord(p)
  BY <1>1, <1>2, <1>3, <1>5 DEF CallRecord
<1>7. Selected(p)
  BY <1>1, <1>3, <1>6 DEF CallFits, Selected
<1>8. PICK n : n = Advance(p)
  OBVIOUS
<1>9. /\ Selected(n) /\ n.pc \in {"staging", "pairing"} /\ n.command = m
      /\ n.staged = p.staged /\ n.results = call[c].results
      /\ n.failures = call[c].failures /\ ~n.passed
  BY <1>3, <1>7, <1>8, AdvanceFits
<1>10. ReportedResults(n)' /\ ReportedFailures(c, n)'
  BY <1>9, ReportsStay DEF Over
<1>11. StagedIsGraded(n)'
  BY <1>1, <1>4, <1>9 DEF CallFits, StagedIsGraded, x
<1>12. UngradedYet(n)'
  BY <1>9 DEF UngradedYet
<1>13. CallFits(c, n)'
  BY <1>9, <1>10, <1>11, <1>12 DEF CallFits, Selected
<1>14. call' = [call EXCEPT ![c] = n]
  BY <1>2, <1>8 DEF Becomes, x
<1> QED BY <1>9, <1>13, <1>14, RecordsStay, NothingAdded, StepFits

LEMMA StageFits ==
  ASSUME LedgerInv, NEW c \in Calls, Stage(c)
  PROVE  LedgerInv'
<1> DEFINE m == call[c].command
           x == m.cases[call[c].at]
           h == HarnessOf[c]
           rk == ReplayKey(m, x)
<1>1. /\ call[c].pc = "staging" /\ UNCHANGED <<cache, results, graded>>
  BY DEF Stage, At, store, FailCase
<1>2. /\ CallFits(c, call[c]) /\ CallRecord(call[c]) /\ ~call[c].passed
      /\ m \in Commands /\ WellFormed(m) /\ Len(m.cases) \in Nat
      /\ call[c].at \in 1..Len(m.cases) /\ x \in Cases /\ h \in Harnesses
  BY <1>1, Working, HarnessAssumption DEF Over
<1>3. CASE /\ rk \in DOMAIN cache[h]
           /\ Becomes(c, Advance([call[c] EXCEPT !.staged = Put(@, x, cache[h][rk])]))
           /\ UNCHANGED <<executions, failures>>
  <2>1. /\ cache[h][rk] \in StageRecord
        /\ EventOf(KeyOf(m, x), cache[h][rk].origin) \in graded
    BY <1>2, <1>3 DEF LedgerInv, RecordsFit, ReplayKey
  <2>2. PICK stage \in StageRecord : stage = cache[h][rk]
    BY <2>1
  <2> HIDE DEF rk, h
  <2> QED BY <1>1, <1>3, <2>1, <2>2, StagedFits
<1>4. CASE \E phase \in {"CASE_SETUP", "RESULT_COMPLETENESS"}, spent \in {0, 1} :
             FailCase(c, x, phase, spent)
  <2>1. PICK phase \in {"CASE_SETUP", "RESULT_COMPLETENESS"}, spent \in {0, 1} :
          FailCase(c, x, phase, spent)
    BY <1>4
  <2>2. RecordsFit' /\ AddsRecords(c)
    BY <2>1, RecordsStay DEF FailCase, AddsRecords
  <2>3. phase \in Phase /\ UNCHANGED results /\ Fail(c, x, phase, Advance(call[c]), spent)
    BY <2>1 DEF FailCase, Phase
  <2> HIDE DEF x
  <2> QED BY <1>1, <1>2, <2>2, <2>3, FailCaseFits
<1>5. CASE /\ executions' = Append(executions, [case |-> x, harness |-> h,
                                               observable |-> None])
           /\ Becomes(c, [call[c] EXCEPT !.pc = "executing",
                                         !.execution = Len(executions) + 1])
           /\ UNCHANGED failures
  <2> DEFINE e == Len(executions) + 1
             run == [case |-> x, harness |-> h, observable |-> None]
  <2>1. executions \in Seq(ExecutionRecord) /\ run \in ExecutionRecord
    BY <1>2 DEF LedgerInv, RecordsFit, ExecutionRecord
  <2> HIDE DEF run
  <2>2. /\ executions' \in Seq(ExecutionRecord) /\ Len(executions) \in Nat
        /\ e \notin DOMAIN executions /\ e \in DOMAIN executions'
        /\ executions'[e] = run
        /\ \A i \in DOMAIN executions :
             i \in DOMAIN executions' /\ executions'[i] = executions[i]
    BY <1>5, <2>1, AppendProperties DEF run
  <2>3. run.case = x
    BY DEF run
  <2>4. PICK r : r = [call[c] EXCEPT !.pc = "executing", !.execution = e]
    OBVIOUS
  <2>5. /\ r.pc = "executing" /\ r.command = m /\ r.at = call[c].at
        /\ r.execution = e /\ ~r.passed
        /\ r.staged = call[c].staged /\ r.results = call[c].results
        /\ r.failures = call[c].failures /\ CallRecord(r)
    <3>1. e \in Nat /\ "executing" \in Point
      BY <2>2 DEF Point
    <3> HIDE DEF e
    <3> QED BY <1>2, <2>4, <3>1 DEF CallRecord
  <2>6. Selected(r)
    BY <1>2, <2>5 DEF Selected
  <2>7. \A g \in graded : g.execution # e
    BY <2>2 DEF LedgerInv, RecordsFit
  <2>8. UngradedYet(r)'
    BY <1>1, <2>2, <2>3, <2>5, <2>7 DEF UngradedYet
  <2>9. StagedIsGraded(r)'
    BY <1>1, <1>2, <2>5 DEF CallFits, StagedIsGraded
  <2>10. ReportedResults(r)' /\ ReportedFailures(c, r)'
    BY <1>1, <1>5, <2>5, ReportsStay DEF Over
  <2>11. CallFits(c, r)'
    BY <2>6, <2>8, <2>9, <2>10 DEF CallFits, Selected
  <2>12. call' = [call EXCEPT ![c] = r]
    BY <1>5, <2>4 DEF Becomes
  <2>13. RecordsFit'
    BY <1>1, <2>2 DEF LedgerInv, RecordsFit, Judged
  <2>14. Adds(c)
    BY <1>1, <1>5, <2>2, NothingAdded
  <2> HIDE DEF e
  <2> QED BY <2>2, <2>5, <2>11, <2>12, <2>13, <2>14, StepFits
<1> QED BY <1>3, <1>4, <1>5 DEF Stage, store

\* What the client observed changes no Case.
LEMMA ObservedFits ==
  ASSUME LedgerInv, NEW e \in DOMAIN executions, NEW o \in Observables \cup {None},
         executions' = [executions EXCEPT ![e].observable = o],
         UNCHANGED <<results, graded, cache>>, NEW c
  PROVE  RecordsFit' /\ AddsRecords(c)
<1> DEFINE run == [executions[e] EXCEPT !.observable = o]
<1>1. executions \in Seq(ExecutionRecord) /\ DOMAIN executions = 1..Len(executions)
  BY DEF LedgerInv, RecordsFit
<1>2. executions[e] \in ExecutionRecord
  BY <1>1, ElementOfSeq
<1>3. run \in ExecutionRecord /\ run.case = executions[e].case
  BY <1>2 DEF ExecutionRecord
<1>4. executions' = [executions EXCEPT ![e] = run]
  OBVIOUS
<1> HIDE DEF run
<1>5. /\ executions' \in Seq(ExecutionRecord)
      /\ \A i \in DOMAIN executions :
           i \in DOMAIN executions' /\ executions'[i].case = executions[i].case
  BY <1>1, <1>3, <1>4, ExceptSeq
<1>6. RecordsFit'
  BY <1>5 DEF LedgerInv, RecordsFit, Judged
<1> QED BY <1>5, <1>6 DEF AddsRecords

LEMMA ReturnFits ==
  ASSUME LedgerInv, NEW c \in Calls, Return(c)
  PROVE  LedgerInv'
<1> DEFINE m == call[c].command
           x == m.cases[call[c].at]
           e == call[c].execution
<1>1. call[c].pc = "executing"
  BY DEF Return, At
<1>2. /\ CallFits(c, call[c]) /\ CallRecord(call[c]) /\ ~call[c].passed
      /\ m \in Commands /\ WellFormed(m) /\ Len(m.cases) \in Nat
      /\ call[c].at \in 1..Len(m.cases) /\ x \in Cases
  BY <1>1, Working DEF Over
<1>3. /\ e \in DOMAIN executions /\ executions[e].case = x
      /\ \A g \in graded : g.execution # e
  BY <1>1, <1>2 DEF CallFits, UngradedYet
<1>4. CASE /\ \E o \in Observables : executions' = [executions EXCEPT ![e].observable = o]
           /\ Becomes(c, [call[c] EXCEPT !.pc = "grading", !.evidence = e])
           /\ UNCHANGED <<cache, results, graded, failures>>
  <2>1. RecordsFit' /\ AddsRecords(c)
    <3>1. PICK o \in Observables : executions' = [executions EXCEPT ![e].observable = o]
      BY <1>4
    <3> HIDE DEF e
    <3> QED BY <1>3, <1>4, <3>1, ObservedFits
  <2>2. PICK r : r = [call[c] EXCEPT !.pc = "grading", !.evidence = e]
    OBVIOUS
  <2>3. /\ r.pc = "grading" /\ r.command = m /\ r.at = call[c].at
        /\ r.execution = e /\ r.evidence = e /\ ~r.passed
        /\ r.staged = call[c].staged /\ r.results = call[c].results
        /\ r.failures = call[c].failures /\ CallRecord(r)
    <3>1. "grading" \in Point /\ e \in Nat
      BY <1>2 DEF Point, CallRecord
    <3> QED BY <1>2, <2>2, <3>1 DEF CallRecord
  <2>4. Selected(r)
    BY <1>2, <2>3 DEF Selected
  <2>5. UngradedYet(r)' /\ StagedIsGraded(r)'
    BY <1>2, <1>3, <1>4, <2>1, <2>3
    DEF UngradedYet, CallFits, StagedIsGraded, AddsRecords
  <2>6. ReportedResults(r)' /\ ReportedFailures(c, r)'
    BY <1>1, <1>4, <2>3, ReportsStay DEF Over
  <2>7. CallFits(c, r)'
    BY <2>4, <2>5, <2>6 DEF CallFits, Selected
  <2>8. call' = [call EXCEPT ![c] = r]
    BY <1>4, <2>2 DEF Becomes
  <2>9. Adds(c)
    BY <1>4, <2>1 DEF Adds
  <2> QED BY <1>1, <2>1, <2>3, <2>7, <2>8, <2>9, StepFits DEF Flying
<1>5. CASE /\ \E phase \in {"SYSTEM_UNDER_TEST", "RESULT_COMPLETENESS", "GRADING"} :
                Fail(c, x, phase, Advance(call[c]), 1)
           /\ \E o \in Observables \cup {None} :
                executions' = [executions EXCEPT ![e].observable = o]
           /\ UNCHANGED <<cache, results, graded>>
  <2>1. RecordsFit' /\ AddsRecords(c)
    <3>1. PICK o \in Observables \cup {None} :
            executions' = [executions EXCEPT ![e].observable = o]
      BY <1>5
    <3> HIDE DEF e
    <3> QED BY <1>3, <1>5, <3>1, ObservedFits
  <2>2. PICK phase \in Phase : Fail(c, x, phase, Advance(call[c]), 1)
    BY <1>5 DEF Phase
  <2> HIDE DEF x
  <2> QED BY <1>1, <1>2, <1>5, <2>1, <2>2, FailCaseFits
<1>6. CASE \E other \in Stale(c) :
             ~Correlates(c, other) /\ FailCase(c, x, "RESULT_COMPLETENESS", 1)
  <2>1. /\ Fail(c, x, "RESULT_COMPLETENESS", Advance(call[c]), 1)
        /\ UNCHANGED <<cache, executions, results, graded>>
    BY <1>6 DEF FailCase
  <2>2. RecordsFit' /\ AddsRecords(c) /\ "RESULT_COMPLETENESS" \in Phase
    BY <2>1, RecordsStay DEF AddsRecords, Phase
  <2> HIDE DEF x
  <2> QED BY <1>1, <1>2, <2>1, <2>2, FailCaseFits
<1>7. ~ \E other \in Stale(c) : Correlates(c, other)
  BY DEF Stale, Correlates
<1> QED BY <1>4, <1>5, <1>6, <1>7 DEF Return, store

\* A cancellation is a failure nobody records.
LEMMA CancelFits ==
  ASSUME LedgerInv, NEW c \in Calls, Cancel(c)
  PROVE  LedgerInv'
<1>1. /\ call[c].pc = "executing"
      /\ UNCHANGED <<cache, executions, results, graded, failures>>
  BY DEF Cancel, At, store
<1>2. /\ CallFits(c, call[c]) /\ CallRecord(call[c]) /\ ~call[c].passed
      /\ call[c].command \in Commands
  BY <1>1, Working DEF Over
<1>3. PICK r : r = [call[c] EXCEPT !.pc = "aborted"]
  OBVIOUS
<1>4. /\ r.pc = "aborted" /\ r.command = call[c].command /\ ~r.passed
      /\ r.staged = call[c].staged /\ r.results = call[c].results
      /\ r.failures = call[c].failures /\ CallRecord(r)
  BY <1>2, <1>3 DEF CallRecord, Point, Over
<1>5. Selected(r) /\ UngradedYet(r)' /\ StagedIsGraded(r)'
  BY <1>1, <1>2, <1>4 DEF Selected, UngradedYet, CallFits, StagedIsGraded, Over
<1>6. ReportedResults(r)' /\ ReportedFailures(c, r)'
  BY <1>1, <1>4, ReportsStay DEF Over
<1>7. CallFits(c, r)'
  BY <1>5, <1>6 DEF CallFits, Selected
<1>8. call' = [call EXCEPT ![c] = r]
  BY <1>3 DEF Cancel, Becomes
<1> QED BY <1>1, <1>4, <1>7, <1>8, RecordsStay, NothingAdded, StepFits

\* A graded event of an execution that has none, under a key that has none.
LEMMA GradedFits ==
  ASSUME LedgerInv, NEW c \in Calls, call[c].pc = "grading",
         GradedInsertable(GradedEvent(c)), graded' = graded \cup {GradedEvent(c)},
         UNCHANGED <<cache, executions, results>>
  PROVE  RecordsFit' /\ AddsRecords(c)
<1> DEFINE m == call[c].command
           x == m.cases[call[c].at]
           e == call[c].execution
           event == EventOf(KeyOf(m, x), e)
<1>1. /\ CallFits(c, call[c]) /\ CallRecord(call[c]) /\ m \in Commands
      /\ x \in Cases /\ KeyOf(m, x) \in Key
  BY Working DEF Over
<1>2. /\ e \in DOMAIN executions /\ executions[e].case = x
      /\ \A g \in graded : g.execution # e
      /\ GradedEvent(c) = event /\ e \in Nat
  BY <1>1 DEF CallFits, UngradedYet, GradedEvent, EventOf, CallRecord
<1>3. /\ event \in [key : Key, execution : Nat] /\ event.execution = e
      /\ event.key = KeyOf(m, x) /\ KeyOf(m, x).case = x
  BY <1>1, <1>2, KeyTyped DEF EventOf
<1>4. \A g \in graded : g.key # event.key
  <2>1. \A g \in graded : g.key = event.key => g = event
    BY <1>2 DEF GradedInsertable
  <2> QED BY <1>2, <1>3, <2>1
<1> HIDE DEF event, e, x
<1>5. AddsRecords(c)
  BY <1>2, <1>3 DEF AddsRecords, e
<1>6. \A g, other \in graded' :
        g.key = other.key \/ g.execution = other.execution => g = other
  BY <1>2, <1>3, <1>4 DEF LedgerInv, RecordsFit
<1>7. \A g \in graded' : /\ g \in [key : Key, execution : Nat]
                         /\ g.execution \in DOMAIN executions'
                         /\ executions'[g.execution].case = g.key.case
  BY <1>2, <1>3 DEF LedgerInv, RecordsFit
<1>8. RecordsFit'
  BY <1>6, <1>7 DEF LedgerInv, RecordsFit, Judged
<1> QED BY <1>5, <1>8

LEMMA AppendGradedFits ==
  ASSUME LedgerInv, NEW c \in Calls, AppendGraded(c)
  PROVE  LedgerInv'
<1> DEFINE m == call[c].command
           x == m.cases[call[c].at]
           event == GradedEvent(c)
<1>1. call[c].pc = "grading" /\ UNCHANGED <<cache, executions, results>>
  BY DEF AppendGraded, At, FailCase
<1>2. /\ CallFits(c, call[c]) /\ CallRecord(call[c]) /\ ~call[c].passed
      /\ m \in Commands /\ WellFormed(m)
      /\ call[c].at \in 1..Len(m.cases) /\ x \in Cases
  BY <1>1, Working DEF Over
<1>3. event.key.case = x /\ event = EventOf(KeyOf(m, x), call[c].evidence)
  BY DEF GradedEvent, KeyOf, EventOf
<1>4. CASE /\ GradedInsertable(event) /\ graded' = graded \cup {event}
           /\ Becomes(c, [call[c] EXCEPT !.pc = "reloading"])
           /\ UNCHANGED failures
  <2>1. RecordsFit' /\ AddsRecords(c)
    BY <1>1, <1>4, GradedFits
  <2>2. PICK r : r = [call[c] EXCEPT !.pc = "reloading"]
    OBVIOUS
  <2>3. /\ r.pc = "reloading" /\ r.command = m /\ r.at = call[c].at
        /\ r.evidence = call[c].evidence /\ ~r.passed
        /\ r.staged = call[c].staged /\ r.results = call[c].results
        /\ r.failures = call[c].failures /\ CallRecord(r)
    BY <1>2, <2>2 DEF CallRecord, Point
  <2>4. Selected(r)
    BY <1>2, <2>3 DEF Selected
  <2> HIDE DEF event
  <2>5. UngradedYet(r)' /\ StagedIsGraded(r)'
    BY <1>2, <1>3, <1>4, <2>3 DEF UngradedYet, CallFits, StagedIsGraded
  <2>6. ReportedResults(r)' /\ ReportedFailures(c, r)'
    BY <1>1, <1>4, <2>3, ReportsStay DEF Over
  <2>7. CallFits(c, r)'
    BY <2>4, <2>5, <2>6 DEF CallFits, Selected
  <2>8. call' = [call EXCEPT ![c] = r]
    BY <1>4, <2>2 DEF Becomes
  <2>9. Adds(c)
    BY <1>4, <2>1 DEF Adds
  <2> QED BY <2>1, <2>3, <2>7, <2>8, <2>9, StepFits
<1>5. CASE /\ \E spent \in {0, 1} :
                Fail(c, event.key.case, "TRACE_PERSISTENCE", Advance(call[c]), spent)
           /\ \/ graded' = graded
              \/ GradedInsertable(event) /\ graded' = graded \cup {event}
  <2>1. RecordsFit' /\ AddsRecords(c)
    <3>1. CASE graded' = graded
      BY <1>1, <3>1, RecordsStay DEF AddsRecords
    <3>2. CASE GradedInsertable(event) /\ graded' = graded \cup {event}
      BY <1>1, <3>2, GradedFits
    <3> QED BY <1>5, <3>1, <3>2
  <2>2. /\ \E spent \in {0, 1} :
             Fail(c, x, "TRACE_PERSISTENCE", Advance(call[c]), spent)
        /\ "TRACE_PERSISTENCE" \in Phase
    BY <1>3, <1>5 DEF Phase
  <2> HIDE DEF x
  <2> QED BY <1>1, <1>2, <2>1, <2>2, FailCaseFits
<1> QED BY <1>4, <1>5 DEF AppendGraded, FailCase

LEMMA ReloadFits ==
  ASSUME LedgerInv, NEW c \in Calls, Reload(c)
  PROVE  LedgerInv'
<1> DEFINE m == call[c].command
           x == m.cases[call[c].at]
           event == GradedEvent(c)
           observed == executions[event.execution].observable
           stage(status) == [status |-> status, origin |-> event.execution,
                             observable |-> observed]
<1>1. /\ call[c].pc = "reloading"
      /\ UNCHANGED <<cache, executions, results, graded>>
  BY DEF Reload, At, store, FailCase
<1>2. /\ CallFits(c, call[c]) /\ CallRecord(call[c]) /\ ~call[c].passed
      /\ m \in Commands /\ x \in Cases
  BY <1>1, Working DEF Over
<1>3. /\ event.key.case = x /\ event = EventOf(KeyOf(m, x), call[c].evidence)
      /\ event.execution = call[c].evidence /\ call[c].evidence \in Nat
      /\ event \in graded
  BY <1>1, <1>2
  DEF GradedEvent, KeyOf, EventOf, CallRecord, CallFits, UngradedYet
<1>4. CASE /\ \E status \in {"PASS", "FAIL"} :
                Becomes(c, Advance([call[c] EXCEPT !.staged = Put(@, x, stage(status))]))
           /\ UNCHANGED failures
  <2>1. PICK status \in {"PASS", "FAIL"} :
          Becomes(c, Advance([call[c] EXCEPT !.staged = Put(@, x, stage(status))]))
    BY <1>4
  <2>2. observed \in Observables \cup {None}
    <3>1. executions \in Seq(ExecutionRecord) /\ event.execution \in DOMAIN executions
      BY <1>3 DEF LedgerInv, RecordsFit
    <3>2. executions[event.execution] \in ExecutionRecord
      BY <3>1, ElementOfSeq
    <3> QED BY <3>2 DEF ExecutionRecord
  <2>3. stage(status) \in StageRecord /\ stage(status).origin = call[c].evidence
    <3> HIDE DEF event, observed
    <3> QED BY <1>3, <2>2 DEF StageRecord
  <2>4. PICK s \in StageRecord : s = stage(status)
    BY <2>3
  <2> HIDE DEF stage, event
  <2> QED BY <1>1, <1>3, <1>4, <2>1, <2>3, <2>4, StagedFits
<1>5. CASE \E phase \in {"TRACE_PERSISTENCE", "RESULT_COMPLETENESS", "GRADING"},
              spent \in {0, 1} : FailCase(c, x, phase, spent)
  <2>1. PICK phase \in {"TRACE_PERSISTENCE", "RESULT_COMPLETENESS", "GRADING"},
             spent \in {0, 1} : FailCase(c, x, phase, spent)
    BY <1>5
  <2>2. /\ RecordsFit' /\ AddsRecords(c) /\ phase \in Phase
        /\ Fail(c, x, phase, Advance(call[c]), spent)
    BY <1>1, <2>1, RecordsStay DEF FailCase, AddsRecords, Phase
  <2> HIDE DEF x
  <2> QED BY <1>1, <1>2, <2>2, FailCaseFits
<1> QED BY <1>3, <1>4, <1>5 DEF Reload, store

Storing(p, s) == [p EXCEPT !.pc = "storing", !.at = 1, !.staged = s]

\* What goes on to be stored comes from what was staged, on the same Trace.
LEMMA StoringFits ==
  ASSUME LedgerInv, NEW c \in Calls, call[c].pc = "pairing",
         NEW s, Dictionary(s, Cases, StageRecord),
         \A x \in DOMAIN s : /\ x \in DOMAIN call[c].staged
                             /\ s[x].origin = call[c].staged[x].origin,
         NEW r, r = Storing(call[c], s),
         UNCHANGED <<executions, results, graded>>
  PROVE  /\ Selected(r) /\ UngradedYet(r)' /\ StagedIsGraded(r)'
         /\ ReportedResults(r)' /\ ~r.passed /\ r.pc = "storing"
         /\ r.command = call[c].command /\ r.results = call[c].results
         /\ r.failures = call[c].failures
<1>1. /\ CallFits(c, call[c]) /\ CallRecord(call[c]) /\ ~call[c].passed
      /\ call[c].command \in Commands /\ WellFormed(call[c].command)
  BY Working DEF Over
<1>2. /\ r.pc = "storing" /\ r.command = call[c].command /\ ~r.passed
      /\ r.staged = s /\ r.results = call[c].results
      /\ r.failures = call[c].failures
  BY <1>1 DEF CallRecord, Storing
<1>3. CallRecord(r)
  <2>1. "storing" \in Point /\ 1 \in Nat \ {0}
    BY DEF Point
  <2> QED BY <1>1, <1>2, <2>1 DEF CallRecord, Storing
<1>4. Selected(r)
  BY <1>1, <1>2, <1>3 DEF Selected
<1>5. UngradedYet(r)' /\ StagedIsGraded(r)' /\ ReportedResults(r)'
  BY <1>1, <1>2 DEF CallFits, UngradedYet, StagedIsGraded, ReportedResults
<1> QED BY <1>2, <1>4, <1>5

LEMMA JoinPairFits ==
  ASSUME LedgerInv, NEW c \in Calls, JoinPair(c)
  PROVE  LedgerInv'
<1> DEFINE staged == call[c].staged
           have == Pair \cap DOMAIN staged
           storing(s) == Storing(call[c], s)
<1>1. /\ call[c].pc = "pairing"
      /\ UNCHANGED <<cache, executions, results, graded>>
  BY DEF JoinPair, At, store
<1>2. Dictionary(staged, Cases, StageRecord)
  BY <1>1, Working DEF Over, CallRecord
<1>3. RecordsFit' /\ AddsRecords(c)
  BY <1>1, RecordsStay DEF AddsRecords
<1>4. CASE /\ \E s \in {staged, ForcedFail(staged)} : Becomes(c, storing(s))
           /\ UNCHANGED failures
  <2>1. PICK s \in {staged, ForcedFail(staged)} : Becomes(c, storing(s))
    BY <1>4
  <2>2. /\ Dictionary(s, Cases, StageRecord)
        /\ \A x \in DOMAIN s : x \in DOMAIN staged /\ s[x].origin = staged[x].origin
    BY <1>2, <2>1 DEF Dictionary, ForcedFail, StageRecord
  <2>3. PICK r : r = storing(s)
    OBVIOUS
  <2>4. /\ Selected(r) /\ UngradedYet(r)' /\ StagedIsGraded(r)'
        /\ ReportedResults(r)' /\ ~r.passed /\ r.pc = "storing"
        /\ r.command = call[c].command /\ r.results = call[c].results
        /\ r.failures = call[c].failures
    <3> HIDE DEF staged
    <3>1. \A x \in DOMAIN s : /\ x \in DOMAIN call[c].staged
                              /\ s[x].origin = call[c].staged[x].origin
      BY <2>2 DEF staged
    <3> QED BY <1>1, <2>2, <2>3, <3>1, StoringFits
  <2>5. ReportedFailures(c, r)'
    BY <1>1, <1>4, <2>4, ReportsStay DEF Over
  <2>6. CallFits(c, r)'
    BY <2>4, <2>5 DEF CallFits, Selected
  <2>7. call' = [call EXCEPT ![c] = r]
    BY <2>1, <2>3 DEF Becomes
  <2>8. Adds(c)
    BY <1>3, <1>4 DEF Adds
  <2> QED BY <1>3, <2>4, <2>6, <2>7, <2>8, StepFits
<1>5. CASE \E x \in have :
             Fail(c, x, "RESULT_COMPLETENESS", storing(Unstaged(staged, have)), 0)
  <2>1. PICK x \in have :
          Fail(c, x, "RESULT_COMPLETENESS", storing(Unstaged(staged, have)), 0)
    BY <1>5
  <2>2. PICK s : s = Unstaged(staged, have)
    OBVIOUS
  <2>3. /\ Dictionary(s, Cases, StageRecord)
        /\ \A y \in DOMAIN s : y \in DOMAIN staged /\ s[y].origin = staged[y].origin
    BY <1>2, <2>2 DEF Dictionary, Unstaged
  <2>4. PICK r : r = storing(s)
    OBVIOUS
  <2>5. /\ Selected(r) /\ UngradedYet(r)' /\ StagedIsGraded(r)'
        /\ ReportedResults(r)' /\ ~r.passed /\ r.pc = "storing"
        /\ r.failures = call[c].failures
    <3> HIDE DEF staged
    <3>1. \A y \in DOMAIN s : /\ y \in DOMAIN call[c].staged
                              /\ s[y].origin = call[c].staged[y].origin
      BY <2>3 DEF staged
    <3> QED BY <1>1, <2>3, <2>4, <3>1, StoringFits
  <2>6. /\ Fail(c, x, "RESULT_COMPLETENESS", r, 0) /\ x \in Cases
        /\ "RESULT_COMPLETENESS" \in Phase
    BY <1>2, <2>1, <2>2, <2>4 DEF Phase, Dictionary
  <2> HIDE DEF staged, have, storing
  <2> QED BY <1>1, <1>3, <2>5, <2>6, FailFits DEF Over
<1> QED BY <1>1, <1>4, <1>5 DEF JoinPair, store, Storing

\* The cache takes over a stage whose result is stored.
LEMMA CacheFits ==
  ASSUME LedgerInv, NEW c \in Calls, NEW x, NEW stage \in StageRecord,
         EventOf(KeyOf(call[c].command, x), stage.origin) \in graded,
         cache' = CacheAfter(c, x, stage, TRUE), UNCHANGED graded
  PROVE  /\ cache' = [h \in Harnesses |-> cache'[h]]
         /\ \A h \in Harnesses : \A rk \in DOMAIN cache'[h] :
              /\ cache'[h][rk] \in StageRecord
              /\ EventOf(rk[1], cache'[h][rk].origin) \in graded'
<1> DEFINE new == ReplayKey(call[c].command, x)
           own == HarnessOf[c]
<1>1. /\ cache = [h \in Harnesses |-> cache[h]] /\ own \in Harnesses
      /\ \A h \in Harnesses : \A rk \in DOMAIN cache[h] :
           cache[h][rk] \in StageRecord /\ EventOf(rk[1], cache[h][rk].origin) \in graded
  BY HarnessAssumption DEF LedgerInv, RecordsFit
<1>2. cache' = [cache EXCEPT ![own] = Put(cache[own], new, stage)]
  BY DEF CacheAfter
<1>3. new[1] = KeyOf(call[c].command, x)
  BY DEF ReplayKey
<1> HIDE DEF new, own
<1>4. /\ cache'[own] = Put(cache[own], new, stage)
      /\ \A h \in Harnesses \ {own} : cache'[h] = cache[h]
      /\ cache' = [h \in Harnesses |-> cache'[h]]
  BY <1>1, <1>2
<1>5. \A rk \in DOMAIN cache'[own] :
        /\ cache'[own][rk] \in StageRecord
        /\ EventOf(rk[1], cache'[own][rk].origin) \in graded'
  BY <1>1, <1>3, <1>4 DEF Put
<1> QED BY <1>1, <1>4, <1>5

\* The stage a command is about to store.
LEMMA ToBeStored ==
  ASSUME LedgerInv, NEW c \in Calls, call[c].pc = "storing", NEW i \in ToStore(c)
  PROVE  LET m == call[c].command
             x == m.cases[i]
             record == ResultOf(call[c].staged[x])
         IN  /\ i + 1 \in Nat \ {0} /\ x \in Cases /\ KeyOf(m, x) \in Key
             /\ call[c].staged[x] \in StageRecord /\ record \in ResultRecord
             /\ record.status \in {"PASS", "FAIL"}
             /\ record.origin = call[c].staged[x].origin
             /\ EventOf(KeyOf(m, x), record.origin) \in graded
<1> DEFINE m == call[c].command
           x == m.cases[i]
           stage == call[c].staged[x]
<1>1. /\ CallFits(c, call[c]) /\ CallRecord(call[c]) /\ m \in Commands
      /\ WellFormed(m) /\ Len(m.cases) \in Nat
  BY Working DEF Over
<1>2. i \in 1..Len(m.cases) /\ x \in DOMAIN call[c].staged
  BY <1>1 DEF ToStore, CallRecord
<1>3. /\ x \in Cases /\ stage \in StageRecord
      /\ EventOf(KeyOf(m, x), stage.origin) \in graded
  BY <1>1, <1>2 DEF CallRecord, Dictionary, CallFits, StagedIsGraded
<1>4. KeyOf(m, x) \in Key
  BY <1>1, <1>3, KeyTyped
<1> HIDE DEF stage
<1>5. /\ ResultOf(stage) \in ResultRecord /\ ResultOf(stage).origin = stage.origin
      /\ ResultOf(stage).status \in {"PASS", "FAIL"}
  BY <1>3 DEF ResultOf, ResultRecord, StageRecord
<1> QED BY <1>1, <1>2, <1>3, <1>4, <1>5 DEF stage

LEMMA AppendResultFits ==
  ASSUME LedgerInv, NEW c \in Calls, AppendResult(c)
  PROVE  LedgerInv'
<1> DEFINE m == call[c].command
           x(i) == m.cases[i]
           k(i) == KeyOf(m, x(i))
           stage(i) == call[c].staged[x(i)]
           record(i) == ResultOf(stage(i))
           next(i) == [call[c] EXCEPT !.at = i + 1]
           stored(i) == [results EXCEPT ![k(i)] = record(i)]
<1>1. call[c].pc = "storing" /\ UNCHANGED <<executions, graded>>
  BY DEF AppendResult, At
<1>2. PICK i \in ToStore(c) :
        \/ /\ Storable(k(i), record(i)) /\ results' = stored(i)
           /\ cache' = CacheAfter(c, x(i), stage(i), TRUE)
           /\ Becomes(c, [next(i) EXCEPT !.results = Put(@, x(i), record(i))])
           /\ UNCHANGED failures
        \/ /\ \E spent \in {0, 1} : Fail(c, x(i), "RESULT_PERSISTENCE", next(i), spent)
           /\ \/ results' = results
              \/ Storable(k(i), record(i)) /\ results' = stored(i)
           /\ cache' = CacheAfter(c, x(i), stage(i), FALSE)
  BY DEF AppendResult
<1>3. /\ CallFits(c, call[c]) /\ CallRecord(call[c]) /\ ~call[c].passed
      /\ m \in Commands /\ WellFormed(m)
  BY <1>1, Working DEF Over
<1>4. /\ i + 1 \in Nat \ {0} /\ x(i) \in Cases /\ k(i) \in Key
      /\ stage(i) \in StageRecord /\ record(i) \in ResultRecord
      /\ EventOf(k(i), record(i).origin) \in graded
      /\ record(i).origin = stage(i).origin
  BY <1>1, ToBeStored
<1>5. /\ results' \in [Key -> ResultRecord \cup {None}]
      /\ \A j \in Key : results[j] = None \/ results'[j] = results[j]
      /\ \A j \in Key : Judged(j)' => EventOf(j, results'[j].origin) \in graded'
  <2>1. CASE results' = results
    <3> HIDE DEF k, record
    <3> QED BY <1>1, <2>1 DEF LedgerInv, RecordsFit, Judged
  <2>2. CASE results' = stored(i) /\ Storable(k(i), record(i))
    <3> HIDE DEF k, record
    <3> QED BY <1>1, <1>4, <2>2, ResultFits DEF Storable
  <2> QED BY <1>2, <2>1, <2>2
<1>6. /\ cache' = [h \in Harnesses |-> cache'[h]]
      /\ \A h \in Harnesses : \A rk \in DOMAIN cache'[h] :
           cache'[h][rk] \in StageRecord /\ EventOf(rk[1], cache'[h][rk].origin) \in graded'
  <2>1. CASE cache' = CacheAfter(c, x(i), stage(i), TRUE)
    <3> HIDE DEF x, stage
    <3> QED BY <1>1, <1>4, <2>1, CacheFits DEF k
  <2>2. CASE cache' = CacheAfter(c, x(i), stage(i), FALSE)
    BY <1>1, <2>2 DEF CacheAfter, LedgerInv, RecordsFit
  <2> QED BY <1>2, <2>1, <2>2
<1>7. RecordsFit'
  BY <1>1, <1>5, <1>6 DEF LedgerInv, RecordsFit
<1>8. AddsRecords(c)
  BY <1>1, <1>5 DEF AddsRecords
<1>9. CASE /\ Storable(k(i), record(i)) /\ results' = stored(i)
           /\ Becomes(c, [next(i) EXCEPT !.results = Put(@, x(i), record(i))])
           /\ UNCHANGED failures
  <2>1. PICK r : r = [next(i) EXCEPT !.results = Put(@, x(i), record(i))]
    OBVIOUS
  <2>2. call' = [call EXCEPT ![c] = r]
    BY <1>9, <2>1 DEF Becomes
  <2>3. results'[k(i)] = record(i) /\ \A j \in Key \ {k(i)} : results'[j] = results[j]
    <3> HIDE DEF k, record
    <3> QED BY <1>4, <1>9 DEF LedgerInv, RecordsFit
  <2>4. \A y \in Cases \ {x(i)} : KeyOf(m, y) \in Key \ {k(i)}
    BY <1>3, KeyTyped, KeyOfCase
  <2>5. k(i) = KeyOf(m, x(i))
    OBVIOUS
  <2> HIDE DEF x, k, record, stage
  <2>6. /\ r.pc = "storing" /\ r.command = m /\ r.at = i + 1 /\ ~r.passed
        /\ r.staged = call[c].staged /\ r.failures = call[c].failures
        /\ r.results = Put(call[c].results, x(i), record(i))
    BY <1>1, <1>3, <2>1 DEF CallRecord
  <2>7. /\ DOMAIN r.results = DOMAIN call[c].results \cup {x(i)}
        /\ r.results[x(i)] = record(i)
        /\ \A y \in DOMAIN call[c].results \ {x(i)} : r.results[y] = call[c].results[y]
    BY <2>6 DEF Put
  <2>8. Dictionary(r.results, Cases, ResultRecord)
    BY <1>3, <1>4, <2>6, PutTyped DEF CallRecord
  <2>9. CallRecord(r)
    BY <1>3, <1>4, <2>1, <2>6, <2>8 DEF CallRecord
  <2>10. Selected(r)
    BY <1>3, <2>6, <2>9 DEF Selected
  <2>11. UngradedYet(r)' /\ StagedIsGraded(r)'
    BY <1>1, <1>3, <2>6 DEF CallFits, UngradedYet, StagedIsGraded
  <2>12. ReportedResults(r)'
    <3>1. \A y \in DOMAIN r.results : results'[KeyOf(m, y)] = r.results[y]
      <4> SUFFICES ASSUME NEW y \in DOMAIN r.results
                   PROVE  results'[KeyOf(m, y)] = r.results[y]
        OBVIOUS
      <4>1. CASE y = x(i)
        BY <2>3, <2>5, <2>7, <4>1
      <4>2. CASE y # x(i)
        <5>1. y \in DOMAIN call[c].results /\ r.results[y] = call[c].results[y]
          BY <2>7, <4>2
        <5>2. y \in Cases /\ results[KeyOf(m, y)] = call[c].results[y]
          BY <1>3, <5>1 DEF CallRecord, Dictionary, CallFits, ReportedResults
        <5> QED BY <2>3, <2>4, <4>2, <5>1, <5>2
      <4> QED BY <4>1, <4>2
    <3> QED BY <2>6, <3>1 DEF ReportedResults
  <2>13. ReportedFailures(c, r)'
    BY <1>1, <1>3, <1>9, <2>6 DEF CallFits, ReportedFailures
  <2>14. CallFits(c, r)'
    BY <2>10, <2>11, <2>12, <2>13 DEF CallFits, Selected
  <2>15. Adds(c)
    BY <1>8, <1>9 DEF Adds
  <2> QED BY <1>7, <2>2, <2>6, <2>14, <2>15, StepFits
<1>10. CASE \E spent \in {0, 1} : Fail(c, x(i), "RESULT_PERSISTENCE", next(i), spent)
  <2>1. PICK r : r = next(i)
    OBVIOUS
  <2>2. PICK spent : Fail(c, x(i), "RESULT_PERSISTENCE", r, spent)
    BY <1>10, <2>1
  <2>3. /\ r.pc = "storing" /\ r.command = m /\ r.at = i + 1 /\ ~r.passed
        /\ r.staged = call[c].staged /\ r.failures = call[c].failures
        /\ r.results = call[c].results
    BY <1>1, <1>3, <2>1 DEF CallRecord
  <2>4. CallRecord(r)
    BY <1>3, <1>4, <2>1, <2>3 DEF CallRecord
  <2>5. Selected(r)
    BY <1>3, <2>3, <2>4 DEF Selected
  <2>6. UngradedYet(r)' /\ StagedIsGraded(r)'
    BY <1>1, <1>3, <2>3 DEF CallFits, UngradedYet, StagedIsGraded
  <2>7. ReportedResults(r)'
    <3>1. \A y \in DOMAIN r.results : results'[KeyOf(m, y)] = r.results[y]
      <4> SUFFICES ASSUME NEW y \in DOMAIN r.results
                   PROVE  results'[KeyOf(m, y)] = r.results[y]
        OBVIOUS
      <4>1. /\ y \in Cases /\ results[KeyOf(m, y)] = r.results[y]
            /\ r.results[y] \in ResultRecord
        BY <1>3, <2>3 DEF CallRecord, Dictionary, CallFits, ReportedResults
      <4>2. KeyOf(m, y) \in Key
        BY <1>3, <4>1, KeyTyped
      <4> QED BY <1>5, <4>1, <4>2, NoneIsNoRecord
    <3> QED BY <2>3, <3>1 DEF ReportedResults
  <2>8. "RESULT_PERSISTENCE" \in Phase
    BY DEF Phase
  <2> HIDE DEF x
  <2> QED BY <1>1, <1>4, <1>7, <1>8, <2>2, <2>3, <2>5, <2>6, <2>7, <2>8, FailFits DEF Over
<1> QED BY <1>2, <1>9, <1>10

LEMMA FinishFits ==
  ASSUME LedgerInv, NEW c \in Calls, Finish(c)
  PROVE  LedgerInv'
<1> DEFINE passed == CommandPassed(call[c])
<1>1. /\ call[c].pc = "storing"
      /\ UNCHANGED <<cache, executions, results, graded, failures>>
  BY DEF Finish, At, store
<1>2. /\ CallFits(c, call[c]) /\ CallRecord(call[c])
      /\ call[c].command \in Commands
  BY <1>1, Working DEF Over
<1>3. PICK r : r = [call[c] EXCEPT !.pc = "finished", !.passed = passed]
  OBVIOUS
<1>4. passed \in BOOLEAN /\ "finished" \in Point
  BY DEF CommandPassed, Point, Over
<1> HIDE DEF passed
<1>5. /\ r.pc = "finished" /\ r.command = call[c].command /\ r.passed = passed
      /\ r.staged = call[c].staged /\ r.results = call[c].results
      /\ r.failures = call[c].failures /\ CallRecord(r)
  BY <1>2, <1>3, <1>4 DEF CallRecord
<1>6. Selected(r) /\ UngradedYet(r)' /\ StagedIsGraded(r)'
  BY <1>1, <1>2, <1>5 DEF Selected, UngradedYet, CallFits, StagedIsGraded, Over
<1>7. ReportedResults(r)' /\ ReportedFailures(c, r)'
  <2>1. r.passed => CommandPassed(r)
    BY <1>5 DEF CommandPassed, passed
  <2> QED BY <1>1, <1>2, <1>5, <2>1 DEF CallFits, ReportedResults, ReportedFailures, CommandPassed
<1>8. CallFits(c, r)'
  BY <1>6, <1>7 DEF CallFits, Selected
<1>9. call' = [call EXCEPT ![c] = r]
  BY <1>3 DEF Finish, Becomes, passed
<1> QED BY <1>1, <1>5, <1>8, <1>9, RecordsStay, NothingAdded, StepFits

\* A process that dies takes its commands and its cache with it.
LEMMA CrashFits ==
  ASSUME LedgerInv, NEW h \in Harnesses, Crash(h)
  PROVE  LedgerInv'
<1>1. UNCHANGED <<executions, results, graded, failures>>
  BY DEF Crash, store
<1>2. /\ cache' = [g \in Harnesses |-> cache'[g]]
      /\ cache'[h] = <<>> /\ \A g \in Harnesses \ {h} : cache'[g] = cache[g]
  BY DEF LedgerInv, RecordsFit, Crash
<1>3. RecordsFit'
  <2>1. \A g \in Harnesses : \A rk \in DOMAIN cache'[g] :
          cache'[g][rk] \in StageRecord /\ EventOf(rk[1], cache'[g][rk].origin) \in graded'
    BY <1>1, <1>2, EmptyDictionary DEF LedgerInv, RecordsFit
  <2> QED BY <1>1, <1>2, <2>1 DEF LedgerInv, RecordsFit, Judged
<1>4. /\ call' = [c \in Calls |-> call'[c]]
      /\ \A c \in Calls :
           \/ call'[c] = call[c]
           \/ /\ call[c].pc \notin Over \cup {"idle"}
              /\ call'[c] = [call[c] EXCEPT !.pc = "crashed"]
  BY DEF Crash
<1>5. \A c \in Calls : CallFits(c, call[c])'
  <2> TAKE c \in Calls
  <2>1. CallFits(c, call[c])
    BY DEF LedgerInv
  <2>2. CASE call'[c] = call[c]
    BY <1>1, <2>1, <2>2
    DEF CallFits, Selected, UngradedYet, StagedIsGraded, ReportedResults,
        ReportedFailures, CommandPassed
  <2>3. CASE /\ call[c].pc \notin Over \cup {"idle"}
             /\ call'[c] = [call[c] EXCEPT !.pc = "crashed"]
    <3>1. CallRecord(call[c]) /\ ~call[c].passed /\ call[c].command \in Commands
      BY <2>3, Working
    <3>2. PICK r : r = [call[c] EXCEPT !.pc = "crashed"]
      OBVIOUS
    <3>3. /\ r.pc = "crashed" /\ r.command = call[c].command /\ ~r.passed
          /\ r.staged = call[c].staged /\ r.results = call[c].results
          /\ r.failures = call[c].failures /\ CallRecord(r)
      BY <3>1, <3>2 DEF CallRecord, Point, Over
    <3>4. /\ Selected(r) /\ UngradedYet(r)' /\ StagedIsGraded(r)'
          /\ ReportedResults(r)' /\ ReportedFailures(c, r)'
      BY <1>1, <2>1, <3>1, <3>3
      DEF CallFits, Selected, UngradedYet, StagedIsGraded, ReportedResults,
          ReportedFailures, Over
    <3>5. call'[c] = r
      BY <2>3, <3>2
    <3> QED BY <3>4, <3>5 DEF CallFits, Selected, UngradedYet, StagedIsGraded,
                              ReportedResults, ReportedFailures, CommandPassed
  <2> QED BY <1>4, <2>2, <2>3
<1>6. \A c \in Calls : Flying(c)' => Flying(c) /\ call'[c] = call[c]
  <2> TAKE c \in Calls
  <2>1. CASE call'[c] = call[c]
    BY <2>1 DEF Flying
  <2>2. CASE /\ call[c].pc \notin Over \cup {"idle"}
             /\ call'[c] = [call[c] EXCEPT !.pc = "crashed"]
    <3>1. CallRecord(call[c])
      BY <2>2, Working
    <3>2. call'[c].pc = "crashed"
      BY <2>2, <3>1 DEF CallRecord
    <3> QED BY <3>2 DEF Flying
  <2> QED BY <1>4, <2>1, <2>2
<1>7. \A c, e \in Calls :
        c # e /\ Flying(c)' /\ Flying(e)' => call'[c].execution # call'[e].execution
  BY <1>6 DEF LedgerInv
<1> QED BY <1>3, <1>4, <1>5, <1>7 DEF LedgerInv

-------------------------------------------------------------------------------
(* The invariant.                                                           *)

LEMMA InitFits == Init => LedgerInv
<1> SUFFICES ASSUME Init PROVE LedgerInv
  OBVIOUS
<1>1. /\ executions = <<>> /\ graded = {} /\ failures = {}
      /\ results = [k \in Key |-> None]
      /\ \A c \in Calls : call[c] = Idle /\ call[c].pc = "idle"
      /\ \A h \in Harnesses : DOMAIN cache[h] = {}
  BY EmptyDictionary DEF Init, Idle
<1>2. RecordsFit
  BY <1>1 DEF RecordsFit, Init, Judged
<1>3. /\ Selected(Idle) /\ UngradedYet(Idle) /\ StagedIsGraded(Idle)
      /\ ReportedResults(Idle)
  <2>1. /\ Dictionary(Idle.staged, Cases, StageRecord)
        /\ Dictionary(Idle.results, Cases, ResultRecord)
        /\ DOMAIN Idle.staged = {} /\ DOMAIN Idle.results = {}
    BY EmptyDictionary DEF Idle
  <2>2. CallRecord(Idle)
    BY <2>1 DEF CallRecord, Idle, Point
  <2>3. Idle.pc = "idle" /\ ~Idle.passed
    BY DEF Idle
  <2> QED BY <2>1, <2>2, <2>3
          DEF Selected, UngradedYet, StagedIsGraded, ReportedResults, Over
<1>4. \A c \in Calls : ReportedFailures(c, Idle)
  BY <1>1 DEF ReportedFailures, Idle
<1>5. \A c \in Calls : CallFits(c, call[c])
  BY <1>1, <1>3, <1>4 DEF CallFits
<1>6. call = [c \in Calls |-> call[c]]
  BY DEF Init
<1>7. \A c \in Calls : ~Flying(c)
  BY <1>1 DEF Flying
<1> QED BY <1>2, <1>5, <1>6, <1>7 DEF LedgerInv

LEMMA NextFits == LedgerInv /\ [Next]_vars => LedgerInv'
<1> SUFFICES ASSUME LedgerInv, [Next]_vars PROVE LedgerInv'
  OBVIOUS
<1>1. ASSUME NEW c \in Calls, Step(c) PROVE LedgerInv'
  BY <1>1, RefuseFits, AppendNotRunFits, StageFits, ReturnFits, AppendGradedFits,
     ReloadFits, JoinPairFits, AppendResultFits, FinishFits DEF Step
<1>2. ASSUME NEW c \in Calls, Cancel(c) PROVE LedgerInv'
  BY <1>2, CancelFits
<1>3. ASSUME NEW c \in Calls, NEW m \in Commands, Begin(c, m) PROVE LedgerInv'
  BY <1>3, BeginFits
<1>4. ASSUME NEW h \in Harnesses, Crash(h) PROVE LedgerInv'
  BY <1>4, CrashFits
<1>5. CASE UNCHANGED vars
  BY <1>5
  DEF vars, store, LedgerInv, RecordsFit, Judged, CallFits, Selected, UngradedYet,
      StagedIsGraded, ReportedResults, ReportedFailures, CommandPassed, Flying
<1> QED BY <1>1, <1>2, <1>3, <1>4, <1>5 DEF Next

\* The inductive invariant: what is staged, cached, judged or reported agrees
\* with the graded events and the results that are stored, whatever commands
\* and processes do in between.
THEOREM LedgerInvariant == Spec => []LedgerInv
  BY InitFits, NextFits, PTL DEF Spec

\* A stored PASS or FAIL is about an execution of its own Case, and no two keys
\* are judged on one execution (the execution_ref and the identity of the graded
\* event).
THEOREM JudgedOnOwnExecutionHolds == Spec => []JudgedOnOwnExecution
<1>1. LedgerInv => JudgedOnOwnExecution
  <2> SUFFICES ASSUME LedgerInv, NEW k \in Key, Judged(k)
               PROVE  /\ executions[results[k].origin].case = k.case
                      /\ \A other \in Key \ {k} : Judged(other) =>
                           results[other].origin # results[k].origin
    BY DEF JudgedOnOwnExecution
  <2>1. \A j \in Key : Judged(j) => EventOf(j, results[j].origin) \in graded
    BY DEF LedgerInv, RecordsFit
  <2>2. \A j, e : EventOf(j, e).key = j /\ EventOf(j, e).execution = e
    BY DEF EventOf
  <2> QED BY <2>1, <2>2 DEF LedgerInv, RecordsFit
<1> QED BY <1>1, LedgerInvariant, PTL

\* What an outcome reports is what the store holds, now and later.
THEOREM ReportedIsStoredHolds == Spec => []ReportedIsStored
<1>1. LedgerInv => ReportedIsStored
  BY DEF LedgerInv, CallFits, ReportedResults, ReportedFailures, ReportedIsStored
<1> QED BY <1>1, LedgerInvariant, PTL

\* A command that reports command_passed left a stored PASS, graded on its
\* Trace, for every selected Case, and recorded no failure.
THEOREM PassedMeansStoredHolds == Spec => []PassedMeansStored
<1>1. LedgerInv => PassedMeansStored
  <2> SUFFICES ASSUME LedgerInv, NEW c \in Calls, call[c].passed
               PROVE  /\ \A x \in ToSet(call[c].command.cases) :
                           LET k == KeyOf(call[c].command, x) IN
                           /\ results[k] # None /\ results[k].status = "PASS"
                           /\ [key |-> k, execution |-> results[k].origin] \in graded
                      /\ \A f \in failures : f.call # c
    BY DEF PassedMeansStored
  <2> DEFINE r == call[c]
  <2>1. /\ CallFits(c, r) /\ CallRecord(r) /\ r.pc = "finished" /\ CommandPassed(r)
        /\ r.command \in Commands
    BY DEF LedgerInv, CallFits, Selected, ReportedResults
  <2>2. \A f \in failures : f.call # c
    BY <2>1 DEF CallFits, ReportedFailures, CommandPassed
  <2>3. ASSUME NEW x \in ToSet(r.command.cases)
        PROVE  LET k == KeyOf(r.command, x) IN
               /\ results[k] # None /\ results[k].status = "PASS"
               /\ [key |-> k, execution |-> results[k].origin] \in graded
    <3> DEFINE k == KeyOf(r.command, x)
    <3>1. /\ x \in DOMAIN r.results /\ r.results[x].status = "PASS"
          /\ results[k] = r.results[x]
      BY <2>1 DEF CommandPassed, CallFits, ReportedResults
    <3>2. x \in Cases /\ r.results[x] \in ResultRecord
      BY <2>1, <3>1 DEF CallRecord, Dictionary
    <3>3. k \in Key
      BY <2>1, <3>2, KeyTyped
    <3> HIDE DEF k
    <3>4. Judged(k)
      BY <3>1, <3>2, NoneIsNoRecord DEF Judged
    <3> QED BY <3>1, <3>2, <3>3, <3>4, NoneIsNoRecord
            DEF k, LedgerInv, RecordsFit, EventOf
  <2> QED BY <2>2, <2>3
<1> QED BY <1>1, LedgerInvariant, PTL

-------------------------------------------------------------------------------
(* Refinement.                                                              *)

\* What a step does to the stored records: nothing, one graded event, one
\* judged result, or one NOT_RUN.
Writes ==
  \/ UNCHANGED <<graded, results>>
  \/ \E k \in Key, e \in Nat \ {0} :
       /\ \A g \in graded : g.key # k /\ g.execution # e
       /\ graded' = graded \cup {EventOf(k, e)} /\ UNCHANGED results
  \/ \E k \in Key, status \in {"PASS", "FAIL"}, e \in Nat :
       /\ results[k] = None /\ EventOf(k, e) \in graded
       /\ results' = [results EXCEPT ![k] = [status |-> status, origin |-> e]]
       /\ UNCHANGED graded
  \/ \E k \in Key, c \in Calls :
       /\ results[k] = None
       /\ results' = [results EXCEPT ![k] = NotRunRecord(c)]
       /\ UNCHANGED graded

LEMMA GradeWrites ==
  ASSUME LedgerInv, NEW c \in Calls, AppendGraded(c)
  PROVE  Writes
<1> DEFINE m == call[c].command
           x == m.cases[call[c].at]
           e == call[c].execution
           event == GradedEvent(c)
<1>1. /\ call[c].pc = "grading" /\ UNCHANGED results
      /\ \/ graded' = graded
         \/ GradedInsertable(event) /\ graded' = graded \cup {event}
  BY DEF AppendGraded, At, FailCase
<1>2. CallFits(c, call[c]) /\ KeyOf(m, x) \in Key
  BY <1>1, Working DEF Over
<1>3. /\ event = EventOf(KeyOf(m, x), e) /\ event.key = KeyOf(m, x)
      /\ event.execution = e /\ e \in DOMAIN executions
      /\ \A g \in graded : g.execution # e
  BY <1>1, <1>2 DEF CallFits, UngradedYet, GradedEvent, EventOf
<1>4. e \in Nat \ {0}
  <2>1. DOMAIN executions = 1..Len(executions) /\ Len(executions) \in Nat
    BY DEF LedgerInv, RecordsFit
  <2> HIDE DEF e
  <2> QED BY <1>3, <2>1
<1>5. GradedInsertable(event) => \A g \in graded : g.key # KeyOf(m, x)
  BY <1>3 DEF GradedInsertable
<1> HIDE DEF e, x, event
<1> QED BY <1>1, <1>2, <1>3, <1>4, <1>5 DEF Writes

LEMMA ResultWrites ==
  ASSUME LedgerInv, NEW c \in Calls, AppendResult(c)
  PROVE  Writes
<1> DEFINE m == call[c].command
           x(i) == m.cases[i]
           k(i) == KeyOf(m, x(i))
           record(i) == ResultOf(call[c].staged[x(i)])
<1>1. call[c].pc = "storing" /\ UNCHANGED graded
  BY DEF AppendResult, At
<1>2. PICK i \in ToStore(c) :
        \/ results' = results
        \/ /\ Storable(k(i), record(i))
           /\ results' = [results EXCEPT ![k(i)] = record(i)]
  BY DEF AppendResult
<1>3. /\ k(i) \in Key /\ record(i) \in ResultRecord
      /\ record(i).status \in {"PASS", "FAIL"}
      /\ EventOf(k(i), record(i).origin) \in graded
  BY <1>1, ToBeStored
<1> HIDE DEF k, record
<1>4. PICK status \in {"PASS", "FAIL"} : status = record(i).status
  BY <1>3
<1>5. PICK e : e = record(i).origin
  OBVIOUS
<1>6. /\ e \in Nat /\ EventOf(k(i), e) \in graded
      /\ record(i) = [status |-> status, origin |-> e]
  <2>1. EventOf(k(i), e) \in [key : Key, execution : Nat]
    BY <1>3, <1>5 DEF LedgerInv, RecordsFit
  <2> QED BY <1>3, <1>4, <1>5, <2>1 DEF ResultRecord, EventOf
<1>7. CASE results' = results
  BY <1>1, <1>7 DEF Writes
<1>8. CASE results[k(i)] = record(i) /\ results' = [results EXCEPT ![k(i)] = record(i)]
  <2>1. results' = results
    BY <1>3, <1>8 DEF LedgerInv, RecordsFit
  <2> QED BY <1>1, <2>1 DEF Writes
<1>9. CASE results[k(i)] = None /\ results' = [results EXCEPT ![k(i)] = record(i)]
  BY <1>1, <1>3, <1>6, <1>9 DEF Writes
<1> QED BY <1>2, <1>7, <1>8, <1>9 DEF Storable

LEMMA NotRunWrites ==
  ASSUME LedgerInv, NEW c \in Calls, AppendNotRun(c)
  PROVE  Writes
<1> DEFINE m == call[c].command
           k == KeyOf(m, m.cases[call[c].at])
           record == NotRunRecord(c)
           stored == [results EXCEPT ![k] = record]
<1>1. call[c].pc = "not_run" /\ UNCHANGED graded
  BY DEF AppendNotRun, At
<1>2. k \in Key
  BY <1>1, Working DEF Over
<1>3. \/ results' = results
      \/ results[k] \in {None, record} /\ results' = stored
  BY DEF AppendNotRun
<1> HIDE DEF k
<1>4. results[k] = record => stored = results
  BY <1>2 DEF LedgerInv, RecordsFit
<1> QED BY <1>1, <1>2, <1>3, <1>4 DEF Writes

LEMMA StepWrites == LedgerInv /\ [Next]_vars => Writes
<1> SUFFICES ASSUME LedgerInv, [Next]_vars PROVE Writes
  OBVIOUS
<1>1. ASSUME NEW c \in Calls, Step(c) PROVE Writes
  <2>1. CASE Refuse(c) \/ Stage(c) \/ Return(c) \/ Reload(c) \/ JoinPair(c) \/ Finish(c)
    BY <2>1
    DEF Refuse, Stage, Return, Reload, JoinPair, Finish, FailCase, store, Writes
  <2> QED BY <1>1, <2>1, GradeWrites, ResultWrites, NotRunWrites DEF Step
<1>2. ASSUME NEW c \in Calls, Cancel(c) PROVE Writes
  BY <1>2 DEF Cancel, store, Writes
<1>3. ASSUME NEW c \in Calls, NEW m \in Commands, Begin(c, m) PROVE Writes
  BY <1>3 DEF Begin, Writes
<1>4. ASSUME NEW h \in Harnesses, Crash(h) PROVE Writes
  BY <1>4 DEF Crash, store, Writes
<1>5. CASE UNCHANGED vars
  BY <1>5 DEF vars, store, Writes
<1> QED BY <1>1, <1>2, <1>3, <1>4, <1>5 DEF Next

\* The execution a key is graded on, when each key has at most one event.
LEMMA GradedOnIs ==
  ASSUME RecordsFit, NEW k
  PROVE  /\ \A e : EventOf(k, e) \in graded => GradedOn(k) = e
         /\ (\A g \in graded : g.key # k) => GradedOn(k) = None
         /\ GradedOn(k) # None => EventOf(k, GradedOn(k)) \in graded
<1>1. \A g \in graded : /\ g = EventOf(g.key, g.execution)
  BY DEF RecordsFit, EventOf
<1>2. CASE \A g \in graded : g.key # k
  BY <1>2 DEF GradedOn, EventOf
<1>3. CASE \E g \in graded : g.key = k
  <2>1. PICK g \in graded : g.key = k
    BY <1>3
  <2>2. \A other \in graded : other.key = k => other = g
    BY <2>1 DEF RecordsFit
  <2>3. (CHOOSE other \in graded : other.key = k) = g
    BY <2>1, <2>2
  <2>4. GradedOn(k) = g.execution
    BY <1>3, <2>3 DEF GradedOn
  <2>5. \A e : EventOf(k, e) \in graded => EventOf(k, e) = g
    BY <2>2 DEF EventOf
  <2> QED BY <1>1, <2>1, <2>4, <2>5 DEF EventOf
<1> QED BY <1>2, <1>3

\* The same facts of the next state.
LEMMA GradedOnNext ==
  ASSUME RecordsFit', NEW k
  PROVE  /\ \A e : EventOf(k, e) \in graded' => GradedOn(k)' = e
         /\ (\A g \in graded' : g.key # k) => GradedOn(k)' = None
<1>1. \A g \in graded' : /\ g = EventOf(g.key, g.execution)
  BY DEF RecordsFit, EventOf
<1>2. CASE \A g \in graded' : g.key # k
  BY <1>2 DEF GradedOn, EventOf
<1>3. CASE \E g \in graded' : g.key = k
  <2>1. PICK g \in graded' : g.key = k
    BY <1>3
  <2>2. \A other \in graded' : other.key = k => other = g
    BY <2>1 DEF RecordsFit
  <2>3. (CHOOSE other \in graded' : other.key = k) = g
    BY <2>1, <2>2
  <2>4. GradedOn(k)' = g.execution
    BY <1>3, <2>3 DEF GradedOn
  <2>5. \A e : EventOf(k, e) \in graded' => EventOf(k, e) = g
    BY <2>2 DEF EventOf
  <2> QED BY <1>1, <2>1, <2>4, <2>5 DEF EventOf
<1> QED BY <1>2, <1>3

\* The stored records implement EvalLedger: graded events and results are
\* inserted once and never change, and each result is bound to the Trace its key
\* was graded on, for any interleaving of commands and processes.
THEOREM ImplementsLedgerHolds == Spec => ImplementsLedger
<1> DEFINE on == [k \in Key |-> GradedOn(k)]
<1>1. Init => Ledger!Init
  BY DEF Init, Ledger!Init, GradedOn
<1>2. LedgerInv /\ LedgerInv' /\ [Next]_vars => [Ledger!Next]_(Ledger!ledger)
  <2> SUFFICES ASSUME LedgerInv, LedgerInv', [Next]_vars
               PROVE  Ledger!Next \/ (on' = on /\ results' = results)
    BY DEF Ledger!ledger
  <2>1. RecordsFit /\ RecordsFit'
    BY DEF LedgerInv
  <2>2. CASE UNCHANGED <<graded, results>>
    BY <2>2 DEF GradedOn
  <2>3. ASSUME NEW k \in Key, NEW e \in Nat \ {0},
               \A g \in graded : g.key # k /\ g.execution # e,
               graded' = graded \cup {EventOf(k, e)}, UNCHANGED results
        PROVE  Ledger!Grade(k)
    <3>1. on[k] = None
      BY <2>1, <2>3, GradedOnIs
    <3>2. \A other \in Key : on[other] # e
      <4> TAKE other \in Key
      <4>1. CASE GradedOn(other) = None
        BY <4>1, NoneIsNoRecord
      <4>2. CASE GradedOn(other) # None
        BY <2>1, <2>3, <4>2, GradedOnIs DEF EventOf
      <4> QED BY <4>1, <4>2
    <3>3. GradedOn(k)' = e
      <4>1. EventOf(k, e) \in graded'
        BY <2>3
      <4>2. \A f : EventOf(k, f) \in graded' => GradedOn(k)' = f
        BY <2>1, GradedOnNext
      <4> QED BY <4>1, <4>2
    <3>4. \A other \in Key \ {k} : GradedOn(other)' = GradedOn(other)
      <4> TAKE other \in Key \ {k}
      <4>1. /\ \A f : EventOf(other, f) \in graded => GradedOn(other) = f
            /\ (\A g \in graded : g.key # other) => GradedOn(other) = None
        BY <2>1, GradedOnIs
      <4>2. /\ \A f : EventOf(other, f) \in graded' => GradedOn(other)' = f
            /\ (\A g \in graded' : g.key # other) => GradedOn(other)' = None
        BY <2>1, GradedOnNext
      <4>3. CASE \E g \in graded : g.key = other
        <5>0. PICK g \in graded : g.key = other
          BY <4>3
        <5> DEFINE f == g.execution
        <5>1. EventOf(other, f) \in graded
          <6>1. g = EventOf(g.key, g.execution)
            BY <2>1 DEF RecordsFit, EventOf
          <6> QED BY <5>0, <6>1
        <5>2. EventOf(other, f) \in graded'
          BY <2>3, <5>1
        <5> QED BY <4>1, <4>2, <5>1, <5>2
      <4>4. CASE \A g \in graded : g.key # other
        <5>1. \A g \in graded' : g.key # other
          BY <2>3, <4>4 DEF EventOf
        <5> QED BY <4>1, <4>2, <4>4, <5>1
      <4> QED BY <4>3, <4>4
    <3>5. on' = [on EXCEPT ![k] = e] /\ on'[k] = e
      BY <3>3, <3>4
    <3> HIDE DEF on
    <3> QED BY <2>3, <3>1, <3>2, <3>5 DEF Ledger!Grade, on
  <2>4. ASSUME NEW k \in Key, NEW status \in {"PASS", "FAIL"}, NEW e \in Nat,
               results[k] = None, EventOf(k, e) \in graded,
               results' = [results EXCEPT ![k] = [status |-> status, origin |-> e]],
               UNCHANGED graded
        PROVE  Ledger!Judge(k)
    <3>1. GradedOn(k) = e /\ e # None
      BY <2>1, <2>4, GradedOnIs, NoneIsNoRecord
    <3> QED BY <2>4, <3>1 DEF Ledger!Judge, GradedOn
  <2>5. ASSUME NEW k \in Key, NEW c \in Calls, results[k] = None,
               results' = [results EXCEPT ![k] = NotRunRecord(c)], UNCHANGED graded
        PROVE  Ledger!Excuse(k)
    BY <2>5 DEF Ledger!Excuse, GradedOn, NotRunRecord
  <2>6. Writes
    BY StepWrites
  <2> QED BY <2>2, <2>3, <2>4, <2>5, <2>6 DEF Writes, Ledger!Next
<1> QED BY <1>1, <1>2, LedgerInvariant, PTL DEF Spec, ImplementsLedger, Ledger!Spec

-------------------------------------------------------------------------------
(* What a step does to the record of a command.                             *)

Staging == {"staging", "executing", "grading", "reloading"}
CaseOf(r) == r.command.cases[r.at]

\* The next Case of the selection is at hand.
GoesOn(r, n) ==
  /\ r.pc \in Staging /\ n.command = r.command /\ n.results = r.results
  /\ n.at = r.at + 1
  /\ n.pc = IF r.at < Len(r.command.cases) THEN "staging" ELSE "pairing"

\* A stage from the cache, or of an execution that was graded.
KnownStage(stage) ==
  \/ \E h \in Harnesses : \E rk \in DOMAIN cache[h] : stage = cache[h][rk]
  \/ /\ \E g \in graded : g.execution = stage.origin
     /\ SeenAsExecuted(stage)

Begins(r, n) ==
  /\ r.pc = "idle" /\ n.command \in Commands
  /\ DOMAIN n.staged = {} /\ DOMAIN n.results = {} /\ n.at = 1
  /\ \/ n.pc = "finished" /\ ~WellFormed(n.command)
     \/ n.pc = "not_run" /\ n.command.lane = "qwen_baseline" /\ ~n.command.ready
     \/ n.pc = "refusing" /\ Refused(n.command) # {}
     \/ n.pc = "staging" /\ n.failures = {}
Declines(r, n) ==
  r.pc \in {"refusing", "not_run"} /\ n.pc \in {r.pc, "finished"} /\ n.command = r.command
    /\ n.staged = r.staged
Waits(r, n) ==
  /\ r.pc \in Staging /\ n.pc \in Staging /\ n.command = r.command /\ n.at = r.at
  /\ n.staged = r.staged /\ n.results = r.results /\ n.failures = r.failures
Stages(r, n) ==
  /\ GoesOn(r, n) /\ n.failures = r.failures
  /\ \E stage \in StageRecord :
       KnownStage(stage) /\ n.staged = Put(r.staged, CaseOf(r), stage)
Fails(r, n) ==
  /\ GoesOn(r, n) /\ n.staged = r.staged
  /\ \E phase \in Phase : n.failures = r.failures \cup {<<CaseOf(r), phase>>}
Joins(r, n) ==
  LET have == Pair \cap DOMAIN r.staged IN
  /\ r.pc = "pairing" /\ n.pc = "storing" /\ n.at = 1
  /\ n.command = r.command /\ n.results = r.results
  /\ \/ /\ have \in {{}, Pair} /\ n.failures = r.failures
        /\ \/ /\ n.staged = r.staged
              /\ \A x, y \in have : r.staged[x].observable = r.staged[y].observable
           \/ n.staged = ForcedFail(r.staged)
     \/ /\ have # Pair /\ n.staged = Unstaged(r.staged, have)
        /\ \E x \in have, phase \in Phase : n.failures = r.failures \cup {<<x, phase>>}
Stores(c, r, n) ==
  /\ r.pc = "storing" /\ n.pc = "storing" /\ n.command = r.command /\ n.staged = r.staged
  /\ \E i \in ToStore(c) :
       /\ \A later \in ToStore(c) : i <= later
       /\ n.at = i + 1
       /\ \/ /\ n.failures = r.failures
             /\ \E record : n.results = Put(r.results, r.command.cases[i], record)
          \/ /\ n.results = r.results
             /\ \E phase \in Phase : n.failures = r.failures \cup {<<r.command.cases[i], phase>>}
Finishes(c, r, n) ==
  /\ r.pc = "storing" /\ ToStore(c) = {} /\ n.pc = "finished"
  /\ n.command = r.command /\ n.results = r.results /\ n.failures = r.failures

Moves(c, r, n) ==
  \/ n = r \/ n.pc \in {"aborted", "crashed"}
  \/ Begins(r, n) \/ Declines(r, n) \/ Waits(r, n) \/ Stages(r, n) \/ Fails(r, n)
  \/ Joins(r, n) \/ Stores(c, r, n) \/ Finishes(c, r, n)

\* Only the command that takes the step moves.
OnlyMoves(c) ==
  Moves(c, call[c], call'[c]) /\ \A e \in Calls \ {c} : call'[e] = call[e]

LEMMA Rewritten ==
  ASSUME LedgerInv, NEW c \in Calls, NEW r, call' = [call EXCEPT ![c] = r]
  PROVE  call'[c] = r /\ \A e \in Calls \ {c} : call'[e] = call[e]
  BY DEF LedgerInv

\* A failure ends the command or is reported beside what it goes on with.
LEMMA FailTells ==
  ASSUME LedgerInv, NEW c \in Calls, NEW x, NEW phase, NEW next, NEW spent,
         CallRecord(next), Fail(c, x, phase, next, spent)
  PROVE  /\ \A e \in Calls \ {c} : call'[e] = call[e]
         /\ LET n == call'[c] IN
            \/ n.pc = "aborted"
            \/ /\ n.failures = next.failures \cup {<<x, phase>>}
               /\ n.pc = next.pc /\ n.at = next.at /\ n.command = next.command
               /\ n.staged = next.staged /\ n.results = next.results
<1> DEFINE told == [next EXCEPT !.failures = @ \cup {<<x, phase>>}]
           broken == [next EXCEPT !.pc = "aborted"]
<1>1. /\ broken.pc = "aborted"
      /\ told.failures = next.failures \cup {<<x, phase>>}
      /\ told.pc = next.pc /\ told.at = next.at /\ told.command = next.command
      /\ told.staged = next.staged /\ told.results = next.results
  BY DEF CallRecord
<1>2. PICK r \in {told, broken} : call' = [call EXCEPT ![c] = r]
  BY DEF Fail, Becomes
<1>3. call'[c] = r /\ \A e \in Calls \ {c} : call'[e] = call[e]
  BY <1>2, Rewritten
<1> HIDE DEF told, broken
<1> QED BY <1>1, <1>2, <1>3

\* The fields of the next Case at hand.
LEMMA AdvanceGoesOn ==
  ASSUME NEW r, CallRecord(r), NEW n, n = Advance(r), r.at \in 1..Len(r.command.cases),
         Len(r.command.cases) \in Nat
  PROVE  /\ n.command = r.command /\ n.results = r.results /\ n.staged = r.staged
         /\ n.failures = r.failures /\ n.at = r.at + 1 /\ CallRecord(n)
         /\ n.pc = IF r.at < Len(r.command.cases) THEN "staging" ELSE "pairing"
<1> DEFINE p == IF r.at < Len(r.command.cases) THEN "staging" ELSE "pairing"
<1>1. n = [r EXCEPT !.at = r.at + 1, !.pc = p]
  BY DEF Advance
<1>2. p \in Point /\ r.at + 1 \in Nat \ {0}
  BY DEF Point
<1> HIDE DEF p
<1> QED BY <1>1, <1>2 DEF CallRecord, p

LEMMA FailCaseMoves ==
  ASSUME LedgerInv, NEW c \in Calls, call[c].pc \in Staging, NEW phase \in Phase, NEW spent,
         Fail(c, CaseOf(call[c]), phase, Advance(call[c]), spent)
  PROVE  OnlyMoves(c)
<1>1. PICK next : next = Advance(call[c])
  OBVIOUS
<1>2. /\ CallRecord(call[c]) /\ Len(call[c].command.cases) \in Nat
      /\ call[c].at \in 1..Len(call[c].command.cases)
  BY Working DEF Staging, Over
<1>3. /\ next.command = call[c].command /\ next.results = call[c].results
      /\ next.staged = call[c].staged /\ next.failures = call[c].failures
      /\ next.at = call[c].at + 1 /\ CallRecord(next)
      /\ next.pc = IF call[c].at < Len(call[c].command.cases) THEN "staging" ELSE "pairing"
  BY <1>1, <1>2, AdvanceGoesOn
<1>4. Fail(c, CaseOf(call[c]), phase, next, spent)
  BY <1>1
<1>5. PICK x : x = CaseOf(call[c])
  OBVIOUS
<1>6. /\ \A e \in Calls \ {c} : call'[e] = call[e]
      /\ \/ call'[c].pc = "aborted"
         \/ /\ call'[c].failures = next.failures \cup {<<x, phase>>}
            /\ call'[c].pc = next.pc /\ call'[c].at = next.at
            /\ call'[c].command = next.command
            /\ call'[c].staged = next.staged /\ call'[c].results = next.results
  BY <1>3, <1>4, <1>5, FailTells
<1>7. CASE call'[c].pc = "aborted"
  BY <1>6, <1>7 DEF OnlyMoves, Moves
<1>8. CASE call'[c].pc # "aborted"
  <2>1. GoesOn(call[c], call'[c])
    BY <1>3, <1>6, <1>8 DEF GoesOn
  <2>2. Fails(call[c], call'[c])
    BY <1>3, <1>5, <1>6, <1>8, <2>1 DEF Fails
  <2> QED BY <1>6, <2>2 DEF OnlyMoves, Moves
<1> QED BY <1>7, <1>8

\* A command that is rewritten in some fields and ends or waits.
LEMMA PlainMoves ==
  ASSUME LedgerInv, NEW c \in Calls, NEW r, call' = [call EXCEPT ![c] = r],
         Moves(c, call[c], r)
  PROVE  OnlyMoves(c)
<1>1. call'[c] = r /\ \A e \in Calls \ {c} : call'[e] = call[e]
  BY Rewritten
<1> QED BY <1>1 DEF OnlyMoves

LEMMA BeginMoves ==
  ASSUME LedgerInv, NEW c \in Calls, NEW m \in Commands, Begin(c, m)
  PROVE  OnlyMoves(c)
<1> DEFINE begun == [Idle EXCEPT !.command = m]
           to(pc) == /\ Becomes(c, [begun EXCEPT !.pc = pc])
                     /\ UNCHANGED <<failures, faults>>
<1>1. call[c].pc = "idle"
  BY DEF Begin, At
<1>2. \/ ~WellFormed(m) /\ Fail(c, None, "HARNESS_SETUP", [begun EXCEPT !.pc = "finished"], 0)
      \/ \E pc \in {"aborted", "not_run", "refusing", "staging"} :
           /\ to(pc)
           /\ pc = "not_run" => m.lane = "qwen_baseline" /\ ~m.ready
           /\ pc = "refusing" => Refused(m) # {}
  BY DEF Begin
<1>3. ASSUME NEW pc, NEW r, r = [begun EXCEPT !.pc = pc]
      PROVE  /\ r.pc = pc /\ r.command = m /\ r.at = 1 /\ r.failures = {}
             /\ DOMAIN r.staged = {} /\ DOMAIN r.results = {}
             /\ pc \in Point => CallRecord(r)
  <2>1. r = Begun(m, pc)
    BY <1>3, BegunIs
  <2>2. /\ r.pc = pc /\ r.command = m /\ r.at = 1 /\ r.failures = {}
        /\ r.staged = <<>> /\ r.results = <<>>
    BY <2>1 DEF Begun
  <2>3. /\ Dictionary(r.staged, Cases, StageRecord)
        /\ Dictionary(r.results, Cases, ResultRecord)
    BY <2>2, EmptyDictionary
  <2>4. pc \in Point => CallRecord(r)
    BY <2>1, <2>3 DEF CallRecord, Begun
  <2> QED BY <2>2, <2>4, EmptyDictionary
<1>4. CASE ~WellFormed(m) /\ Fail(c, None, "HARNESS_SETUP", [begun EXCEPT !.pc = "finished"], 0)
  <2>1. PICK r : r = [begun EXCEPT !.pc = "finished"]
    OBVIOUS
  <2>2. /\ r.pc = "finished" /\ r.command = m /\ r.at = 1
        /\ DOMAIN r.staged = {} /\ DOMAIN r.results = {} /\ CallRecord(r)
    BY <1>3, <2>1 DEF Point, Over
  <2>3. Fail(c, None, "HARNESS_SETUP", r, 0)
    BY <1>4, <2>1
  <2>4. /\ \A e \in Calls \ {c} : call'[e] = call[e]
        /\ \/ call'[c].pc = "aborted"
           \/ /\ call'[c].pc = r.pc /\ call'[c].at = r.at
              /\ call'[c].command = r.command
              /\ call'[c].staged = r.staged /\ call'[c].results = r.results
    BY <2>2, <2>3, FailTells
  <2>5. Moves(c, call[c], call'[c])
    BY <1>1, <1>4, <2>2, <2>4 DEF Moves, Begins
  <2> QED BY <2>4, <2>5 DEF OnlyMoves
<1>5. ASSUME NEW pc \in {"aborted", "not_run", "refusing", "staging"}, to(pc),
             pc = "not_run" => m.lane = "qwen_baseline" /\ ~m.ready,
             pc = "refusing" => Refused(m) # {}
      PROVE  OnlyMoves(c)
  <2>1. PICK r : r = [begun EXCEPT !.pc = pc]
    OBVIOUS
  <2>2. /\ r.pc = pc /\ r.command = m /\ r.at = 1 /\ r.failures = {}
        /\ DOMAIN r.staged = {} /\ DOMAIN r.results = {}
    BY <1>3, <2>1
  <2>3. Moves(c, call[c], r)
    BY <1>1, <1>5, <2>2 DEF Moves, Begins
  <2>4. call' = [call EXCEPT ![c] = r]
    BY <1>5, <2>1 DEF Becomes
  <2> QED BY <2>3, <2>4, PlainMoves
<1> QED BY <1>2, <1>4, <1>5

LEMMA RefuseMoves ==
  ASSUME LedgerInv, NEW c \in Calls, Refuse(c)
  PROVE  OnlyMoves(c)
<1> DEFINE m == call[c].command
           left(i) == {j \in i..Len(m.cases) : m.cases[j] \in Refused(m)}
           next(i) == [call[c] EXCEPT
                         !.at = i + 1,
                         !.pc = IF left(i + 1) # {} THEN "refusing" ELSE "finished"]
<1>1. call[c].pc = "refusing"
  BY DEF Refuse, At
<1>2. PICK i \in left(call[c].at) : Fail(c, m.cases[i], RefusalPhase(m), next(i), 0)
  BY DEF Refuse
<1>3. CallRecord(call[c]) /\ Len(m.cases) \in Nat
  BY <1>1, Working DEF Over
<1>4. PICK r : r = next(i)
  OBVIOUS
<1>5. PICK pc \in {"refusing", "finished"} :
        r = [call[c] EXCEPT !.at = i + 1, !.pc = pc]
  BY <1>4
<1>6. CallRecord(r) /\ r.pc = pc /\ r.command = m /\ r.staged = call[c].staged
  <2>1. pc \in Point /\ i + 1 \in Nat \ {0}
    BY <1>3 DEF Point, Over, CallRecord
  <2> QED BY <1>3, <1>5, <2>1 DEF CallRecord
<1>7. Fail(c, m.cases[i], RefusalPhase(m), r, 0)
  BY <1>2, <1>4
<1>8. /\ \A e \in Calls \ {c} : call'[e] = call[e]
      /\ \/ call'[c].pc = "aborted"
         \/ call'[c].pc = r.pc /\ call'[c].command = r.command /\ call'[c].staged = r.staged
  BY <1>6, <1>7, FailTells
<1>9. Moves(c, call[c], call'[c])
  BY <1>1, <1>6, <1>8 DEF Moves, Declines
<1> QED BY <1>8, <1>9 DEF OnlyMoves

LEMMA AppendNotRunMoves ==
  ASSUME LedgerInv, NEW c \in Calls, AppendNotRun(c)
  PROVE  OnlyMoves(c)
<1> DEFINE m == call[c].command
           x == m.cases[call[c].at]
           pc == IF call[c].at < Len(m.cases) THEN "not_run" ELSE "finished"
           kept == [call[c] EXCEPT !.at = @ + 1,
                                   !.results = Put(@, x, NotRunRecord(c)), !.pc = pc]
           abort == [call[c] EXCEPT !.pc = "aborted"]
<1>1. /\ call[c].pc = "not_run"
      /\ Becomes(c, kept) \/ Becomes(c, abort)
  BY DEF AppendNotRun, At
<1>2. CallRecord(call[c])
  BY <1>1, Working DEF Over
<1>3. PICK r \in {kept, abort} : call' = [call EXCEPT ![c] = r]
  BY <1>1 DEF Becomes
<1>4. /\ kept.pc = pc /\ kept.command = m /\ kept.staged = call[c].staged
      /\ abort.pc = "aborted"
  <2> HIDE DEF pc, x
  <2> QED BY <1>2 DEF CallRecord
<1>5. pc \in {"not_run", "finished"}
  OBVIOUS
<1> HIDE DEF kept, abort, pc
<1>6. Moves(c, call[c], r)
  BY <1>1, <1>3, <1>4, <1>5 DEF Moves, Declines
<1> QED BY <1>3, <1>6, PlainMoves

\* A Case that is staged, and the next one.
LEMMA StagedMoves ==
  ASSUME LedgerInv, NEW c \in Calls, call[c].pc \in Staging, NEW stage \in StageRecord,
         KnownStage(stage),
         Becomes(c, Advance([call[c] EXCEPT !.staged = Put(@, CaseOf(call[c]), stage)]))
  PROVE  OnlyMoves(c)
<1>1. /\ CallRecord(call[c]) /\ Len(call[c].command.cases) \in Nat
      /\ call[c].at \in 1..Len(call[c].command.cases)
      /\ CaseOf(call[c]) \in Cases
  BY Working DEF Staging, Over, CaseOf
<1>2. PICK p : p = [call[c] EXCEPT !.staged = Put(@, CaseOf(call[c]), stage)]
  OBVIOUS
<1>3. /\ p.pc = call[c].pc /\ p.command = call[c].command /\ p.at = call[c].at
      /\ p.failures = call[c].failures /\ p.results = call[c].results
      /\ p.staged = Put(call[c].staged, CaseOf(call[c]), stage)
  BY <1>1, <1>2 DEF CallRecord
<1>4. CallRecord(p)
  <2>1. Dictionary(p.staged, Cases, StageRecord)
    BY <1>1, <1>3, PutTyped DEF CallRecord
  <2> QED BY <1>1, <1>2, <1>3, <2>1 DEF CallRecord
<1>5. PICK n : n = Advance(p)
  OBVIOUS
<1>6. p.at \in 1..Len(p.command.cases) /\ Len(p.command.cases) \in Nat
  BY <1>1, <1>3
<1>7. /\ n.command = p.command /\ n.results = p.results /\ n.staged = p.staged
      /\ n.failures = p.failures /\ n.at = p.at + 1
      /\ n.pc = IF p.at < Len(p.command.cases) THEN "staging" ELSE "pairing"
  BY <1>4, <1>5, <1>6, AdvanceGoesOn
<1>8. GoesOn(call[c], n)
  BY <1>3, <1>7 DEF GoesOn
<1>9. Stages(call[c], n)
  BY <1>3, <1>7, <1>8 DEF Stages
<1>10. call' = [call EXCEPT ![c] = n]
  BY <1>2, <1>5 DEF Becomes
<1> QED BY <1>9, <1>10, PlainMoves DEF Moves

LEMMA StageMoves ==
  ASSUME LedgerInv, NEW c \in Calls, Stage(c)
  PROVE  OnlyMoves(c)
<1> DEFINE m == call[c].command
           x == m.cases[call[c].at]
           h == HarnessOf[c]
           rk == ReplayKey(m, x)
<1>1. call[c].pc = "staging" /\ call[c].pc \in Staging /\ x = CaseOf(call[c])
  BY DEF Stage, At, Staging, CaseOf
<1>2. CallRecord(call[c]) /\ h \in Harnesses
  BY <1>1, Working, HarnessAssumption DEF Over
<1>3. CASE /\ rk \in DOMAIN cache[h]
           /\ Becomes(c, Advance([call[c] EXCEPT !.staged = Put(@, x, cache[h][rk])]))
  <2>1. cache[h][rk] \in StageRecord
    BY <1>2, <1>3 DEF LedgerInv, RecordsFit
  <2>2. PICK stage \in StageRecord : stage = cache[h][rk]
    BY <2>1
  <2>3. KnownStage(stage)
    BY <1>2, <1>3, <2>2 DEF KnownStage
  <2>4. Becomes(c, Advance([call[c] EXCEPT !.staged = Put(@, CaseOf(call[c]), stage)]))
    BY <1>1, <1>3, <2>2
  <2> QED BY <1>1, <2>3, <2>4, StagedMoves
<1>4. CASE \E phase \in {"CASE_SETUP", "RESULT_COMPLETENESS"}, spent \in {0, 1} :
             FailCase(c, x, phase, spent)
  <2>1. PICK phase \in Phase, spent \in {0, 1} : FailCase(c, x, phase, spent)
    BY <1>4 DEF Phase
  <2>2. Fail(c, CaseOf(call[c]), phase, Advance(call[c]), spent)
    BY <1>1, <2>1 DEF FailCase
  <2> QED BY <1>1, <2>2, FailCaseMoves
<1>5. CASE Becomes(c, [call[c] EXCEPT !.pc = "executing",
                                      !.execution = Len(executions) + 1])
  <2>1. PICK r : r = [call[c] EXCEPT !.pc = "executing", !.execution = Len(executions) + 1]
    OBVIOUS
  <2>2. /\ r.pc = "executing" /\ r.command = m /\ r.at = call[c].at
        /\ r.staged = call[c].staged /\ r.results = call[c].results
        /\ r.failures = call[c].failures
    BY <1>2, <2>1 DEF CallRecord
  <2>3. Moves(c, call[c], r)
    BY <1>1, <2>2 DEF Moves, Waits, Staging
  <2>4. call' = [call EXCEPT ![c] = r]
    BY <1>5, <2>1 DEF Becomes
  <2> QED BY <2>3, <2>4, PlainMoves
<1> QED BY <1>3, <1>4, <1>5 DEF Stage

LEMMA ReturnMoves ==
  ASSUME LedgerInv, NEW c \in Calls, Return(c)
  PROVE  OnlyMoves(c)
<1> DEFINE x == call[c].command.cases[call[c].at]
<1>1. call[c].pc \in Staging /\ call[c].pc = "executing" /\ x = CaseOf(call[c])
  BY DEF Return, At, Staging, CaseOf
<1>2. CallRecord(call[c])
  BY <1>1, Working DEF Over
<1>3. \/ \E e : Becomes(c, [call[c] EXCEPT !.pc = "grading", !.evidence = e])
      \/ \E phase \in Phase, spent \in {1} : Fail(c, x, phase, Advance(call[c]), spent)
  BY DEF Return, FailCase, Phase
<1>4. CASE \E e : Becomes(c, [call[c] EXCEPT !.pc = "grading", !.evidence = e])
  <2>1. PICK e : Becomes(c, [call[c] EXCEPT !.pc = "grading", !.evidence = e])
    BY <1>4
  <2>2. PICK r : r = [call[c] EXCEPT !.pc = "grading", !.evidence = e]
    OBVIOUS
  <2>3. /\ r.pc = "grading" /\ r.command = call[c].command /\ r.at = call[c].at
        /\ r.staged = call[c].staged /\ r.results = call[c].results
        /\ r.failures = call[c].failures
    BY <1>2, <2>2 DEF CallRecord
  <2>4. Moves(c, call[c], r)
    BY <1>1, <2>3 DEF Moves, Waits, Staging
  <2>5. call' = [call EXCEPT ![c] = r]
    BY <2>1, <2>2 DEF Becomes
  <2> QED BY <2>4, <2>5, PlainMoves
<1>5. CASE \E phase \in Phase, spent \in {1} : Fail(c, x, phase, Advance(call[c]), spent)
  BY <1>1, <1>5, FailCaseMoves
<1> QED BY <1>3, <1>4, <1>5

LEMMA AppendGradedMoves ==
  ASSUME LedgerInv, NEW c \in Calls, AppendGraded(c)
  PROVE  OnlyMoves(c)
<1> DEFINE x == GradedEvent(c).key.case
<1>1. call[c].pc \in Staging /\ call[c].pc = "grading" /\ x = CaseOf(call[c])
  BY DEF AppendGraded, At, Staging, CaseOf, GradedEvent, KeyOf
<1>2. CallRecord(call[c])
  BY <1>1, Working DEF Over
<1>3. \/ Becomes(c, [call[c] EXCEPT !.pc = "reloading"])
      \/ \E phase \in Phase, spent \in {0, 1} : Fail(c, x, phase, Advance(call[c]), spent)
  BY DEF AppendGraded, FailCase, Phase
<1>4. CASE Becomes(c, [call[c] EXCEPT !.pc = "reloading"])
  <2>1. PICK r : r = [call[c] EXCEPT !.pc = "reloading"]
    OBVIOUS
  <2>2. /\ r.pc = "reloading" /\ r.command = call[c].command /\ r.at = call[c].at
        /\ r.staged = call[c].staged /\ r.results = call[c].results
        /\ r.failures = call[c].failures
    BY <1>2, <2>1 DEF CallRecord
  <2>3. Moves(c, call[c], r)
    BY <1>1, <2>2 DEF Moves, Waits, Staging
  <2>4. call' = [call EXCEPT ![c] = r]
    BY <1>4, <2>1 DEF Becomes
  <2> QED BY <2>3, <2>4, PlainMoves
<1>5. CASE \E phase \in Phase, spent \in {0, 1} : Fail(c, x, phase, Advance(call[c]), spent)
  BY <1>1, <1>5, FailCaseMoves
<1> QED BY <1>3, <1>4, <1>5

LEMMA ReloadMoves ==
  ASSUME LedgerInv, NEW c \in Calls, Reload(c)
  PROVE  OnlyMoves(c)
<1> DEFINE event == GradedEvent(c)
           x == event.key.case
           observed == executions[event.execution].observable
           stage(status) == [status |-> status, origin |-> event.execution,
                             observable |-> observed]
<1>1. /\ call[c].pc \in Staging /\ call[c].pc = "reloading" /\ x = CaseOf(call[c])
      /\ event.execution = call[c].evidence
      /\ event = EventOf(KeyOf(call[c].command, CaseOf(call[c])), call[c].evidence)
  BY DEF Reload, At, Staging, CaseOf, GradedEvent, KeyOf, EventOf
<1>2. CallFits(c, call[c]) /\ CallRecord(call[c])
  BY <1>1, Working DEF Over
<1>3. event \in graded /\ event.execution \in Nat
  BY <1>1, <1>2 DEF CallFits, UngradedYet, CaseOf, CallRecord
<1>4. \/ \E status \in {"PASS", "FAIL"} :
           Becomes(c, Advance([call[c] EXCEPT !.staged = Put(@, x, stage(status))]))
      \/ \E phase \in Phase, spent \in {0, 1} : Fail(c, x, phase, Advance(call[c]), spent)
  BY DEF Reload, FailCase, Phase
<1>5. ASSUME NEW status \in {"PASS", "FAIL"},
             Becomes(c, Advance([call[c] EXCEPT !.staged = Put(@, x, stage(status))]))
      PROVE  OnlyMoves(c)
  <2>1. observed \in Observables \cup {None}
    <3>1. executions \in Seq(ExecutionRecord) /\ event.execution \in DOMAIN executions
      BY <1>3 DEF LedgerInv, RecordsFit
    <3>2. executions[event.execution] \in ExecutionRecord
      BY <3>1, ElementOfSeq
    <3> QED BY <3>2 DEF ExecutionRecord
  <2>2. stage(status) \in StageRecord
    <3> HIDE DEF event, observed
    <3> QED BY <1>3, <2>1 DEF StageRecord
  <2>3. PICK s \in StageRecord : s = stage(status)
    BY <2>2
  <2>4. s.origin = event.execution /\ s.observable = executions[event.execution].observable
    BY <2>3
  <2>5. KnownStage(s)
    BY <1>3, <2>4 DEF KnownStage, SeenAsExecuted
  <2>6. Becomes(c, Advance([call[c] EXCEPT !.staged = Put(@, CaseOf(call[c]), s)]))
    BY <1>1, <1>5, <2>3
  <2> QED BY <1>1, <2>5, <2>6, StagedMoves
<1>6. CASE \E phase \in Phase, spent \in {0, 1} : Fail(c, x, phase, Advance(call[c]), spent)
  BY <1>1, <1>6, FailCaseMoves
<1> QED BY <1>4, <1>5, <1>6

LEMMA JoinPairMoves ==
  ASSUME LedgerInv, NEW c \in Calls, JoinPair(c)
  PROVE  OnlyMoves(c)
<1> DEFINE staged == call[c].staged
           have == Pair \cap DOMAIN staged
           alike == \A x, y \in have : staged[x].observable = staged[y].observable
<1>1. call[c].pc = "pairing"
  BY DEF JoinPair, At
<1>2. CallRecord(call[c]) /\ Dictionary(staged, Cases, StageRecord)
  BY <1>1, Working DEF Over, CallRecord
<1>3. ASSUME NEW s, NEW r, r = Storing(call[c], s)
      PROVE  /\ r.pc = "storing" /\ r.at = 1 /\ r.command = call[c].command
             /\ r.staged = s /\ r.results = call[c].results
             /\ r.failures = call[c].failures
             /\ Dictionary(s, Cases, StageRecord) => CallRecord(r)
  <2>1. /\ r.pc = "storing" /\ r.at = 1 /\ r.command = call[c].command
        /\ r.staged = s /\ r.results = call[c].results
        /\ r.failures = call[c].failures
    BY <1>2, <1>3 DEF CallRecord, Storing
  <2>2. "storing" \in Point /\ 1 \in Nat \ {0}
    BY DEF Point
  <2>3. Dictionary(s, Cases, StageRecord) => CallRecord(r)
    BY <1>2, <1>3, <2>1, <2>2 DEF CallRecord, Storing
  <2> QED BY <2>1, <2>3
<1>4. CASE /\ have \in {{}, Pair}
           /\ Becomes(c, Storing(call[c], IF alike THEN staged ELSE ForcedFail(staged)))
  <2>1. PICK s \in {staged, ForcedFail(staged)} :
          /\ s = staged => alike \/ staged = ForcedFail(staged)
          /\ Becomes(c, Storing(call[c], s))
    <3> HIDE DEF alike, staged, have
    <3> QED BY <1>4
  <2>2. PICK r : r = Storing(call[c], s)
    OBVIOUS
  <2>3. /\ r.pc = "storing" /\ r.at = 1 /\ r.command = call[c].command
        /\ r.staged = s /\ r.results = call[c].results
        /\ r.failures = call[c].failures
    BY <1>3, <2>2
  <2>4. Joins(call[c], r)
    BY <1>1, <1>4, <2>1, <2>3 DEF Joins
  <2>5. call' = [call EXCEPT ![c] = r]
    BY <2>1, <2>2 DEF Becomes
  <2> QED BY <2>4, <2>5, PlainMoves DEF Moves
<1>5. ASSUME NEW x \in have, have # Pair,
             Fail(c, x, "RESULT_COMPLETENESS", Storing(call[c], Unstaged(staged, have)), 0)
      PROVE  OnlyMoves(c)
  <2>1. PICK s : s = Unstaged(staged, have)
    OBVIOUS
  <2>2. Dictionary(s, Cases, StageRecord)
    BY <1>2, <2>1 DEF Dictionary, Unstaged
  <2>3. PICK r : r = Storing(call[c], s)
    OBVIOUS
  <2>4. /\ r.pc = "storing" /\ r.at = 1 /\ r.command = call[c].command
        /\ r.staged = s /\ r.results = call[c].results
        /\ r.failures = call[c].failures /\ CallRecord(r)
    BY <1>3, <2>2, <2>3
  <2>5. Fail(c, x, "RESULT_COMPLETENESS", r, 0) /\ "RESULT_COMPLETENESS" \in Phase
    BY <1>5, <2>1, <2>3 DEF Phase
  <2>6. PICK phase \in Phase : Fail(c, x, phase, r, 0)
    BY <2>5
  <2>7. /\ \A e \in Calls \ {c} : call'[e] = call[e]
        /\ \/ call'[c].pc = "aborted"
           \/ /\ call'[c].failures = r.failures \cup {<<x, phase>>}
              /\ call'[c].pc = r.pc /\ call'[c].at = r.at
              /\ call'[c].command = r.command
              /\ call'[c].staged = r.staged /\ call'[c].results = r.results
    BY <2>4, <2>6, FailTells
  <2>8. call'[c].pc # "aborted" => Joins(call[c], call'[c])
    BY <1>1, <1>5, <2>1, <2>4, <2>7 DEF Joins
  <2> QED BY <2>7, <2>8 DEF OnlyMoves, Moves
<1>6. \/ /\ have \in {{}, Pair}
         /\ Becomes(c, Storing(call[c], IF alike THEN staged ELSE ForcedFail(staged)))
      \/ \E x \in have :
           /\ have # Pair
           /\ Fail(c, x, "RESULT_COMPLETENESS", Storing(call[c], Unstaged(staged, have)), 0)
  BY DEF JoinPair, Storing
<1> HIDE DEF have, staged, alike
<1> QED BY <1>4, <1>5, <1>6

LEMMA AppendResultMoves ==
  ASSUME LedgerInv, NEW c \in Calls, AppendResult(c)
  PROVE  OnlyMoves(c)
<1> DEFINE m == call[c].command
           x(i) == m.cases[i]
           record(i) == ResultOf(call[c].staged[x(i)])
           next(i) == [call[c] EXCEPT !.at = i + 1]
<1>1. call[c].pc = "storing"
  BY DEF AppendResult, At
<1>2. PICK i \in ToStore(c) :
        /\ \A later \in ToStore(c) : i <= later
        /\ \/ Becomes(c, [next(i) EXCEPT !.results = Put(@, x(i), record(i))])
           \/ \E spent \in {0, 1} : Fail(c, x(i), "RESULT_PERSISTENCE", next(i), spent)
  BY DEF AppendResult
<1>3. CallRecord(call[c]) /\ i + 1 \in Nat \ {0}
  BY <1>1, Working, ToBeStored DEF Over
<1>4. CASE Becomes(c, [next(i) EXCEPT !.results = Put(@, x(i), record(i))])
  <2>1. PICK r : r = [next(i) EXCEPT !.results = Put(@, x(i), record(i))]
    OBVIOUS
  <2>2. call' = [call EXCEPT ![c] = r]
    BY <1>4, <2>1 DEF Becomes
  <2>3. /\ r.pc = "storing" /\ r.command = m /\ r.at = i + 1
        /\ r.staged = call[c].staged /\ r.failures = call[c].failures
        /\ r.results = Put(call[c].results, x(i), record(i))
    <3> HIDE DEF x, record
    <3> QED BY <1>1, <1>3, <2>1 DEF CallRecord
  <2>4. Stores(c, call[c], r)
    <3>1. PICK result : result = record(i)
      OBVIOUS
    <3>2. r.results = Put(call[c].results, call[c].command.cases[i], result)
      BY <2>3, <3>1
    <3> HIDE DEF x, record
    <3> QED BY <1>1, <1>2, <2>3, <3>2 DEF Stores
  <2> QED BY <2>2, <2>4, PlainMoves DEF Moves
<1>5. CASE \E spent \in {0, 1} : Fail(c, x(i), "RESULT_PERSISTENCE", next(i), spent)
  <2>1. PICK r : r = next(i)
    OBVIOUS
  <2>2. PICK phase \in Phase, spent \in {0, 1} : Fail(c, x(i), phase, r, spent)
    BY <1>5, <2>1 DEF Phase
  <2>3. /\ r.pc = "storing" /\ r.command = m /\ r.at = i + 1
        /\ r.staged = call[c].staged /\ r.failures = call[c].failures
        /\ r.results = call[c].results
    BY <1>1, <1>3, <2>1 DEF CallRecord
  <2>4. CallRecord(r)
    BY <1>3, <2>1, <2>3 DEF CallRecord
  <2>5. PICK y : y = x(i)
    OBVIOUS
  <2>6. Fail(c, y, phase, r, spent)
    BY <2>2, <2>5
  <2>7. /\ \A e \in Calls \ {c} : call'[e] = call[e]
        /\ \/ call'[c].pc = "aborted"
           \/ /\ call'[c].failures = r.failures \cup {<<y, phase>>}
              /\ call'[c].pc = r.pc /\ call'[c].at = r.at
              /\ call'[c].command = r.command
              /\ call'[c].staged = r.staged /\ call'[c].results = r.results
    BY <2>4, <2>6, FailTells
  <2>8. call'[c].pc # "aborted" => Stores(c, call[c], call'[c])
    <3> y = call[c].command.cases[i]
      BY <2>5
    <3> HIDE DEF x, record, next
    <3> QED BY <1>1, <1>2, <2>3, <2>7 DEF Stores
  <2> QED BY <2>7, <2>8 DEF OnlyMoves, Moves
<1> QED BY <1>2, <1>4, <1>5

LEMMA FinishMoves ==
  ASSUME LedgerInv, NEW c \in Calls, Finish(c)
  PROVE  OnlyMoves(c)
<1>1. call[c].pc = "storing" /\ ToStore(c) = {}
  BY DEF Finish, At
<1>2. CallRecord(call[c])
  BY <1>1, Working DEF Over
<1>3. PICK passed : passed = CommandPassed(call[c])
  OBVIOUS
<1>4. PICK r : r = [call[c] EXCEPT !.pc = "finished", !.passed = passed]
  OBVIOUS
<1>5. /\ r.pc = "finished" /\ r.command = call[c].command
      /\ r.results = call[c].results /\ r.failures = call[c].failures
  BY <1>2, <1>4 DEF CallRecord
<1>6. call' = [call EXCEPT ![c] = r]
  BY <1>3, <1>4 DEF Finish, Becomes
<1>7. Moves(c, call[c], r)
  BY <1>1, <1>5 DEF Moves, Finishes
<1> QED BY <1>6, <1>7, PlainMoves

LEMMA CancelMoves ==
  ASSUME LedgerInv, NEW c \in Calls, Cancel(c)
  PROVE  OnlyMoves(c)
<1>1. call[c].pc = "executing"
  BY DEF Cancel, At
<1>2. CallRecord(call[c])
  BY <1>1, Working DEF Over
<1>3. PICK r : r = [call[c] EXCEPT !.pc = "aborted"]
  OBVIOUS
<1>4. r.pc = "aborted" /\ call' = [call EXCEPT ![c] = r]
  BY <1>2, <1>3 DEF CallRecord, Cancel, Becomes
<1> QED BY <1>4, PlainMoves DEF Moves

\* Whatever is done next, each command moves in one of these ways.
LEMMA StepMoves ==
  ASSUME LedgerInv, [Next]_vars, NEW c \in Calls
  PROVE  Moves(c, call[c], call'[c])
<1>1. ASSUME NEW e \in Calls, OnlyMoves(e) PROVE Moves(c, call[c], call'[c])
  BY <1>1 DEF OnlyMoves, Moves
<1>2. ASSUME NEW e \in Calls, Step(e) PROVE OnlyMoves(e)
  BY <1>2, RefuseMoves, AppendNotRunMoves, StageMoves, ReturnMoves, AppendGradedMoves,
     ReloadMoves, JoinPairMoves, AppendResultMoves, FinishMoves DEF Step
<1>3. ASSUME NEW e \in Calls, Cancel(e) \/ \E m \in Commands : Begin(e, m) PROVE OnlyMoves(e)
  BY <1>3, CancelMoves, BeginMoves
<1>4. ASSUME NEW h \in Harnesses, Crash(h) PROVE Moves(c, call[c], call'[c])
  <2>1. \/ call'[c] = call[c]
        \/ /\ call[c].pc \notin Over \cup {"idle"}
           /\ call'[c] = [call[c] EXCEPT !.pc = "crashed"]
    BY <1>4 DEF Crash
  <2>2. CASE call'[c] = call[c]
    BY <2>2 DEF Moves
  <2>3. CASE /\ call[c].pc \notin Over \cup {"idle"}
             /\ call'[c] = [call[c] EXCEPT !.pc = "crashed"]
    <3>1. CallRecord(call[c])
      BY <2>3, Working
    <3>2. call'[c].pc = "crashed"
      BY <2>3, <3>1 DEF CallRecord
    <3> QED BY <3>2 DEF Moves
  <2> QED BY <2>1, <2>2, <2>3
<1>5. CASE UNCHANGED vars
  BY <1>5 DEF vars, Moves
<1> QED BY <1>1, <1>2, <1>3, <1>4, <1>5 DEF Next

-------------------------------------------------------------------------------
(* Each Case of a selection is accounted for once.                          *)

\* No Case is selected at two positions.
LEMMA CasesAreDistinct ==
  ASSUME NEW m \in Commands, WellFormed(m), NEW i \in 1..Len(m.cases),
         NEW j \in 1..Len(m.cases), m.cases[i] = m.cases[j]
  PROVE  i = j
<1> DEFINE S == 1..Len(m.cases)
           T == ToSet(m.cases)
           f == [p \in S |-> m.cases[p]]
<1>1. /\ Len(m.cases) \in Nat /\ DOMAIN m.cases = S
      /\ Cardinality(T) = Len(m.cases)
  BY HarnessAssumption DEF WellFormed
<1>2. IsFiniteSet(S) /\ Cardinality(S) = Len(m.cases)
  <2>1. 1 \in Int /\ Len(m.cases) \in Int
    BY <1>1
  <2>2. /\ IsFiniteSet(1..Len(m.cases))
        /\ Cardinality(1..Len(m.cases)) =
             IF 1 > Len(m.cases) THEN 0 ELSE Len(m.cases) - 1 + 1
    BY <2>1, FS_Interval
  <2> QED BY <1>1, <2>2
<1>3. T = {m.cases[p] : p \in S}
  BY <1>1 DEF ToSet
<1>4. f \in Surjection(S, T)
  BY <1>3 DEF Surjection
<1>5. f \in Injection(S, T)
  <2> HIDE DEF f, S, T
  <2> QED BY <1>1, <1>2, <1>4, FS_SurjSameCardinalityImpliesInj
<1>6. f[i] = f[j]
  OBVIOUS
<1> HIDE DEF f
<1> QED BY <1>5, <1>6 DEF Injection, IsInjective

\* The failures of the other Cases stay as they are.
OneMore(r, n, x, phase) ==
  /\ \A y : y # x => FailuresOf(n, y) = FailuresOf(r, y)
  /\ FailuresOf(r, x) = {} => FailuresOf(n, x) = {<<x, phase>>}

LEMMA OneMoreFailure ==
  ASSUME NEW r, NEW n, NEW x, NEW phase, n.failures = r.failures \cup {<<x, phase>>}
  PROVE  OneMore(r, n, x, phase)
  BY DEF OneMore, FailuresOf

\* Neither is a Case settled otherwise as long as its failures and its place
\* among the kept ones do not change.
LEMMA SettledStays ==
  ASSUME NEW r, NEW n, NEW x, FailuresOf(n, x) = FailuresOf(r, x),
         NEW kept, NEW kept2, x \in kept2 <=> x \in kept, Settled(r, x, kept)
  PROVE  Settled(n, x, kept2)
  BY DEF Settled

\* The Case at hand is staged or fails, and the next one is at hand.
LEMMA AccountedGoesOn ==
  ASSUME NEW r, NEW n, r.command \in Commands, WellFormed(r.command),
         r.at \in 1..Len(r.command.cases), AccountedWhileStaging(r), GoesOn(r, n),
         NEW x, x = CaseOf(r),
         \A y : y # x => /\ y \in DOMAIN n.staged <=> y \in DOMAIN r.staged
                         /\ FailuresOf(n, y) = FailuresOf(r, y),
         FailuresOf(r, x) = {} /\ x \notin DOMAIN r.staged =>
           Settled(n, x, DOMAIN n.staged)
  PROVE  Accounted(n)
<1>1. /\ Len(r.command.cases) \in Nat /\ n.command = r.command /\ n.at = r.at + 1
      /\ n.results = r.results
      /\ n.pc = IF r.at < Len(r.command.cases) THEN "staging" ELSE "pairing"
  BY FirstCase DEF GoesOn
<1>2. ASSUME NEW i \in 1..Len(r.command.cases)
      PROVE  LET y == r.command.cases[i] IN
             IF i < r.at + 1 THEN Settled(n, y, DOMAIN n.staged)
             ELSE y \notin DOMAIN n.staged /\ FailuresOf(n, y) = {}
  <2> DEFINE y == r.command.cases[i]
  <2>1. IF i < r.at THEN Settled(r, y, DOMAIN r.staged)
        ELSE y \notin DOMAIN r.staged /\ FailuresOf(r, y) = {}
    BY <1>2 DEF AccountedWhileStaging
  <2>2. CASE i = r.at
    <3>1. y = x
      BY <2>2 DEF CaseOf
    <3> HIDE DEF y
    <3>2. Settled(n, y, DOMAIN n.staged)
      BY <2>1, <2>2, <3>1
    <3> QED BY <2>2, <3>2 DEF y
  <2>3. CASE i # r.at
    <3>1. y # x
      BY <2>3, CasesAreDistinct DEF CaseOf
    <3> HIDE DEF y
    <3>2. /\ y \in DOMAIN n.staged <=> y \in DOMAIN r.staged
          /\ FailuresOf(n, y) = FailuresOf(r, y)
      BY <3>1
    <3>3. CASE i < r.at
      BY <1>1, <2>1, <3>2, <3>3, SettledStays DEF y
    <3>4. CASE ~(i < r.at)
      BY <1>1, <2>1, <2>3, <3>2, <3>4 DEF y
    <3> QED BY <3>3, <3>4
  <2> QED BY <2>2, <2>3
<1>3. AccountedWhileStaging(n)
  BY <1>1, <1>2 DEF AccountedWhileStaging
<1>4. n.pc = "pairing" => n.at > Len(n.command.cases)
  BY <1>1
<1>5. n.pc \in {"staging", "pairing"}
  BY <1>1
<1> QED BY <1>3, <1>4, <1>5 DEF Accounted, Tried

LEMMA AccountedStages ==
  ASSUME NEW r, NEW n, r.command \in Commands, WellFormed(r.command),
         r.at \in 1..Len(r.command.cases), AccountedWhileStaging(r), Stages(r, n)
  PROVE  Accounted(n)
<1>1. PICK x : x = CaseOf(r)
  OBVIOUS
<1>2. PICK stage : n.staged = Put(r.staged, x, stage)
  BY <1>1 DEF Stages
<1>3. /\ DOMAIN n.staged = DOMAIN r.staged \cup {x}
      /\ n.failures = r.failures /\ GoesOn(r, n)
  BY <1>2 DEF Put, Stages
<1>4. \A y : y # x => /\ y \in DOMAIN n.staged <=> y \in DOMAIN r.staged
                      /\ FailuresOf(n, y) = FailuresOf(r, y)
  BY <1>3 DEF FailuresOf
<1>5. FailuresOf(r, x) = {} /\ x \notin DOMAIN r.staged => Settled(n, x, DOMAIN n.staged)
  BY <1>3 DEF FailuresOf, Settled
<1> QED BY <1>1, <1>3, <1>4, <1>5, AccountedGoesOn

LEMMA AccountedFails ==
  ASSUME NEW r, NEW n, r.command \in Commands, WellFormed(r.command),
         r.at \in 1..Len(r.command.cases), AccountedWhileStaging(r), Fails(r, n)
  PROVE  Accounted(n)
<1>1. PICK x : x = CaseOf(r)
  OBVIOUS
<1>2. PICK phase \in Phase : n.failures = r.failures \cup {<<x, phase>>}
  BY <1>1 DEF Fails
<1>3. n.staged = r.staged /\ GoesOn(r, n)
  BY DEF Fails
<1>4. OneMore(r, n, x, phase)
  BY <1>2, OneMoreFailure
<1>5. FailuresOf(r, x) = {} /\ x \notin DOMAIN r.staged => Settled(n, x, DOMAIN n.staged)
  BY <1>3, <1>4 DEF OneMore, Settled
<1>6. \A y : y # x => /\ y \in DOMAIN n.staged <=> y \in DOMAIN r.staged
                      /\ FailuresOf(n, y) = FailuresOf(r, y)
  BY <1>3, <1>4 DEF OneMore
<1> QED BY <1>1, <1>3, <1>5, <1>6, AccountedGoesOn

\* A part of the pair that is not the whole pair is one Case.
LEMMA HalfIsOne ==
  ASSUME NEW have \in SUBSET Pair, have # Pair, NEW x \in have
  PROVE  have = {x}
<1>1. PICK a, b \in Cases : a # b /\ Pair = {a, b}
  BY HarnessAssumption
<1> QED BY <1>1

LEMMA AccountedJoins ==
  ASSUME NEW r, NEW n, r.at > Len(r.command.cases), r.at \in Nat,
         Len(r.command.cases) \in Nat, AccountedWhileStaging(r), Joins(r, n)
  PROVE  Accounted(n)
<1> DEFINE have == Pair \cap DOMAIN r.staged
<1>1. /\ n.pc = "storing" /\ n.at = 1 /\ n.command = r.command
      /\ n.results = r.results /\ DOMAIN n.results = {}
      /\ \A i \in 1..Len(r.command.cases) : Settled(r, r.command.cases[i], DOMAIN r.staged)
  BY DEF Joins, AccountedWhileStaging
<1>2. \A x : Settled(r, x, DOMAIN r.staged) =>
             /\ x \in DOMAIN n.staged => FailuresOf(n, x) = {}
             /\ x \notin DOMAIN n.staged => Settled(n, x, {})
  <2>1. CASE n.failures = r.failures /\ DOMAIN n.staged = DOMAIN r.staged
    BY <2>1 DEF Settled, FailuresOf
  <2>2. CASE /\ have # Pair /\ n.staged = Unstaged(r.staged, have)
             /\ \E x \in have, phase \in Phase : n.failures = r.failures \cup {<<x, phase>>}
    <3>1. PICK x \in have, phase \in Phase : n.failures = r.failures \cup {<<x, phase>>}
      BY <2>2
    <3>2. have = {x} /\ x \in DOMAIN r.staged
      BY <2>2, HalfIsOne
    <3>3. DOMAIN n.staged = DOMAIN r.staged \ {x}
      BY <2>2, <3>2 DEF Unstaged
    <3>4. OneMore(r, n, x, phase)
      BY <3>1, OneMoreFailure
    <3> HIDE DEF have
    <3> QED BY <3>2, <3>3, <3>4 DEF OneMore, Settled
  <2>3. DOMAIN ForcedFail(r.staged) = DOMAIN r.staged
    BY DEF ForcedFail
  <2> QED BY <2>1, <2>2, <2>3 DEF Joins
<1>3. AccountedWhileStoring(n)
  <2> SUFFICES ASSUME NEW i \in 1..Len(r.command.cases)
               PROVE  LET x == r.command.cases[i] IN
                      IF i >= 1 /\ x \in DOMAIN n.staged
                      THEN x \notin DOMAIN n.results /\ FailuresOf(n, x) = {}
                      ELSE Settled(n, x, DOMAIN n.results)
    BY <1>1 DEF AccountedWhileStoring
  <2>1. i >= 1 /\ Settled(r, r.command.cases[i], DOMAIN r.staged)
    BY <1>1
  <2> QED BY <1>1, <1>2, <2>1
<1> QED BY <1>1, <1>3 DEF Accounted, Tried

LEMMA AccountedStores ==
  ASSUME LedgerInv, NEW c \in Calls, call[c].pc = "storing",
         AccountedWhileStoring(call[c]), NEW n, Stores(c, call[c], n)
  PROVE  Accounted(n)
<1> DEFINE r == call[c]
           at == r.at
           case(i) == r.command.cases[i]
<1>1. /\ CallRecord(r) /\ r.command \in Commands /\ WellFormed(r.command)
      /\ Len(r.command.cases) \in Nat
  BY Working DEF Over
<1>2. PICK k \in ToStore(c) :
        /\ \A later \in ToStore(c) : k <= later
        /\ n.at = k + 1
        /\ \/ /\ n.failures = r.failures
              /\ \E record : n.results = Put(r.results, case(k), record)
           \/ /\ n.results = r.results
              /\ \E phase \in Phase : n.failures = r.failures \cup {<<case(k), phase>>}
  BY DEF Stores
<1>3. /\ n.pc = "storing" /\ n.command = r.command /\ n.staged = r.staged
      /\ at \in Nat /\ k \in at..Len(r.command.cases) /\ k \in 1..Len(r.command.cases)
      /\ case(k) \in DOMAIN r.staged
  BY <1>1 DEF Stores, ToStore, CallRecord
<1>4. \A i \in at..Len(r.command.cases) : case(i) \in DOMAIN r.staged => k <= i
  BY <1>2 DEF ToStore
<1>5. PICK x : x = case(k)
  OBVIOUS
<1>6. /\ \A y : y # x => /\ FailuresOf(n, y) = FailuresOf(r, y)
                         /\ y \in DOMAIN n.results <=> y \in DOMAIN r.results
      /\ FailuresOf(r, x) = {} /\ x \notin DOMAIN r.results => Settled(n, x, DOMAIN n.results)
  <2>1. CASE /\ n.failures = r.failures
             /\ \E record : n.results = Put(r.results, case(k), record)
    <3>1. DOMAIN n.results = DOMAIN r.results \cup {x}
      BY <1>5, <2>1 DEF Put
    <3> QED BY <2>1, <3>1 DEF FailuresOf, Settled
  <2>2. CASE /\ n.results = r.results
             /\ \E phase \in Phase : n.failures = r.failures \cup {<<case(k), phase>>}
    <3>1. PICK phase \in Phase : n.failures = r.failures \cup {<<x, phase>>}
      BY <1>5, <2>2
    <3>2. OneMore(r, n, x, phase)
      BY <3>1, OneMoreFailure
    <3> QED BY <2>2, <3>2 DEF OneMore, Settled
  <2> QED BY <1>2, <2>1, <2>2
<1>7. ASSUME NEW i \in 1..Len(r.command.cases)
      PROVE  IF i >= k + 1 /\ case(i) \in DOMAIN r.staged
             THEN case(i) \notin DOMAIN n.results /\ FailuresOf(n, case(i)) = {}
             ELSE Settled(n, case(i), DOMAIN n.results)
  <2>1. IF i >= at /\ case(i) \in DOMAIN r.staged
        THEN case(i) \notin DOMAIN r.results /\ FailuresOf(r, case(i)) = {}
        ELSE Settled(r, case(i), DOMAIN r.results)
    BY <1>7 DEF AccountedWhileStoring
  <2>2. i = k => case(i) = x
    BY <1>5
  <2>3. i # k => case(i) # x
    BY <1>1, <1>3, <1>5, CasesAreDistinct
  <2>4. PICK y : y = case(i)
    OBVIOUS
  <2>5. y \in DOMAIN r.staged /\ i >= at => k <= i
    BY <1>1, <1>3, <1>4, <2>4
  <2> HIDE DEF case, r, at
  <2>6. CASE i = k
    <3>1. y = x /\ i >= at /\ ~(i >= k + 1)
      BY <1>3, <2>2, <2>4, <2>6
    <3>2. x \notin DOMAIN r.results /\ FailuresOf(r, x) = {}
      BY <1>3, <1>5, <2>1, <2>4, <2>6, <3>1
    <3>3. Settled(n, y, DOMAIN n.results)
      BY <1>6, <3>1, <3>2
    <3> QED BY <2>4, <3>1, <3>3
  <2>7. CASE i # k
    <3>1. /\ y # x /\ FailuresOf(n, y) = FailuresOf(r, y)
          /\ y \in DOMAIN n.results <=> y \in DOMAIN r.results
      BY <1>6, <2>3, <2>4, <2>7
    <3>2. CASE i >= at /\ y \in DOMAIN r.staged
      <4>1. i >= k + 1
        BY <1>3, <2>5, <2>7, <3>2
      <4> QED BY <2>1, <2>4, <3>1, <3>2, <4>1
    <3>3. CASE ~(i >= at /\ y \in DOMAIN r.staged)
      <4>1. ~(i >= k + 1 /\ y \in DOMAIN r.staged)
        BY <1>3, <3>3
      <4>2. Settled(r, y, DOMAIN r.results)
        BY <2>1, <2>4, <3>3
      <4>3. Settled(n, y, DOMAIN n.results)
        BY <3>1, <4>2, SettledStays
      <4> QED BY <2>4, <4>1, <4>3
    <3> QED BY <3>2, <3>3
  <2> QED BY <2>6, <2>7
<1>8. AccountedWhileStoring(n)
  BY <1>2, <1>3, <1>7 DEF AccountedWhileStoring
<1> QED BY <1>3, <1>8 DEF Accounted, Tried

LEMMA AccountedMoves ==
  ASSUME LedgerInv, NEW c \in Calls, Accounted(call[c]), NEW n, Moves(c, call[c], n)
  PROVE  Accounted(n)
<1> DEFINE r == call[c]
<1>1. CASE n = r \/ n.pc \in {"aborted", "crashed"}
  BY <1>1 DEF Accounted, Tried
<1>2. CASE Begins(r, n)
  BY <1>2 DEF Begins, Accounted, Tried, AccountedWhileStaging, FailuresOf
<1>3. CASE Declines(r, n)
  BY <1>3 DEF Declines, Accounted, Tried
<1>4. ASSUME r.pc \in Staging
      PROVE  /\ r.command \in Commands /\ WellFormed(r.command)
             /\ r.at \in 1..Len(r.command.cases) /\ AccountedWhileStaging(r)
  BY <1>4, Working DEF Staging, Over, Accounted
<1>5. CASE Waits(r, n)
  <2>1. AccountedWhileStaging(n)
    BY <1>4, <1>5 DEF Waits, AccountedWhileStaging, Settled, FailuresOf
  <2> QED BY <1>5, <2>1 DEF Waits, Accounted, Tried, Staging
<1>6. CASE Stages(r, n)
  <2>1. r.pc \in Staging
    BY <1>6 DEF Stages, GoesOn
  <2> HIDE DEF r
  <2> QED BY <1>4, <1>6, <2>1, AccountedStages
<1>7. CASE Fails(r, n)
  <2>1. r.pc \in Staging
    BY <1>7 DEF Fails, GoesOn
  <2> HIDE DEF r
  <2> QED BY <1>4, <1>7, <2>1, AccountedFails
<1>8. CASE Joins(r, n)
  <2>1. r.pc = "pairing"
    BY <1>8 DEF Joins
  <2>2. /\ r.at > Len(r.command.cases) /\ r.at \in Nat /\ Len(r.command.cases) \in Nat
        /\ AccountedWhileStaging(r)
    BY <2>1, Working DEF Over, Accounted, CallRecord
  <2> HIDE DEF r
  <2> QED BY <1>8, <2>2, AccountedJoins
<1>9. CASE Stores(c, r, n)
  BY <1>9, AccountedStores DEF Stores, Accounted
<1>10. CASE Finishes(c, r, n)
  <2>1. /\ n.pc = "finished" /\ n.command = r.command /\ n.results = r.results
        /\ n.failures = r.failures /\ r.pc = "storing" /\ ToStore(c) = {}
    BY <1>10 DEF Finishes
  <2>2. CallRecord(r) /\ Len(r.command.cases) \in Nat
    BY <2>1, Working DEF Over
  <2>3. ASSUME NEW i \in 1..Len(r.command.cases)
        PROVE  Settled(n, r.command.cases[i], DOMAIN n.results)
    <3>1. ~(i >= r.at /\ r.command.cases[i] \in DOMAIN r.staged)
      BY <2>1, <2>2 DEF ToStore, CallRecord
    <3>2. Settled(r, r.command.cases[i], DOMAIN r.results)
      BY <2>1, <3>1 DEF Accounted, AccountedWhileStoring
    <3> QED BY <2>1, <3>2 DEF Settled, FailuresOf
  <2> QED BY <2>1, <2>3 DEF Accounted
<1> QED BY <1>1, <1>2, <1>3, <1>5, <1>6, <1>7, <1>8, <1>9, <1>10 DEF Moves

\* A command that went through its selection reports each Case once: a result,
\* or one failure and no result (_stage_case, the pair check and _append_result,
\* whichever of them fails).
THEOREM EveryCaseAccountedOnceHolds == Spec => []EveryCaseAccountedOnce
<1>1. Init => AccountInv
  <2>1. Idle.pc = "idle"
    BY DEF Idle
  <2> QED BY <2>1 DEF Init, AccountInv, Accounted, Tried
<1>2. LedgerInv /\ AccountInv /\ [Next]_vars => AccountInv'
  BY StepMoves, AccountedMoves DEF AccountInv
<1>3. LedgerInv /\ AccountInv => EveryCaseAccountedOnce
  <2> SUFFICES ASSUME LedgerInv, AccountInv, NEW c \in Calls, Tried(call[c]),
                      NEW x \in ToSet(call[c].command.cases)
               PROVE  LET reported == {f \in call[c].failures : f[1] = x} IN
                      IF x \in DOMAIN call[c].results THEN reported = {}
                      ELSE Cardinality(reported) = 1
    BY DEF EveryCaseAccountedOnce
  <2>1. call[c].command \in Commands
    BY DEF LedgerInv, CallFits, Selected, Tried
  <2>2. PICK i \in 1..Len(call[c].command.cases) : x = call[c].command.cases[i]
    BY <2>1, HarnessAssumption DEF ToSet
  <2>3. Settled(call[c], x, DOMAIN call[c].results)
    BY <2>2 DEF AccountInv, Accounted
  <2> QED BY <2>3, FS_Singleton DEF Settled, FailuresOf
<1> QED BY <1>1, <1>2, <1>3, LedgerInvariant, PTL DEF Spec

-------------------------------------------------------------------------------
(* A pair that passes looks alike.                                          *)

\* What a step does to the executions: nothing, a new one, or an observation of
\* one that a command waits for.
ExecutionsGrow ==
  \/ UNCHANGED executions
  \/ \E run : executions' = Append(executions, run)
  \/ \E c \in Calls : \E o \in Observables \cup {None} :
       /\ call[c].pc = "executing"
       /\ executions' = [executions EXCEPT ![call[c].execution].observable = o]

LEMMA StepGrows ==
  ASSUME [Next]_vars
  PROVE  ExecutionsGrow
<1>1. ASSUME NEW c \in Calls, Step(c) PROVE ExecutionsGrow
  <2>1. CASE Refuse(c) \/ AppendNotRun(c) \/ AppendGraded(c) \/ Reload(c)
             \/ JoinPair(c) \/ AppendResult(c) \/ Finish(c)
    BY <2>1 DEF Refuse, AppendNotRun, AppendGraded, Reload, JoinPair, AppendResult,
                Finish, FailCase, ExecutionsGrow
  <2>2. CASE Stage(c)
    BY <2>2 DEF Stage, FailCase, ExecutionsGrow
  <2>3. CASE Return(c)
    BY <2>3 DEF Return, FailCase, At, ExecutionsGrow
  <2> QED BY <1>1, <2>1, <2>2, <2>3 DEF Step
<1>2. CASE \E c \in Calls : Cancel(c) \/ \E m \in Commands : Begin(c, m)
  BY <1>2 DEF Cancel, Begin, ExecutionsGrow
<1>3. CASE \E h \in Harnesses : Crash(h)
  BY <1>3 DEF Crash, ExecutionsGrow
<1>4. CASE UNCHANGED vars
  BY <1>4 DEF vars, ExecutionsGrow
<1> QED BY <1>1, <1>2, <1>3, <1>4 DEF Next

\* A graded event stays, and so does what was observed of its execution: it is
\* no longer waited for.
LEMMA GradedStays ==
  ASSUME LedgerInv, [Next]_vars, NEW g \in graded
  PROVE  /\ g \in graded'
         /\ executions'[g.execution].observable = executions[g.execution].observable
<1>1. g \in graded'
  <2>1. Writes
    BY StepWrites
  <2> QED BY <2>1 DEF Writes
<1>2. executions \in Seq(ExecutionRecord) /\ g.execution \in DOMAIN executions
  BY DEF LedgerInv, RecordsFit
<1>3. executions'[g.execution] = executions[g.execution]
  <2>1. CASE UNCHANGED executions
    BY <2>1
  <2>2. ASSUME NEW run, executions' = Append(executions, run)
        PROVE  executions'[g.execution] = executions[g.execution]
    <3>1. /\ DOMAIN executions = 1..Len(executions) /\ Len(executions) \in Nat
      BY <1>2
    <3> QED BY <1>2, <2>2, <3>1
  <2>3. ASSUME NEW c \in Calls, call[c].pc = "executing", NEW o,
               executions' = [executions EXCEPT ![call[c].execution].observable = o]
        PROVE  executions'[g.execution] = executions[g.execution]
    <3>1. g.execution # call[c].execution
      BY <2>3 DEF LedgerInv, CallFits, UngradedYet
    <3>2. DOMAIN executions = 1..Len(executions)
      BY <1>2
    <3> QED BY <1>2, <2>3, <3>1, <3>2
  <2>4. ExecutionsGrow
    BY StepGrows
  <2> QED BY <2>1, <2>2, <2>3, <2>4 DEF ExecutionsGrow
<1> QED BY <1>1, <1>3

\* What a stage saw of a graded execution it has seen for good.
GradedStage(stage) == \E g \in graded : g.execution = stage.origin

LEMMA SeenStays ==
  ASSUME LedgerInv, [Next]_vars, NEW stage, GradedStage(stage), SeenAsExecuted(stage)
  PROVE  stage.observable = executions'[stage.origin].observable
  BY GradedStays DEF GradedStage, SeenAsExecuted

\* What is staged or cached was graded and seen.
LEMMA StagesAreSeen ==
  ASSUME LedgerInv, PairInv
  PROVE  /\ \A c \in Calls : call[c].pc \notin Over =>
              \A x \in DOMAIN call[c].staged :
                GradedStage(call[c].staged[x]) /\ SeenAsExecuted(call[c].staged[x])
         /\ \A h \in Harnesses : \A rk \in DOMAIN cache[h] :
              GradedStage(cache[h][rk]) /\ SeenAsExecuted(cache[h][rk])
<1>1. \A k, e : EventOf(k, e).execution = e
  BY DEF EventOf
<1>2. \A c \in Calls : \A x \in DOMAIN call[c].staged : GradedStage(call[c].staged[x])
  BY <1>1 DEF LedgerInv, CallFits, StagedIsGraded, GradedStage
<1>3. \A h \in Harnesses : \A rk \in DOMAIN cache[h] : GradedStage(cache[h][rk])
  BY <1>1 DEF LedgerInv, RecordsFit, GradedStage
<1> QED BY <1>2, <1>3 DEF PairInv

\* A stage of a command in progress, as it was before or as it was found.
LEMMA StagedFrom ==
  ASSUME LedgerInv, NEW c \in Calls, NEW n, Moves(c, call[c], n), n.pc \notin Over,
         NEW x \in DOMAIN n.staged
  PROVE  \/ KnownStage(n.staged[x])
         \/ /\ call[c].pc \notin Over /\ x \in DOMAIN call[c].staged
            /\ n.staged[x].origin = call[c].staged[x].origin
            /\ n.staged[x].observable = call[c].staged[x].observable
<1> DEFINE r == call[c]
<1>1. CASE n = r
  BY <1>1
<1>2. CASE Begins(r, n)
  BY <1>2 DEF Begins
<1>3. CASE Declines(r, n) \/ Waits(r, n) \/ Fails(r, n) \/ Stores(c, r, n)
  BY <1>3 DEF Declines, Waits, Fails, GoesOn, Stores, Staging, Over
<1>4. CASE Stages(r, n)
  <2>1. PICK stage : KnownStage(stage) /\ n.staged = Put(r.staged, CaseOf(r), stage)
    BY <1>4 DEF Stages
  <2>2. r.pc \notin Over
    BY <1>4 DEF Stages, GoesOn, Staging, Over
  <2>3. CASE x = CaseOf(r)
    BY <2>1, <2>3 DEF Put
  <2>4. CASE x # CaseOf(r)
    BY <2>1, <2>2, <2>4 DEF Put
  <2> QED BY <2>3, <2>4
<1>5. CASE Joins(r, n)
  <2>1. r.pc = "pairing" /\ n.staged \in {r.staged, ForcedFail(r.staged),
                                         Unstaged(r.staged, Pair \cap DOMAIN r.staged)}
    BY <1>5 DEF Joins
  <2>2. CallRecord(r)
    BY <2>1, Working DEF Over
  <2>3. CASE n.staged = ForcedFail(r.staged)
    <3>1. x \in DOMAIN r.staged /\ r.staged[x] \in StageRecord
      BY <2>2, <2>3 DEF ForcedFail, CallRecord, Dictionary
    <3>2. \/ n.staged[x] = r.staged[x]
          \/ n.staged[x] = [r.staged[x] EXCEPT !.status = "FAIL"]
      BY <2>3, <3>1 DEF ForcedFail
    <3> QED BY <2>1, <3>1, <3>2 DEF StageRecord, Over
  <2>4. CASE n.staged # ForcedFail(r.staged)
    BY <2>1, <2>4 DEF Unstaged, Over
  <2> QED BY <2>3, <2>4
<1>6. ~Finishes(c, r, n) /\ n.pc \notin {"aborted", "crashed"}
  BY DEF Finishes, Over
<1> QED BY <1>1, <1>2, <1>3, <1>4, <1>5, <1>6 DEF Moves

\* What goes on to be stored has both Cases of the pair or none, alike if one
\* passed.
LEMMA JoinedTogether ==
  ASSUME LedgerInv, NEW c \in Calls, NEW n, Moves(c, call[c], n), n.pc = "storing",
         call[c].pc = "storing" => JoinedPair(call[c].staged)
  PROVE  JoinedPair(n.staged)
<1> DEFINE r == call[c]
           have == Pair \cap DOMAIN r.staged
<1>1. CASE n = r \/ Stores(c, r, n)
  BY <1>1 DEF Stores
<1>2. CASE Joins(r, n)
  <2>1. r.pc = "pairing"
    BY <1>2 DEF Joins
  <2>2. Dictionary(r.staged, Cases, StageRecord)
    BY <2>1, Working DEF Over, CallRecord
  <2>3. CASE /\ have \in {{}, Pair} /\ n.staged = r.staged
             /\ \A x, y \in have : r.staged[x].observable = r.staged[y].observable
    BY <2>3 DEF JoinedPair
  <2>4. CASE have \in {{}, Pair} /\ n.staged = ForcedFail(r.staged)
    <3>1. DOMAIN n.staged = DOMAIN r.staged
      BY <2>4 DEF ForcedFail
    <3>2. \A x \in have : n.staged[x].status = "FAIL"
      <4> TAKE x \in have
      <4>1. /\ n.staged[x] = [r.staged[x] EXCEPT !.status = "FAIL"]
            /\ r.staged[x] \in StageRecord
        BY <2>2, <2>4 DEF ForcedFail, Dictionary
      <4> QED BY <4>1 DEF StageRecord
    <3> QED BY <2>4, <3>1, <3>2 DEF JoinedPair
  <2>5. CASE n.staged = Unstaged(r.staged, have)
    <3>1. Pair \cap DOMAIN n.staged = {}
      BY <2>5 DEF Unstaged
    <3> QED BY <3>1 DEF JoinedPair
  <2> QED BY <1>2, <2>3, <2>4, <2>5 DEF Joins
<1>3. CASE Begins(r, n) \/ Declines(r, n) \/ Waits(r, n) \/ Stages(r, n) \/ Fails(r, n)
           \/ Finishes(c, r, n)
  BY <1>3 DEF Begins, Declines, Waits, Stages, Fails, GoesOn, Finishes, Staging
<1> QED BY <1>1, <1>2, <1>3 DEF Moves

\* The cache takes over only what a command stores.
CacheTaken(h, rk) ==
  \/ rk \in DOMAIN cache[h] /\ cache'[h][rk] = cache[h][rk]
  \/ \E c \in Calls : /\ call[c].pc = "storing"
                      /\ \E x \in DOMAIN call[c].staged : cache'[h][rk] = call[c].staged[x]

LEMMA CachedFrom ==
  ASSUME LedgerInv, [Next]_vars, NEW h \in Harnesses, NEW rk \in DOMAIN cache'[h]
  PROVE  CacheTaken(h, rk)
<1>1. CASE cache' = cache
  BY <1>1 DEF CacheTaken
<1>2. ASSUME NEW c \in Calls, AppendResult(c) PROVE CacheTaken(h, rk)
  <2>1. call[c].pc = "storing"
    BY <1>2 DEF AppendResult, At
  <2>2. PICK i \in ToStore(c) :
          LET x == call[c].command.cases[i]
              stage == call[c].staged[x]
          IN  \/ cache' = CacheAfter(c, x, stage, TRUE)
              \/ cache' = CacheAfter(c, x, stage, FALSE)
    BY <1>2 DEF AppendResult
  <2>3. PICK x \in DOMAIN call[c].staged : x = call[c].command.cases[i]
    BY <2>2 DEF ToStore
  <2>4. \/ cache' = cache
        \/ cache' = [cache EXCEPT ![HarnessOf[c]] =
                       Put(cache[HarnessOf[c]], ReplayKey(call[c].command, x),
                           call[c].staged[x])]
    BY <2>2, <2>3 DEF CacheAfter
  <2>5. cache = [g \in Harnesses |-> cache[g]]
    BY DEF LedgerInv, RecordsFit
  <2>6. \/ cache'[h] = cache[h]
        \/ cache'[h] = Put(cache[h], ReplayKey(call[c].command, x), call[c].staged[x])
    BY <2>4, <2>5
  <2>7. \/ rk \in DOMAIN cache[h] /\ cache'[h][rk] = cache[h][rk]
        \/ cache'[h][rk] = call[c].staged[x]
    BY <2>6 DEF Put
  <2> QED BY <2>1, <2>7 DEF CacheTaken
<1>3. ASSUME NEW g \in Harnesses, Crash(g) PROVE CacheTaken(h, rk)
  <2>1. cache = [f \in Harnesses |-> cache[f]] /\ cache' = [cache EXCEPT ![g] = <<>>]
    BY <1>3 DEF LedgerInv, RecordsFit, Crash
  <2>2. cache'[h] = cache[h] \/ cache'[h] = <<>>
    BY <2>1
  <2> QED BY <2>2, EmptyDictionary DEF CacheTaken
<1>4. ASSUME NEW c \in Calls, Step(c), ~AppendResult(c) PROVE cache' = cache
  BY <1>4 DEF Step, Refuse, AppendNotRun, Stage, Return, AppendGraded, Reload, JoinPair,
              Finish, FailCase
<1>5. CASE \E c \in Calls : Cancel(c) \/ \E m \in Commands : Begin(c, m)
  BY <1>1, <1>5 DEF Cancel, Begin
<1>6. CASE UNCHANGED vars
  BY <1>1, <1>6 DEF vars
<1> QED BY <1>1, <1>2, <1>3, <1>4, <1>5, <1>6 DEF Next

\* A new PASS is the one a command has staged.
PassTaken(k) ==
  \E c \in Calls :
    /\ call[c].pc = "storing"
    /\ \E x \in DOMAIN call[c].staged :
         /\ x \in Cases /\ k = KeyOf(call[c].command, x)
         /\ results'[k] = ResultOf(call[c].staged[x])

LEMMA PassedFrom ==
  ASSUME LedgerInv, [Next]_vars, NEW k \in Key, results'[k] # results[k],
         results'[k].status = "PASS"
  PROVE  PassTaken(k)
<1>0. results \in [Key -> ResultRecord \cup {None}]
  BY DEF LedgerInv, RecordsFit
<1>1. ASSUME NEW c \in Calls, AppendResult(c) PROVE PassTaken(k)
  <2>1. call[c].pc = "storing"
    BY <1>1 DEF AppendResult, At
  <2>2. PICK i \in ToStore(c) :
          LET x == call[c].command.cases[i]
          IN  \/ results' = results
              \/ results' = [results EXCEPT ![KeyOf(call[c].command, x)] =
                                              ResultOf(call[c].staged[x])]
    BY <1>1 DEF AppendResult
  <2>3. PICK x \in DOMAIN call[c].staged : x = call[c].command.cases[i]
    BY <2>2 DEF ToStore
  <2>4. x \in Cases
    BY <2>1, Working DEF Over, CallRecord, Dictionary
  <2>5. PICK key : key = KeyOf(call[c].command, x)
    OBVIOUS
  <2>6. results' = [results EXCEPT ![key] = ResultOf(call[c].staged[x])]
    BY <2>2, <2>3, <2>5
  <2>7. k = key /\ results'[k] = ResultOf(call[c].staged[x])
    BY <1>0, <2>6
  <2> QED BY <2>1, <2>4, <2>5, <2>7 DEF PassTaken
<1>2. ASSUME NEW c \in Calls, AppendNotRun(c) PROVE FALSE
  <2>1. PICK key : \/ results' = results
                   \/ results' = [results EXCEPT ![key] = NotRunRecord(c)]
    BY <1>2 DEF AppendNotRun
  <2>2. results'[k] = NotRunRecord(c)
    BY <1>0, <2>1
  <2> QED BY <2>2 DEF NotRunRecord
<1>3. ASSUME NEW c \in Calls, Step(c), ~AppendResult(c), ~AppendNotRun(c)
      PROVE  FALSE
  BY <1>3 DEF Step, Refuse, Stage, Return, AppendGraded, Reload, JoinPair, Finish,
              FailCase, store
<1>4. CASE \E c \in Calls : Cancel(c) \/ \E m \in Commands : Begin(c, m)
  BY <1>4 DEF Cancel, Begin, store
<1>5. CASE \E h \in Harnesses : Crash(h)
  BY <1>5 DEF Crash, store
<1>6. CASE UNCHANGED vars
  BY <1>6 DEF vars, store
<1> QED BY <1>1, <1>2, <1>3, <1>4, <1>5, <1>6 DEF Next

\* The partner of a Case that is stored as PASS was staged beside it and looked
\* the same.
LEMMA PartnerIsStaged ==
  ASSUME LedgerInv, PairInv, NEW c \in Calls, call[c].pc = "storing",
         NEW x \in DOMAIN call[c].staged, call[c].staged[x].status = "PASS",
         NEW k \in Key, NEW other \in Key, Partner(k, other),
         x \in Cases, k = KeyOf(call[c].command, x)
  PROVE  \E g \in graded :
           /\ g.key = other
           /\ executions[g.execution].observable =
                executions[call[c].staged[x].origin].observable
<1> DEFINE r == call[c]
           y == other.case
           e == r.staged[y].origin
<1>1. k.case = x /\ k.lane = r.command.lane /\ k.attempt = r.command.attempt
  BY DEF KeyOf
<1>2. {x, y} = Pair /\ other = KeyOf(r.command, y)
  BY <1>1 DEF Partner, Key, KeyOf
<1>3. JoinedPair(r.staged)
  BY DEF PairInv
<1>4. y \in DOMAIN r.staged /\ r.staged[x].observable = r.staged[y].observable
  BY <1>2, <1>3 DEF JoinedPair
<1>5. /\ SeenAsExecuted(r.staged[x]) /\ SeenAsExecuted(r.staged[y])
  BY <1>4 DEF PairInv, Over
<1>6. EventOf(other, e) \in graded
  BY <1>2, <1>4 DEF LedgerInv, CallFits, StagedIsGraded
<1>7. EventOf(other, e).key = other /\ EventOf(other, e).execution = e
  BY DEF EventOf
<1>8. executions[e].observable = executions[r.staged[x].origin].observable
  BY <1>4, <1>5 DEF SeenAsExecuted
<1> HIDE DEF e
<1> QED BY <1>6, <1>7, <1>8

LEMMA PairKept ==
  ASSUME LedgerInv, PairInv, [Next]_vars
  PROVE  PairInv'
<1>1. \A c \in Calls : Moves(c, call[c], call'[c])
  BY StepMoves
<1>2. ASSUME NEW c \in Calls, call'[c].pc \notin Over, NEW x \in DOMAIN call'[c].staged
      PROVE  call'[c].staged[x].observable =
               executions'[call'[c].staged[x].origin].observable
  <2>1. PICK n : n = call'[c]
    OBVIOUS
  <2>2. PICK stage : stage = n.staged[x]
    OBVIOUS
  <2>3. \/ KnownStage(stage)
        \/ /\ call[c].pc \notin Over /\ x \in DOMAIN call[c].staged
           /\ stage.origin = call[c].staged[x].origin
           /\ stage.observable = call[c].staged[x].observable
    BY <1>1, <1>2, <2>1, <2>2, StagedFrom
  <2>4. GradedStage(stage) /\ SeenAsExecuted(stage)
    BY <2>3, StagesAreSeen DEF KnownStage, GradedStage, SeenAsExecuted
  <2>5. stage.observable = executions'[stage.origin].observable
    BY <2>4, SeenStays
  <2> QED BY <2>1, <2>2, <2>5
<1>3. ASSUME NEW h \in Harnesses, NEW rk \in DOMAIN cache'[h]
      PROVE  cache'[h][rk].observable = executions'[cache'[h][rk].origin].observable
  <2>1. PICK stage : stage = cache'[h][rk]
    OBVIOUS
  <2>2. \/ rk \in DOMAIN cache[h] /\ stage = cache[h][rk]
        \/ \E c \in Calls : /\ call[c].pc = "storing"
                            /\ \E x \in DOMAIN call[c].staged : stage = call[c].staged[x]
    BY <2>1, CachedFrom DEF CacheTaken
  <2>3. GradedStage(stage) /\ SeenAsExecuted(stage)
    BY <2>2, StagesAreSeen DEF Over
  <2>4. stage.observable = executions'[stage.origin].observable
    BY <2>3, SeenStays
  <2> QED BY <2>1, <2>4
<1>4. ASSUME NEW c \in Calls, call'[c].pc = "storing"
      PROVE  JoinedPair(call'[c].staged)
  <2>1. PICK n : n = call'[c]
    OBVIOUS
  <2>2. JoinedPair(n.staged)
    BY <1>1, <1>4, <2>1, JoinedTogether DEF PairInv
  <2> QED BY <2>1, <2>2
<1>5. ASSUME NEW k \in Key, NEW other \in Key, Partner(k, other), Judged(k)',
             results'[k].status = "PASS"
      PROVE  \E g \in graded' :
               /\ g.key = other
               /\ executions'[g.execution].observable = Observed(k)'
  <2>1. \E g, own \in graded :
          /\ g.key = other /\ own.execution = results'[k].origin
          /\ executions[g.execution].observable = executions[own.execution].observable
    <3>1. CASE results'[k] = results[k]
      <4>1. Judged(k) /\ results[k].status = "PASS"
        BY <1>5, <3>1 DEF Judged
      <4>2. PICK g \in graded : /\ g.key = other
                                /\ executions[g.execution].observable = Observed(k)
        BY <1>5, <4>1 DEF PairInv, PassesAsPartner
      <4>3. EventOf(k, results[k].origin) \in graded
        BY <4>1 DEF LedgerInv, RecordsFit
      <4>4. EventOf(k, results[k].origin).execution = results[k].origin
        BY DEF EventOf
      <4> QED BY <3>1, <4>2, <4>3, <4>4 DEF Observed
    <3>2. CASE results'[k] # results[k]
      <4>1. PICK c \in Calls :
              /\ call[c].pc = "storing"
              /\ \E x \in DOMAIN call[c].staged :
                   /\ x \in Cases /\ k = KeyOf(call[c].command, x)
                   /\ results'[k] = ResultOf(call[c].staged[x])
        BY <1>5, <3>2, PassedFrom DEF PassTaken
      <4>2. PICK x \in DOMAIN call[c].staged :
              /\ x \in Cases /\ k = KeyOf(call[c].command, x)
              /\ results'[k] = ResultOf(call[c].staged[x])
        BY <4>1
      <4>3. /\ call[c].staged[x].status = "PASS"
            /\ results'[k].origin = call[c].staged[x].origin
        BY <1>5, <4>2 DEF ResultOf
      <4>4. PICK g \in graded :
              /\ g.key = other
              /\ executions[g.execution].observable =
                   executions[call[c].staged[x].origin].observable
        BY <1>5, <4>1, <4>2, <4>3, PartnerIsStaged
      <4>5. PICK own \in graded : own.execution = call[c].staged[x].origin
        BY <4>1, StagesAreSeen DEF GradedStage, Over
      <4> QED BY <4>3, <4>4, <4>5
    <3> QED BY <3>1, <3>2
  <2>2. PICK g \in graded, own \in graded :
          /\ g.key = other /\ own.execution = results'[k].origin
          /\ executions[g.execution].observable = executions[own.execution].observable
    BY <2>1
  <2>3. /\ g \in graded'
        /\ executions'[g.execution].observable = executions[g.execution].observable
        /\ executions'[own.execution].observable = executions[own.execution].observable
    BY GradedStays
  <2> QED BY <2>2, <2>3 DEF Observed
<1>6. \A k, other \in Key : PassesAsPartner(k, other)'
  BY <1>5 DEF PassesAsPartner, Partner
<1> QED BY <1>2, <1>3, <1>4, <1>6 DEF PairInv, SeenAsExecuted

\* Two results of the pair for one lane and attempt are no PASS unless the client
\* observed the same of both, whichever commands stored them and whichever of them
\* was replayed from the cache (the disclosure check of E2E01-04).
THEOREM PairPassesAlikeHolds == Spec => []PairPassesAlike
<1>1. Init => PairInv
  <2> SUFFICES ASSUME Init PROVE PairInv
    OBVIOUS
  <2>1. /\ \A c \in Calls : call[c].pc = "idle" /\ DOMAIN call[c].staged = {}
        /\ \A h \in Harnesses : DOMAIN cache[h] = {}
        /\ \A k \in Key : results[k] = None
    BY EmptyDictionary DEF Init, Idle
  <2> QED BY <2>1 DEF PairInv, PassesAsPartner, Judged
<1>2. LedgerInv /\ PairInv /\ [Next]_vars => PairInv'
  BY PairKept
<1>3. LedgerInv /\ PairInv => PairPassesAlike
  <2> SUFFICES ASSUME LedgerInv, PairInv, NEW k1 \in Key, NEW k2 \in Key,
                      {k1.case, k2.case} = Pair, k1.lane = k2.lane,
                      k1.attempt = k2.attempt, Judged(k1), Judged(k2),
                      results[k1].status = "PASS"
               PROVE  Observed(k1) = Observed(k2)
    BY DEF PairPassesAlike
  <2>1. PICK g \in graded : /\ g.key = k2
                            /\ executions[g.execution].observable = Observed(k1)
    BY DEF PairInv, PassesAsPartner, Partner
  <2>2. EventOf(k2, results[k2].origin) \in graded
    BY DEF LedgerInv, RecordsFit
  <2>3. /\ EventOf(k2, results[k2].origin).key = k2
        /\ EventOf(k2, results[k2].origin).execution = results[k2].origin
    BY DEF EventOf
  <2>4. g = EventOf(k2, results[k2].origin)
    BY <2>1, <2>2, <2>3 DEF LedgerInv, RecordsFit
  <2> QED BY <2>1, <2>3, <2>4 DEF Observed
<1> QED BY <1>1, <1>2, <1>3, LedgerInvariant, PTL DEF Spec
================================================================================
