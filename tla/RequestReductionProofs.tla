------------------------ MODULE RequestReductionProofs ------------------------
(***************************************************************************)
(* What the operators the path of a decision is built from return, for     *)
(* every list of checks, every sequence, every quote and every answer.     *)
(***************************************************************************)
EXTENDS ControlGateway, FiniteSetTheorems, TLAPS

(* A set of naturals that is not empty has a least element.                *)
LEMMA LeastOf ==
  ASSUME NEW S \in SUBSET Nat, S # {}
  PROVE  \E m \in S : \A n \in S : m <= n
<1>1. \E m \in S : \A n \in S : <<n, m>> \notin OpToRel(<, Nat)
  BY WFMin, NatLessThanWellFounded, Zenon
<1>2. PICK m \in S : \A n \in S : <<n, m>> \notin OpToRel(<, Nat)
  BY <1>1
<1>3. \A n \in S : ~ (n < m)
  BY <1>2, Zenon DEF OpToRel
<1> QED
  BY <1>3

(* FirstFailure tells the first check that fails, and Nothing only when    *)
(* none does, as long as no check has Nothing for a code.                  *)
LEMMA FirstFailureIsFirst ==
  ASSUME NEW checks, DOMAIN checks \in SUBSET Nat
  PROVE  \/ /\ FirstFailure(checks) = Nothing
            /\ \A i \in DOMAIN checks : checks[i].holds
         \/ \E i \in DOMAIN checks :
              /\ FirstFailure(checks) = checks[i].code /\ ~checks[i].holds
              /\ \A j \in DOMAIN checks : j < i => checks[j].holds
<1> DEFINE failing == {i \in DOMAIN checks : ~checks[i].holds}
<1>1. CASE failing = {}
  BY <1>1 DEF FirstFailure
<1>2. CASE failing # {}
  <2>1. \E i \in failing : \A j \in failing : i <= j
    BY <1>2, LeastOf
  <2> DEFINE i == CHOOSE i \in failing : \A j \in failing : i <= j
  <2>2. i \in failing /\ \A j \in failing : i <= j
    BY <2>1
  <2>3. FirstFailure(checks) = checks[i].code
    BY <1>2 DEF FirstFailure
  <2> HIDE DEF i
  <2> QED
    BY <2>2, <2>3
<1> QED
  BY <1>1, <1>2

----------------------------------------------------------------------------
(* A sequence is Distinct when no entry occurs at two places.              *)
LEMMA DistinctMeans ==
  ASSUME NEW seq, IsSequence(seq)
  PROVE  Distinct(seq) <=> \A i, j \in DOMAIN seq : seq[i] = seq[j] => i = j
<1>1. DOMAIN seq = 1..Len(seq) /\ Len(seq) \in Nat
  BY DEF IsSequence
<1>2. seq \in Surjection(DOMAIN seq, ToSet(seq))
  BY DEF IsSequence, Surjection, ToSet
<1>3. IsFiniteSet(DOMAIN seq) /\ Cardinality(DOMAIN seq) = Len(seq)
  <2>1. IsFiniteSet(1..Len(seq))
        /\ Cardinality(1..Len(seq)) = IF 1 > Len(seq) THEN 0 ELSE Len(seq) - 1 + 1
    BY <1>1, FS_Interval
  <2> QED BY <1>1, <2>1
<1>4. Cardinality(ToSet(seq)) = Len(seq) <=> seq \in Injection(DOMAIN seq, ToSet(seq))
  BY <1>2, <1>3, FS_Surjection
<1>5. seq \in Injection(DOMAIN seq, ToSet(seq))
        <=> \A i, j \in DOMAIN seq : seq[i] = seq[j] => i = j
  BY <1>2 DEF Surjection, Injection, IsInjective
<1> QED
  BY <1>4, <1>5 DEF Distinct

(* The order of the positions is a bijection to 1..Cardinality(at).        *)
LEMMA RanksAreExact ==
  ASSUME NEW at, at \subseteq Nat, IsFiniteSet(at)
  PROVE  /\ Cardinality(at) \in Nat
         /\ \A n \in 1..Cardinality(at) :
              \E i \in at : /\ Cardinality({j \in at : j <= i}) = n
                           /\ \A k \in at : Cardinality({j \in at : j <= k}) = n => k = i
         /\ \A i \in at : Cardinality({j \in at : j <= i}) \in 1..Cardinality(at)
<1> DEFINE upTo(i) == {j \in at : j <= i}
           rank == [i \in at |-> Cardinality(upTo(i))]
           N == Cardinality(at)
<1>2. N \in Nat
  BY FS_CardinalityType
<1>3. \A i \in at : IsFiniteSet(upTo(i)) /\ Cardinality(upTo(i)) \in 1..N
  <2> TAKE i \in at
  <2>1. upTo(i) \in SUBSET at /\ upTo(i) # {}
    BY SMT
  <2>2. IsFiniteSet(upTo(i)) /\ Cardinality(upTo(i)) <= N
    BY <2>1, FS_Subset
  <2>3. Cardinality(upTo(i)) \in Nat /\ Cardinality(upTo(i)) # 0
    <3> HIDE DEF upTo
    <3> QED BY <2>1, <2>2, FS_CardinalityType, FS_EmptySet
  <2> HIDE DEF upTo
  <2> QED
    BY <1>2, <2>2, <2>3
<1>4. \A i, k \in at : Cardinality(upTo(i)) = Cardinality(upTo(k)) => i = k
  <2>1. ASSUME NEW i \in at, NEW k \in at, i < k
        PROVE  Cardinality(upTo(i)) # Cardinality(upTo(k))
    <3>1. i \in Nat /\ k \in Nat /\ \A j \in at : j \in Nat
      OBVIOUS
    <3>2. (\A j \in at : j <= i => j <= k) /\ k <= k /\ ~(k <= i)
      BY <2>1, <3>1
    <3>3. upTo(i) \subseteq upTo(k) /\ k \in upTo(k) /\ k \notin upTo(i)
      BY <3>2
    <3> HIDE DEF upTo
    <3> QED
      BY <1>3, <3>3, FS_Subset
  <2> HIDE DEF upTo
  <2> QED
    BY <2>1
<1>5. rank \in Injection(at, 1..N)
  <2> HIDE DEF upTo, N
  <2> QED
    BY <1>3, <1>4 DEF Injection, IsInjective
<1>6. IsFiniteSet(1..N) /\ Cardinality(1..N) = N
  BY <1>2, FS_Interval
<1>7. rank \in Surjection(at, 1..N)
  <2> HIDE DEF rank
  <2> QED
    BY <1>5, <1>6, FS_Injection
<1>8. \A n \in 1..N : \E i \in at : rank[i] = n
  <2> HIDE DEF rank, N
  <2> QED
    BY <1>7 DEF Surjection
<1> HIDE DEF upTo, N
<1>9. \A n \in 1..N :
        \E i \in at : /\ Cardinality(upTo(i)) = n
                     /\ \A k \in at : Cardinality(upTo(k)) = n => k = i
  BY <1>4, <1>8
<1> QED
  BY <1>2, <1>3, <1>9 DEF upTo, N

(* InOrder lists each position once.                                       *)
LEMMA InOrderIsExact ==
  ASSUME NEW at, at \subseteq Nat, IsFiniteSet(at)
  PROVE  /\ Cardinality(at) \in Nat
         /\ DOMAIN InOrder(at) = 1..Cardinality(at)
         /\ \A n \in DOMAIN InOrder(at) : InOrder(at)[n] \in at
         /\ \A n, k \in DOMAIN InOrder(at) : InOrder(at)[n] = InOrder(at)[k] => n = k
         /\ \A i \in at : \E n \in DOMAIN InOrder(at) : InOrder(at)[n] = i
<1> DEFINE rank(i) == Cardinality({j \in at : j <= i})
           place == InOrder(at)
<1>1. /\ Cardinality(at) \in Nat
      /\ \A n \in 1..Cardinality(at) :
           \E i \in at : rank(i) = n /\ \A k \in at : rank(k) = n => k = i
      /\ \A i \in at : rank(i) \in 1..Cardinality(at)
  BY RanksAreExact
<1>2. place = [n \in 1..Cardinality(at) |-> CHOOSE i \in at : rank(i) = n]
  BY DEF InOrder
<1> HIDE DEF rank, place
<1>3. \A n \in 1..Cardinality(at) :
        /\ place[n] \in at /\ rank(place[n]) = n
        /\ \A k \in at : rank(k) = n => k = place[n]
  BY <1>1, <1>2
<1>4. DOMAIN place = 1..Cardinality(at)
  BY <1>2
<1>5. \A n, k \in DOMAIN place : place[n] = place[k] => n = k
  BY <1>3, <1>4
<1>6. \A i \in at : \E n \in DOMAIN place : place[n] = i
  BY <1>1, <1>3, <1>4
<1> QED
  BY <1>1, <1>3, <1>4, <1>5, <1>6 DEF place

----------------------------------------------------------------------------
(* A quote that shows its value is found in the text where the durable     *)
(* record says, and the order it shows is in the text.                     *)
LEMMA QuoteIsFound ==
  ASSUME NEW text \in Seq(Token), NEW quote \in Seq(Token), NEW value,
         ShowsValue(text, quote, value)
  PROVE  /\ Span(text, quote).end <= Len(text)
         /\ Span(text, quote).start + 1 \in 1..Span(text, quote).end
         /\ SubSeq(text, Span(text, quote).start + 1, Span(text, quote).end) = quote
         /\ quote # text
         /\ Occurrences(text, quote) = {Span(text, quote).start + 1}
         /\ Normalize(value) # Nothing => QuotesOrder(quote, Normalize(value))
                                         /\ QuotesOrder(text, Normalize(value))
<1> DEFINE start == CHOOSE i \in Occurrences(text, quote) : TRUE
<1>1. Occurrences(text, quote) # {}
  <2>1. Cardinality({}) = 0
    BY FS_EmptySet
  <2>2. Cardinality(Occurrences(text, quote)) = 1
    BY DEF ShowsValue
  <2>3. Cardinality(Occurrences(text, quote)) # Cardinality({})
    BY <2>1, <2>2
  <2> QED BY <2>3, Zenon
<1>2. start \in Occurrences(text, quote)
  BY <1>1
<1>3. Span(text, quote) = [start |-> start - 1, end |-> start - 1 + Len(quote)]
  BY DEF Span
<1> HIDE DEF start
<1>4. /\ start \in 1..Len(text) /\ start + Len(quote) - 1 <= Len(text)
      /\ SubSeq(text, start, start + Len(quote) - 1) = quote
  BY <1>2 DEF Occurrences
<1>5. Len(text) \in Nat /\ Len(quote) \in Nat
  OBVIOUS
<1>6. /\ Span(text, quote).end <= Len(text)
      /\ SubSeq(text, Span(text, quote).start + 1, Span(text, quote).end) = quote
  <2>1. start - 1 + 1 = start /\ start - 1 + Len(quote) = start + Len(quote) - 1
    BY <1>4, <1>5
  <2> QED BY <1>3, <1>4, <2>1
<1>7. Span(text, quote).start + 1 = start /\ start \in 1..Span(text, quote).end
  <2>1. Len(quote) > 0
    BY <1>5 DEF ShowsValue
  <2>2. start - 1 + 1 = start /\ start \in 1..(start - 1 + Len(quote))
    BY <1>4, <1>5, <2>1
  <2> QED BY <1>3, <2>2
<1>8. Occurrences(text, quote) = {start}
  <2>1. IsFiniteSet(Occurrences(text, quote))
    <3>1. Occurrences(text, quote) \subseteq 1..Len(text)
      BY DEF Occurrences
    <3>2. IsFiniteSet(1..Len(text))
      BY <1>5, FS_Interval
    <3> QED BY <3>1, <3>2, FS_Subset
  <2>2. PICK x : Occurrences(text, quote) = {x}
    BY <2>1, FS_Singleton DEF ShowsValue
  <2> QED BY <1>2, <2>2
<1>9. ASSUME Normalize(value) # Nothing
      PROVE  QuotesOrder(quote, Normalize(value)) /\ QuotesOrder(text, Normalize(value))
  <2>1. QuotesOrder(quote, Normalize(value))
    BY <1>9 DEF ShowsValue
  <2>2. PICK i \in DOMAIN quote : /\ quote[i].spelling \in {"upper", "lower"}
                                 /\ quote[i].order = Normalize(value)
    BY <2>1 DEF QuotesOrder
  <2>3. i \in 1..Len(quote) /\ start + i - 1 \in DOMAIN text
    BY <1>4, <1>5
  <2>4. quote[i] = text[start + i - 1]
    BY <1>4, <1>5, <2>3
  <2> QED
    BY <2>1, <2>2, <2>3, <2>4 DEF QuotesOrder
<1> QED
  BY <1>6, <1>7, <1>8, <1>9 DEF ShowsValue

(* What an answer that passes _preflight_initial_request_projection_v2 is. *)
LEMMA PreflightMeans ==
  ASSUME NEW output, NEW current, NEW recent, NEW messages,
         PreflightFailure(output, current, recent, messages) = Nothing
  PROVE  /\ OutputIsShaped(output)
         /\ output.message = current
         /\ SourcesVisible(output, current, recent)
         /\ \A ref \in output.context.refs : Readable(messages, ref)
         /\ \A i \in DOMAIN output.context.resolved :
              Traced(messages, output.context.resolved[i])
         /\ \A i \in DOMAIN output.candidates :
              Traced(messages, output.candidates[i].inputs[1])
<1>1. OutputFailure(output) = Nothing
  BY DEF PreflightFailure
<1>2. OutputIsShaped(output)
  <2> DEFINE checks == <<
    Check(~HasPrivateState(output), "TRUSTED_OR_PRIVATE_FIELD_PRESENT"),
    Check(output.shape # "OTHER_VERSION", "MODEL_SCHEMA_VERSION_INVALID"),
    Check(TypesAreExact(output), "MODEL_OUTPUT_SCHEMA_INVALID"),
    Check(output.move.arguments # Nothing => "customer_id" \notin DOMAIN output.move.arguments,
          "TRUSTED_OR_PRIVATE_FIELD_PRESENT"),
    Check(OutputIsShaped(output), "MODEL_OUTPUT_SCHEMA_INVALID"),
    Check(MatchesItsRebuild(output), "MODEL_OUTPUT_SCHEMA_INVALID")>>
  <2>1. FirstFailure(checks) = Nothing
    BY <1>1 DEF OutputFailure
  <2>2. DOMAIN checks = 1..6
    OBVIOUS
  <2>5. \A i \in 1..6 : checks[i].code # Nothing
    BY NothingIsNoFailure DEF Check, FailureCode
  <2>3. checks[5].holds = OutputIsShaped(output)
    BY DEF Check
  <2> HIDE DEF checks
  <2>4. \A i \in DOMAIN checks : checks[i].holds
    BY <2>1, <2>2, <2>5, FirstFailureIsFirst
  <2> QED
    BY <2>2, <2>3, <2>4
<1>3. "SOURCE_PROVENANCE_INVALID" # Nothing
  BY NothingIsNoFailure DEF FailureCode
<1> QED
  BY <1>1, <1>2, <1>3 DEF PreflightFailure

(* The one entry of a set that has at most one, none when it is empty.     *)
LEMMA OnlyMeans ==
  ASSUME NEW set, Nothing \notin set, \A a, b \in set : a = b
  PROVE  /\ \A x \in set : Only(set) = x
         /\ Only(set) # Nothing => Only(set) \in set
<1>1. CASE set = {}
  BY <1>1, FS_EmptySet DEF Only
<1>2. ASSUME NEW x \in set
      PROVE  Only(set) = x
  <2>1. set = {x}
    OBVIOUS
  <2>2. Cardinality(set) = 1
    BY <2>1, FS_Singleton
  <2> QED
    BY <2>1, <2>2 DEF Only
<1> QED
  BY <1>1, <1>2

----------------------------------------------------------------------------
(* A candidate is accepted when nothing is uncertain, and its one input    *)
(* names an order.                                                         *)
LEMMA AcceptedMeans ==
  ASSUME NEW candidate, NEW output, RejectionReason(candidate, output) = Nothing
  PROVE  /\ \A u \in output.context.uncertainties :
              u.reason \notin {"MISSING_REFERENCE", "MULTIPLE_PLAUSIBLE_REFERENCES"}
         /\ Len(candidate.inputs) = 1
         /\ Normalize(candidate.inputs[1].value) # Nothing
<1> DEFINE uncertain == {u.reason : u \in output.context.uncertainties}
           one == Len(candidate.inputs) = 1
           missing == "MISSING_REFERENCE" \notin uncertain
           plausible == "MULTIPLE_PLAUSIBLE_REFERENCES" \notin uncertain
           claimed == one => /\ candidate.inputs[1].authority = "USER_CLAIM"
                             /\ candidate.inputs[1].ref = output.message
           named == one => Normalize(candidate.inputs[1].value) # Nothing
           checks == <<Check(missing, "REFERENCE_UNRESOLVED"),
                       Check(plausible, "REFERENCE_AMBIGUOUS"),
                       Check(one, "REQUIRED_INPUT_MISSING"),
                       Check(claimed, "REQUIRED_INPUT_MISSING"),
                       Check(named, "INPUT_VALUE_INVALID")>>
<1>1. FirstFailure(checks) = Nothing
  BY DEF RejectionReason
<1> HIDE DEF missing, plausible, one, claimed, named
<1>2. DOMAIN checks = 1..5
  OBVIOUS
<1>3. \A i \in 1..5 : checks[i].code # Nothing
  BY NothingIsNoFailure DEF Check, FailureCode
<1>4. /\ checks[1].holds = missing /\ checks[2].holds = plausible
      /\ checks[3].holds = one /\ checks[5].holds = named
  BY DEF Check
<1> HIDE DEF checks
<1>5. \A i \in DOMAIN checks : checks[i].holds
  BY <1>1, <1>2, <1>3, FirstFailureIsFirst
<1>6. missing /\ plausible /\ one /\ named
  BY <1>2, <1>4, <1>5
<1> QED
  BY <1>6 DEF missing, plausible, one, named

(* The graphs are those of the accepted candidates, one each, in order.    *)
Place(output) == InOrder(AcceptedAt(output))
LEMMA GraphsAreExact ==
  ASSUME NEW output, IsOutput(output), NEW now
  PROVE  /\ Cardinality(AcceptedAt(output)) \in Nat
         /\ DOMAIN Graphs(output, now) = 1..Cardinality(AcceptedAt(output))
         /\ \A n \in DOMAIN Graphs(output, now) :
              /\ Place(output)[n] \in AcceptedAt(output)
              /\ Graphs(output, now)[n] =
                   InitialGraph(output.candidates[Place(output)[n]], output, now)
         /\ \A n, k \in DOMAIN Graphs(output, now) :
              Place(output)[n] = Place(output)[k] => n = k
         /\ \A i \in AcceptedAt(output) :
              \E n \in DOMAIN Graphs(output, now) : Place(output)[n] = i
<1> DEFINE seq == output.candidates
           at == AcceptedAt(output)
<1>1. at \subseteq Nat /\ IsFiniteSet(at)
  <2>1. Len(seq) \in Nat /\ at \subseteq 1..Len(seq)
    BY DEF IsOutput, IsSequence, AcceptedAt
  <2> HIDE DEF seq, at
  <2>2. IsFiniteSet(1..Len(seq))
    BY <2>1, FS_Interval
  <2>3. IsFiniteSet(at)
    BY <2>1, <2>2, FS_Subset
  <2> QED
    BY <2>1, <2>3
<1>2. /\ Cardinality(at) \in Nat
      /\ DOMAIN Place(output) = 1..Cardinality(at)
      /\ \A n \in DOMAIN Place(output) : Place(output)[n] \in at
      /\ \A n, k \in DOMAIN Place(output) : Place(output)[n] = Place(output)[k] => n = k
      /\ \A i \in at : \E n \in DOMAIN Place(output) : Place(output)[n] = i
  <2> HIDE DEF at
  <2> QED
    BY <1>1, InOrderIsExact DEF Place, at
<1>3. /\ DOMAIN Graphs(output, now) = DOMAIN Place(output)
      /\ \A n \in DOMAIN Place(output) :
           Graphs(output, now)[n] = InitialGraph(seq[Place(output)[n]], output, now)
  BY DEF Graphs, Retained, Place
<1> QED
  BY <1>2, <1>3

----------------------------------------------------------------------------
(* What the Reducer returns.                                               *)
Routable(output, now) == Len(output.candidates) = 1 /\ Len(Graphs(output, now)) = 1
ClosureOf(output, messages, now) ==
  Closure(output, messages, Decisions(output), Graphs(output, now), Routable(output, now), now)

LEMMA ReductionMeans ==
  ASSUME NEW output, NEW messages, NEW recent, NEW now,
         NEW d, d = Reduce(output, messages, recent, now)
  PROVE  \/ d.kind = "REFUSED"
         \/ /\ PreflightFailure(output, CurrentRef, recent, messages) = Nothing
            /\ d.closure = ClosureOf(output, messages, now)
            /\ \/ d.kind = "NO_TASK" /\ NoTaskIsClean(d.closure)
               \/ d.kind = "UNROUTED"
               \/ /\ d.kind = "ROUTABLE" /\ Routable(output, now)
                  /\ d.graph = Graphs(output, now)[1]
                  /\ d.moveRef = MoveRef /\ d.move = output.move
                  /\ RoutableIsExact(d.closure, d.graph, MoveRef, d.move)
<1>1. CASE PreflightFailure(output, CurrentRef, recent, messages) # Nothing
  BY <1>1 DEF Reduce, Refused
<1>2. CASE PreflightFailure(output, CurrentRef, recent, messages) = Nothing
  <2> DEFINE decisions == Decisions(output)
             graphs == Graphs(output, now)
             closure == ClosureOf(output, messages, now)
             closes == /\ AllocationsAreDistinct(output)
                       /\ \A i \in DOMAIN graphs : GraphIsInitial(graphs[i])
                       /\ ClosureIsDurable(output, decisions, Deltas(graphs), now)
                       /\ RecordIsClosed(closure.record) /\ ClosureIsExact(closure)
             decision ==
               IF graphs = <<>> THEN [kind |-> "NO_TASK", closure |-> closure]
               ELSE IF Routable(output, now)
                 THEN [kind |-> "ROUTABLE", closure |-> closure, graph |-> graphs[1],
                       moveRef |-> MoveRef, move |-> output.move]
                 ELSE [kind |-> "UNROUTED", closure |-> closure, graphs |-> graphs]
             exact ==
               IF graphs = <<>> THEN NoTaskIsClean(closure)
               ELSE IF Routable(output, now)
                 THEN RoutableIsExact(closure, graphs[1], MoveRef, output.move)
               ELSE UnroutedIsExact(closure, graphs)
  <2>1. d = IF closes /\ exact THEN decision ELSE Refused("DURABLE_CLOSURE_COMMIT_FAILED")
    BY <1>2 DEF Reduce, ReduceTraced, ClosureOf, Routable
  <2>2. CASE ~(closes /\ exact)
    <3> HIDE DEF closes, exact, decision
    <3> QED BY <2>1, <2>2 DEF Refused
  <2>3. CASE closes /\ exact
    <3>1. d = decision /\ exact
      BY <2>1, <2>3
    <3> HIDE DEF closure, graphs
    <3> QED
      BY <1>2, <3>1 DEF graphs, closure
  <2> QED
    BY <2>2, <2>3
<1> QED
  BY <1>1, <1>2

(* The fields of a record the Reducer fills.                               *)
LEMMA RecordFields ==
  ASSUME NEW output, NEW messages, NEW now
  PROVE  LET record == ClosureOf(output, messages, now).record
             routable == Routable(output, now)
         IN  /\ record.id = RecordId /\ record.run = Run /\ record.at = now
             /\ record.message = output.message
             /\ record.context = DurableContext(messages, output.context)
             /\ DOMAIN record.candidates = DOMAIN output.candidates
             /\ \A i \in DOMAIN output.candidates :
                  record.candidates[i] = DurableCandidate(messages, output.candidates[i])
             /\ record.decisions = Decisions(output)
             /\ record.base = IF routable THEN output.move.base ELSE 0
             /\ record.validated = IF routable THEN 1 ELSE 0
             /\ record.move = IF routable THEN MoveRef ELSE Nothing
             /\ record.accepted = Select(Deltas(Graphs(output, now)), "id")
BY DEF ClosureOf, Closure

----------------------------------------------------------------------------
(* The Run can read one Message: the answer that was traced refers to no   *)
(* other, and shows each of its values in the text of that one.            *)
OneMessage(text) == [ref \in {CurrentRef} |-> text]

LEMMA TracedMeans ==
  ASSUME NEW output, IsOutput(output), NEW text \in Seq(Token),
         PreflightFailure(output, CurrentRef, {}, OneMessage(text)) = Nothing
  PROVE  /\ output.message = CurrentRef /\ output.context.refs = {CurrentRef}
         /\ \A i \in DOMAIN output.context.resolved :
              LET claim == output.context.resolved[i]
              IN  /\ claim.ref = CurrentRef /\ claim.quote \in Seq(Token)
                  /\ ShowsValue(text, claim.quote, claim.value)
         /\ \A u \in output.context.uncertainties : u.refs \subseteq {CurrentRef}
         /\ output.move.base = 0
         /\ \A i \in DOMAIN output.candidates :
              LET input == output.candidates[i].inputs[1]
              IN  /\ input.ref = CurrentRef /\ input.quote \in Seq(Token)
                  /\ ShowsValue(text, input.quote, input.value)
<1> DEFINE messages == OneMessage(text)
<1>1. /\ OutputIsShaped(output) /\ output.message = CurrentRef
      /\ SourcesVisible(output, CurrentRef, {})
      /\ \A ref \in output.context.refs : Readable(messages, ref)
      /\ \A i \in DOMAIN output.context.resolved :
           Traced(messages, output.context.resolved[i])
      /\ \A i \in DOMAIN output.candidates :
           Traced(messages, output.candidates[i].inputs[1])
  <2> HIDE DEF messages
  <2> QED BY PreflightMeans DEF messages
<1>2. DOMAIN messages = {CurrentRef} /\ messages[CurrentRef] = text
  BY DEF OneMessage
<1> HIDE DEF messages
<1>3. output.context.refs = {CurrentRef}
  BY <1>1 DEF OutputIsShaped, SourcesVisible
<1>4. ASSUME NEW i \in DOMAIN output.context.resolved
      PROVE  LET claim == output.context.resolved[i]
             IN  /\ claim.ref = CurrentRef /\ claim.quote \in Seq(Token)
                 /\ ShowsValue(text, claim.quote, claim.value)
  <2> DEFINE claim == output.context.resolved[i]
  <2>1. Traced(messages, claim)
    BY <1>1
  <2>2. IsClaim(claim)
    BY DEF IsOutput
  <2> HIDE DEF claim
  <2>3. claim.ref = CurrentRef
    BY <2>1, <1>2 DEF Traced, Readable
  <2>4. ShowsValue(text, claim.quote, claim.value)
    BY <2>1, <2>3, <1>2 DEF Traced
  <2> QED
    BY <2>2, <2>3, <2>4 DEF IsClaim, claim
<1>5. \A u \in output.context.uncertainties : u.refs \subseteq {CurrentRef}
  BY <1>1, <1>3 DEF OutputIsShaped, ContextIsShaped, UncertaintyIsShaped
<1>6. ASSUME NEW i \in DOMAIN output.candidates
      PROVE  LET input == output.candidates[i].inputs[1]
             IN  /\ input.ref = CurrentRef /\ input.quote \in Seq(Token)
                 /\ ShowsValue(text, input.quote, input.value)
  <2> DEFINE inputs == output.candidates[i].inputs
  <2>1. Traced(messages, inputs[1])
    BY <1>1
  <2>2. Len(inputs) = 1
    BY <1>1 DEF OutputIsShaped, CandidateIsShaped
  <2>3. IsSequence(inputs) /\ \A j \in DOMAIN inputs : IsClaim(inputs[j])
    BY DEF IsOutput
  <2> HIDE DEF inputs
  <2>4. IsClaim(inputs[1])
    BY <2>2, <2>3 DEF IsSequence
  <2>5. inputs[1].ref = CurrentRef
    BY <2>1, <1>2 DEF Traced, Readable
  <2>6. ShowsValue(text, inputs[1].quote, inputs[1].value)
    BY <2>1, <2>5, <1>2 DEF Traced
  <2> QED
    BY <2>4, <2>5, <2>6 DEF IsClaim, inputs
<1> QED
  BY <1>1, <1>3, <1>4, <1>5, <1>6 DEF OutputIsShaped

(* The messages a record of such an answer names.                          *)
LEMMA ReferencesOneMessage ==
  ASSUME NEW output, IsOutput(output), NEW text \in Seq(Token), NEW now,
         PreflightFailure(output, CurrentRef, {}, OneMessage(text)) = Nothing
  PROVE  ReferencedMessages(ClosureOf(output, OneMessage(text), now).record) = {CurrentRef}
<1> DEFINE messages == OneMessage(text)
           record == ClosureOf(output, messages, now).record
<1>1. /\ record.message = output.message
      /\ record.context = DurableContext(messages, output.context)
      /\ DOMAIN record.candidates = DOMAIN output.candidates
      /\ \A i \in DOMAIN output.candidates :
           record.candidates[i] = DurableCandidate(messages, output.candidates[i])
  BY RecordFields
<1> HIDE DEF record, messages
<1>2. /\ record.context.refs = output.context.refs
      /\ record.context.uncertainties = output.context.uncertainties
      /\ DOMAIN record.context.resolved = DOMAIN output.context.resolved
      /\ \A i \in DOMAIN output.context.resolved :
           record.context.resolved[i].ref = output.context.resolved[i].ref
  BY <1>1 DEF DurableContext, DurableClaim
<1>3. \A i \in DOMAIN output.candidates :
        record.candidates[i].input.ref = output.candidates[i].inputs[1].ref
  <2> TAKE i \in DOMAIN output.candidates
  <2>1. record.candidates[i] = DurableCandidate(messages, output.candidates[i])
    BY <1>1
  <2>2. record.candidates[i].input = DurableClaim(messages, output.candidates[i].inputs[1])
    BY <2>1 DEF DurableCandidate
  <2> QED
    BY <2>2 DEF DurableClaim
<1>4. /\ output.message = CurrentRef /\ output.context.refs = {CurrentRef}
      /\ \A i \in DOMAIN output.context.resolved :
           output.context.resolved[i].ref = CurrentRef
      /\ \A u \in output.context.uncertainties : u.refs \subseteq {CurrentRef}
      /\ \A i \in DOMAIN output.candidates : output.candidates[i].inputs[1].ref = CurrentRef
  BY TracedMeans
<1>5. ReferencedMessages(record) = {CurrentRef}
  <2>1. \A i \in DOMAIN record.context.resolved :
          record.context.resolved[i].ref = CurrentRef
    BY <1>2, <1>4
  <2>2. \A i \in DOMAIN record.candidates : record.candidates[i].input.ref = CurrentRef
    BY <1>1, <1>3, <1>4
  <2>3. \A u \in record.context.uncertainties : u.refs \subseteq {CurrentRef}
    BY <1>2, <1>4
  <2>4. record.message = CurrentRef /\ record.context.refs = {CurrentRef}
    BY <1>1, <1>2, <1>4
  <2> QED
    BY <2>1, <2>2, <2>3, <2>4 DEF ReferencedMessages
<1> QED
  BY <1>5 DEF record, messages

----------------------------------------------------------------------------
(* A routable answer has one candidate, and the graph is the initial one   *)
(* of that candidate.                                                      *)
LEMMA RoutableGraph ==
  ASSUME NEW output, IsOutput(output), NEW now, Routable(output, now)
  PROVE  /\ DOMAIN output.candidates = {1}
         /\ RejectionReason(output.candidates[1], output) = Nothing
         /\ Graphs(output, now)[1] = InitialGraph(output.candidates[1], output, now)
<1>1. DOMAIN output.candidates = {1}
  BY DEF Routable, IsOutput, IsSequence
<1>2. AcceptedAt(output) \subseteq {1}
  BY <1>1 DEF AcceptedAt
<1>3. /\ Cardinality(AcceptedAt(output)) \in Nat
      /\ DOMAIN Graphs(output, now) = 1..Cardinality(AcceptedAt(output))
      /\ \A n \in DOMAIN Graphs(output, now) :
           /\ Place(output)[n] \in AcceptedAt(output)
           /\ Graphs(output, now)[n] =
                InitialGraph(output.candidates[Place(output)[n]], output, now)
  BY GraphsAreExact
<1>4. Graphs(output, now) \in Seq({Graphs(output, now)[n] : n \in DOMAIN Graphs(output, now)})
  BY <1>3 DEF Graphs
<1>5. 1 \in DOMAIN Graphs(output, now)
  BY <1>3, <1>4 DEF Routable
<1>6. Place(output)[1] = 1 /\ 1 \in AcceptedAt(output)
  BY <1>2, <1>3, <1>5
<1> QED
  BY <1>1, <1>3, <1>5, <1>6 DEF AcceptedAt

(* The identities of an initial graph, and those of its record.            *)
LEMMA IdentitiesDiffer ==
  ASSUME NEW c
  PROVE  Distinct(<<RecordId, MoveRef, Identity("delta", c), Identity("task", c),
                    Identity("unit", c), Identity("binding", c)>>)
<1> DEFINE ids == <<RecordId, MoveRef, Identity("delta", c), Identity("task", c),
                    Identity("unit", c), Identity("binding", c)>>
<1>1. DOMAIN ids = 1..6 /\ IsSequence(ids)
  BY DEF IsSequence, ToSet
<1>2. /\ ids[1][1] = "record" /\ ids[2][1] = "move" /\ ids[3][1] = "delta"
      /\ ids[4][1] = "task" /\ ids[5][1] = "unit" /\ ids[6][1] = "binding"
  BY DEF RecordId, MoveRef, Identity
<1> HIDE DEF ids
<1>3. \A i, j \in DOMAIN ids : ids[i] = ids[j] => i = j
  BY <1>1, <1>2
<1> QED
  BY <1>1, <1>3, DistinctMeans DEF ids

(* The fields of an initial graph.                                         *)
LEMMA GraphFields ==
  ASSUME NEW c, NEW output, NEW now, NEW g, g = InitialGraph(c, output, now)
  PROVE  LET ids == Allocation(c.id)
         IN  /\ g.delta.id = ids.delta /\ g.delta.candidate = c.id
             /\ g.delta.message = output.message /\ g.delta.goal = c.goal
             /\ g.delta.bindings = <<ids.binding>> /\ g.delta.at = now
             /\ g.delta.task = ids.task /\ g.delta.base = 0 /\ g.delta.result = 1
             /\ g.binding.id = ids.binding
             /\ g.binding.value = Normalize(c.inputs[1].value)
             /\ g.binding.authority = "USER_CLAIM"
             /\ g.binding.sources = <<output.message>> /\ g.binding.at = now
             /\ g.task.id = ids.task /\ g.task.owner = Owner /\ g.task.status = "ACTIVE"
             /\ g.task.version = 1 /\ g.task.outcome = Nothing /\ g.task.at = now
             /\ g.unit.id = ids.unit /\ g.unit.task = ids.task /\ g.unit.goal = c.goal
             /\ g.unit.sources = <<output.message>> /\ g.unit.bindings = <<ids.binding>>
             /\ g.unit.status = "ACTIVE" /\ g.unit.version = 1 /\ g.unit.refs = {}
             /\ g.unit.at = now
<1> DEFINE ids == Allocation(c.id)
<1>1. g.delta = [id |-> ids.delta, candidate |-> c.id, message |-> output.message,
                 goal |-> c.goal, bindings |-> <<ids.binding>>, at |-> now,
                 task |-> ids.task, base |-> 0, result |-> 1]
  BY DEF InitialGraph
<1>2. g.binding = [id |-> ids.binding, value |-> Normalize(c.inputs[1].value),
                   authority |-> "USER_CLAIM", sources |-> <<output.message>>, at |-> now]
  BY DEF InitialGraph
<1>3. g.task = [id |-> ids.task, owner |-> Owner, status |-> "ACTIVE", version |-> 1,
                outcome |-> Nothing, at |-> now]
  BY DEF InitialGraph
<1>4. g.unit = [id |-> ids.unit, task |-> ids.task, goal |-> c.goal,
                sources |-> <<output.message>>, bindings |-> <<ids.binding>>,
                status |-> "ACTIVE", version |-> 1, refs |-> {}, at |-> now]
  BY DEF InitialGraph
<1> HIDE DEF ids
<1> QED
  BY <1>1, <1>2, <1>3, <1>4 DEF ids

(* The roots of a Run that handles one Message.                            *)
RootsOfRun(roots) ==
  /\ roots.owner = Owner /\ DOMAIN roots.messages = {CurrentRef}
  /\ roots.run = Run /\ roots.runStatus = "RUNNING"
InTime(roots, now) == now >= roots.receivedAt /\ now >= roots.startedAt

LEMMA RootsTakeRecord ==
  ASSUME NEW output, IsOutput(output), NEW text \in Seq(Token), NEW now,
         PreflightFailure(output, CurrentRef, {}, OneMessage(text)) = Nothing,
         NEW roots, RootsOfRun(roots)
  PROVE  RootsAreValid(ClosureOf(output, OneMessage(text), now).record, roots)
           <=> InTime(roots, now)
<1> DEFINE record == ClosureOf(output, OneMessage(text), now).record
<1>1. ReferencedMessages(record) = {CurrentRef}
  BY ReferencesOneMessage
<1>2. record.run = Run /\ record.at = now
  BY RecordFields
<1> HIDE DEF record
<1>3. RootsAreValid(record, roots) <=> InTime(roots, now)
  BY <1>1, <1>2 DEF RootsAreValid, RootsOfRun, InTime
<1> QED
  BY <1>3 DEF record

(* The record port takes what the Reducer decided.                         *)
LEMMA PortTakesRoutable ==
  ASSUME NEW output, IsOutput(output), NEW text \in Seq(Token), NEW now,
         NEW d, d = Reduce(output, OneMessage(text), {}, now), d.kind = "ROUTABLE",
         NEW roots, RootsOfRun(roots)
  PROVE  InitialGraphCommandIsValid(d.closure.record, d.graph, roots) <=> InTime(roots, now)
<1> DEFINE record == d.closure.record
           c == output.candidates[1]
           messages == OneMessage(text)
<1>1. /\ PreflightFailure(output, CurrentRef, {}, messages) = Nothing
      /\ d.closure = ClosureOf(output, messages, now)
      /\ Routable(output, now) /\ d.graph = Graphs(output, now)[1]
      /\ d.move = output.move /\ RoutableIsExact(d.closure, d.graph, MoveRef, d.move)
  <2> HIDE DEF messages
  <2> QED BY ReductionMeans DEF messages
<1>2. /\ DOMAIN output.candidates = {1} /\ RejectionReason(c, output) = Nothing
      /\ d.graph = InitialGraph(c, output, now)
  BY <1>1, RoutableGraph
<1>3. Normalize(c.inputs[1].value) # Nothing
  BY <1>2, AcceptedMeans
<1>4. /\ output.message = CurrentRef /\ output.move.base = 0
      /\ c.inputs[1].ref = CurrentRef
  BY <1>1, <1>2, TracedMeans
<1>5. /\ record.id = RecordId /\ record.at = now /\ record.message = CurrentRef
      /\ record.base = 0 /\ record.validated = 1 /\ record.move = MoveRef
      /\ record.decisions = Decisions(output)
      /\ record.candidates[1] = DurableCandidate(messages, c)
  BY <1>1, <1>2, <1>4, RecordFields
<1>6. RootsAreValid(record, roots) <=> InTime(roots, now)
  BY <1>1, RootsTakeRecord
<1> HIDE DEF record, messages, c
<1>7. /\ record.candidates[1].id = c.id /\ record.candidates[1].goal = c.goal
      /\ record.candidates[1].input.value = c.inputs[1].value
      /\ record.candidates[1].input.ref = CurrentRef
  <2>1. record.candidates[1].input = DurableClaim(messages, c.inputs[1])
    BY <1>5 DEF DurableCandidate
  <2> QED
    BY <1>4, <1>5, <2>1 DEF DurableCandidate, DurableClaim
<1>8. record.decisions[1] = [candidate |-> record.candidates[1].id, reason |-> Nothing]
  BY <1>2, <1>5, <1>7 DEF Decisions, c
<1>9. /\ Len(record.candidates) = 1 /\ Len(record.decisions) = 1
      /\ record.accepted = <<d.graph.delta.id>>
  BY <1>1 DEF RoutableIsExact, record
<1> DEFINE ids == Allocation(c.id)
<1>10. /\ d.graph.delta.id = ids.delta /\ d.graph.delta.candidate = c.id
       /\ d.graph.delta.message = output.message /\ d.graph.delta.goal = c.goal
       /\ d.graph.delta.bindings = <<ids.binding>> /\ d.graph.delta.at = now
       /\ d.graph.delta.task = ids.task /\ d.graph.delta.base = 0 /\ d.graph.delta.result = 1
       /\ d.graph.binding.id = ids.binding
       /\ d.graph.binding.value = Normalize(c.inputs[1].value)
       /\ d.graph.binding.authority = "USER_CLAIM"
       /\ d.graph.binding.sources = <<output.message>> /\ d.graph.binding.at = now
       /\ d.graph.task.id = ids.task /\ d.graph.task.owner = Owner /\ d.graph.task.status = "ACTIVE"
       /\ d.graph.task.version = 1 /\ d.graph.task.outcome = Nothing /\ d.graph.task.at = now
       /\ d.graph.unit.id = ids.unit /\ d.graph.unit.task = ids.task /\ d.graph.unit.goal = c.goal
       /\ d.graph.unit.sources = <<output.message>> /\ d.graph.unit.bindings = <<ids.binding>>
       /\ d.graph.unit.status = "ACTIVE" /\ d.graph.unit.version = 1 /\ d.graph.unit.refs = {}
       /\ d.graph.unit.at = now
  BY <1>2, GraphFields
<1>11. Distinct(<<record.id, record.move, ids.delta, ids.task, ids.unit, ids.binding>>)
  BY <1>5, IdentitiesDiffer DEF Allocation
<1> HIDE DEF ids
<1>12. AcceptedCommandIsValid(record, d.graph.delta)
  BY <1>4, <1>5, <1>7, <1>8, <1>9, <1>10, NothingIsNoReference DEF AcceptedCommandIsValid
<1>13. InitialGraphCommandIsValid(record, d.graph, roots) <=> RootsAreValid(record, roots)
  <2>1. {d.graph.delta.at, d.graph.task.at, d.graph.unit.at, d.graph.binding.at} = {record.at}
    BY <1>5, <1>10
  <2>2. Distinct(<<record.id, record.move, d.graph.delta.id, d.graph.task.id,
                   d.graph.unit.id, d.graph.binding.id>>)
    <3>1. /\ d.graph.delta.id = ids.delta /\ d.graph.task.id = ids.task
          /\ d.graph.unit.id = ids.unit /\ d.graph.binding.id = ids.binding
      BY <1>10
    <3> QED
      BY <1>11, <3>1, Zenon
  <2> QED
    BY <1>3, <1>4, <1>5, <1>7, <1>10, <1>12, <2>1, <2>2
    DEF InitialGraphCommandIsValid, RootsAreValid, RootsOfRun
<1> QED
  BY <1>6, <1>13 DEF record

LEMMA PortTakesNoTask ==
  ASSUME NEW output, IsOutput(output), NEW text \in Seq(Token), NEW now,
         NEW d, d = Reduce(output, OneMessage(text), {}, now), d.kind = "NO_TASK",
         NEW roots, RootsOfRun(roots)
  PROVE  NoTaskCommandIsValid(d.closure.record, roots) <=> InTime(roots, now)
<1> DEFINE messages == OneMessage(text)
<1>1. /\ PreflightFailure(output, CurrentRef, {}, messages) = Nothing
      /\ d.closure = ClosureOf(output, messages, now)
      /\ NoTaskIsClean(d.closure)
  <2> HIDE DEF messages
  <2> QED BY ReductionMeans DEF messages
<1>2. RootsAreValid(d.closure.record, roots) <=> InTime(roots, now)
  BY <1>1, RootsTakeRecord
<1> QED
  BY <1>1, <1>2 DEF NoTaskCommandIsValid, NoTaskIsClean

(* What a record shows of a claim: a quote found in the text, once.        *)
QuotedFrom(text, claim, shown) ==
  LET first == shown.span.start + 1
      quoted == SubSeq(text, first, shown.span.end)
  IN  /\ shown.value = claim.value /\ shown.ref = CurrentRef
      /\ first \in 1..shown.span.end /\ shown.span.end <= Len(text)
      /\ quoted = shown.digest /\ quoted # text
      /\ \A i \in 1..(Len(text) - Len(quoted) + 1) :
           SubSeq(text, i, i + Len(quoted) - 1) = quoted => i = first
      /\ IF Normalize(claim.value) = Nothing
           THEN \E i \in DOMAIN quoted : quoted[i] = claim.value
           ELSE /\ QuotesOrder(quoted, Normalize(claim.value))
                /\ QuotesOrder(text, Normalize(claim.value))

LEMMA ClaimIsQuoted ==
  ASSUME NEW text \in Seq(Token), NEW claim, claim.ref = CurrentRef,
         claim.quote \in Seq(Token), ShowsValue(text, claim.quote, claim.value)
  PROVE  QuotedFrom(text, claim, DurableClaim(OneMessage(text), claim))
<1> DEFINE shown == DurableClaim(OneMessage(text), claim)
<1>1. /\ shown.value = claim.value /\ shown.ref = CurrentRef
      /\ shown.digest = claim.quote /\ shown.span = Span(text, claim.quote)
  <2>1. OneMessage(text)[claim.ref] = text
    BY DEF OneMessage
  <2> QED
    BY <2>1 DEF DurableClaim
<1> HIDE DEF shown
<1>2. PICK quote, value : quote = claim.quote /\ value = claim.value
  OBVIOUS
<1>3. PICK span : span = Span(text, quote)
  OBVIOUS
<1>4. quote \in Seq(Token) /\ ShowsValue(text, quote, value)
  BY <1>2
<1>5. /\ span.end <= Len(text) /\ span.start + 1 \in 1..span.end
      /\ SubSeq(text, span.start + 1, span.end) = quote /\ quote # text
      /\ Occurrences(text, quote) = {span.start + 1}
      /\ Normalize(value) # Nothing => QuotesOrder(quote, Normalize(value))
                                      /\ QuotesOrder(text, Normalize(value))
  BY <1>3, <1>4, QuoteIsFound
<1>6. ASSUME NEW i \in 1..(Len(text) - Len(quote) + 1),
             SubSeq(text, i, i + Len(quote) - 1) = quote
      PROVE  i = span.start + 1
  <2>1. Len(text) \in Nat /\ Len(quote) \in Nat /\ Len(quote) > 0
    BY <1>4 DEF ShowsValue
  <2>2. i \in 1..Len(text) /\ i + Len(quote) - 1 <= Len(text)
    BY <2>1
  <2>3. i \in Occurrences(text, quote)
    BY <1>6, <2>2 DEF Occurrences
  <2> QED
    BY <1>5, <2>3
<1>7. Normalize(value) = Nothing => \E i \in DOMAIN quote : quote[i] = value
  BY <1>4 DEF ShowsValue
<1>8. /\ shown.value = value /\ shown.digest = quote /\ shown.span = span
  BY <1>1, <1>2, <1>3
<1>9. QuotedFrom(text, claim, shown)
  BY <1>1, <1>2, <1>5, <1>6, <1>7, <1>8 DEF QuotedFrom
<1> QED
  BY <1>9 DEF shown

(* Every input of a candidate and every resolved reference is so shown.    *)
LEMMA RecordQuotes ==
  ASSUME NEW output, IsOutput(output), NEW text \in Seq(Token), NEW now,
         NEW d, d = Reduce(output, OneMessage(text), {}, now), d.kind # "REFUSED"
  PROVE  LET record == d.closure.record
         IN  /\ \A i \in DOMAIN record.candidates :
                  /\ i \in DOMAIN output.candidates
                  /\ QuotedFrom(text, output.candidates[i].inputs[1],
                                record.candidates[i].input)
             /\ \A i \in DOMAIN record.context.resolved :
                  QuotedFrom(text, output.context.resolved[i], record.context.resolved[i])
<1> DEFINE messages == OneMessage(text)
           record == ClosureOf(output, messages, now).record
<1>1. /\ PreflightFailure(output, CurrentRef, {}, messages) = Nothing
      /\ d.closure.record = record
  <2> HIDE DEF messages
  <2> QED BY ReductionMeans DEF messages
<1>2. /\ record.context = DurableContext(messages, output.context)
      /\ DOMAIN record.candidates = DOMAIN output.candidates
      /\ \A i \in DOMAIN output.candidates :
           record.candidates[i] = DurableCandidate(messages, output.candidates[i])
  BY RecordFields
<1> HIDE DEF record
<1>3. ASSUME NEW i \in DOMAIN record.candidates
      PROVE  /\ i \in DOMAIN output.candidates
             /\ QuotedFrom(text, output.candidates[i].inputs[1], record.candidates[i].input)
  <2>1. PICK claim : claim = output.candidates[i].inputs[1]
    OBVIOUS
  <2>2. /\ claim.ref = CurrentRef /\ claim.quote \in Seq(Token)
        /\ ShowsValue(text, claim.quote, claim.value)
    BY <1>1, <1>2, <2>1, TracedMeans
  <2>3. record.candidates[i].input = DurableClaim(messages, claim)
    <3>1. record.candidates[i] = DurableCandidate(messages, output.candidates[i])
      BY <1>2
    <3> QED
      BY <2>1, <3>1 DEF DurableCandidate
  <2>4. QuotedFrom(text, claim, DurableClaim(messages, claim))
    BY <2>2, ClaimIsQuoted
  <2> QED
    BY <1>2, <2>1, <2>3, <2>4
<1>4. ASSUME NEW i \in DOMAIN record.context.resolved
      PROVE  QuotedFrom(text, output.context.resolved[i], record.context.resolved[i])
  <2>1. /\ i \in DOMAIN output.context.resolved
        /\ record.context.resolved[i] = DurableClaim(messages, output.context.resolved[i])
    BY <1>2 DEF DurableContext
  <2>2. PICK claim : claim = output.context.resolved[i]
    OBVIOUS
  <2>3. /\ claim.ref = CurrentRef /\ claim.quote \in Seq(Token)
        /\ ShowsValue(text, claim.quote, claim.value)
    BY <1>1, <2>1, <2>2, TracedMeans
  <2>4. QuotedFrom(text, claim, DurableClaim(messages, claim))
    BY <2>3, ClaimIsQuoted
  <2> QED
    BY <2>1, <2>2, <2>4
<1> QED
  BY <1>1, <1>3, <1>4

----------------------------------------------------------------------------
(* The reason of evaluate_control_gateway is that of the first of the nine *)
(* checks, in the order of their priority, that fails.                     *)
FirstFailed(checks) ==
  \/ /\ GateReason(checks) = "ARGUMENT_BINDING_MISMATCH" /\ ~checks.argument_binding_valid
  \/ /\ GateReason(checks) = "SNAPSHOT_MISMATCH" /\ ~checks.snapshot_match
     /\ checks.argument_binding_valid
  \/ /\ GateReason(checks) = "TOOL_NOT_REGISTERED" /\ ~checks.registration_valid
     /\ checks.argument_binding_valid /\ checks.snapshot_match
  \/ /\ GateReason(checks) = "TRUSTED_FIELD_INJECTION" /\ ~checks.trusted_field_valid
     /\ checks.argument_binding_valid /\ checks.snapshot_match
     /\ checks.registration_valid
  \/ /\ GateReason(checks) = "SCHEMA_INVALID" /\ ~checks.schema_valid
     /\ checks.argument_binding_valid /\ checks.snapshot_match
     /\ checks.registration_valid /\ checks.trusted_field_valid
  \/ /\ GateReason(checks) = "BUDGET_EXCEEDED" /\ ~checks.budget_valid
     /\ checks.argument_binding_valid /\ checks.snapshot_match
     /\ checks.registration_valid /\ checks.trusted_field_valid
     /\ checks.schema_valid
  \/ /\ GateReason(checks) = "NO_PROGRESS" /\ ~checks.progress_valid
     /\ checks.argument_binding_valid /\ checks.snapshot_match
     /\ checks.registration_valid /\ checks.trusted_field_valid
     /\ checks.schema_valid /\ checks.budget_valid
  \/ /\ GateReason(checks) = "STATE_VERSION_MISMATCH" /\ ~checks.state_version_valid
     /\ checks.argument_binding_valid /\ checks.snapshot_match
     /\ checks.registration_valid /\ checks.trusted_field_valid
     /\ checks.schema_valid /\ checks.budget_valid
     /\ checks.progress_valid
  \/ /\ GateReason(checks) = "ACTION_REQUIRES_PROPOSAL" /\ ~checks.action_boundary_valid
     /\ checks.argument_binding_valid /\ checks.snapshot_match
     /\ checks.registration_valid /\ checks.trusted_field_valid
     /\ checks.schema_valid /\ checks.budget_valid
     /\ checks.progress_valid /\ checks.state_version_valid

LEMMA GateReasonIsFirst ==
  ASSUME NEW checks
  PROVE  \/ GateReason(checks) = Nothing /\ \A c \in CheckNames : checks[c]
         \/ FirstFailed(checks)
<1> DEFINE seq == <<
    Check(checks.argument_binding_valid, "ARGUMENT_BINDING_MISMATCH"),
    Check(checks.snapshot_match, "SNAPSHOT_MISMATCH"),
    Check(checks.registration_valid, "TOOL_NOT_REGISTERED"),
    Check(checks.trusted_field_valid, "TRUSTED_FIELD_INJECTION"),
    Check(checks.schema_valid, "SCHEMA_INVALID"),
    Check(checks.budget_valid, "BUDGET_EXCEEDED"),
    Check(checks.progress_valid, "NO_PROGRESS"),
    Check(checks.state_version_valid, "STATE_VERSION_MISMATCH"),
    Check(checks.action_boundary_valid, "ACTION_REQUIRES_PROPOSAL")>>
<1>1. GateReason(checks) = FirstFailure(seq)
  BY DEF GateReason
<1>2. DOMAIN seq = 1..9
  OBVIOUS
<1>3. /\ seq[1].code = "ARGUMENT_BINDING_MISMATCH" /\ seq[1].holds = checks.argument_binding_valid
      /\ seq[2].code = "SNAPSHOT_MISMATCH" /\ seq[2].holds = checks.snapshot_match
      /\ seq[3].code = "TOOL_NOT_REGISTERED" /\ seq[3].holds = checks.registration_valid
      /\ seq[4].code = "TRUSTED_FIELD_INJECTION" /\ seq[4].holds = checks.trusted_field_valid
      /\ seq[5].code = "SCHEMA_INVALID" /\ seq[5].holds = checks.schema_valid
      /\ seq[6].code = "BUDGET_EXCEEDED" /\ seq[6].holds = checks.budget_valid
      /\ seq[7].code = "NO_PROGRESS" /\ seq[7].holds = checks.progress_valid
      /\ seq[8].code = "STATE_VERSION_MISMATCH" /\ seq[8].holds = checks.state_version_valid
      /\ seq[9].code = "ACTION_REQUIRES_PROPOSAL" /\ seq[9].holds = checks.action_boundary_valid
  BY DEF Check
<1> HIDE DEF seq
<1>4. CASE FirstFailure(seq) = Nothing /\ \A i \in DOMAIN seq : seq[i].holds
  <2>1. /\ checks.argument_binding_valid
        /\ checks.snapshot_match
        /\ checks.registration_valid
        /\ checks.trusted_field_valid
        /\ checks.schema_valid
        /\ checks.budget_valid
        /\ checks.progress_valid
        /\ checks.state_version_valid
        /\ checks.action_boundary_valid
    BY <1>2, <1>3, <1>4
  <2> QED
    BY <1>1, <1>4, <2>1 DEF CheckNames
<1>5. ASSUME NEW i \in 1..9,
             GateReason(checks) = seq[i].code, ~seq[i].holds,
             \A j \in 1..9 : j < i => seq[j].holds
      PROVE  FirstFailed(checks)
  <2>1. CASE i = 1
    BY <1>3, <1>5, <2>1 DEF FirstFailed
  <2>2. CASE i = 2
    BY <1>3, <1>5, <2>2 DEF FirstFailed
  <2>3. CASE i = 3
    BY <1>3, <1>5, <2>3 DEF FirstFailed
  <2>4. CASE i = 4
    BY <1>3, <1>5, <2>4 DEF FirstFailed
  <2>5. CASE i = 5
    BY <1>3, <1>5, <2>5 DEF FirstFailed
  <2>6. CASE i = 6
    BY <1>3, <1>5, <2>6 DEF FirstFailed
  <2>7. CASE i = 7
    BY <1>3, <1>5, <2>7 DEF FirstFailed
  <2>8. CASE i = 8
    BY <1>3, <1>5, <2>8 DEF FirstFailed
  <2>9. CASE i = 9
    BY <1>3, <1>5, <2>9 DEF FirstFailed
  <2> QED
    BY <2>1, <2>2, <2>3, <2>4, <2>5, <2>6, <2>7, <2>8, <2>9
<1> QED
  BY <1>1, <1>2, <1>4, <1>5, FirstFailureIsFirst

(* In a consistent registry a registration is found under the name it      *)
(* shows, with the tool of the toolset the model saw.                      *)
LEMMA RegistryFinds ==
  ASSUME NEW snapshot, IsSnapshot(snapshot), SnapshotIsConsistent(snapshot),
         NEW g \in snapshot.registrations
  PROVE  /\ CanonicalName(snapshot, g.visible) = g.name
         /\ RegistrationOf(snapshot, g.visible) = g /\ g # Nothing
         /\ VisibleSpec(snapshot, g.visible) \in snapshot.toolset
         /\ VisibleSpec(snapshot, g.visible).name = g.visible
         /\ VisibleSpec(snapshot, g.visible) # Nothing
<1> DEFINE bindings == {n \in snapshot.names : n.visible = g.visible}
           binding == [visible |-> g.visible, canonical |-> g.name]
           named == {h \in snapshot.registrations : h.name = g.name}
           shown == {t \in snapshot.toolset : t.name = g.visible}
<1>1. Nothing \notin snapshot.registrations \cup snapshot.toolset \cup snapshot.names
  BY DEF IsSnapshot
<1>2. /\ \A a, b \in snapshot.toolset : a.name = b.name => a = b
      /\ \A a, b \in snapshot.registrations : a.name = b.name => a = b
      /\ \A a, b \in snapshot.registrations : a.visible = b.visible => a = b
      /\ snapshot.names = {[visible |-> h.visible, canonical |-> h.name] :
                             h \in snapshot.registrations}
      /\ {t.name : t \in snapshot.toolset} = {h.visible : h \in snapshot.registrations}
  BY DEF SnapshotIsConsistent
<1>3. CanonicalName(snapshot, g.visible) = g.name
  <2>1. binding \in bindings
    BY <1>2
  <2>2. \A a, b \in bindings : a = b
    BY <1>2
  <2>3. Only(bindings) = binding
    <3> HIDE DEF bindings, binding
    <3>1. Nothing \notin bindings
      BY <1>1 DEF bindings
    <3> QED
      BY <2>1, <2>2, <3>1, OnlyMeans
  <2>4. binding # Nothing /\ binding.canonical = g.name
    BY <1>1, <2>1
  <2> QED
    BY <2>3, <2>4 DEF CanonicalName
<1>4. Only(named) = g
  <2>1. g \in named /\ Nothing \notin named /\ \A a, b \in named : a = b
    BY <1>1, <1>2
  <2> HIDE DEF named
  <2> QED
    BY <2>1, OnlyMeans
<1>5. PICK t \in snapshot.toolset : t.name = g.visible
  BY <1>2
<1>6. Only(shown) = t
  <2>1. t \in shown /\ Nothing \notin shown /\ \A a, b \in shown : a = b
    BY <1>1, <1>2, <1>5
  <2> HIDE DEF shown
  <2> QED
    BY <2>1, OnlyMeans
<1>7. RegistrationOf(snapshot, g.visible) = g
  BY <1>3, <1>4 DEF RegistrationOf
<1>8. VisibleSpec(snapshot, g.visible) = t
  BY <1>6 DEF VisibleSpec
<1> QED
  BY <1>1, <1>3, <1>5, <1>7, <1>8

(* A name the registry resolves is shown by a registration.                *)
LEMMA RegistryKnows ==
  ASSUME NEW snapshot, IsSnapshot(snapshot), SnapshotIsConsistent(snapshot), NEW name,
         CanonicalName(snapshot, name) # Nothing
  PROVE  \E g \in snapshot.registrations :
           g.visible = name /\ CanonicalName(snapshot, name) = g.name
<1> DEFINE bindings == {n \in snapshot.names : n.visible = name}
<1>1. /\ Nothing \notin bindings
      /\ \A a, b \in snapshot.registrations : a.visible = b.visible => a = b
      /\ snapshot.names = {[visible |-> h.visible, canonical |-> h.name] :
                             h \in snapshot.registrations}
  BY DEF IsSnapshot, SnapshotIsConsistent
<1>2. \A a, b \in bindings : a = b
  BY <1>1
<1>3. Only(bindings) # Nothing
  BY DEF CanonicalName
<1>4. Only(bindings) \in bindings
  <2> HIDE DEF bindings
  <2> QED
    BY <1>1, <1>2, <1>3, OnlyMeans
<1>5. PICK binding : binding = Only(bindings)
  OBVIOUS
<1>6. CanonicalName(snapshot, name) = binding.canonical
  BY <1>3, <1>5 DEF CanonicalName
<1>7. PICK g \in snapshot.registrations :
        binding = [visible |-> g.visible, canonical |-> g.name]
  BY <1>1, <1>4, <1>5
<1>8. binding.visible = name
  BY <1>4, <1>5
<1> HIDE DEF bindings
<1>9. g.visible = name /\ CanonicalName(snapshot, name) = g.name
  BY <1>6, <1>7, <1>8
<1> QED
  BY <1>9

----------------------------------------------------------------------------
(* What the Reducer builds passes every validator of its own.              *)
LEMMA MappedIsSequence ==
  ASSUME NEW n \in Nat, NEW f, f = [i \in 1..n |-> f[i]]
  PROVE  IsSequence(f) /\ DOMAIN f = 1..n /\ Len(f) = n
<1>1. DOMAIN f = 1..n
  OBVIOUS
<1>2. f \in [1..n -> ToSet(f)]
  BY <1>1 DEF ToSet
<1>3. f \in Seq(ToSet(f))
  BY <1>2
<1> QED
  BY <1>1, <1>3 DEF IsSequence

LEMMA MappedIsDistinct ==
  ASSUME NEW n \in Nat, NEW f, f = [i \in 1..n |-> f[i]],
         \A i, j \in 1..n : f[i] = f[j] => i = j
  PROVE  Distinct(f) /\ Cardinality(ToSet(f)) = n
<1>1. IsSequence(f) /\ DOMAIN f = 1..n /\ Len(f) = n
  BY MappedIsSequence
<1>2. Distinct(f)
  BY <1>1, DistinctMeans
<1> QED
  BY <1>1, <1>2 DEF Distinct

(* The identities allocated for a candidate.                               *)
Row(c) == <<Identity("delta", c), Identity("task", c), Identity("unit", c),
            Identity("binding", c)>>

LEMMA RowIsDistinct ==
  ASSUME NEW c
  PROVE  /\ Distinct(Row(c))
         /\ \A x \in ToSet(Row(c)) :
              x[2] = c /\ x[1] \in {"delta", "task", "unit", "binding"}
<1> DEFINE ids == Row(c)
<1>1. DOMAIN ids = 1..4 /\ IsSequence(ids)
  BY DEF IsSequence, ToSet, Row
<1>2. /\ ids[1] = Identity("delta", c) /\ ids[2] = Identity("task", c)
      /\ ids[3] = Identity("unit", c) /\ ids[4] = Identity("binding", c)
  BY DEF Row
<1>3. /\ ids[1][1] = "delta" /\ ids[2][1] = "task" /\ ids[3][1] = "unit" /\ ids[4][1] = "binding"
      /\ \A k \in 1..4 : ids[k][2] = c
  BY <1>2 DEF Identity
<1> HIDE DEF ids
<1>4. \A i, j \in DOMAIN ids : ids[i] = ids[j] => i = j
  BY <1>1, <1>3
<1>5. Distinct(ids)
  BY <1>1, <1>4, DistinctMeans
<1>6. ASSUME NEW k \in 1..4
      PROVE  ids[k][1] \in {"delta", "task", "unit", "binding"}
  <2>1. k = 1 \/ k = 2 \/ k = 3 \/ k = 4
    OBVIOUS
  <2> QED
    BY <1>3, <2>1
<1>7. \A x \in ToSet(ids) : x[2] = c /\ x[1] \in {"delta", "task", "unit", "binding"}
  BY <1>1, <1>3, <1>6 DEF ToSet
<1> QED
  BY <1>5, <1>7 DEF ids

LEMMA RootsAreDistinct ==
  ASSUME NEW own, own \in {<<RecordId>>, <<RecordId, MoveRef>>}
  PROVE  Distinct(own) /\ \A x \in ToSet(own) : x[1] \in {"record", "move"}
<1>1. RecordId[1] = "record" /\ MoveRef[1] = "move"
  BY DEF RecordId, MoveRef, Identity
<1> DEFINE one == <<RecordId>>
           two == <<RecordId, MoveRef>>
<1>2. IsSequence(one) /\ DOMAIN one = {1} /\ one[1] = RecordId
  BY DEF IsSequence, ToSet
<1>3. IsSequence(two) /\ DOMAIN two = 1..2 /\ two[1] = RecordId /\ two[2] = MoveRef
  BY DEF IsSequence, ToSet
<1> HIDE DEF one, two
<1>4. Distinct(one) /\ \A x \in ToSet(one) : x[1] \in {"record", "move"}
  BY <1>1, <1>2, DistinctMeans DEF ToSet
<1>5. \A k \in DOMAIN two : two[k][1] \in {"record", "move"}
  <2>1. ASSUME NEW k \in 1..2 PROVE k = 1 \/ k = 2
    OBVIOUS
  <2> QED
    BY <1>1, <1>3, <2>1
<1>6. \A i, j \in DOMAIN two : two[i] = two[j] => i = j
  <2>1. "record" # "move"
    OBVIOUS
  <2>2. two[1] # two[2]
    BY <1>1, <1>3, <2>1
  <2>3. ASSUME NEW k \in 1..2 PROVE k = 1 \/ k = 2
    OBVIOUS
  <2> QED
    BY <1>3, <2>2, <2>3
<1>7. Distinct(two) /\ \A x \in ToSet(two) : x[1] \in {"record", "move"}
  BY <1>3, <1>5, <1>6, DistinctMeans DEF ToSet
<1>8. own = one \/ own = two
  BY DEF one, two
<1> QED
  BY <1>4, <1>7, <1>8

LEMMA RowsGivenOnce ==
  ASSUME NEW rows, NEW id, \A k \in DOMAIN rows : rows[k] = Row(id[k]),
         \A k, m \in DOMAIN rows : id[k] = id[m] => k = m,
         NEW own, own \in {<<RecordId>>, <<RecordId, MoveRef>>}
  PROVE  GivenOnce(own, rows)
<1>1. Distinct(own) /\ \A x \in ToSet(own) : x[1] \in {"record", "move"}
  BY RootsAreDistinct
<1>2. ASSUME NEW k \in DOMAIN rows
      PROVE  /\ Distinct(rows[k])
             /\ \A x \in ToSet(rows[k]) :
                  x[2] = id[k] /\ x[1] \in {"delta", "task", "unit", "binding"}
  BY RowIsDistinct
<1>3. ASSUME NEW k \in DOMAIN rows
      PROVE  ToSet(rows[k]) \cap ToSet(own) = {}
  <2>1. ASSUME NEW x \in ToSet(rows[k]), x \in ToSet(own)
        PROVE  FALSE
    BY <1>1, <1>2, <2>1
  <2> QED
    BY <2>1
<1>4. ASSUME NEW k \in DOMAIN rows, NEW m \in DOMAIN rows, k # m
      PROVE  ToSet(rows[k]) \cap ToSet(rows[m]) = {}
  <2>1. ASSUME NEW x \in ToSet(rows[k]), x \in ToSet(rows[m])
        PROVE  FALSE
    BY <1>2, <1>4, <2>1
  <2> QED
    BY <2>1
<1> QED
  BY <1>1, <1>2, <1>3, <1>4 DEF GivenOnce

(* The candidates of an answer carry identities of their own.              *)
IdsDiffer(output) ==
  \A i, j \in DOMAIN output.candidates :
    output.candidates[i].id = output.candidates[j].id => i = j

(* The graphs built for the n accepted candidates, and their deltas.       *)
Built(output, now, n, id, graphs, deltas) ==
  /\ n \in Nat
  /\ DOMAIN graphs = 1..n /\ deltas = [k \in 1..n |-> deltas[k]]
  /\ \A k, m \in 1..n : id[k] = id[m] => k = m
  /\ {id[k] : k \in 1..n} = {output.candidates[i].id : i \in AcceptedAt(output)}
  /\ \A k \in 1..n :
       /\ deltas[k] = graphs[k].delta
       /\ \E i \in AcceptedAt(output) :
            /\ id[k] = output.candidates[i].id
            /\ graphs[k] = InitialGraph(output.candidates[i], output, now)

LEMMA GraphsAreBuilt ==
  ASSUME NEW output, IsOutput(output), IdsDiffer(output), NEW now
  PROVE  LET n == Cardinality(AcceptedAt(output))
             graphs == Graphs(output, now)
             id == [k \in 1..n |-> output.candidates[Place(output)[k]].id]
         IN  /\ Built(output, now, n, id, graphs, Deltas(graphs))
             /\ Len(graphs) = n /\ IsSequence(graphs)
<1> DEFINE n == Cardinality(AcceptedAt(output))
           graphs == Graphs(output, now)
           deltas == Deltas(graphs)
           place == Place(output)
           id == [k \in 1..n |-> output.candidates[place[k]].id]
<1>1. AcceptedAt(output) \subseteq DOMAIN output.candidates
  BY DEF AcceptedAt
<1>2. /\ n \in Nat /\ DOMAIN graphs = 1..n
      /\ \A k \in 1..n : /\ place[k] \in AcceptedAt(output)
                         /\ graphs[k] = InitialGraph(output.candidates[place[k]], output, now)
      /\ \A k, m \in 1..n : place[k] = place[m] => k = m
      /\ \A i \in AcceptedAt(output) : \E k \in 1..n : place[k] = i
  BY GraphsAreExact
<1>3. graphs = [k \in 1..n |-> graphs[k]]
  <2>1. graphs = [k \in DOMAIN graphs |-> graphs[k]]
    BY DEF Graphs
  <2> HIDE DEF graphs
  <2> QED
    BY <1>2, <2>1
<1>4. deltas = [k \in 1..n |-> graphs[k].delta]
  BY <1>2 DEF Deltas, Select
<1> HIDE DEF n, graphs, deltas, place
<1>5. Len(graphs) = n /\ IsSequence(graphs)
  BY <1>2, <1>3, MappedIsSequence
<1>6. \A k \in 1..n : id[k] = output.candidates[place[k]].id
  OBVIOUS
<1> HIDE DEF id
<1>7. \A k, m \in 1..n : id[k] = id[m] => k = m
  BY <1>1, <1>2, <1>6 DEF IdsDiffer
<1>8. {id[k] : k \in 1..n} = {output.candidates[i].id : i \in AcceptedAt(output)}
  BY <1>2, <1>6
<1>9. deltas = [k \in 1..n |-> deltas[k]] /\ \A k \in 1..n : deltas[k] = graphs[k].delta
  BY <1>4
<1>10. Built(output, now, n, id, graphs, deltas)
  BY <1>2, <1>6, <1>7, <1>8, <1>9 DEF Built
<1> QED
  BY <1>5, <1>10 DEF n, graphs, deltas, id, place

(* The identities of the graphs are those of their candidates.             *)
LEMMA BuiltFields ==
  ASSUME NEW output, NEW now, NEW n, NEW id, NEW graphs, NEW deltas,
         Built(output, now, n, id, graphs, deltas), NEW k \in 1..n
  PROVE  LET g == graphs[k]
         IN  /\ deltas[k] = g.delta /\ g.delta.id = Identity("delta", id[k])
             /\ g.delta.candidate = id[k] /\ g.delta.message = output.message
             /\ g.delta.bindings = <<Identity("binding", id[k])>> /\ g.delta.at = now
             /\ g.delta.task = Identity("task", id[k]) /\ g.delta.base = 0
             /\ g.delta.result = 1
             /\ g.task.id = Identity("task", id[k]) /\ g.task.version = 1
             /\ g.unit.id = Identity("unit", id[k]) /\ g.unit.version = 1
             /\ g.binding.id = Identity("binding", id[k])
<1>1. PICK i \in AcceptedAt(output) :
        /\ id[k] = output.candidates[i].id
        /\ graphs[k] = InitialGraph(output.candidates[i], output, now)
  BY DEF Built
<1>2. PICK g, c : g = graphs[k] /\ c = output.candidates[i]
  OBVIOUS
<1>3. /\ g.delta.id = Allocation(c.id).delta /\ g.delta.candidate = c.id
      /\ g.delta.message = output.message
      /\ g.delta.bindings = <<Allocation(c.id).binding>> /\ g.delta.at = now
      /\ g.delta.task = Allocation(c.id).task /\ g.delta.base = 0 /\ g.delta.result = 1
      /\ g.task.id = Allocation(c.id).task /\ g.task.version = 1
      /\ g.unit.id = Allocation(c.id).unit /\ g.unit.version = 1
      /\ g.binding.id = Allocation(c.id).binding
  BY <1>1, <1>2, GraphFields
<1>4. /\ Allocation(c.id).delta = Identity("delta", c.id)
      /\ Allocation(c.id).task = Identity("task", c.id)
      /\ Allocation(c.id).unit = Identity("unit", c.id)
      /\ Allocation(c.id).binding = Identity("binding", c.id)
  BY DEF Allocation
<1>5. deltas[k] = g.delta
  BY <1>2 DEF Built
<1> QED
  BY <1>1, <1>2, <1>3, <1>4, <1>5

(* _canonical_initial_identity_allocations_v2 passes.                      *)
LEMMA AllocationsPass ==
  ASSUME NEW output, IdsDiffer(output)
  PROVE  AllocationsAreDistinct(output)
<1> DEFINE given(i) == LET ids == Allocation(output.candidates[i].id)
                       IN  <<ids.delta, ids.task, ids.unit, ids.binding>>
           rows == [i \in DOMAIN output.candidates |-> given(i)]
           id == [i \in DOMAIN output.candidates |-> output.candidates[i].id]
<1>1. \A i \in DOMAIN rows : rows[i] = Row(id[i])
  BY DEF Allocation, Row
<1>2. \A i, j \in DOMAIN rows : id[i] = id[j] => i = j
  BY DEF IdsDiffer
<1> HIDE DEF rows, id
<1>3. GivenOnce(<<RecordId, MoveRef>>, rows)
  BY <1>1, <1>2, RowsGivenOnce
<1> QED
  BY <1>3 DEF rows, AllocationsAreDistinct

(* InitialAcceptedTaskGraphV2 accepts a graph of the Reducer.              *)
LEMMA GraphPasses ==
  ASSUME NEW c, NEW output, NEW now
  PROVE  GraphIsInitial(InitialGraph(c, output, now))
<1>1. PICK g : g = InitialGraph(c, output, now)
  OBVIOUS
<1> DEFINE ids == Allocation(c.id)
           own == <<ids.delta, ids.binding, ids.task, ids.unit>>
<1>2. /\ g.delta.id = ids.delta /\ g.delta.candidate = c.id
      /\ g.delta.message = output.message /\ g.delta.goal = c.goal
      /\ g.delta.bindings = <<ids.binding>> /\ g.delta.at = now
      /\ g.delta.task = ids.task /\ g.delta.base = 0 /\ g.delta.result = 1
      /\ g.binding.id = ids.binding
      /\ g.binding.authority = "USER_CLAIM"
      /\ g.binding.sources = <<output.message>> /\ g.binding.at = now
      /\ g.task.id = ids.task /\ g.task.status = "ACTIVE"
      /\ g.task.version = 1 /\ g.task.outcome = Nothing /\ g.task.at = now
      /\ g.unit.id = ids.unit /\ g.unit.task = ids.task /\ g.unit.goal = c.goal
      /\ g.unit.sources = <<output.message>> /\ g.unit.bindings = <<ids.binding>>
      /\ g.unit.status = "ACTIVE" /\ g.unit.version = 1 /\ g.unit.refs = {}
      /\ g.unit.at = now
  BY <1>1, GraphFields
<1>3. /\ ids.delta[1] = "delta" /\ ids.binding[1] = "binding"
      /\ ids.task[1] = "task" /\ ids.unit[1] = "unit"
  BY DEF Allocation, Identity
<1> HIDE DEF ids
<1>4. Distinct(own)
  <2>1. DOMAIN own = 1..4 /\ IsSequence(own)
    BY DEF IsSequence, ToSet
  <2>2. /\ own[1] = ids.delta /\ own[2] = ids.binding /\ own[3] = ids.task /\ own[4] = ids.unit
    OBVIOUS
  <2> HIDE DEF own
  <2>3. \A i, j \in DOMAIN own : own[i] = own[j] => i = j
    BY <1>3, <2>1, <2>2
  <2> QED
    BY <2>1, <2>3, DistinctMeans
<1>5. own = <<g.delta.id, g.binding.id, g.task.id, g.unit.id>>
  BY <1>2
<1>6. Cardinality({g.delta.at, g.binding.at, g.task.at, g.unit.at}) = 1
  <2>1. {g.delta.at, g.binding.at, g.task.at, g.unit.at} = {now}
    BY <1>2
  <2> QED
    BY <2>1, FS_Singleton
<1> HIDE DEF own
<1>7. GraphIsInitial(g)
  BY <1>2, <1>4, <1>5, <1>6 DEF GraphIsInitial
<1> QED
  BY <1>1, <1>7

LEMMA SingleIsDistinct ==
  ASSUME NEW x
  PROVE  Distinct(<<x>>)
<1>1. IsSequence(<<x>>) /\ DOMAIN <<x>> = {1}
  BY DEF IsSequence, ToSet
<1> QED
  BY <1>1, DistinctMeans

(* The columns of the deltas and of the decisions.                         *)
LEMMA BuiltColumns ==
  ASSUME NEW output, NEW now, NEW n, NEW id, NEW graphs, NEW deltas,
         Built(output, now, n, id, graphs, deltas)
  PROVE  /\ n \in Nat /\ DOMAIN deltas = 1..n
         /\ Distinct(Select(deltas, "candidate")) /\ Distinct(Select(deltas, "id"))
         /\ ToSet(Select(deltas, "candidate"))
              = {output.candidates[i].id : i \in AcceptedAt(output)}
         /\ Cardinality(ToSet(Select(deltas, "candidate"))) = n
         /\ Len(Select(deltas, "id")) = n
<1>1. /\ n \in Nat /\ DOMAIN deltas = 1..n
      /\ \A k, m \in 1..n : id[k] = id[m] => k = m
      /\ {id[k] : k \in 1..n} = {output.candidates[i].id : i \in AcceptedAt(output)}
  <2>1. n \in Nat /\ deltas = [k \in 1..n |-> deltas[k]]
    BY DEF Built
  <2>2. DOMAIN deltas = 1..n
    BY <2>1
  <2> QED
    BY <2>1, <2>2 DEF Built
<1>2. \A k \in 1..n : deltas[k].candidate = id[k] /\ deltas[k].id = Identity("delta", id[k])
  BY BuiltFields
<1> DEFINE candidate == Select(deltas, "candidate")
           own == Select(deltas, "id")
<1>3. /\ candidate = [k \in 1..n |-> candidate[k]] /\ \A k \in 1..n : candidate[k] = id[k]
      /\ own = [k \in 1..n |-> own[k]] /\ \A k \in 1..n : own[k] = Identity("delta", id[k])
  BY <1>1, <1>2 DEF Select
<1> HIDE DEF candidate, own
<1>4. Distinct(candidate) /\ Cardinality(ToSet(candidate)) = n
  BY <1>1, <1>3, MappedIsDistinct
<1>5. \A k, m \in 1..n : own[k] = own[m] => k = m
  <2>1. \A x, y : Identity("delta", x) = Identity("delta", y) => x = y
    BY DEF Identity
  <2> QED
    BY <1>1, <1>3, <2>1
<1>6. Distinct(own) /\ Len(own) = n
  BY <1>1, <1>3, <1>5, MappedIsDistinct, MappedIsSequence
<1>7. ToSet(candidate) = {id[k] : k \in 1..n}
  <2>1. DOMAIN candidate = 1..n
    BY <1>3
  <2> QED
    BY <1>3, <2>1 DEF ToSet
<1> QED
  BY <1>1, <1>4, <1>6, <1>7 DEF candidate, own

LEMMA DecisionColumns ==
  ASSUME NEW output, IsOutput(output), IdsDiffer(output)
  PROVE  LET decisions == Decisions(output)
         IN  /\ DOMAIN decisions = DOMAIN output.candidates
             /\ \A i \in DOMAIN decisions :
                  /\ decisions[i].candidate = output.candidates[i].id
                  /\ decisions[i].reason = RejectionReason(output.candidates[i], output)
             /\ Distinct(Select(decisions, "candidate"))
             /\ ToSet(Select(decisions, "candidate")) = ToSet(Select(output.candidates, "id"))
             /\ Distinct(Select(output.candidates, "id"))
             /\ {d.candidate : d \in {e \in ToSet(decisions) : e.reason = Nothing}}
                  = {output.candidates[i].id : i \in AcceptedAt(output)}
<1>1. PICK n \in Nat : DOMAIN output.candidates = 1..n
  <2>1. output.candidates \in Seq(ToSet(output.candidates))
    BY DEF IsOutput, IsSequence
  <2> QED
    BY <2>1
<1> DEFINE decisions == Decisions(output)
           decided == Select(decisions, "candidate")
           ids == Select(output.candidates, "id")
<1>2. /\ DOMAIN decisions = 1..n
      /\ \A i \in 1..n :
           /\ decisions[i].candidate = output.candidates[i].id
           /\ decisions[i].reason = RejectionReason(output.candidates[i], output)
  BY <1>1 DEF Decisions
<1> HIDE DEF decisions
<1>3. /\ decided = [i \in 1..n |-> decided[i]]
      /\ \A i \in 1..n : decided[i] = output.candidates[i].id
      /\ ids = [i \in 1..n |-> ids[i]]
      /\ \A i \in 1..n : ids[i] = output.candidates[i].id
  BY <1>1, <1>2 DEF Select
<1>4. /\ \A i, j \in 1..n : decided[i] = decided[j] => i = j
      /\ \A i, j \in 1..n : ids[i] = ids[j] => i = j
  BY <1>1, <1>3 DEF IdsDiffer
<1> HIDE DEF decided, ids
<1>5. Distinct(decided) /\ Distinct(ids)
  BY <1>3, <1>4, MappedIsDistinct
<1>6. ToSet(decided) = ToSet(ids)
  <2>1. decided = ids
    BY <1>3
  <2> QED
    BY <2>1
<1>7. {d.candidate : d \in {e \in ToSet(decisions) : e.reason = Nothing}}
        = {output.candidates[i].id : i \in AcceptedAt(output)}
  BY <1>1, <1>2 DEF ToSet, AcceptedAt
<1> QED
  BY <1>1, <1>2, <1>5, <1>6, <1>7 DEF decisions, decided, ids

(* _validate_durable_closure_v2 accepts them.                              *)
LEMMA DurablePasses ==
  ASSUME NEW output, IsOutput(output), IdsDiffer(output), NEW now,
         NEW n, NEW id, NEW graphs, NEW deltas, Built(output, now, n, id, graphs, deltas)
  PROVE  ClosureIsDurable(output, Decisions(output), deltas, now)
<1> DEFINE decisions == Decisions(output)
           accepted == {d.candidate : d \in {e \in ToSet(decisions) : e.reason = Nothing}}
<1>1. /\ Distinct(Select(decisions, "candidate"))
      /\ ToSet(Select(decisions, "candidate")) = ToSet(Select(output.candidates, "id"))
      /\ accepted = {output.candidates[i].id : i \in AcceptedAt(output)}
  BY DecisionColumns
<1>2. /\ n \in Nat /\ DOMAIN deltas = 1..n
      /\ Distinct(Select(deltas, "candidate")) /\ Distinct(Select(deltas, "id"))
      /\ ToSet(Select(deltas, "candidate"))
           = {output.candidates[i].id : i \in AcceptedAt(output)}
  BY BuiltColumns
<1>3. \A k \in 1..n :
        /\ deltas[k].message = output.message /\ deltas[k].at = now
        /\ deltas[k].bindings = <<Identity("binding", id[k])>>
        /\ deltas[k].task = Identity("task", id[k]) /\ deltas[k].base = 0
  BY BuiltFields
<1>4. \A k \in 1..n : Distinct(deltas[k].bindings)
  BY <1>3, SingleIsDistinct
<1>5. ASSUME NEW k \in 1..n
      PROVE  {j \in 1..(k - 1) : deltas[j].task = deltas[k].task} = {}
  <2>1. ASSUME NEW j \in 1..(k - 1), deltas[j].task = deltas[k].task
        PROVE  FALSE
    <3>1. j \in 1..n /\ j # k
      BY <1>2
    <3>2. id[j] = id[k]
      BY <1>3, <2>1, <3>1 DEF Identity
    <3> QED
      BY <3>1, <3>2 DEF Built
  <2> QED
    BY <2>1
<1> HIDE DEF decisions, accepted
<1>6. ClosureIsDurable(output, decisions, deltas, now)
  BY <1>1, <1>2, <1>3, <1>4, <1>5 DEF ClosureIsDurable, accepted
<1> QED
  BY <1>6 DEF decisions

(* What a traced answer brings into its record.                            *)
Sourced(output) ==
  /\ output.message \in output.context.refs
  /\ \A i \in DOMAIN output.candidates : output.candidates[i].inputs[1].ref = output.message

LEMMA CandidateFields ==
  ASSUME NEW output, IsOutput(output), Sourced(output), NEW messages, NEW now, NEW record,
         record = ClosureOf(output, messages, now).record
  PROVE  /\ DOMAIN record.candidates = DOMAIN output.candidates
         /\ Select(record.candidates, "id") = Select(output.candidates, "id")
         /\ record.message \in record.context.refs
         /\ \A i \in DOMAIN output.candidates :
              /\ record.candidates[i].id = output.candidates[i].id
              /\ record.candidates[i].goal = output.candidates[i].goal
              /\ record.candidates[i].input.ref = record.message
              /\ record.candidates[i].input.value = output.candidates[i].inputs[1].value
<1>1. /\ record.message = output.message
      /\ record.context = DurableContext(messages, output.context)
      /\ DOMAIN record.candidates = DOMAIN output.candidates
      /\ \A i \in DOMAIN output.candidates :
           record.candidates[i] = DurableCandidate(messages, output.candidates[i])
  BY RecordFields
<1>2. ASSUME NEW i \in DOMAIN output.candidates
      PROVE  /\ record.candidates[i].id = output.candidates[i].id
             /\ record.candidates[i].goal = output.candidates[i].goal
             /\ record.candidates[i].input.ref = record.message
             /\ record.candidates[i].input.value = output.candidates[i].inputs[1].value
  <2>1. PICK c, claim : c = output.candidates[i] /\ claim = c.inputs[1]
    OBVIOUS
  <2>2. record.candidates[i]
          = [id |-> c.id, goal |-> c.goal, input |-> DurableClaim(messages, claim)]
    BY <1>1, <2>1 DEF DurableCandidate
  <2>3. PICK durable : durable = DurableClaim(messages, claim)
    OBVIOUS
  <2>4. durable.ref = claim.ref /\ durable.value = claim.value
    BY <2>3 DEF DurableClaim
  <2>5. claim.ref = output.message
    BY <2>1 DEF Sourced
  <2> QED
    BY <1>1, <2>1, <2>2, <2>3, <2>4, <2>5
<1>3. Select(record.candidates, "id") = Select(output.candidates, "id")
  BY <1>1, <1>2 DEF Select
<1>4. record.context.refs = output.context.refs
  BY <1>1 DEF DurableContext
<1> QED
  BY <1>1, <1>2, <1>3, <1>4 DEF Sourced

LEMMA AcceptedIds ==
  ASSUME NEW output, IsOutput(output), IdsDiffer(output), NEW messages, NEW now, NEW record,
         record = ClosureOf(output, messages, now).record
  PROVE  Accepted(record) = {output.candidates[i].id : i \in AcceptedAt(output)}
<1>1. record.decisions = Decisions(output)
  BY RecordFields
<1>2. /\ DOMAIN record.decisions = DOMAIN output.candidates
      /\ \A i \in DOMAIN output.candidates :
           /\ record.decisions[i].candidate = output.candidates[i].id
           /\ record.decisions[i].reason = RejectionReason(output.candidates[i], output)
  BY <1>1, DecisionColumns
<1> QED
  BY <1>2 DEF Accepted, AcceptedAt

(* RequestUnderstandingRecordV2 accepts the record.                        *)
LEMMA RecordPasses ==
  ASSUME NEW output, IsOutput(output), IdsDiffer(output), Sourced(output),
         NEW messages, NEW now, NEW n, NEW id,
         Built(output, now, n, id, Graphs(output, now), Deltas(Graphs(output, now)))
  PROVE  RecordIsClosed(ClosureOf(output, messages, now).record)
<1>1. PICK record : record = ClosureOf(output, messages, now).record
  OBVIOUS
<1>2. PICK deltas : deltas = Deltas(Graphs(output, now))
  OBVIOUS
<1>3. /\ record.message = output.message /\ record.decisions = Decisions(output)
      /\ record.accepted = Select(deltas, "id")
      /\ record.base = IF Routable(output, now) THEN output.move.base ELSE 0
      /\ record.validated = IF Routable(output, now) THEN 1 ELSE 0
      /\ record.move = IF Routable(output, now) THEN MoveRef ELSE Nothing
  BY <1>1, <1>2, RecordFields
<1>4. /\ Distinct(Select(record.decisions, "candidate"))
      /\ ToSet(Select(record.decisions, "candidate")) = ToSet(Select(output.candidates, "id"))
      /\ Distinct(Select(output.candidates, "id"))
  BY <1>3, DecisionColumns
<1>5. /\ Select(record.candidates, "id") = Select(output.candidates, "id")
      /\ DOMAIN record.candidates = DOMAIN output.candidates
      /\ record.message \in record.context.refs
      /\ \A i \in DOMAIN output.candidates : record.candidates[i].input.ref = record.message
  BY <1>1, CandidateFields
<1>6. /\ Distinct(Select(deltas, "id")) /\ Len(Select(deltas, "id")) = n
      /\ Cardinality(ToSet(Select(deltas, "candidate"))) = n
      /\ ToSet(Select(deltas, "candidate"))
           = {output.candidates[i].id : i \in AcceptedAt(output)}
  BY <1>2, BuiltColumns
<1>7. Accepted(record) = {output.candidates[i].id : i \in AcceptedAt(output)}
  BY <1>1, AcceptedIds
<1>8. Len(record.accepted) = Cardinality(Accepted(record)) /\ Distinct(record.accepted)
  BY <1>3, <1>6, <1>7
<1>9. record.move = Nothing => record.base = 0 /\ record.validated = 0
  BY <1>3, NothingIsNoReference
<1>10. RecordIsClosed(record)
  BY <1>4, <1>5, <1>8, <1>9 DEF RecordIsClosed
<1> QED
  BY <1>1, <1>10

(* RequestUnderstandingClosureV2 accepts the record and the deltas.        *)
LEMMA ClosurePasses ==
  ASSUME NEW output, IsOutput(output), IdsDiffer(output), Sourced(output),
         NEW messages, NEW now, NEW n, NEW id,
         Built(output, now, n, id, Graphs(output, now), Deltas(Graphs(output, now)))
  PROVE  ClosureIsExact(ClosureOf(output, messages, now))
<1>1. PICK closure, record, graphs, deltas :
        /\ closure = ClosureOf(output, messages, now) /\ record = closure.record
        /\ graphs = Graphs(output, now) /\ deltas = Deltas(Graphs(output, now))
  OBVIOUS
<1>2. closure.deltas = deltas
  BY <1>1 DEF ClosureOf, Closure
<1>3. /\ record.message = output.message /\ record.at = now
      /\ record.accepted = Select(deltas, "id")
  BY <1>1, RecordFields
<1>4. /\ DOMAIN deltas = 1..n
      /\ Distinct(Select(deltas, "candidate")) /\ Distinct(Select(deltas, "id"))
      /\ ToSet(Select(deltas, "candidate"))
           = {output.candidates[i].id : i \in AcceptedAt(output)}
  BY <1>1, BuiltColumns
<1>5. Accepted(record) = {output.candidates[i].id : i \in AcceptedAt(output)}
  BY <1>1, AcceptedIds
<1>6. /\ DOMAIN record.candidates = DOMAIN output.candidates
      /\ \A i \in DOMAIN output.candidates :
           /\ record.candidates[i].id = output.candidates[i].id
           /\ record.candidates[i].goal = output.candidates[i].goal
  BY <1>1, CandidateFields
<1>7. ASSUME NEW k \in 1..n
      PROVE  /\ deltas[k].message = record.message /\ deltas[k].at = record.at
             /\ Distinct(deltas[k].bindings)
             /\ \E i \in DOMAIN record.candidates :
                  /\ record.candidates[i].id = deltas[k].candidate
                  /\ record.candidates[i].goal = deltas[k].goal
  <2>1. /\ deltas[k].message = output.message /\ deltas[k].at = now
        /\ deltas[k].bindings = <<Identity("binding", id[k])>>
    BY <1>1, BuiltFields
  <2>2. PICK i \in AcceptedAt(output) : graphs[k] = InitialGraph(output.candidates[i], output, now)
    BY <1>1 DEF Built
  <2>3. deltas[k] = graphs[k].delta
    BY <1>1 DEF Built
  <2>4. /\ deltas[k].candidate = output.candidates[i].id
        /\ deltas[k].goal = output.candidates[i].goal
    BY <2>2, <2>3, GraphFields
  <2>5. i \in DOMAIN output.candidates
    BY DEF AcceptedAt
  <2> QED
    BY <1>3, <1>6, <2>1, <2>4, <2>5, SingleIsDistinct
<1>8. ClosureIsExact(closure)
  BY <1>1, <1>2, <1>3, <1>4, <1>5, <1>7 DEF ClosureIsExact
<1> QED
  BY <1>1, <1>8

LEMMA RecordLengths ==
  ASSUME NEW output, IsOutput(output), NEW messages, NEW now, NEW record,
         record = ClosureOf(output, messages, now).record
  PROVE  /\ Len(output.candidates) \in Nat
         /\ DOMAIN output.candidates = 1..Len(output.candidates)
         /\ Len(record.candidates) = Len(output.candidates)
         /\ Len(record.decisions) = Len(output.candidates)
<1>1. PICK n \in Nat : DOMAIN output.candidates = 1..n /\ n = Len(output.candidates)
  <2>1. output.candidates \in Seq(ToSet(output.candidates))
    BY DEF IsOutput, IsSequence
  <2> QED
    BY <2>1
<1>2. PICK candidates : candidates = record.candidates
  OBVIOUS
<1>3. PICK decisions : decisions = record.decisions
  OBVIOUS
<1>4. candidates = [i \in 1..n |-> DurableCandidate(messages, output.candidates[i])]
  BY <1>1, <1>2 DEF ClosureOf, Closure
<1>5. decisions = [i \in 1..n |-> [candidate |-> output.candidates[i].id,
                                   reason |-> RejectionReason(output.candidates[i], output)]]
  BY <1>1, <1>3, RecordFields DEF Decisions
<1>6. candidates = [i \in 1..n |-> candidates[i]] /\ decisions = [i \in 1..n |-> decisions[i]]
  BY <1>4, <1>5
<1>7. Len(candidates) = n /\ Len(decisions) = n
  BY <1>6, MappedIsSequence
<1> QED
  BY <1>1, <1>2, <1>3, <1>7

(* _validate_initial_graph_identity_closure_v2 accepts the graphs.         *)
LEMMA IdentitiesPass ==
  ASSUME NEW output, NEW now, NEW n, NEW id, NEW graphs, NEW deltas,
         Built(output, now, n, id, graphs, deltas),
         NEW record, record.id = RecordId, record.move \in {MoveRef, Nothing}
  PROVE  IdentitiesClose(record, graphs)
<1> DEFINE own(graph) == <<graph.delta.id, graph.task.id, graph.unit.id, graph.binding.id>>
           rows == [k \in DOMAIN graphs |-> own(graphs[k])]
           roots == IF record.move = Nothing THEN <<record.id>> ELSE <<record.id, record.move>>
<1>1. DOMAIN graphs = 1..n /\ \A k, m \in 1..n : id[k] = id[m] => k = m
  BY DEF Built
<1>2. ASSUME NEW k \in 1..n
      PROVE  /\ rows[k] = Row(id[k])
             /\ graphs[k].delta.base = 0 /\ graphs[k].delta.result = 1
             /\ graphs[k].delta.task = graphs[k].task.id
             /\ graphs[k].task.version = 1 /\ graphs[k].unit.version = 1
  <2>1. PICK g : g = graphs[k]
    OBVIOUS
  <2>2. /\ g.delta.id = Identity("delta", id[k]) /\ g.delta.task = Identity("task", id[k])
        /\ g.task.id = Identity("task", id[k]) /\ g.unit.id = Identity("unit", id[k])
        /\ g.binding.id = Identity("binding", id[k])
        /\ g.delta.base = 0 /\ g.delta.result = 1
        /\ g.task.version = 1 /\ g.unit.version = 1
    BY <2>1, BuiltFields
  <2>3. rows[k] = <<g.delta.id, g.task.id, g.unit.id, g.binding.id>>
    BY <1>1, <2>1
  <2> HIDE DEF rows
  <2>4. rows[k] = Row(id[k])
    BY <2>2, <2>3 DEF Row
  <2> QED
    BY <2>1, <2>2, <2>4
<1>3. roots \in {<<RecordId>>, <<RecordId, MoveRef>>}
  OBVIOUS
<1>4. DOMAIN rows = 1..n
  BY <1>1
<1> HIDE DEF rows, roots
<1>5. GivenOnce(roots, rows)
  <2>1. /\ \A k \in DOMAIN rows : rows[k] = Row(id[k])
        /\ \A k, m \in DOMAIN rows : id[k] = id[m] => k = m
    BY <1>1, <1>2, <1>4
  <2> QED
    BY <1>3, <2>1, RowsGivenOnce
<1> QED
  BY <1>1, <1>2, <1>5 DEF IdentitiesClose, rows, roots

(* _validate_initial_graph_candidate_projection_v2 accepts each graph.     *)
LEMMA BindingsPass ==
  ASSUME NEW output, IsOutput(output), IdsDiffer(output), Sourced(output),
         NEW messages, NEW now, NEW n, NEW id, NEW graphs, NEW deltas,
         Built(output, now, n, id, graphs, deltas),
         NEW record, record = ClosureOf(output, messages, now).record, NEW k \in 1..n
  PROVE  BindsCandidate(record, graphs[k])
<1>1. PICK i \in AcceptedAt(output) : graphs[k] = InitialGraph(output.candidates[i], output, now)
  BY DEF Built
<1>2. PICK g, c : g = graphs[k] /\ c = output.candidates[i]
  OBVIOUS
<1>3. /\ g.delta.candidate = c.id /\ g.delta.message = output.message /\ g.delta.goal = c.goal
      /\ g.binding.value = Normalize(c.inputs[1].value)
      /\ g.binding.sources = <<output.message>>
  BY <1>1, <1>2, GraphFields
<1>4. i \in DOMAIN output.candidates /\ RejectionReason(c, output) = Nothing
  BY <1>2 DEF AcceptedAt
<1>5. Normalize(c.inputs[1].value) # Nothing
  BY <1>4, AcceptedMeans
<1>6. /\ i \in DOMAIN record.candidates
      /\ record.candidates[i].id = c.id /\ record.candidates[i].goal = c.goal
      /\ record.candidates[i].input.ref = record.message
      /\ record.candidates[i].input.value = c.inputs[1].value
  BY <1>2, <1>4, CandidateFields
<1>7. record.message = output.message
  BY RecordFields
<1>8. BindsCandidate(record, g)
  BY <1>3, <1>5, <1>6, <1>7 DEF BindsCandidate
<1> QED
  BY <1>2, <1>8

LEMMA SingleMapped ==
  ASSUME NEW f, f = [i \in 1..1 |-> f[i]]
  PROVE  f = <<f[1]>>
OBVIOUS

(* The three decisions pass their own validators.                          *)
LEMMA NoTaskPasses ==
  ASSUME NEW output, IsOutput(output), IdsDiffer(output), NEW messages, NEW now,
         NEW id, Built(output, now, 0, id, Graphs(output, now), Deltas(Graphs(output, now))),
         Len(Graphs(output, now)) = 0
  PROVE  NoTaskIsClean(ClosureOf(output, messages, now))
<1>1. PICK closure, record, deltas :
        /\ closure = ClosureOf(output, messages, now) /\ record = closure.record
        /\ deltas = Deltas(Graphs(output, now))
  OBVIOUS
<1>2. ~Routable(output, now)
  BY DEF Routable
<1>3. /\ record.accepted = Select(deltas, "id") /\ record.base = 0 /\ record.validated = 0
      /\ record.move = Nothing
  BY <1>1, <1>2, RecordFields
<1>4. deltas = <<>>
  <2>1. deltas = [k \in 1..0 |-> deltas[k]]
    BY <1>1 DEF Built
  <2> QED
    BY <2>1
<1>5. Select(deltas, "id") = <<>>
  BY <1>4 DEF Select
<1>6. closure.deltas = deltas
  BY <1>1 DEF ClosureOf, Closure
<1>7. Accepted(record) = {}
  <2>1. Accepted(record) = {output.candidates[i].id : i \in AcceptedAt(output)}
    BY <1>1, AcceptedIds
  <2>2. {id[k] : k \in 1..0} = {output.candidates[i].id : i \in AcceptedAt(output)}
    BY DEF Built
  <2> QED
    BY <2>1, <2>2
<1>8. NoTaskIsClean(closure)
  BY <1>1, <1>3, <1>4, <1>5, <1>6, <1>7 DEF NoTaskIsClean, Unmoved
<1> QED
  BY <1>1, <1>8

LEMMA RoutablePasses ==
  ASSUME NEW output, IsOutput(output), IdsDiffer(output), Sourced(output),
         NEW messages, NEW now, NEW id,
         Built(output, now, 1, id, Graphs(output, now), Deltas(Graphs(output, now))),
         Routable(output, now), IsSequence(Graphs(output, now))
  PROVE  RoutableIsExact(ClosureOf(output, messages, now), Graphs(output, now)[1], MoveRef,
                         output.move)
<1>1. PICK closure, record, graphs, deltas :
        /\ closure = ClosureOf(output, messages, now) /\ record = closure.record
        /\ graphs = Graphs(output, now) /\ deltas = Deltas(Graphs(output, now))
  OBVIOUS
<1>2. /\ record.id = RecordId /\ record.accepted = Select(deltas, "id")
      /\ record.base = output.move.base
      /\ record.validated = 1 /\ record.move = MoveRef /\ record.decisions = Decisions(output)
  BY <1>1, RecordFields
<1>3. ClosureIsExact(closure)
  BY <1>1, ClosurePasses
<1>4. Len(record.candidates) = 1 /\ Len(record.decisions) = 1
  BY <1>1, RecordLengths DEF Routable
<1>5. /\ DOMAIN output.candidates = {1}
      /\ RejectionReason(output.candidates[1], output) = Nothing
      /\ graphs[1] = InitialGraph(output.candidates[1], output, now)
  BY <1>1, RoutableGraph
<1>6. GraphIsInitial(graphs[1])
  BY <1>5, GraphPasses
<1>7. record.decisions[1].reason = Nothing
  BY <1>2, <1>5 DEF Decisions
<1>8. closure.deltas = deltas
  BY <1>1 DEF ClosureOf, Closure
<1>9. 1 \in 1..1
  OBVIOUS
<1>10. /\ deltas = [k \in 1..1 |-> deltas[k]] /\ deltas[1] = graphs[1].delta
       /\ DOMAIN graphs = 1..1
  BY <1>1, <1>9 DEF Built
<1>11. deltas = <<graphs[1].delta>>
  BY <1>10, SingleMapped
<1>12. record.accepted = <<graphs[1].delta.id>>
  <2>1. Select(deltas, "id") = [k \in 1..1 |-> deltas[k].id]
    BY <1>10 DEF Select
  <2> QED
    BY <1>2, <1>10, <2>1, SingleMapped
<1>13. /\ graphs[1].delta.candidate = output.candidates[1].id
       /\ record.candidates[1].id = output.candidates[1].id
  BY <1>1, <1>5, GraphFields, CandidateFields
<1>14. BindsCandidate(record, graphs[1])
  BY <1>1, <1>9, BindingsPass
<1>15. IdentitiesClose(record, <<graphs[1]>>)
  <2>1. Len(graphs) = 1 /\ graphs \in Seq(ToSet(graphs))
    BY <1>1 DEF Routable, IsSequence
  <2>2. graphs = <<graphs[1]>>
    BY <2>1
  <2>3. IdentitiesClose(record, graphs)
    BY <1>1, <1>2, IdentitiesPass
  <2> QED
    BY <2>2, <2>3
<1>16. RoutableIsExact(closure, graphs[1], MoveRef, output.move)
  BY <1>1, <1>2, <1>3, <1>4, <1>6, <1>7, <1>8, <1>11, <1>12, <1>13, <1>14, <1>15
     DEF RoutableIsExact
<1> QED
  BY <1>1, <1>16

LEMMA UnroutedPasses ==
  ASSUME NEW output, IsOutput(output), IdsDiffer(output), Sourced(output),
         NEW messages, NEW now, NEW n, n # 0, NEW id,
         Built(output, now, n, id, Graphs(output, now), Deltas(Graphs(output, now))),
         Len(Graphs(output, now)) = n, ~Routable(output, now)
  PROVE  UnroutedIsExact(ClosureOf(output, messages, now), Graphs(output, now))
<1>1. PICK closure, record, graphs, deltas :
        /\ closure = ClosureOf(output, messages, now) /\ record = closure.record
        /\ graphs = Graphs(output, now) /\ deltas = Deltas(Graphs(output, now))
  OBVIOUS
<1>2. /\ record.id = RecordId /\ record.accepted = Select(deltas, "id")
      /\ record.base = 0 /\ record.validated = 0 /\ record.move = Nothing
  BY <1>1, RecordFields
<1>3. ClosureIsExact(closure)
  BY <1>1, ClosurePasses
<1>4. n \in Nat /\ DOMAIN graphs = 1..n
  BY <1>1 DEF Built
<1>5. ASSUME NEW k \in 1..n
      PROVE  GraphIsInitial(graphs[k]) /\ BindsCandidate(record, graphs[k])
  <2>1. PICK i \in AcceptedAt(output) : graphs[k] = InitialGraph(output.candidates[i], output, now)
    BY <1>1 DEF Built
  <2>2. GraphIsInitial(graphs[k])
    BY <2>1, GraphPasses
  <2> QED
    BY <1>1, <2>2, BindingsPass
<1>6. Cardinality(Accepted(record)) = n
  <2>1. /\ Cardinality(ToSet(Select(deltas, "candidate"))) = n
        /\ ToSet(Select(deltas, "candidate"))
             = {output.candidates[i].id : i \in AcceptedAt(output)}
    BY <1>1, BuiltColumns
  <2>2. Accepted(record) = {output.candidates[i].id : i \in AcceptedAt(output)}
    BY <1>1, AcceptedIds
  <2> QED
    BY <2>1, <2>2
<1>7. closure.deltas = deltas
  BY <1>1 DEF ClosureOf, Closure
<1>8. ~(Len(record.candidates) = 1 /\ n = 1)
  BY <1>1, RecordLengths DEF Routable
<1>9. IdentitiesClose(record, graphs)
  BY <1>1, <1>2, IdentitiesPass
<1>10. n >= 1 /\ Len(graphs) = n
  BY <1>1, <1>4
<1>11. UnroutedIsExact(closure, graphs)
  BY <1>1, <1>2, <1>3, <1>4, <1>5, <1>6, <1>7, <1>8, <1>9, <1>10
     DEF UnroutedIsExact, Unmoved
<1> QED
  BY <1>1, <1>11

(* A refusal of the preflight names one of its own codes.                  *)
LEMMA PreflightCodes ==
  ASSUME NEW output, NEW current, NEW recent, NEW messages,
         PreflightFailure(output, current, recent, messages) # Nothing
  PROVE  PreflightFailure(output, current, recent, messages) \in FailureCode
<1> DEFINE checks == <<
    Check(~HasPrivateState(output), "TRUSTED_OR_PRIVATE_FIELD_PRESENT"),
    Check(output.shape # "OTHER_VERSION", "MODEL_SCHEMA_VERSION_INVALID"),
    Check(TypesAreExact(output), "MODEL_OUTPUT_SCHEMA_INVALID"),
    Check(output.move.arguments # Nothing => "customer_id" \notin DOMAIN output.move.arguments,
          "TRUSTED_OR_PRIVATE_FIELD_PRESENT"),
    Check(OutputIsShaped(output), "MODEL_OUTPUT_SCHEMA_INVALID"),
    Check(MatchesItsRebuild(output), "MODEL_OUTPUT_SCHEMA_INVALID")>>
<1>1. OutputFailure(output) = FirstFailure(checks)
  BY DEF OutputFailure
<1>2. DOMAIN checks = 1..6
  OBVIOUS
<1>3. /\ checks[1].code \in FailureCode /\ checks[2].code \in FailureCode
      /\ checks[3].code \in FailureCode /\ checks[4].code \in FailureCode
      /\ checks[5].code \in FailureCode /\ checks[6].code \in FailureCode
  BY DEF Check, FailureCode
<1> HIDE DEF checks
<1>4. \A i \in DOMAIN checks : checks[i].code \in FailureCode
  <2>1. ASSUME NEW i \in 1..6
        PROVE  i = 1 \/ i = 2 \/ i = 3 \/ i = 4 \/ i = 5 \/ i = 6
    OBVIOUS
  <2> QED
    BY <1>2, <1>3, <2>1
<1>5. OutputFailure(output) \in FailureCode \cup {Nothing}
  BY <1>1, <1>2, <1>4, FirstFailureIsFirst
<1>6. "SOURCE_PROVENANCE_INVALID" \in FailureCode
  BY DEF FailureCode
<1> QED
  BY <1>5, <1>6 DEF PreflightFailure

(* The Reducer never builds what its own validators refuse: a refusal is a *)
(* refusal of the preflight.                                               *)
LEMMA ReductionCloses ==
  ASSUME NEW output, IsOutput(output), NEW messages, NEW recent, NEW now,
         NEW d, d = Reduce(output, messages, recent, now), d.kind = "REFUSED"
  PROVE  d.code \in FailureCode
<1>1. CASE PreflightFailure(output, CurrentRef, recent, messages) # Nothing
  <2>1. d = Refused(PreflightFailure(output, CurrentRef, recent, messages))
    BY <1>1 DEF Reduce
  <2>2. d.code = PreflightFailure(output, CurrentRef, recent, messages)
    BY <2>1 DEF Refused
  <2> QED
    BY <1>1, <2>2, PreflightCodes
<1>2. CASE PreflightFailure(output, CurrentRef, recent, messages) = Nothing
  <2> DEFINE decisions == Decisions(output)
             graphs == Graphs(output, now)
             closure == ClosureOf(output, messages, now)
             n == Cardinality(AcceptedAt(output))
             id == [k \in 1..n |-> output.candidates[Place(output)[k]].id]
             closes == /\ AllocationsAreDistinct(output)
                       /\ \A i \in DOMAIN graphs : GraphIsInitial(graphs[i])
                       /\ ClosureIsDurable(output, decisions, Deltas(graphs), now)
                       /\ RecordIsClosed(closure.record) /\ ClosureIsExact(closure)
             decision ==
               IF graphs = <<>> THEN [kind |-> "NO_TASK", closure |-> closure]
               ELSE IF Routable(output, now)
                 THEN [kind |-> "ROUTABLE", closure |-> closure, graph |-> graphs[1],
                       moveRef |-> MoveRef, move |-> output.move]
                 ELSE [kind |-> "UNROUTED", closure |-> closure, graphs |-> graphs]
             exact ==
               IF graphs = <<>> THEN NoTaskIsClean(closure)
               ELSE IF Routable(output, now)
                 THEN RoutableIsExact(closure, graphs[1], MoveRef, output.move)
               ELSE UnroutedIsExact(closure, graphs)
  <2>1. IdsDiffer(output) /\ Sourced(output)
    <3>1. OutputIsShaped(output)
      BY <1>2, PreflightMeans
    <3>2. /\ \A i, j \in DOMAIN output.candidates :
               output.candidates[i].id = output.candidates[j].id => i = j
          /\ output.message \in output.context.refs
          /\ \A i \in DOMAIN output.candidates :
               CandidateIsShaped(output.candidates[i], output.message)
      BY <3>1 DEF OutputIsShaped
    <3> QED
      BY <3>2 DEF IdsDiffer, Sourced, CandidateIsShaped
  <2>2. /\ Built(output, now, n, id, graphs, Deltas(graphs))
        /\ Len(graphs) = n /\ IsSequence(graphs)
    BY <2>1, GraphsAreBuilt
  <2>3. \A i \in DOMAIN graphs : GraphIsInitial(graphs[i])
    <3> HIDE DEF graphs
    <3> QED
      BY <2>2, GraphPasses DEF Built
  <2> HIDE DEF id, n
  <2>4. closes
    BY <2>1, <2>2, <2>3, AllocationsPass, DurablePasses, RecordPasses, ClosurePasses
  <2>5. exact
    <3>1. CASE graphs = <<>>
      <4>1. n = 0 /\ Len(graphs) = 0
        BY <2>2, <3>1
      <4> QED
        BY <2>1, <2>2, <3>1, <4>1, NoTaskPasses
    <3>2. CASE graphs # <<>> /\ Routable(output, now)
      <4>1. n = 1
        BY <2>2, <3>2 DEF Routable
      <4> QED
        BY <2>1, <2>2, <3>2, <4>1, RoutablePasses
    <3>3. CASE graphs # <<>> /\ ~Routable(output, now)
      <4>1. n # 0
        <5>1. graphs \in Seq(ToSet(graphs))
          BY <2>2 DEF IsSequence
        <5> HIDE DEF graphs
        <5> QED
          BY <2>2, <3>3, <5>1
      <4> QED
        BY <2>1, <2>2, <3>3, <4>1, UnroutedPasses
    <3> QED
      BY <3>1, <3>2, <3>3
  <2>6. d = IF closes /\ exact THEN decision ELSE Refused("DURABLE_CLOSURE_COMMIT_FAILED")
    BY <1>2 DEF Reduce, ReduceTraced, ClosureOf, Routable
  <2> HIDE DEF closes, exact
  <2>7. d = decision
    BY <2>4, <2>5, <2>6
  <2>8. d.kind # "REFUSED"
    <3> HIDE DEF graphs, closure
    <3> QED
      BY <2>7
  <2> QED
    BY <2>8
<1> QED
  BY <1>1, <1>2
============================================================================
