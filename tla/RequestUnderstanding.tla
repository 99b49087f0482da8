------------------------ MODULE RequestUnderstanding ------------------------
(***************************************************************************)
(* What a model may answer about a Message, when that answer is well       *)
(* formed, and how every order it names is traced to the words it was      *)
(* quoted from.                                                            *)
(*                                                                         *)
(* A text is a sequence of tokens.  A token is a word or an occurrence of  *)
(* an order id, spelled canonically ("upper", O-1001), in lower case       *)
(* ("lower") or inside a longer word ("glued", XO-1001).  A value the      *)
(* model supplies is one token, which may also be "padded" by blanks.      *)
(***************************************************************************)
EXTENDS Naturals, Sequences, FiniteSets, SequencesExt

CONSTANTS
  Orders,        \* canonical order ids
  Nothing,       \* None
  CurrentRef,    \* id of the Message the Run handles
  OtherRef       \* an id that names no Message of the conversation

(* Why an answer or a candidate of it is refused.                          *)
FailureCode ==
  {"TRUSTED_OR_PRIVATE_FIELD_PRESENT", "MODEL_SCHEMA_VERSION_INVALID",
   "MODEL_OUTPUT_SCHEMA_INVALID", "SOURCE_PROVENANCE_INVALID",
   "REFERENCE_UNRESOLVED", "REFERENCE_AMBIGUOUS", "REQUIRED_INPUT_MISSING",
   "INPUT_VALUE_INVALID"}
ASSUME NothingIsNoFailure == Nothing \notin FailureCode
ASSUME DistinctRefs == CurrentRef # OtherRef /\ Nothing \notin Orders

Spelling == {"word", "upper", "lower", "glued", "padded"}
Token == [order: Orders \cup {Nothing}, spelling: Spelling]
Word == [order |-> Nothing, spelling |-> "word"]
Spelled(o, spelling) == [order |-> o, spelling |-> spelling]

(* _normalize_order_id: blanks and the case of the prefix are forgiven,    *)
(* the whole of the rest must be an order id.                              *)
Normalize(value) ==
  IF value.spelling \in {"upper", "lower", "padded"} THEN value.order ELSE Nothing

(* _source_quote_contains_exact_order_id: an order id found in a text      *)
(* stands between characters that are not letters or digits.               *)
QuotesOrder(quote, o) ==
  \E i \in DOMAIN quote : quote[i].spelling \in {"upper", "lower"} /\ quote[i].order = o

----------------------------------------------------------------------------
(* RequestUnderstandingOutputV2 and the types below it: the shape a value  *)
(* of that type has.  "shape" stands for all that is not about the         *)
(* contents: the exact runtime types, undeclared attributes, the schema    *)
(* version, and that the value equals its own re-validation.               *)
Shape == {"EXACT", "FOREIGN_TYPE", "PRIVATE_STATE", "OTHER_VERSION", "COERCED"}
NextMoveKind == {"CALL_TOOL", "ASK_USER", "FINISH", "ESCALATE"}

(* What the declared types alone say of the contents: a value of another   *)
(* type is never parsed into an output.                                    *)
IsSequence(s) == s \in Seq(ToSet(s))
IsClaim(claim) == claim.value \in Token /\ claim.quote \in Seq(Token)
IsOutput(output) ==
  /\ IsSequence(output.candidates) /\ IsSequence(output.context.resolved)
  /\ \A i \in DOMAIN output.candidates :
       LET inputs == output.candidates[i].inputs
       IN  IsSequence(inputs) /\ \A j \in DOMAIN inputs : IsClaim(inputs[j])
  /\ \A i \in DOMAIN output.context.resolved : IsClaim(output.context.resolved[i])
  /\ \A u \in output.context.uncertainties :
       u.reason \in {"MISSING_REFERENCE", "MULTIPLE_PLAUSIBLE_REFERENCES"}

MoveIsShaped(move) ==
  /\ (move.kind = "CALL_TOOL") = (move.tool # Nothing)
  /\ (move.kind = "CALL_TOOL") = (move.arguments # Nothing)
  /\ move.arguments # Nothing => "customer_id" \notin DOMAIN move.arguments

CandidateIsShaped(candidate, message) ==
  /\ Len(candidate.inputs) = 1
  /\ candidate.inputs[1].ref = message
  /\ candidate.inputs[1].authority = "USER_CLAIM"

(* candidate_cardinality_matches_reason and the scope of its references    *)
UncertaintyIsShaped(uncertainty, context) ==
  /\ uncertainty.refs # {} /\ uncertainty.refs \subseteq context.refs
  /\ IF uncertainty.reason = "MISSING_REFERENCE"
       THEN uncertainty.values = {}
       ELSE Cardinality(uncertainty.values) \in 2..8

ContextIsShaped(context) ==
  /\ Cardinality(context.refs) \in 1..8
  /\ \A i \in DOMAIN context.resolved : context.resolved[i].ref \in context.refs
  /\ \A u \in context.uncertainties : UncertaintyIsShaped(u, context)

OutputIsShaped(output) ==
  /\ \A i, j \in DOMAIN output.candidates :
       output.candidates[i].id = output.candidates[j].id => i = j
  /\ output.message \in output.context.refs
  /\ ContextIsShaped(output.context)
  /\ \A i \in DOMAIN output.candidates :
       CandidateIsShaped(output.candidates[i], output.message)
  /\ MoveIsShaped(output.move)
  /\ output.move.base = 0

----------------------------------------------------------------------------
(* The code of the first check that fails, Nothing when all pass.          *)
FirstFailure(checks) ==
  LET failing == {i \in DOMAIN checks : ~checks[i].holds}
  IN  IF failing = {} THEN Nothing
      ELSE checks[CHOOSE i \in failing : \A j \in failing : i <= j].code
Check(holds, code) == [holds |-> holds, code |-> code]

(* What is told of the shape: no value below it of a foreign type or a     *)
(* subclass, no undeclared attribute with a private or trusted name, and   *)
(* nothing in it that parsing would have read as something else.           *)
TypesAreExact(output) == output.shape # "FOREIGN_TYPE"
HasPrivateState(output) == output.shape = "PRIVATE_STATE"
MatchesItsRebuild(output) == output.shape # "COERCED"

(* _canonical_request_output_v2, in the order of its checks.               *)
OutputFailure(output) ==
  FirstFailure(<<
    Check(~HasPrivateState(output), "TRUSTED_OR_PRIVATE_FIELD_PRESENT"),
    Check(output.shape # "OTHER_VERSION", "MODEL_SCHEMA_VERSION_INVALID"),
    Check(TypesAreExact(output), "MODEL_OUTPUT_SCHEMA_INVALID"),
    Check(output.move.arguments # Nothing => "customer_id" \notin DOMAIN output.move.arguments,
          "TRUSTED_OR_PRIVATE_FIELD_PRESENT"),
    Check(OutputIsShaped(output), "MODEL_OUTPUT_SCHEMA_INVALID"),
    Check(MatchesItsRebuild(output), "MODEL_OUTPUT_SCHEMA_INVALID")>>)

(* _validate_input_visible_source_scope_v2.                                *)
SourcesVisible(output, current, recent) ==
  /\ output.context.refs \subseteq ({current} \cup recent)
  /\ \A i \in DOMAIN output.context.resolved :
       LET resolved == output.context.resolved[i]
       IN  IF resolved.kind = "CURRENT_MESSAGE" THEN resolved.ref = current
           ELSE resolved.ref # current /\ resolved.ref \in recent

(* _exact_source_span_v2: where a quote starts in the text, and whether it *)
(* shows the value: quoted from exactly one place, never the whole text.   *)
Occurrences(text, quote) ==
  {i \in 1..Len(text) : i + Len(quote) - 1 <= Len(text)
                        /\ SubSeq(text, i, i + Len(quote) - 1) = quote}
ShowsValueSomewhere(text, quote, value) ==   \* mutant: a quote that stands twice passes
  /\ quote # <<>> /\ quote # text
  /\ Occurrences(text, quote) # {}
  /\ IF Normalize(value) = Nothing
       THEN \E i \in DOMAIN quote : quote[i] = value
       ELSE QuotesOrder(quote, Normalize(value))
ShowsValue(text, quote, value) ==
  /\ quote # <<>> /\ quote # text
  /\ Cardinality(Occurrences(text, quote)) = 1
  /\ IF Normalize(value) = Nothing
       THEN \E i \in DOMAIN quote : quote[i] = value
       ELSE QuotesOrder(quote, Normalize(value))
Span(text, quote) ==
  LET start == CHOOSE i \in Occurrences(text, quote) : TRUE
  IN  [start |-> start - 1, end |-> start - 1 + Len(quote)]

(* _authoritative_message_v2: the text of a Message the Run may quote.     *)
Readable(messages, ref) == ref \in DOMAIN messages /\ messages[ref] # <<>>
Traced(messages, claim) ==
  /\ Readable(messages, claim.ref)
  /\ ShowsValue(messages[claim.ref], claim.quote, claim.value)

(* The projections into durable records: the quoted words are replaced by  *)
(* their place in the Message and their digest.                            *)
DurableClaim(messages, claim) ==
  [ref |-> claim.ref, value |-> claim.value,
   span |-> Span(messages[claim.ref], claim.quote), digest |-> claim.quote]
DurableCandidate(messages, candidate) ==
  [id |-> candidate.id, goal |-> candidate.goal,
   input |-> DurableClaim(messages, candidate.inputs[1])]
DurableContext(messages, context) ==
  [refs |-> context.refs, uncertainties |-> context.uncertainties,
   resolved |-> [i \in DOMAIN context.resolved |-> DurableClaim(messages, context.resolved[i])]]

(* _preflight_initial_request_projection_v2: the first reason an answer    *)
(* cannot be traced to what the user wrote, Nothing when it can.           *)
PreflightFailure(output, current, recent, messages) ==
  LET malformed == OutputFailure(output)
      traced == /\ output.message = current
                /\ SourcesVisible(output, current, recent)
                /\ Readable(messages, current)
                /\ \A ref \in output.context.refs : Readable(messages, ref)
                /\ \A i \in DOMAIN output.context.resolved :
                     Traced(messages, output.context.resolved[i])
                /\ \A i \in DOMAIN output.candidates :
                     Traced(messages, output.candidates[i].inputs[1])
  IN  IF malformed # Nothing THEN malformed
      ELSE IF traced THEN Nothing ELSE "SOURCE_PROVENANCE_INVALID"
=============================================================================
