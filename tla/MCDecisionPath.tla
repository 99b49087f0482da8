---------------------------- MODULE MCDecisionPath ----------------------------
(***************************************************************************)
(* A small instance of DecisionPath: two orders, texts of up to four       *)
(* tokens that name none, one or both of them, once or twice, and the      *)
(* answers a model may give to them, right and wrong.                      *)
(***************************************************************************)
EXTENDS DecisionPathSafety

CONSTANTS o1, o2, obj1, obj2, seal1, seal2, w1, w2

TwoOrders == {o1, o2}
TwoObjects == {obj1, obj2}
TwoSeals == {seal1, seal2}
TwoWorkers == {w1, w2}
Addresses == Permutations(TwoObjects) \cup Permutations(TwoSeals) \cup Permutations(TwoWorkers)

Upper(o) == Spelled(o, "upper")
Lower(o) == Spelled(o, "lower")

SmallTexts ==
  {<<Word, Upper(o1)>>, <<Word, Lower(o1), Upper(o2)>>, <<Word, Upper(o1), Word, Upper(o1)>>,
   <<Word, Spelled(o1, "glued")>>}

Quotes(t) ==
  {SubSeq(t, i, j) : i, j \in 1..Len(t)} \cup {<<Upper(o2)>>}
Input(value, quote) ==
  [value |-> value, quote |-> quote, ref |-> CurrentRef, authority |-> "USER_CLAIM"]
Candidate(id, inputs) == [id |-> id, goal |-> "goal", inputs |-> inputs]
Inputs(t) ==
  {Input(v, q) : v \in {Upper(o1), Spelled(o1, "padded"), Upper(o2), Word}, q \in Quotes(t)}

(* No candidate, one, or one beside a second that is good or has no order. *)
CandidateLists(t) ==
  LET ones == {Candidate("c1", <<i>>) : i \in Inputs(t)}
      good == Input(t[2], <<t[2]>>)
      seconds == {Candidate("c2", <<good>>), Candidate("c2", <<Input(Word, <<Word, t[2]>>)>>),
                  Candidate("c1", <<good>>)}
      misshaped == {Candidate("c1", <<good, good>>),
                    Candidate("c1", <<[good EXCEPT !.authority = "MODEL_INFERENCE"]>>),
                    Candidate("c1", <<[good EXCEPT !.ref = OtherRef]>>)}
  IN  {<<>>} \cup {<<c>> : c \in ones \cup misshaped} \cup (({Candidate("c1", <<good>>)} \X seconds))

Uncertainty(reason, values) == [reason |-> reason, values |-> values, refs |-> {CurrentRef}]
Missing == Uncertainty("MISSING_REFERENCE", {})
Ambiguous == Uncertainty("MULTIPLE_PLAUSIBLE_REFERENCES", TwoOrders)
Context(refs, resolved, uncertainties) ==
  [refs |-> refs, resolved |-> resolved, uncertainties |-> uncertainties]
Resolved(kind, ref, t) == [kind |-> kind, ref |-> ref, value |-> t[2], quote |-> <<t[2]>>]
Contexts(t) ==
  {Context({CurrentRef}, <<>>, u) : u \in {{}, {Missing}, {Ambiguous}, {Missing, Ambiguous}}}
    \cup {Context({CurrentRef}, <<Resolved("CURRENT_MESSAGE", CurrentRef, t)>>, {}),
          Context({CurrentRef}, <<Resolved("RECENT_MESSAGE", CurrentRef, t)>>, {}),
          Context({CurrentRef, OtherRef}, <<>>, {}), Context({OtherRef}, <<>>, {})}

CallTool(tool, arguments, base) ==
  [kind |-> "CALL_TOOL", tool |-> tool, arguments |-> arguments, base |-> base]
Ask == [kind |-> "ASK_USER", tool |-> Nothing, arguments |-> Nothing, base |-> 0]
Moves ==
  {CallTool(tool, [order_id |-> v], 0) :
     tool \in {"get_order", "find_order"}, v \in {Upper(o1), Spelled(o1, "padded"), Upper(o2)}}
    \cup {CallTool("get_order", [order_id |-> Upper(o1), note |-> Word], 0),
          CallTool("get_order", [order_id |-> Upper(o1), customer_id |-> Word], 0),
          CallTool("get_order", [order_id |-> Upper(o1)], 1), Ask}
GoodMove == CallTool("get_order", [order_id |-> Upper(o1)], 0)

Answer(shape, message, context, candidates, move_) ==
  [shape |-> shape, message |-> message, context |-> context, candidates |-> candidates,
   move |-> move_]
(* Every list of candidates in every context, and every move after a good  *)
(* candidate; each way an answer may be misshaped once.                    *)
SmallAnswers(t) ==
  LET good == <<Candidate("c1", <<Input(t[2], <<t[2]>>)>>)>>
      plain == Context({CurrentRef}, <<>>, {})
  IN  {Answer("EXACT", CurrentRef, c, l, GoodMove) : c \in Contexts(t), l \in CandidateLists(t)}
      \cup {Answer("EXACT", CurrentRef, plain, l, m) :
              l \in {good, <<Candidate("c1", <<Input(Upper(o1), <<t[2]>>)>>)>>}, m \in Moves}
      \cup {Answer(s, CurrentRef, plain, good, GoodMove) :
              s \in Shape \ {"EXACT"}}
      \cup {Answer("EXACT", OtherRef, plain, good, GoodMove)}

(* get_order as it is registered, as an action, under another name, shown  *)
(* or registered with another schema, beside a second tool, and twice      *)
(* under one name.                                                         *)
GetOrder == Registration("get_order", "get_order", "GET_ORDER", "READ")
FindOrder == Registration("find_order", "find_order", "OTHER", "READ")
Plain == Snapshot("v1", {GetOrder})
SmallSnapshots ==
  {Plain,
   Snapshot("v1", {[GetOrder EXCEPT !.effect = "ACTION"]}),
   Snapshot("v1", {[GetOrder EXCEPT !.visible = "find_order"]}),
   LET drifted == {[name |-> "get_order", body |-> "OTHER"]}
   IN  [Plain EXCEPT !.toolset = drifted, !.hash = drifted],
   [Plain EXCEPT !.registrations = {[GetOrder EXCEPT !.body = "OTHER"]}],
   Snapshot("v1", {GetOrder, FindOrder}),
   Snapshot("v1", {GetOrder, [FindOrder EXCEPT !.visible = "get_order"]})}

(* The clock may be set back once. *)
TwoInstants == {0, 1}

(* The same decision with another order in its move.                       *)
Redirected(d) == [d EXCEPT !.move = CallTool("get_order", [order_id |-> Upper(o2)], 0)]
===============================================================================
