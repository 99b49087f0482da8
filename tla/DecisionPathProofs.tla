-------------------------- MODULE DecisionPathProofs --------------------------
(***************************************************************************)
(* The seals of decisions, for every set of addresses and workers, every   *)
(* number of pickles, and whatever the Provider answers and the Reducer    *)
(* decides: SealInv is inductive, and the properties of DecisionSeal and   *)
(* RevalidatedIsReduced follow from it.                                    *)
(***************************************************************************)
EXTENDS DecisionPathSafety, RequestReductionProofs

(* Distinct contents have distinct digests.                                *)
LEMMA DigestsDiffer ==
  ASSUME NEW a, NEW b, Digest(a) = Digest(b)
  PROVE  a = b
BY DEF Digest

(* What a matching object holds is a decision of the Reducer.              *)
LEMMA MatchingIsReduced ==
  ASSUME Registered, NEW o \in Live, Matches(o)
  PROVE  objects[o].content \in reduced
<1>1. PICK c \in reduced : registry[objects[o].seal].digest = Digest(c)
  BY DEF Registered, Matches
<1>2. Digest(c) = Digest(objects[o].content)
  BY <1>1 DEF Matches
<1> QED
  BY <1>2, DigestsDiffer

(* A new object that is sealed for a decision of the Reducer, under a      *)
(* ticket that no object has, keeps the registry and the tickets in order. *)
LEMMA NewObjectRegistered ==
  ASSUME Registered,
         NEW content, NEW sealed \in reduced, NEW ticket,
         content \in reduced => content = sealed,
         NewObject(content, sealed, ticket), reduced' = reduced
  PROVE  Registered'
<1>1. PICK o \in Object \ Live, s \in Seal \ {objects[p].seal : p \in Live} :
        /\ objects' = Put(objects, o, [content |-> content, seal |-> s, ticket |-> ticket])
        /\ registry' = Put(registry, s, [digest |-> Digest(sealed), object |-> o])
  BY DEF NewObject
<1> DEFINE new == [content |-> content, seal |-> s, ticket |-> ticket]
           entry == [digest |-> Digest(sealed), object |-> o]
<1>2. /\ Live' = Live \cup {o} /\ objects'[o] = new
      /\ \A p \in Live : objects'[p] = objects[p]
  BY <1>1 DEF Live, Put
<1>3. /\ DOMAIN registry' = DOMAIN registry \cup {s} /\ registry'[s] = entry
      /\ \A q \in DOMAIN registry : q # s => registry'[q] = registry[q]
  BY <1>1 DEF Put
<1>4. s \notin DOMAIN registry /\ \A p \in Live : objects[p].seal # s
  BY <1>1 DEF Registered
<1>5. \A p \in Live' :
        /\ objects'[p].seal \in DOMAIN registry'
        /\ registry'[objects'[p].seal].object = p
        /\ objects'[p].content \in reduced =>
             registry'[objects'[p].seal].digest = Digest(objects'[p].content)
  <2> TAKE p \in Live'
  <2>1. CASE p = o
    BY <2>1, <1>2, <1>3
  <2>2. CASE p \in Live
    BY <2>2, <1>2, <1>3, <1>4 DEF Registered
  <2> QED BY <2>1, <2>2, <1>2
<1>6. \A q \in DOMAIN registry' :
        /\ registry'[q].object \in Live'
        /\ objects'[registry'[q].object].seal = q
        /\ \E c \in reduced : registry'[q].digest = Digest(c)
  <2> TAKE q \in DOMAIN registry'
  <2>1. CASE q = s
    BY <2>1, <1>2, <1>3
  <2>2. CASE q \in DOMAIN registry
    BY <2>2, <1>2, <1>3, <1>4 DEF Registered
  <2> QED BY <2>1, <2>2, <1>3
<1> QED
  BY <1>5, <1>6 DEF Registered

LEMMA NewObjectTicketed ==
  ASSUME Ticketed,
         NEW content, NEW sealed, NEW ticket \in 0..issued,
         ticket # 0 => ticket \notin DOMAIN tickets' /\ \A p \in Live : objects[p].ticket # ticket,
         NewObject(content, sealed, ticket),
         DOMAIN tickets' \subseteq DOMAIN tickets,
         \A t \in DOMAIN tickets' : tickets'[t] = tickets[t],
         DOMAIN restoring' \subseteq DOMAIN restoring,
         \A w \in DOMAIN restoring' : restoring'[w] = restoring[w],
         reduced' = reduced, issued' = issued
  PROVE  Ticketed'
<1>1. PICK o \in Object \ Live, s \in Seal :
        objects' = Put(objects, o, [content |-> content, seal |-> s, ticket |-> ticket])
  BY DEF NewObject
<1>2. /\ Live' = Live \cup {o} /\ objects'[o].ticket = ticket
      /\ \A p \in Live : objects'[p] = objects[p]
  BY <1>1 DEF Live, Put
<1>3. TicketRestoresOnce'
  BY <1>2 DEF Ticketed, TicketRestoresOnce
<1>4. \A p \in Live' : objects'[p].ticket \in 0..issued
  BY <1>2 DEF Ticketed
<1> QED
  BY <1>3, <1>4 DEF Ticketed

----------------------------------------------------------------------------
(* What holders of decisions do keeps both, as long as the Reducer decided *)
(* at most one thing.                                                      *)
LEMMA CopyKeeps ==
  ASSUME Registered, Ticketed, NEW o \in Object, CopyObject(o)
  PROVE  Registered' /\ Ticketed'
<1>1. Matches(o) /\ o \in Live
  BY DEF CopyObject, Matches
<1>2. objects[o].content \in reduced
  BY <1>1, MatchingIsReduced
<1>3. NewObject(objects[o].content, objects[o].content, 0)
  BY DEF CopyObject
<1>4. UNCHANGED <<issued, tickets, restoring, reduced>>
  BY DEF CopyObject
<1>5. Registered'
  BY <1>2, <1>3, <1>4, NewObjectRegistered
<1>6. 0 \in 0..issued
  BY DEF Ticketed
<1> QED
  BY <1>3, <1>4, <1>5, <1>6, NewObjectTicketed

LEMMA UpdateKeeps ==
  ASSUME Registered, Ticketed, reduced \subseteq {decision},
         NEW o \in Object, NEW other, UpdateCopy(o, other)
  PROVE  Registered' /\ Ticketed'
<1>1. Matches(o) /\ o \in Live
  BY DEF UpdateCopy, Matches
<1>2. objects[o].content \in reduced
  BY <1>1, MatchingIsReduced
<1>3. NewObject(other, objects[o].content, 0)
  BY DEF UpdateCopy
<1>4. UNCHANGED <<issued, tickets, restoring, reduced>>
  BY DEF UpdateCopy
<1>5. other \in reduced => other = objects[o].content
  BY <1>2
<1>6. Registered'
  BY <1>2, <1>3, <1>4, <1>5, NewObjectRegistered
<1>7. 0 \in 0..issued
  BY DEF Ticketed
<1> QED
  BY <1>3, <1>4, <1>6, <1>7, NewObjectTicketed

LEMMA PickleKeeps ==
  ASSUME Registered, Ticketed, NEW o \in Object, Pickle(o)
  PROVE  Registered' /\ Ticketed'
<1>1. Matches(o) /\ o \in Live
  BY DEF Pickle, Matches
<1>2. objects[o].content \in reduced
  BY <1>1, MatchingIsReduced
<1>3. /\ UNCHANGED <<objects, registry, restoring, reduced>>
      /\ issued' = issued + 1
      /\ tickets' = Put(tickets, issued + 1, Digest(objects[o].content))
  BY DEF Pickle
<1>4. Registered'
  BY <1>3 DEF Registered, Live
<1>5. /\ DOMAIN tickets' = DOMAIN tickets \cup {issued + 1}
      /\ tickets'[issued + 1] = Digest(objects[o].content)
      /\ \A t \in DOMAIN tickets : t # issued + 1 => tickets'[t] = tickets[t]
  BY <1>3 DEF Put
<1>6. issued \in Nat /\ issued + 1 \in 1..issued' /\ 1..issued \subseteq 1..issued'
  BY <1>3 DEF Ticketed
<1>7. \A t \in DOMAIN tickets' :
        t \in 1..issued' /\ \E c \in reduced : tickets'[t] = Digest(c)
  BY <1>2, <1>5, <1>6 DEF Ticketed
<1>8. \A p \in Live : objects[p].ticket \in 0..issued' /\ objects[p].ticket # issued + 1
  BY <1>3 DEF Ticketed
<1>9. TicketRestoresOnce'
  BY <1>3, <1>5, <1>8 DEF Ticketed, TicketRestoresOnce, Live
<1> QED
  BY <1>3, <1>4, <1>6, <1>7, <1>8, <1>9 DEF Ticketed, Live

LEMMA CollectKeeps ==
  ASSUME Registered, Ticketed, NEW o \in Object, Collect(o)
  PROVE  Registered' /\ Ticketed'
<1>1. /\ o \in Live /\ objects' = Drop(objects, o) /\ registry' = Drop(registry, objects[o].seal)
      /\ UNCHANGED <<issued, tickets, restoring, reduced>>
  BY DEF Collect
<1>2. Live' = Live \ {o} /\ \A p \in Live' : objects'[p] = objects[p]
  BY <1>1 DEF Live, Drop
<1>3. /\ DOMAIN registry' = DOMAIN registry \ {objects[o].seal}
      /\ \A s \in DOMAIN registry' : registry'[s] = registry[s]
  BY <1>1 DEF Drop
<1>4. \A p \in Live' : objects[p].seal # objects[o].seal
  BY <1>1, <1>2 DEF Registered
<1>5. Registered'
  BY <1>1, <1>2, <1>3, <1>4 DEF Registered
<1>6. TicketRestoresOnce'
  BY <1>1, <1>2 DEF Ticketed, TicketRestoresOnce
<1> QED
  BY <1>1, <1>2, <1>5, <1>6 DEF Ticketed

LEMMA ReadKeeps ==
  ASSUME Registered, Ticketed, NEW w \in Worker, NEW p \in pickles, ReadTicket(w, p)
  PROVE  Registered' /\ Ticketed'
<1>1. /\ restoring' = Put(restoring, w, p)
      /\ UNCHANGED <<objects, registry, issued, tickets, reduced>>
  BY DEF ReadTicket
<1>2. PICK c \in reduced : tickets[p.ticket] = Digest(c)
  BY DEF ReadTicket, Ticketed
<1>3. p.content \in reduced /\ p.ticket \in 1..issued
  <2>1. Digest(c) = Digest(p.content)
    BY <1>2 DEF ReadTicket
  <2> QED BY <2>1, DigestsDiffer DEF ReadTicket, Ticketed
<1>4. \A v \in DOMAIN restoring' :
        restoring'[v].ticket \in 1..issued /\ restoring'[v].content \in reduced
  BY <1>1, <1>3 DEF Put, Ticketed
<1> QED
  BY <1>1, <1>4 DEF Registered, Ticketed, TicketRestoresOnce, Live

LEMMA PopKeeps ==
  ASSUME Registered, Ticketed, NEW w \in Worker, PopTicket(w)
  PROVE  Registered' /\ Ticketed'
<1> DEFINE p == restoring[w]
<1>1. /\ w \in DOMAIN restoring
      /\ restoring' = Drop(restoring, w) /\ tickets' = Drop(tickets, p.ticket)
      /\ UNCHANGED <<issued, reduced>>
  BY DEF PopTicket
<1>2. /\ DOMAIN restoring' \subseteq DOMAIN restoring
      /\ \A v \in DOMAIN restoring' : restoring'[v] = restoring[v]
  BY <1>1 DEF Drop
<1>3. /\ DOMAIN tickets' = DOMAIN tickets \ {p.ticket}
      /\ \A t \in DOMAIN tickets' : tickets'[t] = tickets[t]
  BY <1>1 DEF Drop
<1>4. p.ticket \in 1..issued /\ p.content \in reduced
  BY <1>1 DEF Ticketed
<1>5. CASE p.ticket \in DOMAIN tickets
  <2>1. NewObject(p.content, p.content, p.ticket)
    BY <1>5 DEF PopTicket
  <2>2. Registered'
    BY <2>1, <1>1, <1>4, NewObjectRegistered
  <2>3. \A q \in Live : objects[q].ticket # p.ticket
    BY <1>4, <1>5 DEF Ticketed, TicketRestoresOnce
  <2>4. p.ticket \in 0..issued /\ p.ticket \notin DOMAIN tickets'
    BY <1>3, <1>4 DEF Ticketed
  <2> QED
    BY <2>1, <2>2, <2>3, <2>4, <1>1, <1>2, <1>3, NewObjectTicketed
<1>6. CASE p.ticket \notin DOMAIN tickets
  <2>1. UNCHANGED <<objects, registry>>
    BY <1>6 DEF PopTicket
  <2>2. Registered'
    BY <2>1, <1>1 DEF Registered, Live
  <2>3. TicketRestoresOnce'
    BY <2>1, <1>3 DEF Ticketed, TicketRestoresOnce, Live
  <2> QED
    BY <2>1, <2>2, <2>3, <1>1, <1>2, <1>3 DEF Ticketed, Live
<1> QED
  BY <1>5, <1>6

LEMMA HandlingKeeps ==
  ASSUME SealInv, Handling
  PROVE  SealInv'
<1>1. Registered /\ Ticketed /\ reduced \subseteq {decision}
  BY DEF SealInv, DecidedOnce
<1>2. HandleObjects(Altered(decision)) /\ UNCHANGED pathVars /\ phase = "recorded"
  BY DEF Handling
<1>3. Registered' /\ Ticketed'
  <2>1. CASE \E o \in Object : CopyObject(o) \/ Pickle(o) \/ Collect(o)
    BY <2>1, <1>1, CopyKeeps, PickleKeeps, CollectKeeps
  <2>2. CASE \E o \in Object : UpdateCopy(o, Altered(decision))
    BY <2>2, <1>1, UpdateKeeps
  <2>3. CASE \E p \in pickles : DamagePickle(p, Altered(decision))
    BY <2>3, <1>1 DEF DamagePickle, Registered, Ticketed, TicketRestoresOnce, Live
  <2>4. CASE \E w \in Worker, p \in pickles : ReadTicket(w, p)
    BY <2>4, <1>1, ReadKeeps
  <2>5. CASE \E w \in Worker : PopTicket(w)
    BY <2>5, <1>1, PopKeeps
  <2> QED
    BY <2>1, <2>2, <2>3, <2>4, <2>5, <1>2 DEF HandleObjects
<1>4. UNCHANGED <<phase, decision, move>>
  BY <1>2 DEF pathVars
<1>5. reduced' = reduced
  BY <1>2 DEF HandleObjects, CopyObject, Pickle, Collect, UpdateCopy, DamagePickle,
              ReadTicket, PopTicket
<1>6. DecidedOnce'
  BY <1>2, <1>4, <1>5 DEF SealInv, DecidedOnce
<1>7. RevalidatedIsReduced'
  BY <1>4 DEF SealInv, RevalidatedIsReduced
<1> QED
  BY <1>3, <1>6, <1>7 DEF SealInv

(* The Reducer decides while there is nothing it could contradict.         *)
LEMMA ReduceAnswerKeeps ==
  ASSUME SealInv, NEW now \in Instants, ReduceAnswer(now)
  PROVE  SealInv'
<1> DEFINE reduction == Reduce(answer, Messages, {}, now)
<1>1. /\ phase = "answered" /\ decision' = reduction /\ move' = move
      /\ phase' \in {"reduced", "input_invalid", "error"}
  BY DEF ReduceAnswer
<1>2. Live = {} /\ move = Nothing /\ Registered /\ Ticketed
  BY <1>1 DEF SealInv, DecidedOnce
<1>3. reduced = {} /\ DOMAIN registry = {} /\ DOMAIN tickets = {} /\ DOMAIN restoring = {}
  BY <1>1, <1>2 DEF Registered, Ticketed, SealInv, DecidedOnce
<1>4. RevalidatedIsReduced'
  BY <1>1, <1>2 DEF RevalidatedIsReduced
<1>5. CASE reduction.kind = "ROUTABLE"
  <2>1. /\ NewObject(reduction, reduction, 0) /\ reduced' = {reduction}
        /\ UNCHANGED <<issued, tickets, pickles, restoring>>
    BY <1>3, <1>5 DEF ReduceAnswer, Issue
  <2>2. PICK o \in Object, s \in Seal :
          /\ objects' = Put(objects, o, [content |-> reduction, seal |-> s, ticket |-> 0])
          /\ registry' = Put(registry, s, [digest |-> Digest(reduction), object |-> o])
    BY <2>1 DEF NewObject
  <2>3. /\ Live' = {o} /\ DOMAIN registry' = {s}
        /\ objects'[o] = [content |-> reduction, seal |-> s, ticket |-> 0]
        /\ registry'[s] = [digest |-> Digest(reduction), object |-> o]
    BY <1>2, <1>3, <2>2 DEF Live, Put
  <2>4. Registered'
    BY <2>1, <2>3 DEF Registered
  <2>5. Ticketed'
    BY <1>2, <1>3, <2>1, <2>3 DEF Ticketed, TicketRestoresOnce
  <2>6. DecidedOnce'
    BY <1>1, <2>1 DEF DecidedOnce
  <2> QED
    BY <1>4, <2>4, <2>5, <2>6 DEF SealInv
<1>6. CASE reduction.kind # "ROUTABLE"
  <2>1. UNCHANGED sealVars
    BY <1>6 DEF ReduceAnswer
  <2>2. Registered' /\ Ticketed'
    BY <1>2, <2>1 DEF Registered, Ticketed, TicketRestoresOnce, Live, sealVars
  <2>3. DecidedOnce'
    BY <1>1, <1>3, <2>1 DEF DecidedOnce, sealVars
  <2> QED
    BY <1>4, <2>2, <2>3 DEF SealInv
<1> QED
  BY <1>5, <1>6

(* The handler's other steps leave the seals alone.                        *)
LEMMA PathStepKeeps ==
  ASSUME SealInv, UNCHANGED sealVars, decision' = decision,
         phase' \in {"understanding", "answered"} =>
           phase \in {"understanding", "answered"} /\ move' = move,
         RevalidatedIsReduced'
  PROVE  SealInv'
<1>1. Registered' /\ Ticketed'
  BY DEF SealInv, Registered, Ticketed, TicketRestoresOnce, Live, sealVars
<1>2. DecidedOnce'
  BY DEF SealInv, DecidedOnce, Live, sealVars
<1> QED
  BY <1>1, <1>2 DEF SealInv

(* Only an object with a seal is revalidated, and it holds what the        *)
(* Reducer decided.                                                        *)
LEMMA RevalidateKeeps ==
  ASSUME SealInv, NEW o \in Object, Revalidate(o)
  PROVE  SealInv'
<1>1. /\ phase' \in {"revalidated", "error"} /\ decision' = decision
      /\ UNCHANGED sealVars
  BY DEF Revalidate
<1>2. CASE move' = move
  <2>1. RevalidatedIsReduced'
    BY <1>1, <1>2 DEF SealInv, RevalidatedIsReduced
  <2> QED
    BY <1>1, <2>1, PathStepKeeps
<1>3. CASE move' # move
  <2>1. o \in Live /\ Matches(o)
    BY <1>3 DEF Revalidate
  <2>2. objects[o].content = decision
    BY <2>1, MatchingIsReduced DEF SealInv, DecidedOnce
  <2>3. RevalidatedIsReduced'
    BY <1>1, <1>3, <2>2 DEF Revalidate, RevalidatedIsReduced
  <2> QED
    BY <1>1, <2>3, PathStepKeeps
<1> QED
  BY <1>2, <1>3

LEMMA InitSealInv == Init => SealInv
<1> SUFFICES ASSUME Init PROVE SealInv
  OBVIOUS
<1>1. /\ Live = {} /\ DOMAIN registry = {} /\ DOMAIN tickets = {} /\ DOMAIN restoring = {}
      /\ issued = 0 /\ reduced = {} /\ move = Nothing
  BY DEF Init, SealInit, Live
<1> QED
  BY <1>1 DEF SealInv, Registered, Ticketed, TicketRestoresOnce, DecidedOnce,
              RevalidatedIsReduced

LEMMA NextSealInv == SealInv /\ [Next]_vars => SealInv'
<1> SUFFICES ASSUME SealInv, [Next]_vars PROVE SealInv'
  OBVIOUS
<1>1. CASE Propose
  BY <1>1, PathStepKeeps DEF Propose, SealInv, RevalidatedIsReduced
<1>2. CASE \E now \in Instants : ReduceAnswer(now)
  BY <1>2, ReduceAnswerKeeps
<1>3. CASE RecordGraph
  BY <1>3, PathStepKeeps DEF RecordGraph, SealInv, RevalidatedIsReduced
<1>4. CASE \E o \in Object : Revalidate(o)
  BY <1>4, RevalidateKeeps
<1>5. CASE LoadTask \/ LoadUnit
  BY <1>5, PathStepKeeps DEF LoadTask, LoadUnit, SealInv, RevalidatedIsReduced
<1>6. CASE DecideGate
  BY <1>6, PathStepKeeps DEF DecideGate, SealInv, RevalidatedIsReduced
<1>7. CASE Authorize
  BY <1>7, PathStepKeeps DEF Authorize, SealInv, RevalidatedIsReduced
<1>8. CASE \E status \in {"WAITING_USER", "BLOCKED"} : MoveTask(status)
  BY <1>8, PathStepKeeps DEF MoveTask, SealInv, RevalidatedIsReduced
<1>9. CASE Handling
  BY <1>9, HandlingKeeps
<1>10. CASE UNCHANGED vars
  BY <1>10, PathStepKeeps DEF vars, pathVars, SealInv, RevalidatedIsReduced
<1> QED
  BY <1>1, <1>2, <1>3, <1>4, <1>5, <1>6, <1>7, <1>8, <1>9, <1>10 DEF Next

----------------------------------------------------------------------------
(* The inductive invariant of the seals.                                   *)
THEOREM SealsKept == Spec => []SealInv
BY InitSealInv, NextSealInv, PTL DEF Spec

(* A decision object that passes initial_routable_decision_seal_matches    *)
(* holds what the Reducer decided, whatever was copied, changed, pickled   *)
(* or collected before.                                                    *)
THEOREM SealedIsReducedHolds == Spec => []SealedIsReduced
<1>1. SealInv => SealedIsReduced
  BY MatchingIsReduced DEF SealInv, SealedIsReduced
<1> QED
  BY <1>1, SealsKept, PTL

(* No reuse of an address and no copy takes the seal of a decision away.   *)
THEOREM UnchangedStaysSealedHolds == Spec => []UnchangedStaysSealed
<1>1. SealInv => UnchangedStaysSealed
  BY DEF SealInv, Registered, UnchangedStaysSealed, Matches
<1> QED
  BY <1>1, SealsKept, PTL

(* A pickled decision is restored at most once, by any number of workers.  *)
THEOREM TicketRestoresOnceHolds == Spec => []TicketRestoresOnce
<1>1. SealInv => TicketRestoresOnce
  BY DEF SealInv, Ticketed
<1> QED
  BY <1>1, SealsKept, PTL

(* revalidate_next_move_v2 lets through only the move of the decision that *)
(* was recorded.                                                           *)
THEOREM RevalidatedIsReducedHolds == Spec => []RevalidatedIsReduced
<1>1. SealInv => RevalidatedIsReduced
  BY DEF SealInv
<1> QED
  BY <1>1, SealsKept, PTL

----------------------------------------------------------------------------
(* The path from an answer to a command: PathInv is inductive as well,     *)
(* once the seals hold.                                                    *)
LEMMA InitPathInv == Init => PathInv
BY DEF Init, PathInv, NothingEarly, Understood, GraphRecorded, MoveKnown, TaskLoaded,
       BothLoaded, Judged, Authorizing

LEMMA ProposePath ==
  ASSUME PathInv, Propose
  PROVE  PathInv'
<1>1. /\ phase = "understanding" /\ phase' = "answered" /\ answer' \in Answers(text)
      /\ UNCHANGED <<text, snapshot, decision, stored, current, move, gate, command>>
  BY DEF Propose
<1>2. stored = Nothing /\ gate = Nothing /\ command = Nothing
  BY <1>1 DEF PathInv, NothingEarly
<1>3. NothingEarly' /\ ~GraphRecorded'
  BY <1>1, <1>2 DEF NothingEarly, GraphRecorded, MoveKnown, TaskLoaded, BothLoaded, Judged,
                    Authorizing
<1>4. Understood'
  BY <1>1 DEF PathInv, Understood
<1> QED
  BY <1>1, <1>3, <1>4 DEF PathInv, GraphRecorded, MoveKnown, TaskLoaded, BothLoaded, Judged

LEMMA ReducePath ==
  ASSUME PathInv, NEW now \in Instants, ReduceAnswer(now)
  PROVE  PathInv'
<1>1. /\ phase = "answered" /\ phase' \in {"reduced", "input_invalid", "error"}
      /\ decision' = Reduce(answer, Messages, {}, now)
      /\ phase' = "reduced" => decision'.kind = "ROUTABLE"
      /\ UNCHANGED <<text, snapshot, answer, stored, current, move, gate, command>>
  BY DEF ReduceAnswer
<1>2. stored = Nothing /\ gate = Nothing /\ command = Nothing
  BY <1>1 DEF PathInv, NothingEarly
<1>3. NothingEarly' /\ ~GraphRecorded'
  BY <1>1, <1>2 DEF NothingEarly, GraphRecorded, MoveKnown, TaskLoaded, BothLoaded, Judged,
                    Authorizing
<1>4. Understood'
  <2>1. Messages' = Messages
    BY <1>1 DEF Messages
  <2> QED
    BY <1>1, <2>1 DEF PathInv, Understood
<1> QED
  BY <1>1, <1>3, <1>4 DEF PathInv, GraphRecorded, MoveKnown, TaskLoaded, BothLoaded, Judged

(* The steps after the reduction leave the answer and its decision alone.  *)
LEMMA UnderstoodStays ==
  ASSUME Understood, UNCHANGED <<text, snapshot, answer, decision>>,
         phase' # "understanding" => phase # "understanding",
         phase \in {"understanding", "answered"} <=> phase' \in {"understanding", "answered"},
         phase' = "reduced" => phase = "reduced"
  PROVE  Understood'
<1>1. Messages' = Messages
  BY DEF Messages
<1> QED
  BY <1>1 DEF Understood

(* What was judged stays so while nothing it was judged by changes.        *)
LEMMA GateStays ==
  ASSUME UNCHANGED <<snapshot, decision, current, move>>
  PROVE  GateDecision(move, GateChecks(move, current.task, current.unit), snapshot)'
           = GateDecision(move, GateChecks(move, current.task, current.unit), snapshot)
BY DEF GateChecks, FirstManifest

LEMMA RecordPath ==
  ASSUME PathInv, RecordGraph
  PROVE  PathInv'
<1>1. /\ phase = "reduced" /\ phase' \in {"recorded", "error"}
      /\ \/ phase' = "recorded"
            /\ stored' = [task |-> decision.graph.task, unit |-> decision.graph.unit]
         \/ phase' = "error" /\ stored' = stored
      /\ UNCHANGED <<text, snapshot, answer, decision, current, move, gate, command>>
  BY DEF RecordGraph
<1>2. /\ stored = Nothing /\ gate = Nothing /\ command = Nothing
      /\ decision.kind = "ROUTABLE"
  BY <1>1 DEF PathInv, NothingEarly, Understood
<1>3. NothingEarly' /\ ~MoveKnown'
  BY <1>1, <1>2 DEF NothingEarly, MoveKnown, TaskLoaded, BothLoaded, Judged, Authorizing
<1>4. Understood'
  BY <1>1, UnderstoodStays DEF PathInv
<1>5. GraphRecorded' => RowsAreOurs'
  BY <1>1, <1>2, <1>3 DEF GraphRecorded, RowsAreOurs, Rows
<1> QED
  BY <1>1, <1>3, <1>4, <1>5 DEF PathInv, MoveKnown, TaskLoaded, BothLoaded, Judged

LEMMA RevalidatePath ==
  ASSUME SealInv, PathInv, NEW o \in Object, Revalidate(o)
  PROVE  PathInv'
<1> DEFINE graph == decision.graph
<1>1. /\ phase = "recorded" /\ phase' \in {"revalidated", "error"}
      /\ \/ phase' = "revalidated"
            /\ move' = Revalidated(decision, graph.task, graph.unit, graph.binding)
            /\ MoveIsCurrent(decision, graph.task, graph.unit, graph.binding)
         \/ phase' = "error" /\ move' = move
      /\ UNCHANGED <<text, snapshot, answer, decision, stored, current, gate, command>>
  <2>1. ASSUME o \in Live, Matches(o)
        PROVE  objects[o].content = decision
    BY <2>1, MatchingIsReduced DEF SealInv, DecidedOnce
  <2> QED
    BY <2>1 DEF Revalidate
<1>2. gate = Nothing /\ command = Nothing
  BY <1>1 DEF PathInv, NothingEarly
<1>3. NothingEarly' /\ ~TaskLoaded'
  BY <1>1, <1>2 DEF NothingEarly, TaskLoaded, BothLoaded, Judged, Authorizing
<1>4. Understood'
  BY <1>1, UnderstoodStays DEF PathInv
<1>5. RowsAreOurs'
  BY <1>1 DEF PathInv, GraphRecorded, RowsAreOurs
<1>6. MoveKnown' => /\ move' = Revalidated(decision, graph.task, graph.unit, graph.binding)
                    /\ MoveIsCurrent(decision, graph.task, graph.unit, graph.binding)
  BY <1>1, <1>3 DEF MoveKnown
<1> QED
  BY <1>1, <1>3, <1>4, <1>5, <1>6 DEF PathInv, TaskLoaded, BothLoaded, Judged

LEMMA LoadTaskPath ==
  ASSUME PathInv, LoadTask
  PROVE  PathInv'
<1>1. /\ phase = "revalidated" /\ phase' = "task_loaded"
      /\ current' = [task |-> stored.task]
      /\ UNCHANGED <<text, snapshot, answer, decision, stored, move, gate, command>>
  BY DEF LoadTask
<1>2. /\ gate = Nothing /\ command = Nothing
      /\ GraphRecorded /\ MoveKnown
  BY <1>1 DEF PathInv, NothingEarly, GraphRecorded, MoveKnown
<1>3. NothingEarly' /\ ~BothLoaded'
  BY <1>1, <1>2 DEF NothingEarly, BothLoaded, Judged, Authorizing
<1>4. Understood'
  BY <1>1, UnderstoodStays DEF PathInv
<1>5. RowsAreOurs'
  BY <1>1, <1>2 DEF PathInv, RowsAreOurs
<1>6. LoadedFrom(current.task, decision.graph.task)'
  BY <1>1, <1>5 DEF LoadedFrom, RowsAreOurs
<1> QED
  BY <1>1, <1>2, <1>3, <1>4, <1>5, <1>6 DEF PathInv, BothLoaded, Judged

LEMMA LoadUnitPath ==
  ASSUME PathInv, LoadUnit
  PROVE  PathInv'
<1>1. /\ phase = "task_loaded" /\ phase' = "loaded"
      /\ current' = [task |-> current.task, unit |-> stored.unit]
      /\ UNCHANGED <<text, snapshot, answer, decision, stored, move, gate, command>>
  BY DEF LoadUnit
<1>2. /\ gate = Nothing /\ command = Nothing
      /\ GraphRecorded /\ MoveKnown /\ TaskLoaded
  BY <1>1 DEF PathInv, NothingEarly, GraphRecorded, MoveKnown, TaskLoaded
<1>3. NothingEarly' /\ ~Judged'
  BY <1>1, <1>2 DEF NothingEarly, Judged, Authorizing
<1>4. Understood'
  BY <1>1, UnderstoodStays DEF PathInv
<1>5. RowsAreOurs'
  BY <1>1, <1>2 DEF PathInv, RowsAreOurs
<1>6. /\ LoadedFrom(current.task, decision.graph.task)'
      /\ LoadedFrom(current.unit, decision.graph.unit)'
  <2>1. current'.task = current.task /\ current'.unit = stored.unit
    BY <1>1
  <2> QED
    BY <1>1, <1>2, <1>5, <2>1 DEF PathInv, LoadedFrom, RowsAreOurs
<1> QED
  BY <1>1, <1>2, <1>3, <1>4, <1>5, <1>6 DEF PathInv, Judged, Authorizing

LEMMA DecideGatePath ==
  ASSUME PathInv, DecideGate
  PROVE  PathInv'
<1>1. /\ phase = "loaded" /\ phase' \in {"accepted", "gate_rejected"}
      /\ gate' = GateDecision(move, GateChecks(move, current.task, current.unit), snapshot)
      /\ phase' = "accepted" => gate'.decision = "ACCEPT"
      /\ UNCHANGED <<text, snapshot, answer, decision, stored, current, move, command>>
  BY DEF DecideGate
<1>2. /\ command = Nothing
      /\ GraphRecorded /\ MoveKnown /\ TaskLoaded /\ BothLoaded
  BY <1>1 DEF PathInv, NothingEarly, GraphRecorded, MoveKnown, TaskLoaded, BothLoaded
<1>3. NothingEarly' /\ ~Authorizing'
  BY <1>1, <1>2 DEF NothingEarly, Authorizing
<1>4. Understood'
  BY <1>1, UnderstoodStays DEF PathInv
<1>5. RowsAreOurs'
  BY <1>1, <1>2 DEF PathInv, RowsAreOurs
<1>6. /\ LoadedFrom(current.task, decision.graph.task)'
      /\ LoadedFrom(current.unit, decision.graph.unit)'
  BY <1>1, <1>2 DEF PathInv, LoadedFrom
<1>7. gate' = GateDecision(move, GateChecks(move, current.task, current.unit), snapshot)'
  BY <1>1, GateStays
<1> QED
  BY <1>1, <1>2, <1>3, <1>4, <1>5, <1>6, <1>7 DEF PathInv

LEMMA AuthorizePath ==
  ASSUME PathInv, Authorize
  PROVE  PathInv'
<1>1. /\ phase = "accepted" /\ phase' \in {"authorized", "error"}
      /\ \/ phase' = "authorized" /\ command' = Authorized(gate, decision.graph.binding, snapshot)
         \/ phase' = "error" /\ command' = command
      /\ UNCHANGED <<text, snapshot, answer, decision, stored, current, move, gate>>
  BY DEF Authorize
<1>2. GraphRecorded /\ MoveKnown /\ TaskLoaded /\ BothLoaded /\ Judged
  BY <1>1 DEF GraphRecorded, MoveKnown, TaskLoaded, BothLoaded, Judged
<1>3. NothingEarly'
  BY <1>1 DEF NothingEarly
<1>4. Understood'
  BY <1>1, UnderstoodStays DEF PathInv
<1>5. RowsAreOurs'
  BY <1>1, <1>2 DEF PathInv, RowsAreOurs
<1>6. /\ LoadedFrom(current.task, decision.graph.task)'
      /\ LoadedFrom(current.unit, decision.graph.unit)'
  BY <1>1, <1>2 DEF PathInv, LoadedFrom
<1>7. gate' = GateDecision(move, GateChecks(move, current.task, current.unit), snapshot)'
  BY <1>1, <1>2, GateStays DEF PathInv
<1>8. gate'.decision = "ACCEPT"
  BY <1>1 DEF PathInv
<1>9. Authorizing' => command' = Authorized(gate, decision.graph.binding, snapshot)
  BY <1>1 DEF PathInv, Authorizing
<1> QED
  BY <1>1, <1>2, <1>3, <1>4, <1>5, <1>6, <1>7, <1>8, <1>9 DEF PathInv

(* What the handler holds was reduced, at one instant, from a well-typed   *)
(* answer to the Message.                                                  *)
LEMMA DecidedByReduce ==
  ASSUME PathInv, decision.kind # "NONE"
  PROVE  /\ IsOutput(answer) /\ text \in Seq(Token) /\ text \in Texts
         /\ Messages = OneMessage(text) /\ IsSnapshot(snapshot)
         /\ \E now \in Instants : decision = Reduce(answer, OneMessage(text), {}, now)
<1>1. Messages = OneMessage(text)
  BY DEF Messages, OneMessage
<1>2. phase \notin {"understanding", "answered"}
  BY DEF PathInv, Understood, NoDecision
<1>3. /\ text \in Texts /\ snapshot \in Snapshots /\ answer \in Answers(text)
      /\ \E now \in Instants : decision = Reduce(answer, Messages, {}, now)
  BY <1>2 DEF PathInv, Understood
<1>4. IsOutput(answer) /\ text \in Seq(Token) /\ IsSnapshot(snapshot)
  BY <1>3, InputsAreTyped
<1> QED
  BY <1>1, <1>3, <1>4

(* A routable decision has recorded the graph of the only candidate.       *)
LEMMA RoutableRows ==
  ASSUME PathInv, decision.kind = "ROUTABLE"
  PROVE  \E now \in Instants :
           /\ decision = Reduce(answer, OneMessage(text), {}, now)
           /\ decision.graph = InitialGraph(answer.candidates[1], answer, now)
           /\ DOMAIN answer.candidates = {1} /\ decision.move = answer.move
           /\ RejectionReason(answer.candidates[1], answer) = Nothing
           /\ decision.closure = ClosureOf(answer, OneMessage(text), now)
           /\ PreflightFailure(answer, CurrentRef, {}, OneMessage(text)) = Nothing
           /\ RoutableIsExact(decision.closure, decision.graph, MoveRef, decision.move)
<1>1. IsOutput(answer)
  BY DecidedByReduce
<1>2. PICK now \in Instants : decision = Reduce(answer, OneMessage(text), {}, now)
  BY DecidedByReduce
<1>3. PICK d : d = decision
  OBVIOUS
<1>4. /\ PreflightFailure(answer, CurrentRef, {}, OneMessage(text)) = Nothing
      /\ d.closure = ClosureOf(answer, OneMessage(text), now)
      /\ Routable(answer, now) /\ d.graph = Graphs(answer, now)[1]
      /\ d.move = answer.move
      /\ RoutableIsExact(d.closure, d.graph, MoveRef, d.move)
  BY <1>2, <1>3, ReductionMeans
<1>5. /\ DOMAIN answer.candidates = {1}
      /\ RejectionReason(answer.candidates[1], answer) = Nothing
      /\ Graphs(answer, now)[1] = InitialGraph(answer.candidates[1], answer, now)
  BY <1>1, <1>4, RoutableGraph
<1> QED
  BY <1>2, <1>3, <1>4, <1>5

LEMMA RowFields ==
  ASSUME PathInv, decision.kind = "ROUTABLE"
  PROVE  LET task == decision.graph.task
             unit == decision.graph.unit
         IN  /\ {"status", "version"} \subseteq DOMAIN task
             /\ {"status", "version"} \subseteq DOMAIN unit
             /\ task.version = 1 /\ task.status = "ACTIVE" /\ unit.version = 1
<1>1. PICK now \in Instants :
        decision.graph = InitialGraph(answer.candidates[1], answer, now)
  BY RoutableRows
<1> QED
  BY <1>1 DEF InitialGraph

(* The Task is moved once: a moved row is not active any more.             *)
LEMMA MoveTaskPath ==
  ASSUME PathInv, NEW status \in {"WAITING_USER", "BLOCKED"}, MoveTask(status)
  PROVE  PathInv'
<1>1. /\ stored # Nothing /\ stored.task.status = "ACTIVE"
      /\ stored' = [task |-> [stored.task EXCEPT !.status = status, !.version = @ + 1],
                    unit |-> [stored.unit EXCEPT !.status = status, !.version = @ + 1]]
      /\ UNCHANGED <<phase, text, snapshot, answer, decision, current, move, gate, command>>
  BY DEF MoveTask
<1>2. GraphRecorded /\ RowsAreOurs
  BY <1>1 DEF PathInv, GraphRecorded
<1>3. NothingEarly'
  BY <1>1 DEF PathInv, NothingEarly
<1>4. Understood'
  BY <1>1, UnderstoodStays DEF PathInv
<1>5. PICK task, unit : task = decision.graph.task /\ unit = decision.graph.unit
  OBVIOUS
<1>6. /\ {"status", "version"} \subseteq DOMAIN task
      /\ task.version = 1 /\ task.status = "ACTIVE"
  BY <1>2, <1>5, RowFields DEF RowsAreOurs
<1>7. stored.task = task
  <2>1. stored.task \in Rows(task)
    BY <1>2, <1>5 DEF RowsAreOurs
  <2>2. ASSUME NEW s \in {"WAITING_USER", "BLOCKED"},
               stored.task = [task EXCEPT !.status = s, !.version = @ + 1]
        PROVE  FALSE
    BY <1>1, <1>6, <2>2
  <2> QED
    BY <2>1, <2>2 DEF Rows
<1>8. stored.unit = unit
  BY <1>2, <1>5, <1>6, <1>7 DEF RowsAreOurs
<1>9. /\ stored'.task = [task EXCEPT !.status = status, !.version = @ + 1]
      /\ stored'.unit = [unit EXCEPT !.status = status, !.version = @ + 1]
  BY <1>1, <1>7, <1>8
<1>10. stored'.task.version = 2
  BY <1>6, <1>9
<1>11. RowsAreOurs'
  <2>1. stored'.task \in Rows(task) /\ stored'.unit \in Rows(unit)
    BY <1>9 DEF Rows
  <2> QED
    BY <1>1, <1>2, <1>5, <1>10, <2>1 DEF RowsAreOurs
<1>12. /\ TaskLoaded' => LoadedFrom(current.task, decision.graph.task)'
       /\ BothLoaded' => LoadedFrom(current.unit, decision.graph.unit)'
  BY <1>1, <1>10 DEF PathInv, LoadedFrom, TaskLoaded, BothLoaded, Judged, Authorizing
<1>13. /\ MoveKnown' <=> MoveKnown
       /\ Judged' <=> Judged
       /\ Authorizing' <=> Authorizing
  BY <1>1 DEF MoveKnown, TaskLoaded, BothLoaded, Judged, Authorizing
<1>14. Judged' =>
         gate' = GateDecision(move, GateChecks(move, current.task, current.unit), snapshot)'
  BY <1>1, <1>13, GateStays DEF PathInv
<1> QED
  BY <1>1, <1>3, <1>4, <1>11, <1>12, <1>13, <1>14 DEF PathInv

LEMMA OthersPath ==
  ASSUME PathInv, UNCHANGED pathVars
  PROVE  PathInv'
<1>1. UNCHANGED <<phase, text, snapshot, answer, decision, stored, current, move, gate, command>>
  BY DEF pathVars
<1>2. NothingEarly'
  BY <1>1 DEF PathInv, NothingEarly
<1>3. Understood'
  BY <1>1, UnderstoodStays DEF PathInv
<1>4. GraphRecorded' => RowsAreOurs'
  BY <1>1 DEF PathInv, GraphRecorded, RowsAreOurs, MoveKnown, TaskLoaded, BothLoaded, Judged,
              Authorizing
<1>5. /\ TaskLoaded' => LoadedFrom(current.task, decision.graph.task)'
      /\ BothLoaded' => LoadedFrom(current.unit, decision.graph.unit)'
  BY <1>1 DEF PathInv, LoadedFrom, TaskLoaded, BothLoaded, Judged, Authorizing
<1>6. /\ MoveKnown' <=> MoveKnown
      /\ Judged' <=> Judged
      /\ Authorizing' <=> Authorizing
  BY <1>1 DEF MoveKnown, TaskLoaded, BothLoaded, Judged, Authorizing
<1>7. Judged' =>
        gate' = GateDecision(move, GateChecks(move, current.task, current.unit), snapshot)'
  BY <1>1, <1>6, GateStays DEF PathInv
<1> QED
  BY <1>1, <1>2, <1>3, <1>4, <1>5, <1>6, <1>7 DEF PathInv

LEMMA NextPathInv == SealInv /\ PathInv /\ [Next]_vars => PathInv'
<1> SUFFICES ASSUME SealInv, PathInv, [Next]_vars PROVE PathInv'
  OBVIOUS
<1>1. CASE Propose
  BY <1>1, ProposePath
<1>2. CASE \E now \in Instants : ReduceAnswer(now)
  BY <1>2, ReducePath
<1>3. CASE RecordGraph
  BY <1>3, RecordPath
<1>4. CASE \E o \in Object : Revalidate(o)
  BY <1>4, RevalidatePath
<1>5. CASE LoadTask
  BY <1>5, LoadTaskPath
<1>6. CASE LoadUnit
  BY <1>6, LoadUnitPath
<1>7. CASE DecideGate
  BY <1>7, DecideGatePath
<1>8. CASE Authorize
  BY <1>8, AuthorizePath
<1>9. CASE \E status \in {"WAITING_USER", "BLOCKED"} : MoveTask(status)
  BY <1>9, MoveTaskPath
<1>10. CASE Handling \/ UNCHANGED vars
  BY <1>10, OthersPath DEF Handling, vars
<1> QED
  BY <1>1, <1>2, <1>3, <1>4, <1>5, <1>6, <1>7, <1>8, <1>9, <1>10 DEF Next

(* The inductive invariant of the path.                                    *)
THEOREM PathKept == Spec => []PathInv
<1>1. SealInv /\ PathInv /\ [Next]_vars => PathInv'
  BY NextPathInv
<1> QED
  BY <1>1, InitPathInv, SealsKept, PTL DEF Spec

(* The closure, record, graph and decision validators accept whatever the  *)
(* Reducer fills in: the only refusals are those of the preflight.         *)
THEOREM ReducerClosesItsOwnHolds == Spec => []ReducerClosesItsOwn
<1>1. ASSUME PathInv, decision.kind = "REFUSED"
      PROVE  decision.code # "DURABLE_CLOSURE_COMMIT_FAILED"
  <2>1. /\ IsOutput(answer)
        /\ \E now \in Instants : decision = Reduce(answer, OneMessage(text), {}, now)
    BY <1>1, DecidedByReduce
  <2>2. PICK now \in Instants : decision = Reduce(answer, OneMessage(text), {}, now)
    BY <2>1
  <2>3. PICK d : d = decision
    OBVIOUS
  <2>4. d.code \in FailureCode
    BY <1>1, <2>1, <2>2, <2>3, ReductionCloses
  <2> QED
    BY <2>3, <2>4 DEF FailureCode
<1>2. PathInv => ReducerClosesItsOwn
  BY <1>1 DEF ReducerClosesItsOwn
<1> QED
  BY <1>2, PathKept, PTL

(* The record port and the Reducer judge a graph alike: the only thing the *)
(* command of the port refuses is a clock that was set back.               *)
THEOREM PortTakesDecisionHolds == Spec => []PortTakesDecision
<1>1. ASSUME PathInv, decision.kind \in {"ROUTABLE", "NO_TASK"}
      PROVE  LET record == decision.closure.record
                 valid == IF decision.kind = "ROUTABLE"
                            THEN InitialGraphCommandIsValid(record, decision.graph, Roots)
                            ELSE NoTaskCommandIsValid(record, Roots)
             IN  valid = (record.at >= Arrival)
  <2>1. /\ IsOutput(answer) /\ text \in Seq(Token) /\ Messages = OneMessage(text)
        /\ \E now \in Instants : decision = Reduce(answer, OneMessage(text), {}, now)
    BY <1>1, DecidedByReduce
  <2>2. PICK now \in Instants : decision = Reduce(answer, OneMessage(text), {}, now)
    BY <2>1
  <2>3. PICK d : d = decision
    OBVIOUS
  <2>4. PICK roots : roots = Roots
    OBVIOUS
  <2>5. RootsOfRun(roots) /\ (InTime(roots, now) <=> now >= Arrival)
    BY <2>1, <2>4 DEF Roots, RootsOfRun, InTime, OneMessage
  <2>6. d.closure.record.at = now
    BY <1>1, <2>2, <2>3, ReductionMeans, RecordFields
  <2>7. CASE d.kind = "ROUTABLE"
    <3>1. InitialGraphCommandIsValid(d.closure.record, d.graph, roots) <=> now >= Arrival
      BY <2>1, <2>2, <2>3, <2>5, <2>7, PortTakesRoutable
    <3>2. InitialGraphCommandIsValid(d.closure.record, d.graph, roots) \in BOOLEAN
      BY DEF InitialGraphCommandIsValid
    <3>3. InitialGraphCommandIsValid(d.closure.record, d.graph, roots) = (now >= Arrival)
      BY <3>1, <3>2
    <3> QED
      BY <2>3, <2>4, <2>6, <2>7, <3>3
  <2>8. CASE d.kind = "NO_TASK"
    <3>1. NoTaskCommandIsValid(d.closure.record, roots) <=> now >= Arrival
      BY <2>1, <2>2, <2>3, <2>5, <2>8, PortTakesNoTask
    <3>2. NoTaskCommandIsValid(d.closure.record, roots) \in BOOLEAN
      BY DEF NoTaskCommandIsValid
    <3>3. NoTaskCommandIsValid(d.closure.record, roots) = (now >= Arrival)
      BY <3>1, <3>2
    <3> QED
      BY <2>3, <2>4, <2>6, <2>8, <3>3
  <2> QED
    BY <1>1, <2>3, <2>7, <2>8
<1>2. PathInv => PortTakesDecision
  BY <1>1 DEF PortTakesDecision
<1> QED
  BY <1>2, PathKept, PTL

(* Every claim a record holds, of a candidate or a resolved reference, was *)
(* found by _exact_source_span_v2 at the place the record gives, in the    *)
(* words of the user, and these words stand nowhere else in the Message.   *)
THEOREM RecordsQuoteTheUserHolds == Spec => []RecordsQuoteTheUser
<1>1. ASSUME PathInv, decision.kind \in {"ROUTABLE", "NO_TASK", "UNROUTED"}
      PROVE  LET record == decision.closure.record
             IN  /\ \A i \in DOMAIN record.candidates :
                      QuotedOnce(record.candidates[i].input)
                 /\ \A i \in DOMAIN record.context.resolved :
                      QuotedOnce(record.context.resolved[i])
  <2>1. /\ IsOutput(answer) /\ text \in Seq(Token)
        /\ \E now \in Instants : decision = Reduce(answer, OneMessage(text), {}, now)
    BY <1>1, DecidedByReduce
  <2>2. PICK now \in Instants : decision = Reduce(answer, OneMessage(text), {}, now)
    BY <2>1
  <2>3. PICK d, record : d = decision /\ record = d.closure.record
    OBVIOUS
  <2>4. d = Reduce(answer, OneMessage(text), {}, now) /\ d.kind # "REFUSED"
    BY <1>1, <2>2, <2>3
  <2>5. /\ \A i \in DOMAIN record.candidates :
             QuotedFrom(text, answer.candidates[i].inputs[1], record.candidates[i].input)
        /\ \A i \in DOMAIN record.context.resolved :
             QuotedFrom(text, answer.context.resolved[i], record.context.resolved[i])
    BY <2>1, <2>3, <2>4, RecordQuotes
  <2>6. \A claim, shown : QuotedFrom(text, claim, shown) => QuotedOnce(shown)
    BY DEF QuotedFrom, QuotedOnce, NamesValue
  <2> QED
    BY <2>3, <2>5, <2>6
<1>2. PathInv => RecordsQuoteTheUser
  BY <1>1 DEF RecordsQuoteTheUser
<1> QED
  BY <1>2, PathKept, PTL

----------------------------------------------------------------------------
(* What the nine checks of the gate mean for the move of this Run.         *)
LEMMA MoveFields ==
  ASSUME PathInv, MoveKnown
  PROVE  LET graph == decision.graph
             args == answer.move.arguments
         IN  /\ decision.kind = "ROUTABLE" /\ decision.move = answer.move
             /\ answer.move.kind = "CALL_TOOL" /\ "customer_id" \notin DOMAIN args
             /\ move.run = Run /\ move.task = graph.task.id /\ move.unit = graph.unit.id
             /\ move.tool = answer.move.tool /\ move.arguments = args
             /\ move.order = ArgumentOrder(args) /\ move.bound = graph.binding.value
             /\ move.bindings = <<graph.binding.id>> /\ move.validated = 1
             /\ move.proposedBase = 0
<1>1. /\ decision.kind = "ROUTABLE"
      /\ move = Revalidated(decision, decision.graph.task, decision.graph.unit,
                            decision.graph.binding)
      /\ MoveIsCurrent(decision, decision.graph.task, decision.graph.unit,
                       decision.graph.binding)
  BY DEF PathInv, GraphRecorded, RowsAreOurs
<1>2. PICK now \in Instants :
        /\ decision.closure = ClosureOf(answer, OneMessage(text), now)
        /\ PreflightFailure(answer, CurrentRef, {}, OneMessage(text)) = Nothing
        /\ decision.move = answer.move
  BY <1>1, RoutableRows
<1>3. decision.closure.record.run = Run
  BY <1>2, RecordFields
<1>4. answer.move.base = 0
  <2>1. IsOutput(answer) /\ text \in Seq(Token)
    BY <1>1, DecidedByReduce
  <2> QED
    BY <1>2, <2>1, TracedMeans
<1>5. decision.graph.task.version = 1
  BY <1>1, RowFields
<1>6. PICK d, graph : d = decision /\ graph = decision.graph
  OBVIOUS
<1>7. move = Revalidated(d, graph.task, graph.unit, graph.binding)
  BY <1>1, <1>6
<1>8. /\ move.run = d.closure.record.run /\ move.task = graph.task.id
      /\ move.unit = graph.unit.id /\ move.tool = d.move.tool
      /\ move.arguments = d.move.arguments /\ move.order = ArgumentOrder(d.move.arguments)
      /\ move.bound = graph.binding.value /\ move.bindings = <<graph.binding.id>>
      /\ move.validated = graph.task.version /\ move.proposedBase = d.move.base
  BY <1>7 DEF Revalidated
<1>9. d.move.kind = "CALL_TOOL" /\ "customer_id" \notin DOMAIN d.move.arguments
  BY <1>1, <1>6 DEF MoveIsCurrent
<1> QED
  BY <1>1, <1>2, <1>3, <1>4, <1>5, <1>6, <1>8, <1>9

ToolIsRegistered(tool) ==
  LET registration == RegistrationOf(snapshot, tool)
  IN  /\ CanonicalName(snapshot, tool) = "get_order" /\ tool = "get_order"
      /\ registration # Nothing /\ VisibleSpec(snapshot, tool) # Nothing
      /\ registration.visible = "get_order"
Judges(checks, task, unit) ==
  LET tool == answer.move.tool
      registration == RegistrationOf(snapshot, tool)
  IN  /\ checks.snapshot_match /\ checks.trusted_field_valid
      /\ checks.budget_valid /\ checks.progress_valid
      /\ checks.argument_binding_valid <=> ArgumentBindingValid(move, unit, decision.graph.binding)
      /\ checks.registration_valid <=> ToolIsRegistered(tool)
      /\ checks.schema_valid <=> SchemaValid(move, registration, VisibleSpec(snapshot, tool))
      /\ checks.state_version_valid <=>
           StateVersionValid(move, Owner, task, unit, FirstManifest, "first")
      /\ checks.action_boundary_valid <=>
           registration # Nothing /\ registration.effect = "READ"

LEMMA GateJudges ==
  ASSUME PathInv, MoveKnown, NEW task, NEW unit
  PROVE  Judges(GateChecks(move, task, unit), task, unit)
<1>1. "customer_id" \notin DOMAIN move.arguments /\ move.tool = answer.move.tool
  BY MoveFields
<1>2. FirstManifest.version = snapshot.version /\ FirstManifest.hash = snapshot.hash
  BY DEF FirstManifest
<1>3. 0 \in 0..(1 - 1)
  OBVIOUS
<1>4. PICK checks : checks = GateChecks(move, task, unit)
  OBVIOUS
<1>5. LET registration == RegistrationOf(snapshot, move.tool)
          spec == VisibleSpec(snapshot, move.tool)
      IN  /\ checks.snapshot_match <=> FirstManifest.version = snapshot.version
                                       /\ FirstManifest.hash = snapshot.hash
          /\ checks.registration_valid <=>
               /\ CanonicalName(snapshot, move.tool) = "get_order" /\ move.tool = "get_order"
               /\ registration # Nothing /\ spec # Nothing
               /\ registration.visible = "get_order"
          /\ checks.schema_valid <=> SchemaValid(move, registration, spec)
          /\ checks.trusted_field_valid <=> "customer_id" \notin DOMAIN move.arguments
          /\ checks.argument_binding_valid <=>
               ArgumentBindingValid(move, unit, decision.graph.binding)
          /\ checks.budget_valid <=> 1 = 1 /\ 0 \in 0..(1 - 1)
          /\ checks.progress_valid <=> TRUE
          /\ checks.state_version_valid <=>
               StateVersionValid(move, Owner, task, unit, FirstManifest, "first")
          /\ checks.action_boundary_valid <=>
               registration # Nothing /\ registration.effect = "READ"
  BY <1>4 DEF GateChecks, Checks
<1>6. Judges(checks, task, unit)
  BY <1>1, <1>2, <1>3, <1>5 DEF Judges, ToolIsRegistered
<1> QED
  BY <1>4, <1>6

(* The binding of a routable decision holds the order that the one         *)
(* candidate named and that the text shows.                                *)
LEMMA BoundOrder ==
  ASSUME PathInv, decision.kind = "ROUTABLE"
  PROVE  LET graph == decision.graph
         IN  /\ Len(answer.candidates) = 1 /\ answer.context.uncertainties = {}
             /\ graph.binding.value = Normalize(answer.candidates[1].inputs[1].value)
             /\ graph.binding.value # Nothing /\ QuotesOrder(text, graph.binding.value)
<1>1. IsOutput(answer) /\ text \in Seq(Token)
  BY DecidedByReduce
<1>2. PICK now \in Instants :
        /\ decision = Reduce(answer, OneMessage(text), {}, now)
        /\ decision.graph = InitialGraph(answer.candidates[1], answer, now)
        /\ DOMAIN answer.candidates = {1}
        /\ RejectionReason(answer.candidates[1], answer) = Nothing
        /\ decision.closure = ClosureOf(answer, OneMessage(text), now)
  BY RoutableRows
<1>3. Len(answer.candidates) = 1
  <2>1. answer.candidates \in Seq(ToSet(answer.candidates))
    BY <1>1 DEF IsOutput, IsSequence
  <2>2. DOMAIN answer.candidates = 1..Len(answer.candidates) /\ Len(answer.candidates) \in Nat
    BY <2>1
  <2>3. PICK n \in Nat : n = Len(answer.candidates) /\ 1..n = {1}
    BY <1>2, <2>2
  <2>4. n = 1
    <3>1. 1 \in 1..n
      BY <2>3
    <3>2. n \in 1..n
      BY <3>1
    <3> QED
      BY <2>3, <3>2
  <2> QED
    BY <2>3, <2>4
<1>4. /\ \A u \in answer.context.uncertainties :
           u.reason \notin {"MISSING_REFERENCE", "MULTIPLE_PLAUSIBLE_REFERENCES"}
      /\ Normalize(answer.candidates[1].inputs[1].value) # Nothing
  BY <1>2, AcceptedMeans
<1>5. answer.context.uncertainties = {}
  BY <1>1, <1>4 DEF IsOutput
<1>6. decision.graph.binding.value = Normalize(answer.candidates[1].inputs[1].value)
  BY <1>2, GraphFields
<1>7. QuotesOrder(text, Normalize(answer.candidates[1].inputs[1].value))
  <2>1. PICK d : d = decision
    OBVIOUS
  <2>2. DOMAIN d.closure.record.candidates = {1}
    BY <1>2, <2>1, RecordFields
  <2>3. d = Reduce(answer, OneMessage(text), {}, now) /\ d.kind # "REFUSED"
        /\ 1 \in DOMAIN d.closure.record.candidates
    BY <1>2, <2>1, <2>2
  <2>4. QuotedFrom(text, answer.candidates[1].inputs[1], d.closure.record.candidates[1].input)
    BY <1>1, <2>3, RecordQuotes
  <2> QED
    BY <1>4, <2>4 DEF QuotedFrom
<1> QED
  BY <1>3, <1>4, <1>5, <1>6, <1>7

LEMMA AcceptMeans ==
  ASSUME NEW checks, NEW gated, GateDecision(gated, checks, snapshot).decision = "ACCEPT"
  PROVE  \A c \in CheckNames : checks[c]
BY DEF GateDecision

(* An authorized tool call asks for the order that the user's text shows   *)
(* and that the model named twice, in its goal and in its move: the gate   *)
(* lets nothing else through, and get_order is a READ tool.                *)
THEOREM ToolGetsTheUsersOrderHolds == Spec => []ToolGetsTheUsersOrder
<1>1. ASSUME PathInv, command # Nothing
      PROVE  /\ Len(answer.candidates) = 1 /\ answer.context.uncertainties = {}
             /\ command.order = Normalize(answer.candidates[1].inputs[1].value)
             /\ QuotesOrder(text, command.order)
             /\ answer.move.kind = "CALL_TOOL"
             /\ ArgumentOrder(answer.move.arguments) = command.order
             /\ answer.move.tool = "get_order"
             /\ \E g \in snapshot.registrations :
                  g.visible = "get_order" /\ g.effect = "READ" /\ g.body = "GET_ORDER"
  <2>1. /\ Authorizing /\ Judged /\ MoveKnown /\ decision.kind = "ROUTABLE"
        /\ gate = GateDecision(move, GateChecks(move, current.task, current.unit), snapshot)
        /\ gate.decision = "ACCEPT"
        /\ command = Authorized(gate, decision.graph.binding, snapshot)
        /\ IsSnapshot(snapshot) /\ SnapshotIsConsistent(snapshot)
    <3>1. Authorizing /\ Judged /\ MoveKnown /\ GraphRecorded
      BY <1>1 DEF Authorizing, Judged, BothLoaded, TaskLoaded, MoveKnown, GraphRecorded
    <3>2. decision.kind = "ROUTABLE"
      BY <1>1, <3>1 DEF PathInv, RowsAreOurs
    <3>3. IsSnapshot(snapshot)
      BY <1>1, <3>2, DecidedByReduce
    <3> QED
      BY <1>1, <3>1, <3>2, <3>3 DEF PathInv, Understood
  <2>2. PICK checks : checks = GateChecks(move, current.task, current.unit)
    OBVIOUS
  <2>3. Judges(checks, current.task, current.unit)
    BY <1>1, <2>1, <2>2, GateJudges
  <2>4. /\ checks.argument_binding_valid /\ checks.registration_valid
        /\ checks.schema_valid /\ checks.action_boundary_valid
    <3>1. \A c \in CheckNames : checks[c]
      BY <2>1, <2>2, AcceptMeans
    <3> QED
      BY <3>1 DEF CheckNames
  <2>5. command.order = decision.graph.binding.value
    BY <2>1 DEF Authorized
  <2>6. ArgumentOrder(answer.move.arguments) = command.order /\ answer.move.kind = "CALL_TOOL"
    BY <1>1, <2>1, <2>3, <2>4, <2>5, MoveFields DEF Judges, ArgumentBindingValid
  <2>7. PICK tool : tool = answer.move.tool
    OBVIOUS
  <2>8. PICK registration : registration = RegistrationOf(snapshot, tool)
    OBVIOUS
  <2>9. /\ CanonicalName(snapshot, tool) = "get_order" /\ tool = "get_order"
        /\ IsGetOrder(registration) /\ registration.effect = "READ"
    BY <2>3, <2>4, <2>7, <2>8 DEF Judges, ToolIsRegistered, SchemaValid
  <2>10. PICK g \in snapshot.registrations :
           g.visible = tool /\ CanonicalName(snapshot, tool) = g.name
    BY <2>1, <2>9, RegistryKnows, NothingIsNoReason
  <2>11. registration = g
    BY <2>1, <2>8, <2>10, RegistryFinds
  <2> QED
    BY <1>1, <2>1, <2>5, <2>6, <2>7, <2>9, <2>10, <2>11, BoundOrder DEF IsGetOrder
<1>2. PathInv => ToolGetsTheUsersOrder
  BY <1>1 DEF ToolGetsTheUsersOrder
<1> QED
  BY <1>2, PathKept, PTL

----------------------------------------------------------------------------
(* What is known of the checks and the rows when the gate has decided.     *)
LEMMA JudgedPath ==
  ASSUME PathInv, gate # Nothing
  PROVE  /\ MoveKnown /\ decision.kind = "ROUTABLE" /\ RowsAreOurs
         /\ gate = GateDecision(move, GateChecks(move, current.task, current.unit), snapshot)
         /\ LoadedFrom(current.task, decision.graph.task)
         /\ LoadedFrom(current.unit, decision.graph.unit)
         /\ IsSnapshot(snapshot) /\ SnapshotIsConsistent(snapshot)
<1>1. Judged /\ BothLoaded /\ TaskLoaded /\ MoveKnown /\ GraphRecorded
  BY DEF Judged, BothLoaded, TaskLoaded, MoveKnown, GraphRecorded
<1>2. decision.kind = "ROUTABLE" /\ RowsAreOurs
  BY <1>1 DEF PathInv, RowsAreOurs
<1>3. IsSnapshot(snapshot)
  BY <1>2, DecidedByReduce
<1> QED
  BY <1>1, <1>2, <1>3 DEF PathInv, Understood

(* A loaded row has the identity it was recorded with, and is the recorded *)
(* one while it is ACTIVE.                                                 *)
LEMMA LoadedRows ==
  ASSUME PathInv, gate # Nothing
  PROVE  LET graph == decision.graph
         IN  /\ current.task.status = "ACTIVE" => current.task = graph.task
             /\ current.unit.status = "ACTIVE" => current.unit = graph.unit
             /\ stored.task.version = 1 => current.task = graph.task /\ current.unit = graph.unit
             /\ stored.task.version \in 1..2
             /\ current.unit.bindings = <<graph.binding.id>>
             /\ graph.unit.bindings = <<graph.binding.id>>
             /\ graph.task.owner = Owner /\ graph.unit.task = graph.task.id
             /\ graph.task.version = 1 /\ graph.unit.version = 1
             /\ graph.task.status = "ACTIVE" /\ graph.unit.status = "ACTIVE"
<1>1. /\ decision.kind = "ROUTABLE" /\ RowsAreOurs
      /\ LoadedFrom(current.task, decision.graph.task)
      /\ LoadedFrom(current.unit, decision.graph.unit)
  BY JudgedPath
<1>2. PICK now \in Instants :
        decision.graph = InitialGraph(answer.candidates[1], answer, now)
  BY <1>1, RoutableRows
<1>3. PICK graph, task, unit, binding :
        /\ graph = decision.graph /\ task = graph.task /\ unit = graph.unit
        /\ binding = graph.binding
  OBVIOUS
<1>4. /\ {"status", "version"} \subseteq DOMAIN task
      /\ {"status", "version"} \subseteq DOMAIN unit
      /\ task.version = 1 /\ task.status = "ACTIVE" /\ unit.version = 1
  BY <1>1, <1>3, RowFields
<1>5. /\ unit.bindings = <<binding.id>> /\ task.owner = Owner /\ unit.task = task.id
      /\ unit.status = "ACTIVE"
  BY <1>2, <1>3, GraphFields
<1>6. ASSUME NEW row, NEW recorded, recorded.version = 1,
             {"status", "version"} \subseteq DOMAIN recorded, row \in Rows(recorded)
      PROVE  /\ row.status = "ACTIVE" => row = recorded
             /\ row.version \in 1..2
             /\ row.bindings = recorded.bindings
  <2>1. CASE row = recorded
    BY <1>6, <2>1
  <2>2. ASSUME NEW s \in {"WAITING_USER", "BLOCKED"},
               row = [recorded EXCEPT !.status = s, !.version = @ + 1]
        PROVE  /\ row.status = "ACTIVE" => row = recorded
               /\ row.version \in 1..2
               /\ row.bindings = recorded.bindings
    <3>1. row.status = s /\ row.version = 2
      BY <1>6, <2>2
    <3>2. row.bindings = recorded.bindings
      BY <2>2
    <3> QED
      BY <3>1, <3>2
  <2> QED
    BY <1>6, <2>1, <2>2 DEF Rows
<1>7. /\ current.task \in Rows(task) /\ current.unit \in Rows(unit)
      /\ stored.task \in Rows(task)
      /\ current.task = task \/ stored.task.version > 1
      /\ current.unit = unit \/ stored.task.version > 1
  BY <1>1, <1>3 DEF LoadedFrom, RowsAreOurs
<1>8. /\ current.task.status = "ACTIVE" => current.task = task
      /\ current.unit.status = "ACTIVE" => current.unit = unit
      /\ current.unit.bindings = unit.bindings
      /\ stored.task.version \in 1..2
  BY <1>4, <1>6, <1>7
<1>9. stored.task.version = 1 => current.task = task /\ current.unit = unit
  BY <1>7
<1> QED
  BY <1>3, <1>4, <1>5, <1>8, <1>9

(* The decision of the gate is one that GateDecision accepts.              *)
LEMMA DecisionMatches ==
  ASSUME PathInv, gate # Nothing
  PROVE  DecisionMatchesChecks(gate)
<1>1. /\ MoveKnown
      /\ gate = GateDecision(move, GateChecks(move, current.task, current.unit), snapshot)
  BY JudgedPath
<1>2. PICK checks : checks = GateChecks(move, current.task, current.unit)
  OBVIOUS
<1>3. Judges(checks, current.task, current.unit)
  BY <1>1, <1>2, GateJudges
<1>4. PICK g, m, canonical :
        /\ g = gate /\ m = move /\ canonical = CanonicalName(snapshot, move.tool)
        /\ g = [checks |-> checks, tool |-> m.tool, canonical |-> canonical,
                bindings |-> m.bindings, validated |-> m.validated,
                decision |-> IF \A c \in CheckNames : checks[c] THEN "ACCEPT" ELSE "REJECT",
                reason |-> GateReason(checks)]
  BY <1>1, <1>2 DEF GateDecision
<1>5. m.bindings = <<decision.graph.binding.id>> /\ m.validated = 1
      /\ m.tool = answer.move.tool
  BY <1>1, <1>4, MoveFields
<1>6. g.bindings # <<>> /\ g.validated >= 1
  BY <1>4, <1>5
<1>7. /\ g.checks = checks /\ g.reason = GateReason(checks) /\ g.canonical = canonical
      /\ g.decision = IF \A c \in CheckNames : checks[c] THEN "ACCEPT" ELSE "REJECT"
  BY <1>4
<1>8. CASE \A c \in CheckNames : checks[c]
  <2>1. checks.registration_valid
    BY <1>8 DEF CheckNames
  <2>2. canonical # Nothing
    BY <1>3, <1>4, <1>5, <2>1, NothingIsNoReason DEF Judges, ToolIsRegistered
  <2>3. ~FirstFailed(checks)
    BY <1>8 DEF CheckNames, FirstFailed
  <2>4. GateReason(checks) = Nothing
    BY <2>3, GateReasonIsFirst
  <2>5. DecisionMatchesChecks(g)
    BY <1>6, <1>7, <1>8, <2>2, <2>4 DEF DecisionMatchesChecks
  <2> QED
    BY <1>4, <2>5
<1>9. CASE ~\A c \in CheckNames : checks[c]
  <2>1. FirstFailed(checks)
    BY <1>9, GateReasonIsFirst
  <2>2. /\ GateReason(checks) \in DOMAIN FailedCheck
        /\ ~checks[FailedCheck[GateReason(checks)]]
    BY <2>1 DEF FirstFailed, FailedCheck
  <2>3. GateReason(checks) # Nothing
    BY <2>2, NothingIsNoReason
  <2>4. DecisionMatchesChecks(g)
    BY <1>6, <1>7, <1>9, <2>2, <2>3 DEF DecisionMatchesChecks
  <2> QED
    BY <1>4, <2>4
<1> QED
  BY <1>8, <1>9

(* A tool that the registry resolves to get_order, told by a registration. *)
LEMMA ToolIsShown ==
  ASSUME IsSnapshot(snapshot), SnapshotIsConsistent(snapshot), NEW tool
  PROVE  /\ ToolIsRegistered(tool) <=> tool = "get_order" /\ Shown("get_order")
         /\ ToolIsRegistered(tool) =>
              \E g \in snapshot.registrations :
                /\ g.visible = "get_order" /\ g.name = "get_order"
                /\ RegistrationOf(snapshot, tool) = g
                /\ VisibleSpec(snapshot, tool) \in snapshot.toolset
                /\ VisibleSpec(snapshot, tool).name = "get_order"
<1>1. ASSUME ToolIsRegistered(tool)
      PROVE  \E g \in snapshot.registrations :
               /\ g.visible = "get_order" /\ g.name = "get_order" /\ tool = "get_order"
               /\ RegistrationOf(snapshot, tool) = g
               /\ VisibleSpec(snapshot, tool) \in snapshot.toolset
               /\ VisibleSpec(snapshot, tool).name = "get_order"
  <2>1. CanonicalName(snapshot, tool) = "get_order" /\ tool = "get_order"
    BY <1>1 DEF ToolIsRegistered
  <2>2. PICK g \in snapshot.registrations :
          g.visible = tool /\ CanonicalName(snapshot, tool) = g.name
    BY <2>1, RegistryKnows, NothingIsNoReason
  <2>3. /\ RegistrationOf(snapshot, g.visible) = g
        /\ VisibleSpec(snapshot, g.visible) \in snapshot.toolset
        /\ VisibleSpec(snapshot, g.visible).name = g.visible
    BY RegistryFinds
  <2> QED
    BY <2>1, <2>2, <2>3
<1>2. ASSUME tool = "get_order", Shown("get_order")
      PROVE  ToolIsRegistered(tool)
  <2>1. PICK g \in snapshot.registrations : g.visible = tool /\ g.name = "get_order"
    BY <1>2 DEF Shown
  <2>2. /\ CanonicalName(snapshot, g.visible) = g.name
        /\ RegistrationOf(snapshot, g.visible) = g /\ g # Nothing
        /\ VisibleSpec(snapshot, g.visible) # Nothing
    BY RegistryFinds
  <2> QED
    BY <1>2, <2>1, <2>2 DEF ToolIsRegistered
<1> QED
  BY <1>1, <1>2 DEF Shown

(* The state check passes on the rows as they were recorded.               *)
LEMMA RecordedStateIsValid ==
  ASSUME PathInv, gate # Nothing
  PROVE  StateVersionValid(move, Owner, decision.graph.task, decision.graph.unit,
                           FirstManifest, "first")
<1>1. /\ MoveKnown
      /\ decision.graph.task.owner = Owner
      /\ decision.graph.unit.task = decision.graph.task.id
      /\ decision.graph.task.version = 1 /\ decision.graph.unit.version = 1
      /\ decision.graph.task.status = "ACTIVE" /\ decision.graph.unit.status = "ACTIVE"
  BY JudgedPath, LoadedRows
<1>2. /\ move.run = Run /\ move.task = decision.graph.task.id
      /\ move.unit = decision.graph.unit.id /\ move.validated = 1 /\ move.proposedBase = 0
  BY <1>1, MoveFields
<1>3. FirstManifest.task = Nothing /\ FirstManifest.run = Run /\ FirstManifest.call = "first"
  BY DEF FirstManifest
<1> QED
  BY <1>1, <1>2, <1>3 DEF StateVersionValid

(* The reason the gate reports is the first of its order that holds, so it *)
(* tells what was wrong and what was not.                                  *)
THEOREM ReasonTellsCauseHolds == Spec => []ReasonTellsCause
<1> DEFINE replaced == ArgumentOrder(answer.move.arguments) # decision.graph.binding.value
           known == answer.move.tool = "get_order" /\ Shown("get_order")
           Cause ==
             CASE gate.reason = "ARGUMENT_BINDING_MISMATCH" -> replaced
               [] gate.reason = "TOOL_NOT_REGISTERED" -> ~replaced /\ ~known
               [] gate.reason = "SCHEMA_INVALID" ->
                    /\ ~replaced /\ known
                    /\ \/ \E t \in snapshot.toolset : t.name = "get_order"
                                                      /\ t.body # "GET_ORDER"
                       \/ \E g \in snapshot.registrations : g.visible = "get_order"
                                                             /\ g.body # "GET_ORDER"
               [] gate.reason = "STATE_VERSION_MISMATCH" ->
                    /\ stored.task.version > 1
                    /\ LET asRecorded == GateChecks(move, decision.graph.task,
                                                    decision.graph.unit)
                       IN  GateReason(asRecorded) \in {Nothing, "ACTION_REQUIRES_PROPOSAL"}
               [] gate.reason = "ACTION_REQUIRES_PROPOSAL" ->
                    /\ ~replaced /\ known
                    /\ \E g \in snapshot.registrations : g.visible = "get_order"
                                                          /\ g.effect # "READ"
                    /\ current.task = decision.graph.task /\ current.unit = decision.graph.unit
               [] OTHER -> FALSE
<1>1. ASSUME PathInv, gate # Nothing, gate.decision = "REJECT"
      PROVE  Cause
  <2>1. /\ MoveKnown /\ decision.kind = "ROUTABLE"
        /\ gate = GateDecision(move, GateChecks(move, current.task, current.unit), snapshot)
        /\ IsSnapshot(snapshot) /\ SnapshotIsConsistent(snapshot)
    BY <1>1, JudgedPath
  <2>2. PICK checks : checks = GateChecks(move, current.task, current.unit)
    OBVIOUS
  <2>3. PICK before : before = GateChecks(move, decision.graph.task, decision.graph.unit)
    OBVIOUS
  <2>4. PICK tool, args, registration, spec :
          /\ tool = answer.move.tool /\ args = answer.move.arguments
          /\ registration = RegistrationOf(snapshot, tool)
          /\ spec = VisibleSpec(snapshot, tool)
    OBVIOUS
  <2>5. /\ move.tool = tool /\ move.arguments = args /\ move.order = ArgumentOrder(args)
        /\ move.bound = decision.graph.binding.value
        /\ move.bindings = <<decision.graph.binding.id>>
    BY <1>1, <2>1, <2>4, MoveFields
  <2>6. /\ current.task.status = "ACTIVE" => current.task = decision.graph.task
        /\ current.unit.status = "ACTIVE" => current.unit = decision.graph.unit
        /\ stored.task.version = 1 => /\ current.task = decision.graph.task
                                      /\ current.unit = decision.graph.unit
        /\ stored.task.version \in 1..2
        /\ current.unit.bindings = <<decision.graph.binding.id>>
        /\ decision.graph.unit.bindings = <<decision.graph.binding.id>>
    BY <1>1, LoadedRows
  <2>7. Judges(checks, current.task, current.unit)
        /\ Judges(before, decision.graph.task, decision.graph.unit)
    BY <1>1, <2>1, <2>2, <2>3, GateJudges
  <2>8. /\ checks.snapshot_match /\ checks.trusted_field_valid
        /\ checks.budget_valid /\ checks.progress_valid
        /\ before.snapshot_match /\ before.trusted_field_valid
        /\ before.budget_valid /\ before.progress_valid
        /\ checks.argument_binding_valid <=> ~replaced
        /\ before.argument_binding_valid <=> ~replaced
        /\ checks.registration_valid <=> ToolIsRegistered(tool)
        /\ before.registration_valid <=> ToolIsRegistered(tool)
        /\ checks.schema_valid <=> SchemaValid(move, registration, spec)
        /\ before.schema_valid <=> SchemaValid(move, registration, spec)
        /\ checks.action_boundary_valid <=> registration # Nothing /\ registration.effect = "READ"
    BY <2>4, <2>5, <2>6, <2>7 DEF Judges, ArgumentBindingValid
  <2>9. ToolIsRegistered(tool) <=> known
    BY <2>1, <2>4, ToolIsShown
  <2>10. gate.reason = GateReason(checks) /\ FirstFailed(checks)
    <3>1. ~\A c \in CheckNames : checks[c]
      BY <1>1, <2>1, <2>2 DEF GateDecision
    <3>2. gate.reason = GateReason(checks)
      BY <2>1, <2>2 DEF GateDecision
    <3> QED
      BY <3>1, <3>2, GateReasonIsFirst
  <2> DEFINE reason == gate.reason
  <2>11. CASE reason = "ARGUMENT_BINDING_MISMATCH"
    BY <2>8, <2>10, <2>11 DEF FirstFailed
  <2>12. CASE reason = "TOOL_NOT_REGISTERED"
    BY <2>8, <2>9, <2>10, <2>12 DEF FirstFailed
  <2>13. CASE reason = "SCHEMA_INVALID"
    <3>1. ~replaced /\ known /\ ToolIsRegistered(tool) /\ ~SchemaValid(move, registration, spec)
      BY <2>8, <2>9, <2>10, <2>13 DEF FirstFailed
    <3>2. PICK g \in snapshot.registrations :
            /\ g.visible = "get_order" /\ g.name = "get_order" /\ registration = g
            /\ spec \in snapshot.toolset /\ spec.name = "get_order"
      BY <2>1, <2>4, <3>1, ToolIsShown
    <3>3. ArgumentOrder(args) # Nothing
      BY <1>1, <2>1, <2>4, <3>1, BoundOrder
    <3>4. /\ DOMAIN args = {"order_id"} /\ Normalize(args.order_id) # Nothing
          /\ Normalize(args.order_id) = ArgumentOrder(args)
      BY <3>3 DEF ArgumentOrder
    <3>5. ~ShownAsRegistered(registration, spec) \/ ~IsGetOrder(registration)
      BY <2>5, <3>1, <3>4 DEF SchemaValid
    <3>6. CASE ~IsGetOrder(registration)
      <4>1. g.body # "GET_ORDER"
        BY <3>2, <3>6 DEF IsGetOrder
      <4> QED
        BY <2>13, <3>1, <3>2, <4>1
    <3>7. CASE ~ShownAsRegistered(registration, spec)
      <4>1. spec # [name |-> g.visible, body |-> g.body]
        BY <2>1, <3>2, <3>7 DEF ShownAsRegistered, IsSnapshot
      <4>2. spec \in [name: STRING, body: STRING]
        BY <2>1, <3>2 DEF IsSnapshot
      <4>3. spec = [name |-> spec.name, body |-> spec.body]
        BY <4>2
      <4>4. spec.body # g.body
        BY <3>2, <4>1, <4>3
      <4>5. spec.body # "GET_ORDER" \/ g.body # "GET_ORDER"
        BY <4>4
      <4> QED
        BY <2>13, <3>1, <3>2, <4>5
    <3> QED
      BY <3>5, <3>6, <3>7
  <2>14. CASE reason = "STATE_VERSION_MISMATCH"
    <3>1. /\ ~checks.state_version_valid /\ checks.argument_binding_valid
          /\ checks.registration_valid /\ checks.schema_valid
      BY <2>10, <2>14 DEF FirstFailed
    <3>2. StateVersionValid(move, Owner, decision.graph.task, decision.graph.unit,
                            FirstManifest, "first")
      BY <1>1, RecordedStateIsValid
    <3>3. ~StateVersionValid(move, Owner, current.task, current.unit, FirstManifest, "first")
      BY <2>7, <3>1 DEF Judges
    <3>4. stored.task.version # 1
      BY <2>6, <3>2, <3>3
    <3>5. stored.task.version > 1
      BY <2>6, <3>4
    <3>6. before.state_version_valid
      BY <2>7, <3>2 DEF Judges
    <3>7. GateReason(before) \in {Nothing, "ACTION_REQUIRES_PROPOSAL"}
      BY <2>8, <3>1, <3>6, GateReasonIsFirst DEF FirstFailed
    <3> QED
      BY <2>3, <2>14, <3>5, <3>7
  <2>15. CASE reason = "ACTION_REQUIRES_PROPOSAL"
    <3>1. /\ ~replaced /\ known /\ ToolIsRegistered(tool) /\ checks.state_version_valid
          /\ ~(registration # Nothing /\ registration.effect = "READ")
      BY <2>8, <2>9, <2>10, <2>15 DEF FirstFailed
    <3>2. PICK g \in snapshot.registrations : g.visible = "get_order" /\ registration = g
      BY <2>1, <2>4, <3>1, ToolIsShown
    <3>3. g.effect # "READ"
      BY <2>1, <3>1, <3>2 DEF IsSnapshot
    <3>4. current.task.status = "ACTIVE" /\ current.unit.status = "ACTIVE"
      BY <2>7, <3>1 DEF Judges, StateVersionValid
    <3> QED
      BY <2>6, <2>15, <3>1, <3>2, <3>3, <3>4
  <2> QED
    BY <2>8, <2>10, <2>11, <2>12, <2>13, <2>14, <2>15 DEF FirstFailed
<1>2. PathInv => ReasonTellsCause
  BY <1>1, DecisionMatches DEF ReasonTellsCause
<1> QED
  BY <1>2, PathKept, PTL
=============================================================================
