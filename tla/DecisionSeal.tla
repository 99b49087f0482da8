---------------------------- MODULE DecisionSeal ----------------------------
(***************************************************************************)
(* The seal on a routable decision.  Only the Reducer makes one: it        *)
(* registers, for the address of a seal, the digest of the decision and    *)
(* the one object the seal belongs to.  A copy gets a seal of its own, a   *)
(* pickle gets a ticket that restores it at most once, and the entry of an *)
(* object is discarded when the object is collected, so that addresses can *)
(* be used again.  Workers restore pickles concurrently: the registry is   *)
(* read before the ticket is popped.                                       *)
(*                                                                         *)
(* Contents are told apart by their digests.                               *)
(***************************************************************************)
EXTENDS Naturals

CONSTANTS
  Object,      \* addresses of decision objects
  Seal,        \* addresses of seals
  Worker,      \* callers that restore pickles
  MaxTickets   \* bound on the pickles of a process

ASSUME TicketBound == MaxTickets \in Nat

VARIABLES
  objects,     \* from live objects to [content, seal, ticket]; ticket 0: not restored
  registry,    \* seal_registry: from seals to [digest, object]
  issued,      \* pickle_ticket_ids: tickets issued so far
  tickets,     \* pickle_ticket_registry: function from outstanding tickets to digests
  pickles,     \* the pickles in existence: [ticket, content]
  restoring,   \* from workers to the pickle whose ticket they have read
  reduced      \* the contents the Reducer decided on

sealVars == <<objects, registry, issued, tickets, pickles, restoring, reduced>>

(* _initial_routable_decision_payload_v2 and the digest the Reducer takes  *)
(* of it: it covers every field of the decision and below it.              *)
Digest(content) == <<"sealed", content>>

Live == DOMAIN objects
Put(f, x, value) == [y \in DOMAIN f \cup {x} |-> IF y = x THEN value ELSE f[y]]
Drop(f, x) == [y \in DOMAIN f \ {x} |-> f[y]]

(* initial_routable_decision_seal_matches.                                 *)
Matches(o) ==
  /\ o \in Live
  /\ objects[o].seal \in DOMAIN registry
  /\ registry[objects[o].seal].object = o
  /\ registry[objects[o].seal].digest = Digest(objects[o].content)

SealInit ==
  /\ objects = <<>> /\ registry = <<>>
  /\ issued = 0 /\ tickets = <<>> /\ pickles = {}
  /\ restoring = <<>>
  /\ reduced = {}

(* issue_initial_routable_decision_seal: a new object at a free address    *)
(* with a new seal registered for it.  "sealed" is the content the object  *)
(* had when the seal was issued.                                           *)
NewObject(content, sealed, ticket) ==
  \E o \in Object \ Live, s \in Seal \ {objects[p].seal : p \in Live} :
    /\ objects' = Put(objects, o, [content |-> content, seal |-> s, ticket |-> ticket])
    /\ registry' = Put(registry, s, [digest |-> Digest(sealed), object |-> o])

(* The Reducer constructs a decision with its permit and seals it.         *)
Issue(content) ==
  /\ NewObject(content, content, 0)
  /\ reduced' = reduced \cup {content}
  /\ UNCHANGED <<issued, tickets, pickles, restoring>>

CopySharingSeal(o) ==   \* mutant: the copy gets the seal of the original
  /\ Matches(o)
  /\ \E p \in Object \ Live :
       /\ objects' = Put(objects, p, [objects[o] EXCEPT !.ticket = 0])
       /\ UNCHANGED registry
  /\ UNCHANGED <<issued, tickets, pickles, restoring, reduced>>

(* copy_initial_routable_decision and its deep form.                       *)
CopyObject(o) ==
  /\ Matches(o)
  /\ NewObject(objects[o].content, objects[o].content, 0)
  /\ UNCHANGED <<issued, tickets, pickles, restoring, reduced>>

UpdateThenSeal(o, content) ==   \* mutant: changed first, sealed afterwards
  /\ Matches(o)
  /\ NewObject(content, content, 0)
  /\ UNCHANGED <<issued, tickets, pickles, restoring, reduced>>

(* model_copy(update=...): the copy is sealed first and changed afterwards. *)
UpdateCopy(o, content) ==
  /\ Matches(o)
  /\ NewObject(content, objects[o].content, 0)
  /\ UNCHANGED <<issued, tickets, pickles, restoring, reduced>>

(* reduce_pickled_initial_routable_decision.                               *)
Pickle(o) ==
  /\ Matches(o) /\ issued < MaxTickets
  /\ issued' = issued + 1
  /\ tickets' = Put(tickets, issued + 1, Digest(objects[o].content))
  /\ pickles' = pickles \cup {[ticket |-> issued + 1, content |-> objects[o].content]}
  /\ UNCHANGED <<objects, registry, restoring, reduced>>

(* A stored pickle whose bytes are not those that were written.            *)
DamagePickle(p, content) ==
  /\ pickles' = pickles \cup {[p EXCEPT !.content = content]}
  /\ UNCHANGED <<objects, registry, issued, tickets, restoring, reduced>>

(* restore_pickled_initial_routable_decision up to the digest check: the   *)
(* ticket is known and its digest is that of the restored content.         *)
ReadTicket(w, p) ==
  /\ w \notin DOMAIN restoring
  /\ p.ticket \in DOMAIN tickets /\ tickets[p.ticket] = Digest(p.content)
  /\ restoring' = Put(restoring, w, p)
  /\ UNCHANGED <<objects, registry, issued, tickets, pickles, reduced>>

PopUnchecked(w) ==   \* mutant: what was read is trusted when the ticket is popped
  /\ w \in DOMAIN restoring
  /\ restoring' = Drop(restoring, w)
  /\ tickets' = Drop(tickets, restoring[w].ticket)
  /\ NewObject(restoring[w].content, restoring[w].content, restoring[w].ticket)
  /\ UNCHANGED <<issued, pickles, reduced>>

(* The rest of it: the ticket is popped, and the object is sealed if the   *)
(* ticket was still the one that was read.                                 *)
PopTicket(w) ==
  /\ w \in DOMAIN restoring
  /\ restoring' = Drop(restoring, w)
  /\ tickets' = Drop(tickets, restoring[w].ticket)
  /\ IF restoring[w].ticket \in DOMAIN tickets
       THEN NewObject(restoring[w].content, restoring[w].content, restoring[w].ticket)
       ELSE UNCHANGED <<objects, registry>>
  /\ UNCHANGED <<issued, pickles, reduced>>

(* discard_seal: an object is collected and its entry with it.             *)
Collect(o) ==
  /\ o \in Live
  /\ objects' = Drop(objects, o)
  /\ registry' = Drop(registry, objects[o].seal)
  /\ UNCHANGED <<issued, tickets, pickles, restoring, reduced>>

(* What code that holds decisions may do with them; "other" is a content   *)
(* the Reducer did not decide on.                                          *)
HandleObjects(other) ==
  \/ \E o \in Object : CopyObject(o) \/ Pickle(o) \/ Collect(o)
  \/ \E o \in Object : UpdateCopy(o, other)
  \/ \E p \in pickles : DamagePickle(p, other)
  \/ \E w \in Worker, p \in pickles : ReadTicket(w, p)
  \/ \E w \in Worker : PopTicket(w)

----------------------------------------------------------------------------
(* A sealed decision is one the Reducer made: no copy, update, pickle or   *)
(* reuse of an address gives a seal to a content it did not decide on.     *)
SealedIsReduced == \A o \in Live : Matches(o) => objects[o].content \in reduced

(* A decision that was not changed keeps its seal as long as it lives,     *)
(* whatever happens to its copies and whoever used the address before.     *)
UnchangedStaysSealed == \A o \in Live : objects[o].content \in reduced => Matches(o)

(* A ticket restores at most one decision, also when two workers read it   *)
(* before either pops it.                                                  *)
TicketRestoresOnce ==
  \A o, p \in Live : objects[o].ticket # 0 =>
    /\ objects[o].ticket \notin DOMAIN tickets
    /\ objects[o].ticket = objects[p].ticket => o = p
=============================================================================
