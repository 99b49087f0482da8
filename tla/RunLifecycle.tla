----------------------------- MODULE RunLifecycle -----------------------------
(***************************************************************************)
(* What the record port promises about a Run, with the handler, the        *)
(* processes and the failures left out: a Run is created, started, given   *)
(* at most one Task graph and at most one ToolCall, and ends exactly once. *)
(* However it ends, the Run, its RunTaskLink and its evidence (the reason, *)
(* the ASSISTANT Message, the RunStopped event) change in one step, and no *)
(* ToolCall is left active behind it.                                      *)
(***************************************************************************)
CONSTANTS Runs, Reasons, RestartReason

(* life[r] is what a reader of the database can tell of Run r: its status and *)
(* reason, whether there is a reply and a RunStopped event, its RunTaskLink    *)
(* and whether its ToolCall is active.                                         *)
VARIABLE life

Unborn ==
  [status |-> "ABSENT", reason |-> "NONE", reply |-> FALSE, stopped |-> FALSE,
   link |-> "ABSENT", tool |-> "ABSENT"]

Init == life = [r \in Runs |-> Unborn]

Closed(link) == IF link = "OPEN" THEN "CLOSED" ELSE link
Cut(tool) == IF tool = "ACTIVE" THEN "ENDED" ELSE tool

Becomes(r, next) == life' = [life EXCEPT ![r] = next]

Create(r) ==
  /\ life[r].status = "ABSENT"
  /\ Becomes(r, [life[r] EXCEPT !.status = "CREATED"])

Start(r) ==
  /\ life[r].status = "CREATED"
  /\ Becomes(r, [life[r] EXCEPT !.status = "RUNNING"])

Link(r) ==
  /\ life[r].status = "RUNNING" /\ life[r].link = "ABSENT"
  /\ Becomes(r, [life[r] EXCEPT !.link = "OPEN"])

OpenTool(r) ==
  /\ life[r].status = "RUNNING" /\ life[r].link = "OPEN"
  /\ life[r].tool = "ABSENT"
  /\ Becomes(r, [life[r] EXCEPT !.tool = "ACTIVE"])

EndTool(r) ==
  /\ life[r].status = "RUNNING" /\ life[r].tool = "ACTIVE"
  /\ Becomes(r, [life[r] EXCEPT !.tool = "ENDED"])

\* A terminal step decides every field at once.
Complete(r) ==
  /\ life[r].status = "RUNNING" /\ life[r].tool # "ACTIVE"
  /\ \E reason \in Reasons :
       Becomes(r, [status |-> "COMPLETED", reason |-> reason,
                   reply |-> TRUE, stopped |-> TRUE,
                   link |-> Closed(life[r].link), tool |-> life[r].tool])

Fail(r) ==
  /\ life[r].status = "RUNNING" /\ life[r].tool # "ACTIVE"
  /\ Becomes(r, [status |-> "FAILED", reason |-> "NONE",
                 reply |-> FALSE, stopped |-> FALSE,
                 link |-> Closed(life[r].link), tool |-> life[r].tool])

Interrupt(r) ==
  /\ life[r].status \in {"CREATED", "RUNNING"}
  /\ Becomes(r, [status |-> "INCOMPLETE", reason |-> RestartReason,
                 reply |-> FALSE, stopped |-> TRUE,
                 link |-> Closed(life[r].link), tool |-> Cut(life[r].tool)])

Next ==
  \E r \in Runs :
    \/ Create(r) \/ Start(r) \/ Link(r) \/ OpenTool(r) \/ EndTool(r)
    \/ Complete(r) \/ Fail(r) \/ Interrupt(r)

Spec == Init /\ [][Next]_life

===============================================================================
