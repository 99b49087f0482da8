----------------------------- MODULE EvalLedger -----------------------------
(***************************************************************************)
(* What the stored records of an evaluation run promise about each         *)
(* (Case, lane, attempt): a key is graded on at most one Trace and a Trace *)
(* for at most one key, a PASS or FAIL is about the Trace the key was      *)
(* graded on and comes after that event, NOT_RUN stands for no execution,  *)
(* and nothing that was stored changes afterwards.                         *)
(***************************************************************************)
EXTENDS Naturals

CONSTANTS Keys,      \* (Case, lane, attempt)
          Excuses,   \* what a NOT_RUN record may come from
          None

VARIABLES gradedOn,   \* the execution whose Trace holds the key's graded event
          result      \* the stored result

ledger == <<gradedOn, result>>

Init == gradedOn = [k \in Keys |-> None] /\ result = [k \in Keys |-> None]

Grade(k) ==
  /\ gradedOn[k] = None
  /\ gradedOn'[k] \in Nat \ {0}
  /\ \A other \in Keys : gradedOn[other] # gradedOn'[k]
  /\ gradedOn' = [gradedOn EXCEPT ![k] = gradedOn'[k]]
  /\ UNCHANGED result

Judge(k) ==
  /\ result[k] = None /\ gradedOn[k] # None
  /\ \E status \in {"PASS", "FAIL"} :
       result' = [result EXCEPT ![k] = [status |-> status, origin |-> gradedOn[k]]]
  /\ UNCHANGED gradedOn

Excuse(k) ==
  /\ result[k] = None
  /\ \E origin \in Excuses :
       result' = [result EXCEPT ![k] = [status |-> "NOT_RUN", origin |-> origin]]
  /\ UNCHANGED gradedOn

Next == \E k \in Keys : Grade(k) \/ Judge(k) \/ Excuse(k)

Spec == Init /\ [][Next]_ledger
=============================================================================
