------------------------------ MODULE MCAgentRun ------------------------------
(***************************************************************************)
(* Small instances of AgentRun: one Run handled while two processes start, *)
(* crash and recover over the same database, and two Runs on one process.  *)
(***************************************************************************)
EXTENDS AgentRunSafety, TraceGradingSafety, RunEvidenceSafety

CONSTANTS r1, r2, p1, p2

OneRun == {r1}
TwoRuns == {r1, r2}
OneProcess == {p1}
TwoProcesses == {p1, p2}

===============================================================================
