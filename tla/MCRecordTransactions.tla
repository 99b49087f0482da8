-------------------------- MODULE MCRecordTransactions --------------------------
(***************************************************************************)
(* Small instances of RecordTransactions.                                  *)
(***************************************************************************)
EXTENDS RecordTransactionsSafety, TLC

SomeTasks == {NoRow, InitialRow, Moved(InitialRow, "WAITING_USER")}
SomeStops == {"GOAL_COMPLETED"}
SomeResults == {"SUCCEEDED"}
SomeEvents == {"ToolCallStarted"}

RecoverersAlike == Permutations(Recoverers)

===============================================================================
