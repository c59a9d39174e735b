----------------------------- MODULE MCExecutor -----------------------------
(* Two workers and room for a third; three tasks, one of which may not be  *)
(* discarded; a queue that can be full.                                    *)
EXTENDS Executor, TLC
MCTasks == {"a", "b", "c"}
MCDiscardable == {"a", "b"}
=============================================================================
