------------------------------- MODULE MCTask -------------------------------
(***************************************************************************)
(* Task with values for its constants: a task of the SPM that a client     *)
(* stops, a task of the SPM through two restarts, and a task of the HSM,   *)
(* without a store, that is stopped and reverted.                          *)
(***************************************************************************)
EXTENDS Task

StoppedTask == [stored |-> TRUE, stopped |-> TRUE, reverted |-> FALSE,
                MaxRecoveries |-> 1, MaxCrashes |-> 0]
RestartedTask == [stored |-> TRUE, stopped |-> FALSE, reverted |-> FALSE,
                  MaxRecoveries |-> 2, MaxCrashes |-> 2]
HsmTask == [stored |-> FALSE, stopped |-> TRUE, reverted |-> TRUE,
            MaxRecoveries |-> 1, MaxCrashes |-> 0]

AllKinds == {StoppedTask, RestartedTask, HsmTask}
AllFaults == Fault
=============================================================================
