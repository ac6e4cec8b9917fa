------------------------ MODULE MC_WorkflowExecution ------------------------
(***************************************************************************)
(* WorkflowExecution for TLC.  The longest list has the same node types    *)
(* twice, so that an execution waits, mails and moves on more than once.   *)
(***************************************************************************)
EXTENDS WorkflowExecution, TLC

NodeLists == {<<>>, <<"trigger", "broken">>, <<"trigger", "delay", "email">>,
              <<"trigger", "email", "delay", "delay", "email", "end">>}

Interchangeable == Permutations(Workers) \cup Permutations(Pollers)
=============================================================================
