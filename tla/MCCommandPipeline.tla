------------------------- MODULE MCCommandPipeline -------------------------
(* Small instances of CommandPipeline for TLC. *)
EXTENDS CommandPipeline

\* The pipelines of the tests, and retries around each kind of transaction.
AllPipelines ==
  {<<"Retry", "Validation">>,
   <<"TranContext", "Validation">>,
   <<"TranScope", "Validation">>,
   <<"Retry", "TranContext", "Validation">>,
   <<"Retry", "TranScope", "Validation">>}

RetryOnly == {<<"Retry", "Validation">>}
=============================================================================
