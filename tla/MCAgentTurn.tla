---------------------------- MODULE MCAgentTurn -----------------------------
(* Answers of the LLM for the finite instances of AgentTurn.                *)
EXTENDS AgentTurn

SomeResponses ==
    {<<>>, <<"list_metrics">>, <<"clarify">>, <<"final_answer">>,
     <<"list_metrics", "final_answer">>, <<"final_answer", "list_metrics">>}
=============================================================================
