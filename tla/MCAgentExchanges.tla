--------------------------- MODULE MCAgentExchanges ---------------------------
(* Instances of AgentExchanges, with the constants of MCAgentTurn.           *)
EXTENDS MCAgentTurn, AgentExchanges
===============================================================================
