------------------------------ MODULE MCHealth ------------------------------
(* Small instances of AgentHealth.                                          *)
EXTENDS AgentHealth
=============================================================================
