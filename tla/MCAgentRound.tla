---------------------------- MODULE MCAgentRound ----------------------------
(* Small instances of AgentRound for TLC.                                  *)
EXTENDS AgentRound

MCReplies == {"hello", "ready", "decision", "part"}
=============================================================================
