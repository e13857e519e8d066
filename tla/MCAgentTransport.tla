-------------------------- MODULE MCAgentTransport --------------------------
(* Small instances of AgentTransport for TLC.                              *)
EXTENDS AgentTransport

\* One that recv() takes and recv_hello() rejects, one the decoder rejects, and the
\* beginning of one that is cut off.
MCFrames == {"ready", "huge", "part"}
=============================================================================
