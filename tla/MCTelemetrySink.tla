-------------------------- MODULE MCTelemetrySink --------------------------
(* Small instances of TelemetrySink for TLC.                               *)
EXTENDS TelemetrySink
=============================================================================
