-------------------------- MODULE MCCommandSubmit --------------------------
(* Small instances of CommandSubmit for TLC.                               *)
EXTENDS CommandSubmit
=============================================================================
