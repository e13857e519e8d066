---------------------------- MODULE AgentStream ----------------------------
(***************************************************************************)
(* Abstract specification of what the parent gets from an agent: the       *)
(* messages it produced, in order, none skipped and none twice, until the  *)
(* parent is told that there will be no more.  There are no pipes, frames, *)
(* threads or processes; AgentTransport implements this module.            *)
(***************************************************************************)
EXTENDS Integers, Sequences

VARIABLES produced, consumed, over
streamVars == <<produced, consumed, over>>

StreamInit == produced = <<>> /\ consumed = <<>> /\ over = FALSE

Produce ==
  /\ Len(produced') = Len(produced) + 1 /\ SubSeq(produced', 1, Len(produced)) = produced
  /\ UNCHANGED <<consumed, over>>

Consume ==
  /\ ~over /\ Len(consumed) < Len(produced)
  /\ consumed' = Append(consumed, produced[Len(consumed) + 1])
  /\ UNCHANGED <<produced, over>>

End == over' = TRUE /\ UNCHANGED <<produced, consumed>>

Stream == StreamInit /\ [][Produce \/ Consume \/ End]_streamVars
=============================================================================
