------------------------------ MODULE TurnLife ------------------------------
(***************************************************************************)
(* Abstract specification of the Turns an application gets from a client:  *)
(* ticks are announced, a Turn is built for the announced tick, and a Turn *)
(* accepts actions until something newer arrives or the client is closed.  *)
(* There are no connections, generators or retries; ArenaClient implements *)
(* this module, and PlanBuilder is composed with it.                       *)
(***************************************************************************)
EXTENDS Integers, Sequences

VARIABLES
  turns,      \* every Turn ever built: its tick, and whether it is open (_builder.closed)
  active,     \* index of _active_turn, 0 is None
  tick,       \* _current_tick, 0 is None
  closed,     \* _closed
  ended       \* closed, and no generator is left that could build a Turn

lifeVars == <<turns, active, tick, closed, ended>>

LifeInit == turns = <<>> /\ active = 0 /\ tick = 0 /\ closed = FALSE /\ ended = FALSE

BugSeal(ts, k) == ts
Seal(ts, k) == IF k = 0 THEN ts ELSE [ts EXCEPT ![k].open = FALSE]

\* A tick message: the Turn before it is over.
Announce ==
  /\ ~ended
  /\ tick' \in Nat /\ active' = 0
  /\ turns' = Seal(turns, active)
  /\ UNCHANGED <<closed, ended>>

\* A state message: a new Turn replaces the active one, of an older tick or the same.
Build ==
  /\ ~ended /\ tick # 0
  /\ turns' = Append(Seal(turns, active), [tick |-> tick, open |-> TRUE])
  /\ active' = Len(turns) + 1
  /\ UNCHANGED <<tick, closed, ended>>

\* close(); a generator that still runs may build one Turn more before it ends.
CloseClient ==
  /\ ~closed /\ closed' = TRUE
  /\ turns' = Seal(turns, active)
  /\ ended' \in BOOLEAN
  /\ UNCHANGED <<active, tick>>

\* The end of the last generator of a closed client.
End ==
  /\ closed /\ ~ended /\ ended' = TRUE
  /\ turns' = Seal(turns, active)
  /\ UNCHANGED <<active, tick, closed>>

LifeNext == Announce \/ Build \/ CloseClient \/ End

Life == LifeInit /\ [][LifeNext]_lifeVars
=============================================================================
