--------------------------- MODULE MCPlanBuilder ---------------------------
(* A small instance of PlanBuilder for TLC.                                *)
EXTENDS PlanBuilder

CONSTANTS u1, u2, c1

MCIds == {u1, u2}
MCCells == {c1}

Own(id, type) ==
  [kind |-> "UNIT", id |-> id, controlled |-> TRUE, type |-> type, cell |-> c1]
Enemy(id, type) == [Own(id, type) EXCEPT !.controlled = FALSE]
OwnCore(id) == [kind |-> "CORE", id |-> id, controlled |-> TRUE, cell |-> c1]
EnemyCore(id) == [OwnCore(id) EXCEPT !.controlled = FALSE]
Rocks == [kind |-> "OBSTACLE", cells |-> {c1}]

\* The populations on both sides of the first and the second rise of the prices, and the
\* last one TLC's integers reach.
MCStates ==
  {[objects |-> <<Rocks, Own(u1, "WORKER"), Own(u2, "VANGUARD")>>,
    resources |-> 7, population |-> 20],
   [objects |-> <<Own(u1, "RANGER"), OwnCore(u2)>>, resources |-> 95, population |-> 19],
   [objects |-> <<Enemy(u1, "RANGER")>>, resources |-> 280, population |-> 54],
   [objects |-> <<EnemyCore(u1)>>, resources |-> 3, population |-> 1]}

MCUsed == {"HARVEST", "SWEEP", "SHOOT", "SPAWN"}
=============================================================================
