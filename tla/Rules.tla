------------------------------- MODULE Rules -------------------------------
(* The arithmetic of rules.py, and the use Turn makes of it.               *)
EXTENDS Integers

UnitTypes == {"WORKER", "VANGUARD", "RANGER"}
UNIT_BASE_COSTS == [WORKER |-> 5, VANGUARD |-> 10, RANGER |-> 12]

core_resource_capacity(population) == IF population * 5 >= 10 THEN population * 5 ELSE 10

\* Turn.resource_space
resource_space(population, resources) ==
  LET space == core_resource_capacity(population) - resources
  IN  IF space >= 0 THEN space ELSE 0

BugExponent(population) == IF population <= 20 THEN 0 ELSE (population - 20) \div 5 + 1
Exponent(population) == IF population < 20 THEN 0 ELSE (population - 20) \div 5 + 1

\* b ** n
Powers(b) == LET power[n \in Nat] == IF n = 0 THEN 1 ELSE b * power[n - 1] IN power

RoundedHalfUp(n, d) == (2 * n + d) \div (2 * d)

unit_cost(type, population) ==
  LET e == Exponent(population)
  IN  RoundedHalfUp(UNIT_BASE_COSTS[type] * Powers(13)[e], Powers(10)[e])
=============================================================================
