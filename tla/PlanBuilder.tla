---------------------------- MODULE PlanBuilder ----------------------------
(***************************************************************************)
(* The Turn as an application uses it: the controllers of the units and of *)
(* the Core, the slots of the plan they write, and the plans that are      *)
(* built from it and submitted.  Composed with TurnLife, which opens and   *)
(* seals Turns; the application may keep every Turn, controller and view.  *)
(*                                                                         *)
(* A direction or a unit type of an action is not modelled; what a shot    *)
(* aims at is.                                                             *)
(***************************************************************************)
EXTENDS TurnLife, Rules, FiniteSets

CONSTANTS
  Ids, Cells,
  NoAction, NoId, NoCell,  \* None as an action, as target_id and as expected_cell
  States,          \* player states: [objects, resources, population]
  Used,            \* bound: the kinds of actions the application uses
  MaxTick,         \* bound: last tick announced
  MaxTurns,        \* bound: Turns built
  MaxCalls         \* bound: calls the application makes that take effect

Units == [kind : {"UNIT"}, id : Ids, controlled : BOOLEAN, type : UnitTypes, cell : Cells]
Cores == [kind : {"CORE"}, id : Ids, controlled : BOOLEAN, cell : Cells]
Terrain == [kind : {"RESOURCE", "OBSTACLE"}, cells : SUBSET Cells]

ASSUME PlanAssumption ==
  /\ {"core", "all", NoId} \cap Ids = {} /\ NoCell \notin Cells
  /\ \A s \in States : /\ s.objects \in Seq(Units \cup Cores \cup Terrain)
                       /\ s.resources \in Nat /\ s.population \in Nat
  /\ MaxTick \in Nat /\ MaxTurns \in Nat /\ MaxCalls \in Nat

VARIABLES
  states,         \* per Turn: its state
  unit_actions,   \* per Turn: the slots of its _PlanBuilder
  core_action,
  calls,          \* history, per Turn: the calls that changed its slots
  plan            \* history, per Turn: the last plan built, after how many calls

vars == <<lifeVars, states, unit_actions, core_action, calls, plan>>

-----------------------------------------------------------------------------
(* What _TurnBase makes of the objects of a state                          *)

Positions(s, kind) ==
  {k \in DOMAIN s.objects : s.objects[k].kind = kind /\ s.objects[k].controlled}

\* Turn.units: a controller for each object.
units(s) == {s.objects[k] : k \in Positions(s, "UNIT")}

HasCore(s) == Positions(s, "CORE") # {}

\* The own units and Core and the visible_enemies of every Turn so far: the controllers
\* and views that may be the target of a shot.
Entities(s) ==
  {s.objects[k] : k \in {k \in DOMAIN s.objects : s.objects[k].kind \in {"UNIT", "CORE"}}}
Targets == UNION {Entities(states[k]) : k \in DOMAIN states}

-----------------------------------------------------------------------------
(* The actions of each class of controller                                 *)

AnyUnit == {"WAIT", "MOVE", "PICKUP_BEACON", "DROP_BEACON", "SELF_DESTRUCT", "HEAL"}

ActionsOf(type) ==
  AnyUnit \cup CASE type = "WORKER" -> {"HARVEST", "DEPOSIT"}
                 [] type = "VANGUARD" -> {"SWEEP"}
                 [] type = "RANGER" -> {"SHOOT"}

CoreActions == {"WAIT", "SPAWN", "REPAIR_SHIELD", "HEAL", "START_MOVE", "CANCEL_MOVE",
                "PICKUP_BEACON", "DROP_BEACON", "SELF_DESTRUCT"}

Action(type) == [type |-> type, target |-> NoId, cell |-> NoCell]

\* shoot_cell(cell); shoot(uuid), which raises InvalidActionError without expected_cell;
\* shoot(target), with the cell of the target unless expected_cell is given.
BugShots ==
  {[type |-> "SHOOT", target |-> id, cell |-> c] : id \in Ids, c \in Cells \cup {NoCell}}
Shots ==
  {[type |-> "SHOOT", target |-> id, cell |-> c] : id \in Ids \cup {NoId}, c \in Cells}
  \cup {[type |-> "SHOOT", target |-> o.id, cell |-> o.cell] : o \in Targets}

UnitActions(type) ==
  {Action(a) : a \in (ActionsOf(type) \ {"SHOOT"}) \cap Used}
  \cup IF "SHOOT" \in ActionsOf(type) \cap Used THEN Shots ELSE {}

-----------------------------------------------------------------------------
Init ==
  /\ LifeInit
  /\ states = <<>> /\ unit_actions = <<>> /\ core_action = <<>> /\ calls = <<>>
  /\ plan = <<>>

Nothing == [id \in {} |-> NoAction]   \* an empty dict
NoPlan == [tick |-> 0, unit_actions |-> Nothing, core_action |-> NoAction, after |-> 0]

NewTurn(s) ==
  /\ Len(turns) < MaxTurns
  /\ Build
  /\ states' = Append(states, s)
  /\ unit_actions' = Append(unit_actions, Nothing)
  /\ core_action' = Append(core_action, NoAction)
  /\ calls' = Append(calls, <<>>)
  /\ plan' = Append(plan, NoPlan)

\* ensure_open, which every call below makes first.
Open(k) == k \in DOMAIN turns /\ turns[k].open

CallsMade == Cardinality(UNION {{<<k, i>> : i \in DOMAIN calls[k]} : k \in DOMAIN calls})
Made(k, call) == calls' = [calls EXCEPT ![k] = Append(@, call)]
Without(f, id) == [x \in DOMAIN f \ {id} |-> f[x]]
With(f, id, a) == [x \in DOMAIN f \cup {id} |-> IF x = id THEN a ELSE f[x]]

\* Unit._set
SetUnit(k, u, a) ==
  /\ Open(k) /\ CallsMade < MaxCalls
  /\ unit_actions' = [unit_actions EXCEPT ![k] = With(@, u.id, a)]
  /\ Made(k, [op |-> "set", about |-> u.id, action |-> a])
  /\ UNCHANGED <<lifeVars, states, core_action, plan>>

\* Unit.clear_action
ClearUnit(k, u) ==
  /\ Open(k) /\ CallsMade < MaxCalls
  /\ unit_actions' = [unit_actions EXCEPT ![k] = Without(@, u.id)]
  /\ Made(k, [op |-> "set", about |-> u.id, action |-> NoAction])
  /\ UNCHANGED <<lifeVars, states, core_action, plan>>

\* Core._set, and Core.clear_action with NoAction.
SetCore(k, a) ==
  /\ Open(k) /\ HasCore(states[k]) /\ CallsMade < MaxCalls
  /\ core_action' = [core_action EXCEPT ![k] = a]
  /\ Made(k, [op |-> "set", about |-> "core", action |-> a])
  /\ UNCHANGED <<lifeVars, states, unit_actions, plan>>

BugClear(k) ==
  /\ Open(k) /\ CallsMade < MaxCalls
  /\ unit_actions' = [unit_actions EXCEPT ![k] = Nothing]
  /\ Made(k, [op |-> "clear", about |-> "all", action |-> NoAction])
  /\ UNCHANGED <<lifeVars, states, core_action, plan>>

\* Turn.clear
Clear(k) ==
  /\ Open(k) /\ CallsMade < MaxCalls
  /\ unit_actions' = [unit_actions EXCEPT ![k] = Nothing]
  /\ core_action' = [core_action EXCEPT ![k] = NoAction]
  /\ Made(k, [op |-> "clear", about |-> "all", action |-> NoAction])
  /\ UNCHANGED <<lifeVars, states, plan>>

\* Turn.plan, which submit() reads: build() copies the slots or raises TurnClosedError.
\* The order in which it copies them, by id, is left out.
ReadPlan(k) ==
  /\ Open(k)
  /\ plan' = [plan EXCEPT ![k] = [tick |-> turns[k].tick, unit_actions |-> unit_actions[k],
                                 core_action |-> core_action[k], after |-> Len(calls[k])]]
  /\ UNCHANGED <<lifeVars, states, unit_actions, core_action, calls>>

-----------------------------------------------------------------------------
NewTick == tick' \in {t \in 1..MaxTick : t >= tick} /\ Announce

LifeStep == NewTick \/ CloseClient \/ End

Controllers(k) ==
  \/ \E u \in units(states[k]) :
       ClearUnit(k, u) \/ \E a \in UnitActions(u.type) : SetUnit(k, u, a)
  \/ SetCore(k, NoAction) \/ \E a \in CoreActions \cap Used : SetCore(k, Action(a))

Next ==
  \/ \E s \in States : NewTurn(s)
  \/ LifeStep /\ UNCHANGED <<states, unit_actions, core_action, calls, plan>>
  \/ \E k \in DOMAIN turns : Controllers(k) \/ Clear(k) \/ ReadPlan(k)

Spec == Init /\ [][Next]_vars

-----------------------------------------------------------------------------
(* Properties                                                              *)

\* What the first n calls of cs ask for about an object: what the last call about it asked
\* for, unless clear() came after.
Concerns(call, about) == call.op = "clear" \/ call.about = about
AskedFor(cs, n, about, a) ==
  \/ a = NoAction /\ \A i \in 1..n : ~Concerns(cs[i], about)
  \/ \E i \in 1..n : /\ Concerns(cs[i], about) /\ a = cs[i].action
                     /\ \A j \in (i + 1)..n : ~Concerns(cs[j], about)

Slot(slots, id) == IF id \in DOMAIN slots THEN slots[id] ELSE NoAction
Told(cs, n, slots, core) ==
  /\ \A id \in Ids : AskedFor(cs, n, id, Slot(slots, id))
  /\ AskedFor(cs, n, "core", core)

\* What a Turn has queued, and the last plan it built, is what the last calls on its
\* controllers asked for: no call is lost, none is kept over clear(), none reaches
\* another Turn, and a plan does not change with the calls made after it was built.
PlanIsLastCalls ==
  \A k \in DOMAIN turns :
    /\ Told(calls[k], Len(calls[k]), unit_actions[k], core_action[k])
    /\ Told(calls[k], plan[k].after, plan[k].unit_actions, plan[k].core_action)

\* The plans the game can execute: every order goes to an object that was the player's in
\* the state the Turn showed, of a class that can carry it out; a shot has its cell.
OnlyFor == [HARVEST |-> {"WORKER"}, DEPOSIT |-> {"WORKER"}, SWEEP |-> {"VANGUARD"},
            SHOOT |-> {"RANGER"}]
MayDo(id, a, s) ==
  \E k \in DOMAIN s.objects :
    LET o == s.objects[k]
    IN  /\ o.kind = "UNIT" /\ o.id = id /\ o.controlled
        /\ a.type \in DOMAIN OnlyFor => o.type \in OnlyFor[a.type]
        /\ a.type = "SHOOT" => a.cell \in Cells

PlanIsLegal ==
  \A k \in DOMAIN turns :
    /\ \A id \in DOMAIN plan[k].unit_actions : MayDo(id, plan[k].unit_actions[id], states[k])
    /\ plan[k].core_action # NoAction => HasCore(states[k])
    /\ plan[k].tick \in {0, turns[k].tick}

\* A plan is built, and calls take effect, on the Turn of the last announced tick only: a
\* plan kept from an older Turn cannot be extended and sent for a tick it was not made for.
OnlyCurrentTurn ==
  [][\A k \in DOMAIN turns :
       (plan'[k] # plan[k] \/ calls'[k] # calls[k]) => k = active /\ turns[k].tick = tick]_vars

\* Prices and space as the game's rules tell them: the price is the base price, raised by
\* 30% at the 21st unit and at every fifth after it, rounded once with halves up; the Core
\* holds five resources for each unit and never less than ten.
Raises(n) == Cardinality({m \in 21..n : (m - 21) % 5 = 0})
IsPrice(p, type, population) ==
  LET e == Raises(population + 1)
      n == UNIT_BASE_COSTS[type] * Powers(13)[e]
      d == Powers(10)[e]
  IN  d * (2 * p - 1) <= 2 * n /\ 2 * n < d * (2 * p + 1)

PricesExact ==
  \A k \in DOMAIN states :
    LET s == states[k]
    IN  /\ \A t \in UnitTypes : IsPrice(unit_cost(t, s.population), t, s.population)
        /\ \A r \in 0..resource_space(s.population, s.resources) :
             r = 0 \/ s.resources + r <= 10 \/ s.resources + r <= 5 * s.population
        /\ resource_space(s.population, s.resources) = 0 =>
             s.resources >= 10 /\ s.resources >= 5 * s.population
=============================================================================
