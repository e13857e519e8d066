------------------------- MODULE PlanBuilderProofs -------------------------
(* Proofs about PlanBuilder, for any number of Turns, controllers and calls. *)
EXTENDS PlanBuilder, NatRecursion, SequenceTheorems, FiniteSetTheorems, TLAPS

Names == AnyUnit \cup {"HARVEST", "DEPOSIT", "SWEEP", "SHOOT"} \cup CoreActions
Orders == [type : Names, target : Ids \cup {NoId}, cell : Cells \cup {NoCell}]
Slots == UNION {[D -> Orders] : D \in SUBSET Ids}
Calls == [op : {"set", "clear"}, about : Ids \cup {"core", "all"}, action : Orders \cup {NoAction}]
Plans == [tick : Nat, unit_actions : Slots, core_action : Orders \cup {NoAction}, after : Nat]

LifeType ==
  /\ turns \in Seq([tick : Nat, open : BOOLEAN])
  /\ active \in 0..Len(turns) /\ tick \in Nat

SlotType ==
  /\ states \in Seq(States) /\ Len(states) = Len(turns)
  /\ unit_actions \in Seq(Slots) /\ Len(unit_actions) = Len(turns)
  /\ core_action \in Seq(Orders \cup {NoAction}) /\ Len(core_action) = Len(turns)
  /\ calls \in Seq(Seq(Calls)) /\ Len(calls) = Len(turns)
  /\ plan \in Seq(Plans) /\ Len(plan) = Len(turns)

\* The open Turn is the active one, and of the last announced tick.
OneOpen ==
  \A k \in 1..Len(turns) : turns[k].open => k = active /\ turns[k].tick = tick

\* What holds of one Turn's slots and of its last plan: state s, slots u and c, calls cs,
\* plan p, tick t.
Legal(u, c, s) ==
  /\ \A id \in DOMAIN u : MayDo(id, u[id], s)
  /\ c # NoAction => HasCore(s)

TurnOK(s, u, c, cs, p, t) ==
  /\ Legal(u, c, s) /\ Legal(p.unit_actions, p.core_action, s)
  /\ Told(cs, Len(cs), u, c) /\ Told(cs, p.after, p.unit_actions, p.core_action)
  /\ p.after \in 0..Len(cs) /\ p.tick \in {0, t}

EachOK ==
  \A k \in 1..Len(turns) :
    TurnOK(states[k], unit_actions[k], core_action[k], calls[k], plan[k], turns[k].tick)

PlanInv == LifeType /\ SlotType /\ OneOpen /\ EachOK

-----------------------------------------------------------------------------
(* Calls                                                                   *)

LEMMA AskedAfter ==
  ASSUME NEW cs \in Seq(Calls), NEW call \in Calls, NEW about, NEW a, NEW b,
         AskedFor(cs, Len(cs), about, a),
         b = IF Concerns(call, about) THEN call.action ELSE a
  PROVE  AskedFor(Append(cs, call), Len(cs) + 1, about, b)
<1> DEFINE ds == Append(cs, call)
           n == Len(cs)
<1>1. n \in Nat /\ ds[n + 1] = call /\ \A i \in 1..n : ds[i] = cs[i]
  OBVIOUS
<1> HIDE DEF ds
<1> SUFFICES AskedFor(ds, n + 1, about, b)
  BY DEF ds
<1>2. CASE Concerns(call, about)
  <2>1. n + 1 \in 1..(n + 1) /\ \A j \in (n + 1 + 1)..(n + 1) : FALSE
    BY <1>1
  <2> QED BY <1>1, <1>2, <2>1 DEF AskedFor
<1>3. CASE ~Concerns(call, about)
  <2>1. CASE a = NoAction /\ \A i \in 1..n : ~Concerns(cs[i], about)
    <3>1. \A i \in 1..(n + 1) : ~Concerns(ds[i], about)
      BY <1>1, <1>3, <2>1
    <3> QED BY <1>3, <2>1, <3>1 DEF AskedFor
  <2>2. CASE \E i \in 1..n : /\ Concerns(cs[i], about) /\ a = cs[i].action
                             /\ \A j \in (i + 1)..n : ~Concerns(cs[j], about)
    <3>1. PICK i \in 1..n : /\ Concerns(cs[i], about) /\ a = cs[i].action
                            /\ \A j \in (i + 1)..n : ~Concerns(cs[j], about)
      BY <2>2
    <3>2. i \in 1..(n + 1) /\ ds[i] = cs[i]
      BY <1>1
    <3>3. \A j \in (i + 1)..(n + 1) : ~Concerns(ds[j], about)
      BY <1>1, <1>3, <3>1
    <3> QED BY <1>3, <3>1, <3>2, <3>3 DEF AskedFor
  <2> QED BY <2>1, <2>2 DEF AskedFor
<1> QED BY <1>2, <1>3

LEMMA AskedBefore ==
  ASSUME NEW cs \in Seq(Calls), NEW call \in Calls, NEW n \in 0..Len(cs), NEW about, NEW a,
         AskedFor(cs, n, about, a)
  PROVE  AskedFor(Append(cs, call), n, about, a)
<1>1. \A i \in 1..n : Append(cs, call)[i] = cs[i]
  OBVIOUS
<1> DEFINE ds == Append(cs, call)
<1>2. \A i \in 1..n : ds[i] = cs[i]
  BY <1>1
<1> HIDE DEF ds
<1>3. \A i \in 1..n : \A j \in (i + 1)..n : ds[j] = cs[j]
  BY <1>2
<1>4. AskedFor(ds, n, about, a)
  BY <1>2, <1>3 DEF AskedFor
<1> QED BY <1>4 DEF ds

\* A call: what it asks for goes into the slots it is about, and plans built before stay.
LEMMA CallOK ==
  ASSUME NEW s, NEW u, NEW c, NEW cs \in Seq(Calls), NEW p, NEW t, TurnOK(s, u, c, cs, p, t),
         NEW call \in Calls, NEW v, NEW d, Legal(v, d, s),
         \A id \in Ids : Slot(v, id) = IF Concerns(call, id) THEN call.action ELSE Slot(u, id),
         d = IF Concerns(call, "core") THEN call.action ELSE c
  PROVE  TurnOK(s, v, d, Append(cs, call), p, t)
<1>1. Len(Append(cs, call)) = Len(cs) + 1 /\ Len(cs) \in Nat
  OBVIOUS
<1>2. Told(Append(cs, call), Len(cs) + 1, v, d)
  BY AskedAfter DEF Told, TurnOK
<1>3. Told(Append(cs, call), p.after, p.unit_actions, p.core_action)
  BY AskedBefore DEF Told, TurnOK
<1>4. p.after \in 0..(Len(cs) + 1)
  BY <1>1 DEF TurnOK
<1> QED BY <1>1, <1>2, <1>3, <1>4 DEF TurnOK

-----------------------------------------------------------------------------
(* The controllers make legal orders                                       *)

LEMMA StateTyped ==
  ASSUME LifeType, SlotType, NEW k \in 1..Len(turns)
  PROVE  /\ k \in DOMAIN states /\ states[k] \in States /\ states[k].objects \in Seq(Units \cup Cores \cup Terrain)
         /\ unit_actions[k] \in Slots /\ core_action[k] \in Orders \cup {NoAction}
         /\ calls[k] \in Seq(Calls) /\ plan[k] \in Plans /\ turns[k].tick \in Nat
<1>1. states[k] \in States /\ k \in DOMAIN states
  BY ElementOfSeq DEF SlotType
<1>2. unit_actions[k] \in Slots /\ core_action[k] \in Orders \cup {NoAction}
  BY ElementOfSeq DEF SlotType
<1>3. calls[k] \in Seq(Calls) /\ plan[k] \in Plans
  BY ElementOfSeq DEF SlotType
<1>4. turns[k] \in [tick : Nat, open : BOOLEAN]
  BY ElementOfSeq DEF LifeType
<1> QED BY <1>1, <1>2, <1>3, <1>4, PlanAssumption

LEMMA TargetTyped ==
  ASSUME LifeType, SlotType, NEW o \in Targets
  PROVE  o.id \in Ids /\ o.cell \in Cells
<1>1. PICK k \in DOMAIN states : o \in Entities(states[k])
  BY DEF Targets
<1>2. k \in 1..Len(turns)
  BY <1>1 DEF SlotType, LifeType
<1>3. PICK i \in DOMAIN states[k].objects :
        o = states[k].objects[i] /\ states[k].objects[i].kind \in {"UNIT", "CORE"}
  BY <1>1 DEF Entities
<1>4. o \in Units \cup Cores \cup Terrain /\ o.kind \in {"UNIT", "CORE"}
  <2>1. states[k].objects \in Seq(Units \cup Cores \cup Terrain)
    BY <1>2, StateTyped
  <2>2. i \in 1..Len(states[k].objects)
    BY <1>3, <2>1
  <2> QED BY <1>3, <2>1, <2>2, ElementOfSeq
<1> QED BY <1>4 DEF Units, Cores, Terrain

LEMMA OrdersOfEach ==
  /\ ActionsOf("WORKER") = AnyUnit \cup {"HARVEST", "DEPOSIT"}
  /\ ActionsOf("VANGUARD") = AnyUnit \cup {"SWEEP"}
  /\ ActionsOf("RANGER") = AnyUnit \cup {"SHOOT"}
BY DEF ActionsOf

LEMMA OrderLegal ==
  ASSUME LifeType, SlotType, NEW k \in 1..Len(turns),
         NEW u \in units(states[k]), NEW a \in UnitActions(u.type)
  PROVE  u.id \in Ids /\ a \in Orders /\ MayDo(u.id, a, states[k])
<1>1. PICK i \in DOMAIN states[k].objects :
        u = states[k].objects[i] /\ u.kind = "UNIT" /\ u.controlled
  BY DEF units, Positions
<1>2. u \in Units
  <2>1. states[k].objects \in Seq(Units \cup Cores \cup Terrain)
    BY StateTyped
  <2>2. i \in 1..Len(states[k].objects)
    BY <1>1, <2>1
  <2>3. u \in Units \cup Cores \cup Terrain
    BY <1>1, <2>1, <2>2, ElementOfSeq
  <2> QED BY <1>1, <2>3 DEF Units, Cores, Terrain
<1>3. u.id \in Ids /\ u.type \in {"WORKER", "VANGUARD", "RANGER"}
  BY <1>2 DEF Units, UnitTypes
<1>4. \/ \E x \in ActionsOf(u.type) \ {"SHOOT"} : a = Action(x)
      \/ "SHOOT" \in ActionsOf(u.type) /\ a \in Shots
  BY DEF UnitActions
<1>5. CASE \E x \in ActionsOf(u.type) \ {"SHOOT"} : a = Action(x)
  <2>1. PICK x \in ActionsOf(u.type) \ {"SHOOT"} : a = Action(x)
    BY <1>5
  <2>2. x \in Names /\ x # "SHOOT"
    <3>1. x \in AnyUnit \cup {"HARVEST", "DEPOSIT", "SWEEP", "SHOOT"}
      BY <1>3, <2>1, OrdersOfEach
    <3> QED BY <2>1, <3>1 DEF Names
  <2>3. x \in DOMAIN OnlyFor => u.type \in OnlyFor[x]
    <3>1. DOMAIN OnlyFor = {"HARVEST", "DEPOSIT", "SWEEP", "SHOOT"}
      BY DEF OnlyFor
    <3>2. /\ OnlyFor["HARVEST"] = {"WORKER"} /\ OnlyFor["DEPOSIT"] = {"WORKER"}
          /\ OnlyFor["SWEEP"] = {"VANGUARD"}
      BY DEF OnlyFor
    <3>3. CASE u.type = "WORKER"
      BY <2>1, <3>1, <3>2, <3>3, OrdersOfEach DEF AnyUnit
    <3>4. CASE u.type = "VANGUARD"
      BY <2>1, <3>1, <3>2, <3>4, OrdersOfEach DEF AnyUnit
    <3>5. CASE u.type = "RANGER"
      BY <2>1, <3>1, <3>2, <3>5, OrdersOfEach DEF AnyUnit
    <3> QED BY <1>3, <3>3, <3>4, <3>5
  <2>4. a.type = x /\ a \in Orders
    BY <2>1, <2>2 DEF Action, Orders
  <2> QED BY <1>1, <1>3, <2>2, <2>3, <2>4 DEF MayDo
<1>6. CASE "SHOOT" \in ActionsOf(u.type) /\ a \in Shots
  <2>1. u.type = "RANGER"
    BY <1>3, <1>6, OrdersOfEach DEF AnyUnit
  <2>2. a.type = "SHOOT" /\ a.cell \in Cells /\ a \in Orders
    <3>1. CASE a \in {[type |-> "SHOOT", target |-> id, cell |-> c] : id \in Ids \cup {NoId}, c \in Cells}
      BY <3>1 DEF Orders, Names
    <3>2. CASE a \in {[type |-> "SHOOT", target |-> o.id, cell |-> o.cell] : o \in Targets}
      BY <3>2, TargetTyped DEF Orders, Names
    <3> QED BY <1>6, <3>1, <3>2 DEF Shots
  <2>3. u.type \in OnlyFor["SHOOT"]
    BY <2>1 DEF OnlyFor
  <2> QED BY <1>1, <1>3, <2>2, <2>3 DEF MayDo
<1> QED BY <1>4, <1>5, <1>6

-----------------------------------------------------------------------------
(* Turns come and are sealed                                               *)

LEMMA SealFacts ==
  ASSUME LifeType, OneOpen
  PROVE  /\ Seal(turns, active) \in Seq([tick : Nat, open : BOOLEAN])
         /\ Len(Seal(turns, active)) = Len(turns)
         /\ \A k \in 1..Len(turns) : /\ ~Seal(turns, active)[k].open
                                     /\ Seal(turns, active)[k].tick = turns[k].tick
<1>1. turns \in Seq([tick : Nat, open : BOOLEAN]) /\ active \in 0..Len(turns)
  BY DEF LifeType
<1>2. CASE active = 0
  BY <1>1, <1>2 DEF Seal, OneOpen
<1>3. CASE active # 0
  <2>1. active \in 1..Len(turns) /\ Seal(turns, active) = [turns EXCEPT ![active].open = FALSE]
    BY <1>1, <1>3 DEF Seal
  <2>2. turns[active] \in [tick : Nat, open : BOOLEAN]
    BY <1>1, <2>1, ElementOfSeq
  <2> DEFINE r == [turns[active] EXCEPT !.open = FALSE]
  <2>3. r \in [tick : Nat, open : BOOLEAN] /\ r.open = FALSE /\ r.tick = turns[active].tick
    BY <2>2
  <2>4. Seal(turns, active) = [turns EXCEPT ![active] = r]
    BY <1>1, <2>1, <2>2
  <2> HIDE DEF r
  <2>5. Seal(turns, active) \in Seq([tick : Nat, open : BOOLEAN]) /\ Len(Seal(turns, active)) = Len(turns)
    <3>1. /\ [turns EXCEPT ![active] = r] \in Seq([tick : Nat, open : BOOLEAN])
          /\ Len([turns EXCEPT ![active] = r]) = Len(turns)
      BY <1>1, <2>1, <2>3
    <3> QED BY <2>4, <3>1
  <2>6. ASSUME NEW k \in 1..Len(turns)
        PROVE  ~Seal(turns, active)[k].open /\ Seal(turns, active)[k].tick = turns[k].tick
    <3>1. CASE k = active
      BY <1>1, <2>1, <2>3, <2>4, <3>1
    <3>2. CASE k # active
      BY <1>1, <2>1, <2>4, <3>2 DEF OneOpen
    <3> QED BY <3>1, <3>2
  <2> QED BY <2>5, <2>6
<1> QED BY <1>2, <1>3

\* Ticks, close() and the end of the generator leave every Turn's slots alone.
LEMMA LifeStepKeeps ==
  ASSUME PlanInv, LifeStep, UNCHANGED <<states, unit_actions, core_action, calls, plan>>
  PROVE  PlanInv'
<1>1. /\ turns' = Seal(turns, active) /\ tick' \in Nat /\ active' \in {0, active}
  BY DEF LifeStep, NewTick, Announce, CloseClient, End, PlanInv, LifeType
<1>2. /\ turns' \in Seq([tick : Nat, open : BOOLEAN]) /\ Len(turns') = Len(turns)
      /\ \A k \in 1..Len(turns) : ~turns'[k].open /\ turns'[k].tick = turns[k].tick
  BY <1>1, SealFacts DEF PlanInv
<1>3. LifeType' /\ SlotType'
  BY <1>1, <1>2 DEF PlanInv, LifeType, SlotType
<1>4. OneOpen'
  BY <1>2 DEF OneOpen
<1>5. EachOK'
  BY <1>2 DEF PlanInv, EachOK
<1> QED BY <1>3, <1>4, <1>5 DEF PlanInv

LEMMA NothingAsked ==
  ASSUME NEW s, NEW t
  PROVE  TurnOK(s, Nothing, NoAction, <<>>, NoPlan, t)
<1>1. DOMAIN Nothing = {} /\ NoPlan.unit_actions = Nothing /\ NoPlan.core_action = NoAction
      /\ NoPlan.after = 0 /\ NoPlan.tick = 0
  BY DEF Nothing, NoPlan
<1>2. Len(<<>>) = 0 /\ \A i \in 1..0 : FALSE
  OBVIOUS
<1>3. \A about : AskedFor(<<>>, 0, about, NoAction)
  BY <1>2 DEF AskedFor
<1>4. Told(<<>>, 0, Nothing, NoAction)
  BY <1>1, <1>3 DEF Told, Slot
<1>5. Legal(Nothing, NoAction, s)
  BY <1>1 DEF Legal
<1> QED BY <1>1, <1>2, <1>4, <1>5 DEF TurnOK

LEMMA NewTurnKeeps ==
  ASSUME PlanInv, NEW s \in States, NewTurn(s)
  PROVE  PlanInv'
<1> DEFINE n == Len(turns)
           sealed == Seal(turns, active)
<1>1. /\ n \in Nat /\ sealed \in Seq([tick : Nat, open : BOOLEAN]) /\ Len(sealed) = n
      /\ \A k \in 1..n : ~sealed[k].open /\ sealed[k].tick = turns[k].tick
  BY SealFacts DEF PlanInv, LifeType
<1>2. /\ turns' = Append(sealed, [tick |-> tick, open |-> TRUE])
      /\ active' = n + 1 /\ tick' = tick /\ tick \in Nat
  BY DEF NewTurn, Build, PlanInv, LifeType
<1> HIDE DEF sealed
<1>3. /\ turns' \in Seq([tick : Nat, open : BOOLEAN]) /\ Len(turns') = n + 1
      /\ turns'[n + 1].tick = tick /\ \A k \in 1..n : turns'[k] = sealed[k]
  <2>1. [tick |-> tick, open |-> TRUE] \in [tick : Nat, open : BOOLEAN]
    BY <1>2
  <2> QED BY <1>1, <1>2, <2>1
<1>4. \A k \in 1..(n + 1) : k = n + 1 \/ k \in 1..n
  BY <1>1
<1>5. LifeType' /\ OneOpen'
  BY <1>1, <1>2, <1>3, <1>4 DEF LifeType, OneOpen
<1>6. Nothing \in Slots /\ NoPlan \in Plans /\ <<>> \in Seq(Calls)
  <2>1. Nothing \in [{} -> Orders] /\ {} \in SUBSET Ids
    BY DEF Nothing
  <2>2. Nothing \in Slots
    BY <2>1 DEF Slots
  <2> QED BY <2>2 DEF NoPlan, Plans
<1>7. /\ Len(states) = n /\ Len(unit_actions) = n /\ Len(core_action) = n /\ Len(calls) = n
      /\ Len(plan) = n
  BY DEF PlanInv, SlotType
<1>8. /\ states' \in Seq(States) /\ Len(states') = n + 1
      /\ \A k \in 1..n : states'[k] = states[k]
  BY <1>7 DEF PlanInv, SlotType, NewTurn
<1>9. /\ unit_actions' \in Seq(Slots) /\ Len(unit_actions') = n + 1
      /\ unit_actions'[n + 1] = Nothing /\ \A k \in 1..n : unit_actions'[k] = unit_actions[k]
  BY <1>6, <1>7 DEF PlanInv, SlotType, NewTurn
<1>10. /\ core_action' \in Seq(Orders \cup {NoAction}) /\ Len(core_action') = n + 1
       /\ core_action'[n + 1] = NoAction /\ \A k \in 1..n : core_action'[k] = core_action[k]
  BY <1>7 DEF PlanInv, SlotType, NewTurn
<1>11. /\ calls' \in Seq(Seq(Calls)) /\ Len(calls') = n + 1
       /\ calls'[n + 1] = <<>> /\ \A k \in 1..n : calls'[k] = calls[k]
  BY <1>6, <1>7 DEF PlanInv, SlotType, NewTurn
<1>12. /\ plan' \in Seq(Plans) /\ Len(plan') = n + 1
       /\ plan'[n + 1] = NoPlan /\ \A k \in 1..n : plan'[k] = plan[k]
  BY <1>6, <1>7 DEF PlanInv, SlotType, NewTurn
<1>13. SlotType'
  BY <1>3, <1>8, <1>9, <1>10, <1>11, <1>12 DEF SlotType
<1>14. EachOK'
  <2> SUFFICES ASSUME NEW k \in 1..Len(turns')
               PROVE  TurnOK(states'[k], unit_actions'[k], core_action'[k], calls'[k], plan'[k], turns'[k].tick)
    BY DEF EachOK
  <2>1. CASE k \in 1..n
    <3>1. TurnOK(states[k], unit_actions[k], core_action[k], calls[k], plan[k], turns[k].tick)
      BY <2>1 DEF PlanInv, EachOK
    <3> QED BY <1>1, <1>3, <1>8, <1>9, <1>10, <1>11, <1>12, <2>1, <3>1
  <2>2. CASE k = n + 1
    BY <1>9, <1>10, <1>11, <1>12, <2>2, NothingAsked
  <2> QED BY <1>3, <1>4, <2>1, <2>2
<1> QED BY <1>5, <1>13, <1>14 DEF PlanInv

-----------------------------------------------------------------------------
(* Calls of the application                                                *)

LEMMA Others ==
  ASSUME PlanInv, NEW k \in 1..Len(turns),
         UNCHANGED <<lifeVars, states>>, SlotType',
         \A j \in 1..Len(turns) : j # k =>
            /\ unit_actions'[j] = unit_actions[j] /\ core_action'[j] = core_action[j]
            /\ calls'[j] = calls[j] /\ plan'[j] = plan[j],
         TurnOK(states[k], unit_actions'[k], core_action'[k], calls'[k], plan'[k], turns[k].tick)
  PROVE  PlanInv'
<1>1. LifeType' /\ OneOpen'
  BY DEF PlanInv, LifeType, OneOpen, lifeVars
<1>2. EachOK'
  BY DEF PlanInv, EachOK, lifeVars
<1> QED BY <1>1, <1>2 DEF PlanInv

\* The effect of a call on Turn k: it is noted, and changes the slots of that Turn only.
LEMMA CallKeeps ==
  ASSUME PlanInv, NEW k \in 1..Len(turns), NEW call \in Calls, Made(k, call),
         NEW v \in Slots, NEW d \in Orders \cup {NoAction},
         unit_actions' = [unit_actions EXCEPT ![k] = v],
         core_action' = [core_action EXCEPT ![k] = d],
         UNCHANGED <<lifeVars, states, plan>>,
         Legal(v, d, states[k]),
         \A id \in Ids : Slot(v, id) = IF Concerns(call, id) THEN call.action
                                       ELSE Slot(unit_actions[k], id),
         d = IF Concerns(call, "core") THEN call.action ELSE core_action[k]
  PROVE  PlanInv'
<1>1. TurnOK(states[k], unit_actions[k], core_action[k], calls[k], plan[k], turns[k].tick)
      /\ calls[k] \in Seq(Calls)
  BY StateTyped DEF PlanInv, EachOK
<1>2. TurnOK(states[k], v, d, Append(calls[k], call), plan[k], turns[k].tick)
  BY <1>1, CallOK
<1>3. Append(calls[k], call) \in Seq(Calls)
  BY <1>1
<1>4. /\ Len(unit_actions) = Len(turns) /\ Len(core_action) = Len(turns) /\ Len(calls) = Len(turns)
      /\ unit_actions \in Seq(Slots) /\ core_action \in Seq(Orders \cup {NoAction})
      /\ calls \in Seq(Seq(Calls))
  BY DEF PlanInv, SlotType
<1>5. /\ unit_actions' \in Seq(Slots) /\ Len(unit_actions') = Len(turns) /\ unit_actions'[k] = v
      /\ \A j \in 1..Len(turns) : j # k => unit_actions'[j] = unit_actions[j]
  BY <1>4
<1>6. /\ core_action' \in Seq(Orders \cup {NoAction}) /\ Len(core_action') = Len(turns) /\ core_action'[k] = d
      /\ \A j \in 1..Len(turns) : j # k => core_action'[j] = core_action[j]
  BY <1>4
<1>7. calls' = [calls EXCEPT ![k] = Append(calls[k], call)]
  BY DEF Made
<1>8. /\ calls' \in Seq(Seq(Calls)) /\ Len(calls') = Len(turns) /\ calls'[k] = Append(calls[k], call)
      /\ \A j \in 1..Len(turns) : j # k => calls'[j] = calls[j]
  BY <1>3, <1>4, <1>7
<1>9. SlotType'
  BY <1>5, <1>6, <1>8 DEF PlanInv, SlotType, lifeVars
<1> QED BY <1>2, <1>5, <1>6, <1>8, <1>9, Others

\* How With and Without change the slots of a Turn.
LEMMA WithFacts ==
  ASSUME NEW u \in Slots, NEW id \in Ids, NEW a \in Orders
  PROVE  /\ With(u, id, a) \in Slots /\ Without(u, id) \in Slots
         /\ \A x \in Ids : /\ Slot(With(u, id, a), x) = IF x = id THEN a ELSE Slot(u, x)
                           /\ Slot(Without(u, id), x) = IF x = id THEN NoAction ELSE Slot(u, x)
         /\ \A x \in DOMAIN With(u, id, a) : \/ x = id /\ With(u, id, a)[x] = a
                                             \/ x \in DOMAIN u /\ With(u, id, a)[x] = u[x]
         /\ \A x \in DOMAIN Without(u, id) : x \in DOMAIN u /\ Without(u, id)[x] = u[x]
<1>1. PICK D \in SUBSET Ids : u \in [D -> Orders]
  BY DEF Slots
<1>2. With(u, id, a) \in [D \cup {id} -> Orders] /\ Without(u, id) \in [D \ {id} -> Orders]
  BY <1>1 DEF With, Without
<1>3. With(u, id, a) \in Slots /\ Without(u, id) \in Slots
  <2>1. D \cup {id} \in SUBSET Ids /\ D \ {id} \in SUBSET Ids
    OBVIOUS
  <2> QED BY <1>2, <2>1 DEF Slots
<1>4. /\ DOMAIN With(u, id, a) = D \cup {id} /\ DOMAIN Without(u, id) = D \ {id} /\ DOMAIN u = D
      /\ \A x \in D \cup {id} : With(u, id, a)[x] = IF x = id THEN a ELSE u[x]
      /\ \A x \in D \ {id} : Without(u, id)[x] = u[x]
  BY <1>1 DEF With, Without
<1>5. \A x \in Ids : /\ Slot(With(u, id, a), x) = IF x = id THEN a ELSE Slot(u, x)
                     /\ Slot(Without(u, id), x) = IF x = id THEN NoAction ELSE Slot(u, x)
  BY <1>4 DEF Slot
<1> QED BY <1>3, <1>4, <1>5

LEMMA SlotsOf ==
  ASSUME PlanInv, NEW k \in 1..Len(turns)
  PROVE  /\ unit_actions[k] \in Slots /\ core_action[k] \in Orders \cup {NoAction}
         /\ Legal(unit_actions[k], core_action[k], states[k])
         /\ unit_actions' = unit_actions => unit_actions' = [unit_actions EXCEPT ![k] = unit_actions[k]]
         /\ core_action' = core_action => core_action' = [core_action EXCEPT ![k] = core_action[k]]
<1>1. /\ unit_actions \in Seq(Slots) /\ Len(unit_actions) = Len(turns)
      /\ core_action \in Seq(Orders \cup {NoAction}) /\ Len(core_action) = Len(turns)
  BY DEF PlanInv, SlotType
<1>2. TurnOK(states[k], unit_actions[k], core_action[k], calls[k], plan[k], turns[k].tick)
  BY DEF PlanInv, EachOK
<1>3. unit_actions[k] \in Slots /\ core_action[k] \in Orders \cup {NoAction}
  BY <1>1, ElementOfSeq
<1>4. /\ unit_actions = [unit_actions EXCEPT ![k] = unit_actions[k]]
      /\ core_action = [core_action EXCEPT ![k] = core_action[k]]
  BY <1>1
<1> QED BY <1>2, <1>3, <1>4 DEF TurnOK

LEMMA IdFacts == "core" \notin Ids /\ "all" \notin Ids
BY PlanAssumption

LEMMA SetUnitKeeps ==
  ASSUME PlanInv, NEW k \in 1..Len(turns), NEW u \in units(states[k]),
         NEW a \in UnitActions(u.type), SetUnit(k, u, a)
  PROVE  PlanInv'
<1> DEFINE call == [op |-> "set", about |-> u.id, action |-> a]
           v == With(unit_actions[k], u.id, a)
<1>1. u.id \in Ids /\ a \in Orders /\ MayDo(u.id, a, states[k])
  BY OrderLegal DEF PlanInv
<1>2. call \in Calls /\ call.op = "set" /\ call.about = u.id /\ call.action = a
  BY <1>1 DEF Calls
<1>3. \A x : Concerns(call, x) <=> x = u.id
  BY <1>2 DEF Concerns
<1>4. /\ unit_actions' = [unit_actions EXCEPT ![k] = v] /\ Made(k, call)
      /\ UNCHANGED <<lifeVars, states, plan>> /\ core_action' = core_action
  BY DEF SetUnit
<1>5. /\ v \in Slots
      /\ \A x \in Ids : Slot(v, x) = IF x = u.id THEN a ELSE Slot(unit_actions[k], x)
      /\ \A x \in DOMAIN v : \/ x = u.id /\ v[x] = a
                             \/ x \in DOMAIN unit_actions[k] /\ v[x] = unit_actions[k][x]
  BY <1>1, SlotsOf, WithFacts
<1> HIDE DEF v, call
<1>6. Legal(v, core_action[k], states[k])
  BY <1>1, <1>5, SlotsOf DEF Legal
<1>7. core_action' = [core_action EXCEPT ![k] = core_action[k]] /\ core_action[k] \in Orders \cup {NoAction}
  BY <1>4, SlotsOf
<1>8. \A id \in Ids : Slot(v, id) = IF Concerns(call, id) THEN call.action ELSE Slot(unit_actions[k], id)
  BY <1>2, <1>3, <1>5
<1>9. core_action[k] = IF Concerns(call, "core") THEN call.action ELSE core_action[k]
  BY <1>1, <1>3, IdFacts
<1> QED BY <1>2, <1>4, <1>5, <1>6, <1>7, <1>8, <1>9, CallKeeps

LEMMA ClearUnitKeeps ==
  ASSUME PlanInv, NEW k \in 1..Len(turns), NEW u \in units(states[k]), u.id \in Ids,
         ClearUnit(k, u)
  PROVE  PlanInv'
<1> DEFINE call == [op |-> "set", about |-> u.id, action |-> NoAction]
           v == Without(unit_actions[k], u.id)
<1>1. call \in Calls /\ call.op = "set" /\ call.about = u.id /\ call.action = NoAction
  BY DEF Calls
<1>2. \A x : Concerns(call, x) <=> x = u.id
  BY <1>1 DEF Concerns
<1>3. /\ unit_actions' = [unit_actions EXCEPT ![k] = v] /\ Made(k, call)
      /\ UNCHANGED <<lifeVars, states, plan>> /\ core_action' = core_action
  BY DEF ClearUnit
<1>4. PICK order \in Orders : TRUE
  <2>1. [type |-> "WAIT", target |-> NoId, cell |-> NoCell] \in Orders
    BY DEF Orders, Names, AnyUnit
  <2> QED BY <2>1
<1>5. /\ v \in Slots
      /\ \A x \in Ids : Slot(v, x) = IF x = u.id THEN NoAction ELSE Slot(unit_actions[k], x)
      /\ \A x \in DOMAIN v : x \in DOMAIN unit_actions[k] /\ v[x] = unit_actions[k][x]
  BY <1>4, SlotsOf, WithFacts
<1> HIDE DEF v, call
<1>6. Legal(v, core_action[k], states[k])
  BY <1>5, SlotsOf DEF Legal
<1>7. core_action' = [core_action EXCEPT ![k] = core_action[k]] /\ core_action[k] \in Orders \cup {NoAction}
  BY <1>3, SlotsOf
<1>8. \A id \in Ids : Slot(v, id) = IF Concerns(call, id) THEN call.action ELSE Slot(unit_actions[k], id)
  BY <1>1, <1>2, <1>5
<1>9. core_action[k] = IF Concerns(call, "core") THEN call.action ELSE core_action[k]
  BY <1>2, IdFacts
<1> QED BY <1>1, <1>3, <1>5, <1>6, <1>7, <1>8, <1>9, CallKeeps

LEMMA SetCoreKeeps ==
  ASSUME PlanInv, NEW k \in 1..Len(turns), NEW a \in Orders \cup {NoAction}, SetCore(k, a)
  PROVE  PlanInv'
<1> DEFINE call == [op |-> "set", about |-> "core", action |-> a]
<1>1. call \in Calls /\ call.op = "set" /\ call.about = "core" /\ call.action = a
  BY DEF Calls
<1>2. \A x : Concerns(call, x) <=> x = "core"
  BY <1>1 DEF Concerns
<1>3. /\ core_action' = [core_action EXCEPT ![k] = a] /\ Made(k, call)
      /\ UNCHANGED <<lifeVars, states, plan>> /\ unit_actions' = unit_actions
      /\ HasCore(states[k])
  BY DEF SetCore
<1> HIDE DEF call
<1>4. Legal(unit_actions[k], a, states[k])
  BY <1>3, SlotsOf DEF Legal
<1>5. unit_actions' = [unit_actions EXCEPT ![k] = unit_actions[k]] /\ unit_actions[k] \in Slots
  BY <1>3, SlotsOf
<1>6. \A id \in Ids : Slot(unit_actions[k], id)
                      = IF Concerns(call, id) THEN call.action ELSE Slot(unit_actions[k], id)
  BY <1>2, IdFacts
<1>7. a = IF Concerns(call, "core") THEN call.action ELSE core_action[k]
  BY <1>1, <1>2
<1> QED BY <1>1, <1>3, <1>4, <1>5, <1>6, <1>7, CallKeeps

LEMMA ClearKeeps ==
  ASSUME PlanInv, NEW k \in 1..Len(turns), Clear(k)
  PROVE  PlanInv'
<1> DEFINE call == [op |-> "clear", about |-> "all", action |-> NoAction]
<1>1. call \in Calls /\ call.op = "clear" /\ call.action = NoAction
  BY DEF Calls
<1>2. \A x : Concerns(call, x)
  BY <1>1 DEF Concerns
<1>3. /\ unit_actions' = [unit_actions EXCEPT ![k] = Nothing]
      /\ core_action' = [core_action EXCEPT ![k] = NoAction] /\ Made(k, call)
      /\ UNCHANGED <<lifeVars, states, plan>>
  BY DEF Clear
<1> HIDE DEF call
<1>4. Nothing \in Slots /\ DOMAIN Nothing = {}
  <2>1. Nothing \in [{} -> Orders] /\ {} \in SUBSET Ids
    BY DEF Nothing
  <2> QED BY <2>1 DEF Slots
<1>5. Legal(Nothing, NoAction, states[k]) /\ \A x \in Ids : Slot(Nothing, x) = NoAction
  BY <1>4 DEF Legal, Slot
<1> QED BY <1>1, <1>2, <1>3, <1>4, <1>5, CallKeeps

LEMMA ReadPlanKeeps ==
  ASSUME PlanInv, NEW k \in 1..Len(turns), ReadPlan(k)
  PROVE  PlanInv'
<1> DEFINE p == [tick |-> turns[k].tick, unit_actions |-> unit_actions[k],
                 core_action |-> core_action[k], after |-> Len(calls[k])]
<1>1. /\ unit_actions[k] \in Slots /\ core_action[k] \in Orders \cup {NoAction}
      /\ calls[k] \in Seq(Calls) /\ turns[k].tick \in Nat
  BY StateTyped DEF PlanInv
<1>2. /\ p \in Plans /\ p.tick = turns[k].tick /\ p.unit_actions = unit_actions[k]
      /\ p.core_action = core_action[k] /\ p.after = Len(calls[k]) /\ Len(calls[k]) \in Nat
  BY <1>1 DEF Plans
<1>3. plan' = [plan EXCEPT ![k] = p]
      /\ UNCHANGED <<lifeVars, states, unit_actions, core_action, calls>>
  BY DEF ReadPlan
<1> HIDE DEF p
<1>4. plan \in Seq(Plans) /\ Len(plan) = Len(turns)
  BY DEF PlanInv, SlotType
<1>5. /\ plan' \in Seq(Plans) /\ Len(plan') = Len(turns) /\ plan'[k] = p
      /\ \A j \in 1..Len(turns) : j # k => plan'[j] = plan[j]
  BY <1>2, <1>3, <1>4
<1>6. SlotType'
  BY <1>3, <1>5 DEF PlanInv, SlotType, lifeVars
<1>7. TurnOK(states[k], unit_actions[k], core_action[k], calls[k], plan[k], turns[k].tick)
  BY DEF PlanInv, EachOK
<1>8. TurnOK(states[k], unit_actions[k], core_action[k], calls[k], p, turns[k].tick)
  BY <1>2, <1>7 DEF TurnOK
<1> QED BY <1>3, <1>5, <1>6, <1>8, Others

-----------------------------------------------------------------------------
\* The invariant: the type of the state, one open Turn, and for each Turn legal slots and
\* plan that say what its calls asked for.
THEOREM PlanInductive == Spec => []PlanInv
<1>1. Init => PlanInv
  <2> SUFFICES ASSUME Init PROVE PlanInv
    OBVIOUS
  <2>1. /\ turns = <<>> /\ active = 0 /\ tick = 0 /\ states = <<>> /\ unit_actions = <<>>
        /\ core_action = <<>> /\ calls = <<>> /\ plan = <<>>
    BY DEF Init, LifeInit
  <2>2. LifeType /\ SlotType
    BY <2>1 DEF LifeType, SlotType
  <2>3. 1..Len(turns) = {}
    BY <2>1
  <2> QED BY <2>2, <2>3 DEF PlanInv, OneOpen, EachOK
<1>2. ASSUME PlanInv, [Next]_vars PROVE PlanInv'
  <2>1. CASE UNCHANGED vars
    BY <1>2, <2>1 DEF vars, lifeVars, PlanInv, LifeType, SlotType, OneOpen, EachOK
  <2>2. ASSUME NEW s \in States, NewTurn(s) PROVE PlanInv'
    BY <1>2, <2>2, NewTurnKeeps
  <2>3. CASE LifeStep /\ UNCHANGED <<states, unit_actions, core_action, calls, plan>>
    BY <1>2, <2>3, LifeStepKeeps
  <2>4. ASSUME NEW k \in DOMAIN turns, Controllers(k) \/ Clear(k) \/ ReadPlan(k)
        PROVE  PlanInv'
    <3>1. k \in 1..Len(turns)
      BY <1>2 DEF PlanInv, LifeType
    <3>2. CASE Clear(k) \/ ReadPlan(k)
      BY <1>2, <3>1, <3>2, ClearKeeps, ReadPlanKeeps
    <3>3. ASSUME NEW u \in units(states[k]), ClearUnit(k, u) PROVE PlanInv'
      <4>1. u.id \in Ids
        <5>1. PICK i \in DOMAIN states[k].objects : u = states[k].objects[i] /\ u.kind = "UNIT"
          BY <3>3 DEF units, Positions
        <5>2. states[k].objects \in Seq(Units \cup Cores \cup Terrain)
          BY <1>2, <3>1, StateTyped DEF PlanInv
        <5>3. u \in Units \cup Cores \cup Terrain
          <6>1. i \in 1..Len(states[k].objects)
            BY <5>1, <5>2
          <6> QED BY <5>1, <5>2, <6>1, ElementOfSeq
        <5> QED BY <5>1, <5>3 DEF Units, Cores, Terrain
      <4> QED BY <1>2, <3>1, <3>3, <4>1, ClearUnitKeeps
    <3>4. ASSUME NEW u \in units(states[k]), NEW a \in UnitActions(u.type), SetUnit(k, u, a)
          PROVE  PlanInv'
      BY <1>2, <3>1, <3>4, SetUnitKeeps
    <3>5. CASE SetCore(k, NoAction)
      BY <1>2, <3>1, <3>5, SetCoreKeeps
    <3>6. ASSUME NEW a \in CoreActions, SetCore(k, Action(a)) PROVE PlanInv'
      <4>1. Action(a) \in Orders
        BY DEF Action, Orders, Names
      <4> QED BY <1>2, <3>1, <3>6, <4>1, SetCoreKeeps
    <3> QED BY <2>4, <3>2, <3>3, <3>4, <3>5, <3>6 DEF Controllers
  <2> QED BY <1>2, <2>1, <2>2, <2>3, <2>4 DEF Next
<1> QED BY <1>1, <1>2, PTL DEF Spec

\* A plan is always what the last calls on the controllers of its Turn asked for.
THEOREM PlansAreLastCalls == Spec => []PlanIsLastCalls
<1>1. PlanInv => PlanIsLastCalls
  <2> SUFFICES ASSUME PlanInv PROVE PlanIsLastCalls
    OBVIOUS
  <2>1. DOMAIN turns = 1..Len(turns)
    BY DEF PlanInv, LifeType
  <2> QED BY <2>1 DEF PlanInv, EachOK, TurnOK, PlanIsLastCalls
<1> QED BY <1>1, PlanInductive, PTL

\* No plan orders anything the game would refuse for its form, whatever the states show.
THEOREM PlansAreLegal == Spec => []PlanIsLegal
<1>1. PlanInv => PlanIsLegal
  <2> SUFFICES ASSUME PlanInv PROVE PlanIsLegal
    OBVIOUS
  <2>1. DOMAIN turns = 1..Len(turns)
    BY DEF PlanInv, LifeType
  <2> QED BY <2>1 DEF PlanInv, EachOK, TurnOK, Legal, PlanIsLegal
<1> QED BY <1>1, PlanInductive, PTL

\* Calls and plans take effect on the Turn of the last announced tick only.
THEOREM OnlyCurrentTurnCalled == Spec => OnlyCurrentTurn
<1> DEFINE Current ==
      \A k \in DOMAIN turns :
        (plan'[k] # plan[k] \/ calls'[k] # calls[k]) => k = active /\ turns[k].tick = tick
<1>1. PlanInv /\ [Next]_vars => [Current]_vars
  <2> SUFFICES ASSUME PlanInv, [Next]_vars, NEW k \in DOMAIN turns,
                      plan'[k] # plan[k] \/ calls'[k] # calls[k]
               PROVE  k = active /\ turns[k].tick = tick
    OBVIOUS
  <2>1. /\ turns \in Seq([tick : Nat, open : BOOLEAN]) /\ k \in 1..Len(turns)
        /\ plan \in Seq(Plans) /\ Len(plan) = Len(turns)
        /\ calls \in Seq(Seq(Calls)) /\ Len(calls) = Len(turns)
    BY DEF PlanInv, LifeType, SlotType
  <2>2. ASSUME turns[k].open PROVE k = active /\ turns[k].tick = tick
    BY <2>1, <2>2 DEF PlanInv, OneOpen
  <2>3. CASE UNCHANGED <<calls, plan>>
    BY <2>3
  <2>4. ASSUME NEW s \in States, NewTurn(s) PROVE FALSE
    BY <2>1, <2>4 DEF NewTurn
  <2>5. ASSUME NEW j \in DOMAIN turns, Controllers(j) \/ Clear(j) \/ ReadPlan(j)
        PROVE  turns[k].open
    <3>1. turns[j].open
      BY <2>5 DEF Controllers, SetUnit, ClearUnit, SetCore, Clear, ReadPlan, Open
    <3>2. /\ calls' = calls \/ \E call : calls' = [calls EXCEPT ![j] = Append(calls[j], call)]
          /\ plan' = plan \/ \E p : plan' = [plan EXCEPT ![j] = p]
      <4>1. ASSUME NEW u \in units(states[j]), ClearUnit(j, u)
            PROVE  plan' = plan /\ \E call : calls' = [calls EXCEPT ![j] = Append(calls[j], call)]
        BY <4>1 DEF ClearUnit, Made
      <4>2. ASSUME NEW u, NEW a, SetUnit(j, u, a)
            PROVE  plan' = plan /\ \E call : calls' = [calls EXCEPT ![j] = Append(calls[j], call)]
        BY <4>2 DEF SetUnit, Made
      <4>3. ASSUME NEW a, SetCore(j, a)
            PROVE  plan' = plan /\ \E call : calls' = [calls EXCEPT ![j] = Append(calls[j], call)]
        BY <4>3 DEF SetCore, Made
      <4>4. ASSUME Clear(j)
            PROVE  plan' = plan /\ \E call : calls' = [calls EXCEPT ![j] = Append(calls[j], call)]
        BY <4>4 DEF Clear, Made
      <4>5. ASSUME ReadPlan(j) PROVE calls' = calls /\ \E p : plan' = [plan EXCEPT ![j] = p]
        BY <4>5 DEF ReadPlan
      <4> QED BY <2>5, <4>1, <4>2, <4>3, <4>4, <4>5 DEF Controllers
    <3>3. j # k => plan'[k] = plan[k] /\ calls'[k] = calls[k]
      BY <2>1, <3>2
    <3> QED BY <3>1, <3>3
  <2> QED BY <2>2, <2>3, <2>4, <2>5 DEF Next, vars
<1> QED BY <1>1, PlanInductive, PTL DEF Spec, OnlyCurrentTurn

-----------------------------------------------------------------------------
(* Prices and space                                                         *)

\* The powers of a positive number are positive.
LEMMA PowerFacts ==
  ASSUME NEW b \in Nat \ {0}, NEW e \in Nat
  PROVE  Powers(b)[e] \in Nat \ {0}
<1> DEFINE F == [x \in Nat |-> b * x]
           D(p) == [n \in Nat |-> IF n = 0 THEN 1 ELSE b * p[n - 1]]
           P == Powers(b)
<1>1. F \in [Nat -> Nat] /\ 1 \in Nat
  OBVIOUS
<1>2. PICK g \in [Nat -> Nat] : Iterates(g, 1, F)
  <2> HIDE DEF F
  <2> QED BY <1>1, IterateExists, Zenon
<1>3. ASSUME NEW n \in Nat PROVE g[n] = D(g)[n]
  <2>1. CASE n = 0
    BY <1>2, <2>1 DEF Iterates
  <2>2. CASE n # 0
    <3>1. n - 1 \in Nat /\ (n - 1) + 1 = n
      BY <2>2
    <3>2. g[n] = F[g[n - 1]] /\ g[n - 1] \in Nat
      BY <1>2, <3>1 DEF Iterates
    <3> QED BY <2>2, <3>2
  <2> QED BY <2>1, <2>2
<1>4. g = D(g)
  BY <1>2, <1>3
<1>5. P = D(P)
  BY <1>4 DEF Powers
<1> HIDE DEF P
<1>6. P[0] = 1 /\ \A n \in Nat : P[n + 1] = b * P[n]
  <2> HIDE DEF D
  <2>1. D(P)[0] = 1
    BY DEF D
  <2>2. ASSUME NEW n \in Nat PROVE D(P)[n + 1] = b * P[n]
    <3>1. n + 1 \in Nat /\ n + 1 # 0 /\ (n + 1) - 1 = n
      OBVIOUS
    <3> QED BY <3>1 DEF D
  <2> QED BY <1>5, <2>1, <2>2
<1> DEFINE S == {n \in Nat : P[n] \in Nat \ {0}}
<1>7. ASSUME NEW n \in Nat, n \in S PROVE n + 1 \in S
  <2>1. P[n] \in Nat \ {0} /\ P[n + 1] = b * P[n]
    BY <1>6, <1>7
  <2>2. \A x \in Nat \ {0} : b * x \in Nat \ {0}
    OBVIOUS
  <2> QED BY <2>1, <2>2
<1>8. 0 \in S
  BY <1>6
<1>9. Nat \subseteq S
  <2> HIDE DEF S
  <2> QED BY <1>7, <1>8, SetInduction
<1> QED BY <1>9 DEF P

\* The exponent counts the rises the rules tell of.
LEMMA ExponentFacts ==
  ASSUME NEW population \in Nat
  PROVE  Exponent(population) \in Nat /\ Raises(population + 1) = Exponent(population)
<1> DEFINE e == Exponent(population)
           S == {m \in 21..(population + 1) : (m - 21) % 5 = 0}
           f == [k \in 1..e |-> 21 + 5 * (k - 1)]
<1>2. e \in Nat
  BY DEF Exponent
<1>3. \A k \in 1..e : 5 * (k - 1) <= population - 20
  BY DEF Exponent
<1>4. \A m \in S : (m - 21) \div 5 + 1 \in 1..e /\ 21 + 5 * ((m - 21) \div 5) = m
  BY DEF Exponent
<1> HIDE DEF e
<1>5. f \in [1..e -> S]
  <2> SUFFICES ASSUME NEW k \in 1..e PROVE 21 + 5 * (k - 1) \in S
    OBVIOUS
  <2>1. k \in Nat /\ k - 1 \in Nat /\ e \in Nat
    BY <1>2
  <2>2. 21 + 5 * (k - 1) \in 21..(population + 1)
    BY <1>3, <2>1
  <2>3. (21 + 5 * (k - 1) - 21) % 5 = 0
    BY <2>1
  <2> QED BY <2>2, <2>3
<1>6. f \in Bijection(1..e, S)
  <2>1. \A j, k \in 1..e : f[j] = f[k] => j = k
    BY <1>2
  <2>2. \A m \in S : \E k \in 1..e : f[k] = m
    <3> SUFFICES ASSUME NEW m \in S PROVE \E k \in 1..e : f[k] = m
      OBVIOUS
    <3>1. (m - 21) \div 5 + 1 \in 1..e /\ 21 + 5 * ((m - 21) \div 5) = m
      BY <1>4
    <3>2. f[(m - 21) \div 5 + 1] = m
      BY <1>2, <3>1
    <3> QED BY <3>1, <3>2
  <2> HIDE DEF f, S
  <2> QED BY <1>5, <2>1, <2>2 DEF Bijection, Injection, Surjection, IsInjective
<1>7. ExistsBijection(1..e, S)
  BY <1>6 DEF ExistsBijection
<1>8. Cardinality(S) = e
  <2> HIDE DEF S
  <2> QED BY <1>2, <1>7, FS_CountingElements
<1> QED BY <1>2, <1>8 DEF Raises, e

\* Rounding half up is the nearest whole number, the upper one of two.
LEMMA RoundedFacts ==
  ASSUME NEW n \in Nat, NEW d \in Nat \ {0}
  PROVE  /\ RoundedHalfUp(n, d) \in Int
         /\ d * (2 * RoundedHalfUp(n, d) - 1) <= 2 * n
         /\ 2 * n < d * (2 * RoundedHalfUp(n, d) + 1)
<1> DEFINE q == (2 * n + d) \div (2 * d)
<1>1. q \in Int /\ 2 * d * q <= 2 * n + d /\ 2 * n + d < 2 * d * q + 2 * d
  OBVIOUS
<1> HIDE DEF q
<1>2. d * (2 * q - 1) = 2 * d * q - d /\ d * (2 * q + 1) = 2 * d * q + d
  BY <1>1
<1>3. 2 * d * q \in Int
  BY <1>1
<1>4. d * (2 * q - 1) <= 2 * n /\ 2 * n < d * (2 * q + 1)
  BY <1>1, <1>2, <1>3
<1> QED BY <1>1, <1>4 DEF RoundedHalfUp, q

LEMMA PriceFacts ==
  ASSUME NEW type \in UnitTypes, NEW population \in Nat
  PROVE  IsPrice(unit_cost(type, population), type, population)
<1> DEFINE e == Exponent(population)
           n == UNIT_BASE_COSTS[type] * Powers(13)[e]
           d == Powers(10)[e]
<1>1. e \in Nat /\ Raises(population + 1) = e
  BY ExponentFacts
<1> HIDE DEF e
<1>2. d \in Nat \ {0} /\ Powers(13)[e] \in Nat
  BY <1>1, PowerFacts
<1>3. UNIT_BASE_COSTS[type] \in Nat
  BY DEF UNIT_BASE_COSTS, UnitTypes
<1>4. n \in Nat
  BY <1>2, <1>3
<1>5. unit_cost(type, population) = RoundedHalfUp(n, d)
  BY DEF unit_cost, e
<1>6. LET p == RoundedHalfUp(n, d) IN d * (2 * p - 1) <= 2 * n /\ 2 * n < d * (2 * p + 1)
  <2> HIDE DEF n, d
  <2> QED BY <1>2, <1>4, RoundedFacts
<1> QED BY <1>1, <1>5, <1>6 DEF IsPrice

\* The space is what is left of five resources for each unit, ten at least.
LEMMA SpaceFacts ==
  ASSUME NEW population \in Nat, NEW resources \in Nat
  PROVE  /\ \A r \in 0..resource_space(population, resources) :
              r = 0 \/ resources + r <= 10 \/ resources + r <= 5 * population
         /\ resource_space(population, resources) = 0 =>
              resources >= 10 /\ resources >= 5 * population
BY DEF resource_space, core_resource_capacity

\* The price of every class of unit is the one the rules tell of, rounded once, and the
\* space of the Core is what they leave, for every population and every stock (unit_cost,
\* core_resource_capacity, resource_space).
THEOREM PricesAreExact == Spec => []PricesExact
<1>1. PlanInv => PricesExact
  <2> SUFFICES ASSUME PlanInv, NEW k \in DOMAIN states
               PROVE  LET s == states[k]
                      IN  /\ \A t \in UnitTypes : IsPrice(unit_cost(t, s.population), t, s.population)
                          /\ \A r \in 0..resource_space(s.population, s.resources) :
                               r = 0 \/ s.resources + r <= 10 \/ s.resources + r <= 5 * s.population
                          /\ resource_space(s.population, s.resources) = 0 =>
                               s.resources >= 10 /\ s.resources >= 5 * s.population
    BY DEF PricesExact
  <2>1. states[k] \in States
    BY DEF PlanInv, SlotType
  <2>2. states[k].population \in Nat /\ states[k].resources \in Nat
    BY <2>1, PlanAssumption
  <2> QED BY <2>2, PriceFacts, SpaceFacts
<1> QED BY <1>1, PlanInductive, PTL
=============================================================================
