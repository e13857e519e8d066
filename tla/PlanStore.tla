----------------------------- MODULE PlanStore -----------------------------
(***************************************************************************)
(* What submit() promises its caller, without attempts, requests or a      *)
(* network: the plan offered under one idempotency key takes effect at     *)
(* most once; a call that returns Accepted did take effect; a call that    *)
(* raises may or may not have, and its effect may even come later.         *)
(***************************************************************************)
CONSTANTS Calls, Keys, Plans, NoPlan, NoKey

VARIABLES
  state,     \* per call: idle, pending, accepted, failed
  key,       \* per call: the key it offers its plan under
  offered,   \* per key: the plan offered under it
  applied,   \* per key: whether that plan took effect
  stored     \* the plan the game has for the tick

vars == <<state, key, offered, applied, stored>>

Init ==
  /\ state = [c \in Calls |-> "idle"]
  /\ key = [c \in Calls |-> NoKey]
  /\ offered = [k \in Keys |-> NoPlan]
  /\ applied = [k \in Keys |-> FALSE]
  /\ stored = NoPlan

Begin(c, k, p) ==
  /\ state[c] = "idle" /\ offered[k] \in {NoPlan, p}
  /\ state' = [state EXCEPT ![c] = "pending"]
  /\ key' = [key EXCEPT ![c] = k]
  /\ offered' = [offered EXCEPT ![k] = p]
  /\ UNCHANGED <<applied, stored>>

Apply(k) ==
  /\ offered[k] # NoPlan /\ ~applied[k]
  /\ applied' = [applied EXCEPT ![k] = TRUE]
  /\ stored' = offered[k]
  /\ UNCHANGED <<state, key, offered>>

Accept(c) ==
  /\ state[c] = "pending" /\ applied[key[c]]
  /\ state' = [state EXCEPT ![c] = "accepted"]
  /\ UNCHANGED <<key, offered, applied, stored>>

Fail(c) ==
  /\ state[c] = "pending"
  /\ state' = [state EXCEPT ![c] = "failed"]
  /\ UNCHANGED <<key, offered, applied, stored>>

Next ==
  \/ \E c \in Calls : Accept(c) \/ Fail(c) \/ \E k \in Keys, p \in Plans : Begin(c, k, p)
  \/ \E k \in Keys : Apply(k)

Spec == Init /\ [][Next]_vars
=============================================================================
