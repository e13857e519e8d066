---------------------------- MODULE EventLedger ----------------------------
(***************************************************************************)
(* What the telemetry sink promises of the events it is given, whatever    *)
(* threads carry them: every event waits, is held by a thread that will    *)
(* post it, and is then received once or lost for good; and while calls    *)
(* of the sink do not overlap, what is received is in the order of emit(). *)
(* Events are numbered in that order.                                      *)
(***************************************************************************)
EXTENDS Integers, Sequences, FiniteSets, Functions

CONSTANT Events

VARIABLES fate, log, raced      \* raced: two threads have been inside emit() or close()

ledgerVars == <<fate, log, raced>>

Having(f) == {e \in Events : fate[e] = f}

LedgerInit == fate = [e \in Events |-> "new"] /\ log = <<>> /\ raced = FALSE

Race == raced' \in BOOLEAN /\ (raced => raced')

Move(e, f) == fate' = [fate EXCEPT ![e] = f] /\ UNCHANGED log

\* An emitted event waits, or is dropped at once.
Offer(e) ==
  /\ fate[e] = "new" /\ \A d \in Having("new") : e <= d
  /\ Move(e, "queued") \/ Move(e, "lost")
  /\ Race

\* The event that has waited longest is taken to be posted, or emptied out.
Take(e) ==
  /\ fate[e] = "queued" /\ \A d \in Having("queued") : e <= d
  /\ Move(e, "held") \/ Move(e, "lost")
  /\ UNCHANGED raced

\* A post settles what one thread holds: all of it, or -- when calls have raced and
\* threads share the queue -- some of it.
Posted(S, outcome) ==
  /\ S \subseteq Having("held") /\ S # {}
  /\ ~raced => S = Having("held")
  /\ fate' = [e \in Events |-> IF e \in S THEN outcome ELSE fate[e]]
  /\ UNCHANGED raced

Receive(S) ==
  /\ Posted(S, "received")
  /\ Len(log') = Len(log) + Cardinality(S) /\ SubSeq(log', 1, Len(log)) = log
  /\ {log'[k] : k \in (Len(log) + 1)..Len(log')} = S
  /\ ~raced => \A a, b \in DOMAIN log' : a < b => log'[a] < log'[b]

Fail(S) == Posted(S, "lost") /\ UNCHANGED log

LedgerNext ==
  \/ Race /\ UNCHANGED <<fate, log>>
  \/ \E e \in Events : Offer(e) \/ Take(e)
  \/ \E S \in SUBSET Events : Receive(S) \/ Fail(S)

Ledger == LedgerInit /\ [][LedgerNext]_ledgerVars
=============================================================================
