------------------------- MODULE TelemetrySinkProofs -------------------------
(* Proofs about TelemetrySink, for any number of callers and events: while  *)
(* no two threads are inside emit() or close() at once, one thread at most  *)
(* works on the queue, nothing raises and events are written in order; and, *)
(* with or without that, the sink implements EventLedger.                   *)
EXTENDS TelemetrySink, SequenceTheorems, FiniteSetTheorems, TLAPS

Phases == {"new", "starting", "running", "posting", "last", "draining", "exiting", "dead"}
Labels == {"idle", "check", "assign", "start", "join", "raised"}

\* The part of the state that the steps of callers and threads agree on.
SinkType ==
  /\ workers \in Seq([phase : Phases, batch : Seq(Nat)])
  /\ thread \in 1..Len(workers)
  /\ pc \in [Callers -> Labels] /\ raced \in BOOLEAN
  /\ queue \in Seq(Nat) /\ emitted \in Nat

\* One caller at a time is inside a call; all threads but the last are dead; the last has
\* not been started exactly while its maker is about to start it, and is made only when
\* the one before it is dead.
Alone ==
  /\ \A c, d \in Callers : pc[c] # "idle" /\ pc[d] # "idle" => c = d
  /\ \A w \in 1..Len(workers) : w # thread => workers[w].phase = "dead"
  /\ workers[thread].phase = "new" <=> \E c \in Callers : pc[c] = "start"
  /\ \A c \in Callers : /\ pc[c] = "assign" => workers[thread].phase = "dead"
                        /\ pc[c] # "raised"

SinkInv == SinkType /\ (~raced => Alone)

-----------------------------------------------------------------------------
LEMMA SinkInit == Init => SinkInv
<1> SUFFICES ASSUME Init PROVE SinkInv
  OBVIOUS
<1>1. SinkType
  <2>1. [phase |-> "starting", batch |-> <<>>] \in [phase : Phases, batch : Seq(Nat)]
    BY DEF Phases
  <2>2. workers \in Seq([phase : Phases, batch : Seq(Nat)]) /\ Len(workers) = 1
    BY <2>1 DEF Init
  <2>3. pc \in [Callers -> Labels] /\ raced \in BOOLEAN /\ emitted \in Nat
    BY DEF Init, Labels
  <2>4. queue \in Seq(Nat)
    BY DEF Init
  <2>5. thread \in 1..Len(workers)
    BY <2>2 DEF Init
  <2> QED BY <2>2, <2>3, <2>4, <2>5 DEF SinkType
<1>2. Alone
  BY DEF Init, Alone
<1> QED BY <1>1, <1>2 DEF SinkInv

LEMMA CallerType ==
  ASSUME SinkType, NEW c \in Callers, Caller(c)
  PROVE  SinkType'
<1> USE DEF SinkType, Go, Labels
<1>1. CASE EmitPut(c)
  BY <1>1 DEF EmitPut
<1>2. CASE EmitCheck(c)
  BY <1>2 DEF EmitCheck
<1>3. CASE EmitAssign(c)
  <2>1. [phase |-> "new", batch |-> <<>>] \in [phase : Phases, batch : Seq(Nat)]
    BY DEF Phases
  <2>2. workers' \in Seq([phase : Phases, batch : Seq(Nat)]) /\ Len(workers') = Len(workers) + 1
    BY <1>3, <2>1 DEF EmitAssign
  <2> QED BY <1>3, <2>2 DEF EmitAssign
<1>4. CASE EmitStart(c)
  <2>1. workers' \in Seq([phase : Phases, batch : Seq(Nat)]) /\ Len(workers') = Len(workers)
    <3>1. thread \in 1..Len(workers) /\ workers[thread] \in [phase : Phases, batch : Seq(Nat)]
      BY ElementOfSeq
    <3>2. CASE workers' = [workers EXCEPT ![thread].phase = "starting"]
      <4>1. [workers[thread] EXCEPT !.phase = "starting"] \in [phase : Phases, batch : Seq(Nat)]
        BY <3>1 DEF Phases
      <4>2. workers' = [workers EXCEPT ![thread] = [workers[thread] EXCEPT !.phase = "starting"]]
        BY <3>1, <3>2
      <4> HIDE DEF Go, Labels
      <4> QED BY <3>1, <4>1, <4>2
    <3>3. CASE workers' = workers
      BY <3>3
    <3> QED BY <1>4, <3>2, <3>3 DEF EmitStart
  <2> QED BY <1>4, <2>1 DEF EmitStart
<1>5. CASE ClosePut(c)
  BY <1>5 DEF ClosePut, Stop
<1>6. CASE CloseJoin(c)
  BY <1>6 DEF CloseJoin
<1> QED BY <1>1, <1>2, <1>3, <1>4, <1>5, <1>6 DEF Caller

\* What a background thread does to the threads: it alone moves, from one phase of life to
\* another.
LEMMA WorkerMoves ==
  ASSUME SinkType, NEW w \in DOMAIN workers, Worker(w)
  PROVE  /\ SinkType'
         /\ UNCHANGED <<thread, pc, raced>> /\ Len(workers') = Len(workers)
         /\ Alive(w) /\ workers'[w].phase # "new"
         /\ \A v \in 1..Len(workers) : v # w => workers'[v] = workers[v]
<1>1. w \in 1..Len(workers) /\ workers[w] \in [phase : Phases, batch : Seq(Nat)]
  <2>1. workers \in Seq([phase : Phases, batch : Seq(Nat)])
    BY DEF SinkType
  <2>2. w \in 1..Len(workers)
    BY <2>1
  <2> QED BY <2>1, <2>2, ElementOfSeq
<1>2. ASSUME NEW r \in [phase : Phases \ {"new"}, batch : Seq(Nat)], workers' = [workers EXCEPT ![w] = r]
      PROVE  /\ workers' \in Seq([phase : Phases, batch : Seq(Nat)]) /\ Len(workers') = Len(workers)
             /\ workers'[w].phase # "new"
             /\ \A v \in 1..Len(workers) : v # w => workers'[v] = workers[v]
  BY <1>1, <1>2 DEF SinkType
<1>3. UNCHANGED <<thread, pc, raced, emitted>> /\ Alive(w) /\ queue' \in Seq(Nat)
  <2>1. UNCHANGED <<thread, pc, raced, emitted>>
    BY DEF Worker, Open, Get, Idle, Flush, Drain, Exit
  <2>2. Alive(w)
    BY DEF Worker, Open, Get, Idle, Flush, Drain, Exit, Alive
  <2>3. queue' = queue \/ (queue # <<>> /\ queue' = Tail(queue))
    BY DEF Worker, Open, Get, Idle, Flush, Drain, Exit
  <2>4. queue' \in Seq(Nat)
    <3>1. queue \in Seq(Nat)
      BY DEF SinkType
    <3> QED BY <2>3, <3>1, HeadTailProperties
  <2> QED BY <2>1, <2>2, <2>4
<1>4. \E r \in [phase : Phases \ {"new"}, batch : Seq(Nat)] : workers' = [workers EXCEPT ![w] = r]
  <2>1. ASSUME NEW p \in Phases \ {"new"}, MoveTo(w, p)
        PROVE  \E r \in [phase : Phases \ {"new"}, batch : Seq(Nat)] : workers' = [workers EXCEPT ![w] = r]
    <3>1. [workers[w] EXCEPT !.phase = p] \in [phase : Phases \ {"new"}, batch : Seq(Nat)]
      BY <1>1, <2>1
    <3>2. workers' = [workers EXCEPT ![w] = [workers[w] EXCEPT !.phase = p]]
      BY <1>1, <2>1 DEF MoveTo, SinkType
    <3> QED BY <3>1, <3>2
  <2>2. CASE Open(w) \/ Idle(w) \/ Exit(w)
    BY <2>1, <2>2 DEF Open, Idle, Exit, Phases
  <2>3. CASE Get(w)
    <3>1. Head(queue) \in Nat
      BY <2>3 DEF Get, SinkType
    <3>2. CASE Head(queue) = Stop
      BY <2>1, <2>3, <3>2 DEF Get, Phases
    <3>3. CASE Head(queue) # Stop
      <4> DEFINE b == Append(workers[w].batch, Head(queue))
      <4>1. b \in Seq(Nat)
        BY <1>1, <3>1
      <4>2. PICK p \in {"posting", "running"} : workers' = [workers EXCEPT ![w] = [phase |-> p, batch |-> b]]
        BY <2>3, <3>3 DEF Get
      <4> HIDE DEF b
      <4>3. [phase |-> p, batch |-> b] \in [phase : Phases \ {"new"}, batch : Seq(Nat)]
        BY <4>1 DEF Phases
      <4> QED BY <4>2, <4>3
    <3> QED BY <3>2, <3>3
  <2>4. CASE Flush(w)
    <3>1. PICK p \in {"running", "draining"} : workers' = [workers EXCEPT ![w] = [phase |-> p, batch |-> <<>>]]
      BY <2>4 DEF Flush
    <3>2. [phase |-> p, batch |-> <<>>] \in [phase : Phases \ {"new"}, batch : Seq(Nat)]
      BY DEF Phases
    <3> QED BY <3>1, <3>2
  <2>5. CASE Drain(w)
    <3>1. CASE workers' = workers
      <4>1. workers' = [workers EXCEPT ![w] = workers[w]] /\ workers[w].phase = "draining"
        BY <1>1, <2>5, <3>1 DEF Drain, SinkType
      <4>2. workers[w] \in [phase : Phases \ {"new"}, batch : Seq(Nat)]
        BY <1>1, <4>1
      <4> QED BY <4>1, <4>2
    <3>2. CASE MoveTo(w, "exiting")
      BY <2>1, <3>2 DEF Phases
    <3> QED BY <2>5, <3>1, <3>2 DEF Drain
  <2> QED BY <2>2, <2>3, <2>4, <2>5 DEF Worker
<1> QED BY <1>2, <1>3, <1>4 DEF SinkType

\* While no two callers are inside, the one that steps is the only one inside.
LEMMA CallerAlone ==
  ASSUME SinkType, Alone, NEW c \in Callers, Caller(c), ~raced'
  PROVE  Alone'
<1>1. /\ pc \in [Callers -> Labels] /\ raced \in BOOLEAN /\ thread \in 1..Len(workers)
      /\ workers \in Seq([phase : Phases, batch : Seq(Nat)])
  BY DEF SinkType
<1>2. ASSUME NEW from, NEW to, Go(c, from, to)
      PROVE  /\ pc[c] = from /\ pc'[c] = to
             /\ \A d \in Callers : d # c => pc[d] = "idle" /\ pc'[d] = "idle"
  BY <1>1, <1>2 DEF Go
<1> DEFINE Threads == /\ \A w \in 1..Len(workers) : w # thread => workers[w].phase = "dead"
                      /\ workers[thread].phase = "new" <=> pc[c] = "start"
                      /\ pc[c] = "assign" => workers[thread].phase = "dead"
                      /\ pc[c] # "raised"
<1>3. ASSUME Threads', \A d \in Callers : d # c => pc'[d] = "idle"
      PROVE  Alone'
  BY <1>3 DEF Alone
<1>4. ASSUME \A d \in Callers : d # c => pc[d] = "idle"
      PROVE  Threads
  BY <1>4 DEF Alone
<1>5. CASE UNCHANGED <<thread, workers>> /\ (EmitPut(c) \/ EmitCheck(c) \/ ClosePut(c) \/ CloseJoin(c))
  <2>1. PICK from \in {"idle", "check", "join"}, to \in {"idle", "check", "join", "assign", "raised"} :
          /\ Go(c, from, to)
          /\ to = "assign" => from = "check" /\ ~Alive(thread)
          /\ to = "raised" => from = "join" /\ workers[thread].phase = "new"
    BY <1>5 DEF EmitPut, EmitCheck, ClosePut, CloseJoin
  <2>2. /\ pc[c] = from /\ pc'[c] = to
        /\ \A d \in Callers : d # c => pc[d] = "idle" /\ pc'[d] = "idle"
    BY <1>2, <2>1
  <2>3. Threads
    BY <1>4, <2>2
  <2>4. Threads'
    BY <1>5, <2>1, <2>2, <2>3 DEF Alive
  <2> QED BY <1>3, <2>2, <2>4
<1>6. CASE EmitAssign(c)
  <2>1. /\ pc[c] = "assign" /\ pc'[c] = "start"
        /\ \A d \in Callers : d # c => pc[d] = "idle" /\ pc'[d] = "idle"
    BY <1>2, <1>6 DEF EmitAssign
  <2>2. Threads
    BY <1>4, <2>1
  <2>3. /\ Len(workers') = Len(workers) + 1 /\ thread' = Len(workers) + 1
        /\ workers'[thread'].phase = "new"
        /\ \A w \in 1..Len(workers) : workers'[w] = workers[w]
    BY <1>1, <1>6 DEF EmitAssign
  <2>4. \A w \in 1..Len(workers) : workers[w].phase = "dead"
    BY <2>1, <2>2
  <2>5. ASSUME NEW w \in 1..Len(workers'), w # thread'
        PROVE  workers'[w].phase = "dead"
    <3>1. Len(workers) \in Nat
      BY <1>1
    <3>2. w \in 1..Len(workers)
      BY <2>3, <2>5, <3>1
    <3> QED BY <2>3, <2>4, <3>2
  <2>6. Threads'
    BY <2>1, <2>3, <2>5
  <2> QED BY <1>3, <2>1, <2>6
<1>7. CASE EmitStart(c)
  <2>1. pc[c] = "start" /\ \A d \in Callers : d # c => pc[d] = "idle" /\ pc'[d] = "idle"
    BY <1>2, <1>7 DEF EmitStart
  <2>2. Threads
    BY <1>4, <2>1
  <2>3. workers' = [workers EXCEPT ![thread].phase = "starting"] /\ thread' = thread /\ pc'[c] = "idle"
    BY <1>2, <1>7, <2>1, <2>2 DEF EmitStart
  <2>4. workers'[thread].phase = "starting" /\ Len(workers') = Len(workers)
        /\ \A w \in 1..Len(workers) : w # thread => workers'[w] = workers[w]
    BY <1>1, <2>3
  <2>5. Threads'
    BY <2>2, <2>3, <2>4
  <2> QED BY <1>3, <2>1, <2>5
<1> QED BY <1>5, <1>6, <1>7 DEF Caller, EmitPut, EmitCheck, ClosePut, CloseJoin

LEMMA WorkerAlone ==
  ASSUME SinkType, Alone, NEW w \in DOMAIN workers, Worker(w)
  PROVE  Alone'
<1>1. /\ UNCHANGED <<thread, pc>> /\ Len(workers') = Len(workers)
      /\ Alive(w) /\ workers'[w].phase # "new"
      /\ \A v \in 1..Len(workers) : v # w => workers'[v] = workers[v]
  BY WorkerMoves
<1>2. w \in 1..Len(workers) /\ thread \in 1..Len(workers)
  <2>1. workers \in Seq([phase : Phases, batch : Seq(Nat)]) /\ thread \in 1..Len(workers)
    BY DEF SinkType
  <2> QED BY <2>1
<1>3. w = thread /\ workers[thread].phase \notin {"new", "dead"}
  BY <1>1, <1>2 DEF Alone, Alive
<1>4. \A c \in Callers : pc[c] # "start" /\ pc[c] # "assign"
  BY <1>3 DEF Alone
<1> QED BY <1>1, <1>2, <1>3, <1>4 DEF Alone

\* SinkInv is inductive: whoever steps, with calls that overlap or not.
LEMMA SinkStep ==
  ASSUME SinkInv, [Next]_vars
  PROVE  SinkInv'
<1>1. CASE UNCHANGED vars
  BY <1>1 DEF vars, SinkInv, SinkType, Alone
<1>2. ASSUME NEW c \in Callers, Caller(c) PROVE SinkInv'
  <2>1. SinkType'
    BY <1>2, CallerType DEF SinkInv
  <2>2. ~raced' => ~raced
    BY <1>2 DEF Caller, EmitPut, EmitCheck, EmitAssign, EmitStart, ClosePut, CloseJoin, Go
  <2> QED BY <1>2, <2>1, <2>2, CallerAlone DEF SinkInv
<1>3. ASSUME NEW w \in DOMAIN workers, Worker(w) PROVE SinkInv'
  <2>1. SinkType' /\ raced' = raced
    BY <1>3, WorkerMoves DEF SinkInv
  <2> QED BY <1>3, <2>1, WorkerAlone DEF SinkInv
<1> QED BY <1>1, <1>2, <1>3 DEF Next

THEOREM SinkInductive == Spec => []SinkInv
<1>1. SinkInv /\ [Next]_vars => SinkInv'
  BY SinkStep
<1> QED BY <1>1, SinkInit, PTL DEF Spec

\* emit() and close() never raise, and one thread at most works on the queue, as long as
\* calls do not overlap, for every number of callers, events and restarts.
THEOREM OneCallerSafe == Spec => []OneCallerIsSafe
<1>1. SinkInv => OneCallerIsSafe
  <2> SUFFICES ASSUME SinkInv, ~raced PROVE OneCallerIsSafe
    BY DEF OneCallerIsSafe
  <2>1. workers \in Seq([phase : Phases, batch : Seq(Nat)]) /\ Alone
    BY DEF SinkInv, SinkType
  <2>2. DOMAIN workers = 1..Len(workers)
    BY <2>1
  <2> QED BY <2>1, <2>2 DEF OneCallerIsSafe, Alone, Alive
<1> QED BY <1>1, SinkInductive, PTL

-----------------------------------------------------------------------------
(* The sink implements EventLedger                                         *)

Batch(w) == Range(workers[w].batch)
InBatch == UNION {Batch(w) : w \in DOMAIN workers}
Queued == Range(queue) \ {Stop}
Lost == dropped \cup failed \cup drained

\* Every event emitted is in exactly one place.
OnePlace ==
  /\ emitted \in 0..MaxEvents
  /\ 1..emitted = Range(received) \cup Lost \cup InBatch \cup Queued
  /\ Range(received) \cap Lost = {}
  /\ InBatch \cap (Range(received) \cup Lost) = {}
  /\ Queued \cap (Range(received) \cup Lost \cup InBatch) = {}
  /\ \A v, w \in DOMAIN workers : v # w => Batch(v) \cap Batch(w) = {}

Rising(s) == \A j, k \in 1..Len(s) : j < k => s[j] < s[k]

\* What has been taken out of the queue.
Taken == Range(received) \cup failed \cup drained \cup InBatch

\* The queue, the batches and what was taken before are in the order of emit(); what was
\* received is too until calls overlap.
InOrder ==
  /\ \A j, k \in 1..Len(queue) : j < k /\ queue[j] # Stop /\ queue[k] # Stop => queue[j] < queue[k]
  /\ \A d \in Taken, e \in Queued : d < e
  /\ \A w \in DOMAIN workers : Rising(workers[w].batch)
  /\ ~raced => Rising(received) /\ \A d \in Range(received), e \in InBatch : d < e

\* Only a thread that is at work holds a batch.
BatchAtWork ==
  \A w \in DOMAIN workers :
    workers[w].phase \notin {"running", "posting", "last"} => workers[w].batch = <<>>

LedgerInv ==
  /\ SinkInv /\ received \in Seq(Nat)
  /\ OnePlace /\ InOrder /\ BatchAtWork

-----------------------------------------------------------------------------
(* Sequences of events                                                     *)

LEMMA RangeOfAppend ==
  ASSUME NEW S, NEW s \in Seq(S), NEW x \in S
  PROVE  Range(Append(s, x)) = Range(s) \cup {x}
<1>1. /\ Len(s) \in Nat /\ DOMAIN s = 1..Len(s)
      /\ Len(Append(s, x)) = Len(s) + 1 /\ DOMAIN Append(s, x) = 1..(Len(s) + 1)
      /\ \A j \in 1..Len(s) : Append(s, x)[j] = s[j]
      /\ Append(s, x)[Len(s) + 1] = x
  BY AppendProperties, LenProperties
<1>2. 1..(Len(s) + 1) = 1..Len(s) \cup {Len(s) + 1}
  BY <1>1
<1> QED BY <1>1, <1>2 DEF Range

LEMMA RangeOfTail ==
  ASSUME NEW S, NEW s \in Seq(S), s # <<>>
  PROVE  Range(s) = {Head(s)} \cup Range(Tail(s))
<1>1. /\ Len(s) \in Nat \ {0} /\ DOMAIN s = 1..Len(s) /\ Head(s) = s[1]
      /\ Len(Tail(s)) = Len(s) - 1 /\ DOMAIN Tail(s) = 1..(Len(s) - 1)
      /\ \A j \in 1..(Len(s) - 1) : Tail(s)[j] = s[j + 1]
  BY EmptySeq, HeadTailProperties, LenProperties
<1>2. \A k \in 1..Len(s) : k = 1 \/ (k - 1 \in 1..(Len(s) - 1) /\ k = (k - 1) + 1)
  BY <1>1
<1>3. \A k \in 1..Len(s) : s[k] = s[1] \/ s[k] \in Range(Tail(s))
  <2> SUFFICES ASSUME NEW k \in 1..Len(s), k # 1 PROVE s[k] \in Range(Tail(s))
    OBVIOUS
  <2>1. k - 1 \in 1..(Len(s) - 1) /\ Tail(s)[k - 1] = s[k]
    BY <1>1, <1>2
  <2> QED BY <1>1, <2>1 DEF Range
<1>4. \A j \in 1..(Len(s) - 1) : j + 1 \in 1..Len(s)
  BY <1>1
<1>5. Range(Tail(s)) \subseteq Range(s)
  BY <1>1, <1>4 DEF Range
<1>6. Range(s) \subseteq {s[1]} \cup Range(Tail(s))
  BY <1>1, <1>3 DEF Range
<1>7. s[1] \in Range(s)
  BY <1>1 DEF Range
<1> QED BY <1>1, <1>5, <1>6, <1>7

LEMMA RangeOfEmpty == Range(<<>>) = {}
BY EmptySeq DEF Range

LEMMA RisingAppend ==
  ASSUME NEW s \in Seq(Nat), NEW x \in Nat, Rising(s), \A d \in Range(s) : d < x
  PROVE  Rising(Append(s, x))
<1>1. /\ Len(s) \in Nat /\ DOMAIN s = 1..Len(s) /\ Len(Append(s, x)) = Len(s) + 1
      /\ \A j \in 1..Len(s) : Append(s, x)[j] = s[j]
      /\ Append(s, x)[Len(s) + 1] = x
  BY AppendProperties, LenProperties
<1>2. \A j \in 1..Len(s) : s[j] < x
  BY <1>1 DEF Range
<1> QED BY <1>1, <1>2 DEF Rising

LEMMA RisingConcat ==
  ASSUME NEW s \in Seq(Nat), NEW t \in Seq(Nat), Rising(s), Rising(t),
         \A d \in Range(s), e \in Range(t) : d < e
  PROVE  Rising(s \o t)
<1>1. /\ Len(s) \in Nat /\ DOMAIN s = 1..Len(s) /\ Len(t) \in Nat /\ DOMAIN t = 1..Len(t)
      /\ Len(s \o t) = Len(s) + Len(t)
      /\ \A j \in 1..(Len(s) + Len(t)) :
           (s \o t)[j] = IF j <= Len(s) THEN s[j] ELSE t[j - Len(s)]
  BY ConcatProperties, LenProperties
<1>2. \A j \in 1..Len(s), k \in 1..Len(t) : s[j] < t[k]
  BY <1>1 DEF Range
<1> SUFFICES ASSUME NEW j \in 1..(Len(s) + Len(t)), NEW k \in 1..(Len(s) + Len(t)), j < k
             PROVE  (s \o t)[j] < (s \o t)[k]
  BY <1>1 DEF Rising
<1>3. CASE k <= Len(s)
  <2>1. j \in 1..Len(s) /\ k \in 1..Len(s) /\ (s \o t)[j] = s[j] /\ (s \o t)[k] = s[k]
    BY <1>1, <1>3
  <2> QED BY <2>1 DEF Rising
<1>4. CASE k > Len(s) /\ j <= Len(s)
  <2>1. j \in 1..Len(s) /\ k - Len(s) \in 1..Len(t) /\ (s \o t)[j] = s[j] /\ (s \o t)[k] = t[k - Len(s)]
    BY <1>1, <1>4
  <2> QED BY <1>2, <2>1
<1>5. CASE j > Len(s)
  <2>1. /\ j - Len(s) \in 1..Len(t) /\ k - Len(s) \in 1..Len(t) /\ j - Len(s) < k - Len(s)
        /\ (s \o t)[j] = t[j - Len(s)] /\ (s \o t)[k] = t[k - Len(s)]
    BY <1>1, <1>5
  <2> QED BY <2>1 DEF Rising
<1> QED BY <1>1, <1>3, <1>4, <1>5

\* What rises has no element twice.
LEMMA RisingCounts ==
  ASSUME NEW s \in Seq(Nat), Rising(s)
  PROVE  IsFiniteSet(Range(s)) /\ Cardinality(Range(s)) = Len(s)
<1>1. Len(s) \in Nat /\ DOMAIN s = 1..Len(s) /\ s \in [1..Len(s) -> Nat]
  BY LenProperties
<1>2. \A j, k \in 1..Len(s) : s[j] = s[k] => j = k
  <2> SUFFICES ASSUME NEW j \in 1..Len(s), NEW k \in 1..Len(s), j # k PROVE s[j] # s[k]
    OBVIOUS
  <2>1. s[j] \in Nat /\ s[k] \in Nat /\ (j < k \/ k < j)
    BY <1>1
  <2>2. s[j] < s[k] \/ s[k] < s[j]
    BY <2>1 DEF Rising
  <2> QED BY <2>1, <2>2
<1>3. s \in [1..Len(s) -> Range(s)]
  BY <1>1 DEF Range
<1>4. s \in Bijection(1..Len(s), Range(s))
  <2>1. s \in Injection(1..Len(s), Range(s))
    BY <1>1, <1>2, <1>3 DEF Injection, IsInjective
  <2>2. \A e \in Range(s) : \E j \in 1..Len(s) : s[j] = e
    BY <1>1 DEF Range
  <2>3. s \in Surjection(1..Len(s), Range(s))
    BY <1>3, <2>2 DEF Surjection
  <2> QED BY <2>1, <2>3 DEF Bijection
<1>5. IsFiniteSet(1..Len(s)) /\ Cardinality(1..Len(s)) = Len(s)
  <2>1. 1 \in Int /\ Len(s) \in Int
    BY <1>1
  <2>2. /\ IsFiniteSet(1..Len(s))
        /\ Cardinality(1..Len(s)) = IF 1 > Len(s) THEN 0 ELSE Len(s) - 1 + 1
    BY <2>1, FS_Interval, Zenon
  <2> QED BY <1>1, <2>2
<1>6. ExistsBijection(1..Len(s), Range(s))
  BY <1>4 DEF ExistsBijection
<1>7. /\ IsFiniteSet(Range(s))
      /\ Cardinality(Range(s)) = Cardinality(1..Len(s))
  BY <1>5, <1>6, FS_Bijection, Zenon
<1> QED BY <1>5, <1>7

-----------------------------------------------------------------------------
(* Batches and the queue                                                   *)

\* The threads there were keep their batches; new ones have none.
BatchesKept ==
  /\ DOMAIN workers \subseteq DOMAIN workers'
  /\ \A w \in DOMAIN workers : workers'[w].batch = workers[w].batch
  /\ \A w \in DOMAIN workers' \ DOMAIN workers : workers'[w].batch = <<>>

LEMMA KeptBatches ==
  ASSUME BatchesKept
  PROVE  /\ InBatch' = InBatch
         /\ \A w \in DOMAIN workers : Batch(w)' = Batch(w)
         /\ \A w \in DOMAIN workers' \ DOMAIN workers : Batch(w)' = {}
<1>1. \A w \in DOMAIN workers : Batch(w)' = Batch(w)
  BY DEF BatchesKept, Batch
<1>2. \A w \in DOMAIN workers' \ DOMAIN workers : Batch(w)' = {}
  BY RangeOfEmpty DEF BatchesKept, Batch
<1>3. InBatch' = InBatch
  BY <1>1, <1>2 DEF BatchesKept, InBatch
<1> QED BY <1>1, <1>2, <1>3

QueueInOrder ==
  \A j, k \in 1..Len(queue) : j < k /\ queue[j] # Stop /\ queue[k] # Stop => queue[j] < queue[k]

\* What a step does to nothing but the state of threads, callers and the stop mark.
LEMMA QuietKeeps ==
  ASSUME LedgerInv, BatchesKept, Queued' = Queued, QueueInOrder',
         UNCHANGED <<emitted, dropped, fates>>, raced' \in BOOLEAN, raced => raced'
  PROVE  OnePlace' /\ InOrder'
<1>1. /\ OnePlace /\ InOrder
      /\ InBatch' = InBatch
      /\ \A w \in DOMAIN workers : Batch(w)' = Batch(w)
      /\ \A w \in DOMAIN workers' \ DOMAIN workers : Batch(w)' = {}
      /\ received' = received /\ Lost' = Lost /\ Taken' = Taken /\ emitted' = emitted
  <2>1. InBatch' = InBatch
    BY KeptBatches
  <2>2. Lost' = Lost /\ Taken' = Taken
    BY <2>1 DEF Lost, Taken, fates
  <2> QED BY <2>1, <2>2, KeptBatches DEF LedgerInv, fates
<1>2. OnePlace'
  <2>1. \A v, w \in DOMAIN workers' : v # w => Batch(v)' \cap Batch(w)' = {}
    BY <1>1 DEF OnePlace
  <2> QED BY <1>1, <2>1 DEF OnePlace
<1>3. \A w \in DOMAIN workers' : Rising(workers'[w].batch)
  <2>1. Rising(<<>>)
    BY EmptySeq DEF Rising
  <2> QED BY <1>1, <2>1 DEF InOrder, BatchesKept
<1>4. InOrder'
  BY <1>1, <1>3 DEF InOrder, QueueInOrder, Rising
<1> QED BY <1>2, <1>4

\* What one thread does to its batch.
LEMMA BatchReplaced ==
  ASSUME SinkType, NEW w \in DOMAIN workers, NEW r \in [phase : Phases, batch : Seq(Nat)],
         workers' = [workers EXCEPT ![w] = r]
  PROVE  /\ DOMAIN workers' = DOMAIN workers
         /\ workers'[w] = r /\ Batch(w)' = Range(r.batch)
         /\ \A v \in DOMAIN workers \ {w} : workers'[v] = workers[v] /\ Batch(v)' = Batch(v)
         /\ \A e : e \in InBatch <=> e \in Batch(w) \/ \E v \in DOMAIN workers \ {w} : e \in Batch(v)
         /\ \A e : e \in InBatch' <=> e \in Range(r.batch) \/ \E v \in DOMAIN workers \ {w} : e \in Batch(v)
<1>1. /\ DOMAIN workers' = DOMAIN workers /\ workers'[w] = r
      /\ \A v \in DOMAIN workers \ {w} : workers'[v] = workers[v]
  BY DEF SinkType
<1>2. Batch(w)' = Range(r.batch) /\ \A v \in DOMAIN workers \ {w} : Batch(v)' = Batch(v)
  BY <1>1 DEF Batch
<1>3. ASSUME NEW e
      PROVE  e \in InBatch <=> e \in Batch(w) \/ \E v \in DOMAIN workers \ {w} : e \in Batch(v)
  <2>1. e \in InBatch <=> \E v \in DOMAIN workers : e \in Batch(v)
    BY DEF InBatch
  <2> QED BY <2>1
<1>4. ASSUME NEW e
      PROVE  e \in InBatch' <=> e \in Range(r.batch) \/ \E v \in DOMAIN workers \ {w} : e \in Batch(v)
  <2>1. e \in InBatch' <=> \E v \in DOMAIN workers' : e \in Batch(v)'
    BY DEF InBatch
  <2> QED BY <1>1, <1>2, <2>1
<1> QED BY <1>1, <1>2, <1>3, <1>4

LEMMA MoveKeepsBatches ==
  ASSUME SinkType, NEW w \in DOMAIN workers, NEW phase, MoveTo(w, phase)
  PROVE  BatchesKept
BY DEF SinkType, MoveTo, BatchesKept

\* The first of the queue is the least of the events in it.
LEMMA HeadOfQueue ==
  ASSUME SinkType, InOrder, queue # <<>>, queue' = Tail(queue)
  PROVE  /\ QueueInOrder' /\ Head(queue) \in Nat
         /\ Head(queue) = Stop => Queued' = Queued
         /\ Head(queue) # Stop =>
              /\ Head(queue) \in Queued /\ Queued' = Queued \ {Head(queue)}
              /\ \A e \in Queued' : Head(queue) < e
<1>1. /\ queue \in Seq(Nat) /\ Len(queue) \in Nat \ {0} /\ DOMAIN queue = 1..Len(queue)
      /\ Head(queue) = queue[1] /\ Tail(queue) \in Seq(Nat)
      /\ Len(queue') = Len(queue) - 1 /\ DOMAIN queue' = 1..(Len(queue) - 1)
      /\ \A j \in 1..(Len(queue) - 1) : queue'[j] = queue[j + 1]
  BY EmptySeq, HeadTailProperties, LenProperties DEF SinkType
<1>2. Range(queue) = {Head(queue)} \cup Range(queue')
  BY <1>1, RangeOfTail
<1>3. \A j \in 1..(Len(queue) - 1) : j + 1 \in 1..Len(queue) /\ 1 < j + 1
  BY <1>1
<1>4. QueueInOrder'
  <2> SUFFICES ASSUME NEW j \in 1..Len(queue'), NEW k \in 1..Len(queue'), j < k,
                      queue'[j] # Stop, queue'[k] # Stop
               PROVE  queue'[j] < queue'[k]
    BY DEF QueueInOrder
  <2>1. j + 1 \in 1..Len(queue) /\ k + 1 \in 1..Len(queue) /\ j + 1 < k + 1
    BY <1>1
  <2>2. queue'[j] = queue[j + 1] /\ queue'[k] = queue[k + 1]
    BY <1>1
  <2> QED BY <2>1, <2>2 DEF InOrder
<1>5. ASSUME Head(queue) # Stop
      PROVE  \A e \in Queued' : Head(queue) < e
  <2> SUFFICES ASSUME NEW e \in Queued' PROVE queue[1] < e
    BY <1>1
  <2>1. PICK j \in 1..(Len(queue) - 1) : e = queue'[j]
    BY <1>1 DEF Queued, Range
  <2>2. e = queue[j + 1] /\ j + 1 \in 1..Len(queue) /\ 1 < j + 1 /\ 1 \in 1..Len(queue) /\ e # Stop
    BY <1>1, <1>3, <2>1 DEF Queued
  <2> QED BY <1>1, <1>5, <2>2 DEF InOrder
<1>6. ASSUME Head(queue) # Stop
      PROVE  Head(queue) \in Queued /\ Queued' = Queued \ {Head(queue)}
  <2>1. Head(queue) \in Nat /\ Head(queue) \notin Queued'
    BY <1>1, <1>5, <1>6
  <2> QED BY <1>2, <1>6, <2>1 DEF Queued
<1>7. Head(queue) = Stop => Queued' = Queued
  BY <1>2 DEF Queued
<1>8. Head(queue) \in Nat
  BY <1>1
<1> QED BY <1>4, <1>5, <1>6, <1>7, <1>8

-----------------------------------------------------------------------------
(* The steps                                                               *)

LEMMA CallerKeepsBatches ==
  ASSUME LedgerInv, NEW c \in Callers, Caller(c)
  PROVE  /\ BatchesKept /\ BatchAtWork'
         /\ UNCHANGED <<received, failed, drained>>
         /\ raced' \in BOOLEAN /\ (raced => raced')
<1>1. /\ workers \in Seq([phase : Phases, batch : Seq(Nat)]) /\ thread \in 1..Len(workers)
      /\ DOMAIN workers = 1..Len(workers) /\ Len(workers) \in Nat
      /\ raced \in BOOLEAN /\ BatchAtWork
  BY LenProperties DEF LedgerInv, SinkInv, SinkType
<1>2. UNCHANGED <<received, failed, drained>>
  BY DEF Caller, EmitPut, EmitCheck, EmitAssign, EmitStart, ClosePut, CloseJoin, fates
<1>3. raced' \in BOOLEAN /\ (raced => raced')
  BY <1>1 DEF Caller, EmitPut, EmitCheck, EmitAssign, EmitStart, ClosePut, CloseJoin, Go
<1>4. CASE workers' = workers
  <2>1. BatchesKept /\ BatchAtWork'
    BY <1>1, <1>4 DEF BatchesKept, BatchAtWork
  <2> QED BY <1>2, <1>3, <2>1
<1>5. CASE EmitAssign(c)
  <2>1. /\ DOMAIN workers' = 1..(Len(workers) + 1)
        /\ workers'[Len(workers) + 1] = [phase |-> "new", batch |-> <<>>]
        /\ \A w \in 1..Len(workers) : workers'[w] = workers[w]
    <3>1. [phase |-> "new", batch |-> <<>>] \in [phase : Phases, batch : Seq(Nat)]
      BY DEF Phases
    <3>2. workers' = Append(workers, [phase |-> "new", batch |-> <<>>])
      BY <1>5 DEF EmitAssign
    <3> QED BY <1>1, <3>1, <3>2, AppendProperties, LenProperties
  <2> DEFINE n == Len(workers)
  <2>0. n \in Nat
    BY <1>1
  <2> HIDE DEF n
  <2>2. \A w \in 1..(n + 1) : w \in 1..n \/ w = n + 1
    BY <2>0
  <2>3. 1..n \subseteq 1..(n + 1)
    BY <2>0
  <2>4. BatchesKept
    BY <1>1, <2>1, <2>2, <2>3 DEF BatchesKept, n
  <2>5. BatchAtWork'
    <3> SUFFICES ASSUME NEW w \in 1..(n + 1)
                 PROVE  workers'[w].batch = <<>> \/ workers'[w].phase \in {"running", "posting", "last"}
      BY <2>1 DEF BatchAtWork, n
    <3>1. CASE w = n + 1
      BY <2>1, <3>1 DEF n
    <3>2. CASE w \in 1..n
      BY <1>1, <2>1, <3>2 DEF BatchAtWork, n
    <3> QED BY <2>2, <3>1, <3>2
  <2> QED BY <1>2, <1>3, <2>4, <2>5
<1>6. CASE EmitStart(c) /\ workers' # workers
  <2>1. workers' = [workers EXCEPT ![thread].phase = "starting"] /\ workers[thread].phase = "new"
    BY <1>6 DEF EmitStart
  <2>2. BatchesKept
    BY <1>1, <2>1 DEF BatchesKept
  <2>3. DOMAIN workers' = DOMAIN workers /\ workers[thread].batch = <<>>
    BY <1>1, <2>1 DEF BatchAtWork
  <2>4. \A w \in DOMAIN workers : w # thread => workers'[w] = workers[w]
    BY <1>1, <2>1
  <2>5. BatchAtWork'
    BY <1>1, <2>2, <2>3, <2>4 DEF BatchAtWork, BatchesKept
  <2> QED BY <1>2, <1>3, <2>2, <2>5
<1>7. workers' = workers \/ EmitAssign(c) \/ EmitStart(c)
  BY DEF Caller, EmitPut, EmitCheck, ClosePut, CloseJoin
<1> QED BY <1>2, <1>3, <1>4, <1>5, <1>6, <1>7

\* A new event goes behind the others in the queue, or is dropped when there is no room.
LEMMA PutPlaces ==
  ASSUME LedgerInv, NEW c \in Callers, EmitPut(c)
  PROVE  /\ OnePlace' /\ InOrder'
         /\ emitted' = emitted + 1 /\ emitted' \in Events
         /\ InBatch' = InBatch /\ received' = received
         /\ \/ Queued' = Queued \cup {emitted'} /\ Lost' = Lost
            \/ Queued' = Queued /\ Lost' = Lost \cup {emitted'}
<1>1. /\ OnePlace /\ InOrder /\ SinkType
      /\ emitted \in 0..MaxEvents /\ emitted < MaxEvents /\ emitted' = emitted + 1
      /\ queue \in Seq(Nat)
  BY DEF LedgerInv, SinkInv, SinkType, OnePlace, EmitPut
<1>2. /\ BatchesKept /\ InBatch' = InBatch
      /\ UNCHANGED <<received, failed, drained>> /\ (raced => raced') /\ raced' \in BOOLEAN
  <2>1. Caller(c)
    BY DEF Caller
  <2> QED BY <2>1, CallerKeepsBatches, KeptBatches
<1> DEFINE e == emitted'
<1>3. e \in Events /\ e \in Nat \ {0} /\ 1..e = 1..emitted \cup {e} /\ e \notin 1..emitted
  BY <1>1, SinkAssumption DEF Events
<1> HIDE DEF e
<1>4. \A d \in 1..emitted : d < e
  BY <1>1 DEF e
<1>5. Taken' = Taken /\ Taken \subseteq 1..emitted /\ Queued \subseteq 1..emitted
  <2>1. Taken' = Taken
    BY <1>2 DEF Taken
  <2> QED BY <1>1, <2>1 DEF OnePlace, Taken, Lost
<1>6. CASE HasRoom
  <2>1. queue' = Append(queue, e) /\ dropped' = dropped
    BY <1>6 DEF EmitPut, e
  <2>2. Queued' = Queued \cup {e}
    <3>1. Range(queue') = Range(queue) \cup {e}
      BY <1>1, <1>3, <2>1, RangeOfAppend
    <3> QED BY <1>3, <3>1 DEF Queued, Stop
  <2>3. Lost' = Lost
    BY <1>2, <2>1 DEF Lost
  <2>4. OnePlace'
    <3>1. emitted' \in 0..MaxEvents
      BY <1>1, <1>3 DEF e, Events
    <3>2. 1..emitted' = Range(received') \cup Lost' \cup InBatch' \cup Queued'
      BY <1>1, <1>2, <1>3, <2>2, <2>3 DEF OnePlace, e
    <3>3. /\ Range(received') \cap Lost' = {}
          /\ InBatch' \cap (Range(received') \cup Lost') = {}
      BY <1>1, <1>2, <2>3 DEF OnePlace
    <3>4. Queued' \cap (Range(received') \cup Lost' \cup InBatch') = {}
      BY <1>1, <1>2, <1>3, <2>2, <2>3 DEF OnePlace
    <3>5. \A v, w \in DOMAIN workers' : v # w => Batch(v)' \cap Batch(w)' = {}
      BY <1>1, <1>2, KeptBatches DEF OnePlace
    <3> QED BY <3>1, <3>2, <3>3, <3>4, <3>5 DEF OnePlace
  <2>5. QueueInOrder'
    <3>1. /\ Len(queue) \in Nat /\ DOMAIN queue = 1..Len(queue) /\ Len(queue') = Len(queue) + 1
          /\ \A j \in 1..Len(queue) : queue'[j] = queue[j]
          /\ queue'[Len(queue) + 1] = e
      BY <1>1, <1>3, <2>1, AppendProperties, LenProperties
    <3>2. \A j \in 1..Len(queue) : queue[j] # Stop => queue[j] < e
      BY <1>4, <1>5, <3>1 DEF Queued, Range
    <3> SUFFICES ASSUME NEW j \in 1..Len(queue'), NEW k \in 1..Len(queue'), j < k,
                        queue'[j] # Stop, queue'[k] # Stop
                 PROVE  queue'[j] < queue'[k]
      BY DEF QueueInOrder
    <3>3. j \in 1..Len(queue) /\ (k \in 1..Len(queue) \/ k = Len(queue) + 1)
      BY <3>1
    <3> QED BY <1>1, <3>1, <3>2, <3>3 DEF InOrder
  <2>6. InOrder'
    <3>1. \A d \in Taken', x \in Queued' : d < x
      BY <1>1, <1>4, <1>5, <2>2 DEF InOrder
    <3>2. \A w \in DOMAIN workers' : Rising(workers'[w].batch)
      <4>1. Rising(<<>>)
        BY EmptySeq DEF Rising
      <4> QED BY <1>1, <1>2, <4>1 DEF InOrder, BatchesKept
    <3>3. ~raced' => Rising(received') /\ \A d \in Range(received'), x \in InBatch' : d < x
      BY <1>1, <1>2 DEF InOrder
    <3> QED BY <2>5, <3>1, <3>2, <3>3 DEF InOrder, QueueInOrder, Rising
  <2> QED BY <1>1, <1>2, <1>3, <2>2, <2>3, <2>4, <2>6 DEF e
<1>7. CASE ~HasRoom
  <2>1. queue' = queue /\ dropped' = dropped \cup {e}
    BY <1>7 DEF EmitPut, e
  <2>2. Queued' = Queued /\ Lost' = Lost \cup {e}
    BY <1>2, <2>1 DEF Queued, Lost
  <2>4. OnePlace'
    <3>1. emitted' \in 0..MaxEvents
      BY <1>1, <1>3 DEF e, Events
    <3>2. 1..emitted' = Range(received') \cup Lost' \cup InBatch' \cup Queued'
      BY <1>1, <1>2, <1>3, <2>2 DEF OnePlace, e
    <3>3. /\ Range(received') \cap Lost' = {}
          /\ InBatch' \cap (Range(received') \cup Lost') = {}
      BY <1>1, <1>2, <1>3, <2>2 DEF OnePlace
    <3>4. Queued' \cap (Range(received') \cup Lost' \cup InBatch') = {}
      BY <1>1, <1>2, <1>3, <2>2 DEF OnePlace
    <3>5. \A v, w \in DOMAIN workers' : v # w => Batch(v)' \cap Batch(w)' = {}
      BY <1>1, <1>2, KeptBatches DEF OnePlace
    <3> QED BY <3>1, <3>2, <3>3, <3>4, <3>5 DEF OnePlace
  <2>6. InOrder'
    <3>2. \A w \in DOMAIN workers' : Rising(workers'[w].batch)
      <4>1. Rising(<<>>)
        BY EmptySeq DEF Rising
      <4> QED BY <1>1, <1>2, <4>1 DEF InOrder, BatchesKept
    <3>3. ~raced' => Rising(received') /\ \A d \in Range(received'), x \in InBatch' : d < x
      BY <1>1, <1>2 DEF InOrder
    <3> QED BY <1>1, <1>5, <2>1, <2>2, <3>2, <3>3 DEF InOrder, Rising
  <2> QED BY <1>1, <1>2, <1>3, <2>2, <2>4, <2>6 DEF e
<1> QED BY <1>6, <1>7

\* No event changes its place.
SamePlaces ==
  UNCHANGED <<emitted, dropped, fates>> /\ InBatch' = InBatch /\ Queued' = Queued

LEMMA CallerStays ==
  ASSUME LedgerInv, NEW c \in Callers,
         EmitCheck(c) \/ EmitAssign(c) \/ EmitStart(c) \/ ClosePut(c) \/ CloseJoin(c)
  PROVE  OnePlace' /\ InOrder' /\ SamePlaces
<1>1. /\ BatchesKept /\ InBatch' = InBatch
      /\ raced' \in BOOLEAN /\ (raced => raced')
  <2>1. Caller(c)
    BY DEF Caller
  <2> QED BY <2>1, CallerKeepsBatches, KeptBatches
<1>2. UNCHANGED <<emitted, dropped, fates>>
  BY DEF EmitCheck, EmitAssign, EmitStart, ClosePut, CloseJoin
<1>3. Queued' = Queued /\ QueueInOrder'
  <2>1. queue \in Seq(Nat) /\ QueueInOrder
    BY DEF LedgerInv, SinkInv, SinkType, InOrder, QueueInOrder
  <2>2. CASE queue' = queue
    BY <2>1, <2>2 DEF Queued, QueueInOrder
  <2>3. CASE queue' = Append(queue, Stop)
    <3>1. Stop \in Nat
      BY DEF Stop
    <3>2. Range(queue') = Range(queue) \cup {Stop}
      BY <2>1, <2>3, <3>1, RangeOfAppend
    <3>3. /\ Len(queue) \in Nat /\ Len(queue') = Len(queue) + 1
          /\ \A j \in 1..Len(queue) : queue'[j] = queue[j]
          /\ queue'[Len(queue) + 1] = Stop
      BY <2>1, <2>3, <3>1, AppendProperties, LenProperties
    <3> SUFFICES ASSUME NEW j \in 1..Len(queue'), NEW k \in 1..Len(queue'), j < k,
                        queue'[j] # Stop, queue'[k] # Stop
                 PROVE  queue'[j] < queue'[k]
      BY <3>2 DEF QueueInOrder, Queued
    <3>4. j \in 1..Len(queue) /\ k \in 1..Len(queue)
      BY <3>3
    <3> QED BY <2>1, <3>3, <3>4 DEF QueueInOrder
  <2> QED BY <2>2, <2>3 DEF EmitCheck, EmitAssign, EmitStart, ClosePut, CloseJoin
<1> QED BY <1>1, <1>2, <1>3, QuietKeeps DEF SamePlaces

\* Where a background thread is before and after its step.
LEMMA WorkerContext ==
  ASSUME LedgerInv, NEW w \in DOMAIN workers
  PROVE  /\ SinkType /\ OnePlace /\ InOrder /\ QueueInOrder /\ BatchAtWork
         /\ w \in 1..Len(workers) /\ workers[w] \in [phase : Phases, batch : Seq(Nat)]
         /\ queue \in Seq(Nat) /\ raced \in BOOLEAN
<1>1. SinkType /\ OnePlace /\ InOrder /\ BatchAtWork
  BY DEF LedgerInv, SinkInv
<1>2. workers \in Seq([phase : Phases, batch : Seq(Nat)]) /\ queue \in Seq(Nat) /\ raced \in BOOLEAN
  BY <1>1 DEF SinkType
<1>3. w \in 1..Len(workers)
  BY <1>2, LenProperties
<1>4. workers[w] \in [phase : Phases, batch : Seq(Nat)]
  BY <1>2, <1>3, ElementOfSeq
<1> QED BY <1>1, <1>2, <1>3, <1>4 DEF InOrder, QueueInOrder

\* A thread starts, goes idle, takes the stop mark, or ends.
LEMMA WorkerStays ==
  ASSUME LedgerInv, NEW w \in DOMAIN workers,
         \/ Open(w) \/ Idle(w) \/ Exit(w)
         \/ Get(w) /\ Head(queue) = Stop
         \/ Drain(w) /\ (queue # <<>> => Head(queue) = Stop)
  PROVE  OnePlace' /\ InOrder' /\ BatchAtWork' /\ SamePlaces
<1>1. /\ SinkType /\ InOrder /\ QueueInOrder /\ BatchAtWork
      /\ workers[w] \in [phase : Phases, batch : Seq(Nat)]
      /\ queue \in Seq(Nat) /\ raced \in BOOLEAN
  BY WorkerContext
<1>2. UNCHANGED <<emitted, dropped, fates, raced>>
  BY DEF Open, Idle, Exit, Get, Drain, fates, Stop
<1>3. /\ queue' = queue \/ (queue # <<>> /\ queue' = Tail(queue) /\ Head(queue) = Stop)
  BY DEF Open, Idle, Exit, Get, Drain
<1>4. Queued' = Queued /\ QueueInOrder'
  <2>1. CASE queue' = queue
    BY <1>1, <2>1 DEF Queued, QueueInOrder
  <2>2. CASE queue # <<>> /\ queue' = Tail(queue) /\ Head(queue) = Stop
    BY <1>1, <2>2, HeadOfQueue
  <2> QED BY <1>3, <2>1, <2>2
<1>5. BatchesKept /\ BatchAtWork'
  <2>1. CASE workers' = workers
    BY <1>1, <2>1 DEF BatchesKept, BatchAtWork
  <2>2. ASSUME NEW p, MoveTo(w, p),
               workers[w].phase \in {"running", "posting", "last"} => p \in {"running", "posting", "last"}
        PROVE  BatchesKept /\ BatchAtWork'
    <3>1. BatchesKept
      BY <1>1, <2>2, MoveKeepsBatches
    <3>2. /\ DOMAIN workers' = DOMAIN workers /\ workers'[w].phase = p
          /\ \A v \in DOMAIN workers : v # w => workers'[v] = workers[v]
      BY <1>1, <2>2 DEF MoveTo, SinkType
    <3>3. BatchAtWork'
      BY <1>1, <2>2, <3>1, <3>2 DEF BatchAtWork, BatchesKept
    <3> QED BY <3>1, <3>3
  <2>3. CASE Open(w) \/ Idle(w) \/ Exit(w)
    BY <2>2, <2>3 DEF Open, Idle, Exit
  <2>4. CASE Get(w) /\ Head(queue) = Stop
    BY <2>2, <2>4 DEF Get
  <2>5. CASE Drain(w)
    BY <2>1, <2>2, <2>5 DEF Drain
  <2> QED BY <2>3, <2>4, <2>5
<1>6. InBatch' = InBatch
  BY <1>5, KeptBatches
<1>7. raced' \in BOOLEAN /\ (raced => raced')
  BY <1>1, <1>2
<1>8. OnePlace' /\ InOrder'
  BY <1>2, <1>4, <1>5, <1>7, QuietKeeps
<1> QED BY <1>2, <1>4, <1>5, <1>6, <1>8 DEF SamePlaces

\* The least event of the queue.
LeastQueued(h) == h \in Queued /\ Queued' = Queued \ {h} /\ \A e \in Queued' : h < e

\* A thread takes the first event into its batch.
LEMMA GetPlaces ==
  ASSUME LedgerInv, NEW w \in DOMAIN workers, Get(w), Head(queue) # Stop
  PROVE  /\ OnePlace' /\ InOrder' /\ BatchAtWork'
         /\ LeastQueued(Head(queue))
         /\ InBatch' = InBatch \cup {Head(queue)}
         /\ UNCHANGED <<emitted, raced, received, Lost>>
<1>1. /\ SinkType /\ OnePlace /\ InOrder /\ BatchAtWork
      /\ workers[w] \in [phase : Phases, batch : Seq(Nat)]
      /\ queue \in Seq(Nat) /\ raced \in BOOLEAN
  BY WorkerContext
<1>2. UNCHANGED <<emitted, raced, dropped, received, failed, drained>>
  BY DEF Get, fates
<1> DEFINE h == Head(queue)
           b == workers[w].batch
<1>3. LeastQueued(h) /\ QueueInOrder' /\ h \in Nat
  BY <1>1, HeadOfQueue DEF Get, LeastQueued
<1>4. PICK p \in {"posting", "running"} : workers' = [workers EXCEPT ![w] = [phase |-> p, batch |-> Append(b, h)]]
  BY DEF Get
<1> HIDE DEF h
<1>5. b \in Seq(Nat) /\ Append(b, h) \in Seq(Nat) /\ Range(Append(b, h)) = Batch(w) \cup {h}
  BY <1>1, <1>3, AppendProperties, RangeOfAppend DEF Batch
<1> DEFINE r == [phase |-> p, batch |-> Append(b, h)]
<1>6. r \in [phase : Phases, batch : Seq(Nat)] /\ r.batch = Append(b, h) /\ r.phase = p
  BY <1>5 DEF Phases
<1>7. workers' = [workers EXCEPT ![w] = r]
  BY <1>4
<1> HIDE DEF r, b
<1>8. /\ DOMAIN workers' = DOMAIN workers
      /\ workers'[w] = r /\ Batch(w)' = Batch(w) \cup {h}
      /\ \A v \in DOMAIN workers \ {w} : workers'[v] = workers[v] /\ Batch(v)' = Batch(v)
      /\ InBatch' = InBatch \cup {h}
  <2>1. /\ DOMAIN workers' = DOMAIN workers
        /\ workers'[w] = r /\ Batch(w)' = Range(r.batch)
        /\ \A v \in DOMAIN workers \ {w} : workers'[v] = workers[v] /\ Batch(v)' = Batch(v)
        /\ \A e : e \in InBatch <=> e \in Batch(w) \/ \E v \in DOMAIN workers \ {w} : e \in Batch(v)
        /\ \A e : e \in InBatch' <=> e \in Range(r.batch) \/ \E v \in DOMAIN workers \ {w} : e \in Batch(v)
    BY <1>1, <1>6, <1>7, BatchReplaced
  <2>2. Range(r.batch) = Batch(w) \cup {h}
    BY <1>5, <1>6
  <2> QED BY <2>1, <2>2
<1>9. UNCHANGED <<emitted, raced, received, Lost>> /\ Taken' = Taken \cup {h}
  BY <1>2, <1>8 DEF Lost, Taken
<1>10. h \notin InBatch /\ \A v \in DOMAIN workers : h \notin Batch(v)
  BY <1>1, <1>3 DEF OnePlace, LeastQueued, InBatch
<1>11. OnePlace'
  <2>1. emitted' \in 0..MaxEvents
    BY <1>1, <1>9 DEF OnePlace
  <2>2. 1..emitted' = Range(received') \cup Lost' \cup InBatch' \cup Queued'
    BY <1>1, <1>3, <1>8, <1>9 DEF OnePlace, LeastQueued
  <2>3. Range(received') \cap Lost' = {}
    BY <1>1, <1>9 DEF OnePlace
  <2>4. InBatch' \cap (Range(received') \cup Lost') = {}
    BY <1>1, <1>3, <1>8, <1>9 DEF OnePlace, LeastQueued
  <2>5. Queued' \cap (Range(received') \cup Lost' \cup InBatch') = {}
    BY <1>1, <1>3, <1>8, <1>9 DEF OnePlace, LeastQueued
  <2>6. \A u, v \in DOMAIN workers' : u # v => Batch(u)' \cap Batch(v)' = {}
    BY <1>1, <1>8, <1>10 DEF OnePlace
  <2> QED BY <2>1, <2>2, <2>3, <2>4, <2>5, <2>6 DEF OnePlace
<1>12. InOrder'
  <2>1. \A d \in Taken', e \in Queued' : d < e
    BY <1>1, <1>3, <1>9 DEF InOrder, LeastQueued
  <2>2. \A d \in Taken : d < h
    BY <1>1, <1>3 DEF InOrder, LeastQueued
  <2>3. Batch(w) \subseteq Taken /\ Range(received) \subseteq Taken
    BY DEF Taken, InBatch
  <2>4. Rising(Append(b, h))
    BY <1>1, <1>3, <1>5, <2>2, <2>3, RisingAppend DEF InOrder, Batch, b
  <2>5. \A v \in DOMAIN workers' : Rising(workers'[v].batch)
    BY <1>1, <1>6, <1>8, <2>4 DEF InOrder
  <2>6. ~raced' => Rising(received') /\ \A d \in Range(received'), e \in InBatch' : d < e
    BY <1>1, <1>8, <1>9, <2>2, <2>3 DEF InOrder
  <2> QED BY <1>3, <2>1, <2>5, <2>6 DEF InOrder, QueueInOrder, Rising
<1>13. BatchAtWork'
  BY <1>1, <1>6, <1>8 DEF BatchAtWork
<1> QED BY <1>3, <1>8, <1>9, <1>11, <1>12, <1>13 DEF h

\* A thread that ends empties the first event out.
LEMMA DrainPlaces ==
  ASSUME LedgerInv, NEW w \in DOMAIN workers, Drain(w), queue # <<>>, Head(queue) # Stop
  PROVE  /\ OnePlace' /\ InOrder' /\ BatchAtWork'
         /\ LeastQueued(Head(queue))
         /\ Lost' = Lost \cup {Head(queue)}
         /\ UNCHANGED <<emitted, raced, received, InBatch>>
<1>1. SinkType /\ OnePlace /\ InOrder /\ BatchAtWork
  BY WorkerContext
<1> DEFINE h == Head(queue)
<1>2. /\ UNCHANGED <<emitted, raced, dropped, received, failed, workers>>
      /\ drained' = drained \cup {h}
  BY DEF Drain
<1>3. LeastQueued(h) /\ QueueInOrder'
  BY <1>1, HeadOfQueue DEF Drain, LeastQueued
<1> HIDE DEF h
<1>4. /\ BatchesKept /\ InBatch' = InBatch /\ BatchAtWork'
      /\ \A v \in DOMAIN workers : Batch(v)' = Batch(v)
  <2>1. BatchesKept /\ BatchAtWork'
    BY <1>1, <1>2 DEF BatchesKept, BatchAtWork
  <2> QED BY <2>1, KeptBatches
<1>5. Lost' = Lost \cup {h} /\ Taken' = Taken \cup {h}
  BY <1>2, <1>4 DEF Lost, Taken
<1>6. OnePlace'
  <2>1. emitted' \in 0..MaxEvents
    BY <1>1, <1>2 DEF OnePlace
  <2>2. 1..emitted' = Range(received') \cup Lost' \cup InBatch' \cup Queued'
    BY <1>1, <1>2, <1>3, <1>4, <1>5 DEF OnePlace, LeastQueued
  <2>3. Range(received') \cap Lost' = {}
    BY <1>1, <1>2, <1>3, <1>5 DEF OnePlace, LeastQueued
  <2>4. InBatch' \cap (Range(received') \cup Lost') = {}
    BY <1>1, <1>2, <1>3, <1>4, <1>5 DEF OnePlace, LeastQueued
  <2>5. Queued' \cap (Range(received') \cup Lost' \cup InBatch') = {}
    BY <1>1, <1>2, <1>3, <1>4, <1>5 DEF OnePlace, LeastQueued
  <2>6. \A u, v \in DOMAIN workers' : u # v => Batch(u)' \cap Batch(v)' = {}
    BY <1>1, <1>2, <1>4 DEF OnePlace
  <2> QED BY <2>1, <2>2, <2>3, <2>4, <2>5, <2>6 DEF OnePlace
<1>7. InOrder'
  <2>1. \A d \in Taken', e \in Queued' : d < e
    BY <1>1, <1>3, <1>5 DEF InOrder, LeastQueued
  <2>2. \A v \in DOMAIN workers' : Rising(workers'[v].batch)
    BY <1>1, <1>2 DEF InOrder
  <2>3. ~raced' => Rising(received') /\ \A d \in Range(received'), e \in InBatch' : d < e
    BY <1>1, <1>2, <1>4 DEF InOrder
  <2> QED BY <1>3, <2>1, <2>2, <2>3 DEF InOrder, QueueInOrder, Rising
<1> QED BY <1>2, <1>3, <1>4, <1>5, <1>6, <1>7 DEF h

\* A thread posts its batch, in the order of emit(), and all of it arrives or is lost; as
\* long as calls do not overlap no other thread holds anything.
LEMMA FlushPlaces ==
  ASSUME LedgerInv, NEW w \in DOMAIN workers, Flush(w)
  PROVE  /\ OnePlace' /\ InOrder' /\ BatchAtWork'
         /\ Batch(w) \subseteq InBatch /\ InBatch' = InBatch \ Batch(w)
         /\ ~raced => Batch(w) = InBatch
         /\ \/ received' = received \o workers[w].batch /\ Lost' = Lost
            \/ received' = received /\ Lost' = Lost \cup Batch(w)
         /\ received' \in Seq(Nat)
         /\ UNCHANGED <<emitted, raced, queue>>
<1>1. /\ SinkType /\ OnePlace /\ InOrder /\ QueueInOrder /\ BatchAtWork
      /\ w \in 1..Len(workers) /\ workers[w] \in [phase : Phases, batch : Seq(Nat)]
      /\ raced \in BOOLEAN
  BY WorkerContext
<1>2. UNCHANGED <<emitted, raced, dropped, drained, queue>> /\ received \in Seq(Nat)
  BY DEF Flush, LedgerInv
<1> DEFINE b == workers[w].batch
<1>3. b \in Seq(Nat) /\ DOMAIN b = 1..Len(b) /\ Range(b) = Batch(w) /\ Rising(b)
  BY <1>1, LenProperties DEF InOrder, Batch
<1>4. \/ received' = received \o b /\ failed' = failed
      \/ received' = received /\ failed' = failed \cup Batch(w)
  <2>1. {b[k] : k \in DOMAIN b} = Batch(w)
    BY DEF Batch, Range
  <2> QED BY <2>1 DEF Flush, Posted
<1>5. PICK p \in {"running", "draining"} : workers' = [workers EXCEPT ![w] = [phase |-> p, batch |-> <<>>]]
  BY DEF Flush
<1> DEFINE r == [phase |-> p, batch |-> <<>>]
<1>6. r \in [phase : Phases, batch : Seq(Nat)] /\ r.batch = <<>> /\ Range(r.batch) = {}
  BY RangeOfEmpty DEF Phases
<1>7. workers' = [workers EXCEPT ![w] = r]
  BY <1>5
<1> HIDE DEF r, b
<1>8. /\ DOMAIN workers' = DOMAIN workers
      /\ workers'[w] = r /\ Batch(w)' = {}
      /\ \A v \in DOMAIN workers \ {w} : workers'[v] = workers[v] /\ Batch(v)' = Batch(v)
      /\ Batch(w) \subseteq InBatch /\ InBatch' = InBatch \ Batch(w)
  <2>1. /\ DOMAIN workers' = DOMAIN workers
        /\ workers'[w] = r /\ Batch(w)' = Range(r.batch)
        /\ \A v \in DOMAIN workers \ {w} : workers'[v] = workers[v] /\ Batch(v)' = Batch(v)
        /\ \A e : e \in InBatch <=> e \in Batch(w) \/ \E v \in DOMAIN workers \ {w} : e \in Batch(v)
        /\ \A e : e \in InBatch' <=> e \in Range(r.batch) \/ \E v \in DOMAIN workers \ {w} : e \in Batch(v)
    BY <1>1, <1>6, <1>7, BatchReplaced
  <2>2. \A v \in DOMAIN workers \ {w} : Batch(v) \cap Batch(w) = {}
    BY <1>1 DEF OnePlace
  <2>3. InBatch' = InBatch \ Batch(w) /\ Batch(w) \subseteq InBatch
    BY <1>6, <2>1, <2>2
  <2> QED BY <1>6, <2>1, <2>3
<1>9. ~raced => Batch(w) = InBatch
  <2> SUFFICES ASSUME ~raced, NEW v \in DOMAIN workers, v # w PROVE Batch(v) = {}
    BY <1>8 DEF InBatch
  <2>1. Alone /\ Worker(w) /\ DOMAIN workers = 1..Len(workers)
    BY <1>1, LenProperties DEF LedgerInv, SinkInv, SinkType, Worker
  <2>2. Alive(w)
    BY <1>1, <2>1, WorkerMoves
  <2>3. w = thread
    BY <1>1, <2>1, <2>2 DEF Alone, Alive
  <2>4. workers[v].phase = "dead"
    BY <2>1, <2>3 DEF Alone
  <2>5. workers[v].batch = <<>>
    BY <1>1, <2>4 DEF BatchAtWork
  <2> QED BY <2>5, RangeOfEmpty DEF Batch
<1>10. /\ Taken' = Taken /\ Queued' = Queued
       /\ \/ received' = received \o b /\ Range(received') = Range(received) \cup Batch(w) /\ Lost' = Lost
          \/ received' = received /\ Lost' = Lost \cup Batch(w)
  <2>1. Queued' = Queued
    BY <1>2 DEF Queued
  <2>2. CASE received' = received \o b /\ failed' = failed
    <3>1. Range(received') = Range(received) \cup Batch(w)
      BY <1>2, <1>3, <2>2, RangeConcatenation
    <3> QED BY <1>2, <1>8, <2>1, <2>2, <3>1 DEF Lost, Taken
  <2>3. CASE received' = received /\ failed' = failed \cup Batch(w)
    BY <1>2, <1>8, <2>1, <2>3 DEF Lost, Taken
  <2> QED BY <1>4, <2>2, <2>3
<1>11. OnePlace'
  <2>1. emitted' \in 0..MaxEvents
    BY <1>1, <1>2 DEF OnePlace
  <2>2. 1..emitted' = Range(received') \cup Lost' \cup InBatch' \cup Queued'
    BY <1>1, <1>2, <1>8, <1>10 DEF OnePlace
  <2>3. Range(received') \cap Lost' = {}
    BY <1>1, <1>8, <1>10 DEF OnePlace
  <2>4. InBatch' \cap (Range(received') \cup Lost') = {}
    BY <1>1, <1>8, <1>10 DEF OnePlace
  <2>5. Queued' \cap (Range(received') \cup Lost' \cup InBatch') = {}
    BY <1>1, <1>8, <1>10 DEF OnePlace
  <2>6. \A u, v \in DOMAIN workers' : u # v => Batch(u)' \cap Batch(v)' = {}
    BY <1>1, <1>8 DEF OnePlace
  <2> QED BY <2>1, <2>2, <2>3, <2>4, <2>5, <2>6 DEF OnePlace
<1>12. InOrder'
  <2>1. \A d \in Taken', e \in Queued' : d < e
    BY <1>1, <1>10 DEF InOrder
  <2>2. \A v \in DOMAIN workers' : Rising(workers'[v].batch)
    <3>1. Rising(<<>>)
      BY EmptySeq DEF Rising
    <3> QED BY <1>1, <1>6, <1>8, <3>1 DEF InOrder
  <2>3. ASSUME ~raced' PROVE Rising(received') /\ \A d \in Range(received'), e \in InBatch' : d < e
    <3>1. ~raced /\ InBatch' = {} /\ Rising(received)
      BY <1>1, <1>2, <1>8, <1>9, <2>3 DEF InOrder
    <3>2. \A d \in Range(received), e \in Batch(w) : d < e
      BY <1>1, <1>8, <3>1 DEF InOrder
    <3>3. Rising(received')
      BY <1>2, <1>3, <1>10, <3>1, <3>2, RisingConcat
    <3> QED BY <3>1, <3>3
  <2> QED BY <1>1, <1>2, <2>1, <2>2, <2>3 DEF InOrder, QueueInOrder, Rising
<1>13. BatchAtWork'
  BY <1>1, <1>6, <1>8 DEF BatchAtWork
<1>14. received' \in Seq(Nat)
  BY <1>2, <1>3, <1>4, ConcatProperties
<1> QED BY <1>2, <1>8, <1>9, <1>10, <1>11, <1>12, <1>13, <1>14 DEF b

LEMMA LedgerInitially == Init => LedgerInv
<1> SUFFICES ASSUME Init PROVE LedgerInv
  OBVIOUS
<1>1. SinkInv
  BY SinkInit
<1>2. /\ workers = <<[phase |-> "starting", batch |-> <<>>]>> /\ DOMAIN workers = {1}
      /\ workers[1].batch = <<>> /\ emitted = 0 /\ queue = <<>>
      /\ received = <<>> /\ received \in Seq(Nat)
      /\ dropped = {} /\ failed = {} /\ drained = {}
  BY DEF Init
<1>3. Range(received) = {} /\ Queued = {} /\ Lost = {}
  BY <1>2, RangeOfEmpty DEF Queued, Lost
<1>4. InBatch = {} /\ Taken = {}
  <2>1. \A w \in DOMAIN workers : Batch(w) = {}
    BY <1>2, RangeOfEmpty DEF Batch
  <2>2. InBatch = {}
    BY <2>1 DEF InBatch
  <2> QED BY <1>2, <1>3, <2>2 DEF Taken
<1>5. OnePlace
  <2>1. emitted \in 0..MaxEvents /\ 1..emitted = {}
    BY <1>2, SinkAssumption
  <2>2. \A v, w \in DOMAIN workers : v = w
    BY <1>2
  <2> QED BY <1>3, <1>4, <2>1, <2>2 DEF OnePlace
<1>6. InOrder
  <2>1. Rising(<<>>)
    BY EmptySeq DEF Rising
  <2>2. \A w \in DOMAIN workers : Rising(workers[w].batch)
    BY <1>2, <2>1
  <2>3. 1..Len(queue) = {}
    BY <1>2, EmptySeq
  <2> QED BY <1>2, <1>3, <1>4, <2>1, <2>2, <2>3 DEF InOrder
<1>7. BatchAtWork
  BY <1>2 DEF BatchAtWork
<1> QED BY <1>1, <1>2, <1>5, <1>6, <1>7 DEF LedgerInv

\* An event is in a thread's hands between two steps, one of which changes its place.
LEMMA WorkerCases ==
  ASSUME LedgerInv, NEW w \in DOMAIN workers, Worker(w)
  PROVE  \/ \/ Open(w) \/ Idle(w) \/ Exit(w)
            \/ Get(w) /\ Head(queue) = Stop
            \/ Drain(w) /\ (queue # <<>> => Head(queue) = Stop)
         \/ Get(w) /\ Head(queue) # Stop
         \/ Drain(w) /\ queue # <<>> /\ Head(queue) # Stop
         \/ Flush(w)
BY DEF Worker

LEMMA LedgerStep ==
  ASSUME LedgerInv, [Next]_vars
  PROVE  LedgerInv'
<1>1. SinkInv'
  BY SinkStep DEF LedgerInv
<1>2. CASE UNCHANGED vars
  <2>1. /\ OnePlace /\ InOrder /\ BatchAtWork /\ received \in Seq(Nat)
        /\ UNCHANGED <<workers, queue, emitted, dropped, received, failed, drained, raced>>
    BY <1>2 DEF LedgerInv, vars, fates
  <2>2. Lost' = Lost /\ InBatch' = InBatch /\ Queued' = Queued /\ Taken' = Taken
        /\ \A w \in DOMAIN workers : Batch(w)' = Batch(w)
    BY <2>1 DEF Lost, InBatch, Queued, Taken, Batch
  <2>3. OnePlace'
    BY <2>1, <2>2 DEF OnePlace
  <2>4. InOrder'
    BY <2>1, <2>2 DEF InOrder, Rising
  <2>5. BatchAtWork'
    BY <2>1 DEF BatchAtWork
  <2> QED BY <1>1, <2>1, <2>3, <2>4, <2>5 DEF LedgerInv
<1>3. ASSUME NEW c \in Callers, Caller(c) PROVE LedgerInv'
  <2>1. BatchAtWork' /\ received' = received /\ received \in Seq(Nat)
    BY <1>3, CallerKeepsBatches DEF LedgerInv
  <2>2. OnePlace' /\ InOrder'
    BY <1>3, PutPlaces, CallerStays DEF Caller
  <2> QED BY <1>1, <2>1, <2>2 DEF LedgerInv
<1>4. ASSUME NEW w \in DOMAIN workers, Worker(w) PROVE LedgerInv'
  <2>1. OnePlace' /\ InOrder' /\ BatchAtWork'
    BY <1>4, WorkerCases, WorkerStays, GetPlaces, DrainPlaces, FlushPlaces
  <2>2. received' \in Seq(Nat)
    <3>1. CASE Flush(w)
      BY <3>1, FlushPlaces
    <3>2. CASE ~Flush(w)
      BY <1>4, <3>2 DEF LedgerInv, Worker, Open, Idle, Exit, Get, Drain, fates
    <3> QED BY <3>1, <3>2
  <2> QED BY <1>1, <2>1, <2>2 DEF LedgerInv
<1> QED BY <1>2, <1>3, <1>4 DEF Next

\* Every event emitted is in exactly one place -- received, lost, in one thread's batch or
\* queued -- and what is not lost moves through them in the order of emit().
THEOREM LedgerInductive == Spec => []LedgerInv
<1>1. LedgerInv /\ [Next]_vars => LedgerInv'
  BY LedgerStep
<1> QED BY <1>1, LedgerInitially, PTL DEF Spec

-----------------------------------------------------------------------------
(* No event twice                                                          *)

Once(s) == \A j, k \in 1..Len(s) : s[j] = s[k] => j = k

\* Two sequences that share no element and have none twice.
LEMMA OnceConcat ==
  ASSUME NEW s \in Seq(Nat), NEW t \in Seq(Nat), Once(s), Once(t), Range(s) \cap Range(t) = {}
  PROVE  Once(s \o t)
<1>1. /\ Len(s) \in Nat /\ DOMAIN s = 1..Len(s) /\ Len(t) \in Nat /\ DOMAIN t = 1..Len(t)
      /\ Len(s \o t) = Len(s) + Len(t)
      /\ \A j \in 1..(Len(s) + Len(t)) :
           (s \o t)[j] = IF j <= Len(s) THEN s[j] ELSE t[j - Len(s)]
  BY ConcatProperties, LenProperties
<1>2. \A j \in 1..Len(s), k \in 1..Len(t) : s[j] # t[k]
  BY <1>1 DEF Range
<1> SUFFICES ASSUME NEW j \in 1..(Len(s) + Len(t)), NEW k \in 1..(Len(s) + Len(t)),
                    (s \o t)[j] = (s \o t)[k]
             PROVE  j = k
  BY <1>1 DEF Once
<1>3. CASE j <= Len(s) /\ k <= Len(s)
  <2>1. j \in 1..Len(s) /\ k \in 1..Len(s) /\ s[j] = s[k]
    BY <1>1, <1>3
  <2> QED BY <2>1 DEF Once
<1>4. CASE j > Len(s) /\ k > Len(s)
  <2>1. /\ j - Len(s) \in 1..Len(t) /\ k - Len(s) \in 1..Len(t)
        /\ t[j - Len(s)] = t[k - Len(s)]
    BY <1>1, <1>4
  <2>2. j - Len(s) = k - Len(s)
    BY <2>1 DEF Once
  <2> QED BY <1>1, <2>2
<1>5. ~(j <= Len(s) /\ k > Len(s))
  <2> SUFFICES ASSUME j <= Len(s), k > Len(s) PROVE FALSE
    OBVIOUS
  <2>1. j \in 1..Len(s) /\ k - Len(s) \in 1..Len(t) /\ s[j] = t[k - Len(s)]
    BY <1>1
  <2> QED BY <1>2, <2>1
<1>6. ~(k <= Len(s) /\ j > Len(s))
  <2> SUFFICES ASSUME k <= Len(s), j > Len(s) PROVE FALSE
    OBVIOUS
  <2>1. k \in 1..Len(s) /\ j - Len(s) \in 1..Len(t) /\ s[k] = t[j - Len(s)]
    BY <1>1
  <2> QED BY <1>2, <2>1
<1> QED BY <1>1, <1>3, <1>4, <1>5, <1>6

\* What rises has no element twice, here as the positions of an element.
LEMMA RisingOnce ==
  ASSUME NEW s \in Seq(Nat), Rising(s)
  PROVE  Once(s)
<1> SUFFICES ASSUME NEW j \in 1..Len(s), NEW k \in 1..Len(s), j # k PROVE s[j] # s[k]
  BY DEF Once
<1>1. Len(s) \in Nat /\ s[j] \in Nat /\ s[k] \in Nat /\ (j < k \/ k < j)
  BY LenProperties
<1>2. s[j] < s[k] \/ s[k] < s[j]
  BY <1>1 DEF Rising
<1> QED BY <1>1, <1>2

\* Only a flush appends to what was received, and it appends one thread's batch.
LEMMA OnceStep ==
  ASSUME LedgerInv, Once(received), [Next]_vars
  PROVE  Once(received')
<1>1. CASE received' = received
  BY <1>1 DEF Once
<1>2. ASSUME NEW w \in DOMAIN workers, Flush(w), received' # received PROVE Once(received')
  <2> DEFINE b == workers[w].batch
  <2>1. InOrder /\ workers[w] \in [phase : Phases, batch : Seq(Nat)]
    BY WorkerContext
  <2>2. b \in Seq(Nat) /\ Rising(b)
    BY <2>1 DEF InOrder
  <2>3. received' = received \o b
    BY <1>2 DEF Flush, Posted
  <2>4. Range(received) \cap Range(b) = {}
    BY DEF LedgerInv, OnePlace, InBatch, Batch
  <2>5. received \in Seq(Nat)
    BY DEF LedgerInv
  <2> HIDE DEF b
  <2> QED BY <2>2, <2>3, <2>4, <2>5, OnceConcat, RisingOnce
<1>3. ASSUME NEW c \in Callers, Caller(c) PROVE received' = received
  BY <1>3, CallerKeepsBatches DEF LedgerInv
<1>4. ASSUME NEW w \in DOMAIN workers, Worker(w), ~Flush(w) PROVE received' = received
  BY <1>4 DEF Worker, Open, Idle, Exit, Get, Drain, fates
<1>5. CASE UNCHANGED vars
  BY <1>1, <1>5 DEF vars, fates
<1> QED BY <1>1, <1>2, <1>3, <1>4, <1>5 DEF Next, Worker

\* The game receives no event twice, and none of those that were dropped, that failed or
\* that were emptied out, whatever calls of emit() and close() overlap and however many
\* threads are at the queue: a post that failed is not repeated (_flush), and no event is
\* in two batches.
THEOREM NoEventTwice == Spec => [](Once(received) /\ Range(received) \cap Lost = {})
<1>1. Init => Once(received)
  BY EmptySeq DEF Init, Once
<1>2. LedgerInv /\ Once(received) /\ [Next]_vars => Once(received')
  BY OnceStep
<1>3. Once(received') <=> Once(received)'
  BY DEF Once
<1>4. LedgerInv => Range(received) \cap Lost = {}
  BY DEF LedgerInv, OnePlace
<1> QED BY <1>1, <1>2, <1>3, <1>4, LedgerInductive, PTL DEF Spec

-----------------------------------------------------------------------------
(* The refinement                                                          *)

FatesKnown ==
  \A e \in Events :
    /\ e > emitted => FateOf(e) = "new"
    /\ e \in Range(received) => FateOf(e) = "received"
    /\ e \in Lost => FateOf(e) = "lost"
    /\ e \in InBatch => FateOf(e) = "held"
    /\ e \in Queued => FateOf(e) = "queued"
    /\ e <= emitted => e \in Range(received) \/ e \in Lost \/ e \in InBatch \/ e \in Queued

LEMMA FateIs == OnePlace => FatesKnown
<1> SUFFICES ASSUME OnePlace, NEW e \in Events
             PROVE  /\ e > emitted => FateOf(e) = "new"
                    /\ e \in Range(received) => FateOf(e) = "received"
                    /\ e \in Lost => FateOf(e) = "lost"
                    /\ e \in InBatch => FateOf(e) = "held"
                    /\ e \in Queued => FateOf(e) = "queued"
                    /\ e <= emitted => \/ e \in Range(received) \/ e \in Lost
                                       \/ e \in InBatch \/ e \in Queued
  BY DEF FatesKnown
<1>1. e \in Nat /\ e # Stop /\ emitted \in Nat /\ (e > emitted <=> e \notin 1..emitted)
  BY SinkAssumption DEF OnePlace, Events, Stop
<1>2. (Held(e) <=> e \in InBatch) /\ (e \in Range(queue) <=> e \in Queued)
  BY <1>1 DEF Held, InBatch, Batch, Queued
<1>3. e \in dropped \cup failed \cup drained <=> e \in Lost
  BY DEF Lost
<1>4. e \notin 1..emitted => /\ e \notin Range(received) /\ e \notin Lost
                             /\ e \notin InBatch /\ e \notin Queued
  BY DEF OnePlace
<1>5. e \in 1..emitted => e \in Range(received) \/ e \in Lost \/ e \in InBatch \/ e \in Queued
  BY DEF OnePlace
<1>6. /\ e \in Lost => e \notin Range(received)
      /\ e \in InBatch => e \notin Range(received) /\ e \notin Lost
      /\ e \in Queued => e \notin Range(received) /\ e \notin Lost /\ e \notin InBatch
  BY DEF OnePlace
<1> QED BY <1>1, <1>2, <1>3, <1>4, <1>5, <1>6 DEF FateOf

LEMMA FateIsNext == OnePlace' => FatesKnown'
BY FateIs, PTL

Fates == [e \in Events |-> FateOf(e)]

\* A step of the ledger, or none.
LedgerStepOrStutter == Sink!LedgerNext \/ UNCHANGED <<Fates, received, raced>>

LEMMA SameFates ==
  ASSUME OnePlace, OnePlace', SamePlaces, raced' \in BOOLEAN, raced => raced'
  PROVE  LedgerStepOrStutter
<1>1. FatesKnown /\ FatesKnown'
  BY FateIs, FateIsNext
<1>2. received' = received /\ emitted' = emitted /\ Lost' = Lost /\ InBatch' = InBatch /\ Queued' = Queued
  BY DEF SamePlaces, fates, Lost
<1>3. emitted \in Nat /\ Events \subseteq Nat
  BY SinkAssumption DEF OnePlace, Events
<1>4. ASSUME NEW e \in Events PROVE FateOf(e)' = FateOf(e)
  BY <1>1, <1>2, <1>3 DEF FatesKnown
<1>5. Fates' = Fates
  BY <1>4 DEF Fates
<1>6. Sink!LedgerNext
  BY <1>2, <1>5 DEF Sink!LedgerNext, Sink!Race, Fates
<1> QED BY <1>6 DEF LedgerStepOrStutter

\* One event moves on.
LEMMA OneFate ==
  ASSUME OnePlace, OnePlace', NEW e \in Events, NEW f,
         FateOf(e)' = f, \A d \in Events \ {e} : FateOf(d)' = FateOf(d), received' = received
  PROVE  Sink!Move(e, f)
<1>1. Fates' = [Fates EXCEPT ![e] = f]
  BY DEF Fates
<1> QED BY <1>1 DEF Sink!Move, Fates

LEMMA PutIsOffer ==
  ASSUME LedgerInv, NEW c \in Callers, EmitPut(c)
  PROVE  LedgerStepOrStutter
<1>1. /\ OnePlace /\ OnePlace' /\ FatesKnown /\ FatesKnown'
      /\ raced' \in BOOLEAN /\ (raced => raced')
  <2>1. OnePlace /\ OnePlace'
    BY PutPlaces DEF LedgerInv
  <2>2. Caller(c)
    BY DEF Caller
  <2> QED BY <2>1, <2>2, CallerKeepsBatches, FateIs, FateIsNext
<1>0. PICK e \in Events : e = emitted'
  BY PutPlaces
<1>2. e = emitted + 1 /\ emitted' = e /\ emitted \in Nat /\ Events \subseteq Nat
  BY <1>0, <1>1, PutPlaces, SinkAssumption DEF OnePlace, Events
<1>3. PICK f \in {"queued", "lost"} :
        /\ InBatch' = InBatch /\ received' = received
        /\ f = "queued" => Queued' = Queued \cup {e} /\ Lost' = Lost
        /\ f = "lost" => Queued' = Queued /\ Lost' = Lost \cup {e}
  BY <1>0, PutPlaces
<1>4. FateOf(e) = "new" /\ FateOf(e)' = f
  BY <1>1, <1>2, <1>3 DEF FatesKnown
<1>5. ASSUME NEW d \in Events \ {e} PROVE FateOf(d)' = FateOf(d)
  <2>1. d > emitted <=> d > e
    BY <1>2
  <2> QED BY <1>1, <1>2, <1>3, <2>1 DEF FatesKnown
<1>6. \A d \in Events : FateOf(d) = "new" => e <= d
  <2> SUFFICES ASSUME NEW d \in Events, FateOf(d) = "new" PROVE d > emitted
    BY <1>2
  <2> QED BY <1>1, <1>2 DEF FatesKnown
<1>7. Sink!Move(e, f)
  BY <1>1, <1>2, <1>3, <1>4, <1>5, OneFate
<1>8. Sink!Offer(e)
  BY <1>1, <1>2, <1>3, <1>4, <1>6, <1>7 DEF Sink!Offer, Sink!Having, Sink!Race
<1>9. Sink!LedgerNext
  BY <1>2, <1>8 DEF Sink!LedgerNext
<1> QED BY <1>9 DEF LedgerStepOrStutter

LEMMA GetIsTake ==
  ASSUME LedgerInv, OnePlace', NEW h \in Events, LeastQueued(h),
         UNCHANGED <<emitted, raced, received>>,
         \/ InBatch' = InBatch \cup {h} /\ Lost' = Lost
         \/ InBatch' = InBatch /\ Lost' = Lost \cup {h}
  PROVE  LedgerStepOrStutter
<1>1. OnePlace /\ FatesKnown /\ FatesKnown'
  BY FateIs, FateIsNext DEF LedgerInv
<1>2. emitted \in Nat /\ Events \subseteq Nat
  BY <1>1, SinkAssumption DEF OnePlace, Events
<1>3. h \in Queued /\ Queued' = Queued \ {h} /\ \A d \in Queued : h <= d
  BY <1>2 DEF LeastQueued
<1>4. PICK f \in {"held", "lost"} :
        /\ f = "held" => InBatch' = InBatch \cup {h} /\ Lost' = Lost
        /\ f = "lost" => InBatch' = InBatch /\ Lost' = Lost \cup {h}
  OBVIOUS
<1>5. FateOf(h) = "queued" /\ FateOf(h)' = f
  BY <1>1, <1>3, <1>4 DEF FatesKnown
<1>6. ASSUME NEW d \in Events \ {h} PROVE FateOf(d)' = FateOf(d)
  BY <1>1, <1>2, <1>3, <1>4 DEF FatesKnown
<1>7. \A d \in Events : FateOf(d) = "queued" => h <= d
  <2> SUFFICES ASSUME NEW d \in Events, FateOf(d) = "queued" PROVE d \in Queued
    BY <1>3
  <2> QED BY <1>1, <1>2 DEF FatesKnown
<1>8. Sink!Move(h, f)
  BY <1>1, <1>4, <1>5, <1>6, OneFate
<1>9. Sink!Take(h)
  BY <1>4, <1>5, <1>7, <1>8 DEF Sink!Take, Sink!Having
<1>10. Sink!LedgerNext
  BY <1>9 DEF Sink!LedgerNext
<1> QED BY <1>10 DEF LedgerStepOrStutter

LEMMA ConcatParts ==
  ASSUME NEW s \in Seq(Nat), NEW t \in Seq(Nat)
  PROVE  /\ Len(s \o t) = Len(s) + Len(t)
         /\ SubSeq(s \o t, 1, Len(s)) = s
         /\ {(s \o t)[k] : k \in (Len(s) + 1)..Len(s \o t)} = Range(t)
<1>1. /\ Len(s) \in Nat /\ Len(t) \in Nat /\ DOMAIN t = 1..Len(t) /\ s \o t \in Seq(Nat)
      /\ Len(s \o t) = Len(s) + Len(t)
      /\ \A j \in 1..(Len(s) + Len(t)) : (s \o t)[j] = IF j <= Len(s) THEN s[j] ELSE t[j - Len(s)]
  BY ConcatProperties, LenProperties
<1>2. SubSeq(s \o t, 1, Len(s)) = s
  <2>1. \A j \in 1..Len(s) : (s \o t)[j] = s[j] /\ s[j] \in Nat
    BY <1>1, ElementOfSeq
  <2>2. /\ SubSeq(s \o t, 1, Len(s)) \in Seq(Nat)
        /\ Len(SubSeq(s \o t, 1, Len(s))) = IF 1 <= Len(s) THEN Len(s) - 1 + 1 ELSE 0
        /\ \A j \in 1..(Len(s) - 1 + 1) : SubSeq(s \o t, 1, Len(s))[j] = (s \o t)[1 + j - 1]
    <3>1. \A j \in 1..Len(s) : (s \o t)[j] \in Nat
      BY <2>1
    <3>2. 1 \in Int /\ Len(s) \in Int
      BY <1>1
    <3> QED BY <3>1, <3>2, SubSeqProperties
  <2>3. Len(SubSeq(s \o t, 1, Len(s))) = Len(s)
    BY <1>1, <2>2
  <2>4. \A j \in 1..Len(s) : SubSeq(s \o t, 1, Len(s))[j] = s[j]
    <3> SUFFICES ASSUME NEW j \in 1..Len(s) PROVE SubSeq(s \o t, 1, Len(s))[j] = s[j]
      OBVIOUS
    <3>1. j \in 1..(Len(s) - 1 + 1) /\ 1 + j - 1 = j
      BY <1>1
    <3> QED BY <2>1, <2>2, <3>1
  <2> QED BY <2>2, <2>3, <2>4, SeqEqual
<1>3. \A k \in (Len(s) + 1)..Len(s \o t) : k - Len(s) \in 1..Len(t) /\ (s \o t)[k] = t[k - Len(s)]
  BY <1>1
<1>4. \A j \in 1..Len(t) : Len(s) + j \in (Len(s) + 1)..Len(s \o t) /\ (s \o t)[Len(s) + j] = t[j]
  BY <1>1
<1> DEFINE W == (Len(s) + 1)..Len(s \o t)
<1>5. {(s \o t)[k] : k \in W} = Range(t)
  <2>1. \A k \in W : (s \o t)[k] \in Range(t)
    BY <1>1, <1>3 DEF Range
  <2>2. ASSUME NEW e \in Range(t) PROVE \E k \in W : (s \o t)[k] = e
    <3>1. PICK j \in 1..Len(t) : e = t[j]
      BY <1>1 DEF Range
    <3> QED BY <1>4, <3>1
  <2> HIDE DEF W
  <2> QED BY <2>1, <2>2
<1> QED BY <1>1, <1>2, <1>5

LEMMA FlushIsPost ==
  ASSUME LedgerInv, NEW w \in DOMAIN workers, Flush(w)
  PROVE  LedgerStepOrStutter
<1> DEFINE b == workers[w].batch
<1>1. /\ OnePlace /\ OnePlace' /\ FatesKnown /\ FatesKnown' /\ InOrder'
      /\ Batch(w) \subseteq InBatch /\ InBatch' = InBatch \ Batch(w) /\ Queued' = Queued
      /\ ~raced => Batch(w) = InBatch
      /\ \/ received' = received \o b /\ Lost' = Lost
         \/ received' = received /\ Lost' = Lost \cup Batch(w)
      /\ UNCHANGED <<emitted, raced>>
  <2>1. OnePlace /\ OnePlace'
    BY FlushPlaces DEF LedgerInv
  <2>2. Queued' = Queued
    BY FlushPlaces DEF Queued
  <2> QED BY <2>1, <2>2, FlushPlaces, FateIs, FateIsNext
<1>2. /\ b \in Seq(Nat) /\ received \in Seq(Nat) /\ Range(b) = Batch(w) /\ Rising(b)
      /\ emitted \in Nat /\ emitted <= MaxEvents /\ Events \subseteq Nat /\ 1..emitted \subseteq Events
  <2>1. b \in Seq(Nat) /\ InOrder /\ OnePlace
    BY WorkerContext
  <2>2. emitted \in 0..MaxEvents /\ MaxEvents \in Nat
    BY <2>1, SinkAssumption DEF OnePlace
  <2>3. emitted \in Nat /\ emitted <= MaxEvents /\ Events \subseteq Nat /\ 1..emitted \subseteq Events
    BY <2>2 DEF Events
  <2>4. received \in Seq(Nat) /\ Range(b) = Batch(w) /\ Rising(b)
    BY <2>1 DEF LedgerInv, Batch, InOrder
  <2> QED BY <2>1, <2>3, <2>4
<1> HIDE DEF b
<1>3. PICK S \in SUBSET Events : S = Batch(w)
  <2>1. Batch(w) \subseteq 1..emitted
    BY <1>1 DEF OnePlace
  <2> QED BY <1>2, <2>1
<1>4. \A e \in Events : FateOf(e) = "held" <=> e \in InBatch
  BY <1>1, <1>2 DEF FatesKnown
<1>5. S \subseteq Sink!Having("held") /\ (~raced => S = Sink!Having("held"))
  <2>1. InBatch \subseteq Events
    BY <1>1, <1>2 DEF OnePlace
  <2>2. Sink!Having("held") = InBatch
    BY <1>4, <2>1 DEF Sink!Having
  <2> QED BY <1>1, <1>3, <2>2
<1>6. CASE S = {}
  <2>1. Len(b) = 0
    BY <1>2, <1>3, <1>6, RisingCounts, FS_EmptySet
  <2>2. b = <<>>
    BY <1>2, <2>1, EmptySeq
  <2>3. received' = received /\ Lost' = Lost /\ InBatch' = InBatch
    BY <1>1, <1>2, <1>3, <1>6, <2>2, ConcatEmptySeq
  <2>4. ASSUME NEW e \in Events PROVE FateOf(e)' = FateOf(e)
    BY <1>1, <1>2, <2>3 DEF FatesKnown
  <2>5. Fates' = Fates
    BY <2>4 DEF Fates
  <2> QED BY <1>1, <2>3, <2>5 DEF LedgerStepOrStutter
<1>7. CASE S # {} /\ received' = received \o b /\ Lost' = Lost
  <2>1. Range(received') = Range(received) \cup S
    BY <1>2, <1>3, <1>7, RangeConcatenation
  <2>2. ASSUME NEW e \in Events
        PROVE  FateOf(e)' = IF e \in S THEN "received" ELSE FateOf(e)
    <3>1. /\ InBatch' = InBatch \ S /\ Queued' = Queued /\ Lost' = Lost /\ emitted' = emitted
          /\ FatesKnown /\ FatesKnown'
      BY <1>1, <1>3, <1>7
    <3>2. CASE e \in S
      BY <2>1, <3>1, <3>2 DEF FatesKnown
    <3>3. CASE e \notin S
      BY <1>2, <2>1, <3>1, <3>3 DEF FatesKnown
    <3> QED BY <3>2, <3>3
  <2>3. Fates' = [e \in Events |-> IF e \in S THEN "received" ELSE Fates[e]]
    BY <2>2 DEF Fates
  <2>4. Sink!Posted(S, "received")
    BY <1>1, <1>5, <1>7, <2>3 DEF Sink!Posted, Fates
  <2>5. /\ Len(received') = Len(received) + Cardinality(S)
        /\ SubSeq(received', 1, Len(received)) = received
        /\ {received'[k] : k \in (Len(received) + 1)..Len(received')} = S
    <3>1. Cardinality(S) = Len(b)
      BY <1>2, <1>3, RisingCounts
    <3>2. /\ Len(received \o b) = Len(received) + Len(b)
          /\ SubSeq(received \o b, 1, Len(received)) = received
          /\ {(received \o b)[k] : k \in (Len(received) + 1)..Len(received \o b)} = Range(b)
      BY <1>2, ConcatParts, Zenon
    <3>3. received' = received \o b /\ Range(b) = S
      BY <1>2, <1>3, <1>7
    <3> QED BY <3>1, <3>2, <3>3, Zenon
  <2>6. ~raced => \A j, k \in DOMAIN received' : j < k => received'[j] < received'[k]
    <3>1. received' \in Seq(Nat)
      BY FlushPlaces
    <3>2. DOMAIN received' = 1..Len(received')
      BY <3>1
    <3> QED BY <1>1, <3>2 DEF InOrder, Rising
  <2>7. Sink!Receive(S)
    <3>1. Sink!Cardinality(S) = Cardinality(S)
      BY DEF Sink!Cardinality, Cardinality
    <3>2. Len(received') = Len(received) + Sink!Cardinality(S)
      BY <2>5, <3>1
    <3> QED BY <2>4, <2>5, <2>6, <3>2, Zenon DEF Sink!Receive
  <2>8. Sink!LedgerNext
    <3>1. \E T \in SUBSET Events : Sink!Receive(T) \/ Sink!Fail(T)
      BY <2>7
    <3> QED BY <3>1 DEF Sink!LedgerNext
  <2> QED BY <2>8 DEF LedgerStepOrStutter
<1>8. CASE S # {} /\ received' = received /\ Lost' = Lost \cup Batch(w)
  <2>1. ASSUME NEW e \in Events
        PROVE  FateOf(e)' = IF e \in S THEN "lost" ELSE FateOf(e)
    BY <1>1, <1>2, <1>3, <1>8 DEF FatesKnown
  <2>2. Fates' = [e \in Events |-> IF e \in S THEN "lost" ELSE Fates[e]]
    BY <2>1 DEF Fates
  <2>3. Sink!Posted(S, "lost")
    BY <1>1, <1>5, <1>8, <2>2 DEF Sink!Posted, Fates
  <2>4. Sink!Fail(S)
    BY <1>8, <2>3 DEF Sink!Fail
  <2>5. Sink!LedgerNext
    BY <2>4 DEF Sink!LedgerNext
  <2> QED BY <2>5 DEF LedgerStepOrStutter
<1> QED BY <1>1, <1>6, <1>7, <1>8

LEMMA LedgerNextOrStutter ==
  ASSUME LedgerInv, LedgerInv', [Next]_vars
  PROVE  LedgerStepOrStutter
<1>1. OnePlace /\ OnePlace' /\ raced \in BOOLEAN
  BY DEF LedgerInv, SinkInv, SinkType
<1>2. CASE UNCHANGED vars
  <2>1. UNCHANGED <<emitted, dropped, fates, raced, queue, workers>>
    BY <1>2 DEF vars
  <2>2. SamePlaces
    BY <2>1 DEF SamePlaces, InBatch, Batch, Queued
  <2> QED BY <1>1, <2>1, <2>2, SameFates
<1>3. ASSUME NEW c \in Callers, Caller(c) PROVE LedgerStepOrStutter
  <2>1. CASE EmitPut(c)
    BY <2>1, PutIsOffer
  <2>2. CASE ~EmitPut(c)
    <3>1. SamePlaces
      BY <1>3, <2>2, CallerStays DEF Caller
    <3>2. raced' \in BOOLEAN /\ (raced => raced')
      BY <1>3, CallerKeepsBatches
    <3> QED BY <1>1, <3>1, <3>2, SameFates
  <2> QED BY <2>1, <2>2
<1>4. ASSUME NEW w \in DOMAIN workers, Worker(w) PROVE LedgerStepOrStutter
  <2>1. raced' = raced
    BY <1>4, WorkerMoves DEF LedgerInv, SinkInv
  <2>2. ASSUME NEW h, LeastQueued(h) PROVE h \in Events
    <3>1. h \in 1..emitted /\ emitted \in 0..MaxEvents
      BY <1>1, <2>2 DEF LeastQueued, OnePlace
    <3> QED BY <3>1, SinkAssumption DEF Events
  <2>3. CASE \/ Open(w) \/ Idle(w) \/ Exit(w)
             \/ Get(w) /\ Head(queue) = Stop
             \/ Drain(w) /\ (queue # <<>> => Head(queue) = Stop)
    <3>1. SamePlaces
      BY <2>3, WorkerStays
    <3>2. raced' \in BOOLEAN /\ (raced => raced')
      BY <1>1, <2>1
    <3> QED BY <1>1, <3>1, <3>2, SameFates
  <2>4. CASE Get(w) /\ Head(queue) # Stop
    <3>1. PICK h \in Events : h = Head(queue)
      BY <2>2, <2>4, GetPlaces
    <3>2. /\ LeastQueued(h) /\ UNCHANGED <<emitted, raced, received>>
          /\ InBatch' = InBatch \cup {h} /\ Lost' = Lost
      BY <2>4, <3>1, GetPlaces
    <3> QED BY <1>1, <3>2, GetIsTake
  <2>5. CASE Drain(w) /\ queue # <<>> /\ Head(queue) # Stop
    <3>1. PICK h \in Events : h = Head(queue)
      BY <2>2, <2>5, DrainPlaces
    <3>2. /\ LeastQueued(h) /\ UNCHANGED <<emitted, raced, received>>
          /\ InBatch' = InBatch /\ Lost' = Lost \cup {h}
      BY <2>5, <3>1, DrainPlaces
    <3> QED BY <1>1, <3>2, GetIsTake
  <2>6. CASE Flush(w)
    BY <2>6, FlushIsPost
  <2> QED BY <1>4, <2>3, <2>4, <2>5, <2>6, WorkerCases
<1> QED BY <1>2, <1>3, <1>4 DEF Next

\* The sink implements EventLedger, for any number of callers, events and restarts of its
\* thread, any capacity and any size of a batch.
THEOREM ImplementsEventLedger == Spec => LedgerSpec
<1>1. Init => Sink!LedgerInit
  <2> SUFFICES ASSUME Init PROVE Sink!LedgerInit
    OBVIOUS
  <2>1. FatesKnown /\ emitted = 0 /\ received = <<>> /\ raced = FALSE
    BY LedgerInitially, FateIs DEF LedgerInv, Init
  <2>2. \A e \in Events : FateOf(e) = "new"
    BY <2>1 DEF FatesKnown, Events
  <2> QED BY <2>1, <2>2 DEF Sink!LedgerInit
<1>2. LedgerInv /\ LedgerInv' /\ [Next]_vars => [Sink!LedgerNext]_(Sink!ledgerVars)
  <2> SUFFICES ASSUME LedgerInv, LedgerInv', [Next]_vars
               PROVE  [Sink!LedgerNext]_(Sink!ledgerVars)
    OBVIOUS
  <2>1. LedgerStepOrStutter
    BY LedgerNextOrStutter
  <2> QED BY <2>1 DEF LedgerStepOrStutter, Fates, Sink!ledgerVars
<1> QED BY <1>1, <1>2, LedgerInductive, PTL DEF Spec, LedgerSpec, Sink!Ledger
=============================================================================
