--------------------------- MODULE TelemetrySink ---------------------------
(***************************************************************************)
(* HttpTelemetrySink: emit() and close() of the caller threads, and the    *)
(* background threads that run _run().  A thread may be preempted between  *)
(* any two steps; queue.Queue is a monitor, so one call of it is one step. *)
(* The sink of one client has one caller, the thread of its event loop,    *)
(* unless a blocking client is closed by another thread than the one that  *)
(* reads its events.                                                       *)
(*                                                                         *)
(* Events are numbered in the order they are put.  The ingest endpoint is  *)
(* external: a post arrives or does not.                                   *)
(***************************************************************************)
EXTENDS Integers, Sequences, FiniteSets, Functions

CONSTANTS
  Callers,      \* threads that call emit() and close()
  Capacity,     \* maxsize of the queue
  BatchSize,    \* _FLUSH_BATCH_SIZE
  MaxEvents     \* bound: calls of emit()

ASSUME SinkAssumption ==
  Capacity \in Nat \ {0} /\ BatchSize \in Nat \ {0} /\ MaxEvents \in Nat

VARIABLES
  queue,                              \* _queue; Stop is the None close() puts
  thread, workers,                    \* _thread is an index of workers, all threads ever made
  pc, stopped,                        \* progress of the callers; close() was called
  emitted, dropped, received,         \* history: calls of emit(), and the fate of the
  failed, drained,                    \*   events: _dropped counts the set dropped
  raced                               \* history: a caller stepped while another was inside

fates == <<received, failed, drained>>
vars == <<queue, thread, workers, pc, stopped, emitted, dropped, fates, raced>>

Stop == 0
Events == 1..MaxEvents
Alive(w) == workers[w].phase \notin {"new", "dead"}      \* Thread.is_alive()

Init ==
  /\ queue = <<>>
  /\ thread = 1 /\ workers = <<[phase |-> "starting", batch |-> <<>>]>>
  /\ pc = [c \in Callers |-> "idle"] /\ stopped = FALSE
  /\ emitted = 0 /\ dropped = {}
  /\ received = <<>> /\ failed = {} /\ drained = {} /\ raced = FALSE

-----------------------------------------------------------------------------
(* emit()                                                                  *)

\* c takes its next step, from label from to label to.
Go(c, from, to) ==
  /\ pc[c] = from /\ pc' = [pc EXCEPT ![c] = to]
  /\ raced' = (raced \/ \E d \in Callers \ {c} : pc[d] # "idle")

HasRoom == Len(queue) < Capacity

EmitPut(c) ==
  /\ emitted < MaxEvents /\ Go(c, "idle", "check")
  /\ emitted' = emitted + 1
  /\ queue' = IF HasRoom THEN Append(queue, emitted') ELSE queue
  /\ dropped' = IF HasRoom THEN dropped ELSE dropped \cup {emitted'}
  /\ UNCHANGED <<thread, workers, stopped, fates>>

BugEmitCheck(c) ==
  /\ Go(c, "check", "assign")
  /\ UNCHANGED <<queue, thread, workers, stopped, emitted, dropped, fates>>

EmitCheck(c) ==
  /\ Go(c, "check", IF Alive(thread) THEN "idle" ELSE "assign")
  /\ UNCHANGED <<queue, thread, workers, stopped, emitted, dropped, fates>>

EmitAssign(c) ==
  /\ Go(c, "assign", "start")
  /\ workers' = Append(workers, [phase |-> "new", batch |-> <<>>])
  /\ thread' = Len(workers')
  /\ UNCHANGED <<queue, stopped, emitted, dropped, fates>>

\* Thread.start() of whatever _thread is now; a second start raises RuntimeError.
EmitStart(c) ==
  /\ \/ /\ workers[thread].phase = "new"
        /\ workers' = [workers EXCEPT ![thread].phase = "starting"]
        /\ Go(c, "start", "idle")
     \/ /\ workers[thread].phase # "new"
        /\ Go(c, "start", "raised")
        /\ UNCHANGED workers
  /\ UNCHANGED <<queue, thread, stopped, emitted, dropped, fates>>

-----------------------------------------------------------------------------
(* close(): called once, by the client's close()                           *)

ClosePut(c) ==
  /\ ~stopped /\ stopped' = TRUE
  /\ Go(c, "idle", "join")
  /\ queue' = IF HasRoom THEN Append(queue, Stop) ELSE queue
  /\ UNCHANGED <<thread, workers, emitted, dropped, fates>>

\* join() returns when the thread is dead or after _CLOSE_JOIN_TIMEOUT_SECONDS; it
\* raises RuntimeError for a thread that was not started.
CloseJoin(c) ==
  /\ Go(c, "join", IF workers[thread].phase = "new" THEN "raised" ELSE "idle")
  /\ UNCHANGED <<queue, thread, workers, stopped, emitted, dropped, fates>>

-----------------------------------------------------------------------------
(* _run()                                                                  *)

MoveTo(w, phase) == workers' = [workers EXCEPT ![w].phase = phase]

\* httpx.Client(...) is made; if it raises, the handler and the finally follow.
Open(w) ==
  /\ workers[w].phase = "starting"
  /\ MoveTo(w, "running") \/ MoveTo(w, "draining")
  /\ UNCHANGED <<queue, thread, pc, raced, stopped, emitted, dropped, fates>>

\* The batch is posted when it is full, or when _FLUSH_INTERVAL_SECONDS have passed.
Get(w) ==
  /\ workers[w].phase = "running" /\ queue # <<>>
  /\ queue' = Tail(queue)
  /\ LET batch == Append(workers[w].batch, Head(queue)) IN
       IF Head(queue) = Stop
         THEN MoveTo(w, "last")
         ELSE \E phase \in {"posting"} \cup (IF Len(batch) < BatchSize THEN {"running"} ELSE {}) :
                workers' = [workers EXCEPT ![w] = [phase |-> phase, batch |-> batch]]
  /\ UNCHANGED <<thread, pc, raced, stopped, emitted, dropped, fates>>

\* queue.Empty after half a second counts as the None that stops the thread.
BugIdle(w) ==
  /\ workers[w].phase = "running" /\ queue = <<>>
  /\ MoveTo(w, "draining")
  /\ UNCHANGED <<queue, thread, pc, raced, stopped, emitted, dropped, fates>>

Idle(w) ==
  /\ workers[w].phase = "running" /\ queue = <<>>
  /\ MoveTo(w, "last")
  /\ UNCHANGED <<queue, thread, pc, raced, stopped, emitted, dropped, fates>>

\* _flush: what a failed post held is reported to stderr and gone.
Posted(batch) ==
  \/ received' = received \o batch /\ UNCHANGED failed
  \/ failed' = failed \cup {batch[k] : k \in DOMAIN batch} /\ UNCHANGED received

BugFlush(w) ==
  /\ workers[w].phase \in {"posting", "last"}
  /\ Posted(workers[w].batch)
  /\ MoveTo(w, IF workers[w].phase = "posting" THEN "running" ELSE "draining")
  /\ UNCHANGED <<queue, thread, pc, raced, stopped, emitted, dropped, drained>>

Flush(w) ==
  /\ workers[w].phase \in {"posting", "last"}
  /\ Posted(workers[w].batch)
  /\ workers' = [workers EXCEPT ![w] =
       [phase |-> IF @.phase = "posting" THEN "running" ELSE "draining", batch |-> <<>>]]
  /\ UNCHANGED <<queue, thread, pc, raced, stopped, emitted, dropped, drained>>

\* The finally empties the queue; nothing counts what it takes out.
Drain(w) ==
  /\ workers[w].phase = "draining"
  /\ \/ /\ queue # <<>>
        /\ drained' = drained \cup ({Head(queue)} \ {Stop})
        /\ queue' = Tail(queue)
        /\ UNCHANGED workers
     \/ /\ queue = <<>> /\ MoveTo(w, "exiting")
        /\ UNCHANGED <<queue, drained>>
  /\ UNCHANGED <<thread, pc, raced, stopped, emitted, dropped, received, failed>>

\* Out of _run(), but is_alive() until the interpreter has torn the thread down.
Exit(w) ==
  /\ workers[w].phase = "exiting" /\ MoveTo(w, "dead")
  /\ UNCHANGED <<queue, thread, pc, raced, stopped, emitted, dropped, fates>>

-----------------------------------------------------------------------------
Caller(c) ==
  \/ EmitPut(c) \/ EmitCheck(c) \/ EmitAssign(c) \/ EmitStart(c) \/ ClosePut(c) \/ CloseJoin(c)
Worker(w) == Open(w) \/ Get(w) \/ Idle(w) \/ Flush(w) \/ Drain(w) \/ Exit(w)

Next == (\E c \in Callers : Caller(c)) \/ (\E w \in DOMAIN workers : Worker(w))

Spec == Init /\ [][Next]_vars

\* Threads are scheduled, and the calls a thread makes end: get() in half a second,
\* post() in ten seconds.
FairSpec == Spec /\ \A w \in 1..(MaxEvents + 1) : WF_vars(w \in DOMAIN workers /\ Worker(w))

-----------------------------------------------------------------------------
(* Properties                                                              *)

Held(e) == \E w \in DOMAIN workers : e \in Range(workers[w].batch)

FateOf(e) ==
  CASE e > emitted -> "new"
    [] e \in Range(received) -> "received"
    [] e \in dropped \cup failed \cup drained -> "lost"
    [] Held(e) -> "held"
    [] e \in Range(queue) -> "queued"
    [] OTHER -> "forgotten"

\* The sink implements EventLedger: over batches, failed posts, restarted threads and
\* close(), each event moves forward through one fate, is never posted twice nor
\* forgotten in between, and until two threads are inside emit() or close() at once the
\* endpoint receives the events in the order of emit() (_run, _flush, emit).
Sink == INSTANCE EventLedger WITH fate <- [e \in Events |-> FateOf(e)], log <- received
LedgerSpec == Sink!Ledger

\* While calls do not overlap -- the one event loop of the class's design -- emit()
\* restarts a dead thread only, so that one thread works on the queue, and neither
\* emit() nor close() raises (telemetry.py: never blocks, never raises).
OneCallerIsSafe ==
  ~raced =>
    /\ \A v, w \in DOMAIN workers : Alive(v) /\ Alive(w) => v = w
    /\ \A c \in Callers : pc[c] # "raised"

\* An event a thread has taken into its batch is posted, even when the thread goes idle
\* or is told to stop first.
BatchedIsPosted ==
  \A e \in Events : Held(e) ~> (e \in failed \cup Range(received))
=============================================================================
