# Verification of the Arena Hero Python SDK

TLA+ models of the SDK in this repository, TLC configurations that check them on small
instances, and TLAPS proofs for every instance about eight of the parts: the event stream
client, the submission of plans, the plan builder with its prices, the telemetry sink, the
transport of agents that run as child processes, the rounds played over it, the session of
the conformance agent byte by byte, and the configuration overrides, their cache and their
precedence. Paths are relative to `src/arena_hero/` of the package unless they say otherwise.

1. [The system](#1-the-system)
2. [Modules](#2-modules)
3. [What is hard, and the properties for it](#3-what-is-hard-and-the-properties-for-it)
4. [Runs](#4-runs)
5. [Fairness](#5-fairness)
6. [Proofs](#6-proofs)
7. [Findings and observations](#7-findings-and-observations)
8. [What is not modelled](#8-what-is-not-modelled)
9. [Plan](#9-plan)

## 1. The system

The SDK is the client of a turn-based game. A server announces ticks and sends the state of
the player over a WebSocket; the application reads each state as a *Turn*, queues actions
on it and submits the plan over HTTP. A second part of the SDK runs a contestant's agent as
a child process that talks length-framed JSON over its standard streams.

| Component | State | Operations | Interacts with |
|---|---|---|---|
| Event stream client (`client.py`, `async_client.py`, `_client_common.py`) | `_closed`, `_iterating`, `_socket`, `_current_tick`, `_active_turn`, `_latest_receipts`; per generator `delay`, `override_delay`, last tick of `turns()` | `events()`, `turns()`, `_materialize`, `close()` | the WebSocket; Turns (seals them); the sink (emits) |
| Turn and plan builder (`turn.py`) | queued actions, `_closed`, decision time | actions of Unit and Core, `plan`, `clear`, `submit`, `_seal` | `submit()` of the client; the client seals it |
| Rules helpers (`rules.py`) | none | `unit_cost`, `core_resource_capacity` | Turn, which offers them |
| Command submission (`client.submit`, `_protocol.py`) | the attempt, key and body of each call | `submit()` | HTTP pool, closed by `close()` |
| Telemetry sink (`telemetry.py`) | bounded queue, `_thread`, `_dropped`, the batch of the thread | `emit()`, `close()`, `_run`, `_flush` | caller threads, its background thread, the ingest endpoint |
| Subprocess transport (`agent/io/v1/transport.py`) | `_closed`, process, temporary directory, watchdog, queue of frames | `send`, `recv`, `recv_hello`, `close`, `_terminate`, `_read_loop` | child process, reader thread, timer thread |
| Frame codec (`agent/io/v1/framing.py`) | buffer, poisoned error | `encode_frame`, `feed`, `finish` | transport, `serve_stdio` |
| Round runner (`agent/io/v1/runner.py`) | the step of the round | `run_round_subprocess`, `run_round_in_process`, `_classify` | transport, or a handler in the same process |
| Child, conformance agent, replay (`child.py`, `conformance.py`, `replay.py`) | decoder; transcript | `serve_stdio`, `handle`, `record_transcript`, `run_subprocess_transcript`, `replay_transcript` | transport, over the pipes |
| Configuration overrides (`config_overrides.py`) | `_FILE_CACHE`, attributes of the agent | `load_config_overrides`, `apply_config_overrides`, `overridden_decide_kwargs` | the file system, the environment |
| Models, actions, enums, geometry, errors, message schema | none | validation and arithmetic | everything |

What makes each correct, in a sentence: the client keeps at most one Turn open and never
mixes ticks, reconnects after what is transient and after nothing else, and is over when
closed; a plan is what the last calls on its Turn asked for, and nothing the player may not
order; `submit()` applies a plan at most once; the sink gives every event one fate; the
transport reports what the child said, in order, and leaves nothing behind; a round is ok
only when all of it took place, and blames the child only for what the child did; the codec
does not depend on how the bytes are split; overrides are current and take the documented
precedence.

The synchronous and the asynchronous client are the same code apart from the awaits. The
models have the granularity of the asynchronous one, whose interleavings include the
synchronous one's; "map" in `PROJECT.json` names the lines of either.

## 2. Modules

| Module | Models | MC module |
|---|---|---|
| `ArenaClient` | event stream client, life of a Turn, `close()` | `MCArenaClient` |
| `TurnLife` | abstract specification of the life of Turns, implemented by `ArenaClient` and part of `PlanBuilder` | |
| `ArenaClientProofs` | theorems about `ArenaClient`: the open Turn, the flag and the socket; the order of ticks; what is retried, and after how long | |
| `PlanBuilder` | controllers, slots and plans of Turns that `TurnLife` opens and seals | `MCPlanBuilder` |
| `Rules` | prices, capacity and space, operators only | |
| `PlanBuilderProofs` | theorems about `PlanBuilder` | |
| `CommandSubmit` | `submit()`, the builder it reads, the HTTP side of `close()` | `MCCommandSubmit` |
| `PlanStore` | abstract specification of submission, implemented by `CommandSubmit` | |
| `CommandSubmitProofs` | theorems about `CommandSubmit` | |
| `TelemetrySink` | sink, callers, worker threads | `MCTelemetrySink` |
| `EventLedger` | abstract specification of the fate of events, implemented by `TelemetrySink` | |
| `TelemetrySinkProofs` | theorems about `TelemetrySink` | |
| `AgentTransport` | transport, watchdog, reader, child and helper | `MCAgentTransport` |
| `AgentStream` | abstract specification of what the parent receives, implemented by `AgentTransport` | |
| `AgentRound` | both runners; the one for a child is composed with `AgentTransport` (EXTENDS it and interleaves with all its threads) | `MCAgentRound` |
| `AgentRoundProofs` | theorems about `AgentTransport` and, on those, about `AgentRound` | |
| `FrameCodec` | frames over bytes, operators only | |
| `AgentSession` | conformance session over bytes, both ends, on `FrameCodec` | `MCAgentSession` |
| `AgentSessionProofs` | theorems about `FrameCodec` and `AgentSession` | |
| `ConfigOverrides` | the overrides channel | `MCConfigOverrides` |
| `ConfigOverridesProofs` | theorems about `ConfigOverrides` | |
| `NatRecursion` | lemmas about functions on the natural numbers that are defined step by step | |

### ArenaClient
The variables have the names of the attributes. `pc[i]` says where generator `i` is:
`connecting` (in the opening handshake), `reading` (in `recv`), `yielded` (suspended at the
`yield` with the application), `leaving` (in the close handshake of `async with`),
`sleeping` (in the reconnect pause) or `idle` (before its start or over). An action is the
code between two awaits: `ReadState` is all of `_materialize` for a state message, seal and
telemetry fields included, and `Deliver` its return to the application; `StreamEnd` is the
`except` that catches the close exception with its classification; `Finish` is the return
through all `finally` blocks. `close()` is three actions, because it awaits twice. Times
are in tenths of a second; jitter is one of its two ends. A Turn is its tick, whether it
still accepts actions and whether its plan was read; `of` is history, the tick the server
meant. The application may keep every Turn, so `turns` only grows. `seen` is history: the
last fault of a generator, with the Retry-After that this very refusal carried (`asked`), its
failures in a row, and the ticks handed out.

External: the connection delivers in order and may fail at any time; ticks do not decrease;
a state follows the announcement of its tick (`LaxServer` lifts this, and is FALSE in the
runs, because `docs/` describes that order).

`TurnLife` is what an application may rely on: ticks are announced, a Turn is built for
the announced tick, and it accepts actions until something newer comes or the closed client
is at rest. It has no connections, generators or retries. The refinement mapping, at the
end of `ArenaClient`, shows of a Turn its tick and whether it is open; the client is at
rest (`ended`) when it is closed and no generator runs.

### PlanBuilder and Rules
`PlanBuilder` is the other composition with `TurnLife`: it takes the life of Turns from there
and adds the slots of each builder. The application keeps every Turn, controller and view, so
each call is tried on each Turn at any time; `Open` is `ensure_open`. An action is its
type and, for a shot, what it aims at: the cell of any target view ever obtained, or given
by hand. `calls` and `plan` are history: what the application asked of a Turn, and the last
plan built from it. `submit()` builds its plan as `plan` does; the model lets it happen any
number of times. A state is what `_TurnBase` looks at: the kind, owner, class and cell
of its objects, the resources and the population. `Rules` computes prices with integers,
as the code does, where TLC's integers suffice.

### CommandSubmit and PlanStore
`key` and `body` are computed once, in `Submit`, as in the code, and `Post` uses what the
call holds; the Turn may be edited meanwhile (`Edit`). `requests` is the network: a request
in it may be processed at any later time or never, also after its attempt ended. A caller's
own key is used again for the same plan only; generated keys are unique.

External, and an assumption: the endpoint judges a key once, by 202 or one of `Refusals`,
and answers it the same way again; that is what the retries under one key rely on, and the
repository says no more of it than that `submit` repeats the bytes and the key.
`GatewayStatuses` are answers that are no verdict, of a gateway, a rate limit or a server
failure; they come whether or not the request is judged, those that `submit()` retries
(502 to 504) and those it raises at once (429, 500). `error` is the status that the APIError
of a call exposes. `PlanStore` has no
attempts, requests or replies: a plan offered under a key takes effect at most once, and a
call is accepted only after it. The refinement mapping is at the end of `CommandSubmit`.

### TelemetrySink
Threads may be preempted between any two steps; a call of `queue.Queue` is one step.
`workers` is every thread ever made, with its own batch; `thread` is the attribute.
`emit()` is four actions because the test of `is_alive`, the assignment and `start()` are
separate statements; `EmitStart` raises for a thread started twice. `raced` is history: it
becomes true when a thread steps in `emit()` or `close()` while another is inside one. In
`EventLedger` an event waits, is held or is settled, and there are no threads, batches or
restarts; the mapping gives each event the fate that the queue, the batches and the sets of
settled events tell, and `forgotten` when none of them has it.

### AgentTransport, AgentStream and AgentRound
`main`, the reader and the watchdog are threads; `stage[t]` is the progress of thread `t`
through `_terminate` and `close`, so that both may be inside at once, which the code allows.
The child and a helper that it may fork are external: they write, read or not, close their
ends of the pipes, die, obey SIGTERM or not. A zombie still receives group signals; a reaped
child has no group to look up. `part` is the beginning of a frame the child never completes:
what `finish()` makes of it at the end is in `ReadEnd`. The constructor may fail at `Popen`.
`AgentStream` has neither pipes nor processes: a sequence of messages grows, is consumed
from its front, and ends. In `AgentRound` the runner decides which call main makes next; every
step of the transport interleaves. The in-process runner is in the same module, as `mode`,
because both produce a `RoundResult` with one meaning; its handler may reply with anything
or raise.

### FrameCodec and AgentSession
`FrameCodec` is `encode_frame` and the decoder over sequences of digits to a base, with the
header size as a parameter: base 3 and two digits stand for base 256 and four. `Shifted` and
`frame_length` are the two directions of `struct` on an unsigned big-endian number;
`Packable` is what `struct.pack` does not raise for. In `AgentSession` pipes are sequences
of bytes read in chunks of any size. `owed` is how many replies the inner loop of
`run_subprocess_transcript` still waits for; `handled` and `fed` are history. The scenarios
expect as many replies as the agent gives (`SessionAssumption`), as `canonical_scenario`
does.

### ConfigOverrides
A key is a sequence of tokens and separators, which is what `lower()`, `split(".")` and the
candidates of `_candidate_keys` look at; a value has the Python type and the number the
coercions look at. The file may be rewritten at any time, with a new stamp (time and size)
or within its resolution. `Missing` and `Broken` are two contents: no file, and one that is
not a JSON object. `Merge` and `Applied` are the loops over the entries as recursive
functions; `Put` is what one entry does to an attribute. `Reached` is what an entry sets, and
`SpeltTwice` says of entries that two of them reach one attribute.

## 3. What is hard, and the properties for it

`PROJECT.json` lists the hazards at their lines. By kind:

- *A Turn kept too long.* The application may hold a Turn over a newer tick, a replacement
  state, a reconnect and `close()`: `OneOpenTurn`, `ClosedMeansSealed`, `LifeSpec`,
  `OnlyCurrentTurn`. Receipts and states that carry the wrong tick: `ReceiptsCurrent`,
  `TurnHasTickOfState`, `HandedOnce`.
- *A plan after many calls.* Slots set, cleared and read in any order, on any Turn:
  `PlanIsLastCalls`, `PlanIsLegal`; the boundaries of the price rule: `PricesExact`.
- *Two tasks.* Two generators, `close()` in the middle of either: `OneIterator`,
  `SocketInUse`, `CloseEndsGenerator`.
- *Retries.* What is retried, when, with what: `RetryExactlyTransient`, `BackoffExact`,
  `Reconnects`; `ExactRetry`, `OnePlanPerKey`, `FailuresTell`, `StoreSpec`,
  `CallsEnd`.
- *Threads without a lock.* `LedgerSpec`, `OneCallerIsSafe`, `BatchedIsPosted` for the
  sink; `Released`, `ViolationCloses`, `StreamSpec`, `EndIsReported`, `CallsEnd` for the
  transport.
- *Processes.* `OkMeansExchange`, `StatusHasCause`, `RoundReleases`, `RoundEnds`;
  `SameAsInMemory`, `ExitCodes`, `SessionEnds`, `ChildEnds`.
- *Caches and precedence.* `LoadIsCurrent`, `EnvWins`, `EnvWinsKwargs`.

Four of these say that a module implements an abstract one: `LifeSpec` (`TurnLife`),
`StoreSpec` (`PlanStore`), `LedgerSpec` (`EventLedger`) and `StreamSpec` (`AgentStream`).
Each property is stated in words above its definition. For each, `PROJECT.json` names a
mutant: a plausible bug, written as an operator `Bug...` before the definition that it
would replace, which makes TLC report the property violated in the same run.

## 4. Runs

| Run | Instance | Shows |
|---|---|---|
| `client_turns` | one generator through `turns()`, ticks to 2, three states, one message in flight, repeats allowed, one kind of loss | which Turn is open, which receipts show, which ticks `turns()` hands out, over every interleaving of messages, losses, abandonment, cancellation and `close()`; refinement of `TurnLife` |
| `client_reconnect` | two generators, a refusal of every class (401, 404, 429, 503), close codes 1000, 1001, 1006, 1008, Retry-After 0 (or none), 0.5 and 3 s, delays 1, 2, 3 s, no messages | classification, exact backoff, the flag, the socket, and liveness |
| `client_prev_decision` | two ticks, two states | finding 1 |
| `plan_builder` | two Turns, four states, three calls, four kinds of actions, populations 1, 19, 20, 54 | what is in a plan, what a plan may order, when calls take effect, prices |
| `submit_calls` | two calls, one shared caller key, two plans, two attempts, answers 202, 400, 500, 504 | retries, what a failure tells, refinement of `PlanStore`, every call ends |
| `telemetry` | two callers, a queue of 2, batches of 2, three events | refinement of `EventLedger`, one worker and no exception while calls do not overlap, a batch is posted |
| `transport` | a frame accepted, one too long, one cut off; up to two frames, two calls, a pipe of one message, a helper, closed ends, with and without a deadline | refinement of `AgentStream`, reports, release, end of calls |
| `transport_tree` | one call | finding 2 |
| `round` | hello, ready, decision, a frame cut off; up to three frames, a helper, with and without a deadline; every handler | what ok means, whom a failure blames, release, end of the round |
| `agent_session` | five scenarios, payloads of 0 to 4 bytes with the limit at 3 | byte level, exit codes, end of both processes |
| `config_overrides` | six contents of the file, four environments, two stamps | freshness, precedence on attributes |
| `config_env_kwargs` | the same | finding 3 |

Why the bounds are enough:

- `client_turns`: two ticks give old and new; three states give a replacement and a state
  after a reconnect; one message in flight is enough for a late one, as the client reads
  one at a time. One generator, because two are the subject of `client_reconnect` and
  share nothing that the five invariants of a Turn look at; the theorems have no bound.
- `client_reconnect`: every branch of `check_handshake_exception` and
  `check_close_exception` has a value; `MaxFails` 3 passes the saturation of the delay by
  one. It needs no messages: `MaxWire` is 0.
- `submit_calls`: two calls under one key and under two, two attempts so that an early
  request can arrive after a later one. Each way `submit()` takes an answer has one status:
  accepted, refused by the endpoint, retried, and raised at once without being a verdict.
- `plan_builder`: two Turns are an old and a current one, of another or the same tick; three
  calls set a slot twice and clear it, or set two. The states have every class of unit, with
  and without a Core, own and not; the populations lie on both sides of the first rise and
  at the last value whose powers TLC's integers hold. The theorems have no bound.
- `telemetry`: three events fill the queue and leave one to be dropped, or fill a batch and
  leave one that restarts a thread; a caller too many is enough for a race.
- `transport`: a call follows a violation, a crash or a `close()` by one more; one helper; a
  pipe of one message blocks the second write.
- `round`: three frames are exactly those of a good round; fewer, other or unfinished ones
  fail. Two requests fit into the pipe, as they do into that of an operating system.
- `agent_session`: the limit is met exactly, missed by one, and a payload is empty.
- `config_overrides`: two stamps and a reused one are all the cache distinguishes. One content
  spells an attribute twice, one has a value that cannot be coerced, one a dotted key, one a
  dict for an attribute that is none.

`CHECK_DEADLOCK FALSE` stands where the system may stop: after `close()`, after a round or
session, when all calls have ended. `config_overrides` and `config_env_kwargs` check for
deadlock. History variables (`seen`, `summary`, `sent` of `CommandSubmit`, `calls` and
`plan` of `PlanBuilder`, the fates of events, `raced`, `written`, `left`, `delivered`,
`told`, `handled`, `fed`, `shown`, `held`, `reused`) are read by properties, by bounds and
by preconditions of the environment, never by the code's own guards.

## 5. Fairness

Liveness assumes that threads and tasks that can run do, and that waits with a timeout end:

- `ArenaClient!FairSpec`: the generator's own steps and those of `close()` are weakly fair,
  the end of a sleep included; the consumer asks for the next event; a handshake ends by
  `open_timeout` and a closing one by `close_timeout` of the WebSocket library. A server
  that is tried again and again accepts in the end (strong fairness of `HandshakeOk`):
  without it no client can promise to be connected again, and it is what retries hope for.
  Nothing is assumed of what the server sends.
- `CommandSubmit!FairSpec`: a post ends. `request_timeout` bounds each connect, write and read
  of it and not the whole, so that a server which sends its answer in drips could hold it
  longer; that it stops at some time is assumed.
- `TelemetrySink!FairSpec`: threads are scheduled; `get()` has a timeout of half a second,
  `post()` one of ten. Nothing is assumed of the callers.
- `AgentTransport!FairSpec`: the constructor returns or raises, the parent's threads and the
  timer run, waits with a timeout end; nothing is assumed of the child. Which of two
  outcomes of a wait comes is left open.
- `AgentRound!FairRoundSpec`: the same with the runner, whose handler returns or raises, and
  without the timer: the runner does not rely on the deadline.
- `TurnLife` and `PlanBuilder` state safety only: an application need not act.
- `AgentSession!FairSpec`: both processes; a parent may die, a child does not stop by itself.

## 6. Proofs

`ArenaClientProofs` proves, from `ClientAssumption` alone (any set of generators, statuses,
close codes, Retry-After values and sources, any bounds):

- `TypeCorrect`: `Spec => []TypeOK`.
- `Inductive`: `Spec => []IInv`, where `IInv` is `TypeOK` with the five invariants
  `OneOpenTurn`, `ReceiptsCurrent`, `OneIterator`, `SocketInUse`, `ClosedMeansSealed`.
- `AtMostOneOpenTurn`, `ReceiptsOfCurrentTick`, `SingleIterator`, `SocketReachable`,
  `SealedAfterClose`: each of the five.
- `SealedForever`: no step opens a sealed Turn again, removes a Turn or changes its tick; an
  action property that `ImplementsTurnLife` makes easy, because `TurnLife` only seals and
  appends (`SealKeeps`).
- `ImplementsTurnLife`: `Spec => LifeSpec`. Each step of the client is mapped to the one step
  of `TurnLife` that its effect on the Turns, the tick and the closed client is; most
  stutter. It needs `IInv` before and after the step.

The five are proved together because they need each other: that a step of generator `i`
keeps `SocketInUse` needs that no other one is in a connection (`OneIterator`); that
sealing the active Turn leaves none open needs that no other one was (`OneOpenTurn`); and
`ClosedMeansSealed` at the end of a generator needs `OneOpenTurn`, as only the active Turn
is sealed there. No strengthening beyond their conjunction and the typing is necessary.
The step lemmas (`GeneratorSafe`, `OtherSafe`) have one step per action; what many actions
share is stated once: `SealedFacts` (what sealing does to the sequence of Turns),
`FinishSafe` and `BackoffSafe` (the two ways out of an iteration), `AloneInside`.

Three more invariants in the same module are about what the client does over time:

- `RetriesTransientFaults` (`RetryExactlyTransient`). `RetryInv` says of a generator inside a
  connection that the fault it carries, if any, is a broken message, and of a connection
  that was closed that it has a close code: without it the generator that reads the end of
  a connection could meet any fault.
- `TicksHandedOnce` (`HandedOnce`) and, under the assumption `LaxServer = FALSE`,
  `TurnsShowTheirTick` (`TurnHasTickOfState`): a server that sends states before it announces
  their tick on that connection can break the latter. `TickInv` reads the messages in flight
  as their reader will: `OrderOf` (the ticks in a wire do not decrease and are none older than
  the client's), `StatedOf` (each state in it is met by the client at its tick, and so will
  be the one the server sends next) and `HandedOf`.
- `BackoffIsExact` (`BackoffExact`). The code doubles and caps a delay in a loop; the property
  compares it with `Doubled`, a recursive function of the failures counted by history.
  After a rate limit the pause is the Retry-After of
  that refusal, which history keeps (`AsLongAsAsked`), and one second at least.
  `BackoffInv` extends the comparison to the places where the code keeps the delay but the
  property does not look (inside a connection), where the next failure starts from. That
  `Doubled` is a function at all, has numbers for values and does not decrease comes from
  `NatRecursion`; that the counter of failures may stop at its bound needs
  `FailsAssumption` (the cap is reached by then).

`CommandSubmitProofs` proves, from `SubmitAssumption` alone (any set of calls, keys and
plans, any number of retries):

- `SubmitInductive`: `Spec => []SInv`, where `SInv` is `TypeOK` with `Retrying`, `Sending`,
  `OnePlanPerKey`, `Answered`, `Answering`, `Ending` and `Trying`.
- `SubmitTypeCorrect`, `RetriesAreExact` (`ExactRetry`), `KeysCarryOnePlan`
  (`OnePlanPerKey`), `FailuresAreTold` (`FailuresTell`): the properties of the run.
- `AcceptedTookEffect`: a call that returns Accepted has its key accepted, and the plan under
  that key is the plan the call was given. `StoredWasAccepted`: the plan the endpoint has for
  the tick is that of a request whose key it accepted, and of no key it refused.
- `ImplementsPlanStore`: `Spec => StoreSpec`, the refinement.

Why more than the properties is needed: that `attempt` stays within its bound needs
`Retrying` (a call sleeps before an attempt it still has), and that a retry sends a key and
a body at all needs `Sending` (what is sent is what the call computed at its begin, and a
call that has begun has sent it). `FailuresTell` speaks of a call that has ended, and a
reply may arrive long after the endpoint wrote it: `Answering` says that a verdict on its way
is the one the endpoint has for that key and `Ending` keeps it once it has arrived, as an
Accepted or as the refusal in an APIError; neither is undone because `Process` never changes
a verdict. That a refusal holds for all requests of the call, those still on the way included,
follows because they carry one key. `Trying` says which attempts
were made, all of them when it gives up.
For the refinement, `OfferedUnder` picks the body of some request with the key;
`OnePlanPerKey` is what makes that one plan. `StoreInit` and `StoreStep` map initial states
and steps: `Submit` is `Begin`, a first `Process` that accepts is `Apply`, the end of a call
is `Accept` or `Fail`, and the rest stutters, a second processing of a key included.

`PlanBuilderProofs` proves, from `PlanAssumption`, for any number of Turns, units and calls:
`PlansAreLastCalls`, `PlansAreLegal` and `OnlyCurrentTurnCalled`. `PlanInv` (`PlanInductive`)
is typing, `OneOpen` (an open Turn is the active one and of the current tick, which is all
the action property needs) and `TurnOK` of each Turn: its slots, and not only its last
plan, are legal and told by the calls, because the next plan is a copy of them.
`AskedAfter` is the lemma about one call more: what it asked for if it concerns the object,
and what was asked before if it does not. `PricesAreExact` (`PricesExact`) is
about numbers: the code multiplies by 13 and divides by 10 in integers, in the order and
with the rounding of `Rules`, for every population; `Powers` is recursive, and its values are
positive by induction in `NatRecursion`.

`TelemetrySinkProofs` proves, for any number of callers, events and restarts of the thread:

- `OneCallerSafe` (`OneCallerIsSafe`). The property speaks of the time before `raced`, so
  `SinkInv` (`SinkInductive`) is typing and, until then, `Alone`: one caller is inside a call,
  every thread but the last is dead, and the last is not started exactly while its maker is
  about to start it, and was made when the one before it was dead.
- `ImplementsEventLedger` (`LedgerSpec`), from `LedgerInv` (`LedgerInductive`). `OnePlace` places
  each event emitted so far in the queue, in the batch of one thread or among the settled
  ones, and nowhere twice: that is what makes the mapping of an event a fate at all, also
  with threads that overlap. `InOrder` says that everything taken from the queue is older
  than everything in it, that batches are in the order of `emit()` and, until calls
  overlap, that what was received is in order and older than the batches. `BatchAtWork`
  (only a thread at work holds a batch) is what `Alone` needs to make the one batch there is
  the only one. Dead threads keep nothing, so `forgotten` stays the fate of no event.
- `NoEventTwice`: the game receives no event twice and none that counts as lost, also while
  calls overlap. Order is lost then, so this is an invariant of its own (`Once`): a flush
  appends a batch that rises, and that shares no event with what was received (`OnePlace`).

`AgentRoundProofs` proves of the transport, from `TransportAssumption` alone (any frames, calls, size of
the pipe, with and without helper and deadline):

- `TransportInductive`: `Spec => []TInv`. `Constructing` is the time before the child.
  `Closing` is how far the child is gone at each stage of each of the two threads in
  `close()`: `Released` itself says nothing of a thread that stands between the kill and
  the removal of the directory. `Violating` is main on its way through `close()` with a
  violation to raise. `Delivering` relates what was delivered, what is put for `recv()`
  and what is in the pipe to what the child has written, frame by frame, and says that the
  end is the last thing put.
- `CloseReleases` (`Released`), `ViolationsClose` (`ViolationCloses`), `EndReported`
  (`EndIsReported`), from `TInv`.
- `ImplementsAgentStream`: `Spec => StreamSpec`; `Delivering` is what makes the message that
  `recv()` returns the next one the child has written. `DeliveredAsWritten` states the
  consequence in the transport's own variables: what was handed out is at any time the
  first part of what the child wrote.

Of rounds of either kind it proves `RoundsRelease` (`RoundReleases`),
`OkMeansWholeExchange` (`OkMeansExchange`) and `BlameHasCause` (`StatusHasCause`). `RInv`
(`RoundInductive`) contains `TInv`: every step of the runner is a step of the transport
(`RunnerIsNext`). `Calling`, `Waiting`, `Leaving` and `Ending` say for each place the runner
may be at what was recorded, received and sent so far. To blame the child needs more: until
the watchdog fires or main is about to leave, nobody but the child can have ended anything
(`Quiet`), so an end on its way to `recv()` means that the child left its pipes, and an
error of the decoder that the child wrote what is too long or cut off; `Caused` carries
that from the exception to the classification, and `BlameKept` says that it stays true.


`AgentSessionProofs` proves, from `CodecAssumption` and `SessionAssumption`, for any size of the
header, base, limit, payloads, scenarios, and any way the pipes cut the bytes:

- `TranscriptIsInMemory` (`SameAsInMemory`): the transcript over the pipes is at every moment a
  prefix of what the same scenario gives in memory, is all of it at the end, and replays to
  itself.
- `ExitCodesTell` (`ExitCodes`): the exit code of the child is true of the session, wherever
  within a frame the parent died.
- `NoStandoff`: as long as the parent lives and has not got through its scenario, the parent
  or the child has a step to take; neither waits for the other. It is the safety half of
  `SessionEnds`, whose other half is fairness and stays with TLC. It assumes `RepliesFit`:
  the replies of the agent are within the frame limit, as those of the conformance agent
  are. Its decoder would make the parent raise on a reply over it, which the model leaves
  out; in the run only a message to the child is too long.

The first two come from `SessionInv` (`SessionInductive`). `Feeding`: the bytes in the decoder of the
child, in the pipe and not written yet are, joined, the encodings of exactly the messages
that the child has not handled, and what was fed is those of the handled ones followed by
the bytes on their way. `Answering`: on the way back is the one reply that `recv()` owes, as
bytes or decoded, or nothing; and nothing while the child has messages to handle, because of
those only the last can have a reply. `Recording`: the transcript with the pending reply is
the one in memory so far. Under it are lemmas about the codec: `HeaderFacts` (a length that
can be packed is read back) and `StreamHead` (from whatever prefix of a frame and its
successors a decoder holds, it finds nothing, a frame too long, or exactly that frame and
the rest), about joining: `FlattenConcat` and `JoinedFacts` (encoding messages and recording
exchanges turn concatenation into concatenation), and about replay: `PlayedExchanges`, by
induction on the number of messages. `NoStandoff` needs one thing more, `Owing`: a message
that is being written has bytes left, and a reply that is owed when everything sent has been
handled is on its way. If nobody could move, the pipes and decoders would hold no frame; then
the child has handled everything (`NothingToHandle`), the reply is on its way, and what is on
its way and all here is a frame (`ReplyComplete`).

`ConfigOverridesProofs` proves, from `ConfigAssumption`, for any contents, environments,
attributes and number of rewrites:

- `LoadCurrent` (`LoadIsCurrent`): a load returns what the file held at some moment of that
  load, unless a stamp was used again. `LoadInv` (`LoadInvariant`) contains `CacheFresh` (a
  cached content that has the stamp of the file is the file's, as long as no rewrite kept
  that stamp, and stamps do not go back) and `LoadUnderWay` (what the file holds now is
  among what it has held since the load began).
- `OverridesTypeCorrect`: `Spec => []TypeOK`. `TreeInv` says that the attributes stay what
  they were in kind: the agent keeps an instance and a module, and each coercion yields a
  value that can stand where the old one stood.
- `EnvironmentWins`: `Spec => [](Leaves => EnvWins)`. `Leaves` says that no entry spells an
  attribute that has attributes of its own. It is needed: a file may hold a dict for
  `strategy` after the place where a variable for `strategy_limit` stands, and then the
  attribute the variable leads to is another one when the variables are applied again.
  The argument has four parts. `MergeIs`: in the merged dictionary each variable has the
  place of the file's key of its spelling, or one at the end, and its own value. `EntryTwice`:
  an entry applied twice is the same as applied once, because a coerced value is coerced to
  itself (`CoerceTwice`). `RunKeeps` and `AppliedIs`: an entry changes only what it reaches,
  and as long as only leaves are replaced, what an entry reaches depends on names alone.
  `NothingAfter`: if neither file nor variables spell an attribute twice, and a file's
  spelling of it is the variable's own or comes before it, nothing merged after a variable
  reaches what it reaches. So to apply the variables once more changes nothing
  (`NothingChanges`, `OnceMore`).
- `ArgumentsInLowerCase`: `Spec => [](LowerKeys => EnvWinsKwargs)`, where `LowerKeys` says
  that the keys of the file are in lower case. `EnvWinsKwargs` alone is violated (finding 3);
  this shows that the case of the file's keys is all that the violation depends on.

Assumptions on constants say no more than the code does: that sets of statuses, codes and
payloads have the types the code handles; that bounds are numbers; that the reconnect counter
is not stopped before the delay has reached its cap (`FailsAssumption`); that a file that is not
there can be told from one that does not parse (`Missing # Broken`); that a dictionary has each
key once, that the keys of the environment are in lower case (`load_config_overrides` makes
them so; of two variables that differ in case only the later counts), that values have the
modelled types, and that an agent is an instance and a module with attributes
(`ConfigAssumption`); that messages have
encodings of their own that fit the header, and that a scenario expects the replies that the
agent gives. The bounds (`Max...`) are constants of the modules; in the theorems they have any
value these assumptions allow.

Proof attempts changed two properties. The 80% and 120% of a pause in `BackoffExact` were stated
for a delay that is a multiple of ten, which is true of the run and of no theorem; with
rounding in tenths it holds for every delay. `EnvWins` was stated for every file; a file
that spells one attribute in two ways refutes it, and so do two variables that do (section 7);
the property now excepts both.

Only model-checked:

- the liveness properties and the fairness they need: the prover handles neither liveness
  under fairness nor ENABLED. The same holds of `FairSpec` in the theorems: they are about
  `Spec`, and so about `FairSpec`, which implies it.
- `EnvWins` where an entry replaces an object that has attributes: the theorem has the
  hypothesis `Leaves`, the run does not.
- `EnvWinsKwargs` in general, which is violated (finding 3), as are the properties of the two
  other findings.

## 7. Findings and observations

Findings have a run that shows a statement of the repository violated by the code:

1. `client_prev_decision`: the summary of a tick never holds the decision time of the
   previous tick. `_materialize` reads it from `_active_turn`, which the tick message that
   comes first has reset (`client.py:274-276`, `client.py:293`); README.md:376 of the
   repository and the comment at `client.py:291` say it does.
2. `transport_tree`: a helper that the child started survives `close()` when the child has
   exited by itself, or was collected after SIGTERM. `_terminate` returns early and, later,
   cannot look up the group of a collected process; `transport.py:119-121` says that the
   whole process tree is terminated.
3. `config_env_kwargs`: for arguments of the decision function, a key of the file that
   differs in case beats the environment variable (`config_overrides.py:291-292`); line 13
   says that the environment takes precedence. On attributes it does (`EnvWins`).

Observations met while modelling, without a run of their own. Some contradict the
documentation, and then the line it stands on is quoted: the first, which the model shows in
one step (`Raises`), the overlapping calls of the sink and the attributes spelt twice. On the
others the repository says nothing definite:

- `overridden_decide_kwargs` converts without a `try` (`config_overrides.py:293`):
  `Infinity`, which `json.loads` accepts, for an integer argument makes it raise
  OverflowError out of `int()` (`:133`). README.md:363 of the repository says of the
  overrides that in no case an error is raised or the decision loop blocked, and
  `config_overrides.py:21` that any exception falls back to the default. The same value on
  an attribute is skipped.
- `close()` during the opening handshake finds no socket (`async_client.py:247`), and the
  generator looks at `_closed` again only when that connection ends. `CloseEndsGenerator`
  therefore speaks of a connection `close()` has found, and of a pause.
- A handshake that the library ends with another exception than a status or an OSError, such
  as an invalid message or an early end of the stream, ends `events()`, though a lost
  connection is what it is (`HandshakeBroken`).
- `Retry-After: inf` makes the blocking client raise OverflowError out of `events()`, and the
  asynchronous one sleep for ever, over `close()` too.
- A tick announced a second time seals the Turn in use, and `turns()` passes on no
  replacement for it: the application has no Turn until the next tick.
- A retry of `submit()` after `close()` raises the RuntimeError of httpx and no error of
  the SDK (`runtime_error` in `CommandSubmit`).
- Two threads that are inside `emit()` or `close()` at once may both restart a dead worker,
  and the second `start()` or the `join()` of a thread not yet started raises
  RuntimeError; or a thread is restarted that still works, and two threads post events out
  of their order; `telemetry.py:5` and `:111` say that neither ever raises.
  `OneCallerIsSafe` and the order in `EventLedger` are therefore stated for
  calls that do not overlap, which is what one client has unless a second thread closes it.
- An event put into the queue after the last look of a worker and before its death waits
  there until another `emit()` starts a new worker. `EventLedger` calls it queued.
- A child that closes its stdout and lives on is reported as crashed, with the transport
  still open.
- A round that its watchdog ended is classified `crash` when `recv()` sees the end of the
  stream before its own timeout, `protocol` when the reader was stopped within a frame, and
  `error` when the next call finds the transport closed. `StatusHasCause` excepts it.
- The two runners judge a reply differently: in process the type of hello is not looked at,
  and a second reply to one request is an error, which over the pipes is the reply to the
  next request.
- The runner takes any reply of the right type, also one that was written before its
  request: `OkMeansExchange` states the order of replies and the number of requests.
- A variable takes the place of the file's key of the same spelling in the merged dictionary;
  if the file sets the same attribute again by another spelling further down, that entry is
  applied last, and wins over the environment (`config_overrides.py:13` says the
  environment takes precedence). Likewise two variables that spell one attribute: the one
  whose key the file also has takes that earlier place, whatever the order of the
  environment. `EnvWins` excepts entries that spell an attribute twice.
- An entry that replaces an object with attributes, such as a dict for `strategy` next to a
  variable for `strategy_limit`, takes away the attribute that the variable leads to. What a
  variable reaches is then another thing, or nothing, when it is applied once more; `EnvWins`
  speaks of what it reaches then, and its theorem has the hypothesis `Leaves` (section 6).
- The cache keeps the object that `json.load` made, and lists and dicts nested in it reach the
  agent by reference (`config_overrides.py:65`, `:153`): an agent that changes such an
  attribute in place changes what later loads return. The values of the model are immutable.
- An APIError of `submit()` need not mean that the plan was refused. Any status but 202 and
  502 to 504 is raised at once (`async_client.py:231-232`): a 500, or a 429 in answer to a
  retry, also when an earlier attempt took effect or will. `FailuresTell` therefore ties no more
  than a refusal of the endpoint to the plan. The reference calls APIError a structured
  rejection (`docs/api-reference.md:610`), and promises nothing of the plan.

## 8. What is not modelled

- Directions of moves and sweeps, unit types of a spawn, and the read-only views of a Turn;
  the validation of values in models, actions, enums and geometry, which have no state.
- Contents of messages, telemetry events and tick summaries, apart from the decision time;
  the agent message schema; wording of errors, logging and warnings.
- The command lines of the runner and the child.
- A constructor of the transport whose `Thread.start()` fails after `Popen` succeeded: the
  child and the directory are left behind.
- Stderr diagnostics, the environment allowlist and the Windows branches of the transport.
- Cancellation of `close()` itself, and the release of the HTTP pool after it.
- `Retry-After` values that are not finite numbers: what `sleep` does with them is the
  runtime's.
- The envelope and digest of transcripts, which are encodings without state.
- Examples, tests, the schema generator and generated files.

## 9. Plan

Done, in this order: the event stream client with its invariants and proofs; submission,
its abstract specification and the proof that it implements it; the sink; the transport and
the runner on top of it; the codec and the session; the overrides; then abstract
specifications of the life of Turns, of the fate of events and of the message stream, the
plan builder composed with the first, the rules, the in-process round, a constructor that
fails, closed pipes and unfinished frames; the proofs about the order of ticks, the retries,
the plan builder, the sink, the transport and the round; and those about the backoff, the
prices, the ledger of events, the cache and the precedence of the overrides, the codec, the
session and its freedom from deadlock.

Next, first what matters most:

1. Cancellation of `close()` in the asynchronous client, and the HTTP pool after it.
2. The transport with two threads that call it: `send()` has a lock, `recv()` has none.
3. The frames of `FrameCodec` under the transport of `AgentTransport`, which has them as whole
   items: that the latter is what the decoder makes of the bytes.
