---------------------------- MODULE ArenaClient ----------------------------
(***************************************************************************)
(* The event side of the Arena Hero client: the generator events(), its   *)
(* filter turns(), the reconnect loop, _materialize(), and close().        *)
(*                                                                         *)
(* Granularity is that of async_client.py: an action runs from one await   *)
(* (or yield) to the next, and everything another task can do in between   *)
(* is an interleaving.  client.py is the same code without the awaits;     *)
(* with one thread its behaviours are those in which close() and the plan  *)
(* reads happen only while the generator is suspended at a yield.          *)
(*                                                                         *)
(* The WebSocket library and the game server are external: they are        *)
(* modelled by what events() relies on -- messages arrive in order, a      *)
(* connection may fail at any time, ticks never decrease, a state follows  *)
(* the announcement of its tick.                                           *)
(***************************************************************************)
EXTENDS Integers, Sequences

CONSTANTS
  Iterators,       \* slots for generators created by calls of events() / turns()
  TurnsIterators,  \* the ones the application consumes through turns()
  Sources,         \* values of CommandSource
  NoSocket,        \* _socket is None
  MinDelay,        \* reconnect_min_delay, in tenths of a second
  MaxDelay,        \* reconnect_max_delay
  Statuses,        \* HTTP statuses a handshake may be refused with
  CloseCodes,      \* close codes a connection may end with (1006: no close frame)
  RetryAfters,     \* values of the Retry-After header of a refusal, tenths of a second
  LaxServer,       \* TRUE: the server may send a state before any tick
  Repeats,         \* TRUE: it may repeat a tick or a state on one connection
  MaxTick,         \* bound: the last tick of the server
  MaxFails,        \* bound of the history counter of failed attempts
  MaxWire,         \* bound: messages in flight on one connection
  MaxStates        \* bound: states the server sends in all

\* build_config rejects anything else; the other conjuncts are the model's.
ASSUME ClientAssumption ==
  /\ TurnsIterators \subseteq Iterators
  /\ NoSocket \notin Iterators
  /\ MinDelay \in Nat \ {0} /\ MaxDelay \in Nat /\ MinDelay <= MaxDelay
  /\ Statuses \subseteq 400..599
  /\ CloseCodes \subseteq 1000..4999
  /\ RetryAfters \subseteq Nat
  /\ LaxServer \in BOOLEAN /\ Repeats \in BOOLEAN
  /\ MaxTick \in Nat /\ MaxFails \in Nat /\ MaxWire \in Nat /\ MaxStates \in Nat

VARIABLES
  closed, iterating, socket,        \* _closed, _iterating, _socket
  current_tick, active_turn,        \* 0 is None; active_turn is an index of turns
  latest_receipts,                  \* tick of the receipt of each source, 0 when absent
  turns,                            \* every Turn ever built, the application may hold any
  pc, loc,                          \* where each generator is, and its local variables
  closer, closing,                  \* progress of close() and the socket it closes
  ws,                               \* the WebSocket of each generator (external)
  server_tick, sent,                \* the game server (external); sent counts states
  seen, summary                     \* history: per generator, and the last tick_summary

clientVars == <<closed, iterating, socket, current_tick, active_turn, latest_receipts, turns>>
closeVars  == <<closer, closing>>
serverVars == <<server_tick, sent>>
vars == <<clientVars, pc, loc, closeVars, ws, serverVars, seen, summary>>

-----------------------------------------------------------------------------
None == 0                  \* no tick, no Turn, no fault
OsError == 1               \* OSError or TimeoutError while connecting or reading
BadMessage == 2            \* parse_stream_message or _materialize raised ProtocolError
BadHandshake == 3          \* InvalidHandshake other than InvalidStatus: not an HTTP answer

TickMsgs == [type: {"tick", "state"}, tick: Nat]
ReceivedMsgs == [type: {"received"}, source: Sources, tick: Nat]
BadMsgs == [type: {"bad"}]
Messages == TickMsgs \cup ReceivedMsgs \cup BadMsgs

Turns == [tick: Nat, of: Nat, open: BOOLEAN, decided: BOOLEAN]

Locals == [delay: MinDelay..MaxDelay, pause: Nat, last_tick: Nat]
Histories == [fault: Nat, asked: Nat, fails: Nat, handed: Seq(Nat)]
Links == [link: {"none", "open", "closed"}, code: Nat, wire: Seq(Messages),
          announced: Nat, stated: Nat]

NoLink == [link |-> "none", code |-> None, wire |-> <<>>, announced |-> None, stated |-> None]
FreshLink == [NoLink EXCEPT !.link = "open"]

\* The generator holds a WebSocket object inside `async with connect(...)`.
InConnection == {"reading", "yielded", "leaving"}
Running(i) == pc[i] # "idle"

\* A _TurnBase._seal() of the Turn at index k, if there is one.
BugSealNothing(ts, k) == ts
Sealed(ts, k) == IF k = None THEN ts ELSE [ts EXCEPT ![k].open = FALSE]

NextDelay(d) == IF 2 * d <= MaxDelay THEN 2 * d ELSE MaxDelay

Jitter(d) == {(8 * d) \div 10, (12 * d) \div 10}   \* the ends of uniform(0.8, 1.2) * d

\* check_handshake_exception: the statuses it raises for, and the pauses it returns.
RateLimited(s) == s \in {409, 429}
BugHandshakeIsFinal(s) == s \notin 500..599
HandshakeIsFinal(s) == ~RateLimited(s) /\ s \notin 500..599
\* _retry_after: 0 when the refusal has no such header, or one that is not a number; the
\* header of a 5xx is not looked at.
AskedBy(s) == IF RateLimited(s) THEN RetryAfters \cup {0} ELSE {0}
BugHandshakePauses(s, asked, d) == IF RateLimited(s) THEN {10} ELSE Jitter(d)
HandshakePauses(s, asked, d) ==
  IF RateLimited(s) THEN {IF asked >= 10 THEN asked ELSE 10} ELSE Jitter(d)

LocalCloseCodes == {1000, 1006}   \* after our own close(): the handshake ends or times out

\* check_close_exception, and the return after close code 1000.
BugCloseIsFinal(c) == c = 1000
CloseIsFinal(c) == c \in {1000, 1008}

-----------------------------------------------------------------------------
Init ==
  /\ closed = FALSE /\ iterating = FALSE /\ socket = NoSocket
  /\ current_tick = None /\ active_turn = None
  /\ latest_receipts = [s \in Sources |-> None]
  /\ turns = <<>>
  /\ pc = [i \in Iterators |-> "idle"]
  /\ loc = [i \in Iterators |-> [delay |-> MinDelay, pause |-> 0, last_tick |-> None]]
  /\ closer = "idle" /\ closing = NoSocket
  /\ ws = [i \in Iterators |-> NoLink]
  /\ server_tick = 1 /\ sent = 0
  /\ seen = [i \in Iterators |->
               [fault |-> None, asked |-> 0, fails |-> 0, handed |-> <<>>]]
  /\ summary = FALSE

-----------------------------------------------------------------------------
(* events(): the ways the body of the loop is left                         *)

\* The inner and the outer finally, then the end of the generator.
BugFinishUnsealed(i, fault) ==
  /\ pc' = [pc EXCEPT ![i] = "idle"]
  /\ socket' = NoSocket
  /\ iterating' = FALSE
  /\ seen' = [seen EXCEPT ![i].fault = fault]
  /\ UNCHANGED <<closed, current_tick, active_turn, latest_receipts, turns, loc>>

Finish(i, fault) ==
  /\ pc' = [pc EXCEPT ![i] = "idle"]
  /\ socket' = NoSocket
  /\ iterating' = FALSE
  /\ turns' = IF closed THEN Sealed(turns, active_turn) ELSE turns
  /\ seen' = [seen EXCEPT ![i].fault = fault]
  /\ UNCHANGED <<closed, current_tick, active_turn, latest_receipts, loc>>

\* The inner finally, `if self._closed: return`, and the sleep.
BugBackoffKeepsSocket(i, fault, asked, pauses) ==
  \/ closed /\ Finish(i, fault)
  \/ /\ ~closed
     /\ pc' = [pc EXCEPT ![i] = "sleeping"]
     /\ \E p \in pauses : loc' = [loc EXCEPT ![i].pause = p]
     /\ seen' = [seen EXCEPT ![i].fault = fault, ![i].asked = asked]
     /\ UNCHANGED clientVars

Backoff(i, fault, asked, pauses) ==
  \/ closed /\ Finish(i, fault)
  \/ /\ ~closed
     /\ socket' = NoSocket
     /\ pc' = [pc EXCEPT ![i] = "sleeping"]
     /\ \E p \in pauses : loc' = [loc EXCEPT ![i].pause = p]
     /\ seen' = [seen EXCEPT ![i].fault = fault, ![i].asked = asked]
     /\ UNCHANGED <<closed, iterating, current_tick, active_turn, latest_receipts, turns>>

\* _start_iteration: ensure_open, then the _iterating guard.  It stands before the try:
\* when it raises ConfigurationError no finally runs and nothing changes.
BugMayStart(i) == pc[i] = "idle" /\ ~closed
MayStart(i) == pc[i] = "idle" /\ ~closed /\ ~iterating

Start(i) ==
  /\ MayStart(i)
  /\ iterating' = TRUE
  /\ pc' = [pc EXCEPT ![i] = "connecting"]
  /\ loc' = [loc EXCEPT ![i] = [delay |-> MinDelay, pause |-> 0, last_tick |-> None]]
  /\ seen' = [seen EXCEPT ![i] =
                [fault |-> None, asked |-> 0, fails |-> 0, handed |-> <<>>]]
  /\ UNCHANGED <<closed, socket, current_tick, active_turn, latest_receipts, turns,
                 closeVars, ws, serverVars, summary>>

-----------------------------------------------------------------------------
(* connect(): the outcomes of the handshake                                *)

BugHandshakeOk(i) ==
  /\ pc[i] = "connecting"
  /\ ws' = [ws EXCEPT ![i] = FreshLink]
  /\ socket' = i
  /\ pc' = [pc EXCEPT ![i] = "reading"]
  /\ seen' = [seen EXCEPT ![i].fails = 0, ![i].fault = None]
  /\ UNCHANGED <<closed, iterating, current_tick, active_turn, latest_receipts, turns,
                 loc, closeVars, serverVars, summary>>

HandshakeOk(i) ==
  /\ pc[i] = "connecting"
  /\ ws' = [ws EXCEPT ![i] = FreshLink]
  /\ socket' = i
  /\ loc' = [loc EXCEPT ![i].delay = MinDelay]
  /\ pc' = [pc EXCEPT ![i] = "reading"]
  /\ seen' = [seen EXCEPT ![i].fails = 0, ![i].fault = None]
  /\ UNCHANGED <<closed, iterating, current_tick, active_turn, latest_receipts, turns,
                 closeVars, serverVars, summary>>

\* InvalidStatus, through check_handshake_exception.
HandshakeStatus(i, s) ==
  /\ pc[i] = "connecting"
  /\ IF HandshakeIsFinal(s)
       THEN Finish(i, s)
       ELSE \E asked \in AskedBy(s) :
              Backoff(i, s, asked, HandshakePauses(s, asked, loc[i].delay))
  /\ UNCHANGED <<closeVars, ws, serverVars, summary>>

\* OSError or TimeoutError.
HandshakeLost(i) ==
  /\ pc[i] = "connecting"
  /\ Backoff(i, OsError, 0, Jitter(loc[i].delay))
  /\ UNCHANGED <<closeVars, ws, serverVars, summary>>

\* What no except clause of events() names leaves it, the broken answer of a server or
\* proxy that died in the handshake included.
HandshakeBroken(i) ==
  /\ pc[i] = "connecting"
  /\ Finish(i, BadHandshake)
  /\ UNCHANGED <<closeVars, ws, serverVars, summary>>

BugWake(i) ==
  /\ pc[i] = "sleeping"
  /\ loc' = [loc EXCEPT ![i].delay = NextDelay(loc[i].delay)]
  /\ pc' = [pc EXCEPT ![i] = "connecting"]
  /\ seen' = [seen EXCEPT ![i].fails = IF @ < MaxFails THEN @ + 1 ELSE @]
  /\ UNCHANGED <<clientVars, closeVars, ws, serverVars, summary>>

\* The sleep ends: the delay doubles and `while not self._closed` is evaluated.
Wake(i) ==
  /\ pc[i] = "sleeping"
  /\ loc' = [loc EXCEPT ![i].delay = NextDelay(loc[i].delay)]
  /\ IF closed
       THEN /\ pc' = [pc EXCEPT ![i] = "idle"]
            /\ iterating' = FALSE
            /\ turns' = Sealed(turns, active_turn)
            /\ UNCHANGED seen
       ELSE /\ pc' = [pc EXCEPT ![i] = "connecting"]
            /\ seen' = [seen EXCEPT ![i].fails = IF @ < MaxFails THEN @ + 1 ELSE @]
            /\ UNCHANGED <<iterating, turns>>
  /\ UNCHANGED <<closed, socket, current_tick, active_turn, latest_receipts,
                 closeVars, ws, serverVars, summary>>

-----------------------------------------------------------------------------
(* `async for raw_message in websocket`: one action per kind of message    *)

Head1(i) == Head(ws[i].wire)
HasMessage(i, type) == pc[i] = "reading" /\ ws[i].wire # <<>> /\ Head1(i).type = type
Consume(i) == ws' = [ws EXCEPT ![i].wire = Tail(@)]

\* A message turns() drops leaves the generator reading; events() yields all.
Deliver(i, dropped) ==
  pc' = [pc EXCEPT ![i] = IF i \in TurnsIterators /\ dropped THEN "reading" ELSE "yielded"]

BugReceiptsAt(t) == latest_receipts
ReceiptsAt(t) ==
  IF current_tick # t THEN [s \in Sources |-> None] ELSE latest_receipts

BugSeeTick(t) ==
  /\ latest_receipts' = ReceiptsAt(t)
  /\ current_tick' = IF current_tick = None THEN t ELSE current_tick
SeeTick(t) ==
  /\ latest_receipts' = ReceiptsAt(t)
  /\ current_tick' = t

ReadTick(i) ==
  /\ HasMessage(i, "tick")
  /\ SeeTick(Head1(i).tick)
  /\ turns' = Sealed(turns, active_turn)
  /\ active_turn' = None
  /\ Consume(i) /\ Deliver(i, TRUE)
  /\ UNCHANGED <<closed, iterating, socket, loc, closeVars, serverVars, seen, summary>>

ReadReceived(i) ==
  /\ HasMessage(i, "received")
  /\ latest_receipts' =
       IF current_tick = Head1(i).tick
         THEN [latest_receipts EXCEPT ![Head1(i).source] = current_tick]
         ELSE latest_receipts
  /\ Consume(i) /\ Deliver(i, TRUE)
  /\ UNCHANGED <<closed, iterating, socket, current_tick, active_turn, turns, loc,
                 closeVars, serverVars, seen, summary>>

\* turns(): the Turn is passed on unless the last one passed on was of its tick.
BugIsRepeat(i) == FALSE
IsRepeat(i) == loc[i].last_tick = current_tick

\* prev_decision_ms is read from _active_turn, before the new Turn replaces it.
PrevDecision == active_turn # None /\ turns[active_turn].decided

ReadState(i) ==
  /\ HasMessage(i, "state") /\ current_tick # None
  /\ summary' = PrevDecision
  /\ turns' = Append(Sealed(turns, active_turn),
                     [tick |-> current_tick, of |-> Head1(i).tick,
                      open |-> TRUE, decided |-> FALSE])
  /\ active_turn' = Len(turns) + 1
  /\ Consume(i) /\ Deliver(i, IsRepeat(i))
  /\ IF i \in TurnsIterators /\ ~IsRepeat(i)
       THEN /\ loc' = [loc EXCEPT ![i].last_tick = current_tick]
            /\ seen' = [seen EXCEPT ![i].handed = Append(@, current_tick)]
       ELSE UNCHANGED <<loc, seen>>
  /\ UNCHANGED <<closed, iterating, socket, current_tick, latest_receipts,
                 closeVars, serverVars>>

\* ProtocolError: the message does not parse, or is a state before any tick.  The
\* exception leaves through __aexit__ of the connection, which awaits its close.
ReadBad(i) ==
  /\ HasMessage(i, "bad") \/ (HasMessage(i, "state") /\ current_tick = None)
  /\ Consume(i)
  /\ pc' = [pc EXCEPT ![i] = "leaving"]
  /\ seen' = [seen EXCEPT ![i].fault = BadMessage]
  /\ UNCHANGED <<clientVars, loc, closeVars, serverVars, summary>>

\* The iteration over the connection ends: code 1000 returns, 1001 falls out of the
\* loop, any other code raises ConnectionClosed, for which 1008 is final.
StreamEnd(i) ==
  /\ pc[i] = "reading" /\ ws[i].wire = <<>> /\ ws[i].link = "closed"
  /\ IF CloseIsFinal(ws[i].code)
       THEN Finish(i, ws[i].code)
       ELSE Backoff(i, ws[i].code, 0, Jitter(loc[i].delay))
  /\ ws' = [ws EXCEPT ![i] = NoLink]
  /\ UNCHANGED <<closeVars, serverVars, summary>>

-----------------------------------------------------------------------------
(* The consumer of the generator                                           *)

Resume(i) ==
  /\ pc[i] = "yielded"
  /\ pc' = [pc EXCEPT ![i] = "reading"]
  /\ UNCHANGED <<clientVars, loc, closeVars, ws, serverVars, seen, summary>>

\* aclose() of a generator whose consumer stopped iterating: GeneratorExit at the yield.
Abandon(i) ==
  /\ pc[i] = "yielded"
  /\ pc' = [pc EXCEPT ![i] = "leaving"]
  /\ UNCHANGED <<clientVars, loc, closeVars, ws, serverVars, seen, summary>>

\* The consuming task is cancelled at one of the generator's awaits.
Cancel(i) ==
  /\ pc[i] \in {"connecting", "reading", "sleeping"}
  /\ \/ /\ pc[i] = "reading"
        /\ pc' = [pc EXCEPT ![i] = "leaving"]
        /\ UNCHANGED <<clientVars, loc, seen>>
     \/ pc[i] # "reading" /\ Finish(i, None)
  /\ UNCHANGED <<closeVars, ws, serverVars, summary>>

\* __aexit__ of the connection has closed it; the exception reaches the finally blocks.
LeaveDone(i) ==
  /\ pc[i] = "leaving"
  /\ ws' = [ws EXCEPT ![i] = NoLink]
  /\ Finish(i, seen[i].fault)
  /\ UNCHANGED <<closeVars, serverVars, summary>>

\* Turn.plan on any Turn the application holds: the time is recorded, then build()
\* raises TurnClosedError if the Turn is sealed.
ReadPlan(k) ==
  /\ k \in DOMAIN turns /\ ~turns[k].decided
  /\ turns' = [turns EXCEPT ![k].decided = TRUE]
  /\ UNCHANGED <<closed, iterating, socket, current_tick, active_turn, latest_receipts,
                 pc, loc, closeVars, ws, serverVars, seen, summary>>

-----------------------------------------------------------------------------
(* close()                                                                 *)

CloseBegin ==
  /\ ~closed
  /\ closed' = TRUE
  /\ turns' = Sealed(turns, active_turn)
  /\ closing' = socket
  /\ closer' = IF socket # NoSocket THEN "socket" ELSE "http"
  /\ UNCHANGED <<iterating, socket, current_tick, active_turn, latest_receipts,
                 pc, loc, ws, serverVars, seen, summary>>

\* `await self._socket.close()`: the closing handshake, or its timeout.  Messages that
\* had arrived are still handed out by recv().
CloseSocket ==
  /\ closer = "socket"
  /\ \E i \in Iterators, c \in LocalCloseCodes :
       /\ i = closing
       /\ ws' = IF ws[i].link = "open"
                  THEN [ws EXCEPT ![i].link = "closed", ![i].code = c] ELSE ws
  /\ closer' = "http"
  /\ UNCHANGED <<clientVars, pc, loc, closing, serverVars, seen, summary>>

\* `await self._http.aclose()`, the last telemetry event, and the sink's close.
CloseHttp ==
  /\ closer = "http"
  /\ closer' = "done"
  /\ UNCHANGED <<clientVars, pc, loc, closing, ws, serverVars, seen, summary>>

-----------------------------------------------------------------------------
(* The server and the network (external)                                   *)

Send(i, m) ==
  /\ ws[i].link = "open" /\ Len(ws[i].wire) < MaxWire
  /\ ws' = [ws EXCEPT ![i].wire = Append(@, m),
                      ![i].announced = IF m.type = "tick" THEN m.tick ELSE @,
                      ![i].stated = IF m.type = "state" THEN m.tick ELSE @]
  /\ UNCHANGED <<clientVars, pc, loc, closeVars, server_tick, seen, summary>>

SendTick(i) ==
  /\ Repeats \/ ws[i].announced # server_tick
  /\ Send(i, [type |-> "tick", tick |-> server_tick])
  /\ UNCHANGED sent

SendState(i) ==
  /\ sent < MaxStates
  /\ \E t \in (IF ws[i].announced # None THEN {ws[i].announced}
              ELSE IF LaxServer THEN {server_tick} ELSE {}) :
       /\ Repeats \/ ws[i].stated # t
       /\ Send(i, [type |-> "state", tick |-> t])
  /\ sent' = sent + 1

\* Receipts may be late by a tick.
SendReceived(i, s) ==
  /\ \E t \in {server_tick - 1, server_tick} \cap Nat :
       Send(i, [type |-> "received", source |-> s, tick |-> t])
  /\ UNCHANGED sent

SendBad(i) ==
  /\ Send(i, [type |-> "bad"])
  /\ UNCHANGED sent

ServerTick ==
  /\ server_tick < MaxTick
  /\ server_tick' = server_tick + 1
  /\ UNCHANGED <<clientVars, pc, loc, closeVars, ws, sent, seen, summary>>

\* The server or the network ends the connection; what was in flight is delivered or lost.
LinkFails(i) ==
  /\ ws[i].link = "open"
  /\ \E c \in CloseCodes, w \in {ws[i].wire, <<>>} :
       ws' = [ws EXCEPT ![i].link = "closed", ![i].code = c, ![i].wire = w]
  /\ UNCHANGED <<clientVars, pc, loc, closeVars, serverVars, seen, summary>>

-----------------------------------------------------------------------------
Generator(i) ==
  \/ Start(i) \/ HandshakeOk(i) \/ HandshakeLost(i) \/ (\E s \in Statuses : HandshakeStatus(i, s))
  \/ HandshakeBroken(i) \/ Wake(i)
  \/ ReadTick(i) \/ ReadReceived(i) \/ ReadState(i) \/ ReadBad(i) \/ StreamEnd(i)
  \/ Resume(i) \/ Abandon(i) \/ Cancel(i) \/ LeaveDone(i)

Server(i) ==
  \/ SendTick(i) \/ SendState(i) \/ SendBad(i) \/ LinkFails(i)
  \/ \E s \in Sources : SendReceived(i, s)

Next ==
  \/ \E i \in Iterators : Generator(i) \/ Server(i)
  \/ \E k \in DOMAIN turns : ReadPlan(k)
  \/ CloseBegin \/ CloseSocket \/ CloseHttp
  \/ ServerTick

Spec == Init /\ [][Next]_vars

-----------------------------------------------------------------------------
(* Fairness: the event loop runs every task that can run, sleeps and       *)
(* library timeouts (open_timeout, close_timeout) end, the consumer keeps  *)
(* asking for the next event, and a server that is tried again and again   *)
(* accepts in the end.  Nothing is assumed of what the server sends.       *)

LoopStep(i) ==
  \/ HandshakeOk(i) \/ HandshakeLost(i) \/ Wake(i) \/ LeaveDone(i) \/ StreamEnd(i)
  \/ ReadTick(i) \/ ReadReceived(i) \/ ReadState(i) \/ ReadBad(i) \/ Resume(i)

Fairness ==
  /\ \A i \in Iterators : WF_vars(LoopStep(i)) /\ SF_vars(HandshakeOk(i))
  /\ WF_vars(CloseSocket) /\ WF_vars(CloseHttp)

FairSpec == Spec /\ Fairness

-----------------------------------------------------------------------------
(* Properties                                                              *)

ClientType ==
  /\ closed \in BOOLEAN /\ iterating \in BOOLEAN
  /\ socket \in Iterators \cup {NoSocket}
  /\ current_tick \in Nat
  /\ latest_receipts \in [Sources -> Nat]
  /\ turns \in Seq(Turns) /\ active_turn \in 0..Len(turns)

GeneratorType ==
  /\ pc \in [Iterators -> {"idle", "connecting", "sleeping"} \cup InConnection]
  /\ loc \in [Iterators -> Locals]
  /\ seen \in [Iterators -> Histories]

ExternalType ==
  /\ ws \in [Iterators -> Links]
  /\ server_tick \in Nat /\ sent \in Nat

TypeOK ==
  /\ ClientType /\ GeneratorType /\ ExternalType
  /\ closer \in {"idle", "socket", "http", "done"}
  /\ closing \in Iterators \cup {NoSocket}
  /\ summary \in BOOLEAN

\* At any time at most one of the Turns ever built accepts actions: the one the client
\* holds as active, whose tick is the last one announced.  A Turn retained across a
\* newer tick, a replacement state, a reconnect or close() is sealed (_materialize, close).
OneOpenTurn ==
  /\ \A k \in DOMAIN turns : turns[k].open => k = active_turn
  /\ active_turn # None => turns[active_turn].tick = current_tick

\* latest_receipts never mixes ticks: a receipt shown is of the current tick, even when
\* it arrives late or on another connection (_materialize).
ReceiptsCurrent == \A s \in Sources : latest_receipts[s] \in {None, current_tick}

\* The _iterating flag is exact: it is set while a generator is inside its body and
\* only then, however it ended, and no two are inside together (_start_iteration).
OneIterator ==
  /\ iterating <=> \E i \in Iterators : Running(i)
  /\ \A i, j \in Iterators : Running(i) /\ Running(j) => i = j

\* The socket close() finds is the connection in use: registered exactly while a
\* generator is inside `async with connect`, gone while it connects, sleeps or is over.
SocketInUse == \A i \in Iterators : socket = i <=> pc[i] \in InConnection

\* After close(), once the generator is over, no Turn accepts actions -- not even one
\* built from a message delivered after close() had sealed the active one.
ClosedMeansSealed ==
  closed /\ ~iterating => \A k \in DOMAIN turns : ~turns[k].open

\* The invariants above are inductive together.
Safety == OneOpenTurn /\ ReceiptsCurrent /\ OneIterator /\ SocketInUse /\ ClosedMeansSealed
IInv == TypeOK /\ Safety

\* turns() hands out each tick at most once and in order, over replacement states,
\* repeated announcements and reconnects.
HandedOnce ==
  \A i \in Iterators : \A a, b \in DOMAIN seen[i].handed :
    a < b => seen[i].handed[a] < seen[i].handed[b]

\* The tick of a Turn is the tick of the state it shows, although the state message
\* carries none and current_tick survives the connection.
TurnHasTickOfState == \A k \in DOMAIN turns : turns[k].tick = turns[k].of

\* The generator sleeps to try again after a transient fault only, and a transient fault
\* ends it only when the client was closed meanwhile (check_close_exception,
\* check_handshake_exception).
Transient == {OsError, 409, 429} \cup 500..599 \cup (1001..4999 \ {1008})
RetryExactlyTransient ==
  \A i \in Iterators :
    /\ pc[i] = "sleeping" => seen[i].fault \in Transient
    /\ pc[i] = "idle" /\ seen[i].fault \in Transient => closed

\* The delay is exactly min(MinDelay * 2^n, MaxDelay) after n failed attempts since the
\* last established connection; a sleeping generator stays away 80% to 120% of it, or, when
\* the server limits it (409, 429), exactly as long as the Retry-After of that very refusal
\* asks, a second at least (check_handshake_exception).
Doubled[n \in Nat] == IF n = 0 THEN MinDelay ELSE 2 * Doubled[n - 1]
ASSUME FailsAssumption == Doubled[MaxFails] >= MaxDelay   \* the counter stops past the cap
LongEnough(i) ==
  IF RateLimited(seen[i].fault)
    THEN /\ loc[i].pause >= 10 /\ loc[i].pause >= seen[i].asked
         /\ loc[i].pause \in {10, seen[i].asked}
    ELSE 8 * loc[i].delay < 10 * (loc[i].pause + 1) /\ 10 * loc[i].pause <= 12 * loc[i].delay
BackoffExact ==
  \A i \in Iterators :
    /\ pc[i] \in {"connecting", "sleeping"} =>
         loc[i].delay = IF Doubled[seen[i].fails] <= MaxDelay THEN Doubled[seen[i].fails]
                                                              ELSE MaxDelay
    /\ pc[i] = "sleeping" => LongEnough(i)

\* A client that lost its connection is connected again, unless the client is closed or
\* cancelled or meets a final refusal: it neither sleeps for ever nor gives up by itself.
Reconnects ==
  \A i \in Iterators : pc[i] = "sleeping" ~>
    \/ pc[i] = "reading"
    \/ pc[i] = "idle" /\ (closed \/ seen[i].fault \notin Transient)

\* close() ends the generator when it found a connection, a pause, or a connection already
\* lost.  From within a handshake, where there is nothing yet to close, the generator ends
\* or gets its connection; that one is left to the server (see README).
CloseEndsGenerator ==
  \A i \in Iterators :
    /\ (closing = i \/ (closed /\ (pc[i] = "sleeping" \/ ws[i].link = "closed"))) ~> pc[i] = "idle"
    /\ (closed /\ pc[i] = "connecting") ~> (pc[i] = "idle" \/ ws[i].link = "open")

\* What an application sees of its Turns is the abstract life of TurnLife: over all the
\* reconnects, generators and closes, a Turn is built for the announced tick only, and no
\* Turn is open once something newer came or the closed client is at rest.
Shown(ts) == [k \in DOMAIN ts |-> [tick |-> ts[k].tick, open |-> ts[k].open]]
Lifecycle == INSTANCE TurnLife WITH
  turns <- Shown(turns), active <- active_turn, tick <- current_tick, ended <- closed /\ ~iterating
LifeSpec == Lifecycle!Life

\* tick_summary reports the decision time of the previous tick's Turn when it has one.
PrevDecisionReported ==
  [][Len(turns') > Len(turns) /\ turns # <<>> =>
       (turns[Len(turns)].decided => summary')]_vars
=============================================================================
