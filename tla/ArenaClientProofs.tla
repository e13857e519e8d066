------------------------- MODULE ArenaClientProofs -------------------------
(* Proofs about ArenaClient, for any sets of generators, sources, statuses, *)
(* close codes and delays, and any bounds, in five parts: type correctness; *)
(* the safety invariants; ArenaClient implements TurnLife; the order of the *)
(* ticks; what the reconnect loop retries and how long it stays away.       *)
EXTENDS ArenaClient, NatRecursion, TLAPS

-----------------------------------------------------------------------------
(* Lemmas on the helpers                                                    *)

\* _seal() keeps the list of Turns and their ticks, closes the Turn at k and no other.
LEMMA SealedFacts ==
  ASSUME NEW ts \in Seq(Turns), NEW k \in 0..Len(ts)
  PROVE  /\ Sealed(ts, k) \in Seq(Turns)
         /\ Len(Sealed(ts, k)) = Len(ts)
         /\ \A j \in 1..Len(ts) : /\ Sealed(ts, k)[j].tick = ts[j].tick
                                  /\ Sealed(ts, k)[j].open <=> (ts[j].open /\ j # k)
<1>1. CASE k = 0
  <2>1. Sealed(ts, k) = ts
    BY <1>1 DEF Sealed, None
  <2> QED BY <2>1, <1>1
<1>2. CASE k # 0
  <2>1. Sealed(ts, k) = [ts EXCEPT ![k].open = FALSE]
    BY <1>2 DEF Sealed, None
  <2>2. k \in 1..Len(ts) /\ ts \in [1..Len(ts) -> Turns]
    BY <1>2
  <2>3. \A j \in 1..Len(ts) : Sealed(ts, k)[j] =
          IF j = k THEN [ts[j] EXCEPT !.open = FALSE] ELSE ts[j]
    BY <2>1, <2>2
  <2>4. \A j \in 1..Len(ts) : Sealed(ts, k)[j] \in Turns
    BY <2>2, <2>3 DEF Turns
  <2>5. Sealed(ts, k) \in [1..Len(ts) -> Turns]
    BY <2>1, <2>2, <2>4
  <2>6. Sealed(ts, k) \in Seq(Turns) /\ Len(Sealed(ts, k)) = Len(ts)
    BY <2>5
  <2>7. \A j \in 1..Len(ts) : /\ Sealed(ts, k)[j].tick = ts[j].tick
                              /\ Sealed(ts, k)[j].open <=> (ts[j].open /\ j # k)
    BY <2>2, <2>3 DEF Turns
  <2> QED BY <2>6, <2>7
<1> QED BY <1>1, <1>2

\* The backoff stays between the configured delays.
LEMMA NextDelayBounds ==
  ASSUME NEW d \in MinDelay..MaxDelay
  PROVE  NextDelay(d) \in MinDelay..MaxDelay
BY ClientAssumption DEF NextDelay

\* Pauses are numbers of tenths of a second.
LEMMA JitterIsNat ==
  ASSUME NEW d \in MinDelay..MaxDelay
  PROVE  Jitter(d) \subseteq Nat
<1>1. d \in Nat
  BY ClientAssumption
<1> QED BY <1>1 DEF Jitter

LEMMA PausesAreNat ==
  ASSUME NEW d \in MinDelay..MaxDelay, NEW s, NEW a \in AskedBy(s)
  PROVE  a \in Nat /\ HandshakePauses(s, a, d) \subseteq Nat
<1>1. a \in Nat
  BY ClientAssumption DEF AskedBy
<1> QED BY <1>1, JitterIsNat DEF HandshakePauses

\* A handshake status is a number.
LEMMA StatusIsNat ==
  ASSUME NEW s \in Statuses
  PROVE  s \in Nat
  BY ClientAssumption

\* Every message has the fields of its kind.
LEMMA MessageFields ==
  ASSUME NEW m \in Messages
  PROVE  /\ m.type \in {"tick", "state"} => m.tick \in Nat
         /\ m.type = "received" => m.source \in Sources /\ m.tick \in Nat
<1>1. CASE m \in TickMsgs
  BY <1>1 DEF TickMsgs
<1>2. CASE m \in ReceivedMsgs
  BY <1>2 DEF ReceivedMsgs
<1>3. CASE m \in BadMsgs
  BY <1>3 DEF BadMsgs
<1> QED BY <1>1, <1>2, <1>3 DEF Messages

\* Taking the first message off the wire.
LEMMA ConsumeType ==
  ASSUME ws \in [Iterators -> Links], NEW i \in Iterators, ws[i].wire # <<>>, Consume(i)
  PROVE  ws' \in [Iterators -> Links] /\ Head1(i) \in Messages
<1>1. ws[i].wire \in Seq(Messages)
  BY DEF Links
<1>2. Tail(ws[i].wire) \in Seq(Messages) /\ Head(ws[i].wire) \in Messages
  BY <1>1
<1> QED BY <1>2 DEF Consume, Head1, Links

\* The last step of a generator.
LEMMA FinishType ==
  ASSUME TypeOK, NEW i \in Iterators, NEW f \in Nat, Finish(i, f)
  PROVE  ClientType' /\ GeneratorType'
<1>1. Sealed(turns, active_turn) \in Seq(Turns) /\ Len(Sealed(turns, active_turn)) = Len(turns)
  BY SealedFacts DEF TypeOK, ClientType
<1>2. ClientType'
  BY <1>1 DEF TypeOK, ClientType, Finish
<1>3. GeneratorType'
  BY DEF TypeOK, GeneratorType, Finish, Histories
<1> QED BY <1>2, <1>3

\* The step into the sleep.
LEMMA BackoffType ==
  ASSUME TypeOK, NEW i \in Iterators, NEW f \in Nat, NEW a \in Nat,
         NEW P \in SUBSET Nat, Backoff(i, f, a, P)
  PROVE  ClientType' /\ GeneratorType'
<1>1. CASE Finish(i, f)
  BY <1>1, FinishType
<1>2. CASE ~closed /\ ~Finish(i, f)
  <2>1. ClientType'
    BY <1>2 DEF TypeOK, ClientType, Backoff
  <2>2. GeneratorType'
    <3>1. PICK p \in P : loc' = [loc EXCEPT ![i].pause = p]
      BY <1>2 DEF Backoff
    <3>2. loc' \in [Iterators -> Locals]
      BY <3>1 DEF TypeOK, GeneratorType, Locals
    <3>3. /\ pc' = [pc EXCEPT ![i] = "sleeping"]
          /\ seen' = [seen EXCEPT ![i].fault = f, ![i].asked = a]
      BY <1>2 DEF Backoff
    <3> QED BY <3>2, <3>3 DEF TypeOK, GeneratorType, Histories
  <2> QED BY <2>1, <2>2
<1> QED BY <1>1, <1>2 DEF Backoff

-----------------------------------------------------------------------------
(* Type correctness                                                         *)

LEMMA TypeInit == Init => TypeOK
<1> SUFFICES ASSUME Init PROVE TypeOK
  OBVIOUS
<1>1. ClientType
  <2>1. turns \in Seq(Turns) /\ active_turn \in 0..Len(turns)
    BY DEF Init, None
  <2> QED BY <2>1 DEF Init, ClientType, None
<1>2. GeneratorType
  BY ClientAssumption DEF Init, GeneratorType, Locals, Histories, None
<1>3. ExternalType
  BY DEF Init, ExternalType, Links, NoLink, None
<1> QED BY <1>1, <1>2, <1>3 DEF Init, TypeOK

\* A step of a generator.
LEMMA GeneratorTypeStep ==
  ASSUME TypeOK, NEW i \in Iterators, Generator(i)
  PROVE  TypeOK'
<1> USE DEF TypeOK
<1>0. ws[i].wire # <<>> /\ Consume(i) => ws' \in [Iterators -> Links] /\ Head1(i) \in Messages
  BY ConsumeType DEF ExternalType
<1>1. CASE Start(i)
  <2>1. ClientType'
    BY <1>1 DEF Start, ClientType
  <2>2. GeneratorType'
    <3>1. [delay |-> MinDelay, pause |-> 0, last_tick |-> None] \in Locals
      BY ClientAssumption DEF Locals, None
    <3>2. [fault |-> None, asked |-> 0, fails |-> 0, handed |-> <<>>] \in Histories
      BY DEF Histories, None
    <3> QED BY <1>1, <3>1, <3>2 DEF Start, GeneratorType
  <2> QED BY <1>1, <2>1, <2>2 DEF Start, ExternalType, closeVars, serverVars
<1>2. CASE HandshakeOk(i)
  <2>1. ClientType'
    BY <1>2 DEF HandshakeOk, ClientType
  <2>2. GeneratorType'
    <3>1. loc' \in [Iterators -> Locals]
      BY <1>2, ClientAssumption DEF HandshakeOk, GeneratorType, Locals
    <3>2. seen' \in [Iterators -> Histories]
      BY <1>2 DEF HandshakeOk, GeneratorType, Histories, None
    <3> QED BY <1>2, <3>1, <3>2 DEF HandshakeOk, GeneratorType, InConnection
  <2>3. FreshLink \in Links
    <3>1. FreshLink = [link |-> "open", code |-> 0, wire |-> <<>>, announced |-> 0, stated |-> 0]
      BY DEF FreshLink, NoLink, None
    <3> QED BY <3>1 DEF Links
  <2>4. ws' \in [Iterators -> Links]
    BY <1>2, <2>3 DEF HandshakeOk, ExternalType
  <2> QED BY <1>2, <2>1, <2>2, <2>4 DEF HandshakeOk, ExternalType, closeVars, serverVars
<1>3. CASE HandshakeLost(i)
  <2>1. Jitter(loc[i].delay) \subseteq Nat
    BY JitterIsNat DEF GeneratorType, Locals
  <2>2. ClientType' /\ GeneratorType'
    BY <1>3, <2>1, BackoffType DEF HandshakeLost, OsError
  <2> QED BY <1>3, <2>2 DEF HandshakeLost, ExternalType, closeVars, serverVars
<1>4. ASSUME NEW s \in Statuses, HandshakeStatus(i, s) PROVE TypeOK'
  <2>1. loc[i].delay \in MinDelay..MaxDelay /\ s \in Nat
    <3>1. loc[i].delay \in MinDelay..MaxDelay
      BY DEF GeneratorType, Locals
    <3>2. s \in Nat
      BY StatusIsNat
    <3> QED BY <3>1, <3>2
  <2>2. ClientType' /\ GeneratorType'
    <3>1. CASE Finish(i, s)
      BY <2>1, <3>1, FinishType
    <3>2. CASE ~Finish(i, s)
      <4>1. PICK a \in AskedBy(s) : Backoff(i, s, a, HandshakePauses(s, a, loc[i].delay))
        BY <1>4, <3>2 DEF HandshakeStatus
      <4>2. a \in Nat /\ HandshakePauses(s, a, loc[i].delay) \subseteq Nat
        BY <2>1, PausesAreNat
      <4> QED BY <2>1, <4>1, <4>2, BackoffType
    <3> QED BY <3>1, <3>2
  <2> QED BY <1>4, <2>2 DEF HandshakeStatus, ExternalType, closeVars, serverVars
<1>5. CASE Wake(i)
  <2>1. Sealed(turns, active_turn) \in Seq(Turns)
        /\ Len(Sealed(turns, active_turn)) = Len(turns)
    BY SealedFacts DEF ClientType
  <2>2. ClientType'
    BY <1>5, <2>1 DEF Wake, ClientType
  <2>3. NextDelay(loc[i].delay) \in MinDelay..MaxDelay
    BY NextDelayBounds DEF GeneratorType, Locals
  <2>4. GeneratorType'
    <3>1. loc' \in [Iterators -> Locals]
      BY <1>5, <2>3 DEF Wake, GeneratorType, Locals
    <3>2. seen' \in [Iterators -> Histories]
      <4>1. seen[i].fails \in Nat /\ seen[i].fails + 1 \in Nat
        BY DEF GeneratorType, Histories
      <4>2. CASE closed
        BY <1>5, <4>2 DEF Wake, GeneratorType
      <4>3. CASE ~closed
        <5>1. PICK n \in Nat : seen' = [seen EXCEPT ![i].fails = n]
          BY <1>5, <4>1, <4>3 DEF Wake
        <5> QED BY <5>1 DEF GeneratorType, Histories
      <4> QED BY <4>2, <4>3
    <3> QED BY <1>5, <3>1, <3>2 DEF Wake, GeneratorType
  <2> QED BY <1>5, <2>2, <2>4 DEF Wake, ExternalType, closeVars, serverVars
<1>6. CASE ReadTick(i)
  <2>1. ws' \in [Iterators -> Links] /\ Head1(i).tick \in Nat
    BY <1>0, <1>6, MessageFields DEF ReadTick, HasMessage
  <2>2. Sealed(turns, active_turn) \in Seq(Turns)
    BY SealedFacts DEF ClientType
  <2>3. ClientType'
    BY <1>6, <2>1, <2>2 DEF ReadTick, SeeTick, ReceiptsAt, ClientType, None
  <2>4. GeneratorType'
    BY <1>6 DEF ReadTick, Deliver, GeneratorType, InConnection
  <2> QED BY <1>6, <2>1, <2>3, <2>4 DEF ReadTick, ExternalType, closeVars, serverVars
<1>7. CASE ReadReceived(i)
  <2>1. ws' \in [Iterators -> Links] /\ Head1(i).source \in Sources
    BY <1>0, <1>7, MessageFields DEF ReadReceived, HasMessage
  <2>2. ClientType'
    BY <1>7, <2>1 DEF ReadReceived, ClientType
  <2>3. GeneratorType'
    BY <1>7 DEF ReadReceived, Deliver, GeneratorType, InConnection
  <2> QED BY <1>7, <2>1, <2>2, <2>3 DEF ReadReceived, ExternalType, closeVars, serverVars
<1>8. CASE ReadState(i)
  <2>1. ws' \in [Iterators -> Links] /\ Head1(i).tick \in Nat
    BY <1>0, <1>8, MessageFields DEF ReadState, HasMessage
  <2>2. Sealed(turns, active_turn) \in Seq(Turns)
        /\ Len(Sealed(turns, active_turn)) = Len(turns)
    BY SealedFacts DEF ClientType
  <2>3. [tick |-> current_tick, of |-> Head1(i).tick, open |-> TRUE, decided |-> FALSE]
          \in Turns
    BY <2>1 DEF ClientType, Turns
  <2>4. turns' \in Seq(Turns) /\ Len(turns') = Len(turns) + 1
    BY <1>8, <2>2, <2>3 DEF ReadState
  <2>5. ClientType'
    BY <1>8, <2>4 DEF ReadState, ClientType
  <2>6. pc' \in [Iterators -> {"idle", "connecting", "sleeping"} \cup InConnection]
    BY <1>8 DEF ReadState, Deliver, GeneratorType, InConnection
  <2>7. loc' \in [Iterators -> Locals]
    <3>1. current_tick \in Nat
      BY DEF ClientType
    <3>2. CASE loc' = [loc EXCEPT ![i].last_tick = current_tick]
      BY <3>1, <3>2 DEF GeneratorType, Locals
    <3>3. CASE loc' = loc
      BY <3>3 DEF GeneratorType
    <3> QED BY <1>8, <3>2, <3>3 DEF ReadState
  <2>8. seen' \in [Iterators -> Histories]
    <3>1. Append(seen[i].handed, current_tick) \in Seq(Nat)
      BY DEF GeneratorType, Histories, ClientType
    <3> QED BY <1>8, <3>1 DEF ReadState, GeneratorType, Histories
  <2>9. summary' \in BOOLEAN
    <3>1. active_turn # None => turns[active_turn].decided \in BOOLEAN
      <4>1. active_turn # None => turns[active_turn] \in Turns
        BY DEF ClientType, None
      <4> QED BY <4>1 DEF Turns
    <3> QED BY <1>8, <3>1 DEF ReadState, PrevDecision
  <2> QED BY <1>8, <2>1, <2>5, <2>6, <2>7, <2>8, <2>9
      DEF ReadState, ExternalType, GeneratorType, closeVars, serverVars
<1>9. CASE ReadBad(i)
  <2>1. ws' \in [Iterators -> Links]
    BY <1>0, <1>9 DEF ReadBad, HasMessage
  <2>2. ClientType'
    BY <1>9 DEF ReadBad, ClientType, clientVars
  <2>3. GeneratorType'
    BY <1>9 DEF ReadBad, GeneratorType, InConnection, Histories, BadMessage
  <2> QED BY <1>9, <2>1, <2>2, <2>3 DEF ReadBad, ExternalType, closeVars, serverVars
<1>10. NoLink \in Links
  BY DEF NoLink, Links, None
<1>11. CASE StreamEnd(i)
  <2>1. Jitter(loc[i].delay) \subseteq Nat /\ ws[i].code \in Nat
    BY JitterIsNat DEF GeneratorType, Locals, ExternalType, Links
  <2>2. ClientType' /\ GeneratorType'
    BY <1>11, <2>1, BackoffType, FinishType DEF StreamEnd
  <2> QED BY <1>10, <1>11, <2>2 DEF StreamEnd, ExternalType, closeVars, serverVars
<1>12. CASE Resume(i) \/ Abandon(i)
  BY <1>12 DEF Resume, Abandon, ClientType, GeneratorType, ExternalType, InConnection,
               clientVars, closeVars, serverVars
<1>13. CASE Cancel(i)
  <2>1. CASE Finish(i, None)
    <3>1. ClientType' /\ GeneratorType'
      BY <2>1, FinishType DEF None
    <3> QED BY <1>13, <3>1 DEF Cancel, ExternalType, closeVars, serverVars
  <2>2. CASE ~Finish(i, None)
    BY <1>13, <2>2 DEF Cancel, ClientType, GeneratorType, ExternalType, InConnection,
                       clientVars, closeVars, serverVars
  <2> QED BY <2>1, <2>2
<1>14. CASE LeaveDone(i)
  <2>1. seen[i].fault \in Nat
    BY DEF GeneratorType, Histories
  <2>2. ClientType' /\ GeneratorType'
    BY <1>14, <2>1, FinishType DEF LeaveDone
  <2> QED BY <1>10, <1>14, <2>2 DEF LeaveDone, ExternalType, closeVars, serverVars
<1>15. CASE HandshakeBroken(i)
  <2>1. ClientType' /\ GeneratorType'
    BY <1>15, FinishType DEF HandshakeBroken, BadHandshake
  <2> QED BY <1>15, <2>1 DEF HandshakeBroken, ExternalType, closeVars, serverVars
<1> QED
  BY <1>1, <1>2, <1>3, <1>4, <1>5, <1>6, <1>7, <1>8, <1>9, <1>11, <1>12, <1>13, <1>14, <1>15
  DEF Generator

\* A step of the server or of the network on one connection.
LEMMA ServerTypeStep ==
  ASSUME TypeOK, NEW i \in Iterators, Server(i)
  PROVE  TypeOK'
<1> USE DEF TypeOK
<1>1. ASSUME NEW m \in Messages, Send(i, m), m.type = "tick" \/ m.type = "state" => m.tick \in Nat
      PROVE  ws' \in [Iterators -> Links]
  <2>1. Append(ws[i].wire, m) \in Seq(Messages)
    BY <1>1 DEF ExternalType, Links
  <2>2. ws[i].announced \in Nat /\ ws[i].stated \in Nat
    BY DEF ExternalType, Links
  <2>3. PICK a \in Nat, b \in Nat :
          ws' = [ws EXCEPT ![i].wire = Append(ws[i].wire, m), ![i].announced = a, ![i].stated = b]
    BY <1>1, <2>2 DEF Send
  <2> QED BY <2>1, <2>3 DEF ExternalType, Links
<1>2. ASSUME NEW m \in Messages, Send(i, m), sent' \in Nat
      PROVE  TypeOK'
  <2>1. ws' \in [Iterators -> Links]
    BY <1>1, <1>2, MessageFields
  <2> QED BY <1>2, <2>1
          DEF Send, ClientType, GeneratorType, ExternalType, clientVars, closeVars
<1>3. sent \in Nat /\ sent + 1 \in Nat /\ server_tick \in Nat /\ ws[i].announced \in Nat
  BY DEF ExternalType, Links
<1>4. CASE SendTick(i)
  <2>1. [type |-> "tick", tick |-> server_tick] \in Messages
    BY <1>3 DEF Messages, TickMsgs
  <2> QED BY <1>2, <1>3, <1>4, <2>1 DEF SendTick
<1>5. CASE SendState(i)
  <2>1. PICK t \in Nat : Send(i, [type |-> "state", tick |-> t])
    BY <1>3, <1>5 DEF SendState
  <2>2. [type |-> "state", tick |-> t] \in Messages
    BY DEF Messages, TickMsgs
  <2> QED BY <1>2, <1>3, <1>5, <2>1, <2>2 DEF SendState
<1>6. ASSUME NEW s \in Sources, SendReceived(i, s) PROVE TypeOK'
  <2>1. PICK t \in Nat : Send(i, [type |-> "received", source |-> s, tick |-> t])
    BY <1>6 DEF SendReceived
  <2>2. [type |-> "received", source |-> s, tick |-> t] \in Messages
    BY DEF Messages, ReceivedMsgs
  <2> QED BY <1>2, <1>3, <1>6, <2>1, <2>2 DEF SendReceived
<1>7. CASE SendBad(i)
  <2>1. [type |-> "bad"] \in Messages
    BY DEF Messages, BadMsgs
  <2> QED BY <1>2, <1>3, <1>7, <2>1 DEF SendBad
<1>8. CASE LinkFails(i)
  <2>1. PICK c \in CloseCodes, w \in {ws[i].wire, <<>>} :
          ws' = [ws EXCEPT ![i].link = "closed", ![i].code = c, ![i].wire = w]
    BY <1>8 DEF LinkFails
  <2>2. c \in Nat /\ w \in Seq(Messages)
    <3>1. c \in Nat
      BY ClientAssumption
    <3>2. <<>> \in Seq(Messages) /\ ws[i].wire \in Seq(Messages)
      BY DEF ExternalType, Links
    <3> QED BY <3>1, <3>2
  <2>3. ws' \in [Iterators -> Links]
    BY <2>1, <2>2 DEF ExternalType, Links
  <2> QED BY <1>8, <2>3
          DEF LinkFails, ClientType, GeneratorType, ExternalType, clientVars, closeVars, serverVars
<1> QED BY <1>4, <1>5, <1>6, <1>7, <1>8 DEF Server

\* The steps of close(), of the application and of the server's clock.
LEMMA OtherTypeStep ==
  ASSUME TypeOK
  PROVE  (\E k \in DOMAIN turns : ReadPlan(k)) \/ CloseBegin \/ CloseSocket \/ CloseHttp
           \/ ServerTick => TypeOK'
<1> USE DEF TypeOK
<1>1. ASSUME NEW k \in DOMAIN turns, ReadPlan(k) PROVE TypeOK'
  <2>1. turns' \in Seq(Turns) /\ Len(turns') = Len(turns)
    <3>1. k \in 1..Len(turns) /\ turns \in [1..Len(turns) -> Turns]
      BY DEF ClientType
    <3>2. turns' = [turns EXCEPT ![k].decided = TRUE]
      BY <1>1 DEF ReadPlan
    <3>3. [turns[k] EXCEPT !.decided = TRUE] \in Turns
      BY <3>1 DEF Turns
    <3>4. turns' \in [1..Len(turns) -> Turns]
      BY <3>1, <3>2, <3>3
    <3>5. Len(turns) \in Nat
      BY DEF ClientType
    <3> QED BY <3>4, <3>5
  <2> QED BY <1>1, <2>1
          DEF ReadPlan, ClientType, GeneratorType, ExternalType, closeVars, serverVars
<1>2. CASE CloseBegin
  <2>1. Sealed(turns, active_turn) \in Seq(Turns)
        /\ Len(Sealed(turns, active_turn)) = Len(turns)
    BY SealedFacts DEF ClientType
  <2> QED BY <1>2, <2>1
          DEF CloseBegin, ClientType, GeneratorType, ExternalType, serverVars
<1>3. CASE CloseSocket
  <2>1. ws' \in [Iterators -> Links]
    <3>1. PICK i \in Iterators, c \in LocalCloseCodes :
            i = closing /\ ws' = IF ws[i].link = "open"
                                   THEN [ws EXCEPT ![i].link = "closed", ![i].code = c] ELSE ws
      BY <1>3 DEF CloseSocket
    <3>2. CASE ws' = ws
      BY <3>2 DEF ExternalType
    <3>3. CASE ws' = [ws EXCEPT ![i].link = "closed", ![i].code = c]
      <4>1. i \in Iterators /\ c \in Nat
        BY <3>1 DEF LocalCloseCodes
      <4> QED BY <3>3, <4>1 DEF ExternalType, Links
    <3> QED BY <3>1, <3>2, <3>3
  <2> QED BY <1>3, <2>1
          DEF CloseSocket, ClientType, GeneratorType, ExternalType, clientVars, serverVars
<1>4. CASE CloseHttp
  BY <1>4 DEF CloseHttp, ClientType, GeneratorType, ExternalType, clientVars, serverVars
<1>5. CASE ServerTick
  BY <1>5 DEF ServerTick, ClientType, GeneratorType, ExternalType, clientVars, closeVars
<1> QED BY <1>1, <1>2, <1>3, <1>4, <1>5

LEMMA TypeStep == TypeOK /\ [Next]_vars => TypeOK'
<1> SUFFICES ASSUME TypeOK, [Next]_vars PROVE TypeOK'
  OBVIOUS
<1>1. CASE UNCHANGED vars
  BY <1>1 DEF vars, clientVars, closeVars, serverVars, TypeOK, ClientType, GeneratorType,
              ExternalType
<1>2. CASE Next
  BY <1>2, GeneratorTypeStep, ServerTypeStep, OtherTypeStep DEF Next
<1> QED BY <1>1, <1>2

\* The type invariant holds in every reachable state.
THEOREM TypeCorrect == Spec => []TypeOK
BY TypeInit, TypeStep, PTL DEF Spec

\* A step of one generator leaves the others where they are.
LEMMA OthersKeep ==
  ASSUME TypeOK, NEW i \in Iterators, Generator(i), NEW j \in Iterators, j # i
  PROVE  /\ pc'[j] = pc[j] /\ loc'[j] = loc[j] /\ seen'[j] = seen[j] /\ ws'[j] = ws[j]
         /\ closed' = closed
<1>1. /\ pc \in [Iterators -> {"idle", "connecting", "sleeping"} \cup InConnection]
      /\ loc \in [Iterators -> Locals] /\ seen \in [Iterators -> Histories]
      /\ ws \in [Iterators -> Links]
  BY DEF TypeOK, GeneratorType, ExternalType
<1> DEFINE Keeps == /\ pc'[j] = pc[j] /\ loc'[j] = loc[j] /\ seen'[j] = seen[j]
                    /\ closed' = closed
<1>2. ASSUME NEW f, Finish(i, f) PROVE Keeps
  BY <1>1, <1>2 DEF Finish
<1>3. ASSUME NEW f, NEW a, NEW P, Backoff(i, f, a, P) PROVE Keeps
  BY <1>1, <1>2, <1>3 DEF Backoff
<1>4. CASE Start(i) \/ HandshakeOk(i) \/ Wake(i)
  BY <1>1, <1>4 DEF Start, HandshakeOk, Wake
<1>5. CASE HandshakeLost(i) \/ HandshakeBroken(i) \/ \E s \in Statuses : HandshakeStatus(i, s)
  BY <1>2, <1>3, <1>5 DEF HandshakeLost, HandshakeBroken, HandshakeStatus
<1>6. CASE ReadTick(i) \/ ReadReceived(i) \/ ReadState(i) \/ ReadBad(i)
  BY <1>1, <1>6 DEF ReadTick, ReadReceived, ReadState, ReadBad, Consume, Deliver, clientVars
<1>7. CASE StreamEnd(i)
  BY <1>1, <1>2, <1>3, <1>7 DEF StreamEnd
<1>8. CASE Resume(i) \/ Abandon(i)
  BY <1>1, <1>8 DEF Resume, Abandon, clientVars
<1>9. CASE Cancel(i) \/ LeaveDone(i)
  BY <1>1, <1>2, <1>9 DEF Cancel, LeaveDone, clientVars
<1> QED BY <1>4, <1>5, <1>6, <1>7, <1>8, <1>9 DEF Generator

-----------------------------------------------------------------------------
(* Safety: the inductive invariant IInv                                     *)

LEMMA SafetyInit == Init => Safety
<1> SUFFICES ASSUME Init PROVE Safety
  OBVIOUS
<1>1. OneOpenTurn /\ ClosedMeansSealed
  BY DEF Init, OneOpenTurn, ClosedMeansSealed, None
<1>2. ReceiptsCurrent /\ OneIterator
  BY DEF Init, ReceiptsCurrent, OneIterator, Running
<1>3. SocketInUse
  <2>1. socket = NoSocket /\ \A i \in Iterators : i # NoSocket /\ pc[i] = "idle"
    BY ClientAssumption DEF Init
  <2> QED BY <2>1 DEF SocketInUse, InConnection
<1> QED BY <1>1, <1>2, <1>3 DEF Safety

\* While a generator is inside its body nobody else is.
LEMMA AloneInside ==
  ASSUME IInv, NEW i \in Iterators, Running(i)
  PROVE  iterating /\ \A j \in Iterators : j # i => pc[j] = "idle" /\ socket # j
BY DEF IInv, Safety, OneIterator, SocketInUse, Running, InConnection

\* Sealing the active Turn leaves no Turn open.
LEMMA SealedAll ==
  ASSUME IInv
  PROVE  /\ Len(Sealed(turns, active_turn)) = Len(turns)
         /\ DOMAIN Sealed(turns, active_turn) = 1..Len(turns)
         /\ \A k \in 1..Len(turns) : ~Sealed(turns, active_turn)[k].open
         /\ active_turn # None => Sealed(turns, active_turn)[active_turn].tick = current_tick
<1>1. turns \in Seq(Turns) /\ active_turn \in 0..Len(turns)
  BY DEF IInv, TypeOK, ClientType
<1>2. /\ Sealed(turns, active_turn) \in Seq(Turns)
      /\ Len(Sealed(turns, active_turn)) = Len(turns)
      /\ \A j \in 1..Len(turns) :
           /\ Sealed(turns, active_turn)[j].tick = turns[j].tick
           /\ Sealed(turns, active_turn)[j].open <=> turns[j].open /\ j # active_turn
  BY <1>1, SealedFacts
<1>3. \A k \in 1..Len(turns) : turns[k].open => k = active_turn
  BY <1>1 DEF IInv, Safety, OneOpenTurn
<1>4. active_turn # None => turns[active_turn].tick = current_tick /\ active_turn \in 1..Len(turns)
  BY <1>1 DEF IInv, Safety, OneOpenTurn, None
<1> QED BY <1>2, <1>3, <1>4

\* The parts of Safety about Turns and receipts, when a step leaves these alone.
LEMMA TurnsUntouched ==
  ASSUME IInv, UNCHANGED <<turns, active_turn, current_tick, latest_receipts>>
  PROVE  OneOpenTurn' /\ ReceiptsCurrent'
BY DEF IInv, Safety, OneOpenTurn, ReceiptsCurrent

\* The parts about generators, when generator i stays where it is with its connection.
LEMMA StaysInConnection ==
  ASSUME IInv, NEW i \in Iterators, pc[i] \in InConnection,
         NEW where \in InConnection, pc' = [pc EXCEPT ![i] = where],
         UNCHANGED <<iterating, socket>>
  PROVE  OneIterator' /\ SocketInUse'
<1>1. Running(i) /\ where # "idle" /\ pc \in [Iterators -> {"idle", "connecting", "sleeping"} \cup InConnection]
  BY DEF InConnection, Running, IInv, TypeOK, GeneratorType
<1>2. iterating /\ \A j \in Iterators : j # i => pc[j] = "idle" /\ socket # j
  BY <1>1, AloneInside
<1>3. pc'[i] = where /\ \A j \in Iterators : j # i => pc'[j] = "idle"
  BY <1>1, <1>2
<1>4. socket = i
  BY DEF IInv, Safety, SocketInUse
<1>5. OneIterator'
  BY <1>1, <1>2, <1>3 DEF OneIterator, Running
<1>6. SocketInUse'
  BY <1>2, <1>3, <1>4 DEF SocketInUse, InConnection
<1> QED BY <1>5, <1>6

\* The parts about generators, when generator i is or comes outside any connection.
LEMMA OutsideConnection ==
  ASSUME IInv, NEW i \in Iterators, Running(i),
         NEW where \in {"idle", "sleeping", "connecting"}, pc' = [pc EXCEPT ![i] = where],
         socket' = NoSocket, iterating' = (where # "idle")
  PROVE  OneIterator' /\ SocketInUse'
<1>1. pc \in [Iterators -> {"idle", "connecting", "sleeping"} \cup InConnection]
  BY DEF IInv, TypeOK, GeneratorType
<1>2. \A j \in Iterators : j # i => pc[j] = "idle"
  BY AloneInside
<1>3. pc'[i] = where /\ \A j \in Iterators : j # i => pc'[j] = "idle"
  BY <1>1, <1>2
<1>4. OneIterator'
  <2>1. CASE where = "idle"
    BY <1>3, <2>1 DEF OneIterator, Running
  <2>2. CASE where # "idle"
    BY <1>3, <2>2 DEF OneIterator, Running
  <2> QED BY <2>1, <2>2
<1>5. SocketInUse'
  BY <1>3, ClientAssumption DEF SocketInUse, InConnection
<1> QED BY <1>4, <1>5

\* The end of a generator keeps Safety.
LEMMA FinishSafe ==
  ASSUME IInv, NEW i \in Iterators, Running(i), NEW f, Finish(i, f)
  PROVE  Safety'
<1>1. OneIterator' /\ SocketInUse'
  BY OutsideConnection DEF Finish
<1>2. CASE closed
  <2>1. turns' = Sealed(turns, active_turn) /\ active_turn' = active_turn
        /\ current_tick' = current_tick
    BY <1>2 DEF Finish
  <2>2. OneOpenTurn' /\ ClosedMeansSealed'
    BY <2>1, SealedAll DEF OneOpenTurn, ClosedMeansSealed
  <2>3. ReceiptsCurrent'
    BY DEF Finish, IInv, Safety, ReceiptsCurrent
  <2> QED BY <1>1, <2>2, <2>3 DEF Safety
<1>3. CASE ~closed
  <2>1. OneOpenTurn' /\ ReceiptsCurrent'
    BY <1>3, TurnsUntouched DEF Finish
  <2>2. ClosedMeansSealed'
    BY <1>3 DEF Finish, ClosedMeansSealed
  <2> QED BY <1>1, <2>1, <2>2 DEF Safety
<1> QED BY <1>2, <1>3

\* The step into the sleep keeps Safety.
LEMMA BackoffSafe ==
  ASSUME IInv, NEW i \in Iterators, Running(i), NEW f, NEW a, NEW P, Backoff(i, f, a, P)
  PROVE  Safety'
<1>1. CASE Finish(i, f)
  BY <1>1, FinishSafe
<1>2. CASE ~Finish(i, f)
  <2>1. iterating
    BY AloneInside
  <2>2. OneIterator' /\ SocketInUse'
    BY <1>2, <2>1, OutsideConnection DEF Backoff
  <2>3. OneOpenTurn' /\ ReceiptsCurrent'
    BY <1>2, TurnsUntouched DEF Backoff
  <2>4. ClosedMeansSealed'
    BY <1>2 DEF Backoff, ClosedMeansSealed
  <2> QED BY <2>2, <2>3, <2>4 DEF Safety
<1> QED BY <1>1, <1>2

\* A step of a generator.
LEMMA GeneratorSafe ==
  ASSUME IInv, NEW i \in Iterators, Generator(i)
  PROVE  Safety'
<1>0. /\ pc \in [Iterators -> {"idle", "connecting", "sleeping"} \cup InConnection]
      /\ turns \in Seq(Turns) /\ active_turn \in 0..Len(turns)
      /\ latest_receipts \in [Sources -> Nat]
  BY DEF IInv, TypeOK, ClientType, GeneratorType
<1>1. CASE Start(i)
  <2>1. \A j \in Iterators : pc[j] = "idle" /\ socket # j
    BY <1>1 DEF Start, MayStart, IInv, Safety, OneIterator, SocketInUse, Running, InConnection
  <2>2. pc'[i] = "connecting" /\ \A j \in Iterators : j # i => pc'[j] = "idle"
    BY <1>0, <1>1, <2>1 DEF Start
  <2>3. OneIterator' /\ SocketInUse'
    BY <1>1, <2>1, <2>2 DEF Start, OneIterator, SocketInUse, Running, InConnection
  <2>4. OneOpenTurn' /\ ReceiptsCurrent'
    BY <1>1, TurnsUntouched DEF Start
  <2>5. ClosedMeansSealed'
    BY <1>1 DEF Start, MayStart, ClosedMeansSealed
  <2> QED BY <2>3, <2>4, <2>5 DEF Safety
<1>2. CASE HandshakeOk(i)
  <2>1. Running(i) /\ iterating /\ \A j \in Iterators : j # i => pc[j] = "idle"
    BY <1>2, AloneInside DEF HandshakeOk, Running
  <2>2. pc'[i] = "reading" /\ \A j \in Iterators : j # i => pc'[j] = "idle"
    BY <1>0, <1>2, <2>1 DEF HandshakeOk
  <2>3. OneIterator' /\ SocketInUse'
    BY <1>2, <2>1, <2>2 DEF HandshakeOk, OneIterator, SocketInUse, Running, InConnection
  <2>4. OneOpenTurn' /\ ReceiptsCurrent'
    BY <1>2, TurnsUntouched DEF HandshakeOk
  <2>5. ClosedMeansSealed'
    BY <1>2, <2>1 DEF HandshakeOk, ClosedMeansSealed
  <2> QED BY <2>3, <2>4, <2>5 DEF Safety
<1>3. CASE HandshakeLost(i)
  BY <1>3, BackoffSafe DEF HandshakeLost, Running
<1>4. ASSUME NEW s \in Statuses, HandshakeStatus(i, s) PROVE Safety'
  BY <1>4, BackoffSafe, FinishSafe DEF HandshakeStatus, Running
<1>5. CASE Wake(i)
  <2>1. Running(i) /\ iterating /\ socket = NoSocket
    <3>1. Running(i) /\ socket # i
      BY <1>5 DEF Wake, Running, IInv, Safety, SocketInUse, InConnection
    <3> QED BY <3>1, AloneInside DEF IInv, TypeOK, ClientType
  <2>2. CASE closed
    <3>1. OneIterator' /\ SocketInUse'
      BY <1>5, <2>1, <2>2, OutsideConnection DEF Wake
    <3>2. OneOpenTurn' /\ ClosedMeansSealed'
      BY <1>5, <2>2, SealedAll DEF Wake, OneOpenTurn, ClosedMeansSealed
    <3>3. ReceiptsCurrent'
      BY <1>5 DEF Wake, IInv, Safety, ReceiptsCurrent
    <3> QED BY <3>1, <3>2, <3>3 DEF Safety
  <2>3. CASE ~closed
    <3>1. OneIterator' /\ SocketInUse'
      BY <1>5, <2>1, <2>3, OutsideConnection DEF Wake
    <3>2. OneOpenTurn' /\ ReceiptsCurrent'
      BY <1>5, <2>3, TurnsUntouched DEF Wake
    <3>3. ClosedMeansSealed'
      BY <1>5, <2>3 DEF Wake, ClosedMeansSealed
    <3> QED BY <3>1, <3>2, <3>3 DEF Safety
  <2> QED BY <2>2, <2>3
<1>6. ASSUME HasMessage(i, "tick") \/ HasMessage(i, "received") \/ HasMessage(i, "state"),
             NEW dropped, Deliver(i, dropped), UNCHANGED <<iterating, socket>>
      PROVE  OneIterator' /\ SocketInUse' /\ iterating'
  <2>1. pc[i] \in InConnection /\ Running(i)
    BY <1>6 DEF HasMessage, InConnection, Running
  <2>2. PICK where \in InConnection : pc' = [pc EXCEPT ![i] = where]
    BY <1>6 DEF Deliver, InConnection
  <2> QED BY <1>6, <2>1, <2>2, StaysInConnection, AloneInside
<1>7. CASE ReadTick(i)
  <2>1. OneIterator' /\ SocketInUse' /\ iterating'
    BY <1>6, <1>7 DEF ReadTick
  <2>2. OneOpenTurn'
    BY <1>7, SealedAll DEF ReadTick, OneOpenTurn, None
  <2>3. ReceiptsCurrent'
    BY <1>0, <1>7 DEF ReadTick, SeeTick, ReceiptsAt, ReceiptsCurrent, IInv, Safety
  <2> QED BY <2>1, <2>2, <2>3 DEF Safety, ClosedMeansSealed
<1>8. CASE ReadReceived(i)
  <2>1. OneIterator' /\ SocketInUse' /\ iterating'
    BY <1>6, <1>8 DEF ReadReceived
  <2>2. OneOpenTurn'
    BY <1>8 DEF ReadReceived, IInv, Safety, OneOpenTurn
  <2>3. ReceiptsCurrent'
    BY <1>0, <1>8 DEF ReadReceived, ReceiptsCurrent, IInv, Safety
  <2> QED BY <2>1, <2>2, <2>3 DEF Safety, ClosedMeansSealed
<1>9. CASE ReadState(i)
  <2>1. OneIterator' /\ SocketInUse' /\ iterating'
    BY <1>6, <1>9 DEF ReadState
  <2>2. OneOpenTurn'
    <3> DEFINE sealed == Sealed(turns, active_turn)
               new == [tick |-> current_tick, of |-> Head1(i).tick, open |-> TRUE, decided |-> FALSE]
    <3>1. sealed \in Seq(Turns) /\ Len(sealed) = Len(turns)
      BY <1>0, SealedFacts
    <3>2. turns' = Append(sealed, new) /\ active_turn' = Len(turns) + 1
          /\ current_tick' = current_tick
      BY <1>9 DEF ReadState
    <3>3. DOMAIN turns' = 1..(Len(turns) + 1) /\ turns'[Len(turns) + 1] = new
          /\ \A k \in 1..Len(turns) : turns'[k] = sealed[k]
      BY <3>1, <3>2
    <3>4. \A k \in 1..Len(turns) : ~turns'[k].open
      BY <3>3, SealedAll
    <3> HIDE DEF sealed
    <3>5. new.tick = current_tick
      OBVIOUS
    <3>6. Len(turns) \in Nat
      BY <1>0
    <3> HIDE DEF new
    <3> QED BY <3>2, <3>3, <3>4, <3>5, <3>6 DEF OneOpenTurn
  <2>3. ReceiptsCurrent'
    BY <1>9 DEF ReadState, ReceiptsCurrent, IInv, Safety
  <2> QED BY <2>1, <2>2, <2>3 DEF Safety, ClosedMeansSealed
<1>10. ASSUME pc[i] \in InConnection, NEW where \in InConnection,
              pc' = [pc EXCEPT ![i] = where], UNCHANGED clientVars
       PROVE  Safety'
  <2>1. OneIterator' /\ SocketInUse'
    BY <1>10, StaysInConnection DEF clientVars
  <2>2. OneOpenTurn' /\ ReceiptsCurrent'
    BY <1>10, TurnsUntouched DEF clientVars
  <2>3. ClosedMeansSealed'
    BY <1>10 DEF clientVars, IInv, Safety, ClosedMeansSealed
  <2> QED BY <2>1, <2>2, <2>3 DEF Safety
<1>11. CASE ReadBad(i) \/ Resume(i) \/ Abandon(i)
  BY <1>10, <1>11 DEF ReadBad, Resume, Abandon, HasMessage, InConnection
<1>12. CASE StreamEnd(i)
  BY <1>12, BackoffSafe, FinishSafe DEF StreamEnd, Running
<1>13. CASE Cancel(i)
  <2>1. CASE pc[i] = "reading"
    BY <1>10, <1>13, <2>1 DEF Cancel, InConnection
  <2>2. CASE pc[i] # "reading"
    BY <1>13, <2>2, FinishSafe DEF Cancel, Running
  <2> QED BY <2>1, <2>2
<1>14. CASE LeaveDone(i)
  BY <1>14, FinishSafe DEF LeaveDone, Running
<1>15. CASE HandshakeBroken(i)
  BY <1>15, FinishSafe DEF HandshakeBroken, Running
<1> QED
  BY <1>1, <1>2, <1>3, <1>4, <1>5, <1>7, <1>8, <1>9, <1>11, <1>12, <1>13, <1>14, <1>15
  DEF Generator

\* The steps of close(), of the application and of the server.
LEMMA OtherSafe ==
  ASSUME IInv
  PROVE  (UNCHANGED clientVars /\ UNCHANGED pc) \/ (\E k \in DOMAIN turns : ReadPlan(k)) \/ CloseBegin
           => Safety'
<1>0. turns \in Seq(Turns) /\ active_turn \in 0..Len(turns)
  BY DEF IInv, TypeOK, ClientType
<1>1. CASE UNCHANGED clientVars /\ UNCHANGED pc
  BY <1>1 DEF clientVars, IInv, Safety, OneOpenTurn, ReceiptsCurrent, OneIterator, SocketInUse,
              ClosedMeansSealed, Running
<1>2. ASSUME NEW k \in DOMAIN turns, ReadPlan(k) PROVE Safety'
  <2>1. turns' = [turns EXCEPT ![k].decided = TRUE]
    BY <1>2 DEF ReadPlan
  <2>2. DOMAIN turns' = DOMAIN turns /\ turns \in [1..Len(turns) -> Turns]
    BY <1>0, <2>1
  <2>3. \A j \in DOMAIN turns : turns'[j].open = turns[j].open /\ turns'[j].tick = turns[j].tick
    BY <2>1, <2>2 DEF Turns
  <2>4. active_turn # None => active_turn \in DOMAIN turns
    BY <1>0 DEF None
  <2>5. OneOpenTurn' /\ ClosedMeansSealed'
    BY <1>2, <2>2, <2>3, <2>4 DEF ReadPlan, IInv, Safety, OneOpenTurn, ClosedMeansSealed
  <2>6. ReceiptsCurrent' /\ OneIterator' /\ SocketInUse'
    BY <1>2 DEF ReadPlan, IInv, Safety, ReceiptsCurrent, OneIterator, SocketInUse, Running
  <2> QED BY <2>5, <2>6 DEF Safety
<1>3. CASE CloseBegin
  <2>1. OneOpenTurn' /\ ClosedMeansSealed'
    BY <1>3, SealedAll DEF CloseBegin, OneOpenTurn, ClosedMeansSealed
  <2>2. ReceiptsCurrent' /\ OneIterator' /\ SocketInUse'
    BY <1>3 DEF CloseBegin, IInv, Safety, ReceiptsCurrent, OneIterator, SocketInUse, Running
  <2> QED BY <2>1, <2>2 DEF Safety
<1> QED BY <1>1, <1>2, <1>3

LEMMA InductiveStep == IInv /\ [Next]_vars => IInv'
<1> SUFFICES ASSUME IInv, [Next]_vars PROVE IInv'
  OBVIOUS
<1>1. TypeOK'
  BY TypeStep DEF IInv
<1>2. CASE UNCHANGED vars
  <2>1. UNCHANGED clientVars /\ UNCHANGED pc
    BY <1>2 DEF vars
  <2> QED BY <1>1, <2>1, OtherSafe DEF IInv
<1>3. CASE Next
  <2>1. ASSUME NEW i \in Iterators, Server(i) PROVE UNCHANGED clientVars /\ UNCHANGED pc
    BY <2>1 DEF Server, SendTick, SendState, SendReceived, SendBad, Send, LinkFails
  <2>2. CloseSocket \/ CloseHttp \/ ServerTick => UNCHANGED clientVars /\ UNCHANGED pc
    BY DEF CloseSocket, CloseHttp, ServerTick
  <2>3. Safety'
    BY <1>3, <2>1, <2>2, GeneratorSafe, OtherSafe DEF Next
  <2> QED BY <1>1, <2>3 DEF IInv
<1> QED BY <1>1, <1>2, <1>3 DEF IInv

\* Every reachable state satisfies the inductive invariant.
THEOREM Inductive == Spec => []IInv
<1>1. Init => IInv
  BY TypeInit, SafetyInit DEF IInv
<1> QED BY <1>1, InductiveStep, PTL DEF Spec

\* Of all the Turns the application holds at most one accepts actions, and it is the
\* active one, of the current tick: a Turn kept across a tick, a replacement state, a
\* reconnect or close() is sealed (_materialize, close).
THEOREM AtMostOneOpenTurn == Spec => []OneOpenTurn
BY Inductive, PTL DEF IInv, Safety

\* latest_receipts shows receipts of the current tick only (_materialize).
THEOREM ReceiptsOfCurrentTick == Spec => []ReceiptsCurrent
BY Inductive, PTL DEF IInv, Safety

\* _iterating admits one generator at a time and is reset on every way out, whatever
\* number of generators the application creates (_start_iteration, events).
THEOREM SingleIterator == Spec => []OneIterator
BY Inductive, PTL DEF IInv, Safety

\* The connection in use is the one close() would find in _socket (events).
THEOREM SocketReachable == Spec => []SocketInUse
BY Inductive, PTL DEF IInv, Safety

\* Once the client is closed and its generator over, no Turn accepts actions, also when a
\* handshake finished, and a Turn was built, after close() (the outer finally of events).
THEOREM SealedAfterClose == Spec => []ClosedMeansSealed
BY Inductive, PTL DEF IInv, Safety

-----------------------------------------------------------------------------
(* ArenaClient implements TurnLife                                          *)

LifeNextOrStutter == [Lifecycle!LifeNext]_(Lifecycle!lifeVars)

\* Sealing in the client is sealing in TurnLife.
LEMMA ShownSealed ==
  ASSUME NEW ts \in Seq(Turns), NEW k \in 0..Len(ts)
  PROVE  Shown(Sealed(ts, k)) = Lifecycle!Seal(Shown(ts), k)
<1>1. /\ Sealed(ts, k) \in Seq(Turns) /\ Len(Sealed(ts, k)) = Len(ts)
      /\ DOMAIN ts = 1..Len(ts) /\ DOMAIN Sealed(ts, k) = 1..Len(ts)
  BY SealedFacts
<1>2. CASE k = 0
  BY <1>2 DEF Sealed, None, Lifecycle!Seal
<1>3. CASE k # 0
  <2>1. Lifecycle!Seal(Shown(ts), k) = [Shown(ts) EXCEPT ![k].open = FALSE]
    BY <1>3 DEF Lifecycle!Seal
  <2>2. Sealed(ts, k) = [ts EXCEPT ![k].open = FALSE]
    BY <1>3 DEF Sealed, None
  <2>3. DOMAIN Shown(ts) = 1..Len(ts) /\ DOMAIN Shown(Sealed(ts, k)) = 1..Len(ts)
    BY <1>1 DEF Shown
  <2>4. \A j \in 1..Len(ts) :
          Shown(Sealed(ts, k))[j] = [Shown(ts) EXCEPT ![k].open = FALSE][j]
    <3> TAKE j \in 1..Len(ts)
    <3>1. ts[j] \in Turns /\ ts \in [1..Len(ts) -> Turns]
      OBVIOUS
    <3>2. Sealed(ts, k)[j] = IF j = k THEN [ts[j] EXCEPT !.open = FALSE] ELSE ts[j]
      BY <2>2, <3>1
    <3>3. Shown(Sealed(ts, k))[j] = [tick |-> ts[j].tick, open |-> IF j = k THEN FALSE ELSE ts[j].open]
      BY <1>1, <3>1, <3>2 DEF Shown, Turns
    <3>4. [Shown(ts) EXCEPT ![k].open = FALSE][j] =
            [tick |-> ts[j].tick, open |-> IF j = k THEN FALSE ELSE ts[j].open]
      BY <1>1 DEF Shown
    <3> QED BY <3>3, <3>4
  <2> QED BY <2>1, <2>3, <2>4 DEF Shown
<1> QED BY <1>2, <1>3

\* A function on 1..n is a sequence of length n.
LEMMA IsSequence ==
  ASSUME NEW T, NEW n \in Nat, NEW f \in [1..n -> T]
  PROVE  f \in Seq(T) /\ Len(f) = n
OBVIOUS

\* A new Turn at the end of the list.
LEMMA ShownAppend ==
  ASSUME NEW ts \in Seq(Turns), NEW t \in Turns
  PROVE  Shown(Append(ts, t)) = Append(Shown(ts), [tick |-> t.tick, open |-> t.open])
<1>1. /\ Append(ts, t) \in Seq(Turns) /\ DOMAIN Append(ts, t) = 1..(Len(ts) + 1)
      /\ Append(ts, t)[Len(ts) + 1] = t
      /\ \A j \in 1..Len(ts) : Append(ts, t)[j] = ts[j]
  OBVIOUS
<1>2. Shown(ts) \in Seq([tick : Nat, open : BOOLEAN]) /\ Len(Shown(ts)) = Len(ts)
  <2>1. \A j \in 1..Len(ts) : ts[j] \in Turns
    OBVIOUS
  <2>2. Shown(ts) \in [1..Len(ts) -> [tick : Nat, open : BOOLEAN]]
    BY <2>1 DEF Shown, Turns
  <2>3. Len(ts) \in Nat
    OBVIOUS
  <2> QED BY <2>2, <2>3, IsSequence
<1> DEFINE new == [tick |-> t.tick, open |-> t.open]
<1>3. new \in [tick : Nat, open : BOOLEAN]
  BY DEF Turns
<1>4. /\ Append(Shown(ts), new) \in Seq([tick : Nat, open : BOOLEAN])
      /\ Len(Append(Shown(ts), new)) = Len(ts) + 1
      /\ Append(Shown(ts), new)[Len(ts) + 1] = new
      /\ \A j \in 1..Len(ts) : Append(Shown(ts), new)[j] = Shown(ts)[j]
  BY <1>2, <1>3
<1>5. \A j \in 1..(Len(ts) + 1) : Shown(Append(ts, t))[j] = Append(Shown(ts), new)[j]
  BY <1>1, <1>4 DEF Shown
<1>6. DOMAIN Shown(Append(ts, t)) = 1..(Len(ts) + 1)
  BY <1>1 DEF Shown
<1> QED BY <1>1, <1>4, <1>5, <1>6 DEF Shown

\* A step that shows nothing.
LEMMA LifeStutters ==
  ASSUME UNCHANGED <<current_tick, active_turn, closed>>, Shown(turns)' = Shown(turns),
         (closed /\ ~iterating)' = (closed /\ ~iterating)
  PROVE  LifeNextOrStutter
BY DEF LifeNextOrStutter, Lifecycle!lifeVars

\* The end of a generator.
LEMMA FinishLife ==
  ASSUME IInv, NEW i \in Iterators, Running(i), NEW f, Finish(i, f)
  PROVE  LifeNextOrStutter
<1>1. iterating
  BY AloneInside
<1>2. CASE closed
  <2>1. Shown(turns)' = Lifecycle!Seal(Shown(turns), active_turn)
    BY <1>2, ShownSealed DEF Finish, IInv, TypeOK, ClientType
  <2>2. Lifecycle!End
    BY <1>1, <1>2, <2>1 DEF Finish, Lifecycle!End
  <2> QED BY <2>2 DEF LifeNextOrStutter, Lifecycle!LifeNext
<1>3. CASE ~closed
  BY <1>3, LifeStutters DEF Finish
<1> QED BY <1>2, <1>3

LEMMA BackoffLife ==
  ASSUME IInv, NEW i \in Iterators, Running(i), NEW f, NEW a, NEW P, Backoff(i, f, a, P)
  PROVE  LifeNextOrStutter
<1>1. CASE Finish(i, f)
  BY <1>1, FinishLife
<1>2. CASE ~Finish(i, f)
  BY <1>2, LifeStutters DEF Backoff
<1> QED BY <1>1, <1>2

LEMMA GeneratorLife ==
  ASSUME IInv, NEW i \in Iterators, Generator(i)
  PROVE  LifeNextOrStutter
<1>0. /\ turns \in Seq(Turns) /\ active_turn \in 0..Len(turns) /\ current_tick \in Nat
      /\ closed \in BOOLEAN /\ iterating \in BOOLEAN
  BY DEF IInv, TypeOK, ClientType
<1>1. Shown(Sealed(turns, active_turn)) = Lifecycle!Seal(Shown(turns), active_turn)
  BY <1>0, ShownSealed
<1>2. CASE Start(i)
  BY <1>2, LifeStutters DEF Start, MayStart
<1>3. CASE HandshakeOk(i)
  BY <1>3, LifeStutters DEF HandshakeOk
<1>4. CASE HandshakeLost(i) \/ HandshakeBroken(i) \/ (\E s \in Statuses : HandshakeStatus(i, s))
  BY <1>4, BackoffLife, FinishLife DEF HandshakeLost, HandshakeBroken, HandshakeStatus, Running
<1>5. CASE Wake(i)
  <2>1. Running(i) /\ iterating
    BY <1>5, AloneInside DEF Wake, Running
  <2>2. CASE closed
    <3>1. Shown(turns)' = Lifecycle!Seal(Shown(turns), active_turn)
      BY <1>1, <1>5, <2>2 DEF Wake
    <3>2. Lifecycle!End
      BY <1>5, <2>1, <2>2, <3>1 DEF Wake, Lifecycle!End
    <3> QED BY <3>2 DEF LifeNextOrStutter, Lifecycle!LifeNext
  <2>3. CASE ~closed
    BY <1>5, <2>3, LifeStutters DEF Wake
  <2> QED BY <2>2, <2>3
<1>6. ASSUME pc[i] = "reading" PROVE iterating
  BY <1>6, AloneInside DEF Running
<1>7. CASE ReadTick(i)
  <2>1. Head1(i).tick \in Nat
    BY <1>7, ConsumeType, MessageFields DEF ReadTick, HasMessage, IInv, TypeOK, ExternalType
  <2>2. Shown(turns)' = Lifecycle!Seal(Shown(turns), active_turn)
    BY <1>1, <1>7 DEF ReadTick
  <2>3. Lifecycle!Announce
    BY <1>6, <1>7, <2>1, <2>2 DEF ReadTick, HasMessage, SeeTick, None, Lifecycle!Announce
  <2> QED BY <2>3 DEF LifeNextOrStutter, Lifecycle!LifeNext
<1>8. CASE ReadReceived(i)
  BY <1>8, LifeStutters DEF ReadReceived
<1>9. CASE ReadState(i)
  <2> DEFINE new == [tick |-> current_tick, of |-> Head1(i).tick, open |-> TRUE, decided |-> FALSE]
  <2>1. Head1(i).tick \in Nat
    BY <1>9, ConsumeType, MessageFields DEF ReadState, HasMessage, IInv, TypeOK, ExternalType
  <2>2. new \in Turns
    BY <1>0, <2>1 DEF Turns
  <2>3. Sealed(turns, active_turn) \in Seq(Turns)
    BY <1>0, SealedFacts
  <2>4. Shown(turns)' = Append(Shown(Sealed(turns, active_turn)),
                               [tick |-> current_tick, open |-> TRUE])
    BY <1>9, <2>2, <2>3, ShownAppend DEF ReadState
  <2>5. Len(Shown(turns)) = Len(turns)
    BY <1>0 DEF Shown
  <2>6. Lifecycle!Build
    BY <1>1, <1>6, <1>9, <2>4, <2>5 DEF ReadState, HasMessage, None, Lifecycle!Build
  <2> QED BY <2>6 DEF LifeNextOrStutter, Lifecycle!LifeNext
<1>10. CASE ReadBad(i) \/ Resume(i) \/ Abandon(i)
  BY <1>10, LifeStutters DEF ReadBad, Resume, Abandon, clientVars
<1>11. CASE StreamEnd(i)
  BY <1>11, BackoffLife, FinishLife DEF StreamEnd, Running
<1>12. CASE Cancel(i)
  <2>1. CASE Finish(i, None)
    BY <1>12, <2>1, FinishLife DEF Cancel, Running
  <2>2. CASE ~Finish(i, None)
    BY <1>12, <2>2, LifeStutters DEF Cancel, clientVars
  <2> QED BY <2>1, <2>2
<1>13. CASE LeaveDone(i)
  BY <1>13, FinishLife DEF LeaveDone, Running
<1> QED
  BY <1>2, <1>3, <1>4, <1>5, <1>7, <1>8, <1>9, <1>10, <1>11, <1>12, <1>13 DEF Generator

\* Recording a decision time shows nothing.
LEMMA ReadPlanLife ==
  ASSUME IInv, NEW k \in DOMAIN turns, ReadPlan(k)
  PROVE  LifeNextOrStutter
<1>1. turns \in [1..Len(turns) -> Turns] /\ Len(turns) \in Nat
  BY DEF IInv, TypeOK, ClientType
<1>2. turns' = [turns EXCEPT ![k].decided = TRUE]
  BY DEF ReadPlan
<1>3. DOMAIN turns' = DOMAIN turns
  BY <1>1, <1>2
<1>4. \A j \in DOMAIN turns : turns'[j].open = turns[j].open /\ turns'[j].tick = turns[j].tick
  BY <1>1, <1>2 DEF Turns
<1>5. Shown(turns)' = Shown(turns)
  BY <1>3, <1>4 DEF Shown
<1> QED BY <1>5, LifeStutters DEF ReadPlan

LEMMA LifeStep == IInv /\ [Next]_vars => LifeNextOrStutter
<1> SUFFICES ASSUME IInv, [Next]_vars PROVE LifeNextOrStutter
  OBVIOUS
<1>1. ASSUME UNCHANGED clientVars PROVE LifeNextOrStutter
  BY <1>1, LifeStutters DEF clientVars
<1>2. CASE UNCHANGED vars
  BY <1>1, <1>2 DEF vars
<1>3. ASSUME NEW i \in Iterators, Server(i) PROVE LifeNextOrStutter
  BY <1>1, <1>3 DEF Server, SendTick, SendState, SendReceived, SendBad, Send, LinkFails
<1>4. CASE CloseSocket \/ CloseHttp \/ ServerTick
  BY <1>1, <1>4 DEF CloseSocket, CloseHttp, ServerTick
<1>5. CASE CloseBegin
  <2>1. Shown(turns)' = Lifecycle!Seal(Shown(turns), active_turn)
    BY <1>5, ShownSealed DEF CloseBegin, IInv, TypeOK, ClientType
  <2>2. (closed /\ ~iterating)' \in BOOLEAN
    OBVIOUS
  <2>3. Lifecycle!CloseClient
    BY <1>5, <2>1, <2>2 DEF CloseBegin, Lifecycle!CloseClient
  <2> QED BY <2>3 DEF LifeNextOrStutter, Lifecycle!LifeNext
<1> QED BY <1>2, <1>3, <1>4, <1>5, GeneratorLife, ReadPlanLife DEF Next

\* The Turns of the client, over all its connections, generators and closes, live the
\* abstract life of TurnLife (events, _materialize, close).
THEOREM ImplementsTurnLife == Spec => LifeSpec
<1>1. Init => Lifecycle!LifeInit
  <2> SUFFICES ASSUME Init PROVE Lifecycle!LifeInit
    OBVIOUS
  <2>1. turns = <<>> /\ active_turn = 0 /\ current_tick = 0 /\ closed = FALSE /\ iterating = FALSE
    BY DEF Init, None
  <2>2. Shown(turns) = <<>>
    BY <2>1 DEF Shown
  <2> QED BY <2>1, <2>2 DEF Lifecycle!LifeInit
<1> QED BY <1>1, LifeStep, Inductive, PTL DEF Spec, LifeSpec, LifeNextOrStutter, Lifecycle!Life

\* A Turn keeps its place and its tick, and is not opened again.
TurnsRemain(before, after) ==
  \A k \in DOMAIN before :
    k \in DOMAIN after /\ after[k].tick = before[k].tick /\ (after[k].open => before[k].open)

\* What TurnLife does to the list of Turns: it seals one, and it appends one.
LEMMA SealKeeps ==
  ASSUME NEW ts \in Seq(Turns), NEW k \in 0..Len(ts)
  PROVE  /\ TurnsRemain(Shown(ts), Lifecycle!Seal(Shown(ts), k))
         /\ \A t \in [tick : Nat, open : BOOLEAN] :
              TurnsRemain(Shown(ts), Append(Lifecycle!Seal(Shown(ts), k), t))
<1> DEFINE ss == Sealed(ts, k)
           S == [tick : Nat, open : BOOLEAN]
<1>1. /\ ss \in Seq(Turns) /\ Len(ss) = Len(ts) /\ Len(ts) \in Nat
      /\ DOMAIN ts = 1..Len(ts) /\ DOMAIN ss = 1..Len(ts)
      /\ \A j \in 1..Len(ts) : ss[j].tick = ts[j].tick /\ (ss[j].open => ts[j].open)
  BY SealedFacts
<1> HIDE DEF ss
<1>2. /\ DOMAIN Shown(ts) = 1..Len(ts) /\ DOMAIN Shown(ss) = 1..Len(ts)
      /\ \A j \in 1..Len(ts) : /\ Shown(ts)[j].tick = ts[j].tick /\ Shown(ts)[j].open = ts[j].open
                               /\ Shown(ss)[j].tick = ss[j].tick /\ Shown(ss)[j].open = ss[j].open
  BY <1>1 DEF Shown
<1>3. Shown(ss) \in Seq(S) /\ Len(Shown(ss)) = Len(ts)
  <2>1. \A j \in 1..Len(ts) : ss[j] \in Turns
    BY <1>1
  <2>2. Shown(ss) \in [1..Len(ts) -> S]
    BY <1>1, <2>1 DEF Shown, Turns
  <2> QED BY <1>1, <2>2, IsSequence
<1>4. TurnsRemain(Shown(ts), Shown(ss))
  BY <1>1, <1>2 DEF TurnsRemain
<1>5. ASSUME NEW t \in S PROVE TurnsRemain(Shown(ts), Append(Shown(ss), t))
  <2> DEFINE u == Shown(ss)
  <2>1. u \in Seq(S) /\ Len(u) = Len(ts)
    BY <1>3
  <2> HIDE DEF u, S
  <2>2. /\ DOMAIN Append(u, t) = 1..(Len(ts) + 1)
        /\ \A j \in 1..Len(ts) : Append(u, t)[j] = u[j]
    BY <1>1, <2>1
  <2>3. \A j \in 1..Len(ts) : j \in DOMAIN Append(u, t)
    BY <1>1, <2>2
  <2>4. TurnsRemain(Shown(ts), Append(u, t))
    BY <1>1, <1>2, <2>2, <2>3 DEF TurnsRemain, u
  <2> QED BY <2>4 DEF u
<1> QED BY <1>4, <1>5, ShownSealed DEF ss

\* Every step of TurnLife does one of the two.
LEMMA LifeKeeps ==
  ASSUME TypeOK, LifeNextOrStutter
  PROVE  TurnsRemain(Shown(turns), Shown(turns)')
<1>1. /\ turns \in Seq(Turns) /\ active_turn \in 0..Len(turns) /\ current_tick \in Nat
  BY DEF TypeOK, ClientType
<1>2. /\ TurnsRemain(Shown(turns), Lifecycle!Seal(Shown(turns), active_turn))
      /\ \A t \in [tick : Nat, open : BOOLEAN] :
           TurnsRemain(Shown(turns), Append(Lifecycle!Seal(Shown(turns), active_turn), t))
  BY <1>1, SealKeeps
<1>3. CASE Lifecycle!Announce \/ Lifecycle!CloseClient \/ Lifecycle!End
  BY <1>2, <1>3 DEF Lifecycle!Announce, Lifecycle!CloseClient, Lifecycle!End
<1>4. CASE Lifecycle!Build
  <2>1. [tick |-> current_tick, open |-> TRUE] \in [tick : Nat, open : BOOLEAN]
    BY <1>1
  <2> QED BY <1>2, <1>4, <2>1 DEF Lifecycle!Build
<1>5. CASE UNCHANGED Lifecycle!lifeVars
  BY <1>5 DEF Lifecycle!lifeVars, TurnsRemain
<1> QED BY <1>3, <1>4, <1>5 DEF LifeNextOrStutter, Lifecycle!LifeNext

\* A Turn that the application holds is its own for ever: whatever the client reads,
\* reconnects or closes later, its tick stays what it was and, once sealed, it never
\* accepts an action again (_materialize, events, close).
THEOREM SealedForever == Spec => [][TurnsRemain(turns, turns')]_vars
<1>1. ASSUME IInv, [Next]_vars PROVE TurnsRemain(turns, turns')
  <2>1. TurnsRemain(Shown(turns), Shown(turns)')
    BY <1>1, LifeStep, LifeKeeps DEF IInv
  <2>2. /\ DOMAIN Shown(turns) = DOMAIN turns /\ DOMAIN Shown(turns)' = DOMAIN turns'
        /\ \A k \in DOMAIN turns : /\ Shown(turns)[k].tick = turns[k].tick
                                   /\ Shown(turns)[k].open = turns[k].open
        /\ \A k \in DOMAIN turns' : /\ Shown(turns)'[k].tick = turns'[k].tick
                                    /\ Shown(turns)'[k].open = turns'[k].open
    BY DEF Shown
  <2> QED BY <2>1, <2>2 DEF TurnsRemain
<1>2. IInv /\ [Next]_vars => [TurnsRemain(turns, turns')]_vars
  BY <1>1
<1> QED BY <1>2, Inductive, PTL DEF Spec

-----------------------------------------------------------------------------
(* What a connection carries                                                *)

IsTick(m) == m.type = "tick"
IsState(m) == m.type = "state"

\* The ticks announced in w do not decrease and lie between lo and hi.
Ordered(w, lo, hi) ==
  /\ \A p \in 1..Len(w) : IsTick(w[p]) => lo <= w[p].tick /\ w[p].tick <= hi
  /\ \A p, q \in 1..Len(w) : p < q /\ IsTick(w[p]) /\ IsTick(w[q]) => w[p].tick <= w[q].tick

\* A reader of w that starts at tick c has last seen tick t when it comes to position p.
Follows(w, p, t, c) ==
  \/ t = c /\ \A q \in 1..(p - 1) : ~IsTick(w[q])
  \/ \E q \in 1..(p - 1) : /\ IsTick(w[q]) /\ w[q].tick = t
                           /\ \A r \in (q + 1)..(p - 1) : ~IsTick(w[r])

\* Every state in w is of the tick its reader has last seen.
Stated(w, c) == \A p \in 1..Len(w) : IsState(w[p]) => Follows(w, p, w[p].tick, c)

LEMMA TailFacts ==
  ASSUME NEW w \in Seq(Messages), w # <<>>
  PROVE  /\ Tail(w) \in Seq(Messages) /\ Head(w) = w[1] /\ w[1] \in Messages
         /\ Len(w) \in Nat /\ Len(w) >= 1 /\ Len(Tail(w)) = Len(w) - 1
         /\ \A p \in 1..(Len(w) - 1) : Tail(w)[p] = w[p + 1]
OBVIOUS

LEMMA AppendFacts ==
  ASSUME NEW w \in Seq(Messages), NEW m \in Messages
  PROVE  /\ Append(w, m) \in Seq(Messages) /\ Len(w) \in Nat /\ Len(Append(w, m)) = Len(w) + 1
         /\ \A p \in 1..Len(w) : Append(w, m)[p] = w[p]
         /\ Append(w, m)[Len(w) + 1] = m
OBVIOUS

LEMMA TicksAreNat ==
  ASSUME NEW w \in Seq(Messages), NEW p \in 1..Len(w), IsTick(w[p])
  PROVE  w[p].tick \in Nat
<1>1. w[p] \in Messages
  OBVIOUS
<1> QED BY <1>1, MessageFields DEF IsTick

\* Reading the first message.
LEMMA OrderedTail ==
  ASSUME NEW w \in Seq(Messages), w # <<>>, NEW lo \in Nat, NEW hi \in Nat, Ordered(w, lo, hi)
  PROVE  /\ Ordered(Tail(w), lo, hi)
         /\ IsTick(Head(w)) => /\ lo <= Head(w).tick /\ Head(w).tick <= hi
                               /\ Ordered(Tail(w), Head(w).tick, hi)
<1> DEFINE v == Tail(w)  n == Len(w)
<1>1. /\ v \in Seq(Messages) /\ Head(w) = w[1] /\ n \in Nat /\ n >= 1 /\ Len(v) = n - 1
      /\ \A p \in 1..(n - 1) : v[p] = w[p + 1]
  BY TailFacts
<1>2. /\ \A p \in 1..n : IsTick(w[p]) => lo <= w[p].tick /\ w[p].tick <= hi
      /\ \A p, q \in 1..n : p < q /\ IsTick(w[p]) /\ IsTick(w[q]) => w[p].tick <= w[q].tick
  BY DEF Ordered
<1> HIDE DEF v, n
<1>3. \A p \in 1..Len(v) : p + 1 \in 1..n /\ v[p] = w[p + 1]
  BY <1>1
<1>4. \A p \in 1..Len(v) : IsTick(v[p]) => lo <= v[p].tick /\ v[p].tick <= hi
  BY <1>2, <1>3
<1>5. ASSUME NEW p \in 1..Len(v), NEW q \in 1..Len(v), p < q, IsTick(v[p]), IsTick(v[q])
      PROVE  v[p].tick <= v[q].tick
  <2>1. p + 1 < q + 1
    BY <1>1, <1>5
  <2> QED BY <1>2, <1>3, <1>5, <2>1
<1>6. ASSUME IsTick(Head(w)), NEW p \in 1..Len(v), IsTick(v[p])
      PROVE  Head(w).tick <= v[p].tick
  <2>1. 1 \in 1..n /\ 1 < p + 1
    BY <1>1
  <2> QED BY <1>1, <1>2, <1>3, <1>6, <2>1
<1>7. IsTick(Head(w)) => lo <= Head(w).tick /\ Head(w).tick <= hi
  BY <1>1, <1>2
<1>8. Ordered(v, lo, hi)
  BY <1>4, <1>5 DEF Ordered
<1>9. IsTick(Head(w)) => Ordered(v, Head(w).tick, hi)
  BY <1>4, <1>5, <1>6 DEF Ordered
<1> QED BY <1>7, <1>8, <1>9 DEF v

\* Sending one more message, a tick only if it is the latest.
LEMMA OrderedAppend ==
  ASSUME NEW w \in Seq(Messages), NEW m \in Messages, NEW lo \in Nat, NEW hi \in Nat, lo <= hi,
         Ordered(w, lo, hi), IsTick(m) => m.tick = hi
  PROVE  Ordered(Append(w, m), lo, hi)
<1> DEFINE v == Append(w, m)  n == Len(w)
<1>1. n \in Nat /\ Len(v) = n + 1 /\ (\A p \in 1..n : v[p] = w[p]) /\ v[n + 1] = m
  BY AppendFacts
<1>2. /\ \A p \in 1..n : IsTick(w[p]) => lo <= w[p].tick /\ w[p].tick <= hi
      /\ \A p, q \in 1..n : p < q /\ IsTick(w[p]) /\ IsTick(w[q]) => w[p].tick <= w[q].tick
  BY DEF Ordered
<1> HIDE DEF v, n
<1>3. \A p \in 1..(n + 1) : IsTick(v[p]) => lo <= v[p].tick /\ v[p].tick <= hi
  BY <1>1, <1>2
<1>4. ASSUME NEW p \in 1..(n + 1), NEW q \in 1..(n + 1), p < q, IsTick(v[p]), IsTick(v[q])
      PROVE  v[p].tick <= v[q].tick
  <2>1. p \in 1..n
    BY <1>1, <1>4
  <2>2. CASE q \in 1..n
    BY <1>1, <1>2, <1>4, <2>1, <2>2
  <2>3. CASE q = n + 1
    BY <1>1, <1>2, <1>4, <2>1, <2>3
  <2> QED BY <1>1, <2>2, <2>3
<1> QED BY <1>1, <1>3, <1>4 DEF Ordered, v

LEMMA OrderedLater ==
  ASSUME NEW w \in Seq(Messages), NEW lo \in Nat, NEW hi \in Nat, Ordered(w, lo, hi)
  PROVE  Ordered(w, lo, hi + 1)
<1>1. \A p \in 1..Len(w) : IsTick(w[p]) => w[p].tick \in Nat
  BY TicksAreNat
<1> QED BY <1>1 DEF Ordered

\* Reading the first message brings every position one closer.
LEMMA FollowsTail ==
  ASSUME NEW w \in Seq(Messages), w # <<>>, NEW p \in 2..(Len(w) + 1), NEW t, NEW c,
         Follows(w, p, t, c)
  PROVE  Follows(Tail(w), p - 1, t, IF IsTick(Head(w)) THEN Head(w).tick ELSE c)
<1> DEFINE v == Tail(w)  n == Len(w)
<1>1. /\ Head(w) = w[1] /\ n \in Nat /\ n >= 1
      /\ \A k \in 1..(n - 1) : v[k] = w[k + 1]
  BY TailFacts
<1>2. p \in 2..(n + 1)
  OBVIOUS
<1> HIDE DEF v, n
<1>3. CASE t = c /\ \A q \in 1..(p - 1) : ~IsTick(w[q])
  <2>1. ~IsTick(Head(w))
    BY <1>1, <1>2, <1>3
  <2>2. \A q \in 1..(p - 2) : ~IsTick(v[q])
    BY <1>1, <1>2, <1>3
  <2> QED BY <1>2, <1>3, <2>1, <2>2 DEF Follows, v
<1>4. ASSUME NEW q \in 1..(p - 1), IsTick(w[q]), w[q].tick = t,
             \A r \in (q + 1)..(p - 1) : ~IsTick(w[r])
      PROVE  Follows(v, p - 1, t, IF IsTick(Head(w)) THEN Head(w).tick ELSE c)
  <2>1. CASE q = 1
    <3>1. IsTick(Head(w)) /\ Head(w).tick = t
      BY <1>1, <1>4, <2>1
    <3>2. \A k \in 1..(p - 2) : ~IsTick(v[k])
      BY <1>1, <1>2, <1>4, <2>1
    <3> QED BY <1>2, <3>1, <3>2 DEF Follows
  <2>2. CASE q # 1
    <3>1. q - 1 \in 1..(p - 2) /\ IsTick(v[q - 1]) /\ v[q - 1].tick = t
      BY <1>1, <1>2, <1>4, <2>2
    <3>2. \A r \in q..(p - 2) : ~IsTick(v[r])
      BY <1>1, <1>2, <1>4, <2>2
    <3> QED BY <1>2, <3>1, <3>2 DEF Follows
  <2> QED BY <2>1, <2>2
<1> QED BY <1>3, <1>4 DEF Follows, v

LEMMA StatedTail ==
  ASSUME NEW w \in Seq(Messages), w # <<>>, NEW c, Stated(w, c)
  PROVE  /\ Stated(Tail(w), IF IsTick(Head(w)) THEN Head(w).tick ELSE c)
         /\ IsState(Head(w)) => Head(w).tick = c
<1> DEFINE d == IF IsTick(Head(w)) THEN Head(w).tick ELSE c
<1>1. /\ Tail(w) \in Seq(Messages) /\ Head(w) = w[1] /\ Len(w) \in Nat /\ Len(w) >= 1
      /\ Len(Tail(w)) = Len(w) - 1 /\ \A p \in 1..(Len(w) - 1) : Tail(w)[p] = w[p + 1]
  BY TailFacts
<1>2. ASSUME NEW p \in 1..Len(Tail(w)), IsState(Tail(w)[p])
      PROVE  Follows(Tail(w), p, Tail(w)[p].tick, d)
  <2>1. p + 1 \in 2..Len(w) /\ Tail(w)[p] = w[p + 1] /\ (p + 1) - 1 = p /\ p + 1 \in 1..Len(w)
    BY <1>1
  <2>2. p + 1 \in 2..(Len(w) + 1)
    BY <1>1
  <2>3. Follows(w, p + 1, w[p + 1].tick, c)
    BY <1>2, <2>1 DEF Stated
  <2>4. Follows(Tail(w), (p + 1) - 1, w[p + 1].tick, d)
    BY <2>2, <2>3, FollowsTail
  <2> QED BY <2>1, <2>4
<1>3. ASSUME IsState(Head(w)) PROVE Head(w).tick = c
  <2>1. Follows(w, 1, w[1].tick, c)
    BY <1>1, <1>3 DEF Stated
  <2> QED BY <1>1, <2>1 DEF Follows
<1> QED BY <1>2, <1>3 DEF Stated

\* Positions in w do not see what is sent behind them.
LEMMA FollowsAppend ==
  ASSUME NEW w \in Seq(Messages), NEW m \in Messages, NEW p \in 1..(Len(w) + 1), NEW t, NEW c,
         Follows(w, p, t, c)
  PROVE  Follows(Append(w, m), p, t, c)
<1>1. Len(w) \in Nat /\ \A q \in 1..Len(w) : Append(w, m)[q] = w[q]
  BY AppendFacts
<1>2. \A q \in 1..(p - 1) : Append(w, m)[q] = w[q]
  BY <1>1
<1> QED BY <1>2 DEF Follows

\* A reader that comes to the end of w at tick t finds the next state of its tick; after
\* a message that is no tick it is still at t, after a tick at that one.
LEMMA StatedAppend ==
  ASSUME NEW w \in Seq(Messages), NEW m \in Messages, NEW c, Stated(w, c),
         IsState(m) => Follows(w, Len(w) + 1, m.tick, c)
  PROVE  Stated(Append(w, m), c)
<1>1. /\ Len(w) \in Nat /\ Len(Append(w, m)) = Len(w) + 1
      /\ \A q \in 1..Len(w) : Append(w, m)[q] = w[q]
      /\ Append(w, m)[Len(w) + 1] = m
  BY AppendFacts
<1>2. ASSUME NEW p \in 1..(Len(w) + 1), IsState(Append(w, m)[p])
      PROVE  Follows(Append(w, m), p, Append(w, m)[p].tick, c)
  <2>1. CASE p \in 1..Len(w)
    <3>1. Append(w, m)[p] = w[p] /\ Follows(w, p, w[p].tick, c)
      BY <1>1, <1>2, <2>1 DEF Stated
    <3> QED BY <3>1, FollowsAppend
  <2>2. CASE p = Len(w) + 1
    BY <1>1, <1>2, <2>2, FollowsAppend
  <2> QED BY <1>1, <2>1, <2>2
<1> QED BY <1>1, <1>2 DEF Stated

LEMMA EndAppend ==
  ASSUME NEW w \in Seq(Messages), NEW m \in Messages, NEW t, NEW c
  PROVE  /\ IsTick(m) => Follows(Append(w, m), Len(w) + 2, m.tick, c)
         /\ ~IsTick(m) /\ Follows(w, Len(w) + 1, t, c) => Follows(Append(w, m), Len(w) + 2, t, c)
<1> DEFINE v == Append(w, m)  n == Len(w)
<1>1. n \in Nat /\ (\A q \in 1..n : v[q] = w[q]) /\ v[n + 1] = m
  BY AppendFacts
<1> HIDE DEF v, n
<1>2. (n + 2) - 1 = n + 1 /\ (n + 1) - 1 = n
  BY <1>1
<1>3. ASSUME IsTick(m) PROVE Follows(v, n + 2, m.tick, c)
  <2>1. n + 1 \in 1..((n + 2) - 1) /\ \A r \in ((n + 1) + 1)..((n + 2) - 1) : ~IsTick(v[r])
    BY <1>1
  <2> QED BY <1>1, <1>3, <2>1 DEF Follows
<1>4. ASSUME ~IsTick(m), Follows(w, n + 1, t, c) PROVE Follows(v, n + 2, t, c)
  <2>1. CASE t = c /\ \A q \in 1..n : ~IsTick(w[q])
    <3>1. \A q \in 1..(n + 1) : ~IsTick(v[q])
      BY <1>1, <1>4, <2>1
    <3> QED BY <1>2, <2>1, <3>1 DEF Follows
  <2>2. ASSUME NEW q \in 1..n, IsTick(w[q]), w[q].tick = t, \A r \in (q + 1)..n : ~IsTick(w[r])
        PROVE  Follows(v, n + 2, t, c)
    <3>1. q \in 1..(n + 1) /\ IsTick(v[q]) /\ v[q].tick = t
      BY <1>1, <2>2
    <3>2. \A r \in (q + 1)..(n + 1) : ~IsTick(v[r])
      BY <1>1, <1>4, <2>2
    <3> QED BY <1>2, <3>1, <3>2 DEF Follows
  <2> QED BY <1>2, <1>4, <2>1, <2>2 DEF Follows
<1> QED BY <1>3, <1>4 DEF v, n

-----------------------------------------------------------------------------
(* Ticks and states in order: the inductive invariant                       *)

\* Outside a connection a generator has no WebSocket.
NoConnection(i) == pc[i] \notin InConnection => ws[i] = NoLink

\* The ticks on the way to generator i are not older than the one the client shows, and
\* none is from the future.
OrderOf(i) == Ordered(ws[i].wire, current_tick, server_tick)

\* The states on the way to generator i will find the client at their tick, the one the
\* server sends next included.
StatedOf(i) ==
  ~LaxServer =>
    /\ Stated(ws[i].wire, current_tick)
    /\ ws[i].link = "open" /\ ws[i].announced # None =>
         Follows(ws[i].wire, Len(ws[i].wire) + 1, ws[i].announced, current_tick)

\* What turns() handed out is increasing and ends at last_tick at the latest.
HandedOf(i) ==
  /\ \A a, b \in DOMAIN seen[i].handed : a < b => seen[i].handed[a] < seen[i].handed[b]
  /\ \A a \in DOMAIN seen[i].handed : seen[i].handed[a] <= loc[i].last_tick
  /\ loc[i].last_tick <= current_tick

TickInv ==
  /\ IInv /\ current_tick <= server_tick
  /\ \A i \in Iterators : NoConnection(i) /\ OrderOf(i) /\ StatedOf(i) /\ HandedOf(i)
  /\ ~LaxServer => TurnHasTickOfState

LEMMA TickTypes ==
  ASSUME TypeOK
  PROVE  /\ pc \in [Iterators -> {"idle", "connecting", "sleeping"} \cup InConnection]
         /\ loc \in [Iterators -> Locals] /\ seen \in [Iterators -> Histories]
         /\ ws \in [Iterators -> Links] /\ server_tick \in Nat /\ current_tick \in Nat
         /\ \A i \in Iterators : ws[i].wire \in Seq(Messages)
BY DEF TypeOK, ClientType, GeneratorType, ExternalType, Links

\* Nothing is on the way on a connection that is new or gone.
LEMMA EmptyWire ==
  /\ FreshLink.wire = <<>> /\ FreshLink.announced = None
  /\ NoLink.wire = <<>> /\ NoLink.announced = None
  /\ \A lo, hi : Ordered(<<>>, lo, hi) /\ Stated(<<>>, lo)
<1>1. Len(<<>>) = 0
  OBVIOUS
<1>2. \A lo, hi : Ordered(<<>>, lo, hi) /\ Stated(<<>>, lo)
  BY <1>1 DEF Ordered, Stated
<1> QED BY <1>2 DEF FreshLink, NoLink

-----------------------------------------------------------------------------
(* Where the generators and their connections are                           *)

LEMMA NoConnectionStep ==
  ASSUME TickInv, [Next]_vars, NEW j \in Iterators
  PROVE  NoConnection(j)'
<1>1. /\ pc \in [Iterators -> {"idle", "connecting", "sleeping"} \cup InConnection]
      /\ ws \in [Iterators -> Links] /\ NoConnection(j)
      /\ TypeOK
  BY TickTypes DEF TickInv, IInv
<1>2. ASSUME pc' = pc, ws'[j] = ws[j] \/ ws[j].link = "open" PROVE NoConnection(j)'
  BY <1>1, <1>2 DEF NoConnection, NoLink
<1>3. ASSUME NEW i \in Iterators, Generator(i) PROVE NoConnection(j)'
  <2>1. CASE i # j
    <3>1. pc'[j] = pc[j] /\ ws'[j] = ws[j]
      BY <1>1, <1>3, <2>1, OthersKeep
    <3> QED BY <1>1, <3>1 DEF NoConnection
  <2>2. CASE i = j
    <3>1. ASSUME pc'[i] \in InConnection PROVE NoConnection(j)'
      BY <2>2, <3>1 DEF NoConnection
    <3>2. ASSUME ws'[i] = NoLink PROVE NoConnection(j)'
      BY <2>2, <3>2 DEF NoConnection
    <3>3. CASE HandshakeOk(i) \/ ReadTick(i) \/ ReadReceived(i) \/ ReadState(i) \/ ReadBad(i)
               \/ Resume(i) \/ Abandon(i) \/ (Cancel(i) /\ pc[i] = "reading")
      BY <1>1, <3>1, <3>3 DEF HandshakeOk, ReadTick, ReadReceived, ReadState, ReadBad, Resume, Abandon,
                              Cancel, Deliver, InConnection
    <3>4. CASE StreamEnd(i) \/ LeaveDone(i)
      BY <1>1, <3>2, <3>4 DEF StreamEnd, LeaveDone
    <3>5. CASE Start(i) \/ HandshakeLost(i) \/ HandshakeBroken(i) \/ Wake(i)
               \/ (\E s \in Statuses : HandshakeStatus(i, s)) \/ (Cancel(i) /\ pc[i] # "reading")
      <4>1. pc[i] \notin InConnection /\ ws' = ws
        BY <3>5 DEF Start, MayStart, HandshakeLost, HandshakeBroken, Wake, HandshakeStatus, Cancel,
                    InConnection
      <4> QED BY <1>1, <2>2, <3>2, <4>1 DEF NoConnection
    <3> QED BY <1>3, <3>3, <3>4, <3>5 DEF Generator
  <2> QED BY <2>1, <2>2
<1>4. ASSUME NEW i \in Iterators, Server(i) PROVE NoConnection(j)'
  <2>1. pc' = pc /\ (ws'[j] = ws[j] \/ ws[j].link = "open")
    BY <1>1, <1>4 DEF Server, SendTick, SendState, SendReceived, SendBad, Send, LinkFails
  <2> QED BY <1>2, <2>1
<1>5. CASE CloseSocket
  <2>1. pc' = pc /\ (ws'[j] = ws[j] \/ ws[j].link = "open")
    BY <1>1, <1>5 DEF CloseSocket
  <2> QED BY <1>2, <2>1
<1>6. CASE \/ CloseBegin \/ CloseHttp \/ ServerTick \/ (\E k \in DOMAIN turns : ReadPlan(k))
           \/ UNCHANGED vars
  <2>1. pc' = pc /\ ws' = ws
    BY <1>6 DEF CloseBegin, CloseHttp, ServerTick, ReadPlan, vars
  <2> QED BY <1>2, <2>1
<1> QED BY <1>3, <1>4, <1>5, <1>6 DEF Next
-----------------------------------------------------------------------------
(* What is on the way                                                       *)

\* The goal of this part for generator j.
WireOf(j) == OrderOf(j) /\ StatedOf(j)

LEMMA NewWire ==
  ASSUME NEW j \in Iterators, ws'[j] \in {FreshLink, NoLink}
  PROVE  WireOf(j)'
<1>1. ws'[j].wire = <<>> /\ ws'[j].announced = None
  BY EmptyWire
<1>2. Ordered(<<>>, current_tick', server_tick') /\ Stated(<<>>, current_tick')
  BY EmptyWire
<1>3. OrderOf(j)'
  BY <1>1, <1>2 DEF OrderOf
<1>4. StatedOf(j)'
  BY <1>1, <1>2 DEF StatedOf
<1> QED BY <1>3, <1>4 DEF WireOf

\* The wire is kept, or lost with its connection, while the server may reach a new tick.
LEMMA SameWire ==
  ASSUME TickInv, NEW j \in Iterators, current_tick' = current_tick,
         server_tick' \in {server_tick, server_tick + 1},
         ws'[j] = ws[j] \/ (ws'[j].link = "closed" /\ ws'[j].wire \in {ws[j].wire, <<>>})
  PROVE  WireOf(j)'
<1>1. /\ ws[j].wire \in Seq(Messages) /\ current_tick \in Nat /\ server_tick \in Nat
      /\ OrderOf(j) /\ StatedOf(j)
  BY TickTypes DEF TickInv, IInv
<1>2. Ordered(ws[j].wire, current_tick, server_tick')
  BY <1>1, OrderedLater DEF OrderOf
<1>3. OrderOf(j)'
  BY <1>2, EmptyWire DEF OrderOf
<1>4. ASSUME ~LaxServer PROVE StatedOf(j)'
  <2>1. Stated(ws[j].wire, current_tick)
    BY <1>1, <1>4 DEF StatedOf
  <2>2. CASE ws'[j] = ws[j]
    BY <1>1, <2>2 DEF StatedOf
  <2>3. CASE ws'[j].link = "closed" /\ ws'[j].wire \in {ws[j].wire, <<>>}
    <3>1. Stated(ws'[j].wire, current_tick)
      BY <2>1, <2>3, EmptyWire
    <3> QED BY <2>3, <3>1 DEF StatedOf
  <2> QED BY <2>2, <2>3
<1>5. LaxServer => StatedOf(j)'
  BY DEF StatedOf
<1> QED BY <1>3, <1>4, <1>5 DEF WireOf

\* The first message is read.
LEMMA ReadWire ==
  ASSUME TickInv, NEW i \in Iterators, ws[i].wire # <<>>, Consume(i), server_tick' = server_tick,
         current_tick' = IF IsTick(Head1(i)) THEN Head1(i).tick ELSE current_tick
  PROVE  WireOf(i)' /\ current_tick <= current_tick' /\ current_tick' <= server_tick'
<1> DEFINE w == ws[i].wire
<1>1. /\ w \in Seq(Messages) /\ current_tick \in Nat /\ server_tick \in Nat
      /\ Ordered(w, current_tick, server_tick) /\ current_tick <= server_tick /\ StatedOf(i)
  BY TickTypes DEF TickInv, IInv, OrderOf
<1>2. ws'[i].wire = Tail(w) /\ ws'[i].link = ws[i].link /\ ws'[i].announced = ws[i].announced
  BY TickTypes DEF Consume, Links, TickInv, IInv
<1>3. /\ Ordered(Tail(w), current_tick, server_tick)
      /\ IsTick(Head(w)) => /\ current_tick <= Head(w).tick /\ Head(w).tick <= server_tick
                            /\ Ordered(Tail(w), Head(w).tick, server_tick)
  BY <1>1, OrderedTail
<1>4. OrderOf(i)' /\ current_tick <= current_tick' /\ current_tick' <= server_tick'
  BY <1>1, <1>2, <1>3 DEF OrderOf, Head1
<1>5. ASSUME ~LaxServer PROVE StatedOf(i)'
  <2>1. Stated(Tail(w), current_tick')
    BY <1>1, <1>5, StatedTail DEF StatedOf, Head1
  <2>2. Len(w) \in Nat /\ Len(w) >= 1 /\ Len(Tail(w)) = Len(w) - 1
    BY <1>1, TailFacts
  <2>3. Len(w) + 1 \in 2..(Len(w) + 1) /\ (Len(w) + 1) - 1 = Len(Tail(w)) + 1
    BY <2>2
  <2>4. ASSUME ws[i].link = "open", ws[i].announced # None
        PROVE  Follows(Tail(w), Len(Tail(w)) + 1, ws[i].announced, current_tick')
    <3>1. Follows(w, Len(w) + 1, ws[i].announced, current_tick)
      BY <1>1, <1>5, <2>4 DEF StatedOf
    <3>2. Follows(Tail(w), (Len(w) + 1) - 1, ws[i].announced, current_tick')
      BY <1>1, <2>3, <3>1, FollowsTail DEF Head1
    <3> QED BY <2>3, <3>2
  <2> HIDE DEF w
  <2> QED BY <1>2, <2>1, <2>4 DEF StatedOf
<1>6. LaxServer => StatedOf(i)'
  BY DEF StatedOf
<1> QED BY <1>4, <1>5, <1>6 DEF WireOf

\* The server sends: a tick is its own, a state is of the tick it announced last.
LEMMA SendWire ==
  ASSUME TickInv, NEW i \in Iterators, NEW m \in Messages, Send(i, m),
         IsTick(m) => m.tick = server_tick,
         ~LaxServer /\ IsState(m) => ws[i].announced # None /\ m.tick = ws[i].announced
  PROVE  WireOf(i)'
<1> DEFINE w == ws[i].wire
<1>1. /\ w \in Seq(Messages) /\ current_tick \in Nat /\ server_tick \in Nat
      /\ Ordered(w, current_tick, server_tick) /\ current_tick <= server_tick /\ StatedOf(i)
  BY TickTypes DEF TickInv, IInv, OrderOf
<1>2. /\ ws'[i].wire = Append(w, m) /\ ws[i].link = "open" /\ Len(w) \in Nat
      /\ ws'[i].announced = IF IsTick(m) THEN m.tick ELSE ws[i].announced
      /\ current_tick' = current_tick /\ server_tick' = server_tick
  BY <1>1, TickTypes DEF Send, Links, IsTick, clientVars, TickInv, IInv
<1>3. OrderOf(i)'
  BY <1>1, <1>2, OrderedAppend DEF OrderOf
<1>4. ASSUME ~LaxServer PROVE StatedOf(i)'
  <2>1. Stated(w, current_tick)
    BY <1>1, <1>4 DEF StatedOf
  <2>2. ws[i].announced # None => Follows(w, Len(w) + 1, ws[i].announced, current_tick)
    BY <1>1, <1>2, <1>4 DEF StatedOf
  <2>3. Stated(Append(w, m), current_tick)
    BY <1>1, <1>4, <2>1, <2>2, StatedAppend
  <2>4. Len(Append(w, m)) + 1 = Len(w) + 2
    BY <1>1
  <2>5. IsTick(m) => Follows(Append(w, m), Len(w) + 2, m.tick, current_tick)
    BY <1>1, EndAppend
  <2>6. ~IsTick(m) /\ ws[i].announced # None =>
          Follows(Append(w, m), Len(w) + 2, ws[i].announced, current_tick)
    BY <1>1, <2>2, EndAppend
  <2>7. ws'[i].announced # None =>
          Follows(ws'[i].wire, Len(ws'[i].wire) + 1, ws'[i].announced, current_tick')
    BY <1>2, <2>4, <2>5, <2>6
  <2> HIDE DEF w
  <2> QED BY <1>2, <2>3, <2>7 DEF StatedOf
<1>5. LaxServer => StatedOf(i)'
  BY DEF StatedOf
<1> QED BY <1>3, <1>4, <1>5 DEF WireOf

LEMMA WireStep ==
  ASSUME TickInv, [Next]_vars, NEW j \in Iterators
  PROVE  WireOf(j)' /\ current_tick <= current_tick' /\ current_tick' <= server_tick'
<1>1. /\ pc \in [Iterators -> {"idle", "connecting", "sleeping"} \cup InConnection]
      /\ ws \in [Iterators -> Links] /\ server_tick \in Nat /\ current_tick \in Nat
      /\ TypeOK /\ current_tick <= server_tick
  BY TickTypes DEF TickInv, IInv
<1>2. ASSUME current_tick' = current_tick, server_tick' \in {server_tick, server_tick + 1}
      PROVE  current_tick <= current_tick' /\ current_tick' <= server_tick'
  BY <1>1, <1>2
<1>3. ASSUME NEW i \in Iterators, Generator(i)
      PROVE  WireOf(j)' /\ current_tick <= current_tick' /\ current_tick' <= server_tick'
  <2>1. server_tick' = server_tick
    BY <1>3 DEF Generator, Start, HandshakeOk, HandshakeLost, HandshakeStatus, HandshakeBroken, Wake,
                ReadTick, ReadReceived, ReadState, ReadBad, StreamEnd, Resume, Abandon, Cancel,
                LeaveDone, serverVars
  <2>2. CASE ReadTick(i) \/ ReadReceived(i) \/ ReadState(i) \/ ReadBad(i)
    <3>1. /\ ws[i].wire # <<>> /\ Consume(i) /\ pc[i] = "reading"
          /\ current_tick' = IF IsTick(Head1(i)) THEN Head1(i).tick ELSE current_tick
      BY <2>2 DEF ReadTick, ReadReceived, ReadState, ReadBad, HasMessage, IsTick, SeeTick, clientVars
    <3>2. WireOf(i)' /\ current_tick <= current_tick' /\ current_tick' <= server_tick'
      BY <2>1, <3>1, ReadWire
    <3>3. ASSUME j # i PROVE WireOf(j)'
      <4>1. pc[j] = "idle" /\ ws'[j] = ws[j]
        BY <1>1, <1>3, <3>1, <3>3, AloneInside, OthersKeep DEF Running, TickInv
      <4>2. ws'[j] = NoLink
        BY <4>1 DEF TickInv, NoConnection, InConnection
      <4> QED BY <4>2, NewWire
    <3> QED BY <3>2, <3>3
  <2>3. CASE ~(ReadTick(i) \/ ReadReceived(i) \/ ReadState(i) \/ ReadBad(i))
    <3>1. current_tick' = current_tick
      BY <1>3, <2>3 DEF Generator, Start, HandshakeOk, HandshakeLost, HandshakeStatus, HandshakeBroken,
                        Wake, StreamEnd, Resume, Abandon, Cancel, LeaveDone, Finish, Backoff, clientVars
    <3>2. ws' = ws \/ ws' = [ws EXCEPT ![i] = FreshLink] \/ ws' = [ws EXCEPT ![i] = NoLink]
      BY <1>3, <2>3 DEF Generator, Start, HandshakeOk, HandshakeLost, HandshakeStatus, HandshakeBroken,
                        Wake, StreamEnd, Resume, Abandon, Cancel, LeaveDone
    <3>3. ws'[j] = ws[j] \/ ws'[j] \in {FreshLink, NoLink}
      BY <1>1, <3>2
    <3>4. WireOf(j)'
      BY <2>1, <3>1, <3>3, SameWire, NewWire
    <3> QED BY <1>2, <2>1, <3>1, <3>4
  <2> QED BY <2>2, <2>3
<1>4. ASSUME NEW i \in Iterators, NEW m \in Messages, Send(i, m),
             IsTick(m) => m.tick = server_tick,
             ~LaxServer /\ IsState(m) => ws[i].announced # None /\ m.tick = ws[i].announced
      PROVE  WireOf(j)' /\ current_tick <= current_tick' /\ current_tick' <= server_tick'
  <2>1. current_tick' = current_tick /\ server_tick' = server_tick
    BY <1>4 DEF Send, clientVars
  <2>2. CASE i = j
    BY <1>2, <1>4, <2>1, <2>2, SendWire
  <2>3. CASE i # j
    <3>1. ws'[j] = ws[j]
      BY <1>1, <1>4, <2>3 DEF Send
    <3> QED BY <1>2, <2>1, <3>1, SameWire
  <2> QED BY <2>2, <2>3
<1>5. ASSUME NEW i \in Iterators, Server(i)
      PROVE  WireOf(j)' /\ current_tick <= current_tick' /\ current_tick' <= server_tick'
  <2>1. CASE SendTick(i)
    <3> DEFINE m == [type |-> "tick", tick |-> server_tick]
    <3>1. m \in Messages /\ IsTick(m) /\ ~IsState(m) /\ m.tick = server_tick
      BY <1>1 DEF Messages, TickMsgs, IsTick, IsState
    <3> HIDE DEF m
    <3> QED BY <1>4, <2>1, <3>1 DEF SendTick, m
  <2>2. CASE SendState(i)
    <3>1. PICK t \in (IF ws[i].announced # None THEN {ws[i].announced}
                      ELSE IF LaxServer THEN {server_tick} ELSE {}) :
            Send(i, [type |-> "state", tick |-> t])
      BY <2>2 DEF SendState
    <3> DEFINE m == [type |-> "state", tick |-> t]
    <3>2. t \in Nat /\ (~LaxServer => ws[i].announced # None /\ t = ws[i].announced)
      BY <1>1, <3>1 DEF Links
    <3>3. m \in Messages /\ ~IsTick(m) /\ m.tick = t
      BY <3>2 DEF Messages, TickMsgs, IsTick
    <3>4. Send(i, m)
      BY <3>1
    <3> HIDE DEF m
    <3> QED BY <1>4, <3>2, <3>3, <3>4
  <2>3. CASE SendBad(i)
    <3> DEFINE m == [type |-> "bad"]
    <3>1. m \in Messages /\ ~IsTick(m) /\ ~IsState(m)
      BY DEF Messages, BadMsgs, IsTick, IsState
    <3> HIDE DEF m
    <3> QED BY <1>4, <2>3, <3>1 DEF SendBad, m
  <2>4. ASSUME NEW s \in Sources, SendReceived(i, s)
        PROVE  WireOf(j)' /\ current_tick <= current_tick' /\ current_tick' <= server_tick'
    <3>1. PICK t \in {server_tick - 1, server_tick} \cap Nat :
            Send(i, [type |-> "received", source |-> s, tick |-> t])
      BY <2>4 DEF SendReceived
    <3> DEFINE m == [type |-> "received", source |-> s, tick |-> t]
    <3>2. m \in Messages /\ ~IsTick(m) /\ ~IsState(m)
      BY DEF Messages, ReceivedMsgs, IsTick, IsState
    <3>3. Send(i, m)
      BY <3>1
    <3> HIDE DEF m
    <3> QED BY <1>4, <3>2, <3>3
  <2>5. CASE LinkFails(i)
    <3>1. current_tick' = current_tick /\ server_tick' = server_tick
      BY <2>5 DEF LinkFails, clientVars, serverVars
    <3>2. ws'[j] = ws[j] \/ (ws'[j].link = "closed" /\ ws'[j].wire \in {ws[j].wire, <<>>})
      BY <1>1, <2>5 DEF LinkFails, Links
    <3> QED BY <1>2, <3>1, <3>2, SameWire
  <2> QED BY <1>5, <2>1, <2>2, <2>3, <2>4, <2>5 DEF Server
<1>6. CASE CloseSocket
  <2>1. current_tick' = current_tick /\ server_tick' = server_tick
    BY <1>6 DEF CloseSocket, clientVars, serverVars
  <2>2. ws'[j] = ws[j] \/ (ws'[j].link = "closed" /\ ws'[j].wire \in {ws[j].wire, <<>>})
    BY <1>1, <1>6 DEF CloseSocket, Links
  <2> QED BY <1>2, <2>1, <2>2, SameWire
<1>7. CASE \/ CloseBegin \/ CloseHttp \/ ServerTick \/ (\E k \in DOMAIN turns : ReadPlan(k))
           \/ UNCHANGED vars
  <2>1. current_tick' = current_tick /\ server_tick' \in {server_tick, server_tick + 1} /\ ws' = ws
    BY <1>7 DEF CloseBegin, CloseHttp, ServerTick, ReadPlan, vars, clientVars, serverVars
  <2> QED BY <1>2, <2>1, SameWire
<1> QED BY <1>3, <1>5, <1>6, <1>7 DEF Next
-----------------------------------------------------------------------------
(* What turns() hands out                                                   *)

LEMMA HandedKept ==
  ASSUME TickInv, NEW j \in Iterators, current_tick <= current_tick', current_tick' \in Nat,
         loc'[j].last_tick = loc[j].last_tick, seen'[j].handed = seen[j].handed
  PROVE  HandedOf(j)'
<1>1. loc[j].last_tick \in Nat /\ current_tick \in Nat /\ HandedOf(j)
  BY TickTypes DEF TickInv, IInv, Locals
<1> QED BY <1>1 DEF HandedOf

\* Only the start of a generator and a state it passes on change its history.
LEMMA HistoryKept ==
  ASSUME TypeOK, NEW i \in Iterators, Generator(i), ~Start(i), ~ReadState(i)
  PROVE  loc'[i].last_tick = loc[i].last_tick /\ seen'[i].handed = seen[i].handed
<1>1. /\ loc \in [Iterators -> Locals] /\ seen \in [Iterators -> Histories]
  BY TickTypes
<1> DEFINE Kept == loc'[i].last_tick = loc[i].last_tick /\ seen'[i].handed = seen[i].handed
<1>2. ASSUME NEW f, Finish(i, f) PROVE Kept
  BY <1>1, <1>2 DEF Finish, Histories
<1>3. ASSUME NEW f, NEW a, NEW P, Backoff(i, f, a, P) PROVE Kept
  <2>1. CASE Finish(i, f)
    BY <1>2, <2>1
  <2>2. CASE ~Finish(i, f)
    BY <1>1, <1>3, <2>2 DEF Backoff, Histories, Locals
  <2> QED BY <2>1, <2>2
<1>4. CASE HandshakeOk(i)
  BY <1>1, <1>4 DEF HandshakeOk, Histories, Locals
<1>5. CASE Wake(i)
  BY <1>1, <1>5 DEF Wake, Histories, Locals
<1>6. CASE HandshakeLost(i) \/ HandshakeBroken(i) \/ \E s \in Statuses : HandshakeStatus(i, s)
  BY <1>2, <1>3, <1>6 DEF HandshakeLost, HandshakeBroken, HandshakeStatus
<1>7. CASE ReadTick(i) \/ ReadReceived(i) \/ ReadBad(i)
  BY <1>1, <1>7 DEF ReadTick, ReadReceived, ReadBad, Histories
<1>8. CASE StreamEnd(i)
  BY <1>2, <1>3, <1>8 DEF StreamEnd
<1>9. CASE Resume(i) \/ Abandon(i) \/ Cancel(i) \/ LeaveDone(i)
  BY <1>2, <1>9 DEF Resume, Abandon, Cancel, LeaveDone
<1> QED BY <1>4, <1>5, <1>6, <1>7, <1>8, <1>9 DEF Generator

\* A Turn that is passed on is of a later tick than all before it.
LEMMA HandedNext ==
  ASSUME TickInv, NEW i \in Iterators, ReadState(i)
  PROVE  HandedOf(i)'
<1>1. /\ loc \in [Iterators -> Locals] /\ seen \in [Iterators -> Histories] /\ current_tick \in Nat
      /\ current_tick' = current_tick /\ HandedOf(i)
  BY TickTypes DEF TickInv, IInv, ReadState
<1>2. CASE i \in TurnsIterators /\ ~IsRepeat(i)
  <2> DEFINE h == seen[i].handed
             t == current_tick
  <2>1. h \in Seq(Nat) /\ loc[i].last_tick \in Nat
    BY <1>1 DEF Histories, Locals
  <2>2. loc'[i].last_tick = t /\ seen'[i].handed = Append(h, t)
    BY <1>1, <1>2 DEF ReadState, Locals, Histories
  <2>3. loc[i].last_tick < t
    BY <1>1, <1>2, <2>1 DEF HandedOf, IsRepeat
  <2>4. /\ \A a, b \in 1..Len(h) : a < b => h[a] < h[b]
        /\ \A a \in 1..Len(h) : h[a] <= loc[i].last_tick /\ h[a] \in Nat
    BY <1>1, <2>1 DEF HandedOf
  <2>5. /\ DOMAIN Append(h, t) = 1..(Len(h) + 1) /\ Len(h) \in Nat
        /\ \A a \in 1..Len(h) : Append(h, t)[a] = h[a]
        /\ Append(h, t)[Len(h) + 1] = t
    BY <2>1
  <2> HIDE DEF h, t
  <2>6. \A a \in 1..Len(h) : h[a] < t
    BY <1>1, <2>1, <2>3, <2>4 DEF t
  <2>7. \A a \in 1..(Len(h) + 1) : Append(h, t)[a] <= t
    BY <1>1, <2>4, <2>5, <2>6 DEF t
  <2>8. ASSUME NEW a \in 1..(Len(h) + 1), NEW b \in 1..(Len(h) + 1), a < b
        PROVE  Append(h, t)[a] < Append(h, t)[b]
    <3>1. a \in 1..Len(h)
      BY <2>5, <2>8
    <3>2. b \in 1..Len(h) \/ b = Len(h) + 1
      BY <2>5
    <3> QED BY <2>4, <2>5, <2>6, <2>8, <3>1, <3>2
  <2>9. t <= current_tick'
    BY <1>1 DEF t
  <2> QED BY <2>2, <2>5, <2>7, <2>8, <2>9 DEF HandedOf
<1>3. CASE ~(i \in TurnsIterators /\ ~IsRepeat(i))
  <2>1. loc' = loc /\ seen' = seen
    BY <1>3 DEF ReadState
  <2> QED BY <1>1, <2>1, HandedKept
<1> QED BY <1>2, <1>3

\* The server, the network and the steps of close() leave the generators' locals alone.
LEMMA OutsideKeeps ==
  ASSUME [Next]_vars, ~\E i \in Iterators : Generator(i)
  PROVE  loc' = loc /\ seen' = seen
<1>1. ASSUME NEW i, NEW m, Send(i, m) PROVE loc' = loc /\ seen' = seen
  BY <1>1 DEF Send
<1>2. ASSUME NEW i \in Iterators, Server(i) PROVE loc' = loc /\ seen' = seen
  <2>1. CASE SendTick(i) \/ SendBad(i) \/ \E s \in Sources : SendReceived(i, s)
    BY <1>1, <2>1 DEF SendTick, SendBad, SendReceived
  <2>2. CASE SendState(i)
    BY <1>1, <2>2 DEF SendState
  <2>3. CASE LinkFails(i)
    BY <2>3 DEF LinkFails
  <2> QED BY <1>2, <2>1, <2>2, <2>3 DEF Server
<1>3. CASE CloseBegin \/ CloseSocket \/ CloseHttp \/ ServerTick \/ UNCHANGED vars
  BY <1>3 DEF CloseBegin, CloseSocket, CloseHttp, ServerTick, vars
<1>4. ASSUME NEW k, ReadPlan(k) PROVE loc' = loc /\ seen' = seen
  BY <1>4 DEF ReadPlan
<1> QED BY <1>2, <1>3, <1>4 DEF Next

\* The server and the network do not touch the Turns either.
LEMMA ServerKeepsTurns ==
  ASSUME NEW i \in Iterators, Server(i)
  PROVE  turns' = turns
<1>1. ASSUME NEW m, Send(i, m) PROVE turns' = turns
  BY <1>1 DEF Send, clientVars
<1>2. CASE SendTick(i) \/ SendBad(i) \/ \E s \in Sources : SendReceived(i, s)
  BY <1>1, <1>2 DEF SendTick, SendBad, SendReceived
<1>3. CASE SendState(i)
  BY <1>1, <1>3 DEF SendState
<1>4. CASE LinkFails(i)
  BY <1>4 DEF LinkFails, clientVars
<1> QED BY <1>2, <1>3, <1>4 DEF Server

LEMMA HandedStep ==
  ASSUME TickInv, [Next]_vars, NEW j \in Iterators
  PROVE  HandedOf(j)'
<1>1. /\ TypeOK /\ current_tick \in Nat /\ current_tick' \in Nat /\ current_tick <= current_tick'
      /\ loc \in [Iterators -> Locals] /\ seen \in [Iterators -> Histories]
  BY TickTypes, TypeStep, WireStep DEF TickInv, IInv, TypeOK, ClientType
<1>2. ASSUME NEW i \in Iterators, Generator(i) PROVE HandedOf(j)'
  <2>1. CASE i # j
    BY <1>1, <1>2, <2>1, OthersKeep, HandedKept
  <2>2. CASE i = j /\ Start(i)
    <3>1. loc'[j].last_tick = 0 /\ seen'[j].handed = <<>>
      BY <1>1, <2>2 DEF Start, None
    <3>2. DOMAIN <<>> = {}
      OBVIOUS
    <3> QED BY <1>1, <3>1, <3>2 DEF HandedOf
  <2>3. CASE i = j /\ ReadState(i)
    BY <2>3, HandedNext
  <2>4. CASE i = j /\ ~Start(i) /\ ~ReadState(i)
    BY <1>1, <1>2, <2>4, HistoryKept, HandedKept
  <2> QED BY <2>1, <2>2, <2>3, <2>4
<1>3. CASE ~\E i \in Iterators : Generator(i)
  <2>1. loc' = loc /\ seen' = seen
    BY <1>3, OutsideKeeps
  <2> QED BY <1>1, <2>1, HandedKept
<1> QED BY <1>2, <1>3

-----------------------------------------------------------------------------
(* What the Turns show                                                      *)

LEMMA SealedKeepsOf ==
  ASSUME NEW ts \in Seq(Turns), NEW k \in 0..Len(ts), \A j \in DOMAIN ts : ts[j].tick = ts[j].of
  PROVE  \A j \in DOMAIN Sealed(ts, k) : Sealed(ts, k)[j].tick = Sealed(ts, k)[j].of
<1>1. CASE k = 0
  <2>1. Sealed(ts, k) = ts
    BY <1>1 DEF Sealed, None
  <2> QED BY <2>1
<1>2. CASE k # 0
  <2>1. Sealed(ts, k) = [ts EXCEPT ![k].open = FALSE]
    BY <1>2 DEF Sealed, None
  <2>2. k \in 1..Len(ts) /\ ts \in [1..Len(ts) -> Turns] /\ DOMAIN ts = 1..Len(ts)
    BY <1>2
  <2>3. DOMAIN Sealed(ts, k) = 1..Len(ts)
    BY <2>1, <2>2
  <2>4. \A j \in 1..Len(ts) : Sealed(ts, k)[j] =
          IF j = k THEN [ts[j] EXCEPT !.open = FALSE] ELSE ts[j]
    BY <2>1, <2>2
  <2>5. ASSUME NEW j \in 1..Len(ts)
        PROVE  Sealed(ts, k)[j].tick = Sealed(ts, k)[j].of
    <3>1. ts[j] \in Turns /\ ts[j].tick = ts[j].of
      BY <2>2
    <3> QED BY <2>4, <3>1 DEF Turns
  <2> QED BY <2>3, <2>5
<1> QED BY <1>1, <1>2

LEMMA TurnTickStep ==
  ASSUME TickInv, [Next]_vars, ~LaxServer
  PROVE  TurnHasTickOfState'
<1>1. /\ turns \in Seq(Turns) /\ active_turn \in 0..Len(turns) /\ TurnHasTickOfState
      /\ \A i \in Iterators : ws[i].wire \in Seq(Messages)
  BY TickTypes DEF TickInv, IInv, TypeOK, ClientType
<1>2. \A k \in DOMAIN Sealed(turns, active_turn) :
        Sealed(turns, active_turn)[k].tick = Sealed(turns, active_turn)[k].of
  BY <1>1, SealedKeepsOf DEF TurnHasTickOfState
<1>3. ASSUME turns' \in {turns, Sealed(turns, active_turn)} PROVE TurnHasTickOfState'
  BY <1>1, <1>2, <1>3 DEF TurnHasTickOfState
<1>4. ASSUME NEW i \in Iterators, ReadState(i) PROVE TurnHasTickOfState'
  <2> DEFINE sealed == Sealed(turns, active_turn)
             new == [tick |-> current_tick, of |-> Head1(i).tick, open |-> TRUE, decided |-> FALSE]
  <2>1. Stated(ws[i].wire, current_tick) /\ ws[i].wire # <<>> /\ IsState(Head(ws[i].wire))
    BY <1>4 DEF TickInv, StatedOf, ReadState, HasMessage, IsState, Head1
  <2>2. Head1(i).tick = current_tick
    BY <1>1, <2>1, StatedTail DEF Head1
  <2>3. turns' = Append(sealed, new)
    BY <1>4 DEF ReadState
  <2>4. sealed \in Seq(Turns)
    BY <1>1, SealedFacts
  <2>5. new.tick = new.of
    BY <2>2
  <2>6. \A k \in DOMAIN sealed : sealed[k].tick = sealed[k].of
    BY <1>2
  <2> HIDE DEF sealed, new
  <2>7. /\ DOMAIN Append(sealed, new) = 1..(Len(sealed) + 1) /\ DOMAIN sealed = 1..Len(sealed)
        /\ \A k \in 1..Len(sealed) : Append(sealed, new)[k] = sealed[k]
        /\ Append(sealed, new)[Len(sealed) + 1] = new /\ Len(sealed) \in Nat
    BY <2>4
  <2> QED BY <2>3, <2>5, <2>6, <2>7 DEF TurnHasTickOfState
<1>5. ASSUME NEW i \in Iterators, Generator(i), ~ReadState(i) PROVE TurnHasTickOfState'
  <2>1. turns' \in {turns, Sealed(turns, active_turn)}
    BY <1>5 DEF Generator, Start, HandshakeOk, HandshakeLost, HandshakeStatus, HandshakeBroken, Wake,
                ReadTick, ReadReceived, ReadBad, StreamEnd, Resume, Abandon, Cancel, LeaveDone,
                Finish, Backoff, clientVars
  <2> QED BY <1>3, <2>1
<1>6. ASSUME NEW k \in DOMAIN turns, ReadPlan(k) PROVE TurnHasTickOfState'
  <2>1. turns' = [turns EXCEPT ![k].decided = TRUE] /\ \A n \in DOMAIN turns : turns[n] \in Turns
    BY <1>1, <1>6 DEF ReadPlan
  <2> QED BY <1>1, <2>1 DEF TurnHasTickOfState, Turns
<1>7. CASE CloseBegin
  BY <1>3, <1>7 DEF CloseBegin
<1>8. CASE (\E i \in Iterators : Server(i)) \/ CloseSocket \/ CloseHttp \/ ServerTick
           \/ UNCHANGED vars
  <2>1. CASE \E i \in Iterators : Server(i)
    BY <1>3, <2>1, ServerKeepsTurns
  <2>2. CASE CloseSocket \/ CloseHttp \/ ServerTick \/ UNCHANGED vars
    BY <1>3, <2>2 DEF CloseSocket, CloseHttp, ServerTick, vars, clientVars
  <2> QED BY <1>8, <2>1, <2>2
<1> QED BY <1>4, <1>5, <1>6, <1>7, <1>8 DEF Next

-----------------------------------------------------------------------------
(* The theorems about the order                                             *)

LEMMA TickInit == Init => TickInv
<1> SUFFICES ASSUME Init PROVE TickInv
  OBVIOUS
<1>1. IInv
  BY TypeInit, SafetyInit DEF IInv
<1>2. current_tick = 0 /\ server_tick = 1 /\ turns = <<>>
  BY DEF Init, None
<1>3. ASSUME NEW i \in Iterators
      PROVE  NoConnection(i) /\ OrderOf(i) /\ StatedOf(i) /\ HandedOf(i)
  <2>1. /\ ws[i] = NoLink /\ loc[i].last_tick = 0 /\ seen[i].handed = <<>>
    BY DEF Init, None
  <2>2. ws[i].wire = <<>> /\ ws[i].announced = None
    BY <2>1, EmptyWire
  <2>3. OrderOf(i)
    BY <2>2, EmptyWire DEF OrderOf
  <2>4. StatedOf(i)
    BY <2>2, EmptyWire DEF StatedOf
  <2>5. DOMAIN <<>> = {}
    OBVIOUS
  <2>6. HandedOf(i)
    BY <1>2, <2>1, <2>5 DEF HandedOf
  <2> QED BY <2>1, <2>3, <2>4, <2>6 DEF NoConnection
<1>4. TurnHasTickOfState
  BY <1>2 DEF TurnHasTickOfState
<1> QED BY <1>1, <1>2, <1>3, <1>4 DEF TickInv

LEMMA TickStep == TickInv /\ [Next]_vars => TickInv'
<1> SUFFICES ASSUME TickInv, [Next]_vars PROVE TickInv'
  OBVIOUS
<1>1. IInv'
  BY InductiveStep DEF TickInv
<1>2. current_tick' <= server_tick'
  <2>1. CASE Iterators # {}
    BY <2>1, WireStep
  <2>2. CASE Iterators = {}
    <3>1. current_tick \in Nat /\ server_tick \in Nat /\ current_tick <= server_tick
      BY TickTypes DEF TickInv, IInv
    <3>2. current_tick' = current_tick /\ server_tick' \in {server_tick, server_tick + 1}
      BY <2>2 DEF Next, CloseSocket, CloseBegin, CloseHttp, ServerTick, ReadPlan, vars, clientVars,
                  serverVars
    <3> QED BY <3>1, <3>2
  <2> QED BY <2>1, <2>2
<1>3. \A i \in Iterators : NoConnection(i)' /\ OrderOf(i)' /\ StatedOf(i)' /\ HandedOf(i)'
  BY NoConnectionStep, WireStep, HandedStep DEF WireOf
<1>4. ~LaxServer => TurnHasTickOfState'
  BY TurnTickStep
<1> QED BY <1>1, <1>2, <1>3, <1>4 DEF TickInv

LEMMA TickAlways == Spec => []TickInv
BY TickInit, TickStep, PTL DEF Spec

\* However often the server repeats a tick, replaces a state or is reconnected to,
\* turns() hands out each tick at most once and in increasing order (turns,
\* _materialize).
THEOREM TicksHandedOnce == Spec => []HandedOnce
<1>1. TickInv => HandedOnce
  BY DEF TickInv, HandedOf, HandedOnce
<1> QED BY <1>1, TickAlways, PTL

\* A server that announces the tick of every state on the connection it sends it on never
\* makes the client show a state under the tick of another, although the state message
\* carries none and the client's tick survives the connection (_materialize).
THEOREM TurnsShowTheirTick ==
  ASSUME LaxServer = FALSE
  PROVE  Spec => []TurnHasTickOfState
<1>1. TickInv => TurnHasTickOfState
  BY DEF TickInv
<1> QED BY <1>1, TickAlways, PTL

-----------------------------------------------------------------------------
(* What the reconnect loop retries: the inductive invariant                 *)

\* RetryExactlyTransient for one generator; inside a connection the only fault it may
\* carry is a broken message, and a connection that was closed has a close code.
FaultsOf(i) ==
  /\ pc[i] = "sleeping" => seen[i].fault \in Transient
  /\ pc[i] = "idle" /\ seen[i].fault \in Transient => closed
  /\ pc[i] \in InConnection => seen[i].fault \in {None, BadMessage}
AllCodes == 1000..4999
CodeOf(i) == ws[i].link = "closed" => ws[i].code \in AllCodes

RetryInv == TypeOK /\ \A i \in Iterators : FaultsOf(i) /\ CodeOf(i)

-----------------------------------------------------------------------------
(* Lemmas                                                                   *)

\* Membership in Transient as a comparison of numbers.
LEMMA TransientIs ==
  ASSUME NEW c \in Int
  PROVE  c \in Transient <=> \/ c = 1 \/ c = 409 \/ c = 429 \/ (500 <= c /\ c <= 599)
                             \/ (1001 <= c /\ c <= 4999 /\ c # 1008)
<1>1. /\ c \in 500..599 <=> 500 <= c /\ c <= 599
      /\ c \in 1001..4999 <=> 1001 <= c /\ c <= 4999
  OBVIOUS
<1>2. c \in Transient <=> c \in {1, 409, 429} \/ c \in 500..599 \/ (c \in 1001..4999 /\ c \notin {1008})
  BY DEF Transient, OsError
<1>3. c \in Transient <=> c = 1 \/ c = 409 \/ c = 429 \/ c \in 500..599 \/ (c \in 1001..4999 /\ c # 1008)
  BY <1>2
<1> QED BY <1>1, <1>3

\* Which numbers are transient faults.
LEMMA TransientFacts ==
  /\ OsError \in Transient
  /\ None \notin Transient /\ BadMessage \notin Transient /\ BadHandshake \notin Transient
  /\ \A s \in Statuses : HandshakeIsFinal(s) <=> s \notin Transient
  /\ \A c \in AllCodes : CloseIsFinal(c) <=> c \notin Transient
  /\ CloseCodes \subseteq AllCodes /\ LocalCloseCodes \subseteq AllCodes
<1>1. OsError \in Transient
  BY TransientIs DEF OsError
<1>2. None \notin Transient /\ BadMessage \notin Transient /\ BadHandshake \notin Transient
  BY TransientIs DEF None, BadMessage, BadHandshake
<1>3. ASSUME NEW s \in Statuses PROVE HandshakeIsFinal(s) <=> s \notin Transient
  <2>1. s \in Int /\ 400 <= s /\ s <= 599
    BY ClientAssumption
  <2> QED BY <2>1, TransientIs DEF HandshakeIsFinal, RateLimited
<1>4. ASSUME NEW c \in AllCodes PROVE CloseIsFinal(c) <=> c \notin Transient
  <2>1. c \in Int /\ 1000 <= c /\ c <= 4999
    BY DEF AllCodes
  <2> QED BY <2>1, TransientIs DEF CloseIsFinal
<1>5. CloseCodes \subseteq AllCodes
  BY ClientAssumption DEF AllCodes
<1>6. LocalCloseCodes \subseteq AllCodes
  BY DEF LocalCloseCodes, AllCodes
<1> QED BY <1>1, <1>2, <1>3, <1>4, <1>5, <1>6

\* The end of a generator with a fault that is not transient, or of a closed client.
LEMMA FinishFaults ==
  ASSUME TypeOK, NEW i \in Iterators, NEW f, Finish(i, f), f \notin Transient \/ closed
  PROVE  FaultsOf(i)'
BY DEF TypeOK, GeneratorType, Finish, FaultsOf, InConnection

\* A transient fault puts the generator to sleep, or ends it when the client is closed.
LEMMA BackoffFaults ==
  ASSUME TypeOK, NEW i \in Iterators, NEW f \in Transient, NEW a, NEW P, Backoff(i, f, a, P)
  PROVE  FaultsOf(i)'
<1>1. CASE closed /\ Finish(i, f)
  BY <1>1, FinishFaults
<1>2. CASE ~(closed /\ Finish(i, f))
  <2>1. pc'[i] = "sleeping" /\ seen'[i].fault = f
    BY <1>2 DEF Backoff, TypeOK, GeneratorType, Histories
  <2> QED BY <2>1 DEF FaultsOf, InConnection
<1> QED BY <1>1, <1>2

-----------------------------------------------------------------------------
(* The step of a generator                                                  *)

LEMMA GeneratorCodes ==
  ASSUME RetryInv, NEW i \in Iterators, Generator(i)
  PROVE  CodeOf(i)'
<1>1. ws \in [Iterators -> Links] /\ CodeOf(i)
  BY DEF RetryInv, TypeOK, ExternalType
<1>2. CASE ws' = ws
  BY <1>1, <1>2 DEF CodeOf
<1>3. CASE ws' = [ws EXCEPT ![i] = FreshLink] \/ ws' = [ws EXCEPT ![i] = NoLink]
  BY <1>1, <1>3 DEF CodeOf, FreshLink, NoLink
<1>4. CASE Consume(i)
  <2>1. ws'[i].link = ws[i].link /\ ws'[i].code = ws[i].code
    BY <1>1, <1>4 DEF Consume, Links
  <2> QED BY <1>1, <2>1 DEF CodeOf
<1>5. ws' = ws \/ ws' = [ws EXCEPT ![i] = FreshLink] \/ ws' = [ws EXCEPT ![i] = NoLink] \/ Consume(i)
  BY DEF Generator, Start, HandshakeOk, HandshakeLost, HandshakeStatus, HandshakeBroken, Wake,
         ReadTick, ReadReceived, ReadState, ReadBad, StreamEnd, Resume, Abandon, Cancel, LeaveDone
<1> QED BY <1>2, <1>3, <1>4, <1>5

LEMMA GeneratorFaults ==
  ASSUME RetryInv, NEW i \in Iterators, Generator(i)
  PROVE  FaultsOf(i)'
<1>1. /\ pc \in [Iterators -> {"idle", "connecting", "sleeping"} \cup InConnection]
      /\ seen \in [Iterators -> Histories] /\ TypeOK
  BY DEF RetryInv, TypeOK, GeneratorType
<1>2. /\ pc[i] = "sleeping" => seen[i].fault \in Transient
      /\ pc[i] = "idle" /\ seen[i].fault \in Transient => closed
      /\ pc[i] \in InConnection => seen[i].fault \in {None, BadMessage}
      /\ ws[i].link = "closed" => ws[i].code \in AllCodes
  BY DEF RetryInv, FaultsOf, CodeOf
<1>3. ASSUME pc'[i] = "connecting" PROVE FaultsOf(i)'
  BY <1>3 DEF FaultsOf, InConnection
<1>4. CASE Start(i)
  BY <1>1, <1>3, <1>4 DEF Start
<1>5. ASSUME NEW where \in InConnection, pc'[i] = where, seen'[i].fault \in {None, BadMessage}
      PROVE  FaultsOf(i)'
  BY <1>5 DEF FaultsOf, InConnection
<1>6. CASE HandshakeOk(i)
  <2>1. pc'[i] = "reading" /\ seen'[i].fault = None
    BY <1>1, <1>6 DEF HandshakeOk, Histories
  <2> QED BY <1>5, <2>1 DEF InConnection
<1>7. ASSUME NEW s \in Statuses, HandshakeStatus(i, s) PROVE FaultsOf(i)'
  <2>1. CASE HandshakeIsFinal(s)
    BY <1>1, <1>7, <2>1, FinishFaults, TransientFacts DEF HandshakeStatus
  <2>2. CASE ~HandshakeIsFinal(s)
    BY <1>1, <1>7, <2>2, BackoffFaults, TransientFacts DEF HandshakeStatus
  <2> QED BY <2>1, <2>2
<1>8. CASE HandshakeLost(i)
  BY <1>1, <1>8, BackoffFaults, TransientFacts DEF HandshakeLost
<1>9. CASE HandshakeBroken(i)
  BY <1>1, <1>9, FinishFaults, TransientFacts DEF HandshakeBroken
<1>10. CASE Wake(i)
  <2>1. CASE closed
    <3>1. pc'[i] = "idle" /\ closed'
      BY <1>1, <1>10, <2>1 DEF Wake
    <3> QED BY <3>1 DEF FaultsOf, InConnection
  <2>2. CASE ~closed
    BY <1>1, <1>3, <1>10, <2>2 DEF Wake
  <2> QED BY <2>1, <2>2
<1>11. CASE ReadTick(i) \/ ReadReceived(i) \/ ReadState(i)
  <2>1. pc[i] = "reading" /\ pc'[i] \in {"reading", "yielded"}
    BY <1>1, <1>11 DEF ReadTick, ReadReceived, ReadState, HasMessage, Deliver
  <2>2. seen'[i].fault = seen[i].fault
    BY <1>1, <1>11 DEF ReadTick, ReadReceived, ReadState, Histories
  <2> QED BY <1>2, <1>5, <2>1, <2>2 DEF InConnection
<1>12. CASE ReadBad(i)
  <2>1. pc'[i] = "leaving" /\ seen'[i].fault = BadMessage
    BY <1>1, <1>12 DEF ReadBad, Histories
  <2> QED BY <1>5, <2>1 DEF InConnection
<1>13. CASE StreamEnd(i)
  <2>1. ws[i].code \in AllCodes
    BY <1>2, <1>13 DEF StreamEnd
  <2>2. CASE CloseIsFinal(ws[i].code)
    BY <1>1, <1>13, <2>1, <2>2, FinishFaults, TransientFacts DEF StreamEnd
  <2>3. CASE ~CloseIsFinal(ws[i].code)
    BY <1>1, <1>13, <2>1, <2>3, BackoffFaults, TransientFacts DEF StreamEnd
  <2> QED BY <2>2, <2>3
<1>14. CASE Resume(i) \/ Abandon(i)
  <2>1. pc[i] \in InConnection /\ pc'[i] \in {"reading", "leaving"} /\ seen' = seen
    BY <1>1, <1>14 DEF Resume, Abandon, InConnection
  <2> QED BY <1>2, <1>5, <2>1 DEF InConnection
<1>15. CASE Cancel(i)
  <2>1. CASE pc[i] = "reading"
    <3>1. pc'[i] = "leaving" /\ seen' = seen
      BY <1>1, <1>15, <2>1 DEF Cancel
    <3> QED BY <1>2, <1>5, <2>1, <3>1 DEF InConnection
  <2>2. CASE pc[i] # "reading"
    BY <1>1, <1>15, <2>2, FinishFaults, TransientFacts DEF Cancel
  <2> QED BY <2>1, <2>2
<1>16. CASE LeaveDone(i)
  <2>1. seen[i].fault \notin Transient
    BY <1>2, <1>16, TransientFacts DEF LeaveDone, InConnection
  <2> QED BY <1>1, <1>16, <2>1, FinishFaults DEF LeaveDone
<1> QED
  BY <1>4, <1>6, <1>7, <1>8, <1>9, <1>10, <1>11, <1>12, <1>13, <1>14, <1>15, <1>16 DEF Generator

-----------------------------------------------------------------------------
(* The steps of the server, the network, the application and close()        *)

\* They leave the generators where they are, and closed does not go back.
LEMMA OthersStep ==
  ASSUME RetryInv, pc' = pc, seen' = seen, closed => closed', NEW i \in Iterators, CodeOf(i)'
  PROVE  FaultsOf(i)' /\ CodeOf(i)'
<1>1. FaultsOf(i)
  BY DEF RetryInv
<1>2. FaultsOf(i)'
  BY <1>1 DEF FaultsOf
<1> QED BY <1>2

LEMMA RetryStep == RetryInv /\ [Next]_vars => RetryInv'
<1> SUFFICES ASSUME RetryInv, [Next]_vars PROVE RetryInv'
  OBVIOUS
<1>1. TypeOK' /\ ws \in [Iterators -> Links]
  BY TypeStep DEF RetryInv, TypeOK, ExternalType
<1> SUFFICES ASSUME NEW i \in Iterators PROVE FaultsOf(i)' /\ CodeOf(i)'
  BY <1>1 DEF RetryInv
<1>2. FaultsOf(i) /\ CodeOf(i)
  BY DEF RetryInv
<1>3. ASSUME NEW j \in Iterators, Generator(j) PROVE FaultsOf(i)' /\ CodeOf(i)'
  <2>1. CASE j = i
    BY <1>3, <2>1, GeneratorFaults, GeneratorCodes
  <2>2. CASE j # i
    <3>1. pc'[i] = pc[i] /\ seen'[i] = seen[i] /\ ws'[i] = ws[i] /\ closed' = closed
      BY <1>3, <2>2, OthersKeep DEF RetryInv
    <3>2. FaultsOf(i)'
      BY <1>2, <3>1 DEF FaultsOf
    <3>3. CodeOf(i)'
      BY <1>2, <3>1 DEF CodeOf
    <3> QED BY <3>2, <3>3
  <2> QED BY <2>1, <2>2
<1>4. ASSUME NEW j \in Iterators, NEW m, Send(j, m) PROVE FaultsOf(i)' /\ CodeOf(i)'
  <2>1. ws'[i].link = ws[i].link /\ ws'[i].code = ws[i].code
    BY <1>1, <1>4 DEF Send, Links
  <2>2. CodeOf(i)'
    BY <1>2, <2>1 DEF CodeOf
  <2> QED BY <1>4, <2>2, OthersStep DEF Send, clientVars
<1>5. ASSUME NEW j \in Iterators, NEW c \in AllCodes, NEW w,
             ws' = [ws EXCEPT ![j].link = "closed", ![j].code = c, ![j].wire = w]
      PROVE  CodeOf(i)'
  <2>1. i = j => ws'[i].code = c
    BY <1>1, <1>5 DEF Links
  <2>2. i # j => ws'[i] = ws[i]
    BY <1>1, <1>5
  <2> QED BY <1>2, <2>1, <2>2 DEF CodeOf
<1>6. ASSUME NEW j \in Iterators, LinkFails(j) PROVE FaultsOf(i)' /\ CodeOf(i)'
  <2>1. CodeOf(i)'
    BY <1>5, <1>6, TransientFacts DEF LinkFails
  <2> QED BY <1>6, <2>1, OthersStep DEF LinkFails, clientVars
<1>7. ASSUME NEW j \in Iterators, Server(j) PROVE FaultsOf(i)' /\ CodeOf(i)'
  BY <1>4, <1>6, <1>7 DEF Server, SendTick, SendState, SendBad, SendReceived
<1>8. CASE CloseSocket
  <2>1. PICK j \in Iterators, c \in LocalCloseCodes :
          ws' = IF ws[j].link = "open" THEN [ws EXCEPT ![j].link = "closed", ![j].code = c] ELSE ws
    BY <1>8 DEF CloseSocket
  <2>2. c \in AllCodes
    BY TransientFacts
  <2>3. ws'[i] = ws[i] \/ ws'[i].code = c
    BY <1>1, <2>1 DEF Links
  <2>4. CodeOf(i)'
    BY <1>2, <2>2, <2>3 DEF CodeOf
  <2> QED BY <1>8, <2>4, OthersStep DEF CloseSocket, clientVars
<1>9. CASE \/ CloseBegin \/ CloseHttp \/ ServerTick \/ (\E k \in DOMAIN turns : ReadPlan(k))
           \/ UNCHANGED vars
  <2>1. pc' = pc /\ seen' = seen /\ ws' = ws /\ (closed => closed')
    BY <1>9 DEF CloseBegin, CloseHttp, ServerTick, ReadPlan, vars, clientVars
  <2>2. CodeOf(i)'
    BY <1>2, <2>1 DEF CodeOf
  <2> QED BY <2>1, <2>2, OthersStep
<1> QED BY <1>3, <1>7, <1>8, <1>9 DEF Next

LEMMA RetryInit == Init => RetryInv
<1> SUFFICES ASSUME Init PROVE RetryInv
  OBVIOUS
<1>1. TypeOK
  BY TypeInit
<1>2. ASSUME NEW i \in Iterators PROVE FaultsOf(i) /\ CodeOf(i)
  <2>1. pc[i] = "idle" /\ seen[i].fault = None /\ ws[i].link = "none"
    BY DEF Init, NoLink
  <2>2. FaultsOf(i)
    BY <2>1, TransientFacts DEF FaultsOf, InConnection
  <2>3. CodeOf(i)
    BY <2>1 DEF CodeOf
  <2> QED BY <2>2, <2>3
<1> QED BY <1>1, <1>2 DEF RetryInv

\* The generator tries again after a transient fault and after no other, and a transient
\* fault ends it only when the client was closed -- for every set of statuses, close
\* codes and Retry-After values (check_close_exception, check_handshake_exception).
THEOREM RetriesTransientFaults == Spec => []RetryExactlyTransient
<1>1. RetryInv => RetryExactlyTransient
  BY DEF RetryInv, FaultsOf, RetryExactlyTransient
<1> QED BY <1>1, RetryInit, RetryStep, PTL DEF Spec
-----------------------------------------------------------------------------
(* How long a generator stays away: the inductive invariant                 *)

\* The delay after n failed attempts since the last established connection.
Capped(n) == IF Doubled[n] <= MaxDelay THEN Doubled[n] ELSE MaxDelay

\* BackoffExact for one generator; the delay is the one of its failed attempts within a
\* connection too, which is where the next backoff starts from.
BackoffOf(i) ==
  /\ pc[i] # "idle" => seen[i].fails \in 0..MaxFails /\ loc[i].delay = Capped(seen[i].fails)
  /\ pc[i] = "sleeping" => LongEnough(i)

BackoffInv == RetryInv /\ \A i \in Iterators : BackoffOf(i)

-----------------------------------------------------------------------------
(* Lemmas                                                                   *)

\* Doubled is the function its recursive definition describes.
LEMMA DoubledFacts ==
  Doubled[0] = MinDelay /\ \A n \in Nat : Doubled[n + 1] = 2 * Doubled[n] /\ Doubled[n] \in Nat
<1> DEFINE F == [d \in Nat |-> 2 * d]
           D(f) == [n \in Nat |-> IF n = 0 THEN MinDelay ELSE 2 * f[n - 1]]
<1>1. F \in [Nat -> Nat] /\ MinDelay \in Nat
  BY ClientAssumption
<1>2. PICK g \in [Nat -> Nat] : Iterates(g, MinDelay, F)
  <2> HIDE DEF F
  <2> QED BY <1>1, IterateExists, Zenon
<1>3. ASSUME NEW n \in Nat PROVE g[n] = D(g)[n]
  <2>1. CASE n = 0
    BY <1>2, <2>1 DEF Iterates
  <2>2. CASE n # 0
    <3>1. n - 1 \in Nat /\ (n - 1) + 1 = n
      BY <2>2
    <3> QED BY <1>2, <2>2, <3>1 DEF Iterates
  <2> QED BY <2>1, <2>2
<1>4. g = D(g)
  BY <1>2, <1>3
<1>5. Doubled = D(Doubled)
  BY <1>4 DEF Doubled
<1>6. Doubled[0] = MinDelay /\ \A n \in Nat : Doubled[n + 1] = 2 * Doubled[n]
  <2> HIDE DEF D
  <2>1. D(Doubled)[0] = MinDelay
    BY DEF D
  <2>2. ASSUME NEW n \in Nat PROVE D(Doubled)[n + 1] = 2 * Doubled[n]
    <3>1. n + 1 \in Nat /\ n + 1 # 0 /\ (n + 1) - 1 = n
      OBVIOUS
    <3> QED BY <3>1 DEF D
  <2> QED BY <1>5, <2>1, <2>2
<1> DEFINE S == {n \in Nat : Doubled[n] \in Nat}
<1>7. 0 \in S /\ \A n \in Nat : n \in S => n + 1 \in S
  BY <1>1, <1>6
<1>8. Nat \subseteq S
  <2> HIDE DEF S
  <2> QED BY <1>7, SetInduction, Zenon
<1> QED BY <1>6, <1>8

\* One more failed attempt doubles the delay up to its maximum, where the counter may stop.
LEMMA CappedFacts ==
  /\ Capped(0) = MinDelay
  /\ \A n \in 0..MaxFails : NextDelay(Capped(n)) = Capped(IF n < MaxFails THEN n + 1 ELSE n)
<1>1. MinDelay \in Nat \ {0} /\ MaxDelay \in Nat /\ MinDelay <= MaxDelay /\ MaxFails \in Nat
  BY ClientAssumption
<1>2. Capped(0) = MinDelay
  BY <1>1, DoubledFacts DEF Capped
<1>3. ASSUME NEW n \in 0..MaxFails
      PROVE  NextDelay(Capped(n)) = Capped(IF n < MaxFails THEN n + 1 ELSE n)
  <2>1. n \in Nat /\ n + 1 \in Nat
    BY <1>1
  <2>2. Doubled[n + 1] = 2 * Doubled[n] /\ Doubled[n] \in Nat
    BY <2>1, DoubledFacts
  <2>3. CASE n < MaxFails
    BY <1>1, <2>2, <2>3 DEF Capped, NextDelay
  <2>4. CASE n = MaxFails
    BY <1>1, <2>2, <2>4, FailsAssumption DEF Capped, NextDelay
  <2> QED BY <1>1, <2>3, <2>4
<1> QED BY <1>2, <1>3

\* A pause of a limited client that was asked to stay away for a.
AsLongAsAsked(p, a) == p >= 10 /\ p >= a /\ p \in {10, a}

\* The pauses are long enough for the faults they follow.
LEMMA PausesAreLong ==
  ASSUME NEW d \in Nat, NEW p
  PROVE  /\ p \in Jitter(d) => 8 * d < 10 * (p + 1) /\ 10 * p <= 12 * d
         /\ \A s \in Statuses : \A a \in AskedBy(s) :
              RateLimited(s) /\ p \in HandshakePauses(s, a, d) => AsLongAsAsked(p, a)
<1>1. p \in Jitter(d) => 8 * d < 10 * (p + 1) /\ 10 * p <= 12 * d
  BY DEF Jitter
<1>2. ASSUME NEW s \in Statuses, NEW a \in AskedBy(s), RateLimited(s),
             p \in HandshakePauses(s, a, d)
      PROVE  AsLongAsAsked(p, a)
  <2>1. p = IF a >= 10 THEN a ELSE 10
    BY <1>2 DEF HandshakePauses
  <2>2. a \in Nat
    BY ClientAssumption DEF AskedBy
  <2> QED BY <2>1, <2>2 DEF AsLongAsAsked
<1> QED BY <1>1, <1>2

\* A close code is not the status of a limited client.
LEMMA CodesAreNoLimit ==
  ASSUME NEW c \in AllCodes
  PROVE  ~RateLimited(c)
<1>1. c \in Int /\ 1000 <= c
  BY DEF AllCodes
<1>2. c # 409 /\ c # 429
  BY <1>1
<1> QED BY <1>2 DEF RateLimited

\* A sleep that is long enough for its fault begins with the delay as it is.
LEMMA BackoffLong ==
  ASSUME TypeOK, NEW i \in Iterators, BackoffOf(i), pc[i] # "idle", NEW f, NEW a, NEW P,
         Backoff(i, f, a, P),
         \A p \in P : IF RateLimited(f) THEN AsLongAsAsked(p, a)
                      ELSE 8 * loc[i].delay < 10 * (p + 1) /\ 10 * p <= 12 * loc[i].delay
  PROVE  BackoffOf(i)'
<1>1. pc \in [Iterators -> {"idle", "connecting", "sleeping"} \cup InConnection]
      /\ seen \in [Iterators -> Histories] /\ loc \in [Iterators -> Locals]
  BY DEF TypeOK, GeneratorType
<1>2. CASE Finish(i, f)
  <2>1. pc'[i] = "idle"
    BY <1>1, <1>2 DEF Finish
  <2> QED BY <2>1 DEF BackoffOf
<1>3. CASE ~Finish(i, f)
  <2>1. PICK p \in P : loc' = [loc EXCEPT ![i].pause = p]
    BY <1>3 DEF Backoff
  <2>2. loc'[i].pause = p /\ loc'[i].delay = loc[i].delay
    BY <1>1, <2>1 DEF Locals
  <2>3. /\ pc'[i] = "sleeping" /\ seen'[i].fault = f /\ seen'[i].asked = a
        /\ seen'[i].fails = seen[i].fails
    BY <1>1, <1>3 DEF Backoff, Histories
  <2>4. LongEnough(i)'
    BY <2>2, <2>3 DEF LongEnough, AsLongAsAsked
  <2>5. seen[i].fails \in 0..MaxFails /\ loc[i].delay = Capped(seen[i].fails)
    BY DEF BackoffOf
  <2> QED BY <2>2, <2>3, <2>4, <2>5 DEF BackoffOf
<1> QED BY <1>2, <1>3

\* The end of a generator.
LEMMA FinishLong ==
  ASSUME TypeOK, NEW i \in Iterators, NEW f, Finish(i, f)
  PROVE  BackoffOf(i)'
BY DEF TypeOK, GeneratorType, Finish, BackoffOf

-----------------------------------------------------------------------------
(* The step of a generator, and of the others                               *)

LEMMA GeneratorBackoff ==
  ASSUME BackoffInv, NEW i \in Iterators, Generator(i)
  PROVE  BackoffOf(i)'
<1>1. /\ pc \in [Iterators -> {"idle", "connecting", "sleeping"} \cup InConnection]
      /\ seen \in [Iterators -> Histories] /\ loc \in [Iterators -> Locals]
      /\ TypeOK /\ BackoffOf(i) /\ CodeOf(i) /\ loc[i].delay \in Nat
  <2>1. loc \in [Iterators -> Locals]
    BY DEF BackoffInv, RetryInv, TypeOK, GeneratorType
  <2>2. loc[i].delay \in Nat
    BY <2>1, ClientAssumption DEF Locals
  <2> QED BY <2>1, <2>2 DEF BackoffInv, RetryInv, TypeOK, GeneratorType
<1>2. pc[i] # "idle" => seen[i].fails \in 0..MaxFails /\ loc[i].delay = Capped(seen[i].fails)
  BY <1>1 DEF BackoffOf
<1>3. ASSUME pc'[i] # "sleeping", seen'[i].fails \in 0..MaxFails, loc'[i].delay = Capped(seen'[i].fails)
      PROVE  BackoffOf(i)'
  BY <1>3 DEF BackoffOf
<1>4. 0 \in 0..MaxFails
  BY ClientAssumption
<1>5. CASE Start(i)
  <2>1. pc'[i] = "connecting" /\ seen'[i].fails = 0 /\ loc'[i].delay = MinDelay
    BY <1>1, <1>5 DEF Start
  <2> QED BY <1>3, <1>4, <2>1, CappedFacts
<1>6. CASE HandshakeOk(i)
  <2>1. pc'[i] = "reading" /\ seen'[i].fails = 0 /\ loc'[i].delay = MinDelay
    BY <1>1, <1>6 DEF HandshakeOk, Histories, Locals
  <2> QED BY <1>3, <1>4, <2>1, CappedFacts
<1>7. ASSUME NEW s \in Statuses, HandshakeStatus(i, s) PROVE BackoffOf(i)'
  <2>1. CASE HandshakeIsFinal(s)
    BY <1>1, <1>7, <2>1, FinishLong DEF HandshakeStatus
  <2>2. CASE ~HandshakeIsFinal(s)
    <3>0. PICK a \in AskedBy(s) :
            Backoff(i, s, a, HandshakePauses(s, a, loc[i].delay)) /\ pc[i] # "idle"
      BY <1>7, <2>2 DEF HandshakeStatus
    <3> DEFINE P == HandshakePauses(s, a, loc[i].delay)
    <3>1. Backoff(i, s, a, P) /\ pc[i] # "idle"
      BY <3>0
    <3>2. ASSUME NEW p \in P
          PROVE  IF RateLimited(s) THEN AsLongAsAsked(p, a)
                 ELSE 8 * loc[i].delay < 10 * (p + 1) /\ 10 * p <= 12 * loc[i].delay
      <4>1. CASE RateLimited(s)
        BY <1>1, <4>1, PausesAreLong
      <4>2. CASE ~RateLimited(s)
        <5>1. p \in Jitter(loc[i].delay)
          BY <4>2 DEF HandshakePauses
        <5> QED BY <1>1, <4>2, <5>1, PausesAreLong
      <4> QED BY <4>1, <4>2
    <3> HIDE DEF P
    <3> QED BY <1>1, <3>1, <3>2, BackoffLong
  <2> QED BY <2>1, <2>2
<1>8. ASSUME NEW f, ~RateLimited(f), pc[i] # "idle", Backoff(i, f, 0, Jitter(loc[i].delay))
      PROVE  BackoffOf(i)'
  <2>1. ASSUME NEW p \in Jitter(loc[i].delay)
        PROVE  8 * loc[i].delay < 10 * (p + 1) /\ 10 * p <= 12 * loc[i].delay
    BY <1>1, PausesAreLong
  <2> QED BY <1>1, <1>8, <2>1, BackoffLong
<1>9. CASE HandshakeLost(i)
  <2>1. ~RateLimited(OsError)
    BY DEF RateLimited, OsError
  <2> QED BY <1>8, <1>9, <2>1 DEF HandshakeLost
<1>10. CASE HandshakeBroken(i)
  BY <1>1, <1>10, FinishLong DEF HandshakeBroken
<1>11. CASE Wake(i)
  <2>1. CASE closed
    <3>1. pc'[i] = "idle"
      BY <1>1, <1>11, <2>1 DEF Wake
    <3> QED BY <3>1 DEF BackoffOf
  <2>2. CASE ~closed
    <3> DEFINE n == seen[i].fails
    <3>1. pc'[i] = "connecting" /\ seen'[i].fails = IF n < MaxFails THEN n + 1 ELSE n
      BY <1>1, <1>11, <2>2 DEF Wake, Histories
    <3>2. loc'[i].delay = NextDelay(loc[i].delay)
      BY <1>1, <1>11 DEF Wake, Locals
    <3>3. n \in 0..MaxFails /\ loc[i].delay = Capped(n)
      BY <1>2, <1>11 DEF Wake
    <3> HIDE DEF n
    <3>4. (IF n < MaxFails THEN n + 1 ELSE n) \in 0..MaxFails
      BY <3>3, ClientAssumption
    <3>5. loc'[i].delay = Capped(IF n < MaxFails THEN n + 1 ELSE n)
      BY <3>2, <3>3, CappedFacts
    <3>6. loc'[i].delay = Capped(seen'[i].fails)
      BY <3>1, <3>5
    <3> QED BY <1>3, <3>1, <3>4, <3>6
  <2> QED BY <2>1, <2>2
<1>12. ASSUME pc[i] \in InConnection, pc'[i] \in InConnection, seen'[i].fails = seen[i].fails,
              loc'[i].delay = loc[i].delay
       PROVE  BackoffOf(i)'
  BY <1>2, <1>3, <1>12 DEF InConnection
<1>13. CASE ReadTick(i) \/ ReadReceived(i) \/ ReadState(i)
  <2>1. pc[i] = "reading" /\ pc'[i] \in {"reading", "yielded"}
    BY <1>1, <1>13 DEF ReadTick, ReadReceived, ReadState, HasMessage, Deliver
  <2>2. seen'[i].fails = seen[i].fails /\ loc'[i].delay = loc[i].delay
    BY <1>1, <1>13 DEF ReadTick, ReadReceived, ReadState, Histories, Locals
  <2> QED BY <1>12, <2>1, <2>2 DEF InConnection
<1>14. CASE ReadBad(i) \/ Resume(i) \/ Abandon(i)
  <2>1. pc[i] \in {"reading", "yielded"} /\ pc'[i] \in {"reading", "leaving"} /\ loc' = loc
    BY <1>1, <1>14 DEF ReadBad, HasMessage, Resume, Abandon
  <2>2. seen'[i].fails = seen[i].fails
    BY <1>1, <1>14 DEF ReadBad, Resume, Abandon, Histories
  <2> QED BY <1>12, <2>1, <2>2 DEF InConnection
<1>15. CASE StreamEnd(i)
  <2>1. CASE CloseIsFinal(ws[i].code)
    BY <1>1, <1>15, <2>1, FinishLong DEF StreamEnd
  <2>2. CASE ~CloseIsFinal(ws[i].code)
    <3>1. ~RateLimited(ws[i].code)
      <4>1. CodeOf(i) /\ ws[i].link = "closed"
        BY <1>1, <1>15 DEF StreamEnd
      <4>2. ws[i].code \in AllCodes
        BY <4>1 DEF CodeOf
      <4> QED BY <4>2, CodesAreNoLimit
    <3> QED BY <1>8, <1>15, <2>2, <3>1 DEF StreamEnd
  <2> QED BY <2>1, <2>2
<1>16. CASE Cancel(i)
  <2>1. CASE pc[i] = "reading"
    <3>1. pc'[i] = "leaving" /\ seen' = seen /\ loc' = loc
      BY <1>1, <1>16, <2>1 DEF Cancel
    <3> QED BY <1>12, <2>1, <3>1 DEF InConnection
  <2>2. CASE pc[i] # "reading"
    BY <1>1, <1>16, <2>2, FinishLong DEF Cancel
  <2> QED BY <2>1, <2>2
<1>17. CASE LeaveDone(i)
  BY <1>1, <1>17, FinishLong DEF LeaveDone
<1> QED
  BY <1>5, <1>6, <1>7, <1>9, <1>10, <1>11, <1>13, <1>14, <1>15, <1>16, <1>17 DEF Generator

LEMMA BackoffStep == BackoffInv /\ [Next]_vars => BackoffInv'
<1> SUFFICES ASSUME BackoffInv, [Next]_vars PROVE BackoffInv'
  OBVIOUS
<1>1. RetryInv' /\ TypeOK
  BY RetryStep DEF BackoffInv, RetryInv
<1> SUFFICES ASSUME NEW i \in Iterators PROVE BackoffOf(i)'
  BY <1>1 DEF BackoffInv
<1>2. BackoffOf(i)
  BY DEF BackoffInv
<1>3. ASSUME pc'[i] = pc[i], seen'[i] = seen[i], loc'[i] = loc[i] PROVE BackoffOf(i)'
  BY <1>2, <1>3 DEF BackoffOf, LongEnough
<1>4. ASSUME NEW j \in Iterators, Generator(j) PROVE BackoffOf(i)'
  <2>1. CASE j = i
    BY <1>4, <2>1, GeneratorBackoff
  <2>2. CASE j # i
    BY <1>1, <1>3, <1>4, <2>2, OthersKeep
  <2> QED BY <2>1, <2>2
<1>5. ASSUME NEW j \in Iterators, Server(j) PROVE BackoffOf(i)'
  BY <1>3, <1>5 DEF Server, SendTick, SendState, SendBad, SendReceived, Send, LinkFails
<1>6. CASE \/ CloseSocket \/ CloseBegin \/ CloseHttp \/ ServerTick
           \/ (\E k \in DOMAIN turns : ReadPlan(k)) \/ UNCHANGED vars
  BY <1>3, <1>6 DEF CloseSocket, CloseBegin, CloseHttp, ServerTick, ReadPlan, vars
<1> QED BY <1>4, <1>5, <1>6 DEF Next

\* After n failed attempts in a row the delay is exactly min(MinDelay * 2^n, MaxDelay), an
\* established connection starts it anew, and each pause is within 20% of it, or what a
\* server that limits the client asks for -- for all delays and Retry-After values, and any
\* number of attempts (events(), jitter, check_handshake_exception).
THEOREM BackoffIsExact == Spec => []BackoffExact
<1>1. Init => BackoffInv
  BY RetryInit DEF Init, BackoffInv, BackoffOf
<1>2. BackoffInv => BackoffExact
  BY DEF BackoffInv, BackoffOf, BackoffExact, Capped
<1> QED BY <1>1, <1>2, BackoffStep, PTL DEF Spec
=============================================================================
