-------------------------- MODULE AgentRoundProofs --------------------------
(* Proofs about AgentTransport and AgentRound, for any number of frames and *)
(* calls, any size of the pipes, with and without a deadline and a helper:  *)
(* what close() leaves behind, what recv() reports, that the transport      *)
(* implements AgentStream, and what a result of a round means.              *)
EXTENDS AgentRound, SequenceTheorems, TLAPS

-----------------------------------------------------------------------------
(* The transport: its inductive invariant                                  *)

\* Before the child there is nothing, and a constructor that failed has cleaned up.
Constructing ==
  /\ child = "none" <=> main \in {"spawning", "failed"}
  /\ child = "none" =>
       /\ ~closed /\ (temp <=> main = "spawning") /\ timer = "none"
       /\ \A t \in Threads : stage[t] = "out"
       /\ outcome = "none" /\ helper = "none"
  /\ reader = "none" <=> child = "none"
  /\ reader = "none" => frames = <<>> /\ wire = <<>> /\ written = <<>> /\ delivered = <<>>

\* How far the child is gone at each stage of each thread that closes the transport.
Closing ==
  /\ \A t \in Threads :
       /\ stage[t] = "wait2" => child # "running"
       /\ stage[t] \in {"join", "set"} => child = "reaped"
       /\ stage[t] = "set" => ~temp
  /\ Released

\* A violation is told only after main has been through close(), or has found it done.
Violating ==
  /\ main # "raising" => stage["main"] = "out"
  /\ main = "raising" /\ pending = "protocol" => closed \/ (closing["main"] /\ stage["main"] # "out")
  /\ ViolationCloses

Final == {"eof", "violation"}

\* What is on its way from the child to recv() is what was written after the messages that
\* were delivered; the beginning of a frame, which ends the output, is dropped.
OnItsWay ==
  /\ \A k \in 1..Len(frames) : frames[k] \in Final \/
       (Len(delivered) + k <= Len(written) /\ frames[k] = written[Len(delivered) + k])
  /\ reader = "reading" =>
       \/ wire = <<>> /\ InFrame /\ Len(delivered) + Len(frames) + 1 = Len(written)
       \/ /\ Len(delivered) + Len(frames) + Len(wire) = Len(written)
          /\ \A k \in 1..Len(wire) : wire[k] = written[Len(delivered) + Len(frames) + k]
          /\ \A k \in 1..(Len(delivered) + Len(frames)) : written[k] # "part"

\* The end is the last thing put for recv(), and once it was told nothing is handed out.
Delivering ==
  /\ \A k \in 1..Len(written) : written[k] = "part" => k = Len(written)
  /\ \A k \in 1..Len(frames) : frames[k] \in Final => k = Len(frames) /\ reader = "done"
  /\ reader = "done" /\ ~told => frames # <<>> /\ frames[Len(frames)] \in Final
  /\ ~told => OnItsWay
  /\ told => \/ frames = <<>> /\ reader = "done"
             \/ main = "raising" /\ pending = "protocol"
             \/ closed /\ main \in {"idle", "raising"}

TInv == TypeOK /\ Constructing /\ Closing /\ Violating /\ Delivering

-----------------------------------------------------------------------------
(* Typing                                                                   *)

LEMMA TransportTypeInit == Init => TypeOK
<1> SUFFICES ASSUME Init PROVE TypeOK
  OBVIOUS
<1>1. stdin \in 0..PipeSize /\ calls \in 0..MaxCalls /\ sends \in Nat
  BY TransportAssumption DEF Init
<1>2. closed \in BOOLEAN /\ temp \in BOOLEAN /\ told \in BOOLEAN /\ left \in BOOLEAN
      /\ closing \in [Threads -> BOOLEAN]
  BY DEF Init
<1>3. wire \in Seq(Kinds) /\ frames \in Seq(Items) /\ delivered \in Seq(Kinds) /\ written \in Seq(Kinds)
  BY DEF Init
<1> QED BY <1>1, <1>2, <1>3 DEF Init, TypeOK

KillType ==
  /\ closed \in BOOLEAN /\ temp \in BOOLEAN
  /\ timer \in {"none", "armed", "cancelled", "fired"}
  /\ stage \in [Threads -> {"out", "poll", "term", "wait", "kill", "wait2", "join", "set"}]
  /\ closing \in [Threads -> BOOLEAN]

\* Both ways into the termination.
LEMMA EnterTerminateType ==
  ASSUME TypeOK, NEW t \in {"main", "watchdog"}, NEW b \in BOOLEAN, EnterTerminate(t, b),
         UNCHANGED <<closed, temp>>, timer' \in {timer, "cancelled", "fired"}
  PROVE  KillType'
<1>1. stage' \in [Threads -> {"out", "poll", "term", "wait", "kill", "wait2", "join", "set"}]
  BY DEF TypeOK, EnterTerminate, Threads
<1>2. closing' \in [Threads -> BOOLEAN]
  BY DEF TypeOK, EnterTerminate, Threads
<1> QED BY <1>1, <1>2 DEF TypeOK, KillType

LEMMA EnterCloseType ==
  ASSUME TypeOK, EnterClose("main"), UNCHANGED <<closed, temp>>
  PROVE  KillType'
<1>1. CASE closed
  BY <1>1 DEF TypeOK, KillType, EnterClose, killVars
<1>2. CASE ~closed
  BY <1>2, EnterTerminateType DEF EnterClose
<1> QED BY <1>1, <1>2

LEMMA CloserType ==
  ASSUME TypeOK, NEW t \in Threads, Closer(t)
  PROVE  TypeOK'
<1> USE DEF TypeOK
<1>1. CASE Poll(t)
  BY <1>1 DEF Poll, Move, After, Reaped, pipeVars, readVars, closeVars, mainVars, childVars
<1>2. CASE Term(t)
  BY <1>2 DEF Term, Move, Signal, procVars, pipeVars, readVars, closeVars, mainVars, childVars
<1>3. CASE WaitTerm(t)
  BY <1>3 DEF WaitTerm, Move, Reaped, pipeVars, readVars, closeVars, mainVars, childVars
<1>4. CASE Kill(t)
  BY <1>4 DEF Kill, Move, Signal, procVars, pipeVars, readVars, closeVars, mainVars, childVars
<1>5. CASE WaitKill(t)
  BY <1>5 DEF WaitKill, Move, After, Reaped, pipeVars, readVars, closeVars, mainVars, childVars
<1>6. CASE RemoveTemp(t)
  <2>1. temp' \in BOOLEAN
    BY <1>6 DEF RemoveTemp
  <2> QED BY <1>6, <2>1 DEF RemoveTemp, Move, procVars, pipeVars, readVars, mainVars, childVars
<1>7. CASE SetClosed(t)
  BY <1>7 DEF SetClosed, Move, procVars, pipeVars, readVars, mainVars, childVars
<1> QED BY <1>1, <1>2, <1>3, <1>4, <1>5, <1>6, <1>7 DEF Closer

LEMMA MainType ==
  ASSUME TypeOK, MainStep \/ Call \/ Construct
  PROVE  TypeOK'
<1> USE DEF TypeOK
<1>1. CASE Spawned
  BY <1>1 DEF Spawned, pipeVars, killVars, childVars
<1>2. CASE SpawnFails
  <2>1. temp' \in BOOLEAN
    BY <1>2 DEF SpawnFails
  <2> QED BY <1>2, <2>1 DEF SpawnFails, procVars, pipeVars, readVars, killVars, childVars
<1>3. ASSUME NEW call \in {"sending", "receiving", "receiving_hello"}, Begin(call) PROVE TypeOK'
  BY <1>3, TransportAssumption
  DEF Begin, Return, procVars, pipeVars, readVars, closeVars, killVars, childVars
<1>4. CASE Close
  <2>1. calls' \in 0..MaxCalls
    BY <1>4, TransportAssumption DEF Close
  <2>2. KillType'
    BY <1>4, EnterCloseType DEF Close
  <2> QED BY <1>4, <2>1, <2>2 DEF KillType, Close, Raise, procVars, pipeVars, readVars, childVars
<1>5. CASE SendDone
  <2>1. \/ stdin < PipeSize /\ stdin' = stdin + 1 /\ sends' = sends + 1
        \/ stdin' = stdin /\ sends' = sends
    BY <1>5 DEF SendDone
  <2>4. stdin' \in 0..PipeSize /\ sends' \in Nat
    BY <2>1, TransportAssumption
  <2>2. KillType'
    BY <1>5, EnterTerminateType DEF SendDone, KillType, killVars, closeVars
  <2>3. main' \in {"idle", "raising"} /\ outcome' \in {outcome, "sent"} /\ pending' \in {pending, "crash"}
    BY <1>5 DEF SendDone, Return, Raise
  <2> QED BY <1>5, <2>2, <2>3, <2>4 DEF KillType, SendDone, procVars, readVars, closeVars, childVars
<1>6. CASE ReceiveMessage
  <2>1. Head(frames) \in Items /\ Tail(frames) \in Seq(Items)
    BY <1>6 DEF ReceiveMessage
  <2>2. Head(frames) \in Kinds
    BY <1>6, <2>1 DEF ReceiveMessage, Violates, Items
  <2> QED BY <1>6, <2>1, <2>2
      DEF ReceiveMessage, Return, procVars, pipeVars, closeVars, killVars, childVars
<1>7. CASE ReceiveViolation
  <2>1. frames' \in Seq(Items) /\ told' \in BOOLEAN
    BY <1>7 DEF ReceiveViolation
  <2>2. KillType'
    BY <1>7, EnterCloseType DEF ReceiveViolation
  <2> QED BY <1>7, <2>1, <2>2 DEF KillType, ReceiveViolation, Raise, procVars, pipeVars, childVars
<1>8. CASE ReceiveEnd
  BY <1>8 DEF ReceiveEnd, Reaped, Return, pipeVars, closeVars, killVars, childVars
<1>9. CASE ReceiveTimeout
  BY <1>9 DEF ReceiveTimeout, Return, procVars, pipeVars, readVars, closeVars, killVars, childVars
<1>10. CASE Raised
  BY <1>10 DEF Raised, Return, procVars, pipeVars, readVars, closeVars, killVars, childVars
<1> QED BY <1>1, <1>2, <1>3, <1>4, <1>5, <1>6, <1>7, <1>8, <1>9, <1>10 DEF MainStep, Call, Construct

LEMMA BackgroundType ==
  ASSUME TypeOK, Background
  PROVE  TypeOK'
<1> USE DEF TypeOK
<1>1. CASE DeadlineFires
  <2>1. KillType'
    BY <1>1, EnterTerminateType DEF DeadlineFires, KillType, killVars
  <2> QED BY <1>1, <2>1 DEF KillType, DeadlineFires, procVars, pipeVars, readVars, mainVars, childVars
<1>2. CASE ReadFrame
  <2>1. Head(wire) \in Items /\ Tail(wire) \in Seq(Kinds)
    BY <1>2, TransportAssumption DEF ReadFrame, Items
  <2>2. Append(frames, "violation") \in Seq(Items) /\ Append(frames, Head(wire)) \in Seq(Items)
    BY <2>1 DEF Items
  <2>3. frames' \in Seq(Items) /\ reader' \in {"none", "reading", "done"}
    BY <1>2, <2>2 DEF ReadFrame, readVars
  <2> QED BY <1>2, <2>1, <2>3 DEF ReadFrame, procVars, closeVars, killVars, mainVars, childVars
<1>3. CASE ReadEnd
  <2>1. frames' \in Seq(Items)
    BY <1>3 DEF ReadEnd, Items
  <2> QED BY <1>3, <2>1 DEF ReadEnd, procVars, pipeVars, closeVars, killVars, mainVars, childVars
<1>4. ASSUME NEW k \in Kinds, ChildWrites(k) PROVE TypeOK'
  BY <1>4 DEF ChildWrites, procVars, readVars, closeVars, killVars, mainVars
<1>5. CASE ChildReads
  <2>1. stdin' \in 0..PipeSize
    BY <1>5, TransportAssumption DEF ChildReads
  <2> QED BY <1>5, <2>1 DEF ChildReads, procVars, readVars, closeVars, killVars, mainVars, childVars
<1>6. CASE ChildForks \/ ChildExits \/ HelperExits \/ \E e \in Ends : ChildCloses(e)
  BY <1>6 DEF ChildForks, ChildExits, HelperExits, ChildCloses, pipeVars, readVars, closeVars, killVars, mainVars, childVars
<1> QED BY <1>1, <1>2, <1>3, <1>4, <1>5, <1>6, CloserType DEF Background

LEMMA TransportTypeStep ==
  ASSUME TypeOK, [Next]_vars
  PROVE  TypeOK'
<1>1. CASE UNCHANGED vars
  BY <1>1 DEF TypeOK, vars, procVars, pipeVars, readVars, closeVars, killVars, mainVars, childVars
<1> QED BY <1>1, MainType, BackgroundType DEF Next

-----------------------------------------------------------------------------
(* What is left behind                                                      *)

LEMMA ConstructingStep ==
  ASSUME TypeOK, Constructing, Violating, [Next]_vars
  PROVE  Constructing'
<1> USE DEF Constructing
<1>1. CASE UNCHANGED vars
  BY <1>1 DEF vars, procVars, pipeVars, readVars, closeVars, killVars, mainVars, childVars
<1>2. CASE Spawned
  BY <1>2 DEF Spawned, pipeVars, killVars, childVars
<1>3. CASE SpawnFails
  BY <1>3 DEF SpawnFails, procVars, pipeVars, readVars, killVars, childVars
<1>4. ASSUME child # "none", child' \in {"running", "zombie", "reaped"}, reader' # "none",
             main' \notin {"spawning", "failed"}
      PROVE  Constructing'
  BY <1>4
<1>5. ASSUME MainStep \/ Call PROVE Constructing'
  <2>1. child # "none" /\ child' \in {"running", "zombie", "reaped"}
    <3>1. main \notin {"spawning", "failed"}
      BY <1>5 DEF MainStep, Call, SendDone, ReceiveMessage, ReceiveViolation, ReceiveEnd, ReceiveTimeout,
                  Raised, Begin, Close
    <3>2. child' = child \/ child' = Reaped
      BY <1>5 DEF MainStep, Call, SendDone, ReceiveMessage, ReceiveViolation, ReceiveEnd, ReceiveTimeout,
                  Raised, Begin, Close, procVars
    <3> QED BY <3>1, <3>2 DEF TypeOK, Reaped
  <2>2. reader' = reader
    BY <1>5 DEF MainStep, Call, SendDone, ReceiveMessage, ReceiveViolation, ReceiveEnd, ReceiveTimeout,
                Raised, Begin, Close, readVars
  <2>3. main' \notin {"spawning", "failed"}
    BY <1>5 DEF MainStep, Call, SendDone, ReceiveMessage, ReceiveViolation, ReceiveEnd, ReceiveTimeout,
                Raised, Begin, Close, Return, Raise
  <2> QED BY <1>4, <2>1, <2>2, <2>3
<1>6. ASSUME Background PROVE Constructing'
  <2>1. child # "none" /\ child' \in {"running", "zombie", "reaped"} /\ reader' # "none"
    <3>1. ASSUME NEW t \in Threads, Closer(t) PROVE child # "none" /\ child' \in {"running", "zombie", "reaped"} /\ reader' = reader
      BY <3>1 DEF TypeOK, Closer, Poll, Term, WaitTerm, Kill, WaitKill, RemoveTemp, SetClosed, Signal, Reaped, procVars, readVars
    <3>2. CASE DeadlineFires
      BY <3>2 DEF TypeOK, DeadlineFires, procVars, readVars
    <3>3. CASE ReadFrame \/ ReadEnd
      BY <3>3 DEF TypeOK, ReadFrame, ReadEnd, procVars, readVars
    <3>4. CASE (\E k \in Kinds : ChildWrites(k)) \/ ChildReads \/ ChildForks
               \/ (\E e \in Ends : ChildCloses(e)) \/ ChildExits
      BY <3>4 DEF TypeOK, ChildWrites, ChildReads, ChildForks, ChildCloses, ChildExits, procVars, readVars
    <3>5. CASE HelperExits
      BY <3>5 DEF TypeOK, HelperExits, readVars
    <3> QED BY <1>6, <3>1, <3>2, <3>3, <3>4, <3>5 DEF Background
  <2>2. main' = main
    BY <1>6 DEF Background, Closer, Poll, Term, WaitTerm, Kill, WaitKill, RemoveTemp, SetClosed, DeadlineFires,
                ReadFrame, ReadEnd, ChildWrites, ChildReads, ChildForks, ChildCloses, ChildExits, HelperExits, mainVars
  <2> QED BY <1>4, <2>1, <2>2
<1> QED BY <1>1, <1>2, <1>3, <1>5, <1>6 DEF Next, Construct

LEMMA ClosingStep ==
  ASSUME TypeOK, Constructing, Closing, Violating, [Next]_vars
  PROVE  Closing'
<1> USE DEF Closing, Released
<1>1. CASE UNCHANGED vars
  BY <1>1 DEF vars, procVars, pipeVars, readVars, closeVars, killVars, mainVars, childVars
<1>2. CASE Spawned
  BY <1>2 DEF Spawned, Constructing, killVars
<1>3. CASE SpawnFails
  BY <1>3 DEF SpawnFails, Constructing, procVars, killVars
<1>4. ASSUME child' \in {child, Reaped} \/ (child = "running" /\ child' = "zombie"),
             UNCHANGED <<closed, temp>>, main' # "failed",
             child # "none",
             \A t \in Threads : stage'[t] \in {stage[t], "poll"}
      PROVE  Closing'
  BY <1>4 DEF TypeOK, Reaped
<1>5. ASSUME NEW t \in Threads, NEW b \in BOOLEAN, EnterTerminate(t, b)
      PROVE  \A u \in Threads : stage'[u] \in {stage[u], "poll"}
  BY <1>5 DEF TypeOK, EnterTerminate
<1>6. ASSUME EnterClose("main") PROVE \A u \in Threads : stage'[u] \in {stage[u], "poll"}
  BY <1>5, <1>6 DEF EnterClose, killVars, Threads
<1>7. CASE MainStep \/ Call
  <2>1. \A u \in Threads : stage'[u] \in {stage[u], "poll"}
    <3>1. CASE SendDone
      BY <1>5, <3>1 DEF SendDone, killVars, Threads
    <3>2. CASE ReceiveViolation \/ Close
      BY <1>6, <3>2 DEF ReceiveViolation, Close
    <3>3. CASE ReceiveMessage \/ ReceiveEnd \/ ReceiveTimeout \/ Raised
               \/ Begin("sending") \/ Begin("receiving") \/ Begin("receiving_hello")
      BY <3>3 DEF ReceiveMessage, ReceiveEnd, ReceiveTimeout, Raised, Begin, killVars
    <3> QED BY <1>7, <3>1, <3>2, <3>3 DEF MainStep, Call
  <2>2. child' \in {child, Reaped} /\ UNCHANGED <<closed, temp>>
    BY <1>7 DEF MainStep, Call, SendDone, ReceiveMessage, ReceiveViolation, ReceiveEnd, ReceiveTimeout,
                Raised, Begin, Close, procVars, closeVars
  <2>3. main \notin {"spawning", "failed"} /\ main' # "failed"
    BY <1>7 DEF MainStep, Call, SendDone, ReceiveMessage, ReceiveViolation, ReceiveEnd, ReceiveTimeout,
                Raised, Begin, Close, Return, Raise
  <2> QED BY <1>4, <2>1, <2>2, <2>3 DEF Constructing
<1>8. ASSUME NEW t \in Threads, Closer(t) PROVE Closing'
  <2>1. child # "none" /\ main' = main /\ main # "failed"
    BY <1>8 DEF Constructing, Closer, Poll, Term, WaitTerm, Kill, WaitKill, RemoveTemp, SetClosed, mainVars
  <2>2. CASE Poll(t)
    BY <2>1, <2>2 DEF TypeOK, Poll, Move, After, Reaped, closeVars
  <2>3. CASE Term(t)
    BY <2>1, <2>3 DEF TypeOK, Term, Move, Signal, procVars, closeVars
  <2>4. CASE WaitTerm(t)
    BY <2>1, <2>4 DEF TypeOK, WaitTerm, Move, Reaped, closeVars
  <2>5. CASE Kill(t)
    BY <2>1, <2>5 DEF TypeOK, Kill, Move, Signal, procVars, closeVars
  <2>6. CASE WaitKill(t)
    BY <2>1, <2>6 DEF TypeOK, WaitKill, Move, After, Reaped, closeVars
  <2>7. CASE RemoveTemp(t)
    BY <2>1, <2>7 DEF TypeOK, RemoveTemp, Move, procVars
  <2>8. CASE SetClosed(t)
    BY <2>1, <2>8 DEF TypeOK, SetClosed, Move, procVars
  <2> QED BY <1>8, <2>2, <2>3, <2>4, <2>5, <2>6, <2>7, <2>8 DEF Closer
<1>9. CASE DeadlineFires
  <2>1. child # "none" /\ UNCHANGED <<child, closed, temp, main>>
    BY <1>9 DEF Constructing, DeadlineFires, procVars, mainVars
  <2>2. \A u \in Threads : stage'[u] \in {stage[u], "poll"}
    BY <1>5, <1>9 DEF DeadlineFires, killVars, Threads
  <2> QED BY <1>4, <2>1, <2>2 DEF Constructing
<1>10. CASE ReadFrame \/ ReadEnd \/ (\E k \in Kinds : ChildWrites(k)) \/ ChildReads \/ ChildForks
            \/ (\E e \in Ends : ChildCloses(e)) \/ ChildExits \/ HelperExits
  <2>1. /\ child' = child \/ (child = "running" /\ child' = "zombie")
        /\ child # "none" /\ UNCHANGED <<closed, temp, stage, main>>
    BY <1>10 DEF Constructing, ReadFrame, ReadEnd, ChildWrites, ChildReads, ChildForks, ChildCloses, ChildExits,
                 HelperExits, procVars, closeVars, killVars, mainVars
  <2> QED BY <1>4, <2>1 DEF Constructing
<1> QED BY <1>1, <1>2, <1>3, <1>7, <1>8, <1>9, <1>10 DEF Next, Construct, Background

LEMMA ViolatingStep ==
  ASSUME TypeOK, Constructing, Violating, [Next]_vars
  PROVE  Violating'
<1> USE DEF Violating, ViolationCloses
<1>1. CASE UNCHANGED vars
  BY <1>1 DEF vars, procVars, pipeVars, readVars, closeVars, killVars, mainVars, childVars
<1>2. CASE Construct
  BY <1>2 DEF Construct, Spawned, SpawnFails, Constructing, killVars, closeVars, Threads
<1>3. CASE SendDone
  BY <1>3 DEF TypeOK, SendDone, Return, Raise, EnterTerminate, killVars, closeVars
<1>4. CASE ReceiveMessage
  <2>1. Head(frames) # "protocol"
    <3>1. Head(frames) \in Items
      BY <1>4 DEF TypeOK, ReceiveMessage
    <3> QED BY <3>1, TransportAssumption DEF Items, AllKinds
  <2> QED BY <1>4, <2>1 DEF ReceiveMessage, Return, killVars, closeVars
<1>5. CASE ReceiveViolation \/ Close
  BY <1>5 DEF TypeOK, Threads, ReceiveViolation, Close, Raise, EnterClose, EnterTerminate, killVars
<1>6. CASE ReceiveEnd \/ ReceiveTimeout \/ Raised
           \/ Begin("sending") \/ Begin("receiving") \/ Begin("receiving_hello")
  BY <1>6 DEF ReceiveEnd, ReceiveTimeout, Raised, Begin, Return, killVars, closeVars
<1>7. ASSUME NEW t \in Threads, Closer(t) PROVE Violating'
  <2>1. UNCHANGED mainVars /\ UNCHANGED closing /\ (closed => closed')
    BY <1>7 DEF Closer, Poll, Term, WaitTerm, Kill, WaitKill, RemoveTemp, SetClosed, closeVars
  <2>2. stage["main"] = "out" => stage'["main"] = "out"
    BY <1>7 DEF TypeOK, Threads, Closer, Poll, Term, WaitTerm, Kill, WaitKill, RemoveTemp, SetClosed, Move
  <2>3. closing["main"] /\ stage["main"] # "out" => closed' \/ stage'["main"] # "out"
    <3>1. CASE Poll(t) \/ WaitKill(t)
      BY <3>1 DEF TypeOK, Threads, Poll, WaitKill, Move, After
    <3>2. CASE Term(t) \/ WaitTerm(t) \/ Kill(t) \/ RemoveTemp(t)
      BY <3>2 DEF TypeOK, Threads, Term, WaitTerm, Kill, RemoveTemp, Move
    <3>3. CASE SetClosed(t)
      BY <3>3 DEF SetClosed
    <3> QED BY <1>7, <3>1, <3>2, <3>3 DEF Closer
  <2> QED BY <2>1, <2>2, <2>3 DEF mainVars
<1>8. CASE DeadlineFires
  BY <1>8 DEF TypeOK, Threads, DeadlineFires, EnterTerminate, killVars, mainVars
<1>9. CASE ReadFrame \/ ReadEnd \/ (\E k \in Kinds : ChildWrites(k)) \/ ChildReads \/ ChildForks
           \/ (\E e \in Ends : ChildCloses(e)) \/ ChildExits \/ HelperExits
  BY <1>9 DEF ReadFrame, ReadEnd, ChildWrites, ChildReads, ChildForks, ChildCloses, ChildExits,
              HelperExits, closeVars, killVars, mainVars
<1> QED BY <1>1, <1>2, <1>3, <1>4, <1>5, <1>6, <1>7, <1>8, <1>9 DEF Next, MainStep, Call, Background

-----------------------------------------------------------------------------
(* What is delivered and told                                               *)

\* Steps that touch neither what was written nor what is on its way.
LEMMA DeliveringKept ==
  ASSUME TypeOK, Delivering, UNCHANGED <<written, wire, readVars, delivered, told>>,
         \/ UNCHANGED <<main, pending, closed>>
         \/ main = "raising" /\ pending = "protocol" /\ closed' /\ main' = "idle"
         \/ main = "raising" /\ pending # "protocol" /\ main' = "idle" /\ closed' = closed
         \/ main' = main /\ pending' = pending /\ closed'
         \/ main = "idle" /\ main' = "raising" /\ closed' = closed
         \/ main \notin {"idle", "raising"} /\ UNCHANGED closed
         \/ main = "idle" /\ ~closed /\ UNCHANGED closed
  PROVE  Delivering'
<1>1. UNCHANGED <<written, wire, reader, frames, delivered, told>>
  BY DEF readVars
<1>2. told' => \/ frames' = <<>> /\ reader' = "done"
               \/ main' = "raising" /\ pending' = "protocol"
               \/ closed' /\ main' \in {"idle", "raising"}
  BY <1>1 DEF TypeOK, Delivering
<1>3. OnItsWay => OnItsWay'
  BY <1>1 DEF OnItsWay, InFrame
<1> QED BY <1>1, <1>2, <1>3 DEF Delivering

LEMMA MainDelivering ==
  ASSUME TypeOK, Constructing, Violating, Delivering, MainStep \/ Call \/ Construct
  PROVE  Delivering'
<1>1. CASE Construct
  <2>1. /\ written = <<>> /\ delivered = <<>> /\ frames = <<>> /\ wire = <<>> /\ told' = told
        /\ written' = <<>> /\ delivered' = <<>> /\ frames' = <<>> /\ wire' = <<>>
        /\ reader = "none" /\ reader' # "done" /\ ~closed /\ main = "spawning"
    BY <1>1 DEF Construct, Constructing, Spawned, SpawnFails, pipeVars, readVars, childVars
  <2>2. ~told
    BY <2>1 DEF Delivering
  <2> QED BY <2>1, <2>2 DEF Delivering, OnItsWay
<1>2. CASE SendDone \/ ReceiveTimeout
  <2>1. UNCHANGED <<written, wire, readVars, delivered, told, closed>> /\ main \notin {"idle", "raising"}
    BY <1>2 DEF SendDone, ReceiveTimeout, readVars, pipeVars, closeVars, childVars
  <2> QED BY <2>1, DeliveringKept
<1>3. CASE Raised
  <2>1. /\ UNCHANGED <<written, wire, readVars, delivered, told, closed>>
        /\ main = "raising" /\ main' = "idle"
    BY <1>3 DEF Raised, Return, readVars, pipeVars, closeVars, childVars
  <2>2. pending = "protocol" => closed
    BY <1>3, <2>1 DEF Raised, Violating
  <2> QED BY <2>1, <2>2, DeliveringKept
<1>4. ASSUME NEW call, Begin(call) PROVE Delivering'
  <2>1. /\ UNCHANGED <<written, wire, readVars, delivered, told, closed, pending>>
        /\ main = "idle" /\ (closed => main' = main)
    BY <1>4 DEF Begin, Return, readVars, pipeVars, closeVars, childVars
  <2> QED BY <2>1, DeliveringKept
<1>5. CASE Close
  <2>1. /\ UNCHANGED <<written, wire, readVars, delivered, told, closed>>
        /\ main = "idle" /\ main' = "raising"
    BY <1>5 DEF Close, Raise, readVars, pipeVars, childVars
  <2> QED BY <2>1, DeliveringKept
<1>6. CASE ReceiveMessage
  <2>1. /\ frames # <<>> /\ frames' = Tail(frames) /\ Head(frames) \notin Final
        /\ delivered' = Append(delivered, Head(frames))
        /\ UNCHANGED <<written, wire, reader, told, closed>>
        /\ main \notin {"idle", "raising"}
    BY <1>6 DEF ReceiveMessage, Violates, Final, pipeVars, closeVars, childVars
  <2>2. ~told
    BY <2>1 DEF Delivering
  <2>3. /\ Len(frames) \in Nat \ {0} /\ Len(frames') = Len(frames) - 1 /\ Head(frames) = frames[1]
        /\ \A k \in 1..Len(frames') : frames'[k] = frames[k + 1]
    BY <2>1 DEF TypeOK
  <2>4. Len(delivered') = Len(delivered) + 1 /\ Len(delivered) \in Nat
    BY <2>1 DEF TypeOK
  <2>5. OnItsWay'
    <3>1. /\ \A k \in 1..Len(frames) : frames[k] \in Final \/
              (Len(delivered) + k <= Len(written) /\ frames[k] = written[Len(delivered) + k])
          /\ Len(wire) \in Nat /\ Len(written) \in Nat
      BY <2>2 DEF Delivering, OnItsWay, TypeOK
    <3>2. ASSUME NEW k \in 1..Len(frames')
          PROVE  frames'[k] \in Final \/
                   (Len(delivered') + k <= Len(written') /\ frames'[k] = written'[Len(delivered') + k])
      <4>1. k + 1 \in 1..Len(frames) /\ frames'[k] = frames[k + 1]
        BY <2>3
      <4>2. Len(delivered') + k = Len(delivered) + (k + 1)
        BY <2>3, <2>4
      <4> QED BY <2>1, <3>1, <4>1, <4>2
    <3>3. Len(delivered') + Len(frames') = Len(delivered) + Len(frames)
      BY <2>3, <2>4
    <3>4. reader' = "reading" =>
            \/ wire' = <<>> /\ InFrame' /\ Len(delivered') + Len(frames') + 1 = Len(written')
            \/ /\ Len(delivered') + Len(frames') + Len(wire') = Len(written')
               /\ \A k \in 1..Len(wire') : wire'[k] = written'[Len(delivered') + Len(frames') + k]
               /\ \A k \in 1..(Len(delivered') + Len(frames')) : written'[k] # "part"
      BY <2>1, <2>2, <3>3 DEF Delivering, OnItsWay, InFrame
    <3> QED BY <3>2, <3>4 DEF OnItsWay
  <2>6. \A k \in 1..Len(frames') : frames'[k] \in Final => k = Len(frames') /\ reader' = "done"
    <3>1. \A k \in 1..Len(frames) : frames[k] \in Final => k = Len(frames) /\ reader = "done"
      BY DEF Delivering
    <3>2. ASSUME NEW k \in 1..Len(frames'), frames'[k] \in Final PROVE k = Len(frames') /\ reader' = "done"
      <4>1. k \in Nat /\ 1 <= k /\ k <= Len(frames) - 1
        BY <2>3
      <4>2. k + 1 \in 1..Len(frames)
        BY <2>3, <4>1
      <4>3. frames[k + 1] \in Final
        BY <2>3, <3>2
      <4>4. k + 1 = Len(frames) /\ reader = "done"
        BY <3>1, <4>2, <4>3
      <4>5. k = Len(frames')
        BY <2>3, <4>1, <4>4
      <4> QED BY <2>1, <4>4, <4>5
    <3> QED BY <3>2
  <2>7. reader' = "done" => frames' # <<>> /\ frames'[Len(frames')] \in Final
    <3>1. ASSUME reader' = "done" PROVE frames[Len(frames)] \in Final
      BY <2>1, <2>2, <3>1 DEF Delivering
    <3>2. ASSUME reader' = "done" PROVE Len(frames) # 1
      BY <2>1, <2>3, <3>1, <3>2
    <3>3. frames' \in Seq(Items)
      BY <2>1 DEF TypeOK
    <3> QED BY <2>3, <3>1, <3>2, <3>3
  <2> QED BY <2>1, <2>2, <2>5, <2>6, <2>7 DEF Delivering
<1>7. CASE ReceiveViolation \/ ReceiveEnd
  <2>1. /\ frames # <<>> /\ frames' = Tail(frames) /\ told'
        /\ UNCHANGED <<written, reader, wire>>
    BY <1>7 DEF ReceiveViolation, ReceiveEnd, pipeVars, childVars
  <2>2. /\ Len(frames) \in Nat \ {0} /\ Len(frames') = Len(frames) - 1 /\ Head(frames) = frames[1]
        /\ \A k \in 1..Len(frames') : frames'[k] = frames[k + 1]
    BY <2>1 DEF TypeOK
  <2>3. \A k \in 1..Len(frames') : frames'[k] \in Final => k = Len(frames') /\ reader' = "done"
    <3>1. \A k \in 1..Len(frames) : frames[k] \in Final => k = Len(frames) /\ reader = "done"
      BY DEF Delivering
    <3>2. ASSUME NEW k \in 1..Len(frames'), frames'[k] \in Final PROVE k = Len(frames') /\ reader' = "done"
      <4>1. k \in Nat /\ 1 <= k /\ k <= Len(frames) - 1
        BY <2>2
      <4>2. k + 1 \in 1..Len(frames)
        BY <2>2, <4>1
      <4>3. frames[k + 1] \in Final
        BY <2>2, <3>2
      <4>4. k + 1 = Len(frames) /\ reader = "done"
        BY <3>1, <4>2, <4>3
      <4>5. k = Len(frames')
        BY <2>2, <4>1, <4>4
      <4> QED BY <2>1, <4>4, <4>5
    <3> QED BY <3>2
  <2>4. CASE ReceiveViolation
    <3>1. main' = "raising" /\ pending' = "protocol"
      BY <2>4 DEF ReceiveViolation, Raise
    <3> QED BY <2>1, <2>3, <3>1 DEF Delivering
  <2>5. CASE ReceiveEnd
    <3>1. frames[1] \in Final
      BY <2>2, <2>5 DEF ReceiveEnd, Final
    <3>2. Len(frames) = 1 /\ reader = "done"
      BY <2>2, <3>1 DEF Delivering
    <3>3. frames' = <<>>
      BY <2>1, <2>2, <3>2 DEF TypeOK
    <3> QED BY <2>1, <2>3, <3>2, <3>3 DEF Delivering
  <2> QED BY <1>7, <2>4, <2>5
<1> QED BY <1>1, <1>2, <1>3, <1>4, <1>5, <1>6, <1>7 DEF MainStep, Call

LEMMA ReaderDelivering ==
  ASSUME TypeOK, Delivering, ReadFrame \/ ReadEnd
  PROVE  Delivering'
<1>1. /\ reader = "reading"
      /\ UNCHANGED <<written, delivered, told, main, pending, closed>>
  BY DEF ReadFrame, ReadEnd, childVars, mainVars, closeVars
<1>2. \A k \in 1..Len(frames) : frames[k] \notin Final
  BY <1>1 DEF Delivering
<1>3. told => /\ told'
              /\ \/ main' = "raising" /\ pending' = "protocol"
                 \/ closed' /\ main' \in {"idle", "raising"}
  BY <1>1 DEF Delivering
<1>4. /\ Len(frames) \in Nat /\ Len(wire) \in Nat /\ Len(written) \in Nat /\ Len(delivered) \in Nat
      /\ \A x : /\ Len(Append(frames, x)) = Len(frames) + 1
               /\ Append(frames, x)[Len(frames) + 1] = x
               /\ \A k \in 1..Len(frames) : Append(frames, x)[k] = frames[k]
  BY DEF TypeOK
<1>5. \A k \in 1..Len(written) : written'[k] = "part" => k = Len(written')
  BY <1>1 DEF Delivering
\* A last item for recv().
<1>6. ASSUME NEW x \in Final, frames' = Append(frames, x), reader' = "done"
      PROVE  Delivering'
  <2>1. \A k \in 1..Len(frames') : frames'[k] \in Final => k = Len(frames')
    BY <1>2, <1>4, <1>6
  <2>2. frames' # <<>> /\ frames'[Len(frames')] \in Final
    BY <1>4, <1>6
  <2>3. ~told => OnItsWay'
    BY <1>1, <1>4, <1>6 DEF Delivering, OnItsWay
  <2> QED BY <1>1, <1>3, <1>5, <1>6, <2>1, <2>2, <2>3 DEF Delivering
<1>7. CASE ReadEnd
  BY <1>6, <1>7 DEF ReadEnd, Final
<1>8. CASE ReadFrame
  <2>1. wire # <<>> /\ wire' = Tail(wire) /\ wire \in Seq(Kinds)
    BY <1>8 DEF ReadFrame, TypeOK
  <2>2. /\ Len(wire) > 0 /\ Len(wire') = Len(wire) - 1 /\ Head(wire) = wire[1]
        /\ \A k \in 1..Len(wire') : wire'[k] = wire[k + 1]
    BY <2>1, <1>4
  <2>3. ~told => /\ Len(delivered) + Len(frames) + Len(wire) = Len(written)
                 /\ \A k \in 1..Len(wire) : wire[k] = written[Len(delivered) + Len(frames) + k]
                 /\ \A k \in 1..(Len(delivered) + Len(frames)) : written[k] # "part"
    BY <1>1, <2>1 DEF Delivering, OnItsWay
  <2>4. CASE Head(wire) = "huge"
    BY <1>6, <1>8, <2>4 DEF ReadFrame, Final
  <2>5. CASE Head(wire) = "part"
    <3>1. UNCHANGED <<reader, frames>>
      BY <1>8, <2>5 DEF ReadFrame, readVars
    <3>2. ASSUME ~told PROVE OnItsWay'
      <4>1. 1 \in 1..Len(wire) /\ Len(delivered) + Len(frames) + 1 \in 1..Len(written)
        BY <1>4, <2>2, <2>3, <3>2
      <4>2. written[Len(delivered) + Len(frames) + 1] = "part"
        BY <2>2, <2>3, <2>5, <3>2, <4>1
      <4>3. Len(delivered) + Len(frames) + 1 = Len(written)
        BY <4>1, <4>2 DEF Delivering
      <4>4. Len(wire') = 0
        BY <1>4, <2>2, <2>3, <3>2, <4>3
      <4>5. wire' = <<>>
        BY <2>1, <4>4
      <4>6. InFrame'
        BY <1>1, <4>1, <4>2 DEF InFrame, TypeOK
      <4>7. \A k \in 1..Len(frames') : frames'[k] \in Final \/
              (Len(delivered') + k <= Len(written') /\ frames'[k] = written'[Len(delivered') + k])
        BY <1>1, <3>1, <3>2 DEF Delivering, OnItsWay
      <4> QED BY <1>1, <3>1, <4>3, <4>5, <4>6, <4>7 DEF OnItsWay
    <3> QED BY <1>1, <1>2, <1>3, <1>5, <3>1, <3>2 DEF Delivering
  <2>6. CASE Head(wire) \notin {"huge", "part"}
    <3>1. frames' = Append(frames, wire[1]) /\ reader' = "reading"
      BY <1>1, <1>8, <2>2, <2>6 DEF ReadFrame
    <3>2. wire[1] \notin Final
      BY <2>1, <2>2, TransportAssumption DEF AllKinds, Final
    <3>3. ASSUME ~told PROVE OnItsWay'
      <4>1. \A k \in 1..Len(frames) :
              Len(delivered) + k <= Len(written) /\ frames[k] = written[Len(delivered) + k]
        BY <1>2, <3>3 DEF Delivering, OnItsWay
      <4>2. /\ Len(delivered) + (Len(frames) + 1) <= Len(written)
            /\ wire[1] = written[Len(delivered) + (Len(frames) + 1)]
        <5>1. 1 \in 1..Len(wire)
          BY <1>4, <2>2
        <5>2. wire[1] = written[Len(delivered) + Len(frames) + 1]
          BY <2>3, <3>3, <5>1
        <5> QED BY <1>4, <2>2, <2>3, <3>3, <5>2
      <4>3. ASSUME NEW k \in 1..Len(frames')
            PROVE  Len(delivered') + k <= Len(written') /\ frames'[k] = written'[Len(delivered') + k]
        <5>1. CASE k \in 1..Len(frames)
          BY <1>1, <1>4, <3>1, <4>1, <5>1
        <5>2. CASE k = Len(frames) + 1
          BY <1>1, <1>4, <3>1, <4>2, <5>2
        <5> QED BY <1>4, <3>1, <5>1, <5>2
      <4>4. Len(delivered') + Len(frames') + Len(wire') = Len(written')
        <5>1. Len(delivered') = Len(delivered) /\ Len(frames') = Len(frames) + 1 /\ written' = written
          BY <1>1, <1>4, <3>1
        <5>2. Len(delivered) + Len(frames) + Len(wire) = Len(written)
          BY <2>3, <3>3
        <5> QED BY <1>4, <2>2, <5>1, <5>2
      <4>5. ASSUME NEW k \in 1..Len(wire')
            PROVE  wire'[k] = written'[Len(delivered') + Len(frames') + k]
        <5>1. k + 1 \in 1..Len(wire) /\ wire'[k] = wire[k + 1]
          BY <1>4, <2>2
        <5>2. wire[k + 1] = written[Len(delivered) + Len(frames) + (k + 1)]
          BY <2>3, <3>3, <5>1
        <5>3. Len(delivered') + Len(frames') + k = Len(delivered) + Len(frames) + (k + 1)
          BY <1>1, <1>4, <2>2, <3>1
        <5> QED BY <1>1, <5>1, <5>2, <5>3
      <4>6. ASSUME NEW k \in 1..(Len(delivered') + Len(frames')) PROVE written'[k] # "part"
        <5>1. k \in 1..(Len(delivered) + Len(frames)) \/ k = Len(delivered) + (Len(frames) + 1)
          BY <1>1, <1>4, <3>1
        <5>2. wire[1] # "part"
          BY <2>2, <2>6
        <5> QED BY <1>1, <2>3, <3>3, <4>2, <5>1, <5>2
      <4> QED BY <4>3, <4>4, <4>5, <4>6 DEF OnItsWay
    <3>4. \A k \in 1..Len(frames') : frames'[k] \notin Final
      BY <1>2, <1>4, <3>1, <3>2
    <3> QED BY <1>1, <1>3, <1>5, <3>1, <3>3, <3>4 DEF Delivering
  <2> QED BY <2>4, <2>5, <2>6
<1> QED BY <1>7, <1>8

LEMMA OthersDelivering ==
  ASSUME TypeOK, Delivering,
         (Background /\ ~ReadFrame /\ ~ReadEnd) \/ UNCHANGED vars
  PROVE  Delivering'
<1>1. ASSUME NEW t \in Threads, Closer(t) PROVE Delivering'
  <2>1. UNCHANGED <<written, wire, readVars, delivered, told>> /\ main' = main /\ pending' = pending
        /\ (closed' = closed \/ closed')
    BY <1>1 DEF Closer, Poll, Term, WaitTerm, Kill, WaitKill, RemoveTemp, SetClosed, pipeVars, readVars, closeVars,
                mainVars, childVars
  <2> QED BY <2>1, DeliveringKept
<1>2. CASE DeadlineFires \/ ChildReads \/ ChildForks \/ (\E e \in Ends : ChildCloses(e)) \/ ChildExits \/ HelperExits
           \/ UNCHANGED vars
  <2>1. UNCHANGED <<written, wire, readVars, delivered, told, main, pending, closed>>
    BY <1>2 DEF DeadlineFires, ChildReads, ChildForks, ChildCloses, ChildExits, HelperExits, vars, pipeVars, readVars,
                closeVars, mainVars, childVars
  <2> QED BY <2>1, DeliveringKept
<1>3. ASSUME NEW x \in Kinds, ChildWrites(x) PROVE Delivering'
  <2>1. /\ written' = Append(written, x) /\ wire' = Append(wire, x) /\ ~InFrame
        /\ UNCHANGED <<reader, frames, delivered, told, main, pending, closed>>
    BY <1>3 DEF ChildWrites, readVars, closeVars, mainVars
  <2>2. /\ Len(frames) \in Nat /\ Len(wire) \in Nat /\ Len(written) \in Nat /\ Len(delivered) \in Nat
        /\ Len(written') = Len(written) + 1 /\ written'[Len(written) + 1] = x
        /\ \A k \in 1..Len(written) : written'[k] = written[k]
        /\ Len(wire') = Len(wire) + 1 /\ wire'[Len(wire) + 1] = x
        /\ \A k \in 1..Len(wire) : wire'[k] = wire[k]
    BY <2>1 DEF TypeOK
  <2>3. \A k \in 1..Len(written') : written'[k] = "part" => k = Len(written')
    <3>1. \A k \in 1..Len(written) : written[k] # "part"
      BY <2>1 DEF InFrame, TypeOK
    <3> QED BY <2>2, <3>1
  <2>4. ASSUME ~told PROVE OnItsWay'
    <3>1. ASSUME NEW k \in 1..Len(frames')
          PROVE  frames'[k] \in Final \/
                   (Len(delivered') + k <= Len(written') /\ frames'[k] = written'[Len(delivered') + k])
      <4>1. frames[k] \in Final \/
              (Len(delivered) + k <= Len(written) /\ frames[k] = written[Len(delivered) + k])
        BY <2>1, <2>4, <3>1 DEF Delivering, OnItsWay
      <4>2. Len(delivered) + k <= Len(written) =>
              Len(delivered) + k <= Len(written') /\ Len(delivered) + k \in 1..Len(written)
        BY <2>1, <2>2
      <4> QED BY <2>1, <2>2, <4>1, <4>2
    <3>2. ASSUME reader' = "reading"
          PROVE  /\ Len(delivered') + Len(frames') + Len(wire') = Len(written')
                 /\ \A k \in 1..Len(wire') : wire'[k] = written'[Len(delivered') + Len(frames') + k]
                 /\ \A k \in 1..(Len(delivered') + Len(frames')) : written'[k] # "part"
      <4>1. /\ Len(delivered) + Len(frames) + Len(wire) = Len(written)
            /\ \A k \in 1..Len(wire) : wire[k] = written[Len(delivered) + Len(frames) + k]
            /\ \A k \in 1..(Len(delivered) + Len(frames)) : written[k] # "part"
        BY <2>1, <2>4, <3>2 DEF Delivering, OnItsWay
      <4>2. Len(delivered') + Len(frames') + Len(wire') = Len(written')
        BY <2>1, <2>2, <4>1
      <4>3. ASSUME NEW k \in 1..Len(wire') PROVE wire'[k] = written'[Len(delivered) + Len(frames) + k]
        <5>1. CASE k = Len(wire) + 1
          <6>1. Len(delivered) + Len(frames) + k = Len(written) + 1
            BY <2>2, <4>1, <5>1
          <6> QED BY <2>2, <5>1, <6>1
        <5>2. CASE k # Len(wire) + 1
          <6>1. k \in 1..Len(wire)
            BY <2>2, <5>2
          <6>2. Len(delivered) + Len(frames) + k \in 1..Len(written)
            BY <2>2, <4>1, <6>1
          <6> QED BY <2>2, <4>1, <6>1, <6>2
        <5> QED BY <5>1, <5>2
      <4>4. \A k \in 1..(Len(delivered) + Len(frames)) : written'[k] # "part"
        BY <2>2, <4>1
      <4> QED BY <2>1, <4>2, <4>3, <4>4
    <3> QED BY <3>1, <3>2 DEF OnItsWay
  <2> QED BY <2>1, <2>3, <2>4 DEF Delivering
<1> QED BY <1>1, <1>2, <1>3 DEF Background

-----------------------------------------------------------------------------
(* The theorems                                                             *)

LEMMA TransportInit == Init => TInv
<1> SUFFICES ASSUME Init PROVE TInv
  OBVIOUS
<1>1. Constructing /\ Closing /\ Violating
  BY DEF Init, Constructing, Closing, Violating, Released, ViolationCloses, Threads
<1>2. Delivering
  BY DEF Init, Delivering, OnItsWay
<1> QED BY <1>1, <1>2, TransportTypeInit DEF TInv

LEMMA TransportStep == TInv /\ [Next]_vars => TInv'
<1> SUFFICES ASSUME TInv, [Next]_vars PROVE TInv'
  OBVIOUS
<1>1. TypeOK /\ Constructing /\ Closing /\ Violating /\ Delivering
  BY DEF TInv
<1>2. TypeOK' /\ Constructing' /\ Closing' /\ Violating'
  BY <1>1, TransportTypeStep, ConstructingStep, ClosingStep, ViolatingStep
<1>3. Delivering'
  BY <1>1, MainDelivering, ReaderDelivering, OthersDelivering DEF Next
<1> QED BY <1>2, <1>3 DEF TInv

\* The invariant of SubprocessAgentTransport, for every size of its pipes.
THEOREM TransportInductive == Spec => []TInv
<1> QED BY TransportInit, TransportStep, PTL DEF Spec

\* close(), by main or by the watchdog or both, collects the child and removes its
\* directory, and never under a living child; a constructor that raises leaves nothing.
THEOREM CloseReleases == Spec => []Released
<1>1. TInv => Released
  BY DEF TInv, Closing
<1> QED BY <1>1, TransportInductive, PTL

\* A protocol violation is reported by recv() and recv_hello() only after close().
THEOREM ViolationsClose == Spec => []ViolationCloses
<1>1. TInv => ViolationCloses
  BY DEF TInv, Violating
<1> QED BY <1>1, TransportInductive, PTL

\* recv() times out only while there may still be output, or after the end was told.
LEMMA TimeoutStep ==
  ASSUME TInv, [Next]_vars, main # main', main' = "idle", outcome' = "deadline"
  PROVE  reader = "reading" \/ told
<1>1. CASE ReceiveTimeout
  <2>1. frames = <<>> /\ main \in {"receiving", "receiving_hello"}
    BY <1>1 DEF ReceiveTimeout
  <2>2. reader # "none"
    BY <2>1 DEF TInv, Constructing
  <2> QED BY <2>1, <2>2 DEF TInv, TypeOK, Delivering
<1>2. CASE Construct
  BY <1>2 DEF Construct, Spawned, SpawnFails, TInv, Constructing
<1>3. CASE Call
  BY <1>3 DEF Call, Begin, Close, Return, Raise
<1>4. CASE SendDone \/ ReceiveViolation \/ ReceiveEnd
  BY <1>4 DEF SendDone, ReceiveViolation, ReceiveEnd, Return, Raise
<1>5. CASE Raised
  BY <1>5 DEF Raised, Return, TInv, TypeOK
<1>6. CASE ReceiveMessage
  <2>1. Head(frames) \in Items
    BY <1>6 DEF ReceiveMessage, TInv, TypeOK
  <2>2. Head(frames) # "deadline"
    BY <2>1, TransportAssumption DEF Items, AllKinds
  <2> QED BY <1>6, <2>2 DEF ReceiveMessage, Return
<1>7. CASE Background
  BY <1>7 DEF Background, Closer, Poll, Term, WaitTerm, Kill, WaitKill, RemoveTemp, SetClosed, DeadlineFires,
              ReadFrame, ReadEnd, ChildWrites, ChildReads, ChildForks, ChildCloses, ChildExits, HelperExits, mainVars
<1>8. CASE UNCHANGED vars
  BY <1>8 DEF vars, mainVars
<1> QED BY <1>1, <1>2, <1>3, <1>4, <1>5, <1>6, <1>7, <1>8 DEF Next, MainStep

\* When the output of the child has ended, recv() does not wait for its timeout.
THEOREM EndReported == Spec => EndIsReported
<1>1. TInv /\ [Next]_vars => [main # main' /\ main' = "idle" /\ outcome' = "deadline" => reader = "reading" \/ told]_vars
  BY TimeoutStep
<1> QED BY <1>1, TransportInductive, PTL DEF Spec, EndIsReported

-----------------------------------------------------------------------------
(* The transport implements AgentStream                                     *)

LEMMA StreamFirst == Init => Messages!StreamInit
  BY DEF Init, Messages!StreamInit

LEMMA StreamStep ==
  ASSUME TInv, [Next]_vars
  PROVE  [Messages!Produce \/ Messages!Consume \/ Messages!End]_<<written, delivered, told>>
<1>1. ASSUME NEW x \in Kinds, ChildWrites(x) PROVE Messages!Produce
  <2>1. written' = Append(written, x) /\ written \in Seq(Kinds) /\ UNCHANGED <<delivered, told>>
    BY <1>1 DEF ChildWrites, mainVars, TInv, TypeOK
  <2>2. Len(written') = Len(written) + 1
    BY <2>1
  <2>3. SubSeq(written', 1, Len(written)) = written
    <3>1. /\ Len(written) \in Nat /\ written' \in Seq(Kinds)
          /\ SubSeq(written', 1, Len(written)) \in Seq(Kinds)
          /\ Len(SubSeq(written', 1, Len(written))) = Len(written)
          /\ \A k \in 1..Len(written) : SubSeq(written', 1, Len(written))[k] = written[k]
      BY <2>1, <2>2
    <3> QED BY <2>1, <3>1, SeqEqual
  <2> QED BY <2>1, <2>2, <2>3 DEF Messages!Produce
<1>2. CASE ReceiveMessage
  <2>1. /\ frames # <<>> /\ Head(frames) \notin Final
        /\ delivered' = Append(delivered, Head(frames))
        /\ UNCHANGED <<written, told>> /\ main \notin {"idle", "raising"}
    BY <1>2 DEF ReceiveMessage, Violates, Final, childVars
  <2>2. ~told
    BY <2>1 DEF TInv, Delivering
  <2>3. 1 \in 1..Len(frames) /\ Head(frames) = frames[1]
    BY <2>1 DEF TInv, TypeOK
  <2>4. Len(delivered) + 1 <= Len(written) /\ frames[1] = written[Len(delivered) + 1]
    BY <2>1, <2>2, <2>3 DEF TInv, Delivering, OnItsWay
  <2>5. Len(delivered) < Len(written)
    BY <2>4 DEF TInv, TypeOK
  <2> QED BY <2>1, <2>2, <2>3, <2>4, <2>5 DEF Messages!Consume
<1>3. CASE ReceiveViolation \/ ReceiveEnd
  BY <1>3 DEF ReceiveViolation, ReceiveEnd, childVars, Messages!End
<1>4. CASE Construct \/ Call \/ SendDone \/ ReceiveTimeout \/ Raised
  <2>1. UNCHANGED <<written, delivered, told>>
    BY <1>4 DEF Construct, Spawned, SpawnFails, Call, Begin, Close, SendDone, ReceiveTimeout, Raised, childVars
  <2> QED BY <2>1
<1>5. CASE (\E t \in Threads : Closer(t)) \/ DeadlineFires \/ ReadFrame \/ ReadEnd \/ ChildReads \/ ChildForks
           \/ (\E e \in Ends : ChildCloses(e)) \/ ChildExits \/ HelperExits \/ UNCHANGED vars
  <2>1. UNCHANGED <<written, delivered, told>>
    BY <1>5 DEF Closer, Poll, Term, WaitTerm, Kill, WaitKill, RemoveTemp, SetClosed, DeadlineFires, ReadFrame, ReadEnd,
                ChildReads, ChildForks, ChildCloses, ChildExits, HelperExits, vars, mainVars, childVars
  <2> QED BY <2>1
<1> QED BY <1>1, <1>2, <1>3, <1>4, <1>5 DEF Next, MainStep, Background

\* recv() hands out the messages of the child in order, none skipped, and none after it
\* has told the end: to its caller the transport is AgentStream.
THEOREM ImplementsAgentStream == Spec => StreamSpec
<1>1. TInv /\ [Next]_vars =>
        [Messages!Produce \/ Messages!Consume \/ Messages!End]_<<written, delivered, told>>
  BY StreamStep
<1> QED BY <1>1, StreamFirst, TransportInductive, PTL DEF Spec, StreamSpec, Messages!Stream, Messages!streamVars

\* What was handed out is the first part of what the child wrote.
InOrder ==
  /\ Len(delivered) <= Len(written)
  /\ \A k \in 1..Len(delivered) : delivered[k] = written[k]

LEMMA InOrderStep ==
  ASSUME TInv, TypeOK', InOrder, [Next]_vars
  PROVE  InOrder'
<1>1. /\ written \in Seq(Kinds) /\ delivered \in Seq(Kinds) /\ written' \in Seq(Kinds)
      /\ Len(written) \in Nat /\ Len(delivered) \in Nat
      /\ Len(delivered) <= Len(written)
      /\ \A k \in 1..Len(delivered) : delivered[k] = written[k]
  BY DEF TInv, TypeOK, InOrder
<1>2. CASE Messages!Produce
  <2>1. /\ Len(written') = Len(written) + 1 /\ SubSeq(written', 1, Len(written)) = written
        /\ delivered' = delivered
    BY <1>2 DEF Messages!Produce
  <2>2. \A k \in 1..Len(written) : SubSeq(written', 1, Len(written))[k] = written'[k]
    BY <1>1, <2>1
  <2>3. \A k \in 1..Len(delivered) : k \in 1..Len(written)
    BY <1>1
  <2>4. \A k \in 1..Len(delivered) : delivered'[k] = written'[k]
    BY <1>1, <2>1, <2>2, <2>3
  <2> QED BY <1>1, <2>1, <2>4 DEF InOrder
<1>3. CASE Messages!Consume
  <2>1. /\ Len(delivered) < Len(written) /\ written' = written
        /\ delivered' = Append(delivered, written[Len(delivered) + 1])
    BY <1>3 DEF Messages!Consume
  <2>2. written[Len(delivered) + 1] \in Kinds
    BY <1>1, <2>1
  <2>3. /\ Len(delivered') = Len(delivered) + 1
        /\ \A k \in 1..Len(delivered) : delivered'[k] = delivered[k]
        /\ delivered'[Len(delivered) + 1] = written[Len(delivered) + 1]
    BY <1>1, <2>1, <2>2, AppendProperties
  <2>4. \A k \in 1..(Len(delivered) + 1) : k \in 1..Len(delivered) \/ k = Len(delivered) + 1
    BY <1>1
  <2>5. \A k \in 1..Len(delivered') : delivered'[k] = written'[k]
    BY <1>1, <2>1, <2>3, <2>4
  <2>6. Len(delivered') <= Len(written')
    BY <1>1, <2>1, <2>3
  <2> QED BY <2>5, <2>6 DEF InOrder
<1>4. CASE Messages!End \/ UNCHANGED <<written, delivered, told>>
  <2>1. written' = written /\ delivered' = delivered
    BY <1>4 DEF Messages!End
  <2> QED BY <1>1, <2>1 DEF InOrder
<1> QED BY <1>2, <1>3, <1>4, StreamStep

\* At any time the messages handed out by recv() are the first ones the child wrote: none
\* is skipped, repeated or made of two others, whatever the child writes in parts, when it
\* ends and who closes the transport (recv, recv_hello, the reader).
THEOREM DeliveredAsWritten == Spec => []InOrder
<1>1. Init => InOrder
  BY DEF Init, InOrder
<1>2. TInv /\ TypeOK' /\ InOrder /\ [Next]_vars => InOrder'
  BY InOrderStep
<1>3. TInv => TypeOK
  BY DEF TInv
<1> QED BY <1>1, <1>2, <1>3, TransportInductive, PTL DEF Spec

-----------------------------------------------------------------------------
(* The round: its inductive invariant                                      *)

\* The transcript, and what was received and sent, before each call of Program and after
\* the last one.
Recorded == <<
  <<>>, <<"hello">>, <<"hello", "episode_start">>, <<"hello", "episode_start", "ready">>,
  <<"hello", "episode_start", "ready", "decide">>,
  <<"hello", "episode_start", "ready", "decide", "decision">> >>
Received == << <<>>, <<"hello">>, <<"hello">>, <<"hello", "ready">>, <<"hello", "ready">>,
               <<"hello", "ready", "decision">> >>
Sent == <<0, 0, 1, 1, 2, 2>>

Exchanged(k) == delivered = Received[k] /\ sends = Sent[k]

RoundType ==
  /\ mode \in {"subprocess", "in_process"}
  /\ round \in {"call", "wait", "exit", "exiting", "over"}
  /\ step \in 1..5
  /\ status \in {"none", "ok", "timeout", "crash", "protocol", "error"}

\* Before the watchdog fires and before main is about to leave, nobody but the child can
\* have ended anything, and whatever is wrong on the way to recv() the child has written.
Quiet ==
  /\ ~closed /\ ~told
  /\ \A t \in Threads : stage[t] = "out"
  /\ child \in {"zombie", "reaped"} \/ ends # Ends => left
  /\ \A k \in 1..Len(frames) :
       /\ frames[k] = "eof" => left
       /\ frames[k] = "violation" => /\ Len(delivered) + k <= Len(written)
                                     /\ written[Len(delivered) + k] \in {"huge", "part"}

Fired == timer = "fired"

\* What the classification of a result blames has happened.
Caused(result) ==
  \/ Fired
  \/ /\ Classify(result) = "protocol" => ~Conforms
     /\ Classify(result) = "crash" => left
     /\ Classify(result) # "error"

Calling ==
  round = "call" =>
    /\ main \in {"spawning", "failed", "idle"} /\ (main # "idle" => step = 1)
    /\ status = "none" /\ records = Recorded[step] /\ Exchanged(step)
    /\ Fired \/ Quiet

Waiting ==
  round = "wait" =>
    /\ status = "none"
    /\ records = Recorded[IF Program[step] = "sending" THEN step + 1 ELSE step]
    /\ \/ main = Program[step] /\ Exchanged(step) /\ (Fired \/ Quiet)
       \/ main = "raising" /\ pending \in {"crash", "protocol"} /\ Caused(pending)
       \/ main = "idle" /\ Accepts(step, outcome) /\ Exchanged(step + 1) /\ (Fired \/ Quiet)
       \/ main = "idle" /\ ~Accepts(step, outcome) /\ Caused(outcome)

\* The way through __exit__: main is in close(), or it is closed.
Leaving ==
  /\ round = "exit" => main = "idle" /\ status # "ok"
  /\ round = "exiting" =>
       /\ status # "ok"
       /\ \/ main = "raising" /\ pending = "none" /\ (closed \/ (closing["main"] /\ stage["main"] # "out"))
          \/ main = "idle" /\ closed
  /\ round = "over" => status # "none" /\ (main = "failed" \/ (main = "idle" /\ closed))

Ending ==
  round \in {"exit", "exiting", "over"} =>
    /\ status \in {"none", "ok"} => records = Recorded[6] /\ Exchanged(6)
    /\ status = "protocol" => ~Conforms \/ Fired
    /\ status = "crash" => left \/ Fired
    /\ status = "error" => main = "failed" \/ Fired

InProcess ==
  /\ round \in {"call", "over"}
  /\ round = "call" => step \in 1..3 /\ status = "none" /\ records = <<Recorded[1], Recorded[2], Recorded[4]>>[step]
  /\ round = "over" /\ status = "ok" => records = Recorded[6]

Subprocess == Calling /\ Waiting /\ Leaving /\ Ending

RInv ==
  /\ TInv /\ RoundType
  /\ mode = "subprocess" => Subprocess
  /\ mode = "in_process" => InProcess

-----------------------------------------------------------------------------
(* Steps of the transport                                                   *)

LEMMA CallNames ==
  ASSUME NEW k \in 1..5
  PROVE  /\ Program[k] \in {"sending", "receiving", "receiving_hello"}
         /\ Program[k] = "sending" <=> k \in {2, 4}
         /\ Program[k] = "receiving_hello" <=> k = 1
  BY DEF Program

\* What was received before a call that receives, what it should receive, and after it.
LEMMA ReceivedNext ==
  ASSUME NEW k \in {1, 3, 5}
  PROVE  /\ Len(Received[k]) + 1 \in 1..3
         /\ Expected[k] = Replies[Len(Received[k]) + 1]
         /\ Received[k + 1] = Append(Received[k], Expected[k])
         /\ Recorded[k + 1] = Append(Recorded[k], Expected[k])
         /\ Sent[k + 1] = Sent[k]
<1>1. CASE k = 1
  BY <1>1 DEF Received, Recorded, Expected, Replies, Sent
<1>2. CASE k = 3
  BY <1>2 DEF Received, Recorded, Expected, Replies, Sent
<1>3. CASE k = 5
  BY <1>3 DEF Received, Recorded, Expected, Replies, Sent
<1> QED BY <1>1, <1>2, <1>3

LEMMA SentNext ==
  ASSUME NEW k \in {2, 4}
  PROVE  /\ Received[k + 1] = Received[k] /\ Sent[k + 1] = Sent[k] + 1
         /\ Recorded[k + 1] = Append(Recorded[k], Requests[k])
         /\ Expected[k] = "sent"
<1>1. CASE k = 2
  BY <1>1 DEF Received, Recorded, Expected, Requests, Sent
<1>2. CASE k = 4
  BY <1>2 DEF Received, Recorded, Expected, Requests, Sent
<1> QED BY <1>1, <1>2

\* What can be blamed stays to be blamed.
LEMMA BlameKept ==
  ASSUME TInv, [Next]_vars
  PROVE  /\ Fired => Fired'
         /\ left => left'
         /\ ~Conforms => ~Conforms'
<1>1. ASSUME timer = "fired" PROVE timer' = "fired"
  <2>1. CASE UNCHANGED timer
    BY <1>1, <2>1
  <2>2. ASSUME EnterClose("main") PROVE timer' = "fired"
    BY <1>1, <2>2 DEF EnterClose, killVars
  <2>3. CASE Call \/ MainStep \/ Construct
    <3>1. CASE Close \/ ReceiveViolation
      BY <2>2, <3>1 DEF Close, ReceiveViolation
    <3>2. CASE Spawned
      BY <1>1, <3>2 DEF Spawned, TInv, Constructing
    <3> QED BY <2>1, <2>3, <3>1, <3>2 DEF Call, MainStep, Construct, SpawnFails, Begin, SendDone, ReceiveMessage,
                                     ReceiveEnd, ReceiveTimeout, Raised, closeVars
  <2>4. CASE Background \/ UNCHANGED vars
    <3>1. UNCHANGED timer \/ timer' = "fired"
      BY <2>4 DEF vars, Background, Closer, Poll, Term, WaitTerm, Kill, WaitKill, RemoveTemp, SetClosed, DeadlineFires,
                  ReadFrame, ReadEnd, ChildWrites, ChildReads, ChildForks, ChildCloses, ChildExits, HelperExits, closeVars
    <3> QED BY <1>1, <3>1
  <2> QED BY <2>3, <2>4 DEF Next
<1>2. left => left'
  BY DEF Next, vars, Construct, Spawned, SpawnFails, Call, Begin, Close, MainStep, SendDone,
         ReceiveMessage, ReceiveViolation, ReceiveEnd, ReceiveTimeout, Raised, Background, Closer, Poll, Term,
         WaitTerm, Kill, WaitKill, RemoveTemp, SetClosed, DeadlineFires, ReadFrame, ReadEnd, ChildWrites,
         ChildReads, ChildForks, ChildCloses, ChildExits, HelperExits, childVars
<1>3. UNCHANGED written \/ \E x \in Kinds : written' = Append(written, x)
  BY DEF Next, vars, Construct, Spawned, SpawnFails, Call, Begin, Close, MainStep, SendDone,
         ReceiveMessage, ReceiveViolation, ReceiveEnd, ReceiveTimeout, Raised, Background, Closer, Poll, Term,
         WaitTerm, Kill, WaitKill, RemoveTemp, SetClosed, DeadlineFires, ReadFrame, ReadEnd, ChildWrites,
         ChildReads, ChildForks, ChildCloses, ChildExits, HelperExits, childVars
<1>4. \A k \in 1..Len(written) : k \in 1..Len(written') /\ written'[k] = written[k]
  <2>1. written \in Seq(Kinds)
    BY DEF TInv, TypeOK
  <2>2. ASSUME NEW x \in Kinds, written' = Append(written, x), NEW k \in 1..Len(written)
        PROVE  k \in 1..Len(written') /\ written'[k] = written[k]
    BY <2>1, <2>2
  <2> QED BY <1>3, <2>2
<1>5. ~Conforms => ~Conforms'
  <2>1. SUFFICES ASSUME NEW k \in 1..Len(written), k <= 3, written[k] # Replies[k] PROVE ~Conforms'
    BY DEF Conforms
  <2>2. k \in 1..Len(written') /\ written'[k] # Replies[k]
    BY <1>4, <2>1
  <2> QED BY <2>1, <2>2 DEF Conforms
<1>6. Fired => Fired'
  BY <1>1 DEF Fired
<1> QED BY <1>2, <1>5, <1>6

LEMMA CausedKept ==
  ASSUME TInv, [Next]_vars, NEW r, Caused(r)
  PROVE  Caused(r)'
  BY BlameKept DEF Caused, Classify

\* What runs beside main.
LEMMA BackgroundKeepsMain ==
  ASSUME Background
  PROVE  UNCHANGED mainVars
  BY DEF Background, Closer, Poll, Term, WaitTerm, Kill, WaitKill, RemoveTemp, SetClosed, DeadlineFires,
         ReadFrame, ReadEnd, ChildWrites, ChildReads, ChildForks, ChildCloses, ChildExits, HelperExits, mainVars

LEMMA QuietReader ==
  ASSUME TInv, Quiet, ReadFrame \/ ReadEnd
  PROVE  Quiet'
<1>1. /\ reader = "reading" /\ ~told /\ ~closed
      /\ UNCHANGED <<procVars, closeVars, killVars, mainVars, childVars>>
  BY DEF ReadFrame, ReadEnd, Quiet
<1>2. /\ Len(frames) \in Nat /\ Len(wire) \in Nat /\ Len(written) \in Nat /\ Len(delivered) \in Nat
      /\ \A x : /\ Len(Append(frames, x)) = Len(frames) + 1
               /\ Append(frames, x)[Len(frames) + 1] = x
               /\ \A k \in 1..Len(frames) : Append(frames, x)[k] = frames[k]
  BY DEF TInv, TypeOK
<1>3. ASSUME NEW x, frames' = Append(frames, x), x = "eof" => left,
             x = "violation" => /\ Len(delivered) + (Len(frames) + 1) <= Len(written)
                                /\ written[Len(delivered) + (Len(frames) + 1)] \in {"huge", "part"}
      PROVE  Quiet'
  <2>1. ASSUME NEW k \in 1..Len(frames')
        PROVE  /\ frames'[k] = "eof" => left
               /\ frames'[k] = "violation" => /\ Len(delivered) + k <= Len(written)
                                              /\ written[Len(delivered) + k] \in {"huge", "part"}
    <3>1. CASE k \in 1..Len(frames)
      BY <1>2, <1>3, <3>1 DEF Quiet
    <3>2. CASE k = Len(frames) + 1
      BY <1>2, <1>3, <3>2
    <3> QED BY <1>2, <1>3, <3>1, <3>2
  <2> QED BY <1>1, <2>1 DEF Quiet, procVars, closeVars, killVars, mainVars, childVars
<1>4. CASE ReadFrame
  <2>1. wire # <<>>
    BY <1>4 DEF ReadFrame
  <2>2. /\ Len(delivered) + Len(frames) + Len(wire) = Len(written)
        /\ wire[1] = written[Len(delivered) + Len(frames) + 1]
        /\ Len(wire) > 0 /\ Head(wire) = wire[1]
    <3>1. Len(wire) > 0 /\ Head(wire) = wire[1]
      BY <2>1 DEF TInv, TypeOK
    <3>2. /\ Len(delivered) + Len(frames) + Len(wire) = Len(written)
          /\ \A k \in 1..Len(wire) : wire[k] = written[Len(delivered) + Len(frames) + k]
      BY <1>1, <2>1 DEF TInv, Delivering, OnItsWay
    <3>3. 1 \in 1..Len(wire)
      BY <1>2, <3>1
    <3>4. wire[1] = written[Len(delivered) + Len(frames) + 1]
      BY <3>2, <3>3
    <3> QED BY <3>1, <3>2, <3>4
  <2>3. CASE wire[1] = "huge"
    <3>1. frames' = Append(frames, "violation")
      BY <1>4, <2>2, <2>3 DEF ReadFrame
    <3>2. /\ Len(delivered) + (Len(frames) + 1) <= Len(written)
          /\ written[Len(delivered) + (Len(frames) + 1)] = "huge"
      <4>1. Len(delivered) + (Len(frames) + 1) = Len(delivered) + Len(frames) + 1
        BY <1>2
      <4>2. written[Len(delivered) + Len(frames) + 1] = "huge"
        BY <2>2, <2>3
      <4>3. Len(delivered) + (Len(frames) + 1) <= Len(written)
        BY <1>2, <2>2
      <4> QED BY <4>1, <4>2, <4>3
    <3> QED BY <1>3, <3>1, <3>2
  <2>4. CASE wire[1] = "part"
    BY <1>1, <1>4, <2>2, <2>4 DEF ReadFrame, Quiet, readVars, procVars, closeVars, killVars, mainVars, childVars
  <2>5. CASE wire[1] \notin {"huge", "part"}
    <3>1. wire[1] \in Kinds
      BY <2>1 DEF TInv, TypeOK
    <3>2. wire[1] \notin {"eof", "violation"}
      BY <3>1, TransportAssumption DEF AllKinds
    <3> QED BY <1>3, <1>4, <2>2, <2>5, <3>2 DEF ReadFrame
  <2> QED BY <2>3, <2>4, <2>5
<1>5. CASE ReadEnd
  <2>1. wire = <<>> /\ ~Held("out")
    BY <1>1, <1>5 DEF ReadEnd
  <2>2. left
    <3>1. child # "none"
      BY <1>1 DEF TInv, Constructing
    <3> QED BY <2>1, <3>1 DEF Held, Quiet, TInv, TypeOK, Ends
  <2>3. CASE ~InFrame
    <3>1. frames' = Append(frames, "eof")
      BY <1>1, <1>5, <2>3 DEF ReadEnd
    <3> QED BY <1>3, <2>2, <3>1
  <2>4. CASE InFrame
    <3>1. frames' = Append(frames, "violation")
      BY <1>1, <1>5, <2>4 DEF ReadEnd
    <3>2. PICK j \in 1..Len(written) : written[j] = "part"
      BY <2>4 DEF InFrame, TInv, TypeOK
    <3>3. j = Len(written)
      BY <3>2 DEF TInv, Delivering
    <3>4. Len(delivered) + Len(frames) + 1 = Len(written)
      <4>1. CASE Len(delivered) + Len(frames) + 1 = Len(written)
        BY <4>1
      <4>2. CASE /\ Len(delivered) + Len(frames) + Len(wire) = Len(written)
                 /\ \A k \in 1..(Len(delivered) + Len(frames)) : written[k] # "part"
        BY <1>2, <2>1, <3>2, <4>2
      <4> QED BY <1>1, <4>1, <4>2 DEF TInv, Delivering, OnItsWay
    <3> QED BY <1>2, <1>3, <3>1, <3>2, <3>3, <3>4
  <2> QED BY <2>3, <2>4
<1> QED BY <1>4, <1>5

LEMMA QuietBackground ==
  ASSUME TInv, Quiet, Background
  PROVE  Fired' \/ Quiet'
<1>1. ASSUME NEW t \in Threads, Closer(t) PROVE FALSE
  BY <1>1 DEF Quiet, Closer, Poll, Term, WaitTerm, Kill, WaitKill, RemoveTemp, SetClosed
<1>2. CASE DeadlineFires
  BY <1>2 DEF DeadlineFires, Fired
<1>3. CASE ReadFrame \/ ReadEnd
  BY <1>3, QuietReader
<1>4. CASE ChildReads \/ ChildForks \/ HelperExits
  <2>1. UNCHANGED <<child, ends, readVars, closeVars, killVars, mainVars, childVars>>
    BY <1>4 DEF ChildReads, ChildForks, HelperExits, procVars
  <2> QED BY <2>1 DEF Quiet, readVars, closeVars, killVars, mainVars, childVars
<1>5. CASE (\E e \in Ends : ChildCloses(e)) \/ ChildExits
  <2>1. UNCHANGED <<readVars, closeVars, killVars, mainVars, written>> /\ left'
    BY <1>5 DEF ChildCloses, ChildExits
  <2> QED BY <2>1 DEF Quiet, readVars, closeVars, killVars, mainVars
<1>6. ASSUME NEW x \in Kinds, ChildWrites(x) PROVE Quiet'
  <2>1. UNCHANGED <<procVars, readVars, closeVars, killVars, mainVars, left>> /\ written' = Append(written, x)
    BY <1>6 DEF ChildWrites
  <2>2. /\ Len(written') = Len(written) + 1 /\ Len(written) \in Nat /\ Len(delivered) \in Nat /\ Len(frames) \in Nat
        /\ \A k \in 1..Len(written) : written'[k] = written[k]
    BY <2>1 DEF TInv, TypeOK
  <2>3. ASSUME NEW k \in 1..Len(frames), frames[k] = "violation"
        PROVE  /\ Len(delivered) + k <= Len(written') /\ written'[Len(delivered) + k] \in {"huge", "part"}
    <3>1. Len(delivered) + k \in 1..Len(written) /\ written[Len(delivered) + k] \in {"huge", "part"}
      BY <2>2, <2>3 DEF Quiet
    <3> QED BY <2>2, <3>1
  <2> QED BY <2>1, <2>3 DEF Quiet, procVars, readVars, closeVars, killVars, mainVars
<1> QED BY <1>1, <1>2, <1>3, <1>4, <1>5, <1>6 DEF Background

LEMMA CloseGoesOn ==
  ASSUME TypeOK, Background, closed \/ (closing["main"] /\ stage["main"] # "out")
  PROVE  closed' \/ (closing'["main"] /\ stage'["main"] # "out")
<1>1. ASSUME NEW t \in Threads, Closer(t) PROVE closed' \/ (closing'["main"] /\ stage'["main"] # "out")
  <2>1. CASE SetClosed(t)
    BY <2>1 DEF SetClosed
  <2>2. UNCHANGED <<closed, closing>> \/ closed'
    BY <1>1, <2>1 DEF Closer, Poll, Term, WaitTerm, Kill, WaitKill, RemoveTemp, closeVars, SetClosed
  <2>3. CASE ~SetClosed(t) /\ closing["main"] /\ stage["main"] # "out"
    <3>1. CASE t = "main"
      BY <1>1, <2>3, <3>1 DEF TypeOK, Threads, Closer, Poll, Term, WaitTerm, Kill, WaitKill, RemoveTemp, Move, After
    <3>2. CASE t # "main"
      BY <1>1, <2>3, <3>2 DEF TypeOK, Threads, Closer, Poll, Term, WaitTerm, Kill, WaitKill, RemoveTemp, Move, After
    <3> QED BY <3>1, <3>2
  <2>4. CASE ~SetClosed(t) /\ closed
    BY <1>1, <2>4 DEF Closer, Poll, Term, WaitTerm, Kill, WaitKill, RemoveTemp, closeVars
  <2> QED BY <2>1, <2>3, <2>4
<1>2. CASE DeadlineFires
  BY <1>2 DEF DeadlineFires, EnterTerminate, killVars, TypeOK, Threads
<1>3. CASE Background /\ ~DeadlineFires /\ ~(\E t \in Threads : Closer(t))
  <2>1. UNCHANGED <<closed, closing, stage>>
    BY <1>3 DEF Background, ReadFrame, ReadEnd, ChildWrites, ChildReads, ChildForks, ChildCloses, ChildExits, HelperExits,
                closeVars, killVars
  <2> QED BY <2>1
<1> QED BY <1>1, <1>2, <1>3

LEMMA BackgroundKeeps ==
  ASSUME RInv, mode = "subprocess", Background, UNCHANGED roundVars
  PROVE  Subprocess'
<1>1. TInv /\ RoundType /\ Calling /\ Waiting /\ Leaving /\ Ending /\ [Next]_vars
  BY DEF RInv, Subprocess, Next
<1>2. /\ UNCHANGED <<main, outcome, pending, calls, sends, delivered, told>>
      /\ UNCHANGED <<mode, round, step, records, status>>
  BY BackgroundKeepsMain DEF mainVars, roundVars
<1>3. (Fired => Fired') /\ (left => left') /\ (~Conforms => ~Conforms')
  BY <1>1, BlameKept
<1>4. Fired \/ Quiet => Fired' \/ Quiet'
  BY <1>1, <1>3, QuietBackground
<1>5. Caused(outcome) => Caused(outcome)'
  BY <1>1, <1>2, <1>3 DEF Caused
<1>6. Caused(pending) => Caused(pending)'
  BY <1>1, <1>2, <1>3 DEF Caused
<1>7. Calling'
  BY <1>1, <1>2, <1>4 DEF Calling, Exchanged
<1>8. Waiting'
  BY <1>1, <1>2, <1>4, <1>5, <1>6 DEF Waiting, Exchanged, Accepts
<1>9. Leaving'
  <2>1. TypeOK
    BY <1>1 DEF TInv
  <2>2. closed => closed'
    BY DEF Background, Closer, Poll, Term, WaitTerm, Kill, WaitKill, RemoveTemp, SetClosed, DeadlineFires,
           ReadFrame, ReadEnd, ChildWrites, ChildReads, ChildForks, ChildCloses, ChildExits, HelperExits, closeVars
  <2> QED BY <1>1, <1>2, <2>1, <2>2, CloseGoesOn DEF Leaving
<1>10. Ending'
  BY <1>1, <1>2, <1>3 DEF Ending, Exchanged
<1> QED BY <1>7, <1>8, <1>9, <1>10 DEF Subprocess

LEMMA ConstructKeeps ==
  ASSUME RInv, mode = "subprocess", Construct, UNCHANGED roundVars
  PROVE  Subprocess'
<1>1. TInv /\ RoundType /\ Calling /\ Waiting /\ Leaving /\ Ending /\ [Next]_vars
  BY DEF RInv, Subprocess, Next
<1>2. /\ main = "spawning" /\ main' \in {"idle", "failed"}
      /\ UNCHANGED <<ends, frames, closed, stage, sends, delivered, told, written, left>>
      /\ child' = child \/ child' = "running"
      /\ UNCHANGED <<mode, round, step, records, status>>
  BY DEF Construct, Spawned, SpawnFails, procVars, readVars, killVars, childVars, roundVars
<1>3. round = "call" /\ step = 1
  BY <1>1, <1>2, CallNames DEF RoundType, Calling, Waiting, Leaving
<1>4. child = "none"
  BY <1>1, <1>2 DEF TInv, Constructing
<1>5. Fired \/ Quiet => Fired' \/ Quiet'
  BY <1>1, <1>2, <1>4, BlameKept DEF Quiet
<1> QED BY <1>1, <1>2, <1>3, <1>5 DEF Subprocess, Calling, Waiting, Leaving, Ending, Exchanged

\* A message that does not fit is the fault of the child.
LEMMA Misfit ==
  ASSUME TInv, Quiet, frames # <<>>, NEW k \in {1, 3, 5}, delivered = Received[k],
         Head(frames) # Expected[k], Head(frames) # "eof"
  PROVE  ~Conforms
<1> DEFINE p == Len(delivered) + 1
<1>1. p \in 1..3 /\ Expected[k] = Replies[p]
  <2>1. Len(delivered) + 1 \in 1..3
    BY ReceivedNext
  <2>2. Expected[k] = Replies[Len(delivered) + 1]
    BY ReceivedNext
  <2> QED BY <2>1, <2>2
<1>2. Head(frames) = frames[1] /\ 1 \in 1..Len(frames) /\ Len(written) \in Nat
  BY DEF TInv, TypeOK
<1>3. p <= Len(written) /\ written[p] # Replies[p]
  <2>1. CASE frames[1] = "violation"
    <3>1. p <= Len(written) /\ written[p] \in {"huge", "part"}
      BY <1>2, <2>1 DEF Quiet
    <3>2. Replies[p] \notin {"huge", "part"}
      BY <1>1 DEF Replies
    <3> QED BY <3>1, <3>2
  <2>2. CASE frames[1] # "violation"
    <3>1. frames[1] \notin Final /\ ~told
      BY <1>2, <2>2 DEF Final, Quiet
    <3>2. p <= Len(written) /\ frames[1] = written[p]
      BY <1>2, <3>1 DEF TInv, Delivering, OnItsWay
    <3> QED BY <1>1, <1>2, <3>2
  <2> QED BY <2>1, <2>2
<1>4. p \in 1..Len(written) /\ p <= 3
  BY <1>1, <1>2, <1>3
<1> HIDE DEF p
<1> QED BY <1>3, <1>4 DEF Conforms

\* The violations of recv() and recv_hello() are misfits.
LEMMA ViolationMisfits ==
  ASSUME TInv, NEW k \in {1, 3, 5}, main = Program[k], Violates(Head(frames))
  PROVE  Head(frames) # Expected[k]
<1>1. k = 1 \/ main = "receiving"
  BY DEF Program
<1> QED BY <1>1 DEF Violates, Program, Expected

LEMMA QuietMessage ==
  ASSUME TInv, Quiet, ReceiveMessage
  PROVE  Quiet'
<1>1. /\ frames # <<>> /\ frames' = Tail(frames) /\ delivered' = Append(delivered, Head(frames))
      /\ UNCHANGED <<closed, told, stage, child, ends, left, written>>
  BY DEF ReceiveMessage, procVars, closeVars, killVars, childVars
<1>2. /\ Len(frames) \in Nat \ {0} /\ Len(frames') = Len(frames) - 1
      /\ \A k \in 1..Len(frames') : frames'[k] = frames[k + 1]
      /\ Len(delivered') = Len(delivered) + 1 /\ Len(delivered) \in Nat
  BY <1>1 DEF TInv, TypeOK
<1>3. ASSUME NEW k \in 1..Len(frames')
      PROVE  /\ frames'[k] = "eof" => left'
             /\ frames'[k] = "violation" => /\ Len(delivered') + k <= Len(written')
                                            /\ written'[Len(delivered') + k] \in {"huge", "part"}
  <2>1. k + 1 \in 1..Len(frames) /\ frames'[k] = frames[k + 1]
    BY <1>2
  <2>2. Len(delivered') + k = Len(delivered) + (k + 1)
    BY <1>2
  <2>3. /\ frames[k + 1] = "eof" => left
        /\ frames[k + 1] = "violation" => /\ Len(delivered) + (k + 1) <= Len(written)
                                          /\ written[Len(delivered) + (k + 1)] \in {"huge", "part"}
    BY <2>1 DEF Quiet
  <2> QED BY <1>1, <2>1, <2>2, <2>3
<1> QED BY <1>1, <1>3 DEF Quiet

LEMMA AfterMessage ==
  ASSUME TInv, step \in 1..5, UNCHANGED step,
         main = Program[step], Exchanged(step), Fired \/ Quiet, ReceiveMessage
  PROVE  /\ main' = "idle"
         /\ \/ Accepts(step, outcome') /\ Exchanged(step + 1)' /\ (Fired' \/ Quiet')
            \/ ~Accepts(step, outcome') /\ Caused(outcome)'
<1>1. /\ frames # <<>> /\ Head(frames) # "eof" /\ main \in {"receiving", "receiving_hello"}
      /\ main' = "idle" /\ outcome' = Head(frames)
      /\ delivered' = Append(delivered, Head(frames)) /\ UNCHANGED <<sends, written, timer>>
      /\ ~Violates(Head(frames))
  BY DEF ReceiveMessage, Return, closeVars, childVars
<1>2. step \in {1, 3, 5}
  BY <1>1, CallNames
<1>3. Fired' \/ Quiet'
  BY <1>1, QuietMessage DEF Fired
<1>4. CASE Head(frames) = Expected[step]
  <2>1. Exchanged(step + 1)'
    BY <1>1, <1>2, <1>4, ReceivedNext DEF Exchanged
  <2> QED BY <1>1, <1>3, <1>4, <2>1 DEF Accepts
<1>5. CASE Head(frames) # Expected[step]
  <2>1. Quiet => ~Conforms
    BY <1>1, <1>2, <1>5, Misfit DEF Exchanged
  <2>2. Fired' \/ ~Conforms'
    BY <1>1, <2>1 DEF Fired, Conforms
  <2>3. outcome' \notin {"deadline", "crash", "closed"}
    <3>1. Head(frames) \in Items
      BY <1>1 DEF TInv, TypeOK
    <3> QED BY <1>1, <3>1, TransportAssumption DEF Items, AllKinds
  <2>4. Caused(outcome)'
    BY <2>2, <2>3 DEF Caused, Classify
  <2> QED BY <1>1, <1>5, <2>4 DEF Accepts
<1> QED BY <1>4, <1>5

LEMMA WaitKeeps ==
  ASSUME RInv, mode = "subprocess", round = "wait", MainStep, UNCHANGED roundVars
  PROVE  Subprocess'
<1>1. TInv /\ TypeOK /\ RoundType /\ Waiting /\ [Next]_vars
  BY DEF RInv, Subprocess, Next, TInv
<1>2. UNCHANGED <<mode, round, step, records, status>> /\ step \in 1..5
  BY <1>1 DEF roundVars, RoundType
<1>3. SUFFICES
        \/ main' = Program[step] /\ Exchanged(step)' /\ (Fired' \/ Quiet')
        \/ main' = "raising" /\ pending' \in {"crash", "protocol"} /\ Caused(pending)'
        \/ main' = "idle" /\ Accepts(step, outcome') /\ Exchanged(step + 1)' /\ (Fired' \/ Quiet')
        \/ main' = "idle" /\ ~Accepts(step, outcome') /\ Caused(outcome)'
  BY <1>1, <1>2 DEF Subprocess, Calling, Waiting, Leaving, Ending, Accepts, Exchanged
<1>4. Expected[step] \in {"hello", "sent", "ready", "decision"}
  BY <1>2 DEF Expected
<1>5. CASE main = "raising"
  <2>1. pending \in {"crash", "protocol"} /\ Caused(pending)
    BY <1>1, <1>5, CallNames DEF Waiting, RoundType
  <2>2. main' = "idle" /\ outcome' = pending /\ UNCHANGED <<timer, written, left>>
    BY <1>5 DEF MainStep, SendDone, ReceiveMessage, ReceiveViolation, ReceiveEnd, ReceiveTimeout, Raised, Return,
                closeVars, childVars
  <2>3. Caused(outcome)'
    BY <2>1, <2>2 DEF Caused, Fired, Conforms
  <2> QED BY <1>4, <2>1, <2>2, <2>3 DEF Accepts
<1>6. CASE main # "raising"
  <2>1. main = Program[step] /\ Exchanged(step) /\ (Fired \/ Quiet)
    BY <1>1, <1>6 DEF Waiting, MainStep, SendDone, ReceiveMessage, ReceiveViolation, ReceiveEnd, ReceiveTimeout, Raised
  <2>2. CASE ReceiveMessage
    BY <1>1, <1>2, <2>1, <2>2, AfterMessage
  <2>3. CASE SendDone /\ Held("in")
    <3>1. /\ main' = "idle" /\ outcome' = "sent" /\ sends' = sends + 1 /\ UNCHANGED delivered
          /\ UNCHANGED <<closed, told, stage, child, ends, left, frames, written, timer>>
      BY <2>3 DEF SendDone, Return, procVars, readVars, closeVars, killVars, childVars
    <3>2. step \in {2, 4}
      BY <1>2, <2>1, <2>3, CallNames DEF SendDone
    <3>3. Exchanged(step + 1)' /\ Expected[step] = "sent"
      BY <1>2, <2>1, <3>1, <3>2, SentNext DEF Exchanged
    <3>4. Fired' \/ Quiet'
      BY <2>1, <3>1 DEF Fired, Quiet
    <3> QED BY <3>1, <3>3, <3>4 DEF Accepts
  <2>4. CASE SendDone /\ ~Held("in")
    <3>1. main' = "raising" /\ pending' = "crash" /\ UNCHANGED <<left, written, timer>>
      BY <2>4 DEF SendDone, Raise, closeVars, childVars
    <3>2. child # "none"
      BY <1>1, <2>4 DEF SendDone, TInv, Constructing
    <3>3. Quiet => left
      BY <1>1, <2>4, <3>2 DEF Quiet, Held, TypeOK, Ends
    <3>4. Caused(pending)'
      BY <2>1, <3>1, <3>3 DEF Caused, Classify, Fired
    <3> QED BY <3>1, <3>4
  <2>5. CASE ReceiveViolation
    <3>1. /\ main' = "raising" /\ pending' = "protocol" /\ UNCHANGED written
          /\ frames # <<>> /\ Head(frames) # "eof" /\ Violates(Head(frames))
          /\ main \in {"receiving", "receiving_hello"}
      BY <2>5 DEF ReceiveViolation, Raise, childVars
    <3>2. step \in {1, 3, 5}
      BY <1>2, <2>1, <3>1, CallNames
    <3>3. Quiet => ~Conforms
      <4>1. Head(frames) # Expected[step]
        BY <1>1, <2>1, <3>1, <3>2, ViolationMisfits
      <4> QED BY <1>1, <2>1, <3>1, <3>2, <4>1, Misfit DEF Exchanged
    <3>4. Fired' \/ ~Conforms'
      BY <1>1, <2>1, <3>3, BlameKept
    <3>5. Caused(pending)'
      BY <3>1, <3>4 DEF Caused, Classify
    <3> QED BY <3>1, <3>5
  <2>6. CASE ReceiveEnd
    <3>1. /\ main' = "idle" /\ outcome' = "crash" /\ frames # <<>> /\ Head(frames) = "eof"
          /\ UNCHANGED <<left, timer>>
      BY <2>6 DEF ReceiveEnd, Return, closeVars, childVars
    <3>2. Quiet => left
      <4>1. 1 \in 1..Len(frames) /\ frames[1] = "eof"
        BY <1>1, <3>1 DEF TypeOK
      <4> QED BY <4>1 DEF Quiet
    <3>3. Caused(outcome)'
      BY <2>1, <3>1, <3>2 DEF Caused, Classify, Fired
    <3> QED BY <1>4, <3>1, <3>3 DEF Accepts
  <2>7. CASE ReceiveTimeout
    <3>1. main' = "idle" /\ outcome' = "deadline"
      BY <2>7 DEF ReceiveTimeout, Return
    <3>2. Caused(outcome)'
      BY <3>1 DEF Caused, Classify
    <3> QED BY <1>4, <3>1, <3>2 DEF Accepts
  <2> QED BY <1>6, <2>2, <2>3, <2>4, <2>5, <2>6, <2>7 DEF MainStep, Raised
<1> QED BY <1>5, <1>6

\* Outside a call the only step of main is the end of close().
LEMMA ExitKeeps ==
  ASSUME RInv, mode = "subprocess", round # "wait", MainStep, UNCHANGED roundVars
  PROVE  Subprocess'
<1>1. TInv /\ RoundType /\ Calling /\ Leaving /\ Ending /\ [Next]_vars
  BY DEF RInv, Subprocess, Next
<1>2. UNCHANGED <<mode, round, step, records, status>>
  BY DEF roundVars
<1>3. main \in {"sending", "receiving", "receiving_hello", "raising"}
  BY DEF MainStep, SendDone, ReceiveMessage, ReceiveViolation, ReceiveEnd, ReceiveTimeout, Raised
<1>4. round = "exiting" /\ main = "raising" /\ (closed \/ stage["main"] # "out")
  BY <1>1, <1>3 DEF RoundType, Calling, Leaving
<1>5. Raised
  BY <1>4 DEF MainStep, SendDone, ReceiveMessage, ReceiveViolation, ReceiveEnd, ReceiveTimeout
<1>6. main' = "idle" /\ closed' /\ UNCHANGED <<timer, sends, delivered, written, left>>
  BY <1>4, <1>5 DEF Raised, Return, closeVars, childVars
<1>7. Leaving' /\ Ending'
  BY <1>1, <1>2, <1>4, <1>6 DEF Leaving, Ending, Exchanged, Fired, Conforms
<1> QED BY <1>2, <1>4, <1>7 DEF Subprocess, Calling, Waiting

-----------------------------------------------------------------------------
(* Steps of the runner                                                      *)

LEMMA RunnerIsNext ==
  ASSUME RoundType, Runner
  PROVE  [Next]_vars
<1>1. CASE StartCall
  <2>1. Begin(Program[step])
    BY <1>1 DEF StartCall
  <2> QED BY <2>1, CallNames DEF RoundType, Next, Call
<1>2. CASE Exit
  BY <1>2 DEF Exit, Next, Call
<1>3. CASE EndCall \/ NoChild \/ Result \/ Handler
  BY <1>3 DEF EndCall, NoChild, Result, Handler, HandlerHello, HandlerReplied, HandlerRaises
<1> QED BY <1>1, <1>2, <1>3 DEF Runner

LEMMA StartKeeps ==
  ASSUME RInv, StartCall
  PROVE  Subprocess' /\ RoundType'
<1>1. RoundType /\ Calling /\ mode = "subprocess" /\ round = "call"
  BY DEF RInv, Subprocess, StartCall
<1>2. /\ main = "idle" /\ round' = "wait" /\ UNCHANGED <<mode, step, status>>
      /\ IF closed THEN main' = "idle" /\ outcome' = "closed" ELSE main' = Program[step]
      /\ UNCHANGED <<procVars, readVars, closeVars, killVars, sends, delivered, told, childVars>>
      /\ records' = IF Program[step] = "sending" THEN Append(records, Requests[step]) ELSE records
  BY DEF StartCall, Begin, Return
<1>3. step \in 1..5 /\ status = "none" /\ records = Recorded[step] /\ Exchanged(step) /\ (Fired \/ Quiet)
  BY <1>1 DEF RoundType, Calling
<1>4. records' = Recorded[IF Program[step] = "sending" THEN step + 1 ELSE step]
  <2>1. Program[step] = "sending" => step \in {2, 4}
    BY <1>3, CallNames
  <2> QED BY <1>2, <1>3, <2>1, SentNext
<1>5. CASE closed
  <2>1. Fired'
    BY <1>2, <1>3, <1>5 DEF Quiet, Fired, closeVars
  <2>2. ~Accepts(step, "closed")
    BY <1>3 DEF Accepts, Expected
  <2>3. Waiting'
    BY <1>2, <1>3, <1>4, <1>5, <2>1, <2>2 DEF Waiting, Caused, Accepts
  <2> QED BY <1>1, <1>2, <2>3 DEF Subprocess, Calling, Leaving, Ending, RoundType
<1>6. CASE ~closed
  <2>1. Exchanged(step)' /\ (Fired' \/ Quiet')
    BY <1>2, <1>3 DEF Exchanged, Fired, Quiet, procVars, readVars, closeVars, killVars, childVars
  <2>2. Waiting'
    BY <1>2, <1>3, <1>4, <1>6, <2>1 DEF Waiting, Exchanged
  <2> QED BY <1>1, <1>2, <2>2 DEF Subprocess, Calling, Leaving, Ending, RoundType
<1> QED BY <1>5, <1>6

LEMMA EndKeeps ==
  ASSUME RInv, mode = "subprocess", EndCall
  PROVE  Subprocess' /\ RoundType'
<1>1. RoundType /\ Waiting /\ round = "wait" /\ main = "idle" /\ step \in 1..5
  BY DEF RInv, Subprocess, EndCall, RoundType
<1>2. UNCHANGED <<vars, mode>>
  BY DEF EndCall
<1>3. /\ UNCHANGED <<main, outcome, sends, delivered>>
      /\ Fired' = Fired /\ Quiet' = Quiet /\ left' = left /\ Conforms' = Conforms
  BY <1>2 DEF vars, mainVars, procVars, pipeVars, readVars, closeVars, killVars, childVars, Fired, Quiet, Conforms
<1>4. status = "none" /\ records = Recorded[IF Program[step] = "sending" THEN step + 1 ELSE step]
  BY <1>1 DEF Waiting
<1>5. CASE Accepts(step, outcome)
  <2>1. Exchanged(step + 1) /\ (Fired \/ Quiet)
    BY <1>1, <1>5, CallNames DEF Waiting
  <2>2. records' = IF Program[step] = "sending" THEN records ELSE Append(records, outcome)
    BY <1>5 DEF EndCall
  <2>3. records' = Recorded[step + 1]
    <3>1. CASE step \in {2, 4}
      BY <1>1, <1>4, <2>2, <3>1, CallNames
    <3>2. CASE step \in {1, 3, 5}
      BY <1>1, <1>4, <1>5, <2>2, <3>2, CallNames, ReceivedNext DEF Accepts
    <3> QED BY <1>1, <3>1, <3>2
  <2>4. CASE step = 5
    <3>1. round' = "exit" /\ UNCHANGED <<step, status>>
      BY <1>5, <2>4 DEF EndCall, Program
    <3>2. records' = Recorded[6] /\ Exchanged(6)'
      BY <1>3, <2>1, <2>3, <2>4 DEF Exchanged
    <3> QED BY <1>1, <1>2, <1>3, <1>4, <3>1, <3>2 DEF Subprocess, Calling, Waiting, Leaving, Ending, RoundType
  <2>5. CASE step # 5
    <3>1. round' = "call" /\ step' = step + 1 /\ UNCHANGED status
      BY <1>5, <2>5 DEF EndCall, Program
    <3>2. step + 1 \in 1..5
      BY <1>1, <2>5
    <3>3. records' = Recorded[step'] /\ Exchanged(step)' /\ (Fired' \/ Quiet')
      BY <1>3, <2>1, <2>3, <3>1 DEF Exchanged
    <3> QED BY <1>1, <1>2, <1>3, <1>4, <3>1, <3>2, <3>3 DEF Subprocess, Calling, Waiting, Leaving, Ending, RoundType
  <2> QED BY <2>4, <2>5
<1>6. CASE ~Accepts(step, outcome)
  <2>1. Caused(outcome)
    BY <1>1, <1>6, CallNames DEF Waiting
  <2>2. round' = "exit" /\ status' = Classify(outcome) /\ UNCHANGED <<step, records>>
    BY <1>6 DEF EndCall
  <2>3. status' \in {"timeout", "crash", "error", "protocol"}
    BY <2>2 DEF Classify
  <2>4. /\ status' = "protocol" => ~Conforms' \/ Fired'
        /\ status' = "crash" => left' \/ Fired'
        /\ status' = "error" => Fired'
    BY <1>3, <2>1, <2>2 DEF Caused
  <2> QED BY <1>1, <1>2, <1>3, <2>2, <2>3, <2>4 DEF Subprocess, Calling, Waiting, Leaving, Ending, RoundType
<1> QED BY <1>5, <1>6

LEMMA NoChildKeeps ==
  ASSUME RInv, NoChild
  PROVE  Subprocess' /\ RoundType'
<1>1. /\ mode = "subprocess" /\ round = "call" /\ main = "failed" /\ round' = "over" /\ status' = "error"
      /\ UNCHANGED <<vars, mode, step, records>>
  BY DEF NoChild
<1>2. main' = "failed"
  BY <1>1 DEF vars, mainVars
<1> QED BY <1>1, <1>2 DEF RInv, RoundType, Subprocess, Calling, Waiting, Leaving, Ending

LEMMA LeaveKeeps ==
  ASSUME RInv, mode = "subprocess", Exit
  PROVE  Subprocess' /\ RoundType'
<1>1. /\ TInv /\ RoundType /\ Leaving /\ Ending /\ [Next]_vars
      /\ round = "exit" /\ round' = "exiting" /\ UNCHANGED <<mode, step, records, status>>
      /\ main = "idle" /\ main' = "raising" /\ pending' = "none" /\ EnterClose("main")
      /\ UNCHANGED <<closed, sends, delivered>>
  BY DEF RInv, Subprocess, Exit, Next, Call, Close, Raise
<1>2. closed' \/ (closing'["main"] /\ stage'["main"] # "out")
  BY <1>1 DEF EnterClose, EnterTerminate, TInv, TypeOK, Threads
<1>3. Leaving'
  BY <1>1, <1>2 DEF Leaving
<1>4. (status' = "error" => main' = "failed" \/ Fired')
  <2>1. status = "error" => Fired
    BY <1>1 DEF Ending
  <2> QED BY <1>1, <2>1, BlameKept
<1>5. Ending'
  BY <1>1, <1>4, BlameKept DEF Ending, Exchanged
<1> QED BY <1>1, <1>3, <1>5 DEF RoundType, Subprocess, Calling, Waiting

LEMMA ResultKeeps ==
  ASSUME RInv, mode = "subprocess", Result
  PROVE  Subprocess' /\ RoundType'
<1>1. /\ RoundType /\ Leaving /\ Ending
      /\ round = "exiting" /\ main = "idle" /\ round' = "over"
      /\ status' = IF status = "none" THEN "ok" ELSE status
      /\ UNCHANGED <<vars, mode, step, records>>
  BY DEF RInv, Subprocess, Result
<1>2. /\ UNCHANGED <<main, closed, sends, delivered>>
      /\ Fired' = Fired /\ left' = left /\ Conforms' = Conforms
  BY <1>1 DEF vars, mainVars, closeVars, childVars, Fired, Conforms
<1>3. Leaving'
  BY <1>1, <1>2 DEF Leaving
<1>4. Ending'
  BY <1>1, <1>2 DEF Ending, Exchanged
<1> QED BY <1>1, <1>3, <1>4 DEF RoundType, Subprocess, Calling, Waiting

\* A round over a handler.
LEMMA HandlerKeeps ==
  ASSUME RInv, mode = "in_process", Handler
  PROVE  InProcess' /\ RoundType'
<1>1. RoundType /\ InProcess /\ round = "call" /\ step \in 1..3 /\ status = "none" /\ mode' = mode
  BY DEF RInv, InProcess, Handler, HandlerHello, HandlerReplied, HandlerRaises
<1>2. CASE HandlerHello
  BY <1>1, <1>2 DEF HandlerHello, RoundType, InProcess, Recorded
<1>3. ASSUME NEW r \in HandlerReplies, HandlerReplied(r) PROVE InProcess' /\ RoundType'
  <2>1. CASE r # <<Replies[step]>>
    BY <1>1, <1>3, <2>1 DEF HandlerReplied, RoundType, InProcess
  <2>2. CASE r = <<Replies[step]>>
    <3>1. CASE step = 2
      <4>1. records' = Recorded[4]
        <5>1. records = Recorded[2] /\ Requests[2 * step - 2] = Requests[2] /\ Replies[step] = Expected[3]
          BY <1>1, <3>1 DEF InProcess, Recorded, Replies, Expected
        <5>2. records' = Append(Append(records, Requests[2]), Expected[3])
          BY <1>3, <2>2, <5>1 DEF HandlerReplied
        <5>3. Append(Recorded[2], Requests[2]) = Recorded[3]
          BY SentNext
        <5>4. Append(Recorded[3], Expected[3]) = Recorded[4]
          BY ReceivedNext
        <5> QED BY <5>1, <5>2, <5>3, <5>4
      <4> QED BY <1>1, <1>3, <2>2, <3>1, <4>1 DEF HandlerReplied, RoundType, InProcess
    <3>2. CASE step = 3
      <4>1. records' = Recorded[6]
        <5>1. records = Recorded[4] /\ Requests[2 * step - 2] = Requests[4] /\ Replies[step] = Expected[5]
          BY <1>1, <3>2 DEF InProcess, Recorded, Replies, Expected
        <5>2. records' = Append(Append(records, Requests[4]), Expected[5])
          BY <1>3, <2>2, <5>1 DEF HandlerReplied
        <5>3. Append(Recorded[4], Requests[4]) = Recorded[5]
          BY SentNext
        <5>4. Append(Recorded[5], Expected[5]) = Recorded[6]
          BY ReceivedNext
        <5> QED BY <5>1, <5>2, <5>3, <5>4
      <4> QED BY <1>1, <1>3, <2>2, <3>2, <4>1 DEF HandlerReplied, RoundType, InProcess
    <3> QED BY <1>3, <3>1, <3>2 DEF HandlerReplied
  <2> QED BY <2>1, <2>2
<1>4. CASE HandlerRaises
  BY <1>1, <1>4 DEF HandlerRaises, RoundType, InProcess
<1> QED BY <1>2, <1>3, <1>4 DEF Handler

-----------------------------------------------------------------------------
(* The theorems                                                             *)

LEMMA RoundFirst == RoundInit => RInv
<1> SUFFICES ASSUME RoundInit PROVE RInv
  OBVIOUS
<1>1. Init /\ mode \in {"subprocess", "in_process"} /\ round = "call" /\ step = 1 /\ records = <<>> /\ status = "none"
  BY DEF RoundInit
<1>2. TInv
  BY <1>1, TransportInit
<1>3. RoundType /\ InProcess
  BY <1>1 DEF RoundType, InProcess, Recorded
<1>4. Quiet
  BY <1>1 DEF Init, Quiet
<1>5. Calling
  BY <1>1, <1>4 DEF Init, Calling, Recorded, Exchanged, Received, Sent
<1>6. Waiting /\ Leaving /\ Ending
  BY <1>1 DEF Waiting, Leaving, Ending
<1> QED BY <1>2, <1>3, <1>5, <1>6 DEF RInv, Subprocess

LEMMA RoundStep == RInv /\ [RoundNext]_<<vars, roundVars>> => RInv'
<1> SUFFICES ASSUME RInv, [RoundNext]_<<vars, roundVars>> PROVE RInv'
  OBVIOUS
<1>1. TInv /\ RoundType /\ mode \in {"subprocess", "in_process"}
  BY DEF RInv, RoundType
<1>2. [Next]_vars
  BY <1>1, RunnerIsNext DEF RoundNext, Next
<1>3. TInv'
  BY <1>1, <1>2, TransportStep
<1>4. CASE Runner
  <2>1. UNCHANGED mode
    BY <1>4 DEF Runner, StartCall, EndCall, NoChild, Exit, Result, Handler, HandlerHello, HandlerReplied, HandlerRaises
  <2>2. CASE mode = "subprocess"
    <3>1. ~Handler
      BY <2>2 DEF Handler, HandlerHello, HandlerReplied, HandlerRaises
    <3>2. Subprocess' /\ RoundType'
      BY <1>4, <2>2, <3>1, StartKeeps, EndKeeps, NoChildKeeps, LeaveKeeps, ResultKeeps DEF Runner
    <3> QED BY <1>3, <2>1, <2>2, <3>2 DEF RInv
  <2>3. CASE mode = "in_process"
    <3>1. Handler
      BY <1>4, <2>3 DEF RInv, InProcess, Runner, StartCall, EndCall, NoChild, Exit, Result
    <3>2. InProcess' /\ RoundType'
      BY <2>3, <3>1, HandlerKeeps
    <3> QED BY <1>3, <2>1, <2>3, <3>2 DEF RInv
  <2> QED BY <1>1, <2>2, <2>3
<1>5. CASE mode = "subprocess" /\ (Construct \/ MainStep \/ Background) /\ UNCHANGED roundVars
  <2>1. mode' = "subprocess" /\ RoundType'
    BY <1>1, <1>5 DEF roundVars, RoundType
  <2>2. Subprocess'
    BY <1>5, ConstructKeeps, WaitKeeps, ExitKeeps, BackgroundKeeps
  <2> QED BY <1>3, <2>1, <2>2 DEF RInv
<1>6. CASE UNCHANGED <<vars, roundVars>>
  <2>1. UNCHANGED vars /\ UNCHANGED <<mode, round, step, records, status>>
    BY <1>6 DEF roundVars
  <2>2. /\ UNCHANGED <<main, outcome, pending, closed, stage, closing, sends, delivered>>
        /\ Fired' = Fired /\ Quiet' = Quiet /\ left' = left /\ Conforms' = Conforms
    BY <2>1 DEF vars, mainVars, procVars, readVars, closeVars, killVars, childVars, Fired, Quiet, Conforms
  <2>3. RoundType' = RoundType /\ InProcess' = InProcess
    BY <2>1 DEF RoundType, InProcess
  <2>4. Calling' = Calling /\ Waiting' = Waiting /\ Leaving' = Leaving /\ Ending' = Ending
    BY <2>1, <2>2 DEF Calling, Waiting, Leaving, Ending, Exchanged, Accepts, Caused
  <2> QED BY <1>3, <2>1, <2>3, <2>4 DEF RInv, Subprocess
<1> QED BY <1>4, <1>5, <1>6 DEF RoundNext

\* The inductive invariant holds throughout a round, whichever function runs it and
\* whatever the child, its helper, the reader and the watchdog do meanwhile.
THEOREM RoundInductive == RoundSpec => []RInv
<1>1. RoundInit => RInv
  BY RoundFirst
<1>2. RInv /\ [RoundNext]_<<vars, roundVars>> => RInv'
  BY RoundStep
<1> QED BY <1>1, <1>2, PTL DEF RoundSpec

\* However a round ends, its child is dead and collected and the directory is gone.
THEOREM RoundsRelease == RoundSpec => []RoundReleases
<1>1. RInv => RoundReleases
  <2> SUFFICES ASSUME RInv, round = "over", mode = "subprocess"
               PROVE  ~temp /\ (child = "none" \/ (closed /\ child = "reaped"))
    BY DEF RoundReleases
  <2>1. main = "failed" \/ closed
    BY DEF RInv, Subprocess, Leaving
  <2>2. Released
    BY DEF RInv, TInv, Closing
  <2> QED BY <2>1, <2>2 DEF Released
<1> QED BY <1>1, RoundInductive, PTL

\* A round is ok only when the whole exchange took place, and its transcript tells it.
THEOREM OkMeansWholeExchange == RoundSpec => []OkMeansExchange
<1>1. RInv => OkMeansExchange
  <2> SUFFICES ASSUME RInv, status = "ok" PROVE OkMeansExchange
    BY DEF OkMeansExchange
  <2>1. CASE mode = "in_process"
    BY <2>1 DEF RInv, InProcess, OkMeansExchange, Recorded
  <2>2. CASE mode = "subprocess"
    <3>1. round = "over"
      BY <2>2 DEF RInv, Subprocess, RoundType, Calling, Waiting, Leaving
    <3>2. records = Recorded[6] /\ delivered = Received[6] /\ sends = Sent[6]
      BY <2>2, <3>1 DEF RInv, Subprocess, Ending, Exchanged
    <3> QED BY <3>2 DEF OkMeansExchange, Recorded, Received, Sent, Replies
  <2> QED BY <2>1, <2>2 DEF RInv, RoundType
<1> QED BY <1>1, RoundInductive, PTL

\* A failed round blames the child only for what the child did.
THEOREM BlameHasCause == RoundSpec => []StatusHasCause
<1>1. RInv => StatusHasCause
  <2> SUFFICES ASSUME RInv, mode = "subprocess" PROVE StatusHasCause
    BY DEF StatusHasCause
  <2>1. status \in {"protocol", "crash", "error"} => round \in {"exit", "exiting", "over"}
    BY DEF RInv, Subprocess, RoundType, Calling, Waiting
  <2> QED BY <2>1 DEF RInv, Subprocess, Ending, StatusHasCause, Fired
<1> QED BY <1>1, RoundInductive, PTL
=============================================================================
