---------------------------- MODULE AgentSession ----------------------------
(***************************************************************************)
(* A conformance session over bytes: run_subprocess_transcript() plays a   *)
(* scenario to serve_stdio(ConformanceAgent()), each with a FrameDecoder   *)
(* of its own.  The pipes deliver bytes in chunks of any size; the parent  *)
(* may die between any two bytes.  AgentTransport has the timeouts,        *)
(* signals and crashes that are left out here.                             *)
(***************************************************************************)
EXTENDS FrameCodec

CONSTANTS
  Payload,      \* message to its encoded bytes
  Scenarios     \* what the parent may send: sequences of <<message, reply count>>

VARIABLES
  scenario, step, owed, main, \* the parent's loop over the scenario: replies of this step
                             \* that recv() still owes
  unwritten, frames, buffer, \* a message being written; decoded for recv(); its decoder
  transcript,                \* the records
  stdin, stdout, alive,      \* the pipes, and whether the parent lives (external)
  serving, child_buffer,     \* serve_stdio: serving or its exit code; its decoder
  handled, fed               \* history: messages handled; bytes written to stdin

parentVars == <<scenario, step, owed, main, unwritten, frames, buffer, transcript>>
childVars == <<serving, child_buffer, handled>>
vars == <<parentVars, childVars, stdin, stdout, alive, fed>>

Messages == DOMAIN Payload
Garbage == "garbage"       \* a payload that does not parse

\* encode_agent_message and parse_agent_message
Encoded(message) == encode_frame(Payload[message])
Parse(payload) == CHOOSE m \in Messages : Payload[m] = payload
Wire(messages) == FlattenSeq([n \in DOMAIN messages |-> Encoded(messages[n])])

-----------------------------------------------------------------------------
(* ConformanceAgent, record_transcript and replay_transcript               *)

\* handle(): the replies to a message.
Handle(message) ==
  CASE message = "episode_start" -> <<"ready">>
    [] message = "decide" -> <<"decision">>
    [] message = "decide_fail" -> <<"error_fail">>
    [] message \in {"episode_end", "error_fail", "error_unexpected"} -> <<>>
    [] OTHER -> <<"error_unexpected">>

\* Messages have encodings of their own that fit the header; the scenarios expect the
\* replies that the agent gives (canonical_scenario).
ASSUME SessionAssumption ==
  /\ Payload \in [Messages -> Seq(Byte)] /\ \A m \in Messages : Packable(Payload[m])
  /\ \A m1, m2 \in Messages : Payload[m1] = Payload[m2] => m1 = m2
  /\ {"hello", "ready", "decision", "error_fail", "error_unexpected"} \subseteq Messages
  /\ Scenarios \subseteq Seq(Messages \X Nat)
  /\ \A s \in Scenarios : \A k \in DOMAIN s : s[k][2] = Len(Handle(s[k][1]))

Record(direction, message) == [direction |-> direction, message |-> message]
Outs(messages) == [n \in DOMAIN messages |-> Record("out", messages[n])]
Exchange(record) == <<record>> \o Outs(Handle(record.message))

InMemory(messages) ==
  Outs(<<"hello">>) \o
    FlattenSeq([n \in DOMAIN messages |-> Exchange(Record("in", messages[n]))])

\* replay_transcript, not strict: the inputs of the records played again.
Replay(records) ==
  (IF records # <<>> /\ records[1].direction = "out" THEN Outs(<<"hello">>) ELSE <<>>) \o
    FlattenSeq([n \in DOMAIN records |->
                  IF records[n].direction = "in" THEN Exchange(records[n]) ELSE <<>>])

-----------------------------------------------------------------------------
Init ==
  /\ scenario \in Scenarios /\ step = 0 /\ owed = 1 /\ main = "recv"
  /\ unwritten = <<>> /\ frames = <<>> /\ buffer = <<>> /\ transcript = <<>>
  /\ stdin = <<>> /\ stdout = <<>> /\ alive = TRUE
  /\ serving = "start" /\ child_buffer = <<>>
  /\ handled = <<>> /\ fed = <<>>

-----------------------------------------------------------------------------
(* The parent                                                              *)

BugAnswered == owed <= 1
Answered == owed = 0

NextMessage ==
  /\ alive /\ main = "recv" /\ Answered
  /\ IF step = Len(scenario)
       THEN main' = "done" /\ UNCHANGED <<step, owed, unwritten, transcript>>
       ELSE LET message == scenario[step + 1][1] IN
            /\ main' = "send" /\ step' = step + 1 /\ owed' = scenario[step + 1][2]
            /\ transcript' = Append(transcript, Record("in", message))
            /\ unwritten' = Encoded(message)
  /\ UNCHANGED <<scenario, frames, buffer, childVars, stdin, stdout, alive, fed>>

Write(n) ==
  /\ alive /\ main = "send" /\ n \in 1..Len(unwritten) /\ serving \in {"start", "serving"}
  /\ stdin' = stdin \o SubSeq(unwritten, 1, n)
  /\ fed' = fed \o SubSeq(unwritten, 1, n)
  /\ unwritten' = SubSeq(unwritten, n + 1, Len(unwritten))
  /\ main' = IF n = Len(unwritten) THEN "recv" ELSE "send"
  /\ UNCHANGED <<scenario, step, owed, frames, buffer, transcript, childVars, stdout, alive>>

Recv ==
  /\ alive /\ main = "recv" /\ ~Answered /\ frames # <<>>
  /\ frames' = Tail(frames) /\ owed' = owed - 1
  /\ transcript' = Append(transcript, Record("out", Head(frames)))
  /\ UNCHANGED <<scenario, step, main, unwritten, buffer, childVars, stdin, stdout, alive, fed>>

BugFail ==
  /\ alive /\ serving \notin {"start", "serving"} /\ main = "send"
  /\ main' = "failed"
  /\ UNCHANGED <<scenario, step, owed, unwritten, frames, buffer, transcript, childVars, stdin,
                 stdout, alive, fed>>

\* A child that is gone fails send(), and recv() once everything it wrote was taken.
Fail ==
  /\ alive /\ serving \notin {"start", "serving"}
  /\ \/ main = "send"
     \/ main = "recv" /\ ~Answered /\ frames = <<>> /\ stdout = <<>> /\ ~HasFrame(buffer)
  /\ main' = "failed"
  /\ UNCHANGED <<scenario, step, owed, unwritten, frames, buffer, transcript, childVars, stdin,
                 stdout, alive, fed>>

\* _read_loop: a chunk, and each frame it completes.
ReadChunk(n) ==
  /\ alive /\ ~HasFrame(buffer) /\ n \in 1..Len(stdout)
  /\ buffer' = buffer \o SubSeq(stdout, 1, n)
  /\ stdout' = SubSeq(stdout, n + 1, Len(stdout))
  /\ UNCHANGED <<scenario, step, owed, main, unwritten, frames, transcript, childVars, stdin, alive, fed>>

ReadFrame ==
  /\ alive /\ HasFrame(buffer)
  /\ frames' = Append(frames, Parse(Frame(buffer)))
  /\ buffer' = Rest(buffer)
  /\ UNCHANGED <<scenario, step, owed, main, unwritten, transcript, childVars, stdin, stdout, alive, fed>>

\* The parent dies, perhaps within a frame it writes: its ends of the pipes are closed.
Die ==
  /\ alive /\ alive' = FALSE
  /\ UNCHANGED <<parentVars, childVars, stdin, stdout, fed>>

-----------------------------------------------------------------------------
(* serve_stdio                                                             *)

Exit(code) == serving' = code

\* A reply nobody can read is a BrokenPipeError.
Reply(messages) ==
  IF alive \/ messages = <<>>
    THEN /\ stdout' = stdout \o Wire(messages)
         /\ serving' = "serving"
    ELSE Exit("3") /\ UNCHANGED stdout

Hello ==
  /\ serving = "start"
  /\ Reply(<<"hello">>)
  /\ UNCHANGED <<parentVars, stdin, alive, child_buffer, handled, fed>>

ChildReads(n) ==
  /\ serving = "serving" /\ ~HasFrame(child_buffer) /\ ~TooLarge(child_buffer)
  /\ n \in 1..Len(stdin)
  /\ child_buffer' = child_buffer \o SubSeq(stdin, 1, n)
  /\ stdin' = SubSeq(stdin, n + 1, Len(stdin))
  /\ UNCHANGED <<parentVars, serving, handled, stdout, alive, fed>>

HandleFrame ==
  /\ serving = "serving" /\ HasFrame(child_buffer)
  /\ child_buffer' = Rest(child_buffer)
  /\ LET message == Parse(Frame(child_buffer)) IN
       /\ handled' = Append(handled, message)
       /\ IF message = Garbage THEN Exit("2") /\ UNCHANGED stdout
                               ELSE Reply(Handle(message))
  /\ UNCHANGED <<parentVars, stdin, alive, fed>>

FrameTooLarge ==
  /\ serving = "serving" /\ TooLarge(child_buffer)
  /\ Exit("2")
  /\ UNCHANGED <<parentVars, child_buffer, handled, stdin, stdout, alive, fed>>

BugEndOfInput ==
  /\ serving = "serving" /\ ~HasFrame(child_buffer) /\ ~TooLarge(child_buffer)
  /\ stdin = <<>> /\ ~alive /\ child_buffer = <<>>
  /\ Exit("0")
  /\ UNCHANGED <<parentVars, child_buffer, handled, stdin, stdout, alive, fed>>

EndOfInput ==
  /\ serving = "serving" /\ ~HasFrame(child_buffer) /\ ~TooLarge(child_buffer)
  /\ stdin = <<>> /\ ~alive
  /\ Exit(IF Truncated(child_buffer) THEN "2" ELSE "0")
  /\ UNCHANGED <<parentVars, child_buffer, handled, stdin, stdout, alive, fed>>

-----------------------------------------------------------------------------
Chunks == 1..(2 * (HeaderSize + MaxFrameSize))
ParentStep ==
  NextMessage \/ Recv \/ Fail \/ ReadFrame \/ \E n \in Chunks : Write(n) \/ ReadChunk(n)
ChildStep ==
  Hello \/ HandleFrame \/ FrameTooLarge \/ EndOfInput \/ \E n \in Chunks : ChildReads(n)

Next == ParentStep \/ ChildStep \/ Die

Spec == Init /\ [][Next]_vars

\* Both processes are scheduled.
FairSpec == Spec /\ WF_vars(ParentStep) /\ WF_vars(ChildStep)

-----------------------------------------------------------------------------
(* Properties                                                              *)

TypeOK ==
  /\ scenario \in Scenarios /\ step \in 0..Len(scenario) /\ owed \in Nat
  /\ main \in {"recv", "send", "done", "failed"} /\ alive \in BOOLEAN
  /\ serving \in {"start", "serving", "0", "2", "3"}
  /\ {unwritten, buffer, child_buffer, stdin, stdout, fed} \subseteq Seq(Byte)
  /\ frames \in Seq(Messages) /\ handled \in Seq(Messages)
  /\ transcript \in Seq([direction: {"in", "out"}, message: Messages])

\* The transcript over the pipes is that of the same scenario in memory, at every moment
\* a prefix of it, and once complete it replays to itself (record_transcript,
\* run_subprocess_transcript, replay_transcript).
SameAsInMemory ==
  LET whole == InMemory([n \in DOMAIN scenario |-> scenario[n][1]])
  IN /\ IsPrefix(transcript, whole)
     /\ main = "done" => transcript = whole /\ Replay(transcript) = transcript

\* serve_stdio returns 0 only at the end of its input and with all of it handled, and a
\* protocol error is never the parent's doing unless it died within a frame or sent what
\* does not parse or is too long.
Faulty(message) == message = Garbage \/ Len(Payload[message]) > MaxFrameSize
ExitCodes ==
  /\ serving = "0" => ~alive /\ fed = Wire(handled)
  /\ serving = "2" =>
       \/ \E k \in DOMAIN scenario : Faulty(scenario[k][1])
       \/ ~alive /\ unwritten # <<>>
  /\ serving = "3" => ~alive

\* The parent gets through its scenario or fails; it does not wait for ever.
SessionEnds == <>(main \in {"done", "failed"} \/ ~alive)

\* A child whose parent died ends, whatever it was doing.
ChildEnds == ~alive ~> serving \notin {"start", "serving"}
=============================================================================
