--------------------------- MODULE AgentTransport ---------------------------
(***************************************************************************)
(* SubprocessAgentTransport: the parent's side of an agent that runs as a  *)
(* child process.  Three threads of the parent take part: main, which      *)
(* calls send(), recv(), recv_hello() and close(); the reader of stdout;   *)
(* and the watchdog timer, which calls close() at deadline_ms.  The stderr *)
(* reader changes nothing the properties see.                              *)
(*                                                                         *)
(* The child is external: any program that writes frames, reads its input  *)
(* or not, may close its ends of the pipes, may start a helper process in  *)
(* its group that inherits them, and dies or ignores SIGTERM.  Signals are *)
(* those of POSIX.                                                         *)
(***************************************************************************)
EXTENDS Integers, Sequences

CONSTANTS
  Kinds,        \* kinds of frames the child may write, see AllKinds
  Forks,        \* the child may start a helper
  Closes,       \* the child may close its ends of the pipes and live on
  Deadline,     \* the caller may give deadline_ms
  PipeSize,     \* messages the stdin pipe holds before a write blocks
  MaxFrames,    \* bound: frames the child writes
  MaxCalls      \* bound: calls of main

\* junk does not parse, huge exceeds max_frame_size, old_hello has another version, and
\* part is the beginning of a frame that is never completed.
AllKinds == {"hello", "old_hello", "ready", "decision", "junk", "huge", "part"}

ASSUME TransportAssumption ==
  /\ Kinds \subseteq AllKinds
  /\ Forks \in BOOLEAN /\ Closes \in BOOLEAN /\ Deadline \in BOOLEAN
  /\ PipeSize \in Nat /\ MaxFrames \in Nat /\ MaxCalls \in Nat

VARIABLES
  child, helper,                    \* the processes (external)
  ends,                             \* the ends of stdin and stdout the child has not closed
  stdin, wire,                      \* what is in the pipes (external)
  reader, frames,                   \* _read_loop, and _frames: what it has put for recv()
  closed, temp, timer,              \* _closed, whether the temporary directory exists, _watchdog
  stage, closing,                   \* per thread: progress in _terminate, and whether in close()
  main, outcome, pending,           \* the call main is in, its result, the exception to raise
  calls, sends, delivered, told,    \* history of main; told: recv() reported the end
  written, left                     \* history of the child; left: it went without a signal

procVars == <<child, helper, ends>>
pipeVars == <<stdin, wire>>
readVars == <<reader, frames>>
closeVars == <<closed, temp, timer>>
killVars == <<stage, closing>>
mainVars == <<main, outcome, pending, calls, sends, delivered, told>>
childVars == <<written, left>>
vars == <<procVars, pipeVars, readVars, closeVars, killVars, mainVars, childVars>>

Threads == {"main", "watchdog"}
Ends == {"in", "out"}

\* Somebody holds the far end e of a pipe: the child, or the helper that inherited it.
Held(e) == e \in ends /\ (child = "running" \/ helper = "running")

-----------------------------------------------------------------------------
(* The constructor                                                         *)

\* mkdtemp() has made the temporary directory.
Init ==
  /\ child = "none" /\ helper = "none" /\ ends = Ends
  /\ stdin = 0 /\ wire = <<>>
  /\ reader = "none" /\ frames = <<>>
  /\ closed = FALSE /\ temp = TRUE /\ timer = "none"
  /\ stage = [t \in Threads |-> "out"] /\ closing = [t \in Threads |-> FALSE]
  /\ main = "spawning" /\ outcome = "none" /\ pending = "none"
  /\ calls = 0 /\ sends = 0 /\ delivered = <<>> /\ told = FALSE
  /\ written = <<>> /\ left = FALSE

\* Popen succeeds, and the threads are started.
Spawned ==
  /\ main = "spawning" /\ main' = "idle"
  /\ child' = "running" /\ reader' = "reading"
  /\ timer' \in IF Deadline THEN {"none", "armed"} ELSE {"none"}
  /\ UNCHANGED <<helper, ends, pipeVars, frames, closed, temp, killVars, outcome, pending,
                 calls, sends, delivered, told, childVars>>

\* Popen raises: there is no child, and no object to close.
BugSpawnFails ==
  /\ main = "spawning" /\ main' = "failed"
  /\ UNCHANGED <<procVars, pipeVars, readVars, closeVars, killVars, outcome, pending,
                 calls, sends, delivered, told, childVars>>

SpawnFails ==
  /\ main = "spawning" /\ main' = "failed"
  /\ temp' = FALSE
  /\ UNCHANGED <<procVars, pipeVars, readVars, closed, timer, killVars, outcome, pending,
                 calls, sends, delivered, told, childVars>>

Construct == Spawned \/ SpawnFails

-----------------------------------------------------------------------------
(* _terminate() and close()                                                *)

\* What close() and the error path of send() begin with.
EnterTerminate(t, isClose) ==
  /\ stage' = [stage EXCEPT ![t] = "poll"]
  /\ closing' = [closing EXCEPT ![t] = isClose]

EnterClose(t) ==
  IF closed THEN UNCHANGED <<killVars, timer>>
  ELSE /\ EnterTerminate(t, TRUE)
       /\ timer' = IF timer = "armed" THEN "cancelled" ELSE timer

Reaped == IF child = "zombie" THEN "reaped" ELSE child   \* poll() or wait()
After(t) == IF closing[t] THEN "join" ELSE "out"
Move(t, s) == stage' = [stage EXCEPT ![t] = s]

Poll(t) ==
  /\ stage[t] = "poll"
  /\ Move(t, IF child = "running" THEN "term" ELSE After(t))
  /\ child' = Reaped
  /\ UNCHANGED <<helper, ends, pipeVars, readVars, closeVars, closing, mainVars, childVars>>

\* getpgid() fails for a child that was reaped, and the group gets no signal.
Signal(deaths) ==
  IF child = "reaped" THEN UNCHANGED procVars
  ELSE /\ child' = IF "child" \in deaths /\ child = "running" THEN "zombie" ELSE child
       /\ helper' = IF "helper" \in deaths /\ helper = "running" THEN "dead" ELSE helper
       /\ UNCHANGED ends

Term(t) ==
  /\ stage[t] = "term" /\ Move(t, "wait")
  /\ \E deaths \in SUBSET {"child", "helper"} : Signal(deaths)
  /\ UNCHANGED <<pipeVars, readVars, closeVars, closing, mainVars, childVars>>

\* wait(timeout=5) returns when the child is dead, or gives up.
WaitTerm(t) ==
  /\ stage[t] = "wait" /\ Move(t, "kill")
  /\ child' = Reaped
  /\ UNCHANGED <<helper, ends, pipeVars, readVars, closeVars, closing, mainVars, childVars>>

Kill(t) ==
  /\ stage[t] = "kill" /\ Move(t, "wait2")
  /\ Signal({"child", "helper"})
  /\ UNCHANGED <<pipeVars, readVars, closeVars, closing, mainVars, childVars>>

WaitKill(t) ==
  /\ stage[t] = "wait2" /\ Move(t, After(t))
  /\ child' = Reaped
  /\ UNCHANGED <<helper, ends, pipeVars, readVars, closeVars, closing, mainVars, childVars>>

\* Both joins have returned, or timed out on a pipe that a helper keeps open.
RemoveTemp(t) ==
  /\ stage[t] = "join" /\ Move(t, "set")
  /\ temp' = FALSE
  /\ UNCHANGED <<procVars, pipeVars, readVars, closed, timer, closing, mainVars, childVars>>

SetClosed(t) ==
  /\ stage[t] = "set" /\ Move(t, "out")
  /\ closed' = TRUE
  /\ UNCHANGED <<procVars, pipeVars, readVars, temp, timer, closing, mainVars, childVars>>

Closer(t) ==
  Poll(t) \/ Term(t) \/ WaitTerm(t) \/ Kill(t) \/ WaitKill(t) \/ RemoveTemp(t) \/ SetClosed(t)

\* The timer runs out: its thread calls close().
BugDeadlineFires ==
  /\ timer = "armed" /\ timer' = "fired"
  /\ IF closed THEN EnterTerminate("watchdog", TRUE) ELSE UNCHANGED killVars
  /\ UNCHANGED <<procVars, pipeVars, readVars, closed, temp, mainVars, childVars>>

DeadlineFires ==
  /\ timer = "armed" /\ timer' = "fired"
  /\ IF closed THEN UNCHANGED killVars ELSE EnterTerminate("watchdog", TRUE)
  /\ UNCHANGED <<procVars, pipeVars, readVars, closed, temp, mainVars, childVars>>

-----------------------------------------------------------------------------
(* main: a call begins                                                     *)

Return(result) == main' = "idle" /\ outcome' = result

\* _ensure_open, then the call; a closed transport raises SubprocessTransportError.
Begin(call) ==
  /\ main = "idle" /\ calls < MaxCalls
  /\ calls' = calls + 1
  /\ IF closed THEN Return("closed") ELSE main' = call /\ UNCHANGED outcome
  /\ UNCHANGED <<procVars, pipeVars, readVars, closeVars, killVars, pending, sends,
                 delivered, told, childVars>>

\* An exception is raised once close() or _terminate() has returned.
Raise(result) ==
  /\ main' = "raising" /\ pending' = result
  /\ UNCHANGED outcome

\* close() as a call of its own, or from __exit__.
Close ==
  /\ main = "idle" /\ calls < MaxCalls
  /\ calls' = calls + 1
  /\ EnterClose("main")
  /\ Raise("none")
  /\ UNCHANGED <<procVars, pipeVars, readVars, closed, temp, sends, delivered, told, childVars>>

Raised ==
  /\ main = "raising" /\ stage["main"] = "out"
  /\ Return(pending)
  /\ UNCHANGED <<procVars, pipeVars, readVars, closeVars, killVars, pending, calls, sends,
                 delivered, told, childVars>>

\* stdin.write(), which blocks while the pipe is full; EPIPE when nobody can read it.
SendDone ==
  /\ main = "sending"
  /\ \/ /\ Held("in") /\ stdin < PipeSize
        /\ stdin' = stdin + 1 /\ sends' = sends + 1
        /\ Return("sent")
        /\ UNCHANGED <<killVars, pending>>
     \/ /\ ~Held("in")
        /\ EnterTerminate("main", FALSE)
        /\ Raise("crash")
        /\ UNCHANGED <<stdin, sends>>
  /\ UNCHANGED <<procVars, wire, readVars, closeVars, calls, delivered, told, childVars>>

\* What recv() and recv_hello() do with an item of _frames.
Violates(item) ==
  \/ item \in {"violation", "junk", "old_hello"}
  \/ main = "receiving_hello" /\ item # "hello"

ReceiveMessage ==
  /\ main \in {"receiving", "receiving_hello"} /\ frames # <<>>
  /\ Head(frames) # "eof" /\ ~Violates(Head(frames))
  /\ frames' = Tail(frames)
  /\ delivered' = Append(delivered, Head(frames))
  /\ Return(Head(frames))
  /\ UNCHANGED <<procVars, pipeVars, reader, closeVars, killVars, pending, calls, sends, told, childVars>>

BugReceiveViolation ==
  /\ main \in {"receiving", "receiving_hello"} /\ frames # <<>>
  /\ Head(frames) # "eof" /\ Violates(Head(frames))
  /\ frames' = Tail(frames) /\ told' = TRUE
  /\ Return("protocol")
  /\ UNCHANGED <<procVars, pipeVars, reader, closeVars, killVars, pending, calls, sends,
                 delivered, childVars>>

ReceiveViolation ==
  /\ main \in {"receiving", "receiving_hello"} /\ frames # <<>>
  /\ Head(frames) # "eof" /\ Violates(Head(frames))
  /\ frames' = Tail(frames) /\ told' = TRUE
  /\ EnterClose("main")
  /\ Raise("protocol")
  /\ UNCHANGED <<procVars, pipeVars, reader, closed, temp, calls, sends, delivered, childVars>>

\* _raise_crash: the end of stdout was found; the exit code is collected, if the child has
\* one within two seconds.
ReceiveEnd ==
  /\ main \in {"receiving", "receiving_hello"} /\ frames # <<>> /\ Head(frames) = "eof"
  /\ frames' = Tail(frames) /\ told' = TRUE
  /\ child' = Reaped
  /\ Return("crash")
  /\ UNCHANGED <<helper, ends, pipeVars, reader, closeVars, killVars, pending, calls,
                 sends, delivered, childVars>>

BugReceiveTimeout ==
  /\ main \in {"receiving", "receiving_hello"} /\ frames = <<>> /\ ~Held("out")
  /\ Return("deadline")
  /\ UNCHANGED <<procVars, pipeVars, readVars, closeVars, killVars, pending, calls, sends,
                 delivered, told, childVars>>

ReceiveTimeout ==
  /\ main \in {"receiving", "receiving_hello"} /\ frames = <<>>
  /\ Return("deadline")
  /\ UNCHANGED <<procVars, pipeVars, readVars, closeVars, killVars, pending, calls, sends,
                 delivered, told, childVars>>

MainStep ==
  \/ SendDone \/ ReceiveMessage \/ ReceiveViolation \/ ReceiveEnd \/ ReceiveTimeout \/ Raised

-----------------------------------------------------------------------------
(* _read_loop with its FrameDecoder                                        *)

\* A frame that is too long poisons the decoder: its error is the last thing put.  Of a
\* frame that is not complete nothing is put.
BugReadFrame ==
  /\ reader = "reading" /\ wire # <<>>
  /\ wire' = Tail(wire)
  /\ frames' = IF Head(wire) \in {"huge", "part"} THEN frames ELSE Append(frames, Head(wire))
  /\ UNCHANGED <<procVars, stdin, reader, closeVars, killVars, mainVars, childVars>>

ReadFrame ==
  /\ reader = "reading" /\ wire # <<>>
  /\ wire' = Tail(wire)
  /\ CASE Head(wire) = "huge" -> reader' = "done" /\ frames' = Append(frames, "violation")
       [] Head(wire) = "part" -> UNCHANGED readVars
       [] OTHER -> frames' = Append(frames, Head(wire)) /\ UNCHANGED reader
  /\ UNCHANGED <<procVars, stdin, closeVars, killVars, mainVars, childVars>>

\* The child is in the middle of a frame, and so will its output end.
InFrame == \E k \in DOMAIN written : written[k] = "part"

BugReadEnd ==
  /\ reader = "reading" /\ (closed \/ (wire = <<>> /\ ~Held("out")))
  /\ reader' = "done"
  /\ UNCHANGED <<procVars, pipeVars, frames, closeVars, killVars, mainVars, childVars>>

\* End of file, or _closed was set, between any two chunks: finish(), which raises within a
\* frame, or the None that stands for the end.
ReadEnd ==
  /\ reader = "reading" /\ (closed \/ (wire = <<>> /\ ~Held("out")))
  /\ reader' = "done"
  /\ \E item \in IF closed THEN {"eof", "violation"}
                 ELSE IF InFrame THEN {"violation"} ELSE {"eof"} :
       frames' = Append(frames, item)
  /\ UNCHANGED <<procVars, pipeVars, closeVars, killVars, mainVars, childVars>>

-----------------------------------------------------------------------------
(* The child and its helper (external)                                     *)

ChildWrites(kind) ==
  /\ child = "running" /\ "out" \in ends /\ Len(written) < MaxFrames
  /\ ~InFrame
  /\ wire' = Append(wire, kind)
  /\ written' = Append(written, kind)
  /\ UNCHANGED <<procVars, stdin, readVars, closeVars, killVars, mainVars, left>>

ChildReads ==
  /\ child = "running" /\ "in" \in ends /\ stdin > 0
  /\ stdin' = stdin - 1
  /\ UNCHANGED <<procVars, wire, readVars, closeVars, killVars, mainVars, childVars>>

ChildForks ==
  /\ Forks /\ child = "running" /\ helper = "none"
  /\ helper' = "running"
  /\ UNCHANGED <<child, ends, pipeVars, readVars, closeVars, killVars, mainVars, childVars>>

\* What the helper inherited is what the child held: it closes nothing after the fork.
ChildCloses(e) ==
  /\ Closes /\ child = "running" /\ helper = "none" /\ e \in ends
  /\ ends' = ends \ {e} /\ left' = TRUE
  /\ UNCHANGED <<child, helper, pipeVars, readVars, closeVars, killVars, mainVars, written>>

ChildExits ==
  /\ child = "running" /\ child' = "zombie" /\ left' = TRUE
  /\ UNCHANGED <<helper, ends, pipeVars, readVars, closeVars, killVars, mainVars, written>>

HelperExits ==
  /\ helper = "running" /\ helper' = "dead"
  /\ UNCHANGED <<child, ends, pipeVars, readVars, closeVars, killVars, mainVars, childVars>>

-----------------------------------------------------------------------------
Call == Begin("sending") \/ Begin("receiving") \/ Begin("receiving_hello") \/ Close

Background ==
  \/ \E t \in Threads : Closer(t)
  \/ DeadlineFires \/ ReadFrame \/ ReadEnd
  \/ (\E k \in Kinds : ChildWrites(k)) \/ ChildReads \/ ChildForks
  \/ (\E e \in Ends : ChildCloses(e)) \/ ChildExits \/ HelperExits

Next == Construct \/ Call \/ MainStep \/ Background

Spec == Init /\ [][Next]_vars

\* The threads of the parent are scheduled, waits with a timeout end, the timer runs out.
\* Nothing is assumed of the child.
Fairness ==
  /\ \A t \in Threads : WF_vars(Closer(t))
  /\ WF_vars(Construct) /\ WF_vars(MainStep) /\ WF_vars(DeadlineFires) /\ WF_vars(ReadFrame \/ ReadEnd)

FairSpec == Spec /\ Fairness

-----------------------------------------------------------------------------
(* Properties                                                              *)

Items == Kinds \cup {"eof", "violation"}

TypeOK ==
  /\ child \in {"none", "running", "zombie", "reaped"} /\ helper \in {"none", "running", "dead"}
  /\ ends \subseteq Ends /\ stdin \in 0..PipeSize /\ wire \in Seq(Kinds)
  /\ reader \in {"none", "reading", "done"} /\ frames \in Seq(Items)
  /\ closed \in BOOLEAN /\ temp \in BOOLEAN
  /\ timer \in {"none", "armed", "cancelled", "fired"}
  /\ stage \in [Threads -> {"out", "poll", "term", "wait", "kill", "wait2", "join", "set"}]
  /\ closing \in [Threads -> BOOLEAN]
  /\ main \in {"spawning", "failed", "idle", "sending", "receiving", "receiving_hello", "raising"}
  /\ outcome \in Kinds \cup {"none", "sent", "closed", "crash", "protocol", "deadline"}
  /\ pending \in {"none", "crash", "protocol"}
  /\ calls \in 0..MaxCalls /\ sends \in Nat
  /\ delivered \in Seq(Kinds) /\ told \in BOOLEAN
  /\ written \in Seq(Kinds) /\ left \in BOOLEAN

\* A closed transport has collected its child and removed the temporary directory, and
\* never removes it under a living child -- whichever threads close it, one after the
\* other or together, and whether or not the child obeys SIGTERM (_terminate, close).  A
\* constructor that raises leaves no directory behind either.
Released ==
  /\ closed => child = "reaped" /\ ~temp
  /\ ~temp => child \in {"none", "reaped"}
  /\ main = "failed" => child = "none" /\ ~temp

\* To its caller the transport is the abstract AgentStream: recv() hands out the messages of
\* the child in the order they were written, none skipped, and nothing more once it has told
\* of a crash or of a violation (FrameDecoder, _read_loop, recv).
Messages == INSTANCE AgentStream WITH produced <- written, consumed <- delivered, over <- told
StreamSpec == Messages!Stream

\* A protocol violation is reported only with the transport closed: no later call can
\* talk to that child (recv, recv_hello).
ViolationCloses == outcome = "protocol" => closed

\* When the output of the child has ended, recv() says so at once and does not wait for
\* its timeout -- unless an earlier call has already told the end.
EndIsReported ==
  [][main # main' /\ main' = "idle" /\ outcome' = "deadline" => reader = "reading" \/ told]_vars

\* With a deadline no call blocks for ever, not even a write to a child that never reads
\* and ignores SIGTERM -- unless a helper outlives the child and keeps the pipe open.
CallsEnd == main # "idle" /\ timer # "none" ~> main = "idle" \/ helper = "running"

\* On close the whole process tree is terminated (class docstring, README).
TreeTerminated == closed => helper # "running"
=============================================================================
