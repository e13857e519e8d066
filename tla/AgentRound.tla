----------------------------- MODULE AgentRound -----------------------------
(***************************************************************************)
(* One round of the fixed contestant: run_round_subprocess() over          *)
(* AgentTransport, and run_round_in_process() over a handler.  The runner  *)
(* is the thread main of the transport; what it calls, and in which order, *)
(* is decided here, and the threads and the child of the transport         *)
(* interleave with it.                                                     *)
(***************************************************************************)
EXTENDS AgentTransport

VARIABLES
  mode,     \* which of the two functions runs
  round,    \* the next thing the runner does
  step,     \* index of the call of Program, or of the handler, it is at
  records,  \* kinds of the messages in the transcript
  status    \* RoundResult.status, none before the classification

roundVars == <<mode, round, step, records, status>>

\* recv_hello(), then send() and recv() for each of _round_inputs().
Program == <<"receiving_hello", "sending", "receiving", "sending", "receiving">>
Expected == <<"hello", "sent", "ready", "sent", "decision">>
Requests == <<"none", "episode_start", "none", "decide", "none">>

RoundInit ==
  /\ Init
  /\ mode \in {"subprocess", "in_process"}
  /\ round = "call" /\ step = 1 /\ records = <<>> /\ status = "none"

-----------------------------------------------------------------------------
(* run_round_subprocess                                                    *)

\* The request is in the transcript before it is sent.
StartCall ==
  /\ mode = "subprocess" /\ round = "call" /\ round' = "wait"
  /\ Begin(Program[step])
  /\ records' = IF Program[step] = "sending" THEN Append(records, Requests[step]) ELSE records
  /\ UNCHANGED <<mode, step, status>>

\* `if reply.type != expected_type: raise AgentProtocolViolationError`
Accepts(k, result) == result = Expected[k]

\* _classify: by the type of the exception; a mismatched reply is a protocol violation.
BugClassify(result) ==
  CASE result \in {"deadline", "crash"} -> "crash" [] result = "closed" -> "error"
    [] OTHER -> "protocol"
BugMismatch(result) ==   \* a mismatch that leaves the loop and does not raise
  CASE result = "deadline" -> "timeout" [] result = "crash" -> "crash"
    [] result = "closed" -> "error" [] result \in Kinds -> "none" [] OTHER -> "protocol"
Classify(result) ==
  CASE result = "deadline" -> "timeout" [] result = "crash" -> "crash"
    [] result = "closed" -> "error" [] OTHER -> "protocol"

EndCall ==
  /\ round = "wait" /\ main = "idle"
  /\ \/ /\ Accepts(step, outcome)
        /\ records' = IF Program[step] = "sending" THEN records ELSE Append(records, outcome)
        /\ round' = IF step = Len(Program) THEN "exit" ELSE "call"
        /\ step' = IF step = Len(Program) THEN step ELSE step + 1
        /\ UNCHANGED status
     \/ /\ ~Accepts(step, outcome)
        /\ round' = "exit" /\ status' = Classify(outcome)
        /\ UNCHANGED <<step, records>>
  /\ UNCHANGED <<vars, mode>>

\* The constructor raised: there is nothing to leave, and no stderr to report.
NoChild ==
  /\ mode = "subprocess" /\ round = "call" /\ main = "failed"
  /\ round' = "over" /\ status' = "error"
  /\ UNCHANGED <<vars, mode, step, records>>

\* __exit__ closes the transport, whether the block was left normally or not.
BugExit ==
  /\ round = "exit"
  /\ \/ status = "none" /\ round' = "exiting" /\ Close
     \/ status # "none" /\ round' = "over" /\ UNCHANGED vars
  /\ UNCHANGED <<mode, step, records, status>>

Exit ==
  /\ round = "exit" /\ round' = "exiting"
  /\ Close
  /\ UNCHANGED <<mode, step, records, status>>

Result ==
  /\ round = "exiting" /\ main = "idle" /\ round' = "over"
  /\ status' = IF status = "none" THEN "ok" ELSE status
  /\ UNCHANGED <<vars, mode, step, records>>

-----------------------------------------------------------------------------
(* run_round_in_process                                                    *)

Replies == <<"hello", "ready", "decision">>

\* What handle() may return: nothing, a reply of either type, or too many.
HandlerReplies ==
  {<<>>, <<"ready">>, <<"decision">>, <<"ready", "decision">>, <<"decision", "decision">>}

\* hello() has its type by the handler's protocol and is not looked at.
HandlerHello ==
  /\ mode = "in_process" /\ round = "call" /\ step = 1
  /\ records' = <<"hello">> /\ step' = 2
  /\ UNCHANGED <<vars, mode, round, status>>

\* Exactly one reply of the expected type, or ProtocolError.
HandlerReplied(replies) ==
  /\ mode = "in_process" /\ round = "call" /\ step \in {2, 3}
  /\ IF replies = <<Replies[step]>>
       THEN /\ records' = Append(Append(records, Requests[2 * step - 2]), Replies[step])
            /\ step' = step + 1
            /\ round' = IF step = 3 THEN "over" ELSE round
            /\ status' = IF step = 3 THEN "ok" ELSE status
       ELSE /\ records' = Append(records, Requests[2 * step - 2])
            /\ round' = "over" /\ status' = "protocol"
            /\ UNCHANGED step
  /\ UNCHANGED <<vars, mode>>

\* The handler raises, a ProtocolError or something else.
HandlerRaises ==
  /\ mode = "in_process" /\ round = "call"
  /\ round' = "over" /\ status' \in {"protocol", "error"}
  /\ UNCHANGED <<vars, mode, step, records>>

Handler == HandlerHello \/ (\E r \in HandlerReplies : HandlerReplied(r)) \/ HandlerRaises

-----------------------------------------------------------------------------
Runner == StartCall \/ EndCall \/ NoChild \/ Exit \/ Result \/ Handler

RoundNext ==
  \/ Runner
  \/ mode = "subprocess" /\ (Construct \/ MainStep \/ Background) /\ UNCHANGED roundVars

RoundSpec == RoundInit /\ [][RoundNext]_<<vars, roundVars>>

FairRoundSpec ==
  /\ RoundSpec /\ WF_<<vars, roundVars>>(Runner)
  /\ \A t \in Threads : WF_<<vars, roundVars>>(Closer(t) /\ UNCHANGED roundVars)
  /\ WF_<<vars, roundVars>>(mode = "subprocess" /\ Construct /\ UNCHANGED roundVars)
  /\ WF_<<vars, roundVars>>(MainStep /\ UNCHANGED roundVars)
  /\ WF_<<vars, roundVars>>((ReadFrame \/ ReadEnd) /\ UNCHANGED roundVars)

-----------------------------------------------------------------------------
(* Properties                                                              *)

\* A round is ok only when the whole exchange took place: both requests were sent, hello,
\* ready and decision came back, in this order and nothing else, and the transcript that
\* is digested tells exactly that.
OkMeansExchange ==
  status = "ok" =>
    /\ records = <<"hello", "episode_start", "ready", "decide", "decision">>
    /\ mode = "subprocess" => sends = 2 /\ delivered = Replies

\* A failed round blames the child only for what it did: protocol for output that does
\* not begin with hello, ready and decision, and crash for leaving its pipes.  With a
\* deadline either may be the watchdog's doing, and error is, unless nothing was spawned.
Conforms == \A k \in 1..Len(written) : k <= 3 => written[k] = Replies[k]
StatusHasCause ==
  mode = "subprocess" =>
    /\ status = "protocol" => ~Conforms \/ timer = "fired"
    /\ status = "crash" => left \/ timer = "fired"
    /\ status = "error" => main = "failed" \/ timer = "fired"

\* However a round ends, its child is dead and collected and the directory is gone.
RoundReleases ==
  round = "over" /\ mode = "subprocess" =>
    ~temp /\ (child = "none" \/ (closed /\ child = "reaped"))

\* Every round ends, also without deadline_ms and whatever the child does.
RoundEnds == <>(round = "over")
=============================================================================
