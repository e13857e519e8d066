-------------------------- MODULE MCAgentSession --------------------------
(* Small instances of AgentSession for TLC: payloads of one to three bytes, *)
(* frames of at most three, one payload that is longer and an empty one.    *)
EXTENDS AgentSession

MCPayload ==
  [hello |-> <<0>>, ready |-> <<1, 0>>, decision |-> <<0, 1>>, error_fail |-> <<1>>,
   error_unexpected |-> <<2>>, episode_start |-> <<0, 2, 1>>, decide |-> <<0, 1, 0>>,
   decide_fail |-> <<2, 2>>, episode_end |-> <<1, 1>>, huge |-> <<0, 0, 0, 1>>,
   garbage |-> <<>>]

MCCanonical ==
  << <<"episode_start", 1>>, <<"decide", 1>>, <<"decide_fail", 1>>, <<"episode_end", 0>> >>
MCScenarios ==
  { MCCanonical,
    << <<"decide", 1>>, <<"hello", 1>>, <<"episode_end", 0>>, <<"error_fail", 0>> >>,
    << <<"episode_end", 0>>, <<"error_fail", 0>>, <<"episode_end", 0>>, <<"decide", 1>> >>,
    << <<"episode_end", 0>>, <<"decide", 1>>, <<"huge", 1>> >>,
    << <<"episode_end", 0>>, <<"garbage", 1>> >> }
=============================================================================
