------------------------- MODULE MCConfigOverrides -------------------------
(* Small instances of ConfigOverrides for TLC: an agent with a number, an   *)
(* object that has a limit, and a module with a constant in upper case and  *)
(* a dict; a decision function with one argument.                           *)
EXTENDS ConfigOverrides

Entry(key, value) == [key |-> key, value |-> value]
Number(n) == Value("int", 10 * n)
Str(num) == Value("str", num)

Target == <<"target">>
TARGET == <<"TARGET">>
DottedLimit == <<"strategy", ".", "limit">>
JoinedLimit == <<"strategy", "_", "limit">>

MCLowerCase == [TARGET |-> "target", MODES |-> "modes"]
MCAttributes ==
  [instance |-> ( << Target >> :> Number(30) @@ << <<"strategy">> >> :> Object
                  @@ << <<"strategy">>, <<"limit">> >> :> Value("float", 25) ),
   module |-> ( << TARGET >> :> Number(40) @@ << <<"MODES">> >> :> Dict("a" :> 1) )]
MCParams == Target :> Number(30)

MCContents ==
  { Missing, Broken,
    << Entry(Target, Str(160)), Entry(TARGET, Number(20)) >>,
    << Entry(TARGET, Number(20)), Entry(<<"other">>, Number(1)) >>,
    << Entry(Target, Value("float", Infinity)), Entry(DottedLimit, Value("null", None)) >>,
    << Entry(DottedLimit, Str(10)), Entry(<<"strategy">>, Dict("a" :> 2)) >> }

MCEnvs ==
  { <<>>,
    << Entry(Target, Number(16)) >>,
    << Entry(Target, Str(NotANumber)), Entry(JoinedLimit, Str(30)) >>,
    << Entry(<<"modes">>, Dict("b" :> 2)), Entry(Target, Value("float", Infinity)) >> }
=============================================================================
