--------------------------- MODULE MCPythonTargets ---------------------------
(***************************************************************************)
(* The shapes of rs-fast, rs-time, pda-live-time and the AquaPDA menu walk. *)
(***************************************************************************)
EXTENDS PythonTargets

CONSTANTS pump, aux

Target(protocol, timed, cases) == [protocol |-> protocol, timed |-> timed, cases |-> cases]

MCTargets ==
  { Target("rs", FALSE, <<"init", pump, aux>>),
    Target("rs", TRUE, <<"init", "time">>),
    Target("pda", TRUE, <<"init", "time">>),
    Target("pda", FALSE, <<"init", "look", "look">>) }
=============================================================================
