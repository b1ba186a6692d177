-------------------------- MODULE MCPdaRestoration --------------------------
(***************************************************************************)
(* A heater with a setpoint, the spa mode and the filter pump.  The        *)
(* initial setpoint is the higher of the two values, so that a restoration *)
(* may have to raise it; every combination of initial device states.       *)
(***************************************************************************)
EXTENDS PdaRestoration

CONSTANTS heater, spa, pump

MCInit == Init /\ initialSetpoint[heater] = 2

MCSpec == MCInit /\ [][Next]_vars
=============================================================================
