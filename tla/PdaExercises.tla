---------------------------- MODULE PdaExercises ----------------------------
(***************************************************************************)
(* The exercises of a PDA session: consecutive devices, sleep round trips  *)
(* (protocols/pda/live_exercises.py with device_selection.py), EQUIPMENT   *)
(* STATUS (equipment_setup.py, status_exercise.py), spa heating (spa.py)   *)
(* and the non-heating heater exercise (keywords.py).                      *)
(*                                                                         *)
(* All of them decide from the snapshot that the session took at its       *)
(* start, and then send request after request to a panel whose water,      *)
(* valves and heaters depend on each other -- and which its owner and its  *)
(* programs go on using.  A request is one step here; PdaRestoration and   *)
(* ProgrammerObserver model what it consists of.                           *)
(***************************************************************************)
EXTENDS Integers, Sequences, SequencesExt

CONSTANTS
  Switches,        \* the switches of /api/devices, in its order
  Auxiliaries,     \* those among them named Aux_n, by n
  Requestable,     \* what --pda-test-device may list; <<>> is every switch
  Minimum, Maximum,\* the temperature bounds of the panel's units
  Setpoints, Water,\* setpoints and water temperatures to begin with
  MaxEvents        \* bound on the exercises of a session and on what others do meanwhile

Heaters == <<"Pool_Heater", "Spa_Heater">>

\* A heater is a setpoint_thermo, and no switch.
ASSUME ExerciseAssumption ==
  /\ MaxEvents \in Nat /\ Minimum \in Int /\ Maximum \in Int /\ Minimum < Maximum
  /\ Setpoints \subseteq Minimum .. Maximum /\ Water \subseteq Int
  /\ Switches \in Seq(Range(Switches)) /\ {"Filter_Pump", "Spa"} \subseteq Range(Switches)
  /\ Range(Heaters) \cap Range(Switches) = {}
  /\ Auxiliaries \in Seq(Range(Switches)) /\ Requestable \subseteq Seq(Range(Switches))

Hydraulic == {"Spa", "Extra_Aux"}   \* _STATUS_HYDRAULIC_CONTROLS
Equipment == Switches \o Heaters

VARIABLES
  on, setpoint, water,  \* the panel
  units,                \* temp_units is known: "f" or "c"
  excluded,             \* constraints.excluded: named or labelled NONE, beyond the panel size
  requested,            \* the devices of --pda-test-device
  initial,              \* the session's snapshot
  exercise, todo,       \* the running exercise and the rest of its program
  controls,             \* the controls that the status exercise has switched on
  result,               \* "none", "running", "passed", "skipped" or "failed"
  begun, touches,       \* exercises begun; what others have done at the panel
  asked                 \* History variable: the devices it has sent requests for

panelState == <<on, setpoint, water, units, excluded>>
exerciseVars == <<panelState, requested, initial, exercise, todo, controls, result,
                  begun, touches, asked>>

-----------------------------------------------------------------------------
(* The panel, external. *)

\* Spa mode runs the pump, and does not survive it.
Switched(state, d, to) ==
  [state EXCEPT ![d] = to,
                !["Filter_Pump"] = IF d = "Filter_Pump" THEN to
                                   ELSE @ \/ (d = "Spa" /\ to),
                !["Spa"] = IF d = "Spa" THEN to
                           ELSE @ /\ ~(d = "Filter_Pump" /\ ~to)]

\* DeviceState.active: water flows through the heater, and is colder than its setpoint.
Heats(h, state, points, temperature) ==
  /\ state[h] /\ state["Filter_Pump"]
  /\ (h = "Spa_Heater") = state["Spa"]
  /\ temperature < points[h]

Active(h) == Heats(h, on, setpoint, water)

WasActive(h) == Heats(h, initial.on, initial.setpoint, water)

\* The water temperature is known while the pump runs.
ExercisesInit ==
  /\ on \in {o \in [Range(Equipment) -> BOOLEAN] :
               (o["Spa"] => o["Filter_Pump"]) /\ ~\E d \in Hydraulic \ {"Spa"} : d \in DOMAIN o /\ o[d]}
  /\ setpoint \in [Range(Heaters) -> Setpoints] /\ water \in Water
  /\ units \in BOOLEAN /\ excluded \in SUBSET Range(Equipment)
  /\ requested \in Requestable
  /\ initial = [on |-> on, setpoint |-> setpoint]
  /\ exercise = "none" /\ todo = <<>> /\ controls = {} /\ result = "none"
  /\ begun = 0 /\ touches = 0 /\ asked = {}

\* Its owner, a program or the freeze protection.
Touch ==
  /\ begun + touches < MaxEvents
  /\ touches' = touches + 1
  /\ \E d \in Range(Heaters) \cup {"Filter_Pump", "Spa"} :
       on' = Switched(on, d, ~on[d])
  /\ UNCHANGED <<setpoint, water, units, excluded, requested, initial, exercise, todo,
                 controls, result, begun, asked>>

-----------------------------------------------------------------------------
(* device_selection.py *)

Selection == IF requested = <<>> THEN Switches ELSE requested

\* The members of seq that are in S, in their order; those that are not.
Among(seq, S) ==
  LET kept[i \in 0 .. Len(seq)] ==
        IF i = 0 THEN <<>>
        ELSE IF seq[i] \in S THEN Append(kept[i - 1], seq[i]) ELSE kept[i - 1]
  IN  kept[Len(seq)]

Without(seq, S) == Among(seq, Range(seq) \ S)

Consecutive == Without(Selection, Hydraulic \cup excluded)

\* _sleep_priority: the deepest auxiliary, else any other switch, last the pump.
SleepOrder == <<"Filter_Pump">> \o Among(Switches, Hydraulic) \o Auxiliaries

SleepCandidates == Without(Among(SleepOrder, Range(Selection)), excluded)

StatusCandidates == Without(Equipment, Hydraulic \cup excluded)

-----------------------------------------------------------------------------
(* The programs. *)

Set(d, to) == [do |-> "set", device |-> d, to |-> to]
SetTo(h, t) == [do |-> "setpoint", device |-> h, temperature |-> t]
Op(what) == [do |-> what]
If(condition, ops) == IF condition THEN ops ELSE <<>>

Each(seq, F(_)) == [i \in DOMAIN seq |-> F(seq[i])]
ForEach(seq, F(_)) == FlattenSeq(Each(seq, F))

\* Mutant: the state is read when the exercise begins.
ConsecutiveNow ==
  Each(Consecutive, LAMBDA d : Set(d, ~on[d]))
    \o Each(Reverse(Consecutive), LAMBDA d : Set(d, on[d]))

ConsecutiveProgram ==
  Each(Consecutive, LAMBDA d : Set(d, ~initial.on[d]))
    \o Each(Reverse(Consecutive), LAMBDA d : Set(d, initial.on[d]))

\* _toggle_round_trip with the sleep test device.
SleepProgram ==
  If(SleepCandidates # <<>>,
     LET d == Last(SleepCandidates) IN <<Set(d, ~initial.on[d]), Set(d, initial.on[d])>>)

\* Only for the heater the panel is read anew.
SpaProgram ==
  If(on["Spa_Heater"], <<Set("Spa_Heater", FALSE)>>)
    \o <<Set("Spa", FALSE), Set("Filter_Pump", TRUE), Op("wait"), Set("Spa", TRUE),
         Op("spaWater")>>

\* exercise_heater: safe_upper is one degree above the minimum.
HeaterSafe(h) ==
  /\ units /\ ~WasActive(h)
  /\ initial.on["Filter_Pump"] => water > Minimum + 1

HeaterProgram(h) ==
  If(initial.on[h], <<Set(h, FALSE)>>)
    \o <<SetTo(h, Minimum), SetTo(h, Minimum + 1), SetTo(h, Minimum),
         Set(h, TRUE), Op("inactive"), Set(h, FALSE)>>

\* Mutant: a heater keeps its setpoint.
NonheatingOnly(h) == If(initial.on[h], <<Set(h, FALSE)>>)

\* _make_heaters_nonheating
Nonheating(h) ==
  If(initial.on[h], <<Set(h, FALSE)>>)
    \o If(initial.setpoint[h] # Minimum, <<SetTo(h, Minimum)>>)

StatusHeaters ==
  If(units /\ ~initial.on["Spa"],
     Among(Heaters, {h \in Range(Heaters) \ excluded : ~WasActive(h)}))

StatusSwitches == Without(StatusCandidates, Range(Heaters))

StatusProgram ==
  If(StatusSwitches \o StatusHeaters # <<>>,
     ForEach(StatusHeaters, Nonheating) \o <<Op("wait")>>
       \o Each(StatusSwitches, LAMBDA d : Set(d, TRUE))
       \o ForEach(StatusHeaters, LAMBDA h :
            If(h = "Pool_Heater", <<Op("poolWater")>>) \o <<Set(h, TRUE)>>)
       \o <<Op("settled")>>)

Program ==
  [consecutive |-> ConsecutiveProgram, sleep |-> SleepProgram, spa |-> SpaProgram,
   status |-> StatusProgram,
   pool |-> If(HeaterSafe("Pool_Heater"), HeaterProgram("Pool_Heater")),
   spaHeater |-> If(HeaterSafe("Spa_Heater"), HeaterProgram("Spa_Heater"))]

\* A heater exercise that is not optional fails instead of being skipped.
BeginExercise(name) ==
  /\ result \notin {"running", "failed"} /\ begun + touches < MaxEvents
  /\ exercise' = name /\ todo' = Program[name]
  /\ result' \in IF Program[name] # <<>> THEN {"running"}
                  ELSE {"skipped"} \cup {r \in {"failed"} : name \in {"pool", "spaHeater"}}
  /\ begun' = begun + 1
  /\ controls' = {} /\ asked' = {}
  /\ UNCHANGED <<panelState, requested, initial, touches>>

-----------------------------------------------------------------------------
(* The steps of a program. *)

Doing(what) == result = "running" /\ todo # <<>> /\ Head(todo).do = what

\* An exercise ends with its last step; a failure ends the session's exercises.
Proceed(rest) ==
  /\ todo' = rest
  /\ result' = IF rest = <<>> THEN "passed" ELSE "running"

Fail == todo' = <<>> /\ result' = "failed"

SetDevice ==
  /\ Doing("set")
  /\ LET d == Head(todo).device IN
       /\ on' = Switched(on, d, Head(todo).to)
       /\ asked' = asked \cup {d}
       /\ controls' = IF exercise = "status" /\ Head(todo).to THEN controls \cup {d} ELSE controls
  /\ Proceed(Tail(todo))
  /\ UNCHANGED <<setpoint, water, units, excluded, requested, initial, exercise, begun, touches>>

SetSetpoint ==
  /\ Doing("setpoint")
  /\ setpoint' = [setpoint EXCEPT ![Head(todo).device] = Head(todo).temperature]
  /\ asked' = asked \cup {Head(todo).device}
  /\ Proceed(Tail(todo))
  /\ UNCHANGED <<on, water, units, excluded, requested, initial, exercise, controls, begun, touches>>

\* A request that had its effect, but did not complete in time.
RequestOverdue ==
  /\ Doing("set")
  /\ on' = Switched(on, Head(todo).device, Head(todo).to)
  /\ asked' = asked \cup {Head(todo).device}
  /\ Fail
  /\ UNCHANGED <<setpoint, water, units, excluded, requested, initial, exercise, controls,
                 begun, touches>>

Observe ==
  UNCHANGED <<panelState, requested, initial, exercise, controls, begun, touches, asked>>

\* Whatever it waits for does not come, or is not what it has to be.
Abandon == result = "running" /\ Fail /\ Observe

\* The fill of the spa in pool mode; equipment that was flashing becomes stable.
WaitForStable == Doing("wait") /\ Proceed(Tail(todo)) /\ Observe

\* The setpoint that makes the spa heat; Maximum may be too low.
SpaTarget ==
  LET wanted == IF water + 2 > initial.setpoint["Spa_Heater"]
                THEN water + 2 ELSE initial.setpoint["Spa_Heater"]
  IN IF wanted > Maximum THEN Maximum ELSE IF wanted < Minimum THEN Minimum ELSE wanted

\* Demand is certain, or the exercise fails.
Heatable == SpaTarget > water

\* _wait_for_spa_temperature, until it is plausible.
SpaTemperature ==
  /\ Doing("spaWater")
  /\ units /\ on["Filter_Pump"] /\ Heatable
  /\ Proceed(If(SpaTarget # setpoint["Spa_Heater"], <<SetTo("Spa_Heater", SpaTarget)>>)
                \o <<Set("Spa_Heater", TRUE), Op("heats"), Set("Spa_Heater", FALSE),
                     Set("Spa", FALSE)>>)
  /\ Observe

\* _wait_for_active_heat
SpaHeats == Doing("heats") /\ Active("Spa_Heater") /\ Proceed(Tail(todo)) /\ Observe

\* exercise_heater looks once.
StaysInactive ==
  /\ Doing("inactive") /\ ~Active(todo[2].device)
  /\ Proceed(Tail(todo)) /\ Observe

\* The home screen has shown the temperature since the pump was switched on.
Warm == on["Filter_Pump"] /\ water > Minimum

\* _pool_is_above_minimum, else the pool heater is passed over.
PoolTemperature ==
  /\ Doing("poolWater")
  /\ \/ Warm /\ Proceed(Tail(todo))
     \/ Proceed(SubSeq(todo, 3, Len(todo)))
  /\ Observe

\* What became active is switched off before the failure is raised.
Emergency ==
  Each(Among(Heaters, {h \in controls \cap Range(Heaters) : Active(h)}), LAMBDA h : Set(h, FALSE))

\* The stable snapshot after the setup.
SetupComplete ==
  /\ Doing("settled")
  /\ \A d \in controls : on[d]
  /\ Proceed(IF Emergency # <<>> THEN Emergency \o <<Op("raise")>> ELSE <<Op("verify")>>)
  /\ Observe

\* PdaLogWatch has the status loop; _failures compares it with a stable snapshot.
VerifyStatus ==
  /\ Doing("verify") /\ \A d \in controls : on[d]
  /\ Proceed(<<>>) /\ Observe

-----------------------------------------------------------------------------
ExercisesNext ==
  \/ Touch \/ (\E name \in DOMAIN Program : BeginExercise(name))
  \/ SetDevice \/ SetSetpoint \/ RequestOverdue \/ Abandon \/ WaitForStable \/ SpaTemperature
  \/ SpaHeats \/ StaysInactive \/ PoolTemperature \/ SetupComplete \/ VerifyStatus

ExercisesSpec == ExercisesInit /\ [][ExercisesNext]_exerciseVars

-----------------------------------------------------------------------------
(* Properties. *)

ExercisesTypeOK ==
  /\ on \in [Range(Equipment) -> BOOLEAN]
  /\ setpoint \in [Range(Heaters) -> Minimum .. Maximum]
  /\ exercise \in DOMAIN Program \cup {"none"}
  /\ result \in {"none", "running", "passed", "skipped", "failed"}
  /\ controls \subseteq Range(Equipment) /\ asked \subseteq Range(Equipment)
  /\ begun \in Nat /\ touches \in Nat /\ begun + touches <= MaxEvents

\* Everything that the session's own exercises did is known to it.
Alone == touches = 0

NonheatingStep == exercise = "status" \/ (begun = 1 /\ exercise \in {"pool", "spaHeater"})

\* The status exercise leaves an excluded heater as it finds it, on or off.
PassedOver(h) == exercise = "status" /\ h \in excluded /\ on[h]

\* No step of the status exercise makes a heater heat, unless it is excluded and was on
\* already, whatever order the heaters, the pump and the setpoints come in and whichever
\* exercise went before, nor a step of exercise_heater that comes first -- if the units
\* are known and nobody else was at the panel.
StaysCold ==
  [][NonheatingStep /\ units /\ Alone' =>
       \A h \in Range(Heaters) : Active(h)' => Active(h) \/ PassedOver(h)]_exerciseVars

\* A round trip that passes ends where the session began, also after another exercise.
RoundTrip ==
  exercise \in {"consecutive", "sleep"} /\ result = "passed" /\ Alone =>
    \A d \in asked : on[d] = initial.on[d]

\* "Hydraulic routing, heat demand, and cooldown are isolated in the explicit Spa suite"
\* (README.md:216-217).
HydraulicsIsolated == exercise # "spa" => asked \cap Hydraulic = {}
=============================================================================
