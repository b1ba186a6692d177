------------------------------ MODULE MCParts ------------------------------
(***************************************************************************)
(* One instance of each part that is checked by itself.  The parts share   *)
(* no state here; focus says which of them a behaviour is about, and the   *)
(* others stay in one initial state.                                       *)
(***************************************************************************)
EXTENDS CompositeSuite, ProgrammerObserver, MenuWalk, SerialLine, PowerCenterSession,
        PdaLogWatch, PanelFree, PdaExercises

VARIABLE focus

Part == {"supervisor", "composite", "observer", "walk", "line", "session", "watch",
         "free", "exercises"}

partsVars == <<focus, suiteVars, observerVars, walkVars, lineVars, sessionVars, watchVars,
               freeVars, exerciseVars>>

-----------------------------------------------------------------------------
(* The constants that are no sets of strings or numbers. *)

\* The shape of pda-live-long: an awake member with several testcases, a sleep member.
InitCase == [steps |-> <<"initialize", "check">>, finally |-> <<>>]
LiveCase == [steps |-> <<"initialize", "mutate">>, finally |-> <<"restore">>]
MCMembers == <<<<InitCase, LiveCase>>, <<LiveCase>>>>
MCSuites == {MCMembers[1], MCMembers[2]}

\* The menus on the way to the freeze protection, and two lines that lead elsewhere.
MCOptions ==
  [Home |-> <<"EQUIPMENT", "MENU">>, Equipment |-> <<"PUMP">>, Menu |-> <<"SETUP", "HEAT">>,
   Setup |-> <<"FREEZE">>, Freeze |-> <<>>]
MCBelow == [EQUIPMENT |-> "Equipment", MENU |-> "Menu", SETUP |-> "Setup", FREEZE |-> "Freeze"]
MCParent ==
  [Home |-> "Home", Equipment |-> "Home", Menu |-> "Home", Setup |-> "Menu", Freeze |-> "Setup"]

ASSUME MCMenusFit == MenusFit

MCExpected == {<<DLE>>, <<DLE, STX>>, <<Data>>}

MCSwitches == <<"Filter_Pump", "Spa", "Aux_1">>
MCAuxiliaries == <<"Aux_1">>
MCRequestable == {<<>>}

-----------------------------------------------------------------------------
(* Initial states: a part at rest, and the reductions of a part under test. *)

\* Two runs in one prefix meet at its lock, whatever their displays; in two prefixes
\* they can only meet at the display of the TCP fallback.
Meeting ==
  /\ prefix["r1"] = "p1"
  /\ IF prefix["r2"] = "p1" THEN kind["r2"] = "desktop"
     ELSE kind["r1"] = "tcp" /\ kind["r2"] = "tcp"

\* The heaters begin with one setpoint, and the auxiliary off; one device at most is
\* excluded.
FewStates ==
  /\ setpoint["Pool_Heater"] = setpoint["Spa_Heater"] /\ ~on["Aux_1"]
  /\ Cardinality(excluded) <= 1

SuiteRests == CompInit /\ ~timed

PartsInit ==
  /\ focus \in Part
  /\ IF focus = "supervisor"
     THEN /\ SupInit /\ suite = Members[1] /\ setting = "default" /\ RunInit
          /\ member = 1 /\ overall = 0 /\ verdict = "running"
          /\ codes = <<>> /\ dirty = FALSE /\ stale = FALSE
     ELSE IF focus = "composite" THEN CompInit ELSE SuiteRests
  /\ ObserverInit
  /\ WalkInit /\ (focus # "walk" => at = Home)
  /\ LineInit
  /\ SessionInit /\ Meeting
  /\ focus # "session" => prefix["r2"] = "p2"
  /\ WatchInit /\ (focus # "watch" => script = "cycle" /\ mode = "awake")
  /\ FreeInit /\ (focus # "free" => ~probeAcked)
  /\ ExercisesInit /\ FewStates
  /\ focus # "exercises" =>
       /\ units /\ excluded = {} /\ water = 0 /\ ~\E d \in DOMAIN on : on[d]
       /\ setpoint["Pool_Heater"] = Minimum

-----------------------------------------------------------------------------
Supervise == focus = "supervisor" /\ SupNext /\ UNCHANGED <<runVars, compVars>>

Compose == focus = "composite" /\ CompNext

SuiteNext == Supervise \/ Compose

\* The steps of one part leave the others alone.
PartsNext ==
  /\ UNCHANGED focus
  /\ \/ /\ SuiteNext
        /\ UNCHANGED <<observerVars, walkVars, lineVars, sessionVars, watchVars, freeVars,
                       exerciseVars>>
     \/ /\ focus = "observer" /\ ObserverNext
        /\ UNCHANGED <<suiteVars, walkVars, lineVars, sessionVars, watchVars, freeVars,
                       exerciseVars>>
     \/ /\ focus = "walk" /\ WalkNext
        /\ UNCHANGED <<suiteVars, observerVars, lineVars, sessionVars, watchVars, freeVars,
                       exerciseVars>>
     \/ /\ focus = "line" /\ LineNext
        /\ UNCHANGED <<suiteVars, observerVars, walkVars, sessionVars, watchVars, freeVars,
                       exerciseVars>>
     \/ /\ focus = "session" /\ SessionNext
        /\ UNCHANGED <<suiteVars, observerVars, walkVars, lineVars, watchVars, freeVars,
                       exerciseVars>>
     \/ /\ focus = "watch" /\ WatchNext
        /\ UNCHANGED <<suiteVars, observerVars, walkVars, lineVars, sessionVars, freeVars,
                       exerciseVars>>
     \/ /\ focus = "free" /\ FreeNext
        /\ UNCHANGED <<suiteVars, observerVars, walkVars, lineVars, sessionVars, watchVars,
                       exerciseVars>>
     \/ /\ focus = "exercises" /\ ExercisesNext
        /\ UNCHANGED <<suiteVars, observerVars, walkVars, lineVars, sessionVars, watchVars,
                       freeVars>>

\* The fairness of each part, for the behaviours that are about it.
SupervisorFairness ==
  /\ WF_supVars(focus = "supervisor" /\ SuperviseStep)
  /\ WF_supVars(focus = "supervisor" /\ ChildKilled)
  /\ WF_supVars(focus = "supervisor" /\ OutputEnds)
  /\ WF_supVars(focus = "supervisor" /\ cancels > 0 /\ ScenarioEndsAlone)

CallFairness ==
  /\ WF_observerVars(focus = "observer" /\ CallStep)
  /\ WF_observerVars(focus = "observer" /\ PollEnds)
  /\ \A w \in Waiter :
       WF_observerVars(focus = "observer" /\ (Look(w) \/ Expire(w)) /\ UNCHANGED callVars)

MenuFairness ==
  /\ WF_walkVars(focus = "walk" /\ WalkStep)
  /\ WF_walkVars(focus = "walk" /\ Handle /\ PanelActs)
  /\ WF_walkVars(focus = "walk" /\ Receive)

FreeFairness ==
  /\ WF_freeVars(focus = "free" /\ DriverStep)
  /\ WF_freeVars(focus = "free" /\ ScenarioStep)

PartsSpec ==
  /\ PartsInit /\ [][PartsNext]_partsVars
  /\ SupervisorFairness /\ CallFairness /\ MenuFairness /\ FreeFairness

-----------------------------------------------------------------------------
\* Every variable of every part keeps its type.
PartsTypeOK ==
  /\ CompTypeOK /\ ObserverTypeOK /\ WalkTypeOK /\ SessionTypeOK /\ WatchTypeOK
  /\ FreeTypeOK /\ ExercisesTypeOK

\* Each part comes to its end, whatever fails, is lost or is cancelled on the way: a
\* supervised run, a programmer call, the menu walk and a panel-free scenario.
PartsEnd ==
  /\ focus = "supervisor" => Terminates
  /\ focus = "observer" => CallEnds
  /\ focus = "walk" => WalkEnds
  /\ focus = "free" => RunEnds
=============================================================================
