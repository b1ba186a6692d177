---------------------------- MODULE Parts_proofs ----------------------------
(***************************************************************************)
(* Each part that MCParts checks by itself is there what its own module    *)
(* specifies, whatever the part under test does; so what the proofs of the *)
(* parts establish holds of MCParts.                                       *)
(***************************************************************************)
EXTENDS MCParts, Process_proofs, LogReading_proofs, Panel_proofs, PdaExercises_proofs, TLAPS

-----------------------------------------------------------------------------
(* The parts but the first.                                                  *)

\* The specifications of the parts that need no more than their own steps.
EachPart ==
  /\ ObserverSafety /\ WalkSafety /\ LineSpec /\ SessionSpec /\ WatchSpec /\ FreeSpec
  /\ ExercisesSpec

\* A behaviour of MCParts is one of every part but the supervised suite, whichever it
\* is about.
THEOREM PartsAreApart == PartsSpec => EachPart
<1>1. PartsInit => /\ ObserverInit /\ WalkInit /\ LineInit /\ SessionInit /\ WatchInit
                   /\ FreeInit /\ ExercisesInit
  BY DEF PartsInit
<1>2. [PartsNext]_partsVars =>
        /\ [ObserverNext]_observerVars /\ [WalkNext]_walkVars /\ [LineNext]_lineVars
        /\ [SessionNext]_sessionVars /\ [WatchNext]_watchVars /\ [FreeNext]_freeVars
        /\ [ExercisesNext]_exerciseVars
  BY DEF PartsNext, partsVars
<1> QED
  BY <1>1, <1>2, PTL
     DEF PartsSpec, EachPart, ObserverSafety, WalkSafety, LineSpec, SessionSpec, WatchSpec,
         FreeSpec, ExercisesSpec

-----------------------------------------------------------------------------
(* The supervised suite: supervise() by itself, or all of it.                *)

\* The suite that supervise() is checked without.
SuiteWaits ==
  /\ suite = Members[1] /\ setting = "default" /\ RunInit
  /\ member = 1 /\ overall = 0 /\ verdict = "running"
  /\ codes = <<>> /\ dirty = FALSE /\ stale = FALSE

SuiteInv == IF focus = "supervisor" THEN SupInv /\ SuiteWaits ELSE CompInv

LEMMA SuiteBegins == PartsInit => SuiteInv
<1>1. ASSUME PartsInit, focus = "supervisor" PROVE SuiteInv
  BY <1>1, SupInitially DEF PartsInit, SuiteInv, SuiteWaits
<1>2. ASSUME PartsInit, focus # "supervisor" PROVE SuiteInv
  BY <1>2, CompInitially DEF PartsInit, SuiteInv, SuiteRests
<1> QED
  BY <1>1, <1>2

LEMMA SuiteInvStep ==
  ASSUME SuiteInv, [PartsNext]_partsVars
  PROVE  SuiteInv'
<1>1. focus' = focus
  BY DEF PartsNext, partsVars
<1>2. CASE focus = "supervisor"
  <2>1. [SupNext]_supVars /\ UNCHANGED <<runVars, compVars>>
    BY <1>2 DEF PartsNext, partsVars, SuiteNext, Supervise, Compose, suiteVars, procVars
  <2>2. SupInv'
    BY <1>2, <2>1, SupInvStep DEF SuiteInv
  <2>3. SuiteWaits'
    BY <1>2, <2>1 DEF SuiteInv, SuiteWaits, RunInit, runVars, caseVars, panelVars, fileVars, compVars
  <2> QED
    BY <1>1, <1>2, <2>2, <2>3 DEF SuiteInv
<1>3. CASE focus # "supervisor"
  <2>1. [CompNext]_suiteVars
    BY <1>3 DEF PartsNext, partsVars, SuiteNext, Supervise, Compose
  <2> QED
    BY <1>1, <1>3, <2>1, CompInvStep DEF SuiteInv
<1> QED
  BY <1>2, <1>3

LEMMA SuiteInvariant == PartsSpec => []SuiteInv
BY SuiteBegins, SuiteInvStep, PTL DEF PartsSpec

LEMMA SuiteSafe ==
  SuiteInv => ScenarioOutlived /\ NoOrphan /\ PassedIsEarned /\ StartsClean
<1>1. SuiteInv => ScenarioOutlived /\ VerdictInv
  BY DEF SuiteInv, CompInv, ProcInv, SupInv, SupTypeInv
<1>2. SuiteInv => StartsClean
  BY DEF SuiteInv, SuiteWaits, CompInv, StartsClean
<1>3. ScenarioOutlived /\ VerdictInv => NoOrphan /\ PassedIsEarned
  BY DEF VerdictInv, Earned, Drained, PassedIsEarned, NoOrphan
<1> QED
  BY <1>1, <1>2, <1>3

LEMMA SuiteTyped == SuiteInv => CompTypeOK
<1>1. ASSUME CompInv PROVE CompTypeOK
  BY <1>1, ProcTyped DEF CompInv, CompTypes, CompTypeOK
<1>2. ASSUME SupInv, SuiteWaits PROVE CompTypeOK
  <2>1. SupTypeOK /\ cancels \in Nat
    BY <1>2 DEF SupInv, SupTypeInv, SupTypeOK
  <2>2. suite \in Suites
    BY <1>2, MemberShape DEF SuiteWaits
  <2>3. ProcTypeOK
    BY <1>2, <2>1, <2>2, RunTyped, RunTypedOK DEF SuiteWaits
  <2>4. codes \in Seq({0, 1, 130}) /\ Len(codes) = 0
    BY <1>2 DEF SuiteWaits
  <2>5. dirty \in BOOLEAN /\ stale \in BOOLEAN
    BY <1>2, Zenon DEF SuiteWaits
  <2> QED
    BY <1>2, <2>3, <2>4, <2>5 DEF SuiteWaits, CompTypeOK
<1> QED
  BY <1>1, <1>2 DEF SuiteInv

-----------------------------------------------------------------------------
(* What is checked of MCParts.                                               *)

\* Every variable of every part keeps its type, whichever part a behaviour is about.
THEOREM PartsTypeCorrect == PartsSpec => []PartsTypeOK
<1>1. PartsSpec => []CompTypeOK
  BY SuiteInvariant, SuiteTyped, PTL
<1>2. EachPart =>
        /\ []ObserverTypeOK /\ []WalkTypeOK /\ []SessionTypeOK /\ []WatchTypeOK
        /\ []FreeTypeOK /\ []ExercisesTypeOK
  BY ObserverTypeCorrect, WalkTypeCorrect, SessionTypeCorrect, WatchTypeCorrect,
     FreeTypeCorrect, ExercisesTypeCorrect DEF EachPart
<1> QED
  BY <1>1, <1>2, PartsAreApart, PTL DEF PartsTypeOK

\* And every invariant of the run: of the suite, the two readers of the log, the menu
\* walk, the serial steps, the Power Center sessions, the panel-free driver and the
\* exercises.
THEOREM PartsAreSafe ==
  PartsSpec =>
    /\ [](ScenarioOutlived /\ NoOrphan /\ PassedIsEarned /\ StartsClean)
    /\ [](FirstMatch /\ AsleepSawAll /\ MarkersInOrder /\ ErrorHeeded)
    /\ [](SelectsIntended /\ VisitsAll) /\ []CaptureFaithful
    /\ [](RightEmulator /\ Undisturbed /\ CloseCleans /\ DisplaysApart)
    /\ [](OneCycle /\ FoundNow /\ OneScreen)
    /\ [](KeysInOrder /\ DriverFailureNoticed) /\ []RoundTrip
<1>1. PartsSpec => [](ScenarioOutlived /\ NoOrphan /\ PassedIsEarned /\ StartsClean)
  BY SuiteInvariant, SuiteSafe, PTL
<1>2. ObserverSafety => [](FirstMatch /\ AsleepSawAll /\ MarkersInOrder /\ ErrorHeeded)
  BY FirstMatchReturned, NoLostWakeup, MarkersAreFirst, ErrorIsHeeded, PTL
<1>3. WalkSafety => [](SelectsIntended /\ VisitsAll)
  BY OnlyMenusSelected, EveryMenuVisited, MCMenusFit, PTL
<1>4. SessionSpec => [](RightEmulator /\ Undisturbed /\ CloseCleans /\ DisplaysApart)
  BY EmulatorIsRight, WorksUndisturbed, ClosedIsClean, DisplaysStayApart, PTL
<1>5. WatchSpec => [](OneCycle /\ FoundNow /\ OneScreen)
  BY CycleIsOne, LoopIsNow, ScreenIsOne, PTL
<1>6. FreeSpec => [](KeysInOrder /\ DriverFailureNoticed)
  BY KeysArriveInOrder, FailuresAreNoticed, PTL
<1> QED
  BY <1>1, <1>2, <1>3, <1>4, <1>5, <1>6, CaptureIsFaithful, RoundTripsReturn, PartsAreApart, PTL
     DEF EachPart

\* And what no step of a part may do: a suite that goes on after SIGINT, bytes that
\* are not those of the stream, a switch or a setpoint that makes the pool heat.
THEOREM PartsStepSafely == PartsSpec => InterruptEndsSuite /\ IsStream /\ StaysCold
<1>1. SuiteInv /\ [PartsNext]_partsVars =>
        [member' # member => interrupted \in {"no", "cleanup"}]_suiteVars
  <2> SUFFICES ASSUME SuiteInv, [PartsNext]_partsVars, member' # member
               PROVE  interrupted \in {"no", "cleanup"}
    BY DEF suiteVars, compVars
  <2>1. focus # "supervisor" /\ CompNext
    BY DEF PartsNext, partsVars, SuiteNext, Supervise, Compose, suiteVars, compVars
  <2>2. CompInv
    BY <2>1 DEF SuiteInv
  <2> QED
    BY <2>1, <2>2, OnlyUninterrupted
<1>2. PartsSpec => InterruptEndsSuite
  BY <1>1, SuiteInvariant, PTL DEF PartsSpec, InterruptEndsSuite
<1> QED
  BY <1>2, LineIsStream, NeverMadeToHeat, PartsAreApart, PTL DEF EachPart
=============================================================================
