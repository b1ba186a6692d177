--------------------------- MODULE Process_proofs ---------------------------
(***************************************************************************)
(* Proofs about the processes that the validator looks after.  A           *)
(* supervised run, from the process up: supervise() itself (Supervisor),   *)
(* the declarative runner as its scenario (ProcessRun) and the composite   *)
(* suite made of such runs (CompositeSuite); for every set of suites, with *)
(* any number of members, testcases and steps.  And the sessions of the    *)
(* Power Center emulator (PowerCenterSession), for any number of runs,     *)
(* Wine prefixes and displays.                                             *)
(***************************************************************************)
EXTENDS CompositeSuite, PowerCenterSession, SequenceFacts, TLAPS

-----------------------------------------------------------------------------
(* supervise().  That the process outlives its scenario is inductive; that no  *)
(* process outlives supervise(), and that a pass is earned, need to know where *)
(* the verdict and the exception come from.                                  *)

(* Every step of supervise(), of SIGINT and of the outside world keeps a     *)
(* running scenario's process unsignalled and supervise() waiting for it.    *)
LEMMA OutlivedStep ==
  ASSUME ScenarioOutlived, [SupNext]_supVars
  PROVE  ScenarioOutlived'
<1> USE DEF ScenarioOutlived, ScenarioDone, taskVars, childVars, resultVars, modeVars
<1>1. CASE UNCHANGED supVars
  BY <1>1 DEF supVars
<1>2. CASE SeeScenarioEnd
  BY <1>2 DEF SeeScenarioEnd
<1>3. CASE SeeChildExit
  BY <1>3 DEF SeeChildExit, CancelTask, ThrowInto
<1>4. CASE DurationElapses
  BY <1>4 DEF DurationElapses, CancelTask, ThrowInto
<1>5. CASE CleanupExpires
  BY <1>5 DEF CleanupExpires
<1>6. CASE CleanupEnds
  BY <1>6 DEF CleanupEnds
<1>7. CASE GraceExpires \/ Stopped \/ Drain
  BY <1>7 DEF GraceExpires, Stopped, Drain
<1>8. CASE Interrupt
  <2>1. CASE InterruptHandled
    BY <2>1 DEF InterruptHandled, CancelTask, ThrowInto
  <2>2. CASE InterruptSuppressed
    BY <2>2 DEF InterruptSuppressed
  <2>3. CASE InterruptRetried \/ InterruptEscapes
    BY <2>3 DEF InterruptRetried, InterruptEscapes
  <2> QED
    BY <1>8, <2>1, <2>2, <2>3 DEF Interrupt
<1>9. CASE ProcessStep
  BY <1>9 DEF ProcessStep, ChildExits, ChildKilled, OutputEnds, OutputFails
<1>10. CASE ScenarioEndsAlone
  BY <1>10 DEF ScenarioEndsAlone, ScenarioEnds, ScenarioResult
<1> QED
  BY <1>1, <1>2, <1>3, <1>4, <1>5, <1>6, <1>7, <1>8, <1>9, <1>10 DEF SupNext, SuperviseStep

(* Whatever a scenario does and however often it is cancelled, supervise()   *)
(* neither signals its process nor returns before it has ended.              *)
THEOREM Outlived == SupSafety => []ScenarioOutlived
<1>1. SupInit => ScenarioOutlived
  BY DEF SupInit, ScenarioOutlived
<1> QED
  BY <1>1, OutlivedStep, PTL DEF SupSafety

-----------------------------------------------------------------------------
(* Only a scripted run has a scenario.                                       *)
Scripted == (scripted => scenario # "none") /\ (~scripted => scenario = "none")

(* Before the first of the three ends of the body nothing has happened yet.  *)
Watching ==
  sup = "watch" =>
    /\ where = "body" /\ raised = "no" /\ status = "failed"
    /\ signal = "none" /\ cancels = 0

(* A scenario is waited for after a verdict against it only.                 *)
CleaningUp == sup = "cleanup" => scripted /\ status = "failed"

(* The readers are waited for once the process has exited.                   *)
Draining == sup = "drain" => child # "alive"

(* Whatever goes on outside the body goes on with an exception, after a      *)
(* failure; without SIGINT, only the scenario's own leads to the finally     *)
(* block.                                                                    *)
Leaving ==
  /\ where # "body" /\ sup # "done" => status = "failed" /\ raised # "no"
  /\ where = "finally" /\ sup # "done" /\ interrupted = "no" => scenario = "error"

(* What a pass stands on from the verdict to the end.                        *)
Earned ==
  status = "passed" =>
    /\ scripted => scenario = "passed" /\ cancels = 0
    /\ ~scripted /\ timed => reason = "duration_elapsed"
    /\ ~scripted /\ ~timed =>
         child = "zero" /\ signal = "none" /\ sup \in {"drain", "done"}

(* The readers have the last word.                                           *)
Drained ==
  sup = "done" /\ raised = "no" =>
    output # "reading" /\ (status = "passed" => output = "eof")

VerdictInv ==
  /\ cancels \in Nat /\ scripted \in BOOLEAN /\ timed \in BOOLEAN
  /\ output \in {"reading", "eof", "failed"}
  /\ Scripted /\ Watching /\ CleaningUp /\ Draining /\ Leaving /\ Earned /\ Drained
  /\ NoOrphan

(* Every step keeps what the verdict and the exception stand on.             *)
LEMMA VerdictStep ==
  ASSUME VerdictInv, [SupNext]_supVars
  PROVE  VerdictInv'
<1> USE DEF VerdictInv, Scripted, Watching, CleaningUp, Draining, Leaving, Earned, Drained,
            NoOrphan, ScenarioDone, taskVars, childVars, resultVars, modeVars, Verdict
<1>1. CASE UNCHANGED supVars
  BY <1>1 DEF supVars
<1>2. CASE SeeScenarioEnd
  BY <1>2 DEF SeeScenarioEnd, StopProcess
<1>3. CASE SeeChildExit
  BY <1>3 DEF SeeChildExit, CancelTask, ThrowInto, StopProcess
<1>4. CASE DurationElapses
  BY <1>4 DEF DurationElapses, CancelTask, ThrowInto, StopProcess
<1>5. CASE CleanupExpires
  BY <1>5 DEF CleanupExpires, ThrowInto
<1>6. CASE CleanupEnds
  BY <1>6 DEF CleanupEnds, StopProcess
<1>7. CASE GraceExpires
  BY <1>7 DEF GraceExpires
<1>8. CASE Stopped
  BY <1>8 DEF Stopped
<1>9. CASE Drain
  BY <1>9 DEF Drain
<1>10. CASE Interrupt
  <2>1. CASE InterruptHandled
    BY <1>10, <2>1 DEF Interrupt, InterruptHandled, CancelTask, ThrowInto, StopProcess
  <2>2. CASE InterruptSuppressed
    BY <1>10, <2>2 DEF Interrupt, InterruptSuppressed, ThrowInto
  <2>3. CASE InterruptRetried
    BY <1>10, <2>3 DEF Interrupt, InterruptRetried, StopProcess
  <2>4. CASE InterruptEscapes
    BY <1>10, <2>4 DEF Interrupt, InterruptEscapes
  <2> QED
    BY <1>10, <2>1, <2>2, <2>3, <2>4 DEF Interrupt
<1>11. CASE ProcessStep
  BY <1>11 DEF ProcessStep, ChildExits, ChildKilled, OutputEnds, OutputFails
<1>12. CASE ScenarioEndsAlone
  BY <1>12 DEF ScenarioEndsAlone, ScenarioEnds, ScenarioResult
<1> QED
  BY <1>1, <1>2, <1>3, <1>4, <1>5, <1>6, <1>7, <1>8, <1>9, <1>10, <1>11, <1>12
  DEF SupNext, SuperviseStep

LEMMA VerdictInvariant == SupSafety => []VerdictInv
<1>1. SupInit => VerdictInv
  BY DEF SupInit, VerdictInv, Scripted, Watching, CleaningUp, Draining, Leaving, Earned,
         Drained, NoOrphan
<1> QED
  BY <1>1, VerdictStep, PTL DEF SupSafety

(* No process is left running by supervise(), except by SIGINT in the finally *)
(* block of a run whose scenario ended with an exception.                     *)
THEOREM NoneOrphaned == SupSafety => []NoOrphan
<1>1. VerdictInv => NoOrphan
  BY DEF VerdictInv
<1> QED
  BY <1>1, VerdictInvariant, PTL

(* A run that is reported as passed has passed, whatever happened to it.     *)
THEOREM PassEarned == SupSafety => []PassedIsEarned
<1>1. VerdictInv => PassedIsEarned
  BY DEF VerdictInv, Earned, Drained, PassedIsEarned
<1> QED
  BY <1>1, VerdictInvariant, PTL
-----------------------------------------------------------------------------
(* The types of supervise().                                                 *)

One(b) == IF b THEN 1 ELSE 0

(* The scenario is cancelled once by the end of the body, once by the        *)
(* cleanup timeout and once by SIGINT.                                       *)
ThrownAtMost == cancels <= One(sup # "watch") + One(expired) + One(interrupted # "no")

SupTypeInv == SupTypeOK /\ ScenarioOutlived /\ VerdictInv /\ ThrownAtMost

LEMMA SupTypeStep ==
  ASSUME SupTypeInv, [SupNext]_supVars
  PROVE  SupTypeInv'
<1> USE DEF SupTypeInv, SupTypeOK, ThrownAtMost, One
<1>1. ScenarioOutlived' /\ VerdictInv'
  BY OutlivedStep, VerdictStep
<1>2. CASE SeeScenarioEnd
  <2>1. scenario \in ScenarioResult
    BY <1>2 DEF SeeScenarioEnd, VerdictInv, Scripted, ScenarioDone
  <2> QED
    BY <1>1, <1>2, <2>1 DEF SeeScenarioEnd, StopProcess, Verdict, modeVars, childVars,
       taskVars, ScenarioResult
<1>3. CASE SeeChildExit \/ DurationElapses
  BY <1>1, <1>3 DEF SeeChildExit, DurationElapses, CancelTask, ThrowInto, StopProcess,
     ScenarioDone, Verdict, modeVars, childVars
<1>4. CASE CleanupExpires \/ CleanupEnds
  <2>1. CASE CleanupExpires
    BY <1>1, <2>1 DEF CleanupExpires, ThrowInto, ScenarioDone, modeVars, childVars, resultVars
  <2>2. CASE CleanupEnds
    BY <1>1, <2>2 DEF CleanupEnds, StopProcess, modeVars, childVars, taskVars, resultVars
  <2> QED
    BY <1>4, <2>1, <2>2
<1>5. CASE GraceExpires \/ Stopped \/ Drain
  BY <1>1, <1>5 DEF GraceExpires, Stopped, Drain, Verdict, modeVars, childVars, taskVars,
     resultVars
<1>6. CASE Interrupt
  <2> USE DEF modeVars, childVars, taskVars, resultVars, ThrowInto, ScenarioDone, StopProcess
  <2>1. interrupted = "no" /\ interrupted' \in {"watch", "cleanup", "grace", "killing",
          "drain", "finally"}
    BY <1>6 DEF Interrupt, InterruptHandled, InterruptSuppressed, InterruptRetried,
       InterruptEscapes
  <2>2. UNCHANGED <<scripted, timed, expired>>
    BY <1>6 DEF Interrupt
  <2>3. CASE InterruptHandled
    BY <1>1, <2>1, <2>2, <2>3 DEF InterruptHandled, CancelTask, Verdict, ScenarioOutlived
  <2>4. CASE InterruptSuppressed
    BY <1>1, <2>1, <2>2, <2>4 DEF InterruptSuppressed
  <2>5. CASE InterruptRetried \/ InterruptEscapes
    BY <1>1, <2>1, <2>2, <2>5 DEF InterruptRetried, InterruptEscapes
  <2> QED
    BY <1>6, <2>3, <2>4, <2>5 DEF Interrupt
<1>7. CASE ProcessStep
  BY <1>1, <1>7 DEF ProcessStep, ChildExits, ChildKilled, OutputEnds, OutputFails, modeVars,
     taskVars, resultVars
<1>8. CASE ScenarioEndsAlone
  BY <1>1, <1>8 DEF ScenarioEndsAlone, ScenarioEnds, modeVars, childVars, resultVars
<1>9. CASE UNCHANGED supVars
  BY <1>1, <1>9 DEF supVars, modeVars
<1> QED
  BY <1>2, <1>3, <1>4, <1>5, <1>6, <1>7, <1>8, <1>9 DEF SupNext, SuperviseStep

(* SIGINT is remembered as an exception, unless _cancel_task suppresses it.  *)
Remembered == raised = "no" => interrupted \in {"no", "cleanup"}

LEMMA RememberedStep ==
  ASSUME VerdictInv, Remembered, [SupNext]_supVars
  PROVE  Remembered'
<1> USE DEF Remembered, childVars, taskVars, resultVars, modeVars
<1>1. CASE SuperviseStep
  BY <1>1 DEF SuperviseStep, SeeScenarioEnd, SeeChildExit, DurationElapses, CleanupExpires,
     CleanupEnds, GraceExpires, Stopped, Drain
<1>2. CASE Interrupt
  <2>1. CASE InterruptHandled \/ InterruptEscapes
    BY <2>1 DEF InterruptHandled, InterruptEscapes
  <2>2. CASE InterruptSuppressed \/ InterruptRetried
    <3>1. where # "body" => raised # "no"
      BY <2>2 DEF InterruptSuppressed, InterruptRetried, VerdictInv, Leaving
    <3>2. raised' = raised /\ (where = "body" => sup = "cleanup")
      BY <2>2 DEF InterruptSuppressed, InterruptRetried
    <3>3. interrupted' = IF where = "finally" THEN "finally" ELSE sup
      BY <1>2 DEF Interrupt
    <3> QED
      BY <3>1, <3>2, <3>3
  <2> QED
    BY <1>2, <2>1, <2>2 DEF Interrupt
<1>3. CASE ProcessStep \/ ScenarioEndsAlone
  BY <1>3 DEF ProcessStep, ChildExits, ChildKilled, OutputEnds, OutputFails, ScenarioEndsAlone
<1>4. CASE UNCHANGED supVars
  BY <1>4 DEF supVars
<1> QED
  BY <1>1, <1>2, <1>3, <1>4 DEF SupNext

(* Where supervise() stands, for the runs and suites below.                  *)
SupInv == SupTypeInv /\ Remembered

LEMMA SupInitially == SupInit => SupInv
<1> SUFFICES ASSUME SupInit PROVE SupInv
  OBVIOUS
<1>1. VerdictInv /\ ScenarioOutlived /\ Remembered
  BY DEF SupInit, VerdictInv, Scripted, Watching, CleaningUp, Draining, Leaving, Earned,
     Drained, NoOrphan, ScenarioOutlived, Remembered
<1>2. SupTypeOK
  <2>1. scenario \in {"none", "running"}
    BY DEF SupInit
  <2>2. scripted \in BOOLEAN /\ timed \in BOOLEAN /\ expired \in BOOLEAN
    BY DEF SupInit
  <2>3. cancels \in 0 .. 3
    BY DEF SupInit
  <2>4. sup = "watch" /\ where = "body" /\ child = "alive" /\ signal = "none"
         /\ output = "reading" /\ interrupted = "no" /\ raised = "no"
         /\ status = "failed" /\ reason = "startup_failed"
    BY DEF SupInit
  <2> QED
    BY <2>1, <2>2, <2>3, <2>4 DEF SupTypeOK
<1>3. ThrownAtMost
  BY DEF SupInit, ThrownAtMost, One
<1> QED
  BY <1>1, <1>2, <1>3 DEF SupInv, SupTypeInv

LEMMA SupInvStep ==
  ASSUME SupInv, [SupNext]_supVars
  PROVE  SupInv'
<1>1. SupTypeInv'
  BY SupTypeStep DEF SupInv
<1>2. Remembered'
  BY RememberedStep DEF SupInv, SupTypeInv
<1> QED
  BY <1>1, <1>2 DEF SupInv

(* Every variable of supervise() keeps its type; in particular it throws no  *)
(* more than three cancellations into its scenario.                          *)
THEOREM SupTypeCorrect == SupSafety => []SupTypeOK
<1>1. SupInv => SupTypeOK
  BY DEF SupInv, SupTypeInv
<1> QED
  BY <1>1, SupInitially, SupInvStep, PTL DEF SupSafety

-----------------------------------------------------------------------------
(* How a supervised run comes to its end: each of its steps uses up one of   *)
(* few, and while its end is due one of those it must take can be taken.     *)

SupRank ==
  [watch |-> 5, cleanup |-> 4, grace |-> 3, killing |-> 2, drain |-> 1, done |-> 0]

\* SIGINT in the handler's _stop_process begins the grace period once more.
SupLeft ==
  2 * One(interrupted = "no") + SupRank[sup] + One(~expired) + One(child = "alive")
    + One(output = "reading") + One(scenario = "running")

\* The event that ends a run has come.
EndIsDue == timed \/ scenario \in ScenarioResult \/ interrupted # "no"

\* What SuperviseStep, a cancelled scenario, a killed process and its pipes wait for.
SupCanGoOn ==
  \/ sup = "watch" /\ (timed \/ (scripted /\ ScenarioDone))
  \/ sup = "cleanup" /\ (ScenarioDone \/ cancels > 0)
  \/ sup = "grace"
  \/ sup = "killing" /\ (child # "alive" \/ signal = "kill")
  \/ sup = "drain" /\ (output # "reading" \/ child # "alive")

\* Who is waited for has been told to end.
Told ==
  /\ sup = "cleanup" /\ ~ScenarioDone => cancels > 0
  /\ sup = "killing" /\ child = "alive" => signal = "kill"
  /\ sup = "watch" => interrupted = "no"

LEMMA ToldStep ==
  ASSUME SupInv, Told, [SupNext]_supVars
  PROVE  Told'
<1> USE DEF Told, ScenarioDone
<1>1. cancels \in Nat /\ VerdictInv /\ Scripted
  BY DEF SupInv, SupTypeInv, VerdictInv
<1>2. CASE UNCHANGED supVars
  BY <1>2 DEF supVars
<1>3. CASE SeeScenarioEnd
  BY <1>3 DEF SeeScenarioEnd, StopProcess
<1>4. CASE SeeChildExit \/ DurationElapses
  BY <1>1, <1>4 DEF SeeChildExit, DurationElapses, CancelTask, ThrowInto, StopProcess
<1>5. CASE CleanupExpires
  BY <1>1, <1>5 DEF CleanupExpires, ThrowInto
<1>6. CASE CleanupEnds \/ GraceExpires \/ Stopped \/ Drain
  BY <1>6 DEF CleanupEnds, StopProcess, GraceExpires, Stopped, Drain
<1>7. CASE Interrupt
  BY <1>1, <1>7 DEF Interrupt, InterruptHandled, InterruptSuppressed, InterruptRetried,
     InterruptEscapes, CancelTask, ThrowInto, StopProcess
<1>8. CASE ProcessStep
  BY <1>8 DEF ProcessStep, ChildExits, ChildKilled, OutputEnds, OutputFails, childVars,
     taskVars
<1>9. CASE ScenarioEndsAlone
  BY <1>9 DEF ScenarioEndsAlone, ScenarioEnds, ScenarioResult, childVars
<1> QED
  BY <1>2, <1>3, <1>4, <1>5, <1>6, <1>7, <1>8, <1>9 DEF SupNext, SuperviseStep

LEMMA SupRanks ==
  /\ SupRank["watch"] = 5 /\ SupRank["cleanup"] = 4 /\ SupRank["grace"] = 3
  /\ SupRank["killing"] = 2 /\ SupRank["drain"] = 1 /\ SupRank["done"] = 0
BY DEF SupRank

LEMMA SupLeftBound == SupTypeOK => SupLeft \in 0 .. 11
<1> SUFFICES ASSUME SupTypeOK PROVE SupLeft \in 0 .. 11
  OBVIOUS
<1>1. SupRank[sup] \in 0 .. 5
  BY SupRanks DEF SupTypeOK
<1> QED
  BY <1>1 DEF SupLeft, One

\* One step less, whoever makes it.
LEMMA SupLeftFalls ==
  ASSUME SupInv, SupNext
  PROVE  SupLeft' < SupLeft
<1>1. SupTypeOK /\ ScenarioOutlived /\ VerdictInv
  BY DEF SupInv, SupTypeInv
<1>2. SupLeft \in 0 .. 11 /\ SupRank[sup] \in 0 .. 5
  BY <1>1, SupLeftBound, SupRanks DEF SupTypeOK
<1> USE SupRanks DEF SupLeft, One, ScenarioDone
<1>3. CASE SeeScenarioEnd
  BY <1>2, <1>3 DEF SeeScenarioEnd, StopProcess, childVars, taskVars
<1>4. CASE SeeChildExit \/ DurationElapses
  BY <1>2, <1>4 DEF SeeChildExit, DurationElapses, CancelTask, StopProcess, childVars
<1>5. CASE CleanupExpires
  BY <1>1, <1>2, <1>5 DEF CleanupExpires, childVars
<1>6. CASE CleanupEnds \/ GraceExpires \/ Stopped \/ Drain
  BY <1>2, <1>6 DEF CleanupEnds, StopProcess, GraceExpires, Stopped, Drain, childVars, taskVars
<1>7. CASE Interrupt
  <2>1. interrupted = "no" /\ interrupted' # "no" /\ expired' = expired
    BY <1>1, <1>7 DEF Interrupt, SupTypeOK
  <2>2. child' = child /\ output' = output /\ scenario' = scenario
    BY <1>7 DEF Interrupt, InterruptHandled, InterruptSuppressed, InterruptRetried,
       InterruptEscapes, childVars, taskVars
  <2>3. SupRank[sup'] <= SupRank[sup] + 1
    BY <1>1, <1>7 DEF Interrupt, InterruptHandled, InterruptSuppressed, InterruptRetried,
       InterruptEscapes, CancelTask, StopProcess, ScenarioOutlived
  <2>4. SupRank[sup'] \in Int
    BY <1>7 DEF Interrupt, InterruptHandled, InterruptSuppressed, InterruptRetried,
       InterruptEscapes, CancelTask, StopProcess, SupRank
  <2> QED
    BY <1>2, <2>1, <2>2, <2>3, <2>4
<1>8. CASE ProcessStep
  BY <1>2, <1>8 DEF ProcessStep, ChildExits, ChildKilled, OutputEnds, OutputFails, taskVars
<1>9. CASE ScenarioEndsAlone
  BY <1>2, <1>9 DEF ScenarioEndsAlone, ScenarioEnds, ScenarioResult, childVars
<1> QED
  BY <1>3, <1>4, <1>5, <1>6, <1>7, <1>8, <1>9 DEF SupNext, SuperviseStep

\* A supervised run takes no more than eleven steps, those of SIGINT, the process, its
\* output and its scenario included: nothing is tried again without end.
THEOREM SupRunsDown == SupSafety => [](SupLeft \in 0 .. 11) /\ [][SupLeft' < SupLeft]_supVars
<1>1. SupInv => SupLeft \in 0 .. 11
  BY SupLeftBound DEF SupInv, SupTypeInv
<1>2. SupInv /\ [SupNext]_supVars => [SupLeft' < SupLeft]_supVars
  BY SupLeftFalls
<1> QED
  BY <1>1, <1>2, SupInitially, SupInvStep, PTL DEF SupSafety

\* Once its duration is set, its scenario has ended or SIGINT has come, a run waits for
\* nobody who has not been told to end: with SupRunsDown, the safety half of Terminates.
THEOREM SupNeverStuck == SupSafety => [](EndIsDue /\ sup # "done" => SupCanGoOn)
<1>1. SupInit => Told
  BY DEF SupInit, Told
<1>2. SupInv /\ Told => (EndIsDue /\ sup # "done" => SupCanGoOn)
  BY DEF SupInv, SupTypeInv, SupTypeOK, VerdictInv, Scripted, CleaningUp, Draining, Told,
     EndIsDue, SupCanGoOn, ScenarioDone, ScenarioResult
<1> QED
  BY <1>1, <1>2, ToldStep, SupInitially, SupInvStep, PTL DEF SupSafety

-----------------------------------------------------------------------------
(* The declarative runner.                                                   *)

\* A running scenario's report is that of an earlier testcase.
ReportOfEarlier ==
  /\ case \in Nat /\ reported \in Nat
  /\ scenario \in {"running"} \cup ScenarioResult
  /\ scenario = "running" => reported < case

\* A scenario that passes has nothing to restore.
PassedRestored == scenario = "passed" => ~pending

RunInv == ReportOfEarlier /\ SafeReportIsTrue /\ LeftOnlyAfterFinal /\ PassedRestored

-----------------------------------------------------------------------------
(* A report that ends the scenario describes the current testcase, and it is *)
(* safe only if the equipment is restored.                                   *)
LEMMA ReportKeeps ==
  ASSUME RunInv, scenario = "running",
         NEW error, NEW ending, Report(error, ending),
         pending' => ending = "failure"
  PROVE  RunInv'
<1> USE DEF RunInv, ReportOfEarlier
<1>1. CASE error = "none" /\ ending # "failure" /\ case < Len(suite)
  BY <1>1 DEF Report, SafeReportIsTrue, LeftOnlyAfterFinal, PassedRestored, ScenarioResult
<1>2. CASE ~(error = "none" /\ ending # "failure" /\ case < Len(suite))
  <2>1. scenario' \in ScenarioResult /\ case' = case /\ reported' = case /\ final' = ending
    BY <1>2, Zenon DEF Report, ScenarioEnds, ScenarioResult
  <2>2. file' = "safe" => ending # "failure"
    BY DEF Report, SafeToContinue
  <2>3. scenario' = "passed" => ending # "failure"
    BY <1>2, Zenon DEF Report, ScenarioEnds
  <2> QED
    BY <2>1, <2>2, <2>3 DEF SafeReportIsTrue, LeftOnlyAfterFinal, PassedRestored,
       ScenarioResult
<1> QED
  BY <1>1, <1>2

LEMMA ConcludeKeeps ==
  ASSUME RunInv, scenario = "running", NEW p, NEW c, Conclude(p, c)
  PROVE  RunInv'
<1>1. CASE pending'
  BY <1>1 DEF Conclude, RunInv, ReportOfEarlier, SafeReportIsTrue, LeftOnlyAfterFinal, PassedRestored,
              ScenarioResult, fileVars
<1>2. CASE ~pending'
  <2>1. Report(Raised(p, c), "none")
    BY <1>2 DEF Conclude
  <2> QED
    BY <1>2, <2>1, ReportKeeps
<1> QED
  BY <1>1, <1>2

LEMMA GotoStepKeeps ==
  ASSUME RunInv, scenario = "running", NEW s, NEW i, NEW p, NEW c, GotoStep(s, i, p, c)
  PROVE  RunInv'
BY DEF GotoStep, RunInv, ReportOfEarlier, SafeReportIsTrue, LeftOnlyAfterFinal, PassedRestored,
       ScenarioResult, fileVars

LEMMA TaskKeeps ==
  ASSUME RunInv, TaskStep
  PROVE  RunInv'
<1>1. scenario = "running"
  BY DEF TaskStep
<1>2. PICK o \in Outcome : StepEnds(o) \/ FinallyEnds(o) \/ FinalEnds(o)
  BY DEF TaskStep
<1>3. CASE StepEnds(o)
  <2>1. \/ \E s, i, p, c : GotoStep(s, i, p, c)
        \/ \E p, c : Conclude(p, c)
    BY <1>3, Zenon DEF StepEnds
  <2> QED
    BY <1>1, <2>1, GotoStepKeeps, ConcludeKeeps
<1>4. CASE FinallyEnds(o)
  <2>1. \/ \E s, i, p, c : GotoStep(s, i, p, c)
        \/ \E p, c : Conclude(p, c)
    BY <1>4, Zenon DEF FinallyEnds
  <2> QED
    BY <1>1, <2>1, GotoStepKeeps, ConcludeKeeps
<1>5. CASE FinalEnds(o)
  <2>1. CASE o = "cancel"
    BY <1>1, <1>5, <2>1 DEF FinalEnds, ScenarioEnds, RunInv, ReportOfEarlier,
       SafeReportIsTrue, LeftOnlyAfterFinal, PassedRestored, ScenarioResult, fileVars
  <2>2. CASE o # "cancel"
    <3>1. Report(Raised(primary, cleanup), IF o = "none" THEN "restored" ELSE o)
      BY <1>5, <2>2 DEF FinalEnds
    <3>2. pending' => o = "failure"
      BY <1>5, <2>2 DEF FinalEnds, Restore, Outcome
    <3> QED
      BY <1>1, <3>1, <3>2, ReportKeeps
  <2> QED
    BY <2>1, <2>2
<1> QED
  BY <1>2, <1>3, <1>4, <1>5

(* Nothing but a step of the scenario itself touches the report or the       *)
(* equipment, or ends the scenario.                                          *)
LEMMA SurroundingsKeepTask ==
  ASSUME Surroundings
  PROVE  UNCHANGED <<scenario, runVars>>
<1>1. UNCHANGED runVars
  BY DEF Surroundings
<1>2. UNCHANGED scenario
  <2> USE DEF taskVars
  <2>1. CASE SuperviseStep
    BY <2>1 DEF SuperviseStep, SeeScenarioEnd, SeeChildExit, DurationElapses,
       CleanupExpires, CleanupEnds, GraceExpires, Stopped, Drain
  <2>2. CASE Interrupt
    BY <2>2 DEF Interrupt, InterruptHandled, InterruptSuppressed, InterruptRetried,
       InterruptEscapes
  <2>3. CASE ProcessStep
    BY <2>3 DEF ProcessStep, ChildExits, ChildKilled, OutputEnds, OutputFails
  <2> QED
    BY <2>1, <2>2, <2>3 DEF Surroundings
<1> QED
  BY <1>1, <1>2

LEMMA RunInvStep ==
  ASSUME RunInv, [ProcNext]_procVars
  PROVE  RunInv'
<1> USE DEF RunInv, ReportOfEarlier, SafeReportIsTrue, LeftOnlyAfterFinal, PassedRestored
<1>1. CASE TaskStep
  BY <1>1, TaskKeeps
<1>2. CASE Surroundings
  BY <1>2, SurroundingsKeepTask DEF runVars, caseVars, panelVars, fileVars
<1>3. CASE StragglerEnds
  BY <1>3 DEF StragglerEnds, supVars, taskVars, caseVars, fileVars
<1>4. CASE UNCHANGED procVars
  BY <1>4 DEF procVars, supVars, taskVars, runVars, caseVars, panelVars, fileVars
<1> QED
  BY <1>1, <1>2, <1>3, <1>4 DEF ProcNext

LEMMA RunInvariant == ProcSpec => []RunInv
<1>1. ProcInit => RunInv
  BY DEF ProcInit, SupInit, RunInit, RunInv, ReportOfEarlier, SafeReportIsTrue,
         LeftOnlyAfterFinal, PassedRestored, ScenarioResult
<1> QED
  BY <1>1, RunInvStep, PTL DEF ProcSpec

(* A safe report is true of the equipment if it describes the testcase the   *)
(* run ended in: SafeReportIsTrue, for every suite.                          *)
THEOREM SafeReport == ProcSpec => []SafeReportIsTrue
<1>1. RunInv => SafeReportIsTrue
  BY DEF RunInv
<1> QED
  BY <1>1, RunInvariant, PTL

(* Equipment is left behind only after a final safety restoration that       *)
(* failed or was cancelled: LeftOnlyAfterFinal, for every suite.             *)
THEOREM LeftOnly == ProcSpec => []LeftOnlyAfterFinal
<1>1. RunInv => LeftOnlyAfterFinal
  BY DEF RunInv
<1> QED
  BY <1>1, RunInvariant, PTL

-----------------------------------------------------------------------------
(* The scenario ends in a result that supervise() knows, and changes nothing *)
(* of the supervisor's.                                                      *)
LEMMA TaskIsScenario ==
  ASSUME TaskStep
  PROVE  ScenarioEndsAlone \/ UNCHANGED supVars
<1>1. scenario = "running"
       /\ UNCHANGED <<modeVars, sup, where, childVars, signal, cancels, expired,
                      interrupted, raised, resultVars>>
  BY DEF TaskStep
<1>2. scenario' = "running" \/ scenario' \in ScenarioResult
  <2>1. ASSUME NEW e, NEW f, Report(e, f)
        PROVE  scenario' = scenario \/ scenario' \in ScenarioResult
    BY <2>1, Zenon DEF Report, ScenarioEnds, ScenarioResult
  <2>2. ASSUME NEW p, NEW c, Conclude(p, c)
        PROVE  scenario' = scenario \/ scenario' \in ScenarioResult
    BY <2>1, <2>2, Zenon DEF Conclude
  <2>3. PICK o \in Outcome : StepEnds(o) \/ FinallyEnds(o) \/ FinalEnds(o)
    BY DEF TaskStep
  <2>4. CASE StepEnds(o)
    BY <1>1, <2>2, <2>4, Zenon DEF StepEnds, GotoStep
  <2>5. CASE FinallyEnds(o)
    BY <1>1, <2>2, <2>5, Zenon DEF FinallyEnds, GotoStep
  <2>6. CASE FinalEnds(o)
    BY <1>1, <2>1, <2>6, Zenon DEF FinalEnds, ScenarioEnds, ScenarioResult
  <2> QED
    BY <1>1, <2>3, <2>4, <2>5, <2>6
<1> QED
  BY <1>1, <1>2 DEF ScenarioEndsAlone, ScenarioEnds, ScenarioResult, supVars, childVars,
                    resultVars

LEMMA ProcIsSup ==
  ASSUME [ProcNext]_procVars
  PROVE  [SupNext]_supVars
<1>1. CASE TaskStep
  BY <1>1, TaskIsScenario DEF SupNext
<1>2. CASE Surroundings
  BY <1>2 DEF Surroundings, SupNext
<1>3. CASE StragglerEnds
  BY <1>3 DEF StragglerEnds
<1>4. CASE UNCHANGED procVars
  BY <1>4 DEF procVars
<1> QED
  BY <1>1, <1>2, <1>3, <1>4 DEF ProcNext

(* A suite of testcases is a scenario of Supervisor: the safety half of      *)
(* IsSupervised, for every suite.                                            *)
THEOREM Supervised == ProcSpec => SupSafety
<1>1. ProcInit => SupInit
  BY DEF ProcInit
<1> QED
  BY <1>1, ProcIsSup, PTL DEF ProcSpec, SupSafety

(* Every restoration of a suite has the process it needs.                    *)
THEOREM SuiteOutlived == ProcSpec => []ScenarioOutlived
BY Supervised, Outlived, PTL
-----------------------------------------------------------------------------
(* The types of the runner.                                                  *)

PanelTaskTypes ==
  /\ initialized \in BOOLEAN /\ ready \in {FALSE, initialized}
  /\ pending \in BOOLEAN /\ straggler \in BOOLEAN
  /\ setting \in {"default", "altered"}

(* Where the runner stands.  An error ends the steps, and each finally step  *)
(* adds at most one more.                                                    *)
CaseTypes ==
  /\ suite \in Suites /\ case \in DOMAIN suite
  /\ section \in {"steps", "finally", "final"}
  /\ index \in Nat
  /\ section = "steps" => index \in DOMAIN Steps /\ primary = "none" /\ cleanup = <<>>
  /\ section = "finally" => index \in DOMAIN Finally /\ Len(cleanup) < index
  /\ primary \in Outcome
  /\ cleanup \in Seq({"failure", "cancel"}) /\ Len(cleanup) <= Len(Finally)

FileTypes ==
  /\ file \in {"absent", "safe", "unsafe"}
  /\ final \in {"none", "restored", "failure", "cancel"}
  /\ reported \in 0 .. case

RunTypes ==
  PanelTaskTypes /\ CaseTypes /\ FileTypes /\ cancels \in Nat /\ delivered \in 0 .. cancels

LEMMA SuiteShape ==
  ASSUME NEW s \in Suites, NEW c \in DOMAIN s
  PROVE  /\ s \in Seq([steps : Seq(Keyword) \ {<<>>}, finally : Seq({"restore", "reset"})])
         /\ DOMAIN s = 1 .. Len(s) /\ Len(s) \in Nat /\ c \in 1 .. Len(s)
         /\ s[c].steps \in Seq(Keyword) /\ s[c].steps # <<>>
         /\ s[c].finally \in Seq({"restore", "reset"})
<1> DEFINE T == [steps : Seq(Keyword) \ {<<>>}, finally : Seq({"restore", "reset"})]
<1>1. s \in Seq(T)
  BY SuitesAssumption
<1>2. DOMAIN s = 1 .. Len(s) /\ Len(s) \in Nat /\ s[c] \in T
  <2> HIDE DEF T
  <2> QED
    BY <1>1
<1> QED
  BY <1>1, <1>2

LEMMA DispatchTypes ==
  ASSUME PanelTaskTypes, NEW k \in Keyword, NEW o \in Outcome, Dispatch(k, o)
  PROVE  PanelTaskTypes'
<1> USE DEF PanelTaskTypes, Keyword, Outcome
<1>1. CASE k = "initialize"
  <2>1. Initialize(o)
    BY <1>1 DEF Dispatch
  <2>2. initialized => initialized'
    BY <2>1 DEF Initialize
  <2>3. initialized' \in BOOLEAN /\ (o = "none" => initialized' = TRUE)
    BY <2>1 DEF Initialize
  <2> QED
    BY <2>1, <2>2, <2>3 DEF Initialize
<1>2. CASE k = "mutate"
  BY <1>2 DEF Dispatch, Mutate
<1>3. CASE k = "check"
  BY <1>3 DEF Dispatch, panelVars
<1>4. CASE k = "set"
  BY <1>4 DEF Dispatch, SetPowerCenter
<1>5. CASE k = "reset"
  BY <1>5 DEF Dispatch, ResetPowerCenter
<1>6. CASE k = "restore"
  BY <1>6 DEF Dispatch, Restore
<1> QED
  BY <1>1, <1>2, <1>3, <1>4, <1>5, <1>6

LEMMA GotoStepTypes ==
  ASSUME CaseTypes, FileTypes, suite' = suite, NEW s, NEW i, NEW p, NEW c,
         GotoStep(s, i, p, c), i \in Nat, p \in Outcome, c \in Seq({"failure", "cancel"}),
         \/ s = "steps" /\ i \in DOMAIN Steps /\ p = "none" /\ c = <<>>
         \/ s = "finally" /\ i \in DOMAIN Finally /\ Len(c) < i
  PROVE  CaseTypes' /\ FileTypes'
<1> USE DEF GotoStep, fileVars
<1>1. FileTypes' /\ Steps' = Steps /\ Finally' = Finally
  BY DEF FileTypes, Steps, Finally
<1>2. Finally \in Seq({"restore", "reset"})
  BY SuiteShape DEF CaseTypes, Finally
<1>3. Len(c) <= Len(Finally)
  BY <1>2
<1> QED
  BY <1>1, <1>3 DEF CaseTypes

(* A passed testcase is followed by the first step of the next.              *)
LEMMA ReportTypes ==
  ASSUME CaseTypes, FileTypes, suite' = suite, NEW e, NEW f \in {"none", "restored", "failure"},
         Report(e, f)
  PROVE  CaseTypes' /\ FileTypes'
<1>1. case \in 1 .. Len(suite) /\ Len(suite) \in Nat /\ DOMAIN suite = 1 .. Len(suite)
  BY SuiteShape DEF CaseTypes
<1>2. file' \in {"safe", "unsafe"} /\ reported' = case
  BY DEF Report
<1>3. CASE e = "none" /\ f # "failure" /\ case < Len(suite)
  <2>1. case' = case + 1 /\ section' = "steps" /\ index' = 1 /\ primary' = "none"
         /\ cleanup' = <<>> /\ final' = "none"
    BY <1>3 DEF Report
  <2>2. case' \in DOMAIN suite
    BY <1>1, <1>3, <2>1
  <2>3. suite[case'].steps \in Seq(Keyword) /\ suite[case'].steps # <<>>
         /\ suite[case'].finally \in Seq({"restore", "reset"})
    BY <2>2, SuiteShape DEF CaseTypes
  <2>4. 1 \in DOMAIN suite[case'].steps /\ Len(<<>>) <= Len(suite[case'].finally)
    BY <2>3
  <2> QED
    BY <1>1, <1>2, <2>1, <2>2, <2>4 DEF CaseTypes, FileTypes, Steps, Finally, Outcome
<1>4. CASE ~(e = "none" /\ f # "failure" /\ case < Len(suite))
  <2>1. UNCHANGED <<case, section, index, primary, cleanup>> /\ final' = f
    BY <1>4, Zenon DEF Report
  <2> QED
    BY <1>1, <1>2, <2>1 DEF CaseTypes, FileTypes, Steps, Finally
<1> QED
  BY <1>3, <1>4

LEMMA ConcludeTypes ==
  ASSUME CaseTypes, FileTypes, suite' = suite, NEW p \in Outcome,
         NEW c \in Seq({"failure", "cancel"}), Len(c) <= Len(Finally), Conclude(p, c)
  PROVE  CaseTypes' /\ FileTypes'
<1>1. CASE pending'
  BY <1>1 DEF Conclude, CaseTypes, FileTypes, Steps, Finally, fileVars
<1>2. CASE ~pending'
  <2>1. Report(Raised(p, c), "none")
    BY <1>2 DEF Conclude
  <2> QED
    BY <2>1, ReportTypes
<1> QED
  BY <1>1, <1>2

LEMMA TaskTypes ==
  ASSUME RunTypes, TaskStep
  PROVE  RunTypes'
<1>1. suite' = suite /\ cancels' = cancels /\ PanelTaskTypes /\ CaseTypes /\ FileTypes
  BY DEF TaskStep, RunTypes
<1>2. PICK o \in Outcome : StepEnds(o) \/ FinallyEnds(o) \/ FinalEnds(o)
  BY DEF TaskStep
<1>3. delivered' \in 0 .. cancels' /\ cancels' \in Nat
  BY <1>1, <1>2 DEF StepEnds, FinallyEnds, FinalEnds, Delivers, RunTypes
<1>4. /\ Steps \in Seq(Keyword) /\ Steps # <<>>
      /\ Finally \in Seq({"restore", "reset"})
  BY <1>1, SuiteShape DEF CaseTypes, Steps, Finally
<1>5. <<>> \in Seq({"failure", "cancel"}) /\ Len(<<>>) = 0 /\ 0 <= Len(Finally)
  BY <1>4
<1>6. CASE StepEnds(o)
  <2>1. section = "steps" /\ Dispatch(Steps[index], o)
    BY <1>6 DEF StepEnds
  <2>2. index \in DOMAIN Steps /\ Steps[index] \in Keyword /\ index \in Nat
    BY <1>1, <1>4, <2>1 DEF CaseTypes
  <2>3. PanelTaskTypes'
    BY <1>1, <2>1, <2>2, DispatchTypes
  <2>4. CASE o = "none" /\ index < Len(Steps)
    <3>1. GotoStep("steps", index + 1, o, <<>>)
      BY <1>6, <2>4 DEF StepEnds
    <3>2. index + 1 \in DOMAIN Steps /\ index + 1 \in Nat /\ "none" \in Outcome
      BY <1>4, <2>2, <2>4 DEF Outcome
    <3>3. CaseTypes' /\ FileTypes'
      BY <1>1, <1>5, <2>2, <2>4, <3>1, <3>2, GotoStepTypes
    <3> QED
      BY <1>3, <2>3, <3>3 DEF RunTypes
  <2>5. CASE ~(o = "none" /\ index < Len(Steps)) /\ Finally # <<>>
    <3>1. GotoStep("finally", 1, o, <<>>)
      BY <1>6, <2>5 DEF StepEnds
    <3>2. 1 \in DOMAIN Finally /\ 1 \in Nat /\ Len(<<>>) < 1
      BY <1>4, <1>5, <2>5
    <3>3. CaseTypes' /\ FileTypes'
      BY <1>1, <1>5, <3>1, <3>2, GotoStepTypes
    <3> QED
      BY <1>3, <2>3, <3>3 DEF RunTypes
  <2>6. CASE ~(o = "none" /\ index < Len(Steps)) /\ Finally = <<>>
    <3>1. Conclude(o, <<>>)
      BY <1>6, <2>6 DEF StepEnds
    <3>2. CaseTypes' /\ FileTypes'
      BY <1>1, <1>5, <3>1, ConcludeTypes
    <3> QED
      BY <1>3, <2>3, <3>2 DEF RunTypes
  <2> QED
    BY <2>4, <2>5, <2>6
<1>7. CASE FinallyEnds(o)
  <2> DEFINE errors == IF o = "none" THEN cleanup ELSE Append(cleanup, o)
  <2>1. section = "finally" /\ Dispatch(Finally[index], o)
    BY <1>7 DEF FinallyEnds
  <2>2. index \in DOMAIN Finally /\ Finally[index] \in Keyword /\ Len(cleanup) < index
    BY <1>1, <1>4, <2>1 DEF CaseTypes, Keyword
  <2>3. PanelTaskTypes'
    BY <1>1, <2>1, <2>2, DispatchTypes
  <2>4. cleanup \in Seq({"failure", "cancel"}) /\ primary \in Outcome
    BY <1>1 DEF CaseTypes
  <2>5. errors \in Seq({"failure", "cancel"}) /\ Len(errors) <= index /\ index <= Len(Finally)
    BY <1>4, <2>2, <2>4 DEF Outcome
  <2> HIDE DEF errors
  <2>6. CASE index < Len(Finally)
    <3>1. GotoStep("finally", index + 1, primary, errors)
      BY <1>7, <2>6 DEF FinallyEnds, errors
    <3>2. index + 1 \in DOMAIN Finally /\ Len(errors) < index + 1
      BY <1>4, <2>2, <2>5, <2>6
    <3>3. CaseTypes' /\ FileTypes'
      BY <1>1, <2>4, <2>5, <3>1, <3>2, GotoStepTypes
    <3> QED
      BY <1>3, <2>3, <3>3 DEF RunTypes
  <2>7. CASE ~(index < Len(Finally))
    <3>1. Conclude(primary, errors)
      BY <1>7, <2>7 DEF FinallyEnds, errors
    <3>2. Len(errors) <= Len(Finally)
      BY <1>4, <2>2, <2>5
    <3>3. CaseTypes' /\ FileTypes'
      BY <1>1, <2>4, <2>5, <3>1, <3>2, ConcludeTypes
    <3> QED
      BY <1>3, <2>3, <3>3 DEF RunTypes
  <2> QED
    BY <2>6, <2>7
<1>8. CASE FinalEnds(o)
  <2>1. PanelTaskTypes'
    BY <1>1, <1>8 DEF FinalEnds, Restore, PanelTaskTypes
  <2>2. CASE o = "cancel"
    <3>1. CaseTypes' /\ FileTypes'
      BY <1>1, <1>8, <2>2 DEF FinalEnds, CaseTypes, FileTypes, Steps, Finally, fileVars
    <3> QED
      BY <1>3, <2>1, <3>1 DEF RunTypes
  <2>3. CASE o # "cancel"
    <3>1. Report(Raised(primary, cleanup), IF o = "none" THEN "restored" ELSE o)
      BY <1>8, <2>3 DEF FinalEnds
    <3>2. CaseTypes' /\ FileTypes'
      BY <1>1, <2>3, <3>1, ReportTypes DEF Outcome
    <3> QED
      BY <1>3, <2>1, <3>2 DEF RunTypes
  <2> QED
    BY <2>2, <2>3
<1> QED
  BY <1>2, <1>6, <1>7, <1>8

\* Everything that is known of a run, for the suites below.
ProcInv == SupInv /\ scripted /\ RunInv /\ RunTypes

\* A run that begins: ProcInit, and NextProcess of a composite suite.
RunBegins ==
  SupInit /\ scripted /\ suite \in Suites /\ setting \in {"default", "altered"} /\ RunInit

LEMMA NonEmpty ==
  ASSUME NEW T, NEW s \in Seq(T), s # <<>>
  PROVE  1 \in DOMAIN s
OBVIOUS

\* A run at its first step, under any supervision.
LEMMA RunTyped ==
  ASSUME suite \in Suites, setting \in {"default", "altered"}, RunInit, cancels \in Nat
  PROVE  RunTypes
<1>1. PanelTaskTypes /\ delivered \in 0 .. cancels
  <2>1. delivered = 0
    BY DEF RunInit
  <2>2. PanelTaskTypes
    BY Zenon DEF RunInit, PanelTaskTypes
  <2> QED
    BY <2>1, <2>2
<1>2. 1 \in DOMAIN suite
  <2>1. suite # <<>> /\ \E T : suite \in Seq(T)
    BY SuitesAssumption, Zenon
  <2>2. PICK T : suite \in Seq(T)
    BY <2>1
  <2> QED
    BY <2>1, <2>2, NonEmpty
<1>3. /\ suite[1].steps \in Seq(Keyword) /\ suite[1].steps # <<>>
      /\ suite[1].finally \in Seq({"restore", "reset"})
  BY <1>2, SuiteShape
<1>4. 1 \in DOMAIN suite[1].steps /\ Len(<<>>) <= Len(suite[1].finally)
  BY <1>3
<1>5. CaseTypes
  BY <1>2, <1>4 DEF RunInit, CaseTypes, Steps, Finally, Outcome
<1>6. FileTypes
  BY DEF RunInit, FileTypes
<1> QED
  BY <1>1, <1>5, <1>6 DEF RunTypes

LEMMA BeginsWell == RunBegins => ProcInv
<1> SUFFICES ASSUME RunBegins PROVE ProcInv
  OBVIOUS
<1>1. SupInv
  BY SupInitially DEF RunBegins
<1>2. RunInv
  BY DEF RunBegins, SupInit, RunInit, RunInv, ReportOfEarlier, SafeReportIsTrue,
         LeftOnlyAfterFinal, PassedRestored, ScenarioResult
<1>3. RunTypes
  BY RunTyped DEF RunBegins, SupInit
<1> QED
  BY <1>1, <1>2, <1>3 DEF ProcInv, RunBegins

(* Nothing takes back a cancellation.                                        *)
LEMMA NeverTakenBack ==
  ASSUME Surroundings, cancels \in Nat
  PROVE  scripted' = scripted /\ cancels <= cancels'
<1>1. ThrowInto => cancels <= cancels'
  BY DEF ThrowInto
<1> USE DEF modeVars, taskVars
<1>2. CASE SuperviseStep
  <2>1. CASE SeeChildExit \/ DurationElapses
    BY <1>1, <2>1 DEF SeeChildExit, DurationElapses, CancelTask
  <2>2. CASE CleanupExpires
    BY <1>1, <2>2 DEF CleanupExpires
  <2>3. CASE SeeScenarioEnd \/ CleanupEnds \/ GraceExpires \/ Stopped \/ Drain
    BY <2>3 DEF SeeScenarioEnd, CleanupEnds, GraceExpires, Stopped, Drain
  <2> QED
    BY <1>2, <2>1, <2>2, <2>3 DEF SuperviseStep
<1>3. CASE Interrupt
  <2>1. CASE InterruptHandled \/ InterruptSuppressed
    BY <1>1, <1>3, <2>1 DEF Interrupt, InterruptHandled, InterruptSuppressed, CancelTask
  <2>2. CASE InterruptRetried \/ InterruptEscapes
    BY <1>3, <2>2 DEF Interrupt, InterruptRetried, InterruptEscapes
  <2> QED
    BY <1>3, <2>1, <2>2 DEF Interrupt
<1>4. CASE ProcessStep
  BY <1>4 DEF ProcessStep, ChildExits, ChildKilled, OutputEnds, OutputFails
<1> QED
  BY <1>2, <1>3, <1>4 DEF Surroundings

(* The types of a run that stands still.                                     *)
LEMMA RunTypesStutter ==
  ASSUME RunTypes, UNCHANGED runVars
  PROVE  CaseTypes' /\ FileTypes' /\ PanelTaskTypes'
<1>1. UNCHANGED suite /\ UNCHANGED caseVars /\ UNCHANGED panelVars /\ UNCHANGED fileVars
  BY Zenon DEF runVars
<1>2. CaseTypes'
  BY Zenon, <1>1 DEF RunTypes, CaseTypes, Steps, Finally, caseVars
<1>3. FileTypes'
  BY Zenon, <1>1 DEF RunTypes, FileTypes, caseVars, fileVars
<1>4. PanelTaskTypes'
  BY Zenon, <1>1 DEF RunTypes, PanelTaskTypes, panelVars
<1> QED
  BY <1>2, <1>3, <1>4

LEMMA ProcInvStep ==
  ASSUME ProcInv, [ProcNext]_procVars
  PROVE  ProcInv'
<1>1. SupInv' /\ RunInv'
  BY ProcIsSup, SupInvStep, RunInvStep DEF ProcInv
<1>2. cancels \in Nat /\ cancels' \in Nat /\ RunTypes /\ scripted
  BY <1>1 DEF SupInv, SupTypeInv, VerdictInv, ProcInv
<1>3. CASE TaskStep
  BY <1>1, <1>2, <1>3, TaskTypes DEF ProcInv, TaskStep, modeVars
<1>4. CASE Surroundings
  <2>1. UNCHANGED runVars
    BY <1>4 DEF Surroundings
  <2>2. scripted' = scripted /\ cancels <= cancels'
    BY <1>2, <1>4, NeverTakenBack
  <2>3. CaseTypes' /\ FileTypes' /\ PanelTaskTypes'
    BY <1>2, <2>1, RunTypesStutter
  <2>4. delivered' = delivered /\ delivered \in 0 .. cancels
    BY <1>2, <2>1 DEF runVars, RunTypes
  <2> QED
    BY <1>1, <1>2, <2>2, <2>3, <2>4 DEF ProcInv, RunTypes
<1>5. CASE StragglerEnds
  <2>1. /\ UNCHANGED suite /\ UNCHANGED caseVars /\ UNCHANGED fileVars
        /\ scripted' = scripted /\ cancels' = cancels /\ delivered' = delivered
    BY Zenon, <1>5 DEF StragglerEnds, supVars, modeVars
  <2>2. CaseTypes'
    BY Zenon, <1>2, <2>1 DEF RunTypes, CaseTypes, Steps, Finally, caseVars
  <2>3. FileTypes'
    BY Zenon, <1>2, <2>1 DEF RunTypes, FileTypes, caseVars, fileVars
  <2>4. PanelTaskTypes'
    BY Zenon, <1>2, <1>5 DEF StragglerEnds, RunTypes, PanelTaskTypes
  <2>5. delivered \in 0 .. cancels
    BY <1>2 DEF RunTypes
  <2> QED
    BY <1>1, <1>2, <2>1, <2>2, <2>3, <2>4, <2>5 DEF ProcInv, RunTypes
<1>6. CASE UNCHANGED procVars
  <2>1. UNCHANGED runVars /\ scripted' = scripted /\ cancels' = cancels
    BY Zenon, <1>6 DEF procVars, supVars, modeVars
  <2>2. CaseTypes' /\ FileTypes' /\ PanelTaskTypes'
    BY <1>2, <2>1, RunTypesStutter
  <2>3. delivered' = delivered /\ delivered \in 0 .. cancels
    BY <1>2, <2>1 DEF runVars, RunTypes
  <2> QED
    BY <1>1, <1>2, <2>1, <2>2, <2>3 DEF ProcInv, RunTypes
<1> QED
  BY <1>3, <1>4, <1>5, <1>6 DEF ProcNext

LEMMA RunTypedOK == SupTypeOK /\ RunTypes => ProcTypeOK
<1> SUFFICES ASSUME SupTypeOK, RunTypes PROVE ProcTypeOK
  OBVIOUS
<1>1. /\ Steps \in Seq(Keyword)
      /\ Finally \in Seq({"restore", "reset"})
  BY SuiteShape DEF RunTypes, CaseTypes, Steps, Finally
<1>2. index \in 1 .. Len(IF section = "steps" THEN Steps ELSE Finally) \/ section = "final"
  BY <1>1 DEF RunTypes, CaseTypes
<1> QED
  BY <1>2 DEF ProcTypeOK, RunTypes, PanelTaskTypes, CaseTypes, FileTypes

LEMMA ProcTyped == ProcInv => ProcTypeOK
BY RunTypedOK DEF ProcInv, SupInv, SupTypeInv

(* Every variable of a run keeps its type, for every suite; in particular no *)
(* more errors of a finally section are kept than it has steps.              *)
THEOREM ProcTypeCorrect == ProcSpec => []ProcTypeOK
<1>1. ProcInit => ProcInv
  BY BeginsWell DEF ProcInit, RunBegins
<1> QED
  BY <1>1, ProcInvStep, ProcTyped, PTL DEF ProcSpec
-----------------------------------------------------------------------------
(* What a pass leaves behind.  Until its first error a testcase has set the  *)
(* Power Center only if one of its steps does, and its finally section still *)
(* has the reset before it.                                                  *)
SetsSomething == \E j \in DOMAIN Steps : Steps[j] = "set"
ResetFrom(i)  == \E j \in i .. Len(Finally) : Finally[j] = "reset"

NoErrorYet == scenario = "running" /\ primary = "none" /\ cleanup = <<>>

CleanSoFar ==
  NoErrorYet =>
    /\ ~straggler
    /\ section = "steps" => setting = "default" \/ SetsSomething
    /\ section = "finally" => setting = "default" \/ ResetFrom(index)
    /\ section = "final" => setting = "default"

PassedClean == scenario = "passed" => setting = "default" /\ ~straggler

Clean == CleanSoFar /\ PassedClean

\* execute() raises unless there was no error.
LEMMA RaisedNothing ==
  ASSUME NEW p, NEW c \in Seq({"failure", "cancel"}), Raised(p, c) = "none"
  PROVE  p = "none" /\ c = <<>>
<1>1. CASE p = "none" /\ c = <<>>
  BY <1>1
<1>2. CASE p = "none" /\ Len(c) = 1 /\ c # <<>>
  <2>1. Raised(p, c) = c[1]
    BY <1>2, Zenon DEF Raised
  <2>2. c[1] \in {"failure", "cancel"}
    BY <1>2
  <2> QED
    BY <2>1, <2>2
<1>3. CASE p # "none" /\ c = <<>>
  <2>1. Raised(p, c) = p
    BY <1>3, Zenon DEF Raised
  <2> QED
    BY <1>3, <2>1
<1>4. CASE ~(p = "none" /\ c = <<>>) /\ ~(p = "none" /\ Len(c) = 1) /\ ~(p # "none" /\ c = <<>>)
  <2>1. Raised(p, c) = "failure"
    BY <1>4, Zenon DEF Raised
  <2> QED
    BY <2>1
<1> QED
  BY <1>1, <1>2, <1>3, <1>4

LEMMA ReportClean ==
  ASSUME scenario = "running", NEW e, NEW f, Report(e, f),
         e = "none" => setting' = "default" /\ ~straggler'
  PROVE  Clean'
<1> USE DEF Clean, CleanSoFar, PassedClean, NoErrorYet
<1>1. CASE e = "none" /\ f # "failure" /\ case < Len(suite)
  BY <1>1 DEF Report
<1>2. CASE ~(e = "none" /\ f # "failure" /\ case < Len(suite))
  <2>1. scenario' = "passed" => e = "none"
    BY <1>2, Zenon DEF Report, ScenarioEnds
  <2>2. scenario' # "running"
    BY <1>2, Zenon DEF Report, ScenarioEnds
  <2> QED
    BY <2>1, <2>2
<1> QED
  BY <1>1, <1>2

LEMMA ConcludeClean ==
  ASSUME scenario = "running", NEW p, NEW c \in Seq({"failure", "cancel"}), Conclude(p, c),
         p = "none" /\ c = <<>> => setting' = "default" /\ ~straggler'
  PROVE  Clean'
<1>1. CASE pending'
  BY <1>1 DEF Conclude, Clean, CleanSoFar, PassedClean, NoErrorYet
<1>2. CASE ~pending'
  <2>1. Report(Raised(p, c), "none")
    BY <1>2 DEF Conclude
  <2> QED
    BY <2>1, ReportClean, RaisedNothing
<1> QED
  BY <1>1, <1>2

\* A keyword that ends well alters the Power Center only if it is "set".
LEMMA DispatchClean ==
  ASSUME NEW k \in Keyword, Dispatch(k, "none")
  PROVE  /\ straggler' = straggler
         /\ k # "set" => setting' \in {setting, "default"}
         /\ k = "reset" => setting' = "default"
         /\ k = "restore" => setting' = setting
<1> USE DEF Keyword
<1>1. CASE k = "initialize"
  BY <1>1 DEF Dispatch, Initialize
<1>2. CASE k = "mutate"
  BY <1>2 DEF Dispatch, Mutate
<1>3. CASE k = "check"
  BY <1>3 DEF Dispatch, panelVars
<1>4. CASE k = "set"
  BY <1>4 DEF Dispatch, SetPowerCenter
<1>5. CASE k = "reset"
  BY <1>5 DEF Dispatch, ResetPowerCenter
<1>6. CASE k = "restore"
  BY <1>6 DEF Dispatch, Restore
<1> QED
  BY <1>1, <1>2, <1>3, <1>4, <1>5, <1>6

LEMMA TaskClean ==
  ASSUME ResetsWhatItSets, RunTypes, Clean, TaskStep
  PROVE  Clean'
<1>1. suite' = suite /\ scenario = "running" /\ CaseTypes
  BY DEF TaskStep, RunTypes
<1>2. PICK o \in Outcome : StepEnds(o) \/ FinallyEnds(o) \/ FinalEnds(o)
  BY DEF TaskStep
<1>3. /\ Steps \in Seq(Keyword) /\ Finally \in Seq({"restore", "reset"})
      /\ cleanup \in Seq({"failure", "cancel"}) /\ <<>> \in Seq({"failure", "cancel"})
  BY <1>1, SuiteShape DEF CaseTypes, Steps, Finally
<1>4. SetsSomething => ResetFrom(1)
  <2>1. case \in DOMAIN suite /\ suite \in Suites
    BY <1>1 DEF CaseTypes
  <2>2. "set" \in {Steps[j] : j \in DOMAIN Steps} => "reset" \in {Finally[j] : j \in DOMAIN Finally}
    BY <2>1 DEF ResetsWhatItSets, Steps, Finally
  <2>3. DOMAIN Finally = 1 .. Len(Finally)
    BY <1>3
  <2> QED
    BY <2>2, <2>3 DEF SetsSomething, ResetFrom
<1>5. CASE StepEnds(o)
  <2>1. /\ section = "steps" /\ Dispatch(Steps[index], o)
        /\ index \in DOMAIN Steps /\ Steps[index] \in Keyword
        /\ primary = "none" /\ cleanup = <<>>
    BY <1>1, <1>3, <1>5 DEF StepEnds, CaseTypes
  <2>2. o = "none" => ~straggler' /\ (setting' = "default" \/ SetsSomething)
    <3>1. CASE o = "none"
      <4>1. ~straggler /\ (setting = "default" \/ SetsSomething)
        BY <1>1, <2>1 DEF Clean, CleanSoFar, NoErrorYet
      <4>2. straggler' = straggler
            /\ (Steps[index] # "set" => setting' \in {setting, "default"})
        BY <2>1, <3>1, DispatchClean
      <4> QED
        BY <2>1, <4>1, <4>2 DEF SetsSomething
    <3> QED
      BY <3>1
  <2>3. CASE o = "none" /\ index < Len(Steps)
    <3>1. GotoStep("steps", index + 1, o, <<>>)
      BY <1>5, <2>3 DEF StepEnds
    <3>2. SetsSomething' = SetsSomething
      BY <1>1, <3>1 DEF GotoStep, SetsSomething, Steps
    <3> QED
      BY <1>1, <2>2, <2>3, <3>1, <3>2
      DEF GotoStep, Clean, CleanSoFar, PassedClean, NoErrorYet
  <2>4. CASE ~(o = "none" /\ index < Len(Steps)) /\ Finally # <<>>
    <3>1. GotoStep("finally", 1, o, <<>>)
      BY <1>5, <2>4 DEF StepEnds
    <3>2. ResetFrom(1)' = ResetFrom(1) /\ index' = 1
      BY <1>1, <3>1 DEF GotoStep, ResetFrom, Finally
    <3>3. o = "none" => ~straggler' /\ (setting' = "default" \/ ResetFrom(index)')
      BY <1>4, <2>2, <3>2 DEF ResetFrom
    <3> QED
      BY <1>1, <3>1, <3>3 DEF GotoStep, Clean, CleanSoFar, PassedClean, NoErrorYet
  <2>5. CASE ~(o = "none" /\ index < Len(Steps)) /\ Finally = <<>>
    <3>1. Conclude(o, <<>>)
      BY <1>5, <2>5 DEF StepEnds
    <3>2. ~ResetFrom(1)
      BY <2>5 DEF ResetFrom
    <3> QED
      BY <1>1, <1>3, <1>4, <2>2, <3>1, <3>2, ConcludeClean
  <2> QED
    BY <2>3, <2>4, <2>5
<1>6. CASE FinallyEnds(o)
  <2> DEFINE errors == IF o = "none" THEN cleanup ELSE Append(cleanup, o)
  <2>1. /\ section = "finally" /\ Dispatch(Finally[index], o)
        /\ index \in DOMAIN Finally /\ Finally[index] \in {"restore", "reset"}
        /\ index \in 1 .. Len(Finally)
    BY <1>1, <1>3, <1>6 DEF FinallyEnds, CaseTypes
  <2>2. errors \in Seq({"failure", "cancel"}) /\ (errors = <<>> => o = "none" /\ cleanup = <<>>)
    BY <1>3 DEF Outcome
  <2>3. primary = "none" /\ errors = <<>> =>
          ~straggler' /\ (setting' = "default" \/ ResetFrom(index + 1))
    <3>1. CASE primary = "none" /\ errors = <<>>
      <4>1. o = "none" /\ ~straggler /\ (setting = "default" \/ ResetFrom(index))
        BY <1>1, <2>1, <2>2, <3>1 DEF Clean, CleanSoFar, NoErrorYet
      <4>2. straggler' = straggler
            /\ (Finally[index] = "reset" => setting' = "default")
            /\ (Finally[index] = "restore" => setting' = setting)
        BY <2>1, <4>1, DispatchClean DEF Keyword
      <4>3. ResetFrom(index) /\ Finally[index] # "reset" => ResetFrom(index + 1)
        BY <1>3, <2>1 DEF ResetFrom
      <4> QED
        BY <2>1, <4>1, <4>2, <4>3
    <3> QED
      BY <3>1
  <2> HIDE DEF errors
  <2>4. CASE index < Len(Finally)
    <3>1. GotoStep("finally", index + 1, primary, errors)
      BY <1>6, <2>4 DEF FinallyEnds, errors
    <3>2. index' = index + 1 /\ (ResetFrom(index + 1) => ResetFrom(index)')
      BY <1>1, <3>1 DEF GotoStep, ResetFrom, Finally
    <3> QED
      BY <1>1, <2>3, <3>1, <3>2 DEF GotoStep, Clean, CleanSoFar, PassedClean, NoErrorYet
  <2>5. CASE ~(index < Len(Finally))
    <3>1. Conclude(primary, errors)
      BY <1>6, <2>5 DEF FinallyEnds, errors
    <3>2. ~ResetFrom(index + 1)
      BY <1>3, <2>1, <2>5 DEF ResetFrom
    <3> QED
      BY <1>1, <2>2, <2>3, <3>1, <3>2, ConcludeClean
  <2> QED
    BY <2>4, <2>5
<1>7. CASE FinalEnds(o)
  <2>1. section = "final" /\ setting' = setting /\ straggler' = straggler
    BY <1>7 DEF FinalEnds, Restore
  <2>2. CASE o = "cancel"
    BY <1>7, <2>2 DEF FinalEnds, ScenarioEnds, Clean, CleanSoFar, PassedClean, NoErrorYet
  <2>3. CASE o # "cancel"
    <3>1. Report(Raised(primary, cleanup), IF o = "none" THEN "restored" ELSE o)
      BY <1>7, <2>3 DEF FinalEnds
    <3>2. Raised(primary, cleanup) = "none" => setting' = "default" /\ ~straggler'
      BY <1>1, <1>3, <2>1, RaisedNothing DEF Clean, CleanSoFar, NoErrorYet
    <3> QED
      BY <1>1, <3>1, <3>2, ReportClean
  <2> QED
    BY <2>2, <2>3
<1> QED
  BY <1>2, <1>5, <1>6, <1>7

LEMMA CleanStep ==
  ASSUME ResetsWhatItSets, ProcInv, Clean, [ProcNext]_procVars
  PROVE  Clean'
<1> USE DEF Clean, CleanSoFar, PassedClean, NoErrorYet, SetsSomething, ResetFrom, Steps, Finally
<1>1. CASE TaskStep
  BY <1>1, TaskClean DEF ProcInv
<1>2. CASE Surroundings
  BY <1>2, SurroundingsKeepTask DEF runVars, caseVars, panelVars
<1>3. CASE StragglerEnds
  BY <1>3 DEF StragglerEnds, supVars, caseVars
<1>4. CASE UNCHANGED procVars
  BY <1>4 DEF procVars, supVars, runVars, caseVars, panelVars
<1> QED
  BY <1>1, <1>2, <1>3, <1>4 DEF ProcNext

(* A run reported as passed leaves no mutation, no Power Center setting and  *)
(* no thread behind, whatever its testcases are, as long as each resets what *)
(* it sets.                                                                  *)
THEOREM PassLeavesNothing ==
  ASSUME ResetsWhatItSets
  PROVE  ProcSpec => []PassedLeavesNothing
<1>1. ProcInit => ProcInv /\ Clean
  <2>1. ProcInit => ProcInv
    BY BeginsWell DEF ProcInit, RunBegins
  <2>2. ProcInit => Clean
    BY DEF ProcInit, SupInit, RunInit, Clean, CleanSoFar, PassedClean
  <2> QED
    BY <2>1, <2>2
<1>2. ProcInv /\ Clean /\ [ProcNext]_procVars => ProcInv' /\ Clean'
  BY ProcInvStep, CleanStep
<1>3. ProcInv /\ Clean => PassedLeavesNothing
  <2> SUFFICES ASSUME ProcInv, Clean, sup = "done", raised = "no", status = "passed"
               PROVE  ~pending /\ setting = "default" /\ ~straggler
    BY DEF PassedLeavesNothing
  <2>1. scenario = "passed"
    BY DEF ProcInv, SupInv, SupTypeInv, VerdictInv, Earned
  <2> QED
    BY <2>1 DEF Clean, PassedClean, ProcInv, RunInv, PassedRestored
<1> QED
  BY <1>1, <1>2, <1>3, PTL DEF ProcSpec
-----------------------------------------------------------------------------
(* The composite suite: between two members nothing is known but what the    *)
(* first said of itself.                                                     *)
CompTypes ==
  /\ member \in DOMAIN Members /\ suite = Members[member]
  /\ overall \in {0, 1, 130}
  /\ verdict \in {"running", "finished", "stopped"}
  /\ codes \in Seq({0, 1, 130})
  /\ Len(codes) = IF verdict = "running" THEN member - 1 ELSE member
  /\ dirty \in BOOLEAN /\ stale \in BOOLEAN

CompInv == ProcInv /\ CompTypes /\ StartsClean

LEMMA MemberShape ==
  /\ Members \in Seq(Suites) /\ Len(Members) \in Nat /\ DOMAIN Members = 1 .. Len(Members)
  /\ 1 \in DOMAIN Members
  /\ \A i \in DOMAIN Members : Members[i] \in Suites
<1>1. Members \in Seq(Suites) /\ Members # <<>>
  BY MembersAssumption
<1>2. Len(Members) \in Nat /\ DOMAIN Members = 1 .. Len(Members)
      /\ \A i \in DOMAIN Members : Members[i] \in Suites
  BY <1>1
<1> QED
  BY <1>1, <1>2, NonEmpty

LEMMA CompInitially == CompInit => CompInv
<1> SUFFICES ASSUME CompInit PROVE CompInv
  OBVIOUS
<1>1. RunBegins
  BY MemberShape DEF CompInit, RunBegins
<1>2. CompTypes /\ StartsClean
  <2>1. /\ member = 1 /\ overall = 0 /\ verdict = "running"
        /\ codes = <<>> /\ dirty = FALSE /\ stale = FALSE /\ suite = Members[1]
    BY DEF CompInit
  <2>2. codes \in Seq({0, 1, 130}) /\ Len(codes) = 0
    BY <2>1
  <2>3. Len(codes) = IF verdict = "running" THEN member - 1 ELSE member
    BY <2>1, <2>2
  <2>4. dirty \in BOOLEAN /\ stale \in BOOLEAN /\ StartsClean
    BY <2>1, Zenon DEF StartsClean
  <2> QED
    BY <2>1, <2>2, <2>3, <2>4, MemberShape, Zenon DEF CompTypes
<1> QED
  BY <1>1, <1>2, BeginsWell DEF CompInv

(* A step of the running member leaves the suite alone.                      *)
LEMMA SuiteStays ==
  ASSUME [ProcNext]_procVars
  PROVE  suite' = suite
BY DEF ProcNext, Surroundings, TaskStep, StragglerEnds, procVars, runVars

(* Where a member follows another: the other was not interrupted, unless     *)
(* while its scenario was cancelled anyway, and it left nothing behind or    *)
(* its report is not about the testcase it ended in.                         *)
LEMMA GoingOn ==
  ASSUME ProcInv, ProcessOver, NEW c, ExitCode(c), Continue(c)
  PROVE  /\ interrupted \in {"no", "cleanup"}
         /\ pending => reported # case
<1>1. scripted /\ SupTypeOK /\ ScenarioOutlived /\ VerdictInv /\ Remembered
      /\ SafeReportIsTrue /\ PassedRestored
  BY DEF ProcInv, SupInv, SupTypeInv, RunInv
<1>2. sup = "done"
  BY DEF ProcessOver
<1>3. scenario \in ScenarioResult
  BY <1>1, <1>2 DEF ScenarioOutlived, VerdictInv, Scripted, SupTypeOK
<1>4. c = 0 => raised = "no" /\ status = "passed"
  <2>1. raised # "no" => c = 130
    BY Zenon DEF ExitCode
  <2>2. raised = "no" /\ status # "passed" => c = 1
    BY Zenon DEF ExitCode
  <2> QED
    BY <2>1, <2>2
<1>5. c = 0 => ~pending
  BY <1>1, <1>2, <1>4 DEF VerdictInv, Earned, PassedRestored
<1>6. LastRunSafe => raised = "no" /\ (reported = case => ~pending)
  BY <1>1, <1>3 DEF LastRunSafe, SafeReportIsTrue
<1> QED
  BY <1>1, <1>4, <1>5, <1>6 DEF Continue, Remembered

LEMMA CompInvStep ==
  ASSUME CompInv, [CompNext]_suiteVars
  PROVE  CompInv'
<1> USE DEF CompInv
<1>1. CASE verdict = "running" /\ ProcNext /\ UNCHANGED compVars
  <2>1. ProcInv' /\ suite' = suite
    BY <1>1, ProcInvStep, SuiteStays
  <2> QED
    BY <1>1, <2>1 DEF compVars, CompTypes, StartsClean
<1>2. CASE MemberEnds
  <2>1. PICK c \in {0, 1, 130} :
          /\ ExitCode(c)
          /\ codes' = Append(codes, c)
          /\ overall' = Overall(c)
          /\ IF Continue(c) /\ member < Len(Members)
             THEN /\ member' = member + 1
                  /\ dirty' = (dirty \/ pending)
                  /\ stale' = (stale \/ (pending /\ reported # case))
                  /\ NextProcess
                  /\ UNCHANGED verdict
             ELSE /\ verdict' = IF Continue(c) THEN "finished" ELSE "stopped"
                  /\ UNCHANGED <<procVars, member, dirty, stale>>
    BY <1>2 DEF MemberEnds
  <2>2. verdict = "running" /\ ProcessOver
    BY <1>2 DEF MemberEnds
  <2>3. overall' \in {0, 1, 130}
    BY <2>1 DEF CompTypes, Overall
  <2>4. codes' \in Seq({0, 1, 130}) /\ Len(codes') = Len(codes) + 1
    BY <2>1 DEF CompTypes
  <2>5. member \in Nat /\ Len(codes) = member - 1
    BY <2>2, MemberShape DEF CompTypes
  <2>6. CASE Continue(c) /\ member < Len(Members)
    <3>1. member' = member + 1 /\ member' \in DOMAIN Members
      BY <2>1, <2>5, <2>6, MemberShape DEF CompTypes
    <3>2. NextProcess /\ verdict' = verdict
      BY <2>1, <2>6
    <3>3. suite' = Members[member'] /\ suite' \in Suites
      BY <3>1, <3>2, MemberShape DEF NextProcess, NextSuite
    <3>4. RunBegins'
      <4>1. scripted /\ timed \in BOOLEAN /\ setting \in {"default", "altered"}
        BY DEF ProcInv, SupInv, SupTypeInv, VerdictInv, RunTypes, PanelTaskTypes
      <4>2. SupInit' /\ scripted'
        BY <3>2, <4>1 DEF NextProcess, SupInit, modeVars
      <4>3. RunInit' /\ setting' \in {"default", "altered"}
        BY <3>2, <4>1 DEF NextProcess, RunInit
      <4> QED
        BY <3>3, <4>2, <4>3 DEF RunBegins
    <3>5. ProcInv'
      BY <3>4, BeginsWell, PTL
    <3>6. StartsClean' /\ dirty' \in BOOLEAN /\ stale' \in BOOLEAN
      <4>1. pending => reported # case
        BY <2>1, <2>2, <2>6, GoingOn
      <4>2. dirty' = (dirty \/ pending) /\ stale' = (stale \/ (pending /\ reported # case))
        BY <2>1, <2>6
      <4> QED
        BY <4>1, <4>2 DEF StartsClean
    <3> QED
      BY <2>2, <2>3, <2>4, <2>5, <3>1, <3>2, <3>3, <3>5, <3>6 DEF CompTypes
  <2>7. CASE ~(Continue(c) /\ member < Len(Members))
    <3>1. verdict' \in {"finished", "stopped"} /\ UNCHANGED <<procVars, member, dirty, stale>>
      BY <2>1, <2>7
    <3>2. ProcInv' /\ suite' = suite
      BY <3>1, ProcInvStep DEF procVars, runVars
    <3> QED
      BY <2>3, <2>4, <2>5, <3>1, <3>2 DEF CompTypes, StartsClean
  <2> QED
    BY <2>6, <2>7
<1>3. CASE UNCHANGED suiteVars
  <2>1. ProcInv' /\ suite' = suite
    BY <1>3, ProcInvStep, SuiteStays DEF suiteVars
  <2> QED
    BY <1>3, <2>1 DEF suiteVars, compVars, CompTypes, StartsClean
<1> QED
  BY <1>1, <1>2, <1>3 DEF CompNext

LEMMA CompInvariant == CompSpec => []CompInv
BY CompInitially, CompInvStep, PTL DEF CompSpec

(* No member takes what an earlier one left changed for the original state,  *)
(* unless the earlier one's report was that of another testcase; for every   *)
(* list of members.                                                          *)
THEOREM CleanStarts == CompSpec => []StartsClean
<1>1. CompInv => StartsClean
  BY DEF CompInv
<1> QED
  BY <1>1, CompInvariant, PTL

(* Every variable of a composite suite keeps its type, and there is one exit *)
(* code for each member that has ended.                                      *)
THEOREM CompTypeCorrect == CompSpec => []CompTypeOK
<1>1. CompInv => CompTypeOK
  BY ProcTyped DEF CompInv, CompTypes, CompTypeOK
<1> QED
  BY <1>1, CompInvariant, PTL

LEMMA OnlyUninterrupted ==
  ASSUME CompInv, CompNext, member' # member
  PROVE  interrupted \in {"no", "cleanup"}
<1>1. MemberEnds
  BY DEF CompNext, compVars
<1>2. PICK c \in {0, 1, 130} : ExitCode(c) /\ Continue(c)
  BY <1>1 DEF MemberEnds
<1> QED
  BY <1>1, <1>2, GoingOn DEF CompInv, MemberEnds

(* After SIGINT no further member starts, unless it came while the scenario  *)
(* was being cancelled anyway.                                               *)
THEOREM InterruptEnds == CompSpec => InterruptEndsSuite
<1>1. CompInv /\ [CompNext]_suiteVars =>
        [member' # member => interrupted \in {"no", "cleanup"}]_suiteVars
  BY OnlyUninterrupted DEF suiteVars, compVars
<1> QED
  BY <1>1, CompInvariant, PTL DEF CompSpec, InterruptEndsSuite

(* Each member is a supervised scenario of its own, also in what it owes to  *)
(* the process it talks to.                                                  *)
THEOREM MembersOutlived == CompSpec => [](ScenarioOutlived /\ SafeReportIsTrue /\ LeftOnlyAfterFinal)
<1>1. CompInv => ScenarioOutlived /\ SafeReportIsTrue /\ LeftOnlyAfterFinal
  BY DEF CompInv, ProcInv, SupInv, SupTypeInv, RunInv
<1> QED
  BY <1>1, CompInvariant, PTL

Working   == {"configure", "silence", "ambiguous", "traffic", "running"}
Preparing == {"display", "connect", "Simio", "Pwrcntr", "wait"}
Stage == {"off", "closing", "apps", "screen", "unlock", "gone"} \cup Preparing \cup Working

Typed ==
  /\ SessionTypeOK
  /\ stage \in [Run -> Stage]
  /\ prefix \in [Run -> Prefix] /\ kind \in [Run -> {"desktop", "unix", "tcp"}]

Alive(r) == \E a \in App : apps[r][a] \in {"starting", "shown"}

\* The lock of the prefix is held while applications are, and by who is to launch them.
PrefixHeld ==
  \A r \in Run :
    stage[r] \in Preparing \cup Working \/ (Alive(r) /\ r \notin left) =>
      prefixLock[prefix[r]] = r

\* The lock of the display is held from the allocation to the end of the X server.
DisplayHeld ==
  \A r \in Run :
    /\ kind[r] = "tcp" /\ xvfb[r] # "none" /\ r \notin left =>
         display[r] \in Display /\ displayLock[display[r]] = r
    /\ kind[r] # "tcp" => display[r] = 0

\* What close has already taken down.
TakenDown ==
  \A r \in Run : r \notin left =>
    /\ stage[r] = "screen" => \A a \in App : apps[r][a] # "starting"
    /\ stage[r] \in {"unlock", "gone"} =>
         /\ ~Alive(r) /\ xvfb[r] = "none" /\ ~xauth[r]
         /\ \A d \in Display : displayLock[d] # r
    /\ stage[r] = "gone" => \A p \in Prefix : prefixLock[p] # r

\* What a run has launched: nothing before it has the lock.
Launched ==
  \A r \in Run :
    /\ (\E a \in App : apps[r][a] # "none") /\ stage[r] \in {"closing", "apps", "screen"} =>
         prefixLock[prefix[r]] = r
    /\ stage[r] = "off" => \A a \in App : apps[r][a] = "none"

\* The emulator of a run that works with it.
OwnEmulator ==
  \A r \in Run : Tidy(r) =>
    /\ stage[r] \in Working => \A a \in App : apps[r][a] = "shown"
    /\ stage[r] = "running" => power[r]

SessionInv ==
  /\ Typed /\ PrefixHeld /\ DisplayHeld /\ TakenDown /\ Launched /\ OwnEmulator
  /\ RightEmulator

-----------------------------------------------------------------------------
\* The number that is allocated is one of those that are free.
LEMMA SmallestIsFree ==
  ASSUME FreeDisplays # {}
  PROVE  (CHOOSE d \in FreeDisplays : \A e \in FreeDisplays : d <= e) \in FreeDisplays
<1>1. FreeDisplays \subseteq Nat
  BY SessionAssumption DEF FreeDisplays
<1>2. \E d \in FreeDisplays : \A e \in FreeDisplays : <<e, d>> \notin OpToRel(<, Nat)
  BY <1>1, NatLessThanWellFounded, WFMin
<1>3. PICK d \in FreeDisplays : \A e \in FreeDisplays : ~(e < d)
  BY <1>1, <1>2 DEF OpToRel
<1>4. \A e \in FreeDisplays : d <= e
  BY <1>1, <1>3
<1> QED
  BY <1>4

LEMMA StartsXvfb ==
  ASSUME NEW r \in Run, StartTcpXvfb(r)
  PROVE  \E d \in FreeDisplays :
           /\ displayLock' = [displayLock EXCEPT ![d] = r]
           /\ display' = [display EXCEPT ![r] = d]
BY SmallestIsFree DEF StartTcpXvfb

\* The types of a session, which every step keeps.
LEMMA TypedKept ==
  ASSUME Typed, [SessionNext]_sessionVars
  PROVE  Typed'
<1> USE DEF Typed, SessionTypeOK, Stage, Preparing, Working, App, Goto
<1>1. ASSUME NEW r \in Run, Lock(r) PROVE Typed'
  <2>1. prefixLock' \in [Prefix -> Run \cup {Nobody}]
    BY <1>1 DEF Lock
  <2>2. \E there \in {"display", "closing"} : Goto(r, there)
    BY <1>1 DEF Lock
  <2>3. stage' \in [Run -> Stage]
    BY <2>2
  <2> QED
    BY <1>1, <2>1, <2>3 DEF Lock, choices, screens, emulator
<1>2. ASSUME NEW r \in Run, Allotted(r) PROVE Typed'
  BY <1>2 DEF Allotted, choices, locks, emulator
<1>3. ASSUME NEW r \in Run, StartTcpXvfb(r) PROVE Typed'
  <2>1. /\ displayLock' \in [Display -> Run \cup {Nobody}]
        /\ display' \in [Run -> Display \cup {0}]
    <3>1. PICK d \in FreeDisplays : /\ displayLock' = [displayLock EXCEPT ![d] = r]
                                   /\ display' = [display EXCEPT ![r] = d]
      BY <1>3, StartsXvfb
    <3>2. d \in Display
      BY DEF FreeDisplays
    <3>3. displayLock' \in [Display -> Run \cup {Nobody}]
      BY <3>1, <3>2
    <3>4. display' \in [Run -> Display \cup {0}]
      BY <3>1, <3>2
    <3> QED
      BY <3>3, <3>4
  <2>2. xvfb' \in [Run -> {"none", "starting", "listening", "dead"}]
    BY <1>3 DEF StartTcpXvfb
  <2>4. \E there \in {"connect", "closing"} : Goto(r, there)
    BY <1>3 DEF StartTcpXvfb
  <2>5. stage' \in [Run -> Stage]
    BY <2>4
  <2>3. xauth' \in [Run -> BOOLEAN]
    BY <1>3 DEF StartTcpXvfb
  <2> QED
    BY <1>3, <2>1, <2>2, <2>3, <2>5 DEF StartTcpXvfb, choices, emulator
<1>4. ASSUME NEW r \in Run, XvfbBinds(r) PROVE Typed'
  BY <1>4 DEF XvfbBinds, choices, locks, emulator
<1>5. ASSUME NEW r \in Run, ConnectDisplay(r) PROVE Typed'
  BY <1>5 DEF ConnectDisplay, choices, locks, screens, emulator
<1>6. ASSUME NEW r \in Run, NEW a \in App, Launch(r, a) PROVE Typed'
  BY <1>6 DEF Launch, choices, locks, screens
<1>7. ASSUME NEW r \in Run, NEW a \in App, Appear(r, a) PROVE Typed'
  <2>1. UNCHANGED power \/ \E on \in BOOLEAN : power' = [power EXCEPT ![r] = on]
    BY <1>7 DEF Appear
  <2>3. power' \in [Run -> BOOLEAN]
    BY <2>1
  <2>4. \E end \in {"shown", "gone"} : apps' = [apps EXCEPT ![r][a] = end]
    BY <1>7 DEF Appear
  <2>2. apps' \in [Run -> [App -> {"none", "starting", "shown", "gone"}]]
    BY <2>4
  <2> QED
    BY <1>7, <2>2, <2>3 DEF Appear, choices, locks, screens
<1>8. ASSUME NEW r \in Run, WaitUntilReady(r) PROVE Typed'
  BY <1>8 DEF WaitUntilReady, choices, locks, screens, Windows
<1>9. ASSUME NEW r \in Run, Configure(r) PROVE Typed'
  BY <1>9 DEF Configure, Toggle, Act, Windows, choices, locks, screens
<1>10. ASSUME NEW r \in Run, SwitchOn(r) \/ Retry(r) PROVE Typed'
  <2>1. stage' \in [Run -> Stage]
    BY <1>10 DEF SwitchOn, Retry
  <2>2. Toggle(r)
    BY <1>10 DEF SwitchOn, Retry
  <2> QED
    BY <2>1, <2>2 DEF Toggle, Act, Windows, choices, locks, screens
<1>11. ASSUME NEW r \in Run, SwitchedOn(r) \/ Finish(r) PROVE Typed'
  BY <1>11 DEF SwitchedOn, Finish, choices, locks, screens, emulator
<1>12. ASSUME NEW r \in Run, Control(r) PROVE Typed'
  BY <1>12 DEF Control, Act, Windows, choices, locks, screens
<1>13. ASSUME NEW r \in Run, StopWine(r) PROVE Typed'
  BY <1>13 DEF StopWine, Wineserver, Dead, choices, locks, screens
<1>14. ASSUME NEW r \in Run, StopApplications(r) PROVE Typed'
  BY <1>14 DEF StopApplications, choices, locks, screens
<1>15. ASSUME NEW r \in Run, StopXvfb(r) PROVE Typed'
  BY <1>15 DEF StopXvfb, Dead, Release, choices
<1>16. ASSUME NEW r \in Run, Unlock(r) PROVE Typed'
  BY <1>16 DEF Unlock, Release, choices, screens, emulator
<1>17. ASSUME NEW r \in Run, Die(r) PROVE Typed'
  BY <1>17 DEF Die, Release, choices, screens, emulator
<1>18. ASSUME UNCHANGED sessionVars PROVE Typed'
  BY <1>18 DEF sessionVars, choices, locks, screens, emulator
<1> QED
  BY <1>1, <1>2, <1>3, <1>4, <1>5, <1>6, <1>7, <1>8, <1>9, <1>10, <1>11, <1>12, <1>13,
     <1>14, <1>15, <1>16, <1>17, <1>18 DEF SessionNext

\* The windows that the helper finds for a run that holds the lock are its own, or
\* were left over.
LEMMA OwnWindows ==
  ASSUME Typed, PrefixHeld, NEW r \in Run, stage[r] \in Preparing \cup Working,
         NEW a \in App, NEW o \in Windows(r, a)
  PROVE  o \in {r} \cup left
<1>1. o \in Run /\ prefix[o] = prefix[r] /\ Alive(o)
  BY DEF Windows, Alive
<1>2. prefixLock[prefix[r]] = r
  BY DEF PrefixHeld
<1>3. CASE o \notin left
  BY <1>1, <1>2, <1>3 DEF PrefixHeld
<1> QED
  BY <1>3

\* No two runs of a prefix prepare or work at once.
LEMMA RanAlone ==
  ASSUME Typed, PrefixHeld, NEW r \in Run, stage[r] \in Preparing \cup Working,
         NEW o \in Run, stage[o] \in Preparing \cup Working, prefix[o] = prefix[r]
  PROVE  o = r
BY DEF PrefixHeld

LEMMA PrefixHeldKept ==
  ASSUME SessionInv, Typed', [SessionNext]_sessionVars
  PROVE  PrefixHeld'
<1> USE SessionAssumption DEF PrefixHeld, Alive, SessionInv, Typed, SessionTypeOK, Preparing, Working, App, Goto
<1>1. ASSUME NEW r \in Run, Lock(r) PROVE PrefixHeld'
  BY <1>1 DEF Lock, choices, locks, screens, emulator
<1>2. ASSUME NEW r \in Run, Allotted(r) PROVE PrefixHeld'
  BY <1>2 DEF Allotted, choices, locks, screens, emulator
<1>3. ASSUME NEW r \in Run, StartTcpXvfb(r) PROVE PrefixHeld'
  BY <1>3, StartsXvfb DEF StartTcpXvfb, FreeDisplays, choices, locks, screens, emulator
<1>4. ASSUME NEW r \in Run, XvfbBinds(r) PROVE PrefixHeld'
  BY <1>4 DEF XvfbBinds, Listening, choices, locks, screens, emulator
<1>5. ASSUME NEW r \in Run, ConnectDisplay(r) PROVE PrefixHeld'
  BY <1>5 DEF ConnectDisplay, choices, locks, screens, emulator
<1>6. ASSUME NEW r \in Run, NEW a \in App, Launch(r, a) PROVE PrefixHeld'
  BY <1>6 DEF Launch, choices, locks, screens, emulator
<1>7. ASSUME NEW r \in Run, NEW a \in App, Appear(r, a) PROVE PrefixHeld'
  <2>1. UNCHANGED <<stage, prefix, prefixLock, left>>
    BY <1>7 DEF Appear, choices, locks
  <2>2. apps[r][a] = "starting" /\ \E end : apps' = [apps EXCEPT ![r][a] = end]
    BY <1>7 DEF Appear
  <2>3. \A o \in Run : Alive(o)' => Alive(o)
    BY <1>7, <2>2
  <2> QED
    BY <2>1, <2>3
<1>8. ASSUME NEW r \in Run, WaitUntilReady(r) PROVE PrefixHeld'
  BY <1>8 DEF WaitUntilReady, Windows, choices, locks, screens, emulator
<1>9. ASSUME NEW r \in Run, Configure(r) PROVE PrefixHeld'
  BY <1>9 DEF Configure, Toggle, Act, Windows, choices, locks, screens, emulator
<1>10. ASSUME NEW r \in Run, SwitchOn(r) PROVE PrefixHeld'
  BY <1>10 DEF SwitchOn, Toggle, Act, Windows, choices, locks, screens, emulator
<1>11. ASSUME NEW r \in Run, Retry(r) PROVE PrefixHeld'
  BY <1>11 DEF Retry, Toggle, Act, Windows, choices, locks, screens, emulator
<1>12. ASSUME NEW r \in Run, SwitchedOn(r) PROVE PrefixHeld'
  BY <1>12 DEF SwitchedOn, Traffic, Windows, choices, locks, screens, emulator
<1>13. ASSUME NEW r \in Run, Control(r) PROVE PrefixHeld'
  BY <1>13 DEF Control, Act, Windows, choices, locks, screens, emulator
<1>14. ASSUME NEW r \in Run, Finish(r) PROVE PrefixHeld'
  BY <1>14 DEF Finish, choices, locks, screens, emulator
<1>15. ASSUME NEW r \in Run, StopWine(r) PROVE PrefixHeld'
  BY <1>15 DEF StopWine, Wineserver, Dead, choices, locks, screens, emulator
<1>16. ASSUME NEW r \in Run, StopApplications(r) PROVE PrefixHeld'
  BY <1>16 DEF StopApplications, choices, locks, screens, emulator
<1>17. ASSUME NEW r \in Run, StopXvfb(r) PROVE PrefixHeld'
  BY <1>17 DEF StopXvfb, Dead, Release, choices, locks, screens, emulator
<1>18. ASSUME NEW r \in Run, Unlock(r) PROVE PrefixHeld'
  BY <1>18 DEF Unlock, Release, TakenDown, choices, locks, screens, emulator
<1>19. ASSUME NEW r \in Run, Die(r) PROVE PrefixHeld'
  BY <1>19 DEF Die, Release, choices, locks, screens, emulator
<1>20. ASSUME UNCHANGED sessionVars PROVE PrefixHeld'
  BY <1>20 DEF sessionVars, choices, locks, screens, emulator, Tidy
<1> HIDE DEF PrefixHeld, Alive, SessionInv, Typed, SessionTypeOK, Preparing, Working, App, Goto
<1> QED
  BY <1>1, <1>2, <1>3, <1>4, <1>5, <1>6, <1>7, <1>8, <1>9, <1>10, <1>11, <1>12, <1>13, <1>14, <1>15, <1>16, <1>17, <1>18, <1>19, <1>20 DEF SessionNext

LEMMA DisplayHeldKept ==
  ASSUME SessionInv, Typed', [SessionNext]_sessionVars
  PROVE  DisplayHeld'
<1> USE SessionAssumption DEF DisplayHeld, SessionInv, Typed, SessionTypeOK, Preparing, Working, App, Goto
<1>1. ASSUME NEW r \in Run, Lock(r) PROVE DisplayHeld'
  BY <1>1 DEF Lock, choices, locks, screens, emulator
<1>2. ASSUME NEW r \in Run, Allotted(r) PROVE DisplayHeld'
  BY <1>2 DEF Allotted, choices, locks, screens, emulator
<1>3. ASSUME NEW r \in Run, StartTcpXvfb(r) PROVE DisplayHeld'
  <2>1. PICK d \in FreeDisplays : /\ displayLock' = [displayLock EXCEPT ![d] = r]
                                /\ display' = [display EXCEPT ![r] = d]
    BY <1>3, StartsXvfb
  <2>2. d \in Display /\ displayLock[d] = Nobody
    BY DEF FreeDisplays
  <2>3. kind[r] = "tcp" /\ UNCHANGED <<kind, left>> /\ \A o \in Run : o # r => xvfb'[o] = xvfb[o]
    BY <1>3 DEF StartTcpXvfb, choices, locks, screens, emulator
  <2> QED
    BY <2>1, <2>2, <2>3
<1>4. ASSUME NEW r \in Run, XvfbBinds(r) PROVE DisplayHeld'
  BY <1>4 DEF XvfbBinds, Listening, choices, locks, screens, emulator
<1>5. ASSUME NEW r \in Run, ConnectDisplay(r) PROVE DisplayHeld'
  BY <1>5 DEF ConnectDisplay, choices, locks, screens, emulator
<1>6. ASSUME NEW r \in Run, NEW a \in App, Launch(r, a) PROVE DisplayHeld'
  BY <1>6 DEF Launch, choices, locks, screens, emulator
<1>7. ASSUME NEW r \in Run, NEW a \in App, Appear(r, a) PROVE DisplayHeld'
  BY <1>7 DEF Appear, choices, locks, screens, emulator
<1>8. ASSUME NEW r \in Run, WaitUntilReady(r) PROVE DisplayHeld'
  BY <1>8 DEF WaitUntilReady, Windows, choices, locks, screens, emulator
<1>9. ASSUME NEW r \in Run, Configure(r) PROVE DisplayHeld'
  BY <1>9 DEF Configure, Toggle, Act, Windows, choices, locks, screens, emulator
<1>10. ASSUME NEW r \in Run, SwitchOn(r) PROVE DisplayHeld'
  BY <1>10 DEF SwitchOn, Toggle, Act, Windows, choices, locks, screens, emulator
<1>11. ASSUME NEW r \in Run, Retry(r) PROVE DisplayHeld'
  BY <1>11 DEF Retry, Toggle, Act, Windows, choices, locks, screens, emulator
<1>12. ASSUME NEW r \in Run, SwitchedOn(r) PROVE DisplayHeld'
  BY <1>12 DEF SwitchedOn, Traffic, Windows, choices, locks, screens, emulator
<1>13. ASSUME NEW r \in Run, Control(r) PROVE DisplayHeld'
  BY <1>13 DEF Control, Act, Windows, choices, locks, screens, emulator
<1>14. ASSUME NEW r \in Run, Finish(r) PROVE DisplayHeld'
  BY <1>14 DEF Finish, choices, locks, screens, emulator
<1>15. ASSUME NEW r \in Run, StopWine(r) PROVE DisplayHeld'
  BY <1>15 DEF StopWine, Wineserver, Dead, choices, locks, screens, emulator
<1>16. ASSUME NEW r \in Run, StopApplications(r) PROVE DisplayHeld'
  BY <1>16 DEF StopApplications, choices, locks, screens, emulator
<1>17. ASSUME NEW r \in Run, StopXvfb(r) PROVE DisplayHeld'
  BY <1>17 DEF StopXvfb, Dead, Release, choices, locks, screens, emulator
<1>18. ASSUME NEW r \in Run, Unlock(r) PROVE DisplayHeld'
  BY <1>18 DEF Unlock, Release, choices, locks, screens, emulator
<1>19. ASSUME NEW r \in Run, Die(r) PROVE DisplayHeld'
  BY <1>19 DEF Die, Release, choices, locks, screens, emulator
<1>20. ASSUME UNCHANGED sessionVars PROVE DisplayHeld'
  BY <1>20 DEF sessionVars, choices, locks, screens, emulator, Tidy
<1> HIDE DEF DisplayHeld, SessionInv, Typed, SessionTypeOK, Preparing, Working, App, Goto
<1> QED
  BY <1>1, <1>2, <1>3, <1>4, <1>5, <1>6, <1>7, <1>8, <1>9, <1>10, <1>11, <1>12, <1>13, <1>14, <1>15, <1>16, <1>17, <1>18, <1>19, <1>20 DEF SessionNext

LEMMA TakenDownKept ==
  ASSUME SessionInv, Typed', [SessionNext]_sessionVars
  PROVE  TakenDown'
<1> USE SessionAssumption DEF TakenDown, Alive, SessionInv, Typed, SessionTypeOK, Preparing, Working, App, Goto
<1>1. ASSUME NEW r \in Run, Lock(r) PROVE TakenDown'
  BY <1>1 DEF Lock, choices, locks, screens, emulator
<1>2. ASSUME NEW r \in Run, Allotted(r) PROVE TakenDown'
  BY <1>2 DEF Allotted, choices, locks, screens, emulator
<1>3. ASSUME NEW r \in Run, StartTcpXvfb(r) PROVE TakenDown'
  BY <1>3, StartsXvfb DEF StartTcpXvfb, FreeDisplays, choices, locks, screens, emulator
<1>4. ASSUME NEW r \in Run, XvfbBinds(r) PROVE TakenDown'
  BY <1>4 DEF XvfbBinds, Listening, choices, locks, screens, emulator
<1>5. ASSUME NEW r \in Run, ConnectDisplay(r) PROVE TakenDown'
  BY <1>5 DEF ConnectDisplay, choices, locks, screens, emulator
<1>6. ASSUME NEW r \in Run, NEW a \in App, Launch(r, a) PROVE TakenDown'
  BY <1>6 DEF Launch, choices, locks, screens, emulator
<1>7. ASSUME NEW r \in Run, NEW a \in App, Appear(r, a) PROVE TakenDown'
  <2>1. PICK end \in {"shown", "gone"} : apps' = [apps EXCEPT ![r][a] = end]
    BY <1>7 DEF Appear
  <2>2. apps[r][a] = "starting" /\ UNCHANGED <<stage, left, xvfb, xauth, displayLock, prefixLock>>
    BY <1>7 DEF Appear, choices, locks, screens, emulator
  <2>3. stage[r] \in {"unlock", "gone"} => r \in left
    BY <2>2
  <2>4. \A o \in Run : o # r => apps'[o] = apps[o]
    BY <2>1
  <2>5. \A b \in App : apps'[r][b] = "starting" => apps[r][b] = "starting"
    BY <2>1
  <2>6. ASSUME NEW o \in Run, o \notin left', o # r
        PROVE  /\ stage'[o] = "screen" => \A b \in App : apps'[o][b] # "starting"
               /\ stage'[o] \in {"unlock", "gone"} =>
                    /\ ~Alive(o)' /\ xvfb'[o] = "none" /\ ~xauth'[o]
                    /\ \A d \in Display : displayLock'[d] # o
               /\ stage'[o] = "gone" => \A p \in Prefix : prefixLock'[p] # o
    BY <2>2, <2>4, <2>6
  <2>7. r \notin left' /\ stage'[r] = "screen" => \A b \in App : apps'[r][b] # "starting"
    BY <2>2, <2>5
  <2> QED
    BY <2>2, <2>3, <2>6, <2>7
<1>8. ASSUME NEW r \in Run, WaitUntilReady(r) PROVE TakenDown'
  BY <1>8 DEF WaitUntilReady, Windows, choices, locks, screens, emulator
<1>9. ASSUME NEW r \in Run, Configure(r) PROVE TakenDown'
  BY <1>9 DEF Configure, Toggle, Act, Windows, choices, locks, screens, emulator
<1>10. ASSUME NEW r \in Run, SwitchOn(r) PROVE TakenDown'
  BY <1>10 DEF SwitchOn, Toggle, Act, Windows, choices, locks, screens, emulator
<1>11. ASSUME NEW r \in Run, Retry(r) PROVE TakenDown'
  BY <1>11 DEF Retry, Toggle, Act, Windows, choices, locks, screens, emulator
<1>12. ASSUME NEW r \in Run, SwitchedOn(r) PROVE TakenDown'
  BY <1>12 DEF SwitchedOn, Traffic, Windows, choices, locks, screens, emulator
<1>13. ASSUME NEW r \in Run, Control(r) PROVE TakenDown'
  BY <1>13 DEF Control, Act, Windows, choices, locks, screens, emulator
<1>14. ASSUME NEW r \in Run, Finish(r) PROVE TakenDown'
  BY <1>14 DEF Finish, choices, locks, screens, emulator
<1>15. ASSUME NEW r \in Run, StopWine(r) PROVE TakenDown'
  BY <1>15 DEF StopWine, Wineserver, Dead, choices, locks, screens, emulator
<1>16. ASSUME NEW r \in Run, StopApplications(r) PROVE TakenDown'
  BY <1>16 DEF StopApplications, choices, locks, screens, emulator
<1>17. ASSUME NEW r \in Run, StopXvfb(r) PROVE TakenDown'
  BY <1>17 DEF StopXvfb, Dead, Release, choices, locks, screens, emulator
<1>18. ASSUME NEW r \in Run, Unlock(r) PROVE TakenDown'
  BY <1>18 DEF Unlock, Release, choices, locks, screens, emulator
<1>19. ASSUME NEW r \in Run, Die(r) PROVE TakenDown'
  BY <1>19 DEF Die, Release, choices, locks, screens, emulator
<1>20. ASSUME UNCHANGED sessionVars PROVE TakenDown'
  BY <1>20 DEF sessionVars, choices, locks, screens, emulator, Tidy
<1> HIDE DEF TakenDown, Alive, SessionInv, Typed, SessionTypeOK, Preparing, Working, App, Goto
<1> QED
  BY <1>1, <1>2, <1>3, <1>4, <1>5, <1>6, <1>7, <1>8, <1>9, <1>10, <1>11, <1>12, <1>13, <1>14, <1>15, <1>16, <1>17, <1>18, <1>19, <1>20 DEF SessionNext

LEMMA LaunchedKept ==
  ASSUME SessionInv, Typed', [SessionNext]_sessionVars
  PROVE  Launched'
<1> USE SessionAssumption DEF Launched, SessionInv, Typed, SessionTypeOK, Preparing, Working, App, Goto
<1>1. ASSUME NEW r \in Run, Lock(r) PROVE Launched'
  BY <1>1 DEF Lock, choices, locks, screens, emulator
<1>2. ASSUME NEW r \in Run, Allotted(r) PROVE Launched'
  BY <1>2 DEF Allotted, choices, locks, screens, emulator
<1>3. ASSUME NEW r \in Run, StartTcpXvfb(r) PROVE Launched'
  <2>1. stage[r] = "display" /\ UNCHANGED <<apps, prefix, prefixLock>>
    BY <1>3 DEF StartTcpXvfb, choices, locks, screens, emulator
  <2>2. prefixLock[prefix[r]] = r
    BY <2>1 DEF PrefixHeld
  <2>3. \E there \in {"connect", "closing"} : Goto(r, there)
    BY <1>3 DEF StartTcpXvfb
  <2> QED
    BY <2>1, <2>2, <2>3
<1>4. ASSUME NEW r \in Run, XvfbBinds(r) PROVE Launched'
  BY <1>4 DEF XvfbBinds, Listening, choices, locks, screens, emulator
<1>5. ASSUME NEW r \in Run, ConnectDisplay(r) PROVE Launched'
  BY <1>5 DEF ConnectDisplay, choices, locks, screens, emulator
<1>6. ASSUME NEW r \in Run, NEW a \in App, Launch(r, a) PROVE Launched'
  BY <1>6 DEF Launch, choices, locks, screens, emulator
<1>7. ASSUME NEW r \in Run, NEW a \in App, Appear(r, a) PROVE Launched'
  BY <1>7 DEF Appear, choices, locks, screens, emulator
<1>8. ASSUME NEW r \in Run, WaitUntilReady(r) PROVE Launched'
  BY <1>8 DEF WaitUntilReady, Windows, choices, locks, screens, emulator
<1>9. ASSUME NEW r \in Run, Configure(r) PROVE Launched'
  BY <1>9 DEF Configure, Toggle, Act, Windows, choices, locks, screens, emulator
<1>10. ASSUME NEW r \in Run, SwitchOn(r) PROVE Launched'
  BY <1>10 DEF SwitchOn, Toggle, Act, Windows, choices, locks, screens, emulator
<1>11. ASSUME NEW r \in Run, Retry(r) PROVE Launched'
  BY <1>11 DEF Retry, Toggle, Act, Windows, choices, locks, screens, emulator
<1>12. ASSUME NEW r \in Run, SwitchedOn(r) PROVE Launched'
  BY <1>12 DEF SwitchedOn, Traffic, Windows, choices, locks, screens, emulator
<1>13. ASSUME NEW r \in Run, Control(r) PROVE Launched'
  BY <1>13 DEF Control, Act, Windows, choices, locks, screens, emulator
<1>14. ASSUME NEW r \in Run, Finish(r) PROVE Launched'
  <2>1. stage[r] \in Preparing \cup Working
    BY <1>14 DEF Finish, Stage
  <2>2. prefixLock[prefix[r]] = r
    BY <2>1 DEF PrefixHeld
  <2> QED
    BY <1>14, <2>2 DEF Finish, choices, locks, screens, emulator
<1>15. ASSUME NEW r \in Run, StopWine(r) PROVE Launched'
  BY <1>15 DEF StopWine, Wineserver, Dead, choices, locks, screens, emulator
<1>16. ASSUME NEW r \in Run, StopApplications(r) PROVE Launched'
  BY <1>16 DEF StopApplications, choices, locks, screens, emulator
<1>17. ASSUME NEW r \in Run, StopXvfb(r) PROVE Launched'
  BY <1>17 DEF StopXvfb, Dead, Release, choices, locks, screens, emulator
<1>18. ASSUME NEW r \in Run, Unlock(r) PROVE Launched'
  BY <1>18 DEF Unlock, Release, choices, locks, screens, emulator
<1>19. ASSUME NEW r \in Run, Die(r) PROVE Launched'
  BY <1>19 DEF Die, Release, choices, locks, screens, emulator
<1>20. ASSUME UNCHANGED sessionVars PROVE Launched'
  BY <1>20 DEF sessionVars, choices, locks, screens, emulator, Tidy
<1> HIDE DEF Launched, SessionInv, Typed, SessionTypeOK, Preparing, Working, App, Goto
<1> QED
  BY <1>1, <1>2, <1>3, <1>4, <1>5, <1>6, <1>7, <1>8, <1>9, <1>10, <1>11, <1>12, <1>13, <1>14, <1>15, <1>16, <1>17, <1>18, <1>19, <1>20 DEF SessionNext

\* A toggle is one of the emulator of its own run, or of one that was left over: it
\* switches no other working emulator off.
LEMMA ToggleKeeps ==
  ASSUME SessionInv, NEW r \in Run, stage[r] \in Working \ {"running"}, Toggle(r),
         NEW there \in Working \ {"running"}, Goto(r, there)
  PROVE  OwnEmulator'
<1> USE DEF SessionInv, Typed, SessionTypeOK, Working, App
<1>1. PICK o \in Windows(r, "Pwrcntr") : power' = [power EXCEPT ![o] = ~@]
  BY DEF Toggle
<1>2. o \in Run /\ prefix[o] = prefix[r] /\ o \in {r} \cup left
  BY OwnWindows DEF Windows
<1>3. UNCHANGED <<prefix, left, apps>>
  BY DEF Toggle, choices
<1>4. \A q \in Run : stage[q] = "running" /\ Tidy(q) => q # o
  <2> SUFFICES ASSUME NEW q \in Run, stage[q] = "running", Tidy(q), q = o PROVE FALSE
    OBVIOUS
  <2>1. o = r
    BY <1>2 DEF Tidy
  <2> QED
    BY <2>1
<1>5. \A q \in Run : stage'[q] = "running" => stage[q] = "running" /\ q # r
  BY DEF Goto
<1>6. \A q \in Run : stage'[q] \in Working => stage[q] \in Working
  BY DEF Goto
<1> QED
  BY <1>1, <1>3, <1>4, <1>5, <1>6 DEF OwnEmulator, Tidy

LEMMA OwnEmulatorKept ==
  ASSUME SessionInv, Typed', [SessionNext]_sessionVars
  PROVE  OwnEmulator'
<1> USE SessionAssumption DEF OwnEmulator, Tidy, SessionInv, Typed, SessionTypeOK, Preparing, Working, App, Goto
<1>1. ASSUME NEW r \in Run, Lock(r) PROVE OwnEmulator'
  BY <1>1 DEF Lock, choices, locks, screens, emulator
<1>2. ASSUME NEW r \in Run, Allotted(r) PROVE OwnEmulator'
  BY <1>2 DEF Allotted, choices, locks, screens, emulator
<1>3. ASSUME NEW r \in Run, StartTcpXvfb(r) PROVE OwnEmulator'
  BY <1>3, StartsXvfb DEF StartTcpXvfb, FreeDisplays, choices, locks, screens, emulator
<1>4. ASSUME NEW r \in Run, XvfbBinds(r) PROVE OwnEmulator'
  BY <1>4 DEF XvfbBinds, Listening, choices, locks, screens, emulator
<1>5. ASSUME NEW r \in Run, ConnectDisplay(r) PROVE OwnEmulator'
  BY <1>5 DEF ConnectDisplay, choices, locks, screens, emulator
<1>6. ASSUME NEW r \in Run, NEW a \in App, Launch(r, a) PROVE OwnEmulator'
  BY <1>6 DEF Launch, choices, locks, screens, emulator
<1>7. ASSUME NEW r \in Run, NEW a \in App, Appear(r, a) PROVE OwnEmulator'
  <2>1. apps[r][a] = "starting" /\ UNCHANGED <<stage, prefix, left>>
    BY <1>7 DEF Appear, choices, locks, screens, emulator
  <2>2. \E end \in {"shown", "gone"} : apps' = [apps EXCEPT ![r][a] = end]
    BY <1>7 DEF Appear
  <2>3. UNCHANGED power \/ \E on \in BOOLEAN : power' = [power EXCEPT ![r] = on]
    BY <1>7 DEF Appear
  <2>4. \A o \in Run : o # r => apps'[o] = apps[o] /\ power'[o] = power[o]
    BY <2>2, <2>3
  <2>5. Tidy(r) => stage[r] \notin Working
    BY <2>1
  <2>6. ASSUME NEW o \in Run, Tidy(o)', o # r
        PROVE  /\ stage'[o] \in Working => \A b \in App : apps'[o][b] = "shown"
               /\ stage'[o] = "running" => power'[o]
    BY <2>1, <2>4, <2>6
  <2>7. Tidy(r)' => stage'[r] \notin Working
    BY <2>1, <2>5
  <2> QED
    BY <2>6, <2>7
<1>8. ASSUME NEW r \in Run, WaitUntilReady(r) PROVE OwnEmulator'
  <2>1. PICK o \in Windows(r, "Pwrcntr"), i \in Windows(r, "Simio") : TRUE
    BY <1>8 DEF WaitUntilReady
  <2>2. o \in {r} \cup left /\ i \in {r} \cup left
    BY <1>8, OwnWindows DEF WaitUntilReady
  <2>3. Tidy(r) => o = r /\ i = r
    BY <2>1, <2>2 DEF Windows
  <2>4. Tidy(r) => \A a \in App : apps[r][a] = "shown"
    BY <2>1, <2>3 DEF Windows
  <2> QED
    BY <1>8, <2>4 DEF WaitUntilReady, choices, locks, screens, emulator
<1>9. ASSUME NEW r \in Run, Configure(r) PROVE OwnEmulator'
  <2>1. stage[r] = "configure" /\ Toggle(r)
    BY <1>9 DEF Configure
  <2>2. PICK there \in {"silence", "ambiguous"} : Goto(r, there)
    BY <1>9 DEF Configure
  <2> QED
    BY <2>1, <2>2, ToggleKeeps
<1>10. ASSUME NEW r \in Run, SwitchOn(r) PROVE OwnEmulator'
  <2>1. \E there \in {"traffic"} : Goto(r, there)
    BY <1>10 DEF SwitchOn
  <2> QED
    BY <1>10, <2>1, ToggleKeeps DEF SwitchOn
<1>11. ASSUME NEW r \in Run, Retry(r) PROVE OwnEmulator'
  <2>1. \E there \in {"traffic"} : Goto(r, there)
    BY <1>11 DEF Retry
  <2> QED
    BY <1>11, <2>1, ToggleKeeps DEF Retry
<1>12. ASSUME NEW r \in Run, SwitchedOn(r) PROVE OwnEmulator'
  <2>1. PICK o \in Windows(r, "Pwrcntr") : power[o]
    BY <1>12 DEF SwitchedOn, Traffic
  <2>2. o \in {r} \cup left
    BY <1>12, OwnWindows DEF SwitchedOn
  <2>3. Tidy(r) => power[r]
    BY <2>1, <2>2 DEF Windows
  <2> QED
    BY <1>12, <2>3 DEF SwitchedOn, choices, locks, screens, emulator
<1>13. ASSUME NEW r \in Run, Control(r) PROVE OwnEmulator'
  BY <1>13 DEF Control, Act, Windows, choices, locks, screens, emulator
<1>14. ASSUME NEW r \in Run, Finish(r) PROVE OwnEmulator'
  BY <1>14 DEF Finish, choices, locks, screens, emulator
<1>15. ASSUME NEW r \in Run, StopWine(r) PROVE OwnEmulator'
  <2>1. stage[r] = "closing" /\ Goto(r, "apps") /\ UNCHANGED <<prefix, left, power>>
    BY <1>15 DEF StopWine, choices, locks, screens, emulator
  <2>2. CASE UNCHANGED apps
    BY <2>1, <2>2
  <2>3. CASE (\E a \in App : apps[r][a] # "none") /\ Wineserver(r)
    <3>1. prefixLock[prefix[r]] = r
      BY <2>1, <2>3 DEF Launched
    <3>2. \A o \in Run : stage[o] \in Working => prefix[o] # prefix[r]
      BY <2>1, <3>1 DEF PrefixHeld
    <3>3. \A o \in Run : stage[o] \in Working => apps'[o] = apps[o]
      BY <2>3, <3>2 DEF Wineserver
    <3> QED
      BY <2>1, <3>3
  <2> QED
    BY <1>15, <2>2, <2>3 DEF StopWine
<1>16. ASSUME NEW r \in Run, StopApplications(r) PROVE OwnEmulator'
  BY <1>16 DEF StopApplications, choices, locks, screens, emulator
<1>17. ASSUME NEW r \in Run, StopXvfb(r) PROVE OwnEmulator'
  BY <1>17 DEF StopXvfb, Dead, Release, choices, locks, screens, emulator
<1>18. ASSUME NEW r \in Run, Unlock(r) PROVE OwnEmulator'
  BY <1>18 DEF Unlock, Release, choices, locks, screens, emulator
<1>19. ASSUME NEW r \in Run, Die(r) PROVE OwnEmulator'
  BY <1>19 DEF Die, Release, choices, locks, screens, emulator
<1>20. ASSUME UNCHANGED sessionVars PROVE OwnEmulator'
  BY <1>20 DEF sessionVars, choices, locks, screens, emulator, Tidy
<1> HIDE DEF OwnEmulator, Tidy, SessionInv, Typed, SessionTypeOK, Preparing, Working, App, Goto
<1> QED
  BY <1>1, <1>2, <1>3, <1>4, <1>5, <1>6, <1>7, <1>8, <1>9, <1>10, <1>11, <1>12, <1>13, <1>14, <1>15, <1>16, <1>17, <1>18, <1>19, <1>20 DEF SessionNext
\* What a helper command acts on in a step.
LEMMA ServedBy ==
  ASSUME NEW r \in Run, Toggle(r) \/ WaitUntilReady(r) \/ Control(r)
  PROVE  \E o \in Windows(r, "Pwrcntr") \cup Windows(r, "Simio"),
            i \in Windows(r, "Pwrcntr") \cup Windows(r, "Simio") :
           served' = [served EXCEPT ![r] = @ \cup {o, i}]
<1>1. CASE Toggle(r)
  <2>1. PICK o \in Windows(r, "Pwrcntr") : served' = [served EXCEPT ![r] = @ \cup {o}]
    BY <1>1 DEF Toggle, Act
  <2>2. {o} = {o, o}
    OBVIOUS
  <2> QED
    BY <2>1, <2>2
<1>2. CASE WaitUntilReady(r)
  BY <1>2 DEF WaitUntilReady
<1>3. CASE Control(r)
  <2>1. PICK a \in App : \E o \in Windows(r, a) : served' = [served EXCEPT ![r] = @ \cup {o}]
    BY <1>3 DEF Control, Act
  <2>2. PICK o \in Windows(r, a) : served' = [served EXCEPT ![r] = @ \cup {o}]
    BY <2>1
  <2>3. {o} = {o, o} /\ o \in Windows(r, "Pwrcntr") \cup Windows(r, "Simio")
    BY DEF App
  <2> QED
    BY <2>2, <2>3
<1> QED
  BY <1>1, <1>2, <1>3

LEMMA RightEmulatorKept ==
  ASSUME SessionInv, [SessionNext]_sessionVars
  PROVE  RightEmulator'
<1> USE DEF SessionInv, Typed, SessionTypeOK, Working, Preparing, RightEmulator
<1>1. ASSUME NEW r \in Run,
             WaitUntilReady(r) \/ Configure(r) \/ SwitchOn(r) \/ Retry(r) \/ Control(r)
      PROVE  RightEmulator'
  <2>1. stage[r] \in Preparing \cup Working /\ UNCHANGED left
    BY <1>1 DEF WaitUntilReady, Configure, SwitchOn, Retry, Control, Toggle
  <2>2. Toggle(r) \/ WaitUntilReady(r) \/ Control(r)
    BY <1>1 DEF Configure, SwitchOn, Retry
  <2>3. PICK o \in {r} \cup left, i \in {r} \cup left :
           served' = [served EXCEPT ![r] = @ \cup {o, i}]
    BY <2>1, <2>2, ServedBy, OwnWindows DEF App
  <2> QED
    BY <2>1, <2>3
<1>2. ASSUME UNCHANGED served, left \subseteq left' PROVE RightEmulator'
  BY <1>2
<1>3. ASSUME NEW r \in Run, NEW a \in App,
             \/ Lock(r) \/ Allotted(r) \/ StartTcpXvfb(r) \/ XvfbBinds(r)
             \/ ConnectDisplay(r) \/ Launch(r, a) \/ Appear(r, a) \/ SwitchedOn(r)
             \/ Finish(r) \/ StopWine(r) \/ StopApplications(r) \/ StopXvfb(r)
             \/ Unlock(r) \/ Die(r)
      PROVE  UNCHANGED served /\ left \subseteq left'
  BY <1>3 DEF Lock, Allotted, StartTcpXvfb, XvfbBinds, ConnectDisplay, Launch, Appear,
              SwitchedOn, Finish, StopWine, StopApplications, StopXvfb, Unlock, Die,
              emulator
<1>4. UNCHANGED sessionVars => UNCHANGED served /\ left \subseteq left'
  BY DEF sessionVars, emulator
<1>5. App # {}
  BY DEF App
<1> QED
  BY <1>1, <1>2, <1>3, <1>4, <1>5 DEF SessionNext

-----------------------------------------------------------------------------
LEMMA SessionInvariant == SessionSpec => []SessionInv
<1>1. SessionInit => SessionInv
  BY SessionAssumption
     DEF SessionInit, SessionInv, Typed, SessionTypeOK, Stage, Preparing, Working, App,
         Alive, PrefixHeld, DisplayHeld, TakenDown, Launched, OwnEmulator, Tidy,
         RightEmulator
<1>2. SessionInv /\ [SessionNext]_sessionVars => SessionInv'
  <2> SUFFICES ASSUME SessionInv, [SessionNext]_sessionVars PROVE SessionInv'
    OBVIOUS
  <2>1. Typed'
    BY TypedKept DEF SessionInv
  <2> QED
    BY <2>1, PrefixHeldKept, DisplayHeldKept, TakenDownKept, LaunchedKept,
       OwnEmulatorKept, RightEmulatorKept DEF SessionInv
<1> QED
  BY <1>1, <1>2, PTL DEF SessionSpec

\* What two runs share is only ever a lock with one owner, and a run has an application
\* at most once: each of start's and close's steps keeps to its own run's entries.
THEOREM SessionTypeCorrect == SessionSpec => []SessionTypeOK
<1>1. SessionInv => SessionTypeOK
  BY DEF SessionInv, Typed
<1> QED
  BY <1>1, SessionInvariant, PTL

\* Two validators in one Wine prefix: a helper command acts on the windows of its own
\* run, or on those of a run that was killed, for any number of runs and prefixes.
THEOREM EmulatorIsRight == SessionSpec => []RightEmulator
<1>1. SessionInv => RightEmulator
  BY DEF SessionInv
<1> QED
  BY <1>1, SessionInvariant, PTL

\* No other run's start or close switches a working emulator off or takes its windows.
THEOREM WorksUndisturbed == SessionSpec => []Undisturbed
<1>1. SessionInv => Undisturbed
  BY DEF SessionInv, OwnEmulator, Undisturbed, Working
<1> QED
  BY <1>1, SessionInvariant, PTL

\* close takes down whatever start had put up, from wherever it is called.
THEOREM ClosedIsClean == SessionSpec => []CloseCleans
<1>1. SessionInv => CloseCleans
  BY DEF SessionInv, Typed, SessionTypeOK, TakenDown, Alive, CloseCleans
<1> QED
  BY <1>1, SessionInvariant, PTL

\* The lock of a display number is what keeps two runs off one X server: the probe of
\* the port alone would not.
THEOREM DisplaysStayApart == SessionSpec => []DisplaysApart
<1>1. SessionInv => DisplaysApart
  BY DEF SessionInv, DisplayHeld, DisplaysApart
<1> QED
  BY <1>1, SessionInvariant, PTL
=============================================================================
