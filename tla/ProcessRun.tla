----------------------------- MODULE ProcessRun -----------------------------
(***************************************************************************)
(* One supervised run of a suite of YAML testcases: Supervisor with its    *)
(* scenario made of DeclarativeScenarioRunner (testcases/lifecycle.py) and *)
(* TestcaseExecutor (testcases/executor.py).                               *)
(*                                                                         *)
(* The scenario stands at one await: a step of the testcase, a step of its *)
(* finally section, or the final safety restoration.  The mutations that   *)
(* PdaRestoration follows one by one are one bit here, what                *)
(* has_pending_mutations returns.  A CancelledError that the supervisor    *)
(* throws is delivered by the scenario's next step, and several thrown     *)
(* before that step are one.                                               *)
(***************************************************************************)
EXTENDS Supervisor, Sequences

CONSTANT Suites  \* suites: sequences of [steps, finally], sequences of keywords

\* "mutate" stands for the keywords that change equipment, "check" for those
\* that only look, "set" and "reset" for set_power_center_mode and
\* set_power_center_temperature away from their defaults and back to them.
Keyword == {"initialize", "mutate", "check", "set", "reset", "restore"}

ASSUME SuitesAssumption ==
  \A s \in Suites :
    /\ s # <<>>
    /\ s \in Seq([steps : Seq(Keyword) \ {<<>>}, finally : Seq({"restore", "reset"})])

\* A testcase that sets the Power Center to something resets it in its finally section.
ResetsWhatItSets ==
  \A s \in Suites : \A i \in DOMAIN s :
    "set" \in {s[i].steps[j] : j \in DOMAIN s[i].steps} =>
      "reset" \in {s[i].finally[j] : j \in DOMAIN s[i].finally}

VARIABLES
  suite,        \* the testcases of the run
  case,         \* index of the current one
  section,      \* "steps", "finally" or "final" (safety restoration)
  index,        \* of the current step in its section
  primary,      \* primary_error: "none", "failure" or "cancel"
  cleanup,      \* cleanup_errors
  initialized,  \* the initial snapshot is captured
  ready,        \* _initialized of the testcase's keywords
  pending,      \* has_pending_mutations
  setting,      \* of the Power Center: "default" or "altered"
  straggler,    \* a thread of a "set" keyword that nobody waits for still runs
  delivered,    \* cancels delivered so far
  file,         \* safe_to_continue in scenario.json, "absent" without the file
  final,        \* how the testcase's final safety restoration ended
  reported      \* History variable: the testcase that scenario.json describes

caseVars  == <<case, section, index, primary, cleanup, final>>
panelVars == <<initialized, ready, pending, setting, straggler>>
fileVars  == <<file, reported>>
runVars   == <<suite, caseVars, panelVars, delivered, fileVars>>
procVars  == <<supVars, runVars>>

Outcome == {"none", "failure", "cancel"}

RunInit ==
  /\ case = 1 /\ section = "steps" /\ index = 1
  /\ primary = "none" /\ cleanup = <<>> /\ final = "none"
  /\ initialized = FALSE /\ ready = FALSE /\ pending = FALSE
  /\ straggler = FALSE
  /\ delivered = 0
  /\ file = "absent" /\ reported = 0

ProcInit ==
  /\ SupInit /\ scripted
  /\ suite \in Suites
  /\ setting = "default"
  /\ RunInit

-----------------------------------------------------------------------------
(* Keywords. *)

\* A cancellation is delivered before anything else; without one, an await
\* ends well or in an Exception.
Delivers(o) ==
  /\ IF delivered < cancels THEN o = "cancel" ELSE o \in {"none", "failure"}
  /\ delivered' = cancels

\* A set keyword runs in a thread, which a timeout or a cancellation of the
\* await leaves alone.
SetPowerCenter(o) ==
  /\ \/ o = "none" /\ setting' = "altered" /\ UNCHANGED straggler
     \/ o # "none" /\ setting' \in {setting, "altered"} /\ UNCHANGED straggler
     \/ o # "none" /\ straggler' = TRUE /\ UNCHANGED setting
  /\ UNCHANGED <<initialized, ready, pending>>

ResetPowerCenter(o) ==
  /\ IF o = "none" THEN setting' = "default" ELSE UNCHANGED setting
  /\ UNCHANGED <<initialized, ready, pending, straggler>>

\* Only the first testcase initializes.  What fails after the snapshot is
\* captured does not await.
Initialize(o) ==
  /\ ready => o # "failure"
  /\ o = "none" => ready \/ child = "alive"
  /\ ready' = (ready \/ o = "none")
  /\ CASE o = "none" -> initialized' = TRUE
       [] o = "cancel" -> UNCHANGED initialized
       [] o = "failure" -> initialized' \in {initialized, TRUE}
  /\ UNCHANGED <<pending, setting, straggler>>

\* Mutations count as pending from before their request is sent.
Mutate(o) ==
  /\ o = "none" => ready /\ child = "alive"
  /\ pending' \in {pending, pending \/ ready}
  /\ UNCHANGED <<initialized, ready, setting, straggler>>

\* An error-free restoration of something needs AqualinkD's answers.
Restore(o) ==
  /\ o = "none" => ~pending \/ child = "alive"
  /\ pending' = (pending /\ o # "none")
  /\ UNCHANGED <<initialized, ready, setting, straggler>>

Dispatch(k, o) ==
  CASE k = "initialize" -> Initialize(o)
    [] k = "mutate"  -> Mutate(o)
    [] k = "check"   -> (o = "none" => ready) /\ UNCHANGED panelVars
    [] k = "set"     -> SetPowerCenter(o)
    [] k = "reset"   -> ResetPowerCenter(o)
    [] k = "restore" -> (o = "none" => ready) /\ Restore(o)

-----------------------------------------------------------------------------
(* The end of a testcase: _run_testcase after execute(). *)

\* Mutant: the errors of the finally steps are not raised.
RaisedPrimary(p, c) == p

\* execute() raises the only error it has, and a group of several.  A group is
\* no CancelledError, even if it holds one.
Raised(p, c) ==
  CASE p = "none" /\ c = <<>> -> "none"
    [] p = "none" /\ Len(c) = 1 -> c[1]
    [] p # "none" /\ c = <<>> -> p
    [] OTHER -> "failure"

\* Mutant: the outcome of the final restoration does not matter.
SafeUnlessCancelled(error, ending, captured) == captured /\ error # "cancel"

SafeToContinue(error, ending, captured) ==
  captured /\ error # "cancel" /\ ending # "failure"

\* The report is written; a passed testcase is followed by the next one.
Report(error, ending) ==
  /\ file' = IF SafeToContinue(error, ending, initialized') THEN "safe" ELSE "unsafe"
  /\ reported' = case
  /\ IF error = "none" /\ ending # "failure" /\ case < Len(suite)
     THEN /\ case' = case + 1
          /\ section' = "steps" /\ index' = 1
          /\ primary' = "none" /\ cleanup' = <<>> /\ final' = "none"
          /\ UNCHANGED scenario
     ELSE /\ ScenarioEnds(CASE error = "cancel" -> "cancelled"
                            [] error = "none" /\ ending # "failure" -> "passed"
                            [] OTHER -> "failed")
          /\ final' = ending
          /\ UNCHANGED <<case, section, index, primary, cleanup>>

\* Mutant: a cancelled testcase gets no final restoration.
ConcludeUnlessCancelled(p, c) ==
  IF pending' /\ Raised(p, c) # "cancel"
  THEN /\ section' = "final" /\ primary' = p /\ cleanup' = c
       /\ UNCHANGED <<case, index, final, scenario, fileVars>>
  ELSE Report(Raised(p, c), "none")

\* execute() has returned or raised.
Conclude(p, c) ==
  IF pending'
  THEN /\ section' = "final" /\ primary' = p /\ cleanup' = c
       /\ UNCHANGED <<case, index, final, scenario, fileVars>>
  ELSE Report(Raised(p, c), "none")

-----------------------------------------------------------------------------
(* The scenario's awaits. *)

Steps   == suite[case].steps
Finally == suite[case].finally

GotoStep(s, i, p, c) ==
  /\ section' = s /\ index' = i /\ primary' = p /\ cleanup' = c
  /\ UNCHANGED <<case, final, scenario, fileVars>>

StepEnds(o) ==
  /\ section = "steps"
  /\ Delivers(o)
  /\ Dispatch(Steps[index], o)
  /\ IF o = "none" /\ index < Len(Steps) THEN GotoStep("steps", index + 1, o, <<>>)
     ELSE IF Finally # <<>> THEN GotoStep("finally", 1, o, <<>>)
     ELSE Conclude(o, <<>>)

\* Every finally step runs; mutant: a failing one is tried again.
FinallyEndsRetrying(o) ==
  /\ section = "finally"
  /\ Delivers(o)
  /\ Dispatch(Finally[index], o)
  /\ LET errors == IF o = "none" THEN cleanup ELSE <<o>>
     IN  IF o = "failure" THEN GotoStep("finally", index, primary, errors)
         ELSE IF index < Len(Finally) THEN GotoStep("finally", index + 1, primary, errors)
         ELSE Conclude(primary, errors)

FinallyEnds(o) ==
  /\ section = "finally"
  /\ Delivers(o)
  /\ Dispatch(Finally[index], o)
  /\ LET errors == IF o = "none" THEN cleanup ELSE Append(cleanup, o)
     IN  IF index < Len(Finally) THEN GotoStep("finally", index + 1, primary, errors)
                                 ELSE Conclude(primary, errors)

\* A CancelledError leaves the final restoration, and the scenario, at once.
FinalEnds(o) ==
  /\ section = "final"
  /\ Delivers(o)
  /\ Restore(o)
  /\ IF o = "cancel"
     THEN /\ ScenarioEnds("cancelled") /\ final' = o
          /\ UNCHANGED <<case, section, index, primary, cleanup, fileVars>>
     ELSE Report(Raised(primary, cleanup), IF o = "none" THEN "restored" ELSE o)

TaskStep ==
  /\ scenario = "running"
  /\ \E o \in Outcome : StepEnds(o) \/ FinallyEnds(o) \/ FinalEnds(o)
  /\ UNCHANGED <<suite, modeVars, sup, where, childVars, signal, cancels, expired,
                 interrupted, raised, resultVars>>

\* The thread comes to its end, with or without effect; asyncio.run waits for
\* it after supervise().
StragglerEnds ==
  /\ straggler
  /\ straggler' = FALSE
  /\ setting' \in {setting, "altered"}
  /\ UNCHANGED <<supVars, suite, caseVars, initialized, ready, pending, delivered, fileVars>>

-----------------------------------------------------------------------------
Surroundings == (SuperviseStep \/ Interrupt \/ ProcessStep) /\ UNCHANGED runVars

ProcNext == Surroundings \/ TaskStep \/ StragglerEnds

\* Every await of the scenario has a timeout of its own.
ProcSpec ==
  /\ ProcInit /\ [][ProcNext]_procVars
  /\ SupFairness
  /\ WF_procVars(TaskStep)

-----------------------------------------------------------------------------
(* Properties. *)

ProcTypeOK ==
  /\ SupTypeOK
  /\ suite \in Suites
  /\ case \in DOMAIN suite
  /\ section \in {"steps", "finally", "final"}
  /\ index \in 1 .. Len(IF section = "steps" THEN Steps ELSE Finally)
       \/ section = "final"
  /\ primary \in Outcome
  /\ cleanup \in Seq({"failure", "cancel"}) /\ Len(cleanup) <= Len(Finally)
  /\ initialized \in BOOLEAN /\ ready \in {FALSE, initialized}
  /\ pending \in BOOLEAN /\ straggler \in BOOLEAN
  /\ setting \in {"default", "altered"}
  /\ delivered \in 0 .. cancels
  /\ file \in {"absent", "safe", "unsafe"}
  /\ final \in {"none", "restored", "failure", "cancel"}
  /\ reported \in 0 .. case

\* A suite of testcases is a scenario as supervise() assumes one: it ends, in
\* one of the ways expected of it, whatever is cancelled when.
IsSupervised == SupSpec

\* The runner makes its final safety restoration after failure and
\* cancellation: equipment is left behind only if that restoration was made,
\* and failed or was itself cancelled.
LeftOnlyAfterFinal ==
  scenario \in ScenarioResult /\ pending => final \in {"failure", "cancel"}

\* safe_to_continue in the file that the run leaves is true of the equipment,
\* if the file describes the testcase the run ended in.
SafeReportIsTrue ==
  scenario \in ScenarioResult /\ file = "safe" /\ reported = case => ~pending

\* A run reported as passed leaves nothing behind: no mutation, no Power Center
\* setting and no thread that could still change one.
PassedLeavesNothing ==
  sup = "done" /\ raised = "no" /\ status = "passed" =>
    ~pending /\ setting = "default" /\ ~straggler

\* "restored the panel": what the composite runner prints after a failed member
\* whose report says safe_to_continue, held against the Power Center.
SafeMeansReset ==
  sup = "done" /\ file = "safe" /\ reported = case => setting = "default"
=============================================================================
