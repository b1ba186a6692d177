----------------------------- MODULE Supervisor -----------------------------
(***************************************************************************)
(* supervise() of adapters/process.py: one AqualinkD process, the task     *)
(* that drives it (the scenario) and the task that reads its output, and   *)
(* the supervising task that ends all three.  The supervising task stands  *)
(* at one of its awaits, `sup`; SIGINT cancels it there.                   *)
(*                                                                         *)
(* What happens inside the scenario is left open here: it ends when it     *)
(* likes and however it likes.                                             *)
(***************************************************************************)
EXTENDS Naturals

VARIABLES
  scripted,     \* a scenario drives the process
  timed,        \* duration_seconds is given
  sup,          \* where supervise() stands
  where,        \* in its try body, its CancelledError handler or its finally
  child,        \* the process: "alive", or how it exited
  signal,       \* the strongest signal sent to its process group
  output,       \* its output readers
  scenario,     \* scenario_task: "none", "running" or how it ended
  cancels,      \* calls of scenario_task.cancel()
  expired,      \* the cleanup timeout of _cancel_task has fired
  interrupted,  \* where SIGINT hit, "no" if it has not
  raised,       \* the exception supervise() is leaving with, "no" if none
  status,       \* of the RunResult
  reason

taskVars   == <<scenario, cancels>>
childVars  == <<child, output>>
resultVars == <<status, reason>>
modeVars   == <<scripted, timed>>
supVars    == <<modeVars, sup, where, child, signal, output, scenario, cancels, expired,
                interrupted, raised, status, reason>>

ScenarioResult == {"passed", "failed", "cancelled", "error"}
ScenarioDone   == scenario # "running"

SupInit ==
  /\ scripted \in BOOLEAN /\ timed \in BOOLEAN
  /\ sup = "watch" /\ where = "body"
  /\ child = "alive" /\ signal = "none" /\ output = "reading"
  /\ scenario = IF scripted THEN "running" ELSE "none"
  /\ cancels = 0 /\ expired = FALSE
  /\ interrupted = "no" /\ raised = "no"
  /\ status = "failed" /\ reason = "startup_failed"

-----------------------------------------------------------------------------
(* The steps supervise() is made of. *)

\* scenario_task.cancel(), when it is not done.
ThrowInto == cancels' = IF ScenarioDone THEN cancels ELSE cancels + 1

\* _stop_process: SIGTERM, unless the process is known to have exited.
StopProcess ==
  IF child = "alive"
  THEN sup' = "grace" /\ signal' = IF signal = "kill" THEN "kill" ELSE "term"
  ELSE sup' = "drain" /\ UNCHANGED signal

\* Mutant: the process is stopped without waiting for the scenario.
CancelTaskNoWait ==
  /\ ThrowInto
  /\ StopProcess

\* _cancel_task: throw a CancelledError into the scenario and wait for its end.
CancelTask ==
  /\ ThrowInto
  /\ IF ScenarioDone THEN StopProcess ELSE sup' = "cleanup" /\ UNCHANGED signal

Verdict(s, r) == status' = s /\ reason' = r

-----------------------------------------------------------------------------
(* The body: who finishes first. *)

SeeScenarioEnd ==
  /\ sup = "watch" /\ scripted /\ ScenarioDone
  /\ StopProcess
  /\ CASE scenario = "error" -> Verdict("failed", "scenario_error")
       [] scenario = "cancelled" -> Verdict("failed", "interrupted")
       [] OTHER -> Verdict(scenario, "scenario_outcome")
  /\ IF scenario = "cancelled"
     THEN where' = "handler" /\ raised' = "cancelled"
     ELSE UNCHANGED <<where, raised>>
  /\ UNCHANGED <<modeVars, childVars, taskVars, expired, interrupted>>

SeeChildExit ==
  /\ sup = "watch" /\ child # "alive"
  /\ CASE scripted -> Verdict("failed", "child_exit_during_scenario")
       [] timed /\ ~scripted -> Verdict("failed", "child_exit_before_duration")
       [] OTHER -> Verdict(IF child = "zero" THEN "passed" ELSE "failed", "child_exit")
  /\ CancelTask
  /\ UNCHANGED <<modeVars, where, childVars, scenario, expired, interrupted, raised>>

DurationElapses ==
  /\ sup = "watch" /\ timed
  /\ scripted => ~ScenarioDone
  /\ IF scripted THEN Verdict("failed", "scenario_timeout")
                 ELSE Verdict("passed", "duration_elapsed")
  /\ CancelTask
  /\ UNCHANGED <<modeVars, where, childVars, scenario, expired, interrupted, raised>>

-----------------------------------------------------------------------------
(* Ending the scenario and the process. *)

\* Mutant: the cleanup timeout is armed again each time it fires.
CleanupExpiresAgain ==
  /\ sup = "cleanup" /\ ~ScenarioDone
  /\ expired' = TRUE
  /\ ThrowInto
  /\ UNCHANGED <<modeVars, sup, where, childVars, signal, scenario, interrupted, raised,
                 resultVars>>

\* The cleanup timeout throws into the scenario a second time and goes on
\* waiting for it.
CleanupExpires ==
  /\ sup = "cleanup" /\ ~ScenarioDone /\ ~expired
  /\ expired' = TRUE
  /\ ThrowInto
  /\ UNCHANGED <<modeVars, sup, where, childVars, signal, scenario, interrupted, raised,
                 resultVars>>

\* Mutant: the finally block does not look after the process.
CleanupEndsUnguarded ==
  /\ sup = "cleanup" /\ ScenarioDone
  /\ IF scenario = "error"
     THEN sup' = "drain" /\ where' = "finally" /\ raised' = "error" /\ UNCHANGED signal
     ELSE StopProcess /\ UNCHANGED <<where, raised>>
  /\ UNCHANGED <<modeVars, childVars, taskVars, expired, interrupted, resultVars>>

\* Only an exception of the scenario leaves _cancel_task; the process is then
\* stopped by the finally block.
CleanupEnds ==
  /\ sup = "cleanup" /\ ScenarioDone
  /\ StopProcess
  /\ IF scenario = "error"
     THEN where' = "finally" /\ raised' = "error"
     ELSE UNCHANGED <<where, raised>>
  /\ UNCHANGED <<modeVars, childVars, taskVars, expired, interrupted, resultVars>>

\* Mutant: the grace period ends and nothing stronger is sent.
GraceExpiresMild ==
  /\ sup = "grace" /\ child = "alive"
  /\ sup' = "killing"
  /\ UNCHANGED <<modeVars, where, childVars, signal, taskVars, expired, interrupted, raised,
                 resultVars>>

GraceExpires ==
  /\ sup = "grace" /\ child = "alive"
  /\ sup' = "killing" /\ signal' = "kill"
  /\ UNCHANGED <<modeVars, where, childVars, taskVars, expired, interrupted, raised,
                 resultVars>>

Stopped ==
  /\ sup \in {"grace", "killing"} /\ child # "alive"
  /\ sup' = "drain"
  /\ UNCHANGED <<modeVars, where, childVars, signal, taskVars, expired, interrupted, raised,
                 resultVars>>

\* Mutant: the readers' exceptions are collected and not looked at.
DrainIgnoring ==
  /\ sup = "drain" /\ output # "reading"
  /\ sup' = "done" /\ where' = "finally"
  /\ UNCHANGED <<modeVars, childVars, signal, taskVars, expired, interrupted, raised,
                 resultVars>>

\* The finally block waits for the readers and closes the artifacts.
Drain ==
  /\ sup = "drain" /\ output # "reading"
  /\ sup' = "done" /\ where' = "finally"
  /\ IF output = "failed" THEN Verdict("failed", "output_reader_error")
                          ELSE UNCHANGED resultVars
  /\ UNCHANGED <<modeVars, childVars, signal, taskVars, expired, interrupted, raised>>

-----------------------------------------------------------------------------
(* SIGINT: asyncio.run cancels the supervising task at its await. *)

\* In the body the handler cancels the scenario and stops the process.
InterruptHandled ==
  /\ where = "body" /\ sup \in {"watch", "grace", "killing"}
  /\ where' = "handler" /\ raised' = "cancelled"
  /\ Verdict("failed", "interrupted")
  /\ CancelTask
  /\ UNCHANGED <<childVars, scenario>>

\* In _cancel_task it reaches the scenario, and the CancelledError that comes
\* back is suppressed.
InterruptSuppressed ==
  /\ sup = "cleanup"
  /\ ThrowInto
  /\ UNCHANGED <<sup, where, childVars, signal, scenario, raised, resultVars>>

\* In the handler's _stop_process it leaves the handler, and the finally block
\* stops the process again.
InterruptRetried ==
  /\ where = "handler" /\ sup \in {"grace", "killing"}
  /\ where' = "finally"
  /\ StopProcess
  /\ UNCHANGED <<childVars, taskVars, raised, resultVars>>

\* In the finally block it leaves supervise().
InterruptEscapes ==
  /\ \/ sup = "drain"
     \/ where = "finally" /\ sup \in {"grace", "killing"}
  /\ sup' = "done" /\ where' = "finally" /\ raised' = "cancelled"
  /\ UNCHANGED <<childVars, signal, taskVars, resultVars>>

Interrupt ==
  /\ interrupted = "no"
  /\ interrupted' = IF where = "finally" THEN "finally" ELSE sup
  /\ \/ InterruptHandled
     \/ InterruptSuppressed
     \/ InterruptRetried
     \/ InterruptEscapes
  /\ UNCHANGED <<modeVars, expired>>

-----------------------------------------------------------------------------
(* The process, its output and the scenario. *)

\* The process exits by itself or because of SIGTERM, which it may ignore.
ChildExits ==
  /\ child = "alive" /\ signal # "kill"
  /\ child' \in {"zero", "nonzero"}
  /\ UNCHANGED <<modeVars, sup, where, signal, output, taskVars, expired, interrupted, raised,
                 resultVars>>

ChildKilled ==
  /\ child = "alive" /\ signal = "kill"
  /\ child' = "nonzero"
  /\ UNCHANGED <<modeVars, sup, where, signal, output, taskVars, expired, interrupted, raised,
                 resultVars>>

OutputEnds ==
  /\ output = "reading" /\ child # "alive" /\ sup # "done"
  /\ output' = "eof"
  /\ UNCHANGED <<modeVars, sup, where, child, signal, taskVars, expired, interrupted, raised,
                 resultVars>>

\* A reader or one of its observers raises.
OutputFails ==
  /\ output = "reading" /\ sup # "done"
  /\ output' = "failed"
  /\ UNCHANGED <<modeVars, sup, where, child, signal, taskVars, expired, interrupted, raised,
                 resultVars>>

ScenarioEnds(r) ==
  /\ scenario = "running"
  /\ scenario' = r

ScenarioEndsAlone ==
  /\ \E r \in ScenarioResult : ScenarioEnds(r)
  /\ UNCHANGED <<modeVars, sup, where, childVars, signal, cancels, expired, interrupted,
                 raised, resultVars>>

-----------------------------------------------------------------------------
SuperviseStep ==
  \/ SeeScenarioEnd \/ SeeChildExit \/ DurationElapses
  \/ CleanupExpires \/ CleanupEnds \/ GraceExpires \/ Stopped \/ Drain

ProcessStep == ChildExits \/ ChildKilled \/ OutputEnds \/ OutputFails

SupNext == SuperviseStep \/ Interrupt \/ ProcessStep \/ ScenarioEndsAlone

\* The event loop runs whatever is ready and its timers fire; a process dies
\* from SIGKILL and its pipes close; every await of a cancelled scenario is
\* bounded by a timeout.  The process need not exit from SIGTERM.
SupFairness ==
  /\ WF_supVars(SuperviseStep)
  /\ WF_supVars(ChildKilled)
  /\ WF_supVars(OutputEnds)

TaskFairness == WF_supVars(cancels > 0 /\ ScenarioEndsAlone)

SupSafety == SupInit /\ [][SupNext]_supVars
SupSpec   == SupSafety /\ SupFairness /\ TaskFairness

-----------------------------------------------------------------------------
(* Properties. *)

SupTypeOK ==
  /\ scripted \in BOOLEAN /\ timed \in BOOLEAN
  /\ sup \in {"watch", "cleanup", "grace", "killing", "drain", "done"}
  /\ where \in {"body", "handler", "finally"}
  /\ child \in {"alive", "zero", "nonzero"}
  /\ signal \in {"none", "term", "kill"}
  /\ output \in {"reading", "eof", "failed"}
  /\ scenario \in {"none", "running"} \cup ScenarioResult
  /\ cancels \in 0 .. 3
  /\ expired \in BOOLEAN
  /\ interrupted \in {"no", "watch", "cleanup", "grace", "killing", "drain", "finally"}
  /\ raised \in {"no", "cancelled", "error"}
  /\ status \in {"passed", "failed"}
  /\ reason \in {"startup_failed", "scenario_error", "interrupted", "scenario_outcome",
                 "child_exit", "child_exit_before_duration", "child_exit_during_scenario",
                 "duration_elapsed", "scenario_timeout", "output_reader_error"}

\* A restoration needs the AqualinkD it talks to: the supervisor never signals
\* the process, and never returns, while the scenario still runs -- after a
\* timeout, an interrupt, or both.
ScenarioOutlived ==
  scenario = "running" => signal = "none" /\ sup \in {"watch", "cleanup"}

\* No process outlives supervise(), except when SIGINT arrives while the finally
\* block stops a process that a failing cleanup left to it.
NoOrphan ==
  sup = "done" /\ child = "alive" =>
    interrupted = "finally" /\ scenario = "error"

\* A run is reported as passed only if nothing went wrong by itself: the
\* scenario passed, or the process survived its duration or exited with 0, and
\* its whole output was read.
PassedIsEarned ==
  sup = "done" /\ raised = "no" /\ status = "passed" =>
    /\ output = "eof"
    /\ CASE scripted -> scenario = "passed" /\ cancels = 0
         [] timed /\ ~scripted -> reason = "duration_elapsed"
         [] OTHER -> child = "zero" /\ signal = "none"

\* supervise() ends when its duration or its scenario does, and after an
\* interrupt.
Terminates ==
  (timed \/ scenario \in ScenarioResult \/ interrupted # "no") ~> sup = "done"
=============================================================================
