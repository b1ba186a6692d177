---------------------------- MODULE PythonTargets ----------------------------
(***************************************************************************)
(* The run targets written in Python and not as YAML testcases             *)
(* (run_targets.py, PythonTargetDefinition): the RS targets, which         *)
(* RsScenarioRuntime runs, and the PDA ones for time and AquaPDA, which    *)
(* RuntimeCaseRunner runs under PdaScenarioRuntime.run.  Both loop over    *)
(* their cases and then clean up, each in a way of its own: RS restores    *)
(* devices, then the clock, and reports last; PDA reports, and restores    *)
(* the clock in a finally around that.                                     *)
(***************************************************************************)
EXTENDS EquipmentPanel, PanelClock, Sequences

CONSTANT Targets  \* the targets: protocol, whether its clock is shifted, cases

\* "look" is a case that changes nothing, "time" the time exercise, a device
\* the exercise of that device.  The initialization comes first, and once.
Plain == {"init", "look", "time"}

ASSUME TargetsAssumption ==
  \A t \in Targets :
    /\ t.protocol \in {"rs", "pda"} /\ t.timed \in BOOLEAN
    /\ t.cases \in Seq(Plain \cup Device) /\ t.cases # <<>>
    /\ \A i \in DOMAIN t.cases :
         /\ t.cases[i] = "init" <=> i = 1
         /\ t.cases[i] = "time" => t.timed
         /\ t.cases[i] \in Device => t.protocol = "rs" /\ t.cases[i] \notin Plain

VARIABLES
  target,
  part,     \* "cases", the restoration of "devices", of the "clock", or "over"
  index,    \* of the current case
  pc,       \* the await the scenario stands at; "next" between two of them
  api,      \* the endpoint is known
  known,    \* the initial snapshot is captured ...
  initial,  \* ... and says this of the devices
  touched,  \* _touched
  op,       \* the device request under way, or the restoration of its device
  todo,     \* what the restoration of devices still has to visit
  errors,   \* it, or that of the clock, recorded an error
  status,
  raised,   \* the exception in flight, "no" if none
  file,     \* safe_to_continue in scenario.json, "absent" without the file
  cut,      \* History variable: a cancellation hit the restoration itself
  unverified,  \* History variables: devices sent a request and not since observed undone
  loose        \* ... devices whose request the scenario stopped waiting for

endVars    == <<raised, file, cut>>
restVars   == <<part, index, op, todo, errors, status, endVars>>
factVars   == <<target, api, known, initial>>
loopVars   == <<part, index, pc, op, todo, errors, status, endVars>>
ghostVars  == <<unverified, loose>>
targetVars == <<panelVars, clockVars, factVars, touched, loopVars, ghostVars>>

Outcome == {"ok", "failure", "cancel"}

NoOp == [kind |-> "device", device |-> FilterPump, value |-> Off]

Case == target.cases[index]

TargetInit ==
  /\ PanelInit
  /\ target \in Targets
  /\ ClockInit(target.timed)
  /\ part = "cases" /\ index = 1 /\ pc = "next"
  /\ api = FALSE /\ known = FALSE
  /\ initial = [d \in Device |-> Enabled(d)]
  /\ touched = {} /\ op = NoOp /\ todo = {}
  /\ errors = FALSE /\ status = "passed" /\ raised = "no" /\ file = "absent"
  /\ cut = FALSE
  /\ unverified = {} /\ loose = {}

-----------------------------------------------------------------------------
(* How the loop over the cases goes on. *)

NextCase ==
  /\ index' = index + 1 /\ pc' = "next"
  /\ UNCHANGED <<part, op, todo, errors, endVars>>

\* Mutant: a cancelled scenario restores no devices.
LeaveUncancelled(r) ==
  /\ pc' = "next" /\ raised' = r
  /\ IF target.protocol = "rs"
     THEN /\ part' = "devices"
          /\ todo' = IF known' /\ r = "no" THEN touched' ELSE {}
          /\ UNCHANGED file
     ELSE /\ part' = "clock"
          /\ file' = IF known' /\ r = "no" THEN "safe" ELSE "unsafe"
          /\ UNCHANGED todo
  /\ UNCHANGED <<index, op, errors, cut>>

\* The loop is over, with a CancelledError in flight or without.  RS goes to its
\* finally block, PDA writes its report.
Leave(r) ==
  /\ pc' = "next" /\ raised' = r
  /\ IF target.protocol = "rs"
     THEN /\ part' = "devices"
          /\ todo' = IF known' THEN touched' ELSE {}
          /\ UNCHANGED file
     ELSE /\ part' = "clock"
          /\ file' = IF known' /\ r = "no" THEN "safe" ELSE "unsafe"
          /\ UNCHANGED todo
  /\ UNCHANGED <<index, op, errors, cut>>

\* A failed case ends an RS target; a PDA target goes on, except after its
\* initialization.
EndCase(o) ==
  \/ o = "ok" /\ NextCase /\ UNCHANGED status
  \/ o = "cancel" /\ Leave("cancelled") /\ status' = "failed"
  \/ /\ o = "failure" /\ status' = "failed"
     /\ IF target.protocol = "pda" /\ Case # "init" THEN NextCase ELSE Leave("no")

CasesDone ==
  /\ part = "cases" /\ pc = "next" /\ index > Len(target.cases)
  /\ UNCHANGED <<panelVars, clockVars, factVars, status, touched, ghostVars>>
  /\ Leave("no")

-----------------------------------------------------------------------------
(* The cases. *)

Starts(case) == part = "cases" /\ pc = "next" /\ index <= Len(target.cases) /\ Case = case

StartPlain ==
  /\ \E c \in {"init", "look"} : Starts(c) /\ pc' = c
  /\ UNCHANGED <<panelVars, clockVars, factVars, restVars, touched, ghostVars>>

\* The endpoint and the snapshot may be there although the initialization
\* fails later.
Initialized(o) ==
  /\ pc = "init"
  /\ api' \in IF o = "ok" THEN {TRUE} ELSE BOOLEAN
  /\ known' \in IF o = "ok" THEN {TRUE} ELSE {FALSE, api'}
  /\ initial' = [d \in Device |-> Enabled(d)]
  /\ UNCHANGED touched
  /\ EndCase(o)
  /\ UNCHANGED <<panelVars, clockVars, target, ghostVars>>

Looked(o) ==
  /\ pc = "look"
  /\ UNCHANGED <<api, known, touched>>
  /\ EndCase(o)
  /\ UNCHANGED <<panelVars, clockVars, target, initial, ghostVars>>

StartTime ==
  /\ Starts("time")
  /\ Watch
  /\ pc' = "clock"
  /\ UNCHANGED <<panelVars, factVars, restVars, touched, ghostVars>>

\* Mutant: the device is not recorded.
TouchNothing(d) == UNCHANGED touched

Touch(d) == touched' = touched \cup {d}

\* _exercise_device: the opposite of the initial state.
StartDevice(d) ==
  /\ Starts(d)
  /\ Touch(d)
  /\ op' = [kind |-> "device", device |-> d, value |-> On - initial[d]]
  /\ pc' = "put"
  /\ UNCHANGED <<panelVars, clockVars, factVars, part, index, todo, errors, status,
                 endVars, ghostVars>>

-----------------------------------------------------------------------------
(* A device request and the restoration of its device. *)

StillMoving(d) == Transitioning(d) \/ \E r \in queue : r.device = d

Restoring == op.value = initial[op.device]

\* The restoration of the device has ended.
Visited(o) ==
  IF part = "cases"
  THEN /\ touched' = IF o = "ok" THEN touched \ {op.device} ELSE touched
       /\ UNCHANGED known
       /\ EndCase(o)
  ELSE /\ todo' = todo \ {op.device}
       /\ errors' = (errors \/ o = "failure")
       /\ IF o = "cancel"
          THEN part' = "over" /\ pc' = "over" /\ raised' = "cancelled" /\ cut' = TRUE
          ELSE pc' = "next" /\ UNCHANGED <<part, raised, cut>>
       /\ UNCHANGED <<index, op, status, file, touched, known>>

\* The device is seen in its initial state.
SeenRestored ==
  /\ unverified' = unverified \ {op.device}
  /\ loose' = IF StillMoving(op.device) THEN loose ELSE loose \ {op.device}

Put ==
  /\ pc = "put"
  /\ Accept(op)
  /\ unverified' = unverified \cup {op.device}
  /\ pc' = "confirm"
  /\ UNCHANGED <<clockVars, factVars, restVars, touched, loose>>

\* Any command to the panel logs an acknowledgement.
Confirmed ==
  /\ pc = "confirm"
  /\ pc' = "converge"
  /\ UNCHANGED <<panelVars, clockVars, factVars, restVars, touched, ghostVars>>

\* _wait_for_state: the state is there; what was toggled is toggled back.
Converged ==
  /\ pc = "converge"
  /\ ~Transitioning(op.device) /\ Enabled(op.device) = op.value
  /\ IF Restoring
     THEN Visited("ok") /\ SeenRestored
     ELSE /\ op' = [op EXCEPT !.value = initial[op.device]]
          /\ pc' = "read"
          /\ UNCHANGED <<part, index, todo, errors, status, endVars, known, touched,
                         ghostVars>>
  /\ UNCHANGED <<panelVars, clockVars, target, api, initial>>

\* _restore_device: send a request unless the device reports its initial state.
ReadCurrent ==
  /\ pc = "read"
  /\ IF Enabled(op.device) = op.value
     THEN Visited("ok") /\ SeenRestored
     ELSE pc' = "put" /\ UNCHANGED <<restVars, known, touched, ghostVars>>
  /\ UNCHANGED <<panelVars, clockVars, target, api, initial>>

\* Any of these awaits ends in an exception, or is cancelled.
Interrupted(o) ==
  /\ o # "ok" /\ pc \in {"put", "confirm", "converge", "read"}
  /\ Visited(o)
  /\ loose' = IF pc \in {"confirm", "converge"} /\ StillMoving(op.device)
              THEN loose \cup {op.device} ELSE loose
  /\ UNCHANGED <<panelVars, clockVars, target, api, initial, unverified>>

\* The request was taken and its answer was lost.
PutUnanswered(o) ==
  /\ o # "ok" /\ pc = "put"
  /\ Accept(op)
  /\ Visited(o)
  /\ unverified' = unverified \cup {op.device}
  /\ loose' = loose \cup {op.device}
  /\ UNCHANGED <<clockVars, target, api, initial>>

-----------------------------------------------------------------------------
(* RS: _restore, the first half of the finally block. *)

VisitDevice(d) ==
  /\ part = "devices" /\ pc = "next" /\ d \in todo
  /\ op' = [kind |-> "device", device |-> d, value |-> initial[d]]
  /\ pc' = "read"
  /\ UNCHANGED <<panelVars, clockVars, factVars, part, index, todo, errors, status,
                 endVars, touched, ghostVars>>

DevicesDone ==
  /\ part = "devices" /\ pc = "next" /\ todo = {}
  /\ part' = "clock"
  /\ touched' = IF known /\ ~errors THEN {} ELSE touched
  /\ status' = IF errors THEN "failed" ELSE status
  /\ UNCHANGED <<panelVars, clockVars, factVars, index, pc, op, todo, errors, endVars,
                 ghostVars>>

-----------------------------------------------------------------------------
(* _restore_real_time, and the end of the scenario. *)

\* Mutant: RS does not count a failed restoration of the clock as an error.
FinishLenient(o) ==
  /\ part' = "over" /\ pc' = "over"
  /\ IF target.protocol = "rs"
     THEN /\ status' = IF o = "failure" THEN "failed" ELSE status
          /\ raised' = IF o = "cancel" THEN "cancelled" ELSE raised
          /\ file' = IF raised' # "no" THEN file ELSE IF errors THEN "unsafe" ELSE "safe"
          /\ UNCHANGED errors
     ELSE /\ raised' = IF o = "cancel" THEN "cancelled"
                      ELSE IF o = "failure" THEN "error" ELSE raised
          /\ UNCHANGED <<errors, status, file>>
  /\ cut' = (o = "cancel")
  /\ UNCHANGED <<index, op, todo>>

\* RS records a failure and writes its report, unless a cancellation is in
\* flight; in PDA a failure becomes the scenario's exception.
Finish(o) ==
  /\ part' = "over" /\ pc' = "over"
  /\ IF target.protocol = "rs"
     THEN /\ errors' = (errors \/ o = "failure")
          /\ status' = IF o = "failure" THEN "failed" ELSE status
          /\ raised' = IF o = "cancel" THEN "cancelled" ELSE raised
          /\ file' = IF raised' # "no" THEN file ELSE IF errors' THEN "unsafe" ELSE "safe"
     ELSE /\ raised' = IF o = "cancel" THEN "cancelled"
                      ELSE IF o = "failure" THEN "error" ELSE raised
          /\ UNCHANGED <<errors, status, file>>
  /\ cut' = (o = "cancel")
  /\ UNCHANGED <<index, op, todo>>

\* Nothing is owed, or there is no endpoint to ask.
ClockSkipped ==
  /\ part = "clock" /\ pc = "next"
  /\ \/ ~owed /\ Finish("ok")
     \/ owed /\ ~api /\ Finish("failure")
  /\ UNCHANGED <<panelVars, clockVars, factVars, touched, ghostVars>>

ClockBegins ==
  /\ part = "clock" /\ pc = "next" /\ owed /\ api
  /\ ForceSync
  /\ pc' = "clock"
  /\ UNCHANGED <<panelVars, factVars, restVars, touched, ghostVars>>

ClockGoesOn ==
  /\ Followed \/ Observed \/ SyncStep
  /\ UNCHANGED <<panelVars, factVars, loopVars, touched, ghostVars>>

ClockEnds(o) ==
  /\ IF o = "ok" THEN Synchronized ELSE ClockFails
  /\ UNCHANGED <<known, touched>>
  /\ IF part = "cases" THEN EndCase(o) ELSE Finish(o)
  /\ UNCHANGED <<panelVars, target, api, initial, ghostVars>>

-----------------------------------------------------------------------------
CaseStep ==
  \/ StartPlain \/ StartTime \/ CasesDone
  \/ \E d \in Device : StartDevice(d)
  \/ \E o \in Outcome : Initialized(o) \/ Looked(o)

DeviceStep ==
  \/ Put \/ Confirmed \/ Converged \/ ReadCurrent
  \/ \E o \in Outcome : Interrupted(o) \/ PutUnanswered(o)

CleanupStep ==
  \/ \E d \in Device : VisitDevice(d)
  \/ DevicesDone \/ ClockSkipped \/ ClockBegins \/ ClockGoesOn
  \/ \E o \in Outcome : ClockEnds(o)

PanelStep ==
  /\ \/ \E r \in queue : Activate(r)
     \/ \E r \in running : Perform(r) \/ Abort(r)
     \/ \E d \in Device : Settle(d)
  /\ UNCHANGED <<clockVars, factVars, loopVars, touched, ghostVars>>

ProgrammerStep ==
  /\ target.timed
  /\ ProgrammerStarts \/ ProgrammerEnds
  /\ UNCHANGED <<panelVars, factVars, loopVars, touched, ghostVars>>

TargetNext == CaseStep \/ DeviceStep \/ CleanupStep \/ PanelStep \/ ProgrammerStep

TargetSpec == TargetInit /\ [][TargetNext]_targetVars

-----------------------------------------------------------------------------
(* Properties. *)

TargetTypeOK ==
  /\ PanelTypeOK /\ ClockTypeOK
  /\ target \in Targets
  /\ part \in {"cases", "devices", "clock", "over"}
  /\ index \in 1 .. Len(target.cases) + 1
  /\ pc \in {"next", "init", "look", "clock", "put", "confirm", "converge", "read", "over"}
  /\ api \in BOOLEAN /\ known \in {FALSE, api}
  /\ initial \in [Device -> {Off, On}]
  /\ touched \in SUBSET Device /\ todo \in SUBSET Device
  /\ op \in Action
  /\ errors \in BOOLEAN
  /\ status \in {"passed", "failed"}
  /\ raised \in {"no", "cancelled", "error"}
  /\ file \in {"absent", "safe", "unsafe"} /\ cut \in BOOLEAN
  /\ unverified \in SUBSET Device /\ loose \in SUBSET Device
  /\ await = "none" <=> pc # "clock"

\* Whatever fails, is lost or is cancelled, a device that was sent a request and
\* has not been seen in its initial state since is in _touched, which decides
\* what the finally block restores.
UnverifiedTouched == unverified \subseteq touched

\* An RS report that says safe_to_continue is true of the panel: every device is
\* as it was, with nothing under way, unless AqualinkD still held a request that
\* the scenario had given up on -- and the clock shows real time.
SafeIsRestored ==
  target.protocol = "rs" /\ file = "safe" =>
    /\ ~owed
    /\ \A d \in Device :
         \/ d \in loose
         \/ led[d] = Steady(initial[d]) /\ \A r \in queue : r.device # d

\* However a scenario ends, it has put back every device and the clock -- or it
\* has recorded an error, raises one, or was cancelled once more while it
\* restored.
EndsRestored ==
  part = "over" =>
    errors \/ raised = "error" \/ cut \/ (unverified = {} /\ ~owed)

\* "Both check each RS state transition and restore the original state after
\* every operation": what a report of success says, without a proviso.
RestoredAfterEveryOperation ==
  target.protocol = "rs" /\ file = "safe" => \A d \in Device : led[d] = Steady(initial[d])
=============================================================================
