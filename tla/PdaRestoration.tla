--------------------------- MODULE PdaRestoration ---------------------------
(***************************************************************************)
(* The validator's equipment mutations and their restoration.              *)
(*                                                                         *)
(* One asyncio task drives the panel: it runs a test case, which calls     *)
(* EquipmentActions.set_device and set_setpoint, and it runs               *)
(* RestorationSession.restore, which calls the same two operations through *)
(* PdaRestorationService.  Every await of that task is a state of `pc`:    *)
(* there the panel moves, the await fails (HTTP error, timeout) or the     *)
(* task is cancelled.                                                      *)
(***************************************************************************)
EXTENDS EquipmentPanel

VARIABLES
  initial,          \* the initial snapshot: device states ...
  initialSetpoint,  \* ... and setpoints
  requested,        \* _requested_states, Unmarked where it has no entry
  touchedDevices,   \* _touched_devices
  touchedSetpoints, \* _touched_setpoints
  stage,            \* which loop of restore() runs
  todo,             \* what that loop still has to visit
  failed,           \* errors # []
  predisabled,      \* predisabled_heaters
  unsafe,           \* unsafe_setpoint_restores
  pc,               \* the await the task stands at
  op,               \* the operation under way
  heard,            \* log markers after the operation's cursor
  \* History variables: no action reads them.
  unverified,       \* mutations sent and not since observed undone
  loose,            \* mutations the validator stopped waiting for
  asked             \* asked[d]: the last restoration request for d

snapshotVars == <<initial, initialSetpoint>>
touchVars    == <<touchedDevices, touchedSetpoints>>
loopVars     == <<stage, todo, failed, predisabled, unsafe>>
callVars     == <<pc, op, heard>>
ghostVars    == <<unverified, loose, asked>>
vars == <<panelVars, snapshotVars, requested, touchVars, loopVars, callVars,
          ghostVars>>

-----------------------------------------------------------------------------
Unmarked == -1
NotAsked == [id |-> 0, value |-> Unmarked]

NoOp == [kind |-> "device", device |-> FilterPump, value |-> Off]

DeviceOp(d, v)   == [kind |-> "device", device |-> d, value |-> v]
SetpointOp(d, t) == [kind |-> "setpoint", device |-> d, value |-> t]

Mutation(a) == <<a.kind, a.device>>

\* Where the task awaits a reply, a marker or a state.
SentPc  == {"active", "completed", "converge"}
CallPc  == {"read", "settle", "put"} \cup SentPc
CheckPc == {"heatRead", "setpointRead", "check", "checkSettle", "await"}
AwaitPc == CallPc \cup CheckPc

\* The operation's target has a request in the queue, or is still moving.
StillMoving(a) ==
  \/ \E r \in queue : r.kind = a.kind /\ r.device = a.device
  \/ a.kind = "device" /\ Transitioning(a.device)

IsInitial(a) ==
  a.value = IF a.kind = "device" THEN initial[a.device]
                                 ELSE initialSetpoint[a.device]

\* The task observes the operation's value on its target.
Observe(a) ==
  /\ unverified' = IF IsInitial(a) THEN unverified \ {Mutation(a)} ELSE unverified
  /\ loose' = IF IsInitial(a) /\ ~StillMoving(a) THEN loose \ {Mutation(a)} ELSE loose
  /\ UNCHANGED asked

\* The task stops waiting for the operation.
GiveUp ==
  /\ loose' = IF StillMoving(op) /\ pc \in SentPc
              THEN loose \cup {Mutation(op)} ELSE loose
  /\ UNCHANGED <<unverified, asked>>

-----------------------------------------------------------------------------
Init ==
  /\ PanelInit
  /\ initial = [d \in Device |-> Enabled(d)]
  /\ initialSetpoint = setpoint
  /\ requested = [d \in Device |-> Unmarked]
  /\ touchedDevices = {}
  /\ touchedSetpoints = {}
  /\ stage = "none" /\ todo = {} /\ failed = FALSE
  /\ predisabled = {} /\ unsafe = {}
  /\ pc = "idle" /\ op = NoOp /\ heard = {}
  /\ unverified = {} /\ loose = {}
  /\ asked = [d \in Device |-> NotAsked]

\* Mutant: the abort of a restoration leaves its loop standing.
LeaveLoopStanding ==
  UNCHANGED loopVars

LeaveLoop ==
  /\ stage' = "none"
  /\ todo' = {}
  /\ failed' = FALSE
  /\ predisabled' = {}
  /\ unsafe' = {}

\* A call returns (ok) or raises an Exception.  A case ends there; restore()
\* records an Exception and goes on with its loop.
Return(ok) ==
  /\ op' = NoOp
  /\ heard' = {}
  /\ IF stage = "none"
     THEN pc' = "idle" /\ UNCHANGED loopVars
     ELSE /\ pc' = "loop"
          /\ todo' = todo \ {op.device}
          /\ failed' = (failed \/ ~ok)
          /\ predisabled' = IF stage = "heat" /\ ok
                            THEN predisabled \cup {op.device} ELSE predisabled
          /\ unsafe' = IF stage = "heat" /\ ~ok
                       THEN unsafe \cup {op.device} ELSE unsafe
          /\ UNCHANGED stage

Goto(p) == pc' = p /\ UNCHANGED <<op, heard>>

\* The cursor is taken here: what was logged before does not count.
GotoPut == pc' = "put" /\ heard' = {} /\ UNCHANGED op

\* Mutant: a skipped or failed call leaves no trace in the bookkeeping.
TouchNothing(d) == touchedDevices' = touchedDevices

Touch(d) == touchedDevices' = touchedDevices \cup {d}

TouchSetpoint(d) == touchedSetpoints' = touchedSetpoints \cup {d}

\* Mutant: the requested state is not recorded.
MarkNothing(d, v) == requested' = [requested EXCEPT ![d] = Unmarked]

Mark(d, v) == requested' = [requested EXCEPT ![d] = v]

-----------------------------------------------------------------------------
(* The test case. *)

\* set_device outside restoration touches the device and forgets the state
\* that a restoration requested for it.
CaseSetDevice(d, v) ==
  /\ pc = "idle"
  /\ Touch(d)
  /\ Mark(d, Unmarked)
  /\ asked' = [asked EXCEPT ![d] = NotAsked]
  /\ op' = DeviceOp(d, v)
  /\ pc' = "read"
  /\ UNCHANGED <<panelVars, snapshotVars, touchedSetpoints, loopVars, heard,
                 unverified, loose>>

CaseSetSetpoint(d, t) ==
  /\ pc = "idle"
  /\ TouchSetpoint(d)
  /\ op' = SetpointOp(d, t)
  /\ pc' = "put"
  /\ heard' = {}
  /\ UNCHANGED <<panelVars, snapshotVars, requested, touchedDevices, loopVars,
                 ghostVars>>

-----------------------------------------------------------------------------
(* EquipmentActions.set_device and set_setpoint. *)

\* The device is steady: skip it or send the request.
Compare ==
  IF Enabled(op.device) = op.value
  THEN Observe(op) /\ Return(TRUE)
  ELSE GotoPut /\ UNCHANGED <<loopVars, ghostVars>>

Read ==
  /\ pc = "read"
  /\ IF Transitioning(op.device)
     THEN Goto("settle") /\ UNCHANGED <<loopVars, ghostVars>>
     ELSE Compare
  /\ UNCHANGED <<panelVars, snapshotVars, requested, touchVars>>

Settled ==
  /\ pc = "settle"
  /\ ~Transitioning(op.device)
  /\ Compare
  /\ UNCHANGED <<panelVars, snapshotVars, requested, touchVars>>

NoteRequest ==
  /\ unverified' = unverified \cup {Mutation(op)}
  /\ asked' = IF stage # "none" /\ op.kind = "device"
              THEN [asked EXCEPT ![op.device] = [id |-> sent + 1, value |-> op.value]]
              ELSE asked

Put ==
  /\ pc = "put"
  /\ Accept(op)
  /\ NoteRequest
  /\ Goto("active")
  /\ UNCHANGED <<snapshotVars, requested, touchVars, loopVars, loose>>

\* AqualinkD took the request and its answer was lost.
PutUnanswered ==
  /\ pc = "put"
  /\ Accept(op)
  /\ NoteRequest
  /\ loose' = loose \cup {Mutation(op)}
  /\ Return(FALSE)
  /\ UNCHANGED <<snapshotVars, requested, touchVars>>

SeeActive ==
  /\ pc = "active"
  /\ "active" \in heard
  /\ Goto("completed")
  /\ UNCHANGED <<panelVars, snapshotVars, requested, touchVars, loopVars, ghostVars>>

SeeCompleted ==
  /\ pc = "completed"
  /\ "completed" \in heard
  /\ Goto("converge")
  /\ UNCHANGED <<panelVars, snapshotVars, requested, touchVars, loopVars, ghostVars>>

Reached(a) ==
  IF a.kind = "device"
  THEN ~Transitioning(a.device) /\ Enabled(a.device) = a.value
  ELSE setpoint[a.device] = a.value

\* The state arrives and no "didn't find" line came with the task.
Converge ==
  /\ pc = "converge"
  /\ "error" \notin heard
  /\ Reached(op)
  /\ Observe(op)
  /\ Return(TRUE)
  /\ UNCHANGED <<panelVars, snapshotVars, requested, touchVars>>

-----------------------------------------------------------------------------
(* RestorationSession.restore. *)

BeginRestore ==
  /\ pc = "idle"
  /\ stage' = "heat"
  /\ todo' = touchedSetpoints \cap Heater
  /\ pc' = "loop"
  /\ UNCHANGED <<panelVars, snapshotVars, requested, touchVars, failed,
                 predisabled, unsafe, op, heard, ghostVars>>

\* First loop: a heater whose setpoint is touched is disabled if it is on.
VisitHeat(d) ==
  /\ pc = "loop" /\ stage = "heat" /\ d \in todo
  /\ op' = DeviceOp(d, Off)
  /\ pc' = "heatRead"
  /\ UNCHANGED <<panelVars, snapshotVars, requested, touchVars, loopVars, heard,
                 ghostVars>>

HeatRead ==
  /\ pc = "heatRead"
  /\ IF Enabled(op.device) = On
     THEN Goto("check") /\ UNCHANGED loopVars
     ELSE /\ pc' = "loop"
          /\ op' = NoOp
          /\ todo' = todo \ {op.device}
          /\ UNCHANGED <<stage, failed, predisabled, unsafe, heard>>
  /\ UNCHANGED <<panelVars, snapshotVars, requested, touchVars, ghostVars>>

\* Second loop: the touched setpoints, without the heaters still on.
\* Mutant: the heaters that could not be disabled are not left out.
SetpointWorkAll == touchedSetpoints

SetpointWork == touchedSetpoints \ unsafe

VisitSetpoint(d) ==
  /\ pc = "loop" /\ stage = "setpoints" /\ d \in todo
  /\ op' = SetpointOp(d, initialSetpoint[d])
  /\ pc' = "setpointRead"
  /\ UNCHANGED <<panelVars, snapshotVars, requested, touchVars, loopVars, heard,
                 ghostVars>>

SetpointRead ==
  /\ pc = "setpointRead"
  /\ IF Reached(op)
     THEN Observe(op) /\ Return(TRUE) /\ UNCHANGED touchedSetpoints
     ELSE GotoPut /\ TouchSetpoint(op.device) /\ UNCHANGED <<loopVars, ghostVars>>
  /\ UNCHANGED <<panelVars, snapshotVars, requested, touchedDevices>>

\* Third loop: the touched devices, those that go off first and heat before
\* water mode before circulation, then those that go on in reverse.
\* Mutant: circulation is handled before heat in both directions.
RestorationOrderFlat(d) ==
  CASE d = FilterPump -> 0 [] d \in SpaMode -> 1 [] d \in Heater -> 3 [] OTHER -> 2

RestorationOrder(d) ==
  IF initial[d] = Off
  THEN CASE d \in Heater -> 0 [] d \in SpaMode -> 2 [] d = FilterPump -> 3 [] OTHER -> 1
  ELSE CASE d = FilterPump -> 4 [] d \in SpaMode -> 5 [] d \in Heater -> 7 [] OTHER -> 6

\* Mutant: a heater disabled for safety is taken for restored.
AlreadyOffAlways(d) == d \in predisabled

AlreadyOff(d) == d \in predisabled /\ initial[d] = Off

VisitDevice(d) ==
  /\ pc = "loop" /\ stage = "devices" /\ d \in todo
  /\ \A e \in todo : RestorationOrder(d) <= RestorationOrder(e)
  /\ IF AlreadyOff(d)
     THEN todo' = todo \ {d} /\ UNCHANGED <<pc, op>>
     ELSE op' = DeviceOp(d, initial[d]) /\ pc' = "check" /\ UNCHANGED todo
  /\ UNCHANGED <<panelVars, snapshotVars, requested, touchVars, stage, failed,
                 predisabled, unsafe, heard, ghostVars>>

\* A loop is done; after the third, an error-free pass clears the bookkeeping.
NextStage ==
  /\ pc = "loop" /\ todo = {}
  /\ \/ /\ stage = "heat"
        /\ stage' = "setpoints" /\ todo' = SetpointWork
        /\ UNCHANGED <<failed, predisabled, unsafe, pc, touchVars>>
     \/ /\ stage = "setpoints"
        /\ stage' = "devices" /\ todo' = touchedDevices
        /\ UNCHANGED <<failed, predisabled, unsafe, pc, touchVars>>
     \/ /\ stage = "devices"
        /\ LeaveLoop
        /\ pc' = "idle"
        /\ IF failed THEN UNCHANGED touchVars
                     ELSE touchedDevices' = {} /\ touchedSetpoints' = {}
  /\ UNCHANGED <<panelVars, snapshotVars, requested, op, heard, ghostVars>>

-----------------------------------------------------------------------------
(* PdaRestorationService._restore_device. *)

\* The device is steady: nothing to do, or a request is on its way, or send one.
\* The state is marked as requested before set_device is called.
Decide ==
  IF Enabled(op.device) = op.value
  THEN Observe(op) /\ Return(TRUE) /\ UNCHANGED <<requested, touchedDevices>>
  ELSE /\ IF requested[op.device] = op.value
          THEN Goto("await") /\ UNCHANGED <<requested, touchedDevices>>
          ELSE Goto("read") /\ Mark(op.device, op.value) /\ Touch(op.device)
       /\ UNCHANGED <<loopVars, ghostVars>>

Check ==
  /\ pc = "check"
  /\ IF Transitioning(op.device)
     THEN Goto("checkSettle")
          /\ UNCHANGED <<requested, touchedDevices, loopVars, ghostVars>>
     ELSE Decide
  /\ UNCHANGED <<panelVars, snapshotVars, touchedSetpoints>>

CheckSettled ==
  /\ pc = "checkSettle"
  /\ ~Transitioning(op.device)
  /\ Decide
  /\ UNCHANGED <<panelVars, snapshotVars, touchedSetpoints>>

Awaited ==
  /\ pc = "await"
  /\ Reached(op)
  /\ Observe(op)
  /\ Return(TRUE)
  /\ UNCHANGED <<panelVars, snapshotVars, requested, touchVars>>

-----------------------------------------------------------------------------
(* What can end any await: an Exception, or the cancellation of the task. *)

Fault ==
  /\ pc \in AwaitPc
  /\ GiveUp
  /\ Return(FALSE)
  /\ UNCHANGED <<panelVars, snapshotVars, requested, touchVars>>

Cancel ==
  /\ pc \in AwaitPc
  /\ GiveUp
  /\ LeaveLoop
  /\ pc' = "idle" /\ op' = NoOp /\ heard' = {}
  /\ UNCHANGED <<panelVars, snapshotVars, requested, touchVars>>

-----------------------------------------------------------------------------
(* The panel.  Its log lines carry the task's name and not the device's:   *)
(* every device request logs the same markers.                             *)

SameTask(r) ==
  /\ pc \in SentPc \cup {"put"}
  /\ r.kind = op.kind
  /\ r.kind = "setpoint" => r.device = op.device

\* Markers count from the first "is active" line after the cursor.
Hear(r, lines) ==
  heard' = IF SameTask(r) /\ (lines = {"active"} \/ "active" \in heard)
           THEN heard \cup lines ELSE heard

PanelActivate ==
  /\ \E r \in queue : Activate(r) /\ Hear(r, {"active"})
  /\ UNCHANGED <<snapshotVars, requested, touchVars, loopVars, pc, op, ghostVars>>

PanelPerform ==
  /\ \E r \in running : Perform(r) /\ Hear(r, {"completed"})
  /\ UNCHANGED <<snapshotVars, requested, touchVars, loopVars, pc, op, ghostVars>>

PanelAbort ==
  /\ \E r \in running, lines \in {{"completed"}, {"completed", "error"}} :
       Abort(r) /\ Hear(r, lines)
  /\ UNCHANGED <<snapshotVars, requested, touchVars, loopVars, pc, op, ghostVars>>

PanelSettle ==
  /\ \E d \in Device : Settle(d)
  /\ UNCHANGED <<snapshotVars, requested, touchVars, loopVars, callVars, ghostVars>>

-----------------------------------------------------------------------------
CaseStep ==
  \/ \E d \in Device, v \in {Off, On} : CaseSetDevice(d, v)
  \/ \E d \in Thermostat, t \in Temp : CaseSetSetpoint(d, t)

CallStep ==
  \/ Read \/ Settled \/ Put \/ PutUnanswered
  \/ SeeActive \/ SeeCompleted \/ Converge

RestoreStep ==
  \/ BeginRestore
  \/ \E d \in Device : VisitHeat(d) \/ VisitSetpoint(d) \/ VisitDevice(d)
  \/ HeatRead \/ SetpointRead \/ NextStage
  \/ Check \/ CheckSettled \/ Awaited

PanelStep == PanelActivate \/ PanelPerform \/ PanelAbort \/ PanelSettle

Next == CaseStep \/ CallStep \/ RestoreStep \/ Fault \/ Cancel \/ PanelStep

Spec == Init /\ [][Next]_vars

-----------------------------------------------------------------------------
(* Properties. *)

\* Every variable has its type; a restoration is under way exactly in the
\* states of its own loops, and outside restoration no restoration await is
\* reached.
TypeOK ==
  /\ PanelTypeOK
  /\ initial \in [Device -> {Off, On}]
  /\ initialSetpoint \in [Thermostat -> Temp]
  /\ requested \in [Device -> {Off, On, Unmarked}]
  /\ touchedDevices \in SUBSET Device
  /\ touchedSetpoints \in SUBSET Thermostat
  /\ stage \in {"none", "heat", "setpoints", "devices"}
  /\ todo \in SUBSET Device
  /\ failed \in BOOLEAN
  /\ predisabled \in SUBSET Device
  /\ unsafe \in SUBSET Device
  /\ pc \in {"idle", "loop"} \cup AwaitPc
  /\ op \in Action
  /\ heard \in SUBSET {"active", "completed", "error"}
  /\ unverified \in SUBSET (Kind \X Device)
  /\ loose \in SUBSET (Kind \X Device)
  /\ asked \in [Device -> [id : 0 .. MaxRequests, value : {Off, On, Unmarked}]]
  /\ pc = "idle" => stage = "none"
  /\ pc \in CheckPc \cup {"loop"} => stage # "none"

\* The safety net of every runner is has_pending_mutations: it decides whether
\* a final restoration runs.  Whatever fails, times out or is cancelled, each
\* device and setpoint that was sent a request and has not been observed back
\* at its initial value is still in the touched sets.
MutationsStayPending ==
  \A m \in unverified :
    m[2] \in IF m[1] = "device" THEN touchedDevices ELSE touchedSetpoints

\* What an error-free restoration is worth: a device or setpoint outside the
\* touched sets is in its initial state on the panel, with nothing under way
\* that could move it -- unless AqualinkD still held, when restoration observed
\* it, a request that the validator had given up on.
RestoredIsInitial ==
  /\ \A d \in Device :
       d \in touchedDevices \/ <<"device", d>> \in loose
         \/ /\ led[d] = Steady(initial[d])
            /\ \A r \in queue : r.kind = "device" => r.device # d
  /\ \A d \in Thermostat :
       d \in touchedSetpoints \/ <<"setpoint", d>> \in loose
         \/ /\ setpoint[d] = initialSetpoint[d]
            /\ \A r \in queue : r.kind = "setpoint" => r.device # d

\* The promise of "not sending another toggle": restoration never sends a
\* device the request that its own last request for the device still holds in
\* AqualinkD's queue, however many attempts and cancellations came between -- for
\* every device that all its loops want in one state.  A heater that was on is
\* asked off by the first loop and on by the third, and has one mark for both.
NoDuplicateToggle ==
  pc = "put" /\ stage # "none" /\ op.kind = "device"
    /\ (op.device \notin Heater \/ initial[op.device] = Off) =>
    \A r \in queue : r.id = asked[op.device].id => r.value # op.value

\* "A heater setpoint must never be raised while the heater remains
\* test-enabled": when restoration is about to raise one, the heater is off --
\* unless a request for the heater that the validator gave up on turned it on
\* behind its back.
RaisedOnlyWhenOff ==
  pc = "put" /\ stage = "setpoints" /\ op.device \in Heater
    /\ op.value > setpoint[op.device] =>
      led[op.device] = "off" \/ <<"device", op.device>> \in loose

\* Dependency order: restoration stops circulation only when every touched
\* heater that has to be off is off, and asks for heat only when circulation
\* and water mode that have to be on are on -- or it has recorded an error, or
\* an abandoned request interfered.
DependencyOrder ==
  pc = "put" /\ stage = "devices" /\ op.kind = "device" =>
    \A d \in touchedDevices :
      failed \/ <<"device", d>> \in loose \/ led[d] = Steady(initial[d])
        \/ ~ \/ op.device = FilterPump /\ op.value = Off
                /\ d \in Heater \cup SpaMode /\ initial[d] = Off
             \/ op.device \in Heater /\ op.value = On
                /\ d \in SpaMode \cup {FilterPump} /\ initial[d] = On

\* The comment above the first loop of restore(), taken at its word.
NeverRaisedWhileEnabled ==
  pc = "put" /\ stage = "setpoints" /\ op.device \in Heater
    /\ op.value > setpoint[op.device] => led[op.device] = "off"

\* The progress line of the suppressed toggle: "a restoration request was
\* already sent".
SuppressedOnlyIfSent ==
  pc = "await" => asked[op.device].value = op.value
=============================================================================
