----------------------- MODULE PdaRestoration_proofs -----------------------
(***************************************************************************)
(* Proofs about PdaRestoration, for every set of devices and every number  *)
(* of requests.                                                            *)
(***************************************************************************)
EXTENDS PdaRestoration, TLAPS

\* The bookkeeping invariant of restore(), the strengthening from which
\* MutationsStayPending follows.

\* An operation under way is on touched equipment.
CallsTouch ==
  pc \in CallPc =>
    op.device \in IF op.kind = "device" THEN touchedDevices ELSE touchedSetpoints

\* Each loop of restore() waits only in the awaits of its own body, on an item
\* it has not finished, for the value it owes that item.
LoopShape ==
  /\ stage = "none" =>
       /\ pc \in {"idle"} \cup CallPc
       /\ todo = {} /\ predisabled = {} /\ unsafe = {} /\ failed = FALSE
  /\ stage # "none" /\ pc \in AwaitPc => op.device \in todo
  /\ stage = "heat" /\ pc \in AwaitPc => op = DeviceOp(op.device, Off)
  /\ stage = "setpoints" /\ pc \in AwaitPc =>
       /\ pc \in {"setpointRead", "put"} \cup SentPc
       /\ op.device \in Thermostat
       /\ op = SetpointOp(op.device, initialSetpoint[op.device])
  /\ stage = "devices" /\ pc \in AwaitPc =>
       op = DeviceOp(op.device, initial[op.device]) /\ ~AlreadyOff(op.device)
  /\ pc = "setpointRead" => stage = "setpoints"
  /\ pc \in {"heatRead"} => stage = "heat"
  /\ stage = "heat" => predisabled \cap todo = {}
  /\ stage \in {"heat", "setpoints"} => todo \subseteq Thermostat

\* What each loop has done so far.
LoopProgress ==
  /\ \A d \in predisabled : initial[d] = Off => <<"device", d>> \notin unverified
  /\ unsafe # {} => failed
  /\ stage = "setpoints" =>
       \A d \in Device : <<"setpoint", d>> \in unverified => d \in todo \/ failed
  /\ stage = "devices" =>
       \A d \in Device :
         /\ <<"setpoint", d>> \in unverified => failed
         /\ <<"device", d>> \in unverified => d \in todo \/ failed

IInv ==
  TypeOK /\ MutationsStayPending /\ CallsTouch /\ LoopShape /\ LoopProgress

-----------------------------------------------------------------------------
\* The initial states satisfy the invariant.
LEMMA InitIInv == Init => IInv
<1> SUFFICES ASSUME Init PROVE IInv
  OBVIOUS
<1> USE EquipmentAssumption DEF Init, PanelInit
<1>1. TypeOK
  <2>1. PanelTypeOK
    BY DEF PanelTypeOK
  <2>2. initial \in [Device -> {Off, On}]
    BY DEF Enabled
  <2>3. requested \in [Device -> {Off, On, Unmarked}]
    OBVIOUS
  <2>4. asked \in [Device -> [id : 0 .. MaxRequests, value : {Off, On, Unmarked}]]
    <3>1. 0 \in 0 .. MaxRequests
      OBVIOUS
    <3> QED
      BY <3>1 DEF NotAsked
  <2>5. op \in Action
    BY DEF NoOp, Action
  <2> QED
    BY <2>1, <2>2, <2>3, <2>4, <2>5 DEF TypeOK, PanelTypeOK, AwaitPc, CheckPc
<1>2. MutationsStayPending /\ CallsTouch
  BY DEF MutationsStayPending, CallsTouch, CallPc, SentPc
<1>3. LoopShape /\ LoopProgress
  BY DEF LoopShape, LoopProgress, AwaitPc, CallPc, CheckPc, SentPc
<1> QED
  BY <1>1, <1>2, <1>3 DEF IInv

-----------------------------------------------------------------------------
\* An accepted request is numbered within the bound, so the queue stays typed.
LEMMA AcceptTyped ==
  ASSUME PanelTypeOK, NEW a \in Action, Accept(a)
  PROVE  PanelTypeOK'
<1>1. sent + 1 \in 1 .. MaxRequests
  BY EquipmentAssumption DEF PanelTypeOK, Accept
<1>2. Request(a, sent + 1) \in Requests
  BY <1>1 DEF Requests
<1> QED
  BY <1>1, <1>2, EquipmentAssumption DEF PanelTypeOK, Accept

\* A request names a device, and a thermostat when it sets a setpoint.
LEMMA RequestTyped ==
  ASSUME NEW r \in Requests
  PROVE  /\ r.kind \in Kind
         /\ r.kind = "device" => r.device \in Device /\ r.value \in {Off, On}
         /\ r.kind = "setpoint" => r.device \in Thermostat /\ r.value \in Temp
  BY DEF Requests, Request, Action, Kind

\* The panel keeps its own types.
LEMMA PanelStepTyped ==
  ASSUME PanelTypeOK, PanelStep
  PROVE  PanelTypeOK'
<1>1. CASE PanelActivate
  BY <1>1 DEF PanelActivate, Activate, PanelTypeOK
<1>2. CASE PanelPerform
  <2>1. PICK r \in running : Perform(r)
    BY <1>2 DEF PanelPerform
  <2>2. r \in Requests
    BY <2>1 DEF PanelTypeOK
  <2>3. queue' \in SUBSET Requests /\ running' = {} /\ sent' = sent
    BY <2>1 DEF Perform, Retire, PanelTypeOK
  <2>4. led' \in [Device -> {"off", "on", "turningOn", "turningOff"}]
        /\ setpoint' \in [Thermostat -> Temp]
    BY <2>1, <2>2, RequestTyped DEF Perform, PanelTypeOK, Steady
  <2> QED
    BY <2>3, <2>4 DEF PanelTypeOK
<1>3. CASE PanelAbort
  BY <1>3 DEF PanelAbort, Abort, Retire, PanelTypeOK
<1>4. CASE PanelSettle
  BY <1>4 DEF PanelSettle, Settle, PanelTypeOK
<1> QED
  BY <1>1, <1>2, <1>3, <1>4 DEF PanelStep

-----------------------------------------------------------------------------
\* Ending a call keeps the types of the loop and of the call.
LEMMA ReturnTyped ==
  ASSUME TypeOK, NEW ok \in BOOLEAN, Return(ok)
  PROVE  /\ stage' = stage
         /\ todo' \in SUBSET todo
         /\ failed' \in BOOLEAN
         /\ predisabled' \in SUBSET Device
         /\ unsafe' \in SUBSET Device
         /\ op' = NoOp /\ op' \in Action
         /\ heard' = {}
         /\ pc' = IF stage = "none" THEN "idle" ELSE "loop"
<1>1. op \in Action /\ op.device \in Device
  BY EquipmentAssumption DEF TypeOK, Action
<1>2. NoOp \in Action
  BY EquipmentAssumption DEF NoOp, Action
<1> QED
  BY <1>1, <1>2 DEF TypeOK, Return, loopVars

\* Observing an outcome or giving up keeps the types of the history variables.
LEMMA GhostTyped ==
  ASSUME TypeOK, (\E a \in Action : Observe(a)) \/ GiveUp
  PROVE  /\ unverified' \in SUBSET (Kind \X Device)
         /\ loose' \in SUBSET (Kind \X Device)
         /\ asked' = asked
<1>1. \A a \in Action : Mutation(a) \in Kind \X Device
  BY EquipmentAssumption DEF Action, Mutation, Kind
<1> QED
  BY <1>1 DEF TypeOK, Observe, GiveUp

\* Sending a request keeps the types of the panel and of the history variables.
LEMMA NoteRequestTyped ==
  ASSUME TypeOK, Accept(op), NoteRequest
  PROVE  /\ PanelTypeOK'
         /\ unverified' \in SUBSET (Kind \X Device)
         /\ asked' \in [Device -> [id : 0 .. MaxRequests, value : {Off, On, Unmarked}]]
         /\ Mutation(op) \in Kind \X Device
<1>1. op \in Action /\ Mutation(op) \in Kind \X Device
  BY EquipmentAssumption DEF TypeOK, Action, Mutation, Kind
<1>2. PanelTypeOK'
  BY <1>1, AcceptTyped DEF TypeOK
<1>3. sent + 1 \in 0 .. MaxRequests
  BY EquipmentAssumption DEF TypeOK, PanelTypeOK, Accept
<1>4. op.kind = "device" => op.device \in Device /\ op.value \in {Off, On}
  BY <1>1 DEF Action
<1> QED
  BY <1>1, <1>2, <1>3, <1>4 DEF TypeOK, NoteRequest

\* A call that ends keeps the type invariant.
LEMMA ReturnKeepsType ==
  ASSUME TypeOK, NEW ok \in BOOLEAN, Return(ok), PanelTypeOK',
         UNCHANGED snapshotVars,
         requested' \in [Device -> {Off, On, Unmarked}],
         touchedDevices' \in SUBSET Device, touchedSetpoints' \in SUBSET Thermostat,
         unverified' \in SUBSET (Kind \X Device), loose' \in SUBSET (Kind \X Device),
         asked' \in [Device -> [id : 0 .. MaxRequests, value : {Off, On, Unmarked}]]
  PROVE  TypeOK'
<1>1. /\ stage' = stage /\ todo' \in SUBSET todo /\ failed' \in BOOLEAN
      /\ predisabled' \in SUBSET Device /\ unsafe' \in SUBSET Device
      /\ op' \in Action /\ heard' = {}
      /\ pc' = IF stage = "none" THEN "idle" ELSE "loop"
  BY ReturnTyped
<1> QED
  BY <1>1 DEF TypeOK, snapshotVars, AwaitPc, CallPc, CheckPc, SentPc

\* So does a step of the task that only moves to another await.
LEMMA GotoKeepsType ==
  ASSUME TypeOK, PanelTypeOK', UNCHANGED <<snapshotVars, loopVars, op>>,
         pc' \in AwaitPc, pc' \in CheckPc => stage # "none",
         heard' \in SUBSET heard,
         requested' \in [Device -> {Off, On, Unmarked}],
         touchedDevices' \in SUBSET Device, touchedSetpoints' \in SUBSET Thermostat,
         unverified' \in SUBSET (Kind \X Device), loose' \in SUBSET (Kind \X Device),
         asked' \in [Device -> [id : 0 .. MaxRequests, value : {Off, On, Unmarked}]]
  PROVE  TypeOK'
  BY DEF TypeOK, snapshotVars, loopVars, AwaitPc, CallPc, CheckPc, SentPc

\* Every step keeps the type invariant.
LEMMA TypeStep ==
  ASSUME TypeOK, LoopShape, [Next]_vars
  PROVE  TypeOK'
<1> USE EquipmentAssumption
<1>0. PanelTypeOK /\ op \in Action /\ op.device \in Device
  BY DEF TypeOK, Action
<1>1. CASE CaseStep
  <2>1. ASSUME NEW d \in Device, NEW v \in {Off, On}, CaseSetDevice(d, v)
        PROVE  TypeOK'
    <3>1. op' \in Action
      BY <2>1 DEF CaseSetDevice, DeviceOp, Action
    <3> QED
      BY <2>1, <3>1 DEF CaseSetDevice, TypeOK, PanelTypeOK, panelVars, snapshotVars,
           loopVars, Touch, Mark, NotAsked, AwaitPc, CallPc, CheckPc, SentPc, Unmarked
  <2>2. ASSUME NEW d \in Thermostat, NEW t \in Temp, CaseSetSetpoint(d, t)
        PROVE  TypeOK'
    <3>1. op' \in Action
      BY <2>2 DEF CaseSetSetpoint, SetpointOp, Action
    <3> QED
      BY <2>2, <3>1 DEF CaseSetSetpoint, TypeOK, PanelTypeOK, panelVars, snapshotVars,
           loopVars, ghostVars, TouchSetpoint, AwaitPc, CallPc, CheckPc, SentPc
  <2> QED
    BY <1>1, <2>1, <2>2 DEF CaseStep
<1>2. CASE Read \/ Settled
  <2>1. PanelTypeOK' /\ UNCHANGED <<snapshotVars, requested, touchVars>>
    BY <1>2, <1>0 DEF Read, Settled, panelVars, PanelTypeOK
  <2>2. CASE Goto("settle") /\ UNCHANGED <<loopVars, ghostVars>>
    BY <2>1, <2>2, GotoKeepsType DEF Goto, TypeOK, ghostVars, touchVars, AwaitPc,
       CallPc, CheckPc, SentPc
  <2>3. CASE Compare
    <3>1. CASE Observe(op) /\ Return(TRUE)
      BY <3>1, <2>1, <1>0, GhostTyped, ReturnKeepsType DEF TypeOK, touchVars
    <3>2. CASE GotoPut /\ UNCHANGED <<loopVars, ghostVars>>
      BY <2>1, <3>2, GotoKeepsType DEF GotoPut, TypeOK, ghostVars, touchVars, AwaitPc,
         CallPc, CheckPc, SentPc
    <3> QED
      BY <2>3, <3>1, <3>2 DEF Compare
  <2> QED
    BY <1>2, <2>2, <2>3 DEF Read, Settled
<1>3. CASE Put
  BY <1>3, NoteRequestTyped, GotoKeepsType DEF Put, Goto, TypeOK, loopVars, touchVars,
     AwaitPc, CallPc, CheckPc, SentPc
<1>4. CASE PutUnanswered
  BY <1>4, NoteRequestTyped, ReturnKeepsType DEF PutUnanswered, TypeOK, touchVars
<1>5. CASE SeeActive \/ SeeCompleted
  <2>1. PanelTypeOK'
    BY <1>5, <1>0 DEF SeeActive, SeeCompleted, panelVars, PanelTypeOK
  <2> QED
    BY <1>5, <2>1, GotoKeepsType DEF SeeActive, SeeCompleted, Goto, TypeOK, touchVars,
       ghostVars, AwaitPc, CallPc, CheckPc, SentPc
<1>6. CASE Converge \/ Awaited
  <2>1. PanelTypeOK'
    BY <1>6, <1>0 DEF Converge, Awaited, panelVars, PanelTypeOK
  <2> QED
    BY <1>6, <2>1, <1>0, GhostTyped, ReturnKeepsType DEF Converge, Awaited, TypeOK,
       touchVars
<1>7. CASE BeginRestore
  BY <1>7 DEF BeginRestore, TypeOK, PanelTypeOK, panelVars, snapshotVars, touchVars,
     ghostVars, AwaitPc, CallPc, CheckPc, SentPc
<1>8. ASSUME NEW d \in Device, VisitHeat(d) \/ VisitSetpoint(d) \/ VisitDevice(d)
      PROVE  TypeOK'
  <2>1. op' \in Action
    <3>1. CASE VisitHeat(d)
      BY <3>1 DEF VisitHeat, DeviceOp, Action
    <3>2. CASE VisitSetpoint(d)
      <4>1. d \in Thermostat
        BY <3>2 DEF VisitSetpoint, LoopShape
      <4> QED
        BY <3>2, <4>1 DEF VisitSetpoint, SetpointOp, Action, TypeOK
    <3>3. CASE VisitDevice(d)
      BY <3>3, <1>0 DEF VisitDevice, DeviceOp, Action, TypeOK
    <3> QED
      BY <1>8, <3>1, <3>2, <3>3
  <2>2. /\ todo' \in SUBSET Device /\ pc' \in {"loop"} \cup CheckPc /\ stage' = stage
        /\ UNCHANGED <<panelVars, snapshotVars, requested, touchVars, failed,
                       predisabled, unsafe, heard, ghostVars>>
        /\ stage # "none"
    BY <1>8 DEF VisitHeat, VisitSetpoint, VisitDevice, TypeOK, CheckPc, loopVars
  <2> QED
    BY <2>1, <2>2 DEF TypeOK, PanelTypeOK, panelVars, snapshotVars, touchVars,
       ghostVars, AwaitPc, CallPc, CheckPc, SentPc
<1>9. CASE HeatRead
  <2>1. stage # "none"
    BY <1>9 DEF HeatRead, TypeOK, CheckPc
  <2>2. NoOp \in Action
    BY DEF NoOp, Action
  <2> QED
    BY <1>9, <2>1, <2>2 DEF HeatRead, Goto, TypeOK, PanelTypeOK, panelVars, snapshotVars,
       touchVars, loopVars, ghostVars, AwaitPc, CallPc, CheckPc, SentPc
<1>10. CASE SetpointRead
  <2>1. PanelTypeOK' /\ stage = "setpoints" /\ op.device \in Thermostat
    BY <1>10, <1>0 DEF SetpointRead, panelVars, PanelTypeOK, LoopShape, AwaitPc, CheckPc
  <2>2. CASE Reached(op)
    BY <1>10, <2>1, <2>2, <1>0, GhostTyped, ReturnKeepsType DEF SetpointRead, TypeOK
  <2>3. CASE ~Reached(op)
    BY <1>10, <2>1, <2>3, GotoKeepsType DEF SetpointRead, GotoPut, TouchSetpoint, TypeOK,
       ghostVars, AwaitPc, CallPc, CheckPc, SentPc
  <2> QED
    BY <2>2, <2>3
<1>11. CASE NextStage
  BY <1>11 DEF NextStage, LeaveLoop, SetpointWork, TypeOK, PanelTypeOK, panelVars,
     snapshotVars, touchVars, ghostVars, AwaitPc, CallPc, CheckPc, SentPc
<1>12. CASE Check \/ CheckSettled
  <2>1. PanelTypeOK' /\ UNCHANGED <<snapshotVars, touchedSetpoints>> /\ stage # "none"
    BY <1>12, <1>0 DEF Check, CheckSettled, panelVars, PanelTypeOK, TypeOK, CheckPc
  <2>2. CASE Goto("checkSettle") /\ UNCHANGED <<requested, touchedDevices, loopVars, ghostVars>>
    BY <2>1, <2>2, GotoKeepsType DEF Goto, TypeOK, ghostVars, AwaitPc, CallPc, CheckPc
  <2>3. CASE Decide
    <3>1. CASE Observe(op) /\ Return(TRUE) /\ UNCHANGED <<requested, touchedDevices>>
      BY <3>1, <2>1, <1>0, GhostTyped, ReturnKeepsType DEF TypeOK
    <3>2. CASE Goto("await") /\ UNCHANGED <<requested, touchedDevices>>
               /\ UNCHANGED <<loopVars, ghostVars>>
      BY <2>1, <3>2, GotoKeepsType DEF Goto, TypeOK, ghostVars, AwaitPc, CallPc, CheckPc
    <3>3. CASE Goto("read") /\ Mark(op.device, op.value) /\ Touch(op.device)
               /\ UNCHANGED <<loopVars, ghostVars>>
      <4>1. op.value \in {Off, On}
        <5>1. op.kind = "device"
          BY <2>1, <1>12 DEF LoopShape, DeviceOp, AwaitPc, CheckPc, CallPc, SentPc,
             Check, CheckSettled, TypeOK
        <5> QED
          BY <5>1, <1>0 DEF Action
      <4>2. requested' \in [Device -> {Off, On, Unmarked}] /\ touchedDevices' \in SUBSET Device
        BY <3>3, <4>1, <1>0 DEF Mark, Touch, TypeOK
      <4> QED
        BY <2>1, <3>3, <4>2, GotoKeepsType DEF Goto, TypeOK, ghostVars, AwaitPc, CallPc, CheckPc
    <3> QED
      BY <2>3, <3>1, <3>2, <3>3 DEF Decide
  <2> QED
    BY <1>12, <2>2, <2>3 DEF Check, CheckSettled
<1>13. CASE Fault
  <2>1. PanelTypeOK'
    BY <1>13, <1>0 DEF Fault, panelVars, PanelTypeOK
  <2> QED
    BY <1>13, <2>1, GhostTyped, ReturnKeepsType DEF Fault, TypeOK, touchVars
<1>14. CASE Cancel
  <2>1. unverified' \in SUBSET (Kind \X Device) /\ loose' \in SUBSET (Kind \X Device)
        /\ asked' = asked
    BY <1>14, GhostTyped DEF Cancel
  <2>2. NoOp \in Action
    BY DEF NoOp, Action
  <2> QED
    BY <1>14, <2>1, <2>2 DEF Cancel, LeaveLoop, TypeOK, PanelTypeOK, panelVars,
       snapshotVars, touchVars, AwaitPc, CallPc, CheckPc, SentPc
<1>15. CASE PanelStep
  <2>1. PanelTypeOK'
    BY <1>15, <1>0, PanelStepTyped
  <2>2. UNCHANGED <<snapshotVars, requested, touchVars, loopVars, pc, op, ghostVars>>
        /\ heard' \in SUBSET {"active", "completed", "error"}
    BY <1>15 DEF PanelStep, PanelActivate, PanelPerform, PanelAbort, PanelSettle, Hear,
       TypeOK, callVars
  <2> QED
    BY <2>1, <2>2 DEF TypeOK, snapshotVars, touchVars, loopVars, ghostVars
<1>16. CASE UNCHANGED vars
  BY <1>16 DEF TypeOK, PanelTypeOK, vars, panelVars, snapshotVars, touchVars, loopVars,
     callVars, ghostVars
<1> QED
  BY <1>1, <1>2, <1>3, <1>4, <1>5, <1>6, <1>7, <1>8, <1>9, <1>10, <1>11, <1>12, <1>13,
     <1>14, <1>15, <1>16 DEF Next, CallStep, RestoreStep
-----------------------------------------------------------------------------
\* A call that ends leaves the loops in shape: its item is done.
LEMMA ReturnKeepsShape ==
  ASSUME IInv, NEW ok \in BOOLEAN, Return(ok), UNCHANGED snapshotVars
  PROVE  LoopShape' /\ CallsTouch'
<1>1. /\ stage' = stage /\ todo' \in SUBSET todo /\ op' = NoOp
      /\ pc' = IF stage = "none" THEN "idle" ELSE "loop"
  BY ReturnTyped DEF IInv
<1>2. CallsTouch'
  BY <1>1 DEF CallsTouch, CallPc, SentPc
<1>3. stage' = "none" => todo' = {} /\ predisabled' = {} /\ unsafe' = {} /\ failed' = FALSE
  BY <1>1 DEF IInv, LoopShape, Return, loopVars
<1>4. stage' = "heat" => predisabled' \cap todo' = {}
  BY <1>1 DEF IInv, LoopShape, Return, loopVars
<1>5. stage' \in {"heat", "setpoints"} => todo' \subseteq Thermostat
  BY <1>1 DEF IInv, LoopShape
<1> QED
  BY <1>1, <1>2, <1>3, <1>4, <1>5 DEF LoopShape, AwaitPc, CallPc, CheckPc, SentPc

\* A call that ends well has observed the value its loop owes the item, and one
\* that ends badly is recorded as an error.
LEMMA ReturnKeepsProgress ==
  ASSUME IInv, pc \in AwaitPc, NEW ok \in BOOLEAN, Return(ok), UNCHANGED snapshotVars,
         ok => Observe(op), ~ok => unverified' \subseteq unverified \cup {Mutation(op)}
  PROVE  LoopProgress'
<1> USE DEF IInv
<1>1. stage' = stage
  BY ReturnTyped
<1>2. op \in Action /\ op.device \in Device
  BY EquipmentAssumption DEF TypeOK, Action
<1>3. CASE stage = "none"
  <2>1. predisabled' = {} /\ unsafe' = {}
    BY <1>3 DEF Return, loopVars, LoopShape
  <2> QED
    BY <1>1, <1>3, <2>1 DEF LoopProgress
<1>4. CASE stage # "none" /\ ok
  <2>1. IsInitial(op) => unverified' = unverified \ {Mutation(op)}
    BY <1>4 DEF Observe
  <2>2. unverified' \subseteq unverified
    BY <1>4 DEF Observe
  <2>3. todo' = todo \ {op.device} /\ failed' = failed /\ unsafe' = unsafe
    BY <1>4 DEF Return, TypeOK
  <2>4. \A d \in predisabled' : initial[d] = Off => <<"device", d>> \notin unverified'
    <3>1. CASE stage = "heat"
      <4>1. op.kind = "device" /\ op.value = Off
        BY <3>1 DEF LoopShape, DeviceOp
      <4>2. initial[op.device] = Off => <<"device", op.device>> \notin unverified'
        BY <4>1, <2>1 DEF IsInitial, Mutation
      <4>3. predisabled' = predisabled \cup {op.device}
        BY <3>1, <1>4 DEF Return
      <4> QED
        BY <4>2, <4>3, <2>2 DEF LoopProgress
    <3>2. CASE stage # "heat"
      BY <3>2, <1>4, <2>2 DEF Return, LoopProgress
    <3> QED
      BY <3>1, <3>2
  <2>5. stage = "setpoints" => <<"setpoint", op.device>> \notin unverified'
    BY <2>1 DEF LoopShape, SetpointOp, IsInitial, Mutation
  <2>6. stage = "devices" => <<"device", op.device>> \notin unverified'
    BY <2>1 DEF LoopShape, DeviceOp, IsInitial, Mutation
  <2>7. initial' = initial
    BY DEF snapshotVars
  <2> QED
    BY <1>1, <2>2, <2>3, <2>4, <2>5, <2>6, <2>7 DEF LoopProgress
<1>5. CASE stage # "none" /\ ~ok
  <2>1. failed' /\ predisabled' = predisabled /\ initial' = initial
    BY <1>5 DEF Return, snapshotVars
  <2>2. \A d \in predisabled : initial[d] = Off => Mutation(op) # <<"device", d>>
    <3> SUFFICES ASSUME NEW d \in predisabled, initial[d] = Off, Mutation(op) = <<"device", d>>
                 PROVE  FALSE
      OBVIOUS
    <3>1. op.kind = "device" /\ op.device = d
      BY DEF Mutation
    <3> QED
      BY <1>5, <3>1 DEF LoopShape, SetpointOp, AlreadyOff, TypeOK
  <2> QED
    BY <1>5, <2>1, <2>2 DEF LoopProgress
<1> QED
  BY <1>3, <1>4, <1>5

\* Sending a request keeps what the loops have done: its item is still to do.
LEMMA PutKeepsProgress ==
  ASSUME IInv, pc = "put", unverified' = unverified \cup {Mutation(op)},
         UNCHANGED <<snapshotVars, loopVars>>
  PROVE  LoopProgress'
<1> USE DEF IInv
<1>1. \A d \in predisabled : initial[d] = Off => Mutation(op) # <<"device", d>>
  <2> SUFFICES ASSUME NEW d \in predisabled, initial[d] = Off, Mutation(op) = <<"device", d>>
               PROVE  FALSE
    OBVIOUS
  <2>1. op.kind = "device" /\ op.device = d
    BY DEF Mutation
  <2>2. pc \in AwaitPc
    BY DEF AwaitPc, CallPc
  <2> QED
    BY <2>1, <2>2 DEF LoopShape, SetpointOp, AlreadyOff, TypeOK
<1>2. stage # "none" => op.device \in todo
  BY DEF LoopShape, AwaitPc, CallPc
<1>3. stage = "devices" => op.kind = "device"
  BY DEF LoopShape, AwaitPc, CallPc, DeviceOp
<1> QED
  BY <1>1, <1>2, <1>3 DEF LoopProgress, Mutation, snapshotVars, loopVars
\* A step of the task that sends nothing and leaves the loops alone, on its way
\* to another await of the same operation.
LEMMA GotoKeepsLoops ==
  ASSUME IInv, UNCHANGED <<snapshotVars, loopVars, op, unverified>>,
         touchedDevices \subseteq touchedDevices',
         touchedSetpoints \subseteq touchedSetpoints',
         pc \in AwaitPc, pc' \in AwaitPc,
         pc' \in CallPc => pc \in CallPc \/
           op.device \in IF op.kind = "device" THEN touchedDevices' ELSE touchedSetpoints',
         stage = "none" => pc' \in CallPc,
         stage = "setpoints" => pc' \in {"setpointRead", "put"} \cup SentPc,
         pc' = "setpointRead" => stage = "setpoints",
         pc' = "heatRead" => stage = "heat"
  PROVE  CallsTouch' /\ LoopShape' /\ LoopProgress'
<1> USE DEF IInv, snapshotVars, loopVars
<1>1. CallsTouch'
  BY DEF CallsTouch
<1>2. LoopShape'
  BY DEF LoopShape, AlreadyOff
<1>3. LoopProgress'
  BY DEF LoopProgress
<1> QED
  BY <1>1, <1>2, <1>3

\* The steps of an operation keep the loop invariants.
LEMMA CallKeepsLoops ==
  ASSUME IInv, CaseStep \/ CallStep
  PROVE  CallsTouch' /\ LoopShape' /\ LoopProgress'
<1> USE DEF IInv
<1>1. CASE CaseStep
  <2>1. stage = "none"
    BY <1>1 DEF CaseStep, CaseSetDevice, CaseSetSetpoint, TypeOK
  <2>2. UNCHANGED <<snapshotVars, loopVars, unverified>> /\ pc' \in {"read", "put"}
    BY <1>1 DEF CaseStep, CaseSetDevice, CaseSetSetpoint, ghostVars
  <2>3. CallsTouch'
    BY <1>1 DEF CaseStep, CaseSetDevice, CaseSetSetpoint, CallsTouch, DeviceOp,
       SetpointOp, Touch, TouchSetpoint
  <2>4. LoopShape' /\ LoopProgress'
    BY <2>1, <2>2 DEF LoopShape, LoopProgress, loopVars, snapshotVars, CallPc, CheckPc
  <2> QED
    BY <2>3, <2>4
<1>2. CASE Read \/ Settled
  <2>1. pc \in {"read", "settle"} /\ UNCHANGED <<snapshotVars, touchVars>>
    BY <1>2 DEF Read, Settled
  <2>2. stage # "setpoints"
    BY <2>1 DEF LoopShape, AwaitPc, CallPc, SentPc
  <2>3. CASE Observe(op) /\ Return(TRUE)
    <3>1. pc \in AwaitPc
      BY <2>1 DEF AwaitPc, CallPc
    <3> QED
      BY <2>1, <2>3, <3>1, ReturnKeepsShape, ReturnKeepsProgress
  <2>4. CASE (Goto("settle") \/ GotoPut) /\ UNCHANGED <<loopVars, ghostVars>>
    <3>1. UNCHANGED <<op, unverified>> /\ pc' \in {"settle", "put"}
      BY <2>4 DEF Goto, GotoPut, ghostVars
    <3> QED
      BY <2>1, <2>2, <2>4, <3>1, GotoKeepsLoops DEF touchVars, AwaitPc, CallPc
  <2> QED
    BY <1>2, <2>3, <2>4 DEF Read, Settled, Compare
<1>3. CASE Put
  <2>1. /\ pc = "put" /\ pc' = "active" /\ op' = op
        /\ UNCHANGED <<snapshotVars, touchVars, loopVars>>
        /\ unverified' = unverified \cup {Mutation(op)}
    BY <1>3 DEF Put, Goto, NoteRequest
  <2>2. LoopProgress'
    BY <2>1, PutKeepsProgress
  <2>3. CallsTouch'
    BY <2>1 DEF CallsTouch, CallPc, touchVars
  <2>4. LoopShape'
    BY <2>1 DEF LoopShape, AlreadyOff, loopVars, snapshotVars, AwaitPc, CallPc, CheckPc, SentPc
  <2> QED
    BY <2>2, <2>3, <2>4
<1>4. CASE PutUnanswered
  <2>1. pc \in AwaitPc /\ Return(FALSE) /\ UNCHANGED snapshotVars
        /\ unverified' = unverified \cup {Mutation(op)}
    BY <1>4 DEF PutUnanswered, NoteRequest, AwaitPc, CallPc
  <2> QED
    BY <2>1, ReturnKeepsShape, ReturnKeepsProgress
<1>5. CASE SeeActive \/ SeeCompleted
  <2>1. /\ UNCHANGED <<snapshotVars, touchVars, loopVars, op, unverified>>
        /\ pc \in SentPc /\ pc' \in SentPc
    BY <1>5 DEF SeeActive, SeeCompleted, Goto, ghostVars, SentPc
  <2> QED
    BY <2>1, GotoKeepsLoops DEF touchVars, AwaitPc, CallPc, SentPc
<1>6. CASE Converge
  <2>1. pc \in AwaitPc /\ Observe(op) /\ Return(TRUE) /\ UNCHANGED snapshotVars
    BY <1>6 DEF Converge, AwaitPc, CallPc, SentPc
  <2> QED
    BY <2>1, ReturnKeepsShape, ReturnKeepsProgress
<1> QED
  BY <1>1, <1>2, <1>3, <1>4, <1>5, <1>6 DEF CallStep
\* The loops of restore() keep their invariants.
LEMMA LoopsKeepLoops ==
  ASSUME IInv, NEW d \in Device,
         \/ BeginRestore \/ VisitHeat(d) \/ VisitSetpoint(d) \/ VisitDevice(d)
         \/ HeatRead \/ NextStage
  PROVE  CallsTouch' /\ LoopShape' /\ LoopProgress'
<1> USE EquipmentAssumption DEF IInv
<1>1. CASE BeginRestore
  <2>1. stage = "none" /\ touchedSetpoints \subseteq Thermostat
    BY <1>1 DEF BeginRestore, TypeOK
  <2> QED
    BY <1>1, <2>1 DEF BeginRestore, CallsTouch, LoopShape, LoopProgress, snapshotVars,
       ghostVars, AwaitPc, CallPc, CheckPc, SentPc
<1>2. CASE VisitHeat(d)
  BY <1>2 DEF VisitHeat, DeviceOp, CallsTouch, LoopShape, LoopProgress, AlreadyOff,
     snapshotVars, loopVars, ghostVars, AwaitPc, CallPc, CheckPc, SentPc
<1>3. CASE VisitSetpoint(d)
  BY <1>3 DEF VisitSetpoint, SetpointOp, CallsTouch, LoopShape, LoopProgress, AlreadyOff,
     snapshotVars, loopVars, ghostVars, AwaitPc, CallPc, CheckPc, SentPc
<1>4. CASE VisitDevice(d)
  <2>1. CallsTouch'
    BY <1>4 DEF VisitDevice, CallsTouch, CallPc, SentPc
  <2>2. LoopShape'
    BY <1>4 DEF VisitDevice, LoopShape, DeviceOp, AlreadyOff, snapshotVars, AwaitPc,
       CallPc, CheckPc, SentPc
  <2>3. LoopProgress'
    BY <1>4 DEF VisitDevice, LoopProgress, AlreadyOff, snapshotVars, ghostVars
  <2> QED
    BY <2>1, <2>2, <2>3
<1>5. CASE HeatRead
  BY <1>5 DEF HeatRead, Goto, CallsTouch, LoopShape, LoopProgress, AlreadyOff, NoOp,
     snapshotVars, loopVars, ghostVars, AwaitPc, CallPc, CheckPc, SentPc
<1>6. CASE NextStage
  <2>1. pc = "loop" /\ todo = {} /\ pc' \in {"loop", "idle"}
        /\ UNCHANGED <<snapshotVars, unverified>>
    BY <1>6 DEF NextStage, ghostVars
  <2>2. CallsTouch'
    BY <2>1 DEF CallsTouch, CallPc, SentPc
  <2>3. LoopShape'
    BY <1>6, <2>1 DEF NextStage, LeaveLoop, SetpointWork, LoopShape, TypeOK, AwaitPc,
       CallPc, CheckPc, SentPc
  <2>4. LoopProgress'
    <3>1. CASE stage = "heat"
      BY <1>6, <2>1, <3>1 DEF NextStage, SetpointWork, LoopProgress, MutationsStayPending,
         snapshotVars
    <3>2. CASE stage = "setpoints"
      BY <1>6, <2>1, <3>2 DEF NextStage, LoopProgress, MutationsStayPending, snapshotVars
    <3>3. CASE stage = "devices"
      BY <1>6, <2>1, <3>3 DEF NextStage, LeaveLoop, LoopProgress
    <3> QED
      BY <1>6, <3>1, <3>2, <3>3 DEF NextStage
  <2> QED
    BY <2>2, <2>3, <2>4
<1> QED
  BY <1>1, <1>2, <1>3, <1>4, <1>5, <1>6

\* So do the reads of one item's restoration.
LEMMA ChecksKeepLoops ==
  ASSUME IInv, SetpointRead \/ Check \/ CheckSettled \/ Awaited
  PROVE  CallsTouch' /\ LoopShape' /\ LoopProgress'
<1> USE DEF IInv
<1>1. CASE Observe(op) /\ Return(TRUE)
  <2>1. pc \in AwaitPc /\ UNCHANGED snapshotVars
    BY DEF SetpointRead, Check, CheckSettled, Awaited, AwaitPc, CheckPc
  <2> QED
    BY <1>1, <2>1, ReturnKeepsShape, ReturnKeepsProgress
<1>2. CASE SetpointRead /\ GotoPut /\ TouchSetpoint(op.device)
           /\ UNCHANGED <<loopVars, ghostVars, touchedDevices>>
  <2>1. stage = "setpoints" /\ pc = "setpointRead" /\ pc' = "put" /\ op' = op
        /\ UNCHANGED <<snapshotVars, unverified>>
    BY <1>2 DEF SetpointRead, LoopShape, GotoPut, ghostVars
  <2>2. op.kind = "setpoint"
    BY <2>1 DEF LoopShape, SetpointOp, AwaitPc, CheckPc
  <2> QED
    BY <1>2, <2>1, <2>2, GotoKeepsLoops DEF TouchSetpoint, AwaitPc, CallPc, CheckPc
<1>3. CASE Check \/ CheckSettled
  <2>1. stage \in {"heat", "devices"} /\ pc \in {"check", "checkSettle"}
        /\ UNCHANGED <<snapshotVars, touchedSetpoints>>
    BY <1>3 DEF Check, CheckSettled, TypeOK, LoopShape, AwaitPc, CheckPc, CallPc, SentPc
  <2>2. op.kind = "device"
    BY <2>1 DEF LoopShape, DeviceOp, AwaitPc, CheckPc
  <2>3. CASE (Goto("checkSettle") \/ Goto("await"))
             /\ UNCHANGED <<touchedDevices, loopVars, ghostVars>>
    <3>1. pc' \in {"checkSettle", "await"} /\ UNCHANGED <<op, unverified>>
      BY <2>3 DEF Goto, ghostVars
    <3> QED
      BY <2>1, <2>3, <3>1, GotoKeepsLoops DEF AwaitPc, CallPc, CheckPc, SentPc
  <2>4. CASE Goto("read") /\ Touch(op.device) /\ UNCHANGED <<loopVars, ghostVars>>
    <3>1. pc' = "read" /\ UNCHANGED <<op, unverified>>
      BY <2>4 DEF Goto, ghostVars
    <3> QED
      BY <2>1, <2>2, <2>4, <3>1, GotoKeepsLoops DEF Touch, AwaitPc, CallPc, CheckPc, SentPc
  <2> QED
    BY <1>1, <1>3, <2>3, <2>4 DEF Check, CheckSettled, Decide
<1> QED
  BY <1>1, <1>2, <1>3 DEF SetpointRead, Awaited

\* A fault or a cancellation keeps the loop invariants, and the panel does not
\* reach the bookkeeping at all.
LEMMA InterruptsKeepLoops ==
  ASSUME IInv, Fault \/ Cancel \/ PanelStep \/ UNCHANGED vars
  PROVE  CallsTouch' /\ LoopShape' /\ LoopProgress'
<1> USE DEF IInv
<1>1. CASE Fault
  <2>1. pc \in AwaitPc /\ Return(FALSE) /\ UNCHANGED snapshotVars /\ unverified' = unverified
    BY <1>1 DEF Fault, GiveUp
  <2> QED
    BY <2>1, ReturnKeepsShape, ReturnKeepsProgress
<1>2. CASE Cancel
  BY <1>2 DEF Cancel, LeaveLoop, GiveUp, CallsTouch, LoopShape, LoopProgress,
     snapshotVars, AwaitPc, CallPc, CheckPc, SentPc
<1>3. CASE PanelStep \/ UNCHANGED vars
  <2>1. UNCHANGED <<snapshotVars, touchVars, loopVars, pc, op, unverified>>
    BY <1>3 DEF PanelStep, PanelActivate, PanelPerform, PanelAbort, PanelSettle, vars,
       callVars, ghostVars
  <2> QED
    BY <2>1 DEF CallsTouch, LoopShape, LoopProgress, AlreadyOff, snapshotVars, touchVars,
       loopVars
<1> QED
  BY <1>1, <1>2, <1>3

\* A mutation that was sent stays in the touched sets until it is observed back.
LEMMA PendingStep ==
  ASSUME IInv, [Next]_vars
  PROVE  MutationsStayPending'
<1> USE DEF IInv
<1>1. CASE Put \/ PutUnanswered
  <2>1. unverified' = unverified \cup {Mutation(op)} /\ pc = "put" /\ UNCHANGED touchVars
    BY <1>1 DEF Put, PutUnanswered, NoteRequest
  <2>2. op.device \in IF op.kind = "device" THEN touchedDevices ELSE touchedSetpoints
    BY <2>1 DEF CallsTouch, CallPc
  <2> QED
    BY <2>1, <2>2 DEF MutationsStayPending, Mutation, touchVars
<1>2. CASE NextStage
  <2>1. CASE UNCHANGED touchVars
    BY <1>2, <2>1 DEF NextStage, ghostVars, touchVars, MutationsStayPending
  <2>2. CASE stage = "devices" /\ ~failed
    <3>1. unverified = {}
      <4>1. \A k \in Kind, d \in Device : <<k, d>> \notin unverified
        BY <1>2, <2>2 DEF NextStage, LoopProgress, Kind
      <4> QED
        BY <4>1 DEF TypeOK
    <3> QED
      BY <1>2, <3>1 DEF NextStage, ghostVars, MutationsStayPending
  <2> QED
    BY <1>2, <2>1, <2>2 DEF NextStage, touchVars
<1>3. CASE ~(Put \/ PutUnanswered \/ NextStage)
  <2>1. unverified' \subseteq unverified
    BY <1>3 DEF Next, CaseStep, CaseSetDevice, CaseSetSetpoint, CallStep, Read, Settled,
       Compare, SeeActive, SeeCompleted, Converge, RestoreStep, BeginRestore, VisitHeat,
       VisitSetpoint, VisitDevice, HeatRead, SetpointRead, Check, CheckSettled, Decide,
       Awaited, Fault, Cancel, GiveUp, Observe, PanelStep, PanelActivate, PanelPerform,
       PanelAbort, PanelSettle, ghostVars, vars
  <2>2. touchedDevices \subseteq touchedDevices' /\ touchedSetpoints \subseteq touchedSetpoints'
    BY <1>3 DEF Next, CaseStep, CaseSetDevice, CaseSetSetpoint, CallStep, Read, Settled,
       SeeActive, SeeCompleted, Converge, RestoreStep, BeginRestore, VisitHeat,
       VisitSetpoint, VisitDevice, HeatRead, SetpointRead, Check, CheckSettled, Decide,
       Awaited, Fault, Cancel, PanelStep, PanelActivate, PanelPerform,
       PanelAbort, PanelSettle, Touch, TouchSetpoint, touchVars, vars
  <2> QED
    BY <2>1, <2>2 DEF MutationsStayPending
<1> QED
  BY <1>1, <1>2, <1>3

-----------------------------------------------------------------------------
\* Every step keeps the invariant.
LEMMA InvariantStep ==
  ASSUME IInv, [Next]_vars
  PROVE  IInv'
<1>1. TypeOK' /\ MutationsStayPending'
  BY TypeStep, PendingStep DEF IInv
<1>2. CallsTouch' /\ LoopShape' /\ LoopProgress'
  <2>1. CASE CaseStep \/ CallStep
    BY <2>1, CallKeepsLoops
  <2>2. CASE RestoreStep
    BY <2>2, LoopsKeepLoops, ChecksKeepLoops, EquipmentAssumption DEF RestoreStep
  <2>3. CASE Fault \/ Cancel \/ PanelStep \/ UNCHANGED vars
    BY <2>3, InterruptsKeepLoops
  <2> QED
    BY <2>1, <2>2, <2>3 DEF Next
<1> QED
  BY <1>1, <1>2 DEF IInv

\* Every behaviour of the validator and the panel satisfies the invariant.
THEOREM Invariance == Spec => []IInv
<1> QED
  BY InitIInv, InvariantStep, PTL DEF Spec

\* Type correctness of the equipment operations and of their restoration.
THEOREM TypeCorrect == Spec => []TypeOK
<1>1. IInv => TypeOK
  BY DEF IInv
<1> QED
  BY <1>1, Invariance, PTL

\* has_pending_mutations never forgets a mutation: for any devices, any number
\* of requests and any pattern of failures, timeouts and cancellations, what was
\* sent and not observed back at its initial value is still in the touched sets.
THEOREM PendingCorrect == Spec => []MutationsStayPending
<1>1. IInv => MutationsStayPending
  BY DEF IInv
<1> QED
  BY <1>1, Invariance, PTL

-----------------------------------------------------------------------------
(* What the panel may still do.                                            *)

\* The requests for a device's state or its setpoint that AqualinkD still holds.
Pending(k, d) == {r \in queue : r.kind = k /\ r.device = d}

\* The task awaits the effect of its request for it.
At(k, d) == pc \in SentPc /\ op.kind = k /\ op.device = d

\* What the validator has not given up on moves only while the task waits for it.
Attended ==
  \A k \in Kind, d \in Device : <<k, d>> \notin loose /\ ~At(k, d) =>
    Pending(k, d) = {} /\ (k = "device" => ~Transitioning(d))

\* As long as its only request waits, the task cannot take it for done.
Unreached ==
  pc \in SentPc \cup {"put"} /\ Mutation(op) \notin loose =>
    /\ \A r, s \in Pending(op.kind, op.device) : r = s
    /\ pc = "put" \/ Pending(op.kind, op.device) # {} =>
         IF op.kind = "device"
         THEN ~Transitioning(op.device) /\ Enabled(op.device) # op.value
         ELSE "completed" \notin heard

\* How the awaits of an operation follow each other.
Phases ==
  /\ pc = "converge" => "completed" \in heard
  /\ pc \in SentPc => Mutation(op) \in unverified
  /\ pc \in {"read", "settle", "heatRead", "check", "checkSettle", "await"} =>
       op.kind = "device"

\* What was observed undone stays so.
Verified ==
  \A d \in Device :
    /\ {<<"device", d>>} \cap (unverified \cup loose) = {} => led[d] = Steady(initial[d])
    /\ d \in Thermostat /\ {<<"setpoint", d>>} \cap (unverified \cup loose) = {} =>
         setpoint[d] = initialSetpoint[d]

\* The first loop has turned its heaters off, and they stay off in the second.
HeatOff ==
  /\ stage = "heat" =>
       \A d \in (touchedSetpoints \cap Heater) \ (todo \cup unsafe) :
         led[d] = "off" \/ <<"device", d>> \in loose
  /\ stage = "setpoints" =>
       \A d \in todo \cap Heater : led[d] = "off" \/ <<"device", d>> \in loose

\* The third loop visits its devices in their order.
InOrder ==
  stage = "devices" /\ pc \in AwaitPc =>
    \A e \in todo : RestorationOrder(op.device) <= RestorationOrder(e)

\* The devices for which every loop wants one state.
OneState(d) == d \notin Heater \/ initial[d] = Off

\* A mark stays until a case takes it back, and is set before the request is sent.
Marks ==
  /\ stage = "heat" => todo \subseteq Heater
  /\ \A d \in Device : OneState(d) =>
       /\ requested[d] \in {Unmarked, initial[d]}
       /\ asked[d].id # 0 => requested[d] = initial[d]
  /\ stage # "none" /\ pc \in {"read", "settle", "put"} /\ op.kind = "device"
       /\ OneState(op.device) =>
       asked[op.device].id = 0 /\ requested[op.device] = initial[op.device]

PanelInv ==
  IInv /\ Attended /\ Unreached /\ Phases /\ Verified

OrderInv == PanelInv /\ HeatOff /\ InOrder /\ Marks

-----------------------------------------------------------------------------
\* The initial states satisfy it: nothing is queued, and nothing was sent.
LEMMA InitOrderInv == Init => OrderInv
<1> SUFFICES ASSUME Init PROVE OrderInv
  OBVIOUS
<1>1. IInv
  BY InitIInv
<1>2. Attended /\ Unreached /\ Phases
  BY DEF Init, PanelInit, Attended, Unreached, Phases, Pending, Transitioning, SentPc
<1>3. Verified
  BY EquipmentAssumption DEF Init, PanelInit, Verified, Enabled, Steady, On, Off
<1>4. HeatOff /\ InOrder /\ Marks
  BY EquipmentAssumption DEF Init, HeatOff, InOrder, Marks, NotAsked
<1> QED
  BY <1>1, <1>2, <1>3, <1>4 DEF OrderInv, PanelInv

\* The operation's target is typed, and so is its mutation.
LEMMA OpTyped ==
  ASSUME TypeOK
  PROVE  op.kind \in Kind /\ op.device \in Device
  BY EquipmentAssumption DEF TypeOK, Action, Kind

\* A step of the task that neither sends, observes nor gives up.
LEMMA QuietKeepsPanel ==
  ASSUME PanelInv, TypeOK',
         UNCHANGED <<panelVars, snapshotVars, unverified, loose>>,
         pc \notin SentPc, pc' \notin SentPc,
         pc' \in {"read", "settle", "heatRead", "check", "checkSettle", "await"} =>
           op'.kind = "device",
         pc' = "put" =>
           IF op'.kind = "device"
           THEN ~Transitioning(op'.device) /\ Enabled(op'.device) # op'.value
           ELSE heard' = {}
  PROVE  Attended' /\ Unreached' /\ Phases' /\ Verified'
<1> USE DEF PanelInv, panelVars, snapshotVars
<1>1. Attended'
  BY DEF Attended, At, Pending, Transitioning
<1>2. Unreached'
  <2> SUFFICES ASSUME pc' = "put", Mutation(op') \notin loose
               PROVE  /\ Pending(op'.kind, op'.device) = {}
                      /\ IF op'.kind = "device"
                         THEN ~Transitioning(op'.device) /\ Enabled(op'.device) # op'.value
                         ELSE "completed" \notin heard'
    BY DEF Unreached, Pending, Transitioning, Enabled, Mutation
  <2>1. op'.kind \in Kind /\ op'.device \in Device
    BY EquipmentAssumption DEF TypeOK, Action, Kind
  <2> QED
    BY <2>1 DEF Attended, At, Mutation
<1>3. Phases'
  BY DEF Phases, SentPc
<1>4. Verified'
  BY DEF Verified
<1> QED
  BY <1>1, <1>2, <1>3, <1>4

\* A marker moves the task on in its wait.
LEMMA SeeKeepsPanel ==
  ASSUME PanelInv, SeeActive \/ SeeCompleted
  PROVE  Attended' /\ Unreached' /\ Phases' /\ Verified'
<1> USE DEF PanelInv, panelVars, snapshotVars
<1>1. /\ UNCHANGED <<panelVars, snapshotVars, unverified, loose, op, heard>>
      /\ pc \in SentPc /\ pc' \in SentPc /\ pc' # "put"
      /\ pc' = "converge" => "completed" \in heard
  BY DEF SeeActive, SeeCompleted, Goto, ghostVars, SentPc
<1>2. Attended'
  BY <1>1 DEF Attended, At, Pending, Transitioning
<1>3. Unreached'
  BY <1>1 DEF Unreached, Pending, Transitioning, Enabled, Mutation
<1>4. Phases'
  BY <1>1 DEF Phases, SentPc, Mutation
<1>5. Verified'
  BY <1>1 DEF Verified
<1> QED
  BY <1>2, <1>3, <1>4, <1>5

\* A steady device that reports a value has it.
LEMMA ReachedSteady ==
  ASSUME TypeOK, op.kind = "device", Reached(op)
  PROVE  led[op.device] = Steady(op.value) /\ op.device \in Device /\ op.value \in {Off, On}
<1>1. op.device \in Device /\ op.value \in {Off, On}
  BY DEF TypeOK, Action
<1>2. led[op.device] \in {"off", "on", "turningOn", "turningOff"}
  BY <1>1 DEF TypeOK, PanelTypeOK
<1> QED
  BY <1>1, <1>2 DEF Reached, Transitioning, Enabled, Steady, On, Off

\* The task sees the value it wants: nothing of its own is left in the queue.
LEMMA ObserveKeepsPanel ==
  ASSUME PanelInv, pc \notin SentPc \ {"converge"}, pc' \notin SentPc,
         pc' \in {"idle", "loop"}, Reached(op), Observe(op),
         UNCHANGED <<panelVars, snapshotVars>>
  PROVE  Attended' /\ Unreached' /\ Phases' /\ Verified'
<1> USE DEF PanelInv, IInv, panelVars, snapshotVars
<1>1. op.kind \in Kind /\ op.device \in Device
  BY OpTyped
<1>2. /\ unverified' \in SUBSET unverified /\ loose' \in SUBSET loose
      /\ unverified \subseteq unverified' \cup {Mutation(op)}
      /\ loose \subseteq loose' \cup {Mutation(op)}
      /\ Mutation(op) \in unverified \ unverified' => IsInitial(op)
      /\ Mutation(op) \in loose \ loose' => IsInitial(op) /\ ~StillMoving(op)
  BY DEF Observe
<1>3. Mutation(op) \notin loose' =>
        Pending(op.kind, op.device) = {}
          /\ (op.kind = "device" => ~Transitioning(op.device))
  <2>1. CASE Mutation(op) \in loose
    BY <2>1, <1>2 DEF StillMoving, Pending
  <2>2. CASE Mutation(op) \notin loose /\ pc = "converge"
    <3>1. "completed" \in heard /\ pc \in SentPc
      BY <2>2 DEF Phases, SentPc
    <3>2. Pending(op.kind, op.device) = {}
      BY <2>2, <3>1 DEF Unreached, Reached
    <3> QED
      BY <3>2 DEF Reached
  <2>3. CASE Mutation(op) \notin loose /\ pc # "converge"
    BY <2>3, <1>1 DEF Attended, At, Mutation
  <2> QED
    BY <2>1, <2>2, <2>3
<1>4. Attended'
  <2> SUFFICES ASSUME NEW k \in Kind, NEW d \in Device, <<k, d>> \notin loose'
               PROVE  Pending(k, d) = {} /\ (k = "device" => ~Transitioning(d))
    BY DEF Attended, Pending, Transitioning
  <2>1. CASE k = op.kind /\ d = op.device
    BY <2>1, <1>3 DEF Mutation
  <2>2. CASE ~(k = op.kind /\ d = op.device)
    BY <2>2, <1>2 DEF Attended, At, Mutation
  <2> QED
    BY <2>1, <2>2
<1>5. Unreached' /\ Phases'
  BY DEF Unreached, Phases, SentPc
<1>6. Verified'
  <2> SUFFICES ASSUME NEW d \in Device
               PROVE  /\ <<"device", d>> \notin unverified' \cup loose' =>
                           led[d] = Steady(initial[d])
                      /\ d \in Thermostat /\ <<"setpoint", d>> \notin unverified' \cup loose' =>
                           setpoint[d] = initialSetpoint[d]
    BY DEF Verified
  <2>1. <<"device", d>> \notin unverified' \cup loose' => led[d] = Steady(initial[d])
    <3>1. CASE <<"device", d>> = Mutation(op) /\ IsInitial(op)
      BY <3>1, ReachedSteady DEF Mutation, IsInitial
    <3>2. CASE ~(<<"device", d>> = Mutation(op) /\ IsInitial(op))
      BY <3>2, <1>2 DEF Verified
    <3> QED
      BY <3>1, <3>2
  <2>2. d \in Thermostat /\ <<"setpoint", d>> \notin unverified' \cup loose' =>
          setpoint[d] = initialSetpoint[d]
    <3>1. CASE <<"setpoint", d>> = Mutation(op) /\ IsInitial(op)
      BY <3>1 DEF Mutation, IsInitial, Reached
    <3>2. CASE ~(<<"setpoint", d>> = Mutation(op) /\ IsInitial(op))
      BY <3>2, <1>2 DEF Verified
    <3> QED
      BY <3>1, <3>2
  <2> QED
    BY <2>1, <2>2
<1> QED
  BY <1>4, <1>5, <1>6

\* The request is sent: it is the only one for its target, or one was abandoned.
LEMMA PutKeepsPanel ==
  ASSUME PanelInv, Put \/ PutUnanswered
  PROVE  Attended' /\ Unreached' /\ Phases' /\ Verified'
<1> USE DEF PanelInv, IInv
<1>1. op.kind \in Kind /\ op.device \in Device
  BY OpTyped
<1>2. /\ pc = "put" /\ UNCHANGED <<led, setpoint, snapshotVars>>
      /\ queue' = queue \cup {Request(op, sent + 1)}
      /\ unverified' = unverified \cup {Mutation(op)}
      /\ loose \subseteq loose'
  BY DEF Put, PutUnanswered, Accept, NoteRequest
<1>3. \/ Put /\ pc' = "active" /\ op' = op /\ heard' = heard /\ loose' = loose
      \/ PutUnanswered /\ pc' \in {"idle", "loop"} /\ Mutation(op) \in loose'
  BY DEF Put, PutUnanswered, Goto, Return
<1>4. Attended'
  <2> SUFFICES ASSUME NEW k \in Kind, NEW d \in Device, <<k, d>> \notin loose', ~At(k, d)'
               PROVE  Pending(k, d)' = {} /\ (k = "device" => ~Transitioning(d)')
    BY DEF Attended
  <2>1. ~(k = op.kind /\ d = op.device)
    BY <1>3 DEF At, Mutation, SentPc
  <2>2. Pending(k, d)' = Pending(k, d)
    BY <2>1, <1>2 DEF Pending, Request
  <2>3. ~At(k, d)
    BY <1>2 DEF At, SentPc
  <2> QED
    BY <2>2, <2>3, <1>2 DEF Attended, Transitioning
<1>5. Unreached'
  <2>1. CASE PutUnanswered /\ pc' \in {"idle", "loop"}
    BY <2>1 DEF Unreached, SentPc
  <2>2. CASE Put /\ pc' = "active" /\ op' = op /\ heard' = heard /\ loose' = loose
    <3> SUFFICES ASSUME Mutation(op) \notin loose
                 PROVE  /\ \A r, s \in Pending(op.kind, op.device)' : r = s
                        /\ IF op.kind = "device"
                           THEN ~Transitioning(op.device) /\ Enabled(op.device) # op.value
                           ELSE "completed" \notin heard
      BY <2>2, <1>2 DEF Unreached, Pending, Mutation, Transitioning, Enabled
    <3>1. Pending(op.kind, op.device) = {}
      BY <1>1, <1>2 DEF Attended, At, Mutation, SentPc
    <3>2. Pending(op.kind, op.device)' \subseteq {Request(op, sent + 1)}
      BY <3>1, <2>2, <1>2 DEF Pending
    <3> QED
      BY <3>2, <1>2 DEF Unreached
  <2> QED
    BY <1>3, <2>1, <2>2
<1>6. Phases'
  BY <1>2, <1>3 DEF Phases, SentPc
<1>7. Verified'
  BY <1>2 DEF Verified, snapshotVars
<1> QED
  BY <1>4, <1>5, <1>6, <1>7

\* The task stops waiting: what still moves is recorded as abandoned.
LEMMA GiveUpKeepsPanel ==
  ASSUME PanelInv, Fault \/ Cancel
  PROVE  Attended' /\ Unreached' /\ Phases' /\ Verified'
<1> USE DEF PanelInv, IInv
<1>1. /\ UNCHANGED <<panelVars, snapshotVars, unverified>> /\ pc' \in {"idle", "loop"}
      /\ loose \subseteq loose'
      /\ StillMoving(op) /\ pc \in SentPc => Mutation(op) \in loose'
  BY DEF Fault, Cancel, GiveUp, Return
<1>2. Attended'
  <2> SUFFICES ASSUME NEW k \in Kind, NEW d \in Device, <<k, d>> \notin loose'
               PROVE  Pending(k, d) = {} /\ (k = "device" => ~Transitioning(d))
    BY <1>1 DEF Attended, Pending, Transitioning, panelVars
  <2>1. CASE At(k, d)
    BY <2>1, <1>1 DEF At, StillMoving, Mutation, Pending
  <2>2. CASE ~At(k, d)
    BY <2>2, <1>1 DEF Attended
  <2> QED
    BY <2>1, <2>2
<1>3. Unreached' /\ Phases'
  BY <1>1 DEF Unreached, Phases, SentPc
<1>4. Verified'
  BY <1>1 DEF Verified, panelVars, snapshotVars
<1> QED
  BY <1>2, <1>3, <1>4

\* A request moves what the task awaits, or what it has given up on.
LEMMA RunningAttended ==
  ASSUME PanelInv, NEW r \in queue
  PROVE  /\ r.kind \in Kind /\ r.device \in Device
         /\ r.kind = "device" => r.value \in {Off, On}
         /\ r.kind = "setpoint" => r.device \in Thermostat
         /\ At(r.kind, r.device) \/ <<r.kind, r.device>> \in loose
<1> USE DEF PanelInv, IInv
<1>1. r \in Requests
  BY DEF TypeOK, PanelTypeOK
<1>2. r.kind \in Kind /\ r.device \in Device
  BY <1>1, RequestTyped, EquipmentAssumption DEF Kind
<1>3. r \in Pending(r.kind, r.device)
  BY DEF Pending
<1> QED
  BY <1>1, <1>2, <1>3, RequestTyped DEF Attended

\* A request that ends has ended for the task that awaits it: it was its only one.
LEMMA RetireKeepsPanel ==
  ASSUME PanelInv, PanelPerform \/ PanelAbort
  PROVE  Attended' /\ Unreached' /\ Phases' /\ Verified'
<1> USE DEF PanelInv, IInv
<1>1. PICK r \in running, lines \in {{"completed"}, {"completed", "error"}} :
        (Perform(r) \/ Abort(r)) /\ Hear(r, lines)
  BY DEF PanelPerform, PanelAbort
<1>2. UNCHANGED <<snapshotVars, pc, op, unverified, loose>>
  BY DEF PanelPerform, PanelAbort, ghostVars
<1>3. r \in queue /\ queue' = queue \ {r}
  BY <1>1 DEF Perform, Abort, Retire, TypeOK, PanelTypeOK
<1>4. /\ r.kind \in Kind /\ r.device \in Device
      /\ r.kind = "device" => r.value \in {Off, On}
      /\ r.kind = "setpoint" => r.device \in Thermostat
      /\ At(r.kind, r.device) \/ <<r.kind, r.device>> \in loose
  BY <1>3, RunningAttended
<1>5. /\ \A d \in Device : ~(r.kind = "device" /\ r.device = d) => led'[d] = led[d]
      /\ \A d \in Thermostat : ~(r.kind = "setpoint" /\ r.device = d) =>
           setpoint'[d] = setpoint[d]
  BY <1>1, <1>4 DEF Perform, Abort, TypeOK, PanelTypeOK
<1>6. \A k, d : Pending(k, d)' \subseteq Pending(k, d)
  BY <1>3 DEF Pending
<1>7. heard \subseteq heard' /\ (~SameTask(r) => heard' = heard)
  BY <1>1 DEF Hear
<1>8. Attended'
  <2> SUFFICES ASSUME NEW k \in Kind, NEW d \in Device, <<k, d>> \notin loose, ~At(k, d)
               PROVE  Pending(k, d)' = {} /\ (k = "device" => ~Transitioning(d)')
    BY <1>2 DEF Attended, At
  <2>1. ~(r.kind = k /\ r.device = d)
    BY <1>4
  <2>2. Pending(k, d) = {} /\ (k = "device" => ~Transitioning(d))
    BY DEF Attended
  <2> QED
    BY <2>1, <2>2, <1>5, <1>6 DEF Transitioning
<1>9. Unreached'
  <2> SUFFICES ASSUME pc \in SentPc \cup {"put"}, Mutation(op) \notin loose
               PROVE  /\ \A q, s \in Pending(op.kind, op.device)' : q = s
                      /\ pc = "put" \/ Pending(op.kind, op.device)' # {} =>
                           IF op.kind = "device"
                           THEN ~Transitioning(op.device)' /\ Enabled(op.device)' # op.value
                           ELSE "completed" \notin heard'
    BY <1>2 DEF Unreached, Pending, Mutation, Transitioning, Enabled
  <2>1. \A q, s \in Pending(op.kind, op.device) : q = s
    BY DEF Unreached
  <2>2. op.kind \in Kind /\ op.device \in Device
    BY OpTyped
  <2>3. CASE r.kind = op.kind /\ r.device = op.device
    <3>1. r \in Pending(op.kind, op.device)
      BY <2>3, <1>3 DEF Pending
    <3>2. Pending(op.kind, op.device)' = {}
      BY <2>1, <3>1, <1>2, <1>3 DEF Pending
    <3>3. pc # "put"
      BY <2>2, <3>1 DEF Attended, At, SentPc, Mutation
    <3> QED
      BY <3>2, <3>3
  <2>4. CASE ~(r.kind = op.kind /\ r.device = op.device)
    <3>1. op.kind = "device" => led'[op.device] = led[op.device]
      BY <2>4, <2>2, <1>5
    <3>2. op.kind = "setpoint" => heard' = heard
      BY <2>4, <1>7 DEF SameTask
    <3>3. pc = "put" \/ Pending(op.kind, op.device) # {} =>
            IF op.kind = "device"
            THEN ~Transitioning(op.device) /\ Enabled(op.device) # op.value
            ELSE "completed" \notin heard
      BY DEF Unreached
    <3> QED
      <4>1. Pending(op.kind, op.device)' \subseteq Pending(op.kind, op.device)
        BY <1>2, <1>3 DEF Pending
      <4>2. op.kind = "device" \/ op.kind = "setpoint"
        BY <2>2 DEF Kind
      <4>3. CASE op.kind = "device"
        BY <2>1, <3>1, <3>3, <4>1, <4>3, <1>2 DEF Transitioning, Enabled
      <4>4. CASE op.kind = "setpoint"
        BY <2>1, <3>2, <3>3, <4>1, <4>4
      <4> QED
        BY <4>2, <4>3, <4>4
  <2> QED
    BY <2>3, <2>4
<1>10. Phases'
  BY <1>2, <1>7 DEF Phases, Mutation
<1>11. Verified'
  <2>1. At(r.kind, r.device) => <<r.kind, r.device>> \in unverified
    BY DEF At, Phases, Mutation
  <2> QED
    BY <2>1, <1>2, <1>4, <1>5 DEF Verified, snapshotVars
<1> QED
  BY <1>8, <1>9, <1>10, <1>11

\* A programmer that gets its turn only logs, and only a device that the task
\* awaits or has given up on is still flashing.
LEMMA TurnKeepsPanel ==
  ASSUME PanelInv, PanelActivate \/ PanelSettle
  PROVE  Attended' /\ Unreached' /\ Phases' /\ Verified'
<1> USE DEF PanelInv, IInv
<1>1. CASE PanelActivate
  <2>1. /\ UNCHANGED <<led, setpoint, queue, snapshotVars, pc, op, unverified, loose>>
        /\ heard' = heard \/ heard' = heard \cup {"active"}
    BY <1>1 DEF PanelActivate, Activate, Hear, ghostVars
  <2>2. Attended'
    BY <2>1 DEF Attended, At, Pending, Transitioning
  <2>3. Unreached'
    BY <2>1 DEF Unreached, Pending, Transitioning, Enabled, Mutation
  <2>4. Phases' /\ Verified'
    BY <2>1 DEF Phases, Mutation, Verified, snapshotVars
  <2> QED
    BY <2>2, <2>3, <2>4
<1>2. CASE PanelSettle
  <2>1. PICK e \in Device : Settle(e)
    BY <1>2 DEF PanelSettle
  <2>2. UNCHANGED <<setpoint, queue, snapshotVars, pc, op, heard, unverified, loose>>
    BY <1>2, <2>1 DEF PanelSettle, Settle, callVars, ghostVars
  <2>3. /\ Transitioning(e)
        /\ \A d \in Device \ {e} : led'[d] = led[d]
        /\ led'[e] \in {"off", "on"}
    BY <2>1 DEF Settle, TypeOK, PanelTypeOK
  <2>4. At("device", e) \/ <<"device", e>> \in loose
    BY <2>3 DEF Attended, Kind
  <2>5. Attended'
    BY <2>2, <2>3 DEF Attended, At, Pending, Transitioning
  <2>6. Unreached'
    <3> SUFFICES ASSUME pc \in SentPc \cup {"put"}, Mutation(op) \notin loose,
                        pc = "put" \/ Pending(op.kind, op.device) # {}, op.kind = "device"
                 PROVE  led'[op.device] = led[op.device]
      BY <2>2 DEF Unreached, Pending, Mutation, Transitioning, Enabled
    <3>1. ~Transitioning(op.device)
      BY DEF Unreached
    <3> QED
      BY <3>1, <2>3, OpTyped
  <2>7. Phases'
    BY <2>2 DEF Phases, Mutation
  <2>8. Verified'
    <3>1. At("device", e) => <<"device", e>> \in unverified
      BY DEF At, Phases, Mutation
    <3> QED
      BY <3>1, <2>2, <2>3, <2>4 DEF Verified, snapshotVars
  <2> QED
    BY <2>5, <2>6, <2>7, <2>8
<1> QED
  BY <1>1, <1>2

-----------------------------------------------------------------------------
\* Every step keeps the panel's part of the invariant: first the case and calls.
LEMMA CallKeepsPanel ==
  ASSUME PanelInv, TypeOK', CaseStep \/ CallStep
  PROVE  Attended' /\ Unreached' /\ Phases' /\ Verified'
<1>0. PanelInv /\ IInv /\ TypeOK /\ Phases
  BY DEF PanelInv, IInv
<1>1. CASE CaseStep
  <2>1. /\ UNCHANGED <<panelVars, snapshotVars, unverified, loose>> /\ pc = "idle"
        /\ \/ pc' = "read" /\ op'.kind = "device"
           \/ pc' = "put" /\ op'.kind = "setpoint" /\ heard' = {}
    BY <1>1 DEF CaseStep, CaseSetDevice, CaseSetSetpoint, DeviceOp, SetpointOp, ghostVars
  <2> QED
    BY <2>1, <1>0, QuietKeepsPanel DEF SentPc
<1>2. CASE Read \/ Settled
  <2>1. UNCHANGED <<panelVars, snapshotVars>> /\ pc \in {"read", "settle"} /\ op.kind = "device"
    BY <1>2, <1>0 DEF Read, Settled, Phases
  <2>2. CASE Goto("settle") /\ UNCHANGED <<loopVars, ghostVars>>
    BY <2>1, <2>2, <1>0, QuietKeepsPanel DEF Goto, ghostVars, SentPc
  <2>3. CASE ~Transitioning(op.device) /\ Compare /\ Enabled(op.device) = op.value
    <3>1. Reached(op) /\ Observe(op) /\ Return(TRUE)
      BY <2>1, <2>3 DEF Reached, Compare
    <3>2. pc' \in {"idle", "loop"}
      BY <3>1 DEF Return
    <3> QED
      BY <2>1, <3>1, <3>2, <1>0, ObserveKeepsPanel DEF SentPc
  <2>4. CASE ~Transitioning(op.device) /\ Compare /\ Enabled(op.device) # op.value
    BY <2>1, <2>4, <1>0, QuietKeepsPanel DEF Compare, GotoPut, ghostVars, SentPc
  <2> QED
    BY <1>2, <2>2, <2>3, <2>4 DEF Read, Settled
<1>3. CASE Put \/ PutUnanswered
  BY <1>3, <1>0, PutKeepsPanel
<1>4. CASE SeeActive \/ SeeCompleted
  BY <1>4, <1>0, SeeKeepsPanel
<1>5. CASE Converge
  <2>1. pc' \in {"idle", "loop"}
    BY <1>5 DEF Converge, Return
  <2> QED
    BY <1>5, <2>1, <1>0, ObserveKeepsPanel DEF Converge, SentPc
<1> QED
  BY <1>1, <1>2, <1>3, <1>4, <1>5 DEF CallStep

\* The steps of restore(): it sends nothing itself.
LEMMA RestoreKeepsPanel ==
  ASSUME PanelInv, TypeOK', RestoreStep
  PROVE  Attended' /\ Unreached' /\ Phases' /\ Verified'
<1>0. PanelInv /\ IInv /\ TypeOK /\ Phases
  BY DEF PanelInv, IInv
<1>1. CASE BeginRestore \/ NextStage
  <2>1. UNCHANGED <<panelVars, snapshotVars, unverified, loose>>
        /\ pc \in {"idle", "loop"} /\ pc' \in {"idle", "loop"}
    BY <1>1 DEF BeginRestore, NextStage, ghostVars
  <2> QED
    BY <2>1, <1>0, QuietKeepsPanel DEF SentPc
<1>2. ASSUME NEW d \in Device, VisitHeat(d) \/ VisitSetpoint(d) \/ VisitDevice(d)
      PROVE  Attended' /\ Unreached' /\ Phases' /\ Verified'
  <2>1. /\ UNCHANGED <<panelVars, snapshotVars, unverified, loose>> /\ pc = "loop"
        /\ pc' \in {"loop", "heatRead", "setpointRead", "check"}
        /\ pc' \in {"heatRead", "check"} => op'.kind = "device"
    BY <1>2 DEF VisitHeat, VisitSetpoint, VisitDevice, DeviceOp, ghostVars
  <2> QED
    BY <2>1, <1>0, QuietKeepsPanel DEF SentPc
<1>3. CASE HeatRead
  <2>1. /\ UNCHANGED <<panelVars, snapshotVars, unverified, loose>> /\ pc = "heatRead"
        /\ pc' \in {"loop", "check"} /\ (pc' = "check" => op' = op)
    BY <1>3 DEF HeatRead, Goto, ghostVars
  <2>2. pc' = "check" => op'.kind = "device"
    BY <2>1, <1>0 DEF Phases
  <2> QED
    BY <2>1, <2>2, <1>0, QuietKeepsPanel DEF SentPc
<1>4. CASE SetpointRead
  <2>1. UNCHANGED <<panelVars, snapshotVars>> /\ pc = "setpointRead" /\ op.kind = "setpoint"
    BY <1>4, <1>0 DEF SetpointRead, IInv, LoopShape, SetpointOp, AwaitPc, CheckPc
  <2>2. CASE Reached(op)
    <3>1. Observe(op) /\ pc' \in {"idle", "loop"}
      BY <1>4, <2>2 DEF SetpointRead, Return
    <3> QED
      BY <2>1, <2>2, <3>1, <1>0, ObserveKeepsPanel DEF SentPc
  <2>3. CASE ~Reached(op)
    <3>1. pc' = "put" /\ heard' = {} /\ op' = op /\ UNCHANGED <<unverified, loose>>
      BY <1>4, <2>3 DEF SetpointRead, GotoPut, ghostVars
    <3> QED
      BY <2>1, <3>1, <1>0, QuietKeepsPanel DEF SentPc
  <2> QED
    BY <2>2, <2>3
<1>5. CASE Check \/ CheckSettled
  <2>1. UNCHANGED <<panelVars, snapshotVars>> /\ pc \in {"check", "checkSettle"}
        /\ op.kind = "device"
    BY <1>5, <1>0 DEF Check, CheckSettled, Phases
  <2>2. CASE Goto("checkSettle") /\ UNCHANGED ghostVars
    BY <2>1, <2>2, <1>0, QuietKeepsPanel DEF Goto, ghostVars, SentPc
  <2>3. CASE ~Transitioning(op.device) /\ Decide /\ Enabled(op.device) = op.value
    <3>1. Reached(op) /\ Observe(op) /\ pc' \in {"idle", "loop"}
      BY <2>1, <2>3 DEF Reached, Decide, Return
    <3> QED
      BY <2>1, <3>1, <1>0, ObserveKeepsPanel DEF SentPc
  <2>4. CASE ~Transitioning(op.device) /\ Decide /\ Enabled(op.device) # op.value
    <3>1. pc' \in {"await", "read"} /\ op' = op /\ UNCHANGED <<unverified, loose>>
      BY <2>4 DEF Decide, Goto, ghostVars
    <3> QED
      BY <2>1, <3>1, <1>0, QuietKeepsPanel DEF SentPc
  <2> QED
    BY <1>5, <2>2, <2>3, <2>4 DEF Check, CheckSettled
<1>6. CASE Awaited
  <2>1. pc' \in {"idle", "loop"}
    BY <1>6 DEF Awaited, Return
  <2> QED
    BY <1>6, <2>1, <1>0, ObserveKeepsPanel DEF Awaited, SentPc
<1> QED
  BY <1>1, <1>2, <1>3, <1>4, <1>5, <1>6 DEF RestoreStep

\* The whole of the panel's part.
LEMMA PanelInvStep ==
  ASSUME PanelInv, [Next]_vars
  PROVE  PanelInv'
<1>1. IInv'
  BY InvariantStep DEF PanelInv
<1>2. TypeOK'
  BY <1>1 DEF IInv
<1>3. Attended' /\ Unreached' /\ Phases' /\ Verified'
  <2>1. CASE CaseStep \/ CallStep
    BY <2>1, <1>2, CallKeepsPanel
  <2>2. CASE RestoreStep
    BY <2>2, <1>2, RestoreKeepsPanel
  <2>3. CASE Fault \/ Cancel
    BY <2>3, GiveUpKeepsPanel
  <2>4. CASE PanelStep
    BY <2>4, RetireKeepsPanel, TurnKeepsPanel DEF PanelStep
  <2>5. CASE UNCHANGED vars
    <3>1. UNCHANGED <<led, setpoint, queue, initial, initialSetpoint, pc, op, heard,
                      unverified, loose>>
      BY <2>5 DEF vars, panelVars, snapshotVars, callVars, ghostVars
    <3> QED
      BY <3>1 DEF PanelInv, Attended, Unreached, Phases, Verified, At, Pending,
         Transitioning, Enabled, Mutation
  <2> QED
    BY <2>1, <2>2, <2>3, <2>4, <2>5 DEF Next
<1> QED
  BY <1>1, <1>3 DEF PanelInv

-----------------------------------------------------------------------------
\* A device's light moves only while the task awaits it, or after it gave up.
LEMMA LightMoves ==
  ASSUME PanelInv, PanelStep, NEW d \in Device, led'[d] # led[d]
  PROVE  At("device", d) \/ <<"device", d>> \in loose
<1> USE DEF PanelInv, IInv
<1>1. CASE PanelPerform
  <2>1. PICK r \in running : Perform(r)
    BY <1>1 DEF PanelPerform
  <2>2. r \in queue /\ r.device = d /\ r.kind = "device"
    BY <2>1 DEF Perform, TypeOK, PanelTypeOK
  <2> QED
    BY <2>2, RunningAttended
<1>2. CASE PanelSettle
  <2>1. Transitioning(d)
    BY <1>2 DEF PanelSettle, Settle, TypeOK, PanelTypeOK
  <2> QED
    BY <2>1 DEF Attended, Kind
<1>3. CASE PanelActivate \/ PanelAbort
  BY <1>3 DEF PanelActivate, Activate, PanelAbort, Abort
<1> QED
  BY <1>1, <1>2, <1>3 DEF PanelStep

\* A call that ends in the first loop has its heater off or in the unsafe set.
LEMMA ReturnKeepsHeatOff ==
  ASSUME OrderInv, pc \in AwaitPc, NEW ok \in BOOLEAN, Return(ok),
         led' = led, touchedSetpoints' = touchedSetpoints,
         loose \subseteq loose' \cup {Mutation(op)},
         ok /\ stage = "heat" => Reached(op)
  PROVE  HeatOff'
<1> USE DEF OrderInv, PanelInv, IInv
<1>1. stage' = stage /\ todo' \in SUBSET todo
  BY ReturnTyped
<1>2. CASE stage = "heat"
  <2>1. op = DeviceOp(op.device, Off)
    BY <1>2 DEF LoopShape
  <2>2. todo' = todo \ {op.device}
    BY <1>2 DEF Return
  <2>3. ok => led[op.device] = "off"
    BY <1>2, <2>1, ReachedSteady DEF DeviceOp, Steady, On, Off
  <2>4. ~ok => unsafe' = unsafe \cup {op.device}
    BY <1>2 DEF Return
  <2>5. ok => unsafe' = unsafe
    BY <1>2 DEF Return
  <2> QED
    BY <1>1, <1>2, <2>1, <2>2, <2>3, <2>4, <2>5 DEF HeatOff, Mutation
<1>3. CASE stage = "setpoints"
  <2>1. op.kind = "setpoint"
    BY <1>3 DEF LoopShape, SetpointOp
  <2> QED
    BY <1>1, <1>3, <2>1 DEF HeatOff, Mutation
<1>4. CASE stage \notin {"heat", "setpoints"}
  BY <1>1, <1>4 DEF HeatOff
<1> QED
  BY <1>2, <1>3, <1>4

\* No step lets a heater come on between the first loop and the second.
LEMMA HeatOffStep ==
  ASSUME OrderInv, [Next]_vars
  PROVE  HeatOff'
<1> USE DEF OrderInv, PanelInv, IInv
<1>1. ASSUME UNCHANGED <<led, loose, loopVars>>,
             touchedSetpoints' = touchedSetpoints \/ stage # "heat"
      PROVE  HeatOff'
  BY <1>1 DEF HeatOff, loopVars
<1>2. CASE CaseStep
  BY <1>1, <1>2 DEF CaseStep, CaseSetDevice, CaseSetSetpoint, panelVars, ghostVars, TypeOK
<1>3. CASE Read \/ Settled
  <2>1. UNCHANGED <<led, touchedSetpoints>> /\ pc \in AwaitPc /\ op.kind = "device"
    BY <1>3 DEF Read, Settled, panelVars, touchVars, AwaitPc, CallPc, Phases
  <2>2. CASE (Goto("settle") \/ GotoPut) /\ UNCHANGED <<loopVars, ghostVars>>
    BY <1>1, <2>1, <2>2 DEF ghostVars
  <2>3. CASE ~Transitioning(op.device) /\ Enabled(op.device) = op.value
             /\ Observe(op) /\ Return(TRUE)
    BY <2>1, <2>3, ReturnKeepsHeatOff DEF Observe, Reached
  <2> QED
    BY <1>3, <2>2, <2>3 DEF Read, Settled, Compare
<1>4. CASE Put
  BY <1>1, <1>4 DEF Put, Accept, touchVars
<1>5. CASE PutUnanswered
  <2>1. pc \in AwaitPc /\ Return(FALSE) /\ led' = led /\ loose \subseteq loose'
        /\ touchedSetpoints' = touchedSetpoints
    BY <1>5 DEF PutUnanswered, Accept, touchVars, AwaitPc, CallPc
  <2> QED
    BY <2>1, ReturnKeepsHeatOff
<1>6. CASE SeeActive \/ SeeCompleted
  BY <1>1, <1>6 DEF SeeActive, SeeCompleted, panelVars, touchVars, ghostVars
<1>7. CASE Converge \/ Awaited
  <2>1. pc \in AwaitPc /\ Reached(op) /\ Observe(op) /\ Return(TRUE) /\ led' = led
        /\ touchedSetpoints' = touchedSetpoints
    BY <1>7 DEF Converge, Awaited, panelVars, touchVars, AwaitPc, CallPc, CheckPc, SentPc
  <2> QED
    BY <2>1, ReturnKeepsHeatOff DEF Observe
<1>8. CASE BeginRestore
  BY <1>8 DEF BeginRestore, HeatOff, touchVars
<1>9. ASSUME NEW d \in Device, VisitHeat(d) \/ VisitSetpoint(d) \/ VisitDevice(d)
      PROVE  HeatOff'
  BY <1>9 DEF VisitHeat, VisitSetpoint, VisitDevice, HeatOff, loopVars, panelVars,
     touchVars, ghostVars
<1>10. CASE HeatRead
  <2>1. /\ UNCHANGED <<led, loose, touchedSetpoints>>
        /\ \/ UNCHANGED loopVars
           \/ /\ Enabled(op.device) # On /\ todo' = todo \ {op.device}
              /\ stage' = stage /\ unsafe' = unsafe
    BY <1>10 DEF HeatRead, panelVars, touchVars, ghostVars
  <2>2. Enabled(op.device) # On => led[op.device] = "off"
    BY DEF Enabled
  <2> QED
    BY <1>1, <2>1, <2>2 DEF HeatOff
<1>11. CASE SetpointRead
  <2>1. pc \in AwaitPc /\ stage = "setpoints" /\ led' = led
    BY <1>11 DEF SetpointRead, LoopShape, panelVars, AwaitPc, CheckPc
  <2>2. CASE Observe(op) /\ Return(TRUE) /\ UNCHANGED touchedSetpoints
    BY <2>1, <2>2, ReturnKeepsHeatOff DEF Observe
  <2>3. CASE UNCHANGED <<loopVars, ghostVars>>
    BY <1>1, <2>1, <2>3 DEF ghostVars
  <2> QED
    BY <1>11, <2>2, <2>3 DEF SetpointRead
<1>12. CASE NextStage
  BY <1>12 DEF NextStage, LeaveLoop, SetpointWork, HeatOff, panelVars, touchVars, ghostVars
<1>13. CASE Check \/ CheckSettled
  <2>1. UNCHANGED <<led, touchedSetpoints>> /\ pc \in AwaitPc /\ op.kind = "device"
    BY <1>13 DEF Check, CheckSettled, panelVars, AwaitPc, CheckPc, Phases
  <2>2. CASE UNCHANGED <<loopVars, ghostVars>>
    BY <1>1, <2>1, <2>2 DEF ghostVars
  <2>3. CASE ~Transitioning(op.device) /\ Enabled(op.device) = op.value
             /\ Observe(op) /\ Return(TRUE)
    BY <2>1, <2>3, ReturnKeepsHeatOff DEF Observe, Reached
  <2> QED
    BY <1>13, <2>2, <2>3 DEF Check, CheckSettled, Decide
<1>14. CASE Fault
  <2>1. pc \in AwaitPc /\ Return(FALSE) /\ led' = led /\ loose \subseteq loose'
        /\ touchedSetpoints' = touchedSetpoints
    BY <1>14 DEF Fault, GiveUp, panelVars, touchVars
  <2> QED
    BY <2>1, ReturnKeepsHeatOff
<1>15. CASE Cancel
  BY <1>15 DEF Cancel, LeaveLoop, HeatOff
<1>16. CASE PanelStep
  <2>1. UNCHANGED <<loose, loopVars, touchedSetpoints>>
    BY <1>16 DEF PanelStep, PanelActivate, PanelPerform, PanelAbort, PanelSettle,
       touchVars, ghostVars
  <2>2. \A d \in Device : led'[d] = led[d] \/ At("device", d) \/ <<"device", d>> \in loose
    BY <1>16, LightMoves
  <2>3. stage = "heat" => \A d \in Device : At("device", d) => d \in todo
    BY DEF At, LoopShape, AwaitPc, CallPc
  <2>4. stage = "setpoints" => \A d \in Device : ~At("device", d)
    BY DEF At, LoopShape, SetpointOp, AwaitPc, CallPc
  <2>5. Heater \subseteq Device
    BY EquipmentAssumption
  <2> QED
    BY <2>1, <2>2, <2>3, <2>4, <2>5 DEF HeatOff, loopVars
<1>17. CASE UNCHANGED vars
  BY <1>1, <1>17 DEF vars, panelVars, touchVars, ghostVars
<1> QED
  BY <1>2, <1>3, <1>4, <1>5, <1>6, <1>7, <1>8, <1>9, <1>10, <1>11, <1>12, <1>13,
     <1>14, <1>15, <1>16, <1>17 DEF Next, CallStep, RestoreStep

\* The third loop keeps its order: only a visit chooses the device.
LEMMA InOrderStep ==
  ASSUME OrderInv, [Next]_vars
  PROVE  InOrder'
<1> USE DEF OrderInv, PanelInv, IInv
<1>1. CASE stage' # "devices" \/ pc' \notin AwaitPc
  BY <1>1 DEF InOrder
<1>2. CASE pc \in AwaitPc /\ UNCHANGED <<op, todo, stage, initial>>
  BY <1>2 DEF InOrder, RestorationOrder
<1>3. CASE CaseStep
  BY <1>1, <1>3 DEF CaseStep, CaseSetDevice, CaseSetSetpoint, loopVars, TypeOK
<1>4. ASSUME NEW ok \in BOOLEAN, Return(ok)
      PROVE  InOrder'
  BY <1>1, <1>4, ReturnTyped DEF AwaitPc, CallPc, CheckPc, SentPc
<1>5. CASE CallStep
  BY <1>2, <1>4, <1>5 DEF CallStep, Read, Settled, Compare, Goto, GotoPut, Put,
     PutUnanswered, SeeActive, SeeCompleted, Converge, loopVars, snapshotVars,
     AwaitPc, CallPc, SentPc
<1>6. CASE BeginRestore \/ NextStage
  BY <1>1, <1>6 DEF BeginRestore, NextStage, AwaitPc, CallPc, CheckPc, SentPc
<1>7. ASSUME NEW d \in Device, VisitHeat(d) \/ VisitSetpoint(d)
      PROVE  InOrder'
  BY <1>1, <1>7 DEF VisitHeat, VisitSetpoint, loopVars
<1>8. ASSUME NEW d \in Device, VisitDevice(d)
      PROVE  InOrder'
  <2>1. CASE AlreadyOff(d)
    BY <1>1, <1>8, <2>1 DEF VisitDevice, AwaitPc, CallPc, CheckPc, SentPc
  <2>2. CASE ~AlreadyOff(d)
    BY <1>8, <2>2 DEF VisitDevice, InOrder, RestorationOrder, DeviceOp, snapshotVars
  <2> QED
    BY <2>1, <2>2
<1>9. CASE HeatRead
  BY <1>1, <1>2, <1>9 DEF HeatRead, Goto, loopVars, snapshotVars, AwaitPc, CallPc,
     CheckPc, SentPc
<1>10. CASE SetpointRead \/ Check \/ CheckSettled \/ Awaited
  BY <1>2, <1>4, <1>10 DEF SetpointRead, Check, CheckSettled, Decide, Awaited, Goto,
     GotoPut, loopVars, snapshotVars, AwaitPc, CheckPc
<1>11. CASE Fault
  BY <1>4, <1>11 DEF Fault
<1>12. CASE Cancel
  BY <1>1, <1>12 DEF Cancel, LeaveLoop
<1>13. CASE PanelStep \/ UNCHANGED vars
  <2>1. UNCHANGED <<pc, op, todo, stage, initial>>
    BY <1>13 DEF PanelStep, PanelActivate, PanelPerform, PanelAbort, PanelSettle, vars,
       callVars, loopVars, snapshotVars
  <2> QED
    BY <2>1, <1>1, <1>2
<1> QED
  BY <1>3, <1>5, <1>6, <1>7, <1>8, <1>9, <1>10, <1>11, <1>12, <1>13 DEF Next, RestoreStep

\* What the loops want of a device that has one state to go back to.
LEMMA OneStateWanted ==
  ASSUME OrderInv, stage # "none", pc \in AwaitPc, op.kind = "device", OneState(op.device)
  PROVE  op.value = initial[op.device]
<1> USE DEF OrderInv, PanelInv, IInv
<1>1. CASE stage = "heat"
  BY <1>1 DEF LoopShape, Marks, OneState, DeviceOp
<1>2. CASE stage = "setpoints"
  BY <1>2 DEF LoopShape, SetpointOp
<1>3. CASE stage = "devices"
  BY <1>3 DEF LoopShape, DeviceOp
<1> QED
  BY <1>1, <1>2, <1>3 DEF TypeOK

\* Marks and history move together: a case clears both, Decide marks before a
\* request is sent, and Put notes the request it sends.
LEMMA MarksStep ==
  ASSUME OrderInv, [Next]_vars
  PROVE  Marks'
<1> USE DEF OrderInv, PanelInv, IInv
<1>0. op.kind \in Kind /\ op.device \in Device
  BY OpTyped
<1>1. ASSUME UNCHANGED <<requested, asked, initial>>,
             (stage' = stage /\ todo' \in SUBSET todo) \/ stage' # "heat",
             \/ stage' = "none" \/ pc' \notin {"read", "settle", "put"}
             \/ op'.kind # "device"
             \/ stage' = stage /\ op' = op /\ pc \in {"read", "settle", "put"}
      PROVE  Marks'
  BY <1>1 DEF Marks, OneState
<1>2. ASSUME NEW ok \in BOOLEAN, Return(ok), UNCHANGED <<requested, asked, initial>>
      PROVE  Marks'
  BY <1>1, <1>2, ReturnTyped
<1>3. CASE CaseStep
  <2>1. ASSUME NEW d \in Device, NEW v \in {Off, On}, CaseSetDevice(d, v)
        PROVE  Marks'
    BY <2>1 DEF CaseSetDevice, Mark, Marks, OneState, NotAsked, loopVars, snapshotVars,
       TypeOK, Unmarked
  <2>2. ASSUME NEW d \in Thermostat, NEW t \in Temp, CaseSetSetpoint(d, t)
        PROVE  Marks'
    BY <1>1, <2>2 DEF CaseSetSetpoint, loopVars, ghostVars, snapshotVars, SetpointOp
  <2> QED
    BY <1>3, <2>1, <2>2 DEF CaseStep
<1>4. CASE Read \/ Settled
  <2>1. UNCHANGED <<requested, initial>> /\ pc \in {"read", "settle"}
    BY <1>4 DEF Read, Settled, snapshotVars
  <2>2. CASE Observe(op) /\ Return(TRUE)
    BY <1>2, <2>1, <2>2 DEF Observe
  <2>3. CASE (Goto("settle") \/ GotoPut) /\ UNCHANGED <<loopVars, ghostVars>>
    BY <1>1, <2>1, <2>3 DEF Goto, GotoPut, loopVars, ghostVars
  <2> QED
    BY <1>4, <2>2, <2>3 DEF Read, Settled, Compare
<1>5. CASE Put \/ PutUnanswered
  <2>1. UNCHANGED <<requested, initial>> /\ pc = "put" /\ NoteRequest
    BY <1>5 DEF Put, PutUnanswered, snapshotVars
  <2>2. stage' = stage /\ todo' \in SUBSET todo /\ pc' \in {"active", "idle", "loop"}
    BY <1>5, ReturnTyped DEF Put, PutUnanswered, Goto, loopVars
  <2>3. \A d \in Device : asked'[d].id # 0 /\ OneState(d) => requested[d] = initial[d]
    <3> SUFFICES ASSUME NEW d \in Device, asked'[d].id # 0, OneState(d)
                 PROVE  requested[d] = initial[d]
      OBVIOUS
    <3>1. CASE asked'[d] = asked[d]
      BY <3>1 DEF Marks
    <3>2. CASE asked'[d] # asked[d]
      <4>1. d = op.device /\ stage # "none" /\ op.kind = "device"
        BY <3>2, <2>1 DEF NoteRequest, TypeOK
      <4> QED
        BY <4>1, <2>1 DEF Marks
    <3> QED
      BY <3>1, <3>2
  <2> QED
    BY <2>1, <2>2, <2>3 DEF Marks, OneState
<1>6. CASE SeeActive \/ SeeCompleted
  BY <1>1, <1>6 DEF SeeActive, SeeCompleted, Goto, loopVars, ghostVars, snapshotVars
<1>7. CASE Converge \/ Awaited
  BY <1>2, <1>7 DEF Converge, Awaited, Observe, snapshotVars
<1>8. CASE BeginRestore
  BY <1>8 DEF BeginRestore, Marks, OneState, ghostVars, snapshotVars
<1>9. ASSUME NEW d \in Device, VisitHeat(d) \/ VisitSetpoint(d) \/ VisitDevice(d)
      PROVE  Marks'
  BY <1>1, <1>9 DEF VisitHeat, VisitSetpoint, VisitDevice, loopVars, ghostVars,
     snapshotVars
<1>10. CASE HeatRead
  BY <1>1, <1>10 DEF HeatRead, Goto, loopVars, ghostVars, snapshotVars
<1>11. CASE SetpointRead
  <2>1. stage = "setpoints" /\ op.kind = "setpoint" /\ UNCHANGED <<requested, initial>>
    BY <1>11 DEF SetpointRead, LoopShape, SetpointOp, AwaitPc, CheckPc, snapshotVars
  <2>2. CASE Observe(op) /\ Return(TRUE)
    BY <1>2, <2>1, <2>2 DEF Observe
  <2>3. CASE GotoPut /\ UNCHANGED <<loopVars, ghostVars>>
    BY <1>1, <2>1, <2>3 DEF GotoPut, loopVars, ghostVars
  <2> QED
    BY <1>11, <2>2, <2>3 DEF SetpointRead
<1>12. CASE NextStage
  BY <1>1, <1>12 DEF NextStage, LeaveLoop, ghostVars, snapshotVars
<1>13. CASE Check \/ CheckSettled
  <2>1. /\ stage # "none" /\ pc \in AwaitPc /\ op.kind = "device" /\ initial' = initial
    BY <1>13 DEF Check, CheckSettled, TypeOK, Phases, AwaitPc, CheckPc, snapshotVars
  <2>2. CASE Observe(op) /\ Return(TRUE) /\ UNCHANGED requested
    BY <1>2, <2>1, <2>2 DEF Observe
  <2>3. CASE (Goto("checkSettle") \/ Goto("await")) /\ UNCHANGED requested
             /\ UNCHANGED <<loopVars, ghostVars>>
    BY <1>1, <2>1, <2>3 DEF Goto, loopVars, ghostVars
  <2>4. CASE requested[op.device] # op.value /\ Goto("read") /\ Mark(op.device, op.value)
             /\ UNCHANGED <<loopVars, ghostVars>>
    <3>1. OneState(op.device) => op.value = initial[op.device]
      BY <2>1, OneStateWanted
    <3>2. OneState(op.device) => asked[op.device].id = 0
      BY <3>1, <2>4, <1>0 DEF Marks
    <3>3. requested' = [requested EXCEPT ![op.device] = op.value]
      BY <2>4 DEF Mark
    <3> QED
      BY <3>1, <3>2, <3>3, <2>1, <2>4, <1>0 DEF Marks, OneState, Goto, loopVars,
         ghostVars, TypeOK
  <2> QED
    BY <1>13, <2>2, <2>3, <2>4 DEF Check, CheckSettled, Decide
<1>14. CASE Fault
  BY <1>2, <1>14 DEF Fault, GiveUp, snapshotVars
<1>15. CASE Cancel
  BY <1>1, <1>15 DEF Cancel, LeaveLoop, GiveUp, snapshotVars
<1>16. CASE PanelStep \/ UNCHANGED vars
  <2>1. UNCHANGED <<requested, asked, initial, stage, todo, pc, op>>
    BY <1>16 DEF PanelStep, PanelActivate, PanelPerform, PanelAbort, PanelSettle, vars,
       callVars, loopVars, ghostVars, snapshotVars
  <2> QED
    BY <1>1, <2>1
<1> QED
  BY <1>3, <1>4, <1>5, <1>6, <1>7, <1>8, <1>9, <1>10, <1>11, <1>12, <1>13, <1>14,
     <1>15, <1>16 DEF Next, CallStep, RestoreStep

-----------------------------------------------------------------------------
\* Every behaviour satisfies the strengthened invariant.
THEOREM OrderInvariance == Spec => []OrderInv
<1>1. OrderInv /\ [Next]_vars => OrderInv'
  BY PanelInvStep, HeatOffStep, InOrderStep, MarksStep DEF OrderInv
<1> QED
  BY <1>1, InitOrderInv, PTL DEF Spec

\* What leaves the touched sets was restored: for any devices and any pattern of
\* failures, what restore() no longer counts as pending is in its initial state
\* with nothing queued for it, unless the validator had given up on a request.
THEOREM RestoredCorrect == Spec => []RestoredIsInitial
<1>1. OrderInv => RestoredIsInitial
  <2> SUFFICES ASSUME OrderInv PROVE RestoredIsInitial
    OBVIOUS
  <2> USE DEF OrderInv, PanelInv, IInv
  <2>1. ASSUME NEW d \in Device, d \notin touchedDevices, <<"device", d>> \notin loose
        PROVE  led[d] = Steady(initial[d]) /\ \A r \in queue : r.kind = "device" => r.device # d
    <3>1. <<"device", d>> \notin unverified
      BY <2>1 DEF MutationsStayPending
    <3>2. ~At("device", d)
      BY <2>1 DEF At, CallsTouch, CallPc
    <3> QED
      BY <2>1, <3>1, <3>2 DEF Verified, Attended, Pending, Kind
  <2>2. ASSUME NEW d \in Thermostat, d \notin touchedSetpoints, <<"setpoint", d>> \notin loose
        PROVE  setpoint[d] = initialSetpoint[d]
               /\ \A r \in queue : r.kind = "setpoint" => r.device # d
    <3>1. d \in Device /\ <<"setpoint", d>> \notin unverified
      BY <2>2, EquipmentAssumption DEF MutationsStayPending
    <3>2. ~At("setpoint", d)
      BY <2>2 DEF At, CallsTouch, CallPc
    <3> QED
      BY <2>2, <3>1, <3>2 DEF Verified, Attended, Pending, Kind
  <2> QED
    BY <2>1, <2>2 DEF RestoredIsInitial
<1> QED
  BY <1>1, OrderInvariance, PTL

\* No heater's setpoint is raised under a heater that is on, unless a request
\* for the heater that the validator had given up on turned it on.
THEOREM RaisedCorrect == Spec => []RaisedOnlyWhenOff
<1>1. OrderInv => RaisedOnlyWhenOff
  BY DEF OrderInv, PanelInv, IInv, HeatOff, LoopShape, RaisedOnlyWhenOff, AwaitPc, CallPc
<1> QED
  BY <1>1, OrderInvariance, PTL

\* The ranks of the devices that the order is about.
LEMMA Ranks ==
  ASSUME NEW d \in Device, initial[d] \in {Off, On}
  PROVE  /\ initial[d] = Off /\ d \in Heater => RestorationOrder(d) = 0
         /\ initial[d] = Off /\ d \in SpaMode => RestorationOrder(d) = 2
         /\ initial[d] = Off /\ d = FilterPump => RestorationOrder(d) = 3
         /\ initial[d] = On /\ d = FilterPump => RestorationOrder(d) = 4
         /\ initial[d] = On /\ d \in SpaMode => RestorationOrder(d) = 5
         /\ initial[d] = On /\ d \in Heater => RestorationOrder(d) = 7
<1>1. CASE initial[d] = Off
  BY <1>1, EquipmentAssumption DEF RestorationOrder, Off, On
<1>2. CASE initial[d] = On
  BY <1>2, EquipmentAssumption DEF RestorationOrder, Off, On
<1> QED
  BY <1>1, <1>2

\* Circulation is stopped after the heaters are off, and heat is asked for after
\* circulation and water mode are on, for every set of devices.
THEOREM OrderCorrect == Spec => []DependencyOrder
<1>1. OrderInv => DependencyOrder
  <2> SUFFICES ASSUME OrderInv, pc = "put", stage = "devices", NEW d \in touchedDevices,
                      ~failed, <<"device", d>> \notin loose,
                      \/ op.device = FilterPump /\ op.value = Off
                           /\ d \in Heater \cup SpaMode /\ initial[d] = Off
                      \/ op.device \in Heater /\ op.value = On
                           /\ d \in SpaMode \cup {FilterPump} /\ initial[d] = On
               PROVE  led[d] = Steady(initial[d])
    BY DEF DependencyOrder
  <2> USE DEF OrderInv, PanelInv, IInv
  <2>1. d \in Device /\ op.device \in Device
    BY OpTyped DEF TypeOK
  <2>2. initial[d] \in {Off, On} /\ initial[op.device] \in {Off, On}
    BY <2>1 DEF TypeOK
  <2>3. op.value = initial[op.device] /\ pc \in AwaitPc
    BY DEF LoopShape, DeviceOp, AwaitPc, CallPc
  <2>4. ~(RestorationOrder(op.device) <= RestorationOrder(d))
    BY <2>1, <2>2, <2>3, Ranks
  <2>5. d \notin todo
    BY <2>3, <2>4 DEF InOrder
  <2>6. <<"device", d>> \notin unverified
    BY <2>1, <2>5 DEF LoopProgress
  <2> QED
    BY <2>1, <2>6 DEF Verified
<1> QED
  BY <1>1, OrderInvariance, PTL

\* Restoration never repeats the toggle its own last request still holds in the
\* queue, for every device that has one state to go back to.
THEOREM NoToggleTwice == Spec => []NoDuplicateToggle
<1>1. OrderInv => NoDuplicateToggle
  <2> SUFFICES ASSUME OrderInv, pc = "put", stage # "none", op.kind = "device",
                      OneState(op.device), NEW r \in queue
               PROVE  r.id # asked[op.device].id
    BY DEF NoDuplicateToggle, OneState
  <2> USE DEF OrderInv, PanelInv, IInv
  <2>1. asked[op.device].id = 0
    BY DEF Marks
  <2>2. r \in Requests
    BY DEF TypeOK, PanelTypeOK
  <2>3. r.id \in 1 .. MaxRequests
    BY <2>2 DEF Requests, Request
  <2> QED
    BY <2>1, <2>3
<1> QED
  BY <1>1, OrderInvariance, PTL
=============================================================================
