------------------------ MODULE PythonTargets_proofs ------------------------
(***************************************************************************)
(* Proofs about PythonTargets, for every set of targets: any number of     *)
(* cases and devices.                                                      *)
(***************************************************************************)
EXTENDS PythonTargets, TLAPS

\* A forced synchronization runs with the real process clock, and a programmer
\* whose marker it has read started with it.
ClockInv ==
  /\ offset \in {"real", "shifted"} /\ owed \in BOOLEAN
  /\ await \in ClockAwait
  /\ lines # {} => await \in SyncAwait
  /\ await \in SyncAwait => offset = "real"
  /\ "active" \in lines => writing \subseteq {"real"}
  /\ await \in {"finished", "converge"} => "active" \in lines
  /\ ClockRestored

LEMMA ClockInitially ==
  ASSUME NEW timed \in BOOLEAN, ClockInit(timed)
  PROVE  ClockInv
BY DEF ClockInit, ClockInv, ClockRestored, SyncAwait, ClockAwait

\* Only a step that begins leaves a synchronization's await for an earlier one;
\* it is taken when none is under way.
ClockStep ==
  \/ ProgrammerStarts \/ ProgrammerEnds
  \/ await = "none" /\ (Watch \/ ForceSync)
  \/ Followed \/ Observed \/ SyncStep \/ Synchronized \/ ClockFails
  \/ UNCHANGED clockVars

LEMMA ClockKeeps ==
  ASSUME ClockInv, ClockStep
  PROVE  ClockInv'
<1> USE DEF ClockInv, ClockRestored, SyncAwait, ClockAwait
<1>1. CASE ProgrammerStarts
  BY <1>1 DEF ProgrammerStarts
<1>2. CASE ProgrammerEnds
  BY <1>2 DEF ProgrammerEnds
<1>3. CASE await = "none" /\ Watch
  BY <1>3 DEF Watch
<1>4. CASE Followed
  BY <1>4 DEF Followed
<1>5. CASE Observed \/ (await = "none" /\ ForceSync)
  BY <1>5 DEF Observed, ForceSync
<1>6. CASE SyncStep
  BY <1>6 DEF SyncStep
<1>7. CASE Synchronized
  BY <1>7 DEF Synchronized
<1>8. CASE ClockFails
  BY <1>8 DEF ClockFails
<1>9. CASE UNCHANGED clockVars
  BY <1>9 DEF clockVars
<1> QED
  BY <1>1, <1>2, <1>3, <1>4, <1>5, <1>6, <1>7, <1>8, <1>9 DEF ClockStep

-----------------------------------------------------------------------------
DevicePc == {"put", "confirm", "converge", "read"}

DeviceOp == [kind : {"device"}, device : Device, value : {Off, On}]

\* Where the scenario stands fits the case or the cleanup it is in.
Control ==
  /\ target \in Targets
  /\ index \in Nat \ {0}
  /\ pc \in {"next", "init", "look", "clock", "over"} \cup DevicePc
  /\ part \in {"cases", "devices", "clock", "over"}
  /\ initial \in [Device -> {Off, On}]
  /\ op \in DeviceOp
  /\ pc = "clock" <=> await # "none"
  /\ pc = "over" <=> part = "over"
  /\ part = "cases" /\ pc # "next" =>
       /\ index \in DOMAIN target.cases
       /\ Case = IF pc \in DevicePc THEN op.device ELSE IF pc = "clock" THEN "time" ELSE pc
  /\ pc \in {"init", "look"} => part = "cases"
  /\ pc = "clock" => part \in {"cases", "clock"}
  /\ pc \in DevicePc => part \in {"cases", "devices"}

\* Nothing is touched before the snapshot is known, nor by a PDA target.
TouchedKnown ==
  /\ part = "cases" /\ index > 1 => known
  /\ part = "cases" /\ index = 1 => touched = {}
  /\ touched # {} => known
  /\ target.protocol = "pda" => touched = {}

\* The device of a request is touched, and still to be restored.
Bookkeeping ==
  /\ UnverifiedTouched
  /\ pc \in DevicePc => op.device \in touched
  /\ pc \in DevicePc /\ part = "devices" => op.device \in todo
  /\ part = "devices" => todo \subseteq touched /\ (errors \/ unverified \subseteq todo)
  /\ part = "clock" => errors \/ unverified = {}
  /\ EndsRestored

TargetInv == ClockInv /\ Control /\ TouchedKnown /\ Bookkeeping

LEMMA TargetInitially == TargetInit => TargetInv
<1> SUFFICES ASSUME TargetInit PROVE TargetInv
  OBVIOUS
<1>1. target \in Targets /\ target.timed \in BOOLEAN
  BY TargetsAssumption DEF TargetInit
<1>2. ClockInv
  BY <1>1, ClockInitially DEF TargetInit
<1>3. Control
  BY <1>1, EquipmentAssumption
  DEF TargetInit, ClockInit, Control, DevicePc, DeviceOp, NoOp, Enabled, Off, On
<1>4. TouchedKnown /\ Bookkeeping
  BY DEF TargetInit, TouchedKnown, Bookkeeping, UnverifiedTouched, EndsRestored, DevicePc
<1> QED
  BY <1>2, <1>3, <1>4 DEF TargetInv

\* What the assumption on the targets says of the case at hand.
LEMMA CaseFacts ==
  ASSUME target \in Targets, index \in DOMAIN target.cases
  PROVE  /\ target.protocol \in {"rs", "pda"}
         /\ Case = "init" <=> index = 1
         /\ Case \in Device => target.protocol = "rs" /\ Case \notin Plain
BY TargetsAssumption DEF Case

LEMMA IndexInCases ==
  ASSUME target \in Targets, index \in Nat \ {0}, index <= Len(target.cases)
  PROVE  index \in DOMAIN target.cases
BY TargetsAssumption

\* The three parts of the invariant but for the clock.
LoopInv == Control /\ TouchedKnown /\ Bookkeeping

\* Whatever a case did, its end keeps the invariant if it kept the books.
LEMMA CaseEndKeeps ==
  ASSUME LoopInv, part = "cases", pc # "next", NEW o \in Outcome, EndCase(o),
         target' = target, initial' \in [Device -> {Off, On}], (await = "none")',
         o = "ok" \/ index > 1 => known',
         touched' \subseteq touched, touched' # {} => known', UnverifiedTouched'
  PROVE  LoopInv'
<1> USE DEF LoopInv, Control, TouchedKnown
<1>1. /\ target.protocol \in {"rs", "pda"}
      /\ Case = "init" <=> index = 1
      /\ index = 1 => touched = {}
  BY CaseFacts
<1>2. CASE NextCase /\ (o = "ok" \/ index > 1)
  BY <1>2 DEF NextCase, DevicePc, Bookkeeping, EndsRestored
<1>3. CASE \E r \in {"no", "cancelled"} : Leave(r)
  <2>1. target.protocol = "pda" => unverified' = {}
    BY DEF UnverifiedTouched
  <2>2. target.protocol = "rs" => todo' = touched'
    BY <1>3 DEF Leave
  <2>3. Control' /\ TouchedKnown'
    BY <1>1, <1>3 DEF Leave, DevicePc
  <2>4. Bookkeeping'
    BY <1>1, <1>3, <2>1, <2>2 DEF Leave, DevicePc, Bookkeeping, EndsRestored, UnverifiedTouched
  <2> QED
    BY <2>3, <2>4
<1> QED
  BY <1>1, <1>2, <1>3 DEF EndCase, Outcome

-----------------------------------------------------------------------------
LEMMA CaseStepKeeps == TargetInv /\ CaseStep => TargetInv'
<1> SUFFICES ASSUME TargetInv, CaseStep PROVE TargetInv'
  OBVIOUS
<1> USE DEF TargetInv, LoopInv, Control, TouchedKnown, factVars, restVars, endVars, ghostVars
<1>1. CASE StartPlain
  <2>1. PICK c \in {"init", "look"} : Starts(c) /\ pc' = c
    BY <1>1 DEF StartPlain
  <2>2. ClockInv'
    BY <1>1, ClockKeeps DEF StartPlain, ClockStep
  <2>3. Control' /\ TouchedKnown'
    BY <1>1, <2>1, IndexInCases DEF StartPlain, Starts, Case, clockVars, DevicePc
  <2>4. Bookkeeping'
    BY <1>1, <2>1
    DEF StartPlain, Starts, Bookkeeping, UnverifiedTouched, EndsRestored, DevicePc
  <2> QED
    BY <2>2, <2>3, <2>4
<1>2. CASE StartTime
  <2>1. ClockInv'
    BY <1>2, ClockKeeps DEF StartTime, Starts, ClockStep
  <2>2. Control' /\ TouchedKnown'
    BY <1>2, IndexInCases DEF StartTime, Starts, Watch, Case, DevicePc
  <2>3. Bookkeeping'
    BY <1>2 DEF StartTime, Starts, Bookkeeping, UnverifiedTouched, EndsRestored, DevicePc
  <2> QED
    BY <2>1, <2>2, <2>3
<1>3. CASE CasesDone
  <2>1. ClockInv'
    BY <1>3, ClockKeeps DEF CasesDone, ClockStep
  <2>2. target.protocol \in {"rs", "pda"}
    BY TargetsAssumption
  <2>3. Control' /\ TouchedKnown'
    BY <1>3, <2>2 DEF CasesDone, Leave, Case, clockVars, DevicePc
  <2>4. Bookkeeping'
    BY <1>3, <2>2
    DEF CasesDone, Leave, Bookkeeping, UnverifiedTouched, EndsRestored, DevicePc
  <2> QED
    BY <2>1, <2>3, <2>4
<1>4. ASSUME NEW d \in Device, StartDevice(d) PROVE TargetInv'
  <2>1. ClockInv'
    BY <1>4, ClockKeeps DEF StartDevice, ClockStep
  <2>2. /\ index \in DOMAIN target.cases /\ Case = d
        /\ index # 1 /\ target.protocol = "rs"
    BY <1>4, IndexInCases, CaseFacts DEF StartDevice, Starts, Plain
  <2>3. op' \in DeviceOp /\ op'.device = d
    BY <1>4 DEF StartDevice, DeviceOp, Off, On
  <2>4. Control' /\ TouchedKnown'
    BY <1>4, <2>2, <2>3 DEF StartDevice, Starts, Touch, Case, clockVars, DevicePc
  <2>5. Bookkeeping'
    BY <1>4, <2>3
    DEF StartDevice, Starts, Touch, Bookkeeping, UnverifiedTouched, EndsRestored, DevicePc
  <2> QED
    BY <2>1, <2>4, <2>5
<1>5. ASSUME NEW o \in Outcome, Initialized(o) PROVE TargetInv'
  <2>1. ClockInv'
    BY <1>5, ClockKeeps DEF Initialized, ClockStep
  <2>2. index = 1 /\ part = "cases"
    BY <1>5, CaseFacts DEF Initialized, DevicePc
  <2>3. unverified' = {} /\ touched' = {}
    BY <1>5, <2>2 DEF Initialized, Bookkeeping, UnverifiedTouched
  <2>4. initial' \in [Device -> {Off, On}]
    BY <1>5 DEF Initialized, Enabled
  <2>5. LoopInv'
    <3>1. pc # "next" /\ EndCase(o) /\ target' = target
      BY <1>5 DEF Initialized
    <3>2. (await = "none")'
      BY <1>5 DEF Initialized, clockVars
    <3>3. o = "ok" \/ index > 1 => known'
      BY <1>5, <2>2 DEF Initialized
    <3> QED
      BY <2>2, <2>3, <2>4, <3>1, <3>2, <3>3, CaseEndKeeps DEF UnverifiedTouched
  <2> QED
    BY <2>1, <2>5
<1>6. ASSUME NEW o \in Outcome, Looked(o) PROVE TargetInv'
  <2>1. ClockInv'
    BY <1>6, ClockKeeps DEF Looked, ClockStep
  <2>2. index > 1 /\ part = "cases"
    BY <1>6, CaseFacts DEF Looked, DevicePc
  <2>3. LoopInv'
    BY <1>6, <2>2, CaseEndKeeps DEF Looked, clockVars, Bookkeeping, UnverifiedTouched
  <2> QED
    BY <2>1, <2>3
<1> QED
  BY <1>1, <1>2, <1>3, <1>4, <1>5, <1>6 DEF CaseStep

-----------------------------------------------------------------------------
\* The end of a device's restoration keeps the invariant, whether it is a case
\* or part of the cleanup: only a success takes the device off the lists, and it
\* has seen the device restored.
LEMMA VisitKeeps ==
  ASSUME LoopInv, pc \in DevicePc, NEW o \in Outcome, Visited(o),
         target' = target, initial' = initial, await' = await,
         unverified' \subseteq unverified \cup {op.device},
         o = "ok" => op.device \notin unverified'
  PROVE  LoopInv'
<1> USE DEF LoopInv, Control, TouchedKnown
<1>1. await = "none" /\ op.device \in touched /\ known /\ unverified \subseteq touched
  BY DEF DevicePc, Bookkeeping, UnverifiedTouched
<1>2. CASE part = "cases"
  <2>1. pc # "next" /\ Case = op.device /\ op.device \in Device
    BY <1>2 DEF DevicePc, DeviceOp
  <2>2. index > 1
    BY <1>2, <2>1, CaseFacts DEF Plain
  <2>3. /\ EndCase(o) /\ known' = known
        /\ touched' = IF o = "ok" THEN touched \ {op.device} ELSE touched
    BY <1>2 DEF Visited
  <2>4. UnverifiedTouched'
    BY <1>1, <2>3 DEF UnverifiedTouched
  <2> QED
    BY <1>1, <1>2, <2>1, <2>2, <2>3, <2>4, CaseEndKeeps
<1>3. CASE part = "devices"
  <2>1. Control' /\ TouchedKnown'
    BY <1>1, <1>3 DEF Visited, DevicePc
  <2>2. Bookkeeping'
    BY <1>1, <1>3
    DEF Visited, Bookkeeping, UnverifiedTouched, EndsRestored, DevicePc, Outcome
  <2> QED
    BY <2>1, <2>2
<1> QED
  BY <1>2, <1>3

LEMMA DeviceStepKeeps == TargetInv /\ DeviceStep => TargetInv'
<1> SUFFICES ASSUME TargetInv, DeviceStep PROVE TargetInv'
  OBVIOUS
<1>1. ClockInv'
  <2>1. UNCHANGED clockVars
    BY DEF DeviceStep, Put, Confirmed, Converged, ReadCurrent, Interrupted, PutUnanswered
  <2> QED
    BY <2>1, ClockKeeps DEF ClockStep, TargetInv
<1> USE DEF TargetInv, LoopInv, factVars, restVars, endVars, ghostVars
<1>2. CASE Put \/ Confirmed
  <2>1. Control' /\ TouchedKnown'
    BY <1>2 DEF Put, Confirmed, Control, TouchedKnown, Case, clockVars, DevicePc
  <2>2. Bookkeeping'
    BY <1>2 DEF Put, Confirmed, Control, Bookkeeping, UnverifiedTouched, EndsRestored, DevicePc
  <2> QED
    BY <1>1, <2>1, <2>2
<1>3. ASSUME NEW o \in Outcome, pc \in DevicePc, Visited(o),
             target' = target, initial' = initial, await' = await,
             \/ o = "ok" /\ SeenRestored
             \/ o # "ok" /\ unverified' \subseteq unverified \cup {op.device}
      PROVE  TargetInv'
  BY <1>1, <1>3, VisitKeeps DEF SeenRestored
<1>4. ASSUME pc \in DevicePc, part' = part, target' = target, initial' = initial,
             await' = await, pc' \in DevicePc, op' \in DeviceOp,
             op'.device = op.device,
             UNCHANGED <<index, todo, errors, status, raised, file, cut, known, touched,
                         unverified>>
      PROVE  TargetInv'
  <2>1. Control' /\ TouchedKnown'
    BY <1>4 DEF Control, TouchedKnown, Case, DevicePc
  <2>2. Bookkeeping'
    BY <1>4 DEF Control, Bookkeeping, UnverifiedTouched, EndsRestored, DevicePc
  <2> QED
    BY <1>1, <2>1, <2>2
<1>5. CASE Converged
  <2>1. CASE Restoring
    BY <1>3, <1>5, <2>1 DEF Converged, clockVars, DevicePc, Outcome
  <2>2. CASE ~Restoring
    <3>1. op' \in DeviceOp /\ op'.device = op.device
      BY <1>5, <2>2 DEF Converged, Control, DeviceOp
    <3> QED
      BY <1>4, <1>5, <2>2, <3>1 DEF Converged, clockVars, DevicePc
  <2> QED
    BY <2>1, <2>2
<1>6. CASE ReadCurrent
  <2>1. CASE Enabled(op.device) = op.value
    BY <1>3, <1>6, <2>1 DEF ReadCurrent, clockVars, DevicePc, Outcome
  <2>2. CASE Enabled(op.device) # op.value
    <3>1. op' \in DeviceOp /\ op'.device = op.device
      BY <1>6, <2>2 DEF ReadCurrent, Control
    <3> QED
      BY <1>4, <1>6, <2>2, <3>1 DEF ReadCurrent, clockVars, DevicePc
  <2> QED
    BY <2>1, <2>2
<1>7. ASSUME NEW o \in Outcome, Interrupted(o) \/ PutUnanswered(o) PROVE TargetInv'
  BY <1>3, <1>7 DEF Interrupted, PutUnanswered, clockVars, DevicePc
<1> QED
  BY <1>2, <1>5, <1>6, <1>7 DEF DeviceStep

-----------------------------------------------------------------------------
\* The scenario ends with everything put back, or says otherwise.
LEMMA FinishKeeps ==
  ASSUME LoopInv, part = "clock", NEW o \in Outcome, Finish(o),
         UNCHANGED <<factVars, touched, unverified>>, (await = "none")',
         o = "ok" => ~owed'
  PROVE  LoopInv'
<1>1. Control' /\ TouchedKnown'
  BY DEF LoopInv, Control, TouchedKnown, Finish, factVars, DevicePc
<1>2. EndsRestored'
  <2>1. errors \/ unverified = {}
    BY DEF LoopInv, Bookkeeping
  <2>2. target.protocol \in {"rs", "pda"}
    BY TargetsAssumption DEF LoopInv, Control
  <2>3. CASE o = "ok"
    BY <2>1, <2>2, <2>3 DEF Finish, EndsRestored, factVars
  <2>4. CASE o = "cancel"
    BY <2>4 DEF Finish, EndsRestored
  <2>5. CASE o = "failure"
    BY <2>2, <2>5 DEF Finish, EndsRestored
  <2> QED
    BY <2>3, <2>4, <2>5 DEF Outcome
<1>3. Bookkeeping'
  BY <1>2 DEF LoopInv, Bookkeeping, UnverifiedTouched, Finish, DevicePc
<1> QED
  BY <1>1, <1>3 DEF LoopInv

LEMMA CleanupStepKeeps == TargetInv /\ CleanupStep => TargetInv'
<1> SUFFICES ASSUME TargetInv, CleanupStep PROVE TargetInv'
  OBVIOUS
<1> USE DEF TargetInv, LoopInv, factVars, restVars, endVars, ghostVars
<1>1. ASSUME NEW d \in Device, VisitDevice(d) PROVE TargetInv'
  <2>1. ClockInv'
    BY <1>1, ClockKeeps DEF VisitDevice, ClockStep
  <2>2. op' \in DeviceOp /\ op'.device = d
    BY <1>1 DEF VisitDevice, DeviceOp, Control
  <2>3. Control' /\ TouchedKnown'
    BY <1>1, <2>2 DEF VisitDevice, Control, TouchedKnown, clockVars, DevicePc
  <2>4. Bookkeeping'
    BY <1>1, <2>2
    DEF VisitDevice, Control, Bookkeeping, UnverifiedTouched, EndsRestored, DevicePc
  <2> QED
    BY <2>1, <2>3, <2>4
<1>2. CASE DevicesDone
  <2>1. ClockInv'
    BY <1>2, ClockKeeps DEF DevicesDone, ClockStep
  <2>2. Control' /\ TouchedKnown'
    BY <1>2 DEF DevicesDone, Control, TouchedKnown, clockVars, DevicePc
  <2>3. Bookkeeping'
    BY <1>2
    DEF DevicesDone, Control, Bookkeeping, UnverifiedTouched, EndsRestored, DevicePc
  <2> QED
    BY <2>1, <2>2, <2>3
<1>3. CASE ClockSkipped
  <2>1. ClockInv'
    BY <1>3, ClockKeeps DEF ClockSkipped, ClockStep
  <2>2. (await = "none")'
    BY <1>3 DEF ClockSkipped, Control, clockVars
  <2>3. PICK o \in {"ok", "failure"} : Finish(o) /\ (o = "ok" => ~owed)
    BY <1>3 DEF ClockSkipped
  <2>4. LoopInv'
    BY <1>3, <2>2, <2>3, FinishKeeps DEF ClockSkipped, clockVars, Outcome
  <2> QED
    BY <2>1, <2>4
<1>4. CASE ClockBegins
  <2>1. await = "none"
    BY <1>4 DEF ClockBegins, Control
  <2>2. ClockInv'
    BY <1>4, <2>1, ClockKeeps DEF ClockBegins, ClockStep
  <2>3. Control' /\ TouchedKnown'
    BY <1>4 DEF ClockBegins, ForceSync, Control, TouchedKnown, DevicePc
  <2>4. Bookkeeping'
    BY <1>4 DEF ClockBegins, Control, Bookkeeping, UnverifiedTouched, EndsRestored, DevicePc
  <2> QED
    BY <2>2, <2>3, <2>4
<1>5. CASE ClockGoesOn
  <2>1. ClockInv'
    BY <1>5, ClockKeeps DEF ClockGoesOn, ClockStep
  <2>2. await # "none" /\ (await # "none")' /\ owed' = owed
    BY <1>5 DEF ClockGoesOn, Followed, Observed, ForceSync, SyncStep
  <2>3. Control' /\ TouchedKnown'
    BY <1>5, <2>2 DEF ClockGoesOn, loopVars, Control, TouchedKnown, Case, DevicePc
  <2>4. Bookkeeping'
    BY <1>5, <2>2
    DEF ClockGoesOn, loopVars, Bookkeeping, UnverifiedTouched, EndsRestored, DevicePc
  <2> QED
    BY <2>1, <2>3, <2>4
<1>6. ASSUME NEW o \in Outcome, ClockEnds(o) PROVE TargetInv'
  <2>1. /\ Synchronized \/ ClockFails
        /\ o = "ok" => ~owed'
    BY <1>6 DEF ClockEnds, Synchronized
  <2>2. ClockInv'
    BY <2>1, ClockKeeps DEF ClockStep
  <2>3. pc = "clock" /\ (await = "none")'
    BY <2>1 DEF Synchronized, ClockFails, Control
  <2>4. CASE part = "cases"
    <3>1. index > 1
      BY <2>3, <2>4, CaseFacts DEF Control, DevicePc
    <3>2. EndCase(o) /\ UNCHANGED <<target, initial, known, touched, unverified>>
      BY <1>6, <2>4 DEF ClockEnds
    <3>3. LoopInv'
      BY <2>3, <2>4, <3>1, <3>2, CaseEndKeeps
      DEF Control, TouchedKnown, Bookkeeping, UnverifiedTouched
    <3> QED
      BY <2>2, <3>3
  <2>5. CASE part # "cases"
    <3>1. part = "clock" /\ Finish(o)
      BY <1>6, <2>3, <2>5 DEF ClockEnds, Control
    <3>2. LoopInv'
      BY <1>6, <2>1, <2>3, <3>1, FinishKeeps DEF ClockEnds
    <3> QED
      BY <2>2, <3>2
  <2> QED
    BY <2>4, <2>5
<1> QED
  BY <1>1, <1>2, <1>3, <1>4, <1>5, <1>6 DEF CleanupStep

\* What AqualinkD and the panel do on their own.
LEMMA ElsewhereKeeps ==
  TargetInv /\ (PanelStep \/ ProgrammerStep \/ UNCHANGED targetVars) => TargetInv'
<1> SUFFICES ASSUME TargetInv, PanelStep \/ ProgrammerStep \/ UNCHANGED targetVars
             PROVE  TargetInv'
  OBVIOUS
<1> USE DEF TargetInv, factVars, loopVars, endVars, ghostVars
<1>1. ClockInv' /\ await' = await /\ owed' = owed
  <2>1. CASE ProgrammerStep
    BY <2>1, ClockKeeps DEF ProgrammerStep, ProgrammerStarts, ProgrammerEnds, ClockStep
  <2>2. CASE UNCHANGED clockVars
    BY <2>2, ClockKeeps DEF ClockStep, clockVars
  <2> QED
    BY <2>1, <2>2 DEF PanelStep, targetVars
<1>2. UNCHANGED <<factVars, touched, loopVars, unverified>>
  BY DEF PanelStep, ProgrammerStep, targetVars
<1>3. Control' /\ TouchedKnown'
  BY <1>1, <1>2 DEF Control, TouchedKnown, Case, DevicePc
<1>4. Bookkeeping'
  BY <1>1, <1>2 DEF Bookkeeping, UnverifiedTouched, EndsRestored, DevicePc
<1> QED
  BY <1>1, <1>3, <1>4

-----------------------------------------------------------------------------
LEMMA TargetInvariant == TargetSpec => []TargetInv
<1>1. TargetInv /\ [TargetNext]_targetVars => TargetInv'
  BY CaseStepKeeps, DeviceStepKeeps, CleanupStepKeeps, ElsewhereKeeps DEF TargetNext
<1> QED
  BY <1>1, TargetInitially, PTL DEF TargetSpec

\* Every target that stops owing real time leaves the panel with it for good,
\* whatever AqualinkD's programmer had begun before.
THEOREM ClockStaysRestored == TargetSpec => []ClockRestored
<1>1. TargetInv => ClockRestored
  BY DEF TargetInv, ClockInv
<1> QED
  BY <1>1, TargetInvariant, PTL

\* Whatever fails, is lost or is cancelled, _touched holds every device that was
\* sent a request and not since seen in its initial state.
THEOREM TouchedIsComplete == TargetSpec => []UnverifiedTouched
<1>1. TargetInv => UnverifiedTouched
  BY DEF TargetInv, Bookkeeping
<1> QED
  BY <1>1, TargetInvariant, PTL

\* A scenario that ends has put back its devices and the clock, or has recorded
\* or raised an error, or was cancelled once more while it restored.
THEOREM ScenarioEndsRestored == TargetSpec => []EndsRestored
<1>1. TargetInv => EndsRestored
  BY DEF TargetInv, Bookkeeping
<1> QED
  BY <1>1, TargetInvariant, PTL

-----------------------------------------------------------------------------
(* What the panel may still do.                                            *)

\* The requests for a device that AqualinkD still holds.
Held(d) == {r \in queue : r.device = d}

\* The scenario awaits the effect of its request for the device.
Awaits(d) == pc \in {"confirm", "converge"} /\ op.device = d

PanelShape ==
  /\ led \in [Device -> {"off", "on", "turningOn", "turningOff"}]
  /\ running \subseteq queue
  /\ \A r \in queue : r.kind = "device" /\ r.device \in Device /\ r.value \in {Off, On}

\* What the scenario has not given up on moves only while it waits for it.
Attended ==
  \A d \in Device : d \notin loose /\ ~Awaits(d) => Held(d) = {} /\ ~Transitioning(d)

\* As long as its only request waits, it cannot be taken for done.
Unreached ==
  pc \in {"put", "confirm", "converge"} /\ op.device \notin loose =>
    /\ \A r, s \in Held(op.device) : r = s
    /\ pc = "put" \/ Held(op.device) # {} =>
         ~Transitioning(op.device) /\ Enabled(op.device) # op.value

\* What was seen restored stays so.
Verified ==
  \A d \in Device : d \notin unverified \cup loose => led[d] = Steady(initial[d])

\* A case leaves nothing to restore, or it is the last; what is read or restored
\* is the initial state; an RS report of success is written at the very end.
Tidy ==
  /\ part = "cases" => loose = {} /\ (pc \notin DevicePc => unverified = {})
  /\ part = "cases" /\ pc \in DevicePc => unverified \subseteq {op.device}
  /\ pc \in {"confirm", "converge"} => op.device \in unverified
  /\ pc = "read" \/ (pc \in DevicePc /\ part = "devices") => Restoring
  /\ target.protocol = "rs" /\ file = "safe" =>
       part = "over" /\ ~errors /\ raised = "no" /\ ~cut

PanelInv == PanelShape /\ Attended /\ Unreached /\ Verified /\ Tidy

FullInv == TargetInv /\ PanelInv

\* The first four: they speak of the panel.
PanelPart == PanelShape /\ Attended /\ Unreached /\ Verified

LEMMA FullInitially == TargetInit => FullInv
<1> SUFFICES ASSUME TargetInit PROVE FullInv
  OBVIOUS
<1>1. TargetInv
  BY TargetInitially
<1>2. PanelShape /\ Attended /\ Unreached
  BY DEF TargetInit, PanelInit, PanelShape, Attended, Unreached, Held, Transitioning
<1>3. Verified
  BY EquipmentAssumption DEF TargetInit, PanelInit, Verified, Enabled, Steady, On, Off
<1>4. Tidy
  BY DEF TargetInit, Tidy, DevicePc
<1> QED
  BY <1>1, <1>2, <1>3, <1>4 DEF FullInv, PanelInv

\* A step that sends nothing, observes nothing and gives nothing up.
LEMMA QuietKeeps ==
  ASSUME FullInv, UNCHANGED <<panelVars, initial, unverified, loose>>,
         \/ UNCHANGED <<pc, op>>
         \/ /\ pc \notin {"confirm", "converge"} /\ pc' \notin {"confirm", "converge"}
            /\ pc' = "put" =>
                 /\ op'.device \in Device
                 /\ op'.device \notin loose =>
                      ~Transitioning(op'.device) /\ Enabled(op'.device) # op'.value
         \/ pc = "confirm" /\ pc' = "converge" /\ op' = op
  PROVE  PanelPart'
<1> USE DEF FullInv, PanelInv, panelVars
<1>1. PanelShape'
  BY DEF PanelShape
<1>2. Attended'
  BY DEF Attended, Awaits, Held, Transitioning
<1>3. Verified'
  BY DEF Verified
<1>4. Unreached'
  <2>1. CASE UNCHANGED <<pc, op>> \/ (pc = "confirm" /\ pc' = "converge" /\ op' = op)
    BY <2>1 DEF Unreached, Held, Transitioning, Enabled
  <2>2. CASE /\ pc \notin {"confirm", "converge"} /\ pc' \notin {"confirm", "converge"}
             /\ pc' = "put" =>
                  /\ op'.device \in Device
                  /\ op'.device \notin loose =>
                       ~Transitioning(op'.device) /\ Enabled(op'.device) # op'.value
    <3> SUFFICES ASSUME pc' = "put", op'.device \notin loose
                 PROVE  /\ Held(op'.device) = {}
                        /\ ~Transitioning(op'.device) /\ Enabled(op'.device) # op'.value
      BY <2>2 DEF Unreached, Held, Transitioning, Enabled
    <3> QED
      BY <2>2 DEF Attended, Awaits
  <2> QED
    BY <2>1, <2>2
<1> QED
  BY <1>1, <1>2, <1>3, <1>4 DEF PanelPart

\* The wait for a device ends: what could still move it is recorded as loose.
LEMMA EndedKeeps ==
  ASSUME FullInv, UNCHANGED <<panelVars, initial>>,
         pc' \notin {"put", "confirm", "converge"},
         loose \subseteq loose' \cup {op.device},
         unverified \subseteq unverified' \cup {op.device},
         op.device \notin loose' =>
           /\ Held(op.device) = {} /\ ~Transitioning(op.device)
           /\ op.device \notin unverified' => led[op.device] = Steady(initial[op.device])
  PROVE  PanelPart'
<1> USE DEF FullInv, PanelInv, panelVars
<1>1. PanelShape' /\ Unreached'
  BY DEF PanelShape, Unreached
<1>2. Attended'
  <2> SUFFICES ASSUME NEW d \in Device, d \notin loose'
               PROVE  Held(d) = {} /\ ~Transitioning(d)
    BY DEF Attended, Held, Transitioning
  <2> QED
    BY DEF Attended, Awaits
<1>3. Verified'
  BY DEF Verified
<1> QED
  BY <1>1, <1>2, <1>3 DEF PanelPart

\* The device reports the value asked for: it is steady there with nothing queued,
\* or one of its requests was given up on.
LEMMA ReportedSteady ==
  ASSUME FullInv, pc \in {"read", "converge"}, Enabled(op.device) = op.value,
         pc = "converge" => ~Transitioning(op.device)
  PROVE  /\ op.device \in Device /\ op.value \in {Off, On}
         /\ op.device \notin loose \/ ~StillMoving(op.device) =>
              /\ Held(op.device) = {} /\ ~Transitioning(op.device)
              /\ led[op.device] = Steady(op.value)
<1> USE DEF FullInv, PanelInv
<1>1. op.device \in Device /\ op.value \in {Off, On}
  BY DEF TargetInv, Control, DeviceOp
<1>2. op.device \notin loose => Held(op.device) = {} /\ ~Transitioning(op.device)
  BY <1>1 DEF Unreached, Attended, Awaits
<1>3. ~StillMoving(op.device) => Held(op.device) = {} /\ ~Transitioning(op.device)
  BY DEF StillMoving, Held
<1>4. ~Transitioning(op.device) => led[op.device] = Steady(op.value)
  BY <1>1 DEF PanelShape, Transitioning, Enabled, Steady, On, Off
<1> QED
  BY <1>1, <1>2, <1>3, <1>4

\* The request is sent: it is the only one for its device, or one was given up on.
LEMMA SendKeeps ==
  ASSUME FullInv, pc = "put", Accept(op), initial' = initial,
         unverified' = unverified \cup {op.device}, loose \subseteq loose',
         \/ pc' = "confirm" /\ op' = op /\ loose' = loose
         \/ pc' \notin {"put", "confirm", "converge"} /\ op.device \in loose'
  PROVE  PanelPart'
<1> USE DEF FullInv, PanelInv
<1>1. op.device \in Device /\ op.value \in {Off, On} /\ op.kind = "device"
  BY DEF TargetInv, Control, DevicePc, DeviceOp
<1>2. /\ queue' = queue \cup {Request(op, sent + 1)} /\ UNCHANGED <<led, running>>
      /\ Request(op, sent + 1).device = op.device /\ Request(op, sent + 1).kind = op.kind
      /\ Request(op, sent + 1).value = op.value
  BY DEF Accept, Request
<1>3. PanelShape'
  BY <1>1, <1>2 DEF PanelShape
<1>4. \A d \in Device : d # op.device => Held(d)' = Held(d)
  BY <1>2 DEF Held
<1>5. Attended'
  BY <1>2, <1>4 DEF Attended, Awaits, Transitioning
<1>6. Unreached'
  <2> SUFFICES ASSUME pc' = "confirm", op' = op, op.device \notin loose
               PROVE  /\ \A r, s \in Held(op.device)' : r = s
                      /\ ~Transitioning(op.device)' /\ Enabled(op.device)' # op.value
    BY DEF Unreached, Held, Transitioning, Enabled
  <2>1. Held(op.device) = {}
    BY <1>1 DEF Attended, Awaits
  <2>2. Held(op.device)' \subseteq {Request(op, sent + 1)}
    BY <2>1, <1>2 DEF Held
  <2> QED
    BY <2>2, <1>2 DEF Unreached, Transitioning, Enabled
<1>7. Verified'
  BY <1>2 DEF Verified
<1> QED
  BY <1>3, <1>5, <1>6, <1>7 DEF PanelPart

\* What the panel does: only what the scenario awaits or has given up on moves.
LEMMA PanelKeeps ==
  ASSUME FullInv, PanelStep
  PROVE  PanelPart'
<1> USE DEF FullInv, PanelInv
<1>1. UNCHANGED <<initial, unverified, loose, pc, op>>
  BY DEF PanelStep, factVars, loopVars, ghostVars
<1>2. pc \in {"put", "confirm", "converge"} => op.device \in Device
  BY DEF TargetInv, Control, DevicePc, DeviceOp
<1>3. ASSUME NEW e \in Device, Awaits(e) \/ e \in loose,
             \A d \in Device \ {e} : led'[d] = led[d],
             Awaits(e) /\ e \notin loose => Held(e)' = {},
             queue' \subseteq queue, PanelShape'
      PROVE  PanelPart'
  <2>1. \A d \in Device : Held(d)' \subseteq Held(d)
    BY <1>3 DEF Held
  <2>2. Attended'
    BY <1>1, <1>3, <2>1 DEF Attended, Awaits, Transitioning
  <2>3. Verified'
    BY <1>1, <1>3 DEF Verified, Awaits, Tidy
  <2>4. Unreached'
    <3> SUFFICES ASSUME pc \in {"put", "confirm", "converge"}, op.device \notin loose
                 PROVE  /\ \A r, s \in Held(op.device)' : r = s
                        /\ pc = "put" \/ Held(op.device)' # {} =>
                             ~Transitioning(op.device)' /\ Enabled(op.device)' # op.value
      BY <1>1 DEF Unreached, Held, Transitioning, Enabled
    <3>1. Held(op.device)' \subseteq Held(op.device)
      BY <1>1, <1>3 DEF Held
    <3>2. CASE op.device = e
      BY <1>1, <1>3, <3>2 DEF Awaits, Held
    <3>3. CASE op.device # e
      BY <1>1, <1>2, <1>3, <3>1, <3>3 DEF Unreached, Transitioning, Enabled
    <3> QED
      BY <3>2, <3>3
  <2> QED
    BY <1>3, <2>2, <2>3, <2>4 DEF PanelPart
<1>4. ASSUME NEW r \in running, Perform(r) \/ Abort(r)
      PROVE  PanelPart'
  <2>1. r \in queue /\ queue' = queue \ {r} /\ running' = {}
    BY <1>4 DEF PanelShape, Perform, Abort, Retire
  <2>2. r.kind = "device" /\ r.device \in Device /\ r.value \in {Off, On}
    BY <2>1 DEF PanelShape
  <2>3. /\ led' \in [Device -> {"off", "on", "turningOn", "turningOff"}]
        /\ \A d \in Device \ {r.device} : led'[d] = led[d]
    BY <1>4, <2>2 DEF Perform, Abort, PanelShape, Steady
  <2>4. Awaits(r.device) \/ r.device \in loose
    BY <2>1, <2>2 DEF Attended, Held
  <2>5. Awaits(r.device) /\ r.device \notin loose => Held(r.device)' = {}
    BY <2>1 DEF Awaits, Unreached, Held
  <2>6. PanelShape'
    BY <2>1, <2>3 DEF PanelShape
  <2> QED
    BY <1>3, <2>1, <2>2, <2>3, <2>4, <2>5, <2>6
<1>5. ASSUME NEW e \in Device, Settle(e)
      PROVE  PanelPart'
  <2>1. Transitioning(e) /\ queue' = queue /\ running' = running
    BY <1>5 DEF Settle
  <2>2. /\ led' \in [Device -> {"off", "on", "turningOn", "turningOff"}]
        /\ \A d \in Device \ {e} : led'[d] = led[d]
    BY <1>5 DEF Settle, PanelShape
  <2>3. Awaits(e) \/ e \in loose
    BY <2>1 DEF Attended
  <2>4. Awaits(e) /\ e \notin loose => Held(e)' = {}
    BY <2>1 DEF Awaits, Unreached, Held
  <2>5. PanelShape'
    BY <2>1, <2>2 DEF PanelShape
  <2> QED
    BY <1>3, <2>1, <2>2, <2>3, <2>4, <2>5
<1>6. ASSUME NEW r \in queue, Activate(r)
      PROVE  PanelPart'
  <2>1. UNCHANGED <<led, queue>> /\ running' \subseteq queue'
    BY <1>6 DEF Activate
  <2> QED
    BY <1>1, <2>1 DEF PanelPart, PanelShape, Attended, Awaits, Held, Transitioning, Unreached,
       Enabled, Verified
<1> QED
  BY <1>4, <1>5, <1>6 DEF PanelStep

-----------------------------------------------------------------------------
\* A case that ends has nothing to restore, or is the last one.
LEMMA EndCaseTidy ==
  ASSUME FullInv, part = "cases", pc # "next", NEW o \in Outcome, EndCase(o),
         target' = target,
         \/ pc \in DevicePc /\ o # "ok"
         \/ loose' = {} /\ unverified' = {}
  PROVE  Tidy'
<1> USE DEF FullInv, PanelInv, TargetInv
<1>1. /\ target.protocol = "rs" /\ file = "safe" => FALSE
      /\ index \in DOMAIN target.cases /\ target \in Targets
      /\ pc \in DevicePc => Case = op.device /\ op.device \in Device
  BY DEF Tidy, Control, DeviceOp
<1>2. pc \in DevicePc => target.protocol = "rs"
  BY <1>1, CaseFacts
<1>3. pc' = "next"
  BY DEF EndCase, NextCase, Leave
<1>4. CASE NextCase
  <2>1. part' = "cases" /\ file' = file
    BY <1>4 DEF NextCase, endVars
  <2>2. loose' = {} /\ unverified' = {}
    BY <1>2, <1>4 DEF EndCase, NextCase, Leave, Outcome
  <2> QED
    BY <1>1, <1>3, <2>1, <2>2 DEF Tidy, DevicePc
<1>5. ASSUME NEW r, Leave(r)
      PROVE  Tidy'
  <2>1. part' \in {"devices", "clock"} /\ (target.protocol = "rs" => file' = file)
    BY <1>5 DEF Leave
  <2> QED
    BY <1>1, <1>3, <2>1 DEF Tidy, DevicePc
<1> QED
  BY <1>4, <1>5 DEF EndCase

\* So has the restoration of a device, as a case or in the cleanup.
LEMMA VisitedTidy ==
  ASSUME FullInv, pc \in DevicePc, NEW o \in Outcome, Visited(o), target' = target,
         o = "ok" => SeenRestored
  PROVE  Tidy'
<1> USE DEF FullInv, PanelInv, TargetInv
<1>1. pc # "next" /\ part \in {"cases", "devices"}
  BY DEF Control, DevicePc
<1>2. CASE part = "cases"
  <2>1. EndCase(o)
    BY <1>2 DEF Visited
  <2>2. o = "ok" => loose' = {} /\ unverified' = {}
    BY <1>2 DEF SeenRestored, Tidy
  <2>3. \/ pc \in DevicePc /\ o # "ok"
        \/ loose' = {} /\ unverified' = {}
    BY <2>2
  <2>4. FullInv /\ part = "cases" /\ pc # "next"
    BY <1>1, <1>2
  <2> HIDE DEF FullInv, PanelInv, TargetInv
  <2> QED
    BY <2>1, <2>3, <2>4, EndCaseTidy
<1>3. CASE part = "devices"
  <2>1. pc' \in {"next", "over"} /\ part' \in {"devices", "over"} /\ file' = file
    BY <1>3 DEF Visited
  <2> QED
    BY <1>3, <2>1 DEF Tidy, DevicePc
<1> QED
  BY <1>1, <1>2, <1>3

LEMMA CaseStepFull == FullInv /\ CaseStep => PanelInv'
<1> SUFFICES ASSUME FullInv, CaseStep PROVE PanelInv'
  OBVIOUS
<1> USE DEF factVars, restVars, endVars, ghostVars
<1>0. PanelInv /\ Control /\ Tidy /\ Verified /\ PanelShape
  BY DEF FullInv, TargetInv, PanelInv
<1>1. CASE StartPlain
  <2>1. PICK c \in {"init", "look"} : Starts(c) /\ pc' = c
    BY <1>1 DEF StartPlain
  <2>2. PanelPart'
    BY <1>1, <2>1, QuietKeeps DEF StartPlain, Starts
  <2>3. Tidy'
    BY <1>0, <1>1, <2>1 DEF StartPlain, Starts, Tidy, DevicePc
  <2> QED
    BY <2>2, <2>3 DEF PanelInv, PanelPart
<1>2. CASE StartTime
  <2>1. PanelPart'
    BY <1>2, QuietKeeps DEF StartTime, Starts
  <2>2. Tidy'
    BY <1>0, <1>2 DEF StartTime, Starts, Tidy, DevicePc
  <2> QED
    BY <2>1, <2>2 DEF PanelInv, PanelPart
<1>3. CASE CasesDone
  <2>1. PanelPart'
    BY <1>3, QuietKeeps DEF CasesDone, Leave
  <2>2. target' = target /\ part' \in {"devices", "clock"} /\ pc' = "next"
        /\ (target.protocol = "rs" => file' = file) /\ part = "cases"
    BY <1>3 DEF CasesDone, Leave
  <2>3. Tidy'
    BY <1>0, <2>2 DEF Tidy, DevicePc
  <2> QED
    BY <2>1, <2>3 DEF PanelInv, PanelPart
<1>4. ASSUME NEW d \in Device, StartDevice(d)
      PROVE  PanelInv'
  <2>1. /\ part = "cases" /\ pc = "next" /\ pc' = "put" /\ op'.device = d
        /\ op'.value = On - initial[d]
        /\ UNCHANGED <<panelVars, target, initial, unverified, loose, part, file>>
    BY <1>4 DEF StartDevice, Starts
  <2>2. unverified = {} /\ loose = {}
    BY <1>0, <2>1 DEF Tidy, DevicePc
  <2>3. ~Transitioning(d) /\ Enabled(d) # op'.value
    <3>1. led[d] = Steady(initial[d]) /\ initial[d] \in {Off, On}
      BY <1>0, <2>2 DEF Verified, Control
    <3> QED
      BY <2>1, <3>1 DEF Steady, Transitioning, Enabled, On, Off
  <2>4. PanelPart'
    BY <2>1, <2>3, QuietKeeps
  <2>5. Tidy'
    BY <1>0, <2>1, <2>2 DEF Tidy, DevicePc
  <2> QED
    BY <2>4, <2>5 DEF PanelInv, PanelPart
<1>5. ASSUME NEW o \in Outcome, Initialized(o)
      PROVE  PanelInv'
  <2>1. /\ pc = "init" /\ part = "cases" /\ EndCase(o) /\ target' = target
        /\ initial' = [d \in Device |-> Enabled(d)]
        /\ UNCHANGED <<panelVars, unverified, loose>>
    BY <1>0, <1>5 DEF Initialized, Control
  <2>2. unverified = {} /\ loose = {}
    BY <1>0, <2>1 DEF Tidy, DevicePc
  <2>3. initial' = initial
    <3>1. \A d \in Device : led[d] = Steady(initial[d]) /\ initial[d] \in {Off, On}
      BY <1>0, <2>2 DEF Verified, Control
    <3>2. \A d \in Device : Enabled(d) = initial[d]
      BY <3>1 DEF Steady, Enabled, On, Off
    <3> QED
      BY <1>0, <2>1, <3>2 DEF Control
  <2>4. pc' = "next"
    BY <2>1 DEF EndCase, NextCase, Leave
  <2>5. PanelPart'
    BY <2>1, <2>3, <2>4, QuietKeeps
  <2>6. Tidy'
    BY <2>1, <2>2, EndCaseTidy
  <2> QED
    BY <2>5, <2>6 DEF PanelInv, PanelPart
<1>6. ASSUME NEW o \in Outcome, Looked(o)
      PROVE  PanelInv'
  <2>1. /\ pc = "look" /\ part = "cases" /\ EndCase(o) /\ target' = target
        /\ UNCHANGED <<panelVars, initial, unverified, loose>>
    BY <1>0, <1>6 DEF Looked, Control
  <2>2. unverified = {} /\ loose = {}
    BY <1>0, <2>1 DEF Tidy, DevicePc
  <2>3. pc' = "next"
    BY <2>1 DEF EndCase, NextCase, Leave
  <2>4. PanelPart'
    BY <2>1, <2>3, QuietKeeps
  <2>5. Tidy'
    BY <2>1, <2>2, EndCaseTidy
  <2> QED
    BY <2>4, <2>5 DEF PanelInv, PanelPart
<1> QED
  BY <1>1, <1>2, <1>3, <1>4, <1>5, <1>6 DEF CaseStep

LEMMA DeviceStepFull == FullInv /\ DeviceStep => PanelInv'
<1> SUFFICES ASSUME FullInv, DeviceStep PROVE PanelInv'
  OBVIOUS
<1> USE DEF factVars, restVars, endVars, ghostVars
<1>0. /\ PanelInv /\ Control /\ Tidy /\ Unreached /\ Attended
      /\ part = "cases" => target.protocol = "rs" \/ pc \notin DevicePc
  <2>1. PanelInv /\ Control /\ Tidy /\ Unreached /\ Attended
    BY DEF FullInv, TargetInv, PanelInv
  <2> QED
    BY <2>1, CaseFacts DEF Control, DevicePc, DeviceOp
<1>a. ASSUME NEW o \in Outcome, pc \in DevicePc, Visited(o)
      PROVE  pc' \notin {"put", "confirm", "converge"}
  BY <1>a DEF Visited, EndCase, NextCase, Leave
<1>1. CASE Put
  <2>1. PanelPart'
    BY <1>1, SendKeeps DEF Put
  <2>2. /\ pc' = "confirm" /\ pc = "put" /\ unverified' = unverified \cup {op.device}
        /\ UNCHANGED <<target, part, op, initial, loose, file, errors, raised, cut>>
    BY <1>1 DEF Put
  <2>3. Tidy'
    BY <1>0, <2>2 DEF Tidy, DevicePc, Restoring
  <2> QED
    BY <2>1, <2>3 DEF PanelInv, PanelPart
<1>2. CASE Confirmed
  <2>1. PanelPart'
    BY <1>2, QuietKeeps DEF Confirmed
  <2>2. Tidy'
    BY <1>0, <1>2 DEF Confirmed, Tidy, DevicePc, Restoring
  <2> QED
    BY <2>1, <2>2 DEF PanelInv, PanelPart
<1>3. ASSUME pc \in {"read", "converge"}, Enabled(op.device) = op.value,
             pc = "converge" => ~Transitioning(op.device),
             Restoring, Visited("ok"), SeenRestored,
             UNCHANGED <<panelVars, target, initial>>
      PROVE  PanelInv'
  <2>1. op.device \notin loose \/ ~StillMoving(op.device) =>
          /\ Held(op.device) = {} /\ ~Transitioning(op.device)
          /\ led[op.device] = Steady(initial[op.device])
    BY <1>3, ReportedSteady DEF Restoring
  <2>2. /\ loose \subseteq loose' \cup {op.device}
        /\ unverified \subseteq unverified' \cup {op.device}
        /\ op.device \notin loose' => op.device \notin loose \/ ~StillMoving(op.device)
    BY <1>3 DEF SeenRestored
  <2>3. pc \in DevicePc /\ "ok" \in Outcome
    BY <1>3 DEF DevicePc, Outcome
  <2>4. PanelPart'
    BY <1>3, <1>a, <2>1, <2>2, <2>3, EndedKeeps
  <2>5. Tidy'
    BY <1>3, <2>3, VisitedTidy
  <2> QED
    BY <2>4, <2>5 DEF PanelInv, PanelPart
<1>4. CASE Converged
  <2>1. CASE Restoring
    BY <1>3, <1>4, <2>1 DEF Converged
  <2>2. CASE ~Restoring
    <3>1. /\ pc = "converge" /\ pc' = "read" /\ ~Transitioning(op.device)
          /\ Enabled(op.device) = op.value
          /\ op' = [op EXCEPT !.value = initial[op.device]]
          /\ UNCHANGED <<panelVars, target, initial, part, file, unverified, loose, errors,
                         raised, cut>>
      BY <1>4, <2>2 DEF Converged
    <3>2. op.device \notin loose => Held(op.device) = {}
      BY <1>0, <3>1 DEF Unreached
    <3>3. op.device \in unverified
      BY <1>0, <3>1 DEF Tidy
    <3>4. PanelPart'
      BY <3>1, <3>2, <3>3, EndedKeeps
    <3>5. op'.device = op.device /\ op'.value = initial'[op'.device] /\ part # "devices"
      BY <1>0, <2>2, <3>1 DEF Tidy, DevicePc, Control, DeviceOp
    <3>6. Tidy'
      BY <1>0, <3>1, <3>5 DEF Tidy, DevicePc, Restoring
    <3> QED
      BY <3>4, <3>6 DEF PanelInv, PanelPart
  <2> QED
    BY <2>1, <2>2
<1>5. CASE ReadCurrent
  <2>1. pc = "read" /\ Restoring
    BY <1>0, <1>5 DEF ReadCurrent, Tidy
  <2>2. CASE Enabled(op.device) = op.value
    BY <1>3, <1>5, <2>1, <2>2 DEF ReadCurrent
  <2>3. CASE Enabled(op.device) # op.value
    <3>1. pc' = "put" /\ UNCHANGED <<panelVars, target, initial, part, op, file, unverified,
                                     loose, errors, raised, cut>>
      BY <1>5, <2>3 DEF ReadCurrent
    <3>2. op.device \in Device
      BY <1>0 DEF Control, DeviceOp
    <3>3. op.device \notin loose => ~Transitioning(op.device)
      BY <1>0, <2>1, <3>2 DEF Attended, Awaits
    <3>4. PanelPart'
      BY <2>1, <2>3, <3>1, <3>2, <3>3, QuietKeeps
    <3>5. Tidy'
      BY <1>0, <2>1, <3>1 DEF Tidy, DevicePc, Restoring
    <3> QED
      BY <3>4, <3>5 DEF PanelInv, PanelPart
  <2> QED
    BY <2>2, <2>3
<1>6. ASSUME NEW o \in Outcome, Interrupted(o)
      PROVE  PanelInv'
  <2>1. /\ pc \in DevicePc /\ Visited(o) /\ o # "ok"
        /\ UNCHANGED <<panelVars, target, initial, unverified>>
        /\ loose \subseteq loose'
        /\ pc \in {"confirm", "converge"} /\ StillMoving(op.device) => op.device \in loose'
    BY <1>6 DEF Interrupted, DevicePc
  <2>2. op.device \notin loose' => Held(op.device) = {} /\ ~Transitioning(op.device)
    <3>1. CASE pc \in {"confirm", "converge"}
      BY <2>1, <3>1 DEF StillMoving, Held
    <3>2. CASE pc \notin {"confirm", "converge"}
      BY <1>0, <2>1, <3>2 DEF Attended, Awaits, Control, DeviceOp
    <3> QED
      BY <3>1, <3>2
  <2>3. op.device \notin loose' \cup unverified' => led[op.device] = Steady(initial[op.device])
    BY <2>1 DEF FullInv, PanelInv, Verified, TargetInv, Control, DeviceOp
  <2>4. PanelPart'
    BY <1>a, <2>1, <2>2, <2>3, EndedKeeps
  <2>5. Tidy'
    BY <2>1, VisitedTidy
  <2> QED
    BY <2>4, <2>5 DEF PanelInv, PanelPart
<1>7. ASSUME NEW o \in Outcome, PutUnanswered(o)
      PROVE  PanelInv'
  <2>1. /\ pc = "put" /\ pc \in DevicePc /\ Accept(op) /\ Visited(o) /\ o # "ok"
        /\ unverified' = unverified \cup {op.device} /\ loose' = loose \cup {op.device}
        /\ target' = target /\ initial' = initial
    BY <1>7 DEF PutUnanswered, DevicePc
  <2>2. PanelPart'
    BY <1>a, <2>1, SendKeeps
  <2>3. Tidy'
    BY <2>1, VisitedTidy
  <2> QED
    BY <2>2, <2>3 DEF PanelInv, PanelPart
<1> QED
  BY <1>1, <1>2, <1>4, <1>5, <1>6, <1>7 DEF DeviceStep

LEMMA CleanupStepFull == FullInv /\ CleanupStep => PanelInv'
<1> SUFFICES ASSUME FullInv, CleanupStep PROVE PanelInv'
  OBVIOUS
<1> USE DEF factVars, restVars, endVars, ghostVars
<1>0. PanelInv /\ Control /\ Tidy
  BY DEF FullInv, TargetInv, PanelInv
<1>1. ASSUME NEW d \in Device, VisitDevice(d)
      PROVE  PanelInv'
  <2>1. PanelPart'
    BY <1>1, QuietKeeps DEF VisitDevice
  <2>2. Tidy'
    BY <1>0, <1>1 DEF VisitDevice, Tidy, DevicePc, Restoring
  <2> QED
    BY <2>1, <2>2 DEF PanelInv, PanelPart
<1>2. CASE DevicesDone
  <2>1. PanelPart'
    BY <1>2, QuietKeeps DEF DevicesDone
  <2>2. Tidy'
    BY <1>0, <1>2 DEF DevicesDone, Tidy, DevicePc
  <2> QED
    BY <2>1, <2>2 DEF PanelInv, PanelPart
<1>3. ASSUME NEW o \in Outcome, Finish(o), part = "clock", target' = target
      PROVE  Tidy'
  <2>1. pc' = "over" /\ part' = "over"
    BY <1>3 DEF Finish
  <2>2. target.protocol = "rs" /\ file' = "safe" => ~errors' /\ raised' = "no" /\ ~cut'
    BY <1>0, <1>3 DEF Finish, Tidy
  <2> QED
    BY <1>3, <2>1, <2>2 DEF Tidy, DevicePc
<1>4. CASE ClockSkipped
  <2>1. PICK o \in {"ok", "failure"} : Finish(o)
    BY <1>4 DEF ClockSkipped
  <2>2. PanelPart'
    BY <1>4, <2>1, QuietKeeps DEF ClockSkipped, Finish
  <2>3. Tidy'
    BY <1>3, <1>4, <2>1 DEF ClockSkipped, Outcome
  <2> QED
    BY <2>2, <2>3 DEF PanelInv, PanelPart
<1>5. CASE ClockBegins
  <2>1. PanelPart'
    BY <1>5, QuietKeeps DEF ClockBegins
  <2>2. Tidy'
    BY <1>0, <1>5 DEF ClockBegins, Tidy, DevicePc
  <2> QED
    BY <2>1, <2>2 DEF PanelInv, PanelPart
<1>6. CASE ClockGoesOn
  <2>1. PanelPart'
    BY <1>6, QuietKeeps DEF ClockGoesOn, loopVars
  <2>2. Tidy'
    BY <1>0, <1>6 DEF ClockGoesOn, loopVars, Tidy, Restoring
  <2> QED
    BY <2>1, <2>2 DEF PanelInv, PanelPart
<1>7. ASSUME NEW o \in Outcome, ClockEnds(o)
      PROVE  PanelInv'
  <2>1. /\ pc = "clock" /\ part \in {"cases", "clock"}
        /\ UNCHANGED <<panelVars, target, initial, unverified, loose>>
    BY <1>0, <1>7 DEF ClockEnds, Synchronized, ClockFails, Control
  <2>2. CASE part = "cases"
    <3>1. EndCase(o) /\ loose = {} /\ unverified = {}
      BY <1>0, <1>7, <2>1, <2>2 DEF ClockEnds, Tidy, DevicePc
    <3>2. pc' = "next"
      BY <3>1 DEF EndCase, NextCase, Leave
    <3>3. PanelPart'
      BY <2>1, <3>2, QuietKeeps
    <3>4. Tidy'
      BY <2>1, <2>2, <3>1, EndCaseTidy
    <3> QED
      BY <3>3, <3>4 DEF PanelInv, PanelPart
  <2>3. CASE part = "clock"
    <3>1. Finish(o)
      BY <1>7, <2>3 DEF ClockEnds
    <3>2. PanelPart'
      BY <2>1, <3>1, QuietKeeps DEF Finish
    <3>3. Tidy'
      BY <1>3, <2>1, <2>3, <3>1
    <3> QED
      BY <3>2, <3>3 DEF PanelInv, PanelPart
  <2> QED
    BY <2>1, <2>2, <2>3
<1> QED
  BY <1>1, <1>2, <1>4, <1>5, <1>6, <1>7 DEF CleanupStep

LEMMA FullStep ==
  ASSUME FullInv, [TargetNext]_targetVars
  PROVE  FullInv'
<1>1. TargetInv'
  BY CaseStepKeeps, DeviceStepKeeps, CleanupStepKeeps, ElsewhereKeeps
  DEF FullInv, TargetNext
<1>2. CASE PanelStep
  <2>1. PanelPart'
    BY <1>2, PanelKeeps
  <2>2. Tidy'
    BY <1>2 DEF PanelStep, factVars, loopVars, endVars, ghostVars, FullInv, PanelInv, Tidy,
       Restoring
  <2> QED
    BY <1>1, <2>1, <2>2 DEF FullInv, PanelInv, PanelPart
<1>3. CASE ProgrammerStep \/ UNCHANGED targetVars
  <2>1. UNCHANGED <<panelVars, factVars, loopVars, ghostVars>>
    BY <1>3 DEF ProgrammerStep, targetVars
  <2>2. PanelPart'
    BY <2>1, QuietKeeps DEF factVars, loopVars, ghostVars
  <2>3. Tidy'
    BY <2>1 DEF factVars, loopVars, endVars, ghostVars, FullInv, PanelInv, Tidy, Restoring
  <2> QED
    BY <1>1, <2>2, <2>3 DEF FullInv, PanelInv, PanelPart
<1> QED
  BY <1>1, <1>2, <1>3, CaseStepFull, DeviceStepFull, CleanupStepFull DEF TargetNext, FullInv

LEMMA FullInvariant == TargetSpec => []FullInv
<1> QED
  BY FullInitially, FullStep, PTL DEF TargetSpec

\* An RS report that says safe_to_continue is true of the panel, for any set of
\* targets, devices and requests, unless AqualinkD still held a request that the
\* scenario had given up on.
THEOREM SafeReportIsRestored == TargetSpec => []SafeIsRestored
<1>1. FullInv => SafeIsRestored
  <2> SUFFICES ASSUME FullInv, target.protocol = "rs", file = "safe"
               PROVE  SafeIsRestored
    BY DEF SafeIsRestored
  <2>1. part = "over" /\ ~errors /\ raised = "no" /\ ~cut
    BY DEF FullInv, PanelInv, Tidy
  <2>2. unverified = {} /\ ~owed
    BY <2>1 DEF FullInv, TargetInv, Bookkeeping, EndsRestored
  <2>3. \A d \in Device : ~Awaits(d)
    BY <2>1 DEF FullInv, TargetInv, Control, Awaits
  <2>4. \A d \in Device : d \notin loose =>
          led[d] = Steady(initial[d]) /\ Held(d) = {}
    BY <2>2, <2>3 DEF FullInv, PanelInv, Verified, Attended
  <2> QED
    BY <2>2, <2>4 DEF SafeIsRestored, Held
<1> QED
  BY <1>1, FullInvariant, PTL
=============================================================================
