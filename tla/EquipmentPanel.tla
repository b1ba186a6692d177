--------------------------- MODULE EquipmentPanel ---------------------------
(***************************************************************************)
(* The pool panel and AqualinkD's programmer queue, as the validator sees  *)
(* them through /api/devices and the log.  Both are outside this           *)
(* repository.  A request that AqualinkD accepted stays queued until its   *)
(* programmer runs it, however long that takes and whether or not the      *)
(* validator still waits for it: the validator's own progress line calls   *)
(* the state "waiting in the programmer queue".                            *)
(***************************************************************************)
EXTENDS Integers, FiniteSets

CONSTANTS
  Device,      \* equipment identifiers of /api/devices
  Heater,      \* the devices that produce heat (engine/restoration.py _HEATERS)
  SpaMode,     \* the devices that route water to the spa (_SPA_MODES)
  FilterPump,  \* the circulation pump (_FILTER_PUMP)
  Thermostat,  \* the devices whose setpoint the validator can program
  Temp,        \* setpoint values
  MaxRequests  \* bound on the requests sent in one behaviour

ASSUME EquipmentAssumption ==
  /\ Heater \subseteq Device
  /\ SpaMode \subseteq Device
  /\ FilterPump \in Device
  /\ Heater \cap SpaMode = {}
  /\ FilterPump \notin Heater \cup SpaMode
  /\ Thermostat \subseteq Device
  /\ Temp \subseteq Int
  /\ MaxRequests \in Nat

VARIABLES
  led,       \* led[d]: the state /api/devices reports for d
  setpoint,  \* setpoint[d]: the spvalue it reports for thermostat d
  queue,     \* requests AqualinkD accepted and has not finished
  running,   \* the request its programmer is executing, as a set of at most one
  sent       \* number of requests sent so far; it numbers them

panelVars == <<led, setpoint, queue, running, sent>>

-----------------------------------------------------------------------------

Off == 0
On == 1

Kind == {"device", "setpoint"}

\* What a caller may ask for: a device state or a setpoint.
Action ==
  [kind : {"device"}, device : Device, value : {Off, On}]
    \cup [kind : {"setpoint"}, device : Thermostat, value : Temp]

Request(a, n) ==
  [kind |-> a.kind, device |-> a.device, value |-> a.value, id |-> n]

Requests ==
  {Request(a, n) : a \in Action, n \in 1 .. MaxRequests}

\* DeviceState.enabled: any status but off, the flashing ones included.
Enabled(d) == IF led[d] = "off" THEN Off ELSE On

\* DeviceState.transitioning: int_status 2 and 4 and the flashing labels.
Transitioning(d) == led[d] \in {"turningOn", "turningOff"}

Steady(v) == IF v = On THEN "on" ELSE "off"

-----------------------------------------------------------------------------

PanelInit ==
  /\ led \in [Device -> {"off", "on"}]
  /\ setpoint \in [Thermostat -> Temp]
  /\ queue = {}
  /\ running = {}
  /\ sent = 0

\* AqualinkD queues an accepted request.
Accept(a) ==
  /\ sent < MaxRequests
  /\ sent' = sent + 1
  /\ queue' = queue \cup {Request(a, sent + 1)}
  /\ UNCHANGED <<led, setpoint, running>>

\* The programmer thread of one waiting request gets its turn.
Activate(r) ==
  /\ r \in queue
  /\ running = {}
  /\ running' = {r}
  /\ UNCHANGED <<led, setpoint, queue, sent>>

Retire(r) ==
  /\ r \in running
  /\ queue' = queue \ {r}
  /\ running' = {}
  /\ UNCHANGED sent

\* The programmer did what the request asks: a device may flash on its way,
\* and nothing changes when the panel is already there.
Perform(r) ==
  /\ Retire(r)
  /\ \/ /\ r.kind = "device"
        /\ \E s \in {Steady(r.value), IF r.value = On THEN "turningOn" ELSE "turningOff"} :
             led' = [led EXCEPT ![r.device] =
                       IF @ = Steady(r.value) THEN @ ELSE s]
        /\ UNCHANGED setpoint
     \/ /\ r.kind = "setpoint"
        /\ setpoint' = [setpoint EXCEPT ![r.device] = r.value]
        /\ UNCHANGED led

\* The programmer ended without effect.
Abort(r) ==
  /\ Retire(r)
  /\ UNCHANGED <<led, setpoint>>

\* A flashing device reaches its state.
Settle(d) ==
  /\ Transitioning(d)
  /\ led' = [led EXCEPT ![d] = IF @ = "turningOn" THEN "on" ELSE "off"]
  /\ UNCHANGED <<setpoint, queue, running, sent>>

PanelTypeOK ==
  /\ led \in [Device -> {"off", "on", "turningOn", "turningOff"}]
  /\ setpoint \in [Thermostat -> Temp]
  /\ queue \in SUBSET Requests
  /\ running \in SUBSET queue
  /\ sent \in 0 .. MaxRequests
=============================================================================
