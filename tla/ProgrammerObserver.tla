------------------------- MODULE ProgrammerObserver -------------------------
(***************************************************************************)
(* One EquipmentActions.set_device call from its request on: the markers   *)
(* of AqualinkD's programmer that PdaProgrammerObserver correlates with    *)
(* it, and wait_for_state_or_error, which runs the poll of the device's    *)
(* state against a wait for the "didn't find" line in two tasks of its     *)
(* own.  Waiter "main" is the call itself, "error" the error task.         *)
(***************************************************************************)
EXTENDS OutputMonitor

ASSUME ObserverAssumption ==
  /\ Waiter = {"main", "error"}
  /\ {"active", "completed", "error"} \subseteq Line

VARIABLES
  phase,     \* what the call awaits, or how it ended
  cursor,    \* events.cursor before the request
  active,    \* sequence numbers of the markers found, 0 before
  completed,
  poll       \* state_task: "off", "polling", "reached" or "failed"

callVars == <<phase, cursor, active, completed, poll>>
observerVars == <<monitorVars, callVars>>

Ended == {"ok", "failed", "error", "cancelled"}

ObserverInit ==
  /\ MonitorInit
  /\ phase = "start" /\ cursor = 0 /\ active = 0 /\ completed = 0
  /\ poll = "off"

-----------------------------------------------------------------------------
Begin(w, markers, after) ==
  wait' = [wait EXCEPT ![w] = Call(markers, after)] /\ UNCHANGED skipped

Stop(w) == wait' = [wait EXCEPT ![w].state = "off"] /\ UNCHANGED skipped

\* Lines are published while the request is under way.
Request ==
  /\ phase = "start"
  /\ cursor' = Len(log)
  /\ phase' = "put"
  /\ UNCHANGED <<monitorVars, active, completed, poll>>

\* Mutant: the cursor is taken when AqualinkD has answered.
AnsweredLate ==
  /\ phase = "put"
  /\ phase' = "active"
  /\ Begin("main", {"active"}, Len(log))
  /\ UNCHANGED <<log, cursor, active, completed, poll>>

Answered ==
  /\ phase = "put"
  /\ phase' = "active"
  /\ Begin("main", {"active"}, cursor)
  /\ UNCHANGED <<log, cursor, active, completed, poll>>

RequestFails ==
  /\ phase = "put"
  /\ phase' = "failed"
  /\ UNCHANGED <<monitorVars, cursor, active, completed, poll>>

SeeActive ==
  /\ phase = "active" /\ wait["main"].state = "found"
  /\ active' = wait["main"].event
  /\ phase' = "completed"
  /\ Begin("main", {"completed"}, active')
  /\ UNCHANGED <<log, cursor, completed, poll>>

\* The state task and the error task are created.
SeeCompleted ==
  /\ phase = "completed" /\ wait["main"].state = "found"
  /\ completed' = wait["main"].event
  /\ phase' = "either"
  /\ poll' = "polling"
  /\ Begin("error", {"error"}, active)
  /\ UNCHANGED <<log, cursor, active>>

MarkerLate ==
  /\ phase \in {"active", "completed"} /\ wait["main"].state = "expired"
  /\ phase' = "failed"
  /\ UNCHANGED <<monitorVars, cursor, active, completed, poll>>

PollEnds ==
  /\ poll = "polling"
  /\ poll' \in {"reached", "failed"}
  /\ UNCHANGED <<monitorVars, phase, cursor, active, completed>>

PollResult == phase' = IF poll = "reached" THEN "ok" ELSE "failed"

\* The error line wins, also against a state that is there as well.
SeeError ==
  /\ phase = "either" /\ wait["error"].state = "found"
  /\ phase' = "error"
  /\ poll' = "off"
  /\ UNCHANGED <<monitorVars, cursor, active, completed>>

SeeNoError ==
  /\ phase = "either" /\ wait["error"].state = "expired"
  /\ phase' = "state"
  /\ UNCHANGED <<monitorVars, cursor, active, completed, poll>>

\* Mutant: the state wins if both are there.
SeePollFirst ==
  /\ phase = "either" /\ poll \in {"reached", "failed"}
  /\ PollResult
  /\ Stop("error")
  /\ UNCHANGED <<log, cursor, active, completed, poll>>

SeePoll ==
  /\ phase = "either" /\ poll \in {"reached", "failed"}
  /\ Calls("error")
  /\ PollResult
  /\ Stop("error")
  /\ UNCHANGED <<log, cursor, active, completed, poll>>

SeePollAlone ==
  /\ phase = "state" /\ poll \in {"reached", "failed"}
  /\ PollResult
  /\ UNCHANGED <<monitorVars, cursor, active, completed, poll>>

\* The cancellation of the call reaches what it awaits: the wait for a marker,
\* the state task once it is awaited alone -- and in asyncio.wait neither task.
Cancel ==
  /\ phase \in {"put", "active", "completed", "either", "state"}
  /\ phase' = "cancelled"
  /\ IF phase \in {"active", "completed"} THEN Stop("main")
                                          ELSE UNCHANGED <<wait, skipped>>
  /\ poll' = IF phase = "state" THEN "off" ELSE poll
  /\ UNCHANGED <<log, cursor, active, completed>>

-----------------------------------------------------------------------------
MonitorStep ==
  /\ \/ \E l \in Line : Publish(l)
     \/ \E w \in Waiter : Look(w) \/ Expire(w)
  /\ UNCHANGED callVars

CallStep ==
  \/ Request \/ Answered \/ RequestFails \/ SeeActive \/ SeeCompleted \/ MarkerLate
  \/ SeeError \/ SeeNoError \/ SeePoll \/ SeePollAlone

ObserverNext == MonitorStep \/ CallStep \/ PollEnds \/ Cancel

\* Timers fire, the HTTP request and the poll have timeouts, and the event loop
\* runs what is ready; AqualinkD need not log anything.
ObserverFairness ==
  /\ WF_observerVars(CallStep)
  /\ WF_observerVars(PollEnds)
  /\ \A w \in Waiter :
       WF_observerVars((Look(w) \/ Expire(w)) /\ UNCHANGED callVars)

ObserverSafety == ObserverInit /\ [][ObserverNext]_observerVars
ObserverSpec   == ObserverSafety /\ ObserverFairness

-----------------------------------------------------------------------------
(* Properties. *)

ObserverTypeOK ==
  /\ MonitorTypeOK
  /\ phase \in {"start", "put", "active", "completed", "either", "state"} \cup Ended
  /\ cursor \in 0 .. MaxLines /\ active \in 0 .. MaxLines /\ completed \in 0 .. MaxLines
  /\ poll \in {"off", "polling", "reached", "failed"}

\* The request's markers are the first after it: no "is active" line between
\* the request and the one taken for its own, and no "finished" line between
\* that one and the one taken for its completion -- however late the answer of
\* the request comes, unless the line was skipped.
MarkersInOrder ==
  phase \in {"completed", "either", "state", "ok", "error"} =>
    /\ cursor < active /\ log[active] = "active"
    /\ \A n \in cursor + 1 .. active - 1 : log[n] = "active" => n \in skipped["main"]
    /\ completed # 0 =>
         /\ active < completed
         /\ \A n \in active + 1 .. completed - 1 : log[n] = "completed" => n \in skipped["main"]

\* A programmer error that the error task has read is never turned into a
\* success, and a success is an observed state.
ErrorHeeded ==
  phase = "ok" =>
    /\ poll = "reached"
    /\ \A n \in active + 1 .. wait["error"].cursor : log[n] = "error" => n \in skipped["error"]
    /\ wait["error"].event = 0

\* Every call ends.
CallEnds == phase = "put" ~> phase \in Ended
=============================================================================
