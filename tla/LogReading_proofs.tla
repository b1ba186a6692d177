------------------------- MODULE LogReading_proofs --------------------------
(***************************************************************************)
(* Proofs about the readers of AqualinkD's log, for every size of the      *)
(* deque and every log: OutputMonitor as set_device uses it, whose waits   *)
(* return the first matching line and never sleep over one; and            *)
(* PdaLogWatch, for what lies between two lines that its waits returned.   *)
(* And the arithmetic of clock readings (PanelTime).                       *)
(***************************************************************************)
EXTENDS ProgrammerObserver, PdaLogWatch, PanelTime, SequenceFacts, TLAPS

WaitRecord ==
  [state : WaitState, markers : SUBSET Line, after : Nat, cursor : Nat, event : Nat]

MonitorShape ==
  /\ log \in Seq(Line)
  /\ wait \in [Waiter -> WaitRecord]
  /\ skipped \in [Waiter -> SUBSET Nat]
  /\ cursor \in Nat /\ cursor <= Len(log)
  /\ active \in Nat /\ active <= Len(log)

\* A task that waits has passed by every matching line up to its cursor, and
\* its cursor is a sequence number already given out.
PassedBy(w) ==
  /\ wait[w].after <= wait[w].cursor
  /\ wait[w].cursor <= Len(log)
  /\ NoneBefore(w, wait[w].cursor + 1)

MonitorInv ==
  /\ MonitorShape
  /\ FirstMatch
  /\ \A w \in Waiter : Calls(w) => PassedBy(w)
  /\ \A w \in Waiter : wait[w].state = "asleep" => wait[w].cursor = Len(log)

-----------------------------------------------------------------------------
(* Publishing a line shifts the deque; what a task has seen stays seen.      *)
LEMMA PublishKeeps ==
  ASSUME MonitorInv, NEW l \in Line, Publish(l), UNCHANGED callVars
  PROVE  MonitorInv'
<1> USE DEF MonitorInv, MonitorShape, WaitRecord, WaitState, Calls, PassedBy, NoneBefore,
            Matches, FirstMatch
<1>1. /\ log' = Append(log, l) /\ log' \in Seq(Line)
      /\ Len(log') = Len(log) + 1 /\ Len(log) \in Nat
      /\ DOMAIN log = 1 .. Len(log) /\ DOMAIN log' = 1 .. Len(log) + 1
      /\ \A n \in DOMAIN log : log'[n] = log[n]
  BY DEF Publish
<1>a. ASSUME NEW w \in Waiter
      PROVE  /\ wait'[w] \in WaitRecord
             /\ wait'[w].markers = wait[w].markers /\ wait'[w].after = wait[w].after
             /\ wait'[w].cursor = wait[w].cursor /\ wait'[w].event = wait[w].event
             /\ wait'[w].state # "asleep"
             /\ \/ wait'[w].state = wait[w].state
                \/ wait[w].state = "asleep" /\ wait'[w].state = "ready"
  <2>1. wait[w] \in WaitRecord
    OBVIOUS
  <2>2. CASE wait[w].state = "asleep"
    <3>1. wait'[w] = [wait[w] EXCEPT !.state = "ready"]
      BY <2>2 DEF Publish
    <3> QED
      BY <2>1, <2>2, <3>1
  <2>3. CASE wait[w].state # "asleep"
    <3>1. wait'[w] = wait[w]
      BY <2>3 DEF Publish
    <3> QED
      BY <2>1, <2>3, <3>1
  <2> QED
    BY <2>2, <2>3
<1>b. wait' = [w \in Waiter |-> wait'[w]] /\ skipped' = skipped
        /\ cursor' = cursor /\ active' = active
  BY DEF Publish, callVars
<1>2. /\ wait' \in [Waiter -> WaitRecord]
      /\ skipped' = skipped /\ cursor' = cursor /\ active' = active
      /\ \A w \in Waiter :
           /\ wait'[w].markers = wait[w].markers /\ wait'[w].after = wait[w].after
           /\ wait'[w].cursor = wait[w].cursor /\ wait'[w].event = wait[w].event
           /\ wait'[w].state # "asleep"
           /\ \/ wait'[w].state = wait[w].state
              \/ wait[w].state = "asleep" /\ wait'[w].state = "ready"
  <2>1. wait' \in [Waiter -> WaitRecord]
    <3> HIDE DEF WaitRecord
    <3> QED
      BY <1>a, <1>b
  <2> QED
    BY <1>a, <1>b, <2>1
<1>3. MonitorShape'
  BY <1>1, <1>2
<1>4. FirstMatch'
  BY <1>1, <1>2
<1>5. \A w \in Waiter : Calls(w)' => PassedBy(w)'
  <2>1. SUFFICES ASSUME NEW w \in Waiter, Calls(w)' PROVE PassedBy(w)'
    OBVIOUS
  <2>2. PassedBy(w)
    BY <1>2, <2>1
  <2> QED
    BY <1>1, <1>2, <2>2
<1> QED
  BY <1>2, <1>3, <1>4, <1>5

(* A task that looks either takes the first candidate or has passed by all.  *)
LEMMA LookKeeps ==
  ASSUME MonitorInv, NEW v \in Waiter, Look(v), UNCHANGED callVars
  PROVE  MonitorInv'
<1> USE DEF MonitorInv, MonitorShape, WaitRecord, WaitState, Calls, PassedBy, Matches
<1>1. /\ log' = log /\ cursor' = cursor /\ active' = active
      /\ wait[v].state = "ready" /\ PassedBy(v)
      /\ Len(log) \in Nat /\ DOMAIN log = 1 .. Len(log)
  BY DEF Look, callVars
<1>2. /\ skipped' \in [Waiter -> SUBSET Nat]
      /\ \A w \in Waiter : skipped[w] \subseteq skipped'[w]
      /\ \A n \in DOMAIN log \ Retained : n > wait[v].cursor => n \in skipped'[v]
  BY <1>1 DEF Look
<1>3. ASSUME NEW m \in DOMAIN log, m > wait[v].after, m \notin Candidates(v),
             Matches(m, wait[v].markers)
      PROVE  m \in skipped'[v]
  <2>1. CASE m <= wait[v].cursor
    BY <1>1, <1>2, <1>3, <2>1 DEF NoneBefore
  <2>2. CASE m > wait[v].cursor
    BY <1>2, <1>3, <2>2 DEF Candidates
  <2> QED
    BY <1>1, <1>3, <2>1, <2>2
<1>4. ASSUME NEW w \in Waiter, w # v, wait' \in [Waiter -> WaitRecord],
             wait'[w] = wait[w]
      PROVE  /\ wait'[w].state = "found" =>
                  /\ wait'[w].event \in DOMAIN log'
                  /\ wait'[w].event > wait'[w].after
                  /\ Matches(wait[w].event, wait[w].markers)'
                  /\ NoneBefore(w, wait[w].event)'
             /\ Calls(w)' => PassedBy(w)'
             /\ wait'[w].state = "asleep" => wait'[w].cursor = Len(log')
  <2>1. /\ wait[w] \in WaitRecord /\ log' = log
        /\ skipped[w] \subseteq skipped'[w]
    BY <1>1, <1>2
  <2>2. CASE wait[w].state = "found"
    <3>1. /\ wait[w].event \in DOMAIN log /\ wait[w].event > wait[w].after
          /\ Matches(wait[w].event, wait[w].markers)
          /\ NoneBefore(w, wait[w].event)
      BY <2>2 DEF FirstMatch
    <3>2. NoneBefore(w, wait[w].event)'
      BY <1>4, <2>1, <3>1 DEF NoneBefore
    <3>3. ~Calls(w)'
      BY <1>4, <2>2
    <3> QED
      BY <1>4, <2>1, <2>2, <3>1, <3>2, <3>3
  <2>3. CASE wait[w].state # "found"
    <3>1. Calls(w)' = Calls(w) /\ (Calls(w) => PassedBy(w)')
      BY <1>1, <1>4, <2>1 DEF NoneBefore
    <3> QED
      BY <1>1, <1>4, <2>1, <2>3, <3>1
  <2> QED
    BY <2>2, <2>3
<1>5. CASE Found(v)
  <2>1. PICK n \in Candidates(v) :
          /\ \A m \in Candidates(v) : n <= m
          /\ wait' = [wait EXCEPT ![v].state = "found", ![v].event = n]
    BY <1>5 DEF Found
  <2>2. n \in Nat /\ n \in DOMAIN log /\ n > wait[v].cursor /\ n > wait[v].after
          /\ Matches(n, wait[v].markers)
    BY <1>1, <2>1 DEF Candidates, Retained
  <2>3. /\ wait' \in [Waiter -> WaitRecord]
        /\ wait'[v].state = "found" /\ wait'[v].event = n
        /\ wait'[v].after = wait[v].after /\ wait'[v].markers = wait[v].markers
        /\ \A w \in Waiter : w # v => wait'[w] = wait[w]
    BY <2>1, <2>2
  <2>4. NoneBefore(v, n)'
    <3> SUFFICES ASSUME NEW m \in DOMAIN log, m > wait[v].after, m < n,
                        Matches(m, wait[v].markers)
                 PROVE  m \in skipped'[v]
      BY <1>1, <2>3 DEF NoneBefore
    <3>1. m \notin Candidates(v)
      BY <1>1, <2>1, <2>2
    <3> QED
      BY <1>3, <3>1
  <2>5. FirstMatch'
    BY <1>1, <1>4, <2>2, <2>3, <2>4 DEF FirstMatch
  <2> QED
    BY <1>1, <1>2, <1>4, <2>3, <2>5
<1>6. CASE FallAsleep(v)
  <2>1. /\ wait' \in [Waiter -> WaitRecord]
        /\ wait'[v].state = "asleep" /\ wait'[v].cursor = Len(log)
        /\ wait'[v].after = wait[v].after /\ wait'[v].markers = wait[v].markers
        /\ \A w \in Waiter : w # v => wait'[w] = wait[w]
    <3>1. wait[v].cursor \in Nat /\ wait[v].cursor <= Len(log) /\ wait[v] \in WaitRecord
      BY <1>1
    <3>2. (IF wait[v].cursor > Len(log) THEN wait[v].cursor ELSE Len(log)) = Len(log)
      BY <1>1, <3>1
    <3> DEFINE W == [wait EXCEPT ![v].state = "asleep"]
    <3>3. /\ W \in [Waiter -> WaitRecord] /\ W[v].state = "asleep"
          /\ W[v].cursor = wait[v].cursor
          /\ W[v].after = wait[v].after /\ W[v].markers = wait[v].markers
          /\ \A w \in Waiter : w # v => W[w] = wait[w]
      OBVIOUS
    <3>4. wait' = [W EXCEPT ![v].cursor = Len(log)]
      BY <1>1, <1>6, <3>2, <3>3 DEF FallAsleep
    <3> HIDE DEF W
    <3>5. /\ wait' \in [Waiter -> WaitRecord]
          /\ wait'[v] = [W[v] EXCEPT !.cursor = Len(log)]
          /\ \A w \in Waiter : w # v => wait'[w] = W[w]
      <4> DEFINE r == [W[v] EXCEPT !.cursor = Len(log)]
      <4>1. W[v] \in WaitRecord /\ r \in WaitRecord
        BY <1>1, <3>3
      <4>2. wait' = [W EXCEPT ![v] = r]
        BY <3>4
      <4> HIDE DEF r, WaitRecord
      <4>3. /\ wait' \in [Waiter -> WaitRecord] /\ wait'[v] = r
            /\ \A w \in Waiter : w # v => wait'[w] = W[w]
        BY <3>3, <4>1, <4>2
      <4> QED
        BY <4>3 DEF r
    <3>6. /\ wait'[v].cursor = Len(log) /\ wait'[v].state = W[v].state
          /\ wait'[v].after = W[v].after /\ wait'[v].markers = W[v].markers
      BY <3>3, <3>5
    <3> QED
      BY <3>3, <3>5, <3>6
  <2>2. PassedBy(v)'
    BY <1>1, <1>3, <1>6, <2>1 DEF FallAsleep, NoneBefore
  <2>3. FirstMatch'
    BY <1>1, <1>4, <2>1 DEF FirstMatch
  <2> QED
    BY <1>1, <1>2, <1>4, <2>1, <2>2, <2>3
<1> QED
  BY <1>5, <1>6 DEF Look

(* A call begins at a cursor taken before, and nothing lies between.         *)
LEMMA CallBeginKeeps ==
  ASSUME MonitorInv, NEW v \in Waiter, NEW l \in Line, NEW a \in Nat, a <= Len(log),
         Begin(v, {l}, a), log' = log,
         cursor' \in Nat, cursor' <= Len(log), active' \in Nat, active' <= Len(log)
  PROVE  MonitorInv'
<1> USE DEF MonitorInv, MonitorShape, WaitRecord, WaitState, Calls, PassedBy, Matches,
            NoneBefore, FirstMatch
<1>1. /\ wait' \in [Waiter -> WaitRecord]
      /\ wait'[v].state = "ready" /\ wait'[v].after = a /\ wait'[v].cursor = a
      /\ \A w \in Waiter : w # v => wait'[w] = wait[w]
      /\ skipped' = skipped /\ log' = log
  BY DEF Begin, Call
<1>2. MonitorShape'
  BY <1>1
<1>3. FirstMatch'
  BY <1>1
<1>4. PassedBy(v)'
  BY <1>1
<1>5. \A w \in Waiter : w # v /\ Calls(w)' => PassedBy(w)'
  BY <1>1
<1> QED
  BY <1>1, <1>2, <1>3, <1>4, <1>5

(* A call ends by a timeout or a cancellation.                               *)
LEMMA CallEndKeeps ==
  ASSUME MonitorInv, NEW v \in Waiter, NEW s \in {"off", "expired"},
         wait' = [wait EXCEPT ![v].state = s],
         log' = log, skipped' = skipped, cursor' = cursor, active' = active
  PROVE  MonitorInv'
<1> USE DEF MonitorInv, MonitorShape, WaitRecord, WaitState, Calls, PassedBy, Matches,
            NoneBefore, FirstMatch
<1>1. /\ wait' \in [Waiter -> WaitRecord]
      /\ wait'[v].state = s
      /\ \A w \in Waiter : w # v => wait'[w] = wait[w]
  <2>1. /\ wait \in [Waiter -> WaitRecord] /\ wait[v] \in WaitRecord /\ s \in WaitState
        /\ wait' = [wait EXCEPT ![v] = [wait[v] EXCEPT !.state = s]]
    OBVIOUS
  <2> DEFINE r == [wait[v] EXCEPT !.state = s]
  <2>2. r \in WaitRecord /\ r.state = s
    BY <2>1
  <2> HIDE DEF r, WaitRecord
  <2> QED
    BY <2>1, <2>2 DEF r
<1>2. MonitorShape'
  BY <1>1
<1>3. FirstMatch'
  BY <1>1
<1>4. \A w \in Waiter : Calls(w)' => PassedBy(w)'
  BY <1>1
<1> HIDE DEF MonitorShape, FirstMatch, Calls, PassedBy
<1> QED
  BY <1>2, <1>3, <1>4

LEMMA MonitorInvStep ==
  ASSUME MonitorInv, [ObserverNext]_observerVars
  PROVE  MonitorInv'
<1> USE ObserverAssumption
<1>1. ASSUME UNCHANGED <<monitorVars, cursor, active>>
      PROVE  MonitorInv'
  BY <1>1 DEF MonitorInv, MonitorShape, WaitRecord, WaitState, Calls, PassedBy, Matches,
              NoneBefore, FirstMatch, monitorVars
<1>2. CASE MonitorStep
  <2>1. ASSUME NEW w \in Waiter, Expire(w), UNCHANGED callVars
        PROVE  MonitorInv'
    BY <2>1, CallEndKeeps DEF Expire, callVars
  <2> QED
    BY <1>2, <2>1, PublishKeeps, LookKeeps DEF MonitorStep
<1>3. CASE Request
  BY <1>3 DEF Request, MonitorInv, MonitorShape, monitorVars, WaitRecord, WaitState, Calls,
              PassedBy, Matches, NoneBefore, FirstMatch
<1>4. CASE Answered
  BY <1>4, CallBeginKeeps DEF Answered, MonitorInv, MonitorShape
<1>5. CASE SeeActive
  <2>1. active' \in Nat /\ active' <= Len(log)
    BY <1>5 DEF SeeActive, MonitorInv, MonitorShape, FirstMatch
  <2> QED
    BY <1>5, <2>1, CallBeginKeeps DEF SeeActive, MonitorInv, MonitorShape
<1>6. CASE SeeCompleted
  BY <1>6, CallBeginKeeps DEF SeeCompleted, MonitorInv, MonitorShape
<1>7. CASE SeePoll
  BY <1>7, CallEndKeeps DEF SeePoll, Stop
<1>8. CASE Cancel
  <2>1. CASE phase \in {"active", "completed"}
    BY <1>8, <2>1, CallEndKeeps DEF Cancel, Stop
  <2>2. CASE phase \notin {"active", "completed"}
    BY <1>1, <1>8, <2>2 DEF Cancel, monitorVars
  <2> QED
    BY <2>1, <2>2
<1>9. CASE RequestFails \/ MarkerLate \/ SeeError \/ SeeNoError \/ SeePollAlone \/ PollEnds
  BY <1>1, <1>9 DEF RequestFails, MarkerLate, SeeError, SeeNoError, SeePollAlone, PollEnds
<1>10. CASE UNCHANGED observerVars
  BY <1>1, <1>10 DEF observerVars, callVars
<1> QED
  BY <1>2, <1>3, <1>4, <1>5, <1>6, <1>7, <1>8, <1>9, <1>10 DEF ObserverNext, CallStep

LEMMA MonitorInvariant == ObserverSafety => []MonitorInv
<1>1. ObserverInit => MonitorInv
  BY DEF ObserverInit, MonitorInit, Idle, MonitorInv, MonitorShape, WaitRecord, WaitState,
         Calls, FirstMatch
<1> QED
  BY <1>1, MonitorInvStep, PTL DEF ObserverSafety

(* wait_for returns the first matching line after its cursor that it was not *)
(* too late for, whatever the size of the deque and whatever is logged.      *)
THEOREM FirstMatchReturned == ObserverSafety => []FirstMatch
<1>1. MonitorInv => FirstMatch
  BY DEF MonitorInv
<1> QED
  BY <1>1, MonitorInvariant, PTL

(* No lost wake-up: a sleeping task has seen or skipped all that matches.    *)
THEOREM NoLostWakeup == ObserverSafety => []AsleepSawAll
<1>1. MonitorInv => AsleepSawAll
  BY DEF MonitorInv, MonitorShape, PassedBy, Calls, AsleepSawAll
<1> QED
  BY <1>1, MonitorInvariant, PTL

-----------------------------------------------------------------------------
(* The call: its markers and its error task.                               *)

Correlated == {"completed", "either", "state", "ok", "error"}

\* The programmer's start is the first one after the request ...
ActiveFirst ==
  /\ cursor < active /\ active \in DOMAIN log /\ log[active] = "active"
  /\ \A n \in DOMAIN log :
       cursor < n /\ n < active /\ log[n] = "active" => n \in skipped["main"]

\* ... and its end the first one after that.
CompletedFirst ==
  /\ active < completed /\ completed \in DOMAIN log
  /\ \A n \in DOMAIN log :
       active < n /\ n < completed /\ log[n] = "completed" => n \in skipped["main"]

\* What the call waits for, and from where.
MarkersInv ==
  /\ phase \in {"start", "put", "active", "completed"} => completed = 0
  /\ phase = "active" => wait["main"].markers = {"active"} /\ wait["main"].after = cursor
  /\ phase = "completed" =>
       wait["main"].markers = {"completed"} /\ wait["main"].after = active
  /\ phase \in Correlated => ActiveFirst /\ (completed # 0 => CompletedFirst)

\* The error task has passed by no error line that it did not return.
ErrorInv ==
  /\ phase \in {"either", "state", "ok"} =>
       /\ wait["error"].markers = {"error"} /\ wait["error"].after = active
       /\ wait["error"].state # "found" => PassedBy("error") /\ wait["error"].event = 0
  /\ phase = "state" => wait["error"].state = "expired"
  /\ phase = "ok" => wait["error"].state \in {"off", "expired"} /\ poll = "reached"

\* The monitor changes no call's markers or start; a wait that is over stays as it
\* is, and one that expires has passed by all it looked at.
LEMMA MonitorMoves ==
  ASSUME MonitorInv, MonitorStep, NEW v \in Waiter
  PROVE  /\ wait'[v].markers = wait[v].markers /\ wait'[v].after = wait[v].after
         /\ skipped[v] \subseteq skipped'[v]
         /\ DOMAIN log \subseteq DOMAIN log' /\ \A n \in DOMAIN log : log'[n] = log[n]
         /\ wait[v].state \notin {"ready", "asleep"} => wait'[v] = wait[v]
         /\ wait[v].state \in {"ready", "asleep"} =>
              /\ wait'[v].state \in {"ready", "asleep", "found", "expired"}
              /\ wait'[v].state # "found" => wait'[v].event = wait[v].event
              /\ wait'[v].state = "expired" =>
                   wait'[v].cursor = wait[v].cursor /\ UNCHANGED <<log, skipped>>
<1> USE DEF MonitorInv, MonitorShape
<1>1. wait \in [Waiter -> WaitRecord] /\ wait[v] \in WaitRecord /\ DOMAIN log = 1 .. Len(log)
      /\ Len(log) \in Nat
  OBVIOUS
<1>2. ASSUME NEW l \in Line, Publish(l)
      PROVE  /\ wait'[v] = IF wait[v].state = "asleep"
                           THEN [wait[v] EXCEPT !.state = "ready"] ELSE wait[v]
             /\ skipped' = skipped
             /\ DOMAIN log \subseteq DOMAIN log' /\ \A n \in DOMAIN log : log'[n] = log[n]
  BY <1>2 DEF Publish
<1>3. ASSUME NEW l \in Line, Publish(l), wait[v].state = "asleep"
      PROVE  /\ wait'[v].markers = wait[v].markers /\ wait'[v].after = wait[v].after
             /\ wait'[v].event = wait[v].event /\ wait'[v].state = "ready"
  BY <1>1, <1>2, <1>3 DEF WaitRecord
<1>4. ASSUME NEW w \in Waiter, w # v, Look(w) \/ Expire(w)
      PROVE  wait'[v] = wait[v] /\ skipped'[v] = skipped[v] /\ log' = log
  BY <1>1, <1>4 DEF Look, Found, FallAsleep, Expire
<1>5. ASSUME Look(v)
      PROVE  /\ log' = log /\ skipped[v] \subseteq skipped'[v] /\ wait[v].state = "ready"
             /\ wait'[v].markers = wait[v].markers /\ wait'[v].after = wait[v].after
             /\ \/ wait'[v].state = "found"
                \/ wait'[v].state = "asleep" /\ wait'[v].event = wait[v].event
  <2>1. log' = log /\ skipped[v] \subseteq skipped'[v] /\ wait[v].state = "ready"
    BY <1>5 DEF Look
  <2>2. CASE Found(v)
    <3>1. PICK n \in Candidates(v) :
            wait' = [wait EXCEPT ![v].state = "found", ![v].event = n]
      BY <2>2 DEF Found
    <3> QED
      BY <1>1, <2>1, <3>1 DEF WaitRecord
  <2>3. CASE FallAsleep(v)
    <3> DEFINE W == [wait EXCEPT ![v].state = "asleep"]
               c == IF wait[v].cursor > Len(log) THEN wait[v].cursor ELSE Len(log)
    <3>1. W[v].state = "asleep" /\ W[v].event = wait[v].event /\ W[v].after = wait[v].after
          /\ W[v].markers = wait[v].markers /\ W[v].cursor = wait[v].cursor
          /\ W \in [Waiter -> WaitRecord]
      BY <1>1 DEF WaitRecord, WaitState
    <3>2. wait' = [W EXCEPT ![v].cursor = c]
      BY <1>1, <2>3, <3>1 DEF FallAsleep
    <3> HIDE DEF W, c
    <3> QED
      BY <2>1, <3>1, <3>2 DEF WaitRecord
  <2> QED
    BY <1>5, <2>2, <2>3 DEF Look
<1>6. ASSUME Expire(v)
      PROVE  /\ UNCHANGED <<log, skipped>> /\ wait'[v].state = "expired"
             /\ wait[v].state \in {"ready", "asleep"}
             /\ wait'[v].markers = wait[v].markers /\ wait'[v].after = wait[v].after
             /\ wait'[v].event = wait[v].event /\ wait'[v].cursor = wait[v].cursor
  BY <1>1, <1>6 DEF Expire, Calls, WaitRecord
<1>7. CASE \E l \in Line : Publish(l)
  <2>1. PICK l \in Line : Publish(l)
    BY <1>7
  <2>2. CASE wait[v].state = "asleep"
    BY <1>2, <1>3, <2>1, <2>2
  <2>3. CASE wait[v].state # "asleep"
    <3>1. wait'[v] = wait[v]
      BY <1>2, <2>1, <2>3
    <3>2. wait[v].state # "expired" => wait'[v].state # "expired"
      BY <3>1
    <3> QED
      BY <1>2, <2>1, <2>3, <3>1
  <2> QED
    BY <2>2, <2>3
<1>8. CASE \E w \in Waiter : w # v /\ (Look(w) \/ Expire(w))
  <2>1. wait'[v] = wait[v] /\ skipped'[v] = skipped[v] /\ log' = log
    BY <1>4, <1>8
  <2> QED
    BY <2>1
<1>9. CASE Look(v)
  BY <1>5, <1>9
<1>10. CASE Expire(v)
  BY <1>6, <1>10
<1> QED
  BY <1>7, <1>8, <1>9, <1>10 DEF MonitorStep

\* What was correlated stays so while lines are published and others look.
LEMMA CorrelatedStays ==
  ASSUME MonitorInv, UNCHANGED <<cursor, active, completed>>,
         DOMAIN log \subseteq DOMAIN log', \A n \in DOMAIN log : log'[n] = log[n],
         skipped["main"] \subseteq skipped'["main"], log' \in Seq(Line)
  PROVE  (ActiveFirst => ActiveFirst') /\ (ActiveFirst /\ CompletedFirst => CompletedFirst')
<1>1. DOMAIN log = 1 .. Len(log) /\ Len(log) \in Nat /\ cursor \in Nat /\ active \in Nat
  BY DEF MonitorInv, MonitorShape
<1>2. DOMAIN log' = 1 .. Len(log') /\ Len(log') \in Nat
  OBVIOUS
<1>3. ActiveFirst => ActiveFirst'
  BY <1>1, <1>2 DEF ActiveFirst
<1>4. ActiveFirst /\ CompletedFirst => CompletedFirst'
  BY <1>1, <1>2 DEF ActiveFirst, CompletedFirst
<1> QED
  BY <1>3, <1>4

\* The monitor's part of the markers: what is found later is later in the log.
LEMMA MarkersStep ==
  ASSUME MonitorInv, MonitorInv', MarkersInv, [ObserverNext]_observerVars
  PROVE  MarkersInv'
<1> USE ObserverAssumption
<1>0. /\ wait \in [Waiter -> WaitRecord] /\ "main" \in Waiter /\ log \in Seq(Line)
      /\ log' \in Seq(Line)
  BY DEF MonitorInv, MonitorShape
<1>1. ASSUME UNCHANGED <<monitorVars, cursor, active, completed>>,
             \/ phase' = phase
             \/ phase' \in Ended \ {"ok", "error"}
             \/ phase \in Correlated /\ phase' \in Correlated \ {"completed"}
      PROVE  MarkersInv'
  BY <1>1 DEF MarkersInv, ActiveFirst, CompletedFirst, Correlated, monitorVars, Ended
<1>2. CASE MonitorStep
  <2>1. /\ UNCHANGED <<phase, cursor, active, completed>>
        /\ wait'["main"].markers = wait["main"].markers
        /\ wait'["main"].after = wait["main"].after
    BY <1>0, <1>2, MonitorMoves DEF MonitorStep, callVars
  <2>2. (ActiveFirst => ActiveFirst') /\ (ActiveFirst /\ CompletedFirst => CompletedFirst')
    <3>1. /\ skipped["main"] \subseteq skipped'["main"]
          /\ DOMAIN log \subseteq DOMAIN log' /\ \A n \in DOMAIN log : log'[n] = log[n]
      BY <1>0, <1>2, MonitorMoves
    <3> QED
      BY <1>0, <2>1, <3>1, CorrelatedStays
  <2> QED
    BY <2>1, <2>2 DEF MarkersInv
<1>3. CASE Request
  BY <1>3 DEF Request, MarkersInv, Correlated
<1>4. CASE Answered
  <2>1. wait'["main"] = Call({"active"}, cursor)
    BY <1>0, <1>4 DEF Answered, Begin
  <2> QED
    BY <1>4, <2>1 DEF Answered, MarkersInv, Correlated, Call
<1>5. CASE SeeActive
  <2>1. /\ active' = wait["main"].event /\ active' \in DOMAIN log /\ active' > cursor
        /\ log[active'] = "active"
        /\ \A n \in DOMAIN log :
             n > cursor /\ n < active' /\ log[n] = "active" => n \in skipped["main"]
    BY <1>0, <1>5 DEF SeeActive, MarkersInv, MonitorInv, FirstMatch, Matches, NoneBefore
  <2>2. ActiveFirst'
    BY <1>5, <2>1 DEF SeeActive, Begin, ActiveFirst, MonitorInv, MonitorShape
  <2>3. wait'["main"] = Call({"completed"}, active')
    BY <1>0, <1>5 DEF SeeActive, Begin
  <2>4. completed' = 0 /\ phase' = "completed"
    BY <1>5 DEF SeeActive, MarkersInv
  <2> QED
    BY <2>2, <2>3, <2>4 DEF MarkersInv, Call
<1>6. CASE SeeCompleted
  <2>1. /\ completed' = wait["main"].event /\ completed' \in DOMAIN log /\ completed' > active
        /\ \A n \in DOMAIN log :
             n > active /\ n < completed' /\ log[n] = "completed" => n \in skipped["main"]
    BY <1>0, <1>6 DEF SeeCompleted, MarkersInv, MonitorInv, FirstMatch, Matches, NoneBefore
  <2>2. CompletedFirst'
    BY <1>6, <2>1 DEF SeeCompleted, Begin, CompletedFirst, MonitorInv, MonitorShape
  <2>3. ActiveFirst
    BY <1>6 DEF SeeCompleted, MarkersInv, Correlated
  <2>4. UNCHANGED <<log, cursor, active, skipped>> /\ phase' = "either"
    BY <1>6 DEF SeeCompleted, Begin
  <2> QED
    BY <2>2, <2>3, <2>4 DEF MarkersInv, ActiveFirst
<1>7. CASE SeePoll
  <2>1. /\ UNCHANGED <<log, cursor, active, completed, skipped>>
        /\ phase = "either" /\ phase' \in {"ok", "failed"}
    BY <1>7 DEF SeePoll, Stop, PollResult
  <2> QED
    BY <2>1 DEF MarkersInv, ActiveFirst, CompletedFirst, Correlated
<1>8. CASE Cancel
  BY <1>8 DEF Cancel, MarkersInv, Correlated
<1>9. CASE RequestFails \/ MarkerLate \/ SeeError \/ SeeNoError \/ SeePollAlone \/ PollEnds
  BY <1>1, <1>9 DEF RequestFails, MarkerLate, SeeError, SeeNoError, SeePollAlone, PollResult,
     PollEnds, Ended, Correlated
<1>10. CASE UNCHANGED observerVars
  BY <1>1, <1>10 DEF observerVars, callVars
<1> QED
  BY <1>2, <1>3, <1>4, <1>5, <1>6, <1>7, <1>8, <1>9, <1>10 DEF ObserverNext, CallStep

\* The error task's part: it returns an error line or has passed by none.
LEMMA ErrorStep ==
  ASSUME MonitorInv, MonitorInv', ErrorInv, [ObserverNext]_observerVars
  PROVE  ErrorInv'
<1> USE ObserverAssumption
<1>0. /\ wait \in [Waiter -> WaitRecord] /\ "error" \in Waiter
      /\ wait["error"].state \in WaitState
  BY DEF MonitorInv, MonitorShape, WaitRecord
<1>1. ASSUME phase' \notin {"either", "state", "ok"}
      PROVE  ErrorInv'
  BY <1>1 DEF ErrorInv
<1>2. CASE MonitorStep
  <2>1. UNCHANGED <<phase, active, poll>>
    BY <1>2 DEF MonitorStep, callVars
  <2>2. /\ wait'["error"].markers = wait["error"].markers
        /\ wait'["error"].after = wait["error"].after
        /\ skipped["error"] \subseteq skipped'["error"]
        /\ DOMAIN log \subseteq DOMAIN log' /\ \A n \in DOMAIN log : log'[n] = log[n]
        /\ wait["error"].state \notin {"ready", "asleep"} => wait'["error"] = wait["error"]
        /\ wait["error"].state \in {"ready", "asleep"} =>
             /\ wait'["error"].state \in {"ready", "asleep", "found", "expired"}
             /\ wait'["error"].state # "found" => wait'["error"].event = wait["error"].event
             /\ wait'["error"].state = "expired" =>
                  wait'["error"].cursor = wait["error"].cursor /\ UNCHANGED <<log, skipped>>
    BY <1>0, <1>2, MonitorMoves
  <2>3. ASSUME wait["error"].state \notin {"ready", "asleep"}, PassedBy("error")
        PROVE  PassedBy("error")'
    <3>1. DOMAIN log = 1 .. Len(log) /\ Len(log) \in Nat /\ DOMAIN log' = 1 .. Len(log')
          /\ Len(log') \in Nat /\ wait["error"].cursor \in Nat
      <4>1. log \in Seq(Line) /\ log' \in Seq(Line) /\ wait["error"] \in WaitRecord
        BY <1>0 DEF MonitorInv, MonitorShape
      <4> QED
        BY <4>1 DEF WaitRecord
    <3> QED
      BY <2>2, <2>3, <3>1 DEF PassedBy, NoneBefore, Matches
  <2>4. ASSUME wait["error"].state \in {"ready", "asleep"}, wait'["error"].state # "found"
        PROVE  PassedBy("error")'
    <3>1. CASE wait'["error"].state \in {"ready", "asleep"}
      BY <1>0, <3>1 DEF MonitorInv, Calls
    <3>2. CASE wait'["error"].state = "expired"
      <4>1. PassedBy("error")
        BY <1>0, <2>4 DEF MonitorInv, Calls
      <4> QED
        BY <2>2, <2>4, <3>2, <4>1 DEF PassedBy, NoneBefore, Matches
    <3> QED
      BY <2>2, <2>4, <3>1, <3>2
  <2> QED
    BY <2>1, <2>2, <2>3, <2>4 DEF ErrorInv
<1>3. CASE SeeCompleted
  <2>1. wait'["error"] = Call({"error"}, active) /\ phase' = "either" /\ active' = active
    BY <1>0, <1>3 DEF SeeCompleted, Begin
  <2>2. Calls("error")'
    BY <2>1 DEF Calls, Call
  <2>3. PassedBy("error")'
    BY <1>0, <2>2 DEF MonitorInv
  <2> QED
    BY <2>1, <2>3 DEF ErrorInv, Call
<1>4. CASE SeePoll
  <2>1. /\ phase = "either" /\ phase' \in {"ok", "failed"} /\ poll' = poll
        /\ phase' = "ok" => poll = "reached"
        /\ wait["error"].state \in {"ready", "asleep"}
        /\ UNCHANGED <<log, active, skipped>>
    BY <1>4 DEF SeePoll, PollResult, Stop, Calls
  <2>2. wait' = [wait EXCEPT !["error"].state = "off"]
    BY <1>4 DEF SeePoll, Stop
  <2>3. /\ wait'["error"].state = "off" /\ wait'["error"].event = wait["error"].event
        /\ wait'["error"].markers = wait["error"].markers
        /\ wait'["error"].after = wait["error"].after
        /\ wait'["error"].cursor = wait["error"].cursor
    BY <1>0, <2>2 DEF WaitRecord
  <2>4. PassedBy("error")'
    BY <2>1, <2>3 DEF ErrorInv, PassedBy, NoneBefore, Matches
  <2> QED
    BY <2>1, <2>3, <2>4 DEF ErrorInv
<1>5. CASE SeeNoError \/ SeePollAlone \/ PollEnds \/ UNCHANGED observerVars
  <2>1. /\ UNCHANGED <<log, wait, skipped, active>>
        /\ \/ phase' = phase /\ poll' = poll
           \/ phase' = phase /\ poll = "polling"
           \/ phase = "either" /\ wait["error"].state = "expired" /\ phase' = "state"
           \/ phase = "state" /\ phase' \in {"ok", "failed"} /\ poll' = poll
                /\ (phase' = "ok" => poll = "reached")
    BY <1>5 DEF SeeNoError, SeePollAlone, PollResult, PollEnds, observerVars, monitorVars,
       callVars
  <2> QED
    BY <2>1 DEF ErrorInv, PassedBy, NoneBefore, Matches
<1>6. CASE Request \/ Answered \/ RequestFails \/ SeeActive \/ MarkerLate \/ SeeError \/ Cancel
  BY <1>1, <1>6 DEF Request, Answered, RequestFails, SeeActive, MarkerLate, SeeError, Cancel
<1> QED
  BY <1>2, <1>3, <1>4, <1>5, <1>6 DEF ObserverNext, CallStep

LEMMA CallInvariant == ObserverSafety => [](MonitorInv /\ MarkersInv /\ ErrorInv)
<1>1. ObserverInit => MarkersInv /\ ErrorInv
  BY DEF ObserverInit, MarkersInv, ErrorInv, Correlated
<1> QED
  BY <1>1, MonitorInvariant, MonitorInvStep, MarkersStep, ErrorStep, PTL DEF ObserverSafety

(* The markers that set_device takes for its request's are the first after   *)
(* it, for any log, any delay of the answer and any size of the deque.       *)
THEOREM MarkersAreFirst == ObserverSafety => []MarkersInOrder
<1>1. MonitorInv /\ MarkersInv => MarkersInOrder
  <2> SUFFICES ASSUME MonitorInv, MarkersInv, phase \in Correlated
               PROVE  MarkersInOrder
    BY DEF MarkersInOrder, Correlated
  <2>1. ActiveFirst /\ (completed # 0 => CompletedFirst)
    BY DEF MarkersInv
  <2>2. /\ DOMAIN log = 1 .. Len(log) /\ Len(log) \in Nat
        /\ cursor \in Nat /\ active \in DOMAIN log
    BY <2>1 DEF MonitorInv, MonitorShape, ActiveFirst
  <2>3. \A n \in cursor + 1 .. active - 1 : n \in DOMAIN log /\ cursor < n /\ n < active
    BY <2>2
  <2>4. completed # 0 =>
          \A n \in active + 1 .. completed - 1 :
            n \in DOMAIN log /\ active < n /\ n < completed
    BY <2>1, <2>2 DEF CompletedFirst
  <2> QED
    BY <2>1, <2>3, <2>4 DEF MarkersInOrder, ActiveFirst, CompletedFirst
<1> QED
  BY <1>1, CallInvariant, PTL

(* A "didn't find" line that the error task has read is never turned into a  *)
(* success, whichever of the two tasks ends first.                           *)
THEOREM ErrorIsHeeded == ObserverSafety => []ErrorHeeded
<1>1. MonitorInv /\ ErrorInv => ErrorHeeded
  <2> SUFFICES ASSUME MonitorInv, ErrorInv, phase = "ok" PROVE ErrorHeeded
    BY DEF ErrorHeeded
  <2>1. /\ poll = "reached" /\ wait["error"].event = 0 /\ PassedBy("error")
        /\ wait["error"].markers = {"error"} /\ wait["error"].after = active
    BY DEF ErrorInv
  <2>2. /\ DOMAIN log = 1 .. Len(log) /\ Len(log) \in Nat /\ active \in Nat
        /\ wait["error"].cursor \in Nat /\ wait["error"].cursor <= Len(log)
    BY <2>1, ObserverAssumption DEF MonitorInv, MonitorShape, PassedBy, WaitRecord
  <2>3. \A n \in active + 1 .. wait["error"].cursor :
          n \in DOMAIN log /\ n > active /\ n < wait["error"].cursor + 1
    BY <2>2
  <2> QED
    BY <2>1, <2>3 DEF ErrorHeeded, PassedBy, NoneBefore, Matches
<1> QED
  BY <1>1, CallInvariant, PTL

-----------------------------------------------------------------------------
(* Types, within the bound on the lines that are published.                  *)

BoundedWait ==
  [state : WaitState, markers : SUBSET Line,
   after : 0 .. MaxLines, cursor : 0 .. MaxLines, event : 0 .. MaxLines]

LEMMA WaitBound ==
  ASSUME wait \in [Waiter -> BoundedWait], NEW v \in Waiter, NEW l \in Line,
         NEW a \in 0 .. MaxLines, Begin(v, {l}, a)
  PROVE  wait' \in [Waiter -> BoundedWait]
<1>1. Call({l}, a) \in BoundedWait
  BY MonitorAssumption DEF Call, BoundedWait, WaitState
<1> QED
  BY <1>1 DEF Begin

LEMMA WaitEnds ==
  ASSUME wait \in [Waiter -> BoundedWait], NEW v \in Waiter, NEW s \in WaitState,
         wait' = [wait EXCEPT ![v].state = s]
  PROVE  wait' \in [Waiter -> BoundedWait]
BY DEF BoundedWait

\* The waits of both tasks stay within what has been published.
LEMMA MonitorTypeStep ==
  ASSUME MonitorInv, MonitorTypeOK, MonitorStep
  PROVE  MonitorTypeOK'
<1>1. /\ log \in Seq(Line) /\ Len(log) \in Nat /\ Len(log) <= MaxLines /\ MaxLines \in Nat
      /\ DOMAIN log = 1 .. Len(log)
      /\ wait \in [Waiter -> BoundedWait] /\ skipped \in [Waiter -> SUBSET (1 .. MaxLines)]
  BY MonitorAssumption DEF MonitorTypeOK, BoundedWait
<1>2. SUFFICES /\ log' \in Seq(Line) /\ Len(log') <= MaxLines
               /\ wait' \in [Waiter -> BoundedWait]
               /\ skipped' \in [Waiter -> SUBSET (1 .. MaxLines)]
  BY DEF MonitorTypeOK, BoundedWait
<1>3. ASSUME NEW l \in Line, Publish(l)
      PROVE  /\ log' \in Seq(Line) /\ Len(log') <= MaxLines
             /\ wait' \in [Waiter -> BoundedWait] /\ skipped' = skipped
  <2>1. log' \in Seq(Line) /\ Len(log') <= MaxLines
    BY <1>1, <1>3 DEF Publish
  <2>2. ASSUME NEW w \in Waiter
        PROVE  [wait[w] EXCEPT !.state = "ready"] \in BoundedWait
    BY <1>1 DEF BoundedWait, WaitState
  <2>3. wait' \in [Waiter -> BoundedWait]
    BY <1>1, <1>3, <2>2 DEF Publish
  <2> QED
    BY <1>3, <2>1, <2>3 DEF Publish
<1>4. ASSUME NEW w \in Waiter, Expire(w)
      PROVE  wait' \in [Waiter -> BoundedWait] /\ log' = log /\ skipped' = skipped
  BY <1>1, <1>4, WaitEnds DEF Expire, WaitState
<1>5. ASSUME NEW w \in Waiter, Look(w)
      PROVE  /\ wait' \in [Waiter -> BoundedWait] /\ log' = log
             /\ skipped' \in [Waiter -> SUBSET (1 .. MaxLines)]
  <2>1. skipped' \in [Waiter -> SUBSET (1 .. MaxLines)] /\ log' = log
    <3>1. {n \in DOMAIN log \ Retained : n > wait[w].cursor} \subseteq 1 .. MaxLines
      BY <1>1
    <3> QED
      BY <1>1, <1>5, <3>1 DEF Look
  <2>2. CASE Found(w)
    <3>1. PICK n \in Candidates(w) :
            wait' = [wait EXCEPT ![w].state = "found", ![w].event = n]
      BY <2>2 DEF Found
    <3>2. n \in 0 .. MaxLines
      BY <1>1, <3>1 DEF Candidates, Retained
    <3> DEFINE r == [wait[w] EXCEPT !.state = "found", !.event = n]
    <3>3. r \in BoundedWait
      BY <1>1, <3>2 DEF BoundedWait, WaitState
    <3>4. wait' = [wait EXCEPT ![w] = r]
      BY <3>1
    <3> HIDE DEF r
    <3>5. wait' \in [Waiter -> BoundedWait]
      BY <1>1, <3>3, <3>4
    <3> QED
      BY <2>1, <3>5
  <2>3. CASE FallAsleep(w)
    <3>1. wait[w].cursor \in 0 .. MaxLines
      BY <1>1 DEF BoundedWait
    <3>2. (IF wait[w].cursor > Len(log) THEN wait[w].cursor ELSE Len(log)) \in 0 .. MaxLines
      BY <1>1, <3>1
    <3>3. PICK c \in 0 .. MaxLines :
            wait' = [wait EXCEPT ![w].state = "asleep", ![w].cursor = c]
      BY <2>3, <3>2 DEF FallAsleep
    <3> DEFINE r == [wait[w] EXCEPT !.state = "asleep", !.cursor = c]
    <3>4. r \in BoundedWait
      BY <1>1 DEF BoundedWait, WaitState
    <3>5. wait' = [wait EXCEPT ![w] = r]
      BY <3>3
    <3> HIDE DEF r
    <3>6. wait' \in [Waiter -> BoundedWait]
      BY <1>1, <3>4, <3>5
    <3> QED
      BY <2>1, <3>6
  <2> QED
    BY <1>5, <2>2, <2>3 DEF Look
<1> QED
  BY <1>1, <1>3, <1>4, <1>5 DEF MonitorStep

LEMMA ObserverTypeStep ==
  ASSUME MonitorInv, ObserverTypeOK, [ObserverNext]_observerVars
  PROVE  ObserverTypeOK'
<1> USE ObserverAssumption
<1>1. /\ log \in Seq(Line) /\ Len(log) \in 0 .. MaxLines
      /\ wait \in [Waiter -> BoundedWait] /\ skipped \in [Waiter -> SUBSET (1 .. MaxLines)]
      /\ \A v \in Waiter : wait[v].event \in 0 .. MaxLines
  BY MonitorAssumption DEF ObserverTypeOK, MonitorTypeOK, BoundedWait
<1>2. CASE MonitorStep
  <2>1. UNCHANGED callVars
    BY <1>2 DEF MonitorStep
  <2>2. MonitorTypeOK'
    BY <1>2, MonitorTypeStep DEF ObserverTypeOK
  <2> QED
    BY <2>1, <2>2 DEF callVars, ObserverTypeOK, Ended
<1>3. ASSUME ~MonitorStep PROVE log' = log
  BY <1>3 DEF ObserverNext, CallStep, observerVars, monitorVars, Request, Answered, RequestFails,
     SeeActive, SeeCompleted, MarkerLate, SeeError, SeeNoError, SeePoll, SeePollAlone, PollEnds,
     Cancel
<1>4. ASSUME log' = log, skipped' = skipped, wait' \in [Waiter -> BoundedWait]
      PROVE  MonitorTypeOK'
  BY <1>1, <1>4 DEF MonitorTypeOK, BoundedWait
<1>5. CASE UNCHANGED monitorVars /\ ~MonitorStep
  <2>1. MonitorTypeOK'
    BY <1>1, <1>4, <1>5 DEF monitorVars
  <2> QED
    BY <1>1, <1>5, <2>1
       DEF ObserverNext, CallStep, observerVars, callVars, Request, Answered, RequestFails,
           SeeActive, SeeCompleted, MarkerLate, SeeError, SeeNoError, SeePoll, SeePollAlone,
           PollResult, PollEnds, Cancel, ObserverTypeOK, Ended
<1>6. CASE Answered
  <2>1. wait' \in [Waiter -> BoundedWait] /\ log' = log /\ skipped' = skipped
    BY <1>1, <1>6, WaitBound DEF Answered, Begin, ObserverTypeOK
  <2> QED
    BY <1>4, <1>6, <2>1 DEF Answered, ObserverTypeOK
<1>7. CASE SeeActive
  <2>1. active' \in 0 .. MaxLines
    BY <1>1, <1>7 DEF SeeActive
  <2>2. wait' \in [Waiter -> BoundedWait] /\ log' = log /\ skipped' = skipped
    BY <1>1, <1>7, <2>1, WaitBound DEF SeeActive, Begin
  <2> QED
    BY <1>4, <1>7, <2>1, <2>2 DEF SeeActive, ObserverTypeOK
<1>8. CASE SeeCompleted
  <2>1. completed' \in 0 .. MaxLines
    BY <1>1, <1>8 DEF SeeCompleted
  <2>2. wait' \in [Waiter -> BoundedWait] /\ log' = log /\ skipped' = skipped
    BY <1>1, <1>8, WaitBound DEF SeeCompleted, Begin, ObserverTypeOK
  <2> QED
    BY <1>4, <1>8, <2>1, <2>2 DEF SeeCompleted, ObserverTypeOK
<1>9. CASE SeePoll
  <2>1. wait' \in [Waiter -> BoundedWait] /\ log' = log /\ skipped' = skipped
    BY <1>1, <1>9, WaitEnds DEF SeePoll, Stop, WaitState
  <2>2. phase' \in {"ok", "failed"} /\ UNCHANGED <<cursor, active, completed, poll>>
    BY <1>9 DEF SeePoll, PollResult
  <2> QED
    BY <1>4, <2>1, <2>2 DEF ObserverTypeOK, Ended
<1>10. CASE Cancel
  <2>1. wait' \in [Waiter -> BoundedWait] /\ log' = log /\ skipped' = skipped
    BY <1>1, <1>10, WaitEnds DEF Cancel, Stop, WaitState
  <2>2. phase' = "cancelled" /\ poll' \in {"off", poll} /\ UNCHANGED <<cursor, active, completed>>
    BY <1>10 DEF Cancel
  <2> QED
    BY <1>4, <2>1, <2>2 DEF ObserverTypeOK, Ended
<1> QED
  BY <1>2, <1>5, <1>6, <1>7, <1>8, <1>9, <1>10
     DEF ObserverNext, CallStep, observerVars, Request, RequestFails, MarkerLate, SeeError,
         SeeNoError, SeePollAlone, PollEnds, MonitorStep

\* A wait returns a line that was published before, and the call keeps what it found,
\* through every order of publishing, expiry and cancellation.
THEOREM ObserverTypeCorrect == ObserverSafety => []ObserverTypeOK
<1>1. ObserverInit => ObserverTypeOK
  <2> SUFFICES ASSUME ObserverInit PROVE ObserverTypeOK
    OBVIOUS
  <2>1. 0 \in 0 .. MaxLines /\ Len(<<>>) = 0
    BY MonitorAssumption
  <2>2. Idle \in BoundedWait
    BY <2>1 DEF Idle, BoundedWait, WaitState
  <2>3. MonitorTypeOK
    BY <2>1, <2>2, MonitorAssumption DEF ObserverInit, MonitorInit, MonitorTypeOK, BoundedWait
  <2> QED
    BY <2>1, <2>3 DEF ObserverInit, ObserverTypeOK
<1> QED
  BY <1>1, ObserverTypeStep, MonitorInvariant, PTL DEF ObserverSafety

-----------------------------------------------------------------------------
(* First and last lines.                                                     *)

-----------------------------------------------------------------------------
(* What AqualinkD prints.                                                    *)

Printable == UNION {{next[1] : next \in Prints[m]} : m \in DOMAIN Prints}

SleepLine == {"sleeping", "wakeActive", "wakeFinished"}

\* The sleep line that follows another.
Following(line) ==
  CASE line = "sleeping" -> "wakeActive" [] line = "wakeActive" -> "wakeFinished"
    [] OTHER -> "sleeping"

\* The sleep line that a mode of AqualinkD was reached by, or will not be long after.
LastOf(m) ==
  CASE m \in {"asleep", "woken"} -> "sleeping" [] m = "wakeInit" -> "wakeActive"
    [] OTHER -> "wakeFinished"

Before(m, n, line) == \E k \in m + 1 .. n : printed[k] = line

\* After a sleep line comes the one that follows it, before any other.
SleepsInTurn ==
  \A m, n \in DOMAIN printed :
    m < n /\ printed[m] \in SleepLine /\ printed[n] \in SleepLine
          /\ printed[n] # Following(printed[m]) =>
      Before(m, n - 1, Following(printed[m]))

SleepsSoFar ==
  \A m \in DOMAIN printed :
    printed[m] \in SleepLine /\ printed[m] # LastOf(mode) =>
      Before(m, Len(printed), Following(printed[m]))

\* Between the home menu and the status loop, the header is printed.
HeadersInTurn ==
  \A m, n \in DOMAIN printed :
    m < n /\ printed[m] = "home" /\ printed[n] = "start" => Before(m, n - 1, "header")

HeaderSoFar ==
  mode = "status" =>
    \A m \in DOMAIN printed : printed[m] = "home" => Before(m, Len(printed), "header")

\* Line 1 of the first screen is not printed once its firmware is.
OneFirmware ==
  \A m, n \in DOMAIN printed : printed[m] = "firmware" /\ m < n => printed[n] # "line1"

Booting == {"boot", "typed", "served", "init"}

FirmwareSoFar ==
  mode \in Booting => \A m \in DOMAIN printed : printed[m] # "firmware"

Grammar ==
  /\ printed \in Seq(Printable) /\ mode \in DOMAIN Prints
  /\ SleepsInTurn /\ SleepsSoFar /\ HeadersInTurn /\ HeaderSoFar
  /\ OneFirmware /\ FirmwareSoFar

-----------------------------------------------------------------------------
\* One more line.
LEMMA Appended ==
  ASSUME NEW T, NEW s \in Seq(T), NEW x \in T
  PROVE  /\ Append(s, x) \in Seq(T) /\ Len(s) \in Nat /\ Len(Append(s, x)) = Len(s) + 1
         /\ DOMAIN s = 1 .. Len(s)
         /\ DOMAIN Append(s, x) = 1 .. Len(s) + 1
         /\ \A n \in DOMAIN s : Append(s, x)[n] = s[n]
         /\ Append(s, x)[Len(s) + 1] = x
OBVIOUS

LEMMA SleepTurn ==
  /\ LastOf("asleep") = "sleeping" /\ LastOf("woken") = "sleeping"
  /\ LastOf("wakeInit") = "wakeActive"
  /\ \A m : m \notin {"asleep", "woken", "wakeInit"} => LastOf(m) = "wakeFinished"
  /\ Following("sleeping") = "wakeActive" /\ Following("wakeActive") = "wakeFinished"
  /\ Following("wakeFinished") = "sleeping"
BY DEF LastOf, Following

\* What a line of AqualinkD's depends on, and what follows it.
Sound(m, next) ==
  /\ next[2] \in DOMAIN Prints
  /\ next[1] \in SleepLine =>
       next[1] = Following(LastOf(m)) /\ LastOf(next[2]) = next[1]
  /\ next[1] \notin SleepLine => LastOf(next[2]) = LastOf(m)
  /\ next[1] = "start" => m = "status"
  /\ next[2] = "status" => next[1] = "header" \/ (m = "status" /\ next[1] # "home")
  /\ next[1] = "line1" => m \in Booting
  /\ next[2] \in Booting => m \in Booting /\ next[1] # "firmware"

LEMMA OneMoreLine == \A m \in DOMAIN Prints : \A next \in Prints[m] : Sound(m, next)
<1>1. DOMAIN Prints = {"boot", "typed", "served", "init", "screen", "shown", "awake", "home",
                       "status", "loop", "ended", "asleep", "woken", "wakeInit"}
  BY DEF Prints
<1>2. ASSUME NEW next \in Prints["boot"] PROVE Sound("boot", next)
  <2>1. next \in {<<"version", "typed">>}
    BY <1>2 DEF Prints
  <2> QED
    BY <1>1, <2>1, SleepTurn DEF Sound, SleepLine, Booting
<1>3. ASSUME NEW next \in Prints["typed"] PROVE Sound("typed", next)
  <2>1. next \in {<<"web", "served">>}
    BY <1>3 DEF Prints
  <2> QED
    BY <1>1, <2>1, SleepTurn DEF Sound, SleepLine, Booting
<1>4. ASSUME NEW next \in Prints["served"] PROVE Sound("served", next)
  <2>1. next \in {<<"active", "init">>}
    BY <1>4 DEF Prints
  <2> QED
    BY <1>1, <2>1, SleepTurn DEF Sound, SleepLine, Booting
<1>5. ASSUME NEW next \in Prints["init"] PROVE Sound("init", next)
  <2>1. next \in {<<"line1", "init">>, <<"line5", "init">>, <<"firmware", "screen">>}
    BY <1>5 DEF Prints
  <2> QED
    BY <1>1, <2>1, SleepTurn DEF Sound, SleepLine, Booting
<1>6. ASSUME NEW next \in Prints["screen"] PROVE Sound("screen", next)
  <2>1. next \in {<<"line5", "shown">>}
    BY <1>6 DEF Prints
  <2> QED
    BY <1>1, <2>1, SleepTurn DEF Sound, SleepLine, Booting
<1>7. ASSUME NEW next \in Prints["shown"] PROVE Sound("shown", next)
  <2>1. next \in {<<"line5", "shown">>, <<"finished", "awake">>}
    BY <1>7 DEF Prints
  <2> QED
    BY <1>1, <2>1, SleepTurn DEF Sound, SleepLine, Booting
<1>8. ASSUME NEW next \in Prints["awake"] PROVE Sound("awake", next)
  <2>1. next \in {<<"home", "home">>, <<"sleeping", "asleep">>}
    BY <1>8 DEF Prints
  <2> QED
    BY <1>1, <2>1, SleepTurn DEF Sound, SleepLine, Booting
<1>9. ASSUME NEW next \in Prints["home"] PROVE Sound("home", next)
  <2>1. next \in {<<"home", "home">>, <<"header", "status">>, <<"sleeping", "asleep">>}
    BY <1>9 DEF Prints
  <2> QED
    BY <1>1, <2>1, SleepTurn DEF Sound, SleepLine, Booting
<1>10. ASSUME NEW next \in Prints["status"] PROVE Sound("status", next)
  <2>1. next \in {<<"found", "status">>, <<"start", "loop">>, <<"home", "home">>}
    BY <1>10 DEF Prints
  <2> QED
    BY <1>1, <2>1, SleepTurn DEF Sound, SleepLine, Booting
<1>11. ASSUME NEW next \in Prints["loop"] PROVE Sound("loop", next)
  <2>1. next \in {<<"found", "loop">>, <<"end", "ended">>, <<"home", "home">>}
    BY <1>11 DEF Prints
  <2> QED
    BY <1>1, <2>1, SleepTurn DEF Sound, SleepLine, Booting
<1>12. ASSUME NEW next \in Prints["ended"] PROVE Sound("ended", next)
  <2>1. next \in {<<"bitmask", "awake">>}
    BY <1>12 DEF Prints
  <2> QED
    BY <1>1, <2>1, SleepTurn DEF Sound, SleepLine, Booting
<1>13. ASSUME NEW next \in Prints["asleep"] PROVE Sound("asleep", next)
  <2>1. next \in {<<"retry", "asleep">>, <<"probe", "asleep">>, <<"waking", "woken">>}
    BY <1>13 DEF Prints
  <2> QED
    BY <1>1, <2>1, SleepTurn DEF Sound, SleepLine, Booting
<1>14. ASSUME NEW next \in Prints["woken"] PROVE Sound("woken", next)
  <2>1. next \in {<<"wakeActive", "wakeInit">>}
    BY <1>14 DEF Prints
  <2> QED
    BY <1>1, <2>1, SleepTurn DEF Sound, SleepLine, Booting
<1>15. ASSUME NEW next \in Prints["wakeInit"] PROVE Sound("wakeInit", next)
  <2>1. next \in {<<"wakeFinished", "awake">>}
    BY <1>15 DEF Prints
  <2> QED
    BY <1>1, <2>1, SleepTurn DEF Sound, SleepLine, Booting
<1> QED
  BY <1>1, <1>2, <1>3, <1>4, <1>5, <1>6, <1>7, <1>8, <1>9, <1>10, <1>11, <1>12, <1>13, <1>14, <1>15

LEMMA GrammarStep ==
  ASSUME Grammar, PrintLine
  PROVE  Grammar'
<1>1. PICK next \in Prints[mode] : printed' = Append(printed, next[1]) /\ mode' = next[2]
  BY DEF PrintLine
<1>2. next[1] \in Printable /\ Sound(mode, next)
  BY OneMoreLine DEF Grammar, Printable
<1> DEFINE N == Len(printed)
           x == next[1]
<1>3. /\ printed' \in Seq(Printable) /\ N \in Nat /\ Len(printed') = N + 1
      /\ DOMAIN printed = 1 .. N
      /\ DOMAIN printed' = 1 .. N + 1
      /\ \A n \in DOMAIN printed : printed'[n] = printed[n]
      /\ printed'[N + 1] = x
  BY <1>1, <1>2, Appended DEF Grammar
<1>4. ASSUME NEW m \in DOMAIN printed, NEW n \in DOMAIN printed, NEW line, Before(m, n, line)
      PROVE  Before(m, n, line)'
  BY <1>3, <1>4 DEF Before
<1> HIDE DEF N, x
<1>5. SleepsInTurn'
  <2> SUFFICES ASSUME NEW m \in 1 .. N + 1, NEW n \in 1 .. N + 1, m < n,
                      printed'[m] \in SleepLine, printed'[n] \in SleepLine,
                      printed'[n] # Following(printed'[m])
               PROVE  Before(m, n - 1, Following(printed[m]))'
    BY <1>3 DEF SleepsInTurn
  <2>1. m \in DOMAIN printed /\ printed'[m] = printed[m]
    BY <1>3
  <2>2. CASE n <= N
    <3>1. n \in DOMAIN printed /\ printed'[n] = printed[n]
      BY <1>3, <2>2
    <3>2. Before(m, n - 1, Following(printed[m]))
      BY <2>1, <3>1 DEF Grammar, SleepsInTurn
    <3>3. PICK k \in m + 1 .. n - 1 : printed[k] = Following(printed[m])
      BY <3>2 DEF Before
    <3>4. k \in DOMAIN printed
      BY <1>3, <2>1, <3>1
    <3> QED
      BY <1>3, <2>1, <3>3, <3>4 DEF Before
  <2>3. CASE n = N + 1
    <3>1. x = Following(LastOf(mode)) /\ x # Following(printed[m])
      BY <1>2, <1>3, <2>1, <2>3 DEF x, Sound
    <3>2. printed[m] # LastOf(mode)
      BY <3>1
    <3>3. Before(m, N, Following(printed[m]))
      BY <2>1, <3>2 DEF Grammar, SleepsSoFar, N
    <3>4. PICK k \in m + 1 .. N : printed[k] = Following(printed[m])
      BY <3>3 DEF Before
    <3> QED
      BY <1>3, <2>1, <2>3, <3>4 DEF Before
  <2> QED
    BY <1>3, <2>2, <2>3
<1>6. SleepsSoFar'
  <2> SUFFICES ASSUME NEW m \in 1 .. N + 1, printed'[m] \in SleepLine,
                      printed'[m] # LastOf(mode')
               PROVE  \E k \in m + 1 .. N + 1 : printed'[k] = Following(printed'[m])
    BY <1>3 DEF SleepsSoFar, Before
  <2>1. m # N + 1
    BY <1>1, <1>2, <1>3 DEF x, Sound
  <2>2. m \in DOMAIN printed /\ printed'[m] = printed[m]
    BY <1>3, <2>1
  <2>3. CASE printed[m] = LastOf(mode)
    <3>1. x \in SleepLine
      BY <1>1, <1>2, <2>2, <2>3 DEF x, Sound
    <3> QED
      BY <1>2, <1>3, <2>2, <2>3, <3>1 DEF x, Sound
  <2>4. CASE printed[m] # LastOf(mode)
    <3>1. PICK k \in m + 1 .. N : printed[k] = Following(printed[m])
      BY <2>2, <2>4 DEF Grammar, SleepsSoFar, Before, N
    <3> QED
      BY <1>3, <2>2, <3>1
  <2> QED
    BY <2>3, <2>4
<1>7. HeadersInTurn'
  <2> SUFFICES ASSUME NEW m \in 1 .. N + 1, NEW n \in 1 .. N + 1, m < n,
                      printed'[m] = "home", printed'[n] = "start"
               PROVE  \E k \in m + 1 .. n - 1 : printed'[k] = "header"
    BY <1>3 DEF HeadersInTurn, Before
  <2>1. m \in DOMAIN printed /\ printed[m] = "home"
    BY <1>3
  <2>2. CASE n <= N
    <3>1. n \in DOMAIN printed /\ printed[n] = "start"
      BY <1>3, <2>2
    <3>2. PICK k \in m + 1 .. n - 1 : printed[k] = "header"
      BY <2>1, <3>1 DEF Grammar, HeadersInTurn, Before
    <3> QED
      BY <1>3, <3>1, <3>2
  <2>3. CASE n = N + 1
    <3>1. mode = "status"
      BY <1>2, <1>3, <2>3 DEF x, Sound
    <3>2. PICK k \in m + 1 .. N : printed[k] = "header"
      BY <2>1, <3>1 DEF Grammar, HeaderSoFar, Before, N
    <3> QED
      BY <1>3, <2>3, <3>2
  <2> QED
    BY <1>3, <2>2, <2>3
<1>8. HeaderSoFar'
  <2> SUFFICES ASSUME mode' = "status", NEW m \in 1 .. N + 1, printed'[m] = "home"
               PROVE  \E k \in m + 1 .. N + 1 : printed'[k] = "header"
    BY <1>3 DEF HeaderSoFar, Before
  <2>1. x = "header" \/ (mode = "status" /\ x # "home")
    BY <1>1, <1>2 DEF x, Sound
  <2>2. m \in DOMAIN printed /\ printed[m] = "home"
    BY <1>3, <2>1
  <2>3. CASE x = "header"
    BY <1>3, <2>2, <2>3
  <2>4. CASE mode = "status"
    <3>1. PICK k \in m + 1 .. N : printed[k] = "header"
      BY <2>2, <2>4 DEF Grammar, HeaderSoFar, Before, N
    <3> QED
      BY <1>3, <3>1
  <2> QED
    BY <2>1, <2>3, <2>4
<1>9. OneFirmware' /\ FirmwareSoFar'
  <2>1. x = "line1" => mode \in Booting
    BY <1>2 DEF x, Sound
  <2>2. mode' \in Booting => mode \in Booting /\ x # "firmware"
    BY <1>1, <1>2 DEF x, Sound
  <2> QED
    BY <1>3, <2>1, <2>2 DEF Grammar, OneFirmware, FirmwareSoFar
<1>10. mode' \in DOMAIN Prints
  BY <1>1, <1>2 DEF Sound
<1> QED
  BY <1>3, <1>5, <1>6, <1>7, <1>8, <1>9, <1>10 DEF Grammar

-----------------------------------------------------------------------------
(* What the waits return.                                                    *)

WaitSet == {"entered", "wakeActive", "wakeFinished", "returned", "probe", "home", "start",
            "end", "bitmask", "version", "web", "active", "finished", "firmware", "line5"}

\* No line between two of them that the second is the first of its kind after.
NoneBetween(m, n, line) == \A k \in m + 1 .. n - 1 : printed[k] # line

\* What a wait returned is the first line that matches, after the line of the wait
\* before it -- unless one had left the deque.
Returned(w) ==
  /\ seen[w] \in DOMAIN printed /\ printed[seen[w]] = Marker(w)
  /\ w # "entered" =>
       /\ After(w) < seen[w]
       /\ StartsAfter(w) # "began" => seen[StartsAfter(w)] # 0
       /\ ~missed => NoneBetween(After(w), seen[w], Marker(w))

InTurn == \A w \in Wait : seen[w] # 0 => Returned(w)

\* A sleep that began before the watch did has not ended.
StillAsleep ==
  script = "cycle" /\ seen["entered"] # 0 =>
    \A n \in seen["entered"] + 1 .. began : printed[n] # "wakeActive"

FirstScreen ==
  seen["firmware"] # 0 /\ seen["line1"] # 0 =>
    seen["line1"] < seen["firmware"] /\ NoneBetween(seen["line1"], seen["firmware"], "line1")

Concluded ==
  conclusion = "passed" =>
    /\ \A w \in Waits[script] : seen[w] # 0
    /\ script = "startup" => seen["line1"] # 0

WatchInv ==
  /\ Grammar
  /\ script \in Script
  /\ began \in -1 .. Len(printed)
  /\ seen \in [Wait \cup {"line1"} -> Nat]
  /\ began = -1 => conclusion = "none" /\ \A w \in Wait : seen[w] = 0
  /\ missed \in BOOLEAN
  /\ InTurn /\ StillAsleep /\ FirstScreen /\ Concluded /\ FoundNow

-----------------------------------------------------------------------------
LEMMA WaitsAre ==
  /\ Waits["cycle"] = {"entered", "wakeActive", "wakeFinished", "returned"}
  /\ Waits["retry"] = {"entered"}
  /\ Waits["probe"] = {"entered", "probe"}
  /\ Waits["loop"] = {"home", "start", "end", "bitmask"}
  /\ Waits["startup"] = {"version", "web", "active", "finished", "firmware", "line5"}
BY DEF Waits

LEMMA WaitIs == Wait = WaitSet
<1>1. Wait = Waits["cycle"] \cup Waits["retry"] \cup Waits["probe"] \cup Waits["loop"]
               \cup Waits["startup"]
  BY Zenon DEF Wait, Script
<1> QED
  BY <1>1, WaitsAre DEF WaitSet

LEMMA StartPoint ==
  /\ StartsAfter("wakeActive") = "entered" /\ StartsAfter("wakeFinished") = "wakeActive"
  /\ StartsAfter("returned") = "wakeFinished" /\ StartsAfter("probe") = "entered"
  /\ StartsAfter("start") = "home" /\ StartsAfter("end") = "start"
  /\ StartsAfter("bitmask") = "end" /\ StartsAfter("finished") = "active"
  /\ StartsAfter("line5") = "firmware"
  /\ \A w \in {"entered", "home", "version", "web", "active", "firmware"} :
       StartsAfter(w) = "began"
BY DEF StartsAfter

LEMMA StartsElsewhere ==
  ASSUME NEW w \in Wait
  PROVE  StartsAfter(w) \in Wait \cup {"began"} /\ StartsAfter(w) # w
BY WaitIs, StartPoint DEF WaitSet

LEMMA Deque ==
  ASSUME printed \in Seq(Printable)
  PROVE  /\ Len(printed) \in Nat /\ DOMAIN printed = 1 .. Len(printed)
         /\ InDeque \subseteq 1 .. Len(printed)
         /\ \A m \in InDeque, n \in 1 .. Len(printed) : m <= n => n \in InDeque
<1>1. Len(printed) \in Nat /\ DOMAIN printed = 1 .. Len(printed)
  OBVIOUS
<1> QED
  BY <1>1, WatchAssumption DEF InDeque

LEMMA AfterIsLine ==
  ASSUME WatchInv, NEW w \in Wait, began # -1
  PROVE  After(w) \in Nat
<1>1. began \in Nat
  BY Deque DEF WatchInv, Grammar
<1> QED
  BY <1>1, StartsElsewhere DEF WatchInv, After

-----------------------------------------------------------------------------
LEMMA PrintKeeps ==
  ASSUME WatchInv, PrintLine
  PROVE  WatchInv'
<1>1. Grammar'
  BY GrammarStep DEF WatchInv
<1>2. UNCHANGED <<script, began, seen, conclusion, missed>> /\ conclusion = "none"
  BY DEF PrintLine
<1>3. PICK x \in Printable : printed' = Append(printed, x)
  <2>1. PICK next \in Prints[mode] : printed' = Append(printed, next[1])
    BY DEF PrintLine
  <2>2. next[1] \in Printable
    BY DEF WatchInv, Grammar, Printable
  <2> QED
    BY <2>1, <2>2
<1>4. /\ Len(printed) \in Nat /\ Len(printed') = Len(printed) + 1
      /\ DOMAIN printed = 1 .. Len(printed) /\ DOMAIN printed' = 1 .. Len(printed) + 1
      /\ \A n \in DOMAIN printed : printed'[n] = printed[n]
  BY <1>3, Appended DEF WatchInv, Grammar
<1>5. InTurn'
  <2> SUFFICES ASSUME NEW w \in Wait, seen[w] # 0
               PROVE  Returned(w)'
    BY <1>2 DEF InTurn
  <2>1. Returned(w) /\ began # -1
    BY DEF WatchInv, InTurn
  <2>2. After(w) \in Nat /\ After(w)' = After(w)
    BY <1>2, <2>1, AfterIsLine DEF After
  <2>3. seen[w] \in 1 .. Len(printed)
    BY <1>4, <2>1 DEF Returned
  <2>4. \A k \in After(w) + 1 .. seen[w] - 1 : k \in DOMAIN printed
    BY <1>4, <2>2, <2>3
  <2>5. NoneBetween(After(w), seen[w], Marker(w)) => NoneBetween(After(w), seen[w], Marker(w))'
    BY <1>2, <1>4, <2>2, <2>4 DEF NoneBetween
  <2>6. printed'[seen[w]] = Marker(w) /\ seen[w] \in DOMAIN printed'
    BY <1>4, <2>1, <2>3 DEF Returned
  <2> QED
    BY <1>2, <2>1, <2>2, <2>5, <2>6 DEF Returned
<1>6. StillAsleep'
  <2>0. seen["entered"] \in Nat /\ began \in -1 .. Len(printed)
    BY WaitIs DEF WatchInv, WaitSet
  <2>1. \A n \in seen["entered"] + 1 .. began : seen["entered"] # 0 => n \in DOMAIN printed
    BY <1>4, <2>0
  <2> QED
    BY <1>2, <1>4, <2>1 DEF WatchInv, StillAsleep
<1>7. FirstScreen'
  <2> SUFFICES ASSUME seen["firmware"] # 0, seen["line1"] # 0
               PROVE  /\ seen["line1"] < seen["firmware"]
                      /\ \A k \in seen["line1"] + 1 .. seen["firmware"] - 1 : printed'[k] # "line1"
    BY <1>2 DEF FirstScreen, NoneBetween
  <2>1. seen["firmware"] \in DOMAIN printed
    BY WaitIs DEF WatchInv, InTurn, Returned, WaitSet
  <2>2. seen["line1"] \in Nat
    BY DEF WatchInv
  <2>3. \A k \in seen["line1"] + 1 .. seen["firmware"] - 1 : k \in DOMAIN printed
    BY <1>4, <2>1, <2>2
  <2> QED
    BY <1>4, <2>3 DEF WatchInv, FirstScreen, NoneBetween
<1> QED
  BY <1>1, <1>2, <1>4, <1>5, <1>6, <1>7 DEF WatchInv, Concluded, FoundNow

LEMMA WaitBeginKeeps ==
  ASSUME WatchInv, BeginWatch
  PROVE  WatchInv'
<1>1. /\ began = -1 /\ conclusion = "none" /\ UNCHANGED <<printed, mode, script, conclusion, missed>>
      /\ \A w \in Wait : seen[w] = 0
  BY DEF BeginWatch, WatchInv
<1>2. Grammar'
  BY <1>1 DEF WatchInv, Grammar, SleepsInTurn, SleepsSoFar, HeadersInTurn, HeaderSoFar,
         OneFirmware, FirmwareSoFar, Before
<1>3. /\ Len(printed) \in Nat /\ DOMAIN printed = 1 .. Len(printed)
      /\ InDeque \subseteq 1 .. Len(printed)
      /\ \A m \in InDeque, n \in 1 .. Len(printed) : m <= n => n \in InDeque
  BY Deque DEF WatchInv, Grammar
<1>4. CurrentSleep = 0 \/
        /\ CurrentSleep \in DOMAIN printed /\ printed[CurrentSleep] = "sleeping"
        /\ \A n \in CurrentSleep + 1 .. Len(printed) : printed[n] # "wakeActive"
  <2> SUFFICES ASSUME CurrentSleep # 0
               PROVE  /\ CurrentSleep \in DOMAIN printed /\ printed[CurrentSleep] = "sleeping"
                      /\ \A n \in CurrentSleep + 1 .. Len(printed) : printed[n] # "wakeActive"
    OBVIOUS
  <2>1. SleepLines # {} /\ SleepLines \subseteq InDeque
    BY DEF CurrentSleep, SleepLines
  <2>2. Max(SleepLines) \in SleepLines
    <3>1. SleepLines \subseteq 0 .. Len(printed) /\ Len(printed) \in Nat
      BY <1>3, <2>1
    <3> QED
      BY <2>1, <3>1, MaxIsGreatest, Zenon
  <2>3. /\ CurrentSleep = Max(SleepLines)
        /\ ~\E n \in InDeque : n > Max(SleepLines) /\ printed[n] \in {"waking", "wakeActive"}
    BY <2>1 DEF CurrentSleep
  <2>4. CurrentSleep \in InDeque /\ printed[CurrentSleep] = "sleeping"
    BY <2>2, <2>3 DEF SleepLines
  <2>5. \A n \in CurrentSleep + 1 .. Len(printed) : n \in InDeque /\ n > CurrentSleep
    BY <1>3, <2>4
  <2> QED
    BY <1>3, <2>3, <2>4, <2>5
<1>5. began' \in 0 .. Len(printed) /\ (script = "cycle" => began' = Len(printed))
  BY <1>3 DEF BeginWatch
<1>6. /\ seen' \in [Wait \cup {"line1"} -> Nat]
      /\ \A w \in Wait : w # "entered" => seen'[w] = 0
      /\ seen'["entered"] \in {0, CurrentSleep}
  <2>1. CurrentSleep \in Nat
    BY <1>3, <1>4
  <2> QED
    BY <1>1, <2>1, WaitIs DEF BeginWatch, WatchInv, WaitSet
<1>7. InTurn'
  <2> SUFFICES ASSUME NEW w \in Wait, seen'[w] # 0
               PROVE  Returned(w)'
    BY DEF InTurn
  <2>1. w = "entered" /\ seen'[w] = CurrentSleep /\ CurrentSleep # 0
    BY <1>6
  <2>2. Marker(w) = "sleeping"
    BY <2>1 DEF Marker
  <2> QED
    BY <1>1, <1>4, <2>1, <2>2 DEF Returned
<1>8. StillAsleep'
  BY <1>1, <1>4, <1>5, <1>6 DEF StillAsleep
<1>9. FirstScreen'
  BY <1>6, WaitIs DEF FirstScreen, WaitSet
<1> QED
  BY <1>1, <1>2, <1>3, <1>5, <1>6, <1>7, <1>8, <1>9 DEF WatchInv, Concluded, FoundNow

\* The line that a wait returns.
LEMMA Looked ==
  ASSUME WatchInv, NEW w \in Wait, See(w)
  PROVE  \E n \in DOMAIN printed :
           /\ n > After(w) /\ printed[n] = Marker(w) /\ n \in InDeque
           /\ seen' = IF w = "firmware" THEN [seen EXCEPT ![w] = n, !["line1"] = LineOne(n)]
                                        ELSE [seen EXCEPT ![w] = n]
           /\ ~missed' => ~missed /\ NoneBetween(After(w), n, Marker(w))
<1>1. Matching(w) # {} /\ began # -1
  BY DEF See, Awaits
<1>2. /\ Len(printed) \in Nat /\ DOMAIN printed = 1 .. Len(printed)
      /\ InDeque \subseteq 1 .. Len(printed)
  BY Deque DEF WatchInv, Grammar
<1>3. Matching(w) \subseteq Nat
  <2>1. Matching(w) \subseteq InDeque
    BY Zenon DEF Matching
  <2>2. \A n \in 1 .. Len(printed) : n \in Nat
    BY <1>2
  <2> QED
    BY <1>2, <2>1, <2>2, Zenon
<1>4. PICK n : n = Min(Matching(w))
  OBVIOUS
<1>5. n \in Matching(w) /\ \A m \in Matching(w) : n <= m
  BY <1>1, <1>3, <1>4, MinIsLeast, Zenon
<1>6. n \in DOMAIN printed /\ n \in InDeque /\ n > After(w) /\ printed[n] = Marker(w)
  BY <1>2, <1>5 DEF Matching
<1>7. /\ seen' = IF w = "firmware" THEN [seen EXCEPT ![w] = n, !["line1"] = LineOne(n)]
                                   ELSE [seen EXCEPT ![w] = n]
      /\ missed' = (missed \/ \E m \in DOMAIN printed \ InDeque :
                                 m > After(w) /\ printed[m] = Marker(w))
  BY <1>4 DEF See
<1>8. ~missed' => ~missed /\ NoneBetween(After(w), n, Marker(w))
  <2> SUFFICES ASSUME ~missed'
               PROVE  ~missed /\ NoneBetween(After(w), n, Marker(w))
    OBVIOUS
  <2>1. ~missed /\ \A m \in DOMAIN printed \ InDeque : ~(m > After(w) /\ printed[m] = Marker(w))
    BY <1>7
  <2>2. ASSUME NEW k \in After(w) + 1 .. n - 1 PROVE printed[k] # Marker(w)
    <3>1. k \in DOMAIN printed /\ k > After(w) /\ k < n
      BY <1>1, <1>2, <1>6, AfterIsLine
    <3>2. k \notin Matching(w)
      BY <1>2, <1>5, <1>6, <3>1
    <3> QED
      BY <2>1, <3>1, <3>2 DEF Matching
  <2> QED
    BY <2>1, <2>2 DEF NoneBetween
<1> QED
  BY <1>6, <1>7, <1>8

LEMMA SeeKeeps ==
  ASSUME WatchInv, NEW w \in Wait, See(w)
  PROVE  WatchInv'
<1>1. PICK n \in DOMAIN printed :
           /\ n > After(w) /\ printed[n] = Marker(w) /\ n \in InDeque
           /\ seen' = IF w = "firmware" THEN [seen EXCEPT ![w] = n, !["line1"] = LineOne(n)]
                                        ELSE [seen EXCEPT ![w] = n]
           /\ ~missed' => ~missed /\ NoneBetween(After(w), n, Marker(w))
  BY Looked
<1>2. /\ UNCHANGED <<printed, mode, script, began, conclusion>>
      /\ seen[w] = 0 /\ began # -1 /\ conclusion = "none" /\ w \in Waits[script]
      /\ StartsAfter(w) # "began" => seen[StartsAfter(w)] # 0
  BY DEF See, Awaits
<1>3. Grammar'
  BY <1>2 DEF WatchInv, Grammar, SleepsInTurn, SleepsSoFar, HeadersInTurn, HeaderSoFar,
         OneFirmware, FirmwareSoFar, Before
<1>4. /\ Len(printed) \in Nat /\ DOMAIN printed = 1 .. Len(printed)
      /\ InDeque \subseteq 1 .. Len(printed)
      /\ \A m \in InDeque, k \in 1 .. Len(printed) : m <= k => k \in InDeque
  BY Deque DEF WatchInv, Grammar
<1>5. LineOne(n) = 0 \/
        /\ LineOne(n) \in DOMAIN printed /\ LineOne(n) < n
        /\ NoneBetween(LineOne(n), n, "line1")
  <2> DEFINE lines == {m \in InDeque : m < n /\ printed[m] = "line1"}
  <2>1. CASE lines = {}
    BY <2>1 DEF LineOne
  <2>2. CASE lines # {}
    <3>1. lines \subseteq 0 .. Len(printed) /\ LineOne(n) = Max(lines)
      <4>1. lines \subseteq InDeque /\ LineOne(n) = Max(lines)
        BY <2>2, Zenon DEF LineOne
      <4>2. \A m \in 1 .. Len(printed) : m \in 0 .. Len(printed)
        BY <1>4
      <4> HIDE DEF lines
      <4> QED
        BY <1>4, <4>1, <4>2, Zenon
    <3>2. PICK last : last = LineOne(n)
      OBVIOUS
    <3>3. last \in lines /\ \A m \in lines : m <= last
      BY <1>4, <2>2, <3>1, <3>2, MaxIsGreatest, Zenon
    <3>4. ASSUME NEW k \in last + 1 .. n - 1 PROVE printed[k] # "line1"
      <4>1. k \in InDeque /\ k < n /\ ~(k <= last)
        BY <1>4, <3>3
      <4> QED
        BY <3>3, <4>1
    <3> QED
      BY <1>4, <3>2, <3>3, <3>4 DEF NoneBetween
  <2> QED
    BY <2>1, <2>2
<1>6. /\ seen' \in [Wait \cup {"line1"} -> Nat]
      /\ \A v \in Wait : v # w => seen'[v] = seen[v]
      /\ seen'[w] = n
      /\ w = "firmware" => seen'["line1"] = LineOne(n)
      /\ w # "firmware" => seen'["line1"] = seen["line1"]
  <2>1. n \in Nat /\ LineOne(n) \in Nat /\ "line1" \notin Wait
    BY <1>4, <1>5, WaitIs DEF WaitSet
  <2>2. seen \in [Wait \cup {"line1"} -> Nat]
    BY DEF WatchInv
  <2> QED
    BY <1>1, <2>1, <2>2
<1>7. InTurn'
  <2> SUFFICES ASSUME NEW v \in Wait, seen'[v] # 0
               PROVE  Returned(v)'
    BY DEF InTurn
  <2>1. v # "entered" =>
          After(v)' = After(v) /\ (StartsAfter(v) # "began" => seen'[StartsAfter(v)] # 0)
    <3>1. CASE v = w
      <4>1. StartsAfter(v) # "began" => seen'[StartsAfter(v)] = seen[StartsAfter(v)]
        BY <1>6, <3>1, StartsElsewhere
      <4> QED
        BY <1>2, <3>1, <4>1 DEF After
    <3>2. CASE v # w /\ v # "entered"
      <4>1. Returned(v)
        BY <1>6, <3>2 DEF WatchInv, InTurn
      <4>2. StartsAfter(v) # "began" => seen[StartsAfter(v)] # 0
        BY <3>2, <4>1 DEF Returned
      <4>3. StartsAfter(v) # "began" => seen'[StartsAfter(v)] = seen[StartsAfter(v)]
        BY <1>2, <1>6, <4>2, StartsElsewhere
      <4> QED
        BY <1>2, <4>2, <4>3 DEF After
    <3> QED
      BY <3>1, <3>2
  <2>2. Marker(v)' = Marker(v)
    BY DEF Marker
  <2>3. CASE v = w
    <3>1. CASE v = "entered"
      BY <1>1, <1>2, <1>6, <2>3, <3>1 DEF Returned, Marker
    <3>2. CASE v # "entered"
      BY <1>1, <1>2, <1>6, <2>1, <2>3, <3>2 DEF Returned, NoneBetween
    <3> QED
      BY <3>1, <3>2
  <2>4. CASE v # w
    <3>1. Returned(v) /\ seen'[v] = seen[v]
      BY <1>6, <2>4 DEF WatchInv, InTurn
    <3>2. ~missed' => ~missed
      BY <1>1
    <3> QED
      BY <1>2, <2>1, <3>1, <3>2 DEF Returned, NoneBetween
  <2> QED
    BY <2>3, <2>4
<1>8. StillAsleep'
  <2>1. CASE w = "entered"
    <3>1. After(w) = began
      BY <2>1, StartPoint DEF After
    <3>2. \A k \in n + 1 .. began : FALSE
      BY <1>1, <1>4, <3>1, <1>2 DEF WatchInv
    <3> QED
      BY <1>2, <1>6, <2>1, <3>2 DEF StillAsleep
  <2>2. CASE w # "entered"
    <3>1. seen'["entered"] = seen["entered"]
      BY <1>6, <2>2, WaitIs DEF WaitSet
    <3> QED
      BY <1>2, <3>1 DEF WatchInv, StillAsleep
  <2> QED
    BY <2>1, <2>2
<1>9. FirstScreen'
  <2>1. CASE w = "firmware"
    BY <1>2, <1>5, <1>6, <2>1 DEF FirstScreen, NoneBetween
  <2>2. CASE w # "firmware"
    <3>1. seen'["firmware"] = seen["firmware"]
      BY <1>6, <2>2, WaitIs DEF WaitSet
    <3> QED
      BY <1>2, <1>6, <2>2, <3>1 DEF WatchInv, FirstScreen, NoneBetween
  <2> QED
    BY <2>1, <2>2
<1>10. missed' \in BOOLEAN
  BY Zenon DEF See
<1> QED
  BY <1>2, <1>3, <1>6, <1>7, <1>8, <1>9, <1>10 DEF WatchInv, Concluded, FoundNow

\* The status loop that is looked at begins after the home menu that was waited for.
LEMMA LoopSince ==
  ASSUME WatchInv, script = "loop", \A w \in Waits[script] : seen[w] # 0, began # -1
  PROVE  \A n \in LoopEvents : n \in began + 1 .. seen["bitmask"]
<1>1. /\ Len(printed) \in Nat /\ DOMAIN printed = 1 .. Len(printed)
      /\ InDeque \subseteq 1 .. Len(printed)
      /\ \A m \in InDeque, k \in 1 .. Len(printed) : m <= k => k \in InDeque
  BY Deque DEF WatchInv, Grammar
<1>2. Returned("home") /\ Returned("start")
  BY WaitsAre, WaitIs DEF WatchInv, InTurn, WaitSet
<1>3. /\ seen["home"] \in DOMAIN printed /\ printed[seen["home"]] = "home"
      /\ seen["start"] \in DOMAIN printed /\ printed[seen["start"]] = "start"
      /\ began < seen["home"] /\ seen["home"] < seen["start"]
  BY <1>2, StartPoint DEF Returned, Marker, After
<1>4. PICK h \in seen["home"] + 1 .. seen["start"] - 1 : printed[h] = "header"
  BY <1>3 DEF WatchInv, Grammar, HeadersInTurn, Before
<1>5. began \in Nat /\ seen["home"] \in Nat /\ seen["start"] \in Nat
      /\ seen["bitmask"] \in Nat
  BY <1>1, <1>3, WaitIs DEF WatchInv, WaitSet
<1>6. CASE Headers = {}
  <2>1. \A n \in LoopEvents : n \in InDeque /\ seen["start"] <= n /\ n <= seen["bitmask"]
    BY <1>6 DEF LoopEvents
  <2>2. ASSUME NEW n \in LoopEvents PROVE n \in began + 1 .. seen["bitmask"]
    <3>1. n \in InDeque /\ seen["start"] <= n /\ n <= seen["bitmask"]
      BY <2>1
    <3>2. n \in Nat
      BY <1>1, <3>1
    <3> QED
      BY <1>3, <1>5, <3>1, <3>2
  <2> QED
    BY <2>2
<1>7. CASE Headers # {}
  <2>1. Headers \subseteq InDeque
    BY Zenon DEF Headers
  <2>2. \A m \in 1 .. Len(printed) : m \in 0 .. Len(printed)
    BY <1>1
  <2>3. Headers \subseteq 0 .. Len(printed)
    BY <1>1, <2>1, <2>2, Zenon
  <2>4. PICK last : last = Max(Headers)
    OBVIOUS
  <2>5. last \in Headers /\ \A m \in Headers : m <= last
    BY <1>1, <1>7, <2>3, <2>4, MaxIsGreatest, Zenon
  <2>6. h <= last
    <3>1. CASE h \in InDeque
      BY <1>4, <1>5, <2>5, <3>1 DEF Headers
    <3>2. CASE h \notin InDeque
      <4>1. last \in InDeque /\ h \in 1 .. Len(printed)
        BY <1>1, <1>3, <1>4, <1>5, <2>1, <2>5
      <4> QED
        BY <1>1, <3>2, <4>1
    <3> QED
      BY <3>1, <3>2
  <2>7. \A n \in LoopEvents : n \in InDeque /\ last <= n /\ n <= seen["bitmask"]
    BY <1>7, <2>4 DEF LoopEvents
  <2>8. last \in Nat
    BY <1>1, <2>1, <2>5
  <2>9. ASSUME NEW n \in LoopEvents PROVE n \in began + 1 .. seen["bitmask"]
    <3>1. n \in InDeque /\ last <= n /\ n <= seen["bitmask"]
      BY <2>7
    <3>2. n \in Nat
      BY <1>1, <3>1
    <3> QED
      BY <1>3, <1>4, <1>5, <2>6, <2>8, <3>1, <3>2
  <2> QED
    BY <2>9
<1> QED
  BY <1>6, <1>7

LEMMA WaitEndKeeps ==
  ASSUME WatchInv, UNCHANGED <<printed, mode, script, began, seen, missed>>,
         began # -1,
         conclusion' = "passed" =>
           /\ \A w \in Waits[script] : seen[w] # 0
           /\ script = "startup" => seen["line1"] # 0
           /\ script = "loop" => \E n \in LoopEvents : printed[n] = "found"
  PROVE  WatchInv'
<1>1. Grammar'
  BY DEF WatchInv, Grammar, SleepsInTurn, SleepsSoFar, HeadersInTurn, HeaderSoFar,
         OneFirmware, FirmwareSoFar, Before
<1>2. InTurn'
  <2>1. ASSUME NEW w \in Wait PROVE Returned(w)' = Returned(w)
    BY DEF Returned, NoneBetween, After
  <2> QED
    BY <2>1 DEF WatchInv, InTurn
<1>3. StillAsleep' /\ FirstScreen'
  BY DEF WatchInv, StillAsleep, FirstScreen, NoneBetween
<1>4. FoundNow'
  BY LoopSince DEF FoundNow
<1> QED
  BY <1>1, <1>2, <1>3, <1>4 DEF WatchInv, Concluded

LEMMA WatchInvStep ==
  ASSUME WatchInv, [WatchNext]_watchVars
  PROVE  WatchInv'
<1>1. CASE PrintLine
  BY <1>1, PrintKeeps
<1>2. CASE BeginWatch
  BY <1>2, WaitBeginKeeps
<1>3. CASE \E w \in Wait : See(w)
  BY <1>3, SeeKeeps
<1>4. CASE Timeout
  <2>1. began # -1
    BY <1>4 DEF Timeout, Awaits
  <2> QED
    BY <1>4, <2>1, WaitEndKeeps DEF Timeout
<1>5. CASE ConcludeWatch
  <2>1. began # -1 /\ (\A w \in Waits[script] : seen[w] # 0)
        /\ UNCHANGED <<printed, mode, script, began, seen, missed>>
    BY <1>5 DEF ConcludeWatch
  <2>2. script = "startup" => (conclusion' = "passed" => seen["line1"] # 0)
    BY <1>5 DEF ConcludeWatch, StartupReady
  <2>3. script = "loop" => (conclusion' = "passed" => \E n \in LoopEvents : printed[n] = "found")
    BY <1>5, Zenon DEF ConcludeWatch, Verify
  <2> QED
    BY <2>1, <2>2, <2>3, WaitEndKeeps
<1>6. CASE UNCHANGED watchVars
  <2>1. CASE began = -1
    <3>1. Grammar'
      BY <1>6 DEF watchVars, WatchInv, Grammar, SleepsInTurn, SleepsSoFar, HeadersInTurn,
         HeaderSoFar, OneFirmware, FirmwareSoFar, Before
    <3> QED
      BY <1>6, <2>1, <3>1, WaitIs DEF watchVars, WatchInv, InTurn, StillAsleep, FirstScreen,
         Concluded, FoundNow, NoneBetween, WaitSet
  <2>2. CASE began # -1
    <3>1. InTurn'
      BY <1>6 DEF watchVars, WatchInv, InTurn, Returned, NoneBetween, After
    <3>2. Grammar'
      BY <1>6 DEF watchVars, WatchInv, Grammar, SleepsInTurn, SleepsSoFar, HeadersInTurn,
         HeaderSoFar, OneFirmware, FirmwareSoFar, Before
    <3> QED
      BY <1>6, <3>1, <3>2 DEF watchVars, WatchInv, StillAsleep, FirstScreen, Concluded,
         FoundNow, NoneBetween
  <2> QED
    BY <2>1, <2>2
<1> QED
  BY <1>1, <1>2, <1>3, <1>4, <1>5, <1>6 DEF WatchNext

LEMMA WatchInvariant == WatchSpec => []WatchInv
<1>1. WatchInit => WatchInv
  <2> SUFFICES ASSUME WatchInit PROVE WatchInv
    OBVIOUS
  <2>1. printed = <<>> /\ <<>> \in Seq(Printable) /\ Len(<<>>) = 0 /\ DOMAIN <<>> = {}
    BY DEF WatchInit
  <2>2. mode \in DOMAIN Prints
    BY DEF WatchInit, Prints
  <2>3. Grammar
    BY <2>1, <2>2 DEF Grammar, SleepsInTurn, SleepsSoFar, HeadersInTurn, HeaderSoFar,
       OneFirmware, FirmwareSoFar
  <2>4. /\ script \in Script /\ began = -1 /\ conclusion = "none" /\ missed = FALSE
        /\ seen \in [Wait \cup {"line1"} -> Nat]
        /\ \A w \in Wait \cup {"line1"} : seen[w] = 0
    BY DEF WatchInit
  <2>5. InTurn /\ StillAsleep /\ FirstScreen /\ Concluded /\ FoundNow
    BY <2>4, WaitIs DEF InTurn, StillAsleep, FirstScreen, Concluded, FoundNow, WaitSet
  <2>6. began \in -1 .. Len(printed)
    BY <2>1, <2>4
  <2>7. missed \in BOOLEAN /\ (began = -1 => conclusion = "none" /\ \A w \in Wait : seen[w] = 0)
    BY <2>4, Zenon
  <2> QED
    BY <2>3, <2>4, <2>5, <2>6, <2>7 DEF WatchInv
<1> QED
  BY <1>1, WatchInvStep, PTL DEF WatchSpec

-----------------------------------------------------------------------------
LEMMA LineOneIsLine ==
  ASSUME printed \in Seq(Printable), NEW firmware \in Nat
  PROVE  LineOne(firmware) \in 0 .. Len(printed)
<1> DEFINE lines == {n \in InDeque : n < firmware /\ printed[n] = "line1"}
<1>1. lines \subseteq 0 .. Len(printed) /\ Len(printed) \in Nat
  BY Deque
<1>2. CASE lines = {}
  BY <1>1, <1>2 DEF LineOne
<1>3. CASE lines # {}
  <2>1. Max(lines) \in lines
    BY <1>1, <1>3, MaxIsGreatest
  <2> QED
    BY <1>1, <1>3, <2>1 DEF LineOne
<1> QED
  BY <1>2, <1>3

LEMMA SleepIsLine ==
  ASSUME printed \in Seq(Printable)
  PROVE  CurrentSleep \in 0 .. Len(printed)
<1>1. SleepLines \subseteq 0 .. Len(printed) /\ Len(printed) \in Nat
  BY Deque DEF SleepLines
<1>2. CASE SleepLines = {}
  BY <1>1, <1>2 DEF CurrentSleep
<1>3. CASE SleepLines # {}
  <2>1. Max(SleepLines) \in 0 .. Len(printed)
    BY <1>1, <1>3, MaxIsGreatest
  <2> QED
    BY <1>1, <1>3, <2>1 DEF CurrentSleep
<1> QED
  BY <1>2, <1>3

\* A wait returns a line that was printed, however the deque has moved on since.
THEOREM WatchTypeCorrect == WatchSpec => []WatchTypeOK
<1>1. WatchInit => WatchTypeOK
  <2> SUFFICES ASSUME WatchInit PROVE WatchTypeOK
    OBVIOUS
  <2>1. mode \in DOMAIN Prints
    BY DEF WatchInit, Prints
  <2>2. Len(printed) = 0 /\ began \in -1 .. MaxPrinted
    BY WatchAssumption DEF WatchInit
  <2>3. seen \in [Wait \cup {"line1"} -> 0 .. MaxPrinted]
    BY WatchAssumption DEF WatchInit
  <2>4. missed \in BOOLEAN
    BY Zenon DEF WatchInit
  <2> QED
    BY <2>1, <2>2, <2>3, <2>4, WatchAssumption DEF WatchInit, WatchTypeOK
<1>2. WatchInv /\ WatchTypeOK /\ [WatchNext]_watchVars => WatchTypeOK'
  <2> SUFFICES ASSUME WatchInv, WatchTypeOK, [WatchNext]_watchVars PROVE WatchTypeOK'
    OBVIOUS
  <2> USE DEF WatchTypeOK
  <2>1. /\ printed \in Seq(Printable) /\ Len(printed) \in Nat /\ Len(printed) <= MaxPrinted
        /\ MaxPrinted \in Nat
    BY WatchAssumption, Deque DEF WatchInv, Grammar
  <2>2. CASE PrintLine
    <3>1. Grammar'
      BY <2>2, GrammarStep DEF WatchInv
    <3>2. PICK x : printed' = Append(printed, x)
      BY <2>2 DEF PrintLine
    <3>3. Len(printed') = Len(printed) + 1
      BY <2>1, <3>2
    <3> QED
      BY <2>1, <2>2, <3>1, <3>3 DEF PrintLine, Grammar
  <2>3. CASE BeginWatch
    <3>1. CurrentSleep \in 0 .. MaxPrinted
      BY <2>1, SleepIsLine
    <3>2. began' \in -1 .. MaxPrinted
      BY <2>1, <2>3 DEF BeginWatch
    <3>3. seen' \in [Wait \cup {"line1"} -> 0 .. MaxPrinted]
      BY <2>3, <3>1 DEF BeginWatch
    <3>4. UNCHANGED <<printed, mode, script, conclusion, missed>>
      BY <2>3 DEF BeginWatch
    <3> QED
      BY <3>2, <3>3, <3>4
  <2>4. ASSUME NEW w \in Wait, See(w) PROVE WatchTypeOK'
    <3> DEFINE line == Min(Matching(w))
    <3>1. Matching(w) \subseteq Nat /\ Matching(w) \subseteq 0 .. MaxPrinted
      BY <2>1, Deque DEF Matching
    <3>2. line \in Nat /\ line \in 0 .. MaxPrinted
      BY <2>4, <3>1, MinIsLeast DEF See
    <3>3. LineOne(line) \in 0 .. MaxPrinted
      BY <2>1, <3>2, LineOneIsLine
    <3>4. missed' \in BOOLEAN
      BY <2>4, Zenon DEF See
    <3>5. seen' \in [Wait \cup {"line1"} -> 0 .. MaxPrinted]
      <4> HIDE DEF line
      <4> QED
        BY <2>4, <3>2, <3>3 DEF See, line
    <3> QED
      BY <2>4, <3>4, <3>5 DEF See
  <2>5. CASE Timeout
    BY <2>5 DEF Timeout
  <2>6. CASE ConcludeWatch
    <3>1. conclusion' \in {"none", "passed", "failed", "unavailable"}
      BY <2>6 DEF ConcludeWatch, ConcludeRetry, Verify, StartupReady
    <3> QED
      BY <2>6, <3>1 DEF ConcludeWatch
  <2>7. CASE UNCHANGED watchVars
    BY <2>7 DEF watchVars
  <2> QED
    BY <2>2, <2>3, <2>4, <2>5, <2>6, <2>7 DEF WatchNext
<1> QED
  BY <1>1, <1>2, WatchInvariant, PTL DEF WatchSpec

-----------------------------------------------------------------------------
\* Nothing of the sleep cycle lies between two lines that follow each other in it.
LEMMA NothingBetween ==
  ASSUME Grammar, NEW m \in DOMAIN printed, NEW n \in DOMAIN printed,
         printed[m] \in SleepLine, NoneBetween(m, n, Following(printed[m]))
  PROVE  \A k \in m + 1 .. n - 1 : printed[k] \notin SleepLine
<1> SUFFICES ASSUME NEW k \in m + 1 .. n - 1, printed[k] \in SleepLine
             PROVE  FALSE
  OBVIOUS
<1>1. Len(printed) \in Nat /\ DOMAIN printed = 1 .. Len(printed)
  BY DEF Grammar
<1>2. k \in DOMAIN printed /\ m < k /\ printed[k] # Following(printed[m])
  BY <1>1 DEF NoneBetween
<1>3. PICK j \in m + 1 .. k - 1 : printed[j] = Following(printed[m])
  BY <1>2 DEF Grammar, SleepsInTurn, Before
<1> QED
  BY <1>1, <1>3 DEF NoneBetween

(* A sleep cycle that is reported is one, however far the waits lag behind   *)
(* the log -- unless a line had left the deque before they looked.           *)
THEOREM CycleIsOne == WatchSpec => []OneCycle
<1>1. ASSUME WatchInv PROVE OneCycle
  <2> SUFFICES ASSUME script = "cycle", conclusion = "passed", ~missed
               PROVE  /\ began < seen["wakeActive"]
                      /\ {n \in seen["entered"] .. seen["returned"] : printed[n] \in SleepLine}
                           = {seen[w] : w \in Waits["cycle"]}
    BY DEF OneCycle, SleepLine
  <2> DEFINE e == seen["entered"]
             a == seen["wakeActive"]
             f == seen["wakeFinished"]
             r == seen["returned"]
  <2>1. Returned("entered") /\ Returned("wakeActive") /\ Returned("wakeFinished")
        /\ Returned("returned") /\ e # 0
    BY <1>1, WaitsAre, WaitIs DEF WatchInv, Concluded, InTurn, WaitSet
  <2>2. Len(printed) \in Nat /\ DOMAIN printed = 1 .. Len(printed)
        /\ e \in DOMAIN printed /\ a \in DOMAIN printed
        /\ f \in DOMAIN printed /\ r \in DOMAIN printed
    BY <1>1, <2>1, Deque DEF Returned, WatchInv, Grammar
  <2>3. /\ printed[e] = "sleeping" /\ printed[a] = "wakeActive"
        /\ printed[f] = "wakeFinished" /\ printed[r] = "sleeping"
    BY <2>1 DEF Returned, Marker
  <2>4. /\ e < a /\ NoneBetween(e, a, "wakeActive")
        /\ a < f /\ NoneBetween(a, f, "wakeFinished")
        /\ f < r /\ NoneBetween(f, r, "sleeping")
    BY <2>1, StartPoint DEF Returned, After, Marker
  <2>5. began < a
    <3>1. began \in Int
      BY <1>1, <2>2 DEF WatchInv
    <3>2. \A n \in e + 1 .. began : printed[n] # "wakeActive"
      BY <1>1, <2>1 DEF WatchInv, StillAsleep
    <3> QED
      BY <2>2, <2>3, <2>4, <3>1, <3>2
  <2>6. /\ \A k \in e + 1 .. a - 1 : printed[k] \notin SleepLine
        /\ \A k \in a + 1 .. f - 1 : printed[k] \notin SleepLine
        /\ \A k \in f + 1 .. r - 1 : printed[k] \notin SleepLine
    <3>1. printed[e] \in SleepLine /\ printed[a] \in SleepLine /\ printed[f] \in SleepLine
      BY <2>3 DEF SleepLine
    <3>2. Following(printed[e]) = "wakeActive" /\ Following(printed[a]) = "wakeFinished"
          /\ Following(printed[f]) = "sleeping"
      BY <2>3, SleepTurn
    <3> QED
      BY <1>1, <2>2, <2>4, <3>1, <3>2, NothingBetween DEF WatchInv
  <2>7. {seen[w] : w \in Waits["cycle"]} = {e, a, f, r}
    BY WaitsAre
  <2> HIDE DEF e, a, f, r
  <2>8. ASSUME NEW n \in e .. r, printed[n] \in SleepLine PROVE n \in {e, a, f, r}
    BY <2>2, <2>4, <2>6, <2>8
  <2>9. ASSUME NEW n \in {e, a, f, r} PROVE n \in e .. r /\ printed[n] \in SleepLine
    BY <2>2, <2>3, <2>4 DEF SleepLine
  <2> QED
    BY <2>5, <2>7, <2>8, <2>9 DEF e, a, r
<1> QED
  BY <1>1, WatchInvariant, PTL

(* Equipment that is verified was found by a status loop of the test.        *)
THEOREM LoopIsNow == WatchSpec => []FoundNow
<1>1. WatchInv => FoundNow
  BY DEF WatchInv
<1> QED
  BY <1>1, WatchInvariant, PTL

(* The panel's type and firmware are read from one screen, however far the   *)
(* tasks of the startup lag behind the log.                                  *)
THEOREM ScreenIsOne == WatchSpec => []OneScreen
<1>1. ASSUME WatchInv PROVE OneScreen
  <2> SUFFICES ASSUME script = "startup", conclusion = "passed", ~missed
               PROVE  /\ seen["line1"] < seen["firmware"] /\ seen["firmware"] < seen["line5"]
                      /\ \A n \in seen["line1"] + 1 .. seen["line5"] - 1 : printed[n] # "line1"
                      /\ \A n \in seen["firmware"] .. seen["line5"] - 1 : printed[n] # "line5"
    BY DEF OneScreen
  <2>1. seen["firmware"] # 0 /\ seen["line1"] # 0
    BY <1>1, WaitsAre DEF WatchInv, Concluded
  <2>2. Returned("firmware") /\ Returned("line5")
    BY <1>1, WaitsAre, WaitIs DEF WatchInv, Concluded, InTurn, WaitSet
  <2>3. Len(printed) \in Nat /\ DOMAIN printed = 1 .. Len(printed)
        /\ seen["firmware"] \in DOMAIN printed /\ seen["line5"] \in DOMAIN printed
        /\ printed[seen["firmware"]] = "firmware"
    BY <1>1, <2>2, Deque DEF Returned, Marker, WatchInv, Grammar
  <2>4. seen["firmware"] < seen["line5"]
        /\ NoneBetween(seen["firmware"], seen["line5"], "line5")
    BY <2>2, StartPoint DEF Returned, After, Marker
  <2>5. seen["line1"] < seen["firmware"]
        /\ NoneBetween(seen["line1"], seen["firmware"], "line1") /\ seen["line1"] \in Nat
    BY <1>1, <2>1 DEF WatchInv, FirstScreen
  <2>6. ASSUME NEW n \in seen["line1"] + 1 .. seen["line5"] - 1 PROVE printed[n] # "line1"
    <3>1. n \in DOMAIN printed
      BY <2>3, <2>5
    <3> QED
      BY <1>1, <2>3, <2>5, <3>1 DEF NoneBetween, WatchInv, Grammar, OneFirmware
  <2>7. ASSUME NEW n \in seen["firmware"] .. seen["line5"] - 1 PROVE printed[n] # "line5"
    BY <2>3, <2>4 DEF NoneBetween
  <2> QED
    BY <2>4, <2>5, <2>6, <2>7
<1> QED
  BY <1>1, WatchInvariant, PTL

-----------------------------------------------------------------------------
(* PanelTime: what the two computations of a difference of clock readings    *)
(* compute.                                                                  *)

LEMMA InRange == \A m \in Int : \A n \in 0 .. m : n \in Int /\ 0 <= n /\ n <= m
OBVIOUS

LEMMA Bounds ==
  /\ \A n \in DayMinute : n \in Int /\ 0 <= n /\ n <= 1439
  /\ \A n \in DaySecond : n \in Int /\ 0 <= n /\ n <= 86399
<1> DEFINE lastMinute == 1439
           lastSecond == 86399
<1>1. /\ lastMinute \in Int /\ DayMinute = 0 .. lastMinute
      /\ lastSecond \in Int /\ DaySecond = 0 .. lastSecond
  BY DEF DayMinute, DaySecond
<1>2. lastMinute = 1439 /\ lastSecond = 86399
  OBVIOUS
<1> HIDE DEF lastMinute, lastSecond
<1>3. \A n \in DayMinute : n \in Int /\ 0 <= n /\ n <= lastMinute
  BY <1>1, InRange, Zenon
<1>4. \A n \in DaySecond : n \in Int /\ 0 <= n /\ n <= lastSecond
  BY <1>1, InRange, Zenon
<1> QED
  BY <1>2, <1>3, <1>4

\* The readings are integers.
LEMMA Readings ==
  ASSUME NEW panel \in DayMinute, NEW host \in DaySecond
  PROVE  /\ panel \in Int /\ 0 <= panel /\ panel <= 1439
         /\ host \in Int /\ 0 <= host /\ host <= 86399
BY Bounds

LEMMA ModuloDay ==
  ASSUME NEW n \in Int, 0 - 720 <= n, n <= 2159
  PROVE  /\ n % 1440 \in Int /\ 0 <= n % 1440 /\ n % 1440 <= 1439
         /\ \E days \in {-1, 0, 1} : n % 1440 = n + 1440 * days
OBVIOUS

\* The host's reading: its minute, and the second of that minute.
Minute(host) == host \div 60
Second(host) == host % 60

LEMMA HostParts ==
  ASSUME NEW host \in DaySecond
  PROVE  /\ Minute(host) \in Int /\ 0 <= Minute(host) /\ Minute(host) <= 1439
         /\ Second(host) \in Int /\ 0 <= Second(host) /\ Second(host) <= 59
         /\ host = 60 * Minute(host) + Second(host)
<1>1. host \in Int /\ 0 <= host /\ host <= 86399
  BY Bounds
<1> QED
  BY <1>1 DEF Minute, Second

\* The minutes differ from the panel's by a whole number of days.
LEMMA DeltaCongruent ==
  ASSUME NEW panel \in DayMinute, NEW host \in DaySecond
  PROVE  /\ MinuteDelta(panel, host) \in Int
         /\ 0 - 720 <= MinuteDelta(panel, host) /\ MinuteDelta(panel, host) <= 719
         /\ \E days \in {-1, 0, 1} :
               MinuteDelta(panel, host) = panel - Minute(host) + 1440 * days
<1>1. /\ panel \in Int /\ 0 <= panel /\ panel <= 1439
      /\ Minute(host) \in Int /\ 0 <= Minute(host) /\ Minute(host) <= 1439
  BY Readings, HostParts
<1>2. PICK shifted \in Int : shifted = panel - Minute(host) + 720
  BY <1>1
<1>3. 0 - 720 <= shifted /\ shifted <= 2159
  BY <1>1, <1>2
<1>4. PICK turned \in Int : turned = shifted % 1440
  BY <1>3, ModuloDay
<1>5. 0 <= turned /\ turned <= 1439 /\ \E days \in {-1, 0, 1} : turned = shifted + 1440 * days
  BY <1>3, <1>4, ModuloDay
<1>6. MinuteDelta(panel, host) = turned - 720
  BY <1>2, <1>4 DEF MinuteDelta, Minute
<1> QED
  BY <1>1, <1>2, <1>5, <1>6

\* So does the boundary error, in seconds, and it is less than half a day and a minute.
LEMMA ErrorCongruent ==
  ASSUME NEW panel \in DayMinute, NEW host \in DaySecond
  PROVE  /\ BoundaryError(panel, host) \in Int
         /\ 0 - 43140 <= BoundaryError(panel, host)
         /\ BoundaryError(panel, host) <= 43259
         /\ \E days \in {-1, 0, 1} :
               BoundaryError(panel, host) = host - 60 * panel - 86400 * days
<1>1. PICK delta \in Int : delta = MinuteDelta(panel, host)
  BY DeltaCongruent
<1>2. PICK minute \in Int, second \in Int : minute = Minute(host) /\ second = Second(host)
  BY HostParts
<1>3. /\ 0 - 720 <= delta /\ delta <= 719
      /\ \E days \in {-1, 0, 1} : delta = panel - minute + 1440 * days
  BY <1>1, <1>2, DeltaCongruent
<1>4. 0 <= second /\ second <= 59 /\ host = 60 * minute + second
  BY <1>2, HostParts
<1>5. BoundaryError(panel, host) = second - 60 * delta
  BY <1>1, <1>2 DEF BoundaryError, Second
<1>6. \E days \in {-1, 0, 1} : second - 60 * delta = host - 60 * panel - 86400 * days
  BY <1>3, <1>4, Readings
<1> QED
  BY <1>3, <1>4, <1>5, <1>6

\* The boundary error is the lateness of the panel's turn, at every minute of the day:
\* a turn that the host sees up to half a day early or late, on whichever side of
\* midnight the two readings are.
THEOREM BoundaryErrorIsLateness ==
  ASSUME NEW panel \in DayMinute, NEW host \in DaySecond, NEW late \in Int,
         60 - HalfDay <= late, late <= HalfDay,
         NEW days \in {-1, 0, 1}
  PROVE  host = 60 * panel + late + Day * days => BoundaryError(panel, host) = late
<1>1. 0 - 43140 <= late /\ late <= 43200
  BY DEF HalfDay
<1>2. PICK error \in Int : error = BoundaryError(panel, host)
  BY ErrorCongruent
<1>3. 0 - 43140 <= error /\ error <= 43259
  BY <1>2, ErrorCongruent
<1>4. \E other \in {-1, 0, 1} :
         BoundaryError(panel, host) = host - 60 * panel - 86400 * other
  BY ErrorCongruent
<1>5. PICK other \in {-1, 0, 1} : error = host - 60 * panel - 86400 * other
  BY <1>2, <1>4
<1>6. panel \in Int /\ host \in Int
  BY Readings
<1>7. HAVE host = 60 * panel + late + Day * days
<1>8. host = 60 * panel + late + 86400 * days
  BY <1>7 DEF Day
<1>9. error = late + 86400 * days - 86400 * other
  BY <1>5, <1>6, <1>8
<1>10. error = late
  BY <1>1, <1>3, <1>9
<1> QED
  BY <1>2, <1>10

\* Both computations of the difference agree, for every pair of readings: which of the
\* two a check uses makes no difference, at midnight either.
THEOREM DistanceAgrees ==
  ASSUME NEW panel \in DayMinute, NEW host \in DaySecond
  PROVE  /\ TimeDifference(panel, host) = IdentityDifference(panel, host)
         /\ 0 <= TimeDifference(panel, host) /\ TimeDifference(panel, host) <= HalfDay
<1>1. PICK error \in Int : error = BoundaryError(panel, host)
  BY ErrorCongruent
<1>2. 0 - 43140 <= error /\ error <= 43259
  BY <1>1, ErrorCongruent
<1>3. PICK days \in {-1, 0, 1} : error = host - 60 * panel - 86400 * days
  BY <1>1, ErrorCongruent
<1>4. 60 * panel - host \in Int
  BY Readings
<1>5. PICK apart \in Int : apart = 60 * panel - host
  BY <1>4
<1>6. 0 - 86399 <= apart /\ apart <= 86399
  BY <1>5, Readings
<1>7. error = 0 - apart - 86400 * days
  BY <1>3, <1>5, Readings
<1>8. Wrapped(Magnitude(error)) = Wrapped(Magnitude(apart))
  BY <1>2, <1>6, <1>7 DEF Wrapped, Magnitude, Day
<1>9. 0 <= Wrapped(Magnitude(error)) /\ Wrapped(Magnitude(error)) <= HalfDay
  BY <1>2 DEF Wrapped, Magnitude, Day, HalfDay
<1> QED
  BY <1>1, <1>5, <1>8, <1>9 DEF TimeDifference, IdentityDifference
=============================================================================
