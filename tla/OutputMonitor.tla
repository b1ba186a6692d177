---------------------------- MODULE OutputMonitor ----------------------------
(***************************************************************************)
(* OutputMonitor of adapters/process.py: the readers publish AqualinkD's   *)
(* output line by line, and tasks wait for the first line after a cursor   *)
(* that holds one of their markers.  The deque of retained events is the   *)
(* tail of everything published so far, `log`, and _sequence its length.   *)
(***************************************************************************)
EXTENDS Naturals, Sequences

CONSTANTS
  Waiter,       \* the tasks that wait
  Line,         \* what a line may hold: a marker, or something else
  HistorySize,  \* maxlen of the deque
  MaxLines      \* bound on the lines published in one behaviour

ASSUME MonitorAssumption == HistorySize \in Nat \ {0} /\ MaxLines \in Nat

VARIABLES
  log,      \* the lines published
  wait,     \* wait[w]: w's call of wait_for or wait_for_any
  skipped   \* History variable: lines that left the deque before w looked at them

monitorVars == <<log, wait, skipped>>

\* "ready": w holds the lock next; "asleep": in condition.wait().
WaitState == {"off", "ready", "asleep", "found", "expired"}

Idle == [state |-> "off", markers |-> {}, after |-> 0, cursor |-> 0, event |-> 0]

Calls(w) == wait[w].state \in {"ready", "asleep"}

\* The sequence numbers in the deque.
Retained == {n \in DOMAIN log : n + HistorySize > Len(log)}

Matches(n, markers) == log[n] \in markers

-----------------------------------------------------------------------------
MonitorInit ==
  /\ log = <<>>
  /\ wait = [w \in Waiter |-> Idle]
  /\ skipped = [w \in Waiter |-> {}]

\* Mutant: nobody is told of the new line.
PublishQuietly(l) ==
  /\ Len(log) < MaxLines
  /\ log' = Append(log, l)
  /\ UNCHANGED <<wait, skipped>>

Publish(l) ==
  /\ Len(log) < MaxLines
  /\ log' = Append(log, l)
  /\ wait' = [w \in Waiter |->
                IF wait[w].state = "asleep" THEN [wait[w] EXCEPT !.state = "ready"]
                                            ELSE wait[w]]
  /\ UNCHANGED skipped

Call(markers, after) ==
  [state |-> "ready", markers |-> markers, after |-> after, cursor |-> after, event |-> 0]

\* Mutant: the event at the cursor counts as well.
CandidatesFrom(w) ==
  {n \in Retained : n >= wait[w].cursor /\ Matches(n, wait[w].markers)}

\* The retained events after the cursor that w waits for.
Candidates(w) ==
  {n \in Retained : n > wait[w].cursor /\ Matches(n, wait[w].markers)}

Found(w) ==
  \E n \in Candidates(w) :
    /\ \A m \in Candidates(w) : n <= m
    /\ wait' = [wait EXCEPT ![w].state = "found", ![w].event = n]

FallAsleep(w) ==
  /\ Candidates(w) = {}
  /\ wait' = [wait EXCEPT ![w].state = "asleep",
                          ![w].cursor = IF @ > Len(log) THEN @ ELSE Len(log)]

\* With the lock: return the first candidate, or sleep until the next event.
Look(w) ==
  /\ wait[w].state = "ready"
  /\ Found(w) \/ FallAsleep(w)
  /\ skipped' = [skipped EXCEPT ![w] =
       @ \cup {n \in DOMAIN log \ Retained : n > wait[w].cursor}]
  /\ UNCHANGED log

\* asyncio.wait_for cancels the wait, wherever it stands.
Expire(w) ==
  /\ Calls(w)
  /\ wait' = [wait EXCEPT ![w].state = "expired"]
  /\ UNCHANGED <<log, skipped>>

-----------------------------------------------------------------------------
(* Properties. *)

MonitorTypeOK ==
  /\ log \in Seq(Line) /\ Len(log) <= MaxLines
  /\ wait \in [Waiter -> [state : WaitState, markers : SUBSET Line,
                          after : 0 .. MaxLines, cursor : 0 .. MaxLines,
                          event : 0 .. MaxLines]]
  /\ skipped \in [Waiter -> SUBSET (1 .. MaxLines)]

\* Every line with w's markers between its cursor's start and n was skipped.
NoneBefore(w, n) ==
  \A m \in DOMAIN log :
    m > wait[w].after /\ m < n /\ Matches(m, wait[w].markers) => m \in skipped[w]

\* wait_for returns the first line after the cursor that matches -- of those
\* that it did not come too late for, because more than a deque of lines was
\* published while it was not scheduled.
FirstMatch ==
  \A w \in Waiter : wait[w].state = "found" =>
    /\ wait[w].event \in DOMAIN log
    /\ wait[w].event > wait[w].after
    /\ Matches(wait[w].event, wait[w].markers)
    /\ NoneBefore(w, wait[w].event)

\* No lost wake-up: a task asleep has looked at everything published.
AsleepSawAll ==
  \A w \in Waiter : wait[w].state = "asleep" => NoneBefore(w, Len(log) + 1)
=============================================================================
