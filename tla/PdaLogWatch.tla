---------------------------- MODULE PdaLogWatch ----------------------------
(***************************************************************************)
(* What the validator concludes from AqualinkD's log of a PDA session:     *)
(* PdaSleepWakeService (protocols/pda/sleep.py), the EQUIPMENT STATUS loop *)
(* of PdaEquipmentStatusService (equipment_status.py, status_exercise.py)  *)
(* and the startup (session.py, startup.py, identity.py).                  *)
(*                                                                         *)
(* Each of them is a chain of waits, and each wait starts after the line   *)
(* that an earlier one found.  A wait returns the first line that matches  *)
(* and is still in the deque when the task gets to look (FirstMatch of     *)
(* OutputMonitor); meanwhile AqualinkD goes on printing.                   *)
(***************************************************************************)
EXTENDS Integers, Sequences, FiniteSets, FiniteSetsExt

CONSTANTS
  DequeSize,   \* lines that the monitor retains
  MaxPrinted   \* bound on the lines of one behaviour

ASSUME WatchAssumption == DequeSize \in Nat \ {0} /\ MaxPrinted \in Nat

VARIABLES
  printed,    \* AqualinkD's lines
  mode,       \* where AqualinkD stands
  script,     \* what the validator observes
  began,     \* events.cursor when it began, -1 before
  seen,       \* the lines its waits returned, 0 before
  conclusion,    \* "none", "passed", "failed" or "unavailable"
  missed      \* History variable: a line left the deque before the wait for it looked

watchVars == <<printed, mode, script, began, seen, conclusion, missed>>

-----------------------------------------------------------------------------
(* AqualinkD, external: the lines that it may print next, and what follows.   *)
(* A status loop may be abandoned for a programmer, which ends at the home    *)
(* menu; every menu line is printed as the panel sends it.                    *)

Prints ==
  [boot   |-> {<<"version", "typed">>},
   typed  |-> {<<"web", "served">>}, served |-> {<<"active", "init">>},
   init   |-> {<<"line1", "init">>, <<"line5", "init">>, <<"firmware", "screen">>},
   screen |-> {<<"line5", "shown">>},
   shown  |-> {<<"line5", "shown">>, <<"finished", "awake">>},
   awake  |-> {<<"home", "home">>, <<"sleeping", "asleep">>},
   home   |-> {<<"home", "home">>, <<"header", "status">>, <<"sleeping", "asleep">>},
   status |-> {<<"found", "status">>, <<"start", "loop">>, <<"home", "home">>},
   loop   |-> {<<"found", "loop">>, <<"end", "ended">>, <<"home", "home">>},
   ended  |-> {<<"bitmask", "awake">>},
   asleep |-> {<<"retry", "asleep">>, <<"probe", "asleep">>, <<"waking", "woken">>},
   woken  |-> {<<"wakeActive", "wakeInit">>},
   wakeInit |-> {<<"wakeFinished", "awake">>}]

Script == {"cycle", "retry", "probe", "loop", "startup"}

\* The waits of each script.  The daemon's version and the configured panel are awaited
\* alike; "version" stands for both.
Waits ==
  [cycle   |-> {"entered", "wakeActive", "wakeFinished", "returned"},
   retry   |-> {"entered"},
   probe   |-> {"entered", "probe"},
   loop    |-> {"home", "start", "end", "bitmask"},
   startup |-> {"version", "web", "active", "finished", "firmware", "line5"}]

Wait == UNION {Waits[s] : s \in Script}

Marker(w) == IF w \in {"entered", "returned"} THEN "sleeping" ELSE w

Sleeping == {"cycle", "retry", "probe"}

WatchInit ==
  /\ printed = <<>> /\ script \in Script
  /\ mode \in IF script = "startup" THEN {"boot"} ELSE {"awake", "asleep", "home"}
  /\ began = -1
  /\ seen = [w \in Wait \cup {"line1"} |-> 0]
  /\ conclusion = "none" /\ missed = FALSE

\* Lines that a script does not look at only push others out of the deque, which the
\* lines it does look at do as well.
Ignored ==
  [cycle |-> {"home", "retry", "probe"}, retry |-> {"home"}, probe |-> {"home", "retry"},
   loop |-> {"sleeping"}, startup |-> {"home"}]

PrintLine ==
  /\ Len(printed) < MaxPrinted /\ conclusion = "none"
  /\ \E next \in Prints[mode] :
       /\ next[1] \notin Ignored[script]
       /\ printed' = Append(printed, next[1]) /\ mode' = next[2]
  /\ UNCHANGED <<script, began, seen, conclusion, missed>>

InDeque == {n \in DOMAIN printed : n + DequeSize > Len(printed)}

-----------------------------------------------------------------------------
(* sleep.py *)

SleepLines == {n \in InDeque : printed[n] = "sleeping"}

\* Mutant: a wake line after it is not looked for.
LastSleep == IF SleepLines = {} THEN 0 ELSE Max(SleepLines)

\* _current_sleep_event: the last sleep line, unless it woke since.
CurrentSleep ==
  IF SleepLines = {} THEN 0
  ELSE LET last == Max(SleepLines) IN
       IF \E n \in InDeque : n > last /\ printed[n] \in {"waking", "wakeActive"}
       THEN 0 ELSE last

\* The cursor is taken; a PDA that is asleep already is not waited for.  The startup
\* waits from the first line on.
BeginWatch ==
  /\ began = -1
  /\ began' = IF script = "startup" THEN 0 ELSE Len(printed)
  /\ seen' = IF script \in Sleeping THEN [seen EXCEPT !["entered"] = CurrentSleep] ELSE seen
  /\ UNCHANGED <<printed, mode, script, conclusion, missed>>

\* wait_for_status_retry_window, after its delay.
ConcludeRetry ==
  LET since == {printed[n] : n \in {m \in InDeque : m > seen["entered"]}} IN
  conclusion' = IF "probe" \in since THEN "failed"
             ELSE IF "retry" \in since THEN "passed" ELSE "unavailable"

-----------------------------------------------------------------------------
(* equipment_status.py *)

Headers == {n \in InDeque : printed[n] = "header" /\ n < seen["start"]}

\* Mutant: the first header in the deque.
LoopFromFirst ==
  LET first == IF Headers = {} THEN seen["start"] ELSE Min(Headers) IN
  {n \in InDeque : first <= n /\ n <= seen["bitmask"]}

\* _loop_events: from the last header before the marker of the loop.
LoopEvents ==
  LET first == IF Headers = {} THEN seen["start"] ELSE Max(Headers) IN
  {n \in InDeque : first <= n /\ n <= seen["bitmask"]}

\* parse, _presence, and the states that are compared with the stable snapshot.
Verify ==
  \E agrees \in BOOLEAN :
    conclusion' = IF agrees /\ \E n \in LoopEvents : printed[n] = "found"
               THEN "passed" ELSE "failed"

-----------------------------------------------------------------------------
(* The waits. *)

\* Mutant: line 5 is waited for from the beginning.
StartsAfterFirmware(w) ==
  CASE w = "wakeActive" -> "entered" [] w = "wakeFinished" -> "wakeActive"
    [] w = "returned" -> "wakeFinished" [] w = "probe" -> "entered"
    [] w = "start" -> "home" [] w = "end" -> "start" [] w = "bitmask" -> "end"
    [] w = "finished" -> "active" [] OTHER -> "began"

\* The wait whose line it starts after.
StartsAfter(w) ==
  CASE w = "wakeActive" -> "entered" [] w = "wakeFinished" -> "wakeActive"
    [] w = "returned" -> "wakeFinished" [] w = "probe" -> "entered"
    [] w = "start" -> "home" [] w = "end" -> "start" [] w = "bitmask" -> "end"
    [] w = "finished" -> "active" [] w = "line5" -> "firmware"
    [] OTHER -> "began"

After(w) == IF StartsAfter(w) = "began" THEN began ELSE seen[StartsAfter(w)]

\* The tasks of the startup run side by side; the screen's begins with the programmer.
Awaits(w) ==
  /\ began >= 0 /\ conclusion = "none"
  /\ w \in Waits[script] /\ seen[w] = 0
  /\ StartsAfter(w) # "began" => seen[StartsAfter(w)] # 0
  /\ w \in {"firmware", "line5"} => seen["active"] # 0
  /\ w = "line5" => seen["firmware"] # 0

Matching(w) == {n \in InDeque : n > After(w) /\ printed[n] = Marker(w)}

\* _capture_init_screen: the panel type is the last line 1 before the firmware line.
LineOne(firmware) ==
  LET lines == {n \in InDeque : n < firmware /\ printed[n] = "line1"} IN
  IF lines = {} THEN 0 ELSE Max(lines)

See(w) ==
  /\ Awaits(w) /\ Matching(w) # {}
  /\ LET n == Min(Matching(w)) IN
       /\ seen' = IF w = "firmware" THEN [seen EXCEPT ![w] = n, !["line1"] = LineOne(n)]
                  ELSE [seen EXCEPT ![w] = n]
       /\ missed' = (missed \/ \E m \in DOMAIN printed \ InDeque :
                                  m > After(w) /\ printed[m] = Marker(w))
  /\ UNCHANGED <<printed, mode, script, began, conclusion>>

Timeout ==
  /\ \E w \in Wait : Awaits(w)
  /\ conclusion' = "failed"
  /\ UNCHANGED <<printed, mode, script, began, seen, missed>>

\* startup.py, identity.py: the API answers before its deadline; the panel's clock is
\* polled until it is within its tolerance, or its deadline has passed; an AquaPalm has
\* none.  A panel type that differs from the configured one is a warning.
StartupReady ==
  IF seen["line1"] = 0 THEN conclusion' = "failed"
  ELSE \E api, aquaPalm, clockInTime \in BOOLEAN :
         conclusion' = IF api /\ (aquaPalm \/ clockInTime) THEN "passed" ELSE "failed"

ConcludeWatch ==
  /\ conclusion = "none" /\ began >= 0
  /\ \A w \in Waits[script] : seen[w] # 0
  /\ \/ script = "retry" /\ ConcludeRetry
     \/ script = "loop" /\ Verify
     \/ script = "startup" /\ StartupReady
     \/ script \in {"cycle", "probe"} /\ conclusion' = "passed"
  /\ UNCHANGED <<printed, mode, script, began, seen, missed>>

-----------------------------------------------------------------------------
WatchNext == PrintLine \/ BeginWatch \/ (\E w \in Wait : See(w)) \/ Timeout \/ ConcludeWatch

WatchSpec == WatchInit /\ [][WatchNext]_watchVars

-----------------------------------------------------------------------------
(* Properties. *)

WatchTypeOK ==
  /\ Len(printed) <= MaxPrinted /\ mode \in DOMAIN Prints
  /\ script \in Script /\ began \in -1 .. MaxPrinted
  /\ seen \in [Wait \cup {"line1"} -> 0 .. MaxPrinted]
  /\ conclusion \in {"none", "passed", "failed", "unavailable"} /\ missed \in BOOLEAN

\* A sleep cycle that is reported is one: the wake was seen to happen during the test,
\* and no other sleep begins between the events whose distances are the measurements.
OneCycle ==
  script = "cycle" /\ conclusion = "passed" /\ ~missed =>
    /\ began < seen["wakeActive"]
    /\ {n \in seen["entered"] .. seen["returned"] :
          printed[n] \in {"sleeping", "wakeActive", "wakeFinished"}}
         = {seen[w] : w \in Waits.cycle}

\* Equipment that is verified was found by a status loop of this test, not by one that
\* the deque still holds from before.
FoundNow ==
  script = "loop" /\ conclusion = "passed" =>
    \E n \in began + 1 .. seen["bitmask"] : printed[n] = "found"

\* The panel's type and its firmware are read from one screen, the firmware screen.
OneScreen ==
  script = "startup" /\ conclusion = "passed" /\ ~missed =>
    /\ seen["line1"] < seen["firmware"] /\ seen["firmware"] < seen["line5"]
    /\ \A n \in seen["line1"] + 1 .. seen["line5"] - 1 : printed[n] # "line1"
    /\ \A n \in seen["firmware"] .. seen["line5"] - 1 : printed[n] # "line5"
=============================================================================
