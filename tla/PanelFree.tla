----------------------------- MODULE PanelFree -----------------------------
(***************************************************************************)
(* PanelFreeScenario (panel_free.py) with AllButtonPanelDriver             *)
(* (protocols/rs485/allbutton.py) and HttpActions (engine/http_actions.py): *)
(* the validator plays the panel at one end of the serial line and the     *)
(* user at the HTTP API.  The driver task sends STATUS packets, and takes  *)
(* the key from the ACK of each; a step of the testcase waits for the key. *)
(* Every request, wait and exchange has a timeout, and the run may be      *)
(* cancelled wherever the scenario awaits.                                 *)
(***************************************************************************)
EXTENDS Naturals, Sequences, SequencesExt

CONSTANTS
  Key, PumpKey,  \* the keys of an ACK; the one that switches the filter pump
  MaxKeys,       \* bound on the keys that AqualinkD presses
  MaxSteps       \* bound on the steps of the testcase

NoKey == "none"   \* the command code 0 of an ACK

ASSUME KeyAssumption ==
  PumpKey \in Key /\ NoKey \notin Key /\ MaxKeys \in Nat /\ MaxSteps \in Nat

VARIABLES
  probeAcked,       \* AqualinkD answers the probe as well
  pressed, shown,   \* AqualinkD: keys to send; the pump in the last STATUS it got
  packets, acks,    \* packets and ACKs under way
  driver,           \* the driver's task: "off", "first", "send", "read", and how it ended
  commands, pump,   \* its queue of keys, and the pump in its status
  run, want,        \* what the scenario awaits, and what it waits for
  stepsDone, failing, \* steps so far, and whether one failed
  outcome, report,  \* how the scenario ended; the status in scenario.json
  keysSent, keysTaken, \* History variables: the keys in ACKs, those expectations got
  dropped           \* History variable: an ACK with a key was read but not looked at

aqualinkdVars == <<probeAcked, pressed, shown>>
wireVars == <<packets, acks>>
driverVars == <<driver, commands, pump>>
scenarioVars == <<run, want, stepsDone, failing, outcome, report>>
keyHistory == <<keysSent, keysTaken, dropped>>
freeVars == <<aqualinkdVars, wireVars, driverVars, scenarioVars, keyHistory>>

FreeInit ==
  /\ probeAcked \in BOOLEAN /\ pressed = <<>> /\ shown = FALSE
  /\ packets = <<>> /\ acks = <<>>
  /\ driver = "off" /\ commands = <<>> /\ pump = FALSE
  /\ run = "http" /\ want = NoKey /\ stepsDone = 0 /\ failing = FALSE
  /\ outcome = "none" /\ report = "none"
  /\ keysSent = <<>> /\ keysTaken = <<>> /\ dropped = FALSE

Status == [probe |-> FALSE, pump |-> pump]

-----------------------------------------------------------------------------
(* AqualinkD, external. *)

\* A programmer of its own, or a request that is not the testcase's.
Press ==
  /\ Len(keysSent) + Len(pressed) < MaxKeys /\ outcome = "none"
  /\ \E k \in Key : pressed' = Append(pressed, k)
  /\ UNCHANGED <<probeAcked, shown, wireVars, driverVars, scenarioVars, keyHistory>>

\* An ACK carries the next key.
Acknowledge ==
  /\ packets # <<>> /\ outcome = "none"
  /\ packets' = Tail(packets)
  /\ shown' = IF Head(packets).probe THEN shown ELSE Head(packets).pump
  /\ IF Head(packets).probe /\ ~probeAcked
     THEN UNCHANGED <<acks, pressed, keysSent>>
     ELSE IF pressed = <<>>
     THEN acks' = Append(acks, NoKey) /\ UNCHANGED <<pressed, keysSent>>
     ELSE /\ acks' = Append(acks, Head(pressed))
          /\ pressed' = Tail(pressed) /\ keysSent' = Append(keysSent, Head(pressed))
  /\ UNCHANGED <<probeAcked, driverVars, scenarioVars, keysTaken, dropped>>

-----------------------------------------------------------------------------
(* AllButtonPanelDriver._run *)

\* The probe; its answer is not waited for.
SendProbe ==
  /\ run = "startup" /\ driver = "off"
  /\ packets' = <<[probe |-> TRUE, pump |-> FALSE], Status>>
  /\ driver' = "first"
  /\ UNCHANGED <<aqualinkdVars, acks, commands, pump, scenarioVars, keyHistory>>

SendStatus ==
  /\ driver = "send"
  /\ packets' = Append(packets, Status)
  /\ driver' = "read"
  /\ UNCHANGED <<aqualinkdVars, acks, commands, pump, scenarioVars, keyHistory>>

\* Mutant: the last frame of a read counts.
FrameLast(frames) == Last(frames)

\* _read_frame: what else the read brought is gone.
Frame(frames) == Head(frames)

\* The key of the first exchange is not looked at.
ReadAck ==
  /\ driver \in {"first", "read"}
  /\ \E n \in DOMAIN acks :
       LET frames == SubSeq(acks, 1, n)
           key == IF driver = "first" THEN NoKey ELSE Frame(frames)
       IN  /\ acks' = SubSeq(acks, n + 1, Len(acks))
           /\ commands' = IF key = NoKey THEN commands ELSE Append(commands, key)
           /\ pump' = IF key = PumpKey THEN ~pump ELSE pump
           /\ dropped' = (dropped \/ (driver = "first" /\ frames[1] # NoKey)
                                  \/ \E i \in 2 .. n : frames[i] # NoKey)
  /\ driver' = "send"
  /\ UNCHANGED <<aqualinkdVars, packets, scenarioVars, keysSent, keysTaken>>

\* No ACK in time, or an unusable one; the line breaks.
DriverFails ==
  /\ driver \in {"first", "send", "read"}
  /\ driver' = "failed"
  /\ UNCHANGED <<aqualinkdVars, wireVars, commands, pump, scenarioVars, keyHistory>>

-----------------------------------------------------------------------------
(* PanelFreeScenario.run *)

Advance(there) == run' = there /\ UNCHANGED <<want, stepsDone, outcome, report>>

\* wait_ready: until a request succeeds or the time is over.
HttpReady ==
  /\ run = "http"
  /\ \/ Advance("startup") /\ UNCHANGED failing
     \/ Advance("stop") /\ failing' = TRUE
  /\ UNCHANGED <<aqualinkdVars, wireVars, driverVars, keyHistory>>

\* _wait_for_ready: a failure wins.
DriverReady ==
  /\ run = "startup" /\ driver \in {"send", "read", "failed"}
  /\ IF driver = "failed" THEN Advance("stop") /\ failing' = TRUE
                          ELSE Advance("steps") /\ UNCHANGED failing
  /\ UNCHANGED <<aqualinkdVars, wireVars, driverVars, keyHistory>>

\* A step begins, also one of the finally section after a failure.
NextStep ==
  /\ run = "steps" /\ stepsDone < MaxSteps
  /\ stepsDone' = stepsDone + 1
  /\ \/ run' = "expect" /\ want' \in Key
     \/ run' = "poll" /\ want' \in {"on", "off"}
     \/ run' = "request" /\ want' = NoKey
  /\ UNCHANGED <<failing, outcome, report, aqualinkdVars, wireVars, driverVars, keyHistory>>

EndStep(ok) == Advance("steps") /\ failing' = (failing \/ ~ok)

\* A PUT has its effect or not, whether its answer arrives or not.
HttpRequest ==
  /\ run = "request"
  /\ \E ok \in BOOLEAN : EndStep(ok)
  /\ \/ /\ Len(keysSent) + Len(pressed) < MaxKeys
        /\ \E k \in Key : pressed' = Append(pressed, k)
     \/ UNCHANGED pressed
  /\ UNCHANGED <<probeAcked, shown, wireVars, driverVars, keyHistory>>

\* wait_json: a poll shows the value, or the time is over.
Polled ==
  /\ run = "poll"
  /\ \E ok \in BOOLEAN : (ok => shown = (want = "on")) /\ EndStep(ok)
  /\ UNCHANGED <<aqualinkdVars, wireVars, driverVars, keyHistory>>

\* expect_command: the next key is there.
ExpectCommand ==
  /\ run = "expect" /\ driver # "failed" /\ commands # <<>>
  /\ commands' = Tail(commands) /\ keysTaken' = Append(keysTaken, Head(commands))
  /\ EndStep(Head(commands) = want)
  /\ UNCHANGED <<aqualinkdVars, wireVars, driver, pump, keysSent, dropped>>

\* Its timeout, or the driver has failed, whether or not a key is there as well.
ExpectFails ==
  /\ run = "expect"
  /\ EndStep(FALSE)
  /\ commands' = IF driver = "failed" /\ commands # <<>> THEN Tail(commands) ELSE commands
  /\ UNCHANGED <<aqualinkdVars, wireVars, driver, pump, keyHistory>>

StepsEnd ==
  /\ run = "steps"
  /\ Advance("stop")
  /\ UNCHANGED <<failing, aqualinkdVars, wireVars, driverVars, keyHistory>>

CancelRun ==
  /\ run \notin {"stop", "cancelled", "over"}
  /\ Advance("cancelled")
  /\ UNCHANGED <<failing, aqualinkdVars, wireVars, driverVars, keyHistory>>

Result == IF run = "cancelled" THEN "cancelled" ELSE IF failing THEN "failed" ELSE "passed"

\* Mutant: whatever the driver raises is suppressed.
StopQuietly ==
  /\ run \in {"stop", "cancelled"}
  /\ driver' = IF driver \in {"first", "send", "read"} THEN "stopped" ELSE driver
  /\ report' = Result /\ outcome' = Result
  /\ run' = "over"
  /\ UNCHANGED <<want, stepsDone, failing, aqualinkdVars, wireVars, commands, pump, keyHistory>>

\* The finally block: stop() cancels the driver and awaits it, which raises what the
\* driver has failed with, before anything is written.
StopDriver ==
  /\ run \in {"stop", "cancelled"}
  /\ driver' = IF driver \in {"first", "send", "read"} THEN "stopped" ELSE driver
  /\ IF driver = "failed"
     THEN outcome' = "raised" /\ UNCHANGED report
     ELSE report' = Result /\ outcome' = Result
  /\ run' = "over"
  /\ UNCHANGED <<want, stepsDone, failing, aqualinkdVars, wireVars, commands, pump, keyHistory>>

-----------------------------------------------------------------------------
DriverStep == SendProbe \/ SendStatus \/ ReadAck \/ DriverFails

ScenarioStep ==
  \/ HttpReady \/ DriverReady \/ NextStep \/ HttpRequest \/ Polled \/ ExpectCommand
  \/ ExpectFails \/ StepsEnd \/ StopDriver

FreeNext == Press \/ Acknowledge \/ DriverStep \/ ScenarioStep \/ CancelRun

FreeSpec == FreeInit /\ [][FreeNext]_freeVars

-----------------------------------------------------------------------------
(* Properties. *)

FreeTypeOK ==
  /\ driver \in {"off", "first", "send", "read", "failed", "stopped"}
  /\ acks \in Seq(Key \cup {NoKey}) /\ pressed \in Seq(Key) /\ commands \in Seq(Key)
  /\ packets \in Seq([probe : BOOLEAN, pump : BOOLEAN])
  /\ pump \in BOOLEAN /\ shown \in BOOLEAN
  /\ run \in {"http", "startup", "steps", "expect", "poll", "request",
            "stop", "cancelled", "over"}
  /\ outcome \in {"none", "passed", "failed", "cancelled", "raised"}
  /\ report \in {"none", "passed", "failed", "cancelled"}
  /\ Len(packets) <= 2 /\ stepsDone \in 0 .. MaxSteps

\* The keys that the ACKs under way carry, in their order.
KeysIn(frames) ==
  LET keys[i \in 0 .. Len(frames)] ==
        IF i = 0 THEN <<>>
        ELSE IF frames[i] = NoKey THEN keys[i - 1] ELSE Append(keys[i - 1], frames[i])
  IN  keys[Len(frames)]

\* The keys that AqualinkD sends reach the expectations in their order, and each once:
\* none is missing but those still under way, however the ACKs lag behind the packets --
\* unless two ACKs were read at once.
KeysInOrder ==
  ~dropped /\ driver # "failed" =>
    keysSent = keysTaken \o commands \o KeysIn(acks)

\* A run whose driver has failed, even if no step noticed, does not pass.
DriverFailureNoticed == outcome = "passed" => driver # "failed"

\* Every scenario ends.
RunEnds == run = "http" ~> run = "over"

\* "Diagnostics: scenario.json, timeline.jsonl" (panel_free.py:398; so also
\* tests/test_panel_free.py:266-270):
\* a run that fails leaves its report.
ReportWritten == outcome # "none" => report # "none"
=============================================================================
