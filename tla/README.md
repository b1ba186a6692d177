# A TLA+ verification of the AqualinkD validator

The repository is a Python validator (`src/aqualinkd_validator/`, 17,000 lines)
that starts a real AqualinkD, drives it over HTTP and its log, and through it a
pool panel: real equipment, or the panel emulator the program calls Power
Center. It must put back whatever it changed, whatever went wrong. This
directory holds models of the parts that carry that duty, the TLC
configurations that check them, and proofs that TLAPS checks.

Paths below are relative to `src/src/aqualinkd_validator/`.

## 1. The system

| Component | State it keeps | Operations | Talks to |
|---|---|---|---|
| Restoration session and service: `engine/restoration.py`, `protocols/pda/restoration*.py` | initial snapshot, touched devices, touched setpoints, requested-state marks | `touch_*`, `mark_requested_state`, `restore` (three loops), `begin_case` | equipment actions, HTTP client |
| Equipment actions: `engine/equipment_actions.py` | none of its own between calls | `set_device`, `set_setpoint`, `wait_for_state` | HTTP client, programmer observer, stability wait |
| Programmer observer: `protocols/pda/programmer.py` | none | wait for "is active", "finished", race of state and error | output monitor |
| Output monitor: `adapters/process.py` 26-97 | bounded deque of lines, sequence number | `publish`, `wait_for`, `wait_for_any`, `recent_events` | the readers; every waiting task |
| Process supervision: `adapters/process.py` 100-543 | process, scenario task, readers, verdict | `supervise`, `_cancel_task`, `_stop_process` | the operating system, the scenario |
| Declarative runner: `testcases/lifecycle.py`, `testcases/executor.py` | report, results, errors | steps, finally steps, final restoration, report | PDA keywords |
| PDA keywords and session: `protocols/pda/keywords.py`, `run_session.py`, `pda_scenario.py` | initialized, snapshot | the keywords of YAML testcases | restoration, actions, Power Center |
| Composite suites: `cli.py`, `run_targets.py` | exit code, `last_run_safe_to_continue` | one run after the other | `supervise`, the run's `scenario.json` |
| Stability wait: `engine/equipment_stability.py` | signature, time of the last change | poll until stable | HTTP client |
| Runtime-case runner: `engine/runtime_cases.py` | report, failures | cases, per-case restoration, final restoration | PDA session |
| RS scenario: `rs_scenario.py` | snapshot, touched devices, report | cases, restore devices, restore real time | HTTP client, monitor |
| Panel time: `protocols/time_sync.py` | offset, `panel_requires_restore` | exercise, restore, difference of clocks | fake time, HTTP |
| Sleep and wake: `protocols/pda/sleep.py` | none | wait for sleep, probe, wake | monitor, HTTP |
| PDA exercises: `live_exercises.py`, `equipment_setup.py`, `equipment_status.py`, `status_exercise.py`, `spa.py`, `device_selection.py` | none | sequences of `set_device`, `set_setpoint` | PDA session |
| AquaPDA client: `adapters/aquapda.py`, `protocols/pda/aquapda.py` | screen, packet counts, reader error | apply packet, wait, walk menus | WebSocket |
| PDA start-up: `session.py`, `startup.py`, `identity.py`, `equipment_control.py` | none | linear log correlation | monitor |
| Serial actions and capture, framing, panel-free exchanges | received bytes | send, expect exact bytes, split frames | serial port |
| Power Center control: `adapters/power_center*.py` | Wine session | select mode, set temperature | the emulator |
| Correlation: `correlation.py` | none | pair HTTP actions with packets | artifacts |
| Configuration, YAML loading, reporting, test doubles | none | parse, format | - |

How they interact. `cli.py` calls `supervise()`, which owns AqualinkD's process
and a task that runs the scenario. The scenario runs testcases; their keywords
call equipment actions, which send HTTP requests to AqualinkD and correlate
its log lines through the output monitor. AqualinkD queues a request, its
programmer thread runs it later, and neither a timeout nor a cancellation of
the validator takes it back. Everything runs in one asyncio event loop, so that
each `await` is the place where something else may happen: a line, a timeout, a
cancellation, the end of the process.

What is hard about it: a request outlives the wait for it; a device request is
a button press, which toggles; an error in one loop of a restoration must not
stop the next; `CancelledError` is no `Exception`, except inside an exception
group; the supervisor, the operator and the cleanup timeout may all cancel the
same task; reports are read after the run that wrote them. `PROJECT.json` lists
each hazard at its line with the properties that are about it.

What makes each part correct:

- *Restoration*: nothing that was sent is forgotten before it is seen undone;
  an error-free restoration means initial state; no second toggle; no heat
  without water; setpoints are raised with the heater off.
- *Supervision*: the process outlives the scenario, nothing outlives
  `supervise()`, a pass is earned, an interrupt is not swallowed, it ends.
- *Runner*: every failure is followed by a restoration; the report is true.
- *Composite*: a member starts on clean equipment; Ctrl-C ends the suite.
- *Monitor and observer*: the first match after the cursor, no lost wake-up,
  markers in order, the error line heeded, every call ends.
- *Python targets*: every touched device and the clock are put back or the
  failure shows; real time stays once restored; an RS report of success is true.
- *Log of a session*: what is concluded of a sleep cycle, a status loop or a
  firmware screen is true of one cycle, loop or screen, and of this test.
- *Exercises*: a round trip ends where it began; a non-heating exercise heats
  nothing, whatever went before it.
- *Menu walk*: it selects the lines it means to, however late the panel answers;
  one that passes has visited every menu; it ends.
- *Serial line*: every byte is handed over once and in order; the capture holds
  the frames whatever the reads were.
- *Panel-free scenario*: keys arrive in order; a driver that failed never makes
  a passing run; it ends.
- *Power Center*: a run acts on its own emulator, keeps it while it tests with it,
  and leaves nothing behind, although windows are found by title and display
  numbers by probing.
- *Clock arithmetic*: differences of readings are right around midnight.
- *Not modelled*: that a snapshot taken for stable was stable (section 5).

## 2. The modules

| Module | Models | Composition |
|---|---|---|
| `EquipmentPanel` | AqualinkD's queue and programmer and the panel, as seen from `/api/devices` and the log (external) | |
| `PdaRestoration` | one task that mutates and restores, every await of it | extends `EquipmentPanel` |
| `OutputMonitor` | `publish` and the waits over the bounded deque | |
| `ProgrammerObserver` | one `set_device` call from its PUT to its end | extends `OutputMonitor` |
| `Supervisor` | `supervise()`, with any scenario at all | |
| `ProcessRun` | the declarative runner as that scenario | extends `Supervisor`, implements its specification |
| `CompositeSuite` | several `ProcessRun`s and what passes between them | extends `ProcessRun` |
| `PanelClock` | the process clock and the forced synchronization of the panel | |
| `PythonTargets` | the RS scenario, and the runtime-case runner inside PDA's | extends `EquipmentPanel` and `PanelClock` |
| `PdaExercises` | the exercises of a PDA session as programs of requests, over one panel that its owner uses too | |
| `PdaLogWatch` | what is concluded of a sleep cycle, a status loop and the start-up from the retained log lines | |
| `MenuWalk` | the AquaPDA client with its reader task, and the walker, over a panel that answers late | |
| `SerialStream` | what a testcase may rely on at the panel's end of the serial line (abstract) | |
| `SerialLine` | serial expectations and sends, the frame buffer, the capture | implements `SerialStream` |
| `PanelFree` | a panel-free scenario with its driver task | |
| `PowerCenterSession` | several runs that start, use and take down emulators under Wine | |
| `PanelTime` | the arithmetic of clock readings | |
| `MCPdaRestoration`, `MCProcessRun`, `MCCompositeSuite`, `MCPythonTargets` | instances for TLC | |
| `MCParts` | one instance of each part that is checked by itself | extends the parts |
| `SequenceFacts` | lemmas about numbers, sequences and recursive functions | |
| `..._proofs` | theorems | extend the modules they are about and `SequenceFacts`: `Process_proofs` has those of `Supervisor`, `ProcessRun`, `CompositeSuite` and `PowerCenterSession`; `LogReading_proofs` of `OutputMonitor`, `ProgrammerObserver`, `PdaLogWatch` and `PanelTime`; `Panel_proofs` of `PanelFree`, `MenuWalk` and `SerialLine` |
| `Parts_proofs` | theorems about the composition | extends `MCParts` and the proofs of its parts |

There are two abstract specifications. In `Supervisor` the scenario may end at any
time in any way. `ProcessRun` replaces that one step by the steps, finally steps
and final restoration of `lifecycle.py` and `executor.py`. The run `process_run` checks
that it still satisfies all of `SupSpec`, liveness included; the theorem
`Supervised` proves the safety part for all suites, and `SuiteOutlived` carries
`ScenarioOutlived` over. `SerialStream` is the other: bytes are written, and portions
of them are handed over in order. `SerialLine` implements it through reads of any
size, failed expectations and left-over bytes (`IsStream`, in the run `parts`, and
the theorem `LineIsStream`).

### State and code

**EquipmentPanel.** `led` is what `/api/devices` reports: on, off, or flashing
on the way (`DeviceState.transitioning`). `queue` holds the accepted requests,
`running` the one in the programmer. A request may be performed at once, flash
first, or end without effect; a programmer that ends logs "finished" and
perhaps "didn't find". The module is external: it is what the validator's own
waits, messages and error handling presuppose.

**PdaRestoration.** `pc` is the await at which the task stands: the snapshot
read of `set_device` (`read`), its stabilization (`settle`), the PUT (`put`),
the two markers (`active`, `completed`), the convergence (`converge`), and those of
restoration: the reads of the first two loops (`heatRead`, `setpointRead`), of
`_restore_device` (`check`, `checkSettle`) and the suppressed wait (`await`).
`loop` is between two visits. `stage`, `todo`, `failed`, `predisabled`,
`unsafe` are the locals of `restore()`. `Fault` and `Cancel` can end any await.
The code visits the first two loops in sorted order; the model visits in any order.
Three history variables say what a property needs: `unverified` (sent, not seen
undone), `loose` (given up on while AqualinkD may still perform it), `asked`
(restoration's last request).

**OutputMonitor.** `log` is everything published; the deque is its last
`HistorySize` entries. A wait alternates between holding the lock (`Look`) and
`condition.wait()` (`asleep`). `skipped` records the lines that were evicted
before a wait came to look.

**ProgrammerObserver.** `phase` follows the call; `poll` is the state task, the
waiter `error` the error task. `Cancel` hits the await the call stands at:
while it is in `asyncio.wait`, neither task is cancelled with it.

**Supervisor.** `sup` is the await: `watch` (`asyncio.wait` or the plain wait),
`cleanup` (`_cancel_task`), `grace` and `killing` (`_stop_process`), `drain` (the
gather of the readers), `done`. `where` is the try body, the `CancelledError`
handler or the finally block, `raised` the exception on its way out.
`interrupted` is where SIGINT hit; there is one per run, since `asyncio.run`
raises `KeyboardInterrupt` at the second.

**ProcessRun.** `section` and `index` are the step, `primary` and `cleanup` the
errors, `Raised` the exception group logic of `execute()`. A keyword does to
`initialized`, `ready`, `pending`, `setting` what its code does to the session;
`straggler` is a thread of `asyncio.to_thread` whose await has timed out.
Cancellations thrown (`cancels`) are delivered at the next await (`delivered`).

**CompositeSuite.** `MemberEnds` is the loop body of `_run_composite_suite`:
exit code, `LastRunSafe`, and the next process, which knows nothing of the one
before except the panel's state.

**PanelClock.** `offset` is the fake time of AqualinkD's process, `clock` what
the panel shows, `owed` is `panel_requires_restore`. AqualinkD's time
programmer (external) may start whenever it likes; it sets the time of the
process clock as of its start (`writing`). `lines` holds its markers after the
cursor of `_force_sync`: any programmer's markers will do, also those of one
that the request did not start.

**PythonTargets.** A target is its protocol, whether it shifts the clock, and
its cases. `part` is the loop over the cases, the restoration of devices, that
of the clock, or the end; `pc` the await. `Leave` is how the loop ends and
`Finish` how the scenario does, which is where the two protocols differ: RS
restores devices, then the clock, and writes its report last, unless a
cancellation is in flight; PDA writes its report and restores the clock in a
`finally` around that. `_exercise_auxiliaries` is a sequence of device cases. `file` is
`safe_to_continue` in `scenario.json`. `cut` (history) says that the cleanup
itself was cancelled.

**PdaExercises.** `todo` is what is left of the running exercise. Each program is
written out from the session's initial snapshot (`initial`), as the code
decides from it, except where the code reads the panel anew (the spa heater in `SpaProgram`,
`Active`, `SetupComplete`, `VerifyStatus`). `excluded` is any set of devices that the
configuration or the API names NONE, or that the panel is too small for. A request is
one step: what it consists of is `PdaRestoration`'s. `Touch` is the owner, a program or the
freeze protection, `Switched` the panel's own logic (spa mode and pump), `Heats`
is `DeviceState.active`.

**PdaLogWatch.** `printed` is the log, `InDeque` what the monitor retains, `seen` the
lines that the waits of a script returned. `StartsAfter` is the chain: which wait's
line is the cursor of which. AqualinkD prints by `Prints`, a small automaton of
what it may say in which mode. `CurrentSleep` and `LoopEvents` are the two places
that look backwards in the deque. `missed` (history) says that a line had left the
deque before its wait looked, which the properties on distances exempt.

**MenuWalk.** The panel (`at`, `bar`, `keys`, external) handles a key when it gets to it
and sends packets (`wire`) that name no key. The client (`text`, `mark`, `heard`,
`reader`) applies them. The walker (`task`, `await`, `before`, `found`, `stack`, `visited`)
sees the client only. A wait is a change and then quiet (`Noticed`, `Settled`), or it
fails. `late` (history) says that a wait ended without the panel's whole answer: the
code cannot tell, and the promises stop there. `stray` collects the lines that were
selected and not meant.

**SerialLine.** `out` is what AqualinkD wrote, `unread` what the PTY still buffers,
`received` is `_received`. `Read` is one read of any size with its comparison, `Feed` the
frame buffer's `feed`. `toPanel` counts the other direction, since what is sent is
captured only after the last `os.write`.

**PanelFree.** The driver task (`driver`) sends STATUS packets and takes keys from
ACKs, which may lag (`probeAcked`); the scenario (`run`) polls, requests and
expects. `StopDriver` is the finally block: it awaits the driver before it writes
anything. `dropped` (history) says that a key was in an ACK that nobody looked at.

**PowerCenterSession.** `stage[r]` is the await of run `r` in `start`, `prepare` or `close`.
The two locks are `flock`s, which `Die` (SIGKILL, or a `close` that raises) releases while the
windows and X servers stay. `Windows` is what the C helper finds: by title, in the
whole prefix. `served` and `left` are history: whose windows were acted on, and who
could not clean up.

**PanelTime.** Readings are minutes and seconds of the day; `time_sync.py` and
`identity.py` each compute the distance of two in their own way.

**MCParts.** `focus` says which part a behaviour is about; the other parts stay in one
initial state, and no step of one touches another. So the state space is the sum
of theirs, not the product. Two reductions select initial states: `Meeting`
(two emulator runs either share the prefix, where only the lock matters, or are
in two prefixes, where they can only meet at a TCP display), and `FewStates`
(the heaters begin with one setpoint, the auxiliary off: exercises set both anyway; and
no more than one device is excluded: the selector decides on each by itself).

## 3. The runs

| Run | States | Shows |
|---|---|---|
| `restoration` | 4.15 M | the bookkeeping and ordering properties of mutation and restoration |
| `raised_while_enabled` | violation | a setpoint can be raised while the heater is on |
| `suppressed_unsent` | violation | a toggle can be suppressed though none was sent |
| `process_run` | 112,696 | the runner's reports and restorations; it implements the supervisor's scenario |
| `safe_means_reset` | violation | `safe_to_continue` does not cover the Power Center |
| `continues_restored` | violation | a composite suite can continue on changed equipment because of an old report |
| `python_targets` | 7,936 | the RS and PDA targets written in Python: nothing touched is forgotten, real time is kept, the end and the report are true |
| `rs_restored` | violation | an RS target can report success although a device ends in the opposite state |
| `parts` | 923,000 | every other part by itself: supervision, composite suites, log correlation, menu walk, serial line, emulator runs, log watch, panel-free scenario, exercises |
| `exact_match` | violation | a serial expectation passes without a comparison if enough bytes are left over |
| `report_written` | violation | a panel-free run whose driver failed leaves no report |
| `hydraulics_isolated` | violation | the sleep suite may switch the spa |

The eight violation runs are divergences between what the code or its README says
(a comment, a progress line, an operator message, the README) and what it does;
`findings` in `PROJECT.json` quotes the lines and tells the traces.

### Bounds

- `restoration`: a heater with setpoint, the spa mode, the pump; two
  temperatures; two requests. Two requests are one that is abandoned and one that meets
  it; three devices are one of each rank of the dependency order. The initial
  setpoint is the higher of the two, so that restoring may mean raising; every
  combination of initial states. A behaviour has no bound on testcases,
  attempts at restoration, faults or cancellations.
- `process_run`: four suites with the shapes of the shipped ones (initialize
  and check, initialize and mutate with a restoring finally, Power Center with
  a resetting finally, both). One step after the interesting one adds states and no case.
- `python_targets`: four targets with the shapes of rs-fast, rs-time, pda-live-time and
  the AquaPDA walk; two devices, so that an exercise that fails may
  follow one that did not. Five requests (`MaxRequests`): exercise and
  restoration of both, and one more try by the finally block.
- `parts`:
  - supervisor: none; the only counter, `cancels`, stays below 4 by itself;
  - composite: two members, the first with two testcases: the smallest with a
    report of an earlier testcase;
  - observer: a deque of two lines, four lines of three kinds: enough to evict a
    marker before its wait looks and to have two of one kind (`MaxLines`);
  - walk: a menu of five screens with a branch, a line that is not structural and
    a chain of three; `MaxDepth` 3 and `MaxScreens` 5 are just enough, so that the
    bounds of the walker are reached too; two keys unhandled and four packets under way
    are what it takes for an answer to come after the next key;
  - line: four bytes of the four kinds (a whole frame, an escape), two steps, so
    that one leaves bytes for the next;
  - session: two runs, prefixes and displays, any of them killed anywhere;
  - watch: seven of eight lines retained, so that an old cycle may be half
    evicted;
  - panel-free: two keys, one step and any number of exchanges;
  - exercises: pump, spa and one auxiliary with both heaters; two events, that is
    two exercises one after the other, or one and its owner.

`CHECK_DEADLOCK FALSE` is set where the program ends (a run, a suite, a call, a
log at its bound). The restoration model never ends.

### Fairness

- `SuperviseStep`: the event loop runs what is ready and its timers fire. The
  timers are those of `supervise()` itself; `duration_seconds` is one only if given, and
  `Terminates` promises nothing for a run that has neither duration, nor end of
  its scenario, nor interrupt.
- `ChildKilled`: the kernel delivers SIGKILL. No fairness on an exit from
  SIGTERM, which AqualinkD may ignore.
- `OutputEnds`: the pipes of a dead process reach their end. A descendant that
  keeps them open would break this; the code does not handle it.
- `TaskStep`, and `TaskFairness` in the abstract: every await of a testcase has
  a timeout of its own, so that a scenario goes on; in the abstract it is only
  assumed to end once cancelled.
- `CallStep`, `PollEnds`, `Look` or `Expire`: each wait of the observer has a
  timeout. AqualinkD need not log anything, ever.
- `WalkStep`: each wait of the walker has a timeout. `Handle` and `Receive` are fair only
  because the model bounds keys and packets under way: in the code neither is
  ever waited for without a timeout.
- `DriverStep`, `ScenarioStep`: each exchange, poll and request has a timeout.
  AqualinkD need not answer.

`PartsEnd` puts the four liveness properties together, each under the fairness
of its part: `Terminates` (a supervised run), `CallEnds` (a programmer call), `WalkEnds` and
`RunEnds` (a panel-free scenario).

## 4. The proofs

None uses fairness: where a specification states it, the theorems are about its safety part
(`SupSafety`, `ObserverSafety`, `WalkSafety`), and `PartsSpec` is used for its steps only. All are
for every value of the constants, under the named assumptions of the
modules (`EquipmentAssumption`, `SuitesAssumption`, `MembersAssumption`, `MonitorAssumption`,
`ObserverAssumption`, `TargetsAssumption`, `SessionAssumption`, `LineAssumption`,
`WatchAssumption`, `KeyAssumption`, `MenuAssumption`, `PanelAssumption`, `ExerciseAssumption`), which TLC evaluates on the
instances. Two theorems have a hypothesis of their own, `ResetsWhatItSets` and
`MenusFit` (below).

**Nothing sent is forgotten** (`PdaRestoration_proofs`: `Invariance`,
`TypeCorrect`, `PendingCorrect`). `MutationsStayPending` is not inductive: an
error-free pass clears the touched sets, so one must know that such a pass has
seen every touched item undone. `IInv` adds `CallsTouch` (an operation under way is
on touched equipment), `LoopShape` (which await belongs to which loop, and
that its operation is for an item still to do, with the value owed to it) and
`LoopProgress` (what is unverified and no longer to do has set `failed`;
a heater that is skipped as already off was verified).
One lemma for each group of actions, one for the ways a call returns.

**A restoration restores** (`RestoredCorrect`, `RaisedCorrect`, `OrderCorrect`,
`NoToggleTwice`, same module). All four need the relation of AqualinkD's queue and `loose`,
which `PanelInv` adds to `IInv`: a request that waits, or a device that changes, is either
what the current operation waits for or given up on (`Attended`); as long as the
operation's own request waits, the panel cannot show what it waits for, so that no
observation is mistaken for its effect (`Unreached`); what was observed undone
stays so (`Verified`). `OrderInv` adds that the heaters the first loop turned off stay off
in the second (`HeatOff`), that the third visits the devices in order (`InOrder`),
and that the mark of a request in the queue stands until a case takes it back (`Marks`).

**The process outlives its scenario** (`Process_proofs`: `Outlived`).
`ScenarioOutlived` is inductive by itself: signals are sent by `StopProcess` only,
which every path reaches with the scenario done. The verdict (`NoneOrphaned`, `PassEarned`) needs
`VerdictInv`: what a pass stands on from the end of the body to the end of the readers
(`Earned`, `Drained`), and that whoever goes through the finally block does so with an
exception (`Leaving`).

**The runner is such a scenario** (same module: `Supervised`,
`SuiteOutlived`). Initial states are initial; a task step leaves the
supervisor's variables alone or ends the scenario with one of its results; the
rest are the supervisor's own steps or stutter.

**Reports are true** (same module: `SafeReport`, `LeftOnly`). The strengthening is
`ReportOfEarlier`: while the scenario runs, the file is about a testcase
before the current one, so that an ending without report never claims
anything of the current one.

**A pass leaves nothing** (`PassLeavesNothing`). For all suites this would be false: a testcase
that sets the Power Center and has no step in its finally section that resets it leaves it
set. So the theorem has the hypothesis `ResetsWhatItSets`, which the two shipped
testcases that set something meet (`testcases/pda/service-mode.yaml`,
`freeze-protect-activation.yaml`), as the suites of `MCProcessRun` do. `Clean` is what
carries it: as long as no error is recorded, no thread is left over, and a Power Center that is
set still has a resetting step ahead, in the steps or in the rest of the finally section.
`PassedRestored` adds the equipment: a scenario passes only with nothing pending.

**Suites of suites** (`CleanStarts`, `InterruptEnds`, `MembersOutlived`). A member begins in
`RunBegins`, which is what `NextProcess` leaves as well as `ProcInit`; the invariant `ProcInv` of a
run therefore holds of every member. `CleanStarts` needs of it that a report which is about the
testcase the run ended in is true; `InterruptEnds`, an action property, that a run
which was interrupted anywhere else than in `_cancel_task` ends with an exit code that stops the
suite. `SupTypeCorrect`, `ProcTypeCorrect` and `CompTypeCorrect` are the types on the way.

**Waits find the first match** (`LogReading_proofs`:
`FirstMatchReturned`, `NoLostWakeup`). `MonitorInv` adds that a
waiting task has passed by every match up to its cursor, and that an
asleep one's cursor is the end of the log. `MarkersAreFirst` and `ErrorIsHeeded` carry that to
the call: `MarkersInv` says what it waits for in each phase and from which line, and
`ErrorInv` that its error task has passed by no error line that it did not return.

**Python targets end restored** (`PythonTargets_proofs`: `ClockStaysRestored`,
`TouchedIsComplete`, `ScenarioEndsRestored`). `ClockInv` strengthens `ClockRestored`: a
forced synchronization runs with the real offset, so that a programmer whose
start it has read set real time, and one that started earlier has ended.
`TargetInv` adds where the scenario stands (`Control`), that nothing is touched
before the snapshot is known (`TouchedKnown`: without it the finally block
would skip a touched device), and what is left to restore while it restores
(`Bookkeeping`). `CaseEndKeeps`, `VisitKeeps` and `FinishKeeps` are the three
ways a piece of work ends; each action is one of them or moves on inside.
`SafeReportIsRestored` takes the relation of the panel and `loose` again (`PanelPart`), and
`Tidy`: between two cases nothing is unverified or given up on, so that a report
that says so is true.

**Runs under Wine stay apart** (`Process_proofs`: `EmulatorIsRight`,
`WorksUndisturbed`, `ClosedIsClean`, `DisplaysStayApart`), for any number of runs,
prefixes and displays. The helper finds windows by title, so that each of the four
rests on who holds which lock when: `PrefixHeld` (whoever prepares, works or still has an
application, and could clean up, holds its prefix), `DisplayHeld` (the same for an
X server and its number, from the allocation on, long before it binds the port),
`Launched` (nothing is launched before the lock is there, so that `wineserver -k` by a run that
was refused ends nobody else's applications), `TakenDown` (what each step of
`close` has already removed) and `OwnEmulator` (the windows of a run that works
are there, in a prefix without leftovers).

**The serial line is a stream** (`Panel_proofs`: `LineIsStream`). `Conserved` says that
what was handed over, what is left over and what is unread make up what was written; each
step of `SerialLine` then is `Arrive`, `HandOver` or a stutter.

**The capture does not depend on the reads** (same module: `CaptureIsFaithful`), for bytes of any
number, cut by the reads anywhere, through a DLE STX, a DLE ETX or an escaped DLE as well. The core is `FeedInParts`,
about the recursive `Feed` alone: feeding `b`, and then `c` behind what stayed in the buffer,
gives the frames and the rest of feeding `b \o c`. Its three cases are those of the code: nothing has
started and at most a DLE is kept (`DropsUnstarted`); a frame has started and all of it is kept;
a frame has ended, and more bytes neither move its end nor change it (`EndStays`, `FrameStays`). The prover
cannot instantiate an induction theorem, so that each induction is an argument about the shortest
counterexample (`LeastNumber`); that `Feed` is well defined is proved in this way too
(`FeedsExist`, `FeedsAgree`, `FeedParses`). `CaptureInv` then says that frames and buffer are `Feed` of
all bytes read, and `SendCounts` what a send under way has not captured yet.

**What is concluded from the log** (`LogReading_proofs`: `CycleIsOne`, `LoopIsNow`,
`ScreenIsOne`), for any log and any size of the deque. `Grammar` is what AqualinkD's modes make of the
log: sleep, wake and status lines alternate in it, and there is one firmware line.
`InTurn` says of every line that a wait returned that it is the first match after the line of
the wait before, unless one had left the deque; `StillAsleep` and `FirstScreen` say the same of
the two places that look backwards. Minimal counterexamples over the log (the last line
of a kind before another) replace induction.

**Keys arrive in order** (`Panel_proofs`: `KeysArriveInOrder`, `FailuresAreNoticed`,
`FreeTypeCorrect`). `InFlight` bounds the packets and ACKs under way by two, and by one while the
driver sends: that is what makes one lagging ACK the only one that can be overtaken.
`EndedBoth` says that a scenario that is over has ended its driver.

**The menu walk selects what it means to** (same module: `OnlyMenusSelected`), for any tree
of menus. `Dialogue` lists what keys, packets and the client's screen can look like, as long as
no wait ended without the panel's whole answer: `Calm` between two keys; during a wait `Unhandled`
(the panel has not handled the key), `Catching` (the bar moved), `Redrawn`, `Opened` and `Cleared` (a new
screen comes) or `Broken` (the reader has failed). It was checked with TLC on two menus
before it was proved. `PanelAssumption` is about the panel: its lines are not blank, and "back"
leads elsewhere.

**The menu walk visits everything** (same module: `EveryMenuVisited`). The hypothesis `MenusFit` says
which menus a walk can see all of: none is longer than `maximum_options` (32 in the code) or has a
line twice, and "back" leads from each to the one that opened it. The instance of `MCParts` meets it.
A walk that is deeper or longer than its other bounds fails, so that the theorem needs nothing about
those. `Level(k)` is the screen that the k-th active `_walk_menus` is about, read off its caller's
candidates. `Course` says where the panel is in each phase of the walk (`AtStart`, `Entering`,
`Enumerating`, `Moving`); its core is that the lines found are always the first of the
screen, with the bar on the last of them or one further. `Toured` says of every visited
screen that its options are complete and that each of its structural lines has been followed or
is still a candidate; at the end no candidate is left. `VisitInv` was checked with TLC on two
menus before it was proved. `Kept` and `KeptRange` say what the loop over the options keeps; they take
the least index at which the loop fails, in place of an induction.

**Round trips return** (`PdaExercises_proofs`: `RoundTripsReturn`), for any switches, auxiliaries and
requested devices. `OnItsWay` says of a round trip that runs: each step to come that switches a
device away has a later one that switches it back; and as long as nobody else was at the
panel, every device it sent a request for is back or has a step to come that takes it
back. `Apart` is needed because the panel couples two switches: the spa starts the
pump, and stopping the pump ends the spa, so that a trip which used both
could undo its own work. No trip does: the consecutive exercise leaves out the spa, and
the sleep exercise uses one device. That the program starts in `OnItsWay` is a fact about filtered, reversed
and joined sequences, which the first section proves without induction (the least index at which a
recursive function fails).

**Heaters are not made to heat** (same module: `NeverMadeToHeat`, an action property), whichever exercises
went before and whichever devices are excluded; in the status exercise a heater that is itself excluded and
was on already is left out. `ColdInv` was checked with TLC on the instance of `MCParts` before it was proved. Between two exercises the session is
`AtRest`: spa and pump are as in the snapshot, the pool's setpoint is that or the minimum,
and a pool heater is newly on only where the water is above the minimum and the setpoint is the
minimum. What each exercise keeps of this while it runs: `InTrip` (a device
it has not used is what it was), `InSpa` and `InPool` (what it still has to switch off comes last),
`InStatus`, and for a heater exercise that comes first `InHeater`. `InStatus` is an order on the steps to come: the setpoint is lowered
(`LowersFirst`) and a heater that is on is stopped (`StopsFirst`) before anything
is switched on, and the pool heater only right after its water was looked at (`LooksFirst`).
`ExerciseAssumption` says that the spa and the pump are switches, that no heater is one, and that the
selector names switches only. `ExercisesTypeCorrect` is the type on the way.

**Clock readings** (`LogReading_proofs`: `BoundaryErrorIsLateness`, `DistanceAgrees`). For all
readings, the error computed at a minute boundary is congruent to the lateness of the
panel and the smallest such number in absolute value, and the two ways the
code computes a distance agree. No run checks them: an instance would be millions
of pairs.

**Types and bounds** of the parts (`SessionTypeCorrect`, `WatchTypeCorrect`, `ObserverTypeCorrect`,
`WalkTypeCorrect`, next to `CompTypeCorrect`, `FreeTypeCorrect` and `ExercisesTypeCorrect`). Two of them
say more than types. `WalkerBounds` is why a menu walk stays within its depth and its number of
screens: both are looked at when a menu is entered, and hold until its lines are recorded,
also by a wait that fails. `ObserverTypeOK` and `WatchTypeOK` need what their waits return
to be lines that are still in the deque when they look.

**The parts together** (`Parts_proofs`: `PartsAreApart`, `PartsTypeCorrect`, `PartsAreSafe`,
`PartsStepSafely`). What the run `parts` checks is proved of `PartsSpec` as well, for any value of its
constants, and not only of each component by itself. Every step of `MCParts` is a step of the part in
focus and a stutter of the others, so that a behaviour of it satisfies the specification of each
part (`EachPart`), whose theorems then apply. The supervised suite is the exception: in focus
`supervisor` only `supervise()` runs, inside a suite that waits. `SuiteInv` says which of the two
invariants holds in which focus. `VisitsAll` needs `MenusFit` of the instance's menus; that is
the assumption `MCMenusFit`, which TLC evaluates.

**A run comes to its end** (`Process_proofs`: `SupRunsDown`, `SupNeverStuck`), as far as this can be said without
fairness. `SupLeft` counts what can still happen to a supervised run: SIGINT (twice, since the handler
begins the grace period again), the awaits ahead, the cleanup timeout, the ends of the process, its
output and its scenario. It begins at eleven at most, and every step of anybody takes
one off: no timer is armed again and no cancellation thrown without end. And a run whose end is
due waits for nobody who has not been told to end (`Told`): a scenario that it has cancelled, a process that it has
killed, the pipes of one that has exited. `SupFairness` and `TaskFairness` are then exactly that these end.

**A walk comes to its end** (`Panel_proofs`: `WalkRunsDown`). `WalkLeft` reads five numbers as the digits of one: screens
still to visit, menus to go back from, the phase of the walk, the tries left to the loop it is in
(`TriesBounded`), and its wait. Every step of the walker lowers one digit and leaves those above it alone, whatever the
panel does in between, so that a walk takes less than `WalkLimit` steps and presses fewer keys. The two
facts about digits, `DigitFalls` and `DigitBound`, are plain arithmetic. Both measures were
checked with TLC, on the instances of `MCParts`, before they were proved.

Only model-checked:

- liveness (`PartsEnd`: `Terminates`, `CallEnds`, `WalkEnds`, `RunEnds`; and the liveness
  half of `IsSupervised`), which is beyond the prover. Of `Terminates` and `WalkEnds` the
  safety side is proved (above): what remains to TLC is that a fair step is taken, and for
  `WalkEnds` also that the walker always has one to take.

## 5. What is left out, and the plan

### Not modelled

- The polling of the stability wait (`engine/equipment_stability.py`): a wait ends in some
  steady state of the panel.
- WebSocket framing of the AquaPDA client, and the validator that compares the
  screen with `/api/status`: parsing, and one comparison.
- The pcapng format and the log captures, which copy packets and lines to files.
- The pairing of HTTP actions with packets (`correlation.py`): a report over a finished
  capture.
- The HTTP client: plain requests. Their outcomes are modelled where they are used.
- Configuration, YAML loading, metadata and reporting: parsing and formatting
  without a state that another part relies on. Test doubles.
- The Win32 calls of the helper; which windows it finds is modelled.
- `RuntimeCaseRunner` also restores between two cases, after a case whose definition
  says `mutates_panel`. No case in `RUNTIME_CASES` does, so no run reaches it.

### Simplified

- One marker line of AqualinkD is one value; a testcase is a short sequence of kinds
  of keyword; timeouts are not ordered by length.
- `MenuWalk`, `PanelFree` and `PowerCenterSession` stand beside the supervisor, not inside
  it: a cancellation is `CancelRun`, `Finish` or a failed wait.

### Where the promises stop

Several properties leave out the case in which the code keeps no such promise. What TLC
finds there without the exception is told here; it is no run of its own.

- `StaysCold` speaks of known units, and leaves out an excluded heater that was on
  (`PassedOver`). With unknown units (`protocols/pda/equipment_setup.py` 205-212), or if it is
  excluded, the status exercise leaves an enabled heater as it is and still switches the
  pump on: over colder water that heater heats.
- It covers `exercise_heater` only as the first exercise of a session: the keyword
  decides from the initial snapshot (`protocols/pda/keywords.py` 285), which an
  exercise before it may have made stale. If that left the pump running over cold water, the
  heater heats at its minimum. The shipped `pda.pool-heater` begins with it.
- `RestoredIsInitial` and `SafeIsRestored` leave out a request that was given up on (`loose`).
  A request whose answer was lost may be performed after the restoration has found nothing
  to do. For the RS targets, of which the README promises more, the run `rs_restored` shows it.
- `RightEmulator`, `Undisturbed` and `CloseCleans` leave out a run that was killed, or whose
  `close()` failed halfway (`left`). Its locks are free while its windows stay, so that the next
  run in that prefix controls the old emulator.
- `FirstMatch` and what rests on it (`MarkersInOrder`, `OneCycle`, `OneScreen`) leave out lines that
  were evicted before their wait looked (`skipped`, `missed`): nothing in the code notices.
  `PassedLeavesNothing` leaves out the setting that a thread which outlives its await (`straggler`)
  makes.
- `SelectsIntended` and `VisitsAll` stop at a wait that ended without the panel's whole
  answer: a bar that moves just after the walker stopped waiting for it can make "select" meet another
  line. `EveryMenuVisited` stops at a menu longer than `maximum_options`, which the code cuts short
  without a word, and `KeysInOrder` at two ACKs in one read. The code cannot tell any of them.
- `NoDuplicateToggle` leaves out a heater that was on at the start. The first loop of a
  restoration asks it off and the third asks it on, with one mark for both, so
  that after a failed attempt a request may be sent while an equal one still waits.

### Next

1. `EquipmentStability`: a stable interval over all short histories of the panel.
2. `PowerCenterSession` inside `ProcessRun`, so that a run's testcases meet an emulator
   that another run has ended.
