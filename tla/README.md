# Verification of nanoloop

TLA+ specifications of nanoloop, a power management agent for Windows and the
watchdog that supervises it, with TLC runs on small instances and proofs checked
by TLAPS. Paths below are relative to the repository (`src/agent/main.cpp` is the
agent's main file).

To repeat a run: `tlc -config <cfg> <module>`; to check the proofs:
`tlapm WatchdogProofs.tla` and likewise for every module named `...Proofs`.

## The system

`watchdog.exe` starts `agent.exe`, watches it through its process handle and
through a named shared-memory section, terminates it when it hangs, puts the
machine back on the Balanced power scheme when it has failed, and starts it again
after a growing delay, a limited number of times. The agent measures the machine,
computes a stress score and tunes the active power scheme; beside that it limits
background processes.

| component | state | operations | interacts by |
|---|---|---|---|
| watchdog main (`watchdog/main.cpp`) | `recoveryCount`, process handle, `monitor_active` | launch, wait, join, assess the exit code, fail-safe, backoff | process handle, atomic flag, power API |
| monitor thread (`monitor_heartbeat`) | reader, `last_tick`, `cooldown_until` | open, poll, detect a resume, `is_alive`, kill | the section, `TerminateProcess` |
| heartbeat (`shared/heartbeat.hpp`) | section, `last_tick_time` | create, open, tick, compare, close | shared memory between two processes |
| agent threads (`agent/main.cpp`) | `g_running`, `g_suspended`, `g_battery_saver`, mutex, condition variable | three worker loops, message loop, console handler, joins | shared flags, callbacks, `PostThreadMessage` |
| tag database (`shared/types.hpp`) | ten values, ten timestamps, atomics | `set`, `get`, `get_snapshot` | lock-free, two writing threads, one reading |
| sensors (`agent/sensors.cpp`) | PDH query, hook | start, two collections, hook callback, stop | set tags; callback on the main thread |
| controller (`agent/controller.cpp`) | last state, last stress | evaluate, stress, policy | reads a snapshot, returns adjustments |
| telemetry log (`Controller::log_snapshot`) | the log's files, whether a header is needed | look at the size, remove, rename, write | the file system, which outlives the agent |
| actuators (`agent/actuators.cpp`) | active scheme, queued and last applied values | find or duplicate the scheme, queue, commit | power API, which user and watchdog use too |
| governor (`agent/governor.cpp`) | last foreground PID, exclusions | scan, restore the foreground, limit the rest | process list, OS calls on other processes |
| inference (`agent/inference.cpp`) | ONNX session, power request | check the hash, run | called by the controller |
| configuration (`shared/config*.hpp`) | current section, values, globals | read line by line, convert, accept | read by all, once loaded |
| scoped handles (`shared/scoped_handle.hpp`) | a handle | get, reset, close | own what sensors, inference and watchdog get from Windows |
| logger (`shared/logger.hpp`) | a mutex and a stream | log | called by all |

### What is hard about it, and what makes it correct

* **Watchdog against agent.** Two processes and three threads run between a tick
  and the decision to kill. Correct: only a hanging agent is killed, every
  hanging agent is, soon; a failed agent leaves the machine on the fail-safe
  scheme; the watchdog itself never gets stuck; a restarted agent does not
  inherit its predecessor's section. Suspended machines and yielding agents are
  the difficult cases.
* **Shutdown of the agent.** Three ways to begin it, on two threads, against
  three waiting workers. Correct: nobody misses the notification, nobody works on
  what main is about to destroy, and it completes.
* **Lock-free telemetry.** Each tag is atomic, a snapshot is not. Correct is what
  can be promised nevertheless.
* **Commits.** A commit is up to seven calls to Windows, each may fail and the
  user may switch schemes between any two. Correct: the user's choice stands,
  the record of what is applied is true, Balanced is left alone.
* **Control.** A filter on the measurements (epsilon) feeds a filter on the
  adjustments (deadband), both with memory. Correct: no adjustment is lost, and
  slow drift does not add up.
* **Rotation.** A rotation of the telemetry log is a removal and a chain of
  renames whose results nobody looks at; the agent may be killed between two of
  them and come back with another number of files. Correct: the files stay in
  order, only the oldest records are lost, and the next rotations repair what one
  has left.
* **Configuration.** A line means what it means because of the lines before it; a
  value may be missing, empty, of the wrong type, or fit only together with
  others. Correct: the last line that sets something wins, and whatever a file
  says, the agent can work with what it ends up with.
* **Ownership.** Each handle may not have been got, and is closed on up to three
  paths. Correct: once each, and no power request stays set.
* **Units.** What a thermal zone reports has one of three units, told from its
  size. Correct: the temperature stored is that of the hottest zone.
* **Scans.** The foreground is sampled once per scan; windows and processes go on
  changing. Correct: the foreground ends up without limits, excluded processes
  never get any.

## Modules

| module | models | checked by |
|---|---|---|
| `Supervisor` | what the watchdog promises: one agent at a time, bounded recoveries, each from the fail-safe scheme | abstract specification, refined by `Watchdog` |
| `Heartbeat` | the section, writer, reader, ticks as ages | extended by `Watchdog` |
| `Watchdog` | main thread, monitor thread, control loop, environment, time | `MCWatchdog`, `WatchdogProofs` |
| `AgentThreads` | the agent's threads, flags, mutex, condition variable | `MCAgentThreads`, `AgentThreadsProofs` |
| `Measurements` | what the tag database promises: a snapshot is one answer to one question | abstract specification, refined by `TagDatabase` |
| `TagDatabase` | stores and loads of the tag database | `MCTagDatabase`, `TagDatabaseProofs` |
| `PowerSchemes` | power schemes, commit, user, fail-safe | `MCPowerSchemes`, `PowerSchemesProofs` |
| `ControlLoop` | the arithmetic from snapshot to applied values | `MCControlLoop`, `ControlLoopProofs` |
| `Governor` | scans, windows, processes | `MCGovernor`, `GovernorProofs` |
| `TelemetryLog` | the log, its rotation, agents that end and start | `MCTelemetryLog`, `TelemetryLogProofs` |
| `Handles` | owners of handles, and what Windows has open | extended by `Inference`, `Sensors` |
| `Configuration` | the file's lines, the typed getters, what is accepted | extended by `AgentProcess` |
| `Inference` | session, power request, an inference | extended by `AgentProcess` |
| `Sensors` | hook, query, counters, a collection | extended by `AgentProcess` |
| `AgentProcess` | main of the agent, composing the four above | `MCAgentProcess`, `AgentProcessProofs` |

### Correspondence with the code

**Watchdog.** `main` is the place of the watchdog's main thread: `start`
(`StartAgent`), `wait` (`WaitForSingleObject`), `join`, `assess` (exit code),
`backoff`, `stop0` and `stop1` (the two return codes). `mon` is the place of the
monitor thread: `open` (the reader's constructor), `retry` (the 30 rounds), `top`
(loop condition, elapsed time), `poll` (exit code, cooldown), `load` and
`compare` (the two halves of `is_alive`), `kill`, `sleep`, `done`. `ctl` is the
place of the agent's control loop: `init` (constructors of main), `boot` (the
writer's constructor), `top`, `work` (evaluate to commit), `wait` and `yield`
(its two `wait_for`), `done`. An action is named for its thread and its step.
`"apifail"` in `Env` lets every call to Windows fail, `GetExitCodeProcess` among them:
main presets its result to 0 and looks at nothing else, so a failed agent then counts
as one that ended well (`Conclude` of `Supervisor` under `VerdictMayFail`).

**Time.** Every stored `GetTickCount64()` is an age, every `Sleep` or `wait_for` a
timer. `Tick` advances all of them and may not pass the moment at which a thread
has to act: `MonitorLate` and `AgentLate` after it is due. Process start and a
hung thread take any time. `SystemSleep` advances the clock and no timer, and may
happen between any two steps.

**AgentThreads.** One action is one access another thread can interleave with.
Waiting is split as in the standard: the predicate is evaluated with the mutex
held, then the mutex is released and the thread enlisted in one step; it leaves
notified, spuriously or by timeout, and takes the mutex again.

**TagDatabase.** A value is abstracted to its version, so the properties can say
which set a snapshot has seen. Stores and loads are release and acquire on
different atomics; since every tag has one writer and the properties relate a tag
to itself or to tags stored in program order and loaded in program order, the
sequentially consistent interleaving has the same outcomes for them. `Measurements`
has one step for a `set` and two for a `get_snapshot`, the question and the answer;
`Promised` maps its `held` to `m_values`, its `asked` to `began`, and its answer to the
snapshot once it is complete (`Returned`).

**PowerSchemes.** One action per call to Windows, in the constructor (`AgentStart`,
`AgentDuplicate`, `AgentName`, `AgentGet`, `AgentActivate`) as in the commit; only the
calls that list the schemes and read their names are one, since nobody else makes
or renames a scheme meanwhile. Settings are whole steps on a scale, adjustments are
fractions of a step, on and off the scale: what is written is clamped and cut to a
DWORD (`Dword`), what is recorded as applied is the adjustment as it was queued, so
`AppliedWritten` relates the two (`Reaches`) and does not equate them. A NaN among
the adjustments, whose conversion is undefined, is left out. `chosen`, `raced` and
`exposed` record what the user and failing calls did, for the properties only.

**ControlLoop.** Real numbers are scaled so that the code's arithmetic is exact in
integers: the stress score is in 2000ths of a percent, adjustments and deadbands in
1600ths. Epsilon, the deadbands and the two intervals are any whole numbers of their
units, in any order and of any sign, as `load_from_file` takes them.
The logarithm of the queue length is a table, a CONSTANT.

**Governor.** A scan samples the foreground, takes the list and deals with its
entries in any order; opening a process and limiting it are two steps, since the
process may end between them. A PID is not given out again while a handle is open.
`paused` is `g_suspended || g_battery_saver`: `governor_thread` begins no scan then, a
scan that has begun goes on. `inherited` are the limits of an earlier agent on
processes that this one's list excludes; nobody takes them off, and
`ExcludedSpared` excepts them.

**TelemetryLog.** One action per call of `log_snapshot`: `LogSnapshot` (size and
decision to rotate), `RemoveOldest`, `Rename` (one round of the loop), `CheckHeader`,
`Open`, `Write`; each call in `Failing` may fail, and the write may get no further than
the header, or not that far. A file is the set of its records,
which are numbered in the order in which they are given, and sizes are in records.
`std::rename` fails if the destination exists, as it does on Windows. `AgentEnds`
may come at any step, `AgentStarts` may find another `max_rotated_files`. `failed`
and `trouble` record mishaps, for the properties only. Left out: a path without a
dot, for which the code makes no file names of its own, and negative limits.

**Configuration.** `ReadLine` is a round of the loop in `ConfigLoader::load`, by the
kind of its line: skipped, a header, a `[` without `]`, a pair. Texts are tokens;
`Lower`, `Parsed` and `Items` say what the library makes of them. The parser takes
comments after `;` off and leaves those after `#`, so a value is a text and whether
a `#` follows. `LoadFromFile` is `load_from_file` after that: a number is taken as it
is (the interval bounds too), the weights only together, the exclusions and the
model's path only if not empty, the log's path also if empty. `SetsLevel` is main's
second reading of the file, taken to find the same lines.

**AgentProcess.** `at` is where main is, from the file to the destructors.
`Constructs` is `InferenceManager`'s constructor: an exception may leave no session
or `half` a one. `Starts` and `Stops` are those of the sensors, `Collects` and
`Infers` are the telemetry thread and the control loop, as far as they touch what
main owns; how they are joined is `AgentThreads`. A counter that could not be added
is `null` if it is optional and `wild`, never set, otherwise (`sensors.hpp:36-40` do
not initialise them); reading a wild one finds nothing or anything. A NaN is one
value, which compares as IEEE says. `hottest` is what the zones really
measure, for the property only.

## Runs

| run | configuration | checks | result |
|---|---|---|---|
| `wd_awake` | `MCWatchdog_awake.cfg` | `NoFalseKill`, `HangDeadline`, `FailSafeAsserted`, `HangEnds` | hold |
| `wd_anything` | `MCWatchdog_anything.cfg` | `TypeOK`, `NoStaleSection`, `Supervised`, `Attended` | hold |
| `wd_attach` | `MCWatchdog_attach.cfg` | `SectionNoticed` | violated |
| `wd_saver` | `MCWatchdog_saver.cfg` | `NoFalseKill` | violated |
| `wd_resume` | `MCWatchdog_resume.cfg` | `NoFalseKill` | violated |
| `agent_threads` | `MCAgentThreads.cfg` | `TypeOK`, `NoLostWakeup`, `NoWorkAfterStop`, `ShutdownCompletes`, `ResumeTakesEffect` | hold |
| `tags` | `MCTagDatabase.cfg` | `TypeOK`, `SnapshotCurrent`, `StampNotStale`, `GroupInOrder`, `Promised` | hold |
| `power` | `MCPowerSchemes.cfg` | `TypeOK`, `UserChoiceStands`, `BalancedSpared`, `AppliedWritten` | hold |
| `control` | `MCControlLoop.cfg` | `TypeOK` (with `IntervalBounded`), `Settled`, `Tracks` | hold |
| `governor` | `MCGovernor.cfg` | `TypeOK`, `ExcludedSpared`, `CacheTruthful`, `ForegroundFreed` | hold |
| `telemetry` | `MCTelemetryLog.cfg` | `TypeOK`, `Ordered`, `Retained`, `SizeBounded`, `HeaderPlace`, `LosesOldest` | hold |
| `agent_process` | `MCAgentProcess.cfg` | `TypeOK`, `LastWins`, `Usable`, `Released`, `ReadingsTrue` | hold |

The operators commented as faults are not part of any specification. Each is a
plausible bug, put in the place of the definition after it to see that a property
of the run notices (`mutants` in `PROJECT.json`).

### What the violated runs show

1. `wd_attach`: the monitor's wait for the section tests an object that has
   already failed to open it. If the agent has not created the section when the
   monitor starts, the hang detection is off for this agent.
2. `wd_saver`: an agent that yields to battery saver (or to a suspend message)
   does not tick and is terminated after five seconds.
3. `wd_resume`: the cooldown after a resume notices a sleep between two passes of
   the monitor's loop, not one within a pass.

Each run checks a sentence of the repository's own documentation or comments,
quoted in the findings of `PROJECT.json`.

Three more of its sentences say more than the code does. No run is about them,
since the properties that hold name the exception:

* `README.md:23` speaks of an "Atomic Snapshot". `get_snapshot` loads tag after tag
  while two threads store; what holds instead is `SnapshotCurrent`,
  `StampNotStale` and `GroupInOrder`, together the answer `Measurements` promises.
* `README.md:74` calls the Balanced scheme known to be safe. An agent whose user has
  switched to Balanced tunes Balanced: `exposed` in `BalancedSpared`.
* `SECURITY.md:32` says that all counter readings are sanitized to reject NaN.
  `std::clamp` returns a NaN as it is, so the processor's and the disk's tags
  may be NaN (`sensors.cpp:118`, `:130`): the exception in `ReadingsTrue`. A NaN among
  the items of a counter is dropped by the `std::max` over them.

### Bounds, and why they are enough

* `MCWatchdog`: the unit is a second. `wd_awake` and the violated runs have the
  code's own timeouts, 5, 3, 2, 3 and 1; waits below a second are rounded up to
  it, which makes ticks rarer than they are. Lateness is one second, the largest
  the assumption `TimeoutSuffices` allows with these timeouts. `Horizon` is where ages saturate, beyond
  every threshold. One recovery (`MaxRecoveries = 1`) is enough to reach the
  restart, the second failure and the give-up. `wd_anything` has every kind of
  event at once and therefore smaller timeouts in the same order.
* `MCAgentThreads`: the control loop and one pausing worker; the third thread
  waits like the second. Four external events allow two Ctrl-C, a pause and a
  resume, or any such mix with spurious wakeups.
* `MCTagDatabase`: two groups of tags that the telemetry thread sets and the hook's
  tag, two sets of each: a snapshot can lie before, between and after the sets, and
  half in one group and half in the other.
* `MCPowerSchemes`: one parameter; the other is written in the same way after it, and
  the proofs are about any number. A scale of 0..2 in halves of a step, adjustments
  below the scale, within a step and above the scale, a deadband smaller and one
  larger than a step. One copy of the scheme; every call may fail.
* `MCControlLoop`: queue lengths 0 to 3 and 50, the extremes of the processor's
  load, the others fixed where their sum exceeds 100 percent; a tag outside the
  score that makes the state dirty. The weights add up to 1.009.
* `MCGovernor`: three PIDs: the foreground, its successor and a bystander, each
  of which may end and come back as another executable; every call may fail, and
  the agent may be paused at any time, for any time.
* `MCTelemetryLog`: up to three rotated files, hence a chain of three renames with a
  gap or an obstacle at each place; any maximum from 0 to 3 at each start; two
  records per file and seven in all, so that one rotation follows on another; any
  call may fail, any number of times.
* `MCAgentProcess`: any file of up to three lines of eighteen kinds: a header that is
  left, broken off, or of another section, a pair of each type, with and without
  comments, empty and unreadable. Three lines are what it takes to say something,
  leave the section and say it again. One zone in each unit and one that reports
  NaN, in any combination; each call that gets a handle may fail.

### Fairness

* `Watchdog`: weak fairness of each thread's steps and of `Tick`. A thread that
  can run is scheduled; time passes. Nothing is assumed of the environment: no
  failure, quit or message has to come.
* `AgentThreads`: strong fairness of each thread, because they compete for a
  mutex that is held for a few instructions; a `wait_for` has a time limit, so
  its timeout is one of the steps that do come.
* `Governor`: weak fairness of the scan: `governor_thread` takes another look at the
  flags after each interval. While it is paused no scan can begin, and fairness asks
  for none; an application that comes to the foreground under battery saver keeps
  its limits as long as that lasts. `ForegroundFreed` is about a foreground and
  running scans that stay so in the end.
* The others state safety only and assume none.

## Proofs

Proved for all values of the constants that satisfy the modules' named assumptions,
without the bounds of the runs. These assumptions are weaker than what the code
accepts or is run with, but for the following. `ControlAssumption`: measurements are
whole, not negative and never NaN, the weights are whole thousandths, deadbands and
Epsilon whole in their units, and the difference of the two intervals fits an `int`.
`LogAssumption`: limits are not negative, nor is `max_recovery_attempts` in
`WatchdogAssumption`. `PowerAssumption`: no adjustment is NaN, and its fractions are
multiples of some unit. What single theorems assume besides is in the last column.

| theorem | module | states | assumes besides the constants' types |
|---|---|---|---|
| `TypeCorrect` | `WatchdogProofs` | `[]TypeOK` | |
| `NoStaleSections` | | `[]NoStaleSection` | |
| `FailSafeAlways` | | `[]FailSafeAsserted` | the power scheme can be set |
| `NoFalseKills` | | `[]NoFalseKill` | no sleep, no battery saver, `TimeoutSuffices` |
| `HangDeadlines` | | `[]HangDeadline` | no sleep, `MonitorKeepsUp` |
| `SupervisedSafely` | | `Sup!SupSafety`, the refinement of `Supervisor` | |
| `ThreadsTypeCorrect` | `AgentThreadsProofs` | `[]TypeOK`, with mutual exclusion | |
| `NoWakeupLost` | | `[]NoLostWakeup` | |
| `NobodyWorksAfterStop` | | `[]NoWorkAfterStop` | |
| `TagsTypeCorrect` | `TagDatabaseProofs` | `[]TypeOK` | |
| `SnapshotsCurrent` | | `[]SnapshotCurrent` | |
| `StampsNotStale` | | `[]StampNotStale` | |
| `GroupsInOrder` | | `[]GroupInOrder` | `GroupsAssumption` |
| `NeverBack` | | `SnapshotsAdvance`, an action property no run has | |
| `DatabaseImplements` | | `Promised`, the refinement of `Measurements` | `GroupsAssumption` |
| `PowerTypeCorrect` | `PowerSchemesProofs` | `[]TypeOK` | |
| `UserChoiceAlways` | | `[]UserChoiceStands` | |
| `BalancedAlwaysSpared` | | `[]BalancedSpared` | |
| `AppliedAlwaysWritten` | | `AppliedWritten`, an action property | |
| `ControlTypeCorrect` | `ControlLoopProofs` | `[]TypeOK` | |
| `IntervalsBounded` | | `[]IntervalBounded` | |
| `AdjustmentsSettle` | | `[]Settled` | |
| `PolicyTracked` | | `[]Tracks` | |
| `GovernorTypeCorrect` | `GovernorProofs` | `[]TypeOK` | |
| `ExcludedAreSpared` | | `[]ExcludedSpared` | |
| `CacheIsTruthful` | | `[]CacheTruthful` | |
| `LogTypeCorrect` | `TelemetryLogProofs` | `[]TypeOK` | |
| `LogOrdered` | | `[]Ordered` | |
| `OldestIsLost` | | `LosesOldest`, an action property | |
| `HeadersInPlace` | | `[]HeaderPlace` | |
| `LogRetained` | | `[]Retained` | |
| `LogBounded` | | `[]SizeBounded` | |
| `ProcessTypeCorrect` | `AgentProcessProofs` | `[]TypeOK` | |
| `EverythingReleased` | | `[]Released` | |
| `AlwaysUsable` | | `[]Usable` | |
| `LastLineWins` | | `[]LastWins` | |
| `ReadingsAreTrue` | | `[]ReadingsTrue` | every zone's unit is told right (`Told`) |
| `UnitsTold` | | the range in which each unit is told right | |

Each argument is an inductive invariant, preserved by every action, one step of
the proof per action. What has to be added to the property, and why:

* **Watchdog.** `TypeOK` alone is not inductive: that `recoveries` stays in its
  bound needs that `backoff` is entered with attempts left (`AttemptsLeft`). The
  invariant is built in layers: `TypeInv`; `PlacesInv`, which places of the three
  threads go together (the monitor is off or done when main assesses, the control
  loop exists only in a live process, ...); `ContentsInv`, what the section holds
  by where its two handles are. They give `NoStaleSections`, `FailSafeAlways` and
  the refinement. `NoFalseKills` adds `TimingInv`: the tick of a responsive agent is
  never older than its timers allow (`AgentInv`), and what the monitor has loaded is
  older than the tick by at most its own lateness (`MonitorInv`). `HangDeadlines`
  needs `PassInv`: how long ago the monitor's last pass was, by where it is in its
  loop.
* **AgentThreads.** `TypeOK` says who holds the mutex and is inductive. `WakeInv`:
  once the notification is out, no worker is between a predicate it found false and
  its wait, because the notifying thread has held the mutex in between. `JoinInv`:
  past the join all workers are done, and a worker that is done stays so.
* **TagDatabase.** `WriterInv` keeps the writers to their own tags. From it
  `StampInv`: a timestamp lags its value by one set exactly while the tag's writer is
  between its two stores; and `LagInv`, which carries this over to what was loaded.
  `CurrentInv` extends currency to the part of a snapshot that has been filled.
  `QueueInv`: the tags of a group that are set are one version ahead of those that
  are not; `LoadOrderInv` carries this to a snapshot that has passed the first of two
  tags and not the second. It needs the groups to be disjoint and set in the order of
  `TagID` (`GroupsAssumption`), which `types.hpp:8-20` and `sensors.cpp:195-206` satisfy.
  `BehindInv`: a snapshot is never ahead of the database. The refinement follows step
  by step: storing a value is a measurement, the last load is the answer, for which
  the three properties above and `BehindInv` say all that is promised, every other
  step but the start of a snapshot is invisible.
* **PowerSchemes.** `DwordReaches`: what is written is a setting, and less than a step
  below the clamped adjustment. `HalfWritten`: between the two writes of a setting the first
  value is still where it was written. `ChoiceInv`: the scheme about to be
  re-activated is the active one unless the user raced. `SpareInv`: Balanced is
  neither active, nor the target, nor about to be re-activated.
* **ControlLoop.** Lemmas about the arithmetic: the clamped stress is on its scale
  whatever the weights (`StressRange`), interpolation cut towards zero stays between
  its ends in whichever order they are (`TruncateBounds`, `IntervalRange`), and a commit leaves nothing further off than
  its deadband (`CommitSettles`). For `Tracks`: a weighted sum moves by no more than
  the weights allow (`Product`, `StressNear`), clamping and the policy spread nothing
  further (`ClampNear`, `PolicyNear`), and `DriftInv`: a snapshot not acted on is
  within Epsilon of the last one that was.
* **Governor.** `ExclusionInv` says of the list and of the open handle what
  `ExcludedSpared` says of the limits. `CacheInv`: the process last seen bears limits
  only while the scan that saw it arrive has yet to reach its entry.
* **TelemetryLog.** `Ordered` needs more of the records than of the files. `FilesInv`:
  a file that is not there is empty, the log holds only records already given, and
  while a record is on its way to the log it is newer than all there are.
  A rename then moves records to a place with nothing above it that is newer, which
  is also why `LosesOldest` holds. `HeaderInv` relates `needed` to the log's contents by
  where `log_snapshot` is: one is only asked for while the log is empty.
  `SizeInv`: since the last rotation without trouble the log has room whenever it is
  opened, because in a rotation the place the next file moves to is free. `RetainInv`:
  while nothing has failed the files there are, are those up to some number, each
  holding `Limit` records, except for the one place a rotation is about to fill
  (`Hole`); and if anything has been lost, all are there. That files in order hold
  together what they hold one by one is `FilledHold`.
* **AgentProcess.** `ReleaseInv`: what is open is what its owner has (`Owned`), by the
  one lemma about `Reset`, and the request asks for execution during an inference
  only. `Usable` is carried over `LoadFromFile` by a case distinction per setting
  (`LoadUsable`); that the weights are taken together is what makes it go through.
  `ReadInv` for `LastWins`: the current section is that of the line to come, and the
  values are those of the lines so far (`LineRead` is the step). For `ReadingsTrue`:
  the loop over the items of a counter, a fold over a set in any order, finds the
  largest that is a number (`LargestFound`), so that what is stored is the hottest of
  the zones in degrees (`ZonesLargest`); `SensorsInv` is `ReadingsTrue` with what it
  needs of the counters and of where the agent is in its life.
  `UnitsTold` is arithmetic: degrees up to 200, kelvins above 200 and up to 1000 (that
  is, from 73 below zero), tenths of a kelvin above 100 K.

Claims about every finite set (what a fold returns, how many records the files
hold) are proved without the induction theorems, whose parameter is an operator
the provers cannot instantiate. Instead, of the finite sets for which the claim is
false one has no other as a part (`SmallestSet`, from the well-foundedness of the
strict subset order), and taking one element away contradicts that. `FilledHold`,
`HasLargest` and `LargestFound` are such arguments; the last first shows that there
is a function that satisfies the fold's recursive equation. They need the sets to be
finite, which `SensorsAssumption` says of the zones and the engines: they are arrays
that PDH has filled.

`ReadingsAreTrue` assumes of the zones what `UnitsTold` needs (`Told`), because the
code does misread others: one that reports kelvins and is colder than 73 below zero
is taken for degrees, and what is stored is the top of the scale.

Only model-checked: what holds under fairness (`Attended`, `HangEnds`, the liveness
part of `Supervised`, `ShutdownCompletes`, `ResumeTakesEffect`, `ForegroundFreed`),
since TLAPS has no rules for `ENABLED` and weak fairness that would be of use here.
Every invariant of the passing runs and every action property is stated by a
theorem above.

## Plan

In the order of importance; the first six, and the half of the eighth about the database, are done.

1. Watchdog with Heartbeat and Supervisor; its invariants and refinement proved.
2. The agent's threads, tag database, commits, control loop and governor, checked.
3. Proofs of their safety.
4. `TelemetryLog`: the rotation, rename after rename, each of which may fail.
5. `Configuration`: sections, keys and comments of the INI file, the checked and
   the unchecked values.
6. `AgentProcess`: the life of sensors and inference, counters that could not be
   added, handles, NaN in the collection.
7. NaN through the stress score, the dirty check and the deadband.
8. An abstract specification of what the tag database promises (`Measurements`), and
   of "what is applied" for the commit, with refinements.

## Not modelled, and why

* **NaN beyond the collection.** `Sensors` follows a NaN into the tags; what it does in
  the stress score, the dirty check and the conversion of an adjustment, where it is
  undefined behaviour, is left out of `ControlLoop` and `PowerSchemes`.
* **Logger.** Formatting and output. Its mutex is never held together with another
  one, so it cannot deadlock. The level main sets is part of `AgentProcess`.
* **Moves and release of handles, `ScopedLocalPtr`.** The first two have no caller; the
  pointers are freed within one call of `PowerSchemes`.
* **Hash, network, parsing of numbers.** Library calls: either result, an answer that
  is a parameter, a constant function.
* **The watchdog's configuration.** It loads the same file with the same function,
  before it starts anything.
* **Tests and scripts.** Tools beside the program.
* **Topology, efficiency mode, priority.** Single calls to Windows without state.
* **The watchdog's own Ctrl-C.** A console event ends the watchdog with the
  default handler; it keeps nothing that has to survive.
* **The weak memory model.** All shared variables are atomics with release and
  acquire order or default (sequentially consistent) order; see above for the
  tag database.
